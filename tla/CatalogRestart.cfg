\* A dataset made through the API, and a restart.
SPECIFICATION Spec
CONSTANTS
    h1 = h1
    h2 = h2
    a = a
    b = b
    c = c
    NoHandler = NoHandler
    Labels = {a, b, c}
    Partitions = {byDay}
    NoPartition = NoPartition
    Unknown = Unknown
    Handlers = {h1, h2}
    Datasets <- OneDataset
    TableIds <- OneTable
INVARIANT
    DatasetsPersist
