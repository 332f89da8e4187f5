\* One request at a time about four tables, two of which share a key.
SPECIFICATION Spec
CONSTANTS
    h1 = h1
    h2 = h2
    a = a
    b = b
    c = c
    NoHandler = NoHandler
    Labels = {a, b, c}
    Partitions = {byDay}
    NoPartition = NoPartition
    Unknown = Unknown
    Handlers = {h1}
    Datasets <- TwoDatasets
    TableIds <- TwoTables
INVARIANT
    EveryTableEchoed
