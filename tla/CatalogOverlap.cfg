\* Two requests at a time about one dataset and its table, raw SQL between any two
\* steps, failing statements and restarts; fairness, so no symmetry.
SPECIFICATION FairSpec
CONSTANTS
    h1 = h1
    h2 = h2
    a = a
    b = b
    c = c
    NoHandler = NoHandler
    Labels = {a, b, c}
    Partitions = {byDay}
    NoPartition = NoPartition
    Unknown = Unknown
    Handlers = {h1, h2}
    Datasets <- OneDataset
    TableIds <- OneTable
INVARIANTS
    TypeOK
    StoresAgree
    TableAnswersTrue
    PartitioningEchoed
PROPERTIES
    ImplementsRegistry
    RequestsAnswered
