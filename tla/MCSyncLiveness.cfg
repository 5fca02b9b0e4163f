CONSTANTS
    tuple1 = tuple1
    tuple2 = tuple2
    path1 = path1
    value1 = value1
    value2 = value2
    NoValue = NoValue
    Tuples <- MCTuples
    Guarded <- MCTuples
    Admits <- MCAdmits
    MaxRevision = 2
    Paths <- MCPaths
    Values <- MCValues
    Environments <- Liveness
SPECIFICATION FairSpec
PROPERTIES
    CatchesUp
CHECK_DEADLOCK FALSE
