CONSTANTS
    tuple1 = tuple1
    tuple2 = tuple2
    path1 = path1
    value1 = value1
    value2 = value2
    NoValue = NoValue
    Tuples <- MCTuples
    Guarded <- MCTuples
    Admits <- MCAdmits
    MaxRevision = 2
    Paths <- MCPaths
    Values <- MCValues
    Environments <- MissedDelete
SPECIFICATION Spec
INVARIANT RebootstrapReplacesState
CHECK_DEADLOCK FALSE
