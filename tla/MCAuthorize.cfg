SPECIFICATION Spec
CONSTANTS
    c1 = c1
    c2 = c2
    Calls = {c1, c2}
    Deployments <- MCDeployments
SYMMETRY CallSymmetry
INVARIANTS
    OneGeneration
    NoFallbackOnError
    ServedUnderLease
    ServedFresh
    LogTellsOutcome
CHECK_DEADLOCK FALSE
