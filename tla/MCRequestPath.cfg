SPECIFICATION Spec
CONSTANTS
    g1 = g1
    g2 = g2
    Callers = {g1, g2}
    Kids = {"k1", "k2"}
    Sessions = {"s1", "s2"}
    KeyTTL = 3
    MinForceInterval = 1
    FetchTimeout = 1
    Skew = 1
    MaxAge = 1
    Leeway = 1
    SnapshotTTL = 2
    NegativeTTL = 1
    MaxEntries = 1
    MaxSeen = 1
    Deployments <- MCDeployments
SYMMETRY CallerSymmetry
INVARIANTS
    UnknownIsTrue
    RetiredKeyEnds
    AcceptedOnceInWindow
    OneReportPerReset
    RevokedStaysOut
    BoundTokenProven
CHECK_DEADLOCK FALSE
