CONSTANTS
    t1 = t1
    t2 = t2
    c1 = c1
    c2 = c2
    a1 = a1
    Tenants <- MCTenants
    NoTenant = NoTenant
    Callers <- MCCallers
    Challenges <- MCChallenges
    Authorities <- MCAuthorities
    MaxEpoch = 2
    MaxLease = 2
    MaxTime = 5
    MaxStarts = 2
    Skew = 1
    MaxChallenges = 2
    MaxFrames = 2
SPECIFICATION Spec
SYMMETRY Symmetry
INVARIANTS
    RestrictionHoldsNoLease
    FencedAfterLease
    LeaseMintedForThisProcess
PROPERTIES
    AuthorityIsSticky
