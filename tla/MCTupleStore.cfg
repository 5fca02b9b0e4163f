CONSTANTS
    aliceOwner = aliceOwner
    bobOwner = bobOwner
    teamOwner = teamOwner
    aliceViewer = aliceViewer
    owner = owner
    viewer = viewer
    alice = alice
    bob = bob
    team = team
    m1 = m1
    m2 = m2
    Tuples <- AllTuples
    Keys <- AllKeys
    Users <- AllUsers
    KeyOf <- KeyOfTuple
    UserOf <- UserOfTuple
    Direct <- DirectTuples
    Admitted <- Admissible
    MinHolders <- Required
    Batches <- Swap
    Callers = {c1, c2}
    Names <- AllNames
    Computed <- Results
    Runners = {r1, r2}
    MaxRegistrations = 2
    MaxChanges = 1
    Callback <- CallbackOf
    Rank <- Order
    Unions <- AllUnions
    Nobody = nobody
    MaxTuplePageSize = 2
    LongKeys <- Longest
    Settings <- MCSettings
SYMMETRY StoreSymmetry
SPECIFICATION PagingSpec
INVARIANTS
    ReplicaConverges
    MaterializedFresh
    ScanComplete
    BoundedInsertSelectsPage
PROPERTIES
    FloorRetained
    ImplementsTupleSet
