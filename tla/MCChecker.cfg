CONSTANTS
    alice = alice
    team1 = team1
    doc1 = doc1
    doc2 = doc2
    Objects <- AllObjects
    TypeOf <- TypeOfObject
    Relations <- AllRelations
    Tuples <- AllTuples
    RawModels <- AllModels
    Questions <- AllQuestions
    Contexts <- AllContexts
    MaxChanges = 1
    MaxListReads = 4
    MaxDepth = 6
SPECIFICATION FairSpec
INVARIANTS
    CheckIsSound
    CheckIsComplete
    ListObjectsExact
    ListUsersComplete
PROPERTIES
    CheckEnds
CHECK_DEADLOCK FALSE
