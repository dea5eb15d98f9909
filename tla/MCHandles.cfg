CONSTANTS
    Threads <- MCThreads
    Creators <- OneCreator
    ReceiveCallbackSends = FALSE
    MaxInits = 3
    MaxCalls = 8
SPECIFICATION FairSpec
INVARIANTS
    HandleNamesItsObject
    EndedAreCollected
PROPERTIES
    EveryCallReturns
CHECK_DEADLOCK FALSE
