CONSTANTS
    Threads <- MCThreads
    Creators <- MCThreads
    ReceiveCallbackSends = FALSE
    MaxInits = 4
    MaxCalls = 4
SPECIFICATION Spec
INVARIANT HandleNamesItsObject
CHECK_DEADLOCK FALSE
