CONSTANTS
    U16Mod = 8
    U32Mod = 16
    U64Mod = 64
    Sources = {1}
    MTU = 5
    SizeofType1 = 1
    SizeofType2 = 3
    Calls <- TwoFragments
    StartNumbers = {}
    MaxFrames = 3
    MaxDelay = 0
    Window = 3
    LastSend = 0
    JoinBy = 2
    MaxNow = 3
    RingSize = 4
    NStreams = 2
    BucketTimeoutMs = 1
    HolTimeoutMs = 1
    UsPerMs = 1
    AllocMayFail = FALSE
    WorkerSleep = 1
    StopIsCalled = FALSE
    CallbackLocks = FALSE
    MaxPolls = 2
SPECIFICATION FairSpec
INVARIANTS
    TypeOK
    ReadyWhileQueued
    NoEarlyGiveUp
PROPERTIES
    IsFrameChannel
    AcceptedIsDelivered
CHECK_DEADLOCK FALSE
