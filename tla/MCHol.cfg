CONSTANTS
    U16Mod = 8
    U32Mod = 16
    U64Mod = 64
    Sources = {1}
    MTU = 5
    SizeofType1 = 1
    SizeofType2 = 3
    Calls <- TwoFragments
    StartNumbers = {6}
    MaxFrames = 3
    MaxDelay = 1
    Window = 3
    LastSend = 2
    JoinBy = 2
    MaxNow = 4
    RingSize = 4
    NStreams = 2
    BucketTimeoutMs = 1
    HolTimeoutMs = 1
    UsPerMs = 1
    AllocMayFail = FALSE
    Noise <- NoNoise
SPECIFICATION Spec
INVARIANTS
    TypeOK
    OrdersFollowTheStream
    NothingDueIsKept
    TooOldMeansDelivered
    NoEarlyGiveUp
PROPERTIES
    IsFrameChannel
CHECK_DEADLOCK FALSE
