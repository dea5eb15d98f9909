CONSTANTS
    U16Mod = 8
    U32Mod = 16
    U64Mod = 64
    Sources = {1}
    MTU = 5
    SizeofType1 = 1
    SizeofType2 = 3
    Calls <- AllSizes
    StartNumbers = {}
    MaxFrames = 2
    MaxDelay = 1
    Window = 3
    LastSend = 0
    JoinBy = 2
    MaxNow = 2
    RingSize = 2
    NStreams = 2
    BucketTimeoutMs = 1
    HolTimeoutMs = 0
    UsPerMs = 1
    AllocMayFail = FALSE
    Noise <- StrangeFragments
SPECIFICATION Spec
INVARIANTS
    DeliveredIsWhatWasSent
    WritesInBounds
    MapMatchesBuckets
    FragmentsAccounted
    NothingDueIsKept
    NoEarlyGiveUp
CHECK_DEADLOCK FALSE
