CONSTANTS
    U16Mod = 4
    U32Mod = 8
    U64Mod = 16
    HeaderSize = 2
    DataSizes <- MCDataSizes
    PayloadSizes = {0, 1, 3}
    MaxBlocks = 2
SPECIFICATION EmbeddedSpec
INVARIANTS
    EmbeddedComesBack
    CallbacksCoverPacket
CHECK_DEADLOCK FALSE
