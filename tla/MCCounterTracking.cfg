CONSTANTS
    U16Mod = 8
    U32Mod = 16
    U64Mod = 32
    MaxNumber = 45
SPECIFICATION BoundedSpec
INVARIANT OrderIsNumber
