CONSTANTS
    U16Mod = 8
    U32Mod = 16
    U64Mod = 64
    Sources = {1}
    MTU = 5
    SizeofType1 = 1
    SizeofType2 = 3
    Calls <- MCCalls
    StartNumbers <- MCStartNumbers
    MaxFrames = 2
    Headroom = 3
SPECIFICATION ZeroCopySpec
INVARIANTS
    SenderTypeOK
    NumbersConsecutive
    NoCalculationError
    FragmentsCoverPacket
    FragmentNoFitsBitset
    SameFragments
    HeadersInTheirRoom
PROPERTIES
    IsSender
