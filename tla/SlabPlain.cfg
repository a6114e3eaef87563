SPECIFICATION CloneSpec
CONSTANTS
    SlotsPerSlab = 3
    MaxVersion = 1
    AliveBit = 1
    ByteBits = 2
    AllowAliveBit = TRUE
    DebugMode = TRUE
    FreshBits = {0}
    Values = {v1, v2}
INVARIANTS
    LookupFindsTheLife
PROPERTIES
    SlabKeepsPromise
CHECK_DEADLOCK FALSE
