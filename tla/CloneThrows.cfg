SPECIFICATION CloneSpec
CONSTANTS
    SlotsPerSlab = 3
    MaxVersion = 1
    AliveBit = 2
    ByteBits = 2
    AllowAliveBit = TRUE
    DebugMode = FALSE
    FreshBits = {0, 1}
    Values = {v1}
INVARIANTS
    ThrownCloneBalances
CHECK_DEADLOCK FALSE
