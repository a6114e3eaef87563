SPECIFICATION WalkSpec
CONSTANTS
    MaxSlots = 4
    SlotsPerSlab = 2
    MaxVersion = 1
    SingleSlab = FALSE
    HasAliveBit = TRUE
    Asserts = FALSE
    PartialWrites = FALSE
    AllocFails = FALSE
    Values = {v1}
    MaxCreated = 8
    ChunkSlots = 2
    MayErase = "other words"
PROPERTIES
    HandsOutLiveElements
    EachElementOnce
    WalkEnds
CHECK_DEADLOCK FALSE
