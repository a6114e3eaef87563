SPECIFICATION WalkSpec
CONSTANTS
    MaxSlots = 4
    SlotsPerSlab = 4
    MaxVersion = 2
    SingleSlab = TRUE
    HasAliveBit = FALSE
    Asserts = TRUE
    PartialWrites = FALSE
    AllocFails = FALSE
    Values = {v1}
    MaxCreated = 12
    ChunkSlots = 2
    MayErase = "other words"
INVARIANTS
    FreeListSound
    ReadsExistingSlab
PROPERTIES
    IssuesFreshKey
    StaleKeysStayInvalid
    HandsOutLiveElements
    EachElementOnce
CHECK_DEADLOCK FALSE
