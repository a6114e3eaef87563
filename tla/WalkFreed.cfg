SPECIFICATION WalkSpec
CONSTANTS
    MaxSlots = 4
    SlotsPerSlab = 2
    MaxVersion = 1
    SingleSlab = FALSE
    HasAliveBit = TRUE
    Asserts = FALSE
    PartialWrites = FALSE
    AllocFails = FALSE
    Values = {v1}
    MaxCreated = 5
    ChunkSlots = 1
    MayErase = "nothing"
INVARIANTS
    ReadsExistingSlab
CHECK_DEADLOCK FALSE
