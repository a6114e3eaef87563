SPECIFICATION Spec
CONSTANTS
    MaxSlots = 4
    SlotsPerSlab = 4
    MaxVersion = 1
    SingleSlab = TRUE
    HasAliveBit = TRUE
    Asserts = TRUE
    PartialWrites = TRUE
    AllocFails = FALSE
    Values = {v1}
    MaxCreated = 9
    SizeRange = 100
    ObjectRange = 16
INVARIANTS
    FreeListSound
CHECK_DEADLOCK FALSE
