SPECIFICATION Spec
CONSTANTS
    MaxSlots = 4
    SlotsPerSlab = 2
    MaxVersion = 1
    SingleSlab = FALSE
    HasAliveBit = TRUE
    Asserts = TRUE
    PartialWrites = FALSE
    AllocFails = TRUE
    Values = {v1}
    MaxCreated = 9
    SizeRange = 100
    ObjectRange = 16
PROPERTIES
    RangesGetSlabs
CHECK_DEADLOCK FALSE
