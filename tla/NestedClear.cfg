SPECIFICATION ReentrySpec
CONSTANTS
    MaxSlots = 4
    SlotsPerSlab = 2
    MaxVersion = 1
    SingleSlab = FALSE
    HasAliveBit = TRUE
    Asserts = TRUE
    PartialWrites = FALSE
    AllocFails = FALSE
    Values = {v1}
    MaxCreated = 4
    Nested = {"clear"}
    MaxDepth = 2
INVARIANTS
    SizeCountsElements
CHECK_DEADLOCK FALSE
