SPECIFICATION ReentrySpec
CONSTANTS
    MaxSlots = 4
    SlotsPerSlab = 2
    MaxVersion = 1
    SingleSlab = FALSE
    HasAliveBit = TRUE
    Asserts = TRUE
    PartialWrites = FALSE
    AllocFails = FALSE
    Values = {v1}
    MaxCreated = 6
    Nested = {"use", "erase", "pop"}
    MaxDepth = 2
INVARIANTS
    SizeCountsElements
PROPERTIES
    CallsActAtomically
CHECK_DEADLOCK FALSE
