SPECIFICATION Spec
CONSTANTS
    MaxSlots = 4
    SlotsPerSlab = 2
    MaxVersion = 1
    SingleSlab = FALSE
    HasAliveBit = TRUE
    Asserts = TRUE
    PartialWrites = TRUE
    AllocFails = TRUE
    Values = {v1}
    MaxCreated = 9
    SizeRange = 100
    ObjectRange = 16
INVARIANTS
    TypeOK
    LookupsAgree
    SizeNeverWraps
CHECK_DEADLOCK FALSE
