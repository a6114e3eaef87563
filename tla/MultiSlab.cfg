SPECIFICATION SpecUntilRecycle
CONSTANTS
    MaxSlots = 4
    SlotsPerSlab = 2
    MaxVersion = 2
    SingleSlab = FALSE
    HasAliveBit = TRUE
    Asserts = TRUE
    PartialWrites = FALSE
    AllocFails = TRUE
    Values = {v1, v2}
    MaxCreated = 12
    SizeRange = 100
    ObjectRange = 12
SYMMETRY ValueSymmetry
INVARIANTS
    FreeListSound
    AccountingExact
    LiveKeysIssued
    KeyInv
    SlotsAddUp
    LifetimeExact
PROPERTIES
    OnlyClearDropsSlots
    IssuesFreshKey
    StaleKeysStayInvalid
    StoreImplemented
