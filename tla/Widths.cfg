SPECIFICATION Spec
CONSTANTS
    Unit = 2
    KeyWidths = {4, 8}
    IndexBitsRange = {1, 2, 3, 4, 5, 6, 7}
    Declared = {4, 16}
    SlotBytes = 4
    Limit = 16
    DefaultSize = 16
    MaxRanges = 129
INVARIANTS
    EveryIndexHasASlot
    RangesWithinIndexSpace
    TotalObjectsExact
CHECK_DEADLOCK FALSE
