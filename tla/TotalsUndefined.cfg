SPECIFICATION Spec
CONSTANTS
    Unit = 2
    KeyWidths = {16}
    IndexBitsRange = {3, 4}
    Declared = {4, 16}
    SlotBytes = 2
    Limit = 16
    DefaultSize = 16
    MaxRanges = 129
INVARIANTS
    TotalObjectsExact
CHECK_DEADLOCK FALSE
