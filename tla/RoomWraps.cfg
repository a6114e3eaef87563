SPECIFICATION Spec
CONSTANTS
    Unit = 2
    KeyWidths = {8}
    IndexBitsRange = {7}
    Declared = {4, 16}
    SlotBytes = 2
    Limit = 16
    DefaultSize = 16
    MaxRanges = 129
INVARIANTS
    RangesNeverWrap
CHECK_DEADLOCK FALSE
