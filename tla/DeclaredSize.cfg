SPECIFICATION Spec
CONSTANTS
    Unit = 2
    KeyWidths = {8}
    IndexBitsRange = {3}
    Declared = {4, 16}
    SlotBytes = 2
    Limit = 16
    DefaultSize = 16
    MaxRanges = 129
INVARIANTS
    DeclaredSlabSizeUsed
CHECK_DEADLOCK FALSE
