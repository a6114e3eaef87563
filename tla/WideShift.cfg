SPECIFICATION Spec
CONSTANTS
    Unit = 2
    KeyWidths = {16}
    IndexBitsRange = {8}
    Declared = {4, 16}
    SlotBytes = 2
    Limit = 16
    DefaultSize = 16
    MaxRanges = 129
INVARIANTS
    EveryIndexHasASlot
CHECK_DEADLOCK FALSE
