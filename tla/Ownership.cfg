SPECIFICATION Spec
CONSTANTS
    MaxSlots = 2
    MaxVersion = 1
    SlabSizes = {1, 2}
    Maps = {a, b}
    Temp = temp
    Values = {v1}
    Ids = {1, 2, 3, 4, 5, 6}
    MaxCreated = 3
SYMMETRY MapSymmetry
INVARIANTS
    OneOwner
    MembersFollowSlabs
PROPERTIES
    MapsAreValues
CHECK_DEADLOCK FALSE
