SPECIFICATION Spec
CONSTANTS
    IndexBits = 2
    VersionBits = 2
    UserBits = 2
    UserDigits = 3
    DefaultUserBits = 7
    Asserts = FALSE
    Holders = {k1, k2}
INVARIANTS
    KeysSayWhatTheyMean
    SameObjectIgnoresTags
    OrderIsByTagVersionIndex
    OnlyNullIsNull
