SPECIFICATION FairSpec
CONSTANTS
    a = a
    b = b
    Ids = {1, 2, 3, 4}
    Times = {1, 2}
    Kinds = {a, b}
    AnyKind = AnyKind
    NoCursor = NoCursor
    DefaultLimit = 2
    MaxLimit = 1
CHECK_DEADLOCK FALSE
INVARIANTS
    ListTypeOK
    NoRepeats
    ListedExactly
PROPERTY
    ListingEnds
