SPECIFICATION Spec
CONSTANTS
    a1 = a1
    a2 = a2
    b1 = b1
    c1 = c1
    A = A
    B = B
    C = C
    e1 = e1
    e2 = e2
    None = None
    Malformed = Malformed
    Rows = {a1, a2, b1, c1}
    RecordOf <- TheRecords
    EntityOf <- TheEntities
    TimeOf <- TheTimes
    Text <- TheTexts
    Scores = {1, 2, 3}
    Asks <- SomeAsks
    DefaultLimit = 2
    MaxLimit <- SomeMaxLimits
    MaxContext = 10
CHECK_DEADLOCK FALSE
INVARIANTS
    QueryTypeOK
    OneBlockPerRecord
    NothingBetterDropped
    LongestThatFits
    Grounded
