SPECIFICATION FairSpec
CONSTANTS
    Requests = {q1, q2}
    Keys = {k1, k2}
    PoolSize = 1
    Malformed = Malformed
    NoRequest = NoRequest
CHECK_DEADLOCK FALSE
INVARIANTS
    ApiTypeOK
    LastUsedIsRecent
PROPERTIES
    ServedWasActive
    RefusedForCause
    EveryRequestEnds
    TermEnds
