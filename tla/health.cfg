SPECIFICATION HealthSpec
CONSTANT
    Requests = {q1}
INVARIANTS
    OkWasTrue
    DegradedForCause
