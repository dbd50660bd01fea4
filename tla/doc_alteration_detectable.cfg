SPECIFICATION Spec
CONSTANTS
    Names <- SomeNames
    Refs = {"x", "y"}
    Payloads = {"p", "q"}
    Times <- SomeTimes
    NoRow = NoRow
CHECK_DEADLOCK FALSE
INVARIANT
    AlterationDetectable
