SPECIFICATION FairSpec
CONSTANTS
    r1 = r1
    r2 = r2
    r3 = r3
    r4 = r4
    r5 = r5
    Records = {r1, r2, r3, r4, r5}
    ChunkCount <- SomeCounts
    Self = Self
    NoRecord = NoRecord
    BatchSize = 2
    MaxRetry = 3
CHECK_DEADLOCK FALSE
INVARIANTS
    AttemptTypeOK
    WholeAttempt
PROPERTIES
    ImplementsWorker
    AttemptReturns
