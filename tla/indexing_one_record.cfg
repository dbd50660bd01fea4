SPECIFICATION FairSpec
CONSTANTS
    r1 = r1
    r2 = r2
    w1 = w1
    w2 = w2
    Records = {r1}
    Workers = {w1, w2}
    NoRecord = NoRecord
    ChunkCount <- TwoChunks
    MaxDeliver = 2
    MaxRetry = 2
INVARIANTS
    TypeOK
    CompleteOrAbsent
    EventAfterRecord
    AckedIsIndexed
    OneWriterPerRecord
PROPERTIES
    NothingIsLost
    ImplementsPromise
    CreatedIsResolved
    CancelledStops
