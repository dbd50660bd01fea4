SPECIFICATION ChunkerSpec
CONSTANTS
    Size = 10
    Overlaps <- SomeOverlaps
    Headers <- SomeHeaders
    Lengths <- SomeLengths
    Breaks <- SomeBreaks
    Inside = {}
CHECK_DEADLOCK FALSE
INVARIANTS
    ChunkerTypeOK
    NoByteLost
    FitsWindow
    KeepsOverlap
    FewWindows
    ParagraphsOnce
    LongPartIsAlone
    MergedWhileFits
    IndexesHaveNoGap
