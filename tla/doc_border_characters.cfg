SPECIFICATION ChunkerSpec
CONSTANTS
    Size = 10
    Overlaps <- SomeOverlaps
    Headers <- SomeHeaders
    Lengths <- SomeLengths
    Breaks <- SomeBreaks
    Inside = {10}
CHECK_DEADLOCK FALSE
INVARIANT
    BordersBetweenCharacters
