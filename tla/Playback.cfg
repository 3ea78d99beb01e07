SPECIFICATION FairSpec
CONSTANTS
    MaxUnits = 5
    MaxSecond = 4
    MaxFiles = 3
    MaxChunk = 2
INVARIANTS
    InOrder
    StartsInTime
    StopsInTime
PROPERTIES
    PlaybackEnds
CHECK_DEADLOCK FALSE
