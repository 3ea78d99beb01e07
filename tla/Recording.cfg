SPECIFICATION FairSpec
CONSTANTS
    Files = {1, 2}
    Devices = {1}
    NoIndex = NoIndex
    BlockSize = 4
    HeaderSize = 1
    MaxIndex = 2
    Chunks = {1, 2}
    Unflushed = 1
    RepairMax = 1
    MaxTime = 3
    MaxTracks = 2
    MaxBytes = 5
INVARIANTS
    FitsBlock
    TornOnlyAtSplits
    IndexExact
PROPERTIES
    RepairEnds
