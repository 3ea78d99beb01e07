SPECIFICATION TracksSpec
CONSTANTS
    Blocks = {1, 2}
    MaxTime = 3
    MaxTracks = 2
    MaxSerial = 2
INVARIANTS FilesFound InTimeOrder OpenIsLive
CHECK_DEADLOCK FALSE
