SPECIFICATION FairSpec
CONSTANTS
    Flushers <- MCFlushers
    Cap = 4
    Window = 4
    MinRaw = 2
    Hangover = 2
    ChanCap = 1
    MaxFrames = 5
    MaxStarts = 2
INVARIANTS
    AudioConserved
    UtterancesWhole
    ChunkBounds
    FlushFlushes
PROPERTIES
    StopEnds
