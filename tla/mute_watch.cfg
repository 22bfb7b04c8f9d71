SPECIFICATION FairSpec
CONSTANTS
    Setups <- MCSetups
    NudgeCap = 1
    MaxPresses = 3
    MaxLosses = 1
INVARIANTS
    SuspendedMeansOff
    TracksSource
PROPERTIES
    MutingCloses
