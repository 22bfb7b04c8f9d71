SPECIFICATION AutoFairSpec
CONSTANTS
    Subs <- MCSubs
    Polling <- MCPolling
    NoSub = NoSub
    OutCap = 1
    MaxChanges = 2
INVARIANTS
    OneSourceSpeaks
    OnlyLosersStopped
PROPERTIES
    WinnerHeard
    UnwantedEnds
CHECK_DEADLOCK FALSE
