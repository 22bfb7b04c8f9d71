SPECIFICATION FairSpec
CONSTANTS
    MaxUtterances = 3
    MaxEpoch = 2
    QueueCap = 2
    MaxConcurrent = 2
INVARIANTS
    ReadyClosedOnce
    TokensAccounted
    
PROPERTIES
    KeepsOrder
    LineDrains
    SaidIsTyped
    WorkerGoesDown
    TokensComeBack
CHECK_DEADLOCK FALSE
