SPECIFICATION FairSpec
CONSTANTS
    Clients = {c1}
    Callbacks = {k1, k2}
    NoThread = NoThread
    GraceExpires = FALSE
    MaxEpoch = 2
    c1 = c1
    k1 = k1
    k2 = k2
INVARIANTS
    IdleDeadlineStands
PROPERTIES
    EveryCallReturns
    TypeSessionCloses
CHECK_DEADLOCK FALSE
