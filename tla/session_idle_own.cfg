SPECIFICATION Spec
CONSTANTS
    Clients = {c1}
    Callbacks = {k1}
    NoThread = NoThread
    GraceExpires = FALSE
    MaxEpoch = 3
    c1 = c1
    k1 = k1
PROPERTIES
    IdleClosesOwnSession
CHECK_DEADLOCK FALSE
