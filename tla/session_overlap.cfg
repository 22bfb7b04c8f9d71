SPECIFICATION Spec
CONSTANTS
    Clients = {c1, c2}
    Callbacks = {k1}
    NoThread = NoThread
    GraceExpires = TRUE
    MaxEpoch = 2
    c1 = c1
    c2 = c2
    k1 = k1
INVARIANTS
    CaptureFollowsSession
PROPERTIES
    ImplementsEpochs
SYMMETRY ClientSymmetry
CHECK_DEADLOCK FALSE
