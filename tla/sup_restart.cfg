SPECIFICATION FairSpec
CONSTANTS
    ConfiguredPort = 0
    Ephemeral <- MCEphemeral
    Initial = 1
    Max = 3
    MaxSpawns = 3
INVARIANTS
    OneServerAtATime
PROPERTIES
    EndpointStable
    EndsWhenTold
CHECK_DEADLOCK FALSE
