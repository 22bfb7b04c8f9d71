SPECIFICATION FairSpec
CONSTANTS
    Peers <- MCPeers
    Publishers <- MCPublishers
    Names <- MCNames
    Filters <- MCFilters
    Room = 1
    MaxCommands = 1
    MaxEvents = 1
PROPERTIES
    ServeEnds
CHECK_DEADLOCK FALSE
