SPECIFICATION FairSpec
CONSTANTS
    Peers <- MCPeers
    Publishers <- MCPublishers
    Names <- MCNames
    Filters <- MCFilters
    Room = 1
    MaxCommands = 2
    MaxEvents = 2
INVARIANTS
    NothingMissed
    DeadReaped
    RepliesInOrder
PROPERTIES
    CommandsAnswered
CHECK_DEADLOCK FALSE
