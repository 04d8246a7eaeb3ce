SPECIFICATION Spec
CONSTANTS
    MaxChunks = 2
    MaxPlayers = 2
    MaxConnections = 2
INVARIANTS
    TypeOK
    ConnectionUsedOnce
    MicReleased
PROPERTIES
    KeepsOrder
    QueueDrains
    KeepsListening
    EventsTakenUp
CHECK_DEADLOCK FALSE
