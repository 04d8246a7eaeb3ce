SPECIFICATION SoundSpec
CONSTANTS
    Producers = {"ws", "speech"}
    MaxChunks = 6
    OutputOpens = {TRUE, FALSE}
    MaxConversations = 3
    MaxReads = 2
    MaxDeltas = 2
INVARIANTS
    SoundTypeOK
    NoLostWakeup
    AtMostOneMicLost
    RecoversNextTime
    EveryReadIsReplayed
PROPERTIES
    KeepsOrder
    EverythingIsHeard
    ReplayEnds
CHECK_DEADLOCK FALSE
