SPECIFICATION FairSpec
CONSTANTS
    Chunks = 2
    MaxDeltas = 1
    MaxInFlight = 3
    Faults = {}
    SlowServer = FALSE
PROPERTY ConversationEnds
CHECK_DEADLOCK FALSE
