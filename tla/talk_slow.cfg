SPECIFICATION FairSpec
CONSTANTS
    Chunks = 3
    MaxDeltas = 2
    MaxInFlight = 3
    Faults = {"refuse"}
    SlowServer = TRUE
PROPERTY EndsOnItsAnswer
PROPERTY ConversationEnds
CHECK_DEADLOCK FALSE
