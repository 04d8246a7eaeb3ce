SPECIFICATION Spec
CONSTANTS
    Chunks = 2
    MaxDeltas = 1
    MaxInFlight = 3
    Faults = {"refuse", "close"}
    SlowServer = FALSE
INVARIANTS
    SendersApart
    AudioHasPlayer
PROPERTY ImplementsDialogue
CHECK_DEADLOCK FALSE
