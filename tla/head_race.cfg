SPECIFICATION Spec
CONSTANTS
    Threads = {"main", "ws"}
    Moves <- MCRaceMoves
    StartPos <- MCStart
    MinPos <- MCMin
    MaxPos <- MCMax
    NotSent = NotSent
    MaxCalls = 2
INVARIANTS
    OverrunIsOwned
    QuiescentWithinLimits
CHECK_DEADLOCK FALSE
