SPECIFICATION FairSpec
CONSTANTS
    Threads = {"main"}
    Moves <- MCSingleMoves
    StartPos <- MCStart
    MinPos <- MCMin
    MaxPos <- MCMax
    NotSent = NotSent
    MaxCalls = 4
INVARIANTS
    CommandsWithinLimits
PROPERTY ImplementsHeadServo
CHECK_DEADLOCK FALSE
