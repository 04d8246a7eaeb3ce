CONSTANTS
    Targets <- MCTargets
    Faces <- MCFaces
    NoFace = NoFace
    MinHead <- MCMinHead
    MaxHead = 2
    Home = 0
    EyeFrames = 2
    WaitFrames = 3
    IntervalFrames = 14
    ClockMayStall = TRUE
SPECIFICATION FairSpec
INVARIANTS EyesComeBack ReadyForNextLook
PROPERTY KeepsLooking
