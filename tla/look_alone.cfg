CONSTANTS
    Targets <- MCTargets
    Faces <- NoFaces
    NoFace = NoFace
    MinHead <- MCMinHead
    MaxHead = 2
    Home = 0
    EyeFrames = 2
    WaitFrames = 3
    IntervalFrames = 14
    ClockMayStall = FALSE
SPECIFICATION FairSpec
INVARIANT HeadComesBack
PROPERTY ImplementsGlance
