SPECIFICATION Spec
CONSTANTS
    Scenes <- MCScenes
    FrameSkip = 2
    MaxMissed = 2
INVARIANTS
    LagIsBounded
PROPERTIES
    NeverOvershoots
    SettlesOnPerson
