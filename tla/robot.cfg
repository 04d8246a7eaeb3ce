SPECIFICATION FairSpec
CONSTANTS
    Faces <- MCFaces
    NoFace = NoFace
INVARIANTS
    TornDownAlone
PROPERTIES
    ImplementsFaceBoard
    EscEndsProgram
    SeesWhatIsThere
CHECK_DEADLOCK FALSE
