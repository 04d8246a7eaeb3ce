----------------------------- MODULE FaceBoard -----------------------------
(***************************************************************************)
(* What the face tracker of src/src/face_tracker.cpp promises the frame    *)
(* loop: a board on which the tracking thread puts the face it saw in the  *)
(* last frame, or that it saw none, and from which getFacePosition copies  *)
(* one whole entry.                                                        *)
(***************************************************************************)
CONSTANTS Faces, NoFace

VARIABLES
    board,      \* what the last frame showed
    answer      \* what getFacePosition answered, until the next call

boardVars == <<board, answer>>

BoardInit == board = NoFace /\ answer = NoFace

Post(f) == board' = f /\ UNCHANGED answer

Call == answer' = NoFace /\ UNCHANGED board

Copy == answer' = board /\ UNCHANGED board

BoardNext == Call \/ Copy \/ \E f \in Faces \cup {NoFace} : Post(f)

BoardSpec == BoardInit /\ [][BoardNext]_boardVars

=============================================================================
