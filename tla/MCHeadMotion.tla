--------------------------- MODULE MCHeadMotion ---------------------------
(***************************************************************************)
(* Values of HeadMotion's constants: the limits and the start position are *)
(* those of servos.cpp; the moves are those the source passes to           *)
(* move_head, those that cross a limit included.                           *)
(***************************************************************************)
EXTENDS HeadMotion

At(x, y) == [a \in Axis |-> IF a = "x" THEN x ELSE y]

MCStart == At(950, 1680)
MCMin == At(0, 1400)
MCMax == At(2000, 1900)

\* Keys of the main loop (main.cpp:101-106) and a look with its return
\* (main.cpp:190, 213; a random target scaled by HEAD_SCALE).
KeyMoves  == {At(900, 0), At(-900, 0), At(0, 200), At(0, -200)}
LookMoves == {At(100, -50), At(-100, 50)}
\* The move_head tool (speak.cpp:75-80).
ToolMoves == {At(600, 0), At(-600, 0)}

\* Before a conversation is started only the main loop moves the head.
MCSingleMoves == [t \in Threads |-> KeyMoves \cup LookMoves]

\* During a conversation the model's tool calls arrive while keys are pressed.
MCRaceMoves == [t \in Threads |->
    IF t = "main" THEN {At(900, 0), At(-900, 0)} ELSE ToolMoves]

=============================================================================
