----------------------------- MODULE HeadServo -----------------------------
(***************************************************************************)
(* What one call of move_head (src/src/servos.cpp) promises its caller:    *)
(* the head's position moves by the requested offset, is kept within the   *)
(* servos' limits in the same step, and each servo is then told its        *)
(* coordinate exactly once, x before y, before the next call begins.       *)
(* When no serial port was attached only the bookkeeping moves.            *)
(***************************************************************************)
EXTENDS Integers

CONSTANTS
    Offsets,   \* the offsets a caller may ask for
    StartPos,  \* position assumed at power-up, per axis
    MinPos,    \* lower limit, per axis
    MaxPos,    \* upper limit, per axis
    NotSent    \* no position was sent to this servo yet

VARIABLES
    pos,       \* where the program believes the head is
    sent,      \* the position last sent to each axis' servo
    owed,      \* the axes whose servo still has to hear of the last move
    attached   \* a serial port was attached at start-up

servoVars == <<pos, sent, owed, attached>>

Axis == {"x", "y"}

Clamp(a, v) == IF v < MinPos[a] THEN MinPos[a]
               ELSE IF v > MaxPos[a] THEN MaxPos[a] ELSE v

Settle(a, v) == IF attached THEN Clamp(a, v) ELSE v

ServoInit ==
    /\ pos = StartPos
    /\ sent = [a \in Axis |-> NotSent]
    /\ owed = {}
    /\ attached \in BOOLEAN

Move(d) ==
    /\ owed = {}
    /\ pos' = [a \in Axis |-> Settle(a, pos[a] + d[a])]
    /\ owed' = IF attached THEN Axis ELSE {}
    /\ UNCHANGED <<sent, attached>>

Command(a) ==
    /\ a \in owed
    /\ a = "y" => "x" \notin owed
    /\ sent' = [sent EXCEPT ![a] = pos[a]]
    /\ owed' = owed \ {a}
    /\ UNCHANGED <<pos, attached>>

ServoNext == \/ \E d \in Offsets : Move(d)
             \/ \E a \in Axis : Command(a)

ServoSafety == ServoInit /\ [][ServoNext]_servoVars

\* A move that began is reported to both servos.
ServoSpec == ServoSafety /\ WF_servoVars(\E a \in Axis : Command(a))

=============================================================================
