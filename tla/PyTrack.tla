------------------------------ MODULE PyTrack ------------------------------
(***************************************************************************)
(* How the Python robot turns to people: app_callback picks the largest    *)
(* person in every tenth frame (src/src/py/detection.py), damps the way to *)
(* it, and move_head writes both servos in one packet                      *)
(* (src/src/py/servo.py). Positions are in hundredths, 0 to 100 across the *)
(* picture; the source computes them in floating point.                    *)
(***************************************************************************)
EXTENDS Integers, Sequences, FiniteSetsExt

CONSTANTS
    Scenes,     \* what the detector may see: sequences of detections
    FrameSkip,  \* FRAME_SKIP (10 in the source)
    MaxMissed   \* bound of the model: packets lost in a row

Detection == [label : {"person", "other"}, at : (0..100) \X (0..100), area : Nat]

ASSUME ScenesAssumption == Scenes \subseteq Seq(Detection) /\ Scenes # {}
ASSUME FrameAssumption == FrameSkip \in Nat \ {0} /\ MaxMissed \in Nat

Axes == {1, 2}
DeadZone == 10
MaxMovement == 10

VARIABLES
    scene,      \* external: what is in front of the camera
    frame,      \* frame_counter % FRAME_SKIP
    ready,      \* servos_initialized
    last,       \* <<last_x, last_y>>
    params,     \* the servos whose goals groupSyncWrite holds
    goal,       \* external: the goals the servos got last, <<>> before the first
    missed      \* history: packets lost since

vars == <<scene, frame, ready, last, params, goal, missed>>

\* Goals in servo steps.
Goals == (0..2000) \X (1400..1900)

TypeOK ==
    /\ scene \in Scenes
    /\ frame \in 0..FrameSkip - 1
    /\ ready \in BOOLEAN
    /\ last \in (0..100) \X (0..100)
    /\ params \subseteq Axes
    /\ goal \in Goals \cup {<<>>}
    /\ missed \in 0..MaxMissed

\* setup_servos opens the port and configures both servos, or fails.
Init ==
    /\ scene \in Scenes
    /\ frame = 0 /\ ready \in BOOLEAN
    /\ last = <<50, 50>>
    /\ params = {} /\ goal = <<>> /\ missed = 0

-----------------------------------------------------------------------------
(* damp_movement, for each axis.                                           *)

Clamp(v, low, high) == Max({low, Min({v, high})})

Abs(v) == Max({v, -v})

\* Fault: the movement per frame is not limited.
DampUnlimited(l, target) ==
    LET d == IF Abs(target - l) < DeadZone THEN 0 ELSE target - l
    IN  l + (d * 3) \div 10

\* smoothing_factor is 0.3.
Damp(l, target) ==
    LET d == IF Abs(target - l) < DeadZone THEN 0 ELSE target - l
    IN  l + (Clamp(d, -MaxMovement, MaxMovement) * 3) \div 10

\* target_x = 0.5 + x_move, where x_move = 0.5 - x_center
Target(detection) == [a \in Axes |-> 50 + (50 - detection.at[a])]

-----------------------------------------------------------------------------
(* move_head.                                                              *)

Steps(at) == <<Clamp(20 * at[1], 0, 2000), Clamp(1400 + 5 * at[2], 1400, 1900)>>

\* Fault: clearParam is not called.
KeptParams == params

Cleared == {}

\* addParam refuses a servo whose goal it holds already.
SendGoals(at) ==
    /\ Cleared \cap Axes = {}
    /\ params' = Cleared \cup Axes
    /\ goal' = Steps(at) /\ missed' = 0

\* addParam or txPacket fails: the result is ignored by the caller.
LoseGoals(at) ==
    /\ missed < MaxMissed /\ missed' = missed + 1
    /\ params' = Cleared \cup Axes
    /\ UNCHANGED goal

-----------------------------------------------------------------------------
(* app_callback.                                                           *)

\* Fault: the last person is taken, not the largest.
LastPerson(s) ==
    {i \in DOMAIN s : s[i].label = "person" /\ s[i].area > 0
                      /\ \A j \in i + 1..Len(s) : s[j].label # "person"}

\* The first of the largest, as the loop finds it; none if there is no person.
Largest(s) ==
    {i \in DOMAIN s :
        /\ s[i].label = "person" /\ s[i].area > 0
        /\ \A j \in DOMAIN s : s[j].label = "person" =>
              s[j].area < s[i].area \/ (s[j].area = s[i].area /\ i <= j)}

SkipFrame ==
    /\ frame < FrameSkip - 1 /\ frame' = frame + 1
    /\ UNCHANGED <<scene, ready, last, params, goal, missed>>

TakeFrame == frame = FrameSkip - 1 /\ frame' = 0 /\ UNCHANGED <<scene, ready>>

\* Nobody is there, the servos were not set up, or the buffer is empty.
PassFrame == TakeFrame /\ UNCHANGED <<last, params, goal, missed>>

\* last_x and last_y move on whether or not the packet arrives.
Turn(i) ==
    /\ TakeFrame /\ ready
    /\ i \in Largest(scene)
    /\ last' = [a \in Axes |-> Damp(last[a], Target(scene[i])[a])]

TurnHead == \E i \in DOMAIN scene : Turn(i) /\ SendGoals(last')

MissTurn == \E i \in DOMAIN scene : Turn(i) /\ LoseGoals(last')

PeopleMove ==
    /\ scene' \in Scenes \ {scene}
    /\ UNCHANGED <<frame, ready, last, params, goal, missed>>

Next == SkipFrame \/ PassFrame \/ TurnHead \/ MissTurn \/ PeopleMove

\* The camera goes on giving frames; they are not all empty, nor all packets lost.
Spec == Init /\ [][Next]_vars /\ WF_vars(SkipFrame) /\ SF_vars(TurnHead)

-----------------------------------------------------------------------------
(* Properties.                                                             *)

People(s) == {i \in DOMAIN s : s[i].label = "person" /\ s[i].area > 0}

\* Where the head should turn: to somebody nobody else is larger than.
Sought(s) == {Target(s[i]) : i \in {i \in People(s) : \A j \in People(s) : s[j].area <= s[i].area}}

\* The head moves towards a largest person and stops short of them, on both axes.
NeverOvershoots ==
    [][last' # last => \E t \in Sought(scene) : \A a \in Axes :
          last'[a] = last[a] \/ (last[a] < last'[a] /\ last'[a] <= t[a])
                             \/ (last[a] > last'[a] /\ last'[a] >= t[a])]_vars

\* What the servos were told lags behind what the damping believes by at most one
\* movement of a frame for each packet that was lost: no sudden turn.
LagIsBounded ==
    goal # <<>> => \A a \in Axes : Abs(Steps(last)[a] - goal[a]) <= Steps(<<3, 3>>)[1] * missed

\* If people keep still, the servos are told to look at a largest of them, up to the
\* dead zone, and keep looking there, whatever packets were lost on the way.
SettlesOnPerson ==
    \A s \in Scenes :
        ready /\ Sought(s) # {} /\ <>[](scene = s) =>
            \E t \in Sought(s) :
                <>[](/\ \A a \in Axes : Abs(last[a] - t[a]) < DeadZone
                     /\ goal = Steps(last))

=============================================================================
