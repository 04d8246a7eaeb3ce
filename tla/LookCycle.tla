----------------------------- MODULE LookCycle -----------------------------
(***************************************************************************)
(* Looking around (src/src/main.cpp, the frame loop of main): every so     *)
(* often the idle robot turns its eyes towards a random target, turns its  *)
(* head there, waits, turns back and waits again. A face in front of the   *)
(* camera suspends this and replaces the target. The frame asks the        *)
(* tracker three times, and the tracking thread may change the answer      *)
(* between any two of them.                                                *)
(*                                                                         *)
(* One axis stands for both: the code treats them alike. Times are counted *)
(* in frames. Key presses and the other threads that move the head are in  *)
(* HeadMotion.                                                             *)
(***************************************************************************)
EXTENDS Integers

CONSTANTS
    Targets,        \* random targets, in the steps of move_head
    Faces,          \* positions at which a face can be seen, in the same steps
    NoFace,         \* getFacePosition returns false
    MinHead, MaxHead, Home,   \* the limits of move_servos and the start
    EyeFrames,      \* frames of eyeMoveDuration
    WaitFrames,     \* frames of WAIT_DURATION
    IntervalFrames, \* frames of lookInterval
    ClockMayStall   \* whether time, a float, may have grown too large to grow on

ASSUME HeadAssumption ==
    /\ Targets \subseteq Int /\ Faces \subseteq Int /\ NoFace \notin Faces
    /\ Home \in Int /\ MinHead \in Int /\ MaxHead \in Int
    /\ MinHead <= Home /\ Home <= MaxHead
ASSUME TimesAssumption ==
    /\ EyeFrames \in Nat /\ WaitFrames \in Nat /\ IntervalFrames \in Nat
    /\ EyeFrames < WaitFrames
ASSUME ClockAssumption == ClockMayStall \in BOOLEAN

VARIABLES
    frame,       \* where main is in its frame
    face,        \* what getFacePosition would answer now
    looking,     \* isLooking
    lookState,
    lookTimer,   \* frames since the last look began
    elapsed,     \* lookTime: frames since lookStartTime
    target,      \* targetX, targetY
    eyesOff,     \* whether lookTilt is not zero
    head,        \* where move_head has turned the head
    clockRuns    \* adding animationSpeed still changes time

vars == <<frame, face, looking, lookState, lookTimer, elapsed, target, eyesOff,
          head, clockRuns>>
look == <<looking, lookState, lookTimer, elapsed, target, eyesOff>>

TypeOK ==
    /\ frame \in {"follow", "start", "advance"}
    /\ face \in Faces \cup {NoFace}
    /\ looking \in BOOLEAN
    /\ lookState \in {0, 2, 3, 4, 5}
    /\ lookTimer \in 0..IntervalFrames
    /\ elapsed \in 0..WaitFrames
    /\ target \in Targets \cup Faces \cup {0}
    /\ eyesOff \in BOOLEAN
    /\ head \in MinHead..MaxHead
    /\ clockRuns \in BOOLEAN

Init ==
    /\ frame = "follow" /\ face = NoFace
    /\ looking = FALSE /\ lookState = 0 /\ lookTimer = 0
    /\ elapsed = 0 /\ target = 0 /\ eyesOff = FALSE
    /\ head = Home
    /\ clockRuns = TRUE

Upto(n, bound) == IF n < bound THEN n ELSE bound

\* move_head, with the servos attached.
Clamp(v) == IF v < MinHead THEN MinHead ELSE IF v > MaxHead THEN MaxHead ELSE v

-----------------------------------------------------------------------------
(* The world: a face comes, moves or goes; the clock reaches 2^19.         *)

Tracked ==
    /\ \E f \in (Faces \cup {NoFace}) \ {face} : face' = f
    /\ UNCHANGED <<frame, look, head, clockRuns>>

\* time += 0.02f in single precision: from 2^19 on the sum rounds back to time.
ClockStalls ==
    /\ ClockMayStall /\ clockRuns
    /\ clockRuns' = FALSE
    /\ UNCHANGED <<frame, face, look, head>>

-----------------------------------------------------------------------------
(* The frame.                                                              *)

Frame(here, there) == frame = here /\ frame' = there

\* A face replaces the target; then time and lookTimer move on.
FollowFace ==
    /\ Frame("follow", "start")
    /\ target' = IF face = NoFace THEN target ELSE face
    /\ elapsed' = IF clockRuns THEN Upto(elapsed + 1, WaitFrames) ELSE elapsed
    /\ lookTimer' = Upto(lookTimer + 1, IntervalFrames)
    /\ UNCHANGED <<face, looking, lookState, eyesOff, head, clockRuns>>

MayStart == ~looking /\ lookTimer = IntervalFrames /\ face = NoFace

StartLook ==
    /\ Frame("start", "advance")
    /\ MayStart
    /\ looking' = TRUE /\ lookTimer' = 0 /\ elapsed' = 0
    /\ target' \in Targets
    /\ eyesOff' = FALSE
    /\ UNCHANGED <<face, lookState, head, clockRuns>>

StartNothing ==
    /\ Frame("start", "advance")
    /\ ~MayStart
    /\ UNCHANGED <<face, look, head, clockRuns>>

\* A step of the look, taken only when this call sees no face.
InState(s) ==
    /\ Frame("advance", "follow")
    /\ looking /\ face = NoFace /\ lookState = s
    /\ UNCHANGED <<face, lookTimer, target, clockRuns>>

TurnEyes ==
    /\ InState(0) /\ elapsed < EyeFrames
    /\ eyesOff' = (target # 0 /\ elapsed # 0)
    /\ UNCHANGED <<looking, lookState, elapsed, head>>

EyesTurned ==
    /\ InState(0) /\ elapsed >= EyeFrames
    /\ lookState' = 2 /\ elapsed' = 0
    /\ UNCHANGED <<looking, eyesOff, head>>

TurnHead ==
    /\ InState(2)
    /\ head' = Clamp(head + target)
    /\ lookState' = 3 /\ elapsed' = 0
    /\ UNCHANGED <<looking, eyesOff>>

\* The eyes go back while the head stays; the look waits on.
EyesBack ==
    /\ InState(3) /\ elapsed < WaitFrames
    /\ eyesOff' = IF elapsed < EyeFrames THEN target # 0 ELSE eyesOff
    /\ UNCHANGED <<looking, lookState, elapsed, head>>

\* Fault: the eyes are left where the transition had them.
WaitedEyesLeft ==
    /\ InState(3) /\ elapsed >= WaitFrames
    /\ lookState' = 4 /\ elapsed' = 0
    /\ UNCHANGED <<looking, head, eyesOff>>

Waited ==
    /\ InState(3) /\ elapsed >= WaitFrames
    /\ lookState' = 4 /\ elapsed' = 0
    /\ eyesOff' = FALSE
    /\ UNCHANGED <<looking, head>>

\* Fault: the head is turned on, away from where it was.
TurnOn ==
    /\ InState(4)
    /\ head' = Clamp(head + target)
    /\ lookState' = 5 /\ elapsed' = 0
    /\ UNCHANGED <<looking, eyesOff>>

TurnBack ==
    /\ InState(4)
    /\ head' = Clamp(head - target)
    /\ lookState' = 5 /\ elapsed' = 0
    /\ UNCHANGED <<looking, eyesOff>>

\* Fault: the final wait is begun anew in every frame.
LingerAnew ==
    /\ InState(5) /\ elapsed < WaitFrames
    /\ elapsed' = 0
    /\ UNCHANGED <<looking, lookState, eyesOff, head>>

\* The final wait.
Linger ==
    /\ InState(5) /\ elapsed < WaitFrames
    /\ UNCHANGED <<looking, lookState, elapsed, eyesOff, head>>

\* Fault: the look ends without going back to its first state.
EndLookDirty ==
    /\ InState(5) /\ elapsed >= WaitFrames
    /\ looking' = FALSE
    /\ eyesOff' = FALSE
    /\ UNCHANGED <<elapsed, head, lookState>>

EndLook ==
    /\ InState(5) /\ elapsed >= WaitFrames
    /\ looking' = FALSE /\ lookState' = 0
    /\ eyesOff' = FALSE
    /\ UNCHANGED <<elapsed, head>>

Suspended ==
    /\ Frame("advance", "follow")
    /\ ~looking \/ face # NoFace
    /\ UNCHANGED <<face, look, head, clockRuns>>

AdvanceLook == \/ TurnEyes \/ EyesTurned \/ TurnHead \/ EyesBack \/ Waited
               \/ TurnBack \/ Linger \/ EndLook \/ Suspended

MainLoop == FollowFace \/ StartLook \/ StartNothing \/ AdvanceLook

Next == MainLoop \/ Tracked \/ ClockStalls

Spec == Init /\ [][Next]_vars

\* The frame loop runs; faces come and go as they like.
FairSpec == Spec /\ WF_vars(MainLoop)

-----------------------------------------------------------------------------
(* Properties.                                                             *)

\* However often faces interrupt a look, the robot never rests with its eyes
\* off centre, and never turns its head back while they are.
EyesComeBack == (~looking \/ lookState \in {4, 5}) => ~eyesOff

\* Wherever a face interrupts a look, the look that ends leaves lookState ready
\* for the next one, which does not set it.
ReadyForNextLook == ~looking => lookState = 0

\* When the faces stay away and the clock runs, the robot always comes to rest
\* and always looks again, wherever the last face left the look.
KeepsLooking ==
    <>[](face = NoFace) /\ []clockRuns => []<>looking /\ []<>~looking

\* A robot that sees nobody turns away and back to where it was, for ever.
GlancePhase == IF ~looking THEN "resting"
               ELSE IF lookState \in {0, 2} THEN "looking"
               ELSE IF lookState \in {3, 4} THEN "away" ELSE "back"

TheGlance == INSTANCE Glance WITH phase <- GlancePhase, Offsets <- Targets

ImplementsGlance == TheGlance!GlanceSpec

\* main.cpp:213 moves the head back "by negating the target": the head of a
\* robot at rest is where it was before the look.
HeadComesBack == ~looking => head = Home

=============================================================================
