-------------------------- MODULE LookCycle_proofs --------------------------
(***************************************************************************)
(* Proofs about LookCycle, for all targets, faces, limits and times that   *)
(* satisfy the assumptions.                                                *)
(***************************************************************************)
EXTENDS LookCycle, TLAPS

USE HeadAssumption, TimesAssumption, ClockAssumption
USE DEF look, Frame, InState, Upto

LEMMA ClampInLimits == \A v \in Int : Clamp(v) \in MinHead..MaxHead
BY DEF Clamp

\* What holds of the eyes and the look's state in every state; EyesComeBack and
\* ReadyForNextLook follow from it without further argument.
Calm == TypeOK /\ EyesComeBack /\ ReadyForNextLook

LEMMA CalmInit == Init => Calm
<1> SUFFICES ASSUME Init PROVE Calm
  OBVIOUS
<1> USE DEF Init
<1>1. TypeOK
  <2>1. head \in MinHead..MaxHead /\ lookTimer \in 0..IntervalFrames
    OBVIOUS
  <2>2. elapsed \in 0..WaitFrames
    OBVIOUS
  <2> QED
    BY <2>1, <2>2 DEF TypeOK
<1>2. EyesComeBack /\ ReadyForNextLook
  BY DEF EyesComeBack, ReadyForNextLook
<1> QED
  BY <1>1, <1>2 DEF Calm

LEMMA CalmStep == Calm /\ [Next]_vars => Calm'
<1> SUFFICES ASSUME Calm, [Next]_vars PROVE Calm'
  OBVIOUS
<1> USE DEF Calm, TypeOK, EyesComeBack, ReadyForNextLook
<1>1. CASE FollowFace
  <2>1. target' \in Targets \cup Faces \cup {0}
    BY <1>1 DEF FollowFace
  <2>2. elapsed' \in 0..WaitFrames /\ lookTimer' \in 0..IntervalFrames
    BY <1>1 DEF FollowFace
  <2> QED
    BY <1>1, <2>1, <2>2 DEF FollowFace
<1>2. CASE StartLook
  <2>1. looking' = TRUE /\ lookState' = 0 /\ ~eyesOff'
    BY <1>2 DEF StartLook, MayStart
  <2>2. lookTimer' \in 0..IntervalFrames /\ elapsed' \in 0..WaitFrames
    BY <1>2 DEF StartLook
  <2>3. TypeOK'
    BY <1>2, <2>1, <2>2 DEF StartLook
  <2> QED
    BY <2>1, <2>3
<1>3. CASE StartNothing
  BY <1>3 DEF StartNothing
<1>4. CASE TurnEyes
  <2>1. eyesOff' \in BOOLEAN
    BY <1>4 DEF TurnEyes
  <2> QED
    BY <1>4, <2>1 DEF TurnEyes
<1>5. CASE EyesTurned
  <2>1. lookState' = 2 /\ elapsed' \in 0..WaitFrames
    BY <1>5 DEF EyesTurned
  <2>2. TypeOK'
    BY <1>5, <2>1 DEF EyesTurned
  <2>3. looking' /\ lookState' \notin {4, 5}
    BY <1>5 DEF EyesTurned
  <2> QED
    BY <2>2, <2>3
<1>6. CASE TurnHead
  <2>1. head' \in MinHead..MaxHead
    BY <1>6, ClampInLimits DEF TurnHead
  <2> QED
    BY <1>6, <2>1 DEF TurnHead
<1>7. CASE EyesBack
  <2>1. eyesOff' \in BOOLEAN
    BY <1>7 DEF EyesBack
  <2> QED
    BY <1>7, <2>1 DEF EyesBack
<1>8. CASE Waited
  <2>1. ~eyesOff' /\ lookState' = 4 /\ elapsed' \in 0..WaitFrames
    BY <1>8 DEF Waited
  <2>2. TypeOK'
    BY <1>8, <2>1 DEF Waited
  <2> QED
    BY <1>8, <2>1, <2>2 DEF Waited
<1>9. CASE TurnBack
  <2>1. head' \in MinHead..MaxHead
    BY <1>9, ClampInLimits DEF TurnBack
  <2> QED
    BY <1>9, <2>1 DEF TurnBack
<1>10. CASE Linger
  BY <1>10 DEF Linger
<1>11. CASE EndLook
  BY <1>11 DEF EndLook
<1>12. CASE Suspended
  BY <1>12 DEF Suspended
<1>13. CASE Tracked
  BY <1>13 DEF Tracked
<1>14. CASE ClockStalls
  BY <1>14 DEF ClockStalls
<1>15. CASE UNCHANGED vars
  BY <1>15 DEF vars
<1> QED
  BY <1>1, <1>2, <1>3, <1>4, <1>5, <1>6, <1>7, <1>8, <1>9, <1>10, <1>11,
     <1>12, <1>13, <1>14, <1>15 DEF Next, MainLoop, AdvanceLook

LEMMA AlwaysCalm == Spec => []Calm
BY CalmInit, CalmStep, PTL DEF Spec

\* Every variable keeps its type; the head stays within the servos' limits.
THEOREM TypeCorrect == Spec => []TypeOK
BY AlwaysCalm, PTL DEF Calm

\* Faces may interrupt the look at any of the frame's three questions: the robot
\* still never rests, nor turns back, with its eyes off centre.
THEOREM EyesAlwaysComeBack == Spec => []EyesComeBack
BY AlwaysCalm, PTL DEF Calm

\* A finished look always leaves lookState where the next one begins.
THEOREM AlwaysReadyForNextLook == Spec => []ReadyForNextLook
BY AlwaysCalm, PTL DEF Calm

-----------------------------------------------------------------------------
(* With nobody to see and room for every target, the target cannot change  *)
(* between the move out and the move back, and neither move is clamped.    *)

Undisturbed == /\ Faces = {}
               /\ \A d \in Targets : Home + d \in MinHead..MaxHead

\* The head is one target away from home exactly between the two moves.
HeadFollowsLook ==
    /\ face = NoFace
    /\ looking => target \in Targets
    /\ head = IF looking /\ lookState \in {3, 4} THEN Home + target ELSE Home

LEMMA HeadStep ==
  ASSUME Undisturbed, Calm, HeadFollowsLook, [Next]_vars
  PROVE  HeadFollowsLook'
<1> USE DEF Undisturbed, Calm, TypeOK, ReadyForNextLook, HeadFollowsLook
<1>1. CASE FollowFace
  BY <1>1 DEF FollowFace
<1>2. CASE StartLook
  BY <1>2 DEF StartLook, MayStart
<1>3. CASE StartNothing
  BY <1>3 DEF StartNothing
<1>4. CASE TurnEyes \/ EyesTurned
  BY <1>4 DEF TurnEyes, EyesTurned
<1>5. CASE TurnHead
  <2>1. head = Home /\ target \in Targets /\ Home + target \in MinHead..MaxHead
    BY <1>5 DEF TurnHead
  <2>2. Clamp(head + target) = Home + target
    BY <2>1 DEF Clamp
  <2> QED
    BY <1>5, <2>1, <2>2 DEF TurnHead
<1>6. CASE EyesBack \/ Waited
  BY <1>6 DEF EyesBack, Waited
<1>7. CASE TurnBack
  <2>1. head = Home + target /\ target \in Targets
    BY <1>7 DEF TurnBack
  <2>2. head - target = Home
    BY <2>1
  <2>3. Clamp(head - target) = Home
    BY <2>2 DEF Clamp
  <2> QED
    BY <1>7, <2>1, <2>3 DEF TurnBack
<1>8. CASE Linger \/ EndLook
  BY <1>8 DEF Linger, EndLook
<1>9. CASE Suspended
  BY <1>9 DEF Suspended
<1>10. CASE Tracked
  BY <1>10 DEF Tracked
<1>11. CASE ClockStalls
  BY <1>11 DEF ClockStalls
<1>12. CASE UNCHANGED vars
  BY <1>12 DEF vars
<1> QED
  BY <1>1, <1>2, <1>3, <1>4, <1>5, <1>6, <1>7, <1>8, <1>9, <1>10, <1>11,
     <1>12 DEF Next, MainLoop, AdvanceLook

\* Undisturbed, the robot at rest has its head where it was before the look.
THEOREM HeadAlwaysComesBack ==
  ASSUME Undisturbed PROVE Spec => []HeadComesBack
<1>1. Init => HeadFollowsLook
  BY DEF Init, HeadFollowsLook
<1>2. Calm /\ HeadFollowsLook /\ [Next]_vars => HeadFollowsLook'
  BY HeadStep
<1>3. HeadFollowsLook => HeadComesBack
  BY DEF HeadFollowsLook, HeadComesBack
<1> QED
  BY <1>1, <1>2, <1>3, AlwaysCalm, PTL DEF Spec

-----------------------------------------------------------------------------
(* The same robot's looks, step by step.                                   *)

LEMMA LookIsGlance ==
  ASSUME Undisturbed, Calm, HeadFollowsLook, [Next]_vars
  PROVE  [TheGlance!GlanceNext]_(TheGlance!glanceVars)
<1> USE DEF Undisturbed, Calm, TypeOK, ReadyForNextLook, HeadFollowsLook, GlancePhase,
            TheGlance!GlanceNext, TheGlance!glanceVars, TheGlance!Change
<1>1. CASE FollowFace \/ StartNothing \/ Suspended
  BY <1>1 DEF FollowFace, StartNothing, Suspended
<1>2. CASE StartLook
  <2>1. TheGlance!Begin
    BY <1>2 DEF StartLook, MayStart, TheGlance!Begin
  <2> QED
    BY <2>1
<1>3. CASE TurnEyes \/ EyesTurned \/ EyesBack \/ Waited \/ Linger
  BY <1>3 DEF TurnEyes, EyesTurned, EyesBack, Waited, Linger
<1>4. CASE TurnHead
  <2>1. head = Home /\ target \in Targets /\ Home + target \in MinHead..MaxHead
    BY <1>4 DEF TurnHead
  <2>2. Clamp(head + target) = Home + target
    BY <2>1 DEF Clamp
  <2>3. TheGlance!Leave
    BY <1>4, <2>1, <2>2 DEF TurnHead, TheGlance!Leave
  <2> QED
    BY <2>3
<1>5. CASE TurnBack
  <2>1. head = Home + target /\ target \in Targets
    BY <1>5 DEF TurnBack
  <2>2. head - target = Home
    BY <2>1
  <2>3. Clamp(head - target) = Home
    BY <2>2 DEF Clamp
  <2>4. TheGlance!Return
    BY <1>5, <2>3 DEF TurnBack, TheGlance!Return
  <2> QED
    BY <2>4
<1>6. CASE EndLook
  <2>1. TheGlance!Rest
    BY <1>6 DEF EndLook, TheGlance!Rest
  <2> QED
    BY <2>1
<1>7. CASE Tracked \/ ClockStalls
  BY <1>7 DEF Tracked, ClockStalls
<1>8. CASE UNCHANGED vars
  BY <1>8 DEF vars
<1> QED
  BY <1>1, <1>2, <1>3, <1>4, <1>5, <1>6, <1>7, <1>8
  DEF Next, MainLoop, AdvanceLook

\* Refinement: undisturbed, every look is one of Glance's, a turn by some target
\* and a turn back to where the head was, in that order and with nothing between.
THEOREM AlwaysGlances ==
  ASSUME Undisturbed PROVE Spec => TheGlance!GlanceSafety
<1>1. Init => HeadFollowsLook /\ TheGlance!GlanceInit
  BY DEF Init, HeadFollowsLook, GlancePhase, TheGlance!GlanceInit
<1>2. Calm /\ HeadFollowsLook /\ [Next]_vars => HeadFollowsLook'
  BY HeadStep
<1>3. Calm /\ HeadFollowsLook /\ [Next]_vars
        => [TheGlance!GlanceNext]_(TheGlance!glanceVars)
  BY LookIsGlance
<1> QED
  BY <1>1, <1>2, <1>3, AlwaysCalm, PTL DEF Spec, TheGlance!GlanceSafety

=============================================================================
