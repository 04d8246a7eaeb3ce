------------------------- MODULE HeadMotion_proofs -------------------------
(***************************************************************************)
(* Proofs about HeadMotion, for every set of threads, every set of moves   *)
(* and every limits that satisfy the assumptions.                          *)
(***************************************************************************)
EXTENDS HeadMotion, TLAPS

USE DEF Axis, Position

LEMMA TypeStep == TypeOK /\ [Next]_vars => TypeOK'
<1> SUFFICES ASSUME TypeOK, [Next]_vars PROVE TypeOK'
  OBVIOUS
<1> USE DEF TypeOK, Stages, Goto, Advance
<1>1. ASSUME NEW t \in Threads, Call(t) PROVE TypeOK'
  <2>1. PICK d \in Moves[t] : delta' = [delta EXCEPT ![t] = d]
    BY <1>1 DEF Call
  <2>2. d \in Position
    BY MovesAssumption
  <2>3. delta' \in [Threads -> Position]
    BY <2>1, <2>2
  <2>4. calls' \in [Threads -> 0..MaxCalls]
    BY <1>1, MaxCallsAssumption DEF Call
  <2> QED
    BY <1>1, <2>3, <2>4 DEF Call
<1>2. ASSUME NEW t \in Threads, LoadHead(t) PROVE TypeOK'
  BY <1>2 DEF LoadHead
<1>3. ASSUME NEW t \in Threads, StoreHead(t) PROVE TypeOK'
  <2>1. reg[t] \in Int /\ axis[t] \in Axis /\ delta[t] \in Position
    OBVIOUS
  <2>2. reg[t] + delta[t][axis[t]] \in Int
    BY <2>1
  <2>3. head' \in Position
    BY <1>3, <2>1, <2>2 DEF StoreHead
  <2>4. delta' \in [Threads -> Position]
    <3>1. [delta[t] EXCEPT ![axis[t]] = 0] \in Position
      BY <2>1
    <3> QED
      BY <1>3, <3>1 DEF StoreHead
  <2>5. stage' \in [Threads -> Stages] /\ axis' \in [Threads -> Axis]
    BY <1>3 DEF StoreHead
  <2> QED
    BY <1>3, <2>3, <2>4, <2>5 DEF StoreHead
<1>4. ASSUME NEW t \in Threads, CheckOpen(t) PROVE TypeOK'
  BY <1>4 DEF CheckOpen
<1>5. ASSUME NEW t \in Threads, TestMin(t) PROVE TypeOK'
  BY <1>5, LimitsAssumption DEF TestMin
<1>6. ASSUME NEW t \in Threads, SetMin(t) PROVE TypeOK'
  BY <1>6, LimitsAssumption DEF SetMin
<1>7. ASSUME NEW t \in Threads, TestMax(t) PROVE TypeOK'
  BY <1>7, LimitsAssumption DEF TestMax
<1>8. ASSUME NEW t \in Threads, SetMax(t) PROVE TypeOK'
  BY <1>8, LimitsAssumption DEF SetMax
<1>9. ASSUME NEW t \in Threads, LoadArg(t) PROVE TypeOK'
  BY <1>9 DEF LoadArg
<1>10. ASSUME NEW t \in Threads, Send(t) PROVE TypeOK'
  BY <1>10, SMTT(30) DEF Send
<1>11. CASE UNCHANGED vars
  BY <1>11 DEF vars
<1> QED
  BY <1>1, <1>2, <1>3, <1>4, <1>5, <1>6, <1>7, <1>8, <1>9, <1>10, <1>11
  DEF Next, Step

\* Every variable keeps its type, whatever the threads' interleaving.
THEOREM TypeCorrect == Spec => []TypeOK
<1>1. Init => TypeOK
  BY LimitsAssumption, MaxCallsAssumption DEF Init, TypeOK, Stages
<1> QED
  BY <1>1, TypeStep, PTL DEF Spec

-----------------------------------------------------------------------------
(* Who corrects an excess. A step of thread t moves only t's own control   *)
(* point, so it is enough to show that after it either t itself still has  *)
(* the clamp to make, or the excess was there before and is another        *)
(* thread's.                                                               *)

LEMMA OwnerKept ==
  ASSUME TypeOK, OverrunIsOwned, attached,
         NEW t \in Threads, NEW s \in Stages, NEW b \in Axis, Goto(t, s, b),
         NEW a \in Axis,
         Above(a)' => WillCapMax(t, a)' \/ (Above(a) /\ ~WillCapMax(t, a)),
         Below(a)' => WillCapMin(t, a)' \/ (Below(a) /\ ~WillCapMin(t, a))
  PROVE  /\ Above(a)' => \E u \in Threads : WillCapMax(u, a)'
         /\ Below(a)' => \E u \in Threads : WillCapMin(u, a)'
<1>1. \A u \in Threads \ {t} : stage'[u] = stage[u] /\ axis'[u] = axis[u]
  BY DEF Goto, TypeOK
<1>2. \A u \in Threads \ {t} : /\ WillCapMax(u, a)' <=> WillCapMax(u, a)
                               /\ WillCapMin(u, a)' <=> WillCapMin(u, a)
  BY <1>1 DEF WillCapMax, WillCapMin, Stored, Reaches
<1>3. ASSUME Above(a)' PROVE \E u \in Threads : WillCapMax(u, a)'
  <2>1. CASE WillCapMax(t, a)'
    BY <2>1
  <2>2. CASE Above(a) /\ ~WillCapMax(t, a)
    <3>1. PICK u \in Threads : WillCapMax(u, a)
      BY <2>2 DEF OverrunIsOwned
    <3> QED
      BY <3>1, <2>2, <1>2
  <2> QED
    BY <1>3, <2>1, <2>2
<1>4. ASSUME Below(a)' PROVE \E u \in Threads : WillCapMin(u, a)'
  <2>1. CASE WillCapMin(t, a)'
    BY <2>1
  <2>2. CASE Below(a) /\ ~WillCapMin(t, a)
    <3>1. PICK u \in Threads : WillCapMin(u, a)
      BY <2>2 DEF OverrunIsOwned
    <3> QED
      BY <3>1, <2>2, <1>2
  <2> QED
    BY <1>4, <2>1, <2>2
<1> QED
  BY <1>3, <1>4

\* What a step of thread t has to show about coordinate a.
Answered(t, a) ==
  /\ Above(a)' => WillCapMax(t, a)' \/ (Above(a) /\ ~WillCapMax(t, a))
  /\ Below(a)' => WillCapMin(t, a)' \/ (Below(a) /\ ~WillCapMin(t, a))

LEMMA StepAnswers ==
  ASSUME TypeOK, attached, NEW t \in Threads, Call(t) \/ Step(t), NEW a \in Axis
  PROVE  Answered(t, a)
<1> USE DEF TypeOK, Stages, Goto, Advance
<1> USE DEF Answered, Above, Below, WillCapMax, WillCapMin, Stored, Reaches
<1>1. CASE Call(t)
  BY <1>1 DEF Call
<1>2. CASE LoadHead(t)
  BY <1>2 DEF LoadHead
<1>3. CASE StoreHead(t)
  BY <1>3 DEF StoreHead
<1>4. CASE CheckOpen(t)
  BY <1>4 DEF CheckOpen
<1>5. CASE TestMin(t)
  BY <1>5, LimitsAssumption DEF TestMin
<1>6. CASE SetMin(t)
  BY <1>6, LimitsAssumption DEF SetMin
<1>7. CASE TestMax(t)
  BY <1>7, LimitsAssumption DEF TestMax
<1>8. CASE SetMax(t)
  BY <1>8, LimitsAssumption DEF SetMax
<1>9. CASE LoadArg(t)
  BY <1>9 DEF LoadArg
<1>10. CASE Send(t)
  BY <1>10 DEF Send
<1> QED
  BY <1>1, <1>2, <1>3, <1>4, <1>5, <1>6, <1>7, <1>8, <1>9, <1>10 DEF Step

LEMMA StepMovesOne ==
  ASSUME TypeOK, NEW t \in Threads, Call(t) \/ Step(t)
  PROVE  /\ attached' = attached
         /\ \E s \in Stages, b \in Axis : Goto(t, s, b)
<1> USE DEF TypeOK, Stages, Advance
<1>1. attached' = attached
  BY DEF Step, Call, LoadHead, StoreHead, CheckOpen, TestMin, SetMin, TestMax,
         SetMax, LoadArg, Send
<1>2. \E s \in Stages, b \in Axis : Goto(t, s, b)
  <2>1. CASE Call(t) \/ LoadHead(t) \/ CheckOpen(t) \/ LoadArg(t)
    BY <2>1 DEF Call, LoadHead, CheckOpen, LoadArg
  <2>2. CASE StoreHead(t) \/ SetMin(t) \/ SetMax(t) \/ Send(t)
    BY <2>2 DEF StoreHead, SetMin, SetMax, Send
  <2>3. CASE TestMin(t) \/ TestMax(t)
    BY <2>3 DEF TestMin, TestMax
  <2> QED
    BY <2>1, <2>2, <2>3 DEF Step
<1> QED
  BY <1>1, <1>2

LEMMA OverrunStep == TypeOK /\ OverrunIsOwned /\ [Next]_vars => OverrunIsOwned'
<1> SUFFICES ASSUME TypeOK, OverrunIsOwned, [Next]_vars PROVE OverrunIsOwned'
  OBVIOUS
<1>1. ASSUME NEW t \in Threads, Call(t) \/ Step(t) PROVE OverrunIsOwned'
  <2>1. PICK s \in Stages, b \in Axis : Goto(t, s, b)
    BY <1>1, StepMovesOne
  <2>2. attached' = attached
    BY <1>1, StepMovesOne
  <2> SUFFICES ASSUME attached, NEW a \in Axis
               PROVE  /\ Above(a)' => \E u \in Threads : WillCapMax(u, a)'
                      /\ Below(a)' => \E u \in Threads : WillCapMin(u, a)'
    BY <2>2 DEF OverrunIsOwned
  <2>3. Answered(t, a)
    BY <1>1, StepAnswers
  <2> QED
    BY <2>1, <2>3, OwnerKept DEF Answered
<1>2. CASE UNCHANGED vars
  BY <1>2 DEF vars, OverrunIsOwned, Above, Below, WillCapMax, WillCapMin, Stored,
              Reaches
<1> QED
  BY <1>1, <1>2 DEF Next

\* An excess always has a thread that will correct it.
THEOREM OverrunAlwaysOwned == Spec => []OverrunIsOwned
<1>1. Init => TypeOK
  BY LimitsAssumption, MaxCallsAssumption DEF Init, TypeOK, Stages
<1>2. Init => OverrunIsOwned
  BY LimitsAssumption DEF Init, OverrunIsOwned, Above, Below
<1> QED
  BY <1>1, <1>2, TypeStep, OverrunStep, PTL DEF Spec

\* With every call of move_head finished the head is within its limits.
THEOREM AlwaysQuiescentWithinLimits == Spec => []QuiescentWithinLimits
<1>1. TypeOK /\ OverrunIsOwned => QuiescentWithinLimits
  BY LimitsAssumption DEF TypeOK, OverrunIsOwned, QuiescentWithinLimits, Above, Below,
     WillCapMax, WillCapMin, Stored
<1> QED
  BY <1>1, TypeCorrect, OverrunAlwaysOwned, PTL

-----------------------------------------------------------------------------
(* One mover: before a conversation starts only the main loop calls        *)
(* move_head. Then nobody writes the globals between a call's clamps and   *)
(* its commands, and what is sent is what was clamped.                     *)

SingleMover == \E m : Threads = {m}

InLimits(a, v) == MinPos[a] <= v /\ v <= MaxPos[a]

\* A loaded value and a test are current while they are held; an offset is consumed axis by
\* axis; only an attached head is commanded, within its limits, and what a
\* finished command said is still where the head is.
LoneInv ==
  /\ \A t \in Threads :
       /\ stage[t] \in {"store", "send"} => reg[t] = head[axis[t]]
       /\ stage[t] = "setmin" => Below(axis[t])
       /\ stage[t] = "setmax" => Above(axis[t])
       /\ ~attached => stage[t] \in {"idle", "load", "store", "open"}
       /\ \A a \in Axis :
            /\ delta[t][a] # 0 => stage[t] \in {"load", "store"} /\ Reaches(t, a)
            /\ stage[t] = "idle" => sent[a] \in {NotSent, head[a]}
            /\ stage[t] \in {"arg", "send"} /\ axis[t] = "y" /\ a = "x"
                 => sent[a] = head[a]
  /\ \A a \in Axis : sent[a] # NotSent => attached /\ InLimits(a, sent[a])

LEMMA LoneClamped ==
  ASSUME NEW m, Threads = {m}, TypeOK, OverrunIsOwned, attached,
         stage[m] \in {"arg", "send"}, NEW a \in Axis
  PROVE  InLimits(a, head[a])
<1>1. ~ Above(a)
  BY DEF OverrunIsOwned, WillCapMax, Stored
<1>2. ~ Below(a)
  BY DEF OverrunIsOwned, WillCapMin, Stored
<1> QED
  BY <1>1, <1>2, LimitsAssumption DEF Above, Below, InLimits, TypeOK

LEMMA LoneStep ==
  ASSUME NEW m, Threads = {m}, TypeOK, OverrunIsOwned, LoneInv, [Next]_vars
  PROVE  LoneInv'
<1> USE DEF TypeOK, Stages, Goto, Advance, LoneInv, Reaches, Above, Below
<1>1. CASE Call(m)
  <2>1. PICK d \in Moves[m] : delta' = [delta EXCEPT ![m] = d]
    BY <1>1 DEF Call
  <2> QED
    BY <1>1, <2>1 DEF Call
<1>2. CASE LoadHead(m)
  BY <1>2 DEF LoadHead
<1>3. CASE StoreHead(m)
  BY <1>3 DEF StoreHead
<1>4. CASE CheckOpen(m)
  BY <1>4, NotSentAssumption DEF CheckOpen
<1>5. CASE TestMin(m)
  BY <1>5 DEF TestMin
<1>6. CASE SetMin(m)
  BY <1>6 DEF SetMin
<1>7. CASE TestMax(m)
  BY <1>7 DEF TestMax
<1>8. CASE SetMax(m)
  BY <1>8 DEF SetMax
<1>9. CASE LoadArg(m)
  BY <1>9 DEF LoadArg
<1>10. CASE Send(m)
  <2>1. attached
    BY <1>10 DEF Send
  <2>2. \A a \in Axis : InLimits(a, head[a])
    BY <2>1, <1>10, LoneClamped DEF Send
  <2> QED
    BY <1>10, <2>1, <2>2 DEF Send
<1>11. CASE UNCHANGED vars
  BY <1>11 DEF vars
<1> QED
  BY <1>1, <1>2, <1>3, <1>4, <1>5, <1>6, <1>7, <1>8, <1>9, <1>10, <1>11
  DEF Next, Step

LEMMA LoneAlways == ASSUME SingleMover PROVE Spec => []LoneInv
<1>1. PICK m : Threads = {m}
  BY DEF SingleMover
<1>2. Init => TypeOK /\ OverrunIsOwned /\ LoneInv
  BY LimitsAssumption, MaxCallsAssumption, NotSentAssumption
  DEF Init, TypeOK, Stages, OverrunIsOwned, Above, Below, LoneInv
<1>3. TypeOK /\ OverrunIsOwned /\ LoneInv /\ [Next]_vars => LoneInv'
  BY <1>1, LoneStep
<1> QED
  BY <1>2, <1>3, TypeStep, OverrunStep, PTL DEF Spec

\* A single mover never sends a servo beyond its limits.
THEOREM LoneCommandsWithinLimits ==
  ASSUME SingleMover PROVE Spec => []CommandsWithinLimits
<1>1. LoneInv => CommandsWithinLimits
  BY DEF LoneInv, CommandsWithinLimits, InLimits
<1> QED
  BY <1>1, LoneAlways, PTL

\* After a single mover's calls each servo was told where the head is.
THEOREM LoneRestMatchesCommand ==
  ASSUME SingleMover PROVE Spec => []RestMatchesCommand
<1>1. LoneInv => RestMatchesCommand
  <2> SUFFICES ASSUME LoneInv, \A t \in Threads : stage[t] = "idle"
               PROVE  \A a \in Axis : sent[a] \in {NotSent, head[a]}
    BY DEF RestMatchesCommand
  <2>1. PICK m : Threads = {m}
    BY DEF SingleMover
  <2>2. m \in Threads
    BY <2>1
  <2> QED
    BY <2>2 DEF LoneInv
<1> QED
  BY <1>1, LoneAlways, PTL

-----------------------------------------------------------------------------
(* A single mover's calls are the atomic moves of HeadServo.               *)

LEMMA LoneInit == ASSUME NEW m, Threads = {m}, Init PROVE Servo!ServoInit
<1>1. Mover = m
  BY DEF Mover
<1>2. Believed = StartPos
  BY <1>1, LimitsAssumption DEF Init, Believed, LimitTo
<1>3. Unsent = {}
  BY <1>1 DEF Init, Unsent
<1> QED
  BY <1>2, <1>3 DEF Init, Servo!ServoInit, Servo!Axis

\* The believed position and the debt of a step that leaves both alone.
LEMMA LoneStutter ==
  ASSUME attached' = attached, sent' = sent,
         \A a \in Axis : Believed'[a] = Believed[a],
         Unsent' = Unsent
  PROVE  UNCHANGED Servo!servoVars
<1>1. Believed' = Believed
  BY DEF Believed
<1> QED
  BY <1>1 DEF Servo!servoVars

LEMMA LoneRefines ==
  ASSUME NEW m, Threads = {m}, TypeOK, TypeOK', OverrunIsOwned, LoneInv,
         [Next]_vars
  PROVE  [Servo!ServoNext]_(Servo!servoVars)
<1>0. Mover = m
  BY DEF Mover
<1> USE <1>0 DEF TypeOK, Stages, Goto, Advance
<1>1. CASE Call(m)
  <2>1. PICK d \in Moves[m] : delta' = [delta EXCEPT ![m] = d]
    BY <1>1 DEF Call
  <2>2. d \in AllMoves /\ d \in Position
    BY MovesAssumption DEF AllMoves
  <2>3. Unsent = {} /\ Unsent' = IF attached THEN Axis ELSE {}
    BY <1>1 DEF Call, Unsent, Reaches
  <2>4. \A a \in Axis : delta[m][a] = 0
    BY <1>1 DEF Call, LoneInv
  <2>5. ASSUME attached, NEW a \in Axis PROVE LimitTo(a, head[a]) = head[a]
    <3>1. ~ Above(a) /\ ~ Below(a)
      BY <1>1, <2>5 DEF Call, OverrunIsOwned, WillCapMax, WillCapMin, Stored
    <3> QED
      BY <3>1, LimitsAssumption DEF Above, Below, LimitTo
  <2>6. \A a \in Axis : Believed[a] = head[a]
    BY <2>4, <2>5 DEF Believed, LimitTo
  <2>7. \A a \in Axis : Believed'[a] = Servo!Settle(a, head[a] + d[a])
    BY <1>1, <2>1, <2>2 DEF Call, Believed, LimitTo, Servo!Settle, Servo!Clamp
  <2>8. Believed' = [a \in Axis |-> Servo!Settle(a, Believed[a] + d[a])]
    BY <2>6, <2>7 DEF Believed
  <2>9. Servo!Move(d)
    BY <1>1, <2>3, <2>8 DEF Call, Servo!Move, Servo!Axis
  <2> QED
    BY <2>2, <2>9 DEF Servo!ServoNext
<1>2. CASE LoadHead(m)
  BY <1>2, LoneStutter DEF LoadHead, Believed, LimitTo, Unsent
<1>3. CASE StoreHead(m)
  <2>1. \A a \in Axis : head'[a] + delta'[m][a] = head[a] + delta[m][a]
    BY <1>3 DEF StoreHead, LoneInv
  <2>2. \A a \in Axis : Believed'[a] = Believed[a]
    BY <1>3, <2>1 DEF StoreHead, Believed, LimitTo
  <2>3. Unsent' = Unsent
    BY <1>3 DEF StoreHead, Unsent, Reaches
  <2> QED
    BY <1>3, <2>2, <2>3, LoneStutter DEF StoreHead
<1>4. CASE CheckOpen(m)
  BY <1>4, LoneStutter DEF CheckOpen, Believed, LimitTo, Unsent
<1>5. CASE TestMin(m)
  BY <1>5, LoneStutter DEF TestMin, Believed, LimitTo, Unsent, Reaches
<1>6. CASE SetMin(m)
  <2>1. \A a \in Axis : delta[m][a] = 0 /\ delta'[m][a] = 0
    BY <1>6 DEF SetMin, LoneInv
  <2>2. attached /\ head[axis[m]] < MinPos[axis[m]]
    BY <1>6 DEF SetMin, LoneInv, Below
  <2>3. \A a \in Axis : LimitTo(a, head'[a]) = LimitTo(a, head[a])
    BY <1>6, <2>2, LimitsAssumption DEF SetMin, LimitTo
  <2>4. \A a \in Axis : Believed'[a] = Believed[a]
    BY <1>6, <2>1, <2>2, <2>3 DEF SetMin, Believed
  <2>5. Unsent' = Unsent
    BY <1>6 DEF SetMin, Unsent
  <2> QED
    BY <1>6, <2>4, <2>5, LoneStutter DEF SetMin
<1>7. CASE TestMax(m)
  BY <1>7, LoneStutter DEF TestMax, Believed, LimitTo, Unsent, Reaches
<1>8. CASE SetMax(m)
  <2>1. \A a \in Axis : delta[m][a] = 0 /\ delta'[m][a] = 0
    BY <1>8 DEF SetMax, LoneInv
  <2>2. attached /\ head[axis[m]] > MaxPos[axis[m]]
    BY <1>8 DEF SetMax, LoneInv, Above
  <2>3. \A a \in Axis : LimitTo(a, head'[a]) = LimitTo(a, head[a])
    BY <1>8, <2>2, LimitsAssumption DEF SetMax, LimitTo
  <2>4. \A a \in Axis : Believed'[a] = Believed[a]
    BY <1>8, <2>1, <2>2, <2>3 DEF SetMax, Believed
  <2>5. Unsent' = Unsent
    BY <1>8 DEF SetMax, Unsent, Reaches
  <2> QED
    BY <1>8, <2>4, <2>5, LoneStutter DEF SetMax
<1>9. CASE LoadArg(m)
  BY <1>9, LoneStutter DEF LoadArg, Believed, LimitTo, Unsent, Reaches
<1>10. CASE Send(m)
  <2>1. attached /\ axis[m] \in Axis
    BY <1>10 DEF Send, LoneInv
  <2>2. \A a \in Axis : delta[m][a] = 0 /\ delta'[m][a] = 0
    BY <1>10 DEF Send, LoneInv
  <2>3. \A a \in Axis : Believed[a] = head[a]
    <3> SUFFICES ASSUME NEW a \in Axis PROVE Believed[a] = head[a]
      OBVIOUS
    <3>1. InLimits(a, head[a])
      BY <1>10, <2>1, LoneClamped DEF Send
    <3>2. LimitTo(a, head[a]) = head[a]
      BY <3>1, LimitsAssumption DEF InLimits, LimitTo
    <3> QED
      BY <2>1, <2>2, <3>2 DEF Believed
  <2>4. Believed' = Believed
    BY <1>10, <2>2 DEF Send, Believed, LimitTo
  <2>5. Unsent = IF axis[m] = "x" THEN Axis ELSE {"y"}
    BY <1>10, <2>1 DEF Send, Unsent, Reaches
  <2>6. Unsent' = IF axis[m] = "x" THEN {"y"} ELSE {}
    BY <1>10, <2>1 DEF Send, Unsent, Reaches
  <2>7. sent' = [sent EXCEPT ![axis[m]] = Believed[axis[m]]]
    <3>1. reg[m] = head[axis[m]]
      BY <1>10 DEF Send, LoneInv
    <3> QED
      BY <1>10, <2>1, <2>3, <3>1 DEF Send
  <2>8. Servo!Command(axis[m])
    <3>1. attached' = attached
      BY <1>10 DEF Send
    <3>2. axis[m] \in Unsent /\ Unsent' = Unsent \ {axis[m]}
      BY <2>1, <2>5, <2>6
    <3>3. axis[m] = "y" => "x" \notin Unsent
      BY <2>5
    <3> QED
      BY <2>4, <2>7, <3>1, <3>2, <3>3, Zenon DEF Servo!Command
  <2> QED
    BY <2>1, <2>8 DEF Servo!ServoNext, Servo!Axis
<1>11. CASE UNCHANGED vars
  BY <1>11, LoneStutter DEF vars, Believed, LimitTo, Unsent, Reaches
<1> QED
  BY <1>1, <1>2, <1>3, <1>4, <1>5, <1>6, <1>7, <1>8, <1>9, <1>10, <1>11
  DEF Next, Step

\* Refinement: a single mover's move_head calls are HeadServo's moves, each
\* clamped in one step and sent to both servos, x first.
THEOREM LoneImplementsHeadServo ==
  ASSUME SingleMover PROVE Spec => Servo!ServoSafety
<1>1. PICK m : Threads = {m}
  BY DEF SingleMover
<1>2. Init => Servo!ServoInit
  BY <1>1, LoneInit
<1>3. TypeOK /\ TypeOK' /\ OverrunIsOwned /\ LoneInv /\ [Next]_vars
        => [Servo!ServoNext]_(Servo!servoVars)
  BY <1>1, LoneRefines
<1> QED
  BY <1>2, <1>3, TypeCorrect, OverrunAlwaysOwned, LoneAlways, PTL
  DEF Spec, Servo!ServoSafety

=============================================================================
