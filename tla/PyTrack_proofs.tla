--------------------------- MODULE PyTrack_proofs ---------------------------
(***************************************************************************)
(* Proofs about PyTrack: for whatever the detector may see, however many   *)
(* frames are skipped and however many packets are lost in a row.          *)
(***************************************************************************)
EXTENDS PyTrack, TLAPS

-----------------------------------------------------------------------------
(* The arithmetic.                                                         *)

LEMMA MaxOfTwo ==
    ASSUME NEW x \in Int, NEW y \in Int PROVE Max({x, y}) = IF x >= y THEN x ELSE y
<1> DEFINE m == IF x >= y THEN x ELSE y
<1>1. m \in {x, y} /\ \A z \in {x, y} : m >= z
  OBVIOUS
<1>2. \A w \in {x, y} : (\A z \in {x, y} : w >= z) => w = m
  OBVIOUS
<1> QED  BY <1>1, <1>2 DEF Max

LEMMA MinOfTwo ==
    ASSUME NEW x \in Int, NEW y \in Int PROVE Min({x, y}) = IF x <= y THEN x ELSE y
<1> DEFINE m == IF x <= y THEN x ELSE y
<1>1. m \in {x, y} /\ \A z \in {x, y} : m <= z
  OBVIOUS
<1>2. \A w \in {x, y} : (\A z \in {x, y} : w <= z) => w = m
  OBVIOUS
<1> QED  BY <1>1, <1>2 DEF Min

LEMMA ClampIs ==
    ASSUME NEW v \in Int, NEW low \in Int, NEW high \in Int, low <= high
    PROVE  Clamp(v, low, high) = IF v < low THEN low ELSE IF v > high THEN high ELSE v
<1>1. Min({v, high}) = IF v <= high THEN v ELSE high
  BY MinOfTwo
<1>2. Min({v, high}) \in Int
  BY <1>1
<1>3. Max({low, Min({v, high})}) = IF low >= Min({v, high}) THEN low ELSE Min({v, high})
  BY <1>2, MaxOfTwo
<1> QED  BY <1>1, <1>3 DEF Clamp

LEMMA AbsIs ==
    ASSUME NEW v \in Int PROVE Abs(v) = IF v >= 0 THEN v ELSE -v
BY MaxOfTwo DEF Abs

\* One movement of the damping: at most 3 hundredths, towards the target and not past it.
LEMMA DampedMove ==
    ASSUME NEW l \in 0..100, NEW target \in 0..100
    PROVE  /\ Damp(l, target) \in 0..100
           /\ Damp(l, target) - l \in -3..3
           /\ \/ Damp(l, target) = l
              \/ l < Damp(l, target) /\ Damp(l, target) <= target
              \/ l > Damp(l, target) /\ Damp(l, target) >= target
<1> DEFINE d == IF Abs(target - l) < DeadZone THEN 0 ELSE target - l
           c == Clamp(d, -MaxMovement, MaxMovement)
<1>1. Abs(target - l) = IF target - l >= 0 THEN target - l ELSE l - target
  BY AbsIs
<1>2. d = 0 \/ (d = target - l /\ (d >= 10 \/ d <= -10))
  BY <1>1 DEF DeadZone
<1>3. c = IF d < -10 THEN -10 ELSE IF d > 10 THEN 10 ELSE d
  BY <1>2, ClampIs DEF MaxMovement
<1>4. \/ c = 0
      \/ c = 10 /\ target - l >= 10
      \/ c = -10 /\ target - l <= -10
  BY <1>2, <1>3
<1>5. Damp(l, target) = l + (c * 3) \div 10
  BY DEF Damp
<1>6. (0 * 3) \div 10 = 0 /\ (10 * 3) \div 10 = 3 /\ (-10 * 3) \div 10 = -3
  OBVIOUS
<1> QED  BY <1>4, <1>5, <1>6

LEMMA PairIn ==
    ASSUME NEW S, NEW T, NEW x \in S, NEW y \in T PROVE <<x, y>> \in S \X T
OBVIOUS

\* Positions in the picture become goals one to one, and none needs the clamping.
LEMMA StepsAre ==
    ASSUME NEW at \in (0..100) \X (0..100)
    PROVE  Steps(at) = <<20 * at[1], 1400 + 5 * at[2]>> /\ Steps(at) \in Goals
<1>1. at[1] \in 0..100 /\ at[2] \in 0..100
  OBVIOUS
<1>2. ASSUME NEW x \in Int, NEW low \in Int, NEW high \in Int, low <= x, x <= high
      PROVE  Clamp(x, low, high) = x
  BY <1>2, ClampIs
<1> DEFINE x == at[1]
           y == at[2]
<1>5. x \in 0..100 /\ y \in 0..100
  BY <1>1
<1> HIDE DEF x, y
<1>3. /\ 20 * x \in Int /\ 0 <= 20 * x /\ 20 * x <= 2000
      /\ 1400 + 5 * y \in Int /\ 1400 <= 1400 + 5 * y /\ 1400 + 5 * y <= 1900
  BY <1>5
<1>4. /\ Clamp(20 * x, 0, 2000) = 20 * x
      /\ Clamp(1400 + 5 * y, 1400, 1900) = 1400 + 5 * y
  BY <1>2, <1>3
<1>6. Steps(at) = <<20 * x, 1400 + 5 * y>>
  BY <1>4 DEF Steps, x, y
<1>7. 20 * x \in 0..2000 /\ 1400 + 5 * y \in 1400..1900
  BY <1>3, SMTT(30)
<1>8. <<20 * x, 1400 + 5 * y>> \in Goals
  BY <1>7, PairIn DEF Goals
<1> QED  BY <1>6, <1>8 DEF x, y

\* The two axes of a position, as a function and as a pair.
LEMMA PairOfAxes ==
    ASSUME NEW f, f = [a \in Axes |-> f[a]], \A a \in Axes : f[a] \in 0..100
    PROVE  f \in (0..100) \X (0..100)
<1>1. f = <<f[1], f[2]>>
  BY DEF Axes
<1>2. f[1] \in 0..100 /\ f[2] \in 0..100
  BY DEF Axes
<1> QED  BY <1>1, <1>2

LEMMA AxesOfPair ==
    ASSUME NEW at \in (0..100) \X (0..100), NEW a \in Axes PROVE at[a] \in 0..100
BY DEF Axes

LEMMA PairOfNumbers ==
    ASSUME NEW S \in SUBSET Int, NEW T \in SUBSET Int, NEW g \in S \X T
    PROVE  g[1] \in Int /\ g[2] \in Int
<1>1. g[1] \in S /\ g[2] \in T
  OBVIOUS
<1> QED  BY <1>1

LEMMA GoalsAreNumbers ==
    ASSUME NEW g \in Goals PROVE g[1] \in Int /\ g[2] \in Int
<1> DEFINE S == 0..2000
           T == 1400..1900
<1>1. S \in SUBSET Int /\ T \in SUBSET Int
  OBVIOUS
<1>2. g \in S \X T
  BY DEF Goals
<1> HIDE DEF S, T
<1> QED  BY <1>1, <1>2, PairOfNumbers

LEMMA LagPerPacket == Steps(<<3, 3>>)[1] = 60
BY StepsAre

\* One movement more, one packet more.
LEMMA LagGrows ==
    ASSUME NEW x \in Int, NEW y \in Int, NEW g \in Int, NEW n \in Nat,
           y - x <= 60, x - y <= 60, Abs(x - g) <= 60 * n
    PROVE  Abs(y - g) <= 60 * (n + 1)
<1>1. /\ Abs(x - g) = IF x - g >= 0 THEN x - g ELSE -(x - g)
      /\ Abs(y - g) = IF y - g >= 0 THEN y - g ELSE -(y - g)
  BY AbsIs
<1> QED  BY <1>1

LEMMA StepsMove ==
    ASSUME NEW l \in 0..100, NEW m \in 0..100, m - l \in -3..3
    PROVE  /\ 20 * l \in Int /\ 20 * m \in Int
           /\ 20 * m - 20 * l <= 60 /\ 20 * l - 20 * m <= 60
           /\ 1400 + 5 * l \in Int /\ 1400 + 5 * m \in Int
           /\ (1400 + 5 * m) - (1400 + 5 * l) <= 60 /\ (1400 + 5 * l) - (1400 + 5 * m) <= 60
OBVIOUS

-----------------------------------------------------------------------------
(* Types, and the lag.                                                     *)

Inv == TypeOK /\ LagIsBounded

LEMMA PersonThere ==
    ASSUME TypeOK, NEW i \in Largest(scene)
    PROVE  /\ i \in DOMAIN scene
           /\ \A a \in Axes : Target(scene[i])[a] \in 0..100
<1>1. scene \in Seq(Detection) /\ i \in DOMAIN scene
  BY ScenesAssumption DEF TypeOK, Largest
<1>2. scene[i] \in Detection
  BY <1>1
<1>3. scene[i].at \in (0..100) \X (0..100)
  BY <1>2 DEF Detection
<1>4. ASSUME NEW a \in Axes PROVE Target(scene[i])[a] \in 0..100
  <2>1. scene[i].at[a] \in 0..100
    BY <1>3, AxesOfPair
  <2> QED  BY <2>1 DEF Target
<1> QED  BY <1>1, <1>4

LEMMA TurnMoves ==
    ASSUME TypeOK, NEW i, Turn(i)
    PROVE  /\ last' \in (0..100) \X (0..100)
           /\ \A a \in Axes : last'[a] - last[a] \in -3..3
           /\ \A a \in Axes :
                \/ last'[a] = last[a]
                \/ last[a] < last'[a] /\ last'[a] <= Target(scene[i])[a]
                \/ last[a] > last'[a] /\ last'[a] >= Target(scene[i])[a]
<1>1. \A a \in Axes : last[a] \in 0..100 /\ Target(scene[i])[a] \in 0..100
  BY PersonThere, AxesOfPair DEF Turn, TypeOK
<1>2. last' = [a \in Axes |-> Damp(last[a], Target(scene[i])[a])]
  BY DEF Turn
<1>3. \A a \in Axes : last'[a] = Damp(last[a], Target(scene[i])[a])
  BY <1>2
<1>4. ASSUME NEW a \in Axes
      PROVE  /\ last'[a] \in 0..100
             /\ last'[a] - last[a] \in -3..3
             /\ \/ last'[a] = last[a]
                \/ last[a] < last'[a] /\ last'[a] <= Target(scene[i])[a]
                \/ last[a] > last'[a] /\ last'[a] >= Target(scene[i])[a]
  <2> DEFINE l == last[a]
             target == Target(scene[i])[a]
  <2>1. l \in 0..100 /\ target \in 0..100 /\ last'[a] = Damp(l, target)
    BY <1>1, <1>3
  <2> HIDE DEF l, target
  <2>2. /\ last'[a] \in 0..100
        /\ last'[a] - l \in -3..3
        /\ \/ last'[a] = l
           \/ l < last'[a] /\ last'[a] <= target
           \/ l > last'[a] /\ last'[a] >= target
    BY <2>1, DampedMove, ZenonT(30)
  <2> QED  BY <2>2 DEF l, target
<1>5. last' = [a \in Axes |-> last'[a]]
  BY <1>2
<1>6. last' \in (0..100) \X (0..100)
  BY <1>4, <1>5, PairOfAxes
<1> QED  BY <1>4, <1>6

LEMMA InvInit == Init => Inv
<1> SUFFICES ASSUME Init PROVE Inv
  OBVIOUS
<1>1. TypeOK
  BY FrameAssumption DEF Init, TypeOK
<1>2. LagIsBounded
  BY DEF Init, LagIsBounded
<1> QED  BY <1>1, <1>2 DEF Inv

LEMMA InvStep == Inv /\ [Next]_vars => Inv'
<1> SUFFICES ASSUME Inv, [Next]_vars PROVE Inv'
  OBVIOUS
<1> USE DEF Inv
<1>1. CASE SkipFrame
  <2>1. frame' \in 0..FrameSkip - 1
    BY <1>1, FrameAssumption DEF SkipFrame, TypeOK
  <2> QED  BY <1>1, <2>1 DEF SkipFrame, TypeOK, LagIsBounded
<1>2. ASSUME TakeFrame PROVE frame' \in 0..FrameSkip - 1 /\ scene' \in Scenes /\ ready' \in BOOLEAN
  BY <1>2, FrameAssumption DEF TakeFrame, TypeOK
<1>3. CASE PassFrame
  BY <1>2, <1>3 DEF PassFrame, TypeOK, LagIsBounded
<1>4. ASSUME NEW i \in DOMAIN scene, Turn(i), SendGoals(last') PROVE Inv'
  <2>1. last' \in (0..100) \X (0..100) /\ Steps(last') \in Goals
    BY <1>4, TurnMoves, StepsAre
  <2>2. goal' = Steps(last') /\ missed' = 0 /\ params' \subseteq Axes
    BY <1>4 DEF SendGoals, Cleared
  <2>3. TypeOK'
    <3>1. frame' \in 0..FrameSkip - 1 /\ scene' \in Scenes /\ ready' \in BOOLEAN
      BY <1>2, <1>4 DEF Turn
    <3>2. missed' \in 0..MaxMissed
      BY <2>2, FrameAssumption
    <3> QED  BY <2>1, <2>2, <3>1, <3>2 DEF TypeOK
  <2>4. LagIsBounded'
    <3>1. \A a \in Axes : Steps(last')[a] - goal'[a] = 0
      <4>1. \A a \in Axes : Steps(last')[a] \in Int
        BY <2>1, GoalsAreNumbers DEF Axes
      <4>2. \A x \in Int : x - x = 0
        OBVIOUS
      <4> QED  BY <2>2, <4>1, <4>2
    <3>2. Abs(0) = 0 /\ Steps(<<3, 3>>)[1] * missed' = 0
      BY <2>2, AbsIs, LagPerPacket
    <3> QED  BY <3>1, <3>2 DEF LagIsBounded
  <2> QED  BY <2>3, <2>4
<1>5. ASSUME NEW i \in DOMAIN scene, Turn(i), LoseGoals(last') PROVE Inv'
  <2>1. /\ last' \in (0..100) \X (0..100)
        /\ \A a \in Axes : last'[a] - last[a] \in -3..3
    BY <1>5, TurnMoves
  <2>2. missed' = missed + 1 /\ missed' \in 0..MaxMissed /\ params' \subseteq Axes /\ goal' = goal
    BY <1>5, FrameAssumption DEF LoseGoals, Cleared, TypeOK
  <2>3. TypeOK'
    BY <1>2, <1>5, <2>1, <2>2 DEF Turn, TypeOK
  <2>4. ASSUME goal # <<>>, NEW a \in Axes
        PROVE  Abs(Steps(last')[a] - goal[a]) <= 60 * (missed + 1)
    <3>1. /\ Steps(last) = <<20 * last[1], 1400 + 5 * last[2]>>
          /\ Steps(last') = <<20 * last'[1], 1400 + 5 * last'[2]>>
      BY <2>1, StepsAre DEF TypeOK
    <3>2. last \in (0..100) \X (0..100) /\ goal \in Goals /\ missed \in Nat
      BY <2>4 DEF TypeOK
    <3>4. /\ last[a] \in 0..100 /\ last'[a] \in 0..100 /\ last'[a] - last[a] \in -3..3
      BY <2>1, <3>2, AxesOfPair
    <3>5. goal[1] \in Int /\ goal[2] \in Int
      BY <3>2, GoalsAreNumbers
    <3>3. Abs(Steps(last)[a] - goal[a]) <= 60 * missed
      BY <2>4, LagPerPacket DEF LagIsBounded
    <3>6. /\ Steps(last)[a] \in Int /\ Steps(last')[a] \in Int
          /\ Steps(last')[a] - Steps(last)[a] <= 60
          /\ Steps(last)[a] - Steps(last')[a] <= 60
      <4> DEFINE l == last[a]
                 m == last'[a]
      <4>1. l \in 0..100 /\ m \in 0..100 /\ m - l \in -3..3
        BY <3>4
      <4>2. \/ Steps(last)[a] = 20 * l /\ Steps(last')[a] = 20 * m
            \/ Steps(last)[a] = 1400 + 5 * l /\ Steps(last')[a] = 1400 + 5 * m
        BY <3>1 DEF Axes
      <4> HIDE DEF l, m
      <4> QED  BY <4>1, <4>2, StepsMove
    <3>7. goal[a] \in Int
      BY <3>5 DEF Axes
    <3> QED  BY <3>2, <3>3, <3>6, <3>7, LagGrows
  <2>5. LagIsBounded'
    BY <2>2, <2>4, LagPerPacket DEF LagIsBounded
  <2> QED  BY <2>3, <2>5
<1>6. CASE PeopleMove
  BY <1>6 DEF PeopleMove, TypeOK, LagIsBounded
<1>7. CASE UNCHANGED vars
  BY <1>7 DEF vars, TypeOK, LagIsBounded
<1> QED  BY <1>1, <1>3, <1>4, <1>5, <1>6, <1>7 DEF Next, TurnHead, MissTurn

LEMMA AlwaysInv == Spec => []Inv
BY InvInit, InvStep, PTL DEF Spec

\* Every variable keeps its type: the damping stays in the picture, and no goal
\* leaves the range of its servo.
THEOREM TypeCorrect == Spec => []TypeOK
BY AlwaysInv, PTL DEF Inv

\* What the servos were told lags behind what the damping believes by at most one
\* movement of a frame for each packet lost in a row.
THEOREM LagAlwaysBounded == Spec => []LagIsBounded
BY AlwaysInv, PTL DEF Inv

-----------------------------------------------------------------------------
(* Every movement is towards a largest person and stops short of them.     *)

LEMMA LargestSought ==
    ASSUME TypeOK, NEW i \in Largest(scene) PROVE Target(scene[i]) \in Sought(scene)
<1>1. scene \in Seq(Detection)
  BY ScenesAssumption DEF TypeOK
<1>2. ASSUME NEW j \in DOMAIN scene PROVE scene[j].area \in Nat
  <2>1. scene[j] \in Detection
    BY <1>1
  <2> QED  BY <2>1 DEF Detection
<1>3. i \in People(scene) /\ \A j \in People(scene) : scene[j].area <= scene[i].area
  BY <1>2 DEF Largest, People
<1> QED  BY <1>3 DEF Sought

LEMMA MoveStep ==
    ASSUME TypeOK, Next, last' # last
    PROVE  \E t \in Sought(scene) : \A a \in Axes :
              last'[a] = last[a] \/ (last[a] < last'[a] /\ last'[a] <= t[a])
                                 \/ (last[a] > last'[a] /\ last'[a] >= t[a])
<1>1. PICK i : Turn(i)
  BY DEF Next, SkipFrame, PassFrame, PeopleMove, TurnHead, MissTurn
<1>2. Target(scene[i]) \in Sought(scene)
  BY <1>1, LargestSought DEF Turn
<1> QED  BY <1>1, <1>2, TurnMoves

\* Whoever is in the picture and however they move about, the head never turns
\* past a person or away from the largest.
THEOREM HeadNeverOvershoots == Spec => NeverOvershoots
<1>1. TypeOK /\ [Next]_vars =>
        [last' # last => \E t \in Sought(scene) : \A a \in Axes :
            last'[a] = last[a] \/ (last[a] < last'[a] /\ last'[a] <= t[a])
                               \/ (last[a] > last'[a] /\ last'[a] >= t[a])]_vars
  BY MoveStep
<1> QED  BY <1>1, TypeCorrect, PTL DEF Spec, NeverOvershoots

=============================================================================
