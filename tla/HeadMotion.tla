----------------------------- MODULE HeadMotion -----------------------------
(***************************************************************************)
(* The head of the robot (src/src/servos.cpp): two ints, head_x and        *)
(* head_y, that every move_head call adds to, clamps and sends to the      *)
(* servos. The main loop, the speech thread and the websocket service      *)
(* thread all call move_head and nothing locks, so the model takes one     *)
(* step per access to a shared variable: move_servos gets head_x and       *)
(* head_y BY REFERENCE, and each of its four clamps is a read of the       *)
(* global followed, when the test succeeds, by a separate write to it.     *)
(***************************************************************************)
EXTENDS Integers

CONSTANTS
    Threads,   \* threads of the process that call move_head
    Moves,     \* Moves[t]: the offsets thread t asks for
    StartPos,  \* initial head_x and head_y
    MinPos,    \* min_x and min_y
    MaxPos,    \* max_x and max_y
    NotSent,   \* no WritePosEx was made on this axis yet
    MaxCalls   \* bound of the model: calls of move_head per thread

Axis == {"x", "y"}
Position == [Axis -> Int]

ASSUME MovesAssumption == Moves \in [Threads -> SUBSET Position]
ASSUME LimitsAssumption ==
    /\ StartPos \in Position /\ MinPos \in Position /\ MaxPos \in Position
    /\ \A a \in Axis : MinPos[a] <= StartPos[a] /\ StartPos[a] <= MaxPos[a]
ASSUME NotSentAssumption == NotSent \notin Int
ASSUME MaxCallsAssumption == MaxCalls \in Nat

VARIABLES
    head,      \* head[a]: the globals head_x and head_y
    sent,      \* sent[a]: the position last passed to WritePosEx for the axis
    attached,  \* st.pSerial was set by open_servos
    stage,     \* stage[t]: the next access of thread t's call, or "idle"
    axis,      \* axis[t]: the coordinate that access is about
    reg,       \* reg[t]: the value thread t loaded and has still to use, or 0
    delta,     \* delta[t]: what thread t's call has still to add, per axis
    calls      \* calls[t]: how often thread t called move_head

vars == <<head, sent, attached, stage, axis, reg, delta, calls>>

Stages == {"idle", "load", "store", "open", "min", "setmin", "max", "setmax",
           "arg", "send"}

TypeOK ==
    /\ head \in Position
    /\ sent \in [Axis -> Int \cup {NotSent}]
    /\ attached \in BOOLEAN
    /\ stage \in [Threads -> Stages]
    /\ axis \in [Threads -> Axis]
    /\ reg \in [Threads -> Int]
    /\ delta \in [Threads -> Position]
    /\ calls \in [Threads -> 0..MaxCalls]

\* open_servos runs once, before any thread; main() ignores its result.
Init ==
    /\ head = StartPos
    /\ sent = [a \in Axis |-> NotSent]
    /\ attached \in BOOLEAN
    /\ stage = [t \in Threads |-> "idle"]
    /\ axis = [t \in Threads |-> "x"]
    /\ reg = [t \in Threads |-> 0]
    /\ delta = [t \in Threads |-> [a \in Axis |-> 0]]
    /\ calls = [t \in Threads |-> 0]

-----------------------------------------------------------------------------
Goto(t, s, a) == /\ stage' = [stage EXCEPT ![t] = s]
                 /\ axis' = [axis EXCEPT ![t] = a]

\* A statement on x is followed by the same statement on y, one on y by `s'.
Advance(t, again, s) == IF axis[t] = "x" THEN Goto(t, again, "y")
                                         ELSE Goto(t, s, "x")

\* A caller enters move_head(x, y).
Call(t) ==
    /\ stage[t] = "idle"
    /\ calls[t] < MaxCalls
    /\ calls' = [calls EXCEPT ![t] = @ + 1]
    /\ \E d \in Moves[t] : delta' = [delta EXCEPT ![t] = d]
    /\ Goto(t, "load", "x")
    /\ UNCHANGED <<head, sent, attached, reg>>

\* head_x += x; head_y += y; each a load and a store.
LoadHead(t) ==
    /\ stage[t] = "load"
    /\ reg' = [reg EXCEPT ![t] = head[axis[t]]]
    /\ Goto(t, "store", axis[t])
    /\ UNCHANGED <<head, sent, attached, delta, calls>>

\* Fault: = instead of +=.
StoreHeadAbsolute(t) ==
    /\ stage[t] = "store"
    /\ head' = [head EXCEPT ![axis[t]] = delta[t][axis[t]]]
    /\ reg' = [reg EXCEPT ![t] = 0]
    /\ delta' = [delta EXCEPT ![t][axis[t]] = 0]
    /\ Advance(t, "load", "open")
    /\ UNCHANGED <<sent, attached, calls>>

StoreHead(t) ==
    /\ stage[t] = "store"
    /\ head' = [head EXCEPT ![axis[t]] = reg[t] + delta[t][axis[t]]]
    /\ reg' = [reg EXCEPT ![t] = 0]
    /\ delta' = [delta EXCEPT ![t][axis[t]] = 0]
    /\ Advance(t, "load", "open")
    /\ UNCHANGED <<sent, attached, calls>>

\* if (!st.pSerial) return;
CheckOpen(t) ==
    /\ stage[t] = "open"
    /\ Goto(t, IF attached THEN "min" ELSE "idle", "x")
    /\ UNCHANGED <<head, sent, attached, reg, delta, calls>>

\* Fault: the lower clamp of y is missing.
TestMinOnX(t) ==
    /\ stage[t] = "min"
    /\ \/ axis[t] = "x" /\ head["x"] < MinPos["x"] /\ Goto(t, "setmin", "x")
       \/ axis[t] = "x" /\ head["x"] >= MinPos["x"] /\ Goto(t, "min", "y")
       \/ axis[t] = "y" /\ Goto(t, "max", "x")
    /\ UNCHANGED <<head, sent, attached, reg, delta, calls>>

\* if (x < min_x) x = min_x; the same for y.
TestMin(t) ==
    /\ stage[t] = "min"
    /\ \/ head[axis[t]] < MinPos[axis[t]] /\ Goto(t, "setmin", axis[t])
       \/ head[axis[t]] >= MinPos[axis[t]] /\ Advance(t, "min", "max")
    /\ UNCHANGED <<head, sent, attached, reg, delta, calls>>

SetMin(t) ==
    /\ stage[t] = "setmin"
    /\ head' = [head EXCEPT ![axis[t]] = MinPos[axis[t]]]
    /\ Advance(t, "min", "max")
    /\ UNCHANGED <<sent, attached, reg, delta, calls>>

\* Fault: the upper clamp of x is missing.
TestMaxOnY(t) ==
    /\ stage[t] = "max"
    /\ \/ axis[t] = "x" /\ Goto(t, "max", "y")
       \/ axis[t] = "y" /\ head["y"] > MaxPos["y"] /\ Goto(t, "setmax", "y")
       \/ axis[t] = "y" /\ head["y"] <= MaxPos["y"] /\ Goto(t, "arg", "x")
    /\ UNCHANGED <<head, sent, attached, reg, delta, calls>>

\* if (x > max_x) x = max_x; the same for y.
TestMax(t) ==
    /\ stage[t] = "max"
    /\ \/ head[axis[t]] > MaxPos[axis[t]] /\ Goto(t, "setmax", axis[t])
       \/ head[axis[t]] <= MaxPos[axis[t]] /\ Advance(t, "max", "arg")
    /\ UNCHANGED <<head, sent, attached, reg, delta, calls>>

\* Fault: the sum's excess is not cut at the limit but just above it.
SetMaxOffByOne(t) ==
    /\ stage[t] = "setmax"
    /\ head' = [head EXCEPT ![axis[t]] = MaxPos[axis[t]] + 1]
    /\ Advance(t, "max", "arg")
    /\ UNCHANGED <<sent, attached, reg, delta, calls>>

SetMax(t) ==
    /\ stage[t] = "setmax"
    /\ head' = [head EXCEPT ![axis[t]] = MaxPos[axis[t]]]
    /\ Advance(t, "max", "arg")
    /\ UNCHANGED <<sent, attached, reg, delta, calls>>

\* st.WritePosEx(id, x, ...): the global is read again for the argument, and
\* the call writes the packet. The ReadPos after the second one is not used.
LoadArg(t) ==
    /\ stage[t] = "arg"
    /\ reg' = [reg EXCEPT ![t] = head[axis[t]]]
    /\ Goto(t, "send", axis[t])
    /\ UNCHANGED <<head, sent, attached, delta, calls>>

Send(t) ==
    /\ stage[t] = "send"
    /\ sent' = [sent EXCEPT ![axis[t]] = reg[t]]
    /\ reg' = [reg EXCEPT ![t] = 0]
    /\ Advance(t, "arg", "idle")
    /\ UNCHANGED <<head, attached, delta, calls>>

Step(t) == \/ LoadHead(t) \/ StoreHead(t) \/ CheckOpen(t)
           \/ TestMin(t)  \/ SetMin(t)
           \/ TestMax(t)  \/ SetMax(t)
           \/ LoadArg(t)  \/ Send(t)

Next == \E t \in Threads : Call(t) \/ Step(t)

Spec == Init /\ [][Next]_vars

\* The operating system runs every thread; nothing in move_head blocks.
FairSpec == Spec /\ \A t \in Threads : WF_vars(Step(t))

-----------------------------------------------------------------------------
(* Properties.                                                             *)

Above(a) == head[a] > MaxPos[a]
Below(a) == head[a] < MinPos[a]

\* Thread t wrote coordinate a in this call and has its statement `test' on
\* a, or the write that follows a successful test, still to come.
Stored(t, a) == \/ stage[t] \in {"load", "store"} /\ axis[t] = "y" /\ a = "x"
                \/ stage[t] = "open"
Reaches(t, a) == axis[t] = "x" \/ a = "y"
WillCapMin(t, a) == \/ Stored(t, a)
                    \/ stage[t] \in {"min", "setmin"} /\ Reaches(t, a)
WillCapMax(t, a) == \/ Stored(t, a)
                    \/ stage[t] \in {"min", "setmin"}
                    \/ stage[t] \in {"max", "setmax"} /\ Reaches(t, a)

\* A coordinate is beyond a limit only while some thread that is inside
\* move_servos still has that limit's clamp to make: whatever the threads'
\* interleaving, nobody leaves an excess for no one to correct.
OverrunIsOwned ==
    attached => \A a \in Axis :
                    /\ Above(a) => \E t \in Threads : WillCapMax(t, a)
                    /\ Below(a) => \E t \in Threads : WillCapMin(t, a)

\* Whenever no call of move_head is in progress the globals are within the
\* servos' limits, however many threads called it at the same time.
QuiescentWithinLimits ==
    (attached /\ \A t \in Threads : stage[t] = "idle")
        => \A a \in Axis : MinPos[a] <= head[a] /\ head[a] <= MaxPos[a]

\* No servo is ever sent a position outside its limits (the "Limit" block of
\* move_servos stands in front of the WritePosEx calls for this).
CommandsWithinLimits ==
    \A a \in Axis : \/ sent[a] = NotSent
                    \/ MinPos[a] <= sent[a] /\ sent[a] <= MaxPos[a]

\* At rest, a servo that was ever commanded was last told where the program
\* believes the head is: the next relative move starts from the truth.
RestMatchesCommand ==
    (\A t \in Threads : stage[t] = "idle")
        => \A a \in Axis : sent[a] \in {NotSent, head[a]}

-----------------------------------------------------------------------------
(* The calls of a single mover are the moves of HeadServo: the clamped     *)
(* sum takes effect when the call starts, a command when it is sent.       *)

Mover == CHOOSE t \in Threads : TRUE

\* The axes the mover's call has still to send.
Unsent == {a \in Axis : /\ attached /\ stage[Mover] # "idle"
                        /\ stage[Mover] \in {"arg", "send"} => Reaches(Mover, a)}

AllMoves == UNION {Moves[t] : t \in Threads}

LimitTo(a, v) == IF v < MinPos[a] THEN MinPos[a]
                 ELSE IF v > MaxPos[a] THEN MaxPos[a] ELSE v

\* The globals with what the mover's call has still to add and to clamp.
Believed == [a \in Axis |-> LET v == head[a] + delta[Mover][a]
                            IN  IF attached THEN LimitTo(a, v) ELSE v]

Servo == INSTANCE HeadServo WITH
            Offsets <- AllMoves, pos <- Believed, owed <- Unsent

\* With a single mover, move_head is the atomic clamped move of HeadServo
\* and every move that starts is sent to both servos.
ImplementsHeadServo == Servo!ServoSpec

=============================================================================
