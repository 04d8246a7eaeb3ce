------------------------------ MODULE ServoBus ------------------------------
(***************************************************************************)
(* The half-duplex servo bus under move_servos (src/src/servos.cpp,        *)
(* src/src/servos/): three calls, one after the other, each of which       *)
(* throws away what has arrived, writes a request and reads the answer     *)
(* byte by byte, with a timeout per byte. An answer may be lost, lose a    *)
(* byte, have one changed, or come after its caller has given up; a line   *)
(* on which nothing else travels may babble. The tty between the line and  *)
(* the host is not as raw as configurePort means it to be.                 *)
(*                                                                         *)
(* One thread calls; HeadMotion has the threads. The positions are those   *)
(* that move_servos has already limited.                                   *)
(***************************************************************************)
EXTENDS ServoCodec

CONSTANTS
    Targets,    \* Targets[s]: positions asked of servo s
    Present,    \* positions at which the first servo can be
    Garble,     \* what a byte may be changed to
    NoiseByte,  \* what a babbling line delivers
    ICRNL,      \* the port was opened with the tty's flag of this name set
    MaxLate,    \* bound of the world: calls an answer may be late
    MaxFaults   \* bound of the model: answers lost, shortened or changed

Servos == {1, 2}

ASSUME TargetsAssumption ==
    /\ Targets \in [Servos -> SUBSET Position]
    /\ \A s \in Servos : Targets[s] # {}
    /\ Present \subseteq Position
ASSUME BytesAssumption == Garble \subseteq Byte /\ NoiseByte \in Byte
ASSUME TtyAssumption == ICRNL \in BOOLEAN
ASSUME BoundsAssumption == MaxLate \in Nat /\ MaxFaults \in Nat

VARIABLES
    call,     \* the call in progress, or the one to come: 1 to 3
    phase,    \* "idle", or what it is reading: "head", "body"
    asked,    \* the arguments of this move_servos
    goal,     \* what each servo was last told: its goal register
    present,  \* where the first servo is
    line,     \* bytes on their way to the host, each with its age in calls
    prev,     \* bBuf[1] of checkHead
    cnt,      \* Cnt of checkHead
    buf,      \* the bytes after the header
    prompt,   \* the world leaves this call alone
    alone,    \* no late answer was still under way when this call began
    result,   \* what the last call returned
    faults

vars == <<call, phase, asked, goal, present, line, prev, cnt, buf, prompt,
          alone, result, faults>>

\* WritePosEx(1, x), WritePosEx(2, y), ReadPos(1)
IsWrite(c) == c \in {1, 2}
ServoOf(c) == IF c = 2 THEN 2 ELSE 1
BodyLen(c) == IF IsWrite(c) THEN 4 ELSE 6
NoResult == [of |-> 0, ok |-> FALSE, pos |-> 0]
Results == [of : 0..3, ok : BOOLEAN, pos : Int]
LateByte == [byte : Byte, age : 0..MaxLate]

TypeOK ==
    /\ call \in 1..3
    /\ phase \in {"idle", "head", "body"}
    /\ asked \in [Servos -> Position]
    /\ goal \in [Servos -> Position]
    /\ present \in Position
    /\ line \in Seq(LateByte)
    /\ prev \in Byte
    /\ cnt \in 0..10
    /\ buf \in Seq(Byte) /\ Len(buf) < BodyLen(call)
    /\ prompt \in BOOLEAN /\ alone \in BOOLEAN
    /\ result \in Results
    /\ faults \in 0..MaxFaults

Init ==
    /\ call = 1 /\ phase = "idle"
    /\ asked = [s \in Servos |-> 0]
    /\ goal = [s \in Servos |-> 0]
    /\ present \in Present
    /\ line = <<>> /\ prev = 0 /\ cnt = 0 /\ buf = <<>>
    /\ prompt = FALSE /\ alone = FALSE /\ result = NoResult /\ faults = 0

-----------------------------------------------------------------------------
(* The servo and the wire.                                                 *)

Without(s, k) == SubSeq(s, 1, k - 1) \o SubSeq(s, k + 1, Len(s))

Damaged(s) == {<<>>} \cup {Without(s, k) : k \in 1..Len(s)}
              \cup {[s EXCEPT ![k] = b] : k \in 1..Len(s), b \in Garble}

\* What move_servos asks for: speed, acceleration, and the servos' positions.
Speed == 1800
ACC == 20

WritePosEx(id, pos) ==
    writeBuf(id, SMS_STS_ACC, PositionData(pos, Speed, ACC), INST_WRITE)

ReadPos(id) == writeBuf(id, SMS_STS_PRESENT_POSITION_L, <<2>>, INST_READ)

Request(c, pos) == IF IsWrite(c) THEN WritePosEx(c, pos[c]) ELSE ReadPos(1)

\* No damage to a request escapes the servo's check.
ASSUME DamageIsSeen ==
    \A p \in {ReadPos(1)} \cup UNION {{WritePosEx(s, x) : x \in Targets[s]} : s \in Servos} :
        \A q \in Damaged(p) : Accepts(q) => q = p

Fresh(s) == [k \in 1..Len(s) |-> [byte |-> s[k], age |-> 0]]
Older(s) == [k \in 1..Len(s) |-> [s[k] EXCEPT !.age = @ + 1]]

\* Of the bytes under way n have arrived; no other may be too old.
Rest(n) == SubSeq(line, n + 1, Len(line))

Arrived(n) ==
    /\ \A k \in 1..Len(Rest(n)) : Rest(n)[k].age < MaxLate
    /\ alone' = (Rest(n) = <<>>)
    /\ prompt' => alone'

\* Fault: the flush takes one byte only.
FlushedOne(n) == IF n = 0 THEN line ELSE Tail(line)

\* rFlushSCS throws away what has arrived.
Flushed(n) == Rest(n)

\* Faults are counted among the answers that can still meet.
Faulty == /\ ~prompt'
          /\ faults' = IF alone' THEN 1 ELSE faults + 1
          /\ faults' <= MaxFaults
Faultless == faults' = IF alone' THEN 0 ELSE faults

\* A servo obeys and answers what it accepts.
Obeyed(p) == IF Accepts(p) /\ p[5] = INST_WRITE /\ p[6] = SMS_STS_ACC
             THEN [goal EXCEPT ![p[3]] = WordSigned(SCS2Host(FALSE, p[8], p[9]))]
             ELSE goal

AnswerTo(p) == IF ~Accepts(p) THEN <<>>
               ELSE IF p[5] = INST_WRITE THEN AckAnswer(p[3])
               ELSE PositionAnswer(p[3], present')

\* The request reaches the servo; a fault may damage the answer.
Heard(left, reply) ==
    /\ goal' = reply.goal
    /\ \/ Faultless /\ line' = left \o Fresh(reply.answer)
       \/ Faulty /\ \E s \in Damaged(reply.answer) : line' = left \o Fresh(s)

\* The request is lost, or damaged and not accepted.
Unheard(left) == Faulty /\ UNCHANGED goal /\ line' = left

Exchange(p) ==
    \E reply \in {[goal |-> Obeyed(p), answer |-> AnswerTo(p)]} :
    \E n \in 0..Len(line) :
        /\ Arrived(n)
        /\ \E left \in {Older(Flushed(n))} : Heard(left, reply) \/ Unheard(left)

-----------------------------------------------------------------------------
(* The host.                                                               *)

\* What a call has read is local to it.
Forget == prev' = 0 /\ cnt' = 0 /\ buf' = <<>>

\* genWrite, Read: flush, write, and begin to read. The first call of a
\* move_servos is the one that takes new positions.
Command ==
    /\ phase = "idle"
    /\ phase' = "head"
    /\ Forget
    /\ result' = NoResult
    /\ IF call = 1
       THEN \E x \in Targets[1], y \in Targets[2] :
                asked' = [s \in Servos |-> IF s = 1 THEN x ELSE y]
       ELSE UNCHANGED asked
    /\ present' \in Present
    /\ prompt' \in BOOLEAN
    /\ \E p \in {Request(call, asked')} : Exchange(p)
    /\ UNCHANGED call

Return(ok, pos) ==
    /\ phase' = "idle"
    /\ result' = [of |-> call, ok |-> ok, pos |-> pos]
    /\ call' = (call % 3) + 1
    /\ Forget

GiveUp == Return(FALSE, -1)

HeaderAt(b) == b = 255 /\ prev = 255

\* Fault: after eleven bytes the search begins anew.
HeadByteForEver(b) ==
    /\ phase = "head"
    /\ \/ /\ HeaderAt(b)
          /\ phase' = "body"
          /\ UNCHANGED <<call, prev, cnt, buf, result>>
       \/ /\ ~HeaderAt(b)
          /\ prev' = b /\ cnt' = (cnt + 1) % 11
          /\ UNCHANGED <<call, phase, buf, result>>

\* checkHead: look for two 255 in a row, among at most eleven bytes.
HeadByte(b) ==
    /\ phase = "head"
    /\ \/ /\ HeaderAt(b)
          /\ phase' = "body"
          /\ UNCHANGED <<call, prev, cnt, buf, result>>
       \/ /\ ~HeaderAt(b) /\ cnt < 10
          /\ prev' = b /\ cnt' = cnt + 1
          /\ UNCHANGED <<call, phase, buf, result>>
       \/ /\ ~HeaderAt(b) /\ cnt = 10
          /\ GiveUp

\* Fault: any servo's answer will do.
AckedByAnyone(b) == b[2] = 2 /\ b[4] = AckSum(b)

\* Ack: the answer is that servo's, is empty and adds up.
Acked(b) == b[1] = ServoOf(call) /\ b[2] = 2 /\ b[4] = AckSum(b)

\* Fault: the checksum is not compared.
ReadWithoutSum(b) == Len(b) = 6

\* Read: the answer adds up. Nothing asks whose it is or how long.
ReadOk(b) == b[6] = ReadSum(b)

Finish(b) ==
    \/ /\ IsWrite(call)
       /\ Return(Acked(b), 0)
    \/ /\ ~IsWrite(call) /\ ReadOk(b)
       /\ Return(TRUE, WordSigned(SCS2Host(FALSE, b[4], b[5])))
    \/ /\ ~IsWrite(call) /\ ~ReadOk(b)
       /\ GiveUp

\* readSCS: one more byte of the answer.
BodyByte(b) ==
    /\ phase = "body"
    /\ \/ /\ Len(buf) + 1 < BodyLen(call)
          /\ buf' = Append(buf, b)
          /\ UNCHANGED <<call, phase, prev, cnt, result>>
       \/ /\ Len(buf) + 1 = BodyLen(call)
          /\ Finish(Append(buf, b))

\* configurePort leaves ICRNL as it finds it: carriage returns are read as
\* newlines. Of the tty's conversions it is the only one usually on.
AsRead(b) == IF ICRNL /\ b = 13 THEN 10 ELSE b

Receive(b) ==
    /\ HeadByte(AsRead(b)) \/ BodyByte(AsRead(b))
    /\ UNCHANGED <<asked, goal, present, prompt, alone>>

TakeByte ==
    /\ line # <<>>
    /\ line' = Tail(line)
    /\ UNCHANGED faults
    /\ Receive(Head(line).byte)

\* A byte of noise where nobody sends. Inside an answer it is a fault.
Noise ==
    /\ line = <<>> /\ ~prompt
    /\ UNCHANGED line
    /\ IF phase = "head" THEN UNCHANGED faults
       ELSE faults' = faults + 1 /\ faults' <= MaxFaults
    /\ Receive(NoiseByte)

\* No byte for IOTimeOut; what is old enough has arrived.
Timeout ==
    /\ phase # "idle"
    /\ line # <<>> => ~prompt /\ Head(line).age < MaxLate
    /\ GiveUp
    /\ UNCHANGED <<asked, goal, present, line, prompt, alone, faults>>

Reading == TakeByte \/ Noise \/ Timeout

Next == Command \/ Reading

Spec == Init /\ [][Next]_vars

\* The reading loop runs and its clock advances; nobody has to call again.
FairSpec == Spec /\ WF_vars(Reading)

-----------------------------------------------------------------------------
(* Properties.                                                             *)

\* WritePosEx returns 1 only when that servo has the position it was asked to
\* take, whatever was lost, late or damaged on the line.
TrueAck ==
    IsWrite(result.of) /\ result.ok => goal[result.of] = asked[result.of]

\* A position whose answer the tty delivers as it was sent.
Readable(pos) ==
    \A k \in 1..8 : AsRead(PositionAnswer(1, pos)[k]) = PositionAnswer(1, pos)[k]

\* ReadPos reports only where the servo is: the checksum finds what was lost
\* or changed, by the line or by the tty. It does not find what both changed:
\* 269, with its 13 read as 10 and its error byte 0 turned into 3, is reported
\* as 266. And it accepts an answer of any servo to any request, so this needs
\* that none of the two earlier calls' answers is still to come.
TruePosition ==
    result.of = 3 /\ result.ok /\ alone /\ (Readable(present) \/ faults = 0)
        => result.pos = present

\* However badly earlier calls went and whatever of theirs has arrived since,
\* the first call that meets nothing late and is served promptly succeeds,
\* unless it reads a position that the tty changes: that one always fails.
OnlyUnreadableFails ==
    result.of # 0 /\ prompt
        => (result.ok <=> IsWrite(result.of) \/ Readable(present))

\* Every call returns, on a babbling line too.
CallReturns == phase # "idle" ~> phase = "idle"

=============================================================================
