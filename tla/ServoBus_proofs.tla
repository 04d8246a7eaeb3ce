--------------------------- MODULE ServoBus_proofs ---------------------------
(***************************************************************************)
(* Proofs about the servo bus and its bytes, for all positions asked and   *)
(* reported, any damage the servos notice and any bytes of noise: the      *)
(* codec, type correctness with any bounds on lateness and faults, and     *)
(* that calls tell the truth: when exactly, each theorem says. The tty     *)
(* may translate or not.                                                   *)
(***************************************************************************)
EXTENDS ServoBus, SequenceTheorems, TLAPS

-----------------------------------------------------------------------------
(* The bytes: words, positions, checksums.                                 *)

\* The ranges as inequalities.
LEMMA Ranges ==
    /\ \A w \in Word : w \in Int /\ 0 <= w /\ w <= 65535
    /\ \A w \in Int : 0 <= w /\ w <= 65535 => w \in Word
    /\ \A p \in Position : p \in Int /\ -32767 <= p /\ p <= 32767
    /\ \A p \in Int : -32767 <= p /\ p <= 32767 => p \in Position
    /\ \A b \in Byte : b \in Int /\ 0 <= b /\ b <= 255
    /\ \A b \in Int : 0 <= b /\ b <= 255 => b \in Byte
<1>1. \A w \in Int : w \in Word <=> 0 <= w /\ w <= 65535
  BY DEF Word
<1>2. \A p \in Int : p \in Position <=> -32767 <= p /\ p <= 32767
  BY DEF Position
<1>3. Word \subseteq Int /\ Position \subseteq Int
  BY DEF Word, Position
<1>4. /\ \A b \in Byte : b \in Int /\ 0 <= b /\ b <= 255
      /\ \A b \in Int : 0 <= b /\ b <= 255 => b \in Byte
  BY DEF Byte
<1> QED  BY <1>1, <1>2, <1>3, <1>4

LEMMA DivMod ==
    ASSUME NEW w \in Int, 0 <= w, NEW d \in {256, 32768}
    PROVE  /\ w = d * (w \div d) + (w % d)
           /\ w \div d \in Nat /\ w % d \in Nat /\ w % d < d
<1>1. CASE d = 256
  BY <1>1
<1>2. CASE d = 32768
  BY <1>2
<1> QED  BY <1>1, <1>2

\* A word split by Host2SCS is the word that SCS2Host joins, in both orders.
THEOREM WordSurvives ==
    ASSUME NEW w \in Word, NEW End \in BOOLEAN
    PROVE  SCS2Host(End, Host2SCS(End, w)[1], Host2SCS(End, w)[2]) = w
<1>1. w = 256 * (w \div 256) + (w % 256)
  BY Ranges, DivMod
<1>2. CASE End
  BY <1>1, <1>2 DEF SCS2Host, Host2SCS
<1>3. CASE ~End
  BY <1>1, <1>3 DEF SCS2Host, Host2SCS
<1> QED  BY <1>2, <1>3

\* Both halves of a word are bytes.
LEMMA HalvesAreBytes ==
    ASSUME NEW w \in Word
    PROVE  Host2SCS(FALSE, w)[1] \in Byte /\ Host2SCS(FALSE, w)[2] \in Byte
<1>1. w \in Int /\ 0 <= w /\ w <= 65535
  BY Ranges
<1>2. w % 256 \in Int /\ 0 <= w % 256 /\ w % 256 <= 255
  BY <1>1
<1>3. w \div 256 \in Int /\ 0 <= w \div 256 /\ w \div 256 <= 255
  BY <1>1
<1>4. Host2SCS(FALSE, w) = <<w % 256, w \div 256>>
  BY DEF Host2SCS
<1>5. w % 256 \in Byte /\ w \div 256 \in Byte
  BY <1>2, <1>3, Ranges
<1>6. Host2SCS(FALSE, w)[1] = w % 256 /\ Host2SCS(FALSE, w)[2] = w \div 256
  <2> DEFINE lo == w % 256  hi == w \div 256
  <2>1. <<lo, hi>>[1] = lo /\ <<lo, hi>>[2] = hi
    <3> HIDE DEF lo, hi
    <3> QED  OBVIOUS
  <2> QED  BY <1>4, <2>1
<1> QED  BY <1>5, <1>6

LEMMA SignedWordType ==
    ASSUME NEW p \in Position
    PROVE  SignedWord(p) \in Word
<1>1. p \in Int /\ -32767 <= p /\ p <= 32767
  BY Ranges
<1>2. CASE p < 0
  <2> DEFINE m == -p
  <2>1. m \in Int /\ 0 <= m
    BY <1>1, <1>2
  <2>2. m % 32768 \in Int /\ 0 <= m % 32768 /\ m % 32768 < 32768
    BY <2>1
  <2>3. SignedWord(p) = 32768 + (m % 32768)
    BY <1>2 DEF SignedWord
  <2> QED  BY <2>2, <2>3, Ranges
<1>3. CASE p >= 0
  BY <1>1, <1>3, Ranges DEF SignedWord
<1> QED  BY <1>1, <1>2, <1>3

\* The position WritePosEx encodes is the one ReadPos decodes, for every s16
\* but -32768.
THEOREM PositionSurvives ==
    ASSUME NEW p \in Position
    PROVE  WordSigned(SignedWord(p)) = p
<1>1. p \in Int /\ -32767 <= p /\ p <= 32767
  BY Ranges
<1>2. CASE p < 0
  <2> DEFINE m == -p
  <2>1. m \in Int /\ 0 < m /\ m < 32768
    BY <1>1, <1>2
  <2>2. m % 32768 = m
    BY <2>1
  <2>3. SignedWord(p) = 32768 + m
    BY <1>2, <2>2 DEF SignedWord
  <2> QED  BY <2>1, <2>3, <1>1 DEF WordSigned
<1>3. CASE p >= 0
  BY <1>1, <1>3 DEF SignedWord, WordSigned
<1> QED  BY <1>1, <1>2, <1>3

LEMMA WordSignedType ==
    ASSUME NEW w \in Word
    PROVE  WordSigned(w) \in Position
<1>1. w \in Int /\ 0 <= w /\ w <= 65535
  BY Ranges
<1>2. WordSigned(w) \in Int /\ -32767 <= WordSigned(w) /\ WordSigned(w) <= 32767
  BY <1>1 DEF WordSigned
<1> QED  BY <1>2, Ranges

LEMMA JoinedType ==
    ASSUME NEW lo \in Byte, NEW hi \in Byte
    PROVE  SCS2Host(FALSE, lo, hi) \in Word
<1>1. /\ lo \in Int /\ 0 <= lo /\ lo <= 255
      /\ hi \in Int /\ 0 <= hi /\ hi <= 255
  BY Ranges
<1>2. SCS2Host(FALSE, lo, hi) = 256 * hi + lo
  BY DEF SCS2Host
<1>3. 256 * hi + lo \in Int /\ 0 <= 256 * hi + lo /\ 256 * hi + lo <= 65535
  BY <1>1
<1>4. 256 * hi + lo \in Word
  BY <1>3, Ranges
<1> QED  BY <1>2, <1>4

LEMMA Not8Type ==
    ASSUME NEW n \in Int
    PROVE  Not8(n) \in Byte
<1>1. n % 256 \in Int /\ 0 <= n % 256 /\ n % 256 <= 255
  OBVIOUS
<1>2. Not8(n) \in Int /\ 0 <= Not8(n) /\ Not8(n) <= 255
  BY <1>1 DEF Not8
<1> QED  BY <1>2, Ranges

\* Two sums that differ by less than 256 have different checksums.
LEMMA SumsDiffer ==
    ASSUME NEW m \in Nat, NEW n \in Nat, m # n, m - n < 256, n - m < 256
    PROVE  Not8(m) # Not8(n)
<1> DEFINE a == m \div 256  b == n \div 256  r == m % 256  s == n % 256
<1>1. /\ m = 256 * a + r /\ n = 256 * b + s
      /\ a \in Int /\ b \in Int /\ r \in Int /\ s \in Int
  BY DivMod
<1>2. Not8(m) = 255 - r /\ Not8(n) = 255 - s
  BY DEF Not8
<1> HIDE DEF a, b, r, s
<1>3. ASSUME r = s PROVE FALSE
  <2>1. m - n = 256 * (a - b)
    BY <1>1, <1>3
  <2>2. a - b < 1 /\ b - a < 1
    BY <1>1, <2>1
  <2> QED  BY <1>1, <2>1, <2>2
<1> QED  BY <1>1, <1>2, <1>3

\* Ack rejects an acknowledgement of which exactly one byte was changed.
THEOREM ChangedAckIsSeen ==
    ASSUME NEW b \in [1..4 -> Byte], b[4] = AckSum(b),
           NEW k \in 1..4, NEW v \in Byte, v # b[k],
           NEW c, c = [b EXCEPT ![k] = v]
    PROVE  c[4] # AckSum(c)
<1> DEFINE b1 == b[1]  b2 == b[2]  b3 == b[3]  b4 == b[4]
<1>1. /\ b1 \in Int /\ 0 <= b1 /\ b1 <= 255
      /\ b2 \in Int /\ 0 <= b2 /\ b2 <= 255
      /\ b3 \in Int /\ 0 <= b3 /\ b3 <= 255
      /\ v \in Int /\ 0 <= v /\ v <= 255
  BY Ranges
<1>2. b4 = Not8(b1 + b2 + b3) /\ AckSum(c) = Not8(c[1] + c[2] + c[3])
  BY DEF AckSum
<1>3. CASE k = 4
  <2>1. c[1] = b1 /\ c[2] = b2 /\ c[3] = b3 /\ c[4] = v /\ v # b4
    BY <1>3
  <2> QED  BY <1>2, <2>1
<1>4. CASE k = 1
  <2>1. c[1] = v /\ c[2] = b2 /\ c[3] = b3 /\ c[4] = b4 /\ v # b1
    BY <1>4
  <2> HIDE DEF b1, b2, b3, b4
  <2>2. Not8(b1 + b2 + b3) # Not8(v + b2 + b3)
    BY <1>1, <2>1, SumsDiffer
  <2> QED  BY <1>2, <2>1, <2>2
<1>5. CASE k = 2
  <2>1. c[1] = b1 /\ c[2] = v /\ c[3] = b3 /\ c[4] = b4 /\ v # b2
    BY <1>5
  <2> HIDE DEF b1, b2, b3, b4
  <2>2. Not8(b1 + b2 + b3) # Not8(b1 + v + b3)
    BY <1>1, <2>1, SumsDiffer
  <2> QED  BY <1>2, <2>1, <2>2
<1>6. CASE k = 3
  <2>1. c[1] = b1 /\ c[2] = b2 /\ c[3] = v /\ c[4] = b4 /\ v # b3
    BY <1>6
  <2> HIDE DEF b1, b2, b3, b4
  <2>2. Not8(b1 + b2 + b3) # Not8(b1 + b2 + v)
    BY <1>1, <2>1, SumsDiffer
  <2> QED  BY <1>2, <2>1, <2>2
<1> QED  BY <1>3, <1>4, <1>5, <1>6

-----------------------------------------------------------------------------
(* Requests and answers.                                                   *)

LEMMA Small == \A b \in 0..255 : b \in Byte
BY DEF Byte

\* What writeBuf makes, byte by byte.
Carries(p, id, addr, fun, data) ==
    LET bytes == <<id, Len(data) + 3, fun, addr>> \o data
    IN  /\ p \in Seq(Byte \cup {CheckSum(bytes)})
        /\ Len(p) = Len(data) + 7
        /\ p[1] = 255 /\ p[2] = 255 /\ p[3] = id
        /\ p[4] = Len(data) + 3 /\ p[5] = fun /\ p[6] = addr
        /\ \A k \in 1..Len(data) : p[6 + k] = data[k]
        /\ p[Len(data) + 7] = CheckSum(bytes)

LEMMA RequestFields ==
    \A id, addr, fun \in Byte, data \in Seq(Byte) :
        Len(data) + 3 \in Byte =>
            Carries(writeBuf(id, addr, data, fun), id, addr, fun, data)
<1> TAKE id, addr, fun \in Byte, data \in Seq(Byte)
<1> HAVE Len(data) + 3 \in Byte
<1> DEFINE front == <<255, 255, id, Len(data) + 3, fun, addr>>
           sum == CheckSum(<<id, Len(data) + 3, fun, addr>> \o data)
           S == Byte \cup {sum}
           n == Len(data)
<1>1. /\ front \in Seq(Byte) /\ Len(front) = 6
      /\ front[1] = 255 /\ front[2] = 255 /\ front[3] = id
      /\ front[4] = n + 3 /\ front[5] = fun /\ front[6] = addr
  BY Small
<1>2. n \in Nat
  OBVIOUS
<1>3. writeBuf(id, addr, data, fun) = front \o data \o <<sum>>
  BY DEF writeBuf
<1>4. data \in Seq(S) /\ front \in Seq(S) /\ <<sum>> \in Seq(S) /\ Len(<<sum>>) = 1
  <2> HIDE DEF front, sum
  <2>1. Seq(Byte) \subseteq Seq(S)
    OBVIOUS
  <2> QED  BY <1>1, <2>1
<1> HIDE DEF front, S
<1> HIDE DEF sum
<1> DEFINE g == front \o data
           p == g \o <<sum>>
<1>5. /\ g \in Seq(S) /\ Len(g) = Len(front) + n
      /\ \A j \in 1..(Len(front) + n) :
             g[j] = IF j <= Len(front) THEN front[j] ELSE data[j - Len(front)]
  BY <1>4, ConcatProperties, Zenon
<1>6. /\ Len(g) \in Nat
      /\ \A j \in 1..(Len(g) + 1) :
             p[j] = IF j <= Len(g) THEN g[j] ELSE <<sum>>[j - Len(g)]
  <2> HIDE DEF g, n
  <2>1. Len(g) \in Nat
    BY <1>5
  <2>2. \A j \in 1..(Len(g) + Len(<<sum>>)) :
            p[j] = IF j <= Len(g) THEN g[j] ELSE <<sum>>[j - Len(g)]
    BY <1>4, <1>5, ConcatProperties, Zenon
  <2> HIDE DEF p
  <2> QED  BY <1>4, <2>1, <2>2
<1> HIDE DEF g, n, p
<1>7. /\ Len(g) = 6 + n
      /\ \A j \in 1..(6 + n) : g[j] = IF j <= 6 THEN front[j] ELSE data[j - 6]
  BY <1>1, <1>5
<1>8. \A j \in 1..(6 + n) : p[j] = g[j]
  BY <1>2, <1>6, <1>7
<1>9. /\ p[1] = 255 /\ p[2] = 255 /\ p[3] = id
      /\ p[4] = n + 3 /\ p[5] = fun /\ p[6] = addr
      /\ \A k \in 1..n : p[6 + k] = data[k]
  BY <1>1, <1>2, <1>7, <1>8
<1>10. p \in Seq(S) /\ Len(p) = n + 7
  <2>1. p \in Seq(S) /\ Len(p) = Len(g) + 1
    BY <1>4, <1>5, ConcatProperties DEF p
  <2> QED  BY <1>2, <1>7, <2>1
<1>11. p[n + 7] = sum
  BY <1>2, <1>6, <1>7
<1>12. writeBuf(id, addr, data, fun) = p
  BY <1>3 DEF p, g
<1> QED  BY <1>9, <1>10, <1>11, <1>12 DEF n, sum, S, Carries

LEMMA PositionDataType ==
    ASSUME NEW pos \in Position, NEW speed \in Word, NEW acc \in Byte
    PROVE  /\ PositionData(pos, speed, acc) \in Seq(Byte)
           /\ Len(PositionData(pos, speed, acc)) = 7
<1> DEFINE p1 == Host2SCS(FALSE, SignedWord(pos))[1]
           p2 == Host2SCS(FALSE, SignedWord(pos))[2]
           v1 == Host2SCS(FALSE, speed)[1]
           v2 == Host2SCS(FALSE, speed)[2]
<1>1. p1 \in Byte /\ p2 \in Byte /\ v1 \in Byte /\ v2 \in Byte
  BY SignedWordType, HalvesAreBytes
<1>2. PositionData(pos, speed, acc) = <<acc, p1, p2, 0, 0, v1, v2>>
  BY DEF PositionData
<1> HIDE DEF p1, p2, v1, v2
<1>3. /\ <<acc, p1, p2, 0, 0, v1, v2>> \in Seq(Byte)
      /\ Len(<<acc, p1, p2, 0, 0, v1, v2>>) = 7
  <2>1. 0 \in Byte
    BY Small
  <2> QED  BY <1>1, <2>1
<1> QED  BY <1>2, <1>3, Zenon

\* The requests of move_servos are such packets.
LEMMA RequestCarries ==
    ASSUME NEW c \in 1..3, NEW pos \in [Servos -> Position]
    PROVE  /\ IsWrite(c) =>
                Carries(Request(c, pos), c, SMS_STS_ACC, INST_WRITE,
                        PositionData(pos[c], Speed, ACC))
           /\ ~IsWrite(c) =>
                Carries(Request(c, pos), 1, SMS_STS_PRESENT_POSITION_L, INST_READ, <<2>>)
<1>1. CASE IsWrite(c)
  <2> DEFINE data == PositionData(pos[c], Speed, ACC)
  <2>1. c \in Servos /\ c \in Byte
    BY <1>1, Small DEF IsWrite, Servos
  <2>2. data \in Seq(Byte) /\ Len(data) = 7
    <3>1. Speed \in Word /\ ACC \in Byte
      BY DEF Speed, ACC, Word, Byte
    <3>2. pos[c] \in Position
      BY <2>1
    <3> QED  BY <3>1, <3>2, PositionDataType
  <2>3. SMS_STS_ACC \in Byte /\ INST_WRITE \in Byte /\ 10 \in Byte
    BY Small DEF SMS_STS_ACC, INST_WRITE
  <2>4. Request(c, pos) = writeBuf(c, SMS_STS_ACC, data, INST_WRITE)
    BY <1>1 DEF Request, WritePosEx
  <2> HIDE DEF data
  <2>5. Len(data) + 3 \in Byte
    <3>1. 7 + 3 \in Byte /\ Len(data) + 3 = 7 + 3
      BY <2>2, Small
    <3> QED  BY <3>1
  <2>6. Carries(writeBuf(c, SMS_STS_ACC, data, INST_WRITE), c, SMS_STS_ACC,
                INST_WRITE, data)
    BY <2>1, <2>2, <2>3, <2>5, RequestFields, Zenon
  <2> QED  BY <1>1, <2>4, <2>6 DEF data
<1>2. CASE ~IsWrite(c)
  <2>1. <<2>> \in Seq(Byte) /\ Len(<<2>>) = 1 /\ 1 \in Byte /\ 4 \in Byte
    BY Small
  <2>2. SMS_STS_PRESENT_POSITION_L \in Byte /\ INST_READ \in Byte
    BY Small DEF SMS_STS_PRESENT_POSITION_L, INST_READ
  <2>3. Request(c, pos) = writeBuf(1, SMS_STS_PRESENT_POSITION_L, <<2>>, INST_READ)
    BY <1>2 DEF Request, ReadPos
  <2>4. <<2>> \in Seq(Byte) /\ Len(<<2>>) + 3 \in Byte
    BY <2>1
  <2>5. Carries(writeBuf(1, SMS_STS_PRESENT_POSITION_L, <<2>>, INST_READ),
                1, SMS_STS_PRESENT_POSITION_L, INST_READ, <<2>>)
    BY <2>1, <2>2, <2>4, RequestFields, Zenon
  <2> QED  BY <1>2, <2>3, <2>5
<1> QED  BY <1>1, <1>2

\* A servo accepts such a packet.
LEMMA CarriesAccepted ==
    ASSUME NEW id \in Byte, NEW addr \in Byte, NEW fun \in Byte, NEW data \in Seq(Byte),
           Len(data) + 3 \in Byte, NEW p, Carries(p, id, addr, fun, data)
    PROVE  Accepts(p)
<1> DEFINE n == Len(data)
           head == <<id, n + 3, fun, addr>>
           bytes == head \o data
           S == Byte \cup {CheckSum(bytes)}
           covered == SubSeq(p, 3, Len(p) - 1)
<1>1. n \in Nat
  OBVIOUS
<1>2. head \in Seq(Byte) /\ Len(head) = 4
  OBVIOUS
<1>3. /\ bytes \in Seq(Byte) /\ Len(bytes) = 4 + n
      /\ \A j \in 1..(4 + n) : bytes[j] = IF j <= 4 THEN head[j] ELSE data[j - 4]
  <2> HIDE DEF head
  <2>1. /\ bytes \in Seq(Byte) /\ Len(bytes) = Len(head) + Len(data)
        /\ \A j \in 1..(Len(head) + Len(data)) :
               bytes[j] = IF j <= Len(head) THEN head[j] ELSE data[j - Len(head)]
    BY <1>2, ConcatProperties
  <2> HIDE DEF bytes
  <2> QED  BY <1>2, <2>1
<1>4. head[1] = id /\ head[2] = n + 3 /\ head[3] = fun /\ head[4] = addr
  OBVIOUS
<1>5. /\ p \in Seq(S) /\ Len(p) = n + 7
      /\ p[1] = 255 /\ p[2] = 255 /\ p[3] = id
      /\ p[4] = n + 3 /\ p[5] = fun /\ p[6] = addr
      /\ \A k \in 1..n : p[6 + k] = data[k]
      /\ p[n + 7] = CheckSum(bytes)
  BY DEF Carries
<1> HIDE DEF bytes, head, S, n
<1>6. /\ covered \in Seq(S) /\ Len(covered) = n + 4
      /\ \A j \in 1..(n + 4) : covered[j] = p[j + 2]
  <2>1. \A i \in 3..(n + 6) : p[i] \in S
    BY <1>1, <1>5
  <2>2. /\ SubSeq(p, 3, n + 6) \in Seq(S)
        /\ Len(SubSeq(p, 3, n + 6)) = IF 3 <= n + 6 THEN n + 6 - 3 + 1 ELSE 0
        /\ \A i \in 1..(n + 6 - 3 + 1) : SubSeq(p, 3, n + 6)[i] = p[3 + i - 1]
    BY <1>1, <2>1, SubSeqProperties
  <2>3. Len(p) - 1 = n + 6
    BY <1>1, <1>5
  <2> QED  BY <1>1, <2>2, <2>3
<1> HIDE DEF covered
<1>7. bytes \in Seq(S)
  <2>1. Byte \subseteq S
    BY DEF S
  <2> QED  BY <1>3, <2>1, SeqMonotonic
<1>8. ASSUME NEW j \in 1..(n + 4) PROVE covered[j] = bytes[j]
  <2>1. CASE j <= 4
    <3>1. j = 1 \/ j = 2 \/ j = 3 \/ j = 4
      BY <1>1, <2>1
    <3>2. covered[1] = p[3] /\ covered[2] = p[4] /\ covered[3] = p[5] /\ covered[4] = p[6]
      BY <1>1, <1>6
    <3>3. bytes[j] = head[j]
      BY <1>1, <1>3, <2>1
    <3> QED  BY <1>4, <1>5, <3>1, <3>2, <3>3
  <2>2. CASE j > 4
    <3>1. j - 4 \in 1..n /\ 6 + (j - 4) = j + 2
      BY <1>1, <2>2
    <3>2. p[6 + (j - 4)] = data[j - 4]
      BY <1>5, <3>1
    <3>3. covered[j] = p[j + 2]
      BY <1>6
    <3>4. bytes[j] = data[j - 4]
      BY <1>1, <1>3, <2>2
    <3> QED  BY <3>1, <3>2, <3>3, <3>4
  <2> QED  BY <1>1, <2>1, <2>2
<1>9. covered = bytes
  BY <1>1, <1>3, <1>6, <1>7, <1>8, SeqEqual
<1>10. p[Len(p)] = CheckSum(SubSeq(p, 3, Len(p) - 1))
  BY <1>5, <1>9 DEF covered
<1>11. Len(p) > 6 /\ p[4] = Len(p) - 4
  BY <1>1, <1>5
<1> QED  BY <1>5, <1>10, <1>11 DEF Accepts

\* What the servo takes from a position's bytes is that position.
LEMMA PositionCarried ==
    ASSUME NEW pos \in Position, NEW speed, NEW acc
    PROVE  WordSigned(SCS2Host(FALSE, PositionData(pos, speed, acc)[2],
                               PositionData(pos, speed, acc)[3])) = pos
<1> DEFINE w == SignedWord(pos)
           h == Host2SCS(FALSE, w)
           v == Host2SCS(FALSE, speed)
<1>1. PositionData(pos, speed, acc) = <<acc, h[1], h[2], 0, 0, v[1], v[2]>>
  BY DEF PositionData
<1>2. /\ PositionData(pos, speed, acc)[2] = h[1]
      /\ PositionData(pos, speed, acc)[3] = h[2]
  <2> HIDE DEF h, v
  <2> QED  BY <1>1
<1>3. SCS2Host(FALSE, h[1], h[2]) = w
  <2>1. w \in Word /\ FALSE \in BOOLEAN
    BY SignedWordType
  <2> HIDE DEF w
  <2> QED  BY <2>1, WordSurvives
<1>4. WordSigned(w) = pos
  BY PositionSurvives
<1> HIDE DEF w, h
<1> QED  BY <1>2, <1>3, <1>4

\* A request of move_servos names one of its servos, is accepted by it, and a
\* write carries the position asked.
LEMMA RequestMeans ==
    ASSUME NEW c \in 1..3, NEW pos \in [Servos -> Position]
    PROVE  LET p == Request(c, pos)
           IN /\ Accepts(p)
              /\ IsWrite(c) =>
                   /\ p[3] = c /\ p[5] = INST_WRITE /\ p[6] = SMS_STS_ACC
                   /\ p[8] \in Byte /\ p[9] \in Byte
                   /\ WordSigned(SCS2Host(FALSE, p[8], p[9])) = pos[c]
              /\ ~IsWrite(c) => p[3] = 1 /\ p[5] = INST_READ
<1> DEFINE p == Request(c, pos)
<1>1. CASE IsWrite(c)
  <2> DEFINE data == PositionData(pos[c], Speed, ACC)
  <2>1. c \in Byte /\ SMS_STS_ACC \in Byte /\ INST_WRITE \in Byte
    BY <1>1, Small DEF IsWrite, SMS_STS_ACC, INST_WRITE
  <2>2. pos[c] \in Position
    BY <1>1 DEF IsWrite, Servos
  <2>3. data \in Seq(Byte) /\ Len(data) = 7
    <3>1. Speed \in Word /\ ACC \in Byte
      BY DEF Speed, ACC, Word, Byte
    <3> QED  BY <2>2, <3>1, PositionDataType
  <2>4. WordSigned(SCS2Host(FALSE, data[2], data[3])) = pos[c]
    BY <2>2, PositionCarried
  <2>5. Carries(p, c, SMS_STS_ACC, INST_WRITE, data)
    BY <1>1, RequestCarries
  <2> HIDE DEF data, p
  <2>6. Len(data) + 3 \in Byte
    <3>1. Len(data) + 3 = 10 /\ 10 \in Byte
      BY <2>3, Small
    <3> QED  BY <3>1
  <2>7. Accepts(p)
    BY <2>1, <2>3, <2>5, <2>6, CarriesAccepted
  <2>8. p[3] = c /\ p[5] = INST_WRITE /\ p[6] = SMS_STS_ACC
    BY <2>5 DEF Carries
  <2>9. p[8] = data[2] /\ p[9] = data[3]
    <3>1. \A k \in 1..7 : p[6 + k] = data[k]
      BY <2>3, <2>5 DEF Carries
    <3> QED  BY <3>1
  <2>10. data[2] \in Byte /\ data[3] \in Byte
    BY <2>3, SMTT(30)
  <2> QED  BY <1>1, <2>4, <2>7, <2>8, <2>9, <2>10 DEF p
<1>2. CASE ~IsWrite(c)
  <2>1. <<2>> \in Seq(Byte) /\ Len(<<2>>) + 3 \in Byte /\ 1 \in Byte
    BY Small
  <2>2. SMS_STS_PRESENT_POSITION_L \in Byte /\ INST_READ \in Byte
    BY Small DEF SMS_STS_PRESENT_POSITION_L, INST_READ
  <2>3. Carries(p, 1, SMS_STS_PRESENT_POSITION_L, INST_READ, <<2>>)
    BY <1>2, RequestCarries
  <2> HIDE DEF p
  <2>4. Accepts(p)
    BY <2>1, <2>2, <2>3, CarriesAccepted
  <2>5. p[3] = 1 /\ p[5] = INST_READ
    BY <2>3 DEF Carries
  <2> QED  BY <1>2, <2>4, <2>5 DEF p
<1> QED  BY <1>1, <1>2

LEMMA RequestType ==
    ASSUME NEW c \in 1..3, NEW pos \in [Servos -> Position]
    PROVE  LET p == Request(c, pos)
           IN /\ p[3] \in Byte
              /\ p[5] = INST_WRITE => p[8] \in Byte /\ p[9] \in Byte
<1> DEFINE p == Request(c, pos)
<1>1. /\ IsWrite(c) => p[3] = c /\ p[8] \in Byte /\ p[9] \in Byte
      /\ ~IsWrite(c) => p[3] = 1 /\ p[5] = INST_READ
  BY RequestMeans
<1> HIDE DEF p
<1>2. p[3] \in Byte
  BY <1>1, Small DEF IsWrite
<1>3. p[5] = INST_WRITE => p[8] \in Byte /\ p[9] \in Byte
  BY <1>1 DEF INST_READ, INST_WRITE
<1> QED  BY <1>2, <1>3 DEF p

LEMMA BytesArePosition ==
    ASSUME NEW lo \in Byte, NEW hi \in Byte
    PROVE  WordSigned(SCS2Host(FALSE, lo, hi)) \in Position
BY JoinedType, WordSignedType

LEMMA ObeyedType ==
    ASSUME NEW c \in 1..3, NEW pos \in [Servos -> Position],
           goal \in [Servos -> Position]
    PROVE  Obeyed(Request(c, pos)) \in [Servos -> Position]
<1> DEFINE p == Request(c, pos)
           x == WordSigned(SCS2Host(FALSE, p[8], p[9]))
<1>1. CASE Accepts(p) /\ p[5] = INST_WRITE /\ p[6] = SMS_STS_ACC
  <2>1. p[8] \in Byte /\ p[9] \in Byte
    BY <1>1, RequestType
  <2>2. x \in Position
    BY <2>1, BytesArePosition
  <2>3. Obeyed(p) = [goal EXCEPT ![p[3]] = x]
    BY <1>1 DEF Obeyed
  <2> HIDE DEF x, p
  <2>4. Obeyed(p) \in [Servos -> Position]
    BY <2>2, <2>3
  <2> QED  BY <2>4 DEF p
<1>2. CASE ~(Accepts(p) /\ p[5] = INST_WRITE /\ p[6] = SMS_STS_ACC)
  <2> HIDE DEF p
  <2>1. Obeyed(p) = goal
    BY <1>2 DEF Obeyed
  <2> QED  BY <2>1 DEF p
<1> QED  BY <1>1, <1>2

LEMMA AckAnswerType ==
    ASSUME NEW id \in Byte
    PROVE  AckAnswer(id) \in Seq(Byte)
<1>1. id + 2 + 0 \in Int
  BY Ranges
<1>2. Not8(id + 2 + 0) \in Byte
  BY <1>1, Not8Type
<1>3. 255 \in Byte /\ 2 \in Byte /\ 0 \in Byte
  BY Small
<1> QED  BY <1>2, <1>3 DEF AckAnswer

LEMMA PositionAnswerType ==
    ASSUME NEW id \in Byte, NEW pos \in Position
    PROVE  PositionAnswer(id, pos) \in Seq(Byte)
<1> DEFINE w1 == Host2SCS(FALSE, SignedWord(pos))[1]
           w2 == Host2SCS(FALSE, SignedWord(pos))[2]
           s == Not8(id + 4 + 0 + w1 + w2)
<1>1. w1 \in Byte /\ w2 \in Byte
  BY SignedWordType, HalvesAreBytes
<1>2. PositionAnswer(id, pos) = <<255, 255, id, 4, 0, w1, w2, s>>
  BY DEF PositionAnswer
<1> HIDE DEF w1, w2
<1>3. id + 4 + 0 + w1 + w2 \in Int
  BY <1>1, Ranges
<1>4. s \in Byte
  BY <1>3, Not8Type
<1> HIDE DEF s
<1>5. 255 \in Byte /\ 4 \in Byte /\ 0 \in Byte
  BY Small
<1> QED  BY <1>1, <1>2, <1>4, <1>5

LEMMA AnswerType ==
    ASSUME NEW c \in 1..3, NEW pos \in [Servos -> Position], present' \in Position
    PROVE  AnswerTo(Request(c, pos)) \in Seq(Byte)
<1> DEFINE p == Request(c, pos)
<1>1. p[3] \in Byte
  BY RequestType
<1>2. AckAnswer(p[3]) \in Seq(Byte) /\ PositionAnswer(p[3], present') \in Seq(Byte)
  BY <1>1, AckAnswerType, PositionAnswerType
<1> HIDE DEF p
<1>3. AnswerTo(p) \in Seq(Byte)
  BY <1>2 DEF AnswerTo
<1> QED  BY <1>3 DEF p

-----------------------------------------------------------------------------
(* The line.                                                               *)

LEMMA DamagedType ==
    ASSUME NEW s \in Seq(Byte), NEW d \in Damaged(s)
    PROVE  d \in Seq(Byte)
<1>1. CASE d = <<>>
  BY <1>1
<1>2. ASSUME NEW k \in 1..Len(s), d = Without(s, k)
      PROVE  d \in Seq(Byte)
  <2>1. /\ SubSeq(s, 1, k - 1) \in Seq(Byte)
        /\ SubSeq(s, k + 1, Len(s)) \in Seq(Byte)
    OBVIOUS
  <2>2. SubSeq(s, 1, k - 1) \o SubSeq(s, k + 1, Len(s)) \in Seq(Byte)
    BY <2>1
  <2> QED  BY <1>2, <2>2 DEF Without
<1>3. ASSUME NEW k \in 1..Len(s), NEW b \in Garble, d = [s EXCEPT ![k] = b]
      PROVE  d \in Seq(Byte)
  BY <1>3, ExceptSeq, BytesAssumption
<1> QED  BY <1>1, <1>2, <1>3 DEF Damaged

LEMMA FreshType ==
    ASSUME NEW s \in Seq(Byte)
    PROVE  Fresh(s) \in Seq(LateByte)
<1>1. Len(s) \in Nat /\ \A k \in 1..Len(s) : s[k] \in Byte
  OBVIOUS
<1>2. \A k \in 1..Len(s) : [byte |-> s[k], age |-> 0] \in LateByte
  BY <1>1, BoundsAssumption DEF LateByte
<1> QED  BY <1>1, <1>2 DEF Fresh

LEMMA OlderType ==
    ASSUME NEW s \in Seq(LateByte), \A k \in 1..Len(s) : s[k].age < MaxLate
    PROVE  Older(s) \in Seq(LateByte)
<1>1. Len(s) \in Nat /\ \A k \in 1..Len(s) : s[k] \in LateByte
  OBVIOUS
<1>2. \A k \in 1..Len(s) : [s[k] EXCEPT !.age = @ + 1] \in LateByte
  BY <1>1, BoundsAssumption DEF LateByte
<1> QED  BY <1>1, <1>2 DEF Older

LEMMA RestType ==
    ASSUME NEW n \in 0..Len(line), line \in Seq(LateByte)
    PROVE  Rest(n) \in Seq(LateByte)
BY DEF Rest

LEMMA HeardType ==
    ASSUME TypeOK, NEW left \in Seq(LateByte), NEW reply,
           reply.goal \in [Servos -> Position], reply.answer \in Seq(Byte),
           alone' \in BOOLEAN,
           Heard(left, reply) \/ Unheard(left)
    PROVE  /\ goal' \in [Servos -> Position]
           /\ line' \in Seq(LateByte)
           /\ faults' \in 0..MaxFaults
<1>1. Faultless => faults' \in 0..MaxFaults
  BY BoundsAssumption DEF Faultless, TypeOK
<1>2. Faulty => faults' \in 0..MaxFaults
  BY BoundsAssumption DEF Faulty, TypeOK
<1>3. ASSUME NEW s \in Seq(Byte), line' = left \o Fresh(s)
      PROVE  line' \in Seq(LateByte)
  <2>1. Fresh(s) \in Seq(LateByte)
    BY FreshType
  <2> QED  BY <1>3, <2>1
<1>4. CASE Heard(left, reply)
  <2>1. \A s \in Damaged(reply.answer) : s \in Seq(Byte)
    BY DamagedType
  <2>2. line' \in Seq(LateByte)
    BY <1>3, <1>4, <2>1 DEF Heard
  <2> QED  BY <1>1, <1>2, <1>4, <2>2 DEF Heard
<1>5. CASE Unheard(left)
  BY <1>2, <1>5 DEF Unheard, TypeOK
<1> QED  BY <1>4, <1>5

LEMMA ExchangeType ==
    ASSUME TypeOK, present' \in Position, NEW pos \in [Servos -> Position],
           Exchange(Request(call, pos))
    PROVE  /\ goal' \in [Servos -> Position]
           /\ line' \in Seq(LateByte)
           /\ faults' \in 0..MaxFaults
           /\ alone' \in BOOLEAN
<1> DEFINE p == Request(call, pos)
           reply == [goal |-> Obeyed(p), answer |-> AnswerTo(p)]
<1>1. Obeyed(p) \in [Servos -> Position] /\ AnswerTo(p) \in Seq(Byte)
  BY ObeyedType, AnswerType DEF TypeOK
<1> HIDE DEF p
<1>2. reply.goal \in [Servos -> Position] /\ reply.answer \in Seq(Byte)
  BY <1>1
<1>3. PICK n \in 0..Len(line) :
          /\ Arrived(n)
          /\ Heard(Older(Rest(n)), reply) \/ Unheard(Older(Rest(n)))
  BY DEF Exchange, Flushed, p
<1>4. Older(Rest(n)) \in Seq(LateByte)
  BY <1>3, RestType, OlderType DEF Arrived, TypeOK
<1>5. alone' \in BOOLEAN
  BY <1>3 DEF Arrived
<1> HIDE DEF reply
<1> QED  BY <1>2, <1>3, <1>4, <1>5, HeardType

-----------------------------------------------------------------------------
(* The theorem.                                                            *)

LEMMA ReturnType ==
    ASSUME TypeOK, NEW ok \in BOOLEAN, NEW pos \in Int, Return(ok, pos)
    PROVE  /\ call' \in 1..3 /\ phase' \in {"idle", "head", "body"}
           /\ prev' \in Byte /\ cnt' \in 0..10
           /\ buf' \in Seq(Byte) /\ Len(buf') < BodyLen(call')
           /\ result' \in Results
<1>1. call \in 1..3
  BY DEF TypeOK
<1>2. call' \in 1..3
  BY <1>1 DEF Return
<1>3. result' \in Results
  BY <1>1 DEF Return, Results
<1> QED  BY <1>2, <1>3, Small DEF Return, Forget, BodyLen

LEMMA GiveUpType ==
    ASSUME TypeOK, GiveUp
    PROVE  /\ call' \in 1..3 /\ phase' \in {"idle", "head", "body"}
           /\ prev' \in Byte /\ cnt' \in 0..10
           /\ buf' \in Seq(Byte) /\ Len(buf') < BodyLen(call')
           /\ result' \in Results
<1>1. FALSE \in BOOLEAN /\ -1 \in Int
  OBVIOUS
<1>2. Return(FALSE, -1)
  BY DEF GiveUp
<1> QED  BY <1>1, <1>2, ReturnType

LEMMA HeadByteType ==
    ASSUME TypeOK, NEW b \in Byte, HeadByte(b)
    PROVE  /\ call' \in 1..3 /\ phase' \in {"idle", "head", "body"}
           /\ prev' \in Byte /\ cnt' \in 0..10
           /\ buf' \in Seq(Byte) /\ Len(buf') < BodyLen(call')
           /\ result' \in Results
<1>1. CASE GiveUp
  BY <1>1, GiveUpType
<1>2. CASE UNCHANGED <<call, phase, buf, result>> /\ prev' = b /\ cnt' = cnt + 1 /\ cnt < 10
  BY <1>2 DEF TypeOK, BodyLen
<1>3. CASE phase' = "body" /\ UNCHANGED <<call, prev, cnt, buf, result>>
  BY <1>3 DEF TypeOK, BodyLen
<1> QED  BY <1>1, <1>2, <1>3 DEF HeadByte

LEMMA BodyByteType ==
    ASSUME TypeOK, NEW b \in Byte, BodyByte(b)
    PROVE  /\ call' \in 1..3 /\ phase' \in {"idle", "head", "body"}
           /\ prev' \in Byte /\ cnt' \in 0..10
           /\ buf' \in Seq(Byte) /\ Len(buf') < BodyLen(call')
           /\ result' \in Results
<1> DEFINE whole == Append(buf, b)
<1>1. buf \in Seq(Byte)
  BY DEF TypeOK
<1>2. whole \in Seq(Byte) /\ Len(whole) = Len(buf) + 1
  BY <1>1
<1> HIDE DEF whole
<1>3. CASE /\ Len(buf) + 1 < BodyLen(call) /\ buf' = whole
           /\ UNCHANGED <<call, phase, prev, cnt, result>>
  BY <1>2, <1>3 DEF TypeOK, BodyLen
<1>4. CASE Len(buf) + 1 = BodyLen(call) /\ Finish(whole)
  <2>1. CASE GiveUp
    BY <2>1, GiveUpType
  <2>2. CASE Return(Acked(whole), 0)
    <3>1. Acked(whole) \in BOOLEAN /\ 0 \in Int
      BY DEF Acked
    <3> QED  BY <2>2, <3>1, ReturnType
  <2>3. CASE /\ ~IsWrite(call)
             /\ Return(TRUE, WordSigned(SCS2Host(FALSE, whole[4], whole[5])))
    <3> DEFINE x == WordSigned(SCS2Host(FALSE, whole[4], whole[5]))
    <3>1. whole[4] \in Byte /\ whole[5] \in Byte
      BY <1>2, <1>4, <2>3 DEF BodyLen
    <3>2. x \in Position
      BY <3>1, BytesArePosition
    <3>3. Return(TRUE, x)
      BY <2>3
    <3> HIDE DEF x
    <3>4. x \in Int
      BY <3>2, Ranges
    <3> QED  BY <3>3, <3>4, ReturnType
  <2> QED  BY <1>4, <2>1, <2>2, <2>3 DEF Finish
<1> QED  BY <1>3, <1>4 DEF BodyByte, whole

\* What the tty does to a byte.
LEMMA AsReadType == ASSUME NEW b \in Byte PROVE AsRead(b) \in Byte
BY Small DEF AsRead

\* It makes no mark of an answer and unmakes none.
LEMMA AsReadMarks ==
    ASSUME NEW b, NEW v \in {0, 1, 2, 4, 255} PROVE AsRead(b) = v <=> b = v
BY DEF AsRead

LEMMA ReceiveType ==
    ASSUME TypeOK, NEW b \in Byte, Receive(b),
           line' \in Seq(LateByte), faults' \in 0..MaxFaults
    PROVE  TypeOK'
<1>1. /\ asked' \in [Servos -> Position] /\ goal' \in [Servos -> Position]
      /\ present' \in Position /\ prompt' \in BOOLEAN /\ alone' \in BOOLEAN
  BY DEF Receive, TypeOK
<1>2. /\ call' \in 1..3 /\ phase' \in {"idle", "head", "body"}
      /\ prev' \in Byte /\ cnt' \in 0..10
      /\ buf' \in Seq(Byte) /\ Len(buf') < BodyLen(call')
      /\ result' \in Results
  BY AsReadType, HeadByteType, BodyByteType DEF Receive
<1> QED  BY <1>1, <1>2 DEF TypeOK, BodyLen, IsWrite

\* Type correctness of the bus, for any positions asked of and held by the
\* servos, any damage the servos notice, and any bounds.
THEOREM TypeCorrect == Spec => []TypeOK
<1>1. Init => TypeOK
  <2> SUFFICES ASSUME Init PROVE TypeOK
    OBVIOUS
  <2>1. 0 \in Position
    BY Ranges
  <2>2. present \in Position
    BY TargetsAssumption DEF Init
  <2>3. NoResult \in Results
    BY DEF NoResult, Results
  <2>4. prev \in Byte
    BY Small DEF Init
  <2>5. buf \in Seq(Byte) /\ Len(buf) < BodyLen(call)
    BY DEF Init, BodyLen
  <2>6. goal \in [Servos -> Position] /\ asked \in [Servos -> Position]
    BY <2>1 DEF Init
  <2>7. line \in Seq(LateByte) /\ faults \in 0..MaxFaults
    BY BoundsAssumption DEF Init
  <2>8. call \in 1..3 /\ cnt \in 0..10
    BY DEF Init
  <2>9. /\ phase \in {"idle", "head", "body"} /\ result \in Results
        /\ prompt \in BOOLEAN /\ alone \in BOOLEAN
    BY <2>3, Zenon DEF Init
  <2> QED  BY <2>2, <2>4, <2>5, <2>6, <2>7, <2>8, <2>9 DEF TypeOK
<1>2. TypeOK /\ [Next]_vars => TypeOK'
  <2> SUFFICES ASSUME TypeOK, [Next]_vars PROVE TypeOK'
    OBVIOUS
  <2>1. CASE Command
    <3>1. present' \in Position
      BY <2>1, TargetsAssumption DEF Command
    <3>2. asked' \in [Servos -> Position]
      <4>1. CASE call = 1
        <5>1. PICK x \in Targets[1], y \in Targets[2] :
                  asked' = [s \in Servos |-> IF s = 1 THEN x ELSE y]
          BY <2>1, <4>1 DEF Command
        <5>2. x \in Position /\ y \in Position
          BY TargetsAssumption DEF Servos
        <5> QED  BY <5>1, <5>2
      <4> QED  BY <2>1, <4>1 DEF Command, TypeOK
    <3>3. /\ goal' \in [Servos -> Position] /\ line' \in Seq(LateByte)
          /\ faults' \in 0..MaxFaults /\ alone' \in BOOLEAN
      <4>1. Exchange(Request(call, asked'))
        BY <2>1 DEF Command
      <4> QED  BY <3>1, <3>2, <4>1, ExchangeType
    <3>4. NoResult \in Results
      BY DEF NoResult, Results
    <3>5. /\ call' \in 1..3 /\ phase' = "head" /\ prompt' \in BOOLEAN
          /\ prev' = 0 /\ cnt' = 0 /\ buf' = <<>> /\ result' = NoResult
      BY <2>1 DEF Command, Forget, TypeOK
    <3>6. prev' \in Byte
      BY <3>5, Small
    <3>7. buf' \in Seq(Byte) /\ Len(buf') < BodyLen(call')
      BY <3>5 DEF BodyLen
    <3> QED  BY <3>1, <3>2, <3>3, <3>4, <3>5, <3>6, <3>7 DEF TypeOK
  <2>2. CASE TakeByte
    <3>1. line \in Seq(LateByte) /\ line # <<>>
      BY <2>2 DEF TakeByte, TypeOK
    <3>2. Head(line).byte \in Byte /\ Tail(line) \in Seq(LateByte)
      <4>1. Head(line) \in LateByte /\ Tail(line) \in Seq(LateByte)
        BY <3>1, HeadTailProperties
      <4> QED  BY <4>1 DEF LateByte
    <3> QED  BY <2>2, <3>2, ReceiveType DEF TakeByte, TypeOK
  <2>3. CASE Noise
    <3>1. line' \in Seq(LateByte) /\ faults' \in 0..MaxFaults
      BY <2>3, BoundsAssumption DEF Noise, TypeOK
    <3> QED  BY <2>3, <3>1, ReceiveType, BytesAssumption DEF Noise
  <2>4. CASE Timeout
    <3>1. /\ call' \in 1..3 /\ phase' \in {"idle", "head", "body"}
          /\ prev' \in Byte /\ cnt' \in 0..10
          /\ buf' \in Seq(Byte) /\ Len(buf') < BodyLen(call')
          /\ result' \in Results
      BY <2>4, GiveUpType DEF Timeout
    <3> QED  BY <2>4, <3>1 DEF Timeout, TypeOK, BodyLen, IsWrite
  <2>5. CASE UNCHANGED vars
    BY <2>5 DEF vars, TypeOK, BodyLen, IsWrite
  <2> QED  BY <2>1, <2>2, <2>3, <2>4, <2>5 DEF Next, Reading
<1> QED  BY <1>1, <1>2, PTL DEF Spec

-----------------------------------------------------------------------------
(* An answer read from its beginning.                                      *)

\* What the servo answers to this call.
AnswerToCall(c, pos) == IF IsWrite(c) THEN AckAnswer(c) ELSE PositionAnswer(1, pos)
Answer == AnswerToCall(call, present)

\* s as the host gets it.
Received(s) == [k \in 1..Len(s) |-> AsRead(s[k])]

\* The line holds what will be read as d without its first i bytes.
Ahead(d, i) ==
    /\ Len(line) = Len(d) - i
    /\ \A k \in 1..Len(line) : AsRead(line[k].byte) = d[i + k]

\* The call has read the beginning of d, and the rest is on the line.
AtPlace(d) ==
    \/ phase = "head" /\ prev = 0 /\ cnt = 0 /\ Ahead(d, 0)
    \/ phase = "head" /\ prev = 255 /\ cnt = 1 /\ Ahead(d, 1)
    \/ /\ phase = "body" /\ Ahead(d, 2 + Len(buf))
       /\ \A k \in 1..Len(buf) : buf[k] = d[2 + k]

\* A call in progress has returned nothing and begins with nothing read.
NothingYet ==
    /\ phase # "idle" => result = NoResult
    /\ phase = "head" => buf = <<>>

LEMMA TailOfLine ==
    ASSUME NEW ln \in Seq(LateByte), ln # <<>>
    PROVE  /\ Len(ln) \in Nat /\ Len(ln) > 0
           /\ Head(ln) = ln[1] /\ ln[1].byte \in Byte
           /\ Tail(ln) \in Seq(LateByte) /\ Len(Tail(ln)) = Len(ln) - 1
           /\ \A k \in 1..(Len(ln) - 1) : Tail(ln)[k] = ln[k + 1]
<1>1. Len(ln) \in Nat /\ Len(ln) > 0
  BY EmptySeq
<1>2. ln[1] \in LateByte
  BY <1>1
<1>3. ln[1].byte \in Byte
  BY <1>2 DEF LateByte
<1> QED  BY <1>1, <1>3, HeadTailProperties

\* The steps of reading: a byte that is there, a byte of noise, or nothing.
LEMMA ReadingSteps ==
    ASSUME TypeOK, Reading
    PROVE  /\ phase # "idle" /\ UNCHANGED <<asked, goal, present, prompt, alone>>
           /\ \/ /\ GiveUp /\ UNCHANGED <<line, faults>>
                 /\ line # <<>> => ~prompt
              \/ \E b \in Byte :
                   /\ HeadByte(b) \/ BodyByte(b)
                   /\ \/ /\ line # <<>> /\ b = AsRead(line[1].byte)
                         /\ Len(line) > 0 /\ Len(line') = Len(line) - 1
                         /\ \A k \in 1..(Len(line) - 1) : line'[k] = line[k + 1]
                         /\ UNCHANGED faults
                      \/ /\ line = <<>> /\ line' = <<>> /\ ~prompt
                         /\ phase = "head" => UNCHANGED faults
                         /\ phase # "head" => faults' = faults + 1 /\ faults' <= MaxFaults
<1>1. ASSUME NEW b, HeadByte(b) \/ BodyByte(b) PROVE phase # "idle"
  BY <1>1 DEF HeadByte, BodyByte
<1>2. CASE TakeByte
  <2>1. /\ line # <<>> /\ line' = Tail(line) /\ UNCHANGED faults
        /\ Receive(Head(line).byte) /\ line \in Seq(LateByte)
    BY <1>2 DEF TakeByte, TypeOK
  <2>2. /\ Len(line) > 0 /\ Head(line) = line[1] /\ line[1].byte \in Byte
        /\ Len(line') = Len(line) - 1
        /\ \A k \in 1..(Len(line) - 1) : line'[k] = line[k + 1]
    BY <2>1, TailOfLine
  <2>3. PICK b \in Byte : b = AsRead(line[1].byte)
    BY <2>2, AsReadType
  <2>4. HeadByte(b) \/ BodyByte(b)
    BY <2>1, <2>2, <2>3 DEF Receive
  <2> QED  BY <1>1, <2>1, <2>2, <2>3, <2>4 DEF Receive
<1>3. CASE Noise
  <2>1. PICK b \in Byte : b = AsRead(NoiseByte)
    BY BytesAssumption, AsReadType
  <2>2. HeadByte(b) \/ BodyByte(b)
    BY <1>3, <2>1 DEF Noise, Receive
  <2> QED  BY <1>1, <1>3, <2>2 DEF Noise, Receive
<1>4. CASE Timeout
  BY <1>4 DEF Timeout
<1> QED  BY <1>2, <1>3, <1>4 DEF Reading

\* Read from its beginning, an answer is read to its end and judged as a whole,
\* unless the call gives up on a byte that is late.
LEMMA PlaceMoves ==
    ASSUME TypeOK, NothingYet, NEW d, Len(d) = 2 + BodyLen(call), d[1] = 255, d[2] = 255,
           AtPlace(d), Reading
    PROVE  \/ phase' # "idle" /\ UNCHANGED call /\ AtPlace(d)'
           \/ GiveUp /\ ~prompt
           \/ \E b \in Seq(Byte) :
                Len(b) = BodyLen(call) /\ Finish(b) /\ \A k \in 1..Len(b) : b[k] = d[2 + k]
<1>1. BodyLen(call) \in {4, 6} /\ Len(line) \in Nat /\ buf \in Seq(Byte) /\ Len(buf) \in Nat
      /\ Len(buf) < BodyLen(call)
  BY DEF TypeOK, BodyLen
<1>2. Len(line) > 0 /\ line # <<>>
  <2>1. Len(line) > 0
    BY <1>1 DEF AtPlace, Ahead
  <2> QED  BY <2>1
<1>3. CASE GiveUp /\ ~prompt
  BY <1>3
<1>4. CASE \E b \in Byte :
             /\ HeadByte(b) \/ BodyByte(b)
             /\ b = AsRead(line[1].byte) /\ Len(line') = Len(line) - 1
             /\ \A k \in 1..(Len(line) - 1) : line'[k] = line[k + 1]
  <2>1. PICK b \in Byte :
             /\ HeadByte(b) \/ BodyByte(b)
             /\ b = AsRead(line[1].byte) /\ Len(line') = Len(line) - 1
             /\ \A k \in 1..(Len(line) - 1) : line'[k] = line[k + 1]
    BY <1>4
  <2>2. ASSUME NEW i \in Nat, Ahead(d, i)
        PROVE  b = d[i + 1] /\ Ahead(d, i + 1)'
    <3>1. b = d[i + 1]
      BY <1>1, <1>2, <2>1, <2>2 DEF Ahead
    <3>2. Len(line') = Len(d) - (i + 1)
      BY <1>1, <2>1, <2>2 DEF Ahead
    <3>3. ASSUME NEW k \in 1..Len(line') PROVE AsRead(line'[k].byte) = d[(i + 1) + k]
      <4>1. k \in 1..(Len(line) - 1) /\ k + 1 \in 1..Len(line)
        BY <1>1, <2>1
      <4>2. line'[k] = line[k + 1] /\ AsRead(line[k + 1].byte) = d[i + (k + 1)]
        BY <2>1, <2>2, <4>1 DEF Ahead
      <4>3. i + (k + 1) = (i + 1) + k
        OBVIOUS
      <4> QED  BY <4>2, <4>3
    <3> QED  BY <3>1, <3>2, <3>3 DEF Ahead
  <2>3. CASE phase = "head" /\ prev = 0 /\ cnt = 0 /\ Ahead(d, 0)
    <3>1. b = 255 /\ Ahead(d, 1)'
      BY <2>2, <2>3
    <3>2. phase' = "head" /\ prev' = 255 /\ cnt' = 1 /\ UNCHANGED call
      BY <2>1, <2>3, <3>1 DEF HeadByte, HeaderAt, BodyByte
    <3> QED  BY <3>1, <3>2 DEF AtPlace
  <2>4. CASE phase = "head" /\ prev = 255 /\ cnt = 1 /\ Ahead(d, 1)
    <3>1. b = 255 /\ Ahead(d, 2)'
      BY <2>2, <2>4
    <3>2. phase' = "body" /\ buf' = <<>> /\ UNCHANGED call
      BY <2>1, <2>4, <3>1 DEF HeadByte, HeaderAt, BodyByte, NothingYet
    <3>3. Len(buf') = 0 /\ 2 + Len(buf') = 2
      BY <3>2
    <3>4. Ahead(d, 2 + Len(buf))'
      BY <3>1, <3>3 DEF Ahead
    <3> QED  BY <3>2, <3>3, <3>4 DEF AtPlace
  <2>5. CASE /\ phase = "body" /\ Ahead(d, 2 + Len(buf))
             /\ \A k \in 1..Len(buf) : buf[k] = d[2 + k]
    <3> DEFINE whole == Append(buf, b)
    <3>1. PICK i \in Nat : i = 2 + Len(buf)
      BY <1>1
    <3>2. b = d[i + 1] /\ Ahead(d, i + 1)'
      BY <2>2, <2>5, <3>1
    <3>3. /\ whole \in Seq(Byte) /\ Len(whole) = Len(buf) + 1
          /\ \A k \in 1..Len(buf) : whole[k] = buf[k]
          /\ whole[Len(buf) + 1] = b
      BY <1>1, AppendProperties
    <3> HIDE DEF whole
    <3>4. \A k \in 1..Len(whole) : whole[k] = d[2 + k]
      BY <1>1, <2>5, <3>2, <3>3, <3>1, SMTT(30)
    <3>5. \/ Len(buf) + 1 < BodyLen(call) /\ buf' = whole /\ UNCHANGED <<call, phase>>
          \/ Len(buf) + 1 = BodyLen(call) /\ Finish(whole)
      BY <2>1, <2>5 DEF BodyByte, HeadByte, whole
    <3>6. CASE Len(buf) + 1 < BodyLen(call) /\ buf' = whole /\ UNCHANGED <<call, phase>>
      <4>1. Ahead(d, 2 + Len(buf))'
        <5>1. 2 + Len(buf') = i + 1
          BY <1>1, <3>3, <3>6, <3>1
        <5> QED  BY <3>2, <5>1 DEF Ahead
      <4> QED  BY <2>5, <3>4, <3>6, <4>1 DEF AtPlace
    <3> QED  BY <3>3, <3>4, <3>5, <3>6
  <2> QED  BY <2>3, <2>4, <2>5 DEF AtPlace
<1> QED  BY <1>2, <1>3, <1>4, ReadingSteps

LEMMA AckAnswerBytes ==
    ASSUME NEW id
    PROVE  LET d == AckAnswer(id)
           IN  /\ Len(d) = 6 /\ d[1] = 255 /\ d[2] = 255 /\ d[3] = id /\ d[4] = 2
               /\ d[5] = 0 /\ d[6] = Not8(id + 2 + 0)
<1> DEFINE s == Not8(id + 2 + 0)
<1> HIDE DEF s
<1>1. AckAnswer(id) = <<255, 255, id, 2, 0, s>>
  BY DEF AckAnswer, s
<1>2. s = Not8(id + 2 + 0)
  BY DEF s
<1> QED  BY <1>1, <1>2

\* The two bytes of a position, as the servo sends them.
Low(pos) == Host2SCS(FALSE, SignedWord(pos))[1]
High(pos) == Host2SCS(FALSE, SignedWord(pos))[2]

LEMMA PositionAnswerBytes ==
    ASSUME NEW id, NEW pos
    PROVE  LET d == PositionAnswer(id, pos)
           IN  /\ Len(d) = 8 /\ d[1] = 255 /\ d[2] = 255 /\ d[3] = id /\ d[4] = 4
               /\ d[5] = 0 /\ d[6] = Low(pos) /\ d[7] = High(pos)
               /\ d[8] = Not8(id + 4 + 0 + Low(pos) + High(pos))
<1> DEFINE s == Not8(id + 4 + 0 + Low(pos) + High(pos))
<1> HIDE DEF s
<1>1. PositionAnswer(id, pos) = <<255, 255, id, 4, 0, Low(pos), High(pos), s>>
  BY DEF PositionAnswer, s, Low, High
<1>2. s = Not8(id + 4 + 0 + Low(pos) + High(pos))
  BY DEF s
<1> QED  BY <1>1, <1>2

LEMMA AnswerOf ==
    ASSUME NEW c \in 1..3, NEW pos \in [Servos -> Position]
    PROVE  AnswerTo(Request(c, pos)) =
             IF IsWrite(c) THEN AckAnswer(c) ELSE PositionAnswer(1, present')
<1> DEFINE p == Request(c, pos)
<1>1. /\ Accepts(p)
      /\ IsWrite(c) => p[3] = c /\ p[5] = INST_WRITE
      /\ ~IsWrite(c) => p[3] = 1 /\ p[5] = INST_READ
  BY RequestMeans
<1> HIDE DEF p
<1>2. AnswerTo(p) = IF IsWrite(c) THEN AckAnswer(c) ELSE PositionAnswer(1, present')
  BY <1>1 DEF AnswerTo, INST_READ, INST_WRITE
<1> QED  BY <1>2 DEF p

LEMMA WriteObeyed ==
    ASSUME NEW c \in 1..3, IsWrite(c), NEW pos \in [Servos -> Position],
           goal \in [Servos -> Position]
    PROVE  Obeyed(Request(c, pos))[c] = pos[c]
<1> DEFINE p == Request(c, pos)
           x == WordSigned(SCS2Host(FALSE, p[8], p[9]))
<1>1. /\ Accepts(p) /\ p[3] = c /\ p[5] = INST_WRITE /\ p[6] = SMS_STS_ACC
      /\ x = pos[c]
  BY RequestMeans
<1> HIDE DEF x
<1>2. Obeyed(p) = [goal EXCEPT ![p[3]] = x]
  BY <1>1 DEF Obeyed, x
<1> HIDE DEF p
<1>3. c \in Servos
  BY DEF IsWrite, Servos
<1>4. Obeyed(p)[c] = x
  BY <1>1, <1>2, <1>3
<1> QED  BY <1>1, <1>4 DEF p

LEMMA FreshBytes ==
    ASSUME NEW s \in Seq(Byte)
    PROVE  /\ Len(Fresh(s)) = Len(s)
           /\ \A k \in 1..Len(s) : Fresh(s)[k].byte = s[k] /\ Fresh(s)[k].age = 0
<1>1. Len(s) \in Nat
  OBVIOUS
<1> QED  BY <1>1 DEF Fresh

\* What an earlier call left, one call older.
LEMMA LeftOver ==
    ASSUME TypeOK, NEW n \in 0..Len(line), Arrived(n)
    PROVE  LET left == Older(Rest(n))
           IN  /\ left \in Seq(LateByte) /\ Len(left) = Len(line) - n
               /\ \A k \in 1..(Len(line) - n) :
                    /\ left[k].byte = line[n + k].byte
                    /\ left[k].age = line[n + k].age + 1
                    /\ line[n + k].age \in Nat /\ line[n + k].age < MaxLate
               /\ alone' = (Len(line) - n = 0)
<1> DEFINE r == Rest(n)
<1>1. Len(line) \in Nat /\ line \in Seq(LateByte)
  BY DEF TypeOK
<1>2. /\ r \in Seq(LateByte) /\ Len(r) = Len(line) - n
      /\ \A k \in 1..(Len(line) - n) : r[k] = line[n + k]
  <2>1. \A i \in (n + 1)..Len(line) : line[i] \in LateByte
    BY <1>1
  <2>2. n + 1 \in Int /\ Len(line) \in Int
    BY <1>1
  <2>3. /\ SubSeq(line, n + 1, Len(line)) \in Seq(LateByte)
        /\ Len(SubSeq(line, n + 1, Len(line))) =
             IF n + 1 <= Len(line) THEN Len(line) - (n + 1) + 1 ELSE 0
        /\ \A i \in 1..(Len(line) - (n + 1) + 1) :
             SubSeq(line, n + 1, Len(line))[i] = line[n + 1 + i - 1]
    BY <2>1, <2>2, SubSeqProperties
  <2> QED  BY <1>1, <2>3 DEF Rest
<1>3. \A k \in 1..Len(r) : r[k].age < MaxLate
  BY DEF Arrived
<1>4. alone' = (r = <<>>)
  BY DEF Arrived
<1> HIDE DEF r
<1>5. Older(r) \in Seq(LateByte)
  BY <1>2, <1>3, OlderType
<1>6. /\ Len(Older(r)) = Len(r)
      /\ \A k \in 1..Len(r) : Older(r)[k] = [r[k] EXCEPT !.age = @ + 1]
  BY <1>2 DEF Older
<1>7. ASSUME NEW k \in 1..Len(r)
      PROVE  /\ Older(r)[k].byte = r[k].byte
             /\ Older(r)[k].age = r[k].age + 1
             /\ r[k].age \in Nat /\ r[k].age < MaxLate
  <2>1. r[k] \in LateByte
    BY <1>2
  <2>2. r[k].age \in Nat
    BY <2>1 DEF LateByte
  <2>3. [r[k] EXCEPT !.age = @ + 1].byte = r[k].byte
    BY <2>1 DEF LateByte
  <2>4. [r[k] EXCEPT !.age = @ + 1].age = r[k].age + 1
    BY <2>1 DEF LateByte
  <2> QED  BY <1>3, <1>6, <2>2, <2>3, <2>4
<1>8. r = <<>> <=> Len(r) = 0
  BY <1>2, EmptySeq
<1> QED  BY <1>2, <1>4, <1>5, <1>6, <1>7, <1>8 DEF r

\* What a call finds on the line when it begins to read.
LEMMA CommandLine ==
    ASSUME TypeOK, Command
    PROVE  /\ UNCHANGED call /\ phase = "idle" /\ phase' = "head"
           /\ prev' = 0 /\ cnt' = 0 /\ buf' = <<>> /\ result' = NoResult
           /\ \E n \in 0..Len(line) :
                /\ Arrived(n)
                /\ \/ /\ \/ Faultless /\ line' = Older(Rest(n)) \o Fresh(Answer')
                         \/ /\ Faulty
                            /\ \E s \in Damaged(Answer') : line' = Older(Rest(n)) \o Fresh(s)
                      /\ IsWrite(call) => goal'[call] = asked'[call]
                   \/ Faulty /\ UNCHANGED goal /\ line' = Older(Rest(n))
<1>1. /\ UNCHANGED call /\ phase = "idle" /\ phase' = "head"
      /\ prev' = 0 /\ cnt' = 0 /\ buf' = <<>> /\ result' = NoResult
      /\ Exchange(Request(call, asked'))
  BY DEF Command, Forget
<1>2. asked' \in [Servos -> Position] /\ call \in 1..3
  <2>1. CASE call = 1
    <3>1. PICK x \in Targets[1], y \in Targets[2] :
              asked' = [s \in Servos |-> IF s = 1 THEN x ELSE y]
      BY <2>1 DEF Command
    <3>2. x \in Position /\ y \in Position
      BY TargetsAssumption DEF Servos
    <3> QED  BY <3>1, <3>2 DEF TypeOK
  <2> QED  BY <2>1 DEF Command, TypeOK
<1> DEFINE p == Request(call, asked')
           reply == [goal |-> Obeyed(p), answer |-> AnswerTo(p)]
<1>3. AnswerTo(p) = Answer'
  BY <1>1, <1>2, AnswerOf DEF Answer, AnswerToCall
<1>4. IsWrite(call) => Obeyed(p)[call] = asked'[call]
  BY <1>2, WriteObeyed DEF TypeOK
<1> HIDE DEF p
<1>5. reply.goal = Obeyed(p) /\ reply.answer = AnswerTo(p)
  OBVIOUS
<1>6. PICK n \in 0..Len(line) :
          /\ Arrived(n)
          /\ Heard(Older(Rest(n)), reply) \/ Unheard(Older(Rest(n)))
  BY <1>1 DEF Exchange, Flushed, p
<1> HIDE DEF reply
<1> QED  BY <1>1, <1>3, <1>4, <1>5, <1>6 DEF Heard, Unheard

LEMMA NothingYetStep == TypeOK /\ NothingYet /\ [Next]_vars => NothingYet'
<1> SUFFICES ASSUME TypeOK, NothingYet, [Next]_vars PROVE NothingYet'
  OBVIOUS
<1>1. CASE Command
  BY <1>1, CommandLine DEF NothingYet
<1>2. ASSUME NEW b, HeadByte(b) \/ BodyByte(b) PROVE NothingYet'
  BY <1>2 DEF HeadByte, BodyByte, Finish, GiveUp, Return, NothingYet
<1>3. CASE Reading
  BY <1>2, <1>3, ReadingSteps DEF GiveUp, Return, NothingYet
<1>4. CASE UNCHANGED vars
  BY <1>4 DEF vars, NothingYet
<1> QED  BY <1>1, <1>3, <1>4 DEF Next

LEMMA AlwaysNothingYet == Spec => [](TypeOK /\ NothingYet)
<1>1. Init => NothingYet
  BY DEF Init, NothingYet
<1>2. TypeOK /\ TypeOK' /\ NothingYet /\ [Next]_vars => NothingYet'
  BY NothingYetStep
<1> QED  BY <1>1, <1>2, TypeCorrect, PTL DEF Spec

-----------------------------------------------------------------------------
(* A call that the world leaves alone.                                     *)

PromptAnswer == prompt /\ phase # "idle" => AtPlace(Received(Answer))

LEMMA ReceivedBytes ==
    ASSUME NEW s \in Seq(Byte)
    PROVE  /\ Received(s) \in Seq(Byte) /\ Len(Received(s)) = Len(s) /\ Len(s) \in Nat
           /\ \A k \in 1..Len(s) : Received(s)[k] = AsRead(s[k])
<1>1. Len(s) \in Nat /\ \A k \in 1..Len(s) : s[k] \in Byte
  OBVIOUS
<1>2. \A k \in 1..Len(s) : AsRead(s[k]) \in Byte
  BY <1>1, AsReadType
<1> QED  BY <1>1, <1>2 DEF Received

LEMMA ThisAnswerType == TypeOK => Answer \in Seq(Byte)
<1> SUFFICES ASSUME TypeOK PROVE Answer \in Seq(Byte)
  OBVIOUS
<1>1. call \in 1..3 /\ present \in Position
  BY DEF TypeOK
<1>2. call \in Byte /\ 1 \in Byte
  <2>1. \A i \in 1..3 : i \in Byte
    BY DEF Byte
  <2> QED  BY <1>1, <2>1
<1> QED  BY <1>1, <1>2, AckAnswerType, PositionAnswerType DEF Answer, AnswerToCall

LEMMA AnswerHead ==
    ASSUME TypeOK
    PROVE  LET d == Received(Answer)
           IN  /\ d \in Seq(Byte) /\ Len(d) = 2 + BodyLen(call)
               /\ d[1] = 255 /\ d[2] = 255
<1>1. Answer \in Seq(Byte)
  BY ThisAnswerType
<1>2. Len(Answer) = 2 + BodyLen(call) /\ Answer[1] = 255 /\ Answer[2] = 255
  <2>1. CASE IsWrite(call)
    <3>1. Answer = AckAnswer(call) /\ BodyLen(call) = 4
      BY <2>1 DEF Answer, AnswerToCall, BodyLen
    <3> QED  BY <3>1, AckAnswerBytes
  <2>2. CASE ~IsWrite(call)
    <3>1. Answer = PositionAnswer(1, present) /\ BodyLen(call) = 6
      BY <2>2 DEF Answer, AnswerToCall, BodyLen
    <3> QED  BY <3>1, PositionAnswerBytes
  <2> QED  BY <2>1, <2>2
<1>3. 1 \in 1..Len(Answer) /\ 2 \in 1..Len(Answer)
  BY <1>2 DEF BodyLen
<1>4. AsRead(255) = 255
  BY AsReadMarks
<1> QED  BY <1>1, <1>2, <1>3, <1>4, ReceivedBytes

\* A whole answer on the line, and nothing before it.
LEMMA FreshAtPlace ==
    ASSUME NEW s \in Seq(Byte), phase' = "head", prev' = 0, cnt' = 0, line' = Fresh(s),
           NEW d, d = Received(s)
    PROVE  AtPlace(d)'
<1>1. Len(s) \in Nat /\ Len(line') = Len(d) - 0 /\ Len(line') = Len(s)
  BY FreshBytes, ReceivedBytes
<1>2. ASSUME NEW k \in 1..Len(line') PROVE AsRead(line'[k].byte) = d[0 + k]
  <2>1. k \in 1..Len(s) /\ 0 + k = k
    BY <1>1
  <2>2. line'[k].byte = s[k] /\ d[k] = AsRead(s[k])
    BY <2>1, FreshBytes, ReceivedBytes
  <2> QED  BY <2>1, <2>2
<1> QED  BY <1>1, <1>2 DEF AtPlace, Ahead

LEMMA NothingLeft ==
    ASSUME TypeOK, NEW n \in 0..Len(line), Arrived(n), alone', NEW s \in Seq(Byte)
    PROVE  Older(Rest(n)) = <<>> /\ Older(Rest(n)) \o Fresh(s) = Fresh(s)
<1>1. Older(Rest(n)) \in Seq(LateByte) /\ Len(Older(Rest(n))) = 0
  BY LeftOver
<1>2. Older(Rest(n)) = <<>>
  BY <1>1, EmptySeq
<1>3. Fresh(s) \in Seq(LateByte)
  BY FreshType
<1> QED  BY <1>2, <1>3, ConcatEmptySeq

\* A position's answer as the tty hands it over: it adds up exactly when the tty
\* changed nothing, because every 13 read as a 10 takes three from one side.
LEMMA AnswerAddsUp ==
    ASSUME NEW pos \in Position, NEW d, d = Received(PositionAnswer(1, pos))
    PROVE  /\ d \in Seq(Byte) /\ Len(d) = 8 /\ d[1] = 255 /\ d[2] = 255
           /\ d[8] = Not8(d[3] + d[4] + d[5] + d[6] + d[7]) <=> Readable(pos)
           /\ Readable(pos) => \A k \in 1..8 : d[k] = PositionAnswer(1, pos)[k]
<1> DEFINE s == PositionAnswer(1, pos)
           lo == Low(pos)
           hi == High(pos)
           sum == Not8(1 + 4 + 0 + lo + hi)
<1>1. /\ Len(s) = 8 /\ s[1] = 255 /\ s[2] = 255 /\ s[3] = 1 /\ s[4] = 4 /\ s[5] = 0
      /\ s[6] = lo /\ s[7] = hi /\ s[8] = sum
  BY PositionAnswerBytes
<1>2. s \in Seq(Byte)
  <2>1. 1 \in Byte
    BY Small
  <2> QED  BY <2>1, PositionAnswerType
<1>3. lo \in Int /\ 0 <= lo /\ lo <= 255 /\ hi \in Int /\ 0 <= hi /\ hi <= 255
  <2>1. Host2SCS(FALSE, SignedWord(pos))[1] \in Byte /\ Host2SCS(FALSE, SignedWord(pos))[2] \in Byte
    BY SignedWordType, HalvesAreBytes
  <2>2. lo \in Byte /\ hi \in Byte
    BY <2>1 DEF Low, High
  <2> HIDE DEF lo, hi
  <2> QED  BY <2>2, Ranges
<1>4. Readable(pos) <=> \A k \in 1..8 : AsRead(s[k]) = s[k]
  BY DEF Readable
<1> HIDE DEF s, lo, hi
<1>5. d \in Seq(Byte) /\ Len(d) = 8 /\ \A k \in 1..8 : d[k] = AsRead(s[k])
  <2>1. d = Received(s)
    BY DEF s
  <2>2. /\ d \in Seq(Byte) /\ Len(d) = Len(s)
        /\ \A k \in 1..Len(s) : d[k] = AsRead(s[k])
    BY <1>2, <2>1, ReceivedBytes
  <2> QED  BY <1>1, <2>2
<1>6. AsRead(255) = 255 /\ AsRead(1) = 1 /\ AsRead(4) = 4 /\ AsRead(0) = 0
  BY DEF AsRead
<1>7. /\ d[1] = 255 /\ d[2] = 255 /\ d[3] = 1 /\ d[4] = 4 /\ d[5] = 0
      /\ d[6] = AsRead(lo) /\ d[7] = AsRead(hi) /\ d[8] = AsRead(sum)
  BY <1>1, <1>5, <1>6
<1>8. Readable(pos) <=> AsRead(lo) = lo /\ AsRead(hi) = hi /\ AsRead(sum) = sum
  <2>1. \A k \in 1..8 : k \in {1, 2, 3, 4, 5, 6, 7, 8}
    OBVIOUS
  <2> QED  BY <1>1, <1>4, <1>6, <2>1
<1> DEFINE m == 1 + 4 + 0 + lo + hi
           n == 1 + 4 + 0 + AsRead(lo) + AsRead(hi)
<1>9. /\ m \in Nat /\ n \in Nat /\ n <= m /\ m - n <= 6
      /\ m = n => AsRead(lo) = lo /\ AsRead(hi) = hi
  BY <1>3 DEF AsRead
<1>10. sum = Not8(m)
  OBVIOUS
<1> HIDE DEF m, n, sum
<1>11. AsRead(sum) = Not8(n) <=> m = n /\ AsRead(sum) = sum
  <2>1. CASE AsRead(sum) = sum
    <3>1. m # n => Not8(m) # Not8(n)
      BY <1>9, SumsDiffer
    <3> QED  BY <1>10, <2>1, <3>1
  <2>2. CASE AsRead(sum) # sum
    <3>1. Not8(m) = 13 /\ AsRead(sum) = 10
      BY <1>10, <2>2 DEF AsRead
    <3>2. Not8(m + 3) = 10
      <4>1. m % 256 = 242
        BY <1>9, <3>1 DEF Not8
      <4>2. (m + 3) % 256 = 245
        BY <1>9, <4>1
      <4> QED  BY <4>2 DEF Not8
    <3>3. m + 3 \in Nat /\ m + 3 # n /\ (m + 3) - n < 256 /\ n - (m + 3) < 256
      BY <1>9
    <3>4. Not8(m + 3) # Not8(n)
      BY <1>9, <3>3, SumsDiffer
    <3> QED  BY <2>2, <3>1, <3>2, <3>4
  <2> QED  BY <2>1, <2>2
<1>12. d[8] = Not8(d[3] + d[4] + d[5] + d[6] + d[7]) <=> AsRead(sum) = Not8(n)
  BY <1>7 DEF n
<1>13. m = n <=> AsRead(lo) = lo /\ AsRead(hi) = hi
  <2>1. AsRead(lo) = lo /\ AsRead(hi) = hi => m = n
    BY DEF m, n
  <2> QED  BY <1>9, <2>1
<1>14. Readable(pos) => \A k \in 1..8 : d[k] = s[k]
  BY <1>4, <1>5
<1> QED  BY <1>5, <1>7, <1>8, <1>11, <1>12, <1>13, <1>14 DEF s

\* An answer that arrives whole is accepted, if the tty left it as it was.
LEMMA WholeAnswerJudged ==
    ASSUME TypeOK, NEW b \in Seq(Byte), Len(b) = BodyLen(call), Finish(b),
           \A k \in 1..Len(b) : b[k] = Received(Answer)[2 + k]
    PROVE  result'.of = call /\ (result'.ok <=> IsWrite(call) \/ Readable(present))
<1>0. result'.of = call
  <2>1. PICK ok, pos : Return(ok, pos)
    BY DEF Finish, GiveUp
  <2>2. result' = [of |-> call, ok |-> ok, pos |-> pos]
    BY <2>1 DEF Return
  <2> QED  BY <2>2
<1>a. PICK d : d = Received(Answer)
  OBVIOUS
<1>1. CASE IsWrite(call)
  <2>1. Answer = AckAnswer(call) /\ Len(b) = 4 /\ ServoOf(call) = call
    BY <1>1 DEF Answer, AnswerToCall, BodyLen, IsWrite, ServoOf
  <2>2. /\ b[1] = d[3] /\ b[2] = d[4] /\ b[3] = d[5] /\ b[4] = d[6]
    BY <1>a, <2>1
  <2>3. /\ Len(Answer) = 6 /\ Answer[3] = call /\ Answer[4] = 2 /\ Answer[5] = 0
        /\ Answer[6] = Not8(call + 2 + 0)
    BY <2>1, AckAnswerBytes
  <2>4. \A k \in 1..6 : d[k] = AsRead(Answer[k])
    BY <1>a, <2>3, ThisAnswerType, ReceivedBytes
  <2>5. call \in {1, 2}
    BY <1>1 DEF IsWrite
  <2>6. Not8(call + 2 + 0) \in {251, 252}
    BY <2>5 DEF Not8
  <2>7. AsRead(call) = call /\ AsRead(2) = 2 /\ AsRead(0) = 0
        /\ AsRead(Not8(call + 2 + 0)) = Not8(call + 2 + 0)
    BY <2>5, <2>6 DEF AsRead
  <2>8. d[3] = call /\ d[4] = 2 /\ d[5] = 0 /\ d[6] = Not8(call + 2 + 0)
    BY <2>3, <2>4, <2>7
  <2>9. Acked(b)
    BY <2>1, <2>2, <2>8 DEF Acked, AckSum
  <2>10. Return(Acked(b), 0)
    BY <1>1 DEF Finish
  <2> QED  BY <1>0, <1>1, <2>9, <2>10 DEF Return
<1>2. CASE ~IsWrite(call)
  <2>1. Answer = PositionAnswer(1, present) /\ Len(b) = 6 /\ present \in Position
    BY <1>2 DEF Answer, AnswerToCall, BodyLen, TypeOK
  <2>2. /\ b[1] = d[3] /\ b[2] = d[4] /\ b[3] = d[5]
        /\ b[4] = d[6] /\ b[5] = d[7] /\ b[6] = d[8]
    BY <1>a, <2>1
  <2>3. d[8] = Not8(d[3] + d[4] + d[5] + d[6] + d[7]) <=> Readable(present)
    BY <1>a, <2>1, AnswerAddsUp
  <2>4. ReadOk(b) <=> Readable(present)
    BY <2>2, <2>3 DEF ReadOk, ReadSum
  <2>5. \/ ReadOk(b) /\ \E x : Return(TRUE, x)
        \/ ~ReadOk(b) /\ Return(FALSE, -1)
    BY <1>2 DEF Finish, GiveUp
  <2> QED  BY <1>0, <1>2, <2>4, <2>5 DEF Return
<1> QED  BY <1>1, <1>2

LEMMA PromptStep ==
    TypeOK /\ NothingYet /\ PromptAnswer /\ OnlyUnreadableFails /\ [Next]_vars
      => PromptAnswer' /\ OnlyUnreadableFails'
<1> SUFFICES ASSUME TypeOK, NothingYet, PromptAnswer, OnlyUnreadableFails, [Next]_vars
             PROVE  PromptAnswer' /\ OnlyUnreadableFails'
  OBVIOUS
<1>1. CASE Command
  <2>1. OnlyUnreadableFails'
    BY <1>1, CommandLine DEF OnlyUnreadableFails, NoResult
  <2>2. ASSUME prompt' PROVE AtPlace(Received(Answer))'
    <3>1. PICK n \in 0..Len(line) :
            /\ Arrived(n)
            /\ \/ /\ \/ Faultless /\ line' = Older(Rest(n)) \o Fresh(Answer')
                     \/ /\ Faulty
                        /\ \E s \in Damaged(Answer') : line' = Older(Rest(n)) \o Fresh(s)
                  /\ IsWrite(call) => goal'[call] = asked'[call]
               \/ Faulty /\ UNCHANGED goal /\ line' = Older(Rest(n))
      BY <1>1, CommandLine
    <3>2. alone' /\ ~Faulty
      BY <2>2, <3>1 DEF Arrived, Faulty
    <3>3. Answer' \in Seq(Byte)
      <4>1. call' \in 1..3 /\ present' \in Position
        BY <1>1, CommandLine, TargetsAssumption DEF Command, TypeOK
      <4>2. call' \in Byte /\ 1 \in Byte
        <5>1. \A i \in 1..3 : i \in Byte
          BY DEF Byte
        <5> QED  BY <4>1, <5>1
      <4> QED  BY <4>1, <4>2, AckAnswerType, PositionAnswerType DEF Answer, AnswerToCall
    <3>4. line' = Fresh(Answer')
      BY <3>1, <3>2, <3>3, NothingLeft
    <3>5. PICK a \in Seq(Byte) : a = Answer'
      BY <3>3
    <3>6. PICK d : d = Received(a)
      OBVIOUS
    <3>7. AtPlace(d)'
      BY <1>1, <3>4, <3>5, <3>6, CommandLine, FreshAtPlace
    <3> QED  BY <3>5, <3>6, <3>7 DEF AtPlace, Ahead
  <2> QED  BY <2>1, <2>2 DEF PromptAnswer
<1>2. CASE Reading
  <2>1. phase # "idle" /\ UNCHANGED <<present, prompt>>
    BY <1>2, ReadingSteps
  <2>2. CASE ~prompt
    BY <2>1, <2>2 DEF PromptAnswer, OnlyUnreadableFails
  <2>3. CASE prompt
    <3>1. PICK d \in Seq(Byte) : d = Received(Answer)
      BY AnswerHead
    <3>2. /\ Len(d) = 2 + BodyLen(call) /\ d[1] = 255 /\ d[2] = 255 /\ AtPlace(d)
      BY <2>1, <2>3, <3>1, AnswerHead, SMTT(30) DEF PromptAnswer, AtPlace, Ahead
    <3>3. CASE phase' # "idle" /\ UNCHANGED call /\ AtPlace(d)'
      <4>1. Received(Answer)' = d
        BY <2>1, <3>1, <3>3 DEF Received, Answer, AnswerToCall
      <4>2. OnlyUnreadableFails'
        <5>1. NothingYet'
          BY NothingYetStep
        <5> QED  BY <3>3, <5>1 DEF NothingYet, OnlyUnreadableFails, NoResult
      <4> QED  BY <3>3, <4>1, <4>2 DEF PromptAnswer, AtPlace, Ahead
    <3>4. CASE \E b \in Seq(Byte) :
                 Len(b) = BodyLen(call) /\ Finish(b) /\ \A k \in 1..Len(b) : b[k] = d[2 + k]
      <4>1. result'.of = call /\ (result'.ok <=> IsWrite(call) \/ Readable(present))
        BY <3>1, <3>4, WholeAnswerJudged
      <4>2. phase' = "idle"
        BY <3>4 DEF Finish, GiveUp, Return
      <4> QED  BY <2>1, <4>1, <4>2 DEF PromptAnswer, OnlyUnreadableFails
    <3> QED  BY <1>2, <2>3, <3>2, <3>3, <3>4, PlaceMoves
  <2> QED  BY <2>2, <2>3
<1>3. CASE UNCHANGED vars
  <2>1. UNCHANGED <<call, phase, line, present, prompt, prev, cnt, buf, result>>
    BY <1>3 DEF vars
  <2>2. PromptAnswer'
    BY <2>1 DEF PromptAnswer, AtPlace, Ahead, Answer
  <2>3. OnlyUnreadableFails'
    BY <2>1 DEF OnlyUnreadableFails
  <2> QED  BY <2>2, <2>3
<1> QED  BY <1>1, <1>2, <1>3 DEF Next

\* However badly earlier calls went, the first call that meets nothing late and
\* is served promptly succeeds if it is a write, and if it is a read exactly when
\* the tty delivers the position's answer as it was sent: for any faults, any
\* noise, any lateness and any position, whether the tty translates or not.
THEOREM OnlyUnreadableEverFails == Spec => []OnlyUnreadableFails
<1>1. Init => PromptAnswer /\ OnlyUnreadableFails
  BY DEF Init, PromptAnswer, OnlyUnreadableFails, NoResult
<1> QED  BY <1>1, PromptStep, AlwaysNothingYet, PTL DEF Spec

-----------------------------------------------------------------------------
(* What ReadPos reports.                                                   *)

\* An answer of eight bytes whose checksum, if it adds up, vouches for pos.
Honest(d, pos) ==
    /\ Len(d) = 8 /\ d[1] = 255 /\ d[2] = 255
    /\ d[8] = Not8(d[3] + d[4] + d[5] + d[6] + d[7])
         => WordSigned(SCS2Host(FALSE, d[6], d[7])) = pos

\* What is left cannot fill an answer after any header in it, and no noise may.
TooShort ==
    /\ faults = MaxFaults
    /\ \/ /\ phase = "head" /\ Len(line) <= 8
          /\ Len(line) = 8 => prev = 0 /\ ~(line[1].byte = 255 /\ line[2].byte = 255)
          /\ Len(line) = 7 => ~(prev = 255 /\ line[1].byte = 255)
       \/ phase = "body" /\ Len(buf) + Len(line) <= 5

\* The tty and the line have not both changed the answer.
OneChanger == Readable(present) \/ faults = 0

PositionAhead ==
    call = 3 /\ alone /\ phase # "idle" /\ OneChanger =>
        TooShort \/ \E d \in Seq(Byte) : Honest(d, present) /\ AtPlace(d)

LEMMA LowHigh ==
    ASSUME NEW pos \in Position
    PROVE  /\ Low(pos) \in Byte /\ High(pos) \in Byte
           /\ WordSigned(SCS2Host(FALSE, Low(pos), High(pos))) = pos
<1> DEFINE w == SignedWord(pos)
<1>1. w \in Word /\ FALSE \in BOOLEAN /\ WordSigned(w) = pos
  BY SignedWordType, PositionSurvives
<1> HIDE DEF w
<1>2. SCS2Host(FALSE, Host2SCS(FALSE, w)[1], Host2SCS(FALSE, w)[2]) = w
  BY <1>1, WordSurvives
<1>3. Host2SCS(FALSE, w)[1] \in Byte /\ Host2SCS(FALSE, w)[2] \in Byte
  BY <1>1, HalvesAreBytes
<1> QED  BY <1>1, <1>2, <1>3 DEF Low, High, w

LEMMA WithoutLen ==
    ASSUME NEW s \in Seq(Byte), NEW k \in 1..Len(s)
    PROVE  Len(Without(s, k)) = Len(s) - 1
<1> DEFINE l == SubSeq(s, 1, k - 1)
           r == SubSeq(s, k + 1, Len(s))
<1>1. Len(s) \in Nat
  OBVIOUS
<1>2. l \in Seq(Byte) /\ Len(l) = k - 1 /\ r \in Seq(Byte) /\ Len(r) = Len(s) - k
  <2>1. \A i \in 1..Len(s) : s[i] \in Byte
    OBVIOUS
  <2>2. /\ \A i \in 1..(k - 1) : s[i] \in Byte
        /\ \A i \in (k + 1)..Len(s) : s[i] \in Byte
    BY <1>1, <2>1
  <2>3. l \in Seq(Byte) /\ Len(l) = IF 1 <= k - 1 THEN k - 1 - 1 + 1 ELSE 0
    BY <1>1, <2>2, SubSeqProperties
  <2>4. r \in Seq(Byte) /\ Len(r) = IF k + 1 <= Len(s) THEN Len(s) - (k + 1) + 1 ELSE 0
    BY <1>1, <2>2, SubSeqProperties
  <2> QED  BY <1>1, <2>3, <2>4
<1> HIDE DEF l, r
<1>3. Len(l \o r) = Len(l) + Len(r)
  BY <1>2, ConcatProperties
<1>4. Without(s, k) = l \o r
  BY DEF Without, l, r
<1>5. Len(Without(s, k)) = (k - 1) + (Len(s) - k)
  BY <1>2, <1>3, <1>4
<1>6. k \in Int /\ Len(s) \in Int
  BY <1>1
<1> QED  BY <1>5, <1>6

\* Of a damaged answer something is missing, or its header is gone, or the
\* checksum tells: a changed byte of the position changes the sum. The tty may
\* translate the changed byte, but no other.
LEMMA DamageTells ==
    ASSUME NEW pos \in Position, Readable(pos),
           NEW d \in Damaged(PositionAnswer(1, pos)), NEW r, r = Received(d)
    PROVE  /\ d \in Seq(Byte)
           /\ \/ Len(d) <= 7
              \/ Len(d) = 8 /\ ~(d[1] = 255 /\ d[2] = 255)
              \/ Honest(r, pos)
<1> DEFINE s == PositionAnswer(1, pos)
           lo == Low(pos)
           hi == High(pos)
<1>1. /\ Len(s) = 8 /\ s[1] = 255 /\ s[2] = 255 /\ s[3] = 1 /\ s[4] = 4 /\ s[5] = 0
      /\ s[6] = lo /\ s[7] = hi /\ s[8] = Not8(1 + 4 + 0 + lo + hi)
  BY PositionAnswerBytes
<1>2. s \in Seq(Byte) /\ d \in Damaged(s)
  <2>1. 1 \in Byte
    BY Small
  <2> QED  BY <2>1, PositionAnswerType
<1>3. /\ lo \in Byte /\ hi \in Byte /\ WordSigned(SCS2Host(FALSE, lo, hi)) = pos
      /\ lo \in Int /\ 0 <= lo /\ lo <= 255 /\ hi \in Int /\ 0 <= hi /\ hi <= 255
  <2>1. lo \in Byte /\ hi \in Byte /\ WordSigned(SCS2Host(FALSE, lo, hi)) = pos
    BY LowHigh
  <2> HIDE DEF lo, hi
  <2>2. \A b \in Byte : b \in Int /\ 0 <= b /\ b <= 255
    BY DEF Byte
  <2> QED  BY <2>1, <2>2
<1>r. \A k \in 1..8 : AsRead(s[k]) = s[k]
  BY DEF Readable
<1> HIDE DEF s, lo, hi
<1>4. d \in Seq(Byte)
  BY <1>2, DamagedType
<1>5. CASE d = <<>>
  BY <1>4, <1>5
<1>6. ASSUME NEW k \in 1..Len(s), d = Without(s, k) PROVE Len(d) <= 7
  <2>1. Len(d) = Len(s) - 1
    BY <1>2, <1>6, WithoutLen
  <2> QED  BY <1>1, <2>1
<1>7. ASSUME NEW k \in 1..Len(s), NEW g \in Garble, d = [s EXCEPT ![k] = g]
      PROVE  \/ Len(d) = 8 /\ ~(d[1] = 255 /\ d[2] = 255)
             \/ Honest(r, pos)
  <2>0. g \in Byte
    BY BytesAssumption
  <2>a. PICK b \in Byte : b = AsRead(g)
    BY <2>0, AsReadType
  <2>1. b \in Int /\ 0 <= b /\ b <= 255
    BY Ranges
  <2>b. Len(d) = 8 /\ \A j \in 1..8 : d[j] = IF j = k THEN g ELSE s[j]
    BY <1>1, <1>2, <1>7, <2>0, ExceptSeq
  <2>2. Len(r) = 8 /\ \A j \in 1..8 : r[j] = IF j = k THEN b ELSE s[j]
    <3>1. Len(r) = 8 /\ \A j \in 1..8 : r[j] = AsRead(d[j])
      BY <1>4, <2>b, ReceivedBytes
    <3> QED  BY <1>r, <2>a, <2>b, <3>1
  <2>3. CASE ~(r[1] = 255 /\ r[2] = 255)
    <3>1. r[1] = AsRead(d[1]) /\ r[2] = AsRead(d[2])
      BY <1>4, <2>b, ReceivedBytes
    <3> QED  BY <2>b, <2>3, <3>1, AsReadMarks
  <2>4. CASE r[1] = 255 /\ r[2] = 255 /\ r[6] = lo /\ r[7] = hi
    BY <1>3, <2>2, <2>4 DEF Honest
  <2>5. CASE r[1] = 255 /\ r[2] = 255 /\ k = 6 /\ b # lo
    <3>1. /\ r[3] = 1 /\ r[4] = 4 /\ r[5] = 0 /\ r[6] = b /\ r[7] = hi
          /\ r[8] = Not8(1 + 4 + 0 + lo + hi)
      BY <1>1, <2>2, <2>5
    <3>2. Not8(1 + 4 + 0 + lo + hi) # Not8(1 + 4 + 0 + b + hi)
      BY <1>3, <2>1, <2>5, SumsDiffer
    <3> QED  BY <2>2, <2>5, <3>1, <3>2 DEF Honest
  <2>6. CASE r[1] = 255 /\ r[2] = 255 /\ k = 7 /\ b # hi
    <3>1. /\ r[3] = 1 /\ r[4] = 4 /\ r[5] = 0 /\ r[6] = lo /\ r[7] = b
          /\ r[8] = Not8(1 + 4 + 0 + lo + hi)
      BY <1>1, <2>2, <2>6
    <3>2. Not8(1 + 4 + 0 + lo + hi) # Not8(1 + 4 + 0 + lo + b)
      BY <1>3, <2>1, <2>6, SumsDiffer
    <3> QED  BY <2>2, <2>6, <3>1, <3>2 DEF Honest
  <2>7. (r[6] = lo /\ r[7] = hi) \/ (k = 6 /\ b # lo) \/ (k = 7 /\ b # hi)
    BY <1>1, <2>2
  <2> QED  BY <2>3, <2>4, <2>5, <2>6, <2>7
<1> QED  BY <1>2, <1>4, <1>5, <1>6, <1>7 DEF Damaged

\* What is too short stays so, and nothing is reported of it.
LEMMA ShortStays ==
    ASSUME TypeOK, NothingYet, call = 3, TooShort, Reading
    PROVE  \/ TooShort' /\ phase' # "idle" /\ UNCHANGED call
           \/ phase' = "idle" /\ ~result'.ok
<1>1. /\ Len(line) \in Nat /\ buf \in Seq(Byte) /\ Len(buf) \in Nat /\ Len(buf) < 6
      /\ BodyLen(call) = 6 /\ faults \in Nat /\ MaxFaults \in Nat
  BY BoundsAssumption DEF TypeOK, BodyLen, IsWrite
<1>2. CASE GiveUp
  BY <1>2 DEF GiveUp, Return
<1>3. ASSUME NEW b \in Byte, HeadByte(b) \/ BodyByte(b), line # <<>>, b = AsRead(line[1].byte),
             Len(line) > 0, Len(line') = Len(line) - 1,
             \A k \in 1..(Len(line) - 1) : line'[k] = line[k + 1], UNCHANGED faults
      PROVE  \/ TooShort' /\ phase' # "idle" /\ UNCHANGED call
             \/ phase' = "idle" /\ ~result'.ok
  <2>3. Len(line') = Len(line) - 1
    BY <1>3
  <2>4. b = 255 <=> line[1].byte = 255
    BY <1>3, AsReadMarks
  <2>1. CASE phase = "head"
    <3>1. CASE HeaderAt(b) /\ phase' = "body" /\ UNCHANGED <<call, buf>>
      <4>1. Len(line) # 8 /\ Len(line) # 7 /\ Len(line) <= 8
        BY <2>1, <2>4, <3>1 DEF TooShort, HeaderAt
      <4>2. buf' = <<>> /\ Len(buf') = 0 /\ Len(line') <= 5
        BY <1>1, <1>3, <2>1, <3>1, <4>1 DEF NothingYet
      <4> QED  BY <1>1, <1>3, <2>1, <3>1, <4>2 DEF TooShort
    <3>2. CASE ~HeaderAt(b) /\ prev' = b /\ UNCHANGED <<call, phase>>
      <4>1. Len(line) <= 8 /\ Len(line') <= 7
        BY <1>1, <1>3, <2>1 DEF TooShort
      <4>2. ASSUME Len(line') = 7 PROVE ~(prev' = 255 /\ line'[1].byte = 255)
        <5>1. Len(line) = 8 /\ line'[1] = line[2]
          <6>1. Len(line) = 8
            <7>1. PICK m \in Nat : m = Len(line)
              BY <1>1
            <7>2. m - 1 = 7
              BY <2>3, <4>2, <7>1
            <7>3. m = 8
              BY <7>2
            <7> QED  BY <7>1, <7>3, Zenon
          <6>2. 1 \in 1..(Len(line) - 1)
            BY <6>1
          <6> QED  BY <1>3, <6>1, <6>2
        <5> QED  BY <2>1, <2>4, <3>2, <5>1 DEF TooShort
      <4>3. Len(line') # 8
        BY <1>1, <1>3, <4>1
      <4> QED  BY <1>1, <1>3, <2>1, <3>2, <4>1, <4>2, <4>3 DEF TooShort
    <3>3. CASE GiveUp
      BY <1>2, <3>3
    <3> QED  BY <1>3, <2>1, <3>1, <3>2, <3>3 DEF HeadByte, BodyByte
  <2>2. CASE phase = "body"
    <3>1. Len(buf) + Len(line) <= 5
      BY <2>2 DEF TooShort
    <3>2. Len(buf) + 1 # BodyLen(call)
      BY <1>1, <1>3, <3>1
    <3>3. buf' = Append(buf, b) /\ UNCHANGED <<call, phase>>
      BY <1>3, <2>2, <3>2 DEF HeadByte, BodyByte
    <3>4. Len(buf') = Len(buf) + 1
      BY <1>1, <3>3
    <3> QED  BY <1>1, <1>3, <2>2, <3>1, <3>3, <3>4 DEF TooShort
  <2> QED  BY <2>1, <2>2 DEF TooShort
<1>4. ASSUME NEW b \in Byte, HeadByte(b) \/ BodyByte(b), line = <<>>, line' = <<>>,
             phase = "head" => UNCHANGED faults,
             phase # "head" => faults' = faults + 1 /\ faults' <= MaxFaults
      PROVE  \/ TooShort' /\ phase' # "idle" /\ UNCHANGED call
             \/ phase' = "idle" /\ ~result'.ok
  <2>1. phase = "head" /\ UNCHANGED faults
    BY <1>1, <1>4 DEF TooShort
  <2>2. Len(line') = 0
    BY <1>4
  <2>3. CASE phase' = "body" /\ UNCHANGED <<call, buf>>
    <3>1. Len(buf') = 0
      BY <2>1, <2>3 DEF NothingYet
    <3> QED  BY <2>1, <2>2, <2>3, <3>1 DEF TooShort
  <2>4. CASE UNCHANGED <<call, phase>>
    BY <2>1, <2>2, <2>4 DEF TooShort
  <2> QED  BY <1>2, <1>4, <2>1, <2>3, <2>4 DEF HeadByte, BodyByte
<1> QED  BY <1>2, <1>3, <1>4, ReadingSteps

\* A read that begins alone on the line.
LEMMA PositionBegins ==
    ASSUME TypeOK, Command, call = 3, alone', MaxFaults <= 1, OneChanger'
    PROVE  TooShort' \/ \E d \in Seq(Byte) : Honest(d, present') /\ AtPlace(d)'
<1>1. PICK n \in 0..Len(line) :
        /\ Arrived(n)
        /\ \/ /\ \/ Faultless /\ line' = Older(Rest(n)) \o Fresh(Answer')
                 \/ /\ Faulty
                    /\ \E s \in Damaged(Answer') : line' = Older(Rest(n)) \o Fresh(s)
              /\ IsWrite(call) => goal'[call] = asked'[call]
           \/ Faulty /\ UNCHANGED goal /\ line' = Older(Rest(n))
  BY CommandLine
<1>2. /\ phase' = "head" /\ prev' = 0 /\ cnt' = 0 /\ call' = 3
      /\ present' \in Position
  BY CommandLine, TargetsAssumption DEF Command
<1>3. Answer' = PositionAnswer(1, present')
  BY <1>2 DEF Answer, AnswerToCall, IsWrite
<1>4. 1 \in Byte /\ PositionAnswer(1, present') \in Seq(Byte)
  <2>1. 1 \in Byte
    BY Small
  <2> QED  BY <1>2, <2>1, PositionAnswerType
<1>5. Faulty => faults' = MaxFaults /\ Readable(present')
  BY BoundsAssumption DEF Faulty, OneChanger
<1>6. ASSUME NEW s \in Seq(Byte), line' = Older(Rest(n)) \o Fresh(s),
             NEW d, d = Received(s)
      PROVE  line' = Fresh(s) /\ AtPlace(d)'
  <2>1. line' = Fresh(s)
    BY <1>1, <1>6, NothingLeft
  <2> QED  BY <1>2, <1>6, <2>1, FreshAtPlace, Zenon
<1>7. CASE line' = Older(Rest(n)) \o Fresh(Answer')
  <2>1. PICK d \in Seq(Byte) : d = Received(Answer')
    BY <1>3, <1>4, ReceivedBytes
  <2>2. AtPlace(d)'
    BY <1>3, <1>4, <1>6, <1>7, <2>1
  <2>3. Honest(d, present')
    <3>1. PICK pos \in Position : pos = present'
      BY <1>2
    <3>2. d = Received(PositionAnswer(1, pos))
      BY <1>3, <2>1, <3>1
    <3>3. /\ Len(d) = 8 /\ d[1] = 255 /\ d[2] = 255
          /\ d[8] = Not8(d[3] + d[4] + d[5] + d[6] + d[7]) <=> Readable(pos)
          /\ Readable(pos) => \A k \in 1..8 : d[k] = PositionAnswer(1, pos)[k]
      BY <3>2, AnswerAddsUp
    <3>4. Readable(pos) => d[6] = Low(pos) /\ d[7] = High(pos)
      BY <3>3, PositionAnswerBytes
    <3>5. WordSigned(SCS2Host(FALSE, Low(pos), High(pos))) = pos
      BY LowHigh
    <3> QED  BY <3>1, <3>3, <3>4, <3>5 DEF Honest
  <2> QED  BY <2>2, <2>3
<1>8. CASE Faulty /\ \E s \in Damaged(Answer') : line' = Older(Rest(n)) \o Fresh(s)
  <2>1. PICK s \in Damaged(PositionAnswer(1, present')) : line' = Older(Rest(n)) \o Fresh(s)
    BY <1>3, <1>8
  <2>2. /\ s \in Seq(Byte)
        /\ \/ Len(s) <= 7
           \/ Len(s) = 8 /\ ~(s[1] = 255 /\ s[2] = 255)
           \/ Honest(Received(s), present')
    <3>1. PICK pos \in Position : pos = present'
      BY <1>2
    <3>2. Readable(pos) /\ s \in Damaged(PositionAnswer(1, pos))
      BY <1>5, <1>8, <2>1, <3>1
    <3> QED  BY <3>1, <3>2, DamageTells
  <2>d. PICK d \in Seq(Byte) : d = Received(s)
    BY <2>2, ReceivedBytes
  <2>3. line' = Fresh(s) /\ AtPlace(d)'
    BY <1>6, <2>1, <2>2, <2>d
  <2>4. Len(line') = Len(s) /\ Len(s) \in Nat /\ \A k \in 1..Len(s) : line'[k].byte = s[k]
    BY <2>2, <2>3, FreshBytes
  <2>5. CASE Len(s) <= 7
    <3>1. faults' = MaxFaults /\ Len(line') <= 7 /\ Len(line') \in Nat
      BY <1>5, <1>8, <2>4, <2>5
    <3>2. Len(line') # 8
      BY <2>4, <2>5, SMTT(30)
    <3> QED  BY <1>2, <3>1, <3>2 DEF TooShort
  <2>6. CASE Len(s) = 8 /\ ~(s[1] = 255 /\ s[2] = 255)
    <3>1. faults' = MaxFaults /\ Len(line') = 8
      BY <1>5, <1>8, <2>4, <2>6
    <3>2. line'[1].byte = s[1] /\ line'[2].byte = s[2]
      BY <2>4, <2>6
    <3> QED  BY <1>2, <2>6, <3>1, <3>2 DEF TooShort
  <2> QED  BY <2>2, <2>3, <2>d, <2>5, <2>6
<1>9. CASE Faulty /\ line' = Older(Rest(n))
  <2>1. <<>> \in Seq(Byte)
    OBVIOUS
  <2>2. line' = <<>>
    BY <1>1, <1>9, <2>1, NothingLeft
  <2>3. Len(line') = 0
    BY <2>2
  <2> QED  BY <1>2, <1>5, <1>9, <2>3 DEF TooShort
<1> QED  BY <1>1, <1>7, <1>8, <1>9

LEMMA PositionStep ==
    ASSUME MaxFaults <= 1
    PROVE  TypeOK /\ NothingYet /\ PositionAhead /\ TruePosition /\ [Next]_vars
             => PositionAhead' /\ TruePosition'
<1> SUFFICES ASSUME TypeOK, NothingYet, PositionAhead, TruePosition, [Next]_vars
             PROVE  PositionAhead' /\ TruePosition'
  OBVIOUS
<1>1. CASE Command
  <2>1. TruePosition'
    BY <1>1, CommandLine DEF TruePosition, NoResult
  <2>2. ASSUME call' = 3, alone', OneChanger'
        PROVE  TooShort' \/ \E d \in Seq(Byte) : Honest(d, present') /\ AtPlace(d)'
    <3>1. call = 3
      BY <1>1, <2>2, CommandLine
    <3> QED  BY <1>1, <2>2, <3>1, PositionBegins
  <2> QED  BY <2>1, <2>2 DEF PositionAhead
<1>2. CASE Reading
  <2>1. phase # "idle" /\ UNCHANGED <<present, alone>>
    BY <1>2, ReadingSteps
  <2>2. NothingYet'
    BY NothingYetStep
  <2>0. OneChanger' => OneChanger
    <3>1. faults' = 0 => faults = 0
      BY <1>2, ReadingSteps DEF TypeOK
    <3> QED  BY <2>1, <3>1 DEF OneChanger
  <2>3. CASE phase' # "idle" /\ UNCHANGED call
    <3>1. TruePosition'
      BY <2>2, <2>3 DEF NothingYet, TruePosition, NoResult
    <3>2. ASSUME call = 3, alone, OneChanger
          PROVE  TooShort' \/ \E d \in Seq(Byte) : Honest(d, present') /\ AtPlace(d)'
      <4>1. CASE TooShort
        BY <1>2, <2>3, <3>2, <4>1, ShortStays
      <4>2. CASE \E d \in Seq(Byte) : Honest(d, present) /\ AtPlace(d)
        <5>1. PICK d \in Seq(Byte) : Honest(d, present) /\ AtPlace(d)
          BY <4>2
        <5>2. Len(d) = 2 + BodyLen(call) /\ d[1] = 255 /\ d[2] = 255
          BY <3>2, <5>1 DEF Honest, BodyLen, IsWrite
        <5>3. AtPlace(d)'
          <6>1. ~GiveUp /\ \A b : ~Finish(b)
            BY <2>3 DEF GiveUp, Return, Finish
          <6> QED  BY <1>2, <5>1, <5>2, <6>1, PlaceMoves
        <5> QED  BY <2>1, <5>1, <5>3
      <4> QED  BY <2>1, <3>2, <4>1, <4>2 DEF PositionAhead
    <3> QED  BY <2>0, <2>1, <2>3, <3>1, <3>2 DEF PositionAhead
  <2>4. CASE phase' = "idle"
    <3>1. PositionAhead'
      BY <2>4 DEF PositionAhead
    <3>2. ASSUME result'.of = 3, result'.ok, alone', OneChanger'
          PROVE  result'.pos = present'
      <4>1. call = 3
        <5>1. \E ok, pos : Return(ok, pos)
          BY <1>2, <2>1, <2>4, ReadingSteps DEF HeadByte, BodyByte, Finish, GiveUp
        <5> QED  BY <3>2, <5>1 DEF Return
      <4>2. ~TooShort
        BY <1>2, <2>4, <3>2, <4>1, ShortStays
      <4>3. PICK d \in Seq(Byte) : Honest(d, present) /\ AtPlace(d)
        BY <2>0, <2>1, <3>2, <4>1, <4>2 DEF PositionAhead
      <4>4. Len(d) = 2 + BodyLen(call) /\ d[1] = 255 /\ d[2] = 255 /\ BodyLen(call) = 6
        BY <4>1, <4>3 DEF Honest, BodyLen, IsWrite
      <4>5. ~GiveUp
        BY <3>2 DEF GiveUp, Return
      <4>6. PICK b \in Seq(Byte) :
              Len(b) = 6 /\ Finish(b) /\ \A k \in 1..6 : b[k] = d[2 + k]
        <5>1. PICK b \in Seq(Byte) :
                Len(b) = BodyLen(call) /\ Finish(b) /\ \A k \in 1..Len(b) : b[k] = d[2 + k]
          BY <1>2, <2>4, <4>3, <4>4, <4>5, PlaceMoves
        <5>2. Len(b) = 6 /\ Finish(b) /\ \A k \in 1..6 : b[k] = d[2 + k]
          BY <4>4, <5>1
        <5> QED  BY <5>2
      <4>7. /\ b[1] = d[3] /\ b[2] = d[4] /\ b[3] = d[5] /\ b[4] = d[6] /\ b[5] = d[7]
            /\ b[6] = d[8]
        BY <4>6
      <4>8. ReadOk(b) /\ Return(TRUE, WordSigned(SCS2Host(FALSE, b[4], b[5])))
        <5>1. ~IsWrite(call)
          BY <4>1 DEF IsWrite
        <5> QED  BY <4>5, <4>6, <5>1, Zenon DEF Finish
      <4>9. WordSigned(SCS2Host(FALSE, b[4], b[5])) = present
        BY <4>3, <4>7, <4>8 DEF ReadOk, ReadSum, Honest
      <4> QED  BY <2>1, <4>8, <4>9 DEF Return
    <3> QED  BY <3>1, <3>2 DEF TruePosition, OneChanger
  <2>5. phase' = "idle" \/ UNCHANGED call
    BY <1>2, ReadingSteps DEF HeadByte, BodyByte, Finish, GiveUp, Return
  <2> QED  BY <2>3, <2>4, <2>5
<1>3. CASE UNCHANGED vars
  BY <1>3 DEF vars, PositionAhead, OneChanger, TruePosition, TooShort, AtPlace, Ahead
<1> QED  BY <1>1, <1>2, <1>3 DEF Next

\* What ReadPos reports is where the servo is, if nothing late was under way and
\* of the answers that can meet at most one is lost, shortened or changed, and
\* that one has no byte which the tty translates: for any position, any byte in
\* place of another, any noise and any lateness, on a raw tty and on this one.
THEOREM PositionAlwaysTrue ==
    ASSUME MaxFaults <= 1 PROVE Spec => []TruePosition
<1>1. Init => PositionAhead /\ TruePosition
  BY DEF Init, PositionAhead, TruePosition, NoResult
<1>2. TypeOK /\ NothingYet /\ PositionAhead /\ TruePosition /\ [Next]_vars
        => PositionAhead' /\ TruePosition'
  BY PositionStep
<1> QED  BY <1>1, <1>2, AlwaysNothingYet, PTL DEF Spec

-----------------------------------------------------------------------------
(* What an acknowledgement proves.                                         *)

\* The call whose answer is so many calls old.
AskerOf(c, ph, age) ==
    LET a == (IF ph = "idle" THEN c - 1 ELSE c) - age
    IN  IF a < 1 THEN a + 3 ELSE a

\* At k begins what checkHead and Ack would take for servo i's acknowledgement.
AckAt(ln, k, i) ==
    /\ k \in 1..(Len(ln) - 3)
    /\ ln[k].byte = 255 /\ ln[k + 1].byte = 255
    /\ ln[k + 2].byte = i /\ ln[k + 3].byte = 2

\* Without faults only the answer to a write looks like its acknowledgement.
AcksKnown ==
    faults = 0 => \A k \in Nat : \A i \in {1, 2} :
        AckAt(line, k, i) => i = AskerOf(call, phase, line[k].age)

\* Nothing that this call can still read looks like an acknowledgement of it.
NoAckAhead ==
    /\ \A k \in Nat : ~AckAt(line, k, call)
    /\ phase = "head" /\ prev = 255 /\ Len(line) >= 3
         => ~(line[1].byte = 255 /\ line[2].byte = call /\ line[3].byte = 2)
    /\ phase = "body" =>
         /\ Len(buf) = 0 /\ Len(line) >= 2 => ~(line[1].byte = call /\ line[2].byte = 2)
         /\ Len(buf) = 1 /\ Len(line) >= 1 => ~(buf[1] = call /\ line[1].byte = 2)
         /\ Len(buf) >= 2 => ~(buf[1] = call /\ buf[2] = 2)

\* The servo did what this call asked, or the call cannot be told that it did.
ToldTrue ==
    IsWrite(call) /\ phase # "idle" =>
        goal[call] = asked[call] \/ (faults = MaxFaults /\ NoAckAhead)

\* The same in an answer.
AckIn(d, j, i) ==
    /\ j \in 1..(Len(d) - 3)
    /\ d[j] = 255 /\ d[j + 1] = 255 /\ d[j + 2] = i /\ d[j + 3] = 2

\* Of an answer, only that to a write looks like an acknowledgement, once.
LEMMA OwnAckOnly ==
    ASSUME NEW c \in 1..3, NEW pos, NEW j, NEW i \in {1, 2},
           AckIn(AnswerToCall(c, pos), j, i)
    PROVE  IsWrite(c) /\ i = c
<1> DEFINE d == AnswerToCall(c, pos)
<1>a. /\ d = IF IsWrite(c) THEN AckAnswer(c) ELSE PositionAnswer(1, pos)
      /\ d[j] = 255 /\ d[j + 1] = 255 /\ d[j + 2] = i /\ d[j + 3] = 2
  BY DEF AnswerToCall, AckIn
<1>b. j \in 1..(Len(d) - 3)
  BY DEF AckIn
<1> HIDE DEF d
<1>1. CASE IsWrite(c)
  <2>1. Len(d) = 6 /\ d[3] = c /\ c # 255
    BY <1>a, <1>1, AckAnswerBytes DEF IsWrite
  <2>2. j = 1 \/ j = 2 \/ j = 3
    BY <1>b, <2>1
  <2>3. j = 1
    BY <1>a, <2>1, <2>2
  <2> QED  BY <1>a, <1>1, <2>1, <2>3
<1>2. CASE ~IsWrite(c)
  <2>1. Len(d) = 8 /\ d[3] = 1 /\ d[4] = 4 /\ d[5] = 0
    BY <1>a, <1>2, PositionAnswerBytes
  <2>2. j = 1 \/ j = 2 \/ j = 3 \/ j = 4 \/ j = 5
    BY <1>b, <2>1
  <2> QED  BY <1>a, <2>1, <2>2
<1> QED  BY <1>1, <1>2

LEMMA AgesMoveOn ==
    ASSUME NEW c \in 1..3, NEW age \in Nat, age < 2
    PROVE  /\ AskerOf(c, "head", age + 1) = AskerOf(c, "idle", age)
           /\ AskerOf(c, "idle", age) # c
BY DEF AskerOf

LEMMA NoAge == ASSUME NEW c \in 1..3 PROVE AskerOf(c, "head", 0) = c
BY DEF AskerOf

LEMMA CallsMoveOn ==
    ASSUME NEW c \in 1..3, NEW age \in 0..2, NEW ph, ph # "idle"
    PROVE  AskerOf((c % 3) + 1, "idle", age) = AskerOf(c, ph, age)
<1>1. (c = 1 /\ c % 3 = 1) \/ (c = 2 /\ c % 3 = 2) \/ (c = 3 /\ c % 3 = 0)
  OBVIOUS
<1> QED  BY <1>1 DEF AskerOf

\* Every answer begins with a header.
HasHeader(d) == Len(d) >= 6 /\ d[1] = 255 /\ d[2] = 255

\* Older answers, and then a new one: nothing in between looks like an
\* acknowledgement, because every answer begins with two 255.
LEMMA AcksJoined ==
    ASSUME NEW left \in Seq(LateByte), NEW d \in Seq(Byte), HasHeader(d),
           NEW k \in Nat, NEW i \in {1, 2}, AckAt(left \o Fresh(d), k, i)
    PROVE  \/ AckAt(left, k, i) /\ (left \o Fresh(d))[k].age = left[k].age
           \/ AckIn(d, k - Len(left), i) /\ (left \o Fresh(d))[k].age = 0
<1> DEFINE m == Len(left)
           ln == left \o Fresh(d)
<1>1. /\ m \in Nat /\ Len(d) \in Nat /\ k \in Int
      /\ Len(d) >= 6 /\ d[1] = 255 /\ d[2] = 255
  BY DEF HasHeader
<1>2. Fresh(d) \in Seq(LateByte) /\ Len(Fresh(d)) = Len(d)
  BY FreshType, FreshBytes
<1>3. \A j \in 1..(m + Len(d)) : ln[j] = IF j <= m THEN left[j] ELSE Fresh(d)[j - m]
  <2>1. \A j \in 1..(Len(left) + Len(Fresh(d))) :
          (left \o Fresh(d))[j] =
             IF j <= Len(left) THEN left[j] ELSE Fresh(d)[j - Len(left)]
    BY <1>2, ConcatProperties
  <2> QED  BY <1>2, <2>1
<1> HIDE DEF m, ln
<1>4. ASSUME NEW j \in 1..(m + Len(d)), j > m
      PROVE  ln[j].byte = d[j - m] /\ ln[j].age = 0
  <2>1. j - m \in 1..Len(d)
    BY <1>1, <1>4
  <2>2. ln[j] = Fresh(d)[j - m]
    BY <1>1, <1>3, <1>4
  <2> QED  BY <2>1, <2>2, FreshBytes
<1>5. ASSUME NEW j \in 1..m PROVE ln[j] = left[j]
  BY <1>1, <1>3
<1>6. /\ ln[k].byte = 255 /\ ln[k + 1].byte = 255
      /\ ln[k + 2].byte = i /\ ln[k + 3].byte = 2
  BY DEF AckAt, ln
<1>7. k \in 1..(m + Len(d) - 3)
  <2>1. k \in 1..(Len(left \o Fresh(d)) - 3)
    BY DEF AckAt
  <2>2. Len(left \o Fresh(d)) = Len(left) + Len(Fresh(d))
    BY <1>2, ConcatProperties
  <2> QED  BY <1>2, <2>1, <2>2 DEF m
<1>8. CASE k + 3 <= m
  <2>1. k \in 1..m /\ k + 1 \in 1..m /\ k + 2 \in 1..m /\ k + 3 \in 1..m /\ k \in 1..(m - 3)
    BY <1>1, <1>7, <1>8
  <2>2. ln[k] = left[k] /\ ln[k + 1] = left[k + 1]
        /\ ln[k + 2] = left[k + 2] /\ ln[k + 3] = left[k + 3]
    BY <1>5, <2>1
  <2>3. AckAt(left, k, i) /\ ln[k].age = left[k].age
    BY <1>6, <2>1, <2>2 DEF AckAt, m
  <2> QED  BY <2>1, <2>3 DEF m, ln
<1>9. CASE k > m
  <2> DEFINE e == k - m
  <2>1. /\ e \in 1..(Len(d) - 3)
        /\ k \in 1..(m + Len(d)) /\ k + 1 \in 1..(m + Len(d))
        /\ k + 2 \in 1..(m + Len(d)) /\ k + 3 \in 1..(m + Len(d))
        /\ k + 1 > m /\ k + 2 > m /\ k + 3 > m
        /\ (k + 1) - m = e + 1 /\ (k + 2) - m = e + 2 /\ (k + 3) - m = e + 3
    BY <1>1, <1>7, <1>9
  <2>2. /\ ln[k].byte = d[e] /\ ln[k].age = 0 /\ ln[k + 1].byte = d[e + 1]
        /\ ln[k + 2].byte = d[e + 2] /\ ln[k + 3].byte = d[e + 3]
    BY <1>4, <1>9, <2>1
  <2>3. AckIn(d, e, i)
    BY <1>6, <2>1, <2>2, SMTT(30) DEF AckIn
  <2> QED  BY <1>9, <2>1, <2>2, <2>3 DEF m, ln
<1>10. CASE k <= m /\ m < k + 3
  <2>1. m + 1 = k + 1 \/ m + 1 = k + 2 \/ m + 1 = k + 3
    BY <1>1, <1>10
  <2>2. m + 1 \in 1..(m + Len(d)) /\ m + 2 \in 1..(m + Len(d)) /\ m + 1 > m /\ m + 2 > m
        /\ (m + 1) - m = 1 /\ (m + 2) - m = 2
    BY <1>1
  <2>3. ln[m + 1].byte = 255 /\ ln[m + 2].byte = 255
    BY <1>1, <1>4, <2>2, SMTT(30)
  <2>4. m + 1 = k + 1 => m + 2 = k + 2
    BY <1>1
  <2> QED  BY <1>6, <2>1, <2>3, <2>4
<1>11. k + 3 <= m \/ k > m \/ (k <= m /\ m < k + 3)
  BY <1>1
<1> QED  BY <1>8, <1>9, <1>10, <1>11, Zenon

\* So what looks like an acknowledgement is in what was left or is this answer.
LEMMA NewestAcks ==
    ASSUME NEW left \in Seq(LateByte), NEW c \in 1..3, NEW pos \in Position,
           NEW k \in Nat, NEW i \in {1, 2},
           AckAt(left \o Fresh(AnswerToCall(c, pos)), k, i)
    PROVE  \/ /\ AckAt(left, k, i)
              /\ (left \o Fresh(AnswerToCall(c, pos)))[k].age = left[k].age
           \/ IsWrite(c) /\ i = c /\ (left \o Fresh(AnswerToCall(c, pos)))[k].age = 0
<1> DEFINE d == AnswerToCall(c, pos)
<1>1. HasHeader(d)
  <2>1. CASE IsWrite(c)
    BY <2>1, AckAnswerBytes DEF AnswerToCall, HasHeader
  <2>2. CASE ~IsWrite(c)
    <3>1. d = PositionAnswer(1, pos)
      BY <2>2 DEF AnswerToCall
    <3> HIDE DEF d
    <3>2. Len(d) = 8 /\ d[1] = 255 /\ d[2] = 255
      BY <3>1, PositionAnswerBytes, SMTT(30)
    <3> QED  BY <3>2 DEF HasHeader
  <2> QED  BY <2>1, <2>2
<1>2. d \in Seq(Byte)
  <2>1. c \in Byte /\ 1 \in Byte
    BY DEF Byte
  <2> QED  BY <2>1, AckAnswerType, PositionAnswerType DEF AnswerToCall
<1>3. ASSUME NEW j, AckIn(d, j, i) PROVE IsWrite(c) /\ i = c
  BY <1>3, OwnAckOnly
<1>4. AckAt(left \o Fresh(d), k, i)
  OBVIOUS
<1> HIDE DEF d
<1>5. \/ AckAt(left, k, i) /\ (left \o Fresh(d))[k].age = left[k].age
      \/ AckIn(d, k - Len(left), i) /\ (left \o Fresh(d))[k].age = 0
  BY <1>1, <1>2, <1>4, AcksJoined
<1> QED  BY <1>3, <1>5 DEF d

\* The line has lost its first byte, or is empty.
ByteTaken ==
    \/ /\ Len(line) > 0 /\ Len(line') = Len(line) - 1
       /\ \A j \in 1..(Len(line) - 1) : line'[j] = line[j + 1]
    \/ line = <<>> /\ line' = <<>>

\* An acknowledgement on a line that only lost its first byte was there before.
LEMMA AckWasThere ==
    ASSUME TypeOK, NEW k \in Nat, NEW i, AckAt(line', k, i), ByteTaken
    PROVE  AckAt(line, k + 1, i) /\ line'[k] = line[k + 1]
<1>1. PICK m \in Nat : m = Len(line)
  BY DEF TypeOK
<1>a. k \in 1..(Len(line') - 3)
  BY DEF AckAt
<1>2. CASE line = <<>> /\ line' = <<>>
  <2>1. Len(line') = 0
    BY <1>2
  <2> QED  BY <1>a, <2>1
<1>3. CASE /\ Len(line) > 0 /\ Len(line') = Len(line) - 1
           /\ \A j \in 1..(Len(line) - 1) : line'[j] = line[j + 1]
  <2>1. Len(line') = m - 1
    BY <1>1, <1>3
  <2>2. k \in 1..(m - 1 - 3)
    BY <1>a, <2>1
  <2>3. /\ k + 1 \in 1..(m - 3) /\ k \in 1..(m - 1) /\ k + 1 \in 1..(m - 1)
        /\ k + 2 \in 1..(m - 1) /\ k + 3 \in 1..(m - 1)
        /\ (k + 1) + 1 = k + 2 /\ (k + 2) + 1 = k + 3 /\ (k + 1) + 2 = k + 3
        /\ (k + 3) + 1 = (k + 1) + 3
    BY <2>2
  <2>4. \A j \in 1..(m - 1) : line'[j] = line[j + 1]
    BY <1>1, <1>3
  <2>5. /\ line'[k] = line[k + 1] /\ line'[k + 1] = line[k + 2]
        /\ line'[k + 2] = line[k + 3] /\ line'[k + 3] = line[(k + 1) + 3]
    BY <2>3, <2>4
  <2>6. AckAt(line, k + 1, i)
    BY <1>1, <2>3, <2>5 DEF AckAt
  <2> QED  BY <2>5, <2>6
<1> QED  BY <1>2, <1>3 DEF ByteTaken

LEMMA AgeOnLine ==
    ASSUME TypeOK, NEW k \in 1..Len(line) PROVE line[k].age \in 0..MaxLate
<1>1. line[k] \in LateByte
  BY DEF TypeOK
<1> QED  BY <1>1 DEF LateByte

\* An acknowledgement in what was left was there before, one call younger.
LEMMA AckLeft ==
    ASSUME TypeOK, NEW n \in 0..Len(line), Arrived(n), NEW k \in Nat, NEW i,
           AckAt(Older(Rest(n)), k, i)
    PROVE  /\ n + k \in Nat /\ AckAt(line, n + k, i) /\ ~alone'
           /\ line[n + k].age \in Nat /\ line[n + k].age < MaxLate
           /\ Older(Rest(n))[k].age = line[n + k].age + 1
<1> DEFINE left == Older(Rest(n))
<1>1. /\ Len(left) = Len(line) - n
      /\ \A j \in 1..(Len(line) - n) :
           /\ left[j].byte = line[n + j].byte
           /\ left[j].age = line[n + j].age + 1
           /\ line[n + j].age \in Nat /\ line[n + j].age < MaxLate
      /\ alone' = (Len(line) - n = 0)
  BY LeftOver
<1>2. PICK m \in Nat : m = Len(line)
  BY DEF TypeOK
<1>3. AckAt(left, k, i)
  OBVIOUS
<1> HIDE DEF left
<1>4. n \in Nat /\ n <= m /\ Len(left) = m - n /\ k \in 1..(m - n - 3)
  BY <1>1, <1>2, <1>3 DEF AckAt
<1>5. /\ n + k \in Nat /\ n + k \in 1..(m - 3)
      /\ k \in 1..(m - n) /\ k + 1 \in 1..(m - n) /\ k + 2 \in 1..(m - n)
      /\ k + 3 \in 1..(m - n)
      /\ n + (k + 1) = (n + k) + 1 /\ n + (k + 2) = (n + k) + 2
      /\ n + (k + 3) = (n + k) + 3 /\ m - n # 0
  BY <1>4
<1>6. /\ left[k].byte = line[n + k].byte /\ left[k + 1].byte = line[(n + k) + 1].byte
      /\ left[k + 2].byte = line[(n + k) + 2].byte
      /\ left[k + 3].byte = line[(n + k) + 3].byte
  <2>1. \A j \in 1..(m - n) : left[j].byte = line[n + j].byte
    BY <1>1, <1>2
  <2> QED  BY <1>5, <2>1
<1>7. AckAt(line, n + k, i)
  BY <1>2, <1>3, <1>5, <1>6 DEF AckAt
<1>8. /\ left[k].age = line[n + k].age + 1
      /\ line[n + k].age \in Nat /\ line[n + k].age < MaxLate
  BY <1>1, <1>2, <1>5
<1>9. ~alone'
  BY <1>1, <1>2, <1>5
<1> QED  BY <1>5, <1>7, <1>8, <1>9 DEF left

LEMMA AcksKnownStep ==
    ASSUME MaxLate <= 2
    PROVE  TypeOK /\ AcksKnown /\ [Next]_vars => AcksKnown'
<1> SUFFICES ASSUME TypeOK, AcksKnown, [Next]_vars PROVE AcksKnown'
  OBVIOUS
<1>1. CASE Command
  <2>1. PICK n \in 0..Len(line) :
          /\ Arrived(n)
          /\ \/ /\ \/ Faultless /\ line' = Older(Rest(n)) \o Fresh(Answer')
                   \/ /\ Faulty
                      /\ \E s \in Damaged(Answer') : line' = Older(Rest(n)) \o Fresh(s)
                /\ IsWrite(call) => goal'[call] = asked'[call]
             \/ Faulty /\ UNCHANGED goal /\ line' = Older(Rest(n))
    BY <1>1, CommandLine
  <2>2. call' = call /\ call \in 1..3 /\ phase = "idle" /\ phase' = "head"
        /\ present' \in Position
    BY <1>1, CommandLine, TargetsAssumption DEF Command, TypeOK
  <2> DEFINE left == Older(Rest(n))
  <2>3. /\ left \in Seq(LateByte) /\ Len(left) = Len(line) - n
        /\ \A k \in 1..(Len(line) - n) :
             /\ left[k].byte = line[n + k].byte
             /\ left[k].age = line[n + k].age + 1
             /\ line[n + k].age \in Nat /\ line[n + k].age < MaxLate
        /\ alone' = (Len(line) - n = 0)
    BY <2>1, LeftOver
  <2> HIDE DEF left
  <2>4. ASSUME faults' = 0, NEW k \in Nat, NEW i \in {1, 2},
               AckAt(line', k, i)
        PROVE  i = AskerOf(call', phase', line'[k].age)
    <3>1. ~Faulty
      BY <2>4, BoundsAssumption DEF Faulty, TypeOK
    <3>2. Faultless /\ line' = left \o Fresh(Answer')
      BY <2>1, <3>1 DEF left
    <3>3. PICK ln : ln = line'
      OBVIOUS
    <3>4. PICK q \in Position : q = present'
      BY <2>2
    <3>5. ln = left \o Fresh(AnswerToCall(call, q))
      BY <2>2, <3>2, <3>3, <3>4 DEF Answer
    <3>6. AckAt(ln, k, i)
      BY <2>4, <3>3, Zenon
    <3>7. \/ AckAt(left, k, i) /\ line'[k].age = left[k].age
          \/ IsWrite(call) /\ i = call /\ line'[k].age = 0
      <4>1. AckAt(left \o Fresh(AnswerToCall(call, q)), k, i)
        BY <3>5, <3>6, Zenon
      <4>2. \/ /\ AckAt(left, k, i)
               /\ (left \o Fresh(AnswerToCall(call, q)))[k].age = left[k].age
            \/ /\ IsWrite(call) /\ i = call
               /\ (left \o Fresh(AnswerToCall(call, q)))[k].age = 0
        <5>1. left \in Seq(LateByte) /\ call \in 1..3 /\ q \in Position
              /\ k \in Nat /\ i \in {1, 2}
          BY <2>2, <2>3, <2>4, <3>4, Zenon
        <5> QED  BY <4>1, <5>1, NewestAcks
      <4> QED  BY <3>3, <3>5, <4>2, Zenon
    <3>8. CASE AckAt(left, k, i) /\ line'[k].age = left[k].age
      <4>1. /\ n + k \in Nat /\ AckAt(line, n + k, i) /\ ~alone'
            /\ line[n + k].age \in Nat /\ line[n + k].age < MaxLate
            /\ left[k].age = line[n + k].age + 1
        <5>1. AckAt(Older(Rest(n)), k, i) /\ k \in Nat
          BY <2>4, <3>8 DEF left
        <5> QED  BY <2>1, <5>1, AckLeft DEF left
      <4>2. faults = 0
        BY <2>4, <3>2, <4>1 DEF Faultless
      <4>3. i = AskerOf(call, "idle", line[n + k].age)
        BY <2>2, <2>4, <4>1, <4>2 DEF AcksKnown
      <4>4. PICK age \in Nat : age = line[n + k].age /\ age < 2 /\ line'[k].age = age + 1
        BY <3>8, <4>1, BoundsAssumption
      <4>5. AskerOf(call, "head", age + 1) = AskerOf(call, "idle", age)
        BY <2>2, <4>4, AgesMoveOn, Zenon
      <4> QED  BY <2>2, <4>3, <4>4, <4>5, Zenon
    <3>9. CASE i = call /\ line'[k].age = 0
      BY <2>2, <3>9, NoAge, Zenon
    <3> QED  BY <3>7, <3>8, <3>9, Zenon
  <2> QED  BY <2>4 DEF AcksKnown
<1>2. CASE Reading
  <2>1. ASSUME faults' = 0, NEW k \in Nat, NEW i \in {1, 2},
               AckAt(line', k, i)
        PROVE  i = AskerOf(call', phase', line'[k].age)
    <3>1. /\ phase # "idle" /\ call \in 1..3
          /\ UNCHANGED <<line, faults>> \/ ByteTaken
      BY <1>2, ReadingSteps DEF TypeOK, ByteTaken
    <3>2. faults = 0
      BY <1>2, <2>1, ReadingSteps, BoundsAssumption DEF TypeOK
    <3>3. PICK j \in Nat : AckAt(line, j, i) /\ line'[k] = line[j]
      <4>1. CASE UNCHANGED <<line, faults>>
        BY <2>1, <4>1
      <4>2. CASE ByteTaken
        <5>1. k + 1 \in Nat /\ AckAt(line, k + 1, i) /\ line'[k] = line[k + 1]
          BY <2>1, <4>2, AckWasThere
        <5> QED  BY <5>1
      <4> QED  BY <3>1, <4>1, <4>2
    <3>4. i = AskerOf(call, phase, line[j].age)
      BY <2>1, <3>2, <3>3 DEF AcksKnown
    <3>5. PICK age \in 0..2 : age = line[j].age
      <4>1. Len(line) \in Nat
        BY DEF TypeOK
      <4>2. j \in 1..Len(line)
        BY <3>3, <4>1 DEF AckAt
      <4>3. line[j].age \in 0..MaxLate
        BY <4>2, AgeOnLine
      <4> QED  BY <4>3, BoundsAssumption
    <3>6. \/ phase' # "idle" /\ UNCHANGED call
          \/ phase' = "idle" /\ call' = (call % 3) + 1
      BY <1>2, <3>1, ReadingSteps DEF HeadByte, BodyByte, Finish, GiveUp, Return
    <3>7. AskerOf(call', phase', age) = AskerOf(call, phase, age)
      <4>1. CASE phase' # "idle" /\ UNCHANGED call
        BY <3>1, <4>1 DEF AskerOf
      <4>2. CASE phase' = "idle" /\ call' = (call % 3) + 1
        BY <3>1, <4>2, CallsMoveOn
      <4> QED  BY <3>6, <4>1, <4>2
    <3> QED  BY <3>3, <3>4, <3>5, <3>7
  <2> QED  BY <2>1 DEF AcksKnown
<1>3. CASE UNCHANGED vars
  BY <1>3 DEF vars, AcksKnown, AckAt
<1> QED  BY <1>1, <1>2, <1>3 DEF Next

\* A request the servo has not obeyed: this call's answer is not coming, and no
\* other call's can be taken for it.
LEMMA UnheardNotAcked ==
    ASSUME MaxFaults <= 1, MaxLate <= 2, TypeOK, AcksKnown, Command, IsWrite(call)
    PROVE  goal'[call] = asked'[call] \/ (faults' = MaxFaults /\ NoAckAhead')
<1>1. PICK n \in 0..Len(line) :
        /\ Arrived(n)
        /\ \/ goal'[call] = asked'[call]
           \/ Faulty /\ line' = Older(Rest(n))
  BY CommandLine
<1>2. call' = call /\ call \in {1, 2} /\ phase' = "head" /\ prev' = 0 /\ phase = "idle"
  BY CommandLine DEF IsWrite
<1>3. CASE Faulty /\ line' = Older(Rest(n))
  <2>1. faults' = MaxFaults /\ (~alone' => faults = 0)
    BY <1>3, BoundsAssumption DEF Faulty, TypeOK
  <2>2. ASSUME NEW k \in Nat, AckAt(line', k, call') PROVE FALSE
    <3>1. AckAt(Older(Rest(n)), k, call)
      BY <1>2, <1>3, <2>2, Zenon
    <3>2. /\ n + k \in Nat /\ AckAt(line, n + k, call) /\ ~alone'
          /\ line[n + k].age \in Nat /\ line[n + k].age < MaxLate
      BY <1>1, <3>1, AckLeft
    <3>3. call = AskerOf(call, "idle", line[n + k].age)
      BY <1>2, <2>1, <3>2 DEF AcksKnown
    <3>4. line[n + k].age < 2
      BY <3>2, BoundsAssumption
    <3>5. call \in 1..3
      BY <1>2
    <3> QED  BY <3>2, <3>3, <3>4, <3>5, AgesMoveOn
  <2>3. NoAckAhead'
    BY <1>2, <2>2 DEF NoAckAhead
  <2> QED  BY <2>1, <2>3
<1> QED  BY <1>1, <1>3

\* b is the line's next byte, as far as an acknowledgement's first bytes go.
SameMark(b) == \A v \in {1, 2, 255} : b = v <=> line[1].byte = v

\* What does not look like an acknowledgement does not come to look like one.
LEMMA NotAckedMoves ==
    ASSUME TypeOK, NothingYet, IsWrite(call), faults = MaxFaults, NoAckAhead, Reading
    PROVE  \/ phase' # "idle" /\ UNCHANGED <<call, faults>> /\ NoAckAhead'
           \/ phase' = "idle" /\ ~result'.ok
<1>0. ASSUME NEW b, SameMark(b)
      PROVE  /\ b = 255 <=> line[1].byte = 255
             /\ b = call <=> line[1].byte = call
             /\ b = 2 <=> line[1].byte = 2
  <2>1. call \in {1, 2, 255}
    BY DEF IsWrite
  <2>2. \A v \in {1, 2, 255} : b = v <=> line[1].byte = v
    BY <1>0 DEF SameMark
  <2> QED  BY <2>1, <2>2
<1>1. CASE GiveUp
  BY <1>1 DEF GiveUp, Return
<1>2. ASSUME NEW b \in Byte, HeadByte(b),
             \/ /\ SameMark(b) /\ Len(line) > 0 /\ Len(line') = Len(line) - 1
                /\ \A k \in 1..(Len(line) - 1) : line'[k] = line[k + 1]
             \/ line = <<>> /\ line' = <<>>,
             UNCHANGED faults
      PROVE  \/ phase' # "idle" /\ UNCHANGED <<call, faults>> /\ NoAckAhead'
             \/ phase' = "idle" /\ ~result'.ok
  <2>1. CASE phase' = "idle"
    BY <1>2, <2>1 DEF HeadByte, GiveUp, Return
  <2>2. CASE phase' # "idle"
    <3>1. /\ call' = call /\ phase = "head" /\ buf' = <<>>
          /\ \/ phase' = "body" /\ b = 255 /\ prev = 255
             \/ phase' = "head" /\ prev' = b
      BY <1>2, <2>2 DEF HeadByte, HeaderAt, NothingYet, GiveUp, Return
    <3>2. \A k \in Nat : ~AckAt(line', k, call')
      <4>1. ASSUME NEW k \in Nat, AckAt(line', k, call) PROVE AckAt(line, k + 1, call)
        BY <1>2, <4>1, AckWasThere DEF ByteTaken
      <4> QED  BY <3>1, <4>1 DEF NoAckAhead
    <3>3. Len(buf') = 0
      BY <3>1
    <3>4. PICK m \in Nat : m = Len(line)
      BY DEF TypeOK
    <3>5. CASE line = <<>> /\ line' = <<>>
      <4>1. Len(line') = 0
        BY <3>5
      <4>2. ~(Len(line') >= 3) /\ ~(Len(line') >= 2) /\ ~(Len(buf') = 1) /\ ~(Len(buf') >= 2)
        BY <3>3, <4>1
      <4>3. NoAckAhead'
        BY <3>2, <4>2, Zenon DEF NoAckAhead
      <4> QED  BY <1>2, <2>2, <3>1, <4>3, Zenon
    <3>6. CASE /\ SameMark(b) /\ Len(line) > 0 /\ Len(line') = Len(line) - 1
               /\ \A k \in 1..(Len(line) - 1) : line'[k] = line[k + 1]
      <4>1. PICK l \in Int : l = Len(line') /\ l = m - 1
        BY <3>4, <3>6
      <4>2. l >= 2 => line'[1] = line[2] /\ line'[2] = line[3] /\ m >= 3
        <5>1. ASSUME l >= 2
              PROVE  1 \in 1..(m - 1) /\ 2 \in 1..(m - 1) /\ 1 + 1 = 2 /\ 2 + 1 = 3 /\ m >= 3
          BY <4>1, <5>1
        <5> QED  BY <3>4, <3>6, <5>1
      <4>3. l >= 3 => line'[3] = line[4] /\ 1 \in 1..(m - 3) /\ l >= 2
        <5>1. ASSUME l >= 3 PROVE 3 \in 1..(m - 1) /\ 3 + 1 = 4 /\ 1 \in 1..(m - 3) /\ l >= 2
          BY <4>1, <5>1
        <5> QED  BY <3>4, <3>6, <5>1
      <4>4. CASE phase' = "body" /\ b = 255 /\ prev = 255
        <5>1. l >= 2 => ~(line'[1].byte = call /\ line'[2].byte = 2)
          BY <1>0, <3>1, <3>4, <3>6, <4>2, <4>4 DEF NoAckAhead
        <5>2. ~(Len(buf') = 1) /\ ~(Len(buf') >= 2) /\ phase' # "head"
          BY <3>3, <4>4
        <5>3. NoAckAhead'
          BY <3>1, <3>2, <4>1, <5>1, <5>2, Zenon DEF NoAckAhead
        <5> QED  BY <1>2, <2>2, <3>1, <5>3, Zenon
      <4>5. CASE phase' = "head" /\ prev' = b
        <5>1. ASSUME b = 255, l >= 3, line'[1].byte = 255, line'[2].byte = call, line'[3].byte = 2
              PROVE  FALSE
          <6>1. AckAt(line, 1, call)
            <7>1. 1 + 1 = 2 /\ 1 + 2 = 3 /\ 1 + 3 = 4
              OBVIOUS
            <7>2. /\ line[1].byte = 255 /\ line[2].byte = 255 /\ line[3].byte = call
                  /\ line[4].byte = 2 /\ 1 \in 1..(Len(line) - 3)
              BY <1>0, <3>4, <3>6, <4>2, <4>3, <5>1
            <7> QED  BY <7>1, <7>2, Zenon DEF AckAt
          <6> QED  BY <6>1 DEF NoAckAhead
        <5>2. phase' # "body"
          BY <4>5
        <5>3. NoAckAhead'
          BY <3>1, <3>2, <4>1, <4>5, <5>1, <5>2, Zenon DEF NoAckAhead
        <5> QED  BY <1>2, <2>2, <3>1, <5>3, Zenon
      <4> QED  BY <3>1, <4>4, <4>5
    <3> QED  BY <1>2, <3>5, <3>6
  <2> QED  BY <2>1, <2>2
<1>3. ASSUME NEW b \in Byte, BodyByte(b), SameMark(b), Len(line) > 0,
             Len(line') = Len(line) - 1,
             \A k \in 1..(Len(line) - 1) : line'[k] = line[k + 1],
             UNCHANGED faults
      PROVE  \/ phase' # "idle" /\ UNCHANGED <<call, faults>> /\ NoAckAhead'
             \/ phase' = "idle" /\ ~result'.ok
  <2>1. phase = "body" /\ BodyLen(call) = 4 /\ ServoOf(call) = call /\ buf \in Seq(Byte)
        /\ Len(buf) \in Nat
    BY <1>3 DEF BodyByte, BodyLen, ServoOf, IsWrite, TypeOK
  <2>2. /\ Len(Append(buf, b)) = Len(buf) + 1
        /\ \A k \in 1..Len(buf) : Append(buf, b)[k] = buf[k]
        /\ Append(buf, b)[Len(buf) + 1] = b
    BY <2>1, AppendProperties
  <2>3. CASE Len(buf) + 1 < 4
    <3>1. buf' = Append(buf, b) /\ call' = call /\ phase' = "body"
      BY <1>3, <2>1, <2>3 DEF BodyByte
    <3>2. \A k \in Nat : ~AckAt(line', k, call')
      <4>1. ASSUME NEW k \in Nat, AckAt(line', k, call) PROVE AckAt(line, k + 1, call)
        BY <1>3, <4>1, AckWasThere DEF ByteTaken
      <4> QED  BY <3>1, <4>1 DEF NoAckAhead
    <3>3. PICK m \in Nat, l \in Int, n \in Nat, n1 \in Nat :
            /\ m = Len(line) /\ l = Len(line') /\ l = m - 1
            /\ n = Len(buf) /\ n1 = Len(buf') /\ n1 = n + 1
      BY <1>3, <2>1, <2>2, <3>1 DEF TypeOK
    <3>4. n1 # 0
      BY <3>3
    <3>5. ASSUME n1 = 1, l >= 1, buf'[1] = call, line'[1].byte = 2 PROVE FALSE
      <4>1. n = 0 /\ m >= 2 /\ 1 \in 1..(m - 1) /\ n + 1 = 1 /\ 1 + 1 = 2
        BY <3>3, <3>5
      <4>2. line'[1] = line[2] /\ buf'[1] = b
        BY <1>3, <2>2, <3>1, <3>3, <4>1
      <4>3. n = 0 /\ m >= 2 => ~(line[1].byte = call /\ line[2].byte = 2)
        BY <2>1, <3>3, Zenon DEF NoAckAhead
      <4> QED  BY <1>0, <1>3, <3>5, <4>1, <4>2, <4>3, Zenon
    <3>6. ASSUME n1 >= 2, buf'[1] = call, buf'[2] = 2 PROVE FALSE
      <4>1. n = 1 \/ n >= 2
        BY <3>3, <3>6
      <4>2. CASE n = 1
        <5>1. m >= 1 /\ 1 \in 1..n /\ n + 1 = 2
          BY <1>3, <3>3, <4>2
        <5>2. buf'[1] = buf[1] /\ buf'[2] = b
          BY <2>2, <3>1, <3>3, <5>1
        <5>3. n = 1 /\ m >= 1 => ~(buf[1] = call /\ line[1].byte = 2)
          BY <2>1, <3>3, Zenon DEF NoAckAhead
        <5> QED  BY <1>0, <1>3, <3>6, <4>2, <5>1, <5>2, <5>3, Zenon
      <4>3. CASE n >= 2
        <5>1. 1 \in 1..n /\ 2 \in 1..n
          BY <3>3, <4>3
        <5>2. buf'[1] = buf[1] /\ buf'[2] = buf[2]
          BY <2>2, <3>1, <3>3, <5>1
        <5>3. n >= 2 => ~(buf[1] = call /\ buf[2] = 2)
          BY <2>1, <3>3, Zenon DEF NoAckAhead
        <5> QED  BY <3>6, <4>3, <5>2, <5>3, Zenon
      <4> QED  BY <4>1, <4>2, <4>3
    <3>7. phase' # "head" /\ phase' # "idle"
      BY <3>1
    <3>8. NoAckAhead'
      BY <3>1, <3>2, <3>3, <3>4, <3>5, <3>6, <3>7, Zenon DEF NoAckAhead
    <3> QED  BY <1>3, <3>1, <3>7, <3>8, Zenon
  <2>4. CASE ~(Len(buf) + 1 < 4)
    <3>1. Len(buf) = 3 /\ Finish(Append(buf, b))
      <4>1. ~(Len(buf) + 1 < BodyLen(call))
        BY <2>1, <2>4, Zenon
      <4>2. Len(buf) + 1 = BodyLen(call) /\ Finish(Append(buf, b))
        BY <1>3, <4>1, Zenon DEF BodyByte
      <4>3. PICK n \in Nat : n = Len(buf)
        BY <2>1
      <4>4. n + 1 = 4
        BY <2>1, <4>2, <4>3, Zenon
      <4>5. n = 3
        BY <4>4
      <4> QED  BY <4>2, <4>3, <4>5, Zenon
    <3>2. Append(buf, b)[1] = buf[1] /\ Append(buf, b)[2] = buf[2]
      BY <2>2, <3>1
    <3>3. ~(buf[1] = call /\ buf[2] = 2)
      BY <2>1, <3>1 DEF NoAckAhead
    <3>4. Return(Acked(Append(buf, b)), 0)
      BY <3>1 DEF Finish
    <3>5. Acked(Append(buf, b)) = FALSE
      BY <2>1, <3>2, <3>3, Zenon DEF Acked
    <3> QED  BY <3>4, <3>5 DEF Return
  <2> QED  BY <2>3, <2>4
<1>4. CASE ~GiveUp
  <2>1. ~(faults' = faults + 1 /\ faults' <= MaxFaults)
    BY BoundsAssumption
  <2>2. PICK b \in Byte :
          /\ HeadByte(b) \/ BodyByte(b)
          /\ \/ /\ SameMark(b)
                /\ Len(line) > 0 /\ Len(line') = Len(line) - 1
                /\ \A k \in 1..(Len(line) - 1) : line'[k] = line[k + 1]
                /\ UNCHANGED faults
             \/ line = <<>> /\ line' = <<>> /\ phase = "head" /\ UNCHANGED faults
    <3>1. ASSUME NEW b, b = AsRead(line[1].byte) PROVE SameMark(b)
      BY <3>1, AsReadMarks DEF SameMark
    <3> QED  BY <1>4, <2>1, <3>1, ReadingSteps, Zenon
  <2>3. BodyByte(b) => phase # "head"
    BY DEF BodyByte
  <2> QED  BY <1>2, <1>3, <2>2, <2>3
<1> QED  BY <1>1, <1>4

LEMMA ToldTrueStep ==
    ASSUME MaxFaults <= 1, MaxLate <= 2
    PROVE  TypeOK /\ NothingYet /\ AcksKnown /\ ToldTrue /\ TrueAck /\ [Next]_vars
             => ToldTrue' /\ TrueAck'
<1> SUFFICES ASSUME TypeOK, NothingYet, AcksKnown, ToldTrue, TrueAck, [Next]_vars
             PROVE  ToldTrue' /\ TrueAck'
  OBVIOUS
<1>1. CASE Command
  <2>1. UNCHANGED call /\ result' = NoResult
    BY <1>1, CommandLine
  <2>2. TrueAck'
    BY <2>1 DEF TrueAck, NoResult
  <2>3. IsWrite(call) => goal'[call] = asked'[call] \/ (faults' = MaxFaults /\ NoAckAhead')
    BY <1>1, UnheardNotAcked
  <2> QED  BY <2>1, <2>2, <2>3, Zenon DEF ToldTrue
<1>2. CASE Reading
  <2>1. phase # "idle" /\ UNCHANGED <<goal, asked>>
    BY <1>2, ReadingSteps
  <2>2. NothingYet'
    BY NothingYetStep
  <2>3. \/ phase' # "idle" /\ UNCHANGED call
        \/ phase' = "idle" /\ result'.of = call
    <3>1. GiveUp \/ \E b \in Byte : HeadByte(b) \/ BodyByte(b)
      BY <1>2, ReadingSteps
    <3>2. ASSUME NEW ok, NEW pos, Return(ok, pos) PROVE phase' = "idle" /\ result'.of = call
      BY <3>2 DEF Return
    <3>3. GiveUp => \E ok, pos : Return(ok, pos)
      BY DEF GiveUp
    <3>4. ASSUME NEW b, Finish(b) PROVE \E ok, pos : Return(ok, pos)
      BY <3>3, <3>4 DEF Finish
    <3>5. ASSUME NEW b, HeadByte(b) \/ BodyByte(b)
          PROVE  (phase' # "idle" /\ UNCHANGED call) \/ \E ok, pos : Return(ok, pos)
      BY <2>1, <3>3, <3>4, <3>5 DEF HeadByte, BodyByte
    <3> QED  BY <3>1, <3>2, <3>3, <3>5
  <2>4. CASE phase' # "idle" /\ UNCHANGED call
    <3>1. TrueAck'
      BY <2>2, <2>4 DEF NothingYet, TrueAck, NoResult
    <3>2. ASSUME IsWrite(call), faults = MaxFaults, NoAckAhead
          PROVE  faults' = MaxFaults /\ NoAckAhead'
      BY <1>2, <2>4, <3>2, NotAckedMoves
    <3> QED  BY <2>1, <2>4, <3>1, <3>2, Zenon DEF ToldTrue
  <2>5. CASE phase' = "idle" /\ result'.of = call
    <3>1. ToldTrue'
      BY <2>5 DEF ToldTrue
    <3>2. ASSUME IsWrite(call), result'.ok PROVE goal[call] = asked[call]
      BY <1>2, <2>1, <2>5, <3>2, NotAckedMoves DEF ToldTrue
    <3>3. TrueAck'
      BY <2>1, <2>5, <3>2, Zenon DEF TrueAck
    <3> QED  BY <3>1, <3>3
  <2> QED  BY <2>3, <2>4, <2>5
<1>3. CASE UNCHANGED vars
  BY <1>3 DEF vars, ToldTrue, NoAckAhead, AckAt, TrueAck
<1> QED  BY <1>1, <1>2, <1>3 DEF Next

\* WritePosEx reports success only for a servo that has what it was asked to
\* take, for any positions, any byte in place of another and any noise: of the
\* answers that can meet at most one is lost, shortened or changed, and none
\* comes more than two calls late, when it would pass for the next round's.
THEOREM AckAlwaysTrue ==
    ASSUME MaxFaults <= 1, MaxLate <= 2 PROVE Spec => []TrueAck
<1>1. Init => AcksKnown /\ ToldTrue /\ TrueAck
  <2>1. Init => Len(line) = 0 /\ result = NoResult /\ phase = "idle"
    BY DEF Init
  <2>2. ASSUME Len(line) = 0, NEW k, NEW i PROVE ~AckAt(line, k, i)
    BY <2>2 DEF AckAt
  <2> QED  BY <2>1, <2>2 DEF AcksKnown, ToldTrue, TrueAck, NoResult, IsWrite
<1>2. TypeOK /\ AcksKnown /\ [Next]_vars => AcksKnown'
  BY AcksKnownStep
<1>3. TypeOK /\ NothingYet /\ AcksKnown /\ ToldTrue /\ TrueAck /\ [Next]_vars
        => ToldTrue' /\ TrueAck'
  BY ToldTrueStep
<1> QED  BY <1>1, <1>2, <1>3, AlwaysNothingYet, PTL DEF Spec

=============================================================================
