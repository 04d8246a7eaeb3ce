----------------------------- MODULE ServoCodec -----------------------------
(***************************************************************************)
(* The bytes of the servo bus (src/src/servos/SCS.cpp, SMS_STS.cpp): how a *)
(* 16-bit number is split and joined, how a signed position becomes such a *)
(* number and back, and the checksum that closes every packet.             *)
(***************************************************************************)
EXTENDS Integers, Sequences

Byte == 0..255
Word == {w \in Nat : w < 65536}

\* The positions that survive: -32768 has no sign and magnitude.
Position == {p \in Int : -32768 < p /\ p < 32768}

INST_READ == 2
INST_WRITE == 3

\* Registers of the servo.
SMS_STS_ACC == 41
SMS_STS_PRESENT_POSITION_L == 56

\* The two bytes of a word, in the order of the processor (End) or reversed.
Host2SCS(End, w) == IF End THEN <<w \div 256, w % 256>>
                           ELSE <<w % 256, w \div 256>>

SCS2Host(End, lo, hi) == IF End THEN 256 * lo + hi ELSE 256 * hi + lo

\* WritePosEx and ReadPos: the top bit says that the rest is negative.
SignedWord(p) == IF p < 0 THEN 32768 + ((-p) % 32768) ELSE p
WordSigned(w) == IF w >= 32768 THEN -(w - 32768) ELSE w

\* ~Sum of a u8.
Not8(sum) == 255 - (sum % 256)

\* What the last byte of an acknowledgement and of an answer to Read must be.
AckSum(b) == Not8(b[1] + b[2] + b[3])
ReadSum(b) == Not8(b[1] + b[2] + b[3] + b[4] + b[5])

SumOf(bytes) ==
    LET sum[k \in 0..Len(bytes)] == IF k = 0 THEN 0 ELSE sum[k - 1] + bytes[k]
    IN sum[Len(bytes)]

\* The checksum of a request: of all bytes after its header.
CheckSum(bytes) == Not8(SumOf(bytes))

\* writeBuf: a request about the registers from addr on.
writeBuf(id, addr, data, fun) ==
    LET bytes == <<id, Len(data) + 3, fun, addr>> \o data
    IN <<255, 255>> \o bytes \o <<CheckSum(bytes)>>

\* Acceleration, position, no time, speed, in this order of the registers.
PositionData(pos, speed, acc) ==
    LET p == Host2SCS(FALSE, SignedWord(pos))
        v == Host2SCS(FALSE, speed)
    IN <<acc, p[1], p[2], 0, 0, v[1], v[2]>>

-----------------------------------------------------------------------------
(* The servo: what it accepts and how it answers.                          *)

Accepts(p) ==
    /\ Len(p) > 6
    /\ p[1] = 255 /\ p[2] = 255 /\ p[4] = Len(p) - 4
    /\ p[Len(p)] = CheckSum(SubSeq(p, 3, Len(p) - 1))

AckAnswer(id) ==
    <<255, 255, id, 2, 0, Not8(id + 2 + 0)>>

PositionAnswer(id, pos) ==
    LET w == Host2SCS(FALSE, SignedWord(pos))
    IN <<255, 255, id, 4, 0, w[1], w[2], Not8(id + 4 + 0 + w[1] + w[2])>>

=============================================================================
