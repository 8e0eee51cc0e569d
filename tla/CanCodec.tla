------------------------------ MODULE CanCodec ------------------------------
(***************************************************************************)
(* How the CAN adapter lays fields into frames and J1939 parameter groups  *)
(* into identifiers (src/virtual_can.rs).  A payload of n bytes is a       *)
(* function from its 8n bit places to bits; place 8 * b + s is bit s of    *)
(* wire byte b, as in the code's bytes[p / 8] >> (p % 8).  A field is the  *)
(* sequence of places of its bits, most significant first, and a value     *)
(* the sequence of its bits.                                               *)
(***************************************************************************)
EXTENDS Integers, Sequences

FrameBytes == 8

Places(n)   == 0..(8 * n - 1)
Payloads(n) == [Places(n) -> {0, 1}]
Zeros(n)    == [p \in Places(n) |-> 0]

(* The payloads of classic CAN; not a UNION, which TLC would enumerate.    *)
AnyPayload ==
  Payloads(0) \cup Payloads(1) \cup Payloads(2) \cup Payloads(3) \cup Payloads(4)
    \cup Payloads(5) \cup Payloads(6) \cup Payloads(7) \cup Payloads(8)

(* The bits of each byte in the opposite order.                            *)
Mirror(p) == 8 * (p \div 8) + 7 - (p % 8)

(* raw_wire_position: CanComms numbers bits from the most significant of   *)
(* the first byte, in the last byte first if the frame is little-endian.   *)
RawWirePosition(k, big) ==
  LET byte == IF big THEN k \div 8 ELSE FrameBytes - 1 - k \div 8
  IN  8 * byte + 7 - (k % 8)

RawField(offset, width, big) ==
  [i \in 1..width |-> RawWirePosition(offset + i - 1, big)]

(* validate_raw_field: the offsets a payload of n bytes has.               *)
RawFits(offset, width, n, big) ==
  LET start == IF big THEN 0 ELSE 8 * (FrameBytes - n)
  IN  start <= offset /\ offset + width <= start + 8 * n

(* dbc_positions: a big-endian signal goes down each byte and on to the    *)
(* top of the next one, which is straight on with the bytes mirrored.      *)
NextBigBit(p) == IF p % 8 = 0 THEN p + 15 ELSE p - 1

DbcField(start, width, big) ==
  [i \in 1..width |-> IF big THEN Mirror(Mirror(start) + i - 1) ELSE start + width - i]

J1939Field(start, width) == [i \in 1..width |-> start + width - i]

Within(field, n) == \A i \in DOMAIN field : field[i] \in Places(n)

ReadField(payload, field) == [i \in DOMAIN field |-> payload[field[i]]]

(* Mutant: bits are only ever set.                                         *)
WriteOnes(payload, field, bits) ==
  [p \in DOMAIN payload |->
     IF \E i \in DOMAIN field : field[i] = p /\ bits[i] = 1 THEN 1 ELSE payload[p]]

WriteField(payload, field, bits) ==
  [p \in DOMAIN payload |->
     IF \E i \in DOMAIN field : field[i] = p
     THEN bits[CHOOSE i \in DOMAIN field : field[i] = p]
     ELSE payload[p]]

(* A field's places are distinct.                                          *)
Injective(field) ==
  \A i, j \in DOMAIN field : field[i] = field[j] => i = j

-----------------------------------------------------------------------------
(* The 29-bit J1939 identifier: priority, 18 bits of parameter group       *)
(* number with destination, source address.  A group whose format byte is  *)
(* below 240 (PDU1) is addressed: its low byte is the destination's.       *)
GroupSpan       == 1024 * 256    \* 18 bits
PduFormat(pgn)  == (pgn \div 256) % 256
Addressed(pgn)  == PduFormat(pgn) < 240
Groups          == {pgn \in Nat : pgn < GroupSpan /\ (Addressed(pgn) => pgn % 256 = 0)}
Broadcast       == 255
Everyone        == -1    \* the frame names no destination

(* Mutant: the destination is put into every identifier.                   *)
EncodeAlways(priority, pgn, destination, source) ==
  priority * GroupSpan * 256 + (pgn - (pgn % 256) + destination) * 256 + source

EncodeIdentifier(priority, pgn, destination, source) ==
  priority * GroupSpan * 256
    + (IF Addressed(pgn) THEN pgn - (pgn % 256) + destination ELSE pgn) * 256
    + source

DecodeIdentifier(id) ==
  LET raw == (id \div 256) % GroupSpan
  IN  [pgn         |-> IF Addressed(raw) THEN raw - (raw % 256) ELSE raw,
       source      |-> id % 256,
       destination |-> IF Addressed(raw) THEN raw % 256 ELSE Everyone]

-----------------------------------------------------------------------------
(* The weights of the bits of an identifier (spelt out: powers are beyond  *)
(* the provers), bit i of one, and the acceptance mask of a receive        *)
(* handle: a set bit of the mask is not compared.                          *)
Weights ==
  <<1, 2, 4, 8, 16, 32, 64, 128, 256, 512, 1024, 2048, 4096,
    8192, 16384, 32768, 65536, 131072, 262144, 524288, 1048576,
    2097152, 4194304, 8388608, 16777216, 33554432, 67108864, 134217728, 268435456, 536870912>>

Bit(id, i) == (id \div Weights[i + 1]) % 2

IdentifierBits(extended) == IF extended THEN 29 ELSE 11

IdentifierSpan(extended) == Weights[IdentifierBits(extended) + 1]

Accepts(match, mask, extended, id) ==
  \/ id = match
  \/ \A i \in 0..(IdentifierBits(extended) - 1) :
       Bit(mask, i) = 1 \/ Bit(id, i) = Bit(match, i)
=============================================================================
