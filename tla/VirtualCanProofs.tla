-------------------------- MODULE VirtualCanProofs --------------------------
(***************************************************************************)
(* Theorems of CanCodec, for every place, width, payload and identifier:   *)
(* the layouts of fields never fold two bits onto one place, what is       *)
(* written is read back and disturbs nothing else, and an identifier       *)
(* decodes to what was encoded.  Theorems of VirtualCan, for every         *)
(* project, scenario, script and size of the handle space: handles stand   *)
(* for what was asked, buffers hold what was last written, and the adapter *)
(* implements CanLink.                                                     *)
(***************************************************************************)
EXTENDS VirtualCan, FiniteSetTheorems, FunctionTheorems,
        WellFoundedInduction, TLAPS

-----------------------------------------------------------------------------
(* Fields and identifiers.                                                 *)

LEMMA MirrorStays ==
  ASSUME NEW p \in Nat
  PROVE  /\ Mirror(p) \in Nat
         /\ Mirror(p) \div 8 = p \div 8
         /\ Mirror(p) % 8 = 7 - (p % 8)
         /\ Mirror(Mirror(p)) = p
  BY DEF Mirror

(* The loop of dbc_positions goes straight on in mirrored bytes, which is  *)
(* how DbcField states its walk.                                           *)
THEOREM BigEndianWalk ==
  ASSUME NEW u \in Nat
  PROVE  NextBigBit(Mirror(u)) = Mirror(u + 1)
  BY DEF Mirror, NextBigBit

(* No layout of the adapter folds two bits of a field onto one place.      *)
THEOREM LayoutsAreInjective ==
  ASSUME NEW start \in Nat, NEW width \in Nat, NEW big \in BOOLEAN
  PROVE  /\ start + width <= 64 => Injective(RawField(start, width, big))
         /\ Injective(DbcField(start, width, big))
         /\ Injective(J1939Field(start, width))
<1>1. ASSUME start + width <= 64 PROVE Injective(RawField(start, width, big))
  <2> SUFFICES ASSUME NEW i \in 1..width, NEW j \in 1..width,
                      RawWirePosition(start + i - 1, big) = RawWirePosition(start + j - 1, big)
               PROVE  i = j
    BY DEF Injective, RawField
  <2> QED BY <1>1 DEF RawWirePosition, FrameBytes
<1>2. Injective(DbcField(start, width, big))
  <2> SUFFICES ASSUME NEW i \in 1..width, NEW j \in 1..width,
                      DbcField(start, width, big)[i] = DbcField(start, width, big)[j]
               PROVE  i = j
    BY DEF Injective, DbcField
  <2>1. CASE big
    <3> DEFINE at(k) == Mirror(start) + k - 1
    <3>1. \A k \in 1..width : DbcField(start, width, big)[k] = Mirror(at(k))
      BY <2>1 DEF DbcField
    <3>2. Mirror(start) \in Nat
      BY MirrorStays
    <3>3. at(i) \in Nat /\ at(j) \in Nat
      BY <3>2
    <3> HIDE DEF at
    <3>4. Mirror(at(i)) = Mirror(at(j))
      BY <3>1
    <3>5. at(i) = at(j)
      BY <3>3, <3>4, MirrorStays
    <3> QED BY <3>2, <3>5 DEF at
  <2>2. CASE ~big
    BY <2>2 DEF DbcField
  <2> QED BY <2>1, <2>2
<1>3. Injective(J1939Field(start, width))
  BY DEF Injective, J1939Field
<1> QED BY <1>1, <1>2, <1>3

(* The three layouts are one: a little-endian raw field is the Intel       *)
(* signal and the J1939 field that end where it begins, counted from the   *)
(* other end; a big-endian one is the Motorola signal of the mirrored      *)
(* start.                                                                  *)
THEOREM LayoutsAgree ==
  ASSUME NEW offset \in Nat, NEW width \in Nat, offset + width <= 64
  PROVE  /\ RawField(offset, width, FALSE) = DbcField(64 - offset - width, width, FALSE)
         /\ RawField(offset, width, FALSE) = J1939Field(64 - offset - width, width)
         /\ RawField(offset, width, TRUE) = DbcField(Mirror(offset), width, TRUE)
<1>1. ASSUME NEW i \in 1..width
      PROVE  RawWirePosition(offset + i - 1, FALSE) = 64 - offset - width + width - i
  BY DEF RawWirePosition, FrameBytes
<1>2. ASSUME NEW i \in 1..width
      PROVE  RawWirePosition(offset + i - 1, TRUE) = Mirror(offset + i - 1)
  BY DEF RawWirePosition, FrameBytes, Mirror
<1>3. Mirror(Mirror(offset)) = offset
  BY MirrorStays
<1>4. RawField(offset, width, TRUE) = DbcField(Mirror(offset), width, TRUE)
  BY <1>2, <1>3, Zenon DEF RawField, DbcField
<1> QED BY <1>1, <1>4 DEF RawField, DbcField, J1939Field

(* A raw field that passes the range check lies inside the payload.        *)
THEOREM RawFieldsFit ==
  ASSUME NEW n \in 0..8, NEW offset \in Nat, NEW width \in Nat, NEW big \in BOOLEAN,
         RawFits(offset, width, n, big)
  PROVE  Within(RawField(offset, width, big), n)
<1> SUFFICES ASSUME NEW i \in 1..width
             PROVE  RawWirePosition(offset + i - 1, big) \in Places(n)
  BY DEF Within, RawField
<1>1. CASE big
  BY <1>1 DEF RawFits, RawWirePosition, Places, FrameBytes
<1>2. CASE ~big
  BY <1>2 DEF RawFits, RawWirePosition, Places, FrameBytes
<1> QED BY <1>1, <1>2

(* What a setter wrote a getter of the same field reads, and no other      *)
(* place of the payload has changed.                                       *)
THEOREM WrittenIsRead ==
  ASSUME NEW n \in Nat, NEW payload \in Payloads(n),
         NEW width \in Nat, NEW field \in [1..width -> Places(n)], Injective(field),
         NEW bits \in [1..width -> {0, 1}]
  PROVE  LET new == WriteField(payload, field, bits)
         IN  /\ new \in Payloads(n)
             /\ ReadField(new, field) = bits
             /\ \A p \in Places(n) :
                  (\A i \in 1..width : field[i] # p) => new[p] = payload[p]
<1> DEFINE new == WriteField(payload, field, bits)
<1>1. ASSUME NEW i \in 1..width PROVE new[field[i]] = bits[i]
  <2> DEFINE at == CHOOSE j \in DOMAIN field : field[j] = field[i]
  <2>1. at \in 1..width /\ field[at] = field[i]
    OBVIOUS
  <2>2. at = i
    BY <2>1 DEF Injective
  <2>3. field[i] \in DOMAIN payload
    BY DEF Payloads
  <2>4. new[field[i]] = bits[at]
    BY <2>3 DEF WriteField
  <2> QED BY <2>2, <2>4
<1>2. ASSUME NEW p \in Places(n), \A i \in 1..width : field[i] # p
      PROVE  new[p] = payload[p]
  BY <1>2 DEF WriteField, Payloads
<1>3. ASSUME NEW p \in Places(n) PROVE new[p] \in {0, 1}
  <2>1. CASE \E i \in 1..width : field[i] = p
    BY <1>1, <2>1
  <2>2. CASE \A i \in 1..width : field[i] # p
    BY <1>2, <2>2 DEF Payloads
  <2> QED BY <2>1, <2>2
<1>4. new \in Payloads(n)
  BY <1>3 DEF WriteField, Payloads
<1>5. ReadField(new, field) = bits
  BY <1>1 DEF ReadField
<1> QED BY <1>2, <1>4, <1>5

(* The parts of a number put together from parts.                          *)
LEMMA Quotients ==
  ASSUME NEW base \in Nat \ {0}, NEW high \in Nat, NEW low \in Nat, low < base
  PROVE  /\ (high * base + low) % base = low
         /\ (high * base + low) \div base = high
  BY SMT

(* A destination fits into the low byte of an addressed group.             *)
LEMMA DestinationFits ==
  ASSUME NEW pgn \in Groups, Addressed(pgn), NEW destination \in 0..255
  PROVE  /\ pgn + destination \in Nat /\ pgn + destination < GroupSpan
         /\ (pgn + destination) \div 256 = pgn \div 256
         /\ (pgn + destination) % 256 = destination
<1> DEFINE q == pgn \div 256
<1>1. pgn \in Nat /\ pgn < GroupSpan /\ pgn % 256 = 0
  BY DEF Groups
<1>2. q \in Nat /\ pgn = q * 256
  BY <1>1
<1>3. q < 1024
  BY <1>1, <1>2 DEF GroupSpan
<1>4. pgn + destination = q * 256 + destination
  BY <1>2
<1> HIDE DEF q
<1>5. pgn + destination \in Nat /\ pgn + destination < GroupSpan
  BY <1>2, <1>3, <1>4 DEF GroupSpan
<1>6. (q * 256 + destination) % 256 = destination /\ (q * 256 + destination) \div 256 = q
  BY <1>2, Quotients
<1> QED BY <1>4, <1>5, <1>6 DEF q

(* An identifier decodes to the group, the source and, for an addressed    *)
(* group, the destination it was encoded from.                             *)
THEOREM IdentifiersDecode ==
  ASSUME NEW priority \in 0..7, NEW pgn \in Groups,
         NEW destination \in 0..255, NEW source \in 0..255
  PROVE  DecodeIdentifier(EncodeIdentifier(priority, pgn, destination, source)) =
           [pgn |-> pgn, source |-> source,
            destination |-> IF Addressed(pgn) THEN destination ELSE Everyone]
<1> DEFINE low  == IF Addressed(pgn) THEN pgn + destination ELSE pgn
           high == priority * GroupSpan + low
<1>1. /\ pgn \in Nat /\ pgn < GroupSpan
      /\ Addressed(pgn) => pgn % 256 = 0
  BY DEF Groups
<1>2. GroupSpan \in Nat \ {0} /\ priority \in Nat
  BY DEF GroupSpan
<1>3. /\ low \in Nat /\ low < GroupSpan
      /\ low \div 256 = pgn \div 256
      /\ Addressed(pgn) => low % 256 = destination
      /\ ~Addressed(pgn) => low = pgn
  <2>1. CASE Addressed(pgn)
    <3>1. /\ pgn + destination \in Nat /\ pgn + destination < GroupSpan
          /\ (pgn + destination) \div 256 = pgn \div 256
          /\ (pgn + destination) % 256 = destination
      BY <2>1, DestinationFits, ZenonT(60)
    <3>2. low = pgn + destination
      BY <2>1
    <3> HIDE DEF low
    <3> QED BY <2>1, <3>1, <3>2
  <2>2. CASE ~Addressed(pgn)
    BY <2>2, <1>1
  <2> QED BY <2>1, <2>2
<1>4. Addressed(low) <=> Addressed(pgn)
  BY <1>3 DEF Addressed, PduFormat
<1>5. Addressed(pgn) => low - (low % 256) = pgn
  BY <1>1, <1>3
<1>6. EncodeIdentifier(priority, pgn, destination, source) = high * 256 + source
  <2>1. priority * GroupSpan * 256 + low * 256 = high * 256
    BY <1>2, <1>3
  <2>2. EncodeIdentifier(priority, pgn, destination, source)
          = priority * GroupSpan * 256 + low * 256 + source
    BY <1>1 DEF EncodeIdentifier
  <2> QED BY <2>1, <2>2
<1> HIDE DEF low
<1>7. high \in Nat /\ high % GroupSpan = low
  <2>1. high \in Nat
    BY <1>2, <1>3
  <2>2. (priority * GroupSpan + low) % GroupSpan = low
    BY <1>2, <1>3, Quotients
  <2> QED BY <2>1, <2>2
<1> HIDE DEF high
<1>8. (high * 256 + source) % 256 = source /\ (high * 256 + source) \div 256 = high
  BY <1>7, Quotients
<1> QED BY <1>3, <1>4, <1>5, <1>6, <1>7, <1>8 DEF DecodeIdentifier


-----------------------------------------------------------------------------
(* Payloads.                                                               *)

LEMMA PayloadOfSomeLength ==
  ASSUME NEW payload
  PROVE  payload \in AnyPayload <=> \E n \in 0..FrameBytes : payload \in Payloads(n)
<1>1. \A n \in 0..FrameBytes : n \in {0, 1, 2, 3, 4, 5, 6, 7, 8}
  BY DEF FrameBytes
<1>2. \A n \in {0, 1, 2, 3, 4, 5, 6, 7, 8} : n \in 0..FrameBytes
  BY DEF FrameBytes
<1> QED BY <1>1, <1>2, Zenon DEF AnyPayload

LEMMA ZerosArePayload ==
  ASSUME NEW n \in 0..FrameBytes
  PROVE  Zeros(n) \in AnyPayload
<1>1. Zeros(n) \in Payloads(n)
  BY DEF Zeros, Payloads
<1> QED BY <1>1, PayloadOfSomeLength

LEMMA WrittenIsPayload ==
  ASSUME NEW payload \in AnyPayload, NEW field, NEW bits \in [DOMAIN field -> Bits]
  PROVE  WriteField(payload, field, bits) \in AnyPayload
<1>1. PICK n \in 0..FrameBytes : payload \in Payloads(n)
  BY PayloadOfSomeLength
<1>2. ASSUME NEW p \in DOMAIN payload
      PROVE  WriteField(payload, field, bits)[p] \in {0, 1}
  <2>1. CASE \E i \in DOMAIN field : field[i] = p
    <3> DEFINE at == CHOOSE i \in DOMAIN field : field[i] = p
    <3>1. at \in DOMAIN field
      BY <2>1
    <3>2. WriteField(payload, field, bits)[p] = bits[at]
      BY <2>1 DEF WriteField
    <3> QED BY <3>1, <3>2 DEF Bits
  <2>2. CASE ~\E i \in DOMAIN field : field[i] = p
    BY <1>1, <2>2 DEF WriteField, Payloads
  <2> QED BY <2>1, <2>2
<1>3. WriteField(payload, field, bits) \in Payloads(n)
  BY <1>1, <1>2 DEF WriteField, Payloads
<1> QED BY <1>3, PayloadOfSomeLength

-----------------------------------------------------------------------------
(* The order of arrivals.                                                  *)

(* A non-empty set of naturals has a least element.                        *)
LEMMA LeastOf ==
  ASSUME NEW S \in SUBSET Nat, S # {}
  PROVE  \E i \in S : \A j \in S : i <= j
<1> DEFINE R == OpToRel(<, Nat)
<1>1. IsWellFoundedOn(R, Nat)
  BY NatLessThanWellFounded
<1>2. \A i, j \in Nat : <<i, j>> \in R <=> i < j
  BY DEF OpToRel
<1> HIDE DEF R
<1>3. PICK i \in S : \A j \in S : ~(<<j, i>> \in R)
  BY <1>1, WFMin
<1>4. ASSUME NEW j \in S PROVE i <= j
  <2>1. i \in Nat /\ j \in Nat
    OBVIOUS
  <2>2. ~(j < i)
    BY <1>2, <1>3, <2>1
  <2> QED BY <2>1, <2>2
<1> QED BY <1>4

LEMMA UpTo ==
  ASSUME NEW c \in Nat
  PROVE  IsFiniteSet(1..c) /\ Cardinality(1..c) = c
<1>1. PICK b \in Int : b = 1
  OBVIOUS
<1>2. c \in Int /\ (b <= c + 1) /\ (b > c => c = 0)
  BY <1>1
<1>3. IsFiniteSet(b..c) /\ Cardinality(b..c) = IF b > c THEN 0 ELSE c - b + 1
  BY <1>1, <1>2, FS_Interval
<1> QED BY <1>1, <1>2, <1>3

(* Places in a list whose entries have times.                              *)
Timed(rx, S) == IsFiniteSet(S) /\ S \subseteq Nat /\ \A i \in S : rx[i].time \in Int

LEMMA EarlierIsOrder ==
  ASSUME NEW rx, NEW S, Timed(rx, S), NEW i \in S, NEW j \in S
  PROVE  /\ ~Earlier(rx, i, i)
         /\ Earlier(rx, i, j) \/ Earlier(rx, j, i) \/ i = j
         /\ ~(Earlier(rx, i, j) /\ Earlier(rx, j, i))
<1>1. \A k \in S : k \in Nat /\ rx[k].time \in Int
  BY DEF Timed
<1> QED BY <1>1 DEF Earlier

LEMMA EarlierGoesOn ==
  ASSUME NEW rx, NEW S, Timed(rx, S), NEW i \in S, NEW j \in S, NEW k \in S,
         Earlier(rx, i, j), Earlier(rx, j, k)
  PROVE  Earlier(rx, i, k)
<1>1. \A l \in S : l \in Nat /\ rx[l].time \in Int
  BY DEF Timed
<1> QED BY <1>1 DEF Earlier

(* How many places of D come before i.                                     *)
Before(rx, D, i) == {j \in D : Earlier(rx, j, i)}
Rank(rx, D, i) == Cardinality(Before(rx, D, i))

LEMMA RanksAscend ==
  ASSUME NEW rx, NEW S, Timed(rx, S), NEW D \in SUBSET S, NEW i \in D, NEW j \in D
  PROVE  /\ Rank(rx, D, i) \in 0..(Cardinality(D) - 1)
         /\ Earlier(rx, i, j) => Rank(rx, D, i) < Rank(rx, D, j)
<1>1. IsFiniteSet(D)
  BY FS_Subset DEF Timed
<1>2. ASSUME NEW k \in D
      PROVE  /\ Before(rx, D, k) \in SUBSET D
             /\ k \notin Before(rx, D, k)
             /\ IsFiniteSet(Before(rx, D, k)) /\ Rank(rx, D, k) \in Nat
  <2>1. Before(rx, D, k) \in SUBSET D /\ k \notin Before(rx, D, k)
    BY EarlierIsOrder DEF Before
  <2> QED BY <1>1, <2>1, FS_Subset, FS_CardinalityType DEF Rank
<1>3. Rank(rx, D, i) \in 0..(Cardinality(D) - 1)
  <2>1. Cardinality(D) \in Nat
    BY <1>1, FS_CardinalityType
  <2>2. Rank(rx, D, i) <= Cardinality(D) /\ Rank(rx, D, i) # Cardinality(D)
    BY <1>1, <1>2, FS_Subset DEF Rank
  <2> QED BY <1>2, <2>1, <2>2
<1>4. ASSUME Earlier(rx, i, j) PROVE Rank(rx, D, i) < Rank(rx, D, j)
  <2>1. Before(rx, D, i) \in SUBSET Before(rx, D, j)
    <3> SUFFICES ASSUME NEW k \in D, Earlier(rx, k, i) PROVE Earlier(rx, k, j)
      BY DEF Before
    <3> QED BY <1>4, EarlierGoesOn
  <2>2. i \in Before(rx, D, j) /\ i \notin Before(rx, D, i)
    BY <1>2, <1>4 DEF Before
  <2>3. Rank(rx, D, i) <= Rank(rx, D, j) /\ Rank(rx, D, i) # Rank(rx, D, j)
    BY <1>2, <2>1, <2>2, FS_Subset DEF Rank
  <2> QED BY <1>2, <2>3
<1> QED BY <1>3, <1>4

(* p lists S in the order of time, each place once.                        *)
Lists(rx, p, S) ==
  /\ Timed(rx, S) /\ Cardinality(S) \in Nat
  /\ p \in [1..Cardinality(S) -> S] /\ Ascending(rx, p, Cardinality(S))
  /\ \A m, n \in 1..Cardinality(S) : p[m] = p[n] => m = n
  /\ \A i \in S : \E m \in 1..Cardinality(S) : p[m] = i

(* As many ranks as places: the place of each rank is a listing.           *)
LEMMA ListingExists ==
  ASSUME NEW rx, NEW S, Timed(rx, S)
  PROVE  \E p : p \in Listings(rx, S)
<1> PICK c : c = Cardinality(S)
  OBVIOUS
<1>1. c \in Nat /\ IsFiniteSet(S) /\ S \in SUBSET S
  BY FS_CardinalityType DEF Timed
<1>2. IsFiniteSet(0..(c - 1)) /\ Cardinality(0..(c - 1)) = c
  <2> PICK d \in Int : d = c - 1
    BY <1>1
  <2> PICK b \in Int : b = 0
    OBVIOUS
  <2>1. IsFiniteSet(b..d) /\ Cardinality(b..d) = IF b > d THEN 0 ELSE d - b + 1
    BY FS_Interval
  <2> QED BY <1>1, <2>1
<1> DEFINE f == [i \in S |-> Rank(rx, S, i)]
<1>3. \A i, j \in S : f[i] \in 0..(c - 1) /\ (f[i] = f[j] => i = j)
  <2> SUFFICES ASSUME NEW i \in S, NEW j \in S
               PROVE  f[i] \in 0..(c - 1) /\ (f[i] = f[j] => i = j)
    OBVIOUS
  <2>1. /\ f[i] \in 0..(c - 1) /\ f[j] \in 0..(c - 1)
        /\ Earlier(rx, i, j) => f[i] < f[j]
        /\ Earlier(rx, j, i) => f[j] < f[i]
    BY <1>1, RanksAscend
  <2> QED BY <1>1, <2>1, EarlierIsOrder
<1>4. f \in Surjection(S, 0..(c - 1))
  <2>1. f \in [S -> 0..(c - 1)]
    BY <1>3
  <2>2. f \in Injection(S, 0..(c - 1))
    BY <1>3, <2>1 DEF Injection, IsInjective
  <2> HIDE DEF f
  <2> QED BY <1>2, <2>2, FS_Injection
<1>5. \A n \in 1..c : \E i \in S : f[i] = n - 1
  <2> SUFFICES ASSUME NEW n \in 1..c PROVE \E i \in S : f[i] = n - 1
    OBVIOUS
  <2>1. n - 1 \in 0..(c - 1)
    BY <1>1
  <2> HIDE DEF f
  <2> QED BY <1>4, <2>1 DEF Surjection
<1> DEFINE p == [n \in 1..c |-> CHOOSE i \in S : f[i] = n - 1]
<1>6. \A n \in 1..c : p[n] \in S /\ f[p[n]] = n - 1
  BY <1>5
<1>7. p \in [1..c -> S]
  BY <1>6
<1>8. ASSUME NEW m \in 1..c, NEW n \in 1..c, m < n PROVE Earlier(rx, p[m], p[n])
  <2> PICK i \in S : i = p[m] /\ f[i] = m - 1
    BY <1>6
  <2> PICK j \in S : j = p[n] /\ f[j] = n - 1
    BY <1>6
  <2> HIDE DEF p
  <2>1. f[i] < f[j]
    BY <1>1, <1>8
  <2>2. ~(f[j] < f[i]) /\ i # j
    BY <1>3, <2>1
  <2>3. ~Earlier(rx, j, i)
    BY <1>1, <2>2, RanksAscend
  <2> QED BY <2>2, <2>3, EarlierIsOrder
<1> HIDE DEF p
<1>9. p \in [1..Cardinality(S) -> S] /\ Ascending(rx, p, Cardinality(S))
  BY <1>7, <1>8 DEF Ascending
<1> QED BY <1>9 DEF Listings

(* A listing leaves no place out, as it has one for each.                  *)
LEMMA SortedLists ==
  ASSUME NEW rx, NEW S, Timed(rx, S)
  PROVE  Lists(rx, Sorted(rx, S), S)
<1> PICK c : c = Cardinality(S)
  OBVIOUS
<1>1. c \in Nat /\ IsFiniteSet(1..c) /\ Cardinality(1..c) = c /\ IsFiniteSet(S)
  BY FS_CardinalityType, UpTo DEF Timed
<1> PICK p : p = Sorted(rx, S)
  OBVIOUS
<1>2. p \in [1..c -> S] /\ Ascending(rx, p, c)
  BY ListingExists DEF Sorted, Listings
<1>3. \A m, n \in 1..c : p[m] = p[n] => m = n
  <2> SUFFICES ASSUME NEW m \in 1..c, NEW n \in 1..c, p[m] = p[n] PROVE m = n
    OBVIOUS
  <2>1. p[m] \in S /\ ~Earlier(rx, p[m], p[m])
    BY <1>2, EarlierIsOrder
  <2>2. ~(m < n) /\ ~(n < m)
    BY <1>2, <2>1 DEF Ascending
  <2> QED BY <1>1, <2>2
<1>4. p \in Surjection(1..c, S)
  <2>1. p \in Injection(1..c, S)
    BY <1>2, <1>3 DEF Injection, IsInjective
  <2> QED BY <1>1, <2>1, FS_Injection
<1> QED BY <1>1, <1>2, <1>3, <1>4 DEF Lists, Surjection

(* validated_injections gives each declared frame, in the listed order.    *)
LEMMA FramesAreSorted ==
  ASSUME NEW rx, rx \in Seq(Frame), NEW q, q = Sorted(rx, DOMAIN rx)
  PROVE  /\ Lists(rx, q, DOMAIN rx) /\ Cardinality(DOMAIN rx) = Len(rx)
         /\ InTimeOrder(rx) \in Seq(Frame) /\ Len(InTimeOrder(rx)) = Len(rx)
         /\ \A n \in 1..Len(rx) : q[n] \in 1..Len(rx) /\ InTimeOrder(rx)[n] = rx[q[n]]
<1> PICK N \in Nat : N = Len(rx)
  OBVIOUS
<1>1. DOMAIN rx = 1..N /\ \A i \in 1..N : rx[i] \in Frame
  OBVIOUS
<1>2. IsFiniteSet(1..N) /\ Cardinality(1..N) = N
  BY UpTo
<1>3. \A i \in 1..N : rx[i].time \in Int
  BY <1>1 DEF Frame
<1>4. Lists(rx, q, 1..N)
  BY <1>1, <1>2, <1>3, SortedLists DEF Timed
<1>5. q \in [1..N -> 1..N]
  BY <1>2, <1>4 DEF Lists
<1>6. InTimeOrder(rx) = [n \in 1..N |-> rx[q[n]]]
  BY <1>1 DEF InTimeOrder
<1>7. \A n \in 1..N : rx[q[n]] \in Frame
  BY <1>1, <1>5
<1>8. InTimeOrder(rx) \in Seq(Frame) /\ Len(InTimeOrder(rx)) = N
  BY <1>6, <1>7
<1> QED BY <1>1, <1>2, <1>4, <1>5, <1>6, <1>8

-----------------------------------------------------------------------------
(* Types.                                                                  *)

(* The frame a reader gets next is one it hears, behind its cursor and due.*)
LEMMA NextIsDue ==
  ASSUME TypeOK, NEW r, ReadingOf(r).cursor \in Nat, NextInjection(r) # 0
  PROVE  /\ NextInjection(r) \in DOMAIN injections
         /\ injections[NextInjection(r)] \in Frame
         /\ NextInjection(r) \in Nat /\ NextInjection(r) > ReadingOf(r).cursor
         /\ injections[NextInjection(r)].time <= now * Grain
         /\ Hears(r, injections[NextInjection(r)])
<1> DEFINE cursor == ReadingOf(r).cursor
           next   == {i \in DOMAIN injections :
                        /\ i > cursor
                        /\ \A j \in (cursor + 1)..i : injections[j].time <= now * Grain
                        /\ Hears(r, injections[i])}
<1>1. injections \in Seq(Frame)
  BY DEF TypeOK
<1>2. DOMAIN injections = 1..Len(injections) /\ Len(injections) \in Nat
  BY <1>1
<1>3. next # {}
  BY DEF NextInjection
<1>4. \E i \in next : \A j \in next : i <= j
  <2>1. next \in SUBSET Nat
    BY <1>2
  <2> HIDE DEF next
  <2> QED BY <1>3, <2>1, LeastOf
<1>5. NextInjection(r) \in next
  BY <1>3, <1>4 DEF NextInjection
<1>6. NextInjection(r) \in (cursor + 1)..NextInjection(r)
  BY <1>2, <1>5
<1> QED BY <1>1, <1>2, <1>5, <1>6

LEMMA TakenIsReading ==
  ASSUME TypeOK, NEW i \in DOMAIN injections
  PROVE  Take(i) \in Reading
<1>1. i \in Nat /\ injections[i] \in Frame
  BY DEF TypeOK
<1>2. injections[i].time \in Nat
  BY <1>1 DEF Frame
<1>3. ArrivalTick(injections[i].time) \in Nat
  <2>1. Grain \in Nat /\ Grain > 0
    BY VirtualCanAssumption
  <2>2. ASSUME NEW time \in Nat PROVE time \div Grain \in Nat
    BY <2>1
  <2> QED BY <1>2, <2>2 DEF ArrivalTick
<1> QED BY <1>1, <1>3 DEF Take, Reading, Received

LEMMA InitTypes == Init => TypeOK
<1> SUFFICES ASSUME Init PROVE TypeOK
  OBVIOUS
<1>1. Opened = {} /\ DOMAIN siteHandles = {} /\ DOMAIN buses = {} /\ DOMAIN modules = {}
  BY DEF Init, Opened
<1>2. injections \in Seq(Frame)
  BY FramesAreSorted, VirtualCanAssumption DEF Init
<1>3. now \in 0..LastTick /\ nextHandle \in 1..MaxHandle
  BY VirtualCanAssumption DEF Init
<1>4. dbcRx \in [Messages -> Reading]
  BY DEF Init, Unread, Reading
<1>5. /\ buses \in [DOMAIN buses -> Bauds \cup {None}]
      /\ modules \in [DOMAIN modules -> Buses]
      /\ handles \in [Opened -> HandleStates]
      /\ siteHandles \in [DOMAIN siteHandles -> Opened]
  BY <1>1 DEF Init
<1> QED BY <1>1, <1>2, <1>3, <1>4, <1>5 DEF Init, TypeOK

(* A step that gives one handle a new state.                               *)
LEMMA NewStateKeepsTypes ==
  ASSUME TypeOK, NEW h \in Opened, NEW state \in HandleStates,
         state.config \in Configs[state.kind],
         handles' = [handles EXCEPT ![h] = state],
         UNCHANGED <<injections, now, lines, owned, dbcRx, phase>>
  PROVE  TypeOK'
<1>1. Opened' = Opened
  BY DEF Opened
<1>2. handles' \in [Opened -> HandleStates]
  BY DEF TypeOK
<1>3. ASSUME NEW g \in Opened PROVE handles'[g].config \in Configs[handles'[g].kind]
  <2>1. CASE g = h
    BY <2>1 DEF TypeOK
  <2>2. CASE g # h
    BY <2>2 DEF TypeOK
  <2> QED BY <2>1, <2>2
<1> QED BY <1>1, <1>2, <1>3 DEF TypeOK, lines, owned

LEMMA ElapseKeepsTypes == TypeOK /\ Elapse => TypeOK'
<1> SUFFICES ASSUME TypeOK, Elapse PROVE TypeOK'
  OBVIOUS
<1>1. now' \in 0..LastTick
  BY VirtualCanAssumption DEF TypeOK, Elapse
<1> QED BY <1>1 DEF TypeOK, Elapse, lines, owned, Opened

LEMMA BusesGrow ==
  ASSUME TypeOK, NEW bus \in Buses, NEW baud \in Bauds \cup {None}
  PROVE  /\ DOMAIN Put(buses, bus, baud) \subseteq Buses
         /\ Put(buses, bus, baud)
              \in [DOMAIN Put(buses, bus, baud) -> Bauds \cup {None}]
         /\ DOMAIN Initialised(bus) \subseteq Buses
         /\ Initialised(bus) \in [DOMAIN Initialised(bus) -> Bauds \cup {None}]
<1>1. ASSUME NEW rate \in Bauds \cup {None}
      PROVE  /\ DOMAIN Put(buses, bus, rate) \subseteq Buses
             /\ Put(buses, bus, rate)
                  \in [DOMAIN Put(buses, bus, rate) -> Bauds \cup {None}]
  BY DEF TypeOK, Put
<1> QED BY <1>1 DEF Initialised, TypeOK

LEMMA InitBusKeepsTypes ==
  ASSUME TypeOK, NEW bus \in Buses, NEW baud \in Bauds, InitBus(bus, baud)
  PROVE  TypeOK'
<1>1. DOMAIN buses' \subseteq Buses /\ buses' \in [DOMAIN buses' -> Bauds \cup {None}]
  BY BusesGrow DEF InitBus
<1> QED BY <1>1 DEF TypeOK, InitBus, owned, Opened

LEMMA InitModuleKeepsTypes ==
  ASSUME TypeOK, NEW m \in Modules, NEW bus \in Buses, InitModule(m, bus)
  PROVE  TypeOK'
<1>1. DOMAIN buses' \subseteq Buses /\ buses' \in [DOMAIN buses' -> Bauds \cup {None}]
  BY BusesGrow DEF InitModule
<1>2. DOMAIN modules' \subseteq Modules /\ modules' \in [DOMAIN modules' -> Buses]
  BY DEF TypeOK, InitModule, Put
<1> QED BY <1>1, <1>2 DEF TypeOK, InitModule, owned, Opened

LEMMA FreshIsState ==
  ASSUME NEW kind \in Kinds, NEW config \in Configs[kind]
  PROVE  Fresh(kind, config) \in HandleStates
<1>1. config \in UNION {Configs[k] : k \in Kinds}
  OBVIOUS
<1>2. Fresh(kind, config).bytes \in AnyPayload \cup {None}
  <2>1. CASE kind = "txGroup"
    <3>1. config \in LegalConfigs["txGroup"]
      BY <2>1, VirtualCanAssumption
    <3>2. config.length \in 0..FrameBytes
      BY <3>1 DEF LegalConfigs, FrameBytes
    <3> QED BY <2>1, <3>2, ZerosArePayload DEF Fresh
  <2>2. CASE kind # "txGroup"
    BY <2>2 DEF Fresh
  <2> QED BY <2>1, <2>2
<1>3. 0 \in 0..(MaxHandle - 1) /\ 0 \in 0..MaxCount
  BY VirtualCanAssumption
<1>4. Unread \in Reading
  BY DEF Unread, Reading
<1> HIDE DEF Unread
<1> QED BY <1>1, <1>2, <1>3, <1>4 DEF Fresh, HandleStates

LEMMA OpenKeepsTypes ==
  ASSUME TypeOK, NEW site \in Sites, NEW config \in Configs[site[2]], Open(site, config)
  PROVE  TypeOK'
<1> DEFINE kind == site[2]
<1>1. kind \in Kinds
  BY DEF Sites
<1>2. DOMAIN buses' \subseteq Buses /\ buses' \in [DOMAIN buses' -> Bauds \cup {None}]
  <2>1. CASE kind = "node"
    <3>1. config \in LegalConfigs["node"]
      BY <1>1, <2>1, VirtualCanAssumption
    <3>2. config.bus \in Buses
      BY <3>1 DEF LegalConfigs
    <3> QED BY <2>1, <3>2, BusesGrow DEF Open
  <2>2. CASE kind # "node"
    BY <2>2 DEF Open, TypeOK
  <2> QED BY <2>1, <2>2
<1>3. CASE site \in DOMAIN siteHandles
  BY <1>2, <1>3 DEF Open, TypeOK, owned, Opened
<1>4. CASE site \notin DOMAIN siteHandles
  <2>1. /\ nextHandle < MaxHandle
        /\ siteHandles' = Put(siteHandles, site, nextHandle)
        /\ handles' = Put(handles, nextHandle, Fresh(kind, config))
        /\ nextHandle' = nextHandle + 1
        /\ UNCHANGED <<injections, now, modules, dbcRx, phase>>
    BY <1>4 DEF Open
  <2>2. nextHandle \in 1..(MaxHandle - 1) /\ nextHandle' \in 1..MaxHandle
    BY <2>1, VirtualCanAssumption DEF TypeOK
  <2>3. Opened' = Opened \cup {nextHandle}
    BY <2>1 DEF Opened, Put
  <2>4. Fresh(kind, config) \in HandleStates
    BY <1>1, FreshIsState
  <2>5. handles' \in [Opened' -> HandleStates]
    BY <2>1, <2>3, <2>4 DEF TypeOK, Put, Opened
  <2>6. ASSUME NEW h \in Opened' PROVE handles'[h].config \in Configs[handles'[h].kind]
    <3>1. CASE h = nextHandle
      BY <2>1, <3>1 DEF Put, Fresh
    <3>2. CASE h # nextHandle
      BY <2>1, <2>3, <3>2 DEF TypeOK, Put, Opened
    <3> QED BY <3>1, <3>2
  <2>7. /\ DOMAIN siteHandles' \subseteq Sites
        /\ siteHandles' \in [DOMAIN siteHandles' -> Opened']
    BY <2>1, <2>3 DEF TypeOK, Put
  <2>8. Opened' \subseteq 1..(MaxHandle - 1)
    BY <2>2, <2>3 DEF TypeOK
  <2> QED BY <1>2, <2>1, <2>2, <2>5, <2>6, <2>7, <2>8 DEF TypeOK
<1> QED BY <1>3, <1>4

LEMMA RegisterKeepsTypes ==
  ASSUME TypeOK, NEW h \in Opened, NEW node \in Opened, Register(h, node)
  PROVE  TypeOK'
<1> DEFINE state == [handles[h] EXCEPT !.node = node]
<1>1. handles[h] \in HandleStates /\ handles[h].config \in Configs[handles[h].kind]
  BY DEF TypeOK
<1>2. node \in 0..(MaxHandle - 1)
  BY VirtualCanAssumption DEF TypeOK
<1>3. /\ state \in HandleStates
      /\ state.config \in Configs[state.kind]
  BY <1>1, <1>2 DEF HandleStates
<1>4. handles' = [handles EXCEPT ![h] = state]
  BY DEF Register
<1> HIDE DEF state
<1> QED BY <1>3, <1>4, NewStateKeepsTypes DEF Register

LEMMA DTCSetActiveKeepsTypes ==
  ASSUME TypeOK, NEW h \in Opened, NEW node \in Opened, DTCSetActive(h, node)
  PROVE  TypeOK'
<1> DEFINE count == IF handles[h].active \/ handles[h].count = MaxCount
                    THEN handles[h].count ELSE handles[h].count + 1
           state == [handles[h] EXCEPT !.active = TRUE, !.count = count]
<1>1. handles[h] \in HandleStates /\ handles[h].config \in Configs[handles[h].kind]
  BY DEF TypeOK
<1>2. count \in 0..MaxCount
  BY <1>1, VirtualCanAssumption DEF HandleStates
<1>3. handles' = [handles EXCEPT ![h] = state]
  BY <1>1 DEF DTCSetActive, HandleStates
<1> HIDE DEF count
<1>4. /\ state \in HandleStates
      /\ state.config \in Configs[state.kind]
  BY <1>1, <1>2 DEF HandleStates
<1> HIDE DEF state
<1> QED BY <1>3, <1>4, NewStateKeepsTypes DEF DTCSetActive

LEMMA DTCSetInactiveKeepsTypes ==
  ASSUME TypeOK, NEW h \in Opened, NEW node \in Opened, DTCSetInactive(h, node)
  PROVE  TypeOK'
<1> DEFINE state == [handles[h] EXCEPT !.active = FALSE]
<1>1. handles[h] \in HandleStates /\ handles[h].config \in Configs[handles[h].kind]
  BY DEF TypeOK
<1>2. /\ state \in HandleStates
      /\ state.config \in Configs[state.kind]
  BY <1>1 DEF HandleStates
<1>3. handles' = [handles EXCEPT ![h] = state]
  BY DEF DTCSetInactive
<1> HIDE DEF state
<1> QED BY <1>2, <1>3, NewStateKeepsTypes DEF DTCSetInactive

(* Every handle and every message has a cursor.                            *)
LEMMA ReadersHaveCursors ==
  ASSUME TypeOK, NEW r \in Opened \cup Messages
  PROVE  /\ ReadingOf(r) \in Reading
         /\ ReadingOf(r).cursor \in Nat
<1>1. CASE r \in Messages
  BY <1>1 DEF ReadingOf, TypeOK, Reading
<1>2. CASE r \notin Messages
  <2>1. handles[r] \in HandleStates
    BY <1>2 DEF TypeOK
  <2> QED BY <1>2, <2>1 DEF ReadingOf, HandleStates, Reading
<1> QED BY <1>1, <1>2

LEMMA ReceiveKeepsTypes ==
  ASSUME TypeOK, NEW h \in Opened, Receive(h)
  PROVE  TypeOK'
<1> DEFINE next  == NextInjection(h)
           state == [handles[h] EXCEPT !.reading = Take(next)]
<1>1. handles[h] \in HandleStates /\ handles[h].config \in Configs[handles[h].kind]
  BY DEF TypeOK
<1>2. next # 0
  BY DEF Receive
<1>3. next \in DOMAIN injections
  BY <1>2, NextIsDue, ReadersHaveCursors
<1>4. Take(next) \in Reading
  BY <1>3, TakenIsReading
<1>5. handles' = [handles EXCEPT ![h] = state]
  BY DEF Receive
<1> HIDE DEF next
<1>6. /\ state \in HandleStates
      /\ state.config \in Configs[state.kind]
  BY <1>1, <1>4 DEF HandleStates
<1> HIDE DEF state
<1> QED BY <1>5, <1>6, NewStateKeepsTypes DEF Receive

LEMMA DbcReceiveKeepsTypes ==
  ASSUME TypeOK, NEW m \in Messages, DbcReceive(m)
  PROVE  TypeOK'
<1> DEFINE next == NextInjection(m)
<1>1. next # 0
  BY DEF DbcReceive
<1>2. next \in DOMAIN injections
  BY <1>1, NextIsDue, ReadersHaveCursors
<1>3. Take(next) \in Reading
  BY <1>2, TakenIsReading
<1>4. dbcRx' \in [Messages -> Reading]
  BY <1>3 DEF DbcReceive, TypeOK
<1> QED BY <1>4 DEF DbcReceive, TypeOK, lines, owned, Opened

LEMMA ClearKeepsTypes ==
  ASSUME TypeOK, NEW h \in Opened, NEW n \in ClearLengths(h), Clear(h, n)
  PROVE  TypeOK'
<1> DEFINE state == [handles[h] EXCEPT !.bytes = Zeros(n)]
<1>1. handles[h] \in HandleStates /\ handles[h].config \in Configs[handles[h].kind]
  BY DEF TypeOK
<1>2. n \in 0..FrameBytes
  <2>1. CASE handles[h].kind = "transmit"
    BY <2>1, VirtualCanAssumption DEF ClearLengths
  <2>2. CASE handles[h].kind = "message"
    <3>1. handles[h].config \in LegalConfigs["message"]
      BY <1>1, <2>2, VirtualCanAssumption DEF Kinds
    <3>2. handles[h].config.message \in Messages
      BY <3>1 DEF LegalConfigs
    <3>3. n = Dlc[handles[h].config.message]
      BY <2>2 DEF ClearLengths
    <3> QED BY <3>2, <3>3, VirtualCanAssumption
  <2>3. CASE handles[h].kind = "txGroup"
    <3>1. handles[h].config \in LegalConfigs["txGroup"]
      BY <1>1, <2>3, VirtualCanAssumption DEF Kinds
    <3>2. handles[h].config.length \in 1..FrameBytes
      BY <3>1 DEF LegalConfigs
    <3>3. n = handles[h].config.length
      BY <2>3 DEF ClearLengths
    <3> QED BY <3>2, <3>3 DEF FrameBytes
  <2>4. CASE handles[h].kind \notin {"transmit", "message", "txGroup"}
    BY <2>4 DEF ClearLengths
  <2> QED BY <2>1, <2>2, <2>3, <2>4
<1>3. Zeros(n) \in AnyPayload
  BY <1>2, ZerosArePayload
<1>4. handles' = [handles EXCEPT ![h] = state]
  BY DEF Clear
<1>5. /\ state \in HandleStates
      /\ state.config \in Configs[state.kind]
  BY <1>1, <1>3 DEF HandleStates
<1> HIDE DEF state
<1> QED BY <1>4, <1>5, NewStateKeepsTypes DEF Clear

LEMMA SetFieldKeepsTypes ==
  ASSUME TypeOK, NEW h \in Opened, NEW field, NEW bits \in [DOMAIN field -> Bits],
         SetField(h, field, bits)
  PROVE  TypeOK'
<1> DEFINE bytes == WriteField(handles[h].bytes, field, bits)
           state == [handles[h] EXCEPT !.bytes = bytes]
<1>1. handles[h] \in HandleStates /\ handles[h].config \in Configs[handles[h].kind]
  BY DEF TypeOK
<1>2. handles[h].bytes # None
  BY DEF SetField, Fields
<1>3. handles[h].bytes \in AnyPayload
  BY <1>1, <1>2 DEF HandleStates
<1>4. bytes \in AnyPayload
  BY <1>3, WrittenIsPayload
<1>5. handles' = [handles EXCEPT ![h] = state]
  BY DEF SetField
<1> HIDE DEF bytes
<1>6. /\ state \in HandleStates
      /\ state.config \in Configs[state.kind]
  BY <1>1, <1>4, SMTT(30) DEF HandleStates
<1> HIDE DEF state
<1> QED BY <1>5, <1>6, NewStateKeepsTypes DEF SetField

(* Sending changes nothing but the list of transfers.                      *)
Sends ==
  \/ \E h \in Opened, bus \in Buses, identifier \in Identifiers : TxRaw(h, bus, identifier)
  \/ \E h \in Opened : TxMessage(h)
  \/ \E h, node \in Opened, destination \in Destinations : TxGroup(h, node, destination)
  \/ \E node \in Opened, pgn \in Requests, destination \in Destinations :
       Request(node, pgn, destination)

LEMMA SendsChangeNothing ==
  Sends => UNCHANGED <<declared, injections, now, lines, owned, handles, dbcRx, writes,
                       phase>>
  BY DEF Sends, TxRaw, TxMessage, TxGroup, Request, Send

LEMMA TypesKept == TypeOK /\ [Next]_vars => TypeOK'
<1> SUFFICES ASSUME TypeOK, [Next]_vars PROVE TypeOK'
  OBVIOUS
<1>1. CASE Elapse
  BY <1>1, ElapseKeepsTypes
<1>2. CASE \E bus \in Buses, baud \in Bauds : InitBus(bus, baud)
  BY <1>2, InitBusKeepsTypes
<1>3. CASE \E m \in Modules, bus \in Buses : InitModule(m, bus)
  BY <1>3, InitModuleKeepsTypes
<1>4. CASE \E site \in Sites : \E config \in Configs[site[2]] : Open(site, config)
  BY <1>4, OpenKeepsTypes
<1>5. CASE \E h, node \in Opened : Register(h, node)
  BY <1>5, RegisterKeepsTypes
<1>6. CASE \E h, node \in Opened : DTCSetActive(h, node)
  BY <1>6, DTCSetActiveKeepsTypes
<1>7. CASE \E h, node \in Opened : DTCSetInactive(h, node)
  BY <1>7, DTCSetInactiveKeepsTypes
<1>8. CASE \E h \in Opened : Receive(h)
  BY <1>8, ReceiveKeepsTypes
<1>9. CASE \E m \in Messages : DbcReceive(m)
  BY <1>9, DbcReceiveKeepsTypes
<1>10. CASE \E h \in Opened : \E n \in ClearLengths(h) : Clear(h, n)
  BY <1>10, ClearKeepsTypes
<1>11. CASE \E h \in Opened : \E field \in Fields(h) :
              \E bits \in [DOMAIN field -> Bits] : SetField(h, field, bits)
  BY <1>11, SetFieldKeepsTypes
<1>12. CASE Sends
  BY <1>12, SendsChangeNothing DEF TypeOK, lines, owned, Opened
<1>13. CASE CallRefused
  BY <1>13 DEF CallRefused, TypeOK, lines, owned, Opened
<1>14. CASE UNCHANGED vars
  BY <1>14 DEF vars, TypeOK, lines, owned, Opened
<1> QED
  BY <1>1, <1>2, <1>3, <1>4, <1>5, <1>6, <1>7, <1>8, <1>9, <1>10, <1>11, <1>12, <1>13,
     <1>14 DEF Next, Sends

(* Whatever a script opens, registers, receives and sets, the adapter's    *)
(* tables keep their shapes: handles below the counter's limit, payloads   *)
(* of at most eight bytes, occurrence counts that saturate.                *)
THEOREM TypeCorrect == Spec => []TypeOK
  BY InitTypes, TypesKept, PTL DEF Spec

-----------------------------------------------------------------------------
(* What handles stand for.                                                 *)

(* The parts of HandlesAreSound.                                           *)
SitesSound ==
  /\ \A s, t \in DOMAIN siteHandles : siteHandles[s] = siteHandles[t] => s = t
  /\ \A s \in DOMAIN siteHandles : OpenedAs(siteHandles[s], s[2])
  /\ Opened = 1..(nextHandle - 1)

StateSound(h) ==
  /\ handles[h].node # 0 => OpenedAs(handles[h].node, "node")
  /\ handles[h].kind = "node" => handles[h].config.bus \in DOMAIN buses
  /\ handles[h].active => handles[h].node # 0 /\ handles[h].count > 0

ModulesSound == \A m \in DOMAIN modules : modules[m] \in DOMAIN buses

ReadingSound(r) ==
  LET reading == ReadingOf(r)
  IN  reading.cursor > 0 =>
        /\ reading.cursor <= Len(injections)
        /\ reading.current.frame = injections[reading.cursor]
        /\ reading.current.frame.time <= now * Grain
        /\ Hears(r, reading.current.frame)

LEMMA SoundParts ==
  HandlesAreSound <=>
    /\ SitesSound
    /\ \A h \in Opened : StateSound(h)
    /\ ModulesSound
    /\ \A r \in Opened \cup Messages : ReadingSound(r)
  BY DEF HandlesAreSound, SitesSound, StateSound, ModulesSound, ReadingSound

LEMMA SoundPartsNext ==
  ASSUME SitesSound', \A h \in Opened' : StateSound(h)', ModulesSound',
         \A r \in Opened' \cup Messages : ReadingSound(r)'
  PROVE  HandlesAreSound'
  BY DEF HandlesAreSound, SitesSound, StateSound, ModulesSound, ReadingSound

(* What a script has set up stays: no handle changes its kind, its         *)
(* configuration or its node, no module its bus, no bus is lost.           *)
Settled ==
  /\ injections' = injections
  /\ now' \in Nat /\ now <= now'
  /\ \A h \in Opened :
       /\ h \in Opened'
       /\ handles'[h].kind = handles[h].kind
       /\ handles'[h].config = handles[h].config
       /\ handles[h].node # 0 => handles'[h].node = handles[h].node
  /\ \A m \in DOMAIN modules : m \in DOMAIN modules' /\ modules'[m] = modules[m]
  /\ DOMAIN buses \subseteq DOMAIN buses'

(* A step that gives one handle a new state of the same kind.              *)
LEMMA NewStateSettles ==
  ASSUME TypeOK, NEW h \in Opened, NEW state,
         handles' = [handles EXCEPT ![h] = state],
         state.kind = handles[h].kind, state.config = handles[h].config,
         handles[h].node # 0 => state.node = handles[h].node,
         UNCHANGED <<injections, now, lines>>
  PROVE  Settled
  BY DEF TypeOK, Settled, Opened, lines

LEMMA UnchangedSettles ==
  ASSUME TypeOK, UNCHANGED <<injections, handles, lines>>, now' \in Nat, now <= now'
  PROVE  Settled
  BY DEF TypeOK, Settled, Opened, lines

LEMMA StepsSettle == TypeOK /\ SitesSound /\ [Next]_vars => Settled
<1> SUFFICES ASSUME TypeOK, SitesSound, [Next]_vars PROVE Settled
  OBVIOUS
<1>0. /\ now \in Nat /\ now <= now
      /\ \A h \in Opened : handles[h] \in HandleStates
  BY VirtualCanAssumption DEF TypeOK
<1>1. CASE Elapse
  BY <1>0, <1>1, UnchangedSettles DEF Elapse
<1>2. CASE \E bus \in Buses, baud \in Bauds : InitBus(bus, baud)
  BY <1>0, <1>2 DEF InitBus, Put, Settled, Opened
<1>3. CASE \E m \in Modules, bus \in Buses : InitModule(m, bus)
  <2>1. PICK m \in Modules, bus \in Buses : InitModule(m, bus)
    BY <1>3
  <2>2. \A n \in DOMAIN modules : n \in DOMAIN modules' /\ modules'[n] = modules[n]
    BY <2>1 DEF InitModule, Put
  <2>3. DOMAIN buses \subseteq DOMAIN buses'
    BY <2>1 DEF InitModule, Initialised, Put
  <2> QED BY <1>0, <2>1, <2>2, <2>3 DEF InitModule, Settled, Opened
<1>4. CASE \E site \in Sites : \E config \in Configs[site[2]] : Open(site, config)
  <2>1. PICK site \in Sites : \E config \in Configs[site[2]] : Open(site, config)
    BY <1>4
  <2>2. PICK config \in Configs[site[2]] : Open(site, config)
    BY <2>1
  <2>3. DOMAIN buses \subseteq DOMAIN buses'
    BY <2>2 DEF Open, Initialised, Put
  <2>4. ASSUME NEW h \in Opened PROVE h \in Opened' /\ handles'[h] = handles[h]
    <3>1. CASE site \in DOMAIN siteHandles
      BY <2>2, <3>1 DEF Open, Opened
    <3>2. CASE site \notin DOMAIN siteHandles
      <4>1. handles' = Put(handles, nextHandle, Fresh(site[2], config))
        BY <2>2, <3>2 DEF Open
      <4>2. h # nextHandle
        BY DEF SitesSound, TypeOK
      <4> QED BY <4>1, <4>2 DEF Put, Opened
    <3> QED BY <3>1, <3>2
  <2> QED BY <1>0, <2>2, <2>3, <2>4 DEF Open, Settled
<1>5. CASE \E h, node \in Opened : Register(h, node)
  <2>1. PICK h \in Opened, node \in Opened : Register(h, node)
    BY <1>5
  <2> DEFINE state == [handles[h] EXCEPT !.node = node]
  <2>2. handles' = [handles EXCEPT ![h] = state]
    BY <2>1 DEF Register
  <2>3. /\ state.kind = handles[h].kind /\ state.config = handles[h].config
        /\ handles[h].node # 0 => state.node = handles[h].node
    BY <1>0, <2>1 DEF Register, HandleStates
  <2> HIDE DEF state
  <2> QED BY <2>1, <2>2, <2>3, NewStateSettles DEF Register
<1>6. CASE \E h, node \in Opened : DTCSetActive(h, node)
  <2>1. PICK h \in Opened, node \in Opened : DTCSetActive(h, node)
    BY <1>6
  <2> DEFINE count == IF handles[h].active \/ handles[h].count = MaxCount
                      THEN handles[h].count ELSE handles[h].count + 1
             state == [handles[h] EXCEPT !.active = TRUE, !.count = count]
  <2>2. handles' = [handles EXCEPT ![h] = state]
    BY <1>0, <2>1 DEF DTCSetActive, HandleStates
  <2> HIDE DEF count
  <2>3. /\ state.kind = handles[h].kind /\ state.config = handles[h].config
        /\ state.node = handles[h].node
    BY <1>0 DEF HandleStates
  <2> HIDE DEF state
  <2> QED BY <2>1, <2>2, <2>3, <1>0, NewStateSettles DEF DTCSetActive
<1>7. CASE \E h, node \in Opened : DTCSetInactive(h, node)
  <2>1. PICK h \in Opened, node \in Opened : DTCSetInactive(h, node)
    BY <1>7
  <2> DEFINE state == [handles[h] EXCEPT !.active = FALSE]
  <2>2. handles' = [handles EXCEPT ![h] = state]
    BY <2>1 DEF DTCSetInactive
  <2>3. /\ state.kind = handles[h].kind /\ state.config = handles[h].config
        /\ state.node = handles[h].node
    BY <1>0 DEF HandleStates
  <2> HIDE DEF state
  <2> QED BY <2>1, <2>2, <2>3, NewStateSettles DEF DTCSetInactive
<1>8. CASE \E h \in Opened : Receive(h)
  <2>1. PICK h \in Opened : Receive(h)
    BY <1>8
  <2> DEFINE state == [handles[h] EXCEPT !.reading = Take(NextInjection(h))]
  <2>2. handles' = [handles EXCEPT ![h] = state]
    BY <2>1 DEF Receive
  <2>3. /\ state.kind = handles[h].kind /\ state.config = handles[h].config
        /\ state.node = handles[h].node
    BY <1>0 DEF HandleStates
  <2> HIDE DEF state
  <2> QED BY <2>1, <2>2, <2>3, NewStateSettles DEF Receive
<1>9. CASE \E m \in Messages : DbcReceive(m)
  BY <1>0, <1>9, UnchangedSettles DEF DbcReceive
<1>10. CASE \E h \in Opened : \E n \in ClearLengths(h) : Clear(h, n)
  <2>1. PICK h \in Opened : \E n \in ClearLengths(h) : Clear(h, n)
    BY <1>10
  <2>2. PICK n \in ClearLengths(h) : Clear(h, n)
    BY <2>1
  <2> DEFINE state == [handles[h] EXCEPT !.bytes = Zeros(n)]
  <2>3. handles' = [handles EXCEPT ![h] = state]
    BY <2>2 DEF Clear
  <2>4. /\ state.kind = handles[h].kind /\ state.config = handles[h].config
        /\ state.node = handles[h].node
    BY <1>0 DEF HandleStates
  <2> HIDE DEF state
  <2> QED BY <2>2, <2>3, <2>4, NewStateSettles DEF Clear
<1>11. CASE \E h \in Opened : \E field \in Fields(h) :
              \E bits \in [DOMAIN field -> Bits] : SetField(h, field, bits)
  <2>1. PICK h \in Opened : \E field \in Fields(h) :
               \E bits \in [DOMAIN field -> Bits] : SetField(h, field, bits)
    BY <1>11
  <2>2. PICK field, bits : SetField(h, field, bits)
    BY <2>1
  <2> DEFINE state == [handles[h] EXCEPT !.bytes = WriteField(@, field, bits)]
  <2>3. handles' = [handles EXCEPT ![h] = state]
    BY <2>2 DEF SetField
  <2>4. /\ state.kind = handles[h].kind /\ state.config = handles[h].config
        /\ state.node = handles[h].node
    BY <1>0 DEF HandleStates
  <2> HIDE DEF state
  <2> QED BY <2>2, <2>3, <2>4, NewStateSettles DEF SetField
<1>12. CASE Sends
  BY <1>0, <1>12, SendsChangeNothing, UnchangedSettles
<1>13. CASE CallRefused \/ UNCHANGED vars
  BY <1>0, <1>13, UnchangedSettles DEF CallRefused, vars
<1> QED
  BY <1>1, <1>2, <1>3, <1>4, <1>5, <1>6, <1>7, <1>8, <1>9, <1>10, <1>11, <1>12, <1>13
  DEF Next, Sends

LEMMA Multiples ==
  ASSUME NEW a \in Nat, NEW b \in Nat, NEW c \in Nat, a <= b
  PROVE  a * c \in Nat /\ b * c \in Nat /\ a * c <= b * c
<1>1. PICK d \in Nat : b = a + d
  <2>1. b - a \in Nat /\ b = a + (b - a)
    OBVIOUS
  <2> QED BY <2>1
<1>2. b * c = a * c + d * c /\ d * c \in Nat /\ a * c \in Nat
  BY <1>1
<1> HIDE <1>1
<1> QED BY <1>2

(* What is set up stays, so what a reader has heard it still hears.        *)
LEMMA StillHears ==
  ASSUME TypeOK, HandlesAreSound, Settled,
         NEW r \in Opened \cup Messages, NEW f, Hears(r, f)
  PROVE  Hears(r, f)'
<1>1. CASE r \in Messages
  BY <1>1 DEF Hears, Settled, MessageConfig
<1>2. CASE r \notin Messages
  <2>1. /\ r \in Opened /\ r \in Opened'
        /\ handles'[r].kind = handles[r].kind
        /\ handles'[r].config = handles[r].config
        /\ handles[r].node # 0 => handles'[r].node = handles[r].node
    BY <1>2 DEF Settled
  <2>2. CASE OpenedAs(r, "receive") /\ MatchesConfig(f, handles[r].config)
    BY <1>2, <2>1, <2>2 DEF Hears, OpenedAs
  <2>3. CASE /\ OpenedAs(r, "rxGroup") /\ handles[r].node # 0
             /\ MatchesGroup(f, NodeOf(r), handles[r].config)
    <3>1. handles[r].node \in Opened
      BY <2>1, <2>3 DEF HandlesAreSound, OpenedAs
    <3>2. handles'[handles'[r].node].config = handles[handles[r].node].config
      BY <2>1, <2>3, <3>1 DEF Settled
    <3> QED BY <1>2, <2>1, <2>3, <3>2 DEF Hears, OpenedAs, NodeOf
  <2> QED BY <1>2, <2>2, <2>3 DEF Hears
<1> QED BY <1>1, <1>2

LEMMA ReadingStays ==
  ASSUME TypeOK, HandlesAreSound, Settled,
         NEW r \in Opened \cup Messages, ReadingOf(r)' = ReadingOf(r)
  PROVE  ReadingSound(r)'
<1> DEFINE reading == ReadingOf(r)
           f       == reading.current.frame
<1>1. ReadingSound(r)
  BY SoundParts
<1>2. CASE ~(reading.cursor > 0)
  BY <1>2 DEF ReadingSound
<1>3. CASE reading.cursor > 0
  <2>1. /\ reading.cursor <= Len(injections)
        /\ f = injections[reading.cursor]
        /\ f.time <= now * Grain
        /\ Hears(r, f)
    BY <1>1, <1>3 DEF ReadingSound
  <2>2. reading.cursor \in Nat
    BY ReadersHaveCursors
  <2>3. f.time \in Nat
    <3>1. injections \in Seq(Frame)
      BY DEF TypeOK
    <3>2. reading.cursor \in 1..Len(injections)
      BY <1>3, <2>1, <2>2, <3>1
    <3>3. f \in Frame
      BY <2>1, <3>1, <3>2
    <3> QED BY <3>3 DEF Frame
  <2>4. now \in Nat /\ now' \in Nat /\ now <= now' /\ Grain \in Nat
    BY VirtualCanAssumption DEF TypeOK, Settled
  <2>5. f.time <= now' * Grain
    <3>1. /\ now * Grain \in Nat /\ now' * Grain \in Nat
          /\ now * Grain <= now' * Grain
      BY <2>4, Multiples
    <3> QED BY <2>1, <2>3, <3>1
  <2>6. \A g : Hears(r, g) => Hears(r, g)'
    BY StillHears
  <2>7. Hears(r, f)'
    BY <2>1, <2>6 DEF Hears, MessageConfig, NodeOf, OpenedAs
  <2> QED BY <2>1, <2>5, <2>7 DEF ReadingSound, Settled
<1> QED BY <1>2, <1>3

LEMMA StateStays ==
  ASSUME TypeOK, HandlesAreSound, Settled, NEW h \in Opened, handles'[h] = handles[h]
  PROVE  StateSound(h)'
<1>1. StateSound(h)
  BY SoundParts
<1>2. handles[h].node # 0 => OpenedAs(handles[h].node, "node")'
  BY <1>1 DEF StateSound, OpenedAs, Settled
<1> QED BY <1>1, <1>2 DEF StateSound, Settled

(* A step that changes at most the states of some handles is judged by     *)
(* those.                                                                  *)
LEMMA ChangedHandlesDecide ==
  ASSUME TypeOK, HandlesAreSound, Settled,
         Opened' = Opened, UNCHANGED <<owned, modules, dbcRx>>,
         NEW S \in SUBSET Opened,
         \A h \in S : StateSound(h)' /\ ReadingSound(h)',
         \A h \in Opened \ S : handles'[h] = handles[h]
  PROVE  HandlesAreSound'
<1>1. SitesSound'
  BY SoundParts DEF SitesSound, OpenedAs, owned, Settled
<1>2. \A h \in Opened' : StateSound(h)'
  <2> SUFFICES ASSUME NEW h \in Opened PROVE StateSound(h)'
    OBVIOUS
  <2>1. CASE h \in S
    BY <2>1
  <2>2. CASE h \notin S
    BY <2>2, StateStays
  <2> QED BY <2>1, <2>2
<1>3. ModulesSound'
  BY SoundParts DEF ModulesSound, Settled
<1>4. \A r \in Opened' \cup Messages : ReadingSound(r)'
  <2> SUFFICES ASSUME NEW r \in Opened \cup Messages PROVE ReadingSound(r)'
    OBVIOUS
  <2>1. CASE r \in S
    BY <2>1
  <2>2. CASE r \notin S
    <3>1. ReadingOf(r)' = ReadingOf(r)
      BY <2>2 DEF ReadingOf
    <3> QED BY <3>1, ReadingStays
  <2> QED BY <2>1, <2>2
<1> QED BY <1>1, <1>2, <1>3, <1>4, SoundPartsNext

LEMMA SameHandlesAreSound ==
  ASSUME TypeOK, HandlesAreSound, Settled, UNCHANGED <<owned, handles, modules, dbcRx>>
  PROVE  HandlesAreSound'
<1> DEFINE S == {}
<1>1. Opened' = Opened
  BY DEF Opened
<1>2. S \in SUBSET Opened /\ \A h \in Opened \ S : handles'[h] = handles[h]
  OBVIOUS
<1>3. \A h \in S : StateSound(h)' /\ ReadingSound(h)'
  OBVIOUS
<1> HIDE DEF S
<1> QED BY <1>1, <1>2, <1>3, ChangedHandlesDecide

(* A step that gives one handle a new state that reads what it did.        *)
LEMMA NewStateIsSound ==
  ASSUME TypeOK, HandlesAreSound, Settled, NEW h \in Opened, NEW state,
         handles' = [handles EXCEPT ![h] = state],
         state.reading = handles[h].reading,
         StateSound(h)',
         UNCHANGED <<owned, modules, dbcRx>>
  PROVE  HandlesAreSound'
<1>1. Opened' = Opened /\ \A g \in Opened \ {h} : handles'[g] = handles[g]
  BY DEF Opened, TypeOK
<1>2. handles'[h] = state
  BY DEF Opened, TypeOK
<1>3. ReadingOf(h)' = ReadingOf(h)
  BY <1>1, <1>2 DEF ReadingOf
<1>4. ReadingSound(h)'
  BY <1>3, ReadingStays
<1> DEFINE S == {h}
<1>5. /\ S \in SUBSET Opened
      /\ \A g \in S : StateSound(g)' /\ ReadingSound(g)'
      /\ \A g \in Opened \ S : handles'[g] = handles[g]
  BY <1>1, <1>4
<1> HIDE DEF S
<1> QED BY <1>1, <1>5, ChangedHandlesDecide

LEMMA InitIsSound == Init => HandlesAreSound
<1> SUFFICES ASSUME Init PROVE HandlesAreSound
  OBVIOUS
<1>1. Opened = {} /\ DOMAIN siteHandles = {} /\ DOMAIN modules = {} /\ nextHandle = 1
  BY DEF Init, Opened
<1>2. \A r \in Opened \cup Messages : ReadingOf(r).cursor = 0
  BY <1>1 DEF Init, ReadingOf, Unread
<1> QED BY <1>1, <1>2 DEF HandlesAreSound

LEMMA InitModuleKeepsSound ==
  ASSUME TypeOK, HandlesAreSound, Settled, NEW m \in Modules, NEW bus \in Buses,
         InitModule(m, bus)
  PROVE  HandlesAreSound'
<1>1. Opened' = Opened /\ UNCHANGED <<owned, handles, dbcRx>>
  BY DEF InitModule, Opened
<1>2. SitesSound'
  BY <1>1, SoundParts DEF SitesSound, OpenedAs, owned
<1>3. \A h \in Opened' : StateSound(h)'
  BY <1>1, StateStays
<1>4. ModulesSound'
  <2> SUFFICES ASSUME NEW n \in DOMAIN modules' PROVE modules'[n] \in DOMAIN buses'
    BY DEF ModulesSound
  <2>1. CASE n = m
    BY <2>1 DEF InitModule, Initialised, Put
  <2>2. CASE n # m
    <3>1. n \in DOMAIN modules /\ modules'[n] = modules[n]
      BY <2>2 DEF InitModule, Put
    <3> QED BY <3>1, SoundParts DEF ModulesSound, Settled
  <2> QED BY <2>1, <2>2
<1>5. \A r \in Opened' \cup Messages : ReadingSound(r)'
  <2> SUFFICES ASSUME NEW r \in Opened \cup Messages PROVE ReadingSound(r)'
    BY <1>1
  <2>1. ReadingOf(r)' = ReadingOf(r)
    BY <1>1 DEF ReadingOf
  <2> QED BY <2>1, ReadingStays
<1> QED BY <1>2, <1>3, <1>4, <1>5, SoundPartsNext

LEMMA OpenKeepsSound ==
  ASSUME TypeOK, HandlesAreSound, Settled, NEW site \in Sites,
         NEW config \in Configs[site[2]], Open(site, config)
  PROVE  HandlesAreSound'
<1> DEFINE kind == site[2]
<1>1. UNCHANGED <<injections, now, modules, dbcRx>>
  BY DEF Open
<1>2. CASE site \in DOMAIN siteHandles
  <2>1. Opened' = Opened /\ UNCHANGED <<owned, handles>>
    BY <1>2 DEF Open, Opened
  <2> QED BY <1>1, <2>1, SameHandlesAreSound
<1>3. CASE site \notin DOMAIN siteHandles
  <2>1. /\ siteHandles' = Put(siteHandles, site, nextHandle)
        /\ handles' = Put(handles, nextHandle, Fresh(kind, config))
        /\ nextHandle' = nextHandle + 1
    BY <1>3 DEF Open
  <2>2. /\ Opened' = Opened \cup {nextHandle}
        /\ nextHandle \notin Opened /\ nextHandle \in Nat \ {0}
    BY <2>1, SoundParts DEF Opened, Put, SitesSound, TypeOK
  <2>3. /\ handles'[nextHandle] = Fresh(kind, config)
        /\ \A h \in Opened : handles'[h] = handles[h]
    BY <2>1, <2>2 DEF Put, Opened
  <2>4. SitesSound'
    <3>1. ASSUME NEW s \in DOMAIN siteHandles', NEW t \in DOMAIN siteHandles',
                 siteHandles'[s] = siteHandles'[t]
          PROVE  s = t
      <4>1. \A u \in DOMAIN siteHandles :
              siteHandles'[u] = siteHandles[u] \/ u = site
        BY <2>1 DEF Put
      <4>2. \A u \in DOMAIN siteHandles : siteHandles[u] # nextHandle
        BY <2>2 DEF TypeOK
      <4>3. DOMAIN siteHandles' = DOMAIN siteHandles \cup {site}
        BY <2>1 DEF Put
      <4>4. siteHandles'[site] = nextHandle
        BY <2>1 DEF Put
      <4> QED BY <1>3, <3>1, <4>1, <4>2, <4>3, <4>4, SoundParts DEF SitesSound
    <3>2. ASSUME NEW s \in DOMAIN siteHandles' PROVE OpenedAs(siteHandles[s], s[2])'
      <4>1. CASE s = site
        <5>1. siteHandles'[s] = nextHandle
          BY <2>1, <4>1 DEF Put
        <5> QED BY <2>2, <2>3, <4>1, <5>1 DEF OpenedAs, Fresh
      <4>2. CASE s # site
        <5>1. s \in DOMAIN siteHandles /\ siteHandles'[s] = siteHandles[s]
          BY <2>1, <4>2 DEF Put
        <5>2. OpenedAs(siteHandles[s], s[2])
          BY <5>1, SoundParts DEF SitesSound
        <5> QED BY <2>2, <2>3, <5>1, <5>2 DEF OpenedAs
      <4> QED BY <4>1, <4>2
    <3>3. Opened' = 1..(nextHandle' - 1)
      BY <2>1, <2>2, SoundParts DEF SitesSound
    <3> QED BY <3>1, <3>2, <3>3 DEF SitesSound, OpenedAs
  <2>5. \A h \in Opened' : StateSound(h)'
    <3> SUFFICES ASSUME NEW h \in Opened' PROVE StateSound(h)'
      OBVIOUS
    <3>1. CASE h = nextHandle
      <4>1. kind = "node" => config.bus \in DOMAIN buses'
        BY DEF Open, Initialised, Put
      <4> QED BY <2>3, <3>1, <4>1 DEF StateSound, Fresh
    <3>2. CASE h # nextHandle
      BY <2>2, <2>3, <3>2, StateStays
    <3> QED BY <3>1, <3>2
  <2>6. ModulesSound'
    BY <1>1, SoundParts DEF ModulesSound, Settled
  <2>7. \A r \in Opened' \cup Messages : ReadingSound(r)'
    <3> SUFFICES ASSUME NEW r \in Opened' \cup Messages PROVE ReadingSound(r)'
      OBVIOUS
    <3>1. CASE r \in Opened \cup Messages
      <4>1. ReadingOf(r)' = ReadingOf(r)
        BY <1>1, <2>2, <2>3, <3>1 DEF ReadingOf
      <4> QED BY <3>1, <4>1, ReadingStays
    <3>2. CASE r \notin Opened \cup Messages
      <4>1. r = nextHandle
        BY <2>2, <3>2
      <4>2. ReadingOf(r)' = Unread
        BY <2>2, <2>3, <3>2, <4>1 DEF ReadingOf, Fresh
      <4> QED BY <4>2 DEF ReadingSound, Unread
    <3> QED BY <3>1, <3>2
  <2> QED BY <2>4, <2>5, <2>6, <2>7, SoundPartsNext
<1> QED BY <1>2, <1>3

LEMMA RegisterKeepsSound ==
  ASSUME TypeOK, HandlesAreSound, Settled, NEW h \in Opened, NEW node \in Opened,
         Register(h, node)
  PROVE  HandlesAreSound'
<1> DEFINE state == [handles[h] EXCEPT !.node = node]
<1>1. handles[h] \in HandleStates /\ StateSound(h)
  BY SoundParts DEF TypeOK
<1>2. handles' = [handles EXCEPT ![h] = state]
  BY DEF Register
<1>3. /\ state.reading = handles[h].reading /\ state.node = node
      /\ state.kind = handles[h].kind /\ state.config = handles[h].config
      /\ state.active = handles[h].active /\ state.count = handles[h].count
  BY <1>1 DEF HandleStates
<1> HIDE DEF state
<1>4. handles'[h] = state
  BY <1>2 DEF Opened
<1>5. node # 0
  BY DEF TypeOK
<1>6. OpenedAs(node, "node")'
  BY DEF Register, OpenedAs, Settled
<1>7. StateSound(h)'
  BY <1>1, <1>3, <1>4, <1>5, <1>6 DEF StateSound, Settled
<1> QED BY <1>2, <1>3, <1>7, NewStateIsSound DEF Register, lines

LEMMA DTCSetActiveKeepsSound ==
  ASSUME TypeOK, HandlesAreSound, Settled, NEW h \in Opened, NEW node \in Opened,
         DTCSetActive(h, node)
  PROVE  HandlesAreSound'
<1> DEFINE count == IF handles[h].active \/ handles[h].count = MaxCount
                    THEN handles[h].count ELSE handles[h].count + 1
           state == [handles[h] EXCEPT !.active = TRUE, !.count = count]
<1>1. handles[h] \in HandleStates /\ StateSound(h)
  BY SoundParts DEF TypeOK
<1>2. handles' = [handles EXCEPT ![h] = state]
  BY <1>1 DEF DTCSetActive, HandleStates
<1>3. count > 0
  BY <1>1, VirtualCanAssumption DEF StateSound, HandleStates
<1> HIDE DEF count
<1>4. /\ state.reading = handles[h].reading /\ state.node = handles[h].node
      /\ state.kind = handles[h].kind /\ state.config = handles[h].config
      /\ state.count = count
  BY <1>1 DEF HandleStates
<1> HIDE DEF state
<1>5. handles'[h] = state
  BY <1>2 DEF Opened
<1>6. handles[h].node # 0 /\ OpenedAs(handles[h].node, "node")
  BY <1>1 DEF StateSound, DTCSetActive, Registered
<1>7. OpenedAs(handles[h].node, "node")'
  BY <1>6 DEF OpenedAs, Settled
<1>8. StateSound(h)'
  BY <1>1, <1>3, <1>4, <1>5, <1>6, <1>7 DEF StateSound, Settled
<1> QED BY <1>2, <1>4, <1>8, NewStateIsSound DEF DTCSetActive, lines

(* Clearing and setting change a handle's bytes, setting a fault inactive  *)
(* its flag.                                                               *)
LEMMA HarmlessKeepsSound ==
  ASSUME TypeOK, HandlesAreSound, Settled, NEW h \in Opened, NEW state,
         handles' = [handles EXCEPT ![h] = state],
         state.reading = handles[h].reading, state.node = handles[h].node,
         state.kind = handles[h].kind, state.config = handles[h].config,
         state.count = handles[h].count, state.active => handles[h].active,
         UNCHANGED <<owned, modules, dbcRx>>
  PROVE  HandlesAreSound'
<1>1. StateSound(h)
  BY SoundParts
<1>2. handles'[h] = state
  BY DEF Opened
<1>3. handles[h].node # 0 => OpenedAs(handles[h].node, "node")'
  BY <1>1 DEF StateSound, OpenedAs, Settled
<1>4. StateSound(h)'
  BY <1>1, <1>2, <1>3 DEF StateSound, Settled
<1> QED BY <1>4, NewStateIsSound

(* A reader that takes the next frame.                                     *)
LEMMA TakenIsSound ==
  ASSUME TypeOK, HandlesAreSound, Settled, now' = now, NEW r \in Opened \cup Messages,
         NextInjection(r) # 0, ReadingOf(r)' = Take(NextInjection(r))
  PROVE  ReadingSound(r)'
<1>1. PICK next : next = NextInjection(r)
  OBVIOUS
<1>2. /\ next \in DOMAIN injections /\ next > 0 /\ next <= Len(injections)
      /\ injections[next].time <= now * Grain
      /\ Hears(r, injections[next])
  <2>1. injections \in Seq(Frame)
    BY DEF TypeOK
  <2> QED BY <1>1, <2>1, NextIsDue, ReadersHaveCursors
<1>3. PICK f : f = injections[next]
  OBVIOUS
<1>4. Hears(r, f)'
  BY <1>2, <1>3, StillHears
<1>5. ReadingOf(r)'.cursor = next /\ ReadingOf(r)'.current.frame = f
  BY <1>1, <1>3 DEF Take
<1>6. injections' = injections
  BY DEF Settled
<1>7. Hears(r, ReadingOf(r).current.frame)'
  BY <1>4, <1>5 DEF Hears, MessageConfig, NodeOf, OpenedAs
<1> QED BY <1>2, <1>3, <1>5, <1>6, <1>7 DEF ReadingSound

LEMMA ReceiveKeepsSound ==
  ASSUME TypeOK, HandlesAreSound, Settled, NEW h \in Opened, Receive(h)
  PROVE  HandlesAreSound'
<1> DEFINE state == [handles[h] EXCEPT !.reading = Take(NextInjection(h))]
           S     == {h}
<1>1. handles[h] \in HandleStates /\ StateSound(h)
  BY SoundParts DEF TypeOK
<1>2. handles' = [handles EXCEPT ![h] = state]
  BY DEF Receive
<1>3. /\ state.reading = Take(NextInjection(h)) /\ state.node = handles[h].node
      /\ state.kind = handles[h].kind /\ state.config = handles[h].config
      /\ state.count = handles[h].count /\ state.active = handles[h].active
  BY <1>1 DEF HandleStates
<1> HIDE DEF state
<1>4. Opened' = Opened /\ handles'[h] = state /\ \A g \in Opened \ S : handles'[g] = handles[g]
  BY <1>2 DEF Opened
<1>5. handles[h].node # 0 => OpenedAs(handles[h].node, "node")'
  BY <1>1 DEF StateSound, OpenedAs, Settled
<1>6. StateSound(h)'
  BY <1>1, <1>3, <1>4, <1>5 DEF StateSound, Settled
<1>7. h \notin Messages
  BY VirtualCanAssumption DEF TypeOK
<1>8. ReadingOf(h)' = Take(NextInjection(h))
  BY <1>3, <1>4, <1>7 DEF ReadingOf
<1>9. ReadingSound(h)'
  BY <1>8, TakenIsSound DEF Receive
<1>10. S \in SUBSET Opened /\ \A g \in S : StateSound(g)' /\ ReadingSound(g)'
  BY <1>6, <1>9
<1> HIDE DEF S
<1>11. UNCHANGED <<owned, modules, dbcRx>>
  BY DEF Receive, lines
<1> QED BY <1>4, <1>10, <1>11, ChangedHandlesDecide

LEMMA DbcReceiveKeepsSound ==
  ASSUME TypeOK, HandlesAreSound, Settled, NEW m \in Messages, DbcReceive(m)
  PROVE  HandlesAreSound'
<1>1. Opened' = Opened /\ UNCHANGED <<now, owned, handles, lines>>
  BY DEF DbcReceive, Opened
<1>2. SitesSound'
  BY <1>1, SoundParts DEF SitesSound, OpenedAs, owned
<1>3. \A h \in Opened' : StateSound(h)'
  BY <1>1, StateStays
<1>4. ModulesSound'
  BY <1>1, SoundParts DEF ModulesSound, lines
<1>5. \A r \in Opened' \cup Messages : ReadingSound(r)'
  <2> SUFFICES ASSUME NEW r \in Opened \cup Messages PROVE ReadingSound(r)'
    BY <1>1
  <2>1. CASE r = m
    <3>1. ReadingOf(m)' = Take(NextInjection(m))
      BY DEF DbcReceive, ReadingOf, TypeOK
    <3> QED BY <1>1, <2>1, <3>1, TakenIsSound DEF DbcReceive
  <2>2. CASE r # m
    <3>1. ReadingOf(r)' = ReadingOf(r)
      BY <1>1, <2>2 DEF DbcReceive, ReadingOf, TypeOK
    <3> QED BY <3>1, ReadingStays
  <2> QED BY <2>1, <2>2
<1> QED BY <1>2, <1>3, <1>4, <1>5, SoundPartsNext

LEMMA SoundnessKept == TypeOK /\ HandlesAreSound /\ [Next]_vars => HandlesAreSound'
<1> SUFFICES ASSUME TypeOK, HandlesAreSound, [Next]_vars PROVE HandlesAreSound'
  OBVIOUS
<1>0. /\ Settled
      /\ \A h \in Opened : handles[h] \in HandleStates
  BY StepsSettle, SoundParts DEF TypeOK
<1>1. CASE Elapse
  BY <1>0, <1>1, SameHandlesAreSound DEF Elapse, lines
<1>2. CASE \E bus \in Buses, baud \in Bauds : InitBus(bus, baud)
  BY <1>0, <1>2, SameHandlesAreSound DEF InitBus
<1>3. CASE \E m \in Modules, bus \in Buses : InitModule(m, bus)
  BY <1>0, <1>3, InitModuleKeepsSound
<1>4. CASE \E site \in Sites : \E config \in Configs[site[2]] : Open(site, config)
  BY <1>0, <1>4, OpenKeepsSound
<1>5. CASE \E h, node \in Opened : Register(h, node)
  BY <1>0, <1>5, RegisterKeepsSound
<1>6. CASE \E h, node \in Opened : DTCSetActive(h, node)
  BY <1>0, <1>6, DTCSetActiveKeepsSound
<1>7. CASE \E h, node \in Opened : DTCSetInactive(h, node)
  <2>1. PICK h \in Opened, node \in Opened : DTCSetInactive(h, node)
    BY <1>7
  <2> DEFINE state == [handles[h] EXCEPT !.active = FALSE]
  <2>2. handles' = [handles EXCEPT ![h] = state]
    BY <2>1 DEF DTCSetInactive
  <2>3. /\ state.reading = handles[h].reading /\ state.node = handles[h].node
        /\ state.kind = handles[h].kind /\ state.config = handles[h].config
        /\ state.count = handles[h].count /\ (state.active => handles[h].active)
    BY <1>0 DEF HandleStates
  <2> HIDE DEF state
  <2> QED BY <1>0, <2>1, <2>2, <2>3, HarmlessKeepsSound DEF DTCSetInactive, lines
<1>8. CASE \E h \in Opened : Receive(h)
  BY <1>0, <1>8, ReceiveKeepsSound
<1>9. CASE \E m \in Messages : DbcReceive(m)
  BY <1>0, <1>9, DbcReceiveKeepsSound
<1>10. CASE \E h \in Opened : \E n \in ClearLengths(h) : Clear(h, n)
  <2>1. PICK h \in Opened : \E n \in ClearLengths(h) : Clear(h, n)
    BY <1>10
  <2>2. PICK n \in ClearLengths(h) : Clear(h, n)
    BY <2>1
  <2> DEFINE state == [handles[h] EXCEPT !.bytes = Zeros(n)]
  <2>3. handles' = [handles EXCEPT ![h] = state]
    BY <2>2 DEF Clear
  <2>4. /\ state.reading = handles[h].reading /\ state.node = handles[h].node
        /\ state.kind = handles[h].kind /\ state.config = handles[h].config
        /\ state.count = handles[h].count /\ (state.active => handles[h].active)
    BY <1>0 DEF HandleStates
  <2> HIDE DEF state
  <2> QED BY <1>0, <2>2, <2>3, <2>4, HarmlessKeepsSound DEF Clear, lines
<1>11. CASE \E h \in Opened : \E field \in Fields(h) :
              \E bits \in [DOMAIN field -> Bits] : SetField(h, field, bits)
  <2>1. PICK h \in Opened : \E field \in Fields(h) :
               \E bits \in [DOMAIN field -> Bits] : SetField(h, field, bits)
    BY <1>11
  <2>2. PICK field, bits : SetField(h, field, bits)
    BY <2>1
  <2> DEFINE state == [handles[h] EXCEPT !.bytes = WriteField(@, field, bits)]
  <2>3. handles' = [handles EXCEPT ![h] = state]
    BY <2>2 DEF SetField
  <2>4. /\ state.reading = handles[h].reading /\ state.node = handles[h].node
        /\ state.kind = handles[h].kind /\ state.config = handles[h].config
        /\ state.count = handles[h].count /\ (state.active => handles[h].active)
    BY <1>0 DEF HandleStates
  <2> HIDE DEF state
  <2> QED BY <1>0, <2>2, <2>3, <2>4, HarmlessKeepsSound DEF SetField, lines
<1>12. CASE Sends
  BY <1>0, <1>12, SendsChangeNothing, SameHandlesAreSound DEF lines
<1>13. CASE CallRefused \/ UNCHANGED vars
  BY <1>0, <1>13, SameHandlesAreSound DEF CallRefused, vars, lines
<1> QED
  BY <1>1, <1>2, <1>3, <1>4, <1>5, <1>6, <1>7, <1>8, <1>9, <1>10, <1>11, <1>12, <1>13
  DEF Next, Sends

(* However many handles a script opens, whatever it registers and whenever *)
(* it reads: a looked-up handle exists and is of its site's kind, a group  *)
(* or fault is registered with a node, on a bus that is initialised, and a *)
(* reader holds a frame that it hears and that was due.                    *)
THEOREM HandlesStaySound == Spec => []HandlesAreSound
<1>1. TypeOK /\ HandlesAreSound /\ [Next]_vars => HandlesAreSound'
  BY SoundnessKept
<1> QED BY <1>1, InitIsSound, TypeCorrect, PTL DEF Spec

(* No call takes back what an earlier one set up: handles keep their kind, *)
(* configuration and node, modules their bus, and time does not go back.   *)
THEOREM SetUpIsSettled == Spec => [][Settled]_vars
<1>1. TypeOK /\ HandlesAreSound /\ [Next]_vars => Settled
  BY StepsSettle, SoundParts
<1> QED BY <1>1, HandlesStaySound, TypeCorrect, PTL DEF Spec

-----------------------------------------------------------------------------
(* Transmission of parameter groups.                                       *)

(* The list of transfers is a sequence, whatever it holds.                 *)
LEMMA SequencesGrow ==
  ASSUME NEW S, NEW s \in Seq(S), NEW e
  PROVE  /\ Append(s, e) \in Seq(S \cup {e})
         /\ Last(Append(s, e)) = e
<1>1. s \in Seq(S \cup {e})
  OBVIOUS
<1>2. Len(Append(s, e)) = Len(s) + 1 /\ Append(s, e)[Len(s) + 1] = e
  OBVIOUS
<1> QED BY <1>1, <1>2 DEF Last

Listed == \E S : transfers \in Seq(S)

LEMMA InitIsListed == Init => Listed
<1>1. <<>> \in Seq({})
  OBVIOUS
<1> QED BY <1>1 DEF Init, Listed

LEMMA TransfersAreListed == Spec => []Listed
<1>1. Listed /\ [Next]_vars => Listed'
  <2> SUFFICES ASSUME Listed, [Next]_vars PROVE Listed'
    OBVIOUS
  <2>1. PICK S : transfers \in Seq(S)
    BY DEF Listed
  <2>2. ASSUME NEW e, transfers' = Append(transfers, e) PROVE Listed'
    <3>1. transfers' \in Seq(S \cup {e})
      BY <2>1, <2>2, SequencesGrow
    <3> QED BY <3>1 DEF Listed
  <2>3. transfers' = transfers \/ \E e : transfers' = Append(transfers, e)
    <3>1. CASE Elapse
      BY <3>1 DEF Elapse
    <3>2. CASE \E bus \in Buses, baud \in Bauds : InitBus(bus, baud)
      BY <3>2 DEF InitBus
    <3>3. CASE \E m \in Modules, bus \in Buses : InitModule(m, bus)
      BY <3>3 DEF InitModule
    <3>4. CASE \E site \in Sites : \E config \in Configs[site[2]] : Open(site, config)
      BY <3>4 DEF Open
    <3>5. CASE \E h, node \in Opened : \/ Register(h, node)
                                       \/ DTCSetActive(h, node)
                                       \/ DTCSetInactive(h, node)
      BY <3>5 DEF Register, DTCSetActive, DTCSetInactive
    <3>6. CASE \E h \in Opened : Receive(h)
      BY <3>6 DEF Receive
    <3>7. CASE \E m \in Messages : DbcReceive(m)
      BY <3>7 DEF DbcReceive
    <3>8. CASE \E h \in Opened : \E n \in ClearLengths(h) : Clear(h, n)
      BY <3>8 DEF Clear
    <3>9. CASE \E h \in Opened : \E field \in Fields(h) :
                 \E bits \in [DOMAIN field -> Bits] : SetField(h, field, bits)
      BY <3>9, SMTT(30) DEF SetField
    <3>10. CASE Sends
      BY <3>10 DEF Sends, TxRaw, TxMessage, TxGroup, Request, Send
    <3>11. CASE CallRefused \/ UNCHANGED vars
      BY <3>11 DEF CallRefused, vars
    <3> QED
      BY <3>1, <3>2, <3>3, <3>4, <3>5, <3>6, <3>7, <3>8, <3>9, <3>10, <3>11 DEF Next, Sends
  <2>4. CASE transfers' = transfers
    BY <2>1, <2>4 DEF Listed
  <2> QED BY <2>2, <2>3, <2>4
<1> QED BY <1>1, InitIsListed, PTL DEF Spec

(* What a transmitted group's frame is matched by.                         *)
LEMMA SentGroupIsMatched ==
  ASSUME TypeOK, HandlesAreSound, Listed, NEW h \in Opened, NEW node \in Opened,
         NEW destination \in Destinations, TxGroup(h, node, destination),
         NEW to \in Configs["node"], NEW rx \in Configs["rxGroup"]
  PROVE  LET group == handles[h].config
             from  == handles[node].config
         IN  MatchesGroup(Last(transfers'), to, rx) <=>
               /\ to.bus = from.bus
               /\ rx.pgn = group.pgn
               /\ rx.source \in {AnySource, from.address}
               /\ Addressed(group.pgn) => destination \in {to.address, Broadcast}
<1> DEFINE group == handles[h].config
           from  == handles[node].config
           id    == EncodeIdentifier(group.priority, group.pgn, destination, from.address)
           sent  == Transfer("tx", h, from.bus, TRUE, id, handles[h].bytes)
<1>1. group.priority \in 0..7 /\ group.pgn \in Groups
  <2>1. group \in LegalConfigs["txGroup"]
    BY VirtualCanAssumption DEF TxGroup, Registered, OpenedAs, TypeOK, Kinds
  <2> QED BY <2>1 DEF LegalConfigs
<1>2. from.address \in 0..255
  <2>1. OpenedAs(node, "node")
    BY DEF TxGroup, Registered, HandlesAreSound
  <2>2. from \in LegalConfigs["node"]
    BY <2>1, VirtualCanAssumption DEF OpenedAs, TypeOK, Kinds
  <2>3. from.address \in 0..253
    BY <2>2 DEF LegalConfigs, Addresses
  <2> QED BY <2>3
<1>3. destination \in 0..255 /\ to.address \in 0..253
  <2>1. to \in LegalConfigs["node"]
    BY VirtualCanAssumption DEF Kinds
  <2>2. to.address \in 0..253
    BY <2>1 DEF LegalConfigs, Addresses
  <2>3. Destinations \subseteq 0..255
    BY VirtualCanAssumption
  <2> QED BY <2>2, <2>3
<1>4. Last(transfers') = sent
  <2>1. PICK S : transfers \in Seq(S)
    BY DEF Listed
  <2>2. transfers' = Append(transfers, sent)
    BY SMTT(30) DEF TxGroup, Send
  <2> HIDE DEF sent
  <2> QED BY <2>1, <2>2, SequencesGrow
<1>5. DecodeIdentifier(id) =
        [pgn |-> group.pgn, source |-> from.address,
         destination |-> IF Addressed(group.pgn) THEN destination ELSE Everyone]
  BY <1>1, <1>2, <1>3, IdentifiersDecode, ZenonT(60)
<1>6. sent.bus = from.bus /\ sent.extended = TRUE /\ sent.id = id
  BY DEF Transfer
<1> HIDE DEF id, sent
<1>7. CASE Addressed(group.pgn)
  <2>1. destination # Everyone
    BY <1>3 DEF Everyone
  <2> QED BY <1>4, <1>5, <1>6, <1>7, <2>1 DEF MatchesGroup
<1>8. CASE ~Addressed(group.pgn)
  BY <1>4, <1>5, <1>6, <1>8 DEF MatchesGroup
<1> QED BY <1>7, <1>8

(* For every parameter group, addressed or not, every priority and every   *)
(* pair of addresses: a transmitted group is received as itself, by those  *)
(* it was sent to and by nobody else.                                      *)
THEOREM GroupsAreDelivered == Spec => FramesReachTheirGroup
<1> DEFINE Delivered ==
      \A h, node \in Opened, destination \in Destinations :
        TxGroup(h, node, destination) =>
          LET sent  == Last(transfers')
              group == handles[h].config
              from  == handles[node].config
          IN  \A to \in Configs["node"], rx \in Configs["rxGroup"] :
                MatchesGroup(sent, to, rx) <=>
                  /\ to.bus = from.bus
                  /\ rx.pgn = group.pgn
                  /\ rx.source \in {AnySource, from.address}
                  /\ Addressed(group.pgn) => destination \in {to.address, Broadcast}
<1>1. TypeOK /\ HandlesAreSound /\ Listed => Delivered
  BY SentGroupIsMatched
<1> QED BY <1>1, TypeCorrect, HandlesStaySound, TransfersAreListed, PTL
        DEF FramesReachTheirGroup

-----------------------------------------------------------------------------
(* Transmit buffers.                                                       *)

(* LastBit over a given list of writes.                                    *)
Covering(list, p) == {n \in DOMAIN list : Covers(list[n], p)}

Greatest(S) == CHOOSE n \in S : \A k \in S : k <= n

BitOf(write, p) == write.bits[CHOOSE i \in DOMAIN write.field : write.field[i] = p]

LastOf(list, p) ==
  IF Covering(list, p) = {} THEN 0 ELSE BitOf(list[Greatest(Covering(list, p))], p)

LEMMA LastOfNone ==
  ASSUME NEW p
  PROVE  LastOf(<<>>, p) = 0
<1>1. DOMAIN <<>> = {}
  OBVIOUS
<1> QED BY <1>1 DEF LastOf, Covering

LEMMA GreatestOf ==
  ASSUME NEW n \in Nat, NEW S \in SUBSET (1..n), S # {}
  PROVE  \E i \in S : \A j \in S : j <= i
<1> DEFINE T == {n - i : i \in S}
<1>1. T \in SUBSET Nat /\ T # {}
  <2>1. \A i \in S : n - i \in Nat
    OBVIOUS
  <2>2. PICK i \in S : TRUE
    OBVIOUS
  <2>3. n - i \in T
    OBVIOUS
  <2> QED BY <2>1, <2>3
<1>2. PICK d \in T : \A e \in T : d <= e
  <2> HIDE DEF T
  <2> QED BY <1>1, LeastOf
<1>3. PICK i \in S : d = n - i
  BY <1>2
<1>4. ASSUME NEW j \in S PROVE j <= i
  <2>1. n - i <= n - j
    BY <1>2, <1>3
  <2> QED BY <2>1
<1> QED BY <1>4

LEMMA LastOfAppended ==
  ASSUME NEW S, NEW list \in Seq(S), NEW write, NEW p
  PROVE  LastOf(Append(list, write), p) =
           IF Covers(write, p) THEN BitOf(write, p) ELSE LastOf(list, p)
<1> DEFINE longer == Append(list, write)
           end    == Len(list) + 1
<1>1. /\ DOMAIN list = 1..Len(list) /\ Len(list) \in Nat
      /\ DOMAIN longer = 1..end
      /\ longer[end] = write
      /\ \A n \in DOMAIN list : longer[n] = list[n]
  OBVIOUS
<1> HIDE DEF longer
<1>2. Covering(list, p) \in SUBSET (1..Len(list))
  BY <1>1 DEF Covering
<1>3. CASE Covers(write, p)
  <2>1. end \in Covering(longer, p) /\ \A k \in Covering(longer, p) : k <= end
    BY <1>1, <1>3 DEF Covering
  <2>2. \A n \in Covering(longer, p) : (\A k \in Covering(longer, p) : k <= n) => n = end
    BY <1>1, <2>1 DEF Covering
  <2>3. Greatest(Covering(longer, p)) = end
    BY <2>1, <2>2 DEF Greatest
  <2>4. LastOf(longer, p) = BitOf(write, p)
    BY <1>1, <2>1, <2>3 DEF LastOf
  <2> QED BY <1>3, <2>4 DEF longer
<1>4. CASE ~Covers(write, p)
  <2>1. Covering(longer, p) = Covering(list, p)
    BY <1>1, <1>4 DEF Covering
  <2>2. CASE Covering(list, p) = {}
    BY <1>4, <2>1, <2>2 DEF LastOf, longer
  <2>3. CASE Covering(list, p) # {}
    <3>1. Greatest(Covering(list, p)) \in Covering(list, p)
      BY <1>1, <1>2, <2>3, GreatestOf DEF Greatest
    <3>2. longer[Greatest(Covering(list, p))] = list[Greatest(Covering(list, p))]
      BY <1>1, <3>1 DEF Covering
    <3>3. LastOf(longer, p) = LastOf(list, p)
      BY <2>1, <2>3, <3>2 DEF LastOf
    <3> QED BY <1>4, <3>3 DEF longer
  <2> QED BY <2>2, <2>3
<1> QED BY <1>3, <1>4

(* LastWriteWins and the shape of the history it speaks of.                *)
Written ==
  /\ DOMAIN writes = Opened
  /\ \A h \in Opened : \E S : writes[h] \in Seq(S)
  /\ \A h \in Opened : handles[h].bytes # None =>
       \A p \in DOMAIN handles[h].bytes : handles[h].bytes[p] = LastOf(writes[h], p)

LEMMA WrittenIsLastWrite == Written => LastWriteWins
  BY DEF Written, LastWriteWins, LastBit, LastOf, Covering, Greatest, BitOf

LEMMA KeepsWritten ==
  ASSUME Written, Opened' = Opened, writes' = writes,
         \A h \in Opened : handles'[h].bytes = handles[h].bytes
  PROVE  Written'
  BY DEF Written

(* A step that gives one handle new bytes and a new history.               *)
LEMMA NewBytesAreWritten ==
  ASSUME TypeOK, Written, NEW h \in Opened, NEW bytes, NEW list, NEW S, list \in Seq(S),
         handles' = [handles EXCEPT ![h].bytes = bytes],
         writes' = [writes EXCEPT ![h] = list],
         \A p \in DOMAIN bytes : bytes[p] = LastOf(list, p)
  PROVE  Written'
<1>1. /\ Opened' = Opened
      /\ handles'[h].bytes = bytes
      /\ \A g \in Opened \ {h} : handles'[g] = handles[g]
  <2>1. handles[h] \in HandleStates
    BY DEF TypeOK
  <2> QED BY <2>1 DEF Opened, HandleStates
<1>2. /\ DOMAIN writes' = Opened
      /\ writes'[h] = list
      /\ \A g \in Opened \ {h} : writes'[g] = writes[g]
  BY DEF Written
<1> QED BY <1>1, <1>2 DEF Written

LEMMA OpenKeepsWritten ==
  ASSUME TypeOK, HandlesAreSound, Written, NEW site \in Sites,
         NEW config \in Configs[site[2]], Open(site, config)
  PROVE  Written'
<1>1. CASE site \in DOMAIN siteHandles
  BY <1>1, KeepsWritten DEF Open, Opened
<1>2. CASE site \notin DOMAIN siteHandles
  <2>1. /\ handles' = Put(handles, nextHandle, Fresh(site[2], config))
        /\ writes' = Put(writes, nextHandle, <<>>)
    BY <1>2 DEF Open
  <2>2. nextHandle \notin Opened
    BY SoundParts DEF SitesSound, TypeOK
  <2>3. /\ Opened' = Opened \cup {nextHandle} /\ DOMAIN writes' = Opened'
        /\ handles'[nextHandle] = Fresh(site[2], config) /\ writes'[nextHandle] = <<>>
        /\ \A h \in Opened : handles'[h] = handles[h] /\ writes'[h] = writes[h]
    BY <2>1, <2>2 DEF Opened, Put, Written
  <2>4. <<>> \in Seq({})
    OBVIOUS
  <2>5. ASSUME NEW h \in Opened' PROVE \E S : writes'[h] \in Seq(S)
    BY <2>3, <2>4 DEF Written
  <2>6. ASSUME NEW h \in Opened', handles'[h].bytes # None,
               NEW p \in DOMAIN handles'[h].bytes
        PROVE  handles'[h].bytes[p] = LastOf(writes'[h], p)
    <3>1. CASE h = nextHandle
      <4>1. handles'[h].bytes = Zeros(config.length)
        BY <2>3, <2>6, <3>1 DEF Fresh
      <4>2. handles'[h].bytes[p] = 0
        BY <2>6, <4>1 DEF Zeros
      <4> QED BY <2>3, <3>1, <4>2, LastOfNone
    <3>2. CASE h # nextHandle
      BY <2>3, <2>6, <3>2 DEF Written
    <3> QED BY <3>1, <3>2
  <2> QED BY <2>3, <2>5, <2>6 DEF Written
<1> QED BY <1>1, <1>2

LEMMA ClearKeepsWritten ==
  ASSUME TypeOK, Written, NEW h \in Opened, NEW n, Clear(h, n)
  PROVE  Written'
<1>1. \A p \in DOMAIN Zeros(n) : Zeros(n)[p] = LastOf(<<>>, p)
  BY LastOfNone DEF Zeros
<1>2. <<>> \in Seq({})
  OBVIOUS
<1>3. /\ handles' = [handles EXCEPT ![h].bytes = Zeros(n)]
      /\ writes' = [writes EXCEPT ![h] = <<>>]
  BY DEF Clear
<1> QED BY <1>1, <1>2, <1>3, NewBytesAreWritten

LEMMA SetFieldKeepsWritten ==
  ASSUME TypeOK, Written, NEW h \in Opened, NEW field, NEW bits, SetField(h, field, bits)
  PROVE  Written'
<1> DEFINE write == [field |-> field, bits |-> bits]
           bytes == WriteField(handles[h].bytes, field, bits)
           list  == Append(writes[h], write)
<1>1. PICK S : writes[h] \in Seq(S)
  BY DEF Written
<1>2. list \in Seq(S \cup {write})
  BY <1>1, SequencesGrow
<1>3. /\ handles' = [handles EXCEPT ![h].bytes = bytes]
      /\ writes' = [writes EXCEPT ![h] = list]
  BY DEF SetField
<1>4. handles[h].bytes # None
  BY DEF SetField, Fields
<1>5. ASSUME NEW p \in DOMAIN bytes PROVE bytes[p] = LastOf(list, p)
  <2>1. p \in DOMAIN handles[h].bytes
    BY DEF WriteField
  <2>2. LastOf(list, p) = IF Covers(write, p) THEN BitOf(write, p) ELSE LastOf(writes[h], p)
    <3> HIDE DEF write
    <3> QED BY <1>1, LastOfAppended
  <2>3. Covers(write, p) <=> \E i \in DOMAIN field : field[i] = p
    BY DEF Covers
  <2>4. BitOf(write, p) = bits[CHOOSE i \in DOMAIN field : field[i] = p]
    BY DEF BitOf
  <2>5. handles[h].bytes[p] = LastOf(writes[h], p)
    BY <1>4, <2>1 DEF Written
  <2>6. bytes[p] = IF \E i \in DOMAIN field : field[i] = p
                   THEN bits[CHOOSE i \in DOMAIN field : field[i] = p]
                   ELSE handles[h].bytes[p]
    BY <2>1 DEF WriteField
  <2> HIDE DEF write, bytes, list
  <2> QED BY <2>2, <2>3, <2>4, <2>5, <2>6
<1> HIDE DEF bytes, list
<1> QED BY <1>2, <1>3, <1>5, NewBytesAreWritten

LEMMA InitIsWritten == Init => Written
<1>1. DOMAIN <<>> = {}
  OBVIOUS
<1> QED BY <1>1 DEF Init, Written, Opened

LEMMA WrittenKept == TypeOK /\ HandlesAreSound /\ Written /\ [Next]_vars => Written'
<1> SUFFICES ASSUME TypeOK, HandlesAreSound, Written, [Next]_vars PROVE Written'
  OBVIOUS
<1>0. \A h \in Opened : handles[h] \in HandleStates
  BY DEF TypeOK
<1>1. CASE Elapse
  BY <1>1, KeepsWritten DEF Elapse, Opened
<1>2. CASE \E bus \in Buses, baud \in Bauds : InitBus(bus, baud)
  BY <1>2, KeepsWritten DEF InitBus, Opened
<1>3. CASE \E m \in Modules, bus \in Buses : InitModule(m, bus)
  BY <1>3, KeepsWritten DEF InitModule, Opened
<1>4. CASE \E site \in Sites : \E config \in Configs[site[2]] : Open(site, config)
  BY <1>4, OpenKeepsWritten
<1>5. CASE \E h, node \in Opened : Register(h, node)
  BY <1>0, <1>5, KeepsWritten DEF Register, HandleStates, Opened
<1>6. CASE \E h, node \in Opened : DTCSetActive(h, node)
  BY <1>0, <1>6, KeepsWritten DEF DTCSetActive, HandleStates, Opened
<1>7. CASE \E h, node \in Opened : DTCSetInactive(h, node)
  BY <1>0, <1>7, KeepsWritten DEF DTCSetInactive, HandleStates, Opened
<1>8. CASE \E h \in Opened : Receive(h)
  BY <1>0, <1>8, KeepsWritten DEF Receive, HandleStates, Opened
<1>9. CASE \E m \in Messages : DbcReceive(m)
  BY <1>9, KeepsWritten DEF DbcReceive, Opened
<1>10. CASE \E h \in Opened : \E n \in ClearLengths(h) : Clear(h, n)
  BY <1>10, ClearKeepsWritten
<1>11. CASE \E h \in Opened : \E field \in Fields(h) :
              \E bits \in [DOMAIN field -> Bits] : SetField(h, field, bits)
  BY <1>11, SetFieldKeepsWritten
<1>12. CASE Sends
  BY <1>12, SendsChangeNothing, KeepsWritten DEF Opened
<1>13. CASE CallRefused \/ UNCHANGED vars
  BY <1>13, KeepsWritten DEF CallRefused, vars, Opened
<1> QED
  BY <1>1, <1>2, <1>3, <1>4, <1>5, <1>6, <1>7, <1>8, <1>9, <1>10, <1>11, <1>12, <1>13
  DEF Next, Sends

(* In every transmit buffer, of any length, and whatever fields overlap,   *)
(* each bit is what the last setter that covers it has put there since the *)
(* buffer was cleared.                                                     *)
THEOREM BuffersHoldLastWrites == Spec => []LastWriteWins
<1>1. TypeOK /\ HandlesAreSound /\ Written /\ [Next]_vars => Written'
  BY WrittenKept
<1> QED BY <1>1, InitIsWritten, WrittenIsLastWrite, HandlesStaySound, TypeCorrect, PTL
        DEF Spec

-----------------------------------------------------------------------------
(* Masks and identifiers.                                                  *)

(* The weights double.                                                     *)
LEMMA WeightsDouble ==
  /\ Weights[1] = 1
  /\ \A i \in 1..30 : Weights[i] \in Nat /\ Weights[i] > 0
  /\ \A i \in 1..29 : Weights[i + 1] = 2 * Weights[i]
<1>1. \A i \in 1..30 : Weights[i] \in Nat /\ Weights[i] > 0
  BY DEF Weights
<1>2. \A i \in 1..29 : Weights[i + 1] = 2 * Weights[i]
  BY DEF Weights
<1> QED BY <1>1, <1>2 DEF Weights

(* A number is its quotient and its remainder.                             *)
LEMMA Parts ==
  ASSUME NEW W \in Nat, W > 0, NEW a \in Nat
  PROVE  /\ a \div W \in Nat /\ a % W \in Nat /\ a % W < W
         /\ a = (a \div W) * W + (a % W)
<1>q. PICK q : q = a \div W
  OBVIOUS
<1>r. PICK r : r = a % W
  OBVIOUS
<1>1. q \in Nat /\ r \in Nat /\ r < W
  BY <1>q, <1>r
<1>2. a = W * q + r
  BY <1>q, <1>r, SMT
<1>3. W * q = q * W
  BY <1>1
<1>4. a = q * W + r
  BY <1>2, <1>3
<1> QED BY <1>1, <1>4, <1>q, <1>r

(* One bit more of a number.                                               *)
LEMMA OneBitMore ==
  ASSUME NEW W \in Nat, W > 0, NEW a \in Nat
  PROVE  a % (2 * W) = ((a \div W) % 2) * W + (a % W)
<1>q. PICK q \in Nat : q = a \div W
  BY Parts
<1>r. PICK r \in Nat : r = a % W
  BY Parts
<1>1. a = q * W + r /\ r < W
  BY <1>q, <1>r, Parts
<1>s. PICK s \in Nat : s = q % 2
  OBVIOUS
<1>k. PICK k \in Nat : k = q \div 2
  OBVIOUS
<1>2. q = 2 * k + s /\ (s = 0 \/ s = 1)
  BY <1>s, <1>k
<1>W. PICK V \in Nat : V = 2 * W
  OBVIOUS
<1>t. PICK t \in Nat : t = s * W + r
  <2>1. CASE s = 0
    BY <2>1
  <2>2. CASE s = 1
    BY <2>2
  <2> QED BY <1>2, <2>1, <2>2
<1>3. a = k * V + t
  BY <1>1, <1>2, <1>W, <1>t
<1>4. t < V /\ V > 0
  <2>1. CASE s = 0
    BY <2>1, <1>1, <1>W, <1>t
  <2>2. CASE s = 1
    BY <2>2, <1>1, <1>W, <1>t
  <2> QED BY <1>2, <2>1, <2>2
<1>5. a % V = t
  BY <1>3, <1>4, Quotients
<1>6. a % (2 * W) = t
  BY <1>5, <1>W
<1> QED BY <1>6, <1>t, <1>s, <1>q, <1>r, Zenon

(* Numbers with the same low bits have the same remainder.                 *)
LEMMA BitsDecide ==
  ASSUME NEW a \in Nat, NEW b \in Nat, NEW w \in 0..29
  PROVE  (\A i \in 0..(w - 1) : Bit(a, i) = Bit(b, i))
           <=> a % Weights[w + 1] = b % Weights[w + 1]
<1> DEFINE Same(n) == \A i \in 0..(n - 1) : Bit(a, i) = Bit(b, i)
           Equal(n) == a % Weights[n + 1] = b % Weights[n + 1]
           S == {n \in 0..29 : ~(Same(n) <=> Equal(n))}
<1> SUFFICES ASSUME S # {} PROVE FALSE
  OBVIOUS
<1>1. Same(0) /\ Equal(0)
  BY WeightsDouble
<1>2. ASSUME NEW n \in 0..28
      PROVE  /\ Same(n + 1) <=> Same(n) /\ Bit(a, n) = Bit(b, n)
             /\ Equal(n + 1) <=> Equal(n) /\ Bit(a, n) = Bit(b, n)
  <2>1. Same(n + 1) <=> Same(n) /\ Bit(a, n) = Bit(b, n)
    <3>1. 0..((n + 1) - 1) = (0..(n - 1)) \cup {n}
      OBVIOUS
    <3> QED BY <3>1
  <2>W. PICK W : W = Weights[n + 1]
    OBVIOUS
  <2>2. W \in Nat /\ W > 0 /\ Weights[(n + 1) + 1] = 2 * W
    <3>1. n + 1 \in 1..29 /\ n + 1 \in 1..30
      OBVIOUS
    <3> QED BY <2>W, <3>1, WeightsDouble
  <2>3. /\ Bit(a, n) = (a \div W) % 2 /\ Bit(b, n) = (b \div W) % 2
        /\ Equal(n) <=> a % W = b % W
        /\ Equal(n + 1) <=> a % (2 * W) = b % (2 * W)
    BY <2>2, <2>W DEF Bit
  <2> HIDE DEF Same, Equal
  <2>p. PICK p \in Nat : p = a % W
    BY <2>2, Parts
  <2>q. PICK q \in Nat : q = b % W
    BY <2>2, Parts
  <2>4. p < W /\ q < W
    BY <2>2, <2>p, <2>q, Parts
  <2>x. PICK x \in {0, 1} : x = (a \div W) % 2
    BY <2>2, Parts
  <2>y. PICK y \in {0, 1} : y = (b \div W) % 2
    BY <2>2, Parts
  <2>5. a % (2 * W) = x * W + p /\ b % (2 * W) = y * W + q
    <3>1. a % (2 * W) = ((a \div W) % 2) * W + (a % W)
      BY <2>2, OneBitMore
    <3>2. b % (2 * W) = ((b \div W) % 2) * W + (b % W)
      BY <2>2, OneBitMore
    <3> QED BY <3>1, <3>2, <2>p, <2>q, <2>x, <2>y, Zenon
  <2>6. x * W + p = y * W + q <=> x = y /\ p = q
    <3>1. CASE x = 0 /\ y = 0
      BY <3>1, <2>2
    <3>2. CASE x = 0 /\ y = 1
      BY <3>2, <2>2, <2>4
    <3>3. CASE x = 1 /\ y = 0
      BY <3>3, <2>2, <2>4
    <3>4. CASE x = 1 /\ y = 1
      BY <3>4, <2>2
    <3> QED BY <3>1, <3>2, <3>3, <3>4
  <2> QED BY <2>1, <2>3, <2>5, <2>6, <2>p, <2>q, <2>x, <2>y
<1>3. S \in SUBSET Nat
  OBVIOUS
<1>4. PICK n \in S : \A m \in S : n <= m
  BY <1>3, LeastOf
<1>5. n \in 0..29 /\ ~(Same(n) <=> Equal(n))
  OBVIOUS
<1> HIDE DEF Same, Equal
<1>6. n # 0
  BY <1>1, <1>5
<1>m. PICK m \in 0..28 : m = n - 1
  BY <1>5, <1>6
<1>7. Same(m) <=> Equal(m)
  <2>1. m \notin S
    <3> HIDE DEF S
    <3> QED BY <1>4, <1>5, <1>m
  <2> QED BY <2>1
<1>8. n = m + 1
  BY <1>5, <1>m
<1> QED BY <1>2, <1>5, <1>7, <1>8

(* Identifiers and masks.                                                  *)
LEMMA AcceptsAll ==
  ASSUME NEW match \in Nat, NEW id \in Nat, NEW extended \in BOOLEAN,
         id < IdentifierSpan(extended)
  PROVE  Accepts(match, 0, extended, id) <=> id = match % IdentifierSpan(extended)
<1>w. PICK w \in 0..29 : w = IdentifierBits(extended)
  BY DEF IdentifierBits
<1>V. PICK V : V = IdentifierSpan(extended)
  OBVIOUS
<1>1. V = Weights[w + 1] /\ V \in Nat /\ V > 0
  BY <1>w, <1>V, WeightsDouble DEF IdentifierSpan
<1>2. \A i \in 0..(w - 1) : Bit(0, i) # 1
  <2> SUFFICES ASSUME NEW i \in 0..(w - 1) PROVE Bit(0, i) # 1
    OBVIOUS
  <2>1. PICK W \in Nat : W = Weights[i + 1] /\ W > 0
    BY WeightsDouble
  <2>2. 0 \div W = 0
    BY <2>1
  <2> QED BY <2>1, <2>2 DEF Bit
<1>3. (\A i \in 0..(w - 1) : Bit(id, i) = Bit(match, i)) <=> id % V = match % V
  BY <1>1, BitsDecide
<1>4. id % V = id
  BY <1>1, <1>V
<1>5. Accepts(match, 0, extended, id) <=> (id = match \/ id % V = match % V)
  BY <1>w, <1>2, <1>3 DEF Accepts
<1> QED BY <1>4, <1>5, <1>V

(* An identifier without its priority is its group and its source.         *)
LEMMA LowestParts ==
  ASSUME NEW id \in Nat
  PROVE  /\ AtLowest(id) = ((id \div 256) % GroupSpan) * 256 + (id % 256)
         /\ (id \div 256) % GroupSpan \in 0..(GroupSpan - 1)
         /\ id % 256 \in 0..255
<1>s. PICK s \in Nat : s = id % 256 /\ s < 256
  OBVIOUS
<1>t. PICK t \in Nat : t = id \div 256
  OBVIOUS
<1>r. PICK r \in Nat : r = t % GroupSpan /\ r < GroupSpan
  BY DEF GroupSpan
<1>p. PICK p \in Nat : p = t \div GroupSpan
  BY DEF GroupSpan
<1>1. id = t * 256 + s
  BY <1>s, <1>t
<1>2. t = p * GroupSpan + r
  BY <1>r, <1>p DEF GroupSpan
<1>3. id = p * (GroupSpan * 256) + (r * 256 + s)
  BY <1>1, <1>2 DEF GroupSpan
<1>W. PICK W \in Nat : W = GroupSpan * 256 /\ W > 0
  BY DEF GroupSpan
<1>l. PICK l \in Nat : l = r * 256 + s /\ l < W
  BY <1>r, <1>s, <1>W DEF GroupSpan
<1>4. id % W = l
  <2>1. id = p * W + l
    BY <1>3, <1>W, <1>l
  <2> QED BY <2>1, <1>W, <1>l, Quotients
<1>5. GroupSpan \in Nat
  BY DEF GroupSpan
<1>6. AtLowest(id) = r * 256 + s
  BY <1>4, <1>W, <1>l DEF AtLowest
<1> QED BY <1>5, <1>6, <1>s, <1>t, <1>r

Sources == {AnySource} \cup 0..255

Matched(id, pgn, address, source) ==
  /\ DecodeIdentifier(id).pgn = pgn
  /\ DecodeIdentifier(id).destination \in {Everyone, Broadcast, address}
  /\ source \in {AnySource, DecodeIdentifier(id).source}

Encoded(id, pgn, address, source) ==
  \E destination \in {address, Broadcast} :
    AtLowest(id) = EncodeIdentifier(0, pgn, destination,
                     IF source = AnySource THEN id % 256 ELSE source)

SameBytes(r, l, s, t) ==
  r \in Nat /\ l \in Nat /\ s \in 0..255 /\ t \in 0..255 /\ r * 256 + s = l * 256 + t

LEMMA TwoBytes ==
  ASSUME NEW r, NEW l, NEW s, NEW t, SameBytes(r, l, s, t)
  PROVE  r = l /\ s = t
BY DEF SameBytes

(* A group matches just the identifiers that could have been put together  *)
(* for it.                                                                 *)
LEMMA GroupIsEncoded ==
  ASSUME NEW id \in Nat, NEW pgn \in Groups, NEW address \in 0..255,
         NEW source \in Sources
  PROVE  Matched(id, pgn, address, source) <=> Encoded(id, pgn, address, source)
<1>s. PICK s \in 0..255 : s = id % 256
  BY LowestParts
<1>G. GroupSpan \in Nat
  BY DEF GroupSpan
<1>0. (id \div 256) % GroupSpan \in Nat /\ (id \div 256) % GroupSpan < GroupSpan
  <2>1. PICK m : m = (id \div 256) % GroupSpan
    OBVIOUS
  <2>2. m \in 0..(GroupSpan - 1)
    BY <2>1, LowestParts
  <2>3. m \in Nat /\ m < GroupSpan
    BY <1>G, <2>2
  <2> QED BY <2>1, <2>3
<1>r. PICK r \in Nat : r = (id \div 256) % GroupSpan
  BY <1>0
<1>f. PICK from \in 0..255 : from = IF source = AnySource THEN s ELSE source
  BY <1>s DEF Sources
<1>1. AtLowest(id) = r * 256 + s
  BY <1>s, <1>r, LowestParts
<1>2. /\ DecodeIdentifier(id).pgn = IF Addressed(r) THEN r - (r % 256) ELSE r
      /\ DecodeIdentifier(id).destination = IF Addressed(r) THEN r % 256 ELSE Everyone
      /\ DecodeIdentifier(id).source = s
  BY <1>s, <1>r DEF DecodeIdentifier
<1>3. pgn \in Nat /\ pgn < GroupSpan /\ (Addressed(pgn) => pgn % 256 = 0)
  BY DEF Groups
<1> DEFINE Low(d) == IF Addressed(pgn) THEN pgn + d ELSE pgn
<1>4. ASSUME NEW d \in 0..255
      PROVE  /\ Low(d) \in Nat
             /\ AtLowest(id) = EncodeIdentifier(0, pgn, d, from) <=> r = Low(d) /\ s = from
  <2>l. PICK l \in Nat : l = Low(d)
    BY <1>3
  <2>1. EncodeIdentifier(0, pgn, d, from) = l * 256 + from
    <3>1. CASE Addressed(pgn)
      BY <1>3, <1>f, <2>l, <3>1 DEF EncodeIdentifier, GroupSpan
    <3>2. CASE ~Addressed(pgn)
      BY <1>3, <1>f, <2>l, <3>2 DEF EncodeIdentifier, GroupSpan
    <3> QED BY <3>1, <3>2
  <2>2. r * 256 + s = l * 256 + from <=> r = l /\ s = from
    <3>1. r \in Nat
      BY <1>r
    <3>2. l \in Nat
      BY <2>l
    <3>3. s \in 0..255
      BY <1>s
    <3>4. from \in 0..255
      BY <1>f
    <3>5. r * 256 + s = l * 256 + from => r = l /\ s = from
      <4> SUFFICES ASSUME r * 256 + s = l * 256 + from PROVE r = l /\ s = from
        OBVIOUS
      <4>1. SameBytes(r, l, s, from)
        BY <3>1, <3>2, <3>3, <3>4 DEF SameBytes
      <4> QED BY <4>1, TwoBytes
    <3> QED BY <3>5
  <2> QED BY <1>1, <2>1, <2>2, <2>l
<1>5. s = from <=> source \in {AnySource, s}
  BY <1>f DEF AnySource
<1>6. address \in 0..255 /\ Broadcast \in 0..255 /\ Everyone \notin 0..255
  BY DEF Broadcast, Everyone
<1>7. (\E d \in {address, Broadcast} : r = Low(d))
       <=> /\ DecodeIdentifier(id).pgn = pgn
           /\ DecodeIdentifier(id).destination \in {Everyone, Broadcast, address}
  <2>b. PICK b \in 0..255 : b = r % 256
    BY <1>r
  <2>1. ASSUME NEW d \in 0..255, Addressed(pgn), r = pgn + d
        PROVE  Addressed(r) /\ b = d
    <3>1. r \div 256 = pgn \div 256 /\ r % 256 = d
      BY <2>1, DestinationFits, ZenonT(60)
    <3> QED BY <2>1, <2>b, <3>1 DEF Addressed, PduFormat
  <2>2. ASSUME Addressed(r) PROVE Addressed(r - b)
    <3>1. (r - b) \div 256 = r \div 256
      BY <1>r, <2>b
    <3> QED BY <2>2, <3>1 DEF Addressed, PduFormat
  <2>3. CASE Addressed(pgn) /\ Addressed(r)
    <3>1. /\ DecodeIdentifier(id).pgn = r - b
          /\ DecodeIdentifier(id).destination = b
      BY <1>2, <2>3, <2>b
    <3>2. ASSUME NEW d \in 0..255 PROVE r = Low(d) <=> r - b = pgn /\ b = d
      <4>1. Low(d) = pgn + d
        BY <2>3
      <4>2. r = pgn + d => b = d
        BY <2>1, <2>3
      <4> QED BY <1>r, <1>3, <4>1, <4>2
    <3>3. r = Low(address) <=> r - b = pgn /\ b = address
      BY <1>6, <3>2
    <3>4. r = Low(Broadcast) <=> r - b = pgn /\ b = Broadcast
      BY <1>6, <3>2
    <3> HIDE DEF Low
    <3> QED BY <1>6, <3>1, <3>3, <3>4
  <2>4. CASE Addressed(pgn) /\ ~Addressed(r)
    <3>1. \A d \in 0..255 : r # Low(d)
      BY <2>1, <2>4
    <3>2. DecodeIdentifier(id).pgn = r /\ r # pgn
      BY <1>2, <2>4
    <3> HIDE DEF Low
    <3> QED BY <1>6, <3>1, <3>2
  <2>5. CASE ~Addressed(pgn) /\ Addressed(r)
    <3>1. r # pgn /\ \A d : Low(d) = pgn
      BY <2>5
    <3>2. DecodeIdentifier(id).pgn = r - b /\ r - b # pgn
      BY <1>2, <2>2, <2>5, <2>b
    <3> QED BY <3>1, <3>2
  <2>6. CASE ~Addressed(pgn) /\ ~Addressed(r)
    <3>1. \A d : Low(d) = pgn
      BY <2>6
    <3>2. /\ DecodeIdentifier(id).pgn = r
          /\ DecodeIdentifier(id).destination = Everyone
      BY <1>2, <2>6
    <3> QED BY <3>1, <3>2
  <2> QED BY <2>3, <2>4, <2>5, <2>6
<1> HIDE DEF Low
<1>8. (\E d \in {address, Broadcast} : AtLowest(id) = EncodeIdentifier(0, pgn, d, from))
       <=> (\E d \in {address, Broadcast} : r = Low(d)) /\ s = from
  <2>1. \A d \in {address, Broadcast} :
          AtLowest(id) = EncodeIdentifier(0, pgn, d, from) <=> r = Low(d) /\ s = from
    BY <1>4, <1>6
  <2> QED BY <2>1
<1>9. from = IF source = AnySource THEN id % 256 ELSE source
  BY <1>f, <1>s
<1> QED BY <1>2, <1>5, <1>7, <1>8, <1>9 DEF Matched, Encoded

(* A reader hears what it wants: the masks and the fields of identifiers   *)
(* that the adapter compares come to what the call that set it up names.   *)
LEMMA WantsIsHears ==
  ASSUME TypeOK, HandlesAreSound, NEW r \in Readers, NEW f \in Frame,
         f.id < IdentifierSpan(f.extended)
  PROVE  Wants(r, f) <=> Hears(r, f)
<1>1. f.id \in Nat /\ f.extended \in BOOLEAN
  BY DEF Frame
<1>2. CASE r \in Messages
  <2>i. PICK id \in Nat : id = Identity[r].id
    BY <1>2, VirtualCanAssumption
  <2>1. Accepts(id, 0, f.extended, f.id) <=> f.id = id % IdentifierSpan(f.extended)
    BY <1>1, AcceptsAll
  <2>c. PICK config : config = MessageConfig(r)
    OBVIOUS
  <2>2. /\ config.bus = modules[ModuleOf[r]] /\ config.match = id /\ config.mask = 0
        /\ config.extended = Identity[r].extended
    BY <2>c, <2>i DEF MessageConfig
  <2>3. Hears(r, f) <=> /\ ModuleOf[r] \in DOMAIN modules
                        /\ f.bus = config.bus /\ f.extended = config.extended
                        /\ Accepts(config.match, config.mask, config.extended, f.id)
    BY <1>2, <2>c DEF Hears, MatchesConfig
  <2>4. Wants(r, f) <=> /\ ModuleOf[r] \in DOMAIN modules
                        /\ f.bus = modules[ModuleOf[r]]
                        /\ f.extended = Identity[r].extended
                        /\ f.id = id % IdentifierSpan(f.extended)
    BY <1>2, <2>i DEF Wants
  <2>5. f.extended = config.extended =>
          (Accepts(config.match, config.mask, config.extended, f.id)
             <=> f.id = id % IdentifierSpan(f.extended))
    BY <2>1, <2>2
  <2> QED BY <2>2, <2>3, <2>4, <2>5
<1>3. CASE r \notin Messages
  <2>1. ASSUME OpenedAs(r, "rxGroup"), handles[r].node # 0
        PROVE  MatchesGroup(f, NodeOf(r), handles[r].config)
                 <=> /\ f.bus = NodeOf(r).bus /\ f.extended
                     /\ \E destination \in {NodeOf(r).address, Broadcast} :
                          LET group == handles[r].config
                              from  == IF group.source = AnySource THEN f.id % 256
                                       ELSE group.source
                          IN  AtLowest(f.id) = EncodeIdentifier(0, group.pgn, destination, from)
    <3>g. PICK group : group = handles[r].config
      OBVIOUS
    <3>n. PICK node : node = NodeOf(r)
      OBVIOUS
    <3>1. group \in LegalConfigs["rxGroup"]
      BY <2>1, <3>g, VirtualCanAssumption DEF OpenedAs, TypeOK, Kinds
    <3>2. node \in LegalConfigs["node"]
      <4>1. OpenedAs(handles[r].node, "node")
        BY <2>1 DEF HandlesAreSound, OpenedAs
      <4> QED BY <3>n, <4>1, VirtualCanAssumption DEF OpenedAs, TypeOK, Kinds, NodeOf
    <3>3. group.pgn \in Groups /\ group.source \in {AnySource} \cup 0..255
      BY <3>1 DEF LegalConfigs
    <3>4. node.address \in 0..255
      BY <3>2 DEF LegalConfigs, Addresses
    <3>5. Matched(f.id, group.pgn, node.address, group.source)
            <=> Encoded(f.id, group.pgn, node.address, group.source)
      <4> DEFINE Same(id, pgn, address, source) ==
                   Matched(id, pgn, address, source) <=> Encoded(id, pgn, address, source)
      <4>1. \A id \in Nat, pgn \in Groups, address \in 0..255, source \in Sources :
              Same(id, pgn, address, source)
        BY GroupIsEncoded
      <4> HIDE DEF Same
      <4>2. group.source \in Sources
        BY <3>3 DEF Sources
      <4>3. Same(f.id, group.pgn, node.address, group.source)
        BY <1>1, <3>3, <3>4, <4>1, <4>2
      <4> QED BY <4>3 DEF Same
    <3>6. MatchesGroup(f, node, group)
            <=> /\ f.bus = node.bus /\ f.extended
                /\ DecodeIdentifier(f.id).pgn = group.pgn
                /\ DecodeIdentifier(f.id).destination \in {Everyone, Broadcast, node.address}
                /\ group.source \in {AnySource, DecodeIdentifier(f.id).source}
      BY DEF MatchesGroup
    <3> QED BY <3>5, <3>6, <3>g, <3>n DEF Matched, Encoded
  <2> QED BY <1>3, <2>1 DEF Hears, Wants
<1> QED BY <1>2, <1>3

-----------------------------------------------------------------------------
(* A set's elements in the order of a listing.                             *)

(* The places in the first n of a listing that are in D, and what is there.*)
Passed(q, n, D) == {l \in 1..n : q[l] \in D}
Got(q, n, D) == {q[l] : l \in Passed(q, n, D)}

LEMMA PassedCount ==
  ASSUME NEW rx, NEW S, NEW q, Lists(rx, q, S), NEW D \in SUBSET S,
         NEW n \in Nat, n <= Cardinality(S)
  PROVE  /\ IsFiniteSet(Passed(q, n, D)) /\ IsFiniteSet(D)
         /\ Cardinality(Passed(q, n, D)) \in Nat
         /\ Cardinality(Passed(q, n, D)) = Cardinality(Got(q, n, D))
<1>P. PICK P : P = Passed(q, n, D)
  OBVIOUS
<1>Q. PICK Q : Q = Got(q, n, D)
  OBVIOUS
<1>c. PICK c \in Nat : c = Cardinality(S)
  BY DEF Lists
<1>1. /\ IsFiniteSet(S) /\ q \in [1..c -> S]
      /\ \A l, m \in 1..c : q[l] = q[m] => l = m
  BY <1>c DEF Lists, Timed
<1>2. IsFiniteSet(D)
  BY <1>1, FS_Subset
<1>3. P \subseteq 1..n /\ \A l \in P : l \in 1..c
  BY <1>P, <1>c DEF Passed
<1>4. IsFiniteSet(P)
  <2>1. IsFiniteSet(1..n)
    BY UpTo
  <2> QED BY <1>3, <2>1, FS_Subset
<1>f. PICK f : f = [l \in P |-> q[l]]
  OBVIOUS
<1>5. f \in Bijection(P, Q)
  <2>0. Q = {q[l] : l \in P}
    BY <1>P, <1>Q DEF Got
  <2>1. f \in [P -> Q]
    BY <1>f, <2>0
  <2>2. \A l, m \in P : f[l] = f[m] => l = m
    BY <1>1, <1>3, <1>f
  <2>3. \A x \in Q : \E l \in P : f[l] = x
    BY <1>f, <2>0
  <2> QED BY <2>1, <2>2, <2>3 DEF Bijection, Injection, Surjection, IsInjective
<1>6. Cardinality(Q) = Cardinality(P)
  BY <1>4, <1>5, FS_Bijection DEF ExistsBijection
<1>7. Cardinality(P) \in Nat
  BY <1>4, FS_CardinalityType
<1> QED BY <1>2, <1>4, <1>6, <1>7, <1>P, <1>Q

(* As many of D are earlier than the n-th as the list has before it.       *)
LEMMA RankIsPlace ==
  ASSUME NEW rx, NEW S, NEW q, Lists(rx, q, S), NEW D \in SUBSET S,
         NEW m \in Nat, m + 1 <= Cardinality(S)
  PROVE  Rank(rx, D, q[m + 1]) = Cardinality(Passed(q, m, D))
<1>c. PICK c \in Nat : c = Cardinality(S)
  BY DEF Lists
<1>1. /\ Timed(rx, S) /\ q \in [1..c -> S] /\ Ascending(rx, q, c)
      /\ \A i \in S : \E l \in 1..c : q[l] = i
  BY <1>c DEF Lists
<1>n. PICK n \in 1..c : n = m + 1
  BY <1>c
<1>2. ASSUME NEW j \in D, Earlier(rx, j, q[n])
      PROVE  \E l \in Passed(q, m, D) : q[l] = j
  <2>1. PICK k \in 1..c : q[k] = j
    BY <1>1
  <2>2. ~(n < k) /\ n # k
    <3>1. j \in S /\ q[n] \in S
      BY <1>1
    <3>2. ~Earlier(rx, q[n], j) /\ j # q[n]
      BY <1>1, <1>2, <3>1, EarlierIsOrder
    <3> QED BY <1>1, <2>1, <3>2 DEF Ascending
  <2>3. k \in 1..m
    BY <2>2, <1>n
  <2> QED BY <2>1, <2>3 DEF Passed
<1>3. ASSUME NEW l \in Passed(q, m, D) PROVE q[l] \in D /\ Earlier(rx, q[l], q[n])
  <2>1. l \in 1..c /\ l < n /\ q[l] \in D
    BY <1>n, <1>c DEF Passed
  <2> QED BY <1>1, <2>1 DEF Ascending
<1>4. Before(rx, D, q[n]) = Got(q, m, D)
  BY <1>2, <1>3 DEF Got, Before
<1>5. m <= Cardinality(S)
  BY <1>c, <1>n
<1>6. Cardinality(Passed(q, m, D)) = Cardinality(Got(q, m, D))
  BY <1>5, PassedCount
<1> QED BY <1>4, <1>6, <1>n DEF Rank

(* i is the one of D with n earlier ones.                                  *)
IsNth(rx, D, n, i) ==
  /\ n < Cardinality(D)
  /\ i = CHOOSE j \in D : Cardinality({k \in D : Earlier(rx, k, j)}) = n

(* The element of D with m earlier ones is the one the list has next.      *)
LEMMA NthOfList ==
  ASSUME NEW rx, NEW S, NEW q, Lists(rx, q, S), NEW D \in SUBSET S,
         NEW m \in Nat, m + 1 <= Cardinality(S), q[m + 1] \in D
  PROVE  IsNth(rx, D, Cardinality(Passed(q, m, D)), q[m + 1])
<1>c. PICK c : c = Cardinality(Passed(q, m, D))
  OBVIOUS
<1>i. PICK i \in D : i = q[m + 1]
  OBVIOUS
<1>1. Rank(rx, D, i) = c
  BY <1>c, <1>i, RankIsPlace
<1>2. Timed(rx, S) /\ i \in S /\ Cardinality(D) \in Nat
  <2>1. Timed(rx, S) /\ IsFiniteSet(D)
    BY FS_Subset DEF Lists, Timed
  <2> QED BY <2>1, FS_CardinalityType
<1>3. c \in 0..(Cardinality(D) - 1)
  BY <1>1, <1>2, RanksAscend
<1>4. ASSUME NEW j \in D, Rank(rx, D, j) = c PROVE j = i
  <2>1. ~Earlier(rx, i, j) /\ ~Earlier(rx, j, i)
    <3>1. /\ Earlier(rx, i, j) => Rank(rx, D, i) < Rank(rx, D, j)
          /\ Earlier(rx, j, i) => Rank(rx, D, j) < Rank(rx, D, i)
      BY <1>2, RanksAscend
    <3> QED BY <3>1, <1>1, <1>3, <1>4
  <2>2. j \in S
    OBVIOUS
  <2> QED BY <1>2, <2>1, <2>2, EarlierIsOrder
<1>5. i = CHOOSE j \in D : Rank(rx, D, j) = c
  BY <1>1, <1>4
<1>6. c < Cardinality(D)
  BY <1>2, <1>3
<1> QED BY <1>5, <1>6, <1>c, <1>i DEF IsNth, Rank, Before

(* All of D is passed.                                                     *)
LEMMA AllPassed ==
  ASSUME NEW rx, NEW S, NEW q, Lists(rx, q, S), NEW D \in SUBSET S,
         NEW n \in Nat, n <= Cardinality(S),
         \A m \in 1..Cardinality(S) : q[m] \in D => m <= n
  PROVE  Cardinality(Passed(q, n, D)) = Cardinality(D)
<1>1. ASSUME NEW i \in D PROVE \E l \in Passed(q, n, D) : q[l] = i
  <2>1. PICK m \in 1..Cardinality(S) : q[m] = i
    BY DEF Lists
  <2>2. m \in 1..n
    BY <2>1
  <2> QED BY <2>1, <2>2 DEF Passed
<1>2. \A l \in Passed(q, n, D) : q[l] \in D
  BY DEF Passed
<1>3. Got(q, n, D) = D
  BY <1>1, <1>2 DEF Got
<1> QED BY <1>3, PassedCount

-----------------------------------------------------------------------------
(* Flattening.                                                             *)

(* f flattens the first n of s.                                            *)
Flattens(f, s, n) ==
  f = [i \in 1..n |-> IF i = 1 THEN s[i] ELSE f[i - 1] \o s[i]]

LEMMA FlatteningExists ==
  ASSUME NEW V, NEW s \in Seq(Seq(V)), NEW n \in 0..Len(s)
  PROVE  \E f : Flattens(f, s, n) /\ f \in [1..n -> Seq(V)]
<1> DEFINE Can(m) == \E f : Flattens(f, s, m) /\ f \in [1..m -> Seq(V)]
           S == {m \in 0..Len(s) : ~Can(m)}
<1> SUFFICES S = {}
  OBVIOUS
<1> SUFFICES ASSUME S # {} PROVE FALSE
  OBVIOUS
<1>0. S \in SUBSET Nat
  OBVIOUS
<1>1. PICK m \in S : \A k \in S : m <= k
  BY <1>0, LeastOf
<1>2. m \in Nat /\ m <= Len(s) /\ ~Can(m)
  OBVIOUS
<1>3. CASE m = 0
  <2>1. Flattens(<<>>, s, 0) /\ <<>> \in [1..0 -> Seq(V)]
    BY DEF Flattens
  <2> QED BY <1>2, <1>3, <2>1
<1>4. CASE m > 0
  <2>1. m - 1 \in 0..Len(s) /\ m - 1 \notin S
    <3> HIDE DEF Can
    <3>1. m - 1 \in Nat /\ ~(m <= m - 1) /\ m - 1 \in 0..Len(s)
      BY <1>2, <1>4
    <3> HIDE DEF S
    <3> QED BY <1>1, <3>1
  <2>2. Can(m - 1)
    BY <2>1
  <2>3. PICK f : Flattens(f, s, m - 1) /\ f \in [1..(m - 1) -> Seq(V)]
    BY <2>2
  <2> HIDE DEF S, Can
  <2> DEFINE g == [i \in 1..m |-> IF i = m THEN (IF m = 1 THEN s[m] ELSE f[m - 1] \o s[m]) ELSE f[i]]
  <2>4. \A i \in 1..m : s[i] \in Seq(V)
    BY <1>2
  <2>5. \A i \in 1..(m - 1) : f[i] = IF i = 1 THEN s[i] ELSE f[i - 1] \o s[i]
    BY <2>3 DEF Flattens
  <2>6. \A i \in 1..m : g[i] \in Seq(V)
    BY <1>2, <1>4, <2>3, <2>4
  <2>7. \A i \in 1..m : g[i] = IF i = 1 THEN s[i] ELSE g[i - 1] \o s[i]
    <3> SUFFICES ASSUME NEW i \in 1..m PROVE g[i] = IF i = 1 THEN s[i] ELSE g[i - 1] \o s[i]
      OBVIOUS
    <3>1. CASE i = m
      BY <3>1, <1>2, <1>4
    <3>2. CASE i # m
      <4>1. i \in 1..(m - 1) /\ g[i] = f[i]
        BY <3>2, <1>2
      <4>2. i # 1 => i - 1 \in 1..m /\ i - 1 # m /\ g[i - 1] = f[i - 1]
        BY <4>1, <1>2
      <4> QED BY <4>1, <4>2, <2>5
    <3> QED BY <3>1, <3>2
  <2>8. g \in [1..m -> Seq(V)]
    BY <2>6
  <2> HIDE DEF g
  <2>9. Flattens(g, s, m)
    BY <2>7, <2>8 DEF Flattens
  <2> QED BY <2>8, <2>9, <1>2 DEF Can
<1> QED BY <1>2, <1>3, <1>4

Agree(s, t, n) == \A i \in 1..n : s[i] = t[i]

(* Two flattenings agree as far as both go.                                *)
LEMMA FlatteningUnique ==
  ASSUME NEW s, NEW t, NEW n \in Nat, NEW m \in Nat, NEW f, NEW g,
         Flattens(f, s, n), Flattens(g, t, m), n <= m, Agree(s, t, n)
  PROVE  Agree(f, g, n)
<1> DEFINE S == {i \in 1..n : f[i] # g[i]}
<1> SUFFICES ASSUME S # {} PROVE FALSE
  BY DEF Agree
<1>0. S \in SUBSET Nat
  OBVIOUS
<1>1. PICK k \in S : \A j \in S : k <= j
  BY <1>0, LeastOf
<1>2. k \in 1..n /\ f[k] # g[k]
  OBVIOUS
<1>3. k > 1 => f[k - 1] = g[k - 1]
  BY <1>1, <1>2
<1> HIDE DEF S
<1>4. f[k] = IF k = 1 THEN s[k] ELSE f[k - 1] \o s[k]
  BY <1>2 DEF Flattens
<1>5. g[k] = IF k = 1 THEN t[k] ELSE g[k - 1] \o t[k]
  <2>1. k \in 1..m
    BY <1>2
  <2> QED BY <2>1 DEF Flattens
<1>6. s[k] = t[k]
  BY <1>2 DEF Agree
<1> QED BY <1>2, <1>3, <1>4, <1>5, <1>6

LEMMA FlattenOf ==
  ASSUME NEW V, NEW s \in Seq(Seq(V))
  PROVE  /\ Len(s) = 0 => FlattenSeq(s) = <<>>
         /\ Len(s) > 0 => \E f : /\ Flattens(f, s, Len(s)) /\ f \in [1..Len(s) -> Seq(V)]
                                 /\ FlattenSeq(s) = f[Len(s)]
<1>1. CASE Len(s) = 0
  BY <1>1 DEF FlattenSeq
<1>2. CASE Len(s) > 0
  <2>0. Len(s) \in 0..Len(s)
    OBVIOUS
  <2> DEFINE h == CHOOSE f : f = [i \in 1..Len(s) |-> IF i = 1 THEN s[i] ELSE f[i - 1] \o s[i]]
  <2>1. PICK f : Flattens(f, s, Len(s)) /\ f \in [1..Len(s) -> Seq(V)]
    BY <2>0, FlatteningExists
  <2>2. h = [i \in 1..Len(s) |-> IF i = 1 THEN s[i] ELSE h[i - 1] \o s[i]]
    BY <2>1 DEF Flattens
  <2>3. FlattenSeq(s) = h[Len(s)]
    BY <1>2 DEF FlattenSeq
  <2> HIDE DEF h
  <2>4. Flattens(h, s, Len(s))
    BY <2>2 DEF Flattens
  <2>5. \A i \in 1..Len(s) : h[i] = f[i]
    <3>1. Agree(s, s, Len(s))
      BY DEF Agree
    <3>2. Agree(h, f, Len(s))
      BY <2>1, <2>4, <3>1, FlatteningUnique
    <3> QED BY <3>2 DEF Agree
  <2>6. h = f
    <3>1. h = [i \in 1..Len(s) |-> h[i]]
      BY <2>2
    <3>2. f = [i \in 1..Len(s) |-> f[i]]
      BY <2>1
    <3> QED BY <3>1, <3>2, <2>5
  <2> QED BY <2>1, <2>3, <2>6, <1>2, SMTT(30)
<1> QED BY <1>1, <1>2

(* Flattening one sequence more.                                           *)
LEMMA FlattenGrows ==
  ASSUME NEW V, NEW s \in Seq(Seq(V)), NEW x \in Seq(V)
  PROVE  /\ FlattenSeq(s) \in Seq(V)
         /\ FlattenSeq(Append(s, x)) = FlattenSeq(s) \o x
<1> PICK n \in Nat : n = Len(s)
  OBVIOUS
<1>1. PICK t : t = Append(s, x)
  OBVIOUS
<1>2. /\ t \in Seq(Seq(V)) /\ Len(t) = n + 1 /\ t[n + 1] = x
      /\ \A i \in 1..n : t[i] = s[i]
  BY <1>1
<1>3. PICK g : Flattens(g, t, n + 1) /\ FlattenSeq(t) = g[n + 1]
  BY <1>2, FlattenOf, SMTT(30)
<1>4. g[n + 1] = IF n + 1 = 1 THEN t[n + 1] ELSE g[n] \o t[n + 1]
  <2>1. n + 1 \in 1..(n + 1) /\ (n + 1) - 1 = n
    OBVIOUS
  <2>2. g = [i \in 1..(n + 1) |-> IF i = 1 THEN t[i] ELSE g[i - 1] \o t[i]]
    BY <1>3 DEF Flattens
  <2>3. g[n + 1] = IF n + 1 = 1 THEN t[n + 1] ELSE g[(n + 1) - 1] \o t[n + 1]
    BY <2>1, <2>2
  <2> QED BY <2>1, <2>3
<1>5. CASE n = 0
  BY <1>1, <1>2, <1>3, <1>4, <1>5, FlattenOf
<1>6. CASE n > 0
  <2>1. PICK f : Flattens(f, s, n) /\ f \in [1..n -> Seq(V)] /\ FlattenSeq(s) = f[n]
    BY <1>6, FlattenOf
  <2>2. f[n] = g[n]
    <3>1. Agree(f, g, n)
      <4>1. PICK m \in Nat : m = n + 1
        OBVIOUS
      <4>2. Agree(s, t, n)
        BY <1>2 DEF Agree
      <4>3. Flattens(f, s, n) /\ Flattens(g, t, m) /\ n <= m
        BY <2>1, <1>3, <4>1
      <4> QED BY <4>2, <4>3, FlatteningUnique
    <3> QED BY <3>1, <1>6 DEF Agree
  <2>3. f[n] \in Seq(V)
    BY <2>1, <1>6
  <2> QED BY <1>1, <1>2, <1>3, <1>4, <1>6, <2>1, <2>2, <2>3
<1> QED BY <1>5, <1>6

LEMMA ConcatOne ==
  ASSUME NEW V, NEW a \in Seq(V), NEW x \in V
  PROVE  a \o <<x>> = Append(a, x)
OBVIOUS

LEMMA ConcatEmpty ==
  ASSUME NEW V, NEW a \in Seq(V)
  PROVE  a \o <<>> = a
OBVIOUS

LEMMA SameSequence ==
  ASSUME NEW V, NEW a \in Seq(V), NEW b \in Seq(V), Len(a) = Len(b),
         \A n \in 1..Len(a) : a[n] = b[n]
  PROVE  a = b
OBVIOUS

LEMMA IsSequence ==
  ASSUME NEW V, NEW n \in Nat, NEW s, s = [i \in 1..n |-> s[i]], \A i \in 1..n : s[i] \in V
  PROVE  s \in Seq(V) /\ Len(s) = n
OBVIOUS

(* t is s and x behind it.                                                 *)
OneMore(W, s, x, n, t) ==
  /\ n \in Nat /\ s \in Seq(W) /\ x \in W /\ Len(s) = n
  /\ t = [i \in 1..(n + 1) |-> t[i]]
  /\ t[n + 1] = x /\ \A i \in 1..n : t[i] = s[i]

LEMMA AppendIs ==
  ASSUME NEW W, NEW s, NEW x, NEW n, NEW t, OneMore(W, s, x, n, t)
  PROVE  t = Append(s, x)
<1>1. /\ n \in Nat /\ s \in Seq(W) /\ x \in W /\ Len(s) = n
      /\ t = [i \in 1..(n + 1) |-> t[i]]
      /\ t[n + 1] = x /\ \A i \in 1..n : t[i] = s[i]
  BY DEF OneMore
<1>a. PICK a : a = Append(s, x)
  OBVIOUS
<1>2. /\ a \in Seq(W) /\ Len(a) = n + 1
      /\ \A i \in 1..(n + 1) : a[i] = IF i = n + 1 THEN x ELSE s[i]
  BY <1>1, <1>a
<1>3. ASSUME NEW i \in 1..(n + 1) PROVE t[i] = a[i]
  <2>1. CASE i = n + 1
    BY <1>1, <1>2, <2>1
  <2>2. CASE i # n + 1
    <3>1. i \in 1..n
      BY <1>1, <2>2
    <3> QED BY <1>1, <1>2, <2>2, <3>1
  <2> QED BY <2>1, <2>2
<1>4. t \in Seq(W) /\ Len(t) = n + 1
  <2>1. \A i \in 1..(n + 1) : a[i] \in W /\ t[i] \in W
    BY <1>2, <1>3
  <2>m. PICK m : m = n + 1
    OBVIOUS
  <2>2. m \in Nat /\ t = [i \in 1..m |-> t[i]] /\ \A i \in 1..m : t[i] \in W
    BY <1>1, <2>1, <2>m
  <2> QED BY <2>2, <2>m, IsSequence
<1> QED BY <1>2, <1>3, <1>4, <1>a, SameSequence

-----------------------------------------------------------------------------
(* What the trace shows of a reader.                                       *)

Piece(e, r) == IF e.direction = "rx" /\ e.by = r THEN <<Content(e)>> ELSE <<>>

Pieces(r) == [i \in DOMAIN transfers |-> Piece(transfers[i], r)]

LEMMA TakenIsPieces == \A r : TakenBy(r) = FlattenSeq(Pieces(r))
  BY DEF TakenBy, Pieces, Piece

Contents(V) == \A r : Pieces(r) \in Seq(Seq(V))

LEMMA PiecesAreSequences ==
  ASSUME NEW S, transfers \in Seq(S)
  PROVE  /\ Contents({Content(e) : e \in S})
         /\ \A e \in S : \A r : Piece(e, r) \in Seq({Content(x) : x \in S})
<1>V. PICK V : V = {Content(e) : e \in S}
  OBVIOUS
<1>W. PICK W : W = Seq(V)
  OBVIOUS
<1>n. PICK n \in Nat : n = Len(transfers)
  OBVIOUS
<1>1. ASSUME NEW e \in S, NEW r PROVE Piece(e, r) \in W
  <2>1. Content(e) \in V
    BY <1>V
  <2> QED BY <2>1, <1>W DEF Piece
<1>2. ASSUME NEW r PROVE Pieces(r) \in Seq(W)
  <2>1. Pieces(r) = [i \in 1..n |-> Piece(transfers[i], r)]
    BY <1>n DEF Pieces
  <2>2. \A i \in 1..n : transfers[i] \in S /\ Piece(transfers[i], r) \in W
    BY <1>1, <1>n
  <2> QED BY <2>1, <2>2
<1> QED BY <1>1, <1>2, <1>V, <1>W DEF Contents

LEMMA TakenIsSequence ==
  ASSUME NEW V, Contents(V), NEW r
  PROVE  TakenBy(r) \in Seq(V) /\ Len(TakenBy(r)) \in Nat
<1>s. PICK s : s = Pieces(r)
  OBVIOUS
<1>1. s \in Seq(Seq(V)) /\ <<>> \in Seq(V)
  BY <1>s DEF Contents
<1>2. FlattenSeq(s) \in Seq(V)
  BY <1>1, FlattenGrows
<1>3. TakenBy(r) \in Seq(V)
  BY <1>2, <1>s, TakenIsPieces
<1> QED BY <1>3

(* One transfer more.                                                      *)
LEMMA TakenGrows ==
  ASSUME Listed, NEW e, transfers' = Append(transfers, e)
  PROVE  \A r : /\ e.direction = "rx" /\ e.by = r => TakenBy(r)' = Append(TakenBy(r), Content(e))
                /\ ~(e.direction = "rx" /\ e.by = r) => TakenBy(r)' = TakenBy(r)
                /\ e.direction = "rx" /\ e.by = r => Len(TakenBy(r)') = Len(TakenBy(r)) + 1
<1>1. PICK S : transfers \in Seq(S)
  BY DEF Listed
<1>n. PICK n \in Nat : n = Len(transfers)
  BY <1>1
<1>T. PICK T : T = S \cup {e}
  OBVIOUS
<1>2. /\ transfers \in Seq(T) /\ e \in T
      /\ DOMAIN transfers = 1..n /\ DOMAIN transfers' = 1..(n + 1)
      /\ transfers'[n + 1] = e /\ \A i \in 1..n : transfers'[i] = transfers[i]
  BY <1>1, <1>n, <1>T
<1>V. PICK V : V = {Content(x) : x \in T}
  OBVIOUS
<1>3. Contents(V) /\ \A r : Piece(e, r) \in Seq(V)
  BY <1>2, <1>V, PiecesAreSequences
<1>4. ASSUME NEW r PROVE TakenBy(r)' = TakenBy(r) \o Piece(e, r)
  <2>W. PICK W : W = Seq(V)
    OBVIOUS
  <2>s. PICK s : s = Pieces(r)
    OBVIOUS
  <2>t. PICK t : t = Pieces(r)'
    OBVIOUS
  <2>x. PICK x : x = Piece(e, r)
    OBVIOUS
  <2>1. s \in Seq(W) /\ x \in W
    BY <1>3, <2>W, <2>s, <2>x DEF Contents
  <2>2. s = [i \in 1..n |-> Piece(transfers[i], r)]
    BY <1>2, <2>s DEF Pieces
  <2>3. t = [i \in 1..(n + 1) |-> Piece(transfers'[i], r)]
    BY <1>2, <2>t DEF Pieces
  <2>4. Len(s) = n
    BY <2>1, <2>2
  <2>5. /\ t = [i \in 1..(n + 1) |-> t[i]]
        /\ t[n + 1] = x /\ \A i \in 1..n : t[i] = s[i]
    BY <1>2, <2>2, <2>3, <2>x
  <2>6. OneMore(W, s, x, n, t)
    BY <2>1, <2>4, <2>5 DEF OneMore
  <2>7. t = Append(s, x)
    BY <2>6, AppendIs
  <2>8. FlattenSeq(Append(s, x)) = FlattenSeq(s) \o x
    <3>1. s \in Seq(Seq(V)) /\ x \in Seq(V)
      BY <2>1, <2>W
    <3> QED BY <3>1, FlattenGrows
  <2>9. TakenBy(r)' = FlattenSeq(Pieces(r)')
    BY DEF TakenBy, Pieces, Piece
  <2> QED BY <2>7, <2>8, <2>9, <2>s, <2>t, <2>x, TakenIsPieces
<1>5. ASSUME NEW r, e.direction = "rx", e.by = r
      PROVE  TakenBy(r)' = Append(TakenBy(r), Content(e)) /\ Len(TakenBy(r)') = Len(TakenBy(r)) + 1
  <2>a. PICK a : a = TakenBy(r)
    OBVIOUS
  <2>x. PICK x : x = Content(e)
    OBVIOUS
  <2>1. a \in Seq(V) /\ x \in V
    BY <1>2, <1>3, <1>V, <2>a, <2>x, TakenIsSequence
  <2>2. Piece(e, r) = <<x>>
    BY <1>5, <2>x DEF Piece
  <2>3. a \o <<x>> = Append(a, x) /\ Len(Append(a, x)) = Len(a) + 1
    BY <2>1, ConcatOne
  <2> QED BY <1>4, <2>2, <2>3, <2>a, <2>x
<1>6. ASSUME NEW r, ~(e.direction = "rx" /\ e.by = r)
      PROVE  TakenBy(r)' = TakenBy(r)
  <2>a. PICK a : a = TakenBy(r)
    OBVIOUS
  <2>1. a \in Seq(V)
    BY <1>3, <2>a, TakenIsSequence
  <2>2. Piece(e, r) = <<>>
    BY <1>6 DEF Piece
  <2> QED BY <1>4, <2>1, <2>2, <2>a, ConcatEmpty
<1> QED BY <1>5, <1>6

-----------------------------------------------------------------------------
(* Reception.                                                              *)

(* Whatever a reader hears, once it is set up, stays the same.             *)
LEMMA HearsTheSame ==
  ASSUME TypeOK, HandlesAreSound, Settled, NEW r \in Opened \cup Messages,
         NEW f, Hears(r, f), NEW g
  PROVE  Hears(r, g)' <=> Hears(r, g)
<1>1. CASE r \in Messages
  BY <1>1 DEF Hears, Settled, MessageConfig
<1>2. CASE r \notin Messages
  <2>1. /\ r \in Opened /\ r \in Opened'
        /\ handles'[r].kind = handles[r].kind
        /\ handles'[r].config = handles[r].config
        /\ handles[r].node # 0 => handles'[r].node = handles[r].node
    BY <1>2 DEF Settled
  <2>2. CASE OpenedAs(r, "receive")
    BY <1>2, <2>1, <2>2 DEF Hears, OpenedAs
  <2>3. CASE OpenedAs(r, "rxGroup") /\ handles[r].node # 0
    <3>1. handles[r].node \in Opened
      BY <2>1, <2>3 DEF HandlesAreSound, OpenedAs
    <3>2. handles'[handles'[r].node].config = handles[handles[r].node].config
      BY <2>1, <2>3, <3>1 DEF Settled
    <3> QED BY <1>2, <2>1, <2>3, <3>2 DEF Hears, OpenedAs, NodeOf
  <2> QED BY <1>2, <2>2, <2>3 DEF Hears
<1> QED BY <1>1, <1>2

HeardUpTo(r, n) == {k \in 1..n : Hears(r, injections[k])}

(* A reader has been given as many frames as lie before its cursor and are *)
(* for it.                                                                 *)
CountedFor(r) == Len(TakenBy(r)) = Cardinality(HeardUpTo(r, ReadingOf(r).cursor))

InOrder ==
  /\ declared \in Seq(Frame) /\ injections = InTimeOrder(declared)
  /\ \A n \in DOMAIN declared : declared[n].id < IdentifierSpan(declared[n].extended)

ReceptionInv == InOrder /\ \A r \in Readers : CountedFor(r)

(* Where a cursor stands.                                                  *)
LEMMA CursorsStand ==
  ASSUME TypeOK, HandlesAreSound, NEW r \in Readers
  PROVE  /\ ReadingOf(r).cursor \in 0..Len(injections)
         /\ ReadingOf(r).cursor > 0 =>
              /\ r \in Opened \cup Messages
              /\ Hears(r, injections[ReadingOf(r).cursor])
              /\ injections[ReadingOf(r).cursor].time <= now * Grain
<1>0. Len(injections) \in Nat
  BY DEF TypeOK
<1>1. CASE r \in Opened \cup Messages
  BY <1>0, <1>1, ReadersHaveCursors, SoundParts DEF ReadingSound
<1>2. CASE r \notin Opened \cup Messages
  BY <1>0, <1>2 DEF ReadingOf, Unread
<1> QED BY <1>1, <1>2

LEMMA StaysCounted ==
  ASSUME TypeOK, HandlesAreSound, Settled, NEW r \in Readers, CountedFor(r),
         TakenBy(r)' = TakenBy(r), ReadingOf(r)' = ReadingOf(r)
  PROVE  CountedFor(r)'
<1>c. PICK c : c = ReadingOf(r).cursor
  OBVIOUS
<1>1. injections' = injections
  BY DEF Settled
<1>2. {k \in 1..c : Hears(r, injections[k])'} = {k \in 1..c : Hears(r, injections[k])}
  <2>1. CASE c = 0
    BY <2>1
  <2>2. CASE c > 0
    <3>1. r \in Opened \cup Messages /\ Hears(r, injections[c])
      BY <1>c, <2>2, CursorsStand
    <3>2. ASSUME NEW k \in 1..c PROVE Hears(r, injections[k])' <=> Hears(r, injections[k])
      <4>g. PICK g : g = injections[k]
        OBVIOUS
      <4>1. Hears(r, g)' <=> Hears(r, g)
        BY <3>1, HearsTheSame
      <4> QED BY <1>1, <4>1, <4>g DEF Hears, MessageConfig, NodeOf, OpenedAs
    <3> QED BY <3>2
  <2>3. c \in Nat
    BY <1>c, CursorsStand DEF TypeOK
  <2> QED BY <2>1, <2>2, <2>3
<1>3. HeardUpTo(r, ReadingOf(r).cursor)' = {k \in 1..c : Hears(r, injections[k])'}
  BY <1>c DEF HeardUpTo
<1>4. HeardUpTo(r, ReadingOf(r).cursor) = {k \in 1..c : Hears(r, injections[k])}
  BY <1>c DEF HeardUpTo
<1> QED BY <1>2, <1>3, <1>4 DEF CountedFor

(* Between the cursor and the frame that is next lies none for the reader; *)
(* if none is next, no frame beyond the cursor that is due is for it.      *)
LEMMA NextIsFirst ==
  ASSUME TypeOK, NEW r, ReadingOf(r).cursor \in Nat,
         NEW next, next = NextInjection(r), NEW i \in DOMAIN injections,
         i > ReadingOf(r).cursor, Hears(r, injections[i]),
         \A j \in (ReadingOf(r).cursor + 1)..i : injections[j].time <= now * Grain
  PROVE  next # 0 /\ next <= i
<1>c. PICK c \in Nat : c = ReadingOf(r).cursor
  OBVIOUS
<1>S. PICK S : S = {k \in DOMAIN injections :
                      /\ k > c
                      /\ \A j \in (c + 1)..k : injections[j].time <= now * Grain
                      /\ Hears(r, injections[k])}
  OBVIOUS
<1>1. S \in SUBSET Nat /\ \A k \in S : k # 0
  BY <1>S, <1>c DEF TypeOK
<1>2. i \in S
  BY <1>S, <1>c
<1>3. next = CHOOSE k \in S : \A j \in S : k <= j
  BY <1>S, <1>c, <1>2 DEF NextInjection
<1>4. next \in S /\ \A j \in S : next <= j
  <2>1. \E k \in S : \A j \in S : k <= j
    BY <1>1, <1>2, LeastOf
  <2> QED BY <1>3, <2>1
<1> QED BY <1>1, <1>2, <1>4

(* A reader that takes its next frame.                                     *)
LEMMA TakesOne ==
  ASSUME TypeOK, HandlesAreSound, Settled, now' = now, NEW r \in Readers, CountedFor(r),
         r \in Opened \cup Messages,
         NEW next, next = NextInjection(r), next # 0,
         ReadingOf(r)'.cursor = next, Len(TakenBy(r)') = Len(TakenBy(r)) + 1
  PROVE  CountedFor(r)'
<1>c. PICK c : c = ReadingOf(r).cursor
  OBVIOUS
<1>0. c \in Nat
  BY <1>c, CursorsStand DEF TypeOK
<1>1. /\ next \in Nat /\ next > c /\ next \in DOMAIN injections
      /\ Hears(r, injections[next])
  BY <1>0, <1>c, NextIsDue
<1>2. injections' = injections
  BY DEF Settled
<1>A. PICK A : A = {k \in 1..c : Hears(r, injections[k])}
  OBVIOUS
<1>B. PICK B : B = {k \in 1..next : Hears(r, injections[k])'}
  OBVIOUS
<1>3. ASSUME NEW k \in 1..next PROVE Hears(r, injections[k])' <=> Hears(r, injections[k])
  <2>g. PICK g : g = injections[k]
    OBVIOUS
  <2>1. Hears(r, g)' <=> Hears(r, g)
    BY <1>1, HearsTheSame
  <2> QED BY <1>2, <2>1, <2>g DEF Hears, MessageConfig, NodeOf, OpenedAs
<1>4. ASSUME NEW k \in 1..next, Hears(r, injections[k]), k > c PROVE k = next
  <2>1. k \in DOMAIN injections
    BY <1>1 DEF TypeOK
  <2>2. \A j \in (c + 1)..k : injections[j].time <= now * Grain
    <3>S. PICK S : S = {i \in DOMAIN injections :
                          /\ i > c
                          /\ \A j \in (c + 1)..i : injections[j].time <= now * Grain
                          /\ Hears(r, injections[i])}
      OBVIOUS
    <3>0. S \in SUBSET Nat
      BY <3>S DEF TypeOK
    <3>1. S # {} /\ next = CHOOSE i \in S : \A j \in S : i <= j
      BY <3>S, <1>c DEF NextInjection
    <3>2. next \in S
      BY <3>0, <3>1, LeastOf
    <3>3. \A j \in (c + 1)..next : injections[j].time <= now * Grain
      BY <3>2, <3>S
    <3> QED BY <1>0, <1>1, <3>3
  <2>3. next <= k
    BY <1>0, <1>c, <1>4, <2>1, <2>2, NextIsFirst
  <2> QED BY <1>1, <2>3
<1>5. B = A \cup {next} /\ next \notin A
  <2>1. \A k \in 1..next : k \in 1..c \/ k > c
    BY <1>0, <1>1
  <2>2. next \in 1..next /\ next \notin 1..c /\ \A k \in 1..c : k \in 1..next
    BY <1>0, <1>1
  <2>3. \A k \in B : k \in A \/ k = next
    BY <1>3, <1>4, <1>A, <1>B, <2>1
  <2>4. \A k \in A : k \in B
    BY <1>3, <1>A, <1>B, <2>2
  <2>5. next \in B
    BY <1>1, <1>3, <1>B, <2>2
  <2> QED BY <1>A, <2>2, <2>3, <2>4, <2>5
<1>6. IsFiniteSet(A)
  <2>1. IsFiniteSet(1..c) /\ A \subseteq 1..c
    BY <1>0, <1>A, UpTo
  <2> QED BY <2>1, FS_Subset
<1>7. Cardinality(B) = Cardinality(A) + 1
  BY <1>5, <1>6, FS_AddElement
<1>8. HeardUpTo(r, ReadingOf(r).cursor)' = B /\ HeardUpTo(r, ReadingOf(r).cursor) = A
  BY <1>A, <1>B, <1>c DEF HeardUpTo
<1> QED BY <1>7, <1>8 DEF CountedFor

(* A step at which no reader takes a frame.                                *)
Idle ==
  /\ declared' = declared /\ injections' = injections
  /\ Elapse \/ now' = now
  /\ \A r \in Readers : TakenBy(r)' = TakenBy(r) /\ ReadingOf(r)' = ReadingOf(r)

LEMMA ReadersAre == TypeOK => /\ Opened \cup Messages \subseteq Readers
                              /\ \A m \in Messages : m \notin Opened
  BY VirtualCanAssumption DEF TypeOK, Readers

LEMMA NewStateIsIdle ==
  ASSUME TypeOK, NEW h \in Opened, NEW state,
         handles' = [handles EXCEPT ![h] = state], state.reading = handles[h].reading,
         UNCHANGED <<declared, injections, now, dbcRx, transfers>>
  PROVE  Idle
<1>1. Opened' = Opened
  BY DEF Opened
<1>2. ASSUME NEW r PROVE ReadingOf(r)' = ReadingOf(r)
  <2>1. CASE r = h
    BY <1>1, <2>1 DEF ReadingOf, Opened
  <2>2. CASE r # h
    BY <1>1, <2>2 DEF ReadingOf, Opened
  <2> QED BY <2>1, <2>2
<1>3. \A r : TakenBy(r)' = TakenBy(r)
  BY DEF TakenBy
<1> QED BY <1>2, <1>3 DEF Idle

LEMMA UnchangedIsIdle ==
  ASSUME TypeOK, UNCHANGED <<declared, injections, handles, dbcRx>>, Elapse \/ now' = now,
         \A r \in Readers : TakenBy(r)' = TakenBy(r)
  PROVE  Idle
  BY DEF Idle, ReadingOf, Opened

LEMMA OpenIsIdle ==
  ASSUME TypeOK, SitesSound, NEW site \in Sites, NEW config \in Configs[site[2]],
         Open(site, config)
  PROVE  Idle
<1>1. /\ declared' = declared /\ injections' = injections /\ now' = now
      /\ dbcRx' = dbcRx /\ transfers' = transfers
  BY DEF Open
<1>2. \A r : TakenBy(r)' = TakenBy(r)
  BY <1>1 DEF TakenBy
<1>3. CASE site \in DOMAIN siteHandles
  <2>1. handles' = handles
    BY <1>3 DEF Open
  <2> QED BY <1>1, <1>2, <2>1, UnchangedIsIdle
<1>4. CASE site \notin DOMAIN siteHandles
  <2>k. PICK kind : kind = site[2]
    OBVIOUS
  <2>1. handles' = Put(handles, nextHandle, Fresh(kind, config))
    BY <1>4, <2>k DEF Open
  <2>2. /\ Opened' = Opened \cup {nextHandle} /\ nextHandle \notin Opened
        /\ handles'[nextHandle] = Fresh(kind, config)
        /\ \A h \in Opened : handles'[h] = handles[h]
    <3>1. nextHandle \notin Opened
      BY DEF SitesSound, TypeOK
    <3> QED BY <2>1, <3>1 DEF Put, Opened
  <2>3. ASSUME NEW r PROVE ReadingOf(r)' = ReadingOf(r)
    <3>1. CASE r \in Messages
      BY <1>1, <3>1 DEF ReadingOf
    <3>2. CASE r \notin Messages /\ r = nextHandle
      BY <2>2, <3>2 DEF ReadingOf, Fresh, Unread
    <3>3. CASE r \notin Messages /\ r # nextHandle
      BY <2>2, <3>3 DEF ReadingOf
    <3> QED BY <3>1, <3>2, <3>3
  <2> QED BY <1>1, <1>2, <2>3 DEF Idle
<1> QED BY <1>3, <1>4

LEMMA SentIsIdle ==
  ASSUME TypeOK, Listed, Sends
  PROVE  Idle
<1>1. PICK by, bus, extended, id, bytes : Send(by, bus, extended, id, bytes)
  BY DEF Sends, TxRaw, TxMessage, TxGroup, Request
<1>e. PICK e : e = Transfer("tx", by, bus, extended, id, bytes)
  OBVIOUS
<1>2. transfers' = Append(transfers, e) /\ e.direction # "rx"
  BY <1>1, <1>e DEF Send, Transfer
<1>3. \A r : TakenBy(r)' = TakenBy(r)
  BY <1>2, TakenGrows
<1>4. UNCHANGED <<declared, injections, handles, dbcRx>> /\ now' = now
  BY <1>1 DEF Send, lines, owned
<1> QED BY <1>3, <1>4, UnchangedIsIdle

LEMMA OthersAreIdle ==
  ASSUME TypeOK, HandlesAreSound, Listed, [Next]_vars,
         ~\E h \in Opened : Receive(h), ~\E m \in Messages : DbcReceive(m)
  PROVE  Idle
<1>0. SitesSound /\ \A h \in Opened : handles[h] \in HandleStates
  BY SoundParts DEF TypeOK
<1>1. CASE Elapse
  <2>1. UNCHANGED <<declared, injections, handles, dbcRx, transfers>>
    BY <1>1 DEF Elapse, lines, owned
  <2>2. \A r : TakenBy(r)' = TakenBy(r)
    BY <2>1 DEF TakenBy
  <2> QED BY <1>1, <2>1, <2>2, UnchangedIsIdle
<1>2. CASE \/ \E bus \in Buses, baud \in Bauds : InitBus(bus, baud)
           \/ \E m \in Modules, bus \in Buses : InitModule(m, bus)
           \/ CallRefused \/ UNCHANGED vars
  <2>1. UNCHANGED <<declared, injections, now, handles, dbcRx, transfers>>
    BY <1>2 DEF InitBus, InitModule, CallRefused, vars, lines, owned
  <2>2. \A r : TakenBy(r)' = TakenBy(r)
    BY <2>1 DEF TakenBy
  <2> QED BY <2>1, <2>2, UnchangedIsIdle
<1>3. CASE \E site \in Sites : \E config \in Configs[site[2]] : Open(site, config)
  BY <1>0, <1>3, OpenIsIdle
<1>4. CASE \E h, node \in Opened : Register(h, node)
  <2>1. PICK h \in Opened, node \in Opened : Register(h, node)
    BY <1>4
  <2> DEFINE state == [handles[h] EXCEPT !.node = node]
  <2>2. handles' = [handles EXCEPT ![h] = state]
    BY <2>1 DEF Register
  <2>3. state.reading = handles[h].reading
    BY <1>0 DEF HandleStates
  <2> HIDE DEF state
  <2> QED BY <2>1, <2>2, <2>3, NewStateIsIdle DEF Register
<1>5. CASE \E h, node \in Opened : DTCSetActive(h, node)
  <2>1. PICK h \in Opened, node \in Opened : DTCSetActive(h, node)
    BY <1>5
  <2> DEFINE count == IF handles[h].active \/ handles[h].count = MaxCount
                      THEN handles[h].count ELSE handles[h].count + 1
             state == [handles[h] EXCEPT !.active = TRUE, !.count = count]
  <2>2. handles' = [handles EXCEPT ![h] = state]
    BY <1>0, <2>1 DEF DTCSetActive, HandleStates
  <2> HIDE DEF count
  <2>3. state.reading = handles[h].reading
    BY <1>0 DEF HandleStates
  <2> HIDE DEF state
  <2> QED BY <2>1, <2>2, <2>3, NewStateIsIdle DEF DTCSetActive
<1>6. CASE \E h, node \in Opened : DTCSetInactive(h, node)
  <2>1. PICK h \in Opened, node \in Opened : DTCSetInactive(h, node)
    BY <1>6
  <2> DEFINE state == [handles[h] EXCEPT !.active = FALSE]
  <2>2. handles' = [handles EXCEPT ![h] = state]
    BY <2>1 DEF DTCSetInactive
  <2>3. state.reading = handles[h].reading
    BY <1>0 DEF HandleStates
  <2> HIDE DEF state
  <2> QED BY <2>1, <2>2, <2>3, NewStateIsIdle DEF DTCSetInactive
<1>7. CASE \E h \in Opened : \E n \in ClearLengths(h) : Clear(h, n)
  <2>1. PICK h \in Opened : \E n \in ClearLengths(h) : Clear(h, n)
    BY <1>7
  <2>2. PICK n \in ClearLengths(h) : Clear(h, n)
    BY <2>1
  <2> DEFINE state == [handles[h] EXCEPT !.bytes = Zeros(n)]
  <2>3. handles' = [handles EXCEPT ![h] = state]
    BY <2>2 DEF Clear
  <2>4. state.reading = handles[h].reading
    BY <1>0 DEF HandleStates
  <2> HIDE DEF state
  <2> QED BY <2>2, <2>3, <2>4, NewStateIsIdle DEF Clear
<1>8. CASE \E h \in Opened : \E field \in Fields(h) :
             \E bits \in [DOMAIN field -> Bits] : SetField(h, field, bits)
  <2>1. PICK h \in Opened : \E field \in Fields(h) :
               \E bits \in [DOMAIN field -> Bits] : SetField(h, field, bits)
    BY <1>8
  <2>2. PICK field, bits : SetField(h, field, bits)
    BY <2>1
  <2> DEFINE state == [handles[h] EXCEPT !.bytes = WriteField(@, field, bits)]
  <2>3. handles' = [handles EXCEPT ![h] = state]
    BY <2>2 DEF SetField
  <2>4. state.reading = handles[h].reading
    BY <1>0 DEF HandleStates
  <2> HIDE DEF state
  <2> QED BY <2>2, <2>3, <2>4, NewStateIsIdle DEF SetField
<1>9. CASE Sends
  BY <1>9, SentIsIdle
<1> QED
  BY <1>1, <1>2, <1>3, <1>4, <1>5, <1>6, <1>7, <1>8, <1>9 DEF Next, Sends

(* What a call that finds a frame does.                                    *)
Takes(r) ==
  /\ declared' = declared /\ injections' = injections /\ now' = now
  /\ NextInjection(r) # 0 /\ ReadingOf(r)'.cursor = NextInjection(r)
  /\ TakenBy(r)' = Append(TakenBy(r), Content(injections[NextInjection(r)]))
  /\ Len(TakenBy(r)') = Len(TakenBy(r)) + 1
  /\ \A s \in Readers \ {r} : TakenBy(s)' = TakenBy(s) /\ ReadingOf(s)' = ReadingOf(s)

LEMMA ArrivalIsTaken ==
  ASSUME Listed, NEW r, transfers' = Append(transfers, Arrival(r))
  PROVE  /\ TakenBy(r)' = Append(TakenBy(r), Content(injections[NextInjection(r)]))
         /\ Len(TakenBy(r)') = Len(TakenBy(r)) + 1
         /\ \A s : s # r => TakenBy(s)' = TakenBy(s)
<1>e. PICK e : e = Arrival(r)
  OBVIOUS
<1>1. /\ e.direction = "rx" /\ e.by = r
      /\ Content(e) = Content(injections[NextInjection(r)])
  BY <1>e DEF Arrival, Transfer, Content
<1> QED BY <1>1, <1>e, TakenGrows

LEMMA ReceiveTakes ==
  ASSUME TypeOK, Listed, NEW h \in Opened, Receive(h)
  PROVE  Takes(h)
<1>1. /\ declared' = declared /\ injections' = injections /\ now' = now /\ dbcRx' = dbcRx
      /\ NextInjection(h) # 0
      /\ handles' = [handles EXCEPT ![h].reading = Take(NextInjection(h))]
      /\ transfers' = Append(transfers, Arrival(h))
  BY DEF Receive
<1>2. h \notin Messages
  BY ReadersAre
<1>3. ReadingOf(h)' = Take(NextInjection(h))
  <2>1. handles[h] \in HandleStates
    BY DEF TypeOK
  <2>2. handles'[h].reading = Take(NextInjection(h))
    BY <1>1, <2>1 DEF Opened, HandleStates
  <2>3. h \in Opened'
    BY <1>1 DEF Opened
  <2> QED BY <1>2, <2>2, <2>3 DEF ReadingOf
<1>4. \A s : s # h => ReadingOf(s)' = ReadingOf(s)
  BY <1>1 DEF ReadingOf, Opened
<1> QED BY <1>1, <1>3, <1>4, ArrivalIsTaken DEF Takes, Take

LEMMA DbcReceiveTakes ==
  ASSUME TypeOK, Listed, NEW m \in Messages, DbcReceive(m)
  PROVE  Takes(m)
<1>1. /\ declared' = declared /\ injections' = injections /\ now' = now /\ handles' = handles
      /\ NextInjection(m) # 0
      /\ dbcRx' = [dbcRx EXCEPT ![m] = Take(NextInjection(m))]
      /\ transfers' = Append(transfers, Arrival(m))
  BY DEF DbcReceive
<1>2. ReadingOf(m)' = Take(NextInjection(m))
  BY <1>1 DEF ReadingOf, TypeOK
<1>3. \A s : s # m => ReadingOf(s)' = ReadingOf(s)
  BY <1>1 DEF ReadingOf, Opened, TypeOK
<1> QED BY <1>1, <1>2, <1>3, ArrivalIsTaken DEF Takes, Take

LEMMA NothingIsTaken == Init => \A r : TakenBy(r) = <<>>
<1> SUFFICES ASSUME Init, NEW r PROVE TakenBy(r) = <<>>
  OBVIOUS
<1>s. PICK s : s = Pieces(r)
  OBVIOUS
<1>1. Pieces(r) = <<>>
  BY DEF Init, Pieces
<1>2. s \in Seq(Seq({})) /\ Len(s) = 0
  BY <1>1, <1>s
<1>3. FlattenSeq(s) = <<>>
  BY <1>2, FlattenOf
<1> QED BY <1>3, <1>s, TakenIsPieces

LEMMA InitReception == Init => ReceptionInv
<1> SUFFICES ASSUME Init PROVE ReceptionInv
  OBVIOUS
<1>1. InOrder
  <2>1. /\ declared \in Seq(Frame)
        /\ \A n \in DOMAIN declared : declared[n].id < IdentifierSpan(declared[n].extended)
    BY VirtualCanAssumption DEF Init
  <2> QED BY <2>1 DEF Init, InOrder
<1>2. ASSUME NEW r PROVE CountedFor(r)
  <2>1. Opened = {} /\ dbcRx = [m \in Messages |-> Unread]
    BY DEF Init, Opened
  <2>2. TakenBy(r) = <<>>
    BY NothingIsTaken
  <2>3. ReadingOf(r).cursor = 0
    BY <2>1 DEF ReadingOf, Unread
  <2>4. HeardUpTo(r, ReadingOf(r).cursor) = {}
    BY <2>3 DEF HeardUpTo
  <2> QED BY <2>2, <2>4, FS_EmptySet DEF CountedFor
<1> QED BY <1>1, <1>2 DEF ReceptionInv

LEMMA ReceptionKept ==
  ASSUME TypeOK, HandlesAreSound, Listed, ReceptionInv, [Next]_vars
  PROVE  ReceptionInv'
<1>1. Settled
  BY StepsSettle, SoundParts
<1>2. CASE Idle
  <2>1. InOrder'
    BY <1>2 DEF InOrder, ReceptionInv, Idle
  <2>2. \A r \in Readers : CountedFor(r)'
    BY <1>1, <1>2, StaysCounted DEF Idle, ReceptionInv
  <2> QED BY <2>1, <2>2 DEF ReceptionInv, Readers
<1>3. ASSUME NEW r \in Opened \cup Messages, Takes(r) PROVE ReceptionInv'
  <2>1. InOrder'
    BY <1>3 DEF InOrder, ReceptionInv, Takes
  <2>2. r \in Readers
    BY ReadersAre
  <2>3. CountedFor(r)'
    BY <1>1, <1>3, <2>2, TakesOne DEF Takes, ReceptionInv
  <2>4. \A s \in Readers \ {r} : CountedFor(s)'
    BY <1>1, <1>3, StaysCounted DEF Takes, ReceptionInv
  <2> QED BY <2>1, <2>3, <2>4 DEF ReceptionInv, Readers
<1> QED BY <1>2, <1>3, OthersAreIdle, ReceiveTakes, DbcReceiveTakes

LEMMA ReceptionInvariance ==
  Spec => [](TypeOK /\ HandlesAreSound /\ Listed /\ ReceptionInv)
<1>1. TypeOK /\ HandlesAreSound /\ Listed /\ ReceptionInv /\ [Next]_vars => ReceptionInv'
  BY ReceptionKept
<1> QED BY <1>1, InitReception, TypeCorrect, HandlesStaySound, TransfersAreListed, PTL DEF Spec

(* The injections, seen through the listing that ordered them.             *)
LEMMA InjectionsAreListed ==
  ASSUME InOrder, NEW q, q = Sorted(declared, DOMAIN declared), NEW N, N = Len(declared)
  PROVE  /\ N \in Nat /\ DOMAIN declared = 1..N /\ Cardinality(DOMAIN declared) = N
         /\ Lists(declared, q, DOMAIN declared)
         /\ Len(injections) = N /\ DOMAIN injections = 1..N
         /\ \A n \in 1..N : q[n] \in 1..N /\ injections[n] = declared[q[n]]
         /\ \A n \in 1..N : declared[n] \in Frame
<1>r. PICK rx : rx = declared
  OBVIOUS
<1>1. rx \in Seq(Frame) /\ injections = InTimeOrder(rx) /\ q = Sorted(rx, DOMAIN rx)
  BY <1>r DEF InOrder
<1>2. /\ Lists(rx, q, DOMAIN rx) /\ Cardinality(DOMAIN rx) = Len(rx)
      /\ injections \in Seq(Frame) /\ Len(injections) = Len(rx)
      /\ \A n \in 1..Len(rx) : q[n] \in 1..Len(rx) /\ injections[n] = rx[q[n]]
  <2>1. rx \in Seq(Frame) /\ q = Sorted(rx, DOMAIN rx)
    BY <1>1
  <2>2. /\ Lists(rx, q, DOMAIN rx) /\ Cardinality(DOMAIN rx) = Len(rx)
        /\ InTimeOrder(rx) \in Seq(Frame) /\ Len(InTimeOrder(rx)) = Len(rx)
        /\ \A n \in 1..Len(rx) : q[n] \in 1..Len(rx) /\ InTimeOrder(rx)[n] = rx[q[n]]
    BY <2>1, FramesAreSorted
  <2>3. injections = InTimeOrder(rx)
    BY <1>1
  <2> QED BY <2>2, <2>3, Zenon
<1>3. N \in Nat /\ N = Len(rx) /\ DOMAIN rx = 1..N /\ \A n \in 1..N : rx[n] \in Frame
  BY <1>1, <1>r
<1>4. DOMAIN injections = 1..N
  BY <1>2, <1>3
<1> QED BY <1>2, <1>3, <1>4, <1>r

(* Whatever stands before a frame that is due is due.                      *)
LEMMA EarlierIsDue ==
  ASSUME InOrder, NEW k \in DOMAIN injections, NEW t \in Int, injections[k].time <= t,
         NEW j \in 1..k
  PROVE  injections[j].time <= t
<1>q. PICK q : q = Sorted(declared, DOMAIN declared)
  OBVIOUS
<1>N. PICK N : N = Len(declared)
  OBVIOUS
<1>1. /\ N \in Nat /\ DOMAIN injections = 1..N /\ Cardinality(DOMAIN declared) = N
      /\ Lists(declared, q, DOMAIN declared)
      /\ \A n \in 1..N : q[n] \in 1..N /\ injections[n] = declared[q[n]]
      /\ \A n \in 1..N : declared[n] \in Frame
  BY <1>q, <1>N, InjectionsAreListed
<1>2. j \in 1..N /\ k \in 1..N
  BY <1>1
<1>3. CASE j = k
  BY <1>3
<1>4. CASE j < k
  <2>1. Earlier(declared, q[j], q[k])
    BY <1>1, <1>2, <1>4 DEF Lists, Ascending
  <2>2. declared[q[j]].time \in Nat /\ declared[q[k]].time \in Nat
    BY <1>1, <1>2 DEF Frame
  <2>3. declared[q[j]].time <= declared[q[k]].time
    BY <2>1, <2>2 DEF Earlier
  <2>4. injections[j] = declared[q[j]] /\ injections[k] = declared[q[k]]
    BY <1>1, <1>2
  <2>5. declared[q[k]].time <= t
    BY <2>4
  <2>6. declared[q[j]].time <= t
    BY <2>2, <2>3, <2>5
  <2> QED BY <2>4, <2>6
<1> QED BY <1>2, <1>3, <1>4

-----------------------------------------------------------------------------
(* The adapter implements CanLink.                                         *)

(* The frames a reader wants, and what its next call would give it.        *)
Wanted(r) == {f \in ToSet(declared) : Wants(r, f)}

Offered(r) ==
  LET next == NextInjection(r)
  IN  IF next = 0 THEN None ELSE Content(injections[next])

DueTo(r) == {i \in DOMAIN declared : declared[i].time <= now * Grain /\ declared[i] \in Wanted(r)}

LEMMA SameOperators ==
  /\ \A S : Link!Cardinality(S) = Cardinality(S)
  /\ \A rx, i, j : Link!Earlier(rx, i, j) <=> Earlier(rx, i, j)
  /\ \A f : Link!Content(f) = Content(f)
  BY DEF Link!Cardinality, Cardinality, Link!Earlier, Earlier, Link!Content, Content

(* What Following says of a reader, in the module's own operators.         *)
LEMMA FollowingIs ==
  ASSUME NEW r, NEW n, NEW D, D = DueTo(r)
  PROVE  Link!Following(n, Wanted(r), now) =
           IF n < Cardinality(D)
           THEN Content(declared[CHOOSE i \in D : Cardinality({j \in D : Earlier(declared, j, i)}) = n])
           ELSE None
<1>1. Link!Following(n, Wanted(r), now) =
        IF n < Link!Cardinality(D)
        THEN Link!Content(declared[CHOOSE i \in D :
                            Link!Cardinality({j \in D : Link!Earlier(declared, j, i)}) = n])
        ELSE None
  BY DEF Link!Following, DueTo
<1>2. \A i : {j \in D : Link!Earlier(declared, j, i)} = {j \in D : Earlier(declared, j, i)}
  BY SameOperators
<1>3. (CHOOSE i \in D : Link!Cardinality({j \in D : Link!Earlier(declared, j, i)}) = n)
        = CHOOSE i \in D : Cardinality({j \in D : Earlier(declared, j, i)}) = n
  BY <1>2, SameOperators
<1> QED BY <1>1, <1>3, SameOperators

(* What is due to a reader is what it hears of the frames that are due.    *)
LEMMA DueIsHeard ==
  ASSUME TypeOK, HandlesAreSound, InOrder, NEW r \in Readers, NEW i \in DOMAIN declared
  PROVE  i \in DueTo(r) <=> declared[i].time <= now * Grain /\ Hears(r, declared[i])
<1>f. PICK f : f = declared[i]
  OBVIOUS
<1>1. f \in Frame /\ f.id < IdentifierSpan(f.extended)
  BY <1>f DEF InOrder
<1>2. Wants(r, f) <=> Hears(r, f)
  BY <1>1, WantsIsHears
<1>3. f \in ToSet(declared)
  BY <1>f DEF ToSet
<1>4. f \in Wanted(r) <=> Hears(r, f)
  BY <1>2, <1>3 DEF Wanted
<1> QED BY <1>4, <1>f DEF DueTo

(* The next call finds the frame that follows those the reader has.        *)
LEMMA OfferIsFollowing ==
  ASSUME TypeOK, HandlesAreSound, ReceptionInv, NEW r \in Readers
  PROVE  Offered(r) = Link!Following(Len(TakenBy(r)), Wanted(r), now)
<1>q. PICK q : q = Sorted(declared, DOMAIN declared)
  OBVIOUS
<1>N. PICK N : N = Len(declared)
  OBVIOUS
<1>S. PICK S : S = DOMAIN declared
  OBVIOUS
<1>T. PICK t : t = now * Grain
  OBVIOUS
<1>D. PICK D : D = DueTo(r)
  OBVIOUS
<1>c. PICK c : c = ReadingOf(r).cursor
  OBVIOUS
<1>x. PICK next : next = NextInjection(r)
  OBVIOUS
<1>I. InOrder /\ CountedFor(r)
  BY DEF ReceptionInv
<1>1. /\ N \in Nat /\ S = 1..N /\ Cardinality(S) = N
      /\ Lists(declared, q, S)
      /\ Len(injections) = N /\ DOMAIN injections = 1..N
      /\ \A n \in 1..N : q[n] \in 1..N /\ injections[n] = declared[q[n]]
      /\ \A n \in 1..N : declared[n] \in Frame
  BY <1>q, <1>N, <1>S, <1>I, InjectionsAreListed
<1>2. t \in Int
  <2>1. now \in Nat /\ Grain \in Nat
    BY VirtualCanAssumption DEF TypeOK
  <2> QED BY <2>1, <1>T
<1>3. D \in SUBSET S
  BY <1>D, <1>S DEF DueTo
<1>4. \A k \in 1..N : q[k] \in D <=> injections[k].time <= t /\ Hears(r, injections[k])
  <2> SUFFICES ASSUME NEW k \in 1..N
               PROVE  q[k] \in D <=> injections[k].time <= t /\ Hears(r, injections[k])
    OBVIOUS
  <2>i. PICK i \in DOMAIN declared : i = q[k]
    BY <1>1, <1>S
  <2>1. i \in DueTo(r) <=> declared[i].time <= now * Grain /\ Hears(r, declared[i])
    BY <1>I, <2>i, DueIsHeard
  <2>2. injections[k] = declared[i]
    BY <1>1, <2>i
  <2> QED BY <2>1, <2>2, <2>i, <1>D, <1>T
<1>5. /\ c \in 0..N
      /\ c > 0 => injections[c].time <= t
  BY <1>1, <1>c, <1>T, CursorsStand
<1>6. \A k \in 1..c : injections[k].time <= t
  <2> SUFFICES ASSUME NEW k \in 1..c PROVE injections[k].time <= t
    OBVIOUS
  <2>1. c \in DOMAIN injections /\ injections[c].time <= t
    BY <1>1, <1>5
  <2> QED BY <1>2, <1>I, <2>1, EarlierIsDue
<1>7. HeardUpTo(r, c) = Passed(q, c, D)
  BY <1>1, <1>4, <1>5, <1>6 DEF HeardUpTo, Passed
<1>8. Len(TakenBy(r)) = Cardinality(Passed(q, c, D))
  BY <1>7, <1>c, <1>I DEF CountedFor
<1>9. ASSUME NEW k \in 1..N, q[k] \in D, k > c PROVE next # 0 /\ next <= k
  <2>1. k \in DOMAIN injections /\ injections[k].time <= t /\ Hears(r, injections[k])
    BY <1>1, <1>4, <1>9
  <2>2. \A j \in (c + 1)..k : injections[j].time <= t
    <3> SUFFICES ASSUME NEW j \in (c + 1)..k PROVE injections[j].time <= t
      OBVIOUS
    <3>1. j \in 1..k
      BY <1>5
    <3> QED BY <1>2, <1>I, <2>1, <3>1, EarlierIsDue
  <2>3. c \in Nat
    BY <1>5
  <2> QED BY <1>9, <1>T, <1>c, <1>x, <2>1, <2>2, <2>3, NextIsFirst
<1>10. CASE next = 0
  <2>1. \A k \in 1..Cardinality(S) : q[k] \in D => k <= c
    BY <1>1, <1>5, <1>9, <1>10
  <2>2. c \in Nat /\ c <= Cardinality(S)
    BY <1>1, <1>5
  <2>L. Lists(declared, q, S)
    BY <1>1
  <2>3. Cardinality(Passed(q, c, D)) = Cardinality(D)
    BY <2>L, <1>3, <2>1, <2>2, AllPassed
  <2>4. Cardinality(D) \in Nat
    <3>1. IsFiniteSet(D)
      BY <1>1, <1>3, FS_Subset DEF Lists, Timed
    <3> QED BY <3>1, FS_CardinalityType
  <2>5. Link!Following(Len(TakenBy(r)), Wanted(r), now) = None
    <3>n. PICK n : n = Len(TakenBy(r))
      OBVIOUS
    <3>1. ~(n < Cardinality(D))
      BY <1>8, <2>3, <2>4, <3>n
    <3> QED BY <1>D, <3>1, <3>n, FollowingIs
  <2> QED BY <1>x, <1>10, <2>5 DEF Offered
<1>11. CASE next # 0
  <2>1. /\ next \in 1..N /\ next > c
        /\ injections[next].time <= t /\ Hears(r, injections[next])
    BY <1>1, <1>5, <1>11, <1>c, <1>x, <1>T, NextIsDue
  <2>m. PICK m \in Nat : m = next - 1
    BY <2>1, <1>1
  <2>2. m + 1 = next /\ m + 1 <= Cardinality(S) /\ c <= m /\ q[m + 1] \in D
    BY <1>1, <1>4, <1>5, <2>1, <2>m
  <2>3. Passed(q, m, D) = Passed(q, c, D)
    <3>1. ASSUME NEW k \in 1..m, q[k] \in D PROVE k \in 1..c
      <4>1. k \in 1..N /\ ~(next <= k)
        BY <1>1, <2>1, <2>m
      <4>2. ~(k > c)
        BY <1>9, <3>1, <4>1
      <4> QED BY <1>5, <4>2
    <3>2. \A k \in 1..c : k \in 1..m
      BY <1>5, <2>2
    <3> QED BY <3>1, <3>2 DEF Passed
  <2>n. PICK n : n = Len(TakenBy(r))
    OBVIOUS
  <2>4. n = Cardinality(Passed(q, m, D))
    BY <1>8, <2>3, <2>n
  <2>L. Lists(declared, q, S)
    BY <1>1
  <2>5. /\ n < Cardinality(D)
        /\ q[m + 1] = CHOOSE i \in D : Cardinality({j \in D : Earlier(declared, j, i)}) = n
    <3>1. IsNth(declared, D, Cardinality(Passed(q, m, D)), q[m + 1])
      BY <2>L, <1>3, <2>m, <2>2, NthOfList
    <3> QED BY <3>1, <2>4 DEF IsNth
  <2>6. Link!Following(n, Wanted(r), now) = Content(declared[q[m + 1]])
    BY <1>D, <2>5, FollowingIs
  <2>7. injections[next] = declared[q[m + 1]]
    BY <1>1, <2>1, <2>2
  <2> QED BY <1>x, <1>11, <2>6, <2>7, <2>n DEF Offered
<1> QED BY <1>10, <1>11

Invariants == TypeOK /\ HandlesAreSound /\ Listed /\ ReceptionInv

(* CanLink's variables, as the adapter's state shows them.                 *)
WantTable  == [r \in Readers |-> Wanted(r)]
TakenTable == [r \in Readers |-> TakenBy(r)]
OfferTable == [r \in Readers |-> Offered(r)]

LEMMA Tables ==
  /\ WantTable = [r \in Readers |-> {f \in ToSet(declared) : Wants(r, f)}]
  /\ TakenTable = [r \in Readers |-> TakenBy(r)]
  /\ OfferTable = [r \in Readers |->
                     LET next == NextInjection(r)
                     IN  IF next = 0 THEN None ELSE Content(injections[next])]
  BY DEF WantTable, TakenTable, OfferTable, Wanted, Offered

OffersMatch == OfferTable = Link!Offers

LEMMA OffersAre == Invariants => OffersMatch
<1> SUFFICES ASSUME Invariants PROVE OfferTable = Link!Offers
  BY DEF OffersMatch
<1>1. Link!Offers = [r \in Readers |-> Link!Following(Len(TakenTable[r]), WantTable[r], now)]
  BY Tables DEF Link!Offers
<1>2. ASSUME NEW r \in Readers
      PROVE  Offered(r) = Link!Following(Len(TakenTable[r]), WantTable[r], now)
  <2>1. Offered(r) = Link!Following(Len(TakenBy(r)), Wanted(r), now)
    BY OfferIsFollowing DEF Invariants
  <2>2. TakenTable[r] = TakenBy(r) /\ WantTable[r] = Wanted(r)
    BY DEF TakenTable, WantTable
  <2> QED BY <2>1, <2>2
<1> QED BY <1>1, <1>2 DEF OfferTable

(* What a reader wants is what it hears of the declared frames.            *)
Heard(r) == {f \in ToSet(declared) : Hears(r, f)}

WantsAreHeard == \A r \in Readers : Wanted(r) = Heard(r)

LEMMA WantedIsHeard == Invariants => WantsAreHeard
<1> SUFFICES ASSUME Invariants, NEW r \in Readers, NEW f \in ToSet(declared)
             PROVE  Wants(r, f) <=> Hears(r, f)
  BY DEF WantsAreHeard, Wanted, Heard
<1>1. PICK i \in DOMAIN declared : f = declared[i]
  BY DEF ToSet
<1>2. f \in Frame /\ f.id < IdentifierSpan(f.extended)
  BY <1>1 DEF Invariants, ReceptionInv, InOrder
<1> QED BY <1>2, WantsIsHears DEF Invariants

(* A reader that wants something wants the same from then on.              *)
LEMMA WantsSettle ==
  ASSUME Invariants, Invariants', Settled, declared' = declared,
         NEW r \in Readers, Wanted(r) # {}
  PROVE  Wanted(r)' = Wanted(r)
<1>1. WantsAreHeard'
  BY WantedIsHeard, PTL
<1>2. Wanted(r) = Heard(r) /\ Wanted(r)' = Heard(r)'
  <2>1. Wanted(r)' = Heard(r)'
    BY <1>1 DEF WantsAreHeard, Readers
  <2> QED BY <2>1, WantedIsHeard DEF WantsAreHeard
<1>3. PICK f \in ToSet(declared) : Hears(r, f)
  BY <1>2 DEF Heard
<1>4. r \in Opened \cup Messages
  BY <1>3 DEF Hears, OpenedAs
<1>5. ASSUME NEW g \in ToSet(declared) PROVE Hears(r, g)' <=> Hears(r, g)
  BY <1>3, <1>4, HearsTheSame DEF Invariants
<1>6. Heard(r)' = {g \in ToSet(declared) : Hears(r, g)'}
  BY DEF Heard, ToSet
<1> QED BY <1>2, <1>5, <1>6 DEF Heard

(* The steps that change nothing a reader wants.                           *)
LEMMA WantsKept ==
  ASSUME Invariants, declared' = declared, modules' = modules, Opened' = Opened,
         \A h \in Opened : /\ handles'[h].kind = handles[h].kind
                           /\ handles'[h].config = handles[h].config
                           /\ handles'[h].node = handles[h].node
  PROVE  WantTable' = WantTable
<1>1. ASSUME NEW r \in Readers, NEW f PROVE Wants(r, f)' <=> Wants(r, f)
  <2>1. CASE r \in Messages
    BY <2>1 DEF Wants
  <2>2. CASE r \notin Messages /\ r \notin Opened
    BY <2>2 DEF Wants, OpenedAs
  <2>3. CASE r \notin Messages /\ r \in Opened
    <3>1. handles[r].node # 0 => handles[r].node \in Opened
      BY <2>3 DEF Invariants, HandlesAreSound, OpenedAs
    <3>2. handles[r].node # 0 => NodeOf(r)' = NodeOf(r)
      BY <2>3, <3>1 DEF NodeOf
    <3>3. OpenedAs(r, "receive")' <=> OpenedAs(r, "receive")
      BY <2>3 DEF OpenedAs
    <3>4. OpenedAs(r, "rxGroup")' <=> OpenedAs(r, "rxGroup")
      BY <2>3 DEF OpenedAs
    <3> QED BY <2>3, <3>2, <3>3, <3>4 DEF Wants
  <2> QED BY <2>1, <2>2, <2>3
<1>2. \A r \in Readers : Wanted(r)' = Wanted(r)
  BY <1>1 DEF Wanted, ToSet
<1> QED BY <1>2 DEF WantTable, Readers

LEMMA TakesKeepWants ==
  ASSUME Invariants,
         (\E h \in Opened : Receive(h)) \/ (\E m \in Messages : DbcReceive(m)) \/ Elapse
  PROVE  WantTable' = WantTable
<1>1. CASE \E h \in Opened : Receive(h)
  <2>1. PICK h \in Opened : Receive(h)
    BY <1>1
  <2>2. /\ handles' = [handles EXCEPT ![h].reading = Take(NextInjection(h))]
        /\ modules' = modules /\ declared' = declared
    BY <2>1 DEF Receive, lines
  <2>3. Opened' = Opened /\ handles[h] \in HandleStates
    BY <2>2 DEF Invariants, TypeOK, Opened
  <2>4. \A g \in Opened : /\ handles'[g].kind = handles[g].kind
                          /\ handles'[g].config = handles[g].config
                          /\ handles'[g].node = handles[g].node
    BY <2>2, <2>3 DEF Opened, HandleStates
  <2> QED BY <2>2, <2>3, <2>4, WantsKept
<1>2. CASE (\E m \in Messages : DbcReceive(m)) \/ Elapse
  <2>1. handles' = handles /\ modules' = modules /\ declared' = declared
    BY <1>2 DEF DbcReceive, Elapse, lines
  <2>2. Opened' = Opened
    BY <2>1 DEF Opened
  <2> QED BY <2>1, <2>2, WantsKept
<1> QED BY <1>1, <1>2

(* A call that finds a frame takes the one that was offered.               *)
LEMMA TakesOffered ==
  ASSUME Invariants, NEW r \in Opened \cup Messages, Takes(r), WantTable' = WantTable
  PROVE  Link!Take(r)
<1>1. r \in Readers
  BY ReadersAre DEF Invariants
<1>x. PICK next : next = NextInjection(r)
  OBVIOUS
<1>f. PICK f : f = injections[next]
  OBVIOUS
<1>2. next # 0 /\ f \in Frame
  <2>1. ReadingOf(r).cursor \in Nat
    BY ReadersHaveCursors DEF Invariants
  <2>2. NextInjection(r) # 0
    BY DEF Takes
  <2> QED BY <1>x, <1>f, <2>1, <2>2, NextIsDue DEF Invariants
<1>3. OfferTable[r] = Content(f)
  BY <1>1, <1>2, <1>x, <1>f DEF OfferTable, Offered
<1>4. OfferTable[r] # None
  BY <1>2, <1>3, VirtualCanAssumption DEF Content, Frame
<1>5. TakenTable' = [TakenTable EXCEPT ![r] = Append(@, OfferTable[r])]
  <2>1. TakenTable' = [s \in Readers |-> TakenBy(s)']
    BY DEF TakenTable, Readers
  <2>2. TakenBy(r)' = Append(TakenBy(r), OfferTable[r])
    BY <1>3, <1>x, <1>f DEF Takes
  <2>3. \A s \in Readers : s # r => TakenBy(s)' = TakenBy(s)
    BY DEF Takes
  <2> QED BY <1>1, <2>1, <2>2, <2>3 DEF TakenTable
<1>6. declared' = declared /\ now' = now
  BY DEF Takes
<1> QED
  BY <1>4, <1>5, <1>6 DEF Link!Take, WantTable, TakenTable, OfferTable, Wanted, Offered

LEMMA StepsAreLinkSteps ==
  ASSUME Invariants, Invariants', [Next]_vars
  PROVE  Link!Next
<1>1. OffersMatch'
  BY OffersAre, PTL
<1>2. Settled
  BY StepsSettle, SoundParts DEF Invariants
<1>3. ASSUME NEW r \in Opened \cup Messages, Takes(r), WantTable' = WantTable
      PROVE  Link!Next
  <2>1. Link!Take(r) /\ r \in Readers
    BY <1>3, TakesOffered, ReadersAre DEF Invariants
  <2> QED BY <1>1, <2>1 DEF Link!Next, OffersMatch, OfferTable, Offered
<1>4. CASE \E h \in Opened : Receive(h)
  <2>1. PICK h \in Opened : Receive(h)
    BY <1>4
  <2> QED BY <1>3, <1>4, <2>1, TakesKeepWants, ReceiveTakes DEF Invariants
<1>5. CASE \E m \in Messages : DbcReceive(m)
  <2>1. PICK m \in Messages : DbcReceive(m)
    BY <1>5
  <2> QED BY <1>3, <1>5, <2>1, TakesKeepWants, DbcReceiveTakes DEF Invariants
<1>6. CASE Idle
  <2>1. /\ declared' = declared /\ (Elapse \/ now' = now)
        /\ TakenTable' = TakenTable
    BY <1>6 DEF Idle, TakenTable, Readers
  <2>2. CASE Elapse
    <3>1. WantTable' = WantTable
      BY <2>2, TakesKeepWants
    <3>2. Link!Tick
      BY <2>1, <2>2, <3>1 DEF Elapse, Link!Tick, WantTable, TakenTable, Wanted
    <3> QED BY <1>1, <3>2 DEF Link!Next, OffersMatch, OfferTable, Offered
  <2>3. CASE now' = now
    <3>1. \A r \in Readers : WantTable[r] # {} => WantTable'[r] = WantTable[r]
      <4>1. \A r \in Readers : Wanted(r) # {} => Wanted(r)' = Wanted(r)
        BY <1>2, <2>1, WantsSettle
      <4> QED BY <4>1 DEF WantTable, Readers
    <3>2. DOMAIN WantTable' = Readers
      BY DEF WantTable, Readers
    <3>3. Link!Listen
      BY <2>1, <2>3, <3>1, <3>2 DEF Link!Listen, WantTable, TakenTable, Wanted
    <3> QED BY <1>1, <3>3 DEF Link!Next, OffersMatch, OfferTable, Offered
  <2> QED BY <2>1, <2>2, <2>3
<1> QED BY <1>4, <1>5, <1>6, OthersAreIdle DEF Invariants

(* The adapter implements CanLink: whatever a script opens, in whatever    *)
(* order it reads, each raw handle, message and J1939 group is given       *)
(* exactly the declared frames its configuration asks for, one per call,   *)
(* in the stable order by time, and a call that finds none has nothing due *)
(* left (next_injection and next_j1939_injection).                         *)
THEOREM FramesAreReceivedOnce == Spec => ReceptionIsExact
<1>1. Init => Link!Init
  <2> SUFFICES ASSUME Init PROVE Link!Init
    OBVIOUS
  <2>1. Invariants
    BY InitTypes, InitIsSound, InitIsListed, InitReception DEF Invariants
  <2>2. \A r \in Readers : Wanted(r) = {}
    <3>1. DOMAIN modules = {} /\ Opened = {}
      BY DEF Init, Opened
    <3>2. \A r, f : ~Wants(r, f)
      BY <3>1 DEF Wants, OpenedAs
    <3> QED BY <3>2 DEF Wanted
  <2>3. WantTable = [r \in Readers |-> {}] /\ TakenTable = [r \in Readers |-> <<>>]
    BY <2>2, NothingIsTaken DEF WantTable, TakenTable
  <2>4. OfferTable = Link!Offers
    BY <2>1, OffersAre DEF OffersMatch
  <2> QED BY <2>3, <2>4, Tables DEF Init, Link!Init
<1>2. Invariants /\ Invariants' /\ [Next]_vars => Link!Next
  BY StepsAreLinkSteps
<1> QED BY <1>1, <1>2, ReceptionInvariance, PTL DEF Spec, ReceptionIsExact, Link!Spec, Invariants

=============================================================================
