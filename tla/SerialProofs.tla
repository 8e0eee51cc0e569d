---------------------------- MODULE SerialProofs ----------------------------
(***************************************************************************)
(* Theorems of VirtualSerial, for every set of sites, ports and scenarios, *)
(* every byte width and every size of the handle space: who owns a handle, *)
(* where a receive cursor stands, that a handle is given exactly what was  *)
(* declared up to its last read, and that integers read back as stored.    *)
(***************************************************************************)
EXTENDS VirtualSerial, FiniteSetTheorems, FunctionTheorems,
        WellFoundedInduction, TLAPS

(* A non-empty set of naturals has a least element.                        *)
LEMMA LeastNatural ==
  ASSUME NEW S \in SUBSET Nat, S # {}
  PROVE  \E i \in S : \A j \in S : i <= j
<1> DEFINE R == OpToRel(<, Nat)
<1>1. IsWellFoundedOn(R, Nat)
  BY NatLessThanWellFounded
<1>2. \A i, j \in Nat : <<i, j>> \in R <=> i < j
  BY DEF OpToRel
<1> HIDE DEF R
<1>3. PICK i \in S : \A j \in S : ~(<<j, i>> \in R)
  BY <1>1, WFMin
<1>4. ASSUME NEW j \in S PROVE i <= j
  <2>1. i \in Nat /\ j \in Nat
    OBVIOUS
  <2>2. ~(j < i)
    BY <1>2, <1>3, <2>1
  <2> QED BY <2>1, <2>2
<1> QED BY <1>4

-----------------------------------------------------------------------------
(* The order of arrivals.                                                  *)

(* Places in a list whose entries have times.                              *)
Timed(rx, S) == IsFiniteSet(S) /\ S \subseteq Nat /\ \A i \in S : rx[i].time \in Int

LEMMA EarlierIsOrder ==
  ASSUME NEW rx, NEW S, Timed(rx, S), NEW i \in S, NEW j \in S
  PROVE  /\ ~Earlier(rx, i, i)
         /\ Earlier(rx, i, j) \/ Earlier(rx, j, i) \/ i = j
         /\ ~(Earlier(rx, i, j) /\ Earlier(rx, j, i))
<1>1. \A k \in S : k \in Nat /\ rx[k].time \in Int
  BY DEF Timed
<1> QED BY <1>1 DEF Earlier

LEMMA EarlierGoesOn ==
  ASSUME NEW rx, NEW S, Timed(rx, S), NEW i \in S, NEW j \in S, NEW k \in S,
         Earlier(rx, i, j), Earlier(rx, j, k)
  PROVE  Earlier(rx, i, k)
<1>1. \A l \in S : l \in Nat /\ rx[l].time \in Int
  BY DEF Timed
<1> QED BY <1>1 DEF Earlier

(* How many places of D come before i.                                     *)
Before(rx, D, i) == {j \in D : Earlier(rx, j, i)}
Rank(rx, D, i) == Cardinality(Before(rx, D, i))

LEMMA RanksAscend ==
  ASSUME NEW rx, NEW S, Timed(rx, S), NEW D \in SUBSET S, NEW i \in D, NEW j \in D
  PROVE  /\ Rank(rx, D, i) \in 0..(Cardinality(D) - 1)
         /\ Earlier(rx, i, j) => Rank(rx, D, i) < Rank(rx, D, j)
<1>1. IsFiniteSet(D)
  BY FS_Subset DEF Timed
<1>2. ASSUME NEW k \in D
      PROVE  /\ Before(rx, D, k) \in SUBSET D
             /\ k \notin Before(rx, D, k)
             /\ IsFiniteSet(Before(rx, D, k)) /\ Rank(rx, D, k) \in Nat
  <2>1. Before(rx, D, k) \in SUBSET D /\ k \notin Before(rx, D, k)
    BY EarlierIsOrder DEF Before
  <2> QED BY <1>1, <2>1, FS_Subset, FS_CardinalityType DEF Rank
<1>3. Rank(rx, D, i) \in 0..(Cardinality(D) - 1)
  <2>1. Cardinality(D) \in Nat
    BY <1>1, FS_CardinalityType
  <2>2. Rank(rx, D, i) <= Cardinality(D) /\ Rank(rx, D, i) # Cardinality(D)
    BY <1>1, <1>2, FS_Subset DEF Rank
  <2> QED BY <1>2, <2>1, <2>2
<1>4. ASSUME Earlier(rx, i, j) PROVE Rank(rx, D, i) < Rank(rx, D, j)
  <2>1. Before(rx, D, i) \in SUBSET Before(rx, D, j)
    <3> SUFFICES ASSUME NEW k \in D, Earlier(rx, k, i) PROVE Earlier(rx, k, j)
      BY DEF Before
    <3> QED BY <1>4, EarlierGoesOn
  <2>2. i \in Before(rx, D, j) /\ i \notin Before(rx, D, i)
    BY <1>2, <1>4 DEF Before
  <2>3. Rank(rx, D, i) <= Rank(rx, D, j) /\ Rank(rx, D, i) # Rank(rx, D, j)
    BY <1>2, <2>1, <2>2, FS_Subset DEF Rank
  <2> QED BY <1>2, <2>3
<1> QED BY <1>3, <1>4

(* p lists S in the order of time, each place once.                        *)
Lists(rx, p, S) ==
  /\ Timed(rx, S) /\ Cardinality(S) \in Nat
  /\ p \in [1..Cardinality(S) -> S] /\ Ascending(rx, p, Cardinality(S))
  /\ \A m, n \in 1..Cardinality(S) : p[m] = p[n] => m = n
  /\ \A i \in S : \E m \in 1..Cardinality(S) : p[m] = i

(* As many ranks as places: the place of each rank is a listing.           *)
LEMMA ListingExists ==
  ASSUME NEW rx, NEW S, Timed(rx, S)
  PROVE  \E p : p \in Listings(rx, S)
<1> PICK c : c = Cardinality(S)
  OBVIOUS
<1>1. c \in Nat /\ IsFiniteSet(S) /\ S \in SUBSET S
  BY FS_CardinalityType DEF Timed
<1>2. IsFiniteSet(0..(c - 1)) /\ Cardinality(0..(c - 1)) = c
  <2> PICK d \in Int : d = c - 1
    BY <1>1
  <2> PICK b \in Int : b = 0
    OBVIOUS
  <2>1. IsFiniteSet(b..d) /\ Cardinality(b..d) = IF b > d THEN 0 ELSE d - b + 1
    BY FS_Interval
  <2> QED BY <1>1, <2>1
<1> DEFINE f == [i \in S |-> Rank(rx, S, i)]
<1>3. \A i, j \in S : f[i] \in 0..(c - 1) /\ (f[i] = f[j] => i = j)
  <2> SUFFICES ASSUME NEW i \in S, NEW j \in S
               PROVE  f[i] \in 0..(c - 1) /\ (f[i] = f[j] => i = j)
    OBVIOUS
  <2>1. /\ f[i] \in 0..(c - 1) /\ f[j] \in 0..(c - 1)
        /\ Earlier(rx, i, j) => f[i] < f[j]
        /\ Earlier(rx, j, i) => f[j] < f[i]
    BY <1>1, RanksAscend
  <2> QED BY <1>1, <2>1, EarlierIsOrder
<1>4. f \in Surjection(S, 0..(c - 1))
  <2>1. f \in [S -> 0..(c - 1)]
    BY <1>3
  <2>2. f \in Injection(S, 0..(c - 1))
    BY <1>3, <2>1 DEF Injection, IsInjective
  <2> HIDE DEF f
  <2> QED BY <1>2, <2>2, FS_Injection
<1>5. \A n \in 1..c : \E i \in S : f[i] = n - 1
  <2> SUFFICES ASSUME NEW n \in 1..c PROVE \E i \in S : f[i] = n - 1
    OBVIOUS
  <2>1. n - 1 \in 0..(c - 1)
    BY <1>1
  <2> HIDE DEF f
  <2> QED BY <1>4, <2>1 DEF Surjection
<1> DEFINE p == [n \in 1..c |-> CHOOSE i \in S : f[i] = n - 1]
<1>6. \A n \in 1..c : p[n] \in S /\ f[p[n]] = n - 1
  BY <1>5
<1>7. p \in [1..c -> S]
  BY <1>6
<1>8. ASSUME NEW m \in 1..c, NEW n \in 1..c, m < n PROVE Earlier(rx, p[m], p[n])
  <2> PICK i \in S : i = p[m] /\ f[i] = m - 1
    BY <1>6
  <2> PICK j \in S : j = p[n] /\ f[j] = n - 1
    BY <1>6
  <2> HIDE DEF p
  <2>1. f[i] < f[j]
    BY <1>1, <1>8
  <2>2. ~(f[j] < f[i]) /\ i # j
    BY <1>3, <2>1
  <2>3. ~Earlier(rx, j, i)
    BY <1>1, <2>2, RanksAscend
  <2> QED BY <2>2, <2>3, EarlierIsOrder
<1> HIDE DEF p
<1>9. p \in [1..Cardinality(S) -> S] /\ Ascending(rx, p, Cardinality(S))
  BY <1>7, <1>8 DEF Ascending
<1> QED BY <1>9 DEF Listings

(* A listing leaves no place out, as it has one for each.                  *)
LEMMA SortedLists ==
  ASSUME NEW rx, NEW S, Timed(rx, S)
  PROVE  Lists(rx, Sorted(rx, S), S)
<1> PICK c : c = Cardinality(S)
  OBVIOUS
<1>1. c \in Nat /\ IsFiniteSet(1..c) /\ Cardinality(1..c) = c /\ IsFiniteSet(S)
  BY FS_CardinalityType, FS_Interval DEF Timed
<1> PICK p : p = Sorted(rx, S)
  OBVIOUS
<1>2. p \in [1..c -> S] /\ Ascending(rx, p, c)
  BY ListingExists DEF Sorted, Listings
<1>3. \A m, n \in 1..c : p[m] = p[n] => m = n
  <2> SUFFICES ASSUME NEW m \in 1..c, NEW n \in 1..c, p[m] = p[n] PROVE m = n
    OBVIOUS
  <2>1. p[m] \in S /\ ~Earlier(rx, p[m], p[m])
    BY <1>2, EarlierIsOrder
  <2>2. ~(m < n) /\ ~(n < m)
    BY <1>2, <2>1 DEF Ascending
  <2> QED BY <1>1, <2>2
<1>4. p \in Surjection(1..c, S)
  <2>1. p \in Injection(1..c, S)
    BY <1>2, <1>3 DEF Injection, IsInjective
  <2> QED BY <1>1, <2>1, FS_Injection
<1> QED BY <1>1, <1>2, <1>3, <1>4 DEF Lists, Surjection

-----------------------------------------------------------------------------
(* Flattening.                                                             *)

(* f flattens the first n of s.                                            *)
Flattens(f, s, n) ==
  f = [i \in 1..n |-> IF i = 1 THEN s[i] ELSE f[i - 1] \o s[i]]

LEMMA FlatteningExists ==
  ASSUME NEW V, NEW s \in Seq(Seq(V)), NEW n \in 0..Len(s)
  PROVE  \E f : Flattens(f, s, n) /\ f \in [1..n -> Seq(V)]
<1> DEFINE Can(m) == \E f : Flattens(f, s, m) /\ f \in [1..m -> Seq(V)]
           S == {m \in 0..Len(s) : ~Can(m)}
<1> SUFFICES S = {}
  OBVIOUS
<1> SUFFICES ASSUME S # {} PROVE FALSE
  OBVIOUS
<1>0. S \in SUBSET Nat
  OBVIOUS
<1>1. PICK m \in S : \A k \in S : m <= k
  BY <1>0, LeastNatural
<1>2. m \in Nat /\ m <= Len(s) /\ ~Can(m)
  OBVIOUS
<1>3. CASE m = 0
  <2>1. Flattens(<<>>, s, 0) /\ <<>> \in [1..0 -> Seq(V)]
    BY DEF Flattens
  <2> QED BY <1>2, <1>3, <2>1
<1>4. CASE m > 0
  <2>1. m - 1 \in 0..Len(s) /\ m - 1 \notin S
    <3> HIDE DEF Can
    <3>1. m - 1 \in Nat /\ ~(m <= m - 1) /\ m - 1 \in 0..Len(s)
      BY <1>2, <1>4
    <3> HIDE DEF S
    <3> QED BY <1>1, <3>1
  <2>2. Can(m - 1)
    BY <2>1
  <2>3. PICK f : Flattens(f, s, m - 1) /\ f \in [1..(m - 1) -> Seq(V)]
    BY <2>2
  <2> HIDE DEF S, Can
  <2> DEFINE g == [i \in 1..m |-> IF i = m THEN (IF m = 1 THEN s[m] ELSE f[m - 1] \o s[m]) ELSE f[i]]
  <2>4. \A i \in 1..m : s[i] \in Seq(V)
    BY <1>2
  <2>5. \A i \in 1..(m - 1) : f[i] = IF i = 1 THEN s[i] ELSE f[i - 1] \o s[i]
    BY <2>3 DEF Flattens
  <2>6. \A i \in 1..m : g[i] \in Seq(V)
    BY <1>2, <1>4, <2>3, <2>4
  <2>7. \A i \in 1..m : g[i] = IF i = 1 THEN s[i] ELSE g[i - 1] \o s[i]
    <3> SUFFICES ASSUME NEW i \in 1..m PROVE g[i] = IF i = 1 THEN s[i] ELSE g[i - 1] \o s[i]
      OBVIOUS
    <3>1. CASE i = m
      BY <3>1, <1>2, <1>4
    <3>2. CASE i # m
      <4>1. i \in 1..(m - 1) /\ g[i] = f[i]
        BY <3>2, <1>2
      <4>2. i # 1 => i - 1 \in 1..m /\ i - 1 # m /\ g[i - 1] = f[i - 1]
        BY <4>1, <1>2
      <4> QED BY <4>1, <4>2, <2>5
    <3> QED BY <3>1, <3>2
  <2>8. g \in [1..m -> Seq(V)]
    BY <2>6
  <2> HIDE DEF g
  <2>9. Flattens(g, s, m)
    BY <2>7, <2>8 DEF Flattens
  <2> QED BY <2>8, <2>9, <1>2 DEF Can
<1> QED BY <1>2, <1>3, <1>4

Agree(s, t, n) == \A i \in 1..n : s[i] = t[i]

(* Two flattenings agree as far as both go.                                *)
LEMMA FlatteningUnique ==
  ASSUME NEW s, NEW t, NEW n \in Nat, NEW m \in Nat, NEW f, NEW g,
         Flattens(f, s, n), Flattens(g, t, m), n <= m, Agree(s, t, n)
  PROVE  Agree(f, g, n)
<1> DEFINE S == {i \in 1..n : f[i] # g[i]}
<1> SUFFICES ASSUME S # {} PROVE FALSE
  BY DEF Agree
<1>0. S \in SUBSET Nat
  OBVIOUS
<1>1. PICK k \in S : \A j \in S : k <= j
  BY <1>0, LeastNatural
<1>2. k \in 1..n /\ f[k] # g[k]
  OBVIOUS
<1>3. k > 1 => f[k - 1] = g[k - 1]
  BY <1>1, <1>2
<1> HIDE DEF S
<1>4. f[k] = IF k = 1 THEN s[k] ELSE f[k - 1] \o s[k]
  BY <1>2 DEF Flattens
<1>5. g[k] = IF k = 1 THEN t[k] ELSE g[k - 1] \o t[k]
  <2>1. k \in 1..m
    BY <1>2
  <2> QED BY <2>1 DEF Flattens
<1>6. s[k] = t[k]
  BY <1>2 DEF Agree
<1> QED BY <1>2, <1>3, <1>4, <1>5, <1>6

LEMMA FlattenOf ==
  ASSUME NEW V, NEW s \in Seq(Seq(V))
  PROVE  /\ Len(s) = 0 => FlattenSeq(s) = <<>>
         /\ Len(s) > 0 => \E f : /\ Flattens(f, s, Len(s)) /\ f \in [1..Len(s) -> Seq(V)]
                                 /\ FlattenSeq(s) = f[Len(s)]
<1>1. CASE Len(s) = 0
  BY <1>1 DEF FlattenSeq
<1>2. CASE Len(s) > 0
  <2>0. Len(s) \in 0..Len(s)
    OBVIOUS
  <2> DEFINE h == CHOOSE f : f = [i \in 1..Len(s) |-> IF i = 1 THEN s[i] ELSE f[i - 1] \o s[i]]
  <2>1. PICK f : Flattens(f, s, Len(s)) /\ f \in [1..Len(s) -> Seq(V)]
    BY <2>0, FlatteningExists
  <2>2. h = [i \in 1..Len(s) |-> IF i = 1 THEN s[i] ELSE h[i - 1] \o s[i]]
    BY <2>1 DEF Flattens
  <2>3. FlattenSeq(s) = h[Len(s)]
    BY <1>2 DEF FlattenSeq
  <2> HIDE DEF h
  <2>4. Flattens(h, s, Len(s))
    BY <2>2 DEF Flattens
  <2>5. \A i \in 1..Len(s) : h[i] = f[i]
    <3>1. Agree(s, s, Len(s))
      BY DEF Agree
    <3>2. Agree(h, f, Len(s))
      BY <2>1, <2>4, <3>1, FlatteningUnique
    <3> QED BY <3>2 DEF Agree
  <2>6. h = f
    <3>1. h = [i \in 1..Len(s) |-> h[i]]
      BY <2>2
    <3>2. f = [i \in 1..Len(s) |-> f[i]]
      BY <2>1
    <3> QED BY <3>1, <3>2, <2>5
  <2> QED BY <2>1, <2>3, <2>6, <1>2, SMTT(30)
<1> QED BY <1>1, <1>2

(* Flattening one sequence more.                                           *)
LEMMA FlattenGrows ==
  ASSUME NEW V, NEW s \in Seq(Seq(V)), NEW x \in Seq(V)
  PROVE  /\ FlattenSeq(s) \in Seq(V)
         /\ FlattenSeq(Append(s, x)) = FlattenSeq(s) \o x
<1> PICK n \in Nat : n = Len(s)
  OBVIOUS
<1>1. PICK t : t = Append(s, x)
  OBVIOUS
<1>2. /\ t \in Seq(Seq(V)) /\ Len(t) = n + 1 /\ t[n + 1] = x
      /\ \A i \in 1..n : t[i] = s[i]
  BY <1>1
<1>3. PICK g : Flattens(g, t, n + 1) /\ FlattenSeq(t) = g[n + 1]
  BY <1>2, FlattenOf, SMTT(30)
<1>4. g[n + 1] = IF n + 1 = 1 THEN t[n + 1] ELSE g[n] \o t[n + 1]
  <2>1. n + 1 \in 1..(n + 1) /\ (n + 1) - 1 = n
    OBVIOUS
  <2>2. g = [i \in 1..(n + 1) |-> IF i = 1 THEN t[i] ELSE g[i - 1] \o t[i]]
    BY <1>3 DEF Flattens
  <2>3. g[n + 1] = IF n + 1 = 1 THEN t[n + 1] ELSE g[(n + 1) - 1] \o t[n + 1]
    BY <2>1, <2>2
  <2> QED BY <2>1, <2>3
<1>5. CASE n = 0
  BY <1>1, <1>2, <1>3, <1>4, <1>5, FlattenOf
<1>6. CASE n > 0
  <2>1. PICK f : Flattens(f, s, n) /\ f \in [1..n -> Seq(V)] /\ FlattenSeq(s) = f[n]
    BY <1>6, FlattenOf
  <2>2. f[n] = g[n]
    <3>1. Agree(f, g, n)
      <4>1. PICK m \in Nat : m = n + 1
        OBVIOUS
      <4>2. Agree(s, t, n)
        BY <1>2 DEF Agree
      <4>3. Flattens(f, s, n) /\ Flattens(g, t, m) /\ n <= m
        BY <2>1, <1>3, <4>1
      <4> QED BY <4>2, <4>3, FlatteningUnique
    <3> QED BY <3>1, <1>6 DEF Agree
  <2>3. f[n] \in Seq(V)
    BY <2>1, <1>6
  <2> QED BY <1>1, <1>2, <1>3, <1>4, <1>6, <2>1, <2>2, <2>3
<1> QED BY <1>5, <1>6

LEMMA ConcatFacts ==
  ASSUME NEW V, NEW a \in Seq(V), NEW b \in Seq(V)
  PROVE  /\ a \o b \in Seq(V) /\ Len(a \o b) = Len(a) + Len(b)
         /\ \A n \in 1..Len(a) : (a \o b)[n] = a[n]
         /\ \A n \in 1..Len(b) : (a \o b)[Len(a) + n] = b[n]
OBVIOUS

Three(V, a, b, c) == a \in Seq(V) /\ b \in Seq(V) /\ c \in Seq(V)

LEMMA ConcatAssociates ==
  ASSUME NEW V, NEW a, NEW b, NEW c, Three(V, a, b, c)
  PROVE  (a \o b) \o c = a \o (b \o c)
BY DEF Three

LEMMA ConcatAppends ==
  ASSUME NEW V, NEW a \in Seq(V), NEW b \in Seq(V), NEW x \in V
  PROVE  a \o Append(b, x) = Append(a \o b, x)
OBVIOUS

LEMMA ConcatEmpty ==
  ASSUME NEW V, NEW a \in Seq(V)
  PROVE  a \o <<>> = a
OBVIOUS

LEMMA Slice ==
  ASSUME NEW V, NEW s \in Seq(V), NEW c \in Nat, NEW e \in Nat, c <= e, e <= Len(s)
  PROVE  /\ SubSeq(s, c + 1, e) \in Seq(V)
         /\ Len(SubSeq(s, c + 1, e)) = e - c /\ DOMAIN SubSeq(s, c + 1, e) = 1..(e - c)
         /\ \A i \in 1..(e - c) : SubSeq(s, c + 1, e)[i] = s[c + i]
OBVIOUS

LEMMA SameSequence ==
  ASSUME NEW V, NEW a \in Seq(V), NEW b \in Seq(V), Len(a) = Len(b),
         \A n \in 1..Len(a) : a[n] = b[n]
  PROVE  a = b
OBVIOUS

LEMMA IsSequence ==
  ASSUME NEW V, NEW n \in Nat, NEW s, s = [i \in 1..n |-> s[i]], \A i \in 1..n : s[i] \in V
  PROVE  s \in Seq(V) /\ Len(s) = n
OBVIOUS

(* s has the first n of t from place k + 1 on.                             *)
Holds(s, k, t, n) == \A i \in 1..n : s[k + i] = t[i]

LEMMA SplitsAt ==
  ASSUME NEW V, NEW a \in Seq(V), NEW b \in Seq(V), NEW s \in Seq(V),
         NEW k \in Nat, NEW l \in Nat, Len(a) = k, Len(b) = l, Len(s) = k + l,
         Holds(s, 0, a, k), Holds(s, k, b, l)
  PROVE  s = a \o b
<1> DEFINE c == a \o b
<1>1. c \in Seq(V) /\ Len(c) = k + l
  BY ConcatFacts
<1>2. /\ \A n \in 1..k : c[n] = a[n]
      /\ \A n \in 1..l : c[k + n] = b[n]
  BY ConcatFacts
<1> HIDE DEF c
<1>3. ASSUME NEW n \in 1..(k + l) PROVE s[n] = c[n]
  <2>1. CASE n <= k
    <3>1. n \in 1..k /\ 0 + n = n
      BY <2>1
    <3> QED BY <1>2, <3>1 DEF Holds
  <2>2. CASE n > k
    <3> PICK m : m = n - k
      OBVIOUS
    <3>1. m \in 1..l /\ k + m = n
      BY <2>2
    <3> QED BY <1>2, <3>1 DEF Holds
  <2> QED BY <2>1, <2>2
<1>4. s = c
  BY <1>1, <1>3, SameSequence
<1> QED BY <1>4 DEF c

(* The first n of a sequence.                                              *)
First(s, n) == [i \in 1..n |-> s[i]]

LEMMA FirstGrows ==
  ASSUME NEW V, NEW t \in Seq(V), NEW n \in 1..Len(t), NEW m, m = n - 1
  PROVE  /\ First(t, m) \in Seq(V) /\ t[n] \in V /\ m \in 0..Len(t)
         /\ First(t, n) = Append(First(t, m), t[n])
BY DEF First

(* Flattening two sequences, one behind the other.                         *)
LEMMA FlattenJoins ==
  ASSUME NEW V, NEW W, W = Seq(V), NEW s \in Seq(W), NEW t \in Seq(W)
  PROVE  FlattenSeq(s \o t) = FlattenSeq(s) \o FlattenSeq(t)
<1> DEFINE Joins(n) == FlattenSeq(s \o First(t, n)) = FlattenSeq(s) \o FlattenSeq(First(t, n))
           B == {n \in 0..Len(t) : ~Joins(n)}
<1>1. First(t, 0) = <<>> /\ First(t, Len(t)) = t
  BY DEF First
<1>2. FlattenSeq(<<>>) = <<>>
  <2>1. <<>> \in Seq(Seq(V)) /\ Len(<<>>) = 0
    OBVIOUS
  <2> QED BY <2>1, FlattenOf
<1>3. B = {}
  <2> SUFFICES ASSUME B # {} PROVE FALSE
    OBVIOUS
  <2>1. B \in SUBSET Nat
    OBVIOUS
  <2>2. PICK n \in B : \A m \in B : n <= m
    BY <2>1, LeastNatural
  <2>3. n \in 0..Len(t) /\ ~Joins(n)
    OBVIOUS
  <2>4. CASE n = 0
    <3>1. s \o <<>> = s /\ FlattenSeq(s) \o <<>> = FlattenSeq(s)
      <4>1. FlattenSeq(s) \in Seq(V)
        <5>1. <<>> \in Seq(V)
          OBVIOUS
        <5> QED BY <5>1, FlattenGrows
      <4> QED BY <4>1, ConcatEmpty
    <3> QED BY <1>1, <1>2, <2>3, <2>4, <3>1
  <2>5. CASE n > 0
    <3>m. PICK m : m = n - 1
      OBVIOUS
    <3> HIDE DEF B
    <3>0. n \in 1..Len(t)
      BY <2>3, <2>5
    <3>1. /\ First(t, m) \in Seq(W) /\ t[n] \in W /\ m \in 0..Len(t)
          /\ First(t, n) = Append(First(t, m), t[n])
      BY <3>0, <3>m, FirstGrows
    <3>2. Joins(m)
      <4>1. ~(n <= m)
        BY <2>3, <3>m
      <4>2. m \notin B
        BY <2>2, <4>1
      <4> QED BY <3>1, <4>2 DEF B
    <3> HIDE DEF Joins
    <3>f. PICK f : f = First(t, m)
      OBVIOUS
    <3>g. PICK g : g = s \o f
      OBVIOUS
    <3>x. PICK x : x = t[n]
      OBVIOUS
    <3>3. f \in Seq(W) /\ x \in W /\ First(t, n) = Append(f, x)
      BY <3>1, <3>f, <3>x
    <3>4. s \o f \in Seq(W) /\ s \o Append(f, x) = Append(s \o f, x)
      BY <3>3, ConcatFacts, ConcatAppends, SMTT(30)
    <3>5. s \o First(t, n) = Append(g, x)
      BY <3>3, <3>4, <3>g
    <3>6. f \in Seq(Seq(V)) /\ g \in Seq(Seq(V)) /\ x \in Seq(V)
      BY <3>3, <3>4, <3>g
    <3>a. PICK a : a = FlattenSeq(s)
      OBVIOUS
    <3>b. PICK b : b = FlattenSeq(f)
      OBVIOUS
    <3>7. FlattenSeq(s \o First(t, n)) = FlattenSeq(g) \o x
      <4>1. FlattenSeq(Append(g, x)) = FlattenSeq(g) \o x
        BY <3>6, FlattenGrows
      <4> QED BY <4>1, <3>5
    <3>8. FlattenSeq(First(t, n)) = b \o x
      <4>1. FlattenSeq(Append(f, x)) = FlattenSeq(f) \o x
        BY <3>6, FlattenGrows
      <4> QED BY <4>1, <3>3, <3>b
    <3>9. (a \o b) \o x = a \o (b \o x)
      <4>1. Three(V, a, b, x)
        BY <3>6, <3>a, <3>b, FlattenGrows DEF Three
      <4> QED BY <4>1, ConcatAssociates
    <3>11. FlattenSeq(g) = a \o b
      BY <3>2, <3>a, <3>b, <3>f, <3>g DEF Joins
    <3>12. FlattenSeq(s \o First(t, n)) = a \o FlattenSeq(First(t, n))
      BY <3>7, <3>8, <3>9, <3>11
    <3>10. Joins(n)
      BY <3>12, <3>a DEF Joins
    <3> QED BY <3>10, <2>3 DEF Joins
  <2> QED BY <2>3, <2>4, <2>5
<1>4. Joins(Len(t))
  <2>1. Len(t) \in 0..Len(t)
    OBVIOUS
  <2> QED BY <1>3, <2>1
<1> QED BY <1>1, <1>4

(* The bytes of the first k entries of s, each entry's by itself.          *)
BytesOf(s, k) == [n \in 1..k |-> s[n].bytes]

(* s is a list of entries of E, with bytes in W; due is its part from c + 1 *)
(* to e, and rest that part's bytes.                                       *)
Cut(E, W, s, c, e, due, rest) ==
  /\ \A x \in E : x.bytes \in W
  /\ s \in Seq(E) /\ c \in Nat /\ e \in Nat /\ c <= e /\ e <= Len(s)
  /\ due = SubSeq(s, c + 1, e) /\ rest = [i \in DOMAIN due |-> due[i].bytes]

(* What stands between two places c <= e of a list of entries.             *)
LEMMA BytesJoin ==
  ASSUME NEW E, NEW W, NEW s, NEW c, NEW e, NEW due, NEW rest,
         Cut(E, W, s, c, e, due, rest)
  PROVE  /\ BytesOf(s, c) \in Seq(W) /\ BytesOf(s, e) \in Seq(W)
         /\ rest \in Seq(W)
         /\ BytesOf(s, e) = BytesOf(s, c) \o rest
<1>0. /\ s \in Seq(E) /\ c \in Nat /\ e \in Nat /\ c <= e /\ e <= Len(s)
      /\ due = SubSeq(s, c + 1, e) /\ rest = [i \in DOMAIN due |-> due[i].bytes]
  BY DEF Cut
<1>rest. rest = [i \in DOMAIN due |-> due[i].bytes]
  BY DEF Cut
<1>d. PICK d : d = e - c
  OBVIOUS
<1>1. d \in Nat /\ c + d = e
  BY <1>0, <1>d
<1>2. \A i \in 1..e : s[i] \in E /\ s[i].bytes \in W
  BY <1>0 DEF Cut
<1>3. /\ DOMAIN due = 1..d
      /\ \A i \in 1..d : due[i] = s[c + i]
  BY <1>0, <1>d, Slice
<1>4. \A i \in 1..d : rest[i] = s[c + i].bytes
  BY <1>3, <1>rest
<1>5. rest \in Seq(W) /\ Len(rest) = d
  <2>1. rest = [i \in 1..d |-> rest[i]]
    BY <1>3, <1>rest
  <2>2. \A i \in 1..d : c + i \in 1..e
    BY <1>0, <1>1
  <2>3. \A i \in 1..d : rest[i] \in W
    BY <1>2, <1>4, <2>2
  <2> QED BY <1>1, <2>1, <2>3, IsSequence
<1>a. PICK a : a = BytesOf(s, c)
  OBVIOUS
<1>b. PICK b : b = BytesOf(s, e)
  OBVIOUS
<1>6. a \in Seq(W) /\ Len(a) = c /\ \A i \in 1..c : a[i] = s[i].bytes
  <2>1. a = [i \in 1..c |-> a[i]] /\ \A i \in 1..c : a[i] = s[i].bytes
    BY <1>a DEF BytesOf
  <2>2. \A i \in 1..c : a[i] \in W
    <3>1. \A i \in 1..c : i \in 1..e
      BY <1>0
    <3> QED BY <1>2, <2>1, <3>1
  <2> QED BY <1>0, <2>1, <2>2, IsSequence
<1>7. b \in Seq(W) /\ Len(b) = e /\ \A i \in 1..e : b[i] = s[i].bytes
  <2>1. b = [i \in 1..e |-> b[i]] /\ \A i \in 1..e : b[i] = s[i].bytes
    BY <1>b DEF BytesOf
  <2>2. \A i \in 1..e : b[i] \in W
    BY <1>2, <2>1
  <2> QED BY <1>0, <2>1, <2>2, IsSequence
<1>8. Holds(b, 0, a, c)
  <2>1. \A n \in 1..c : n \in 1..e /\ 0 + n = n
    BY <1>0
  <2> QED BY <1>6, <1>7, <2>1 DEF Holds
<1>9. Holds(b, c, rest, d)
  <2>1. \A n \in 1..d : c + n \in 1..e
    BY <1>0, <1>1
  <2> QED BY <1>4, <1>7, <2>1 DEF Holds
<1>10. b = a \o rest
  <2>1. Len(b) = c + d
    BY <1>1, <1>7
  <2> QED BY <1>0, <1>1, <1>5, <1>6, <1>7, <1>8, <1>9, <2>1, SplitsAt
<1> QED BY <1>5, <1>6, <1>7, <1>10, <1>a, <1>b

(* t is s and x behind it.                                                 *)
OneMore(W, s, x, n, t) ==
  /\ n \in Nat /\ s \in Seq(W) /\ x \in W /\ Len(s) = n
  /\ t = [i \in 1..(n + 1) |-> t[i]]
  /\ t[n + 1] = x /\ \A i \in 1..n : t[i] = s[i]

LEMMA AppendIs ==
  ASSUME NEW W, NEW s, NEW x, NEW n, NEW t, OneMore(W, s, x, n, t)
  PROVE  t = Append(s, x)
<1>1. /\ n \in Nat /\ s \in Seq(W) /\ x \in W /\ Len(s) = n
      /\ t = [i \in 1..(n + 1) |-> t[i]]
      /\ t[n + 1] = x /\ \A i \in 1..n : t[i] = s[i]
  BY DEF OneMore
<1>a. PICK a : a = Append(s, x)
  OBVIOUS
<1>2. /\ a \in Seq(W) /\ Len(a) = n + 1
      /\ \A i \in 1..(n + 1) : a[i] = IF i = n + 1 THEN x ELSE s[i]
  BY <1>1, <1>a
<1>3. ASSUME NEW i \in 1..(n + 1) PROVE t[i] = a[i]
  <2>1. CASE i = n + 1
    BY <1>1, <1>2, <2>1
  <2>2. CASE i # n + 1
    <3>1. i \in 1..n
      BY <1>1, <2>2
    <3> QED BY <1>1, <1>2, <2>2, <3>1
  <2> QED BY <2>1, <2>2
<1>4. t \in Seq(W) /\ Len(t) = n + 1
  <2>1. \A i \in 1..(n + 1) : a[i] \in W /\ t[i] \in W
    BY <1>2, <1>3
  <2>m. PICK m : m = n + 1
    OBVIOUS
  <2>2. m \in Nat /\ t = [i \in 1..m |-> t[i]] /\ \A i \in 1..m : t[i] \in W
    BY <1>1, <2>1, <2>m
  <2> QED BY <2>2, <2>m, IsSequence
<1> QED BY <1>2, <1>3, <1>4, <1>a, SameSequence

(* The first e of a listing q of S are the places of S up to time t.       *)
LEMMA DueAreFirst ==
  ASSUME NEW rx, NEW S, NEW q, Lists(rx, q, S), NEW t \in Int,
         NEW e \in Nat, e <= Cardinality(S),
         \A n \in 1..e : rx[q[n]].time <= t,
         e < Cardinality(S) => rx[q[e + 1]].time > t,
         NEW due, due = {i \in S : rx[i].time <= t}
  PROVE  Cardinality(due) = e /\ [n \in 1..e |-> q[n]] \in Listings(rx, due)
<1>c. PICK c : c = Cardinality(S)
  OBVIOUS
<1>1. /\ c \in Nat /\ e <= c /\ q \in [1..c -> S] /\ Ascending(rx, q, c)
      /\ \A m, n \in 1..c : q[m] = q[n] => m = n
      /\ \A i \in S : \E m \in 1..c : q[m] = i
      /\ \A i \in S : rx[i].time \in Int
  BY <1>c DEF Lists, Timed
<1>2. ASSUME NEW n \in 1..c, n > e PROVE rx[q[n]].time > t
  <2>k. PICK k : k = e + 1
    OBVIOUS
  <2>1. k \in 1..c /\ rx[q[k]].time > t /\ k <= n
    BY <1>1, <1>2, <1>c, <2>k
  <2>2. CASE n = k
    BY <2>1, <2>2
  <2>3. CASE n # k
    <3>1. Earlier(rx, q[k], q[n])
      BY <1>1, <2>1, <2>3 DEF Ascending
    <3>2. rx[q[k]].time \in Int /\ rx[q[n]].time \in Int
      BY <1>1, <2>1
    <3> QED BY <2>1, <3>1, <3>2 DEF Earlier
  <2> QED BY <2>2, <2>3
<1>r. PICK r : r = [n \in 1..e |-> q[n]]
  OBVIOUS
<1>3. \A n \in 1..e : n \in 1..c /\ r[n] = q[n] /\ r[n] \in due
  BY <1>1, <1>r
<1>4. r \in Bijection(1..e, due)
  <2>1. r \in [1..e -> due]
    BY <1>3, <1>r
  <2>2. \A m, n \in 1..e : r[m] = r[n] => m = n
    BY <1>1, <1>3
  <2>3. ASSUME NEW i \in due PROVE \E n \in 1..e : r[n] = i
    <3>1. PICK m \in 1..c : q[m] = i
      BY <1>1
    <3>2. ~(m > e)
      <4>1. i \in S /\ rx[i].time <= t /\ rx[i].time \in Int
        BY <1>1
      <4> QED BY <1>2, <3>1, <4>1
    <3>3. m \in 1..e
      BY <1>1, <3>2
    <3> QED BY <1>3, <3>1, <3>3
  <2> QED BY <2>1, <2>2, <2>3 DEF Bijection, Injection, Surjection, IsInjective
<1>5. Cardinality(due) = e
  <2>1. IsFiniteSet(1..e) /\ Cardinality(1..e) = e
    <3>b. PICK b \in Int : b = 1
      OBVIOUS
    <3>1. IsFiniteSet(b..e) /\ Cardinality(b..e) = IF b > e THEN 0 ELSE e - b + 1
      BY FS_Interval
    <3> QED BY <3>1, <3>b
  <2> QED BY <1>4, <2>1, FS_Bijection DEF ExistsBijection
<1>6. r \in [1..e -> due] /\ Ascending(rx, r, e)
  <2>1. r \in [1..e -> due]
    BY <1>3, <1>r
  <2>2. ASSUME NEW m \in 1..e, NEW n \in 1..e, m < n PROVE Earlier(rx, r[m], r[n])
    BY <1>1, <1>3, <2>2 DEF Ascending
  <2> QED BY <2>1, <2>2 DEF Ascending
<1> QED BY <1>5, <1>6, <1>r DEF Listings

-----------------------------------------------------------------------------
(* Words and their bytes.                                                  *)

(* Induction up to N, for a set.                                           *)
LEMMA Climbs ==
  ASSUME NEW N \in Nat, NEW S, 0 \in S, \A n \in 1..N : n - 1 \in S => n \in S
  PROVE  \A n \in 0..N : n \in S
<1> DEFINE T == {n \in 0..N : n \notin S}
<1> SUFFICES ASSUME T # {} PROVE FALSE
  OBVIOUS
<1>1. T \in SUBSET Nat
  OBVIOUS
<1>2. PICK n \in T : \A m \in T : n <= m
  BY <1>1, LeastNatural
<1>3. n \in 0..N /\ n \notin S /\ n # 0
  OBVIOUS
<1>4. n - 1 \in 0..N /\ ~(n <= n - 1)
  BY <1>3
<1>5. n - 1 \notin T
  <2> HIDE DEF T
  <2> QED BY <1>2, <1>4
<1>6. n - 1 \in S
  BY <1>4, <1>5
<1> QED BY <1>3, <1>6

(* f starts at b and goes on by m times its last value and a.              *)
Recurs(f, N, b, m, a) ==
  /\ f \in [0..N -> Nat] /\ f[0] = b
  /\ \A n \in 1..N : f[n] = m * f[n - 1] + a[n]

LEMMA RecurrenceExists ==
  ASSUME NEW N \in Nat, NEW b \in Nat, NEW m \in Nat, NEW a \in [1..N -> Nat]
  PROVE  \E f : Recurs(f, N, b, m, a)
<1> DEFINE S == {k \in 0..N : \E f : Recurs(f, k, b, m, a)}
<1>1. 0 \in S
  <2>f. PICK f : f = [n \in 0..0 |-> b]
    OBVIOUS
  <2>1. Recurs(f, 0, b, m, a)
    BY <2>f DEF Recurs
  <2> QED BY <2>1
<1>2. ASSUME NEW k \in 1..N, k - 1 \in S PROVE k \in S
  <2>1. PICK f : Recurs(f, k - 1, b, m, a)
    BY <1>2
  <2>2. f \in [0..(k - 1) -> Nat] /\ f[0] = b
        /\ \A n \in 1..(k - 1) : f[n] = m * f[n - 1] + a[n]
    BY <2>1 DEF Recurs
  <2>v. PICK v : v = m * f[k - 1] + a[k]
    OBVIOUS
  <2>3. v \in Nat
    <3>1. f[k - 1] \in Nat /\ a[k] \in Nat
      BY <2>2
    <3>2. m * f[k - 1] \in Nat
      BY <3>1
    <3> QED BY <3>1, <3>2, <2>v
  <2>g. PICK g : g = [n \in 0..k |-> IF n = k THEN v ELSE f[n]]
    OBVIOUS
  <2>4. g \in [0..k -> Nat] /\ g[0] = b
    BY <2>2, <2>3, <2>g
  <2>5. ASSUME NEW n \in 1..k PROVE g[n] = m * g[n - 1] + a[n]
    <3>1. CASE n = k
      <4>1. g[n] = v /\ g[n - 1] = f[k - 1]
        BY <3>1, <2>g
      <4> QED BY <4>1, <3>1, <2>v
    <3>2. CASE n # k
      <4>1. n \in 1..(k - 1) /\ g[n] = f[n] /\ g[n - 1] = f[n - 1]
        BY <3>2, <2>g
      <4> QED BY <4>1, <2>2
    <3> QED BY <3>1, <3>2
  <2>6. Recurs(g, k, b, m, a)
    BY <2>4, <2>5 DEF Recurs
  <2> QED BY <2>6
<1>3. N \in S
  <2> HIDE DEF S
  <2>1. \A n \in 1..N : n - 1 \in S => n \in S
    BY <1>2
  <2>2. \A n \in 0..N : n \in S
    BY <1>1, <2>1, Climbs
  <2>3. N \in 0..N
    OBVIOUS
  <2> QED BY <2>2, <2>3
<1> QED BY <1>3

(* The weights of the bytes of a word.                                     *)
LEMMA WeightsGrow ==
  /\ \A n \in 0..WordBytes : Weight[n] \in Nat /\ Weight[n] > 0
  /\ Weight[0] = 1
  /\ \A n \in 1..WordBytes : Weight[n] = Radix * Weight[n - 1]
<1>0. WordBytes \in Nat /\ Radix \in Nat /\ Radix > 1
  BY VirtualSerialAssumption
<1>a. PICK a : a = [n \in 1..WordBytes |-> 0]
  OBVIOUS
<1>1. PICK f : Recurs(f, WordBytes, 1, Radix, a)
  BY <1>0, <1>a, RecurrenceExists
<1>2. /\ f \in [0..WordBytes -> Nat] /\ f[0] = 1
      /\ \A n \in 1..WordBytes : f[n] = Radix * f[n - 1]
  <2>1. /\ f \in [0..WordBytes -> Nat] /\ f[0] = 1
        /\ \A n \in 1..WordBytes : f[n] = Radix * f[n - 1] + a[n]
    BY <1>1 DEF Recurs
  <2>2. ASSUME NEW n \in 1..WordBytes PROVE f[n] = Radix * f[n - 1]
    <3>1. a[n] = 0 /\ f[n - 1] \in Nat
      BY <1>0, <1>a, <2>1
    <3>2. Radix * f[n - 1] \in Nat
      BY <1>0, <3>1
    <3>3. f[n] = Radix * f[n - 1] + 0
      BY <2>1, <3>1
    <3> QED BY <3>2, <3>3
  <2> QED BY <2>1, <2>2
<1>3. f = [n \in 0..WordBytes |-> IF n = 0 THEN 1 ELSE Radix * f[n - 1]]
  BY <1>2
<1>4. Weight = [n \in 0..WordBytes |-> IF n = 0 THEN 1 ELSE Radix * Weight[n - 1]]
  BY <1>3 DEF Weight
<1>5. Weight[0] = 1 /\ \A n \in 1..WordBytes : Weight[n] = Radix * Weight[n - 1]
  <2>1. \A n \in 0..WordBytes : Weight[n] = IF n = 0 THEN 1 ELSE Radix * Weight[n - 1]
    BY <1>4
  <2>2. 0 \in 0..WordBytes /\ \A n \in 1..WordBytes : n \in 0..WordBytes /\ n # 0
    BY <1>0
  <2> QED BY <2>1, <2>2
<1> DEFINE S == {n \in 0..WordBytes : Weight[n] \in Nat /\ Weight[n] > 0}
<1>6. 0 \in S
  BY <1>0, <1>5
<1>7. ASSUME NEW n \in 1..WordBytes, n - 1 \in S PROVE n \in S
  <2>w. PICK w \in Nat : w = Weight[n - 1] /\ w > 0
    BY <1>7
  <2>1. Weight[n] = Radix * w
    BY <1>5, <2>w
  <2>2. Radix * w \in Nat /\ Radix * w > 0
    BY <1>0, <2>w
  <2> QED BY <2>1, <2>2, <1>0
<1>8. \A n \in 0..WordBytes : n \in S
  <2> HIDE DEF S
  <2> QED BY <1>0, <1>6, <1>7, Climbs
<1> QED BY <1>5, <1>8

(* The sums of a word's first bytes.                                       *)
Sums(digits) ==
  CHOOSE sum : sum = [n \in 0..Len(digits) |->
                        IF n = 0 THEN 0 ELSE sum[n - 1] + digits[n] * Weight[n - 1]]

LEMMA ValueIsSum ==
  ASSUME NEW digits
  PROVE  ValueOf(digits) = Sums(digits)[Len(digits)]
  BY DEF ValueOf, Sums

LEMMA SumsGrow ==
  ASSUME NEW digits \in Seq(Nat), Len(digits) <= WordBytes
  PROVE  /\ Sums(digits)[0] = 0
         /\ \A n \in 1..Len(digits) :
              Sums(digits)[n] = Sums(digits)[n - 1] + digits[n] * Weight[n - 1]
<1>N. PICK N \in Nat : N = Len(digits)
  OBVIOUS
<1>0. WordBytes \in Nat /\ N <= WordBytes
  BY VirtualSerialAssumption, <1>N
<1>a. PICK a : a = [n \in 1..N |-> digits[n] * Weight[n - 1]]
  OBVIOUS
<1>1. a \in [1..N -> Nat]
  <2>1. ASSUME NEW n \in 1..N PROVE digits[n] * Weight[n - 1] \in Nat
    <3>1. digits[n] \in Nat
      BY <1>N
    <3>2. Weight[n - 1] \in Nat
      BY <1>0, WeightsGrow
    <3> QED BY <3>1, <3>2
  <2> QED BY <2>1, <1>a
<1>2. PICK f : Recurs(f, N, 0, 1, a)
  BY <1>1, RecurrenceExists
<1>3. f = [n \in 0..N |-> IF n = 0 THEN 0 ELSE f[n - 1] + digits[n] * Weight[n - 1]]
  <2>1. /\ f \in [0..N -> Nat] /\ f[0] = 0
        /\ \A n \in 1..N : f[n] = 1 * f[n - 1] + a[n]
    BY <1>2 DEF Recurs
  <2>2. ASSUME NEW n \in 1..N PROVE f[n] = f[n - 1] + digits[n] * Weight[n - 1]
    <3>1. f[n - 1] \in Nat /\ a[n] = digits[n] * Weight[n - 1]
      BY <2>1, <1>a
    <3>2. f[n] = 1 * f[n - 1] + a[n] /\ 1 * f[n - 1] = f[n - 1]
      BY <2>1, <3>1
    <3> QED BY <3>1, <3>2
  <2> QED BY <2>1, <2>2
<1>s. PICK s : s = Sums(digits)
  OBVIOUS
<1>4. s = [n \in 0..N |-> IF n = 0 THEN 0 ELSE s[n - 1] + digits[n] * Weight[n - 1]]
  BY <1>3, <1>s, <1>N DEF Sums
<1>5. \A n \in 0..N : s[n] = IF n = 0 THEN 0 ELSE s[n - 1] + digits[n] * Weight[n - 1]
  BY <1>4
<1>6. 0 \in 0..N /\ \A n \in 1..N : n \in 0..N /\ n # 0
  OBVIOUS
<1> QED BY <1>5, <1>6, <1>s, <1>N

(* Quotients and remainders.                                               *)
LEMMA Quotients ==
  ASSUME NEW base \in Nat, base > 0, NEW high \in Int, NEW low \in Nat, low < base
  PROVE  /\ (high * base + low) % base = low
         /\ (high * base + low) \div base = high
  BY SMT

LEMMA Parts ==
  ASSUME NEW W \in Nat, W > 0, NEW a \in Int
  PROVE  /\ a \div W \in Int /\ a % W \in Nat /\ a % W < W
         /\ a = (a \div W) * W + (a % W)
         /\ a >= 0 => a \div W >= 0
<1>q. PICK q : q = a \div W
  OBVIOUS
<1>r. PICK r : r = a % W
  OBVIOUS
<1>1. q \in Int /\ r \in Nat /\ r < W /\ (a >= 0 => q >= 0)
  BY <1>q, <1>r
<1>2. a = W * q + r
  BY <1>q, <1>r, SMT
<1>3. W * q = q * W
  BY <1>1
<1>4. a = q * W + r
  BY <1>2, <1>3
<1> QED BY <1>1, <1>4, <1>q, <1>r

(* One byte more of a number.                                              *)
LEMMA OneByteMore ==
  ASSUME NEW R \in Nat, R > 0, NEW W \in Nat, W > 0, NEW a \in Nat
  PROVE  a % (R * W) = (a % W) + ((a \div W) % R) * W
<1>q. PICK q \in Nat : q = a \div W
  BY Parts
<1>r. PICK r \in Nat : r = a % W
  BY Parts
<1>1. a = q * W + r /\ r < W
  BY <1>q, <1>r, Parts
<1>s. PICK s \in Nat : s = q % R
  BY Parts
<1>k. PICK k \in Nat : k = q \div R
  BY Parts
<1>2. q = k * R + s /\ s < R
  BY <1>s, <1>k, Parts
<1>V. PICK V \in Nat : V = R * W
  OBVIOUS
<1>t. PICK t \in Nat : t = s * W + r
  <2>1. s * W \in Nat
    OBVIOUS
  <2> QED BY <2>1
<1>3. a = k * V + t
  <2>1. q * W = k * V + s * W
    <3>1. (k * R + s) * W = k * (R * W) + s * W
      OBVIOUS
    <3> QED BY <3>1, <1>2, <1>V
  <2>2. k * V \in Nat /\ s * W \in Nat
    OBVIOUS
  <2> QED BY <1>1, <1>t, <2>1, <2>2
<1>4. t < V /\ V > 0
  <2>1. s * W + W <= V
    <3>1. (s + 1) * W <= R * W
      BY <1>2
    <3>2. (s + 1) * W = s * W + W
      OBVIOUS
    <3> QED BY <3>1, <3>2, <1>V
  <2>2. s * W \in Nat
    OBVIOUS
  <2> QED BY <1>1, <1>t, <2>1, <2>2
<1>5. a % V = t
  BY <1>3, <1>4, Quotients
<1>6. t = r + s * W
  <2>1. s * W \in Nat
    OBVIOUS
  <2> QED BY <2>1, <1>t
<1>7. a % (R * W) = t
  BY <1>5, <1>V
<1> QED BY <1>6, <1>7, <1>s, <1>q, <1>r, Zenon

(* The bytes of a number sum up to it, or to what is left of it.           *)
LEMMA DigitsSumUp ==
  ASSUME NEW v \in Nat, NEW length \in 0..WordBytes
  PROVE  /\ Digits(v, length) \in Seq(Nat) /\ Len(Digits(v, length)) = length
         /\ ValueOf(Digits(v, length)) = v % Weight[length]
<1>0. WordBytes \in Nat /\ Radix \in Nat /\ Radix > 1
  BY VirtualSerialAssumption
<1>d. PICK d : d = Digits(v, length)
  OBVIOUS
<1>1. \A n \in 1..length : (v \div Weight[n - 1]) % Radix \in Nat
  <2> SUFFICES ASSUME NEW n \in 1..length PROVE (v \div Weight[n - 1]) % Radix \in Nat
    OBVIOUS
  <2>w. PICK w \in Nat : w = Weight[n - 1] /\ w > 0
    BY <1>0, WeightsGrow
  <2>1. v \div w \in Nat
    BY <2>w, Parts
  <2> QED BY <1>0, <2>1, <2>w, Parts
<1>2. d \in Seq(Nat) /\ Len(d) = length
  BY <1>0, <1>1, <1>d DEF Digits
<1>3. \A n \in 1..length : d[n] = (v \div Weight[n - 1]) % Radix
  BY <1>d DEF Digits
<1>s. PICK s : s = Sums(d)
  OBVIOUS
<1>4. s[0] = 0 /\ \A n \in 1..length : s[n] = s[n - 1] + d[n] * Weight[n - 1]
  BY <1>0, <1>2, <1>s, SumsGrow
<1> DEFINE S == {n \in 0..length : s[n] = v % Weight[n]}
<1>5. 0 \in S
  <2>1. v % 1 = 0
    OBVIOUS
  <2> QED BY <1>0, <1>4, <2>1, WeightsGrow
<1>6. ASSUME NEW n \in 1..length, n - 1 \in S PROVE n \in S
  <2>w. PICK w \in Nat : w = Weight[n - 1] /\ w > 0
    BY <1>0, WeightsGrow
  <2>1. Weight[n] = Radix * w
    BY <1>0, <2>w, WeightsGrow
  <2>2. s[n - 1] = v % w /\ d[n] = (v \div w) % Radix
    BY <1>3, <1>6, <2>w
  <2>3. s[n] = s[n - 1] + d[n] * w
    BY <1>4, <2>w
  <2>4. v % (Radix * w) = (v % w) + ((v \div w) % Radix) * w
    <3>R. PICK R \in Nat : R = Radix /\ R > 0
      BY <1>0
    <3>1. v % (R * w) = (v % w) + ((v \div w) % R) * w
      BY <2>w, <3>R, OneByteMore, Zenon
    <3> QED BY <3>1, <3>R
  <2> QED BY <2>1, <2>2, <2>3, <2>4
<1>7. s[length] = v % Weight[length]
  <2> HIDE DEF S
  <2>1. \A n \in 0..length : n \in S
    BY <1>0, <1>5, <1>6, Climbs
  <2>2. length \in S
    BY <1>0, <2>1
  <2> QED BY <2>2 DEF S
<1> QED BY <1>2, <1>7, <1>d, <1>s, ValueIsSum

(* A word's size is a multiple of that of its low bytes.                   *)
LEMMA WeightsDivide ==
  ASSUME NEW length \in 0..WordBytes
  PROVE  \E k \in Nat : Weight[WordBytes] = k * Weight[length]
<1>0. WordBytes \in Nat /\ Radix \in Nat /\ length \in Nat
  BY VirtualSerialAssumption
<1>w. PICK w \in Nat : w = Weight[length]
  BY WeightsGrow
<1>N. PICK N \in Nat : N = WordBytes - length
  BY <1>0
<1> DEFINE S == {n \in 0..N : \E k \in Nat : Weight[length + n] = k * w}
<1>1. 0 \in S
  <2>1. Weight[length + 0] = 1 * w
    BY <1>0, <1>w
  <2> QED BY <2>1
<1>2. ASSUME NEW n \in 1..N, n - 1 \in S PROVE n \in S
  <2>1. PICK k \in Nat : Weight[length + (n - 1)] = k * w
    BY <1>2
  <2>2. length + n \in 1..WordBytes /\ (length + n) - 1 = length + (n - 1)
    BY <1>0, <1>N
  <2>3. Weight[length + n] = Radix * Weight[(length + n) - 1]
    BY <2>2, WeightsGrow
  <2>4. Weight[length + n] = Radix * (k * w)
    BY <2>1, <2>2, <2>3
  <2>5. Radix * (k * w) = (Radix * k) * w /\ Radix * k \in Nat
    BY <1>0
  <2>6. \E j \in Nat : Weight[length + n] = j * w
    BY <2>4, <2>5
  <2> QED BY <2>6
<1>3. N \in S
  <2> HIDE DEF S
  <2>1. \A n \in 0..N : n \in S
    BY <1>1, <1>2, Climbs
  <2>2. N \in 0..N
    OBVIOUS
  <2> QED BY <2>1, <2>2
<1>4. length + N = WordBytes
  BY <1>0, <1>N
<1> QED BY <1>3, <1>4, <1>w

(* The low bytes of a number are those of the word it is stored as.        *)
LEMMA LowBytesOfWord ==
  ASSUME NEW v \in Int, NEW length \in 0..WordBytes
  PROVE  (v % WordSize) % Weight[length] = v % Weight[length]
<1>w. PICK w \in Nat : w = Weight[length] /\ w > 0
  BY WeightsGrow
<1>W. PICK W \in Nat : W = WordSize /\ W > 0
  <2>1. WordBytes \in 0..WordBytes
    BY VirtualSerialAssumption
  <2> QED BY <2>1, WeightsGrow DEF WordSize
<1>k. PICK k \in Nat : W = k * w
  BY <1>w, <1>W, WeightsDivide DEF WordSize
<1>q. PICK q \in Int : q = v \div W
  BY <1>W, Parts
<1>r. PICK r \in Nat : r = v % W
  BY <1>W, Parts
<1>1. v = q * W + r
  BY <1>q, <1>r, <1>W, Parts
<1>p. PICK p \in Int : p = r \div w
  BY <1>w, Parts
<1>s. PICK s \in Nat : s = r % w
  BY <1>w, Parts
<1>2. r = p * w + s /\ s < w
  BY <1>p, <1>s, <1>w, Parts
<1>h. PICK h \in Int : h = q * k + p
  <2>1. q * k \in Int
    OBVIOUS
  <2> QED BY <2>1
<1>3. v = h * w + s
  <2>1. q * W + p * w = h * w
    <3>1. q * (k * w) + p * w = (q * k + p) * w
      OBVIOUS
    <3> QED BY <3>1, <1>k, <1>h
  <2>2. q * W \in Int /\ p * w \in Int
    OBVIOUS
  <2> QED BY <1>1, <1>2, <2>1, <2>2
<1>4. v % w = s
  BY <1>2, <1>3, <1>w, Quotients
<1> QED BY <1>4, <1>s, <1>r, <1>w, <1>W

(* A word's low bytes are read as they were written, in either order.      *)
LEMMA EncodedIsDecoded ==
  ASSUME NEW v \in Int, NEW length \in 0..WordBytes, NEW big,
         NEW text, text = Encode(v % WordSize, length, big)
  PROVE  /\ text \in Seq(Nat) /\ Len(text) = length
         /\ Decode(text, big) = v % Weight[length]
<1>0. v % WordSize \in Nat
  <2>1. WordSize \in Nat /\ WordSize > 0
    <3>1. WordBytes \in 0..WordBytes
      BY VirtualSerialAssumption
    <3> QED BY <3>1, WeightsGrow DEF WordSize
  <2> QED BY <2>1, Parts
<1>u. PICK u \in Nat : u = v % WordSize
  BY <1>0
<1>d. PICK d : d = Digits(u, length)
  OBVIOUS
<1>1. d \in Seq(Nat) /\ Len(d) = length /\ ValueOf(d) = u % Weight[length]
  BY <1>d, DigitsSumUp
<1>2. u % Weight[length] = v % Weight[length]
  BY <1>u, LowBytesOfWord
<1>3. length \in Nat
  BY VirtualSerialAssumption
<1>4. CASE big
  <2>1. text = Reverse(d)
    BY <1>4, <1>u, <1>d DEF Encode
  <2>2. text \in Seq(Nat) /\ Len(text) = length
    BY <1>1, <1>3, <2>1 DEF Reverse
  <2>3. Reverse(text) = d
    <3>t. PICK t : t = Reverse(text)
      OBVIOUS
    <3>1. t \in Seq(Nat) /\ Len(t) = length
      BY <2>2, <1>3, <3>t DEF Reverse
    <3>2. ASSUME NEW i \in 1..length PROVE t[i] = d[i]
      <4>1. t[i] = text[(length - i) + 1]
        BY <2>2, <1>3, <3>t DEF Reverse
      <4>2. text[(length - i) + 1] = d[(length - ((length - i) + 1)) + 1]
        BY <1>1, <1>3, <2>1 DEF Reverse
      <4>3. (length - ((length - i) + 1)) + 1 = i
        BY <1>3
      <4> QED BY <4>1, <4>2, <4>3
    <3>3. t = d
      BY <1>1, <3>1, <3>2, SameSequence
    <3> QED BY <3>3, <3>t
  <2> QED BY <1>1, <1>2, <1>4, <2>2, <2>3 DEF Decode
<1>5. CASE ~big
  <2>1. text = d
    BY <1>5, <1>u, <1>d DEF Encode
  <2> QED BY <1>1, <1>2, <1>5, <2>1 DEF Decode
<1> QED BY <1>4, <1>5

(* What is stored at an offset of a buffer is found there.                 *)
LEMMA StoredIsFound ==
  ASSUME NEW text \in Seq(Nat), NEW offset \in Nat, offset + Len(text) <= BufferBytes,
         NEW old, NEW buffer,
         buffer = [i \in 1..BufferBytes |->
                     IF i \in (offset + 1)..(offset + Len(text)) THEN text[i - offset] ELSE old[i]]
  PROVE  SubSeq(buffer, offset + 1, offset + Len(text)) = text
<1>n. PICK n \in Nat : n = Len(text)
  OBVIOUS
<1>0. BufferBytes \in Nat
  BY VirtualSerialAssumption
<1>N. PICK N \in Nat : N = BufferBytes
  BY <1>0
<1>V. PICK V : V = {buffer[i] : i \in 1..N} \cup Nat
  OBVIOUS
<1>b. PICK b : b = buffer
  OBVIOUS
<1>1. b \in Seq(V) /\ Len(b) = N
  <2>1. b = [i \in 1..N |-> b[i]]
    BY <1>b, <1>N
  <2>2. \A i \in 1..N : b[i] \in V
    BY <1>V, <1>b
  <2>3. N \in Nat
    BY <1>N
  <2> QED BY <2>1, <2>2, <2>3, IsSequence, Zenon
<1>e. PICK e \in Nat : e = offset + n
  BY <1>n
<1>s. PICK s : s = SubSeq(b, offset + 1, e)
  OBVIOUS
<1>2. offset <= e /\ e <= N /\ e - offset = n
  BY <1>N, <1>e, <1>n
<1>3. /\ Len(s) = n /\ DOMAIN s = 1..n
      /\ \A i \in 1..n : s[i] = b[offset + i]
  <2>1. e <= Len(b) /\ e \in Nat
    BY <1>1, <1>2, <1>e
  <2>2. /\ Len(s) = e - offset /\ DOMAIN s = 1..(e - offset)
        /\ \A i \in 1..(e - offset) : s[i] = b[offset + i]
    BY <1>1, <1>2, <1>s, <2>1, Slice
  <2> QED BY <1>2, <2>2
<1>4. s \in Seq(V)
  <2>1. e <= Len(b) /\ e \in Nat
    BY <1>1, <1>2, <1>e
  <2> QED BY <1>1, <1>2, <1>s, <2>1, Slice
<1>5. ASSUME NEW i \in 1..n PROVE s[i] = text[i]
  <2>1. offset + i \in 1..BufferBytes /\ offset + i \in (offset + 1)..(offset + Len(text))
    BY <1>n, <1>0
  <2>2. buffer[offset + i] = text[(offset + i) - offset]
    BY <2>1
  <2>3. (offset + i) - offset = i
    OBVIOUS
  <2> QED BY <1>3, <1>b, <2>2, <2>3
<1>6. text \in Seq(V)
  BY <1>V
<1>7. s = text
  BY <1>3, <1>4, <1>5, <1>6, <1>n, SameSequence
<1> QED BY <1>7, <1>s, <1>e, <1>n, <1>b

-----------------------------------------------------------------------------
(* Ownership and cursors.                                                  *)

Fields == {"bigEndian", "receive", "transmit", "cursors", "active"}

(* What both theorems need of the types.                                   *)
CursorTypes ==
  /\ now \in 0..LastTime
  /\ injections \in [Ports -> Seq(Entry)]
  /\ nextHandle \in 1..MaxHandle
  /\ \A h \in Opened :
       /\ DOMAIN handles[h] = Fields
       /\ handles[h].cursors \in [Ports -> Nat]

(* The map from sites to handles is a bijection onto the handles given out *)
(* so far, which are the numbers below the counter.                        *)
Ownership ==
  /\ siteHandles \in [DOMAIN siteHandles -> 1..(nextHandle - 1)]
  /\ HandlesHaveOneOwner

IInv == CursorTypes /\ Ownership /\ CursorsAreDue

USE VirtualSerialAssumption

(* Where a read leaves the cursor: within the port's entries, with none    *)
(* behind it that is still to come.                                        *)
LEMMA DueEndIsDue ==
  ASSUME CursorTypes, CursorsAreDue, NEW h \in Opened, NEW p \in Ports
  PROVE  /\ DueEnd(h, p) \in Nat
         /\ handles[h].cursors[p] <= DueEnd(h, p)
         /\ DueEnd(h, p) <= Len(injections[p])
         /\ \A i \in 1..DueEnd(h, p) : injections[p][i].time <= now
         /\ DueEnd(h, p) < Len(injections[p]) => injections[p][DueEnd(h, p) + 1].time > now
<1> DEFINE cursor == handles[h].cursors[p]
           late   == {i \in DOMAIN injections[p] :
                        i > cursor /\ injections[p][i].time > now}
<1>1. /\ cursor \in Nat
      /\ injections[p] \in Seq(Entry)
      /\ cursor <= Len(injections[p])
      /\ now \in Nat
  BY DEF CursorTypes, CursorsAreDue
<1>3. DOMAIN injections[p] = 1..Len(injections[p]) /\ Len(injections[p]) \in Nat
  BY <1>1
<1>2. \A i \in DOMAIN injections[p] :
        /\ i \in Nat
        /\ injections[p][i].time \in Nat
  <2> SUFFICES ASSUME NEW i \in 1..Len(injections[p])
               PROVE  injections[p][i].time \in Nat
    BY <1>3
  <2>1. injections[p][i] \in Entry
    BY <1>1
  <2> QED BY <2>1 DEF Entry
<1>4. \A i \in 1..cursor : injections[p][i].time <= now
  BY DEF CursorsAreDue
<1>5. CASE late = {}
  <2>1. DueEnd(h, p) = Len(injections[p])
    BY <1>5 DEF DueEnd
  <2>2. ASSUME NEW i \in 1..Len(injections[p]) PROVE injections[p][i].time <= now
    <3>1. CASE i <= cursor
      BY <3>1, <1>1, <1>4
    <3>2. CASE ~(i <= cursor)
      BY <3>2, <1>1, <1>2, <1>3, <1>5
    <3> QED BY <3>1, <3>2
  <2> QED BY <2>1, <2>2, <1>1, <1>3
<1>6. CASE late # {}
  <2> DEFINE first == CHOOSE i \in late : \A j \in late : i <= j
  <2>1. \E i \in late : \A j \in late : i <= j
    <3>1. PICK n \in late : TRUE
      BY <1>6
    <3>2. late \subseteq Nat /\ late # {}
      BY <1>2, <1>6
    <3> QED BY <3>2, LeastNatural
  <2>2. first \in late /\ \A j \in late : first <= j
    BY <2>1
  <2>3. DueEnd(h, p) = first - 1
    BY <1>6, SMTT(30) DEF DueEnd
  <2>4. /\ first \in 1..Len(injections[p])
        /\ first > cursor
        /\ injections[p][first].time > now
    BY <2>2, <1>3
  <2>5. ASSUME NEW i \in 1..(first - 1) PROVE injections[p][i].time <= now
    <3>1. /\ i \in DOMAIN injections[p]
          /\ ~(i \in late)
      <4>1. i \in Nat /\ i < first /\ i \in 1..Len(injections[p])
        BY <2>4, <1>3, SMTT(30)
      <4>2. ~(first <= i)
        BY <4>1, <2>4
      <4> QED BY <4>1, <4>2, <2>2, <1>3, SMTT(30)
    <3>2. CASE i <= cursor
      BY <3>2, <1>1, <1>4
    <3>3. CASE ~(i <= cursor)
      BY <3>1, <3>3, <1>1, <1>2
    <3> QED BY <3>2, <3>3
  <2> HIDE DEF late
  <2> PICK e : e = DueEnd(h, p)
    OBVIOUS
  <2> PICK n : n = first
    OBVIOUS
  <2> HIDE DEF first
  <2>6. n \in Nat /\ n \in 1..Len(injections[p]) /\ e = n - 1 /\ e + 1 = n
    BY <1>3, <2>3, <2>4
  <2>7. e \in Nat /\ cursor <= e /\ e <= Len(injections[p])
    BY <1>1, <1>3, <2>4, <2>6
  <2>8. injections[p][e + 1].time > now
    BY <2>4, <2>6
  <2>9. \A i \in 1..e : injections[p][i].time <= now
    BY <2>3, <2>5
  <2> QED BY <2>7, <2>8, <2>9
<1> QED BY <1>5, <1>6

(* What is declared for a port.                                            *)
Of(rx, p) == {i \in DOMAIN rx : rx[i].port = p}

LEMMA EntriesAreSorted ==
  ASSUME NEW rx \in Seq(Entry), NEW p \in Ports
  PROVE  /\ Lists(rx, Sorted(rx, Of(rx, p)), Of(rx, p))
         /\ InTimeOrder(rx, p) \in Seq(Entry)
         /\ Len(InTimeOrder(rx, p)) = Cardinality(Of(rx, p))
         /\ \A n \in 1..Cardinality(Of(rx, p)) :
              InTimeOrder(rx, p)[n] = rx[Sorted(rx, Of(rx, p))[n]]
<1> DEFINE S == Of(rx, p)
           q == Sorted(rx, S)
<1>1. /\ S \in SUBSET (1..Len(rx)) /\ Len(rx) \in Nat
      /\ \A i \in S : rx[i] \in Entry /\ rx[i].time \in Int
  <2>1. S \in SUBSET (1..Len(rx)) /\ Len(rx) \in Nat
    BY DEF Of
  <2>2. \A i \in 1..Len(rx) : rx[i] \in Entry
    OBVIOUS
  <2>3. \A e \in Entry : e.time \in Int
    BY DEF Entry
  <2> HIDE DEF S
  <2> QED BY <2>1, <2>2, <2>3
<1> HIDE DEF S
<1>2. Timed(rx, S)
  <2>1. IsFiniteSet(1..Len(rx))
    BY <1>1, FS_Interval
  <2>2. IsFiniteSet(S)
    BY <1>1, <2>1, FS_Subset
  <2>3. S \subseteq Nat
    BY <1>1
  <2> QED BY <1>1, <2>2, <2>3 DEF Timed
<1>3. Lists(rx, q, S)
  BY <1>2, SortedLists
<1> HIDE DEF q
<1> PICK c : c = Cardinality(S)
  OBVIOUS
<1>4. c \in Nat /\ q \in [1..c -> S]
  BY <1>3 DEF Lists
<1> DEFINE t == [n \in 1..c |-> rx[q[n]]]
<1>5. t \in Seq(Entry) /\ Len(t) = c /\ \A n \in 1..c : t[n] = rx[q[n]]
  <2>1. \A n \in 1..c : rx[q[n]] \in Entry
    BY <1>1, <1>4
  <2> QED BY <1>4, <2>1
<1>6. InTimeOrder(rx, p) = t
  BY DEF InTimeOrder, q, S, Of
<1> QED BY <1>3, <1>5, <1>6 DEF q, S

LEMMA InitIInv == Init => IInv
<1> SUFFICES ASSUME Init PROVE IInv
  OBVIOUS
<1>1. Opened = {} /\ DOMAIN siteHandles = {}
  BY DEF Init, Opened
<1>2. CursorTypes
  <2>1. injections \in [Ports -> Seq(Entry)]
    BY EntriesAreSorted DEF Init
  <2> QED BY <1>1, <2>1 DEF Init, CursorTypes
<1>3. Ownership
  <2>1. nextHandle = 1
    BY DEF Init
  <2>2. siteHandles \in [DOMAIN siteHandles -> 1..(nextHandle - 1)]
    BY <1>1 DEF Init
  <2> QED BY <1>1, <2>1, <2>2 DEF Ownership, HandlesHaveOneOwner
<1>4. CursorsAreDue
  BY <1>1 DEF CursorsAreDue
<1> QED BY <1>2, <1>3, <1>4 DEF IInv

(* A step that leaves the handle table, the clock and the injections as    *)
(* they are keeps the invariant; so does one that changes of each handle's *)
(* state only what no cursor depends on.                                   *)
LEMMA KeepsCursors ==
  ASSUME IInv,
         UNCHANGED <<injections, now, siteHandles, nextHandle>>,
         Opened' = Opened,
         \A h \in Opened : /\ DOMAIN handles'[h] = DOMAIN handles[h]
                           /\ handles'[h].cursors = handles[h].cursors
  PROVE  IInv'
<1>1. CursorTypes'
  BY DEF IInv, CursorTypes
<1>2. Ownership'
  BY DEF IInv, Ownership, HandlesHaveOneOwner
<1>3. CursorsAreDue'
  BY DEF IInv, CursorsAreDue
<1> QED BY <1>1, <1>2, <1>3 DEF IInv

LEMMA ElapseKeepsIInv == IInv /\ Elapse => IInv'
<1> SUFFICES ASSUME IInv, Elapse PROVE IInv'
  OBVIOUS
<1>1. Opened' = Opened /\ UNCHANGED <<injections, siteHandles, handles, nextHandle>>
  BY DEF Elapse, Opened
<1>2. now \in Nat /\ now' = now + 1 /\ now' \in 0..LastTime
  BY DEF IInv, CursorTypes, Elapse
<1>3. CursorTypes'
  BY <1>1, <1>2 DEF IInv, CursorTypes
<1>4. Ownership'
  BY <1>1 DEF IInv, Ownership, HandlesHaveOneOwner
<1>5. CursorsAreDue'
  <2> SUFFICES ASSUME NEW h \in Opened, NEW p \in Ports
               PROVE  /\ handles[h].cursors[p] <= Len(injections[p])
                      /\ \A i \in 1..handles[h].cursors[p] :
                           injections[p][i].time <= now'
    BY <1>1 DEF CursorsAreDue
  <2>1. handles[h].cursors[p] \in Nat /\ injections[p] \in Seq(Entry)
    BY DEF IInv, CursorTypes
  <2>2. handles[h].cursors[p] <= Len(injections[p])
    BY DEF IInv, CursorsAreDue
  <2>3. ASSUME NEW i \in 1..handles[h].cursors[p]
        PROVE  injections[p][i].time <= now'
    <3>1. i \in 1..Len(injections[p])
      BY <2>1, <2>2
    <3>2. injections[p][i] \in Entry
      BY <2>1, <3>1
    <3>3. injections[p][i].time \in Nat /\ injections[p][i].time <= now
      BY <3>2 DEF Entry, IInv, CursorsAreDue
    <3> QED BY <3>3, <1>2
  <2> QED BY <2>2, <2>3
<1> QED BY <1>3, <1>4, <1>5 DEF IInv

LEMMA OpenHandleKeepsIInv ==
  ASSUME IInv, NEW s \in Sites, NEW big \in BOOLEAN, OpenHandle(s, big)
  PROVE  IInv'
<1>1. /\ s \notin DOMAIN siteHandles
      /\ nextHandle # MaxHandle
      /\ nextHandle' = nextHandle + 1
      /\ siteHandles' = [t \in DOMAIN siteHandles \cup {s} |->
                           IF t = s THEN nextHandle ELSE siteHandles[t]]
      /\ handles' = [h \in Opened \cup {nextHandle} |->
                       IF h = nextHandle THEN NewHandle(big) ELSE handles[h]]
      /\ UNCHANGED <<injections, now>>
  BY DEF OpenHandle, OpenRefused
<1>2. nextHandle \in Nat /\ nextHandle' \in 1..MaxHandle
  BY <1>1 DEF IInv, CursorTypes
<1>3. Opened' = Opened \cup {nextHandle} /\ nextHandle \notin Opened
  BY <1>1, <1>2 DEF Opened, IInv, Ownership, HandlesHaveOneOwner
<1>4. /\ DOMAIN NewHandle(big) = Fields
      /\ NewHandle(big).cursors = [p \in Ports |-> 0]
  BY DEF NewHandle, Fields
<1>5. CursorTypes'
  <2>1. ASSUME NEW h \in Opened'
        PROVE  /\ DOMAIN handles'[h] = Fields
               /\ handles'[h].cursors \in [Ports -> Nat]
    <3>1. CASE h = nextHandle
      BY <3>1, <1>1, <1>4
    <3>2. CASE h # nextHandle
      BY <3>2, <1>1, <1>3 DEF IInv, CursorTypes
    <3> QED BY <3>1, <3>2
  <2> QED BY <1>1, <1>2, <2>1 DEF IInv, CursorTypes
<1>6. Ownership'
  <2>1. /\ \A t \in DOMAIN siteHandles : siteHandles[t] \in 1..(nextHandle - 1)
        /\ HandlesHaveOneOwner
    BY DEF IInv, Ownership
  <2>2. siteHandles' \in [DOMAIN siteHandles' -> 1..(nextHandle' - 1)]
    BY <1>1, <1>2, <2>1
  <2>3. DOMAIN siteHandles' = DOMAIN siteHandles \cup {s}
    BY <1>1
  <2>4. siteHandles'[s] = nextHandle
    BY <1>1
  <2>5. \A t \in DOMAIN siteHandles :
          siteHandles'[t] = siteHandles[t] /\ siteHandles'[t] # nextHandle
    BY <1>1, <1>2, <2>1
  <2>6. \A t, u \in DOMAIN siteHandles' : siteHandles'[t] = siteHandles'[u] => t = u
    BY <2>1, <2>3, <2>4, <2>5 DEF HandlesHaveOneOwner
  <2>7. Opened' = {siteHandles'[t] : t \in DOMAIN siteHandles'}
    BY <1>3, <2>1, <2>3, <2>4, <2>5 DEF HandlesHaveOneOwner
  <2>8. Opened' = 1..(nextHandle' - 1)
    <3>1. nextHandle \in 1..MaxHandle /\ nextHandle' - 1 = nextHandle
      BY <1>1 DEF IInv, CursorTypes
    <3>2. (1..(nextHandle - 1)) \cup {nextHandle} = 1..nextHandle
      BY <3>1
    <3> QED BY <3>1, <3>2, <1>3, <2>1 DEF HandlesHaveOneOwner
  <2> QED BY <2>2, <2>6, <2>7, <2>8 DEF Ownership, HandlesHaveOneOwner
<1>7. CursorsAreDue'
  <2> SUFFICES ASSUME NEW h \in Opened', NEW p \in Ports
               PROVE  /\ handles'[h].cursors[p] <= Len(injections[p])
                      /\ \A i \in 1..handles'[h].cursors[p] :
                           injections[p][i].time <= now
    BY <1>1 DEF CursorsAreDue
  <2>1. CASE h = nextHandle
    <3>1. handles'[h].cursors[p] = 0
      BY <2>1, <1>1, <1>4
    <3>2. Len(injections[p]) \in Nat
      BY DEF IInv, CursorTypes
    <3> QED BY <3>1, <3>2
  <2>2. CASE h # nextHandle
    <3>1. h \in Opened /\ handles'[h] = handles[h]
      BY <2>2, <1>1, <1>3
    <3> QED BY <3>1 DEF IInv, CursorsAreDue
  <2> QED BY <2>1, <2>2
<1> QED BY <1>5, <1>6, <1>7 DEF IInv

LEMMA ReceiveKeepsIInv ==
  ASSUME IInv, NEW h \in Opened, NEW p \in Ports, Receive(h, p)
  PROVE  IInv'
<1>0. DOMAIN handles[h] = Fields
  BY DEF IInv, CursorTypes
<1>1. /\ UNCHANGED <<injections, now, siteHandles, nextHandle>>
      /\ Opened' = Opened
      /\ DOMAIN handles'[h] = DOMAIN handles[h]
      /\ handles'[h].cursors = [handles[h].cursors EXCEPT ![p] = DueEnd(h, p)]
      /\ \A g \in Opened \ {h} : handles'[g] = handles[g]
  BY <1>0 DEF Receive, Opened, Fields
<1>2. /\ DueEnd(h, p) \in Nat
      /\ DueEnd(h, p) <= Len(injections[p])
      /\ \A i \in 1..DueEnd(h, p) : injections[p][i].time <= now
  BY DueEndIsDue DEF IInv
<1>3. \A g \in Opened : handles[g].cursors \in [Ports -> Nat]
  BY DEF IInv, CursorTypes
<1>4. CursorTypes'
  <2>1. handles'[h].cursors \in [Ports -> Nat]
    BY <1>1, <1>2, <1>3
  <2>2. ASSUME NEW g \in Opened
        PROVE  /\ DOMAIN handles'[g] = Fields
               /\ handles'[g].cursors \in [Ports -> Nat]
    <3>1. CASE g = h
      BY <3>1, <2>1, <1>0, <1>1
    <3>2. CASE g # h
      BY <3>2, <1>1 DEF IInv, CursorTypes
    <3> QED BY <3>1, <3>2
  <2> QED BY <1>1, <2>2 DEF IInv, CursorTypes
<1>5. Ownership'
  BY <1>1 DEF IInv, Ownership, HandlesHaveOneOwner
<1>6. CursorsAreDue'
  <2> SUFFICES ASSUME NEW g \in Opened, NEW q \in Ports
               PROVE  /\ handles'[g].cursors[q] <= Len(injections[q])
                      /\ \A i \in 1..handles'[g].cursors[q] :
                           injections[q][i].time <= now
    BY <1>1 DEF CursorsAreDue
  <2>1. CASE g = h /\ q = p
    <3>1. handles'[g].cursors[q] = DueEnd(h, p)
      BY <2>1, <1>1, <1>3
    <3> QED BY <2>1, <3>1, <1>2
  <2>2. CASE ~(g = h /\ q = p)
    <3>1. handles'[g].cursors[q] = handles[g].cursors[q]
      BY <2>2, <1>1, <1>3
    <3> QED BY <3>1 DEF IInv, CursorsAreDue
  <2> QED BY <2>1, <2>2
<1> QED BY <1>4, <1>5, <1>6 DEF IInv

LEMMA SetStringKeepsIInv ==
  ASSUME IInv, NEW h \in Opened, NEW offset, NEW text, SetString(h, offset, text)
  PROVE  IInv'
<1>0. DOMAIN handles[h] = Fields
  BY DEF IInv, CursorTypes
<1>1. /\ UNCHANGED <<injections, now, siteHandles, nextHandle>>
      /\ Opened' = Opened
      /\ \A g \in Opened : /\ DOMAIN handles'[g] = DOMAIN handles[g]
                           /\ handles'[g].cursors = handles[g].cursors
  BY <1>0 DEF SetString, Opened, Fields
<1> QED BY <1>1, KeepsCursors

LEMMA Invariance == Spec => []IInv
<1>1. Init => IInv
  BY InitIInv
<1>2. IInv /\ [Next]_vars => IInv'
  <2> SUFFICES ASSUME IInv, [Next]_vars PROVE IInv'
    OBVIOUS
  <2>1. CASE Elapse
    BY <2>1, ElapseKeepsIInv
  <2>2. CASE \E s \in Sites, big \in BOOLEAN : OpenHandle(s, big)
    BY <2>2, OpenHandleKeepsIInv
  <2>3. CASE \E p \in Ports, baud \in Bauds : PortInit(p, baud)
    BY <2>3, KeepsCursors DEF PortInit, Opened
  <2>4. CASE \E h \in Opened, p \in Ports : Receive(h, p)
    BY <2>4, ReceiveKeepsIInv
  <2>5. CASE \E h \in Opened, p \in Ports, n \in 0..BufferBytes : Transmit(h, p, n)
    BY <2>5, KeepsCursors DEF Transmit, Opened
  <2>6. CASE \E h \in Opened, offset \in 0..BufferBytes :
               \/ \E text \in Seq(Bytes) : SetString(h, offset, text)
               \/ \E n \in 1..WordBytes, v \in Integer32 : SetInteger(h, offset, n, v)
    BY <2>6, SetStringKeepsIInv DEF SetInteger
  <2>7. CASE CallRefused
    BY <2>7, KeepsCursors DEF CallRefused, Opened
  <2>8. CASE UNCHANGED vars
    BY <2>8, KeepsCursors DEF vars, Opened
  <2> QED BY <2>1, <2>2, <2>3, <2>4, <2>5, <2>6, <2>7, <2>8 DEF Next
<1> QED BY <1>1, <1>2, PTL DEF Spec

(* However many call sites open handles, and up to the end of the 32-bit   *)
(* handle space, two sites never share one (open_handle).                  *)
THEOREM HandlesAreOwned == Spec => []HandlesHaveOneOwner
<1>1. IInv => HandlesHaveOneOwner
  BY DEF IInv, Ownership
<1> QED BY <1>1, Invariance, PTL

(* A receive cursor never runs past its port's entries, which receive      *)
(* slices with it, nor past an entry that is not due.                      *)
THEOREM CursorsStayDue == Spec => []CursorsAreDue
<1>1. IInv => CursorsAreDue
  BY DEF IInv
<1> QED BY <1>1, Invariance, PTL

-----------------------------------------------------------------------------
(* Reception.                                                              *)

(* What an event reports to h from p, and what the first k entries of p    *)
(* hold.                                                                   *)
Piece(e, h, p) ==
  IF e.direction = "rx" /\ e.handle = h /\ e.port = p THEN e.bytes ELSE <<>>

Pieces(h, p) == [i \in DOMAIN events |-> Piece(events[i], h, p)]

Ahead(p, k) == BytesOf(injections[p], k)

Cursor(h, p) == IF h \in Opened THEN handles[h].cursors[p] ELSE 0

InOrder ==
  /\ declared \in Seq(Entry)
  /\ injections = [p \in Ports |-> InTimeOrder(declared, p)]

Listed ==
  /\ \E S : events \in Seq(S)
  /\ \A h, p : Pieces(h, p) \in Seq(Seq(Bytes))

(* A handle has been given what stands before its cursor.                  *)
Given ==
  \A h \in 1..(MaxHandle - 1), p \in Ports :
    Taken(h, p) = FlattenSeq(Ahead(p, Cursor(h, p)))

ReceptionInv == InOrder /\ Listed /\ Given

LEMMA TakenIsPieces == \A h, p : Taken(h, p) = FlattenSeq(Pieces(h, p))
<1>1. ASSUME NEW h, NEW p PROVE Taken(h, p) = FlattenSeq(Pieces(h, p))
  BY DEF Taken, Pieces, Piece
<1> QED BY <1>1

(* What a read finds is what lies between the cursor before and after it.  *)
LEMMA PendingJoins ==
  ASSUME IInv, NEW h \in Opened, NEW p \in Ports
  PROVE  /\ Pending(h, p) \in Seq(Bytes)
         /\ FlattenSeq(Ahead(p, DueEnd(h, p)))
              = FlattenSeq(Ahead(p, handles[h].cursors[p])) \o Pending(h, p)
<1>c. PICK c : c = handles[h].cursors[p]
  OBVIOUS
<1>e. PICK e : e = DueEnd(h, p)
  OBVIOUS
<1>s. PICK s : s = injections[p]
  OBVIOUS
<1>1. /\ c \in Nat /\ e \in Nat /\ s \in Seq(Entry)
      /\ c <= Len(s) /\ e <= Len(s) /\ c <= e
  <2>1. DueEnd(h, p) \in Nat /\ DueEnd(h, p) <= Len(injections[p])
        /\ handles[h].cursors[p] <= DueEnd(h, p)
    BY DueEndIsDue DEF IInv
  <2>2. handles[h].cursors[p] \in Nat /\ injections[p] \in Seq(Entry)
        /\ handles[h].cursors[p] <= Len(injections[p])
    BY DEF IInv, CursorTypes, CursorsAreDue
  <2> QED BY <2>1, <2>2, <1>c, <1>e, <1>s
<1>2. \A x \in Entry : x.bytes \in Seq(Bytes)
  BY DEF Entry
<1>due. PICK due : due = SubSeq(s, c + 1, e)
  OBVIOUS
<1>rest. PICK rest : rest = [i \in DOMAIN due |-> due[i].bytes]
  OBVIOUS
<1>a. PICK a : a = BytesOf(s, c)
  OBVIOUS
<1>3. /\ a \in Seq(Seq(Bytes)) /\ rest \in Seq(Seq(Bytes))
      /\ BytesOf(s, e) = a \o rest
  <2>E. PICK E : E = Entry
    OBVIOUS
  <2>W. PICK W : W = Seq(Bytes)
    OBVIOUS
  <2>1. Cut(E, W, s, c, e, due, rest)
    BY <1>1, <1>2, <1>due, <1>rest, <2>E, <2>W DEF Cut
  <2>2. /\ BytesOf(s, c) \in Seq(W) /\ rest \in Seq(W)
        /\ BytesOf(s, e) = BytesOf(s, c) \o rest
    BY <2>1, BytesJoin
  <2> QED BY <2>2, <1>a, <2>W
<1>4. FlattenSeq(a \o rest) = FlattenSeq(a) \o FlattenSeq(rest)
  BY <1>3, FlattenJoins
<1>5. FlattenSeq(rest) \in Seq(Bytes)
  <2>1. <<>> \in Seq(Bytes)
    OBVIOUS
  <2> QED BY <1>3, <2>1, FlattenGrows
<1>6. Pending(h, p) = FlattenSeq(rest)
  BY <1>c, <1>e, <1>s, <1>due, <1>rest DEF Pending
<1> QED BY <1>3, <1>4, <1>5, <1>6, <1>a, <1>c, <1>e, <1>s DEF Ahead

LEMMA EmptyFlattens == FlattenSeq(<<>>) = <<>>
<1>1. <<>> \in Seq(Seq({})) /\ Len(<<>>) = 0
  OBVIOUS
<1> QED BY <1>1, FlattenOf

LEMMA TakenIsSequence ==
  ASSUME Listed, NEW h, NEW p
  PROVE  Taken(h, p) \in Seq(Bytes)
<1>1. Pieces(h, p) \in Seq(Seq(Bytes)) /\ <<>> \in Seq(Bytes)
  BY DEF Listed
<1> QED BY <1>1, TakenIsPieces, FlattenGrows

(* One event more.                                                         *)
LEMMA PiecesGrow ==
  ASSUME Listed, NEW e, events' = Append(events, e),
         \A h, p : Piece(e, h, p) \in Seq(Bytes)
  PROVE  /\ Listed'
         /\ \A h, p : Taken(h, p)' = Taken(h, p) \o Piece(e, h, p)
<1>1. PICK S : events \in Seq(S)
  BY DEF Listed
<1>n. PICK n \in Nat : n = Len(events)
  BY <1>1
<1>2. /\ events' \in Seq(S \cup {e})
      /\ DOMAIN events = 1..n /\ DOMAIN events' = 1..(n + 1)
      /\ events'[n + 1] = e /\ \A i \in 1..n : events'[i] = events[i]
  <2>1. events \in Seq(S \cup {e}) /\ e \in S \cup {e}
    BY <1>1
  <2> QED BY <2>1, <1>n
<1>3. ASSUME NEW h, NEW p
      PROVE  /\ Pieces(h, p)' = Append(Pieces(h, p), Piece(e, h, p))
             /\ Pieces(h, p) \in Seq(Seq(Bytes))
  <2>W. PICK W : W = Seq(Bytes)
    OBVIOUS
  <2>s. PICK s : s = Pieces(h, p)
    OBVIOUS
  <2>t. PICK t : t = Pieces(h, p)'
    OBVIOUS
  <2>x. PICK x : x = Piece(e, h, p)
    OBVIOUS
  <2>1. s \in Seq(W) /\ x \in W
    BY <2>W, <2>s, <2>x DEF Listed
  <2>2. s = [i \in 1..n |-> Piece(events[i], h, p)]
    BY <1>2, <2>s DEF Pieces
  <2>3. t = [i \in 1..(n + 1) |-> Piece(events'[i], h, p)]
    BY <1>2, <2>t DEF Pieces
  <2>4. Len(s) = n
    BY <2>1, <2>2
  <2>5. /\ t = [i \in 1..(n + 1) |-> t[i]]
        /\ t[n + 1] = x /\ \A i \in 1..n : t[i] = s[i]
    BY <1>2, <2>2, <2>3, <2>x
  <2>6. t = Append(s, x)
    <3>1. OneMore(W, s, x, n, t)
      BY <2>1, <2>4, <2>5 DEF OneMore
    <3> QED BY <3>1, AppendIs
  <2> QED BY <2>1, <2>6, <2>W, <2>s, <2>t, <2>x
<1>4. ASSUME NEW h, NEW p
      PROVE  /\ Pieces(h, p)' \in Seq(Seq(Bytes))
             /\ Taken(h, p)' = Taken(h, p) \o Piece(e, h, p)
  <2>s. PICK s : s = Pieces(h, p)
    OBVIOUS
  <2>x. PICK x : x = Piece(e, h, p)
    OBVIOUS
  <2>1. s \in Seq(Seq(Bytes)) /\ x \in Seq(Bytes) /\ Pieces(h, p)' = Append(s, x)
    BY <1>3, <2>s, <2>x
  <2>2. FlattenSeq(Append(s, x)) = FlattenSeq(s) \o x
    BY <2>1, FlattenGrows
  <2>3. Taken(h, p) = FlattenSeq(s)
    BY <2>s, TakenIsPieces
  <2>4. Taken(h, p)' = FlattenSeq(Pieces(h, p)')
    BY DEF Taken, Pieces, Piece
  <2> QED BY <2>1, <2>2, <2>3, <2>4, <2>x
<1>5. \E T : events' \in Seq(T)
  BY <1>2
<1>6. Listed'
  BY <1>4, <1>5 DEF Listed
<1> QED BY <1>4, <1>6

LEMMA InitReception == Init => ReceptionInv
<1> SUFFICES ASSUME Init PROVE ReceptionInv
  OBVIOUS
<1>1. InOrder
  BY DEF Init, InOrder
<1>2. events = <<>> /\ \A h, p : Pieces(h, p) = <<>>
  BY DEF Init, Pieces
<1>3. Listed
  <2>1. <<>> \in Seq({}) /\ <<>> \in Seq(Seq(Bytes))
    OBVIOUS
  <2>2. \A h, p : Pieces(h, p) \in Seq(Seq(Bytes))
    BY <1>2, <2>1
  <2>3. events \in Seq({})
    BY <1>2, <2>1
  <2> QED BY <2>2, <2>3 DEF Listed
<1>4. Given
  <2> SUFFICES ASSUME NEW h, NEW p \in Ports
               PROVE  Taken(h, p) = FlattenSeq(Ahead(p, Cursor(h, p)))
    BY DEF Given
  <2>1. Cursor(h, p) = 0
    BY DEF Init, Cursor, Opened
  <2>2. Ahead(p, 0) = <<>>
    BY DEF Ahead, BytesOf
  <2> QED BY <1>2, <2>1, <2>2, TakenIsPieces
<1> QED BY <1>1, <1>3, <1>4 DEF ReceptionInv

(* A step that records nothing and moves no cursor.                        *)
LEMMA KeepsReception ==
  ASSUME ReceptionInv, UNCHANGED <<declared, injections, events>>,
         \A h \in 1..(MaxHandle - 1), p \in Ports : Cursor(h, p)' = Cursor(h, p)
  PROVE  ReceptionInv' /\ \A h, p : Taken(h, p)' = Taken(h, p)
<1>1. InOrder' /\ Listed'
  BY DEF ReceptionInv, InOrder, Listed, Pieces
<1>2. \A h, p : Taken(h, p)' = Taken(h, p)
  BY DEF Taken
<1>3. \A p, k : Ahead(p, k)' = Ahead(p, k)
  BY DEF Ahead, BytesOf
<1>4. Given'
  <2> SUFFICES ASSUME NEW h \in 1..(MaxHandle - 1), NEW p \in Ports
               PROVE  Taken(h, p)' = FlattenSeq(Ahead(p, Cursor(h, p)))'
    BY DEF Given
  <2>1. Taken(h, p) = FlattenSeq(Ahead(p, Cursor(h, p)))
    BY DEF ReceptionInv, Given
  <2>2. Ahead(p, Cursor(h, p))' = Ahead(p, Cursor(h, p))
    BY <1>3 DEF Ahead, BytesOf
  <2>3. FlattenSeq(Ahead(p, Cursor(h, p)))' = FlattenSeq(Ahead(p, Cursor(h, p))')
    OBVIOUS
  <2> QED BY <1>2, <2>1, <2>2, <2>3
<1> QED BY <1>1, <1>2, <1>4 DEF ReceptionInv

LEMMA ReceiveReceives ==
  ASSUME IInv, ReceptionInv, NEW h \in Opened, NEW p \in Ports, Receive(h, p)
  PROVE  /\ ReceptionInv'
         /\ Taken(h, p)' = FlattenSeq(Ahead(p, DueEnd(h, p)))
         /\ \A g, q : ~(g = h /\ q = p) => Taken(g, q)' = Taken(g, q)
<1>0. DOMAIN handles[h] = Fields /\ handles[h].cursors \in [Ports -> Nat]
  BY DEF IInv, CursorTypes
<1>1. /\ UNCHANGED <<declared, injections, now>>
      /\ Opened' = Opened
      /\ handles'[h].cursors = [handles[h].cursors EXCEPT ![p] = DueEnd(h, p)]
      /\ \A g \in Opened \ {h} : handles'[g] = handles[g]
      /\ events' = IF Pending(h, p) = <<>> THEN events
                   ELSE Append(events, Transfer("rx", h, p, Pending(h, p)))
  BY <1>0 DEF Receive, Opened, Fields
<1>2. /\ Cursor(h, p) = handles[h].cursors[p]
      /\ Cursor(h, p)' = DueEnd(h, p)
      /\ \A g \in 1..(MaxHandle - 1), q \in Ports :
           ~(g = h /\ q = p) => Cursor(g, q)' = Cursor(g, q)
  BY <1>0, <1>1 DEF Cursor
<1>3. h \in 1..(MaxHandle - 1)
  BY DEF IInv, CursorTypes, Ownership, HandlesHaveOneOwner
<1>b. PICK b : b = Pending(h, p)
  OBVIOUS
<1>4. /\ b \in Seq(Bytes)
      /\ FlattenSeq(Ahead(p, DueEnd(h, p))) = Taken(h, p) \o b
  BY <1>2, <1>3, <1>b, PendingJoins DEF ReceptionInv, Given
<1>5. /\ Listed'
      /\ Taken(h, p)' = Taken(h, p) \o b
      /\ \A g, q : ~(g = h /\ q = p) => Taken(g, q)' = Taken(g, q)
  <2>0. \A g, q : Taken(g, q) \o <<>> = Taken(g, q)
    <3> SUFFICES ASSUME NEW g, NEW q PROVE Taken(g, q) \o <<>> = Taken(g, q)
      OBVIOUS
    <3>1. Taken(g, q) \in Seq(Bytes)
      BY TakenIsSequence DEF ReceptionInv
    <3> QED BY <3>1, ConcatEmpty
  <2>1. CASE b = <<>>
    <3>1. events' = events
      BY <1>1, <1>b, <2>1
    <3>2. Listed'
      BY <3>1 DEF ReceptionInv, Listed, Pieces
    <3>3. \A g, q : Taken(g, q)' = Taken(g, q)
      BY <3>1 DEF Taken
    <3> QED BY <2>0, <2>1, <3>2, <3>3
  <2>2. CASE b # <<>>
    <3>e. PICK e : e = Transfer("rx", h, p, b)
      OBVIOUS
    <3>1. events' = Append(events, e)
      BY <1>1, <1>b, <2>2, <3>e
    <3>2. \A g, q : Piece(e, g, q) = IF g = h /\ q = p THEN b ELSE <<>>
      BY <3>e DEF Piece, Transfer
    <3>3. \A g, q : Piece(e, g, q) \in Seq(Bytes)
      <4>1. <<>> \in Seq(Bytes)
        OBVIOUS
      <4> QED BY <1>4, <3>2, <4>1
    <3>4. Listed' /\ \A g, q : Taken(g, q)' = Taken(g, q) \o Piece(e, g, q)
      BY <3>1, <3>3, PiecesGrow DEF ReceptionInv
    <3> QED BY <2>0, <3>2, <3>4
  <2> QED BY <2>1, <2>2
<1>6. Taken(h, p)' = FlattenSeq(Ahead(p, DueEnd(h, p)))
  BY <1>4, <1>5
<1>7. \A q, k : (Ahead(q, k))' = Ahead(q, k)
  BY <1>1 DEF Ahead, BytesOf
<1>8. Given'
  <2> SUFFICES ASSUME NEW g \in 1..(MaxHandle - 1), NEW q \in Ports
               PROVE  Taken(g, q)' = FlattenSeq(Ahead(q, Cursor(g, q)'))
    BY <1>1 DEF Given, Ahead, BytesOf
  <2>1. CASE g = h /\ q = p
    BY <1>2, <1>6, <2>1
  <2>2. CASE ~(g = h /\ q = p)
    <3>1. Taken(g, q)' = Taken(g, q) /\ Cursor(g, q)' = Cursor(g, q)
      BY <1>2, <1>5, <2>2
    <3> QED BY <3>1 DEF ReceptionInv, Given
  <2> QED BY <2>1, <2>2
<1>9. InOrder'
  BY <1>1 DEF ReceptionInv, InOrder
<1> QED BY <1>5, <1>6, <1>8, <1>9 DEF ReceptionInv

(* What is sent counts for nothing received.                               *)
LEMMA TransmitReceivesNothing ==
  ASSUME ReceptionInv, NEW h \in Opened, NEW p \in Ports, NEW n \in 0..BufferBytes,
         Transmit(h, p, n)
  PROVE  ReceptionInv' /\ \A g, q : Taken(g, q)' = Taken(g, q)
<1>e. PICK e : e = Transfer("tx", h, p, SubSeq(handles[h].transmit, 1, n))
  OBVIOUS
<1>1. /\ events' = Append(events, e)
      /\ UNCHANGED <<declared, injections, now, handles>>
  BY <1>e DEF Transmit
<1>2. \A g, q : Piece(e, g, q) = <<>>
  BY <1>e DEF Piece, Transfer
<1>3. Listed' /\ \A g, q : Taken(g, q)' = Taken(g, q) \o Piece(e, g, q)
  <2>1. <<>> \in Seq(Bytes)
    OBVIOUS
  <2> QED BY <1>1, <1>2, <2>1, PiecesGrow DEF ReceptionInv
<1>4. ASSUME NEW g, NEW q PROVE Taken(g, q)' = Taken(g, q)
  <2>1. Taken(g, q) \in Seq(Bytes)
    BY TakenIsSequence DEF ReceptionInv
  <2>2. Taken(g, q) \o <<>> = Taken(g, q)
    BY <2>1, ConcatEmpty
  <2> QED BY <1>2, <1>3, <2>2
<1>5. InOrder'
  BY <1>1 DEF ReceptionInv, InOrder
<1>6. Given'
  <2> SUFFICES ASSUME NEW g \in 1..(MaxHandle - 1), NEW q \in Ports
               PROVE  Taken(g, q)' = FlattenSeq(Ahead(q, Cursor(g, q)'))
    BY <1>1 DEF Given, Ahead, BytesOf
  <2>1. Cursor(g, q)' = Cursor(g, q)
    BY <1>1 DEF Cursor, Opened
  <2> QED BY <1>4, <2>1 DEF ReceptionInv, Given
<1> QED BY <1>3, <1>4, <1>5, <1>6 DEF ReceptionInv

LEMMA OpenHandleReceivesNothing ==
  ASSUME IInv, ReceptionInv, NEW s \in Sites, NEW big \in BOOLEAN, OpenHandle(s, big)
  PROVE  ReceptionInv' /\ \A g, q : Taken(g, q)' = Taken(g, q)
<1>1. /\ UNCHANGED <<declared, injections, events>>
      /\ handles' = [h \in Opened \cup {nextHandle} |->
                       IF h = nextHandle THEN NewHandle(big) ELSE handles[h]]
  BY DEF OpenHandle
<1>2. Opened' = Opened \cup {nextHandle} /\ nextHandle \notin Opened
  BY <1>1 DEF Opened, IInv, CursorTypes, Ownership, HandlesHaveOneOwner
<1>3. ASSUME NEW g, NEW q \in Ports PROVE Cursor(g, q)' = Cursor(g, q)
  BY <1>1, <1>2 DEF Cursor, NewHandle
<1> QED BY <1>1, <1>3, KeepsReception

(* SetString moves no cursor.                                              *)
LEMMA SetStringReceivesNothing ==
  ASSUME IInv, ReceptionInv, NEW h \in Opened, NEW offset, NEW text,
         SetString(h, offset, text)
  PROVE  ReceptionInv' /\ \A g, q : Taken(g, q)' = Taken(g, q)
<1>0. DOMAIN handles[h] = Fields
  BY DEF IInv, CursorTypes
<1>1. /\ UNCHANGED <<declared, injections, events>>
      /\ Opened' = Opened
      /\ \A g \in Opened : handles'[g].cursors = handles[g].cursors
  BY <1>0 DEF SetString, Opened, Fields
<1>2. \A g, q : Cursor(g, q)' = Cursor(g, q)
  BY <1>1 DEF Cursor
<1> QED BY <1>1, <1>2, KeepsReception

(* The steps that receive nothing.                                         *)
LEMMA NothingReceived ==
  ASSUME IInv, ReceptionInv, [Next]_vars, ~(\E h \in Opened, p \in Ports : Receive(h, p))
  PROVE  /\ ReceptionInv' /\ \A g, q : Taken(g, q)' = Taken(g, q)
         /\ declared' = declared /\ (Elapse \/ now' = now)
<1>1. CASE Elapse \/ (\E p \in Ports, baud \in Bauds : PortInit(p, baud))
           \/ CallRefused \/ UNCHANGED vars
  <2>1. UNCHANGED <<declared, injections, events, handles>> /\ (Elapse \/ now' = now)
    BY <1>1 DEF Elapse, PortInit, CallRefused, vars
  <2>2. \A g, q : Cursor(g, q)' = Cursor(g, q)
    BY <2>1 DEF Cursor, Opened
  <2> QED BY <2>1, <2>2, KeepsReception
<1>2. CASE \E s \in Sites, big \in BOOLEAN : OpenHandle(s, big)
  <2> PICK s \in Sites, big \in BOOLEAN : OpenHandle(s, big)
    BY <1>2
  <2>1. declared' = declared /\ now' = now
    BY DEF OpenHandle
  <2> QED BY <2>1, OpenHandleReceivesNothing
<1>3. CASE \E h \in Opened, p \in Ports, n \in 0..BufferBytes : Transmit(h, p, n)
  <2> PICK h \in Opened, p \in Ports, n \in 0..BufferBytes : Transmit(h, p, n)
    BY <1>3
  <2>1. declared' = declared /\ now' = now
    BY DEF Transmit
  <2> QED BY <2>1, TransmitReceivesNothing
<1>4. CASE \E h \in Opened, offset \in 0..BufferBytes :
             \/ \E text \in Seq(Bytes) : SetString(h, offset, text)
             \/ \E n \in 1..WordBytes, v \in Integer32 : SetInteger(h, offset, n, v)
  <2>h. PICK h \in Opened : \E offset, text : SetString(h, offset, text)
    BY <1>4 DEF SetInteger
  <2>1. PICK offset, text : SetString(h, offset, text)
    BY <2>h
  <2>2. declared' = declared /\ now' = now
    BY <2>1 DEF SetString
  <2> QED BY <2>1, <2>2, SetStringReceivesNothing
<1> QED BY <1>1, <1>2, <1>3, <1>4 DEF Next

LEMMA ReceptionInvariance == Spec => [](IInv /\ ReceptionInv)
<1>1. Init => ReceptionInv
  BY InitReception
<1>2. IInv /\ ReceptionInv /\ [Next]_vars => ReceptionInv'
  BY NothingReceived, ReceiveReceives
<1> QED BY <1>1, <1>2, Invariance, PTL DEF Spec

LEMMA SameOperators ==
  (\A S : Link!Cardinality(S) = Cardinality(S)) /\ (\A s : Link!FlattenSeq(s) = FlattenSeq(s))
BY DEF Link!Cardinality, Cardinality, Link!FlattenSeq, FlattenSeq

(* What stands before the cursor after a read is what has arrived.         *)
LEMMA AheadHasArrived ==
  ASSUME IInv, ReceptionInv, NEW h \in Opened, NEW p \in Ports
  PROVE  FlattenSeq(Ahead(p, DueEnd(h, p))) \in Link!Arrived(p, now)
<1>e. PICK e : e = DueEnd(h, p)
  OBVIOUS
<1>S. PICK S : S = Of(declared, p)
  OBVIOUS
<1>q. PICK q : q = Sorted(declared, S)
  OBVIOUS
<1>c. PICK c : c = Cardinality(S)
  OBVIOUS
<1>1. /\ Lists(declared, q, S)
      /\ Len(injections[p]) = c
      /\ \A n \in 1..c : injections[p][n] = declared[q[n]]
  BY <1>S, <1>q, <1>c, EntriesAreSorted DEF ReceptionInv, InOrder
<1>2. /\ e \in Nat /\ e <= c
      /\ \A n \in 1..e : injections[p][n].time <= now
      /\ e < c => injections[p][e + 1].time > now
  BY <1>1, <1>e, DueEndIsDue DEF IInv
<1>3. /\ now \in Int /\ c \in Nat
      /\ \A n \in 1..e : n \in 1..c
      /\ e < c => e + 1 \in 1..c
  <2>1. now \in Int /\ c \in Nat
    BY <1>1, <1>c DEF IInv, CursorTypes, Lists
  <2> QED BY <1>2, <2>1
<1>due. PICK due : due = {i \in S : declared[i].time <= now}
  OBVIOUS
<1>r. PICK r : r = [n \in 1..e |-> q[n]]
  OBVIOUS
<1>4. Cardinality(due) = e /\ r \in Listings(declared, due)
  <2>1. /\ \A n \in 1..e : declared[q[n]].time <= now
        /\ e < c => declared[q[e + 1]].time > now
    BY <1>1, <1>2, <1>3
  <2>2. e \in Nat /\ e <= Cardinality(S) /\ (e < Cardinality(S) => e < c)
    BY <1>2, <1>c
  <2>3. Lists(declared, q, S) /\ now \in Int
    BY <1>1, <1>3
  <2>4. e < Cardinality(S) => declared[q[e + 1]].time > now
    BY <2>1, <2>2
  <2> QED BY <1>due, <1>r, <2>1, <2>2, <2>3, <2>4, DueAreFirst
<1>5. due = {i \in DOMAIN declared : declared[i].port = p /\ declared[i].time <= now}
  BY <1>due, <1>S DEF Of
<1>6. Ahead(p, e) = [n \in 1..Cardinality(due) |-> declared[r[n]].bytes]
  <2>1. \A n \in 1..e : injections[p][n].bytes = declared[r[n]].bytes
    BY <1>1, <1>3, <1>r
  <2> QED BY <1>4, <2>1 DEF Ahead, BytesOf
<1>7. r \in Link!Listings(declared, due)
  <2>1. r \in [1..Cardinality(due) -> due] /\ Ascending(declared, r, Cardinality(due))
    BY <1>4 DEF Listings
  <2>2. Link!Ascending(declared, r, Cardinality(due))
    BY <2>1 DEF Link!Ascending, Ascending, Link!Earlier, Earlier
  <2> QED BY <2>1, <2>2, SameOperators DEF Link!Listings
<1>8. Link!Arrived(p, now) =
        {FlattenSeq([n \in 1..Cardinality(due) |-> declared[order[n]].bytes]) :
           order \in Link!Listings(declared, due)}
  BY <1>5, SameOperators DEF Link!Arrived
<1>9. FlattenSeq([n \in 1..Cardinality(due) |-> declared[r[n]].bytes]) \in Link!Arrived(p, now)
  BY <1>7, <1>8
<1> QED BY <1>6, <1>9, <1>e

Table == [h \in 1..(MaxHandle - 1) |-> [p \in Ports |-> Taken(h, p)]]

LEMMA StepsAreLinkSteps ==
  ASSUME IInv, ReceptionInv, [Next]_vars
  PROVE  [Link!Next]_<<declared, now, Table>>
<1>1. CASE \E h \in Opened, p \in Ports : Receive(h, p)
  <2>1. PICK h \in Opened, p \in Ports : Receive(h, p)
    BY <1>1
  <2>2. /\ Taken(h, p)' = FlattenSeq(Ahead(p, DueEnd(h, p)))
        /\ \A g, q : ~(g = h /\ q = p) => Taken(g, q)' = Taken(g, q)
    BY <2>1, ReceiveReceives
  <2>b. PICK bytes : bytes = FlattenSeq(Ahead(p, DueEnd(h, p)))
    OBVIOUS
  <2>3. bytes \in Link!Arrived(p, now)
    BY <2>b, AheadHasArrived
  <2>4. h \in 1..(MaxHandle - 1)
    BY DEF IInv, CursorTypes, Ownership, HandlesHaveOneOwner
  <2>5. Table' = [g \in 1..(MaxHandle - 1) |-> [q \in Ports |-> Taken(g, q)']]
    BY DEF Table
  <2>6. Table' = [Table EXCEPT ![h][p] = bytes]
    BY <2>2, <2>b, <2>4, <2>5 DEF Table
  <2>7. declared' = declared /\ now' = now
    BY <2>1 DEF Receive
  <2>8. Link!Read(h, p)
    BY <2>3, <2>6, <2>7 DEF Link!Read, Table
  <2> QED BY <2>4, <2>8 DEF Link!Next
<1>2. CASE ~(\E h \in Opened, p \in Ports : Receive(h, p))
  <2>1. /\ \A g, q : Taken(g, q)' = Taken(g, q)
        /\ declared' = declared /\ (Elapse \/ now' = now)
    BY <1>2, NothingReceived
  <2>2. Table' = Table
    BY <2>1 DEF Table
  <2>3. CASE Elapse
    <3>1. Link!Tick
      BY <2>1, <2>2, <2>3 DEF Elapse, Link!Tick, Table
    <3> QED BY <3>1 DEF Link!Next
  <2>4. CASE now' = now
    BY <2>1, <2>2, <2>4
  <2> QED BY <2>1, <2>3, <2>4
<1> QED BY <1>1, <1>2

(* The adapter implements SerialLink: whichever sites open handles, in     *)
(* whatever order they read, each handle has of each port exactly the      *)
(* bytes declared for it up to its last read, none lost, doubled or out of *)
(* the stable order by time, and no read takes from another (receive).     *)
THEOREM ReceptionIsLossless == Spec => ReceptionIsExact
<1>1. Init => Link!Init
  <2> SUFFICES ASSUME Init PROVE Link!Init
    OBVIOUS
  <2>1. \A h, p : Taken(h, p) = <<>>
    <3>1. \A h, p : Pieces(h, p) = <<>>
      BY DEF Init, Pieces
    <3> QED BY <3>1, TakenIsPieces, EmptyFlattens
  <2> QED BY <2>1 DEF Init, Link!Init
<1>2. IInv /\ ReceptionInv /\ [Next]_vars => [Link!Next]_<<declared, now, Table>>
  BY StepsAreLinkSteps
<1>3. Table = [h \in 1..(MaxHandle - 1) |-> [p \in Ports |-> Taken(h, p)]]
  BY DEF Table
<1> QED BY <1>1, <1>2, <1>3, ReceptionInvariance, PTL DEF Spec, ReceptionIsExact, Link!Spec, Table

(* A read withholds nothing that is due, also when it returns nothing      *)
(* (receive).                                                              *)
THEOREM ReadsWithholdNothing == Spec => ReadsAreComplete
<1>1. IInv /\ ReceptionInv /\ [Next]_vars =>
        [\A h \in Opened, p \in Ports :
           Receive(h, p) => Taken(h, p)' \in Link!Arrived(p, now)]_vars
  BY ReceiveReceives, AheadHasArrived
<1> QED BY <1>1, ReceptionInvariance, PTL DEF Spec, ReadsAreComplete

-----------------------------------------------------------------------------
(* Words in buffers.                                                       *)

HIDE VirtualSerialAssumption

(* What the getters make of the low bytes of a word.                       *)
LEMMA SignsExtend ==
  ASSUME NEW v \in Integer32, NEW length \in 1..WordBytes, NEW B, B = Weight[length]
  PROVE  /\ v \in (-(B \div 2))..(B \div 2 - 1) => SignExtended(v % B, length) = v
         /\ (v - SignExtended(v % B, length)) % B = 0
         /\ v \in 0..(2 * (B \div 2) - 1) => SignExtended(v % B, WordBytes) = v
         /\ length = WordBytes => SignExtended(v % B, WordBytes) = v
<1>b. PICK b \in Nat : b = B /\ b > 0
  BY WeightsGrow
<1>W. PICK W \in Nat : W = WordSize /\ W > 0
  <2>1. WordBytes \in 0..WordBytes
    BY VirtualSerialAssumption
  <2> QED BY <2>1, WeightsGrow DEF WordSize
<1>v. PICK x \in Int : x = v /\ -(W \div 2) <= x /\ x <= W \div 2 - 1
  <2>1. W \div 2 \in Int
    BY <1>W
  <2> QED BY <2>1, <1>W DEF Integer32
<1>q. PICK q \in Int : q = x \div b
  BY <1>b, Parts
<1>r. PICK r \in Nat : r = x % b
  BY <1>b, Parts
<1>1. x = q * b + r /\ r < b
  BY <1>b, <1>q, <1>r, Parts
<1>2. /\ SignExtended(r, length) = IF r >= b \div 2 THEN r - b ELSE r
      /\ SignExtended(r, WordBytes) = IF r >= W \div 2 THEN r - W ELSE r
  BY <1>b, <1>W DEF SignExtended, WordSize
<1>3. x >= 0 /\ x < b => r = x
  BY <1>b, <1>r
<1>4. x < 0 /\ -b <= x => r = x + b
  <2>1. CASE x < 0 /\ -b <= x
    <3>y. PICK y \in Nat : y = x + b
      BY <1>b, <2>1
    <3>m. PICK m \in Int : m = -1
      OBVIOUS
    <3>1. x = m * b + y /\ y < b
      BY <1>b, <2>1, <3>y, <3>m
    <3>2. (m * b + y) % b = y
      BY <1>b, <3>1, Quotients
    <3> QED BY <3>1, <3>2, <3>y, <1>r
  <2> QED BY <2>1
<1>5. x \in (-(b \div 2))..(b \div 2 - 1) => SignExtended(r, length) = x
  <2>1. CASE 0 <= x /\ x <= b \div 2 - 1
    BY <1>2, <1>3, <2>1, <1>b
  <2>2. CASE x < 0 /\ -(b \div 2) <= x
    BY <1>2, <1>4, <2>2, <1>b
  <2> QED BY <2>1, <2>2, <1>b
<1>6. (x - SignExtended(r, length)) % b = 0
  <2>1. CASE r >= b \div 2
    <3>c. PICK c \in Int : c = q + 1
      OBVIOUS
    <3>1. x - SignExtended(r, length) = c * b + 0
      <4>1. c * b = q * b + b
        BY <1>b, <1>q, <3>c
      <4>2. q * b \in Int /\ c * b \in Int
        BY <1>b, <1>q, <3>c
      <4>3. SignExtended(r, length) = r - b
        BY <1>2, <2>1
      <4> QED BY <1>1, <1>b, <1>r, <1>v, <4>1, <4>2, <4>3
    <3>2. (c * b + 0) % b = 0
      BY <1>b, <3>c, Quotients
    <3> QED BY <3>1, <3>2
  <2>2. CASE ~(r >= b \div 2)
    <3>1. x - SignExtended(r, length) = q * b + 0
      <4>1. q * b \in Int
        BY <1>b
      <4> QED BY <1>1, <1>2, <2>2, <4>1
    <3>2. (q * b + 0) % b = 0
      BY <1>b, Quotients
    <3> QED BY <3>1, <3>2
  <2> QED BY <2>1, <2>2
<1>7. x \in 0..(2 * (b \div 2) - 1) => SignExtended(r, WordBytes) = x
  BY <1>2, <1>3, <1>b, <1>v, <1>W
<1>8. length = WordBytes => SignExtended(r, WordBytes) = x
  <2>1. CASE length = WordBytes
    <3>1. b = W
      BY <2>1, <1>b, <1>W DEF WordSize
    <3>2. CASE 0 <= x
      BY <1>2, <1>3, <3>1, <3>2, <1>v, <1>W
    <3>3. CASE x < 0
      BY <1>2, <1>4, <3>1, <3>3, <1>v, <1>W
    <3> QED BY <3>2, <3>3
  <2> QED BY <2>1
<1> QED BY <1>5, <1>6, <1>7, <1>8, <1>b, <1>v, <1>r

LEMMA WordIsReadBack ==
  ASSUME IInv, NEW h \in Opened, NEW n \in 1..WordBytes, NEW offset \in 0..(BufferBytes - n),
         NEW v \in Integer32, SetInteger(h, offset, n, v)
  PROVE  LET buffer == handles'[h].transmit
             big    == handles[h].bigEndian
             half   == Weight[n] \div 2
         IN  /\ v \in (-half)..(half - 1) => GetInteger(buffer, offset, n, big) = v
             /\ (v - GetInteger(buffer, offset, n, big)) % Weight[n] = 0
             /\ v \in 0..(2 * half - 1) \/ n = WordBytes =>
                  GetUnsignedInteger(buffer, offset, n, big) = v
             /\ \A i \in 1..BufferBytes \ ((offset + 1)..(offset + n)) :
                  buffer[i] = handles[h].transmit[i]
<1>0. WordBytes \in Nat /\ BufferBytes \in Nat
  BY VirtualSerialAssumption
<1>g. PICK big : big = handles[h].bigEndian
  OBVIOUS
<1>o. PICK old : old = handles[h].transmit
  OBVIOUS
<1>u. PICK buffer : buffer = handles'[h].transmit
  OBVIOUS
<1>t. PICK text : text = Encode(v % WordSize, n, big)
  OBVIOUS
<1>B. PICK B : B = Weight[n]
  OBVIOUS
<1>1. v \in Int /\ n \in 0..WordBytes
  BY <1>0 DEF Integer32
<1>2. text \in Seq(Nat) /\ Len(text) = n /\ Decode(text, big) = v % B
  BY <1>1, <1>t, <1>B, EncodedIsDecoded
<1>3. buffer = [i \in 1..BufferBytes |->
                  IF i \in (offset + 1)..(offset + Len(text)) THEN text[i - offset] ELSE old[i]]
  <2>1. SetString(h, offset, text)
    BY <1>t, <1>g DEF SetInteger
  <2>2. DOMAIN handles[h] = Fields
    BY DEF IInv, CursorTypes
  <2> QED BY <2>1, <2>2, <1>o, <1>u DEF SetString, Fields, Opened
<1>4. SubSeq(buffer, offset + 1, offset + n) = text
  <2>1. offset \in Nat /\ offset + Len(text) <= BufferBytes
    BY <1>0, <1>2
  <2>2. SubSeq(buffer, offset + 1, offset + Len(text)) = text
    BY <1>2, <1>3, <2>1, StoredIsFound
  <2> QED BY <1>2, <2>2
<1>5. /\ GetInteger(buffer, offset, n, big) = SignExtended(v % B, n)
      /\ GetUnsignedInteger(buffer, offset, n, big) = SignExtended(v % B, WordBytes)
  BY <1>2, <1>4 DEF GetInteger, GetUnsignedInteger
<1>6. /\ v \in (-(B \div 2))..(B \div 2 - 1) => SignExtended(v % B, n) = v
      /\ (v - SignExtended(v % B, n)) % B = 0
      /\ v \in 0..(2 * (B \div 2) - 1) => SignExtended(v % B, WordBytes) = v
      /\ n = WordBytes => SignExtended(v % B, WordBytes) = v
  BY <1>B, SignsExtend
<1>7. \A i \in 1..BufferBytes \ ((offset + 1)..(offset + n)) : buffer[i] = old[i]
  BY <1>2, <1>3
<1> QED BY <1>5, <1>6, <1>7, <1>g, <1>o, <1>u, <1>B

(* Whatever the width of a word and the size of a byte, a stored integer   *)
(* comes back through the getters of its width and order: sign and all if  *)
(* it fits, modulo the width if not, and what lies around it in the buffer *)
(* stays (write_integer, decode).                                          *)
THEOREM IntegersReadBack == Spec => WordsReadBack
<1>1. IInv /\ [Next]_vars =>
        [\A h \in Opened, n \in 1..WordBytes :
           \A offset \in 0..(BufferBytes - n), v \in Integer32 :
             handles'[h] # handles[h] /\ SetInteger(h, offset, n, v) =>
               LET buffer == handles'[h].transmit
                   big    == handles[h].bigEndian
                   half   == Weight[n] \div 2
               IN  /\ v \in (-half)..(half - 1) => GetInteger(buffer, offset, n, big) = v
                   /\ (v - GetInteger(buffer, offset, n, big)) % Weight[n] = 0
                   /\ v \in 0..(2 * half - 1) \/ n = WordBytes =>
                        GetUnsignedInteger(buffer, offset, n, big) = v
                   /\ \A i \in 1..BufferBytes \ ((offset + 1)..(offset + n)) :
                        buffer[i] = handles[h].transmit[i]]_vars
  BY WordIsReadBack
<1> QED BY <1>1, Invariance, PTL DEF Spec, WordsReadBack

=============================================================================
