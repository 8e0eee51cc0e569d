---------------------------- MODULE PlannerProofs ---------------------------
(***************************************************************************)
(* Proofs about the schedule planner, for every set of functions, channels *)
(* and rates.  First of Schedule, whatever I/O it is given: Orderable is   *)
(* the heart, the selected dependencies never close a cycle, stated as     *)
(* "every non-empty set of functions has a member that waits for no other  *)
(* member", which is what Kahn's algorithm needs.  Then of Planner, which  *)
(* implements the safety part of Schedule, so that what was proved of      *)
(* every I/O holds of the I/O the call walk really computes.               *)
(***************************************************************************)
EXTENDS Planner, FiniteSetTheorems, FunctionTheorems, SequenceTheorems, TLAPS

Orderable(edges) ==
  \A U \in SUBSET Functions :
    U # {} => \E u \in U : \A e \in edges : e[2] = u => e[1] \notin U

(* Writers of selected dependencies of g that are not placed yet. *)
Waiting(g) == {f \in Functions : <<f, g>> \in selected /\ f \notin Placed}

-----------------------------------------------------------------------------
(* Adding an edge whose reader does not reach its writer keeps the edges   *)
(* orderable: a set closed under the old edges separates reader from       *)
(* writer, and a source outside (or else inside) that set is still one.    *)
LEMMA AddingKeepsOrderable ==
  ASSUME NEW E \in SUBSET Edges, NEW w \in Functions, NEW r \in Functions,
         Orderable(E), ~PathExists(E, r, w)
  PROVE  Orderable(E \cup {<<w, r>>})
<1> DEFINE F == E \cup {<<w, r>>}
<1>1. PICK S \in SUBSET Functions : r \in S /\ ClosedUnder(E, S) /\ w \notin S
  BY DEF PathExists
<1> SUFFICES ASSUME NEW U \in SUBSET Functions, U # {}
             PROVE  \E u \in U : \A e \in F : e[2] = u => e[1] \notin U
  BY DEF Orderable
<1>2. CASE U \subseteq S
  <2>1. PICK u \in U : \A e \in E : e[2] = u => e[1] \notin U
    BY DEF Orderable
  <2>2. w \notin U
    BY <1>1, <1>2
  <2>3. \A e \in F : e[2] = u => e[1] \notin U
    BY <2>1, <2>2
  <2> QED BY <2>3
<1>3. CASE ~(U \subseteq S)
  <2> DEFINE V == U \ S
  <2>1. V # {} /\ V \in SUBSET Functions
    BY <1>3
  <2>2. PICK u \in V : \A e \in E : e[2] = u => e[1] \notin V
    BY <2>1 DEF Orderable
  <2>3. \A e \in E : e[2] = u => e[1] \notin U
    BY <1>1, <2>2 DEF ClosedUnder
  <2>4. u # r
    BY <1>1, <2>2
  <2>5. \A e \in F : e[2] = u => e[1] \notin U
    BY <2>3, <2>4
  <2> QED BY <2>5
<1> QED BY <1>2, <1>3

(* More edges reach no less. *)
LEMMA PathsGrow ==
  ASSUME NEW E, NEW F, E \subseteq F, NEW a, NEW b, PathExists(E, a, b)
  PROVE  PathExists(F, a, b)
BY DEF PathExists, ClosedUnder

LEMMA RatesAreIntegers ==
  ASSUME TypeOK
  PROVE  \A f \in Functions : rate[f] \in Int /\ f \in Int
<1> SUFFICES ASSUME NEW f \in Functions PROVE rate[f] \in Int /\ f \in Int
  OBVIOUS
<1>1. rate[f] \in Rates \cup {0, -1}
  BY DEF TypeOK, NotPeriodic, InvalidRate
<1>2. Rates \subseteq Int /\ Functions \subseteq Int
  BY ProjectAssumption, RatesAssumption
<1>3. 0 \in Int /\ -1 \in Int
  BY SMT
<1> QED BY <1>1, <1>2, <1>3

(* Edges that all agree with the tie policy lead from a function only to   *)
(* itself and to functions after it.                                       *)
LEMMA PolicyPathsAscend ==
  ASSUME TypeOK, NEW E \in SUBSET Edges, NEW w \in Functions, NEW r \in Functions,
         \A e \in E : AssumedBefore(e[1], e[2]),
         AssumedBefore(w, r)
  PROVE  ~PathExists(E, r, w)
<1> DEFINE S == {x \in Functions : x = r \/ AssumedBefore(r, x)}
<1>0. \A f \in Functions : rate[f] \in Int /\ f \in Int
  BY RatesAreIntegers
<1>1. r \in S
  OBVIOUS
<1>2. ClosedUnder(E, S)
  <2> SUFFICES ASSUME NEW e \in E, e[1] \in S PROVE e[2] \in S
    BY DEF ClosedUnder
  <2>1. e[1] \in Functions /\ e[2] \in Functions /\ AssumedBefore(e[1], e[2])
    BY DEF Edges
  <2>2. e[1] = r \/ AssumedBefore(r, e[1])
    OBVIOUS
  <2>3. AssumedBefore(r, e[2])
    BY <1>0, <2>1, <2>2 DEF AssumedBefore
  <2> QED BY <2>1, <2>3
<1>3. w \notin S
  BY <1>0 DEF AssumedBefore
<1>4. S \in SUBSET Functions
  OBVIOUS
<1> QED BY <1>1, <1>2, <1>3, <1>4 DEF PathExists

-----------------------------------------------------------------------------
(* The inductive invariant, one part per phase of the planner. *)
EarlyInv ==
  /\ phase \in {"rates", "fold"} => deps = {}
  /\ phase \notin {"order", "done", "cycle error"} => ordered = <<>>

(* As long as a dependency that agrees with the tie policy is still to be  *)
(* considered, only such dependencies have been selected.                  *)
SelectionInv ==
  /\ Orderable(selected)
  /\ DroppedClosesCycle
  /\ (\E d \in candidates : AssumedBefore(d[1], d[2]))
       => \A e \in selected : AssumedBefore(e[1], e[2])
  /\ DroppedIsFeedback

CountingInv ==
  phase = "order" =>
    /\ \A g \in Functions : indegree[g] = Cardinality(Waiting(g))
    /\ ready = {g \in Periodic \ Placed : Waiting(g) = {}}

LastBeforeReady ==
  (phase = "order" /\ ordered # <<>>) =>
    \A g \in ready :
      LET last == ordered[Len(ordered)]
      IN  <<last, g>> \in selected \/ AssumedBefore(last, g)

OrderInv ==
  /\ \A i, j \in 1..Len(ordered) : i # j => ordered[i] # ordered[j]
  /\ \A i \in 1..Len(ordered) : \A f \in Functions :
       <<f, ordered[i]>> \in selected => \E j \in 1..(i - 1) : ordered[j] = f
  /\ NeighboursFollowTiePolicy

DoneInv == PlanHonoursSelection

IInv == /\ TypeOK
        /\ EarlyInv
        /\ SelectionInv
        /\ CountingInv
        /\ LastBeforeReady
        /\ OrderInv
        /\ DoneInv

-----------------------------------------------------------------------------
LEMMA InitEstablishes == Init => IInv
<1> SUFFICES ASSUME Init PROVE IInv
  OBVIOUS
<1>1. TypeOK
  BY DEF Init, TypeOK, Phases, Periodic
<1>2. EarlyInv
  BY DEF Init, EarlyInv
<1>3. SelectionInv
  BY DEF Init, SelectionInv, Orderable, DroppedClosesCycle, DroppedIsFeedback
<1>4. CountingInv /\ LastBeforeReady
  BY DEF Init, CountingInv, LastBeforeReady
<1>5. OrderInv
  BY DEF Init, OrderInv, NeighboursFollowTiePolicy
<1>6. DoneInv
  BY DEF Init, DoneInv, PlanHonoursSelection
<1> QED BY <1>1, <1>2, <1>3, <1>4, <1>5, <1>6 DEF IInv

(* Considering one dependency keeps what is known of the selection. *)
LEMMA ConsiderStep ==
  ASSUME IInv, NEW d \in Edges, ConsiderDependency(d)
  PROVE  SelectionInv'
<1> USE DEF ConsiderDependency
<1>0. /\ TypeOK /\ SelectionInv
      /\ d \in deps /\ d \notin candidates'
      /\ rate' = rate /\ deps' = deps
  BY DEF IInv, TypeOK, inputVars
<1>1. /\ d[1] \in Functions /\ d[2] \in Functions /\ d = <<d[1], d[2]>>
      /\ selected \in SUBSET Edges
  BY <1>0 DEF TypeOK, Edges, Periodic
<1>2. \A f, g : AssumedBefore(f, g)' <=> AssumedBefore(f, g)
  BY <1>0 DEF AssumedBefore
<1>3. Orderable(selected)'
  <2>1. CASE PathExists(selected, d[2], d[1])
    BY <1>0, <2>1 DEF SelectionInv, Orderable
  <2>2. CASE ~PathExists(selected, d[2], d[1])
    <3>1. selected' = selected \cup {<<d[1], d[2]>>}
      BY <1>1, <2>2
    <3>2. Orderable(selected \cup {<<d[1], d[2]>>})
      BY <1>0, <1>1, <2>2, AddingKeepsOrderable DEF SelectionInv
    <3> QED BY <3>1, <3>2 DEF Orderable
  <2> QED BY <2>1, <2>2
<1>4. DroppedClosesCycle'
  <2> SUFFICES ASSUME NEW e \in deps' \ (candidates' \cup selected')
               PROVE  PathExists(selected', e[2], e[1])
    BY DEF DroppedClosesCycle, PathExists, ClosedUnder
  <2>1. selected \subseteq selected'
    OBVIOUS
  <2>2. CASE e = d
    <3>1. PathExists(selected, d[2], d[1])
      BY <1>0, <2>2
    <3> QED BY <2>1, <2>2, <3>1, PathsGrow
  <2>3. CASE e # d
    <3>1. PathExists(selected, e[2], e[1])
      BY <1>0, <2>3 DEF SelectionInv, DroppedClosesCycle
    <3> QED BY <2>1, <3>1, PathsGrow
  <2> QED BY <2>2, <2>3
<1>5. AssumedBefore(d[1], d[2]) =>
        /\ \A e \in selected : AssumedBefore(e[1], e[2])
        /\ ~PathExists(selected, d[2], d[1])
  BY <1>0, <1>1, PolicyPathsAscend DEF SelectionInv
<1>6. ((\E e \in candidates : AssumedBefore(e[1], e[2]))
        => \A e \in selected : AssumedBefore(e[1], e[2]))'
  <2> SUFFICES ASSUME NEW e \in candidates', AssumedBefore(e[1], e[2])
               PROVE  \A x \in selected' : AssumedBefore(x[1], x[2])
    BY <1>2
  <2>1. AssumedBefore(d[1], d[2])
    BY <1>0 DEF ConsideredBefore
  <2> QED BY <1>5, <2>1
<1>7. DroppedIsFeedback'
  <2> SUFFICES ASSUME NEW e \in deps' \ (candidates' \cup selected'),
                      AssumedBefore(e[1], e[2])
               PROVE  FALSE
    BY <1>2 DEF DroppedIsFeedback
  <2>1. e # d
    BY <1>5
  <2> QED BY <1>0, <2>1 DEF SelectionInv, DroppedIsFeedback
<1> QED BY <1>3, <1>4, <1>6, <1>7 DEF SelectionInv

(* Nothing the selection facts mention changes. *)
LEMMA SelectionFrame ==
  ASSUME SelectionInv, UNCHANGED <<rate, deps, candidates, selected>>
  PROVE  SelectionInv'
BY DEF SelectionInv, Orderable, DroppedClosesCycle, DroppedIsFeedback,
       PathExists, ClosedUnder, AssumedBefore

(* Nothing the order facts mention changes. *)
LEMMA OrderFrame ==
  ASSUME OrderInv, UNCHANGED <<rate, selected, ordered>>
  PROVE  OrderInv'
BY DEF OrderInv, NeighboursFollowTiePolicy, AssumedBefore

LEMMA WaitingIsFinite ==
  ASSUME NEW g
  PROVE  /\ IsFiniteSet(Waiting(g))
         /\ Cardinality(Waiting(g)) \in Nat
         /\ Cardinality(Waiting(g)) = 0 <=> Waiting(g) = {}
<1>1. Waiting(g) \subseteq Functions
  BY DEF Waiting
<1>2. IsFiniteSet(Waiting(g))
  BY <1>1, ProjectAssumption, FS_Subset
<1> QED BY <1>2, FS_CardinalityType, FS_EmptySet

(* With nothing left to place first, everything is placed: an unplaced     *)
(* function would have a source among the unplaced ones.                   *)
LEMMA AllPlaced ==
  ASSUME IInv, phase = "order", ready = {}
  PROVE  Placed = Periodic
<1> DEFINE U == Periodic \ Placed
<1>1. Placed \subseteq Periodic
  BY DEF IInv, TypeOK, Placed
<1>2. ASSUME U # {} PROVE FALSE
  <2>1. PICK u \in U : \A e \in selected : e[2] = u => e[1] \notin U
    BY <1>2 DEF IInv, SelectionInv, Orderable, Periodic
  <2>2. Waiting(u) = {}
    <3> SUFFICES ASSUME NEW f \in Waiting(u) PROVE FALSE
      OBVIOUS
    <3>1. <<f, u>> \in selected /\ f \notin Placed
      BY DEF Waiting
    <3>2. f \in Periodic
      BY <3>1 DEF IInv, TypeOK
    <3> QED BY <2>1, <3>1, <3>2
  <2>3. u \in ready
    BY <2>1, <2>2 DEF IInv, CountingInv
  <2> QED BY <2>3
<1> QED BY <1>1, <1>2

(* ordered enumerates what it places without repetition. *)
LEMMA OrderedCounts ==
  ASSUME IInv
  PROVE  Len(ordered) = Cardinality(Placed)
<1>1. ordered \in Seq(Periodic) /\ Len(ordered) \in Nat
  BY DEF IInv, TypeOK
<1>2. ordered \in [1..Len(ordered) -> Placed]
  BY <1>1 DEF Placed
<1>3. ordered \in Surjection(1..Len(ordered), Placed)
  BY <1>2 DEF Surjection, Placed
<1>4. ordered \in Injection(1..Len(ordered), Placed)
  BY <1>2 DEF Injection, IsInjective, IInv, OrderInv
<1>5. ExistsBijection(1..Len(ordered), Placed)
  BY <1>3, <1>4 DEF ExistsBijection, Bijection
<1> QED BY <1>1, <1>5, FS_CountingElements

LEMMA StartOrderingStep ==
  ASSUME IInv, StartOrdering
  PROVE  TypeOK' /\ CountingInv' /\ LastBeforeReady'
<1> USE DEF StartOrdering
<1>1. ordered = <<>> /\ ordered' = <<>> /\ Placed = {} /\ Placed' = {}
  BY DEF IInv, EarlyInv, Placed
<1>2. UNCHANGED <<rate, reads, writes, folded, deps, candidates, selected>>
  BY DEF inputVars, ioVars, selectVars
<1>3. \A g : Waiting(g)' = Waiting(g)
             /\ Waiting(g) = {f \in Functions : <<f, g>> \in selected}
  BY <1>1, <1>2 DEF Waiting
<1>4. \A g \in Functions : indegree'[g] = Cardinality(Waiting(g))
  BY <1>3
<1>5. indegree' \in [Functions -> Nat]
  BY <1>3, WaitingIsFinite
<1>6. Periodic' = Periodic /\ Periodic \subseteq Functions
  BY <1>2 DEF Periodic
<1>7. ready' = {g \in Periodic' \ Placed' : Waiting(g)' = {}}
  BY <1>1, <1>3, <1>4, <1>6, WaitingIsFinite
<1>8. TypeOK'
  BY <1>1, <1>2, <1>5, <1>6, <1>7 DEF IInv, TypeOK, Phases
<1>9. CountingInv'
  BY <1>3, <1>4, <1>7 DEF CountingInv
<1>10. LastBeforeReady'
  BY <1>1 DEF LastBeforeReady
<1> QED BY <1>8, <1>9, <1>10

(* Appending to the order: the new element is last, the others keep their  *)
(* positions.                                                              *)
LEMMA AppendKeepsPrefix ==
  ASSUME NEW S, NEW s \in Seq(S), NEW x \in S
  PROVE  /\ Append(s, x) \in Seq(S)
         /\ Len(Append(s, x)) = Len(s) + 1
         /\ Append(s, x)[Len(s) + 1] = x
         /\ \A i \in 1..Len(s) : Append(s, x)[i] = s[i]
  OBVIOUS

LEMMA PlaceStep ==
  ASSUME IInv, NEW f \in Functions, PlaceNext(f)
  PROVE  TypeOK' /\ CountingInv' /\ LastBeforeReady' /\ OrderInv'
<1> USE DEF PlaceNext
<1> DEFINE n == Len(ordered)
<1>1. /\ UNCHANGED <<rate, reads, writes, folded, deps, candidates, selected>>
      /\ phase = "order" /\ phase' = "order" /\ f \in ready
  BY DEF inputVars, ioVars, selectVars
<1>2. /\ ordered \in Seq(Periodic) /\ n \in Nat
      /\ f \in Periodic /\ f \notin Placed /\ Waiting(f) = {}
      /\ selected \subseteq Periodic \X Periodic
      /\ Periodic' = Periodic
  BY <1>1 DEF IInv, TypeOK, CountingInv, Periodic
<1>3. /\ ordered' \in Seq(Periodic)
      /\ Len(ordered') = n + 1
      /\ ordered'[n + 1] = f
      /\ \A i \in 1..n : ordered'[i] = ordered[i]
  BY <1>2, AppendKeepsPrefix
<1>4. Placed' = Placed \cup {f}
  <2>1. Placed' = {ordered'[i] : i \in 1..(n + 1)}
    BY <1>3 DEF Placed
  <2>2. 1..(n + 1) = (1..n) \cup {n + 1}
    BY <1>2
  <2>3. {ordered'[i] : i \in 1..(n + 1)} =
        {ordered'[i] : i \in 1..n} \cup {ordered'[n + 1]}
    BY <2>2
  <2>4. {ordered'[i] : i \in 1..n} = {ordered[i] : i \in 1..n}
    BY <1>3
  <2> QED BY <1>3, <2>1, <2>3, <2>4 DEF Placed
<1>5. \A g : Waiting(g)' = Waiting(g) \ {f}
  BY <1>1, <1>4 DEF Waiting
<1>6. \A g \in Functions :
        f \in Waiting(g) <=> <<f, g>> \in selected
  BY <1>2 DEF Waiting
<1>7. \A g \in Functions : indegree'[g] = Cardinality(Waiting(g)')
  <2> SUFFICES ASSUME NEW g \in Functions
               PROVE  indegree'[g] = Cardinality(Waiting(g)')
    OBVIOUS
  <2>1. indegree[g] = Cardinality(Waiting(g)) /\ IsFiniteSet(Waiting(g))
    BY <1>1, WaitingIsFinite DEF IInv, CountingInv
  <2>2. Cardinality(Waiting(g) \ {f}) =
          IF f \in Waiting(g) THEN Cardinality(Waiting(g)) - 1
                              ELSE Cardinality(Waiting(g))
    BY <2>1, FS_RemoveElement
  <2>3. indegree'[g] = IF <<f, g>> \in selected THEN indegree[g] - 1
                                                ELSE indegree[g]
    OBVIOUS
  <2> QED BY <1>5, <1>6, <2>1, <2>2, <2>3
<1>8. \A g : /\ Cardinality(Waiting(g)') \in Nat
             /\ Cardinality(Waiting(g)') = 0 <=> Waiting(g)' = {}
  <2> SUFFICES ASSUME NEW g
               PROVE  /\ Cardinality(Waiting(g) \ {f}) \in Nat
                      /\ Cardinality(Waiting(g) \ {f}) = 0 <=> Waiting(g) \ {f} = {}
    BY <1>5
  <2>1. IsFiniteSet(Waiting(g) \ {f})
    BY WaitingIsFinite, FS_RemoveElement
  <2> QED BY <2>1, FS_CardinalityType, FS_EmptySet
<1>9. indegree' \in [Functions -> Nat]
  <2>1. indegree' = [g \in Functions |-> indegree'[g]]
    OBVIOUS
  <2> QED BY <1>7, <1>8, <2>1
<1>10. ready = {g \in Periodic \ Placed : Waiting(g) = {}}
  BY <1>1 DEF IInv, CountingInv
<1>11. \A g \in Functions : <<f, g>> \in selected => g \in Periodic /\ g \notin Placed'
  <2> SUFFICES ASSUME NEW g \in Functions, <<f, g>> \in selected
               PROVE  g \in Periodic /\ g \notin Placed'
    OBVIOUS
  <2>1. g \in Periodic
    BY <1>2
  <2>2. g # f
    BY <1>2, <1>6
  <2>3. ASSUME g \in Placed PROVE FALSE
    <3>1. PICK i \in 1..n : ordered[i] = g
      BY <2>3 DEF Placed
    <3>2. PICK j \in 1..(i - 1) : ordered[j] = f
      BY <3>1 DEF IInv, OrderInv
    <3>3. j \in 1..n
      BY <1>2, <3>1, <3>2
    <3> QED BY <1>2, <3>2, <3>3 DEF Placed
  <2> QED BY <1>4, <2>1, <2>2, <2>3
<1>12. ready' = {g \in Periodic' \ Placed' : Waiting(g)' = {}}
  <2>1. \A g \in Functions : indegree'[g] = 0 <=> Waiting(g)' = {}
    BY <1>7, <1>8
  <2>2. Periodic \subseteq Functions
    BY DEF Periodic
  <2>3. ASSUME NEW g \in ready' PROVE g \in Periodic \ Placed' /\ Waiting(g)' = {}
    <3>1. CASE g \in ready \ {f}
      BY <1>4, <1>5, <1>10, <3>1
    <3>2. CASE g \in Functions /\ <<f, g>> \in selected /\ indegree'[g] = 0
      BY <1>11, <2>1, <3>2
    <3> QED BY <2>3, <3>1, <3>2
  <2>4. ASSUME NEW g \in Periodic \ Placed', Waiting(g)' = {} PROVE g \in ready'
    <3>1. CASE f \in Waiting(g)
      <4>1. g \in Functions /\ <<f, g>> \in selected
        BY <2>2, <3>1 DEF Waiting
      <4>2. indegree'[g] = 0
        BY <2>1, <2>4, <4>1
      <4> QED BY <4>1, <4>2
    <3>2. CASE f \notin Waiting(g)
      <4>1. Waiting(g) = {} /\ g \notin Placed /\ g # f
        BY <1>4, <1>5, <2>4, <3>2
      <4> QED BY <1>10, <2>4, <4>1
    <3> QED BY <3>1, <3>2
  <2> QED BY <1>2, <2>3, <2>4
<1>13. TypeOK'
  BY <1>1, <1>2, <1>3, <1>9, <1>12 DEF IInv, TypeOK, Phases
<1>14. CountingInv'
  BY <1>7, <1>12 DEF CountingInv
<1>15. LastBeforeReady'
  <2> SUFFICES ASSUME NEW g \in ready'
               PROVE  <<f, g>> \in selected \/ AssumedBefore(f, g)'
    BY <1>1, <1>3 DEF LastBeforeReady
  <2> QED BY <1>1 DEF AssumedBefore
<1>16. OrderInv'
  <2>1. (\A i, j \in 1..Len(ordered) : i # j => ordered[i] # ordered[j])'
    <3>1. \A i \in 1..n : ordered[i] # f
      BY <1>2 DEF Placed
    <3>2. \A i, j \in 1..n : i # j => ordered[i] # ordered[j]
      BY DEF IInv, OrderInv
    <3> QED BY <1>2, <1>3, <3>1, <3>2
  <2>2. (\A i \in 1..Len(ordered) : \A g \in Functions :
          <<g, ordered[i]>> \in selected => \E j \in 1..(i - 1) : ordered[j] = g)'
    <3> SUFFICES ASSUME NEW i \in 1..(n + 1), NEW g \in Functions,
                        <<g, ordered'[i]>> \in selected
                 PROVE  \E j \in 1..(i - 1) : ordered'[j] = g
      BY <1>1, <1>3
    <3>1. CASE i = n + 1
      <4>1. g \in Placed
        BY <1>2, <1>3, <3>1 DEF Waiting
      <4>2. PICK j \in 1..n : ordered[j] = g
        BY <4>1 DEF Placed
      <4> QED BY <1>2, <1>3, <3>1, <4>2
    <3>2. CASE i \in 1..n
      <4>1. PICK j \in 1..(i - 1) : ordered[j] = g
        BY <1>3, <3>2 DEF IInv, OrderInv
      <4>2. j \in 1..n
        BY <1>2, <3>2
      <4> QED BY <1>3, <4>1, <4>2
    <3> QED BY <1>2, <3>1, <3>2
  <2>3. NeighboursFollowTiePolicy'
    <3> SUFFICES ASSUME NEW i \in 1..n
                 PROVE  \/ <<ordered'[i], ordered'[i + 1]>> \in selected
                        \/ AssumedBefore(ordered'[i], ordered'[i + 1])
      BY <1>1, <1>2, <1>3, SMTT(30) DEF NeighboursFollowTiePolicy, AssumedBefore
    <3>1. CASE i = n
      <4>1. /\ ordered # <<>> /\ ordered'[i] = ordered[n] /\ ordered'[i + 1] = f
        BY <1>2, <1>3, <3>1
      <4> QED BY <1>1, <4>1 DEF IInv, LastBeforeReady
    <3>2. CASE i \in 1..(n - 1)
      <4>1. /\ ordered'[i] = ordered[i] /\ ordered'[i + 1] = ordered[i + 1]
        BY <1>2, <1>3, <3>2
      <4> QED BY <3>2, <4>1 DEF IInv, OrderInv, NeighboursFollowTiePolicy
    <3>3. i = n \/ i \in 1..(n - 1)
      BY <1>2
    <3> QED BY <3>1, <3>2, <3>3
  <2> QED BY <2>1, <2>2, <2>3 DEF OrderInv
<1> QED BY <1>13, <1>14, <1>15, <1>16

LEMMA FinishStep ==
  ASSUME IInv, FinishOrdering
  PROVE  DoneInv'
<1>1. Placed = Periodic /\ Len(ordered) = Cardinality(Periodic)
  BY AllPlaced, OrderedCounts DEF FinishOrdering
<1>2. UNCHANGED <<rate, selected, ordered>> /\ phase' = "done"
  BY <1>1 DEF FinishOrdering, inputVars, selectVars, orderVars
<1>3. ordered \in Seq(Periodic) /\ Len(ordered) \in Nat
  BY DEF IInv, TypeOK
<1>4. ASSUME NEW i \in 1..Len(ordered), NEW j \in 1..Len(ordered),
             <<ordered[i], ordered[j]>> \in selected
      PROVE  i < j
  <2>1. ordered[i] \in Functions
    BY <1>3 DEF Periodic
  <2>2. PICK k \in 1..(j - 1) : ordered[k] = ordered[i]
    BY <1>4, <2>1 DEF IInv, OrderInv
  <2>3. k \in 1..Len(ordered)
    BY <1>3, <2>2
  <2>4. k = i
    BY <2>2, <2>3 DEF IInv, OrderInv
  <2> QED BY <1>3, <2>2, <2>4
<1> QED BY <1>1, <1>2, <1>4 DEF DoneInv, PlanHonoursSelection, Placed, Periodic

LEMMA StepPreserves ==
  ASSUME IInv, [Next]_vars
  PROVE  IInv'
<1>1. CASE CheckRates
  <2> USE DEF CheckRates, inputVars, ioVars, selectVars, orderVars
  <2>1. TypeOK' /\ EarlyInv'
    BY <1>1 DEF IInv, TypeOK, EarlyInv, Phases, Errors, Periodic
  <2>2. SelectionInv' /\ OrderInv'
    BY <1>1, SelectionFrame, OrderFrame DEF IInv
  <2>3. CountingInv' /\ LastBeforeReady' /\ DoneInv'
    BY <1>1 DEF CountingInv, LastBeforeReady, DoneInv, PlanHonoursSelection
  <2> QED BY <2>1, <2>2, <2>3 DEF IInv
<1>2. ASSUME NEW f \in Functions, NEW r \in SUBSET Channels,
             NEW w \in SUBSET Channels, FoldRoot(f, r, w)
      PROVE  IInv'
  <2> USE DEF FoldRoot, inputVars, selectVars, orderVars
  <2>1. TypeOK' /\ EarlyInv'
    BY <1>2 DEF IInv, TypeOK, EarlyInv, Phases, Periodic
  <2>2. SelectionInv' /\ OrderInv'
    BY <1>2, SelectionFrame, OrderFrame DEF IInv
  <2>3. CountingInv' /\ LastBeforeReady' /\ DoneInv'
    BY <1>2 DEF CountingInv, LastBeforeReady, DoneInv, PlanHonoursSelection
  <2> QED BY <2>1, <2>2, <2>3 DEF IInv
<1>3. CASE FoldFails \/ RejectWriters
  <2> USE DEF FoldFails, RejectWriters, inputVars, ioVars, selectVars, orderVars
  <2>1. TypeOK' /\ EarlyInv'
    BY <1>3 DEF IInv, TypeOK, EarlyInv, Phases, Errors, Periodic
  <2>2. SelectionInv' /\ OrderInv'
    BY <1>3, SelectionFrame, OrderFrame DEF IInv
  <2>3. CountingInv' /\ LastBeforeReady' /\ DoneInv'
    BY <1>3 DEF CountingInv, LastBeforeReady, DoneInv, PlanHonoursSelection
  <2> QED BY <2>1, <2>2, <2>3 DEF IInv
<1>4. CASE CollectDependencies
  <2> USE DEF CollectDependencies, inputVars, ioVars, orderVars
  <2>1. selected = {} /\ ordered = <<>>
    BY <1>4 DEF IInv, TypeOK, EarlyInv
  <2>2. TypeOK' /\ EarlyInv'
    BY <1>4, <2>1 DEF IInv, TypeOK, EarlyInv, Phases, Periodic, Dependencies
  <2>3. SelectionInv'
    BY <1>4, <2>1
    DEF SelectionInv, Orderable, DroppedClosesCycle, DroppedIsFeedback
  <2>4. OrderInv'
    BY <1>4, <2>1, OrderFrame DEF IInv
  <2>5. CountingInv' /\ LastBeforeReady' /\ DoneInv'
    BY <1>4 DEF CountingInv, LastBeforeReady, DoneInv, PlanHonoursSelection
  <2> QED BY <2>2, <2>3, <2>4, <2>5 DEF IInv
<1>5. ASSUME NEW d \in Edges, ConsiderDependency(d)
      PROVE  IInv'
  <2>1. SelectionInv'
    BY <1>5, ConsiderStep
  <2> USE DEF ConsiderDependency, inputVars, ioVars, orderVars
  <2>2. TypeOK' /\ EarlyInv'
    BY <1>5 DEF IInv, TypeOK, EarlyInv, Phases, Periodic
  <2>3. OrderInv'
    BY <1>5 DEF IInv, EarlyInv, OrderInv, NeighboursFollowTiePolicy
  <2>4. CountingInv' /\ LastBeforeReady' /\ DoneInv'
    BY <1>5 DEF CountingInv, LastBeforeReady, DoneInv, PlanHonoursSelection
  <2> QED BY <2>1, <2>2, <2>3, <2>4 DEF IInv
<1>6. CASE StartOrdering
  <2>1. TypeOK' /\ CountingInv' /\ LastBeforeReady'
    BY <1>6, StartOrderingStep
  <2> USE DEF StartOrdering, inputVars, ioVars, selectVars
  <2>2. SelectionInv' /\ OrderInv'
    BY <1>6, SelectionFrame, OrderFrame DEF IInv
  <2>3. EarlyInv' /\ DoneInv'
    BY <1>6 DEF EarlyInv, DoneInv, PlanHonoursSelection
  <2> QED BY <2>1, <2>2, <2>3 DEF IInv
<1>7. ASSUME NEW f \in Functions, PlaceNext(f)
      PROVE  IInv'
  <2>1. TypeOK' /\ CountingInv' /\ LastBeforeReady' /\ OrderInv'
    BY <1>7, PlaceStep
  <2> USE DEF PlaceNext, inputVars, ioVars, selectVars
  <2>2. SelectionInv'
    BY <1>7, SelectionFrame DEF IInv
  <2>3. EarlyInv' /\ DoneInv'
    BY <1>7 DEF EarlyInv, DoneInv, PlanHonoursSelection
  <2> QED BY <2>1, <2>2, <2>3 DEF IInv
<1>8. CASE FinishOrdering
  <2>1. DoneInv'
    BY <1>8, FinishStep
  <2> USE DEF FinishOrdering, inputVars, ioVars, selectVars, orderVars
  <2>2. TypeOK' /\ EarlyInv'
    BY <1>8 DEF IInv, TypeOK, EarlyInv, Phases, Errors, Periodic
  <2>3. SelectionInv' /\ OrderInv'
    BY <1>8, SelectionFrame, OrderFrame DEF IInv
  <2>4. CountingInv' /\ LastBeforeReady'
    BY <1>8 DEF CountingInv, LastBeforeReady
  <2> QED BY <2>1, <2>2, <2>3, <2>4 DEF IInv
<1>9. CASE UNCHANGED vars
  <2>1. SelectionInv' /\ OrderInv'
    BY <1>9, SelectionFrame, OrderFrame DEF IInv, vars
  <2>2. TypeOK' /\ EarlyInv'
    BY <1>9 DEF IInv, TypeOK, EarlyInv, Periodic, vars
  <2>3. CountingInv'
    BY <1>9 DEF IInv, CountingInv, Waiting, Placed, Periodic, vars
  <2>4. LastBeforeReady'
    BY <1>9 DEF IInv, LastBeforeReady, AssumedBefore, vars
  <2>5. DoneInv'
    BY <1>9 DEF IInv, DoneInv, PlanHonoursSelection, Placed, Periodic, vars
  <2> QED BY <2>1, <2>2, <2>3, <2>4, <2>5 DEF IInv
<1> QED BY <1>1, <1>2, <1>3, <1>4, <1>5, <1>6, <1>7, <1>8, <1>9 DEF Next

-----------------------------------------------------------------------------
LEMMA Invariance == Safety => []IInv
<1>1. Init => IInv
  BY InitEstablishes
<1>2. IInv /\ [Next]_vars => IInv'
  BY StepPreserves
<1> QED BY <1>1, <1>2, PTL DEF Safety

(* The planner's state always has the type of the code's: in particular no *)
(* indegree is ever decremented below zero.                                *)
THEOREM TypeCorrect == Spec => []TypeOK
BY Invariance, PTL DEF Spec, IInv

(* The selected dependencies are a maximal acyclic subset: any dependency  *)
(* that was dropped closes a cycle with them.                              *)
THEOREM SelectionIsMaximal == Spec => []DroppedClosesCycle
BY Invariance, PTL DEF Spec, IInv, SelectionInv

(* They are acyclic: every set of functions has one to start with. *)
THEOREM SelectionIsOrderable == Spec => []Orderable(selected)
BY Invariance, PTL DEF Spec, IInv, SelectionInv

(* Only dependencies against the tie policy are ever dropped. *)
THEOREM OnlyFeedbackIsDropped == Spec => []DroppedIsFeedback
BY Invariance, PTL DEF Spec, IInv, SelectionInv

(* Kahn's algorithm never gets stuck: the dependency-cycle error cannot    *)
(* occur, and a finished order is a permutation of the periodic functions  *)
(* that puts each selected writer before its reader.                       *)
THEOREM PlanIsSound == Spec => []PlanHonoursSelection
BY Invariance, PTL DEF Spec, IInv, DoneInv

(* Neighbours that no selected dependency relates follow the tie policy.   *)
THEOREM TiesFollowPolicy == Spec => []NeighboursFollowTiePolicy
BY Invariance, PTL DEF Spec, IInv, OrderInv

-----------------------------------------------------------------------------
(* The planner with its call walk.                                         *)

WalkTypes ==
  /\ calls \in [Functions -> SUBSET (Functions \cup Unscripted)]
  /\ directReads \in [Functions -> SUBSET Channels]
  /\ directWrites \in [Functions -> SUBSET Channels]
  /\ foldReads \in [Functions -> SUBSET Channels]
  /\ foldWrites \in [Functions -> SUBSET Channels]
  /\ stack \in Seq(Frame)

LEMMA TopIsFrame ==
  ASSUME WalkTypes, stack # <<>>
  PROVE  /\ Top \in Frame
         /\ Below \in Seq(Frame)
<1>1. stack \in Seq(Frame) /\ Len(stack) \in Nat /\ Len(stack) # 0
  BY DEF WalkTypes
<1>2. Top \in Frame
  BY <1>1 DEF Top
<1>3. Below \in Seq(Frame)
  BY <1>1 DEF Below
<1> QED BY <1>2, <1>3

LEMMA PrefixOf ==
  ASSUME NEW S, NEW s \in Seq(S), NEW n \in Nat, n <= Len(s)
  PROVE  Len(SubSeq(s, 1, n)) = n /\ \A i \in 1..n : SubSeq(s, 1, n)[i] = s[i]
<1>1. \A i \in 1..n : s[i] \in S
  OBVIOUS
<1>2. Len(SubSeq(s, 1, n)) = IF 1 <= n THEN n - 1 + 1 ELSE 0
  BY <1>1, SubSeqProperties
<1>3. \A i \in 1..(n - 1 + 1) : SubSeq(s, 1, n)[i] = s[1 + i - 1]
  BY <1>1, SubSeqProperties
<1> QED BY <1>2, <1>3

LEMMA BelowIsPrefix ==
  ASSUME WalkTypes, stack # <<>>
  PROVE  /\ Len(Below) = Len(stack) - 1
         /\ \A i \in 1..(Len(stack) - 1) : Below[i] = stack[i]
<1>1. stack \in Seq(Frame) /\ Len(stack) - 1 \in Nat /\ Len(stack) - 1 <= Len(stack)
  BY DEF WalkTypes
<1> QED BY <1>1, PrefixOf DEF Below

LEMMA NewFrame ==
  ASSUME WalkTypes, NEW f \in Functions
  PROVE  FrameFor(f) \in Frame
BY DEF WalkTypes, FrameFor, Frame

LEMMA WalkStep ==
  ASSUME WalkTypes, [PlannerNext]_pvars
  PROVE  WalkTypes'
<1>1. ASSUME NEW f \in Functions, BeginRoot(f) PROVE WalkTypes'
  <2>1. FrameFor(f) \in Frame
    BY NewFrame
  <2>2. stack' \in Seq(Frame)
    BY <1>1, <2>1 DEF BeginRoot, EnterRoot
  <2> QED BY <1>1, <2>2 DEF BeginRoot, EnterRoot, WalkTypes, directVars
<1>2. ASSUME NEW c \in Functions, EnterCallee(c) PROVE WalkTypes'
  <2>1. FrameFor(c) \in Frame
    BY NewFrame
  <2>2. stack' \in Seq(Frame)
    BY <1>2, <2>1 DEF EnterCallee, WalkTypes
  <2> QED BY <1>2, <2>2 DEF EnterCallee, WalkTypes, directVars
<1>3. ASSUME NEW c \in Functions, MergeCallee(c) PROVE WalkTypes'
  <2> DEFINE merged == [Top EXCEPT !.todo = @ \ {c},
                                   !.reads = @ \cup foldReads[c],
                                   !.writes = @ \cup foldWrites[c]]
  <2>1. Top \in Frame /\ Below \in Seq(Frame)
    BY <1>3, TopIsFrame DEF MergeCallee, IsNextCallee
  <2>2. foldReads[c] \subseteq Channels /\ foldWrites[c] \subseteq Channels
    BY DEF WalkTypes
  <2>3. merged \in Frame
    BY <2>1, <2>2 DEF Frame
  <2>4. stack' = Append(Below, merged)
    BY <1>3 DEF MergeCallee
  <2>5. stack' \in Seq(Frame)
    BY <2>1, <2>3, <2>4
  <2> QED BY <1>3, <2>5 DEF MergeCallee, WalkTypes, directVars
<1>4. CASE Leave
  <2>1. Top \in Frame /\ Below \in Seq(Frame)
    BY <1>4, TopIsFrame DEF Leave
  <2>2. Top.reads \subseteq Channels /\ Top.writes \subseteq Channels
    BY <2>1 DEF Frame
  <2> QED BY <1>4, <2>1, <2>2 DEF Leave, WalkTypes, directVars
<1>5. CASE RefuseFold
  BY <1>5 DEF RefuseFold, WalkTypes, directVars
<1>6. CASE UNCHANGED <<directVars, foldVars>>
  BY <1>6 DEF WalkTypes, directVars, foldVars
<1> QED BY <1>1, <1>2, <1>3, <1>4, <1>5, <1>6
        DEF PlannerNext, FinishRoot, FoldCallee, PlanStep, pvars

(* Every step of the planner is a step of Schedule, or leaves its          *)
(* variables alone while the walk moves.                                   *)
LEMMA StepImplements ==
  ASSUME WalkTypes, [PlannerNext]_pvars
  PROVE  [Next]_vars
<1>1. ASSUME NEW f \in Functions, FinishRoot(f) PROVE Next
  <2>1. foldReads[f] \in SUBSET Channels /\ foldWrites[f] \in SUBSET Channels
    BY DEF WalkTypes
  <2> QED BY <1>1, <2>1 DEF FinishRoot, Next
<1>2. CASE RefuseFold
  BY <1>2 DEF RefuseFold, Next
<1>3. CASE PlanStep
  BY <1>3 DEF PlanStep, Next
<1>4. CASE UNCHANGED vars
  BY <1>4
<1> QED BY <1>1, <1>2, <1>3, <1>4 DEF PlannerNext, BeginRoot, FoldCallee, pvars

(* The planner with its call walk implements the planner that is given the *)
(* effective I/O.                                                          *)
THEOREM PlannerImplementsSchedule == PlannerSpec => Safety
<1>1. PlannerInit => Init /\ WalkTypes
  BY DEF PlannerInit, CallFoldInit, WalkTypes
<1>2. WalkTypes /\ [PlannerNext]_pvars => WalkTypes'
  BY WalkStep
<1>3. WalkTypes /\ [PlannerNext]_pvars => [Next]_vars
  BY StepImplements
<1> QED BY <1>1, <1>2, <1>3, PTL DEF PlannerSpec, Safety

(* So a plan built from any loaded project orders every periodic function  *)
(* once, honours every selected dependency, and never fails on a cycle.    *)
THEOREM BuiltPlanIsSound == PlannerSpec => []PlanHonoursSelection
BY PlannerImplementsSchedule, Invariance, PTL DEF IInv, DoneInv

-----------------------------------------------------------------------------
(* The walk itself: a function is never active twice.                      *)

ActiveOnce == \A i, j \in 1..Len(stack) : i # j => stack[i].fn # stack[j].fn

(* A frame for a function that is not active can be put on top.            *)
LEMMA Entered ==
  ASSUME WalkTypes, ActiveOnce, NEW f \in Functions \ Active,
         stack' = Append(stack, FrameFor(f))
  PROVE  ActiveOnce'
<1>1. stack \in Seq(Frame) /\ Len(stack) \in Nat
  BY DEF WalkTypes
<1>2. FrameFor(f).fn = f
  BY DEF FrameFor
<1>3. FrameFor(f) \in Frame
  BY NewFrame
<1>4. /\ Len(stack') = Len(stack) + 1
      /\ \A i \in 1..Len(stack) : stack'[i] = stack[i]
      /\ stack'[Len(stack) + 1] = FrameFor(f)
  BY <1>1, <1>3
<1>5. \A i \in 1..Len(stack) : stack[i].fn # f
  BY DEF Active
<1> QED BY <1>1, <1>2, <1>4, <1>5 DEF ActiveOnce

(* Nor do merging into the top frame and leaving it make two of one.       *)
LEMMA OnceKept ==
  ASSUME WalkTypes, ActiveOnce, [PlannerNext]_pvars
  PROVE  ActiveOnce'
<1>0. stack \in Seq(Frame) /\ Len(stack) \in Nat
  BY DEF WalkTypes
<1>1. ASSUME NEW f \in Functions, BeginRoot(f) PROVE ActiveOnce'
  BY <1>1 DEF BeginRoot, EnterRoot, ActiveOnce
<1>2. ASSUME NEW c \in Functions, EnterCallee(c) PROVE ActiveOnce'
  BY <1>2, Entered DEF EnterCallee, Enterable
<1>3. ASSUME NEW c \in Functions, MergeCallee(c) PROVE ActiveOnce'
  <2> DEFINE merged == [Top EXCEPT !.todo = @ \ {c},
                                   !.reads = @ \cup foldReads[c],
                                   !.writes = @ \cup foldWrites[c]]
  <2>1. Top \in Frame /\ Below \in Seq(Frame) /\ stack # <<>>
    BY <1>3, TopIsFrame DEF MergeCallee, IsNextCallee
  <2>2. merged.fn = Top.fn
    BY <2>1 DEF Frame
  <2>3. /\ Len(Below) = Len(stack) - 1
        /\ \A i \in 1..(Len(stack) - 1) : Below[i] = stack[i]
    BY <2>1, BelowIsPrefix
  <2>4. stack' = Append(Below, merged)
    BY <1>3 DEF MergeCallee
  <2>5. /\ Len(stack') = Len(stack)
        /\ \A i \in 1..Len(stack) : stack'[i].fn = stack[i].fn
    <3> HIDE DEF merged
    <3> QED BY <1>0, <2>1, <2>2, <2>3, <2>4, SMTT(30) DEF Top
  <2> QED BY <2>5 DEF ActiveOnce
<1>4. CASE Leave
  <2>1. stack # <<>> /\ stack' = Below
    BY <1>4 DEF Leave
  <2>2. /\ Len(stack') = Len(stack) - 1
        /\ \A i \in 1..(Len(stack) - 1) : stack'[i] = stack[i]
    BY <2>1, BelowIsPrefix
  <2> QED BY <1>0, <2>2 DEF ActiveOnce
<1>5. CASE RefuseFold
  BY <1>5 DEF RefuseFold, ActiveOnce
<1>6. CASE UNCHANGED foldVars
  BY <1>6 DEF ActiveOnce, foldVars
<1> QED BY <1>1, <1>2, <1>3, <1>4, <1>5, <1>6
        DEF PlannerNext, FinishRoot, FoldCallee, PlanStep, pvars

LEMMA CachedAreFunctions ==
  ASSUME WalkTypes, cached \subseteq Functions, [PlannerNext]_pvars
  PROVE  cached' \subseteq Functions
<1>1. CASE Leave
  <2>1. Top \in Frame
    BY <1>1, TopIsFrame DEF Leave
  <2> QED BY <1>1, <2>1 DEF Leave, Frame
<1>2. CASE cached' = cached
  BY <1>2
<1> QED BY <1>1, <1>2
        DEF PlannerNext, BeginRoot, EnterRoot, FinishRoot, FoldCallee, EnterCallee,
            MergeCallee, RefuseFold, PlanStep, pvars, foldVars

(* The planner's state has its type, and a function is active once at most *)
(* whatever calls what: the depth of the recursion is bounded by the       *)
(* number of functions, also in a project full of call cycles.             *)
THEOREM PlannerTypeCorrect == PlannerSpec => []PlannerTypeOK
<1> DEFINE Walk == WalkTypes /\ cached \subseteq Functions /\ ActiveOnce
<1>1. PlannerInit => Walk
  BY DEF PlannerInit, CallFoldInit, WalkTypes, ActiveOnce
<1>2. Walk /\ [PlannerNext]_pvars => Walk'
  BY WalkStep, OnceKept, CachedAreFunctions
<1>3. Walk => CallFoldTypeOK
  BY DEF WalkTypes, ActiveOnce, CallFoldTypeOK
<1>4. PlannerSpec => []Walk
  BY <1>1, <1>2, PTL DEF PlannerSpec
<1>5. PlannerSpec => []TypeOK
  BY PlannerImplementsSchedule, Invariance, PTL DEF IInv
<1>6. TypeOK /\ Walk => PlannerTypeOK
  BY <1>3 DEF PlannerTypeOK
<1> HIDE DEF Walk
<1> QED BY <1>4, <1>5, <1>6, PTL
-----------------------------------------------------------------------------
(* What functions reach by calls. *)

LEMMA ReachesItself ==
  ASSUME NEW f \in Functions
  PROVE  f \in Reachable(f)
BY DEF Reachable, PathExists

LEMMA ReachesOn ==
  ASSUME NEW f \in Functions, NEW g \in Reachable(f), NEW h \in calls[g] \cap Functions
  PROVE  h \in Reachable(f)
<1>1. <<g, h>> \in CallEdges
  BY DEF CallEdges, Reachable
<1> QED BY <1>1 DEF Reachable, PathExists, ClosedUnder

LEMMA CalleesReachLess ==
  ASSUME NEW f \in Functions, NEW c \in calls[f] \cap Functions
  PROVE  Reachable(c) \subseteq Reachable(f)
<1>1. <<f, c>> \in CallEdges
  BY DEF CallEdges
<1> SUFFICES ASSUME NEW g \in Reachable(c), NEW S \in SUBSET Functions,
                    f \in S, ClosedUnder(CallEdges, S)
             PROVE  g \in S
  BY DEF Reachable, PathExists
<1>2. c \in S
  BY <1>1 DEF ClosedUnder
<1> QED BY <1>2 DEF Reachable, PathExists

LEMMA ReachSplits ==
  ASSUME NEW f \in Functions, calls[f] \subseteq Functions
  PROVE  Reachable(f) = {f} \cup UNION {Reachable(c) : c \in calls[f]}
<1> DEFINE S == {f} \cup UNION {Reachable(c) : c \in calls[f]}
<1>1. S \in SUBSET Functions
  BY DEF Reachable
<1>2. ASSUME NEW e \in CallEdges, e[1] \in S PROVE e[2] \in S
  <2>1. e[1] \in Functions /\ e[2] \in calls[e[1]] \cap Functions
    BY DEF CallEdges
  <2>2. CASE e[1] = f
    BY <2>1, <2>2, ReachesItself
  <2>3. CASE \E c \in calls[f] : e[1] \in Reachable(c)
    BY <2>1, <2>3, ReachesOn
  <2> QED BY <1>2, <2>2, <2>3
<1>3. Reachable(f) \subseteq S
  BY <1>1, <1>2 DEF Reachable, PathExists, ClosedUnder
<1>4. S \subseteq Reachable(f)
  BY ReachesItself, CalleesReachLess
<1> QED BY <1>3, <1>4

LEMMA ReachStaysInside ==
  ASSUME NEW S \in SUBSET Functions, \A g \in S : calls[g] \subseteq S, NEW f \in S
  PROVE  Reachable(f) \subseteq S
<1>1. ClosedUnder(CallEdges, S)
  BY DEF ClosedUnder, CallEdges
<1> QED BY <1>1 DEF Reachable, PathExists

LEMMA SameReach ==
  ASSUME calls' = calls
  PROVE  \A f : Reachable(f)' = Reachable(f)
BY DEF Reachable, CallEdges

-----------------------------------------------------------------------------
(* What the walk has found out.  A finished function calls only finished   *)
(* ones, so the finished functions are closed under calls and none of them *)
(* reaches one that is still active; its fold is that of everything it     *)
(* reaches.  A frame has folded the callees it is through with, and every  *)
(* frame above it belongs to a function it reaches.                        *)
Finished(g) ==
  /\ g \in Functions /\ g \notin incomplete
  /\ calls[g] \subseteq cached
  /\ \A h \in calls[g] : g \notin Reachable(h)
  /\ foldReads[g] = UNION {directReads[h] : h \in Reachable(g)}
  /\ foldWrites[g] = UNION {directWrites[h] : h \in Reachable(g)}

CallReach == {e \in Functions \X Functions : e[2] \in Reachable(e[1])}

Frames == {stack[i] : i \in 1..Len(stack)}

Through(frame) == calls[frame.fn] \ frame.todo

FrameInv(frame) ==
  /\ frame.fn \notin cached \cup incomplete
  /\ frame.todo \subseteq calls[frame.fn]
  /\ Through(frame) \subseteq cached
  /\ frame.reads = directReads[frame.fn] \cup UNION {foldReads[c] : c \in Through(frame)}
  /\ frame.writes = directWrites[frame.fn] \cup UNION {foldWrites[c] : c \in Through(frame)}

StackInv ==
  /\ \A frame \in Frames : FrameInv(frame)
  /\ \A i, j \in 1..Len(stack) : i <= j => <<stack[i].fn, stack[j].fn>> \in CallReach
  /\ stack # <<>> => stack[1].fn \in Periodic

FoldedInv ==
  \A f \in folded : f \in cached /\ reads[f] = foldReads[f] /\ writes[f] = foldWrites[f]

FoldInv ==
  /\ \A g \in cached : Finished(g)
  /\ StackInv
  /\ FoldedInv
  /\ phase = "fold error" => \E f \in Periodic : Unanalysable(f)

(* Finished functions are analysable, and stay so. *)
LEMMA FinishedIsAnalysable ==
  ASSUME FoldInv, NEW f \in cached
  PROVE  ~Unanalysable(f)
<1>1. cached \in SUBSET Functions /\ \A g \in cached : calls[g] \subseteq cached
  BY DEF FoldInv, Finished
<1>2. Reachable(f) \subseteq cached
  BY <1>1, ReachStaysInside
<1>3. ASSUME NEW g \in Reachable(f)
      PROVE  g \notin incomplete /\ calls[g] \cap Unscripted = {}
             /\ \A h \in calls[g] \cap Functions : g \notin Reachable(h)
  <2>1. Finished(g)
    BY <1>2 DEF FoldInv
  <2> QED BY <1>1, <1>2, <2>1, CallFoldAssumption DEF Finished
<1> QED BY <1>3 DEF Unanalysable

LEMMA FoldIsExact ==
  ASSUME FoldInv
  PROVE  FoldIsReachableIO /\ RefusalIsJustified
<1>1. FoldIsReachableIO
  BY DEF FoldInv, FoldedInv, Finished, FoldIsReachableIO
<1>2. RefusalIsJustified
  BY FinishedIsAnalysable DEF FoldInv, FoldedInv, RefusalIsJustified
<1> QED BY <1>1, <1>2

-----------------------------------------------------------------------------
(* The cache only grows, and what is in it stays as it is. *)
CacheGrows ==
  /\ cached \subseteq cached'
  /\ \A c \in cached : foldReads'[c] = foldReads[c] /\ foldWrites'[c] = foldWrites[c]

LEMMA SameCallReach ==
  ASSUME calls' = calls
  PROVE  CallReach' = CallReach
BY SameReach DEF CallReach

LEMMA FinishedStays ==
  ASSUME UNCHANGED directVars, CacheGrows, NEW g \in cached, Finished(g)
  PROVE  Finished(g)'
<1>1. \A h : Reachable(h)' = Reachable(h)
  BY SameReach DEF directVars
<1> QED BY <1>1 DEF Finished, directVars, CacheGrows

LEMMA FrameStays ==
  ASSUME UNCHANGED directVars, CacheGrows, NEW frame, FrameInv(frame), frame.fn \notin cached'
  PROVE  FrameInv(frame)'
BY DEF FrameInv, Through, directVars, CacheGrows

LEMMA UnanalysableStays ==
  ASSUME UNCHANGED directVars
  PROVE  \A f : Unanalysable(f)' = Unanalysable(f)
<1>1. \A f : Reachable(f)' = Reachable(f)
  BY SameReach DEF directVars
<1> QED BY <1>1 DEF Unanalysable, directVars

LEMMA EmptyFrame ==
  ASSUME NEW f \in Functions, f \notin cached \cup incomplete
  PROVE  FrameInv(FrameFor(f))
BY DEF FrameInv, FrameFor, Through

LEMMA TopIsWalked ==
  ASSUME WalkTypes, StackInv, stack # <<>>
  PROVE  /\ Top \in Frames /\ FrameInv(Top) /\ Top.fn \in Functions
         /\ Len(stack) \in Nat \ {0}
<1>1. Len(stack) \in Nat \ {0} /\ Top = stack[Len(stack)]
  BY DEF WalkTypes, Top
<1>2. Top \in Frames
  BY <1>1 DEF Frames
<1>3. Top.fn \in Functions
  BY TopIsFrame DEF Frame
<1> QED BY <1>1, <1>2, <1>3 DEF StackInv

LEMMA StepGrowsCache ==
  ASSUME WalkTypes, StackInv, [PlannerNext]_pvars
  PROVE  UNCHANGED directVars /\ rate' = rate /\ CacheGrows
<1>1. CASE Leave
  <2>1. FrameInv(Top)
    BY <1>1, TopIsWalked DEF Leave
  <2>2. Top.fn \notin cached
    BY <2>1 DEF FrameInv
  <2>3. CacheGrows
    BY <1>1, <2>2 DEF Leave, CacheGrows, WalkTypes
  <2>4. UNCHANGED directVars
    BY <1>1 DEF Leave
  <2>5. rate' = rate
    BY <1>1 DEF Leave, PlannerNext, FoldCallee, BeginRoot, EnterRoot, FinishRoot, FoldRoot,
                RefuseFold, FoldFails, PlanStep, CheckRates, CollectDependencies, RejectWriters,
                ConsiderDependency, StartOrdering, PlaceNext, FinishOrdering, inputVars, vars, pvars
  <2> QED BY <2>3, <2>4, <2>5
<1>2. CASE UNCHANGED <<cached, foldReads, foldWrites>>
  <2>1. CacheGrows
    BY <1>2 DEF CacheGrows
  <2>2. rate' = rate
    BY DEF PlannerNext, FoldCallee, BeginRoot, FinishRoot, FoldRoot,
           RefuseFold, FoldFails, PlanStep, CheckRates, CollectDependencies, RejectWriters,
           ConsiderDependency, StartOrdering, PlaceNext, FinishOrdering, inputVars, vars, pvars
  <2>3. UNCHANGED directVars
    BY DEF PlannerNext, FoldCallee, BeginRoot, EnterRoot, EnterCallee, MergeCallee, Leave, FinishRoot,
           RefuseFold, PlanStep, pvars
  <2> QED BY <2>1, <2>2, <2>3
<1> QED BY <1>1, <1>2
        DEF PlannerNext, FoldCallee, BeginRoot, EnterRoot, EnterCallee, MergeCallee, FinishRoot,
            RefuseFold, PlanStep, foldVars, pvars

(* A root or a callee is entered with everything still to do. *)
LEMMA EnteringKeepsStack ==
  ASSUME WalkTypes, StackInv, NEW f \in Functions, Enterable(f),
         UNCHANGED <<directVars, cached, foldReads, foldWrites>>, rate' = rate,
         stack' = Append(stack, FrameFor(f)),
         IF stack = <<>> THEN f \in Periodic ELSE f \in calls[Top.fn]
  PROVE  StackInv'
<1>1. stack \in Seq(Frame) /\ Len(stack) \in Nat /\ FrameFor(f) \in Frame /\ FrameFor(f).fn = f
  BY NewFrame DEF WalkTypes, FrameFor
<1>2. /\ Len(stack') = Len(stack) + 1
      /\ \A i \in 1..Len(stack) : stack'[i] = stack[i]
      /\ stack'[Len(stack) + 1] = FrameFor(f)
  BY <1>1
<1>3. CacheGrows /\ UNCHANGED directVars
  BY DEF CacheGrows
<1>4. Frames' = Frames \cup {FrameFor(f)}
  BY <1>1, <1>2 DEF Frames
<1>5. ASSUME NEW frame \in Frames' PROVE FrameInv(frame)'
  <2>1. FrameInv(frame)
    BY <1>4, EmptyFrame DEF StackInv, Enterable
  <2>2. frame.fn \notin cached'
    BY <2>1 DEF FrameInv
  <2> QED BY <1>3, <2>1, <2>2, FrameStays
<1>6. CallReach' = CallReach
  BY SameCallReach DEF directVars
<1>7. ASSUME NEW i \in 1..Len(stack'), NEW j \in 1..Len(stack'), i <= j
      PROVE  <<stack'[i].fn, stack'[j].fn>> \in CallReach
  <2>1. CASE j \in 1..Len(stack)
    BY <1>2, <1>7, <2>1 DEF StackInv
  <2>2. CASE j = Len(stack) + 1 /\ i = j
    BY <1>1, <1>2, <2>2, ReachesItself DEF CallReach
  <2>3. CASE j = Len(stack) + 1 /\ i \in 1..Len(stack)
    <3>1. <<stack[i].fn, Top.fn>> \in CallReach
      BY <1>1, <2>3 DEF StackInv, Top
    <3>2. PICK g \in Functions : g = stack[i].fn /\ f \in Reachable(g)
      BY <1>1, <2>3, <3>1, ReachesOn DEF CallReach
    <3>3. <<g, f>> \in CallReach
      BY <3>2 DEF CallReach
    <3>4. stack'[i].fn = g /\ stack'[j].fn = f
      BY <1>1, <1>2, <2>3, <3>2
    <3> QED BY <3>3, <3>4
  <2>4. \/ j \in 1..Len(stack)
        \/ j = Len(stack) + 1 /\ (i = j \/ i \in 1..Len(stack))
    BY <1>1, <1>2, <1>7
  <2> QED BY <2>1, <2>2, <2>3, <2>4
<1>8. \A i, j \in 1..Len(stack') : i <= j => <<stack'[i].fn, stack'[j].fn>> \in CallReach'
  BY <1>6, <1>7
<1>9. stack'[1].fn \in Periodic'
  <2>1. CASE stack = <<>>
    BY <1>1, <1>2, <2>1 DEF Periodic
  <2>2. CASE stack # <<>>
    BY <1>1, <1>2, <2>2 DEF Periodic, StackInv
  <2> QED BY <2>1, <2>2
<1> QED BY <1>5, <1>8, <1>9 DEF StackInv

(* The top frame takes over what its callee has. *)
LEMMA MergingKeepsStack ==
  ASSUME WalkTypes, StackInv, NEW c \in Functions, MergeCallee(c), rate' = rate
  PROVE  StackInv'
<1> DEFINE merged == [Top EXCEPT !.todo = @ \ {c},
                                 !.reads = @ \cup foldReads[c],
                                 !.writes = @ \cup foldWrites[c]]
<1>1. /\ Top \in Frame /\ Below \in Seq(Frame) /\ FrameInv(Top)
      /\ stack # <<>> /\ c \in Top.todo /\ c \in cached
      /\ Len(stack) \in Nat \ {0}
  BY TopIsFrame, TopIsWalked DEF MergeCallee, IsNextCallee
<1>2. /\ merged.fn = Top.fn /\ merged.todo = Top.todo \ {c}
      /\ merged.reads = Top.reads \cup foldReads[c]
      /\ merged.writes = Top.writes \cup foldWrites[c]
  BY <1>1 DEF Frame
<1>3. UNCHANGED <<directVars, cached, foldReads, foldWrites>> /\ stack' = Append(Below, merged)
  BY DEF MergeCallee
<1> HIDE DEF merged
<1>4. Len(Below) = Len(stack) - 1 /\ \A i \in 1..(Len(stack) - 1) : Below[i] = stack[i]
  BY <1>1, BelowIsPrefix
<1>5. /\ Len(stack') = Len(stack) /\ stack'[Len(stack)] = merged
      /\ \A i \in 1..(Len(stack) - 1) : stack'[i] = stack[i]
  BY <1>1, <1>3, <1>4
<1>6. Frames' \subseteq Frames \cup {merged}
  <2> SUFFICES ASSUME NEW i \in 1..Len(stack') PROVE stack'[i] \in Frames \cup {merged}
    BY DEF Frames
  <2>1. i = Len(stack) \/ i \in 1..(Len(stack) - 1)
    BY <1>1, <1>5
  <2> QED BY <1>1, <1>5, <2>1 DEF Frames
<1>7. FrameInv(merged)
  <2>1. Through(merged) = Through(Top) \cup {c}
    BY <1>1, <1>2 DEF Through, FrameInv
  <2>2. UNION {foldReads[d] : d \in Through(merged)}
          = (UNION {foldReads[d] : d \in Through(Top)}) \cup foldReads[c]
    BY <2>1
  <2>3. UNION {foldWrites[d] : d \in Through(merged)}
          = (UNION {foldWrites[d] : d \in Through(Top)}) \cup foldWrites[c]
    BY <2>1
  <2>4. /\ merged.reads = directReads[merged.fn] \cup UNION {foldReads[d] : d \in Through(merged)}
        /\ merged.writes = directWrites[merged.fn] \cup UNION {foldWrites[d] : d \in Through(merged)}
    BY <1>1, <1>2, <2>2, <2>3 DEF FrameInv
  <2> QED BY <1>1, <1>2, <2>1, <2>4 DEF FrameInv
<1>8. ASSUME NEW frame \in Frames' PROVE FrameInv(frame)'
  <2>1. FrameInv(frame)
    BY <1>6, <1>7 DEF StackInv
  <2>2. frame.fn \notin cached' /\ CacheGrows
    BY <1>3, <2>1 DEF FrameInv, CacheGrows
  <2> QED BY <1>3, <2>1, <2>2, FrameStays
<1>9. \A i \in 1..Len(stack) : stack'[i].fn = stack[i].fn
  <2> SUFFICES ASSUME NEW i \in 1..Len(stack) PROVE stack'[i].fn = stack[i].fn
    OBVIOUS
  <2>1. i = Len(stack) \/ i \in 1..(Len(stack) - 1)
    BY <1>1
  <2> QED BY <1>2, <1>5, <2>1 DEF Top
<1>10. CallReach' = CallReach
  BY <1>3, SameCallReach DEF directVars
<1>11. \A i, j \in 1..Len(stack') : i <= j => <<stack'[i].fn, stack'[j].fn>> \in CallReach'
  BY <1>5, <1>9, <1>10 DEF StackInv
<1>12. stack'[1].fn \in Periodic'
  BY <1>1, <1>9 DEF StackInv, Periodic
<1> QED BY <1>8, <1>11, <1>12 DEF StackInv

(* Leaving a function keeps the frames below: none of them is its own. *)
LEMMA LeavingKeepsStack ==
  ASSUME WalkTypes, StackInv, ActiveOnce, CacheGrows, Leave, rate' = rate
  PROVE  StackInv'
<1>1. /\ stack # <<>> /\ Len(stack) \in Nat \ {0} /\ UNCHANGED directVars
      /\ stack' = Below /\ cached' = cached \cup {Top.fn}
  BY TopIsWalked DEF Leave
<1>2. /\ Len(stack') = Len(stack) - 1
      /\ \A i \in 1..(Len(stack) - 1) : stack'[i] = stack[i]
  BY <1>1, BelowIsPrefix
<1>3. ASSUME NEW frame \in Frames' PROVE FrameInv(frame)'
  <2>1. PICK i \in 1..(Len(stack) - 1) : frame = stack[i]
    BY <1>2 DEF Frames
  <2>2. i \in 1..Len(stack) /\ i # Len(stack) /\ Len(stack) \in 1..Len(stack)
    BY <1>1
  <2>3. frame.fn # Top.fn
    BY <2>1, <2>2 DEF ActiveOnce, Top
  <2>4. FrameInv(frame)
    BY <2>1, <2>2 DEF StackInv, Frames
  <2>5. frame.fn \notin cached'
    BY <1>1, <2>3, <2>4 DEF FrameInv
  <2> QED BY <1>1, <2>4, <2>5, FrameStays
<1>4. CallReach' = CallReach
  BY <1>1, SameCallReach DEF directVars
<1>5. \A i, j \in 1..Len(stack') : i <= j => <<stack'[i].fn, stack'[j].fn>> \in CallReach'
  BY <1>1, <1>2, <1>4 DEF StackInv
<1>6. stack' # <<>> => stack'[1].fn \in Periodic'
  <2>1. stack' # <<>> => Len(stack') # 0
    <3>1. stack' \in Seq(Frame)
      BY <1>1, TopIsFrame
    <3> QED BY <3>1
  <2> QED BY <1>1, <1>2, <2>1 DEF StackInv, Periodic
<1> QED BY <1>3, <1>5, <1>6 DEF StackInv

LEMMA StackKept ==
  ASSUME WalkTypes, StackInv, ActiveOnce, [PlannerNext]_pvars
  PROVE  StackInv'
<1>0. UNCHANGED directVars /\ rate' = rate /\ CacheGrows
  BY StepGrowsCache
<1>1. ASSUME NEW f \in Functions, BeginRoot(f) PROVE StackInv'
  <2>1. stack = <<>> /\ f \in Periodic /\ Enterable(f) /\ stack' = <<FrameFor(f)>>
    BY <1>1 DEF BeginRoot, EnterRoot, NextRoot
  <2>2. stack' = Append(stack, FrameFor(f))
    BY <2>1
  <2> QED BY <1>0, <1>1, <2>1, <2>2, EnteringKeepsStack DEF BeginRoot, EnterRoot
<1>2. ASSUME NEW c \in Functions, EnterCallee(c) PROVE StackInv'
  <2>1. stack # <<>> /\ Enterable(c) /\ c \in Top.todo
    BY <1>2 DEF EnterCallee, IsNextCallee
  <2>2. c \in calls[Top.fn]
    BY <2>1, TopIsWalked DEF FrameInv
  <2> QED BY <1>0, <1>2, <2>1, <2>2, EnteringKeepsStack DEF EnterCallee
<1>3. ASSUME NEW c \in Functions, MergeCallee(c) PROVE StackInv'
  BY <1>0, <1>3, MergingKeepsStack
<1>4. CASE Leave
  BY <1>0, <1>4, LeavingKeepsStack
<1>5. CASE RefuseFold
  <2>1. stack' = <<>>
    BY <1>5 DEF RefuseFold
  <2> QED BY <2>1 DEF StackInv, Frames
<1>6. CASE UNCHANGED foldVars
  <2>1. CallReach' = CallReach
    BY <1>0, SameCallReach DEF directVars
  <2>2. Frames' = Frames
    BY <1>6 DEF Frames, foldVars
  <2>3. \A frame : FrameInv(frame)' = FrameInv(frame)
    BY <1>0, <1>6 DEF FrameInv, Through, foldVars, directVars
  <2> QED BY <1>0, <1>6, <2>1, <2>2, <2>3 DEF StackInv, foldVars, Periodic
<1> QED BY <1>1, <1>2, <1>3, <1>4, <1>5, <1>6
        DEF PlannerNext, FinishRoot, FoldCallee, PlanStep, pvars

(* Leave is the only step that finishes a function, and the function then  *)
(* has folded all of its callees.                                          *)
LEMMA LeftIsFinished ==
  ASSUME WalkTypes, cached \subseteq Functions, \A g \in cached : Finished(g), StackInv,
         CacheGrows, Leave
  PROVE  \A g \in cached' : Finished(g)'
<1> SUFFICES ASSUME NEW g \in cached' PROVE Finished(g)'
  OBVIOUS
<1>0. PICK f \in Functions : f = Top.fn
  BY TopIsWalked DEF Leave
<1>1. /\ UNCHANGED directVars /\ cached' = cached \cup {f}
      /\ foldReads'[f] = Top.reads /\ foldWrites'[f] = Top.writes
  BY <1>0 DEF Leave, WalkTypes
<1>2. CASE g \in cached
  BY <1>1, <1>2, FinishedStays
<1>3. CASE g = f
  <2>1. FrameInv(Top) /\ Through(Top) = calls[f]
    BY <1>0, TopIsWalked DEF Leave, Through
  <2>2. /\ f \notin incomplete /\ f \notin cached /\ calls[f] \subseteq cached
        /\ Top.reads = directReads[f] \cup UNION {foldReads[c] : c \in calls[f]}
        /\ Top.writes = directWrites[f] \cup UNION {foldWrites[c] : c \in calls[f]}
    BY <1>0, <2>1 DEF FrameInv
  <2>3. \A c \in cached : calls[c] \subseteq cached
    BY DEF Finished
  <2>4. \A h \in calls[f] : f \notin Reachable(h)
    BY <2>2, <2>3, ReachStaysInside
  <2>5. Reachable(f) = {f} \cup UNION {Reachable(c) : c \in calls[f]}
    BY <2>2, ReachSplits
  <2>6. \A c \in calls[f] : /\ foldReads[c] = UNION {directReads[h] : h \in Reachable(c)}
                            /\ foldWrites[c] = UNION {directWrites[h] : h \in Reachable(c)}
    BY <2>2 DEF Finished
  <2>7. Top.reads = UNION {directReads[h] : h \in Reachable(f)}
    BY <2>2, <2>5, <2>6
  <2>8. Top.writes = UNION {directWrites[h] : h \in Reachable(f)}
    BY <2>2, <2>5, <2>6
  <2>9. \A h : Reachable(h)' = Reachable(h)
    BY <1>1, SameReach DEF directVars
  <2> QED BY <1>1, <1>3, <2>2, <2>4, <2>7, <2>8, <2>9 DEF Finished, directVars
<1> QED BY <1>1, <1>2, <1>3

LEMMA FinishedKept ==
  ASSUME WalkTypes, cached \subseteq Functions, \A g \in cached : Finished(g), StackInv,
         [PlannerNext]_pvars
  PROVE  \A g \in cached' : Finished(g)'
<1>0. UNCHANGED directVars /\ CacheGrows
  BY StepGrowsCache
<1>1. CASE Leave
  BY <1>0, <1>1, LeftIsFinished
<1>2. CASE cached' = cached
  BY <1>0, <1>2, FinishedStays
<1> QED BY <1>1, <1>2
        DEF PlannerNext, FoldCallee, BeginRoot, EnterRoot, EnterCallee, MergeCallee, FinishRoot,
            RefuseFold, PlanStep, foldVars, pvars

(* A root takes its fold from the cache, which keeps it. *)
LEMMA FoldedKept ==
  ASSUME WalkTypes, TypeOK, FoldedInv, CacheGrows, [PlannerNext]_pvars
  PROVE  FoldedInv'
<1>1. ASSUME NEW f \in Functions, FinishRoot(f) PROVE FoldedInv'
  <2>1. /\ f \in cached /\ folded' = folded \cup {f}
        /\ reads' = [reads EXCEPT ![f] = foldReads[f]]
        /\ writes' = [writes EXCEPT ![f] = foldWrites[f]]
        /\ UNCHANGED <<cached, foldReads, foldWrites>>
    BY <1>1 DEF FinishRoot, FoldRoot, foldVars
  <2>2. reads \in [Functions -> SUBSET Channels] /\ writes \in [Functions -> SUBSET Channels]
        /\ folded \subseteq Functions
    BY DEF TypeOK, Periodic
  <2> QED BY <2>1, <2>2 DEF FoldedInv
<1>2. CASE UNCHANGED ioVars
  BY <1>2 DEF FoldedInv, CacheGrows, ioVars
<1> QED BY <1>1, <1>2
        DEF PlannerNext, FoldCallee, BeginRoot, RefuseFold, FoldFails, PlanStep, CheckRates,
            CollectDependencies, RejectWriters, ConsiderDependency, StartOrdering, PlaceNext,
            FinishOrdering, vars, ioVars, pvars

(* A refused root is unanalysable itself; a callee is refused below a root *)
(* that reaches it, either by a call that closes a cycle or by one to a    *)
(* function without a usable summary.                                      *)
LEMMA RefusedIsUnanalysable ==
  ASSUME WalkTypes, cached \subseteq Functions, incomplete \subseteq Functions, StackInv, RefuseFold
  PROVE  \E f \in Periodic : Unanalysable(f)
<1>1. ASSUME NEW f \in Functions, NextRoot(f), Refused(f)
      PROVE  \E r \in Periodic : Unanalysable(r)
  <2>1. f \in Periodic /\ Active = {} /\ f \in incomplete
    BY <1>1, CallFoldAssumption DEF NextRoot, Refused, Active
  <2> QED BY <1>1, <2>1, ReachesItself DEF Unanalysable
<1>2. ASSUME NEW c \in Functions \cup Unscripted, IsNextCallee(c), Refused(c)
      PROVE  \E r \in Periodic : Unanalysable(r)
  <2>0. PICK g \in Functions, r \in Functions : g = Top.fn /\ r = stack[1].fn
    <3>1. stack # <<>> /\ Len(stack) \in Nat \ {0}
      BY <1>2, TopIsWalked DEF IsNextCallee
    <3>2. Top.fn \in Functions /\ stack[1] \in Frame
      BY <3>1, TopIsWalked DEF WalkTypes
    <3> QED BY <3>2 DEF Frame
  <2>1. /\ stack # <<>> /\ Len(stack) \in Nat \ {0} /\ r \in Periodic
        /\ c \in calls[g] /\ c \notin cached /\ c \in Unscripted \cup Active \cup incomplete
    BY <1>2, <2>0, TopIsWalked DEF IsNextCallee, Refused, StackInv, FrameInv
  <2>2. g \in Reachable(r)
    <3>1. <<r, g>> \in CallReach
      BY <2>0, <2>1 DEF StackInv, Top
    <3> QED BY <3>1 DEF CallReach
  <2>3. CASE c \in Unscripted
    BY <2>1, <2>2, <2>3 DEF Unanalysable
  <2>4. CASE c \in incomplete
    <3>1. c \in Reachable(r)
      BY <2>1, <2>2, <2>4, ReachesOn
    <3> QED BY <2>1, <2>4, <3>1 DEF Unanalysable
  <2>5. CASE c \in Active
    <3>1. PICK i \in 1..Len(stack) : stack[i].fn = c
      BY <2>5 DEF Active
    <3>2. <<c, g>> \in CallReach
      BY <2>0, <2>1, <3>1 DEF StackInv, Top
    <3>3. c \in Functions /\ g \in Reachable(c)
      BY <3>2 DEF CallReach
    <3> QED BY <2>1, <2>2, <3>3 DEF Unanalysable
  <2> QED BY <2>1, <2>3, <2>4, <2>5
<1> QED BY <1>1, <1>2 DEF RefuseFold

LEMMA RefusalKept ==
  ASSUME WalkTypes, cached \subseteq Functions, incomplete \subseteq Functions, StackInv,
         phase = "fold error" => \E f \in Periodic : Unanalysable(f),
         [PlannerNext]_pvars
  PROVE  phase' = "fold error" => \E f \in Periodic' : Unanalysable(f)'
<1>1. Periodic' = Periodic /\ \A f : Unanalysable(f)' = Unanalysable(f)
  BY StepGrowsCache, UnanalysableStays DEF Periodic
<1>2. CASE RefuseFold
  BY <1>1, <1>2, RefusedIsUnanalysable
<1>3. CASE phase' = phase \/ phase' # "fold error"
  BY <1>1, <1>3
<1> QED BY <1>2, <1>3
        DEF PlannerNext, FoldCallee, BeginRoot, FinishRoot, FoldRoot, PlanStep, CheckRates,
            CollectDependencies, RejectWriters, ConsiderDependency, StartOrdering, PlaceNext,
            FinishOrdering, vars, pvars

WalkInv ==
  /\ WalkTypes /\ ActiveOnce
  /\ cached \subseteq Functions /\ incomplete \subseteq Functions

LEMMA WalkInvariance == PlannerSpec => [](WalkInv /\ TypeOK /\ FoldInv)
<1>1. PlannerInit => WalkInv /\ FoldInv
  <2> SUFFICES ASSUME PlannerInit PROVE WalkInv /\ FoldInv
    OBVIOUS
  <2>1. cached = {} /\ stack = <<>> /\ folded = {} /\ phase = "rates"
    BY DEF PlannerInit, CallFoldInit, Init
  <2>2. FoldInv
    BY <2>1 DEF FoldInv, StackInv, Frames, FoldedInv
  <2>3. WalkInv
    BY DEF PlannerInit, CallFoldInit, WalkInv, WalkTypes, ActiveOnce
  <2> QED BY <2>2, <2>3
<1>2. WalkInv /\ [PlannerNext]_pvars /\ FoldInv => WalkInv'
  <2> SUFFICES ASSUME WalkInv, [PlannerNext]_pvars, FoldInv PROVE WalkInv'
    OBVIOUS
  <2>1. incomplete' = incomplete
    BY StepGrowsCache DEF WalkInv, FoldInv, directVars
  <2> QED BY <2>1, WalkStep, OnceKept, CachedAreFunctions DEF WalkInv
<1>3. WalkInv /\ TypeOK /\ FoldInv /\ [PlannerNext]_pvars => FoldInv'
  <2> SUFFICES ASSUME WalkInv, TypeOK, FoldInv, [PlannerNext]_pvars PROVE FoldInv'
    OBVIOUS
  <2>1. CacheGrows
    BY StepGrowsCache DEF WalkInv, FoldInv
  <2>2. StackInv'
    BY StackKept DEF WalkInv, FoldInv
  <2>3. \A g \in cached' : Finished(g)'
    BY FinishedKept DEF WalkInv, FoldInv
  <2>4. FoldedInv'
    BY <2>1, FoldedKept DEF WalkInv, FoldInv
  <2>5. phase' = "fold error" => \E f \in Periodic' : Unanalysable(f)'
    BY RefusalKept DEF WalkInv, FoldInv
  <2> QED BY <2>2, <2>3, <2>4, <2>5 DEF FoldInv
<1>4. PlannerSpec => []TypeOK
  BY PlannerImplementsSchedule, Invariance, PTL DEF IInv
<1> QED BY <1>1, <1>2, <1>3, <1>4, PTL DEF PlannerSpec

(* The cached walk of effective_root_io computes the I/O of everything a   *)
(* root reaches by calls, for every call graph.                            *)
THEOREM FoldIsExactForEver == PlannerSpec => []FoldIsReachableIO
<1>1. FoldInv => FoldIsReachableIO
  BY FoldIsExact
<1> QED BY <1>1, WalkInvariance, PTL

(* And it refuses a project only over a root that really is unanalysable,  *)
(* never over a diamond of calls, and folds none that is.                  *)
THEOREM RefusalsAreJustified == PlannerSpec => []RefusalIsJustified
<1>1. FoldInv => RefusalIsJustified
  BY FoldIsExact
<1> QED BY <1>1, WalkInvariance, PTL

=============================================================================
