---------------------------- MODULE ExecutorProofs ----------------------------
(***************************************************************************)
(* The evaluator implements the stack of frames of module Frames, whatever *)
(* the scripts are, and a slot that holds a number keeps its family.       *)
(*                                                                         *)
(* The invariant, Agenda, relates the two records of the calls under way:  *)
(* the Rust frames that saved the callers (saved) and what those frames    *)
(* still have to do (todo): as many leaves lie on the list as frames are   *)
(* saved. Every step of a statement or an expression replaces the first    *)
(* item by items that are no leaves (Within), a call adds one leave and    *)
(* one frame, a return and an error remove one of each.                    *)
(***************************************************************************)
EXTENDS Executor, SequenceTheorems, TLAPS

-----------------------------------------------------------------------------
(* Lists, and the leaves on them.                                          *)

IsList(s) == \E S : s \in Seq(S)

\* n leaves lie on the list, the last of them first.
Pending(list, n) ==
  \E at \in [1..n -> 1..Len(list)] :
    /\ \A k, l \in 1..n : k < l => at[l] < at[k]
    /\ \A i \in 1..Len(list) : list[i].do = "leave" <=> \E k \in 1..n : at[k] = i

(* Replacing the first item of a list.                                     *)
LEMMA Splicing ==
  ASSUME NEW items, IsList(items), NEW list, IsList(list), list # <<>>
  PROVE  /\ IsList(items \o Tail(list))
         /\ Len(items) \in Nat /\ Len(list) \in Nat /\ Len(list) > 0
         /\ Len(items \o Tail(list)) = Len(items) + Len(list) - 1
         /\ \A i \in 1..Len(items) : (items \o Tail(list))[i] = items[i]
         /\ \A i \in 2..Len(list) : (items \o Tail(list))[Len(items) + i - 1] = list[i]
         /\ \A i \in 1..(Len(items) + Len(list) - 1) :
              i > Len(items) => /\ i - Len(items) + 1 \in 2..Len(list)
                                /\ (items \o Tail(list))[i] = list[i - Len(items) + 1]
<1>1. PICK S, T : items \in Seq(S) /\ list \in Seq(T)
  BY DEF IsList
<1> DEFINE U == S \cup T
<1>2. items \in Seq(U) /\ list \in Seq(U)
  BY <1>1
<1> HIDE DEF U
<1>3. Tail(list) \in Seq(U) /\ Len(Tail(list)) = Len(list) - 1 /\ Len(list) \in Nat /\ Len(list) > 0
  BY <1>2
<1>4. \A i \in 1..(Len(list) - 1) : Tail(list)[i] = list[i + 1]
  BY <1>2
<1>5. items \o Tail(list) \in Seq(U)
  BY <1>2, <1>3
<1>6. Len(items \o Tail(list)) = Len(items) + Len(list) - 1 /\ Len(items) \in Nat
  BY <1>2, <1>3
<1>7. \A i \in 1..Len(items) : (items \o Tail(list))[i] = items[i]
  BY <1>2, <1>3
<1>8. ASSUME NEW i \in 1..(Len(items) + Len(list) - 1), i > Len(items)
      PROVE  /\ i - Len(items) + 1 \in 2..Len(list)
             /\ (items \o Tail(list))[i] = list[i - Len(items) + 1]
  <2>1. i - Len(items) \in 1..(Len(list) - 1) /\ i - Len(items) + 1 \in 2..Len(list)
    BY <1>3, <1>6, <1>8
  <2>2. (items \o Tail(list))[i] = Tail(list)[i - Len(items)]
    BY <1>2, <1>3, <1>6, <1>8
  <2> QED BY <2>1, <2>2, <1>4
<1>9. ASSUME NEW i \in 2..Len(list) PROVE (items \o Tail(list))[Len(items) + i - 1] = list[i]
  <2>1. /\ Len(items) + i - 1 \in 1..(Len(items) + Len(list) - 1)
        /\ Len(items) + i - 1 > Len(items)
        /\ Len(items) + i - 1 - Len(items) + 1 = i
    BY <1>3, <1>6
  <2> QED BY <2>1, <1>8
<1> QED BY <1>3, <1>5, <1>6, <1>7, <1>8, <1>9 DEF IsList

LEMMA MovedWithin ==
  \A m, n \in Nat : \A a \in 2..n : m + a - 1 \in 1..(m + n - 1)
  OBVIOUS

(* The leaves on a list when its first item is replaced by items of which  *)
(* none or the last is a leave, and when the first leave is reached.       *)
LEMMA PendingKept ==
  ASSUME NEW items, IsList(items), NEW list, IsList(list), list # <<>>,
         list[1].do # "leave", \A i \in 1..Len(items) : items[i].do # "leave",
         NEW n \in Nat, Pending(list, n)
  PROVE  Pending(items \o Tail(list), n)
<1> DEFINE new == items \o Tail(list)
           m   == Len(items)
<1> HIDE DEF new, m
<1>1. PICK at :
        /\ at \in [1..n -> 1..Len(list)]
        /\ \A k, l \in 1..n : k < l => at[l] < at[k]
        /\ \A i \in 1..Len(list) : list[i].do = "leave" <=> \E k \in 1..n : at[k] = i
  BY DEF Pending
<1>2. /\ m \in Nat /\ Len(list) \in Nat /\ Len(list) > 0
      /\ Len(new) = m + Len(list) - 1
      /\ \A i \in 1..m : new[i] = items[i]
      /\ \A i \in 1..(m + Len(list) - 1) :
           i > m => i - m + 1 \in 2..Len(list) /\ new[i] = list[i - m + 1]
  BY Splicing DEF new, m
<1>20. \A i \in 1..m : items[i].do # "leave"
  BY DEF m
<1>3. \A k \in 1..n : at[k] \in 2..Len(list)
  BY <1>1, <1>2
<1> DEFINE moved == [k \in 1..n |-> m + at[k] - 1]
<1>4. moved \in [1..n -> 1..Len(new)]
  BY <1>2, <1>3
<1>5. \A k, l \in 1..n : k < l => moved[l] < moved[k]
  BY <1>1, <1>2, <1>3
<1>6. ASSUME NEW i \in 1..Len(new)
      PROVE  new[i].do = "leave" <=> \E k \in 1..n : m + at[k] - 1 = i
  <2>1. CASE i <= m
    <3>1. new[i].do # "leave"
      BY <1>2, <1>20, <2>1
    <3>2. \A k \in 1..n : m + at[k] - 1 # i
      BY <1>2, <1>3, <2>1
    <3> QED BY <3>1, <3>2
  <2>2. CASE i > m
    <3>1. i - m + 1 \in 2..Len(list) /\ new[i] = list[i - m + 1]
      BY <1>2, <2>2
    <3>2. i - m + 1 \in 1..Len(list)
      BY <3>1, <1>2
    <3>3. new[i].do = "leave" <=> \E k \in 1..n : at[k] = i - m + 1
      BY <3>1, <3>2, <1>1
    <3>4. ASSUME NEW k \in 1..n PROVE at[k] = i - m + 1 <=> m + at[k] - 1 = i
      <4>0. at[k] \in Nat /\ i \in Nat
        BY <1>2, <1>3
      <4>1. m \in Nat
        BY <1>2
      <4>2. at[k] = i - m + 1 => m + at[k] - 1 = i
        BY <4>0, <4>1
      <4>3. m + at[k] - 1 = i => at[k] = i - m + 1
        BY <4>0, <4>1
      <4> QED BY <4>2, <4>3
    <3> QED BY <3>3, <3>4, Zenon
  <2> QED BY <2>1, <2>2, <1>2
<1>7. Pending(new, n)
  <2>1. \A k \in 1..n : moved[k] = m + at[k] - 1
    OBVIOUS
  <2> HIDE DEF moved
  <2>2. \A i \in 1..Len(new) : new[i].do = "leave" <=> \E k \in 1..n : moved[k] = i
    <3> TAKE i \in 1..Len(new)
    <3>1. ASSUME NEW k \in 1..n PROVE m + at[k] - 1 = i <=> moved[k] = i
      BY <2>1
    <3> QED BY <1>6, <3>1
  <2> QED BY <1>4, <1>5, <2>2, Zenon DEF Pending
<1> QED BY <1>7 DEF new

LEMMA PendingMore ==
  ASSUME NEW items, IsList(items), NEW list, IsList(list), list # <<>>,
         list[1].do # "leave", Len(items) > 0, items[Len(items)].do = "leave",
         \A i \in 1..(Len(items) - 1) : items[i].do # "leave",
         NEW n \in Nat, Pending(list, n)
  PROVE  Pending(items \o Tail(list), n + 1)
<1> DEFINE new == items \o Tail(list)
           m   == Len(items)
<1> HIDE DEF new, m
<1>1. PICK at :
        /\ at \in [1..n -> 1..Len(list)]
        /\ \A k, l \in 1..n : k < l => at[l] < at[k]
        /\ \A i \in 1..Len(list) : list[i].do = "leave" <=> \E k \in 1..n : at[k] = i
  BY SMTT(30) DEF Pending
<1>2. /\ m \in Nat /\ Len(list) \in Nat /\ Len(list) > 0
      /\ Len(new) = m + Len(list) - 1
      /\ \A i \in 1..m : new[i] = items[i]
      /\ \A i \in 1..(m + Len(list) - 1) :
           i > m => i - m + 1 \in 2..Len(list) /\ new[i] = list[i - m + 1]
  BY Splicing DEF new, m
<1>20. m > 0 /\ items[m].do = "leave" /\ \A i \in 1..(m - 1) : items[i].do # "leave"
  BY DEF m
<1>3. \A k \in 1..n : at[k] \in 2..Len(list)
  BY <1>1, <1>2
<1> DEFINE moved == [k \in 1..(n + 1) |-> IF k = n + 1 THEN m ELSE m + at[k] - 1]
<1>4. moved \in [1..(n + 1) -> 1..Len(new)]
  <2> SUFFICES ASSUME NEW k \in 1..(n + 1) PROVE (IF k = n + 1 THEN m ELSE m + at[k] - 1) \in 1..Len(new)
    OBVIOUS
  <2>1. CASE k = n + 1
    BY <2>1, <1>2, <1>20
  <2>2. CASE k # n + 1
    <3>1. k \in 1..n
      BY <2>2
    <3>2. at[k] \in 2..Len(list)
      BY <3>1, <1>3
    <3>3. m \in Nat /\ Len(list) \in Nat /\ Len(new) = m + Len(list) - 1
      BY <1>2
    <3>4. m + at[k] - 1 \in 1..Len(new)
      BY <3>2, <3>3, MovedWithin, Zenon
    <3> QED BY <3>4, <2>2
  <2> QED BY <2>1, <2>2
<1>5. ASSUME NEW k \in 1..(n + 1), NEW l \in 1..(n + 1), k < l PROVE moved[l] < moved[k]
  <2>1. k \in 1..n /\ moved[k] = m + at[k] - 1
    BY <1>5
  <2>2. CASE l = n + 1
    BY <2>1, <2>2, <1>2, <1>3
  <2>3. CASE l # n + 1
    <3>1. l \in 1..n /\ moved[l] = m + at[l] - 1
      BY <2>3
    <3> QED BY <3>1, <2>1, <1>1, <1>2, <1>3, <1>5, SMTT(30)
  <2> QED BY <2>2, <2>3
<1>6. ASSUME NEW i \in 1..Len(new)
      PROVE  new[i].do = "leave" <=> \E k \in 1..(n + 1) : moved[k] = i
  <2>0. /\ moved[n + 1] = m /\ n + 1 \in 1..(n + 1)
        /\ \A k \in 1..n : moved[k] = m + at[k] - 1 /\ k \in 1..(n + 1) /\ moved[k] > m
    <3>1. n + 1 \in 1..(n + 1) /\ moved[n + 1] = m
      OBVIOUS
    <3>2. ASSUME NEW k \in 1..n
          PROVE  moved[k] = m + at[k] - 1 /\ k \in 1..(n + 1) /\ moved[k] > m
      <4>1. k \in 1..(n + 1) /\ k # n + 1
        OBVIOUS
      <4>2. moved[k] = m + at[k] - 1
        BY <4>1
      <4> QED BY <4>1, <4>2, <1>2, <1>3
    <3> QED BY <3>1, <3>2
  <2>1. CASE i < m
    <3>0. i \in 1..m /\ i \in 1..(m - 1)
      BY <1>2, <2>1
    <3>1. new[i].do # "leave"
      BY <1>2, <1>20, <3>0
    <3>2. m \in Nat /\ i \in Nat
      BY <1>2
    <3>3. ASSUME NEW k \in 1..(n + 1) PROVE moved[k] # i
      <4>1. CASE k = n + 1
        BY <4>1, <2>0, <2>1, <3>2
      <4>2. CASE k # n + 1
        <5>1. k \in 1..n
          BY <4>2
        <5>2. moved[k] > m /\ moved[k] = m + at[k] - 1 /\ at[k] \in Nat
          BY <5>1, <2>0, <1>2, <1>3
        <5> HIDE DEF moved
        <5> QED BY <5>2, <2>1, <3>2
      <4> QED BY <4>1, <4>2
    <3> QED BY <3>1, <3>3
  <2>3. CASE i = m
    <3>1. i \in 1..m
      BY <1>2, <1>20, <2>3
    <3>2. new[i].do = "leave"
      BY <3>1, <1>2, <1>20, <2>3
    <3>3. \E k \in 1..(n + 1) : moved[k] = i
      BY <2>0, <2>3
    <3> QED BY <3>2, <3>3
  <2>2. CASE i > m
    <3>1. i - m + 1 \in 2..Len(list) /\ new[i] = list[i - m + 1]
      BY <1>2, <2>2
    <3>2. i - m + 1 \in 1..Len(list)
      BY <3>1, <1>2
    <3>3. new[i].do = "leave" <=> \E k \in 1..n : at[k] = i - m + 1
      BY <3>1, <3>2, <1>1
    <3>4. ASSUME NEW k \in 1..n PROVE at[k] = i - m + 1 <=> moved[k] = i
      <4>1. moved[k] = m + at[k] - 1
        BY <2>0
      <4>0. at[k] \in Nat /\ i \in Nat
        BY <1>2, <1>3
      <4>2. at[k] = i - m + 1 <=> m + at[k] - 1 = i
        <5>1. m \in Nat
          BY <1>2
        <5>2. at[k] = i - m + 1 => m + at[k] - 1 = i
          BY <4>0, <5>1
        <5>3. m + at[k] - 1 = i => at[k] = i - m + 1
          BY <4>0, <5>1
        <5> QED BY <5>2, <5>3
      <4> HIDE DEF moved
      <4> QED BY <4>1, <4>2, Zenon
    <3>5. \A k \in 1..(n + 1) : k \in 1..n \/ moved[k] # i
      BY <2>0, <2>2, <1>2
    <3> QED BY <3>3, <3>4, <3>5, <2>0
  <2> QED BY <2>1, <2>2, <2>3, <1>2
<1>7. Pending(new, n + 1)
  BY <1>4, <1>5, <1>6 DEF Pending
<1> QED BY <1>7 DEF new

LEMMA PendingLess ==
  ASSUME NEW list, IsList(list), NEW n \in Nat, Pending(list, n),
         NEW j \in 1..Len(list), list[j].do = "leave",
         \A i \in 1..(j - 1) : list[i].do # "leave"
  PROVE  /\ n > 0
         /\ IsList(SubSeq(list, j + 1, Len(list)))
         /\ Len(SubSeq(list, j + 1, Len(list))) = Len(list) - j
         /\ \A i \in 1..(Len(list) - j) : SubSeq(list, j + 1, Len(list))[i] = list[i + j]
         /\ Pending(SubSeq(list, j + 1, Len(list)), n - 1)
<1> DEFINE new == SubSeq(list, j + 1, Len(list))
<1>1. PICK at :
        /\ at \in [1..n -> 1..Len(list)]
        /\ \A k, l \in 1..n : k < l => at[l] < at[k]
        /\ \A i \in 1..Len(list) : list[i].do = "leave" <=> \E k \in 1..n : at[k] = i
  BY DEF Pending
<1>2. PICK S : list \in Seq(S)
  BY DEF IsList
<1>3. Len(list) \in Nat /\ j \in Nat /\ j <= Len(list) /\ j >= 1
  BY <1>2
<1>4. /\ new \in Seq(S) /\ Len(new) = Len(list) - j
      /\ \A i \in 1..(Len(list) - j) : new[i] = list[i + j]
  BY <1>2, <1>3, SubSeqProperties
<1> HIDE DEF new
<1>5. PICK k \in 1..n : at[k] = j
  BY <1>1
<1>6. k = n
  <2>1. n \in 1..n
    OBVIOUS
  <2>2. at[n] \in 1..Len(list) /\ list[at[n]].do = "leave"
    BY <1>1, <2>1
  <2>3. at[n] >= j
    BY <2>2, <1>3
  <2> QED BY <2>1, <2>2, <2>3, <1>1, <1>3, <1>5
<1>7. \A l \in 1..(n - 1) : l \in 1..n /\ at[l] \in (j + 1)..Len(list)
  <2> SUFFICES ASSUME NEW l \in 1..(n - 1) PROVE l \in 1..n /\ at[l] \in (j + 1)..Len(list)
    OBVIOUS
  <2>1. l \in 1..n /\ l < n /\ n \in 1..n
    OBVIOUS
  <2> QED BY <2>1, <1>1, <1>3, <1>5, <1>6
<1> DEFINE moved == [l \in 1..(n - 1) |-> at[l] - j]
<1>8. moved \in [1..(n - 1) -> 1..Len(new)]
  BY <1>3, <1>4, <1>7
<1>9. \A l, o \in 1..(n - 1) : l < o => moved[o] < moved[l]
  BY <1>1, <1>3, <1>7
<1>10. ASSUME NEW i \in 1..Len(new)
       PROVE  new[i].do = "leave" <=> \E l \in 1..(n - 1) : moved[l] = i
  <2>0. i \in 1..(Len(list) - j)
    BY <1>4
  <2>1. i + j \in 1..Len(list) /\ new[i] = list[i + j] /\ i + j > j
    BY <2>0, <1>3, <1>4
  <2>2. new[i].do = "leave" <=> \E l \in 1..n : at[l] = i + j
    BY <2>1, <1>1
  <2>3. ASSUME NEW l \in 1..(n - 1) PROVE at[l] = i + j <=> moved[l] = i
    <3>1. moved[l] = at[l] - j
      OBVIOUS
    <3>0. at[l] \in Nat /\ i \in Nat
      BY <1>3, <1>7, <2>0
    <3>2. at[l] = i + j <=> at[l] - j = i
      <4>1. j \in Nat
        BY <1>3
      <4>2. at[l] = i + j => at[l] - j = i
        BY <3>0, <4>1
      <4>3. ASSUME at[l] - j = i PROVE at[l] = i + j
        <5>1. at[l] = (at[l] - j) + j
          BY <3>0, <4>1
        <5> QED BY <5>1, <4>3, Zenon
      <4> QED BY <4>2, <4>3
    <3> HIDE DEF moved
    <3> QED BY <3>1, <3>2, Zenon
  <2>4. \A l \in 1..n : l \in 1..(n - 1) \/ at[l] # i + j
    BY <1>3, <1>5, <1>6, <2>1
  <2>5. \A l \in 1..(n - 1) : l \in 1..n
    BY <1>7
  <2> QED BY <2>2, <2>3, <2>4, <2>5
<1>11. Pending(new, n - 1)
  BY <1>8, <1>9, <1>10 DEF Pending
<1>12. n > 0
  BY <1>5
<1> QED BY <1>4, <1>11, <1>12 DEF new, IsList

LEMMA NothingPending ==
  ASSUME NEW n \in Nat, Pending(<<>>, n)
  PROVE  n = 0
<1>1. PICK at \in [1..n -> 1..Len(<<>>)] : TRUE
  BY DEF Pending
<1>2. CASE n > 0
  <2>1. at[1] \in 1..Len(<<>>) /\ Len(<<>>) = 0
    BY <1>1, <1>2
  <2> QED BY <2>1
<1> QED BY <1>2

-----------------------------------------------------------------------------
(* What lies on the list of things to do.                                  *)

IsExpression(e) == e \in Expressions \/ e.k = "lit"

Clauses == Seq([pattern : Expressions, body : Seq(Statements)])

\* What an item needs of its node to be carried out.
IsItem(it) ==
  /\ it.do = "exec" => it.node \in Statements
  /\ it.do = "eval" => IsExpression(it.node)
  /\ it.do = "decide" => it.node.r \in Expressions
  /\ it.do = "choose" => it.node.l \in Expressions /\ it.node.r \in Expressions
  /\ it.do = "branch" => it.node.then \in Seq(Statements) /\ it.node.else \in Seq(Statements)
  /\ it.do = "match" => it.node \in Clauses
  /\ it.do = "compare" => it.node \in Clauses /\ it.node # <<>>
  /\ it.do = "range" => it.node.body \in Seq(Statements)
  /\ it.do = "iterate" => /\ DOMAIN it.node = {"loop", "left", "prior"}
                          /\ it.node.loop.body \in Seq(Statements)

\* Items that a step of the running function may put on the list; all but those
\* of a declaration declare nothing.
Pushing(items) ==
  /\ IsList(items)
  /\ \A i \in 1..Len(items) : IsItem(items[i]) /\ items[i].do # "leave"

Ordinary(items) == Pushing(items) /\ \A i \in 1..Len(items) : items[i].do # "declare"

\* The inductive invariant: the list is one of items, and as many leaves are
\* pending as callers are saved.
Agenda ==
  /\ code \in Programs
  /\ IsList(todo)
  /\ \A i \in 1..Len(todo) : IsItem(todo[i])
  /\ IsList(saved)
  /\ \A i \in 1..Len(saved) :
       saved[i] = [fn |-> saved[i].fn, locals |-> saved[i].locals, out |-> saved[i].out]
  /\ Pending(todo, Len(saved))

\* What such a step does to the slots: nothing, an assignment, a declaration.
Quiet    == UNCHANGED <<values, out, statics>>
Stores   == \E d, y : ~IsError(Stored(d, y)) /\ Write(d, Stored(d, y))
Declares == \E x : /\ DeclareWith(x)
                   /\ \/ Item.do = "declare"
                      \/ Node.k = "static" => <<fn, Key(Node.path)>> \notin DOMAIN statics

Declaring(items) ==
  /\ Quiet /\ Pushing(items) /\ items = <<Eval(Node.init[1]), Do("declare", Node)>>
  /\ Item.do = "exec" /\ Node \in Statements /\ Node.init # <<>>
  /\ Node.k = "static" => <<fn, Key(Node.path)>> \notin DOMAIN statics

\* A step of the running function that neither calls nor returns.
Within ==
  /\ UNCHANGED <<code, fn, saved, returned>>
  /\ \/ todo' = todo /\ Quiet
     \/ /\ todo # <<>> /\ Item.do # "leave"
        /\ \E items : (Ordinary(items) \/ Declaring(items)) /\ todo' = items \o Later
  /\ Quiet \/ Stores \/ Declares

LEMMA ListOfOne == ASSUME NEW x PROVE IsList(<<x>>) /\ Len(<<x>>) = 1 /\ <<x>>[1] = x
<1>1. <<x>> \in Seq({x})
  OBVIOUS
<1> QED BY <1>1 DEF IsList

LEMMA OrdinaryNone == Ordinary(<<>>)
<1>1. <<>> \in Seq({}) /\ Len(<<>>) = 0
  OBVIOUS
<1> QED BY <1>1 DEF Ordinary, Pushing, IsList

LEMMA OrdinaryOne ==
  ASSUME NEW x, IsItem(x), x.do \notin {"leave", "declare"}
  PROVE  Ordinary(<<x>>)
BY ListOfOne DEF Ordinary, Pushing

LEMMA OrdinaryTwo ==
  ASSUME NEW x, IsItem(x), x.do \notin {"leave", "declare"}, NEW y, IsItem(y), y.do \notin {"leave", "declare"}
  PROVE  Ordinary(<<x, y>>)
<1> DEFINE items == <<x, y>>
<1>1. items \in Seq({x, y}) /\ Len(items) = 2 /\ items[1] = x /\ items[2] = y
  OBVIOUS
<1> HIDE DEF items
<1>2. \A i \in 1..2 : i = 1 \/ i = 2
  OBVIOUS
<1>3. \A i \in 1..2 : IsItem(items[i]) /\ items[i].do \notin {"leave", "declare"}
  BY <1>1, <1>2
<1>4. Ordinary(items)
  BY <1>1, <1>3 DEF Ordinary, Pushing, IsList
<1> QED BY <1>4 DEF items

LEMMA PushingTwo ==
  ASSUME NEW x, IsItem(x), x.do # "leave", NEW y, IsItem(y), y.do # "leave"
  PROVE  Pushing(<<x, y>>)
<1> DEFINE items == <<x, y>>
<1>1. items \in Seq({x, y}) /\ Len(items) = 2 /\ items[1] = x /\ items[2] = y
  OBVIOUS
<1> HIDE DEF items
<1>2. \A i \in 1..2 : i = 1 \/ i = 2
  OBVIOUS
<1>3. \A i \in 1..2 : IsItem(items[i]) /\ items[i].do # "leave"
  BY <1>1, <1>2
<1>4. Pushing(items)
  BY <1>1, <1>3 DEF Pushing, IsList
<1> QED BY <1>4 DEF items

LEMMA OrdinaryThree ==
  ASSUME NEW x, IsItem(x), x.do \notin {"leave", "declare"}, NEW y, IsItem(y), y.do \notin {"leave", "declare"},
         NEW z, IsItem(z), z.do \notin {"leave", "declare"}
  PROVE  Ordinary(<<x, y, z>>)
<1> DEFINE items == <<x, y, z>>
<1>1. items \in Seq({x, y, z}) /\ Len(items) = 3 /\ items[1] = x /\ items[2] = y /\ items[3] = z
  OBVIOUS
<1> HIDE DEF items
<1>2. \A i \in 1..3 : i = 1 \/ i = 2 \/ i = 3
  OBVIOUS
<1>3. \A i \in 1..3 : IsItem(items[i]) /\ items[i].do \notin {"leave", "declare"}
  BY <1>1, <1>2
<1>4. Ordinary(items)
  BY <1>1, <1>3 DEF Ordinary, Pushing, IsList
<1> QED BY <1>4 DEF items

LEMMA OrdinaryBoth ==
  ASSUME NEW a, Ordinary(a), NEW b, Ordinary(b)
  PROVE  Ordinary(a \o b)
<1>1. PICK S, T : a \in Seq(S) /\ b \in Seq(T)
  BY DEF Ordinary, Pushing, IsList
<1> DEFINE U == S \cup T
<1>2. a \in Seq(U) /\ b \in Seq(U)
  BY <1>1
<1> HIDE DEF U
<1>3. /\ a \o b \in Seq(U) /\ Len(a \o b) = Len(a) + Len(b)
      /\ Len(a) \in Nat /\ Len(b) \in Nat
      /\ \A i \in 1..(Len(a) + Len(b)) :
           (a \o b)[i] = IF i <= Len(a) THEN a[i] ELSE b[i - Len(a)]
  BY <1>2
<1>4. ASSUME NEW i \in 1..Len(a \o b)
      PROVE  IsItem((a \o b)[i]) /\ (a \o b)[i].do \notin {"leave", "declare"}
  <2>1. CASE i <= Len(a)
    <3>1. i \in 1..Len(a) /\ (a \o b)[i] = a[i]
      BY <1>3, <2>1
    <3> QED BY <3>1 DEF Ordinary, Pushing
  <2>2. CASE ~(i <= Len(a))
    <3>1. i - Len(a) \in 1..Len(b) /\ (a \o b)[i] = b[i - Len(a)]
      BY <1>3, <2>2
    <3> QED BY <3>1 DEF Ordinary, Pushing
  <2> QED BY <2>1, <2>2
<1> QED BY <1>3, <1>4 DEF Ordinary, Pushing, IsList

LEMMA OrdinaryFive ==
  ASSUME NEW v, IsItem(v), v.do \notin {"leave", "declare"}, NEW w, IsItem(w), w.do \notin {"leave", "declare"},
         NEW x, IsItem(x), x.do \notin {"leave", "declare"}, NEW y, IsItem(y), y.do \notin {"leave", "declare"},
         NEW z, IsItem(z), z.do \notin {"leave", "declare"}
  PROVE  Ordinary(<<v, w, x, y, z>>)
<1> DEFINE items == <<v, w, x, y, z>>
<1>1. /\ items \in Seq({v, w, x, y, z}) /\ Len(items) = 5
      /\ items[1] = v /\ items[2] = w /\ items[3] = x /\ items[4] = y /\ items[5] = z
  OBVIOUS
<1> HIDE DEF items
<1>2. \A i \in 1..5 : i = 1 \/ i = 2 \/ i = 3 \/ i = 4 \/ i = 5
  OBVIOUS
<1>3. \A i \in 1..5 : IsItem(items[i]) /\ items[i].do \notin {"leave", "declare"}
  BY <1>1, <1>2
<1>4. Ordinary(items)
  BY <1>1, <1>3 DEF Ordinary, Pushing, IsList
<1> QED BY <1>4 DEF items

LEMMA OrdinaryBody ==
  ASSUME NEW b \in Seq(Statements), NEW sub
  PROVE  Ordinary(Body(b, sub))
<1> DEFINE S == [do : {"exec"}, node : Statements, sub : {sub}]
<1>1. Len(b) \in Nat /\ DOMAIN b = 1..Len(b) /\ \A i \in 1..Len(b) : b[i] \in Statements
  OBVIOUS
<1>2. Body(b, sub) \in Seq(S) /\ Len(Body(b, sub)) = Len(b)
  BY <1>1 DEF Body
<1>3. \A i \in 1..Len(b) : Body(b, sub)[i].do = "exec" /\ Body(b, sub)[i].node \in Statements
  BY <1>1 DEF Body
<1> QED BY <1>2, <1>3 DEF Ordinary, Pushing, IsList, IsItem

(* The head of the list is an item. *)
LEMMA HeadIsItem ==
  ASSUME Agenda, todo # <<>>
  PROVE  /\ Len(todo) \in Nat /\ Len(todo) > 0
         /\ Item = todo[1] /\ IsItem(Item)
<1>1. PICK S : todo \in Seq(S)
  BY DEF Agenda, IsList
<1>2. Len(todo) \in Nat /\ Len(todo) > 0 /\ Head(todo) = todo[1]
  BY <1>1
<1> QED BY <1>2 DEF Agenda, Item

-----------------------------------------------------------------------------
(* Steps that work on the frame of the running function and leave the      *)
(* callers alone: all but calling, returning and unwinding.                *)

LEMMA Pushes ==
  ASSUME todo # <<>>, Item.do # "leave", UNCHANGED <<code, fn, saved, returned>>,
         UNCHANGED <<values, out, statics>> \/ Stores \/ Declares,
         \E items : Ordinary(items) /\ todo' = items \o Later
  PROVE  Within
BY DEF Within, Quiet

LEMMA RaiseStays == Raise => Within
BY DEF Raise, Within, Quiet, env, frame, ghost

LEMMA YieldIsWithin ==
  ASSUME NEW n, NEW x, Agenda, todo # <<>>, Item.do # "leave", Yield(n, x)
  PROVE  Within
<1>1. CASE Raise
  BY <1>1, RaiseStays
<1>2. CASE Continue(<<>>) /\ Keep
  BY <1>2, OrdinaryNone, Pushes DEF Continue, Keep, env, frame, ghost
<1> QED BY <1>1, <1>2 DEF Yield

LEMMA OperandsAreWithin ==
  ASSUME Agenda, EvalLiteral \/ EvalPath \/ EvalUnary \/ EvalBinary \/ Truth \/ ExpandBound
  PROVE  Within
<1>1. CASE EvalLiteral
  BY <1>1, YieldIsWithin DEF EvalLiteral, Kind, Is
<1>2. CASE EvalPath
  BY <1>2, YieldIsWithin DEF EvalPath, Kind, Is
<1>3. CASE EvalUnary
  BY <1>3, YieldIsWithin DEF EvalUnary, Is
<1>4. CASE EvalBinary
  BY <1>4, YieldIsWithin DEF EvalBinary, Is
<1>5. CASE Truth
  BY <1>5, YieldIsWithin DEF Truth, Is
<1>6. CASE ExpandBound
  BY <1>6, YieldIsWithin DEF ExpandBound, Is
<1> QED BY <1>1, <1>2, <1>3, <1>4, <1>5, <1>6

LEMMA UnfoldIsWithin ==
  ASSUME Agenda, Unfold
  PROVE  Within
<1>1. /\ todo # <<>> /\ Item.do = "eval" /\ UNCHANGED <<code, fn, saved, returned, values, out, statics>>
  BY DEF Unfold, Is, Continue, Keep, env, frame, ghost
<1>2. IsExpression(Node)
  BY <1>1, HeadIsItem DEF IsItem, Node
<1>3. CASE Node.k = "unary"
  <2>1. Node.e \in Expressions
    BY <1>2, <1>3, SyntaxAssumption DEF IsExpression
  <2>2. Ordinary(<<Eval(Node.e), Do("unary", Node)>>)
    BY <2>1, OrdinaryTwo DEF Eval, Do, IsItem, IsExpression
  <2>3. todo' = <<Eval(Node.e), Do("unary", Node)>> \o Later
    BY <1>3 DEF Unfold, Continue
  <2> QED BY <1>1, <2>2, <2>3, Pushes
<1>4. CASE Node.k = "binary"
  <2>1. Node.l \in Expressions /\ Node.r \in Expressions
    BY <1>2, <1>4, SyntaxAssumption DEF IsExpression
  <2>2. Ordinary(<<Eval(Node.l), Eval(Node.r), Do("binary", Node)>>)
    BY <2>1, OrdinaryThree DEF Eval, Do, IsItem, IsExpression
  <2>3. todo' = <<Eval(Node.l), Eval(Node.r), Do("binary", Node)>> \o Later
    BY <1>4 DEF Unfold, Continue
  <2> QED BY <1>1, <2>2, <2>3, Pushes
<1>5. CASE Node.k = "logical"
  <2>1. Node.l \in Expressions /\ Node.r \in Expressions
    BY <1>2, <1>5, SyntaxAssumption DEF IsExpression
  <2>2. Ordinary(<<Eval(Node.l), Do("decide", Node)>>)
    BY <2>1, OrdinaryTwo DEF Eval, Do, IsItem, IsExpression
  <2>3. todo' = <<Eval(Node.l), Do("decide", Node)>> \o Later
    BY <1>5 DEF Unfold, Continue
  <2> QED BY <1>1, <2>2, <2>3, Pushes
<1>6. CASE Node.k = "ternary"
  <2>1. Node.c \in Expressions /\ Node.l \in Expressions /\ Node.r \in Expressions
    BY <1>2, <1>6, SyntaxAssumption DEF IsExpression
  <2>2. Ordinary(<<Eval(Node.c), Do("choose", Node)>>)
    BY <2>1, OrdinaryTwo DEF Eval, Do, IsItem, IsExpression
  <2>3. todo' = <<Eval(Node.c), Do("choose", Node)>> \o Later
    BY <1>6 DEF Unfold, Continue
  <2> QED BY <1>1, <2>2, <2>3, Pushes
<1>7. CASE Node.k = "call"
  <2> DEFINE args == [i \in DOMAIN Node.args |-> Eval(Node.args[i])]
  <2>1. Node.args \in Seq(Expressions)
    BY <1>2, <1>7, SyntaxAssumption DEF IsExpression
  <2>2. Ordinary(args)
    <3>1. /\ Len(Node.args) \in Nat /\ DOMAIN Node.args = 1..Len(Node.args)
          /\ \A i \in 1..Len(Node.args) : Node.args[i] \in Expressions
      BY <2>1
    <3>2. args \in Seq([do : {"eval"}, node : Expressions, sub : {Item.sub}]) /\ Len(args) = Len(Node.args)
      BY <3>1 DEF Eval, Do
    <3>3. \A i \in 1..Len(Node.args) : args[i].do = "eval" /\ args[i].node \in Expressions
      BY <3>1 DEF Eval, Do
    <3> QED BY <3>2, <3>3 DEF Ordinary, Pushing, IsList, IsItem, IsExpression
  <2> HIDE DEF args
  <2>3. Ordinary(<<Do("invoke", Node)>>)
    BY OrdinaryOne DEF Do, IsItem
  <2>4. Ordinary(args \o <<Do("invoke", Node)>>)
    BY <2>2, <2>3, OrdinaryBoth
  <2>5. todo' = (args \o <<Do("invoke", Node)>>) \o Later
    BY <1>7 DEF Unfold, Continue, args
  <2> QED BY <1>1, <2>4, <2>5, Pushes
<1> QED BY <1>3, <1>4, <1>5, <1>6, <1>7 DEF Unfold

LEMMA ConditionsAreWithin ==
  ASSUME Agenda, Decide \/ Choose \/ Branch
  PROVE  Within
<1>1. CASE Decide
  <2>1. todo # <<>> /\ Item.do = "decide"
    BY <1>1 DEF Decide, Is
  <2>2. Node.r \in Expressions
    BY <2>1, HeadIsItem DEF IsItem, Node
  <2>3. CASE Raise
    BY <2>3, RaiseStays
  <2>4. CASE ~Raise
    <3>1. UNCHANGED <<code, fn, saved, returned, values, out, statics>>
      BY <1>1, <2>4 DEF Decide, OnCondition, Continue, Keep, env, frame, ghost
    <3>2. \/ \E b : todo' = <<Eval([k |-> "lit", v |-> Bool(b)])>> \o Later
          \/ todo' = <<Eval(Node.r), Do("truth", Node)>> \o Later
      BY <1>1, <2>4 DEF Decide, OnCondition, Continue
    <3>3. \A b : Ordinary(<<Eval([k |-> "lit", v |-> Bool(b)])>>)
      BY OrdinaryOne DEF Eval, Do, IsItem, IsExpression
    <3>4. Ordinary(<<Eval(Node.r), Do("truth", Node)>>)
      BY <2>2, OrdinaryTwo DEF Eval, Do, IsItem, IsExpression
    <3> QED BY <2>1, <3>1, <3>2, <3>3, <3>4, Pushes
  <2> QED BY <2>3, <2>4
<1>2. CASE Choose
  <2>1. todo # <<>> /\ Item.do = "choose"
    BY <1>2 DEF Choose, Is
  <2>2. Node.l \in Expressions /\ Node.r \in Expressions
    BY <2>1, HeadIsItem DEF IsItem, Node
  <2>3. CASE Raise
    BY <2>3, RaiseStays
  <2>4. CASE ~Raise
    <3>1. UNCHANGED <<code, fn, saved, returned, values, out, statics>>
      BY <1>2, <2>4 DEF Choose, OnCondition, Continue, Keep, env, frame, ghost
    <3>2. todo' = <<Eval(Node.l)>> \o Later \/ todo' = <<Eval(Node.r)>> \o Later
      BY <1>2, <2>4 DEF Choose, OnCondition, Continue
    <3>3. Ordinary(<<Eval(Node.l)>>) /\ Ordinary(<<Eval(Node.r)>>)
      BY <2>2, OrdinaryOne DEF Eval, Do, IsItem, IsExpression
    <3> QED BY <2>1, <3>1, <3>2, <3>3, Pushes
  <2> QED BY <2>3, <2>4
<1>3. CASE Branch
  <2>1. todo # <<>> /\ Item.do = "branch"
    BY <1>3 DEF Branch, Is
  <2>2. Node.then \in Seq(Statements) /\ Node.else \in Seq(Statements)
    BY <2>1, HeadIsItem DEF IsItem, Node
  <2>3. CASE Raise
    BY <2>3, RaiseStays
  <2>4. CASE ~Raise
    <3>1. UNCHANGED <<code, fn, saved, returned, values, out, statics>>
      BY <1>3, <2>4 DEF Branch, OnCondition, Continue, Keep, env, frame, ghost
    <3>2. todo' = Exec(Node.then) \o Later \/ todo' = Exec(Node.else) \o Later
      BY <1>3, <2>4 DEF Branch, OnCondition, Continue
    <3>3. Ordinary(Exec(Node.then)) /\ Ordinary(Exec(Node.else))
      BY <2>2, OrdinaryBody DEF Exec
    <3> QED BY <2>1, <3>1, <3>2, <3>3, Pushes
  <2> QED BY <2>3, <2>4
<1> QED BY <1>1, <1>2, <1>3

LEMMA SlotsAreWithin ==
  ASSUME Agenda, CallOperator \/ RefuseCall \/ Assign \/ Store
  PROVE  Within
<1>1. CASE CallOperator
  <2>1. todo # <<>> /\ Item.do = "invoke" /\ UNCHANGED <<code, fn, saved, returned, values, out, statics>>
    BY <1>1 DEF CallOperator, Is, Continue, frame
  <2>2. todo' = <<>> \o Later
    BY <1>1 DEF CallOperator, Continue
  <2> QED BY <2>1, <2>2, OrdinaryNone, Pushes
<1>2. CASE RefuseCall
  BY <1>2, RaiseStays DEF RefuseCall
<1>3. CASE Assign
  <2>1. todo # <<>> /\ Item.do = "exec" /\ Node.k = "assign"
    BY <1>3 DEF Assign, Kind, Is
  <2>2. Node.e \in Expressions
    BY <2>1, HeadIsItem, SyntaxAssumption DEF IsItem, Node
  <2> DEFINE d == Target(Key(Node.path))
             items == <<Eval(Node.e), Do("store", [dest |-> d, op |-> Node.op])>>
  <2>3. CASE Raise
    BY <2>3, RaiseStays
  <2>4. CASE ~Raise
    <3>1. UNCHANGED <<code, fn, saved, returned, values, out, statics>> /\ todo' = items \o Later
      BY <1>3, <2>4 DEF Assign, Continue, Keep, env, frame, ghost
    <3>2. Ordinary(items)
      BY <2>2, OrdinaryTwo DEF Eval, Do, IsItem, IsExpression
    <3> HIDE DEF items
    <3> QED BY <2>1, <3>1, <3>2, Pushes
  <2> QED BY <2>3, <2>4
<1>4. CASE Store
  <2>1. todo # <<>> /\ Item.do = "store"
    BY <1>4 DEF Store, Is
  <2>2. CASE Raise
    BY <2>2, RaiseStays
  <2>3. CASE ~Raise
    <3> DEFINE d == Node.dest
               current == Contents(d)
               final == IF Node.op = "=" THEN Val1
                        ELSE IF IsError(current) THEN current ELSE Apply(Node.op, current, Val1)
               x == IF IsError(final) THEN final ELSE Stored(d, final)
    <3>0. ~IsError(x) /\ Write(d, x) /\ Continue(<<>>)
      BY <1>4, <2>3 DEF Store
    <3>1. x = Stored(d, final)
      BY <3>0
    <3> HIDE DEF x, final, d
    <3>2. UNCHANGED <<code, fn, saved, returned>> /\ todo' = <<>> \o Later
      BY <3>0 DEF Write, Continue, frame, ghost
    <3>3. Stores
      BY <3>0, <3>1 DEF Stores
    <3> QED BY <2>1, <3>2, <3>3, OrdinaryNone, Pushes
  <2> QED BY <2>2, <2>3
<1> QED BY <1>1, <1>2, <1>3, <1>4

LEMMA StatementIsWithin ==
  ASSUME Agenda, Statement
  PROVE  Within
<1>1. /\ todo # <<>> /\ Item.do = "exec" /\ UNCHANGED <<code, fn, saved, returned, values, out, statics>>
  BY DEF Statement, Is, Continue, Keep, env, frame, ghost
<1>2. Node \in Statements
  BY <1>1, HeadIsItem DEF IsItem, Node
<1>3. CASE Node.k = "expr"
  <2>1. Ordinary(<<Eval(Node.e), Do("drop", Node)>>)
    BY <1>2, <1>3, SyntaxAssumption, OrdinaryTwo DEF Eval, Do, IsItem, IsExpression
  <2>2. todo' = <<Eval(Node.e), Do("drop", Node)>> \o Later
    BY <1>3 DEF Statement, Continue
  <2> QED BY <1>1, <2>1, <2>2, Pushes
<1>4. CASE Node.k = "if"
  <2>1. Node.c \in Expressions /\ Node.then \in Seq(Statements) /\ Node.else \in Seq(Statements)
    BY <1>2, <1>4, SyntaxAssumption
  <2>2. Ordinary(<<Eval(Node.c), Do("branch", Node)>>)
    BY <2>1, OrdinaryTwo DEF Eval, Do, IsItem, IsExpression
  <2>3. todo' = <<Eval(Node.c), Do("branch", Node)>> \o Later
    BY <1>4 DEF Statement, Continue
  <2> QED BY <1>1, <2>2, <2>3, Pushes
<1>5. CASE Node.k = "when"
  <2>1. Node.e \in Expressions /\ Node.clauses \in Clauses
    BY <1>2, <1>5, SyntaxAssumption DEF Clauses
  <2>2. Ordinary(<<Eval(Node.e), Do("match", Node.clauses)>>)
    BY <2>1, OrdinaryTwo DEF Eval, Do, IsItem, IsExpression
  <2>3. todo' = <<Eval(Node.e), Do("match", Node.clauses)>> \o Later
    BY <1>5 DEF Statement, Continue
  <2> QED BY <1>1, <2>2, <2>3, Pushes
<1>6. CASE Node.k = "expand"
  <2> DEFINE items == <<Eval(Node.lo), Do("bound", Node), Eval(Node.hi), Do("bound", Node),
                        Do("range", Node)>>
  <2>1. Node.lo \in Expressions /\ Node.hi \in Expressions /\ Node.body \in Seq(Statements)
    BY <1>2, <1>6, SyntaxAssumption
  <2>2. Ordinary(items)
    <3>1. /\ IsItem(Eval(Node.lo)) /\ Eval(Node.lo).do \notin {"leave", "declare"}
          /\ IsItem(Eval(Node.hi)) /\ Eval(Node.hi).do \notin {"leave", "declare"}
          /\ IsItem(Do("bound", Node)) /\ Do("bound", Node).do \notin {"leave", "declare"}
          /\ IsItem(Do("range", Node)) /\ Do("range", Node).do \notin {"leave", "declare"}
      BY <2>1 DEF Eval, Do, IsItem, IsExpression
    <3> QED BY <3>1, OrdinaryFive
  <2>3. todo' = items \o Later
    BY <1>6 DEF Statement, Continue
  <2> HIDE DEF items
  <2> QED BY <1>1, <2>2, <2>3, Pushes
<1>7. CASE Node.k = "block"
  <2>1. Ordinary(Exec(Node.body))
    BY <1>2, <1>7, SyntaxAssumption, OrdinaryBody DEF Exec
  <2>2. todo' = Exec(Node.body) \o Later
    BY <1>7 DEF Statement, Continue
  <2> QED BY <1>1, <2>1, <2>2, Pushes
<1>8. CASE Node.k \in {"local", "static"}
  <2> DEFINE items == <<Eval(Node.init[1]), Do("declare", Node)>>
  <2>1. /\ Node.init \in Seq(Expressions) /\ Node.init # <<>>
        /\ Node.k = "static" => <<fn, Key(Node.path)>> \notin DOMAIN statics
    BY <1>2, <1>8, SyntaxAssumption DEF Statement
  <2>2. Node.init[1] \in Expressions
    BY <2>1
  <2>3. /\ IsItem(Eval(Node.init[1])) /\ Eval(Node.init[1]).do # "leave"
        /\ IsItem(Do("declare", Node)) /\ Do("declare", Node).do # "leave"
    BY <2>2 DEF Eval, Do, IsItem, IsExpression
  <2>4. Pushing(items)
    BY <2>3, PushingTwo
  <2>5. todo' = items \o Later
    BY <1>8 DEF Statement, Continue
  <2>6. Declaring(items)
    BY <1>1, <1>2, <2>1, <2>4 DEF Declaring, Quiet
  <2> HIDE DEF items
  <2> QED BY <1>1, <2>5, <2>6 DEF Within, Quiet
<1> QED BY <1>3, <1>4, <1>5, <1>6, <1>7, <1>8 DEF Statement

LEMMA DeclarationsAreWithin ==
  ASSUME Agenda, Discard \/ Declare \/ DeclareDefault \/ AlreadyDeclared
  PROVE  Within
<1>1. CASE Discard \/ AlreadyDeclared
  <2>1. todo # <<>> /\ Item.do # "leave" /\ UNCHANGED <<code, fn, saved, returned, values, out, statics>>
    BY <1>1 DEF Discard, AlreadyDeclared, Kind, Is, Continue, Keep, env, frame, ghost
  <2>2. todo' = <<>> \o Later
    BY <1>1 DEF Discard, AlreadyDeclared, Continue
  <2> QED BY <2>1, <2>2, OrdinaryNone, Pushes
<1>2. ASSUME NEW x, todo # <<>>, Item.do # "leave", DeclareWith(x), Declares
      PROVE  Within
  <2>1. UNCHANGED <<code, fn, saved, returned>> /\ todo' = <<>> \o Later
    BY <1>2 DEF DeclareWith, Continue, frame, ghost
  <2> QED BY <1>2, <2>1, OrdinaryNone, Pushes
<1>3. CASE Declare
  <2>1. CASE Raise
    BY <2>1, RaiseStays
  <2>2. CASE ~Raise
    <3>1. todo # <<>> /\ Item.do = "declare" /\ DeclareWith(Coerce(Val1, Node.fam))
      BY <1>3, <2>2 DEF Declare, Is
    <3>2. Declares
      BY <3>1 DEF Declares
    <3> QED BY <1>2, <3>1, <3>2
  <2> QED BY <2>1, <2>2
<1>4. CASE DeclareDefault
  <2>1. todo # <<>> /\ Item.do = "exec" /\ \E x : DeclareWith(x)
    BY <1>4 DEF DeclareDefault, Is
  <2>2. Declares
    BY <1>4, <2>1 DEF Declares, DeclareDefault
  <2> QED BY <1>2, <2>1, <2>2
<1> QED BY <1>1, <1>3, <1>4

LEMMA RestOfClauses ==
  ASSUME NEW c, c \in Clauses, c # <<>>
  PROVE  /\ Tail(c) \in Clauses
         /\ c[1].pattern \in Expressions /\ c[1].body \in Seq(Statements)
<1>1. \A S : c \in Seq(S) => c[1] \in S /\ Tail(c) \in Seq(S)
  OBVIOUS
<1>2. c[1] \in [pattern : Expressions, body : Seq(Statements)] /\ Tail(c) \in Clauses
  BY <1>1 DEF Clauses
<1> QED BY <1>2

LEMMA ClausesAreWithin ==
  ASSUME Agenda, Match \/ ComparePattern
  PROVE  Within
<1>1. /\ todo # <<>> /\ Item.do \in {"match", "compare"}
      /\ UNCHANGED <<code, fn, saved, returned, values, out, statics>>
  BY DEF Match, NoMatch, ComparePattern, Is, Continue, Keep, env, frame, ghost
<1>2. Node \in Clauses
  BY <1>1, HeadIsItem DEF IsItem, Node
<1>3. CASE Node = <<>>
  <2>1. todo' = <<>> \o Later
    <3>1. Match
      BY <1>1, <1>3, HeadIsItem DEF IsItem, Node, ComparePattern, Is
    <3> QED BY <3>1, <1>3 DEF Match, NoMatch, Continue
  <2> QED BY <1>1, <2>1, OrdinaryNone, Pushes
<1>4. CASE Node # <<>>
  <2>1. /\ Tail(Node) \in Clauses
        /\ Node[1].pattern \in Expressions /\ Node[1].body \in Seq(Statements)
    BY <1>2, <1>4, RestOfClauses
  <2>2. \/ todo' = Exec(Node[1].body) \o Later
        \/ todo' = <<Do("match", Tail(Node))>> \o Later
        \/ todo' = <<Eval(Node[1].pattern), Do("compare", Node)>> \o Later
    BY <1>4 DEF Match, NoMatch, ComparePattern, Continue
  <2>3. Ordinary(Exec(Node[1].body))
    BY <2>1, OrdinaryBody DEF Exec
  <2>4. Ordinary(<<Do("match", Tail(Node))>>)
    BY <2>1, OrdinaryOne DEF Do, IsItem
  <2>5. Ordinary(<<Eval(Node[1].pattern), Do("compare", Node)>>)
    BY <2>1, <1>2, <1>4, OrdinaryTwo DEF Eval, Do, IsItem, IsExpression
  <2> QED BY <1>1, <2>2, <2>3, <2>4, <2>5, Pushes
<1> QED BY <1>3, <1>4

LEMMA LoopsAreWithin ==
  ASSUME Agenda, ExpandRange \/ Iterate \/ EndExpand
  PROVE  Within
<1>1. CASE ExpandRange
  <2> DEFINE var  == <<Node.var, Plain>>
             loop == Do("iterate", [loop |-> Node, left |-> Counted(Val2.v, Val1.v),
                                    prior |-> IF var \in DOMAIN locals THEN locals[var] ELSE NoValue])
  <2>1. todo # <<>> /\ Item.do = "range" /\ UNCHANGED <<code, fn, saved, returned, values, out, statics>>
    BY <1>1 DEF ExpandRange, Is, Continue, Keep, env, frame, ghost
  <2>2. Node.body \in Seq(Statements)
    BY <2>1, HeadIsItem DEF IsItem, Node
  <2>3. todo' = <<loop>> \o Later
    BY <1>1 DEF ExpandRange, Continue
  <2>4. IsItem(loop) /\ loop.do \notin {"leave", "declare"}
    BY <2>2 DEF Do, IsItem
  <2> HIDE DEF loop
  <2> QED BY <2>1, <2>3, <2>4, OrdinaryOne, Pushes
<1>2. CASE Iterate
  <2>1. todo # <<>> /\ Item.do = "iterate" /\ UNCHANGED <<code, fn, saved, returned, values, out, statics>>
    BY <1>2 DEF Iterate, Is, Continue, frame, ghost
  <2>2. Node.loop.body \in Seq(Statements)
    BY <2>1, HeadIsItem DEF IsItem, Node
  <2>7. DOMAIN Node = {"loop", "left", "prior"}
    BY <2>1, HeadIsItem DEF IsItem, Node
  <2> DEFINE sub  == [bind |-> Bind(Node.loop.var, Head(Node.left)), from |-> Node.loop.from]
             next == Do("iterate", [Node EXCEPT !.left = Tail(@)])
  <2>3. todo' = (Body(Node.loop.body, sub) \o <<next>>) \o Later
    BY <1>2 DEF Iterate, Continue
  <2>4. Ordinary(Body(Node.loop.body, sub))
    BY <2>2, OrdinaryBody
  <2>5. IsItem(next) /\ next.do \notin {"leave", "declare"}
    <3>1. LET new == [Node EXCEPT !.left = Tail(@)]
          IN  DOMAIN new = DOMAIN Node /\ new.loop = Node.loop
      BY <2>7
    <3> QED BY <3>1, <2>2, <2>7 DEF Do, IsItem
  <2> HIDE DEF next, sub
  <2>6. Ordinary(Body(Node.loop.body, sub) \o <<next>>)
    BY <2>4, <2>5, OrdinaryOne, OrdinaryBoth
  <2> QED BY <2>1, <2>3, <2>6, Pushes
<1>3. CASE EndExpand
  <2>1. todo # <<>> /\ Item.do = "iterate" /\ UNCHANGED <<code, fn, saved, returned, values, out, statics>>
    BY <1>3 DEF EndExpand, Is, Continue, frame, ghost
  <2>2. todo' = <<>> \o Later
    BY <1>3 DEF EndExpand, Continue
  <2> QED BY <2>1, <2>2, OrdinaryNone, Pushes
<1> QED BY <1>1, <1>2, <1>3

-----------------------------------------------------------------------------
(* The stack of frames and the list of things to do agree.                 *)

LEMMA Pushed ==
  ASSUME NEW s, IsList(s), NEW x
  PROVE  /\ Len(s) \in Nat /\ IsList(Append(s, x)) /\ Len(Append(s, x)) = Len(s) + 1
         /\ \A i \in 1..Len(s) : Append(s, x)[i] = s[i]
         /\ Append(s, x)[Len(s) + 1] = x
         /\ SubSeq(Append(s, x), 1, Len(s)) = s
<1>1. PICK S : s \in Seq(S)
  BY DEF IsList
<1> DEFINE U == S \cup {x}
<1>2. s \in Seq(U) /\ x \in U /\ Len(s) \in Nat
  BY <1>1
<1> HIDE DEF U
<1>3. /\ Append(s, x) \in Seq(U) /\ Len(Append(s, x)) = Len(s) + 1
      /\ \A i \in 1..Len(s) : Append(s, x)[i] = s[i]
      /\ Append(s, x)[Len(s) + 1] = x
  BY <1>2, AppendProperties
<1>4. SubSeq(Append(s, x), 1, Len(s)) = s
  <2>1. \A i \in 1..Len(s) : Append(s, x)[i] \in U
    BY <1>2, <1>3
  <2>2. /\ SubSeq(Append(s, x), 1, Len(s)) \in Seq(U)
        /\ Len(SubSeq(Append(s, x), 1, Len(s))) = Len(s)
        /\ \A i \in 1..Len(s) : SubSeq(Append(s, x), 1, Len(s))[i] = Append(s, x)[i]
    BY <1>2, <2>1, SubSeqProperties
  <2> QED BY <1>2, <1>3, <2>2
<1> QED BY <1>2, <1>3, <1>4 DEF IsList

LEMMA Popped ==
  ASSUME NEW s, IsList(s), Len(s) > 0
  PROVE  /\ IsList(SubSeq(s, 1, Len(s) - 1)) /\ Len(SubSeq(s, 1, Len(s) - 1)) = Len(s) - 1
         /\ \A i \in 1..(Len(s) - 1) : SubSeq(s, 1, Len(s) - 1)[i] = s[i]
         /\ Append(SubSeq(s, 1, Len(s) - 1), s[Len(s)]) = s
<1>1. PICK S : s \in Seq(S)
  BY DEF IsList
<1>2. Len(s) \in Nat /\ \A i \in 1..Len(s) : s[i] \in S
  BY <1>1
<1> DEFINE t == SubSeq(s, 1, Len(s) - 1)
<1>3. /\ t \in Seq(S) /\ Len(t) = Len(s) - 1
      /\ \A i \in 1..(Len(s) - 1) : t[i] = s[i]
  <2>1. /\ SubSeq(s, 1, Len(s) - 1) \in Seq(S)
        /\ Len(SubSeq(s, 1, Len(s) - 1)) = IF 1 <= Len(s) - 1 THEN Len(s) - 1 - 1 + 1 ELSE 0
        /\ \A i \in 1..(Len(s) - 1 - 1 + 1) : SubSeq(s, 1, Len(s) - 1)[i] = s[1 + i - 1]
    <3>1. 1 \in Int /\ Len(s) - 1 \in Int /\ \A i \in 1..(Len(s) - 1) : s[i] \in S
      BY <1>2
    <3> QED BY <3>1, SubSeqProperties
  <2>2. Len(s) - 1 \in Nat /\ Len(s) - 1 - 1 + 1 = Len(s) - 1
    BY <1>2
  <2>3. Len(t) = Len(s) - 1
    BY <2>1, <2>2
  <2>4. ASSUME NEW i \in 1..(Len(s) - 1) PROVE t[i] = s[i]
    <3>1. 1 + i - 1 = i /\ i \in 1..(Len(s) - 1 - 1 + 1)
      BY <2>2
    <3> QED BY <3>1, <2>1
  <2> QED BY <2>1, <2>3, <2>4
<1> HIDE DEF t
<1>4. Append(t, s[Len(s)]) = s
  <2>1. s[Len(s)] \in S
    BY <1>2
  <2>2. /\ Append(t, s[Len(s)]) \in Seq(S) /\ Len(Append(t, s[Len(s)])) = Len(s)
        /\ \A i \in 1..(Len(s) - 1) : Append(t, s[Len(s)])[i] = t[i]
        /\ Append(t, s[Len(s)])[Len(s)] = s[Len(s)]
    BY <1>2, <1>3, <2>1, AppendProperties
  <2>3. \A i \in 1..Len(s) : Append(t, s[Len(s)])[i] = s[i]
    BY <1>2, <1>3, <2>2
  <2> QED BY <1>1, <2>2, <2>3
<1> QED BY <1>3, <1>4 DEF IsList, t

LEMMA NoLeavePending ==
  ASSUME NEW list, \A i \in 1..Len(list) : list[i].do # "leave"
  PROVE  Pending(list, 0)
<1> DEFINE at == [k \in 1..0 |-> 1]
<1>1. \A k : k \notin 1..0
  OBVIOUS
<1>2. at \in [1..0 -> 1..Len(list)]
  BY <1>1
<1> HIDE DEF at
<1>3. \A k, l \in 1..0 : k < l => at[l] < at[k]
  BY <1>1
<1>4. \A i \in 1..Len(list) : list[i].do = "leave" <=> \E k \in 1..0 : at[k] = i
  BY <1>1
<1> QED BY <1>2, <1>3, <1>4 DEF Pending

LEMMA NothingLeft == Pending(<<>>, 0)
<1>1. \A i : i \notin 1..Len(<<>>)
  OBVIOUS
<1> QED BY <1>1, NoLeavePending

(* The invariant holds initially, and each kind of step keeps it.          *)
LEMMA AgendaInit == Init => Agenda
<1> SUFFICES ASSUME Init PROVE Agenda
  OBVIOUS
<1>1. todo = <<>> /\ saved = <<>> /\ code \in Programs
  BY DEF Init
<1>2. <<>> \in Seq({}) /\ Len(<<>>) = 0
  OBVIOUS
<1> QED BY <1>1, <1>2, NothingLeft DEF Agenda, IsList

LEMMA SplicedItems ==
  ASSUME NEW items, IsList(items), \A i \in 1..Len(items) : IsItem(items[i]),
         Agenda, todo # <<>>
  PROVE  /\ IsList(items \o Tail(todo))
         /\ \A i \in 1..Len(items \o Tail(todo)) : IsItem((items \o Tail(todo))[i])
<1>1. IsList(todo) /\ \A i \in 1..Len(todo) : IsItem(todo[i])
  BY DEF Agenda
<1> DEFINE new == items \o Tail(todo)
<1>2. /\ IsList(new) /\ Len(items) \in Nat /\ Len(todo) \in Nat /\ Len(todo) > 0
      /\ Len(new) = Len(items) + Len(todo) - 1
      /\ \A i \in 1..Len(items) : new[i] = items[i]
      /\ \A i \in 1..(Len(items) + Len(todo) - 1) :
              i > Len(items) => /\ i - Len(items) + 1 \in 2..Len(todo)
                                /\ new[i] = todo[i - Len(items) + 1]
  BY <1>1, Splicing
<1> HIDE DEF new
<1>3. ASSUME NEW i \in 1..Len(new) PROVE IsItem(new[i])
  <2>1. CASE i <= Len(items)
    <3>1. i \in 1..Len(items)
      BY <1>2, <2>1
    <3> QED BY <3>1, <1>2
  <2>2. CASE i > Len(items)
    <3>1. i - Len(items) + 1 \in 2..Len(todo) /\ new[i] = todo[i - Len(items) + 1]
      BY <1>2, <2>2
    <3>2. i - Len(items) + 1 \in 1..Len(todo)
      BY <3>1, <1>2
    <3> QED BY <3>1, <3>2, <1>1
  <2> QED BY <2>1, <2>2, <1>2
<1> QED BY <1>2, <1>3 DEF new

LEMMA WithinKeepsAgenda ==
  ASSUME Agenda, Within
  PROVE  Agenda'
<1>1. CASE todo' = todo
  BY <1>1 DEF Agenda, Within, Pending
<1>2. CASE todo' # todo
  <2>1. PICK items : Pushing(items) /\ todo' = items \o Tail(todo)
    BY <1>2 DEF Within, Later, Ordinary, Declaring
  <2>2. todo # <<>> /\ Item.do # "leave"
    BY <1>2 DEF Within
  <2>3. IsList(items) /\ \A i \in 1..Len(items) : IsItem(items[i]) /\ items[i].do # "leave"
    BY <2>1 DEF Pushing
  <2>4. IsList(items \o Tail(todo)) /\ \A i \in 1..Len(items \o Tail(todo)) : IsItem((items \o Tail(todo))[i])
    BY <2>2, <2>3, SplicedItems
  <2>5. IsList(saved) /\ Len(saved) \in Nat /\ IsList(todo) /\ Pending(todo, Len(saved))
    BY DEF Agenda, IsList
  <2>6. todo[1].do # "leave"
    BY <2>2, HeadIsItem
  <2>7. Pending(items \o Tail(todo), Len(saved))
    BY <2>2, <2>3, <2>5, <2>6, PendingKept
  <2> QED BY <2>1, <2>4, <2>7 DEF Agenda, Within
<1> QED BY <1>1, <1>2

LEMMA EnterKeepsAgenda ==
  ASSUME Agenda, EnterFunction
  PROVE  Agenda'
<1> DEFINE body  == Body(code[Node.fn], Holes)
           leave == Do("leave", Node)
           items == body \o <<leave>>
           new   == [fn |-> fn, locals |-> locals, out |-> out]
<1>1. /\ todo # <<>> /\ Item.do = "invoke" /\ Node.fn \in Functions
      /\ todo' = items \o Tail(todo) /\ saved' = Append(saved, new) /\ code' = code
  BY DEF EnterFunction, Callable, Is, Continue, Later
<1>2. code[Node.fn] \in Seq(Statements)
  BY <1>1, SyntaxAssumption DEF Agenda
<1>3. IsList(body) /\ \A i \in 1..Len(body) : IsItem(body[i]) /\ body[i].do # "leave"
  BY <1>2, OrdinaryBody DEF Ordinary, Pushing
<1>4. leave.do = "leave" /\ IsItem(leave)
  BY DEF Do, IsItem
<1> HIDE DEF body, leave
<1>5. items = Append(body, leave)
  <2>1. PICK S : body \in Seq(S)
    BY <1>3 DEF IsList
  <2> QED BY <2>1, AppendIsConcat
<1> HIDE DEF items
<1>6. /\ IsList(items) /\ Len(items) = Len(body) + 1 /\ Len(body) \in Nat
      /\ \A i \in 1..Len(body) : items[i] = body[i]
      /\ items[Len(body) + 1] = leave
  BY <1>3, <1>5, Pushed
<1>7. \A i \in 1..Len(items) : IsItem(items[i])
  <2> SUFFICES ASSUME NEW i \in 1..Len(items) PROVE IsItem(items[i])
    OBVIOUS
  <2>1. i \in 1..Len(body) \/ i = Len(body) + 1
    BY <1>6
  <2> QED BY <2>1, <1>3, <1>4, <1>6
<1>8. IsList(items \o Tail(todo)) /\ \A i \in 1..Len(items \o Tail(todo)) : IsItem((items \o Tail(todo))[i])
  BY <1>1, <1>6, <1>7, SplicedItems
<1>9. IsList(saved) /\ IsList(todo) /\ Pending(todo, Len(saved))
  BY DEF Agenda
<1>10. /\ Len(saved) \in Nat /\ IsList(saved') /\ Len(saved') = Len(saved) + 1
       /\ \A i \in 1..Len(saved) : saved'[i] = saved[i]
       /\ saved'[Len(saved) + 1] = new
  BY <1>1, <1>9, Pushed
<1>11. Pending(items \o Tail(todo), Len(saved) + 1)
  <2>1. todo[1].do # "leave"
    BY <1>1, HeadIsItem
  <2>2. \A i \in 1..(Len(items) - 1) : items[i].do # "leave"
    BY <1>3, <1>6
  <2>3. Len(items) > 0 /\ items[Len(items)].do = "leave"
    BY <1>4, <1>6
  <2> QED BY <1>1, <1>6, <1>9, <1>10, <2>1, <2>2, <2>3, PendingMore
<1>12. \A i \in 1..Len(saved') :
         saved'[i] = [fn |-> saved'[i].fn, locals |-> saved'[i].locals, out |-> saved'[i].out]
  <2> SUFFICES ASSUME NEW i \in 1..Len(saved')
               PROVE  saved'[i] = [fn |-> saved'[i].fn, locals |-> saved'[i].locals, out |-> saved'[i].out]
    OBVIOUS
  <2>1. CASE i \in 1..Len(saved)
    BY <2>1, <1>10 DEF Agenda
  <2>2. CASE i = Len(saved) + 1
    BY <2>2, <1>10
  <2> QED BY <2>1, <2>2, <1>10
<1> QED BY <1>1, <1>8, <1>10, <1>11, <1>12 DEF Agenda

(* The frame a call saved is on top again when its return or its error is. *)
LEMMA RestoreKeepsAgenda ==
  ASSUME Agenda, RestoreCaller, code' = code,
         NEW j \in 1..Len(todo), todo[j].do = "leave", \A i \in 1..(j - 1) : todo[i].do # "leave",
         todo' = SubSeq(todo, j + 1, Len(todo))
  PROVE  /\ Agenda' /\ Len(saved) > 0
         /\ Append(saved', [fn |-> fn', locals |-> locals', out |-> out']) = saved
<1>1. IsList(saved) /\ IsList(todo) /\ Len(saved) \in Nat /\ Len(todo) \in Nat
      /\ Pending(todo, Len(saved))
  BY DEF Agenda, IsList
<1>2. /\ Len(saved) > 0 /\ IsList(todo') /\ Len(todo') = Len(todo) - j
      /\ \A i \in 1..(Len(todo) - j) : todo'[i] = todo[i + j]
      /\ Pending(todo', Len(saved) - 1)
  BY <1>1, PendingLess
<1>3. \A i \in 1..Len(todo') : IsItem(todo'[i])
  <2> SUFFICES ASSUME NEW i \in 1..Len(todo') PROVE IsItem(todo'[i])
    OBVIOUS
  <2>1. i + j \in 1..Len(todo) /\ todo'[i] = todo[i + j]
    BY <1>1, <1>2
  <2> QED BY <2>1 DEF Agenda
<1>4. saved' = SubSeq(saved, 1, Len(saved) - 1)
  BY DEF RestoreCaller
<1>5. /\ IsList(saved') /\ Len(saved') = Len(saved) - 1
      /\ \A i \in 1..(Len(saved) - 1) : saved'[i] = saved[i]
      /\ Append(saved', saved[Len(saved)]) = saved
  BY <1>1, <1>2, <1>4, Popped
<1>6. saved[Len(saved)] = [fn |-> fn', locals |-> locals', out |-> out']
  <2>1. Len(saved) \in 1..Len(saved)
    BY <1>1, <1>2
  <2> QED BY <2>1 DEF Agenda, RestoreCaller
<1>7. \A i \in 1..Len(saved') :
         saved'[i] = [fn |-> saved'[i].fn, locals |-> saved'[i].locals, out |-> saved'[i].out]
  <2>1. \A i \in 1..(Len(saved) - 1) : i \in 1..Len(saved)
    BY <1>1
  <2> QED BY <1>5, <2>1 DEF Agenda
<1>8. Pending(todo', Len(saved'))
  BY <1>2, <1>5
<1>9. code' \in Programs
  BY DEF Agenda
<1>10. Agenda'
  BY <1>2, <1>3, <1>5, <1>7, <1>8, <1>9 DEF Agenda
<1> QED BY <1>2, <1>5, <1>6, <1>10

LEMMA LeaveRestores ==
  ASSUME Agenda, LeaveFunction
  PROVE  /\ Agenda' /\ Len(saved) > 0
         /\ Append(saved', [fn |-> fn', locals |-> locals', out |-> out']) = saved
<1>1. todo # <<>> /\ Item.do = "leave" /\ RestoreCaller /\ todo' = <<>> \o Tail(todo) /\ code' = code
  BY DEF LeaveFunction, Is, Continue, Later
<1>2. Len(todo) \in Nat /\ Len(todo) > 0 /\ todo[1].do = "leave"
  BY <1>1, HeadIsItem
<1>3. todo' = SubSeq(todo, 1 + 1, Len(todo))
  <2>1. PICK S : todo \in Seq(S)
    BY DEF Agenda, IsList
  <2>2. Tail(todo) = SubSeq(todo, 2, Len(todo)) /\ Tail(todo) \in Seq(S)
    BY <1>1, <2>1, TailIsSubSeq
  <2>3. <<>> \o Tail(todo) = Tail(todo)
    BY <2>2
  <2> QED BY <1>1, <2>2, <2>3
<1>4. 1 \in 1..Len(todo) /\ \A i \in 1..(1 - 1) : todo[i].do # "leave"
  BY <1>2
<1> QED BY <1>1, <1>2, <1>3, <1>4, RestoreKeepsAgenda

LEMMA UnwindRestores ==
  ASSUME Agenda, Unwind
  PROVE  /\ \E j \in 1..Len(todo) :
              /\ todo[j].do = "leave" /\ \A i \in 1..(j - 1) : todo[i].do # "leave"
              /\ todo' = SubSeq(todo, j + 1, Len(todo))
         /\ Agenda' /\ Len(saved) > 0
         /\ Append(saved', [fn |-> fn', locals |-> locals', out |-> out']) = saved
<1> DEFINE first(i) == todo[i].do = "leave" /\ \A j \in 1..(i - 1) : todo[j].do # "leave"
           leave == CHOOSE i \in DOMAIN todo : first(i)
<1>1. RestoreCaller /\ code' = code /\ saved # <<>> /\ todo' = SubSeq(todo, leave + 1, Len(todo))
  BY DEF Unwind
<1>2. PICK S, T : todo \in Seq(S) /\ saved \in Seq(T)
  BY DEF Agenda, IsList
<1>3. /\ Len(saved) \in Nat /\ Len(saved) > 0
      /\ Len(todo) \in Nat /\ DOMAIN todo = 1..Len(todo)
  BY <1>1, <1>2
<1>4. PICK at :
        /\ at \in [1..Len(saved) -> 1..Len(todo)]
        /\ \A k, l \in 1..Len(saved) : k < l => at[l] < at[k]
        /\ \A i \in 1..Len(todo) : todo[i].do = "leave" <=> \E k \in 1..Len(saved) : at[k] = i
  BY DEF Agenda, Pending
<1>5. \E i \in DOMAIN todo : first(i)
  <2> DEFINE n == Len(saved)
  <2>0. n \in 1..n /\ n \in Nat
    BY <1>3
  <2>1. at[n] \in 1..Len(todo) /\ todo[at[n]].do = "leave"
    BY <2>0, <1>4
  <2>2. ASSUME NEW j \in 1..(at[n] - 1), todo[j].do = "leave" PROVE FALSE
    <3>1. j \in 1..Len(todo) /\ j < at[n]
      BY <2>1, <1>3
    <3>2. PICK k \in 1..n : at[k] = j
      BY <3>1, <2>2, <1>4
    <3>3. k < n
      BY <3>1, <3>2, <2>0, <2>1
    <3>4. at[n] < at[k]
      BY <3>3, <2>0, <1>4
    <3> QED BY <3>1, <3>2, <3>4, <2>1
  <2>3. first(at[n])
    BY <2>1, <2>2
  <2> QED BY <2>1, <2>3, <1>3
<1> HIDE DEF first
<1>6. leave \in DOMAIN todo /\ first(leave)
  BY <1>5
<1> HIDE DEF leave
<1>7. leave \in 1..Len(todo) /\ todo[leave].do = "leave" /\ \A j \in 1..(leave - 1) : todo[j].do # "leave"
  BY <1>3, <1>6 DEF first
<1> QED BY <1>1, <1>7, RestoreKeepsAgenda

LEMMA AbortKeepsAgenda == Agenda /\ Abort => Agenda'
<1> SUFFICES ASSUME Agenda, Abort PROVE Agenda'
  OBVIOUS
<1>1. todo' = <<>> /\ saved = <<>> /\ saved' = saved /\ code' = code
  BY DEF Abort, frame
<1>2. <<>> \in Seq({}) /\ Len(<<>>) = 0
  OBVIOUS
<1> QED BY <1>1, <1>2, NothingLeft DEF Agenda, IsList

LEMMA StartKeepsAgenda ==
  ASSUME Agenda, NEW s \in Scheduled, RunScript(s)
  PROVE  Agenda' /\ Len(saved) = 0
<1>1. todo = <<>> /\ todo' = Body(code[s], Holes) /\ saved' = saved /\ code' = code
  BY DEF RunScript, Idle
<1>2. Ordinary(todo')
  <2>1. code[s] \in Seq(Statements)
    BY SyntaxAssumption, ExecutorAssumption DEF Agenda
  <2> QED BY <1>1, <2>1, OrdinaryBody
<1>3. Len(saved) = 0
  <2>1. Len(saved) \in Nat /\ Pending(todo, Len(saved))
    BY DEF Agenda, IsList
  <2> QED BY <1>1, <2>1, NothingPending
<1>4. Pending(todo', Len(saved'))
  <2>1. \A i \in 1..Len(todo') : todo'[i].do # "leave"
    BY <1>2 DEF Ordinary, Pushing
  <2>2. Len(saved') = 0
    BY <1>1, <1>3
  <2> QED BY <2>1, <2>2, NoLeavePending
<1>5. IsList(todo') /\ \A i \in 1..Len(todo') : IsItem(todo'[i])
  BY <1>2 DEF Ordinary, Pushing
<1> QED BY <1>1, <1>3, <1>4, <1>5 DEF Agenda

LEMMA StepsAreWithin ==
  ASSUME Agenda, Step
  PROVE  Within \/ EnterFunction \/ LeaveFunction \/ Unwind \/ Abort
BY OperandsAreWithin, UnfoldIsWithin, ConditionsAreWithin, SlotsAreWithin, StatementIsWithin,
   DeclarationsAreWithin, ClausesAreWithin, LoopsAreWithin DEF Step

LEMMA StutterIsWithin == UNCHANGED vars => Within
BY DEF vars, env, frame, ghost, Within, Quiet

LEMMA AgendaKept == Agenda /\ [Next]_vars => Agenda'
<1> SUFFICES ASSUME Agenda, [Next]_vars PROVE Agenda'
  OBVIOUS
<1>1. CASE Within
  BY <1>1, WithinKeepsAgenda
<1>2. CASE EnterFunction
  BY <1>2, EnterKeepsAgenda
<1>3. CASE LeaveFunction
  BY <1>3, LeaveRestores
<1>4. CASE Unwind
  BY <1>4, UnwindRestores
<1>5. CASE Abort
  BY <1>5, AbortKeepsAgenda
<1>6. ASSUME NEW s \in Scheduled, RunScript(s) PROVE Agenda'
  BY <1>6, StartKeepsAgenda
<1> QED BY <1>1, <1>2, <1>3, <1>4, <1>5, <1>6, StepsAreWithin, StutterIsWithin DEF Next

-----------------------------------------------------------------------------
(* The evaluator implements a stack of frames.                             *)

LEMMA StartsLexical == Init => Lexical!Init
<1> SUFFICES ASSUME Init PROVE Lexical!Init
  OBVIOUS
<1> DEFINE new == [fn |-> fn, locals |-> locals, out |-> out]
<1>1. /\ saved = <<>> /\ locals = <<>> /\ out = NoValue /\ statics = <<>> /\ returned = NoValue
  BY DEF Init
<1>2. Append(saved, new) = <<new>> /\ Len(<<new>>) = 1 /\ <<new>>[1] = new
  BY <1>1
<1> QED BY <1>1, <1>2 DEF Lexical!Init, Lexical!Depth, Lexical!Top

(* The running frame lies on the saved ones.                               *)
LEMMA StackShape ==
  ASSUME Agenda
  PROVE  /\ Len(saved) \in Nat /\ IsList(saved)
         /\ Lexical!Depth = Len(saved) + 1
         /\ Lexical!Top = [fn |-> fn, locals |-> locals, out |-> out]
         /\ Lexical!Callers = saved
<1>1. IsList(saved)
  BY DEF Agenda
<1> DEFINE new   == [fn |-> fn, locals |-> locals, out |-> out]
           stack == Append(saved, new)
<1>2. /\ Len(saved) \in Nat /\ Len(stack) = Len(saved) + 1 /\ stack[Len(saved) + 1] = new
      /\ SubSeq(stack, 1, Len(saved)) = saved
  BY <1>1, Pushed
<1>3. Len(saved) + 1 - 1 = Len(saved)
  BY <1>2
<1> QED BY <1>1, <1>2, <1>3 DEF Lexical!Depth, Lexical!Top, Lexical!Callers

LEMMA StackShapeNext ==
  ASSUME Agenda'
  PROVE  /\ Len(saved') \in Nat /\ IsList(saved')
         /\ LET stack == Append(saved', [fn |-> fn', locals |-> locals', out |-> out'])
            IN  /\ Len(stack) = Len(saved') + 1
                /\ stack[Len(stack)] = [fn |-> fn', locals |-> locals', out |-> out']
                /\ SubSeq(stack, 1, Len(saved')) = saved'
<1>1. IsList(saved')
  BY DEF Agenda
<1> QED BY <1>1, Pushed

LEMMA WithinIsWork ==
  ASSUME Agenda, Within
  PROVE  Lexical!Work
<1> DEFINE new   == [fn |-> fn', locals |-> locals', out |-> out']
           stack == Append(saved', new)
<1>1. Agenda'
  BY WithinKeepsAgenda
<1>2. /\ Len(stack) = Len(saved) + 1 /\ stack[Len(stack)] = new
      /\ SubSeq(stack, 1, Len(saved)) = saved
      /\ fn' = fn /\ returned' = returned /\ saved' = saved
  BY <1>1, StackShapeNext DEF Within
<1>3. /\ Lexical!Depth = Len(saved) + 1 /\ Lexical!Depth - 1 = Len(saved)
      /\ Lexical!Top.fn = fn /\ Lexical!Callers = saved
  BY StackShape
<1>4. /\ DOMAIN statics \subseteq DOMAIN statics'
      /\ \A k \in DOMAIN statics' :
           k[1] # fn => k \in DOMAIN statics /\ statics'[k] = statics[k]
  <2>1. CASE statics' = statics
    BY <2>1
  <2>2. CASE \E key, x : statics' = Put(statics, <<fn, key>>, x)
    BY <2>2 DEF Put
  <2>3. Stores \/ Declares => statics' = statics \/ \E key, x : statics' = Put(statics, <<fn, key>>, x)
    BY DEF Stores, Declares, Write, DeclareWith
  <2> QED BY <2>1, <2>2, <2>3 DEF Within, Quiet
<1>5. new.fn = fn' /\ DOMAIN new = {"fn", "locals", "out"}
  OBVIOUS
<1> HIDE DEF new
<1> QED BY <1>2, <1>3, <1>4, <1>5 DEF Lexical!Work, Lexical!Top, Lexical!Depth, Lexical!IsFrame, new

LEMMA EnterIsCall ==
  ASSUME Agenda, EnterFunction
  PROVE  Lexical!Call
<1> DEFINE old   == [fn |-> fn, locals |-> locals, out |-> out]
           new   == [fn |-> fn', locals |-> locals', out |-> out']
           stack == Append(saved', new)
<1>1. Agenda'
  BY EnterKeepsAgenda
<1>2. saved' = Append(saved, old) /\ out' = NoValue /\ statics' = statics /\ returned' = returned
  BY DEF EnterFunction, ghost
<1>3. fn' = Node.fn /\ DOMAIN locals' = Parameters(Node.fn)
  BY DEF EnterFunction
<1>4. /\ Len(saved) \in Nat /\ Lexical!Depth = Len(saved) + 1 /\ Len(saved') = Len(saved) + 1
  BY <1>2, StackShape, Pushed
<1>5. /\ Len(stack) = Len(saved') + 1 /\ stack[Len(stack)] = new
      /\ SubSeq(stack, 1, Len(saved')) = saved'
  BY <1>1, StackShapeNext
<1>6. new.fn = fn' /\ new.locals = locals' /\ new.out = out' /\ DOMAIN new = {"fn", "locals", "out"}
  OBVIOUS
<1> HIDE DEF new
<1> QED BY <1>2, <1>3, <1>4, <1>5, <1>6
     DEF Lexical!Call, Lexical!Top, Lexical!Depth, Lexical!IsFrame, new, old

LEMMA LeaveIsReturn ==
  ASSUME Agenda, LeaveFunction
  PROVE  Lexical!Return
<1>1. /\ Len(saved) > 0
      /\ Append(saved', [fn |-> fn', locals |-> locals', out |-> out']) = saved
  BY LeaveRestores
<1>2. /\ returned' = (IF out = NoValue THEN True ELSE out) /\ statics' = statics
  BY DEF LeaveFunction
<1>3. /\ Lexical!Depth > 1 /\ Lexical!Top.out = out /\ Lexical!Callers = saved
  BY <1>1, StackShape
<1> QED BY <1>1, <1>2, <1>3 DEF Lexical!Return

LEMMA UnwindIsAbandon ==
  ASSUME Agenda, Unwind
  PROVE  Lexical!Abandon
<1>1. /\ Len(saved) > 0
      /\ Append(saved', [fn |-> fn', locals |-> locals', out |-> out']) = saved
  BY UnwindRestores
<1>2. statics' = statics /\ returned' = returned
  BY DEF Unwind, ghost
<1>3. /\ Lexical!Depth > 1 /\ Lexical!Callers = saved
  BY <1>1, StackShape
<1> QED BY <1>1, <1>2, <1>3 DEF Lexical!Abandon

LEMMA AbortIsStutter ==
  ASSUME Agenda, Abort
  PROVE  UNCHANGED Lexical!framesVars
BY DEF Abort, env, frame, ghost, Lexical!framesVars

LEMMA RunIsStart ==
  ASSUME Agenda, NEW s \in Scheduled, RunScript(s)
  PROVE  Lexical!Start
<1> DEFINE new   == [fn |-> fn', locals |-> locals', out |-> out']
           stack == Append(saved', new)
<1>1. Agenda' /\ Len(saved) = 0
  BY StartKeepsAgenda
<1>2. /\ saved' = saved /\ locals' = locals /\ out' = out
      /\ statics' = statics /\ returned' = returned
  BY DEF RunScript, env, ghost
<1>3. Lexical!Depth = 1 /\ Lexical!Top.locals = locals /\ Lexical!Top.out = out
  BY <1>1, StackShape
<1>4. Len(stack) = 1 /\ stack[Len(stack)] = new
  BY <1>1, <1>2, StackShapeNext
<1>5. new.fn = fn' /\ new.locals = locals' /\ new.out = out' /\ DOMAIN new = {"fn", "locals", "out"}
  OBVIOUS
<1> HIDE DEF new
<1> QED BY <1>2, <1>3, <1>4, <1>5 DEF Lexical!Start, Lexical!Top, Lexical!Depth, Lexical!IsFrame, new

LEMMA StepIsLexical == Agenda /\ [Next]_vars => [Lexical!Next]_Lexical!framesVars
<1> SUFFICES ASSUME Agenda, [Next]_vars PROVE [Lexical!Next]_Lexical!framesVars
  OBVIOUS
<1>1. CASE Within
  BY <1>1, WithinIsWork DEF Lexical!Next
<1>2. CASE EnterFunction
  BY <1>2, EnterIsCall DEF Lexical!Next
<1>3. CASE LeaveFunction
  BY <1>3, LeaveIsReturn DEF Lexical!Next
<1>4. CASE Unwind
  BY <1>4, UnwindIsAbandon DEF Lexical!Next
<1>5. CASE Abort
  BY <1>5, AbortIsStutter
<1>6. ASSUME NEW s \in Scheduled, RunScript(s) PROVE Lexical!Next
  BY <1>6, RunIsStart DEF Lexical!Next
<1> QED BY <1>1, <1>2, <1>3, <1>4, <1>5, <1>6, StepsAreWithin, StutterIsWithin DEF Next

(* Calls and the list of things to do always agree: a script ends with no    *)
(* caller saved, and an error that leaves a callee finds where to go on      *)
(* (userfn.rs call_with_runtime, stmt.rs exec_with_runtime).                        *)
THEOREM AgendaHolds == Spec => []Agenda
<1>1. Init => Agenda
  BY AgendaInit
<1>2. Agenda /\ [Next]_vars => Agenda'
  BY AgendaKept
<1> QED BY <1>1, <1>2, PTL DEF Spec

(* Whatever the programs, the signatures and the depth allowed: one map of   *)
(* locals and one Out (env.rs) behave as a stack of frames does through      *)
(* calls, returns, refused calls and errors (userfn.rs call_with_runtime).   *)
THEOREM LexicalForEver == Spec => CallsAreLexical
<1>1. Init => Lexical!Init
  BY StartsLexical
<1>2. Agenda /\ [Next]_vars => [Lexical!Next]_Lexical!framesVars
  BY StepIsLexical
<1> QED BY <1>1, <1>2, AgendaHolds, PTL DEF Spec, CallsAreLexical, Lexical!Spec

-----------------------------------------------------------------------------
(* What slots hold.                                                        *)

LEMMA CoercedFamily ==
  ASSUME NEW x, NEW d, d # "unknown", ~IsError(Coerce(x, d))
  PROVE  Coerce(x, d).fam = d
<1>1. IsError(Fail)
  BY DEF IsError, Fail, Val
<1>2. \A f, n : Val(f, n).fam = f
  BY DEF Val
<1>3. CASE x.fam = d /\ d \in {"bool", "str"} \cup Enums
  BY <1>3 DEF Coerce
<1>4. CASE ~(x.fam = d /\ d \in {"bool", "str"} \cup Enums) /\ d \in Enums /\ x.fam \in Numeric
  <2>1. Coerce(x, d) = FirstMember(Matching(x, d), d)
    BY <1>4 DEF Coerce
  <2> QED BY <2>1, <1>1, <1>2 DEF FirstMember
<1>5. CASE ~(x.fam = d /\ d \in {"bool", "str"} \cup Enums) /\ ~(d \in Enums /\ x.fam \in Numeric)
  <2>1. Coerce(x, d) = IF d \in Numeric THEN CoerceScalar(x, d) ELSE Fail
    BY <1>5 DEF Coerce
  <2>2. Coerce(x, d) = CoerceScalar(x, d)
    BY <2>1, <1>1
  <2> QED BY <2>2, <1>1, <1>2 DEF CoerceScalar, Wrapped
<1> QED BY <1>3, <1>4, <1>5

LEMMA KeptFamily ==
  ASSUME NEW x, NEW old, old.fam \in Numeric, ~IsError(Kept(x, old))
  PROVE  Kept(x, old).fam = old.fam
<1>1. IsError(Fail)
  BY DEF IsError, Fail, Val
<1>2. \A f, n : Val(f, n).fam = f
  BY DEF Val
<1>3. Kept(x, old) = CoerceScalar(x, old.fam)
  BY DEF Kept
<1> QED BY <1>1, <1>2, <1>3 DEF CoerceScalar, Wrapped

(* A declared channel holds its family, and so does the Out of every called *)
(* function, the one that runs and those that wait for their callees.       *)
Answers(f, x) == x # NoValue /\ Signatures[f].returns \in Numeric => x.fam = Signatures[f].returns

Families ==
  /\ \A k \in DOMAIN values : Channels[k] # "unknown" => values[k].fam = Channels[k]
  /\ saved # <<>> => Answers(fn, out)
  /\ \A i \in 2..Len(saved) : Answers(saved[i].fn, saved[i].out)

ChannelsKept == \A k \in DOMAIN values' :
  IF Channels[k] # "unknown" THEN values'[k].fam = Channels[k]
  ELSE k \in DOMAIN values /\ values[k].fam \in Numeric => values'[k].fam = values[k].fam

OutKept == saved' # <<>> /\ out' # NoValue /\ Signatures[fn'].returns \in Numeric =>
             out'.fam = Signatures[fn'].returns

StaticsKept == \A k \in DOMAIN statics :
  statics[k].fam \in Numeric => statics'[k].fam = statics[k].fam

LEMMA NumericFamilies == "unknown" \notin Numeric /\ "inferred" \notin Numeric
BY DEF Numeric, Integral

LEMMA StoredFamilies ==
  ASSUME Families, saved' = saved, fn' = fn, Quiet \/ Stores \/ Declares
  PROVE  Families' /\ ChannelsKept /\ OutKept
<1>1. CASE UNCHANGED <<values, out>>
  BY <1>1 DEF Families, ChannelsKept, OutKept, Answers
<1>2. CASE Stores
  <2>1. PICK d, y : ~IsError(Stored(d, y)) /\ Write(d, Stored(d, y))
    BY <1>2 DEF Stores
  <2> DEFINE x == Stored(d, y)
  <2>2. CASE d.slot = "channel"
    <3>1. out' = out /\ values' = Put(values, d.key, x)
      BY <2>1, <2>2 DEF Write
    <3>2. x = IF Channels[d.key] = "unknown" /\ d.key \in DOMAIN values
              THEN Kept(y, values[d.key]) ELSE Coerce(y, Channels[d.key])
      BY <2>2 DEF Stored
    <3>3. Channels[d.key] # "unknown" => x.fam = Channels[d.key]
      BY <2>1, <3>2, CoercedFamily
    <3>4. d.key \in DOMAIN values /\ values[d.key].fam \in Numeric /\ Channels[d.key] = "unknown"
            => x.fam = values[d.key].fam
      BY <2>1, <3>2, KeptFamily
    <3> HIDE DEF x
    <3>5. /\ DOMAIN values' = DOMAIN values \cup {d.key} /\ values'[d.key] = x
          /\ \A k \in DOMAIN values : k # d.key => values'[k] = values[k]
      BY <3>1 DEF Put
    <3>6. \A k \in DOMAIN values' : Channels[k] # "unknown" => values'[k].fam = Channels[k]
      BY <3>3, <3>5 DEF Families
    <3>7. ChannelsKept
      BY <3>4, <3>5, <3>6 DEF ChannelsKept
    <3>8. OutKept /\ (saved' # <<>> => Answers(fn, out)') /\ \A i \in 2..Len(saved') : Answers(saved'[i].fn, saved'[i].out)
      BY <3>1 DEF OutKept, Families, Answers
    <3> QED BY <3>6, <3>7, <3>8 DEF Families
  <2>3. CASE d.slot = "out"
    <3>1. out' = x /\ values' = values
      BY <2>1, <2>3 DEF Write
    <3>2. Signatures[fn].returns \in Numeric => x.fam = Signatures[fn].returns
      <4>1. HAVE Signatures[fn].returns \in Numeric
      <4>2. x = Coerce(y, Signatures[fn].returns)
        BY <2>3, <4>1, NumericFamilies DEF Stored
      <4> QED BY <2>1, <4>1, <4>2, CoercedFamily, NumericFamilies
    <3> HIDE DEF x
    <3>3. Answers(fn, out)'
      BY <3>1, <3>2 DEF Answers
    <3> QED BY <3>1, <3>3 DEF Families, Answers, ChannelsKept, OutKept
  <2>4. CASE d.slot \notin {"channel", "out"}
    <3>1. UNCHANGED <<values, out>>
      BY <2>1, <2>4 DEF Write
    <3> QED BY <3>1, <1>1
  <2> QED BY <2>2, <2>3, <2>4
<1>3. CASE Declares
  <2>1. UNCHANGED <<values, out>>
    BY <1>3 DEF Declares, DeclareWith
  <2> QED BY <2>1, <1>1
<1> QED BY <1>1, <1>2, <1>3 DEF Quiet

LEMMA CalledFamilies ==
  ASSUME Agenda, Families, EnterFunction
  PROVE  Families' /\ ChannelsKept /\ OutKept
<1>1. /\ out' = NoValue /\ values' = values
      /\ saved' = Append(saved, [fn |-> fn, locals |-> locals, out |-> out])
  BY DEF EnterFunction
<1>2. IsList(saved)
  BY DEF Agenda
<1>3. /\ Len(saved) \in Nat /\ Len(saved') = Len(saved) + 1
      /\ \A i \in 1..Len(saved) : saved'[i] = saved[i]
      /\ saved'[Len(saved) + 1] = [fn |-> fn, locals |-> locals, out |-> out]
  BY <1>1, <1>2, Pushed
<1>4. \A i \in 2..Len(saved') : Answers(saved'[i].fn, saved'[i].out)
  <2> SUFFICES ASSUME NEW i \in 2..Len(saved') PROVE Answers(saved'[i].fn, saved'[i].out)
    OBVIOUS
  <2>1. CASE i \in 2..Len(saved)
    <3>1. saved'[i] = saved[i]
      BY <1>3, <2>1
    <3> QED BY <3>1, <2>1 DEF Families
  <2>2. CASE i = Len(saved) + 1
    <3>1. saved'[i].fn = fn /\ saved'[i].out = out
      BY <1>3, <2>2
    <3>2. saved # <<>>
      BY <1>3, <2>2
    <3> QED BY <3>1, <3>2 DEF Families
  <2> QED BY <2>1, <2>2, <1>3
<1>5. Answers(fn, out)'
  BY <1>1 DEF Answers
<1> QED BY <1>1, <1>4, <1>5 DEF Families, ChannelsKept, OutKept

LEMMA ReturnedFamilies ==
  ASSUME Agenda, Families, RestoreCaller, values' = values, Len(saved) > 0
  PROVE  Families' /\ ChannelsKept /\ OutKept
<1>1. /\ fn' = saved[Len(saved)].fn /\ out' = saved[Len(saved)].out
      /\ saved' = SubSeq(saved, 1, Len(saved) - 1)
  BY DEF RestoreCaller
<1>2. IsList(saved) /\ Len(saved) \in Nat
  BY DEF Agenda, IsList
<1>3. /\ IsList(saved') /\ Len(saved') = Len(saved) - 1
      /\ \A i \in 1..(Len(saved) - 1) : saved'[i] = saved[i]
  BY <1>1, <1>2, Popped
<1>4. saved' # <<>> => Answers(fn, out)'
  <2>1. saved' # <<>> => Len(saved') > 0
    BY <1>3 DEF IsList
  <2>2. saved' # <<>> => Len(saved) \in 2..Len(saved)
    BY <2>1, <1>2, <1>3
  <2> QED BY <1>1, <2>2 DEF Families, Answers
<1>5. \A i \in 2..Len(saved') : Answers(saved'[i].fn, saved'[i].out)
  <2> SUFFICES ASSUME NEW i \in 2..Len(saved') PROVE Answers(saved'[i].fn, saved'[i].out)
    OBVIOUS
  <2>1. i \in 2..Len(saved) /\ saved'[i] = saved[i]
    BY <1>2, <1>3
  <2> QED BY <2>1 DEF Families
<1>6. OutKept
  BY <1>4 DEF OutKept, Answers
<1> QED BY <1>4, <1>5, <1>6 DEF Families, ChannelsKept

LEMMA FamiliesInit == Init => Families
<1> SUFFICES ASSUME Init PROVE Families
  OBVIOUS
<1>1. values = <<>> /\ saved = <<>>
  BY DEF Init
<1>2. DOMAIN <<>> = {} /\ Len(<<>>) = 0
  OBVIOUS
<1> QED BY <1>1, <1>2 DEF Families

LEMMA FamiliesKept == Agenda /\ Families /\ [Next]_vars => Families' /\ ChannelsKept /\ OutKept
<1> SUFFICES ASSUME Agenda, Families, [Next]_vars PROVE Families' /\ ChannelsKept /\ OutKept
  OBVIOUS
<1>1. CASE Within
  BY <1>1, StoredFamilies DEF Within
<1>2. CASE EnterFunction
  BY <1>2, CalledFamilies
<1>3. CASE LeaveFunction
  BY <1>3, LeaveRestores, ReturnedFamilies DEF LeaveFunction
<1>4. CASE Unwind
  BY <1>4, UnwindRestores, ReturnedFamilies DEF Unwind
<1>5. CASE Abort
  BY <1>5, StoredFamilies DEF Abort, env, frame, Quiet
<1>6. ASSUME NEW s \in Scheduled, RunScript(s) PROVE Families' /\ ChannelsKept /\ OutKept
  <2>1. saved = <<>> /\ Len(saved) = 0
    <3>1. IsList(saved) /\ Len(saved) = 0
      BY <1>6, StartKeepsAgenda DEF Agenda
    <3> QED BY <3>1 DEF IsList
  <2>2. UNCHANGED <<values, out, saved>>
    BY <1>6 DEF RunScript, env
  <2> QED BY <2>1, <2>2 DEF Families, ChannelsKept, OutKept
<1> QED BY <1>1, <1>2, <1>3, <1>4, <1>5, <1>6, StepsAreWithin, StutterIsWithin DEF Next

-----------------------------------------------------------------------------
(* Statics whose initialisers call no function.                            *)

\* Expressions in which no function with a script is called: operators of the
\* library are, and other expressions of the set.
CallFree(S) ==
  /\ S \subseteq Expressions
  /\ \A e \in S :
       /\ e.k = "unary" => e.e \in S
       /\ e.k \in {"binary", "logical", "ternary"} => e.l \in S /\ e.r \in S
       /\ e.k = "ternary" => e.c \in S
       /\ e.k = "call" => e.fn \notin Functions /\ e.args \in Seq(S)

Initialisers(S) == \A s \in Statements : s.k = "static" /\ s.init # <<>> => s.init[1] \in S

InitialisersCallNothing == \E S : CallFree(S) /\ Initialisers(S)

\* What is left to do of such an expression.
Harmless(S, it) ==
  \/ it.do = "eval" /\ (it.node \in S \/ it.node.k = "lit")
  \/ it.do \in {"unary", "binary", "truth"}
  \/ it.do = "decide" /\ it.node.r \in S
  \/ it.do = "choose" /\ it.node.l \in S /\ it.node.r \in S
  \/ it.do = "invoke" /\ it.node.fn \notin Functions

DeclaresStatic(it) == it.do = "declare" /\ it.node.k = "static"
KeyOf(it) == <<it.node.path.name,
               IF it.node.path.hole = "none" THEN Plain ELSE it.sub.bind[it.node.path.hole]>>

\* While an initialiser is evaluated its static stays uninitialised.
Guarded(S) ==
  \A i \in 1..Len(todo) : DeclaresStatic(todo[i]) =>
    /\ \A j \in 1..(i - 1) : Harmless(S, todo[j])
    /\ <<fn, KeyOf(todo[i])>> \notin DOMAIN statics

LEMMA HarmlessSteps ==
  ASSUME NEW S, CallFree(S), Agenda, todo # <<>>, Harmless(S, Item), Step, ~Unwind, ~Abort
  PROVE  /\ UNCHANGED <<fn, statics>>
         /\ \/ todo' = todo
            \/ \E items : /\ IsList(items) /\ \A i \in 1..Len(items) : Harmless(S, items[i])
                          /\ todo' = items \o Tail(todo)
<1> DEFINE Harmlessly(items) == IsList(items) /\ \A i \in 1..Len(items) : Harmless(S, items[i])
<1>0. /\ Harmlessly(<<>>)
      /\ \A x : Harmless(S, x) => Harmlessly(<<x>>)
      /\ \A x, y : Harmless(S, x) /\ Harmless(S, y) => Harmlessly(<<x, y>>)
      /\ \A x, y, z : Harmless(S, x) /\ Harmless(S, y) /\ Harmless(S, z) => Harmlessly(<<x, y, z>>)
  <2>1. <<>> \in Seq({}) /\ Len(<<>>) = 0
    OBVIOUS
  <2>2. ASSUME NEW x, Harmless(S, x) PROVE Harmlessly(<<x>>)
    <3> DEFINE items == <<x>>
    <3>1. IsList(items) /\ Len(items) = 1 /\ items[1] = x
      BY ListOfOne
    <3>2. \A i \in 1..1 : i = 1
      OBVIOUS
    <3> HIDE DEF items
    <3>3. Harmlessly(items)
      BY <3>1, <3>2, <2>2
    <3> QED BY <3>3 DEF items
  <2>3. ASSUME NEW x, NEW y, Harmless(S, x), Harmless(S, y) PROVE Harmlessly(<<x, y>>)
    <3> DEFINE items == <<x, y>>
    <3>1. items \in Seq({x, y}) /\ Len(items) = 2 /\ items[1] = x /\ items[2] = y
      OBVIOUS
    <3>2. \A i \in 1..2 : i = 1 \/ i = 2
      OBVIOUS
    <3> HIDE DEF items
    <3>3. Harmlessly(items)
      BY <3>1, <3>2, <2>3 DEF IsList
    <3> QED BY <3>3 DEF items
  <2>4. ASSUME NEW x, NEW y, NEW z, Harmless(S, x), Harmless(S, y), Harmless(S, z)
        PROVE  Harmlessly(<<x, y, z>>)
    <3> DEFINE items == <<x, y, z>>
    <3>1. items \in Seq({x, y, z}) /\ Len(items) = 3 /\ items[1] = x /\ items[2] = y /\ items[3] = z
      OBVIOUS
    <3>2. \A i \in 1..3 : i = 1 \/ i = 2 \/ i = 3
      OBVIOUS
    <3> HIDE DEF items
    <3>3. Harmlessly(items)
      BY <3>1, <3>2, <2>4 DEF IsList
    <3> QED BY <3>3 DEF items
  <2> QED BY <2>1, <2>2, <2>3, <2>4 DEF IsList
<1> HIDE DEF Harmlessly
<1> SUFFICES UNCHANGED <<fn, statics>> /\ (todo' = todo \/ \E items : Harmlessly(items) /\ todo' = items \o Later)
  BY DEF Harmlessly, Later
<1>1. CASE Raise
  BY <1>1 DEF Raise, env, frame
<1>2. CASE Continue(<<>>) /\ UNCHANGED <<fn, statics>>
  BY <1>0, <1>2 DEF Continue
<1>3. CASE Unfold /\ Node.k # "call"
  <2>1. Node \in S /\ UNCHANGED <<fn, statics>>
    BY <1>3 DEF Unfold, Is, Harmless, Node, Keep, env, frame
  <2>2. /\ Node.k = "unary" => Harmless(S, Eval(Node.e)) /\ Harmless(S, Do("unary", Node))
        /\ Node.k = "binary" => /\ Harmless(S, Eval(Node.l)) /\ Harmless(S, Eval(Node.r))
                                /\ Harmless(S, Do("binary", Node))
        /\ Node.k = "logical" => Harmless(S, Eval(Node.l)) /\ Harmless(S, Do("decide", Node))
        /\ Node.k = "ternary" => Harmless(S, Eval(Node.c)) /\ Harmless(S, Do("choose", Node))
    BY <2>1, SMTT(30) DEF CallFree, Harmless, Eval, Do
  <2>3. \/ Node.k = "unary" /\ todo' = <<Eval(Node.e), Do("unary", Node)>> \o Later
        \/ Node.k = "binary" /\ todo' = <<Eval(Node.l), Eval(Node.r), Do("binary", Node)>> \o Later
        \/ Node.k = "logical" /\ todo' = <<Eval(Node.l), Do("decide", Node)>> \o Later
        \/ Node.k = "ternary" /\ todo' = <<Eval(Node.c), Do("choose", Node)>> \o Later
    BY <1>3 DEF Unfold, Continue
  <2> QED BY <1>0, <2>1, <2>2, <2>3
<1>4. CASE Unfold /\ Node.k = "call"
  <2> DEFINE args  == [i \in DOMAIN Node.args |-> Eval(Node.args[i])]
             items == args \o <<Do("invoke", Node)>>
  <2>1. Node \in S /\ UNCHANGED <<fn, statics>>
    BY <1>4 DEF Unfold, Is, Harmless, Node, Keep, env, frame
  <2>2. Node.fn \notin Functions /\ Node.args \in Seq(S)
    BY <1>4, <2>1 DEF CallFree
  <2>3. /\ Len(Node.args) \in Nat /\ DOMAIN Node.args = 1..Len(Node.args)
        /\ \A i \in 1..Len(Node.args) : Node.args[i] \in S
    BY <2>2
  <2>4. args \in Seq([do : {"eval"}, node : S, sub : {Item.sub}]) /\ Len(args) = Len(Node.args)
    BY <2>3 DEF Eval, Do
  <2>5. \A i \in 1..Len(args) : Harmless(S, args[i])
    BY <2>3, <2>4 DEF Harmless, Eval, Do
  <2>6. Harmless(S, Do("invoke", Node))
    BY <2>2 DEF Harmless, Do
  <2>7. todo' = items \o Later
    BY <1>4 DEF Unfold, Continue
  <2>8. IsList(args)
    BY <2>4 DEF IsList
  <2> HIDE DEF args
  <2>9. items = Append(args, Do("invoke", Node))
    <3>1. PICK T : args \in Seq(T)
      BY <2>8 DEF IsList
    <3> QED BY <3>1, AppendIsConcat
  <2> HIDE DEF items
  <2>10. /\ Len(args) \in Nat /\ IsList(items) /\ Len(items) = Len(args) + 1
         /\ \A i \in 1..Len(args) : items[i] = args[i]
         /\ items[Len(args) + 1] = Do("invoke", Node)
    BY <2>8, <2>9, Pushed
  <2>11. Harmlessly(items)
    <3>1. \A i \in 1..Len(items) : i \in 1..Len(args) \/ i = Len(args) + 1
      BY <2>10
    <3> QED BY <3>1, <2>5, <2>6, <2>10 DEF Harmlessly
  <2> QED BY <2>1, <2>7, <2>11
<1>5. CASE Decide /\ ~Raise
  <2>1. Node.r \in S /\ UNCHANGED <<fn, statics>>
    BY <1>5 DEF Decide, Is, OnCondition, Harmless, Node, Keep, env, frame
  <2>2. /\ Harmless(S, Eval(Node.r)) /\ Harmless(S, Do("truth", Node))
        /\ \A b : Harmless(S, Eval([k |-> "lit", v |-> Bool(b)]))
    BY <2>1 DEF Harmless, Eval, Do
  <2>3. \/ \E b : todo' = <<Eval([k |-> "lit", v |-> Bool(b)])>> \o Later
        \/ todo' = <<Eval(Node.r), Do("truth", Node)>> \o Later
    BY <1>5 DEF Decide, OnCondition, Continue
  <2> QED BY <1>0, <2>1, <2>2, <2>3
<1>6. CASE Choose /\ ~Raise
  <2>1. Node.l \in S /\ Node.r \in S /\ UNCHANGED <<fn, statics>>
    BY <1>6 DEF Choose, Is, OnCondition, Harmless, Node, Keep, env, frame
  <2>2. Harmless(S, Eval(Node.l)) /\ Harmless(S, Eval(Node.r))
    BY <2>1 DEF Harmless, Eval, Do
  <2>3. todo' = <<Eval(Node.l)>> \o Later \/ todo' = <<Eval(Node.r)>> \o Later
    BY <1>6 DEF Choose, OnCondition, Continue
  <2> QED BY <1>0, <2>1, <2>2, <2>3
<1>7. Item.do \in {"eval", "unary", "binary", "truth", "decide", "choose", "invoke"}
  BY DEF Harmless
<1>8. ~EnterFunction
  BY DEF EnterFunction, Callable, Is, Harmless, Node
<1>9. EvalLiteral \/ EvalPath \/ EvalUnary \/ EvalBinary \/ Truth => Raise \/ (Continue(<<>>) /\ UNCHANGED <<fn, statics>>)
  BY DEF EvalLiteral, EvalPath, EvalUnary, EvalBinary, Truth, Yield, Keep, env, frame
<1>10. CallOperator \/ RefuseCall => Raise \/ (Continue(<<>>) /\ UNCHANGED <<fn, statics>>)
  BY DEF CallOperator, RefuseCall, frame
<1>11. ~(LeaveFunction \/ Assign \/ Store \/ Statement \/ Discard \/ Branch \/ Declare)
  BY <1>7 DEF LeaveFunction, Assign, Store, Statement, Discard, Branch, Declare, Kind, Is
<1>12. ~(DeclareDefault \/ AlreadyDeclared \/ Match \/ ComparePattern)
  BY <1>7 DEF DeclareDefault, AlreadyDeclared, Match, ComparePattern, Kind, Is
<1>13. ~(ExpandBound \/ ExpandRange \/ Iterate \/ EndExpand)
  BY <1>7 DEF ExpandBound, ExpandRange, Iterate, EndExpand, Is
<1> QED BY <1>1, <1>2, <1>3, <1>4, <1>5, <1>6, <1>8, <1>9, <1>10, <1>11, <1>12, <1>13 DEF Step

LEMMA HarmlessGuarded ==
  ASSUME NEW S, Agenda, Guarded(S), todo # <<>>, Harmless(S, Item), UNCHANGED <<fn, statics>>,
         NEW items, IsList(items), \A i \in 1..Len(items) : Harmless(S, items[i]),
         todo' = items \o Tail(todo)
  PROVE  Guarded(S)'
<1>1. IsList(todo)
  BY DEF Agenda
<1>2. /\ Len(items) \in Nat /\ Len(todo) \in Nat /\ Len(todo) > 0
      /\ Len(todo') = Len(items) + Len(todo) - 1
      /\ \A i \in 1..Len(items) : todo'[i] = items[i]
      /\ \A i \in 1..(Len(items) + Len(todo) - 1) :
           i > Len(items) => i - Len(items) + 1 \in 2..Len(todo) /\ todo'[i] = todo[i - Len(items) + 1]
  BY <1>1, Splicing
<1>3. \A it : Harmless(S, it) => ~DeclaresStatic(it)
  BY DEF Harmless, DeclaresStatic
<1>4. ASSUME NEW i \in 1..Len(todo'), DeclaresStatic(todo'[i])
      PROVE  /\ \A j \in 1..(i - 1) : Harmless(S, todo'[j])
             /\ <<fn', KeyOf(todo'[i])>> \notin DOMAIN statics'
  <2> DEFINE old == i - Len(items) + 1
  <2>1. i > Len(items)
    BY <1>2, <1>3, <1>4
  <2>2. old \in 1..Len(todo) /\ todo'[i] = todo[old]
    BY <1>2, <2>1
  <2>3. /\ \A j \in 1..(old - 1) : Harmless(S, todo[j])
        /\ <<fn, KeyOf(todo[old])>> \notin DOMAIN statics
    BY <1>4, <2>2 DEF Guarded
  <2>4. ASSUME NEW j \in 1..(i - 1) PROVE Harmless(S, todo'[j])
    <3>1. CASE j <= Len(items)
      BY <3>1, <1>2
    <3>2. CASE j > Len(items)
      <4>1. todo'[j] = todo[j - Len(items) + 1] /\ j - Len(items) + 1 \in 1..(old - 1)
        BY <3>2, <1>2, <2>1
      <4> QED BY <4>1, <2>3
    <3> QED BY <3>1, <3>2, <1>2
  <2> QED BY <2>2, <2>3, <2>4
<1> QED BY <1>4 DEF Guarded

(* Behind an item that is no part of an initialiser no static is declared.  *)
LEMMA NothingBehind ==
  ASSUME NEW S, Agenda, Guarded(S), todo # <<>>, ~Harmless(S, Item),
         NEW items, IsList(items), todo' = items \o Tail(todo),
         \A i \in 1..Len(items) : DeclaresStatic(items[i]) =>
           /\ \A j \in 1..(i - 1) : Harmless(S, items[j])
           /\ <<fn', KeyOf(items[i])>> \notin DOMAIN statics'
  PROVE  Guarded(S)'
<1>1. IsList(todo) /\ Item = todo[1]
  BY HeadIsItem DEF Agenda
<1>2. /\ Len(items) \in Nat /\ Len(todo) \in Nat /\ Len(todo) > 0
      /\ Len(todo') = Len(items) + Len(todo) - 1
      /\ \A i \in 1..Len(items) : todo'[i] = items[i]
      /\ \A i \in 1..(Len(items) + Len(todo) - 1) :
           i > Len(items) => i - Len(items) + 1 \in 2..Len(todo) /\ todo'[i] = todo[i - Len(items) + 1]
  BY <1>1, Splicing
<1>3. \A i \in 2..Len(todo) : ~DeclaresStatic(todo[i])
  <2> SUFFICES ASSUME NEW i \in 2..Len(todo), DeclaresStatic(todo[i]) PROVE FALSE
    OBVIOUS
  <2>1. i \in 1..Len(todo) /\ 1 \in 1..(i - 1)
    BY <1>2
  <2> QED BY <2>1, <1>1 DEF Guarded
<1>4. ASSUME NEW i \in 1..Len(todo'), DeclaresStatic(todo'[i])
      PROVE  /\ \A j \in 1..(i - 1) : Harmless(S, todo'[j])
             /\ <<fn', KeyOf(todo'[i])>> \notin DOMAIN statics'
  <2>0. ASSUME i > Len(items) PROVE FALSE
    <3>1. i \in 1..(Len(items) + Len(todo) - 1)
      BY <1>2
    <3>2. i - Len(items) + 1 \in 2..Len(todo) /\ todo'[i] = todo[i - Len(items) + 1]
      BY <3>1, <2>0, <1>2
    <3> QED BY <3>2, <1>3, <1>4
  <2>1. i \in 1..Len(items)
    BY <2>0, <1>2
  <2>2. \A j \in 1..(i - 1) : todo'[j] = items[j]
    BY <1>2, <2>1
  <2> QED BY <1>2, <1>4, <2>1, <2>2
<1> QED BY <1>4 DEF Guarded

LEMMA DeclaringGuarded ==
  ASSUME NEW S, Initialisers(S), Agenda, Guarded(S), todo # <<>>, ~Harmless(S, Item),
         UNCHANGED <<fn, statics>>, NEW items, Declaring(items), todo' = items \o Tail(todo)
  PROVE  Guarded(S)'
<1> DEFINE first  == Eval(Node.init[1])
           second == Do("declare", Node)
<1>1. /\ items = <<first, second>> /\ IsList(items)
      /\ Node \in Statements /\ Node.init # <<>>
      /\ Node.k = "static" => <<fn, Key(Node.path)>> \notin DOMAIN statics
  BY DEF Declaring, Pushing
<1>2. Node.k = "static" => Harmless(S, first)
  BY <1>1 DEF Initialisers, Harmless, Eval, Do
<1>3. first.do = "eval" /\ second.do = "declare" /\ second.node = Node /\ KeyOf(second) = Key(Node.path)
  BY DEF Eval, Do, KeyOf, Key
<1>4. /\ DeclaresStatic(second) => Node.k = "static"
      /\ ~DeclaresStatic(first)
  BY <1>3 DEF DeclaresStatic
<1> HIDE DEF first, second
<1>5. Len(items) = 2 /\ items[1] = first /\ items[2] = second
  BY <1>1
<1>6. \A i \in 1..Len(items) : DeclaresStatic(items[i]) =>
        /\ \A j \in 1..(i - 1) : Harmless(S, items[j])
        /\ <<fn', KeyOf(items[i])>> \notin DOMAIN statics'
  <2> SUFFICES ASSUME NEW i \in 1..Len(items), DeclaresStatic(items[i])
               PROVE  /\ \A j \in 1..(i - 1) : Harmless(S, items[j])
                      /\ <<fn', KeyOf(items[i])>> \notin DOMAIN statics'
    OBVIOUS
  <2>1. i = 2
    BY <1>4, <1>5
  <2>2. \A j \in 1..(2 - 1) : j = 1
    OBVIOUS
  <2> QED BY <2>1, <2>2, <1>1, <1>2, <1>3, <1>4, <1>5
<1> QED BY <1>1, <1>6, NothingBehind

LEMMA WithinGuarded ==
  ASSUME NEW S, Initialisers(S), Agenda, Guarded(S), todo # <<>>, ~Harmless(S, Item), Within
  PROVE  Guarded(S)'
<1>1. CASE todo' = todo /\ Quiet
  BY <1>1 DEF Guarded, Within, Quiet
<1>2. ASSUME NEW items, Ordinary(items), todo' = items \o Tail(todo) PROVE Guarded(S)'
  <2>1. \A i \in 1..Len(items) : ~DeclaresStatic(items[i])
    BY <1>2 DEF Ordinary, DeclaresStatic
  <2>2. IsList(items)
    BY <1>2 DEF Ordinary, Pushing
  <2> QED BY <1>2, <2>1, <2>2, NothingBehind
<1>3. ASSUME NEW items, Declaring(items), todo' = items \o Tail(todo) PROVE Guarded(S)'
  <2>1. UNCHANGED <<fn, statics>>
    BY <1>3 DEF Declaring, Quiet, Within
  <2> QED BY <1>3, <2>1, DeclaringGuarded
<1> QED BY <1>1, <1>2, <1>3 DEF Within, Later

LEMMA EnterGuarded ==
  ASSUME NEW S, Agenda, Guarded(S), EnterFunction
  PROVE  Guarded(S)'
<1> DEFINE body  == Body(code[Node.fn], Holes)
           leave == Do("leave", Node)
           items == body \o <<leave>>
<1>1. /\ todo # <<>> /\ Item.do = "invoke" /\ Node.fn \in Functions
      /\ todo' = items \o Tail(todo)
  BY DEF EnterFunction, Callable, Is, Continue, Later
<1>2. ~Harmless(S, Item)
  BY <1>1 DEF Harmless, Node
<1>3. code[Node.fn] \in Seq(Statements)
  BY <1>1, SyntaxAssumption DEF Agenda
<1>4. IsList(body) /\ \A i \in 1..Len(body) : body[i].do # "declare"
  BY <1>3, OrdinaryBody DEF Ordinary, Pushing
<1>5. leave.do = "leave"
  BY DEF Do
<1> HIDE DEF body, leave
<1>6. items = Append(body, leave)
  <2>1. PICK T : body \in Seq(T)
    BY <1>4 DEF IsList
  <2> QED BY <2>1, AppendIsConcat
<1> HIDE DEF items
<1>7. /\ Len(body) \in Nat /\ IsList(items) /\ Len(items) = Len(body) + 1
      /\ \A i \in 1..Len(body) : items[i] = body[i]
      /\ items[Len(body) + 1] = leave
  BY <1>4, <1>6, Pushed
<1>8. \A i \in 1..Len(items) : ~DeclaresStatic(items[i])
  <2>1. \A i \in 1..Len(items) : i \in 1..Len(body) \/ i = Len(body) + 1
    BY <1>7
  <2> QED BY <2>1, <1>4, <1>5, <1>7 DEF DeclaresStatic
<1> QED BY <1>1, <1>2, <1>7, <1>8, NothingBehind

(* A leave is no part of an initialiser: none runs behind it.               *)
LEMMA SuffixGuarded ==
  ASSUME NEW S, Agenda, Guarded(S),
         NEW j \in 1..Len(todo), todo[j].do = "leave", \A i \in 1..(j - 1) : todo[i].do # "leave",
         todo' = SubSeq(todo, j + 1, Len(todo))
  PROVE  Guarded(S)'
<1>1. IsList(todo) /\ Len(saved) \in Nat /\ Pending(todo, Len(saved)) /\ Len(todo) \in Nat
  BY DEF Agenda, IsList
<1>2. /\ Len(todo') = Len(todo) - j
      /\ \A i \in 1..(Len(todo) - j) : todo'[i] = todo[i + j]
  BY <1>1, PendingLess
<1>3. ASSUME NEW i \in 1..Len(todo'), DeclaresStatic(todo'[i]) PROVE FALSE
  <2> DEFINE o == i + j
  <2>1. o \in 1..Len(todo) /\ todo'[i] = todo[o] /\ j \in 1..(o - 1)
    BY <1>1, <1>2
  <2> HIDE DEF o
  <2>2. DeclaresStatic(todo[o])
    BY <2>1, <1>3
  <2>3. \A k \in 1..(o - 1) : Harmless(S, todo[k])
    BY <2>1, <2>2, Zenon DEF Guarded
  <2>4. Harmless(S, todo[j])
    BY <2>1, <2>3
  <2> QED BY <2>4 DEF Harmless
<1> QED BY <1>3 DEF Guarded

LEMMA LeaveGuarded ==
  ASSUME NEW S, Agenda, Guarded(S), LeaveFunction
  PROVE  Guarded(S)'
<1>1. todo # <<>> /\ Item.do = "leave" /\ todo' = <<>> \o Tail(todo)
  BY DEF LeaveFunction, Is, Continue, Later
<1>2. ~Harmless(S, Item)
  BY <1>1 DEF Harmless
<1>3. IsList(<<>>) /\ \A i : i \notin 1..Len(<<>>)
  <2>1. <<>> \in Seq({})
    OBVIOUS
  <2> QED BY <2>1 DEF IsList
<1> QED BY <1>1, <1>2, <1>3, NothingBehind

LEMMA UnwindGuarded ==
  ASSUME NEW S, Agenda, Guarded(S), Unwind
  PROVE  Guarded(S)'
<1>1. PICK j \in 1..Len(todo) :
        /\ todo[j].do = "leave" /\ \A i \in 1..(j - 1) : todo[i].do # "leave"
        /\ todo' = SubSeq(todo, j + 1, Len(todo))
  BY UnwindRestores
<1> QED BY <1>1, SuffixGuarded

LEMMA GuardedInit == ASSUME NEW S, Init PROVE Guarded(S)
<1>1. todo = <<>>
  BY DEF Init
<1>2. Len(<<>>) = 0
  OBVIOUS
<1> QED BY <1>1, <1>2 DEF Guarded

LEMMA GuardedKept ==
  ASSUME NEW S, CallFree(S), Initialisers(S), Agenda, Guarded(S), [Next]_vars
  PROVE  Guarded(S)'
<1>1. CASE UNCHANGED vars
  BY <1>1 DEF vars, env, frame, Guarded
<1>2. CASE Abort
  <2>1. todo' = <<>>
    BY <1>2 DEF Abort
  <2>2. Len(<<>>) = 0
    OBVIOUS
  <2> QED BY <2>1, <2>2 DEF Guarded
<1>3. CASE Unwind
  BY <1>3, UnwindGuarded
<1>4. CASE Step /\ ~Unwind /\ ~Abort
  <2>1. todo # <<>>
    BY <1>4 DEF Step, EvalLiteral, EvalPath, Unfold, EvalUnary, EvalBinary, Decide, Truth, Choose,
                CallOperator, EnterFunction, RefuseCall, LeaveFunction, Assign, Store, Statement,
                Discard, Branch, Declare, DeclareDefault, AlreadyDeclared, Match, ComparePattern,
                ExpandBound, ExpandRange, Iterate, EndExpand, Kind, Is
  <2>2. CASE Harmless(S, Item)
    <3>1. CASE todo' = todo /\ UNCHANGED <<fn, statics>>
      BY <3>1 DEF Guarded
    <3> QED BY <1>4, <2>1, <2>2, <3>1, HarmlessSteps, HarmlessGuarded
  <2>3. CASE ~Harmless(S, Item)
    BY <1>4, <2>1, <2>3, StepsAreWithin, WithinGuarded, EnterGuarded, LeaveGuarded
  <2> QED BY <2>2, <2>3
<1>5. ASSUME NEW s \in Scheduled, RunScript(s) PROVE Guarded(S)'
  <2>1. todo' = Body(code[s], Holes)
    BY <1>5 DEF RunScript
  <2>2. code[s] \in Seq(Statements)
    BY SyntaxAssumption, ExecutorAssumption DEF Agenda
  <2>3. \A i \in 1..Len(todo') : todo'[i].do # "declare"
    BY <2>1, <2>2, OrdinaryBody DEF Ordinary
  <2> QED BY <2>3 DEF Guarded, DeclaresStatic
<1> QED BY <1>1, <1>2, <1>3, <1>4, <1>5 DEF Next

LEMMA WrittenStatics ==
  ASSUME NEW S, Agenda, Guarded(S), Within
  PROVE  StaticsKept
<1>1. CASE Quiet
  BY <1>1 DEF Quiet, StaticsKept
<1>2. CASE Stores
  <2>1. PICK d, y : ~IsError(Stored(d, y)) /\ Write(d, Stored(d, y))
    BY <1>2 DEF Stores
  <2>2. CASE d.slot = "static"
    <3>1. statics' = Put(statics, <<fn, d.key>>, Stored(d, y)) /\ Stored(d, y) = Kept(y, statics[<<fn, d.key>>])
      BY <2>1, <2>2 DEF Write, Stored
    <3>2. statics[<<fn, d.key>>].fam \in Numeric => Stored(d, y).fam = statics[<<fn, d.key>>].fam
      BY <2>1, <3>1, KeptFamily
    <3> QED BY <3>1, <3>2 DEF StaticsKept, Put
  <2>3. CASE d.slot # "static"
    BY <2>1, <2>3 DEF Write, StaticsKept
  <2> QED BY <2>2, <2>3
<1>3. CASE Declares /\ todo # <<>> /\ ~Quiet
  <2>1. PICK x : /\ DeclareWith(x)
                 /\ \/ Item.do = "declare"
                    \/ Node.k = "static" => <<fn, Key(Node.path)>> \notin DOMAIN statics
    BY <1>3 DEF Declares
  <2>2. CASE Node.k = "static"
    <3>1. <<fn, Key(Node.path)>> \notin DOMAIN statics
      <4>1. CASE Item.do = "declare"
        <5>1. 1 \in 1..Len(todo) /\ Item = todo[1]
          BY <1>3, HeadIsItem
        <5>2. DeclaresStatic(todo[1]) /\ KeyOf(todo[1]) = Key(Node.path)
          BY <2>2, <4>1, <5>1 DEF DeclaresStatic, KeyOf, Key, Node
        <5> QED BY <5>1, <5>2 DEF Guarded
      <4> QED BY <2>1, <2>2, <4>1
    <3>2. statics' = Put(statics, <<fn, Key(Node.path)>>, x)
      BY <2>1, <2>2 DEF DeclareWith
    <3> QED BY <3>1, <3>2 DEF StaticsKept, Put
  <2>3. CASE Node.k # "static"
    BY <2>1, <2>3 DEF DeclareWith, StaticsKept
  <2> QED BY <2>2, <2>3
<1> QED BY <1>1, <1>2, <1>3 DEF Within

LEMMA StaticsStay ==
  ASSUME NEW S, Agenda, Guarded(S), [Next]_vars
  PROVE  StaticsKept
<1>1. CASE Within
  BY <1>1, WrittenStatics
<1>2. CASE EnterFunction \/ LeaveFunction \/ Unwind
  BY <1>2 DEF EnterFunction, LeaveFunction, Unwind, StaticsKept
<1>3. CASE Abort
  BY <1>3 DEF Abort, env, StaticsKept
<1>4. ASSUME NEW s \in Scheduled, RunScript(s) PROVE StaticsKept
  BY <1>4 DEF RunScript, env, StaticsKept
<1> QED BY <1>1, <1>2, <1>3, <1>4, StepsAreWithin, StutterIsWithin DEF Next

(* A declared channel never holds a value of another family, and neither     *)
(* does the Out of any function under way that declares what it returns      *)
(* (stmt.rs write_dest, expr.rs coerce_for_channel).                         *)
THEOREM FamiliesForEver == Spec => []Families
<1>1. Init => Families
  BY FamiliesInit
<1>2. Agenda /\ Families /\ [Next]_vars => Families'
  BY FamiliesKept
<1> QED BY <1>1, <1>2, AgendaHolds, PTL DEF Spec

(* The same of every step: channels, declared or not, keep their family, and *)
(* a called function assigns what it declares to return (stmt.rs write_dest).*)
THEOREM ChannelsKeepTheirFamily == Spec => [][ChannelsKept /\ OutKept]_vars
<1>1. Agenda /\ Families /\ [Next]_vars => ChannelsKept /\ OutKept
  BY FamiliesKept
<1> QED BY <1>1, AgendaHolds, FamiliesForEver, PTL DEF Spec

(* Statics too, as long as no initialiser of a static calls a function that  *)
(* has a script: one that calls its own function again finds its static      *)
(* uninitialised, and the static is declared twice (stmt.rs:738 and 744).    *)
THEOREM SlotsForEver ==
  ASSUME InitialisersCallNothing
  PROVE  Spec => SlotsKeepTheirFamily
<1>1. PICK S : CallFree(S) /\ Initialisers(S)
  BY DEF InitialisersCallNothing
<1>2. Init => Guarded(S)
  BY GuardedInit
<1>3. Agenda /\ Guarded(S) /\ [Next]_vars => Guarded(S)'
  BY <1>1, GuardedKept
<1>4. Agenda /\ Families /\ Guarded(S) /\ [Next]_vars =>
        /\ \A k \in DOMAIN values' :
             IF Channels[k] # "unknown" THEN values'[k].fam = Channels[k]
             ELSE k \in DOMAIN values /\ values[k].fam \in Numeric => values'[k].fam = values[k].fam
        /\ \A k \in DOMAIN statics :
             statics[k].fam \in Numeric => statics'[k].fam = statics[k].fam
        /\ saved' # <<>> /\ out' # NoValue /\ Signatures[fn'].returns \in Numeric =>
             out'.fam = Signatures[fn'].returns
  BY FamiliesKept, StaticsStay DEF ChannelsKept, OutKept, StaticsKept
<1> QED BY <1>2, <1>3, <1>4, AgendaHolds, FamiliesForEver, PTL DEF Spec, SlotsKeepTheirFamily
=============================================================================
