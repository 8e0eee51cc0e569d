----------------------------- MODULE SerialLink -----------------------------
(***************************************************************************)
(* What the virtual serial adapter promises of reception: every handle has *)
(* its own loss-free, duplicate-free, in-order view of every port.  A read *)
(* at time t brings that view up to all the bytes the scenario declares    *)
(* for the port at times up to t, in time order, and in declaration order  *)
(* among equal times.  No read disturbs the view of another handle.        *)
(***************************************************************************)
EXTENDS Arrivals, SequencesExt

CONSTANTS Readers, Lines, LastTime

VARIABLES
  declared,   \* the rx entries, in declaration order: [port, time, bytes]
  now,
  taken       \* what each reader has taken from each line so far

(* All bytes declared for line p up to time t, in the order of time (there *)
(* is one).                                                                *)
Arrived(p, t) ==
  LET due == {i \in DOMAIN declared : declared[i].port = p /\ declared[i].time <= t}
  IN  {FlattenSeq([n \in 1..Cardinality(due) |-> declared[order[n]].bytes]) :
         order \in Listings(declared, due)}

Init ==
  /\ now = 0
  /\ taken = [h \in Readers |-> [p \in Lines |-> <<>>]]

Tick ==
  /\ now < LastTime
  /\ now' = now + 1
  /\ UNCHANGED <<declared, taken>>

Read(h, p) ==
  /\ \E bytes \in Arrived(p, now) : taken' = [taken EXCEPT ![h][p] = bytes]
  /\ UNCHANGED <<declared, now>>

Next == Tick \/ \E h \in Readers, p \in Lines : Read(h, p)

Spec == Init /\ [][Next]_<<declared, now, taken>>
=============================================================================
