------------------------------ MODULE Arrivals ------------------------------
(***************************************************************************)
(* The order in which the virtual devices are handed what a scenario       *)
(* declares for them: by time, and by place in the declaration among equal *)
(* times.                                                                  *)
(***************************************************************************)
EXTENDS Integers, FiniteSets

(* The i-th of the declared list rx comes before the j-th.                 *)
Earlier(rx, i, j) == rx[i].time < rx[j].time \/ (rx[i].time = rx[j].time /\ i < j)

Ascending(rx, p, k) == \A m, n \in 1..k : m < n => Earlier(rx, p[m], p[n])

(* What a stable sort by time may make of some places of rx: there is one. *)
Listings(rx, places) ==
  {p \in [1..Cardinality(places) -> places] : Ascending(rx, p, Cardinality(places))}

Sorted(rx, places) == CHOOSE p \in Listings(rx, places) : TRUE

=============================================================================
