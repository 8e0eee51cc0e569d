----------------------------- MODULE MCPlanner ------------------------------
(***************************************************************************)
(* Planner on two families of projects of three functions. Calling: every  *)
(* call graph (self calls included), in which function 1 may also call a   *)
(* function without a script, or function 2 be incomplete; each may read   *)
(* the channel of its successor. Feeding: none calls another, and each     *)
(* reads any of the others' channels, at any role and rate; one that reads *)
(* nothing may contest another writer's channel. Function f writes channel *)
(* f itself.                                                               *)
(***************************************************************************)
EXTENDS Planner

Calling ==
  /\ rate \in [Functions -> {NotPeriodic, 1}]
  /\ directWrites = [f \in Functions |-> {f}]
  /\ directReads \in [Functions -> {{}} \cup {{f} : f \in Channels}]
  /\ \A f \in Functions : directReads[f] \subseteq {f + 1}
  /\ calls \in [Functions -> SUBSET (Functions \cup Unscripted)]
  /\ \A f \in Functions : f # 1 => calls[f] \cap Unscripted = {}
  /\ incomplete \in {{}} \cup (IF calls[1] \cap Unscripted = {} THEN {{2}} ELSE {})

Feeding ==
  /\ rate \in [Functions -> Rates \cup {NotPeriodic, InvalidRate}]
  /\ directReads \in [Functions -> SUBSET Channels]
  /\ \A f \in Functions : f \notin directReads[f]
  /\ directWrites \in {[f \in Functions |-> {f}],
                       [f \in Functions |-> IF directReads[f] = {} THEN {f, 1} ELSE {f}]}
  /\ calls = [f \in Functions |-> {}]
  /\ incomplete = {}

MCInit == (Calling \/ Feeding) /\ Init /\ CallFoldInit

MCSpec == MCInit /\ [][PlannerNext]_pvars /\ WF_pvars(PlannerNext)
=============================================================================
