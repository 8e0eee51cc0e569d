---------------------------- MODULE MCStateful -----------------------------
(***************************************************************************)
(* Stateful on every history of at most MaxCalls executions: three input   *)
(* values, one below, one inside and one above the thresholds, and two     *)
(* periods.                                                                *)
(***************************************************************************)
EXTENDS Stateful

CONSTANT MaxCalls

MCInputs == -1..1
MCLow    == -1

(* Timers, whose calls may share an instant, and filters, whose answers    *)
(* have a choice, get one call less.                                       *)
MCNext ==
  /\ Len(calls) < (IF operator \in Filters \cup {"Timer"} THEN MaxCalls - 1 ELSE MaxCalls)
  /\ Next

MCSpec == Init /\ [][MCNext]_vars
=============================================================================
