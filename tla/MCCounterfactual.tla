-------------------------- MODULE MCCounterfactual --------------------------
(***************************************************************************)
(* Counterfactual on three functions, function f writing channel f, and a  *)
(* channel 0 that nobody writes: every choice of at most two channels read *)
(* by each function and MaxReads in all, so a cycle with an entry and an   *)
(* exit among them; at most one function has another rate than the base.   *)
(***************************************************************************)
EXTENDS Counterfactual

CONSTANT MaxReads, LogChoices, OverrideChoices

ReadSets(f) == {r \in SUBSET (Channels \ {f}) : Cardinality(r) <= 2}

MCDivisors == {<<1, 1, 1>>, <<2, 1, 1>>, <<1, 1, 2>>, <<1, NoDivisor, 1>>}

MCInit ==
  /\ reads \in {r \in [Functions -> UNION {ReadSets(f) : f \in Functions}] :
                  /\ \A f \in Functions : r[f] \in ReadSets(f)
                  /\ Cardinality(r[1]) + Cardinality(r[2]) + Cardinality(r[3]) <= MaxReads}
  /\ writes = [f \in Functions |-> {f}]
  /\ divisor \in MCDivisors
  /\ logged \in LogChoices
  /\ overridden \in OverrideChoices
  /\ Init

MCSpec == MCInit /\ [][Next]_vars /\ WF_vars(Next)
=============================================================================
