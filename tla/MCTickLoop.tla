----------------------------- MODULE MCTickLoop -----------------------------
(***************************************************************************)
(* TickLoop on a feedback pair of periodic functions, one of which writes  *)
(* channel 3 through a callee, and one startup function that may write     *)
(* what the second periodic function owns.  Every plan order, divisor      *)
(* pair, and scenario role of every channel is tried.                      *)
(***************************************************************************)
EXTENDS TickLoop

MCReads        == <<{2, 3}, {1}, {1, 2}>>
MCWrites       == <<{1}, {2, 3}, {2, 3}>>
MCDirectWrites == <<{1}, {2}, {2}>>
MCStartup      == <<3>>

(* One channel is driven, by an input or by an override; one channel of    *)
(* the second function, perhaps the same, may have an initial seed.  Some  *)
(* function runs on every tick.                                            *)
MCInit ==
  /\ Init
  /\ Cardinality(inputs) + Cardinality(overrides) <= 1
  /\ Cardinality(initial) <= 1 /\ 1 \notin initial
  /\ \E f \in Periodic : divisor[f] = 1

MCSpec == MCInit /\ [][Next]_vars /\ WF_vars(Next)
=============================================================================
