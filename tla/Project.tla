------------------------------ MODULE Project -------------------------------
(***************************************************************************)
(* What the planner and the runner share of a loaded project: its          *)
(* script-backed functions and its channels.  A function is the rank of    *)
(* its canonical name, so < on functions is the name order in which the    *)
(* code's BTreeMaps and sorts enumerate them.                              *)
(***************************************************************************)
EXTENDS Integers, FiniteSets, Sequences

CONSTANTS Functions,    \* script-backed functions
          Channels

ASSUME ProjectAssumption ==
  /\ Functions \subseteq Nat
  /\ IsFiniteSet(Functions)

Edges == Functions \X Functions

ClosedUnder(edges, S) == \A e \in edges : e[1] \in S => e[2] \in S

(* target is reached from start: it lies in every set that holds start and *)
(* is closed under the edges.                                              *)
PathExists(edges, start, target) ==
  \A S \in SUBSET Functions :
    (start \in S /\ ClosedUnder(edges, S)) => target \in S
=============================================================================
