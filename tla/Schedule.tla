------------------------------ MODULE Schedule ------------------------------
(***************************************************************************)
(* The whole-project schedule planner (src/schedule.rs).  The planner      *)
(* validates the periodic rates, obtains the effective channel I/O of      *)
(* every periodic function, draws a writer-before-reader dependency for    *)
(* each channel, selects the dependencies one static order can honour and  *)
(* orders the periodic functions by Kahn's algorithm.                      *)
(*                                                                         *)
(* How the I/O of one function is folded over its callees is left open     *)
(* here; CallFold is that walk and Planner puts the two together.          *)
(***************************************************************************)
EXTENDS Project

CONSTANT Rates          \* the valid (finite, positive) periodic rates

NotPeriodic == 0        \* startup, helper, unscheduled or unresolved
InvalidRate == -1       \* a periodic rate that is not finite and positive

ASSUME RatesAssumption == Rates \subseteq Nat \ {0}

VARIABLES
  rate,         \* trigger role of each function
  reads,        \* effective reads of the periodic functions folded so far
  writes,       \* effective writes of the periodic functions folded so far
  folded,       \* periodic functions whose effective I/O is known
  deps,         \* writer-reader dependencies, as pairs <<writer, reader>>
  candidates,   \* dependencies still to be considered for the order
  selected,     \* dependencies that constrain the order
  indegree,     \* selected dependencies of a function not yet discharged
  ready,        \* functions with none left
  ordered,      \* the order built so far
  phase

inputVars  == <<rate>>
ioVars     == <<reads, writes, folded>>
selectVars == <<deps, candidates, selected>>
orderVars  == <<indegree, ready, ordered>>
vars == <<rate, reads, writes, folded, deps, candidates, selected,
          indegree, ready, ordered, phase>>

Errors == {"rate error", "fold error", "writer error", "cycle error"}
Phases == {"rates", "fold", "select", "order", "done"} \cup Errors

Periodic == {f \in Functions : rate[f] # NotPeriodic}
Placed   == {ordered[i] : i \in 1..Len(ordered)}

TypeOK ==
  /\ rate \in [Functions -> Rates \cup {NotPeriodic, InvalidRate}]
  /\ reads \in [Functions -> SUBSET Channels]
  /\ writes \in [Functions -> SUBSET Channels]
  /\ folded \subseteq Periodic
  /\ deps \subseteq Periodic \X Periodic
  /\ candidates \subseteq deps
  /\ selected \subseteq deps
  /\ indegree \in [Functions -> Nat]
  /\ ready \subseteq Periodic
  /\ ordered \in Seq(Periodic)
  /\ phase \in Phases

-----------------------------------------------------------------------------
(* The assumed tie policy: higher rate first, then canonical name. *)
AssumedBefore(f, g) ==
  \/ rate[f] > rate[g]
  \/ rate[f] = rate[g] /\ f < g

(* Mutant: candidates are considered in the order of the map they are in.  *)
ConsideredByName(d, e) ==
  \/ d[1] < e[1]
  \/ d[1] = e[1] /\ d[2] < e[2]

(* Dependencies that agree with the tie policy are considered first, the   *)
(* feedback ones after them, each group by writer, then reader.            *)
ConsideredBefore(d, e) ==
  LET matches(x) == AssumedBefore(x[1], x[2])
  IN  \/ matches(d) /\ ~matches(e)
      \/ /\ matches(d) <=> matches(e)
         /\ \/ d[1] < e[1]
            \/ d[1] = e[1] /\ d[2] < e[2]

SoleWriters ==
  \A f, g \in Periodic : f # g => writes[f] \cap writes[g] = {}

Dependencies ==
  {d \in Periodic \X Periodic :
     d[1] # d[2] /\ writes[d[1]] \cap reads[d[2]] # {}}

-----------------------------------------------------------------------------
Init ==
  /\ rate \in [Functions -> Rates \cup {NotPeriodic, InvalidRate}]
  /\ reads = [f \in Functions |-> {}]
  /\ writes = [f \in Functions |-> {}]
  /\ folded = {}
  /\ deps = {} /\ candidates = {} /\ selected = {}
  /\ indegree = [f \in Functions |-> 0]
  /\ ready = {}
  /\ ordered = <<>>
  /\ phase = "rates"

CheckRates ==
  /\ phase = "rates"
  /\ phase' = IF \E f \in Functions : rate[f] = InvalidRate
              THEN "rate error" ELSE "fold"
  /\ UNCHANGED <<inputVars, ioVars, selectVars, orderVars>>

(* The next root in name order gets its effective reads r and writes w. *)
FoldRoot(f, r, w) ==
  /\ phase = "fold"
  /\ f \in Periodic \ folded
  /\ \A g \in Periodic \ folded : f <= g
  /\ reads' = [reads EXCEPT ![f] = r]
  /\ writes' = [writes EXCEPT ![f] = w]
  /\ folded' = folded \cup {f}
  /\ UNCHANGED <<inputVars, selectVars, orderVars, phase>>

(* The I/O analysis of some root fails: a call cycle, an incomplete or a   *)
(* missing summary.                                                        *)
FoldFails ==
  /\ phase = "fold"
  /\ folded # Periodic
  /\ phase' = "fold error"
  /\ UNCHANGED <<inputVars, ioVars, selectVars, orderVars>>

CollectDependencies ==
  /\ phase = "fold"
  /\ folded = Periodic
  /\ SoleWriters
  /\ deps' = Dependencies
  /\ candidates' = Dependencies
  /\ phase' = "select"
  /\ UNCHANGED <<inputVars, ioVars, selected, orderVars>>

RejectWriters ==
  /\ phase = "fold"
  /\ folded = Periodic
  /\ ~SoleWriters
  /\ phase' = "writer error"
  /\ UNCHANGED <<inputVars, ioVars, selectVars, orderVars>>

(* Mutant: no search at all, every dependency is selected.                 *)
ConsiderUnchecked(d) ==
  /\ phase = "select"
  /\ d \in candidates
  /\ candidates' = candidates \ {d}
  /\ selected' = selected \cup {d}
  /\ UNCHANGED <<inputVars, ioVars, deps, orderVars, phase>>

(* One candidate: selected unless it would close a cycle. *)
ConsiderDependency(d) ==
  /\ phase = "select"
  /\ d \in candidates
  /\ \A e \in candidates \ {d} : ConsideredBefore(d, e)
  /\ candidates' = candidates \ {d}
  /\ selected' = IF PathExists(selected, d[2], d[1])
                 THEN selected ELSE selected \cup {d}
  /\ UNCHANGED <<inputVars, ioVars, deps, orderVars, phase>>

StartOrdering ==
  /\ phase = "select"
  /\ candidates = {}
  /\ indegree' = [g \in Functions |->
                    Cardinality({f \in Functions : <<f, g>> \in selected})]
  /\ ready' = {g \in Periodic : indegree'[g] = 0}
  /\ phase' = "order"
  /\ UNCHANGED <<inputVars, ioVars, selectVars, ordered>>

(* The first ready function under the tie policy takes the next position.  *)
PlaceNext(f) ==
  /\ phase = "order"
  /\ f \in ready
  /\ \A g \in ready \ {f} : AssumedBefore(f, g)
  /\ ordered' = Append(ordered, f)
  /\ indegree' = [g \in Functions |->
                    IF <<f, g>> \in selected THEN indegree[g] - 1
                                             ELSE indegree[g]]
  /\ ready' = (ready \ {f}) \cup
              {g \in Functions : <<f, g>> \in selected /\ indegree'[g] = 0}
  /\ UNCHANGED <<inputVars, ioVars, selectVars, phase>>

FinishOrdering ==
  /\ phase = "order"
  /\ ready = {}
  /\ phase' = IF Len(ordered) = Cardinality(Periodic)
              THEN "done" ELSE "cycle error"
  /\ UNCHANGED <<inputVars, ioVars, selectVars, orderVars>>

Next ==
  \/ CheckRates
  \/ \E f \in Functions, r, w \in SUBSET Channels : FoldRoot(f, r, w)
  \/ FoldFails
  \/ CollectDependencies
  \/ RejectWriters
  \/ \E d \in Edges : ConsiderDependency(d)
  \/ StartOrdering
  \/ \E f \in Functions : PlaceNext(f)
  \/ FinishOrdering

Safety == Init /\ [][Next]_vars

Spec == Safety /\ WF_vars(Next)

-----------------------------------------------------------------------------
(* A dropped dependency closes a cycle with those selected: nothing is     *)
(* dropped that the order could still have honoured ("a deterministic      *)
(* maximal acyclic subset").                                               *)
DroppedClosesCycle ==
  \A d \in deps \ (candidates \cup selected) :
    PathExists(selected, d[2], d[1])

(* Only feedback is dropped: a dependency whose writer precedes its reader *)
(* under the tie policy always constrains the order, whatever was          *)
(* selected before it.                                                     *)
DroppedIsFeedback ==
  \A d \in deps \ (candidates \cup selected) : ~AssumedBefore(d[1], d[2])

(* A finished plan places every periodic function once, each writer of a   *)
(* selected dependency before its reader, and the planner never reports a  *)
(* dependency cycle: what was selected can always be ordered.              *)
PlanHonoursSelection ==
  /\ phase # "cycle error"
  /\ phase = "done" =>
       /\ Placed = Periodic
       /\ Len(ordered) = Cardinality(Periodic)
       /\ \A i, j \in 1..Len(ordered) :
            <<ordered[i], ordered[j]>> \in selected => i < j

(* Two neighbours of the order that no selected dependency relates stand   *)
(* in the order of the tie policy.                                         *)
NeighboursFollowTiePolicy ==
  \A i \in 1..(Len(ordered) - 1) :
    \/ <<ordered[i], ordered[i + 1]>> \in selected
    \/ AssumedBefore(ordered[i], ordered[i + 1])

=============================================================================
