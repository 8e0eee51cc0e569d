------------------------------- MODULE Planner ------------------------------
(***************************************************************************)
(* build_schedule_plan as a whole: the planner of Schedule with the I/O of *)
(* each periodic root obtained by the walk of CallFold.  Schedule's own    *)
(* specification, which leaves that I/O open, is what Planner implements.  *)
(***************************************************************************)
EXTENDS Schedule, CallFold

pvars == <<vars, directVars, foldVars>>

NextRoot(f) ==
  /\ phase = "fold"
  /\ stack = <<>>
  /\ f \in Periodic \ folded
  /\ \A g \in Periodic \ folded : f <= g

PlannerInit ==
  /\ Init
  /\ calls \in [Functions -> SUBSET (Functions \cup Unscripted)]
  /\ directReads \in [Functions -> SUBSET Channels]
  /\ directWrites \in [Functions -> SUBSET Channels]
  /\ incomplete \in SUBSET Functions
  /\ CallFoldInit

BeginRoot(f) ==
  /\ NextRoot(f)
  /\ EnterRoot(f)
  /\ UNCHANGED vars

FinishRoot(f) ==
  /\ NextRoot(f)
  /\ f \in cached
  /\ FoldRoot(f, foldReads[f], foldWrites[f])
  /\ UNCHANGED <<directVars, foldVars>>

FoldCallee ==
  /\ \/ \E c \in Functions : EnterCallee(c) \/ MergeCallee(c)
     \/ Leave
  /\ UNCHANGED vars

RefuseFold ==
  /\ \/ \E f \in Functions : NextRoot(f) /\ Refused(f)
     \/ \E c \in Functions \cup Unscripted : IsNextCallee(c) /\ Refused(c)
  /\ FoldFails
  /\ stack' = <<>>
  /\ UNCHANGED <<directVars, cached, foldReads, foldWrites>>

PlanStep ==
  /\ \/ CheckRates
     \/ CollectDependencies
     \/ RejectWriters
     \/ \E d \in Edges : ConsiderDependency(d)
     \/ StartOrdering
     \/ \E f \in Functions : PlaceNext(f)
     \/ FinishOrdering
  /\ UNCHANGED <<directVars, foldVars>>

PlannerNext ==
  \/ \E f \in Functions : BeginRoot(f) \/ FinishRoot(f)
  \/ FoldCallee
  \/ RefuseFold
  \/ PlanStep

PlannerSpec == PlannerInit /\ [][PlannerNext]_pvars /\ WF_pvars(PlannerNext)

-----------------------------------------------------------------------------
(* Also the walk's frames have their type, none of a function twice.       *)
PlannerTypeOK == TypeOK /\ CallFoldTypeOK

CallEdges == {e \in Functions \X Functions : e[2] \in calls[e[1]]}

Reachable(f) == {g \in Functions : PathExists(CallEdges, f, g)}

(* f's static analysis is unusable: somewhere below f there is a missing   *)
(* or an incomplete summary, or a function that calls itself in the end.   *)
Unanalysable(f) ==
  \E g \in Reachable(f) :
    \/ g \in incomplete
    \/ calls[g] \cap Unscripted # {}
    \/ \E h \in calls[g] \cap Functions : g \in Reachable(h)

(* The walk, with its cache shared by all roots, computes exactly the      *)
(* union of the direct I/O of everything a root reaches by calls.          *)
FoldIsReachableIO ==
  \A f \in folded :
    /\ reads[f] = UNION {directReads[g] : g \in Reachable(f)}
    /\ writes[f] = UNION {directWrites[g] : g \in Reachable(f)}

(* It refuses a project exactly when some periodic root is unanalysable:   *)
(* no root is folded over a cycle, and a diamond of calls is not taken for *)
(* one.                                                                    *)
RefusalIsJustified ==
  /\ \A f \in folded : ~Unanalysable(f)
  /\ phase = "fold error" => \E f \in Periodic : Unanalysable(f)
=============================================================================
