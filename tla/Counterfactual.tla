--------------------------- MODULE Counterfactual ---------------------------
(***************************************************************************)
(* Counterfactual replay (run_counterfactual_inner in src/runner.rs): the  *)
(* walk that collects the downstream cone of the overridden channels, the  *)
(* ordering of that cone, and the replay, in which the log and then the    *)
(* overrides are written into the store on every tick before the due cone  *)
(* functions run.  Only a script's own I/O counts here; callees are not    *)
(* folded in as the whole-project plan does.                               *)
(***************************************************************************)
EXTENDS Trace

CONSTANTS Divisors,     \* tick divisors a cone function may have
          NoDivisor     \* its rate does not divide the base rate

ASSUME CounterfactualAssumption ==
  /\ Divisors \subseteq (Nat \ {0}) \cup {NoDivisor}
  /\ NoDivisor \notin Nat \ {0}

VARIABLES
  reads, writes,    \* direct I/O of every script
  divisor,
  logged,           \* channels the log carries
  overridden,
  pending,          \* functions the walk still has to visit (the stack)
  needed,           \* the cone
  edges,            \* writer-before-reader pairs inside the cone
  order,            \* the cone in execution order
  env, phase,
  position,
  execution         \* the latest cone function run, and what it found

projectVars == <<reads, writes, divisor, logged, overridden>>
coneVars    == <<pending, needed, edges, order>>
vars == <<projectVars, coneVars, env, phase, position, execution, traceVars, tick>>

ReadersOf(channels) == {f \in Functions : reads[f] \cap channels # {}}

(* Readers of what f writes, not looking through an overridden channel.    *)
Downstream(f) == ReadersOf(writes[f] \ overridden) \ {f}

Placed        == {order[i] : i \in DOMAIN order}
ConeOutputs   == UNION {writes[f] : f \in needed}
Due(f)        == tick % divisor[f] = 0
NoExecution   == [function |-> 0, at |-> Before, seen |-> <<>>]
CounterfactualPhases == {"walk", "order", "seed", "run", "ended", "failed"}

TypeOK ==
  /\ TraceTypeOK
  /\ pending \subseteq Functions /\ needed \subseteq Functions
  /\ edges \subseteq Functions \X Functions
  /\ order \in Seq(needed)
  /\ env \in [Channels -> Values]
  /\ phase \in CounterfactualPhases
  /\ position \in 1..(Cardinality(Functions) + 1)
  /\ execution.seen \in [DOMAIN execution.seen -> Values]

-----------------------------------------------------------------------------
(* Without an override there is no cone; an override nobody reads is       *)
(* refused.                                                                *)
Init ==
  /\ reads \in [Functions -> SUBSET Channels]
  /\ writes \in [Functions -> SUBSET Channels]
  /\ divisor \in [Functions -> Divisors]
  /\ logged \in SUBSET Channels
  /\ overridden \in SUBSET Channels
  /\ pending = ReadersOf(overridden)
  /\ needed = {} /\ edges = {} /\ order = <<>>
  /\ env = [c \in Channels |-> Unset]
  /\ phase = IF overridden = {} THEN "seed"
             ELSE IF ReadersOf(overridden) = {} THEN "failed" ELSE "walk"
  /\ position = 1
  /\ execution = NoExecution
  /\ tick = 0
  /\ EmptyTrace

(* Mutant: the walk stops at the readers of the overridden channels.       *)
PopWithoutReaders(f) ==
  /\ phase = "walk"
  /\ f \in pending
  /\ needed' = needed \cup {f}
  /\ edges' = edges \cup ({f} \X Downstream(f))
  /\ pending' = pending \ {f}
  /\ UNCHANGED <<projectVars, order, env, phase, position, execution, traceVars, tick>>

(* Mutant: a function visited before is visited again.                     *)
PopAgain(f) ==
  /\ phase = "walk"
  /\ f \in pending
  /\ needed' = needed \cup {f}
  /\ edges' = edges \cup ({f} \X Downstream(f))
  /\ pending' = (pending \ {f}) \cup Downstream(f)
  /\ UNCHANGED <<projectVars, order, env, phase, position, execution, traceVars, tick>>

(* One function off the stack; one that was visited before is skipped.     *)
PopScript(f) ==
  /\ phase = "walk"
  /\ f \in pending
  /\ IF f \in needed
     THEN /\ pending' = pending \ {f}
          /\ UNCHANGED <<needed, edges>>
     ELSE /\ needed' = needed \cup {f}
          /\ edges' = edges \cup ({f} \X Downstream(f))
          /\ pending' = (pending \ {f}) \cup Downstream(f)
  /\ UNCHANGED <<projectVars, order, env, phase, position, execution, traceVars, tick>>

StartOrdering ==
  /\ phase = "walk"
  /\ pending = {}
  /\ phase' = "order"
  /\ UNCHANGED <<projectVars, coneVars, env, position, execution, traceVars, tick>>

(* Mutant: the cone runs in name order.                                    *)
AllReady == needed \ Placed

(* topo_order: the ready function first in name order.                     *)
Ready == {g \in needed \ Placed : \A e \in edges : e[2] = g => e[1] \in Placed}

PlaceNext(f) ==
  /\ phase = "order"
  /\ f \in Ready
  /\ \A g \in Ready : f <= g
  /\ order' = Append(order, f)
  /\ UNCHANGED <<projectVars, pending, needed, edges, env, phase, position,
                 execution, traceVars, tick>>

(* What Kahn's algorithm left out follows in name order.  A rate that does *)
(* not divide the base rate is then refused.                               *)
FinishOrdering(rest) ==
  /\ phase = "order"
  /\ Ready = {}
  /\ {rest[i] : i \in DOMAIN rest} = needed \ Placed
  /\ \A i, j \in DOMAIN rest : i < j => rest[i] < rest[j]
  /\ order' = order \o rest
  /\ phase' = IF \E f \in needed : divisor[f] = NoDivisor THEN "failed" ELSE "seed"
  /\ UNCHANGED <<projectVars, pending, needed, edges, env, position, execution,
                 traceVars, tick>>

(* Mutant: the log goes on top of the overrides.                           *)
SeededLogLast(c) ==
  IF c \in logged THEN Logged(tick)
  ELSE IF c \in overridden THEN Override(tick) ELSE env[c]

(* Log first, overrides on top; anything else keeps its value.             *)
Seeded(c) ==
  IF c \in overridden THEN Override(tick)
  ELSE IF c \in logged THEN Logged(tick) ELSE env[c]

OpenTick ==
  /\ phase = "seed"
  /\ tick < Ticks
  /\ env' = [c \in Channels |-> Seeded(c)]
  /\ phase' = "run"
  /\ position' = 1
  /\ UNCHANGED <<projectVars, coneVars, execution, traceVars, tick>>

RunDue(p, written) ==
  LET f == order[p]
  IN  /\ phase = "run"
      /\ p >= position
      /\ Due(f)
      /\ \A q \in position..(p - 1) : ~Due(order[q])
      /\ written \subseteq writes[f]
      /\ execution' = [function |-> f, at |-> tick, seen |-> [c \in reads[f] |-> env[c]]]
      /\ env' = [c \in Channels |-> IF c \in written THEN Computed(f, tick)
                                    ELSE env[c]]
      /\ Record(ScriptSamples(f, written))
      /\ position' = p + 1
      /\ UNCHANGED <<projectVars, coneVars, phase, external, tick>>

(* A cone script or an override expression fails (a channel it reads has   *)
(* no value yet, which is never defaulted here), or a seeded value is no   *)
(* member of its channel's enum.  The replay returns the error only.       *)
ScriptFails ==
  /\ \/ phase = "seed" /\ tick < Ticks /\ logged \cup overridden # {}
     \/ phase = "run" /\ \E p \in position..Len(order) : Due(order[p])
  /\ phase' = "failed"
  /\ env' = [c \in Channels |-> Unset]
  /\ execution' = NoExecution
  /\ samples' = [c \in Channels |-> <<>>]
  /\ columns' = [c \in Channels |-> <<>>]
  /\ external' = {}
  /\ UNCHANGED <<projectVars, coneVars, position, tick>>

CloseTick ==
  /\ phase = "run"
  /\ \A p \in position..Len(order) : ~Due(order[p])
  /\ LET open   == {c \in Channels : ~RecordedNow(c)}
         driven == open \cap (logged \cup overridden)
         held   == {c \in open \ driven :
                      /\ c \in ConeOutputs \/ columns[c] # <<>>
                      /\ env[c] # Unset}
     IN  /\ external' = external \cup driven
         /\ Record([c \in driven \cup held |->
                      [value |-> env[c],
                       external |-> c \in driven \/ HeldFlag(c, external \cup driven)]])
  /\ tick' = tick + 1
  /\ phase' = "seed"
  /\ UNCHANGED <<projectVars, coneVars, env, position, execution>>

EndReplay ==
  /\ phase = "seed"
  /\ tick = Ticks
  /\ phase' = "ended"
  /\ UNCHANGED <<projectVars, coneVars, env, position, execution, traceVars, tick>>

Next ==
  \/ \E f \in Functions : PopScript(f) \/ PlaceNext(f)
  \/ StartOrdering
  \/ \E rest \in UNION {[1..n -> needed] : n \in 0..Cardinality(needed)} :
       FinishOrdering(rest)
  \/ OpenTick
  \/ \E p \in 1..Len(order) : \E w \in SUBSET writes[order[p]] : RunDue(p, w)
  \/ ScriptFails
  \/ CloseTick
  \/ EndReplay

Spec == Init /\ [][Next]_vars /\ WF_vars(Next)

-----------------------------------------------------------------------------
FlowEdges == {e \in Functions \X Functions : e[2] \in Downstream(e[1])}

(* The cone is what an override can influence, and nothing else: the       *)
(* readers of an overridden channel and everything downstream of them.     *)
ConeIsDownstream ==
  phase \in {"order", "seed", "run", "ended"} =>
    needed = {f \in Functions :
                \E r \in ReadersOf(overridden) : PathExists(FlowEdges, r, f)}

OnCycle(f) == \E g \in Downstream(f) : PathExists(FlowEdges, g, f)

PositionOf(f) == CHOOSE i \in DOMAIN order : order[i] = f

(* Every cone function runs after the writers of what it reads, unless a   *)
(* cycle in the cone feeds it.                                             *)
WritersRunFirst ==
  phase \in {"seed", "run", "ended"} =>
    /\ Len(order) = Cardinality(needed) /\ Placed = needed
    /\ \A f, g \in needed :
         (/\ g \in Downstream(f)
          /\ \A h \in needed : OnCycle(h) => ~PathExists(FlowEdges, h, g))
           => PositionOf(f) < PositionOf(g)

(* What c held before tick t.                                              *)
HeldBefore(c, t) == IF t - 1 \in SampleTicks(c) THEN samples[c][t - 1].value ELSE Unset

(* A cone function sees the world of its own tick: no logged or overridden *)
(* value of an earlier tick; of an overridden channel a value of this tick *)
(* that is not the log's; of a channel that nothing drives a value of this *)
(* tick or the one it has held since the last.  Of a channel that only the *)
(* log drives nothing more is said: see ConeOutputsAreHeld.                *)
ConeSeesThisTick ==
  \A c \in DOMAIN execution.seen :
    LET v == execution.seen[c]
    IN  /\ v.kind \in {"log", "override"} => v.at = execution.at
        /\ c \in overridden => v.at = execution.at /\ v.kind # "log"
        /\ c \notin logged \cup overridden =>
             \/ v.at = execution.at
             \/ v = HeldBefore(c, execution.at)

(* runner.rs:1315 to 1317: "The union of channels the cone writes, so a    *)
(* cone function that does not run on a tick holds its last value": a      *)
(* channel that showed a computed value shows it still after a tick on     *)
(* which none of its writers in the cone was due.                          *)
ConeOutputsAreHeld ==
  \A c \in ConeOutputs \ overridden : \A i \in SampleTicks(c) :
    (/\ HeldBefore(c, i).kind = "computed"
     /\ \A f \in needed : c \in writes[f] => i % divisor[f] # 0)
       => samples[c][i].value = HeldBefore(c, i)

(* The walk, the ordering and the replay all come to an end, on cyclic     *)
(* projects too.                                                           *)
ReplayEnds == <>(phase \in {"ended", "failed"})

-----------------------------------------------------------------------------
=============================================================================
