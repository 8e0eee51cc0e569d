------------------------------ MODULE TickLoop ------------------------------
(***************************************************************************)
(* The whole-project run (tick_loop in src/runner.rs) filling its trace:   *)
(* seeds, the startup pass, the rate-gated periodic functions in plan      *)
(* order, the provenance captured when each one starts, and the zero-order *)
(* hold that closes a tick.                                                *)
(***************************************************************************)
EXTENDS Trace

CONSTANTS
  Periodic,       \* functions on the periodic plan
  StartupOrder,   \* On-Startup functions, in the order they run
  Reads,          \* channels a function reads, callees included
  Writes,         \* channels it may write, callees included
  DirectWrites,   \* those its own script assigns
  Divisors,       \* tick divisors a function may have
  AllowDefaults   \* allow_default_inputs of the scenario

ASSUME TickLoopAssumption ==
  /\ Periodic \subseteq Functions
  /\ StartupOrder \in Seq(Functions \ Periodic)
  /\ Reads \in [Functions -> SUBSET Channels]
  /\ Writes \in [Functions -> SUBSET Channels]
  /\ DirectWrites \in [Functions -> SUBSET Channels]
  /\ \A f \in Functions : DirectWrites[f] \subseteq Writes[f]
  /\ \A f, g \in Periodic : f # g => Writes[f] \cap Writes[g] = {}
  /\ Divisors \subseteq Nat \ {0}
  /\ AllowDefaults \in BOOLEAN

VARIABLES
  order,            \* the plan: periodic functions in execution order
  divisor,
  inputs, overrides, initial,   \* channels the scenario drives or seeds
  env,              \* the value store
  startupWritten,
  phase,
  position,         \* next plan position, or next startup function
  execution         \* the latest ScheduleExecution

scenarioVars == <<order, divisor, inputs, overrides, initial>>
vars == <<order, divisor, inputs, overrides, initial, env, samples, columns,
          external, startupWritten, tick, phase, position, execution>>

Sources == {"current", "held", "unavailable"}
Phases  == {"startup", "seed", "run", "ended", "aborted"}

ScheduledWrites ==
  UNION {DirectWrites[f] : f \in Periodic \cup
                           {StartupOrder[i] : i \in 1..Len(StartupOrder)}}

Due(f) == tick % divisor[f] = 0

NoExecution == [function |-> 0, at |-> Before, inputs |-> {}]

TypeOK ==
  /\ env \in [Channels -> Values]
  /\ TraceTypeOK
  /\ startupWritten \subseteq Channels
  /\ phase \in Phases
  /\ position \in 1..(Len(order) + Len(StartupOrder) + 1)
  /\ execution.inputs \subseteq
       [writer : Periodic, channel : Channels, writerDue : BOOLEAN,
        source : Sources, external : BOOLEAN, seen : Values]

-----------------------------------------------------------------------------
Init ==
  /\ order \in [1..Cardinality(Periodic) -> Periodic]
  /\ \A i, j \in DOMAIN order : i # j => order[i] # order[j]
  /\ divisor \in [Periodic -> Divisors]
  /\ inputs \in SUBSET Channels
  /\ overrides \in SUBSET Channels
  /\ initial \in SUBSET Channels
  /\ env = [c \in Channels |-> IF c \in initial THEN InitialSeed ELSE Unset]
  /\ EmptyTrace
  /\ startupWritten = {}
  /\ tick = 0
  /\ phase = IF StartupOrder = <<>> THEN "seed" ELSE "startup"
  /\ position = 1
  /\ execution = NoExecution

(* Scenario values written into the store at time t, overrides on top.     *)
Seeded(t, e) ==
  [c \in Channels |-> IF c \in overrides THEN Override(t)
                      ELSE IF c \in inputs THEN Input(t)
                      ELSE e[c]]

(* Unset channels f reads before it writes them: substituted by a default  *)
(* when the scenario allows it.  Otherwise such a read fails the script.   *)
DefaultedReads(f, e) ==
  IF AllowDefaults THEN SUBSET {c \in Reads[f] : e[c] = Unset} ELSE {{}}

(* Each startup function runs once, before the first tick, into a trace of *)
(* its own of which only the metadata is kept.                             *)
RunStartup(written, defaulted) ==
  /\ phase = "startup"
  /\ LET f == StartupOrder[position]
         seeded == IF position = 1 THEN Seeded(Before, env) ELSE env
     IN  /\ written \subseteq Writes[f]
         /\ defaulted \in DefaultedReads(f, seeded)
         /\ env' = [c \in Channels |-> IF c \in written THEN Computed(f, Before)
                                       ELSE seeded[c]]
  /\ startupWritten' = startupWritten \cup written
  /\ external' = external \cup defaulted
  /\ IF position = Len(StartupOrder)
     THEN phase' = "seed" /\ position' = 1
     ELSE phase' = "startup" /\ position' = position + 1
  /\ UNCHANGED <<scenarioVars, samples, columns, tick, execution>>

OpenTick ==
  /\ phase = "seed"
  /\ tick < Ticks
  /\ env' = Seeded(tick, env)
  /\ phase' = "run"
  /\ position' = 1
  /\ UNCHANGED <<scenarioVars, traceVars, startupWritten, tick, execution>>

Found(source, flag) == [source |-> source, external |-> flag]

(* A value from before this tick. *)
OlderProvenance(c) ==
  IF tick = 0 /\ c \in initial THEN Found("held", c \notin startupWritten)
  ELSE IF tick = 0 /\ c \in startupWritten THEN Found("held", FALSE)
  ELSE IF tick - 1 \in SampleTicks(c)
       THEN Found("held", samples[c][tick - 1].external)
  ELSE IF env[c] # Unset THEN Found("held", c \in external)
  ELSE Found("unavailable", FALSE)

(* Mutant: the scenario's word goes before that of the trace.              *)
ProvenanceScenarioFirst(c) ==
  IF c \in inputs \cup overrides THEN Found("current", TRUE)
  ELSE IF RecordedNow(c) THEN Found("current", samples[c][tick].external)
  ELSE OlderProvenance(c)

(* Where the runner says the value of c came from (schedule_input_provenance). *)
Provenance(c) ==
  IF RecordedNow(c) THEN Found("current", samples[c][tick].external)
  ELSE IF c \in inputs \cup overrides THEN Found("current", TRUE)
  ELSE OlderProvenance(c)

Dependencies(f) ==
  {d \in (Periodic \ {f}) \X Channels : d[2] \in Writes[d[1]] \cap Reads[f]}

InputRecord(d) ==
  LET p == Provenance(d[2])
  IN  [writer |-> d[1], channel |-> d[2], writerDue |-> Due(d[1]),
       source |-> p.source, external |-> p.external, seen |-> env[d[2]]]

(* Mutant: no rate gate, every function runs on every tick.                *)
NextOfPlan(p) == p = position

(* The first due function of the plan not yet run on this tick. *)
NextDue(p) ==
  /\ p >= position
  /\ Due(order[p])
  /\ \A q \in position..(p - 1) : ~Due(order[q])

(* The due function at plan position p assigns the channels in written.    *)
RunDue(p, written, defaulted) ==
  LET f == order[p]
  IN  /\ phase = "run"
      /\ NextDue(p)
      /\ written \subseteq Writes[f]
      /\ defaulted \in DefaultedReads(f, env)
      /\ execution' = [function |-> f, at |-> tick,
                       inputs |-> {InputRecord(d) : d \in Dependencies(f)}]
      /\ env' = [c \in Channels |-> IF c \in written THEN Computed(f, tick)
                                    ELSE env[c]]
      /\ Record(ScriptSamples(f, written))
      /\ external' = external \cup defaulted
      /\ position' = p + 1
      /\ UNCHANGED <<scenarioVars, startupWritten, tick, phase>>

(* A script fails (a missing input, a division by zero, ...) or a scenario *)
(* value is no member of its channel's enum: the run ends with an error,   *)
(* and the store and the trace are dropped with it.                        *)
ScriptFails ==
  /\ \/ phase = "startup"
     \/ phase = "seed" /\ tick < Ticks /\ inputs \cup overrides # {}
     \/ phase = "run" /\ \E p \in position..Len(order) : NextDue(p)
  /\ phase' = "aborted"
  /\ env' = [c \in Channels |-> Unset]
  /\ samples' = [c \in Channels |-> <<>>]
  /\ columns' = [c \in Channels |-> <<>>]
  /\ external' = {} /\ startupWritten' = {}
  /\ execution' = NoExecution
  /\ UNCHANGED <<scenarioVars, tick, position>>

NoneDue == \A p \in position..Len(order) : ~Due(order[p])

(* Mutant: what only a callee assigns is not held.                         *)
HeldIfScheduled(c) == c \in ScheduledWrites /\ env[c] # Unset

Holdable(c) ==
  /\ c \in ScheduledWrites \/ columns[c] # <<>>
  /\ env[c] # Unset

(* Close the tick: scenario values not assigned on it are recorded as      *)
(* external, an initial seed as external until something computed it, and  *)
(* every other scheduled or already traced channel repeats its value.      *)
CloseTick ==
  /\ phase = "run"
  /\ NoneDue
  /\ LET open        == {c \in Channels : ~RecordedNow(c)}
         driven      == open \cap (inputs \cup overrides)
         seeded      == (open \ driven) \cap initial
         startupOut  == {c \in seeded : tick = 0 /\ c \in startupWritten}
         heldSeed    == {c \in seeded : tick > 0 /\ tick - 1 \in SampleTicks(c)}
         freshSeed   == seeded \ (startupOut \cup heldSeed)
         flagged     == external \cup driven \cup freshSeed
         held        == heldSeed \cup {c \in (open \ driven) \ seeded : Holdable(c)}
     IN  /\ Record([c \in driven \cup freshSeed \cup startupOut \cup held |->
                      [value |-> env[c],
                       external |-> IF c \in driven \cup freshSeed THEN TRUE
                                    ELSE IF c \in startupOut THEN FALSE
                                    ELSE HeldFlag(c, flagged)]])
         /\ external' = flagged
  /\ tick' = tick + 1
  /\ phase' = "seed"
  /\ UNCHANGED <<scenarioVars, env, startupWritten, position, execution>>

EndRun ==
  /\ phase = "seed"
  /\ tick = Ticks
  /\ phase' = "ended"
  /\ UNCHANGED <<scenarioVars, env, traceVars, startupWritten, tick, position,
                 execution>>

Next ==
  \/ /\ phase = "startup"
     /\ LET f == StartupOrder[position]
        IN  \E w \in SUBSET Writes[f], d \in SUBSET Reads[f] : RunStartup(w, d)
  \/ OpenTick
  \/ \E p \in position..Len(order) :
       \E w \in SUBSET Writes[order[p]], d \in SUBSET Reads[order[p]] :
         RunDue(p, w, d)
  \/ ScriptFails
  \/ CloseTick
  \/ EndRun

Spec == Init /\ [][Next]_vars /\ WF_vars(Next)

-----------------------------------------------------------------------------
(* What the trace says of the origin of a value is true. A sample is        *)
(* flagged external only if no script computed it, however long it is held. *)
(* Of an input of an execution: current only if written or seeded on this   *)
(* tick, held only if older, unavailable only if there is none.             *)
ProvenanceIsTrue ==
  SampleFlagsAreTrue /\ \A in \in execution.inputs :
    /\ in.source = "unavailable" <=> in.seen = Unset
    /\ in.seen # Unset =>
         /\ in.source = "current" <=> in.seen.at = execution.at
         /\ ExternalTruthfully(in.external, in.seen)

PositionOf(f) == CHOOSE i \in DOMAIN order : order[i] = f

AssignedOn(c, v) == v.at \in SampleTicks(c) /\ samples[c][v.at].value = v

(* A function is given the value that the owner of an input assigns on the *)
(* tick exactly when the owner is due, earlier in the plan and did assign  *)
(* one, and otherwise nothing computed on this tick: an owner later in the *)
(* plan (a feedback dependency) is always seen at an earlier one.          *)
CurrentInputsFollowThePlan ==
  \A in \in execution.inputs :
    LET v == Computed(in.writer, execution.at)
    IN  /\ in.seen.kind = "computed" /\ in.seen.at = execution.at => in.seen = v
        /\ in.seen = v <=>
             /\ in.writerDue
             /\ PositionOf(in.writer) < PositionOf(execution.function)
             /\ AssignedOn(in.channel, v)

(* Between ticks each column is dense from its first sample on, and its    *)
(* last value is the one in the store.                                     *)
ColumnsAreHeld ==
  phase \in {"seed", "ended"} =>
    \A c \in Channels :
      LET first == CHOOSE i \in SampleTicks(c) : \A j \in SampleTicks(c) : i <= j
      IN  SampleTicks(c) # {} =>
            /\ SampleTicks(c) = first..(tick - 1)
            /\ samples[c][tick - 1].value = env[c]
            /\ Len(columns[c]) = tick - first
            /\ \A i \in SampleTicks(c) :
                 columns[c][i - first + 1] = samples[c][i].value

-----------------------------------------------------------------------------

=============================================================================
