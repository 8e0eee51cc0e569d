--------------------------- MODULE TickLoopProofs ---------------------------
(***************************************************************************)
(* Theorems of TickLoop, for every project, plan, scenario and length of   *)
(* run: the trace tells the truth about the origin of every value, inputs  *)
(* of the current tick come from earlier in the plan, and columns are held *)
(* densely to the end.                                                     *)
(***************************************************************************)
EXTENDS TickLoop, FiniteSetTheorems, TLAPS

USE ProjectAssumption, TraceAssumption, TickLoopAssumption

Driven  == inputs \cup overrides
Between == phase \in {"startup", "seed", "ended"}

PlanShape ==
  /\ order \in Seq(Periodic)
  /\ \A i, j \in DOMAIN order : order[i] = order[j] => i = j
  /\ divisor \in [Periodic -> Nat \ {0}]
  /\ inputs \subseteq Channels /\ overrides \subseteq Channels
  /\ initial \subseteq Channels

ClockShape ==
  /\ phase \in Phases
  /\ tick \in 0..Ticks
  /\ position \in 1..(Len(order) + Len(StartupOrder) + 1)
  /\ phase = "startup" => tick = 0 /\ position \in 1..Len(StartupOrder)
  /\ phase = "run" => tick < Ticks /\ position \in 1..(Len(order) + 1)

StoreShape ==
  /\ env \in [Channels -> Values]
  /\ startupWritten \subseteq Channels
  /\ external \subseteq Channels

SamplesOf(c) ==
  /\ columns[c] \in Seq(Values)
  /\ SampleTicks(c) \subseteq 0..tick
  /\ \A i \in SampleTicks(c) :
       samples[c][i].value \in Values /\ samples[c][i].external \in BOOLEAN

SamplesShape == \A c \in Channels : SamplesOf(c)

Shape == PlanShape /\ ClockShape /\ StoreShape /\ SamplesShape

(* The samples of c are those of the ticks a to b, and its column lists    *)
(* their values.                                                           *)
Dense(c, a, b) ==
  /\ a <= b
  /\ SampleTicks(c) = a..b
  /\ Len(columns[c]) = b - a + 1
  /\ \A i \in a..b : columns[c][i - a + 1] = samples[c][i].value

(* A column never has a gap: it ends at the open tick or the one before.   *)
ColumnInv(c) ==
  \/ SampleTicks(c) = {} /\ columns[c] = <<>>
  \/ \E a \in 0..tick, b \in {tick - 1, tick} :
       Dense(c, a, b) /\ (b = tick => phase = "run")

(* What the store holds of c, against the scenario and the latest closed   *)
(* tick.                                                                   *)
StoreInv(c) ==
  /\ env[c].kind = "unset" => env[c] = Unset
  /\ env[c] = Unset =>
       /\ c \notin initial /\ SampleTicks(c) = {}
       /\ c \notin startupWritten \/ c \in Driven
       /\ phase = "run" => c \notin Driven
  /\ Between => env[c].at < tick
  /\ tick > 0 /\ c \in Driven \cup initial => tick - 1 \in SampleTicks(c)
  /\ c \notin Driven \cup initial => env[c].kind \in {"unset", "computed"}
  /\ c \in initial \ Driven /\ tick = 0 /\ ~RecordedNow(c) =>
       env[c].kind = IF c \in startupWritten THEN "computed" ELSE "initial"
  /\ ~RecordedNow(c) /\ tick - 1 \in SampleTicks(c) /\ (Between \/ c \notin Driven) =>
       samples[c][tick - 1].value = env[c]

(* Some function before plan position p, due on this tick, wrote v to c.   *)
WrittenBefore(p, c, v) ==
  \E q \in 1..(p - 1) :
    q <= Len(order) /\ order[q] = v.by /\ Due(order[q]) /\ c \in Writes[order[q]]

(* Inside a tick: what is of this tick was computed and recorded on it, or *)
(* comes from the scenario.                                                *)
OpenInv(c) ==
  phase = "run" =>
    /\ c \in Driven /\ ~RecordedNow(c) =>
         env[c].kind \in {"input", "override"} /\ env[c].at = tick
    /\ c \notin Driven /\ ~RecordedNow(c) => env[c].at < tick
    /\ RecordedNow(c) =>
         /\ env[c].kind = "computed" /\ env[c].at = tick
         /\ samples[c][tick].value = env[c]
         /\ ~samples[c][tick].external
         /\ WrittenBefore(position, c, env[c])

LoopInv ==
  phase # "aborted" =>
    \A c \in Channels : ColumnInv(c) /\ StoreInv(c) /\ OpenInv(c)

-----------------------------------------------------------------------------
LEMMA ValueParts ==
  ASSUME NEW v \in Values
  PROVE  v.kind \in ValueKinds /\ v.by \in Nat /\ v.at \in Int /\ v.at >= -1
  BY DEF Values, Before

LEMMA ValuesMade ==
  ASSUME NEW t \in {Before} \cup 0..Ticks, NEW f \in Nat
  PROVE  /\ Unset \in Values /\ InitialSeed \in Values
         /\ Input(t) \in Values /\ Override(t) \in Values
         /\ Computed(f, t) \in Values
  BY DEF Values, ValueKinds, Unset, InitialSeed, Input, Override, Computed, Before

LEMMA StartupIsFunction ==
  ASSUME NEW i \in 1..Len(StartupOrder)
  PROVE  StartupOrder[i] \in Functions /\ StartupOrder[i] \in Nat
  OBVIOUS

LEMMA SeededShape ==
  ASSUME PlanShape, env \in [Channels -> Values], NEW t \in {Before} \cup 0..Ticks
  PROVE  Seeded(t, env) \in [Channels -> Values]
<1>1. Override(t) \in Values /\ Input(t) \in Values
  BY ValuesMade
<1> QED BY <1>1 DEF Seeded

LEMMA ColumnRewritten ==
  ASSUME NEW V, NEW s \in Seq(V), NEW v \in V, NEW i
  PROVE  [s EXCEPT ![i] = v] \in Seq(V)
<1>1. Len(s) \in Nat /\ s \in [1..Len(s) -> V]
  OBVIOUS
<1>2. [s EXCEPT ![i] = v] \in [1..Len(s) -> V]
  BY <1>1
<1> QED BY <1>1, <1>2

(* What Record does to one channel.                                        *)
LEMMA RecordSkips ==
  ASSUME NEW added, Record(added), NEW c \in Channels, c \notin DOMAIN added
  PROVE  samples'[c] = samples[c] /\ columns'[c] = columns[c]
  BY DEF Record

LEMMA RecordAdds ==
  ASSUME NEW added, Record(added), NEW c \in Channels, c \in DOMAIN added
  PROVE  /\ DOMAIN samples'[c] = DOMAIN samples[c] \cup {tick}
         /\ samples'[c][tick] = added[c]
         /\ \A i \in DOMAIN samples[c] : i # tick => samples'[c][i] = samples[c][i]
  BY DEF Record, SampleTicks

(* The last value of the column is then the one added.                     *)
LEMMA RecordColumn ==
  ASSUME NEW added, Record(added), NEW c \in Channels, c \in DOMAIN added,
         columns[c] \in Seq(Values), added[c].value \in Values
  PROVE  /\ columns'[c] \in Seq(Values)
         /\ Len(columns'[c]) = IF RecordedNow(c) THEN Len(columns[c])
                               ELSE Len(columns[c]) + 1
         /\ Len(columns'[c]) > 0 =>
              columns'[c][Len(columns'[c])] = added[c].value
         /\ \A j \in 1..(Len(columns'[c]) - 1) : columns'[c][j] = columns[c][j]
<1>1. CASE RecordedNow(c)
  <2>1. columns'[c] = [columns[c] EXCEPT ![Len(columns[c])] = added[c].value]
    BY <1>1 DEF Record, SampleTicks
  <2>2. columns'[c] \in Seq(Values)
    BY <2>1, ColumnRewritten
  <2>3. Len(columns'[c]) = Len(columns[c]) /\ Len(columns[c]) \in Nat
    BY <2>1
  <2> QED BY <1>1, <2>1, <2>2, <2>3
<1>2. CASE ~RecordedNow(c)
  <2>1. columns'[c] = Append(columns[c], added[c].value)
    BY <1>2 DEF Record, SampleTicks
  <2> QED BY <1>2, <2>1
<1> QED BY <1>1, <1>2

LEMMA RecordShape ==
  ASSUME NEW c \in Channels, SamplesOf(c), tick \in Nat, tick' \in {tick, tick + 1},
         NEW added, Record(added),
         c \in DOMAIN added =>
           added[c].value \in Values /\ added[c].external \in BOOLEAN
  PROVE  SamplesOf(c)'
<1>1. CASE c \notin DOMAIN added
  <2>1. samples'[c] = samples[c] /\ columns'[c] = columns[c]
    BY <1>1, RecordSkips
  <2> QED BY <2>1 DEF SamplesOf, SampleTicks
<1>2. CASE c \in DOMAIN added
  <2>1. /\ DOMAIN samples'[c] = DOMAIN samples[c] \cup {tick}
        /\ samples'[c][tick] = added[c]
        /\ \A i \in DOMAIN samples[c] : i # tick => samples'[c][i] = samples[c][i]
    BY <1>2, RecordAdds
  <2>2. /\ SampleTicks(c)' \subseteq 0..tick'
        /\ \A i \in SampleTicks(c)' :
             /\ samples'[c][i].value \in Values
             /\ samples'[c][i].external \in BOOLEAN
    BY <1>2, <2>1 DEF SamplesOf, SampleTicks
  <2>3. columns'[c] \in Seq(Values)
    BY <1>2, RecordColumn DEF SamplesOf
  <2> QED BY <2>2, <2>3 DEF SamplesOf
<1> QED BY <1>1, <1>2

(* A recorded channel is dense up to the open tick.                        *)
LEMMA RecordIsDense ==
  ASSUME NEW c \in Channels, SamplesOf(c), ColumnInv(c),
         NEW t \in Nat, t = tick,
         NEW added, Record(added), c \in DOMAIN added, added[c].value \in Values
  PROVE  \E a \in 0..t : Dense(c, a, t)'
<1>1. /\ DOMAIN samples'[c] = DOMAIN samples[c] \cup {t}
      /\ samples'[c][t] = added[c]
      /\ \A i \in DOMAIN samples[c] : i # t => samples'[c][i] = samples[c][i]
  BY RecordAdds
<1>2. /\ columns[c] \in Seq(Values)
      /\ Len(columns'[c]) = IF RecordedNow(c) THEN Len(columns[c])
                            ELSE Len(columns[c]) + 1
      /\ Len(columns'[c]) > 0 => columns'[c][Len(columns'[c])] = added[c].value
      /\ \A j \in 1..(Len(columns'[c]) - 1) : columns'[c][j] = columns[c][j]
  BY RecordColumn DEF SamplesOf
<1>3. CASE DOMAIN samples[c] = {} /\ columns[c] = <<>>
  <2>1. DOMAIN samples'[c] = t..t
    BY <1>1, <1>3
  <2>2. ~RecordedNow(c) /\ Len(columns'[c]) = 1
    BY <1>2, <1>3 DEF RecordedNow, SampleTicks
  <2>3. columns'[c][1] = samples'[c][t].value
    BY <1>1, <1>2, <2>2
  <2>4. Dense(c, t, t)'
    BY <2>1, <2>2, <2>3 DEF Dense, SampleTicks
  <2> QED BY <2>4
<1>4. CASE \E a \in 0..tick, b \in {tick - 1, tick} : Dense(c, a, b)
  <2>1. PICK a \in 0..t, b \in {t - 1, t} : Dense(c, a, b)
    BY <1>4
  <2>2. /\ a <= b /\ a \in Nat /\ b \in Int
        /\ DOMAIN samples[c] = a..b
        /\ Len(columns[c]) = b - a + 1
        /\ \A i \in a..b : columns[c][i - a + 1] = samples[c][i].value
    BY <2>1 DEF Dense, SampleTicks
  <2>3. RecordedNow(c) <=> b = t
    BY <2>2 DEF RecordedNow, SampleTicks
  <2>4. DOMAIN samples'[c] = a..t
    BY <1>1, <2>1, <2>2
  <2>5. Len(columns'[c]) = t - a + 1
    BY <1>2, <2>1, <2>2, <2>3
  <2>6. ASSUME NEW i \in a..t
        PROVE  columns'[c][i - a + 1] = samples'[c][i].value
    <3>1. CASE i = t
      <4>1. Len(columns'[c]) = i - a + 1 /\ Len(columns'[c]) > 0
        BY <3>1, <2>2, <2>5
      <4>2. columns'[c][i - a + 1] = added[c].value
        BY <4>1, <1>2
      <4>3. samples'[c][i] = added[c]
        BY <3>1, <1>1
      <4> QED BY <4>2, <4>3
    <3>2. CASE i # t
      <4>1. i \in a..b /\ i - a + 1 \in 1..(Len(columns'[c]) - 1)
        BY <3>2, <2>1, <2>2, <2>5
      <4>2. columns[c][i - a + 1] = samples[c][i].value
        BY <4>1, <2>2
      <4>3. columns'[c][i - a + 1] = columns[c][i - a + 1]
        BY <4>1, <1>2
      <4>4. samples'[c][i] = samples[c][i]
        BY <4>1, <3>2, <1>1, <2>2
      <4> QED BY <4>2, <4>3, <4>4
    <3> QED BY <3>1, <3>2
  <2>7. Dense(c, a, t)'
    BY <2>1, <2>2, <2>4, <2>5, <2>6 DEF Dense, SampleTicks
  <2> QED BY <2>7
<1> QED BY <1>3, <1>4 DEF ColumnInv, SampleTicks

(* What a dense channel's samples are, without the column.                 *)
LEMMA DenseSamples ==
  ASSUME NEW c \in Channels, ColumnInv(c), tick \in Nat
  PROVE  /\ \A i \in SampleTicks(c) : i \in 0..tick
         /\ \A i \in SampleTicks(c) : \A j \in i..(tick - 1) : j \in SampleTicks(c)
         /\ SampleTicks(c) # {} => RecordedNow(c) \/ tick - 1 \in SampleTicks(c)
         /\ RecordedNow(c) => phase = "run"
         /\ SampleTicks(c) # {} => columns[c] # <<>>
<1>1. CASE SampleTicks(c) = {} /\ columns[c] = <<>>
  BY <1>1 DEF RecordedNow
<1>2. CASE \E a \in 0..tick, b \in {tick - 1, tick} :
             Dense(c, a, b) /\ (b = tick => phase = "run")
  <2>1. PICK a \in 0..tick, b \in {tick - 1, tick} :
          Dense(c, a, b) /\ (b = tick => phase = "run")
    BY <1>2
  <2>2. a <= b /\ SampleTicks(c) = a..b /\ Len(columns[c]) = b - a + 1
    BY <2>1 DEF Dense
  <2>3. columns[c] # <<>>
    BY <2>1, <2>2
  <2> QED BY <2>1, <2>2, <2>3 DEF RecordedNow
<1> QED BY <1>1, <1>2 DEF ColumnInv

LEMMA MadeParts ==
  ASSUME NEW t, NEW f
  PROVE  /\ Input(t).kind = "input" /\ Input(t).at = t /\ Input(t) # Unset
         /\ Override(t).kind = "override" /\ Override(t).at = t /\ Override(t) # Unset
         /\ Computed(f, t).kind = "computed" /\ Computed(f, t).at = t
         /\ Computed(f, t).by = f /\ Computed(f, t) # Unset
         /\ InitialSeed.kind = "initial" /\ InitialSeed.at = -1 /\ InitialSeed # Unset
         /\ Unset.kind = "unset" /\ Unset.at = -1
  BY DEF Input, Override, Computed, InitialSeed, Unset, Before

(* The scenario's word on a channel, or none.                              *)
LEMMA SeededOf ==
  ASSUME NEW c \in Channels, NEW t, PlanShape
  PROVE  /\ c \notin Driven => Seeded(t, env)[c] = env[c]
         /\ c \in Driven => /\ Seeded(t, env)[c].kind \in {"input", "override"}
                            /\ Seeded(t, env)[c].at = t
                            /\ Seeded(t, env)[c] # Unset
  BY MadeParts DEF Seeded, Driven

LEMMA InitInv == Init => Shape /\ LoopInv
<1> SUFFICES ASSUME Init PROVE Shape /\ LoopInv
  OBVIOUS
<1>1. PlanShape
  <2>1. IsFiniteSet(Periodic)
    BY FS_Subset
  <2>2. Cardinality(Periodic) \in Nat
    BY <2>1, FS_CardinalityType
  <2>3. order \in Seq(Periodic)
    BY <2>2 DEF Init
  <2> QED BY <2>3 DEF PlanShape, Init
<1>2. ClockShape
  <2>1. Len(order) \in Nat /\ Len(StartupOrder) \in Nat
    BY <1>1 DEF PlanShape
  <2>2. StartupOrder # <<>> => Len(StartupOrder) > 0
    OBVIOUS
  <2> QED BY <2>1, <2>2 DEF ClockShape, Init, Phases
<1>3. StoreShape
  BY ValuesMade DEF StoreShape, Init, Before, EmptyTrace
<1>4. ASSUME NEW c \in Channels
      PROVE  SamplesOf(c) /\ SampleTicks(c) = {} /\ columns[c] = <<>>
  BY DEF SamplesOf, SampleTicks, Init, EmptyTrace
<1>5. ASSUME NEW c \in Channels PROVE StoreInv(c) /\ OpenInv(c)
  <2>1. /\ env[c] = IF c \in initial THEN InitialSeed ELSE Unset
        /\ tick = 0 /\ startupWritten = {} /\ phase # "run"
    BY DEF Init
  <2> QED BY <1>4, <2>1, MadeParts DEF StoreInv, OpenInv
<1> QED BY <1>1, <1>2, <1>3, <1>4, <1>5 DEF Shape, SamplesShape, LoopInv, ColumnInv

LEMMA RunStartupKeeps ==
  ASSUME Shape, LoopInv, NEW written, NEW defaulted, RunStartup(written, defaulted)
  PROVE  Shape' /\ LoopInv'
<1> DEFINE f      == StartupOrder[position]
           seeded == IF position = 1 THEN Seeded(Before, env) ELSE env
<1>1. /\ phase = "startup" /\ tick = 0 /\ position \in 1..Len(StartupOrder)
      /\ UNCHANGED <<order, divisor, inputs, overrides, initial, samples, columns, tick>>
  BY DEF RunStartup, scenarioVars, Shape, ClockShape
<1>2. f \in Functions /\ f \in Nat
  BY <1>1, StartupIsFunction
<1>3. /\ written \subseteq Writes[f]
      /\ env' = [c \in Channels |-> IF c \in written THEN Computed(f, Before)
                                    ELSE seeded[c]]
      /\ startupWritten' = startupWritten \cup written
      /\ external' = external \cup defaulted
      /\ defaulted \in DefaultedReads(f, seeded)
  BY DEF RunStartup
<1>4. written \subseteq Channels /\ defaulted \subseteq Channels
  <2>1. Writes[f] \subseteq Channels /\ Reads[f] \subseteq Channels
    BY <1>2
  <2> QED BY <1>3, <2>1 DEF DefaultedReads
<1>5. phase' \in {"startup", "seed"}
  BY DEF RunStartup
<1>6. PlanShape'
  BY <1>1 DEF Shape, PlanShape
<1>7. ClockShape'
  <2>1. Len(order) \in Nat /\ Len(StartupOrder) \in Nat
    BY DEF Shape, PlanShape
  <2> QED BY <1>1, <2>1 DEF Shape, ClockShape, RunStartup, Phases
<1>8. StoreShape'
  <2>1. seeded \in [Channels -> Values]
    BY SeededShape DEF Shape, StoreShape
  <2>2. Computed(f, Before) \in Values
    BY <1>2, ValuesMade
  <2> QED BY <1>3, <1>4, <2>1, <2>2 DEF Shape, StoreShape
<1>9. ASSUME NEW c \in Channels PROVE SamplesOf(c)'
  BY <1>1 DEF Shape, SamplesShape, SamplesOf, SampleTicks
<1>10. ASSUME NEW c \in Channels PROVE ColumnInv(c)' /\ StoreInv(c)' /\ OpenInv(c)'
  <2>1. ColumnInv(c) /\ StoreInv(c)
    BY <1>1 DEF LoopInv
  <2>2. SampleTicks(c) = {}
    BY <1>1, <2>1, DenseSamples
  <2>3. DOMAIN samples'[c] = {} /\ columns'[c] = <<>>
    BY <1>1, <2>1, <2>2 DEF ColumnInv, Dense, SampleTicks
  <2>4. ~RecordedNow(c) /\ ~RecordedNow(c)'
    BY <2>2, <2>3 DEF RecordedNow, SampleTicks
  <2>5. /\ c \in written => env'[c].kind = "computed" /\ env'[c].at = -1
                            /\ env'[c] # Unset
        /\ c \notin written => env'[c] = seeded[c]
    BY <1>3, MadeParts DEF Before
  <2>6. /\ c \notin Driven => seeded[c] = env[c]
        /\ c \in Driven => \/ seeded[c] = env[c]
                           \/ /\ seeded[c].kind \in {"input", "override"}
                              /\ seeded[c].at = -1 /\ seeded[c] # Unset
    BY SeededOf DEF Shape, Before
  <2>7. Driven' = Driven
    BY <1>1 DEF Driven
  <2>8. StoreInv(c)'
    BY <1>1, <1>3, <1>5, <2>1, <2>2, <2>3, <2>4, <2>5, <2>6, <2>7
       DEF StoreInv, Between, SampleTicks
  <2> QED BY <1>5, <2>3, <2>8 DEF ColumnInv, OpenInv, SampleTicks
<1> QED BY <1>6, <1>7, <1>8, <1>9, <1>10 DEF Shape, SamplesShape, LoopInv

LEMMA OpenTickKeeps ==
  ASSUME Shape, LoopInv, OpenTick
  PROVE  Shape' /\ LoopInv'
<1>1. /\ phase = "seed" /\ tick < Ticks /\ phase' = "run" /\ position' = 1
      /\ env' = Seeded(tick, env)
      /\ UNCHANGED <<order, divisor, inputs, overrides, initial, samples, columns,
                     external, startupWritten, tick>>
  BY DEF OpenTick, scenarioVars, traceVars
<1>2. PlanShape'
  BY <1>1 DEF Shape, PlanShape
<1>3. ClockShape'
  <2>1. Len(order) \in Nat /\ Len(StartupOrder) \in Nat
    BY DEF Shape, PlanShape
  <2> QED BY <1>1, <2>1 DEF Shape, ClockShape, Phases
<1>4. StoreShape'
  BY <1>1, SeededShape DEF Shape, StoreShape, ClockShape
<1>5. ASSUME NEW c \in Channels PROVE SamplesOf(c)'
  BY <1>1 DEF Shape, SamplesShape, SamplesOf, SampleTicks
<1>6. ASSUME NEW c \in Channels PROVE ColumnInv(c)' /\ StoreInv(c)' /\ OpenInv(c)'
  <2>1. ColumnInv(c) /\ StoreInv(c) /\ tick \in Nat
    BY <1>1 DEF LoopInv, Shape, ClockShape
  <2>2. ~RecordedNow(c) /\ ~RecordedNow(c)'
    BY <1>1, <2>1, DenseSamples DEF RecordedNow, SampleTicks
  <2>3. /\ c \notin Driven => env'[c] = env[c]
        /\ c \in Driven => /\ env'[c].kind \in {"input", "override"}
                           /\ env'[c].at = tick /\ env'[c] # Unset
    BY <1>1, SeededOf DEF Shape
  <2>4. Driven' = Driven /\ SampleTicks(c)' = SampleTicks(c)
    BY <1>1 DEF Driven, SampleTicks
  <2>5. ColumnInv(c)'
    BY <1>1, <2>1 DEF ColumnInv, Dense, SampleTicks
  <2>6. StoreInv(c)'
    BY <1>1, <2>1, <2>2, <2>3, <2>4 DEF StoreInv, Between
  <2>7. OpenInv(c)'
    BY <1>1, <2>1, <2>2, <2>3, <2>4 DEF OpenInv, StoreInv, Between
  <2> QED BY <2>5, <2>6, <2>7
<1> QED BY <1>2, <1>3, <1>4, <1>5, <1>6 DEF Shape, SamplesShape, LoopInv

(* What a step of the plan does to one channel.                            *)
LEMMA RunDueOf ==
  ASSUME Shape, LoopInv, NEW p \in position..Len(order), NEW written, NEW defaulted,
         RunDue(p, written, defaulted), NEW c \in Channels
  PROVE  /\ order[p] \in Periodic /\ order[p] \in Nat /\ Due(order[p])
         /\ p \in Nat /\ p >= position /\ position \in 1..p
         /\ written \subseteq Writes[order[p]] /\ written \subseteq Channels
         /\ c \in written => env'[c] = Computed(order[p], tick)
         /\ c \notin written => env'[c] = env[c]
         /\ phase = "run" /\ phase' = "run" /\ tick' = tick /\ position' = p + 1
         /\ Record(ScriptSamples(order[p], written))
         /\ UNCHANGED <<order, divisor, inputs, overrides, initial, startupWritten>>
<1>1. /\ phase = "run" /\ phase' = "run" /\ tick' = tick /\ position' = p + 1
      /\ Record(ScriptSamples(order[p], written))
      /\ UNCHANGED <<order, divisor, inputs, overrides, initial, startupWritten>>
      /\ Due(order[p]) /\ written \subseteq Writes[order[p]]
      /\ env' = [x \in Channels |-> IF x \in written THEN Computed(order[p], tick)
                                    ELSE env[x]]
  BY DEF RunDue, NextDue, scenarioVars
<1>2. /\ position \in 1..(Len(order) + 1) /\ order \in Seq(Periodic)
      /\ Len(order) \in Nat
  BY <1>1 DEF Shape, ClockShape, PlanShape
<1>3. /\ p \in 1..Len(order) /\ p \in Nat /\ p >= position /\ position \in 1..p
      /\ order[p] \in Periodic /\ order[p] \in Functions
  <2>1. p \in Int /\ position <= p /\ p <= Len(order) /\ 1 <= position
    BY <1>2
  <2>2. p \in 1..Len(order)
    BY <1>2, <2>1
  <2>3. order[p] \in Periodic
    BY <1>2, <2>2
  <2>4. p \in Nat /\ position \in 1..p
    BY <1>2, <2>1, <2>2
  <2> QED BY <2>1, <2>2, <2>3, <2>4
<1>4. order[p] \in Nat /\ Writes[order[p]] \subseteq Channels
  BY <1>3
<1> QED BY <1>1, <1>3, <1>4

LEMMA RunDueKeepsShape ==
  ASSUME Shape, LoopInv, NEW p \in position..Len(order), NEW written, NEW defaulted,
         RunDue(p, written, defaulted)
  PROVE  Shape'
<1>1. /\ order[p] \in Periodic /\ order[p] \in Nat
      /\ position' = p + 1 /\ phase = "run" /\ phase' = "run" /\ tick' = tick
      /\ UNCHANGED <<order, divisor, inputs, overrides, initial, startupWritten>>
      /\ Record(ScriptSamples(order[p], written))
      /\ p \in 1..Len(order) /\ Len(order) \in Nat
      /\ written \subseteq Writes[order[p]]
      /\ env' = [x \in Channels |-> IF x \in written THEN Computed(order[p], tick)
                                    ELSE env[x]]
      /\ external' = external \cup defaulted
  <2>1. order \in Seq(Periodic) /\ position \in 1..(Len(order) + 1)
    BY DEF RunDue, Shape, ClockShape, PlanShape
  <2>2. p \in 1..Len(order) /\ Len(order) \in Nat /\ order[p] \in Periodic
    BY <2>1
  <2> QED BY <2>2 DEF RunDue, scenarioVars
<1>2. Writes[order[p]] \subseteq Channels /\ Reads[order[p]] \subseteq Channels
  BY <1>1
<1>3. defaulted \subseteq Channels
  BY <1>2 DEF RunDue, DefaultedReads
<1>4. tick \in Nat /\ tick \in {Before} \cup 0..Ticks /\ tick < Ticks
  BY <1>1 DEF Shape, ClockShape
<1>5. Computed(order[p], tick) \in Values
  BY <1>1, <1>4, ValuesMade
<1>6. PlanShape'
  BY <1>1 DEF Shape, PlanShape
<1>7. ClockShape'
  <2>1. Len(StartupOrder) \in Nat
    OBVIOUS
  <2> QED BY <1>1, <1>4, <2>1 DEF Shape, ClockShape
<1>8. StoreShape'
  BY <1>1, <1>2, <1>3, <1>5 DEF Shape, StoreShape
<1>9. ASSUME NEW c \in Channels PROVE SamplesOf(c)'
  <2>1. c \in DOMAIN ScriptSamples(order[p], written) =>
          /\ ScriptSamples(order[p], written)[c].value \in Values
          /\ ScriptSamples(order[p], written)[c].external \in BOOLEAN
    BY <1>5 DEF ScriptSamples
  <2>2. SamplesOf(c) /\ tick' \in {tick, tick + 1}
    BY <1>1 DEF Shape, SamplesShape
  <2> HIDE DEF ScriptSamples
  <2> QED BY <1>1, <1>4, <2>1, <2>2, RecordShape
<1> QED BY <1>6, <1>7, <1>8, <1>9 DEF Shape, SamplesShape

LEMMA RunDueKeeps ==
  ASSUME Shape, LoopInv, NEW p \in position..Len(order), NEW written, NEW defaulted,
         RunDue(p, written, defaulted)
  PROVE  LoopInv'
<1> SUFFICES ASSUME NEW c \in Channels
             PROVE  ColumnInv(c)' /\ StoreInv(c)' /\ OpenInv(c)'
  BY DEF LoopInv
<1> DEFINE f     == order[p]
           added == ScriptSamples(f, written)
<1>1. /\ f \in Periodic /\ f \in Nat /\ Due(f)
      /\ p \in Nat /\ p >= position /\ position \in 1..p
      /\ written \subseteq Writes[f] /\ written \subseteq Channels
      /\ c \in written => env'[c] = Computed(f, tick)
      /\ c \notin written => env'[c] = env[c]
      /\ phase = "run" /\ phase' = "run" /\ tick' = tick /\ position' = p + 1
      /\ Record(added)
      /\ UNCHANGED <<order, divisor, inputs, overrides, initial, startupWritten>>
  BY RunDueOf
<1>2. ColumnInv(c) /\ StoreInv(c) /\ OpenInv(c) /\ SamplesOf(c) /\ tick \in Nat
  BY <1>1 DEF LoopInv, Shape, SamplesShape, ClockShape
<1>3. Driven' = Driven
  BY <1>1 DEF Driven
<1>4. ASSUME NEW v, WrittenBefore(position, c, v) PROVE WrittenBefore(p + 1, c, v)'
  BY <1>1, <1>4 DEF WrittenBefore, Due
<1>5. CASE c \notin written
  <2>1. c \notin DOMAIN added
    BY <1>5 DEF ScriptSamples
  <2>2. samples'[c] = samples[c] /\ columns'[c] = columns[c]
    BY <1>1, <2>1, RecordSkips
  <2>3. /\ SampleTicks(c)' = SampleTicks(c) /\ RecordedNow(c)' = RecordedNow(c)
        /\ env'[c] = env[c]
    BY <1>1, <1>5, <2>2 DEF SampleTicks, RecordedNow
  <2>4. ColumnInv(c)'
    BY <1>1, <1>2, <2>2 DEF ColumnInv, Dense, SampleTicks
  <2>5. StoreInv(c)'
    BY <1>1, <1>2, <1>3, <2>2, <2>3 DEF StoreInv, Between
  <2>6. OpenInv(c)'
    BY <1>1, <1>2, <1>3, <1>4, <2>2, <2>3 DEF OpenInv
  <2> QED BY <2>4, <2>5, <2>6
<1>6. CASE c \in written
  <2>1. /\ c \in DOMAIN added /\ added[c].value = Computed(f, tick)
        /\ added[c].external = FALSE
    BY <1>6 DEF ScriptSamples
  <2>2. Computed(f, tick) \in Values
    BY <1>1, ValuesMade DEF Shape, ClockShape
  <2>3. PICK a \in 0..tick : Dense(c, a, tick)'
    BY <1>1, <1>2, <2>1, <2>2, RecordIsDense
  <2>4. /\ DOMAIN samples'[c] = DOMAIN samples[c] \cup {tick}
        /\ samples'[c][tick] = added[c]
        /\ \A i \in DOMAIN samples[c] : i # tick => samples'[c][i] = samples[c][i]
    BY <1>1, <2>1, RecordAdds
  <2>5. ColumnInv(c)'
    BY <1>1, <1>2, <2>3 DEF ColumnInv
  <2>6. /\ env'[c] = Computed(f, tick)
        /\ env'[c].kind = "computed" /\ env'[c].at = tick /\ env'[c].by = f
        /\ env'[c] # Unset
    BY <1>1, <1>6, MadeParts
  <2>7. RecordedNow(c)' /\ SampleTicks(c)' = SampleTicks(c) \cup {tick}
    BY <1>1, <2>4 DEF RecordedNow, SampleTicks
  <2>8. StoreInv(c)'
    BY <1>1, <1>2, <1>3, <2>6, <2>7 DEF StoreInv, Between
  <2>9. WrittenBefore(position, c, env[c])'
    <3>1. p \in 1..(p + 1 - 1) /\ p <= Len(order)
      BY <1>1
    <3> QED BY <3>1, <1>1, <1>6, <2>6 DEF WrittenBefore, Due
  <2>10. OpenInv(c)'
    BY <1>1, <2>1, <2>4, <2>6, <2>7, <2>9 DEF OpenInv, RecordedNow
  <2> QED BY <2>5, <2>8, <2>10
<1> QED BY <1>5, <1>6

Recorded(c) == ~RecordedNow(c) /\ (c \in Driven \/ c \in initial \/ Holdable(c))

(* The flag of what is recorded when the tick closes.                      *)
ClosingFlag(c) ==
  IF c \in Driven THEN TRUE
  ELSE IF c \in initial /\ tick = 0 THEN c \notin startupWritten
  ELSE IF c \in initial /\ tick - 1 \notin SampleTicks(c) THEN TRUE
  ELSE HeldFlag(c, external')

(* Closing a tick, for one channel.                                        *)
LEMMA CloseTickOf ==
  ASSUME tick \in Nat, CloseTick
  PROVE  \E added :
           /\ Record(added)
           /\ \A c \in Channels :
                /\ c \in DOMAIN added <=> Recorded(c)
                /\ c \in DOMAIN added =>
                     /\ added[c].value = env[c]
                     /\ added[c].external = ClosingFlag(c)
           /\ external \subseteq external'
           /\ external' \subseteq external \cup (Channels \cap (Driven \cup initial))
<1> DEFINE open       == {c \in Channels : ~RecordedNow(c)}
           driven     == open \cap (inputs \cup overrides)
           seeded     == (open \ driven) \cap initial
           startupOut == {c \in seeded : tick = 0 /\ c \in startupWritten}
           heldSeed   == {c \in seeded : tick > 0 /\ tick - 1 \in SampleTicks(c)}
           freshSeed  == seeded \ (startupOut \cup heldSeed)
           flagged    == external \cup driven \cup freshSeed
           held       == heldSeed \cup {c \in (open \ driven) \ seeded : Holdable(c)}
           added      == [c \in driven \cup freshSeed \cup startupOut \cup held |->
                            [value |-> env[c],
                             external |-> IF c \in driven \cup freshSeed THEN TRUE
                                          ELSE IF c \in startupOut THEN FALSE
                                          ELSE HeldFlag(c, flagged)]]
<1>1. Record(added) /\ external' = flagged
  BY DEF CloseTick
<1>2. ASSUME NEW c \in Channels
      PROVE  /\ c \in driven <=> ~RecordedNow(c) /\ c \in Driven
             /\ c \in seeded <=> ~RecordedNow(c) /\ c \notin Driven /\ c \in initial
             /\ c \in startupOut <=> c \in seeded /\ tick = 0 /\ c \in startupWritten
             /\ c \in freshSeed <=>
                  /\ c \in seeded
                  /\ tick = 0 => c \notin startupWritten
                  /\ tick > 0 => tick - 1 \notin SampleTicks(c)
  BY DEF Driven
<1>3. ASSUME NEW c \in Channels
      PROVE  /\ c \in DOMAIN added <=> Recorded(c)
             /\ c \in DOMAIN added =>
                  /\ added[c].value = env[c]
                  /\ added[c].external =
                       IF c \in driven \cup freshSeed THEN TRUE
                       ELSE IF c \in startupOut THEN FALSE
                       ELSE HeldFlag(c, flagged)
  <2>1. DOMAIN added = driven \cup freshSeed \cup startupOut \cup held
    OBVIOUS
  <2>2. c \in DOMAIN added <=> Recorded(c)
    BY <2>1, <1>2 DEF Recorded
  <2> QED BY <2>1, <2>2
<1>4. ASSUME NEW c \in Channels, c \in DOMAIN added
      PROVE  added[c].external = ClosingFlag(c)
  <2>1. ~RecordedNow(c)
    BY <1>3, <1>4 DEF Recorded
  <2>0. tick # 0 => tick > 0
    OBVIOUS
  <2> HIDE DEF flagged, added, driven, seeded, startupOut, freshSeed, held
  <2>2. CASE c \in Driven
    <3>1. c \in driven
      BY <2>1, <2>2, <1>2
    <3>2. added[c].external = TRUE
      BY <3>1, <1>3, <1>4
    <3> QED BY <3>2, <2>2 DEF ClosingFlag
  <2>3. CASE c \in initial \ Driven /\ tick = 0
    <3>1. /\ c \notin driven
          /\ c \in startupWritten => c \in startupOut /\ c \notin freshSeed
          /\ c \notin startupWritten => c \in freshSeed
      BY <2>1, <2>3, <1>2
    <3>2. added[c].external = (c \notin startupWritten)
      <4>1. CASE c \in startupWritten
        <5>1. added[c].external = FALSE
          BY <4>1, <3>1, <1>3, <1>4
        <5> QED BY <4>1, <5>1
      <4>2. CASE c \notin startupWritten
        <5>1. added[c].external = TRUE
          BY <4>2, <3>1, <1>3, <1>4
        <5> QED BY <4>2, <5>1
      <4> QED BY <4>1, <4>2
    <3>3. ClosingFlag(c) = (c \notin startupWritten)
      BY <2>3 DEF ClosingFlag
    <3> QED BY <3>2, <3>3
  <2>4. CASE c \in initial \ Driven /\ tick # 0 /\ tick - 1 \notin SampleTicks(c)
    BY <2>0, <2>1, <2>4, <1>2, <1>3, <1>4 DEF ClosingFlag
  <2>5. CASE c \in initial \ Driven /\ tick # 0 /\ tick - 1 \in SampleTicks(c)
    BY <2>0, <2>1, <2>5, <1>1, <1>2, <1>3, <1>4 DEF ClosingFlag
  <2>6. CASE c \notin initial \cup Driven
    BY <2>0, <2>1, <2>6, <1>1, <1>2, <1>3, <1>4 DEF ClosingFlag
  <2> QED BY <2>2, <2>3, <2>4, <2>5, <2>6
<1>5. /\ external \subseteq external'
      /\ external' \subseteq external \cup (Channels \cap (Driven \cup initial))
  BY <1>1, <1>2
<1> HIDE DEF added
<1> QED BY <1>1, <1>3, <1>4, <1>5

(* The flag a value is held with is that of the tick before.               *)
LEMMA HeldFlagOf ==
  ASSUME NEW c \in Channels, ColumnInv(c), tick \in Nat, ~RecordedNow(c), NEW flags
  PROVE  /\ SampleTicks(c) = {} => HeldFlag(c, flags) = (c \in flags)
         /\ SampleTicks(c) # {} =>
              /\ tick - 1 \in SampleTicks(c)
              /\ HeldFlag(c, flags) = samples[c][tick - 1].external
<1>1. CASE SampleTicks(c) = {}
  BY <1>1 DEF HeldFlag
<1>2. CASE SampleTicks(c) # {}
  <2> DEFINE earlier == SampleTicks(c) \cap 0..(tick - 1)
             latest  == CHOOSE i \in earlier : \A j \in earlier : j <= i
  <2>1. tick - 1 \in SampleTicks(c) /\ tick - 1 \in 0..tick
    BY <1>2, DenseSamples
  <2>2. tick - 1 \in earlier /\ \A j \in earlier : j <= tick - 1 /\ j \in Int
    BY <2>1
  <2>3. latest \in earlier /\ \A j \in earlier : j <= latest
    BY <2>2
  <2>4. latest = tick - 1
    BY <2>2, <2>3
  <2>5. HeldFlag(c, flags) = samples[c][latest].external
    BY <2>2 DEF HeldFlag
  <2> QED BY <1>2, <2>1, <2>4, <2>5
<1> QED BY <1>1, <1>2

(* What was ever recorded is recorded again on every later tick.           *)
LEMMA RecordedStays ==
  ASSUME NEW c \in Channels, ColumnInv(c), StoreInv(c), tick \in Nat,
         SampleTicks(c) # {}
  PROVE  RecordedNow(c) \/ Recorded(c)
<1>1. columns[c] # <<>>
  BY DenseSamples
<1>2. env[c] # Unset
  BY DEF StoreInv
<1> QED BY <1>1, <1>2 DEF Recorded, Holdable

LEMMA CloseTickKeeps ==
  ASSUME Shape, LoopInv, CloseTick
  PROVE  Shape' /\ LoopInv'
<1>1. /\ phase = "run" /\ phase' = "seed" /\ tick' = tick + 1 /\ tick < Ticks
      /\ tick \in Nat /\ Ticks \in Nat
      /\ UNCHANGED <<order, divisor, inputs, overrides, initial, env,
                     startupWritten, position>>
  BY DEF CloseTick, scenarioVars, Shape, ClockShape
<1>2. PICK added :
        /\ Record(added)
        /\ \A c \in Channels :
             /\ c \in DOMAIN added <=> Recorded(c)
             /\ c \in DOMAIN added =>
                  added[c].value = env[c] /\ added[c].external = ClosingFlag(c)
        /\ external' \subseteq external \cup (Channels \cap (Driven \cup initial))
  BY <1>1, CloseTickOf
<1>0. PICK t \in Nat : t = tick
  BY <1>1
<1>3. PlanShape'
  BY <1>1 DEF Shape, PlanShape
<1>4. ClockShape'
  <2>1. Len(StartupOrder) \in Nat
    OBVIOUS
  <2> QED BY <1>1, <2>1 DEF Shape, ClockShape, Phases
<1>5. StoreShape'
  BY <1>1, <1>2 DEF Shape, StoreShape
<1>6. ASSUME NEW c \in Channels PROVE SamplesOf(c)'
  <2>1. SamplesOf(c) /\ env[c] \in Values
    BY DEF Shape, SamplesShape, StoreShape
  <2>2. c \in DOMAIN added => HeldFlag(c, external') \in BOOLEAN
    <3>1. ColumnInv(c)
      BY <1>1 DEF LoopInv
    <3>2. c \in DOMAIN added => ~RecordedNow(c)
      BY <1>2 DEF Recorded
    <3>3. /\ (c \in external') \in BOOLEAN
          /\ \A i \in SampleTicks(c) : samples[c][i].external \in BOOLEAN
      BY <2>1 DEF SamplesOf
    <3>4. c \in DOMAIN added =>
            \/ HeldFlag(c, external') = (c \in external')
            \/ /\ tick - 1 \in SampleTicks(c)
               /\ HeldFlag(c, external') = samples[c][tick - 1].external
      BY <1>1, <3>1, <3>2, HeldFlagOf
    <3> QED BY <3>3, <3>4
  <2>3. c \in DOMAIN added => ClosingFlag(c) \in BOOLEAN
    BY <2>2 DEF ClosingFlag
  <2> QED BY <1>1, <1>2, <2>1, <2>3, RecordShape
<1>7. ASSUME NEW c \in Channels PROVE ColumnInv(c)' /\ StoreInv(c)' /\ OpenInv(c)'
  <2>1. /\ ColumnInv(c) /\ StoreInv(c) /\ OpenInv(c) /\ SamplesOf(c)
        /\ env[c] \in Values
    BY <1>1 DEF LoopInv, Shape, SamplesShape, StoreShape
  <2>2. env[c].at \in Int /\ env[c].at <= tick
    BY <1>1, <2>1, ValueParts DEF OpenInv
  <2>3. Driven' = Driven
    BY <1>1 DEF Driven
  <2>4. CASE ~RecordedNow(c) /\ ~Recorded(c)
    <3>1. SampleTicks(c) = {} /\ c \notin DOMAIN added
      BY <1>1, <1>2, <2>1, <2>4, RecordedStays
    <3>2. samples'[c] = samples[c] /\ columns'[c] = columns[c]
      BY <1>2, <3>1, RecordSkips
    <3>3. SampleTicks(c)' = {} /\ columns'[c] = <<>>
      BY <1>1, <2>1, <3>1, <3>2 DEF SampleTicks, ColumnInv, Dense
    <3>4. c \notin Driven \cup initial
      BY <2>4 DEF Recorded
    <3>5. StoreInv(c)'
      BY <1>1, <2>1, <2>2, <2>3, <3>1, <3>3, <3>4 DEF StoreInv, RecordedNow
    <3> QED BY <1>1, <3>3, <3>5 DEF ColumnInv, OpenInv
  <2>5. CASE RecordedNow(c) \/ Recorded(c)
    <3>1. /\ \E a \in 0..tick : Dense(c, a, t)'
          /\ tick \in DOMAIN samples'[c] /\ samples'[c][tick].value = env[c]
          /\ DOMAIN samples'[c] \subseteq 0..tick
      <4>1. CASE c \in DOMAIN added
        <5>1. /\ added[c].value = env[c] /\ added[c].value \in Values
          BY <4>1, <1>2, <2>1
        <5>2. \E a \in 0..tick : Dense(c, a, t)'
          BY <1>0, <1>1, <1>2, <2>1, <4>1, <5>1, RecordIsDense
        <5>3. /\ DOMAIN samples'[c] = DOMAIN samples[c] \cup {tick}
              /\ samples'[c][tick] = added[c]
          BY <1>2, <4>1, RecordAdds
        <5> QED BY <1>1, <2>1, <5>1, <5>2, <5>3 DEF SamplesOf, SampleTicks
      <4>2. CASE c \notin DOMAIN added
        <5>1. samples'[c] = samples[c] /\ columns'[c] = columns[c]
          BY <1>2, <4>2, RecordSkips
        <5>2. RecordedNow(c)
          BY <1>2, <2>5, <4>2
        <5>3. tick \in DOMAIN samples[c] /\ samples[c][tick].value = env[c]
          BY <1>1, <2>1, <5>2 DEF OpenInv, RecordedNow, SampleTicks
        <5>4. PICK a \in 0..tick, b \in {tick - 1, tick} : Dense(c, a, b)
          BY <2>1, <5>2 DEF ColumnInv, RecordedNow
        <5>5. b = tick
          BY <1>1, <5>3, <5>4 DEF Dense, SampleTicks
        <5>6. Dense(c, a, t)'
          BY <1>0, <5>1, <5>4, <5>5 DEF Dense, SampleTicks
        <5> QED BY <1>1, <2>1, <5>1, <5>3, <5>6 DEF SamplesOf, SampleTicks
      <4> QED BY <4>1, <4>2
    <3>2. ColumnInv(c)'
      <4>1. PICK a \in 0..tick : Dense(c, a, t)'
        BY <3>1
      <4>2. a \in 0..tick' /\ t = tick' - 1 /\ t # tick'
        BY <1>0, <1>1
      <4> QED BY <4>1, <4>2 DEF ColumnInv
    <3>3. ~RecordedNow(c)' /\ tick' - 1 = tick /\ tick' > 0
      BY <1>1, <3>1 DEF RecordedNow, SampleTicks
    <3>4. env[c] # Unset
      <4>1. CASE RecordedNow(c)
        BY <1>1, <2>1, <4>1, MadeParts DEF OpenInv
      <4>2. CASE Recorded(c)
        BY <1>1, <2>1, <4>2 DEF Recorded, Holdable, StoreInv
      <4> QED BY <2>5, <4>1, <4>2
    <3>5. StoreInv(c)'
      BY <1>1, <2>1, <2>2, <2>3, <3>1, <3>3, <3>4
         DEF StoreInv, Between, SampleTicks
    <3> QED BY <1>1, <3>2, <3>5 DEF OpenInv
  <2> QED BY <2>4, <2>5
<1> QED BY <1>3, <1>4, <1>5, <1>6, <1>7 DEF Shape, SamplesShape, LoopInv

LEMMA ScriptFailsKeeps ==
  ASSUME Shape, LoopInv, ScriptFails
  PROVE  Shape' /\ LoopInv'
<1>1. /\ phase' = "aborted"
      /\ env' = [c \in Channels |-> Unset]
      /\ samples' = [c \in Channels |-> <<>>] /\ columns' = [c \in Channels |-> <<>>]
      /\ external' = {} /\ startupWritten' = {}
      /\ UNCHANGED <<order, divisor, inputs, overrides, initial, tick, position>>
  BY DEF ScriptFails, scenarioVars
<1>2. PlanShape' /\ ClockShape'
  BY <1>1 DEF Shape, PlanShape, ClockShape, Phases
<1>3. StoreShape'
  BY <1>1, ValuesMade DEF StoreShape, Before
<1>4. ASSUME NEW c \in Channels PROVE SamplesOf(c)'
  BY <1>1 DEF SamplesOf, SampleTicks
<1> QED BY <1>1, <1>2, <1>3, <1>4 DEF Shape, SamplesShape, LoopInv

LEMMA EndRunKeeps ==
  ASSUME Shape, LoopInv, EndRun
  PROVE  Shape' /\ LoopInv'
<1>1. /\ phase = "seed" /\ phase' = "ended"
      /\ UNCHANGED <<order, divisor, inputs, overrides, initial, env, samples,
                     columns, external, startupWritten, tick, position>>
  BY DEF EndRun, scenarioVars, traceVars
<1>2. PlanShape' /\ ClockShape' /\ StoreShape' /\ SamplesShape'
  BY <1>1 DEF Shape, PlanShape, ClockShape, Phases, StoreShape, SamplesShape,
              SamplesOf, SampleTicks
<1>3. ASSUME NEW c \in Channels PROVE ColumnInv(c)' /\ StoreInv(c)' /\ OpenInv(c)'
  <2>1. ColumnInv(c) /\ StoreInv(c)
    BY <1>1 DEF LoopInv
  <2>2. Driven' = Driven /\ SampleTicks(c)' = SampleTicks(c)
        /\ RecordedNow(c)' = RecordedNow(c)
    BY <1>1 DEF Driven, SampleTicks, RecordedNow
  <2>3. ColumnInv(c)'
    BY <1>1, <2>1 DEF ColumnInv, Dense, SampleTicks
  <2>4. StoreInv(c)'
    BY <1>1, <2>1, <2>2 DEF StoreInv, Between
  <2> QED BY <1>1, <2>3, <2>4 DEF OpenInv
<1> QED BY <1>2, <1>3 DEF Shape, LoopInv

LEMMA StutterKeeps ==
  ASSUME Shape, LoopInv, UNCHANGED vars
  PROVE  Shape' /\ LoopInv'
<1>1. UNCHANGED <<order, divisor, inputs, overrides, initial, env, samples, columns,
                  external, startupWritten, tick, phase, position>>
  BY DEF vars
<1>2. Shape'
  BY <1>1 DEF Shape, PlanShape, ClockShape, StoreShape, SamplesShape, SamplesOf,
              SampleTicks
<1>3. ASSUME phase # "aborted", NEW c \in Channels
      PROVE  ColumnInv(c)' /\ StoreInv(c)' /\ OpenInv(c)'
  <2>1. ColumnInv(c) /\ StoreInv(c) /\ OpenInv(c)
    BY <1>3 DEF LoopInv
  <2>2. Driven' = Driven /\ SampleTicks(c)' = SampleTicks(c)
        /\ RecordedNow(c)' = RecordedNow(c)
        /\ WrittenBefore(position, c, env[c])' = WrittenBefore(position, c, env[c])
    BY <1>1 DEF Driven, SampleTicks, RecordedNow, WrittenBefore, Due
  <2>3. ColumnInv(c)'
    BY <1>1, <2>1 DEF ColumnInv, Dense, SampleTicks
  <2>4. StoreInv(c)'
    BY <1>1, <2>1, <2>2 DEF StoreInv, Between
  <2>5. OpenInv(c)'
    BY <1>1, <2>1, <2>2 DEF OpenInv
  <2> QED BY <2>3, <2>4, <2>5
<1> QED BY <1>1, <1>2, <1>3 DEF LoopInv

(* The steps of the run, as the proofs below tell them apart.              *)
LEMMA NextSteps ==
  ASSUME [Next]_vars
  PROVE  \/ \E w, d : RunStartup(w, d)
         \/ OpenTick
         \/ \E p \in position..Len(order) : \E w, d : RunDue(p, w, d)
         \/ ScriptFails \/ CloseTick \/ EndRun
         \/ UNCHANGED vars
  BY DEF Next

LEMMA LoopInductive ==
  ASSUME Shape, LoopInv, [Next]_vars
  PROVE  Shape' /\ LoopInv'
<1>1. CASE \E w, d : RunStartup(w, d)
  BY <1>1, RunStartupKeeps
<1>2. CASE \E p \in position..Len(order) : \E w, d : RunDue(p, w, d)
  BY <1>2, RunDueKeepsShape, RunDueKeeps
<1> QED BY <1>1, <1>2, NextSteps, OpenTickKeeps, ScriptFailsKeeps, CloseTickKeeps,
           EndRunKeeps, StutterKeeps

THEOREM LoopInvariant == Spec => [](Shape /\ LoopInv)
<1>1. Init => Shape /\ LoopInv
  BY InitInv
<1>2. (Shape /\ LoopInv) /\ [Next]_vars => (Shape /\ LoopInv)'
  BY LoopInductive
<1> QED BY <1>1, <1>2, PTL DEF Spec

(* Between ticks every column is dense from its first sample on and ends   *)
(* with the value in the store (hold_unwritten_channels and                *)
(* hold_trace_channels in src/runner.rs).                                  *)
THEOREM ColumnsHeldForEver == Spec => []ColumnsAreHeld
<1>1. Shape /\ LoopInv => ColumnsAreHeld
  <2> SUFFICES ASSUME Shape, LoopInv, phase \in {"seed", "ended"},
                      NEW c \in Channels, SampleTicks(c) # {}
               PROVE  LET first == CHOOSE i \in SampleTicks(c) :
                                     \A j \in SampleTicks(c) : i <= j
                      IN  /\ SampleTicks(c) = first..(tick - 1)
                          /\ samples[c][tick - 1].value = env[c]
                          /\ Len(columns[c]) = tick - first
                          /\ \A i \in SampleTicks(c) :
                               columns[c][i - first + 1] = samples[c][i].value
    BY DEF ColumnsAreHeld
  <2> DEFINE first == CHOOSE i \in SampleTicks(c) : \A j \in SampleTicks(c) : i <= j
  <2>1. ColumnInv(c) /\ StoreInv(c) /\ tick \in Nat
    BY DEF LoopInv, Shape, ClockShape
  <2>2. PICK a \in 0..tick : Dense(c, a, tick - 1)
    BY <2>1 DEF ColumnInv
  <2>3. /\ a <= tick - 1 /\ a \in Nat
        /\ SampleTicks(c) = a..(tick - 1)
        /\ Len(columns[c]) = tick - a
        /\ \A i \in a..(tick - 1) : columns[c][i - a + 1] = samples[c][i].value
    BY <2>1, <2>2 DEF Dense
  <2>4. a \in SampleTicks(c) /\ \A j \in SampleTicks(c) : a <= j /\ j \in Int
    BY <2>1, <2>3
  <2>5. first \in SampleTicks(c) /\ \A j \in SampleTicks(c) : first <= j
    BY <2>4
  <2> HIDE DEF first
  <2>6. first = a
    <3>1. first <= a /\ a <= first /\ first \in Int /\ a \in Int
      BY <2>3, <2>4, <2>5
    <3> QED BY <3>1
  <2>7. ~RecordedNow(c) /\ tick - 1 \in SampleTicks(c)
    BY <2>1, <2>3 DEF RecordedNow
  <2>8. samples[c][tick - 1].value = env[c]
    BY <2>1, <2>7 DEF StoreInv, Between
  <2>9. /\ SampleTicks(c) = first..(tick - 1)
        /\ samples[c][tick - 1].value = env[c]
        /\ Len(columns[c]) = tick - first
        /\ \A i \in SampleTicks(c) : columns[c][i - first + 1] = samples[c][i].value
    BY <2>3, <2>6, <2>8
  <2> QED BY <2>9, Zenon DEF first
<1> QED BY <1>1, LoopInvariant, PTL

-----------------------------------------------------------------------------
(* Inputs of the current tick come from earlier in the plan.               *)

(* What CurrentInputsFollowThePlan says of one input of a run of g at t.   *)
FollowsPlan(in, g, t) ==
  /\ in.seen.kind = "computed" /\ in.seen.at = t => in.seen = Computed(in.writer, t)
  /\ in.seen = Computed(in.writer, t) <=>
       /\ in.writerDue
       /\ PositionOf(in.writer) < PositionOf(g)
       /\ AssignedOn(in.channel, Computed(in.writer, t))

(* The latest execution was on this tick or an earlier one.                *)
PlanInv ==
  /\ execution.at \in Int /\ execution.at <= tick
  /\ \A in \in execution.inputs : in.channel \in Channels
  /\ CurrentInputsFollowThePlan

LEMMA PositionIs ==
  ASSUME PlanShape, NEW q \in DOMAIN order
  PROVE  PositionOf(order[q]) = q
<1>1. \A i \in DOMAIN order : order[i] = order[q] => i = q
  BY DEF PlanShape
<1>2. PositionOf(order[q]) \in DOMAIN order /\ order[PositionOf(order[q])] = order[q]
  BY DEF PositionOf
<1> QED BY <1>1, <1>2

LEMMA InputFollowsPlan ==
  ASSUME Shape, LoopInv, NEW p \in position..Len(order), NEW w, NEW d_,
         RunDue(p, w, d_), NEW d \in Dependencies(order[p])
  PROVE  /\ InputRecord(d).channel \in Channels
         /\ InputRecord(d).seen.kind = "computed" /\ InputRecord(d).seen.at = tick
              => InputRecord(d).seen = Computed(InputRecord(d).writer, tick)
         /\ InputRecord(d).seen = Computed(InputRecord(d).writer, tick) <=>
              /\ InputRecord(d).writerDue
              /\ PositionOf(InputRecord(d).writer) < PositionOf(order[p])
              /\ tick \in DOMAIN samples'[InputRecord(d).channel]
              /\ samples'[InputRecord(d).channel][tick].value
                   = Computed(InputRecord(d).writer, tick)
<1> DEFINE in == InputRecord(d)
           c  == d[2]
           v  == Computed(d[1], tick)
<1>1. /\ d[1] \in Periodic /\ c \in Channels /\ d[1] # order[p]
      /\ c \in Writes[d[1]]
      /\ in.writer = d[1] /\ in.channel = c /\ in.seen = env[c] /\ in.writerDue = Due(d[1])
  BY DEF Dependencies, InputRecord
<1>2. /\ phase = "run" /\ OpenInv(c) /\ p \in Nat /\ position \in 1..p
      /\ order[p] \in Periodic /\ w \subseteq Writes[order[p]]
      /\ Record(ScriptSamples(order[p], w))
  BY <1>1, RunDueOf DEF LoopInv
<1>3. \A f, g \in Periodic : f # g => Writes[f] \cap Writes[g] = {}
  OBVIOUS
<1>4. order \in Seq(Periodic) /\ Len(order) \in Nat /\ PlanShape
  BY DEF Shape, PlanShape
<1>5. env[c] \in Values /\ v.kind = "computed" /\ v.at = tick /\ v.by = d[1]
  BY <1>1 DEF Shape, StoreShape, Computed
<1>6. samples'[c] = samples[c]
  <2>1. c \notin w
    <3>1. Writes[order[p]] \cap Writes[d[1]] = {}
      BY <1>1, <1>2, <1>3
    <3> HIDE DEF c
    <3> QED BY <1>1, <1>2, <3>1
  <2>2. c \notin DOMAIN ScriptSamples(order[p], w)
    BY <2>1 DEF ScriptSamples
  <2> QED BY <1>1, <1>2, <2>2, RecordSkips
<1> HIDE DEF c, in, v
<1>7. ASSUME env[c].kind = "computed", env[c].at = tick
      PROVE  /\ env[c] = v
             /\ Due(d[1]) /\ PositionOf(d[1]) < PositionOf(order[p])
             /\ tick \in DOMAIN samples[c] /\ samples[c][tick].value = v
  <2>1. RecordedNow(c)
    BY <1>2, <1>7 DEF OpenInv, Shape, ClockShape
  <2>2. PICK q \in 1..(position - 1) :
          /\ q <= Len(order) /\ order[q] = env[c].by
          /\ Due(order[q]) /\ c \in Writes[order[q]]
    BY <1>2, <2>1 DEF OpenInv, WrittenBefore
  <2>3. q \in DOMAIN order /\ p \in DOMAIN order /\ q < p
    BY <1>2, <1>4, <2>2
  <2>4. order[q] \in Periodic
    BY <1>4, <2>3
  <2>5. order[q] = d[1]
    <3>1. order[q] # d[1] => Writes[order[q]] \cap Writes[d[1]] = {}
      BY <1>1, <1>3, <2>4
    <3> QED BY <1>1, <2>2, <3>1
  <2>6. PositionOf(order[q]) = q /\ PositionOf(order[p]) = p
    BY <1>4, <2>3, PositionIs
  <2>7. env[c] = v
    BY <1>5, <1>7, <2>2, <2>5 DEF Values, Computed, v
  <2>8. samples[c][tick].value = env[c] /\ tick \in DOMAIN samples[c]
    BY <1>2, <2>1 DEF OpenInv, RecordedNow, SampleTicks
  <2> QED BY <2>2, <2>3, <2>5, <2>6, <2>7, <2>8
<1>8. ASSUME tick \in DOMAIN samples[c], samples[c][tick].value = v
      PROVE  env[c] = v
  BY <1>2, <1>8 DEF OpenInv, RecordedNow, SampleTicks
<1>9. env[c] = v <=> /\ Due(d[1])
                     /\ PositionOf(d[1]) < PositionOf(order[p])
                     /\ tick \in DOMAIN samples[c]
                     /\ samples[c][tick].value = v
  BY <1>5, <1>7, <1>8
<1>10. v = Computed(in.writer, tick)
  BY <1>1 DEF v
<1>11. /\ in.channel \in Channels
       /\ in.seen.kind = "computed" /\ in.seen.at = tick => in.seen = v
       /\ in.seen = v <=> /\ in.writerDue
                           /\ PositionOf(in.writer) < PositionOf(order[p])
                           /\ tick \in DOMAIN samples'[in.channel]
                           /\ samples'[in.channel][tick].value = v
  BY <1>1, <1>6, <1>7, <1>9
<1> QED BY <1>10, <1>11 DEF in

(* Closing a tick adds nothing that a script computed on it.               *)
LEMMA ClosingAssignsNothing ==
  ASSUME Shape, LoopInv, CloseTick, NEW c \in Channels, NEW v,
         v.kind = "computed", v.at \in Int, v.at <= tick
  PROVE  AssignedOn(c, v)' <=> AssignedOn(c, v)
<1>1. /\ ColumnInv(c) /\ StoreInv(c) /\ OpenInv(c) /\ tick \in Nat /\ phase = "run"
  BY DEF LoopInv, Shape, ClockShape, CloseTick
<1>2. PICK added :
        /\ Record(added)
        /\ \A x \in Channels :
             /\ x \in DOMAIN added <=> Recorded(x)
             /\ x \in DOMAIN added => added[x].value = env[x]
  BY <1>1, CloseTickOf
<1>3. CASE ~Recorded(c)
  <2>0. c \notin DOMAIN added
    BY <1>2, <1>3
  <2>1. samples'[c] = samples[c]
    BY <1>2, <2>0, RecordSkips
  <2> QED BY <2>1 DEF AssignedOn, SampleTicks
<1>4. CASE Recorded(c)
  <2>0. c \in DOMAIN added /\ added[c].value = env[c]
    BY <1>2, <1>4
  <2>1. /\ DOMAIN samples'[c] = DOMAIN samples[c] \cup {tick}
        /\ samples'[c][tick].value = env[c]
        /\ \A i \in DOMAIN samples[c] : i # tick => samples'[c][i] = samples[c][i]
    BY <1>2, <2>0, RecordAdds
  <2>2. tick \notin DOMAIN samples[c]
    BY <1>4 DEF Recorded, RecordedNow, SampleTicks
  <2>3. ~(env[c].kind = "computed" /\ env[c].at = tick)
    BY <1>1, <2>2 DEF OpenInv, Shape, StoreShape, RecordedNow, SampleTicks
  <2> QED BY <2>1, <2>2, <2>3 DEF AssignedOn, SampleTicks
<1> QED BY <1>3, <1>4

LEMMA PlanFollowed ==
  ASSUME Shape, LoopInv, PlanInv, [Next]_vars
  PROVE  PlanInv'
<1>1. ASSUME UNCHANGED <<order, execution>>, tick' \in {tick, tick + 1},
             CloseTick \/ samples' = samples
      PROVE  PlanInv'
  <2>1. tick \in Nat
    BY DEF Shape, ClockShape
  <2>2. PICK t : t = execution.at
    OBVIOUS
  <2>3. ASSUME NEW in \in execution.inputs
        PROVE  FollowsPlan(in, execution.function, t)'
    <3>1. FollowsPlan(in, execution.function, t)
      BY <2>2 DEF PlanInv, CurrentInputsFollowThePlan, FollowsPlan
    <3> DEFINE v == Computed(in.writer, t)
    <3>2. v.kind = "computed" /\ v.at \in Int /\ v.at <= tick /\ in.channel \in Channels
      BY <2>2 DEF Computed, PlanInv
    <3>3. AssignedOn(in.channel, v)' <=> AssignedOn(in.channel, v)
      <4> HIDE DEF v
      <4>1. CASE CloseTick
        BY <3>2, <4>1, ClosingAssignsNothing
      <4>2. CASE samples' = samples
        BY <4>2 DEF AssignedOn, SampleTicks
      <4> QED BY <1>1, <4>1, <4>2
    <3>4. \A g : PositionOf(g)' = PositionOf(g)
      BY <1>1 DEF PositionOf
    <3> QED BY <1>1, <3>1, <3>3, <3>4 DEF FollowsPlan
  <2>4. CurrentInputsFollowThePlan'
    BY <1>1, <2>2, <2>3 DEF FollowsPlan, CurrentInputsFollowThePlan
  <2> QED BY <1>1, <2>1, <2>4 DEF PlanInv
<1>2. CASE ScriptFails
  <2>1. tick' = tick /\ tick \in Nat /\ execution' = NoExecution
    BY <1>2 DEF ScriptFails, Shape, ClockShape
  <2> QED BY <2>1 DEF PlanInv, CurrentInputsFollowThePlan, NoExecution, Before
<1>3. CASE \E p \in position..Len(order) : \E w, d : RunDue(p, w, d)
  <2>1. PICK p \in position..Len(order) : \E w, d : RunDue(p, w, d)
    BY <1>3
  <2>2. PICK w, d_ : RunDue(p, w, d_)
    BY <2>1
  <2>3. /\ execution' = [function |-> order[p], at |-> tick,
                         inputs |-> {InputRecord(d) : d \in Dependencies(order[p])}]
        /\ order' = order /\ tick' = tick /\ tick \in Nat
    BY <2>2 DEF RunDue, scenarioVars, Shape, ClockShape
  <2>4. ASSUME NEW g PROVE PositionOf(g)' = PositionOf(g)
    BY <2>3 DEF PositionOf
  <2>5. PICK t : t = tick
    OBVIOUS
  <2>6. ASSUME NEW in \in execution'.inputs
        PROVE  in.channel \in Channels /\ FollowsPlan(in, execution.function, t)'
    <3>1. PICK d \in Dependencies(order[p]) : in = InputRecord(d)
      BY <2>3
    <3>2. Computed(in.writer, t).at = t
      BY DEF Computed
    <3>3. execution'.function = order[p] /\ PositionOf(execution.function)' = PositionOf(order[p])
      BY <2>3, <2>4 DEF PositionOf
    <3> QED BY <2>2, <2>4, <2>5, <3>1, <3>2, <3>3, InputFollowsPlan
            DEF FollowsPlan, AssignedOn, SampleTicks
  <2>7. execution'.at = t
    BY <2>3, <2>5
  <2>8. CurrentInputsFollowThePlan'
    BY <2>6, <2>7 DEF FollowsPlan, CurrentInputsFollowThePlan
  <2> QED BY <2>3, <2>6, <2>8 DEF PlanInv
<1>4. \/ /\ UNCHANGED <<order, execution>> /\ tick' \in {tick, tick + 1}
         /\ CloseTick \/ samples' = samples
      \/ ScriptFails
      \/ \E p \in position..Len(order) : \E w, d : RunDue(p, w, d)
  BY NextSteps DEF RunStartup, OpenTick, CloseTick, EndRun, vars, scenarioVars, traceVars
<1> QED BY <1>1, <1>2, <1>3, <1>4

(* A function is given what the owner of an input computed on this tick    *)
(* exactly when the owner is due, earlier in the plan and assigned it      *)
(* (tick_loop and schedule_input_provenance in src/runner.rs).             *)
THEOREM PlanFollowedForEver == Spec => []CurrentInputsFollowThePlan
<1>1. Init => PlanInv
  BY DEF Init, NoExecution, Before, PlanInv, CurrentInputsFollowThePlan
<1>2. Shape /\ LoopInv /\ PlanInv /\ [Next]_vars => PlanInv'
  BY PlanFollowed
<1>3. PlanInv => CurrentInputsFollowThePlan
  BY DEF PlanInv
<1> QED BY <1>1, <1>2, <1>3, LoopInvariant, PTL DEF Spec

-----------------------------------------------------------------------------
(* The provenance of samples and inputs.                                   *)

(* No default is ever substituted in a startup script, whose trace keeps   *)
(* the flag and drops the sample of a computed value.                      *)
StartupIsSeeded == ~AllowDefaults \/ StartupOrder = <<>>

(* A channel flagged for a default a script substituted has no value yet,  *)
(* or one that was recorded when it was computed.                          *)
DefaultInv(c) ==
  c \in external \ (Driven \cup initial) =>
    AllowDefaults /\ (env[c] # Unset => SampleTicks(c) # {})

FlagInv ==
  /\ phase # "aborted" => \A c \in Channels : DefaultInv(c)
  /\ SampleFlagsAreTrue

LEMMA ClosingFlagIsTrue ==
  ASSUME Shape, LoopInv, FlagInv, phase = "run", NEW c \in Channels, Recorded(c),
         external \subseteq external',
         external' \subseteq external \cup (Channels \cap (Driven \cup initial))
  PROVE  ExternalTruthfully(ClosingFlag(c), env[c])
<1>1. /\ ColumnInv(c) /\ StoreInv(c) /\ OpenInv(c) /\ DefaultInv(c)
      /\ tick \in Nat /\ ~RecordedNow(c)
  BY DEF LoopInv, FlagInv, Shape, ClockShape, Recorded
<1>2. CASE c \in Driven
  BY <1>1, <1>2 DEF ClosingFlag, ExternalTruthfully, FromOutside, OpenInv
<1>3. CASE c \in initial \ Driven /\ tick = 0
  BY <1>1, <1>3 DEF ClosingFlag, ExternalTruthfully, FromOutside, StoreInv
<1>4. CASE SampleTicks(c) # {} /\ c \notin Driven /\ (c \in initial => tick # 0)
  <2>1. /\ tick - 1 \in SampleTicks(c)
        /\ HeldFlag(c, external') = samples[c][tick - 1].external
    BY <1>1, <1>4, HeldFlagOf
  <2>2. ClosingFlag(c) = samples[c][tick - 1].external
    BY <1>4, <2>1 DEF ClosingFlag
  <2>3. samples[c][tick - 1].value = env[c]
    BY <1>1, <1>4, <2>1 DEF StoreInv
  <2>4. ExternalTruthfully(samples[c][tick - 1].external, samples[c][tick - 1].value)
    BY <2>1 DEF FlagInv, SampleFlagsAreTrue
  <2> QED BY <2>2, <2>3, <2>4
<1>5. CASE SampleTicks(c) = {} /\ c \notin Driven \cup initial
  <2>1. env[c] # Unset
    BY <1>5 DEF Recorded, Holdable
  <2>2. env[c].kind = "computed"
    BY <1>1, <1>5, <2>1 DEF StoreInv
  <2>3. c \notin external'
    BY <1>1, <1>5, <2>1 DEF DefaultInv
  <2>4. HeldFlag(c, external') = (c \in external')
    BY <1>1, <1>5, HeldFlagOf
  <2>5. ClosingFlag(c) = FALSE
    <3>1. HeldFlag(c, external') = FALSE
      <4>1. (c \in external') = FALSE
        BY <2>3
      <4> QED BY <2>4, <4>1, Zenon
    <3>2. ClosingFlag(c) = HeldFlag(c, external')
      BY <1>5 DEF ClosingFlag
    <3> QED BY <3>1, <3>2
  <2> QED BY <2>2, <2>5 DEF ExternalTruthfully, FromOutside
<1>6. c \in initial /\ tick # 0 => SampleTicks(c) # {}
  BY <1>1 DEF StoreInv
<1> QED BY <1>2, <1>3, <1>4, <1>5, <1>6

LEMMA FlagsInductive ==
  ASSUME StartupIsSeeded, Shape, LoopInv, FlagInv, [Next]_vars
  PROVE  FlagInv'
<1>1. CASE \E w, d : RunStartup(w, d)
  <2>1. PICK w, d : RunStartup(w, d)
    BY <1>1
  <2>2. /\ phase = "startup" /\ position \in 1..Len(StartupOrder)
        /\ UNCHANGED <<inputs, overrides, initial, samples>>
    BY <2>1 DEF RunStartup, scenarioVars, Shape, ClockShape
  <2>3. ~AllowDefaults
    BY <2>2 DEF StartupIsSeeded
  <2>4. external' = external
    BY <2>1, <2>3 DEF RunStartup, DefaultedReads
  <2>5. ASSUME NEW c \in Channels PROVE DefaultInv(c)'
    BY <2>2, <2>3, <2>4 DEF FlagInv, DefaultInv, Driven
  <2> QED BY <2>2, <2>5 DEF FlagInv, SampleFlagsAreTrue, SampleTicks
<1>2. CASE OpenTick
  <2>1. /\ phase = "seed" /\ env' = Seeded(tick, env)
        /\ UNCHANGED <<inputs, overrides, initial, samples, external>>
    BY <1>2 DEF OpenTick, scenarioVars, traceVars
  <2>2. ASSUME NEW c \in Channels PROVE DefaultInv(c)'
    <3>1. c \notin Driven => env'[c] = env[c]
      BY <2>1, SeededOf DEF Shape
    <3> QED BY <2>1, <3>1 DEF FlagInv, DefaultInv, Driven, SampleTicks
  <2> QED BY <2>1, <2>2 DEF FlagInv, SampleFlagsAreTrue, SampleTicks
<1>3. CASE \E p \in position..Len(order) : \E w, d : RunDue(p, w, d)
  <2>1. PICK p \in position..Len(order) : \E w, d : RunDue(p, w, d)
    BY <1>3
  <2>2. PICK w, d : RunDue(p, w, d)
    BY <2>1
  <2>3. /\ external' = external \cup d
        /\ d \in DefaultedReads(order[p], env)
        /\ UNCHANGED <<inputs, overrides, initial>>
    BY <2>2 DEF RunDue, scenarioVars
  <2>4. ASSUME NEW c \in Channels
        PROVE  /\ DefaultInv(c)'
               /\ \A i \in SampleTicks(c)' :
                    ExternalTruthfully(samples'[c][i].external, samples'[c][i].value)
    <3>1. /\ c \in w => env'[c] = Computed(order[p], tick)
          /\ c \notin w => env'[c] = env[c]
          /\ Record(ScriptSamples(order[p], w))
          /\ phase = "run"
      BY <2>2, RunDueOf
    <3>2. DefaultInv(c) /\ \A i \in SampleTicks(c) :
            ExternalTruthfully(samples[c][i].external, samples[c][i].value)
      BY <3>1 DEF FlagInv, SampleFlagsAreTrue
    <3>3. c \in d => AllowDefaults /\ env[c] = Unset
      BY <2>3 DEF DefaultedReads
    <3>4. CASE c \notin w
      <4>1. c \notin DOMAIN ScriptSamples(order[p], w)
        BY <3>4 DEF ScriptSamples
      <4>2. samples'[c] = samples[c]
        BY <3>1, <4>1, RecordSkips
      <4> QED BY <2>3, <3>1, <3>2, <3>3, <3>4, <4>2 DEF DefaultInv, Driven, SampleTicks
    <3>5. CASE c \in w
      <4>1. /\ c \in DOMAIN ScriptSamples(order[p], w)
            /\ ScriptSamples(order[p], w)[c].value.kind = "computed"
            /\ ScriptSamples(order[p], w)[c].external = FALSE
        BY <3>5, MadeParts DEF ScriptSamples
      <4> HIDE DEF ScriptSamples
      <4>2. /\ DOMAIN samples'[c] = DOMAIN samples[c] \cup {tick}
            /\ samples'[c][tick] = ScriptSamples(order[p], w)[c]
            /\ \A i \in DOMAIN samples[c] : i # tick => samples'[c][i] = samples[c][i]
        BY <3>1, <4>1, RecordAdds
      <4>3. DefaultInv(c)'
        BY <2>3, <3>2, <3>3, <4>2 DEF DefaultInv, Driven, SampleTicks
      <4>4. ASSUME NEW i \in SampleTicks(c)'
            PROVE  ExternalTruthfully(samples'[c][i].external, samples'[c][i].value)
        <5>1. CASE i = tick
          BY <5>1, <4>1, <4>2 DEF ExternalTruthfully, FromOutside
        <5>2. CASE i # tick
          <6>1. i \in SampleTicks(c) /\ samples'[c][i] = samples[c][i]
            BY <5>2, <4>2, <4>4 DEF SampleTicks
          <6> QED BY <6>1, <3>2
        <5> QED BY <5>1, <5>2
      <4> QED BY <4>3, <4>4
    <3> QED BY <3>4, <3>5
  <2> QED BY <2>4 DEF FlagInv, SampleFlagsAreTrue
<1>4. CASE ScriptFails
  <2>1. phase' = "aborted" /\ samples' = [c \in Channels |-> <<>>]
    BY <1>4 DEF ScriptFails
  <2> QED BY <2>1 DEF FlagInv, SampleFlagsAreTrue, SampleTicks
<1>5. CASE CloseTick
  <2>1. /\ phase = "run" /\ tick \in Nat
        /\ UNCHANGED <<inputs, overrides, initial, env>>
    BY <1>5 DEF CloseTick, scenarioVars, Shape, ClockShape
  <2>2. PICK added :
          /\ Record(added)
          /\ \A c \in Channels :
               /\ c \in DOMAIN added <=> Recorded(c)
               /\ c \in DOMAIN added =>
                    added[c].value = env[c] /\ added[c].external = ClosingFlag(c)
          /\ external \subseteq external'
          /\ external' \subseteq external \cup (Channels \cap (Driven \cup initial))
    BY <1>5, <2>1, CloseTickOf
  <2>3. ASSUME NEW c \in Channels
        PROVE  /\ DefaultInv(c)'
               /\ \A i \in SampleTicks(c)' :
                    ExternalTruthfully(samples'[c][i].external, samples'[c][i].value)
    <3>1. DefaultInv(c) /\ \A i \in SampleTicks(c) :
            ExternalTruthfully(samples[c][i].external, samples[c][i].value)
      BY <2>1 DEF FlagInv, SampleFlagsAreTrue
    <3>2. CASE c \notin DOMAIN added
      <4>1. samples'[c] = samples[c]
        BY <2>2, <3>2, RecordSkips
      <4> QED BY <2>1, <2>2, <3>1, <4>1 DEF DefaultInv, Driven, SampleTicks
    <3>3. CASE c \in DOMAIN added
      <4>1. /\ DOMAIN samples'[c] = DOMAIN samples[c] \cup {tick}
            /\ samples'[c][tick] = added[c]
            /\ \A i \in DOMAIN samples[c] : i # tick => samples'[c][i] = samples[c][i]
        BY <2>2, <3>3, RecordAdds
      <4>2. Recorded(c) /\ added[c].value = env[c] /\ added[c].external = ClosingFlag(c)
        BY <2>2, <3>3
      <4>3. ExternalTruthfully(ClosingFlag(c), env[c])
        BY <2>1, <2>2, <4>2, ClosingFlagIsTrue
      <4>4. ExternalTruthfully(samples'[c][tick].external, samples'[c][tick].value)
        BY <4>1, <4>2, <4>3
      <4>5. DefaultInv(c)'
        BY <2>1, <2>2, <3>1, <4>1 DEF DefaultInv, Driven, SampleTicks
      <4>6. ASSUME NEW i \in SampleTicks(c)', i # tick
            PROVE  i \in SampleTicks(c) /\ samples'[c][i] = samples[c][i]
        BY <4>1, <4>6 DEF SampleTicks
      <4> QED BY <3>1, <4>4, <4>5, <4>6
    <3> QED BY <3>2, <3>3
  <2> QED BY <2>3 DEF FlagInv, SampleFlagsAreTrue
<1>6. CASE EndRun \/ UNCHANGED vars
  <2>1. /\ UNCHANGED <<inputs, overrides, initial, env, samples, external>>
        /\ phase' # "aborted" => phase # "aborted"
    BY <1>6 DEF EndRun, vars, scenarioVars, traceVars
  <2> QED BY <2>1 DEF FlagInv, DefaultInv, Driven, SampleFlagsAreTrue, SampleTicks
<1> QED BY <1>1, <1>2, <1>3, <1>4, <1>5, <1>6, NextSteps

(* What is true of the provenance of one input.                            *)
TrueOf(p, v, t) ==
  /\ p.source = "unavailable" <=> v = Unset
  /\ v # Unset => /\ p.source = "current" <=> v.at = t
                  /\ ExternalTruthfully(p.external, v)

LEMMA ProvenanceIs ==
  ASSUME Shape, LoopInv, FlagInv, phase = "run", NEW c \in Channels
  PROVE  TrueOf(Provenance(c), env[c], tick)
<1>1. /\ ColumnInv(c) /\ StoreInv(c) /\ OpenInv(c) /\ DefaultInv(c)
      /\ tick \in Nat
  BY DEF LoopInv, FlagInv, Shape, ClockShape
<1> DEFINE P == Provenance(c)
<1>2. ASSUME env[c] # Unset, P.source \in {"current", "held"},
             P.source = "current" <=> env[c].at = tick,
             P.external <=> FromOutside(env[c])
      PROVE  TrueOf(P, env[c], tick)
  BY <1>2 DEF TrueOf, ExternalTruthfully
<1>3. CASE RecordedNow(c)
  <2>1. Provenance(c) = Found("current", samples[c][tick].external)
    BY <1>3 DEF Provenance
  <2>2. env[c].kind = "computed" /\ env[c].at = tick /\ ~samples[c][tick].external
    BY <1>1, <1>3 DEF OpenInv
  <2>3. env[c] # Unset
    BY <2>2, MadeParts
  <2>4. P.source = "current" /\ P.external = samples[c][tick].external
    BY <2>1 DEF Found
  <2>5. P.external <=> FromOutside(env[c])
    BY <2>2, <2>4 DEF FromOutside
  <2> QED BY <1>2, <2>2, <2>3, <2>4, <2>5
<1>4. CASE ~RecordedNow(c) /\ c \in Driven
  <2>1. Provenance(c) = Found("current", TRUE)
    BY <1>4 DEF Provenance, Driven
  <2>2. env[c].kind \in {"input", "override"} /\ env[c].at = tick
    BY <1>1, <1>4 DEF OpenInv
  <2>3. env[c] # Unset
    BY <2>2, MadeParts
  <2>4. P.source = "current" /\ P.external = TRUE
    BY <2>1 DEF Found
  <2>5. P.external <=> FromOutside(env[c])
    BY <2>2, <2>4 DEF FromOutside
  <2> QED BY <1>2, <2>2, <2>3, <2>4, <2>5
<1>5. CASE ~RecordedNow(c) /\ c \notin Driven
  <2>1. Provenance(c) = OlderProvenance(c)
    BY <1>5 DEF Provenance, Driven
  <2>2. env[c].at # tick
    <3>1. env[c].at < tick /\ env[c].at \in Int
      BY <1>1, <1>5, ValueParts DEF OpenInv, Shape, StoreShape
    <3> QED BY <3>1, <1>1
  <2>3. CASE tick = 0 /\ c \in initial
    <3>1. /\ OlderProvenance(c) = Found("held", c \notin startupWritten)
          /\ env[c] # Unset
          /\ env[c].kind = IF c \in startupWritten THEN "computed" ELSE "initial"
      BY <1>1, <1>5, <2>3 DEF OlderProvenance, StoreInv
    <3>2. P.source = "held" /\ (P.external <=> c \notin startupWritten)
      <4>1. CASE c \in startupWritten
        <5>1. Found("held", c \notin startupWritten) = Found("held", FALSE)
          BY <4>1 DEF Found
        <5> QED BY <2>1, <3>1, <4>1, <5>1 DEF Found
      <4>2. CASE c \notin startupWritten
        <5>1. Found("held", c \notin startupWritten) = Found("held", TRUE)
          BY <4>2 DEF Found
        <5> QED BY <2>1, <3>1, <4>2, <5>1 DEF Found
      <4> QED BY <4>1, <4>2
    <3>3. P.external <=> FromOutside(env[c])
      BY <3>1, <3>2 DEF FromOutside
    <3> QED BY <1>2, <2>2, <3>1, <3>2, <3>3
  <2>4. CASE tick = 0 /\ c \notin initial /\ c \in startupWritten
    <3>1. /\ OlderProvenance(c) = Found("held", FALSE)
          /\ env[c] # Unset /\ env[c].kind = "computed"
      BY <1>1, <1>5, <2>4 DEF OlderProvenance, StoreInv
    <3>2. P.source = "held" /\ ~P.external
      BY <2>1, <3>1 DEF Found
    <3>3. P.external <=> FromOutside(env[c])
      BY <3>1, <3>2 DEF FromOutside
    <3> QED BY <1>2, <2>2, <3>1, <3>2, <3>3
  <2>5. CASE ~(tick = 0 /\ (c \in initial \/ c \in startupWritten))
             /\ tick - 1 \in SampleTicks(c)
    <3>1. /\ OlderProvenance(c) = Found("held", samples[c][tick - 1].external)
          /\ env[c] # Unset /\ samples[c][tick - 1].value = env[c]
      BY <1>1, <1>5, <2>5 DEF OlderProvenance, StoreInv
    <3>2. ExternalTruthfully(samples[c][tick - 1].external, env[c])
      BY <2>5, <3>1 DEF FlagInv, SampleFlagsAreTrue
    <3>3. P.source = "held" /\ P.external = samples[c][tick - 1].external
      BY <2>1, <3>1 DEF Found
    <3> QED BY <1>2, <2>2, <3>1, <3>2, <3>3 DEF ExternalTruthfully
  <2>6. CASE ~(tick = 0 /\ (c \in initial \/ c \in startupWritten))
             /\ tick - 1 \notin SampleTicks(c) /\ env[c] # Unset
    <3>1. OlderProvenance(c) = Found("held", c \in external)
      BY <2>6 DEF OlderProvenance
    <3>2. c \notin initial
      BY <1>1, <2>6 DEF StoreInv
    <3>3. env[c].kind = "computed"
      BY <1>1, <1>5, <2>6, <3>2 DEF StoreInv
    <3>4. SampleTicks(c) = {}
      BY <1>1, <1>5, <2>6, DenseSamples
    <3>5. c \notin external
      BY <1>1, <1>5, <2>6, <3>2, <3>4 DEF DefaultInv
    <3>6. P.source = "held" /\ (P.external <=> c \in external)
      <4>0. (c \in external) = FALSE
        BY <3>5
      <4>1. Found("held", c \in external) = Found("held", FALSE)
        BY <4>0, Zenon
      <4> QED BY <2>1, <3>1, <3>5, <4>1 DEF Found
    <3>7. P.external <=> FromOutside(env[c])
      BY <3>3, <3>5, <3>6 DEF FromOutside
    <3> QED BY <1>2, <2>2, <2>6, <3>6, <3>7
  <2>7. CASE ~(tick = 0 /\ (c \in initial \/ c \in startupWritten))
             /\ tick - 1 \notin SampleTicks(c) /\ env[c] = Unset
    <3>1. OlderProvenance(c) = Found("unavailable", FALSE)
      BY <2>7 DEF OlderProvenance
    <3>2. P.source = "unavailable"
      BY <2>1, <3>1 DEF Found
    <3> QED BY <2>7, <3>2 DEF TrueOf
  <2> QED BY <2>3, <2>4, <2>5, <2>6, <2>7
<1> QED BY <1>3, <1>4, <1>5

InputsTrue ==
  \A in \in execution.inputs :
    /\ in.source = "unavailable" <=> in.seen = Unset
    /\ in.seen # Unset =>
         /\ in.source = "current" <=> in.seen.at = execution.at
         /\ ExternalTruthfully(in.external, in.seen)

(* Only a periodic function leaves a new record of its inputs.             *)
LEMMA ExecutionSteps ==
  ASSUME [Next]_vars
  PROVE  \/ execution' = execution
         \/ execution' = NoExecution
         \/ \E p \in position..Len(order) : \E w, d : RunDue(p, w, d)
  BY NextSteps DEF RunStartup, OpenTick, ScriptFails, CloseTick, EndRun, vars

LEMMA InputsStayTrue ==
  ASSUME Shape, LoopInv, FlagInv, InputsTrue, [Next]_vars
  PROVE  InputsTrue'
<1>1. CASE execution' = execution
  BY <1>1 DEF InputsTrue
<1>2. CASE execution' = NoExecution
  BY <1>2 DEF InputsTrue, NoExecution
<1>3. CASE \E p \in position..Len(order) : \E w, d : RunDue(p, w, d)
  <2>1. PICK p \in position..Len(order) : \E w, d : RunDue(p, w, d)
    BY <1>3
  <2>2. /\ phase = "run"
        /\ execution' = [function |-> order[p], at |-> tick,
                         inputs |-> {InputRecord(d) : d \in Dependencies(order[p])}]
    BY <2>1 DEF RunDue
  <2>3. ASSUME NEW d \in Dependencies(order[p])
        PROVE  /\ InputRecord(d).source = Provenance(d[2]).source
               /\ InputRecord(d).external = Provenance(d[2]).external
               /\ InputRecord(d).seen = env[d[2]]
               /\ TrueOf(Provenance(d[2]), env[d[2]], tick)
    <3>1. d[2] \in Channels
      BY DEF Dependencies
    <3> QED BY <2>2, <3>1, ProvenanceIs DEF InputRecord
  <2>4. \A in \in execution'.inputs : TrueOf(in, in.seen, execution'.at)
    BY <2>2, <2>3 DEF TrueOf
  <2> QED BY <2>4 DEF TrueOf, InputsTrue
<1> QED BY <1>1, <1>2, <1>3, ExecutionSteps

(* What the trace says of the origin of a value is true, of every sample   *)
(* however long it is held and of every input of an execution              *)
(* (schedule_input_provenance, record_held_channel), when no startup        *)
(* script reads a substituted default.                                     *)
THEOREM ProvenanceTrueForEver ==
  ASSUME StartupIsSeeded
  PROVE  Spec => []ProvenanceIsTrue
<1>1. Init => FlagInv /\ InputsTrue
  BY DEF Init, EmptyTrace, NoExecution, FlagInv, DefaultInv, SampleFlagsAreTrue,
         SampleTicks, InputsTrue
<1>2. Shape /\ LoopInv /\ FlagInv /\ InputsTrue /\ [Next]_vars
        => FlagInv' /\ InputsTrue'
  BY FlagsInductive, InputsStayTrue
<1>3. FlagInv /\ InputsTrue => ProvenanceIsTrue
  BY DEF FlagInv, InputsTrue, ProvenanceIsTrue
<1> QED BY <1>1, <1>2, <1>3, LoopInvariant, PTL DEF Spec

-----------------------------------------------------------------------------
InputsShape ==
  execution.inputs \subseteq
    [writer : Periodic, channel : Channels, writerDue : BOOLEAN,
     source : Sources, external : BOOLEAN, seen : Values]

LEMMA ProvenanceShape ==
  ASSUME Shape, NEW c \in Channels
  PROVE  Provenance(c).source \in Sources /\ Provenance(c).external \in BOOLEAN
<1>1. \A i \in SampleTicks(c) : samples[c][i].external \in BOOLEAN
  BY DEF Shape, SamplesShape, SamplesOf
<1>2. ASSUME NEW s \in Sources, NEW b \in BOOLEAN
      PROVE  Found(s, b).source \in Sources /\ Found(s, b).external \in BOOLEAN
  BY DEF Found
<1>3. PICK s \in Sources, b \in BOOLEAN : Provenance(c) = Found(s, b)
  <2>1. (c \notin startupWritten) \in BOOLEAN /\ (c \in external) \in BOOLEAN
    OBVIOUS
  <2> QED BY <1>1, <2>1, Zenon
          DEF Provenance, OlderProvenance, RecordedNow, Sources
<1> QED BY <1>2, <1>3

(* The store, the trace and the latest execution record stay within their  *)
(* types on every run (tick_loop in src/runner.rs).                        *)
THEOREM TypeCorrect == Spec => []TypeOK
<1>1. Init => InputsShape
  BY DEF Init, NoExecution, InputsShape
<1>2. Shape /\ InputsShape /\ [Next]_vars => InputsShape'
  <2> SUFFICES ASSUME Shape, InputsShape, [Next]_vars PROVE InputsShape'
    OBVIOUS
  <2>1. CASE execution' \in {execution, NoExecution}
    BY <2>1 DEF InputsShape, NoExecution
  <2>2. CASE \E p \in position..Len(order) : \E w, d : RunDue(p, w, d)
    <3>1. PICK p \in position..Len(order) : \E w, d : RunDue(p, w, d)
      BY <2>2
    <3>2. execution'.inputs = {InputRecord(d) : d \in Dependencies(order[p])}
      BY <3>1 DEF RunDue
    <3>3. ASSUME NEW d \in Dependencies(order[p])
          PROVE  InputRecord(d) \in
                   [writer : Periodic, channel : Channels, writerDue : BOOLEAN,
                    source : Sources, external : BOOLEAN, seen : Values]
      <4>1. d[1] \in Periodic /\ d[2] \in Channels
        BY DEF Dependencies
      <4>2. env[d[2]] \in Values
        BY <4>1 DEF Shape, StoreShape
      <4>3. Provenance(d[2]).source \in Sources
            /\ Provenance(d[2]).external \in BOOLEAN
        BY <4>1, ProvenanceShape
      <4>4. Due(d[1]) \in BOOLEAN
        BY DEF Due
      <4> QED BY <4>1, <4>2, <4>3, <4>4 DEF InputRecord
    <3> QED BY <3>2, <3>3 DEF InputsShape
  <2> QED BY <2>1, <2>2, ExecutionSteps
<1>3. Shape /\ InputsShape => TypeOK
  BY DEF Shape, ClockShape, StoreShape, SamplesShape, SamplesOf, InputsShape,
         TypeOK, TraceTypeOK
<1> QED BY <1>1, <1>2, <1>3, LoopInvariant, PTL DEF Spec

=============================================================================
