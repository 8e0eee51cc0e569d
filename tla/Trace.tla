-------------------------------- MODULE Trace -------------------------------
(***************************************************************************)
(* The trace a run fills (src/trace.rs): per channel the samples by tick   *)
(* with their external flags, the column shown to users, and the set of    *)
(* channels ever flagged as externally driven.                             *)
(*                                                                         *)
(* A value carries its own origin: what kind of source wrote it, which     *)
(* function, and on which base tick (Before for the time before tick 0).   *)
(* So what the trace claims about a value can be held against the value.   *)
(***************************************************************************)
EXTENDS Project

CONSTANT Ticks      \* base ticks of the run

ASSUME TraceAssumption == Ticks \in Nat

VARIABLES
  tick,             \* index of the open tick, or of the next one to open
  samples,          \* per channel: tick |-> [value, external]  (channel_ticks)
  columns,          \* per channel: the values of its trace column
  external          \* channels flagged externally driven (Trace::external)

traceVars == <<samples, columns, external>>

Before     == -1
ValueKinds == {"unset", "input", "override", "initial", "log", "computed"}
Values     == [kind : ValueKinds, by : Nat, at : {Before} \cup 0..Ticks]

Unset          == [kind |-> "unset", by |-> 0, at |-> Before]
InitialSeed    == [kind |-> "initial", by |-> 0, at |-> Before]
Input(t)       == [kind |-> "input", by |-> 0, at |-> t]
Override(t)    == [kind |-> "override", by |-> 0, at |-> t]
Logged(t)      == [kind |-> "log", by |-> 0, at |-> t]
Computed(f, t) == [kind |-> "computed", by |-> f, at |-> t]

FromOutside(v) == v.kind \in {"input", "override", "initial", "log"}

SampleTicks(c) == DOMAIN samples[c]
RecordedNow(c) == tick \in SampleTicks(c)

EmptyTrace ==
  /\ samples = [c \in Channels |-> <<>>]
  /\ columns = [c \in Channels |-> <<>>]
  /\ external = {}

TraceTypeOK ==
  /\ tick \in 0..Ticks
  /\ \A c \in Channels :
       /\ SampleTicks(c) \subseteq 0..tick
       /\ \A i \in SampleTicks(c) :
            samples[c][i].value \in Values /\ samples[c][i].external \in BOOLEAN
       /\ columns[c] \in Seq(Values)
  /\ external \subseteq Channels

(* Samples added to the open tick; a second sample of a tick replaces the  *)
(* first, in the tick index and in the column.                             *)
Record(added) ==
  /\ samples' =
       [c \in Channels |->
          IF c \in DOMAIN added
          THEN [i \in SampleTicks(c) \cup {tick} |->
                  IF i = tick THEN added[c] ELSE samples[c][i]]
          ELSE samples[c]]
  /\ columns' =
       [c \in Channels |->
          IF c \notin DOMAIN added THEN columns[c]
          ELSE IF RecordedNow(c)
          THEN [columns[c] EXCEPT ![Len(columns[c])] = added[c].value]
          ELSE Append(columns[c], added[c].value)]

(* A script's assignments; its values are computed, never external.        *)
ScriptSamples(f, written) ==
  [c \in written |-> [value |-> Computed(f, tick), external |-> FALSE]]

(* The flag a held value inherits: that of its latest earlier sample, or   *)
(* that of the channel when it has none.                                   *)
HeldFlag(c, flagged) ==
  LET earlier == SampleTicks(c) \cap 0..(tick - 1)
  IN  IF earlier = {} THEN c \in flagged
      ELSE LET latest == CHOOSE i \in earlier : \A j \in earlier : j <= i
           IN  samples[c][latest].external

-----------------------------------------------------------------------------
ExternalTruthfully(flag, v) == flag <=> FromOutside(v)

(* Every trace sample is flagged by where its value came from, however     *)
(* many ticks it has been held.                                            *)
SampleFlagsAreTrue ==
  \A c \in Channels : \A i \in SampleTicks(c) :
    ExternalTruthfully(samples[c][i].external, samples[c][i].value)

=============================================================================
