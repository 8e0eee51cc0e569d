------------------------------ MODULE Offline -------------------------------
(***************************************************************************)
(* What is computed of files before and after a run, asked for like the    *)
(* calls of Library: the grid of a schedule, what a scenario hands to the  *)
(* scripts on a tick, and a replay of a log with its difference from it.   *)
(* None of it depends on the state that calls leave.                       *)
(***************************************************************************)
EXTENDS Library, Reports

LOCAL INSTANCE FiniteSetsExt
LOCAL INSTANCE Functions

CONSTANTS Bases,       \* base rates that are asked for, 0 to derive one
          Schedules,   \* rates of the functions of a plan
          Durations,
          Scenarios,   \* [name -> scenario as declared, with rates and csv]
          Replays,     \* [name -> [file, overrides, base, duration, cone]]
          MaxTick      \* bound on the ticks that are asked for

\* Rates and durations are not negative; a base of zero is one to derive.
ASSUME GridAssumption == Bases \subseteq Nat /\ Schedules \subseteq Seq(Nat) /\ Durations \subseteq Nat

AskGrid == \E b \in Bases, rates \in Schedules, d \in Durations :
    Pure(Call("grid", NoPath, <<b, rates, d>>), Grid(b, rates, d))

\* What is read of the files of a run, by its name: the scenario, its inputs
\* overlaid with the columns of a CSV file, and the grid.
ScenarioOf(raw) == [Scenario(raw) EXCEPT !.inputs = LoadCsv(@, raw.csv)]
GridOf(raw)     == Grid(raw.base, raw.rates, raw.duration)
Refused(raw)    == ScenarioFails(raw) \/ CsvFails(raw.csv, FALSE)

HandOver(scn, given, k, base) ==
    IF given = NoStore THEN Fail
    ELSE [base |-> base, store |-> given, io |-> SeededIo(scn, k, base), serial |-> scn.serial, can |-> scn.can]
Handed(scn, k, base) == HandOver(scn, SeededValues(scn, "group", k, base), k, base)
SeedTick(name, raw, grid, k) ==
    IF grid = NoGrid \/ Refused(raw) THEN k = 0 /\ Pure(Call("seed", name, <<k>>), Fail)
    ELSE k < grid.ticks /\ Pure(Call("seed", name, <<k>>), Handed(ScenarioOf(raw), k, grid.base))
AskSeed == \E name \in DOMAIN Scenarios, k \in 0..MaxTick :
    SeedTick(name, Scenarios[name], GridOf(Scenarios[name]), k)

OverridesOf(r) == [i \in DOMAIN r.overrides |-> ParseOverride(r.overrides[i])]
Compared(log, trace, base) == IF trace = NoTrace THEN Fail ELSE [trace |-> trace, diff |-> Diff(log, trace, base)]
Replayed(r, log, over) ==
    IF LogFails(r.file) \/ (\E i \in DOMAIN over : OverrideFails(over[i])) THEN Fail
    ELSE Compared(log, Replay(Cones[r.cone], log, over, r.base, r.duration), r.base)
ReplayOf(r) == Replayed(r, LogChannels(r.file), OverridesOf(r))
AskReplay == \E name \in DOMAIN Replays : Pure(Call("replay", name, <<>>), ReplayOf(Replays[name]))

OfflineNext == LibraryNext \/ (call = NoCall /\ (AskGrid \/ AskSeed \/ AskReplay))
OfflineSpec == LibraryInit /\ [][OfflineNext]_libraryVars
-----------------------------------------------------------------------------
(* Properties *)

\* A schedule is refused only if no base within the limit carries all its rates;
\* otherwise every function runs at exactly its rate, a base that is derived is
\* the least one, and the ticks are those that fit: the last one starts before
\* the end, and a further one would start at most half a period before it.
GridIsExact ==
    Is("grid") =>
      LET base     == Arg(1)
          rates    == Arg(2)
          length   == Arg(3) * answer.base
          Bears(b) == \A i \in DOMAIN rates : b % rates[i] = 0
          exact    == base % RateUnit = 0 /\ \A i \in DOMAIN rates : rates[i] > 0 /\ rates[i] % RateUnit = 0
      IN  IF answer = NoGrid
          THEN rates # <<>> /\ exact =>
                 \A b \in 1..MaxBase : (base \in {0, b * RateUnit}) => ~Bears(b * RateUnit)
          ELSE /\ \A i \in DOMAIN rates : answer.every[i] * rates[i] = answer.base
               /\ IF base = 0 THEN \A b \in 1..(answer.base - 1) : ~Bears(b) ELSE answer.base = base
               /\ answer.ticks > 0 => (answer.ticks - 1) * PerSecond < length
               /\ 2 * length <= (2 * answer.ticks + 1) * PerSecond

Latest(points, k, base) ==
    LET past == {p \in Range(points) : Passed(p.t, k, base)} IN
    IF past = {} THEN points[1].x ELSE (CHOOSE p \in past : \A q \in past : q.t <= p.t).x
Ascending(points) == \A i \in 2..Len(points) : points[i - 1].t < points[i].t

Precedes(scn, columns) ==
    LET Of(series, c) == {s \in series : Canonical(s.channel, "group") = c}
        ranks(c) == <<Of(Range(scn.overrides), c), Of(columns, c), Of(Range(scn.inputs), c), Of(Range(scn.initial), c)>>
        speaks(c) == Min({i \in 1..4 : ranks(c)[i] # {}})
        plain == /\ \A c \in DOMAIN answer.store, i \in 1..4 : Cardinality(ranks(c)[i]) <= 1
                 /\ \A s \in columns, i \in Range(scn.inputs) :
                       Canonical(s.channel, "group") = Canonical(i.channel, "group") => s.channel = i.channel
                 /\ \A s \in Range(scn.inputs \o scn.overrides) \cup Range(scn.io) : Ascending(s.points)
    IN  /\ plain => \A c \in DOMAIN answer.store :
               LET s == CHOOSE x \in ranks(c)[speaks(c)] : TRUE IN
               answer.store[c] = Coerce(Latest(s.points, Arg(1), answer.base), Family(c))
        /\ plain => \A io \in Range(scn.io) :
               answer.io[<<io.call, io.site>>] = Latest(io.points, Arg(1), answer.base)
        /\ \A rx \in {answer.serial, answer.can} : \A i \in 2..Len(rx) : rx[i - 1].t <= rx[i].t

\* Each channel is given by the first of its sources that speaks of it, an
\* override, the column of the CSV, an input, its initial value, and holds the
\* latest value that source has declared for a time not after the tick, or the
\* first one. So do the answers to hardware calls. Arrivals are handed over in
\* the order of their times. (Of sources that each name a channel once, alike in
\* the CSV and the scenario, and whose keyframes are in order.)
SourcesTakePrecedence ==
    Is("seed") /\ answer # Fail => Precedes(Scenario(Scenarios[call.on]), Range(Columns(Scenarios[call.on].csv, FALSE)))

Explains(r, log, over) ==
    LET scope  == IF over = <<>> THEN "none" ELSE "group"
        Path(i)   == Canonical(log[i].channel, scope)
        Target(i) == Canonical(over[i].channel, scope)
        Drives(i, k) == Sample(log[i].points, k - 1, r.base)
        Logged(c, k) == LET i == CHOOSE j \in DOMAIN log : Path(j) = c IN Coerce(Drives(i, k), Family(c))
        computed   == {f.to : f \in Range(Cones[r.cone])}
        overridden == {Target(i) : i \in DOMAIN over}
        named == /\ \A i, j \in DOMAIN log : Path(i) = Path(j) => i = j
                 /\ \A i \in DOMAIN log :
                       Path(i) \in {log[i].channel, <<"Root">> \o log[i].channel} \/ Len(log[i].channel) = 1
        plain == \A i, j \in DOMAIN over : Target(i) = Target(j) => i = j
    IN  named =>
        /\ \A k \in DOMAIN answer.trace, i \in DOMAIN log :
              Path(i) \notin computed \cup overridden => answer.trace[k][Path(i)] = Logged(Path(i), k)
        /\ plain => \A k \in DOMAIN answer.trace, i \in DOMAIN over :
              LET form == over[i].form IN
              Target(i) \notin computed =>
                 CASE form.k = "const" -> answer.trace[k][Target(i)] = Coerce(form.v, Family(Target(i)))
                   [] form.k = "expr" /\ (\E j \in DOMAIN log : Path(j) = Canonical(form.of, scope)) ->
                          answer.trace[k][Target(i)] =
                             Coerce(Apply(form.op, Logged(Canonical(form.of, scope), k), form.by), Family(Target(i)))
                   [] OTHER -> TRUE
        /\ \A p \in DOMAIN answer.diff.mapping : Canonical(answer.diff.mapping[p], scope) = p
        /\ \A p \in answer.diff.changed \ (computed \cup overridden) :
              \E i \in DOMAIN log, k \in DOMAIN answer.trace :
                 Path(i) = p /\ Diverges(Logged(p, k), Drives(i, k))

\* The columns of a replay are explained by the log: a column the cone does not
\* compute shows on each tick what the log or its override says of it, an
\* override being read in the log alone; the difference compares a column with
\* the very channel of the log that drives it; and it reports no change of a
\* column that is neither overridden nor computed, unless the declared family
\* cannot hold what was logged. (Of logs that name each channel once, by its
\* path with or without the root or by one segment.)
DiffExplainsReplay ==
    Is("replay") /\ answer # Fail =>
      Explains(Replays[call.on], LogChannels(Replays[call.on].file), OverridesOf(Replays[call.on]))
=============================================================================
