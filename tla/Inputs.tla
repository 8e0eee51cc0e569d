------------------------------- MODULE Inputs -------------------------------
(***************************************************************************)
(* What a run is given by files: the base tick and the divisors of its     *)
(* functions (runner.rs), scenarios and CSV series (scenario.rs), recorded *)
(* logs (log.rs, log/ld.rs), and what they drive a channel to on a tick.   *)
(*                                                                         *)
(* A rate counts 1/RateUnit of a millihertz, so that some rates are not    *)
(* whole millihertz; times are in milliseconds. A channel name is the      *)
(* sequence of its segments. A constant is a series of one keyframe, which *)
(* is sampled alike.                                                       *)
(***************************************************************************)
EXTENDS Values, FiniteSets

LOCAL INSTANCE FiniteSetsExt
LOCAL Seqs == INSTANCE SequencesExt
LOCAL INSTANCE Functions
LOCAL INSTANCE TLC

CONSTANTS RateUnit,   \* subdivisions of a millihertz
          MaxBase,    \* largest base rate that is derived, in millihertz
          CanonOf,    \* [scope -> [name -> symbol it resolves to there]]
          FamilyOf    \* [canonical name -> declared family]

ASSUME InputsAssumption == RateUnit \in Nat \ {0} /\ MaxBase \in Nat \ {0}

Milli == 1000

-----------------------------------------------------------------------------
(* The grid *)

NoRate == 0
Millihertz(rate) == IF rate > 0 /\ rate % RateUnit = 0 THEN rate \div RateUnit ELSE NoRate

\* Of a pair.
Gcd[p \in Nat \X Nat] == IF p[2] = 0 THEN p[1] ELSE Gcd[<<p[2], p[1] % p[2]>>]

\* lcm_rate_hz: one step of the fold, refused above the largest base.
LeastMultiple(m, r) == (m \div Gcd[<<m, r>>]) * r
JoinRate(m, r) ==
    IF m = NoRate \/ r = NoRate THEN NoRate ELSE IF LeastMultiple(m, r) > MaxBase THEN NoRate ELSE LeastMultiple(m, r)
CommonBase(rates) ==
    LET m[i \in 0..Len(rates)] == IF i = 0 THEN 1 ELSE JoinRate(m[i - 1], Millihertz(rates[i]))
    IN  IF rates = <<>> THEN NoRate ELSE m[Len(rates)]

\* resolve_base_rate: a base that is given is taken as it is.
ResolveBase(base, rates) == IF base > 0 THEN base ELSE CommonBase(rates) * RateUnit

(* Mutant: the divisor is rounded to the nearest integer.                     *)
RoundedDivisor(base, rate) ==
    LET b == Millihertz(base)
        r == Millihertz(rate)
    IN  IF b = NoRate \/ r = NoRate \/ b < r THEN NoRate ELSE (2 * b + r) \div (2 * r)

\* exact_divisor
Divisor(base, rate) ==
    LET b == Millihertz(base)
        r == Millihertz(rate)
    IN  IF b = NoRate \/ r = NoRate THEN NoRate ELSE IF b % r # 0 THEN NoRate ELSE b \div r

\* Ticks of a second in the units of rates and times: a tick k of a base b is
\* at k * PerSecond / b milliseconds.
PerSecond == Milli * Milli * RateUnit
TickCount(duration, base) == (2 * duration * base + PerSecond) \div (2 * PerSecond)

NoGrid == [base |-> NoRate]
Grid(base, rates, duration) ==
    LET b == ResolveBase(base, rates) IN
    IF b = NoRate \/ \E i \in DOMAIN rates : Divisor(b, rates[i]) = NoRate THEN NoGrid
    ELSE [base |-> b, every |-> [i \in DOMAIN rates |-> Divisor(b, rates[i])], ticks |-> TickCount(duration, b)]

-----------------------------------------------------------------------------
(* Series *)

Passed(t, k, base) == t * base <= k * PerSecond

\* sample_series: the scan stops at the first keyframe that lies ahead. A
\* series without keyframes reads as zero.
Sample(points, k, base) ==
    LET scanned == {i \in DOMAIN points : \A j \in 1..i : Passed(points[j].t, k, base)} IN
    IF points = <<>> THEN Val("float", 0)
    ELSE IF scanned = {} THEN points[1].x ELSE points[Max(scanned)].x

Keyframe(t, x) == [t |-> t, x |-> x]

-----------------------------------------------------------------------------
(* Scenarios. What may be left out is a sequence of one element or none. *)

\* into_value: [kind, v]; a typed value is the set of its fields <<family, v>>.
Fits(f, n) == IF f = "uint" THEN n \in 0..UIntMax ELSE n \in IntMin..IntMax
WireScalar(f, n) ==
    CASE f = "float" -> LET x == RoundFloat(n, 1) IN IF IsFinite(x) THEN Val(f, x) ELSE Fail
      [] f # "float" -> IF Fits(f, n) THEN Val(f, n) ELSE Fail
FromWire(w) ==
    LET field == IF w.kind = "typed" THEN CHOOSE x \in w.v : TRUE ELSE <<w.kind, w.v>> IN
    CASE w.kind = "nonfinite"                       -> Val("float", w.v)
      [] w.kind \in {"bool", "str"}                 -> Val(w.kind, w.v)
      [] w.kind = "typed" /\ Cardinality(w.v) # 1  -> Fail
      [] OTHER                                      -> WireScalar(field[1], field[2])

\* raw_kind: exactly one of a constant and a series, which is not empty.
Given(e)   == IF e.series # <<>> THEN e.series[1] ELSE [i \in DOMAIN e.const |-> Keyframe(0, e.const[i])]
RawKind(e) == [i \in DOMAIN Given(e) |-> Keyframe(Given(e)[i].t, FromWire(Given(e)[i].x))]
RawKindFails(e) ==
    \/ (e.const = <<>>) = (e.series = <<>>)
    \/ Given(e) = <<>>
    \/ \E p \in Range(RawKind(e)) : p.x = Fail
Blank == ""
\* into_io: a site is given by script and offset, both or neither.
SiteFails(e) == (e.script = <<>>) # (e.offset = <<>>) \/ e.script = <<Blank>>
SiteOfIo(e)  == e.script \o e.offset

\* into_can, into_serial: legal entries, by time and then as declared.
StandardMax == 2047
ExtendedMax == 536870911
BytesFail(bytes, most) == Len(bytes) > most \/ \E b \in Range(bytes) : b \notin 0..255
CanFails(e) == \/ e.t < 0 \/ e.bus \notin 0..2 \/ BytesFail(e.bytes, 8)
               \/ e.id \notin 0..(IF e.extended THEN ExtendedMax ELSE StandardMax)
SerialFails(e) == e.t < 0 \/ e.port < 0 \/ BytesFail(e.bytes, 256)
ByTime(rx) ==
    LET order == Seqs!SetToSortSeq(DOMAIN rx, LAMBDA i, j : rx[i].t < rx[j].t \/ (rx[i].t = rx[j].t /\ i < j))
    IN  [i \in DOMAIN rx |-> rx[order[i]]]

Fails(f(_), s) == \E i \in DOMAIN s : f(s[i])
ScenarioFails(raw) ==
    \/ raw.mode \notin {"function", "cone", "whole-project"}
    \/ raw.mode # "whole-project" /\ (raw.target = <<>> \/ raw.base = 0)
    \/ raw.base < 0 \/ raw.duration < 0
    \/ Fails(RawKindFails, raw.inputs) \/ Fails(RawKindFails, raw.overrides)
    \/ \E i \in DOMAIN raw.initial : FromWire(raw.initial[i].x) = Fail
    \/ Fails(RawKindFails, raw.io) \/ Fails(SiteFails, raw.io)
    \/ \E i, j \in DOMAIN raw.io : i # j /\ raw.io[i].call = raw.io[j].call /\ SiteOfIo(raw.io[i]) = SiteOfIo(raw.io[j])
    \/ Fails(CanFails, raw.can) \/ Fails(SerialFails, raw.serial)

Series(channel, points) == [channel |-> channel, points |-> points]
Scenario(raw) ==
    [mode    |-> raw.mode, base |-> raw.base, duration |-> raw.duration,
     initial |-> [i \in DOMAIN raw.initial |-> Series(raw.initial[i].channel, <<Keyframe(0, FromWire(raw.initial[i].x))>>)],
     inputs  |-> [i \in DOMAIN raw.inputs |-> Series(raw.inputs[i].channel, RawKind(raw.inputs[i]))],
     overrides |-> [i \in DOMAIN raw.overrides |-> Series(raw.overrides[i].channel, RawKind(raw.overrides[i]))],
     io      |-> [i \in DOMAIN raw.io |-> [call |-> raw.io[i].call, site |-> SiteOfIo(raw.io[i]), points |-> RawKind(raw.io[i])]],
     serial  |-> ByTime(raw.serial), can |-> ByTime(raw.can)]

-----------------------------------------------------------------------------
(* CSV files: [header, rows], a cell [k, v] with k one of num, nonfinite,  *)
(* text and blank                                                          *)

IsNumber(cell) == cell.k \in {"num", "nonfinite"}
IsValue(cell)  == cell.k \in {"blank", "nonfinite"} \/ (cell.k = "num" /\ IsFinite(RoundFloat(cell.v, 1)))
Written(file)  == SelectSeq(file.rows, LAMBDA row : row # <<>>)
\* A first line whose time is no number is a line of units, where these are expected.
HasUnits(file, detect) == detect /\ Written(file) # <<>> /\ ~IsNumber(Written(file)[1][1])
DataRows(file, detect) == IF HasUnits(file, detect) THEN Tail(Written(file)) ELSE Written(file)

CsvFails(file, detect) ==
    LET rows == DataRows(file, detect)
        head == file.header
    IN  \/ head = <<>> \/ head[1] # <<"time">> \/ ~IsInjective(Tail(head))
        \/ \E row \in Range(rows) : Len(row) > Len(head) \/ row[1].k # "num" \/ \E c \in 2..Len(row) : ~IsValue(row[c])
        \/ \E i \in 2..Len(rows) : rows[i][1].v <= rows[i - 1][1].v

CellValue(cell) == Val("float", IF cell.k = "num" THEN RoundFloat(cell.v, 1) ELSE cell.v)
Column(file, detect, c) ==
    LET filled == SelectSeq(DataRows(file, detect), LAMBDA row : c <= Len(row) /\ row[c].k # "blank")
    IN  [i \in DOMAIN filled |-> Keyframe(filled[i][1].v, CellValue(filled[i][c]))]
Columns(file, detect) ==
    SelectSeq([c \in 1..(Len(file.header) - 1) |-> Series(file.header[c + 1], Column(file, detect, c + 1))],
              LAMBDA s : s.points # <<>>)

(* Mutant: an input that is declared keeps its values.                        *)
KeepDeclared(inputs, series) ==
    IF \E i \in DOMAIN inputs : inputs[i].channel = series.channel THEN inputs ELSE Append(inputs, series)

\* load_csv: one column replaces the first input that is spelt like it.
Overlay(inputs, series) ==
    LET same == {i \in DOMAIN inputs : inputs[i].channel = series.channel} IN
    IF same = {} THEN Append(inputs, series)
    ELSE [i \in DOMAIN inputs |-> IF i = Min(same) THEN series ELSE inputs[i]]

LoadCsv(inputs, file) == Seqs!FoldLeft(Overlay, inputs, Columns(file, FALSE))

-----------------------------------------------------------------------------
(* Logs *)

\* The binary format: [meta, blocks], a block [next, ty, size, count, rate,
\* offset, mul, scale, dec, name, unit, data], where data is what the file
\* holds from the block's data address on.
Datatype(b) ==
    CASE b.ty \in {0, 3, 5} /\ b.size = 2    -> "int"
      [] b.ty \in {0, 3, 5, 6} /\ b.size = 4 -> "int"
      [] b.ty = 7 /\ b.size = 4              -> "float"
      [] OTHER                               -> "none"

\* read_channels: the addresses from the first block on, 0 from the end on.
Hops(file) ==
    LET n == Cardinality(DOMAIN file.blocks)
        at[i \in 0..n] == IF i = 0 THEN file.meta
                          ELSE IF at[i - 1] \in DOMAIN file.blocks THEN file.blocks[at[i - 1]].next ELSE 0
    IN  at
Listed(file) == LET at == Hops(file) IN
    SelectSeq([i \in 1..Cardinality(DOMAIN file.blocks) |-> at[i - 1]], LAMBDA a : a # 0)
LdFails(file) ==
    \/ Hops(file)[Cardinality(DOMAIN file.blocks)] # 0
    \/ \E a \in Range(Listed(file)) :
          \/ a \notin DOMAIN file.blocks
          \/ LET b == file.blocks[a] IN
             Datatype(b) = "none" \/ b.offset # 0 \/ b.rate = 0 \/ b.scale = 0 \/ b.count > Len(b.data)

\* An integer stays one where the channel has no transform; Base stands for ten.
Identity(b) == b.scale = 1 /\ b.dec = 0 /\ b.mul = 1
Shift(dec) == IF dec < 0 THEN RoundFloat(Scale * Power(Base, -dec), 1) ELSE RoundFloat(Scale, Power(Base, dec))
Decode(b, raw) ==
    LET x == IF Datatype(b) = "int" THEN ToFloat(Val("int", raw)) ELSE raw IN
    FloatMul(FloatMul(FloatDiv(x, RoundFloat(b.scale * Scale, 1)), Shift(b.dec)), RoundFloat(b.mul * Scale, 1))
LdSample(b, i) ==
    Keyframe(((i - 1) * Milli) \div b.rate,
             IF Datatype(b) = "int" /\ Identity(b) THEN Val("int", b.data[i]) ELSE Val("float", Decode(b, b.data[i])))
LdChannels(file) ==
    [i \in DOMAIN Listed(file) |->
        LET b == file.blocks[Listed(file)[i]] IN Series(b.name, [s \in 1..b.count |-> LdSample(b, s)])]

LogFails(file) == IF file.kind = "csv" THEN CsvFails(file, TRUE) ELSE LdFails(file)
LogChannels(file) == IF file.kind = "csv" THEN Columns(file, TRUE) ELSE LdChannels(file)
LogDuration(channels) ==
    Max({0} \cup {channels[i].points[Len(channels[i].points)].t : i \in {j \in DOMAIN channels : channels[j].points # <<>>}})

-----------------------------------------------------------------------------
(* What a tick is given *)

Canonical(name, scope) == IF name \in DOMAIN CanonOf[scope] THEN CanonOf[scope][name] ELSE name
Family(canon) == IF canon \in DOMAIN FamilyOf THEN FamilyOf[canon] ELSE "unknown"

\* One after the other, in the order they are listed; a value that does not go
\* with the declared family ends the run.
NoStore == <<>> :> Fail
Write(store, canon, x) ==
    LET y == Coerce(x, Family(canon)) IN
    IF store = NoStore \/ y = Fail THEN NoStore ELSE (canon :> y) @@ store
Drive(store, series, scope, k, base) ==
    Seqs!FoldLeft(LAMBDA st, s : Write(st, Canonical(s.channel, scope), Sample(s.points, k, base)), store, series)

\* The store on tick k of a run whose scripts write nothing: the initial values,
\* which are series of one keyframe, then the inputs, then the overrides.
SeededValues(scn, scope, k, base) == Drive(<<>>, scn.initial \o scn.inputs \o scn.overrides, scope, k, base)
\* seed_io_overrides: what is answered to a hardware call at a site.
SeededIo(scn, k, base) ==
    [sel \in {<<io.call, io.site>> : io \in Range(scn.io)} |->
        LET io == CHOOSE o \in Range(scn.io) : <<o.call, o.site>> = sel IN Sample(io.points, k, base)]
=============================================================================
