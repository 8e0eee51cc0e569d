------------------------------- MODULE Library ------------------------------
(***************************************************************************)
(* A script's use of the pure part of the evaluator (the library routes of *)
(* builtins/mod.rs): operators, the numeric libraries, conversions, value  *)
(* objects, tables and the calendar. One call is answered at a time. Two   *)
(* things outlast a call: the time zone and the values that objects set.   *)
(***************************************************************************)
EXTENDS Objects, Tables, UnixTime

LOCAL INSTANCE FiniteSets

CONSTANTS Operands,    \* values of every family
          Bare,        \* calibration cells as text: decimal notations
          Files,       \* [name -> table as its file declares it]
          Props,       \* [name -> what the project says of its axes]
          Points,      \* [name -> coordinates to look up]
          Dates,       \* civil dates and times
          Stamps,      \* timestamps
          Zones,       \* arguments of UnixTime.Timezone
          MaxStored    \* bound on the channels set

\* A timestamp is an M1 Integer, and the fields of a date are.
StampsAreIntegers == Stamps \subseteq {s \in [day : Int, sec : 0..(DaySeconds - 1)] : InRange(s)}
DatesAreIntegers ==
    Dates \subseteq [year : Int, month : Int, day : Int, hour : Int, minute : Int, second : Int]
ASSUME CalendarAssumption == StampsAreIntegers /\ DatesAreIntegers

\* The operands are values of the program: a number is a word of its family or
\* a float that has a representation; and every word is below the largest float.
IsFloat(n) == n \in {NegInf, PosInf, NaN} \/ (IsFinite(n) /\ Short(n) = n)
IsOperand(x) == CASE x.fam \in {"int", "fixed"} -> x.v \in IntMin..IntMax
             [] x.fam = "uint"              -> x.v \in 0..UIntMax
             [] x.fam = "float"             -> IsFloat(x.v)
             [] OTHER                       -> TRUE
OperandsAreProper == \A x \in Operands : x = Val(x.fam, x.v) /\ IsOperand(x)
ASSUME OperandsAssumption == OperandsAreProper /\ UIntMax * Scale <= FloatMax

VARIABLES call, answer, offset, store
libraryVars == <<call, answer, offset, store>>

NoCall == [op |-> "none", on |-> NoPath, args |-> <<>>]
Call(op, on, args) == [op |-> op, on |-> on, args |-> args]

Arithmetical == {"+", "-", "*", "/", "%"}
Comparing    == {"<", ">", "<=", ">=", "eq", "neq"}
Bitwises     == {"&", "|", "^", "<<", ">>"}

\* The table of a name after loading and binding, or NoTable.  Each is loaded from
\* a file of its own: one that is refused takes no other with it.
Completed(t, props) == IF t = NoTable \/ BindingFails(t, props) THEN NoTable ELSE Bound(t, props)
TableOf(name) == Completed(Loaded(Files[name]), Props[name])

LibraryInit == call = NoCall /\ answer = Fail /\ offset = 0 /\ store = <<>>

Answers(c, a) == call' = c /\ answer' = a
Reads(c, a)   == Answers(c, a) /\ UNCHANGED <<offset, store>>

\* Bound: a call that depends on no state is made in the first state only, and
\* one that reads one part of it while the other is untouched.
Pure(c, a)    == offset = 0 /\ store = <<>> /\ Reads(c, a)
InZone(c, a)  == store = <<>> /\ Reads(c, a)
OnStore(c, a) == offset = 0 /\ Reads(c, a)

Operate == \E op \in Arithmetical \cup Comparing \cup Bitwises, l, r \in Operands :
              Pure(Call(op, NoPath, <<l, r>>), Apply(op, l, r))
OperateOnOne == \E op \in {"-", "not", "~"}, x \in Operands :
              Pure(Call("unary", op, <<x>>), Unary(op, x))

CallCalculate ==
    \/ \E m \in {"Max", "Min", "Average", "Modulo"}, l, r \in Operands :
          Pure(Call(m, "Calculate", <<l, r>>), Calculate(m, <<l, r>>))
    \/ \E m \in {"Absolute", "Floor", "Ceiling", "IsNAN", "IsFinite"}, x \in Operands :
          Pure(Call(m, "Calculate", <<x>>), Calculate(m, <<x>>))
    \/ \E l, r \in Operands, bias \in {-Scale, 0, 1, Scale} :
          Pure(Call("Bias", "Calculate", <<l, r>>), Calculate("Bias", <<l, r, Val("float", bias)>>))
CallLimit ==
    \/ \E m \in {"Max", "Min"}, x, bound \in Operands :
          Pure(Call(m, "Limit", <<x, bound>>), Limit(m, <<x, bound>>))
    \/ \E x, hi \in Operands, lo \in {Val("int", -3), Val("float", 1)} :
          Pure(Call("Range", "Limit", <<x, lo, hi>>), Limit("Range", <<x, lo, hi>>))
CallConvert ==
    \E m \in {"ToInteger", "ToUnsignedInteger", "ToFixed7DP"}, x \in Operands :
          Pure(Call(m, "Convert", <<x>>), Convert(m, x))

\* An assignment to a slot of a declared family, and a cell read from its text.
Store == \E x \in Operands, d \in Numeric \cup Enums \cup {"bool", "unknown"} :
          Pure(Call("store", d, <<x>>), Coerce(x, d))
Notate == \/ \E x \in {y \in Operands : y.fam = "fixed"} :
                Pure(Call("print", NoPath, <<x>>), ParseDecimal(PrintDecimal(x)))
          \/ \E d \in Bare : Pure(Call("parse", NoPath, <<d>>), ParseDecimal(d))

ReadObject ==
    \/ \E p \in DOMAIN Symbols : OnStore(Call("read", p, <<>>), Read(p, store))
    \/ \E p \in DOMAIN Symbols : OnStore(Call("GetUnscheduled", p, <<>>), GetUnscheduled(p, store))
    \/ \E p \in DOMAIN Symbols : OnStore(Call("AsInteger", p, <<>>), AsInteger(p, store))
    \/ \E p \in DOMAIN Symbols : OnStore(Call("AsString", p, <<>>), AsString(p, store))
CheckObject ==
    \/ \E p \in DOMAIN Symbols, x \in Operands : Pure(Call("Validate", p, <<x>>), Validate(p, x))
    \/ \E p \in DOMAIN Symbols, x \in Operands : Pure(Call("Constrain", p, <<x>>), Constrain(p, x))
SetObject ==
    \E p \in DOMAIN Symbols, x \in Operands :
       /\ Answers(Call("Set", p, <<x>>), SetValue(p, x))
       /\ store' = IF SetValue(p, x) = Fail THEN store ELSE Set(p, x, store)
       /\ Cardinality(DOMAIN store') <= MaxStored
       /\ offset = 0 /\ UNCHANGED offset

LookUp == \E name \in DOMAIN Files : \E at \in Points[name] :
          Pure(Call("Lookup", name, at), TableLookup(TableOf(name), at, Whole))
GetCell == \E name \in DOMAIN Files, x \in Operands :
          Pure(Call("Get", name, <<x>>), TableGet(TableOf(name), x, Whole))

FromCivil == \E c \in Dates :
    \/ Pure(Call("FromUtc", NoPath, <<c>>), Construct(c, 0))
    \/ InZone(Call("FromLocal", NoPath, <<c>>), Construct(c, offset))
\* A satellite writes the date with two digits each, from_gps takes no negative
\* numbers, and the minutes and seconds are those of a clock, 60 and 61 included.
SatelliteDate(c) == /\ c.year \in 1970..2069 /\ c.month \in (-1)..98 /\ c.day \in 0..99
                    /\ c.hour \in Nat /\ c.minute \in 0..59 /\ c.second \in 0..61
FromSatellite == \E c \in {d \in Dates : SatelliteDate(d)} :
    LET date == c.day * 10000 + (c.month + 1) * 100 + (c.year % 100)
        secs == c.hour * 3600 + c.minute * 60 + c.second
    IN  Pure(Call("FromGPS", NoPath, <<c>>), FromGPS(date, secs))
ToCivil == \E s \in Stamps :
    \/ Pure(Call("ToUtc", NoPath, <<s>>), Decompose(s, 0))
    \/ InZone(Call("ToLocal", NoPath, <<s>>), Decompose(s, offset))
\* set_timezone: a refused offset leaves the old one.
SetTimezone == \E n \in Zones :
    /\ Answers(Call("Timezone", NoPath, <<n>>), IF TimezoneSeconds(n) = NoOffset THEN Fail ELSE True)
    /\ offset' = IF TimezoneSeconds(n) = NoOffset THEN offset ELSE TimezoneSeconds(n)
    /\ store = <<>> /\ UNCHANGED store

Return == call # NoCall /\ call' = NoCall /\ answer' = Fail /\ UNCHANGED <<offset, store>>

Ask == /\ call = NoCall
       /\ \/ Operate \/ OperateOnOne \/ CallCalculate \/ CallLimit \/ CallConvert \/ Store \/ Notate
          \/ ReadObject \/ CheckObject \/ SetObject \/ LookUp \/ GetCell
          \/ FromCivil \/ FromSatellite \/ ToCivil \/ SetTimezone
LibraryNext == Ask \/ Return
LibrarySpec == LibraryInit /\ [][LibraryNext]_libraryVars
-----------------------------------------------------------------------------
(* Properties *)

Is(op) == call.op = op
Arg(i) == call.args[i]
Half(n) == Quotient(n, 2)

\* A quotient and its remainder make up the dividend again in every integer
\* family, the least integer divided by -1 included, and an average is the exact
\* mean of its operands, a half dropped toward zero: no intermediate of the
\* shorter ways the code computes them leaves the word. A mean of floats, rounded
\* several times, still lies between them.
WordsAreExact ==
    /\ Is("/") /\ answer.fam \in Integral =>
          Apply("+", Apply("*", answer, Arg(2)), Apply("%", Arg(1), Arg(2)))
              = Wrapped(answer.fam, Arg(1).v)
    /\ Is("Average") /\ answer.fam \in Integral =>
          answer.v = Half(Operand(answer.fam, Arg(1)) + Operand(answer.fam, Arg(2)))
    /\ Is("Average") /\ answer.fam = "float" /\ answer.v # NaN =>
          /\ Smaller(Arg(1), Arg(2)).v <= answer.v
          /\ answer.v <= Larger(Arg(1), Arg(2)).v

\* The comparisons of two values never contradict each other: exactly one of
\* less, equal and greater holds unless one of them is no number, and neither
\* order nor equality changes when the operands are swapped.
OrderIsCoherent ==
    Is("<") /\ answer # Fail =>
        LET l == Arg(1)
            r == Arg(2)
            holds == {op \in {"<", "eq", ">"} : Apply(op, l, r) = True}
        IN  /\ IF IsNaN(l) \/ IsNaN(r) THEN holds = {} ELSE \E op \in {"<", "eq", ">"} : holds = {op}
            /\ Apply(">", r, l) = answer
            /\ Apply("eq", l, r) = Apply("eq", r, l)
            /\ (Apply("<=", l, r) = True) = (holds \cap {"<", "eq"} # {})
            /\ (Apply(">=", l, r) = True) = (holds \cap {"eq", ">"} # {})

\* A value changes its family only in the ways the declarations allow: storing
\* it once more changes nothing, a word keeps its bits through both integer
\* families, a conversion to an integer is the nearest one there is, the same on
\* both sides of zero, and what a fixed-point value prints reads back as that value.
ConversionsHold ==
    /\ Is("store") => Coerce(answer, call.on) = answer
    /\ Is("store") /\ {Arg(1).fam, call.on} \subseteq Integral =>
          Coerce(answer, Arg(1).fam) = Arg(1)
    /\ Is("store") /\ call.on \in Enums /\ answer # Fail /\ Arg(1).fam \in Numeric =>
          EnumInt(answer).v * Scale = Exact(Arg(1))
    /\ Is("ToInteger") /\ answer # Fail =>
          \A n \in IntMin..IntMax :
             Magnitude(answer.v * Scale - Exact(Arg(1))) <= Magnitude(n * Scale - Exact(Arg(1)))
    /\ Is("ToUnsignedInteger") /\ answer # Fail =>
          \A n \in 0..UIntMax :
             Magnitude(answer.v * Scale - Exact(Arg(1))) <= Magnitude(n * Scale - Exact(Arg(1)))
    /\ Is("ToInteger") /\ Arg(1).fam = "float" /\ answer # Fail /\ answer.v > IntMin =>
          ToInteger(Unary("-", Arg(1))).v \in {-answer.v, IntMin}
    /\ Is("print") => answer = Arg(1)

\* Constrain answers the nearest thing Validate accepts, in the family of its
\* argument, and leaves alone exactly what is accepted already. A value that Set
\* stored is read back through the same object and is accepted by it; a value
\* that is no number is passed on and never accepted. What is accepted of the
\* exact families is what lies in the range as declared, though its bounds were
\* brought to the family first. An unscheduled read differs from a plain one in nothing but scheduling.
ObjectsAgree ==
    /\ Is("Constrain") /\ answer # Fail /\ Arg(1).fam \in Numeric =>
          /\ answer.fam = Arg(1).fam
          /\ IsNaN(answer) \/ Validate(call.on, answer) = True
          /\ ~IsNaN(answer) => (answer = Arg(1)) = (Validate(call.on, Arg(1)) = True)
    /\ Is("Set") /\ answer # Fail =>
          /\ Read(call.on, store) = answer
          /\ answer.fam \in Numeric /\ ~IsNaN(answer) => Validate(call.on, answer) = True
    /\ Is("Validate") /\ answer # Fail /\ Arg(1).fam # "float" =>
          LET rule == RuleFor(call.on, NumericPath(call.on))
              n    == 2 * Exact(Arg(1))
          IN  (answer = True) = (rule.kind # "none" => rule.min <= n /\ (rule.kind = "minmax" => n <= rule.max))
    /\ Is("GetUnscheduled") /\ answer # Fail => answer = Read(call.on, store)

\* The cell a file declares for a site, wherever in the file it stands.
DeclaredAt(name, site) ==
    Files[name].body[CHOOSE i \in DOMAIN Files[name].body : Files[name].body[i].site = site].v
SiteOf(name, k, n) ==
    LET cells == Files[name].axes[k].cells
    IN  cells[CHOOSE i \in DOMAIN cells : cells[i].site[k] = n].v
IsSite(name, k, x) ==
    \E n \in 0..(Len(Files[name].axes[k].cells) - 1) :
       IF x.fam \in Numeric THEN Exact(SiteOf(name, k, n)) = Exact(x) ELSE SiteOf(name, k, n) = EnumInt(x).v

\* The lookup of the call with another coordinate on axis k, and whether the
\* answer is linear between two coordinates of it.
Answer(k, x) == TableLookup(TableOf(call.on), [call.args EXCEPT ![k] = x], Whole)
IsLinear(k, lo, hi, a, b) ==
    a # Fail /\ b # Fail =>
       (answer.v - a.v) * (Exact(hi) - Exact(lo)) = (b.v - a.v) * (Exact(Arg(k)) - Exact(lo))
Linear(k, lo, hi) == IsLinear(k, lo, hi, Answer(k, lo), Answer(k, hi))

\* A lookup of a table whose cells declare their sites answers, at a site, the
\* cell declared for it, in whatever order the file lists them; between two
\* neighbouring sites of an axis it is linear in that coordinate; and past an end
\* it is the value at the end, unless the axis extrapolates there.
TableFollowsCells ==
    Is("Lookup") /\ answer.fam \in Numeric /\ TableOf(call.on) # NoTable
        /\ ~Unsited(Files[call.on].body) =>
      LET t == TableOf(call.on)
      IN  /\ (\A k \in DOMAIN t.axes : IsSite(call.on, k, Arg(k))) =>
                \E place \in [1..3 -> 0..3] :
                   /\ \A k \in DOMAIN t.axes : place[k] < Len(t.axes[k].values)
                   /\ \A k \in (1..3) \ DOMAIN t.axes : place[k] = 0
                   /\ \A k \in DOMAIN t.axes :
                         LET s == SiteOf(call.on, k, place[k]) IN
                         IF Arg(k).fam \in Numeric THEN Exact(s) = Exact(Arg(k)) ELSE s = EnumInt(Arg(k)).v
                   /\ answer = DeclaredAt(call.on, place)
          /\ \A k \in DOMAIN t.axes : t.axes[k].enum = "none" =>
                LET last == Len(t.axes[k].values) - 1
                    s(n) == SiteOf(call.on, k, n)
                IN  /\ \A n \in 0..(last - 1) :
                          Exact(s(n)) <= Exact(Arg(k)) /\ Exact(Arg(k)) <= Exact(s(n + 1))
                             => Linear(k, s(n), s(n + 1))
                    /\ Exact(Arg(k)) < Exact(s(0)) =>
                          IF t.axes[k].extra \in {"below", "both"} /\ last > 0
                          THEN Linear(k, s(0), s(1)) ELSE answer = Answer(k, s(0))
                    /\ Exact(Arg(k)) > Exact(s(last)) =>
                          IF t.axes[k].extra \in {"above", "both"} /\ last > 0
                          THEN Linear(k, s(last - 1), s(last)) ELSE answer = Answer(k, s(last))

\* Dates and timestamps are inverse to each other at every offset from UTC that
\* Timezone accepts; days follow each other through months, years and weeks
\* without a gap; and a timestamp of a date is refused only outside the range of
\* M1 integers or of the calendar.
CalendarIsInvertible ==
    LET shift == IF Is("FromLocal") \/ Is("ToLocal") THEN offset ELSE 0
        Fields(c) == <<c.year, c.month, c.day, c.hour, c.minute, c.second>>
    IN  /\ (Is("FromUtc") \/ Is("FromLocal") \/ Is("FromGPS")) /\ answer # NoStamp /\ Arg(1).second < 60 =>
              Fields(Decompose(answer, shift)) = Fields(Arg(1))
        /\ (Is("FromUtc") \/ Is("FromLocal")) /\ answer # NoStamp /\ Arg(1).second >= 60 =>
              LET base == Construct([Arg(1) EXCEPT !.second = 59], shift)
              IN  answer = Stamp(base.day, base.sec + Arg(1).second - 59)
        /\ (Is("ToUtc") \/ Is("ToLocal")) /\ answer.year \in 1970..2038 =>
              Construct(answer, shift) = Arg(1)
        /\ (Is("ToUtc") \/ Is("ToLocal")) =>
              LET next == Decompose(Stamp(Arg(1).day + 1, Arg(1).sec), shift)
              IN  /\ next.weekday = (answer.weekday + 1) % 7
                  /\ \/ next.year = answer.year /\ next.yearDay = answer.yearDay + 1
                     \/ /\ next.year = answer.year + 1 /\ next.yearDay = 0
                        /\ <<answer.month, answer.day>> = <<11, 31>>
                  /\ \/ next.month = answer.month /\ next.day = answer.day + 1
                     \/ next.month = (answer.month + 1) % 12 /\ next.day = 1
=============================================================================
