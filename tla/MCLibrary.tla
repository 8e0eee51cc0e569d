------------------------------ MODULE MCLibrary -----------------------------
(* An instance of Offline and with it of Library: words of six bits,        *)
(* quarters as the unit of numbers, half a millihertz as that of rates.     *)
EXTENDS Offline, TLC

MCEnumValues == [mode |-> <<0, 3, -2>>, empty |-> <<>>]

MCOperands ==
    {Val("int", n)  : n \in {IntMin, IntMin + 1, -3, -1, 0, 1, 2, 7, IntMax}}
    \cup {Val("uint", n)  : n \in {0, 1, 3, IntMax, IntMax + 1, UIntMax}}
    \cup {Val("fixed", n) : n \in {IntMin, -6, 0, 1, 10, IntMax}}
    \cup {Val("float", n) : n \in {NegInf, -FloatMax, -6, -1, 0, 2, 4, 12, 29, PosInf, NaN}}
    \cup {Bool(TRUE), Val("mode", 1), Val("mode", 2)}

MCBare == {Decimal(neg, d, a, e) : neg \in BOOLEAN, d \in {0, 1, 6, 13, 40}, a \in 0..3, e \in {-2, 0, 3}}

Sym(kind, fam, default, child) ==
    [kind |-> kind, fam |-> fam, default |-> default, child |-> child, static |-> NoValue]
MCSymbols ==
    [speed   |-> Sym("channel", "int", NoPath, NoPath),
     ratio   |-> Sym("channel", "float", NoPath, NoPath),
     count   |-> Sym("channel", "uint", NoPath, NoPath),
     level   |-> Sym("channel", "fixed", NoPath, NoPath),
     state   |-> Sym("channel", "mode", NoPath, NoPath),
     gain    |-> [Sym("parameter", "float", NoPath, NoPath) EXCEPT !.static = Val("int", 2)],
     sensor  |-> Sym("group", "unknown", "ratio", "speed"),
     box     |-> Sym("group", "unknown", NoPath, "count"),
     tuned   |-> Sym("group", "unknown", "gain", "level"),
     mixed   |-> Sym("group", "unknown", "state", "level"),
     ring    |-> Sym("group", "unknown", "ring", "speed"),
     switch  |-> Sym("object", "mode", NoPath, "speed"),
     map     |-> Sym("table", "unknown", NoPath, "ratio")]

None     == [kind |-> "none", min |-> 0, max |-> 0]
Range2(lo, hi) == [kind |-> "minmax", min |-> lo, max |-> hi]
MCRules == [p \in DOMAIN MCSymbols |->
    CASE p = "speed"  -> Range2(-13, 21)
      [] p = "ratio"  -> Range2(-13, 4000)
      [] p = "count"  -> [None EXCEPT !.kind = "positive"]
      [] p = "level"  -> Range2(1, 6)
      [] p = "sensor" -> Range2(1, 21)
      [] p = "switch" -> [None EXCEPT !.kind = "unsupported"]
      [] OTHER        -> None]

Cell(site, v) == [site |-> site, v |-> v]
Axis(enumerated, cells) == [enumerated |-> enumerated, cells |-> cells]
At(x, y) == <<x, y, 0>>
Ints(s) == [i \in DOMAIN s |-> Cell(NoSite, Val("int", s[i]))]
Body(f, rows) ==   \* rows[y][x], listed from the last site to the first
    LET w == Len(rows[1])
        n == w * Len(rows)
    IN  [i \in 1..n |-> LET c == n - i IN Cell(At(c % w, c \div w), Val(f, rows[(c \div w) + 1][(c % w) + 1]))]

XAxis == Axis(FALSE, <<Cell(At(1, 0), Val("int", 2)), Cell(At(0, 0), Val("int", -2)), Cell(At(2, 0), Val("int", 4))>>)
YAxis == Axis(FALSE, <<Cell(At(0, 0), Val("float", 0)), Cell(At(0, 1), Val("float", 16))>>)
EAxis == Axis(TRUE,  <<Cell(At(0, 0), 3), Cell(At(0, 1), 0)>>)

MCFiles ==
    [line   |-> [axes |-> <<XAxis>>, body |-> Body("int", <<<<6, 0, 8>>>>)],
     plane  |-> [axes |-> <<XAxis, YAxis>>, body |-> Body("float", <<<<0, 32, 16>>, <<64, 0, 16>>>>)],
     modal  |-> [axes |-> <<XAxis, EAxis>>, body |-> Body("fixed", <<<<0, 6, 4>>, <<-3, 0, 1>>>>)],
     alone  |-> [axes |-> <<Axis(FALSE, <<Cell(At(0, 0), Val("fixed", 4))>>)>>, body |-> Body("uint", <<<<5>>>>)],
     bare   |-> [axes |-> <<Axis(FALSE, Ints(<<0, 2>>))>>, body |-> Ints(<<1, 9>>)],
     falls  |-> [axes |-> <<Axis(FALSE, Ints(<<2, 0>>))>>, body |-> Ints(<<1, 9>>)],
     twice  |-> [axes |-> <<XAxis>>, body |-> [Body("int", <<<<6, 0, 8>>>>) EXCEPT ![1].site = At(0, 0)]],
     foreign |-> [axes |-> <<Axis(TRUE, <<Cell(NoSite, 1)>>)>>, body |-> Ints(<<7>>)]]

Prop(extra, e, open) == [extra |-> extra, enum |-> e, open |-> open]
MCProps == [n \in DOMAIN MCFiles |->
    CASE n = "plane"   -> <<Prop("both", "none", FALSE), Prop("above", "none", FALSE)>>
      [] n = "modal"   -> <<Prop("below", "none", FALSE), Prop("clamp", "mode", FALSE)>>
      [] n = "foreign" -> <<Prop("clamp", "mode", FALSE)>>
      [] OTHER         -> <<Prop("clamp", "none", FALSE)>>]

Xs == {Val("int", n) : n \in {-3, -2, -1, 0, 1, 2, 3, 4, 6}} \cup {Val("float", n) : n \in {-2, 9, NaN}}
Ys == {Val("float", n) : n \in {-4, 0, 4, 16, 24}}
Es == {Val("mode", n) : n \in 1..3}
MCPoints == [n \in DOMAIN MCFiles |->
    CASE n = "plane" -> {<<x, y>> : x \in Xs, y \in Ys}
      [] n = "modal" -> {<<x, y>> : x \in Xs, y \in Es}
      [] n = "foreign" -> {<<e>> : e \in Es}
      [] OTHER       -> {<<x>> : x \in Xs} \cup {<<Bool(TRUE)>>, <<Val("int", 0), Val("int", 0)>>}]

Civil(y, m, d, h, mi, s) == [year |-> y, month |-> m, day |-> d, hour |-> h, minute |-> mi, second |-> s]
Days == {<<1970, 0, 1>>, <<1972, 1, 29>>, <<1973, 1, 29>>, <<1999, 11, 31>>, <<2000, 1, 29>>, <<2000, 2, 1>>,
         <<2001, 10, 31>>, <<2023, 6, 31>>, <<2024, 11, 30>>, <<2038, 0, 19>>, <<2038, 0, 20>>, <<2039, 0, 1>>}
MCDates == {Civil(d[1], d[2], d[3], t[1], t[2], t[3]) :
                d \in Days, t \in {<<0, 0, 0>>, <<3, 14, 7>>, <<23, 59, 59>>, <<23, 59, 61>>, <<24, 0, 0>>}}
MCStamps == {s \in {Stamp(d, s) : d \in {-24856, -1, 0, 58, 59, 364, 365, 729, 788, 789, 1154, 10956, 11015, 11016, 11322, 24854},
                                  s \in {74752, 0, 86399}} : InRange(s)}
MCZones == {-12, 14, 15, -1245, 530, 60, 1446}

-----------------------------------------------------------------------------
(* Files. The project has a group CF and, beside it, a channel Root.Dash.X. *)

In   == <<"Root", "CF", "In">>
Out  == <<"Root", "CF", "Out">>
Gear == <<"Root", "CF", "Gear">>
Mode == <<"Root", "CF", "Sub", "Mode">>
Dash == <<"Root", "Dash", "X">>
Alone == <<"X">>
Symbols2 == {In, Out, Gear, Mode, Dash}

Rooted  == [n \in Symbols2 \cup {Tail(c) : c \in Symbols2} |-> IF n[1] = "Root" THEN n ELSE <<"Root">> \o n]
MCCanonOf == [none |-> Rooted,
              group |-> [n \in {Tail(Tail(c)) : c \in Symbols2 \ {Dash}} |-> <<"Root", "CF">> \o n] @@ Rooted]
MCFamilyOf == In :> "float" @@ Out :> "float" @@ Gear :> "uint" @@ Mode :> "mode" @@ Dash :> "float"

MCSchedules == {<<>>} \cup {<<r>> : r \in {0, 3, 4, 10}}
               \cup {<<r, s>> : r, s \in {3, 4, 8, 10, 12}} \cup {<<4, 6, 10>>, <<8, 12, 18>>, <<8, 14, 18>>, <<20, 28, 26>>}
MCBases     == {0, 3, 8, 12, 20, 120}
MCDurations == {0, 100000, 250000, 333333, 1000000}

Num(n) == [k |-> "num", v |-> n]
Gap    == [k |-> "blank", v |-> 0]
Odd(n) == [k |-> "nonfinite", v |-> n]
Txt    == [k |-> "text", v |-> 0]
Table(names, rows) == [header |-> <<<<"time">>>> \o names, rows |-> rows]
NoCsv == Table(<<>>, <<>>)

Wire(k, v) == [kind |-> k, v |-> v]
Const(c, w)  == [channel |-> c, const |-> <<w>>, series |-> <<>>]
Steps(c, ps) == [channel |-> c, const |-> <<>>, series |-> <<ps>>]
Pt(t, w) == [t |-> t, x |-> w]
Io(method, script, at, w) == [call |-> method, script |-> script, offset |-> at, const |-> <<w>>, series |-> <<>>]
Rx(t, bus, id, ext) == [t |-> t, bus |-> bus, id |-> id, extended |-> ext, bytes |-> <<t % 7>>]
Chunk(t, port, b) == [t |-> t, port |-> port, bytes |-> <<b>>]

\* A base tick of 250 s, one of 100 s.
Raw == [mode |-> "whole-project", target |-> <<>>, base |-> 0, duration |-> 1000000, rates |-> <<8>>,
        initial |-> <<>>, inputs |-> <<>>, overrides |-> <<>>, io |-> <<>>, serial |-> <<>>, can |-> <<>>, csv |-> NoCsv]
Driven == [Raw EXCEPT
    !.initial = <<[channel |-> Out, x |-> Wire("float", 6)], [channel |-> In, x |-> Wire("int", 3)]>>,
    !.inputs  = <<Steps(In, <<Pt(0, Wire("int", 1)), Pt(250000, Wire("float", 7)), Pt(600000, Wire("nonfinite", NaN))>>),
                  Const(Tail(Mode), Wire("int", 3)), Steps(Gear, <<Pt(300000, Wire("typed", {<<"uint", 40>>}))>>)>>,
    !.io  = <<Io("GetFloat", <<>>, <<>>, Wire("float", 4)), Io("GetFloat", <<"a">>, <<2>>, Wire("int", 5)),
              [Io("Get", <<>>, <<>>, Wire("bool", 1)) EXCEPT !.const = <<>>,
                 !.series = <<<<Pt(250000, Wire("bool", 0)), Pt(500000, Wire("bool", 1))>>>>]>>,
    !.can = <<Rx(500, 0, 2047, FALSE), Rx(0, 2, 2048, TRUE), Rx(500, 1, 0, FALSE)>>,
    !.serial = <<Chunk(9, 1, 255), Chunk(3, 0, 0), Chunk(9, 0, 7)>>]
Listing == Table(<<In, Out>>, <<<<Num(0), Num(10), Gap>>, <<Num(250000), Gap, Num(5)>>, <<>>,
                                <<Num(500000), Odd(PosInf), Num(FloatMax)>>, <<Num(750000), Num(2)>>>>)
Bad(field, x) == [Driven EXCEPT ![field] = x]

MCScenarios ==
    [driven   |-> Driven,
     listed   |-> [Driven EXCEPT !.csv = Listing],
     pinned   |-> [Driven EXCEPT !.csv = Listing, !.overrides = <<Steps(Tail(In), <<Pt(0, Wire("float", 2)), Pt(500000, Wire("int", 9))>>)>>],
     respelt  |-> [Driven EXCEPT !.csv = Table(<<Tail(In), Gear>>, <<<<Num(0), Num(12), Num(8)>>>>)],
     faster   |-> [Raw EXCEPT !.base = 20, !.rates = <<20, 10>>, !.csv = Listing],
     target   |-> [Raw EXCEPT !.mode = "function", !.target = <<"Update">>, !.base = 8, !.inputs = <<Const(Out, Wire("bool", 1))>>],
     endless  |-> [Raw EXCEPT !.mode = "cone", !.base = 8],
     modeless |-> Bad("mode", "all"), early |-> Bad("duration", -1), offgrid |-> [Driven EXCEPT !.base = 12],
     wide     |-> Bad("inputs", <<Const(In, Wire("int", IntMax + 1))>>),
     double   |-> Bad("inputs", <<[Const(In, Wire("int", 1)) EXCEPT !.series = <<<<>>>>]>>),
     vacant   |-> Bad("overrides", <<Steps(In, <<>>)>>),
     typed    |-> Bad("initial", <<[channel |-> In, x |-> Wire("typed", {<<"int", 1>>, <<"uint", 1>>})]>>),
     sited    |-> Bad("io", <<Io("Get", <<"a">>, <<>>, Wire("int", 5))>>),
     twice    |-> Bad("io", <<Io("Get", <<>>, <<>>, Wire("int", 5)), Io("Get", <<>>, <<>>, Wire("int", 6))>>),
     standard |-> Bad("can", <<Rx(0, 0, 2048, FALSE)>>), port |-> Bad("serial", <<Chunk(0, -1, 7)>>),
     untimed  |-> [Raw EXCEPT !.csv = Table(<<In>>, <<<<Num(0), Num(1)>>, <<Num(0), Num(2)>>>>)],
     shifted  |-> [Raw EXCEPT !.csv = Table(<<In>>, <<<<Num(0), Num(1), Num(1)>>>>)],
     named    |-> [Raw EXCEPT !.csv = Table(<<In, In>>, <<>>)],
     lettered |-> [Raw EXCEPT !.csv = Table(<<In>>, <<<<Num(0), Txt>>>>)],
     units    |-> [Raw EXCEPT !.csv = Table(<<In>>, <<<<Txt, Txt>>, <<Num(0), Num(1)>>>>)]]

Csv(t) == [kind |-> "csv", header |-> t.header, rows |-> t.rows]
Units  == <<Txt, Txt, Txt>>
Block(next, name, data) ==
    [next |-> next, ty |-> 6, size |-> 4, count |-> Len(data), rate |-> 1, offset |-> 0, mul |-> 1, scale |-> 1, dec |-> 0,
     name |-> name, data |-> data]
Ld(meta, blocks) == [kind |-> "ld", meta |-> meta, blocks |-> blocks]
Blocks == 4 :> Block(8, In, <<3, -2, 31, 5>>) @@ 8 :> [Block(6, Alone, <<9, -4, 12>>) EXCEPT !.ty = 7, !.scale = 2, !.dec = -1]
          @@ 6 :> [Block(0, Gear, <<4, 7, -1>>) EXCEPT !.rate = 2]
Recorded == Ld(4, Blocks)

Spec1(c, k, v) == [channel |-> c, rhs |-> [k |-> k, v |-> v]]
Expr(c, op, of, by) == [channel |-> c, rhs |-> [k |-> "expr", op |-> op, of |-> of, by |-> by]]
Fn(of, to, by, every) == [of |-> of, to |-> to, by |-> Val("int", by), every |-> every]
MCCones == [short |-> <<Fn(In, Out, 1, 1)>>,
            long  |-> <<Fn(In, Out, 1, 1), Fn(Gear, Mode, 0, 1), Fn(Out, Dash, 2, 2)>>,
            void  |-> <<>>]

\* One tick a second.
Rep(file, overrides, cone) == [file |-> file, overrides |-> overrides, base |-> 2000, duration |-> 4000, cone |-> cone]
Drift == Csv(Table(<<Tail(In), Out>>, <<Units, <<Num(0), Num(3), Num(8)>>, <<Num(1000), Num(9)>>, <<Num(2500), Odd(NaN), Num(1)>>>>))
Both  == Csv(Table(<<In, Gear>>, <<<<Num(0), Num(3), Num(8)>>, <<Num(2000), Num(4), Num(12)>>>>))
MCReplays ==
    [plain   |-> Rep(Drift, <<>>, "short"),
     raised  |-> Rep(Drift, <<Expr(In, "*", In, Val("int", 2))>>, "short"),
     pinned  |-> Rep(Drift, <<Spec1(In, "integer", 5)>>, "long"),
     crossed |-> Rep(Recorded, <<Expr(In, "+", Alone, Val("int", 1)), Expr(Alone, "*", In, Val("int", 2))>>, "short"),
     chained |-> Rep(Recorded, <<Spec1(Tail(In), "real", 10)>>, "long"),
     whole   |-> [Rep(Recorded, <<>>, "long") EXCEPT !.duration = 0],
     typed   |-> Rep(Both, <<>>, "short"),
     unread  |-> Rep(Drift, <<Spec1(Dash, "bool", 1)>>, "short"),
     scoped  |-> Rep(Recorded, <<Spec1(<<"In">>, "integer", 1)>>, "short"),
     wild    |-> Rep(Recorded, <<Spec1(In, "integer", 99)>>, "short"),
     garbled |-> Rep(Recorded, <<Spec1(In, "unparsable", 0)>>, "short"),
     unsaid  |-> Rep(Recorded, <<Spec1(In, "blank", 0)>>, "short"),
     unknown |-> Rep(Recorded, <<Expr(In, "+", Out, Val("int", 1))>>, "short"),
     ring    |-> Rep(Ld(4, [Blocks EXCEPT ![6].next = 8]), <<>>, "void"),
     torn    |-> Rep(Ld(4, [Blocks EXCEPT ![6].next = 5]), <<>>, "void"),
     strange |-> Rep(Ld(4, [Blocks EXCEPT ![8].size = 2]), <<>>, "void"),
     partial |-> Rep(Ld(4, [Blocks EXCEPT ![6].count = 4]), <<>>, "void"),
     muted   |-> Rep(Ld(4, [Blocks EXCEPT ![6].rate = 0]), <<>>, "void"),
     empty   |-> Rep(Ld(4, [Blocks EXCEPT ![4].count = 0]), <<>>, "void")]
=============================================================================
