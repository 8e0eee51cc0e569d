------------------------------ MODULE MCExecutor ------------------------------
(* Two scheduled scripts, which call a function with a signature and one       *)
(* without; their bodies are drawn from the statements below.                  *)
EXTENDS Executor

MCEnumValues == [mode |-> <<0, 2>>, gear |-> <<1, 0>>]
MCMemberNames == [mode |-> <<"off", "on">>, gear |-> <<"on", "up">>, bool |-> <<"false", "true">>]

N(x)       == [name |-> x, hole |-> "none"]
Name(x)    == [k |-> "name", path |-> N(x)]
Lit(v)     == [k |-> "lit", v |-> v]
Int1(n)    == Lit(Val("int", n))
Bin(op, l, r)  == [k |-> "binary", op |-> op, l |-> l, r |-> r]
Logic(op, l, r) == [k |-> "logical", op |-> op, l |-> l, r |-> r]
CallOf(f, args) == [k |-> "call", fn |-> f, args |-> args, at |-> 0, holes |-> <<>>]
Operator(at, holes) == [k |-> "call", fn |-> "operator", args |-> <<>>, at |-> at, holes |-> holes]

Set(x, op, e) == [k |-> "assign", path |-> N(x), op |-> op, e |-> e]
SetHole(x, e) == [k |-> "assign", path |-> [name |-> x, hole |-> "i"], op |-> "=", e |-> e]
Local(k, x, fam, init) == [k |-> k, path |-> N(x), fam |-> fam, init |-> init]
If(c, a, b)   == [k |-> "if", c |-> c, then |-> a, else |-> b]
Expand(var, lo, hi, from, body) ==
    [k |-> "expand", var |-> var, lo |-> lo, hi |-> hi, from |-> from, body |-> body]
When(e, clauses) == [k |-> "when", e |-> e, clauses |-> clauses]
Clause(p, body)  == [pattern |-> p, body |-> body]
Member(x)        == [k |-> "member", name |-> x]

MCChannels == [key \in {<<"y", Plain>>, <<"s", Plain>>, <<"u", Plain>>, <<"b", Plain>>, <<"z", 0>>, <<"z", 1>>} |->
    CASE key[1] = "y" -> "int" [] key[1] = "s" -> "mode" [] key[1] = "b" -> "bool" [] key[1] = "u" -> "unknown"
      [] OTHER -> "float"]
MCSignatures ==
    [main  |-> [declared |-> FALSE, params |-> <<>>, returns |-> "unknown"],
     other |-> [declared |-> FALSE, params |-> <<>>, returns |-> "int"],
     f     |-> [declared |-> TRUE, params |-> <<[name |-> "a", fam |-> "int"]>>, returns |-> "int"],
     g     |-> [declared |-> FALSE, params |-> <<>>, returns |-> "inferred"]]

Float1 == Lit(Val("float", 2))
MainStatements ==
    {Local("local", "x", "int", <<Int1(1)>>),
     Local("static", "x", "unknown", <<>>),
     Set("x", "+", Int1(1)),
     Set("y", "=", CallOf("f", <<Name("x")>>)),
     Set("y", "+", CallOf("f", <<Float1>>)),
     Set("u", "=", CallOf("g", <<>>)),
     [k |-> "expr", e |-> CallOf("f", <<>>)],
     [k |-> "expr", e |-> CallOf("g", <<>>)],
     Set("Out", "=", Name("y")),
     If(Logic("or", Name("b"), Logic("and", Lit(True), CallOf("g", <<>>))),
        <<Set("s", "=", Int1(2))>>, <<[k |-> "block", body |-> <<Set("u", "=", Float1)>>]>>),
     Expand("i", Int1(0), Lit(Val("uint", 1)), 10, <<SetHole("z", Operator(16, <<"i">>))>>),
     Expand("i", Int1(1), Int1(0), 30,
            <<Set("y", "+", Name("i")), Expand("i", Int1(1), Int1(1), 40, <<SetHole("z", Operator(46, <<"i">>))>>)>>),
     When(Name("s"), <<Clause(Member("on"), <<Set("y", "=", Int1(3))>>), Clause(Member("off"), <<>>)>>),
     When(Name("y"), <<Clause(Int1(1), <<Set("b", "=", [k |-> "unary", op |-> "not", e |-> Name("b")])>>),
                       Clause(Lit(True), <<>>)>>)}
FBodies ==
    {<<Local("local", "x", "float", <<Name("a")>>), Set("Out", "=", Bin("+", Name("a"), Int1(1)))>>,
     <<Set("Out", "=", CallOf("f", <<Name("a")>>))>>,
     <<Local("static", "x", "int", <<Int1(0)>>), Set("x", "+", Name("a")), Set("Out", "=", Name("x"))>>,
     <<Set("y", "=", Int1(2)), Set("Out", "=", Bin("/", Name("y"), Bin("-", Name("a"), Int1(1))))>>}
GBodies ==
    {<<>>,
     <<Set("Out", "=", [k |-> "ternary", c |-> Bin("<", Name("y"), Int1(2)), l |-> Int1(1), r |-> Operator(6, <<>>)]),
       Set("u", "=", Name("x"))>>,
     <<Set("Out", "=", Name("b"))>>}

MCPrograms ==
    {[main |-> <<m, n>>, other |-> <<Set("Out", "=", Operator(6, <<>>)), Set("u", "=", Name("x"))>>, f |-> f, g |-> g] :
        m, n \in MainStatements, f \in FBodies, g \in GBodies}

(* The nodes of these programs.                                                *)
Listed(list) == {list[i] : i \in DOMAIN list}
Children(n) ==
    CASE n.k = "unary"                   -> {n.e}
      [] n.k \in {"binary", "logical"}   -> {n.l, n.r}
      [] n.k = "ternary"                 -> {n.c, n.l, n.r}
      [] n.k = "call"                    -> Listed(n.args)
      [] n.k \in {"assign", "expr"}      -> {n.e}
      [] n.k = "if"                      -> {n.c} \cup Listed(n.then) \cup Listed(n.else)
      [] n.k = "when"                    -> {n.e} \cup UNION {{c.pattern} \cup Listed(c.body) : c \in Listed(n.clauses)}
      [] n.k = "expand"                  -> {n.lo, n.hi} \cup Listed(n.body)
      [] n.k = "block"                   -> Listed(n.body)
      [] n.k \in {"local", "static"}     -> Listed(n.init)
      [] OTHER                           -> {}
RECURSIVE Parts(_)
Parts(n) == {n} \cup UNION {Parts(c) : c \in Children(n)}
MCNodes == UNION {Parts(n) : n \in UNION {Listed(p[f]) : p \in MCPrograms, f \in {"main", "other", "f", "g"}}}
MCStatements == {n \in MCNodes : n.k \in {"assign", "expr", "if", "when", "expand", "block", "local", "static"}}
MCExpressions == MCNodes \ MCStatements
=============================================================================
