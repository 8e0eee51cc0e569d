------------------------------ MODULE Reports -------------------------------
(***************************************************************************)
(* What a replay of a log is compared with: the overrides as they are      *)
(* written (counterfactual.rs), the values a replay gives the channels of  *)
(* the log, the overrides and the cone (runner.rs), and the difference of  *)
(* that trace from the log (diff.rs).                                      *)
(*                                                                         *)
(* A function of the project is [of, to, by, every]: every so many ticks   *)
(* it assigns channel `to` the value of channel `of` plus `by`. How the    *)
(* cone is collected and ordered in general is Counterfactual's subject.   *)
(***************************************************************************)
EXTENDS Inputs

LOCAL INSTANCE FiniteSetsExt
LOCAL Seqs == INSTANCE SequencesExt
LOCAL INSTANCE Functions
LOCAL INSTANCE TLC

CONSTANT Cones   \* [name of a project -> its functions, a writer before its readers]

-----------------------------------------------------------------------------
(* Overrides. A specification is [channel, rhs], the right-hand side [k, ..] *)

\* parse: a literal of the language, or an expression, which is read later.
ParseOverride(spec) ==
    LET rhs  == spec.rhs
        x    == CASE rhs.k = "bool"    -> Val("bool", rhs.v)
                  [] rhs.k = "integer" -> WireScalar("int", rhs.v)
                  [] rhs.k = "real"    -> WireScalar("float", rhs.v)
                  [] OTHER             -> Missing
        form == IF x = Missing THEN rhs ELSE [k |-> "const", v |-> x]
    IN  IF spec.channel = <<>> \/ rhs.k = "blank" \/ x = Fail THEN [channel |-> <<>>, form |-> [k |-> "blank"]]
        ELSE [channel |-> spec.channel, form |-> form]
OverrideFails(o) == o.channel = <<>>

\* prepare_overrides: under the path of the channel, the expression parsed.
Prepared(overrides, scope) ==
    [i \in DOMAIN overrides |-> [overrides[i] EXCEPT !.channel = Canonical(overrides[i].channel, scope)]]
PrepareFails(overrides) == \E i \in DOMAIN overrides : overrides[i].form.k = "unparsable"

\* An expression is an operator on a channel and a value, read in the store as
\* the log left it; a channel nobody has seeded fails.
Evaluate(form, store, scope) ==
    CASE form.k = "const" -> form.v
      [] form.k = "expr" /\ Canonical(form.of, scope) \in DOMAIN store ->
             Apply(form.op, store[Canonical(form.of, scope)], form.by)
      [] OTHER -> Fail

-----------------------------------------------------------------------------
(* The replay *)

\* The functions an override reaches, in order; an overridden channel is not
\* looked through.
Reaches(cone, over, f) ==
    \/ f.of \in over
    \/ \E g \in Range(cone) : g.to = f.of /\ g.to \notin over
ConeOf(functions, over) ==
    Seqs!FoldLeft(LAMBDA cone, f : IF Reaches(cone, over, f) THEN Append(cone, f) ELSE cone, <<>>, functions)

Run(store, f, k) ==
    IF store = NoStore \/ k % f.every # 0 THEN store
    ELSE IF f.of \notin DOMAIN store THEN NoStore
    ELSE Write(store, f.to, Apply("+", store[f.of], f.by))

\* Every override is evaluated before the first of them is written.
Layer(store, overrides, scope) ==
    LET seen == [i \in DOMAIN overrides |-> Evaluate(overrides[i].form, store, scope)] IN
    Seqs!FoldLeft(LAMBDA st, i : Write(st, overrides[i].channel, seen[i]), store, [i \in DOMAIN overrides |-> i])

\* One tick: the log, the overrides, the due functions of the cone.
ReplayTick(store, log, overrides, cone, scope, k, base) ==
    Seqs!FoldLeft(LAMBDA st, f : Run(st, f, k),
             Layer(Drive(store, log, scope, k, base), overrides, scope), cone)

NoTrace == <<NoStore>>
Replay(functions, log, overrides, base, duration) ==
    LET asked == {Canonical(overrides[i].channel, "none") : i \in DOMAIN overrides}
        cone  == ConeOf(functions, asked)
        scope == IF overrides = <<>> THEN "none" ELSE "group"
        over  == Prepared(overrides, scope)
        ticks == TickCount(IF duration > 0 THEN duration ELSE LogDuration(log), base)
        store[k \in 0..ticks] ==
            IF k = 0 THEN <<>> ELSE ReplayTick(store[k - 1], log, over, cone, scope, k - 1, base)
    IN  IF \/ base <= 0 \/ (overrides # <<>> /\ cone = <<>>) \/ PrepareFails(overrides)
           \/ \E k \in 0..ticks : store[k] = NoStore
        THEN NoTrace ELSE [k \in 1..ticks |-> store[k]]

-----------------------------------------------------------------------------
(* The difference *)

SeriesOf(log, name) == Min({i \in DOMAIN log : log[i].channel = name})
Carries(log, name) == \E i \in DOMAIN log : log[i].channel = name

\* match_log_series: as spelt, without the root, and the last segment alone.
Spellings(path) ==
    <<path, IF Len(path) > 1 /\ path[1] = "Root" THEN Tail(path) ELSE path, <<path[Len(path)]>>>>
Matches(log, path) == {i \in 1..3 : Carries(log, Spellings(path)[i])}
Bindings(log, paths) ==
    [p \in {q \in paths : Matches(log, q) # {}} |->
        [name |-> Spellings(p)[Min(Matches(log, p))], exact |-> Min(Matches(log, p)) = 1]]

(* Mutant: a column that is spelt like the log is no claim.                   *)
ClaimedByFallbacks(bindings, p) ==
    /\ ~bindings[p].exact
    /\ \E q \in DOMAIN bindings \ {p} : ~bindings[q].exact /\ bindings[q].name = bindings[p].name

\* A series found by a fallback, which another column has found as well.
Conflicted(bindings, p) ==
    ~bindings[p].exact /\ \E q \in DOMAIN bindings \ {p} : bindings[q].name = bindings[p].name

IsNumericColumn(trace, p) == \A k \in DOMAIN trace : p \in DOMAIN trace[k] => trace[k][p].fam \in Numeric
Diverges(x, y) ==
    LET finite(z) == z.fam # "float" \/ IsFinite(z.v) IN
    IF finite(x) /\ finite(y) THEN Exact(x) # Exact(y) ELSE finite(x) # finite(y)

Diff(log, trace, base) ==
    LET paths    == UNION {DOMAIN trace[k] : k \in DOMAIN trace}
        bindings == Bindings(log, paths)
        clear    == {p \in DOMAIN bindings : ~Conflicted(bindings, p)}
        Moves(p) == \E k \in DOMAIN trace :
                       Diverges(trace[k][p], Sample(log[SeriesOf(log, bindings[p].name)].points, k - 1, base))
    IN  [mapping   |-> [p \in {q \in clear : IsNumericColumn(trace, q)} |-> bindings[p].name],
         changed   |-> {p \in clear : IsNumericColumn(trace, p) /\ Moves(p)},
         ambiguous |-> DOMAIN bindings \ clear]
=============================================================================
