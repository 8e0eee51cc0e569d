------------------------------- MODULE Executor -------------------------------
(***************************************************************************)
(* The statement executor and expression evaluator (stmt.rs, expr.rs) with *)
(* inlined calls of user functions (builtins/userfn.rs) over one store     *)
(* (env.rs). The recursion over the syntax tree is a list of what is still *)
(* to be done and a stack of operands; the frames a call saves in Rust     *)
(* variables are the sequence saved. A program is data: [function -> its   *)
(* statements], nodes are records with a kind k.                           *)
(*                                                                         *)
(* A name is [name, hole]: hole is "none" or the loop variable of the      *)
(* placeholder that ends it. Text substitution and the second parse of an  *)
(* expand body are the substitution that every item carries. Names resolve *)
(* to statics, locals and channels; the scope rules of groups and of       *)
(* library objects are those of the type checker and left out.             *)
(***************************************************************************)
EXTENDS Values

LOCAL INSTANCE FiniteSetsExt

CONSTANTS Functions,        \* every function with a script
          Scheduled,        \* those the scheduler starts
          Signatures,       \* [function -> [declared, params, returns]]
          Channels,         \* [name -> declared family or "unknown"]
          MemberNames,      \* [enumeration or "bool" -> names of its members]
          Programs,         \* the programs considered
          Expressions,      \* the nodes of their expressions
          Statements,       \* and of their statements
          DefaultUnseeded,  \* default_unseeded_channels
          MaxCallDepth,     \* MAX_CALL_DEPTH (64)
          MaxRuns           \* bound on the scripts started

ASSUME ExecutorAssumption == Scheduled \subseteq Functions /\ MaxCallDepth \in Nat /\ MaxRuns \in Nat

(* The shape of the tree that is walked: bodies and arguments are lists.      *)
ASSUME SyntaxAssumption ==
    /\ Programs \subseteq [Functions -> Seq(Statements)]
    /\ \A e \in Expressions :
         /\ e.k = "unary" => e.e \in Expressions
         /\ e.k \in {"binary", "logical", "ternary"} => e.l \in Expressions /\ e.r \in Expressions
         /\ e.k = "ternary" => e.c \in Expressions
         /\ e.k = "call" => e.args \in Seq(Expressions)
    /\ \A s \in Statements :
         /\ s.k \in {"assign", "expr", "when"} => s.e \in Expressions
         /\ s.k = "if" => /\ s.c \in Expressions
                         /\ s.then \in Seq(Statements) /\ s.else \in Seq(Statements)
         /\ s.k = "when" => s.clauses \in Seq([pattern : Expressions, body : Seq(Statements)])
         /\ s.k = "expand" => s.lo \in Expressions /\ s.hi \in Expressions
         /\ s.k \in {"block", "expand"} => s.body \in Seq(Statements)
         /\ s.k \in {"local", "static"} => s.init \in Seq(Expressions)

NoValue  == Val("none", 0)
Plain    == -1
OutName  == <<"Out", Plain>>
Holes    == [bind |-> <<>>, from |-> 0]

VARIABLES code,      \* the program
          values,    \* Env.values
          locals,    \* Env.locals
          out,       \* Env.out
          statics,   \* Env.statics
          state,     \* StateStore: [site -> how often its operator was advanced]
          fn,        \* the executing function
          saved,     \* frames of the callers, [fn, locals, out]
          todo,      \* what is still to be done, first item first
          vals,      \* operands computed so far
          status,    \* "running", "raising", "failed"
          blame,     \* script the error is attributed to
          returned,  \* what the last call answered
          ran,       \* history: [occurrence of an operator -> [site, n]]
          runs       \* scripts started
env   == <<values, locals, out, statics, state>>
frame == <<fn, saved>>
ghost == <<returned, ran>>
vars  == <<code, env, frame, todo, vals, status, blame, ghost, runs>>

-----------------------------------------------------------------------------
(* Items *)

Item  == Head(todo)
Node  == Item.node
Later == Tail(todo)
Do(d, n)     == [do |-> d, node |-> n, sub |-> Item.sub]
Eval(e)      == Do("eval", e)
Body(b, sub) == [i \in DOMAIN b |-> [do |-> "exec", node |-> b[i], sub |-> sub]]
Exec(b)      == Body(b, Item.sub)

Is(d)       == status = "running" /\ todo # <<>> /\ Item.do = d
Kind(d, k)  == Is(d) /\ Node.k = k
Val1        == vals[Len(vals)]            \* the last operand
Val2        == vals[Len(vals) - 1]
Drop(n)     == SubSeq(vals, 1, Len(vals) - n)

Continue(items) == todo' = items \o Later /\ UNCHANGED <<code, status, blame, runs>>
Keep == UNCHANGED <<env, frame, ghost>>
Raise == status' = "raising" /\ UNCHANGED <<code, env, frame, todo, vals, blame, ghost, runs>>
Put(f, x, y) == [z \in DOMAIN f \cup {x} |-> IF z = x THEN y ELSE f[z]]
IsError(x) == x.fam \in {"error", "missing"}

\* Replace the last n operands by a result, or fail.
Yield(n, x) == IF IsError(x) THEN Raise
               ELSE vals' = Append(Drop(n), x) /\ Continue(<<>>) /\ Keep

-----------------------------------------------------------------------------
(* Names and slots *)

Key(p) == <<p.name, IF p.hole = "none" THEN Plain ELSE Item.sub.bind[p.hole]>>

\* resolve_target and eval_path: a static before a local before a channel.
Resolve(key) ==
    [slot |-> IF <<fn, key>> \in DOMAIN statics THEN "static"
              ELSE IF key \in DOMAIN locals THEN "local"
              ELSE IF key \in DOMAIN Channels THEN "channel" ELSE "unresolved",
     key |-> key]
Target(key) == IF key = OutName THEN [slot |-> "out", key |-> key] ELSE Resolve(key)

\* read_dest, read_symbol
Contents(d) ==
    CASE d.slot = "static"  -> statics[<<fn, d.key>>]
      [] d.slot = "local"   -> locals[d.key]
      [] d.slot = "out"     -> IF out = NoValue THEN Missing ELSE out
      [] d.slot = "channel" -> IF d.key \in DOMAIN values THEN values[d.key]
                               ELSE IF DefaultUnseeded THEN DefaultOf(Channels[d.key]) ELSE Missing
      [] OTHER              -> Fail

(* Mutant: a slot takes whatever family it is given.                          *)
KeptFreely(x, old) == x

\* coerce_to_existing_kind: a slot that holds a number keeps its family.
Kept(x, old) == IF old.fam \in Numeric THEN CoerceScalar(x, old.fam) ELSE x

\* write_dest: the value as its slot stores it.
Stored(d, x) ==
    CASE d.slot = "static" -> Kept(x, statics[<<fn, d.key>>])
      [] d.slot = "local"  -> Kept(x, locals[d.key])
      [] d.slot = "channel" ->
            IF Channels[d.key] = "unknown" /\ d.key \in DOMAIN values
            THEN Kept(x, values[d.key]) ELSE Coerce(x, Channels[d.key])
      [] d.slot = "out" ->
            LET family == Signatures[fn].returns IN
            IF family = "inferred" /\ x.fam # "fixed" THEN Coerce(x, "float")
            ELSE IF family \in {"unknown", "inferred"} THEN Kept(x, out) ELSE Coerce(x, family)

Write(d, x) ==
    /\ values'  = IF d.slot = "channel" THEN Put(values, d.key, x) ELSE values
    /\ locals'  = IF d.slot = "local" THEN Put(locals, d.key, x) ELSE locals
    /\ statics' = IF d.slot = "static" THEN Put(statics, <<fn, d.key>>, x) ELSE statics
    /\ out'     = IF d.slot = "out" THEN x ELSE out
    /\ UNCHANGED <<state, frame, ghost>>

-----------------------------------------------------------------------------
(* Expressions *)

EvalLiteral == Kind("eval", "lit") /\ Yield(0, Node.v)
EvalPath    == Kind("eval", "name") /\ Yield(0, Contents(Resolve(Key(Node.path))))

\* The operands of a node, left to right, and then what is done with them.
Unfold ==
    /\ Is("eval") /\ Node.k \in {"unary", "binary", "logical", "ternary", "call"}
    /\ Continue(CASE Node.k = "unary"   -> <<Eval(Node.e), Do("unary", Node)>>
                  [] Node.k = "binary"  -> <<Eval(Node.l), Eval(Node.r), Do("binary", Node)>>
                  [] Node.k = "logical" -> <<Eval(Node.l), Do("decide", Node)>>
                  [] Node.k = "ternary" -> <<Eval(Node.c), Do("choose", Node)>>
                  [] Node.k = "call"    -> [i \in DOMAIN Node.args |-> Eval(Node.args[i])]
                                               \o <<Do("invoke", Node)>>)
    /\ Keep /\ UNCHANGED vals

EvalUnary  == Is("unary") /\ Yield(1, Unary(Node.op, Val1))
EvalBinary == Is("binary") /\ Yield(2, Apply(Node.op, Val2, Val1))

\* A condition that is no Boolean fails; items depends on its truth.
OnCondition(items(_)) ==
    IF ~IsBool(Val1) THEN Raise
    ELSE vals' = Drop(1) /\ Continue(items(Val1 = True)) /\ Keep

\* and, or: the right operand is evaluated only if the left does not decide.
Decide == Is("decide") /\
    OnCondition(LAMBDA b : IF b = (Node.op = "or") THEN <<Eval([k |-> "lit", v |-> Bool(b)])>>
                           ELSE <<Eval(Node.r), Do("truth", Node)>>)
Truth  == Is("truth") /\ Yield(1, IF IsBool(Val1) THEN Val1 ELSE Fail)
Choose == Is("choose") /\ OnCondition(LAMBDA b : <<Eval(IF b THEN Node.l ELSE Node.r)>>)

-----------------------------------------------------------------------------
(* Calls *)

Arity == Len(Node.args)
Args  == SubSeq(vals, Len(vals) - Arity + 1, Len(vals))

Digits(n) == (IF n < 0 THEN 1 ELSE 0) + (IF Magnitude(n) < 10 THEN 1 ELSE 2)
\* CallSite::of: the offset in the text that was parsed. The body of an expand
\* is parsed on its own, with a number in place of each four-letter placeholder.
Offset == Node.at - Item.sub.from
          + MapThenSumSet(LAMBDA i : Digits(Item.sub.bind[Node.holes[i]]) - 4, DOMAIN Node.holes)

\* A stateful operator advances the state of its site once.
CallOperator ==
    LET site == <<fn, Offset>>
        occurrence == <<fn, Node.at>>
        n == IF site \in DOMAIN state THEN state[site] + 1 ELSE 1
        m == IF occurrence \in DOMAIN ran THEN ran[occurrence].n + 1 ELSE 1
    IN  /\ Is("invoke") /\ Node.fn = "operator"
        /\ state' = Put(state, site, n)
        /\ ran' = Put(ran, occurrence, [site |-> site, n |-> m])
        /\ vals' = Append(Drop(Arity), Val("int", n))
        /\ Continue(<<>>)
        /\ UNCHANGED <<values, locals, out, statics, frame, returned>>

Params(f) == Signatures[f].params
Bound(f)  == [i \in 1..Len(Params(f)) |-> Coerce(Args[i], Params(f)[i].fam)]
Parameters(f) == {<<Params(f)[i].name, Plain>> : i \in DOMAIN Params(f)}

\* Everything call_with_runtime checks before it touches the caller's frame.
Callable(f) ==
    /\ f \in Functions
    /\ Signatures[f].declared => Len(Params(f)) = Arity
    /\ Len(saved) < MaxCallDepth
    /\ Signatures[f].declared => \A i \in DOMAIN Bound(f) : ~IsError(Bound(f)[i])

EnterFunction ==
    /\ Is("invoke") /\ Callable(Node.fn)
    /\ LET f == Node.fn IN
       /\ saved' = Append(saved, [fn |-> fn, locals |-> locals, out |-> out])
       /\ fn' = f
       /\ locals' = [key \in Parameters(f) |->
                        Bound(f)[CHOOSE i \in DOMAIN Params(f) : Params(f)[i].name = key[1]]]
       /\ out' = NoValue
       /\ vals' = Drop(Arity)
       /\ Continue(Body(code[f], Holes) \o <<Do("leave", Node)>>)
    /\ UNCHANGED <<values, statics, state, ghost>>
RefuseCall == Is("invoke") /\ Node.fn # "operator" /\ ~Callable(Node.fn) /\ Raise

(* Mutant: the caller finds the Out of its callee.                            *)
RestoreLocals ==
    LET caller == saved[Len(saved)] IN
    /\ fn' = caller.fn /\ locals' = caller.locals /\ UNCHANGED out
    /\ saved' = SubSeq(saved, 1, Len(saved) - 1)

RestoreCaller ==
    LET caller == saved[Len(saved)] IN
    /\ fn' = caller.fn /\ locals' = caller.locals /\ out' = caller.out
    /\ saved' = SubSeq(saved, 1, Len(saved) - 1)

LeaveFunction ==
    LET answer == IF out = NoValue THEN True ELSE out IN
    /\ Is("leave")
    /\ vals' = Append(vals, answer) /\ returned' = answer
    /\ RestoreCaller /\ Continue(<<>>)
    /\ UNCHANGED <<values, statics, state, ran>>

\* in_script: the innermost script an error leaves is the one it names.
Blamed == blame' = IF blame = "none" THEN fn ELSE blame

\* An error in a callee restores the caller's frame before it goes on.
Unwind ==
    /\ status = "raising" /\ saved # <<>>
    /\ LET leave == CHOOSE i \in DOMAIN todo :
                       todo[i].do = "leave" /\ \A j \in 1..(i - 1) : todo[j].do # "leave"
       IN  todo' = SubSeq(todo, leave + 1, Len(todo))
    /\ RestoreCaller /\ Blamed
    /\ UNCHANGED <<code, values, statics, state, vals, status, ghost, runs>>
Abort ==
    /\ status = "raising" /\ saved = <<>>
    /\ status' = "failed" /\ todo' = <<>> /\ vals' = <<>> /\ Blamed
    /\ UNCHANGED <<code, env, frame, ghost, runs>>

-----------------------------------------------------------------------------
(* Statements *)

\* exec_assignment resolves its target before it evaluates the right-hand side.
Assign == /\ Kind("exec", "assign")
          /\ LET d == Target(Key(Node.path)) IN
             IF d.slot = "unresolved" THEN Raise
             ELSE /\ Continue(<<Eval(Node.e), Do("store", [dest |-> d, op |-> Node.op])>>)
                  /\ Keep /\ UNCHANGED vals

\* A compound assignment names its operator and reads the target last.
Store == /\ Is("store")
         /\ LET d == Node.dest
                current == Contents(d)
                final == IF Node.op = "=" THEN Val1
                         ELSE IF IsError(current) THEN current ELSE Apply(Node.op, current, Val1)
                x == IF IsError(final) THEN final ELSE Stored(d, final)
            IN  IF IsError(x) THEN Raise
                ELSE Write(d, x) /\ vals' = Drop(1) /\ Continue(<<>>)

Statement ==
    /\ \/ Is("exec") /\ Node.k \in {"expr", "if", "when", "expand", "block"}
       \/ Is("exec") /\ Node.k \in {"local", "static"} /\ Node.init # <<>>
             /\ (Node.k = "static" => <<fn, Key(Node.path)>> \notin DOMAIN statics)
    /\ Continue(CASE Node.k = "expr"   -> <<Eval(Node.e), Do("drop", Node)>>
                  [] Node.k = "if"     -> <<Eval(Node.c), Do("branch", Node)>>
                  [] Node.k = "when"   -> <<Eval(Node.e), Do("match", Node.clauses)>>
                  [] Node.k = "expand" -> <<Eval(Node.lo), Do("bound", Node), Eval(Node.hi),
                                            Do("bound", Node), Do("range", Node)>>
                  [] Node.k = "block"  -> Exec(Node.body)
                  [] OTHER             -> <<Eval(Node.init[1]), Do("declare", Node)>>)
    /\ Keep /\ UNCHANGED vals
Discard == Is("drop") /\ vals' = Drop(1) /\ Continue(<<>>) /\ Keep
Branch  == Is("branch") /\ OnCondition(LAMBDA b : Exec(IF b THEN Node.then ELSE Node.else))

\* A declaration creates the slot; only a plain local is declared anew.
DeclareWith(x) ==
    LET key == Key(Node.path) IN
    /\ locals'  = IF Node.k = "local" THEN Put(locals, key, x) ELSE locals
    /\ statics' = IF Node.k = "static" THEN Put(statics, <<fn, key>>, x) ELSE statics
    /\ Continue(<<>>) /\ UNCHANGED <<values, out, state, frame, ghost>>
Declare == /\ Is("declare")
           /\ IF IsError(Coerce(Val1, Node.fam)) THEN Raise
              ELSE DeclareWith(Coerce(Val1, Node.fam)) /\ vals' = Drop(1)
DeclareDefault ==
    /\ Is("exec") /\ Node.k \in {"local", "static"} /\ Node.init = <<>>
    /\ Node.k = "static" => <<fn, Key(Node.path)>> \notin DOMAIN statics
    /\ DeclareWith(IF Node.fam \in {"float", "uint", "bool", "str"} THEN Val(Node.fam, 0) ELSE Val("int", 0))
    /\ UNCHANGED vals
AlreadyDeclared ==
    /\ Kind("exec", "static") /\ <<fn, Key(Node.path)>> \in DOMAIN statics
    /\ Continue(<<>>) /\ Keep /\ UNCHANGED vals

\* exec_when: the clauses left are tried in order, each with one pattern. An
\* enumeration or a Boolean is matched by the name of its member alone, any
\* other subject by evaluating the pattern.
Named(x) == x.fam \in Enums \cup {"bool"}
MemberName(x) == MemberNames[x.fam][IF x.fam = "bool" THEN x.v + 1 ELSE x.v]
NoMatch == Node = <<>> /\ vals' = Drop(1) /\ Continue(<<>>) /\ Keep
Match ==
    /\ Is("match")
    /\ \/ NoMatch
       \/ /\ Node # <<>> /\ Named(Val1)
          /\ IF Node[1].pattern.name = MemberName(Val1)
             THEN vals' = Drop(1) /\ Continue(Exec(Node[1].body))
             ELSE Continue(<<Do("match", Tail(Node))>>) /\ UNCHANGED vals
          /\ Keep
       \/ /\ Node # <<>> /\ ~Named(Val1)
          /\ Continue(<<Eval(Node[1].pattern), Do("compare", Node)>>)
          /\ Keep /\ UNCHANGED vals
ComparePattern ==
    /\ Is("compare")
    /\ IF LooselyEqual(Val2, Val1)
       THEN vals' = Drop(2) /\ Continue(Exec(Node[1].body))
       ELSE vals' = Drop(1) /\ Continue(<<Do("match", Tail(Node))>>)
    /\ Keep

\* expand_bound
ExpandBound == Is("bound") /\
    Yield(1, IF Val1.fam \in Integral /\ Val1.v <= IntMax THEN Val("int", Val1.v) ELSE Fail)

Counted(lo, hi) == IF lo <= hi THEN [i \in 1..(hi - lo + 1) |-> lo + i - 1]
                   ELSE [i \in 1..(lo - hi + 1) |-> lo - i + 1]
LoopVar == <<Node.loop.var, Plain>>
ExpandRange ==
    LET var == <<Node.var, Plain>> IN
    /\ Is("range")
    /\ vals' = Drop(2)
    /\ Continue(<<Do("iterate", [loop |-> Node, left |-> Counted(Val2.v, Val1.v),
                                 prior |-> IF var \in DOMAIN locals THEN locals[var] ELSE NoValue])>>)
    /\ Keep
(* Mutant: the range is never used up.                                        *)
IterateAgain ==
    /\ Is("iterate") /\ Node.left # <<>>
    /\ locals' = Put(locals, LoopVar, Val("int", Head(Node.left)))
    /\ Continue(<<Item>>)
    /\ UNCHANGED <<values, out, statics, state, frame, ghost, vals>>

\* An outer loop has replaced its placeholders before an inner body is parsed.
Bind(var, n) == IF var \in DOMAIN Item.sub.bind THEN Item.sub.bind ELSE Put(Item.sub.bind, var, n)

Iterate ==
    /\ Is("iterate") /\ Node.left # <<>>
    /\ LET n == Head(Node.left) IN
       /\ locals' = Put(locals, LoopVar, Val("int", n))
       /\ Continue(Body(Node.loop.body, [bind |-> Bind(Node.loop.var, n), from |-> Node.loop.from])
                     \o <<Do("iterate", [Node EXCEPT !.left = Tail(@)])>>)
    /\ UNCHANGED <<values, out, statics, state, frame, ghost, vals>>

EndExpand ==
    /\ Is("iterate") /\ Node.left = <<>>
    /\ locals' = IF Node.prior # NoValue THEN Put(locals, LoopVar, Node.prior)
                 ELSE [key \in DOMAIN locals \ {LoopVar} |-> locals[key]]
    /\ Continue(<<>>)
    /\ UNCHANGED <<values, out, statics, state, frame, ghost, vals>>

-----------------------------------------------------------------------------
(* Runs *)

Idle == status = "running" /\ todo = <<>>

\* The runner starts the next due script on the same environment.
RunScript(s) ==
    /\ Idle /\ runs < MaxRuns
    /\ fn' = s /\ todo' = Body(code[s], Holes) /\ runs' = runs + 1
    /\ UNCHANGED <<code, env, saved, vals, status, blame, ghost>>

Init == /\ code \in Programs
        /\ values = <<>> /\ locals = <<>> /\ out = NoValue /\ statics = <<>> /\ state = <<>>
        /\ fn = "none" /\ saved = <<>> /\ todo = <<>> /\ vals = <<>>
        /\ status = "running" /\ blame = "none" /\ returned = NoValue /\ ran = <<>> /\ runs = 0

Step == \/ EvalLiteral \/ EvalPath \/ Unfold \/ EvalUnary \/ EvalBinary \/ Decide \/ Truth \/ Choose
        \/ CallOperator \/ EnterFunction \/ RefuseCall \/ LeaveFunction \/ Unwind \/ Abort
        \/ Assign \/ Store \/ Statement \/ Discard \/ Branch
        \/ Declare \/ DeclareDefault \/ AlreadyDeclared \/ Match \/ ComparePattern
        \/ ExpandBound \/ ExpandRange \/ Iterate \/ EndExpand
Next == Step \/ \E s \in Scheduled : RunScript(s)
Spec == Init /\ [][Next]_vars /\ WF_vars(Step)
-----------------------------------------------------------------------------
(* Properties *)

\* The evaluator has one map of locals and one Out for whatever is executing.
\* Through every call, return, refused call and error that leaves any number of
\* callees, it behaves as a stack of frames does: a caller finds its locals and
\* its Out as it left them, a callee starts with nothing but its parameters, a
\* call answers what the callee assigned to its own Out last, and a static is
\* touched by its own function only.
Lexical == INSTANCE Frames WITH
    stack <- Append(saved, [fn |-> fn, locals |-> locals, out |-> out]),
    Unit <- True, ParametersOf <- Parameters
CallsAreLexical == Lexical!Spec

\* What once holds a number keeps its family: a declared channel always, a
\* static and an undeclared channel from their first number on, and the Out of a
\* called function with a declared return; compound assignments, recursion and
\* mixed operands included.
SlotsKeepTheirFamily ==
    [][/\ \A k \in DOMAIN values' :
             IF Channels[k] # "unknown" THEN values'[k].fam = Channels[k]
             ELSE k \in DOMAIN values /\ values[k].fam \in Numeric => values'[k].fam = values[k].fam
       /\ \A k \in DOMAIN statics :
             statics[k].fam \in Numeric => statics'[k].fam = statics[k].fam
       /\ saved' # <<>> /\ out' # NoValue /\ Signatures[fn'].returns \in Numeric =>
             out'.fam = Signatures[fn'].returns]_vars

\* Whatever the scripts call, recursion without an end included, every script
\* comes to an end, and the caller's frames are gone by then.
EvaluationEnds == (todo # <<>>) ~> (todo = <<>> /\ saved = <<>>)

\* env.rs: "Each occurrence in the source is one independent state machine",
\* so a site has advanced as often as its occurrence was executed. Not so for
\* the bodies of expand, whose offsets are those of a text parsed on its own.
OccurrencesAreIndependent ==
    \A o \in DOMAIN ran : state[ran[o].site] = ran[o].n
=============================================================================
