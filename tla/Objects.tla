------------------------------ MODULE Objects -------------------------------
(***************************************************************************)
(* Reading and writing the symbols of a project: which store a read ends   *)
(* at (expr.rs, read_symbol), which channel a value object writes, and the *)
(* methods of value objects (builtins/object.rs, builtins/enum_conv.rs).   *)
(*                                                                         *)
(* A symbol is [kind, fam, default, child, static]: its declared family or *)
(* "unknown", the symbol its declared default names, the symbol ending in  *)
(* .Value under it, and the value the project or the calibration gives it. *)
(* `store` stands for the values of Env, a function on part of the symbols. *)
(***************************************************************************)
EXTENDS Numerics

CONSTANTS Symbols,   \* [path -> symbol]
          Rules,     \* [path -> validation rule]
          Whole      \* unseeded channels of a whole project read as defaults

NoPath  == ""
NoValue == Val("none", 0)
Kind(p) == IF p \in DOMAIN Symbols THEN Symbols[p].kind ELSE "none"

-----------------------------------------------------------------------------
(* Reading *)

\* The kinds of symbol whose value is that of another one.
HasChild(p) == Kind(p) \in {"group", "table", "object"} /\ Symbols[p].child # NoPath
Forwards(p) ==
    \/ Kind(p) = "group" /\ Symbols[p].default # NoPath
    \/ Kind(p) \in {"group", "table"} /\ Symbols[p].child # NoPath
    \/ Kind(p) = "object" /\ Symbols[p].fam = "unknown" /\ Symbols[p].child # NoPath
Onward(p) == IF Kind(p) = "group" /\ Symbols[p].default # NoPath THEN Symbols[p].default
             ELSE Symbols[p].child

Paths == DOMAIN Symbols \cup {NoPath}

\* read_symbol_inner: a stored value ends the walk, and so does a cycle.
Provider(p, stored) ==
    LET walk[q \in Paths, seen \in SUBSET Paths] ==
          IF q \in seen THEN NoPath
          ELSE IF q \in stored \/ ~Forwards(q) THEN q ELSE walk[Onward(q), seen \cup {q}]
    IN  walk[p, {}]

\* The last symbol of the walk, from the store or by its kind.
ValueAt(p, store) ==
    LET s == Symbols[p] IN
    IF p \in DOMAIN store THEN store[p]
    ELSE IF Kind(p) \in {"constant", "parameter"} /\ s.static # NoValue THEN Coerce(s.static, s.fam)
    ELSE IF Kind(p) \in {"constant", "parameter"} THEN DefaultOf(s.fam)
    ELSE IF Kind(p) = "channel" THEN (IF Whole THEN DefaultOf(s.fam) ELSE Missing)
    ELSE IF Kind(p) \in {"object", "reference", "other"} /\ s.fam # "unknown" THEN DefaultOf(s.fam)
    ELSE Fail
Read(p, store) == ValueAt(Provider(p, DOMAIN store), store)

-----------------------------------------------------------------------------
(* Value objects *)

IsSource(p, fams) ==
    Kind(p) \in {"channel", "parameter", "constant", "object", "reference", "other"} /\ Symbols[p].fam \in fams

\* numeric_value_path_inner and enum_value_source_inner: depth first, the
\* declared default before the generated child, each symbol once.  (The untyped
\* Diagnostic.Value of a sensor, read as its catalogue's enumeration, is left out.)
FirstSource(p, fams) ==
    LET search[stack \in Seq(Paths), seen \in SUBSET Paths] ==
          IF stack = <<>> THEN NoPath
          ELSE LET q == Head(stack)
                   default == IF Kind(q) = "group" /\ Symbols[q].default # NoPath THEN <<Symbols[q].default>> ELSE <<>>
                   child   == IF HasChild(q) THEN <<Symbols[q].child>> ELSE <<>>
               IN  IF q \in seen \/ Kind(q) = "none" THEN search[Tail(stack), seen]
                   ELSE IF IsSource(q, fams) THEN q
                   ELSE search[default \o child \o Tail(stack), seen \cup {q}]
    IN  search[<<p>>, {}]
NumericPath(p) == FirstSource(p, Numeric)
EnumPath(p)    == FirstSource(p, Enums)

\* writable_value_path_inner: only channels are written, and a declared default
\* is the only provider of its group.
WritablePath(p) ==
    LET walk[q \in Paths, seen \in SUBSET Paths] ==
          IF q \in seen THEN NoPath
          ELSE IF Kind(q) = "channel" THEN q
          ELSE IF Kind(q) = "group" /\ Forwards(q) THEN walk[Onward(q), seen \cup {q}] ELSE NoPath
    IN  walk[p, {}]

\* unscheduled_value_path
UnscheduledPath(p) == CASE Kind(p) = "channel" /\ NumericPath(p) # NoPath -> p
                        [] Kind(p) = "table"                              -> NumericPath(p)
                        [] OTHER                                          -> NoPath

\* rule_for: the rule of the object before that of the symbol that holds its value.
RuleFor(p, path) == IF Rules[p].kind # "none" THEN Rules[p] ELSE Rules[path]

Validate(p, x)  == IF NumericPath(p) = NoPath THEN Fail ELSE Accepts(RuleFor(p, NumericPath(p)), x)
Constrain(p, x) == IF NumericPath(p) = NoPath THEN Fail ELSE Constrained(RuleFor(p, NumericPath(p)), x)
GetUnscheduled(p, store) ==
    IF UnscheduledPath(p) = NoPath THEN Fail ELSE Read(UnscheduledPath(p), store)

\* set: first the family of the channel, then the range of its rule.
SetValue(p, x) ==
    LET path == WritablePath(p)
        y    == Coerce(x, Symbols[path].fam)
    IN  IF path = NoPath THEN Fail
        ELSE IF y.fam \in Numeric THEN Constrained(RuleFor(p, path), y) ELSE y
Set(p, x, store) ==
    LET path == WritablePath(p) IN
    [q \in DOMAIN store \cup {path} |-> IF q = path THEN SetValue(p, x) ELSE store[q]]

\* read_enum_at, as_integer and as_string
EnumValueOf(p, store) ==
    LET v == Read(EnumPath(p), store) IN
    IF EnumPath(p) = NoPath \/ v.fam \notin Enums THEN Fail ELSE Coerce(v, Symbols[EnumPath(p)].fam)
AsInteger(p, store) ==
    LET n == EnumInt(EnumValueOf(p, store)) IN IF n.v \in IntMin..IntMax THEN n ELSE Fail
AsString(p, store) == IF EnumInt(EnumValueOf(p, store)) = Fail THEN Fail ELSE EnumValueOf(p, store)
=============================================================================
