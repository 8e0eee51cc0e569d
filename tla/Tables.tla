------------------------------- MODULE Tables -------------------------------
(***************************************************************************)
(* Calibrated tables: how the cells of a .m1cfg file become axes and a     *)
(* body (calib.rs), how a lookup blends the cells around a point           *)
(* (table.rs), and the two table calls of scripts (builtins/mod.rs).       *)
(*                                                                         *)
(* A cell of a file is [site, v]: the coordinates it declares, counted     *)
(* from zero, or none, and a value. An axis is [enum, extra, values]: the  *)
(* enumeration of its sites or "none", at which ends it extrapolates, and  *)
(* its sites. The values of an enumerated axis are plain integers.         *)
(***************************************************************************)
EXTENDS Values

LOCAL INSTANCE FiniteSetsExt
LOCAL INSTANCE Functions

NoSite  == <<>>
NoTable == [axes |-> <<>>, body |-> <<>>]

Product(f) == FoldFunction(LAMBDA a, b : a * b, 1, f)

(* Mutant: the two ends of an axis are confused.                              *)
ExtrapolationsSwapped == [below |-> {"above", "both"}, above |-> {"below", "both"}]

Extrapolations == [below |-> {"below", "both"}, above |-> {"above", "both"}]

-----------------------------------------------------------------------------
(* Loading *)

Unsited(cells)     == \A i \in DOMAIN cells : cells[i].site = NoSite
CellsAt(cells, at(_), n) == {i \in DOMAIN cells : at(cells[i].site) = n}
InOrder(cells, at(_)) ==
    [n \in DOMAIN cells |-> IF Unsited(cells) THEN cells[n].v
                            ELSE cells[CHOOSE i \in CellsAt(cells, at, n - 1) : TRUE].v]

\* Every site below the number of cells is declared exactly once.
Complete(cells, at(_)) == \A n \in DOMAIN cells : Cardinality(CellsAt(cells, at, n - 1)) = 1

\* order_axis_cells: the cells of axis k lie on that axis.
AxisIsOrdered(cells, k) ==
    \/ Unsited(cells)
    \/ /\ \A i \in DOMAIN cells : /\ cells[i].site # NoSite
                                  /\ \A d \in (1..3) \ {k} : cells[i].site[d] = 0
       /\ Complete(cells, LAMBDA s : s[k])

\* body_offset: the first axis changes fastest.
Stride(shape, k) == Product([d \in 1..(k - 1) |-> shape[d]])

Offset(shape, place) == MapThenSumSet(LAMBDA k : place[k] * Stride(shape, k), DOMAIN shape)
IsPlace(shape, place) == \A d \in 1..3 : place[d] < (IF d \in DOMAIN shape THEN shape[d] ELSE 1)

\* parse_body
BodyIsOrdered(cells, shape) ==
    \/ Unsited(cells)
    \/ /\ \A i \in DOMAIN cells : cells[i].site # NoSite
       /\ Len(cells) = Product(shape)
       /\ \A i \in DOMAIN cells : IsPlace(shape, cells[i].site)
       /\ Complete(cells, LAMBDA s : Offset(shape, s))

AxisLengths(t) == [k \in DOMAIN t.axes |-> Len(t.axes[k].values)]
OneFamily(cells) == \A i, j \in DOMAIN cells : cells[i].fam = cells[j].fam
AllFinite(cells) == \A i \in DOMAIN cells : cells[i].fam = "float" => IsFinite(cells[i].v)

\* validate_shape_named
HasShape(t) ==
    /\ Len(t.axes) \in 1..3
    /\ \A k \in DOMAIN t.axes :
          /\ t.axes[k].values # <<>>
          /\ IF t.axes[k].enum = "none"
             THEN OneFamily(t.axes[k].values) /\ AllFinite(t.axes[k].values)
             ELSE t.axes[k].extra = "clamp"
    /\ Len(t.body) = Product(AxisLengths(t))
    /\ OneFamily(t.body) /\ AllFinite(t.body)

\* parse_table. The file's axes are cells and whether they are enumerated;
\* an axis is bound to its enumeration only by the project.
Parsed(file) ==
    [axes |-> [k \in DOMAIN file.axes |->
                  [enum   |-> IF file.axes[k].enumerated THEN "unbound" ELSE "none",
                   extra  |-> "clamp",
                   values |-> InOrder(file.axes[k].cells, LAMBDA s : s[k])]],
     body |-> LET shape == [k \in DOMAIN file.axes |-> Len(file.axes[k].cells)]
              IN  InOrder(file.body, LAMBDA s : Offset(shape, s))]
Loaded(file) ==
    IF /\ \A k \in DOMAIN file.axes : AxisIsOrdered(file.axes[k].cells, k)
       /\ BodyIsOrdered(file.body, [k \in DOMAIN file.axes |-> Len(file.axes[k].cells)])
       /\ HasShape(Parsed(file))
    THEN Parsed(file) ELSE NoTable

\* apply_project_table_properties: the ends that extrapolate and the
\* enumerations come from the project; a closed enumeration has only its members.
Bound(t, props) ==
    [t EXCEPT !.axes = [k \in DOMAIN t.axes |->
        [t.axes[k] EXCEPT !.extra = props[k].extra,
                          !.enum  = IF @ = "none" THEN @ ELSE props[k].enum]]]
BindingFails(t, props) ==
    \E k \in DOMAIN t.axes :
        /\ t.axes[k].enum # "none"
        /\ \/ props[k].extra # "clamp"
           \/ props[k].enum \notin Enums
           \/ /\ ~props[k].open
              /\ \E i \in DOMAIN t.axes[k].values :
                    t.axes[k].values[i] \notin Range(EnumValues[props[k].enum])

-----------------------------------------------------------------------------
(* Lookup *)

\* validate_named
IsValid(t) ==
    /\ HasShape(t)
    /\ \A k \in DOMAIN t.axes :
          IF t.axes[k].enum = "none"
          THEN \A i \in 1..(Len(t.axes[k].values) - 1) :
                  Exact(t.axes[k].values[i]) < Exact(t.axes[k].values[i + 1])
          ELSE /\ t.axes[k].enum \in Enums
               /\ IsInjective(t.axes[k].values)

\* Where a coordinate lies: from site lo (counted from zero) num/den of the way
\* to the next.
Between(lo, num, den) == [lo |-> lo, num |-> num, den |-> den]
Nowhere == Between(0, 0, 0)

\* bracket_numeric
NumericBracket(axis, x) ==
    LET s(i) == Exact(axis.values[i + 1])
        last == Len(axis.values) - 1
        On(i) == Between(i, x - s(i), s(i + 1) - s(i))
    IN  IF last = 0 THEN Between(0, 0, 1)
        ELSE IF x < s(0) /\ axis.extra \in Extrapolations.below THEN On(0)
        ELSE IF x <= s(0) THEN Between(0, 0, 1)
        ELSE IF x > s(last) /\ axis.extra \in Extrapolations.above THEN On(last - 1)
        ELSE IF x >= s(last) THEN Between(last - 1, 1, 1)
        ELSE On(Min({i \in 0..(last - 1) : s(i) <= x /\ x <= s(i + 1)}))

\* bracket: a member selects its site exactly.
EnumBracket(axis, n) ==
    LET at == {i \in DOMAIN axis.values : axis.values[i] = n}
        i  == Min(at) - 1
    IN  IF at = {} THEN Nowhere
        ELSE IF i + 1 = Len(axis.values) /\ i # 0 THEN Between(i - 1, 1, 1) ELSE Between(i, 0, 1)
Bracket(axis, x) ==
    CASE axis.enum = "none" /\ x.fam \in Numeric /\ (x.fam = "float" => IsFinite(x.v)) ->
             NumericBracket(axis, Exact(x))
      [] axis.enum = x.fam /\ EnumInt(x) # Fail -> EnumBracket(axis, EnumInt(x).v)
      [] OTHER                                  -> Nowhere

\* The cell at a corner of the cube around a point: upper on the axes in up.
Corner(t, at, up) ==
    LET place == [k \in DOMAIN t.axes |->
                     IF k \in up THEN Min({at[k].lo + 1, Len(t.axes[k].values) - 1}) ELSE at[k].lo]
    IN  t.body[Offset(AxisLengths(t), place) + 1]

\* narrow_interpolated: only a float body rounds. The code adds a float body up
\* in binary32; here its sum is rounded once.
Narrowed(fam, num, den) ==
    LET top == IF fam = "uint" THEN UIntMax ELSE IntMax
        bot == IF fam = "uint" THEN 0 ELSE IntMin
    IN  IF fam = "float" THEN Val(fam, RoundFloat(num, den))
        ELSE IF num % den = 0 /\ num \div den \in bot..top THEN Val(fam, num \div den) ELSE Fail

\* The cells around a point, each weighted with its nearness; exactly the
\* stored cell where every coordinate is at a site or a clamp.
Weight(at, up) == Product([k \in DOMAIN at |-> IF k \in up THEN at[k].num ELSE at[k].den - at[k].num])
Blended(t, at) ==
    IF \E k \in DOMAIN at : at[k] = Nowhere THEN Fail
    ELSE IF \A k \in DOMAIN at : at[k].num \in {0, at[k].den}
         THEN Corner(t, at, {k \in DOMAIN at : at[k].num = at[k].den})
    ELSE Narrowed(t.body[1].fam,
                  MapThenSumSet(LAMBDA up : Weight(at, up) * Corner(t, at, up).v, SUBSET DOMAIN at),
                  Product([k \in DOMAIN at |-> at[k].den]))

\* lookup_inputs
Lookup(t, args) ==
    IF \E k \in DOMAIN args : args[k].fam \notin Numeric /\ EnumInt(args[k]) = Fail THEN Fail
    ELSE IF Len(args) # Len(t.axes) THEN Fail
    ELSE IF ~IsValid(t) THEN Missing
    ELSE Blended(t, [k \in DOMAIN t.axes |-> Bracket(t.axes[k], args[k])])

-----------------------------------------------------------------------------
(* The calls. whole: a run of a whole project reads a missing table as zero.  *)

NumberOrZero(x, whole) == IF x = Missing /\ whole THEN Val("float", 0) ELSE x

\* try_table_lookup
TableLookup(t, args, whole) ==
    NumberOrZero(IF t = NoTable THEN Missing ELSE Lookup(t, args), whole)

\* try_table_get and table_site_index: one cell by its place in the body.
TableGet(t, x, whole) ==
    IF t = NoTable THEN NumberOrZero(Missing, whole)
    ELSE IF x.fam \in Numeric /\ x.v >= 0 /\ Exact(x) % Scale = 0 /\ Exact(x) \div Scale < Len(t.body)
         THEN t.body[(Exact(x) \div Scale) + 1]
    ELSE Fail
=============================================================================
