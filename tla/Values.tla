------------------------------- MODULE Values -------------------------------
(***************************************************************************)
(* The runtime values of the evaluator (value.rs) and what the expression  *)
(* evaluator does with them (expr.rs): the four M1 scalar families with    *)
(* their widths, the promotion of two operands, the operators, and the     *)
(* coercion of a value to the declared family of what stores it.           *)
(*                                                                         *)
(* A value is a record [fam, v]. Binary32 is abstracted to a small binary  *)
(* float: v counts units of 1/Scale, a finite value has FloatBits          *)
(* significant bits and an exponent up to FloatExp, larger results are     *)
(* infinite; there is one zero. A fixed-point value counts the same units  *)
(* in a signed word. Integers have Width bits. Members of an enumeration   *)
(* are numbered from one; the family names the enumeration.                *)
(***************************************************************************)
EXTENDS Integers, Sequences

CONSTANTS Width,       \* bits of an integer (32 in the code)
          Base,        \* base of the notation of fixed-point values (10)
          Places,      \* their places after the point (7)
          FloatBits,   \* significant bits of a float (24)
          FloatExp,    \* its largest exponent
          EnumValues   \* [enumeration -> integers of its members, the one it starts at first]

\* The kinds of values that are no enumerations, and the names that stand for
\* no value or no declared type.
NotEnums == {"int", "uint", "float", "fixed", "bool", "str", "error", "missing", "unknown", "none"}

ASSUME ValuesAssumption ==
    /\ Width \in Nat \ {0} /\ Base \in Nat \ {0, 1} /\ Places \in Nat
    /\ FloatBits \in Nat \ {0} /\ FloatExp \in Nat
    /\ \A e \in DOMAIN EnumValues : EnumValues[e] \in Seq(Int)
    /\ DOMAIN EnumValues \cap NotEnums = {}

\* b^n, and the least member of a set.
Power(b, n) == LET p[k \in 0..n] == IF k = 0 THEN 1 ELSE b * p[k - 1] IN p[n]
Least(S) == CHOOSE m \in S : \A n \in S : m <= n

Scale == Power(Base, Places)
Enums == DOMAIN EnumValues
Integral == {"int", "uint"}
Numeric  == Integral \cup {"float", "fixed"}

Val(f, n) == [fam |-> f, v |-> n]
Bool(b)   == Val("bool", IF b THEN 1 ELSE 0)
Fail      == Val("error", 0)
Missing   == Val("missing", 0)      \* MissingInput, MissingCalibration
True      == Bool(TRUE)

\* as_bool: only a Boolean has a truth value; a condition that is not one fails.
IsBool(x) == x.fam = "bool"

-----------------------------------------------------------------------------
(* Words *)

SignBit == Power(2, Width - 1)
Words   == 2 * SignBit
IntMin  == -SignBit
IntMax  == SignBit - 1
UIntMax == Words - 1
AsUnsigned(n) == n % Words
AsSigned(n)   == ((n - IntMin) % Words) + IntMin

Magnitude(n) == IF n < 0 THEN -n ELSE n
Sign(n) == IF n > 0 THEN 1 ELSE IF n < 0 THEN -1 ELSE 0
Quotient(a, b)  == Sign(a) * Sign(b) * (Magnitude(a) \div Magnitude(b))

(* Mutant: the remainder of Euclid instead of that of a truncated quotient.   *)
EuclidRemainder(a, b) == a % Magnitude(b)

Remainder(a, b) == a - b * Quotient(a, b)

Bits(n) == {i \in 0..(Width - 1) : (n \div Power(2, i)) % 2 = 1}
\* Bit by bit from the highest one.
FromBits(S) == LET f[i \in 0..Width] == IF i = 0 THEN 0 ELSE 2 * f[i - 1] + IF Width - i \in S THEN 1 ELSE 0
               IN  f[Width]

-----------------------------------------------------------------------------
(* Floats, in units of 1/Scale *)

FloatMax == (Power(2, FloatBits) - 1) * Power(2, FloatExp)
PosInf == FloatMax + 1
NegInf == -PosInf
NaN    == FloatMax + 2
IsFinite(x) == x \in (-FloatMax)..FloatMax

\* The integer nearest to p/q, a tie to the even one.
Nearest(p, q) ==
    IF 2 * (p % q) < q \/ (2 * (p % q) = q /\ (p \div q) % 2 = 0) THEN p \div q ELSE p \div q + 1

\* The spacing of floats around n, and the float nearest to p/q units.
Exponents(n)     == {e \in 0..FloatExp : e = FloatExp \/ Magnitude(n) < Power(2, FloatBits + e)}
Spacing(n)       == Power(2, Least(Exponents(n)))
Spaced(n, step)  == Nearest(n, step) * step
Bounded(n)       == IF Magnitude(n) > FloatMax THEN Sign(n) * PosInf ELSE n
Short(n)         == Bounded(Spaced(n, Spacing(n)))
RoundFloat(p, q) == Short(Nearest(p, q))

\* as_f32: the operands of a float operation are rounded before it.
ToFloat(x) == CASE x.fam \in Integral -> RoundFloat(x.v * Scale, 1)
                [] x.fam = "fixed"    -> RoundFloat(x.v, 1)
                [] OTHER              -> x.v

\* as_f64: exact, for table coordinates and validation ranges.
Exact(x) == IF x.fam \in Integral THEN x.v * Scale ELSE x.v

FloatAdd(a, b) == IF a = NaN \/ b = NaN THEN NaN
                  ELSE IF IsFinite(a) /\ IsFinite(b) THEN RoundFloat(a + b, 1)
                  ELSE IF IsFinite(a) THEN b
                  ELSE IF IsFinite(b) \/ a = b THEN a ELSE NaN

FloatMul(a, b) == IF a = NaN \/ b = NaN THEN NaN
                  ELSE IF IsFinite(a) /\ IsFinite(b) THEN RoundFloat(a * b, Scale)
                  ELSE IF a = 0 \/ b = 0 THEN NaN ELSE Sign(a) * Sign(b) * PosInf

FloatDiv(a, b) == IF a = NaN \/ b = NaN THEN NaN
                  ELSE IF ~IsFinite(b) THEN (IF IsFinite(a) THEN 0 ELSE NaN)
                  ELSE IF b = 0 THEN (IF a = 0 THEN NaN ELSE Sign(a) * PosInf)
                  ELSE IF ~IsFinite(a) THEN a * Sign(b)
                  ELSE RoundFloat(Sign(b) * a * Scale, Magnitude(b))

FloatRem(a, b) == IF a = NaN \/ b = NaN \/ ~IsFinite(a) \/ b = 0 THEN NaN
                  ELSE IF ~IsFinite(b) THEN a ELSE Remainder(a, b)

Negated(x) == IF x = NaN THEN NaN ELSE -x

-----------------------------------------------------------------------------
(* Operators *)

\* numeric_join: the family two operands are brought to. A fixed-point operand
\* counts as a float; anything that is not a number has no family to join.
Lattice(f) == IF f = "fixed" THEN "float" ELSE f
Join(f, g) == IF ~({f, g} \subseteq Numeric) THEN "none"
              ELSE IF "float" \in {Lattice(f), Lattice(g)} THEN "float"
              ELSE IF "uint" \in {f, g} THEN "uint" ELSE "int"

\* An operand in the joined family.
Operand(j, x) == CASE j = "float" -> ToFloat(x)
                   [] j = "uint"  -> AsUnsigned(x.v)
                   [] OTHER       -> x.v

Wrapped(j, n) == Val(j, IF j = "uint" THEN AsUnsigned(n) ELSE AsSigned(n))

FloatOp(op, a, b) == CASE op = "+" -> FloatAdd(a, b)
                       [] op = "-" -> FloatAdd(a, Negated(b))
                       [] op = "*" -> FloatMul(a, b)
                       [] op = "/" -> FloatDiv(a, b)
                       [] op = "%" -> FloatRem(a, b)

IntOp(op, a, b) == CASE op = "+" -> a + b
                     [] op = "-" -> a - b
                     [] op = "*" -> a * b
                     [] op = "/" -> Quotient(a, b)
                     [] op = "%" -> Remainder(a, b)

\* arithmetic: integers wrap, and fail on a zero divisor; floats do not.
ArithmeticIn(j, op, a, b) ==
    IF j = "none" THEN Fail
    ELSE IF j = "float" THEN Val("float", FloatOp(op, a, b))
    ELSE IF op \in {"/", "%"} /\ b = 0 THEN Fail ELSE Wrapped(j, IntOp(op, a, b))
Arithmetic(op, l, r) ==
    LET j == Join(l.fam, r.fam) IN ArithmeticIn(j, op, Operand(j, l), Operand(j, r))

Ordered(op, a, b) == CASE op = "<"  -> a < b
                       [] op = ">"  -> a > b
                       [] op = "<=" -> a <= b
                       [] op = ">=" -> a >= b

(* Mutant: NaN is ordered like a number.                                      *)
CompareUnguarded(j, op, a, b) == IF j = "none" THEN Fail ELSE Bool(Ordered(op, a, b))

CompareIn(j, op, a, b) ==
    IF j = "none" THEN Fail
    ELSE Bool((j = "float" => a # NaN /\ b # NaN) /\ Ordered(op, a, b))

\* The family two values are compared in: fixed-point ones by their raw words.
Common(l, r) == IF {l.fam, r.fam} = {"fixed"} THEN "int" ELSE Join(l.fam, r.fam)

\* compare
Compare(op, l, r) ==
    LET j == Common(l, r) IN CompareIn(j, op, Operand(j, l), Operand(j, r))

EqualIn(j, a, b) == Bool((j = "float" => a # NaN) /\ a = b)

\* values_equal: numbers by value, the other kinds only among themselves.
Equal(l, r) ==
    LET j == Common(l, r) IN
    IF j # "none" THEN EqualIn(j, Operand(j, l), Operand(j, r))
    ELSE IF {l.fam, r.fam} \subseteq Enums THEN Bool(l = r)
    ELSE IF l.fam = r.fam /\ l.fam \in {"bool", "str"} THEN Bool(l.v = r.v) ELSE Fail

\* values_equal_loose: how a when clause compares; a mismatch is no match.
LooselyEqual(l, r) == Equal(l, r) = True

\* bitwise: the result has the family of the left operand; a shift counts
\* modulo the width.
Differing(S, T) == (S \cup T) \ (S \cap T)
BitOp(op, S, T) == FromBits(CASE op = "&" -> S \cap T [] op = "|" -> S \cup T [] op = "^" -> Differing(S, T))
Bitwise(op, l, r) ==
    IF ~({l.fam, r.fam} \subseteq Integral) THEN Fail
    ELSE IF op = "<<" THEN Wrapped(l.fam, AsUnsigned(l.v) * Power(2, AsUnsigned(r.v) % Width))
    ELSE IF op = ">>" THEN Wrapped(l.fam, l.v \div Power(2, AsUnsigned(r.v) % Width))
    ELSE Wrapped(l.fam, BitOp(op, Bits(AsUnsigned(l.v)), Bits(AsUnsigned(r.v))))

Opposite(x) == IF x = Fail THEN Fail ELSE Bool(x # True)

\* apply_binary_values: the operators of expressions and compound assignments.
Apply(op, l, r) ==
    CASE op \in {"+", "-", "*", "/", "%"}     -> Arithmetic(op, l, r)
      [] op \in {"<", ">", "<=", ">="}        -> Compare(op, l, r)
      [] op = "eq"                            -> Equal(l, r)
      [] op = "neq"                           -> Opposite(Equal(l, r))
      [] op \in {"&", "|", "^", "<<", ">>"}   -> Bitwise(op, l, r)

Unary(op, x) ==
    CASE op = "-" /\ x.fam = "float"                -> Val("float", Negated(x.v))
      [] op = "-" /\ x.fam \in {"int", "fixed"}     -> Val(x.fam, AsSigned(-x.v))
      [] op = "-" /\ x.fam = "uint"                 -> Val("uint", AsUnsigned(-x.v))
      [] op = "not" /\ IsBool(x)                    -> Bool(x.v = 0)
      [] op = "~" /\ x.fam \in Integral             -> Wrapped(x.fam, -1 - x.v)
      [] OTHER                                      -> Fail

-----------------------------------------------------------------------------
(* Storing a value *)

\* coerce_for_scalar_kind: the exact family of a slot that holds a number.
CoerceScalar(x, k) ==
    IF x.fam \notin Numeric THEN Fail
    ELSE IF k \in Integral /\ x.fam \in Integral THEN Wrapped(k, x.v)
    ELSE IF k = "float" THEN Val("float", ToFloat(x))
    ELSE IF k = "fixed" /\ x.fam = "fixed" THEN x ELSE Fail

\* scalar_matches_enum_value, and the first member it finds.
Matching(x, e) == {m \in DOMAIN EnumValues[e] : Exact(x) = EnumValues[e][m] * Scale}

FirstMember(members, e) == IF members = {} THEN Fail ELSE Val(e, Least(members))

\* coerce_for_channel and coerce_for_declared_type.
Coerce(x, d) ==
    IF d = "unknown" THEN x
    ELSE IF x.fam = d /\ d \in {"bool", "str"} \cup Enums THEN x
    ELSE IF d \in Enums /\ x.fam \in Numeric THEN FirstMember(Matching(x, d), d)
    ELSE IF d \in Numeric THEN CoerceScalar(x, d) ELSE Fail

\* typed_param_default and typed_io_input_default: what an input nobody
\* supplied reads as; an enumeration starts at its first member.
DefaultOf(d) == CASE d \in {"int", "uint", "fixed", "bool", "str"} -> Val(d, 0)
                  [] d \in Enums /\ EnumValues[d] # <<>>           -> Val(d, 1)
                  [] OTHER                                         -> Val("float", 0)

\* as_enum_int
EnumInt(x) == IF x.fam \in Enums /\ x.v \in DOMAIN EnumValues[x.fam]
              THEN Val("int", EnumValues[x.fam][x.v]) ELSE Fail
=============================================================================
