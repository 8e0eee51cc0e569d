------------------------------ MODULE Numerics ------------------------------
(***************************************************************************)
(* The pure libraries of scripts: Calculate (calculate.rs), Limit          *)
(* (limit.rs), Convert (convert.rs), the exact decimal notation of fixed   *)
(* point (value.rs) and the validation rules of objects (object.rs).       *)
(* Roots, powers and trigonometric functions are left out.                 *)
(***************************************************************************)
EXTENDS Values

-----------------------------------------------------------------------------
(* Calculate and Limit *)

\* f32::max and f32::min pass over a NaN.
FloatLarger(a, b)  == CASE a = NaN -> b [] b = NaN -> a [] OTHER -> IF a < b THEN b ELSE a
FloatSmaller(a, b) == CASE a = NaN -> b [] b = NaN -> a [] OTHER -> IF b < a THEN b ELSE a

\* binary_minmax and clamp_one, in the joined family.
Larger(l, r) ==
    LET j == Join(l.fam, r.fam) IN
    IF j = "none" THEN Fail ELSE Val(j, FloatLarger(Operand(j, l), Operand(j, r)))
Smaller(l, r) ==
    LET j == Join(l.fam, r.fam) IN
    IF j = "none" THEN Fail ELSE Val(j, FloatSmaller(Operand(j, l), Operand(j, r)))

\* clamp_range: all three in one family; the upper bound wins.
Clamped(x, lo, hi) ==
    LET j == Join(Join(x.fam, lo.fam), hi.fam) IN
    IF j = "none" THEN Fail
    ELSE Val(j, FloatSmaller(FloatLarger(Operand(j, x), Operand(j, lo)), Operand(j, hi)))

\* Calculate.Modulo refuses a zero divisor in every family.
Modulo(l, r) ==
    LET j == Join(l.fam, r.fam) IN
    IF j = "none" \/ Operand(j, r) = 0 THEN Fail ELSE Arithmetic("%", l, r)

\* Calculate.Absolute: the least integer has no magnitude in its family.
Absolute(x) ==
    IF x.fam = "int" /\ x.v = IntMin THEN Fail
    ELSE IF x.fam = "int" THEN Val("int", Magnitude(x.v))
    ELSE IF x.fam = "uint" THEN x
    ELSE IF x.fam \in {"float", "fixed"} THEN Val("float", IF ToFloat(x) = NaN THEN NaN ELSE Magnitude(ToFloat(x)))
    ELSE Fail

\* f32::midpoint
FloatMidpoint(a, b) == IF IsFinite(a) /\ IsFinite(b) THEN RoundFloat(a + b, 2) ELSE FloatAdd(a, b)

\* The midpoint of two signed words: the sum when their signs differ, otherwise
\* half by half. Every intermediate is a word.
SignedMidpoint(a, b) ==
    IF Sign(a) # Sign(b)
    THEN Quotient(AsSigned(a + b), 2)
    ELSE AsSigned(AsSigned(Quotient(a, 2) + Quotient(b, 2)) + Quotient(Remainder(a, 2) + Remainder(b, 2), 2))

\* The midpoint of two unsigned words: the common bits and half the others.
UnsignedMidpoint(a, b) ==
    AsUnsigned(  FromBits(Bits(a) \cap Bits(b))
               + FromBits((Bits(a) \cup Bits(b)) \ (Bits(a) \cap Bits(b))) \div 2)

Average(l, r) ==
    LET j == Join(l.fam, r.fam)
        a == Operand(j, l)
        b == Operand(j, r)
    IN  CASE j = "none"  -> Fail
          [] j = "float" -> Val(j, FloatMidpoint(a, b))
          [] j = "uint"  -> Val(j, UnsignedMidpoint(a, b))
          [] j = "int"   -> Val(j, SignedMidpoint(a, b))

\* Calculate.Bias: -1, 0 and 1 select an end or the middle; the rest is linear.
Bias(l, r, bias) ==
    LET a == ToFloat(l)
        b == ToFloat(r)
        w == ToFloat(bias)
        half == FloatMidpoint(a, Negated(b))
        span == IF half = NaN THEN NaN ELSE Magnitude(half)
    IN  IF ~({l.fam, r.fam, bias.fam} \subseteq Numeric) THEN Fail
        ELSE Val("float", CASE w = -Scale -> FloatSmaller(a, b)
                            [] w = 0      -> FloatMidpoint(a, b)
                            [] w = Scale  -> FloatLarger(a, b)
                            [] OTHER      -> FloatAdd(FloatMidpoint(a, b), FloatMul(w, span)))

\* Floor, Ceiling, IsNAN, IsFinite.
RoundedDown(x) == IF IsFinite(x) THEN (x \div Scale) * Scale ELSE x
OfFloat(method, x) ==
    LET f == ToFloat(x) IN
    IF x.fam \notin Numeric THEN Fail
    ELSE CASE method = "Floor"    -> Val("float", RoundedDown(f))
           [] method = "Ceiling"  -> Val("float", Negated(RoundedDown(Negated(f))))
           [] method = "IsNAN"    -> Bool(f = NaN)
           [] method = "IsFinite" -> Bool(IsFinite(f))

\* calculate::call
Calculate(method, args) ==
    CASE method = "Max"      -> Larger(args[1], args[2])
      [] method = "Min"      -> Smaller(args[1], args[2])
      [] method = "Average"  -> Average(args[1], args[2])
      [] method = "Modulo"   -> Modulo(args[1], args[2])
      [] method = "Absolute" -> Absolute(args[1])
      [] method = "Bias"     -> Bias(args[1], args[2], args[3])
      [] OTHER               -> OfFloat(method, args[1])

\* limit::call: an upper bound is called Max.
Limit(method, args) ==
    CASE method = "Max"   -> Smaller(args[1], args[2])
      [] method = "Min"   -> Larger(args[1], args[2])
      [] method = "Range" -> Clamped(args[1], args[2], args[3])

-----------------------------------------------------------------------------
(* Convert *)

(* Mutant: a half is rounded up.                                              *)
HalfUp(n) == (2 * n + Scale) \div (2 * Scale)

\* The nearest integer, a half away from zero; what exceeds the word is its end.
HalfAway(n) == Quotient(n, Scale) + IF 2 * Magnitude(Remainder(n, Scale)) >= Scale THEN Sign(n) ELSE 0

Saturated(n, lo, hi) == IF n < lo THEN lo ELSE IF n > hi THEN hi ELSE n
Nearby(x) == IF x.fam \in Integral THEN x.v
             ELSE IF x.fam = "fixed" \/ IsFinite(x.v) THEN HalfAway(x.v)
             ELSE Sign(x.v) * (UIntMax + 1)

ToInteger(x) == IF x.fam \notin Numeric \/ (x.fam = "float" /\ x.v = NaN) THEN Fail
                ELSE Val("int", Saturated(Nearby(x), IntMin, IntMax))
ToUnsignedInteger(x) == IF x.fam \notin Numeric \/ (x.fam = "float" /\ x.v = NaN) THEN Fail
                        ELSE Val("uint", Saturated(Nearby(x), 0, UIntMax))
ToFixed(x) == IF x.fam \notin Integral \/ x.v * Scale \notin IntMin..IntMax THEN Fail
              ELSE Val("fixed", x.v * Scale)

\* convert::call
Convert(method, x) == CASE method = "ToInteger"         -> ToInteger(x)
                        [] method = "ToUnsignedInteger" -> ToUnsignedInteger(x)
                        [] method = "ToFixed7DP"        -> ToFixed(x)

-----------------------------------------------------------------------------
(* Decimal notation: a sign, the digits before and after the point read as   *)
(* one number, how many stand after it, and an exponent.                     *)

Decimal(neg, digits, after, exponent) ==
    [neg |-> neg, digits |-> digits, after |-> after, exponent |-> exponent]

\* parse_decimal: a digit beyond the places it keeps must be zero.
ParseDecimal(d) ==
    LET shift  == d.exponent + Places - d.after
        whole  == IF shift >= 0 THEN d.digits * Power(Base, shift) ELSE d.digits \div Power(Base, -shift)
        signed == IF d.neg THEN -whole ELSE whole
    IN  IF (shift < 0 /\ d.digits % Power(Base, -shift) # 0) \/ signed \notin IntMin..IntMax
        THEN Fail ELSE Val("fixed", signed)

\* Display: no trailing zeros after the point.
PrintDecimal(x) ==
    LET n == Magnitude(x.v)
        k == Least({p \in 0..Places : n % Power(Base, Places - p) = 0})
    IN  Decimal(x.v < 0, n \div Power(Base, Places - k), k, 0)

-----------------------------------------------------------------------------
(* Validation rules. A bound counts halves of a unit: it may lie between two *)
(* fixed-point values. A rule is a record of kind, min and max.              *)

Unit(k)   == IF k \in Integral THEN Scale ELSE 1
Top(k)    == CASE k = "int" -> IntMax [] k = "uint" -> UIntMax [] k = "fixed" -> IntMax [] k = "float" -> FloatMax
Bottom(k) == CASE k = "int" -> IntMin [] k = "uint" -> 0 [] k = "fixed" -> IntMin [] k = "float" -> -FloatMax

\* bound_scalar: a bound in a family, rounded into the range.
LowerBound(b, k) ==
    LET step == 2 * Unit(k) IN
    CASE b > Top(k) * step     -> Fail
      [] b <= Bottom(k) * step -> Val(k, Bottom(k))
      [] OTHER                 -> Val(k, IF k = "float" THEN RoundFloat(b, 2) ELSE -((-b) \div step))

(* Mutant: an upper bound between two values of a family is rounded up too.   *)
UpperBoundAbove(b, k) ==
    LET step == 2 * Unit(k) IN
    CASE b < Bottom(k) * step  -> Fail
      [] b >= Top(k) * step    -> Val(k, Top(k))
      [] OTHER                 -> Val(k, IF k = "float" THEN RoundFloat(b, 2) ELSE -((-b) \div step))

UpperBound(b, k) ==
    LET step == 2 * Unit(k) IN
    CASE b < Bottom(k) * step  -> Fail
      [] b >= Top(k) * step    -> Val(k, Top(k))
      [] OTHER                 -> Val(k, IF k = "float" THEN RoundFloat(b, 2) ELSE b \div step)

\* converted_rule_bounds. The rule Positive has no upper bound.
RuleFails(rule, k) ==
    \/ rule.kind = "unsupported"
    \/ LowerBound(rule.min, k) = Fail
    \/ rule.kind = "minmax" /\ \/ UpperBound(rule.max, k) = Fail
                               \/ LowerBound(rule.min, k).v > UpperBound(rule.max, k).v
TooLow(rule, x)  == x.v < LowerBound(rule.min, x.fam).v
TooHigh(rule, x) == rule.kind = "minmax" /\ x.v > UpperBound(rule.max, x.fam).v
IsNaN(x) == x.fam = "float" /\ x.v = NaN

\* rule_accepts
Accepts(rule, x) ==
    IF x.fam \notin Numeric THEN Fail
    ELSE IF rule.kind = "none" THEN True
    ELSE IF RuleFails(rule, x.fam) THEN Fail
    ELSE Bool(~IsNaN(x) /\ ~TooLow(rule, x) /\ ~TooHigh(rule, x))

\* constrain_value
Constrained(rule, x) ==
    IF rule.kind = "none" THEN x
    ELSE IF x.fam \notin Numeric \/ RuleFails(rule, x.fam) THEN Fail
    ELSE IF IsNaN(x) THEN x
    ELSE IF TooLow(rule, x) THEN LowerBound(rule.min, x.fam)
    ELSE IF TooHigh(rule, x) THEN UpperBound(rule.max, x.fam) ELSE x
=============================================================================
