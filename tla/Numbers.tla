------------------------------- MODULE Numbers -------------------------------
(***************************************************************************)
(* Numbers of different types meet: compared (numeric.rs, NumberKey),      *)
(* added and divided (doc/eval_ops.rs, functions/list.rs), given to a      *)
(* declared type (numeric.rs, fit_to_builtin), measured by a literal unit  *)
(* (doc/types/inhabit.rs) or held to a bound (doc/schema_check.rs).        *)
(*                                                                         *)
(* The types keep how they lie to each other and lose their width: i128    *)
(* and u128 are the widest integers, some of which no f64 is equal to, and *)
(* the last of which are beyond every f32.  Numbers are counted in the     *)
(* finest step of a float, of which `One` make 1.  Which float an          *)
(* operation on floats gives is left to IEEE 754; bit operations but ~,    *)
(* and shifts, are left out.                                               *)
(***************************************************************************)
EXTENDS Integers, SequencesExt

CONSTANTS Low, High,   \* the least and the greatest number of each integer type
          One,         \* how many of the finest steps of a float make 1
          Precision,   \* of each float type: how many digits a mantissa has,
          Exponents,   \* the exponents, of the finest step,
          Beyond,      \* and the power of two that is the first out of range
          Literals     \* the numbers that are written

VARIABLE numbers       \* written so far: two operands
numberVars == <<numbers>>

IntegerTypes == DOMAIN Low
FloatTypes == DOMAIN Precision

\* i128 has the least integer and u128 the greatest; a signed type has one number
\* more below 0 than above.
ASSUME IntegersAssumption ==
    /\ DOMAIN High = IntegerTypes /\ {"i128", "u128"} \subseteq IntegerTypes
    /\ IntegerTypes \cap FloatTypes = {} /\ "none" \notin IntegerTypes
    /\ \A type \in IntegerTypes :
           /\ Low[type] \in Int /\ High[type] \in Nat
           /\ Low[type] = 0 \/ Low[type] = -(High[type] + 1)
           /\ Low["i128"] <= Low[type] /\ High[type] <= High["u128"]
    /\ -Low["i128"] <= High["u128"]

\* An infinity is counted as 1 or -1, NaN as 0; what is no number is a fault.
Finite(type, n) == [type |-> type, n |-> n, is |-> "finite"]
Infinite(type, sign) == [type |-> type, n |-> sign, is |-> "infinite"]
Fault(why) == [type |-> why, n |-> 0, is |-> "fault"]
IsFloat(v) == v.type \in FloatTypes
IsNumber(v) == v.is # "fault"

NumbersInit == numbers = <<>>
NumbersNext == Len(numbers) < 2 /\ \E v \in Literals : numbers' = Append(numbers, v)
NumbersSpec == NumbersInit /\ [][NumbersNext]_numberVars
-----------------------------------------------------------------------------
Magnitude(n) == IF n < 0 THEN -n ELSE n
Sign(n) == IF n < 0 THEN -1 ELSE 1
InRange(type, n) == Low[type] * One <= n /\ n <= High[type] * One

\* The floats of a type: a mantissa and an exponent.  Of two that are equally
\* near the one with the even mantissa is taken.
Mantissas(type) == 0..2 ^ Precision[type] - 1
Floats == [type \in FloatTypes |->
              {m * 2 ^ e : m \in Mantissas(type), e \in Exponents[type]}
                  \cap (0..Beyond[type] * One)]

\* An f64 is every f32, and is in range of every integer.
ASSUME FloatsAssumption ==
    /\ FloatTypes = {"f32", "f64"} /\ DOMAIN Beyond = FloatTypes /\ One \in Nat \ {0}
    /\ \A type \in FloatTypes :
           /\ Precision[type] \in Nat \ {0} /\ Exponents[type] \subseteq Nat
           /\ Beyond[type] \in Nat \ {0} /\ {0, Beyond[type] * One} \subseteq Floats[type]
    /\ Floats["f32"] \subseteq Floats["f64"] /\ Beyond["f32"] <= Beyond["f64"]
    /\ \E last \in Floats["f64"] :
           High["u128"] * One <= last /\ last < Beyond["f64"] * One

\* What is written is a number of its type.
ASSUME LiteralsAssumption ==
    \A v \in Literals :
        /\ v = [type |-> v.type, n |-> v.n, is |-> v.is]
        /\ \/ /\ v.type \in IntegerTypes /\ v.is = "finite"
              /\ v.n \in Int /\ v.n % One = 0 /\ InRange(v.type, v.n)
           \/ /\ v.type \in FloatTypes /\ v.is = "finite" /\ v.n \in Int
              /\ Magnitude(v.n) \in Floats[v.type] \ {Beyond[v.type] * One}
           \/ v.type \in FloatTypes /\ v.is = "infinite" /\ v.n \in {1, -1}
           \/ v.type \in FloatTypes /\ v.is = "nan" /\ v.n = 0

IsEven(type, n) ==
    \E e \in Exponents[type] : \E m \in Mantissas(type) :
        /\ n = m * 2 ^ e /\ m % 2 = 0
        /\ (\A least \in Exponents[type] : e <= least) \/ m >= 2 ^ (Precision[type] - 1)

\* num / den, to the nearest float.
Rounded(type, num, den) ==
    LET n == Magnitude(num)
        below == Max({f \in Floats[type] : f * den <= n})
        above == Min({f \in Floats[type] : f * den >= n})
        Nearest == IF n - below * den < above * den - n
                      \/ (n - below * den = above * den - n /\ IsEven(type, below))
                   THEN below ELSE above
    IN  IF n >= Beyond[type] * One * den \/ Nearest = Beyond[type] * One
        THEN Infinite(type, Sign(num)) ELSE Finite(type, Sign(num) * Nearest)

\* Only the upper half of u128 is no i128.
IsI128(v) == ~IsFloat(v) /\ InRange("i128", v.n)
AsF64(v) == IF IsFloat(v) THEN [v EXCEPT !.type = "f64"] ELSE Rounded("f64", v.n, 1)
-----------------------------------------------------------------------------
(* The order.                                                              *)
Reversed(order) ==
    CASE order = "Less" -> "Greater" [] order = "Greater" -> "Less" [] OTHER -> order
Cmp(a, b) == IF a < b THEN "Less" ELSE IF a > b THEN "Greater" ELSE "Equal"

\* A whole number and a float: signs, then whole parts, then what is left.
CmpWhole_Promoted(n, float) == Cmp(Rounded("f64", n, 1).n, float.n)
CmpWhole(n, float) ==
    IF (n < 0) # (float.n < 0) THEN IF n < 0 THEN "Less" ELSE "Greater"
    ELSE LET whole == Cmp(Magnitude(n) \div One, Magnitude(float.n) \div One)
             order ==
                IF float.is = "infinite" \/ Magnitude(float.n) >= (High["u128"] + 1) * One
                   \/ (whole = "Equal" /\ Magnitude(float.n) % One # 0)
                THEN "Less" ELSE whole
         IN  IF n < 0 THEN Reversed(order) ELSE order

CmpFloats(l, r) ==
    IF l.is = "finite" /\ r.is = "finite" THEN Cmp(l.n, r.n)
    ELSE IF l.is = r.is THEN Cmp(l.n, r.n)
    ELSE IF l.is = "infinite" THEN Cmp(l.n, 0) ELSE Cmp(0, r.n)

PartialCmp(l, r) ==
    IF "nan" \in {l.is, r.is} THEN "None"
    ELSE CASE IsFloat(l) /\ IsFloat(r) -> CmpFloats(l, r)
           [] ~IsFloat(l) /\ IsFloat(r) -> CmpWhole(l.n, r)
           [] IsFloat(l) /\ ~IsFloat(r) -> Reversed(CmpWhole(r.n, l))
           [] OTHER -> Cmp(l.n, r.n)

ValuesEq(l, r) == PartialCmp(l, r) = "Equal"
Compare(op, l, r) ==
    LET order == PartialCmp(l, r)
    IN  /\ order # "None"
        /\ CASE op = "<" -> order = "Less"
             [] op = "<=" -> order # "Greater"
             [] op = ">" -> order = "Greater"
             [] op = ">=" -> order # "Less"

\* `@min` and `@max` compare what is left of the numbers as f64.
Violates(bound, l, r) ==
    CmpFloats(AsF64(l), AsF64(r)) = (IF bound = "min" THEN "Less" ELSE "Greater")
    /\ "nan" \notin {l.is, r.is}
-----------------------------------------------------------------------------
(* Arithmetic: in the type that both operands have, else in the widest.    *)
OrOverflow(type, i) == IF InRange(type, i * One) THEN Finite(type, i * One) ELSE Fault("Overflow")

Quotient(a, b) == Sign(a) * Sign(b) * (Magnitude(a) \div Magnitude(b))
Remainder(a, b) == a - b * Quotient(a, b)

\* a % b is 0 where a / b overflows.
Mod(type, a, b) == OrOverflow(type, Remainder(a, b))

Arith(op, type, a, b) ==
    CASE op = "+" -> OrOverflow(type, a + b)
      [] op = "-" -> OrOverflow(type, a - b)
      [] op = "*" -> OrOverflow(type, a * b)
      [] op \in {"/", "%"} /\ b = 0 -> Fault("DivideByZero")
      [] op = "/" /\ b # 0 -> OrOverflow(type, Quotient(a, b))
      [] op = "%" /\ b # 0 -> Mod(type, a, b)

\* The type that both operands have, or take.
Shared(l, r) ==
    IF l.type = r.type THEN l.type
    ELSE IF IsFloat(l) \/ IsFloat(r) THEN "f64"
    ELSE IF IsI128(l) /\ IsI128(r) THEN "i128"
    ELSE "none"
SomeFloat(type) == [type |-> type, n |-> 0, is |-> "IEEE 754"]

ApplyBinary(op, l, r) ==
    LET type == Shared(l, r)
    IN  IF type = "none" THEN Fault("TypeMismatch")
        ELSE IF type \in FloatTypes THEN SomeFloat(type)
        ELSE Arith(op, type, l.n \div One, r.n \div One)

\* A sum keeps the type of its first element, and asks for no other.
SumPure(items) ==
    FoldLeft(LAMBDA acc, v :
                IF ~IsNumber(acc) THEN acc
                ELSE IF v.type # acc.type THEN Fault("mixed element types")
                ELSE ApplyBinary("+", acc, v), Head(items), Tail(items))

IsSigned(type) == type \in IntegerTypes /\ Low[type] < 0
Neg(v) ==
    IF IsFloat(v) THEN [v EXCEPT !.n = -v.n]
    ELSE IF IsSigned(v.type) THEN OrOverflow(v.type, -(v.n \div One))
    ELSE Fault("TypeMismatch")
BitNot(v) ==
    IF IsFloat(v) THEN Fault("TypeMismatch")
    ELSE IF IsSigned(v.type) THEN Finite(v.type, -v.n - One)
    ELSE Finite(v.type, High[v.type] * One - v.n)
-----------------------------------------------------------------------------
(* A number in a place for a type.                                         *)
FitToFloat(v, type) ==
    LET narrowed == IF v.is # "finite" \/ v.type = type THEN [v EXCEPT !.type = type]
                    ELSE Rounded(type, v.n, 1)
    IN  IF type = "f32" /\ narrowed.is = "infinite" /\ v.is = "finite"
        THEN Fault("OutOfRange") ELSE narrowed

FitToBuiltin(v, type) ==
    IF type \in FloatTypes THEN FitToFloat(v, type)
    ELSE IF v.is # "finite" \/ v.n % One # 0 THEN Fault("NotWhole")
    ELSE IF InRange(type, v.n) THEN Finite(type, v.n)
    ELSE Fault("OutOfRange")
\* A magnitude and the factor of its unit: exactly, if both are i128 and so is
\* their product, else as f64, of which an i128 is made by cutting it off.
UnitProduct(magnitude, factor) ==
    LET whole == (magnitude.n \div One) * (factor.n \div One)
        product == Rounded("f64", AsF64(magnitude).n * AsF64(factor).n, One)
        Cut(n) == IF n < Low["i128"] * One THEN Low["i128"] * One
                  ELSE IF n > High["i128"] * One THEN High["i128"] * One ELSE n
    IN  IF IsI128(magnitude) /\ IsI128(factor) /\ InRange("i128", whole * One)
        THEN Finite("i128", whole * One)
        ELSE IF product.is # "finite" \/ product.n % One # 0 THEN Fault("fractional")
        ELSE Finite("i128", Cut(product.n))
ApplyUnitFactor(magnitude, factor, type) ==
    LET product == UnitProduct(magnitude, factor)
    IN  IF IsNumber(product) /\ ~InRange(type, product.n) THEN Fault("OutOfRange")
        ELSE IF IsNumber(product) THEN Finite(type, product.n) ELSE product
-----------------------------------------------------------------------------
Types == IntegerTypes \cup FloatTypes
IsWhole(v) == ~IsFloat(v)
IsExactly(v, float) == v.is = "finite" /\ float.is = "finite" /\ v.n = float.n

\* Where two numbers that are no NaN lie, and all that judges them by it.
OrderOf(l, r) ==
    LET Place(v) == IF v.is = "infinite" THEN v.n * (Beyond["f64"] * One) ELSE v.n
    IN  Cmp(Place(l), Place(r))
JudgedBy(order, l, r) ==
    /\ Compare("<", l, r) <=> order = "Less"
    /\ Compare(">", l, r) <=> order = "Greater"
    /\ Compare("<=", l, r) <=> order \in {"Less", "Equal"}
    /\ Compare(">=", l, r) <=> order \in {"Greater", "Equal"}
    /\ ValuesEq(l, r) <=> order = "Equal"
    /\ IsExactly(l, AsF64(l)) /\ IsExactly(r, AsF64(r)) =>
           /\ Violates("min", l, r) <=> Compare("<", l, r)
           /\ Violates("max", l, r) <=> Compare(">", l, r)

\* What a type takes it takes again unchanged, it loses nothing but what a
\* float rounds, and it keeps the order.  A type of whole numbers takes what
\* one of them is equal to.
FitsIn(type, l, r) ==
    LET f == FitToBuiltin(l, type)
        g == FitToBuiltin(r, type)
    IN  /\ IsNumber(f) => /\ FitToBuiltin(f, type) = f /\ f.is = l.is
                          /\ type \in IntegerTypes => ValuesEq(f, l)
        /\ type \in IntegerTypes =>
               (IsNumber(f) <=> \E i \in Low[type]..High[type] :
                                   ValuesEq(Finite(type, i * One), l))
        /\ IsNumber(f) /\ IsNumber(g) /\ Compare("<=", l, r) => Compare("<=", f, g)

(* The operators, sorting and the bounds of a field order any two numbers  *)
(* alike, and as they lie, whatever their types; a bound only where its    *)
(* f64 is exact.  The types a field may have do not disturb that order.    *)
OrderIsExact ==
    Len(numbers) = 2 =>
        LET l == numbers[1]
            r == numbers[2]
        IN  IF "nan" \in {l.is, r.is} THEN JudgedBy("None", l, r)
            ELSE JudgedBy(OrderOf(l, r), l, r) /\ \A type \in Types : FitsIn(type, l, r)

\* Whether i is what the operator makes of the whole numbers a and b.  (Only
\* one number is a quotient: it leaves a rest smaller than b, of the sign of a.)
IsQuotient(q, a, b) ==
    LET rest == a - q * b
    IN  Magnitude(rest) < Magnitude(b) /\ (rest = 0 \/ Sign(rest) = Sign(a))
IsResult(op, i, a, b) ==
    CASE op = "+" -> i = a + b
      [] op = "-" -> i + b = a
      [] op = "*" -> i = a * b
      [] op = "/" -> IsQuotient(i, a, b)
      [] op = "%" -> \E q \in -Magnitude(a)..Magnitude(a) :
                         i = a - q * b /\ IsQuotient(q, a, b)
Computes(op, l, r) ==
    LET type == Shared(l, r)
        v == ApplyBinary(op, l, r)
        Is(i) == IsResult(op, i, l.n \div One, r.n \div One)
    IN  IF IsNumber(v) THEN v.type = type /\ InRange(type, v.n) /\ Is(v.n \div One)
        ELSE \/ type = "none" \/ (op \in {"/", "%"} /\ r.n = 0)
             \/ ~\E i \in Low[type]..High[type] : Is(i)

\* The same through other operators.
Agrees(l, r) ==
    LET less == ApplyBinary("-", l, r)
    IN  /\ IsNumber(less) =>
               /\ Compare("<", l, r) <=> Compare("<", less, Finite(less.type, 0))
               /\ ValuesEq(ApplyBinary("+", less, r), l)
        /\ IsSigned(l.type) /\ IsNumber(Neg(l)) =>
               /\ InRange(l.type, Neg(l).n)
               /\ ValuesEq(ApplyBinary("-", Neg(l), Finite(l.type, One)), BitNot(l))
        /\ SumPure(numbers) = (IF l.type = r.type THEN ApplyBinary("+", l, r)
                                ELSE Fault("mixed element types"))

\* A literal with a unit, unless its product is wider than i128, or too long
\* for an f64 where it is not computed with whole numbers.
Measures(type, l, r) ==
    LET v == ApplyUnitFactor(l, r, type)
        InF64 == IsExactly(l, AsF64(l)) /\ IsExactly(r, AsF64(r))
                 /\ Rounded("f64", l.n * r.n, One).n * One = l.n * r.n
    IN  /\ (IsI128(l) /\ IsI128(r)) \/ InF64
        /\ IsNumber(v) /\ InRange("i128", (l.n * r.n) \div One)
        => v.n % One = 0 /\ v.n * One = l.n * r.n

(* Whole numbers of any types are computed with exactly or not at all, and *)
(* not at all only where the type that they share has no such number; and  *)
(* what one operator says the others bear out.                             *)
ArithmeticIsExact ==
    Len(numbers) = 2 =>
        LET l == numbers[1]
            r == numbers[2]
        IN  /\ IsWhole(l) /\ IsWhole(r) =>
                   /\ \A op \in {"+", "-", "*", "/", "%"} : Computes(op, l, r)
                   /\ Agrees(l, r)
            /\ {l.is, r.is} = {"finite"} =>
                   \A type \in IntegerTypes : Measures(type, l, r)

(* Any two numbers are ordered as they lie, by all that orders them, and   *)
(* whole numbers are computed with exactly or not at all.                  *)
NumbersAreExact == OrderIsExact /\ ArithmeticIsExact
=============================================================================
