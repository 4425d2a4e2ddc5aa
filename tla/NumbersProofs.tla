---------------------------- MODULE NumbersProofs ----------------------------
(* Numbers of all types have one order, and whole numbers are computed     *)
(* with exactly or not at all, whatever the types there are, however wide  *)
(* they are, and whichever numbers are written.                            *)
(*                                                                         *)
(* The order: nothing finite lies as far as the first number that no f64   *)
(* reaches, so that an infinity can be given that place (PlacesAre), and   *)
(* PartialCmp is the order of the places (OrderedAsTheyLie).  Rounding:    *)
(* the nearest float grows with the number (ApproachedGrows), and a float  *)
(* stays (FloatsStay); so a type that takes two numbers keeps their order. *)
(* Arithmetic: each operator has one result (ArithIs), which the checked   *)
(* operation gives if the type has it.                                     *)
EXTENDS Numbers, SequenceTheorems, NaturalsInduction, WellFoundedInduction, TLAPS

(* The first number that a float type does not reach, and what may be      *)
(* written, by sort.                                                       *)
Top(type) == Beyond[type] * One
WholeNumber(v) ==
    /\ v.type \in IntegerTypes /\ v.is = "finite"
    /\ v.n \in Int /\ v.n % One = 0 /\ InRange(v.type, v.n)
FiniteFloat(v) ==
    /\ v.type \in FloatTypes /\ v.is = "finite" /\ v.n \in Int
    /\ Magnitude(v.n) \in Floats[v.type] \ {Top(v.type)}
InfiniteFloat(v) == v.type \in FloatTypes /\ v.is = "infinite" /\ v.n \in {1, -1}
Comparable(v) ==
    /\ v = [type |-> v.type, n |-> v.n, is |-> v.is]
    /\ WholeNumber(v) \/ FiniteFloat(v) \/ InfiniteFloat(v)

(* Counting in steps: the whole numbers keep their order and their sums.   *)
LEMMA OneIs == One \in Nat \ {0} /\ One \in Int /\ One >= 1
  BY FloatsAssumption

LEMMA Steps ==
    ASSUME NEW a \in Int, NEW b \in Int
    PROVE  /\ a * One \in Int /\ b * One \in Int
           /\ a <= b <=> a * One <= b * One
           /\ a < b <=> a * One < b * One
           /\ a = b <=> a * One = b * One
           /\ (a + b) * One = a * One + b * One
           /\ (a - b) * One = a * One - b * One
           /\ (-a) * One = -(a * One)
<1>1. One \in Nat \ {0} /\ One \in Int
  BY OneIs
<1>2. \A k \in Int : k >= 1 => k * One >= 1
  BY <1>1
<1>3. a * One \in Int /\ b * One \in Int
  BY <1>1
<1>4. (b - a) * One = b * One - a * One /\ (a - b) * One = a * One - b * One
  BY <1>1
<1>5. a < b => a * One < b * One
  <2> SUFFICES ASSUME a < b
               PROVE  a * One < b * One
    OBVIOUS
  <2>1. (b - a) * One >= 1
    BY <1>2
  <2> QED
    BY <1>3, <1>4, <2>1
<1>6. b < a => b * One < a * One
  <2> SUFFICES ASSUME b < a
               PROVE  b * One < a * One
    OBVIOUS
  <2>1. (a - b) * One >= 1
    BY <1>2
  <2> QED
    BY <1>3, <1>4, <2>1
<1>7. (a + b) * One = a * One + b * One /\ (-a) * One = -(a * One)
  BY <1>1
<1> QED
  BY <1>3, <1>4, <1>5, <1>6, <1>7

\* Each number of steps is whole, or lies between two that are.
LEMMA WholePart ==
    ASSUME NEW n \in Int
    PROVE  /\ n \div One \in Int /\ n % One \in Int /\ 0 <= n % One /\ n % One < One
           /\ n = (n \div One) * One + (n % One)
           /\ n >= 0 => n \div One >= 0
<1>1. One \in Nat \ {0}
  BY OneIs
<1>2. /\ n \div One \in Int /\ n % One \in Int /\ 0 <= n % One /\ n % One < One
      /\ n = One * (n \div One) + (n % One)
  BY <1>1
<1>3. n >= 0 => n \div One >= 0
  BY <1>1
<1>4. One * (n \div One) = (n \div One) * One
  BY <1>1, <1>2
<1> QED
  BY <1>2, <1>3, <1>4

LEMMA WholeSteps ==
    ASSUME NEW i \in Int
    PROVE  (i * One) \div One = i /\ (i * One) % One = 0
<1> DEFINE n == i * One
           q == n \div One
           rest == n % One
<1>1. n \in Int /\ One \in Int
  BY OneIs
<1>2. q \in Int /\ rest \in Int /\ 0 <= rest /\ rest < One /\ n = q * One + rest
  BY <1>1, WholePart
<1> HIDE DEF q, rest
<1>3. /\ q * One <= i * One
      /\ i * One < (q + 1) * One
  <2>1. (q + 1) * One = q * One + 1 * One /\ 1 * One = One
    BY <1>1, <1>2, Steps
  <2>2. q * One \in Int
    BY <1>1, <1>2
  <2> QED
    BY <1>1, <1>2, <2>1, <2>2
<1>4. q <= i /\ i < q + 1
  <2>1. q + 1 \in Int
    BY <1>2
  <2> QED
    BY <1>2, <1>3, <2>1, Steps
<1>5. q = i
  BY <1>2, <1>4
<1>6. rest = 0
  BY <1>1, <1>2, <1>5
<1> QED
  BY <1>5, <1>6 DEF q, rest

\* What is between two limits in steps is between them when it is whole.
LEMMA WholesBetween ==
    ASSUME NEW n \in Int, n % One = 0
    PROVE  /\ n \div One \in Int /\ (n \div One) * One = n
           /\ \A low, high \in Int : low * One <= n /\ n <= high * One
                                       => n \div One \in low..high
<1> DEFINE q == n \div One
           left == n % One
<1>1. q \in Int /\ n = q * One + left /\ left = 0
  BY WholePart
<1> HIDE DEF q, left
<1>2. q * One \in Int
  BY <1>1, OneIs
<1>3. q * One = n
  BY <1>1, <1>2
<1>4. ASSUME NEW low \in Int, NEW high \in Int, low * One <= n, n <= high * One
      PROVE  q \in low..high
  <2>1. low <= q
    BY <1>1, <1>3, <1>4, Steps
  <2>2. q <= high
    BY <1>1, <1>3, <1>4, Steps
  <2> QED
    BY <1>1, <2>1, <2>2
<1> QED
  BY <1>1, <1>3, <1>4 DEF q

LEMMA WrittenIs ==
    ASSUME NEW v \in Literals
    PROVE  /\ v = [type |-> v.type, n |-> v.n, is |-> v.is]
           /\ Comparable(v) \/ (v.type \in FloatTypes /\ v.is = "nan" /\ v.n = 0)
  BY LiteralsAssumption DEF Comparable, WholeNumber, FiniteFloat, InfiniteFloat, Top

(* A whole number is an integer, between the limits of all integer types,  *)
(* and no float.                                                           *)
LEMMA WholeIs ==
    ASSUME NEW v, WholeNumber(v)
    PROVE  /\ v.n \in Int /\ v.n % One = 0 /\ ~IsFloat(v) /\ v.is = "finite"
           /\ Low["i128"] \in Int /\ High["u128"] \in Nat
           /\ Low["i128"] * One <= v.n /\ v.n <= High["u128"] * One
           /\ -(High["u128"] * One) <= v.n
           /\ Low["i128"] * One \in Int /\ High["u128"] * One \in Nat
           /\ Low[v.type] \in Int /\ High[v.type] \in Int
           /\ Low[v.type] * One <= v.n /\ v.n <= High[v.type] * One
<1>1. /\ v.type \in IntegerTypes /\ v.is = "finite"
      /\ v.n \in Int /\ v.n % One = 0
      /\ Low[v.type] * One <= v.n /\ v.n <= High[v.type] * One
  BY OneIs DEF WholeNumber, InRange
<1>2. /\ "i128" \in IntegerTypes /\ "u128" \in IntegerTypes /\ v.type \notin FloatTypes
      /\ Low["i128"] <= Low[v.type] /\ High[v.type] <= High["u128"]
      /\ -Low["i128"] <= High["u128"]
  BY <1>1, IntegersAssumption
<1>3. /\ Low[v.type] \in Int /\ High[v.type] \in Nat
      /\ Low["i128"] \in Int /\ High["u128"] \in Nat
  BY <1>1, <1>2, IntegersAssumption
<1>4. ~IsFloat(v)
  BY <1>2 DEF IsFloat
<1>5. /\ Low["i128"] * One \in Int /\ Low[v.type] * One \in Int /\ High[v.type] * One \in Int
      /\ Low["i128"] * One <= Low[v.type] * One
      /\ High[v.type] * One <= High["u128"] * One
  <2>1. High[v.type] \in Int /\ High["u128"] \in Int
    BY <1>3
  <2>2. Low["i128"] * One \in Int /\ Low[v.type] * One \in Int /\ High[v.type] * One \in Int
    BY <1>3, <2>1, Steps
  <2>3. Low["i128"] * One <= Low[v.type] * One
    BY <1>2, <1>3, Steps
  <2>4. High[v.type] * One <= High["u128"] * One
    BY <1>2, <2>1, Steps
  <2> QED
    BY <2>2, <2>3, <2>4
<1>6. High["u128"] * One \in Nat /\ -(High["u128"] * One) <= Low["i128"] * One
  <2> DEFINE h == High["u128"]
             k == Low["i128"]
  <2>1. h \in Int /\ -h \in Int /\ k \in Int /\ 0 \in Int /\ 0 <= h /\ -h <= k
    BY <1>2, <1>3
  <2> HIDE DEF h, k
  <2>2. 0 * One <= h * One /\ h * One \in Int /\ (-h) * One = -(h * One) /\ (-h) * One <= k * One
    BY <2>1, Steps
  <2>3. 0 * One = 0
    BY OneIs
  <2> QED
    BY <2>2, <2>3 DEF h, k
<1>7. Low["i128"] * One <= v.n /\ v.n <= High["u128"] * One
  BY <1>1, <1>5, <1>6
<1>8. -(High["u128"] * One) <= v.n
  BY <1>1, <1>5, <1>6, <1>7
<1> QED
  BY <1>1, <1>2, <1>3, <1>4, <1>5, <1>6, <1>7, <1>8

(* The floats of a type lie between 0 and the first that is out of range.  *)
LEMMA FloatsAre ==
    ASSUME NEW type \in FloatTypes
    PROVE  /\ Beyond[type] \in Nat /\ Beyond[type] > 0
           /\ Floats[type] \subseteq Nat
           /\ \A f \in Floats[type] : f <= Top(type)
           /\ 0 \in Floats[type] /\ Top(type) \in Floats[type]
           /\ Top(type) \in Nat /\ Top(type) > 0
           /\ "f64" \in FloatTypes /\ Top("f64") \in Nat /\ Top(type) <= Top("f64")
           /\ Floats[type] \subseteq Floats["f64"]
<1>1. Beyond[type] \in Nat \ {0} /\ {0, Top(type)} \subseteq Floats[type]
  BY FloatsAssumption DEF Top
<1>2. Floats[type] \subseteq 0 .. Top(type)
  BY DEF Floats, Top
<1>3. ASSUME NEW t \in FloatTypes
      PROVE  Top(t) \in Nat /\ Top(t) > 0
  <2>1. Beyond[t] \in Nat \ {0} /\ One \in Nat \ {0}
    BY FloatsAssumption
  <2> QED
    BY <2>1 DEF Top
<1>4. \A f \in Floats[type] : f \in Nat /\ f <= Top(type)
  BY <1>2, <1>3
<1>5. /\ "f64" \in FloatTypes /\ "f32" \in FloatTypes /\ type \in {"f32", "f64"}
      /\ Floats["f32"] \subseteq Floats["f64"] /\ Beyond["f32"] <= Beyond["f64"]
      /\ Beyond["f32"] \in Int /\ Beyond["f64"] \in Int
  BY FloatsAssumption
<1>6. Top("f32") <= Top("f64")
  BY <1>5, Steps DEF Top
<1>7. Top(type) <= Top("f64") /\ Floats[type] \subseteq Floats["f64"]
  BY <1>3, <1>5, <1>6
<1> QED
  BY <1>1, <1>3, <1>4, <1>5, <1>7

(* So that nothing finite is as far as the first that no f64 reaches.      *)
Place(v) == IF v.is = "infinite" THEN v.n * Top("f64") ELSE v.n

LEMMA FarAway ==
    /\ Top("f64") \in Nat /\ Top("f64") > 0
    /\ High["u128"] \in Nat /\ High["u128"] * One \in Nat
    /\ High["u128"] * One < Top("f64")
<1>1. "f64" \in FloatTypes /\ "u128" \in IntegerTypes
  BY FloatsAssumption, IntegersAssumption
<1>2. High["u128"] \in Nat
  BY <1>1, IntegersAssumption
<1>3. Top("f64") \in Nat /\ Top("f64") > 0 /\ Floats["f64"] \subseteq Nat
  BY <1>1, FloatsAre
<1>4. PICK last \in Floats["f64"] : High["u128"] * One <= last /\ last < Top("f64")
  BY FloatsAssumption DEF Top
<1>5. High["u128"] * One \in Nat
  BY <1>2, OneIs
<1>6. last \in Nat
  BY <1>3, <1>4
<1> QED
  BY <1>2, <1>3, <1>4, <1>5, <1>6

LEMMA PlacesAre ==
    ASSUME NEW v, Comparable(v)
    PROVE  /\ v.n \in Int /\ Place(v) \in Int
           /\ v.is = "finite" => Place(v) = v.n
           /\ v.is = "finite" => -(Top("f64")) < v.n /\ v.n < Top("f64")
           /\ v.is = "infinite" => /\ v.n = 1 => Place(v) = Top("f64")
                                   /\ v.n = -1 => Place(v) = -(Top("f64"))
                                   /\ v.n \in {1, -1}
           /\ v.is \in {"finite", "infinite"}
<1>1. CASE WholeNumber(v)
  BY <1>1, WholeIs, FarAway DEF Place
<1>2. CASE FiniteFloat(v)
  <2>1. v.type \in FloatTypes /\ v.is = "finite" /\ v.n \in Int
    BY <1>2 DEF FiniteFloat
  <2>2. Magnitude(v.n) \in Floats[v.type] /\ Magnitude(v.n) # Top(v.type)
    BY <1>2 DEF FiniteFloat
  <2>3. /\ Top(v.type) \in Nat /\ Top("f64") \in Nat /\ Top(v.type) <= Top("f64")
        /\ Magnitude(v.n) <= Top(v.type)
    BY <2>1, <2>2, FloatsAre
  <2>4. Magnitude(v.n) < Top("f64")
    BY <2>1, <2>2, <2>3 DEF Magnitude
  <2> QED
    BY <2>1, <2>3, <2>4 DEF Magnitude, Place
<1>3. CASE InfiniteFloat(v)
  <2>1. v.is = "infinite" /\ v.n \in {1, -1}
    BY <1>3 DEF InfiniteFloat
  <2>2. Place(v) = v.n * Top("f64")
    BY <2>1 DEF Place
  <2> QED
    BY <2>1, <2>2, FarAway
<1> QED
  BY <1>1, <1>2, <1>3 DEF Comparable
-----------------------------------------------------------------------------
(* The order.                                                              *)

LEMMA OrdersAre ==
    ASSUME NEW a \in Int, NEW b \in Int
    PROVE  /\ Cmp(a, b) \in {"Less", "Equal", "Greater"}
           /\ Cmp(a, b) = "Less" <=> a < b
           /\ Cmp(a, b) = "Greater" <=> a > b
           /\ Cmp(a, b) = "Equal" <=> a = b
           /\ Reversed(Cmp(a, b)) = Cmp(b, a)
  BY DEF Cmp, Reversed

LEMMA FloatsAreOrdered ==
    ASSUME NEW l, NEW r, Comparable(l), Comparable(r)
    PROVE  CmpFloats(l, r) = Cmp(Place(l), Place(r))
<1>1. CASE l.is = "finite" /\ r.is = "finite"
  BY <1>1, PlacesAre DEF CmpFloats
<1>2. CASE l.is = "infinite" /\ r.is = "infinite"
  <2>1. CmpFloats(l, r) = Cmp(l.n, r.n)
    BY <1>2 DEF CmpFloats
  <2> QED
    BY <1>2, <2>1, PlacesAre, FarAway DEF Cmp
<1>3. CASE l.is = "infinite" /\ r.is = "finite"
  <2>1. CmpFloats(l, r) = Cmp(l.n, 0)
    BY <1>3 DEF CmpFloats
  <2> QED
    BY <1>3, <2>1, PlacesAre, FarAway DEF Cmp
<1>4. CASE l.is = "finite" /\ r.is = "infinite"
  <2>1. CmpFloats(l, r) = Cmp(0, r.n)
    BY <1>4 DEF CmpFloats
  <2> QED
    BY <1>4, <2>1, PlacesAre, FarAway DEF Cmp
<1> QED
  BY <1>1, <1>2, <1>3, <1>4, PlacesAre

LEMMA WholeAndFloatAreOrdered ==
    ASSUME NEW v, NEW float, WholeNumber(v), Comparable(float), ~WholeNumber(float)
    PROVE  CmpWhole(v.n, float) = Cmp(v.n, Place(float))
<1> DEFINE n == v.n
           m == float.n
           limit == High["u128"]
           whole == Cmp(Magnitude(n) \div One, Magnitude(m) \div One)
           order == IF \/ float.is = "infinite" \/ Magnitude(m) >= (limit + 1) * One
                       \/ (whole = "Equal" /\ Magnitude(m) % One # 0)
                    THEN "Less" ELSE whole
<1>1. CmpWhole(n, float) = IF (n < 0) # (m < 0) THEN IF n < 0 THEN "Less" ELSE "Greater"
                           ELSE IF n < 0 THEN Reversed(order) ELSE order
  BY OneIs DEF CmpWhole
<1>2. n \in Int /\ n % One = 0 /\ limit \in Nat /\ n <= limit * One /\ -(limit * One) <= n
  BY WholeIs
<1>3. m \in Int
  BY PlacesAre
<1>4. /\ Top("f64") \in Nat /\ limit * One < Top("f64") /\ limit * One \in Nat /\ Top("f64") > 0
      /\ One \in Nat /\ One > 0
  BY FarAway, OneIs
<1>5. CASE (n < 0) # (m < 0)
  <2>1. CASE float.is = "finite"
    <3>1. Place(float) = m
      BY <2>1, PlacesAre
    <3> QED
      BY <1>1, <1>2, <1>3, <1>5, <3>1 DEF Cmp
  <2>2. CASE float.is = "infinite"
    <3>1. CASE m = 1
      BY <1>1, <1>2, <1>4, <1>5, <2>2, <3>1, PlacesAre DEF Cmp
    <3>2. CASE m = -1
      BY <1>1, <1>2, <1>4, <1>5, <2>2, <3>2, PlacesAre DEF Cmp
    <3> QED
      BY <2>2, <3>1, <3>2, PlacesAre
  <2> QED
    BY <2>1, <2>2, PlacesAre
<1>6. CASE (n < 0) = (m < 0) /\ float.is = "infinite"
  <2>1. order = "Less"
    BY <1>6
  <2>2. CmpWhole(n, float) = IF n < 0 THEN "Greater" ELSE "Less"
    BY <1>1, <1>6, <2>1 DEF Reversed
  <2>3. CASE m = 1
    BY <1>2, <1>4, <1>6, <2>2, <2>3, PlacesAre DEF Cmp
  <2>4. CASE m = -1
    BY <1>2, <1>4, <1>6, <2>2, <2>4, PlacesAre DEF Cmp
  <2> QED
    BY <1>6, <2>3, <2>4, PlacesAre
<1>7. CASE (n < 0) = (m < 0) /\ float.is = "finite"
  <2>1. Place(float) = m
    BY <1>7, PlacesAre
  <2>2. order = Cmp(Magnitude(n), Magnitude(m))
    <3> DEFINE a == Magnitude(n)
               b == Magnitude(m)
    <3> SUFFICES order = Cmp(a, b)
      OBVIOUS
    <3>1. a \in Nat /\ b \in Nat /\ a <= limit * One /\ (a = n \/ a = -n)
      BY <1>2, <1>3, <1>4 DEF Magnitude
    <3>2. order = IF b >= (limit + 1) * One \/ (whole = "Equal" /\ b % One # 0)
                  THEN "Less" ELSE whole
      BY <1>7
    <3>3. whole = Cmp(a \div One, b \div One)
      OBVIOUS
    <3> HIDE DEF a, b, whole, order
    <3> DEFINE i == a \div One
               j == b \div One
               rest == b % One
    <3>4. i \in Int /\ a = i * One
      <4>1. n \div One \in Int /\ n = (n \div One) * One
        <5>1. n = (n \div One) * One + (n % One) /\ n \div One \in Int
          BY <1>2, WholePart
        <5> DEFINE q == n \div One
                   left == n % One
        <5>2. q * One \in Int /\ left = 0
          BY <1>2, <5>1, OneIs
        <5> HIDE DEF q, left
        <5>3. n = q * One + left /\ q \in Int
          BY <5>1 DEF q, left
        <5> QED
          BY <5>2, <5>3 DEF q
      <4>2. PICK k \in Int : a = k * One
        <5> DEFINE q == n \div One
        <5> HIDE DEF q
        <5>1. q \in Int /\ n = q * One
          BY <4>1 DEF q
        <5>2. -q \in Int /\ (-q) * One = -(q * One)
          BY <5>1, Steps
        <5>3. a = q * One \/ a = (-q) * One
          BY <3>1, <5>1, <5>2
        <5> QED
          BY <5>1, <5>2, <5>3
      <4> QED
        BY <4>2, WholeSteps
    <3>5. /\ j \in Int /\ rest \in Int /\ 0 <= rest /\ rest < One /\ b = j * One + rest
          /\ j * One \in Int /\ i * One \in Int
      BY <3>1, <3>4, WholePart, OneIs
    <3>6. /\ i < j <=> i * One < j * One
          /\ i > j <=> i * One > j * One
          /\ i = j <=> i * One = j * One
          /\ i > j <=> j + 1 <= i
          /\ j + 1 <= i <=> (j + 1) * One <= i * One
          /\ (j + 1) * One = j * One + One
      <4>1. j + 1 \in Int /\ 1 * One = One
        BY <3>5, OneIs
      <4>2. (j + 1) * One = j * One + 1 * One
        BY <3>5, Steps
      <4>3. i > j <=> j + 1 <= i
        BY <3>4, <3>5
      <4> QED
        BY <3>4, <3>5, <4>1, <4>2, <4>3, Steps
    <3> HIDE DEF i, j, rest
    <3>7. /\ order = IF b >= (limit + 1) * One \/ (whole = "Equal" /\ rest # 0)
                     THEN "Less" ELSE whole
          /\ whole = Cmp(i, j)
      BY <3>2, <3>3 DEF i, j, rest
    <3>8. CASE b >= (limit + 1) * One
      <4>1. (limit + 1) * One = limit * One + One
        <5>1. (limit + 1) * One = limit * One + 1 * One /\ 1 * One = One
          BY <1>2, Steps, OneIs
        <5> QED
          BY <5>1
      <4>2. a < b
        BY <1>2, <1>4, <3>1, <3>8, <4>1
      <4> QED
        BY <3>7, <3>8, <4>2 DEF Cmp
    <3>9. CASE ~(b >= (limit + 1) * One)
      <4>1. CASE i < j
        <5>1. a < b
          BY <3>4, <3>5, <3>6, <4>1
        <5> QED
          BY <3>7, <3>9, <4>1, <5>1 DEF Cmp
      <4>2. CASE i > j
        <5>1. a > b
          <6> DEFINE low == j * One
                     next == (j + 1) * One
          <6>1. /\ low \in Int /\ rest < One /\ rest \in Int /\ One \in Int
                /\ b = low + rest /\ next = low + One
            BY <3>5, <3>6, OneIs
          <6>2. next <= a /\ a \in Int
            BY <3>1, <3>4, <3>6, <4>2
          <6> HIDE DEF low, next
          <6> QED
            BY <6>1, <6>2
        <5>2. ~(a < b) /\ ~(i < j) /\ i # j
          BY <3>1, <3>4, <3>5, <4>2, <5>1
        <5> QED
          BY <3>7, <3>9, <4>2, <5>1, <5>2 DEF Cmp
      <4>3. CASE i = j
        <5>1. whole = "Equal"
          BY <3>4, <3>5, <3>7, <4>3 DEF Cmp
        <5>2. b = a + rest
          BY <3>4, <3>5, <4>3
        <5>3. CASE rest = 0
          <6>1. a = b /\ ~(a < b) /\ ~(a > b)
            BY <3>1, <5>2, <5>3
          <6> QED
            BY <3>7, <3>9, <5>1, <5>3, <6>1 DEF Cmp
        <5>4. CASE rest # 0
          <6>1. a < b
            BY <3>1, <3>5, <5>2, <5>4
          <6> QED
            BY <3>7, <5>1, <5>4, <6>1 DEF Cmp
        <5> QED
          BY <5>3, <5>4
      <4> QED
        BY <3>4, <3>5, <4>1, <4>2, <4>3
    <3> QED
      BY <3>8, <3>9
  <2>3. CmpWhole(n, float) = IF n < 0 THEN Reversed(order) ELSE order
    BY <1>1, <1>7
  <2> HIDE DEF order
  <2> QED
    BY <1>2, <1>3, <1>7, <2>1, <2>2, <2>3 DEF Magnitude, Cmp, Reversed
<1> QED
  BY <1>5, <1>6, <1>7, PlacesAre

(* Two numbers compare as they lie, whatever their types.                  *)
LEMMA OrderedAsTheyLie ==
    ASSUME NEW l, NEW r, Comparable(l), Comparable(r)
    PROVE  PartialCmp(l, r) = Cmp(Place(l), Place(r))
<1>1. /\ IsFloat(l) <=> ~WholeNumber(l)
      /\ IsFloat(r) <=> ~WholeNumber(r)
  BY WholeIs DEF Comparable, FiniteFloat, InfiniteFloat, IsFloat
<1>2. l.is # "nan" /\ r.is # "nan" /\ Place(l) \in Int /\ Place(r) \in Int
  BY PlacesAre
<1>3. CASE IsFloat(l) /\ IsFloat(r)
  <2>1. PartialCmp(l, r) = CmpFloats(l, r)
    BY <1>2, <1>3 DEF PartialCmp
  <2> QED
    BY <2>1, FloatsAreOrdered
<1>4. CASE ~IsFloat(l) /\ IsFloat(r)
  <2>1. PartialCmp(l, r) = CmpWhole(l.n, r)
    BY <1>2, <1>4 DEF PartialCmp
  <2>2. Place(l) = l.n
    BY <1>1, <1>4, WholeIs DEF Place
  <2> QED
    BY <1>1, <1>4, <2>1, <2>2, WholeAndFloatAreOrdered
<1>5. CASE IsFloat(l) /\ ~IsFloat(r)
  <2>1. PartialCmp(l, r) = Reversed(CmpWhole(r.n, l))
    BY <1>2, <1>5 DEF PartialCmp
  <2>2. Place(r) = r.n
    BY <1>1, <1>5, WholeIs DEF Place
  <2>3. CmpWhole(r.n, l) = Cmp(Place(r), Place(l))
    BY <1>1, <1>5, <2>2, WholeAndFloatAreOrdered
  <2> QED
    BY <1>2, <2>1, <2>3, OrdersAre
<1>6. CASE ~IsFloat(l) /\ ~IsFloat(r)
  <2>1. PartialCmp(l, r) = Cmp(l.n, r.n)
    BY <1>2, <1>6 DEF PartialCmp
  <2>2. Place(l) = l.n /\ Place(r) = r.n
    BY <1>1, <1>6, WholeIs DEF Place
  <2> QED
    BY <2>1, <2>2
<1> QED
  BY <1>3, <1>4, <1>5, <1>6

LEMMA LeastNumber ==
    ASSUME NEW S \in SUBSET Nat, S # {}
    PROVE  Min(S) \in S /\ \A y \in S : Min(S) <= y
<1>1. PICK x \in S : \A y \in S : ~(<<y, x>> \in OpToRel(<, Nat))
  BY NatLessThanWellFounded, WFMin
<1>2. \A y \in S : x <= y
  <2> SUFFICES ASSUME NEW y \in S
               PROVE  x <= y
    OBVIOUS
  <2>1. x \in Nat /\ y \in Nat
    OBVIOUS
  <2>2. ~(y < x)
    BY <1>1, <2>1 DEF OpToRel
  <2> QED
    BY <2>1, <2>2
<1> QED
  BY <1>2 DEF Min

LEMMA GreatestNumber ==
    ASSUME NEW n \in Nat, NEW S \in SUBSET Nat, S # {}, \A x \in S : x <= n
    PROVE  Max(S) \in S /\ \A y \in S : Max(S) >= y
<1> DEFINE T == {n - x : x \in S}
<1>1. T \in SUBSET Nat /\ T # {}
  <2>1. \A x \in S : n - x \in Nat
    OBVIOUS
  <2>2. PICK x \in S : TRUE
    OBVIOUS
  <2>3. n - x \in T
    OBVIOUS
  <2> QED
    BY <2>1, <2>3
<1>2. PICK x \in S : n - x = Min(T)
  <2> HIDE DEF T
  <2>1. Min(T) \in T
    BY <1>1, LeastNumber
  <2> QED
    BY <2>1 DEF T
<1>3. \A y \in S : x >= y
  <2> SUFFICES ASSUME NEW y \in S
               PROVE  x >= y
    OBVIOUS
  <2>1. n - y \in T
    OBVIOUS
  <2> HIDE DEF T
  <2>2. Min(T) <= n - y
    BY <1>1, <2>1, LeastNumber
  <2>3. x \in Nat /\ y \in Nat
    OBVIOUS
  <2> QED
    BY <1>2, <2>2, <2>3
<1> QED
  BY <1>3 DEF Max
-----------------------------------------------------------------------------
(* Rounding.  The floats next to n / den, and the one of them it becomes.  *)
FloatBelow(type, n, den) == Max({f \in Floats[type] : f * den <= n})
FloatAbove(type, n, den) == Min({f \in Floats[type] : f * den >= n})
NearestFloat(type, n, den) ==
    LET below == FloatBelow(type, n, den)
        above == FloatAbove(type, n, den)
    IN  IF n - below * den < above * den - n
           \/ (n - below * den = above * den - n /\ IsEven(type, below))
        THEN below ELSE above

LEMMA RoundedIsNearest ==
    ASSUME NEW type, NEW num, NEW den
    PROVE  Rounded(type, num, den) =
              IF Magnitude(num) >= Top(type) * den
                 \/ NearestFloat(type, Magnitude(num), den) = Top(type)
              THEN Infinite(type, Sign(num))
              ELSE Finite(type, Sign(num) * NearestFloat(type, Magnitude(num), den))
  BY DEF Rounded, NearestFloat, FloatBelow, FloatAbove, Top

LEMMA FloatsAround ==
    ASSUME NEW type \in FloatTypes, NEW n \in Nat, NEW den \in Nat \ {0},
           n < Top(type) * den
    PROVE  /\ FloatBelow(type, n, den) \in Floats[type]
           /\ FloatBelow(type, n, den) * den <= n
           /\ \A f \in Floats[type] : f * den <= n => f <= FloatBelow(type, n, den)
           /\ FloatAbove(type, n, den) \in Floats[type]
           /\ FloatAbove(type, n, den) * den >= n
           /\ \A f \in Floats[type] : f * den >= n => f >= FloatAbove(type, n, den)
           /\ NearestFloat(type, n, den) \in Floats[type]
           /\ NearestFloat(type, n, den) \in
                  {FloatBelow(type, n, den), FloatAbove(type, n, den)}
<1> DEFINE B == {f \in Floats[type] : f * den <= n}
           A == {f \in Floats[type] : f * den >= n}
           top == Top(type)
<1>1. /\ top \in Nat /\ Floats[type] \subseteq Nat /\ \A f \in Floats[type] : f <= top
      /\ 0 \in Floats[type] /\ top \in Floats[type]
  BY FloatsAre
<1>2. top * den >= n
  BY <1>1
<1>3. top \in A /\ A \in SUBSET Nat /\ A # {}
  BY <1>1, <1>2
<1>4. 0 * den <= n
  OBVIOUS
<1>5. 0 \in B /\ B \in SUBSET Nat /\ B # {} /\ \A f \in B : f <= top
  BY <1>1, <1>4
<1> HIDE DEF top, A, B
<1>6. Max(B) \in B /\ \A f \in B : Max(B) >= f
  BY <1>1, <1>5, GreatestNumber
<1>7. Min(A) \in A /\ \A f \in A : Min(A) <= f
  BY <1>3, LeastNumber
<1>8. FloatBelow(type, n, den) = Max(B) /\ FloatAbove(type, n, den) = Min(A)
  BY DEF FloatBelow, FloatAbove, A, B
<1>9. /\ Max(B) \in Floats[type] /\ Max(B) * den <= n
      /\ \A f \in Floats[type] : f * den <= n => f <= Max(B)
  <2>1. Max(B) \in Nat
    BY <1>5, <1>6
  <2> QED
    BY <1>1, <1>6, <2>1 DEF B
<1>10. /\ Min(A) \in Floats[type] /\ Min(A) * den >= n
       /\ \A f \in Floats[type] : f * den >= n => f >= Min(A)
  <2>1. Min(A) \in Nat
    BY <1>3, <1>7
  <2> QED
    BY <1>1, <1>7, <2>1 DEF A
<1>11. NearestFloat(type, n, den) \in {FloatBelow(type, n, den), FloatAbove(type, n, den)}
  BY DEF NearestFloat
<1> QED
  BY <1>8, <1>9, <1>10, <1>11

(* What n becomes in magnitude, where infinity is the first out of range.  *)
Approached(type, n) ==
    IF n >= Top(type) THEN Top(type) ELSE NearestFloat(type, n, 1)

LEMMA ApproachedIs ==
    ASSUME NEW type \in FloatTypes, NEW n \in Nat
    PROVE  /\ Approached(type, n) \in Floats[type]
           /\ Approached(type, n) \in Nat /\ Approached(type, n) <= Top(type)
           /\ n \in Floats[type] => Approached(type, n) = n
           /\ \A f \in Floats[type] : n <= f => Approached(type, n) <= f
           /\ \A f \in Floats[type] : f <= n => f <= Approached(type, n)
<1>1. /\ Top(type) \in Nat /\ Floats[type] \subseteq Nat
      /\ \A f \in Floats[type] : f \in Nat /\ f * 1 = f /\ f <= Top(type)
      /\ Top(type) \in Floats[type]
  BY FloatsAre
<1>2. CASE n >= Top(type)
  BY <1>1, <1>2 DEF Approached
<1>3. CASE n < Top(type)
  <2> DEFINE below == FloatBelow(type, n, 1)
             above == FloatAbove(type, n, 1)
             near == NearestFloat(type, n, 1)
  <2>1. Approached(type, n) = near
    BY <1>1, <1>3 DEF Approached
  <2>2. n < Top(type) * 1 /\ 1 \in Nat \ {0}
    BY <1>1, <1>3
  <2>3. /\ below \in Floats[type] /\ below * 1 <= n
        /\ \A f \in Floats[type] : f * 1 <= n => f <= below
        /\ above \in Floats[type] /\ above * 1 >= n
        /\ \A f \in Floats[type] : f * 1 >= n => f >= above
        /\ near \in Floats[type] /\ near \in {below, above}
    BY <2>2, FloatsAround
  <2> HIDE DEF below, above, near
  <2>4. /\ below \in Nat /\ above \in Nat /\ near \in Nat /\ below <= n /\ n <= above
        /\ \A f \in Floats[type] : f <= n => f <= below
        /\ \A f \in Floats[type] : n <= f => above <= f
    BY <1>1, <2>3
  <2>5. n \in Floats[type] => near = n
    BY <2>3, <2>4
  <2>6. \A f \in Floats[type] : n <= f => near <= f
    BY <1>1, <2>3, <2>4
  <2>7. \A f \in Floats[type] : f <= n => f <= near
    BY <1>1, <2>3, <2>4
  <2> QED
    BY <1>1, <2>1, <2>3, <2>4, <2>5, <2>6, <2>7
<1> QED
  BY <1>1, <1>2, <1>3

(* Rounding keeps the order.                                               *)
LEMMA ApproachedGrows ==
    ASSUME NEW type \in FloatTypes, NEW n \in Nat, NEW m \in Nat, n <= m
    PROVE  Approached(type, n) <= Approached(type, m)
<1>1. /\ Top(type) \in Nat /\ Floats[type] \subseteq Nat
      /\ \A f \in Floats[type] : f \in Nat /\ f * 1 = f
  BY FloatsAre
<1>2. CASE m >= Top(type)
  <2>1. Approached(type, m) = Top(type)
    BY <1>2 DEF Approached
  <2> QED
    BY <2>1, ApproachedIs
<1>3. CASE m < Top(type)
  <2> DEFINE b(k) == FloatBelow(type, k, 1)
             a(k) == FloatAbove(type, k, 1)
  <2>1. n < Top(type) * 1 /\ m < Top(type) * 1 /\ 1 \in Nat \ {0}
    BY <1>1, <1>3
  <2>2. /\ Approached(type, n) = NearestFloat(type, n, 1)
        /\ Approached(type, m) = NearestFloat(type, m, 1)
    BY <1>1, <1>3 DEF Approached
  <2>3. /\ b(n) \in Floats[type] /\ b(n) * 1 <= n
        /\ \A f \in Floats[type] : f * 1 <= n => f <= b(n)
        /\ a(n) \in Floats[type] /\ a(n) * 1 >= n
        /\ \A f \in Floats[type] : f * 1 >= n => f >= a(n)
        /\ NearestFloat(type, n, 1) \in {b(n), a(n)}
    BY <2>1, FloatsAround
  <2>4. /\ b(m) \in Floats[type] /\ b(m) * 1 <= m
        /\ \A f \in Floats[type] : f * 1 <= m => f <= b(m)
        /\ a(m) \in Floats[type] /\ a(m) * 1 >= m
        /\ \A f \in Floats[type] : f * 1 >= m => f >= a(m)
        /\ NearestFloat(type, m, 1) \in {b(m), a(m)}
    BY <2>1, FloatsAround
  <2>5. /\ NearestFloat(type, n, 1) = IF n - b(n) * 1 < a(n) * 1 - n
                                         \/ (n - b(n) * 1 = a(n) * 1 - n /\ IsEven(type, b(n)))
                                      THEN b(n) ELSE a(n)
        /\ NearestFloat(type, m, 1) = IF m - b(m) * 1 < a(m) * 1 - m
                                         \/ (m - b(m) * 1 = a(m) * 1 - m /\ IsEven(type, b(m)))
                                      THEN b(m) ELSE a(m)
    BY DEF NearestFloat
  <2> HIDE DEF b, a
  <2>6. /\ b(n) \in Nat /\ a(n) \in Nat /\ b(m) \in Nat /\ a(m) \in Nat
        /\ b(n) <= n /\ n <= a(n) /\ b(m) <= m /\ m <= a(m)
    BY <1>1, <2>3, <2>4
  <2>7. CASE b(m) >= n
    <3>1. a(n) <= b(m)
      BY <1>1, <2>3, <2>4, <2>7
    <3> QED
      BY <2>2, <2>3, <2>4, <2>6, <3>1
  <2>8. CASE b(m) < n /\ a(n) <= m
    <3>1. a(n) <= b(m)
      BY <1>1, <2>3, <2>4, <2>8
    <3> QED
      BY <2>2, <2>3, <2>4, <2>6, <3>1
  <2>9. CASE b(m) < n /\ m < a(n)
    <3>1. b(m) <= b(n)
      BY <1>1, <2>3, <2>4, <2>6, <2>9
    <3>2. b(n) <= b(m)
      BY <1>1, <2>3, <2>4, <2>6
    <3>3. b(m) = b(n)
      BY <2>6, <3>1, <3>2
    <3>4. a(n) <= a(m)
      BY <1>1, <2>3, <2>4, <2>6
    <3>5. a(m) <= a(n)
      BY <1>1, <2>3, <2>4, <2>6, <2>9
    <3>6. a(m) = a(n)
      BY <2>6, <3>4, <3>5
    <3>7. CASE n = m
      BY <2>2, <2>6, <3>7, ApproachedIs
    <3>8. CASE n < m
      <4>1. CASE NearestFloat(type, n, 1) = b(n)
        BY <2>2, <2>4, <2>6, <3>3, <4>1
      <4>2. CASE NearestFloat(type, n, 1) # b(n)
        <5>1. ~(n - b(n) * 1 < a(n) * 1 - n)
          BY <2>5, <4>2
        <5>2. ~(m - b(m) * 1 < a(m) * 1 - m) /\ ~(m - b(m) * 1 = a(m) * 1 - m)
          BY <2>6, <3>3, <3>6, <3>8, <5>1
        <5>3. NearestFloat(type, m, 1) = a(m)
          BY <2>5, <5>2
        <5> QED
          BY <2>2, <2>3, <2>6, <3>6, <5>3
      <4> QED
        BY <4>1, <4>2
    <3> QED
      BY <3>7, <3>8
  <2> QED
    BY <2>6, <2>7, <2>8, <2>9
<1> QED
  BY <1>1, <1>2, <1>3

LEMMA RoundedIs ==
    ASSUME NEW type \in FloatTypes, NEW num \in Int
    PROVE  LET near == Approached(type, Magnitude(num))
           IN  Rounded(type, num, 1) =
                  IF near = Top(type) THEN Infinite(type, Sign(num))
                  ELSE Finite(type, Sign(num) * near)
<1>1. Magnitude(num) \in Nat /\ Top(type) \in Nat
  BY FloatsAre DEF Magnitude
<1>2. Top(type) * 1 = Top(type)
  BY <1>1
<1> QED
  BY <1>1, <1>2, RoundedIsNearest DEF Approached

(* A rounded number is a float of its type, which lies no further.         *)
LEMMA RoundedIsFloat ==
    ASSUME NEW type \in FloatTypes, NEW num \in Int
    PROVE  /\ Comparable(Rounded(type, num, 1))
           /\ Rounded(type, num, 1).type = type
           /\ Rounded(type, num, 1).is \in {"finite", "infinite"}
<1> DEFINE n == Magnitude(num)
           near == Approached(type, n)
           sign == Sign(num)
           v == Rounded(type, num, 1)
<1> SUFFICES Comparable(v) /\ v.type = type /\ v.is \in {"finite", "infinite"}
  OBVIOUS
<1>1. n \in Nat /\ sign \in {1, -1} /\ sign \in Int
  BY DEF Magnitude, Sign
<1>2. near \in Floats[type] /\ near \in Nat
  BY <1>1, ApproachedIs
<1>3. v = IF near = Top(type) THEN Infinite(type, sign) ELSE Finite(type, sign * near)
  BY RoundedIs
<1>4. CASE near = Top(type)
  <2>1. v = [type |-> type, n |-> sign, is |-> "infinite"]
    BY <1>3, <1>4 DEF Infinite
  <2> HIDE DEF v, sign
  <2> QED
    BY <1>1, <2>1 DEF Comparable, InfiniteFloat
<1>5. CASE near # Top(type)
  <2>1. v = [type |-> type, n |-> sign * near, is |-> "finite"]
    BY <1>3, <1>5 DEF Finite
  <2> HIDE DEF near, sign, v
  <2>2. Magnitude(sign * near) = near /\ sign * near \in Int
    BY <1>1, <1>2 DEF Magnitude
  <2> QED
    BY <1>2, <1>5, <2>1, <2>2, OneIs DEF Comparable, FiniteFloat
<1> QED
  BY <1>4, <1>5

LEMMA RoundedKeepsOrder ==
    ASSUME NEW type \in FloatTypes, NEW k \in Int, NEW m \in Int, k <= m
    PROVE  Place(Rounded(type, k, 1)) <= Place(Rounded(type, m, 1))
<1> DEFINE near(num) == Approached(type, Magnitude(num))
           to(num) == Sign(num) * (IF near(num) = Top(type) THEN Top("f64")
                                   ELSE near(num))
<1>1. /\ Top(type) \in Nat /\ Top("f64") \in Nat /\ Top(type) <= Top("f64")
      /\ Top(type) > 0 /\ 0 \in Floats[type]
  BY FloatsAre
<1>2. \A num \in Int :
          /\ Magnitude(num) \in Nat /\ Sign(num) \in {1, -1}
          /\ near(num) \in Nat /\ near(num) <= Top(type)
  BY ApproachedIs DEF Magnitude, Sign
<1>3. \A num \in Int : Place(Rounded(type, num, 1)) = to(num)
  <2> SUFFICES ASSUME NEW num \in Int
               PROVE  Place(Rounded(type, num, 1)) = to(num)
    OBVIOUS
  <2>1. Rounded(type, num, 1) =
            IF near(num) = Top(type) THEN Infinite(type, Sign(num))
            ELSE Finite(type, Sign(num) * near(num))
    BY RoundedIs
  <2> HIDE DEF near
  <2> QED
    BY <2>1, OneIs DEF Place, Infinite, Finite
<1>4. near(0) = 0
  BY <1>1, ApproachedIs DEF Magnitude
<1>5. CASE k >= 0
  <2>1. near(k) <= near(m) /\ Sign(k) = 1 /\ Sign(m) = 1
    BY <1>2, <1>5, ApproachedGrows DEF Magnitude, Sign
  <2> HIDE DEF near
  <2> QED
    BY <1>1, <1>2, <1>3, <2>1
<1>6. CASE m < 0
  <2>1. near(m) <= near(k) /\ Sign(k) = -1 /\ Sign(m) = -1
    BY <1>2, <1>6, ApproachedGrows DEF Magnitude, Sign
  <2> HIDE DEF near
  <2> QED
    BY <1>1, <1>2, <1>3, <2>1
<1>7. CASE k < 0 /\ m >= 0
  <2>1. Sign(k) = -1 /\ Sign(m) = 1
    BY <1>7 DEF Sign
  <2> HIDE DEF near
  <2> QED
    BY <1>1, <1>2, <1>3, <2>1
<1> QED
  BY <1>5, <1>6, <1>7

LEMMA FloatsStay ==
    ASSUME NEW v, Comparable(v), FiniteFloat(v)
    PROVE  Rounded(v.type, v.n, 1) = v
<1>1. /\ v.type \in FloatTypes /\ v.is = "finite" /\ v.n \in Int
      /\ Magnitude(v.n) \in Floats[v.type] /\ Magnitude(v.n) # Top(v.type)
      /\ v = [type |-> v.type, n |-> v.n, is |-> v.is]
  BY OneIs DEF Comparable, FiniteFloat
<1>2. Magnitude(v.n) \in Nat
  BY <1>1 DEF Magnitude
<1>3. Approached(v.type, Magnitude(v.n)) = Magnitude(v.n)
  BY <1>1, <1>2, ApproachedIs
<1>4. Rounded(v.type, v.n, 1) = Finite(v.type, Sign(v.n) * Magnitude(v.n))
  BY <1>1, <1>3, RoundedIs
<1>5. Sign(v.n) * Magnitude(v.n) = v.n
  BY <1>1 DEF Sign, Magnitude
<1> QED
  BY <1>1, <1>4, <1>5 DEF Finite

(* No number is out of range of an f64.                                    *)
LEMMA F64TakesAll ==
    ASSUME NEW v, Comparable(v), v.is = "finite"
    PROVE  Rounded("f64", v.n, 1).is = "finite"
<1>1. "f64" \in FloatTypes
  BY FloatsAssumption
<1>2. v.n \in Int
  BY PlacesAre
<1> DEFINE n == Magnitude(v.n)
<1>3. n \in Nat
  BY <1>2 DEF Magnitude
<1>4. PICK last \in Floats["f64"] : n <= last /\ last < Top("f64")
  <2>1. CASE WholeNumber(v)
    <3>1. PICK last \in Floats["f64"] : High["u128"] * One <= last /\ last < Top("f64")
      BY FloatsAssumption DEF Top
    <3>2. n <= High["u128"] * One /\ High["u128"] * One \in Nat
      BY <2>1, WholeIs DEF Magnitude
    <3>3. last \in Nat
      BY <1>1, FloatsAre
    <3>4. n <= last
      BY <1>3, <3>1, <3>2, <3>3
    <3> QED
      BY <3>1, <3>4
  <2>2. CASE FiniteFloat(v)
    <3>1. v.type \in FloatTypes /\ n \in Floats[v.type] /\ n # Top(v.type)
      BY <2>2, OneIs DEF FiniteFloat
    <3>2. /\ n \in Floats["f64"] /\ n <= Top(v.type) /\ Top(v.type) <= Top("f64")
          /\ Top(v.type) \in Nat /\ Top("f64") \in Nat
      BY <3>1, FloatsAre
    <3> HIDE DEF n
    <3>3. n <= n /\ n < Top("f64")
      BY <1>3, <3>1, <3>2
    <3> QED
      BY <3>2, <3>3
  <2> QED
    BY <2>1, <2>2 DEF Comparable, InfiniteFloat
<1> HIDE DEF n
<1>5. Approached("f64", n) <= last /\ Approached("f64", n) \in Nat /\ Top("f64") \in Nat
      /\ last \in Nat
  BY <1>1, <1>3, <1>4, ApproachedIs, FloatsAre
<1>6. Approached("f64", n) # Top("f64")
  BY <1>4, <1>5
<1>7. Rounded("f64", v.n, 1) = Finite("f64", Sign(v.n) * Approached("f64", n))
  BY <1>1, <1>2, <1>6, RoundedIs DEF n
<1> QED
  BY <1>7 DEF Finite
-----------------------------------------------------------------------------
(* Fitting.                                                                *)

LEMMA FloatTakes ==
    ASSUME NEW v, Comparable(v), NEW type \in FloatTypes, IsNumber(FitToFloat(v, type))
    PROVE  LET f == FitToFloat(v, type)
           IN  /\ Comparable(f) /\ f.type = type /\ f.is = v.is
               /\ f.is = "infinite" => f.n = v.n
               /\ f.is = "finite" => f = Rounded(type, v.n, 1)
               /\ FitToFloat(f, type) = f
<1> DEFINE narrowed == IF v.is # "finite" \/ v.type = type THEN [v EXCEPT !.type = type]
                       ELSE Rounded(type, v.n, 1)
           f == FitToFloat(v, type)
<1>1. v = [type |-> v.type, n |-> v.n, is |-> v.is] /\ v.is \in {"finite", "infinite"} /\ v.n \in Int
  BY PlacesAre DEF Comparable
<1>2. f = IF type = "f32" /\ narrowed.is = "infinite" /\ v.is = "finite"
          THEN Fault("OutOfRange") ELSE narrowed
  BY DEF FitToFloat
<1>3. ~(type = "f32" /\ narrowed.is = "infinite" /\ v.is = "finite") /\ f = narrowed
  <2>1. IsNumber(f)
    OBVIOUS
  <2> HIDE DEF f, narrowed
  <2> QED
    BY <1>2, <2>1 DEF IsNumber, Fault
<1>4. /\ Comparable(f) /\ f.type = type /\ f.is = v.is
      /\ f.is = "infinite" => f.n = v.n
      /\ f.is = "finite" => f = Rounded(type, v.n, 1)
  <2>1. CASE v.is = "infinite"
    <3>1. narrowed = [v EXCEPT !.type = type]
      BY <2>1
    <3>2. narrowed = [type |-> type, n |-> v.n, is |-> "infinite"]
      BY <1>1, <2>1, <3>1
    <3>3. v.n \in {1, -1}
      BY <2>1, PlacesAre
    <3>4. f = [type |-> type, n |-> v.n, is |-> "infinite"]
      BY <1>3, <3>2
    <3> HIDE DEF f
    <3> QED
      BY <2>1, <3>3, <3>4 DEF Comparable, InfiniteFloat
  <2>2. CASE v.is = "finite" /\ v.type = type
    <3>1. narrowed = [v EXCEPT !.type = type]
      BY <2>2
    <3>2. narrowed = v
      BY <1>1, <2>2, <3>1
    <3>3. FiniteFloat(v)
      BY <2>2, IntegersAssumption DEF Comparable, WholeNumber, InfiniteFloat
    <3>4. Rounded(type, v.n, 1) = v
      BY <2>2, <3>3, FloatsStay
    <3> QED
      BY <1>3, <2>2, <3>2, <3>4
  <2>3. CASE v.is = "finite" /\ v.type # type
    <3>1. f = Rounded(type, v.n, 1) /\ narrowed = f
      BY <1>3, <2>3
    <3>2. Comparable(f) /\ f.type = type /\ f.is \in {"finite", "infinite"}
      BY <1>1, <3>1, RoundedIsFloat
    <3>3. f.is = "finite"
      <4>1. CASE type = "f64"
        BY <2>3, <3>1, <4>1, F64TakesAll
      <4>2. CASE type = "f32"
        BY <1>3, <2>3, <3>1, <3>2, <4>2
      <4> QED
        BY <4>1, <4>2, FloatsAssumption
    <3> QED
      BY <2>3, <3>1, <3>2, <3>3
  <2> QED
    BY <1>1, <2>1, <2>2, <2>3
<1>5. FitToFloat(f, type) = f
  <2>1. f = [type |-> f.type, n |-> f.n, is |-> f.is] /\ f.type = type
    BY <1>4 DEF Comparable
  <2> HIDE DEF f
  <2>2. [f EXCEPT !.type = type] = f
    BY <2>1
  <2> QED
    BY <2>1, <2>2 DEF FitToFloat
<1> QED
  BY <1>4, <1>5

(* What an integer type takes is the number itself.                        *)
LEMMA IntegerTakes ==
    ASSUME NEW v, Comparable(v), NEW type \in IntegerTypes
    PROVE  LET f == FitToBuiltin(v, type)
           IN  /\ IsNumber(f) <=> v.is = "finite" /\ v.n % One = 0 /\ InRange(type, v.n)
               /\ IsNumber(f) => /\ f = Finite(type, v.n) /\ Comparable(f)
                                 /\ Place(f) = Place(v) /\ f.is = v.is
<1>1. type \notin FloatTypes
  BY IntegersAssumption
<1>2. FitToBuiltin(v, type) = IF v.is # "finite" \/ v.n % One # 0 THEN Fault("NotWhole")
                              ELSE IF InRange(type, v.n) THEN Finite(type, v.n)
                              ELSE Fault("OutOfRange")
  BY <1>1 DEF FitToBuiltin
<1>3. v.n \in Int
  BY PlacesAre
<1>4. IsNumber(FitToBuiltin(v, type)) <=> v.is = "finite" /\ v.n % One = 0 /\ InRange(type, v.n)
  BY <1>2 DEF IsNumber, Fault, Finite
<1>5. ASSUME v.is = "finite", v.n % One = 0, InRange(type, v.n)
      PROVE  /\ Comparable(Finite(type, v.n)) /\ Place(Finite(type, v.n)) = v.n
             /\ Place(v) = v.n /\ Finite(type, v.n).is = "finite"
  BY <1>3, <1>5 DEF Comparable, WholeNumber, Finite, Place
<1> QED
  BY <1>2, <1>4, <1>5

LEMMA ComparedAsTheyLie ==
    ASSUME NEW l, NEW r, Comparable(l), Comparable(r)
    PROVE  /\ Place(l) \in Int /\ Place(r) \in Int
           /\ Compare("<", l, r) <=> Place(l) < Place(r)
           /\ Compare(">", l, r) <=> Place(l) > Place(r)
           /\ Compare("<=", l, r) <=> Place(l) <= Place(r)
           /\ Compare(">=", l, r) <=> Place(l) >= Place(r)
           /\ ValuesEq(l, r) <=> Place(l) = Place(r)
<1> DEFINE order == PartialCmp(l, r)
<1>1. Place(l) \in Int /\ Place(r) \in Int
  BY PlacesAre
<1>2. order = Cmp(Place(l), Place(r))
  BY OrderedAsTheyLie
<1>3. /\ Compare("<", l, r) <=> order # "None" /\ order = "Less"
      /\ Compare(">", l, r) <=> order # "None" /\ order = "Greater"
      /\ Compare("<=", l, r) <=> order # "None" /\ order # "Greater"
      /\ Compare(">=", l, r) <=> order # "None" /\ order # "Less"
      /\ ValuesEq(l, r) <=> order = "Equal"
  BY DEF Compare, ValuesEq
<1> HIDE DEF order
<1> QED
  BY <1>1, <1>2, <1>3 DEF Cmp

(* The operators and the bounds, of two numbers and with a NaN.            *)
LEMMA JudgedAsTheyLie ==
    ASSUME NEW l, NEW r, Comparable(l), Comparable(r)
    PROVE  JudgedBy(OrderOf(l, r), l, r)
<1>1. Place(l) \in Int /\ Place(r) \in Int
  BY PlacesAre
<1>2. OrderOf(l, r) = Cmp(Place(l), Place(r))
  BY DEF OrderOf, Place, Top
<1>3. ASSUME IsExactly(l, AsF64(l)), IsExactly(r, AsF64(r))
      PROVE  /\ Violates("min", l, r) <=> Compare("<", l, r)
             /\ Violates("max", l, r) <=> Compare(">", l, r)
  <2>1. /\ l.is = "finite" /\ AsF64(l).is = "finite" /\ AsF64(l).n = l.n
        /\ r.is = "finite" /\ AsF64(r).is = "finite" /\ AsF64(r).n = r.n
    BY <1>3 DEF IsExactly
  <2>2. CmpFloats(AsF64(l), AsF64(r)) = Cmp(l.n, r.n)
    BY <2>1 DEF CmpFloats
  <2>3. Place(l) = l.n /\ Place(r) = r.n
    BY <2>1, PlacesAre
  <2>4. /\ Violates("min", l, r) <=> Cmp(l.n, r.n) = "Less"
        /\ Violates("max", l, r) <=> Cmp(l.n, r.n) = "Greater"
    BY <2>1, <2>2 DEF Violates
  <2> QED
    BY <1>1, <2>3, <2>4, ComparedAsTheyLie, OrdersAre
<1>4. /\ Compare("<", l, r) <=> OrderOf(l, r) = "Less"
      /\ Compare(">", l, r) <=> OrderOf(l, r) = "Greater"
      /\ Compare("<=", l, r) <=> OrderOf(l, r) \in {"Less", "Equal"}
      /\ Compare(">=", l, r) <=> OrderOf(l, r) \in {"Greater", "Equal"}
      /\ ValuesEq(l, r) <=> OrderOf(l, r) = "Equal"
  BY <1>1, <1>2, ComparedAsTheyLie DEF Cmp
<1> QED
  BY <1>3, <1>4 DEF JudgedBy

LEMMA NothingIsNaN ==
    ASSUME NEW l, NEW r, "nan" \in {l.is, r.is}
    PROVE  JudgedBy("None", l, r)
<1>1. PartialCmp(l, r) = "None"
  BY DEF PartialCmp
<1>2. ~IsExactly(l, AsF64(l)) \/ ~IsExactly(r, AsF64(r))
  BY DEF IsExactly
<1> QED
  BY <1>1, <1>2 DEF JudgedBy, Compare, ValuesEq

LEMMA IntegersFit ==
    ASSUME NEW l, NEW r, Comparable(l), Comparable(r), NEW type \in IntegerTypes
    PROVE  FitsIn(type, l, r)
<1> DEFINE f == FitToBuiltin(l, type)
           g == FitToBuiltin(r, type)
<1>1. /\ IsNumber(f) <=> l.is = "finite" /\ l.n % One = 0 /\ InRange(type, l.n)
      /\ IsNumber(f) => f = Finite(type, l.n) /\ Comparable(f) /\ Place(f) = Place(l) /\ f.is = l.is
  BY IntegerTakes
<1>2. IsNumber(g) => Comparable(g) /\ Place(g) = Place(r)
  BY IntegerTakes
<1>3. l.n \in Int /\ Low[type] \in Int /\ High[type] \in Int
  BY PlacesAre, IntegersAssumption
<1> HIDE DEF g
<1>4. ASSUME IsNumber(f)
      PROVE  FitToBuiltin(f, type) = f /\ f.is = l.is /\ ValuesEq(f, l)
  <2>1. Comparable(f) /\ f = Finite(type, l.n) /\ f.n = l.n /\ f.is = l.is /\ Place(f) = Place(l)
    BY <1>1, <1>4 DEF Finite
  <2>2. l.is = "finite" /\ l.n % One = 0 /\ InRange(type, l.n)
    BY <1>1, <1>4
  <2> HIDE DEF f
  <2>3. IsNumber(FitToBuiltin(f, type))
    BY <2>1, <2>2, IntegerTakes
  <2>4. FitToBuiltin(f, type) = Finite(type, f.n)
    BY <2>1, <2>3, IntegerTakes
  <2> QED
    BY <2>1, <2>4, ComparedAsTheyLie
<1> HIDE DEF f
<1>5. IsNumber(f) <=> \E i \in Low[type]..High[type] : ValuesEq(Finite(type, i * One), l)
  <2>1. ASSUME NEW i \in Low[type]..High[type]
        PROVE  ValuesEq(Finite(type, i * One), l) <=> l.is = "finite" /\ i * One = l.n
    <3> DEFINE v == Finite(type, i * One)
    <3>1. i \in Int /\ Low[type] <= i /\ i <= High[type]
      BY <1>3
    <3>2. v = [type |-> type, n |-> i * One, is |-> "finite"]
      BY OneIs DEF Finite
    <3>3. i * One \in Int /\ (i * One) % One = 0 /\ Low[type] * One <= i * One /\ i * One <= High[type] * One
      <4>1. i * One \in Int /\ Low[type] * One <= i * One
        BY <1>3, <3>1, Steps
      <4>2. i * One <= High[type] * One
        BY <1>3, <3>1, Steps
      <4> QED
        BY <3>1, <4>1, <4>2, WholeSteps
    <3> HIDE DEF v
    <3>4. WholeNumber(v)
      BY <3>2, <3>3, OneIs DEF WholeNumber, InRange
    <3>5. Comparable(v) /\ Place(v) = i * One
      BY <3>2, <3>4 DEF Comparable, Place
    <3>6. ValuesEq(v, l) <=> i * One = Place(l)
      BY <3>5, ComparedAsTheyLie
    <3>7. i * One = Place(l) => l.is = "finite"
      <4>1. -(Top("f64")) < i * One /\ i * One < Top("f64")
        BY <3>2, <3>5, PlacesAre
      <4> QED
        BY <3>1, <4>1, FarAway, PlacesAre
    <3> QED
      BY <3>6, <3>7, PlacesAre DEF v
  <2>2. ASSUME IsNumber(f)
        PROVE  \E i \in Low[type]..High[type] : ValuesEq(Finite(type, i * One), l)
    <3>1. l.is = "finite" /\ l.n % One = 0 /\ Low[type] * One <= l.n /\ l.n <= High[type] * One
      BY <1>1, <2>2, OneIs DEF InRange
    <3>2. l.n \div One \in Low[type]..High[type] /\ (l.n \div One) * One = l.n
      BY <1>3, <3>1, WholesBetween
    <3> QED
      BY <2>1, <3>1, <3>2
  <2>3. ASSUME NEW i \in Low[type]..High[type], ValuesEq(Finite(type, i * One), l)
        PROVE  IsNumber(f)
    <3>1. l.is = "finite" /\ i * One = l.n
      BY <2>1, <2>3
    <3>2. l.n % One = 0 /\ Low[type] * One <= l.n /\ l.n <= High[type] * One
      <4>1. i \in Int /\ Low[type] <= i /\ i <= High[type]
        BY <1>3
      <4>2. Low[type] * One <= i * One
        BY <1>3, <4>1, Steps
      <4>3. i * One <= High[type] * One
        BY <1>3, <4>1, Steps
      <4> QED
        BY <3>1, <4>1, <4>2, <4>3, WholeSteps
    <3> QED
      BY <1>1, <3>1, <3>2, OneIs DEF InRange
  <2> QED
    BY <2>2, <2>3
<1>6. IsNumber(f) /\ IsNumber(g) /\ Compare("<=", l, r) => Compare("<=", f, g)
  BY <1>1, <1>2, ComparedAsTheyLie
<1> QED
  BY <1>4, <1>5, <1>6 DEF FitsIn, f, g

LEMMA FloatsFit ==
    ASSUME NEW l, NEW r, Comparable(l), Comparable(r), NEW type \in FloatTypes
    PROVE  FitsIn(type, l, r)
<1> DEFINE f == FitToFloat(l, type)
           g == FitToFloat(r, type)
<1>1. type \notin IntegerTypes
  BY IntegersAssumption
<1>2. /\ FitToBuiltin(l, type) = f /\ FitToBuiltin(r, type) = g
      /\ FitToBuiltin(f, type) = FitToFloat(f, type)
  BY DEF FitToBuiltin
<1>3. IsNumber(f) => /\ Comparable(f) /\ f.is = l.is /\ FitToFloat(f, type) = f
                     /\ f.is = "infinite" => f.n = l.n
                     /\ f.is = "finite" => f = Rounded(type, l.n, 1)
  BY FloatTakes
<1>4. IsNumber(g) => /\ Comparable(g) /\ g.is = r.is
                     /\ g.is = "infinite" => g.n = r.n
                     /\ g.is = "finite" => g = Rounded(type, r.n, 1)
  BY FloatTakes
<1> HIDE DEF f, g
<1>5. ASSUME IsNumber(f), IsNumber(g), Compare("<=", l, r)
      PROVE  Compare("<=", f, g)
  <2>1. Place(l) <= Place(r) /\ Place(l) \in Int /\ Place(r) \in Int
    BY <1>5, ComparedAsTheyLie
  <2>2. Comparable(f) /\ Comparable(g) /\ f.is = l.is /\ g.is = r.is
    BY <1>3, <1>4, <1>5
  <2>3. Place(f) <= Place(g)
    <3>1. CASE l.is = "finite" /\ r.is = "finite"
      <4>1. l.n \in Int /\ r.n \in Int /\ l.n <= r.n
        BY <2>1, <3>1, PlacesAre
      <4> QED
        BY <1>3, <1>4, <1>5, <2>2, <3>1, <4>1, RoundedKeepsOrder
    <3>2. CASE l.is = "infinite" /\ l.n = -1
      <4>1. Place(f) = -(Top("f64"))
        BY <1>3, <1>5, <2>2, <3>2, PlacesAre
      <4> QED
        BY <2>2, <4>1, PlacesAre, FarAway
    <3>3. CASE l.is = "infinite" /\ l.n = 1
      <4>1. Place(l) = Top("f64")
        BY <3>3, PlacesAre
      <4>2. r.is = "infinite" /\ r.n = 1
        BY <2>1, <4>1, PlacesAre, FarAway
      <4>3. Place(g) = Top("f64") /\ Place(f) = Top("f64")
        BY <1>3, <1>4, <1>5, <2>2, <3>3, <4>2, PlacesAre
      <4> QED
        BY <4>3, FarAway
    <3>4. CASE r.is = "infinite" /\ r.n = 1
      <4>1. Place(g) = Top("f64")
        BY <1>4, <1>5, <2>2, <3>4, PlacesAre
      <4> QED
        BY <2>2, <4>1, PlacesAre, FarAway
    <3>5. CASE r.is = "infinite" /\ r.n = -1
      <4>1. Place(r) = -(Top("f64"))
        BY <3>5, PlacesAre
      <4>2. l.is = "infinite" /\ l.n = -1
        BY <2>1, <4>1, PlacesAre, FarAway
      <4>3. Place(g) = -(Top("f64")) /\ Place(f) = -(Top("f64"))
        BY <1>3, <1>4, <1>5, <2>2, <3>5, <4>2, PlacesAre
      <4> QED
        BY <4>3, FarAway
    <3> QED
      BY <3>1, <3>2, <3>3, <3>4, <3>5, PlacesAre
  <2> QED
    BY <2>2, <2>3, ComparedAsTheyLie
<1> QED
  BY <1>1, <1>2, <1>3, <1>5 DEF FitsIn

LEMMA TwoWritten ==
    ASSUME numbers \in Seq(Literals), Len(numbers) = 2
    PROVE  /\ numbers[1] \in Literals /\ numbers[2] \in Literals
           /\ numbers = <<numbers[1], numbers[2]>>
<1>1. 1 \in 1 .. Len(numbers) /\ 2 \in 1 .. Len(numbers)
  OBVIOUS
<1> QED
  BY <1>1

LEMMA WrittenAreOrdered ==
    ASSUME numbers \in Seq(Literals)
    PROVE  OrderIsExact
<1> SUFFICES ASSUME Len(numbers) = 2
             PROVE  LET l == numbers[1]
                        r == numbers[2]
                    IN  IF "nan" \in {l.is, r.is} THEN JudgedBy("None", l, r)
                        ELSE JudgedBy(OrderOf(l, r), l, r) /\ \A type \in Types : FitsIn(type, l, r)
  BY DEF OrderIsExact
<1> DEFINE l == numbers[1]
           r == numbers[2]
<1>1. l \in Literals /\ r \in Literals
  BY TwoWritten
<1> HIDE DEF l, r
<1>2. CASE "nan" \in {l.is, r.is}
  BY <1>2, NothingIsNaN DEF l, r
<1>3. CASE "nan" \notin {l.is, r.is}
  <2>1. Comparable(l) /\ Comparable(r)
    BY <1>1, <1>3, WrittenIs
  <2>2. JudgedBy(OrderOf(l, r), l, r)
    BY <2>1, JudgedAsTheyLie
  <2>3. \A type \in Types : FitsIn(type, l, r)
    BY <2>1, IntegersFit, FloatsFit DEF Types
  <2> QED
    BY <1>3, <2>2, <2>3 DEF l, r
<1> QED
  BY <1>2, <1>3

(* Division of whole numbers.                                              *)
LEMMA DivisionOfNaturals ==
    ASSUME NEW a \in Nat, NEW b \in Nat \ {0}
    PROVE  /\ a \div b \in Nat /\ a \div b <= a
           /\ b * (a \div b) <= a /\ a < b * (a \div b) + b
<1>1. a = b * (a \div b) + (a % b) /\ 0 <= a % b /\ a % b < b /\ a \div b \in Nat
  OBVIOUS
<1>2. a \div b <= b * (a \div b)
  BY <1>1
<1> QED
  BY <1>1, <1>2

LEMMA MagnitudeIs ==
    ASSUME NEW n \in Int
    PROVE  Magnitude(n) \in Nat /\ Sign(n) \in {1, -1} /\ n = Sign(n) * Magnitude(n)
  BY DEF Magnitude, Sign

LEMMA QuotientIs ==
    ASSUME NEW a \in Int, NEW b \in Int, b # 0
    PROVE  /\ Quotient(a, b) \in -Magnitude(a) .. Magnitude(a)
           /\ IsQuotient(Quotient(a, b), a, b)
           /\ Quotient(a, b) * b = b * Quotient(a, b)
<1> DEFINE A == Magnitude(a)
           B == Magnitude(b)
           k == A \div B
           q == Quotient(a, b)
<1> SUFFICES q \in -A .. A /\ IsQuotient(q, a, b) /\ q * b = b * q
  OBVIOUS
<1>1. A \in Nat /\ B \in Nat \ {0}
  BY DEF Magnitude
<1>2. k \in Nat /\ k <= A /\ B * k <= A /\ A < B * k + B
  BY <1>1, DivisionOfNaturals
<1>3. q = Sign(a) * Sign(b) * k
  BY DEF Quotient
<1> HIDE DEF k
<1>4. CASE a >= 0 /\ b > 0
  <2>1. A = a /\ B = b /\ q = k /\ Sign(a) = 1
    BY <1>2, <1>3, <1>4 DEF Magnitude, Sign
  <2>2. q * b = B * k /\ b * q = B * k
    BY <1>1, <1>2, <2>1
  <2> HIDE DEF q
  <2> QED
    BY <1>1, <1>2, <2>1, <2>2 DEF IsQuotient, Magnitude, Sign
<1>5. CASE a >= 0 /\ b < 0
  <2>1. A = a /\ B = -b /\ q = -k /\ Sign(a) = 1
    BY <1>2, <1>3, <1>5 DEF Magnitude, Sign
  <2>2. q * b = B * k /\ b * q = B * k
    BY <1>1, <1>2, <2>1
  <2> HIDE DEF q
  <2> QED
    BY <1>1, <1>2, <2>1, <2>2 DEF IsQuotient, Magnitude, Sign
<1>6. CASE a < 0 /\ b > 0
  <2>1. A = -a /\ B = b /\ q = -k /\ Sign(a) = -1
    BY <1>2, <1>3, <1>6 DEF Magnitude, Sign
  <2>2. q * b = -(B * k) /\ b * q = -(B * k)
    BY <1>1, <1>2, <2>1
  <2> HIDE DEF q
  <2> QED
    BY <1>1, <1>2, <2>1, <2>2 DEF IsQuotient, Magnitude, Sign
<1>7. CASE a < 0 /\ b < 0
  <2>1. A = -a /\ B = -b /\ q = k /\ Sign(a) = -1
    BY <1>2, <1>3, <1>7 DEF Magnitude, Sign
  <2>2. q * b = -(B * k) /\ b * q = -(B * k)
    BY <1>1, <1>2, <2>1
  <2> HIDE DEF q
  <2> QED
    BY <1>1, <1>2, <2>1, <2>2 DEF IsQuotient, Magnitude, Sign
<1> QED
  BY <1>4, <1>5, <1>6, <1>7

(* Only one number is a quotient.                                          *)
LEMMA OneQuotient ==
    ASSUME NEW a \in Int, NEW b \in Int, b # 0, NEW p \in Int, NEW q \in Int,
           IsQuotient(p, a, b), IsQuotient(q, a, b)
    PROVE  p = q
<1> DEFINE x == a - p * b
           y == a - q * b
           k == p - q
<1>1. x \in Int /\ y \in Int /\ k \in Int /\ y - x = k * b
  OBVIOUS
<1>2. /\ Magnitude(x) < Magnitude(b) /\ (x = 0 \/ Sign(x) = Sign(a))
      /\ Magnitude(y) < Magnitude(b) /\ (y = 0 \/ Sign(y) = Sign(a))
  BY DEF IsQuotient
<1> HIDE DEF x, y, k
<1>3. -Magnitude(b) < k * b /\ k * b < Magnitude(b)
  BY <1>1, <1>2 DEF Magnitude, Sign
<1>4. k = 0
  <2>1. CASE b > 0
    <3>1. -b < k * b /\ k * b < b
      BY <1>3, <2>1 DEF Magnitude
    <3>2. ~(k >= 1)
      BY <1>1, <2>1, <3>1
    <3>3. ~(k <= -1)
      <4> SUFFICES ASSUME k <= -1
                   PROVE  FALSE
        OBVIOUS
      <4>1. (-k) * b >= b /\ (-k) * b = -(k * b)
        BY <1>1, <2>1
      <4> QED
        BY <1>1, <2>1, <3>1, <4>1
    <3> QED
      BY <1>1, <3>2, <3>3
  <2>2. CASE b < 0
    <3> DEFINE c == -b
    <3>1. c \in Nat \ {0} /\ k * b = -(k * c)
      BY <1>1, <2>2
    <3> HIDE DEF c
    <3>2. -c < k * c /\ k * c < c
      BY <1>1, <1>3, <2>2, <3>1 DEF Magnitude, c
    <3>3. ~(k >= 1)
      BY <1>1, <3>1, <3>2
    <3>4. ~(k <= -1)
      <4> SUFFICES ASSUME k <= -1
                   PROVE  FALSE
        OBVIOUS
      <4>1. (-k) * c >= c /\ (-k) * c = -(k * c)
        BY <1>1, <3>1
      <4> QED
        BY <1>1, <3>1, <3>2, <4>1
    <3> QED
      BY <1>1, <3>3, <3>4
  <2> QED
    BY <2>1, <2>2
<1> QED
  BY <1>4 DEF k
-----------------------------------------------------------------------------
(* The operators on whole numbers.                                         *)

LEMMA InTypeOrNot ==
    ASSUME NEW type \in IntegerTypes, NEW i \in Int
    PROVE  /\ Low[type] \in Int /\ High[type] \in Int
           /\ InRange(type, i * One) <=> i \in Low[type] .. High[type]
           /\ IsNumber(OrOverflow(type, i)) <=> i \in Low[type] .. High[type]
           /\ IsNumber(OrOverflow(type, i)) =>
                  /\ OrOverflow(type, i) = [type |-> type, n |-> i * One, is |-> "finite"]
                  /\ WholeNumber(OrOverflow(type, i)) /\ Comparable(OrOverflow(type, i))
                  /\ Place(OrOverflow(type, i)) = i * One
<1>1. Low[type] \in Int /\ High[type] \in Int
  BY IntegersAssumption
<1>2. InRange(type, i * One) <=> i \in Low[type] .. High[type]
  BY <1>1, OneIs DEF InRange
<1>3. OrOverflow(type, i) = IF InRange(type, i * One) THEN [type |-> type, n |-> i * One, is |-> "finite"]
                            ELSE [type |-> "Overflow", n |-> 0, is |-> "fault"]
  BY OneIs DEF OrOverflow, Finite, Fault
<1>4. IsNumber(OrOverflow(type, i)) <=> i \in Low[type] .. High[type]
  BY <1>2, <1>3 DEF IsNumber
<1>5. ASSUME InRange(type, i * One)
      PROVE  WholeNumber([type |-> type, n |-> i * One, is |-> "finite"])
  <2>1. i * One \in Int /\ (i * One) % One = 0 /\ InRange(type, i * One)
    BY <1>5, OneIs, WholeSteps
  <2> QED
    BY <2>1, OneIs DEF WholeNumber
<1> QED
  BY <1>1, <1>2, <1>3, <1>4, <1>5 DEF Comparable, Place

LEMMA StepsOfWhole ==
    ASSUME NEW v, WholeNumber(v)
    PROVE  /\ v.n \div One \in Int /\ v.n = (v.n \div One) * One
           /\ v.type \in IntegerTypes
           /\ v.n \div One \in Low[v.type] .. High[v.type]
<1>1. /\ v.n \in Int /\ v.n % One = 0 /\ Low[v.type] \in Int /\ High[v.type] \in Int
      /\ Low[v.type] * One <= v.n /\ v.n <= High[v.type] * One /\ v.type \in IntegerTypes
  BY WholeIs DEF WholeNumber
<1> QED
  BY <1>1, OneIs

LEMMA SharedIs ==
    ASSUME NEW l, NEW r, WholeNumber(l), WholeNumber(r), Shared(l, r) # "none"
    PROVE  /\ Shared(l, r) \in IntegerTypes /\ Shared(l, r) \notin FloatTypes
           /\ l.n \div One \in Low[Shared(l, r)] .. High[Shared(l, r)]
           /\ r.n \div One \in Low[Shared(l, r)] .. High[Shared(l, r)]
<1>1. ~IsFloat(l) /\ ~IsFloat(r)
  BY WholeIs
<1>2. l.n \div One \in Int /\ l.n = (l.n \div One) * One /\ r.n \div One \in Int /\ r.n = (r.n \div One) * One
  BY StepsOfWhole
<1>3. CASE l.type = r.type
  <2>1. Shared(l, r) = l.type
    BY <1>3 DEF Shared
  <2> QED
    BY <1>3, <2>1, StepsOfWhole, IntegersAssumption
<1>4. CASE l.type # r.type
  <2>1. Shared(l, r) = "i128" /\ IsI128(l) /\ IsI128(r)
    BY <1>1, <1>4 DEF Shared
  <2>2. "i128" \in IntegerTypes /\ "i128" \notin FloatTypes
    BY IntegersAssumption
  <2>3. Low["i128"] \in Int /\ High["i128"] \in Int
    BY <2>2, IntegersAssumption
  <2>4. /\ Low["i128"] * One <= l.n /\ l.n <= High["i128"] * One
        /\ Low["i128"] * One <= r.n /\ r.n <= High["i128"] * One
    BY <2>1, OneIs DEF IsI128, InRange
  <2>5. l.n \in Int /\ l.n % One = 0 /\ r.n \in Int /\ r.n % One = 0
    BY WholeIs
  <2>6. l.n \div One \in Low["i128"] .. High["i128"]
    BY <2>3, <2>4, <2>5, WholesBetween
  <2>7. r.n \div One \in Low["i128"] .. High["i128"]
    BY <2>3, <2>4, <2>5, WholesBetween
  <2> QED
    BY <2>1, <2>2, <2>6, <2>7
<1> QED
  BY <1>3, <1>4

(* What an operator makes of two whole numbers.                            *)
LEMMA ArithIs ==
    ASSUME NEW type \in IntegerTypes, NEW a \in Int, NEW b \in Int,
           NEW op \in {"+", "-", "*", "/", "%"}
    PROVE  LET v == Arith(op, type, a, b)
           IN  \/ op \in {"/", "%"} /\ b = 0 /\ ~IsNumber(v)
               \/ \E i \in Int : /\ v = OrOverflow(type, i) /\ IsResult(op, i, a, b)
                                 /\ \A j \in Int : IsResult(op, j, a, b) => j = i
<1>1. CASE op = "+"
  <2>1. Arith(op, type, a, b) = OrOverflow(type, a + b) /\ a + b \in Int
    BY <1>1 DEF Arith
  <2>2. \A j \in Int : IsResult(op, j, a, b) <=> j = a + b
    BY <1>1 DEF IsResult
  <2> QED
    BY <2>1, <2>2
<1>2. CASE op = "-"
  <2>1. Arith(op, type, a, b) = OrOverflow(type, a - b) /\ a - b \in Int
    BY <1>2 DEF Arith
  <2>2. \A j \in Int : IsResult(op, j, a, b) <=> j + b = a
    BY <1>2 DEF IsResult
  <2>3. \A j \in Int : j + b = a <=> j = a - b
    OBVIOUS
  <2> QED
    BY <2>1, <2>2, <2>3
<1>3. CASE op = "*"
  <2>1. Arith(op, type, a, b) = OrOverflow(type, a * b) /\ a * b \in Int
    BY <1>3 DEF Arith
  <2>2. \A j \in Int : IsResult(op, j, a, b) <=> j = a * b
    BY <1>3 DEF IsResult
  <2> QED
    BY <2>1, <2>2
<1>4. CASE op \in {"/", "%"} /\ b = 0
  <2>1. Arith(op, type, a, b) = Fault("DivideByZero")
    BY <1>4 DEF Arith
  <2> QED
    BY <1>4, <2>1 DEF IsNumber, Fault
<1>5. CASE op = "/" /\ b # 0
  <2>1. Arith(op, type, a, b) = OrOverflow(type, Quotient(a, b))
    BY <1>5 DEF Arith
  <2>2. \A j \in Int : IsResult(op, j, a, b) <=> IsQuotient(j, a, b)
    BY <1>5 DEF IsResult
  <2>3. Quotient(a, b) \in Int /\ IsQuotient(Quotient(a, b), a, b)
    BY <1>5, QuotientIs, MagnitudeIs
  <2>4. \A j \in Int : IsQuotient(j, a, b) => j = Quotient(a, b)
    BY <1>5, <2>3, OneQuotient
  <2> QED
    BY <2>1, <2>2, <2>3, <2>4
<1>6. CASE op = "%" /\ b # 0
  <2> DEFINE q == Quotient(a, b)
             i == Remainder(a, b)
  <2>1. Arith(op, type, a, b) = OrOverflow(type, i)
    BY <1>6 DEF Arith, Mod
  <2>2. \A j \in Int : IsResult(op, j, a, b) <=> \E p \in -Magnitude(a) .. Magnitude(a) :
                                                   j = a - p * b /\ IsQuotient(p, a, b)
    BY <1>6 DEF IsResult
  <2>3. q \in -Magnitude(a) .. Magnitude(a) /\ IsQuotient(q, a, b) /\ q * b = b * q
    BY <1>6, QuotientIs
  <2>4. i = a - b * q
    BY DEF Remainder
  <2>5. q \in Int /\ \A p \in -Magnitude(a) .. Magnitude(a) : p \in Int
    BY <2>3, MagnitudeIs
  <2> HIDE DEF q, i
  <2>6. i \in Int /\ i = a - q * b
    BY <2>3, <2>4, <2>5
  <2>7. \A p \in -Magnitude(a) .. Magnitude(a) : IsQuotient(p, a, b) => p = q
    BY <1>6, <2>3, <2>5, OneQuotient
  <2>8. IsResult(op, i, a, b)
    BY <2>2, <2>3, <2>6
  <2>9. \A j \in Int : IsResult(op, j, a, b) => j = i
    BY <2>2, <2>6, <2>7
  <2> QED
    BY <2>1, <2>6, <2>8, <2>9
<1> QED
  BY <1>1, <1>2, <1>3, <1>4, <1>5, <1>6

LEMMA WholeAreComputed ==
    ASSUME NEW l, NEW r, WholeNumber(l), WholeNumber(r), NEW op \in {"+", "-", "*", "/", "%"}
    PROVE  Computes(op, l, r)
<1> DEFINE type == Shared(l, r)
           v == ApplyBinary(op, l, r)
           a == l.n \div One
           b == r.n \div One
<1>1. a \in Int /\ b \in Int /\ r.n = b * One
  BY StepsOfWhole
<1>2. CASE type = "none"
  <2>1. ~IsNumber(v)
    BY <1>2 DEF ApplyBinary, IsNumber, Fault
  <2> QED
    BY <1>2, <2>1 DEF Computes
<1>3. CASE type # "none"
  <2>1. type \in IntegerTypes /\ type \notin FloatTypes
    BY <1>3, SharedIs
  <2>2. v = Arith(op, type, a, b)
    BY <1>3, <2>1 DEF ApplyBinary
  <2>3. Computes(op, l, r) <=>
            IF IsNumber(v) THEN v.type = type /\ InRange(type, v.n) /\ IsResult(op, v.n \div One, a, b)
            ELSE \/ type = "none" \/ (op \in {"/", "%"} /\ r.n = 0)
                 \/ ~\E i \in Low[type] .. High[type] : IsResult(op, i, a, b)
    BY DEF Computes
  <2> HIDE DEF type, v, a, b
  <2>4. CASE op \in {"/", "%"} /\ b = 0 /\ ~IsNumber(v)
    <3>1. r.n = 0
      BY <1>1, <2>4, OneIs
    <3> QED
      BY <2>3, <2>4, <3>1
  <2>5. ASSUME NEW i \in Int, v = OrOverflow(type, i), IsResult(op, i, a, b),
               \A j \in Int : IsResult(op, j, a, b) => j = i
        PROVE  Computes(op, l, r)
    <3>1. CASE IsNumber(v)
      <4>1. v = [type |-> type, n |-> i * One, is |-> "finite"] /\ WholeNumber(v)
        BY <2>1, <2>5, <3>1, InTypeOrNot
      <4>2. (i * One) \div One = i /\ v.type = type /\ InRange(type, v.n) /\ v.n = i * One
        BY <4>1, OneIs DEF WholeNumber
      <4> QED
        BY <2>3, <2>5, <3>1, <4>2
    <3>2. CASE ~IsNumber(v)
      <4>1. i \notin Low[type] .. High[type] /\ Low[type] \in Int /\ High[type] \in Int
        BY <2>1, <2>5, <3>2, InTypeOrNot
      <4>2. ~\E j \in Low[type] .. High[type] : IsResult(op, j, a, b)
        BY <2>5, <4>1
      <4> QED
        BY <2>3, <3>2, <4>2
    <3> QED
      BY <3>1, <3>2
  <2> QED
    BY <1>1, <2>1, <2>2, <2>4, <2>5, ArithIs
<1> QED
  BY <1>2, <1>3

LEMMA AppliedIs ==
    ASSUME NEW l, NEW r, NEW op, Shared(l, r) \in IntegerTypes
    PROVE  ApplyBinary(op, l, r) = Arith(op, Shared(l, r), l.n \div One, r.n \div One)
  BY IntegersAssumption DEF ApplyBinary

(* An integer type and numbers of it.                                      *)
LEMMA SameShared ==
    ASSUME NEW l, NEW r, l.type = r.type
    PROVE  Shared(l, r) = l.type
  BY DEF Shared

(* What a sum of two is.                                                   *)
LEMMA SumOfTwo ==
    ASSUME NEW l, NEW r, numbers = <<l, r>>, IsNumber(l)
    PROVE  SumPure(numbers) = IF r.type # l.type THEN Fault("mixed element types")
                              ELSE ApplyBinary("+", l, r)
<1> DEFINE rest == Tail(numbers)
           op(acc, v) == IF ~IsNumber(acc) THEN acc
                         ELSE IF v.type # acc.type THEN Fault("mixed element types")
                         ELSE ApplyBinary("+", acc, v)
           step(s, g) == IF s = {} THEN l ELSE op(g[s \ {Max(s)}], rest[Max(s)])
           Solves(g) == g = [s \in SUBSET DOMAIN rest |-> step(s, g)]
           fold == CHOOSE g : Solves(g)
<1>1. rest = <<r>> /\ Head(numbers) = l /\ DOMAIN rest = {1} /\ rest[1] = r
  OBVIOUS
<1>2. Max({1}) = 1
  BY DEF Max
<1>3. SumPure(numbers) = fold[DOMAIN rest]
  BY <1>1 DEF SumPure, FoldLeft, MapThenFoldSet
<1> DEFINE h == [s \in SUBSET {1} |-> IF s = {} THEN l ELSE op(l, r)]
<1>4. Solves(h)
  <2>1. \A s \in SUBSET {1} : s = {} \/ s = {1}
    OBVIOUS
  <2>2. h[{}] = l
    OBVIOUS
  <2>3. step({}, h) = l
    OBVIOUS
  <2>4. step({1}, h) = op(l, r)
    <3>1. {1} \ {Max({1})} = {} /\ rest[Max({1})] = r
      BY <1>1, <1>2
    <3> QED
      BY <2>2, <3>1
  <2>5. \A s \in SUBSET {1} : h[s] = step(s, h)
    <3>1. h[{1}] = op(l, r)
      OBVIOUS
    <3> HIDE DEF step, h, op
    <3> QED
      BY <2>1, <2>2, <2>3, <2>4, <3>1
  <2> HIDE DEF step
  <2> QED
    BY <1>1, <2>5
<1>5. Solves(fold)
  <2> HIDE DEF Solves
  <2> QED
    BY <1>4
<1>6. fold[{}] = l
  BY <1>1, <1>5
<1>7. fold[{1}] = op(l, r)
  <2>1. fold[{1}] = step({1}, fold)
    <3> HIDE DEF step, fold
    <3> QED
      BY <1>1, <1>5
  <2>2. {1} \ {Max({1})} = {} /\ rest[Max({1})] = r
    BY <1>1, <1>2
  <2> HIDE DEF fold
  <2> QED
    BY <1>6, <2>1, <2>2
<1> HIDE DEF fold
<1> QED
  BY <1>1, <1>3, <1>7

(* The difference says which is less, and what is taken away can be added. *)
LEMMA DifferenceAgrees ==
    ASSUME NEW l, NEW r, WholeNumber(l), WholeNumber(r), Comparable(l), Comparable(r),
           IsNumber(ApplyBinary("-", l, r))
    PROVE  LET less == ApplyBinary("-", l, r)
           IN  /\ Compare("<", l, r) <=> Compare("<", less, Finite(less.type, 0))
               /\ ValuesEq(ApplyBinary("+", less, r), l)
<1> DEFINE type == Shared(l, r)
           less == ApplyBinary("-", l, r)
           zero == Finite(type, 0)
           a == l.n \div One
           b == r.n \div One
<1>1. type # "none"
  BY DEF ApplyBinary, IsNumber, Fault
<1>2. type \in IntegerTypes /\ a \in Low[type] .. High[type] /\ b \in Low[type] .. High[type]
  BY <1>1, SharedIs
<1>3. a \in Int /\ b \in Int /\ l.n = a * One /\ r.n = b * One
  BY StepsOfWhole
<1>4. less = OrOverflow(type, a - b)
  BY <1>2, AppliedIs DEF Arith
<1> SUFFICES /\ Compare("<", l, r) <=> Compare("<", less, Finite(less.type, 0))
             /\ ValuesEq(ApplyBinary("+", less, r), l)
  OBVIOUS
<1>5. IsNumber(less)
  OBVIOUS
<1>6. Place(l) = l.n /\ Place(r) = r.n
  BY WholeIs, PlacesAre
<1> HIDE DEF type, a, b, less
<1>7. /\ a - b \in Int /\ less = [type |-> type, n |-> (a - b) * One, is |-> "finite"]
      /\ WholeNumber(less) /\ Comparable(less) /\ Place(less) = (a - b) * One
      /\ Low[type] \in Int /\ High[type] \in Int
  BY <1>2, <1>3, <1>4, <1>5, InTypeOrNot
<1>8. less.type = type /\ less.n = (a - b) * One
  BY <1>7
<1>9. Comparable(zero) /\ Place(zero) = 0
  <2>1. Low[type] <= 0 /\ 0 <= High[type]
    BY <1>2, IntegersAssumption
  <2>2. zero = [type |-> type, n |-> 0, is |-> "finite"]
    BY DEF Finite
  <2>3. 0 % One = 0 /\ Low[type] * One <= 0 /\ 0 <= High[type] * One
    <3>1. 0 \in Int /\ 0 * One = 0
      BY OneIs
    <3>2. Low[type] * One <= 0 * One
      BY <1>7, <2>1, <3>1, Steps
    <3>3. 0 * One <= High[type] * One
      BY <1>7, <2>1, <3>1, Steps
    <3>4. (0 * One) % One = 0
      BY <3>1, WholeSteps
    <3> QED
      BY <3>1, <3>2, <3>3, <3>4
  <2> HIDE DEF zero
  <2> QED
    BY <1>2, <2>2, <2>3, OneIs DEF Comparable, WholeNumber, InRange, Place
<1>10. Compare("<", l, r) <=> Compare("<", less, Finite(less.type, 0))
  <2>1. Compare("<", l, r) <=> a * One < b * One
    BY <1>3, <1>6, ComparedAsTheyLie
  <2>2. Compare("<", less, zero) <=> (a - b) * One < 0
    BY <1>7, <1>9, ComparedAsTheyLie
  <2>3. /\ a * One \in Int /\ b * One \in Int
        /\ (a - b) * One = a * One - b * One
    BY <1>3, Steps
  <2>4. less.type = type
    BY <1>8
  <2>5. (a - b) * One < 0 <=> a * One < b * One
    BY <2>3
  <2> QED
    BY <2>1, <2>2, <2>4, <2>5
<1>11. Shared(less, r) = type
  <2>1. CASE l.type = r.type
    <3>1. type = r.type
      BY <2>1, SameShared DEF type
    <3> QED
      BY <1>8, <3>1, SameShared
  <2>2. CASE l.type # r.type
    <3>1. type = "i128" /\ IsI128(r) /\ ~IsFloat(r)
      BY <1>1, <2>2, WholeIs DEF Shared, type
    <3>2. ~IsFloat(less) /\ IsI128(less)
      BY <1>7, <1>8, <3>1, WholeIs DEF IsI128, WholeNumber
    <3> QED
      BY <1>8, <3>1, <3>2 DEF Shared
  <2> QED
    BY <2>1, <2>2
<1>12. ApplyBinary("+", less, r) = OrOverflow(type, a)
  <2>1. ApplyBinary("+", less, r) = Arith("+", type, less.n \div One, r.n \div One)
    BY <1>2, <1>11, AppliedIs
  <2>2. less.n \div One = a - b /\ r.n \div One = b
    BY <1>3, <1>7, <1>8, WholeSteps
  <2>3. (a - b) + b = a
    BY <1>3
  <2> QED
    BY <2>1, <2>2, <2>3 DEF Arith
<1>13. ValuesEq(ApplyBinary("+", less, r), l)
  <2>1. Comparable(OrOverflow(type, a)) /\ Place(OrOverflow(type, a)) = a * One
    BY <1>2, <1>3, InTypeOrNot
  <2> QED
    BY <1>3, <1>6, <1>12, <2>1, ComparedAsTheyLie
<1> QED
  BY <1>10, <1>13

(* The negation of a number, less one, is its complement.                  *)
LEMMA ComplementAgrees ==
    ASSUME NEW v, WholeNumber(v), Comparable(v), IsSigned(v.type), IsNumber(Neg(v))
    PROVE  /\ InRange(v.type, Neg(v).n)
           /\ ValuesEq(ApplyBinary("-", Neg(v), Finite(v.type, One)), BitNot(v))
<1> DEFINE type == v.type
           a == v.n \div One
           neg == Neg(v)
           one == Finite(type, One)
           flipped == BitNot(v)
<1> SUFFICES InRange(type, neg.n) /\ ValuesEq(ApplyBinary("-", neg, one), flipped)
  OBVIOUS
<1>1. /\ a \in Int /\ v.n = a * One /\ type \in IntegerTypes /\ a \in Low[type] .. High[type]
      /\ ~IsFloat(v)
  BY StepsOfWhole, WholeIs
<1>2. Low[type] \in Int /\ High[type] \in Int /\ Low[type] = -(High[type] + 1)
  BY <1>1, IntegersAssumption DEF IsSigned
<1>3. neg = OrOverflow(type, -a)
  BY <1>1 DEF Neg
<1>4. flipped = Finite(type, -v.n - One)
  BY <1>1 DEF BitNot
<1>5. one = [type |-> type, n |-> 1 * One, is |-> "finite"]
  <2>1. 1 * One = One
    BY OneIs
  <2> QED
    BY <2>1 DEF Finite
<1>6. IsNumber(neg)
  OBVIOUS
<1> HIDE DEF type, a, neg, one, flipped
<1>7. /\ -a \in Int /\ neg = [type |-> type, n |-> (-a) * One, is |-> "finite"] /\ WholeNumber(neg)
      /\ -a \in Low[type] .. High[type]
  BY <1>1, <1>3, <1>6, InTypeOrNot
<1>8. InRange(type, neg.n)
  BY <1>7 DEF WholeNumber
<1>9. -a - 1 \in Low[type] .. High[type] /\ -a - 1 \in Int
  BY <1>1, <1>2
<1>10. ApplyBinary("-", neg, one) = OrOverflow(type, -a - 1)
  <2>1. Shared(neg, one) = type
    BY <1>5, <1>7, SameShared
  <2>2. neg.n \div One = -a /\ one.n \div One = 1
    <3>1. neg.n = (-a) * One /\ one.n = 1 * One
      BY <1>5, <1>7
    <3> QED
      BY <1>7, <3>1, WholeSteps
  <2>3. ApplyBinary("-", neg, one) = Arith("-", type, neg.n \div One, one.n \div One)
    BY <1>1, <2>1, AppliedIs
  <2> QED
    BY <2>2, <2>3 DEF Arith
<1>11. /\ Comparable(OrOverflow(type, -a - 1)) /\ Place(OrOverflow(type, -a - 1)) = (-a - 1) * One
       /\ OrOverflow(type, -a - 1) = [type |-> type, n |-> (-a - 1) * One, is |-> "finite"]
  BY <1>1, <1>9, InTypeOrNot
<1>12. flipped = OrOverflow(type, -a - 1)
  <2>1. -v.n - One = (-a - 1) * One
    <3>1. (-a - 1) * One = (-a) * One - 1 * One /\ (-a) * One = -(a * One) /\ 1 * One = One
      BY <1>1, <1>7, Steps, OneIs
    <3> QED
      BY <1>1, <3>1
  <2> QED
    BY <1>4, <1>11, <2>1 DEF Finite
<1>13. ValuesEq(ApplyBinary("-", neg, one), flipped)
  BY <1>10, <1>11, <1>12, ComparedAsTheyLie
<1> QED
  BY <1>8, <1>13

(* A literal with a unit.                                                  *)
LEMMA RoundedIsInt ==
    ASSUME NEW type \in FloatTypes, NEW num \in Int
    PROVE  Rounded(type, num, One).n \in Int
<1> DEFINE n == Magnitude(num)
           near == NearestFloat(type, n, One)
<1>1. n \in Nat /\ Sign(num) \in Int /\ Beyond[type] \in Nat /\ Floats[type] \subseteq Nat
  BY MagnitudeIs, FloatsAre
<1>2. Rounded(type, num, One) =
          IF n >= Top(type) * One \/ near = Top(type)
          THEN Infinite(type, Sign(num)) ELSE Finite(type, Sign(num) * near)
  BY RoundedIsNearest
<1> HIDE DEF n, near
<1>3. CASE n >= Top(type) * One \/ near = Top(type)
  BY <1>1, <1>2, <1>3 DEF Infinite
<1>4. CASE ~(n >= Top(type) * One \/ near = Top(type))
  <2>1. n < Top(type) * One /\ One \in Nat \ {0}
    BY <1>1, <1>4, OneIs, FloatsAre
  <2>2. near \in Floats[type]
    BY <1>1, <2>1, FloatsAround, OneIs DEF near
  <2>3. near \in Nat
    BY <1>1, <2>2
  <2>4. Rounded(type, num, One).n = Sign(num) * near
    BY <1>2, <1>4 DEF Finite
  <2> QED
    BY <1>1, <2>3, <2>4
<1> QED
  BY <1>3, <1>4

LEMMA UnitsMeasure ==
    ASSUME NEW l, NEW r, Comparable(l), Comparable(r), l.is = "finite", r.is = "finite",
           NEW type \in IntegerTypes
    PROVE  Measures(type, l, r)
<1> DEFINE made == UnitProduct(l, r)
           v == ApplyUnitFactor(l, r, type)
           a == l.n \div One
           b == r.n \div One
           p == Rounded("f64", l.n * r.n, One)
           Exact == IsExactly(l, AsF64(l)) /\ IsExactly(r, AsF64(r)) /\ p.n * One = l.n * r.n
           Cut(n) == IF n < Low["i128"] * One THEN Low["i128"] * One
                     ELSE IF n > High["i128"] * One THEN High["i128"] * One ELSE n
<1> SUFFICES ASSUME (IsI128(l) /\ IsI128(r)) \/ Exact,
                    IsNumber(v), InRange("i128", (l.n * r.n) \div One)
             PROVE  v.n % One = 0 /\ v.n * One = l.n * r.n
  BY DEF Measures
<1>1. l.n \in Int /\ r.n \in Int /\ l.n * r.n \in Int
  BY PlacesAre
<1>2. v = IF IsNumber(made) /\ ~InRange(type, made.n) THEN Fault("OutOfRange")
          ELSE IF IsNumber(made) THEN Finite(type, made.n) ELSE made
  BY DEF ApplyUnitFactor
<1>3. IsNumber(made) /\ v.n = made.n
  <2>1. IsNumber(v)
    OBVIOUS
  <2> HIDE DEF made, v
  <2> QED
    BY <1>2, <2>1 DEF IsNumber, Fault, Finite
<1>4. CASE IsI128(l) /\ IsI128(r)
  <2>1. WholeNumber(l) /\ WholeNumber(r)
    BY <1>4 DEF IsI128, Comparable, FiniteFloat, InfiniteFloat, IsFloat
  <2>2. a \in Int /\ b \in Int /\ l.n = a * One /\ r.n = b * One
    BY <2>1, StepsOfWhole
  <2> HIDE DEF a, b
  <2>3. l.n * r.n = ((a * b) * One) * One /\ a * b \in Int /\ (a * b) * One \in Int
    BY <2>2, OneIs
  <2>4. (l.n * r.n) \div One = (a * b) * One
    BY <2>3, WholeSteps
  <2>5. made = Finite("i128", (a * b) * One)
    BY <1>4, <2>4 DEF UnitProduct, a, b
  <2>6. v.n = (a * b) * One
    BY <1>3, <2>5, OneIs DEF Finite
  <2> HIDE DEF v
  <2> QED
    BY <2>3, <2>6, WholeSteps
<1>5. CASE Exact /\ ~(IsI128(l) /\ IsI128(r))
  <2>1. AsF64(l).n = l.n /\ AsF64(r).n = r.n
    BY <1>5 DEF IsExactly
  <2>2. made = IF p.is # "finite" \/ p.n % One # 0 THEN Fault("fractional")
               ELSE Finite("i128", Cut(p.n))
    <3>1. ~(IsI128(l) /\ IsI128(r) /\ InRange("i128", a * b * One))
      BY <1>5
    <3> HIDE DEF a, b
    <3> QED
      BY <2>1, <3>1 DEF UnitProduct, a, b
  <2>3. "f64" \in FloatTypes /\ "i128" \in IntegerTypes
    BY FloatsAssumption, IntegersAssumption
  <2>4. p.n \in Int /\ p.n * One = l.n * r.n
    BY <1>1, <1>5, <2>3, RoundedIsInt, OneIs
  <2> HIDE DEF p
  <2>5. (l.n * r.n) \div One = p.n
    BY <1>1, <2>4, WholeSteps
  <2>6. Low["i128"] \in Int /\ High["i128"] \in Int
    BY <2>3, IntegersAssumption
  <2>7. Cut(p.n) = p.n
    BY <2>4, <2>5, <2>6, OneIs DEF InRange
  <2> HIDE DEF made, v, Cut
  <2>8. made = Finite("i128", p.n) /\ p.n % One = 0
    BY <1>3, <2>2, <2>7 DEF IsNumber, Fault
  <2> QED
    BY <1>3, <2>4, <2>8, OneIs DEF Finite
<1> QED
  BY <1>4, <1>5

LEMMA WrittenAreExact ==
    ASSUME numbers \in Seq(Literals)
    PROVE  ArithmeticIsExact
<1> SUFFICES ASSUME Len(numbers) = 2
             PROVE  LET l == numbers[1]
                        r == numbers[2]
                    IN  /\ IsWhole(l) /\ IsWhole(r) =>
                               /\ \A op \in {"+", "-", "*", "/", "%"} : Computes(op, l, r)
                               /\ Agrees(l, r)
                        /\ {l.is, r.is} = {"finite"} =>
                               \A type \in IntegerTypes : Measures(type, l, r)
  BY DEF ArithmeticIsExact
<1> DEFINE l == numbers[1]
           r == numbers[2]
<1>1. l \in Literals /\ r \in Literals /\ numbers = <<l, r>>
  BY TwoWritten
<1> HIDE DEF l, r
<1>2. ASSUME IsWhole(l), IsWhole(r)
      PROVE  (\A op \in {"+", "-", "*", "/", "%"} : Computes(op, l, r)) /\ Agrees(l, r)
  <2>1. WholeNumber(l) /\ WholeNumber(r) /\ Comparable(l) /\ Comparable(r)
    BY <1>1, <1>2, WrittenIs DEF IsWhole, IsFloat, Comparable, FiniteFloat, InfiniteFloat
  <2>2. SumPure(numbers) = IF l.type = r.type THEN ApplyBinary("+", l, r)
                           ELSE Fault("mixed element types")
    <3>1. IsNumber(l)
      BY <2>1 DEF WholeNumber, IsNumber
    <3> QED
      BY <1>1, <3>1, SumOfTwo
  <2>3. Agrees(l, r)
    BY <2>1, <2>2, DifferenceAgrees, ComplementAgrees DEF Agrees
  <2> QED
    BY <2>1, <2>3, WholeAreComputed
<1>3. ASSUME {l.is, r.is} = {"finite"}
      PROVE  \A type \in IntegerTypes : Measures(type, l, r)
  <2>1. l.is = "finite" /\ r.is = "finite"
    BY <1>3
  <2>2. Comparable(l) /\ Comparable(r)
    BY <1>1, <2>1, WrittenIs
  <2> QED
    BY <2>1, <2>2, UnitsMeasure
<1> QED
  BY <1>2, <1>3 DEF l, r
-----------------------------------------------------------------------------
LEMMA NumbersAreWritten == NumbersSpec => [](numbers \in Seq(Literals))
<1>1. NumbersInit => numbers \in Seq(Literals)
  BY DEF NumbersInit
<1>2. numbers \in Seq(Literals) /\ [NumbersNext]_numberVars => (numbers \in Seq(Literals))'
  <2> SUFFICES ASSUME numbers \in Seq(Literals), [NumbersNext]_numberVars
               PROVE  numbers' \in Seq(Literals)
    OBVIOUS
  <2>1. CASE NumbersNext
    BY <2>1 DEF NumbersNext
  <2>2. CASE UNCHANGED numberVars
    BY <2>2 DEF numberVars
  <2> QED
    BY <2>1, <2>2
<1> QED
  BY <1>1, <1>2, PTL DEF NumbersSpec

(* Of numbers of any types that are compared, fitted to a type, computed   *)
(* with or measured by a unit: the order is that of where they lie, and    *)
(* what is computed with whole numbers is exact or refused.                *)
THEOREM NumbersAreAlwaysExact == NumbersSpec => []NumbersAreExact
<1>1. numbers \in Seq(Literals) => NumbersAreExact
  BY WrittenAreOrdered, WrittenAreExact DEF NumbersAreExact
<1> QED
  BY <1>1, NumbersAreWritten, PTL
=============================================================================
