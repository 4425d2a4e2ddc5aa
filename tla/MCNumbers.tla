----------------------------- MODULE MCNumbers -----------------------------
(* Two narrow types, the widest ones with 5 bits, an f32 with 2 digits and *)
(* an f64 with 3: the numbers around each of their ends.  The finest step  *)
(* is a quarter, of an f64; that of an f32 is a half.                      *)
EXTENDS Numbers, TLC

MCLow == "i8" :> -4 @@ "u8" :> 0 @@ "i128" :> -16 @@ "u128" :> 0
MCHigh == "i8" :> 3 @@ "u8" :> 7 @@ "i128" :> 15 @@ "u128" :> 31
MCPrecision == "f32" :> 2 @@ "f64" :> 3
MCExponents == "f32" :> 1..8 @@ "f64" :> 0..8
MCBeyond == "f32" :> 32 @@ "f64" :> 128

Of(type, ns) == {[type |-> type, n |-> n, is |-> "finite"] : n \in ns}
Whole(ns) == {One * n : n \in ns}
Halves(ns) == {(One \div 2) * n : n \in ns}
Specials(type) ==
    {[type |-> type, n |-> 0, is |-> "nan"]}
    \cup {[type |-> type, n |-> sign, is |-> "infinite"] : sign \in {1, -1}}

MCLiterals ==
    Of("i8", Whole(-4..3)) \cup Of("u8", Whole({0, 1, 3, 7}))
    \cup Of("i128", Whole({-16, -15, -9, -8, -5, -1, 0, 1, 2, 3, 5, 7, 8, 9, 11, 14, 15}))
    \cup Of("u128", Whole({0, 1, 3, 5, 9, 15, 16, 17, 23, 24, 29, 30, 31}))
    \cup Of("f32", Halves({-48, -32, -3, -1, 0, 1, 2, 3, 6, 24, 32, 48}))
    \cup Of("f64", Halves({-64, -40, -32, -7, -5, -2, -1, 0, 1, 2, 3, 5, 7, 14, 28, 32, 40, 56, 64, 80}))
    \cup Of("f64", {-3, 1, 5})
    \cup Specials("f32") \cup Specials("f64")
=============================================================================
