---------------------------- MODULE TypesProofs ----------------------------
(***************************************************************************)
(* Proofs about what types say of a document.  Of Inheritance, for any     *)
(* declarations: once the `extends` graph is accepted, every walk of it    *)
(* gives a field one meaning.  Of Schemas, for any types and any document: *)
(* the check and the reads agree, and what the check admits does not       *)
(* vanish.                                                                 *)
(***************************************************************************)
EXTENDS Inheritance, Schemas, FiniteSetTheorems, SequenceTheorems, NaturalsInduction, TLAPS

(* Sets of numbers take the place of induction: what holds at 0 and at     *)
(* every number after one at which it holds, holds up to N.                *)
LEMMA UpTo ==
    ASSUME NEW N \in Nat, NEW P, 0 \in P, \A k \in 1 .. N : k - 1 \in P => k \in P
    PROVE  0 .. N \subseteq P
<1> SUFFICES ASSUME NEW j \in 0 .. N, j \notin P
             PROVE  FALSE
  OBVIOUS
<1> DEFINE T == {k \in Nat : k \in 0 .. N /\ k \notin P}
<1>1. PICK i \in T : \A k \in T : ~(<<k, i>> \in OpToRel(<, Nat))
  <2>1. T \subseteq Nat /\ j \in T
    OBVIOUS
  <2> HIDE DEF T
  <2> QED
    BY <2>1, NatLessThanWellFounded, WFMin
<1>2. i \in Nat /\ i \in 0 .. N /\ i \notin P /\ i # 0
  BY <1>1
<1>3. i \in 1 .. N /\ i - 1 \in Nat /\ i - 1 < i
  BY <1>2
<1>4. i - 1 \notin P
  BY <1>2, <1>3
<1>5. i - 1 \in T
  BY <1>2, <1>3, <1>4
<1>6. <<i - 1, i>> \in OpToRel(<, Nat)
  BY <1>2, <1>3 DEF OpToRel
<1> QED
  BY <1>1, <1>5, <1>6

(* A recursive function over 0 .. N exists, whatever its values are.       *)
Steps(N, V) == [1 .. N -> [V -> V]]
Runs(f, N, V, first, step) ==
    /\ f \in [0 .. N -> V]
    /\ f[0] = first
    /\ \A k \in 1 .. N : f[k] = step[k][f[k - 1]]

LEMMA Iteration ==
    ASSUME NEW N \in Nat, NEW V, NEW first \in V, NEW step \in Steps(N, V)
    PROVE  \E f : Runs(f, N, V, first, step)
<1> DEFINE P == {n \in Nat : \E f : Runs(f, n, V, first, step)}
<1> USE DEF Runs, Steps
<1>1. 0 \in P
  <2> DEFINE f == [k \in 0 .. 0 |-> first]
  <2>1. Runs(f, 0, V, first, step)
    OBVIOUS
  <2> QED
    BY <2>1
<1>2. ASSUME NEW n \in 1 .. N, n - 1 \in P
      PROVE  n \in P
  <2>1. PICK f : Runs(f, n - 1, V, first, step)
    BY <1>2
  <2> DEFINE g == [k \in 0 .. n |-> IF k = n THEN step[n][f[n - 1]] ELSE f[k]]
  <2>2. n \in Nat /\ n - 1 \in Nat /\ n # 0 /\ n - 1 \in 0 .. n - 1 /\ n - 1 # n
    OBVIOUS
  <2>3. step[n][f[n - 1]] \in V
    BY <2>1, <2>2
  <2>4. g \in [0 .. n -> V]
    <3>1. ASSUME NEW k \in 0 .. n
          PROVE  g[k] \in V
      <4>1. CASE k = n
        BY <2>3, <4>1
      <4>2. CASE k # n
        BY <2>1, <2>2, <4>2
      <4> QED
        BY <4>1, <4>2
    <3> QED
      BY <3>1
  <2>5. g[0] = first
    BY <2>1, <2>2
  <2>6. ASSUME NEW k \in 1 .. n
        PROVE  g[k] = step[k][g[k - 1]]
    <3>1. k \in 0 .. n /\ k - 1 \in 0 .. n /\ k - 1 # n
      BY <2>2
    <3>2. g[k - 1] = f[k - 1]
      BY <3>1
    <3>3. CASE k = n
      BY <3>1, <3>2, <3>3
    <3>4. CASE k # n
      <4>1. k \in 1 .. n - 1 /\ g[k] = f[k]
        BY <2>2, <3>1, <3>4
      <4> QED
        BY <2>1, <3>2, <4>1
    <3> QED
      BY <3>3, <3>4
  <2> HIDE DEF g
  <2> QED
    BY <2>2, <2>4, <2>5, <2>6
<1>3. N \in P
  <2> HIDE DEF P
  <2>1. 0 .. N \subseteq P
    BY <1>1, <1>2, UpTo
  <2> QED
    BY <2>1
<1> QED
  BY <1>3

(* What appending to a sequence adds to it.                                *)
LEMMA RangeOfAppend ==
    ASSUME NEW T, NEW s \in Seq(T), NEW e
    PROVE  Range(Append(s, e)) = Range(s) \cup {e}
<1>1. /\ Len(s) \in Nat /\ DOMAIN s = 1 .. Len(s)
      /\ DOMAIN Append(s, e) = 1 .. Len(s) + 1
      /\ \A i \in 1 .. Len(s) : Append(s, e)[i] = s[i]
      /\ Append(s, e)[Len(s) + 1] = e
  <2>1. s \in Seq(T \cup {e}) /\ e \in T \cup {e}
    OBVIOUS
  <2> QED
    BY <2>1, AppendProperties
<1>2. 1 .. Len(s) + 1 = (1 .. Len(s)) \cup {Len(s) + 1}
  BY <1>1
<1>3. \A x \in Range(Append(s, e)) : x \in Range(s) \cup {e}
  BY <1>1, <1>2 DEF Range
<1>4. \A x \in Range(s) \cup {e} : x \in Range(Append(s, e))
  BY <1>1, <1>2 DEF Range
<1> QED
  BY <1>3, <1>4

(* Only keeps the elements of S and no others.                             *)
LEMMA OnlyKeeps ==
    ASSUME NEW S, NEW s, s \in Seq(Range(s))
    PROVE  Only(s, S) \in Seq(Range(s)) /\ Range(Only(s, S)) = Range(s) \cap S
<1> DEFINE N == Len(s)
           V == Seq(Range(s))
           b(v, k) == IF s[k] \in S THEN Append(v, s[k]) ELSE v
           step == [k \in 1 .. N |-> [v \in V |-> b(v, k)]]
           Solves(g) == g = [k \in 0 .. N |-> IF k = 0 THEN <<>> ELSE b(g[k - 1], k)]
<1>1. N \in Nat /\ DOMAIN s = 1 .. N /\ \A k \in 1 .. N : s[k] \in Range(s)
  BY DEF Range
<1>2. \A v \in V, k \in 1 .. N : b(v, k) \in V
  BY <1>1, AppendProperties
<1>3. <<>> \in V
  OBVIOUS
<1> HIDE DEF b, V
<1>4. step \in Steps(N, V)
  BY <1>2 DEF Steps
<1>5. \E f : Runs(f, N, V, <<>>, step)
  <2> HIDE DEF step, N
  <2> QED
    BY <1>1, <1>3, <1>4, Iteration
<1>6. PICK f : Runs(f, N, V, <<>>, step)
  BY <1>5
<1>7. Solves(f)
  <2>1. ASSUME NEW k \in 0 .. N
        PROVE  f[k] = IF k = 0 THEN <<>> ELSE b(f[k - 1], k)
    <3>1. CASE k = 0
      BY <1>6, <3>1 DEF Runs
    <3>2. CASE k # 0
      <4>1. k \in 1 .. N /\ k - 1 \in 0 .. N
        BY <1>1, <3>2
      <4>2. f[k - 1] \in V /\ f[k] = step[k][f[k - 1]]
        BY <1>6, <4>1 DEF Runs
      <4> QED
        BY <3>2, <4>1, <4>2
    <3> QED
      BY <3>1, <3>2
  <2>2. f = [k \in 0 .. N |-> f[k]]
    BY <1>6 DEF Runs
  <2> QED
    BY <2>1, <2>2
<1> DEFINE kept == CHOOSE g : Solves(g)
<1>8. Only(s, S) = kept[N]
  BY DEF Only, b
<1>9. Solves(kept)
  BY <1>7
<1> HIDE DEF kept, step
<1> DEFINE Right(k) == kept[k] \in V /\ Range(kept[k]) = {s[j] : j \in 1 .. k} \cap S
           P == {k \in 0 .. N : Right(k)}
<1>10. kept[0] = <<>> /\ \A k \in 1 .. N : kept[k] = b(kept[k - 1], k)
  <2>1. \A k \in 1 .. N : k \in 0 .. N /\ k # 0
    OBVIOUS
  <2>2. 0 \in 0 .. N
    BY <1>1
  <2> QED
    BY <1>9, <2>1, <2>2
<1>11. 0 \in P
  <2>1. Range(<<>>) = {}
    BY DEF Range
  <2>2. {s[j] : j \in 1 .. 0} = {}
    OBVIOUS
  <2> QED
    BY <1>1, <1>3, <1>10, <2>1, <2>2
<1>12. ASSUME NEW k \in 1 .. N, k - 1 \in P
       PROVE  k \in P
  <2>1. kept[k - 1] \in V /\ Range(kept[k - 1]) = {s[j] : j \in 1 .. k - 1} \cap S
    BY <1>12
  <2>2. kept[k] = b(kept[k - 1], k)
    BY <1>10
  <2>3. {s[j] : j \in 1 .. k} = {s[j] : j \in 1 .. k - 1} \cup {s[k]}
    <3>1. 1 .. k = (1 .. k - 1) \cup {k}
      BY <1>1
    <3> QED
      BY <3>1
  <2>4. k \in 0 .. N
    OBVIOUS
  <2>5. CASE s[k] \in S
    <3>1. kept[k] = Append(kept[k - 1], s[k])
      BY <2>2, <2>5 DEF b
    <3>2. Range(kept[k]) = Range(kept[k - 1]) \cup {s[k]}
      BY <1>1, <2>1, <3>1, RangeOfAppend DEF V
    <3>3. kept[k] \in V
      BY <1>2, <2>1, <2>2
    <3> QED
      BY <2>1, <2>3, <2>4, <2>5, <3>2, <3>3
  <2>6. CASE s[k] \notin S
    <3>1. kept[k] = kept[k - 1]
      BY <2>2, <2>6 DEF b
    <3> QED
      BY <2>1, <2>3, <2>4, <2>6, <3>1
  <2> QED
    BY <2>5, <2>6
<1>13. N \in P
  <2> HIDE DEF P
  <2>1. 0 .. N \subseteq P
    BY <1>1, <1>11, <1>12, UpTo
  <2> QED
    BY <1>1, <2>1
<1>14. {s[j] : j \in 1 .. N} = Range(s)
  BY <1>1 DEF Range
<1> QED
  BY <1>8, <1>13, <1>14 DEF V

(* A name stands once in a list of fields.                                 *)
NamesOnce(rows) == \A j, k \in DOMAIN rows : rows[j].name = rows[k].name => j = k

(* A row takes the place of the one of its name.                           *)
LEMMA InsertKeeps ==
    ASSUME NEW R, NEW out \in Seq(R), NEW row \in R, NamesOnce(out)
    PROVE  /\ InsertOrOverride(out, row) \in Seq(R)
           /\ NamesOnce(InsertOrOverride(out, row))
           /\ Range(InsertOrOverride(out, row)) = {r \in Range(out) : r.name # row.name} \cup {row}
<1> DEFINE old == {k \in DOMAIN out : out[k].name = row.name}
           new == InsertOrOverride(out, row)
<1>1. Len(out) \in Nat /\ DOMAIN out = 1 .. Len(out) /\ \A k \in DOMAIN out : out[k] \in R
  OBVIOUS
<1>2. CASE old = {}
  <2>1. new = Append(out, row)
    BY <1>2 DEF InsertOrOverride
  <2>2. new \in Seq(R)
    BY <2>1
  <2>3. /\ DOMAIN new = 1 .. Len(out) + 1
        /\ \A k \in 1 .. Len(out) : new[k] = out[k]
        /\ new[Len(out) + 1] = row
    BY <2>1, AppendProperties
  <2>4. \A k \in 1 .. Len(out) : out[k].name # row.name
    BY <1>1, <1>2
  <2>5. NamesOnce(new)
    <3> SUFFICES ASSUME NEW j \in DOMAIN new, NEW k \in DOMAIN new, new[j].name = new[k].name
                 PROVE  j = k
      BY DEF NamesOnce
    <3> HIDE DEF new
    <3>1. CASE j \in 1 .. Len(out) /\ k \in 1 .. Len(out)
      BY <1>1, <2>3, <3>1 DEF NamesOnce
    <3>2. CASE j = Len(out) + 1 /\ k = Len(out) + 1
      BY <3>2
    <3>3. CASE j \in 1 .. Len(out) /\ k = Len(out) + 1
      BY <2>3, <2>4, <3>3
    <3>4. CASE j = Len(out) + 1 /\ k \in 1 .. Len(out)
      BY <2>3, <2>4, <3>4
    <3>5. j \in 1 .. Len(out) \/ j = Len(out) + 1
      BY <1>1, <2>3
    <3>6. k \in 1 .. Len(out) \/ k = Len(out) + 1
      BY <1>1, <2>3
    <3> QED
      BY <3>1, <3>2, <3>3, <3>4, <3>5, <3>6
  <2>6. Range(new) = Range(out) \cup {row}
    BY <2>1, RangeOfAppend
  <2>7. {r \in Range(out) : r.name # row.name} = Range(out)
    BY <1>1, <2>4 DEF Range
  <2> QED
    BY <2>2, <2>5, <2>6, <2>7
<1>3. CASE old # {}
  <2>1. new = [k \in DOMAIN out |-> IF k \in old THEN row ELSE out[k]]
    BY <1>3 DEF InsertOrOverride
  <2>2. PICK o \in DOMAIN out : out[o].name = row.name
    BY <1>3
  <2>3. old = {o}
    BY <2>2 DEF NamesOnce
  <2>4. /\ DOMAIN new = DOMAIN out
        /\ new[o] = row
        /\ \A k \in DOMAIN out : k # o => new[k] = out[k]
    BY <2>1, <2>2, <2>3
  <2>5. new \in Seq(R)
    <3>1. \A k \in 1 .. Len(out) : new[k] \in R
      BY <1>1, <2>4
    <3>2. new = [k \in 1 .. Len(out) |-> new[k]]
      BY <1>1, <2>1
    <3> HIDE DEF new
    <3> QED
      BY <1>1, <3>1, <3>2, IsASeq
  <2> HIDE DEF new, old
  <2>6. NamesOnce(new)
    BY <2>2, <2>4 DEF NamesOnce
  <2>7. \A r : r \in Range(new) <=> (r \in Range(out) /\ r.name # row.name) \/ r = row
    <3>1. ASSUME NEW r \in Range(new)
          PROVE  (r \in Range(out) /\ r.name # row.name) \/ r = row
      <4>1. PICK k \in DOMAIN out : r = new[k]
        BY <2>4 DEF Range
      <4>2. CASE k = o
        BY <2>4, <4>1, <4>2
      <4>3. CASE k # o
        <5>1. r = out[k] /\ out[k].name # out[o].name
          BY <2>2, <2>4, <4>1, <4>3 DEF NamesOnce
        <5> QED
          BY <2>2, <5>1 DEF Range
      <4> QED
        BY <4>2, <4>3
    <3>2. ASSUME NEW r \in Range(out), r.name # row.name
          PROVE  r \in Range(new)
      <4>1. PICK k \in DOMAIN out : r = out[k]
        BY DEF Range
      <4>2. k # o
        BY <2>2, <3>2, <4>1
      <4> QED
        BY <2>4, <4>1, <4>2 DEF Range
    <3>3. row \in Range(new)
      BY <2>2, <2>4 DEF Range
    <3> QED
      BY <3>1, <3>2, <3>3
  <2>8. Range(new) = {r \in Range(out) : r.name # row.name} \cup {row}
    BY <2>7
  <2> QED
    BY <2>5, <2>6, <2>8 DEF new
<1> QED
  BY <1>2, <1>3

(* Row r is the last of its name among the first n rows.                   *)
IsLast(rows, n, r) ==
    \E j \in 1 .. n : rows[j] = r /\ \A m \in j + 1 .. n : rows[m].name # r.name

(* Merged keeps the last row of each name.                                 *)
LEMMA MergedKeepsLast ==
    ASSUME NEW R, NEW rows \in Seq(R)
    PROVE  /\ Merged(rows) \in Seq(R) /\ NamesOnce(Merged(rows))
           /\ \A r : r \in Range(Merged(rows)) <=> IsLast(rows, Len(rows), r)
<1> DEFINE N == Len(rows)
           V == {v \in Seq(R) : NamesOnce(v)}
           b(v, k) == InsertOrOverride(v, rows[k])
           step == [k \in 1 .. N |-> [v \in V |-> b(v, k)]]
           Solves(g) == g = [k \in 0 .. N |-> IF k = 0 THEN <<>> ELSE b(g[k - 1], k)]
<1>1. N \in Nat /\ \A k \in 1 .. N : rows[k] \in R
  OBVIOUS
<1>2. \A v \in V, k \in 1 .. N : b(v, k) \in V
  BY <1>1, InsertKeeps
<1>3. <<>> \in V
  BY DEF NamesOnce
<1> HIDE DEF b, V
<1>4. step \in Steps(N, V)
  BY <1>2 DEF Steps
<1>5. \E f : Runs(f, N, V, <<>>, step)
  <2> HIDE DEF step, N
  <2> QED
    BY <1>1, <1>3, <1>4, Iteration
<1>6. PICK f : Runs(f, N, V, <<>>, step)
  BY <1>5
<1>7. Solves(f)
  <2>1. ASSUME NEW k \in 0 .. N
        PROVE  f[k] = IF k = 0 THEN <<>> ELSE b(f[k - 1], k)
    <3>1. CASE k = 0
      BY <1>6, <3>1 DEF Runs
    <3>2. CASE k # 0
      <4>1. k \in 1 .. N /\ k - 1 \in 0 .. N
        BY <1>1, <3>2
      <4>2. f[k - 1] \in V /\ f[k] = step[k][f[k - 1]]
        BY <1>6, <4>1 DEF Runs
      <4> QED
        BY <3>2, <4>1, <4>2
    <3> QED
      BY <3>1, <3>2
  <2>2. f = [k \in 0 .. N |-> f[k]]
    BY <1>6 DEF Runs
  <2> QED
    BY <2>1, <2>2
<1> DEFINE out == CHOOSE g : Solves(g)
<1>8. Merged(rows) = out[N]
  BY DEF Merged, b
<1>9. Solves(out)
  BY <1>7
<1> HIDE DEF out, step
<1>10. out[0] = <<>> /\ \A k \in 1 .. N : out[k] = b(out[k - 1], k)
  <2>1. \A k \in 1 .. N : k \in 0 .. N /\ k # 0
    OBVIOUS
  <2>2. 0 \in 0 .. N
    BY <1>1
  <2> QED
    BY <1>9, <2>1, <2>2
<1> DEFINE Right(k) == out[k] \in V /\ \A r : r \in Range(out[k]) <=> IsLast(rows, k, r)
           P == {k \in 0 .. N : Right(k)}
<1>11. 0 \in P
  <2>1. Range(<<>>) = {}
    BY DEF Range
  <2>2. \A r : ~IsLast(rows, 0, r)
    BY DEF IsLast
  <2> QED
    BY <1>1, <1>3, <1>10, <2>1, <2>2
<1>12. ASSUME NEW k \in 1 .. N, k - 1 \in P
       PROVE  k \in P
  <2>1. out[k - 1] \in V /\ \A r : r \in Range(out[k - 1]) <=> IsLast(rows, k - 1, r)
    BY <1>12
  <2>2. out[k] = InsertOrOverride(out[k - 1], rows[k]) /\ out[k] \in V
    BY <1>2, <1>10, <2>1 DEF b
  <2>3. Range(out[k]) = {r \in Range(out[k - 1]) : r.name # rows[k].name} \cup {rows[k]}
    <3>1. out[k - 1] \in Seq(R) /\ NamesOnce(out[k - 1]) /\ rows[k] \in R
      BY <1>1, <2>1 DEF V
    <3> QED
      BY <2>2, <3>1, InsertKeeps
  <2>4. ASSUME NEW r
        PROVE  IsLast(rows, k, r) <=>
                   (IsLast(rows, k - 1, r) /\ r.name # rows[k].name) \/ r = rows[k]
    <3>1. k \in Nat /\ 1 .. k = (1 .. k - 1) \cup {k}
      BY <1>1
    <3>2. ASSUME IsLast(rows, k, r), r # rows[k]
          PROVE  IsLast(rows, k - 1, r) /\ r.name # rows[k].name
      <4>1. PICK j \in 1 .. k : rows[j] = r /\ \A m \in j + 1 .. k : rows[m].name # r.name
        BY <3>2 DEF IsLast
      <4>2. j \in 1 .. k - 1 /\ k \in j + 1 .. k
        BY <3>1, <3>2, <4>1
      <4>3. \A m \in j + 1 .. k - 1 : m \in j + 1 .. k
        BY <3>1, <4>2
      <4> QED
        BY <4>1, <4>2, <4>3 DEF IsLast
    <3>3. ASSUME IsLast(rows, k - 1, r), r.name # rows[k].name
          PROVE  IsLast(rows, k, r)
      <4>1. PICK j \in 1 .. k - 1 : rows[j] = r /\ \A m \in j + 1 .. k - 1 : rows[m].name # r.name
        BY <3>3 DEF IsLast
      <4>2. j \in 1 .. k /\ \A m \in j + 1 .. k : m \in j + 1 .. k - 1 \/ m = k
        BY <3>1
      <4>3. \A m \in j + 1 .. k : rows[m].name # r.name
        BY <3>3, <4>1, <4>2
      <4> QED
        BY <4>1, <4>2, <4>3 DEF IsLast
    <3>4. IsLast(rows, k, rows[k])
      <4>1. k \in 1 .. k /\ k + 1 .. k = {}
        BY <3>1
      <4> QED
        BY <4>1 DEF IsLast
    <3> QED
      BY <3>2, <3>3, <3>4
  <2>5. \A r : r \in Range(out[k]) <=> IsLast(rows, k, r)
    BY <2>1, <2>3, <2>4
  <2>6. k \in 0 .. N
    OBVIOUS
  <2> QED
    BY <2>2, <2>5, <2>6
<1>13. N \in P
  <2> HIDE DEF P
  <2>1. 0 .. N \subseteq P
    BY <1>1, <1>11, <1>12, UpTo
  <2> QED
    BY <1>1, <2>1
<1>14. Right(N)
  BY <1>13
<1> QED
  BY <1>8, <1>14 DEF V

(* The last row of a name in a list that is put together.                  *)
LEMMA ConcatLast ==
    ASSUME NEW R, NEW s \in Seq(R), NEW t \in Seq(R), NEW r,
           \/ IsLast(t, Len(t), r)
           \/ IsLast(s, Len(s), r) /\ \A q \in Range(t) : q.name # r.name
    PROVE  IsLast(s \o t, Len(s \o t), r)
<1> DEFINE c == s \o t
           a == Len(s)
           b == Len(t)
<1>1. /\ a \in Nat /\ b \in Nat /\ Len(c) = a + b
      /\ \A i \in 1 .. a : c[i] = s[i]
      /\ \A i \in a + 1 .. a + b : c[i] = t[i - a]
  BY ConcatProperties
<1> HIDE DEF c, a, b
<1>2. CASE IsLast(t, b, r)
  <2>1. PICK j \in 1 .. b : t[j] = r /\ \A m \in j + 1 .. b : t[m].name # r.name
    BY <1>2 DEF IsLast
  <2>2. j + a \in 1 .. a + b /\ j + a \in a + 1 .. a + b /\ j + a - a = j
    BY <1>1
  <2>3. c[j + a] = r
    BY <1>1, <2>1, <2>2
  <2>4. ASSUME NEW m \in j + a + 1 .. a + b
        PROVE  c[m].name # r.name
    <3>1. m \in a + 1 .. a + b /\ m - a \in j + 1 .. b
      BY <1>1
    <3> QED
      BY <1>1, <2>1, <3>1
  <2> QED
    BY <1>1, <2>2, <2>3, <2>4 DEF IsLast, c
<1>3. CASE IsLast(s, a, r) /\ \A q \in Range(t) : q.name # r.name
  <2>1. PICK j \in 1 .. a : s[j] = r /\ \A m \in j + 1 .. a : s[m].name # r.name
    BY <1>3 DEF IsLast
  <2>2. j \in 1 .. a + b /\ c[j] = r
    BY <1>1, <2>1
  <2>3. ASSUME NEW m \in j + 1 .. a + b
        PROVE  c[m].name # r.name
    <3>1. CASE m \in j + 1 .. a
      <4>1. m \in 1 .. a
        BY <1>1, <3>1
      <4> QED
        BY <1>1, <2>1, <3>1, <4>1
    <3>2. CASE m \in a + 1 .. a + b
      <4>1. m - a \in 1 .. b
        BY <1>1, <3>2
      <4>2. t[m - a] \in Range(t)
        BY <4>1 DEF Range, b
      <4> QED
        BY <1>1, <1>3, <3>2, <4>2
    <3> QED
      BY <1>1, <3>1, <3>2
  <2> QED
    BY <1>1, <2>2, <2>3 DEF IsLast, c
<1> QED
  BY <1>2, <1>3 DEF a, b

(* What FlattenSeq makes of lists, and which rows are the last ones in it. *)
LEMMA Flattened ==
    ASSUME NEW R, NEW seqs \in Seq(Seq(R))
    PROVE  /\ FlattenSeq(seqs) \in Seq(R)
           /\ Range(FlattenSeq(seqs)) = UNION {Range(seqs[k]) : k \in DOMAIN seqs}
           /\ \A k \in DOMAIN seqs : \A r :
                  /\ IsLast(seqs[k], Len(seqs[k]), r)
                  /\ \A m \in k + 1 .. Len(seqs) : \A q \in Range(seqs[m]) : q.name # r.name
                  => IsLast(FlattenSeq(seqs), Len(FlattenSeq(seqs)), r)
<1> DEFINE N == Len(seqs)
           V == Seq(R)
           b(v, k) == v \o seqs[k]
           step == [k \in 1 .. N |-> [v \in V |-> b(v, k)]]
           Solves(g) == g = [i \in 1 .. N |-> IF i = 1 THEN seqs[i] ELSE b(g[i - 1], i)]
<1>1. N \in Nat /\ DOMAIN seqs = 1 .. N /\ \A k \in 1 .. N : seqs[k] \in V
  OBVIOUS
<1>2. \A v \in V, k \in 1 .. N : b(v, k) \in V
  <2> SUFFICES ASSUME NEW v \in V, NEW k \in 1 .. N
               PROVE  b(v, k) \in V
    OBVIOUS
  <2>1. seqs[k] \in Seq(R)
    BY <1>1
  <2> QED
    BY <2>1, ConcatProperties
<1>3. <<>> \in V
  OBVIOUS
<1>4. \A v \in V : <<>> \o v = v
  BY ConcatEmptySeq
<1> HIDE DEF b, V
<1>5. step \in Steps(N, V)
  BY <1>2 DEF Steps
<1>6. \E f : Runs(f, N, V, <<>>, step)
  <2> HIDE DEF step, N
  <2> QED
    BY <1>1, <1>3, <1>5, Iteration
<1>7. PICK f : Runs(f, N, V, <<>>, step)
  BY <1>6
<1> DEFINE g == [i \in 1 .. N |-> f[i]]
<1>8. Solves(g)
  <2>1. ASSUME NEW i \in 1 .. N
        PROVE  g[i] = IF i = 1 THEN seqs[i] ELSE b(g[i - 1], i)
    <3>1. i - 1 \in 0 .. N /\ i \in 0 .. N
      BY <1>1
    <3>2. f[i - 1] \in V /\ f[i] = step[i][f[i - 1]]
      BY <1>7, <3>1 DEF Runs
    <3>3. f[i] = b(f[i - 1], i)
      BY <3>2
    <3>4. CASE i = 1
      <4>1. f[i - 1] = <<>>
        BY <1>7, <3>4 DEF Runs
      <4>2. f[i] = <<>> \o seqs[i]
        BY <3>3, <4>1 DEF b
      <4>3. <<>> \o seqs[i] = seqs[i]
        BY <1>1, <1>4
      <4> QED
        BY <3>4, <4>2, <4>3
    <3>5. CASE i # 1
      <4>1. i - 1 \in 1 .. N
        BY <1>1, <3>5
      <4> QED
        BY <3>3, <3>5, <4>1
    <3> QED
      BY <3>4, <3>5
  <2> QED
    BY <2>1
<1> DEFINE flatten == CHOOSE h : Solves(h)
<1>9. Solves(flatten)
  BY <1>8
<1>10. N # 0 => FlattenSeq(seqs) = flatten[N]
  BY DEF FlattenSeq, b
<1> HIDE DEF flatten, g, step
<1>11. N # 0 => flatten[1] = seqs[1]
  <2>1. N # 0 => 1 \in 1 .. N
    BY <1>1
  <2> QED
    BY <1>9, <2>1
<1>12. \A k \in 2 .. N : flatten[k] = flatten[k - 1] \o seqs[k]
  <2>1. \A k \in 2 .. N : k \in 1 .. N /\ k # 1
    OBVIOUS
  <2> QED
    BY <1>9, <2>1 DEF b
<1> DEFINE Clear(k, n, r) == \A m \in k + 1 .. n : \A q \in Range(seqs[m]) : q.name # r.name
           LastIn(s, r) == IsLast(s, Len(s), r)
           Right(n) ==
               /\ flatten[n] \in Seq(R)
               /\ Range(flatten[n]) = UNION {Range(seqs[k]) : k \in 1 .. n}
               /\ \A k \in 1 .. n : \A r :
                      LastIn(seqs[k], r) /\ Clear(k, n, r) => LastIn(flatten[n], r)
           P == {n \in 0 .. N : n = 0 \/ Right(n)}
<1>13. 0 \in P
  BY <1>1
<1>14. ASSUME NEW n \in 1 .. N, n - 1 \in P
       PROVE  n \in P
  <2>1. n \in 0 .. N /\ n \in Nat /\ seqs[n] \in Seq(R) /\ 1 .. n = (1 .. n - 1) \cup {n}
    BY <1>1 DEF V
  <2>2. CASE n = 1
    <3>1. flatten[n] = seqs[n]
      BY <1>11, <2>2
    <3>2. 1 .. n = {n}
      BY <2>2
    <3> HIDE DEF Clear, LastIn
    <3>3. Right(n)
      BY <2>1, <3>1, <3>2
    <3> QED
      BY <2>1, <3>3
  <2>3. CASE n # 1
    <3>1. n \in 2 .. N /\ n - 1 # 0
      BY <2>1, <2>3
    <3>2. Right(n - 1)
      BY <1>14, <3>1
    <3>3. flatten[n] = flatten[n - 1] \o seqs[n]
      BY <1>12, <3>1
    <3>4. flatten[n - 1] \in Seq(R) /\ seqs[n] \in Seq(R)
      BY <2>1, <3>2
    <3>5. flatten[n] \in Seq(R)
      BY <3>3, <3>4, ConcatProperties
    <3>6. Range(flatten[n]) = Range(flatten[n - 1]) \cup Range(seqs[n])
      BY <3>3, <3>4, RangeConcatenation
    <3>7. Range(flatten[n]) = UNION {Range(seqs[k]) : k \in 1 .. n}
      <4>1. UNION {Range(seqs[k]) : k \in 1 .. n}
                = (UNION {Range(seqs[k]) : k \in 1 .. n - 1}) \cup Range(seqs[n])
        BY <2>1
      <4> QED
        BY <3>2, <3>6, <4>1
    <3>8. ASSUME NEW k \in 1 .. n, NEW r, LastIn(seqs[k], r), Clear(k, n, r)
          PROVE  LastIn(flatten[n], r)
      <4>1. CASE k = n
        <5>1. IsLast(seqs[n], Len(seqs[n]), r)
          BY <3>8, <4>1
        <5> QED
          BY <3>3, <3>4, <5>1, ConcatLast
      <4>2. CASE k # n
        <5>1. k \in 1 .. n - 1 /\ n \in k + 1 .. n /\ \A m \in k + 1 .. n - 1 : m \in k + 1 .. n
          BY <2>1, <4>2
        <5>2. \A q \in Range(seqs[n]) : q.name # r.name
          BY <3>8, <5>1
        <5>3. Clear(k, n - 1, r)
          BY <3>8, <5>1
        <5>4. LastIn(flatten[n - 1], r)
          <6> HIDE DEF Clear, LastIn
          <6> QED
            BY <3>2, <3>8, <5>1, <5>3
        <5> QED
          BY <3>3, <3>4, <5>2, <5>4, ConcatLast
      <4> QED
        BY <4>1, <4>2
    <3> HIDE DEF Clear, LastIn
    <3> QED
      BY <2>1, <3>5, <3>7, <3>8
  <2> QED
    BY <2>2, <2>3
<1>15. N \in P
  <2> HIDE DEF P
  <2>1. 0 .. N \subseteq P
    BY <1>1, <1>13, <1>14, UpTo
  <2> QED
    BY <1>1, <2>1
<1>16. CASE N = 0
  <2>1. seqs = <<>> /\ FlattenSeq(seqs) = seqs /\ DOMAIN seqs = {}
    BY <1>1, <1>16 DEF FlattenSeq
  <2>2. Range(FlattenSeq(seqs)) = {}
    BY <2>1 DEF Range
  <2>3. FlattenSeq(seqs) \in Seq(R)
    <3>1. <<>> \in Seq(R) /\ FlattenSeq(seqs) = <<>>
      BY <2>1
    <3> QED
      BY <3>1
  <2>4. UNION {Range(seqs[k]) : k \in DOMAIN seqs} = {}
    BY <2>1
  <2>5. \A k \in DOMAIN seqs : FALSE
    BY <2>1
  <2> QED
    BY <2>2, <2>3, <2>4, <2>5
<1>17. CASE N # 0
  <2>1. Right(N) /\ FlattenSeq(seqs) = flatten[N]
    BY <1>10, <1>15, <1>17
  <2> QED
    BY <1>1, <2>1
<1> QED
  BY <1>16, <1>17

(* The ancestors A of i among K: what can be reached over parents.         *)
Closed(K, parents, A) == A \in SUBSET K /\ \A p \in A : Range(parents[p]) \subseteq A
Reach(K, parents, i, A) ==
    /\ Closed(K, parents, A) /\ Range(parents[i]) \subseteq A
    /\ \A X : Closed(K, parents, X) /\ Range(parents[i]) \subseteq X => A \subseteq X

(* As many rounds as there are declarations reach all of them.             *)
LEMMA AncestorsReach ==
    ASSUME Len(source) \in Nat, NEW K, K \subseteq 1 .. Len(source),
           NEW parents \in [K -> Seq(K)], NEW i \in K
    PROVE  Reach(K, parents, i, AncestorsBy(i, parents))
<1> DEFINE N == Len(source)
           V == SUBSET K
           b(v, k) == v \cup UNION {Range(parents[p]) : p \in v}
           step == [k \in 1 .. N |-> [v \in V |-> b(v, k)]]
           Solves(g) == g = [k \in 0 .. N |-> IF k = 0 THEN Range(parents[i]) ELSE b(g[k - 1], k)]
<1>1. N \in Nat /\ \A p \in K : Range(parents[p]) \subseteq K
  <2> SUFFICES ASSUME NEW p \in K
               PROVE  Range(parents[p]) \subseteq K
    OBVIOUS
  <2>1. parents[p] \in Seq(K)
    OBVIOUS
  <2> QED
    BY <2>1 DEF Range
<1>2. \A v \in V, k \in 1 .. N : b(v, k) \in V
  BY <1>1
<1>3. Range(parents[i]) \in V
  BY <1>1
<1> HIDE DEF b, V
<1>4. step \in Steps(N, V)
  BY <1>2 DEF Steps
<1>5. \E f : Runs(f, N, V, Range(parents[i]), step)
  <2> HIDE DEF step, N
  <2> QED
    BY <1>1, <1>3, <1>4, Iteration
<1>6. PICK f : Runs(f, N, V, Range(parents[i]), step)
  BY <1>5
<1>7. Solves(f)
  <2>1. ASSUME NEW k \in 0 .. N
        PROVE  f[k] = IF k = 0 THEN Range(parents[i]) ELSE b(f[k - 1], k)
    <3>1. CASE k = 0
      BY <1>6, <3>1 DEF Runs
    <3>2. CASE k # 0
      <4>1. k \in 1 .. N /\ k - 1 \in 0 .. N
        BY <1>1, <3>2
      <4>2. f[k - 1] \in V /\ f[k] = step[k][f[k - 1]]
        BY <1>6, <4>1 DEF Runs
      <4> QED
        BY <3>2, <4>1, <4>2
    <3> QED
      BY <3>1, <3>2
  <2>2. f = [k \in 0 .. N |-> f[k]]
    BY <1>6 DEF Runs
  <2> QED
    BY <2>1, <2>2
<1> DEFINE from == CHOOSE g : Solves(g)
<1>8. AncestorsBy(i, parents) = from[N]
  BY DEF AncestorsBy, b
<1>9. Solves(from)
  BY <1>7
<1> HIDE DEF from, step
<1>10. from[0] = Range(parents[i]) /\ \A k \in 1 .. N : from[k] = b(from[k - 1], k)
  <2>1. \A k \in 1 .. N : k \in 0 .. N /\ k # 0
    OBVIOUS
  <2>2. 0 \in 0 .. N
    BY <1>1
  <2> QED
    BY <1>9, <2>1, <2>2
<1> DEFINE Done(A) == Closed(K, parents, A)
           P == {n \in 0 .. N : /\ from[n] \in V /\ Range(parents[i]) \subseteq from[n]
                                /\ Done(from[n]) \/ n <= Cardinality(from[n])
                                /\ \A X : Done(X) /\ Range(parents[i]) \subseteq X
                                          => from[n] \subseteq X}
<1>11. IsFiniteSet(K) /\ Cardinality(K) <= N
  <2> HIDE DEF N
  <2>1. IsFiniteSet(1 .. N) /\ Cardinality(1 .. N) = N
    <3>1. N >= 1 \/ N = 0
      BY <1>1
    <3>2. 1 \in Int /\ N \in Int /\ (1 > N => N = 0) /\ N - 1 + 1 = N
      BY <1>1
    <3> QED
      BY <3>2, FS_Interval
  <2> QED
    BY <2>1, FS_Subset DEF N
<1>12. 0 \in P
  <2>1. from[0] = Range(parents[i]) /\ from[0] \in V
    BY <1>3, <1>10
  <2>2. IsFiniteSet(from[0])
    BY <1>11, <2>1, FS_Subset DEF V
  <2>3. 0 <= Cardinality(from[0])
    BY <2>2, FS_CardinalityType
  <2> HIDE DEF Done
  <2> QED
    BY <1>1, <2>1, <2>3
<1>13. ASSUME NEW k \in 1 .. N, k - 1 \in P
       PROVE  k \in P
  <2>1. /\ from[k - 1] \in V /\ Range(parents[i]) \subseteq from[k - 1]
        /\ Done(from[k - 1]) \/ k - 1 <= Cardinality(from[k - 1])
        /\ \A X : Done(X) /\ Range(parents[i]) \subseteq X => from[k - 1] \subseteq X
    BY <1>13
  <2>2. from[k] = from[k - 1] \cup UNION {Range(parents[p]) : p \in from[k - 1]}
    BY <1>10 DEF b
  <2>3. from[k] \in V
    BY <1>2, <1>10, <2>1
  <2>4. ASSUME NEW X, Done(X), Range(parents[i]) \subseteq X
        PROVE  from[k] \subseteq X
    <3>1. from[k - 1] \subseteq X
      BY <2>1, <2>4
    <3> QED
      BY <2>2, <2>4, <3>1 DEF Closed
  <2>5. Done(from[k]) \/ k <= Cardinality(from[k])
    <3>1. CASE Done(from[k - 1])
      <4>1. from[k] = from[k - 1]
        BY <2>2, <3>1 DEF Closed
      <4> QED
        BY <3>1, <4>1
    <3>2. CASE ~Done(from[k - 1])
      <4>1. PICK p \in from[k - 1] : ~(Range(parents[p]) \subseteq from[k - 1])
        BY <2>1, <3>2 DEF Closed, V
      <4>2. from[k - 1] \subseteq from[k] /\ from[k - 1] # from[k]
        BY <2>2, <4>1
      <4>3. IsFiniteSet(from[k])
        BY <1>11, <2>3, FS_Subset DEF V
      <4>4. /\ IsFiniteSet(from[k - 1])
            /\ Cardinality(from[k - 1]) <= Cardinality(from[k])
            /\ Cardinality(from[k]) # Cardinality(from[k - 1])
        <5> HIDE DEF P
        <5> QED
          BY <4>2, <4>3, FS_Subset
      <4>5. k - 1 <= Cardinality(from[k - 1])
        BY <2>1, <3>2
      <4>6. Cardinality(from[k - 1]) \in Nat /\ Cardinality(from[k]) \in Nat
        BY <4>3, <4>4, FS_CardinalityType
      <4> HIDE DEF Done
      <4>7. k <= Cardinality(from[k])
        BY <4>4, <4>5, <4>6
      <4> QED
        BY <4>7
    <3> QED
      BY <3>1, <3>2
  <2>6. Range(parents[i]) \subseteq from[k]
    BY <2>1, <2>2
  <2> HIDE DEF Done
  <2>7. k \in 0 .. N
    OBVIOUS
  <2> QED
    BY <2>3, <2>4, <2>5, <2>6, <2>7
<1>14. N \in P
  <2> HIDE DEF P
  <2>1. 0 .. N \subseteq P
    BY <1>1, <1>12, <1>13, UpTo
  <2> QED
    BY <1>1, <2>1
<1> DEFINE A == from[N]
<1>15. /\ A \in V /\ Range(parents[i]) \subseteq A
       /\ Done(A) \/ N <= Cardinality(A)
       /\ \A X : Done(X) /\ Range(parents[i]) \subseteq X => A \subseteq X
  BY <1>14
<1> HIDE DEF A
<1>16. Done(A)
  <2>1. CASE N <= Cardinality(A)
    <3>1. /\ Cardinality(A) <= Cardinality(K)
          /\ Cardinality(K) = Cardinality(A) => K = A
      BY <1>11, <1>15, FS_Subset DEF V
    <3>2. IsFiniteSet(A)
      BY <1>11, <1>15, FS_Subset DEF V
    <3>3. Cardinality(K) \in Nat /\ Cardinality(A) \in Nat
      BY <1>11, <3>2, FS_CardinalityType
    <3>4. K = A
      BY <1>1, <1>11, <2>1, <3>1, <3>3
    <3> QED
      BY <1>1, <3>4 DEF Closed
  <2> QED
    BY <1>15, <2>1
<1> QED
  BY <1>8, <1>15, <1>16 DEF A, Reach
-----------------------------------------------------------------------------
(* The least of some places is one of them.                                *)
LEMMA LeastPlace ==
    ASSUME NEW S \in SUBSET Nat, S # {}
    PROVE  Min(S) \in S /\ \A y \in S : Min(S) <= y
<1>1. PICK x \in S : \A y \in S : ~(<<y, x>> \in OpToRel(<, Nat))
  BY NatLessThanWellFounded, WFMin
<1>2. \A y \in S : x <= y
  <2> SUFFICES ASSUME NEW y \in S
               PROVE  x <= y
    OBVIOUS
  <2>1. x \in Nat /\ y \in Nat
    OBVIOUS
  <2>2. ~(y < x)
    BY <1>1, <2>1 DEF OpToRel
  <2> QED
    BY <2>1, <2>2
<1> QED
  BY <1>2 DEF Min

(* So is the greatest.                                                     *)
LEMMA GreatestPlace ==
    ASSUME NEW n \in Nat, NEW S \in SUBSET (1 .. n), S # {}
    PROVE  Max(S) \in S /\ \A y \in S : Max(S) >= y
<1> DEFINE T == {n - x : x \in S}
<1>1. T \in SUBSET Nat /\ T # {}
  <2>1. \A x \in S : x \in 1 .. n
    OBVIOUS
  <2>2. \A x \in 1 .. n : n - x \in Nat
    OBVIOUS
  <2>3. PICK x \in S : TRUE
    OBVIOUS
  <2>4. n - x \in T
    OBVIOUS
  <2> QED
    BY <2>1, <2>2, <2>4
<1>2. PICK x \in S : Min(T) = n - x
  <2> HIDE DEF T
  <2>1. Min(T) \in T
    BY <1>1, LeastPlace
  <2> QED
    BY <2>1 DEF T
<1>3. \A y \in S : x >= y
  <2> SUFFICES ASSUME NEW y \in S
               PROVE  x >= y
    OBVIOUS
  <2>1. n - y \in T
    OBVIOUS
  <2> HIDE DEF T
  <2>2. Min(T) <= n - y
    BY <1>1, <2>1, LeastPlace
  <2>3. x \in Nat /\ y \in Nat
    OBVIOUS
  <2> QED
    BY <1>2, <2>2, <2>3
<1> QED
  BY <1>3 DEF Max

(* The source holds drafts, each in its place.                             *)
WellFormed ==
    /\ Len(source) \in Nat /\ DOMAIN source = 1 .. Len(source)
    /\ \A i \in DOMAIN source :
           /\ source[i].extends \in Seq(Range(source[i].extends))
           /\ source[i].fields \in Seq(Range(source[i].fields))
           /\ \A j, k \in DOMAIN source[i].fields :
                  source[i].fields[j].name = source[i].fields[k].name => j = k

(* A name finds a declaration of its own, or nothing.                      *)
LEMMA FirstFound ==
    ASSUME WellFormed, NEW kinds, NEW fqn, FirstDecl(kinds, fqn) # 0
    PROVE  LET f == FirstDecl(kinds, fqn)
           IN  f \in DOMAIN source /\ source[f].kind \in kinds /\ Fqn(f) = fqn
<1> DEFINE places == {i \in DOMAIN source : source[i].kind \in kinds /\ Fqn(i) = fqn}
<1>1. places # {} /\ FirstDecl(kinds, fqn) = Min(places)
  BY DEF FirstDecl
<1>2. places \in SUBSET Nat
  BY DEF WellFormed
<1>3. Min(places) \in places
  <2> HIDE DEF places
  <2> QED
    BY <1>1, <1>2, LeastPlace
<1> QED
  BY <1>1, <1>3

(* A function over the places of a list is a list.                         *)
LEMMA ListOf ==
    ASSUME NEW n \in Nat, NEW f, f = [k \in 1 .. n |-> f[k]]
    PROVE  f \in Seq(Range(f)) /\ Len(f) = n /\ DOMAIN f = 1 .. n
<1>1. DOMAIN f = 1 .. n
  OBVIOUS
<1>2. \A k \in 1 .. n : f[k] \in Range(f)
  BY <1>1 DEF Range
<1>3. f \in Seq(Range(f))
  BY <1>2, IsASeq
<1> QED
  BY <1>1, <1>3

(* The graph leads from nodes to nodes, the walk from declarations to      *)
(* declarations.                                                           *)
LEMMA ParentsAreDeclared ==
    ASSUME WellFormed
    PROVE  /\ Graph \in [Nodes -> Seq(Nodes)] /\ Nodes \subseteq DOMAIN source
           /\ Walked \in [DOMAIN source -> Seq(DOMAIN source)]
<1>1. Nodes \subseteq DOMAIN source
  BY DEF Nodes
<1>2. ASSUME NEW i \in DOMAIN source
      PROVE  ParentsBy(i, ByFqn) \in Seq(Nodes)
  <2> DEFINE n == Len(source[i].extends)
             f == [k \in DOMAIN source[i].extends |->
                      ByFqn(ResolvePath(source[i].extends[k], NamespaceOf(i)))]
             s == Only(f, DOMAIN source)
  <2>1. ParentsBy(i, ByFqn) = s
    BY DEF ParentsBy
  <2>2. n \in Nat /\ DOMAIN source[i].extends = 1 .. n
    BY DEF WellFormed
  <2>3. f \in Seq(Range(f)) /\ DOMAIN f = 1 .. n
    <3>1. f = [k \in 1 .. n |-> f[k]]
      BY <2>2
    <3> HIDE DEF f, n
    <3> QED
      BY <2>2, <3>1, ListOf
  <2>4. Range(f) \cap DOMAIN source \subseteq Nodes
    <3> SUFFICES ASSUME NEW p \in Range(f), p \in DOMAIN source
                 PROVE  p \in Nodes
      OBVIOUS
    <3>1. PICK k \in 1 .. n : p = f[k]
      BY <2>3 DEF Range
    <3> DEFINE fqn == ResolvePath(source[i].extends[k], NamespaceOf(i))
    <3>2. p = FirstDecl({"type", "interface"}, fqn)
      BY <2>2, <3>1 DEF ByFqn
    <3>3. p # 0
      BY DEF WellFormed
    <3> HIDE DEF fqn
    <3>4. Fqn(p) = fqn
      BY <3>2, <3>3, FirstFound
    <3> QED
      BY <3>2, <3>4 DEF Nodes, ByFqn
  <2>5. s \in Seq(Range(f)) /\ Range(s) = Range(f) \cap DOMAIN source
    <3> HIDE DEF f
    <3> QED
      BY <2>3, OnlyKeeps
  <2>6. s \in Seq(Nodes)
    <3> HIDE DEF f, s
    <3>1. \A k \in 1 .. Len(s) : s[k] \in Range(s)
      BY <2>5 DEF Range
    <3>2. s = [k \in 1 .. Len(s) |-> s[k]] /\ Len(s) \in Nat
      BY <2>5
    <3>3. \A k \in 1 .. Len(s) : s[k] \in Nodes
      BY <2>4, <2>5, <3>1
    <3> QED
      BY <3>2, <3>3, IsASeq
  <2> QED
    BY <2>1, <2>6
<1>3. ASSUME NEW i \in DOMAIN source
      PROVE  ParentsBy(i, LookupParent) \in Seq(DOMAIN source)
  <2> DEFINE n == Len(source[i].extends)
             f == [k \in DOMAIN source[i].extends |->
                      LookupParent(ResolvePath(source[i].extends[k], NamespaceOf(i)))]
             s == Only(f, DOMAIN source)
  <2>1. ParentsBy(i, LookupParent) = s
    BY DEF ParentsBy
  <2>2. n \in Nat /\ DOMAIN source[i].extends = 1 .. n
    BY DEF WellFormed
  <2>3. f \in Seq(Range(f))
    <3>1. f = [k \in 1 .. n |-> f[k]]
      BY <2>2
    <3> HIDE DEF f, n
    <3> QED
      BY <2>2, <3>1, ListOf
  <2>4. s \in Seq(Range(f)) /\ Range(s) = Range(f) \cap DOMAIN source
    <3> HIDE DEF f
    <3> QED
      BY <2>3, OnlyKeeps
  <2>5. s \in Seq(DOMAIN source)
    <3> HIDE DEF f, s
    <3>1. \A k \in 1 .. Len(s) : s[k] \in Range(s)
      BY <2>4 DEF Range
    <3>2. s = [k \in 1 .. Len(s) |-> s[k]] /\ Len(s) \in Nat
      BY <2>4
    <3>3. \A k \in 1 .. Len(s) : s[k] \in DOMAIN source
      BY <2>4, <3>1
    <3> QED
      BY <3>2, <3>3, IsASeq
  <2> QED
    BY <2>1, <2>5
<1> QED
  BY <1>1, <1>2, <1>3 DEF Graph, Walked

(* Where no name is a type here and an interface there, the walk looks     *)
(* names up as the check did.                                              *)
LEMMA WalkedAsChecked ==
    ASSUME WellFormed, KindsAgree, NEW i \in Nodes
    PROVE  Walked[i] = Graph[i]
<1>1. ASSUME NEW fqn
      PROVE  LookupParent(fqn) = ByFqn(fqn)
  <2> DEFINE T == {j \in DOMAIN source : source[j].kind \in {"type"} /\ Fqn(j) = fqn}
             I == {j \in DOMAIN source : source[j].kind \in {"interface"} /\ Fqn(j) = fqn}
             E == {j \in DOMAIN source : source[j].kind \in {"type", "interface"} /\ Fqn(j) = fqn}
  <2>1. E = T \cup I
    OBVIOUS
  <2>2. \A p \in T, q \in I : FALSE
    BY DEF KindsAgree
  <2>3. /\ FirstDecl({"type"}, fqn) = IF T = {} THEN 0 ELSE Min(T)
        /\ FirstDecl({"interface"}, fqn) = IF I = {} THEN 0 ELSE Min(I)
        /\ FirstDecl({"type", "interface"}, fqn) = IF E = {} THEN 0 ELSE Min(E)
    BY DEF FirstDecl
  <2>4. T # {} => Min(T) # 0
    <3>1. T \in SUBSET Nat /\ \A p \in T : p # 0
      BY DEF WellFormed
    <3> HIDE DEF T
    <3> QED
      BY <3>1, LeastPlace
  <2> HIDE DEF T, I, E
  <2> QED
    BY <2>1, <2>2, <2>3, <2>4 DEF LookupParent, ByFqn
<1>2. ParentsBy(i, LookupParent) = ParentsBy(i, ByFqn)
  BY <1>1 DEF ParentsBy
<1> QED
  BY <1>2 DEF Walked, Graph, Nodes

Ancestors(i) == AncestorsBy(i, Graph)
Height(i) == Cardinality(Ancestors(i))

(* On a graph without a cycle a parent has fewer ancestors than its child. *)
LEMMA ParentsAreLower ==
    ASSUME WellFormed, NoCycle, NEW i \in Nodes
    PROVE  /\ Reach(Nodes, Graph, i, Ancestors(i))
           /\ IsFiniteSet(Ancestors(i)) /\ Height(i) \in 0 .. Len(source)
           /\ \A p \in Range(Graph[i]) :
                  p \in Nodes /\ Ancestors(p) \subseteq Ancestors(i) /\ Height(p) < Height(i)
           /\ \A a \in Ancestors(i) :
                  \E p \in Range(Graph[i]) : a = p \/ a \in Ancestors(p)
<1>1. /\ Graph \in [Nodes -> Seq(Nodes)] /\ Nodes \subseteq 1 .. Len(source)
      /\ Len(source) \in Nat
  BY ParentsAreDeclared DEF WellFormed
<1>2. \A p \in Nodes : Reach(Nodes, Graph, p, Ancestors(p))
  BY <1>1, AncestorsReach DEF Ancestors
<1>3. \A p \in Nodes : IsFiniteSet(Ancestors(p)) /\ Ancestors(p) \subseteq 1 .. Len(source)
                       /\ Cardinality(Ancestors(p)) \in 0 .. Len(source)
  <2> SUFFICES ASSUME NEW p \in Nodes
               PROVE  /\ IsFiniteSet(Ancestors(p)) /\ Ancestors(p) \subseteq 1 .. Len(source)
                      /\ Cardinality(Ancestors(p)) \in 0 .. Len(source)
    OBVIOUS
  <2>1. Ancestors(p) \subseteq 1 .. Len(source)
    BY <1>1, <1>2 DEF Reach, Closed
  <2>2. IsFiniteSet(1 .. Len(source)) /\ Cardinality(1 .. Len(source)) = Len(source)
    <3>1. 1 \in Int /\ Len(source) \in Int /\ (1 > Len(source) => Len(source) = 0)
          /\ Len(source) - 1 + 1 = Len(source)
      BY <1>1
    <3> QED
      BY <3>1, FS_Interval
  <2>3. IsFiniteSet(Ancestors(p)) /\ Cardinality(Ancestors(p)) <= Len(source)
    BY <2>1, <2>2, FS_Subset
  <2>4. Cardinality(Ancestors(p)) \in Nat
    BY <2>3, FS_CardinalityType
  <2> QED
    BY <1>1, <2>1, <2>3, <2>4
<1>4. ASSUME NEW p \in Range(Graph[i])
      PROVE  p \in Nodes /\ Ancestors(p) \subseteq Ancestors(i) /\ Height(p) < Height(i)
  <2>1. p \in Ancestors(i) /\ p \in Nodes
    BY <1>2 DEF Reach, Closed
  <2>2. Ancestors(p) \subseteq Ancestors(i)
    <3>1. Closed(Nodes, Graph, Ancestors(i)) /\ Range(Graph[p]) \subseteq Ancestors(i)
      BY <1>2, <2>1 DEF Reach, Closed
    <3> QED
      BY <1>2, <2>1, <3>1 DEF Reach
  <2>3. p \notin Ancestors(p)
    BY <2>1 DEF NoCycle, Ancestors
  <2>4. /\ Cardinality(Ancestors(p)) <= Cardinality(Ancestors(i))
        /\ Cardinality(Ancestors(i)) # Cardinality(Ancestors(p))
    BY <1>3, <2>1, <2>2, <2>3, FS_Subset
  <2>5. Cardinality(Ancestors(p)) \in 0 .. Len(source)
        /\ Cardinality(Ancestors(i)) \in 0 .. Len(source)
    BY <1>3, <2>1
  <2>6. Height(p) < Height(i)
    BY <2>4, <2>5 DEF Height
  <2> QED
    BY <2>1, <2>2, <2>6
<1>5. \A a \in Ancestors(i) : \E p \in Range(Graph[i]) : a = p \/ a \in Ancestors(p)
  <2> DEFINE X == {a \in Nodes : \E p \in Range(Graph[i]) : a = p \/ a \in Ancestors(p)}
  <2>1. Closed(Nodes, Graph, X)
    <3> SUFFICES ASSUME NEW a \in X, NEW q \in Range(Graph[a])
                 PROVE  q \in X
      BY DEF Closed
    <3>1. PICK p \in Range(Graph[i]) : a = p \/ a \in Ancestors(p)
      OBVIOUS
    <3>2. p \in Nodes
      BY <1>4
    <3>3. q \in Ancestors(p) /\ q \in Nodes
      BY <1>2, <3>1, <3>2 DEF Reach, Closed
    <3> QED
      BY <3>1, <3>3
  <2>2. Range(Graph[i]) \subseteq X
    BY <1>4
  <2> HIDE DEF X
  <2>3. Ancestors(i) \subseteq X
    BY <1>2, <2>1, <2>2 DEF Reach
  <2> QED
    BY <2>3 DEF X
<1> QED
  BY <1>2, <1>3, <1>4, <1>5 DEF Height

(* The list that is checked has every ancestor.                            *)
LEMMA AncestorsFirstHasAll ==
    ASSUME WellFormed, NoCycle, NEW i \in Nodes
    PROVE  /\ AncestorsFirst(i) \in Seq(Nodes)
           /\ \A a \in Nodes : a = i \/ a \in Ancestors(i) => a \in Range(AncestorsFirst(i))
<1> DEFINE N == Len(source)
           V == [Nodes -> Seq(Nodes)]
           up(v, j) == [k \in DOMAIN Graph[j] |-> v[Graph[j][k]]]
           b(v, n) == [j \in Nodes |-> FlattenSeq(up(v, j)) \o <<j>>]
           first0 == [j \in Nodes |-> <<j>>]
           step == [n \in 1 .. N |-> [v \in V |-> b(v, n)]]
           Solves(g) == g = [n \in 0 .. N |-> [j \in Nodes |->
                                IF n = 0 THEN <<j>>
                                ELSE FlattenSeq([k \in DOMAIN Graph[j] |-> g[n - 1][Graph[j][k]]])
                                     \o <<j>>]]
<1>1. N \in Nat /\ Graph \in [Nodes -> Seq(Nodes)]
  BY ParentsAreDeclared DEF WellFormed
<1>2. ASSUME NEW v \in V, NEW j \in Nodes
      PROVE  up(v, j) \in Seq(Seq(Nodes)) /\ DOMAIN up(v, j) = DOMAIN Graph[j]
  <2>1. Graph[j] \in Seq(Nodes)
    BY <1>1
  <2>2. DOMAIN Graph[j] = 1 .. Len(Graph[j]) /\ Len(Graph[j]) \in Nat
        /\ \A k \in 1 .. Len(Graph[j]) : Graph[j][k] \in Nodes
    BY <2>1
  <2>3. \A k \in 1 .. Len(Graph[j]) : v[Graph[j][k]] \in Seq(Nodes)
    BY <2>2
  <2>4. up(v, j) = [k \in 1 .. Len(Graph[j]) |-> v[Graph[j][k]]]
    BY <2>2
  <2>5. up(v, j) \in Seq(Seq(Nodes))
    BY <2>2, <2>3, <2>4, IsASeq
  <2> QED
    BY <2>5
<1>3. ASSUME NEW v \in V, NEW j \in Nodes
      PROVE  /\ FlattenSeq(up(v, j)) \o <<j>> \in Seq(Nodes)
             /\ Range(FlattenSeq(up(v, j)) \o <<j>>)
                    = (UNION {Range(up(v, j)[k]) : k \in DOMAIN Graph[j]}) \cup {j}
  <2> HIDE DEF up, V
  <2>1. /\ FlattenSeq(up(v, j)) \in Seq(Nodes)
        /\ Range(FlattenSeq(up(v, j))) = UNION {Range(up(v, j)[k]) : k \in DOMAIN up(v, j)}
    BY <1>2, Flattened
  <2>2. <<j>> \in Seq(Nodes) /\ Range(<<j>>) = {j}
    BY DEF Range
  <2> DEFINE all == FlattenSeq(up(v, j))
             own == <<j>>
  <2>3. all \in Seq(Nodes)
    BY <2>1
  <2>4. Range(all) = UNION {Range(up(v, j)[k]) : k \in DOMAIN Graph[j]}
    BY <1>2, <2>1
  <2>5. own \in Seq(Nodes) /\ Range(own) = {j}
    BY <2>2
  <2> HIDE DEF all, own
  <2>6. all \o own \in Seq(Nodes)
    BY <2>3, <2>5, ConcatProperties
  <2>7. Range(all \o own) = Range(all) \cup Range(own)
    BY <2>3, <2>5, RangeConcatenation
  <2> QED
    BY <2>4, <2>5, <2>6, <2>7 DEF all, own
<1>4. \A v \in V, n \in 1 .. N : b(v, n) \in V
  BY <1>3
<1>5. first0 \in V
  OBVIOUS
<1> HIDE DEF b, V, first0
<1>6. step \in Steps(N, V)
  BY <1>4 DEF Steps
<1>7. \E f : Runs(f, N, V, first0, step)
  <2> HIDE DEF step, N
  <2> QED
    BY <1>1, <1>5, <1>6, Iteration
<1>8. PICK f : Runs(f, N, V, first0, step)
  BY <1>7
<1>9. Solves(f)
  <2>1. ASSUME NEW n \in 0 .. N
        PROVE  f[n] = [j \in Nodes |->
                          IF n = 0 THEN <<j>>
                          ELSE FlattenSeq([k \in DOMAIN Graph[j] |-> f[n - 1][Graph[j][k]]])
                               \o <<j>>]
    <3>1. CASE n = 0
      BY <1>8, <3>1 DEF Runs, first0
    <3>2. CASE n # 0
      <4>1. n \in 1 .. N /\ n - 1 \in 0 .. N
        BY <1>1, <3>2
      <4>2. f[n - 1] \in V /\ f[n] = step[n][f[n - 1]]
        BY <1>8, <4>1 DEF Runs
      <4>3. f[n] = b(f[n - 1], n)
        BY <4>1, <4>2
      <4> QED
        BY <3>2, <4>3 DEF b
    <3> QED
      BY <3>1, <3>2
  <2>2. f = [n \in 0 .. N |-> f[n]]
    BY <1>8 DEF Runs
  <2> QED
    BY <2>1, <2>2
<1> DEFINE walk == CHOOSE g : Solves(g)
           all == walk[N][i]
           fresh == {k \in DOMAIN all : \A m \in 1..k - 1 : all[m] # all[k]}
           first == Only([k \in DOMAIN all |-> k], fresh)
<1>10. AncestorsFirst(i) = [k \in DOMAIN first |-> all[first[k]]]
  BY DEF AncestorsFirst
<1>11. Solves(walk)
  BY <1>9
<1> HIDE DEF walk, step
<1>12. /\ walk[0] = first0
       /\ \A n \in 1 .. N : walk[n] = b(walk[n - 1], n)
  <2>1. \A n \in 1 .. N : n \in 0 .. N /\ n # 0
    OBVIOUS
  <2>2. 0 \in 0 .. N
    BY <1>1
  <2> QED
    BY <1>11, <2>1, <2>2 DEF b, first0
<1> DEFINE Right(n) ==
               /\ walk[n] \in V
               /\ \A j \in Nodes : Height(j) <= n =>
                      \A a : a = j \/ a \in Ancestors(j) => a \in Range(walk[n][j])
           P == {n \in 0 .. N : Right(n)}
<1>13. 0 \in P
  <2>1. ASSUME NEW j \in Nodes, Height(j) <= 0, NEW a, a = j \/ a \in Ancestors(j)
        PROVE  a \in Range(walk[0][j])
    <3>1. Height(j) = 0
      BY <1>1, <2>1, ParentsAreLower
    <3>2. Ancestors(j) = {}
      BY <3>1, ParentsAreLower, FS_EmptySet DEF Height
    <3>3. walk[0][j] = <<a>>
      BY <1>12, <2>1, <3>2 DEF first0
    <3> QED
      BY <3>3 DEF Range
  <2>2. walk[0] \in V /\ 0 \in 0 .. N
    BY <1>1, <1>5, <1>12
  <2>3. Right(0)
    BY <2>1, <2>2
  <2> QED
    BY <2>2, <2>3
<1>14. ASSUME NEW n \in 1 .. N, n - 1 \in P
       PROVE  n \in P
  <2>1. Right(n - 1)
    BY <1>14
  <2>2. walk[n] \in V
    BY <1>4, <1>12, <2>1
  <2>3. ASSUME NEW j \in Nodes, Height(j) <= n, NEW a, a = j \/ a \in Ancestors(j)
        PROVE  a \in Range(walk[n][j])
    <3>1. walk[n][j] = FlattenSeq(up(walk[n - 1], j)) \o <<j>>
      BY <1>12 DEF b
    <3>2. Range(walk[n][j]) = (UNION {Range(up(walk[n - 1], j)[k]) : k \in DOMAIN Graph[j]}) \cup {j}
      <4> HIDE DEF up
      <4> QED
        BY <1>3, <2>1, <3>1
    <3>3. CASE a = j
      BY <3>2, <3>3
    <3>4. CASE a \in Ancestors(j)
      <4>1. PICK p \in Range(Graph[j]) : a = p \/ a \in Ancestors(p)
        BY <3>4, ParentsAreLower
      <4>2. PICK k \in DOMAIN Graph[j] : p = Graph[j][k]
        BY DEF Range
      <4>3. p \in Nodes /\ Height(p) < Height(j)
        BY ParentsAreLower
      <4>4. Height(p) \in Nat /\ Height(j) \in Nat
        BY <1>1, <4>3, ParentsAreLower
      <4>5. Height(p) <= n - 1
        BY <1>1, <2>3, <4>3, <4>4
      <4>6. a \in Range(walk[n - 1][p])
        BY <2>1, <4>1, <4>3, <4>5
      <4>7. up(walk[n - 1], j)[k] = walk[n - 1][p]
        BY <4>2
      <4> QED
        BY <3>2, <4>6, <4>7
    <3> QED
      BY <2>3, <3>3, <3>4
  <2> QED
    BY <2>2, <2>3
<1>15. N \in P
  <2> HIDE DEF P
  <2>1. 0 .. N \subseteq P
    BY <1>1, <1>13, <1>14, UpTo
  <2> QED
    BY <1>1, <2>1
<1>16. all \in Seq(Nodes) /\ \A a : a = i \/ a \in Ancestors(i) => a \in Range(all)
  <2>1. Height(i) <= N
    BY ParentsAreLower
  <2> QED
    BY <1>15, <2>1 DEF V
<1> HIDE DEF all
<1> DEFINE places == [k \in DOMAIN all |-> k]
<1>17. Len(all) \in Nat /\ DOMAIN all = 1 .. Len(all) /\ \A k \in DOMAIN all : all[k] \in Nodes
  BY <1>16
<1>18. places \in Seq(Range(places)) /\ Range(places) = 1 .. Len(all)
  <2>1. places = [k \in 1 .. Len(all) |-> places[k]]
    BY <1>17
  <2>2. Range(places) = 1 .. Len(all)
    BY <1>17 DEF Range
  <2> HIDE DEF places
  <2> QED
    BY <1>17, <2>1, <2>2, ListOf
<1>19. first \in Seq(1 .. Len(all)) /\ Range(first) = fresh
  <2>1. Only(places, fresh) \in Seq(Range(places)) /\ Range(Only(places, fresh)) = Range(places) \cap fresh
    <3> HIDE DEF places, fresh
    <3> QED
      BY <1>18, OnlyKeeps
  <2>2. fresh \subseteq 1 .. Len(all)
    BY <1>17
  <2> HIDE DEF fresh
  <2> QED
    BY <1>18, <2>1, <2>2
<1> HIDE DEF first
<1>20. AncestorsFirst(i) \in Seq(Nodes)
  <2>1. Len(first) \in Nat /\ DOMAIN first = 1 .. Len(first)
        /\ \A k \in 1 .. Len(first) : first[k] \in 1 .. Len(all)
    BY <1>19
  <2>2. \A k \in 1 .. Len(first) : all[first[k]] \in Nodes
    BY <1>17, <2>1
  <2> QED
    BY <1>10, <2>1, <2>2, IsASeq
<1>21. ASSUME NEW a \in Range(all)
       PROVE  a \in Range(AncestorsFirst(i))
  <2> DEFINE T == {k \in 1 .. Len(all) : all[k] = a}
             k0 == Min(T)
  <2>1. T \in SUBSET Nat /\ T # {}
    BY <1>17 DEF Range
  <2>2. k0 \in T /\ \A k \in T : k0 <= k
    <3> HIDE DEF T
    <3> QED
      BY <2>1, LeastPlace
  <2> HIDE DEF k0
  <2>3. k0 \in 1 .. Len(all) /\ all[k0] = a
    BY <2>2
  <2>4. ASSUME NEW m \in 1 .. k0 - 1
        PROVE  all[m] # all[k0]
    <3>1. m \in 1 .. Len(all) /\ ~(k0 <= m)
      BY <1>17, <2>3
    <3> QED
      BY <2>2, <2>3, <3>1
  <2>5. k0 \in fresh
    BY <1>17, <2>3, <2>4
  <2>6. PICK n \in DOMAIN first : first[n] = k0
    <3>1. k0 \in Range(first)
      BY <1>19, <2>5
    <3> QED
      BY <3>1 DEF Range
  <2>7. n \in DOMAIN AncestorsFirst(i) /\ AncestorsFirst(i)[n] = a
    BY <1>10, <2>3, <2>6
  <2> QED
    BY <2>7 DEF Range
<1> QED
  BY <1>16, <1>20, <1>21
-----------------------------------------------------------------------------
Rows == {Endless[1]} \cup UNION {Range(OwnFields(i)) : i \in DOMAIN source}

(* The fields a declaration has of its own: one of each name, and its own. *)
LEMMA OwnFieldsOnce ==
    ASSUME WellFormed, NEW i \in DOMAIN source
    PROVE  /\ OwnFields(i) \in Seq(Rows) /\ NamesOnce(OwnFields(i))
           /\ \A r \in Range(OwnFields(i)) : r.owner = i
           /\ \A k \in DOMAIN source[i].fields :
                  \E r \in Range(OwnFields(i)) : /\ r.name = source[i].fields[k].name
                                                 /\ r.type = source[i].fields[k].type
<1> DEFINE n == Len(source[i].fields)
           own == OwnFields(i)
<1>1. n \in Nat /\ DOMAIN source[i].fields = 1 .. n
  BY DEF WellFormed
<1>2. /\ own = [k \in 1 .. n |-> own[k]]
      /\ \A k \in 1 .. n : /\ own[k].name = source[i].fields[k].name
                           /\ own[k].type = source[i].fields[k].type
                           /\ own[k].owner = i
  BY <1>1 DEF OwnFields
<1> HIDE DEF own
<1>3. \A k \in 1 .. n : own[k] \in Range(own)
  BY <1>2 DEF Range
<1>4. Range(own) \subseteq Rows
  BY DEF Rows, own
<1>5. own \in Seq(Rows)
  BY <1>1, <1>2, <1>3, <1>4, IsASeq
<1>6. NamesOnce(own)
  <2>1. \A j, k \in 1 .. n : source[i].fields[j].name = source[i].fields[k].name => j = k
    BY <1>1 DEF WellFormed
  <2>2. DOMAIN own = 1 .. n
    BY <1>2
  <2> HIDE DEF n
  <2> QED
    BY <1>2, <2>1, <2>2 DEF NamesOnce
<1>7. \A r \in Range(own) : r.owner = i
  BY <1>1, <1>2 DEF Range
<1>8. \A k \in 1 .. n : \E r \in Range(own) : /\ r.name = source[i].fields[k].name
                                              /\ r.type = source[i].fields[k].type
  BY <1>2, <1>3
<1> QED
  BY <1>1, <1>5, <1>6, <1>7, <1>8 DEF own

(* Comparing each row with the last one of its name before it compares it  *)
(* with all of them.                                                       *)
LEMMA ConflictsAreFound ==
    ASSUME NEW R, NEW rows \in Seq(R), NoTypeConflict(rows)
    PROVE  \A j, k \in DOMAIN rows :
               rows[j].name = rows[k].name => TypesCompatible(rows[j].type, rows[k].type)
<1> DEFINE N == Len(rows)
           Agree(n) == \A k \in 1 .. n : \A j \in 1 .. k - 1 :
               rows[j].name = rows[k].name => TypesCompatible(rows[j].type, rows[k].type)
           P == {n \in 0 .. N : Agree(n)}
<1>1. N \in Nat /\ DOMAIN rows = 1 .. N
  OBVIOUS
<1>2. 0 \in P
  BY <1>1
<1>3. ASSUME NEW n \in 1 .. N, n - 1 \in P
      PROVE  n \in P
  <2>1. Agree(n - 1) /\ n \in 0 .. N /\ n \in Nat /\ 1 .. n = (1 .. n - 1) \cup {n}
    BY <1>1, <1>3
  <2>2. ASSUME NEW j \in 1 .. n - 1, rows[j].name = rows[n].name
        PROVE  TypesCompatible(rows[j].type, rows[n].type)
    <3> DEFINE T == {m \in 1 .. n - 1 : rows[m].name = rows[n].name}
               last == Max(T)
    <3>1. T \in SUBSET (1 .. n - 1) /\ j \in T /\ n - 1 \in Nat
      BY <2>1, <2>2
    <3>2. last \in T /\ \A m \in T : last >= m
      <4> HIDE DEF T
      <4> QED
        BY <3>1, GreatestPlace
    <3> HIDE DEF last
    <3>3. last \in 1 .. n - 1 /\ rows[last].name = rows[n].name /\ j <= last
      BY <3>1, <3>2
    <3>4. LastOfName(SubSeq(rows, 1, n - 1), last)
      <4> DEFINE before == SubSeq(rows, 1, n - 1)
      <4>1. Len(before) = n - 1 /\ \A m \in 1 .. n - 1 : before[m] = rows[m]
        BY <1>1, <2>1
      <4> HIDE DEF before
      <4>2. ASSUME NEW m \in last + 1 .. n - 1
            PROVE  before[m].name # before[last].name
        <5>1. m \in 1 .. n - 1 /\ ~(last >= m)
          BY <2>1, <3>3
        <5>2. rows[m].name # rows[n].name
          BY <3>2, <5>1
        <5> QED
          BY <3>3, <4>1, <5>1, <5>2
      <4> QED
        BY <4>1, <4>2 DEF LastOfName, before
    <3>5. TypesCompatible(rows[last].type, rows[n].type)
      BY <1>1, <3>3, <3>4 DEF NoTypeConflict
    <3>6. CASE j = last
      BY <3>5, <3>6
    <3>7. CASE j # last
      <4>1. j \in 1 .. last - 1
        BY <2>1, <3>3, <3>7
      <4>2. TypesCompatible(rows[j].type, rows[last].type)
        BY <2>1, <2>2, <3>3, <4>1
      <4> QED
        BY <3>5, <4>2 DEF TypesCompatible
    <3> QED
      BY <3>6, <3>7
  <2> QED
    BY <2>1, <2>2
<1>4. N \in P
  <2> HIDE DEF P
  <2>1. 0 .. N \subseteq P
    BY <1>1, <1>2, <1>3, UpTo
  <2> QED
    BY <1>1, <2>1
<1>5. Agree(N)
  BY <1>4
<1> SUFFICES ASSUME NEW j \in 1 .. N, NEW k \in 1 .. N, rows[j].name = rows[k].name
             PROVE  TypesCompatible(rows[j].type, rows[k].type)
  BY <1>1
<1>6. j = k \/ j \in 1 .. k - 1 \/ k \in 1 .. j - 1
  BY <1>1
<1>7. CASE j = k
  BY <1>7 DEF TypesCompatible
<1>8. CASE j \in 1 .. k - 1
  BY <1>5, <1>8
<1>9. CASE k \in 1 .. j - 1
  <2>1. TypesCompatible(rows[k].type, rows[j].type)
    BY <1>5, <1>9
  <2> QED
    BY <2>1 DEF TypesCompatible
<1> QED
  BY <1>6, <1>7, <1>8, <1>9

(* Fields of one name, of a declaration and its ancestors, are compatible. *)
LEMMA FieldsAgree ==
    ASSUME WellFormed, NoCycle, NEW i \in Nodes, NoTypeConflict(CollectAncestorFields(i)),
           NEW a \in Nodes, a = i \/ a \in Ancestors(i), NEW r \in Range(OwnFields(a)),
           NEW b \in Nodes, b = i \/ b \in Ancestors(i), NEW q \in Range(OwnFields(b)),
           r.name = q.name
    PROVE  TypesCompatible(r.type, q.type)
<1> DEFINE order == AncestorsFirst(i)
           lists == [k \in DOMAIN order |-> OwnFields(order[k])]
           rows == CollectAncestorFields(i)
<1>1. rows = FlattenSeq(lists)
  BY DEF CollectAncestorFields
<1>2. order \in Seq(Nodes) /\ a \in Range(order) /\ b \in Range(order)
  BY AncestorsFirstHasAll
<1>3. lists \in Seq(Seq(Rows))
  <2> HIDE DEF order
  <2>1. Len(order) \in Nat /\ DOMAIN order = 1 .. Len(order)
        /\ \A k \in 1 .. Len(order) : order[k] \in Nodes
    BY <1>2
  <2>2. \A j \in Nodes : OwnFields(j) \in Seq(Rows)
    BY OwnFieldsOnce, ParentsAreDeclared
  <2>3. \A k \in 1 .. Len(order) : OwnFields(order[k]) \in Seq(Rows)
    BY <2>1, <2>2
  <2>4. lists = [k \in 1 .. Len(order) |-> OwnFields(order[k])]
    BY <2>1
  <2> QED
    BY <2>1, <2>3, <2>4, IsASeq
<1>4. rows \in Seq(Rows) /\ Range(rows) = UNION {Range(lists[k]) : k \in DOMAIN lists}
  <2> HIDE DEF lists, rows
  <2> QED
    BY <1>1, <1>3, Flattened
<1>5. r \in Range(rows) /\ q \in Range(rows)
  <2>1. PICK k \in DOMAIN order : order[k] = a
    BY <1>2 DEF Range
  <2>2. PICK m \in DOMAIN order : order[m] = b
    BY <1>2 DEF Range
  <2>3. k \in DOMAIN lists /\ lists[k] = OwnFields(a) /\ m \in DOMAIN lists /\ lists[m] = OwnFields(b)
    BY <2>1, <2>2
  <2> HIDE DEF lists, rows
  <2> QED
    BY <1>4, <2>3
<1> HIDE DEF rows
<1>6. PICK j \in DOMAIN rows, k \in DOMAIN rows : rows[j] = r /\ rows[k] = q
  BY <1>5 DEF Range
<1>7. NoTypeConflict(rows)
  BY DEF rows
<1> QED
  BY <1>4, <1>6, <1>7, ConflictsAreFound

(* One round of the two walks, from what the round before it found.        *)
Inherited(v, i) == [k \in DOMAIN Walked[i] |-> v[Walked[i][k]]]
Built(v, i) ==
    IF Endless \in Range(Inherited(v, i)) THEN Endless
    ELSE Merged(FlattenSeq(Inherited(v, i)) \o OwnFields(i))
Looked(v, i, name) ==
    LET own == {row \in Range(OwnFields(i)) : row.name = name}
        found == {k \in DOMAIN Inherited(v, i) : Inherited(v, i)[k] # <<>>}
    IN  IF own # {} THEN <<CHOOSE row \in own : TRUE>>
        ELSE IF found = {} THEN <<>> ELSE Inherited(v, i)[Max(found)]

Lists == [DOMAIN source -> Seq(Rows)]

(* What a declaration inherits is a list of lists of rows.                 *)
LEMMA InheritedLists ==
    ASSUME WellFormed, NEW v \in Lists, NEW i \in DOMAIN source
    PROVE  /\ Inherited(v, i) \in Seq(Seq(Rows))
           /\ DOMAIN Inherited(v, i) = DOMAIN Walked[i] /\ DOMAIN Walked[i] = 1 .. Len(Walked[i])
           /\ Len(Walked[i]) \in Nat /\ Len(Inherited(v, i)) = Len(Walked[i])
           /\ \A k \in DOMAIN Walked[i] :
                  Walked[i][k] \in DOMAIN source /\ Inherited(v, i)[k] = v[Walked[i][k]]
<1>1. Walked[i] \in Seq(DOMAIN source)
  BY ParentsAreDeclared
<1>2. DOMAIN Walked[i] = 1 .. Len(Walked[i]) /\ Len(Walked[i]) \in Nat
      /\ \A k \in DOMAIN Walked[i] : Walked[i][k] \in DOMAIN source
  BY <1>1
<1>3. Inherited(v, i) = [k \in 1 .. Len(Walked[i]) |-> v[Walked[i][k]]]
  BY <1>2 DEF Inherited
<1>4. \A k \in 1 .. Len(Walked[i]) : v[Walked[i][k]] \in Seq(Rows)
  BY <1>2 DEF Lists
<1>5. Inherited(v, i) \in Seq(Seq(Rows))
  BY <1>2, <1>3, <1>4, IsASeq
<1>6. Len(Inherited(v, i)) = Len(Walked[i])
  BY <1>2, <1>3
<1> QED
  BY <1>2, <1>3, <1>5, <1>6

(* Endless is a list of one row.                                           *)
LEMMA EndlessIsARow == Endless \in Seq(Rows) /\ \E r \in Range(Endless) : r.owner = 0
<1> DEFINE e == Endless[1]
<1>1. Endless = <<e>> /\ e.owner = 0 /\ e \in Rows
  BY DEF Endless, Rows
<1> HIDE DEF e
<1>2. <<e>> \in Seq(Rows) /\ e \in Range(<<e>>)
  BY <1>1 DEF Range
<1> QED
  BY <1>1, <1>2

(* Every round gives lists of rows.                                        *)
LEMMA RoundsGiveLists ==
    ASSUME WellFormed, NEW v \in Lists, NEW i \in DOMAIN source
    PROVE  /\ Built(v, i) \in Seq(Rows)
           /\ \A name : Looked(v, i, name) \in Seq(Rows)
<1> DEFINE lists == Inherited(v, i)
<1>1. /\ lists \in Seq(Seq(Rows)) /\ DOMAIN lists = 1 .. Len(Walked[i])
      /\ Len(Walked[i]) \in Nat
      /\ \A k \in DOMAIN lists : lists[k] \in Seq(Rows)
  BY InheritedLists DEF Lists
<1>2. Endless \in Seq(Rows)
  BY EndlessIsARow
<1>3. OwnFields(i) \in Seq(Rows)
  BY OwnFieldsOnce
<1>4. Merged(FlattenSeq(lists) \o OwnFields(i)) \in Seq(Rows)
  <2> HIDE DEF lists
  <2>1. FlattenSeq(lists) \in Seq(Rows)
    BY <1>1, Flattened
  <2>2. FlattenSeq(lists) \o OwnFields(i) \in Seq(Rows)
    BY <1>3, <2>1, ConcatProperties
  <2> QED
    BY <2>2, MergedKeepsLast
<1>5. ASSUME NEW name
      PROVE  Looked(v, i, name) \in Seq(Rows)
  <2> DEFINE own == {row \in Range(OwnFields(i)) : row.name = name}
             found == {k \in DOMAIN lists : lists[k] # <<>>}
  <2>1. Looked(v, i, name) = IF own # {} THEN <<CHOOSE row \in own : TRUE>>
                             ELSE IF found = {} THEN <<>> ELSE lists[Max(found)]
    BY DEF Looked
  <2>2. CASE own # {}
    <3>1. (CHOOSE row \in own : TRUE) \in own
      BY <2>2
    <3>2. own \subseteq Rows
      BY DEF Rows
    <3> HIDE DEF own
    <3> QED
      BY <2>1, <2>2, <3>1, <3>2
  <2>3. CASE own = {} /\ found = {}
    BY <2>1, <2>3
  <2>4. CASE own = {} /\ found # {}
    <3>1. found \in SUBSET (1 .. Len(Walked[i]))
      BY <1>1
    <3>2. Max(found) \in found
      <4> HIDE DEF found
      <4> QED
        BY <1>1, <2>4, <3>1, GreatestPlace
    <3>3. lists[Max(found)] \in Seq(Rows)
      BY <1>1, <3>2
    <3> HIDE DEF found, lists
    <3> QED
      BY <2>1, <2>4, <3>3
  <2> QED
    BY <2>2, <2>3, <2>4
<1> QED
  BY <1>2, <1>4, <1>5 DEF Built

(* The rounds of a walk: f[n] is what round n gives.                       *)
Rounds == Len(source) + 1
Builds(f) ==
    /\ f \in [0 .. Rounds -> Lists]
    /\ \A n \in 1 .. Rounds : \A i \in DOMAIN source : f[n][i] = Built(f[n - 1], i)
Looks(f, name) ==
    /\ f \in [0 .. Rounds -> Lists]
    /\ \A n \in 1 .. Rounds : \A i \in DOMAIN source : f[n][i] = Looked(f[n - 1], i, name)

(* The walk for the whole lists, round by round.                           *)
LEMMA BuildsInRounds ==
    ASSUME WellFormed
    PROVE  \E f : Builds(f) /\ EffectiveFields = f[Rounds]
<1> DEFINE N == Rounds
           V == Lists
           b(v, n) == [i \in DOMAIN source |-> Built(v, i)]
           first == [i \in DOMAIN source |-> Endless]
           step == [n \in 1 .. N |-> [v \in V |-> b(v, n)]]
           Solves(g) == g = [n \in 0 .. N |-> [i \in DOMAIN source |->
                LET inherited == [k \in DOMAIN Walked[i] |-> g[n - 1][Walked[i][k]]]
                IN  IF n = 0 \/ Endless \in Range(inherited) THEN Endless
                    ELSE Merged(FlattenSeq(inherited) \o OwnFields(i))]]
<1>1. N \in Nat
  BY DEF WellFormed, Rounds
<1>2. \A v \in V, n \in 1 .. N : b(v, n) \in V
  BY RoundsGiveLists DEF Lists
<1>3. first \in V
  BY EndlessIsARow DEF Lists
<1> HIDE DEF b, V, first, N
<1>4. step \in Steps(N, V)
  BY <1>2 DEF Steps
<1>5. \E f : Runs(f, N, V, first, step)
  <2> HIDE DEF step
  <2> QED
    BY <1>1, <1>3, <1>4, Iteration
<1>6. PICK f : Runs(f, N, V, first, step)
  BY <1>5
<1>7. Solves(f)
  <2>1. ASSUME NEW n \in 0 .. N
        PROVE  f[n] = [i \in DOMAIN source |->
                LET inherited == [k \in DOMAIN Walked[i] |-> f[n - 1][Walked[i][k]]]
                IN  IF n = 0 \/ Endless \in Range(inherited) THEN Endless
                    ELSE Merged(FlattenSeq(inherited) \o OwnFields(i))]
    <3>1. CASE n = 0
      <4>1. f[n] = first
        BY <1>6, <3>1 DEF Runs
      <4> QED
        BY <3>1, <4>1 DEF first
    <3>2. CASE n # 0
      <4>1. n \in 1 .. N /\ n - 1 \in 0 .. N
        BY <1>1, <3>2
      <4>2. f[n - 1] \in V /\ f[n] = step[n][f[n - 1]]
        BY <1>6, <4>1 DEF Runs
      <4>3. f[n] = b(f[n - 1], n)
        BY <4>1, <4>2
      <4> QED
        BY <3>2, <4>3 DEF b, Built, Inherited
    <3> QED
      BY <3>1, <3>2
  <2>2. f = [n \in 0 .. N |-> f[n]]
    BY <1>6 DEF Runs
  <2> QED
    BY <2>1, <2>2
<1> DEFINE build == CHOOSE g : Solves(g)
<1>8. EffectiveFields = build[N]
  BY DEF EffectiveFields, N, Rounds
<1>9. Solves(build)
  <2> HIDE DEF Solves
  <2> QED
    BY <1>7
<1> HIDE DEF build, step
<1>10. build[0] = first
  <2>1. 0 \in 0 .. N
    BY <1>1
  <2> QED
    BY <1>9, <2>1 DEF first
<1>11. ASSUME NEW n \in 1 .. N
       PROVE  build[n] = b(build[n - 1], n)
  <2>1. n \in 0 .. N /\ n # 0
    OBVIOUS
  <2>2. build[n] = [i \in DOMAIN source |->
                LET inherited == [k \in DOMAIN Walked[i] |-> build[n - 1][Walked[i][k]]]
                IN  IF n = 0 \/ Endless \in Range(inherited) THEN Endless
                    ELSE Merged(FlattenSeq(inherited) \o OwnFields(i))]
    BY <1>9, <2>1
  <2> QED
    BY <2>1, <2>2 DEF b, Built, Inherited
<1>12. build \in [0 .. N -> V]
  <2> DEFINE P == {n \in 0 .. N : build[n] \in V}
  <2>1. 0 \in P
    BY <1>1, <1>3, <1>10
  <2>2. \A n \in 1 .. N : n - 1 \in P => n \in P
    BY <1>2, <1>11
  <2>3. DOMAIN build = 0 .. N /\ build = [n \in 0 .. N |-> build[n]]
    BY <1>9
  <2> HIDE DEF P
  <2>4. 0 .. N \subseteq P
    BY <1>1, <2>1, <2>2, UpTo
  <2> QED
    BY <2>3, <2>4 DEF P
<1>13. Builds(build)
  <2>1. \A n \in 1 .. N : \A i \in DOMAIN source : build[n][i] = Built(build[n - 1], i)
    BY <1>11 DEF b
  <2> QED
    BY <1>12, <2>1 DEF Builds, N, V
<1> QED
  BY <1>8, <1>13 DEF N

(* The walk for one field, round by round.                                 *)
LEMMA LooksInRounds ==
    ASSUME WellFormed, NEW name
    PROVE  \E f : Looks(f, name) /\ LookupEffectiveField(name) = f[Rounds]
<1> DEFINE N == Rounds
           V == Lists
           b(v, n) == [i \in DOMAIN source |-> Looked(v, i, name)]
           first == [i \in DOMAIN source |-> <<>>]
           step == [n \in 1 .. N |-> [v \in V |-> b(v, n)]]
           Solves(g) == g = [n \in 0 .. N |-> [i \in DOMAIN source |->
                LET own == {row \in Range(OwnFields(i)) : row.name = name}
                    inherited == [k \in DOMAIN Walked[i] |-> g[n - 1][Walked[i][k]]]
                    found == {k \in DOMAIN inherited : inherited[k] # <<>>}
                IN  IF n = 0 THEN <<>>
                    ELSE IF own # {} THEN <<CHOOSE row \in own : TRUE>>
                    ELSE IF found = {} THEN <<>> ELSE inherited[Max(found)]]]
<1>1. N \in Nat
  BY DEF WellFormed, Rounds
<1>2. \A v \in V, n \in 1 .. N : b(v, n) \in V
  BY RoundsGiveLists DEF Lists
<1>3. first \in V
  BY DEF Lists
<1> HIDE DEF b, V, first, N
<1>4. step \in Steps(N, V)
  BY <1>2 DEF Steps
<1>5. \E f : Runs(f, N, V, first, step)
  <2> HIDE DEF step
  <2> QED
    BY <1>1, <1>3, <1>4, Iteration
<1>6. PICK f : Runs(f, N, V, first, step)
  BY <1>5
<1>7. Solves(f)
  <2>1. ASSUME NEW n \in 0 .. N
        PROVE  f[n] = [i \in DOMAIN source |->
                LET own == {row \in Range(OwnFields(i)) : row.name = name}
                    inherited == [k \in DOMAIN Walked[i] |-> f[n - 1][Walked[i][k]]]
                    found == {k \in DOMAIN inherited : inherited[k] # <<>>}
                IN  IF n = 0 THEN <<>>
                    ELSE IF own # {} THEN <<CHOOSE row \in own : TRUE>>
                    ELSE IF found = {} THEN <<>> ELSE inherited[Max(found)]]
    <3>1. CASE n = 0
      <4>1. f[n] = first
        BY <1>6, <3>1 DEF Runs
      <4> QED
        BY <3>1, <4>1 DEF first
    <3>2. CASE n # 0
      <4>1. n \in 1 .. N /\ n - 1 \in 0 .. N
        BY <1>1, <3>2
      <4>2. f[n - 1] \in V /\ f[n] = step[n][f[n - 1]]
        BY <1>6, <4>1 DEF Runs
      <4>3. f[n] = b(f[n - 1], n)
        BY <4>1, <4>2
      <4> QED
        BY <3>2, <4>3 DEF b, Looked, Inherited
    <3> QED
      BY <3>1, <3>2
  <2>2. f = [n \in 0 .. N |-> f[n]]
    BY <1>6 DEF Runs
  <2> QED
    BY <2>1, <2>2
<1> DEFINE look == CHOOSE g : Solves(g)
<1>8. LookupEffectiveField(name) = look[N]
  BY DEF LookupEffectiveField, N, Rounds
<1>9. Solves(look)
  <2> HIDE DEF Solves
  <2> QED
    BY <1>7
<1> HIDE DEF look, step
<1>10. look[0] = first
  <2>1. 0 \in 0 .. N
    BY <1>1
  <2> QED
    BY <1>9, <2>1 DEF first
<1>11. ASSUME NEW n \in 1 .. N
       PROVE  look[n] = b(look[n - 1], n)
  <2>1. n \in 0 .. N /\ n # 0
    OBVIOUS
  <2>2. look[n] = [i \in DOMAIN source |->
                LET own == {row \in Range(OwnFields(i)) : row.name = name}
                    inherited == [k \in DOMAIN Walked[i] |-> look[n - 1][Walked[i][k]]]
                    found == {k \in DOMAIN inherited : inherited[k] # <<>>}
                IN  IF n = 0 THEN <<>>
                    ELSE IF own # {} THEN <<CHOOSE row \in own : TRUE>>
                    ELSE IF found = {} THEN <<>> ELSE inherited[Max(found)]]
    BY <1>9, <2>1
  <2> QED
    BY <2>1, <2>2 DEF b, Looked, Inherited
<1>12. look \in [0 .. N -> V]
  <2> DEFINE P == {n \in 0 .. N : look[n] \in V}
  <2>1. 0 \in P
    BY <1>1, <1>3, <1>10
  <2>2. \A n \in 1 .. N : n - 1 \in P => n \in P
    BY <1>2, <1>11
  <2>3. DOMAIN look = 0 .. N /\ look = [n \in 0 .. N |-> look[n]]
    BY <1>9
  <2> HIDE DEF P
  <2>4. 0 .. N \subseteq P
    BY <1>1, <2>1, <2>2, UpTo
  <2> QED
    BY <2>3, <2>4 DEF P
<1>13. Looks(look, name)
  <2>1. \A n \in 1 .. N : \A i \in DOMAIN source : look[n][i] = Looked(look[n - 1], i, name)
    BY <1>11 DEF b
  <2> QED
    BY <1>12, <2>1 DEF Looks, N, V
<1> QED
  BY <1>8, <1>13 DEF N

(* Of each name that a list has there is a last row.                       *)
LEMMA NameHasLast ==
    ASSUME NEW R, NEW rows \in Seq(R), NEW r \in Range(rows)
    PROVE  \E q \in Range(rows) : q.name = r.name /\ IsLast(rows, Len(rows), q)
<1> DEFINE N == Len(rows)
           T == {k \in 1 .. N : rows[k].name = r.name}
           last == Max(T)
<1>1. N \in Nat /\ DOMAIN rows = 1 .. N
  OBVIOUS
<1>2. T # {} /\ T \in SUBSET (1 .. N)
  BY <1>1 DEF Range
<1>3. last \in T /\ \A k \in T : last >= k
  <2> HIDE DEF T, N
  <2> QED
    BY <1>1, <1>2, GreatestPlace
<1> HIDE DEF last
<1>4. last \in 1 .. N /\ rows[last].name = r.name
  BY <1>3
<1>5. ASSUME NEW m \in last + 1 .. N
      PROVE  rows[m].name # rows[last].name
  <2>1. m \in 1 .. N /\ ~(last >= m)
    BY <1>1, <1>4
  <2> QED
    BY <1>3, <1>4, <2>1
<1>6. rows[last] \in Range(rows)
  BY <1>1, <1>4 DEF Range
<1> QED
  BY <1>4, <1>5, <1>6 DEF IsLast

(* In a list with each name once every row is the last one of its name.    *)
LEMMA OnceIsLast ==
    ASSUME NEW R, NEW rows \in Seq(R), NamesOnce(rows), NEW r \in Range(rows)
    PROVE  IsLast(rows, Len(rows), r)
<1>1. PICK q \in Range(rows) : q.name = r.name /\ IsLast(rows, Len(rows), q)
  BY NameHasLast
<1>2. q = r
  BY <1>1 DEF Range, NamesOnce
<1> QED
  BY <1>1, <1>2

(* A declaration and its ancestors; what the two walks should find for it: *)
(* rows of theirs, one of each name that any of them has, and the row of   *)
(* the one name that is looked up.                                         *)
Kin(i) == {a \in Nodes : a = i \/ a \in Ancestors(i)}
Meant(i, all, name, one) ==
    /\ all \in Seq(Rows) /\ NamesOnce(all)
    /\ \A r \in Range(all) : \E a \in Kin(i) : r \in Range(OwnFields(a))
    /\ \A a \in Kin(i) : \A r \in Range(OwnFields(a)) :
           \E q \in Range(all) : q.name = r.name
    /\ \/ \E r \in Range(all) : r.name = name /\ one = <<r>>
       \/ one = <<>> /\ \A r \in Range(all) : r.name # name

(* A list of fields of declarations is not the mark of an endless walk.    *)
LEMMA MeantIsNotEndless ==
    ASSUME WellFormed, NEW i, NEW all, NEW name, NEW one, Meant(i, all, name, one)
    PROVE  all # Endless
<1> SUFFICES ASSUME all = Endless
             PROVE  FALSE
  OBVIOUS
<1>1. PICK r \in Range(all) : r.owner = 0
  BY EndlessIsARow
<1>2. PICK a \in Nodes : r \in Range(OwnFields(a))
  BY <1>1 DEF Meant, Kin
<1>3. r.owner = a /\ a # 0
  BY <1>2, OwnFieldsOnce, ParentsAreDeclared DEF WellFormed
<1> QED
  BY <1>1, <1>3

(* From what is meant for its parents a round finds what is meant for a    *)
(* declaration.                                                            *)
LEMMA RoundKeepsMeaning ==
    ASSUME WellFormed, NoCycle, KindsAgree, NEW i \in Nodes, NEW name,
           NEW v \in Lists, NEW w \in Lists,
           \A p \in Range(Graph[i]) : Meant(p, v[p], name, w[p])
    PROVE  Meant(i, Built(v, i), name, Looked(w, i, name))
<1> DEFINE lists == Inherited(v, i)
           ones == Inherited(w, i)
           n == Len(Walked[i])
           above == FlattenSeq(lists)
           own == OwnFields(i)
           rows == above \o own
           all == Built(v, i)
           one == Looked(w, i, name)
<1>1. /\ lists \in Seq(Seq(Rows)) /\ DOMAIN lists = 1 .. n /\ Len(lists) = n /\ n \in Nat
      /\ ones \in Seq(Seq(Rows)) /\ DOMAIN ones = 1 .. n
      /\ \A k \in 1 .. n : /\ lists[k] = v[Walked[i][k]] /\ ones[k] = w[Walked[i][k]]
                           /\ Walked[i][k] \in Range(Graph[i]) /\ Walked[i][k] \in Nodes
  <2>1. i \in DOMAIN source /\ Walked[i] = Graph[i]
    BY ParentsAreDeclared, WalkedAsChecked
  <2>2. \A k \in DOMAIN Walked[i] : Walked[i][k] \in Range(Graph[i])
    BY <2>1 DEF Range
  <2>3. \A p \in Range(Graph[i]) : p \in Nodes
    BY ParentsAreLower
  <2>4. DOMAIN Walked[i] = 1 .. n /\ n \in Nat
    BY <2>1, InheritedLists
  <2>5. /\ lists \in Seq(Seq(Rows)) /\ DOMAIN lists = 1 .. n /\ Len(lists) = n
        /\ \A k \in 1 .. n : lists[k] = v[Walked[i][k]]
    BY <2>1, <2>4, InheritedLists
  <2>6. /\ ones \in Seq(Seq(Rows)) /\ DOMAIN ones = 1 .. n
        /\ \A k \in 1 .. n : ones[k] = w[Walked[i][k]]
    BY <2>1, <2>4, InheritedLists
  <2> HIDE DEF lists, ones, n
  <2> QED
    BY <2>2, <2>3, <2>4, <2>5, <2>6
<1>2. ASSUME NEW k \in 1 .. n
      PROVE  /\ Meant(Walked[i][k], lists[k], name, ones[k])
             /\ lists[k] \in Seq(Rows) /\ NamesOnce(lists[k])
  <2>1. Meant(Walked[i][k], lists[k], name, ones[k])
    BY <1>1
  <2> QED
    BY <2>1 DEF Meant
<1>3. /\ own \in Seq(Rows) /\ NamesOnce(own)
  BY OwnFieldsOnce, ParentsAreDeclared
<1>4. all = Merged(rows)
  <2>1. \A k \in 1 .. n : lists[k] # Endless
    BY <1>2, MeantIsNotEndless
  <2>2. Endless \notin Range(lists)
    BY <1>1, <2>1 DEF Range
  <2> QED
    BY <2>2 DEF Built
<1>5. /\ one = IF {row \in Range(own) : row.name = name} # {}
               THEN <<CHOOSE row \in {row \in Range(own) : row.name = name} : TRUE>>
               ELSE IF {k \in DOMAIN ones : ones[k] # <<>>} = {} THEN <<>>
               ELSE ones[Max({k \in DOMAIN ones : ones[k] # <<>>})]
  BY DEF Looked
<1> HIDE DEF lists, ones, n, own, all, one
<1>6. /\ above \in Seq(Rows) /\ Range(above) = UNION {Range(lists[k]) : k \in 1 .. n}
      /\ \A k \in 1 .. n : \A r :
             /\ IsLast(lists[k], Len(lists[k]), r)
             /\ \A m \in k + 1 .. n : \A q \in Range(lists[m]) : q.name # r.name
             => IsLast(above, Len(above), r)
  BY <1>1, Flattened
<1> HIDE DEF above
<1>7. rows \in Seq(Rows) /\ Range(rows) = Range(above) \cup Range(own)
  BY <1>3, <1>6, ConcatProperties, RangeConcatenation
<1>8. \A r : IsLast(own, Len(own), r) => IsLast(rows, Len(rows), r)
  BY <1>3, <1>6, ConcatLast
<1>9. \A r : IsLast(above, Len(above), r) /\ (\A q \in Range(own) : q.name # r.name)
             => IsLast(rows, Len(rows), r)
  BY <1>3, <1>6, ConcatLast
<1> HIDE DEF rows
<1>10. /\ all \in Seq(Rows) /\ NamesOnce(all)
       /\ \A r : r \in Range(all) <=> IsLast(rows, Len(rows), r)
  BY <1>4, <1>7, MergedKeepsLast
<1>11. \A r \in Range(rows) : \E q \in Range(all) : q.name = r.name
  BY <1>7, <1>10, NameHasLast
<1>12. \A r \in Range(all) : r \in Range(rows)
  <2> SUFFICES ASSUME NEW r \in Range(all)
               PROVE  r \in Range(rows)
    OBVIOUS
  <2>1. PICK j \in 1 .. Len(rows) : rows[j] = r
    BY <1>10 DEF IsLast
  <2>2. j \in DOMAIN rows
    BY <1>7
  <2> QED
    BY <2>1, <2>2 DEF Range
<1>13. ASSUME NEW r \in Range(above)
       PROVE  \E k \in 1 .. n : r \in Range(lists[k])
  BY <1>6
<1>14. ASSUME NEW r \in Range(all)
       PROVE  \E a \in Kin(i) : r \in Range(OwnFields(a))
  <2>1. CASE r \in Range(own)
    BY <2>1 DEF Kin, own
  <2>2. CASE r \in Range(above)
    <3>1. PICK k \in 1 .. n : r \in Range(lists[k])
      BY <1>13, <2>2
    <3>2. PICK a \in Kin(Walked[i][k]) : r \in Range(OwnFields(a))
      BY <1>2, <3>1 DEF Meant
    <3>3. Walked[i][k] \in Ancestors(i) /\ Ancestors(Walked[i][k]) \subseteq Ancestors(i)
      BY <1>1, ParentsAreLower DEF Reach
    <3>4. a \in Kin(i)
      BY <3>3 DEF Kin
    <3> QED
      BY <3>2, <3>4
  <2> QED
    BY <1>7, <1>12, <2>1, <2>2
<1>15. ASSUME NEW a \in Kin(i), NEW r \in Range(OwnFields(a))
       PROVE  \E q \in Range(all) : q.name = r.name
  <2>1. CASE a = i
    <3>1. r \in Range(rows)
      BY <1>7, <2>1 DEF own
    <3> QED
      BY <1>11, <3>1
  <2>2. CASE a # i
    <3>1. a \in Ancestors(i) /\ a \in Nodes
      BY <2>2 DEF Kin
    <3>2. PICK p \in Range(Graph[i]) : a = p \/ a \in Ancestors(p)
      BY <3>1, ParentsAreLower
    <3>3. PICK k \in 1 .. n : p = Walked[i][k]
      <4>1. Walked[i] = Graph[i] /\ DOMAIN Walked[i] = 1 .. n
        BY ParentsAreDeclared, WalkedAsChecked, InheritedLists DEF n
      <4> QED
        BY <4>1 DEF Range
    <3>4. a \in Kin(Walked[i][k])
      BY <3>1, <3>2, <3>3 DEF Kin
    <3>5. PICK q \in Range(lists[k]) : q.name = r.name
      BY <1>2, <3>4 DEF Meant
    <3>6. q \in Range(rows)
      BY <1>6, <1>7
    <3> QED
      BY <1>11, <3>5, <3>6
  <2> QED
    BY <2>1, <2>2
<1> DEFINE mine == {row \in Range(own) : row.name = name}
           found == {k \in DOMAIN ones : ones[k] # <<>>}
<1>16. \/ \E r \in Range(all) : r.name = name /\ one = <<r>>
       \/ one = <<>> /\ \A r \in Range(all) : r.name # name
  <2>1. CASE mine # {}
    <3> DEFINE row == CHOOSE row \in mine : TRUE
    <3>1. row \in mine
      BY <2>1
    <3>2. one = <<row>>
      BY <1>5, <2>1
    <3> HIDE DEF row
    <3>3. row \in Range(own) /\ row.name = name
      BY <3>1
    <3>4. IsLast(rows, Len(rows), row)
      BY <1>3, <1>8, <3>3, OnceIsLast
    <3>5. row \in Range(all)
      BY <1>10, <3>4
    <3> QED
      BY <3>2, <3>3, <3>5
  <2>2. CASE mine = {} /\ found = {}
    <3>1. one = <<>>
      BY <1>5, <2>2
    <3>2. \A k \in 1 .. n : ones[k] = <<>>
      BY <1>1, <2>2
    <3>3. \A k \in 1 .. n : \A r \in Range(lists[k]) : r.name # name
      <4> SUFFICES ASSUME NEW k \in 1 .. n
                   PROVE  \A r \in Range(lists[k]) : r.name # name
        OBVIOUS
      <4>1. \A r : ones[k] # <<r>>
        BY <3>2
      <4> QED
        BY <1>2, <4>1 DEF Meant
    <3>4. \A r \in Range(own) : r.name # name
      BY <2>2
    <3>5. \A r \in Range(all) : r.name # name
      BY <1>7, <1>12, <1>13, <3>3, <3>4
    <3> QED
      BY <3>1, <3>5
  <2>3. CASE mine = {} /\ found # {}
    <3> DEFINE k == Max(found)
    <3>1. one = ones[k]
      BY <1>5, <2>3
    <3>2. found \in SUBSET (1 .. n)
      BY <1>1
    <3>3. k \in found /\ \A m \in found : k >= m
      <4> HIDE DEF found
      <4> QED
        BY <1>1, <2>3, <3>2, GreatestPlace
    <3> HIDE DEF k
    <3>4. k \in 1 .. n /\ ones[k] # <<>>
      BY <1>1, <3>3
    <3>5. PICK r \in Range(lists[k]) : r.name = name /\ ones[k] = <<r>>
      BY <1>2, <3>4 DEF Meant
    <3>6. ASSUME NEW m \in k + 1 .. n
          PROVE  \A q \in Range(lists[m]) : q.name # name
      <4>1. m \in 1 .. n /\ ~(k >= m)
        BY <1>1, <3>4
      <4>2. ones[m] = <<>>
        BY <1>1, <3>3, <4>1
      <4>3. \A q : ones[m] # <<q>>
        BY <4>2
      <4> QED
        BY <1>2, <4>1, <4>3 DEF Meant
    <3>7. IsLast(lists[k], Len(lists[k]), r)
      BY <1>2, <3>4, <3>5, OnceIsLast
    <3>8. IsLast(above, Len(above), r)
      BY <1>6, <3>4, <3>5, <3>6, <3>7
    <3>9. \A q \in Range(own) : q.name # name
      BY <2>3
    <3>10. r \in Range(all)
      BY <1>9, <1>10, <3>5, <3>8, <3>9
    <3> QED
      BY <3>1, <3>5, <3>10
  <2> QED
    BY <2>1, <2>2, <2>3
<1>17. Meant(i, all, name, one)
  BY <1>10, <1>14, <1>15, <1>16 DEF Meant
<1> QED
  BY <1>17 DEF all, one

(* Where the check passed, both walks find what is meant.                  *)
LEMMA WalksFindTheMeaning ==
    ASSUME WellFormed, NoCycle, KindsAgree, NEW i \in Nodes, NEW name
    PROVE  Meant(i, EffectiveFields[i], name, LookupEffectiveField(name)[i])
<1>1. PICK f : Builds(f) /\ EffectiveFields = f[Rounds]
  BY BuildsInRounds
<1>2. PICK g : Looks(g, name) /\ LookupEffectiveField(name) = g[Rounds]
  BY LooksInRounds
<1> DEFINE Right(n) == \A j \in Nodes : Height(j) < n => Meant(j, f[n][j], name, g[n][j])
           P == {n \in 0 .. Rounds : Right(n)}
<1>3. Rounds \in Nat /\ \A j \in Nodes : Height(j) \in 0 .. Len(source) /\ Height(j) < Rounds
  BY ParentsAreLower DEF WellFormed, Rounds
<1>4. 0 \in P
  <2>1. \A j \in Nodes : ~(Height(j) < 0)
    BY <1>3
  <2> QED
    BY <1>3, <2>1
<1>5. ASSUME NEW n \in 1 .. Rounds, n - 1 \in P
      PROVE  n \in P
  <2>1. Right(n - 1) /\ n - 1 \in 0 .. Rounds
    BY <1>5
  <2>2. ASSUME NEW j \in Nodes, Height(j) < n
        PROVE  Meant(j, f[n][j], name, g[n][j])
    <3>1. f[n - 1] \in Lists /\ g[n - 1] \in Lists /\ j \in DOMAIN source
      BY <1>1, <1>2, <2>1, ParentsAreDeclared DEF Builds, Looks
    <3>2. f[n][j] = Built(f[n - 1], j) /\ g[n][j] = Looked(g[n - 1], j, name)
      BY <1>1, <1>2, <3>1 DEF Builds, Looks
    <3>3. ASSUME NEW p \in Range(Graph[j])
          PROVE  Meant(p, f[n - 1][p], name, g[n - 1][p])
      <4>1. p \in Nodes /\ Height(p) < Height(j)
        BY ParentsAreLower
      <4>2. Height(p) \in 0 .. Len(source) /\ Height(j) \in 0 .. Len(source)
        BY <1>3, <4>1
      <4>3. Height(p) < n - 1
        BY <1>3, <2>2, <4>1, <4>2
      <4> QED
        BY <2>1, <4>1, <4>3
    <3> QED
      BY <3>1, <3>2, <3>3, RoundKeepsMeaning
  <2> QED
    BY <2>2
<1>6. Rounds \in P
  <2> HIDE DEF P
  <2>1. 0 .. Rounds \subseteq P
    BY <1>3, <1>4, <1>5, UpTo
  <2> QED
    BY <1>3, <2>1
<1>7. Meant(i, f[Rounds][i], name, g[Rounds][i])
  BY <1>3, <1>6
<1> QED
  BY <1>1, <1>2, <1>7

(* The walk meets the ancestors that were checked.                         *)
LEMMA SameAncestors ==
    ASSUME WellFormed, KindsAgree, NEW i \in Nodes
    PROVE  AncestorsBy(i, Walked) = Ancestors(i)
<1> DEFINE W == AncestorsBy(i, Walked)
           D == DOMAIN source
<1>1. /\ Graph \in [Nodes -> Seq(Nodes)] /\ Nodes \subseteq D
      /\ Walked \in [D -> Seq(D)] /\ D = 1 .. Len(source) /\ Len(source) \in Nat
  BY ParentsAreDeclared DEF WellFormed
<1>2. Reach(D, Walked, i, W)
  BY <1>1, AncestorsReach
<1>3. Reach(Nodes, Graph, i, Ancestors(i))
  BY <1>1, AncestorsReach DEF Ancestors
<1>4. \A p \in Nodes : Walked[p] = Graph[p]
  BY WalkedAsChecked
<1> HIDE DEF W, D
<1>5. W \subseteq Ancestors(i)
  <2>1. Closed(D, Walked, Ancestors(i)) /\ Range(Walked[i]) \subseteq Ancestors(i)
    BY <1>1, <1>3, <1>4 DEF Reach, Closed
  <2> QED
    BY <1>2, <2>1 DEF Reach
<1>6. Ancestors(i) \subseteq W
  <2>1. W \subseteq Nodes
    BY <1>3, <1>5 DEF Reach, Closed
  <2>2. Closed(Nodes, Graph, W) /\ Range(Graph[i]) \subseteq W
    BY <1>2, <1>4, <2>1 DEF Reach, Closed
  <2> QED
    BY <1>3, <2>2 DEF Reach
<1> QED
  BY <1>5, <1>6 DEF W

(* A list with one element is that element's.                              *)
LEMMA OneElement == \A x, y : <<x>> = <<y>> => x = y
<1> SUFFICES ASSUME NEW x, NEW y, <<x>> = <<y>>
             PROVE  x = y
  OBVIOUS
<1>1. <<x>>[1] = x /\ <<y>>[1] = y
  OBVIOUS
<1> QED
  BY <1>1

(* What is accepted means one thing.                                       *)
LEMMA OpensMeansOneThing == WellFormed => FieldsMeanOneThing
<1> SUFFICES ASSUME WellFormed, Opens, KindsAgree, NEW i \in Nodes
             PROVE  LET all == EffectiveFields[i]
                        ancestors == AncestorsBy(i, Walked)
                    IN  /\ all # Endless
                        /\ ancestors = AncestorsBy(i, Graph)
                        /\ \A k \in DOMAIN all :
                              LookupEffectiveField(all[k].name)[i] = <<all[k]>>
                        /\ \A a \in ancestors : \A j \in DOMAIN source[a].fields :
                              \E k \in DOMAIN all :
                                  /\ all[k].name = source[a].fields[j].name
                                  /\ TypesCompatible(all[k].type, source[a].fields[j].type)
  BY DEF FieldsMeanOneThing
<1> DEFINE all == EffectiveFields[i]
<1>1. NoCycle /\ NoTypeConflict(CollectAncestorFields(i))
  BY DEF Opens
<1>2. \A name : Meant(i, all, name, LookupEffectiveField(name)[i])
  BY <1>1, WalksFindTheMeaning
<1> HIDE DEF all
<1>3. all # Endless
  BY <1>2, MeantIsNotEndless
<1>4. AncestorsBy(i, Walked) = Ancestors(i)
  BY SameAncestors
<1>5. ASSUME NEW k \in DOMAIN all
      PROVE  LookupEffectiveField(all[k].name)[i] = <<all[k]>>
  <2> DEFINE name == all[k].name
             one == LookupEffectiveField(name)[i]
  <2>1. Meant(i, all, name, one)
    BY <1>2
  <2> HIDE DEF one
  <2>2. all[k] \in Range(all)
    BY DEF Range
  <2>3. PICK r \in Range(all) : r.name = name /\ one = <<r>>
    BY <2>1, <2>2 DEF Meant
  <2>4. r = all[k]
    BY <2>1, <2>3 DEF Meant, NamesOnce, Range
  <2> QED
    BY <2>3, <2>4 DEF one
<1>6. ASSUME NEW a \in Ancestors(i), NEW j \in DOMAIN source[a].fields
      PROVE  \E k \in DOMAIN all :
                 /\ all[k].name = source[a].fields[j].name
                 /\ TypesCompatible(all[k].type, source[a].fields[j].type)
  <2>1. a \in Nodes /\ a \in Kin(i) /\ a \in DOMAIN source /\ i \in Nodes
    BY <1>1, ParentsAreLower, ParentsAreDeclared DEF Reach, Closed, Kin
  <2>2. PICK r \in Range(OwnFields(a)) : /\ r.name = source[a].fields[j].name
                                         /\ r.type = source[a].fields[j].type
    BY <2>1, OwnFieldsOnce
  <2>3. PICK q \in Range(all) : q.name = r.name
    BY <1>2, <2>1 DEF Meant
  <2>4. PICK b \in Kin(i) : q \in Range(OwnFields(b))
    BY <1>2 DEF Meant
  <2>5. b \in Nodes /\ (b = i \/ b \in Ancestors(i)) /\ (a = i \/ a \in Ancestors(i))
    BY <2>4 DEF Kin
  <2>6. TypesCompatible(q.type, r.type)
    BY <1>1, <2>1, <2>2, <2>3, <2>4, <2>5, FieldsAgree
  <2>7. PICK k \in DOMAIN all : all[k] = q
    BY DEF Range
  <2> QED
    BY <2>2, <2>3, <2>6, <2>7
<1> QED
  BY <1>3, <1>4, <1>5, <1>6 DEF all, Ancestors
-----------------------------------------------------------------------------
(* Each declaration is one of the drafts of its place.                     *)
Drafted ==
    /\ Len(source) \in 0 .. Len(TypeDrafts) /\ DOMAIN source = 1 .. Len(source)
    /\ source = [i \in 1 .. Len(source) |-> source[i]]
    /\ \A i \in DOMAIN source : source[i] \in TypeDrafts[i]

(* So a source is well formed.                                             *)
LEMMA DraftsAreWellFormed == Drafted => WellFormed
<1> SUFFICES ASSUME Drafted
             PROVE  WellFormed
  OBVIOUS
<1>1. Len(TypeDrafts) \in Nat /\ DOMAIN TypeDrafts = 1 .. Len(TypeDrafts)
  BY DraftsAssumption
<1>2. \A i \in DOMAIN source : i \in DOMAIN TypeDrafts /\ source[i] \in TypeDrafts[i]
  BY <1>1 DEF Drafted
<1>3. Len(source) \in Nat /\ DOMAIN source = 1 .. Len(source)
  BY <1>1 DEF Drafted
<1> QED
  BY <1>2, <1>3, DraftsAssumption DEF WellFormed

(* Whatever declarations a document has, once open has accepted their      *)
(* `extends` graph and where no name is a type here and an interface       *)
(* there: the walks end, over the ancestors that were checked, and a field *)
(* name means one thing.                                                   *)
THEOREM FieldsAlwaysMeanOneThing == ExtendsSpec => []FieldsMeanOneThing
<1>1. ExtendsInit => Drafted
  <2> SUFFICES ASSUME source = <<>>
               PROVE  Drafted
    BY DEF ExtendsInit
  <2>1. Len(TypeDrafts) \in Nat
    BY DraftsAssumption
  <2>2. Len(source) = 0 /\ DOMAIN source = 1 .. 0 /\ source = [i \in 1 .. 0 |-> source[i]]
    OBVIOUS
  <2> QED
    BY <2>1, <2>2 DEF Drafted
<1>2. Drafted /\ [ExtendsNext]_inheritanceVars => Drafted'
  <2> SUFFICES ASSUME Drafted, [ExtendsNext]_inheritanceVars
               PROVE  Drafted'
    OBVIOUS
  <2>1. CASE UNCHANGED inheritanceVars
    BY <2>1 DEF inheritanceVars, Drafted
  <2>2. ASSUME Len(source) < Len(TypeDrafts), NEW draft \in TypeDrafts[Len(source) + 1],
               Declare(draft)
        PROVE  Drafted'
    <3> DEFINE n == Len(source)
    <3>1. Len(TypeDrafts) \in Nat /\ n \in Nat /\ DOMAIN source = 1 .. n
      BY DraftsAssumption DEF Drafted
    <3>2. source \in Seq(Range(source))
      <4>1. \A i \in 1 .. n : source[i] \in Range(source)
        BY <3>1 DEF Range
      <4> QED
        BY <3>1, <4>1, IsASeq DEF Drafted
    <3>3. source' = Append(source, draft)
      BY <2>2 DEF Declare
    <3>4. /\ Len(source') = n + 1 /\ DOMAIN source' = 1 .. n + 1
          /\ \A i \in 1 .. n : source'[i] = source[i]
          /\ source'[n + 1] = draft
          /\ source' = [i \in 1 .. n + 1 |-> source'[i]]
      <4>1. source \in Seq(Range(source) \cup {draft}) /\ draft \in Range(source) \cup {draft}
        BY <3>2
      <4>2. /\ source' \in Seq(Range(source) \cup {draft}) /\ Len(source') = n + 1
            /\ \A i \in 1 .. n : source'[i] = source[i]
            /\ source'[n + 1] = draft
        BY <3>3, <4>1, AppendProperties
      <4> HIDE DEF n
      <4> QED
        BY <3>1, <4>2
    <3>5. ASSUME NEW i \in 1 .. n + 1
          PROVE  source'[i] \in TypeDrafts[i]
      <4>1. CASE i \in 1 .. n
        BY <3>1, <3>4, <4>1 DEF Drafted
      <4>2. CASE i = n + 1
        BY <2>2, <3>4, <4>2
      <4> QED
        BY <3>1, <4>1, <4>2
    <3>6. n + 1 \in 0 .. Len(TypeDrafts)
      BY <2>2, <3>1
    <3> QED
      BY <3>4, <3>5, <3>6 DEF Drafted
  <2> QED
    BY <2>1, <2>2 DEF ExtendsNext
<1>3. Drafted => FieldsMeanOneThing
  BY DraftsAreWellFormed, OpensMeansOneThing
<1> QED
  BY <1>1, <1>2, <1>3, PTL DEF ExtendsSpec
-----------------------------------------------------------------------------
(* What is written stands in blocks that were written before it.           *)
Written ==
    {WrittenIn(draft, parent, file) :
        draft \in UNION {v.drafts : v \in Vocabularies}, parent \in Nat,
        file \in DOMAIN Namespace}

NestingInv ==
    /\ vocabulary \in Vocabularies
    /\ items \in Seq(Written)
    /\ \A i \in DOMAIN items :
           /\ items[i].in \in 0 .. i - 1
           /\ items[i].in # 0 => items[items[i].in].sort = "block"

LEMMA NestingInitially == SchemasInit => NestingInv
  BY DEF SchemasInit, NestingInv

LEMMA NestingStays == NestingInv /\ [SchemasNext]_schemaVars => NestingInv'
<1> SUFFICES ASSUME NestingInv, [SchemasNext]_schemaVars
             PROVE  NestingInv'
  OBVIOUS
<1>1. CASE UNCHANGED schemaVars
  BY <1>1 DEF schemaVars, NestingInv
<1>2. CASE SchemasNext
  <2>1. PICK draft \in vocabulary.drafts, parent \in 0 .. Len(items), file \in DOMAIN Namespace :
            Write(draft, parent, file)
    BY <1>2 DEF SchemasNext
  <2> DEFINE item == WrittenIn(draft, parent, file)
  <2>2. /\ vocabulary \in Vocabularies /\ items \in Seq(Written) /\ Len(items) \in Nat
        /\ DOMAIN items = 1 .. Len(items) /\ parent \in Nat
    BY DEF NestingInv
  <2>3. /\ items' = Append(items, item) /\ vocabulary' = vocabulary
        /\ parent # 0 => items[parent].sort = "block"
    BY <2>1 DEF Write
  <2>4. item.in = parent
    <3>1. "in" \in DOMAIN draft
      BY <2>2, VocabulariesAssumption
    <3> QED
      BY <3>1 DEF WrittenIn
  <2>5. item \in Written
    <3>1. draft \in UNION {v.drafts : v \in Vocabularies}
      BY <2>2
    <3>2. parent \in Nat /\ file \in DOMAIN Namespace
      BY <2>2
    <3> QED
      BY <3>1, <3>2 DEF Written
  <2> HIDE DEF item
  <2>6. /\ items' \in Seq(Written) /\ Len(items') = Len(items) + 1
        /\ DOMAIN items' = 1 .. Len(items) + 1
        /\ \A i \in 1 .. Len(items) : items'[i] = items[i]
        /\ items'[Len(items) + 1] = item
    BY <2>2, <2>3, <2>5, AppendProperties
  <2>7. ASSUME NEW i \in DOMAIN items'
        PROVE  /\ items'[i].in \in 0 .. i - 1
               /\ items'[i].in # 0 => items'[items'[i].in].sort = "block"
    <3>1. CASE i \in 1 .. Len(items)
      <4>1. items[i].in \in 0 .. i - 1 /\ (items[i].in # 0 => items[items[i].in].sort = "block")
        BY <2>2, <3>1 DEF NestingInv
      <4>2. items[i].in # 0 => items[i].in \in 1 .. Len(items)
        BY <2>2, <3>1, <4>1
      <4> QED
        BY <2>6, <3>1, <4>1, <4>2
    <3>2. CASE i = Len(items) + 1
      <4>1. parent # 0 => parent \in 1 .. Len(items)
        BY <2>2
      <4> QED
        BY <2>2, <2>3, <2>4, <2>6, <3>2, <4>1
    <3> QED
      BY <2>2, <2>6, <3>1, <3>2
  <2> QED
    BY <2>2, <2>3, <2>6, <2>7 DEF NestingInv
<1> QED
  BY <1>1, <1>2

LEMMA NestingFacts ==
    ASSUME NestingInv
    PROVE  /\ Len(items) \in Nat /\ DOMAIN items = 1 .. Len(items)
           /\ Blocks \subseteq 1 .. Len(items) /\ Fields \subseteq 1 .. Len(items)
           /\ \A i \in Blocks \cup Fields :
                  items[i].in \in 0 .. i - 1 /\ (items[i].in # 0 => items[i].in \in Blocks)
           /\ \A p : BlocksIn(p) \subseteq Blocks /\ FieldsIn(p) \subseteq Fields
           /\ \A p : \A c \in BlocksIn(p) \cup FieldsIn(p) : items[c].in = p
           /\ Blocks \cap Fields = {} /\ 0 \notin Blocks \cup Fields
<1>1. Len(items) \in Nat /\ DOMAIN items = 1 .. Len(items)
  BY DEF NestingInv
<1>2. Blocks \subseteq 1 .. Len(items) /\ Fields \subseteq 1 .. Len(items)
  BY <1>1 DEF Blocks, Fields
<1>3. ASSUME NEW i \in 1 .. Len(items)
      PROVE  items[i].in \in 0 .. i - 1 /\ (items[i].in # 0 => items[i].in \in Blocks)
  <2>1. items[i].in \in 0 .. i - 1 /\ (items[i].in # 0 => items[items[i].in].sort = "block")
    BY <1>1 DEF NestingInv
  <2>2. items[i].in # 0 => items[i].in \in DOMAIN items
    BY <1>1, <2>1
  <2> QED
    BY <2>1, <2>2 DEF Blocks
<1>4. \A p : BlocksIn(p) \subseteq Blocks /\ FieldsIn(p) \subseteq Fields
  BY DEF BlocksIn, FieldsIn
<1>5. \A p : \A c \in BlocksIn(p) \cup FieldsIn(p) : items[c].in = p
  BY DEF BlocksIn, FieldsIn
<1>6. Blocks \cap Fields = {}
  BY DEF Blocks, Fields
<1>7. 0 \notin Blocks \cup Fields
  BY <1>1, <1>2
<1> QED
  BY <1>1, <1>2, <1>3, <1>4, <1>5, <1>6, <1>7

(* The walk of the check over nested blocks ends.                          *)
LEMMA BlockErrorsAre ==
    ASSUME NestingInv
    PROVE  \A b \in Blocks :
               BlockErrors[b]
                   = BlockErrorsBy(b, SchemaOf(b), [c \in BlocksIn(b) |-> BlockErrors[c]])
<1> DEFINE N == Len(items)
           Inner(f, b) == [c \in BlocksIn(b) |-> f[c]]
           Value(f, b) == BlockErrorsBy(b, SchemaOf(b), Inner(f, b))
           Late(n) == {b \in Blocks : N - n < b}
           IsIt(f, n) == f = [b \in Late(n) |-> Value(f, b)]
           P == {n \in Nat : \E f : IsIt(f, n)}
<1>1. N \in Nat /\ \A b \in Blocks : b \in Nat /\ 0 < b /\ b <= N
  <2>1. N \in Nat /\ Blocks \subseteq 1 .. N
    BY NestingFacts
  <2> HIDE DEF N
  <2> QED
    BY <2>1
<1>2. ASSUME NEW b \in Blocks, NEW c \in BlocksIn(b)
      PROVE  c \in Blocks /\ b < c
  <2>1. c \in Blocks /\ items[c].in = b /\ items[c].in \in 0 .. c - 1
    BY NestingFacts
  <2> QED
    BY <1>1, <2>1
<1> HIDE DEF N
<1>3. 0 \in P
  <2>1. Late(0) = {}
    BY <1>1
  <2> DEFINE f == [b \in {} |-> b]
  <2>2. f = [b \in Late(0) |-> Value(f, b)]
    BY <2>1, Zenon
  <2> QED
    BY <2>2
<1>4. ASSUME NEW n \in 1 .. N, n - 1 \in P
      PROVE  n \in P
  <2>1. PICK f : IsIt(f, n - 1)
    BY <1>4
  <2> DEFINE g == [b \in Late(n) |-> IF b \in Late(n - 1) THEN f[b] ELSE Value(f, b)]
  <2>2. ASSUME NEW b \in Late(n), NEW c \in BlocksIn(b)
        PROVE  c \in Late(n - 1) /\ c \in Late(n)
    <3>1. b \in Blocks /\ b \in Nat /\ N - n < b /\ c \in Blocks /\ c \in Nat /\ b < c
      BY <1>1, <1>2, <2>2
    <3>2. N - (n - 1) < c /\ N - n < c
      BY <1>1, <3>1
    <3> QED
      BY <3>1, <3>2
  <2>3. ASSUME NEW b \in Late(n)
        PROVE  Inner(g, b) = Inner(f, b)
    <3>1. \A c \in BlocksIn(b) : g[c] = f[c]
      BY <2>2
    <3> QED
      BY <3>1
  <2>4. ASSUME NEW b \in Late(n)
        PROVE  g[b] = Value(g, b)
    <3>1. Value(g, b) = Value(f, b)
      BY <2>3
    <3>2. b \in Late(n - 1) => f[b] = Value(f, b)
      BY <2>1
    <3> QED
      BY <3>1, <3>2
  <2>5. g = [b \in Late(n) |-> Value(g, b)]
    <3>1. g = [b \in Late(n) |-> g[b]]
      OBVIOUS
    <3> HIDE DEF g
    <3> QED
      BY <2>4, <3>1
  <2> HIDE DEF g
  <2> QED
    BY <2>5
<1>5. N \in P
  <2> HIDE DEF P
  <2> QED
    BY <1>1, <1>3, <1>4, UpTo
<1>6. PICK f : IsIt(f, N)
  BY <1>5
<1>7. Late(N) = Blocks
  BY <1>1
<1>8. f = [b \in Blocks |-> Value(f, b)]
  BY <1>6, <1>7
<1>9. BlockErrors = [b \in Blocks |-> Value(BlockErrors, b)]
  BY <1>8, Zenon DEF BlockErrors
<1>10. ASSUME NEW b \in Blocks
       PROVE  BlockErrors[b] = Value(BlockErrors, b)
  <2> HIDE DEF Value
  <2> QED
    BY <1>9
<1> QED
  BY <1>10
-----------------------------------------------------------------------------
(* What the check says of a field, a read of it says too.                  *)
Honest(errors) ==
    \A f \in Fields, verdict \in FieldVerdicts :
        <<f, verdict>> \in errors /\ (items[f].in # 0 => ~items[items[f].in].open)
        => Read(f) = verdict

LEMMA NothingIsHonest == Honest({})
  BY DEF Honest

LEMMA BothAreHonest ==
    ASSUME NEW A, NEW B, Honest(A), Honest(B)
    PROVE  Honest(A \cup B)
  BY DEF Honest

LEMMA AllAreHonest ==
    ASSUME NEW S, \A A \in S : Honest(A)
    PROVE  Honest(UNION S)
  BY DEF Honest

\* Of what else is said there are no reads.
LEMMA OthersAreHonest ==
    ASSUME NEW errors,
           \A e \in errors : \E x, what : e = <<x, what>> /\ what \notin FieldVerdicts
    PROVE  Honest(errors)
  BY DEF Honest

LEMMA BlocksAreHonest ==
    ASSUME NestingInv, NEW errors,
           \A e \in errors : \E x, what : e = <<x, what>> /\ x \notin Fields
    PROVE  Honest(errors)
  BY DEF Honest

LEMMA OwnFieldsAreHonest ==
    ASSUME NestingInv, NEW b \in Blocks
    PROVE  Honest(ValidateOwnFields(b, SchemaOf(b)))
<1> DEFINE schema == SchemaOf(b)
           unknown == {<<f, "UnknownField">> : f \in {f \in FieldsIn(b) :
                          ~items[f].open /\ items[f].name \notin DOMAIN schema.fields}}
           missing == {<<b, "MissingRequired">> : name \in
                          schema.required \ {items[f].name : f \in FieldsIn(b)}}
<1>1. CASE schema.open
  BY <1>1, NothingIsHonest DEF ValidateOwnFields
<1>2. CASE ~schema.open
  <2>1. ValidateOwnFields(b, schema) = unknown \cup missing
    BY <1>2 DEF ValidateOwnFields
  <2>2. Honest(missing)
    <3>1. "MissingRequired" \notin FieldVerdicts
      BY DEF FieldVerdicts
    <3>2. \A e \in missing : \E x, what : e = <<x, what>> /\ what \notin FieldVerdicts
      BY <3>1
    <3> HIDE DEF missing
    <3> QED
      BY <3>2, OthersAreHonest
  <2>3. ASSUME NEW f \in Fields, NEW verdict \in FieldVerdicts, <<f, verdict>> \in unknown,
               items[f].in # 0 => ~items[items[f].in].open
        PROVE  Read(f) = verdict
    <3>1. /\ f \in FieldsIn(b) /\ verdict = "UnknownField"
          /\ ~items[f].open /\ items[f].name \notin DOMAIN schema.fields
      BY <2>3
    <3>2. items[f].in = b /\ b # 0 /\ ~items[b].open
      BY <2>3, <3>1, NestingFacts
    <3>3. ~Admits(schema, items[f].name)
      BY <1>2, <3>1 DEF Admits
    <3> HIDE DEF schema
    <3>4. SchemaMembership(f) = "UnknownField"
      BY <3>1, <3>2, <3>3 DEF SchemaMembership, schema
    <3> QED
      BY <3>1, <3>4 DEF Read, ReadAs
  <2>4. Honest(unknown)
    <3> HIDE DEF unknown
    <3> QED
      BY <2>3 DEF Honest
  <2> HIDE DEF unknown, missing
  <2> QED
    BY <2>1, <2>2, <2>4, BothAreHonest
<1> QED
  BY <1>1, <1>2

LEMMA ValuesAreHonest ==
    ASSUME NEW f, NEW declared
    PROVE  Honest(FieldValueErrors(f, declared))
<1>1. ASSUME NEW g \in Fields, NEW verdict \in FieldVerdicts,
             <<g, verdict>> \in FieldValueErrors(f, declared)
      PROVE  Read(g) = verdict
  <2>1. verdict # "FieldTypeMismatch"
    BY DEF FieldVerdicts
  <2>2. <<g, verdict>> \in {<<f, Read(f)>>} \cup {<<f, "FieldTypeMismatch">>}
    BY <1>1 DEF FieldValueErrors, ErrorsOfValue
  <2> QED
    BY <2>1, <2>2
<1> QED
  BY <1>1 DEF Honest

LEMMA UnionsAreHonest ==
    ASSUME NEW b, NEW schema
    PROVE  Honest(UnionErrors(b, schema))
<1>1. "VariantNoMatch" \notin FieldVerdicts
  BY DEF FieldVerdicts
<1>2. \A e \in UnionErrors(b, schema) : \E x : e = <<x, "VariantNoMatch">>
  BY DEF UnionErrors
<1> QED
  BY <1>1, <1>2, OthersAreHonest

LEMMA CountsAreHonest ==
    ASSUME NEW b, NEW schema
    PROVE  Honest(ChildCounts(b, schema))
<1>1. "MissingRequired" \notin FieldVerdicts /\ "ChildrenTooMany" \notin FieldVerdicts
  BY DEF FieldVerdicts
<1>2. \A e \in ChildCounts(b, schema) :
          e = <<b, "MissingRequired">> \/ e = <<b, "ChildrenTooMany">>
  BY DEF ChildCounts
<1> QED
  BY <1>1, <1>2, OthersAreHonest

LEMMA ChildrenAreHonest ==
    ASSUME NestingInv, NEW c \in Blocks, NEW schema, NEW inside, Honest(inside)
    PROVE  Honest(ChildErrors(c, schema, inside))
<1> DEFINE own == SchemaOf(c)
           errors == ChildErrors(c, schema, inside)
<1>1. \/ errors = {} \/ errors = ValidateOwnFields(c, own)
      \/ errors = {<<c, "DisallowedChild">>} \/ errors = inside
  BY DEF ChildErrors, ErrorsAt
<1>2. Honest({<<c, "DisallowedChild">>})
  <2>1. "DisallowedChild" \notin FieldVerdicts
    BY DEF FieldVerdicts
  <2> QED
    BY <2>1, OthersAreHonest
<1> QED
  BY <1>1, <1>2, NothingIsHonest, OwnFieldsAreHonest

LEMMA WalkIsHonest ==
    ASSUME NestingInv, NEW b \in Blocks, NEW inside, \A c \in BlocksIn(b) : Honest(inside[c])
    PROVE  Honest(BlockErrorsBy(b, SchemaOf(b), inside))
<1> DEFINE schema == SchemaOf(b)
           values == {FieldValueErrors(f, DeclaredField(f)) : f \in FieldsIn(b)}
           children == {ChildErrors(c, schema, inside[c]) : c \in BlocksIn(b)}
           fields == ValidateOwnFields(b, schema)
           unions == UnionErrors(b, schema)
           counts == ChildCounts(b, schema)
           errors == BlockErrorsBy(b, schema, inside)
<1>1. \/ errors = {} \/ errors = {<<b, "UnregisteredKind">>}
      \/ errors = fields \cup {}
      \/ errors = fields \cup (unions \cup (UNION values) \cup (UNION children) \cup counts)
  BY DEF BlockErrorsBy
<1>2. Honest({<<b, "UnregisteredKind">>})
  <2>1. "UnregisteredKind" \notin FieldVerdicts
    BY DEF FieldVerdicts
  <2> QED
    BY <2>1, OthersAreHonest
<1>3. Honest(fields) /\ Honest(unions) /\ Honest(counts)
  BY OwnFieldsAreHonest, UnionsAreHonest, CountsAreHonest
<1>4. Honest(UNION values)
  <2>1. \A A \in values : Honest(A)
    BY ValuesAreHonest
  <2> HIDE DEF values
  <2> QED
    BY <2>1, AllAreHonest
<1>5. Honest(UNION children)
  <2>1. \A c \in BlocksIn(b) : Honest(ChildErrors(c, schema, inside[c]))
    <3>1. BlocksIn(b) \subseteq Blocks
      BY NestingFacts
    <3> HIDE DEF schema
    <3> QED
      BY <3>1, ChildrenAreHonest
  <2>2. \A A \in children : Honest(A)
    BY <2>1
  <2> HIDE DEF children
  <2> QED
    BY <2>2, AllAreHonest
<1> HIDE DEF values, children, fields, unions, counts, errors
<1>6. Honest(unions \cup (UNION values) \cup (UNION children) \cup counts)
  <2>1. Honest(unions \cup (UNION values))
    BY <1>3, <1>4, BothAreHonest
  <2>2. Honest((unions \cup (UNION values)) \cup (UNION children))
    BY <2>1, <1>5, BothAreHonest
  <2> QED
    BY <2>2, <1>3, BothAreHonest
<1>7. Honest(errors)
  BY <1>1, <1>2, <1>3, <1>6, BothAreHonest, NothingIsHonest
<1> QED
  BY <1>7 DEF errors

LEMMA NestedAreHonest ==
    ASSUME NestingInv
    PROVE  \A b \in Blocks : Honest(BlockErrors[b])
<1> DEFINE N == Len(items)
           P == {n \in Nat : \A b \in Blocks : N - n < b => Honest(BlockErrors[b])}
<1>1. N \in Nat /\ \A b \in Blocks : b \in Nat /\ 0 < b /\ b <= N
  <2>1. N \in Nat /\ Blocks \subseteq 1 .. N
    BY NestingFacts
  <2> HIDE DEF N
  <2> QED
    BY <2>1
<1> HIDE DEF N
<1>2. 0 \in P
  BY <1>1
<1>3. ASSUME NEW n \in 1 .. N, n - 1 \in P
      PROVE  n \in P
  <2> SUFFICES ASSUME NEW b \in Blocks, N - n < b
               PROVE  Honest(BlockErrors[b])
    OBVIOUS
  <2> DEFINE inside == [c \in BlocksIn(b) |-> BlockErrors[c]]
  <2>1. ASSUME NEW c \in BlocksIn(b)
        PROVE  Honest(inside[c])
    <3>1. c \in Blocks /\ items[c].in = b /\ items[c].in \in 0 .. c - 1
      BY NestingFacts
    <3>2. N - (n - 1) < c
      BY <1>1, <3>1
    <3>3. Honest(BlockErrors[c])
      BY <1>3, <3>1, <3>2
    <3> QED
      BY <3>3
  <2>2. BlockErrors[b] = BlockErrorsBy(b, SchemaOf(b), inside)
    BY BlockErrorsAre
  <2> HIDE DEF inside
  <2> QED
    BY <2>1, <2>2, WalkIsHonest
<1>4. N \in P
  <2> HIDE DEF P
  <2> QED
    BY <1>1, <1>2, <1>3, UpTo
<1> QED
  BY <1>1, <1>4

LEMMA CheckIsHonest ==
    ASSUME NestingInv
    PROVE  Honest(SchemaErrors)
<1> DEFINE fields == {ValidateRootField(f) : f \in FieldsIn(0)}
           blocks == {ValidateRootBlock(b) : b \in BlocksIn(0)}
<1>1. Honest(MultipleDocumentSchemas)
  <2>1. "MultipleDocumentSchemas" \notin FieldVerdicts
    BY DEF FieldVerdicts
  <2>2. \A e \in MultipleDocumentSchemas : e = <<0, "MultipleDocumentSchemas">>
    BY DEF MultipleDocumentSchemas
  <2> QED
    BY <2>1, <2>2, OthersAreHonest
<1>2. Honest(DeclaredKindCollisions)
  <2>1. "DeclaredKindCollision" \notin FieldVerdicts
    BY DEF FieldVerdicts
  <2>2. \A e \in DeclaredKindCollisions : \E x : e = <<x, "DeclaredKindCollision">>
    BY DEF DeclaredKindCollisions
  <2> QED
    BY <2>1, <2>2, OthersAreHonest
<1>3. ASSUME NEW f \in FieldsIn(0)
      PROVE  Honest(ValidateRootField(f))
  <2>1. CASE ValidateRootField(f) = {}
    BY <2>1, NothingIsHonest
  <2>2. CASE ValidateRootField(f) = FieldValueErrors(f, DeclaredField(f))
    BY <2>2, ValuesAreHonest
  <2>3. CASE /\ ~items[f].open /\ RootFieldMembership(f) # "Ok"
             /\ ValidateRootField(f) = {<<f, RootFieldMembership(f)>>}
    <3>1. items[f].in = 0
      BY NestingFacts
    <3>2. Read(f) = RootFieldMembership(f)
      BY <2>3, <3>1 DEF Read, ReadAs, SchemaMembership
    <3> QED
      BY <2>3, <3>2 DEF Honest
  <2> QED
    BY <2>1, <2>2, <2>3 DEF ValidateRootField
<1>4. ASSUME NEW b \in BlocksIn(0)
      PROVE  Honest(ValidateRootBlock(b))
  <2>1. b \in Blocks
    BY NestingFacts
  <2>2. Honest({<<b, "UnregisteredKind">>}) /\ Honest({<<b, "NoDocumentSchema">>})
        /\ Honest({<<b, "DisallowedChild">>})
    <3>1. b \notin Fields
      BY <2>1, NestingFacts
    <3> QED
      BY <3>1, BlocksAreHonest
  <2>3. Honest(BlockErrors[b])
    BY <2>1, NestedAreHonest
  <2>4. \/ ValidateRootBlock(b) = {} \/ ValidateRootBlock(b) = {<<b, "UnregisteredKind">>}
        \/ ValidateRootBlock(b) = {<<b, "NoDocumentSchema">>} \cup BlockErrors[b]
        \/ ValidateRootBlock(b) = {} \cup BlockErrors[b]
        \/ ValidateRootBlock(b) = {<<b, "DisallowedChild">>} \cup BlockErrors[b]
    BY DEF ValidateRootBlock
  <2> QED
    BY <2>2, <2>3, <2>4, BothAreHonest, NothingIsHonest
<1>5. Honest(UNION fields)
  <2>1. \A A \in fields : Honest(A)
    BY <1>3
  <2> HIDE DEF fields
  <2> QED
    BY <2>1, AllAreHonest
<1>6. Honest(UNION blocks)
  <2>1. \A A \in blocks : Honest(A)
    BY <1>4
  <2> HIDE DEF blocks
  <2> QED
    BY <2>1, AllAreHonest
<1>7. SchemaErrors = MultipleDocumentSchemas \cup DeclaredKindCollisions
                     \cup (UNION fields) \cup (UNION blocks)
  BY DEF SchemaErrors
<1> HIDE DEF fields, blocks
<1>8. Honest(MultipleDocumentSchemas \cup DeclaredKindCollisions)
  BY <1>1, <1>2, BothAreHonest
<1>9. Honest((MultipleDocumentSchemas \cup DeclaredKindCollisions) \cup (UNION fields))
  BY <1>5, <1>8, BothAreHonest
<1> QED
  BY <1>6, <1>7, <1>9, BothAreHonest
-----------------------------------------------------------------------------
(* Where the check goes.                                                   *)
LEMMA EnclosingFacts ==
    ASSUME NestingInv, NEW i \in Blocks \cup Fields
    PROVE  /\ Enclosing(i) \subseteq Blocks
           /\ items[i].in # 0 => items[i].in \in Enclosing(i)
           /\ \A a \in Enclosing(i) :
                  a < i /\ (items[a].in # 0 => items[a].in \in Enclosing(i))
<1> DEFINE GoesUp(S) == \A j \in S \cup {i} : items[j].in \in S \cup {0}
<1>1. Enclosing(i) = {a \in Blocks : \A S \in SUBSET Blocks : GoesUp(S) => a \in S}
  BY DEF Enclosing
<1>2. ASSUME NEW j \in Enclosing(i) \cup {i}, items[j].in # 0
      PROVE  items[j].in \in Enclosing(i)
  <2>1. j \in Blocks \cup Fields
    BY <1>1
  <2>2. items[j].in \in Blocks
    BY <1>2, <2>1, NestingFacts
  <2>3. ASSUME NEW S \in SUBSET Blocks, GoesUp(S)
        PROVE  items[j].in \in S
    <3>1. j \in S \cup {i}
      BY <1>1, <2>3
    <3>2. items[j].in \in S \cup {0}
      BY <2>3, <3>1
    <3> QED
      BY <1>2, <3>2
  <2> HIDE DEF GoesUp
  <2> QED
    BY <1>1, <2>2, <2>3
<1>3. ASSUME NEW a \in Enclosing(i)
      PROVE  a < i
  <2> DEFINE S == {b \in Blocks : b < i}
  <2>1. i \in Nat /\ Blocks \subseteq Nat
    BY NestingFacts
  <2>2. ASSUME NEW j \in S \cup {i}
        PROVE  items[j].in \in S \cup {0}
    <3>1. /\ j \in Blocks \cup Fields /\ j \in Nat /\ j <= i
          /\ items[j].in \in 0 .. j - 1 /\ (items[j].in # 0 => items[j].in \in Blocks)
      BY <2>1, NestingFacts
    <3>2. items[j].in < i
      BY <2>1, <3>1
    <3> QED
      BY <3>1, <3>2
  <2>3. GoesUp(S)
    BY <2>2
  <2>4. S \in SUBSET Blocks
    OBVIOUS
  <2> HIDE DEF S, GoesUp
  <2>5. a \in S
    BY <1>1, <2>3, <2>4
  <2> QED
    BY <2>5 DEF S
<1>4. Enclosing(i) \subseteq Blocks
  BY <1>1
<1> QED
  BY <1>2, <1>3, <1>4

\* The first of a set of places.
LEMMA FirstPlace ==
    ASSUME NEW S, S \subseteq Nat, NEW x \in S
    PROVE  Min(S) \in S /\ \A y \in S : Min(S) <= y
<1> DEFINE P == {k \in Nat : \A y \in S : k <= y}
<1>1. PICK y \in S : \A z \in S : y <= z
  <2> SUFFICES ASSUME \A y \in S : \E z \in S : z < y
               PROVE  FALSE
    OBVIOUS
  <2>1. 0 \in P
    OBVIOUS
  <2>2. \A k \in 1 .. x + 1 : k - 1 \in P => k \in P
    OBVIOUS
  <2> HIDE DEF P
  <2>3. x + 1 \in Nat /\ x + 1 \in 0 .. x + 1
    OBVIOUS
  <2>4. x + 1 \in P
    BY <2>1, <2>2, <2>3, UpTo
  <2> QED
    BY <2>4 DEF P
<1> QED
  BY <1>1 DEF Min

\* What governs a block is of a kind that the check knows.
LEMMA GovernedIsRegistered ==
    ASSUME vocabulary \in Vocabularies, NEW b, SchemaOf(b) # NoSchema
    PROVE  IsRegisteredKind(items[b].name)
<1> DEFINE kind == items[b].name
           all == SchemaCandidates(kind)
<1>1. /\ all \subseteq DOMAIN types /\ DOMAIN types \subseteq Nat
      /\ \A t \in DOMAIN types : types[t] # NoSchema
  <2>1. DOMAIN types = 1 .. Len(types) /\ \A t \in DOMAIN types : types[t] # NoSchema
    BY VocabulariesAssumption DEF types
  <2> QED
    BY <2>1 DEF SchemaCandidates
<1>2. ASSUME NEW S, S \subseteq all, S # {}
      PROVE  FirstOf(S) # NoSchema
  <2>1. Min(S) \in S
    BY <1>1, <1>2, FirstPlace
  <2> QED
    BY <1>1, <1>2, <2>1 DEF FirstOf
<1>3. ASSUME NEW ns, NEW qualifier, FindSchema(qualifier, kind, ns) # NoSchema
      PROVE  all # {}
  <2>1. SUFFICES ASSUME all = {}
                 PROVE  FALSE
    OBVIOUS
  <2>2. FirstOf({}) = NoSchema
    BY DEF FirstOf
  <2>3. \A P \in SUBSET all : P = {}
    BY <2>1
  <2>4. FindSchema(qualifier, kind, ns) = FirstOf({})
    <3>1. {t \in all : types[t].ns = qualifier} = {} /\ {t \in all : types[t].ns = ns} = {}
          /\ {t \in all : ~types[t].imported} = {}
      BY <2>1
    <3> QED
      BY <2>1, <3>1 DEF FindSchema
  <2> QED
    BY <1>3, <2>2, <2>4
<1>4. ASSUME all # {}
      PROVE  FindSchema("", kind, Namespace[1]) # NoSchema
  <2> DEFINE within == {t \in all : types[t].ns = Namespace[1]}
             authored == {t \in all : ~types[t].imported}
  <2>1. IsBare("")
    BY Zenon DEF IsBare
  <2>2. FindSchema("", kind, Namespace[1])
            \in {FirstOf(S) : S \in {S \in {within, authored, all} : S # {}}}
    BY <1>4, <2>1, Zenon DEF FindSchema
  <2>3. PICK S \in {within, authored, all} :
            S # {} /\ FindSchema("", kind, Namespace[1]) = FirstOf(S)
    BY <2>2, Zenon
  <2>4. S \subseteq all /\ S # {}
    BY <2>3
  <2> QED
    BY <1>2, <2>3, <2>4, Zenon
<1>5. SchemaOf(b) = DeclaredSchema(b) \/ SchemaOf(b) = DerivedBlockSchema(kind)
  BY Zenon DEF SchemaOf, DeclaredOrDerived
<1> HIDE DEF all
<1>6. CASE SchemaOf(b) = DeclaredSchema(b)
  <2>1. FindSchema("", kind, Namespace[1]) # NoSchema
    BY <1>3, <1>4, <1>6, Zenon DEF DeclaredSchema
  <2> QED
    BY <2>1, Zenon DEF IsRegisteredKind
<1>7. CASE SchemaOf(b) = DerivedBlockSchema(kind)
  BY <1>7, Zenon DEF IsRegisteredKind
<1> QED
  BY <1>5, <1>6, <1>7

\* What the check says of a block that it goes into.
LEMMA SaysAll ==
    ASSUME NestingInv, NEW p \in Blocks, ~items[p].open, SchemaOf(p) # NoSchema,
           ~SchemaOf(p).open, ~SchemaOf(p).derived
    PROVE  /\ ValidateOwnFields(p, SchemaOf(p)) \subseteq BlockErrors[p]
           /\ \A f \in FieldsIn(p) : FieldValueErrors(f, DeclaredField(f)) \subseteq BlockErrors[p]
           /\ \A c \in BlocksIn(p) :
                  ChildErrors(c, SchemaOf(p), BlockErrors[c]) \subseteq BlockErrors[p]
           /\ ChildCounts(p, SchemaOf(p)) \subseteq BlockErrors[p]
<1> DEFINE schema == SchemaOf(p)
           inside == [c \in BlocksIn(p) |-> BlockErrors[c]]
           values == {FieldValueErrors(f, DeclaredField(f)) : f \in FieldsIn(p)}
           children == {ChildErrors(c, schema, inside[c]) : c \in BlocksIn(p)}
<1>1. BlockErrors[p] = BlockErrorsBy(p, schema, inside)
  BY BlockErrorsAre
<1>2. BlockErrorsBy(p, schema, inside)
          = ValidateOwnFields(p, schema)
            \cup (UnionErrors(p, schema) \cup (UNION values) \cup (UNION children)
                  \cup ChildCounts(p, schema))
  BY DEF BlockErrorsBy
<1>3. \A c \in BlocksIn(p) : inside[c] = BlockErrors[c]
  OBVIOUS
<1>4. /\ \A f \in FieldsIn(p) : FieldValueErrors(f, DeclaredField(f)) \in values
      /\ \A c \in BlocksIn(p) : ChildErrors(c, schema, BlockErrors[c]) \in children
  BY <1>3
<1> HIDE DEF values, children, inside, schema
<1>5. /\ ValidateOwnFields(p, schema) \subseteq BlockErrors[p]
      /\ \A A \in values \cup children : A \subseteq BlockErrors[p]
      /\ ChildCounts(p, schema) \subseteq BlockErrors[p]
  BY <1>1, <1>2
<1> QED
  BY <1>4, <1>5 DEF schema

LEMMA EntersRoot ==
    ASSUME NestingInv, NEW b \in BlocksIn(0), ~items[b].open, SchemaOf(b) # NoSchema,
           ~MatchesUnion(b, RootSchemas(b))
    PROVE  BlockErrors[b] \subseteq SchemaErrors
<1>1. vocabulary \in Vocabularies
  BY DEF NestingInv
<1>2. IsRegisteredKind(items[b].name)
  BY <1>1, GovernedIsRegistered
<1>3. BlockErrors[b] \subseteq ValidateRootBlock(b)
  BY <1>2 DEF ValidateRootBlock
<1>4. ValidateRootBlock(b) \subseteq SchemaErrors
  BY DEF SchemaErrors
<1> QED
  BY <1>3, <1>4

LEMMA EntersChild ==
    ASSUME NestingInv, NEW b \in Blocks, NEW p \in Blocks, items[b].in = p,
           ~LeftAlone(p, SchemaErrors), ~LeftAlone(b, SchemaErrors),
           BlockErrors[p] \subseteq SchemaErrors
    PROVE  BlockErrors[b] \subseteq SchemaErrors
<1> DEFINE schema == SchemaOf(p)
           own == SchemaOf(b)
           place == Placement(b, schema)
<1>1. /\ ~items[p].open /\ schema # NoSchema /\ ~schema.open /\ ~schema.derived
      /\ p # 0
  BY NestingFacts DEF LeftAlone
<1>2. /\ own # NoSchema /\ ~own.contextual /\ <<b, "DisallowedChild">> \notin SchemaErrors
      /\ ~MatchesUnion(b, SchemasOf(p))
  BY <1>1 DEF LeftAlone, IsContextual
<1>3. b \in BlocksIn(p)
  BY DEF BlocksIn
<1>4. ChildErrors(b, schema, BlockErrors[b]) \subseteq SchemaErrors
  BY <1>1, <1>3, SaysAll
<1>5. SchemasOf(p) = <<schema>>
  BY <1>1 DEF SchemasOf
<1>6. place # "union"
  BY <1>2, <1>5 DEF Placement
<1>7. place # "none"
  <2>1. SUFFICES ASSUME place = "none"
                 PROVE  FALSE
    OBVIOUS
  <2>2. ChildErrors(b, schema, BlockErrors[b]) = {<<b, "DisallowedChild">>}
    BY <1>2, <2>1 DEF ChildErrors, ErrorsAt
  <2> QED
    BY <1>2, <1>4, <2>2
<1>8. ChildErrors(b, schema, BlockErrors[b]) = BlockErrors[b]
  BY <1>2, <1>6, <1>7 DEF ChildErrors, ErrorsAt
<1> QED
  BY <1>4, <1>8

LEMMA Reached ==
    ASSUME NestingInv, NEW i \in Blocks \cup Fields,
           \A a \in Enclosing(i) : ~LeftAlone(a, SchemaErrors)
    PROVE  \A a \in Enclosing(i) : BlockErrors[a] \subseteq SchemaErrors
<1> DEFINE N == Len(items)
           P == {n \in Nat :
                   \A a \in Enclosing(i) : a <= n => BlockErrors[a] \subseteq SchemaErrors}
<1>1. /\ Enclosing(i) \subseteq Blocks
      /\ \A a \in Enclosing(i) : items[a].in # 0 => items[a].in \in Enclosing(i)
  BY EnclosingFacts
<1>2. N \in Nat /\ \A b \in Blocks : b \in 1 .. N /\ items[b].in \in 0 .. b - 1
  BY NestingFacts
<1> HIDE DEF N
<1>3. 0 \in P
  BY <1>1, <1>2
<1>4. ASSUME NEW n \in 1 .. N, n - 1 \in P
      PROVE  n \in P
  <2> SUFFICES ASSUME NEW a \in Enclosing(i), a <= n
               PROVE  BlockErrors[a] \subseteq SchemaErrors
    OBVIOUS
  <2>1. a \in Blocks /\ ~LeftAlone(a, SchemaErrors)
    BY <1>1
  <2>2. CASE items[a].in = 0
    <3>1. a \in BlocksIn(0)
      BY <2>1, <2>2 DEF BlocksIn
    <3>2. ~items[a].open /\ SchemaOf(a) # NoSchema /\ ~MatchesUnion(a, RootSchemas(a))
      BY <2>1, <2>2 DEF LeftAlone
    <3> QED
      BY <3>1, <3>2, EntersRoot
  <2>3. CASE items[a].in # 0
    <3> DEFINE p == items[a].in
    <3>1. p \in Enclosing(i) /\ p \in Blocks
      BY <1>1, <2>3
    <3>2. a \in Nat /\ p \in 0 .. a - 1 /\ p <= n - 1
      BY <1>2, <2>1
    <3>3. BlockErrors[p] \subseteq SchemaErrors
      BY <1>4, <3>1, <3>2
    <3> QED
      BY <2>1, <3>1, <3>3, EntersChild
  <2> QED
    BY <2>2, <2>3
<1>5. N \in P
  <2> HIDE DEF P
  <2> QED
    BY <1>2, <1>3, <1>4, UpTo
<1> QED
  BY <1>1, <1>2, <1>5
-----------------------------------------------------------------------------
(* The two verdicts agree.                                                 *)
LEMMA ReadsAreReported ==
    ASSUME NestingInv, NEW f \in Fields, Read(f) \in FieldVerdicts,
           \A b \in Enclosing(f) :
               LeftAlone(b, SchemaErrors) => b = items[f].in /\ items[b].open
    PROVE  <<f, Read(f)>> \in SchemaErrors
<1> DEFINE p == items[f].in
<1>1. ~items[f].open /\ (p # 0 => ~items[p].open)
      /\ (SchemaMembership(f) = "Ok" => Read(f) = "Misfit" /\ NumericMisfit(f))
      /\ (SchemaMembership(f) # "Ok" => Read(f) = SchemaMembership(f))
  <2>1. CASE SchemaMembership(f) = "Ok"
    <3>1. Read(f) = "Misfit" /\ NumericMisfit(f)
      BY <2>1 DEF Read, ReadAs, FieldVerdicts
    <3> QED
      BY <2>1, <3>1 DEF NumericMisfit
  <2>2. CASE SchemaMembership(f) # "Ok"
    <3>1. ~items[f].open /\ (p # 0 => ~items[p].open)
      BY <2>2 DEF SchemaMembership
    <3> QED
      BY <2>2, <3>1 DEF Read, ReadAs
  <2> QED
    BY <2>1, <2>2
<1>2. ASSUME SchemaMembership(f) = "Ok"
      PROVE  <<f, Read(f)>> \in FieldValueErrors(f, DeclaredField(f))
  <2>1. Read(f) = "Misfit" /\ ~Holds(DeclaredField(f), items[f].value)
    BY <1>1, <1>2 DEF NumericMisfit
  <2>2. ~DeclaredField(f).open
    BY <2>1 DEF Holds
  <2> QED
    BY <1>1, <2>1, <2>2 DEF FieldValueErrors, ErrorsOfValue
<1>3. CASE p = 0
  <2>1. f \in FieldsIn(0)
    BY <1>3 DEF FieldsIn
  <2>2. ValidateRootField(f) \subseteq SchemaErrors
    BY <2>1 DEF SchemaErrors
  <2>3. SchemaMembership(f) = RootFieldMembership(f)
    BY <1>1, <1>3 DEF SchemaMembership
  <2>4. <<f, Read(f)>> \in ValidateRootField(f)
    BY <1>1, <1>2, <2>3 DEF ValidateRootField
  <2> QED
    BY <2>2, <2>4
<1>4. CASE p # 0
  <2>1. p \in Enclosing(f) /\ p \in Blocks
    BY <1>4, EnclosingFacts
  <2>2. \A b \in Enclosing(f) : ~LeftAlone(b, SchemaErrors)
    BY <1>1, <1>4
  <2>3. BlockErrors[p] \subseteq SchemaErrors
    BY <2>1, <2>2, Reached
  <2>4. ~items[p].open /\ SchemaOf(p) # NoSchema /\ ~SchemaOf(p).open /\ ~SchemaOf(p).derived
    BY <2>1, <2>2 DEF LeftAlone
  <2>5. f \in FieldsIn(p)
    BY DEF FieldsIn
  <2>6. /\ ValidateOwnFields(p, SchemaOf(p)) \subseteq BlockErrors[p]
        /\ FieldValueErrors(f, DeclaredField(f)) \subseteq BlockErrors[p]
    BY <2>1, <2>4, <2>5, SaysAll
  <2>7. CASE SchemaMembership(f) # "Ok"
    <3>1. Read(f) = "UnknownField" /\ ~Admits(SchemaOf(p), items[f].name)
      BY <1>1, <1>4, <2>7 DEF SchemaMembership
    <3>2. items[f].name \notin DOMAIN SchemaOf(p).fields
      BY <3>1 DEF Admits
    <3>3. <<f, Read(f)>> \in ValidateOwnFields(p, SchemaOf(p))
      BY <1>1, <2>4, <2>5, <3>1, <3>2 DEF ValidateOwnFields
    <3> QED
      BY <2>3, <2>6, <3>3
  <2> QED
    BY <1>2, <2>3, <2>6, <2>7
<1> QED
  BY <1>3, <1>4

LEMMA NestingAgrees == NestingInv => CheckAgreesWithReads
<1> SUFFICES ASSUME NestingInv
             PROVE  CheckAgreesWithReads
  OBVIOUS
<1> DEFINE errors == SchemaErrors
           Waived(around) == {b \in around : items[b].open}
<1>1. ASSUME NEW f \in Fields, Waived(Enclosing(f)) = {}, NEW verdict \in FieldVerdicts,
             <<f, verdict>> \in errors
      PROVE  Read(f) = verdict
  <2>1. items[f].in # 0 => ~items[items[f].in].open
    BY <1>1, EnclosingFacts
  <2> QED
    BY <1>1, <2>1, CheckIsHonest DEF Honest
<1>2. ASSUME NEW f \in Fields, Read(f) \in FieldVerdicts,
             \A b \in Enclosing(f) : LeftAlone(b, errors) => b \in Waived({items[f].in})
      PROVE  <<f, Read(f)>> \in errors
  BY <1>2, ReadsAreReported
<1> QED
  BY <1>1, <1>2 DEF CheckAgreesWithReads
-----------------------------------------------------------------------------
(* What the check admits, a slot takes.                                    *)

\* Without warnings, and where no slot is inherited and shadowed, the first of
\* the types that govern the root has the slot that any of them has.
LEMMA FirstDeclares ==
    ASSUME vocabulary \in Vocabularies, SchemaWarnings = {}, NoInheritedShadow,
           NEW t \in DOMAIN DocSchemasForNs(Namespace[1]),
           NEW name \in DOMAIN types[t].fields, types[t].fields[name].slot # NoSlot
    PROVE  FieldOf(DocSchemasForNs(Namespace[1]), name).slot = types[t].fields[name].slot
<1> DEFINE schemas == DocSchemasForNs(Namespace[1])
           places == Declaring(schemas, name)
           first == Min(places)
<1>1. /\ DOMAIN schemas \subseteq DOMAIN types
      /\ \A a \in DOMAIN schemas : schemas[a] = types[a] /\ Governs(a, Namespace[1])
  BY DEF DocSchemasForNs
<1>2. DOMAIN types \subseteq Nat
  <2>1. DOMAIN types = 1 .. Len(types)
    BY VocabulariesAssumption DEF types
  <2> QED
    BY <2>1
<1>3. t \in places /\ places \subseteq DOMAIN schemas
  BY <1>1 DEF Declaring
<1>4. first \in places /\ first <= t
  BY <1>1, <1>2, <1>3, FirstPlace
<1>5. /\ first \in DOMAIN types /\ t \in DOMAIN types /\ first \in Nat /\ t \in Nat
      /\ name \in DOMAIN types[first].fields
  BY <1>1, <1>2, <1>3, <1>4 DEF Declaring
<1> HIDE DEF first
<1>6. types[first].fields[name].slot = types[t].fields[name].slot
  <2> SUFFICES ASSUME first < t
               PROVE  types[first].fields[name].slot = types[t].fields[name].slot
    BY <1>4, <1>5
  <2>1. Meets(first, t)
    BY <1>1, <1>3, <1>4 DEF Governs, CoGovern, Meets
  <2>2. name \in SharedSlots(first, t)
    BY <1>5 DEF SharedSlots
  <2> DEFINE warned(a, b) == SharedSlots(a, b) \cap types[a].own \cap types[b].own
             later(a) == {b \in DOMAIN types : Meets(a, b)}
  <2>3. name \notin warned(first, t)
    <3>1. SchemaWarnings = UNION {UNION {warned(a, b) : b \in later(a)} : a \in DOMAIN types}
      BY Zenon DEF SchemaWarnings
    <3>2. t \in later(first)
      BY <1>5, <2>1
    <3> HIDE DEF later, warned
    <3>3. warned(first, t) \in {warned(first, b) : b \in later(first)}
      BY <3>2
    <3>4. name \in warned(first, t) => name \in SchemaWarnings
      BY <1>5, <3>1, <3>3
    <3> QED
      BY <3>4
  <2>4. name \notin types[first].own \cap types[t].own
    BY <2>2, <2>3
  <2> QED
    BY <1>5, <2>1, <2>2, <2>4 DEF NoInheritedShadow
<1>7. places # {} /\ schemas[Min(places)] = types[first]
  BY <1>1, <1>3, <1>4 DEF first
<1> HIDE DEF schemas, places
<1>8. FieldOf(schemas, name).slot = types[t].fields[name].slot
  BY <1>6, <1>7 DEF FieldOf, places
<1> QED
  BY <1>8 DEF schemas

\* The slots of the root take what they are for.
LEMMA RootTakes ==
    ASSUME vocabulary \in Vocabularies, SchemaWarnings = {}, NoInheritedShadow,
           NEW slot \in SlotsOf(DocSchemasForNs(Namespace[1])), slot # NoSlot
    PROVE  TakenFrom(slot, BlocksIn(0), BlocksIn(0)) \subseteq Gathered
<1> DEFINE schemas == DocSchemasForNs(Namespace[1])
           names == UNION {DOMAIN schemas[t].fields : t \in DOMAIN schemas}
           taken == {TakenFrom(FieldOf(schemas, name).slot, BlocksIn(0), BlocksIn(0)) :
                        name \in names}
<1>1. PICK t \in DOMAIN schemas : \E name \in DOMAIN schemas[t].fields :
          slot = schemas[t].fields[name].slot
  BY DEF SlotsOf
<1>2. PICK name \in DOMAIN schemas[t].fields : slot = schemas[t].fields[name].slot
  BY <1>1
<1>3. schemas[t] = types[t]
  BY <1>1 DEF DocSchemasForNs
<1>4. FieldOf(schemas, name).slot = slot
  BY <1>1, <1>2, <1>3, FirstDeclares
<1>5. name \in names
  BY <1>1, <1>2
<1>6. ResolveRootChildren = UNION taken
  BY DEF ResolveRootChildren
<1> HIDE DEF names, schemas
<1>7. TakenFrom(slot, BlocksIn(0), BlocksIn(0)) \in taken
  BY <1>4, <1>5
<1> HIDE DEF taken
<1> QED
  BY <1>6, <1>7 DEF Gathered

\* The types that govern an imported file govern the root too.
LEMMA GovernsRootToo ==
    ASSUME vocabulary \in Vocabularies, NEW b
    PROVE  SlotsOf(RootSchemas(b)) \subseteq SlotsOf(DocSchemasForNs(Namespace[1]))
<1> DEFINE schemas == RootSchemas(b)
           all == DocSchemasForNs(Namespace[1])
<1>1. \A t \in DOMAIN schemas : t \in DOMAIN all /\ schemas[t] = all[t]
  <2>1. ASSUME NEW t \in DOMAIN types, Governs(t, Namespace[items[b].file])
        PROVE  Governs(t, Namespace[1])
    <3>1. types[t].sort = "document" => types[t].imported \/ types[t].ns = Namespace[1]
      BY VocabulariesAssumption DEF types
    <3> QED
      BY <2>1, <3>1 DEF Governs
  <2> QED
    BY <2>1 DEF RootSchemas, DocSchemasForNs
<1> HIDE DEF schemas, all
<1> QED
  <2>1. SlotsOf(schemas) \subseteq SlotsOf(all)
    BY <1>1 DEF SlotsOf
  <2> QED
    BY <2>1 DEF schemas, all

LEMMA NamesOfSlots == NoSlot.of # "kind" /\ NoSlot.of # "union"
  BY DEF NoSlot

\* Of one block at most, any is the first.
LEMMA OnlyIsFirst ==
    ASSUME NestingInv, NEW S, S \subseteq Blocks, NEW b \in S, ~(Cardinality(S) > 1)
    PROVE  IsFirst(b, S)
<1>1. Blocks \subseteq 1 .. Len(items) /\ Len(items) \in Nat
  BY NestingFacts
<1>2. IsFiniteSet(S)
  <2>1. IsFiniteSet(1 .. Len(items))
    BY <1>1, FS_Interval
  <2> QED
    BY <1>1, <2>1, FS_Subset
<1>3. Cardinality(S) \in Nat
  BY <1>2, FS_CardinalityType
<1>4. Cardinality(S) # 0
  BY <1>2, FS_EmptySet
<1>5. Cardinality(S) = 1
  BY <1>3, <1>4
<1>6. PICK x : S = {x}
  BY <1>2, <1>5, FS_Singleton
<1>7. S \subseteq Nat
  BY <1>1
<1>8. Min(S) \in S
  BY <1>7, FirstPlace
<1> QED
  BY <1>6, <1>8 DEF IsFirst

LEMMA RootIsTaken ==
    ASSUME NestingInv, SchemaErrors = {}, SchemaWarnings = {}, NoInheritedShadow,
           NEW b \in BlocksIn(0), ~LeftToTheHost(b)
    PROVE  b \in Gathered
<1> DEFINE all == DocSchemasForNs(Namespace[1])
<1>1. vocabulary \in Vocabularies /\ b \in Blocks /\ items[b].in = 0
  BY NestingFacts DEF NestingInv
<1>2. /\ ~items[b].open /\ ~IsPossibleBlockSlotFill(items[b].name)
      /\ \A slot \in SlotsOf(all) :
             ~(slot.of = "kind" /\ ~slot.many /\ slot.name = items[b].name)
      /\ \A slot \in UnionSlots(all) : slot.many
  BY <1>1 DEF LeftToTheHost
<1>3. ASSUME NEW slot \in SlotsOf(RootSchemas(b)), slot.of = "union",
             BlockToVariant(b, slot.name)
      PROVE  b \in Gathered
  <2>1. slot \in SlotsOf(all)
    BY <1>1, GovernsRootToo
  <2>2. slot.many
    BY <1>2, <1>3, <2>1 DEF UnionSlots
  <2>3. b \in TakenFrom(slot, BlocksIn(0), BlocksIn(0))
    BY <1>3, <2>2 DEF TakenFrom
  <2>4. slot # NoSlot
    BY <1>3, NamesOfSlots
  <2> QED
    BY <1>1, <2>1, <2>3, <2>4, RootTakes
<1>4. ASSUME NEW slot \in SlotsOf(RootSchemas(b)), slot.of = "kind", slot.name = items[b].name
      PROVE  b \in Gathered
  <2>1. slot \in SlotsOf(all)
    BY <1>1, GovernsRootToo
  <2>2. slot.many
    BY <1>2, <1>4, <2>1
  <2>3. b \in TakenFrom(slot, BlocksIn(0), BlocksIn(0))
    BY <1>4, <2>2 DEF TakenFrom, OfKind
  <2>4. slot # NoSlot
    BY <1>4, NamesOfSlots
  <2> QED
    BY <1>1, <2>1, <2>3, <2>4, RootTakes
<1>5. ValidateRootBlock(b) = {}
  <2>1. ValidateRootBlock(b) \subseteq SchemaErrors
    BY DEF SchemaErrors
  <2> QED
    BY <2>1
<1>6. CASE MatchesUnion(b, RootSchemas(b))
  BY <1>3, <1>6 DEF MatchesUnion, UnionSlots
<1>7. CASE ~MatchesUnion(b, RootSchemas(b))
  <2>1. items[b].name \in AllowedChildKinds(RootSchemas(b))
    BY <1>2, <1>5, <1>7 DEF ValidateRootBlock
  <2> QED
    BY <1>4, <2>1 DEF AllowedChildKinds
<1> QED
  BY <1>6, <1>7

LEMMA NestedIsTaken ==
    ASSUME NestingInv, SchemaErrors = {},
           NEW b \in Blocks, items[b].in # 0, ~LeftToTheHost(b)
    PROVE  b \in Gathered
<1> DEFINE p == items[b].in
           schema == SchemaOf(p)
           place == Placement(b, schema)
<1>1. /\ ~IsContextual(b) /\ ~IsPossibleBlockSlotFill(items[b].name)
      /\ ~MatchesInterface(b, SchemasOf(p))
      /\ \A a \in Enclosing(b) : ~LeftAlone(a, {})
      /\ \A slot \in UnionSlots(SchemasOf(p)) : slot.many
  BY DEF LeftToTheHost
<1>2. p \in Enclosing(b) /\ p \in Blocks
  BY EnclosingFacts
<1>3. BlockErrors[p] \subseteq {}
  BY <1>1, <1>2, Reached
<1>4. ~items[p].open /\ schema # NoSchema /\ ~schema.open /\ ~schema.derived
  BY <1>1, <1>2 DEF LeftAlone
<1>5. b \in BlocksIn(p)
  BY DEF BlocksIn
<1>6. ChildErrors(b, schema, BlockErrors[b]) = {} /\ ChildCounts(p, schema) = {}
  BY <1>2, <1>3, <1>4, <1>5, SaysAll
<1>7. SchemasOf(p) = <<schema>>
  BY <1>4 DEF SchemasOf
<1>8. ASSUME NEW slot \in SlotsOf(SchemasOf(p))
      PROVE  TakenFrom(slot, BlocksIn(p), UnionChildren(p)) \subseteq Gathered
  <2>1. TakenFrom(slot, BlocksIn(p), UnionChildren(p)) \subseteq ChildrenProjection(p)
    BY DEF ChildrenProjection
  <2> QED
    BY <1>2, <2>1 DEF Gathered
<1>9. place # "none"
  <2>1. SUFFICES ASSUME place = "none"
                 PROVE  FALSE
    OBVIOUS
  <2>2. <<b, "DisallowedChild">> \in ChildErrors(b, schema, BlockErrors[b])
    BY <1>1, <2>1 DEF ChildErrors, ErrorsAt, IsContextual
  <2> QED
    BY <1>6, <2>2
<1>10. place # "interface"
  BY <1>1, <1>7 DEF Placement
<1>11. CASE place = "kind"
  <2>1. items[b].name \in AllowedChildKinds(<<schema>>)
    BY <1>11 DEF Placement
  <2>2. PICK slot \in SlotsOf(<<schema>>) : slot.of = "kind" /\ slot.name = items[b].name
    BY <2>1 DEF AllowedChildKinds
  <2>3. PICK name \in DOMAIN schema.fields : slot = schema.fields[name].slot
    BY <2>2 DEF SlotsOf
  <2> DEFINE taken == OfKind(BlocksIn(p), slot.name)
  <2>4. b \in taken /\ taken \subseteq Blocks
    BY <1>5, <2>2, NestingFacts DEF OfKind
  <2>5. TakenFrom(slot, BlocksIn(p), UnionChildren(p))
            = IF slot.many THEN taken ELSE {c \in taken : IsFirst(c, taken)}
    BY <2>2 DEF TakenFrom
  <2>6. ~slot.many => ~(Cardinality(taken) > 1)
    <3> SUFFICES ASSUME ~slot.many, Cardinality(taken) > 1
                 PROVE  FALSE
      OBVIOUS
    <3>1. Cardinality(taken) # 0
      BY FS_EmptySet
    <3> DEFINE counted(n) ==
            LET count == Cardinality(OfKind(BlocksIn(p), schema.fields[n].slot.name))
            IN  IF schema.fields[n].slot.of # "kind" \/ schema.fields[n].slot.many THEN {}
                ELSE IF count = 0 /\ ~schema.fields[n].optional THEN {<<p, "MissingRequired">>}
                ELSE IF count > 1 THEN {<<p, "ChildrenTooMany">>}
                ELSE {}
    <3>2. counted(name) = {<<p, "ChildrenTooMany">>}
      BY <2>2, <2>3, <3>1
    <3>3. ChildCounts(p, schema) = UNION {counted(n) : n \in DOMAIN schema.fields}
      BY Zenon DEF ChildCounts
    <3> HIDE DEF counted
    <3>4. counted(name) \in {counted(n) : n \in DOMAIN schema.fields}
      BY <2>3
    <3>5. <<p, "ChildrenTooMany">> \in UNION {counted(n) : n \in DOMAIN schema.fields}
      BY <3>2, <3>4
    <3> QED
      BY <1>6, <3>3, <3>5
  <2> HIDE DEF taken
  <2>7. ~slot.many => IsFirst(b, taken)
    BY <2>4, <2>6, OnlyIsFirst
  <2>8. b \in TakenFrom(slot, BlocksIn(p), UnionChildren(p))
    BY <2>4, <2>5, <2>7
  <2> QED
    BY <1>7, <1>8, <2>2, <2>8
<1>12. CASE place = "union"
  <2>1. items[b].name \notin AllowedChildKinds(<<schema>>) /\ MatchesUnion(b, <<schema>>)
    BY <1>12 DEF Placement
  <2>2. PICK slot \in UnionSlots(<<schema>>) : BlockToVariant(b, slot.name)
    BY <2>1 DEF MatchesUnion
  <2>3. slot \in SlotsOf(<<schema>>) /\ slot.of = "union" /\ slot.many
    BY <1>1, <1>7, <2>2 DEF UnionSlots
  <2>4. b \in UnionChildren(p)
    BY <1>5, <1>7, <2>1 DEF UnionChildren
  <2>5. b \in TakenFrom(slot, BlocksIn(p), UnionChildren(p))
    BY <2>2, <2>3, <2>4 DEF TakenFrom
  <2> QED
    BY <1>7, <1>8, <2>3, <2>5
<1>13. place \in {"none", "interface", "kind", "union"}
  BY DEF Placement
<1> QED
  BY <1>9, <1>10, <1>11, <1>12, <1>13

LEMMA NestingKeepsAll == NestingInv => NothingVanishes
<1> SUFFICES ASSUME NestingInv, SchemaErrors = {}, SchemaWarnings = {}, NoInheritedShadow,
                    NEW b \in Blocks, ~LeftToTheHost(b)
             PROVE  b \in Gathered
  BY DEF NothingVanishes, EachIsTaken
<1>1. CASE items[b].in = 0
  <2>1. b \in BlocksIn(0)
    BY <1>1 DEF BlocksIn
  <2> QED
    BY <2>1, RootIsTaken
<1>2. CASE items[b].in # 0
  BY <1>2, NestedIsTaken
<1> QED
  BY <1>1, <1>2

\* In every document, `wcl check` and a read of a field find the same fields at fault.
THEOREM CheckAlwaysAgrees == SchemasSpec => []CheckAgreesWithReads
<1>1. NestingInv => CheckAgreesWithReads
  BY NestingAgrees
<1> QED
  BY <1>1, NestingInitially, NestingStays, PTL DEF SchemasSpec

\* In every document that has no errors and no warnings, and no root type of which
\* inherits a slot that another one shadows, some slot takes each block.
THEOREM NothingEverVanishes == SchemasSpec => []NothingVanishes
<1>1. NestingInv => NothingVanishes
  BY NestingKeepsAll
<1> QED
  BY <1>1, NestingInitially, NestingStays, PTL DEF SchemasSpec
=============================================================================
