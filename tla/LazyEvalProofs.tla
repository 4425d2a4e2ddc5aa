--------------------------- MODULE LazyEvalProofs ---------------------------
(***************************************************************************)
(* Proofs about LazyEval, for any set of documents of any size, any number *)
(* of threads and any depth limit.                                         *)
(*                                                                         *)
(* What the proofs say of one document is stated by operators that take it *)
(* as a parameter: no step changes the document, and what does not mention *)
(* a variable need not be carried from one state to the next.              *)
(***************************************************************************)
EXTENDS LazyEval, TLAPS, FiniteSetTheorems, SequenceTheorems, WellFoundedInduction

ItemsOf(d) == DOMAIN d.kind

MayUseIn(d, n) ==
    UNION {{d.uses[n][k][i] : i \in 1 .. Len(d.uses[n][k])} : k \in 1 .. Len(d.uses[n])}

ReachesIn(d, a, b) ==
    \A S \in SUBSET ItemsOf(d) :
        MayUseIn(d, a) \subseteq S /\ (\A x \in S : MayUseIn(d, x) \subseteq S) => b \in S

Activations(d) ==
    [item : ItemsOf(d), done : Nat, sum : Nat, failure : Results \cup {Empty}]

\* A cycle error names an item that leads back to itself.
Honest(d, r) == r # Empty /\ r.tag = "cycle" => ReachesIn(d, r.of, r.of)

\* An evaluation that still has a name to look up.
Waiting(d, a) == a.failure = Empty /\ a.done < Len(d.uses[a.item])

Sane(d, a) == a.done <= Len(d.uses[a.item]) /\ Honest(d, a.failure)

\* A stack: each evaluation waits for the one above it, and leads to every
\* one above it.
GoodStack(d, s) ==
    /\ \A i \in 1 .. Len(s) : Sane(d, s[i])
    /\ \A i \in 1 .. Len(s) - 1 : Waiting(d, s[i])
    /\ \A i, j \in 1 .. Len(s) : i < j => ReachesIn(d, s[i].item, s[j].item)

FramesOf(d, s) == {i \in 1 .. Len(s) : d.kind[s[i].item] # "labels"}

-----------------------------------------------------------------------------
(* The inductive invariant. *)

Typed ==
    /\ doc \in Documents
    /\ cache \in [Items -> Results \cup {Empty}]
    /\ stack \in [Threads -> Seq(Activations(doc))]
    /\ seen \in [Items -> SUBSET Results]

StacksAreGood == \A t \in Threads : GoodStack(doc, stack[t])

StacksHaveRoom == \A t \in Threads : Cardinality(FramesOf(doc, stack[t])) <= Room[t]

CachesAreHonest == \A n \in Items : Honest(doc, cache[n])

\* A cell that answered holds what it answered.
CellsKeepTheirAnswer ==
    \A n \in Items : doc.kind[n] = "cell" => seen[n] \subseteq {cache[n]}

Inv ==
    /\ Typed
    /\ StacksAreGood
    /\ StacksHaveRoom
    /\ CachesAreHonest
    /\ CellsKeepTheirAnswer

-----------------------------------------------------------------------------
(* Documents. *)

LEMMA DocumentShape ==
    ASSUME NEW d \in Documents
    PROVE  /\ d.kind \in [ItemsOf(d) -> Kinds]
           /\ d.uses \in [ItemsOf(d) -> Seq(Seq(ItemsOf(d)) \ {<<>>})]
           /\ ItemsOf(d) \subseteq AllItems
<1>1. DocumentAssumption(d)
  BY DocumentsAssumption
<1> QED
  BY <1>1 DEF DocumentAssumption, ItemsOf, AllItems

LEMMA CycleIsAResult ==
    ASSUME NEW d \in Documents, NEW n \in ItemsOf(d)
    PROVE  Cycle(n) \in Results /\ Cycle(n) # Empty
<1>1. n \in AllItems
  BY DocumentShape
<1> QED
  BY <1>1, EmptyAssumption DEF Cycle, Results

LEMMA DeepIsAResult == TooDeep \in Results /\ TooDeep # Empty
  BY EmptyAssumption DEF Results

LEMMA ValueIsAResult ==
    ASSUME NEW v \in Nat
    PROVE  Ok(v) \in Results /\ Ok(v) # Empty
  BY EmptyAssumption DEF Ok, Results

(* Every item that an expression names is one it leads to, and so is what  *)
(* that one names in turn.                                                 *)
LEMMA UseIsReached ==
    ASSUME NEW d, NEW a, NEW b \in MayUseIn(d, a)
    PROVE  ReachesIn(d, a, b)
  BY DEF ReachesIn

LEMMA ReachesOneMore ==
    ASSUME NEW d, NEW a, NEW b, NEW c \in MayUseIn(d, b), ReachesIn(d, a, b)
    PROVE  ReachesIn(d, a, c)
  BY DEF ReachesIn

LEMMA SameReach == \A a, b : Reaches(a, b) <=> ReachesIn(doc, a, b)
  BY DEF Reaches, ReachesIn, MayUse, MayUseIn, Items, ItemsOf

(* A nonempty set of positions has a first one.                            *)
LEMMA FirstPosition ==
    ASSUME NEW T, T \subseteq Nat, T # {}
    PROVE  \E i \in T : \A j \in T : i <= j
<1>1. PICK i \in T : \A j \in T : ~(<<j, i>> \in OpToRel(<, Nat))
  BY NatLessThanWellFounded, WFMin
<1>2. ASSUME NEW j \in T PROVE i <= j
  <2>1. j \in Nat /\ i \in Nat
    OBVIOUS
  <2>2. ~(j < i)
    <3>1. SUFFICES ASSUME j < i PROVE <<j, i>> \in OpToRel(<, Nat)
      BY <1>1
    <3> QED
      BY <2>1, <3>1 DEF OpToRel
  <2> QED
    BY <2>1, <2>2
<1> QED
  BY <1>2

(* The scope lookup finds one of the bindings it is given.                 *)
LEMMA LookupIsABinding ==
    ASSUME NEW t, NEW bindings, Len(bindings) \in Nat \ {0}
    PROVE  \E i \in 1 .. Len(bindings) : ScopeLookup(t, bindings) = bindings[i]
<1> DEFINE resolving == {i \in 1 .. Len(bindings) : ~MidEvaluation(t, bindings[i])}
<1>1. CASE resolving = {}
  BY <1>1 DEF ScopeLookup
<1>2. CASE resolving # {}
  <2>1. \E i \in resolving : \A j \in resolving : i <= j
    <3>1. resolving \subseteq Nat
      OBVIOUS
    <3> HIDE DEF resolving
    <3> QED
      BY <1>2, <3>1, FirstPosition
  <2>2. (CHOOSE i \in resolving : \A j \in resolving : i <= j) \in resolving
    BY <2>1
  <2>3. ScopeLookup(t, bindings)
          = bindings[CHOOSE i \in resolving : \A j \in resolving : i <= j]
    BY <1>2 DEF ScopeLookup
  <2> QED
    BY <2>2, <2>3
<1> QED
  BY <1>1, <1>2

(* What an evaluation asks for is one of the items it may use.             *)
LEMMA AskedIsUsed ==
    ASSUME Typed, NEW t \in Threads, NEW n, Asks(t, n), stack[t] # <<>>,
           Sane(doc, Top(t))
    PROVE  /\ Waiting(doc, Top(t))
           /\ n \in MayUseIn(doc, Top(t).item)
<1> DEFINE a == Top(t)
           names == doc.uses[a.item]
<1>1. a \in Activations(doc)
  BY EmptySeq, ElementOfSeq DEF Typed, Top
<1>2. names \in Seq(Seq(Items) \ {<<>>})
  BY <1>1, DocumentShape DEF Typed, Activations, Items, ItemsOf
<1>3. Len(names) \in Nat
  BY <1>2
<1>4. a.failure = Empty /\ a.done # Len(names) /\ n = ScopeLookup(t, names[a.done + 1])
  BY DEF Asks, IsOver
<1>5. a.done \in Nat /\ a.done < Len(names)
  BY <1>1, <1>3, <1>4 DEF Sane, Activations
<1>6. a.done + 1 \in 1 .. Len(names)
  BY <1>3, <1>5
<1>7. names[a.done + 1] \in Seq(Items) /\ names[a.done + 1] # <<>>
  BY <1>2, <1>6, ElementOfSeq
<1>8. Len(names[a.done + 1]) \in Nat \ {0}
  BY <1>7
<1>9. PICK i \in 1 .. Len(names[a.done + 1]) : n = names[a.done + 1][i]
  BY <1>4, <1>8, LookupIsABinding
<1>10. n \in MayUseIn(doc, a.item)
  BY <1>6, <1>9 DEF MayUseIn
<1> QED
  BY <1>4, <1>5, <1>10 DEF Waiting

-----------------------------------------------------------------------------
(* Stacks. *)

LEMMA FramesAreFinite ==
    ASSUME NEW d, NEW s, Len(s) \in Nat
    PROVE  IsFiniteSet(FramesOf(d, s)) /\ Cardinality(FramesOf(d, s)) \in Nat
<1>1. IsFiniteSet(1 .. Len(s))
  BY FS_Interval
<1>2. FramesOf(d, s) \subseteq 1 .. Len(s)
  BY DEF FramesOf
<1>3. IsFiniteSet(FramesOf(d, s))
  BY <1>1, <1>2, FS_Subset
<1> QED
  BY <1>3, FS_CardinalityType

(* The depth the code counts is the number of frames of the stack.         *)
LEMMA DepthCountsFrames == \A t : Depth(t) = Cardinality(FramesOf(doc, stack[t]))
  BY DEF Depth, FramesOf

(* What is left of a stack without its top.                                *)
LEMMA BelowTheTop ==
    ASSUME Typed, NEW t \in Threads, stack[t] # <<>>
    PROVE  /\ Below(t) \in Seq(Activations(doc))
           /\ Len(Below(t)) = Len(stack[t]) - 1
           /\ \A i \in 1 .. Len(stack[t]) - 1 : Below(t)[i] = stack[t][i]
<1> DEFINE s == stack[t]
           m == Len(s)
<1>1. s \in Seq(Activations(doc)) /\ m \in Nat \ {0}
  BY EmptySeq DEF Typed
<1>2. \A i \in 1 .. m - 1 : s[i] \in Activations(doc)
  BY <1>1, ElementOfSeq
<1>3. 1 \in Int /\ m - 1 \in Int
  BY <1>1
<1>4. /\ Below(t) \in Seq(Activations(doc))
      /\ Len(Below(t)) = IF 1 <= m - 1 THEN m - 1 - 1 + 1 ELSE 0
      /\ \A i \in 1 .. m - 1 - 1 + 1 : Below(t)[i] = s[1 + i - 1]
  BY <1>2, <1>3, SubSeqProperties DEF Below
<1> QED
  BY <1>1, <1>4

(* What an evaluation becomes when it receives a result.                   *)
LEMMA ReceiveKeepsShape ==
    ASSUME Typed, NEW a \in Activations(doc), Waiting(doc, a), Sane(doc, a),
           NEW r \in Results, Honest(doc, r)
    PROVE  /\ Receive(a, r) \in Activations(doc)
           /\ Receive(a, r).item = a.item
           /\ Sane(doc, Receive(a, r))
<1>1. a.failure = Empty /\ a.done \in Nat /\ a.sum \in Nat /\ a.item \in ItemsOf(doc)
  BY DEF Waiting, Activations
<1>2. Len(doc.uses[a.item]) \in Nat
  BY <1>1, DocumentShape, LenProperties DEF Typed
<1>3. a.done + 1 \in Nat /\ a.done + 1 <= Len(doc.uses[a.item])
  BY <1>1, <1>2 DEF Waiting
<1>4. CASE r.tag = "ok"
  <2>1. r.of \in Nat
    BY <1>4 DEF Results, TooDeep
  <2>2. Receive(a, r) = [a EXCEPT !.done = @ + 1, !.sum = @ + r.of]
    BY <1>4 DEF Receive
  <2>3. Receive(a, r) = [item |-> a.item, done |-> a.done + 1,
                         sum |-> a.sum + r.of, failure |-> a.failure]
    BY <2>2 DEF Activations
  <2>4. a.sum + r.of \in Nat
    BY <1>1, <2>1
  <2>5. Receive(a, r) \in Activations(doc)
    BY <1>1, <1>3, <2>3, <2>4 DEF Activations
  <2> QED
    BY <1>3, <2>3, <2>5 DEF Sane
<1>5. CASE r.tag # "ok" /\ doc.kind[a.item] = "index"
  <2>1. Receive(a, r) = [a EXCEPT !.done = @ + 1]
    BY <1>5 DEF Receive
  <2> QED
    BY <1>1, <1>3, <2>1 DEF Activations, Sane
<1>6. CASE r.tag # "ok" /\ doc.kind[a.item] # "index"
  <2>1. Receive(a, r) = [a EXCEPT !.failure = r]
    BY <1>6 DEF Receive
  <2> QED
    BY <1>1, <2>1 DEF Activations, Sane
<1> QED
  BY <1>4, <1>5, <1>6

(* A stack that was cut, and whose top may have moved on.                  *)
LEMMA CutStack ==
    ASSUME Typed, NEW s \in Seq(Activations(doc)), GoodStack(doc, s),
           NEW new \in Seq(Activations(doc)),
           Len(new) <= Len(s),
           \A i \in 1 .. Len(new) : new[i].item = s[i].item,
           \A i \in 1 .. Len(new) - 1 : new[i] = s[i],
           new # <<>> => Sane(doc, new[Len(new)])
    PROVE  /\ GoodStack(doc, new)
           /\ Cardinality(FramesOf(doc, new)) <= Cardinality(FramesOf(doc, s))
<1>1. Len(new) \in Nat /\ Len(s) \in Nat
  BY LenProperties
<1>2. 1 .. Len(new) \subseteq 1 .. Len(s)
  BY <1>1
<1>3. \A i \in 1 .. Len(new) : Sane(doc, new[i])
  <2> SUFFICES ASSUME NEW i \in 1 .. Len(new) PROVE Sane(doc, new[i])
    OBVIOUS
  <2>1. CASE i = Len(new)
    BY <2>1, <1>1
  <2>2. CASE i # Len(new)
    <3>1. i \in 1 .. Len(new) - 1
      BY <2>2, <1>1
    <3> QED
      BY <3>1, <1>2 DEF GoodStack
  <2> QED
    BY <2>1, <2>2
<1>4. \A i \in 1 .. Len(new) - 1 : Waiting(doc, new[i])
  <2> SUFFICES ASSUME NEW i \in 1 .. Len(new) - 1 PROVE Waiting(doc, new[i])
    OBVIOUS
  <2>1. i \in 1 .. Len(s) - 1
    BY <1>1
  <2> QED
    BY <2>1 DEF GoodStack
<1>5. \A i, j \in 1 .. Len(new) : i < j => ReachesIn(doc, new[i].item, new[j].item)
  BY <1>2 DEF GoodStack
<1>6. FramesOf(doc, new) \subseteq FramesOf(doc, s)
  BY <1>2 DEF FramesOf
<1> QED
  BY <1>1, <1>3, <1>4, <1>5, <1>6, FramesAreFinite, FS_Subset DEF GoodStack

(* What is left of the stacks when a result is handed down: `rest` is the  *)
(* stack of t, or what is below its top.                                   *)
LEMMA DeliverKeepsStacks ==
    ASSUME Typed, StacksAreGood, StacksHaveRoom, NEW t \in Threads, NEW n,
           NEW r \in Results, Honest(doc, r),
           NEW rest \in Seq(Activations(doc)), Deliver(t, n, r, rest),
           Len(rest) <= Len(stack[t]),
           \A i \in 1 .. Len(rest) : rest[i] = stack[t][i],
           rest # <<>> => Waiting(doc, rest[Len(rest)])
    PROVE  /\ stack' \in [Threads -> Seq(Activations(doc))]
           /\ \A u \in Threads : GoodStack(doc, stack'[u])
           /\ \A u \in Threads : Cardinality(FramesOf(doc, stack'[u])) <= Room[u]
<1> DEFINE new == IF rest = <<>> THEN <<>>
                  ELSE [rest EXCEPT ![Len(rest)] = Receive(@, r)]
<1>1. stack' = [stack EXCEPT ![t] = new]
  BY DEF Deliver
<1>2. stack[t] \in Seq(Activations(doc)) /\ GoodStack(doc, stack[t])
  BY DEF Typed, StacksAreGood
<1>3. Len(rest) \in Nat /\ Len(stack[t]) \in Nat
  BY <1>2, LenProperties
<1>4. /\ new \in Seq(Activations(doc))
      /\ Len(new) = Len(rest)
      /\ \A i \in 1 .. Len(new) : new[i].item = stack[t][i].item
      /\ \A i \in 1 .. Len(new) - 1 : new[i] = stack[t][i]
      /\ new # <<>> => Sane(doc, new[Len(new)])
  <2>1. CASE rest = <<>>
    BY <2>1, EmptySeq
  <2>2. CASE rest # <<>>
    <3> DEFINE k == Len(rest)
               a == rest[k]
    <3>1. k \in 1 .. Len(rest) /\ k \in 1 .. Len(stack[t])
      BY <2>2, <1>3, EmptySeq
    <3>2. a \in Activations(doc) /\ Waiting(doc, a)
      BY <2>2, <3>1, ElementOfSeq
    <3>3. Sane(doc, a)
      BY <3>1, <1>2 DEF GoodStack
    <3>4. Receive(a, r) \in Activations(doc) /\ Receive(a, r).item = a.item
          /\ Sane(doc, Receive(a, r))
      BY <3>2, <3>3, ReceiveKeepsShape
    <3>5. new = [rest EXCEPT ![k] = Receive(a, r)]
      BY <2>2, <3>1
    <3>6. /\ new \in Seq(Activations(doc))
          /\ Len(new) = k
          /\ \A i \in 1 .. k : new[i] = IF i = k THEN Receive(a, r) ELSE rest[i]
      BY <3>1, <3>4, <3>5, ExceptSeq
    <3> HIDE DEF new, a
    <3>7. \A i \in 1 .. k : new[i].item = stack[t][i].item
      BY <3>4, <3>6 DEF a
    <3>8. \A i \in 1 .. k - 1 : new[i] = stack[t][i]
      BY <3>6, <1>3
    <3>9. Sane(doc, new[k])
      BY <3>1, <3>4, <3>6
    <3> QED
      BY <3>6, <3>7, <3>8, <3>9
  <2> QED
    BY <2>1, <2>2
<1> HIDE DEF new
<1>5. GoodStack(doc, new)
      /\ Cardinality(FramesOf(doc, new)) <= Cardinality(FramesOf(doc, stack[t]))
  BY <1>2, <1>4, CutStack
<1>6. Cardinality(FramesOf(doc, new)) <= Room[t]
  <2>1. Cardinality(FramesOf(doc, new)) \in Nat
    BY <1>3, <1>4, FramesAreFinite
  <2>2. Cardinality(FramesOf(doc, stack[t])) \in Nat
    BY <1>3, FramesAreFinite
  <2>3. Room[t] \in Nat
    BY RoomAssumption
  <2> QED
    BY <1>5, <2>1, <2>2, <2>3 DEF StacksHaveRoom
<1>7. stack' \in [Threads -> Seq(Activations(doc))]
  BY <1>1, <1>4 DEF Typed
<1>8. \A u \in Threads : stack'[u] = IF u = t THEN new ELSE stack[u]
  BY <1>1 DEF Typed
<1> QED
  BY <1>5, <1>6, <1>7, <1>8 DEF StacksAreGood, StacksHaveRoom

-----------------------------------------------------------------------------
(* The steps. *)

LEMMA InitInv == Init => Inv
<1> SUFFICES ASSUME Init PROVE Inv
  OBVIOUS
<1>1. Typed
  BY EmptySeq DEF Init, Typed
<1>2. \A t \in Threads : stack[t] = <<>>
  BY DEF Init
<1>3. GoodStack(doc, <<>>)
  BY DEF GoodStack
<1>4. Cardinality(FramesOf(doc, <<>>)) = 0
  <2>1. FramesOf(doc, <<>>) = {}
    BY DEF FramesOf
  <2> QED
    BY <2>1, FS_EmptySet
<1>5. StacksAreGood /\ StacksHaveRoom
  BY <1>2, <1>3, <1>4, RoomAssumption DEF StacksAreGood, StacksHaveRoom
<1>6. CachesAreHonest /\ CellsKeepTheirAnswer
  BY DEF Init, CachesAreHonest, Honest, CellsKeepTheirAnswer
<1> QED
  BY <1>1, <1>5, <1>6 DEF Inv

(* The parts of the invariant that a step has to establish.                *)
LEMMA StepInv ==
    ASSUME Inv, doc' = doc,
           cache' \in [Items -> Results \cup {Empty}],
           stack' \in [Threads -> Seq(Activations(doc))],
           seen' \in [Items -> SUBSET Results],
           \A u \in Threads : GoodStack(doc, stack'[u]),
           \A u \in Threads : Cardinality(FramesOf(doc, stack'[u])) <= Room[u],
           \A n \in Items : Honest(doc, cache'[n]),
           \A n \in Items : doc.kind[n] = "cell" => seen'[n] \subseteq {cache'[n]}
    PROVE  Inv'
<1>1. Items' = Items
  BY DEF Items
<1>2. Typed'
  BY <1>1 DEF Inv, Typed
<1>3. StacksAreGood' /\ StacksHaveRoom'
  BY DEF StacksAreGood, StacksHaveRoom
<1>4. CachesAreHonest' /\ CellsKeepTheirAnswer'
  BY <1>1 DEF CachesAreHonest, CellsKeepTheirAnswer
<1> QED
  BY <1>2, <1>3, <1>4 DEF Inv

(* The evaluation that asks is waiting, and leads to what it asks for.     *)
LEMMA AskerWaits ==
    ASSUME Inv, NEW t \in Threads, NEW n \in Items, Asks(t, n), stack[t] # <<>>
    PROVE  /\ Len(stack[t]) \in Nat \ {0}
           /\ Waiting(doc, stack[t][Len(stack[t])])
           /\ n \in MayUseIn(doc, stack[t][Len(stack[t])].item)
<1>1. stack[t] \in Seq(Activations(doc)) /\ GoodStack(doc, stack[t])
  BY DEF Inv, Typed, StacksAreGood
<1>2. Len(stack[t]) \in Nat \ {0}
  BY <1>1, EmptySeq
<1>3. Sane(doc, Top(t))
  BY <1>1, <1>2 DEF GoodStack, Top
<1> QED
  BY <1>2, <1>3, AskedIsUsed DEF Inv, Top

(* A refusal is the depth error, or a cycle that is really there: what is  *)
(* asked for leads to the evaluation that asks.                            *)
LEMMA RefusalIsHonest ==
    ASSUME Inv, NEW t \in Threads, NEW n \in Items, Asks(t, n),
           Refusal(t, n) # Empty
    PROVE  Refusal(t, n) \in Results /\ Honest(doc, Refusal(t, n))
<1>1. CASE Refusal(t, n) = TooDeep
  BY <1>1, DeepIsAResult DEF TooDeep, Honest
<1>2. CASE Refusal(t, n) = Cycle(n) /\ IsActive(t, n)
  <2>1. stack[t] \in Seq(Activations(doc)) /\ GoodStack(doc, stack[t])
    BY DEF Inv, Typed, StacksAreGood
  <2>2. PICK i \in 1 .. Len(stack[t]) : stack[t][i].item = n
    BY <1>2 DEF IsActive, Inside
  <2>3. stack[t] # <<>>
    BY <2>1, <2>2
  <2> DEFINE m == Len(stack[t])
  <2>4. m \in 1 .. m /\ n \in MayUseIn(doc, stack[t][m].item)
    BY <2>3, AskerWaits
  <2>5. ReachesIn(doc, n, n)
    <3>1. CASE i = m
      BY <2>2, <2>4, <3>1, UseIsReached
    <3>2. CASE i # m
      <4>1. i < m
        BY <2>2, <2>4, <3>2
      <4>2. ReachesIn(doc, n, stack[t][m].item)
        BY <2>1, <2>2, <2>4, <4>1 DEF GoodStack
      <4> QED
        BY <2>4, <4>2, ReachesOneMore
    <3> QED
      BY <3>1, <3>2
  <2>6. Cycle(n) \in Results
    BY CycleIsAResult DEF Inv, Typed, Items, ItemsOf
  <2> QED
    BY <1>2, <2>5, <2>6 DEF Honest, Cycle
<1> QED
  BY <1>1, <1>2 DEF Refusal

LEMMA HitInv ==
    ASSUME Inv, NEW t \in Threads, NEW n \in Items, Hit(t, n)
    PROVE  Inv'
<1>1. Asks(t, n) /\ cache[n] # Empty /\ Deliver(t, n, cache[n], stack[t])
      /\ doc' = doc /\ cache' = cache
  BY DEF Hit
<1>2. cache[n] \in Results /\ Honest(doc, cache[n])
  BY <1>1 DEF Inv, Typed, CachesAreHonest
<1>3. stack[t] \in Seq(Activations(doc)) /\ Len(stack[t]) \in Nat
  BY LenProperties DEF Inv, Typed
<1>4. /\ stack' \in [Threads -> Seq(Activations(doc))]
      /\ \A u \in Threads : GoodStack(doc, stack'[u])
      /\ \A u \in Threads : Cardinality(FramesOf(doc, stack'[u])) <= Room[u]
  BY <1>1, <1>2, <1>3, AskerWaits, DeliverKeepsStacks DEF Inv
<1>5. seen' \in {seen, [seen EXCEPT ![n] = @ \cup {cache[n]}]}
  BY <1>1 DEF Deliver
<1>6. /\ seen' \in [Items -> SUBSET Results]
      /\ \A x \in Items : seen'[x] \subseteq seen[x] \cup {cache[x]}
  BY <1>2, <1>5 DEF Inv, Typed
<1>7. \A x \in Items : doc.kind[x] = "cell" => seen'[x] \subseteq {cache'[x]}
  BY <1>1, <1>6 DEF Inv, CellsKeepTheirAnswer
<1> QED
  BY <1>1, <1>4, <1>6, <1>7, StepInv DEF Inv, Typed, CachesAreHonest

(* What is kept is nothing, the result or what was there; a cell that held *)
(* nothing keeps the result.                                               *)
LEMMA KeepCases ==
    ASSUME NEW n, NEW r
    PROVE  /\ Keep(n, r) \in {Empty, r, cache[n]}
           /\ doc.kind[n] = "cell" =>
                  Keep(n, r) = IF cache[n] = Empty THEN r ELSE cache[n]
  BY DEF Keep

LEMMA RefuseInv ==
    ASSUME Inv, NEW t \in Threads, NEW n \in Items, Refuse(t, n)
    PROVE  Inv'
<1> DEFINE r == Refusal(t, n)
           kept == IF doc.kind[n] \in {"cell", "projection"} THEN Keep(n, r) ELSE cache[n]
<1>1. /\ Asks(t, n) /\ cache[n] = Empty /\ r # Empty
      /\ cache' = [cache EXCEPT ![n] = kept]
      /\ Deliver(t, n, r, stack[t])
      /\ doc' = doc
  BY DEF Refuse
<1>2. r \in Results /\ Honest(doc, r)
  BY <1>1, RefusalIsHonest
<1>3. stack[t] \in Seq(Activations(doc)) /\ Len(stack[t]) \in Nat
  BY LenProperties DEF Inv, Typed
<1>4. /\ stack' \in [Threads -> Seq(Activations(doc))]
      /\ \A u \in Threads : GoodStack(doc, stack'[u])
      /\ \A u \in Threads : Cardinality(FramesOf(doc, stack'[u])) <= Room[u]
  <2>1. stack[t] # <<>> => Waiting(doc, stack[t][Len(stack[t])])
    BY <1>1, AskerWaits
  <2> HIDE DEF r
  <2> QED
    BY <1>1, <1>2, <1>3, <2>1, DeliverKeepsStacks DEF Inv
<1>5. kept \in {Empty, r, cache[n]} /\ (doc.kind[n] = "cell" => kept = r)
  BY <1>1, KeepCases
<1>6. seen' \in {seen, [seen EXCEPT ![n] = @ \cup {r}]}
  BY <1>1 DEF Deliver
<1> HIDE DEF r, kept
<1>7. cache \in [Items -> Results \cup {Empty}] /\ seen \in [Items -> SUBSET Results]
  BY DEF Inv, Typed
<1>8. /\ cache' \in [Items -> Results \cup {Empty}]
      /\ \A x \in Items : cache'[x] = IF x = n THEN kept ELSE cache[x]
  BY <1>1, <1>2, <1>5, <1>7
<1>9. /\ seen' \in [Items -> SUBSET Results]
      /\ \A x \in Items : seen'[x] \subseteq IF x = n THEN seen[n] \cup {r} ELSE seen[x]
  BY <1>2, <1>6, <1>7
<1>10. \A x \in Items : Honest(doc, cache'[x])
  BY <1>2, <1>5, <1>8 DEF Inv, CachesAreHonest, Honest
<1>11. \A x \in Items : doc.kind[x] = "cell" => seen'[x] \subseteq {cache'[x]}
  <2>1. doc.kind[n] = "cell" => seen[n] = {}
    BY <1>1, <1>7, EmptyAssumption DEF Inv, CellsKeepTheirAnswer
  <2> QED
    BY <1>5, <1>8, <1>9, <2>1 DEF Inv, CellsKeepTheirAnswer
<1> QED
  BY <1>1, <1>4, <1>8, <1>9, <1>10, <1>11, StepInv
LEMMA BeginInv ==
    ASSUME Inv, NEW t \in Threads, NEW n \in Items, Begin(t, n)
    PROVE  Inv'
<1> DEFINE s == stack[t]
           m == Len(s)
           new == Append(s, Activation(n))
<1>1. /\ Asks(t, n) /\ Refusal(t, n) = Empty
      /\ stack' = [stack EXCEPT ![t] = new]
      /\ doc' = doc /\ cache' = cache /\ seen' = seen
  BY DEF Begin
<1>2. s \in Seq(Activations(doc)) /\ GoodStack(doc, s) /\ m \in Nat
  BY LenProperties DEF Inv, Typed, StacksAreGood
<1>3. Activation(n) \in Activations(doc) /\ Activation(n).item = n
  BY DEF Activation, Activations, Items, ItemsOf
<1>4. /\ new \in Seq(Activations(doc))
      /\ Len(new) = m + 1
      /\ \A i \in 1 .. m : new[i] = s[i]
      /\ new[m + 1] = Activation(n)
  BY <1>2, <1>3, AppendProperties
<1>5. Sane(doc, Activation(n))
  <2>1. doc.uses[n] \in Seq(Seq(ItemsOf(doc)) \ {<<>>})
    BY DocumentShape DEF Inv, Typed, Items, ItemsOf
  <2>2. Len(doc.uses[n]) \in Nat
    BY <2>1, LenProperties
  <2> QED
    BY <2>2 DEF Sane, Honest, Activation
<1>6. m > 0 => Waiting(doc, s[m]) /\ n \in MayUseIn(doc, s[m].item)
  BY <1>1, <1>2, AskerWaits, EmptySeq
<1> HIDE DEF new
<1>7. GoodStack(doc, new)
  <2>1. ASSUME NEW i \in 1 .. Len(new) PROVE Sane(doc, new[i])
    <3>1. CASE i = m + 1
      BY <1>4, <1>5, <3>1
    <3>2. CASE i # m + 1
      <4>1. i \in 1 .. m
        BY <1>2, <1>4, <3>2
      <4> QED
        BY <1>2, <1>4, <4>1 DEF GoodStack
    <3> QED
      BY <3>1, <3>2
  <2>2. ASSUME NEW i \in 1 .. Len(new) - 1 PROVE Waiting(doc, new[i])
    <3>1. i \in 1 .. m /\ (i # m => i \in 1 .. m - 1)
      BY <1>2, <1>4
    <3> QED
      BY <1>2, <1>4, <1>6, <3>1 DEF GoodStack
  <2>3. ASSUME NEW i \in 1 .. Len(new), NEW j \in 1 .. Len(new), i < j
        PROVE  ReachesIn(doc, new[i].item, new[j].item)
    <3>1. i \in 1 .. m
      BY <1>2, <1>4, <2>3
    <3>2. CASE j # m + 1
      <4>1. j \in 1 .. m
        BY <1>2, <1>4, <3>2
      <4> QED
        BY <1>2, <1>4, <2>3, <3>1, <4>1 DEF GoodStack
    <3>3. CASE j = m + 1 /\ i = m
      <4>1. n \in MayUseIn(doc, s[m].item)
        BY <1>2, <1>6, <3>1, <3>3
      <4>2. ReachesIn(doc, s[m].item, n)
        BY <4>1, UseIsReached
      <4> QED
        BY <1>3, <1>4, <3>1, <3>3, <4>2
    <3>4. CASE j = m + 1 /\ i # m
      <4>1. m \in 1 .. m /\ i < m
        BY <1>2, <3>1, <3>4
      <4>2. ReachesIn(doc, s[i].item, s[m].item)
        BY <1>2, <3>1, <4>1 DEF GoodStack
      <4>3. ReachesIn(doc, s[i].item, n)
        BY <1>6, <4>1, <4>2, ReachesOneMore
      <4> QED
        BY <1>3, <1>4, <3>1, <3>4, <4>3
    <3> QED
      BY <3>2, <3>3, <3>4
  <2> QED
    BY <2>1, <2>2, <2>3 DEF GoodStack
<1>8. Cardinality(FramesOf(doc, new)) <= Room[t]
  <2>1. Cardinality(FramesOf(doc, s)) <= Room[t] /\ Room[t] \in Nat
    BY RoomAssumption DEF Inv, StacksHaveRoom
  <2>2. IsFiniteSet(FramesOf(doc, s)) /\ Cardinality(FramesOf(doc, s)) \in Nat
    BY <1>2, FramesAreFinite
  <2>3. CASE doc.kind[n] = "labels"
    <3>1. FramesOf(doc, new) = FramesOf(doc, s)
      BY <1>2, <1>3, <1>4, <2>3 DEF FramesOf
    <3> QED
      BY <2>1, <3>1
  <2>4. CASE doc.kind[n] # "labels"
    <3>1. FramesOf(doc, new) = FramesOf(doc, s) \cup {m + 1}
      BY <1>2, <1>3, <1>4, <2>4 DEF FramesOf
    <3>2. Cardinality(FramesOf(doc, new)) <= Cardinality(FramesOf(doc, s)) + 1
      <4> DEFINE F == FramesOf(doc, s)
      <4>1. IsFiniteSet(F) /\ Cardinality(F) \in Nat
        BY <2>2
      <4> HIDE DEF F
      <4>2. Cardinality(F \cup {m + 1})
              = IF m + 1 \in F THEN Cardinality(F) ELSE Cardinality(F) + 1
        BY <4>1, FS_AddElement, Zenon
      <4>3. Cardinality(F \cup {m + 1}) <= Cardinality(F) + 1
        BY <4>1, <4>2
      <4> QED
        BY <3>1, <4>3 DEF F
    <3>3. ~(Cardinality(FramesOf(doc, s)) >= Room[t])
      BY <1>1, <2>4, DeepIsAResult, CycleIsAResult, DepthCountsFrames
      DEF Refusal, IsFull, Inv, Typed, Items, ItemsOf
    <3>4. Cardinality(FramesOf(doc, new)) \in Nat
      BY <1>2, <1>4, FramesAreFinite
    <3> QED
      BY <2>1, <2>2, <3>2, <3>3, <3>4
  <2> QED
    BY <2>3, <2>4
<1>9. /\ stack' \in [Threads -> Seq(Activations(doc))]
      /\ \A u \in Threads : stack'[u] = IF u = t THEN new ELSE stack[u]
  BY <1>1, <1>4 DEF Inv, Typed
<1>10. /\ \A u \in Threads : GoodStack(doc, stack'[u])
       /\ \A u \in Threads : Cardinality(FramesOf(doc, stack'[u])) <= Room[u]
  BY <1>7, <1>8, <1>9 DEF Inv, StacksAreGood, StacksHaveRoom
<1> QED
  BY <1>1, <1>9, <1>10, StepInv DEF Inv, Typed, CachesAreHonest, CellsKeepTheirAnswer

LEMMA FinishInv ==
    ASSUME Inv, NEW t \in Threads, Finish(t)
    PROVE  Inv'
<1> DEFINE s == stack[t]
           m == Len(s)
           n == Top(t).item
           r == IF Top(t).failure = Empty THEN Ok(Top(t).sum) ELSE Top(t).failure
           answer == Answer(n, r)
           kept == Keep(n, r)
<1>1. /\ s # <<>>
      /\ cache' = [cache EXCEPT ![n] = kept]
      /\ Deliver(t, n, answer, Below(t))
      /\ doc' = doc
  BY DEF Finish
<1>2. s \in Seq(Activations(doc)) /\ GoodStack(doc, s) /\ m \in Nat \ {0}
  BY <1>1, EmptySeq DEF Inv, Typed, StacksAreGood
<1>3. Top(t) \in Activations(doc) /\ Sane(doc, Top(t))
  BY <1>2, ElementOfSeq DEF Top, GoodStack
<1>4. n \in Items
  BY <1>3 DEF Activations, Items, ItemsOf
<1>5. r \in Results /\ r # Empty /\ Honest(doc, r)
  <2>1. CASE Top(t).failure = Empty
    BY <1>3, <2>1, ValueIsAResult DEF Activations, Honest, Ok
  <2>2. CASE Top(t).failure # Empty
    BY <1>3, <2>2 DEF Activations, Sane
  <2> QED
    BY <2>1, <2>2
<1>6. cache[n] \in Results \cup {Empty} /\ Honest(doc, cache[n])
  BY <1>4 DEF Inv, Typed, CachesAreHonest
<1> HIDE DEF r
<1>7. /\ kept \in {Empty, r, cache[n]}
      /\ doc.kind[n] = "cell" => kept = IF cache[n] = Empty THEN r ELSE cache[n]
  BY KeepCases
<1>8. /\ answer \in Results /\ Honest(doc, answer)
      /\ doc.kind[n] = "cell" => answer = kept
  BY <1>5, <1>6, <1>7 DEF Answer
<1> HIDE DEF answer, kept
<1>9. /\ Below(t) \in Seq(Activations(doc))
      /\ Len(Below(t)) = m - 1
      /\ \A i \in 1 .. m - 1 : Below(t)[i] = s[i]
  BY <1>1, BelowTheTop DEF Inv
<1>10. Below(t) # <<>> => Waiting(doc, Below(t)[Len(Below(t))])
  <2>1. Below(t) # <<>> => m - 1 \in 1 .. m - 1
    BY <1>2, <1>9, EmptySeq
  <2> QED
    BY <1>2, <1>9, <2>1 DEF GoodStack
<1>11. /\ stack' \in [Threads -> Seq(Activations(doc))]
       /\ \A u \in Threads : GoodStack(doc, stack'[u])
       /\ \A u \in Threads : Cardinality(FramesOf(doc, stack'[u])) <= Room[u]
  BY <1>1, <1>2, <1>8, <1>9, <1>10, DeliverKeepsStacks DEF Inv
<1>12. cache \in [Items -> Results \cup {Empty}] /\ seen \in [Items -> SUBSET Results]
  BY DEF Inv, Typed
<1>13. /\ cache' \in [Items -> Results \cup {Empty}]
       /\ \A x \in Items : cache'[x] = IF x = n THEN kept ELSE cache[x]
  BY <1>1, <1>4, <1>5, <1>6, <1>7, <1>12
<1>14. seen' \in {seen, [seen EXCEPT ![n] = @ \cup {answer}]}
  BY <1>1 DEF Deliver
<1> HIDE DEF n
<1>15. /\ seen' \in [Items -> SUBSET Results]
       /\ \A x \in Items :
              seen'[x] \subseteq IF x = n THEN seen[n] \cup {answer} ELSE seen[x]
  BY <1>4, <1>8, <1>12, <1>14
<1>16. \A x \in Items : Honest(doc, cache'[x])
  BY <1>5, <1>6, <1>7, <1>13 DEF Inv, CachesAreHonest, Honest
<1>17. \A x \in Items : doc.kind[x] = "cell" => seen'[x] \subseteq {cache'[x]}
  <2>1. doc.kind[n] = "cell" => seen[n] \subseteq {kept}
    BY <1>4, <1>7, <1>12, EmptyAssumption DEF Inv, CellsKeepTheirAnswer
  <2> QED
    BY <1>8, <1>13, <1>15, <2>1 DEF Inv, CellsKeepTheirAnswer
<1> QED
  BY <1>1, <1>11, <1>13, <1>15, <1>16, <1>17, StepInv

LEMMA NextInv == Inv /\ [Next]_vars => Inv'
<1> SUFFICES ASSUME Inv, [Next]_vars PROVE Inv'
  OBVIOUS
<1>1. CASE UNCHANGED vars
  BY <1>1, StepInv DEF vars, Inv, Typed, StacksAreGood, StacksHaveRoom,
                       CachesAreHonest, CellsKeepTheirAnswer
<1>2. CASE Next
  BY <1>2, HitInv, RefuseInv, BeginInv, FinishInv DEF Next, Evaluate
<1> QED
  BY <1>1, <1>2

LEMMA AlwaysInv == Spec => []Inv
<1> QED
  BY InitInv, NextInv, PTL DEF Spec

-----------------------------------------------------------------------------
(* Every reachable state has the shape TypeOK gives it; above all, no      *)
(* thread holds more frames than it has room for, whatever the document    *)
(* and whoever else evaluates it.                                          *)
THEOREM TypeCorrect == Spec => []TypeOK
<1>1. Inv => TypeOK
  <2> SUFFICES ASSUME Inv PROVE TypeOK
    OBVIOUS
  <2>1. doc \in Documents /\ DOMAIN cache = Items
    BY DEF Inv, Typed
  <2>2. ASSUME NEW n \in Items
        PROVE  cache[n] = Empty \/ cache[n].tag \in {"ok", "cycle", "deep"}
    <3>1. cache[n] \in Results \cup {Empty}
      BY DEF Inv, Typed
    <3>2. \A r \in Results : r.tag \in {"ok", "cycle", "deep"}
      BY DEF Results, TooDeep
    <3> QED
      BY <3>1, <3>2
  <2>3. ASSUME NEW t \in Threads, NEW i \in 1 .. Len(stack[t])
        PROVE  stack[t][i].item \in Items
    <3>1. stack[t][i] \in Activations(doc)
      BY ElementOfSeq DEF Inv, Typed
    <3> QED
      BY <3>1 DEF Activations, Items, ItemsOf
  <2>4. \A t \in Threads : Depth(t) <= Room[t]
    BY DepthCountsFrames DEF Inv, StacksHaveRoom
  <2> QED
    BY <2>1, <2>2, <2>3, <2>4 DEF TypeOK
<1> QED
  BY <1>1, AlwaysInv, PTL

(* All finished reads of a field or a `let' report the same result: a cell *)
(* that answered holds what it answered, and never gives it up.            *)
THEOREM ReadsAlwaysAgree == Spec => []ReadsAgree
<1>1. Inv => ReadsAgree
  BY DEF Inv, CellsKeepTheirAnswer, ReadsAgree
<1> QED
  BY <1>1, AlwaysInv, PTL

(* A cycle error that a cache keeps names an item whose expression really  *)
(* leads back to it: every evaluation of a stack leads to those above it,  *)
(* and a frame is only refused on the stack that holds it.                 *)
THEOREM CyclesAreAlwaysReal == Spec => []CyclesAreReal
<1>1. Inv => CyclesAreReal
  BY SameReach DEF Inv, CachesAreHonest, Honest, CyclesAreReal
<1> QED
  BY <1>1, AlwaysInv, PTL

-----------------------------------------------------------------------------
(* Projections heal: what else the stacks, the caches and the reads hold.  *)

(* A projection is only caught in a cycle above the index that waits for a *)
(* label: an index passes over what fails.                                 *)
HealingStack(d, s) ==
    \A i \in 1 .. Len(s) :
        /\ d.kind[s[i].item] = "index" => s[i].failure = Empty
        /\ d.kind[s[i].item] = "projection" /\ s[i].failure # Empty =>
               s[i].failure.tag # "cycle" \/ i > 1
        /\ d.kind[s[i].item] = "projection" /\ i < Len(s) =>
               d.kind[s[i + 1].item] = "index"

\* An index and a projection only keep what succeeded.
HealingCaches(d, c) ==
    \A n \in ItemsOf(d) :
        d.kind[n] \in {"index", "projection"} => c[n] = Empty \/ c[n].tag = "ok"

Healed(d, reads) ==
    \A n \in ItemsOf(d) : d.kind[n] = "projection" => \A r \in reads[n] : r.tag # "cycle"

HealingInv ==
    /\ \A t \in Threads : HealingStack(doc, stack[t])
    /\ HealingCaches(doc, cache)
    /\ Healed(doc, seen)

LEMMA InitHeals == Init => HealingInv
  BY DEF Init, HealingInv, HealingStack, HealingCaches, Healed, Items, ItemsOf

(* What a projection asks for is an index.                                 *)
LEMMA ProjectionAsksIndex ==
    ASSUME Inv, NEW t \in Threads, NEW n \in Items, Asks(t, n), stack[t] # <<>>,
           doc.kind[stack[t][Len(stack[t])].item] = "projection"
    PROVE  doc.kind[n] = "index"
<1> DEFINE x == stack[t][Len(stack[t])].item
<1>1. n \in MayUseIn(doc, x) /\ Len(stack[t]) \in Nat \ {0}
  BY AskerWaits
<1>2. stack[t][Len(stack[t])] \in Activations(doc)
  BY <1>1, ElementOfSeq DEF Inv, Typed
<1>3. x \in ItemsOf(doc) /\ doc \in Documents
  BY <1>2 DEF Activations, Inv, Typed
<1>4. PICK k \in 1 .. Len(doc.uses[x]) :
          \E i \in 1 .. Len(doc.uses[x][k]) : n = doc.uses[x][k][i]
  BY <1>1 DEF MayUseIn
<1>5. PICK i \in 1 .. Len(doc.uses[x][k]) : n = doc.uses[x][k][i]
  BY <1>4
<1>6. ProjectionAssumption(doc)
  BY <1>3, ProjectionsAssumption
<1> QED
  BY <1>3, <1>5, <1>6 DEF ProjectionAssumption, ItemsOf

LEMMA ReceiveIsAnActivation ==
    ASSUME NEW a \in Activations(doc), NEW r \in Results
    PROVE  Receive(a, r) \in Activations(doc)
<1>1. CASE r.tag = "ok"
  <2>1. r.of \in Nat
    BY <1>1 DEF Results, TooDeep
  <2>2. Receive(a, r) = [a EXCEPT !.done = @ + 1, !.sum = @ + r.of]
    BY <1>1 DEF Receive
  <2>3. a.item \in ItemsOf(doc) /\ a.done \in Nat /\ a.sum \in Nat
        /\ a.failure \in Results \cup {Empty}
    BY DEF Activations
  <2>4. Receive(a, r) = [item |-> a.item, done |-> a.done + 1,
                         sum |-> a.sum + r.of, failure |-> a.failure]
    BY <2>2 DEF Activations
  <2>5. a.done + 1 \in Nat /\ a.sum + r.of \in Nat
    BY <2>1, <2>3
  <2> QED
    BY <2>3, <2>4, <2>5 DEF Activations
<1>2. CASE r.tag # "ok"
  BY <1>2 DEF Receive, Activations
<1> QED
  BY <1>1, <1>2

(* A result handed down leaves the stacks and the reads healed, if a       *)
(* projection only gets a cycle from above something else.                 *)
LEMMA DeliverHeals ==
    ASSUME Inv, HealingInv, NEW t \in Threads, NEW n \in Items, NEW r \in Results,
           NEW rest \in Seq(Activations(doc)), Deliver(t, n, r, rest),
           Len(rest) <= Len(stack[t]),
           \A i \in 1 .. Len(rest) : rest[i] = stack[t][i],
           rest # <<>> /\ doc.kind[rest[Len(rest)].item] = "projection" =>
               r.tag # "cycle" \/ Len(rest) > 1,
           rest = <<>> /\ doc.kind[n] = "projection" => r.tag # "cycle"
    PROVE  (\A u \in Threads : HealingStack(doc, stack'[u])) /\ Healed(doc, seen')
<1> DEFINE s == stack[t]
           k == Len(rest)
           new == IF rest = <<>> THEN <<>> ELSE [rest EXCEPT ![k] = Receive(@, r)]
<1>1. stack' = [stack EXCEPT ![t] = new] /\ stack \in [Threads -> Seq(Activations(doc))]
  BY DEF Deliver, Inv, Typed
<1>2. s \in Seq(Activations(doc)) /\ HealingStack(doc, s)
  BY <1>1 DEF HealingInv
<1>3. k \in Nat /\ Len(s) \in Nat /\ 1 .. k \subseteq 1 .. Len(s)
  BY <1>2, LenProperties
<1>4. HealingStack(doc, new)
  <2>1. CASE rest = <<>>
    BY <2>1 DEF HealingStack
  <2>2. CASE rest # <<>>
    <3> DEFINE a == rest[k]
               b == Receive(a, r)
    <3>1. k \in 1 .. k /\ a = s[k] /\ a \in Activations(doc)
      BY <1>3, <2>2, EmptySeq, ElementOfSeq
    <3>2. /\ b.item = a.item
          /\ b.failure = IF r.tag # "ok" /\ doc.kind[a.item] # "index" THEN r ELSE a.failure
      BY <3>1 DEF Receive, Activations
    <3>3. new = [rest EXCEPT ![k] = b]
      BY <2>2, <3>1
    <3>4. DOMAIN rest = 1 .. k
      BY LenProperties
    <3>5. DOMAIN new = 1 .. k /\ \A i \in 1 .. k : new[i] = IF i = k THEN b ELSE rest[i]
      BY <3>3, <3>4
    <3>6. Len(new) = k
      <4>1. b \in Activations(doc)
        BY <3>1, ReceiveIsAnActivation
      <4> QED
        BY <3>1, <3>3, <4>1, ExceptSeq
    <3> HIDE DEF new, a, b
    <3>7. ASSUME NEW i \in 1 .. k
          PROVE  /\ doc.kind[new[i].item] = "index" => new[i].failure = Empty
                 /\ doc.kind[new[i].item] = "projection" /\ new[i].failure # Empty =>
                        new[i].failure.tag # "cycle" \/ i > 1
                 /\ doc.kind[new[i].item] = "projection" /\ i < k =>
                        doc.kind[new[i + 1].item] = "index"
      <4>1. i \in 1 .. Len(s) /\ rest[i] = s[i]
        BY <1>3
      <4>2. CASE i = k
        <5>1. /\ doc.kind[a.item] = "index" => a.failure = Empty
              /\ doc.kind[a.item] = "projection" /\ a.failure # Empty =>
                    a.failure.tag # "cycle" \/ k > 1
          BY <1>2, <3>1, <4>1, <4>2 DEF HealingStack
        <5> QED
          BY <1>3, <2>2, <3>2, <3>5, <4>2, <5>1 DEF a
      <4>3. CASE i # k
        <5>1. i < k /\ i + 1 \in 1 .. k /\ i < Len(s) /\ rest[i + 1] = s[i + 1] /\ new[i] = s[i]
          BY <1>3, <3>5, <4>1, <4>3
        <5>2. new[i + 1].item = s[i + 1].item
          BY <3>1, <3>2, <3>5, <5>1 DEF a
        <5> QED
          BY <1>2, <4>1, <5>1, <5>2 DEF HealingStack
      <4> QED
        BY <4>2, <4>3
    <3> QED
      BY <3>6, <3>7 DEF HealingStack
  <2> QED
    BY <2>1, <2>2
<1>5. \A u \in Threads : HealingStack(doc, stack'[u])
  <2> HIDE DEF new
  <2> QED
    BY <1>1, <1>4 DEF HealingInv
<1>6. Healed(doc, seen')
  <2>1. seen \in [Items -> SUBSET Results]
    BY DEF Inv, Typed
  <2>2. CASE rest = <<>>
    <3>1. seen' = [seen EXCEPT ![n] = @ \cup {r}]
      BY <2>2 DEF Deliver
    <3> QED
      BY <2>1, <2>2, <3>1 DEF HealingInv, Healed, Items, ItemsOf
  <2>3. CASE rest # <<>>
    BY <2>3 DEF Deliver, HealingInv
  <2> QED
    BY <2>2, <2>3
<1> QED
  BY <1>5, <1>6

LEMMA HitHeals ==
    ASSUME Inv, HealingInv, NEW t \in Threads, NEW n \in Items, Hit(t, n)
    PROVE  HealingInv'
<1>1. /\ Asks(t, n) /\ cache[n] # Empty /\ Deliver(t, n, cache[n], stack[t])
      /\ doc' = doc /\ cache' = cache
  BY DEF Hit
<1>2. cache[n] \in Results
  BY <1>1 DEF Inv, Typed
<1>3. doc.kind[n] \in {"index", "projection"} => cache[n].tag = "ok"
  BY <1>1 DEF HealingInv, HealingCaches, Items, ItemsOf
<1>4. stack[t] \in Seq(Activations(doc)) /\ Len(stack[t]) \in Nat
  BY LenProperties DEF Inv, Typed
<1>5. stack[t] # <<>> /\ doc.kind[stack[t][Len(stack[t])].item] = "projection" =>
          cache[n].tag # "cycle"
  BY <1>1, <1>3, ProjectionAsksIndex
<1>6. Len(stack[t]) <= Len(stack[t])
  BY <1>4
<1>7. (\A u \in Threads : HealingStack(doc, stack'[u])) /\ Healed(doc, seen')
  BY <1>1, <1>2, <1>3, <1>4, <1>5, <1>6, DeliverHeals
<1> QED
  BY <1>1, <1>7 DEF HealingInv

LEMMA RefuseHeals ==
    ASSUME Inv, HealingInv, NEW t \in Threads, NEW n \in Items, Refuse(t, n)
    PROVE  HealingInv'
<1> DEFINE r == Refusal(t, n)
           kept == IF doc.kind[n] \in {"cell", "projection"} THEN Keep(n, r) ELSE cache[n]
<1>1. /\ Asks(t, n) /\ cache[n] = Empty /\ r # Empty
      /\ cache' = [cache EXCEPT ![n] = kept]
      /\ Deliver(t, n, r, stack[t])
      /\ doc' = doc
  BY DEF Refuse
<1>2. r \in Results
  BY <1>1, RefusalIsHonest
<1>3. r.tag = "cycle" => Inside(t, n)
  BY <1>1 DEF Refusal, TooDeep, IsActive
<1>4. doc.kind[n] \in {"index", "projection"} => kept = Empty
  <2>1. r.tag # "ok"
    BY <1>1 DEF Refusal, TooDeep, Cycle
  <2> QED
    BY <1>1, <2>1 DEF Keep
<1> HIDE DEF r, kept
<1>5. stack[t] \in Seq(Activations(doc)) /\ Len(stack[t]) \in Nat
  BY LenProperties DEF Inv, Typed
<1>6. stack[t] # <<>> /\ doc.kind[stack[t][Len(stack[t])].item] = "projection" =>
          r.tag # "cycle" \/ Len(stack[t]) > 1
  <2> SUFFICES ASSUME stack[t] # <<>>,
                      doc.kind[stack[t][Len(stack[t])].item] = "projection",
                      r.tag = "cycle"
               PROVE  Len(stack[t]) > 1
    OBVIOUS
  <2>1. doc.kind[n] = "index"
    BY <1>1, ProjectionAsksIndex
  <2>2. PICK i \in 1 .. Len(stack[t]) : stack[t][i].item = n
    BY <1>3 DEF Inside
  <2>3. i # Len(stack[t])
    BY <2>1, <2>2
  <2> QED
    BY <1>5, <2>2, <2>3
<1>7. stack[t] = <<>> => r.tag # "cycle"
  BY <1>3 DEF Inside
<1>8. Len(stack[t]) <= Len(stack[t])
  BY <1>5
<1>9. (\A u \in Threads : HealingStack(doc, stack'[u])) /\ Healed(doc, seen')
  <2>1. Deliver(t, n, r, stack[t])
    BY <1>1
  <2> QED
    BY <1>2, <1>5, <1>6, <1>7, <1>8, <2>1, DeliverHeals
<1>10. HealingCaches(doc, cache')
  <2>1. cache \in [Items -> Results \cup {Empty}]
    BY DEF Inv, Typed
  <2> QED
    BY <1>1, <1>4, <2>1 DEF HealingInv, HealingCaches, Items, ItemsOf
<1> QED
  BY <1>1, <1>9, <1>10 DEF HealingInv

LEMMA BeginHeals ==
    ASSUME Inv, HealingInv, NEW t \in Threads, NEW n \in Items, Begin(t, n)
    PROVE  HealingInv'
<1> DEFINE s == stack[t]
           m == Len(s)
           new == Append(s, Activation(n))
<1>1. /\ Asks(t, n)
      /\ stack' = [stack EXCEPT ![t] = new]
      /\ doc' = doc /\ cache' = cache /\ seen' = seen
  BY DEF Begin
<1>2. s \in Seq(Activations(doc)) /\ m \in Nat /\ HealingStack(doc, s)
  BY LenProperties DEF Inv, Typed, HealingInv
<1>3. Activation(n) \in Activations(doc)
  BY DEF Activation, Activations, Items, ItemsOf
<1>4. /\ Len(new) = m + 1
      /\ \A i \in 1 .. m : new[i] = s[i]
      /\ new[m + 1] = Activation(n)
  BY <1>2, <1>3, AppendProperties
<1>5. m > 0 /\ doc.kind[s[m].item] = "projection" => doc.kind[n] = "index"
  BY <1>1, <1>2, ProjectionAsksIndex, EmptySeq
<1> HIDE DEF new
<1>6. ASSUME NEW i \in 1 .. m + 1
      PROVE  /\ doc.kind[new[i].item] = "index" => new[i].failure = Empty
             /\ doc.kind[new[i].item] = "projection" /\ new[i].failure # Empty =>
                    new[i].failure.tag # "cycle" \/ i > 1
             /\ doc.kind[new[i].item] = "projection" /\ i < m + 1 =>
                    doc.kind[new[i + 1].item] = "index"
  <2>1. CASE i = m + 1
    BY <1>2, <1>4, <2>1 DEF Activation
  <2>2. CASE i = m
    BY <1>2, <1>4, <1>5, <2>2 DEF HealingStack, Activation
  <2>3. CASE i < m
    <3>1. i \in 1 .. m /\ i + 1 \in 1 .. m
      BY <1>2, <2>3
    <3> QED
      BY <1>2, <1>4, <2>3, <3>1 DEF HealingStack
  <2> QED
    BY <1>2, <2>1, <2>2, <2>3
<1>7. HealingStack(doc, new)
  BY <1>4, <1>6 DEF HealingStack
<1>8. \A u \in Threads : stack'[u] = IF u = t THEN new ELSE stack[u]
  BY <1>1 DEF Inv, Typed
<1> QED
  BY <1>1, <1>7, <1>8 DEF HealingInv

LEMMA FinishHeals ==
    ASSUME Inv, HealingInv, NEW t \in Threads, Finish(t)
    PROVE  HealingInv'
<1> DEFINE s == stack[t]
           m == Len(s)
           a == s[m]
           n == a.item
           r == IF a.failure = Empty THEN Ok(a.sum) ELSE a.failure
           answer == Answer(n, r)
           kept == Keep(n, r)
           rest == Below(t)
<1>1. /\ s # <<>>
      /\ cache' = [cache EXCEPT ![n] = kept]
      /\ Deliver(t, n, answer, rest)
      /\ doc' = doc
  BY DEF Finish, Top
<1>2. s \in Seq(Activations(doc)) /\ HealingStack(doc, s) /\ m \in Nat \ {0}
  BY <1>1, EmptySeq DEF Inv, Typed, HealingInv
<1>3. m \in 1 .. m /\ a \in Activations(doc)
  BY <1>2, ElementOfSeq
<1>4. n \in Items /\ n \in ItemsOf(doc)
  BY <1>3 DEF Activations, Items, ItemsOf
<1>5. r \in Results /\ r # Empty
  <2>1. CASE a.failure = Empty
    BY <1>3, <2>1, ValueIsAResult DEF Activations
  <2>2. CASE a.failure # Empty
    BY <1>3, <2>2 DEF Activations
  <2> QED
    BY <2>1, <2>2
<1>6. cache \in [Items -> Results \cup {Empty}] /\ cache[n] \in Results \cup {Empty}
  BY <1>4 DEF Inv, Typed
<1>7. doc.kind[n] = "index" => r.tag = "ok"
  BY <1>2, <1>3 DEF HealingStack, Ok
<1>8. doc.kind[n] = "projection" /\ m = 1 => r.tag # "cycle"
  BY <1>2, <1>3 DEF HealingStack, Ok
<1> HIDE DEF r
<1>9. doc.kind[n] \in {"index", "projection"} => kept = Empty \/ kept.tag = "ok"
  BY <1>4, <1>7 DEF Keep, HealingInv, HealingCaches
<1>10. answer \in Results /\ (doc.kind[n] # "cell" => answer = r)
  BY <1>5, <1>6 DEF Answer, Keep
<1> HIDE DEF answer, kept
<1>11. /\ rest \in Seq(Activations(doc))
       /\ Len(rest) = m - 1
       /\ \A i \in 1 .. m - 1 : rest[i] = s[i]
  BY <1>1, BelowTheTop DEF Inv
<1> HIDE DEF rest
<1>12. rest # <<>> /\ doc.kind[rest[Len(rest)].item] = "projection" => answer.tag # "cycle"
  <2> SUFFICES ASSUME rest # <<>>, doc.kind[rest[Len(rest)].item] = "projection"
               PROVE  answer.tag # "cycle"
    OBVIOUS
  <2>1. PICK k \in 1 .. m - 1 : k = m - 1 /\ k \in 1 .. m /\ k < m /\ k + 1 = m
    BY <1>2, <1>11, EmptySeq
  <2>2. rest[Len(rest)] = s[k]
    BY <1>11, <2>1
  <2>3. doc.kind[n] = "index"
    BY <1>2, <2>1, <2>2 DEF HealingStack
  <2> QED
    BY <1>7, <1>10, <2>3
<1>13. rest = <<>> /\ doc.kind[n] = "projection" => answer.tag # "cycle"
  <2>1. rest = <<>> => m = 1
    BY <1>2, <1>11
  <2> QED
    BY <1>8, <1>10, <2>1
<1>14. Len(rest) <= Len(stack[t]) /\ \A i \in 1 .. Len(rest) : rest[i] = stack[t][i]
  BY <1>2, <1>11
<1> HIDE DEF n
<1>15. (\A u \in Threads : HealingStack(doc, stack'[u])) /\ Healed(doc, seen')
  BY <1>1, <1>4, <1>10, <1>11, <1>12, <1>13, <1>14, DeliverHeals
<1>16. HealingCaches(doc, cache')
  BY <1>1, <1>4, <1>6, <1>9 DEF HealingInv, HealingCaches, Items, ItemsOf
<1> QED
  BY <1>1, <1>15, <1>16 DEF HealingInv

LEMMA NextHeals == Inv /\ HealingInv /\ [Next]_vars => HealingInv'
<1> SUFFICES ASSUME Inv, HealingInv, [Next]_vars PROVE HealingInv'
  OBVIOUS
<1>1. CASE UNCHANGED vars
  BY <1>1 DEF vars, HealingInv
<1>2. CASE Next
  BY <1>2, HitHeals, RefuseHeals, BeginHeals, FinishHeals DEF Next, Evaluate
<1> QED
  BY <1>1, <1>2

(* A projection that fails because it was re-entered only fails there:     *)
(* whoever reads it from outside, on whatever thread, and whatever was     *)
(* read before, is never told of a cycle.                                  *)
THEOREM ProjectionsAlwaysHeal == Spec => []ProjectionsHeal
<1>1. HealingInv => ProjectionsHeal
  BY DEF HealingInv, Healed, ProjectionsHeal, Items, ItemsOf
<1>2. Spec => [](Inv /\ HealingInv)
  BY InitInv, NextInv, InitHeals, NextHeals, PTL DEF Spec
<1> QED
  BY <1>1, <1>2, PTL

-----------------------------------------------------------------------------
(* Values are exact: what the expressions of a document mean.              *)

BindingIn(d, n, k) ==
    LET others == {i \in 1 .. Len(d.uses[n][k]) :
                      d.uses[n][k][i] # n \/ d.kind[n] # "cell"}
    IN  IF others = {} THEN n
        ELSE d.uses[n][k][CHOOSE i \in others : \A j \in others : i <= j]

UsesIn(d, n) == {BindingIn(d, n, k) : k \in 1 .. Len(d.uses[n])}

AcyclicIn(d) ==
    ~ \E S \in (SUBSET ItemsOf(d)) \ {{}} : \A n \in S : UsesIn(d, n) \cap S # {}

SumsIn(d, m, n) ==
    LET s[k \in 0 .. Len(d.uses[n])] ==
            IF k = 0 THEN 1 ELSE s[k - 1] + m[BindingIn(d, n, k)]
    IN  s

MeaningIn(d) ==
    LET m[n \in ItemsOf(d)] == SumsIn(d, m, n)[Len(d.uses[n])]
    IN  m

ReadsIndexIn(d, n) ==
    \E b \in ItemsOf(d) : d.kind[b] = "index" /\ (b = n \/ ReachesIn(d, n, b))

(* They are what LazyEval says of the open document.                       *)
LEMMA SameBinding == \A n, k : Binding(n, k) = BindingIn(doc, n, k)
  BY DEF Binding, BindingIn

LEMMA SameCycles == IsCyclic <=> ~AcyclicIn(doc)
  BY SameBinding DEF IsCyclic, AcyclicIn, Uses, UsesIn, Items, ItemsOf

LEMMA SameIndexes == \A n : ReadsIndex(n) <=> ReadsIndexIn(doc, n)
  BY SameReach DEF ReadsIndex, ReadsIndexIn, Items, ItemsOf

LEMMA SameMeaning == Meaning = MeaningIn(doc)
  BY DEF Meaning, MeaningIn, Sums, SumsIn, Binding, BindingIn, Items, ItemsOf

-----------------------------------------------------------------------------
(* The sums of an expression, name by name, are what their equation says.  *)
LEMMA SumsEquation ==
    ASSUME NEW d, NEW m, NEW n, Len(d.uses[n]) \in Nat
    PROVE  SumsIn(d, m, n) =
               [k \in 0 .. Len(d.uses[n]) |->
                   IF k = 0 THEN 1
                   ELSE SumsIn(d, m, n)[k - 1] + m[BindingIn(d, n, k)]]
<1> DEFINE b(k) == m[BindingIn(d, n, k)]
           L == Len(d.uses[n])
           Solves(f, l) == f = [k \in 0 .. l |-> IF k = 0 THEN 1 ELSE f[k - 1] + b(k)]
           failing == {l \in 0 .. L : ~ \E f : Solves(f, l)}
<1> HIDE DEF b
<1>1. failing = {}
  <2> SUFFICES ASSUME failing # {} PROVE FALSE
    OBVIOUS
  <2>1. failing \subseteq Nat
    OBVIOUS
  <2>2. PICK l \in failing : \A j \in failing : l <= j
    <3> HIDE DEF failing
    <3> QED
      BY <2>1, FirstPosition
  <2>3. CASE l = 0
    <3> DEFINE f == [k \in 0 .. 0 |-> 1]
    <3>1. Solves(f, 0)
      OBVIOUS
    <3> HIDE DEF f
    <3> QED
      BY <2>2, <2>3, <3>1
  <2>4. CASE l # 0
    <3>1. l \in Nat /\ l - 1 \in 0 .. L /\ ~(l <= l - 1)
      BY <2>2, <2>4
    <3>2. \E f : Solves(f, l - 1)
      <4>1. l - 1 \notin failing
        BY <2>2, <3>1
      <4> QED
        BY <3>1, <4>1
    <3>3. PICK f : Solves(f, l - 1)
      BY <3>2
    <3> DEFINE g == [k \in 0 .. l |-> IF k = l THEN f[l - 1] + b(l) ELSE f[k]]
    <3>4. ASSUME NEW k \in 0 .. l
          PROVE  g[k] = IF k = 0 THEN 1 ELSE g[k - 1] + b(k)
      <4>1. CASE k = 0
        <5>1. g[k] = f[k] /\ 0 \in 0 .. l - 1
          BY <2>4, <3>1, <4>1
        <5> QED
          BY <3>3, <4>1, <5>1
      <4>2. CASE k # 0 /\ k = l
        <5>1. g[k] = f[l - 1] + b(l) /\ g[k - 1] = f[k - 1]
          BY <3>1, <4>2
        <5> QED
          BY <4>2, <5>1
      <4>3. CASE k # 0 /\ k # l
        <5>1. g[k] = f[k] /\ g[k - 1] = f[k - 1] /\ k \in 0 .. l - 1
          BY <3>1, <4>3
        <5>2. f[k] = f[k - 1] + b(k)
          BY <3>3, <4>3, <5>1
        <5> QED
          BY <4>3, <5>1, <5>2
      <4> QED
        BY <4>1, <4>2, <4>3
    <3>5. g = [k \in 0 .. l |-> g[k]]
      OBVIOUS
    <3> HIDE DEF g
    <3>6. Solves(g, l)
      BY <3>4, <3>5
    <3> QED
      BY <2>2, <3>6
  <2> QED
    BY <2>3, <2>4
<1>2. PICK sums : Solves(sums, L)
  BY <1>1
<1>3. SumsIn(d, m, n) = CHOOSE f : Solves(f, L)
  BY DEF SumsIn, b
<1> HIDE DEF Solves, L
<1>4. Solves(SumsIn(d, m, n), L)
  BY <1>2, <1>3
<1> QED
  BY <1>4 DEF Solves, L, b

(* The same, one name at a time.                                           *)
LEMMA SumsStep ==
    ASSUME NEW d, NEW m, NEW n, Len(d.uses[n]) \in Nat
    PROVE  /\ SumsIn(d, m, n)[0] = 1
           /\ \A k \in 0 .. Len(d.uses[n]) - 1 :
                  SumsIn(d, m, n)[k + 1] = SumsIn(d, m, n)[k] + m[BindingIn(d, n, k + 1)]
<1> DEFINE f == SumsIn(d, m, n)
           L == Len(d.uses[n])
<1>1. f = [k \in 0 .. L |-> IF k = 0 THEN 1 ELSE f[k - 1] + m[BindingIn(d, n, k)]]
  BY SumsEquation
<1>2. L \in Nat
  OBVIOUS
<1> HIDE DEF f, L
<1>3. f[0] = 1
  BY <1>1, <1>2
<1>4. ASSUME NEW k \in 0 .. L - 1 PROVE f[k + 1] = f[k] + m[BindingIn(d, n, k + 1)]
  <2>1. PICK j \in 0 .. L : j = k + 1 /\ j # 0 /\ j - 1 = k
    BY <1>2
  <2>2. f[j] = f[j - 1] + m[BindingIn(d, n, j)]
    BY <1>1, <2>1
  <2> QED
    BY <2>1, <2>2
<1> QED
  BY <1>3, <1>4 DEF f, L

(* Only the values of what n uses matter to its sums.                      *)
LEMMA SumsAgree ==
    ASSUME NEW d, NEW m, NEW w, NEW n, Len(d.uses[n]) \in Nat,
           \A x \in UsesIn(d, n) : m[x] = w[x]
    PROVE  SumsIn(d, m, n) = SumsIn(d, w, n)
<1> DEFINE L == Len(d.uses[n])
           f == SumsIn(d, m, n)
           g == SumsIn(d, w, n)
           apart == {k \in 0 .. L : f[k] # g[k]}
<1>1. /\ f = [k \in 0 .. L |-> IF k = 0 THEN 1 ELSE f[k - 1] + m[BindingIn(d, n, k)]]
      /\ g = [k \in 0 .. L |-> IF k = 0 THEN 1 ELSE g[k - 1] + w[BindingIn(d, n, k)]]
  BY SumsEquation
<1>2. \A k \in 1 .. L : m[BindingIn(d, n, k)] = w[BindingIn(d, n, k)]
  BY DEF UsesIn
<1> HIDE DEF f, g, L
<1>3. L \in Nat
  BY DEF L
<1>4. apart = {}
  <2> SUFFICES ASSUME apart # {} PROVE FALSE
    OBVIOUS
  <2>1. PICK k \in apart : \A j \in apart : k <= j
    <3>1. apart \subseteq Nat
      OBVIOUS
    <3> HIDE DEF apart
    <3> QED
      BY <3>1, FirstPosition
  <2>2. k # 0
    BY <1>1, <1>3, <2>1
  <2>3. k - 1 \in 0 .. L /\ k \in 1 .. L /\ ~(k <= k - 1)
    BY <1>3, <2>1, <2>2
  <2>4. f[k - 1] = g[k - 1]
    BY <2>1, <2>3
  <2>5. f[k] = f[k - 1] + m[BindingIn(d, n, k)] /\ g[k] = g[k - 1] + w[BindingIn(d, n, k)]
    BY <1>1, <2>1, <2>2
  <2> QED
    BY <1>2, <2>1, <2>3, <2>4, <2>5
<1>5. \A k \in 0 .. L : f[k] = g[k]
  BY <1>4
<1>6. f = g
  BY <1>1, <1>5
<1> QED
  BY <1>6 DEF f, g

(* What a name stands for is one of the items that the expression may use. *)
LEMMA BindingIsUsed ==
    ASSUME NEW d \in Documents, NEW n \in ItemsOf(d), NEW k \in 1 .. Len(d.uses[n]),
           BindingIn(d, n, k) # n
    PROVE  \E i \in 1 .. Len(d.uses[n][k]) :
              /\ BindingIn(d, n, k) = d.uses[n][k][i]
              /\ d.uses[n][k][i] # n \/ d.kind[n] # "cell"
              /\ \A j \in 1 .. Len(d.uses[n][k]) :
                     j < i => d.uses[n][k][j] = n /\ d.kind[n] = "cell"
<1> DEFINE bindings == d.uses[n][k]
           others == {i \in 1 .. Len(bindings) : bindings[i] # n \/ d.kind[n] # "cell"}
<1>1. others # {}
  BY DEF BindingIn
<1>2. bindings \in Seq(ItemsOf(d))
  BY DocumentShape, ElementOfSeq
<1>3. \E i \in others : \A j \in others : i <= j
  <2>1. others \subseteq Nat
    OBVIOUS
  <2> HIDE DEF others
  <2> QED
    BY <1>1, <2>1, FirstPosition
<1> DEFINE i == CHOOSE i \in others : \A j \in others : i <= j
<1>4. i \in others /\ \A j \in others : i <= j
  BY <1>3
<1>5. BindingIn(d, n, k) = bindings[i]
  BY <1>1 DEF BindingIn
<1> HIDE DEF i
<1>6. ASSUME NEW j \in 1 .. Len(bindings), j < i
      PROVE  bindings[j] = n /\ d.kind[n] = "cell"
  <2>1. j \notin others
    BY <1>4, <1>6
  <2> QED
    BY <2>1
<1> QED
  BY <1>4, <1>5, <1>6

LEMMA BindingIsAnItem ==
    ASSUME NEW d \in Documents, NEW n \in ItemsOf(d), NEW k \in 1 .. Len(d.uses[n])
    PROVE  BindingIn(d, n, k) \in ItemsOf(d)
<1>1. d.uses[n][k] \in Seq(ItemsOf(d))
  BY DocumentShape, ElementOfSeq
<1> QED
  BY <1>1, BindingIsUsed, ElementOfSeq

(* In a document without cycles nothing uses itself.                       *)
LEMMA NothingUsesItself ==
    ASSUME NEW d \in Documents, AcyclicIn(d), NEW n \in ItemsOf(d)
    PROVE  n \notin UsesIn(d, n)
<1> SUFFICES ASSUME n \in UsesIn(d, n) PROVE FALSE
  OBVIOUS
<1>1. {n} \in (SUBSET ItemsOf(d)) \ {{}}
  OBVIOUS
<1>2. \A x \in {n} : UsesIn(d, x) \cap {n} # {}
  OBVIOUS
<1> QED
  BY <1>1, <1>2, Zenon DEF AcyclicIn

LEMMA FiniteItems ==
    ASSUME NEW d \in Documents
    PROVE  IsFiniteSet(ItemsOf(d)) /\ Cardinality(ItemsOf(d)) \in Nat
<1>1. IsFiniteSet(ItemsOf(d))
  BY DocumentsAssumption DEF DocumentAssumption, ItemsOf
<1> QED
  BY <1>1, FS_CardinalityType

(* Every item of a document without cycles has a value: the items can be   *)
(* given theirs one by one, each after those it uses.                      *)
LEMMA MeaningEquation ==
    ASSUME NEW d \in Documents, AcyclicIn(d), NEW n \in ItemsOf(d)
    PROVE  MeaningIn(d)[n] = SumsIn(d, MeaningIn(d), n)[Len(d.uses[n])]
<1> DEFINE Total(m, x) == SumsIn(d, m, x)[Len(d.uses[x])]
           Given(W) == /\ W \in SUBSET ItemsOf(d)
                       /\ \A x \in W : UsesIn(d, x) \subseteq W
                       /\ \E m : \A x \in W : m[x] = Total(m, x)
           left == {Cardinality(ItemsOf(d) \ W) : W \in {V \in SUBSET ItemsOf(d) : Given(V)}}
<1>1. \A x \in ItemsOf(d) : Len(d.uses[x]) \in Nat
  BY DocumentShape, LenProperties
<1>2. \A W \in SUBSET ItemsOf(d) :
          IsFiniteSet(ItemsOf(d) \ W) /\ Cardinality(ItemsOf(d) \ W) \in Nat
  <2> SUFFICES ASSUME NEW W \in SUBSET ItemsOf(d)
               PROVE  IsFiniteSet(ItemsOf(d) \ W) /\ Cardinality(ItemsOf(d) \ W) \in Nat
    OBVIOUS
  <2>1. IsFiniteSet(ItemsOf(d) \ W)
    BY FiniteItems, FS_Subset
  <2> QED
    BY <2>1, FS_CardinalityType
<1> HIDE DEF Total
<1>3. PICK W \in SUBSET ItemsOf(d) :
          /\ Given(W)
          /\ \A V \in SUBSET ItemsOf(d) :
                 Given(V) => Cardinality(ItemsOf(d) \ W) <= Cardinality(ItemsOf(d) \ V)
  <2>1. Given({})
    OBVIOUS
  <2>2. left # {} /\ left \subseteq Nat
    BY <1>2, <2>1
  <2>3. PICK c \in left : \A j \in left : c <= j
    <3> HIDE DEF left
    <3> QED
      BY <2>2, FirstPosition
  <2> QED
    BY <2>3
<1>4. W = ItemsOf(d)
  <2> SUFFICES ASSUME W # ItemsOf(d) PROVE FALSE
    OBVIOUS
  <2>1. ItemsOf(d) \ W \in (SUBSET ItemsOf(d)) \ {{}}
    OBVIOUS
  <2>2. PICK x \in ItemsOf(d) \ W : UsesIn(d, x) \cap (ItemsOf(d) \ W) = {}
    BY <2>1 DEF AcyclicIn
  <2>3. UsesIn(d, x) \subseteq W
    BY <2>2, BindingIsAnItem DEF UsesIn
  <2>4. PICK m : \A y \in W : m[y] = Total(m, y)
    BY <1>3
  <2> DEFINE V == W \cup {x}
             w == [y \in V |-> IF y = x THEN Total(m, x) ELSE m[y]]
  <2>5. \A y \in W : w[y] = m[y]
    BY <2>2
  <2>6. w[x] = Total(m, x)
    OBVIOUS
  <2> HIDE DEF w
  <2>7. \A y \in V : Total(w, y) = Total(m, y)
    <3> SUFFICES ASSUME NEW y \in V PROVE Total(w, y) = Total(m, y)
      OBVIOUS
    <3>1. y \in ItemsOf(d) /\ UsesIn(d, y) \subseteq W
      BY <1>3, <2>2, <2>3
    <3>2. SumsIn(d, w, y) = SumsIn(d, m, y)
      BY <1>1, <2>5, <3>1, SumsAgree
    <3> QED
      BY <3>2 DEF Total
  <2>8. \A y \in V : w[y] = Total(w, y)
    BY <2>4, <2>5, <2>6, <2>7
  <2>9. Given(V)
    BY <1>3, <2>2, <2>3, <2>8
  <2>10. ItemsOf(d) \ W = (ItemsOf(d) \ V) \cup {x} /\ x \notin ItemsOf(d) \ V
    BY <2>2
  <2> DEFINE R == ItemsOf(d) \ V
  <2>11. IsFiniteSet(R) /\ Cardinality(R) \in Nat
    BY <1>2, <2>2
  <2>12. Cardinality(ItemsOf(d) \ W) <= Cardinality(R)
    BY <1>3, <2>2, <2>9
  <2> HIDE DEF R, Given
  <2>13. Cardinality(R \cup {x}) = Cardinality(R) + 1
    <3>1. x \notin R
      BY <2>10 DEF R
    <3>2. Cardinality(R \cup {x}) = IF x \in R THEN Cardinality(R) ELSE Cardinality(R) + 1
      BY <2>11, FS_AddElement, Zenon
    <3> QED
      BY <3>1, <3>2
  <2>14. Cardinality(ItemsOf(d) \ W) = Cardinality(R) + 1
    BY <2>10, <2>13 DEF R
  <2> QED
    BY <2>11, <2>12, <2>14
<1>5. PICK m : \A x \in ItemsOf(d) : m[x] = Total(m, x)
  BY <1>3, <1>4
<1> DEFINE Solves(w) == w = [x \in ItemsOf(d) |-> Total(w, x)]
           w0 == [x \in ItemsOf(d) |-> m[x]]
<1>6. Solves(w0)
  <2> SUFFICES ASSUME NEW x \in ItemsOf(d) PROVE w0[x] = Total(w0, x)
    BY Zenon
  <2>1. \A y \in UsesIn(d, x) : w0[y] = m[y]
    BY BindingIsAnItem DEF UsesIn
  <2> HIDE DEF w0
  <2>2. SumsIn(d, w0, x) = SumsIn(d, m, x)
    BY <1>1, <2>1, SumsAgree
  <2>3. Total(w0, x) = Total(m, x)
    BY <2>2 DEF Total
  <2> QED
    BY <1>5, <2>3 DEF w0
<1>7. MeaningIn(d) = CHOOSE w : Solves(w)
  BY DEF MeaningIn, Total
<1> HIDE DEF Solves, w0
<1>8. Solves(MeaningIn(d))
  BY <1>6, <1>7
<1> QED
  BY <1>8 DEF Solves, Total

-----------------------------------------------------------------------------
(* What the stacks and the caches hold while a document without cycles is  *)
(* read.                                                                   *)

\* Each evaluation waits for what its next name stands for.
LinkedStack(d, s) ==
    \A i \in 1 .. Len(s) - 1 : s[i + 1].item = BindingIn(d, s[i].item, s[i].done + 1)

IsShort(d) == \E t \in Threads : Room[t] < Cardinality(ItemsOf(d))

\* A result for n: what n means, or what a lack of room makes of it.
Exact(d, n, r) ==
    \/ r = Ok(MeaningIn(d)[n])
    \/ IsShort(d) /\ (r = TooDeep \/ (r.tag = "ok" /\ ReadsIndexIn(d, n)))

\* An evaluation adds up what its names mean, except that of a cell another
\* thread has filled meanwhile: its result is dropped.
ExactSum(d, c, a) ==
    /\ a.failure = Empty \/ (a.failure = TooDeep /\ IsShort(d))
    /\ \/ a.sum = SumsIn(d, MeaningIn(d), a.item)[a.done]
       \/ d.kind[a.item] = "cell" /\ c[a.item] # Empty
       \/ IsShort(d) /\ ReadsIndexIn(d, a.item)

ExactStack(d, c, s) == \A i \in 1 .. Len(s) : ExactSum(d, c, s[i])

ExactCaches(d, c) == \A n \in ItemsOf(d) : c[n] = Empty \/ Exact(d, n, c[n])

ValuesInv ==
    AcyclicIn(doc) =>
        /\ \A t \in Threads : LinkedStack(doc, stack[t]) /\ ExactStack(doc, cache, stack[t])
        /\ ExactCaches(doc, cache)

-----------------------------------------------------------------------------
(* What waits on a stack without cycles is not asked for again above.      *)
LEMMA NoReturn ==
    ASSUME NEW d \in Documents, AcyclicIn(d), NEW s \in Seq(Activations(d)),
           LinkedStack(d, s), \A p \in 1 .. Len(s) - 1 : Waiting(d, s[p]),
           NEW i \in 1 .. Len(s), NEW b \in UsesIn(d, s[Len(s)].item)
    PROVE  b # s[i].item
<1> DEFINE m == Len(s)
           S == {s[p].item : p \in i .. m}
<1> SUFFICES ASSUME b = s[i].item PROVE FALSE
  OBVIOUS
<1>1. m \in Nat /\ i \in Nat /\ i <= m /\ i \in i .. m /\ i .. m \subseteq 1 .. m
  BY LenProperties
<1>2. S \in (SUBSET ItemsOf(d)) \ {{}}
  <2>1. ASSUME NEW p \in 1 .. m PROVE s[p].item \in ItemsOf(d)
    <3>1. s[p] \in Activations(d)
      BY ElementOfSeq
    <3> QED
      BY <3>1 DEF Activations
  <2> QED
    BY <1>1, <2>1
<1>3. ASSUME NEW x \in S PROVE UsesIn(d, x) \cap S # {}
  <2>1. PICK p \in i .. m : x = s[p].item
    OBVIOUS
  <2>2. CASE p = m
    <3>1. b \in UsesIn(d, x) /\ b \in S
      BY <1>1, <2>1, <2>2
    <3> QED
      BY <3>1
  <2>3. CASE p # m
    <3>1. p \in 1 .. m - 1 /\ p \in 1 .. m /\ p + 1 \in i .. m
      BY <1>1, <2>3
    <3>2. s[p] \in Activations(d) /\ Waiting(d, s[p])
      BY <3>1, ElementOfSeq
    <3>3. x \in ItemsOf(d) /\ s[p].done \in Nat
      BY <2>1, <3>2 DEF Activations
    <3>4. Len(d.uses[x]) \in Nat
      BY <3>3, DocumentShape, LenProperties
    <3>5. s[p].done + 1 \in 1 .. Len(d.uses[x])
      BY <2>1, <3>2, <3>3, <3>4 DEF Waiting
    <3>6. s[p + 1].item = BindingIn(d, x, s[p].done + 1)
      BY <2>1, <3>1 DEF LinkedStack
    <3>7. s[p + 1].item \in UsesIn(d, x) /\ s[p + 1].item \in S
      BY <3>1, <3>5, <3>6 DEF UsesIn
    <3> QED
      BY <3>7
  <2> QED
    BY <2>2, <2>3
<1> HIDE DEF S
<1> QED
  BY <1>2, <1>3 DEF AcyclicIn

(* The scope lookup finds what the name stands for, unless it finds a cell *)
(* that another thread has filled while this one was evaluating it.        *)
LEMMA AskedIsBound ==
    ASSUME Inv, AcyclicIn(doc), NEW t \in Threads, NEW n, Asks(t, n), stack[t] # <<>>,
           LinkedStack(doc, stack[t])
    PROVE  LET a == stack[t][Len(stack[t])]
           IN  /\ a \in Activations(doc)
               /\ a.failure = Empty
               /\ a.done + 1 \in 1 .. Len(doc.uses[a.item])
               /\ \/ n = BindingIn(doc, a.item, a.done + 1) /\ ~Inside(t, n)
                  \/ n = a.item /\ doc.kind[n] = "cell" /\ cache[n] # Empty
<1> DEFINE s == stack[t]
           m == Len(s)
           a == s[m]
           k == a.done + 1
           bindings == doc.uses[a.item][k]
           b == BindingIn(doc, a.item, k)
<1>1. doc \in Documents /\ s \in Seq(Activations(doc)) /\ GoodStack(doc, s)
  BY DEF Inv, Typed, StacksAreGood
<1>2. m \in Nat \ {0} /\ m \in 1 .. m
  BY <1>1, EmptySeq
<1>3. a \in Activations(doc) /\ Sane(doc, a) /\ a = Top(t)
  BY <1>1, <1>2, ElementOfSeq DEF GoodStack, Top
<1>4. Waiting(doc, a)
  BY <1>3, AskedIsUsed DEF Inv
<1>5. a.item \in ItemsOf(doc) /\ a.done \in Nat /\ a.failure = Empty
  BY <1>3, <1>4 DEF Activations, Waiting
<1>6. Len(doc.uses[a.item]) \in Nat
  BY <1>1, <1>5, DocumentShape, LenProperties
<1>7. k \in 1 .. Len(doc.uses[a.item])
  BY <1>4, <1>5, <1>6 DEF Waiting
<1>8. n = ScopeLookup(t, bindings)
  BY <1>3 DEF Asks
<1>9. b \in UsesIn(doc, a.item)
  BY <1>7 DEF UsesIn
<1>10. b # a.item
  BY <1>1, <1>5, <1>9, NothingUsesItself
<1>11. ~Inside(t, b)
  <2>1. ASSUME NEW i \in 1 .. m PROVE b # s[i].item
    BY <1>1, <1>9, NoReturn DEF GoodStack
  <2> QED
    BY <2>1 DEF Inside
<1>12. PICK i \in 1 .. Len(bindings) :
           /\ b = bindings[i]
           /\ \A j \in 1 .. Len(bindings) :
                  j < i => bindings[j] = a.item /\ doc.kind[a.item] = "cell"
  BY <1>1, <1>5, <1>7, <1>10, BindingIsUsed
<1>13. bindings \in Seq(ItemsOf(doc)) /\ Len(bindings) \in Nat
  <2> DEFINE names == doc.uses[a.item]
  <2>1. names \in Seq(Seq(ItemsOf(doc)) \ {<<>>})
    BY <1>1, <1>5, DocumentShape
  <2>2. k \in 1 .. Len(names)
    BY <1>7
  <2> HIDE DEF names, k
  <2>3. names[k] \in Seq(ItemsOf(doc))
    BY <2>1, <2>2, ElementOfSeq
  <2> QED
    BY <2>3, LenProperties DEF names
<1> DEFINE resolving == {j \in 1 .. Len(bindings) : ~MidEvaluation(t, bindings[j])}
<1>14. i \in resolving
  BY <1>11, <1>12 DEF MidEvaluation, IsActive
<1>15. PICK j \in resolving : n = bindings[j] /\ j <= i
  <2>1. \E j \in resolving : \A l \in resolving : j <= l
    <3>1. resolving \subseteq Nat /\ resolving # {}
      <4>1. resolving # {}
        BY <1>14
      <4>2. 1 .. Len(bindings) \subseteq Nat
        BY <1>13
      <4> HIDE DEF bindings
      <4> QED
        BY <4>1, <4>2
    <3> HIDE DEF resolving
    <3> QED
      BY <3>1, FirstPosition
  <2> DEFINE first == CHOOSE j \in resolving : \A l \in resolving : j <= l
  <2>2. first \in resolving /\ \A l \in resolving : first <= l
    BY <2>1
  <2>3. n = bindings[first]
    BY <1>8, <1>14 DEF ScopeLookup
  <2> HIDE DEF first
  <2> QED
    BY <1>14, <2>2, <2>3
<1>16. CASE j = i
  BY <1>3, <1>5, <1>7, <1>11, <1>12, <1>15, <1>16
<1>17. CASE j # i
  <2>1. j < i /\ j \in 1 .. Len(bindings)
    <3> HIDE DEF bindings
    <3> QED
      BY <1>13, <1>15, <1>17
  <2>2. n = a.item /\ doc.kind[n] = "cell"
    BY <1>12, <1>15, <2>1
  <2>3. Inside(t, n)
    BY <1>2, <2>2 DEF Inside
  <2>4. cache[n] # Empty
    BY <1>15, <2>2, <2>3 DEF MidEvaluation, IsActive
  <2> QED
    BY <1>3, <1>5, <1>7, <2>2, <2>4
<1> QED
  BY <1>16, <1>17

(* The items of a stack are different ones.                                *)
LEMMA StackItemsDiffer ==
    ASSUME NEW d \in Documents, AcyclicIn(d), NEW s \in Seq(Activations(d)),
           LinkedStack(d, s), \A p \in 1 .. Len(s) - 1 : Waiting(d, s[p]),
           NEW i \in 1 .. Len(s), NEW j \in 1 .. Len(s), i < j
    PROVE  s[i].item # s[j].item
<1> DEFINE m == j - 1
           low == SubSeq(s, 1, m)
<1>1. Len(s) \in Nat /\ m \in 1 .. Len(s) - 1 /\ m \in 1 .. Len(s) /\ i \in 1 .. m
  BY LenProperties
<1>2. /\ low \in Seq(Activations(d))
      /\ Len(low) = m
      /\ \A p \in 1 .. m : low[p] = s[p]
  <2>1. \A p \in 1 .. m : s[p] \in Activations(d)
    BY <1>1, ElementOfSeq
  <2>2. 1 \in Int /\ m \in Int
    BY <1>1
  <2>3. /\ SubSeq(s, 1, m) \in Seq(Activations(d))
        /\ Len(SubSeq(s, 1, m)) = IF 1 <= m THEN m - 1 + 1 ELSE 0
        /\ \A p \in 1 .. m - 1 + 1 : SubSeq(s, 1, m)[p] = s[1 + p - 1]
    BY <2>1, <2>2, SubSeqProperties
  <2> QED
    BY <1>1, <2>3
<1> HIDE DEF low
<1>3. LinkedStack(d, low) /\ \A p \in 1 .. Len(low) - 1 : Waiting(d, low[p])
  <2>1. \A p \in 1 .. m - 1 : p \in 1 .. Len(s) - 1 /\ p \in 1 .. m /\ p + 1 \in 1 .. m
    BY <1>1
  <2> QED
    BY <1>2, <2>1 DEF LinkedStack
<1>4. Waiting(d, s[m]) /\ s[m] \in Activations(d) /\ s[j].item = BindingIn(d, s[m].item, s[m].done + 1)
  BY <1>1, ElementOfSeq DEF LinkedStack
<1>5. s[m].item \in ItemsOf(d) /\ s[m].done \in Nat /\ s[m].done < Len(d.uses[s[m].item])
  BY <1>4 DEF Waiting, Activations
<1>6. s[m].done + 1 \in 1 .. Len(d.uses[s[m].item])
  <2>1. Len(d.uses[s[m].item]) \in Nat
    BY <1>5, DocumentShape, LenProperties
  <2> QED
    BY <1>5, <2>1
<1>7. s[j].item \in UsesIn(d, low[Len(low)].item)
  BY <1>1, <1>2, <1>4, <1>6 DEF UsesIn
<1>8. s[j].item # low[i].item
  BY <1>1, <1>2, <1>3, <1>7, NoReturn
<1> QED
  BY <1>1, <1>2, <1>8

(* Without cycles the only refusal is for lack of room: the items of a     *)
(* full stack are different ones, and none is the item asked for.          *)
LEMMA RefusalIsShort ==
    ASSUME Inv, AcyclicIn(doc), ValuesInv, NEW t \in Threads, NEW n \in Items,
           Asks(t, n), cache[n] = Empty, Refusal(t, n) # Empty
    PROVE  Refusal(t, n) = TooDeep /\ IsShort(doc)
<1> DEFINE s == stack[t]
           F == FramesOf(doc, s)
           others == ItemsOf(doc) \ {n}
<1>1. doc \in Documents /\ s \in Seq(Activations(doc)) /\ GoodStack(doc, s) /\ LinkedStack(doc, s)
  BY DEF Inv, Typed, StacksAreGood, ValuesInv
<1>2. ~Inside(t, n)
  <2>1. CASE s = <<>>
    BY <2>1 DEF Inside
  <2>2. CASE s # <<>>
    BY <1>1, <2>2, AskedIsBound
  <2> QED
    BY <2>1, <2>2
<1>3. Refusal(t, n) = TooDeep /\ Cardinality(F) >= Room[t]
  BY <1>2, DepthCountsFrames DEF Refusal, IsActive, IsFull
<1>4. IsFiniteSet(F) /\ Cardinality(F) \in Nat
  BY <1>1, LenProperties, FramesAreFinite
<1>5. IsFiniteSet(others) /\ Cardinality(others) \in Nat
  <2>1. IsFiniteSet(others)
    BY <1>1, FiniteItems, FS_Subset
  <2> QED
    BY <2>1, FS_CardinalityType
<1>6. Cardinality(ItemsOf(doc)) = Cardinality(others) + 1
  <2>1. n \in ItemsOf(doc) /\ IsFiniteSet(ItemsOf(doc))
    BY <1>1, FiniteItems DEF Items, ItemsOf
  <2>2. Cardinality(others)
          = IF n \in ItemsOf(doc) THEN Cardinality(ItemsOf(doc)) - 1 ELSE Cardinality(ItemsOf(doc))
    BY <2>1, FS_RemoveElement
  <2>3. Cardinality(ItemsOf(doc)) \in Nat
    BY <1>1, FiniteItems
  <2> HIDE DEF others
  <2> QED
    BY <1>5, <2>1, <2>2, <2>3
<1>7. ~(Cardinality(others) < Cardinality(F))
  <2> SUFFICES ASSUME Cardinality(others) < Cardinality(F) PROVE FALSE
    OBVIOUS
  <2> DEFINE f == [i \in F |-> s[i].item]
  <2>1. F \subseteq 1 .. Len(s)
    BY DEF FramesOf
  <2>2. f \in [F -> others]
    <3> SUFFICES ASSUME NEW i \in F PROVE s[i].item \in others
      OBVIOUS
    <3>1. s[i] \in Activations(doc) /\ s[i].item # n
      BY <1>1, <1>2, <2>1, ElementOfSeq DEF Inside
    <3> QED
      BY <3>1 DEF Activations
  <2>3. PICK i \in F, j \in F : i # j /\ f[i] = f[j]
    <3> HIDE DEF F, others, f
    <3> QED
      BY <1>4, <1>5, <2>2, FS_PigeonHole
  <2>4. i \in 1 .. Len(s) /\ j \in 1 .. Len(s) /\ s[i].item = s[j].item
    BY <2>1, <2>3
  <2>5. \A p \in 1 .. Len(s), q \in 1 .. Len(s) : p < q => s[p].item # s[q].item
    BY <1>1, StackItemsDiffer DEF GoodStack
  <2>6. i \in Nat /\ j \in Nat
    BY <1>1, <2>4, LenProperties
  <2> QED
    BY <2>3, <2>4, <2>5, <2>6
<1>8. Room[t] \in Nat
  BY RoomAssumption
<1> HIDE DEF F, others
<1>9. Room[t] < Cardinality(ItemsOf(doc))
  BY <1>3, <1>4, <1>5, <1>6, <1>7, <1>8
<1> QED
  BY <1>3, <1>9 DEF IsShort

(* What reads an index through one of its names reads an index.            *)
LEMMA ReadsThrough ==
    ASSUME NEW d \in Documents, NEW n \in ItemsOf(d), NEW k \in 1 .. Len(d.uses[n]),
           BindingIn(d, n, k) # n, ReadsIndexIn(d, BindingIn(d, n, k))
    PROVE  ReadsIndexIn(d, n)
<1> DEFINE x == BindingIn(d, n, k)
<1>1. x \in MayUseIn(d, n)
  BY BindingIsUsed DEF MayUseIn
<1> HIDE DEF x
<1>2. PICK b \in ItemsOf(d) : d.kind[b] = "index" /\ (b = x \/ ReachesIn(d, x, b))
  BY DEF ReadsIndexIn, x
<1>3. ReachesIn(d, n, b)
  <2>1. CASE b = x
    BY <1>1, <2>1, UseIsReached
  <2>2. CASE ReachesIn(d, x, b)
    BY <1>1, <2>2 DEF ReachesIn
  <2> QED
    BY <1>2, <2>1, <2>2
<1> QED
  BY <1>2, <1>3 DEF ReadsIndexIn

(* The evaluation on top of `rest` gets the result of what it asked for.   *)
Asked(d, c, a, n) ==
    /\ a.failure = Empty
    /\ a.done + 1 \in 1 .. Len(d.uses[a.item])
    /\ \/ n = BindingIn(d, a.item, a.done + 1)
       \/ n = a.item /\ d.kind[n] = "cell" /\ c[n] # Empty

LEMMA ReceiveIsExact ==
    ASSUME Typed, AcyclicIn(doc), NEW a \in Activations(doc), NEW n, Asked(doc, cache, a, n),
           ExactSum(doc, cache, a), NEW r \in Results, Exact(doc, n, r),
           NEW c, \A x \in ItemsOf(doc) :
                      doc.kind[x] = "cell" /\ cache[x] # Empty => c[x] # Empty
    PROVE  ExactSum(doc, c, Receive(a, r))
<1> DEFINE x == a.item
           L == Len(doc.uses[x])
           sums == SumsIn(doc, MeaningIn(doc), x)
           b == BindingIn(doc, x, a.done + 1)
<1>1. doc \in Documents /\ x \in ItemsOf(doc) /\ a.done \in Nat /\ a.sum \in Nat
  BY DEF Typed, Activations
<1>2. L \in Nat
  BY <1>1, DocumentShape, LenProperties
<1>3. a.done + 1 \in 1 .. L /\ a.done + 1 \in 0 .. L /\ a.done + 1 # 0
  BY <1>1, <1>2 DEF Asked
<1>4. sums[a.done + 1] = sums[a.done] + MeaningIn(doc)[b]
  <2>1. a.done \in 0 .. L - 1
    BY <1>1, <1>2, <1>3
  <2> QED
    BY <1>2, <2>1, SumsStep
<1>5. b # x
  <2>1. b \in UsesIn(doc, x)
    BY <1>3 DEF UsesIn
  <2> QED
    BY <1>1, <2>1, NothingUsesItself
<1>6. CASE r.tag = "ok"
  <2>1. Receive(a, r) = [a EXCEPT !.done = @ + 1, !.sum = @ + r.of]
    BY <1>6 DEF Receive
  <2>2. /\ Receive(a, r).item = x
        /\ Receive(a, r).failure = Empty
        /\ Receive(a, r).done = a.done + 1
        /\ Receive(a, r).sum = a.sum + r.of
    BY <2>1 DEF Activations, Asked
  <2>3. \/ a.sum + r.of = sums[a.done + 1]
        \/ doc.kind[x] = "cell" /\ c[x] # Empty
        \/ IsShort(doc) /\ ReadsIndexIn(doc, x)
    <3>1. CASE doc.kind[x] = "cell" /\ cache[x] # Empty
      BY <1>1, <3>1
    <3>2. CASE IsShort(doc) /\ ReadsIndexIn(doc, x)
      BY <3>2
    <3>3. CASE n = b /\ a.sum = sums[a.done] /\ r = Ok(MeaningIn(doc)[n])
      BY <1>4, <3>3 DEF Ok
    <3>4. CASE n = b /\ IsShort(doc) /\ ReadsIndexIn(doc, n)
      BY <1>1, <1>3, <1>5, <3>4, ReadsThrough
    <3>5. r # TooDeep
      BY <1>6 DEF TooDeep
    <3> QED
      BY <3>1, <3>2, <3>3, <3>4, <3>5 DEF Asked, Exact, ExactSum
  <2> HIDE DEF sums
  <2> QED
    BY <2>2, <2>3 DEF ExactSum, sums
<1>7. CASE r.tag # "ok"
  <2>1. r = TooDeep /\ IsShort(doc)
    BY <1>7 DEF Exact, Ok
  <2>2. CASE doc.kind[x] = "index"
    <3>1. Receive(a, r) = [a EXCEPT !.done = @ + 1]
      BY <1>7, <2>2 DEF Receive
    <3>2. Receive(a, r).item = x /\ Receive(a, r).failure = Empty
      BY <3>1 DEF Activations, Asked
    <3>3. ReadsIndexIn(doc, x)
      BY <1>1, <2>2 DEF ReadsIndexIn
    <3> QED
      BY <2>1, <3>2, <3>3 DEF ExactSum
  <2>3. CASE doc.kind[x] # "index"
    <3>1. Receive(a, r) = [a EXCEPT !.failure = r]
      BY <1>7, <2>3 DEF Receive
    <3>2. /\ Receive(a, r).item = x
          /\ Receive(a, r).failure = TooDeep
          /\ Receive(a, r).done = a.done
          /\ Receive(a, r).sum = a.sum
      BY <2>1, <3>1 DEF Activations
    <3>3. \/ a.sum = sums[a.done]
          \/ doc.kind[x] = "cell" /\ c[x] # Empty
          \/ IsShort(doc) /\ ReadsIndexIn(doc, x)
      BY <1>1 DEF ExactSum
    <3> QED
      BY <2>1, <3>2, <3>3 DEF ExactSum
  <2> QED
    BY <2>2, <2>3
<1> QED
  BY <1>6, <1>7

\* A cell that holds something never holds nothing again.
CellsStayFilled(d, before, after) ==
    \A x \in ItemsOf(d) : d.kind[x] = "cell" /\ before[x] # Empty => after[x] # Empty

LEMMA SumStaysExact ==
    ASSUME NEW d, NEW before, NEW after, CellsStayFilled(d, before, after),
           NEW a \in Activations(d), ExactSum(d, before, a)
    PROVE  ExactSum(d, after, a)
<1>1. a.item \in ItemsOf(d)
  BY DEF Activations
<1> QED
  BY <1>1 DEF ExactSum, CellsStayFilled

(* A result that is exact, handed down to the evaluation that asked, keeps *)
(* the stacks as they should be.                                           *)
LEMMA DeliverIsExact ==
    ASSUME Inv, AcyclicIn(doc), ValuesInv, CellsStayFilled(doc, cache, cache'),
           NEW t \in Threads, NEW n, NEW r \in Results, Exact(doc, n, r),
           NEW rest \in Seq(Activations(doc)), Deliver(t, n, r, rest),
           Len(rest) <= Len(stack[t]),
           \A i \in 1 .. Len(rest) : rest[i] = stack[t][i],
           rest # <<>> => Asked(doc, cache, rest[Len(rest)], n)
    PROVE  \A u \in Threads :
               LinkedStack(doc, stack'[u]) /\ ExactStack(doc, cache', stack'[u])
<1> DEFINE s == stack[t]
           k == Len(rest)
           new == IF rest = <<>> THEN <<>> ELSE [rest EXCEPT ![k] = Receive(@, r)]
<1>1. stack' = [stack EXCEPT ![t] = new] /\ stack \in [Threads -> Seq(Activations(doc))]
  BY DEF Deliver, Inv, Typed
<1>2. s \in Seq(Activations(doc)) /\ LinkedStack(doc, s) /\ ExactStack(doc, cache, s)
  BY <1>1 DEF ValuesInv
<1>3. k \in Nat /\ Len(s) \in Nat /\ 1 .. k \subseteq 1 .. Len(s)
  BY <1>2, LenProperties
<1>4. ASSUME NEW u \in Threads, u # t
      PROVE  LinkedStack(doc, stack'[u]) /\ ExactStack(doc, cache', stack'[u])
  <2>1. stack'[u] = stack[u] /\ stack[u] \in Seq(Activations(doc))
    BY <1>1, <1>4
  <2>2. LinkedStack(doc, stack[u]) /\ ExactStack(doc, cache, stack[u])
    BY DEF ValuesInv
  <2>3. \A i \in 1 .. Len(stack[u]) : stack[u][i] \in Activations(doc)
    BY <2>1, ElementOfSeq
  <2> QED
    BY <2>1, <2>2, <2>3, SumStaysExact DEF ExactStack
<1>5. CASE rest = <<>>
  <2>1. LinkedStack(doc, new) /\ ExactStack(doc, cache', new)
    BY <1>5 DEF LinkedStack, ExactStack
  <2> HIDE DEF new
  <2> QED
    BY <1>1, <1>4, <2>1
<1>6. CASE rest # <<>>
  <2> DEFINE a == rest[k]
  <2>1. k \in 1 .. k /\ k \in 1 .. Len(s)
    BY <1>3, <1>6, EmptySeq
  <2>2. a \in Activations(doc) /\ Asked(doc, cache, a, n) /\ ExactSum(doc, cache, a)
    BY <1>2, <1>6, <2>1, ElementOfSeq DEF ExactStack
  <2>3. ExactSum(doc, cache', Receive(a, r))
    <3> DEFINE c == cache'
    <3>1. \A x \in ItemsOf(doc) : doc.kind[x] = "cell" /\ cache[x] # Empty => c[x] # Empty
      BY DEF CellsStayFilled
    <3> HIDE DEF c
    <3>2. ExactSum(doc, c, Receive(a, r))
      BY <2>2, <3>1, ReceiveIsExact DEF Inv
    <3> QED
      BY <3>2 DEF c
  <2>4. Receive(a, r) \in Activations(doc) /\ Receive(a, r).item = a.item
    <3>1. Sane(doc, a)
      BY <2>1 DEF Inv, StacksAreGood, GoodStack
    <3>2. Waiting(doc, a)
      <4>1. a.item \in ItemsOf(doc) /\ a.done \in Nat
        BY <2>2 DEF Activations
      <4>2. Len(doc.uses[a.item]) \in Nat
        BY <4>1, DocumentShape, LenProperties DEF Inv, Typed
      <4> HIDE DEF a
      <4> QED
        BY <2>2, <4>1, <4>2 DEF Asked, Waiting
    <3>3. Honest(doc, r)
      BY DEF Exact, Honest, Ok, TooDeep
    <3> QED
      BY <2>2, <3>1, <3>2, <3>3, ReceiveKeepsShape DEF Inv
  <2>5. new = [rest EXCEPT ![k] = Receive(a, r)]
    BY <1>6, <2>1
  <2>6. /\ Len(new) = k
        /\ \A i \in 1 .. k : new[i] = IF i = k THEN Receive(a, r) ELSE rest[i]
    BY <2>1, <2>4, <2>5, ExceptSeq
  <2> HIDE DEF new, a
  <2>7. LinkedStack(doc, new)
    <3> SUFFICES ASSUME NEW i \in 1 .. k - 1
                 PROVE  new[i + 1].item = BindingIn(doc, new[i].item, new[i].done + 1)
      BY <2>6 DEF LinkedStack
    <3>1. i \in 1 .. k /\ i + 1 \in 1 .. k /\ i # k /\ i \in 1 .. Len(s) - 1
      BY <1>3, <2>1
    <3>2. new[i] = s[i]
      BY <2>6, <3>1
    <3>3. new[i + 1].item = s[i + 1].item
      BY <2>4, <2>6, <3>1 DEF a
    <3> QED
      BY <1>2, <3>1, <3>2, <3>3 DEF LinkedStack
  <2>8. ExactStack(doc, cache', new)
    <3> SUFFICES ASSUME NEW i \in 1 .. k PROVE ExactSum(doc, cache', new[i])
      BY <2>6 DEF ExactStack
    <3>1. CASE i = k
      BY <2>3, <2>6, <3>1
    <3>2. CASE i # k
      <4>1. new[i] = s[i] /\ i \in 1 .. Len(s)
        BY <1>3, <2>6, <3>2
      <4>2. s[i] \in Activations(doc) /\ ExactSum(doc, cache, s[i])
        BY <1>2, <4>1, ElementOfSeq DEF ExactStack
      <4> QED
        BY <4>1, <4>2, SumStaysExact
    <3> QED
      BY <3>1, <3>2
  <2> QED
    BY <1>1, <1>4, <2>7, <2>8
<1> QED
  BY <1>5, <1>6

-----------------------------------------------------------------------------
(* The steps. *)

LEMMA InitValues == Init => ValuesInv
<1> SUFFICES ASSUME Init, AcyclicIn(doc)
             PROVE  /\ \A t \in Threads :
                           LinkedStack(doc, stack[t]) /\ ExactStack(doc, cache, stack[t])
                    /\ ExactCaches(doc, cache)
  BY DEF ValuesInv
<1>1. \A t \in Threads : stack[t] = <<>>
  BY DEF Init
<1>2. LinkedStack(doc, <<>>) /\ ExactStack(doc, cache, <<>>)
  BY DEF LinkedStack, ExactStack
<1>3. ExactCaches(doc, cache)
  BY DEF Init, ExactCaches, Items, ItemsOf
<1> QED
  BY <1>1, <1>2, <1>3

(* The evaluation on top of a stack that asks for n has n coming to it.    *)
LEMMA AskerAsked ==
    ASSUME Inv, AcyclicIn(doc), ValuesInv, NEW t \in Threads, NEW n, Asks(t, n),
           stack[t] # <<>>
    PROVE  Asked(doc, cache, stack[t][Len(stack[t])], n)
<1>1. LinkedStack(doc, stack[t])
  BY DEF ValuesInv
<1> QED
  BY <1>1, AskedIsBound DEF Asked

LEMMA HitValues ==
    ASSUME Inv, ValuesInv, AcyclicIn(doc), NEW t \in Threads, NEW n \in Items, Hit(t, n)
    PROVE  /\ \A u \in Threads :
                  LinkedStack(doc, stack'[u]) /\ ExactStack(doc, cache', stack'[u])
           /\ ExactCaches(doc, cache')
<1>1. Asks(t, n) /\ cache[n] # Empty /\ Deliver(t, n, cache[n], stack[t]) /\ cache' = cache
  BY DEF Hit
<1>2. cache[n] \in Results /\ Exact(doc, n, cache[n])
  BY <1>1 DEF Inv, Typed, ValuesInv, ExactCaches, Items, ItemsOf
<1>3. stack[t] \in Seq(Activations(doc)) /\ Len(stack[t]) \in Nat
  BY LenProperties DEF Inv, Typed
<1>4. CellsStayFilled(doc, cache, cache')
  BY <1>1 DEF CellsStayFilled
<1>5. stack[t] # <<>> => Asked(doc, cache, stack[t][Len(stack[t])], n)
  BY <1>1, AskerAsked
<1>6. \A u \in Threads : LinkedStack(doc, stack'[u]) /\ ExactStack(doc, cache', stack'[u])
  BY <1>1, <1>2, <1>3, <1>4, <1>5, DeliverIsExact
<1> QED
  BY <1>1, <1>6 DEF ValuesInv

LEMMA RefuseValues ==
    ASSUME Inv, ValuesInv, AcyclicIn(doc), NEW t \in Threads, NEW n \in Items, Refuse(t, n)
    PROVE  /\ \A u \in Threads :
                  LinkedStack(doc, stack'[u]) /\ ExactStack(doc, cache', stack'[u])
           /\ ExactCaches(doc, cache')
<1> DEFINE r == Refusal(t, n)
           kept == IF doc.kind[n] \in {"cell", "projection"} THEN Keep(n, r) ELSE cache[n]
<1>1. /\ Asks(t, n) /\ cache[n] = Empty /\ r # Empty
      /\ cache' = [cache EXCEPT ![n] = kept]
      /\ Deliver(t, n, r, stack[t])
  BY DEF Refuse
<1>2. r = TooDeep /\ IsShort(doc)
  BY <1>1, RefusalIsShort
<1>3. kept \in {Empty, r} /\ (doc.kind[n] = "cell" => kept # Empty)
  BY <1>1, KeepCases
<1> HIDE DEF kept, r
<1>4. r \in Results /\ Exact(doc, n, r)
  BY <1>2, DeepIsAResult DEF Exact
<1>5. cache \in [Items -> Results \cup {Empty}]
  BY DEF Inv, Typed
<1>6. CellsStayFilled(doc, cache, cache')
  BY <1>1, <1>3, <1>5 DEF CellsStayFilled, Items, ItemsOf
<1>7. stack[t] \in Seq(Activations(doc)) /\ Len(stack[t]) \in Nat
  BY LenProperties DEF Inv, Typed
<1>8. stack[t] # <<>> => Asked(doc, cache, stack[t][Len(stack[t])], n)
  BY <1>1, AskerAsked
<1>9. \A u \in Threads : LinkedStack(doc, stack'[u]) /\ ExactStack(doc, cache', stack'[u])
  <2>1. Deliver(t, n, r, stack[t])
    BY <1>1
  <2>2. Len(stack[t]) <= Len(stack[t])
    BY <1>7
  <2> QED
    BY <1>4, <1>6, <1>7, <1>8, <2>1, <2>2, DeliverIsExact
<1>10. ExactCaches(doc, cache')
  BY <1>1, <1>3, <1>4, <1>5 DEF ValuesInv, ExactCaches, Items, ItemsOf
<1> QED
  BY <1>9, <1>10

LEMMA BeginValues ==
    ASSUME Inv, ValuesInv, AcyclicIn(doc), NEW t \in Threads, NEW n \in Items, Begin(t, n)
    PROVE  /\ \A u \in Threads :
                  LinkedStack(doc, stack'[u]) /\ ExactStack(doc, cache', stack'[u])
           /\ ExactCaches(doc, cache')
<1> DEFINE s == stack[t]
           m == Len(s)
           new == Append(s, Activation(n))
<1>1. /\ Asks(t, n) /\ cache[n] = Empty
      /\ stack' = [stack EXCEPT ![t] = new]
      /\ cache' = cache
  BY DEF Begin
<1>2. s \in Seq(Activations(doc)) /\ m \in Nat /\ LinkedStack(doc, s) /\ ExactStack(doc, cache, s)
  BY LenProperties DEF Inv, Typed, ValuesInv
<1>3. Activation(n) \in Activations(doc)
  BY DEF Activation, Activations, Items, ItemsOf
<1>4. /\ Len(new) = m + 1
      /\ \A i \in 1 .. m : new[i] = s[i]
      /\ new[m + 1] = Activation(n)
  BY <1>2, <1>3, AppendProperties
<1> HIDE DEF new
<1>5. LinkedStack(doc, new)
  <2> SUFFICES ASSUME NEW i \in 1 .. m
               PROVE  new[i + 1].item = BindingIn(doc, new[i].item, new[i].done + 1)
    BY <1>2, <1>4 DEF LinkedStack
  <2>1. CASE i = m
    <3>1. s # <<>>
      BY <2>1
    <3>2. Asked(doc, cache, s[m], n)
      BY <1>1, <3>1, AskerAsked
    <3>3. n = BindingIn(doc, s[m].item, s[m].done + 1)
      BY <1>1, <3>2 DEF Asked
    <3> QED
      BY <1>4, <2>1, <3>3 DEF Activation
  <2>2. CASE i # m
    <3>1. i \in 1 .. m - 1 /\ i + 1 \in 1 .. m
      BY <1>2, <2>2
    <3> QED
      BY <1>2, <1>4, <3>1 DEF LinkedStack
  <2> QED
    BY <2>1, <2>2
<1>6. ExactStack(doc, cache, new)
  <2>1. ExactSum(doc, cache, Activation(n))
    <3>1. Len(doc.uses[n]) \in Nat
      BY DocumentShape, LenProperties DEF Inv, Typed, Items, ItemsOf
    <3> QED
      BY <3>1, SumsStep DEF ExactSum, Activation
  <2> QED
    BY <1>2, <1>4, <2>1 DEF ExactStack
<1>7. \A u \in Threads : stack'[u] = IF u = t THEN new ELSE stack[u]
  BY <1>1 DEF Inv, Typed
<1> QED
  BY <1>1, <1>5, <1>6, <1>7 DEF ValuesInv

(* What a finished evaluation has to say is exact, unless it is that of a  *)
(* cell that another thread has filled.                                    *)
LEMMA OutcomeIsExact ==
    ASSUME NEW d \in Documents, AcyclicIn(d), NEW c, NEW a \in Activations(d),
           Sane(d, a), ExactSum(d, c, a),
           a.failure # Empty \/ a.done = Len(d.uses[a.item]),
           NEW r, r = IF a.failure = Empty THEN Ok(a.sum) ELSE a.failure
    PROVE  Exact(d, a.item, r) \/ (d.kind[a.item] = "cell" /\ c[a.item] # Empty)
<1>1. CASE a.failure # Empty
  BY <1>1 DEF ExactSum, Exact
<1>2. CASE a.failure = Empty
  <2>1. a.item \in ItemsOf(d) /\ r = Ok(a.sum) /\ r.tag = "ok"
    BY <1>2 DEF Activations, Ok
  <2>2. MeaningIn(d)[a.item] = SumsIn(d, MeaningIn(d), a.item)[a.done]
    BY <1>2, <2>1, MeaningEquation
  <2> QED
    BY <1>2, <2>1, <2>2 DEF ExactSum, Exact
<1> QED
  BY <1>1, <1>2

LEMMA FinishValues ==
    ASSUME Inv, ValuesInv, AcyclicIn(doc), NEW t \in Threads, Finish(t)
    PROVE  /\ \A u \in Threads :
                  LinkedStack(doc, stack'[u]) /\ ExactStack(doc, cache', stack'[u])
           /\ ExactCaches(doc, cache')
<1> DEFINE s == stack[t]
           m == Len(s)
           a == s[m]
           n == a.item
           r == IF a.failure = Empty THEN Ok(a.sum) ELSE a.failure
           answer == Answer(n, r)
           kept == Keep(n, r)
           rest == Below(t)
<1>1. /\ s # <<>>
      /\ a.failure # Empty \/ a.done = Len(doc.uses[n])
      /\ cache' = [cache EXCEPT ![n] = kept]
      /\ Deliver(t, n, answer, rest)
  BY DEF Finish, Top, IsOver
<1>2. /\ doc \in Documents
      /\ s \in Seq(Activations(doc)) /\ GoodStack(doc, s) /\ m \in Nat \ {0}
      /\ LinkedStack(doc, s) /\ ExactStack(doc, cache, s)
  BY <1>1, EmptySeq DEF Inv, Typed, StacksAreGood, ValuesInv
<1>3. m \in 1 .. m /\ a \in Activations(doc) /\ Sane(doc, a) /\ ExactSum(doc, cache, a)
  BY <1>2, ElementOfSeq DEF GoodStack, ExactStack
<1>4. n \in ItemsOf(doc) /\ n \in Items
  BY <1>3 DEF Activations, Items, ItemsOf
<1>5. Exact(doc, n, r) \/ (doc.kind[n] = "cell" /\ cache[n] # Empty)
  BY <1>1, <1>2, <1>3, OutcomeIsExact
<1>6. r \in Results /\ r # Empty
  <2>1. CASE a.failure = Empty
    BY <1>3, <2>1, ValueIsAResult DEF Activations
  <2>2. CASE a.failure # Empty
    BY <1>3, <2>2 DEF Activations
  <2> QED
    BY <2>1, <2>2
<1>7. /\ cache \in [Items -> Results \cup {Empty}]
      /\ cache[n] = Empty \/ Exact(doc, n, cache[n])
  BY <1>4 DEF Inv, Typed, ValuesInv, ExactCaches
<1> HIDE DEF r
<1>8. /\ kept \in {Empty, r, cache[n]}
      /\ doc.kind[n] = "cell" => kept = IF cache[n] = Empty THEN r ELSE cache[n]
  BY KeepCases
<1>9. kept = Empty \/ Exact(doc, n, kept)
  BY <1>5, <1>7, <1>8
<1>10. answer \in Results /\ Exact(doc, n, answer)
  <2>1. doc.kind[n] # "cell" => answer = r
    BY DEF Answer
  <2>2. doc.kind[n] = "cell" => answer = kept /\ kept # Empty
    BY <1>6, <1>8 DEF Answer
  <2> HIDE DEF answer, kept
  <2> QED
    BY <1>4, <1>5, <1>6, <1>7, <1>8, <1>9, <2>1, <2>2
<1>11. CellsStayFilled(doc, cache, cache')
  <2> HIDE DEF kept
  <2> QED
    BY <1>1, <1>4, <1>7, <1>8 DEF CellsStayFilled, Items, ItemsOf
<1> HIDE DEF answer, kept
<1>12. /\ rest \in Seq(Activations(doc))
       /\ Len(rest) = m - 1
       /\ \A i \in 1 .. m - 1 : rest[i] = s[i]
  BY <1>1, BelowTheTop DEF Inv
<1> HIDE DEF rest
<1>13. rest # <<>> => Asked(doc, cache, rest[Len(rest)], n)
  <2> SUFFICES ASSUME rest # <<>> PROVE Asked(doc, cache, rest[Len(rest)], n)
    OBVIOUS
  <2> DEFINE k == m - 1
             b == s[k]
  <2>1. k \in 1 .. m - 1 /\ k \in 1 .. m /\ k + 1 = m
    BY <1>2, <1>12, EmptySeq
  <2>2. b \in Activations(doc) /\ Waiting(doc, b)
    BY <1>2, <2>1, ElementOfSeq DEF GoodStack
  <2>3. n = BindingIn(doc, b.item, b.done + 1)
    BY <1>2, <2>1 DEF LinkedStack
  <2>4. rest[Len(rest)] = b
    BY <1>12, <2>1
  <2> HIDE DEF b, n
  <2>5. b.item \in ItemsOf(doc) /\ b.done \in Nat
    BY <2>2 DEF Activations
  <2>6. Len(doc.uses[b.item]) \in Nat
    BY <1>2, <2>5, DocumentShape, LenProperties
  <2> QED
    BY <2>2, <2>3, <2>4, <2>5, <2>6 DEF Asked, Waiting
<1>14. \A u \in Threads : LinkedStack(doc, stack'[u]) /\ ExactStack(doc, cache', stack'[u])
  <2>1. Len(rest) <= Len(stack[t]) /\ \A i \in 1 .. Len(rest) : rest[i] = stack[t][i]
    BY <1>2, <1>12
  <2> HIDE DEF n
  <2> QED
    BY <1>1, <1>10, <1>11, <1>12, <1>13, <2>1, DeliverIsExact
<1>15. ExactCaches(doc, cache')
  BY <1>1, <1>4, <1>7, <1>9 DEF ValuesInv, ExactCaches, Items, ItemsOf
<1> QED
  BY <1>14, <1>15

LEMMA NextValues == Inv /\ ValuesInv /\ [Next]_vars => ValuesInv'
<1> SUFFICES ASSUME Inv, ValuesInv, [Next]_vars PROVE ValuesInv'
  OBVIOUS
<1>1. CASE UNCHANGED vars
  BY <1>1 DEF vars, ValuesInv
<1>2. CASE Next
  <2>1. doc' = doc
    BY <1>2 DEF Next, Evaluate, Hit, Refuse, Begin, Finish
  <2> SUFFICES ASSUME AcyclicIn(doc)
               PROVE  /\ \A u \in Threads :
                             LinkedStack(doc, stack'[u]) /\ ExactStack(doc, cache', stack'[u])
                      /\ ExactCaches(doc, cache')
    BY <2>1 DEF ValuesInv
  <2> QED
    BY <1>2, HitValues, RefuseValues, BeginValues, FinishValues DEF Next, Evaluate
<1> QED
  BY <1>1, <1>2

(* Whatever threads read a document without cycles, and from wherever they *)
(* enter it, a cache only ever holds what its expression means; only where *)
(* some thread has less room than there are items may it hold the depth    *)
(* error, or depend on an index that was built without a label.            *)
THEOREM ValuesAreAlwaysExact == Spec => []ValuesAreExact
<1>1. Inv /\ ValuesInv => ValuesAreExact
  <2> SUFFICES ASSUME Inv, ValuesInv, ~IsCyclic, NEW n \in Items
               PROVE  \/ cache[n] \in {Empty, Ok(Meaning[n])}
                      \/ /\ \E t \in Threads : Room[t] < Cardinality(Items)
                         /\ cache[n] = TooDeep \/ ReadsIndex(n)
    BY DEF ValuesAreExact
  <2>1. ExactCaches(doc, cache)
    BY SameCycles DEF ValuesInv
  <2>2. Items = ItemsOf(doc)
    BY DEF Items, ItemsOf
  <2> QED
    BY <2>1, <2>2, SameMeaning, SameIndexes DEF ExactCaches, Exact, IsShort
<1>2. Spec => [](Inv /\ ValuesInv)
  BY InitInv, NextInv, InitValues, NextValues, PTL DEF Spec
<1> QED
  BY <1>1, <1>2, PTL

-----------------------------------------------------------------------------
(* Threads that wait for each other.                                       *)

LEMMA ReachesOn ==
    ASSUME NEW d, NEW a, NEW b, NEW c, ReachesIn(d, a, b), ReachesIn(d, b, c)
    PROVE  ReachesIn(d, a, c)
  BY DEF ReachesIn

(* Where each item of a set leads to another one of it, one leads back to  *)
(* itself: the one that leads to the fewest.                               *)
LEMMA SomethingLoops ==
    ASSUME NEW d \in Documents, NEW X, X \subseteq ItemsOf(d), X # {},
           \A x \in X : \E y \in X : ReachesIn(d, x, y)
    PROVE  \E x \in X : ReachesIn(d, x, x)
<1> DEFINE After(x) == {y \in X : ReachesIn(d, x, y)}
           sizes == {Cardinality(After(x)) : x \in X}
<1>1. \A x \in X : IsFiniteSet(After(x)) /\ Cardinality(After(x)) \in Nat
  <2> SUFFICES ASSUME NEW x \in X
               PROVE  IsFiniteSet(After(x)) /\ Cardinality(After(x)) \in Nat
    OBVIOUS
  <2>1. After(x) \in SUBSET ItemsOf(d)
    OBVIOUS
  <2>2. IsFiniteSet(After(x))
    BY <2>1, FiniteItems, FS_Subset
  <2> QED
    BY <2>2, FS_CardinalityType
<1>2. PICK x \in X : \A y \in X : Cardinality(After(x)) <= Cardinality(After(y))
  <2> HIDE DEF After
  <2>1. sizes # {} /\ sizes \subseteq Nat
    BY <1>1
  <2>2. PICK c \in sizes : \A j \in sizes : c <= j
    <3> HIDE DEF sizes
    <3> QED
      BY <2>1, FirstPosition
  <2> QED
    BY <2>2
<1>3. PICK y \in X : ReachesIn(d, x, y)
  OBVIOUS
<1>4. After(y) \in SUBSET After(x) /\ y \in After(x)
  BY <1>3, ReachesOn
<1> HIDE DEF After
<1>5. Cardinality(After(y)) <= Cardinality(After(x))
  BY <1>1, <1>4, FS_Subset
<1>6. Cardinality(After(x)) = Cardinality(After(y))
  BY <1>1, <1>2, <1>5
<1>7. After(x) = After(y)
  BY <1>1, <1>4, <1>6, FS_Subset
<1> QED
  BY <1>4, <1>7 DEF After

(* Whatever a thread is inside leads to what the thread waits for; and an  *)
(* index that it is inside it never waits for: that is a cycle.            *)
LEMMA AwaitedIsReached ==
    ASSUME Inv, NEW t \in Threads, NEW n \in Items, Awaits(t, n), NEW m, Inside(t, m)
    PROVE  /\ ReachesIn(doc, m, n)
           /\ doc.kind[n] \in {"index", "labels"}
           /\ doc.kind[n] = "index" => m # n
<1> DEFINE s == stack[t]
           k == Len(s)
<1>1. s # <<>> /\ Asks(t, n) /\ Refusal(t, n) = Empty /\ doc.kind[n] \in {"index", "labels"}
  BY DEF Awaits, Held
<1>2. k \in Nat \ {0} /\ n \in MayUseIn(doc, s[k].item)
  BY <1>1, AskerWaits
<1>3. PICK i \in 1 .. k : s[i].item = m
  BY DEF Inside
<1>4. ReachesIn(doc, m, n)
  <2>1. CASE i = k
    BY <1>2, <1>3, <2>1, UseIsReached
  <2>2. CASE i # k
    <3>1. k \in 1 .. k /\ i < k
      BY <1>2, <2>2
    <3>2. ReachesIn(doc, m, s[k].item)
      BY <1>3, <3>1 DEF Inv, StacksAreGood, GoodStack
    <3> QED
      BY <1>2, <3>2, ReachesOneMore
  <2> QED
    BY <2>1, <2>2
<1>5. doc.kind[n] = "index" => ~IsActive(t, n)
  <2>1. Cycle(n) # Empty
    BY CycleIsAResult DEF Inv, Typed, Items, ItemsOf
  <2> QED
    BY <1>1, <2>1 DEF Refusal
<1> QED
  BY <1>1, <1>4, <1>5 DEF IsActive

(* Where threads wait for each other, some block's labels are computed     *)
(* from themselves: each thread of the circle is inside what another one   *)
(* waits for, and the one index is not waited for by who builds it.        *)
THEOREM HangsAreAlwaysReentrant == Spec => []HangsAreReentrant
<1>1. Inv => HangsAreReentrant
  <2> SUFFICES ASSUME Inv, ~NobodyHangs
               PROVE  \E n \in Items : doc.kind[n] = "labels" /\ Reaches(n, n)
    BY DEF HangsAreReentrant
  <2>1. PICK S \in (SUBSET Threads) \ {{}} :
            \A t \in S : \E n \in Items : Awaits(t, n) /\ \E u \in S : Inside(u, n)
    BY DEF NobodyHangs
  <2> DEFINE X == {n \in Items : /\ \E t \in S : Awaits(t, n)
                                 /\ \E u \in S : Inside(u, n)}
             Y == {n \in X : doc.kind[n] = "labels"}
  <2>2. ASSUME NEW n \in X
        PROVE  \E m \in X : /\ ReachesIn(doc, n, m)
                            /\ doc.kind[n] = "index" => doc.kind[m] = "labels"
    <3>1. PICK u \in S : Inside(u, n)
      BY <2>2
    <3>2. PICK m \in Items : Awaits(u, m) /\ \E v \in S : Inside(v, m)
      BY <2>1
    <3>3. /\ ReachesIn(doc, n, m)
          /\ doc.kind[m] \in {"index", "labels"}
          /\ doc.kind[m] = "index" => n # m
      BY <3>1, <3>2, AwaitedIsReached
    <3>4. doc.kind[n] = "index" => doc.kind[m] # "index"
      BY <3>3, IndexesAssumption DEF Inv, Typed, IndexAssumption, Items
    <3> QED
      BY <3>2, <3>3, <3>4
  <2>3. \A n \in X : doc.kind[n] \in {"index", "labels"}
    BY DEF Awaits, Held
  <2>4. X # {}
    BY <2>1
  <2> HIDE DEF X
  <2>5. Y # {}
    <3>1. PICK n \in X : TRUE
      BY <2>4
    <3> QED
      BY <2>2, <2>3, <3>1
  <2>6. ASSUME NEW n \in Y PROVE \E m \in Y : ReachesIn(doc, n, m)
    <3>1. PICK m \in X : ReachesIn(doc, n, m)
      BY <2>2
    <3>2. CASE doc.kind[m] = "labels"
      BY <3>1, <3>2
    <3>3. CASE doc.kind[m] # "labels"
      <4>1. PICK l \in X : ReachesIn(doc, m, l) /\ doc.kind[l] = "labels"
        BY <2>2, <2>3, <3>3
      <4> QED
        BY <3>1, <4>1, ReachesOn
    <3> QED
      BY <3>2, <3>3
  <2>7. Y \subseteq ItemsOf(doc) /\ doc \in Documents
    BY DEF X, Items, ItemsOf, Inv, Typed
  <2>8. PICK n \in Y : ReachesIn(doc, n, n)
    <3> HIDE DEF Y
    <3> QED
      BY <2>5, <2>6, <2>7, SomethingLoops
  <2> QED
    BY <2>8, SameReach DEF X
<1> QED
  BY <1>1, AlwaysInv, PTL
=============================================================================
