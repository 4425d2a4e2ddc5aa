------------------------------ MODULE LazyEval ------------------------------
(***************************************************************************)
(* The lazy evaluation of a WCL document by several threads                *)
(* (crates/wcl_lang/src/doc): the per-thread evaluation stack              *)
(* (eval_stack.rs), the caches it guards, and the scope lookup that skips  *)
(* a binding whose own right-hand side is being evaluated.                 *)
(*                                                                         *)
(* A document is a set of items.  Each item has a cache of one of the      *)
(* kinds below, and an expression that is only known by the names it       *)
(* looks up, in order; a name is the sequence of the items it may be       *)
(* bound to, innermost scope first.                                        *)
(*   cell        field or `let`: FieldCell, first result wins, errors too  *)
(*   projection  a `@connections` field: memoised when it succeeds         *)
(*   index       the connection operands: OnceLock, later threads wait;    *)
(*               operands that fail to evaluate are passed over            *)
(*   labels      of a block: OnceLock, later threads wait, and no frame    *)
(*   call        of a `fn`: counts as a frame, never cached                *)
(* The value of an item is one more than the sum of the values it used,    *)
(* enough to tell a value computed from the wrong binding.                 *)
(***************************************************************************)
EXTENDS Naturals, Sequences, FiniteSets

CONSTANTS
    Threads,    \* the threads that read the document
    Documents,  \* the documents: records of `kind` and `uses`
    Room,       \* the frames each thread can hold: MAX_EVAL_DEPTH, or fewer
                \* on a thread whose own stack runs low earlier
    Empty       \* a cache that holds nothing yet

Kinds == {"cell", "projection", "index", "labels", "call"}

DocumentAssumption(d) ==
    /\ IsFiniteSet(DOMAIN d.kind)
    /\ d.kind \in [DOMAIN d.kind -> Kinds]
    /\ d.uses \in [DOMAIN d.kind -> Seq(Seq(DOMAIN d.kind) \ {<<>>})]

\* project_connections looks its operands up in the index alone; labels of
\* the enclosing blocks that fail to evaluate are passed over there too.
ProjectionAssumption(d) ==
    \A n \in DOMAIN d.kind : d.kind[n] = "projection" =>
        \A k \in 1 .. Len(d.uses[n]) : \A i \in 1 .. Len(d.uses[n][k]) :
            d.kind[d.uses[n][k][i]] = "index"

\* A Document has one conn_operand_index.
IndexAssumption(d) ==
    \A m, n \in DOMAIN d.kind : d.kind[m] = "index" /\ d.kind[n] = "index" => m = n

ASSUME DocumentsAssumption == \A d \in Documents : DocumentAssumption(d)
ASSUME ProjectionsAssumption == \A d \in Documents : ProjectionAssumption(d)
ASSUME IndexesAssumption == \A d \in Documents : IndexAssumption(d)
ASSUME RoomAssumption == Room \in [Threads -> Nat \ {0}]

VARIABLES
    doc,    \* the open document
    cache,  \* what each item's cache holds
    stack,  \* the evaluations each thread is inside, outermost first
    seen    \* history: the results that finished reads of an item returned

vars == <<doc, cache, stack, seen>>

Items == DOMAIN doc.kind

Ok(v) == [tag |-> "ok", of |-> v]
Cycle(n) == [tag |-> "cycle", of |-> n]
TooDeep == [tag |-> "deep", of |-> 0]

AllItems == UNION {DOMAIN d.kind : d \in Documents}
Results == [tag : {"ok"}, of : Nat] \cup [tag : {"cycle"}, of : AllItems] \cup {TooDeep}

ASSUME EmptyAssumption == Empty \notin Results

\* An evaluation: the item, how many of its names are done, the value so
\* far, and the error that ended it, if any.
Activation(n) == [item |-> n, done |-> 0, sum |-> 1, failure |-> Empty]

-----------------------------------------------------------------------------
Top(t) == stack[t][Len(stack[t])]
Below(t) == SubSeq(stack[t], 1, Len(stack[t]) - 1)

Inside(t, n) == \E i \in 1 .. Len(stack[t]) : stack[t][i].item = n

\* is_active: a call is never looked up, labels have no frame.
IsActive_AnyThread(t, n) ==
    doc.kind[n] \in {"cell", "projection", "index"} /\ \E u \in Threads : Inside(u, n)
IsActive_NotTheIndex(t, n) ==
    doc.kind[n] \in {"cell", "projection"} /\ Inside(t, n)
IsActive(t, n) ==
    doc.kind[n] \in {"cell", "projection", "index"} /\ Inside(t, n)

Depth(t) ==
    Cardinality({i \in 1 .. Len(stack[t]) : doc.kind[stack[t][i].item] # "labels"})

IsFull_OffByOne(t) == Depth(t) > Room[t]
IsFull(t) == Depth(t) >= Room[t]

MidEvaluation(t, n) ==
    doc.kind[n] = "cell" /\ cache[n] = Empty /\ IsActive(t, n)

\* scope_lookup: the innermost binding that is not being defined, or the
\* innermost one when all are.
ScopeLookup_Innermost(t, bindings) == bindings[1]
ScopeLookup(t, bindings) ==
    LET resolving == {i \in 1 .. Len(bindings) : ~MidEvaluation(t, bindings[i])}
    IN  IF resolving = {} THEN bindings[1]
        ELSE bindings[CHOOSE i \in resolving : \A j \in resolving : i <= j]

IsOver(a) == a.failure # Empty \/ a.done = Len(doc.uses[a.item])

\* Thread t asks for the item n: the host reads it, or the evaluation on
\* top of the stack looks up its next name.
Asks(t, n) ==
    IF stack[t] = <<>> THEN TRUE
    ELSE ~IsOver(Top(t)) /\ n = ScopeLookup(t, doc.uses[Top(t).item][Top(t).done + 1])

\* OnceLock::get_or_init runs one initialiser at a time.
Held(n) ==
    doc.kind[n] \in {"index", "labels"} /\ \E t \in Threads : Inside(t, n)

\* Why eval_stack::enter refuses a frame for n, if it does.
Refusal(t, n) ==
    IF doc.kind[n] = "labels" THEN Empty
    ELSE IF IsActive(t, n) THEN Cycle(n)
    ELSE IF IsFull(t) THEN TooDeep
    ELSE Empty

-----------------------------------------------------------------------------
\* An evaluation goes on with the result of the name it looked up.
Receive(a, result) ==
    IF result.tag = "ok"
    THEN [a EXCEPT !.done = @ + 1, !.sum = @ + result.of]
    ELSE IF doc.kind[a.item] = "index"
    THEN [a EXCEPT !.done = @ + 1]
    ELSE [a EXCEPT !.failure = result]

\* The result for n goes to the evaluation that asked, or to the reader.
Deliver(t, n, result, rest) ==
    IF rest = <<>>
    THEN /\ stack' = [stack EXCEPT ![t] = <<>>]
         /\ seen' = [seen EXCEPT ![n] = @ \cup {result}]
    ELSE /\ stack' = [stack EXCEPT
                ![t] = [rest EXCEPT ![Len(rest)] = Receive(@, result)]]
         /\ seen' = seen

\* What the cache of n holds once a result for it is there: the first result
\* of a cell or a OnceLock, the last success of a projection.
Keep_EveryFailure(n, result) ==
    IF doc.kind[n] = "call" THEN Empty
    ELSE IF doc.kind[n] = "projection" THEN result
    ELSE IF cache[n] = Empty THEN result ELSE cache[n]
Keep(n, result) ==
    IF doc.kind[n] = "call" THEN Empty
    ELSE IF doc.kind[n] = "projection"
    THEN IF result.tag = "ok" THEN result ELSE cache[n]
    ELSE IF cache[n] = Empty THEN result ELSE cache[n]

\* What the evaluation of n answers: what the cell holds, which another
\* thread may have filled first.
Answer_Own(n, result) == result
Answer(n, result) ==
    IF doc.kind[n] = "cell" THEN Keep(n, result) ELSE result

-----------------------------------------------------------------------------
Init ==
    /\ doc \in Documents
    /\ cache = [n \in Items |-> Empty]
    /\ stack = [t \in Threads |-> <<>>]
    /\ seen = [n \in Items |-> {}]

\* The cache answers.
Hit(t, n) ==
    /\ Asks(t, n)
    /\ cache[n] # Empty
    /\ Deliver(t, n, cache[n], stack[t])
    /\ UNCHANGED <<doc, cache>>

\* The frame is refused.  A cell keeps the refusal, as any other error; an
\* index or a projection is only told.
Refuse(t, n) ==
    /\ Asks(t, n)
    /\ cache[n] = Empty
    /\ Refusal(t, n) # Empty
    /\ cache' = [cache EXCEPT ![n] =
           IF doc.kind[n] \in {"cell", "projection"} THEN Keep(n, Refusal(t, n)) ELSE @]
    /\ Deliver(t, n, Refusal(t, n), stack[t])
    /\ UNCHANGED doc

\* The evaluation of n begins.  A thread that finds a OnceLock being
\* initialised waits here, also when it is the one that initialises it.
Begin(t, n) ==
    /\ Asks(t, n)
    /\ cache[n] = Empty
    /\ Refusal(t, n) = Empty
    /\ ~Held(n)
    /\ stack' = [stack EXCEPT ![t] = Append(@, Activation(n))]
    /\ UNCHANGED <<doc, cache, seen>>

\* The evaluation on top of the stack is over: its frame is popped, the
\* cache is filled and the result handed down.
Finish(t) ==
    /\ stack[t] # <<>>
    /\ IsOver(Top(t))
    /\ LET n == Top(t).item
           result == IF Top(t).failure = Empty THEN Ok(Top(t).sum)
                     ELSE Top(t).failure
       IN  /\ cache' = [cache EXCEPT ![n] = Keep(n, result)]
           /\ Deliver(t, n, Answer(n, result), Below(t))
    /\ UNCHANGED doc

Evaluate(t) ==
    \/ \E n \in Items : Hit(t, n) \/ Refuse(t, n) \/ Begin(t, n)
    \/ Finish(t)

Next == \E t \in Threads : Evaluate(t)

Spec == Init /\ [][Next]_vars

\* A thread that evaluates keeps running; nobody has to read anything.
FairSpec ==
    Spec /\ \A t \in Threads : WF_vars(stack[t] # <<>> /\ Evaluate(t))

-----------------------------------------------------------------------------
(* What the expressions mean, whatever the order of evaluation. *)

\* Every item n may look up.
MayUse(n) ==
    UNION {{doc.uses[n][k][i] : i \in 1 .. Len(doc.uses[n][k])}
              : k \in 1 .. Len(doc.uses[n])}

\* b is in every set that holds what a may use and is closed under use.
Reaches(a, b) ==
    \A S \in SUBSET Items :
        MayUse(a) \subseteq S /\ (\A x \in S : MayUse(x) \subseteq S) => b \in S

\* The items the names of n stand for: a field or a `let' is not in scope of
\* its own right-hand side when an outer one has the same name.
Binding(n, k) ==
    LET others == {i \in 1 .. Len(doc.uses[n][k]) :
                      doc.uses[n][k][i] # n \/ doc.kind[n] # "cell"}
    IN  IF others = {} THEN n
        ELSE doc.uses[n][k][CHOOSE i \in others : \A j \in others : i <= j]
Uses(n) == {Binding(n, k) : k \in 1 .. Len(doc.uses[n])}

\* Some nonempty set of items all use another one of the set.
IsCyclic ==
    \E S \in (SUBSET Items) \ {{}} : \A n \in S : Uses(n) \cap S # {}

\* What n adds up to, name by name, where m has the values it uses.
Sums(m, n) ==
    LET s[k \in 0 .. Len(doc.uses[n])] ==
            IF k = 0 THEN 1 ELSE s[k - 1] + m[Binding(n, k)]
    IN  s

\* The value of each item of a document without cycles.
Meaning ==
    LET m[n \in Items] == Sums(m, n)[Len(doc.uses[n])]
    IN  m

-----------------------------------------------------------------------------
(* Properties. *)

\* No thread ever holds more frames than it has room for.
TypeOK ==
    /\ doc \in Documents
    /\ DOMAIN cache = Items
    /\ \A n \in Items :
           cache[n] = Empty \/ cache[n].tag \in {"ok", "cycle", "deep"}
    /\ \A t \in Threads :
           /\ \A i \in 1 .. Len(stack[t]) : stack[t][i].item \in Items
           /\ Depth(t) <= Room[t]

\* A field reports the same result on every read, on every thread, also when
\* two threads enter a cycle or a long chain from different ends.
ReadsAgree ==
    \A n \in Items : doc.kind[n] = "cell" => \A r, s \in seen[n] : r = s

\* Work in flight on another thread is never mistaken for a cycle.
CyclesAreReal ==
    \A n \in Items :
        cache[n] # Empty /\ cache[n].tag = "cycle" =>
            Reaches(cache[n].of, cache[n].of)

\* What n holds depends on a connection index.
ReadsIndex(n) ==
    \E b \in Items : doc.kind[b] = "index" /\ (b = n \/ Reaches(n, b))

\* Without a cycle every cache holds the value its expression means.  On a
\* chain longer than some thread has room for it may hold the depth error,
\* and an index passes over a label that got it, for good.
ValuesAreExact ==
    ~IsCyclic => \A n \in Items :
        \/ cache[n] \in {Empty, Ok(Meaning[n])}
        \/ /\ \E t \in Threads : Room[t] < Cardinality(Items)
           /\ cache[n] = TooDeep \/ ReadsIndex(n)

\* A projection only fails with a cycle while it is re-entered: nobody who
\* reads it from outside is told that it, or the index, is one.
ProjectionsHeal ==
    \A n \in Items : doc.kind[n] = "projection" => \A r \in seen[n] : r.tag # "cycle"

\* Thread t waits for the OnceLock of n.
Awaits(t, n) ==
    stack[t] # <<>> /\ Asks(t, n) /\ cache[n] = Empty /\ Refusal(t, n) = Empty /\ Held(n)

\* No threads wait for each other, nor one for itself.
NobodyHangs ==
    \A S \in (SUBSET Threads) \ {{}} :
        \E t \in S : \A n \in Items :
            Awaits(t, n) => \A u \in S : ~Inside(u, n)

\* What can make threads wait for each other is a block whose labels are
\* computed from those same labels: nothing else in a document does.
HangsAreReentrant ==
    NobodyHangs \/ \E n \in Items : doc.kind[n] = "labels" /\ Reaches(n, n)

\* Every read ends, with a value or an error.
EveryReadEnds == \A t \in Threads : stack[t] # <<>> ~> stack[t] = <<>>
=============================================================================
