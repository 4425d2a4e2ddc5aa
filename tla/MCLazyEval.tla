---------------------------- MODULE MCLazyEval ----------------------------
(* Small documents for the lazy evaluator, each one a trap of its own. *)
EXTENDS LazyEval, TLC

CONSTANTS t1, t2, a, b, c, d, e

\* An inner `a = a + b` under an outer a (here c), read by d and by b.
Shadow ==
    [kind |-> [n \in {a, b, c, d} |-> "cell"],
     uses |-> (a :> <<<<a, c>>, <<b>>>>) @@ (b :> <<<<c>>>>)
              @@ (c :> <<>>) @@ (d :> <<<<a, c>>, <<b>>>>)]

\* a = b and b = a, with an a further out (c): a cycle only when entered at b.
ShadowedRing ==
    [kind |-> [n \in {a, b, c, d} |-> "cell"],
     uses |-> (a :> <<<<b>>>>) @@ (b :> <<<<a, c>>>>)
              @@ (c :> <<>>) @@ (d :> <<<<a>>, <<b>>>>)]

\* A ring and a field that leads into it.
Ring ==
    [kind |-> [n \in {a, b, c, d} |-> "cell"],
     uses |-> (a :> <<<<b>>>>) @@ (b :> <<<<c>>>>)
              @@ (c :> <<<<a>>>>) @@ (d :> <<<<b>>>>)]

\* A chain longer than the smaller stack, and a second way into it.
Chain ==
    [kind |-> [n \in {a, b, c, d, e} |-> "cell"],
     uses |-> (a :> <<<<b>>>>) @@ (b :> <<<<c>>>>) @@ (c :> <<<<d>>>>)
              @@ (d :> <<>>) @@ (e :> <<<<c>>, <<a>>>>)]

\* A label that reads count (a), which reads the projection (b), which asks
\* the index (c) that evaluates the label; the field d reads the projection.
LabelReadsConnections ==
    [kind |-> (a :> "cell") @@ (b :> "projection") @@ (c :> "index") @@ (d :> "cell"),
     uses |-> (a :> <<<<b>>>>) @@ (b :> <<<<c>>>>)
              @@ (c :> <<<<a>>>>) @@ (d :> <<<<b>>>>)]

\* A field (d) that reads a projection (b) and thereby builds the index (c)
\* when there is hardly room left for the labels that it evaluates (a, e).
DeepIndex ==
    [kind |-> (a :> "cell") @@ (b :> "projection") @@ (c :> "index") @@ (d :> "cell")
              @@ (e :> "cell"),
     uses |-> (a :> <<<<e>>>>) @@ (b :> <<<<c>>>>) @@ (c :> <<<<a>>>>)
              @@ (d :> <<<<b>>>>) @@ (e :> <<>>)]

\* A function that calls itself and reads a field, called by two fields.
Recursion ==
    [kind |-> (a :> "cell") @@ (b :> "call") @@ (c :> "cell") @@ (d :> "cell"),
     uses |-> (a :> <<<<b>>>>) @@ (b :> <<<<c>>, <<b>>>>)
              @@ (c :> <<>>) @@ (d :> <<<<c>>, <<b>>>>)]

\* Two blocks whose labels (b, d) are computed from fields.
ComputedLabels ==
    [kind |-> (a :> "cell") @@ (b :> "labels") @@ (c :> "cell") @@ (d :> "labels"),
     uses |-> (a :> <<<<b>>, <<d>>>>) @@ (b :> <<<<c>>>>)
              @@ (c :> <<>>) @@ (d :> <<<<b>>, <<c>>>>)]

\* A block label (b) computed from a field (a) whose path goes through the
\* block by its label.
LabelReadsItself ==
    [kind |-> (a :> "cell") @@ (b :> "labels"),
     uses |-> (a :> <<<<b>>>>) @@ (b :> <<<<a>>>>)]

Readable ==
    {Shadow, ShadowedRing, Ring, Chain, LabelReadsConnections, DeepIndex, Recursion,
     ComputedLabels}
Hanging == {LabelReadsItself}

MCThreads == {t1, t2}
MCRoom == (t1 :> 4) @@ (t2 :> 3)
=============================================================================
