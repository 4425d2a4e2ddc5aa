--------------------------- MODULE RebuildService ---------------------------
(***************************************************************************)
(* What `POST /__wdoc_rebuild` promises: a request waits until a build is   *)
(* done, and the build whose report it gets began after the request came.  *)
(* Builds are numbered; `last` is the number of the latest that began.     *)
(***************************************************************************)
EXTENDS Naturals

CONSTANT Requests

VARIABLES last, asked, answer

vars == <<last, asked, answer>>

\* asked[r] is the number of the latest build when r came, plus one; 0 until
\* then.  answer[r] is the build that r was told about, 0 until then.
TypeOK ==
    /\ last \in Nat
    /\ asked \in [Requests -> Nat]
    /\ answer \in [Requests -> Nat]

Init ==
    /\ last = 1
    /\ asked = [r \in Requests |-> 0]
    /\ answer = [r \in Requests |-> 0]

Ask(r) ==
    /\ asked[r] = 0
    /\ asked' = [asked EXCEPT ![r] = last + 1]
    /\ UNCHANGED <<last, answer>>

Build ==
    /\ last' = last + 1
    /\ UNCHANGED <<asked, answer>>

\* Every number from asked[r] on is a build that began after r came.  No two
\* requests are told about the same build.
Answer(r, n) ==
    /\ asked[r] # 0
    /\ answer[r] = 0
    /\ \A other \in Requests : answer[other] # n
    /\ answer' = [answer EXCEPT ![r] = n]
    /\ UNCHANGED <<last, asked>>

Next ==
    \/ Build
    \/ \E r \in Requests : Ask(r) \/ \E n \in asked[r] .. last : Answer(r, n)

Spec == Init /\ [][Next]_vars
=============================================================================
