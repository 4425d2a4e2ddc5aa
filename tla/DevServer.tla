----------------------------- MODULE DevServer -----------------------------
(***************************************************************************)
(* The processes of `wcl wdoc serve` (src/serve/mod.rs): the rebuild worker *)
(* with its request channel, the `/__wdoc_rebuild` and `/__wdoc_reload`    *)
(* handlers, the static handler for one page, and the reload script that   *)
(* runs in a browser.  What a build does to the output directory is the    *)
(* subject of SiteBuild; here a build is its number, the moment it writes  *)
(* the page, and whether it succeeds.                                      *)
(***************************************************************************)
EXTENDS Naturals, Sequences

CONSTANTS
    Requests,     \* the calls of POST /__wdoc_rebuild
    Browsers,     \* browser tabs that show the page
    Console,      \* a request by Enter in the console
    MaxEnters     \* bound on those

ASSUME ConsoleAssumption == Console \notin Requests
ASSUME EntersAssumption == MaxEnters \in Nat

VARIABLES
    queue,        \* the channel of RebuildReq
    worker,       \* the request, step, number and outcome of the worker
    generation,   \* ServeState::generation
    error,        \* the failed build in ServeState::error, 0 for None
    page,         \* the build that the page on disk is a result of
    request,      \* each POST: its state, the builds begun before it, its report
    browser,      \* each tab
    enters

server == <<queue, worker, generation, error, page>>
vars == <<server, request, browser, enters>>

Waiter == Requests \cup {Console}

\* Number 1 is the initial build, done before the listener is bound.
Init ==
    /\ queue = <<>>
    /\ worker = [step |-> "idle", for |-> Console, build |-> 1, ok |-> TRUE]
    /\ generation = 1
    /\ error \in {0, 1}
    /\ page = IF error = 0 THEN 1 ELSE 0
    /\ request = [r \in Requests |-> [state |-> "new", since |-> 0, report |-> 0]]
    /\ browser = [b \in Browsers |->
                    [at |-> "away", shows |-> 0, known |-> 0, seen |-> 0, due |-> 0]]
    /\ enters = 0

-----------------------------------------------------------------------------
(* Rebuild requests. *)

\* handle_rebuild sends the request and waits for the report.
Post(r) ==
    /\ request[r].state = "new"
    /\ queue' = Append(queue, r)
    /\ request' = [request EXCEPT ![r].state = "waiting",
                                  ![r].since = worker.build]
    /\ UNCHANGED <<worker, generation, error, page, browser, enters>>

\* The caller hangs up: the handler and its half of the oneshot are dropped.
HangUp(r) ==
    /\ request[r].state = "waiting"
    /\ request' = [request EXCEPT ![r].state = "gone"]
    /\ UNCHANGED <<server, browser, enters>>

PressEnter ==
    /\ enters < MaxEnters
    /\ enters' = enters + 1
    /\ queue' = Append(queue, Console)
    /\ UNCHANGED <<worker, generation, error, page, request, browser>>

-----------------------------------------------------------------------------
(* The worker: one build per request. *)

\* The outcome is recorded, then the generation bumped, then the report sent,
\* whether the build succeeds, fails or panics.
StepAfter_BumpFirst(step, ok) ==
    CASE step = "build"  -> "bump"
      [] step = "bump"   -> "record"
      [] step = "record" -> "report"
StepAfter_PanicEndsWorker(step, ok) ==
    CASE step = "build"  -> IF ok THEN "record" ELSE "ended"
      [] step = "record" -> "bump"
      [] step = "bump"   -> "report"
StepAfter(step, ok) ==
    CASE step = "build"  -> "record"
      [] step = "record" -> "bump"
      [] step = "bump"   -> "report"

Take ==
    /\ worker.step = "idle"
    /\ queue # <<>>
    /\ worker' = [step |-> "build", for |-> Head(queue),
                  build |-> worker.build + 1, ok |-> FALSE]
    /\ queue' = Tail(queue)
    /\ UNCHANGED <<generation, error, page, request, browser, enters>>

\* The page is written, or is found to need no writing.
WritePage ==
    /\ worker.step = "build"
    /\ page' = worker.build
    /\ UNCHANGED <<queue, worker, generation, error, request, browser, enters>>

\* A build that succeeds has the page written; one that fails, or panics,
\* may have.
BuildReturns(ok) ==
    /\ worker.step = "build"
    /\ ok => page = worker.build
    /\ worker' = [worker EXCEPT !.step = StepAfter("build", ok), !.ok = ok]
    /\ UNCHANGED <<queue, generation, error, page, request, browser, enters>>

RecordOutcome ==
    /\ worker.step = "record"
    /\ error' = IF worker.ok THEN 0 ELSE worker.build
    /\ worker' = [worker EXCEPT !.step = StepAfter("record", worker.ok)]
    /\ UNCHANGED <<queue, generation, page, request, browser, enters>>

Bump ==
    /\ worker.step = "bump"
    /\ generation' = generation + 1
    /\ worker' = [worker EXCEPT !.step = StepAfter("bump", worker.ok)]
    /\ UNCHANGED <<queue, error, page, request, browser, enters>>

\* The report goes to the caller of this build, if it is still there.
Answered_AllWaiting == {r \in Requests : request[r].state = "waiting"}
Answered == {r \in Requests : r = worker.for /\ request[r].state = "waiting"}
Report ==
    /\ worker.step = "report"
    /\ worker' = [worker EXCEPT !.step = "idle"]
    /\ request' = [r \in Requests |->
           IF r \in Answered
           THEN [request[r] EXCEPT !.state = "answered", !.report = worker.build]
           ELSE request[r]]
    /\ UNCHANGED <<queue, generation, error, page, browser, enters>>

-----------------------------------------------------------------------------
(* A browser tab: handle_static, handle_reload and the reload script. *)

Moves(b, tab) ==
    /\ browser' = [browser EXCEPT ![b] = tab]
    /\ UNCHANGED <<server, request, enters>>

\* The reader opens the page, or loads it again by hand.
Open(b) ==
    /\ browser[b].at = "away"
    /\ Moves(b, [at |-> "get", shows |-> 0, known |-> 0, seen |-> 0, due |-> 0])

\* handle_static looks at `error` first; a failed build has a page of its own.
CheckError(b) ==
    /\ browser[b].at = "get"
    /\ Moves(b, IF error # 0
                THEN [browser[b] EXCEPT !.at = "shown", !.shows = error]
                ELSE [browser[b] EXCEPT !.at = "file"])

\* Then it awaits the file, which a build may be writing.
ReadPage(b) ==
    /\ browser[b].at = "file"
    /\ Moves(b, [browser[b] EXCEPT !.at = "shown", !.shows = page])

\* The script asks with the generation it knows, 0 for none yet.
Poll(b) ==
    /\ browser[b].at = "shown"
    /\ Moves(b, [browser[b] EXCEPT !.at = "asked"])

\* handle_reload compares, subscribes, and waits for a change or POLL_TIMEOUT.
Asked(b) ==
    /\ browser[b].at = "asked"
    /\ Moves(b, IF browser[b].known = generation
                THEN [browser[b] EXCEPT !.at = "matched"]
                ELSE [browser[b] EXCEPT !.at = "answered", !.seen = generation])

Subscribe(b) ==
    /\ browser[b].at = "matched"
    /\ Moves(b, [browser[b] EXCEPT !.at = "parked", !.seen = generation])

Changed(b) ==
    /\ browser[b].at = "parked"
    /\ browser[b].seen # generation
    /\ Moves(b, [browser[b] EXCEPT !.at = "answered", !.seen = generation])

PollTimesOut_Never == FALSE
PollTimesOut == TRUE
TimeOut(b) ==
    /\ browser[b].at = "parked"
    /\ PollTimesOut
    /\ Moves(b, [browser[b] EXCEPT !.at = "answered", !.seen = generation])

\* The first answer is only remembered; a different one reloads the page.
Reloads(tab) == tab.known # 0 /\ tab.seen # tab.known
Receive(b) ==
    /\ browser[b].at = "answered"
    /\ Moves(b,
         IF Reloads(browser[b])
         THEN [at |-> "get", shows |-> 0, known |-> 0, seen |-> 0,
               due |-> browser[b].seen]
         ELSE [browser[b] EXCEPT !.at = "shown", !.known = browser[b].seen])

-----------------------------------------------------------------------------
Work ==
    \/ Take
    \/ WritePage
    \/ \E ok \in BOOLEAN : BuildReturns(ok)
    \/ RecordOutcome
    \/ Bump
    \/ Report

Browse(b) ==
    \/ CheckError(b)
    \/ ReadPage(b)
    \/ Poll(b)
    \/ Asked(b)
    \/ Subscribe(b)
    \/ Changed(b)
    \/ TimeOut(b)
    \/ Receive(b)

Next ==
    \/ \E r \in Requests : Post(r) \/ HangUp(r)
    \/ PressEnter
    \/ Work
    \/ \E b \in Browsers : Open(b) \/ Browse(b)

Spec == Init /\ [][Next]_vars

\* Every task of the runtime is polled, a build ends, and a browser that is
\* open runs its script.  WF on Browse covers the answer at POLL_TIMEOUT.
FairSpec ==
    /\ Spec
    /\ WF_vars(Take \/ RecordOutcome \/ Bump \/ Report)
    /\ WF_vars(\E ok \in BOOLEAN : BuildReturns(ok))
    /\ \A b \in Browsers : WF_vars(Browse(b))

-----------------------------------------------------------------------------
(* Properties. *)

Steps == {"idle", "build", "record", "bump", "report"}
Places == {"away", "get", "file", "shown", "asked", "matched", "parked", "answered"}
TypeOK ==
    /\ queue \in Seq(Waiter)
    /\ worker \in [step : Steps, for : Waiter, build : Nat, ok : BOOLEAN]
    /\ generation \in Nat /\ error \in Nat /\ page \in Nat
    /\ request \in [Requests -> [state : {"new", "waiting", "gone", "answered"},
                                 since : Nat, report : Nat]]
    /\ browser \in [Browsers -> [at : Places, shows : Nat, known : Nat,
                                 seen : Nat, due : Nat]]
    /\ enters \in 0 .. MaxEnters

\* A page that was reloaded for a generation shows the outcome of that build
\* or of a later one, never what the build replaced.
ReloadShowsOutcome ==
    \A b \in Browsers : browser[b].at \notin {"away", "get", "file"} =>
        browser[b].shows >= browser[b].due

\* No report is about a build that began before the request, and no build is
\* reported twice: the service specification.
Service == INSTANCE RebuildService WITH
    last <- worker.build,
    asked <- [r \in Requests |->
                IF request[r].state = "new" THEN 0 ELSE request[r].since + 1],
    answer <- [r \in Requests |-> request[r].report]
ImplementsService == Service!Spec

\* Every request is answered unless its caller hangs up.
EveryRebuildAnswered ==
    \A r \in Requests : request[r].state = "waiting" ~> request[r].state # "waiting"

\* A tab that knows a generation leaves the page it shows once that is no
\* longer the current one, also when the bump falls between the comparison
\* and the subscription.
TabsReload ==
    \A b \in Browsers :
        browser[b].known # 0 /\ browser[b].known # generation
            ~> browser[b].known = 0
=============================================================================
