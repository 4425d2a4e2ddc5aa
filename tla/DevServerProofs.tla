-------------------------- MODULE DevServerProofs --------------------------
(***************************************************************************)
(* Proofs about DevServer, for any number of callers and tabs and any      *)
(* number of builds.                                                       *)
(***************************************************************************)
EXTENDS DevServer, TLAPS, SequenceTheorems

busy == {"build", "record", "bump"}

\* A request that is queued or being built for has been made, and no report
\* is about a build that has not begun, or is not over.
Queued ==
    /\ \A r \in Requests :
           /\ request[r].since <= worker.build
           /\ request[r].state \in {"new", "waiting", "gone"} => request[r].report = 0
           /\ request[r].state = "answered" => request[r].report > 0
           /\ request[r].report <= worker.build
           /\ worker.step # "idle" => request[r].report < worker.build
    /\ \A i \in 1 .. Len(queue) :
           queue[i] \in Requests => request[queue[i]].state # "new"
    /\ worker.step # "idle" /\ worker.for \in Requests =>
           /\ request[worker.for].state # "new"
           /\ request[worker.for].since < worker.build
    /\ worker.build > 0

\* The generation is the number of the last build whose outcome is in place,
\* and what is served is the outcome of that build or of a later one.
Numbered ==
    /\ generation = IF worker.step \in busy THEN worker.build - 1 ELSE worker.build
    /\ page <= worker.build
    /\ worker.step = "record" /\ worker.ok => page = worker.build
    /\ error # 0 => error >= generation
    /\ error = 0 => page >= generation
    /\ worker.step = "bump" => IF error = 0 THEN page = worker.build
                               ELSE error = worker.build

\* What a tab loads is not older than what it reloads for.
TabsAhead ==
    \A b \in Browsers :
        /\ browser[b].seen <= generation
        /\ browser[b].due <= generation
        /\ browser[b].at = "file" => browser[b].due <= page
        /\ browser[b].at \notin {"away", "get", "file"} => browser[b].shows >= browser[b].due

Inv == TypeOK /\ Queued /\ Numbered /\ TabsAhead

-----------------------------------------------------------------------------
LEMMA InitInv == Init => Inv
<1> SUFFICES ASSUME Init PROVE Inv
  OBVIOUS
<1>1. TypeOK
  BY EmptySeq, EntersAssumption DEF Init, TypeOK, Waiter, Steps, Places
<1>2. Queued
  BY DEF Init, Queued
<1>3. Numbered
  BY DEF Init, Numbered, busy
<1>4. TabsAhead
  BY DEF Init, TabsAhead
<1> QED
  BY <1>1, <1>2, <1>3, <1>4 DEF Inv

(* The callers and the console do not touch what the tabs are served.      *)
LEMMA AskInv ==
    ASSUME Inv, (\E r \in Requests : Post(r) \/ HangUp(r)) \/ PressEnter
    PROVE  Inv'
<1>1. CASE \E r \in Requests : Post(r)
  <2>1. PICK r \in Requests : Post(r)
    BY <1>1
  <2>2. queue \in Seq(Waiter) /\ r \in Waiter
    BY DEF Inv, TypeOK, Waiter
  <2>3. /\ Append(queue, r) \in Seq(Waiter)
        /\ Len(Append(queue, r)) = Len(queue) + 1
        /\ \A i \in 1 .. Len(queue) : Append(queue, r)[i] = queue[i]
        /\ Append(queue, r)[Len(queue) + 1] = r
    BY <2>2, AppendProperties
  <2>4. Len(queue) \in Nat
    BY <2>2, LenProperties
  <2>5. TypeOK'
    BY <2>1, <2>3 DEF Inv, TypeOK, Post
  <2>6. \A s \in Requests :
            request'[s] = IF s = r
                          THEN [request[r] EXCEPT !.state = "waiting", !.since = worker.build]
                          ELSE request[s]
    BY <2>1 DEF Inv, TypeOK, Post
  <2>7. \A i \in 1 .. Len(queue') : queue'[i] \in Requests => request'[queue'[i]].state # "new"
    <3> SUFFICES ASSUME NEW i \in 1 .. Len(queue'), queue'[i] \in Requests
                 PROVE  request'[queue'[i]].state # "new"
      OBVIOUS
    <3>1. queue' = Append(queue, r)
      BY <2>1 DEF Post
    <3>2. request[r] \in [state : {"new", "waiting", "gone", "answered"}, since : Nat, report : Nat]
      BY DEF Inv, TypeOK
    <3>3. CASE i = Len(queue) + 1
      BY <2>3, <2>6, <3>1, <3>2, <3>3
    <3>4. CASE i # Len(queue) + 1
      <4>1. i \in 1 .. Len(queue)
        BY <2>3, <2>4, <3>1, <3>4
      <4>2. queue'[i] = queue[i] /\ request[queue[i]].state # "new"
        BY <2>3, <3>1, <4>1 DEF Inv, Queued
      <4> QED
        BY <2>6, <3>2, <4>2
    <3> QED
      BY <3>3, <3>4
  <2>8. request[r].state = "new" /\ worker' = worker
    BY <2>1 DEF Post
  <2>9. Queued'
    <3>1. request \in [Requests -> [state : {"new", "waiting", "gone", "answered"},
                                   since : Nat, report : Nat]]
          /\ worker.build \in Nat
      BY DEF Inv, TypeOK
    <3>2. /\ request'[r].state = "waiting"
          /\ request'[r].since = worker.build
          /\ request'[r].report = 0
      BY <2>6, <2>8, <3>1 DEF Inv, Queued
    <3>3. worker.step # "idle" => worker.for # r
      BY <2>8 DEF Inv, Queued
    <3>4. \A s \in Requests : s # r => request'[s] = request[s]
      BY <2>6
    <3> QED
      BY <2>7, <2>8, <3>1, <3>2, <3>3, <3>4 DEF Inv, Queued
  <2>10. Numbered' /\ TabsAhead'
    BY <2>1 DEF Inv, Numbered, TabsAhead, Post
  <2> QED
    BY <2>5, <2>9, <2>10 DEF Inv
<1>2. CASE \E r \in Requests : HangUp(r)
  <2>1. PICK r \in Requests : HangUp(r)
    BY <1>2
  <2>2. TypeOK'
    BY <2>1 DEF Inv, TypeOK, HangUp, server
  <2>3. /\ request[r].state = "waiting"
        /\ worker' = worker /\ queue' = queue
        /\ \A s \in Requests :
            request'[s] = IF s = r THEN [request[r] EXCEPT !.state = "gone"] ELSE request[s]
    BY <2>1 DEF Inv, TypeOK, HangUp, server
  <2>4. Queued'
    BY <2>3 DEF Inv, Queued, TypeOK
  <2>5. Numbered' /\ TabsAhead'
    BY <2>1 DEF Inv, Numbered, TabsAhead, HangUp, server
  <2> QED
    BY <2>2, <2>4, <2>5 DEF Inv
<1>3. CASE PressEnter
  <2>1. queue \in Seq(Waiter) /\ Console \in Waiter
    BY DEF Inv, TypeOK, Waiter
  <2>2. /\ Append(queue, Console) \in Seq(Waiter)
        /\ Len(Append(queue, Console)) = Len(queue) + 1
        /\ \A i \in 1 .. Len(queue) : Append(queue, Console)[i] = queue[i]
        /\ Append(queue, Console)[Len(queue) + 1] = Console
    BY <2>1, AppendProperties
  <2>3. Len(queue) \in Nat
    BY <2>1, LenProperties
  <2>4. TypeOK'
    BY <1>3, <2>2, EntersAssumption DEF Inv, TypeOK, PressEnter
  <2>5. /\ queue' = Append(queue, Console)
        /\ worker' = worker /\ request' = request
    BY <1>3 DEF PressEnter
  <2>6. Queued'
    BY <2>2, <2>3, <2>5, ConsoleAssumption DEF Inv, Queued
  <2>7. Numbered' /\ TabsAhead'
    BY <1>3 DEF Inv, Numbered, TabsAhead, PressEnter
  <2> QED
    BY <2>4, <2>6, <2>7 DEF Inv
<1> QED
  BY <1>1, <1>2, <1>3

(* The worker.                                                             *)
LEMMA WorkInv ==
    ASSUME Inv, Work
    PROVE  Inv'
<1> USE DEF busy
<1>0. /\ request \in [Requests -> [state : {"new", "waiting", "gone", "answered"},
                                   since : Nat, report : Nat]]
      /\ worker \in [step : Steps, for : Waiter, build : Nat, ok : BOOLEAN]
      /\ generation \in Nat /\ error \in Nat /\ page \in Nat
      /\ queue \in Seq(Waiter)
      /\ browser \in [Browsers -> [at : Places, shows : Nat, known : Nat,
                                   seen : Nat, due : Nat]]
  BY DEF Inv, TypeOK
<1>1. CASE Take
  <2>1. /\ Head(queue) \in Waiter /\ Tail(queue) \in Seq(Waiter)
        /\ Head(queue) = queue[1]
        /\ Len(queue) \in Nat \ {0}
        /\ Len(Tail(queue)) = Len(queue) - 1
        /\ \A i \in 1 .. Len(Tail(queue)) : Tail(queue)[i] = queue[i + 1]
    BY <1>0, <1>1, HeadTailProperties, EmptySeq DEF Take
  <2>2. /\ worker.step = "idle"
        /\ worker' = [step |-> "build", for |-> Head(queue),
                      build |-> worker.build + 1, ok |-> FALSE]
        /\ queue' = Tail(queue)
        /\ UNCHANGED <<generation, error, page, request, browser, enters>>
    BY <1>1 DEF Take
  <2>3. TypeOK'
    BY <1>0, <2>1, <2>2 DEF Inv, TypeOK, Steps
  <2>4. \A i \in 1 .. Len(queue') : queue'[i] \in Requests => request[queue'[i]].state # "new"
    <3> SUFFICES ASSUME NEW i \in 1 .. Len(queue'), queue'[i] \in Requests
                 PROVE  request[queue'[i]].state # "new"
      OBVIOUS
    <3>1. i + 1 \in 1 .. Len(queue) /\ queue'[i] = queue[i + 1]
      BY <2>1, <2>2
    <3> QED
      BY <3>1 DEF Inv, Queued
  <2>5. Head(queue) \in Requests => request[Head(queue)].state # "new"
    BY <2>1 DEF Inv, Queued
  <2>6. Queued'
    BY <1>0, <2>2, <2>4, <2>5 DEF Inv, Queued
  <2>7. Numbered' /\ TabsAhead'
    BY <1>0, <2>2 DEF Inv, Queued, Numbered, TabsAhead
  <2> QED
    BY <2>3, <2>6, <2>7 DEF Inv
<1>2. CASE WritePage
  <2>1. TypeOK'
    BY <1>0, <1>2 DEF Inv, TypeOK, WritePage
  <2>2. Queued'
    BY <1>2 DEF Inv, Queued, WritePage
  <2>3. Numbered' /\ TabsAhead'
    BY <1>0, <1>2 DEF Inv, Numbered, TabsAhead, WritePage
  <2> QED
    BY <2>1, <2>2, <2>3 DEF Inv
<1>3. CASE \E ok \in BOOLEAN : BuildReturns(ok)
  <2>1. PICK ok \in BOOLEAN : BuildReturns(ok)
    BY <1>3
  <2>2. /\ worker.step = "build"
        /\ ok => page = worker.build
        /\ worker' = [worker EXCEPT !.step = "record", !.ok = ok]
        /\ UNCHANGED <<queue, generation, error, page, request, browser, enters>>
    BY <2>1 DEF BuildReturns, StepAfter
  <2>3. TypeOK'
    BY <1>0, <2>2 DEF Inv, TypeOK, Steps
  <2>4. Queued'
    BY <1>0, <2>2 DEF Inv, Queued
  <2>5. Numbered' /\ TabsAhead'
    BY <1>0, <2>2 DEF Inv, Numbered, TabsAhead
  <2> QED
    BY <2>3, <2>4, <2>5 DEF Inv
<1>4. CASE RecordOutcome
  <2>1. /\ worker.step = "record"
        /\ error' = IF worker.ok THEN 0 ELSE worker.build
        /\ worker' = [worker EXCEPT !.step = "bump"]
        /\ UNCHANGED <<queue, generation, page, request, browser, enters>>
    BY <1>4 DEF RecordOutcome, StepAfter
  <2>2. TypeOK'
    BY <1>0, <2>1 DEF Inv, TypeOK, Steps
  <2>3. Queued'
    BY <1>0, <2>1 DEF Inv, Queued
  <2>4. Numbered' /\ TabsAhead'
    BY <1>0, <2>1 DEF Inv, Queued, Numbered, TabsAhead
  <2> QED
    BY <2>2, <2>3, <2>4 DEF Inv
<1>5. CASE Bump
  <2>1. /\ worker.step = "bump"
        /\ generation' = generation + 1
        /\ worker' = [worker EXCEPT !.step = "report"]
        /\ UNCHANGED <<queue, error, page, request, browser, enters>>
    BY <1>5 DEF Bump, StepAfter
  <2>2. TypeOK'
    <3>1. worker' \in [step : Steps, for : Waiter, build : Nat, ok : BOOLEAN]
      BY <1>0, <2>1 DEF Steps
    <3>2. generation' \in Nat
      BY <1>0, <2>1
    <3> QED
      BY <2>1, <3>1, <3>2 DEF Inv, TypeOK
  <2>3. Queued'
    BY <1>0, <2>1 DEF Inv, Queued
  <2>4. Numbered' /\ TabsAhead'
    BY <1>0, <2>1 DEF Inv, Numbered, TabsAhead
  <2> QED
    BY <2>2, <2>3, <2>4 DEF Inv
<1>6. CASE Report
  <2>1. /\ worker.step = "report"
        /\ worker' = [worker EXCEPT !.step = "idle"]
        /\ UNCHANGED <<queue, generation, error, page, browser, enters>>
        /\ \A r \in Requests : request'[r] =
               IF r \in Answered
               THEN [request[r] EXCEPT !.state = "answered", !.report = worker.build]
               ELSE request[r]
        /\ request' \in [Requests -> [state : {"new", "waiting", "gone", "answered"},
                                      since : Nat, report : Nat]]
    BY <1>0, <1>6 DEF Report
  <2>2. TypeOK'
    BY <1>0, <2>1 DEF Inv, TypeOK, Steps
  <2>3. Queued'
    <3>1. /\ worker'.build = worker.build /\ worker.build \in Nat
          /\ worker'.step = "idle"
      BY <1>0, <2>1
    <3>2. ASSUME NEW r \in Requests
          PROVE  /\ request'[r].since = request[r].since
                 /\ request'[r].state \in {"new", "waiting", "gone"} => request'[r].report = 0
                 /\ request'[r].state = "answered" => request'[r].report > 0
                 /\ request'[r].report <= worker.build
                 /\ request[r].state # "new" => request'[r].state # "new"
      <4>1. request[r] \in [state : {"new", "waiting", "gone", "answered"},
                            since : Nat, report : Nat]
        BY <1>0
      <4>2. CASE r \in Answered
        <5>1. request'[r] = [request[r] EXCEPT !.state = "answered", !.report = worker.build]
          BY <2>1, <4>2
        <5> QED
          BY <3>1, <4>1, <5>1 DEF Inv, Queued
      <4>3. CASE r \notin Answered
        BY <2>1, <4>1, <4>3 DEF Inv, Queued
      <4> QED
        BY <4>2, <4>3
    <3>3. queue' = queue
      BY <2>1
    <3> QED
      BY <3>1, <3>2, <3>3 DEF Inv, Queued
  <2>4. Numbered' /\ TabsAhead'
    BY <1>0, <2>1 DEF Inv, Numbered, TabsAhead
  <2> QED
    BY <2>2, <2>3, <2>4 DEF Inv
<1> QED
  BY <1>1, <1>2, <1>3, <1>4, <1>5, <1>6 DEF Work

(* A tab, and nothing but that tab.                                        *)
LEMMA TabInv ==
    ASSUME Inv, NEW b \in Browsers, NEW tab, Moves(b, tab),
           tab \in [at : Places, shows : Nat, known : Nat, seen : Nat, due : Nat],
           tab.seen <= generation,
           tab.due <= generation,
           tab.at = "file" => tab.due <= page,
           tab.at \notin {"away", "get", "file"} => tab.shows >= tab.due
    PROVE  Inv'
<1>1. /\ browser' = [browser EXCEPT ![b] = tab]
      /\ UNCHANGED <<queue, worker, generation, error, page, request, enters>>
  BY DEF Moves, server
<1>2. TypeOK'
  BY <1>1 DEF Inv, TypeOK
<1>3. Queued' /\ Numbered'
  BY <1>1 DEF Inv, Queued, Numbered
<1>4. TabsAhead'
  BY <1>1 DEF Inv, TypeOK, TabsAhead
<1> QED
  BY <1>2, <1>3, <1>4 DEF Inv

LEMMA BrowseInv ==
    ASSUME Inv, NEW b \in Browsers, Open(b) \/ Browse(b)
    PROVE  Inv'
<1>1. /\ browser[b] \in [at : Places, shows : Nat, known : Nat, seen : Nat, due : Nat]
      /\ generation \in Nat /\ error \in Nat /\ page \in Nat
      /\ browser[b].seen <= generation
      /\ browser[b].due <= generation
      /\ browser[b].at = "file" => browser[b].due <= page
      /\ browser[b].at \notin {"away", "get", "file"} => browser[b].shows >= browser[b].due
      /\ error # 0 => error >= generation
      /\ error = 0 => page >= generation
  BY DEF Inv, TypeOK, TabsAhead, Numbered
<1>2. CASE Open(b)
  BY <1>1, <1>2, TabInv DEF Open, Places
<1>3. CASE CheckError(b)
  <2> DEFINE tab == IF error # 0
                    THEN [browser[b] EXCEPT !.at = "shown", !.shows = error]
                    ELSE [browser[b] EXCEPT !.at = "file"]
  <2>1. Moves(b, tab)
    BY <1>3 DEF CheckError
  <2>2. tab \in [at : Places, shows : Nat, known : Nat, seen : Nat, due : Nat]
    BY <1>1 DEF Places
  <2>3. /\ tab.seen <= generation
        /\ tab.due <= generation
        /\ tab.at = "file" => tab.due <= page
        /\ tab.at \notin {"away", "get", "file"} => tab.shows >= tab.due
    BY <1>1, <1>3 DEF CheckError
  <2> HIDE DEF tab
  <2> QED
    BY <2>1, <2>2, <2>3, TabInv
<1>4. CASE ReadPage(b)
  BY <1>1, <1>4, TabInv DEF ReadPage, Places
<1>5. CASE Poll(b)
  BY <1>1, <1>5, TabInv DEF Poll, Places
<1>6. CASE Asked(b)
  <2> DEFINE tab == IF browser[b].known = generation
                    THEN [browser[b] EXCEPT !.at = "matched"]
                    ELSE [browser[b] EXCEPT !.at = "answered", !.seen = generation]
  <2>1. Moves(b, tab)
    BY <1>6 DEF Asked
  <2>2. tab \in [at : Places, shows : Nat, known : Nat, seen : Nat, due : Nat]
    BY <1>1 DEF Places
  <2>3. /\ tab.seen <= generation
        /\ tab.due <= generation
        /\ tab.at = "file" => tab.due <= page
        /\ tab.at \notin {"away", "get", "file"} => tab.shows >= tab.due
    BY <1>1, <1>6 DEF Asked
  <2> HIDE DEF tab
  <2> QED
    BY <2>1, <2>2, <2>3, TabInv
<1>7. CASE Subscribe(b)
  <2> DEFINE tab == [browser[b] EXCEPT !.at = "parked", !.seen = generation]
  <2>1. Moves(b, tab)
    BY <1>7 DEF Subscribe
  <2>2. tab \in [at : Places, shows : Nat, known : Nat, seen : Nat, due : Nat]
    BY <1>1 DEF Places
  <2>3. /\ tab.seen <= generation
        /\ tab.due <= generation
        /\ tab.at = "file" => tab.due <= page
        /\ tab.at \notin {"away", "get", "file"} => tab.shows >= tab.due
    BY <1>1, <1>7 DEF Subscribe
  <2> HIDE DEF tab
  <2> QED
    BY <2>1, <2>2, <2>3, TabInv
<1>8. CASE Changed(b) \/ TimeOut(b)
  <2> DEFINE tab == [browser[b] EXCEPT !.at = "answered", !.seen = generation]
  <2>1. Moves(b, tab)
    BY <1>8 DEF Changed, TimeOut
  <2>2. tab \in [at : Places, shows : Nat, known : Nat, seen : Nat, due : Nat]
    BY <1>1 DEF Places
  <2>3. /\ tab.seen <= generation
        /\ tab.due <= generation
        /\ tab.at = "file" => tab.due <= page
        /\ tab.at \notin {"away", "get", "file"} => tab.shows >= tab.due
    BY <1>1, <1>8 DEF Changed, TimeOut
  <2> HIDE DEF tab
  <2> QED
    BY <2>1, <2>2, <2>3, TabInv
<1>9. CASE Receive(b)
  <2> DEFINE tab == IF Reloads(browser[b])
                    THEN [at |-> "get", shows |-> 0, known |-> 0, seen |-> 0,
                          due |-> browser[b].seen]
                    ELSE [browser[b] EXCEPT !.at = "shown", !.known = browser[b].seen]
  <2>1. Moves(b, tab)
    BY <1>9 DEF Receive
  <2>2. tab \in [at : Places, shows : Nat, known : Nat, seen : Nat, due : Nat]
    BY <1>1 DEF Places
  <2>3. /\ tab.seen <= generation
        /\ tab.due <= generation
        /\ tab.at = "file" => tab.due <= page
        /\ tab.at \notin {"away", "get", "file"} => tab.shows >= tab.due
    BY <1>1, <1>9 DEF Receive
  <2> HIDE DEF tab
  <2> QED
    BY <2>1, <2>2, <2>3, TabInv
<1> QED
  BY <1>2, <1>3, <1>4, <1>5, <1>6, <1>7, <1>8, <1>9 DEF Browse

LEMMA NextInv == Inv /\ [Next]_vars => Inv'
<1> SUFFICES ASSUME Inv, [Next]_vars PROVE Inv'
  OBVIOUS
<1>1. CASE UNCHANGED vars
  BY <1>1 DEF vars, server, Inv, TypeOK, Queued, Numbered, TabsAhead
<1>2. CASE Next
  BY <1>2, AskInv, WorkInv, BrowseInv DEF Next
<1> QED
  BY <1>1, <1>2

LEMMA AlwaysInv == Spec => []Inv
<1> QED
  BY InitInv, NextInv, PTL DEF Spec

-----------------------------------------------------------------------------
(* The shape of the state, for any number of callers, tabs and builds.     *)
THEOREM TypeCorrect == Spec => []TypeOK
<1>1. Inv => TypeOK
  BY DEF Inv
<1> QED
  BY <1>1, AlwaysInv, PTL

(* A tab never ends up with what the build it reloads for has replaced: the *)
(* outcome is in place before the generation that announces it, and both   *)
(* the error and the page on disk only grow newer.                         *)
THEOREM ReloadsShowTheOutcome == Spec => []ReloadShowsOutcome
<1>1. Inv => ReloadShowsOutcome
  BY DEF Inv, TabsAhead, ReloadShowsOutcome
<1> QED
  BY <1>1, AlwaysInv, PTL

(* The worker, its channel and the handlers implement the service: every   *)
(* report is about a build that began after the request, and no two        *)
(* requests are told about the same build.                                 *)
THEOREM Implements == Spec => ImplementsService
<1> DEFINE asked == [r \in Requests |->
                        IF request[r].state = "new" THEN 0 ELSE request[r].since + 1]
           answer == [r \in Requests |-> request[r].report]
<1>1. Init => Service!Init
  BY DEF Init, Service!Init
<1>2. Inv /\ [Next]_vars => [Service!Next]_(Service!vars)
  <2> SUFFICES ASSUME Inv, [Next]_vars
               PROVE  Service!Next \/ UNCHANGED Service!vars
    OBVIOUS
  <2>0. /\ request \in [Requests -> [state : {"new", "waiting", "gone", "answered"},
                                     since : Nat, report : Nat]]
        /\ worker \in [step : Steps, for : Waiter, build : Nat, ok : BOOLEAN]
    BY DEF Inv, TypeOK
  <2>1. ASSUME NEW r \in Requests, Post(r) PROVE Service!Ask(r)
    <3>1. /\ request[r].state = "new"
          /\ request' = [request EXCEPT ![r].state = "waiting", ![r].since = worker.build]
          /\ worker' = worker
      BY <2>1 DEF Post
    <3>2. asked[r] = 0
      BY <3>1
    <3>3. asked' = [asked EXCEPT ![r] = worker.build + 1]
      BY <2>0, <3>1
    <3>4. answer' = answer
      BY <2>0, <3>1
    <3> QED
      BY <3>1, <3>2, <3>3, <3>4 DEF Service!Ask
  <2>2. ASSUME NEW r \in Requests, HangUp(r) PROVE UNCHANGED Service!vars
    <3>1. /\ request[r].state = "waiting"
          /\ request' = [request EXCEPT ![r].state = "gone"]
          /\ worker' = worker
      BY <2>2 DEF HangUp, server
    <3>2. asked' = asked /\ answer' = answer
      BY <2>0, <3>1
    <3> QED
      BY <3>1, <3>2 DEF Service!vars
  <2>3. ASSUME Take PROVE Service!Build
    <3>1. worker'.build = worker.build + 1 /\ request' = request
      BY <2>3 DEF Take
    <3> QED
      BY <3>1 DEF Service!Build
  <2>4. ASSUME WritePage \/ (\E ok \in BOOLEAN : BuildReturns(ok)) \/ RecordOutcome \/ Bump
        PROVE  UNCHANGED Service!vars
    <3>1. worker'.build = worker.build /\ request' = request
      BY <2>0, <2>4 DEF WritePage, BuildReturns, RecordOutcome, Bump
    <3> QED
      BY <3>1 DEF Service!vars
  <2>5. ASSUME Report PROVE Service!Next \/ UNCHANGED Service!vars
    <3>1. /\ worker.step = "report" /\ worker'.build = worker.build
          /\ \A r \in Requests : request'[r] =
               IF r \in Answered
               THEN [request[r] EXCEPT !.state = "answered", !.report = worker.build]
               ELSE request[r]
      BY <2>0, <2>5 DEF Report
    <3>2. asked' = asked
      BY <2>0, <3>1 DEF Answered
    <3>3. CASE Answered = {}
      <4>1. answer' = answer
        BY <3>1, <3>3
      <4> QED
        BY <3>1, <3>2, <4>1 DEF Service!vars
    <3>4. CASE Answered # {}
      <4> DEFINE r == worker.for
      <4>1. r \in Requests /\ request[r].state = "waiting" /\ Answered = {r}
        BY <3>4 DEF Answered
      <4>2. /\ request[r].since \in Nat /\ worker.build \in Nat
            /\ request[r].since < worker.build
            /\ request[r].report = 0
        BY <2>0, <3>1, <4>1 DEF Inv, Queued
      <4>3. \A other \in Requests : request[other].report < worker.build
        BY <3>1 DEF Inv, Queued
      <4>4. /\ asked[r] # 0 /\ answer[r] = 0
            /\ worker.build \in asked[r] .. worker.build
        BY <4>1, <4>2
      <4>5. \A other \in Requests : answer[other] # worker.build
        BY <2>0, <4>2, <4>3
      <4>6. answer' = [answer EXCEPT ![r] = worker.build]
        <5>1. \A x \in Requests :
                 request'[x].report = IF x = r THEN worker.build ELSE request[x].report
          BY <2>0, <3>1, <4>1
        <5> QED
          BY <5>1
      <4>7. PICK n : n = worker.build
        OBVIOUS
      <4>8. Service!Answer(r, n) /\ n \in asked[r] .. worker.build
        BY <3>1, <3>2, <4>4, <4>5, <4>6, <4>7 DEF Service!Answer
      <4> QED
        BY <4>1, <4>8 DEF Service!Next
    <3> QED
      BY <3>3, <3>4
  <2>6. ASSUME NEW b \in Browsers, Open(b) \/ Browse(b) PROVE UNCHANGED Service!vars
    <3>1. \E tab : Moves(b, tab)
      BY <2>6 DEF Open, Browse, CheckError, ReadPage, Poll, Asked, Subscribe,
                  Changed, TimeOut, Receive
    <3> QED
      BY <3>1 DEF Moves, server, Service!vars
  <2>7. ASSUME PressEnter \/ UNCHANGED vars PROVE UNCHANGED Service!vars
    BY <2>7 DEF PressEnter, vars, server, Service!vars
  <2> QED
    BY <2>1, <2>2, <2>3, <2>4, <2>5, <2>6, <2>7 DEF Next, Work, Service!Next
<1> QED
  BY <1>1, <1>2, AlwaysInv, PTL DEF Spec, ImplementsService, Service!Spec
=============================================================================
