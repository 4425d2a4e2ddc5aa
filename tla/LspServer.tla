----------------------------- MODULE LspServer -----------------------------
(***************************************************************************)
(* The state the language server shares between its protocol loop, its     *)
(* debounced diagnostics passes and the requests it answers on the         *)
(* blocking pool: crates/wcl_lsp/src/server.rs.                            *)
(*                                                                         *)
(* The protocol loop runs one notification handler at a time, but a        *)
(* handler is not atomic for the pool: it changes `docs', then bumps       *)
(* `generation', then spawns a pass and aborts the one before it.  A pass  *)
(* and a request are both jobs of the pool: each reads the generation,     *)
(* takes (or builds) the buffer snapshot of that generation file by file,  *)
(* and takes (or builds) the root document over it.                        *)
(***************************************************************************)
EXTENDS Naturals, FiniteSets

CONSTANTS
    Uris,           \* files of the workspace
    Openable,       \* those the client opens
    External,       \* those other programs write
    Disks,          \* what the disk may hold at the start
    Texts,          \* the texts a file can hold
    Requests,       \* requests the client may have in flight
    MaxChanges,     \* bound: changes to the buffers or to the disk
    HasRoot,        \* a root document was found at `initialize'
    AnalyseRoot(_), \* texts of all files -> diagnostics per file, from the root
    AnalyseFile(_, _), \* the same, from one open file as a document of its own
    SyntaxErrors(_) \* a text -> the syntax errors it has

ASSUME ConstantsAssumption ==
    /\ Openable \subseteq Uris /\ External \subseteq Uris
    /\ Disks \subseteq [Uris -> Texts]
    /\ HasRoot \in BOOLEAN
    /\ MaxChanges \in Nat
    /\ Requests \cap Nat = {}

VARIABLES
    docs,       \* the buffer of each file: [text, version]
    disk,       \* the text of each file on disk
    unseen,     \* the disk changed and the client has not told the server yet
    loop,       \* where the protocol loop is in its handler
    generation, \* bumped after every change
    buffers,    \* cache of the buffer map: [gen, view]
    buffersLock,\* the job holding the mutex of `buffers', or Free
    root,       \* cache of the evaluated root: [gen, seen]
    rootLock,   \* the job holding the mutex of `root', or Free
    published,  \* the URIs the last publish sent diagnostics for
    task,       \* the async side of each diagnostics pass
    batch,      \* what a pass still has to send: URI -> [errors, version]
    job,        \* the blocking side of each pass, and each request
    shown,      \* what the client displays for each file
    down        \* `shutdown' was answered

vars == <<docs, disk, unseen, loop, generation, buffers, buffersLock, root,
          rootLock, published, task, batch, job, shown, down>>

loopVars  == <<docs, disk, unseen, loop, generation, down>>
cacheVars == <<buffers, buffersLock, root, rootLock>>
passVars  == <<task, batch, shown>>

-----------------------------------------------------------------------------
(* A buffer, stamped with the change that last touched it: the version the *)
(* client gives an open one.  A closed one keeps its stamp, which only the *)
(* property ReadsItsWrites looks at.                                       *)
Closed(v) == [text |-> "closed", version |-> v]
Free   == 0                  \* no job: passes count from 1
Never  == MaxChanges + 1     \* the generation of an empty cache: none has it

Passes == 1..MaxChanges      \* pass g was spawned by the change that made g
Jobs   == Passes \cup Requests

OpenIn(view) == {u \in Uris : view[u].text # "closed"}

(* What an analysis reads for each file: its buffer, else the disk.        *)
Overlay(view, onDisk) ==
    [u \in Uris |-> IF u \in OpenIn(view) THEN view[u]
                    ELSE [view[u] EXCEPT !.text = onDisk[u]]]

(* Diagnostics of one analysis: the root's, with the syntax errors every   *)
(* open buffer adds, or every open buffer analysed as a document of its    *)
(* own, which places errors in the files it imports too.                   *)
Errors(open, seen) ==
    LET texts == [u \in Uris |-> seen[u].text]
        Alone(v) == AnalyseFile(v, [texts EXCEPT ![v] = open[v].text])
    IN  [u \in Uris |->
            IF HasRoot
            THEN AnalyseRoot(texts)[u] \cup
                 (IF u \in OpenIn(open) THEN SyntaxErrors(open[u].text) ELSE {})
            ELSE UNION {Alone(v)[u] : v \in OpenIn(open)}]

(* Each file's errors, with the version of its open buffer (0: not open).  *)
Found(open, seen) ==
    [u \in Uris |-> [errors  |-> Errors(open, seen)[u],
                     version |-> IF u \in OpenIn(open) THEN open[u].version ELSE 0]]

NoBatch == [u \in {} |-> {}]
NoView  == [u \in Uris |-> Closed(0)]

IdleJob == [pc |-> "idle", want |-> 0, gen |-> Never, todo |-> {},
            view |-> NoView, open |-> NoView, seen |-> NoView,
            since |-> [u \in Uris |-> 0]]

Init ==
    /\ docs = NoView
    /\ disk \in Disks
    /\ unseen = FALSE
    /\ loop = "idle"
    /\ generation = 0
    /\ buffers = [gen |-> Never, view |-> NoView]
    /\ buffersLock = Free
    /\ root = [gen |-> Never, seen |-> NoView]
    /\ rootLock = Free
    /\ published = {}
    /\ task = [p \in Passes |-> "none"]
    /\ batch = [p \in Passes |-> NoBatch]
    /\ job = [j \in Jobs |-> IdleJob]
    /\ shown = [u \in Uris |-> [errors |-> {}, version |-> 0]]
    /\ down = FALSE

-----------------------------------------------------------------------------
(* The protocol loop.  A handler first touches the buffers ...             *)

Touch ==
    /\ loop = "idle" /\ ~down
    /\ generation < MaxChanges
    /\ loop' = "touched"
    /\ UNCHANGED <<generation, down, published, cacheVars, passVars, job>>

DidOpen(u, t) ==
    /\ Touch
    /\ u \notin OpenIn(docs)
    /\ docs' = [docs EXCEPT ![u] = [text |-> t, version |-> generation + 1]]
    /\ UNCHANGED <<disk, unseen>>

DidChange(u, t) ==
    /\ Touch
    /\ u \in OpenIn(docs)
    /\ docs' = [docs EXCEPT ![u] = [text |-> t, version |-> generation + 1]]
    /\ UNCHANGED <<disk, unseen>>

DidClose(u) ==
    /\ Touch
    /\ u \in OpenIn(docs)
    /\ docs' = [docs EXCEPT ![u] = Closed(generation + 1)]
    /\ UNCHANGED <<disk, unseen>>

DidChangeWatchedFiles ==
    /\ Touch
    /\ unseen
    /\ unseen' = FALSE
    /\ UNCHANGED <<docs, disk>>

(* ... then `changed' bumps the generation ...                             *)
Bump ==
    /\ loop = "touched"
    /\ generation' = generation + 1
    /\ loop' = "bumped"
    /\ UNCHANGED <<docs, disk, unseen, down, published, cacheVars, passVars, job>>

(* An aborted task that is suspended never runs again; one that is sending *)
(* stops at its next await, so it is cut short there.                      *)
Aborted(pc) ==
    CASE pc \in {"sleep", "wait"} -> "done"
      [] pc = "publish" -> "cut"
      [] OTHER -> pc

(* ... and spawns a pass, replacing the handle of the previous one, which  *)
(* it aborts.                                                              *)
Schedule ==
    /\ loop = "bumped"
    /\ loop' = "idle"
    /\ task' = [p \in Passes |->
                   CASE p = generation     -> "sleep"
                     [] p = generation - 1 -> Aborted(task[p])
                     [] OTHER              -> task[p]]
    /\ UNCHANGED <<docs, disk, unseen, generation, down, published, cacheVars,
                   batch, job, shown>>

Shutdown ==
    /\ loop = "idle" /\ ~down
    /\ down' = TRUE
    /\ task' = [p \in Passes |-> IF p = generation THEN Aborted(task[p]) ELSE task[p]]
    /\ UNCHANGED <<docs, disk, unseen, loop, generation, published, cacheVars,
                   batch, job, shown>>

(* A client sends one request at a time under one id, and the loop starts  *)
(* it on the pool between two notifications.  `since' is the version of    *)
(* each buffer at that point, for the property ReadsItsWrites only.        *)
Ask(r) ==
    /\ loop = "idle" /\ ~down
    /\ job[r].pc = "idle"
    /\ job' = [job EXCEPT ![r] = [IdleJob EXCEPT
                   !.pc = "generation",
                   !.since = [u \in Uris |-> docs[u].version]]]
    /\ UNCHANGED <<loopVars, published, cacheVars, passVars>>

(* Another program changes a file; the client will notice and report it.   *)
DiskChanges(u, t) ==
    /\ ~down /\ ~unseen
    /\ generation < MaxChanges
    /\ loop = "touched" => generation + 1 < MaxChanges
    /\ disk[u] # t
    /\ disk' = [disk EXCEPT ![u] = t]
    /\ unseen' = TRUE
    /\ UNCHANGED <<docs, loop, generation, down, published, cacheVars, passVars, job>>

-----------------------------------------------------------------------------
(* A job of the pool: `snapshot'.                                          *)

Goto(j, pc) == job' = [job EXCEPT ![j].pc = pc]

ReadGeneration(j) ==
    /\ job[j].pc = "generation"
    /\ job' = [job EXCEPT ![j].gen = generation, ![j].pc = "buffers"]
    /\ UNCHANGED <<loopVars, published, cacheVars, passVars>>

(* Where a job goes with its snapshot: a request to the root document, a   *)
(* pass to its own copy of the buffers, unless it is already overtaken.    *)
AfterSnapshot(j) ==
    IF j \in Requests THEN "root"
    ELSE IF job[j].gen # job[j].want THEN "stale" ELSE "open"

(* The cached buffers serve the generation they were built for, only.      *)
BuffersHit_AnyGeneration(j) == buffers.gen # Never
BuffersHit(j) == buffers.gen = job[j].gen

TakeBuffers(j) ==
    /\ job[j].pc = "buffers"
    /\ buffersLock = Free
    /\ IF BuffersHit(j)
       THEN /\ job' = [job EXCEPT ![j].view = buffers.view,
                                  ![j].todo = Openable,
                                  ![j].pc = AfterSnapshot(j)]
            /\ UNCHANGED buffersLock
       ELSE /\ job' = [job EXCEPT ![j].todo = Openable, ![j].pc = "copy"]
            /\ buffersLock' = j
    /\ UNCHANGED <<loopVars, published, buffers, root, rootLock, passVars>>

(* The map of open buffers is iterated shard by shard, not under one lock. *)
CopyBuffer(j, u) ==
    /\ job[j].pc = "copy"
    /\ u \in job[j].todo
    /\ job' = [job EXCEPT ![j].view[u] = docs[u], ![j].todo = @ \ {u}]
    /\ UNCHANGED <<loopVars, published, cacheVars, passVars>>

(* They are stored under the generation read before they were copied.      *)
BuffersLabel_ReadAfter(j) == generation
BuffersLabel_OffByOne(j) == job[j].gen + 1
BuffersLabel(j) == job[j].gen

StoreBuffers(j) ==
    /\ job[j].pc = "copy"
    /\ job[j].todo = {}
    /\ buffers' = [gen |-> BuffersLabel(j), view |-> job[j].view]
    /\ buffersLock' = Free
    /\ job' = [job EXCEPT ![j].todo = Openable, ![j].pc = AfterSnapshot(j)]
    /\ UNCHANGED <<loopVars, published, root, rootLock, passVars>>

-----------------------------------------------------------------------------
(* A job of the pool: `root'.                                              *)

TakeRoot(j) ==
    /\ job[j].pc = "root"
    /\ HasRoot
    /\ rootLock = Free
    /\ IF root.gen = job[j].gen
       THEN /\ job' = [job EXCEPT ![j].seen = root.seen, ![j].pc = "analysed"]
            /\ UNCHANGED rootLock
       ELSE /\ job' = [job EXCEPT ![j].todo = Uris, ![j].pc = "load"]
            /\ rootLock' = j
    /\ UNCHANGED <<loopVars, published, buffers, buffersLock, root, passVars>>

(* Without a root nothing is cached: each analysis loads what it imports.  *)
NoRoot(j) ==
    /\ job[j].pc = "root"
    /\ ~HasRoot
    /\ job' = [job EXCEPT ![j].todo = Uris, ![j].pc = "load"]
    /\ UNCHANGED <<loopVars, published, cacheVars, passVars>>

(* The build loads each file of the graph: its buffer in the snapshot,     *)
(* else what the disk holds at that moment.                                *)
LoadFile(j, u) ==
    /\ job[j].pc = "load"
    /\ u \in job[j].todo
    /\ job' = [job EXCEPT ![j].seen[u] = Overlay(job[j].view, disk)[u],
                          ![j].todo = @ \ {u}]
    /\ UNCHANGED <<loopVars, published, cacheVars, passVars>>

(* Only a newer root replaces the cached one.                              *)
NewerRoot_Always(j) == TRUE
NewerRoot(j) == root.gen = Never \/ root.gen < job[j].gen

StoreRoot_KeepsLock(j) ==
    /\ job[j].pc = "load"
    /\ job[j].todo = {}
    /\ root' = [gen |-> job[j].gen, seen |-> job[j].seen]
    /\ Goto(j, "analysed")
    /\ UNCHANGED <<loopVars, published, buffers, buffersLock, rootLock, passVars>>

StoreRoot(j) ==
    /\ job[j].pc = "load"
    /\ job[j].todo = {}
    /\ root' = IF HasRoot /\ NewerRoot(j)
               THEN [gen |-> job[j].gen, seen |-> job[j].seen]
               ELSE root
    /\ rootLock' = IF HasRoot THEN Free ELSE rootLock
    /\ Goto(j, "analysed")
    /\ UNCHANGED <<loopVars, published, buffers, buffersLock, passVars>>

(* The request's answer goes back to the client, and its id is free.       *)
Answer(r) ==
    /\ job[r].pc = "analysed"
    /\ job' = [job EXCEPT ![r] = IdleJob]
    /\ UNCHANGED <<loopVars, published, cacheVars, passVars>>

-----------------------------------------------------------------------------
(* A diagnostics pass: the debounce, then `collect_diagnostics' on the     *)
(* pool, then the batch.                                                   *)

(* The debounce outlasts one poll of an older pass: by the time a pass     *)
(* wakes, the one it aborted has stopped sending.                          *)
Wake(p) ==
    /\ task[p] = "sleep"
    /\ \A q \in Passes : q < p => task[q] \notin {"publish", "cut"}
    /\ task' = [task EXCEPT ![p] = "wait"]
    /\ job' = [job EXCEPT ![p] = [IdleJob EXCEPT !.want = generation, !.pc = "generation"]]
    /\ UNCHANGED <<loopVars, published, cacheVars, batch, shown>>

ReadOpen(p, u) ==
    /\ job[p].pc = "open"
    /\ u \in job[p].todo
    /\ job' = [job EXCEPT ![p].open[u] = docs[u], ![p].todo = @ \ {u},
                          ![p].pc = IF job[p].todo = {u} THEN "root" ELSE @]
    /\ UNCHANGED <<loopVars, published, cacheVars, passVars>>

(* The last look at the generation inside the pass.  Without a root the    *)
(* pass also looks before each buffer; those looks stop it no later.       *)
Recheck(p) ==
    /\ job[p].pc = "analysed"
    /\ Goto(p, IF generation = job[p].want THEN "collect" ELSE "stale")
    /\ UNCHANGED <<loopVars, published, cacheVars, passVars>>

(* The batch covers every open file, every file with diagnostics and every *)
(* file of the last publish, and replaces `published'.                     *)
Targets_OnlyErrors(open, errors) == errors \cup published
Targets(open, errors) == OpenIn(open) \cup errors \cup published

Collect(p) ==
    LET found   == Found(job[p].open, job[p].seen)
        errors  == {u \in Uris : found[u].errors # {}}
        targets == Targets(job[p].open, errors)
    IN  /\ job[p].pc = "collect"
        /\ published' = errors
        /\ batch' = [batch EXCEPT ![p] = [u \in targets |-> found[u]]]
        /\ Goto(p, "batch")
        /\ UNCHANGED <<loopVars, cacheVars, task, shown>>

(* The job is over.  Its task publishes the batch unless the pass went     *)
(* stale; a task dropped while it waited leaves the result to nobody.      *)
Deliver(p) ==
    /\ job[p].pc \in {"batch", "stale"}
    /\ task[p] \in {"wait", "done"}
    /\ IF task[p] = "wait" /\ job[p].pc = "batch" /\ generation = job[p].want
       THEN task' = [task EXCEPT ![p] = "publish"] /\ UNCHANGED batch
       ELSE /\ task' = [task EXCEPT ![p] = "done"]
            /\ batch' = [batch EXCEPT ![p] = NoBatch]
    /\ job' = [job EXCEPT ![p] = [IdleJob EXCEPT !.pc = "gone"]]
    /\ UNCHANGED <<loopVars, published, cacheVars, shown>>

Send(p, u) ==
    /\ task[p] \in {"publish", "cut"}
    /\ u \in DOMAIN batch[p]
    /\ shown' = [shown EXCEPT ![u] = batch[p][u]]
    /\ batch' = [batch EXCEPT ![p] = [v \in DOMAIN batch[p] \ {u} |-> batch[p][v]]]
    /\ UNCHANGED <<loopVars, published, cacheVars, task, job>>

(* The task ends with its batch sent, or cut off before.                   *)
Finish(p) ==
    /\ \/ task[p] = "publish" /\ DOMAIN batch[p] = {}
       \/ task[p] = "cut"
    /\ task' = [task EXCEPT ![p] = "done"]
    /\ batch' = [batch EXCEPT ![p] = NoBatch]
    /\ UNCHANGED <<loopVars, published, cacheVars, job, shown>>

-----------------------------------------------------------------------------
ProtocolLoop ==
    \/ \E u \in Openable, t \in Texts : DidOpen(u, t) \/ DidChange(u, t)
    \/ \E u \in Openable : DidClose(u)
    \/ DidChangeWatchedFiles
    \/ Bump \/ Schedule \/ Shutdown
    \/ \E r \in Requests : Ask(r)

JobStep(j) ==
    \/ ReadGeneration(j) \/ TakeBuffers(j) \/ StoreBuffers(j)
    \/ TakeRoot(j) \/ NoRoot(j) \/ StoreRoot(j)
    \/ \E u \in Uris : CopyBuffer(j, u) \/ LoadFile(j, u)

PassStep(p) ==
    \/ Wake(p) \/ Recheck(p) \/ Collect(p) \/ Deliver(p) \/ Finish(p)
    \/ \E u \in Uris : ReadOpen(p, u) \/ Send(p, u)

(* Nothing is left to do: the client is silent and every job has ended.    *)
AtRest ==
    /\ loop = "idle" /\ (unseen => down)
    /\ \A p \in Passes : task[p] \in {"none", "done"} /\ job[p].pc \in {"idle", "gone"}
    /\ \A r \in Requests : job[r].pc = "idle"

Next ==
    \/ ProtocolLoop
    \/ \E u \in External, t \in Texts : DiskChanges(u, t)
    \/ \E j \in Jobs : JobStep(j)
    \/ \E p \in Passes : PassStep(p)
    \/ \E r \in Requests : Answer(r)
    \/ AtRest /\ UNCHANGED vars

(* The runtime runs every ready task and every job, a started handler      *)
(* returns, and the client reports a change of the disk; the client need   *)
(* not edit, ask or shut down.                                             *)
Fairness ==
    /\ WF_vars(Bump) /\ WF_vars(Schedule) /\ WF_vars(DidChangeWatchedFiles)
    /\ \A j \in Jobs : WF_vars(JobStep(j))
    /\ \A p \in Passes : WF_vars(PassStep(p))
    /\ \A r \in Requests : WF_vars(Answer(r))

Spec == Init /\ [][Next]_vars
FairSpec == Spec /\ Fairness

-----------------------------------------------------------------------------
(* Properties.                                                             *)

View == [Uris -> [text : Texts \cup {"closed"}, version : 0..MaxChanges]]

JobRecord ==
    [pc : {"idle", "generation", "buffers", "copy", "root", "load", "analysed",
           "open", "collect", "batch", "stale", "gone"},
     want : 0..MaxChanges, gen : 0..Never, todo : SUBSET Uris,
     view : View, open : View, seen : View, since : [Uris -> 0..MaxChanges]]

(* A generation that was read is not ahead of the counter.                 *)
Known(g) == g = Never \/ g <= generation

(* The counter leaves room for the bump of a change under way.             *)
LoopOK ==
    /\ docs \in View
    /\ disk \in [Uris -> Texts]
    /\ unseen \in BOOLEAN /\ down \in BOOLEAN
    /\ loop \in {"idle", "touched", "bumped"}
    /\ generation \in 0..MaxChanges
    /\ loop = "touched" => generation < MaxChanges

CachesOK ==
    /\ buffers \in [gen : 0..Never, view : View] /\ Known(buffers.gen)
    /\ root \in [gen : 0..Never, seen : View] /\ Known(root.gen)
    /\ buffersLock \in Jobs \cup {Free} /\ rootLock \in Jobs \cup {Free}

PassesOK ==
    /\ published \subseteq Uris
    /\ task \in [Passes -> {"none", "sleep", "wait", "publish", "cut", "done"}]
    /\ DOMAIN batch = Passes /\ \A p \in Passes : DOMAIN batch[p] \subseteq Uris
    /\ DOMAIN shown = Uris

JobsOK ==
    /\ job \in [Jobs -> JobRecord]
    /\ \A j \in Jobs : Known(job[j].gen)

(* The state has its shape and every cached generation has happened.       *)
TypeOK == LoopOK /\ CachesOK /\ PassesOK /\ JobsOK

(* No change is between its effect and its bump of the generation.         *)
Steady == loop # "touched" /\ ~unseen

(* A cache that carries the current generation holds the current buffers   *)
(* and the root over them: the order `change, then bump' of the handlers   *)
(* and `generation, then buffers' of `snapshot' allow no stale hit.        *)
CacheIsCurrent ==
    Steady =>
        /\ buffers.gen = generation => buffers.view = docs
        /\ root.gen = generation => root.seen = Overlay(docs, disk)

(* Why it holds.  A job that carries the current generation read it before *)
(* it copied anything, so what it has copied is still what is there: a     *)
(* later change would have bumped the generation past it.                  *)
CopiesAreCurrent ==
    loop # "touched" =>
        /\ buffers.gen = generation => buffers.view = docs
        /\ \A j \in Jobs : job[j].gen = generation =>
              /\ job[j].pc = "copy" =>
                    \A u \in Uris \ job[j].todo : job[j].view[u] = docs[u]
              /\ job[j].pc \in {"open", "root", "load"} => job[j].view = docs

LoadsAreCurrent ==
    Steady =>
        /\ root.gen = generation => root.seen = Overlay(docs, disk)
        /\ \A j \in Jobs : job[j].gen = generation /\ job[j].pc = "load" =>
              \A u \in Uris \ job[j].todo : job[j].seen[u] = Overlay(docs, disk)[u]

CacheInv ==
    /\ \A u \in Uris \ Openable : docs[u] = Closed(0)
    /\ \A j \in Jobs :
          job[j].pc \in {"idle", "generation", "buffers"} => job[j].view = NoView
    /\ CopiesAreCurrent
    /\ LoadsAreCurrent

(* An overtaken job never replaces the cached root with an older one.      *)
RootNeverRegresses ==
    [][root.gen # Never => root'.gen >= root.gen]_vars

(* A request sees at least the buffers the client had when it asked, also  *)
(* when its snapshot or root comes from another job's cache.               *)
ReadsItsWrites ==
    \A r \in Requests : job[r].pc = "analysed" =>
        \A u \in Uris :
            /\ job[r].view[u].version >= job[r].since[u]
            /\ job[r].seen[u].version >= job[r].since[u]

(* What the client should show for each file.                              *)
Truth == Found(docs, Overlay(docs, disk))

IsRight(u) == shown[u] = Truth[u]
Matters    == {u \in Uris : u \in OpenIn(docs) \/ Truth[u].errors # {}}

(* Once everything has come to rest, every open file and every file with   *)
(* errors shows exactly its errors, under the version of its buffer.       *)
SettledIsCurrent ==
    AtRest /\ ~down /\ generation > 0 => \A u \in Matters : IsRight(u)

(* server.rs, `published': a file whose errors are gone, or that left the  *)
(* import graph, is cleared.                                               *)
StaleErrorsClear ==
    AtRest /\ ~down /\ generation > 0 =>
        \A u \in Uris : Truth[u].errors = {} => shown[u].errors = {}

(* After the last change the client's view becomes right and stays right,  *)
(* unless the server is shut down.                                         *)
EventuallyCurrent ==
    <>[](down \/ (generation > 0 => \A u \in Matters : IsRight(u)))

(* Every request is answered, shut down or not: no two jobs wait for each  *)
(* other's cache.                                                          *)
EveryRequestAnswered ==
    \A r \in Requests : job[r].pc # "idle" ~> job[r].pc = "idle"
=============================================================================
