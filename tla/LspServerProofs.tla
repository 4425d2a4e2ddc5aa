-------------------------- MODULE LspServerProofs --------------------------
(***************************************************************************)
(* Proofs about LspServer, for any workspace, any number of requests and   *)
(* any number of changes.                                                  *)
(***************************************************************************)
EXTENDS LspServer, TLAPS

LEMMA NoViewType == NoView \in View
  BY ConstantsAssumption DEF ConstantsAssumption, NoView, View, Closed

LEMMA IdleJobType == IdleJob \in JobRecord /\ IdleJob.gen = Never
  BY ConstantsAssumption, NoViewType DEF ConstantsAssumption, IdleJob, JobRecord, Never

(* The initial state has the shape TypeOK gives it.                        *)
LEMMA InitTypeOK == Init => TypeOK
<1> SUFFICES ASSUME Init PROVE TypeOK
  OBVIOUS
<1>1. LoopOK
  <2>1. disk \in [Uris -> Texts]
    BY ConstantsAssumption DEF ConstantsAssumption, Init
  <2>2. generation \in 0..MaxChanges
    BY ConstantsAssumption DEF ConstantsAssumption, Init
  <2> QED
    BY <2>1, <2>2, NoViewType DEF LoopOK, Init
<1>2. CachesOK
  BY ConstantsAssumption, NoViewType DEF ConstantsAssumption, Init, CachesOK, Known, Never, Free
<1>3. PassesOK
  BY DEF PassesOK, NoBatch, Init
<1>4. JobsOK
  BY IdleJobType DEF JobsOK, Known, Init
<1> QED
  BY <1>1, <1>2, <1>3, <1>4 DEF TypeOK

(* What a step leaves alone keeps its part of the shape.                   *)
LEMMA LoopFrame == LoopOK /\ UNCHANGED loopVars => LoopOK'
  BY DEF LoopOK, loopVars

LEMMA CachesFrame ==
    CachesOK /\ UNCHANGED cacheVars /\ generation' = generation => CachesOK'
  BY DEF CachesOK, cacheVars, Known

LEMMA PassesFrame == PassesOK /\ UNCHANGED <<published, passVars>> => PassesOK'
  BY DEF PassesOK, passVars

LEMMA JobsFrame == JobsOK /\ UNCHANGED job /\ generation' = generation => JobsOK'
  BY DEF JobsOK, Known

(* A job that changes to a well-formed record keeps the jobs well-formed.  *)
LEMMA JobSet ==
    ASSUME JobsOK, generation' = generation,
           NEW j \in Jobs, NEW r \in JobRecord, Known(r.gen),
           job' = [job EXCEPT ![j] = r]
    PROVE  JobsOK'
  BY DEF JobsOK, Known

(* A handler that touches the buffers keeps the shape.                     *)
LEMMA TouchTypeOK ==
    ASSUME TypeOK, Touch, docs' \in View, disk' = disk, unseen' \in BOOLEAN
    PROVE  TypeOK'
<1>1. LoopOK'
  BY DEF TypeOK, LoopOK, Touch
<1>2. CachesOK' /\ PassesOK' /\ JobsOK'
  BY CachesFrame, PassesFrame, JobsFrame DEF TypeOK, Touch
<1> QED
  BY <1>1, <1>2 DEF TypeOK

LEMMA LoopStepTypeOK ==
    ASSUME TypeOK,
           \/ ProtocolLoop
           \/ \E u \in External, t \in Texts : DiskChanges(u, t)
    PROVE  TypeOK'
<1>g. generation \in 0..MaxChanges /\ MaxChanges \in Nat /\ Openable \subseteq Uris
      /\ External \subseteq Uris
  BY ConstantsAssumption DEF ConstantsAssumption, TypeOK, LoopOK
<1>1. ASSUME NEW u \in Openable, NEW t \in Texts, DidOpen(u, t) \/ DidChange(u, t)
      PROVE  TypeOK'
  <2>1. docs' \in View
    BY <1>1, <1>g DEF TypeOK, LoopOK, View, DidOpen, DidChange, Touch
  <2> QED
    BY <1>1, <2>1, TouchTypeOK DEF DidOpen, DidChange, TypeOK, LoopOK
<1>2. ASSUME NEW u \in Openable, DidClose(u)
      PROVE  TypeOK'
  <2>1. docs' \in View
    BY <1>2, <1>g DEF TypeOK, LoopOK, View, DidClose, Touch, Closed
  <2> QED
    BY <1>2, <2>1, TouchTypeOK DEF DidClose, TypeOK, LoopOK
<1>3. CASE DidChangeWatchedFiles
  BY <1>3, TouchTypeOK DEF DidChangeWatchedFiles, TypeOK, LoopOK
<1>4. CASE Bump
  <2>1. LoopOK'
    BY <1>4, <1>g DEF Bump, TypeOK, LoopOK
  <2>2. CachesOK'
    BY <1>4, <1>g DEF Bump, TypeOK, CachesOK, cacheVars, Known, Never
  <2>3. PassesOK'
    BY <1>4, PassesFrame DEF Bump, TypeOK
  <2>4. JobsOK'
    BY <1>4, <1>g DEF Bump, TypeOK, JobsOK, JobRecord, Known, Never
  <2> QED
    BY <2>1, <2>2, <2>3, <2>4 DEF TypeOK
<1>5. CASE Schedule
  <2>1. LoopOK' /\ CachesOK' /\ JobsOK'
    BY <1>5, CachesFrame, JobsFrame DEF Schedule, TypeOK, LoopOK
  <2>2. PassesOK'
    BY <1>5 DEF Schedule, TypeOK, PassesOK, Aborted
  <2> QED
    BY <2>1, <2>2 DEF TypeOK
<1>6. CASE Shutdown
  <2>1. LoopOK' /\ CachesOK' /\ JobsOK'
    BY <1>6, CachesFrame, JobsFrame DEF Shutdown, TypeOK, LoopOK
  <2>2. PassesOK'
    BY <1>6 DEF Shutdown, TypeOK, PassesOK, Aborted
  <2> QED
    BY <2>1, <2>2 DEF TypeOK
<1>7. ASSUME NEW r \in Requests, Ask(r)
      PROVE  TypeOK'
  <2> DEFINE new == [IdleJob EXCEPT !.pc = "generation",
                                    !.since = [u \in Uris |-> docs[u].version]]
  <2>1. new \in JobRecord /\ new.gen = Never
    <3>1. [u \in Uris |-> docs[u].version] \in [Uris -> 0..MaxChanges]
      BY DEF TypeOK, LoopOK, View
    <3> QED
      BY <3>1, IdleJobType DEF JobRecord
  <2>2. JobsOK'
    BY <1>7, <2>1, JobSet DEF Ask, TypeOK, loopVars, Known, Jobs
  <2>3. LoopOK' /\ CachesOK' /\ PassesOK'
    BY <1>7, LoopFrame, CachesFrame, PassesFrame DEF Ask, TypeOK, loopVars
  <2> QED
    BY <2>2, <2>3 DEF TypeOK
<1>8. ASSUME NEW u \in External, NEW t \in Texts, DiskChanges(u, t)
      PROVE  TypeOK'
  <2>1. LoopOK'
    BY <1>8, <1>g DEF DiskChanges, TypeOK, LoopOK
  <2>2. CachesOK' /\ PassesOK' /\ JobsOK'
    BY <1>8, CachesFrame, PassesFrame, JobsFrame DEF DiskChanges, TypeOK
  <2> QED
    BY <2>1, <2>2 DEF TypeOK
<1> QED
  BY <1>1, <1>2, <1>3, <1>4, <1>5, <1>6, <1>7, <1>8 DEF ProtocolLoop

(* A document seen through an overlay is a view again.                     *)
LEMMA OverlayType ==
    ASSUME NEW view \in View, NEW onDisk \in [Uris -> Texts]
    PROVE  Overlay(view, onDisk) \in View
<1>1. ASSUME NEW u \in Uris
      PROVE  [view[u] EXCEPT !.text = onDisk[u]]
                 \in [text : Texts \cup {"closed"}, version : 0..MaxChanges]
  BY <1>1 DEF View
<1> QED
  BY <1>1 DEF Overlay, OpenIn, View

(* A step of a job keeps the shape.                                        *)
LEMMA JobStepTypeOK ==
    ASSUME TypeOK, NEW j \in Jobs, JobStep(j)
    PROVE  TypeOK'
<1>g. /\ generation \in 0..MaxChanges /\ MaxChanges \in Nat /\ Openable \subseteq Uris
      /\ job \in [Jobs -> JobRecord] /\ job[j] \in JobRecord /\ Known(job[j].gen)
      /\ buffers \in [gen : 0..Never, view : View] /\ root \in [gen : 0..Never, seen : View]
  BY ConstantsAssumption DEF ConstantsAssumption, TypeOK, LoopOK, JobsOK, CachesOK
<1>p. AfterSnapshot(j) \in {"root", "stale", "open"}
  BY DEF AfterSnapshot
<1>f. UNCHANGED loopVars => generation' = generation
  BY DEF loopVars
<1>1. CASE ReadGeneration(j)
  <2>1. JobsOK'
    BY <1>1, <1>g, <1>f, JobSet, [job[j] EXCEPT !.gen = generation, !.pc = "buffers"] \in JobRecord
    DEF ReadGeneration, TypeOK, JobsOK, JobRecord, Known, Never
  <2> QED
    BY <1>1, <1>f, <2>1, LoopFrame, CachesFrame, PassesFrame DEF ReadGeneration, TypeOK
<1>2. CASE TakeBuffers(j)
  <2>1. JobsOK'
    BY <1>2, <1>g, <1>f, <1>p DEF TakeBuffers, TypeOK, JobsOK, JobRecord, Known
  <2>2. CachesOK'
    BY <1>2, <1>f DEF TakeBuffers, TypeOK, CachesOK, Known
  <2> QED
    BY <1>2, <1>f, <2>1, <2>2, LoopFrame, PassesFrame DEF TakeBuffers, TypeOK
<1>3. CASE StoreBuffers(j)
  <2>1. JobsOK'
    BY <1>3, <1>g, <1>f, <1>p DEF StoreBuffers, TypeOK, JobsOK, JobRecord, Known
  <2>2. CachesOK'
    BY <1>3, <1>g, <1>f DEF StoreBuffers, TypeOK, CachesOK, Known, JobRecord, BuffersLabel
  <2> QED
    BY <1>3, <1>f, <2>1, <2>2, LoopFrame, PassesFrame DEF StoreBuffers, TypeOK
<1>4. CASE TakeRoot(j)
  <2>1. JobsOK'
    BY <1>4, <1>g, <1>f DEF TakeRoot, TypeOK, JobsOK, JobRecord, Known
  <2>2. CachesOK'
    BY <1>4, <1>f DEF TakeRoot, TypeOK, CachesOK, Known
  <2> QED
    BY <1>4, <1>f, <2>1, <2>2, LoopFrame, PassesFrame DEF TakeRoot, TypeOK
<1>5. CASE NoRoot(j)
  <2>1. JobsOK'
    <3>1. [job[j] EXCEPT !.todo = Uris, !.pc = "load"] \in JobRecord
      BY <1>g DEF JobRecord
    <3> QED
      BY <3>1, <1>5, <1>g, <1>f DEF NoRoot, TypeOK, JobsOK, Known
  <2> QED
    BY <1>5, <1>f, <2>1, LoopFrame, CachesFrame, PassesFrame DEF NoRoot, TypeOK
<1>6. CASE StoreRoot(j)
  <2>1. JobsOK'
    BY <1>6, <1>g, <1>f DEF StoreRoot, Goto, TypeOK, JobsOK, JobRecord, Known
  <2>2. CachesOK'
    BY <1>6, <1>g, <1>f DEF StoreRoot, TypeOK, CachesOK, Known, JobRecord
  <2> QED
    BY <1>6, <1>f, <2>1, <2>2, LoopFrame, PassesFrame DEF StoreRoot, TypeOK
<1>7. ASSUME NEW u \in Uris, CopyBuffer(j, u)
      PROVE  TypeOK'
  <2>1. [job[j].view EXCEPT ![u] = docs[u]] \in View
    BY <1>g DEF JobRecord, View, TypeOK, LoopOK
  <2>2. [job[j] EXCEPT !.view[u] = docs[u], !.todo = @ \ {u}] \in JobRecord
    BY <1>g, <2>1 DEF JobRecord
  <2>3. JobsOK'
    BY <1>7, <1>g, <1>f, <2>2 DEF CopyBuffer, TypeOK, JobsOK, JobRecord, Known
  <2> QED
    BY <1>7, <1>f, <2>3, LoopFrame, CachesFrame, PassesFrame DEF CopyBuffer, TypeOK
<1>8. ASSUME NEW u \in Uris, LoadFile(j, u)
      PROVE  TypeOK'
  <2>0. Overlay(job[j].view, disk) \in View
    <3>1. job[j].view \in View /\ disk \in [Uris -> Texts]
      BY <1>g DEF JobRecord, TypeOK, LoopOK
    <3> QED
      BY <3>1, OverlayType
  <2>1. [job[j].seen EXCEPT ![u] = Overlay(job[j].view, disk)[u]] \in View
    BY <1>g, <2>0 DEF JobRecord, View
  <2>2. [job[j] EXCEPT !.seen[u] = Overlay(job[j].view, disk)[u], !.todo = @ \ {u}]
            \in JobRecord
    BY <1>g, <2>1 DEF JobRecord
  <2>3. JobsOK'
    BY <1>8, <1>g, <1>f, <2>2 DEF LoadFile, TypeOK, JobsOK, JobRecord, Known
  <2> QED
    BY <1>8, <1>f, <2>3, LoopFrame, CachesFrame, PassesFrame DEF LoadFile, TypeOK
<1> QED
  BY <1>1, <1>2, <1>3, <1>4, <1>5, <1>6, <1>7, <1>8 DEF JobStep

(* A step of a diagnostics pass, and an answer, keep the shape.            *)
LEMMA PassStepTypeOK ==
    ASSUME TypeOK, NEW p \in Passes, PassStep(p)
    PROVE  TypeOK'
<1>g. /\ generation \in 0..MaxChanges /\ MaxChanges \in Nat
      /\ job \in [Jobs -> JobRecord] /\ job[p] \in JobRecord /\ Known(job[p].gen)
      /\ p \in Jobs
  BY ConstantsAssumption DEF ConstantsAssumption, TypeOK, LoopOK, JobsOK, Jobs
<1>f. UNCHANGED loopVars => generation' = generation
  BY DEF loopVars
<1>i. [IdleJob EXCEPT !.pc = "gone"] \in JobRecord /\ IdleJob.gen = Never
  BY IdleJobType DEF JobRecord
<1>1. CASE Wake(p)
  <2>1. JobsOK'
    <3> DEFINE r == [IdleJob EXCEPT !.want = generation, !.pc = "generation"]
    <3>1. r \in JobRecord /\ Known(r.gen)
      BY <1>g, IdleJobType DEF JobRecord, Known
    <3> QED
      BY <3>1, <1>1, <1>g, <1>f, JobSet DEF Wake, TypeOK
  <2>2. PassesOK'
    BY <1>1 DEF Wake, TypeOK, PassesOK
  <2> QED
    BY <1>1, <1>f, <2>1, <2>2, LoopFrame, CachesFrame DEF Wake, TypeOK
<1>2. CASE Recheck(p)
  <2>1. JobsOK'
    BY <1>2, <1>g, <1>f DEF Recheck, Goto, TypeOK, JobsOK, JobRecord, Known
  <2> QED
    BY <1>2, <1>f, <2>1, LoopFrame, CachesFrame, PassesFrame DEF Recheck, TypeOK
<1>3. CASE Collect(p)
  <2>1. JobsOK'
    BY <1>3, <1>g, <1>f DEF Collect, Goto, TypeOK, JobsOK, JobRecord, Known
  <2>2. PassesOK'
    BY <1>3 DEF Collect, Targets, OpenIn, TypeOK, PassesOK
  <2> QED
    BY <1>3, <1>f, <2>1, <2>2, LoopFrame, CachesFrame DEF Collect, TypeOK
<1>4. CASE Deliver(p)
  <2>1. JobsOK'
    BY <1>4, <1>g, <1>f, <1>i DEF Deliver, TypeOK, JobsOK, Known
  <2>2. PassesOK'
    BY <1>4 DEF Deliver, NoBatch, TypeOK, PassesOK
  <2> QED
    BY <1>4, <1>f, <2>1, <2>2, LoopFrame, CachesFrame DEF Deliver, TypeOK
<1>5. CASE Finish(p)
  <2>1. PassesOK'
    BY <1>5 DEF Finish, NoBatch, TypeOK, PassesOK
  <2> QED
    BY <1>5, <1>f, <2>1, LoopFrame, CachesFrame, JobsFrame DEF Finish, TypeOK
<1>6. ASSUME NEW u \in Uris, ReadOpen(p, u)
      PROVE  TypeOK'
  <2>1. [job[p].open EXCEPT ![u] = docs[u]] \in View
    BY <1>g DEF JobRecord, View, TypeOK, LoopOK
  <2> DEFINE new == [job[p] EXCEPT !.open[u] = docs[u], !.todo = @ \ {u},
                         !.pc = IF job[p].todo = {u} THEN "root" ELSE @]
  <2>2. new \in JobRecord /\ Known(new.gen)
    BY <1>g, <2>1 DEF JobRecord
  <2>3. job' = [job EXCEPT ![p] = new]
    BY <1>6, <1>g DEF ReadOpen
  <2>4. JobsOK'
    BY <1>6, <1>g, <1>f, <2>2, <2>3, JobSet DEF ReadOpen, TypeOK
  <2> QED
    BY <1>6, <1>f, <2>4, LoopFrame, CachesFrame, PassesFrame DEF ReadOpen, TypeOK
<1>7. ASSUME NEW u \in Uris, Send(p, u)
      PROVE  TypeOK'
  <2>1. PassesOK'
    BY <1>7 DEF Send, TypeOK, PassesOK
  <2> QED
    BY <1>7, <1>f, <2>1, LoopFrame, CachesFrame, JobsFrame DEF Send, TypeOK
<1> QED
  BY <1>1, <1>2, <1>3, <1>4, <1>5, <1>6, <1>7 DEF PassStep

LEMMA AnswerTypeOK ==
    ASSUME TypeOK, NEW r \in Requests, Answer(r)
    PROVE  TypeOK'
<1>1. generation' = generation
  BY DEF Answer, loopVars
<1>2. JobsOK'
  BY <1>1, IdleJobType DEF Answer, TypeOK, JobsOK, Known, Jobs
<1> QED
  BY <1>1, <1>2, LoopFrame, CachesFrame, PassesFrame DEF Answer, TypeOK

LEMMA StutterTypeOK == TypeOK /\ UNCHANGED vars => TypeOK'
<1> SUFFICES ASSUME TypeOK, UNCHANGED vars PROVE TypeOK'
  OBVIOUS
<1>1. UNCHANGED <<loopVars, cacheVars, published, passVars, job>>
  BY DEF vars, loopVars, cacheVars, passVars
<1> QED
  BY <1>1, LoopFrame, CachesFrame, PassesFrame, JobsFrame DEF TypeOK, loopVars

LEMMA StepTypeOK == TypeOK /\ [Next]_vars => TypeOK'
  BY LoopStepTypeOK, JobStepTypeOK, PassStepTypeOK, AnswerTypeOK, StutterTypeOK DEF Next

(* In every reachable state the state has its shape, the generation of     *)
(* every cache and of every job is one that has happened, and a change     *)
(* under way still has a generation to take.                               *)
THEOREM TypeCorrect == Spec => []TypeOK
<1>1. Init => TypeOK
  BY InitTypeOK
<1>2. TypeOK /\ [Next]_vars => TypeOK'
  BY StepTypeOK
<1> QED
  BY <1>1, <1>2, PTL DEF Spec

-----------------------------------------------------------------------------
(* The cache invariant, part by part.                                      *)

Untouched  == \A u \in Uris \ Openable : docs[u] = Closed(0)
FreshViews == \A j \in Jobs :
    job[j].pc \in {"idle", "generation", "buffers"} => job[j].view = NoView

LEMMA InitCacheInv == Init => CacheInv
  BY ConstantsAssumption DEF ConstantsAssumption, Init, CacheInv, CopiesAreCurrent, LoadsAreCurrent,
     IdleJob, NoView, Never, Closed

(* A step that leaves the buffers, the disk, the counter, the caches and   *)
(* the jobs alone keeps it.                                                *)
LEMMA CacheFrame ==
    ASSUME CacheInv, UNCHANGED <<docs, disk, unseen, generation, cacheVars, job>>,
           loop' = loop \/ (loop = "bumped" /\ loop' = "idle")
    PROVE  CacheInv'
  BY DEF CacheInv, CopiesAreCurrent, LoadsAreCurrent, Steady, cacheVars, Overlay, OpenIn

(* A handler that touches the buffers falsifies what the two parts assume. *)
LEMMA TouchCacheInv ==
    ASSUME CacheInv, Touch, Untouched'
    PROVE  CacheInv'
  BY DEF CacheInv, CopiesAreCurrent, LoadsAreCurrent, Steady, Touch, Untouched

LEMMA LoopStepCacheInv ==
    ASSUME TypeOK, CacheInv,
           \/ ProtocolLoop
           \/ \E u \in External, t \in Texts : DiskChanges(u, t)
    PROVE  CacheInv'
<1>g. generation \in 0..MaxChanges /\ MaxChanges \in Nat /\ Openable \subseteq Uris
  BY ConstantsAssumption DEF ConstantsAssumption, TypeOK, LoopOK
<1>1. ASSUME NEW u \in Openable, NEW t \in Texts, DidOpen(u, t) \/ DidChange(u, t)
      PROVE  CacheInv'
  <2>1. Untouched'
    BY <1>1, <1>g DEF DidOpen, DidChange, CacheInv, Untouched, TypeOK, LoopOK, View
  <2> QED
    BY <1>1, <2>1, TouchCacheInv DEF DidOpen, DidChange
<1>2. ASSUME NEW u \in Openable, DidClose(u)
      PROVE  CacheInv'
  <2>1. Untouched'
    BY <1>2, <1>g DEF DidClose, CacheInv, Untouched, TypeOK, LoopOK, View
  <2> QED
    BY <1>2, <2>1, TouchCacheInv DEF DidClose
<1>3. CASE DidChangeWatchedFiles
  <2>1. Untouched'
    BY <1>3 DEF DidChangeWatchedFiles, CacheInv, Untouched
  <2> QED
    BY <1>3, <2>1, TouchCacheInv DEF DidChangeWatchedFiles
<1>4. CASE Bump
  <2>1. /\ buffers'.gen # generation' /\ root'.gen # generation'
        /\ \A j \in Jobs : job'[j].gen # generation'
    BY <1>4, <1>g DEF Bump, TypeOK, LoopOK, CachesOK, JobsOK, JobRecord, Known, Never, cacheVars
  <2> QED
    BY <1>4, <2>1 DEF Bump, CacheInv, CopiesAreCurrent, LoadsAreCurrent
<1>5. CASE Schedule \/ Shutdown
  BY <1>5, CacheFrame DEF Schedule, Shutdown
<1>6. ASSUME NEW r \in Requests, Ask(r)
      PROVE  CacheInv'
  BY <1>6, <1>g, IdleJobType
  DEF Ask, CacheInv, CopiesAreCurrent, LoadsAreCurrent, Steady, TypeOK, JobsOK, loopVars,
      cacheVars, IdleJob, Overlay, OpenIn, Jobs
<1>7. ASSUME NEW u \in External, NEW t \in Texts, DiskChanges(u, t)
      PROVE  CacheInv'
  BY <1>7 DEF DiskChanges, CacheInv, CopiesAreCurrent, LoadsAreCurrent, Steady, cacheVars
<1> QED
  BY <1>1, <1>2, <1>3, <1>4, <1>5, <1>6, <1>7 DEF ProtocolLoop

(* What CacheInv asks of one job's record.                                 *)
RecordOK(r) ==
    /\ r.pc \in {"idle", "generation", "buffers"} => r.view = NoView
    /\ loop # "touched" /\ r.gen = generation =>
          /\ r.pc = "copy" => \A u \in Uris \ r.todo : r.view[u] = docs[u]
          /\ r.pc \in {"open", "root", "load"} => r.view = docs
    /\ Steady /\ r.gen = generation /\ r.pc = "load" =>
          \A u \in Uris \ r.todo : r.seen[u] = Overlay(docs, disk)[u]

(* A step that only replaces one job's record by one that is right.        *)
LEMMA RecordStep ==
    ASSUME CacheInv, UNCHANGED <<docs, disk, unseen, loop, generation, buffers, root>>,
           job \in [Jobs -> JobRecord],
           NEW j \in Jobs, NEW r, job' = [job EXCEPT ![j] = r], RecordOK(r)
    PROVE  CacheInv'
<1>1. Overlay(docs, disk)' = Overlay(docs, disk)
  BY DEF Overlay, OpenIn
<1>2. job'[j] = r /\ \A k \in Jobs \ {j} : job'[k] = job[k]
  OBVIOUS
<1> QED
  BY <1>1, <1>2 DEF CacheInv, CopiesAreCurrent, LoadsAreCurrent, Steady, RecordOK

(* A step of one job: the others keep their records.                       *)
LEMMA JobStepCacheInv ==
    ASSUME TypeOK, CacheInv, NEW j \in Jobs, JobStep(j)
    PROVE  CacheInv'
<1>g. /\ generation \in 0..MaxChanges /\ MaxChanges \in Nat
      /\ job \in [Jobs -> JobRecord] /\ job[j] \in JobRecord
      /\ docs \in View /\ disk \in [Uris -> Texts]
      /\ job[j].view \in View /\ job[j].seen \in View
      /\ Overlay(docs, disk) \in View
      /\ generation # Never
  BY ConstantsAssumption, OverlayType
  DEF ConstantsAssumption, TypeOK, LoopOK, JobsOK, JobRecord, Never
<1>v. View \subseteq [Uris -> [text : Texts \cup {"closed"}, version : 0..MaxChanges]]
  BY DEF View
<1> USE DEF CacheInv, CopiesAreCurrent, LoadsAreCurrent, Steady, loopVars, cacheVars
<1>1. CASE ReadGeneration(j)
  BY <1>1, <1>g DEF ReadGeneration
<1>2. CASE TakeBuffers(j)
  <2>1. CASE BuffersHit(j)
    <3> DEFINE r == [job[j] EXCEPT !.view = buffers.view, !.todo = Openable,
                                   !.pc = AfterSnapshot(j)]
    <3>1. job' = [job EXCEPT ![j] = r]
      BY <1>2, <1>g, <2>1 DEF TakeBuffers
    <3>2. RecordOK(r)
      BY <1>2, <1>g, <2>1 DEF TakeBuffers, BuffersHit, RecordOK, AfterSnapshot, JobRecord
    <3> QED
      BY <1>2, <1>g, <3>1, <3>2, RecordStep DEF TakeBuffers
  <2>2. CASE ~BuffersHit(j)
    <3> DEFINE r == [job[j] EXCEPT !.todo = Openable, !.pc = "copy"]
    <3>1. job' = [job EXCEPT ![j] = r]
      BY <1>2, <1>g, <2>2 DEF TakeBuffers
    <3>2. RecordOK(r)
      BY <1>2, <1>g DEF TakeBuffers, RecordOK, JobRecord, NoView
    <3> QED
      BY <1>2, <1>g, <2>2, <3>1, <3>2, RecordStep DEF TakeBuffers
  <2> QED
    BY <2>1, <2>2
<1>3. CASE StoreBuffers(j)
  <2>1. job[j].gen = generation /\ loop # "touched" => job[j].view = docs
    BY <1>3, <1>g DEF StoreBuffers, View
  <2> QED
    BY <1>3, <1>g, <2>1 DEF StoreBuffers, BuffersLabel, AfterSnapshot
<1>4. CASE TakeRoot(j)
  <2> DEFINE r == IF root.gen = job[j].gen
                  THEN [job[j] EXCEPT !.seen = root.seen, !.pc = "analysed"]
                  ELSE [job[j] EXCEPT !.todo = Uris, !.pc = "load"]
  <2>1. job' = [job EXCEPT ![j] = r]
    BY <1>4, <1>g DEF TakeRoot
  <2>2. RecordOK(r)
    BY <1>4, <1>g DEF TakeRoot, RecordOK, JobRecord
  <2> QED
    BY <1>4, <1>g, <2>1, <2>2, RecordStep DEF TakeRoot
<1>5. CASE NoRoot(j)
  BY <1>5, <1>g DEF NoRoot
<1>6. CASE StoreRoot(j)
  <2>1. job[j].gen = generation /\ Steady => job[j].seen = Overlay(docs, disk)
    BY <1>6, <1>g DEF StoreRoot, View
  <2> QED
    BY <1>6, <1>g, <2>1 DEF StoreRoot, NewerRoot, Goto, Overlay, OpenIn
<1>7. ASSUME NEW u \in Uris, CopyBuffer(j, u)
      PROVE  CacheInv'
  BY <1>7, <1>g DEF CopyBuffer, View
<1>8. ASSUME NEW u \in Uris, LoadFile(j, u)
      PROVE  CacheInv'
  BY <1>8, <1>g DEF LoadFile, View
<1> QED
  BY <1>1, <1>2, <1>3, <1>4, <1>5, <1>6, <1>7, <1>8 DEF JobStep

LEMMA PassStepCacheInv ==
    ASSUME TypeOK, CacheInv, NEW p \in Passes, PassStep(p)
    PROVE  CacheInv'
<1>g. /\ job \in [Jobs -> JobRecord] /\ p \in Jobs /\ job[p] \in JobRecord
      /\ MaxChanges \in Nat /\ generation \in 0..MaxChanges
  BY ConstantsAssumption DEF ConstantsAssumption, TypeOK, LoopOK, JobsOK, Jobs
<1>i. IdleJob.view = NoView /\ IdleJob.gen = Never /\ generation # Never
      /\ IdleJob \in JobRecord
  BY <1>g, IdleJobType DEF IdleJob, Never
<1>f. UNCHANGED <<loopVars, cacheVars>> =>
          UNCHANGED <<docs, disk, unseen, loop, generation, buffers, root>>
  BY DEF loopVars, cacheVars
<1>1. CASE Wake(p)
  <2> DEFINE r == [IdleJob EXCEPT !.want = generation, !.pc = "generation"]
  <2>1. RecordOK(r)
    BY <1>i DEF RecordOK, JobRecord
  <2> QED
    BY <1>1, <1>g, <1>f, <2>1, RecordStep DEF Wake
<1>2. CASE Recheck(p)
  <2> DEFINE r == [job[p] EXCEPT !.pc = IF generation = job[p].want THEN "collect" ELSE "stale"]
  <2>1. RecordOK(r)
    BY <1>g DEF RecordOK, JobRecord
  <2>2. job' = [job EXCEPT ![p] = r]
    BY <1>2, <1>g DEF Recheck, Goto
  <2> QED
    BY <1>2, <1>g, <1>f, <2>1, <2>2, RecordStep DEF Recheck
<1>3. CASE Collect(p)
  <2> DEFINE r == [job[p] EXCEPT !.pc = "batch"]
  <2>1. RecordOK(r)
    BY <1>g DEF RecordOK, JobRecord
  <2>2. job' = [job EXCEPT ![p] = r]
    BY <1>3, <1>g DEF Collect, Goto
  <2> QED
    BY <1>3, <1>g, <1>f, <2>1, <2>2, RecordStep DEF Collect
<1>4. CASE Deliver(p)
  <2> DEFINE r == [IdleJob EXCEPT !.pc = "gone"]
  <2>1. RecordOK(r)
    BY <1>i DEF RecordOK, JobRecord
  <2> QED
    BY <1>4, <1>g, <1>f, <2>1, RecordStep DEF Deliver
<1>5. CASE Finish(p)
  BY <1>5, <1>f, CacheFrame DEF Finish, loopVars
<1>6. ASSUME NEW u \in Uris, ReadOpen(p, u)
      PROVE  CacheInv'
  <2> DEFINE r == [job[p] EXCEPT !.open[u] = docs[u], !.todo = @ \ {u},
                       !.pc = IF job[p].todo = {u} THEN "root" ELSE @]
  <2>1. RecordOK(r)
    BY <1>6, <1>g DEF RecordOK, JobRecord, ReadOpen, CacheInv, CopiesAreCurrent
  <2>2. job' = [job EXCEPT ![p] = r]
    BY <1>6, <1>g DEF ReadOpen
  <2> QED
    BY <1>6, <1>g, <1>f, <2>1, <2>2, RecordStep DEF ReadOpen
<1>7. ASSUME NEW u \in Uris, Send(p, u)
      PROVE  CacheInv'
  BY <1>7, <1>f, CacheFrame DEF Send, loopVars
<1> QED
  BY <1>1, <1>2, <1>3, <1>4, <1>5, <1>6, <1>7 DEF PassStep

LEMMA AnswerCacheInv ==
    ASSUME TypeOK, CacheInv, NEW r \in Requests, Answer(r)
    PROVE  CacheInv'
<1>1. RecordOK(IdleJob)
  BY DEF RecordOK, IdleJob
<1>2. UNCHANGED <<docs, disk, unseen, loop, generation, buffers, root>>
  BY DEF Answer, loopVars, cacheVars
<1> QED
  BY <1>1, <1>2, RecordStep DEF Answer, TypeOK, JobsOK, Jobs

LEMMA StepCacheInv == TypeOK /\ CacheInv /\ [Next]_vars => CacheInv'
<1>1. TypeOK /\ CacheInv /\ UNCHANGED vars => CacheInv'
  BY CacheFrame DEF vars, cacheVars
<1> QED
  BY <1>1, LoopStepCacheInv, JobStepCacheInv, PassStepCacheInv, AnswerCacheInv DEF Next

(* No cache is ever served stale: whenever no change is between its effect *)
(* and its bump, a buffer map or a root that carries the current           *)
(* generation is the one the current buffers and disk give.                *)
THEOREM CachesNeverStale == Spec => []CacheIsCurrent
<1>1. Init => CacheInv
  BY InitCacheInv
<1>2. TypeOK /\ CacheInv /\ [Next]_vars => CacheInv'
  BY StepCacheInv
<1>3. CacheInv => CacheIsCurrent
  BY DEF CacheInv, CopiesAreCurrent, LoadsAreCurrent, Steady, CacheIsCurrent
<1> QED
  BY <1>1, <1>2, <1>3, TypeCorrect, PTL DEF Spec

(* The cached root never goes back to an older generation, whichever job   *)
(* stores it: the test in `root' is what a job that was overtaken meets.   *)
LEMMA RootStep ==
    TypeOK /\ [Next]_vars => (root.gen # Never => root'.gen >= root.gen)
<1> SUFFICES ASSUME TypeOK, [Next]_vars, root.gen # Never
             PROVE  root'.gen >= root.gen
  OBVIOUS
<1>1. root.gen \in 0..Never /\ Never \in Nat
  BY ConstantsAssumption DEF ConstantsAssumption, Never, TypeOK, CachesOK
<1>2. ASSUME NEW j \in Jobs, StoreRoot(j)
      PROVE  root'.gen >= root.gen
  BY <1>1, <1>2 DEF StoreRoot, NewerRoot, TypeOK, JobsOK, JobRecord
<1>3. (\A j \in Jobs : ~StoreRoot(j)) => root' = root
  BY DEF Next, vars, ProtocolLoop, DidOpen, DidChange, DidClose, DidChangeWatchedFiles, Touch,
     Bump, Schedule, Shutdown, Ask, DiskChanges, JobStep, ReadGeneration, TakeBuffers,
     StoreBuffers, TakeRoot, NoRoot, CopyBuffer, LoadFile, PassStep, Wake, Recheck, Collect,
     Deliver, Finish, ReadOpen, Send, Answer, cacheVars
<1> QED
  BY <1>1, <1>2, <1>3

THEOREM RootForward == Spec => RootNeverRegresses
<1>1. TypeOK /\ [Next]_vars => [root.gen # Never => root'.gen >= root.gen]_vars
  BY RootStep
<1> QED
  BY <1>1, TypeCorrect, PTL DEF Spec, RootNeverRegresses

-----------------------------------------------------------------------------
(* A request sees the edits its client made before it.  A change of a file *)
(* stamps its buffer with the generation it is about to make, so a copy    *)
(* that is labelled g holds every change up to g: the one the buffer shows *)
(* now, and the ones it showed when the requests in flight were sent.      *)
Stamps(u) == {docs[u].version} \cup {job[r].since[u] : r \in Requests}
Knows(view, u, g) == \A d \in Stamps(u) : d <= g => view[u].version >= d

Labelled == {"buffers", "copy", "open", "root", "load", "analysed"}

Informed(r) ==
    /\ r.pc \in Labelled => r.gen # Never
    /\ r.pc = "copy" => \A u \in Uris \ r.todo : Knows(r.view, u, r.gen)
    /\ r.pc \in {"open", "root", "load", "analysed"} =>
          \A u \in Uris : Knows(r.view, u, r.gen)
    /\ r.pc = "load" => \A u \in Uris \ r.todo : Knows(r.seen, u, r.gen)
    /\ r.pc = "analysed" => \A u \in Uris : Knows(r.seen, u, r.gen)

Stamped ==
    \A u \in Uris : \/ docs[u].version <= generation
                    \/ loop = "touched" /\ docs[u].version = generation + 1

AskedBefore ==
    \A r \in Requests, u \in Uris :
        /\ job[r].since[u] <= docs[u].version
        /\ job[r].since[u] <= generation
        /\ job[r].pc \in Labelled =>
              job[r].since[u] <= job[r].gen

CachesInformed ==
    /\ buffers.gen # Never => \A u \in Uris : Knows(buffers.view, u, buffers.gen)
    /\ root.gen # Never => \A u \in Uris : Knows(root.seen, u, root.gen)

WriteInv ==
    /\ Stamped
    /\ AskedBefore
    /\ CachesInformed
    /\ \A j \in Jobs : Informed(job[j])

(* The only stamp a step adds is that of the change it makes.              *)
StampsKept == \A u \in Uris : Stamps(u)' \subseteq Stamps(u) \cup {0, generation + 1}

LEMMA StampsAreNumbers ==
    ASSUME TypeOK
    PROVE  /\ MaxChanges \in Nat /\ Never \in Nat /\ generation \in 0..MaxChanges
           /\ generation < Never
           /\ \A r \in Requests : r \in Jobs /\ job[r] \in JobRecord
           /\ \A u \in Uris : Stamps(u) \subseteq 0..MaxChanges
<1>1. MaxChanges \in Nat /\ Never \in Nat /\ generation \in 0..MaxChanges /\ generation < Never
  BY ConstantsAssumption DEF ConstantsAssumption, TypeOK, LoopOK, Never
<1>2. \A r \in Requests : r \in Jobs /\ job[r] \in JobRecord
  BY DEF TypeOK, JobsOK, Jobs
<1>3. ASSUME NEW u \in Uris PROVE Stamps(u) \subseteq 0..MaxChanges
  BY <1>2 DEF Stamps, JobRecord, TypeOK, LoopOK, View
<1> QED
  BY <1>1, <1>2, <1>3

LEMMA KnowsKept ==
    ASSUME TypeOK, StampsKept, NEW view \in View, NEW g \in Nat, g <= generation,
           NEW u \in Uris, Knows(view, u, g)
    PROVE  Knows(view, u, g)'
<1>1. \A d \in Stamps(u)' : d \in Stamps(u) \/ d = 0 \/ d = generation + 1
  BY DEF StampsKept
<1>2. view[u].version \in Nat
  BY StampsAreNumbers DEF View
<1>3. generation \in Nat
  BY StampsAreNumbers
<1> QED
  BY <1>1, <1>2, <1>3 DEF Knows

LEMMA InformedKept ==
    ASSUME TypeOK, StampsKept, NEW r \in JobRecord, Known(r.gen), Informed(r)
    PROVE  Informed(r)'
<1>1. r.view \in View /\ r.seen \in View /\ r.gen \in Nat
  BY StampsAreNumbers DEF JobRecord
<1>2. r.pc \in Labelled => r.gen <= generation
  BY DEF Informed, Known
<1>3. r.pc \in {"copy", "open", "root", "load", "analysed"} => r.pc \in Labelled
  BY DEF Labelled
<1>4. ASSUME r.pc = "copy", NEW u \in Uris \ r.todo
      PROVE  Knows(r.view, u, r.gen)'
  BY <1>1, <1>2, <1>3, <1>4, KnowsKept DEF Informed
<1>5. ASSUME r.pc \in {"open", "root", "load", "analysed"}, NEW u \in Uris
      PROVE  Knows(r.view, u, r.gen)'
  BY <1>1, <1>2, <1>3, <1>5, KnowsKept DEF Informed
<1>6. ASSUME r.pc = "load", NEW u \in Uris \ r.todo
      PROVE  Knows(r.seen, u, r.gen)'
  BY <1>1, <1>2, <1>3, <1>6, KnowsKept DEF Informed
<1>7. ASSUME r.pc = "analysed", NEW u \in Uris
      PROVE  Knows(r.seen, u, r.gen)'
  BY <1>1, <1>2, <1>3, <1>7, KnowsKept DEF Informed
<1> QED
  BY <1>4, <1>5, <1>6, <1>7 DEF Informed

LEMMA CachesKept ==
    ASSUME TypeOK, StampsKept, CachesInformed, UNCHANGED <<buffers, root>>
    PROVE  CachesInformed'
<1>1. /\ buffers.view \in View /\ buffers.gen \in Nat
      /\ root.seen \in View /\ root.gen \in Nat
  BY StampsAreNumbers DEF TypeOK, CachesOK
<1>2. /\ buffers.gen # Never => buffers.gen <= generation
      /\ root.gen # Never => root.gen <= generation
  BY DEF TypeOK, CachesOK, Known
<1>3. ASSUME NEW u \in Uris, buffers.gen # Never
      PROVE  Knows(buffers.view, u, buffers.gen)'
  <2> DEFINE view == buffers.view
             g == buffers.gen
  <2>1. \A v \in View, n \in Nat :
            n <= generation /\ Knows(v, u, n) => \A d \in Stamps(u)' : d <= n => v[u].version >= d
    BY KnowsKept DEF Knows
  <2>2. \A d \in Stamps(u)' : d <= g => view[u].version >= d
    BY <1>1, <1>2, <1>3, <2>1 DEF CachesInformed
  <2> QED
    BY <2>2 DEF Knows
<1>4. ASSUME NEW u \in Uris, root.gen # Never
      PROVE  Knows(root.seen, u, root.gen)'
  <2> DEFINE view == root.seen
             g == root.gen
  <2>1. \A v \in View, n \in Nat :
            n <= generation /\ Knows(v, u, n) => \A d \in Stamps(u)' : d <= n => v[u].version >= d
    BY KnowsKept DEF Knows
  <2>2. \A d \in Stamps(u)' : d <= g => view[u].version >= d
    BY <1>1, <1>2, <1>4, <2>1 DEF CachesInformed
  <2> QED
    BY <2>2 DEF Knows
<1> QED
  BY <1>3, <1>4 DEF CachesInformed

LEMMA InitWriteInv == Init => WriteInv
<1> SUFFICES ASSUME Init PROVE WriteInv
  OBVIOUS
<1>1. MaxChanges \in Nat /\ generation = 0 /\ buffers.gen = Never /\ root.gen = Never
  BY ConstantsAssumption DEF ConstantsAssumption, Init
<1>2. \A u \in Uris : docs[u].version = 0
  BY DEF Init, NoView, Closed
<1>3. \A j \in Jobs : job[j] = IdleJob
  BY DEF Init
<1>4. \A r \in Requests : job[r] = IdleJob
  BY <1>3 DEF Jobs
<1>5. IdleJob.pc = "idle" /\ \A u \in Uris : IdleJob.since[u] = 0
  BY DEF IdleJob
<1>6. Stamped
  BY <1>1, <1>2 DEF Stamped
<1>7. AskedBefore
  BY <1>1, <1>2, <1>4, <1>5 DEF AskedBefore, Labelled
<1>8. CachesInformed
  BY <1>1 DEF CachesInformed
<1>9. Informed(IdleJob)
  BY <1>5 DEF Informed, Labelled
<1> QED
  BY <1>3, <1>6, <1>7, <1>8, <1>9 DEF WriteInv

(* A step of one job replaces its record.  A request keeps its `since', or *)
(* ends; a generation is the present one when it is read.                  *)
Succeeds(j, r) ==
    /\ j \in Requests => \A u \in Uris : r.since[u] \in {0, job[j].since[u]}
    /\ r.pc \in Labelled =>
          (job[j].pc \in Labelled /\ r.gen = job[j].gen) \/ r.gen = generation

LEMMA RecordStamps ==
    ASSUME TypeOK, UNCHANGED docs, NEW j \in Jobs, NEW r,
           job' = [job EXCEPT ![j] = r], Succeeds(j, r)
    PROVE  StampsKept
<1>1. \A q \in Requests : q \in Jobs /\ job'[q] = IF q = j THEN r ELSE job[q]
  BY DEF TypeOK, JobsOK, Jobs
<1> QED
  BY <1>1 DEF StampsKept, Stamps, Succeeds

LEMMA RecordWrites ==
    ASSUME TypeOK, TypeOK', WriteInv, UNCHANGED <<docs, loop, generation>>,
           NEW j \in Jobs, NEW r, job' = [job EXCEPT ![j] = r],
           Succeeds(j, r), Informed(r), CachesInformed'
    PROVE  WriteInv'
<1>1. job \in [Jobs -> JobRecord] /\ job' \in [Jobs -> JobRecord] /\ r \in JobRecord
  BY DEF TypeOK, JobsOK
<1>2. \A k \in Jobs : job'[k] = IF k = j THEN r ELSE job[k]
  BY <1>1
<1>3. StampsKept
  BY RecordStamps
<1>4. Stamped'
  BY DEF WriteInv, Stamped
<1>5. ASSUME NEW q \in Requests, NEW u \in Uris
      PROVE  /\ job'[q].since[u] <= docs'[u].version
             /\ job'[q].since[u] <= generation'
             /\ job'[q].pc \in Labelled => job'[q].since[u] <= job'[q].gen
  <2>1. q \in Jobs
    BY DEF Jobs
  <2>2. docs[u].version \in Nat /\ generation \in Nat /\ 0 <= docs[u].version /\ 0 <= generation
    BY StampsAreNumbers DEF TypeOK, LoopOK, View
  <2>3. r.gen \in Nat /\ job[q].gen \in Nat
    BY <1>1, <2>1, StampsAreNumbers DEF JobRecord
  <2> QED
    BY <1>2, <2>1, <2>2, <2>3 DEF WriteInv, AskedBefore, Succeeds
<1>6. ASSUME NEW k \in Jobs PROVE Informed(job[k])'
  <2> DEFINE x == IF k = j THEN r ELSE job[k]
  <2>1. job'[k] = x
    BY <1>2
  <2>2. x \in JobRecord /\ Known(x.gen)
    <3>1. Known(job[k].gen)'
      BY DEF TypeOK, JobsOK
    <3> QED
      BY <1>1, <2>1, <3>1 DEF Known
  <2>3. Informed(x)
    BY DEF WriteInv
  <2>4. \A y \in JobRecord : Known(y.gen) /\ Informed(y) => Informed(y)'
    BY <1>3, InformedKept
  <2>5. \A y : Informed(y)' /\ job'[k] = y => Informed(job[k])'
    BY DEF Informed
  <2> HIDE DEF x
  <2> QED
    BY <2>1, <2>2, <2>3, <2>4, <2>5
<1>7. AskedBefore'
  BY <1>5 DEF AskedBefore
<1> QED
  BY <1>4, <1>6, <1>7 DEF WriteInv

(* A step that leaves the jobs and the caches alone.                       *)
LEMMA FrameWrites ==
    ASSUME TypeOK, WriteInv, StampsKept, UNCHANGED <<job, buffers, root>>,
           Stamped', AskedBefore'
    PROVE  WriteInv'
<1>1. CachesInformed'
  BY CachesKept DEF WriteInv
<1>2. ASSUME NEW k \in Jobs PROVE Informed(job[k])'
  <2> DEFINE x == job[k]
  <2>1. x \in JobRecord /\ Known(x.gen) /\ Informed(x) /\ job'[k] = x
    BY DEF TypeOK, JobsOK, WriteInv
  <2>2. \A y \in JobRecord : Known(y.gen) /\ Informed(y) => Informed(y)'
    BY InformedKept
  <2>3. \A y : Informed(y)' /\ job'[k] = y => Informed(job[k])'
    BY DEF Informed
  <2> HIDE DEF x
  <2> QED
    BY <2>1, <2>2, <2>3
<1> QED
  BY <1>1, <1>2 DEF WriteInv

LEMMA TouchWrites ==
    ASSUME TypeOK, WriteInv, Touch,
           \A u \in Uris : docs'[u].version \in {docs[u].version, generation + 1}
    PROVE  WriteInv'
<1>1. generation \in Nat /\ \A u \in Uris : docs[u].version \in Nat
  BY StampsAreNumbers DEF TypeOK, LoopOK, View
<1>2. \A u \in Uris : docs[u].version <= generation
  BY DEF WriteInv, Stamped, Touch
<1>3. Stamped' /\ AskedBefore'
  <2>1. \A r \in Requests, u \in Uris : job[r].since[u] \in Nat
    BY StampsAreNumbers DEF JobRecord
  <2>2. generation' = generation /\ job' = job /\ loop' = "touched"
    BY DEF Touch
  <2>3. Stamped'
    BY <1>1, <1>2, <2>2 DEF Stamped
  <2>4. AskedBefore'
    BY <1>1, <2>1, <2>2 DEF WriteInv, AskedBefore
  <2> QED
    BY <2>3, <2>4
<1>4. StampsKept
  BY DEF StampsKept, Stamps, Touch
<1> QED
  BY <1>3, <1>4, FrameWrites DEF Touch, cacheVars

LEMMA LoopStepWrites ==
    ASSUME TypeOK, WriteInv,
           \/ ProtocolLoop
           \/ \E u \in External, t \in Texts : DiskChanges(u, t)
    PROVE  WriteInv'
<1>g. generation \in Nat /\ docs \in View /\ job \in [Jobs -> JobRecord] /\ Openable \subseteq Uris
  BY StampsAreNumbers, ConstantsAssumption DEF ConstantsAssumption, TypeOK, LoopOK, JobsOK
<1>1. ASSUME NEW u \in Openable, NEW t \in Texts, DidOpen(u, t) \/ DidChange(u, t)
      PROVE  WriteInv'
  BY <1>1, <1>g, TouchWrites DEF DidOpen, DidChange, View
<1>2. ASSUME NEW u \in Openable, DidClose(u)
      PROVE  WriteInv'
  BY <1>2, <1>g, TouchWrites DEF DidClose, Closed, View
<1>3. CASE DidChangeWatchedFiles
  BY <1>3, TouchWrites DEF DidChangeWatchedFiles
<1>4. CASE Bump
  <2>1. StampsKept
    BY <1>4 DEF Bump, StampsKept, Stamps
  <2>2. Stamped' /\ AskedBefore'
    <3>1. \A u \in Uris : docs[u].version \in Nat
      BY <1>g DEF View
    <3>2. \A r \in Requests, u \in Uris : job[r].since[u] \in Nat
      BY <1>g DEF Jobs, JobRecord
    <3> QED
      BY <1>4, <1>g, <3>1, <3>2 DEF Bump, WriteInv, Stamped, AskedBefore
  <2> QED
    BY <1>4, <2>1, <2>2, FrameWrites DEF Bump, cacheVars
<1>5. CASE Schedule \/ Shutdown \/ \E u \in External, t \in Texts : DiskChanges(u, t)
  <2>1. UNCHANGED <<docs, generation, job, buffers, root>>
        /\ (loop' = loop \/ loop = "bumped")
    BY <1>5 DEF Schedule, Shutdown, DiskChanges, cacheVars
  <2>2. StampsKept
    BY <2>1 DEF StampsKept, Stamps
  <2>3. Stamped' /\ AskedBefore'
    BY <2>1 DEF WriteInv, Stamped, AskedBefore
  <2> QED
    BY <2>1, <2>2, <2>3, FrameWrites
<1>6. ASSUME NEW r \in Requests, Ask(r)
      PROVE  WriteInv'
  <2> DEFINE x == [IdleJob EXCEPT !.pc = "generation", !.since = [u \in Uris |-> docs[u].version]]
  <2>1. /\ job' = [job EXCEPT ![r] = x] /\ r \in Jobs
        /\ UNCHANGED <<docs, generation, buffers, root, loop>> /\ loop = "idle"
    BY <1>6 DEF Ask, Jobs, loopVars, cacheVars
  <2>2. x.pc = "generation" /\ \A u \in Uris : x.since[u] = docs[u].version
    BY DEF IdleJob
  <2> HIDE DEF x
  <2>3. \A k \in Jobs : job'[k] = IF k = r THEN x ELSE job[k]
    BY <2>1, <1>g
  <2>4. \A q \in Requests : job'[q] = IF q = r THEN x ELSE job[q]
    BY <2>3 DEF Jobs
  <2>5. StampsKept
    BY <2>1, <2>2, <2>4 DEF StampsKept, Stamps
  <2>6. \A u \in Uris : docs[u].version <= generation /\ docs[u].version \in Nat
    BY <1>g, <2>1 DEF WriteInv, Stamped, View
  <2>7. Stamped' /\ AskedBefore'
    BY <1>g, <2>1, <2>2, <2>4, <2>6 DEF WriteInv, Stamped, AskedBefore, Labelled
  <2>8. CachesInformed'
    BY <2>1, <2>5, CachesKept DEF WriteInv
  <2>9. ASSUME NEW k \in Jobs PROVE Informed(job[k])'
    <3>1. CASE k = r
      BY <2>2, <2>3, <3>1 DEF Informed, Labelled
    <3>2. CASE k # r
      <4>1. \A y \in JobRecord : Known(y.gen) /\ Informed(y) => Informed(y)'
        BY <2>5, InformedKept
      <4>2. \A y : Informed(y)' /\ job'[k] = y => Informed(job[k])'
        BY DEF Informed
      <4>3. job[k] \in JobRecord /\ Known(job[k].gen) /\ Informed(job[k]) /\ job'[k] = job[k]
        BY <2>3, <3>2, <1>g DEF TypeOK, JobsOK, WriteInv
      <4> DEFINE y == job[k]
      <4>4. y \in JobRecord /\ Known(y.gen) /\ Informed(y) /\ job'[k] = y
        BY <4>3
      <4> HIDE DEF y
      <4> QED
        BY <4>1, <4>2, <4>4
    <3> QED
      BY <3>1, <3>2
  <2> QED
    BY <2>7, <2>8, <2>9 DEF WriteInv
<1> QED
  BY <1>1, <1>2, <1>3, <1>4, <1>5, <1>6 DEF ProtocolLoop

LEMMA JobStepWrites ==
    ASSUME TypeOK, TypeOK', CacheInv, WriteInv, NEW j \in Jobs, JobStep(j)
    PROVE  WriteInv'
<1>g. /\ generation \in Nat /\ generation < Never
      /\ job \in [Jobs -> JobRecord] /\ job[j] \in JobRecord
      /\ job[j].view \in View /\ job[j].seen \in View /\ docs \in View
      /\ disk \in [Uris -> Texts] /\ Openable \subseteq Uris
      /\ Known(job[j].gen) /\ Informed(job[j]) /\ CachesInformed
  BY StampsAreNumbers, ConstantsAssumption
  DEF ConstantsAssumption, TypeOK, LoopOK, JobsOK, JobRecord, WriteInv
<1>k. \A view \in View, u \in Uris, g \in Nat : u \notin Openable => Knows(view, u, g)
  <2>1. ASSUME NEW u \in Uris \ Openable PROVE Stamps(u) \subseteq {0}
    <3>1. docs[u].version = 0
      BY DEF CacheInv, Closed
    <3>2. \A r \in Requests : job[r].since[u] \in Nat /\ job[r].since[u] <= 0
      BY <3>1, StampsAreNumbers DEF WriteInv, AskedBefore, JobRecord
    <3> QED
      BY <3>1, <3>2 DEF Stamps
  <2>2. \A view \in View, u \in Uris : view[u].version >= 0
    BY StampsAreNumbers DEF View
  <2> QED
    BY <2>1, <2>2 DEF Knows
<1>d. \A view, u, g : view[u] = docs[u] /\ u \in Uris => Knows(view, u, g)
  <2>1. ASSUME NEW u \in Uris PROVE \A d \in Stamps(u) : docs[u].version >= d
    <3>1. docs[u].version \in Nat
      BY <1>g DEF View
    <3>2. \A r \in Requests : docs[u].version >= job[r].since[u]
      BY <3>1, StampsAreNumbers DEF WriteInv, AskedBefore, JobRecord
    <3> QED
      BY <3>1, <3>2 DEF Stamps
  <2> QED
    BY <2>1 DEF Knows
<1>c. UNCHANGED <<buffers, root, docs>> /\ StampsKept => CachesInformed'
  BY <1>g, CachesKept
<1>s. \A pc : [job[j] EXCEPT !.pc = pc].since = job[j].since
  BY <1>g DEF JobRecord
<1> USE DEF loopVars, cacheVars
<1>1. CASE ReadGeneration(j)
  <2> DEFINE x == [job[j] EXCEPT !.gen = generation, !.pc = "buffers"]
  <2>1. job' = [job EXCEPT ![j] = x] /\ UNCHANGED <<docs, loop, generation, buffers, root>>
    BY <1>1, <1>g DEF ReadGeneration
  <2>2. Succeeds(j, x) /\ Informed(x)
    BY <1>g DEF Succeeds, Informed, Labelled, JobRecord
  <2> HIDE DEF x
  <2> QED
    BY <2>1, <2>2, <1>c, RecordStamps, RecordWrites
<1>2. CASE TakeBuffers(j)
  <2> DEFINE x == IF BuffersHit(j)
                  THEN [job[j] EXCEPT !.view = buffers.view, !.todo = Openable,
                                      !.pc = AfterSnapshot(j)]
                  ELSE [job[j] EXCEPT !.todo = Openable, !.pc = "copy"]
  <2>1. job' = [job EXCEPT ![j] = x] /\ UNCHANGED <<docs, loop, generation, buffers, root>>
    BY <1>2, <1>g DEF TakeBuffers
  <2>2. job[j].pc = "buffers" /\ job[j].pc \in Labelled /\ job[j].gen # Never
    BY <1>2, <1>g DEF TakeBuffers, Informed, Labelled
  <2>3. AfterSnapshot(j) \in {"root", "stale", "open"}
    BY DEF AfterSnapshot
  <2>4. ASSUME BuffersHit(j) PROVE Succeeds(j, x) /\ Informed(x)
    <3>1. \A u \in Uris : Knows(buffers.view, u, job[j].gen)
      BY <1>g, <2>2, <2>4 DEF CachesInformed, BuffersHit
    <3> QED
      BY <1>g, <2>2, <2>3, <2>4, <3>1 DEF Succeeds, Informed, Labelled, JobRecord
  <2>5. ASSUME ~BuffersHit(j) PROVE Succeeds(j, x) /\ Informed(x)
    <3>1. \A u \in Uris \ Openable : Knows(job[j].view, u, job[j].gen)
      BY <1>g, <1>k, StampsAreNumbers DEF JobRecord
    <3> QED
      BY <1>g, <2>2, <2>5, <3>1 DEF Succeeds, Informed, Labelled, JobRecord
  <2>6. Succeeds(j, x) /\ Informed(x)
    BY <2>4, <2>5
  <2> HIDE DEF x
  <2> QED
    BY <2>1, <2>6, <1>c, RecordStamps, RecordWrites
<1>3. CASE StoreBuffers(j)
  <2> DEFINE x == [job[j] EXCEPT !.todo = Openable, !.pc = AfterSnapshot(j)]
  <2>1. /\ job' = [job EXCEPT ![j] = x] /\ UNCHANGED <<docs, loop, generation, root>>
        /\ buffers' = [gen |-> job[j].gen, view |-> job[j].view]
    BY <1>3, <1>g DEF StoreBuffers, BuffersLabel
  <2>2. /\ job[j].pc = "copy" /\ job[j].pc \in Labelled /\ job[j].gen # Never
        /\ \A u \in Uris : Knows(job[j].view, u, job[j].gen)
    BY <1>3, <1>g DEF StoreBuffers, Informed, Labelled
  <2>3. AfterSnapshot(j) \in {"root", "stale", "open"}
    BY DEF AfterSnapshot
  <2>4. Succeeds(j, x) /\ Informed(x)
    BY <1>g, <2>2, <2>3 DEF Succeeds, Informed, Labelled, JobRecord
  <2> HIDE DEF x
  <2>5. StampsKept
    BY <2>1, <2>4, RecordStamps
  <2>6. CachesInformed'
    <3>1. \A v \in View, u \in Uris, g \in Nat :
              g <= generation /\ Knows(v, u, g) => \A d \in Stamps(u)' : d <= g => v[u].version >= d
      BY <2>5, KnowsKept DEF Knows
    <3>2. job[j].gen \in Nat /\ job[j].gen <= generation
      BY <1>g, <2>2, StampsAreNumbers DEF Known, JobRecord
    <3>3. \A u \in Uris : \A d \in Stamps(u)' : d <= job[j].gen => job[j].view[u].version >= d
      BY <1>g, <2>2, <3>1, <3>2
    <3>4. \A u \in Uris : Knows(buffers.view, u, buffers.gen)'
      BY <2>1, <3>3 DEF Knows
    <3>5. root.gen # Never => \A u \in Uris : Knows(root.seen, u, root.gen)'
      <4>1. /\ root.seen \in View /\ root.gen \in Nat
            /\ root.gen # Never => root.gen <= generation
        BY StampsAreNumbers DEF TypeOK, CachesOK, Known
      <4>2. root.gen # Never => \A u \in Uris :
                \A d \in Stamps(u)' : d <= root.gen => root.seen[u].version >= d
        BY <1>g, <3>1, <4>1 DEF CachesInformed
      <4> QED
        BY <2>1, <4>2 DEF Knows
    <3> QED
      BY <2>1, <3>4, <3>5 DEF CachesInformed
  <2> QED
    BY <2>1, <2>4, <2>6, RecordWrites
<1>4. CASE TakeRoot(j)
  <2> DEFINE x == IF root.gen = job[j].gen
                  THEN [job[j] EXCEPT !.seen = root.seen, !.pc = "analysed"]
                  ELSE [job[j] EXCEPT !.todo = Uris, !.pc = "load"]
  <2>1. job' = [job EXCEPT ![j] = x] /\ UNCHANGED <<docs, loop, generation, buffers, root>>
    BY <1>4, <1>g DEF TakeRoot
  <2>2. /\ job[j].pc = "root" /\ job[j].pc \in Labelled /\ job[j].gen # Never
        /\ \A u \in Uris : Knows(job[j].view, u, job[j].gen)
    BY <1>4, <1>g DEF TakeRoot, Informed, Labelled
  <2>3. Succeeds(j, x) /\ Informed(x)
    BY <1>g, <2>2 DEF Succeeds, Informed, Labelled, JobRecord, CachesInformed
  <2> HIDE DEF x
  <2> QED
    BY <2>1, <2>3, <1>c, RecordStamps, RecordWrites
<1>5. CASE NoRoot(j)
  <2> DEFINE x == [job[j] EXCEPT !.todo = Uris, !.pc = "load"]
  <2>1. job' = [job EXCEPT ![j] = x] /\ UNCHANGED <<docs, loop, generation, buffers, root>>
    BY <1>5, <1>g DEF NoRoot
  <2>2. Succeeds(j, x) /\ Informed(x)
    BY <1>5, <1>g DEF NoRoot, Succeeds, Informed, Labelled, JobRecord
  <2> HIDE DEF x
  <2> QED
    BY <2>1, <2>2, <1>c, RecordStamps, RecordWrites
<1>6. CASE StoreRoot(j)
  <2> DEFINE x == [job[j] EXCEPT !.pc = "analysed"]
  <2>1. /\ job' = [job EXCEPT ![j] = x] /\ UNCHANGED <<docs, loop, generation, buffers>>
        /\ root' = root \/ root' = [gen |-> job[j].gen, seen |-> job[j].seen]
    BY <1>6, <1>g DEF StoreRoot, Goto
  <2>2. /\ job[j].pc = "load" /\ job[j].pc \in Labelled /\ job[j].gen # Never
        /\ \A u \in Uris : Knows(job[j].seen, u, job[j].gen) /\ Knows(job[j].view, u, job[j].gen)
    BY <1>6, <1>g DEF StoreRoot, Informed, Labelled
  <2>3. Succeeds(j, x) /\ Informed(x)
    BY <1>g, <2>2 DEF Succeeds, Informed, Labelled, JobRecord
  <2> HIDE DEF x
  <2>4. StampsKept
    BY <2>1, <2>3, RecordStamps
  <2>5. CASE root' = root
    BY <2>1, <2>3, <2>4, <2>5, <1>c, RecordWrites
  <2>6. CASE root' = [gen |-> job[j].gen, seen |-> job[j].seen]
    <3>1. \A v \in View, u \in Uris, g \in Nat :
              g <= generation /\ Knows(v, u, g) => \A d \in Stamps(u)' : d <= g => v[u].version >= d
      BY <2>4, KnowsKept DEF Knows
    <3>2. job[j].gen \in Nat /\ job[j].gen <= generation
      BY <1>g, <2>2, StampsAreNumbers DEF Known, JobRecord
    <3>3. \A u \in Uris : \A d \in Stamps(u)' : d <= job[j].gen => job[j].seen[u].version >= d
      BY <1>g, <2>2, <3>1, <3>2
    <3>4. \A u \in Uris : Knows(root.seen, u, root.gen)'
      BY <2>6, <3>3 DEF Knows
    <3>5. buffers.gen # Never => \A u \in Uris : Knows(buffers.view, u, buffers.gen)'
      <4>1. /\ buffers.view \in View /\ buffers.gen \in Nat
            /\ buffers.gen # Never => buffers.gen <= generation
        BY StampsAreNumbers DEF TypeOK, CachesOK, Known
      <4>2. buffers.gen # Never => \A u \in Uris :
                \A d \in Stamps(u)' : d <= buffers.gen => buffers.view[u].version >= d
        BY <1>g, <3>1, <4>1 DEF CachesInformed
      <4> QED
        BY <2>1, <4>2 DEF Knows
    <3>6. CachesInformed'
      BY <2>1, <3>4, <3>5 DEF CachesInformed
    <3> QED
      BY <2>1, <2>3, <3>6, RecordWrites
  <2> QED
    BY <2>1, <2>5, <2>6
<1>7. ASSUME NEW u \in Uris, CopyBuffer(j, u)
      PROVE  WriteInv'
  <2> DEFINE x == [job[j] EXCEPT !.view[u] = docs[u], !.todo = @ \ {u}]
  <2>1. job' = [job EXCEPT ![j] = x] /\ UNCHANGED <<docs, loop, generation, buffers, root>>
    BY <1>7, <1>g DEF CopyBuffer
  <2>2. /\ x.pc = "copy" /\ x.gen = job[j].gen /\ x.since = job[j].since
        /\ x.todo = job[j].todo \ {u}
        /\ x.view[u] = docs[u] /\ \A v \in Uris \ {u} : x.view[v] = job[j].view[v]
    BY <1>7, <1>g DEF CopyBuffer, JobRecord, View
  <2>3. \A v \in Uris \ {u} : Knows(job[j].view, v, x.gen) => Knows(x.view, v, x.gen)
    BY <2>2 DEF Knows
  <2>4. Succeeds(j, x) /\ Informed(x)
    BY <1>7, <1>g, <1>d, <2>2, <2>3 DEF CopyBuffer, Succeeds, Informed, Labelled
  <2> HIDE DEF x
  <2> QED
    BY <2>1, <2>4, <1>c, RecordStamps, RecordWrites
<1>8. ASSUME NEW u \in Uris, LoadFile(j, u)
      PROVE  WriteInv'
  <2> DEFINE x == [job[j] EXCEPT !.seen[u] = Overlay(job[j].view, disk)[u], !.todo = @ \ {u}]
  <2>1. job' = [job EXCEPT ![j] = x] /\ UNCHANGED <<docs, loop, generation, buffers, root>>
    BY <1>8, <1>g DEF LoadFile
  <2>2. Overlay(job[j].view, disk)[u].version = job[j].view[u].version
    BY <1>g DEF Overlay, View
  <2>3. /\ x.pc = "load" /\ x.gen = job[j].gen /\ x.since = job[j].since
        /\ x.todo = job[j].todo \ {u} /\ x.view = job[j].view
        /\ x.seen[u].version = job[j].view[u].version
        /\ \A v \in Uris \ {u} : x.seen[v] = job[j].seen[v]
    BY <1>8, <1>g, <2>2 DEF LoadFile, JobRecord, View
  <2>4. /\ \A v \in Uris \ {u} : Knows(job[j].seen, v, x.gen) => Knows(x.seen, v, x.gen)
        /\ Knows(job[j].view, u, x.gen) => Knows(x.seen, u, x.gen)
    BY <2>3 DEF Knows
  <2>5. Succeeds(j, x) /\ Informed(x)
    BY <1>8, <1>g, <2>3, <2>4 DEF LoadFile, Succeeds, Informed, Labelled
  <2> HIDE DEF x
  <2> QED
    BY <2>1, <2>5, <1>c, RecordStamps, RecordWrites
<1> QED
  BY <1>1, <1>2, <1>3, <1>4, <1>5, <1>6, <1>7, <1>8 DEF JobStep

LEMMA PassStepWrites ==
    ASSUME TypeOK, TypeOK', WriteInv, NEW p \in Passes, PassStep(p)
    PROVE  WriteInv'
<1>g. /\ job \in [Jobs -> JobRecord] /\ p \in Jobs /\ job[p] \in JobRecord
      /\ p \notin Requests
      /\ Informed(job[p]) /\ CachesInformed
  BY ConstantsAssumption DEF ConstantsAssumption, TypeOK, JobsOK, Jobs, Passes, WriteInv
<1>f. UNCHANGED <<loopVars, cacheVars>> =>
          UNCHANGED <<docs, loop, generation, buffers, root>>
  BY DEF loopVars, cacheVars
<1>r. ASSUME NEW x, job' = [job EXCEPT ![p] = x], UNCHANGED <<loopVars, cacheVars>>,
             x.pc \in Labelled => job[p].pc \in Labelled /\ x.gen = job[p].gen, Informed(x)
      PROVE  WriteInv'
  <2>1. Succeeds(p, x)
    BY <1>g, <1>r DEF Succeeds
  <2>2. StampsKept
    BY <1>g, <1>f, <1>r, <2>1, RecordStamps
  <2>3. CachesInformed'
    BY <1>g, <1>f, <1>r, <2>2, CachesKept
  <2> QED
    BY <1>g, <1>f, <1>r, <2>1, <2>3, RecordWrites
<1>k. ASSUME UNCHANGED <<loopVars, cacheVars, job>> PROVE WriteInv'
  <2>1. UNCHANGED <<docs, loop, generation, buffers, root, job>>
    BY <1>f, <1>k
  <2>2. StampsKept /\ Stamped' /\ AskedBefore'
    BY <2>1 DEF StampsKept, Stamps, WriteInv, Stamped, AskedBefore
  <2> QED
    BY <2>1, <2>2, FrameWrites
<1>i. IdleJob \in JobRecord
  BY IdleJobType
<1>1. CASE Wake(p)
  <2> DEFINE x == [IdleJob EXCEPT !.want = generation, !.pc = "generation"]
  <2>1. x.pc = "generation"
    BY <1>i DEF JobRecord
  <2> HIDE DEF x
  <2>2. Informed(x)
    BY <2>1 DEF Informed, Labelled
  <2>3. job' = [job EXCEPT ![p] = x] /\ UNCHANGED <<loopVars, cacheVars>>
    BY <1>1 DEF Wake, x
  <2> QED
    BY <1>r, <2>1, <2>2, <2>3 DEF Labelled
<1>2. CASE Recheck(p)
  <2> DEFINE x == [job[p] EXCEPT !.pc = IF generation = job[p].want THEN "collect" ELSE "stale"]
  <2>1. x.pc \in {"collect", "stale"}
    BY <1>g DEF JobRecord
  <2>2. job' = [job EXCEPT ![p] = x] /\ UNCHANGED <<loopVars, cacheVars>>
    BY <1>2, <1>g DEF Recheck, Goto
  <2> HIDE DEF x
  <2> QED
    BY <1>r, <2>1, <2>2 DEF Informed, Labelled
<1>3. CASE Collect(p)
  <2> DEFINE x == [job[p] EXCEPT !.pc = "batch"]
  <2>1. x.pc = "batch"
    BY <1>g DEF JobRecord
  <2>2. job' = [job EXCEPT ![p] = x] /\ UNCHANGED <<loopVars, cacheVars>>
    BY <1>3, <1>g DEF Collect, Goto
  <2> HIDE DEF x
  <2> QED
    BY <1>r, <2>1, <2>2 DEF Informed, Labelled
<1>4. CASE Deliver(p)
  <2> DEFINE x == [IdleJob EXCEPT !.pc = "gone"]
  <2>1. x.pc = "gone"
    BY <1>i DEF JobRecord
  <2>2. job' = [job EXCEPT ![p] = x] /\ UNCHANGED <<loopVars, cacheVars>>
    BY <1>4 DEF Deliver
  <2> HIDE DEF x
  <2> QED
    BY <1>r, <2>1, <2>2 DEF Informed, Labelled
<1>5. CASE Finish(p)
  BY <1>5, <1>k DEF Finish
<1>6. ASSUME NEW u \in Uris, ReadOpen(p, u)
      PROVE  WriteInv'
  <2> DEFINE x == [job[p] EXCEPT !.open[u] = docs[u], !.todo = @ \ {u},
                       !.pc = IF job[p].todo = {u} THEN "root" ELSE @]
  <2>1. /\ job[p].pc = "open" /\ x.pc \in {"open", "root"}
        /\ x.gen = job[p].gen /\ x.view = job[p].view
    BY <1>6, <1>g DEF ReadOpen, JobRecord
  <2>2. job' = [job EXCEPT ![p] = x] /\ UNCHANGED <<loopVars, cacheVars>>
    BY <1>6, <1>g DEF ReadOpen
  <2> HIDE DEF x
  <2>3. Informed(x)
    BY <1>g, <2>1 DEF Informed, Labelled
  <2> QED
    BY <1>r, <2>1, <2>2, <2>3 DEF Labelled
<1>7. ASSUME NEW u \in Uris, Send(p, u)
      PROVE  WriteInv'
  BY <1>7, <1>k DEF Send
<1> QED
  BY <1>1, <1>2, <1>3, <1>4, <1>5, <1>6, <1>7 DEF PassStep

LEMMA AnswerWrites ==
    ASSUME TypeOK, TypeOK', WriteInv, NEW r \in Requests, Answer(r)
    PROVE  WriteInv'
<1>1. /\ job' = [job EXCEPT ![r] = IdleJob] /\ r \in Jobs
      /\ UNCHANGED <<docs, loop, generation, buffers, root>>
  BY DEF Answer, Jobs, loopVars, cacheVars
<1>2. Succeeds(r, IdleJob) /\ Informed(IdleJob)
  BY DEF Succeeds, Informed, IdleJob, Labelled
<1>3. StampsKept
  BY <1>1, <1>2, RecordStamps
<1>4. CachesInformed'
  BY <1>1, <1>3, CachesKept DEF WriteInv
<1> QED
  BY <1>1, <1>2, <1>4, RecordWrites

LEMMA StepWrites == TypeOK /\ TypeOK' /\ CacheInv /\ WriteInv /\ [Next]_vars => WriteInv'
<1>1. ASSUME TypeOK, WriteInv, UNCHANGED vars PROVE WriteInv'
  <2>1. UNCHANGED <<docs, loop, generation, buffers, root, job>>
    BY <1>1 DEF vars
  <2>2. StampsKept /\ Stamped' /\ AskedBefore'
    BY <1>1, <2>1 DEF StampsKept, Stamps, WriteInv, Stamped, AskedBefore
  <2> QED
    BY <1>1, <2>1, <2>2, FrameWrites
<1> QED
  BY <1>1, LoopStepWrites, JobStepWrites, PassStepWrites, AnswerWrites DEF Next

(* Whatever other jobs fill the caches, and however their copies interleave *)
(* with the handlers, an answer is computed from every edit its client had *)
(* made when it asked.                                                     *)
THEOREM RequestsReadTheirWrites == Spec => []ReadsItsWrites
<1>1. Init => CacheInv /\ WriteInv
  BY InitCacheInv, InitWriteInv
<1>2. TypeOK /\ TypeOK' /\ CacheInv /\ WriteInv /\ [Next]_vars => CacheInv' /\ WriteInv'
  BY StepCacheInv, StepWrites
<1>3. TypeOK /\ WriteInv => ReadsItsWrites
  <2> SUFFICES ASSUME TypeOK, WriteInv, NEW r \in Requests, job[r].pc = "analysed",
                      NEW u \in Uris
               PROVE  /\ job[r].view[u].version >= job[r].since[u]
                      /\ job[r].seen[u].version >= job[r].since[u]
    BY DEF ReadsItsWrites
  <2>1. r \in Jobs /\ Informed(job[r])
    BY DEF WriteInv, Jobs
  <2>2. job[r].since[u] \in Stamps(u) /\ job[r].since[u] <= job[r].gen
    BY DEF Stamps, WriteInv, AskedBefore, Labelled
  <2> QED
    BY <2>1, <2>2 DEF Informed, Knows
<1> QED
  BY <1>1, <1>2, <1>3, TypeCorrect, PTL DEF Spec
-----------------------------------------------------------------------------
(* That the client shows what is true once everything has come to rest.    *)
(* The properties of LspServer speak of the state at rest; the invariant   *)
(* follows the pass of the last change from its debounce to its end.       *)

(* The pass of a change exists once the handler has spawned it; by then    *)
(* every older one has ended or was told to.                               *)
Spawned(p) == p <= generation /\ ~(loop = "bumped" /\ p = generation)
Replaced(p) == p < generation /\ ~(loop = "bumped" /\ p = generation - 1)

OneAtATime ==
    \A p \in Passes :
        /\ Spawned(p) <=> task[p] # "none"
        /\ Replaced(p) => task[p] \in {"done", "cut"}

Whole == Overlay(docs, disk)
BatchIsTrue(p) == \A u \in DOMAIN batch[p] : batch[p][u] = Truth[u]

(* What the job of the last pass has read so far is what is there.         *)
Reading == {"generation", "buffers", "copy", "open", "root", "load", "analysed",
            "collect", "batch"}
InStep(r, p) ==
    /\ r.want = p
    /\ r.pc \in Reading
    /\ r.pc # "generation" => r.gen = p
    /\ r.pc \in {"generation", "buffers", "copy"} => r.open = NoView
    /\ r.pc = "open" => \A u \in Uris \ r.todo : r.open[u] = docs[u]
    /\ r.pc \in {"root", "load", "analysed", "collect"} => r.open = docs
    /\ r.pc \in {"analysed", "collect"} => r.seen = Whole
    /\ r.pc = "batch" => Matters \subseteq DOMAIN batch[p] /\ BatchIsTrue(p)

(* The pass of the last change is alone when it sends, and what it has not *)
(* shown yet is in its batch.                                              *)
InHand(p) ==
    /\ task[p] \in {"wait", "publish", "done"} =>
           \A q \in Passes : q < p => task[q] = "done"
    /\ task[p] # "cut"
    /\ task[p] = "wait" => InStep(job[p], p)
    /\ task[p] = "publish" =>
           /\ job[p].pc = "gone"
           /\ BatchIsTrue(p) /\ \A u \in Matters : IsRight(u) \/ u \in DOMAIN batch[p]
    /\ task[p] = "done" => \A u \in Matters : IsRight(u)

(* A change is dealt with from its bump on, unless another is under way or *)
(* the server was shut down.                                               *)
Current == loop = "idle" /\ ~unseen /\ ~down /\ generation > 0
SettledInv == OneAtATime /\ (Current => InHand(generation))

LEMMA InitSettled == Init => SettledInv
  BY ConstantsAssumption
  DEF ConstantsAssumption, Init, SettledInv, OneAtATime, Spawned, Replaced, Current, Passes

-----------------------------------------------------------------------------
(* The order of the passes.                                                *)

LEMMA OrderFrame ==
    ASSUME OneAtATime, UNCHANGED <<task, generation>>,
           loop' = loop \/ (loop = "idle" /\ loop' = "touched")
    PROVE  OneAtATime'
  BY DEF OneAtATime, Spawned, Replaced

(* A step of one pass never starts it anew.                                *)
LEMMA OrderStep ==
    ASSUME OneAtATime, UNCHANGED <<loop, generation>>,
           NEW p \in Passes, task \in [Passes -> {"none", "sleep", "wait", "publish", "done", "cut"}],
           NEW t \in {"wait", "publish", "done", "cut"}, task' = [task EXCEPT ![p] = t],
           task[p] # "none", task[p] \in {"done", "cut"} => t \in {"done", "cut"}
    PROVE  OneAtATime'
  BY DEF OneAtATime, Spawned, Replaced

LEMMA StepOrder == TypeOK /\ OneAtATime /\ [Next]_vars => OneAtATime'
<1> SUFFICES ASSUME TypeOK, OneAtATime, [Next]_vars PROVE OneAtATime'
  OBVIOUS
<1>g. /\ generation \in 0..MaxChanges /\ MaxChanges \in Nat
      /\ task \in [Passes -> {"none", "sleep", "wait", "publish", "done", "cut"}]
      /\ loop \in {"idle", "touched", "bumped"}
  BY ConstantsAssumption DEF ConstantsAssumption, TypeOK, LoopOK, PassesOK
<1>1. CASE Bump
  BY <1>1, <1>g DEF Bump, passVars, OneAtATime, Spawned, Replaced, Passes
<1>2. CASE Schedule
  <2> SUFFICES ASSUME NEW p \in Passes
               PROVE  /\ Spawned(p)' <=> task'[p] # "none"
                      /\ Replaced(p)' => task'[p] \in {"done", "cut"}
    BY DEF OneAtATime
  <2>1. /\ loop = "bumped" /\ loop' = "idle" /\ generation' = generation
        /\ p = generation => task'[p] = "sleep"
        /\ p = generation - 1 => task'[p] = Aborted(task[p])
        /\ p \notin {generation, generation - 1} => task'[p] = task[p]
    BY <1>2, <1>g DEF Schedule, Passes
  <2>2. /\ Spawned(p) <=> task[p] # "none"
        /\ Replaced(p) => task[p] \in {"done", "cut"}
    BY DEF OneAtATime
  <2>3. task[p] \in {"none", "sleep", "wait", "publish", "done", "cut"}
    BY <1>g
  <2>4. CASE p = generation
    BY <2>1, <2>4, <1>g DEF Spawned, Replaced, Passes
  <2>5. CASE p = generation - 1
    BY <2>1, <2>2, <2>3, <2>5, <1>g DEF Spawned, Replaced, Passes, Aborted
  <2>6. CASE p \notin {generation, generation - 1}
    BY <2>1, <2>2, <2>6, <1>g DEF Spawned, Replaced, Passes
  <2> QED
    BY <2>4, <2>5, <2>6
<1>3. CASE Shutdown
  <2> SUFFICES ASSUME NEW p \in Passes
               PROVE  /\ Spawned(p)' <=> task'[p] # "none"
                      /\ Replaced(p)' => task'[p] \in {"done", "cut"}
    BY DEF OneAtATime
  <2>1. task[p] \in {"none", "sleep", "wait", "publish", "done", "cut"}
    BY <1>g
  <2>2. task'[p] \in {task[p], Aborted(task[p])} /\ UNCHANGED <<loop, generation>>
    BY <1>3 DEF Shutdown
  <2> QED
    BY <2>1, <2>2 DEF Aborted, OneAtATime, Spawned, Replaced
<1>4. ASSUME NEW p \in Passes, Wake(p)
      PROVE  OneAtATime'
  BY <1>4, <1>g, OrderStep DEF Wake, loopVars
<1>5. ASSUME NEW p \in Passes, Deliver(p)
      PROVE  OneAtATime'
  <2>1. /\ \/ task[p] = "wait" /\ task' = [task EXCEPT ![p] = "publish"]
           \/ task[p] \in {"wait", "done"} /\ task' = [task EXCEPT ![p] = "done"]
        /\ UNCHANGED <<loop, generation>>
    BY <1>5 DEF Deliver, loopVars
  <2> QED
    BY <2>1, <1>g, OrderStep
<1>6. ASSUME NEW p \in Passes, Finish(p)
      PROVE  OneAtATime'
  BY <1>6, <1>g, OrderStep DEF Finish, loopVars
<1>7. CASE ~(Bump \/ Schedule \/ Shutdown \/ \E p \in Passes : Wake(p) \/ Deliver(p) \/ Finish(p))
  <2>1. UNCHANGED <<task, generation>> /\ (loop' = loop \/ (loop = "idle" /\ loop' = "touched"))
    BY <1>7
    DEF Next, vars, ProtocolLoop, DidOpen, DidChange, DidClose, DidChangeWatchedFiles, Touch,
        Ask, DiskChanges, JobStep, ReadGeneration, TakeBuffers, StoreBuffers, TakeRoot, NoRoot,
        StoreRoot, CopyBuffer, LoadFile, PassStep, Recheck, Collect, ReadOpen, Send, Answer,
        loopVars, passVars
  <2> QED
    BY <2>1, OrderFrame
<1> QED
  BY <1>1, <1>2, <1>3, <1>4, <1>5, <1>6, <1>7

-----------------------------------------------------------------------------
(* The pass of the last change.                                            *)

LEMMA TruthFrame ==
    UNCHANGED <<docs, disk>> => Truth' = Truth /\ Matters' = Matters /\ Whole' = Whole
  BY DEF Truth, Matters, Whole, Found, Errors, Overlay, OpenIn

(* Steps of others leave it in hand.                                       *)
LEMMA HandFrame ==
    ASSUME NEW p \in Passes, InHand(p), UNCHANGED <<docs, disk, shown>>,
           task'[p] = task[p], batch'[p] = batch[p],
           task[p] \in {"wait", "publish"} => job'[p] = job[p],
           \A q \in Passes : q < p /\ task[q] = "done" => task'[q] = "done"
    PROVE  InHand(p)'
<1>1. Truth' = Truth /\ Matters' = Matters /\ Whole' = Whole
  BY TruthFrame
<1>2. BatchIsTrue(p)' <=> BatchIsTrue(p)
  BY <1>1 DEF BatchIsTrue
<1>3. \A u : IsRight(u)' <=> IsRight(u)
  BY <1>1 DEF IsRight
<1>4. task[p] = "wait" => InStep(job[p], p)'
  BY <1>1, <1>2 DEF InStep, InHand
<1> QED
  BY <1>1, <1>2, <1>3, <1>4 DEF InHand

LEMMA NoPassIsARequest == \A p \in Passes : p \notin Requests /\ p \in Jobs
  BY ConstantsAssumption DEF ConstantsAssumption, Passes, Jobs

(* Its own job may go from one true record to another.                     *)
LEMMA HandStep ==
    ASSUME NEW p \in Passes, InHand(p), UNCHANGED <<docs, disk, shown, task, batch>>,
           task[p] = "wait", NEW x, job'[p] = x, InStep(x, p)
    PROVE  InHand(p)'
<1>1. Truth' = Truth /\ Matters' = Matters /\ Whole' = Whole
  BY TruthFrame
<1>2. BatchIsTrue(p)' <=> BatchIsTrue(p)
  BY <1>1 DEF BatchIsTrue
<1>3. \A u : IsRight(u)' <=> IsRight(u)
  BY <1>1 DEF IsRight
<1>4. InStep(job[p], p)'
  BY <1>1, <1>2 DEF InStep
<1> QED
  BY <1>1, <1>2, <1>3, <1>4 DEF InHand

LEMMA JobStepHand ==
    ASSUME TypeOK, CacheInv, Current, InHand(generation), NEW j \in Jobs, JobStep(j)
    PROVE  InHand(generation)'
<1> DEFINE g == generation
<1>g. /\ g \in Passes /\ MaxChanges \in Nat /\ Openable \subseteq Uris
      /\ job \in [Jobs -> JobRecord] /\ job[j] \in JobRecord /\ docs \in View
      /\ buffers.view \in View /\ root.seen \in View /\ g # Never
      /\ Whole \in View
  BY ConstantsAssumption, OverlayType
  DEF ConstantsAssumption, TypeOK, LoopOK, JobsOK, CachesOK, Current, Passes, Whole, Never
<1>f. UNCHANGED <<docs, disk, shown, task, batch, generation>>
  BY DEF JobStep, ReadGeneration, TakeBuffers, StoreBuffers, TakeRoot, NoRoot, StoreRoot,
         CopyBuffer, LoadFile, loopVars, passVars
<1>o. job' = [job EXCEPT ![j] = job'[j]]
  BY <1>g
  DEF JobStep, ReadGeneration, TakeBuffers, StoreBuffers, TakeRoot, NoRoot, StoreRoot,
      CopyBuffer, LoadFile, Goto
<1>1. CASE ~(j = g /\ task[g] = "wait")
  <2>1. task[g] = "publish" => j # g
    BY DEF InHand, JobStep, ReadGeneration, TakeBuffers, StoreBuffers, TakeRoot, NoRoot,
           StoreRoot, CopyBuffer, LoadFile
  <2>2. task[g] \in {"wait", "publish"} => job'[g] = job[g]
    BY <1>1, <1>o, <1>g, <2>1, NoPassIsARequest
  <2> QED
    BY <1>f, <1>g, <2>2, HandFrame
<1>2. CASE j = g /\ task[g] = "wait"
  <2>1. InStep(job[g], g) /\ j \notin Requests
    BY <1>2, <1>g, NoPassIsARequest DEF InHand
  <2>2. Steady /\ loop # "touched"
    BY DEF Current, Steady
  <2>h. ASSUME NEW x, job'[j] = x, InStep(x, g)
        PROVE  InHand(g)'
    BY <1>2, <1>f, <1>g, <2>h, HandStep
  <2> USE DEF InStep, Reading
  <2>3. CASE ReadGeneration(j)
    <3> DEFINE x == [job[j] EXCEPT !.gen = g, !.pc = "buffers"]
    <3>1. job'[j] = x /\ InStep(x, g)
      BY <1>2, <1>g, <2>1, <2>3 DEF ReadGeneration, JobRecord
    <3> QED
      BY <2>h, <3>1
  <2>4. CASE TakeBuffers(j)
    <3> DEFINE x == IF BuffersHit(j)
                    THEN [job[j] EXCEPT !.view = buffers.view, !.todo = Openable, !.pc = "open"]
                    ELSE [job[j] EXCEPT !.todo = Openable, !.pc = "copy"]
    <3>1. AfterSnapshot(j) = "open"
      BY <1>2, <1>g, <2>1, <2>4 DEF TakeBuffers, AfterSnapshot
    <3>2. job'[j] = x
      BY <1>g, <2>4, <3>1 DEF TakeBuffers
    <3>3. \A u \in Uris \ Openable : NoView[u] = docs[u]
      BY DEF CacheInv, NoView
    <3>4. InStep(x, g)
      BY <1>2, <1>g, <2>1, <2>4, <3>3 DEF TakeBuffers, JobRecord
    <3> QED
      BY <2>h, <3>2, <3>4
  <2>5. CASE StoreBuffers(j)
    <3> DEFINE x == [job[j] EXCEPT !.todo = Openable, !.pc = "open"]
    <3>1. AfterSnapshot(j) = "open"
      BY <1>2, <1>g, <2>1, <2>5 DEF StoreBuffers, AfterSnapshot
    <3>2. job'[j] = x
      BY <1>g, <2>5, <3>1 DEF StoreBuffers
    <3>3. \A u \in Uris \ Openable : NoView[u] = docs[u]
      BY DEF CacheInv, NoView
    <3>4. InStep(x, g)
      BY <1>2, <1>g, <2>1, <2>5, <3>3 DEF StoreBuffers, JobRecord
    <3> QED
      BY <2>h, <3>2, <3>4
  <2>6. CASE TakeRoot(j)
    <3> DEFINE x == IF root.gen = job[j].gen
                    THEN [job[j] EXCEPT !.seen = root.seen, !.pc = "analysed"]
                    ELSE [job[j] EXCEPT !.todo = Uris, !.pc = "load"]
    <3>1. job'[j] = x
      BY <1>g, <2>6 DEF TakeRoot
    <3>2. root.gen = g => root.seen = Whole
      BY <2>2 DEF CacheInv, LoadsAreCurrent, Whole
    <3>3. InStep(x, g)
      BY <1>2, <1>g, <2>1, <2>6, <3>2 DEF TakeRoot, JobRecord
    <3> QED
      BY <2>h, <3>1, <3>3
  <2>7. CASE NoRoot(j)
    <3> DEFINE x == [job[j] EXCEPT !.todo = Uris, !.pc = "load"]
    <3>1. job'[j] = x /\ InStep(x, g)
      BY <1>2, <1>g, <2>1, <2>7 DEF NoRoot, JobRecord
    <3> QED
      BY <2>h, <3>1
  <2>8. CASE StoreRoot(j)
    <3> DEFINE x == [job[j] EXCEPT !.pc = "analysed"]
    <3>1. job'[j] = x
      BY <1>g, <2>8 DEF StoreRoot, Goto
    <3>2. job[j].seen = Whole
      <4>1. \A u \in Uris : job[j].seen[u] = Whole[u]
        BY <1>2, <2>1, <2>2, <2>8 DEF StoreRoot, CacheInv, LoadsAreCurrent, Whole
      <4> QED
        BY <1>g, <4>1 DEF JobRecord, View
    <3>3. InStep(x, g)
      BY <1>2, <1>g, <2>1, <2>8, <3>2 DEF StoreRoot, JobRecord
    <3> QED
      BY <2>h, <3>1, <3>3
  <2>9. ASSUME NEW u \in Uris, CopyBuffer(j, u) PROVE InHand(g)'
    <3> DEFINE x == [job[j] EXCEPT !.view[u] = docs[u], !.todo = @ \ {u}]
    <3>1. job'[j] = x /\ InStep(x, g)
      BY <1>2, <1>g, <2>1, <2>9 DEF CopyBuffer, JobRecord
    <3> QED
      BY <2>h, <3>1
  <2>10. ASSUME NEW u \in Uris, LoadFile(j, u) PROVE InHand(g)'
    <3> DEFINE x == [job[j] EXCEPT !.seen[u] = Overlay(job[j].view, disk)[u],
                                   !.todo = @ \ {u}]
    <3>1. job'[j] = x /\ InStep(x, g)
      BY <1>2, <1>g, <2>1, <2>10 DEF LoadFile, JobRecord
    <3> QED
      BY <2>h, <3>1
  <2> QED
    BY <2>3, <2>4, <2>5, <2>6, <2>7, <2>8, <2>9, <2>10, <1>2 DEF JobStep
<1> QED
  BY <1>1, <1>2

(* An older pass that ends, and one that reads or sends, are no threat to  *)
(* the last one.                                                           *)
LEMMA OtherPassHand ==
    ASSUME TypeOK, OneAtATime, Current, InHand(generation),
           NEW p \in Passes, p # generation, PassStep(p)
    PROVE  InHand(generation)'
<1> DEFINE g == generation
<1>g. /\ g \in Passes /\ MaxChanges \in Nat /\ p \in Nat /\ loop = "idle"
      /\ job \in [Jobs -> JobRecord] /\ DOMAIN batch = Passes
      /\ task \in [Passes -> {"none", "sleep", "wait", "publish", "cut", "done"}]
  BY ConstantsAssumption
  DEF ConstantsAssumption, TypeOK, LoopOK, PassesOK, JobsOK, Current, Passes
<1>1. task[p] # "none" => p < g
  BY <1>g DEF OneAtATime, Spawned, Passes
<1>2. task[g] \in {"wait", "publish", "done"} => task[p] \in {"none", "done"}
  BY <1>1 DEF InHand
<1>3. /\ UNCHANGED <<docs, disk, generation>>
      /\ task'[g] = task[g] /\ batch'[g] = batch[g] /\ job'[g] = job[g]
      /\ \A q \in Passes : task[q] = "done" => task'[q] = "done"
  BY <1>g, NoPassIsARequest
  DEF PassStep, Wake, Recheck, Goto, Collect, Deliver, Finish, ReadOpen, Send, loopVars, passVars
<1>4. CASE UNCHANGED shown
  BY <1>g, <1>3, <1>4, HandFrame
<1>5. CASE task[p] \in {"publish", "cut"}
  <2>1. task[g] \notin {"wait", "publish", "done", "cut"}
    BY <1>2, <1>5 DEF InHand
  <2> QED
    BY <1>3, <2>1 DEF InHand
<1> QED
  BY <1>4, <1>5
  DEF PassStep, Wake, Recheck, Collect, Deliver, Finish, ReadOpen, Send, passVars

(* The last pass finds what is true, sends all of it that matters, and     *)
(* only then ends.                                                         *)
LEMMA OwnPassHand ==
    ASSUME TypeOK, OneAtATime, Current, InHand(generation), PassStep(generation)
    PROVE  InHand(generation)'
<1> DEFINE g == generation
<1>g. /\ g \in Passes /\ MaxChanges \in Nat /\ loop = "idle" /\ DOMAIN batch = Passes
      /\ job \in [Jobs -> JobRecord] /\ g \in Jobs /\ job[g] \in JobRecord /\ docs \in View
      /\ task \in [Passes -> {"none", "sleep", "wait", "publish", "cut", "done"}]
      /\ DOMAIN shown = Uris
  BY ConstantsAssumption
  DEF ConstantsAssumption, TypeOK, LoopOK, PassesOK, JobsOK, Current, Passes, Jobs
<1>t. UNCHANGED <<docs, disk, generation>> => Truth' = Truth /\ Matters' = Matters /\ Whole' = Whole
  BY TruthFrame
<1>c. UNCHANGED <<docs, disk, generation>>
  BY DEF PassStep, Wake, Recheck, Collect, Deliver, Finish, ReadOpen, Send, loopVars
<1>n. task[g] # "none" /\ task[g] # "cut"
  BY <1>g DEF OneAtATime, Spawned, InHand, Passes
<1>1. CASE Wake(g)
  <2> DEFINE x == [IdleJob EXCEPT !.want = g, !.pc = "generation"]
  <2>1. /\ job' = [job EXCEPT ![g] = x] /\ UNCHANGED <<batch, shown>>
        /\ task' = [task EXCEPT ![g] = "wait"]
        /\ \A q \in Passes : q < g => task[q] \notin {"publish", "cut"}
    BY <1>1 DEF Wake
  <2>2. x.want = g /\ x.pc = "generation" /\ x.open = NoView
    BY DEF IdleJob
  <2> HIDE DEF x
  <2>3. \A q \in Passes : q < g => task[q] = "done"
    BY <1>g, <2>1 DEF OneAtATime, Replaced
  <2>4. task'[g] = "wait" /\ job'[g] = x /\ \A q \in Passes : q < g => task'[q] = "done"
    BY <1>g, <2>1, <2>3 DEF Passes
  <2>5. InStep(job[g], g)'
    BY <1>c, <2>2, <2>4 DEF InStep, Reading
  <2> QED
    BY <1>c, <2>4, <2>5 DEF InHand
<1>2. CASE Recheck(g)
  <2> DEFINE x == [job[g] EXCEPT !.pc = "collect"]
  <2>1. CASE task[g] = "wait"
    <3>1. InStep(job[g], g)
      BY <2>1 DEF InHand
    <3>2. job'[g] = x /\ InStep(x, g) /\ UNCHANGED <<shown, task, batch>>
      BY <1>2, <1>g, <3>1 DEF Recheck, Goto, InStep, Reading, JobRecord, passVars
    <3> QED
      BY <1>c, <1>g, <2>1, <3>2, HandStep
  <2>2. CASE task[g] # "wait"
    <3>1. task[g] # "publish"
      BY <1>2 DEF Recheck, InHand
    <3> QED
      BY <1>2, <1>c, <1>g, <2>2, <3>1, HandFrame DEF Recheck, passVars
  <2> QED
    BY <2>1, <2>2
<1>3. CASE Collect(g)
  <2> DEFINE found   == Found(job[g].open, job[g].seen)
             errors  == {u \in Uris : found[u].errors # {}}
             targets == Targets(job[g].open, errors)
             x       == [job[g] EXCEPT !.pc = "batch"]
  <2>1. /\ batch'[g] = [u \in targets |-> found[u]] /\ UNCHANGED <<shown, task>>
        /\ job'[g] = x /\ job[g].pc = "collect"
    BY <1>3, <1>g DEF Collect, Goto
  <2>2. CASE task[g] = "wait"
    <3>1. InStep(job[g], g)
      BY <2>2 DEF InHand
    <3>2. found = Truth
      BY <2>1, <3>1 DEF InStep, Truth, Whole
    <3>3. OpenIn(job[g].open) = OpenIn(docs)
      BY <2>1, <3>1 DEF InStep
    <3> HIDE DEF found
    <3>4. Matters \subseteq targets
      BY <3>2, <3>3 DEF Matters, Targets
    <3> HIDE DEF targets
    <3>5. DOMAIN batch'[g] = targets /\ \A u \in targets : batch'[g][u] = Truth[u]
      BY <2>1, <3>2
    <3>6. x.want = g /\ x.gen = g /\ x.pc = "batch"
      BY <1>g, <2>1, <3>1 DEF InStep, JobRecord
    <3> HIDE DEF x
    <3>7. (Matters \subseteq DOMAIN batch[g] /\ BatchIsTrue(g))'
      BY <1>c, <1>t, <3>4, <3>5 DEF BatchIsTrue
    <3>8. InStep(job[g], g)'
      BY <1>c, <2>1, <3>6, <3>7 DEF InStep, Reading
    <3> QED
      BY <1>c, <2>1, <2>2, <3>8 DEF InHand
  <2>3. CASE task[g] # "wait"
    <3>1. task[g] # "publish"
      BY <2>1 DEF InHand
    <3>2. \A u : IsRight(u)' <=> IsRight(u)
      BY <1>c, <1>t, <2>1 DEF IsRight
    <3> QED
      BY <1>c, <1>t, <2>1, <2>3, <3>1, <3>2 DEF InHand
  <2> QED
    BY <2>2, <2>3
<1>4. CASE Deliver(g)
  <2>1. UNCHANGED shown /\ job'[g] = [IdleJob EXCEPT !.pc = "gone"]
    BY <1>4, <1>g DEF Deliver
  <2>2. job'[g].pc = "gone"
    BY <2>1 DEF IdleJob
  <2>3. \A u : IsRight(u)' <=> IsRight(u)
    BY <1>c, <1>t, <2>1 DEF IsRight
  <2>4. CASE task[g] = "wait"
    <3>1. InStep(job[g], g)
      BY <2>4 DEF InHand
    <3>2. job[g].pc = "batch" /\ generation = job[g].want
      BY <1>4, <3>1 DEF Deliver, InStep, Reading
    <3>3. task' = [task EXCEPT ![g] = "publish"] /\ UNCHANGED batch
      BY <1>4, <2>4, <3>2 DEF Deliver
    <3>4. task'[g] = "publish" /\ \A q \in Passes : q < g => task'[q] = "done"
      BY <1>g, <2>4, <3>3 DEF InHand, Passes
    <3>5. BatchIsTrue(g)' /\ (Matters \subseteq DOMAIN batch[g])'
      BY <1>c, <1>t, <3>1, <3>2, <3>3 DEF InStep, BatchIsTrue
    <3> QED
      BY <1>c, <2>2, <3>4, <3>5 DEF InHand
  <2>5. CASE task[g] = "done"
    <3>1. task' = [task EXCEPT ![g] = "done"]
      BY <1>4, <2>5 DEF Deliver
    <3>2. task' = task
      BY <1>g, <2>5, <3>1
    <3> QED
      BY <1>c, <1>t, <2>3, <2>5, <3>2 DEF InHand
  <2> QED
    BY <1>4, <2>4, <2>5 DEF Deliver
<1>5. CASE Finish(g)
  <2>1. /\ task[g] = "publish" /\ DOMAIN batch[g] = {} /\ UNCHANGED shown
        /\ task' = [task EXCEPT ![g] = "done"]
    BY <1>5, <1>n DEF Finish
  <2>2. \A u \in Matters : IsRight(u)
    BY <2>1 DEF InHand
  <2>3. task'[g] = "done" /\ \A q \in Passes : q < g => task'[q] = "done"
    BY <1>g, <2>1 DEF InHand, Passes
  <2>4. \A u : IsRight(u)' <=> IsRight(u)
    BY <1>c, <1>t, <2>1 DEF IsRight
  <2> QED
    BY <1>c, <1>t, <2>2, <2>3, <2>4 DEF InHand
<1>6. ASSUME NEW u \in Uris, ReadOpen(g, u) PROVE InHand(g)'
  <2> DEFINE x == [job[g] EXCEPT !.open[u] = docs[u], !.todo = @ \ {u},
                       !.pc = IF job[g].todo = {u} THEN "root" ELSE @]
  <2>1. CASE task[g] = "wait"
    <3>1. InStep(job[g], g) /\ job[g].pc = "open"
      BY <1>6, <2>1 DEF InHand, ReadOpen
    <3>2. job'[g] = x /\ UNCHANGED <<shown, task, batch>>
      BY <1>6, <1>g DEF ReadOpen, passVars
    <3>3. /\ x.want = job[g].want /\ x.gen = job[g].gen /\ x.todo = job[g].todo \ {u}
          /\ x.open = [job[g].open EXCEPT ![u] = docs[u]]
          /\ x.pc = IF job[g].todo = {u} THEN "root" ELSE "open"
      BY <1>g, <3>1 DEF JobRecord
    <3> HIDE DEF x
    <3>4. \A v \in Uris \ x.todo : x.open[v] = docs[v]
      BY <1>g, <3>1, <3>3 DEF InStep, JobRecord, View
    <3>5. x.pc = "root" => x.open = docs
      <4>1. x.pc = "root" => \A v \in Uris : x.open[v] = docs[v]
        BY <3>3, <3>4
      <4>2. x.open \in View
        BY <1>g, <3>3 DEF JobRecord, View
      <4> QED
        BY <1>g, <4>1, <4>2 DEF View
    <3>6. InStep(x, g)
      BY <3>1, <3>3, <3>4, <3>5 DEF InStep, Reading
    <3> QED
      BY <1>c, <1>g, <2>1, <3>2, <3>6, HandStep
  <2>2. CASE task[g] # "wait"
    <3>1. task[g] # "publish"
      BY <1>6 DEF ReadOpen, InHand
    <3> QED
      BY <1>6, <1>c, <1>g, <2>2, <3>1, HandFrame DEF ReadOpen, passVars
  <2> QED
    BY <2>1, <2>2
<1>7. ASSUME NEW u \in Uris, Send(g, u) PROVE InHand(g)'
  <2>1. /\ task[g] = "publish" /\ u \in DOMAIN batch[g] /\ UNCHANGED <<task, job>>
        /\ shown' = [shown EXCEPT ![u] = batch[g][u]]
        /\ batch' = [batch EXCEPT ![g] = [v \in DOMAIN batch[g] \ {u} |-> batch[g][v]]]
    BY <1>7, <1>n DEF Send
  <2>2. /\ job[g].pc = "gone" /\ BatchIsTrue(g)
        /\ \A v \in Matters : IsRight(v) \/ v \in DOMAIN batch[g]
        /\ \A q \in Passes : q < g => task[q] = "done"
    BY <2>1 DEF InHand
  <2>3. DOMAIN batch'[g] = DOMAIN batch[g] \ {u}
        /\ \A v \in DOMAIN batch'[g] : batch'[g][v] = batch[g][v]
    BY <1>g, <2>1
  <2>4. BatchIsTrue(g)'
    BY <1>c, <1>t, <2>2, <2>3 DEF BatchIsTrue
  <2>5. IsRight(u)' /\ \A v \in Uris : IsRight(v) => IsRight(v)'
    BY <1>7, <1>g, <1>c, <1>t, <2>1, <2>2 DEF BatchIsTrue, IsRight
  <2>6. \A v \in Matters' : IsRight(v)' \/ v \in DOMAIN batch'[g]
    BY <1>c, <1>t, <2>2, <2>3, <2>5 DEF Matters
  <2> QED
    BY <1>c, <2>1, <2>2, <2>4, <2>6 DEF InHand
<1> QED
  BY <1>1, <1>2, <1>3, <1>4, <1>5, <1>6, <1>7 DEF PassStep

LEMMA StepSettled ==
    TypeOK /\ CacheInv /\ SettledInv /\ [Next]_vars => SettledInv'
<1> SUFFICES ASSUME TypeOK, CacheInv, SettledInv, [Next]_vars PROVE SettledInv'
  OBVIOUS
<1>1. OneAtATime'
  BY StepOrder DEF SettledInv
<1>2. ASSUME Current' PROVE InHand(generation)'
  <2>g. /\ generation \in 0..MaxChanges /\ MaxChanges \in Nat
        /\ job \in [Jobs -> JobRecord]
        /\ generation' = generation => generation \in Passes
    BY <1>2, ConstantsAssumption
    DEF ConstantsAssumption, TypeOK, LoopOK, JobsOK, Current, Passes
  <2>1. CASE Schedule
    <3>1. task'[generation'] = "sleep"
      BY <2>1, <2>g DEF Schedule
    <3> QED
      BY <3>1 DEF InHand
  <2>2. ASSUME NEW r \in Requests, Ask(r) \/ Answer(r)
        PROVE  InHand(generation)'
    <3>1. /\ UNCHANGED <<docs, disk, shown, task, batch, generation, loop, unseen, down>>
          /\ \A p \in Passes : job'[p] = job[p]
      BY <2>2, <2>g, NoPassIsARequest DEF Ask, Answer, loopVars, passVars
    <3> QED
      BY <1>2, <2>g, <3>1, HandFrame DEF SettledInv, Current
  <2>3. ASSUME NEW j \in Jobs, JobStep(j)
        PROVE  InHand(generation)'
    <3>1. UNCHANGED <<loop, unseen, down, generation>>
      BY <2>3
      DEF JobStep, ReadGeneration, TakeBuffers, StoreBuffers, TakeRoot, NoRoot, StoreRoot,
          CopyBuffer, LoadFile, loopVars
    <3> QED
      BY <1>2, <2>3, <3>1, JobStepHand DEF SettledInv, Current
  <2>4. ASSUME NEW p \in Passes, PassStep(p)
        PROVE  InHand(generation)'
    <3>1. UNCHANGED <<loop, unseen, down, generation>>
      BY <2>4
      DEF PassStep, Wake, Recheck, Collect, Deliver, Finish, ReadOpen, Send, loopVars
    <3> QED
      BY <1>2, <2>4, <3>1, OtherPassHand, OwnPassHand DEF SettledInv, Current
  <2>5. CASE UNCHANGED vars
    <3>1. UNCHANGED <<docs, disk, shown, task, batch, generation, loop, unseen, down, job>>
      BY <2>5 DEF vars
    <3> QED
      BY <1>2, <2>g, <3>1, HandFrame DEF SettledInv, Current
  <2> QED
    BY <1>2, <2>1, <2>2, <2>3, <2>4, <2>5
    DEF Next, ProtocolLoop, DidOpen, DidChange, DidClose, DidChangeWatchedFiles, Touch, Bump,
        Shutdown, DiskChanges, Current
<1> QED
  BY <1>1, <1>2 DEF SettledInv

(* Whatever passes were overtaken or cut short, whatever requests filled   *)
(* the caches and whichever files other programs wrote: once nothing moves *)
(* any more, the client shows the errors of what is there, for every open  *)
(* file and every file that has any.                                       *)
THEOREM SettlesCurrent == Spec => []SettledIsCurrent
<1>1. Init => TypeOK /\ CacheInv /\ SettledInv
  BY InitTypeOK, InitCacheInv, InitSettled
<1>2. TypeOK /\ CacheInv /\ SettledInv /\ [Next]_vars => TypeOK' /\ CacheInv' /\ SettledInv'
  BY StepTypeOK, StepCacheInv, StepSettled
<1>3. TypeOK /\ SettledInv => SettledIsCurrent
  <2> SUFFICES ASSUME TypeOK, SettledInv, AtRest, ~down, generation > 0
               PROVE  \A u \in Matters : IsRight(u)
    BY DEF SettledIsCurrent
  <2>1. generation \in Passes /\ Current
    BY ConstantsAssumption
    DEF ConstantsAssumption, AtRest, TypeOK, LoopOK, Current, Passes
  <2>2. task[generation] = "done"
    BY <2>1 DEF AtRest, SettledInv, OneAtATime, Spawned, Passes, Current
  <2> QED
    BY <2>1, <2>2 DEF SettledInv, InHand
<1> QED
  BY <1>1, <1>2, <1>3, PTL DEF Spec
=============================================================================
