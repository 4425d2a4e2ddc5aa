-------------------------- MODULE SiteBuildProofs --------------------------
(***************************************************************************)
(* Proofs about builds.  Of SiteBuild, for any set of pages, any texts and *)
(* any number of edits, failing builds and restarts: the shape of the      *)
(* state and the manifest, and then what the pages of a site at rest owe   *)
(* to the texts they were built from.  Of Sites, for any documents, sites  *)
(* and layouts: every link of a build leads to what it names.              *)
(***************************************************************************)
EXTENDS SiteBuild, Sites, FiniteSetTheorems, SequenceTheorems, NaturalsInduction,
        WellFoundedInduction, TLAPS

\* TypeOK in three parts, one for each group of variables.
WorldOK ==
    /\ source \in [Files -> Texts]
    /\ \A f \in Files : source[f] \in Drafts[f]
    /\ noted \subseteq Files /\ pending \subseteq Files
    /\ watching \in BOOLEAN
    /\ edits \in 0 .. MaxEdits /\ stops \in 0 .. MaxStops

BuildOK ==
    /\ full \in BOOLEAN
    /\ phase \in {"down", "idle", "reading", "writing"}
    /\ changed \subseteq Files
    /\ read \in [Files -> Texts \cup {Nothing}]
    /\ phase = "writing" => Unread = {}
    /\ phase \in {"down", "idle"} => read = [f \in Files |-> Nothing]
    /\ todo \subseteq Pages

DiskOK ==
    /\ out \in [Pages -> Rendered] /\ index \in Rendered
    /\ manifest \in [Pages -> {t.title : t \in Texts}] \cup {Nothing}

HistoryOK ==
    /\ error \in BOOLEAN
    /\ unseen \subseteq Files /\ covered \subseteq Files

LEMMA TypeParts == TypeOK <=> WorldOK /\ BuildOK /\ DiskOK /\ HistoryOK
  BY DEF TypeOK, WorldOK, BuildOK, DiskOK, HistoryOK

LEMMA NextTypeParts == WorldOK' /\ BuildOK' /\ DiskOK' /\ HistoryOK' => TypeOK'
  BY DEF TypeOK, WorldOK, BuildOK, DiskOK, HistoryOK

-----------------------------------------------------------------------------
(* What a step leaves alone keeps its part of the shape.                   *)
LEMMA WorldFrame == WorldOK /\ UNCHANGED world => WorldOK'
  BY DEF WorldOK, world

LEMMA BuildFrame == BuildOK /\ UNCHANGED build => BuildOK'
  BY DEF BuildOK, build, Unread

LEMMA DiskFrame == DiskOK /\ UNCHANGED disk => DiskOK'
  BY DEF DiskOK, disk

LEMMA HistoryFrame == HistoryOK /\ UNCHANGED <<error, history>> => HistoryOK'
  BY DEF HistoryOK, history

(* A build that has read everything holds a text of every file.            *)
LEMMA AllRead ==
    ASSUME BuildOK, Unread = {}, NEW f \in Files
    PROVE  read[f] \in Texts
  BY DEF BuildOK, Unread

LEMMA RenderType ==
    ASSUME BuildOK, Unread = {}, NEW p \in Pages
    PROVE  Render(p, read) \in Rendered /\ Render(p, read) # Nothing
<1>1. p \in Files
  BY DEF Files
<1>2. \A f \in Files : read[f] \in Texts
  BY AllRead
<1>3. [f \in Files |-> Seen(read[f])] \in [Files -> {Seen(t) : t \in Texts}]
  BY <1>2
<1>4. read[p] \in Texts
  BY <1>1, <1>2
<1> QED
  BY <1>3, <1>4, NothingAssumption DEF Render, Rendered, Renderings

LEMMA NavType ==
    ASSUME BuildOK, Unread = {}
    PROVE  Nav(read) \in [Pages -> {t.title : t \in Texts}]
<1>1. \A p \in Pages : read[p] \in Texts
  BY AllRead DEF Files
<1> QED
  BY <1>1 DEF Nav

(* What a build ends with, or goes on with, has its shape.                 *)
LEMMA EndsOK ==
    ASSUME BuildOK, BuildEnds
    PROVE  BuildOK' /\ phase' = "idle"
  BY DEF BuildOK, BuildEnds

LEMMA FailsOK ==
    ASSUME BuildOK, HistoryOK, Fails
    PROVE  BuildOK' /\ HistoryOK' /\ phase' = "idle"
<1>1. BuildOK' /\ phase' = "idle"
  BY EndsOK DEF Fails
<1> QED
  BY <1>1 DEF HistoryOK, Fails, BuildEnds

LEMMA SucceedsOK ==
    ASSUME BuildOK, HistoryOK, Succeeds
    PROVE  BuildOK' /\ HistoryOK' /\ phase' = "idle"
<1>1. BuildOK' /\ phase' = "idle"
  BY EndsOK DEF Succeeds
<1> QED
  BY <1>1 DEF HistoryOK, Succeeds, BuildEnds, ErrorAfterOk

LEMMA StartFullOK ==
    ASSUME WorldOK, BuildOK, DiskOK, HistoryOK, Unread = {}, StartFull
    PROVE  WorldOK' /\ BuildOK' /\ DiskOK' /\ HistoryOK'
<1>1. WorldOK'
  BY WorldFrame DEF StartFull
<1>2. BuildOK'
  BY DEF BuildOK, StartFull, Unread, Present
<1>3. DiskOK'
  BY DEF DiskOK, StartFull, DropManifest
<1>4. HistoryOK'
  BY DEF HistoryOK, StartFull
<1> QED
  BY <1>1, <1>2, <1>3, <1>4

-----------------------------------------------------------------------------
LEMMA InitTypeOK == Init => TypeOK
<1> SUFFICES ASSUME Init PROVE TypeOK
  OBVIOUS
<1>1. \A f \in Files : First[f] \in Drafts[f]
  BY DraftsAssumption
<1>2. source \in [Files -> Texts]
  BY DraftsAssumption DEF Init
<1>3. WorldOK
  <2>1. edits \in 0 .. MaxEdits /\ stops \in 0 .. MaxStops
    BY BoundsAssumption DEF Init
  <2> QED
    BY <1>1, <1>2, <2>1 DEF Init, WorldOK
<1>4. BuildOK
  BY DEF Init, BuildOK
<1>5. DiskOK
  BY DEF Init, DiskOK, Rendered
<1>6. HistoryOK
  BY DEF Init, HistoryOK
<1> QED
  BY <1>3, <1>4, <1>5, <1>6, TypeParts
(* The author, the watcher and the server do not write the site.           *)
LEMMA AuthorTypeOK ==
    ASSUME TypeOK, NEW f \in Files, NEW text \in Drafts[f], Save(f, text)
    PROVE  TypeOK'
<1>1. WorldOK /\ BuildOK /\ DiskOK /\ HistoryOK
  BY TypeParts
<1>2. text \in Texts
  BY DEF Texts
<1>3. source' \in [Files -> Texts] /\ \A g \in Files : source'[g] \in Drafts[g]
  BY <1>1, <1>2 DEF WorldOK, Save
<1>4. edits' \in 0 .. MaxEdits
  BY <1>1, BoundsAssumption DEF WorldOK, Save
<1>5. WorldOK'
  BY <1>1, <1>3, <1>4 DEF WorldOK, Save
<1>6. BuildOK' /\ DiskOK'
  BY <1>1, BuildFrame, DiskFrame DEF Save
<1>7. HistoryOK'
  BY <1>1 DEF HistoryOK, Save
<1> QED
  BY <1>5, <1>6, <1>7, NextTypeParts

LEMMA WatcherTypeOK ==
    ASSUME TypeOK, (\E files \in SUBSET noted : Note(files)) \/ Watch
    PROVE  TypeOK'
<1>1. WorldOK /\ BuildOK /\ DiskOK /\ HistoryOK
  BY TypeParts
<1>2. WorldOK'
  BY <1>1 DEF WorldOK, Note, Watch
<1>3. BuildOK' /\ DiskOK' /\ HistoryOK'
  BY <1>1, BuildFrame, DiskFrame, HistoryFrame DEF Note, Watch
<1> QED
  BY <1>2, <1>3, NextTypeParts

LEMMA ServerTypeOK ==
    ASSUME TypeOK, Serve \/ Rebuild \/ Stop
    PROVE  TypeOK'
<1>1. WorldOK /\ BuildOK /\ DiskOK /\ HistoryOK
  BY TypeParts
<1>2. CASE Serve
  <2>1. WorldOK' /\ DiskOK'
    BY <1>1, <1>2, WorldFrame, DiskFrame DEF Serve
  <2>2. BuildOK'
    BY <1>1, <1>2 DEF BuildOK, Serve
  <2>3. HistoryOK'
    BY <1>1, <1>2 DEF HistoryOK, Serve, history
  <2> QED
    BY <2>1, <2>2, <2>3, NextTypeParts
<1>3. CASE Rebuild
  <2>1. WorldOK' /\ DiskOK'
    BY <1>1, <1>3, DiskFrame DEF WorldOK, Rebuild
  <2>2. BuildOK'
    BY <1>1, <1>3 DEF WorldOK, BuildOK, Rebuild
  <2>3. HistoryOK'
    BY <1>1, <1>3 DEF WorldOK, HistoryOK, Rebuild
  <2> QED
    BY <2>1, <2>2, <2>3, NextTypeParts
<1>4. CASE Stop
  <2>1. stops' \in 0 .. MaxStops
    BY <1>1, <1>4, BoundsAssumption DEF WorldOK, Stop
  <2>2. WorldOK' /\ DiskOK'
    BY <1>1, <1>4, <2>1, DiskFrame DEF WorldOK, Stop
  <2>3. BuildOK'
    BY <1>1, <1>4 DEF BuildOK, Stop
  <2>4. HistoryOK'
    BY <1>1, <1>4 DEF HistoryOK, Stop
  <2> QED
    BY <2>2, <2>3, <2>4, NextTypeParts
<1> QED
  BY <1>2, <1>3, <1>4

LEMMA ReadingTypeOK ==
    ASSUME TypeOK, (\E f \in Files : ReadFile(f)) \/ OpenFails \/ Target \/ RenderAll
    PROVE  TypeOK'
<1>1. WorldOK /\ BuildOK /\ DiskOK /\ HistoryOK
  BY TypeParts
<1>2. CASE \E f \in Files : ReadFile(f)
  <2>1. PICK f \in Files : ReadFile(f)
    BY <1>2
  <2>2. WorldOK' /\ DiskOK'
    BY <1>1, <2>1, WorldFrame, DiskFrame DEF ReadFile
  <2>3. BuildOK'
    BY <1>1, <2>1 DEF WorldOK, BuildOK, ReadFile
  <2>4. HistoryOK'
    BY <1>1, <2>1 DEF HistoryOK, ReadFile
  <2> QED
    BY <2>2, <2>3, <2>4, NextTypeParts
<1>3. CASE OpenFails
  BY <1>1, <1>3, FailsOK, WorldFrame, DiskFrame, NextTypeParts DEF OpenFails
<1>4. CASE Target
  <2>1. WorldOK' /\ DiskOK' /\ HistoryOK'
    BY <1>1, <1>4, WorldFrame, DiskFrame, HistoryFrame DEF Target
  <2>2. AffectedPages \subseteq Pages
    BY DEF AffectedPages, Present
  <2>3. BuildOK'
    BY <1>1, <1>4, <2>2 DEF BuildOK, Target, Unread
  <2> QED
    BY <2>1, <2>3, NextTypeParts
<1>5. CASE RenderAll
  BY <1>1, <1>5, StartFullOK, NextTypeParts DEF RenderAll
<1> QED
  BY <1>2, <1>3, <1>4, <1>5

LEMMA WritingTypeOK ==
    ASSUME TypeOK,
           TocFails \/ (\E p \in Pages : WritePage(p) \/ PageFails(p)) \/ LinkFails \/ NeedFull
    PROVE  TypeOK'
<1>1. WorldOK /\ BuildOK /\ DiskOK /\ HistoryOK
  BY TypeParts
<1>2. CASE TocFails \/ \E p \in Pages : PageFails(p)
  BY <1>1, <1>2, FailsOK, WorldFrame, DiskFrame, NextTypeParts DEF TocFails, PageFails
<1>3. CASE \E p \in Pages : WritePage(p)
  <2>1. PICK p \in Pages : WritePage(p)
    BY <1>3
  <2>2. WorldOK' /\ HistoryOK'
    BY <1>1, <2>1, WorldFrame, HistoryFrame DEF WritePage
  <2>3. BuildOK'
    BY <1>1, <2>1 DEF BuildOK, WritePage, Unread
  <2>4. Render(p, read) \in Rendered
    BY <1>1, <2>1, RenderType DEF WritePage, BuildOK
  <2>5. DiskOK'
    BY <1>1, <2>1, <2>4 DEF DiskOK, WritePage
  <2> QED
    BY <2>2, <2>3, <2>5, NextTypeParts
<1>4. CASE LinkFails
  <2>1. BuildOK' /\ HistoryOK'
    BY <1>1, <1>4, FailsOK DEF LinkFails
  <2>2. WorldOK' /\ DiskOK'
    BY <1>1, <1>4, WorldFrame DEF DiskOK, LinkFails
  <2> QED
    BY <2>1, <2>2, NextTypeParts
<1>5. CASE NeedFull
  <2>1. CASE Caught
    BY <1>1, <1>5, <2>1, FailsOK, WorldFrame, DiskFrame, NextTypeParts DEF NeedFull
  <2>2. CASE ~Caught
    BY <1>1, <1>5, <2>2, StartFullOK, NextTypeParts DEF NeedFull, PagesOut, BuildOK
  <2> QED
    BY <2>1, <2>2
<1> QED
  BY <1>2, <1>3, <1>4, <1>5

LEMMA FinishTypeOK ==
    ASSUME TypeOK, FinishSite
    PROVE  TypeOK'
<1>1. WorldOK /\ BuildOK /\ DiskOK /\ HistoryOK
  BY TypeParts
<1>2. Unread = {}
  BY <1>1 DEF FinishSite, PagesOut, BuildOK
<1>3. Fails \/ Succeeds
  BY DEF FinishSite
<1>4. BuildOK' /\ HistoryOK'
  BY <1>1, <1>3, FailsOK, SucceedsOK
<1>5. WorldOK'
  BY <1>1, WorldFrame DEF FinishSite
<1>6. manifest' \in [Pages -> {t.title : t \in Texts}] \cup {Nothing}
  BY <1>1, <1>2, NavType DEF FinishSite, DiskOK
<1>7. index' \in Rendered
  <2>1. index' = index \/ (Landing # {} /\ index' = out[CHOOSE p \in Landing : TRUE])
    BY DEF FinishSite
  <2>2. Landing \subseteq Pages
    BY DEF Landing, Starts, Present
  <2>3. Landing # {} => (CHOOSE p \in Landing : TRUE) \in Pages
    BY <2>2
  <2> QED
    BY <1>1, <2>1, <2>3 DEF DiskOK
<1>8. DiskOK'
  BY <1>1, <1>6, <1>7 DEF DiskOK, FinishSite
<1> QED
  BY <1>4, <1>5, <1>8, NextTypeParts

(* Every reachable state has the shape TypeOK gives it; above all, a build *)
(* writes only once it has read every file, and keeps what it read until   *)
(* it ends.                                                                *)
THEOREM TypeCorrect == Spec => []TypeOK
<1>1. TypeOK /\ [Next]_vars => TypeOK'
  <2> SUFFICES ASSUME TypeOK, [Next]_vars PROVE TypeOK'
    OBVIOUS
  <2>1. CASE UNCHANGED vars
    <3>1. WorldOK /\ BuildOK /\ DiskOK /\ HistoryOK
      BY TypeParts
    <3> QED
      BY <2>1, <3>1, WorldFrame, BuildFrame, DiskFrame, HistoryFrame, NextTypeParts DEF vars
  <2>2. CASE Next
    BY <2>2, AuthorTypeOK, WatcherTypeOK, ServerTypeOK, ReadingTypeOK,
       WritingTypeOK, FinishTypeOK DEF Next, BuildStep
  <2> QED
    BY <2>1, <2>2
<1> QED
  BY <1>1, InitTypeOK, PTL DEF Spec

-----------------------------------------------------------------------------
(* The manifest is true because the build that rewrites other pages drops  *)
(* it first, and the one that keeps it writes pages that agree with it.    *)
ManifestInv ==
    /\ ManifestIsTrue
    /\ phase = "writing" /\ full =>
           /\ manifest = Nothing
           /\ \A p \in Present(read) \ todo : out[p] = Render(p, read)
    /\ phase = "writing" /\ ~full => manifest = Nav(read)

(* A page written from what the build read shows its navigation.           *)
LEMMA RenderShowsNav ==
    ASSUME NEW p \in Pages
    PROVE  \A q \in Pages : Render(p, read).seen[q].title = Nav(read)[q]
  BY DEF Render, Nav, Seen, Files

LEMMA StartFullManifest ==
    ASSUME StartFull
    PROVE  ManifestInv'
  BY DEF StartFull, DropManifest, ManifestInv, ManifestIsTrue
(* A step that touches neither the disk nor what a build that writes goes  *)
(* by, or that ends the build, keeps the manifest true.                    *)
LEMMA ManifestFrame ==
    ASSUME ManifestInv, UNCHANGED <<out, manifest>>,
           phase' = "writing" => UNCHANGED build
    PROVE  ManifestInv'
  BY DEF ManifestInv, ManifestIsTrue, Render, Nav, Present, build

LEMMA WritePageManifest ==
    ASSUME TypeOK, ManifestInv, NEW p \in Pages, WritePage(p)
    PROVE  ManifestInv'
<1>1. /\ BuildOK /\ DiskOK /\ Unread = {} /\ phase = "writing"
      /\ out' = [out EXCEPT ![p] = Render(p, read)]
      /\ todo' = todo \ {p}
      /\ UNCHANGED <<phase, full, read, manifest>>
  BY TypeParts DEF BuildOK, WritePage
<1>2. \A q \in Pages : out'[q] = IF q = p THEN Render(p, read) ELSE out[q]
  BY <1>1 DEF DiskOK
<1>3. Render(p, read) # Nothing
  BY <1>1, RenderType
<1>4. CASE full
  <2>1. manifest' = Nothing
    BY <1>1, <1>4 DEF ManifestInv
  <2>2. ASSUME NEW q \in Present(read) \ (todo \ {p}) PROVE out'[q] = Render(q, read)
    BY <1>1, <1>2, <1>4 DEF ManifestInv, Present
  <2>3. \A q : Render(q, read)' = Render(q, read)
    BY <1>1 DEF Render
  <2>4. Present(read)' = Present(read)
    BY <1>1 DEF Present
  <2>5. \A q \in Present(read)' \ todo' : out'[q] = Render(q, read)'
    BY <1>1, <2>2, <2>3, <2>4
  <2> QED
    BY <1>1, <1>4, <2>1, <2>5 DEF ManifestInv, ManifestIsTrue
<1>5. CASE ~full
  <2>1. manifest = Nav(read)
    BY <1>1, <1>5 DEF ManifestInv
  <2>2. Nav(read)' = Nav(read)
    BY <1>1 DEF Nav
  <2>3. \A q \in Pages : Render(p, read).seen[q].title = manifest[q]
    BY <2>1, RenderShowsNav
  <2>4. ManifestIsTrue'
    <3> SUFFICES ASSUME manifest # Nothing, NEW x \in Pages, manifest[x] # NoPage
                 PROVE  /\ out'[x] # Nothing
                        /\ \A q \in Pages : out'[x].seen[q].title = manifest[q]
      BY <1>1 DEF ManifestIsTrue
    <3> QED
      BY <1>2, <1>3, <2>3 DEF ManifestInv, ManifestIsTrue
  <2> QED
    BY <1>1, <1>5, <2>1, <2>2, <2>4 DEF ManifestInv
<1> QED
  BY <1>4, <1>5

LEMMA FinishManifest ==
    ASSUME TypeOK, ManifestInv, FinishSite
    PROVE  ManifestInv'
<1>1. /\ BuildOK /\ Unread = {} /\ phase = "writing" /\ todo = {}
      /\ manifest' = IF full THEN Nav(read) ELSE manifest
      /\ out' = out
  BY TypeParts DEF BuildOK, FinishSite, PagesOut
<1>2. phase' = "idle"
  BY DEF FinishSite, Fails, Succeeds, BuildEnds
<1>3. ManifestIsTrue'
  <2>1. CASE ~full
    BY <1>1, <2>1 DEF ManifestInv, ManifestIsTrue
  <2>2. CASE full
    <3> SUFFICES ASSUME NEW p \in Pages, Nav(read)[p] # NoPage
                 PROVE  /\ out[p] # Nothing
                        /\ \A q \in Pages : out[p].seen[q].title = Nav(read)[q]
      BY <1>1, <2>2 DEF ManifestIsTrue
    <3>1. p \in Present(read)
      BY DEF Nav, Present
    <3>2. out[p] = Render(p, read)
      BY <1>1, <2>2, <3>1 DEF ManifestInv
    <3> QED
      BY <1>1, <3>2, RenderType, RenderShowsNav
  <2> QED
    BY <2>1, <2>2
<1> QED
  BY <1>2, <1>3 DEF ManifestInv

LEMMA NextManifest ==
    ASSUME TypeOK, ManifestInv, [Next]_vars
    PROVE  ManifestInv'
<1>1. CASE UNCHANGED vars
  BY <1>1, ManifestFrame DEF vars, build, disk
<1>2. CASE \E f \in Files : \E text \in Drafts[f] : Save(f, text)
  BY <1>2, ManifestFrame DEF Save, build, disk
<1>3. CASE (\E files \in SUBSET noted : Note(files)) \/ Watch
  BY <1>3, ManifestFrame DEF Note, Watch, build, disk
<1>4. CASE Serve \/ Rebuild \/ Stop
  BY <1>4, ManifestFrame DEF Serve, Rebuild, Stop, disk
<1>5. CASE (\E f \in Files : ReadFile(f)) \/ OpenFails
  BY <1>5, ManifestFrame DEF ReadFile, OpenFails, Fails, BuildEnds, disk
<1>6. CASE Target
  <2>1. manifest = Nav(read) /\ ~full
    BY <1>6 DEF Target, NavMatches
  <2>2. UNCHANGED <<full, read, out, manifest>>
    BY <1>6 DEF Target, disk
  <2> QED
    BY <2>1, <2>2 DEF ManifestInv, ManifestIsTrue, Nav
<1>7. CASE RenderAll
  BY <1>7, StartFullManifest DEF RenderAll
<1>8. CASE TocFails \/ (\E p \in Pages : PageFails(p)) \/ LinkFails
  BY <1>8, ManifestFrame DEF TocFails, PageFails, LinkFails, Fails, BuildEnds, disk
<1>9. CASE \E p \in Pages : WritePage(p)
  BY <1>9, WritePageManifest
<1>10. CASE NeedFull
  BY <1>10, StartFullManifest, ManifestFrame DEF NeedFull, Fails, BuildEnds, disk
<1>11. CASE FinishSite
  BY <1>11, FinishManifest
<1> QED
  BY <1>1, <1>2, <1>3, <1>4, <1>5, <1>6, <1>7, <1>8, <1>9, <1>10, <1>11
  DEF Next, BuildStep

(* Whatever fails, is stopped or is edited, a manifest on disk is true of  *)
(* every page file: each page it names was written, and shows exactly the  *)
(* navigation it records.                                                  *)
THEOREM ManifestStaysTrue == Spec => []ManifestIsTrue
<1>1. Init => ManifestInv
  BY DEF Init, ManifestInv, ManifestIsTrue
<1>2. TypeOK /\ ManifestInv /\ [Next]_vars => ManifestInv'
  BY NextManifest
<1>3. ManifestInv => ManifestIsTrue
  BY DEF ManifestInv
<1> QED
  BY <1>1, <1>2, <1>3, TypeCorrect, PTL DEF Spec
-----------------------------------------------------------------------------
(* What one of the theorems assumes of the texts.                          *)
(* No edit of a page file changes what other pages use of it but its title.*)
PagesKeepDefinitions ==
    \A p \in Pages : \A t, u \in Drafts[p] : t.defines = u.defines

-----------------------------------------------------------------------------
(* The files that some rebuild still answers for: those that wait, and     *)
(* those the running build has taken up.                                   *)
Debt == Waiting \cup covered

(* What a build goes by.  A text it has read is the present one unless its *)
(* file waits, and what it has written is what it renders from its texts.  *)
ReadInv ==
    /\ \A f \in Files : read[f] # Nothing => read[f] \in Drafts[f]
    /\ \A f \in Files \ Waiting : read[f] # Nothing => read[f] = source[f]
    /\ phase \in {"down", "idle"} => covered = {} /\ changed = {}
    /\ changed \subseteq covered

WriteInv ==
    phase = "writing" =>
        /\ Opened
        /\ ~full => changed \subseteq Present(read) /\ changed # {}
        /\ todo \subseteq Targets
        /\ \A p \in Targets \ todo :
              out[p] = Render(p, read) /\ read[p].broken # "page"

(* A page that nobody owes a rebuild is sound and up to date.              *)
Settled == Present(source) \ Debt

PageInv ==
    \A p \in Settled :
        /\ out[p] # Nothing /\ out[p].own = source[p]
        /\ source[p].broken = "no"
        /\ source[p].links \subseteq Present(source) \cup Debt
        /\ source[p].icons \subseteq sprite

(* Every title and definition a page shows was in a text of its file.      *)
SeenInv ==
    \A p \in Pages : out[p] # Nothing =>
        \A f \in Files : \E t \in Drafts[f] : out[p].seen[f] = Seen(t)

SeesInv ==
    PagesKeepDefinitions =>
        \A p \in Settled : \A f \in Files \ Debt : out[p].seen[f] = Seen(source[f])

FreshInv == ReadInv /\ WriteInv /\ PageInv /\ SeenInv /\ SeesInv

(* Of the start page, as long as there is one at most.  With a manifest on *)
(* disk, index.html is the start page, or the build that runs will make it *)
(* so; and a page whose mark that build has read is the start page still,  *)
(* unless the one that has the mark now is owed a rebuild.                 *)
IndexInv ==
    /\ manifest # Nothing => \A p \in Settled : source[p].start => index = out[p]
    /\ phase = "idle" /\ ~error => manifest # Nothing
MarksInv ==
    \A q \in Pages : \A p \in Settled :
        read[q] # Nothing /\ read[q].title # NoPage /\ read[q].start /\ source[p].start => p = q

StartInv == MarksInv /\ IndexInv
KeepsIndex == OneStart /\ StartInv => StartInv'

LEMMA Shapes ==
    ASSUME TypeOK
    PROVE  /\ source \in [Files -> Texts] /\ read \in [Files -> Texts \cup {Nothing}]
           /\ \A f \in Files : source[f] \in Drafts[f]
           /\ out \in [Pages -> Rendered]
           /\ noted \subseteq Files /\ pending \subseteq Files
           /\ unseen \subseteq Files /\ covered \subseteq Files /\ changed \subseteq Files
           /\ Pages \subseteq Files /\ Present(source) \subseteq Pages
           /\ Present(read) \subseteq Pages
           /\ phase = "writing" => Unread = {}
           /\ phase \in {"down", "idle"} => read = [f \in Files |-> Nothing]
  BY DEF TypeOK, Files, Present

(* A step that writes no page and repays nothing keeps what is said of the *)
(* settled ones.                                                           *)
LEMMA Growing ==
    ASSUME TypeOK, PageInv, SeenInv, SeesInv,
           Debt \subseteq Debt',
           \A f \in Files : f \notin Debt' => source'[f] = source[f],
           \A f \in Files : read'[f] \in {Nothing, read[f], source[f]},
           UNCHANGED <<out, index, sprite>>,
           manifest' \in {manifest, Nothing},
           phase' = "idle" /\ ~error' => phase = "idle" /\ ~error /\ manifest' = manifest
    PROVE  PageInv' /\ SeenInv' /\ SeesInv' /\ KeepsIndex
<1>1. Settled' \subseteq Settled
  BY Shapes DEF Settled, Present, Files
<1>2. \A p \in Settled' : source'[p] = source[p] /\ p \in Settled
  BY <1>1 DEF Settled, Present, Files
<1>3. PageInv'
  <2>1. ASSUME NEW f \in Present(source) \cup Debt PROVE f \in Present(source)' \cup Debt'
    BY Shapes DEF Present, Files
  <2> QED
    BY <1>2, <2>1 DEF PageInv
<1>4. SeenInv'
  BY DEF SeenInv
<1>5. SeesInv'
  BY <1>2 DEF SeesInv
<1>6. KeepsIndex
  <2> SUFFICES ASSUME OneStart, StartInv
               PROVE  MarksInv' /\ IndexInv'
    BY DEF KeepsIndex, StartInv
  <2>1. IndexInv'
    BY <1>2 DEF StartInv, IndexInv
  <2>2. ASSUME NEW q \in Pages, NEW p \in Settled', source'[p].start,
               read'[q] # Nothing, read'[q].title # NoPage, read'[q].start
        PROVE  p = q
    <3>1. p \in Settled /\ p \in Present(source) /\ source[p].start
      BY <1>2, <2>2 DEF Settled
    <3>2. CASE read'[q] = read[q]
      BY <2>2, <3>1, <3>2 DEF StartInv, MarksInv
    <3>3. CASE read'[q] = source[q]
      <4>1. q \in Present(source) /\ source[q].start
        BY <2>2, <3>3 DEF Present
      <4> QED
        BY <3>1, <4>1 DEF OneStart
    <3> QED
      BY <2>2, <3>2, <3>3 DEF Files
  <2> QED
    BY <2>1, <2>2 DEF MarksInv
<1> QED
  BY <1>3, <1>4, <1>5, <1>6

-----------------------------------------------------------------------------
LEMMA InitFresh == Init => FreshInv /\ StartInv
<1> SUFFICES ASSUME Init PROVE FreshInv /\ StartInv
  OBVIOUS
<1>1. Settled = {}
  BY DEF Init, Settled, Debt, Waiting, Present, Files
<1>2. \A f \in Files : read[f] = Nothing
  BY DEF Init
<1>3. \A p \in Pages : out[p] = Nothing
  BY DEF Init
<1>4. phase = "down" /\ covered = {} /\ changed = {} /\ manifest = Nothing
  BY DEF Init
<1> QED
  BY <1>1, <1>2, <1>3, <1>4 DEF FreshInv, ReadInv, WriteInv, PageInv, SeenInv, SeesInv,
        StartInv, MarksInv, IndexInv, Files

(* A save owes the file it changes.                                        *)
LEMMA SaveFresh ==
    ASSUME TypeOK, FreshInv, NEW f \in Files, NEW text \in Drafts[f], Save(f, text)
    PROVE  FreshInv' /\ KeepsIndex
<1>1. /\ Waiting' = Waiting \cup {f} /\ covered' = covered /\ changed' = changed
      /\ UNCHANGED <<phase, full, changed, read, todo, out, index, manifest, sprite, error>>
  BY DEF Save, Waiting, build, disk
<1>2. \A g \in Files : g # f => source'[g] = source[g]
  BY Shapes DEF Save
<1>3. Debt' = Debt \cup {f}
  BY <1>1 DEF Debt
<1>4. PageInv' /\ SeenInv' /\ SeesInv' /\ KeepsIndex
  BY <1>1, <1>2, <1>3, Growing DEF FreshInv
<1>5. ReadInv'
  BY <1>1, <1>2 DEF FreshInv, ReadInv
<1>6. WriteInv'
  BY <1>1 DEF FreshInv, WriteInv, Opened, Targets, AffectedPages, Present, Render
<1> QED
  BY <1>4, <1>5, <1>6 DEF FreshInv

(* The watcher moves a file from one account to another.                   *)
LEMMA WatcherFresh ==
    ASSUME TypeOK, FreshInv, (\E files \in SUBSET noted : Note(files)) \/ Watch
    PROVE  FreshInv' /\ KeepsIndex
<1>1. /\ Waiting' = Waiting
      /\ UNCHANGED <<source, phase, full, changed, read, todo, out, index, manifest, sprite,
                     error, covered>>
  BY DEF Note, Watch, Waiting, build, disk, history
<1>2. Debt' = Debt
  BY <1>1 DEF Debt
<1>3. PageInv' /\ SeenInv' /\ SeesInv' /\ KeepsIndex
  BY <1>1, <1>2, Growing DEF FreshInv
<1>4. ReadInv'
  BY <1>1 DEF FreshInv, ReadInv
<1>5. WriteInv'
  BY <1>1 DEF FreshInv, WriteInv, Opened, Targets, AffectedPages, Present, Render
<1> QED
  BY <1>3, <1>4, <1>5 DEF FreshInv

LEMMA ServerFresh ==
    ASSUME TypeOK, FreshInv, Serve \/ Rebuild \/ Stop
    PROVE  FreshInv' /\ KeepsIndex
<1>1. CASE Serve
  <2>1. /\ Waiting' = Waiting /\ phase = "down" /\ phase' = "reading"
        /\ UNCHANGED <<source, changed, read, out, index, manifest, sprite, covered>>
    BY <1>1 DEF Serve, Waiting, world, disk, history
  <2>2. Debt' = Debt
    BY <2>1 DEF Debt
  <2>3. PageInv' /\ SeenInv' /\ SeesInv' /\ KeepsIndex
    BY <2>1, <2>2, Growing DEF FreshInv
  <2>4. ReadInv' /\ WriteInv'
    BY <2>1 DEF FreshInv, ReadInv, WriteInv
  <2> QED
    BY <2>3, <2>4 DEF FreshInv
<1>2. CASE Rebuild
  <2>1. /\ phase = "idle" /\ phase' = "reading" /\ covered' = pending /\ changed' = pending
        /\ Waiting' = noted \cup unseen
        /\ UNCHANGED <<source, read, out, index, manifest, sprite>>
    BY <1>2 DEF Rebuild, Waiting, disk
  <2>2. covered = {} /\ \A f \in Files : read[f] = Nothing
    BY <2>1, Shapes DEF FreshInv, ReadInv
  <2>3. Debt' = Debt
    BY <2>1, <2>2 DEF Debt, Waiting
  <2>4. PageInv' /\ SeenInv' /\ SeesInv' /\ KeepsIndex
    BY <2>1, <2>3, Growing DEF FreshInv
  <2>5. ReadInv' /\ WriteInv'
    BY <2>1, <2>2 DEF ReadInv, WriteInv
  <2> QED
    BY <2>4, <2>5 DEF FreshInv
<1>3. CASE Stop
  <2>1. /\ phase' = "down" /\ covered' = {} /\ changed' = {} /\ unseen' = Files
        /\ read' = [f \in Files |-> Nothing]
        /\ UNCHANGED <<source, out, index, manifest, sprite>>
    BY <1>3 DEF Stop, disk
  <2>2. Debt \subseteq Debt' /\ Files \subseteq Debt'
    BY <2>1, Shapes DEF Debt, Waiting
  <2>3. PageInv' /\ SeenInv' /\ SeesInv' /\ KeepsIndex
    BY <2>1, <2>2, Growing DEF FreshInv
  <2>4. ReadInv' /\ WriteInv'
    BY <2>1 DEF ReadInv, WriteInv
  <2> QED
    BY <2>3, <2>4 DEF FreshInv
<1> QED
  BY <1>1, <1>2, <1>3

-----------------------------------------------------------------------------
(* A build that fails gives back what it had taken up.                     *)
LEMMA FailsGivesBack ==
    ASSUME TypeOK, Fails, UNCHANGED <<source, noted, pending>>
    PROVE  /\ Debt' = Debt /\ phase' = "idle" /\ error'
           /\ ReadInv' /\ WriteInv' /\ \A f \in Files : read'[f] = Nothing
<1>1. /\ phase' = "idle" /\ error' = TRUE /\ covered' = {} /\ changed' = {}
      /\ unseen' = unseen \cup covered /\ read' = [f \in Files |-> Nothing]
  BY DEF Fails, BuildEnds
<1>2. Debt' = Debt
  BY <1>1 DEF Debt, Waiting
<1>3. ReadInv' /\ WriteInv'
  BY <1>1 DEF ReadInv, WriteInv
<1> QED
  BY <1>1, <1>2, <1>3

LEMMA FailsFresh ==
    ASSUME TypeOK, FreshInv, Fails, UNCHANGED <<world, disk>>
    PROVE  FreshInv' /\ KeepsIndex
<1>1. UNCHANGED <<source, noted, pending, out, index, manifest, sprite>>
  BY DEF world, disk
<1>2. /\ Debt' = Debt /\ phase' = "idle" /\ error' /\ ReadInv' /\ WriteInv'
      /\ \A f \in Files : read'[f] = Nothing
  BY <1>1, FailsGivesBack
<1>3. PageInv' /\ SeenInv' /\ SeesInv' /\ KeepsIndex
  BY <1>1, <1>2, Growing DEF FreshInv
<1> QED
  BY <1>2, <1>3 DEF FreshInv

LEMMA StartFullFresh ==
    ASSUME TypeOK, FreshInv, StartFull, Opened
    PROVE  FreshInv' /\ KeepsIndex
<1>1. /\ phase' = "writing" /\ full' = TRUE /\ todo' = Present(read) /\ manifest' = Nothing
      /\ UNCHANGED <<source, noted, pending, changed, read, out, index, sprite, error,
                     unseen, covered>>
  BY DEF StartFull, DropManifest, world
<1>2. Debt' = Debt /\ Waiting' = Waiting
  BY <1>1 DEF Debt, Waiting
<1>3. PageInv' /\ SeenInv' /\ SeesInv' /\ KeepsIndex
  BY <1>1, <1>2, Growing DEF FreshInv
<1>4. ReadInv'
  BY <1>1, <1>2 DEF FreshInv, ReadInv
<1>5. WriteInv'
  BY <1>1 DEF WriteInv, Opened, Targets, Present
<1> QED
  BY <1>3, <1>4, <1>5 DEF FreshInv

LEMMA ReadingFresh ==
    ASSUME TypeOK, FreshInv, (\E f \in Files : ReadFile(f)) \/ OpenFails \/ Target \/ RenderAll
    PROVE  FreshInv' /\ KeepsIndex
<1>1. ASSUME NEW f \in Files, ReadFile(f) PROVE FreshInv' /\ KeepsIndex
  <2>1. /\ phase = "reading" /\ phase' = "reading" /\ read' = [read EXCEPT ![f] = source[f]]
        /\ covered' = covered \cup (unseen \cap {f}) /\ unseen' = unseen \ {f}
        /\ UNCHANGED <<source, noted, pending, changed, out, index, manifest, sprite, error>>
    BY <1>1 DEF ReadFile, world, disk
  <2>2. Debt' = Debt /\ Waiting \subseteq Waiting' \cup {f}
    BY <2>1 DEF Debt, Waiting
  <2>3. \A g \in Files : read'[g] = IF g = f THEN source[g] ELSE read[g]
    BY <2>1, Shapes
  <2>4. PageInv' /\ SeenInv' /\ SeesInv' /\ KeepsIndex
    BY <2>1, <2>2, <2>3, Growing DEF FreshInv
  <2>5. ReadInv' /\ WriteInv'
    BY <2>1, <2>2, <2>3, Shapes DEF FreshInv, ReadInv, WriteInv
  <2> QED
    BY <2>4, <2>5 DEF FreshInv
<1>2. CASE OpenFails
  BY <1>2, FailsFresh DEF OpenFails
<1>3. CASE Target
  <2>1. /\ phase = "reading" /\ phase' = "writing" /\ ~full /\ Opened
        /\ AffectedPages # {} /\ todo' = AffectedPages
        /\ UNCHANGED <<source, noted, pending, full, changed, read, out, index, manifest, sprite,
                       error, unseen, covered>>
    BY <1>3 DEF Target, world, disk, history
  <2>2. Debt' = Debt /\ Waiting' = Waiting
    BY <2>1 DEF Debt, Waiting
  <2>3. PageInv' /\ SeenInv' /\ SeesInv' /\ KeepsIndex
    BY <2>1, <2>2, Growing DEF FreshInv
  <2>4. ReadInv'
    BY <2>1, <2>2 DEF FreshInv, ReadInv
  <2>5. Targets' = AffectedPages /\ Present(read)' = Present(read)
    BY <2>1 DEF Targets, AffectedPages, Present
  <2>6. WriteInv'
    BY <2>1, <2>5 DEF WriteInv, Opened, AffectedPages
  <2> QED
    BY <2>3, <2>4, <2>6 DEF FreshInv
<1>4. CASE RenderAll
  BY <1>4, StartFullFresh DEF RenderAll
<1> QED
  BY <1>1, <1>2, <1>3, <1>4

-----------------------------------------------------------------------------
(* While a build writes, it holds the present text of every file that does *)
(* not wait, and a targeted one writes only pages it owes.                 *)
LEMMA Holding ==
    ASSUME TypeOK, FreshInv, phase = "writing"
    PROVE  /\ \A f \in Files : read[f] \in Drafts[f] /\ read[f] # Nothing
           /\ \A f \in Files \ Waiting : read[f] = source[f]
           /\ \A p \in Present(source) \ Waiting : p \in Present(read)
           /\ Present(read) \subseteq Present(source) \cup Waiting
           /\ full => Targets = Present(read)
           /\ ~full => Targets = changed
<1>1. \A f \in Files : read[f] # Nothing
  BY Shapes DEF Unread
<1>2. /\ \A f \in Files : read[f] \in Drafts[f]
      /\ \A f \in Files \ Waiting : read[f] = source[f]
  BY <1>1 DEF FreshInv, ReadInv
<1>3. /\ \A p \in Present(source) \ Waiting : p \in Present(read)
      /\ Present(read) \subseteq Present(source) \cup Waiting
  BY <1>2 DEF Present, Files
<1>4. (full => Targets = Present(read)) /\ (~full => Targets = changed)
  BY DEF FreshInv, WriteInv, Targets, AffectedPages
<1> QED
  BY <1>1, <1>2, <1>3, <1>4

LEMMA WritePageFresh ==
    ASSUME TypeOK, ManifestInv, FreshInv, NEW p \in Pages, WritePage(p)
    PROVE  FreshInv' /\ KeepsIndex
<1>1. /\ phase = "writing" /\ phase' = "writing" /\ p \in todo /\ todo' = todo \ {p}
      /\ read[p].broken # "page" /\ out' = [out EXCEPT ![p] = Render(p, read)]
      /\ UNCHANGED <<source, noted, pending, full, changed, read, index, manifest, sprite,
                     error, unseen, covered>>
  BY DEF WritePage, world, history
<1>2. \A q \in Pages : out'[q] = IF q = p THEN Render(p, read) ELSE out[q]
  BY <1>1, Shapes
<1>3. Render(p, read) # Nothing
  BY <1>1, Shapes, TypeParts, RenderType
<1>4. /\ Waiting' = Waiting /\ Debt' = Debt /\ Settled' = Settled
      /\ Present(source)' = Present(source) /\ Settled \subseteq Pages
  BY <1>1 DEF Waiting, Debt, Settled, Present
<1>5. /\ Render(p, read).own = read[p]
      /\ \A f \in Files : Render(p, read).seen[f] = Seen(read[f])
  BY DEF Render
<1>6. ReadInv'
  BY <1>1, <1>4 DEF FreshInv, ReadInv
<1>7. WriteInv'
  <2>1. Targets' = Targets /\ Present(read)' = Present(read) /\ Targets \subseteq Pages
    BY <1>1 DEF Targets, AffectedPages, Present
  <2>2. \A q : Render(q, read)' = Render(q, read)
    BY <1>1 DEF Render
  <2>3. ASSUME NEW q \in Targets \ todo'
        PROVE  out'[q] = Render(q, read) /\ read[q].broken # "page"
    BY <1>1, <1>2, <2>1 DEF FreshInv, WriteInv
  <2> QED
    BY <1>1, <2>1, <2>2, <2>3 DEF FreshInv, WriteInv, Opened
<1>8. PageInv'
  <2>1. p \in Settled => read[p] = source[p]
    BY <1>1, Holding DEF Settled, Debt, Files
  <2> QED
    BY <1>1, <1>2, <1>3, <1>4, <1>5, <2>1 DEF FreshInv, PageInv
<1>9. SeenInv'
  <2>1. \A f \in Files : \E t \in Drafts[f] : Render(p, read).seen[f] = Seen(t)
    BY <1>1, <1>5, Holding
  <2> QED
    BY <1>2, <2>1 DEF FreshInv, SeenInv
<1>10. SeesInv'
  <2>1. \A f \in Files \ Debt : Seen(source[f]) = Render(p, read).seen[f]
    BY <1>1, <1>5, Holding DEF Debt
  <2> QED
    BY <1>1, <1>2, <1>4, <2>1 DEF FreshInv, SeesInv
<1>11. KeepsIndex
  <2>1. full => manifest = Nothing
    BY <1>1 DEF ManifestInv
  <2>2. ~full => p \in Debt
    BY <1>1, Holding DEF FreshInv, WriteInv, ReadInv, Debt
  <2>3. ~full => p \notin Settled
    BY <2>2 DEF Settled
  <2>4. StartInv => IndexInv'
    BY <1>1, <1>2, <1>4, <2>1, <2>3 DEF StartInv, IndexInv
  <2>5. StartInv => MarksInv'
    BY <1>1, <1>4 DEF StartInv, MarksInv
  <2> QED
    BY <2>4, <2>5 DEF KeepsIndex, StartInv
<1> QED
  BY <1>6, <1>7, <1>8, <1>9, <1>10, <1>11 DEF FreshInv

(* A full build replaces the sprite by the icons of its pages, which are   *)
(* all there are; a settled page keeps its own.                            *)
LEMMA SpriteKept ==
    ASSUME TypeOK, FreshInv, phase = "writing", WriteSprite
    PROVE  \A p \in Settled : source[p].icons \subseteq sprite'
<1> SUFFICES ASSUME NEW p \in Settled PROVE source[p].icons \subseteq sprite'
  OBVIOUS
<1>1. source[p].icons \subseteq sprite /\ source[p].broken = "no"
  BY DEF FreshInv, PageInv
<1>2. p \in Present(source) \ Waiting /\ p \in Files
  BY Shapes DEF Settled, Debt
<1>3. full => p \in Targets /\ read[p] = source[p]
  BY <1>2, Holding
<1>4. full => source[p].icons \subseteq UsedIcons
  BY <1>1, <1>3 DEF UsedIcons
<1> QED
  BY <1>1, <1>4 DEF WriteSprite

LEMMA LinkFailsFresh ==
    ASSUME TypeOK, FreshInv, LinkFails
    PROVE  FreshInv' /\ KeepsIndex
<1>1. /\ phase = "writing" /\ WriteSprite /\ Fails
      /\ UNCHANGED <<source, noted, pending, out, index, manifest>>
  BY DEF LinkFails, PagesOut, world
<1>2. /\ Debt' = Debt /\ phase' = "idle" /\ error' /\ ReadInv' /\ WriteInv'
      /\ \A f \in Files : read'[f] = Nothing
  BY <1>1, FailsGivesBack
<1>3. Settled' = Settled /\ Present(source)' = Present(source)
  BY <1>1, <1>2 DEF Settled, Present
<1>4. PageInv'
  BY <1>1, <1>2, <1>3, SpriteKept DEF FreshInv, PageInv
<1>5. SeenInv'
  BY <1>1 DEF FreshInv, SeenInv
<1>6. SeesInv'
  BY <1>1, <1>2, <1>3 DEF FreshInv, SeesInv
<1>7. KeepsIndex
  BY <1>1, <1>2, <1>3 DEF KeepsIndex, StartInv, IndexInv, MarksInv, Files
<1> QED
  BY <1>2, <1>4, <1>5, <1>6, <1>7 DEF FreshInv

LEMMA WritingFresh ==
    ASSUME TypeOK, ManifestInv, FreshInv,
           TocFails \/ (\E p \in Pages : WritePage(p) \/ PageFails(p)) \/ LinkFails \/ NeedFull
    PROVE  FreshInv' /\ KeepsIndex
<1>1. CASE TocFails \/ \E p \in Pages : PageFails(p)
  BY <1>1, FailsFresh DEF TocFails, PageFails
<1>2. CASE \E p \in Pages : WritePage(p)
  BY <1>2, WritePageFresh
<1>3. CASE LinkFails
  BY <1>3, LinkFailsFresh
<1>4. CASE NeedFull
  <2>1. Opened
    BY <1>4 DEF NeedFull, PagesOut, FreshInv, WriteInv
  <2> QED
    BY <1>4, <2>1, FailsFresh, StartFullFresh DEF NeedFull
<1> QED
  BY <1>1, <1>2, <1>3, <1>4

-----------------------------------------------------------------------------
(* A site that is done copies its start page, if it wrote it, to           *)
(* index.html.                                                             *)
LEMMA OneOfStarts ==
    ASSUME NEW p \in Starts
    PROVE  Starts = {p} <=> ~ (Cardinality(Starts) > 1)
<1>1. IsFiniteSet(Starts)
  BY FilesAssumption, FS_Subset DEF Starts, Present
<1>2. ASSUME NEW q \in Starts, q # p
      PROVE  Cardinality(Starts) > 1
  <2>1. IsFiniteSet({p}) /\ Cardinality({p}) = 1
    BY FS_Singleton
  <2>2. Cardinality({p} \cup {q}) = 2
    BY <1>2, <2>1, FS_AddElement
  <2>3. {p} \cup {q} \subseteq Starts
    BY <1>2
  <2>4. Cardinality({p} \cup {q}) <= Cardinality(Starts) /\ Cardinality(Starts) \in Nat
    BY <1>1, <2>3, FS_Subset, FS_CardinalityType
  <2> QED
    BY <2>2, <2>4
<1>3. Starts = {p} => ~ (Cardinality(Starts) > 1)
  <2>1. Cardinality({p}) = 1
    BY FS_Singleton
  <2> QED
    BY <2>1
<1> QED
  BY <1>2, <1>3

LEMMA LandingIsServed ==
    ASSUME TypeOK, ManifestInv, FreshInv, StartInv, FinishSite,
           NEW p \in Present(source) \ Waiting, source[p].start,
           p \in Settled \/ (p \in Targets /\ ~ (Cardinality(Starts) > 1))
    PROVE  index' = out[p]
<1>1. phase = "writing"
  BY DEF FinishSite, PagesOut
<1>2. p \in Starts
  BY <1>1, Holding DEF Starts, Present, Files
<1>3. Starts = {p}
  <2>1. CASE p \in Settled
    <3>1. ASSUME NEW q \in Starts
          PROVE  q = p
      BY <1>1, <2>1, <3>1, Holding DEF StartInv, MarksInv, Starts, Present, Files
    <3> QED
      BY <1>2, <3>1
  <2>2. CASE ~ (Cardinality(Starts) > 1)
    BY <1>2, <2>2, OneOfStarts
  <2> QED
    BY <2>1, <2>2
<1>4. index' = IF Landing = {} THEN index ELSE out[CHOOSE q \in Landing : TRUE]
  BY <1>2, <1>3, OneOfStarts DEF FinishSite
<1>5. CASE Landing # {}
  <2>1. Landing = {p}
    BY <1>3, <1>5 DEF Landing
  <2> QED
    BY <1>4, <2>1
<1>6. CASE Landing = {}
  <2>1. p \notin Targets
    BY <1>2, <1>6 DEF Landing
  <2>2. p \in Settled /\ ~full
    BY <1>1, <2>1, Holding
  <2>3. manifest = Nav(read) /\ Nav(read) # Nothing
    BY <1>1, <2>2, Shapes, TypeParts, NavType, NothingAssumption DEF ManifestInv
  <2> QED
    BY <1>4, <1>6, <2>2, <2>3 DEF StartInv, IndexInv
<1> QED
  BY <1>5, <1>6

LEMMA FinishFailsFresh ==
    ASSUME TypeOK, ManifestInv, FreshInv, FinishSite, Fails
    PROVE  FreshInv' /\ KeepsIndex
<1>1. /\ phase = "writing" /\ WriteSprite
      /\ manifest' = IF full THEN Nav(read) ELSE manifest
      /\ UNCHANGED <<source, noted, pending, out>>
  BY DEF FinishSite, PagesOut, world
<1>2. /\ Debt' = Debt /\ phase' = "idle" /\ error' /\ ReadInv' /\ WriteInv'
      /\ \A f \in Files : read'[f] = Nothing
  BY <1>1, FailsGivesBack
<1>3. Settled' = Settled /\ Present(source)' = Present(source)
  BY <1>1, <1>2 DEF Settled, Present
<1>4. PageInv'
  BY <1>1, <1>2, <1>3, SpriteKept DEF FreshInv, PageInv
<1>5. SeenInv'
  BY <1>1 DEF FreshInv, SeenInv
<1>6. SeesInv'
  BY <1>1, <1>2, <1>3 DEF FreshInv, SeesInv
<1>7. KeepsIndex
  <2> SUFFICES ASSUME StartInv, NEW p \in Settled, source[p].start PROVE index' = out[p]
    BY <1>1, <1>2, <1>3 DEF KeepsIndex, StartInv, IndexInv, MarksInv, Files
  <2>1. p \in Present(source) \ Waiting
    BY DEF Settled, Debt
  <2> QED
    BY <2>1, LandingIsServed
<1> QED
  BY <1>2, <1>4, <1>5, <1>6, <1>7 DEF FreshInv

(* A targeted build has seen, of the files it answers for, the titles the  *)
(* manifest has; the pages it left alone show them already.                *)
LEMMA LeftAlone ==
    ASSUME TypeOK, ManifestInv, FreshInv, PagesKeepDefinitions, phase = "writing", ~full,
           NEW p \in Settled, NEW f \in Targets, f \notin Waiting
    PROVE  out[p].seen[f] = Seen(source[f])
<1>1. p \in Present(source) \ Waiting /\ p \in Pages /\ p \in Files
  BY Shapes DEF Settled, Debt
<1>2. f \in Pages /\ f \in Files /\ read[f] = source[f]
  BY Shapes, Holding DEF FreshInv, WriteInv
<1>3. out[p] # Nothing
  BY DEF FreshInv, PageInv
<1>4. PICK t \in Drafts[f] : out[p].seen[f] = Seen(t)
  BY <1>1, <1>2, <1>3 DEF FreshInv, SeenInv
<1>5. t.defines = source[f].defines
  BY <1>2, <1>4, Shapes DEF PagesKeepDefinitions
<1>6. manifest = Nav(read) /\ manifest # Nothing
  BY Shapes, TypeParts, NavType, NothingAssumption DEF ManifestInv
<1>7. manifest[p] # NoPage /\ manifest[f] = source[f].title
  BY <1>1, <1>2, <1>6, Holding DEF Nav, Present
<1>8. out[p].seen[f].title = source[f].title
  BY <1>1, <1>2, <1>6, <1>7 DEF ManifestInv, ManifestIsTrue
<1>9. t.title = source[f].title
  BY <1>4, <1>8 DEF Seen
<1> QED
  BY <1>4, <1>5, <1>9 DEF Seen

LEMMA SucceedsFresh ==
    ASSUME TypeOK, ManifestInv, FreshInv, FinishSite, ~Caught, Succeeds
    PROVE  FreshInv' /\ KeepsIndex
<1>1. /\ phase = "writing" /\ todo = {} /\ WriteSprite /\ BadLinks = {}
      /\ full \/ SpriteHasIcons
      /\ manifest' = IF full THEN Nav(read) ELSE manifest
      /\ phase' = "idle" /\ covered' = {} /\ changed' = {} /\ error' = FALSE
      /\ unseen' = IF full THEN unseen ELSE unseen \cup (covered \ changed)
      /\ read' = [f \in Files |-> Nothing]
      /\ UNCHANGED <<source, noted, pending, out>>
  BY DEF FinishSite, PagesOut, Succeeds, BuildEnds, ErrorAfterOk, world
<1>2. Waiting \subseteq Debt' /\ Debt' \subseteq Debt
  BY <1>1 DEF Debt, Waiting
<1>3. \A f \in Debt \ Debt' : full \/ f \in Targets
  BY <1>1, Holding DEF Debt, Waiting
<1>4. Present(source)' = Present(source)
  BY <1>1 DEF Present
<1>5. ASSUME NEW p \in Settled'
      PROVE  p \in Present(source) \ Waiting /\ p \in Files /\ (p \in Settled \/ p \in Targets)
  BY <1>1, <1>2, <1>3, <1>4, <1>5, Shapes, Holding DEF Settled
<1>6. ASSUME NEW p \in Targets, p \in Settled'
      PROVE  /\ out[p] # Nothing /\ out[p].own = source[p]
             /\ \A f \in Files : out[p].seen[f] = Seen(read[f])
             /\ source[p].broken = "no"
             /\ source[p].links \subseteq Present(read)
             /\ source[p].icons \subseteq sprite'
  <2>1. p \in Pages /\ p \in Files /\ read[p] = source[p]
    BY <1>1, <1>5, <1>6, Shapes, Holding
  <2>2. out[p] = Render(p, read) /\ out[p] # Nothing
    BY <1>1, <2>1, Shapes, TypeParts, RenderType DEF FreshInv, WriteInv
  <2>3. out[p].own = source[p] /\ \A f \in Files : out[p].seen[f] = Seen(read[f])
    BY <2>1, <2>2 DEF Render
  <2>4. source[p].broken = "no"
    <3>1. source[p].broken \notin {"page", "syntax", "eval"}
      BY <1>1, <1>6, <2>1 DEF FreshInv, WriteInv, Opened, Caught
    <3>2. source[p] \in Texts
      BY <2>1, Shapes
    <3> QED
      BY <3>1, <3>2, DraftsAssumption
  <2>5. source[p].links \subseteq Present(read)
    BY <1>1, <2>1 DEF BadLinks
  <2>6. source[p].icons \subseteq UsedIcons
    BY <2>1, <2>4 DEF UsedIcons
  <2>7. UsedIcons \subseteq sprite'
    BY <1>1 DEF WriteSprite, SpriteHasIcons
  <2> QED
    BY <2>2, <2>3, <2>4, <2>5, <2>6, <2>7
<1>7. ReadInv' /\ WriteInv'
  BY <1>1 DEF ReadInv, WriteInv
<1>8. PageInv'
  <2> SUFFICES ASSUME NEW p \in Settled'
               PROVE  /\ out[p] # Nothing /\ out[p].own = source[p]
                      /\ source[p].broken = "no"
                      /\ source[p].links \subseteq Present(source) \cup Debt'
                      /\ source[p].icons \subseteq sprite'
    BY <1>1, <1>4 DEF PageInv
  <2>1. CASE p \in Targets
    <3>1. Present(read) \subseteq Present(source) \cup Debt'
      BY <1>1, <1>2, Holding
    <3> QED
      BY <1>6, <2>1, <3>1
  <2>2. CASE p \notin Targets
    <3>1. p \in Settled /\ ~full
      BY <1>1, <1>5, <2>2, Holding
    <3>2. Targets \subseteq Present(read)
      BY <1>1, <3>1, Holding DEF FreshInv, WriteInv
    <3>3. Debt \subseteq Present(source) \cup Debt'
      BY <1>1, <1>2, <1>3, <3>1, <3>2, Holding
    <3> QED
      BY <1>1, <3>1, <3>3, SpriteKept DEF FreshInv, PageInv
  <2> QED
    BY <2>1, <2>2
<1>9. SeenInv'
  BY <1>1 DEF FreshInv, SeenInv
<1>10. SeesInv'
  <2> SUFFICES ASSUME PagesKeepDefinitions, NEW p \in Settled', NEW f \in Files \ Debt'
               PROVE  out[p].seen[f] = Seen(source[f])
    BY <1>1 DEF SeesInv
  <2>1. f \notin Waiting /\ read[f] = source[f]
    BY <1>1, <1>2, Holding
  <2>2. CASE p \in Targets
    BY <1>6, <2>1, <2>2
  <2>3. CASE p \notin Targets /\ f \notin Debt
    BY <1>5, <2>3 DEF FreshInv, SeesInv
  <2>4. CASE p \notin Targets /\ f \in Debt
    <3>1. p \in Settled /\ ~full
      BY <1>1, <1>5, <2>4, Holding
    <3> QED
      BY <1>1, <1>3, <2>1, <2>4, <3>1, LeftAlone
  <2> QED
    BY <2>2, <2>3, <2>4
<1>11. KeepsIndex
  <2> SUFFICES ASSUME StartInv
               PROVE  /\ manifest' # Nothing
                      /\ \A p \in Settled' : source[p].start => index' = out[p]
    BY <1>1 DEF KeepsIndex, StartInv, IndexInv, MarksInv, Files
  <2>1. Nav(read) # Nothing
    BY <1>1, Shapes, TypeParts, NavType, NothingAssumption
  <2>2. ~full => manifest = Nav(read)
    BY <1>1 DEF ManifestInv
  <2>3. ~ (Cardinality(Starts) > 1)
    <3>1. ~ Fails
      BY <1>1 DEF Fails, BuildEnds
    <3> QED
      BY <3>1 DEF FinishSite
  <2> QED
    BY <1>1, <1>5, <2>1, <2>2, <2>3, LandingIsServed
<1> QED
  BY <1>7, <1>8, <1>9, <1>10, <1>11 DEF FreshInv

LEMMA NextFresh ==
    ASSUME TypeOK, ManifestInv, FreshInv, [Next]_vars
    PROVE  FreshInv' /\ KeepsIndex
<1>1. CASE UNCHANGED vars
  <2>1. /\ Debt' = Debt /\ Waiting' = Waiting
        /\ UNCHANGED <<source, phase, full, changed, read, todo, out, index, manifest, sprite,
                       error, covered>>
    BY <1>1 DEF vars, world, build, disk, history, Debt, Waiting
  <2>2. PageInv' /\ SeenInv' /\ SeesInv' /\ KeepsIndex
    BY <2>1, Growing DEF FreshInv
  <2>3. ReadInv' /\ WriteInv'
    BY <2>1 DEF FreshInv, ReadInv, WriteInv, Opened, Targets, AffectedPages, Present, Render
  <2> QED
    BY <2>2, <2>3 DEF FreshInv
<1>2. CASE FinishSite
  <2>1. Fails \/ (~Caught /\ Succeeds)
    BY <1>2 DEF FinishSite
  <2> QED
    BY <1>2, <2>1, FinishFailsFresh, SucceedsFresh
<1>3. CASE Next /\ ~FinishSite
  BY <1>3, SaveFresh, WatcherFresh, ServerFresh, ReadingFresh, WritingFresh DEF Next, BuildStep
<1> QED
  BY <1>1, <1>2, <1>3

LEMMA Freshness == Spec => []FreshInv
<1>1. Init => ManifestInv
  BY DEF Init, ManifestInv, ManifestIsTrue
<1>2. TypeOK /\ ManifestInv /\ [Next]_vars => ManifestInv'
  BY NextManifest
<1>3. TypeOK /\ ManifestInv /\ FreshInv /\ [Next]_vars => FreshInv'
  BY NextFresh
<1> QED
  BY <1>1, <1>2, <1>3, InitFresh, TypeCorrect, PTL DEF Spec

(* At rest nothing is taken up, so what nobody owes is what does not wait. *)
LEMMA AtRest ==
    ASSUME FreshInv, Resting
    PROVE  Debt = Waiting /\ Settled = Present(source) \ Waiting
  BY DEF FreshInv, ReadInv, Resting, Debt, Settled

-----------------------------------------------------------------------------
(* As long as no page file changes a definition that other pages use, a    *)
(* site at rest is out of date only where a changed file waits for a       *)
(* rebuild: however builds failed, were stopped half way or were targeted, *)
(* a page shows the present text of its own file and the present title and *)
(* definitions of all others.  (With such a change it does not: the run    *)
(* SiteDefines.)                                                     *)
THEOREM OnlyWaitingIsStale ==
    ASSUME PagesKeepDefinitions
    PROVE  Spec => []StalenessIsExplained
<1>1. FreshInv => StalenessIsExplained
  BY AtRest DEF FreshInv, PageInv, SeesInv, StalenessIsExplained
<1> QED
  BY <1>1, Freshness, PTL

(* Whatever a targeted build leaves alone, no page of a site at rest links *)
(* to a page that is gone, unless a changed file waits.                    *)
THEOREM LinksStayResolved == Spec => []LinksResolve
<1>1. FreshInv => LinksResolve
  BY AtRest DEF FreshInv, PageInv, LinksResolve
<1> QED
  BY <1>1, Freshness, PTL

(* Every icon of a page that is up to date is in the sprite, though only   *)
(* full builds write it and a failing one may have written it last.        *)
THEOREM IconsStayServed == Spec => []IconsServed
<1>1. FreshInv => IconsServed
  BY AtRest DEF FreshInv, PageInv, IconsServed
<1> QED
  BY <1>1, Freshness, PTL

(* As long as two pages are never marked as the start page at once, `/`    *)
(* serves what the one that is marked serves, wherever the mark moves, in  *)
(* whatever order the changed files are noted and read, and whether the    *)
(* builds succeed.                                                         *)
THEOREM IndexStaysCurrent == Spec => IndexFollowsStart
<1>1. Init => ManifestInv
  BY DEF Init, ManifestInv, ManifestIsTrue
<1>2. TypeOK /\ ManifestInv /\ [Next]_vars => ManifestInv'
  BY NextManifest
<1>3. TypeOK /\ ManifestInv /\ FreshInv /\ OneStart /\ StartInv /\ [Next]_vars => StartInv'
  BY NextFresh DEF KeepsIndex
<1>4. FreshInv /\ StartInv => IndexIsCurrent
  BY AtRest DEF StartInv, IndexInv, Resting, IndexIsCurrent
<1> QED
  BY <1>1, <1>2, <1>3, <1>4, InitFresh, Freshness, TypeCorrect, PTL DEF Spec, IndexFollowsStart
-----------------------------------------------------------------------------
(* Sites.                                                                  *)

(* What holds at 0 and, if it holds before a number, at that number, holds *)
(* up to a bound.                                                          *)
LEMMA UpTo ==
    ASSUME NEW N \in Nat, NEW P, 0 \in P, \A k \in 1 .. N : k - 1 \in P => k \in P
    PROVE  0 .. N \subseteq P
<1> SUFFICES ASSUME NEW j \in 0 .. N, j \notin P
             PROVE  FALSE
  OBVIOUS
<1> DEFINE T == {k \in Nat : k \in 0 .. N /\ k \notin P}
<1>1. PICK i \in T : \A k \in T : ~(<<k, i>> \in OpToRel(<, Nat))
  <2>1. T \subseteq Nat /\ j \in T
    OBVIOUS
  <2> HIDE DEF T
  <2> QED
    BY <2>1, NatLessThanWellFounded, WFMin
<1>2. i \in Nat /\ i \in 0 .. N /\ i \notin P /\ i # 0
  BY <1>1
<1>3. i \in 1 .. N /\ i - 1 \in Nat /\ i - 1 < i
  BY <1>2
<1>4. i - 1 \notin P
  BY <1>2, <1>3
<1>5. i - 1 \in T
  BY <1>2, <1>3, <1>4
<1>6. <<i - 1, i>> \in OpToRel(<, Nat)
  BY <1>2, <1>3 DEF OpToRel
<1> QED
  BY <1>1, <1>5, <1>6
-----------------------------------------------------------------------------
(* The sites of a document that agree, and their directories.              *)

IsList(s) == Len(s) \in Nat /\ DOMAIN s = 1 .. Len(s)
Dir(doc, i) ==
    SiteLayout(CollectSiteSpecs(doc)[i], Len(CollectSiteSpecs(doc)) > 1, RootSite(doc))

LEMMA ListsAre ==
    ASSUME NEW s, s \in Seq(Range(s))
    PROVE  IsList(s)
  BY DEF IsList

LEMMA AtIsAList ==
    ASSUME NEW s, IsList(s), NEW places \in SUBSET DOMAIN s
    PROVE  IsList(At(s, places))
<1>1. IsFiniteSet(DOMAIN s)
  BY FS_Interval DEF IsList
<1>2. Cardinality(places) \in Nat
  BY <1>1, FS_Subset, FS_CardinalityType
<1> DEFINE k == Cardinality(places)
           At0(n) == s[CHOOSE i \in places : Cardinality({j \in places : j <= i}) = n]
<1>3. At(s, places) = [n \in 1 .. k |-> At0(n)]
  BY DEF At
<1> HIDE DEF k, At0
<1>4. k \in Nat
  BY <1>2 DEF k
<1>5. DOMAIN At(s, places) = 1 .. k /\ Len(At(s, places)) = k
  BY <1>3, <1>4
<1> QED
  BY <1>4, <1>5 DEF IsList

LEMMA SpecsAreListed ==
    ASSUME NEW doc \in Documents \cup Revisions
    PROVE  /\ IsList(CollectSiteSpecs(doc)) /\ 1 \in DOMAIN CollectSiteSpecs(doc)
           /\ \A i \in DOMAIN CollectSiteSpecs(doc) : IsList(CollectSiteSpecs(doc)[i].pages)
<1>1. IsList(doc.sites) /\ IsList(doc.pages)
  BY DocumentsAssumption, ListsAre
<1>2. CASE doc.sites = <<>>
  <2> DEFINE w == WholeSite(doc)
  <2>1. CollectSiteSpecs(doc) = <<w>> /\ w.pages = doc.pages
    BY <1>2 DEF CollectSiteSpecs, WholeSite
  <2> HIDE DEF w
  <2> QED
    BY <1>1, <2>1 DEF IsList
<1>3. CASE doc.sites # <<>>
  <2> DEFINE made(i) == SiteSpec(doc, doc.sites[i])
             specs == [i \in DOMAIN doc.sites |-> made(i)]
  <2>1. CollectSiteSpecs(doc) = specs
    BY <1>3 DEF CollectSiteSpecs
  <2>2. \A i \in DOMAIN doc.sites : IsList(made(i).pages)
    BY <1>1, AtIsAList DEF SiteSpec
  <2> HIDE DEF made
  <2>3. IsList(specs) /\ 1 \in DOMAIN specs
    <3>1. doc.sites \in Seq(Range(doc.sites)) /\ doc.sites # <<>>
      BY <1>3, DocumentsAssumption
    <3>2. Len(doc.sites) # 0
      BY <3>1
    <3>3. DOMAIN specs = 1 .. Len(doc.sites) /\ Len(doc.sites) \in Nat
      BY <1>1 DEF IsList
    <3> HIDE DEF specs
    <3>4. Len(specs) = Len(doc.sites)
      BY <3>3
    <3>5. 1 \in DOMAIN specs
      BY <3>2, <3>3
    <3> QED
      BY <3>3, <3>4, <3>5 DEF IsList
  <2>4. \A i \in DOMAIN specs : IsList(specs[i].pages)
    BY <2>2
  <2> QED
    BY <2>1, <2>3, <2>4
<1> QED
  BY <1>2, <1>3

LEMMA RootHasNoName == RootDir # None
  BY Zenon DEF RootDir, None

(* With several sites each has a name of its own; without any the whole    *)
(* document is one that has none.                                          *)
LEMMA SpecsAreNamed ==
    ASSUME NEW doc \in Documents \cup Revisions, SitesAgree(doc)
    PROVE  LET specs == CollectSiteSpecs(doc)
               root == RootSite(doc)
           IN  /\ \A i, j \in DOMAIN specs : specs[i].name = specs[j].name => i = j
               /\ \A i \in DOMAIN specs : specs[i].name # RootDir
               /\ Len(specs) > 1 => /\ \A i \in DOMAIN specs : specs[i].name # None
                                    /\ root # None => \E i \in DOMAIN specs : specs[i].name = root
<1> DEFINE specs == CollectSiteSpecs(doc)
<1>1. IsList(doc.sites) /\ IsList(specs)
  BY DocumentsAssumption, ListsAre, SpecsAreListed
<1>2. CASE doc.sites = <<>>
  <2> DEFINE w == WholeSite(doc)
  <2>1. CollectSiteSpecs(doc) = <<w>> /\ w.name # RootDir
    BY <1>2, RootHasNoName DEF CollectSiteSpecs, WholeSite
  <2> HIDE DEF w
  <2> QED
    BY <2>1
<1>3. CASE doc.sites # <<>>
  <2>1. specs = [i \in DOMAIN doc.sites |-> SiteSpec(doc, doc.sites[i])]
    BY <1>3 DEF CollectSiteSpecs
  <2>2. /\ DOMAIN specs = DOMAIN doc.sites /\ Len(specs) = Len(doc.sites)
        /\ \A i \in DOMAIN doc.sites : specs[i].name = doc.sites[i].name
    <3>1. \A i \in DOMAIN doc.sites : SiteSpec(doc, doc.sites[i]).name = doc.sites[i].name
      BY DEF SiteSpec
    <3>2. DOMAIN specs = DOMAIN doc.sites
      BY <2>1
    <3> QED
      BY <1>1, <2>1, <3>1, <3>2 DEF IsList
  <2> HIDE DEF specs
  <2>5. \A i \in DOMAIN doc.sites : doc.sites[i].name # RootDir
    BY DocumentsAssumption DEF SiteNames
  <2>3. CASE Len(doc.sites) > 1
    <3>1. /\ None \notin SiteNames(doc)
          /\ \A i, j \in DOMAIN doc.sites : doc.sites[i].name = doc.sites[j].name => i = j
      BY <2>3 DEF SitesAgree
    <3>2. \A i \in DOMAIN doc.sites : doc.sites[i].name # None
      BY <3>1 DEF SiteNames
    <3>3. RootSite(doc) # None => \E i \in DOMAIN doc.sites : doc.sites[i].name = RootSite(doc)
      BY DEF RootSite
    <3> QED
      BY <2>2, <2>5, <3>1, <3>2, <3>3 DEF specs
  <2>4. CASE ~ Len(doc.sites) > 1
    <3>1. \A i, j \in DOMAIN doc.sites : i = j
      BY <1>1, <2>4 DEF IsList
    <3> QED
      BY <2>2, <2>4, <2>5, <3>1 DEF specs
  <2> QED
    BY <2>3, <2>4
<1> QED
  BY <1>2, <1>3

(* No two sites share a directory, and one beside others is at the root of *)
(* the directory only if it is the root site.                              *)
LEMMA DirectoriesDiffer ==
    ASSUME NEW doc \in Documents \cup Revisions, SitesAgree(doc)
    PROVE  LET specs == CollectSiteSpecs(doc)
               root == RootSite(doc)
           IN  /\ \A i, j \in DOMAIN specs : Dir(doc, i) = Dir(doc, j) => i = j
               /\ ~ Len(specs) > 1 => \A i \in DOMAIN specs : Dir(doc, i) = RootDir
               /\ Len(specs) > 1 /\ root = None =>
                      \A i \in DOMAIN specs : Dir(doc, i) = specs[i].name /\ Dir(doc, i) # RootDir
               /\ Len(specs) > 1 /\ root # None => \E i \in DOMAIN specs : Dir(doc, i) = RootDir
               /\ Len(specs) > 1 =>
                      \A i \in DOMAIN specs : Dir(doc, i) = SitePrefix(specs[i].name, root)
<1> DEFINE specs == CollectSiteSpecs(doc)
           root == RootSite(doc)
<1>1. IsList(specs)
  BY SpecsAreListed
<1>2. /\ \A i, j \in DOMAIN specs : specs[i].name = specs[j].name => i = j
      /\ \A i \in DOMAIN specs : specs[i].name # RootDir
      /\ Len(specs) > 1 => /\ \A i \in DOMAIN specs : specs[i].name # None
                           /\ root # None => \E i \in DOMAIN specs : specs[i].name = root
  BY SpecsAreNamed
<1>3. \A i \in DOMAIN specs :
          Dir(doc, i) = IF ~ Len(specs) > 1 \/ (root # None /\ specs[i].name = root)
                        THEN RootDir ELSE specs[i].name
  BY DEF Dir, SiteLayout
<1> HIDE DEF specs, root
<1>4. CASE Len(specs) > 1
  <2>1. \A i \in DOMAIN specs : Dir(doc, i) = SitePrefix(specs[i].name, root)
    BY <1>2, <1>3, <1>4 DEF SitePrefix
  <2>2. \A i, j \in DOMAIN specs : Dir(doc, i) = Dir(doc, j) => i = j
    BY <1>2, <1>3, <1>4
  <2>3. root # None => \E i \in DOMAIN specs : Dir(doc, i) = RootDir
    BY <1>2, <1>3, <1>4
  <2>4. root = None => \A i \in DOMAIN specs : Dir(doc, i) = specs[i].name /\ Dir(doc, i) # RootDir
    BY <1>2, <1>3, <1>4
  <2> QED
    BY <1>4, <2>1, <2>2, <2>3, <2>4 DEF specs, root
<1>5. CASE ~ Len(specs) > 1
  <2>1. \A i, j \in DOMAIN specs : i = j
    BY <1>1, <1>5 DEF IsList
  <2> QED
    BY <1>3, <1>5, <2>1 DEF specs, root
<1> QED
  BY <1>4, <1>5
-----------------------------------------------------------------------------
(* A link that is resolved leads, from the directory of its site, to where *)
(* the page it names belongs.                                              *)
LeadsOut(doc, i, link) ==
    LET specs == CollectSiteSpecs(doc)
    IN  /\ link.to # Home
        /\ \E j \in DOMAIN specs :
              /\ specs[j].name = IF link.to.site = None THEN specs[i].name ELSE link.to.site
              /\ Lands(Dir(doc, i), link.address) = <<Dir(doc, j), link.to.page>>

LEMMA StaysInside ==
    ASSUME NEW directory, NEW page
    PROVE  Lands(directory, Address(0, RootDir, page)) = <<directory, page>>
  BY DEF Lands, Address

LEMMA ResolvedLinksLead ==
    ASSUME NEW doc \in Documents \cup Revisions, SitesAgree(doc),
           NEW i \in DOMAIN CollectSiteSpecs(doc), NEW to,
           ResolveHref(doc, CollectSiteSpecs(doc)[i], Dir(doc, i), RootSite(doc), to) # Broken
    PROVE  LeadsOut(doc, i, Link(to, ResolveHref(doc, CollectSiteSpecs(doc)[i], Dir(doc, i),
                                                 RootSite(doc), to)))
<1> DEFINE specs == CollectSiteSpecs(doc)
           address == ResolveHref(doc, specs[i], Dir(doc, i), RootSite(doc), to)
           link == Link(to, address)
<1>1. link.to = to /\ link.address = address
  BY DEF Link
<1>2. CASE to.site = None
  <2>1. address = Address(0, RootDir, to.page)
    BY <1>2 DEF ResolveHref
  <2>2. to # Home
    BY <1>2, RootHasNoName DEF Home
  <2>3. Lands(Dir(doc, i), address) = <<Dir(doc, i), to.page>>
    BY <2>1, StaysInside
  <2> HIDE DEF address, link
  <2> QED
    BY <1>1, <1>2, <2>2, <2>3 DEF LeadsOut, link, address
<1>3. CASE to.site # None
  <2>1. PICK s \in Range(specs) : s.name = to.site
    BY <1>3 DEF ResolveHref
  <2>2. PICK j \in DOMAIN specs : specs[j].name = to.site
    BY <2>1 DEF Range
  <2>3. to # Home
    <3>1. to.site # RootDir
      BY <2>2, SpecsAreNamed
    <3> QED
      BY <3>1 DEF Home
  <2>4. Lands(Dir(doc, i), address) = <<Dir(doc, j), to.page>>
    <3>1. CASE to.site = specs[i].name
      <4>1. j = i
        BY <2>2, <3>1, SpecsAreNamed
      <4>2. address = Address(0, RootDir, to.page)
        BY <1>3, <3>1 DEF ResolveHref
      <4> QED
        BY <4>1, <4>2, StaysInside
    <3>2. CASE to.site # specs[i].name
      <4>1. i # j
        BY <2>2, <3>2
      <4>2. IsList(specs)
        BY SpecsAreListed
      <4>3. Len(specs) > 1
        BY <4>1, <4>2 DEF IsList
      <4>4. Dir(doc, j) = SitePrefix(to.site, RootSite(doc))
        BY <2>2, <4>3, DirectoriesDiffer
      <4>5. address = Address(IF Dir(doc, i) = RootDir THEN 0 ELSE 1,
                              SitePrefix(to.site, RootSite(doc)), to.page)
        BY <1>3, <3>2 DEF ResolveHref
      <4> QED
        BY <4>4, <4>5 DEF Lands, Address
    <3> QED
      BY <3>1, <3>2
  <2> HIDE DEF address, link
  <2> QED
    BY <1>1, <1>3, <2>2, <2>3, <2>4 DEF LeadsOut, link, address
<1> QED
  BY <1>2, <1>3
-----------------------------------------------------------------------------
(* What a build writes for one site.  It only adds to what is there, in    *)
(* the directory of the site.                                              *)
SpecAt(doc, i) == CollectSiteSpecs(doc)[i]

Grown(doc, i, s, t) ==
    /\ s.ok /\ t.ok
    /\ s.written \subseteq t.written
    /\ DOMAIN t.files = DOMAIN s.files \cup t.written
    /\ \A p \in t.written \ s.written : p[1] = Dir(doc, i)
    /\ \A p \in DOMAIN s.files : p[1] # Dir(doc, i) => t.files[p] = s.files[p]

LEMMA GrownFurther ==
    ASSUME NEW doc, NEW i, NEW s, NEW t, NEW u, Grown(doc, i, s, t), Grown(doc, i, t, u)
    PROVE  Grown(doc, i, s, u)
  BY DEF Grown

LEMMA PutAdds ==
    ASSUME NEW s, NEW path, NEW file
    PROVE  LET t == Put(s, path, file)
           IN  /\ t.ok <=> s.ok
               /\ t.written = s.written \cup {path}
               /\ DOMAIN t.files = DOMAIN s.files \cup {path}
               /\ t.files[path] = file
               /\ \A p \in DOMAIN s.files : p # path => t.files[p] = s.files[p]
  BY DEF Put

LEMMA PutGrows ==
    ASSUME NEW doc, NEW i, NEW s, NEW name, NEW file, s.ok, s.written \subseteq DOMAIN s.files
    PROVE  Grown(doc, i, s, Put(s, <<Dir(doc, i), name>>, file))
<1> DEFINE path == <<Dir(doc, i), name>>
           t == Put(s, path, file)
<1>2. path[1] = Dir(doc, i)
  OBVIOUS
<1> HIDE DEF path
<1>1. /\ t.ok /\ t.written = s.written \cup {path}
      /\ DOMAIN t.files = DOMAIN s.files \cup {path}
      /\ \A p \in DOMAIN s.files : p # path => t.files[p] = s.files[p]
  BY PutAdds
<1> HIDE DEF t
<1>3. Grown(doc, i, s, t)
  BY <1>1, <1>2 DEF Grown
<1> QED
  BY <1>3 DEF path, t

\* What the file of a page of a site says, before its links are looked at.
IsPageLink(doc, i, link) ==
    \/ link \in FrameLinks(Dir(doc, i))
    \/ \E to : link = Link(to, ResolveHref(doc, SpecAt(doc, i), Dir(doc, i), RootSite(doc), to))
IsPageFile(doc, i, file) ==
    file.from[1] = SpecAt(doc, i).name /\ \A link \in file.links : IsPageLink(doc, i, link)

PlacedOn(doc, i, k) ==
    LET page == SpecAt(doc, i).pages[k]
    IN  Place(page.items, TemplateOf(page, SpecAt(doc, i)).name, SpecAt(doc, i))
IsOfPage(doc, i, k, path, t) ==
    /\ path \in t.written
    /\ t.files[path].from = <<SpecAt(doc, i).name, SpecAt(doc, i).pages[k].name>>
    /\ t.files[path].placed = PlacedOn(doc, i, k)
HasPages(doc, i, n, t) ==
    \A k \in 1 .. n : IsOfPage(doc, i, k, <<Dir(doc, i), SpecAt(doc, i).pages[k].name>>, t)
HasPageFiles(doc, i, t) ==
    \A p \in t.written : p[1] = Dir(doc, i) => IsPageFile(doc, i, t.files[p])

\* The directory of a site before the build comes to it.
Ready(doc, i, s) ==
    /\ s.ok /\ s.written \subseteq DOMAIN s.files
    /\ \A p \in s.written : p[1] # Dir(doc, i)

LEMMA PageFilesAreSo ==
    ASSUME NEW doc, NEW i, NEW links, NEW from, NEW placed, from[1] = SpecAt(doc, i).name
    PROVE  IsPageFile(doc, i,
                      File(from, LinksOf(doc, SpecAt(doc, i), Dir(doc, i), RootSite(doc), links)
                                     \cup FrameLinks(Dir(doc, i)), placed))
<1> DEFINE Resolved(to) == ResolveHref(doc, SpecAt(doc, i), Dir(doc, i), RootSite(doc), to)
           known == {Link(to, Resolved(to)) : to \in links}
           file == File(from, known \cup FrameLinks(Dir(doc, i)), placed)
<1>1. file.from = from /\ file.links = known \cup FrameLinks(Dir(doc, i))
  BY DEF File
<1>2. \A link \in known : IsPageLink(doc, i, link)
  BY DEF IsPageLink
<1>3. \A link \in FrameLinks(Dir(doc, i)) : IsPageLink(doc, i, link)
  BY DEF IsPageLink
<1> HIDE DEF known, file
<1>4. IsPageFile(doc, i, file)
  BY <1>1, <1>2, <1>3 DEF IsPageFile
<1> QED
  BY <1>4 DEF LinksOf, file, known

LEMMA PageIsAdded ==
    ASSUME NEW doc \in Documents \cup Revisions, NEW i \in DOMAIN CollectSiteSpecs(doc),
           NEW s, Ready(doc, i, s), NEW t, Grown(doc, i, s, t), HasPageFiles(doc, i, t),
           NamesDiffer(SpecAt(doc, i).pages),
           NEW n \in 1 .. Len(SpecAt(doc, i).pages), HasPages(doc, i, n - 1, t),
           NEW u,
           u = BuildNormalPage(doc, SpecAt(doc, i), Dir(doc, i), RootSite(doc), t,
                               SpecAt(doc, i).pages[n]),
           u.ok
    PROVE  Grown(doc, i, s, u) /\ HasPageFiles(doc, i, u) /\ HasPages(doc, i, n, u)
<1> DEFINE spec == SpecAt(doc, i)
           d == Dir(doc, i)
           page == spec.pages[n]
           template == TemplateOf(page, spec).name
           path == <<d, page.name>>
           from == <<spec.name, page.name>>
           file == File(from, LinksOf(doc, spec, d, RootSite(doc), page.links) \cup FrameLinks(d),
                        Place(page.items, template, spec))
<1>1. u = Put(t, path, file)
  <2>1. u = IF template # None /\ template \notin DOMAIN Layouts THEN Abandoned(t)
            ELSE Put(t, path, file)
    BY DEF BuildNormalPage
  <2>2. ~ Abandoned(t).ok
    BY DEF Abandoned
  <2> HIDE DEF template, path, file
  <2> QED
    BY <2>1, <2>2
<1>2. IsPageFile(doc, i, file) /\ file.from = from /\ file.placed = PlacedOn(doc, i, n)
  <2>1. from[1] = spec.name
    OBVIOUS
  <2>2. file.from = from /\ file.placed = PlacedOn(doc, i, n)
    BY DEF File, PlacedOn
  <2> HIDE DEF from, template
  <2> QED
    BY <2>1, <2>2, PageFilesAreSo
<1>3. t.ok /\ t.written \subseteq DOMAIN t.files
  BY DEF Grown
<1> HIDE DEF file
<1>4. Grown(doc, i, t, u)
  BY <1>1, <1>3, PutGrows
<1>5. Grown(doc, i, s, u)
  BY <1>4, GrownFurther
<1>6. /\ u.written = t.written \cup {path} /\ u.files[path] = file
      /\ \A p \in DOMAIN t.files : p # path => u.files[p] = t.files[p]
  BY <1>1, PutAdds
<1>7. HasPageFiles(doc, i, u)
  <2> SUFFICES ASSUME NEW p \in u.written, p[1] = d
               PROVE  IsPageFile(doc, i, u.files[p])
    BY DEF HasPageFiles
  <2>1. CASE p = path
    BY <1>2, <1>6, <2>1
  <2>2. CASE p # path
    <3>1. p \in t.written
      BY <1>6, <2>2
    <3> HIDE DEF path
    <3> QED
      BY <1>3, <1>6, <2>2, <3>1 DEF HasPageFiles
  <2> QED
    BY <2>1, <2>2
<1>8. HasPages(doc, i, n, u)
  <2>1. IsList(spec.pages)
    BY SpecsAreListed DEF SpecAt
  <2> SUFFICES ASSUME NEW k \in 1 .. n
               PROVE  IsOfPage(doc, i, k, <<d, spec.pages[k].name>>, u)
    BY DEF HasPages
  <2>2. CASE k = n
    BY <1>2, <1>6, <2>2 DEF IsOfPage
  <2>3. CASE k # n
    <3>1. k \in 1 .. n - 1 /\ k \in DOMAIN spec.pages /\ n \in DOMAIN spec.pages
      BY <2>1, <2>3 DEF IsList
    <3>2. spec.pages[k].name # page.name
      BY <2>3, <3>1 DEF NamesDiffer
    <3> DEFINE other == <<d, spec.pages[k].name>>
    <3>3. other # path
      BY <3>2
    <3>4. IsOfPage(doc, i, k, other, t)
      BY <3>1 DEF HasPages
    <3> HIDE DEF other, path
    <3>5. other \in u.written /\ u.files[other] = t.files[other]
      BY <1>3, <1>6, <3>3, <3>4 DEF IsOfPage
    <3>6. IsOfPage(doc, i, k, other, u)
      BY <3>4, <3>5 DEF IsOfPage
    <3> QED
      BY <3>6 DEF other
  <2> QED
    BY <2>2, <2>3
<1> QED
  BY <1>5, <1>7, <1>8

(* The pages of a site are built one after the other.                      *)
PageAfter(doc, i, n, t) ==
    BuildNormalPage(doc, SpecAt(doc, i), Dir(doc, i), RootSite(doc), t, SpecAt(doc, i).pages[n])

LEMMA PagesInTurn ==
    ASSUME NEW doc, NEW i, NEW s, IsList(SpecAt(doc, i).pages)
    PROVE  \E f :
             LET N == Len(SpecAt(doc, i).pages)
             IN  /\ f[0] = s
                 /\ \A n \in 1 .. N :
                        f[n] = IF ~f[n - 1].ok THEN f[n - 1] ELSE PageAfter(doc, i, n, f[n - 1])
                 /\ BuildPages(doc, SpecAt(doc, i), Dir(doc, i), RootSite(doc), s) = f[N]
<1> DEFINE N == Len(SpecAt(doc, i).pages)
           After(f, n) == IF ~f[n - 1].ok THEN f[n - 1] ELSE PageAfter(doc, i, n, f[n - 1])
           Value(f, n) == IF n = 0 THEN s ELSE After(f, n)
           P == {m \in Nat : \E f : f = [n \in 0 .. m |-> Value(f, n)]}
           built == CHOOSE f : f = [n \in 0 .. N |-> Value(f, n)]
<1>1. N \in Nat
  BY DEF IsList
<1>2. BuildPages(doc, SpecAt(doc, i), Dir(doc, i), RootSite(doc), s) = built[N]
  BY Zenon DEF BuildPages, PageAfter
<1> HIDE DEF N
<1>3. 0 \in P
  <2> DEFINE g == [n \in 0 .. 0 |-> s]
  <2>1. g = [n \in 0 .. 0 |-> Value(g, n)]
    OBVIOUS
  <2> HIDE DEF g, Value
  <2> QED
    BY <2>1
<1>4. ASSUME NEW m \in 1 .. N, m - 1 \in P
      PROVE  m \in P
  <2>1. PICK f : f = [n \in 0 .. m - 1 |-> Value(f, n)]
    BY <1>4
  <2> DEFINE g == [n \in 0 .. m |-> IF n = m THEN After(f, m) ELSE f[n]]
  <2>2. \A n \in 0 .. m - 1 : g[n] = f[n]
    BY <1>1
  <2>3. ASSUME NEW n \in 0 .. m
        PROVE  g[n] = Value(g, n)
    <3>1. CASE n = 0
      <4>1. g[0] = f[0] /\ f[0] = s
        BY <1>1, <2>1, <2>2
      <4> QED
        BY <3>1, <4>1
    <3>2. CASE n # 0
      <4>1. g[n - 1] = f[n - 1]
        BY <1>1, <2>2, <3>2
      <4>2. After(g, n) = After(f, n)
        BY <4>1
      <4>3. g[n] = After(f, n)
        <5>1. CASE n = m
          BY <5>1
        <5>2. CASE n # m
          <6>1. n \in 0 .. m - 1
            BY <1>1, <5>2
          <6> HIDE DEF After
          <6> QED
            BY <2>1, <2>2, <3>2, <6>1
        <5> QED
          BY <5>1, <5>2
      <4> HIDE DEF After, g
      <4> QED
        BY <3>2, <4>2, <4>3
    <3> QED
      BY <3>1, <3>2
  <2>4. g = [n \in 0 .. m |-> g[n]]
    OBVIOUS
  <2> HIDE DEF g, Value
  <2>5. g = [n \in 0 .. m |-> Value(g, n)]
    BY <2>3, <2>4
  <2> QED
    BY <2>5
<1>5. N \in P
  <2> HIDE DEF P
  <2> QED
    BY <1>1, <1>3, <1>4, UpTo
<1>6. PICK f : f = [n \in 0 .. N |-> Value(f, n)]
  BY <1>5
<1>7. built = [n \in 0 .. N |-> Value(built, n)]
  BY <1>6, Zenon
<1> HIDE DEF built, After
<1>8. built[0] = s /\ \A n \in 1 .. N : built[n] = After(built, n)
  BY <1>1, <1>7
<1> QED
  BY <1>2, <1>8 DEF After, N

LEMMA PagesAreWritten ==
    ASSUME NEW doc \in Documents \cup Revisions, NEW i \in DOMAIN CollectSiteSpecs(doc),
           NEW s, Ready(doc, i, s), NamesDiffer(SpecAt(doc, i).pages),
           NEW t, t = BuildPages(doc, SpecAt(doc, i), Dir(doc, i), RootSite(doc), s), t.ok
    PROVE  /\ Grown(doc, i, s, t) /\ HasPageFiles(doc, i, t)
           /\ HasPages(doc, i, Len(SpecAt(doc, i).pages), t)
<1> DEFINE N == Len(SpecAt(doc, i).pages)
<1>1. IsList(SpecAt(doc, i).pages)
  BY SpecsAreListed DEF SpecAt
<1>2. PICK f : /\ f[0] = s
               /\ \A n \in 1 .. N :
                      f[n] = IF ~f[n - 1].ok THEN f[n - 1] ELSE PageAfter(doc, i, n, f[n - 1])
               /\ BuildPages(doc, SpecAt(doc, i), Dir(doc, i), RootSite(doc), s) = f[N]
  BY <1>1, PagesInTurn
<1> DEFINE Good(n) == Grown(doc, i, s, f[n]) /\ HasPageFiles(doc, i, f[n]) /\ HasPages(doc, i, n, f[n])
           P == {n \in Nat : f[n].ok => Good(n)}
<1>3. N \in Nat
  BY <1>1 DEF IsList
<1>4. 0 \in P
  <2>1. Grown(doc, i, s, s)
    BY DEF Ready, Grown
  <2>2. HasPageFiles(doc, i, s) /\ HasPages(doc, i, 0, s)
    BY DEF Ready, HasPageFiles, HasPages
  <2> QED
    BY <1>2, <2>1, <2>2
<1>5. ASSUME NEW n \in 1 .. N, n - 1 \in P
      PROVE  n \in P
  <2> SUFFICES ASSUME f[n].ok
               PROVE  Good(n)
    BY <1>3
  <2>1. f[n - 1].ok /\ f[n] = PageAfter(doc, i, n, f[n - 1])
    BY <1>2
  <2>2. Good(n - 1)
    BY <1>5, <2>1
  <2> QED
    BY <2>1, <2>2, PageIsAdded DEF PageAfter
<1>6. N \in P
  <2> HIDE DEF P, N
  <2> QED
    BY <1>3, <1>4, <1>5, UpTo
<1> QED
  BY <1>2, <1>6

\* The index of a collection has its members.
IndexAt(doc, i) == <<Dir(doc, i), "index">>
MembersOf(doc, i) ==
    LET spec == SpecAt(doc, i)
    IN  [k \in DOMAIN spec.pages |-> PlaceMember(spec.pages[k].items, Repeated(Slots(spec.template)))]
HasMembers(doc, i, t) ==
    IndexAt(doc, i) \in t.written /\ t.files[IndexAt(doc, i)].placed = MembersOf(doc, i)

LEMMA CollectionIsWritten ==
    ASSUME NEW doc, NEW i, NEW s, Ready(doc, i, s),
           NEW t, t = BuildCollectionPage(doc, SpecAt(doc, i), Dir(doc, i), RootSite(doc), s)
    PROVE  Grown(doc, i, s, t) /\ HasPageFiles(doc, i, t) /\ HasMembers(doc, i, t)
<1> DEFINE spec == SpecAt(doc, i)
           d == Dir(doc, i)
           links == UNION {spec.pages[k].links : k \in DOMAIN spec.pages}
           members == [k \in DOMAIN spec.pages |->
                          PlaceMember(spec.pages[k].items, Repeated(Slots(spec.template)))]
           from == <<spec.name, None>>
           file == File(from, LinksOf(doc, spec, d, RootSite(doc), links) \cup FrameLinks(d), members)
           path == <<d, "index">>
<1>1. t = Put(s, path, file)
  BY DEF BuildCollectionPage
<1>6. file.placed = MembersOf(doc, i)
  BY DEF File, MembersOf
<1>2. IsPageFile(doc, i, file)
  <2>1. from[1] = spec.name
    OBVIOUS
  <2> HIDE DEF from, members, links
  <2> QED
    BY <2>1, PageFilesAreSo
<1> HIDE DEF file
<1>3. Grown(doc, i, s, t)
  BY <1>1, PutGrows DEF Ready
<1>4. t.written = s.written \cup {path} /\ t.files[path] = file
  BY <1>1, PutAdds
<1>5. HasPageFiles(doc, i, t)
  BY <1>2, <1>4 DEF HasPageFiles, Ready
<1>7. HasMembers(doc, i, t)
  BY <1>4, <1>6 DEF HasMembers, IndexAt
<1> QED
  BY <1>3, <1>5, <1>7

(* A site whose pages are all out, none of them with a broken link.        *)
LeadsAway(doc, i, link) == link \in FrameLinks(Dir(doc, i)) \/ LeadsOut(doc, i, link)
IsSound(doc, i, file) ==
    file.from[1] = SpecAt(doc, i).name /\ \A link \in file.links : LeadsAway(doc, i, link)
AllSound(doc, i, t) == \A p \in t.written : p[1] = Dir(doc, i) => IsSound(doc, i, t.files[p])

LEMMA SiteIsBuilt ==
    ASSUME NEW doc \in Documents \cup Revisions, SitesAgree(doc),
           NEW i \in DOMAIN CollectSiteSpecs(doc), NEW s, Ready(doc, i, s),
           NEW t, t = BuildSite(doc, SpecAt(doc, i), Dir(doc, i), RootSite(doc), s), t.ok
    PROVE  /\ Grown(doc, i, s, t) /\ AllSound(doc, i, t) /\ NamesDiffer(SpecAt(doc, i).pages)
           /\ ValidateSlotContracts(SpecAt(doc, i))
           /\ IF IsCollection(SpecAt(doc, i).template) THEN HasMembers(doc, i, t)
              ELSE HasPages(doc, i, Len(SpecAt(doc, i).pages), t)
<1> DEFINE spec == SpecAt(doc, i)
           d == Dir(doc, i)
           built == IF IsCollection(spec.template)
                    THEN BuildCollectionPage(doc, spec, d, RootSite(doc), s)
                    ELSE BuildPages(doc, spec, d, RootSite(doc), s)
<1>1. /\ t = built /\ ValidateSlotContracts(spec) /\ NamesDiffer(spec.pages)
      /\ ~ HasBrokenLink(spec, t)
  <2>1. \A x : ~ Abandoned(x).ok
    BY DEF Abandoned
  <2>2. t = IF ~ValidateSlotContracts(spec) \/ ~NamesDiffer(spec.pages) THEN Abandoned(s)
            ELSE IF built.ok /\ HasBrokenLink(spec, built) THEN Abandoned(built) ELSE built
    BY DEF BuildSite, CheckLinks
  <2> HIDE DEF built, spec
  <2> QED
    BY <2>1, <2>2
<1>2. /\ Grown(doc, i, s, t) /\ HasPageFiles(doc, i, t)
      /\ IF IsCollection(spec.template) THEN HasMembers(doc, i, t)
         ELSE HasPages(doc, i, Len(spec.pages), t)
  <2>1. CASE IsCollection(spec.template)
    BY <1>1, <2>1, CollectionIsWritten
  <2>2. CASE ~ IsCollection(spec.template)
    BY <1>1, <2>2, PagesAreWritten
  <2> QED
    BY <2>1, <2>2
<1>3. ASSUME NEW p \in t.written, p[1] = d
      PROVE  IsSound(doc, i, t.files[p])
  <2>1. IsPageFile(doc, i, t.files[p])
    BY <1>2, <1>3 DEF HasPageFiles
  <2>2. \A link \in t.files[p].links : link.address # Broken
    BY <1>1, <2>1 DEF HasBrokenLink, IsPageFile
  <2>3. ASSUME NEW link \in t.files[p].links
        PROVE  LeadsAway(doc, i, link)
    <3>1. CASE link \in FrameLinks(d)
      BY <3>1 DEF LeadsAway
    <3>2. CASE link \notin FrameLinks(d)
      <4>1. PICK to : link = Link(to, ResolveHref(doc, spec, d, RootSite(doc), to))
        BY <2>1, <3>2 DEF IsPageFile, IsPageLink
      <4>2. ResolveHref(doc, spec, d, RootSite(doc), to) # Broken
        BY <2>2, <4>1 DEF Link
      <4> QED
        BY <4>1, <4>2, ResolvedLinksLead DEF LeadsAway, SpecAt
    <3> QED
      BY <3>1, <3>2
  <2> QED
    BY <2>1, <2>3 DEF IsSound, IsPageFile
<1>4. AllSound(doc, i, t)
  BY <1>3 DEF AllSound
<1> QED
  BY <1>1, <1>2, <1>4

(* A site that is done: its pages, its landing page and its links.         *)
IsWhole(doc, i, t) ==
    LET pages == SpecAt(doc, i).pages
        starts == StartsOf(SpecAt(doc, i))
    IN  /\ NamesDiffer(pages)
        /\ \A k \in DOMAIN pages : pages[k].name # "index" \/ starts \subseteq {k} =>
               IsOfPage(doc, i, k, <<Dir(doc, i), pages[k].name>>, t)
        /\ \A k \in starts : IsOfPage(doc, i, k, IndexAt(doc, i), t)
IsClean(doc, i, t) ==
    \A p \in t.written : p[1] = Dir(doc, i) =>
        \/ IsSound(doc, i, t.files[p])
        \/ IsOverwritten(SpecAt(doc, i)) /\ p = IndexAt(doc, i)
IsEntered(doc, i, t) ==
    Len(CollectSiteSpecs(doc)) > 1 /\ SpecAt(doc, i).pages # <<>> => IndexAt(doc, i) \in DOMAIN t.files
HasAll(doc, i, t) ==
    IF IsCollection(SpecAt(doc, i).template)
    THEN IsOverwritten(SpecAt(doc, i)) \/ HasMembers(doc, i, t)
    ELSE IsWhole(doc, i, t)
IsDone(doc, i, t) ==
    /\ ValidateSlotContracts(SpecAt(doc, i))
    /\ HasAll(doc, i, t) /\ IsClean(doc, i, t) /\ IsEntered(doc, i, t)

LEMMA StartIsCopied ==
    ASSUME NEW doc \in Documents \cup Revisions, NEW i \in DOMAIN CollectSiteSpecs(doc),
           NEW s, Grown(doc, i, s, s), AllSound(doc, i, s), NamesDiffer(SpecAt(doc, i).pages),
           IF IsCollection(SpecAt(doc, i).template) THEN HasMembers(doc, i, s)
           ELSE HasPages(doc, i, Len(SpecAt(doc, i).pages), s),
           NEW t, t = CopyStart(SpecAt(doc, i), Dir(doc, i), s), t.ok
    PROVE  Grown(doc, i, s, t) /\ IsClean(doc, i, t) /\ HasAll(doc, i, t)
<1> DEFINE spec == SpecAt(doc, i)
           d == Dir(doc, i)
           starts == StartsOf(spec)
           k0 == CHOOSE k \in starts : TRUE
           start == spec.pages[k0].name
           from == <<d, start>>
           landing == <<d, "index">>
<1>1. /\ \A k, m \in starts : k = m
      /\ IF starts = {} \/ start = "index" THEN t = s
         ELSE from \in DOMAIN s.files /\ t = Put(s, landing, s.files[from])
  <2>1. \A x : ~ Abandoned(x).ok
    BY DEF Abandoned
  <2>2. t = IF \E k, m \in starts : k # m THEN Abandoned(s)
            ELSE IF starts = {} \/ start = "index" THEN s
            ELSE IF from \notin DOMAIN s.files THEN Abandoned(s)
            ELSE Put(s, landing, s.files[from])
    BY DEF CopyStart, Grown
  <2> HIDE DEF starts, start, from, landing
  <2> QED
    BY <2>1, <2>2
<1>2. IsList(spec.pages) /\ starts \subseteq DOMAIN spec.pages
  BY SpecsAreListed DEF SpecAt, StartsOf
<1>3. ASSUME ~ IsCollection(spec.template), NEW k \in DOMAIN spec.pages
      PROVE  IsOfPage(doc, i, k, <<d, spec.pages[k].name>>, s)
  BY <1>2, <1>3 DEF HasPages, IsList
<1>4. CASE starts = {} \/ start = "index"
  <2>1. t = s
    BY <1>1, <1>4
  <2>2. IsClean(doc, i, t)
    BY <2>1 DEF AllSound, IsClean
  <2>3. ASSUME ~ IsCollection(spec.template)
        PROVE  IsWhole(doc, i, t)
    <3>1. ASSUME NEW k \in starts
          PROVE  IsOfPage(doc, i, k, IndexAt(doc, i), t)
      <4>1. k = k0 /\ spec.pages[k].name = "index" /\ k \in DOMAIN spec.pages
        BY <1>1, <1>2, <1>4
      <4> QED
        BY <1>3, <2>1, <2>3, <4>1 DEF IndexAt
    <3> QED
      BY <1>3, <2>1, <2>3, <3>1 DEF IsWhole
  <2> QED
    BY <2>1, <2>2, <2>3 DEF HasAll
<1>5. CASE ~ (starts = {} \/ start = "index")
  <2>1. from \in DOMAIN s.files /\ t = Put(s, landing, s.files[from])
    BY <1>1, <1>5
  <2>2. s.ok /\ s.written \subseteq DOMAIN s.files
    BY DEF Grown
  <2>3. Grown(doc, i, s, t)
    BY <2>1, <2>2, PutGrows
  <2>4. /\ t.written = s.written \cup {landing} /\ t.files[landing] = s.files[from]
        /\ \A p \in DOMAIN s.files : p # landing => t.files[p] = s.files[p]
    BY <2>1, PutAdds
  <2>5. k0 \in starts /\ k0 \in DOMAIN spec.pages
    BY <1>2, <1>5
  <2>6. IsClean(doc, i, t)
    <3> SUFFICES ASSUME NEW p \in t.written, p[1] = d, ~ IsSound(doc, i, t.files[p])
                 PROVE  IsOverwritten(spec) /\ p = landing
      BY DEF IsClean, IndexAt
    <3>1. p = landing
      <4>1. CASE p # landing
        <5>1. p \in s.written /\ t.files[p] = s.files[p]
          BY <2>2, <2>4, <4>1
        <5> QED
          BY <5>1 DEF AllSound
      <4> QED
        BY <4>1
    <3>2. IsOverwritten(spec)
      <4>1. CASE ~ IsCollection(spec.template)
        <5>1. from \in s.written
          BY <1>3, <2>5, <4>1 DEF IsOfPage
        <5>2. from[1] = d
          OBVIOUS
        <5> HIDE DEF from, landing
        <5>3. IsSound(doc, i, s.files[from])
          BY <5>1, <5>2 DEF AllSound
        <5> QED
          BY <2>4, <3>1, <5>3
      <4>2. CASE IsCollection(spec.template)
        BY <1>5, <2>5, <4>2 DEF IsOverwritten
      <4> QED
        BY <4>1, <4>2
    <3> QED
      BY <3>1, <3>2
  <2>7. ASSUME ~ IsCollection(spec.template)
        PROVE  IsWhole(doc, i, t)
    <3>1. ASSUME NEW k \in starts
          PROVE  IsOfPage(doc, i, k, IndexAt(doc, i), t)
      <4>1. k = k0
        BY <1>1, <2>5
      <4>2. IsOfPage(doc, i, k, from, s)
        BY <1>3, <2>5, <2>7, <4>1
      <4> HIDE DEF from
      <4> QED
        BY <2>4, <4>2 DEF IsOfPage, IndexAt
    <3>2. ASSUME NEW k \in DOMAIN spec.pages, spec.pages[k].name # "index" \/ starts \subseteq {k}
          PROVE  IsOfPage(doc, i, k, <<d, spec.pages[k].name>>, t)
      <4>1. spec.pages[k].name # "index"
        BY <1>5, <2>5, <3>2
      <4> DEFINE path == <<d, spec.pages[k].name>>
      <4>2. path # landing
        BY <4>1
      <4>3. IsOfPage(doc, i, k, path, s)
        BY <1>3, <2>7
      <4> HIDE DEF path, landing
      <4>4. path \in t.written /\ t.files[path] = s.files[path]
        BY <2>2, <2>4, <4>2, <4>3 DEF IsOfPage
      <4>5. IsOfPage(doc, i, k, path, t)
        BY <4>3, <4>4 DEF IsOfPage
      <4> QED
        BY <4>5 DEF path
    <3> QED
      BY <3>1, <3>2 DEF IsWhole
  <2>8. ASSUME IsCollection(spec.template)
        PROVE  IsOverwritten(spec)
    BY <1>5, <2>5, <2>8 DEF IsOverwritten
  <2> QED
    BY <2>3, <2>6, <2>7, <2>8 DEF HasAll
<1> QED
  BY <1>4, <1>5

LEMMA IndexIsEnsured ==
    ASSUME NEW doc \in Documents \cup Revisions, NEW i \in DOMAIN CollectSiteSpecs(doc),
           NEW s, Grown(doc, i, s, s), IsClean(doc, i, s), HasAll(doc, i, s),
           ValidateSlotContracts(SpecAt(doc, i)),
           NEW t, t = EnsureSiteIndex(SpecAt(doc, i), Dir(doc, i), Len(CollectSiteSpecs(doc)) > 1, s)
    PROVE  Grown(doc, i, s, t) /\ IsDone(doc, i, t)
<1> DEFINE spec == SpecAt(doc, i)
           d == Dir(doc, i)
           landing == <<d, "index">>
           to == [site |-> None, page |-> spec.pages[1].name]
           link == Link(to, Address(0, RootDir, to.page))
           file == File(<<spec.name, None>>, {link}, <<>>)
           isThere == \/ ~ (Len(CollectSiteSpecs(doc)) > 1)
                      \/ landing \in DOMAIN s.files \/ spec.pages = <<>>
<1>1. t = IF isThere THEN s ELSE Put(s, landing, file)
  BY DEF EnsureSiteIndex, Grown
<1>2. CASE isThere
  <2>1. t = s
    BY <1>1, <1>2
  <2>2. IsEntered(doc, i, t)
    BY <1>2, <2>1 DEF IsEntered, IndexAt
  <2> QED
    BY <2>1, <2>2 DEF IsDone
<1>3. CASE ~ isThere
  <2>1. IsSound(doc, i, file)
    <3>1. file.from[1] = spec.name /\ file.links = {link}
      BY DEF File
    <3>2. LeadsOut(doc, i, link)
      <4>1. link.to = to /\ link.address = Address(0, RootDir, to.page)
        BY DEF Link
      <4>2. to # Home /\ to.site = None
        BY RootHasNoName DEF Home
      <4>3. Lands(d, link.address) = <<d, to.page>>
        BY <4>1, StaysInside
      <4> HIDE DEF link, to
      <4> QED
        BY <4>1, <4>2, <4>3 DEF LeadsOut, SpecAt
    <3> HIDE DEF file, link
    <3> QED
      BY <3>1, <3>2 DEF IsSound, LeadsAway
  <2> HIDE DEF file
  <2>2. t = Put(s, landing, file) /\ landing \notin DOMAIN s.files
    BY <1>1, <1>3
  <2>3. s.ok /\ s.written \subseteq DOMAIN s.files
    BY DEF Grown
  <2>4. Grown(doc, i, s, t)
    BY <2>2, <2>3, PutGrows
  <2>5. /\ t.written = s.written \cup {landing} /\ t.files[landing] = file
        /\ DOMAIN t.files = DOMAIN s.files \cup {landing}
        /\ \A p \in DOMAIN s.files : p # landing => t.files[p] = s.files[p]
    BY <2>2, PutAdds
  <2>6. \A p \in s.written : p \in t.written /\ t.files[p] = s.files[p]
    BY <2>2, <2>3, <2>5
  <2>7. IsClean(doc, i, t)
    BY <2>1, <2>5, <2>6 DEF IsClean
  <2>8. IsEntered(doc, i, t)
    BY <2>5 DEF IsEntered, IndexAt
  <2>9. \A k, path : IsOfPage(doc, i, k, path, s) => IsOfPage(doc, i, k, path, t)
    BY <2>6 DEF IsOfPage
  <2>10. HasAll(doc, i, t)
    BY <2>6, <2>9 DEF HasAll, IsWhole, HasMembers
  <2> QED
    BY <2>4, <2>7, <2>8, <2>10 DEF IsDone
<1> QED
  BY <1>2, <1>3

LEMMA SiteIsDone ==
    ASSUME NEW doc \in Documents \cup Revisions, SitesAgree(doc),
           NEW i \in DOMAIN CollectSiteSpecs(doc), NEW s, Ready(doc, i, s),
           NEW t,
           t = WriteSite(doc, SpecAt(doc, i), Len(CollectSiteSpecs(doc)) > 1, RootSite(doc), s),
           t.ok
    PROVE  Grown(doc, i, s, t) /\ IsDone(doc, i, t)
<1> DEFINE spec == SpecAt(doc, i)
           d == Dir(doc, i)
           built == BuildSite(doc, spec, d, RootSite(doc), s)
           copied == CopyStart(spec, d, built)
<1>1. d = SiteLayout(spec, Len(CollectSiteSpecs(doc)) > 1, RootSite(doc))
  BY DEF Dir, SpecAt
<1>2. t = EnsureSiteIndex(spec, d, Len(CollectSiteSpecs(doc)) > 1, copied)
  BY <1>1 DEF WriteSite
<1> HIDE DEF d
<1>3. copied.ok
  <2> HIDE DEF copied
  <2>1. ~ copied.ok => t = copied
    BY <1>2 DEF EnsureSiteIndex
  <2> QED
    BY <2>1
<1>4. built.ok
  <2> HIDE DEF built
  <2>1. ~ built.ok => copied = built
    BY DEF CopyStart
  <2> QED
    BY <1>3, <2>1
<1>5. /\ Grown(doc, i, s, built) /\ AllSound(doc, i, built) /\ NamesDiffer(spec.pages)
      /\ ValidateSlotContracts(spec)
      /\ IF IsCollection(spec.template) THEN HasMembers(doc, i, built)
         ELSE HasPages(doc, i, Len(spec.pages), built)
  BY <1>4, SiteIsBuilt DEF d
<1>6. Grown(doc, i, built, built)
  BY <1>5 DEF Grown
<1>7. Grown(doc, i, built, copied) /\ IsClean(doc, i, copied) /\ HasAll(doc, i, copied)
  BY <1>3, <1>5, <1>6, StartIsCopied DEF d
<1> HIDE DEF built, copied
<1>8. Grown(doc, i, copied, copied) /\ Grown(doc, i, s, copied)
  <2>1. Grown(doc, i, s, copied)
    BY <1>5, <1>7, GrownFurther
  <2> QED
    BY <2>1 DEF Grown
<1>9. Grown(doc, i, copied, t) /\ IsDone(doc, i, t)
  BY <1>2, <1>5, <1>7, <1>8, IndexIsEnsured DEF d
<1> QED
  BY <1>8, <1>9, GrownFurther

(* The sites after it leave a site as it is.                               *)
LEMMA DoneStays ==
    ASSUME NEW doc, NEW i, NEW j, Dir(doc, i) # Dir(doc, j),
           NEW s, NEW t, Grown(doc, j, s, t), s.written \subseteq DOMAIN s.files, IsDone(doc, i, s)
    PROVE  IsDone(doc, i, t)
<1>1. \A p \in t.written : p[1] = Dir(doc, i) => p \in s.written /\ t.files[p] = s.files[p]
  BY DEF Grown
<1>2. IsClean(doc, i, t)
  BY <1>1 DEF IsDone, IsClean
<1>3. IsEntered(doc, i, t)
  BY DEF IsDone, IsEntered, Grown
<1>4. ASSUME NEW k, NEW name, IsOfPage(doc, i, k, <<Dir(doc, i), name>>, s)
      PROVE  IsOfPage(doc, i, k, <<Dir(doc, i), name>>, t)
  <2> DEFINE path == <<Dir(doc, i), name>>
  <2>1. path[1] = Dir(doc, i)
    OBVIOUS
  <2> HIDE DEF path
  <2>2. IsOfPage(doc, i, k, path, s)
    BY <1>4 DEF path
  <2>3. path \in t.written /\ t.files[path] = s.files[path]
    BY <2>1, <2>2 DEF IsOfPage, Grown
  <2>4. IsOfPage(doc, i, k, path, t)
    BY <2>2, <2>3 DEF IsOfPage
  <2> QED
    BY <2>4 DEF path
<1>5. IsWhole(doc, i, s) => IsWhole(doc, i, t)
  BY <1>4 DEF IsWhole, IndexAt
<1>6. HasMembers(doc, i, s) => HasMembers(doc, i, t)
  <2>1. IndexAt(doc, i)[1] = Dir(doc, i)
    BY DEF IndexAt
  <2>2. IndexAt(doc, i) \in s.written
           => IndexAt(doc, i) \in t.written /\ t.files[IndexAt(doc, i)] = s.files[IndexAt(doc, i)]
    BY <2>1 DEF Grown
  <2> QED
    BY <2>2 DEF HasMembers
<1> QED
  BY <1>2, <1>3, <1>5, <1>6 DEF IsDone, HasAll
-----------------------------------------------------------------------------
(* A build of all sites, one after the other.                              *)
SiteAfter(doc, n, t) ==
    WriteSite(doc, SpecAt(doc, n), Len(CollectSiteSpecs(doc)) > 1, RootSite(doc), t)

LEMMA SitesInTurn ==
    ASSUME NEW doc, NEW files, IsList(CollectSiteSpecs(doc))
    PROVE  \E f :
             LET N == Len(CollectSiteSpecs(doc))
             IN  /\ f[0] = Begun(files)
                 /\ \A n \in 1 .. N :
                        f[n] = IF ~f[n - 1].ok THEN f[n - 1] ELSE SiteAfter(doc, n, f[n - 1])
                 /\ BuildSites(doc, CollectSiteSpecs(doc), RootSite(doc), files) = f[N]
<1> DEFINE N == Len(CollectSiteSpecs(doc))
           After(f, n) == IF ~f[n - 1].ok THEN f[n - 1] ELSE SiteAfter(doc, n, f[n - 1])
           Value(f, n) == IF n = 0 THEN Begun(files) ELSE After(f, n)
           P == {m \in Nat : \E f : f = [n \in 0 .. m |-> Value(f, n)]}
           built == CHOOSE f : f = [n \in 0 .. N |-> Value(f, n)]
<1>1. N \in Nat
  BY DEF IsList
<1>2. BuildSites(doc, CollectSiteSpecs(doc), RootSite(doc), files) = built[N]
  BY Zenon DEF BuildSites, SiteAfter, SpecAt
<1> HIDE DEF N
<1>3. 0 \in P
  <2> DEFINE g == [n \in 0 .. 0 |-> Begun(files)]
  <2>1. g = [n \in 0 .. 0 |-> Value(g, n)]
    OBVIOUS
  <2> HIDE DEF g, Value
  <2> QED
    BY <2>1
<1>4. ASSUME NEW m \in 1 .. N, m - 1 \in P
      PROVE  m \in P
  <2>1. PICK f : f = [n \in 0 .. m - 1 |-> Value(f, n)]
    BY <1>4
  <2> DEFINE g == [n \in 0 .. m |-> IF n = m THEN After(f, m) ELSE f[n]]
  <2>2. \A n \in 0 .. m - 1 : g[n] = f[n]
    BY <1>1
  <2>3. ASSUME NEW n \in 0 .. m
        PROVE  g[n] = Value(g, n)
    <3>1. CASE n = 0
      <4>1. g[0] = f[0] /\ f[0] = Begun(files)
        BY <1>1, <2>1, <2>2
      <4> QED
        BY <3>1, <4>1
    <3>2. CASE n # 0
      <4>1. g[n - 1] = f[n - 1]
        BY <1>1, <2>2, <3>2
      <4>2. After(g, n) = After(f, n)
        BY <4>1
      <4>3. g[n] = After(f, n)
        <5>1. CASE n = m
          BY <5>1
        <5>2. CASE n # m
          <6>1. n \in 0 .. m - 1
            BY <1>1, <5>2
          <6> HIDE DEF After
          <6> QED
            BY <2>1, <2>2, <3>2, <6>1
        <5> QED
          BY <5>1, <5>2
      <4> HIDE DEF After, g
      <4> QED
        BY <3>2, <4>2, <4>3
    <3> QED
      BY <3>1, <3>2
  <2>4. g = [n \in 0 .. m |-> g[n]]
    OBVIOUS
  <2> HIDE DEF g, Value
  <2>5. g = [n \in 0 .. m |-> Value(g, n)]
    BY <2>3, <2>4
  <2> QED
    BY <2>5
<1>5. N \in P
  <2> HIDE DEF P
  <2> QED
    BY <1>1, <1>3, <1>4, UpTo
<1>6. PICK f : f = [n \in 0 .. N |-> Value(f, n)]
  BY <1>5
<1>7. built = [n \in 0 .. N |-> Value(built, n)]
  BY <1>6, Zenon
<1> HIDE DEF built, After
<1>8. built[0] = Begun(files) /\ \A n \in 1 .. N : built[n] = After(built, n)
  BY <1>1, <1>7
<1> QED
  BY <1>2, <1>8 DEF After, N

\* A build that has come to a site: what it wrote, and the sites that are done.
DoneUpTo(doc, n, files, t) ==
    /\ t.ok /\ DOMAIN t.files = DOMAIN files \cup t.written
    /\ \A p \in t.written : \E i \in 1 .. n : p[1] = Dir(doc, i)
    /\ \A i \in 1 .. n : IsDone(doc, i, t)

LEMMA SitesAreDone ==
    ASSUME NEW doc \in Documents \cup Revisions, SitesAgree(doc), NEW files,
           NEW t, t = BuildSites(doc, CollectSiteSpecs(doc), RootSite(doc), files), t.ok
    PROVE  DoneUpTo(doc, Len(CollectSiteSpecs(doc)), files, t)
<1> DEFINE specs == CollectSiteSpecs(doc)
           N == Len(specs)
<1>1. IsList(specs)
  BY SpecsAreListed
<1>2. PICK f : /\ f[0] = Begun(files)
               /\ \A n \in 1 .. N :
                      f[n] = IF ~f[n - 1].ok THEN f[n - 1] ELSE SiteAfter(doc, n, f[n - 1])
               /\ BuildSites(doc, specs, RootSite(doc), files) = f[N]
  BY <1>1, SitesInTurn
<1>3. N \in Nat /\ DOMAIN specs = 1 .. N
  BY <1>1 DEF IsList
<1>4. \A i, j \in 1 .. N : Dir(doc, i) = Dir(doc, j) => i = j
  BY <1>3, DirectoriesDiffer
<1> DEFINE P == {n \in Nat : f[n].ok => DoneUpTo(doc, n, files, f[n])}
<1>5. 0 \in P
  BY <1>2 DEF DoneUpTo, Begun
<1>6. ASSUME NEW n \in 1 .. N, n - 1 \in P
      PROVE  n \in P
  <2> SUFFICES ASSUME f[n].ok
               PROVE  DoneUpTo(doc, n, files, f[n])
    BY <1>3
  <2> DEFINE s == f[n - 1]
             u == f[n]
  <2>1. s.ok /\ u = SiteAfter(doc, n, s)
    BY <1>2
  <2>2. DoneUpTo(doc, n - 1, files, s)
    BY <1>6, <2>1
  <2> HIDE DEF s, u
  <2>3. Ready(doc, n, s)
    <3>1. s.written \subseteq DOMAIN s.files
      BY <2>2 DEF DoneUpTo
    <3>2. ASSUME NEW p \in s.written
          PROVE  p[1] # Dir(doc, n)
      <4>1. PICK i \in 1 .. n - 1 : p[1] = Dir(doc, i)
        BY <2>2 DEF DoneUpTo
      <4>2. i # n /\ i \in 1 .. N
        BY <1>3
      <4> QED
        BY <1>4, <4>1, <4>2
    <3> QED
      BY <2>1, <3>1, <3>2 DEF Ready
  <2>4. Grown(doc, n, s, u) /\ IsDone(doc, n, u)
    BY <1>3, <2>1, <2>3, SiteIsDone DEF SiteAfter, u
  <2>5. \A i \in 1 .. n : IsDone(doc, i, u)
    <3> SUFFICES ASSUME NEW i \in 1 .. n, i # n
                 PROVE  IsDone(doc, i, u)
      BY <2>4
    <3>1. i \in 1 .. n - 1 /\ i \in 1 .. N
      BY <1>3
    <3>2. IsDone(doc, i, s) /\ s.written \subseteq DOMAIN s.files
      BY <2>2, <3>1 DEF DoneUpTo
    <3>3. Dir(doc, i) # Dir(doc, n)
      BY <1>4, <3>1
    <3> QED
      BY <2>4, <3>2, <3>3, DoneStays
  <2>6. \A p \in u.written : \E i \in 1 .. n : p[1] = Dir(doc, i)
    <3> SUFFICES ASSUME NEW p \in u.written
                 PROVE  \E i \in 1 .. n : p[1] = Dir(doc, i)
      OBVIOUS
    <3>1. CASE p \in s.written
      <4>1. PICK i \in 1 .. n - 1 : p[1] = Dir(doc, i)
        BY <2>2, <3>1 DEF DoneUpTo
      <4>2. i \in 1 .. n
        BY <1>3
      <4> QED
        BY <4>1, <4>2
    <3>2. CASE p \notin s.written
      <4>1. p[1] = Dir(doc, n) /\ n \in 1 .. n
        BY <2>4, <3>2 DEF Grown
      <4> QED
        BY <4>1
    <3> QED
      BY <3>1, <3>2
  <2>7. u.ok /\ DOMAIN u.files = DOMAIN files \cup u.written
    BY <2>2, <2>4 DEF DoneUpTo, Grown
  <2> QED
    BY <2>5, <2>6, <2>7 DEF DoneUpTo, u
<1>7. N \in P
  <2> HIDE DEF P, N
  <2> QED
    BY <1>3, <1>5, <1>6, UpTo
<1> QED
  BY <1>2, <1>7

(* What a build of all sites that succeeds leaves in the directory.        *)
Entrance == <<RootDir, "index">>
HasChooser(doc) == Len(CollectSiteSpecs(doc)) > 1 /\ RootSite(doc) = None
ChooserLinks(doc) ==
    LET specs == CollectSiteSpecs(doc)
    IN  {Link(Home, Address(0, specs[i].name, "index")) : i \in DOMAIN specs}
BuiltWell(doc, files, t) ==
    /\ SitesAgree(doc) /\ DOMAIN t.files = DOMAIN files \cup t.written
    /\ \A i \in DOMAIN CollectSiteSpecs(doc) : IsDone(doc, i, t)
    /\ \A p \in t.written : \/ \E i \in DOMAIN CollectSiteSpecs(doc) : p[1] = Dir(doc, i)
                            \/ HasChooser(doc) /\ p = Entrance
    /\ HasChooser(doc) => /\ Entrance \in t.written
                          /\ t.files[Entrance].from = <<None, None>>
                          /\ t.files[Entrance].links = ChooserLinks(doc)

LEMMA DoneIsNotAtTheRoot ==
    ASSUME NEW doc, NEW i, Dir(doc, i) # RootDir,
           NEW s, s.written \subseteq DOMAIN s.files, NEW file,
           IsDone(doc, i, s)
    PROVE  IsDone(doc, i, Put(s, Entrance, file))
<1> DEFINE t == Put(s, Entrance, file)
<1>1. /\ t.written = s.written \cup {Entrance}
      /\ DOMAIN t.files = DOMAIN s.files \cup {Entrance}
      /\ \A p \in DOMAIN s.files : p # Entrance => t.files[p] = s.files[p]
  BY PutAdds
<1>2. \A p : p[1] = Dir(doc, i) => p # Entrance
  BY DEF Entrance
<1> HIDE DEF t
<1>3. \A p : p[1] = Dir(doc, i) =>
             (p \in t.written <=> p \in s.written) /\ (p \in s.written => t.files[p] = s.files[p])
  BY <1>1, <1>2
<1>4. IsClean(doc, i, t)
  BY <1>3 DEF IsDone, IsClean
<1>5. IsEntered(doc, i, t)
  BY <1>1 DEF IsDone, IsEntered
<1>6. ASSUME NEW k, NEW name, IsOfPage(doc, i, k, <<Dir(doc, i), name>>, s)
      PROVE  IsOfPage(doc, i, k, <<Dir(doc, i), name>>, t)
  <2> DEFINE path == <<Dir(doc, i), name>>
  <2>1. path[1] = Dir(doc, i)
    OBVIOUS
  <2> HIDE DEF path
  <2>2. IsOfPage(doc, i, k, path, s)
    BY <1>6 DEF path
  <2>3. IsOfPage(doc, i, k, path, t)
    BY <1>3, <2>1, <2>2 DEF IsOfPage
  <2> QED
    BY <2>3 DEF path
<1>7. IsWhole(doc, i, s) => IsWhole(doc, i, t)
  BY <1>6 DEF IsWhole, IndexAt
<1>9. HasMembers(doc, i, s) => HasMembers(doc, i, t)
  <2>1. IndexAt(doc, i)[1] = Dir(doc, i)
    BY DEF IndexAt
  <2> QED
    BY <1>3, <2>1 DEF HasMembers
<1>8. IsDone(doc, i, t)
  BY <1>4, <1>5, <1>7, <1>9 DEF IsDone, HasAll
<1> QED
  BY <1>8 DEF t

LEMMA BuildsAreWell ==
    ASSUME NEW doc \in Documents \cup Revisions, NEW files,
           NEW t, t = BuildInner(doc, None, files), t.ok
    PROVE  BuiltWell(doc, files, t)
<1> DEFINE specs == CollectSiteSpecs(doc)
           N == Len(specs)
           built == BuildSites(doc, specs, RootSite(doc), files)
<1>1. /\ SitesAgree(doc)
      /\ t = WriteChooserIndex(specs, RootSite(doc), built)
  <2>1. ~ Abandoned(Begun(files)).ok
    BY DEF Abandoned
  <2>2. BuildSet(specs, None) = specs
    BY DEF BuildSet
  <2>3. t = IF ~SitesAgree(doc) \/ specs = <<>> THEN Abandoned(Begun(files))
            ELSE WriteChooserIndex(specs, RootSite(doc), built)
    BY <2>2 DEF BuildInner
  <2> HIDE DEF specs, N, built
  <2> QED
    BY <2>1, <2>3
<1>2. built.ok
  <2> HIDE DEF built
  <2>1. ~ built.ok => t = built
    BY <1>1 DEF WriteChooserIndex
  <2> QED
    BY <2>1
<1>3. DoneUpTo(doc, N, files, built)
  BY <1>1, <1>2, SitesAreDone
<1>4. IsList(specs) /\ N \in Nat /\ DOMAIN specs = 1 .. N
  BY SpecsAreListed DEF IsList
<1> HIDE DEF built
<1>5. CASE ~ HasChooser(doc)
  <2>1. t = built
    BY <1>1, <1>4, <1>5 DEF HasChooser, WriteChooserIndex
  <2> QED
    BY <1>1, <1>3, <1>4, <1>5, <2>1 DEF DoneUpTo, BuiltWell
<1>6. CASE HasChooser(doc)
  <2> DEFINE file == File(<<None, None>>, ChooserLinks(doc), <<>>)
  <2>1. t = Put(built, Entrance, file)
    BY <1>1, <1>2, <1>4, <1>6 DEF HasChooser, WriteChooserIndex, Entrance, ChooserLinks
  <2>2. file.from = <<None, None>> /\ file.links = ChooserLinks(doc)
    BY DEF File
  <2> HIDE DEF file
  <2>3. /\ t.written = built.written \cup {Entrance} /\ t.files[Entrance] = file
        /\ DOMAIN t.files = DOMAIN built.files \cup {Entrance}
    BY <2>1, PutAdds
  <2>4. \A i \in DOMAIN specs : Dir(doc, i) # RootDir
    BY <1>1, <1>6, DirectoriesDiffer DEF HasChooser
  <2>5. built.written \subseteq DOMAIN built.files
    BY <1>3 DEF DoneUpTo
  <2>6. \A i \in DOMAIN specs : IsDone(doc, i, t)
    BY <1>3, <1>4, <2>1, <2>4, <2>5, DoneIsNotAtTheRoot DEF DoneUpTo
  <2>7. DOMAIN t.files = DOMAIN files \cup t.written
    BY <1>3, <2>3 DEF DoneUpTo
  <2>8. \A p \in t.written : (\E i \in DOMAIN specs : p[1] = Dir(doc, i)) \/ p = Entrance
    BY <1>3, <1>4, <2>3 DEF DoneUpTo
  <2>9. Entrance \in t.written /\ t.files[Entrance].from = <<None, None>>
        /\ t.files[Entrance].links = ChooserLinks(doc)
    BY <2>2, <2>3
  <2> QED
    BY <1>1, <1>6, <2>6, <2>7, <2>8, <2>9 DEF BuiltWell
<1> QED
  BY <1>5, <1>6
-----------------------------------------------------------------------------
(* The invariant.                                                          *)
Made == [files |-> output, written |-> report.written]
SitesInv ==
    /\ authored \in Documents \cup Revisions
    /\ IsBuilt => \E files : /\ BuiltWell(authored, files, Made)
                             /\ report.left = {p \in DOMAIN files : p[2] = "index"}

\* What is done does not depend on whether the build goes on.
LEMMA OnlyFilesMatter ==
    ASSUME NEW doc, NEW files, NEW t, NEW u, t.files = u.files, t.written = u.written,
           BuiltWell(doc, files, t)
    PROVE  BuiltWell(doc, files, u)
<1>1. \A i : IsDone(doc, i, t) => IsDone(doc, i, u)
  BY DEF IsDone, HasAll, IsWhole, HasMembers, IsClean, IsEntered, IsOfPage
<1> QED
  BY <1>1 DEF BuiltWell

LEMMA SitesInitially == SitesInit => SitesInv
  BY DEF SitesInit, SitesInv, IsBuilt, Unbuilt

LEMMA SitesStay == SitesInv /\ [SitesNext]_siteVars => SitesInv'
<1> SUFFICES ASSUME SitesInv, [SitesNext]_siteVars
             PROVE  SitesInv'
  OBVIOUS
<1>1. CASE Revise
  <2>1. authored' \in Revisions /\ ~ report'.ok
    BY <1>1 DEF Revise
  <2> QED
    BY <2>1 DEF SitesInv, IsBuilt
<1>2. ASSUME NEW filter, Build(filter)
      PROVE  SitesInv'
  <2> DEFINE done == BuildInner(authored, filter, output)
             new == [ok |-> done.ok, filter |-> filter, written |-> done.written,
                     left |-> {p \in DOMAIN output : p[2] = "index"}, builds |-> report.builds + 1]
  <2>1. authored' = authored /\ output' = done.files /\ report' = new
    BY <1>2 DEF Build
  <2>2. authored' \in Documents \cup Revisions
    BY <2>1 DEF SitesInv
  <2>3. ASSUME IsBuilt'
        PROVE  \E files : /\ BuiltWell(authored', files, Made')
                          /\ report'.left = {p \in DOMAIN files : p[2] = "index"}
    <3>1. done.ok /\ filter = None
      BY <2>1, <2>3 DEF IsBuilt
    <3>2. BuiltWell(authored, output, done)
      BY <3>1, BuildsAreWell DEF SitesInv
    <3>3. Made'.files = done.files /\ Made'.written = done.written
      BY <2>1 DEF Made
    <3>4. BuiltWell(authored, output, Made')
      BY <3>2, <3>3, OnlyFilesMatter
    <3> QED
      BY <2>1, <3>4
  <2> QED
    BY <2>2, <2>3 DEF SitesInv
<1>3. CASE UNCHANGED siteVars
  BY <1>3 DEF siteVars, SitesInv, IsBuilt, Made
<1> QED
  BY <1>1, <1>2, <1>3 DEF SitesNext

(* The invariant gives a reader what a link or a directory promises.       *)
LEMMA SpecsInOrder ==
    /\ \A i \in DOMAIN Specs : /\ DirectoryOf(Specs[i]) = Dir(authored, i)
                               /\ IndexOf(Specs[i]) = IndexAt(authored, i)
                               /\ Specs[i] = SpecAt(authored, i) /\ Specs[i] \in Range(Specs)
    /\ \A spec \in Range(Specs) : \E i \in DOMAIN Specs : spec = Specs[i]
  BY DEF Specs, DirectoryOf, IndexOf, Dir, IndexAt, SpecAt, Range

LEMMA FilesOfPages ==
    ASSUME NEW i, NEW k, NEW path, IsOfPage(authored, i, k, path, Made)
    PROVE  HasFile(path, SpecAt(authored, i), SpecAt(authored, i).pages[k].name)
  BY DEF IsOfPage, HasFile, Made

LEMMA EnteredOnce ==
    ASSUME NEW files, BuiltWell(authored, files, Made),
           report.left = {p \in DOMAIN files : p[2] = "index"},
           Len(Specs) > 1, NEW i \in DOMAIN Specs, Specs[i].pages # <<>>
    PROVE  IndexOf(Specs[i]) \in report.written \cup report.left
<1> DEFINE landing == IndexAt(authored, i)
<1>1. IsDone(authored, i, Made)
  BY DEF BuiltWell, Specs
<1>2. landing \in DOMAIN Made.files
  BY <1>1, SpecsInOrder DEF IsDone, IsEntered, Specs
<1>3. landing[2] = "index"
  BY DEF IndexAt
<1> HIDE DEF landing
<1>4. landing \in DOMAIN files \cup report.written
  BY <1>2 DEF BuiltWell, Made
<1>5. landing \in report.written \cup report.left
  BY <1>3, <1>4
<1> QED
  BY <1>5, SpecsInOrder DEF landing

LEMMA OwnPageIsWritten ==
    ASSUME NEW files, BuiltWell(authored, files, Made), authored \in Documents \cup Revisions,
           NEW i \in DOMAIN Specs, NEW k \in DOMAIN Specs[i].pages, Specs[i].pages[k] \in Own(Specs[i])
    PROVE  IsOfPage(authored, i, k, <<Dir(authored, i), Specs[i].pages[k].name>>, Made)
<1> DEFINE spec == Specs[i]
           page == spec.pages[k]
<1>1. page \in Range(spec.pages) /\ ~ IsCollection(spec.template) /\ ~ IsCovered(page, spec)
  BY DEF Own
<1>2. IsWhole(authored, i, Made)
  BY <1>1, SpecsInOrder DEF BuiltWell, IsDone, HasAll, Specs
<1>3. page.name # "index" \/ StartsOf(spec) \subseteq {k}
  <2> SUFFICES ASSUME page.name = "index", NEW m \in StartsOf(spec)
               PROVE  m = k
    OBVIOUS
  <2>1. m \in DOMAIN spec.pages /\ spec.pages[m].start
    BY DEF StartsOf
  <2>2. spec.pages[m] = page
    BY <1>1, <2>1 DEF IsCovered
  <2>3. NamesDiffer(spec.pages)
    BY <1>2, SpecsInOrder DEF IsWhole
  <2> QED
    BY <2>1, <2>2, <2>3 DEF NamesDiffer
<1> QED
  BY <1>2, <1>3, SpecsInOrder DEF IsWhole

LEMMA OwnPagesHaveFiles ==
    ASSUME NEW files, BuiltWell(authored, files, Made), authored \in Documents \cup Revisions,
           NEW i \in DOMAIN Specs, NEW page \in Own(Specs[i])
    PROVE  HasFile(<<DirectoryOf(Specs[i]), page.name>>, Specs[i], page.name)
<1>1. PICK k \in DOMAIN Specs[i].pages : page = Specs[i].pages[k]
  BY DEF Own, Range
<1>2. IsOfPage(authored, i, k, <<Dir(authored, i), page.name>>, Made)
  BY <1>1, OwnPageIsWritten
<1> QED
  BY <1>1, <1>2, FilesOfPages, SpecsInOrder

LEMMA LinksOfPagesLead ==
    ASSUME NEW files, BuiltWell(authored, files, Made), authored \in Documents \cup Revisions,
           report.left = {p \in DOMAIN files : p[2] = "index"},
           NEW i \in DOMAIN Specs, NEW p, p[1] = Dir(authored, i),
           IsSound(authored, i, output[p]), NEW link \in output[p].links
    PROVE  IF link.to = Home THEN LeadsHome(p, link) ELSE LeadsOn(p, link)
<1>1. /\ output[p].from[1] = Specs[i].name
      /\ link \in FrameLinks(Dir(authored, i)) \/ LeadsOut(authored, i, link)
  BY SpecsInOrder DEF IsSound, LeadsAway
<1>2. SitesAgree(authored)
  BY DEF BuiltWell
<1>3. CASE link \in FrameLinks(Dir(authored, i))
  <2>1. Dir(authored, i) # RootDir /\ link = Link(Home, Address(1, RootDir, "index"))
    BY <1>3 DEF FrameLinks
  <2>2. link.to = Home /\ link.address = Address(1, RootDir, "index")
    BY <2>1 DEF Link
  <2>3. Lands(p[1], link.address) = <<RootDir, "index">>
    BY <2>1, <2>2 DEF Lands, Address
  <2>4. Len(Specs) > 1
    BY <1>2, <2>1, DirectoriesDiffer DEF Specs
  <2>5. \A s \in Range(Specs) : s.pages # <<>> => IndexOf(s) \in report.written \cup report.left
    BY <2>4, EnteredOnce, SpecsInOrder
  <2> QED
    BY <2>1, <2>2, <2>3, <2>5 DEF LeadsHome
<1>4. CASE LeadsOut(authored, i, link)
  <2> DEFINE site == IF link.to.site = None THEN output[p].from[1] ELSE link.to.site
             chosen == CHOOSE s \in Range(Specs) : s.name = site
  <2>1. PICK j \in DOMAIN Specs :
                /\ Specs[j].name = site
                /\ Lands(p[1], link.address) = <<Dir(authored, j), link.to.page>>
    BY <1>1, <1>4 DEF LeadsOut, Specs
  <2>2. \A s \in Range(Specs) : s.name = site => s = Specs[j]
    BY <1>2, <2>1, SpecsAreNamed, SpecsInOrder DEF Specs
  <2> HIDE DEF site
  <2>3. chosen = Specs[j]
    BY <2>1, <2>2, SpecsInOrder
  <2>4. ASSUME NEW page \in Own(Specs[j]), page.name = link.to.page
        PROVE  HasFile(Lands(p[1], link.address), Specs[j], page.name)
    BY <2>1, <2>4, OwnPagesHaveFiles, SpecsInOrder
  <2> HIDE DEF chosen
  <2>5. LeadsOn(p, link)
    BY <2>3, <2>4 DEF LeadsOn, chosen, site
  <2>6. link.to # Home
    BY <1>4 DEF LeadsOut
  <2> QED
    BY <2>5, <2>6
<1> QED
  BY <1>1, <1>3, <1>4

LEMMA ChooserLeads ==
    ASSUME NEW files, BuiltWell(authored, files, Made), authored \in Documents \cup Revisions,
           report.left = {p \in DOMAIN files : p[2] = "index"},
           HasChooser(authored), NEW link \in output[Entrance].links
    PROVE  link.to = Home /\ LeadsHome(Entrance, link)
<1>1. output[Entrance].links = ChooserLinks(authored) /\ SitesAgree(authored)
  BY DEF BuiltWell, Made
<1>2. PICK i \in DOMAIN Specs : link = Link(Home, Address(0, Specs[i].name, "index"))
  BY <1>1 DEF ChooserLinks, Specs
<1>3. link.to = Home /\ link.address = Address(0, Specs[i].name, "index")
  BY <1>2 DEF Link
<1>4. Entrance[1] = RootDir
  BY DEF Entrance
<1>5. Lands(Entrance[1], link.address) = <<Specs[i].name, "index">>
  BY <1>3, <1>4 DEF Lands, Address
<1>6. IndexOf(Specs[i]) = <<Specs[i].name, "index">>
  BY <1>1, DirectoriesDiffer, SpecsInOrder DEF HasChooser, Specs, IndexAt
<1>7. \A s \in Range(Specs) : s.pages # <<>> => IndexOf(s) \in report.written \cup report.left
  BY EnteredOnce, SpecsInOrder DEF HasChooser, Specs
<1> QED
  BY <1>3, <1>4, <1>5, <1>6, <1>7, SpecsInOrder DEF LeadsHome

LEMMA SitesLead == SitesInv => LinksLeadToTheirPages
<1> SUFFICES ASSUME SitesInv, IsBuilt
             PROVE  LinksLeadToTheirPages
  BY DEF LinksLeadToTheirPages
<1>1. PICK files : /\ BuiltWell(authored, files, Made)
                   /\ report.left = {p \in DOMAIN files : p[2] = "index"}
  BY DEF SitesInv
<1>2. authored \in Documents \cup Revisions /\ SitesAgree(authored)
  BY <1>1 DEF SitesInv, BuiltWell
<1>3. HasEntrance
  <2>1. CASE HasChooser(authored)
    <3>1. Entrance \in report.written /\ output[Entrance].from = <<None, None>>
      BY <1>1, <2>1 DEF BuiltWell, Made
    <3>2. [name |-> None].name = None
      OBVIOUS
    <3> QED
      BY <3>1, <3>2 DEF HasEntrance, HasFile, Entrance
  <2>2. CASE ~ HasChooser(authored)
    <3>1. \E i \in DOMAIN Specs : Dir(authored, i) = RootDir
      <4>1. CASE Len(Specs) > 1
        BY <1>2, <2>2, <4>1, DirectoriesDiffer DEF HasChooser, Specs
      <4>2. CASE ~ Len(Specs) > 1
        <5>1. 1 \in DOMAIN Specs
          BY <1>2, SpecsAreListed DEF Specs
        <5> QED
          BY <1>2, <4>2, <5>1, DirectoriesDiffer DEF Specs
      <4> QED
        BY <4>1, <4>2
    <3> QED
      BY <3>1, SpecsInOrder DEF HasEntrance
  <2> QED
    BY <2>1, <2>2
<1>4. ASSUME NEW spec \in Range(Specs), ~ IsCollection(spec.template)
      PROVE  /\ NamesDiffer(spec.pages) /\ HasLanding(spec)
             /\ \A page \in Own(spec) : HasFile(<<DirectoryOf(spec), page.name>>, spec, page.name)
  <2>1. PICK i \in DOMAIN Specs : spec = Specs[i]
    BY SpecsInOrder
  <2>2. IsWhole(authored, i, Made)
    BY <1>1, <1>4, <2>1, SpecsInOrder DEF BuiltWell, IsDone, HasAll, Specs
  <2>3. NamesDiffer(spec.pages)
    BY <2>1, <2>2, SpecsInOrder DEF IsWhole
  <2>4. \A k \in StartsOf(spec) : HasFile(IndexOf(spec), spec, spec.pages[k].name)
    BY <2>1, <2>2, FilesOfPages, SpecsInOrder DEF IsWhole
  <2>5. Len(Specs) > 1 /\ spec.pages # <<>> => IndexOf(spec) \in report.written \cup report.left
    BY <1>1, <2>1, EnteredOnce
  <2>6. \A page \in Own(spec) : HasFile(<<DirectoryOf(spec), page.name>>, spec, page.name)
    BY <1>1, <1>2, <2>1, OwnPagesHaveFiles
  <2> QED
    BY <2>3, <2>4, <2>5, <2>6 DEF HasLanding
<1>5. ASSUME NEW p \in report.written,
             p \notin {IndexOf(s) : s \in {s \in Range(Specs) : IsOverwritten(s)}},
             NEW link \in output[p].links
      PROVE  IF link.to = Home THEN LeadsHome(p, link) ELSE LeadsOn(p, link)
  <2>1. \/ \E i \in DOMAIN Specs : p[1] = Dir(authored, i)
        \/ HasChooser(authored) /\ p = Entrance
    BY <1>1 DEF BuiltWell, Made, Specs
  <2>2. CASE HasChooser(authored) /\ p = Entrance
    BY <1>1, <1>2, <1>5, <2>2, ChooserLeads
  <2>3. ASSUME NEW i \in DOMAIN Specs, p[1] = Dir(authored, i)
        PROVE  IF link.to = Home THEN LeadsHome(p, link) ELSE LeadsOn(p, link)
    <3>1. IsClean(authored, i, Made)
      BY <1>1 DEF BuiltWell, IsDone, Specs
    <3>2. IsSound(authored, i, output[p]) \/ (IsOverwritten(Specs[i]) /\ p = IndexOf(Specs[i]))
      BY <1>5, <2>3, <3>1, SpecsInOrder DEF IsClean, Made
    <3>3. IsSound(authored, i, output[p])
      BY <1>5, <3>2, SpecsInOrder
    <3> QED
      BY <1>1, <1>2, <1>5, <2>3, <3>3, LinksOfPagesLead
  <2> QED
    BY <2>1, <2>2, <2>3
<1> QED
  BY <1>3, <1>4, <1>5 DEF LinksLeadToTheirPages

(* In every build of all sites that succeeds each page has its file, each  *)
(* site its landing page and the directory a way in, and every link leads  *)
(* to what it names: after any builds and edits, for any sites and pages.  *)
THEOREM LinksAlwaysLead == SitesSpec => []LinksLeadToTheirPages
<1>1. SitesInit => SitesInv
  BY SitesInitially
<1>2. SitesInv /\ [SitesNext]_siteVars => SitesInv'
  BY SitesStay
<1>3. SitesInv => LinksLeadToTheirPages
  BY SitesLead
<1> QED
  BY <1>1, <1>2, <1>3, PTL DEF SitesSpec
-----------------------------------------------------------------------------
(* What FlattenSeq makes of lists, and where what is in it comes from.     *)
LEMMA FlattenInTurn ==
    ASSUME NEW ss, Len(ss) \in Nat, Len(ss) # 0
    PROVE  \E f : /\ f[1] = ss[1] /\ \A n \in 2 .. Len(ss) : f[n] = f[n - 1] \o ss[n]
                  /\ FlattenSeq(ss) = f[Len(ss)]
<1> DEFINE N == Len(ss)
           After(f, n) == f[n - 1] \o ss[n]
           Value(f, n) == IF n = 1 THEN ss[n] ELSE After(f, n)
           P == {m \in Nat : \E f : f = [n \in 1 .. m |-> Value(f, n)]}
           flatten == CHOOSE f : f = [n \in 1 .. N |-> Value(f, n)]
<1>1. FlattenSeq(ss) = flatten[N]
  BY DEF FlattenSeq
<1> HIDE DEF N
<1>2. N \in Nat /\ N # 0
  BY DEF N
<1>3. 0 \in P
  <2> DEFINE g == [n \in 1 .. 0 |-> 0]
  <2>1. g = [n \in 1 .. 0 |-> Value(g, n)]
    OBVIOUS
  <2> HIDE DEF g, Value
  <2> QED
    BY <2>1
<1>4. ASSUME NEW m \in 1 .. N, m - 1 \in P
      PROVE  m \in P
  <2>1. PICK f : f = [n \in 1 .. m - 1 |-> Value(f, n)]
    BY <1>4
  <2> DEFINE g == [n \in 1 .. m |-> IF n = m THEN Value(f, m) ELSE f[n]]
  <2>2. \A n \in 1 .. m - 1 : g[n] = f[n]
    BY <1>2
  <2>3. ASSUME NEW n \in 1 .. m
        PROVE  g[n] = Value(g, n)
    <3>1. Value(g, n) = Value(f, n)
      <4>1. n # 1 => g[n - 1] = f[n - 1]
        BY <1>2, <2>2
      <4> HIDE DEF g
      <4> QED
        BY <4>1
    <3>2. g[n] = Value(f, n)
      <4> HIDE DEF Value
      <4>1. CASE n = m
        BY <4>1
      <4>2. CASE n # m
        <5>1. n \in 1 .. m - 1
          BY <1>2, <4>2
        <5> QED
          BY <2>1, <2>2, <5>1
      <4> QED
        BY <4>1, <4>2
    <3> QED
      BY <3>1, <3>2
  <2>4. g = [n \in 1 .. m |-> g[n]]
    OBVIOUS
  <2> HIDE DEF g, Value
  <2>5. g = [n \in 1 .. m |-> Value(g, n)]
    BY <2>3, <2>4
  <2> QED
    BY <2>5
<1>5. N \in P
  <2> HIDE DEF P
  <2> QED
    BY <1>2, <1>3, <1>4, UpTo
<1>6. PICK f : f = [n \in 1 .. N |-> Value(f, n)]
  BY <1>5
<1>7. flatten = [n \in 1 .. N |-> Value(flatten, n)]
  BY <1>6, Zenon
<1> HIDE DEF flatten
<1>8. flatten[1] = ss[1]
  BY <1>2, <1>7
<1>9. ASSUME NEW n \in 2 .. N
      PROVE  flatten[n] = flatten[n - 1] \o ss[n]
  <2>1. n \in 1 .. N /\ n # 1
    BY <1>2
  <2> QED
    BY <1>7, <2>1
<1> QED
  BY <1>1, <1>8, <1>9 DEF N

ComesFrom(t, ss, n, row, col) ==
    /\ \A a \in DOMAIN t : /\ row[a] \in 1 .. n /\ col[a] \in DOMAIN ss[row[a]]
                           /\ t[a] = ss[row[a]][col[a]]
    /\ \A a, b \in DOMAIN t : row[a] = row[b] /\ col[a] = col[b] => a = b
GoesInto(t, ss, n) ==
    \A k \in 1 .. n : \A m \in DOMAIN ss[k] : \E a \in DOMAIN t : t[a] = ss[k][m]

LEMMA Flattened ==
    ASSUME NEW S, NEW ss \in Seq(Seq(S))
    PROVE  /\ FlattenSeq(ss) \in Seq(S)
           /\ \E row, col : ComesFrom(FlattenSeq(ss), ss, Len(ss), row, col)
           /\ GoesInto(FlattenSeq(ss), ss, Len(ss))
<1> DEFINE N == Len(ss)
<1>1. N \in Nat /\ DOMAIN ss = 1 .. N /\ \A k \in 1 .. N : ss[k] \in Seq(S)
  OBVIOUS
<1>2. CASE N = 0
  <2>1. FlattenSeq(ss) = <<>>
    BY <1>2 DEF FlattenSeq
  <2>2. <<>> \in Seq(S) /\ DOMAIN <<>> = {}
    OBVIOUS
  <2>3. ComesFrom(<<>>, ss, N, ss, ss)
    BY <2>2 DEF ComesFrom
  <2>4. GoesInto(<<>>, ss, N)
    BY <1>2 DEF GoesInto
  <2> QED
    BY <2>1, <2>2, <2>3, <2>4
<1>3. CASE N # 0
  <2>1. PICK f : /\ f[1] = ss[1] /\ \A n \in 2 .. N : f[n] = f[n - 1] \o ss[n]
                 /\ FlattenSeq(ss) = f[N]
    BY <1>1, <1>3, FlattenInTurn
  <2> DEFINE Right(n) == /\ f[n] \in Seq(S)
                         /\ \E row, col : ComesFrom(f[n], ss, n, row, col)
                         /\ GoesInto(f[n], ss, n)
             P == {n \in Nat : n # 0 => Right(n)}
  <2>2. 0 \in P
    OBVIOUS
  <2>3. ASSUME NEW n \in 1 .. N, n - 1 \in P
        PROVE  n \in P
    <3>1. n \in Nat /\ ss[n] \in Seq(S)
      BY <1>1
    <3>2. CASE n = 1
      <4> DEFINE row == [a \in DOMAIN ss[1] |-> 1]
                 col == [a \in DOMAIN ss[1] |-> a]
      <4>1. ComesFrom(f[n], ss, n, row, col)
        BY <2>1, <3>2 DEF ComesFrom
      <4>2. GoesInto(f[n], ss, n)
        BY <2>1, <3>2 DEF GoesInto
      <4> QED
        BY <2>1, <3>1, <3>2, <4>1, <4>2
    <3>3. CASE n # 1
      <4> DEFINE s == f[n - 1]
                 t == f[n]
                 u == ss[n]
      <4>1. n - 1 # 0 /\ n \in 2 .. N
        BY <1>1, <3>3
      <4>2. Right(n - 1) /\ t = s \o u
        BY <2>1, <2>3, <4>1
      <4>3. s \in Seq(S) /\ u \in Seq(S)
        BY <3>1, <4>2
      <4>4. PICK row, col : ComesFrom(s, ss, n - 1, row, col)
        BY <4>2
      <4>5. GoesInto(s, ss, n - 1)
        BY <4>2
      <4> HIDE DEF Right, s, t, u
      <4>6. /\ t \in Seq(S) /\ DOMAIN s = 1 .. Len(s) /\ DOMAIN u = 1 .. Len(u)
            /\ Len(s) \in Nat /\ Len(u) \in Nat /\ DOMAIN t = 1 .. Len(s) + Len(u)
            /\ \A a \in 1 .. Len(s) + Len(u) : t[a] = IF a <= Len(s) THEN s[a] ELSE u[a - Len(s)]
        BY <4>2, <4>3
      <4> DEFINE k == Len(s)
                 row2 == [a \in DOMAIN t |-> IF a <= k THEN row[a] ELSE n]
                 col2 == [a \in DOMAIN t |-> IF a <= k THEN col[a] ELSE a - k]
      <4>7. \A a \in DOMAIN t : /\ a <= k => a \in DOMAIN s /\ t[a] = s[a]
                                /\ ~ (a <= k) => a - k \in DOMAIN u /\ t[a] = u[a - k]
        BY <4>6
      <4>8. ComesFrom(t, ss, n, row2, col2)
        <5>1. ASSUME NEW a \in DOMAIN t
              PROVE  /\ row2[a] \in 1 .. n /\ col2[a] \in DOMAIN ss[row2[a]]
                     /\ t[a] = ss[row2[a]][col2[a]]
          <6>1. CASE a <= k
            <7>1. row2[a] = row[a] /\ col2[a] = col[a] /\ a \in DOMAIN s /\ t[a] = s[a]
              BY <4>7, <6>1
            <7>2. row[a] \in 1 .. n - 1 /\ col[a] \in DOMAIN ss[row[a]] /\ s[a] = ss[row[a]][col[a]]
              BY <4>4, <7>1 DEF ComesFrom
            <7> HIDE DEF row2, col2
            <7> QED
              BY <3>1, <7>1, <7>2
          <6>2. CASE ~ (a <= k)
            <7>1. row2[a] = n /\ col2[a] = a - k /\ a - k \in DOMAIN u /\ t[a] = u[a - k]
              BY <4>7, <6>2
            <7> HIDE DEF row2, col2, k
            <7> QED
              BY <3>1, <7>1 DEF u
          <6> QED
            BY <6>1, <6>2
        <5>2. ASSUME NEW a \in DOMAIN t, NEW b \in DOMAIN t, row2[a] = row2[b], col2[a] = col2[b]
              PROVE  a = b
          <6>1. a \in Nat /\ b \in Nat /\ k \in Nat
            BY <4>6
          <6>2. \A c \in DOMAIN t : c <= k => row[c] \in 1 .. n - 1
            BY <4>4, <4>7 DEF ComesFrom
          <6>3. a <= k <=> b <= k
            BY <3>1, <5>2, <6>2
          <6>4. CASE a <= k
            <7>1. row[a] = row[b] /\ col[a] = col[b] /\ a \in DOMAIN s /\ b \in DOMAIN s
              BY <4>7, <5>2, <6>3, <6>4
            <7> QED
              BY <4>4, <7>1 DEF ComesFrom
          <6>5. CASE ~ (a <= k)
            BY <5>2, <6>1, <6>3, <6>5
          <6> QED
            BY <6>4, <6>5
        <5> HIDE DEF row2, col2
        <5> QED
          BY <5>1, <5>2 DEF ComesFrom
      <4>9. GoesInto(t, ss, n)
        <5> SUFFICES ASSUME NEW j \in 1 .. n, NEW m \in DOMAIN ss[j]
                     PROVE  \E a \in DOMAIN t : t[a] = ss[j][m]
          BY DEF GoesInto
        <5>1. CASE j = n
          <6>1. m \in 1 .. Len(u)
            BY <4>6, <5>1 DEF u
          <6>2. k + m \in DOMAIN t /\ t[k + m] = u[m]
            BY <4>6, <6>1
          <6> QED
            BY <5>1, <6>2 DEF u
        <5>2. CASE j # n
          <6>1. j \in 1 .. n - 1
            BY <3>1, <5>2
          <6>2. PICK a \in DOMAIN s : s[a] = ss[j][m]
            BY <4>5, <6>1 DEF GoesInto
          <6>3. a \in DOMAIN t /\ t[a] = s[a]
            BY <4>6
          <6> QED
            BY <6>2, <6>3
        <5> QED
          BY <5>1, <5>2
      <4> QED
        BY <3>1, <4>6, <4>8, <4>9 DEF Right, t
    <3> QED
      BY <3>2, <3>3
  <2>4. N \in P
    <3>1. N \in Nat
      BY <1>1
    <3> HIDE DEF P, N
    <3>2. 0 .. N \subseteq P
      BY <2>2, <2>3, <3>1, UpTo
    <3> QED
      BY <3>1, <3>2
  <2> QED
    BY <1>3, <2>1, <2>4
<1> QED
  BY <1>2, <1>3

LEMMA FlattenOne ==
    ASSUME NEW s
    PROVE  FlattenSeq(<<s>>) = s
<1> DEFINE ss == <<s>>
<1>1. Len(ss) = 1 /\ ss[1] = s
  OBVIOUS
<1> HIDE DEF ss
<1>2. PICK f : f[1] = ss[1] /\ FlattenSeq(ss) = f[Len(ss)]
  <2>1. Len(ss) \in Nat /\ Len(ss) # 0
    BY <1>1
  <2> QED
    BY <2>1, FlattenInTurn
<1>3. FlattenSeq(ss) = s
  BY <1>1, <1>2
<1> QED
  BY <1>3 DEF ss
-----------------------------------------------------------------------------
(* The rounds in which the repeaters of an item are opened.                *)
Times(x, once) == IF once THEN 1 ELSE x.times
GivenBy(x, once) ==
    IF x.kind = "repeater" THEN FlattenSeq([n \in 1 .. Times(x, once) |-> x.items]) ELSE <<x>>
NextRound(t, once) == FlattenSeq([i \in DOMAIN t |-> GivenBy(t[i], once)])

LEMMA RoundsInTurn ==
    ASSUME NEW item, NEW once
    PROVE  \E f : /\ f[0] = <<item>> /\ \A n \in 1 .. Nesting : f[n] = NextRound(f[n - 1], once)
                  /\ Unrolled(item, once) = f[Nesting]
<1> DEFINE N == Nesting
           After(f, n) == NextRound(f[n - 1], once)
           Value(f, n) == IF n = 0 THEN <<item>> ELSE After(f, n)
           P == {m \in Nat : \E f : f = [n \in 0 .. m |-> Value(f, n)]}
           rounds == CHOOSE f : f = [n \in 0 .. N |-> Value(f, n)]
<1>1. N \in Nat
  BY NestingAssumption
<1>2. Unrolled(item, once) = rounds[N]
  BY Zenon DEF Unrolled, NextRound, GivenBy, Times
<1> HIDE DEF N
<1>3. 0 \in P
  <2> DEFINE g == [n \in 0 .. 0 |-> <<item>>]
  <2>1. g = [n \in 0 .. 0 |-> Value(g, n)]
    OBVIOUS
  <2> HIDE DEF g, Value
  <2> QED
    BY <2>1
<1>4. ASSUME NEW m \in 1 .. N, m - 1 \in P
      PROVE  m \in P
  <2>1. PICK f : f = [n \in 0 .. m - 1 |-> Value(f, n)]
    BY <1>4
  <2> DEFINE g == [n \in 0 .. m |-> IF n = m THEN After(f, m) ELSE f[n]]
  <2>2. \A n \in 0 .. m - 1 : g[n] = f[n]
    BY <1>1
  <2>3. ASSUME NEW n \in 0 .. m
        PROVE  g[n] = Value(g, n)
    <3>1. CASE n = 0
      <4>1. g[0] = f[0] /\ f[0] = <<item>>
        BY <1>1, <2>1, <2>2
      <4> QED
        BY <3>1, <4>1
    <3>2. CASE n # 0
      <4>1. g[n - 1] = f[n - 1]
        BY <1>1, <2>2, <3>2
      <4>2. After(g, n) = After(f, n)
        BY <4>1
      <4>3. g[n] = After(f, n)
        <5>1. CASE n = m
          BY <5>1
        <5>2. CASE n # m
          <6>1. n \in 0 .. m - 1
            BY <1>1, <5>2
          <6> HIDE DEF After
          <6> QED
            BY <2>1, <2>2, <3>2, <6>1
        <5> QED
          BY <5>1, <5>2
      <4> HIDE DEF After, g
      <4> QED
        BY <3>2, <4>2, <4>3
    <3> QED
      BY <3>1, <3>2
  <2>4. g = [n \in 0 .. m |-> g[n]]
    OBVIOUS
  <2> HIDE DEF g, Value
  <2>5. g = [n \in 0 .. m |-> Value(g, n)]
    BY <2>3, <2>4
  <2> QED
    BY <2>5
<1>5. N \in P
  <2> HIDE DEF P
  <2> QED
    BY <1>1, <1>3, <1>4, UpTo
<1>6. PICK f : f = [n \in 0 .. N |-> Value(f, n)]
  BY <1>5
<1>7. rounds = [n \in 0 .. N |-> Value(rounds, n)]
  BY <1>6, Zenon
<1> HIDE DEF rounds, After
<1>8. rounds[0] = <<item>> /\ \A n \in 1 .. N : rounds[n] = After(rounds, n)
  BY <1>1, <1>7
<1> QED
  BY <1>2, <1>8 DEF After, N

(* What a list of lists comes to has what is in them and nothing else.     *)
LEMMA FlattenedHas ==
    ASSUME NEW S, NEW ss \in Seq(Seq(S))
    PROVE  /\ FlattenSeq(ss) \in Seq(S)
           /\ \A y : y \in Range(FlattenSeq(ss)) <=> \E k \in DOMAIN ss : y \in Range(ss[k])
<1> DEFINE t == FlattenSeq(ss)
<1>1. DOMAIN ss = 1 .. Len(ss)
  OBVIOUS
<1>2. t \in Seq(S) /\ GoesInto(t, ss, Len(ss))
  BY Flattened
<1>3. PICK row, col : ComesFrom(t, ss, Len(ss), row, col)
  BY Flattened
<1> HIDE DEF t
<1>4. ASSUME NEW a \in DOMAIN t
      PROVE  \E k \in DOMAIN ss : t[a] \in Range(ss[k])
  BY <1>1, <1>3 DEF ComesFrom, Range
<1>5. ASSUME NEW k \in DOMAIN ss, NEW m \in DOMAIN ss[k]
      PROVE  \E a \in DOMAIN t : t[a] = ss[k][m]
  BY <1>1, <1>2 DEF GoesInto
<1>6. \A y : y \in Range(t) <=> \E k \in DOMAIN ss : y \in Range(ss[k])
  BY <1>4, <1>5 DEF Range
<1> QED
  BY <1>2, <1>6 DEF t

LEMMA GivenIsListed ==
    ASSUME NEW x \in Children, NEW once \in BOOLEAN
    PROVE  GivenBy(x, once) \in Seq(Children)
<1>1. CASE x.kind = "repeater"
  <2>1. Times(x, once) \in Nat /\ x.items \in Seq(Children)
    BY ChildrenAssumption DEF Times
  <2> DEFINE ss == [n \in 1 .. Times(x, once) |-> x.items]
  <2>2. ss \in Seq(Seq(Children))
    BY <2>1
  <2> HIDE DEF ss
  <2>3. FlattenSeq(ss) \in Seq(Children)
    BY <2>2, FlattenedHas
  <2> QED
    BY <1>1, <2>3 DEF GivenBy, ss
<1>2. CASE x.kind # "repeater"
  BY <1>2 DEF GivenBy
<1> QED
  BY <1>1, <1>2

LEMMA GivenOnceIsMore ==
    ASSUME NEW x \in Children
    PROVE  Range(GivenBy(x, FALSE)) \subseteq Range(GivenBy(x, TRUE))
<1>1. CASE x.kind = "repeater"
  <2> DEFINE some == [n \in 1 .. x.times |-> x.items]
             one == [n \in 1 .. 1 |-> x.items]
  <2>1. x.items \in Seq(Children) /\ x.times \in Nat
    BY ChildrenAssumption
  <2>2. some \in Seq(Seq(Children)) /\ one \in Seq(Seq(Children))
    BY <2>1
  <2>3. \A k \in DOMAIN some : some[k] = x.items
    OBVIOUS
  <2>4. 1 \in DOMAIN one /\ one[1] = x.items
    OBVIOUS
  <2>5. GivenBy(x, FALSE) = FlattenSeq(some) /\ GivenBy(x, TRUE) = FlattenSeq(one)
    BY <1>1, Zenon DEF GivenBy, Times
  <2> HIDE DEF some, one
  <2>6. \A y : y \in Range(GivenBy(x, FALSE)) => y \in Range(x.items)
    BY <2>2, <2>3, <2>5, FlattenedHas
  <2>7. \A y : y \in Range(x.items) => y \in Range(GivenBy(x, TRUE))
    BY <2>2, <2>4, <2>5, FlattenedHas
  <2> QED
    BY <2>6, <2>7
<1>2. CASE x.kind # "repeater"
  BY <1>2 DEF GivenBy
<1> QED
  BY <1>1, <1>2

LEMMA RoundHas ==
    ASSUME NEW t \in Seq(Children), NEW once \in BOOLEAN
    PROVE  /\ NextRound(t, once) \in Seq(Children)
           /\ \A y : y \in Range(NextRound(t, once)) <=> \E x \in Range(t) : y \in Range(GivenBy(x, once))
<1> DEFINE ss == [i \in DOMAIN t |-> GivenBy(t[i], once)]
<1>1. \A i \in DOMAIN t : t[i] \in Children /\ GivenBy(t[i], once) \in Seq(Children)
  BY GivenIsListed
<1>2. ss \in Seq(Seq(Children))
  BY <1>1
<1>3. DOMAIN ss = DOMAIN t /\ \A i \in DOMAIN t : ss[i] = GivenBy(t[i], once)
  OBVIOUS
<1> HIDE DEF ss
<1>4. /\ FlattenSeq(ss) \in Seq(Children)
      /\ \A y : y \in Range(FlattenSeq(ss)) <=> \E i \in DOMAIN t : y \in Range(GivenBy(t[i], once))
  BY <1>2, <1>3, FlattenedHas
<1>5. \A y : (\E i \in DOMAIN t : y \in Range(GivenBy(t[i], once)))
                 <=> \E x \in Range(t) : y \in Range(GivenBy(x, once))
  BY DEF Range
<1> QED
  BY <1>4, <1>5 DEF NextRound, ss

LEMMA UnrolledIsListed ==
    ASSUME NEW item \in Children, NEW once \in BOOLEAN
    PROVE  Unrolled(item, once) \in Seq(Children)
<1>1. PICK f : /\ f[0] = <<item>> /\ \A n \in 1 .. Nesting : f[n] = NextRound(f[n - 1], once)
               /\ Unrolled(item, once) = f[Nesting]
  BY RoundsInTurn
<1> DEFINE P == {n \in Nat : f[n] \in Seq(Children)}
<1>2. 0 \in P
  <2>1. <<item>> \in Seq(Children)
    OBVIOUS
  <2> QED
    BY <1>1, <2>1, Zenon
<1>3. ASSUME NEW n \in 1 .. Nesting, n - 1 \in P
      PROVE  n \in P
  BY <1>1, <1>3, RoundHas, NestingAssumption
<1>4. Nesting \in Nat
  BY NestingAssumption
<1>5. Nesting \in P
  <2> HIDE DEF P
  <2> QED
    BY <1>2, <1>3, <1>4, UpTo
<1> QED
  BY <1>1, <1>5

(* What the data of repeaters makes of an item is among what the check sees *)
(* of it.                                                                  *)
LEMMA UnrolledOnceIsMore ==
    ASSUME NEW item \in Children
    PROVE  Range(Unrolled(item, FALSE)) \subseteq Range(Unrolled(item, TRUE))
<1>1. PICK f : /\ f[0] = <<item>> /\ \A n \in 1 .. Nesting : f[n] = NextRound(f[n - 1], FALSE)
               /\ Unrolled(item, FALSE) = f[Nesting]
  BY RoundsInTurn
<1>2. PICK g : /\ g[0] = <<item>> /\ \A n \in 1 .. Nesting : g[n] = NextRound(g[n - 1], TRUE)
               /\ Unrolled(item, TRUE) = g[Nesting]
  BY RoundsInTurn
<1> DEFINE P == {n \in Nat : /\ f[n] \in Seq(Children) /\ g[n] \in Seq(Children)
                             /\ Range(f[n]) \subseteq Range(g[n])}
<1>3. 0 \in P
  <2>1. <<item>> \in Seq(Children) /\ 0 \in Nat
    OBVIOUS
  <2>2. f[0] \in Seq(Children) /\ g[0] = f[0]
    BY <1>1, <1>2, <2>1, Zenon
  <2> QED
    BY <2>1, <2>2
<1>4. ASSUME NEW n \in 1 .. Nesting, n - 1 \in P
      PROVE  n \in P
  <2> DEFINE s == f[n - 1]
             t == g[n - 1]
  <2>1. s \in Seq(Children) /\ t \in Seq(Children) /\ Range(s) \subseteq Range(t)
    BY <1>4
  <2>2. f[n] = NextRound(s, FALSE) /\ g[n] = NextRound(t, TRUE)
    BY <1>1, <1>2
  <2> HIDE DEF s, t
  <2>3. Range(s) \subseteq Children
    BY <2>1 DEF Range
  <2>4. ASSUME NEW y \in Range(f[n])
        PROVE  y \in Range(g[n])
    <3>1. PICK x \in Range(s) : y \in Range(GivenBy(x, FALSE))
      BY <2>1, <2>2, <2>4, RoundHas
    <3>2. x \in Range(t) /\ y \in Range(GivenBy(x, TRUE))
      BY <2>1, <2>3, <3>1, GivenOnceIsMore
    <3> QED
      BY <2>1, <2>2, <3>2, RoundHas
  <2>5. f[n] \in Seq(Children) /\ g[n] \in Seq(Children)
    BY <2>1, <2>2, RoundHas
  <2>6. n \in Nat
    BY NestingAssumption
  <2> QED
    BY <2>4, <2>5, <2>6
<1>5. Nesting \in Nat
  BY NestingAssumption
<1>6. Nesting \in P
  <2> HIDE DEF P
  <2> QED
    BY <1>3, <1>4, <1>5, UpTo
<1> QED
  BY <1>1, <1>2, <1>6

LEMMA PlainIsItself ==
    ASSUME NEW item, NEW once, item.kind # "repeater"
    PROVE  Unrolled(item, once) = <<item>>
<1>1. PICK f : /\ f[0] = <<item>> /\ \A n \in 1 .. Nesting : f[n] = NextRound(f[n - 1], once)
               /\ Unrolled(item, once) = f[Nesting]
  BY RoundsInTurn
<1> DEFINE P == {n \in Nat : f[n] = <<item>>}
           ss == [i \in DOMAIN <<item>> |-> GivenBy(<<item>>[i], once)]
<1>2. 0 \in P
  BY <1>1
<1>3. NextRound(<<item>>, once) = <<item>>
  <2>1. ss = <<GivenBy(item, once)>>
    OBVIOUS
  <2>2. GivenBy(item, once) = <<item>>
    BY DEF GivenBy
  <2>3. NextRound(<<item>>, once) = FlattenSeq(ss)
    BY DEF NextRound
  <2> HIDE DEF ss
  <2> QED
    BY <2>1, <2>2, <2>3, FlattenOne
<1>4. ASSUME NEW n \in 1 .. Nesting, n - 1 \in P
      PROVE  n \in P
  BY <1>1, <1>3, <1>4, NestingAssumption
<1>5. Nesting \in Nat
  BY NestingAssumption
<1>6. Nesting \in P
  <2> HIDE DEF P
  <2> QED
    BY <1>2, <1>4, <1>5, UpTo
<1> QED
  BY <1>1, <1>6

\* What an item comes to, and what the check sees of it.
Comes(item) == Unrolled(item, FALSE)
Possible(item) == Unrolled(item, TRUE)
LEMMA ItemComesTo ==
    ASSUME NEW item \in Children
    PROVE  /\ Comes(item) \in Seq(Children) /\ Possible(item) \in Seq(Children)
           /\ Range(Comes(item)) \subseteq Range(Possible(item))
           /\ item.kind # "repeater" => Comes(item) = <<item>> /\ Possible(item) = <<item>>
<1>1. TRUE \in BOOLEAN /\ FALSE \in BOOLEAN
  OBVIOUS
<1> QED
  BY <1>1, UnrolledIsListed, UnrolledOnceIsMore, PlainIsItself, Zenon DEF Comes, Possible
-----------------------------------------------------------------------------
(* What stands at places of a list.                                        *)
LEMMA AtNowhere ==
    ASSUME NEW s
    PROVE  At(s, {}) = <<>>
<1>1. Cardinality({}) = 0
  BY FS_EmptySet
<1> DEFINE At0(n) == s[CHOOSE i \in {} : Cardinality({j \in {} : j <= i}) = n]
<1>2. At(s, {}) = [n \in 1 .. Cardinality({}) |-> At0(n)]
  BY DEF At
<1> HIDE DEF At0
<1> QED
  BY <1>1, <1>2

LEMMA AtOnePlace ==
    ASSUME NEW s, NEW i \in Nat
    PROVE  At(s, {i}) = <<s[i]>>
<1>1. Cardinality({i}) = 1
  BY FS_Singleton
<1> DEFINE At0(n) == s[CHOOSE k \in {i} : Cardinality({j \in {i} : j <= k}) = n]
<1>2. At(s, {i}) = [n \in 1 .. Cardinality({i}) |-> At0(n)]
  BY DEF At
<1>3. At0(1) = s[i]
  <2>1. {j \in {i} : j <= i} = {i}
    OBVIOUS
  <2> DEFINE there == CHOOSE k \in {i} : Cardinality({j \in {i} : j <= k}) = 1
  <2>2. there \in {i}
    <3>1. \E k \in {i} : Cardinality({j \in {i} : j <= k}) = 1
      BY <1>1, <2>1
    <3> QED
      BY <3>1, Zenon
  <2> HIDE DEF there
  <2>3. there = i
    BY <2>2
  <2> QED
    BY <2>3 DEF there
<1>4. At(s, {i}) = [n \in 1 .. 1 |-> s[i]]
  <2>1. \A n \in 1 .. 1 : At0(n) = s[i]
    <3>1. \A n \in 1 .. 1 : n = 1
      OBVIOUS
    <3> HIDE DEF At0
    <3> QED
      BY <1>3, <3>1
  <2>2. At(s, {i}) = [n \in 1 .. 1 |-> At0(n)]
    BY <1>1, <1>2
  <2> HIDE DEF At0
  <2> QED
    BY <2>1, <2>2
<1> QED
  BY <1>4

LEMMA AtIsWithin ==
    ASSUME NEW S, NEW s \in Seq(S), NEW places \in SUBSET DOMAIN s
    PROVE  At(s, places) \in Seq(S)
<1> DEFINE N == Len(s)
           UpToPlace(i) == {j \in places : j <= i}
           Count(i) == Cardinality(UpToPlace(i))
           k == Cardinality(places)
           There(n) == CHOOSE i \in places : Count(i) = n
           At0(n) == s[There(n)]
<1>1. N \in Nat /\ places \subseteq 1 .. N /\ \A i \in places : s[i] \in S
  OBVIOUS
<1>2. IsFiniteSet(places) /\ k \in Nat
  <2>1. IsFiniteSet(1 .. N)
    BY <1>1, FS_Interval
  <2> QED
    BY <1>1, <2>1, FS_Subset, FS_CardinalityType
<1>3. At(s, places) = [n \in 1 .. k |-> At0(n)]
  BY DEF At
<1>4. ASSUME NEW n \in 1 .. k
      PROVE  \E i \in places : Count(i) = n
  <2> SUFFICES ASSUME \A i \in places : Count(i) # n
               PROVE  FALSE
    OBVIOUS
  <2> DEFINE P == {m \in Nat : Count(m) \in Nat /\ Count(m) < n}
  <2>1. 0 \in P
    <3>1. UpToPlace(0) = {}
      BY <1>1
    <3>2. Count(0) = 0
      BY <3>1, FS_EmptySet
    <3> HIDE DEF Count
    <3> QED
      BY <1>2, <3>2
  <2>2. ASSUME NEW m \in 1 .. N, m - 1 \in P
        PROVE  m \in P
    <3>1. Count(m - 1) \in Nat /\ Count(m - 1) < n /\ m \in Nat /\ n \in Nat
      BY <1>1, <1>2, <2>2
    <3>2. CASE m \in places
      <4>1. UpToPlace(m) = UpToPlace(m - 1) \cup {m} /\ m \notin UpToPlace(m - 1)
        BY <1>1, <3>2
      <4>2. IsFiniteSet(UpToPlace(m - 1))
        BY <1>2, FS_Subset
      <4> HIDE DEF UpToPlace
      <4>3. Count(m) = Count(m - 1) + 1
        BY <4>1, <4>2, FS_AddElement
      <4>4. Count(m) # n
        BY <3>2
      <4> HIDE DEF Count
      <4> QED
        BY <3>1, <4>3, <4>4
    <3>3. CASE m \notin places
      <4>1. UpToPlace(m) = UpToPlace(m - 1)
        BY <1>1, <3>3
      <4> HIDE DEF UpToPlace
      <4>2. Count(m) = Count(m - 1)
        BY <4>1
      <4> HIDE DEF Count
      <4> QED
        BY <3>1, <4>2
    <3> QED
      BY <3>2, <3>3
  <2>3. N \in P
    <3> HIDE DEF P, N
    <3>1. 0 .. N \subseteq P
      BY <1>1, <2>1, <2>2, UpTo
    <3> QED
      BY <1>1, <3>1
  <2>4. UpToPlace(N) = places
    BY <1>1
  <2>5. Count(N) = k
    BY <2>4
  <2> HIDE DEF Count, k, N
  <2> QED
    BY <1>2, <2>3, <2>5
<1>5. ASSUME NEW n \in 1 .. k
      PROVE  At0(n) \in S
  <2>1. There(n) \in places
    <3>1. \E i \in places : Count(i) = n
      BY <1>4
    <3> HIDE DEF Count
    <3> QED
      BY <3>1, Zenon
  <2> HIDE DEF There
  <2> QED
    BY <1>1, <2>1
<1> HIDE DEF At0, k
<1> QED
  BY <1>2, <1>3, <1>5
-----------------------------------------------------------------------------
(* The items of a page as they are expanded, and as the check sees them.   *)
MadeFrom(items, made, row, col) ==
    /\ \A a \in DOMAIN made : /\ row[a] \in DOMAIN items /\ col[a] \in DOMAIN Comes(items[row[a]])
                              /\ made[a] = Comes(items[row[a]])[col[a]]
    /\ \A a, b \in DOMAIN made : row[a] = row[b] /\ col[a] = col[b] => a = b

LEMMA ExpandedIsListed ==
    ASSUME NEW items \in Seq(Children)
    PROVE  /\ Expanded(items) \in Seq(Children)
           /\ \E row, col : MadeFrom(items, Expanded(items), row, col)
<1> DEFINE ss == [i \in DOMAIN items |-> Comes(items[i])]
<1>1. \A i \in DOMAIN items : Comes(items[i]) \in Seq(Children)
  BY ItemComesTo
<1>2. ss \in Seq(Seq(Children)) /\ DOMAIN items = 1 .. Len(ss)
  BY <1>1
<1>3. \A i \in DOMAIN items : ss[i] = Comes(items[i])
  OBVIOUS
<1>4. Expanded(items) = FlattenSeq(ss)
  BY Zenon DEF Expanded, Comes
<1> HIDE DEF ss
<1>5. Expanded(items) \in Seq(Children)
  BY <1>2, <1>4, Flattened
<1>6. PICK row, col : ComesFrom(Expanded(items), ss, Len(ss), row, col)
  BY <1>2, <1>4, Flattened
<1>7. MadeFrom(items, Expanded(items), row, col)
  BY <1>2, <1>3, <1>6 DEF ComesFrom, MadeFrom
<1> QED
  BY <1>5, <1>7

Layout(page, spec) == TemplateOf(page, spec).name
SlotsOf(page, spec) == PageSlots(Layout(page, spec))
NamesOf(page, spec) == SlotNames(SlotsOf(page, spec))
Counted(items) ==
    {p \in Parts(items) : items[p.at[1]].kind = "repeater" => p.item.kind \in GlobalSlotNames}
KeptOf(page, spec, verdict) ==
    {p \in Counted(page.items) : RecordSlotFill(p.item, SlotsOf(page, spec), spec) = verdict}
LooseOf(page, spec) ==
    {p.item : p \in KeptOf(page, spec, "content")}
    \cup {x \in Range(page.items) : x.kind = "repeater" /\ HasContent(x)}

\* A page that the check is for, and has let pass.
HasPassed(page, spec) ==
    /\ ~ page.generated /\ IsWritten(TemplateOf(page, spec)) /\ Layout(page, spec) \in DOMAIN Layouts
    /\ page.items \in Seq(Children) /\ ValidatePage(page, spec)

LEMMA PassingMeans ==
    ASSUME NEW page, NEW spec, HasPassed(page, spec)
    PROVE  /\ IsCollection(Layout(page, spec)) => Layout(page, spec) = spec.template
           /\ KeptOf(page, spec, "refused") = {}
           /\ FillsOnce(SlotsOf(page, spec), KeptOf(page, spec, "fill"), LooseOf(page, spec))
           /\ FillsFit(SlotsOf(page, spec), KeptOf(page, spec, "fill"), LooseOf(page, spec), TRUE)
  BY Zenon DEF HasPassed, ValidatePage, Layout, SlotsOf, PageSlots, Counted, KeptOf, LooseOf

LEMMA PassingFills ==
    ASSUME NEW page, NEW spec, HasPassed(page, spec)
    PROVE  /\ KeptOf(page, spec, "refused") = {}
           /\ \A p, q \in KeptOf(page, spec, "fill") : p.item.kind = q.item.kind => p = q
           /\ LooseOf(page, spec) # {} => "content" \in NamesOf(page, spec)
           /\ \A slot \in SlotsOf(page, spec) :
                 \A x \in GivenTo(slot, KeptOf(page, spec, "fill"), LooseOf(page, spec)) :
                     Accepts(slot, x, TRUE)
  BY PassingMeans, Zenon DEF FillsOnce, FillsFit, NamesOf

LEMMA NamesAreKnown ==
    ASSUME NEW page, NEW spec, HasPassed(page, spec)
    PROVE  NamesOf(page, spec) \subseteq GlobalSlotNames /\ SiteSlotNames(spec) \subseteq GlobalSlotNames
<1>1. \A t : SlotNames(Slots(t)) \subseteq GlobalSlotNames
  <2> SUFFICES ASSUME NEW t, NEW name \in SlotNames(Slots(t))
               PROVE  name \in GlobalSlotNames
    OBVIOUS
  <2>1. PICK slot \in Slots(t) : name = slot.name
    BY DEF SlotNames
  <2>2. t \in DOMAIN Layouts /\ slot \in Layouts[t]
    BY <2>1 DEF Slots
  <2>3. name \in SlotNames(Layouts[t])
    BY <2>1, <2>2 DEF SlotNames
  <2> QED
    BY <2>2, <2>3 DEF GlobalSlotNames
<1>2. NamesOf(page, spec) \subseteq SlotNames(Slots(Layout(page, spec)))
  BY DEF NamesOf, SlotsOf, PageSlots, Repeated, SlotNames
<1>3. SiteSlotNames(spec) \subseteq GlobalSlotNames
  <2> SUFFICES ASSUME NEW name \in SiteSlotNames(spec)
               PROVE  name \in GlobalSlotNames
    OBVIOUS
  <2>1. \E t : name \in SlotNames(Slots(t))
    BY DEF SiteSlotNames
  <2> QED
    BY <1>1, <2>1
<1> QED
  BY <1>1, <1>2, <1>3

LEMMA PartsAre ==
    ASSUME NEW items
    PROVE  \A p : p \in Parts(items)
               <=> \E i \in DOMAIN items : \E n \in DOMAIN Possible(items[i]) :
                       p = PieceAt(<<i, n>>, Possible(items[i])[n])
<1>1. Parts(items) = UNION {{PieceAt(<<i, n>>, Possible(items[i])[n]) : n \in DOMAIN Possible(items[i])} :
                                i \in DOMAIN items}
  BY Zenon DEF Parts, Possible
<1> QED
  BY <1>1

LEMMA PieceIsCounted ==
    ASSUME NEW items \in Seq(Children), NEW i \in DOMAIN items, NEW y \in Range(Comes(items[i])),
           items[i].kind = "repeater" => y.kind \in GlobalSlotNames
    PROVE  \E n : PieceAt(<<i, n>>, y) \in Counted(items)
<1>1. y \in Range(Possible(items[i]))
  BY ItemComesTo
<1>2. PICK n \in DOMAIN Possible(items[i]) : Possible(items[i])[n] = y
  BY <1>1 DEF Range
<1> DEFINE p == PieceAt(<<i, n>>, y)
<1>3. p \in Parts(items)
  BY <1>2, PartsAre
<1>4. p.at[1] = i /\ p.item = y
  BY DEF PieceAt
<1> HIDE DEF p
<1>5. p \in Counted(items)
  BY <1>3, <1>4 DEF Counted
<1> QED
  BY <1>5 DEF p

LEMMA PiecesAreChildren ==
    ASSUME NEW items \in Seq(Children), NEW p \in Counted(items)
    PROVE  p.item \in Children
<1>1. PICK i \in DOMAIN items : \E n \in DOMAIN Possible(items[i]) : p = PieceAt(<<i, n>>, Possible(items[i])[n])
  BY PartsAre DEF Counted
<1>2. PICK n \in DOMAIN Possible(items[i]) : p = PieceAt(<<i, n>>, Possible(items[i])[n])
  BY <1>1
<1>3. Possible(items[i])[n] \in Children
  BY ItemComesTo
<1> QED
  BY <1>2, <1>3 DEF PieceAt

(* What the check says of a piece that it counts.                          *)
LEMMA VerdictOf ==
    ASSUME NEW page, NEW spec, HasPassed(page, spec), NEW p \in Counted(page.items)
    PROVE  LET kind == p.item.kind
           IN  /\ kind \in NamesOf(page, spec) => p \in KeptOf(page, spec, "fill")
               /\ kind \notin NamesOf(page, spec) /\ p.item.conditional => kind \in SiteSlotNames(spec)
               /\ kind \notin NamesOf(page, spec) /\ ~ p.item.conditional
                      => kind \notin GlobalSlotNames /\ p.item \in LooseOf(page, spec)
<1> DEFINE verdict == RecordSlotFill(p.item, SlotsOf(page, spec), spec)
<1>1. p.item.conditional \in BOOLEAN
  BY PiecesAreChildren, ChildrenAssumption DEF HasPassed
<1>2. verdict = IF p.item.kind \in NamesOf(page, spec) THEN "fill"
                ELSE IF p.item.conditional
                     THEN IF p.item.kind \in SiteSlotNames(spec) THEN "dropped" ELSE "refused"
                ELSE IF p.item.kind \in SiteSlotNames(spec) \cup GlobalSlotNames THEN "refused"
                ELSE "content"
  BY <1>1 DEF RecordSlotFill, NamesOf
<1>3. p \in KeptOf(page, spec, verdict)
  BY DEF KeptOf
<1> HIDE DEF verdict
<1>4. verdict # "refused"
  BY <1>3, PassingFills
<1>5. verdict = "content" => p.item \in LooseOf(page, spec)
  BY <1>3 DEF LooseOf
<1>6. CASE p.item.kind \in NamesOf(page, spec)
  BY <1>2, <1>3, <1>6
<1>7. CASE p.item.kind \notin NamesOf(page, spec)
  BY <1>1, <1>2, <1>4, <1>5, <1>7
<1> QED
  BY <1>6, <1>7

(* What a page comes to fills a slot once, and is all accounted for.       *)
LEMMA PlainlyMeans ==
    ASSUME NEW page, FillsPlainly(page), NEW x \in Range(page.items), x.kind = "repeater"
    PROVE  \A i, j \in DOMAIN Comes(x) :
               /\ Comes(x)[i].conditional => Comes(x)[i].kind \in GlobalSlotNames
               /\ Comes(x)[i].kind \in GlobalSlotNames /\ Comes(x)[i].kind = Comes(x)[j].kind => i = j
  BY Zenon DEF FillsPlainly, Comes

LEMMA MadeIsCounted ==
    ASSUME NEW items \in Seq(Children), NEW row, NEW col, MadeFrom(items, Expanded(items), row, col),
           NEW a \in DOMAIN Expanded(items),
           items[row[a]].kind = "repeater" => Expanded(items)[a].kind \in GlobalSlotNames
    PROVE  \E n : PieceAt(<<row[a], n>>, Expanded(items)[a]) \in Counted(items)
<1>1. row[a] \in DOMAIN items /\ Expanded(items)[a] \in Range(Comes(items[row[a]]))
  BY DEF MadeFrom, Range
<1> QED
  BY <1>1, PieceIsCounted

LEMMA FillsOfPiece == \A at, item : PieceAt(at, item).at = at /\ PieceAt(at, item).item = item
  BY DEF PieceAt

LEMMA FillIsOne ==
    ASSUME NEW page, NEW spec, HasPassed(page, spec), FillsPlainly(page),
           NEW slot \in NamesOf(page, spec),
           NEW a \in DOMAIN Expanded(page.items), NEW b \in DOMAIN Expanded(page.items),
           Expanded(page.items)[a].kind = slot, Expanded(page.items)[b].kind = slot
    PROVE  a = b
<1> DEFINE items == page.items
           made == Expanded(items)
<1>1. items \in Seq(Children)
  BY DEF HasPassed
<1>2. PICK row, col : MadeFrom(items, made, row, col)
  BY <1>1, ExpandedIsListed
<1>3. slot \in GlobalSlotNames
  BY NamesAreKnown
<1>4. PICK n : PieceAt(<<row[a], n>>, made[a]) \in Counted(items)
  BY <1>1, <1>2, <1>3, MadeIsCounted
<1>5. PICK m : PieceAt(<<row[b], m>>, made[b]) \in Counted(items)
  BY <1>1, <1>2, <1>3, MadeIsCounted
<1> DEFINE p == PieceAt(<<row[a], n>>, made[a])
           q == PieceAt(<<row[b], m>>, made[b])
<1>6. p.item = made[a] /\ q.item = made[b] /\ p.at = <<row[a], n>> /\ q.at = <<row[b], m>>
  BY FillsOfPiece
<1>7. p \in Counted(page.items) /\ q \in Counted(page.items)
  BY <1>4, <1>5
<1> HIDE DEF p, q, made
<1>8. made[a].kind = slot /\ made[b].kind = slot /\ a \in DOMAIN made /\ b \in DOMAIN made
  BY DEF made
<1>9. p \in KeptOf(page, spec, "fill") /\ q \in KeptOf(page, spec, "fill")
  BY <1>6, <1>7, <1>8, VerdictOf
<1>10. p = q
  BY <1>6, <1>8, <1>9, PassingFills, Zenon
<1>11. row[a] = row[b] /\ row[a] \in DOMAIN items
  BY <1>2, <1>6, <1>8, <1>10 DEF MadeFrom
<1> DEFINE x == items[row[a]]
<1>12. /\ col[a] \in DOMAIN Comes(x) /\ col[b] \in DOMAIN Comes(x)
       /\ made[a] = Comes(x)[col[a]] /\ made[b] = Comes(x)[col[b]]
  BY <1>2, <1>8, <1>11 DEF MadeFrom
<1>13. x \in Children /\ x \in Range(items)
  BY <1>1, <1>11 DEF Range
<1>14. col[a] = col[b]
  <2> HIDE DEF x
  <2>1. CASE x.kind = "repeater"
    BY <1>3, <1>8, <1>12, <1>13, <2>1, PlainlyMeans
  <2>2. CASE x.kind # "repeater"
    <3>1. DOMAIN Comes(x) = {1}
      BY <1>13, <2>2, ItemComesTo
    <3> QED
      BY <1>12, <3>1
  <2> QED
    BY <2>1, <2>2
<1> QED
  BY <1>2, <1>8, <1>11, <1>14 DEF MadeFrom

LEMMA FillsAre ==
    ASSUME NEW page, NEW spec, HasPassed(page, spec), FillsPlainly(page),
           NEW slot \in NamesOf(page, spec)
    PROVE  LET made == Expanded(page.items)
           IN  \/ FillsOf(made, slot) = <<>> /\ InFills(made, slot) = <<>>
               \/ \E a \in DOMAIN made : /\ made[a].kind = slot /\ made[a].items \in Seq(Children)
                                         /\ FillsOf(made, slot) = <<made[a]>>
                                         /\ InFills(made, slot) = made[a].items
<1> DEFINE made == Expanded(page.items)
           places == {i \in DOMAIN made : made[i].kind = slot}
           fills == FillsOf(made, slot)
<1>1. fills = At(made, places)
  BY DEF FillsOf
<1>2. InFills(made, slot) = FlattenSeq([i \in DOMAIN fills |-> fills[i].items])
  BY DEF InFills
<1>3. CASE places = {}
  <2>1. fills = <<>>
    BY <1>1, <1>3, AtNowhere
  <2> HIDE DEF fills
  <2>2. [i \in DOMAIN fills |-> fills[i].items] = <<>>
    BY <2>1
  <2>3. FlattenSeq(<<>>) = <<>>
    BY DEF FlattenSeq
  <2> QED
    BY <1>2, <2>1, <2>2, <2>3 DEF fills
<1>4. CASE places # {}
  <2>1. PICK a \in DOMAIN made : made[a].kind = slot
    BY <1>4
  <2>2. places = {a}
    BY <2>1, FillIsOne
  <2>3. made \in Seq(Children)
    BY ExpandedIsListed DEF HasPassed
  <2> HIDE DEF made
  <2>4. a \in Nat /\ made[a] \in Children
    BY <2>1, <2>3
  <2>5. fills = <<made[a]>>
    BY <1>1, <2>2, <2>4, AtOnePlace
  <2> HIDE DEF fills
  <2>6. [i \in DOMAIN fills |-> fills[i].items] = <<made[a].items>>
    BY <2>5
  <2>7. InFills(made, slot) = made[a].items
    BY <1>2, <2>6, FlattenOne
  <2>8. made[a].items \in Seq(Children)
    BY <2>4, ChildrenAssumption
  <2> QED
    BY <2>1, <2>5, <2>7, <2>8 DEF fills, made
<1> QED
  BY <1>3, <1>4

LEMMA AllAreAccountedFor ==
    ASSUME NEW page, NEW spec, HasPassed(page, spec), FillsPlainly(page),
           NEW y \in Range(Expanded(page.items))
    PROVE  /\ y \in Children
           /\ y.kind \in NamesOf(page, spec)
                 => \E p \in KeptOf(page, spec, "fill") : p.item = y
           /\ y.kind \notin NamesOf(page, spec) /\ y.conditional => y.kind \in SiteSlotNames(spec)
           /\ y.kind \notin NamesOf(page, spec) /\ ~ y.conditional
                 => "content" \in NamesOf(page, spec) /\ y.kind \notin GlobalSlotNames
<1> DEFINE items == page.items
           made == Expanded(items)
           names == NamesOf(page, spec)
<1>1. items \in Seq(Children)
  BY DEF HasPassed
<1>2. PICK row, col : MadeFrom(items, made, row, col)
  BY <1>1, ExpandedIsListed
<1>3. PICK a \in DOMAIN made : y = made[a]
  BY DEF Range
<1>4. made \in Seq(Children)
  BY <1>1, ExpandedIsListed
<1> HIDE DEF made
<1>5. y \in Children
  BY <1>3, <1>4
<1>6. y.conditional \in BOOLEAN
  BY <1>5, ChildrenAssumption
<1> DEFINE x == items[row[a]]
<1>7. row[a] \in DOMAIN items /\ col[a] \in DOMAIN Comes(x) /\ y = Comes(x)[col[a]]
  BY <1>2, <1>3 DEF MadeFrom
<1>8. x \in Range(items) /\ x \in Children
  BY <1>1, <1>7 DEF Range
<1> HIDE DEF x
<1>9. names \subseteq GlobalSlotNames
  BY NamesAreKnown
<1>10. CASE x.kind = "repeater" /\ y.kind \notin GlobalSlotNames
  <2>1. ~ y.conditional
    BY <1>7, <1>8, <1>10, PlainlyMeans
  <2>2. HasContent(x)
    <3>1. y \in Range(Comes(x))
      BY <1>7 DEF Range
    <3>2. y \in Range(Possible(x))
      BY <1>8, <3>1, ItemComesTo
    <3> QED
      BY <1>10, <3>2, Zenon DEF HasContent, Possible
  <2>3. x \in LooseOf(page, spec)
    BY <1>8, <1>10, <2>2 DEF LooseOf
  <2>4. "content" \in names
    BY <2>3, PassingFills
  <2> QED
    BY <1>5, <1>9, <1>10, <2>1, <2>4
<1>11. CASE ~ (x.kind = "repeater" /\ y.kind \notin GlobalSlotNames)
  <2>1. PICK n : PieceAt(<<row[a], n>>, y) \in Counted(items)
    BY <1>1, <1>2, <1>3, <1>11, MadeIsCounted DEF made, x
  <2> DEFINE p == PieceAt(<<row[a], n>>, y)
  <2>2. p.item = y /\ p \in Counted(page.items)
    BY <2>1, FillsOfPiece
  <2> HIDE DEF p
  <2>3. /\ y.kind \in names => p \in KeptOf(page, spec, "fill")
        /\ y.kind \notin names /\ y.conditional => y.kind \in SiteSlotNames(spec)
        /\ y.kind \notin names /\ ~ y.conditional
               => y.kind \notin GlobalSlotNames /\ y \in LooseOf(page, spec)
    BY <2>2, VerdictOf, Zenon
  <2>4. y \in LooseOf(page, spec) => "content" \in names
    BY PassingFills
  <2> HIDE DEF names
  <2>5. y.kind \in names => \E q \in KeptOf(page, spec, "fill") : q.item = y
    BY <2>2, <2>3
  <2> QED
    BY <1>5, <2>3, <2>4, <2>5 DEF names
<1> QED
  BY <1>10, <1>11

LEMMA SlotsTakeThem ==
    ASSUME NEW page, NEW spec, HasPassed(page, spec), FillsPlainly(page),
           NEW y \in Range(Expanded(page.items)), y.kind \in NamesOf(page, spec),
           NEW z \in Range(y.items), NEW slot \in SlotsOf(page, spec), slot.name = y.kind
    PROVE  Accepts(slot, z, TRUE)
<1> DEFINE fills == KeptOf(page, spec, "fill")
           loose == LooseOf(page, spec)
<1>1. PICK p \in fills : p.item = y
  BY AllAreAccountedFor
<1> HIDE DEF fills, loose
<1>2. z \in GivenTo(slot, fills, loose)
  BY <1>1 DEF GivenTo
<1> QED
  BY <1>2, PassingFills, Zenon DEF fills, loose

LEMMA ContentTakesThem ==
    ASSUME NEW page, NEW spec, HasPassed(page, spec),
           NEW x \in Range(page.items), x.kind \notin NamesOf(page, spec), ~ x.conditional,
           x.kind = "repeater" => HasContent(x),
           NEW slot \in SlotsOf(page, spec), slot.name = "content"
    PROVE  Accepts(slot, x, TRUE)
<1> DEFINE fills == KeptOf(page, spec, "fill")
           loose == LooseOf(page, spec)
           items == page.items
<1>1. x \in loose
  <2>1. CASE x.kind = "repeater"
    BY <2>1 DEF LooseOf
  <2>2. CASE x.kind # "repeater"
    <3>1. items \in Seq(Children)
      BY DEF HasPassed
    <3>2. PICK i \in DOMAIN items : x = items[i]
      BY DEF Range
    <3>3. x \in Children
      BY <3>1, <3>2
    <3>4. x \in Range(Comes(x))
      <4>1. Comes(x) = <<x>>
        BY <2>2, <3>3, ItemComesTo
      <4>2. 1 \in DOMAIN Comes(x) /\ Comes(x)[1] = x
        BY <4>1
      <4> QED
        BY <4>2 DEF Range
    <3>5. PICK n : PieceAt(<<i, n>>, x) \in Counted(items)
      BY <2>2, <3>1, <3>2, <3>4, PieceIsCounted
    <3> DEFINE p == PieceAt(<<i, n>>, x)
    <3>6. p.item = x /\ p \in Counted(page.items)
      BY <3>5, FillsOfPiece
    <3> HIDE DEF p
    <3> QED
      BY <3>6, VerdictOf, Zenon
  <2> QED
    BY <2>1, <2>2
<1> HIDE DEF fills, loose
<1>2. x \in GivenTo(slot, fills, loose)
  <2> DEFINE filled == UNION {Range(p.item.items) : p \in {p \in fills : p.item.kind = slot.name}}
             rest == IF slot.name = "content" THEN loose ELSE {}
  <2>1. GivenTo(slot, fills, loose) = rest \cup filled
    BY Zenon DEF GivenTo
  <2>2. rest = loose
    OBVIOUS
  <2> HIDE DEF filled, rest
  <2> QED
    BY <1>1, <2>1, <2>2
<1> QED
  BY <1>2, PassingFills, Zenon DEF fills, loose

LEMMA RestIsListed ==
    ASSUME NEW page, NEW spec, HasPassed(page, spec), NEW names
    PROVE  NotInFills(Expanded(page.items), names) \in Seq(Children)
<1> DEFINE made == Expanded(page.items)
           places == {i \in DOMAIN made : made[i].kind \notin names /\ ~ made[i].conditional}
<1>1. made \in Seq(Children)
  BY ExpandedIsListed DEF HasPassed
<1>2. places \in SUBSET DOMAIN made
  OBVIOUS
<1>3. NotInFills(made, names) = At(made, places)
  BY Zenon DEF NotInFills
<1> HIDE DEF made, places
<1>4. NotInFills(made, names) \in Seq(Children)
  BY <1>1, <1>2, <1>3, AtIsWithin
<1> QED
  BY <1>4 DEF made

LEMMA JoinedWithNothing == \A t \in Seq(Children) : <<>> \o t = t /\ t \o <<>> = t
  OBVIOUS

\* Where a page means its blocks to go, its content and its fills apart.
LEMMA MeantIs ==
    ASSUME NEW page, NEW spec, HasPassed(page, spec), FillsPlainly(page),
           NEW slot \in NamesOf(page, spec)
    PROVE  LET made == Expanded(page.items)
               names == NamesOf(page, spec)
           IN  /\ slot = "content" => Meant(page, names, slot) = NotInFills(made, names)
               /\ slot # "content" => Meant(page, names, slot) = InFills(made, slot)
<1> DEFINE made == Expanded(page.items)
           names == NamesOf(page, spec)
<1>1. CASE slot = "content"
  <2>1. \A a \in DOMAIN made : made[a].kind # "content"
    BY Zenon DEF FillsPlainly, Range
  <2>2. InFills(made, slot) = <<>>
    BY <1>1, <2>1, FillsAre
  <2>3. Meant(page, names, slot) = InFills(made, slot) \o NotInFills(made, names)
    BY <1>1 DEF Meant
  <2>4. NotInFills(made, names) \in Seq(Children)
    BY RestIsListed
  <2> HIDE DEF made, names
  <2> QED
    BY <1>1, <2>2, <2>3, <2>4, JoinedWithNothing DEF made, names
<1>2. CASE slot # "content"
  <2>1. Meant(page, names, slot) = InFills(made, slot) \o <<>>
    BY <1>2 DEF Meant
  <2>2. InFills(made, slot) \in Seq(Children)
    <3>1. <<>> \in Seq(Children)
      OBVIOUS
    <3>2. \/ FillsOf(made, slot) = <<>> /\ InFills(made, slot) = <<>>
          \/ \E a \in DOMAIN made : /\ made[a].items \in Seq(Children)
                                    /\ FillsOf(made, slot) = <<made[a]>>
                                    /\ InFills(made, slot) = made[a].items
      BY FillsAre
    <3> HIDE DEF made
    <3> QED
      BY <3>1, <3>2
  <2> HIDE DEF made, names
  <2> QED
    BY <1>2, <2>1, <2>2, JoinedWithNothing DEF made, names
<1> QED
  BY <1>1, <1>2

LEMMA PageIsPlaced ==
    ASSUME NEW page, NEW spec, HasPassed(page, spec), FillsPlainly(page),
           NEW slot \in NamesOf(page, spec), ~ IsCollection(spec.template)
    PROVE  Place(page.items, Layout(page, spec), spec)[slot] = Meant(page, NamesOf(page, spec), slot)
<1> DEFINE made == Expanded(page.items)
           template == Layout(page, spec)
           names == SlotNames(Slots(template))
           Passed(x) == x.conditional /\ x.kind \in SiteSlotNames(spec)
           loose == At(made, {i \in DOMAIN made : made[i].kind \notin names /\ ~ Passed(made[i])})
           filled == IF FillsOf(made, slot) = <<>> THEN <<>> ELSE Last(FillsOf(made, slot)).items
<1>1. ~ IsCollection(template) /\ template # None
  BY PassingMeans, LayoutsAssumption, Zenon DEF HasPassed
<1>2. names = NamesOf(page, spec)
  BY <1>1 DEF NamesOf, SlotsOf, PageSlots
<1>3. Place(page.items, template, spec)[slot] = IF slot = "content" THEN loose ELSE filled
  BY <1>1, <1>2 DEF Place
<1>4. CASE slot = "content"
  <2>1. ASSUME NEW i \in DOMAIN made, made[i].kind \notin names
        PROVE  ~ Passed(made[i]) <=> ~ made[i].conditional
    <3>1. made[i] \in Range(made)
      BY DEF Range
    <3>2. made[i].conditional \in BOOLEAN
      BY <3>1, AllAreAccountedFor, ChildrenAssumption
    <3>3. made[i].conditional => made[i].kind \in SiteSlotNames(spec)
      BY <1>2, <2>1, <3>1, AllAreAccountedFor
    <3> QED
      BY <3>2, <3>3
  <2>2. {i \in DOMAIN made : made[i].kind \notin names /\ ~ Passed(made[i])}
            = {i \in DOMAIN made : made[i].kind \notin names /\ ~ made[i].conditional}
    BY <2>1
  <2>3. loose = NotInFills(made, names)
    BY <2>2, Zenon DEF NotInFills
  <2> HIDE DEF loose
  <2> QED
    BY <1>2, <1>3, <1>4, <2>3, MeantIs
<1>5. CASE slot # "content"
  <2>1. filled = InFills(made, slot)
    <3>1. \A x : <<x>> # <<>> /\ Last(<<x>>) = x
      BY DEF Last
    <3>2. \/ FillsOf(made, slot) = <<>> /\ InFills(made, slot) = <<>>
          \/ \E a \in DOMAIN made : /\ made[a].items \in Seq(Children)
                                    /\ FillsOf(made, slot) = <<made[a]>>
                                    /\ InFills(made, slot) = made[a].items
      BY FillsAre
    <3>3. CASE FillsOf(made, slot) = <<>> /\ InFills(made, slot) = <<>>
      BY <3>3
    <3>4. ASSUME NEW a \in DOMAIN made, FillsOf(made, slot) = <<made[a]>>,
                 InFills(made, slot) = made[a].items
          PROVE  filled = InFills(made, slot)
      <4> HIDE DEF made
      <4> QED
        BY <3>1, <3>4
    <3> HIDE DEF made, filled
    <3> QED
      BY <3>2, <3>3, <3>4
  <2> HIDE DEF filled
  <2> QED
    BY <1>2, <1>3, <1>5, <2>1, MeantIs
<1> QED
  BY <1>4, <1>5

LEMMA MemberIsPlaced ==
    ASSUME NEW page, NEW spec, HasPassed(page, spec), FillsPlainly(page),
           NEW slot \in NamesOf(page, spec)
    PROVE  PlaceMember(page.items, SlotsOf(page, spec))[slot] = Meant(page, NamesOf(page, spec), slot)
<1>1. PlaceMember(page.items, SlotsOf(page, spec))[slot]
          = IF slot = "content" THEN NotInFills(Expanded(page.items), NamesOf(page, spec))
            ELSE InFills(Expanded(page.items), slot)
  BY DEF PlaceMember, NamesOf
<1> QED
  BY <1>1, MeantIs
-----------------------------------------------------------------------------
(* What a build that is done has placed.                                   *)
LEMMA PagesHaveItems ==
    ASSUME NEW doc \in Documents \cup Revisions, NEW i \in DOMAIN CollectSiteSpecs(doc),
           NEW k \in DOMAIN SpecAt(doc, i).pages
    PROVE  SpecAt(doc, i).pages[k].items \in Seq(Children)
<1> DEFINE all == Range(doc.pages)
           pages == SpecAt(doc, i).pages
<1>1. doc.pages \in Seq(all) /\ \A page \in all : page.items \in Seq(Children)
  BY DocumentsAssumption DEF Range
<1>2. pages \in Seq(all)
  <2>1. CASE doc.sites = <<>>
    <3> DEFINE w == WholeSite(doc)
    <3>1. CollectSiteSpecs(doc) = <<w>> /\ w.pages = doc.pages
      BY <2>1 DEF CollectSiteSpecs, WholeSite
    <3> HIDE DEF w
    <3>2. SpecAt(doc, i) = w
      BY <3>1 DEF SpecAt
    <3> QED
      BY <1>1, <3>1, <3>2
  <2>2. CASE doc.sites # <<>>
    <3> DEFINE places == {j \in DOMAIN doc.pages : InSite(doc.pages[j], doc.sites[i].name)}
    <3> DEFINE spec(j) == SiteSpec(doc, doc.sites[j])
    <3>1. CollectSiteSpecs(doc) = [j \in DOMAIN doc.sites |-> spec(j)]
      BY <2>2 DEF CollectSiteSpecs
    <3> HIDE DEF spec
    <3>2. SpecAt(doc, i) = spec(i)
      BY <3>1 DEF SpecAt
    <3>4. pages = At(doc.pages, places)
      BY <3>2 DEF spec, SiteSpec
    <3>3. places \in SUBSET DOMAIN doc.pages
      OBVIOUS
    <3> HIDE DEF places, pages, all
    <3> QED
      BY <1>1, <3>3, <3>4, AtIsWithin
  <2> QED
    BY <2>1, <2>2
<1> HIDE DEF all
<1>3. pages[k] \in all
  BY <1>2
<1> QED
  BY <1>1, <1>3

LEMMA CheckedHavePassed ==
    ASSUME NEW files, BuiltWell(authored, files, Made), authored \in Documents \cup Revisions,
           NEW i \in DOMAIN Specs, NEW k \in CheckedPages(Specs[i])
    PROVE  HasPassed(Specs[i].pages[k], Specs[i]) /\ FillsPlainly(Specs[i].pages[k])
<1> DEFINE spec == Specs[i]
           page == spec.pages[k]
<1>1. /\ k \in DOMAIN spec.pages /\ ~ page.generated /\ FillsPlainly(page)
      /\ IsWritten(TemplateOf(page, spec)) /\ TemplateOf(page, spec).name \in DOMAIN Layouts
  BY DEF CheckedPages
<1>2. ValidatePage(page, spec)
  <2>1. ValidateSlotContracts(SpecAt(authored, i))
    BY DEF BuiltWell, IsDone, Specs
  <2> QED
    BY <1>1, <2>1, SpecsInOrder DEF ValidateSlotContracts
<1>3. page.items \in Seq(Children)
  BY <1>1, PagesHaveItems, SpecsInOrder DEF Specs
<1> QED
  BY <1>1, <1>2, <1>3 DEF HasPassed, Layout

LEMMA PlacedAsMeant ==
    ASSUME NEW files, BuiltWell(authored, files, Made), authored \in Documents \cup Revisions,
           NEW i \in DOMAIN Specs, NEW k \in CheckedPages(Specs[i]),
           NEW slot \in NamesOf(Specs[i].pages[k], Specs[i])
    PROVE  PlacedOf(Specs[i], k)[slot]
               = Meant(Specs[i].pages[k], NamesOf(Specs[i].pages[k], Specs[i]), slot)
<1> DEFINE spec == Specs[i]
           page == spec.pages[k]
<1>1. spec = SpecAt(authored, i) /\ k \in DOMAIN spec.pages /\ ~ IsOverwritten(spec)
  BY SpecsInOrder DEF CheckedPages
<1>2. HasPassed(page, spec) /\ FillsPlainly(page)
  BY CheckedHavePassed
<1>3. CASE IsCollection(spec.template)
  <2>1. Layout(page, spec) = spec.template
    BY <1>3 DEF CheckedPages, Layout
  <2>2. SlotsOf(page, spec) = Repeated(Slots(spec.template))
    BY <1>3, <2>1 DEF SlotsOf, PageSlots
  <2>3. HasMembers(authored, i, Made)
    BY <1>1, <1>3 DEF BuiltWell, IsDone, HasAll, Specs
  <2>4. output[IndexOf(spec)].placed = MembersOf(authored, i)
    BY <2>3, SpecsInOrder DEF HasMembers, Made
  <2>5. MembersOf(authored, i)[k] = PlaceMember(page.items, SlotsOf(page, spec))
    BY <1>1, <2>2 DEF MembersOf
  <2>6. PlacedOf(spec, k) = PlaceMember(page.items, SlotsOf(page, spec))
    BY <1>3, <2>4, <2>5 DEF PlacedOf
  <2> HIDE DEF spec
  <2> QED
    BY <1>2, <2>6, MemberIsPlaced DEF spec
<1>4. CASE ~ IsCollection(spec.template)
  <2>1. page \in Own(spec)
    BY <1>4 DEF CheckedPages
  <2>2. IsOfPage(authored, i, k, <<Dir(authored, i), page.name>>, Made)
    BY <1>1, <2>1, OwnPageIsWritten
  <2>3. output[<<DirectoryOf(spec), page.name>>].placed = PlacedOn(authored, i, k)
    BY <2>2, SpecsInOrder DEF IsOfPage, Made
  <2>4. PlacedOn(authored, i, k) = Place(page.items, Layout(page, spec), spec)
    BY <1>1 DEF PlacedOn, Layout
  <2>5. PlacedOf(spec, k) = Place(page.items, Layout(page, spec), spec)
    BY <1>4, <2>3, <2>4 DEF PlacedOf
  <2> HIDE DEF spec
  <2> QED
    BY <1>2, <1>4, <2>5, PageIsPlaced DEF spec
<1> QED
  BY <1>3, <1>4

LEMMA SitesLoseNothing == SitesInv => NothingIsLost
<1> SUFFICES ASSUME SitesInv, IsBuilt
             PROVE  NothingIsLost
  BY DEF NothingIsLost
<1>1. PICK files : BuiltWell(authored, files, Made)
  BY DEF SitesInv
<1>2. authored \in Documents \cup Revisions
  BY DEF SitesInv
<1>3. ASSUME NEW spec \in Range(Specs), NEW k \in CheckedPages(spec)
      PROVE  LET page == spec.pages[k]
                 slots == PageSlots(TemplateOf(page, spec).name)
                 names == SlotNames(slots)
                 placed == PlacedOf(spec, k)
                 Takes(slot, x) == \A s \in slots : s.name = slot => Accepts(s, x, TRUE)
             IN  /\ \A slot \in names : placed[slot] = Meant(page, names, slot)
                 /\ \A x \in Range(Expanded(page.items)) :
                       IF x.kind \in names THEN \A y \in Range(x.items) : Takes(x.kind, y)
                       ELSE IF x.conditional THEN x.kind \in SiteSlotNames(spec)
                       ELSE "content" \in names /\ x.kind \notin GlobalSlotNames
                 /\ \A x \in Range(page.items) :
                       x.kind \notin names /\ ~x.conditional /\ (x.kind = "repeater" => HasContent(x))
                       => Takes("content", x)
  <2> DEFINE page == spec.pages[k]
             slots == PageSlots(TemplateOf(page, spec).name)
             names == SlotNames(slots)
             Takes(slot, x) == \A s \in slots : s.name = slot => Accepts(s, x, TRUE)
  <2>1. slots = SlotsOf(page, spec) /\ names = NamesOf(page, spec)
    BY DEF SlotsOf, NamesOf, Layout
  <2>2. PICK i \in DOMAIN Specs : spec = Specs[i]
    BY SpecsInOrder
  <2>3. HasPassed(page, spec) /\ FillsPlainly(page)
    BY <1>1, <1>2, <2>2, CheckedHavePassed
  <2> HIDE DEF slots, names
  <2>4. ASSUME NEW slot \in names
        PROVE  PlacedOf(spec, k)[slot] = Meant(page, names, slot)
    BY <1>1, <1>2, <2>1, <2>2, PlacedAsMeant
  <2> HIDE DEF page
  <2>5. ASSUME NEW x \in Range(Expanded(page.items))
        PROVE  IF x.kind \in names THEN \A y \in Range(x.items) : Takes(x.kind, y)
               ELSE IF x.conditional THEN x.kind \in SiteSlotNames(spec)
               ELSE "content" \in names /\ x.kind \notin GlobalSlotNames
    <3>1. CASE x.kind \in names
      <4>1. \A y \in Range(x.items), s \in slots : s.name = x.kind => Accepts(s, y, TRUE)
        BY <2>1, <2>3, <3>1, SlotsTakeThem, Zenon
      <4> QED
        BY <3>1, <4>1, Zenon
    <3>2. CASE x.kind \notin names
      <4>1. /\ x.conditional => x.kind \in SiteSlotNames(spec)
            /\ ~ x.conditional => "content" \in names /\ x.kind \notin GlobalSlotNames
        BY <2>1, <2>3, <3>2, AllAreAccountedFor, Zenon
      <4> QED
        BY <3>2, <4>1, Zenon
    <3> QED
      BY <3>1, <3>2
  <2>6. ASSUME NEW x \in Range(page.items), x.kind \notin names, ~ x.conditional,
               x.kind = "repeater" => HasContent(x)
        PROVE  Takes("content", x)
    BY <2>1, <2>3, <2>6, ContentTakesThem, Zenon
  <2> HIDE DEF Takes
  <2> QED
    BY <2>4, <2>5, <2>6, Zenon DEF page, slots, names, Takes
<1> QED
  BY <1>3, Zenon DEF NothingIsLost

(* A build that succeeds gives each slot of a checked page what the page   *)
(* wrote for it and leaves out only what it fills on demand for another    *)
(* layout of its site: for any documents and layouts, as deep as their     *)
(* repeaters are nested, and after any builds and edits.                   *)
THEOREM NothingIsEverLost == SitesSpec => []NothingIsLost
<1>1. SitesInit => SitesInv
  BY SitesInitially
<1>2. SitesInv /\ [SitesNext]_siteVars => SitesInv'
  BY SitesStay
<1>3. SitesInv => NothingIsLost
  BY SitesLoseNothing
<1> QED
  BY <1>1, <1>2, <1>3, PTL DEF SitesSpec
=============================================================================
