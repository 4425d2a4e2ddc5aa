----------------------------- MODULE SiteBuild -----------------------------
(***************************************************************************)
(* The documentation site of wcl_wdoc as `wcl wdoc serve` keeps it: full    *)
(* and targeted builds of one site into one output directory               *)
(* (src/build.rs), and the dev server state that decides which of the two  *)
(* a rebuild is (src/serve/mod.rs).                                        *)
(*                                                                         *)
(* A source file is either the entry document Root, which imports the      *)
(* others and holds the `site` block, or a file that holds one page.  The  *)
(* text of a file is a record of what the build tells apart:               *)
(*   title    the first heading of its page, NoPage when it has none       *)
(*   body     the rest of the page                                         *)
(*   broken   "no", "syntax" (the document does not open), "page" (the     *)
(*            page cannot be rendered) or "eval" (rendering goes on and    *)
(*            the error is reported at the end)                            *)
(*   defines  what other pages see of the file: the site chrome and the    *)
(*            styles of Root, the top-level definitions of any file        *)
(*   links, icons, players, start    what the page refers to               *)
(*   toc      the pages the chapter list in the `site` block names         *)
(***************************************************************************)
EXTENDS Naturals, FiniteSets

CONSTANTS
    Pages,           \* the page files, each named after its page
    Root,            \* the entry document
    Drafts,          \* the texts each file may hold
    First,           \* the text of each file when the server first starts
    NoPage,          \* the title of a file that declares no page
    Nothing,         \* a file that is not on disk, or not read
    EditsUnwatched,  \* whether files change while no watcher is registered
    MaxEdits,        \* bound on the changes to the source
    MaxStops         \* bound on the times the server is stopped

Files == Pages \cup {Root}
Texts == UNION {Drafts[f] : f \in Files}

ASSUME FilesAssumption == IsFiniteSet(Pages) /\ Root \notin Pages
ASSUME DraftsAssumption ==
    /\ First \in [Files -> Texts]
    /\ \A f \in Files : First[f] \in Drafts[f] /\ Nothing \notin Drafts[f]
    /\ \A t \in Drafts[Root] : t.title = NoPage
    /\ \A t \in Texts : t.broken \in {"no", "syntax", "page", "eval"}
ASSUME BoundsAssumption ==
    /\ EditsUnwatched \in BOOLEAN
    /\ MaxEdits \in Nat
    /\ MaxStops \in Nat

VARIABLES
    \* The world outside the build.
    source,     \* the text of each file
    noted,      \* files whose change the watcher has not added to `pending`
    pending,    \* ServeState::pending
    watching,   \* the watcher is registered
    edits,
    stops,
    \* The build that runs, if any.
    phase,      \* "down", "idle", "reading" or "writing"
    full,       \* it renders every page
    changed,    \* the drained change set
    read,       \* the text it read of each file
    todo,       \* pages still to write
    \* The output directory.
    out,        \* <page>.html
    index,      \* index.html, the copy of the start page
    manifest,   \* _wdoc/pages.json
    sprite,     \* the icons of _wdoc/icons.svg
    scripts,    \* the player scripts under _wdoc/
    error,      \* ServeState::error is set
    \* History, which no action reads.
    unseen,     \* changed files that neither the watcher nor a build owes
    covered     \* changed files the running build answers for

world == <<source, noted, pending, watching, edits, stops>>
build == <<phase, full, changed, read, todo>>
disk == <<out, index, manifest, sprite, scripts>>
history == <<unseen, covered>>
vars == <<world, build, disk, error, history>>

-----------------------------------------------------------------------------
(* What a build makes of the texts it read. *)

Present(texts) == {p \in Pages : texts[p].title # NoPage}

\* The navigation every page renders: nav_manifest.
Nav(texts) == [p \in Pages |-> texts[p].title]

\* A page shows its own text, and of every file its title and definitions.
Seen(text) == [title |-> text.title, defines |-> text.defines]
Render(p, texts) ==
    [own |-> texts[p], seen |-> [f \in Files |-> Seen(texts[f])]]

Renderings == [own : Texts, seen : [Files -> {Seen(t) : t \in Texts}]]
Rendered == Renderings \cup {Nothing}

ASSUME NothingAssumption ==
    /\ Nothing \notin Renderings
    /\ Nothing \notin [Pages -> {t.title : t \in Texts}]

Unread == {f \in Files : read[f] = Nothing}

\* The pages that re-rendering alone will serve, {} when there are none or
\* the change reaches further.
AffectedPages_IgnoresOtherBlocks == changed \cap Present(read)
AffectedPages ==
    IF changed \subseteq Present(read) THEN changed ELSE {}

NavMatches_AnyManifest == manifest # Nothing
NavMatches == manifest = Nav(read)

Targets == IF full THEN Present(read) ELSE AffectedPages

TocMissing == ~ (read[Root].toc \subseteq Present(read))
BadLinks_None == {}
BadLinks == {p \in Targets : ~ (read[p].links \subseteq Present(read))}

\* The page that failed to evaluate is written all the same; the error is
\* taken once the sites are done.
Caught == \E p \in Targets : read[p].broken = "eval"

UsedIcons ==
    UNION {read[p].icons : p \in {q \in Targets : read[q].broken = "no"}}
SpriteHasIcons_Any == TRUE
SpriteHasIcons == UsedIcons \subseteq sprite

Starts == {p \in Present(read) : read[p].start}

\* The start page to copy to index.html, if this build wrote it.
Landing_OnlyFull == IF full THEN Starts ELSE {}
Landing == Starts \cap Targets

-----------------------------------------------------------------------------
Init ==
    /\ source = First
    /\ noted = {}
    /\ pending = {}
    /\ watching = FALSE
    /\ edits = 0
    /\ stops = 0
    /\ phase = "down"
    /\ full = FALSE
    /\ changed = {}
    /\ read = [f \in Files |-> Nothing]
    /\ todo = {}
    /\ out = [p \in Pages |-> Nothing]
    /\ index = Nothing
    /\ manifest = Nothing
    /\ sprite = {}
    /\ scripts = {}
    /\ error = FALSE
    /\ unseen = Files
    /\ covered = {}

-----------------------------------------------------------------------------
(* The author and the watcher. *)

\* A file is saved.  The watcher, once registered, gets an event for it.
Save(f, text) ==
    /\ edits < MaxEdits
    /\ watching \/ EditsUnwatched
    /\ text # source[f]
    /\ source' = [source EXCEPT ![f] = text]
    /\ edits' = edits + 1
    /\ noted' = IF watching THEN noted \cup {f} ELSE noted
    /\ unseen' = IF watching THEN unseen ELSE unseen \cup {f}
    /\ UNCHANGED <<pending, watching, stops, build, disk, error, covered>>

\* The events of some files went quiet: watch_loop adds them to `pending`.
Note(files) ==
    /\ watching
    /\ files # {}
    /\ pending' = pending \cup files
    /\ noted' = noted \ files
    /\ UNCHANGED <<source, watching, edits, stops, build, disk, error, history>>

\* serve() registers the watcher after the initial build.
Watch ==
    /\ phase = "idle"
    /\ ~watching
    /\ watching' = TRUE
    /\ UNCHANGED <<source, noted, pending, edits, stops, build, disk, error, history>>

-----------------------------------------------------------------------------
(* The outcomes of a build. *)

BuildEnds ==
    /\ phase' = "idle"
    /\ full' = FALSE
    /\ changed' = {}
    /\ read' = [f \in Files |-> Nothing]
    /\ todo' = {}
    /\ covered' = {}

\* The build returns Err.  Its drained change set is gone.
Fails ==
    /\ BuildEnds
    /\ error' = TRUE
    /\ unseen' = unseen \cup covered

\* The build returns Ok.  A targeted one has answered for its change set only.
ErrorAfterOk_Kept == error
ErrorAfterOk == FALSE
Succeeds ==
    /\ BuildEnds
    /\ error' = ErrorAfterOk
    /\ unseen' = IF full THEN unseen ELSE unseen \cup (covered \ changed)

\* The full rendering starts: the manifest is dropped, the players of all
\* pages are written, and every page is to be rendered.
DropManifest_Keeps == manifest
DropManifest == Nothing
StartFull ==
    /\ phase' = "writing"
    /\ full' = TRUE
    /\ todo' = Present(read)
    /\ manifest' = DropManifest
    /\ scripts' =
           scripts \cup UNION {read[p].players : p \in Present(read)}
    /\ UNCHANGED <<world, changed, read, out, index, sprite, error, unseen, covered>>

-----------------------------------------------------------------------------
(* The build, step by step. *)

\* serve() starts: fresh state, then the initial build, a full one.
Serve ==
    /\ phase = "down"
    /\ phase' = "reading"
    /\ full' = TRUE
    /\ error' = FALSE
    /\ UNCHANGED <<world, changed, read, todo, disk, history>>

\* A rebuild request reaches the worker: run_rebuild_request.
Rebuild ==
    /\ phase = "idle"
    /\ watching
    /\ phase' = "reading"
    /\ changed' = pending
    /\ pending' = {}
    /\ full' = (pending = {})
    /\ covered' = pending
    /\ UNCHANGED <<source, noted, watching, edits, stops, read, todo, disk,
                   error, unseen>>

\* The document and its imports are read one file at a time.
ReadFile(f) ==
    /\ phase = "reading"
    /\ f \in Unread
    /\ read' = [read EXCEPT ![f] = source[f]]
    /\ covered' = covered \cup (unseen \cap {f})
    /\ unseen' = unseen \ {f}
    /\ UNCHANGED <<world, phase, full, changed, todo, disk, error>>

Opened == \A f \in Files : read[f].broken # "syntax"

\* BuildError::Parse and BuildError::Schema.
OpenFails ==
    /\ phase = "reading"
    /\ Unread = {}
    /\ ~Opened
    /\ Fails
    /\ UNCHANGED <<world, disk>>

\* Only the changed pages are rendered.
Target ==
    /\ phase = "reading"
    /\ Unread = {}
    /\ Opened
    /\ ~full
    /\ AffectedPages # {}
    /\ NavMatches
    /\ phase' = "writing"
    /\ todo' = AffectedPages
    /\ UNCHANGED <<world, full, changed, read, disk, error, history>>

\* Every page is rendered: asked for, or the change reaches other pages.
RenderAll ==
    /\ phase = "reading"
    /\ Unread = {}
    /\ Opened
    /\ full \/ AffectedPages = {} \/ ~NavMatches
    /\ StartFull

\* A chapter list that names no page fails the build before any page.
TocFails ==
    /\ phase = "writing"
    /\ TocMissing
    /\ Fails
    /\ UNCHANGED <<world, disk>>

WritePage(p) ==
    /\ phase = "writing"
    /\ ~TocMissing
    /\ p \in todo
    /\ read[p].broken # "page"
    /\ out' = [out EXCEPT ![p] = Render(p, read)]
    /\ todo' = todo \ {p}
    /\ UNCHANGED <<world, phase, full, changed, read, index, manifest, sprite,
                   scripts, error, history>>

\* A page that cannot be rendered ends the build where it is.
PageFails(p) ==
    /\ phase = "writing"
    /\ ~TocMissing
    /\ p \in todo
    /\ read[p].broken = "page"
    /\ Fails
    /\ UNCHANGED <<world, disk>>

\* The aggregate sprite is written by full builds, and only when some page
\* uses an icon.
WriteSprite ==
    sprite' = IF full /\ UsedIcons # {} THEN UsedIcons ELSE sprite

PagesOut == phase = "writing" /\ ~TocMissing /\ todo = {}

\* BuildError::BadLink, before the manifest is written.
LinkFails ==
    /\ PagesOut
    /\ BadLinks # {}
    /\ WriteSprite
    /\ Fails
    /\ UNCHANGED <<world, out, index, manifest, scripts>>

\* A targeted page uses an icon the sprite lacks: everything is rendered,
\* unless an evaluation error ends the build first.
NeedFull ==
    /\ PagesOut
    /\ BadLinks = {}
    /\ ~full
    /\ ~SpriteHasIcons
    /\ IF Caught
       THEN Fails /\ UNCHANGED <<world, disk>>
       ELSE StartFull

\* The site is done: a full build records the navigation, the start page is
\* copied, and then the recorded evaluation errors are looked at.
FinishSite ==
    /\ PagesOut
    /\ BadLinks = {}
    /\ full \/ SpriteHasIcons
    /\ WriteSprite
    /\ manifest' = IF full THEN Nav(read) ELSE manifest
    /\ IF Cardinality(Starts) > 1
       THEN index' = index /\ Fails
       ELSE /\ index' = IF Landing = {} THEN index
                        ELSE out[CHOOSE p \in Landing : TRUE]
            /\ IF Caught
               THEN Fails
               ELSE Succeeds
    /\ UNCHANGED <<world, out, scripts>>

\* The process exits, mid-build or not.  Only the disk survives.
Stop ==
    /\ phase # "down"
    /\ stops < MaxStops
    /\ stops' = stops + 1
    /\ watching' = FALSE
    /\ noted' = {}
    /\ pending' = {}
    /\ phase' = "down"
    /\ full' = FALSE
    /\ changed' = {}
    /\ read' = [f \in Files |-> Nothing]
    /\ todo' = {}
    /\ error' = FALSE
    /\ unseen' = Files
    /\ covered' = {}
    /\ UNCHANGED <<source, edits, disk>>

-----------------------------------------------------------------------------
BuildStep ==
    \/ \E f \in Files : ReadFile(f)
    \/ OpenFails
    \/ Target
    \/ RenderAll
    \/ TocFails
    \/ \E p \in Pages : WritePage(p) \/ PageFails(p)
    \/ LinkFails
    \/ NeedFull
    \/ FinishSite

Next ==
    \/ \E f \in Files : \E text \in Drafts[f] : Save(f, text)
    \/ \E files \in SUBSET noted : Note(files)
    \/ Watch
    \/ Serve
    \/ Rebuild
    \/ BuildStep
    \/ Stop

Spec == Init /\ [][Next]_vars

\* A build that runs goes on, quiet events are noted, and a server that was
\* stopped is started again.
FairSpec ==
    /\ Spec
    /\ WF_vars(BuildStep)
    /\ WF_vars(Note(noted))
    /\ WF_vars(Watch)
    /\ WF_vars(Serve)

-----------------------------------------------------------------------------
(* Properties. *)

TypeOK ==
    /\ source \in [Files -> Texts]
    /\ \A f \in Files : source[f] \in Drafts[f]
    /\ noted \subseteq Files /\ pending \subseteq Files
    /\ watching \in BOOLEAN /\ full \in BOOLEAN /\ error \in BOOLEAN
    /\ edits \in 0 .. MaxEdits /\ stops \in 0 .. MaxStops
    /\ phase \in {"down", "idle", "reading", "writing"}
    /\ changed \subseteq Files
    /\ read \in [Files -> Texts \cup {Nothing}]
    /\ phase = "writing" => Unread = {}
    /\ phase \in {"down", "idle"} => read = [f \in Files |-> Nothing]
    /\ todo \subseteq Pages
    /\ out \in [Pages -> Rendered] /\ index \in Rendered
    /\ manifest \in [Pages -> {t.title : t \in Texts}] \cup {Nothing}
    /\ unseen \subseteq Files /\ covered \subseteq Files

Resting == phase = "idle" /\ ~error

\* The files whose last change a later rebuild still has to take up.
Waiting == pending \cup noted \cup unseen

\* A served page is out of date only with respect to files that still wait:
\* it shows the present text of its own file, and of every other file the
\* present title and definitions, unless that file waits.
StalenessIsExplained ==
    Resting => \A p \in Present(source) \ Waiting :
        /\ out[p] # Nothing
        /\ out[p].own = source[p]
        /\ source[p].broken = "no"
        /\ \A f \in Files \ Waiting : out[p].seen[f] = Seen(source[f])

\* A manifest on disk is true of every page file on disk: each page it names
\* was written, and with exactly the navigation it records.  It is what lets
\* a later targeted build leave the other pages alone, also after a crash.
ManifestIsTrue ==
    manifest # Nothing => \A p \in Pages :
        manifest[p] # NoPage =>
            /\ out[p] # Nothing
            /\ \A q \in Pages : out[p].seen[q].title = manifest[q]

\* No page that was left alone has lost a page it links to.
LinksResolve ==
    Resting => \A p \in Present(source) \ Waiting :
        source[p].links \subseteq Present(source) \cup Waiting

\* `/` serves what the start page serves, also when the mark moves to another
\* page, as long as two pages never have it at once (a second mark that comes
\* and goes can leave index.html behind).
OneStart ==
    \A p, q \in Present(source) : source[p].start /\ source[q].start => p = q
IndexIsCurrent ==
    Resting => \A p \in Present(source) \ Waiting :
        source[p].start => index = out[p]
IndexFollowsStart == []OneStart => []IndexIsCurrent

\* Every icon of a page that is up to date is in the shared sprite.
IconsServed ==
    Resting => \A p \in Present(source) \ Waiting :
        source[p].icons \subseteq sprite

\* A rebuild with nothing pending is a full one and repairs whatever earlier
\* ones left: when the author stops with a sound source and rebuilds again
\* and again, the site becomes and stays a rendering of that source.
SoundSource ==
    /\ \A f \in Files : source[f].broken = "no"
    /\ source[Root].toc \subseteq Present(source)
    /\ \A p \in Present(source) : source[p].links \subseteq Present(source)
    /\ Cardinality({p \in Present(source) : source[p].start}) <= 1
SiteCurrent ==
    /\ ~error
    /\ \A p \in Present(source) : out[p] = Render(p, source)
RebuildsRepair ==
    []<><<Rebuild>>_vars => (<>[]SoundSource => <>[]SiteCurrent)

-----------------------------------------------------------------------------
(* What comments and documentation of the repository say, and the code does *)
(* not do.                                                                 *)

\* `pending` holds every source file changed since the last rebuild: a page
\* that is out of date is waiting in it, or about to.
StalePagesArePending ==
    Resting => \A p \in Present(source) \ (pending \cup noted) :
        out[p] # Nothing /\ out[p].own = source[p]

\* A change that is not localized to its own page forces a full build.
OtherPagesAreCurrent ==
    Resting => \A p \in Present(source) \ Waiting :
        \A f \in Files \ Waiting :
            out[p] # Nothing => out[p].seen[f] = Seen(source[f])

\* `_wdoc/` holds every player script that a page refers to.
PlayersServed ==
    Resting => \A p \in Present(source) \ Waiting :
        source[p].players \subseteq scripts
=============================================================================
