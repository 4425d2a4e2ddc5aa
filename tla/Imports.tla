------------------------------- MODULE Imports -------------------------------
(***************************************************************************)
(* How a WCL document loads its files (crates/wcl_lang/src/doc/imports.rs, *)
(* open.rs): the top-level imports at open, depth first, each file once;   *)
(* and an import inside a block when its cell is first forced, with the    *)
(* top-level imports of the file it names.                                 *)
(*                                                                         *)
(* A file is known by its canonical path.  Its text is a record:           *)
(*   top     the files its top-level imports name, in order                *)
(*   inner   the files the imports inside its blocks name                  *)
(*   fault   "none", "syntax" (it does not parse) or "declarations" (the   *)
(*           declaration checks reject it)                                 *)
(* Files change while the document is being opened and after.              *)
(***************************************************************************)
EXTENDS Naturals, Sequences, FiniteSets

CONSTANTS
    Files,       \* the paths
    Main,        \* the file the host opens
    Drafts,      \* the texts each file may hold, Missing among them
    Missing,     \* the text of a file that does not exist
    MaxEdits,    \* bound on the changes to files
    MaxNesting   \* bound on the in-block imports inside each other

ASSUME FilesAssumption ==
    /\ Main \in Files
    /\ \A f \in Files : \A text \in Drafts[f] \ {Missing} :
           text.top \in Seq(Files) /\ text.inner \subseteq Files
ASSUME BoundsAssumption == MaxEdits \in Nat /\ MaxNesting \in Nat

VARIABLES
    disk,     \* the text of each file
    edits,
    \* The document.
    phase,    \* "closed", "opening", "open" or "failed"
    main,     \* the text of the main source
    eager,    \* the eager imports in the order they were completed
    cells,    \* forced in-block imports: the files from the outermost such
              \* import to this one, and the outcome
    \* The expansion of top-level imports that runs, if any.
    forcing,  \* the cell it is for, <<>> when it is for the document
    chain,    \* its recursion: each file with its text and imports to do
    loading,  \* ImportState::loading
    seen,     \* ImportState::seen
    out,      \* the imports completed
    failure   \* how the last expansion failed, and where; Missing when it did not

world == <<disk, edits>>
document == <<phase, main, eager, cells>>
expansion == <<forcing, chain, loading, seen, out, failure>>
vars == <<world, document, expansion>>

Frame(file, text) == [file |-> file, text |-> text, rest |-> text.top]
Source(file, text) == [file |-> file, text |-> text]

Sources(imports) == {imports[i] : i \in 1 .. Len(imports)}
FilesOf(imports) == {s.file : s \in Sources(imports)}

Top == chain[Len(chain)]
Callers == SubSeq(chain, 1, Len(chain) - 1)

Failed(kind, file) == [kind |-> kind, file |-> file, chain |-> chain]

\* The in-block imports not forced yet: those of the sources of the document
\* and, one level deeper, those of what other cells have loaded.
OuterSources == {Source(Main, main)} \cup Sources(eager)
Unforced ==
    LET inside(prefix, sources) ==
            {Append(prefix, f) : f \in UNION {s.text.inner : s \in sources}}
        all == inside(<<>>, OuterSources) \cup
               UNION {inside(c.path, Sources(c.sources)) : c \in cells}
    IN  IF phase # "open" THEN {}
        ELSE {path \in all : Len(path) <= MaxNesting /\ \A c \in cells : c.path # path}

Init ==
    /\ disk \in [Files -> UNION {Drafts[f] : f \in Files}]
    /\ \A f \in Files : disk[f] \in Drafts[f]
    /\ disk[Main] # Missing
    /\ edits = 0
    /\ phase = "closed"
    /\ main = Missing
    /\ eager = <<>>
    /\ cells = {}
    /\ forcing = <<>>
    /\ chain = <<>>
    /\ loading = {}
    /\ seen = {}
    /\ out = <<>>
    /\ failure = Missing

\* Somebody writes, creates or deletes a file.
Edit(f, text) ==
    /\ edits < MaxEdits
    /\ text # disk[f]
    /\ disk' = [disk EXCEPT ![f] = text]
    /\ edits' = edits + 1
    /\ UNCHANGED <<document, expansion>>

-----------------------------------------------------------------------------
(* The two ways an expansion starts and ends. *)

\* The host read the main file: open_at_with_loader parses it.  Its own path
\* is in neither set of the ImportState.
Open ==
    /\ phase = "closed"
    /\ disk[Main] # Missing
    /\ IF disk[Main].fault = "syntax"
       THEN /\ phase' = "failed"
            /\ failure' = Failed("syntax", Main)
            /\ UNCHANGED <<main, chain>>
       ELSE /\ phase' = "opening"
            /\ main' = disk[Main]
            /\ chain' = <<Frame(Main, disk[Main])>>
            /\ UNCHANGED failure
    /\ UNCHANGED <<world, eager, cells, forcing, loading, seen, out>>

\* ImportState::for_lazy: the file that is loaded counts as loading.
LazyLoading(file) == {file}

\* The first read of an in-block import: force_import.
ForceImport(path) ==
    /\ phase = "open"
    /\ chain = <<>>
    /\ path \in Unforced
    /\ LET file == path[Len(path)] IN
       IF disk[file] = Missing
       THEN /\ cells' = cells \cup {[path |-> path, ok |-> FALSE, sources |-> <<>>]}
            /\ UNCHANGED expansion
       ELSE IF disk[file].fault = "syntax"
       THEN /\ cells' = cells \cup {[path |-> path, ok |-> FALSE, sources |-> <<>>]}
            /\ UNCHANGED expansion
       ELSE /\ chain' = <<Frame(file, disk[file])>>
            /\ loading' = LazyLoading(file)
            /\ seen' = LazyLoading(file)
            /\ out' = <<>>
            /\ forcing' = path
            /\ failure' = Missing
            /\ UNCHANGED cells
    /\ UNCHANGED <<world, phase, main, eager>>

\* The expansion is over with the given outcome, and the document or the
\* cell keeps it.
EndWith(ok, sources) ==
    IF forcing = <<>>
    THEN /\ phase' = IF ok THEN "open" ELSE "failed"
         /\ eager' = IF ok THEN sources ELSE eager
         /\ UNCHANGED cells
    ELSE /\ cells' = cells \cup
                {[path |-> forcing, ok |-> ok,
                  sources |-> IF ok THEN Append(sources, Source(Top.file, Top.text))
                              ELSE <<>>]}
         /\ UNCHANGED <<phase, eager>>

ExpansionEnds ==
    /\ chain' = <<>>
    /\ forcing' = <<>>
    /\ loading' = {}
    /\ seen' = {}
    /\ out' = <<>>

Fail(kind, file) ==
    /\ EndWith(FALSE, <<>>)
    /\ failure' = Failed(kind, file)
    /\ ExpansionEnds
    /\ UNCHANGED <<world, main>>

\* The declaration checks: validate_document over all sources at open; for
\* a lazy import its own, unless a file of that path was there at open.
Rejected(sources) == \E s \in sources : s.text.fault = "declarations"
Checked_JustTheSource == {Source(Top.file, Top.text)}
Checked ==
    LET own == Sources(out) \cup {Source(Top.file, Top.text)}
    IN  IF forcing = <<>> THEN own
        ELSE IF Top.file \in FilesOf(eager) THEN {}
        ELSE {s \in own : s.file \notin FilesOf(eager)}

Done ==
    /\ Len(chain) = 1
    /\ Top.rest = <<>>
    /\ IF Rejected(Checked)
       THEN Fail("declarations", Top.file)
       ELSE /\ EndWith(TRUE, out)
            /\ ExpansionEnds
            /\ UNCHANGED <<world, main, failure>>

-----------------------------------------------------------------------------
(* expand_top_level_imports, one import at a time. *)

HasNext == chain # <<>> /\ Top.rest # <<>>
NextFile == Head(Top.rest)

\* The path does not resolve: no such file.
Unresolved ==
    /\ HasNext
    /\ disk[NextFile] = Missing
    /\ Fail("unresolved", NextFile)

\* The path is being loaded further up.
OnTheChain_JustTheParent == NextFile = Top.file
OnTheChain == NextFile \in loading
CycleFound ==
    /\ HasNext
    /\ disk[NextFile] # Missing
    /\ OnTheChain
    /\ Fail("cycle", NextFile)

GoOn(frame) == [frame EXCEPT !.rest = Tail(@)]

\* A repeated or diamond import.
AlreadySeen_OnTheChain == NextFile \in loading
AlreadySeen == NextFile \in seen
Skip ==
    /\ HasNext
    /\ disk[NextFile] # Missing
    /\ ~OnTheChain
    /\ AlreadySeen
    /\ chain' = Append(Callers, GoOn(Top))
    /\ UNCHANGED <<world, document, forcing, loading, seen, out, failure>>

\* The file is read and parsed, and its own imports come next.
Enter ==
    /\ HasNext
    /\ disk[NextFile] # Missing
    /\ ~OnTheChain
    /\ ~AlreadySeen
    /\ IF disk[NextFile].fault = "syntax"
       THEN Fail("syntax", NextFile)
       ELSE /\ loading' = loading \cup {NextFile}
            /\ seen' = seen \cup {NextFile}
            /\ chain' = Callers \o <<GoOn(Top), Frame(NextFile, disk[NextFile])>>
            /\ UNCHANGED <<world, document, forcing, out, failure>>

\* The file and all it imports are loaded.
StillLoading_Keeps == loading
StillLoading == loading \ {Top.file}
Leave ==
    /\ Len(chain) > 1
    /\ Top.rest = <<>>
    /\ out' = Append(out, Source(Top.file, Top.text))
    /\ loading' = StillLoading
    /\ chain' = Callers
    /\ UNCHANGED <<world, document, forcing, seen, failure>>

Expand == Unresolved \/ CycleFound \/ Skip \/ Enter \/ Leave \/ Done

Next ==
    \/ Open
    \/ Expand
    \/ \E path \in Unforced : ForceImport(path)
    \/ \E f \in Files : \E text \in Drafts[f] : Edit(f, text)

Spec == Init /\ [][Next]_vars

-----------------------------------------------------------------------------
(* Properties. *)

TypeOK ==
    /\ disk \in [Files -> UNION {Drafts[f] : f \in Files}]
    /\ edits \in 0 .. MaxEdits
    /\ phase \in {"closed", "opening", "open", "failed"}
    /\ phase \in {"closed", "failed"} => chain = <<>>
    /\ phase = "opening" => chain # <<>> /\ forcing = <<>>
    /\ \A i \in 1 .. Len(chain) : chain[i].file \in Files
    /\ loading \subseteq seen /\ seen \subseteq Files

\* Each module is loaded at most once per document or in-block import, also
\* when files change between two of their imports.
LoadedOnce ==
    LET once(imports) ==
            \A i, j \in 1 .. Len(imports) : imports[i].file = imports[j].file => i = j
    IN  once(out) /\ once(eager) /\ \A c \in cells : once(c.sources)

\* What a source imports at its top level was complete before the source
\* was: a document that opens has all its files, and no import cycle.
Complete(imports) ==
    \A i \in 1 .. Len(imports) :
        \A k \in 1 .. Len(imports[i].text.top) :
            \E j \in 1 .. i - 1 : imports[j].file = imports[i].text.top[k]
ImportsAreComplete ==
    /\ phase = "open" => Complete(Append(eager, Source(Main, main)))
    /\ \A c \in cells : Complete(c.sources)

\* A cycle is reported only when the imports that were being loaded lead
\* from the named file back to it: a repeated or a diamond import is none.
ImportsNext(frame, file) ==
    \E k \in 1 .. Len(frame.text.top) : frame.text.top[k] = file
CyclesAreReal ==
    failure # Missing /\ failure.kind = "cycle" =>
        LET via == failure.chain IN
        \E i \in 1 .. Len(via) :
            /\ via[i].file = failure.file
            /\ \A j \in i .. Len(via) - 1 : ImportsNext(via[j], via[j + 1].file)
            /\ ImportsNext(via[Len(via)], failure.file)

\* No source of an open document was rejected by the declaration checks.
OpenIsChecked ==
    phase = "open" => ~Rejected(OuterSources)
=============================================================================
