---------------------------- MODULE ImportsProofs ----------------------------
(***************************************************************************)
(* That a document which opens is complete and was checked, that every     *)
(* file is loaded once, and that the cycles that are reported are real.    *)
(*                                                                         *)
(* None of this is inductive as it stands.  The recursion has to be known: *)
(* each frame has an import that leads to the next one (ChainIsLinked),    *)
(* what is loading is what is on the chain, each file once                 *)
(* (ChainIsLoading), what was seen and is not loading is complete          *)
(* (SeenIsKnown), and of each frame all imports begun but the one that is  *)
(* being loaded are complete (ImportsAreIn).                               *)
(***************************************************************************)
EXTENDS Imports, Integers, SequenceTheorems, TLAPS

Texts == (UNION {Drafts[f] : f \in Files}) \ {Missing}
SourceSet == [file : Files, text : Texts]
FrameSet == [file : Files, text : Texts, rest : Seq(Files)]
CellSet == [path : Seq(Files), ok : BOOLEAN, sources : Seq(SourceSet)]

Types ==
    /\ disk \in [Files -> UNION {Drafts[f] : f \in Files}]
    /\ edits \in 0 .. MaxEdits
    /\ phase \in {"closed", "opening", "open", "failed"}
    /\ phase \in {"opening", "open"} => main \in Texts
    /\ eager \in Seq(SourceSet)
    /\ cells \in SUBSET CellSet
    /\ forcing \in Seq(Files)
    /\ chain \in Seq(FrameSet)
    /\ loading \in SUBSET Files
    /\ seen \in SUBSET Files
    /\ out \in Seq(SourceSet)

\* An expansion runs for a document that opens or for a cell of an open one.
Stages ==
    /\ chain = <<>> => phase # "opening" /\ forcing = <<>> /\ loading = {} /\ seen = {} /\ out = <<>>
    /\ chain # <<>> => phase = IF forcing = <<>> THEN "opening" ELSE "open"
    /\ chain # <<>> /\ forcing = <<>> => chain[1].file = Main /\ chain[1].text = main

\* The main file of a document does not count as loading.
Live == {i \in 1 .. Len(chain) : i > 1 \/ forcing # <<>>}
ChainIsLoading ==
    /\ \A i \in Live : chain[i].file \in loading
    /\ \A f \in loading : \E i \in Live : chain[i].file = f
    /\ \A i, j \in Live : chain[i].file = chain[j].file => i = j

SeenIsKnown ==
    /\ seen = loading \cup FilesOf(out)
    /\ loading \cap FilesOf(out) = {}

Begun(frame) == Len(frame.text.top) - Len(frame.rest)
GoesOn(frame) ==
    /\ Len(frame.rest) <= Len(frame.text.top)
    /\ \A k \in 1 .. Len(frame.rest) : frame.rest[k] = frame.text.top[Begun(frame) + k]
FramesGoOn == \A i \in 1 .. Len(chain) : GoesOn(chain[i])

LeadsTo(frame, file) == Begun(frame) > 0 /\ frame.text.top[Begun(frame)] = file
ChainIsLinked ==
    \A i \in 1 .. Len(chain) : i < Len(chain) => LeadsTo(chain[i], chain[i + 1].file)

\* All the imports that were begun, and all but the last of them.
AllIn(frame, files) == \A k \in 1 .. Begun(frame) : frame.text.top[k] \in files
RestIn(frame, files) ==
    \A k \in 1 .. Begun(frame) : k < Begun(frame) => frame.text.top[k] \in files
ImportsAreIn ==
    \A i \in 1 .. Len(chain) :
        IF i = Len(chain) THEN AllIn(chain[i], FilesOf(out)) ELSE RestIn(chain[i], FilesOf(out))

Once(imports) ==
    \A i, j \in 1 .. Len(imports) : imports[i].file = imports[j].file => i = j

Recursion == ChainIsLoading /\ SeenIsKnown /\ FramesGoOn /\ ChainIsLinked /\ ImportsAreIn
Outcome == LoadedOnce /\ Complete(out) /\ ImportsAreComplete /\ CyclesAreReal /\ OpenIsChecked
Inv == Types /\ Stages /\ Recursion /\ Outcome
-----------------------------------------------------------------------------
(* Shapes.                                                                 *)
LEMMA TextShape ==
    ASSUME NEW t \in Texts
    PROVE  t.top \in Seq(Files) /\ t.inner \in SUBSET Files
  BY FilesAssumption DEF Texts

LEMMA DiskShape ==
    ASSUME Types, NEW f \in Files, disk[f] # Missing
    PROVE  disk[f] \in Texts
  BY DEF Types, Texts

LEMMA FrameShape ==
    ASSUME Types, NEW i \in 1 .. Len(chain)
    PROVE  /\ chain[i] \in FrameSet
           /\ chain[i].text.top \in Seq(Files)
           /\ chain[i].rest \in Seq(Files)
           /\ Begun(chain[i]) \in Int
  <1>1. chain[i] \in FrameSet
    BY DEF Types
  <1>2. chain[i].text \in Texts /\ chain[i].rest \in Seq(Files)
    BY <1>1 DEF FrameSet
  <1> QED
    BY <1>1, <1>2, TextShape DEF Begun

LEMMA NextShape ==
    ASSUME Types, HasNext
    PROVE  /\ Len(chain) \in 1 .. Len(chain)
           /\ Top \in FrameSet
           /\ Top.rest \in Seq(Files) /\ Len(Top.rest) > 0
           /\ NextFile \in Files /\ NextFile = Top.rest[1]
  <1>1. Len(chain) \in Nat /\ Len(chain) > 0
    BY DEF Types, HasNext
  <1>2. Top \in FrameSet /\ Top.rest \in Seq(Files)
    BY <1>1, FrameShape DEF Top
  <1>3. Top.rest # <<>>
    BY DEF HasNext
  <1> QED
    BY <1>1, <1>2, <1>3 DEF NextFile

(* The three ways the chain changes.                                       *)
LEMMA CallersShape ==
    ASSUME chain \in Seq(FrameSet), chain # <<>>
    PROVE  /\ Callers \in Seq(FrameSet) /\ Len(Callers) = Len(chain) - 1
           /\ \A i \in 1 .. Len(chain) - 1 : Callers[i] = chain[i]
  <1>1. Len(chain) \in Nat /\ Len(chain) > 0
    BY EmptySeq
  <1>2. Callers \in Seq(FrameSet) /\ \A i \in 1 .. Len(chain) - 1 : Callers[i] = chain[i]
    BY <1>1 DEF Callers
  <1>3. Len(Callers) = Len(chain) - 1
    <2>1. Len(chain) - 1 \in Int /\ \A i \in 1 .. Len(chain) - 1 : chain[i] \in FrameSet
      BY <1>1
    <2>2. Len(Callers) = IF 1 <= Len(chain) - 1 THEN Len(chain) - 1 - 1 + 1 ELSE 0
      BY <2>1, SubSeqProperties DEF Callers
    <2>3. \A l \in Nat : l > 0 => (IF 1 <= l - 1 THEN l - 1 - 1 + 1 ELSE 0) = l - 1
      OBVIOUS
    <2> QED
      BY <2>2, <2>3, <1>1, Zenon
  <1> QED
    BY <1>2, <1>3

LEMMA ChainGoesOn ==
    ASSUME chain \in Seq(FrameSet), chain # <<>>, NEW g \in FrameSet,
           NEW c, c = Append(Callers, g)
    PROVE  /\ Len(chain) \in Nat /\ Len(chain) > 0
           /\ c \in Seq(FrameSet) /\ Len(c) = Len(chain)
           /\ \A i \in 1 .. Len(chain) : i < Len(chain) => c[i] = chain[i]
           /\ c[Len(chain)] = g
  BY CallersShape, EmptySeq

LEMMA ChainGrows ==
    ASSUME chain \in Seq(FrameSet), chain # <<>>, NEW g \in FrameSet, NEW h \in FrameSet,
           chain' = Callers \o <<g, h>>
    PROVE  /\ Len(chain) \in Nat /\ Len(chain) > 0
           /\ chain' \in Seq(FrameSet) /\ Len(chain') = Len(chain) + 1
           /\ \A i \in 1 .. Len(chain) : i < Len(chain) => chain'[i] = chain[i]
           /\ chain'[Len(chain)] = g /\ chain'[Len(chain) + 1] = h
  <1>1. Callers \in Seq(FrameSet) /\ Len(Callers) = Len(chain) - 1
        /\ \A i \in 1 .. Len(chain) - 1 : Callers[i] = chain[i]
    BY CallersShape
  <1>2. <<g, h>> \in Seq(FrameSet) /\ Len(<<g, h>>) = 2
    OBVIOUS
  <1> QED
    BY <1>1, <1>2, EmptySeq

LEMMA ChainShrinks ==
    ASSUME chain \in Seq(FrameSet), Len(chain) > 1, NEW c, c = Callers
    PROVE  /\ c \in Seq(FrameSet) /\ Len(c) = Len(chain) - 1 /\ Len(c) > 0
           /\ \A i \in 1 .. Len(c) : c[i] = chain[i]
  BY DEF Callers

\* The frame that goes on has begun one more import, the next one.
LEMMA FrameGoesOn ==
    ASSUME Types, FramesGoOn, HasNext, NEW g, g = GoOn(Top)
    PROVE  /\ g \in FrameSet /\ g.file = Top.file /\ g.text = Top.text
           /\ GoesOn(g) /\ LeadsTo(g, NextFile)
           /\ \A files : AllIn(Top, files) => RestIn(g, files)
           /\ \A files : AllIn(Top, files) /\ NextFile \in files => AllIn(g, files)
  <1>1. /\ Top \in FrameSet /\ Top.text.top \in Seq(Files) /\ Top.rest \in Seq(Files)
        /\ Len(Top.rest) > 0 /\ NextFile = Top.rest[1]
    BY NextShape, FrameShape DEF Top
  <1>2. GoesOn(Top)
    BY NextShape DEF FramesGoOn, Top
  <1>3. /\ Tail(Top.rest) \in Seq(Files) /\ Len(Tail(Top.rest)) = Len(Top.rest) - 1
        /\ \A k \in 1 .. Len(Top.rest) - 1 : Tail(Top.rest)[k] = Top.rest[k + 1]
    BY <1>1
  <1>4. /\ g.file = Top.file /\ g.text = Top.text /\ g.rest = Tail(Top.rest)
        /\ g \in FrameSet
    <2>1. g = [file |-> Top.file, text |-> Top.text, rest |-> Tail(Top.rest)]
      BY <1>1 DEF GoOn, FrameSet
    <2> QED
      BY <2>1, <1>1, <1>3 DEF FrameSet
  <1>5. Begun(g) = Begun(Top) + 1 /\ Begun(Top) \in Nat /\ Len(g.rest) <= Len(g.text.top)
    <2>1. /\ Len(Top.text.top) \in Nat /\ Len(Top.rest) \in Nat
          /\ Len(g.rest) = Len(Top.rest) - 1 /\ g.text.top = Top.text.top
      BY <1>1, <1>3, <1>4
    <2> QED
      BY <2>1, <1>2 DEF Begun, GoesOn
  <1>6. Top.text.top[Begun(g)] = NextFile
    <2>1. Top.rest[1] = Top.text.top[Begun(Top) + 1]
      BY <1>1, <1>2 DEF GoesOn
    <2> QED
      BY <2>1, <1>1, <1>5
  <1>7. ASSUME NEW k \in 1 .. Len(g.rest)
        PROVE  g.rest[k] = g.text.top[Begun(g) + k]
    <2>1. k + 1 \in 1 .. Len(Top.rest) /\ g.rest[k] = Top.rest[k + 1]
      BY <1>1, <1>3, <1>4
    <2>2. Begun(g) + k = Begun(Top) + (k + 1)
      BY <1>5, <1>1, <1>3, <1>4
    <2> QED
      BY <2>1, <2>2, <1>2, <1>4 DEF GoesOn
  <1>8. GoesOn(g) /\ LeadsTo(g, NextFile)
    BY <1>4, <1>5, <1>6, <1>7 DEF GoesOn, LeadsTo
  <1>9. ASSUME NEW files, AllIn(Top, files)
        PROVE  RestIn(g, files) /\ (NextFile \in files => AllIn(g, files))
    BY <1>9, <1>4, <1>5, <1>6 DEF AllIn, RestIn
  <1> QED
    BY <1>4, <1>8, <1>9

\* A frame that begins has begun none of its imports.
LEMMA FrameBegins ==
    ASSUME NEW f \in Files, NEW t \in Texts, NEW h, h = Frame(f, t)
    PROVE  /\ h \in FrameSet /\ h.file = f /\ h.text = t
           /\ GoesOn(h) /\ \A files : AllIn(h, files)
  <1>1. t.top \in Seq(Files)
    BY TextShape
  <1>2. h \in FrameSet /\ h.file = f /\ h.text = t /\ h.rest = t.top
    BY <1>1 DEF Frame, FrameSet
  <1>3. Begun(h) = 0
    BY <1>1, <1>2 DEF Begun
  <1> QED
    BY <1>1, <1>2, <1>3 DEF GoesOn, AllIn

LEMMA SourceShape ==
    ASSUME NEW imports \in Seq(SourceSet), NEW f \in Files, NEW t \in Texts,
           NEW more, more = Append(imports, Source(f, t))
    PROVE  /\ more \in Seq(SourceSet) /\ Len(more) = Len(imports) + 1
           /\ \A i \in 1 .. Len(imports) : more[i] = imports[i]
           /\ more[Len(imports) + 1].file = f /\ more[Len(imports) + 1].text = t
           /\ FilesOf(more) = FilesOf(imports) \cup {f}
           /\ Sources(more) = Sources(imports) \cup {Source(f, t)}
  <1>1. Source(f, t) \in SourceSet
    BY DEF Source, SourceSet
  <1>2. /\ more \in Seq(SourceSet) /\ Len(more) = Len(imports) + 1
        /\ \A i \in 1 .. Len(imports) : more[i] = imports[i]
        /\ more[Len(imports) + 1] = Source(f, t)
    BY <1>1
  <1>3. Sources(more) = Sources(imports) \cup {Source(f, t)}
    <2>1. 1 .. Len(more) = 1 .. Len(imports) \cup {Len(imports) + 1}
      BY <1>2
    <2> QED
      BY <2>1, <1>2 DEF Sources
  <1> QED
    BY <1>2, <1>3 DEF FilesOf, Source

LEMMA AppendFiles ==
    ASSUME NEW imports \in Seq(SourceSet), NEW f \in Files, NEW t \in Texts
    PROVE  /\ Append(imports, Source(f, t)) \in Seq(SourceSet)
           /\ FilesOf(Append(imports, Source(f, t))) = FilesOf(imports) \cup {f}
  <1>1. Source(f, t) \in SourceSet /\ Source(f, t).file = f
    BY DEF Source, SourceSet
  <1> QED
    BY <1>1 DEF FilesOf, Sources

LEMMA FileIsIn ==
    ASSUME NEW imports \in Seq(SourceSet), NEW f
    PROVE  f \in FilesOf(imports) <=> \E j \in 1 .. Len(imports) : imports[j].file = f
  BY DEF FilesOf, Sources

LEMMA OnceAppends ==
    ASSUME NEW imports \in Seq(SourceSet), NEW f \in Files, NEW t \in Texts,
           Once(imports), f \notin FilesOf(imports),
           NEW more, more = Append(imports, Source(f, t))
    PROVE  Once(more)
  BY SourceShape, FileIsIn DEF Once

LEMMA CompleteAppends ==
    ASSUME NEW imports \in Seq(SourceSet), NEW f \in Files, NEW t \in Texts,
           Complete(imports), \A k \in 1 .. Len(t.top) : t.top[k] \in FilesOf(imports),
           NEW more, more = Append(imports, Source(f, t))
    PROVE  Complete(more)
  <1> SUFFICES ASSUME NEW i \in 1 .. Len(more), NEW k \in 1 .. Len(more[i].text.top)
               PROVE  \E j \in 1 .. i - 1 : more[j].file = more[i].text.top[k]
    BY DEF Complete
  <1>1. /\ Len(imports) \in Nat /\ Len(more) = Len(imports) + 1
        /\ \A j \in 1 .. Len(imports) : more[j] = imports[j]
        /\ more[Len(imports) + 1].text = t
    BY SourceShape
  <1>2. CASE i \in 1 .. Len(imports)
    <2>1. PICK j \in 1 .. i - 1 : imports[j].file = imports[i].text.top[k]
      BY <1>1, <1>2 DEF Complete
    <2> QED
      BY <2>1, <1>1, <1>2
  <1>3. CASE i = Len(imports) + 1
    <2>1. PICK j \in 1 .. Len(imports) : imports[j].file = t.top[k]
      BY <1>1, <1>3, FileIsIn
    <2> QED
      BY <2>1, <1>1, <1>3
  <1> QED
    BY <1>1, <1>2, <1>3

LEMMA NoneAreComplete == Complete(<<>>) /\ Once(<<>>)
  BY DEF Complete, Once

(* A frame that has no imports left has all of them loaded.                *)
LEMMA TopIsComplete ==
    ASSUME Inv, chain # <<>>, Top.rest = <<>>
    PROVE  /\ Top \in FrameSet /\ Top.file \in Files /\ Top.text \in Texts
           /\ \A k \in 1 .. Len(Top.text.top) : Top.text.top[k] \in FilesOf(out)
  <1>1. Len(chain) \in 1 .. Len(chain) /\ Top \in FrameSet /\ Top.text.top \in Seq(Files)
    <2>1. Len(chain) \in Nat /\ Len(chain) > 0
      BY EmptySeq DEF Inv, Types
    <2> QED
      BY <2>1, FrameShape DEF Inv, Top
  <1>2. Begun(Top) = Len(Top.text.top)
    BY <1>1 DEF Begun
  <1> QED
    BY <1>1, <1>2 DEF Inv, Recursion, ImportsAreIn, AllIn, Top, FrameSet

-----------------------------------------------------------------------------
(* What a step that leaves the document alone keeps of the outcome.        *)
LEMMA DocumentFrame ==
    ASSUME Outcome, UNCHANGED <<document, failure>>, Once(out'), Complete(out')
    PROVE  Outcome'
  <1>1. LoadedOnce'
    BY DEF Outcome, LoadedOnce, document, Once
  <1>2. ImportsAreComplete' /\ OpenIsChecked'
    BY DEF Outcome, ImportsAreComplete, OpenIsChecked, OuterSources, document
  <1>3. CyclesAreReal'
    BY DEF Outcome, CyclesAreReal, document
  <1>4. Complete(out)'
    BY DEF Complete
  <1> QED
    BY <1>1, <1>2, <1>3, <1>4 DEF Outcome

LEMMA OutKept ==
    ASSUME Outcome
    PROVE  Once(out) /\ Complete(out)
  BY DEF Outcome, LoadedOnce, Once

LEMMA RecursionKept ==
    ASSUME Recursion, UNCHANGED <<forcing, chain, loading, seen, out>>
    PROVE  Recursion'
  <1>1. ChainIsLoading'
    BY DEF Recursion, ChainIsLoading, Live
  <1>2. SeenIsKnown'
    BY DEF Recursion, SeenIsKnown, FilesOf, Sources
  <1>3. FramesGoOn' /\ ChainIsLinked'
    BY DEF Recursion, FramesGoOn, ChainIsLinked
  <1>4. ImportsAreIn'
    BY DEF Recursion, ImportsAreIn
  <1> QED
    BY <1>1, <1>2, <1>3, <1>4 DEF Recursion

LEMMA EditKeeps ==
    ASSUME Inv, NEW f \in Files, NEW text \in Drafts[f], Edit(f, text)
    PROVE  Inv'
  <1>1. Types'
    BY BoundsAssumption DEF Inv, Types, Edit, document, expansion
  <1>2. Stages'
    BY DEF Inv, Stages, Edit, document, expansion
  <1>3. Recursion'
    BY RecursionKept DEF Inv, Edit, expansion
  <1>4. Outcome'
    BY OutKept, DocumentFrame DEF Inv, Edit, expansion
  <1> QED
    BY <1>1, <1>2, <1>3, <1>4 DEF Inv

-----------------------------------------------------------------------------
(* The steps of the recursion: what it keeps, of the new chain by itself,  *)
(* and then the whole.                                                     *)
LEMMA GoneOn ==
    ASSUME Inv, NEW n \in Nat, n = Len(chain), n > 0, Len(chain') = n,
           UNCHANGED <<forcing, out, loading, seen>>, NextFile \in FilesOf(out),
           \A i \in 1 .. n : i < n => chain'[i] = chain[i],
           NEW g, g.file = Top.file, GoesOn(g), chain'[n] = g,
           \A files : AllIn(Top, files) /\ NextFile \in files => AllIn(g, files)
    PROVE  Recursion'
  <1>1. chain[n] = Top /\ \A i \in 1 .. n : chain'[i].file = chain[i].file
    BY DEF Top
  <1>2. ChainIsLoading'
    <2>1. Live' = Live /\ \A i \in Live : chain'[i].file = chain[i].file
      BY <1>1 DEF Live
    <2> QED
      BY <2>1 DEF Inv, Recursion, ChainIsLoading
  <1>3. SeenIsKnown'
    BY DEF Inv, Recursion, SeenIsKnown
  <1>4. FramesGoOn'
    BY DEF Inv, Recursion, FramesGoOn
  <1>5. ChainIsLinked'
    <2> SUFFICES ASSUME NEW i \in 1 .. n, i < n
                 PROVE  LeadsTo(chain'[i], chain'[i + 1].file)
      BY DEF ChainIsLinked
    <2>1. chain'[i] = chain[i] /\ i + 1 \in 1 .. n /\ chain'[i + 1].file = chain[i + 1].file
      BY <1>1
    <2> QED
      BY <2>1 DEF Inv, Recursion, ChainIsLinked
  <1>6. ImportsAreIn'
    BY <1>1 DEF Inv, Recursion, ImportsAreIn
  <1> QED
    BY <1>2, <1>3, <1>4, <1>5, <1>6 DEF Recursion

LEMMA SkipKeeps ==
    ASSUME Inv, Skip
    PROVE  Inv'
  <1> DEFINE g == GoOn(Top)
             n == Len(chain)
  <1>1. Types /\ FramesGoOn /\ HasNext /\ chain # <<>> /\ chain \in Seq(FrameSet)
    BY DEF Inv, Types, Recursion, Skip, HasNext
  <1>2. /\ g \in FrameSet /\ g.file = Top.file /\ g.text = Top.text
        /\ GoesOn(g)
        /\ \A files : AllIn(Top, files) /\ NextFile \in files => AllIn(g, files)
    BY <1>1, FrameGoesOn
  <1> HIDE DEF g
  <1>3. /\ n \in Nat /\ n > 0 /\ n = Len(chain)
        /\ chain' \in Seq(FrameSet) /\ Len(chain') = n
        /\ \A i \in 1 .. n : i < n => chain'[i] = chain[i]
        /\ chain'[n] = g
    <2>1. chain' = Append(Callers, g)
      BY DEF Skip, g
    <2>2. /\ Len(chain) \in Nat /\ Len(chain) > 0
          /\ chain' \in Seq(FrameSet) /\ Len(chain') = Len(chain)
          /\ \A i \in 1 .. Len(chain) : i < Len(chain) => chain'[i] = chain[i]
          /\ chain'[Len(chain)] = g
      BY <2>1, <1>1, <1>2, ChainGoesOn, Zenon
    <2> QED
      BY <2>2
  <1>4. UNCHANGED <<world, document, forcing, loading, seen, out, failure>>
    BY DEF Skip
  <1>5. NextFile \in FilesOf(out)
    BY DEF Inv, Recursion, SeenIsKnown, Skip, OnTheChain, AlreadySeen
  <1>6. Types'
    BY <1>3, <1>4 DEF Inv, Types, world, document
  <1>7. Stages'
    <2>1. chain' # <<>> /\ chain'[1].file = chain[1].file /\ chain'[1].text = chain[1].text
      BY <1>2, <1>3 DEF Top
    <2> QED
      BY <2>1, <1>1, <1>4 DEF Inv, Stages, document
  <1> HIDE DEF n
  <1>8. Recursion'
    BY <1>2, <1>3, <1>4, <1>5, GoneOn, Zenon
  <1>9. Outcome'
    BY <1>4, OutKept, DocumentFrame DEF Inv
  <1> QED
    BY <1>6, <1>7, <1>8, <1>9 DEF Inv

LEMMA Entered ==
    ASSUME Inv, NEW n \in Nat, n = Len(chain), n > 0, Len(chain') = n + 1,
           NEW file, file \notin seen, UNCHANGED <<forcing, out>>,
           loading' = loading \cup {file}, seen' = seen \cup {file},
           \A i \in 1 .. n : i < n => chain'[i] = chain[i],
           NEW g, g.file = Top.file, GoesOn(g), LeadsTo(g, file), chain'[n] = g,
           \A files : AllIn(Top, files) => RestIn(g, files),
           NEW h, h.file = file, GoesOn(h), \A files : AllIn(h, files), chain'[n + 1] = h
    PROVE  Recursion'
  <1>1. chain[n] = Top /\ \A i \in 1 .. n : chain'[i].file = chain[i].file
    BY DEF Top
  <1>2. ChainIsLoading'
    <2>1. Live' = Live \cup {n + 1}
      BY DEF Live
    <2>2. \A i \in Live : i \in 1 .. n /\ chain'[i].file = chain[i].file /\ chain[i].file # file
      BY <1>1 DEF Live, Inv, Recursion, ChainIsLoading, SeenIsKnown
    <2>3. \A i \in Live' : chain'[i].file \in loading'
      BY <2>1, <2>2 DEF Inv, Recursion, ChainIsLoading
    <2>4. ASSUME NEW f \in loading' PROVE \E i \in Live' : chain'[i].file = f
      <3>1. CASE f = file
        BY <3>1, <2>1
      <3>2. CASE f \in loading
        <4>1. PICK i \in Live : chain[i].file = f
          BY <3>2 DEF Inv, Recursion, ChainIsLoading
        <4> QED
          BY <4>1, <2>1, <2>2
      <3> QED
        BY <3>1, <3>2
    <2>5. ASSUME NEW i \in Live', NEW j \in Live', chain'[i].file = chain'[j].file
          PROVE  i = j
      <3>1. CASE i \in Live /\ j \in Live
        <4>1. chain[i].file = chain[j].file
          BY <3>1, <2>5, <2>2
        <4> QED
          BY <4>1, <3>1 DEF Inv, Recursion, ChainIsLoading
      <3>2. CASE i = n + 1 /\ j \in Live
        BY <3>2, <2>5, <2>2
      <3>3. CASE j = n + 1 /\ i \in Live
        BY <3>3, <2>5, <2>2
      <3> QED
        BY <3>1, <3>2, <3>3, <2>1
    <2> QED
      BY <2>3, <2>4, <2>5 DEF ChainIsLoading
  <1>3. SeenIsKnown'
    BY DEF Inv, Recursion, SeenIsKnown
  <1>4. FramesGoOn'
    <2> SUFFICES ASSUME NEW i \in 1 .. n + 1 PROVE GoesOn(chain'[i])
      BY DEF FramesGoOn
    <2>1. i = n + 1 \/ i = n \/ (i \in 1 .. Len(chain) /\ chain'[i] = chain[i])
      OBVIOUS
    <2> QED
      BY <2>1 DEF Inv, Recursion, FramesGoOn
  <1>5. ChainIsLinked'
    <2> SUFFICES ASSUME NEW i \in 1 .. n PROVE LeadsTo(chain'[i], chain'[i + 1].file)
      BY DEF ChainIsLinked
    <2>1. CASE i < n
      <3>1. /\ i \in 1 .. Len(chain) /\ i < Len(chain) /\ chain'[i] = chain[i]
            /\ i + 1 \in 1 .. n /\ chain'[i + 1].file = chain[i + 1].file
        BY <2>1, <1>1
      <3> QED
        BY <3>1 DEF Inv, Recursion, ChainIsLinked
    <2>2. CASE i = n
      BY <2>2
    <2> QED
      BY <2>1, <2>2
  <1>6. ImportsAreIn'
    <2> SUFFICES ASSUME NEW i \in 1 .. n + 1
                 PROVE  IF i = n + 1 THEN AllIn(chain'[i], FilesOf(out))
                                     ELSE RestIn(chain'[i], FilesOf(out))
      BY DEF ImportsAreIn
    <2>1. CASE i < n
      BY <2>1 DEF Inv, Recursion, ImportsAreIn
    <2>2. CASE i = n
      <3>1. AllIn(Top, FilesOf(out))
        BY <1>1 DEF Inv, Recursion, ImportsAreIn
      <3> QED
        BY <3>1, <2>2
    <2>3. CASE i = n + 1
      BY <2>3
    <2> QED
      BY <2>1, <2>2, <2>3
  <1> QED
    BY <1>2, <1>3, <1>4, <1>5, <1>6 DEF Recursion

Entering ==
    /\ HasNext /\ disk[NextFile] # Missing /\ ~AlreadySeen
    /\ loading' = loading \cup {NextFile} /\ seen' = seen \cup {NextFile}
    /\ chain' = Callers \o <<GoOn(Top), Frame(NextFile, disk[NextFile])>>
    /\ UNCHANGED <<world, document, forcing, out, failure>>

LEMMA EnterKeeps ==
    ASSUME Inv, Entering
    PROVE  Inv'
  <1> DEFINE g == GoOn(Top)
             h == Frame(NextFile, disk[NextFile])
             n == Len(chain)
  <1>1. Types /\ FramesGoOn /\ HasNext /\ chain # <<>> /\ chain \in Seq(FrameSet)
    BY DEF Inv, Types, Recursion, HasNext, Entering
  <1>2. /\ g \in FrameSet /\ g.file = Top.file /\ g.text = Top.text
        /\ GoesOn(g) /\ LeadsTo(g, NextFile)
        /\ \A files : AllIn(Top, files) => RestIn(g, files)
    BY <1>1, FrameGoesOn
  <1>3. /\ NextFile \in Files /\ h \in FrameSet /\ h.file = NextFile
        /\ GoesOn(h) /\ \A files : AllIn(h, files)
    <2>1. NextFile \in Files
      BY <1>1, NextShape
    <2>2. disk[NextFile] \in Texts
      BY <2>1, <1>1, DiskShape DEF Entering
    <2> QED
      BY <2>1, <2>2, FrameBegins
  <1> HIDE DEF g, h
  <1>4. /\ n \in Nat /\ n > 0 /\ n = Len(chain)
        /\ chain' \in Seq(FrameSet) /\ Len(chain') = n + 1
        /\ \A i \in 1 .. n : i < n => chain'[i] = chain[i]
        /\ chain'[n] = g /\ chain'[n + 1] = h
    <2>1. chain' = Callers \o <<g, h>>
      BY DEF g, h, Entering
    <2>2. /\ Len(chain) \in Nat /\ Len(chain) > 0
          /\ chain' \in Seq(FrameSet) /\ Len(chain') = Len(chain) + 1
          /\ \A i \in 1 .. Len(chain) : i < Len(chain) => chain'[i] = chain[i]
          /\ chain'[Len(chain)] = g /\ chain'[Len(chain) + 1] = h
      <3>1. chain \in Seq(FrameSet) /\ chain # <<>> /\ g \in FrameSet /\ h \in FrameSet
        BY <1>1, <1>2, <1>3
      <3> QED
        BY <2>1, <3>1, ChainGrows, Zenon
    <2> QED
      BY <2>2
  <1>5. NextFile \notin seen
    BY DEF AlreadySeen, Entering
  <1>6. /\ UNCHANGED <<world, document, forcing, out, failure>>
        /\ loading' = loading \cup {NextFile} /\ seen' = seen \cup {NextFile}
    BY DEF Entering
  <1>7. Types'
    BY <1>1, <1>3, <1>4, <1>6 DEF Inv, Types, world, document
  <1>8. Stages'
    <2>1. n = 1 \/ 1 < n
      <3> HIDE DEF n
      <3> QED
        BY <1>4
    <2>2. chain' # <<>> /\ chain'[1].file = chain[1].file /\ chain'[1].text = chain[1].text
      BY <2>1, <1>2, <1>4 DEF Top
    <2> QED
      BY <2>2, <1>1, <1>6 DEF Inv, Stages, document
  <1> HIDE DEF n
  <1>9. Recursion'
    BY <1>2, <1>3, <1>4, <1>5, <1>6, Entered, Zenon
  <1>10. Outcome'
    BY <1>6, OutKept, DocumentFrame DEF Inv
  <1> QED
    BY <1>7, <1>8, <1>9, <1>10 DEF Inv

LEMMA LeaveKeeps ==
    ASSUME Inv, Leave
    PROVE  Inv'
  <1> DEFINE n == Len(chain)
             f == Top.file
  <1>1. Types /\ chain # <<>> /\ chain \in Seq(FrameSet) /\ n \in Nat /\ n > 1
        /\ out \in Seq(SourceSet)
    BY DEF Inv, Types, Leave
  <1>2. /\ Top \in FrameSet /\ f \in Files /\ Top.text \in Texts
        /\ \A k \in 1 .. Len(Top.text.top) : Top.text.top[k] \in FilesOf(out)
    BY <1>1, TopIsComplete DEF Leave
  <1>3. /\ chain' \in Seq(FrameSet) /\ Len(chain') = Len(chain) - 1 /\ Len(chain') > 0
        /\ \A i \in 1 .. Len(chain') : chain'[i] = chain[i]
    BY <1>1, ChainShrinks DEF Leave
  <1>4. /\ out' = Append(out, Source(Top.file, Top.text))
        /\ out' \in Seq(SourceSet) /\ FilesOf(out') = FilesOf(out) \cup {f}
    <2>1. out' = Append(out, Source(Top.file, Top.text))
      BY DEF Leave
    <2>2. Top.file \in Files /\ Top.text \in Texts
      BY <1>2
    <2>3. out \in Seq(SourceSet)
      BY <1>1
    <2>4. out' \in Seq(SourceSet) /\ FilesOf(out') = FilesOf(out) \cup {Top.file}
      BY <2>1, <2>2, <2>3, AppendFiles
    <2> QED
      BY <2>1, <2>4
  <1>5. UNCHANGED <<world, document, forcing, seen, failure>> /\ loading' = loading \ {f}
    BY DEF Leave, StillLoading
  <1>6. n \in Live /\ Live' = Live \ {n} /\ chain[n].file = f
    BY <1>1, <1>3, <1>5 DEF Live, Top
  <1>7. f \in loading /\ f \notin FilesOf(out) /\ \A i \in Live' : chain'[i].file # f
    <2>1. f \in loading
      BY <1>6 DEF Inv, Recursion, ChainIsLoading
    <2>2. f \notin FilesOf(out)
      BY <2>1 DEF Inv, Recursion, SeenIsKnown
    <2>3. \A i \in Live' : i \in 1 .. Len(chain') /\ i \in Live /\ i # n
      BY <1>6, <1>3 DEF Live
    <2> QED
      BY <2>1, <2>2, <2>3, <1>3, <1>6 DEF Inv, Recursion, ChainIsLoading
  <1> HIDE DEF n, f
  <1>8. Types'
    BY <1>3, <1>4, <1>5 DEF Inv, Types, world, document
  <1>9. Stages'
    <2>1. chain' # <<>> /\ chain'[1] = chain[1]
      BY <1>3
    <2> QED
      BY <2>1, <1>1, <1>5 DEF Inv, Stages, document
  <1>10. ChainIsLoading'
    <2>1. \A i \in Live' : i \in 1 .. Len(chain') /\ i \in Live /\ chain'[i] = chain[i]
      BY <1>3, <1>6 DEF Live
    <2>2. \A i \in Live' : chain'[i].file \in loading'
      BY <2>1, <1>5, <1>7 DEF Inv, Recursion, ChainIsLoading
    <2>3. ASSUME NEW e \in loading' PROVE \E i \in Live' : chain'[i].file = e
      <3>1. PICK i \in Live : chain[i].file = e
        BY <2>3, <1>5 DEF Inv, Recursion, ChainIsLoading
      <3>2. i # n
        BY <3>1, <2>3, <1>5, <1>6
      <3> QED
        BY <3>1, <3>2, <1>6, <2>1
    <2>4. \A i, j \in Live' : chain'[i].file = chain'[j].file => i = j
      BY <2>1 DEF Inv, Recursion, ChainIsLoading
    <2> QED
      BY <2>2, <2>3, <2>4 DEF ChainIsLoading
  <1>11. SeenIsKnown'
    <2>1. seen' = loading' \cup FilesOf(out') /\ loading' \cap FilesOf(out') = {}
      BY <1>4, <1>5, <1>7 DEF Inv, Recursion, SeenIsKnown
    <2> QED
      BY <2>1 DEF SeenIsKnown, FilesOf, Sources
  <1>12. FramesGoOn'
    BY <1>1, <1>3 DEF Inv, Recursion, FramesGoOn, n
  <1>13. ChainIsLinked'
    <2> SUFFICES ASSUME NEW i \in 1 .. Len(chain'), i < Len(chain')
                 PROVE  LeadsTo(chain'[i], chain'[i + 1].file)
      BY DEF ChainIsLinked
    <2>1. /\ chain'[i] = chain[i] /\ chain'[i + 1] = chain[i + 1]
          /\ i \in 1 .. Len(chain) /\ i < Len(chain)
      BY <1>1, <1>3 DEF n
    <2> QED
      BY <2>1 DEF Inv, Recursion, ChainIsLinked
  <1>14. ImportsAreIn'
    <2>1. FilesOf(out) \subseteq FilesOf(out')
      BY <1>4
    <2> SUFFICES ASSUME NEW i \in 1 .. Len(chain')
                 PROVE  IF i = Len(chain') THEN AllIn(chain'[i], FilesOf(out'))
                                           ELSE RestIn(chain'[i], FilesOf(out'))
      BY DEF ImportsAreIn, FilesOf, Sources
    <2>2. i \in 1 .. Len(chain) /\ i < Len(chain) /\ i # Len(chain) /\ chain'[i] = chain[i]
      BY <1>1, <1>3 DEF n
    <2>3. RestIn(chain[i], FilesOf(out'))
      BY <2>1, <2>2 DEF Inv, Recursion, ImportsAreIn, RestIn
    <2>4. CASE i = Len(chain')
      <3>1. LeadsTo(chain[i], f)
        <4>1. i + 1 = n
          BY <2>4, <1>1, <1>3 DEF n
        <4> QED
          BY <4>1, <2>2, <1>6 DEF Inv, Recursion, ChainIsLinked
      <3>2. Begun(chain[i]) \in Int
        BY <2>2, <1>1, FrameShape
      <3> QED
        BY <3>1, <3>2, <2>2, <2>3, <2>4, <1>4 DEF LeadsTo, AllIn, RestIn
    <2> QED
      BY <2>2, <2>3, <2>4
  <1>15. Outcome'
    <2>1. Once(out') /\ Complete(out')
      BY <1>1, <1>2, <1>4, <1>7, OutKept, OnceAppends, CompleteAppends DEF Inv, f
    <2> QED
      BY <2>1, <1>5, DocumentFrame DEF Inv
  <1> QED
    BY <1>8, <1>9, <1>10, <1>11, <1>12, <1>13, <1>14, <1>15 DEF Inv, Recursion

-----------------------------------------------------------------------------
(* The steps that end an expansion.                                        *)

\* The cycle a failure reports.
RealCycle(via, file) ==
    \E i \in 1 .. Len(via) :
        /\ via[i].file = file
        /\ \A j \in i .. Len(via) - 1 : ImportsNext(via[j], via[j + 1].file)
        /\ ImportsNext(via[Len(via)], file)

\* With no expansion there is nothing to say of the recursion.
LEMMA NoRecursion ==
    ASSUME chain' = <<>>, loading' = {}, seen' = {}, out' = <<>>
    PROVE  Recursion' /\ Once(out') /\ Complete(out')
  <1>1. ChainIsLoading' /\ FramesGoOn' /\ ChainIsLinked' /\ ImportsAreIn'
    BY DEF ChainIsLoading, Live, FramesGoOn, ChainIsLinked, ImportsAreIn
  <1>2. SeenIsKnown'
    BY DEF SeenIsKnown, FilesOf, Sources
  <1> QED
    BY <1>1, <1>2, NoneAreComplete DEF Recursion

\* A frame leads to a file it imports.
LEMMA LeadsAreImports ==
    ASSUME Types, FramesGoOn, NEW i \in 1 .. Len(chain), NEW f, LeadsTo(chain[i], f)
    PROVE  ImportsNext(chain[i], f)
  <1>1. /\ chain[i].text.top \in Seq(Files) /\ chain[i].rest \in Seq(Files)
        /\ GoesOn(chain[i])
    BY FrameShape DEF FramesGoOn
  <1>2. Begun(chain[i]) \in 1 .. Len(chain[i].text.top)
    <2>1. Len(chain[i].text.top) \in Nat /\ Len(chain[i].rest) \in Nat
      BY <1>1
    <2>2. Begun(chain[i]) = Len(chain[i].text.top) - Len(chain[i].rest)
      BY DEF Begun
    <2>3. Begun(chain[i]) > 0
      BY DEF LeadsTo
    <2>4. \A a, b \in Nat : a - b > 0 => a - b \in 1 .. a
      OBVIOUS
    <2> QED
      BY <2>1, <2>2, <2>3, <2>4, Zenon
  <1> QED
    BY <1>2 DEF LeadsTo, ImportsNext

LEMMA CycleIsReal ==
    ASSUME Inv, HasNext, OnTheChain
    PROVE  RealCycle(chain, NextFile)
  <1> DEFINE n == Len(chain)
  <1>1. Types /\ FramesGoOn /\ ChainIsLinked /\ n \in Nat /\ n \in 1 .. n
    BY NextShape DEF Inv, Recursion, Types
  <1>2. PICK i \in 1 .. n : chain[i].file = NextFile
    BY DEF Inv, Recursion, ChainIsLoading, OnTheChain, Live
  <1>3. ASSUME NEW j \in i .. n - 1
        PROVE  ImportsNext(chain[j], chain[j + 1].file)
    <2>1. j \in 1 .. n /\ j < n
      BY <1>1, <1>2
    <2>2. LeadsTo(chain[j], chain[j + 1].file)
      BY <2>1, <1>1 DEF ChainIsLinked
    <2> QED
      BY <2>1, <2>2, <1>1, LeadsAreImports
  <1>4. ImportsNext(chain[n], NextFile)
    <2>1. /\ Top.text.top \in Seq(Files) /\ Top.rest \in Seq(Files) /\ Len(Top.rest) > 0
          /\ NextFile = Top.rest[1] /\ GoesOn(Top)
      BY <1>1, NextShape, FrameShape DEF FramesGoOn, Top
    <2>2. /\ Begun(Top) + 1 \in 1 .. Len(Top.text.top)
          /\ Top.text.top[Begun(Top) + 1] = NextFile
      <3>1. Len(Top.text.top) \in Nat /\ Len(Top.rest) \in Nat
        BY <2>1
      <3>2. Begun(Top) = Len(Top.text.top) - Len(Top.rest)
        BY DEF Begun
      <3>3. /\ Len(Top.rest) <= Len(Top.text.top)
            /\ Top.rest[1] = Top.text.top[Begun(Top) + 1]
        BY <2>1, <3>1 DEF GoesOn
      <3>4. \A a, b \in Nat : b > 0 /\ b <= a => a - b + 1 \in 1 .. a
        OBVIOUS
      <3>5. Begun(Top) + 1 \in 1 .. Len(Top.text.top)
        BY <2>1, <3>1, <3>2, <3>3, <3>4, Zenon
      <3> QED
        BY <2>1, <3>3, <3>5, Zenon
    <2> QED
      BY <2>2 DEF ImportsNext, Top
  <1> QED
    BY <1>2, <1>3, <1>4 DEF RealCycle

\* A cell keeps the sources it is given.
Cell(path, ok, sources) == [path |-> path, ok |-> ok, sources |-> sources]

LEMMA CellJoins ==
    ASSUME Inv, NEW path \in Seq(Files), NEW ok \in BOOLEAN, NEW sources \in Seq(SourceSet),
           Once(sources), Complete(sources), Once(out'),
           cells' = cells \cup {Cell(path, ok, sources)}, UNCHANGED <<phase, main, eager>>
    PROVE  cells' \in SUBSET CellSet /\ LoadedOnce' /\ ImportsAreComplete' /\ OpenIsChecked'
  <1>1. Cell(path, ok, sources) \in CellSet /\ Cell(path, ok, sources).sources = sources
    BY DEF Cell, CellSet
  <1>2. cells' \in SUBSET CellSet
    BY <1>1 DEF Inv, Types
  <1>3. LoadedOnce'
    BY <1>1 DEF Inv, Outcome, LoadedOnce, Once
  <1>4. ImportsAreComplete'
    BY <1>1 DEF Inv, Outcome, ImportsAreComplete
  <1>5. OpenIsChecked'
    BY DEF Inv, Outcome, OpenIsChecked, OuterSources
  <1> QED
    BY <1>2, <1>3, <1>4, <1>5

LEMMA FailKeeps ==
    ASSUME Inv, chain # <<>>, NEW kind, NEW file, Fail(kind, file),
           kind = "cycle" => RealCycle(chain, file)
    PROVE  Inv'
  <1>1. /\ chain' = <<>> /\ forcing' = <<>> /\ loading' = {} /\ seen' = {} /\ out' = <<>>
        /\ UNCHANGED <<world, main>> /\ failure' = Failed(kind, file)
    BY DEF Fail, ExpansionEnds
  <1>2. Recursion' /\ Once(out') /\ Complete(out')
    BY <1>1, NoRecursion
  <1>3. CyclesAreReal'
    BY <1>1 DEF CyclesAreReal, Failed, RealCycle
  <1>4. /\ phase' \in {"failed", "open"} /\ (phase' = "open" => phase = "open")
        /\ eager' = eager
        /\ cells' \in SUBSET CellSet /\ LoadedOnce' /\ ImportsAreComplete' /\ OpenIsChecked'
    <2>1. CASE forcing = <<>>
      <3>1. phase' = "failed" /\ eager' = eager /\ cells' = cells
        BY <2>1 DEF Fail, EndWith
      <3>2. LoadedOnce' /\ ImportsAreComplete' /\ OpenIsChecked'
        BY <3>1, <1>2 DEF Inv, Outcome, LoadedOnce, ImportsAreComplete, OpenIsChecked, Once
      <3> QED
        BY <3>1, <3>2 DEF Inv, Types
    <2>2. CASE forcing # <<>>
      <3>1. /\ UNCHANGED <<phase, main, eager>> /\ phase = "open"
            /\ cells' = cells \cup {Cell(forcing, FALSE, <<>>)}
        BY <2>2, <1>1 DEF Fail, EndWith, Cell, Inv, Stages
      <3>2. forcing \in Seq(Files) /\ <<>> \in Seq(SourceSet)
        BY DEF Inv, Types
      <3> QED
        BY <3>1, <3>2, <1>2, NoneAreComplete, CellJoins
    <2> QED
      BY <2>1, <2>2
  <1>5. Types'
    BY <1>1, <1>4 DEF Inv, Types, world
  <1>6. Stages'
    BY <1>1, <1>4 DEF Stages
  <1>7. Outcome'
    BY <1>2, <1>3, <1>4 DEF Outcome, Complete
  <1> QED
    BY <1>2, <1>5, <1>6, <1>7 DEF Inv

LEMMA DoneKeeps ==
    ASSUME Inv, Done
    PROVE  Inv'
  <1>1. chain # <<>> /\ Len(chain) = 1 /\ Top.rest = <<>> /\ Top = chain[1]
    BY DEF Done, Top
  <1>2. CASE Rejected(Checked)
    BY <1>1, <1>2, FailKeeps DEF Done
  <1>3. CASE ~Rejected(Checked)
    <2>1. /\ chain' = <<>> /\ forcing' = <<>> /\ loading' = {} /\ seen' = {} /\ out' = <<>>
          /\ UNCHANGED <<world, main, failure>> /\ EndWith(TRUE, out)
      BY <1>3 DEF Done, ExpansionEnds
    <2>2. Recursion' /\ Once(out') /\ Complete(out')
      BY <2>1, NoRecursion
    <2>3. CyclesAreReal'
      BY <2>1 DEF Inv, Outcome, CyclesAreReal
    <2>4. /\ Top.file \in Files /\ Top.text \in Texts /\ out \in Seq(SourceSet)
          /\ \A k \in 1 .. Len(Top.text.top) : Top.text.top[k] \in FilesOf(out)
          /\ Once(out) /\ Complete(out)
      BY <1>1, TopIsComplete, OutKept DEF Inv, Types
    <2>5. /\ phase' = "open" /\ main' \in Texts /\ eager' \in Seq(SourceSet)
          /\ cells' \in SUBSET CellSet /\ LoadedOnce' /\ ImportsAreComplete' /\ OpenIsChecked'
      <3>1. CASE forcing = <<>>
        <4>1. /\ phase' = "open" /\ eager' = out /\ cells' = cells /\ main' = main
              /\ Top.file = Main /\ Top.text = main
          BY <3>1, <2>1, <1>1 DEF EndWith, Inv, Stages
        <4>2. Complete(Append(out, Source(Main, main)))
          BY <4>1, <2>4, CompleteAppends
        <4>3. LoadedOnce'
          BY <4>1, <2>2, <2>4 DEF Inv, Outcome, LoadedOnce, Once
        <4>4. ImportsAreComplete'
          BY <4>1, <4>2 DEF Inv, Outcome, ImportsAreComplete
        <4>5. OpenIsChecked'
          BY <4>1, <3>1, <1>3 DEF OpenIsChecked, OuterSources, Checked, Rejected, Sources
        <4> QED
          BY <4>1, <4>3, <4>4, <4>5, <2>4 DEF Inv, Types
      <3>2. CASE forcing # <<>>
        <4> DEFINE sources == Append(out, Source(Top.file, Top.text))
        <4>1. /\ UNCHANGED <<phase, main, eager>> /\ phase = "open"
              /\ cells' = cells \cup {Cell(forcing, TRUE, sources)}
          BY <3>2, <1>1, <2>1 DEF EndWith, Cell, Inv, Stages
        <4>2. Top.file \notin FilesOf(out)
          <5>1. chain[1].file \in loading
            BY <3>2, <1>1 DEF Inv, Recursion, ChainIsLoading, Live
          <5> QED
            BY <5>1, <1>1 DEF Inv, Recursion, SeenIsKnown
        <4>3. sources \in Seq(SourceSet)
          BY <2>4, AppendFiles
        <4>4. Once(sources) /\ Complete(sources)
          BY <2>4, <4>2, OnceAppends, CompleteAppends
        <4>5. forcing \in Seq(Files) /\ main \in Texts /\ eager \in Seq(SourceSet)
          BY <4>1 DEF Inv, Types
        <4> HIDE DEF sources
        <4>6. cells' \in SUBSET CellSet /\ LoadedOnce' /\ ImportsAreComplete' /\ OpenIsChecked'
          BY <4>1, <4>3, <4>4, <4>5, <2>2, CellJoins
        <4> QED
          BY <4>1, <4>5, <4>6
      <3> QED
        BY <3>1, <3>2
    <2>6. Types'
      BY <2>1, <2>5 DEF Inv, Types, world
    <2>7. Stages'
      BY <2>1, <2>5 DEF Stages
    <2>8. Outcome'
      BY <2>2, <2>3, <2>5 DEF Outcome, Complete
    <2> QED
      BY <2>2, <2>6, <2>7, <2>8 DEF Inv
  <1> QED
    BY <1>2, <1>3
-----------------------------------------------------------------------------
(* The steps that begin an expansion.                                      *)
LEMMA ChainBegins ==
    ASSUME NEW f \in Files, NEW t \in Texts, chain' = <<Frame(f, t)>>, out' = <<>>,
           loading' = (IF forcing' = <<>> THEN {} ELSE {f}), seen' = loading'
    PROVE  /\ chain' \in Seq(FrameSet) /\ chain' # <<>>
           /\ chain'[1].file = f /\ chain'[1].text = t /\ Recursion'
  <1>1. PICK h : h = Frame(f, t)
    OBVIOUS
  <1>2. /\ h \in FrameSet /\ h.file = f /\ h.text = t
        /\ GoesOn(h) /\ \A files : AllIn(h, files)
    BY <1>1, FrameBegins
  <1>3. /\ chain' \in Seq(FrameSet) /\ chain' # <<>> /\ Len(chain') = 1 /\ chain'[1] = h
    BY <1>1, <1>2
  <1>4. ChainIsLoading'
    BY <1>2, <1>3 DEF ChainIsLoading, Live
  <1>5. SeenIsKnown'
    BY DEF SeenIsKnown, FilesOf, Sources
  <1>6. FramesGoOn' /\ ChainIsLinked'
    BY <1>2, <1>3 DEF FramesGoOn, ChainIsLinked
  <1>7. ImportsAreIn'
    BY <1>2, <1>3 DEF ImportsAreIn
  <1> QED
    BY <1>2, <1>3, <1>4, <1>5, <1>6, <1>7 DEF Recursion

LEMMA OpenKeeps ==
    ASSUME Inv, Open
    PROVE  Inv'
  <1>1. /\ phase = "closed" /\ chain = <<>> /\ forcing = <<>> /\ loading = {} /\ seen = {}
        /\ out = <<>> /\ UNCHANGED <<world, eager, cells, forcing, loading, seen, out>>
    BY DEF Inv, Stages, Open
  <1>2. Main \in Files /\ disk[Main] \in Texts
    BY FilesAssumption, DiskShape DEF Inv, Open
  <1>3. LoadedOnce' /\ Complete(out')
    BY <1>1 DEF Inv, Outcome, LoadedOnce
  <1>4. CASE disk[Main].fault = "syntax"
    <2>1. /\ phase' = "failed" /\ failure' = Failed("syntax", Main) /\ UNCHANGED <<main, chain>>
      BY <1>4 DEF Open
    <2>2. Recursion'
      BY <1>1, <2>1, NoRecursion
    <2>3. Types' /\ Stages'
      BY <1>1, <2>1 DEF Inv, Types, Stages, world
    <2>4. Outcome'
      <3>1. CyclesAreReal'
        BY <2>1 DEF CyclesAreReal, Failed
      <3>2. ImportsAreComplete' /\ OpenIsChecked'
        BY <1>1, <2>1 DEF Inv, Outcome, ImportsAreComplete, OpenIsChecked
      <3> QED
        BY <3>1, <3>2, <1>3 DEF Outcome, Complete
    <2> QED
      BY <2>2, <2>3, <2>4 DEF Inv
  <1>5. CASE disk[Main].fault # "syntax"
    <2>1. /\ phase' = "opening" /\ main' = disk[Main] /\ UNCHANGED failure
          /\ chain' = <<Frame(Main, disk[Main])>>
      BY <1>5 DEF Open
    <2>2. /\ chain' \in Seq(FrameSet) /\ chain' # <<>>
          /\ chain'[1].file = Main /\ chain'[1].text = disk[Main] /\ Recursion'
      BY <1>1, <1>2, <2>1, ChainBegins
    <2>3. Types' /\ Stages'
      BY <1>1, <1>2, <2>1, <2>2 DEF Inv, Types, Stages, world
    <2>4. Outcome'
      <3>1. CyclesAreReal'
        BY <2>1 DEF Inv, Outcome, CyclesAreReal
      <3>2. ImportsAreComplete' /\ OpenIsChecked'
        BY <1>1, <2>1 DEF Inv, Outcome, ImportsAreComplete, OpenIsChecked
      <3> QED
        BY <3>1, <3>2, <1>3 DEF Outcome, Complete
    <2> QED
      BY <2>2, <2>3, <2>4 DEF Inv
  <1> QED
    BY <1>4, <1>5

\* The files imported inside the blocks of a source.
LEMMA InnerFiles ==
    ASSUME NEW imports \in Seq(SourceSet), NEW s \in Sources(imports)
    PROVE  s.text.inner \in SUBSET Files
  <1>1. PICK i \in 1 .. Len(imports) : s = imports[i]
    BY DEF Sources
  <1>2. s \in SourceSet
    BY <1>1
  <1>3. s.text \in Texts
    BY <1>2 DEF SourceSet
  <1> QED
    BY <1>3, TextShape

\* What may be forced is a path of files.
LEMMA UnforcedShape ==
    ASSUME Inv, NEW path \in Unforced
    PROVE  /\ phase = "open" /\ path \in Seq(Files) /\ path # <<>>
           /\ path[Len(path)] \in Files
  <1>1. phase = "open" /\ main \in Texts /\ eager \in Seq(SourceSet)
    BY DEF Unforced, Inv, Types
  <1>2. \A s \in OuterSources : s.text.inner \in SUBSET Files
    <2>1. Source(Main, main).text.inner \in SUBSET Files
      BY <1>1, TextShape DEF Source
    <2> QED
      BY <2>1, <1>1, InnerFiles DEF OuterSources
  <1>3. ASSUME NEW c \in cells
        PROVE  c.path \in Seq(Files) /\ \A s \in Sources(c.sources) : s.text.inner \in SUBSET Files
    <2>1. c \in CellSet
      BY DEF Inv, Types
    <2>2. c.path \in Seq(Files) /\ c.sources \in Seq(SourceSet)
      BY <2>1 DEF CellSet
    <2> QED
      BY <2>2, InnerFiles
  <1>4. PICK prefix \in Seq(Files), f \in Files : path = Append(prefix, f)
    <2>1. CASE \E s \in OuterSources : \E f \in s.text.inner : path = Append(<<>>, f)
      <3>1. PICK s \in OuterSources : \E f \in s.text.inner : path = Append(<<>>, f)
        BY <2>1
      <3>2. PICK f \in s.text.inner : path = Append(<<>>, f)
        BY <3>1
      <3>3. f \in Files /\ <<>> \in Seq(Files)
        BY <3>1, <3>2, <1>2
      <3> QED
        BY <3>2, <3>3
    <2>2. CASE \E c \in cells : \E s \in Sources(c.sources) : \E f \in s.text.inner :
                  path = Append(c.path, f)
      <3>1. PICK c \in cells : \E s \in Sources(c.sources) : \E f \in s.text.inner :
                  path = Append(c.path, f)
        BY <2>2
      <3>2. PICK s \in Sources(c.sources) : \E f \in s.text.inner : path = Append(c.path, f)
        BY <3>1
      <3>3. PICK f \in s.text.inner : path = Append(c.path, f)
        BY <3>2
      <3>4. f \in Files /\ c.path \in Seq(Files)
        BY <3>1, <3>2, <3>3, <1>3
      <3> QED
        BY <3>3, <3>4
    <2> QED
      BY <2>1, <2>2, Zenon DEF Unforced
  <1> QED
    BY <1>1, <1>4

LEMMA ForceImportKeeps ==
    ASSUME Inv, NEW path \in Unforced, ForceImport(path)
    PROVE  Inv'
  <1> DEFINE file == path[Len(path)]
  <1>1. phase = "open" /\ path \in Seq(Files) /\ path # <<>> /\ file \in Files
    BY UnforcedShape
  <1>2. /\ chain = <<>> /\ UNCHANGED <<world, phase, main, eager>>
        /\ Once(out) /\ Complete(out)
    BY OutKept DEF ForceImport, Inv
  <1> HIDE DEF file
  <1>3. CASE cells' = cells \cup {Cell(path, FALSE, <<>>)} /\ UNCHANGED expansion
    <2>1. UNCHANGED <<forcing, chain, loading, seen, out, failure>>
      BY <1>3 DEF expansion
    <2>2. /\ cells' \in SUBSET CellSet /\ LoadedOnce' /\ ImportsAreComplete' /\ OpenIsChecked'
      <3>1. Once(out') /\ <<>> \in Seq(SourceSet) /\ FALSE \in BOOLEAN
        BY <1>2, <2>1
      <3> QED
        BY <3>1, <1>1, <1>2, <1>3, NoneAreComplete, CellJoins
    <2>3. Types' /\ Stages'
      BY <1>2, <2>1, <2>2 DEF Inv, Types, Stages, world
    <2>4. Recursion'
      <3>1. chain' = <<>> /\ loading' = {} /\ seen' = {} /\ out' = <<>>
        BY <1>2, <2>1 DEF Inv, Stages
      <3> QED
        BY <3>1, NoRecursion
    <2>5. Outcome'
      BY <1>2, <2>1, <2>2 DEF Inv, Outcome, Complete, CyclesAreReal
    <2> QED
      BY <2>3, <2>4, <2>5 DEF Inv
  <1>4. CASE /\ disk[file] # Missing
             /\ chain' = <<Frame(file, disk[file])>> /\ loading' = {file} /\ seen' = {file}
             /\ out' = <<>> /\ forcing' = path /\ failure' = Missing /\ UNCHANGED cells
    <2>1. disk[file] \in Texts
      BY <1>1, <1>4, DiskShape DEF Inv
    <2>2. chain' \in Seq(FrameSet) /\ chain' # <<>> /\ Recursion'
      <3>1. loading' = (IF forcing' = <<>> THEN {} ELSE {file}) /\ seen' = loading'
        BY <1>1, <1>4
      <3> QED
        BY <3>1, <2>1, <1>1, <1>4, ChainBegins
    <2>3. Types' /\ Stages'
      BY <1>1, <1>2, <1>4, <2>2 DEF Inv, Types, Stages, world
    <2>4. Outcome'
      <3>1. LoadedOnce' /\ Complete(out')
        BY <1>2, <1>4, NoneAreComplete DEF Inv, Outcome, LoadedOnce, Once
      <3>2. CyclesAreReal'
        BY <1>4 DEF CyclesAreReal
      <3>3. ImportsAreComplete' /\ OpenIsChecked'
        BY <1>2, <1>4 DEF Inv, Outcome, ImportsAreComplete, OpenIsChecked, OuterSources
      <3> QED
        BY <3>1, <3>2, <3>3 DEF Outcome, Complete
    <2> QED
      BY <2>2, <2>3, <2>4 DEF Inv
  <1> QED
    BY <1>3, <1>4 DEF ForceImport, LazyLoading, Cell, file
-----------------------------------------------------------------------------
LEMMA InitHolds ==
    ASSUME Init
    PROVE  Inv
  <1>1. Types
    BY BoundsAssumption DEF Init, Types
  <1>2. Stages
    BY DEF Init, Stages
  <1>3. Recursion
    BY DEF Init, Recursion, ChainIsLoading, Live, SeenIsKnown, FilesOf, Sources, FramesGoOn,
           ChainIsLinked, ImportsAreIn
  <1>4. LoadedOnce /\ Complete(out) /\ ImportsAreComplete
    BY DEF Init, LoadedOnce, Complete, ImportsAreComplete
  <1>5. CyclesAreReal /\ OpenIsChecked
    BY DEF Init, CyclesAreReal, OpenIsChecked
  <1> QED
    BY <1>1, <1>2, <1>3, <1>4, <1>5 DEF Inv, Outcome

LEMMA StutterKeeps ==
    ASSUME Inv, UNCHANGED vars
    PROVE  Inv'
  <1>1. /\ UNCHANGED <<disk, edits, phase, main, eager, cells>>
        /\ UNCHANGED <<forcing, chain, loading, seen, out, failure>>
    BY DEF vars, world, document, expansion
  <1>2. Types' /\ Stages'
    BY <1>1 DEF Inv, Types, Stages
  <1>3. Recursion'
    BY <1>1, RecursionKept DEF Inv
  <1>4. Outcome'
    BY <1>1, OutKept, DocumentFrame DEF Inv, document
  <1> QED
    BY <1>2, <1>3, <1>4 DEF Inv

LEMMA StepKeeps ==
    ASSUME Inv, [Next]_vars
    PROVE  Inv'
  <1>1. CASE Open
    BY <1>1, OpenKeeps
  <1>2. CASE Unresolved
    BY <1>2, FailKeeps DEF Unresolved, HasNext
  <1>3. CASE CycleFound
    BY <1>3, FailKeeps, CycleIsReal DEF CycleFound, HasNext
  <1>4. CASE Skip
    BY <1>4, SkipKeeps
  <1>5. CASE Enter
    <2>1. CASE disk[NextFile].fault = "syntax"
      BY <1>5, <2>1, FailKeeps DEF Enter, HasNext
    <2>2. CASE disk[NextFile].fault # "syntax"
      BY <1>5, <2>2, EnterKeeps DEF Enter, Entering
    <2> QED
      BY <2>1, <2>2
  <1>6. CASE Leave
    BY <1>6, LeaveKeeps
  <1>7. CASE Done
    BY <1>7, DoneKeeps
  <1>8. CASE \E path \in Unforced : ForceImport(path)
    BY <1>8, ForceImportKeeps
  <1>9. CASE \E f \in Files : \E text \in Drafts[f] : Edit(f, text)
    BY <1>9, EditKeeps
  <1>10. CASE UNCHANGED vars
    BY <1>10, StutterKeeps
  <1> QED
    BY <1>1, <1>2, <1>3, <1>4, <1>5, <1>6, <1>7, <1>8, <1>9, <1>10 DEF Next, Expand

LEMMA InvHolds == Spec => []Inv
  <1>1. Init => Inv
    BY InitHolds
  <1>2. Inv /\ [Next]_vars => Inv'
    BY StepKeeps
  <1> QED
    BY <1>1, <1>2, PTL DEF Spec

\* No module is in a document twice, nor in an in-block import, whatever the
\* import graph and however files change while it is loaded.
THEOREM FilesLoadedOnce == Spec => []LoadedOnce
  <1>1. Inv => LoadedOnce
    BY DEF Inv, Outcome
  <1> QED
    BY <1>1, InvHolds, PTL

\* A document that opens, and an in-block import that is forced, has every
\* file its sources import at their top level, completed before them.
THEOREM OpenIsComplete == Spec => []ImportsAreComplete
  <1>1. Inv => ImportsAreComplete
    BY DEF Inv, Outcome
  <1> QED
    BY <1>1, InvHolds, PTL

\* When ImportState reports a cycle, the imports on its chain lead from the
\* named file back to it.
THEOREM ReportedCyclesAreReal == Spec => []CyclesAreReal
  <1>1. Inv => CyclesAreReal
    BY DEF Inv, Outcome
  <1> QED
    BY <1>1, InvHolds, PTL

\* An open document has no source the declaration checks reject.
THEOREM OpenWasChecked == Spec => []OpenIsChecked
  <1>1. Inv => OpenIsChecked
    BY DEF Inv, Outcome
  <1> QED
    BY <1>1, InvHolds, PTL

\* The variables keep their shapes through every load, and an expansion runs
\* only in the phases the code runs one in.
THEOREM TypesHold == Spec => []TypeOK
  <1>1. Inv => TypeOK
    <2> SUFFICES ASSUME Inv PROVE TypeOK
      OBVIOUS
    <2>1. \A i \in 1 .. Len(chain) : chain[i].file \in Files
      BY FrameShape DEF Inv, FrameSet
    <2>2. loading \subseteq seen /\ seen \subseteq Files
      BY DEF Inv, Types, Recursion, SeenIsKnown
    <2>3. phase \in {"closed", "failed"} => chain = <<>>
      BY DEF Inv, Stages
    <2>4. phase = "opening" => chain # <<>> /\ forcing = <<>>
      BY DEF Inv, Stages
    <2> QED
      BY <2>1, <2>2, <2>3, <2>4 DEF Inv, Types, TypeOK
  <1> QED
    BY <1>1, InvHolds, PTL
=============================================================================
