-------------------------------- MODULE Edits --------------------------------
(***************************************************************************)
(* `wcl set` changes one field of a file in place while editors may save   *)
(* it (main.rs, edit.rs), and `wcl diff` compares what two states of the   *)
(* files evaluate to (diff.rs).                                            *)
(*                                                                         *)
(* A document is a main file and a file it imports.  A file is a sequence  *)
(* of items: a block, or a bare field as an item of no kind; what a field  *)
(* is set to is the value it evaluates to, or "error".  Schemas, and with  *)
(* them nested blocks, are left out, and so are namespaces and the type    *)
(* names of records, which a diff ignores.                                 *)
(***************************************************************************)
EXTENDS Integers, SequencesExt, TLC

CONSTANTS MainTexts,  \* what the main file may hold
          LibTexts,   \* what the file it imports may hold
          Paths,      \* the paths given to `wcl set`, as sequences of segments
          Values,     \* the values given to it
          MaxSaves    \* how often an editor saves a file

VARIABLES base,       \* the files as they were at first
          disk,       \* the files
          saves,      \* how often one was saved
          command     \* the `wcl set` that runs
editsVars == <<base, disk, saves, command>>

FileOrder == <<"main", "lib">>  \* all_sources: the root first
Idle == [stage |-> "idle"]

NoFields == [name \in {} |-> 0]
Value(kind, num) == [kind |-> kind, num |-> num, items |-> <<>>, fields |-> NoFields]
None == Value("none", 0)
Absent == Value("absent", 0)
Record(fields) == [Value("record", 0) EXCEPT !.fields = fields]
-----------------------------------------------------------------------------
(* Where a field is.  Only the widths of texts matter to a span.           *)

Width(field) ==
    1 + IF field.value.kind = "num" THEN (IF field.value.num < 10 THEN 1 ELSE 2) ELSE 3
WidthOfFields(fields) == FoldLeft(LAMBDA n, field : n + Width(field), 0, fields)
Header(item) == IF item.kind = "" THEN 0 ELSE 2
WidthOfItems(items) ==
    FoldLeft(LAMBDA n, item : n + Header(item) + WidthOfFields(item.body), 0, items)
Span(text, i, j) ==
    <<WidthOfItems(SubSeq(text, 1, i - 1)) + Header(text[i])
          + WidthOfFields(SubSeq(text[i].body, 1, j - 1)),
      Width(text[i].body[j])>>

\* The first item of a kind, and the first field of a name in it.
Sought(text, kind, name) ==
    LET i == SelectInSeq(text, LAMBDA item :
                 item.kind = kind /\ (kind = "" => item.body[1].name = name))
    IN  IF i = 0 THEN <<0, 0>>
        ELSE <<i, SelectInSeq(text[i].body, LAMBDA field : field.name = name)>>

Declares(files, file, kind, name) == Sought(files[file], kind, name)[1] # 0

\* The file given is rewritten, not the one that declares the field.
LocateField_InEntryFile(files, path) ==
    LET kind == IF Len(path) = 1 THEN "" ELSE path[1]
        sources == SelectSeq(FileOrder, LAMBDA file : Declares(files, file, kind, Last(path)))
        at == Sought(files[Head(sources)], kind, Last(path))
    IN  IF sources = <<>> \/ at[2] = 0 THEN <<>>
        ELSE <<[file |-> "main", span |-> Span(files[Head(sources)], at[1], at[2])]>>

\* Document::get of a path of one or two segments: a bare field of that name
\* hides the blocks of that kind, and a field of its value is none to set.
LocateField(files, path) ==
    LET kind == IF Len(path) = 1 THEN "" ELSE path[1]
        sources == SelectSeq(FileOrder, LAMBDA file : Declares(files, file, kind, Last(path)))
        at == Sought(files[Head(sources)], kind, Last(path))
    IN  IF \/ sources = <<>>
           \/ Len(path) = 2 /\ \E file \in ToSet(FileOrder) : Declares(files, file, "", path[1])
           \/ at[2] = 0
        THEN <<>>
        ELSE <<[file |-> Head(sources), span |-> Span(files[Head(sources)], at[1], at[2])]>>

Positions(text) == UNION {{<<i, j>> : j \in DOMAIN text[i].body} : i \in DOMAIN text}
FindFieldBySpan(text, span) ==
    {at \in Positions(text) : Span(text, at[1], at[2]) = span}
-----------------------------------------------------------------------------
(* The command: it opens the document to find the field, reads the file    *)
(* that declares it, and puts a new text in its place.                     *)
Init ==
    /\ disk \in [main : MainTexts, lib : LibTexts]
    /\ base = disk /\ saves = 0 /\ command = Idle

Save(file, text) ==
    /\ saves < MaxSaves
    /\ disk' = [disk EXCEPT ![file] = text]
    /\ saves' = saves + 1
    /\ UNCHANGED <<base, command>>

Locate(path, value) ==
    /\ command = Idle
    /\ LET found == LocateField(disk, path)
       IN command' = IF found = <<>> THEN [stage |-> "refused"]
                     ELSE [stage |-> "located", path |-> path, value |-> value,
                           opened |-> disk, home |-> found[1].file, span |-> found[1].span]
    /\ UNCHANGED <<base, disk, saves>>

Replace ==
    /\ command.stage = "located"
    /\ LET text == disk[command.home]
           slot == FindFieldBySpan(text, command.span)
       IN command' = IF slot = {} THEN [stage |-> "refused"]
                     ELSE LET at == CHOOSE at \in slot : TRUE
                          IN  [command EXCEPT !.stage = "replaced"]
                              @@ [read |-> text,
                                  written |-> [text EXCEPT ![at[1]].body[at[2]].value =
                                                   command.value]]
    /\ UNCHANGED <<base, disk, saves>>

Write ==
    /\ command.stage = "replaced"
    /\ disk' = [disk EXCEPT ![command.home] = command.written]
    /\ command' = [stage |-> "done"]
    /\ UNCHANGED <<base, saves>>

Next ==
    \/ \E text \in MainTexts : Save("main", text)
    \/ \E text \in LibTexts : Save("lib", text)
    \/ \E path \in Paths, value \in Values : Locate(path, value)
    \/ Replace
    \/ Write

Spec == Init /\ [][Next]_editsVars
-----------------------------------------------------------------------------
(* The diff: what evaluates becomes one record per entity ...              *)
Document(files) == files["main"] \o files["lib"]

DocumentEntity == "<document>"

EntityKey_Plain(item, taken) ==
    IF item.label = "" THEN item.kind ELSE item.kind \o ":" \o item.label
EntityKey(item, taken) ==
    LET key == IF item.label = "" THEN item.kind ELSE item.kind \o ":" \o item.label
        free == {n \in 2..(Cardinality(taken) + 2) : key \o "#" \o ToString(n) \notin taken}
    IN  IF key \notin taken THEN key ELSE key \o "#" \o ToString(Min(free))

Fails(field) == field.value.kind = "error"

\* Of fields of one name the last is kept.
Collected(fields) ==
    FoldLeft(LAMBDA map, field : field.name :> field.value @@ map, NoFields, fields)

CollectEntities(doc) ==
    LET blocks == SelectSeq(doc, LAMBDA item :
                      item.kind # "" /\ \A j \in DOMAIN item.body : ~Fails(item.body[j]))
        bare == SelectSeq(doc, LAMBDA item : item.kind = "" /\ ~Fails(item.body[1]))
        fields == Collected([i \in DOMAIN bare |-> bare[i].body[1]])
    IN  FoldLeft(LAMBDA map, item :
                     EntityKey(item, DOMAIN map) :> Record(Collected(item.body)) @@ map,
                 IF bare = <<>> THEN NoFields ELSE DocumentEntity :> Record(fields),
                 blocks)

(* ... and the records are compared part by part.                          *)
Segment(container, part) ==
    IF container.kind = "list" THEN "[" \o ToString(part - 1) \o "]" ELSE part

FieldChange(path, kind, old, new) == [path |-> path, kind |-> kind, old |-> old, new |-> new]

RECURSIVE DiffValues(_, _, _)
DiffParts(a, b, Path(_)) ==
    UNION {CASE k \notin DOMAIN a -> {FieldChange(Path(k), "added", Absent, b[k])}
             [] k \notin DOMAIN b -> {FieldChange(Path(k), "removed", a[k], Absent)}
             [] OTHER -> DiffValues(a[k], b[k], Path(k)) : k \in DOMAIN a \cup DOMAIN b}
DiffValues(old, new, path) ==
    LET Path(k) == Append(path, Segment(old, k))
    IN  IF old = new THEN {}
        ELSE CASE old.kind = "record" /\ new.kind = "record" ->
                      DiffParts(old.fields, new.fields, Path)
               [] old.kind = "list" /\ new.kind = "list" ->
                      DiffParts(old.items, new.items, Path)
               [] old.kind = "none" -> {FieldChange(path, "added", Absent, new)}
               [] new.kind = "none" -> {FieldChange(path, "removed", old, Absent)}
               [] OTHER -> {FieldChange(path, "changed", old, new)}

Change(op, key, value, fields) == [op |-> op, entity |-> key, value |-> value, fields |-> fields]

\* An entity on both sides is reported only if a field differs.
DiffDocuments(old, new) ==
    LET a == CollectEntities(Document(old))
        b == CollectEntities(Document(new))
        all == {CASE key \notin DOMAIN a -> Change("added", key, b[key], {})
                  [] key \notin DOMAIN b -> Change("removed", key, a[key], {})
                  [] OTHER -> Change("modified", key, None, DiffValues(a[key], b[key], <<>>)) :
                   key \in DOMAIN a \cup DOMAIN b}
    IN  {c \in all : c.op = "modified" => c.fields # {}}
-----------------------------------------------------------------------------
(* What is the same to a diff: a field that is none and one that is not    *)
(* there, and elements that are none at the end of a list.                 *)
RECURSIVE Plain(_)
Plain(v) ==
    LET kept == {k \in DOMAIN v.fields : v.fields[k] # None}
        last == SelectLastInSeq(v.items, LAMBDA item : item # None)
    IN  [v EXCEPT !.fields = [k \in kept |-> Plain(v.fields[k])],
                  !.items = [i \in 1..last |-> Plain(v.items[i])]]

\* `v` with `x` at a path; no list has more than MaxItems elements.
MaxItems == 4
RECURSIVE Put(_, _, _)
Put(v, path, x) ==
    LET Or(map, k) == IF k \in DOMAIN map THEN map[k] ELSE None
        Into(map, k) == [m \in DOMAIN map \cup {k} |->
                            IF m = k THEN Put(Or(map, k), Tail(path), x) ELSE map[m]]
        index == CHOOSE i \in 1..MaxItems : Segment(v, i) = Head(path)
        items == [i \in 1..Max({Len(v.items), index}) |-> Or(v.items, i)]
    IN  IF path = <<>> THEN x
        ELSE IF v.kind = "list" THEN [v EXCEPT !.items = Into(items, index)]
        ELSE [v EXCEPT !.fields = Into(@, Head(path))]

Patched(old, fields) ==
    FoldSet(LAMBDA c, v : Put(v, c.path, IF c.new = Absent THEN None ELSE c.new), old, fields)

Turned == [added |-> "removed", removed |-> "added", changed |-> "changed", modified |-> "modified"]
Mirrored(changes) ==
    {[c EXCEPT !.op = Turned[@],
               !.fields = {FieldChange(f.path, Turned[f.kind], f.new, f.old) : f \in @}] :
         c \in changes}
-----------------------------------------------------------------------------
\* What the properties below need of a document: no name is used twice, which
\* the parser forbids only for the bare fields of one file, and all evaluates.
NamesAreDistinct(doc) ==
    /\ \A i, k \in DOMAIN doc :
           i # k /\ doc[i].kind = "" /\ doc[k].kind = "" =>
               doc[i].body[1].name # doc[k].body[1].name
    /\ \A i \in DOMAIN doc : \A j, l \in DOMAIN doc[i].body :
           j # l => doc[i].body[j].name # doc[i].body[l].name
Evaluates(doc) == \A i \in DOMAIN doc : \A j \in DOMAIN doc[i].body : ~Fails(doc[i].body[j])

(* A diff tells all there is to tell, whatever was saved: the old entities *)
(* with its changes made are the new ones, the diff the other way round is *)
(* its mirror image, and every block that evaluates is an entity.          *)
DiffTellsAll ==
    LET old == CollectEntities(Document(base))
        new == CollectEntities(Document(disk))
        changes == DiffDocuments(base, disk)
        With(op) == {c \in changes : c.op = op}
        Keys(op) == {c.entity : c \in With(op)}
        Edits(key) == UNION {c.fields : c \in {c \in With("modified") : c.entity = key}}
        blocks == SelectSeq(Document(disk), LAMBDA item :
                      item.kind # "" /\ Evaluates(<<item>>))
    IN  /\ DOMAIN new = (DOMAIN old \ Keys("removed")) \cup Keys("added")
        /\ \A c \in With("added") : new[c.entity] = c.value
        /\ \A key \in DOMAIN new \cap DOMAIN old :
               Plain(Patched(old[key], Edits(key))) = Plain(new[key])
        /\ DiffDocuments(disk, base) = Mirrored(changes)
        /\ Cardinality(DOMAIN new \ {DocumentEntity}) = Len(blocks)

(* What `wcl set` is about to write differs from what it read in one field *)
(* of one entity, and the diff says so.  If the file is still the one the  *)
(* field was located in, that is the field the path names in the first     *)
(* entity of its kind, and it then has the value.                          *)
SetChangesOneField ==
    command.stage = "replaced" =>
        LET before == [disk EXCEPT ![command.home] = command.read]
            after == [disk EXCEPT ![command.home] = command.written]
            changes == DiffDocuments(before, after)
            name == Last(command.path)
            IsNamed(item) == item.kind = command.path[1]
            entity == IF Len(command.path) = 1 THEN DocumentEntity
                      ELSE EntityKey(SelectSeq(Document(before), IsNamed)[1], {})
        IN  NamesAreDistinct(Document(before)) /\ Evaluates(Document(before)) =>
            /\ before # after =>
                   \E c \in changes :
                       /\ changes = {c} /\ c.op = "modified"
                       /\ \A f, g \in c.fields : f.path[1] = g.path[1]
            /\ before = command.opened =>
                   /\ CollectEntities(Document(after))[entity].fields[name] = command.value
                   /\ \A c \in changes : c.entity = entity
                   /\ \A c \in changes : \A f \in c.fields : f.path[1] = name
==============================================================================
