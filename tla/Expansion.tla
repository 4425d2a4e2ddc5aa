------------------------------ MODULE Expansion ------------------------------
(***************************************************************************)
(* What repeaters, components and slot markers of a page become            *)
(* (wcl_wdoc's render/expand.rs on wcl_lang's expand_bodies).  A body is    *)
(* read under a stack of frames that are bound as the walk goes, and what  *)
(* an expression gave is kept in its cell, for every later walk of the     *)
(* document too.  The walks differ: page text (html, static), the shapes   *)
(* of a diagram, navigation (outline), style rules (css) and the           *)
(* `@children` of the language.  The blocks still to be visited are        *)
(* `todo`, the recursion of the code.  Wording and layout are left out.    *)
(***************************************************************************)
EXTENDS Integers, FiniteSets, FiniteSetsExt, SequencesExt

CONSTANTS Manuscripts,       \* the documents
          Walks,             \* the sequences of walks that are made of one
          MaxLowerDepth,     \* also MAX_EXPANSION_DEPTH
          MaxExpandedBlocks

VARIABLES manuscript,  \* [declared, lets, deposits, page]
          ahead, walk, \* the walks to come, and the one that is made
          todo,        \* the views to be visited
          printed,     \* what the walk has given
          noted,       \* whether it has recorded an error
          cached,      \* the cells that were read: cell -> what was read
          expanded     \* EXPANDED
expansionVars == <<manuscript, ahead, walk, todo, printed, noted, cached, expanded>>
-----------------------------------------------------------------------------
(* Values, scopes and views.                                               *)

NoFills == <<>>
Failed == [is |-> "error", of |-> ""]
Idle == "idle"
DepthMarker == <<"depth marker", Failed>>

\* Frames are searched from the innermost, then the root.
Lookup(scope, name) ==
    LET binding == {i \in DOMAIN scope : name \in DOMAIN scope[i].names}
    IN  IF binding # {} THEN scope[Max(binding)].names[name]
        ELSE IF name \in DOMAIN manuscript.lets THEN manuscript.lets[name] ELSE Failed

Eval(e, scope) == IF e.is = "name" THEN Lookup(scope, e.of) ELSE e

BindingScopeDepth(view) == Max({0} \cup {view.scope[i].depth : i \in DOMAIN view.scope})

\* The fill of the nearest expansion that has a slot of this name.
HasSlot(view, name) == \E i \in DOMAIN view.scope : name \in DOMAIN view.scope[i].fills
SlotContent(view, name) ==
    view.scope[Max({i \in DOMAIN view.scope : name \in DOMAIN view.scope[i].fills})].fills[name]

\* The scope of the items of a block sees its fields.
ChildScope(view) ==
    Append(view.scope, [names |-> [n \in DOMAIN view.block.fields |-> Eval(view.block.fields[n], view.scope)],
                        fills |-> NoFills, depth |-> 0])

Views(body, cell, group, scope) ==
    [i \in DOMAIN body |-> [block |-> body[i], cell |-> Append(cell, <<group, i>>), scope |-> scope]]
Blocks(view) == Views(view.block.body, view.cell, 0, ChildScope(view))
-----------------------------------------------------------------------------
(* Generators.                                                             *)

KindDeclarer(kind) == manuscript.declared[kind]
IsDeclared(kind) == kind \in DOMAIN manuscript.declared

\* The kind of component that a block stands for; that of an instance is computed.
Target(view) ==
    IF view.block.kind = "wdoc_instance"
    THEN Eval(view.block.reads, view.scope).of ELSE view.block.kind

IsRepeater(view) == view.block.kind = "wdoc_repeater"
IsGenerator(view) ==
    view.block.kind \in {"wdoc_repeater", "wdoc_instance"} \/ IsDeclared(view.block.kind)

\* A field that is absent or fails leaves the default of the parameter.
Bind(view, def) ==
    [p \in DOMAIN def.params |->
        LET value == IF p \in DOMAIN view.block.fields
                     THEN Eval(view.block.fields[p], view.scope) ELSE Failed
        IN  IF value.is = "error" THEN def.params[p] ELSE value]

BindingSets(view) ==
    IF IsRepeater(view)
    THEN LET each == Eval(view.block.reads, view.scope)
         IN  IF each.is # "list" THEN <<>>
             ELSE [g \in DOMAIN each.of |-> [n \in {view.block.name} |-> each.of[g]]]
    ELSE IF IsDeclared(Target(view)) THEN <<Bind(view, KindDeclarer(Target(view)))>>
    ELSE <<>>

\* Whether reading the fields of a generator records an error.
Misreads(view) ==
    IF IsRepeater(view) THEN Eval(view.block.reads, view.scope).is = "error"
    ELSE /\ IsDeclared(Target(view))
         /\ \E p \in DOMAIN KindDeclarer(Target(view)).params \cap DOMAIN view.block.fields :
                Eval(view.block.fields[p], view.scope).is = "error"

\* The children of an instance by the slot they fill: a block named as a slot
\* holds a fill, any other goes to `content`.
StructuralSlots(view, def) ==
    LET loose == SelectSeq(Blocks(view), LAMBDA c : c.block.kind \notin def.holes)
        named(h) == FlattenSeq([i \in DOMAIN Blocks(view) |->
                        IF Blocks(view)[i].block.kind = h THEN Blocks(Blocks(view)[i]) ELSE <<>>])
    IN  [h \in def.holes \cup (IF loose = <<>> THEN {} ELSE {"content"}) |->
            IF h = "content" THEN named(h) \o loose ELSE named(h)]

Kept(view, read) == IF view.cell \in DOMAIN cached THEN cached[view.cell] ELSE read

\* Every expansion of a body has cells of its own.
FreshCells_OfTheBody(group) == 1
FreshCells(group) == group

\* What one expansion reads its body under: below the scope of a repeater, and
\* below the one a component is declared in.
Frame(view, names, fills) ==
    [names |-> names, fills |-> fills, depth |-> BindingScopeDepth(view) + 1]
ExpandBodies(view) ==
    LET sets == Kept(view, BindingSets(view))
        def == KindDeclarer(Target(view))
    IN  FlattenSeq([g \in DOMAIN sets |->
            IF IsRepeater(view)
            THEN Views(view.block.body, view.cell, FreshCells(g), Append(view.scope, Frame(view, sets[g], NoFills)))
            ELSE Views(def.body, view.cell, FreshCells(g), <<Frame(view, sets[g], StructuralSlots(view, def))>>)])

\* The budget of an expansion tree starts anew at an authored generator.
Charge_EachAnew(view) == Len(ExpandBodies(view))
Charge(view) ==
    (IF BindingScopeDepth(view) = 0 THEN 0 ELSE expanded) + Len(ExpandBodies(view))
-----------------------------------------------------------------------------
(* What a walk makes of a block.                                           *)

OfAPage == walk \in {"html", "static"}
Leaves == {"text", "terminal"}

Hidden(view) == OfAPage /\ view.block.only # {} /\ walk \notin view.block.only

\* The flattening of a diagram looks at the depth first, of any block.
Dropped(view) == walk = "diagram" /\ BindingScopeDepth(view) > MaxLowerDepth

Marked(view) == IF view.block.kind = "wdoc_content" THEN "content" ELSE view.block.kind
IsFilled(view) ==
    /\ OfAPage \/ (walk = "diagram" /\ view.block.kind = "wdoc_content")
    /\ HasSlot(view, Marked(view))

Expands(view) ==
    /\ IsGenerator(view) /\ ~IsFilled(view)
    /\ walk = "outline" => IsRepeater(view)
IsTooDeep(view) == BindingScopeDepth(view) > MaxLowerDepth

\* The language asks also a slot marker for its children.
Stops(view) == Expands(view) \/ (walk = "language" /\ view.block.kind = "wdoc_content")

\* A tag that is being collected is not entered again.
IsCollected(tag) == \E i \in DOMAIN todo : todo[i].block.kind = "collected" /\ todo[i].block.name = tag
RECURSIVE Deposits(_, _)
Deposits(views, tag) ==
    FlattenSeq([i \in DOMAIN views |->
        IF views[i].block.kind # "partial" THEN Deposits(Blocks(views[i]), tag)
        ELSE IF views[i].block.name = tag THEN Blocks(views[i]) ELSE <<>>])
Gatherable(tag) ==
    Deposits(Views(manuscript.page, <<>>, 0, <<>>) \o Views(manuscript.deposits, <<>>, 1, <<>>), tag)
-----------------------------------------------------------------------------
Init ==
    /\ manuscript \in Manuscripts
    /\ ahead \in Walks
    /\ walk = Idle /\ todo = <<>> /\ printed = <<>> /\ noted = FALSE
    /\ cached = <<>> /\ expanded = 0

Begin ==
    /\ todo = <<>> /\ ahead # <<>>
    /\ walk' = Head(ahead) /\ ahead' = Tail(ahead)
    /\ todo' = Views(manuscript.page, <<>>, 0, <<>>)
    /\ printed' = <<>> /\ noted' = FALSE
    /\ UNCHANGED <<manuscript, cached, expanded>>

\* The next block leaves `todo`, and others take its place.
Instead(views) == todo' = views \o Tail(todo)
Quiet == UNCHANGED <<manuscript, ahead, walk, printed, noted, cached, expanded>>
Keep(view, read) ==
    cached' = [c \in DOMAIN cached \cup {view.cell} |->
                  IF c \in DOMAIN cached THEN cached[c] ELSE read]

\* What the walk passes over: hidden blocks, a marker whose slot no expansion has,
\* and kinds that it does not know.
PassOver(view) ==
    /\ \/ Hidden(view) \/ Dropped(view)
       \/ /\ ~IsFilled(view) /\ ~Expands(view) /\ ~(Stops(view) /\ IsTooDeep(view))
          /\ view.block.kind \notin Leaves
          /\ OfAPage => view.block.kind \notin {"column", "partial", "collect"}
    /\ Instead(<<>>) /\ Quiet

FillContentSlot(view) ==
    /\ ~Hidden(view) /\ ~Dropped(view) /\ IsFilled(view)
    /\ Instead(SlotContent(view, Marked(view))) /\ Quiet

\* A column holds blocks; a deposit shows them where it is written only if told so.
WalkWrapper(view) ==
    /\ OfAPage /\ ~Hidden(view) /\ ~IsFilled(view)
    /\ view.block.kind \in {"column", "partial"}
    /\ Instead(IF view.block.kind = "column" \/ view.block.shown THEN Blocks(view) ELSE <<>>)
    /\ Quiet

\* The collected blocks are followed by the end of their collection.
CollectPartials(view) ==
    /\ OfAPage /\ ~Hidden(view) /\ ~IsFilled(view)
    /\ view.block.kind = "collect"
    /\ Instead(IF IsCollected(view.block.name) THEN <<>>
               ELSE Append(Gatherable(view.block.name),
                           [view EXCEPT !.block.kind = "collected", !.block.only = {}]))
    /\ Quiet

Expand(view) ==
    /\ ~Hidden(view) /\ Expands(view) /\ ~IsTooDeep(view)
    /\ expanded' = Charge(view) /\ Keep(view, BindingSets(view))
    /\ noted' = (noted \/ Misreads(view) \/ Charge(view) > MaxExpandedBlocks)
    /\ IF Charge(view) <= MaxExpandedBlocks
       THEN Instead(ExpandBodies(view)) /\ UNCHANGED printed
       ELSE IF walk = "language" THEN todo' = <<>> /\ printed' = <<>>
       ELSE Instead(<<>>) /\ UNCHANGED printed
    /\ UNCHANGED <<manuscript, ahead, walk>>

\* A page shows a marker where it stops, the language fails, the others stop.
TooDeep(view) ==
    /\ ~Hidden(view) /\ ~Dropped(view) /\ Stops(view) /\ IsTooDeep(view)
    /\ IF walk = "language"
       THEN todo' = <<>> /\ printed' = <<>> /\ noted' = TRUE
       ELSE /\ Instead(<<>>) /\ UNCHANGED noted
            /\ printed' = IF walk = "html" THEN Append(printed, DepthMarker) ELSE printed
    /\ UNCHANGED <<manuscript, ahead, walk, cached, expanded>>

\* A block without a special meaning is given with what it reads.
LowerBlock(view) ==
    LET value == Kept(view, Eval(view.block.reads, view.scope)) IN
    /\ ~Hidden(view) /\ ~Dropped(view) /\ ~IsFilled(view)
    /\ view.block.kind \in Leaves
    /\ Instead(<<>>) /\ Keep(view, value)
    /\ printed' = IF value.is = "error" THEN printed ELSE Append(printed, <<view.block.kind, value>>)
    /\ noted' = (noted \/ value.is = "error")
    /\ UNCHANGED <<manuscript, ahead, walk, expanded>>

Visit ==
    todo # <<>> /\ LET view == Head(todo) IN
        \/ PassOver(view) \/ FillContentSlot(view) \/ WalkWrapper(view)
        \/ CollectPartials(view) \/ Expand(view) \/ TooDeep(view) \/ LowerBlock(view)

Next == Begin \/ Visit
Spec == Init /\ [][Next]_expansionVars
-----------------------------------------------------------------------------
(* The reference: what the author means, without scopes, cells and depths  *)
(* carried in frames.  What is written for a slot is worked out where it   *)
(* is written, and put where the slot is.                                  *)

\* out: what is given, faulty: whether something cannot be read, deep: whether it goes
\* beyond the cap, total: the blocks generated, tree: those under the generator at hand,
\* most: those of the largest complete tree, nested: whether a slot brings such a tree
\* into another.
Nothing == [out |-> <<>>, faulty |-> FALSE, deep |-> FALSE, total |-> 0, tree |-> 0,
            most |-> 0, nested |-> FALSE]
Larger(m, n) == IF m > n THEN m ELSE n
Joined(parts) ==
    FoldLeft(LAMBDA a, b : [out |-> a.out \o b.out, faulty |-> a.faulty \/ b.faulty,
                            deep |-> a.deep \/ b.deep, total |-> a.total + b.total,
                            tree |-> a.tree + b.tree, most |-> Larger(a.most, b.most),
                            nested |-> a.nested \/ b.nested],
             Nothing, parts)
Placed(r) == [r EXCEPT !.nested = r.nested \/ r.most > 0]

Means(e, env) == IF e.is # "name" THEN e ELSE IF e.of \in DOMAIN env THEN env[e.of] ELSE Failed
Unread(e, env) == Means(e, env).is = "error"
Over(names, env) ==
    [n \in DOMAIN names \cup DOMAIN env |-> IF n \in DOMAIN names THEN names[n] ELSE env[n]]

Under(b, env) == Over([n \in DOMAIN b.fields |-> Means(b.fields[n], env)], env)

RECURSIVE Deposited(_, _, _)
Deposited(body, env, tag) ==
    FlattenSeq([i \in DOMAIN body |->
        IF body[i].kind # "partial" THEN Deposited(body[i].body, Under(body[i], env), tag)
        ELSE IF body[i].name = tag THEN <<[body |-> body[i].body, env |-> env]>> ELSE <<>>])

RECURSIVE Meaning(_, _, _, _, _)
Meaning(body, env, holes, level, tags) ==
    LET marker(b) == IF b.kind = "wdoc_content" THEN "content" ELSE b.kind
        kind(b) == IF b.kind = "wdoc_instance" THEN Means(b.reads, env).of ELSE b.kind
        fills(b, def, h) ==
            FlattenSeq([i \in DOMAIN b.body |->
                IF b.body[i].kind = h THEN b.body[i].body ELSE <<>>])
            \o (IF h = "content" THEN SelectSeq(b.body, LAMBDA c : c.kind \notin def.holes) ELSE <<>>)
        closed(r, n) ==
            LET grown == [r EXCEPT !.total = @ + n, !.tree = @ + n]
            IN  IF level > 0 THEN grown
                ELSE [grown EXCEPT !.tree = 0, !.most = Larger(grown.most, grown.tree)]
        repeated(b) ==
            LET each == Means(b.reads, env)
                times == IF each.is = "list" THEN Len(each.of) ELSE 0
                turns == [g \in 1..times |->
                    Meaning(b.body, Over([n \in {b.name} |-> each.of[g]], env), holes, level + 1, tags)]
            IN  closed(Joined(<<[Nothing EXCEPT !.faulty = (each.is = "error")]>> \o turns),
                       times * Len(b.body))
        built(b) ==
            LET def == manuscript.declared[kind(b)]
                given == [p \in DOMAIN def.params |->
                    IF p \in DOMAIN b.fields /\ ~Unread(b.fields[p], env)
                    THEN Means(b.fields[p], env) ELSE def.params[p]]
                loose == \E i \in DOMAIN b.body : b.body[i].kind \notin def.holes
                written == [h \in def.holes \cup (IF loose THEN {"content"} ELSE {}) |->
                    Placed(Meaning(fills(b, def, h), Under(b, env), holes, level, tags))]
                faulty == \E p \in DOMAIN def.params \cap DOMAIN b.fields : Unread(b.fields[p], env)
                inside == Meaning(def.body, Over(given, manuscript.lets), written, level + 1, tags)
            IN  closed([inside EXCEPT !.faulty = @ \/ faulty], Len(def.body))
        one(b) ==
            IF b.only # {} /\ walk \notin b.only THEN Nothing
            ELSE IF marker(b) \in DOMAIN holes THEN holes[marker(b)]
            ELSE IF b.kind \in Leaves
            THEN IF walk = "diagram" /\ level > MaxLowerDepth THEN Nothing
                 ELSE IF Unread(b.reads, env) THEN [Nothing EXCEPT !.faulty = TRUE]
                 ELSE [Nothing EXCEPT !.out = <<<<b.kind, Means(b.reads, env)>>>>]
            ELSE IF b.kind = "column" \/ (b.kind = "partial" /\ b.shown)
            THEN Meaning(b.body, env, holes, level, tags)
            ELSE IF b.kind = "collect" /\ b.name \notin tags
            THEN LET found == Deposited(manuscript.page \o manuscript.deposits, manuscript.lets, b.name)
                 IN  Placed(Joined([i \in DOMAIN found |->
                         Meaning(found[i].body, found[i].env, <<>>, 0, tags \cup {b.name})]))
            ELSE IF b.kind # "wdoc_repeater" /\ kind(b) \notin DOMAIN manuscript.declared THEN Nothing
            ELSE IF level > MaxLowerDepth
            THEN [Nothing EXCEPT !.deep = TRUE,
                                 !.out = IF walk = "html" THEN <<DepthMarker>> ELSE <<>>]
            ELSE IF b.kind = "wdoc_repeater" THEN repeated(b) ELSE built(b)
    IN  Joined([i \in DOMAIN body |-> one(body[i])])

Authored == Meaning(manuscript.page, manuscript.lets, <<>>, 0, {})

RECURSIVE Within(_)
Within(body) ==
    {body[i] : i \in DOMAIN body} \cup UNION {Within(body[i].body) : i \in DOMAIN body}
Written ==
    Within(manuscript.page \o manuscript.deposits)
    \cup UNION {Within(KindDeclarer(k).body) : k \in DOMAIN manuscript.declared}
KindsWritten == {b.kind : b \in Written}
NamedSlots == (UNION {KindDeclarer(k).holes : k \in DOMAIN manuscript.declared}) \ {"content"}

\* The documents that a walk is made for: other walks than that of a page know no
\* wrappers, named slots and conditions, two no slot at all, and one repeaters only.
IsMadeFor ==
    /\ ~OfAPage => /\ KindsWritten \cap ({"column", "partial", "collect"} \cup NamedSlots) = {}
                   /\ \A b \in Written : b.only = {}
    /\ walk \in {"css", "language"} => "wdoc_content" \notin KindsWritten
    /\ walk = "outline" => KindsWritten \subseteq Leaves \cup {"wdoc_repeater"}
Ended == walk # Idle /\ todo = <<>>

\* Whatever was walked before, a walk gives what the author means down to the cap: each
\* body under the names and the slots of its own expansion; and it records an error
\* exactly when something cannot be read, or when it has no other way to say that it
\* stopped (expand_bodies_inner, component_children, scope_lookup, expand_children).
GeneratedAsAuthored ==
    LET m == Authored
        refused == walk = "language" /\ m.deep
    IN  Ended /\ IsMadeFor /\ m.total <= MaxExpandedBlocks =>
            /\ printed = IF refused THEN <<>> ELSE m.out
            /\ noted = (m.faulty \/ refused)

\* Nothing is generated beyond one level below the cap, and a tree of more blocks than
\* the limit is never cut in silence (charge_expansion, expand_children).  Trees that
\* a slot brings into another disturb its count.
ExpansionIsBounded ==
    /\ \A i \in DOMAIN todo : BindingScopeDepth(todo[i]) <= MaxLowerDepth + 1
    /\ LET m == Authored
       IN  Ended /\ IsMadeFor /\ ~m.nested /\ m.most > MaxExpandedBlocks => noted
-----------------------------------------------------------------------------
(* The players of a site.                                                  *)

\* The kinds that the scan finds in blocks, and the component kinds it has walked.
RECURSIVE BlockTreeWalk(_, _)
BlockTreeWalk(body, walked) ==
    FoldLeft(LAMBDA seen, b :
        LET inside == BlockTreeWalk(b.body, seen.walked)
            below == [inside EXCEPT !.found = @ \cup seen.found \cup {b.kind}]
            defined == BlockTreeWalk(KindDeclarer(b.kind).body, below.walked \cup {b.kind})
        IN  IF b.kind \in below.walked \/ ~IsDeclared(b.kind) THEN below
            ELSE [defined EXCEPT !.found = @ \cup below.found],
        [found |-> {}, walked |-> walked], body)

\* The scripts of a player are shipped with every page that shows what it plays, also
\* from within a component (PlayerScripts::scan).  It does not look for what is
\* instantiated by name or collected from elsewhere.
PlayersAreFound ==
    Ended /\ walk = "html" /\ KindsWritten \cap {"wdoc_instance", "collect"} = {} =>
        \A i \in DOMAIN printed :
            printed[i][1] = "terminal" => "terminal" \in BlockTreeWalk(manuscript.page, {}).found
=============================================================================
