-------------------------------- MODULE Rename --------------------------------
(***************************************************************************)
(* Renaming a value in the editor.  The language server walks the source   *)
(* with a scope discipline of its own to know which names mean the same    *)
(* declaration (occurrences.rs), and rewrites those (navigation.rs); what  *)
(* the names really mean is decided elsewhere, when the document is        *)
(* evaluated (doc/eval.rs).  A document is a file with its items (level 0) *)
(* and those of one block `b` in it (level 1), and a file that it imports  *)
(* (level 2).  A path leads from an item to each place of its expression,  *)
(* and 0 from an expression to the name that it binds.  Types, schemas,    *)
(* namespaces and builtins are left out.                                   *)
(***************************************************************************)
EXTENDS Integers, FiniteSets, SequencesExt

CONSTANTS Drafts,       \* the items that may be written at each step:
                        \* a sequence of sets of <<level, items>>
          Fresh,        \* the new name, which the document does not have
          MaxCalls      \* how deep calls nest before evaluation gives up

VARIABLES scopes,       \* the items of each level
          drafted       \* the steps that are done
renameVars == <<scopes, drafted>>

Init == scopes = [level \in 0..2 |-> <<>>] /\ drafted = 0

\* A file does not open with two fields or `fn` items of one name, but a plain
\* let may have the name of either.
Indexed == {"field", "fn"}
IsDouble(level, items) ==
    \E j, k \in DOMAIN items :
        j # k /\ level # 1 /\ items[j].name = items[k].name /\ {items[j].is, items[k].is} \subseteq Indexed
Write(level, items) ==
    /\ ~IsDouble(level, scopes[level] \o items)
    /\ scopes' = [scopes EXCEPT ![level] = @ \o items]

Next ==
    /\ drafted < Len(Drafts)
    /\ drafted' = drafted + 1
    /\ \/ UNCHANGED scopes
       \/ \E draft \in Drafts[drafted + 1] : Write(draft[1], draft[2])

Spec == Init /\ [][Next]_renameVars
-----------------------------------------------------------------------------
(* Expressions, each of a kind, with the names it has and its parts.       *)
(*   a number; a name; self.name, parent.name and b.name                   *)
(*   let binder = part 1; part 2            fn(binder) { part 1 }          *)
(*   match part 1 { binder @ <a number> => part 2, _ => part 3 }           *)
(*   try part 1 catch binder { part 2 }     part 1(part 2)                 *)

\* Mutant of Sees: a let is bound before its initializer is walked.
Sees_Recursive(e, k) == e.is \in {"fn", "let"} \/ (e.is \in {"match", "try"} /\ k = 2)

\* A part sees the name that its expression binds, or does not: an initializer
\* comes before its name, and what fails before the name of its error.
Sees(e, k) == e.is = "fn" \/ (e.is \in {"let", "match", "try"} /\ k = 2)
Binds(e) == e.is \in {"let", "fn", "match", "try"}

Nowhere == <<>>
ItemAt(doc, at) == doc[at[1]][at[2]]
Places(doc) == UNION {{<<level, i>> : i \in DOMAIN doc[level]} : level \in DOMAIN doc}
LastNamed(s, name) == Max({0} \cup {k \in DOMAIN s : s[k].name = name})
-----------------------------------------------------------------------------
(* The server's view: the names that are bound, innermost last, each with  *)
(* its identity, its initializer (of a parameter, Nothing) and whether the *)
(* server knows its type.                                                  *)
Nothing == [is |-> "nothing"]
Binding(name, id, init, at, known) ==
    [name |-> name, id |-> id, init |-> init, at |-> at, known |-> known]

\* The items of files are known by their names, whatever file they are in.
IsTop(at) == at[1] # 1
Identity(doc, at) ==
    IF IsTop(at) THEN <<"global", ItemAt(doc, at).name>> ELSE <<"local", at>>

RECURSIVE Infer(_, _)
Infer(e, env) ==
    \/ e.is = "fn"
    \/ e.is = "let" /\ Infer(e.parts[2], env)
    \/ e.is = "name" /\ LastNamed(env, e.name) # 0 /\ env[LastNamed(env, e.name)].known

\* The items of a level, after those that are around it.  In a block a name is
\* bound before its own type is, and so hides the type of one outside; in the
\* root it has the identity, and the type, of the item before of that name.
ItemBindings(doc, level, outer) ==
    LET Bound(i, known) ==
            Binding(doc[level][i].name, Identity(doc, <<level, i>>), doc[level][i].expr,
                    <<level, i, 1>>, known)
        Bind(env, i) ==
            LET seen == IF level # 1 THEN env ELSE Append(env, Bound(i, FALSE))
            IN  Append(env, Bound(i, Infer(doc[level][i].expr, seen)))
    IN  FoldLeft(Bind, outer, [i \in DOMAIN doc[level] |-> i])

Occurs(site, id) == [site |-> site, id |-> id]

\* self.name and parent.name look among the items of one level, lets included.
Member(doc, e, p, level) ==
    LET of == IF e.is = "self" THEN level ELSE 0
        i == IF e.is = "self" \/ (e.is = "parent" /\ level = 1) THEN LastNamed(doc[of], e.name) ELSE 0
    IN  IF i = 0 THEN {} ELSE {Occurs(p, Identity(doc, <<of, i>>))}

\* The parts that have the type which is expected of the whole.
PassesOn(e, k) == (e.is \in {"let", "match"} /\ k > 1) \/ e.is = "try"

\* A name that is not bound in its file is looked up among the names of all
\* files, which do not include plain lets.
Resolve(doc, name) ==
    {<<"global", name>> : at \in {x \in Places(doc) :
        IsTop(x) /\ ItemAt(doc, x).name = name /\ ItemAt(doc, x).is \in Indexed}}

\* A name whose type is expected takes the walk to its initializer, which is
\* walked from there, with what is bound there.
RECURSIVE Walk(_, _, _, _, _, _, _)
Walk(doc, e, p, env, level, expected, visiting) ==
    LET k == IF e.is = "name" THEN LastNamed(env, e.name) ELSE 0
        id == env[k].id
        first == env[Min({j \in DOMAIN env : env[j].id = id})]
        binder == Occurs(Append(p, 0), <<"local", Append(p, 0)>>)
        within == Append(env, Binding(e.binder, binder.id,
                                      IF e.is = "let" THEN e.parts[1] ELSE Nothing,
                                      Append(p, 1), FALSE))
        Part(j) == Walk(doc, e.parts[j], Append(p, j), IF Sees(e, j) THEN within ELSE env,
                        level, expected /\ PassesOn(e, j), visiting)
    IN  Member(doc, e, p, level)
        \cup (IF e.is # "name" THEN {} ELSE IF k # 0 THEN {Occurs(p, id)}
              ELSE {Occurs(p, other) : other \in Resolve(doc, e.name)})
        \cup (IF k = 0 \/ ~expected THEN {}
              ELSE IF id \in visiting \/ first.init = Nothing THEN {}
              ELSE Walk(doc, first.init, first.at, env, level, TRUE, visiting \cup {id}))
        \cup (IF Binds(e) THEN {binder} ELSE {})
        \cup UNION {Part(j) : j \in DOMAIN e.parts}

Occurrences(doc) ==
    LET root == ItemBindings(doc, 0, <<>>)
        env == <<root, ItemBindings(doc, 1, root), ItemBindings(doc, 2, <<>>)>>
        Expected(at) ==
            LET bound == env[at[1] + 1]
            IN  ItemAt(doc, at).is = "field" /\ bound[LastNamed(bound, ItemAt(doc, at).name)].known
    IN  {Occurs(at, Identity(doc, at)) : at \in Places(doc)}
        \cup UNION {Walk(doc, ItemAt(doc, at).expr, Append(at, 1), env[at[1] + 1], at[1],
                         Expected(at), {}) : at \in Places(doc)}

SitesOf(found, id) == {o.site : o \in {x \in found : x.id = id}}

\* A place that has two identities cannot be rewritten for one of them.
Refused(found, id) == \E o \in found : o.site \in SitesOf(found, id) /\ o.id # id

RECURSIVE Rewrite(_, _, _)
Rewrite(e, p, sites) ==
    [e EXCEPT !.name = IF p \in sites THEN Fresh ELSE @,
              !.binder = IF Append(p, 0) \in sites THEN Fresh ELSE @,
              !.parts = [k \in DOMAIN @ |-> Rewrite(@[k], Append(p, k), sites)]]

Renamed(doc, sites) ==
    [level \in DOMAIN doc |-> [i \in DOMAIN doc[level] |->
        [doc[level][i] EXCEPT !.name = IF <<level, i>> \in sites THEN Fresh ELSE @,
                              !.expr = Rewrite(@, <<level, i, 1>>, sites)]]]
-----------------------------------------------------------------------------
(* What it means: the value, and which name was taken for which binding on *)
(* the way.  A read is plain when it is of the binding that is innermost   *)
(* from where the name is written, whoever asks.                           *)
Error == [is |-> "error", site |-> Nowhere]
Local(name, site, value) == [name |-> name, site |-> site, value |-> value]
Result(value, reads) == [value |-> value, reads |-> reads]
Failed == Result(Error, {})
After(reads, r) == [r EXCEPT !.reads = @ \cup reads]
Reads(p, target, plain) == {[site |-> p, target |-> target, plain |-> plain]}

\* The places of a name in the block, or in this file and after it the other.
PlacesOf(doc, top, name) ==
    {at \in Places(doc) : IsTop(at) = top /\ ItemAt(doc, at).name = name}
IsField(doc, at) == ItemAt(doc, at).is = "field"
First(places) ==
    CHOOSE at \in places : \A x \in places : at[1] < x[1] \/ (at[1] = x[1] /\ at[2] <= x[2])
Firsts(places) == IF places = {} THEN <<>> ELSE <<First(places)>>

\* The block first, and a let before a field: the first of each.
Candidates(doc, level, name) ==
    LET Of(places) == Firsts({at \in places : ~IsField(doc, at)})
                      \o Firsts({at \in places : IsField(doc, at)})
    IN  (IF level = 1 THEN Of(PlacesOf(doc, FALSE, name)) ELSE <<>>) \o Of(PlacesOf(doc, TRUE, name))

\* What is being evaluated is passed over, but for a field of the root.
ScopeLookup(doc, all, open) ==
    LET ready == SelectSeq(all, LAMBDA at : at \notin open \/ (IsTop(at) /\ IsField(doc, at)))
    IN  IF all = <<>> THEN Nowhere ELSE Head(IF ready = <<>> THEN all ELSE ready)

\* The field that self, parent or b finds.
FieldOf(doc, is, level, name) ==
    LET inBlock == is = "b" \/ (is = "self" /\ level = 1)
        fields == {at \in PlacesOf(doc, ~inBlock, name) : IsField(doc, at)}
    IN  IF fields = {} \/ (is = "parent" /\ level # 1) THEN Nowhere
        ELSE First(fields)

\* A block that has both a let and a field of a name.
IsTwin(doc, at) ==
    ~IsTop(at) /\ \E i \in DOMAIN doc[1] : i # at[2] /\ doc[1][i].name = ItemAt(doc, at).name

\* What the server follows from one file to another.
IsFollowed(doc, p, at, member) ==
    (p[1] = 2) = (at[1] = 2) \/ (~member /\ ItemAt(doc, at).is \in Indexed)

IsPlain(doc, p, name, at) ==
    at = Head(Candidates(doc, p[1], name)) /\ ~IsTwin(doc, at) /\ IsFollowed(doc, p, at, FALSE)
IsPlainMember(doc, e, p, level, at) ==
    /\ e.is # "b" /\ (level = 1) = (p[1] = 1)
    /\ ~IsTwin(doc, at) /\ IsFollowed(doc, p, at, TRUE)

\* A function is called with what it captured and where it is called from.
RECURSIVE Eval(_, _, _, _, _, _, _)
ReadItem(doc, at, open, calls) ==
    IF at = Nowhere \/ at \in open THEN Failed
    ELSE Eval(doc, ItemAt(doc, at).expr, Append(at, 1), <<>>, at[1], open \cup {at}, calls)
Eval(doc, e, p, locals, level, open, calls) ==
    LET Part(k, bound) ==
            Eval(doc, e.parts[k], Append(p, k), locals \o bound, level, open, calls)
        Bound(value) == <<Local(e.binder, Append(p, 0), value)>>
        InScope(name, site) ==
            LET at == ScopeLookup(doc, Candidates(doc, level, name), open)
            IN  IF at = Nowhere THEN Failed
                ELSE After(Reads(site, at, IsPlain(doc, site, name, at)),
                           ReadItem(doc, at, open, calls))
        \* A local that is called and is no function is passed over.
        Named(name, site, called) ==
            LET k == LastNamed(locals, name)
                local == locals[k]
            IN  IF k # 0 /\ (called => local.value.is = "fn")
                THEN Result(local.value, Reads(site, local.site, TRUE))
                ELSE LET r == InScope(name, site)
                     IN  IF k = 0 THEN r ELSE [r EXCEPT !.reads = {[x EXCEPT !.plain = FALSE] : x \in @}]
        Callee == IF e.parts[1].is = "name" THEN Named(e.parts[1].name, Append(p, 1), TRUE)
                  ELSE Part(1, <<>>)
        Called(f) ==
            LET given == Part(2, <<>>)
            IN  IF given.value = Error \/ calls = MaxCalls THEN After(given.reads, Failed)
                ELSE After(given.reads,
                           Eval(doc, f.body, Append(f.site, 1),
                                Append(f.captured, Local(f.binder, Append(f.site, 0), given.value)),
                                level, open, calls + 1))
        Continue(r) ==
            CASE e.is = "let" -> Part(2, Bound(r.value))
              [] e.is = "match" /\ r.value.is = "number" -> Part(2, Bound(r.value))
              [] e.is = "match" /\ r.value.is # "number" -> Part(3, <<>>)
              [] e.is = "call" -> IF r.value.is = "fn" THEN Called(r.value) ELSE Failed
        Begun == IF e.is = "call" THEN Callee ELSE Part(1, <<>>)
    IN  CASE e.is = "number" -> Result([is |-> "number", site |-> p], {})
          [] e.is = "name" -> Named(e.name, p, FALSE)
          [] e.is \in {"self", "parent", "b"} ->
                LET at == FieldOf(doc, e.is, level, e.name)
                IN  IF at = Nowhere THEN Failed
                    ELSE After(Reads(p, at, IsPlainMember(doc, e, p, level, at)),
                               ReadItem(doc, at, open, calls))
          [] e.is = "fn" ->
                Result([is |-> "fn", site |-> p, binder |-> e.binder, body |-> e.parts[1],
                        captured |-> locals], {})
          [] e.is = "try" ->
                LET r == Part(1, <<>>)
                IN  IF r.value # Error THEN r
                    ELSE After(r.reads, Part(2, Bound([is |-> "message", site |-> p])))
          [] OTHER -> LET r == Begun IN IF r.value = Error THEN r ELSE After(r.reads, Continue(r))

\* What each item means when it is the first to be read.
Meanings(doc) == [at \in Places(doc) |-> ReadItem(doc, at, {}, 0)]
Shown(r) == <<r.value.is, r.value.site, {<<x.site, x.target>> : x \in r.reads}>>
-----------------------------------------------------------------------------
(* Renaming a binding to a new name changes nothing of what the document   *)
(* means, as long as the binding is found from where its names are         *)
(* written: not by passing over another one, not in the scope of a caller, *)
(* not by the path of its block and not as a plain let of another file,    *)
(* which the server does not follow.  Every such read is among the         *)
(* references of its binding.                                              *)
IsPlainly(reads, sites) ==
    \A x \in reads : x.site \in sites \/ x.target \in sites => x.plain

IdentityOf(found, site) == {o.id : o \in {x \in found : x.site = site}}

KeepsMeaning(doc, found, meanings) ==
    LET reads == UNION {meanings[at].reads : at \in DOMAIN meanings}
    IN  /\ \A x \in reads :
              x.plain => IdentityOf(found, x.target) \subseteq IdentityOf(found, x.site)
        /\ \A id \in {o.id : o \in found} :
              ~Refused(found, id) /\ IsPlainly(reads, SitesOf(found, id)) =>
                 LET renamed == Meanings(Renamed(doc, SitesOf(found, id)))
                 IN  \A at \in DOMAIN meanings : Shown(renamed[at]) = Shown(meanings[at])

\* `references` finds each use of a declaration and `rename` keeps what the
\* document means (navigation.rs, occurrences.rs).
RenameKeepsMeaning == KeepsMeaning(scopes, Occurrences(scopes), Meanings(scopes))
===============================================================================
