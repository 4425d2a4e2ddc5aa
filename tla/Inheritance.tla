---------------------------- MODULE Inheritance ----------------------------
(***************************************************************************)
(* The `extends` graph of a document: what is checked when the document is *)
(* opened (doc/types/extends.rs) and what is walked afterwards, without a  *)
(* guard, to know the fields of a declaration (doc/types/inherit.rs).  The *)
(* two are written separately.  The check promises that the walk may rely  *)
(* on it: the walk ends, and a field name means one thing.                 *)
(***************************************************************************)
EXTENDS Naturals, SequencesExt

CONSTANTS TypeDrafts,         \* the declarations that may stand at each place of
                              \* the source: a sequence of sets
          FileNamespace,      \* the namespace of each file, a sequence of names
          RootFile, HostFile, \* the main file, and the one of the host's own types
          ItemAliases,        \* the `use` aliases of items, ...
          NsAliases,          \* ... those of namespaces,
          Wildcards           \* and the search path

\* No declaration has two fields of one name (register_decl_with_members; the
\* host writes its own types so).
ASSUME DraftsAssumption ==
    /\ TypeDrafts \in Seq(Range(TypeDrafts))
    /\ \A n \in DOMAIN TypeDrafts : \A draft \in TypeDrafts[n] :
           /\ draft.extends \in Seq(Range(draft.extends))
           /\ draft.fields \in Seq(Range(draft.fields))
           /\ \A j, k \in DOMAIN draft.fields :
                  draft.fields[j].name = draft.fields[k].name => j = k

VARIABLE source         \* the declarations, in the order files are searched:
                        \* the root, its imports, the host's types
inheritanceVars == <<source>>

ExtendsInit == source = <<>>

Declare(draft) == source' = Append(source, draft)

ExtendsNext ==
    /\ Len(source) < Len(TypeDrafts)
    /\ \E draft \in TypeDrafts[Len(source) + 1] : Declare(draft)

ExtendsSpec == ExtendsInit /\ [][ExtendsNext]_inheritanceVars
-----------------------------------------------------------------------------
(* Names.  A path that resolves to nothing resolves to the empty name, and *)
(* a name that nothing has is at place 0.                                  *)
Fqn(i) == source[i].fqn
NamespaceOf(i) == FileNamespace[source[i].file]
Declared == {Fqn(i) : i \in DOMAIN source}

\* The names a path may stand for, in the order they are tried.
Candidates(path, ns) ==
    <<ns \o path>>
    \o (IF Len(path) = 1 /\ path[1] \in DOMAIN ItemAliases
        THEN <<ItemAliases[path[1]]>> ELSE <<>>)
    \o (IF Len(path) > 1 /\ path[1] \in DOMAIN NsAliases
        THEN <<NsAliases[path[1]] \o Tail(path)>> ELSE <<>>)
    \o [w \in DOMAIN Wildcards |-> Wildcards[w] \o path]
    \o <<path>>

ResolvePath(path, ns) ==
    LET found == SelectSeq(Candidates(path, ns), LAMBDA c : c \in Declared)
    IN  IF found = <<>> THEN <<>> ELSE Head(found)

\* The first declaration of a name among those of some kinds.
FirstDecl(kinds, fqn) ==
    LET places == {i \in DOMAIN source : source[i].kind \in kinds /\ Fqn(i) = fqn}
    IN  IF places = {} THEN 0 ELSE Min(places)

\* The elements of S among those of s.
Only(s, S) ==
    LET kept[k \in 0..Len(s)] ==
            IF k = 0 THEN <<>>
            ELSE IF s[k] \in S THEN Append(kept[k - 1], s[k]) ELSE kept[k - 1]
    IN  kept[Len(s)]

\* A parent that is neither a type nor an interface (a union) is left out.
ParentsBy(i, Find(_)) ==
    Only([k \in DOMAIN source[i].extends |->
             Find(ResolvePath(source[i].extends[k], NamespaceOf(i)))],
         DOMAIN source)

\* The ancestors of i; i is among them on a cycle only.
AncestorsBy(i, parents) ==
    LET from[n \in 0..Len(source)] ==
            IF n = 0 THEN Range(parents[i])
            ELSE from[n - 1] \cup UNION {Range(parents[p]) : p \in from[n - 1]}
    IN  from[Len(source)]
-----------------------------------------------------------------------------
(* The check at open.  A declaration whose name an earlier one has is no   *)
(* node of the graph, whichever of the two is the type.                    *)
ByFqn(fqn) == FirstDecl({"type", "interface"}, fqn)
Nodes == {i \in DOMAIN source : ByFqn(Fqn(i)) = i}
Graph == [i \in Nodes |-> ParentsBy(i, ByFqn)]

NoDuplicates ==
    \A i, j \in DOMAIN source :
        i # j /\ Fqn(i) = Fqn(j) =>
            /\ source[i].file # source[j].file
            /\ {source[i].file, source[j].file} # {RootFile, HostFile}

CheckExtendsTargets ==
    \A i \in DOMAIN source : \A k \in DOMAIN source[i].extends :
        source[i].file # HostFile =>
            ResolvePath(source[i].extends[k], NamespaceOf(i)) \notin {<<>>, Fqn(i)}

NoCycle == \A i \in Nodes : i \notin AncestorsBy(i, Graph)

OwnFields(i) ==
    [k \in DOMAIN source[i].fields |->
        [name |-> source[i].fields[k].name, type |-> source[i].fields[k].type,
         slot |-> source[i].fields[k].slot, owner |-> i]]

\* The ancestors of i and i, parents before children, each once.
AncestorsFirst(i) ==
    LET walk[n \in 0..Len(source)] ==
            [j \in Nodes |->
                IF n = 0 THEN <<j>>
                ELSE FlattenSeq([k \in DOMAIN Graph[j] |-> walk[n - 1][Graph[j][k]]])
                     \o <<j>>]
        all == walk[Len(source)][i]
        first == Only([k \in DOMAIN all |-> k],
                      {k \in DOMAIN all : \A m \in 1..k - 1 : all[m] # all[k]})
    IN  [k \in DOMAIN first |-> all[first[k]]]

CollectAncestorFields(i) ==
    LET order == AncestorsFirst(i)
    IN  FlattenSeq([k \in DOMAIN order |-> OwnFields(order[k])])

\* Functions are compatible with each other whatever their signatures.
TypesCompatible(a, b) == a = b \/ {a, b} \subseteq {"fn(&A)", "fn(B)"}

LastOfName(rows, k) == \A m \in k + 1..Len(rows) : rows[m].name # rows[k].name

\* Each row against the last one of its name before it.
NoTypeConflict(rows) ==
    \A k \in DOMAIN rows : \A j \in 1..k - 1 :
        /\ rows[j].name = rows[k].name
        /\ LastOfName(SubSeq(rows, 1, k - 1), j)
        => TypesCompatible(rows[j].type, rows[k].type)

\* Of the rows of one name the last one keeps its slot.
NoSlotClash(rows) ==
    \A j, k \in {k \in DOMAIN rows : LastOfName(rows, k) /\ rows[k].slot # "none"} :
        rows[j].slot = rows[k].slot => j = k

Opens ==
    /\ NoDuplicates
    /\ CheckExtendsTargets
    /\ NoCycle
    /\ \A i \in Nodes :
          LET rows == CollectAncestorFields(i)
          IN  NoTypeConflict(rows) /\ NoSlotClash(rows)
-----------------------------------------------------------------------------
(* The walk afterwards.  A type is looked for before an interface, and     *)
(* nothing remembers what was visited.                                     *)
LookupParent(fqn) ==
    IF FirstDecl({"type"}, fqn) # 0 THEN FirstDecl({"type"}, fqn)
    ELSE FirstDecl({"interface"}, fqn)
Walked == [i \in DOMAIN source |-> ParentsBy(i, LookupParent)]

Endless == <<[name |-> "endless", type |-> "none", slot |-> "none", owner |-> 0]>>

InsertOrOverride_KeepsFirst(out, row) ==
    IF \E k \in DOMAIN out : out[k].name = row.name THEN out ELSE Append(out, row)
InsertOrOverride(out, row) ==
    LET old == {k \in DOMAIN out : out[k].name = row.name}
    IN  IF old = {} THEN Append(out, row)
        ELSE [k \in DOMAIN out |-> IF k \in old THEN row ELSE out[k]]

\* Rows in their order, each in the place of an earlier one of its name.
Merged(rows) ==
    LET out[k \in 0..Len(rows)] ==
            IF k = 0 THEN <<>> ELSE InsertOrOverride(out[k - 1], rows[k])
    IN  out[Len(rows)]

\* The fields of each declaration, its parents' first; Endless where the
\* recursion goes deeper than there are declarations.
EffectiveFields ==
    LET build[n \in 0..Len(source) + 1] ==
            [i \in DOMAIN source |->
                LET inherited == [k \in DOMAIN Walked[i] |-> build[n - 1][Walked[i][k]]]
                IN  IF n = 0 \/ Endless \in Range(inherited) THEN Endless
                    ELSE Merged(FlattenSeq(inherited) \o OwnFields(i))]
    IN  build[Len(source) + 1]

\* One field of each declaration without the whole list: its own, or that
\* of the last parent that has it.
LookupEffectiveField(name) ==
    LET look[n \in 0..Len(source) + 1] ==
            [i \in DOMAIN source |->
                LET own == {row \in Range(OwnFields(i)) : row.name = name}
                    inherited == [k \in DOMAIN Walked[i] |-> look[n - 1][Walked[i][k]]]
                    found == {k \in DOMAIN inherited : inherited[k] # <<>>}
                IN  IF n = 0 THEN <<>>
                    ELSE IF own # {} THEN <<CHOOSE row \in own : TRUE>>
                    ELSE IF found = {} THEN <<>> ELSE inherited[Max(found)]]
    IN  look[Len(source) + 1]
-----------------------------------------------------------------------------
KindsAgree ==
    \A i, j \in DOMAIN source : Fqn(i) = Fqn(j) => source[i].kind = source[j].kind

(* In a document that opens, where no name is a type here and an interface *)
(* there, the walk ends for every declaration, over the ancestors that     *)
(* were checked; looking one field up gives the field of the whole list;   *)
(* and a field any ancestor declares is there with a type compatible with  *)
(* the ancestor's, so that a value of the declaration is one of each       *)
(* ancestor.                                                               *)
FieldsMeanOneThing ==
    Opens /\ KindsAgree =>
        \A i \in Nodes :
            LET all == EffectiveFields[i]
                ancestors == AncestorsBy(i, Walked)
            IN  /\ all # Endless
                /\ ancestors = AncestorsBy(i, Graph)
                /\ \A k \in DOMAIN all :
                      LookupEffectiveField(all[k].name)[i] = <<all[k]>>
                /\ \A a \in ancestors : \A j \in DOMAIN source[a].fields :
                      \E k \in DOMAIN all :
                          /\ all[k].name = source[a].fields[j].name
                          /\ TypesCompatible(all[k].type, source[a].fields[j].type)

(* extends.rs: "no two differently named fields of the effective set claim *)
(* the same `@inline(N)` label slot".                                      *)
SlotsAreDistinct ==
    Opens /\ KindsAgree => \A i \in Nodes : NoSlotClash(EffectiveFields[i])

(* extends.rs: the graph is "checked here so that walk can assume it       *)
(* terminates".                                                            *)
WalkTerminates == Opens => \A i \in Nodes : EffectiveFields[i] # Endless
=============================================================================
