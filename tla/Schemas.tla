------------------------------ MODULE Schemas ------------------------------
(***************************************************************************)
(* What a document may contain, said twice: by the walk of `wcl check`,    *)
(* from the root down (doc/strict.rs, doc/schema_check.rs), and by a read, *)
(* which looks at one field and the block around it (doc/views/field.rs).  *)
(* And who gets a block that the walk admits: the projections of the slots *)
(* (doc/views/block.rs, doc/mod.rs), written apart from both.              *)
(*                                                                         *)
(* Types are declared, or derived from the block that declares a kind      *)
(* (doc/schema_lookup.rs).  Their fields are the effective ones, and `own` *)
(* the names of those that a type declares itself; what inheritance,       *)
(* unions and aliases do is in Inheritance and in Slots.                   *)
(***************************************************************************)
EXTENDS Naturals, FiniteSets, SequencesExt

CONSTANTS Vocabularies,  \* what a document may be made of: the types declared,
                         \* those of the root file first; the blocks and fields
                         \* that may be written, and how many of them
          UnionVariants, \* the variants of each union, each from names to types
          Namespace      \* the namespace of each file; the first is the root

VARIABLES vocabulary,  \* of the document, and
          items        \* what is written in it, parents before children
schemaVars == <<vocabulary, items>>
types == vocabulary.types
NoSchema == [kind |-> "", open |-> TRUE, contextual |-> FALSE, derived |-> FALSE,
             declares |-> FALSE, extends |-> {}]

SchemasInit == vocabulary \in Vocabularies /\ items = <<>>

\* Types that are not imported are the root file's, unless the host declares
\* them, and no host declares a `@document` type.
ASSUME VocabulariesAssumption ==
    \A v \in Vocabularies :
        /\ DOMAIN v.types = 1..Len(v.types)
        /\ \A t \in DOMAIN v.types :
               /\ v.types[t] # NoSchema /\ v.types[t].own \subseteq DOMAIN v.types[t].fields
               /\ v.types[t].sort = "document" =>
                      v.types[t].imported \/ v.types[t].ns = Namespace[1]
        /\ \A draft \in v.drafts : {"in", "file"} \subseteq DOMAIN draft

\* Top-level items come file by file, and any block's after those of its elders.
InOrder(item) ==
    items # <<>> =>
        LET last == items[Len(items)]
        IN  item.in > last.in \/ (item.in = last.in /\ item.file >= last.file)

WrittenIn(draft, parent, file) == [draft EXCEPT !.in = parent, !.file = file]
Write(draft, parent, file) ==
    LET item == WrittenIn(draft, parent, file)
    IN  /\ parent # 0 => items[parent].sort = "block" /\ file = items[parent].file
        /\ InOrder(item)
        /\ draft.sort = "field" =>
               \A i \in DOMAIN items :
                   items[i].in = parent /\ items[i].name = draft.name =>
                       items[i].file # file \/ items[i].sort = "block"
        /\ items' = Append(items, item)
        /\ UNCHANGED vocabulary

SchemasNext ==
    /\ Len(items) < vocabulary.room
    /\ \E draft \in vocabulary.drafts, parent \in 0..Len(items), file \in DOMAIN Namespace :
           Write(draft, parent, file)

SchemasSpec == SchemasInit /\ [][SchemasNext]_schemaVars
-----------------------------------------------------------------------------
Blocks == {i \in DOMAIN items : items[i].sort = "block"}
Fields == {i \in DOMAIN items : items[i].sort = "field"}
FieldsIn(p) == {f \in Fields : items[f].in = p}
BlocksIn(p) == {b \in Blocks : items[b].in = p}
OfKind(blocks, kind) == {b \in blocks : items[b].name = kind}
IsFirst(b, blocks) == b \in blocks /\ b = Min(blocks)

(* Which type governs a block.                                             *)
NoSlot == [of |-> "none", many |-> FALSE, name |-> ""]

\* Types are told apart by their places in `types`.
SchemaCandidates(kind) ==
    {t \in DOMAIN types : types[t].sort = "block" /\ types[t].kind = kind}
FirstOf(places) == IF places = {} THEN NoSchema ELSE types[Min(places)]

\* A bare kind is looked for in the namespace it is written in, then among
\* the declarations of the root, then anywhere.
IsBare(qualifier) == qualifier = ""
FindSchema(qualifier, kind, ns) ==
    LET all == SchemaCandidates(kind)
        Within(space) == {t \in all : types[t].ns = space}
        authored == {t \in all : ~types[t].imported}
    IN  IF ~IsBare(qualifier) THEN FirstOf(Within(qualifier))
        ELSE IF Within(ns) # {} THEN FirstOf(Within(ns))
        ELSE IF authored # {} THEN FirstOf(authored)
        ELSE FirstOf(all)

DeclaredSchema(b) == FindSchema(items[b].ns, items[b].name, Namespace[items[b].file])

\* The blocks that declare a kind.  Which of them do is asked before any
\* derived kind is known.
Declarers(kind) ==
    {b \in BlocksIn(0) : DeclaredSchema(b).declares /\ items[b].label = kind}

\* A parameter typed as a hole for blocks is no field of the kind.
IsHole(param) == items[param].type = "content"
Params(declarer) == {p \in OfKind(BlocksIn(declarer), "slot") : ~IsHole(p)}

DeriveKindSchema(params, kind) ==
    LET optional == {p \in params : \E f \in FieldsIn(p) : items[f].name = "default"}
        Field(param) == [type |-> IF items[param].type = "" THEN "utf8" ELSE items[param].type,
                         open |-> items[param].type = "", slot |-> NoSlot,
                         optional |-> param \in optional]
    IN  [sort |-> "block", kind |-> kind, ns |-> "", imported |-> FALSE, open |-> FALSE,
         contextual |-> TRUE, declares |-> FALSE, derived |-> TRUE, extends |-> {},
         required |-> {items[p].label : p \in params \ optional},
         fields |-> [name \in {items[p].label : p \in params} |->
                        Field(Min({p \in params : items[p].label = name}))]]

DerivedFrom(declarers, kind) ==
    IF declarers = {} THEN NoSchema ELSE DeriveKindSchema(Params(Min(declarers)), kind)
DerivedBlockSchema(kind) == DerivedFrom(Declarers(kind), kind)

\* Declared types win, and a qualified kind is never a derived one.
DeclaredOrDerived(declared, b) ==
    IF ~IsBare(items[b].ns) \/ declared # NoSchema THEN declared
    ELSE DerivedBlockSchema(items[b].name)
SchemaOf(b) == DeclaredOrDerived(DeclaredSchema(b), b)

IsRegisteredKind(kind) ==
    FindSchema("", kind, Namespace[1]) # NoSchema \/ DerivedBlockSchema(kind) # NoSchema

\* Kinds that fill a hole of some block; the host knows of which.
IsPossibleBlockSlotFill(kind) ==
    \E holder \in BlocksIn(0) : \E p \in OfKind(BlocksIn(holder), "slot") :
        IsHole(p) /\ items[p].label = kind

SchemasOf(b) == IF SchemaOf(b) = NoSchema THEN <<>> ELSE <<SchemaOf(b)>>
IsContextual(b) == SchemaOf(b).contextual

\* The merge of the `@document` types that govern a namespace.
Governs(t, ns) == types[t].sort = "document" /\ (types[t].ns = ns \/ types[t].imported)
DocSchemasForNs(ns) == [t \in {t \in DOMAIN types : Governs(t, ns)} |-> types[t]]
Declaring(schemas, name) == {t \in DOMAIN schemas : name \in DOMAIN schemas[t].fields}
RootSchemas(i) == DocSchemasForNs(Namespace[items[i].file])
SlotsOf(schemas) ==
    UNION {{schemas[t].fields[name].slot : name \in DOMAIN schemas[t].fields} :
           t \in DOMAIN schemas}
AllowedChildKinds(schemas) == {s.name : s \in {s \in SlotsOf(schemas) : s.of = "kind"}}
UnionSlots(schemas) == {s \in SlotsOf(schemas) : s.of = "union"}
-----------------------------------------------------------------------------
(* Reading a field.                                                        *)
NoField == [type |-> "", open |-> TRUE]

\* The type field that declares a field of the document.
FieldOf(schemas, name) ==
    LET places == Declaring(schemas, name)
    IN  IF places = {} THEN NoField ELSE schemas[Min(places)].fields[name]
DeclaredField(f) ==
    LET p == items[f].in
    IN  FieldOf(IF p = 0 THEN RootSchemas(f) ELSE SchemasOf(p), items[f].name)

RootFieldMembership(f) ==
    IF DOMAIN RootSchemas(f) = {} THEN "NoDocumentSchema"
    ELSE IF Declaring(RootSchemas(f), items[f].name) # {} THEN "Ok" ELSE "UnknownField"

Admits(schema, name) == schema.open \/ name \in DOMAIN schema.fields
SchemaMembership(f) ==
    LET p == items[f].in
    IN  IF items[f].open THEN "Ok"
        ELSE IF p = 0 THEN RootFieldMembership(f)
        ELSE IF items[p].open \/ Admits(SchemaOf(p), items[f].name) THEN "Ok"
        ELSE "UnknownField"

\* A number that its declared type does not hold; a text in its place is
\* left to the check.
Holds(declared, value) == declared.open \/ declared.type # "u8" \/ value # "300"
NumericMisfit(f) ==
    /\ ~items[f].open
    /\ items[f].in # 0 => ~items[items[f].in].open
    /\ ~Holds(DeclaredField(f), items[f].value)

ReadAs(f, membership) ==
    IF membership # "Ok" THEN membership
    ELSE IF items[f].value = "unbound" THEN "Unresolved"
    ELSE IF NumericMisfit(f) THEN "Misfit"
    ELSE "Ok"
Read(f) == ReadAs(f, SchemaMembership(f))

ValueMatches(value, type) ==
    (type = "u8" /\ value = "7") \/ (type = "utf8" /\ value = "text")

\* A block is a variant of a union when it has the fields of just one.
BlockToVariant(b, union) ==
    LET fields == FieldsIn(b)
        Matches(variant) ==
            /\ {items[f].name : f \in fields} = DOMAIN variant
            /\ \A f \in fields : ValueMatches(items[f].value, variant[items[f].name])
    IN  /\ \A f \in fields : Read(f) = "Ok"
        /\ Cardinality({v \in UnionVariants[union] : Matches(v)}) = 1
-----------------------------------------------------------------------------
(* The check.  A violation is the item it is shown at, and what it says; 0 *)
(* stands for the declarations.                                            *)
ValidateOwnFields(b, schema) ==
    IF schema.open THEN {}
    ELSE {<<f, "UnknownField">> : f \in {f \in FieldsIn(b) :
              ~items[f].open /\ items[f].name \notin DOMAIN schema.fields}}
         \cup {<<b, "MissingRequired">> : name \in
                  schema.required \ {items[f].name : f \in FieldsIn(b)}}

\* What the value of a field is reported for.
ErrorsOfValue(f, declared, read, shown) ==
    IF items[f].open \/ declared.open \/ read \notin shown THEN {}
    ELSE IF read # "Ok" THEN {<<f, read>>}
    ELSE IF ValueMatches(items[f].value, declared.type) THEN {}
    ELSE {<<f, "FieldTypeMismatch">>}
FieldValueErrors_WhenRead(f, declared) == ErrorsOfValue(f, declared, Read(f), {"Ok"})
FieldValueErrors(f, declared) == ErrorsOfValue(f, declared, Read(f), {"Ok", "Misfit"})

\* The blocks of p that no slot claims by their kind.
UnionChildren(p) ==
    {c \in BlocksIn(p) : items[c].name \notin AllowedChildKinds(SchemasOf(p))}

\* Every one of them is held to every union slot.
UnionErrors(b, schema) ==
    UNION {IF slot.many
           THEN {<<c, "VariantNoMatch">> :
                    c \in {c \in UnionChildren(b) : ~BlockToVariant(c, slot.name)}}
           ELSE IF \E c \in UnionChildren(b) : BlockToVariant(c, slot.name) THEN {}
           ELSE {<<b, "VariantNoMatch">>} : slot \in UnionSlots(<<schema>>)}

MatchesUnion(b, schemas) ==
    \E slot \in UnionSlots(schemas) : BlockToVariant(b, slot.name)
MatchesInterface(b, schemas) ==
    \E slot \in SlotsOf(schemas) :
        slot.of = "interface" /\ slot.name \in SchemaOf(b).extends

ChildCounts(b, schema) ==
    UNION {LET count == Cardinality(OfKind(BlocksIn(b), schema.fields[name].slot.name))
           IN  IF schema.fields[name].slot.of # "kind" \/ schema.fields[name].slot.many THEN {}
               ELSE IF count = 0 /\ ~schema.fields[name].optional THEN {<<b, "MissingRequired">>}
               ELSE IF count > 1 THEN {<<b, "ChildrenTooMany">>}
               ELSE {} : name \in DOMAIN schema.fields}

\* What is in a block, by its place.
Placement(c, schema) ==
    IF items[c].name \in AllowedChildKinds(<<schema>>) THEN "kind"
    ELSE IF MatchesUnion(c, <<schema>>) THEN "union"
    ELSE IF MatchesInterface(c, <<schema>>) THEN "interface"
    ELSE "none"
ErrorsAt(c, own, place, inside) ==
    IF own = NoSchema /\ IsPossibleBlockSlotFill(items[c].name) THEN {}
    ELSE IF place = "none"
    THEN IF own.contextual THEN ValidateOwnFields(c, own) ELSE {<<c, "DisallowedChild">>}
    ELSE IF place = "union" \/ own.contextual THEN {} ELSE inside
ChildErrors(c, schema, inside) == ErrorsAt(c, SchemaOf(c), Placement(c, schema), inside)

\* A block by its schema, and those in it, whose own errors are `inside`.
BlockErrorsBy(b, schema, inside) ==
    IF items[b].open THEN {}
    ELSE IF schema = NoSchema THEN {<<b, "UnregisteredKind">>}
    ELSE IF schema.open THEN {}
    ELSE ValidateOwnFields(b, schema)
         \cup IF schema.derived THEN {}
              ELSE UnionErrors(b, schema)
                   \cup (UNION {FieldValueErrors(f, DeclaredField(f)) : f \in FieldsIn(b)})
                   \cup (UNION {ChildErrors(c, schema, inside[c]) : c \in BlocksIn(b)})
                   \cup ChildCounts(b, schema)
BlockErrors[b \in Blocks] ==
    BlockErrorsBy(b, SchemaOf(b), [c \in BlocksIn(b) |-> BlockErrors[c]])

ValidateRootField(f) ==
    IF items[f].open THEN {}
    ELSE IF RootFieldMembership(f) # "Ok" THEN {<<f, RootFieldMembership(f)>>}
    ELSE FieldValueErrors(f, DeclaredField(f))

ValidateRootBlock(b) ==
    IF items[b].open \/ MatchesUnion(b, RootSchemas(b)) THEN {}
    ELSE IF ~IsRegisteredKind(items[b].name)
    THEN IF IsPossibleBlockSlotFill(items[b].name) THEN {} ELSE {<<b, "UnregisteredKind">>}
    ELSE (IF DOMAIN RootSchemas(b) = {} THEN {<<b, "NoDocumentSchema">>}
          ELSE IF items[b].name \in AllowedChildKinds(RootSchemas(b)) THEN {}
          ELSE {<<b, "DisallowedChild">>})
         \cup BlockErrors[b]

\* A kind that is both declared by a block and by a type.
DeclaredKindCollisions ==
    {<<b, "DeclaredKindCollision">> : b \in {b \in BlocksIn(0) :
        /\ IsFirst(b, Declarers(items[b].label))
        /\ FindSchema("", items[b].label, Namespace[1]) # NoSchema}}

RootAuthored(ns) ==
    {t \in DOMAIN types :
        types[t].sort = "document" /\ types[t].ns = ns /\ ~types[t].imported}
MultipleDocumentSchemas ==
    {<<0, "MultipleDocumentSchemas">> : ns \in
        {ns \in {types[t].ns : t \in DOMAIN types} : Cardinality(RootAuthored(ns)) > 1}}

SchemaErrors ==
    MultipleDocumentSchemas \cup DeclaredKindCollisions
    \cup (UNION {ValidateRootField(f) : f \in FieldsIn(0)})
    \cup (UNION {ValidateRootBlock(b) : b \in BlocksIn(0)})

\* Types of the root that govern a namespace together, and of the names that
\* they share those which are a slot of one of them.  A warning is for what
\* both types declare themselves.
CoGovern_OfOneNamespace(a, b) == a.ns = b.ns
CoGovern(a, b) == a.imported \/ b.imported \/ a.ns = b.ns
Meets(a, b) ==
    /\ a < b
    /\ types[a].sort = "document" /\ types[b].sort = "document"
    /\ CoGovern(types[a], types[b])
SharedSlots(a, b) ==
    {name \in DOMAIN types[a].fields \cap DOMAIN types[b].fields :
        NoSlot # types[a].fields[name].slot \/ NoSlot # types[b].fields[name].slot}
SchemaWarnings ==
    UNION {UNION {SharedSlots(a, b) \cap types[a].own \cap types[b].own :
                  b \in {b \in DOMAIN types : Meets(a, b)}} : a \in DOMAIN types}
-----------------------------------------------------------------------------
(* Who gets a block: a slot with a kind takes the blocks of that kind, and *)
(* one with a union those it can make a variant of; interface slots take   *)
(* none, the host walks the blocks itself.                                 *)
TakenFrom(slot, ofKind, others) ==
    LET taken == IF slot.of = "kind" THEN OfKind(ofKind, slot.name)
                 ELSE IF slot.of = "union"
                 THEN {c \in others : BlockToVariant(c, slot.name)}
                 ELSE {}
    IN  IF slot.many THEN taken ELSE {c \in taken : IsFirst(c, taken)}

\* At the root the first type that declares a name decides, and blocks that
\* another slot has by their kind are held to unions too.
ResolveRootChildren ==
    LET schemas == DocSchemasForNs(Namespace[1])
        names == UNION {DOMAIN schemas[t].fields : t \in DOMAIN schemas}
    IN  UNION {TakenFrom(FieldOf(schemas, name).slot, BlocksIn(0), BlocksIn(0)) : name \in names}

ChildrenProjection(p) ==
    UNION {TakenFrom(slot, BlocksIn(p), UnionChildren(p)) : slot \in SlotsOf(SchemasOf(p))}

Gathered == ResolveRootChildren \cup (UNION {ChildrenProjection(p) : p \in Blocks})
-----------------------------------------------------------------------------
\* The blocks around an item, one in another: those that are in every set
\* which has what the item is in, and what its members are in.
Enclosing(i) ==
    LET GoesUp(S) == \A j \in S \cup {i} : items[j].in \in S \cup {0}
    IN  {a \in Blocks : \A S \in SUBSET Blocks : GoesUp(S) => a \in S}

\* The blocks whose bodies the check does not go into: waived, the host's,
\* payloads of a union, and those it reports for being where they are.
LeftAlone(b, errors) ==
    \/ items[b].open
    \/ SchemaOf(b) = NoSchema
    \/ SchemaOf(b).open \/ SchemaOf(b).derived
    \/ items[b].in # 0 /\ (IsContextual(b) \/ <<b, "DisallowedChild">> \in errors)
    \/ IF items[b].in = 0 THEN MatchesUnion(b, RootSchemas(b))
       ELSE MatchesUnion(b, SchemasOf(items[b].in))

\* A field for which `wcl check` reports that it is not declared, or that its
\* number does not fit, fails to be read for just that; and what a read fails
\* for so is reported, unless a block around it is left alone.  A waived block
\* is of one mind about its own fields, but not about blocks in it, or about
\* itself where its kind is contextual.
FieldVerdicts == {"UnknownField", "NoDocumentSchema", "Misfit"}
CheckAgreesWithReads ==
    LET errors == SchemaErrors
        Waived(around) == {b \in around : items[b].open}
    IN  \A f \in Fields :
            /\ Waived(Enclosing(f)) = {} =>
                   \A verdict \in FieldVerdicts :
                       <<f, verdict>> \in errors => Read(f) = verdict
            /\ /\ Read(f) \in FieldVerdicts
               /\ \A b \in Enclosing(f) : LeftAlone(b, errors) => b \in Waived({items[f].in})
               => <<f, Read(f)>> \in errors

\* The blocks that no slot of the language takes: the host's, and those of a
\* slot for one block where it is documented that nobody counts.
LeftToTheHost(b) ==
    LET p == items[b].in
        schemas == IF p = 0 THEN DocSchemasForNs(Namespace[1]) ELSE SchemasOf(p)
    IN  \/ items[b].open \/ IsContextual(b)
        \/ IsPossibleBlockSlotFill(items[b].name)
        \/ p # 0 /\ (MatchesInterface(b, schemas) \/ \E a \in Enclosing(b) : LeftAlone(a, {}))
        \/ p = 0 /\ \E slot \in SlotsOf(schemas) :
                        slot.of = "kind" /\ ~slot.many /\ slot.name = items[b].name
        \/ \E slot \in UnionSlots(schemas) : ~slot.many

EachIsTaken == \A b \in Blocks : b \in Gathered \/ LeftToTheHost(b)

\* No type inherits a slot that another one makes something else of: nobody
\* warns of that.
NoInheritedShadow ==
    \A a, b \in DOMAIN types :
        Meets(a, b) =>
            \A name \in SharedSlots(a, b) :
                \/ name \in types[a].own \cap types[b].own
                \/ types[a].fields[name].slot = types[b].fields[name].slot

\* When a document has no errors and no warnings, no block of it vanishes:
\* some slot of the block around it, or of the root, takes it.  Types of the
\* root that inherit a slot another one shadows are ShadowsAreReported.
NothingVanishes ==
    SchemaErrors = {} /\ SchemaWarnings = {} /\ NoInheritedShadow => EachIsTaken

\* strict.rs:51: of two types with a slot of one name "the shadowed schema's
\* gathered blocks silently vanish", which is what the warning is for: a
\* document that has none, and no errors, loses no block.
ShadowsAreReported == SchemaErrors = {} /\ SchemaWarnings = {} => EachIsTaken
=============================================================================
