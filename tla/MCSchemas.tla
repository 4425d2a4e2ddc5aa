----------------------------- MODULE MCSchemas -----------------------------
(* A site with items and leaves in them, a library with a namespace and a  *)
(* root type of its own, and blocks that declare a kind.                   *)
EXTENDS Schemas, TLC

MCFileNamespaces == <<"", "lib">>
MCUnions == "Shape" :> {"size" :> "u8", "note" :> "utf8"}

Plain(type) == [type |-> type, open |-> FALSE, optional |-> FALSE,
                slot |-> NoSlot]
SlotField(of, many, name) ==
    [Plain("list") EXCEPT !.slot = [of |-> of, many |-> many, name |-> name],
                          !.optional = TRUE]
Type(sort, kind, ns, fields) ==
    [sort |-> sort, kind |-> kind, ns |-> ns, imported |-> ns # "", open |-> FALSE,
     contextual |-> FALSE, declares |-> FALSE, derived |-> FALSE, extends |-> {},
     required |-> {}, fields |-> fields, own |-> DOMAIN fields]

Size == "size" :> Plain("u8")
Items == "items" :> SlotField("kind", TRUE, "item")
LibItems == "items" :> SlotField("kind", TRUE, "leaf")
Leaves == "leaves" :> SlotField("kind", TRUE, "leaf")
OneLeaf == "leaf" :> SlotField("kind", FALSE, "leaf")
Shapes == "shapes" :> SlotField("union", TRUE, "Shape")
OneShape == "shape" :> SlotField("union", FALSE, "Shape")
NodeSlot == "nodes" :> SlotField("interface", TRUE, "Node")

SiteTypes ==
    {<<>>} \cup {<<Type("document", "", "", fields)>> :
                    fields \in {Size @@ Shapes, Items @@ OneLeaf}}
    \cup {<<Type("document", "", "", Items), Type("document", "", "", Leaves)>>}
LibTypes ==
    {<<>>} \cup {<<Type("document", "", "lib", fields)>> :
                    fields \in {Leaves, Size @@ Shapes}}
Item(fields) == Type("block", "item", "", fields)
ItemTypes ==
    {Item(Size @@ fields) : fields \in {OneLeaf, NodeSlot, Shapes, OneShape}}
    \cup {[Item(Size @@ Leaves) EXCEPT !.open = TRUE],
          [Item(Size @@ Leaves) EXCEPT !.contextual = TRUE]}
Leaf(ns) == Type("block", "leaf", ns, Size)
LeafTypes ==
    {[Leaf("") EXCEPT !.extends = {"Node"}],
     [Leaf("lib") EXCEPT !.contextual = TRUE],
     [Leaf("lib") EXCEPT !.fields.size.open = TRUE]}

BlockDraft(kind, ns, label, type) ==
    [sort |-> "block", name |-> kind, ns |-> ns, open |-> FALSE, label |-> label, type |-> type,
     in |-> 0, file |-> 1]
FieldDraft(name, value) ==
    [sort |-> "field", name |-> name, value |-> value, open |-> FALSE, in |-> 0, file |-> 1]

\* Blocks in blocks, of the types that the site and the library declare.  What
\* the root type of the library inherits may be a slot that the site has too.
Inheriting(fields) == [Type("document", "", "lib", fields) EXCEPT !.own = {}]
Beneath(lib, item, leaf) == <<Type("document", "", "", Size @@ Items)>> \o lib \o <<item, leaf>>
Nested ==
    [types : {Beneath(lib, item, leaf) :
                 lib \in {<<>>, <<Type("document", "", "lib", LibItems)>>},
                 item \in ItemTypes, leaf \in LeafTypes}
             \cup {Beneath(<<Inheriting(fields)>>, Item(Size @@ OneLeaf), Leaf("")) :
                      fields \in {Items, LibItems}},
     room : {3},
     drafts : {{BlockDraft("item", "", "", ""), BlockDraft("leaf", "", "", ""),
                [BlockDraft("item", "", "", "") EXCEPT !.open = TRUE],
                FieldDraft("size", "7"), FieldDraft("size", "300"), FieldDraft("note", "text"),
                [FieldDraft("size", "300") EXCEPT !.open = TRUE]}}]

\* Several root types, or none, and a kind that two of them have.
Roots ==
    [types : {site \o lib \o <<Item(Leaves @@ Shapes), leaf>> :
                 site \in SiteTypes, lib \in LibTypes, leaf \in LeafTypes},
     room : {3},
     drafts : {{BlockDraft("item", "", "", ""), BlockDraft("leaf", "", "", ""), BlockDraft("leaf", "lib", "", ""),
                FieldDraft("size", "7"), FieldDraft("size", "text"), FieldDraft("size", "unbound")}}]

\* Kinds that blocks declare, one of which a type declares too.
Holder == [Type("block", "holder", "", "params" :> SlotField("kind", TRUE, "slot"))
              EXCEPT !.declares = TRUE]
Param == Type("block", "slot", "", [f \in {} |-> Plain("")])
KindsOfBlocks ==
    [types : {<<Type("document", "", "", ("holders" :> SlotField("kind", TRUE, "holder")) @@ Items),
                Item(Size), Holder, Param>>},
     room : {4},
     drafts : {{BlockDraft("holder", "", "gizmo", ""), BlockDraft("slot", "", "size", type),
                BlockDraft("gizmo", "", "", ""), FieldDraft("size", "300"),
                FieldDraft("default", "text")} : type \in {"", "u8"}}
              \cup {{BlockDraft("holder", "", "gizmo", ""), BlockDraft("slot", "", "gizmo", "content"),
                     BlockDraft("gizmo", "", "", ""), FieldDraft("size", "7")},
                    {BlockDraft("holder", "", "item", ""), BlockDraft("slot", "", "size", "utf8"),
                     BlockDraft("item", "", "", ""), FieldDraft("size", "text")}}]

MCVocabularies == Nested \cup Roots \cup KindsOfBlocks
=============================================================================
