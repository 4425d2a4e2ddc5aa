------------------------------- MODULE MCSites -------------------------------
(* One site, or two of which one may be at the root, of pages that link to *)
(* each other and to pages that are not there, one of which may be the     *)
(* start page or named as the index; and one site of two pages with up to  *)
(* two blocks, for each of the layouts.                                    *)
EXTENDS Sites

SlotOf(name, optional, repeated, accepts) ==
    [name |-> name, optional |-> optional, repeated |-> repeated, accepts |-> accepts]
MCLayouts ==
    [template \in {"book", "front", "strict", "bare", "deck"} |->
        CASE template = "book" -> {SlotOf("content", TRUE, FALSE, {})}
          [] template = "front" ->
                {SlotOf("hero", FALSE, FALSE, {"p"}), SlotOf("content", TRUE, FALSE, {"p", "note"})}
          [] template = "strict" ->
                {SlotOf("hero", TRUE, FALSE, {}), SlotOf("content", TRUE, FALSE, {"p", "repeater"})}
          [] template = "bare" -> {SlotOf("hero", TRUE, FALSE, {})}
          [] OTHER -> {SlotOf("content", TRUE, TRUE, {}), SlotOf("notes", TRUE, TRUE, {}),
                       SlotOf("cover", TRUE, FALSE, {})}]

Child(kind, conditional, items, times) ==
    [kind |-> kind, conditional |-> conditional, contextual |-> FALSE, items |-> items,
     times |-> times]
Loose(kind) == Child(kind, FALSE, <<>>, 1)
Fill(kind, inner) == Child(kind, FALSE, <<Loose(inner)>>, 1)
Maybe(kind) == Child(kind, TRUE, <<Loose("p")>>, 1)
Repeater(items, times) == Child("repeater", FALSE, items, times)
Contextual(kind) == [Loose(kind) EXCEPT !.contextual = TRUE]
Pool ==
    {Loose("p"), Loose("note"), Contextual("note"), Fill("hero", "p"), Fill("hero", "note"),
     Maybe("hero"), Maybe("gone"), Fill("notes", "p"), Fill("notes", "note"), Fill("content", "p"),
     Repeater(<<Repeater(<<Loose("p")>>, 2)>>, 1), Repeater(<<Fill("hero", "p")>>, 1), Repeater(<<Fill("hero", "p")>>, 2),
     Repeater(<<Repeater(<<Fill("notes", "p"), Loose("note")>>, 1)>>, 2), Repeater(<<Maybe("hero")>>, 0), Repeater(<<Maybe("gone")>>, 1),
     Repeater(<<Fill("content", "p")>>, 1)}

Nameless == "none"
Default == [is |-> "absent", name |-> Nameless]
Template(is, name) == [is |-> is, name |-> name]
Page(name, sites, start, template, items, links) ==
    [name |-> name, sites |-> sites, start |-> start, template |-> template,
     generated |-> FALSE, items |-> items, links |-> links]
OneSite(name, root, template, items) ==
    [name |-> name, root |-> root, template |-> template, items |-> items]
To(site, page) == [site |-> site, page |-> page]

SiteSets ==
    {<<>>, <<OneSite("a", FALSE, "book", <<>>)>>, <<OneSite("a", FALSE, "book", <<>>), OneSite("b", FALSE, Nameless, <<>>)>>,
     <<OneSite("a", TRUE, "book", <<>>), OneSite("b", FALSE, "book", <<>>)>>,
     <<OneSite("a", FALSE, "deck", <<>>), OneSite("b", TRUE, "book", <<>>)>>}
Paged(sites, first, second, start, links) ==
    [sites |-> sites,
     pages |-> <<Page(first, IF sites = <<>> THEN {} ELSE {"a"}, start = 1, Default, <<>>, links),
                 Page(second, IF Len(sites) < 2 THEN {} ELSE {"b"}, start = 2, Default, <<>>, links),
                 Page("shared", {sites[i].name : i \in DOMAIN sites}, start = 3, Default, <<>>,
                      {To(Nameless, "shared")})>>]
Linked ==
    {Paged(sites, first, second, start, links) :
        sites \in SiteSets, first \in {"index", "x"}, second \in {"index", "y"}, start \in 0..3,
        links \in {{To(Nameless, "shared")}, {To("a", "shared"), To("b", "shared")}, {To("b", "y")},
                   {To("a", "x"), To("a", "index")}}}
Odd ==
    {[sites |-> <<OneSite("a", root, "book", <<>>), OneSite(name, root, "book", <<>>)>>, pages |-> <<>>] :
        name \in {"a", "b", Nameless}, root \in BOOLEAN}
    \cup {[sites |-> <<OneSite("a", FALSE, "deck", items)>>, pages |-> <<>>] :
             items \in {<<>>, <<Fill("cover", "p")>>, <<Fill("cover", "p"), Fill("cover", "note")>>,
                        <<Loose("p")>>}}

Filled(template, items, own, generated) ==
    [sites |-> <<OneSite("a", FALSE, template, <<>>)>>,
     pages |-> <<[Page("x", {}, FALSE, own, items, {}) EXCEPT !.generated = generated],
                 IF template = "deck" THEN Page("y", {}, FALSE, Default, <<Loose("p")>>, {})
                 ELSE Page("y", {}, FALSE, Template("written", "front"), <<Fill("hero", "p")>>, {})>>]
Contents == {<<>>} \cup {<<x>> : x \in Pool} \cup {<<x, y>> : x \in Pool, y \in Pool}
Filling ==
    {Filled(template, items, Default, FALSE) : template \in DOMAIN MCLayouts, items \in Contents}
    \cup {Filled("deck", items, Template("written", "front"), FALSE) : items \in Contents}
    \cup {Filled("front", items, own, generated) : items \in Contents,
             own \in {Template("written", "strict"), Template("computed", "deck"), Template("written", "gone")},
             generated \in BOOLEAN}

\* The blocks that may stand in a page, and those in them.
RECURSIVE Within(_)
Within(items) == items \cup UNION {Within(Range(x.items)) : x \in items}
MCChildren == Within(Pool)

MCDocuments == Linked \cup Odd \cup Filling
MCRevisions ==
    {Paged(sites, "x", "index", 2, {To(Nameless, "shared")}) : sites \in SiteSets}
    \cup {Paged(sites, "x", "y", 1, {To("b", "shared")}) :
             sites \in {sites \in SiteSets : \E i \in DOMAIN sites : sites[i].template = "deck"}}
=============================================================================
