----------------------------- MODULE MCExpansion -----------------------------
(* Small documents of traps: names that meet, slots that pass slots on,    *)
(* fills in loops, recursion straight and branching, and deposits.         *)
EXTENDS Integers, Sequences, TLC

VARIABLES manuscript, ahead, walk, todo, printed, noted, cached, expanded

MaxLowerDepth == 3
MaxExpandedBlocks == 10

Text(v) == [is |-> "text", of |-> v]
Name(n) == [is |-> "name", of |-> n]
List(vs) == [is |-> "list", of |-> [i \in DOMAIN vs |-> Text(vs[i])]]

Block(kind, name, reads, fields, body) ==
    [kind |-> kind, name |-> name, reads |-> reads, fields |-> fields, body |-> body,
     only |-> {}, shown |-> FALSE]
Leaf(n) == Block("text", "", Name(n), <<>>, <<>>)
Plain(kind, body) == Block(kind, "", Text(""), <<>>, body)
Terminal == Plain("terminal", <<>>)
Repeat(as, each, body) == Block("wdoc_repeater", as, Name(each), <<>>, body)
Use(kind, x, body) == Block(kind, "", Text(""), "x" :> Name(x), body)
ByName(kind, x, body) == Block("wdoc_instance", "", Name(kind), "x" :> Name(x), body)
Content == Plain("wdoc_content", <<>>)
Partial(shown, body) == [Block("partial", "tag", Text(""), <<>>, body) EXCEPT !.shown = shown]
Collect == Block("collect", "tag", Text(""), <<>>, <<>>)
Only(walk_, b) == [b EXCEPT !.only = {walk_}]

Component(holes, body) == [params |-> "x" :> Text("default"), holes |-> holes, body |-> body]
Kinds ==
    "stamp" :> Component({}, <<Leaf("x"), Leaf("y")>>)
    @@ "list" :> Component({}, <<Repeat("y", "all", <<Leaf("y"), Use("stamp", "y", <<>>)>>)>>)
    @@ "loop" :> Component({}, <<Leaf("x"), Use("loop", "x", <<>>)>>)
    @@ "twin" :> Component({}, <<Use("twin", "x", <<>>), Use("twin", "y", <<>>)>>)
    @@ "card" :> Component({}, <<Leaf("x"), Content>>)
    @@ "row" :> Component({"aside"}, <<Plain("aside", <<>>), Leaf("x"), Content>>)
    @@ "wrap" :> Component({"content", "aside"},
            <<Use("row", "y", <<Plain("aside", <<Plain("aside", <<>>), Leaf("x")>>), Content>>), Content>>)
    @@ "burst" :> Component({}, <<Content, Use("burst", "x", <<Content>>), Use("burst", "y", <<Content>>)>>)
    @@ "screen" :> Component({}, <<Use("card", "x", <<Terminal>>), Use("screen", "x", <<>>)>>)
Lets == "x" :> Text("top") @@ "y" :> Text("root") @@ "all" :> List(<<"a", "b">>)
        @@ "one" :> Text("screen")
        @@ "kinds" :> List(<<"card", "row", "gone">>)
Book(kinds, page, deposits) ==
    [declared |-> [k \in kinds |-> Kinds[k]], lets |-> Lets, deposits |-> deposits, page |-> page]

Repeated ==
    {Leaf("x"), Leaf("gone"), Repeat("x", "y", <<Leaf("x")>>), Repeat("x", "gone", <<Leaf("x")>>),
     Repeat("x", "all", <<Leaf("x"), Repeat("x", "all", <<Leaf("x"), Leaf("y")>>), Leaf("x")>>),
     Repeat("x", "all", <<Repeat("y", "kinds", <<Leaf("x"), Leaf("y")>>)>>)}
Stamped ==
    {Leaf("x"), Use("stamp", "y", <<>>), Use("stamp", "gone", <<>>), Plain("stamp", <<>>),
     Plain("list", <<>>), Use("loop", "y", <<>>), Use("twin", "x", <<>>),
     Repeat("y", "all", <<Use("stamp", "y", <<>>)>>), ByName("y", "x", <<>>)}
Slotted ==
    {Content, Use("burst", "x", <<Repeat("x", "all", <<Leaf("x")>>)>>),
     Use("card", "y", <<Leaf("x"), Repeat("x", "all", <<Leaf("x")>>)>>),
     Repeat("y", "all", <<Use("card", "y", <<Use("card", "x", <<Leaf("x"), Leaf("y")>>), Leaf("y")>>)>>),
     Repeat("y", "kinds", <<ByName("y", "x", <<Leaf("y")>>)>>)}
Passed ==
    {Plain("aside", <<Leaf("x")>>), Use("wrap", "x", <<Leaf("y"), Plain("aside", <<Leaf("x")>>)>>),
     Repeat("x", "all", <<Use("row", "y", <<Plain("aside", <<Leaf("x")>>)>>)>>),
     Plain("column", <<Use("row", "x", <<Plain("aside", <<Leaf("y")>>), Plain("content", <<Leaf("x")>>)>>)>>),
     Repeat("y", "all", <<Plain("wrap", <<Plain("aside", <<Leaf("y")>>)>>)>>)}
Gathered ==
    {Collect, Partial(TRUE, <<Leaf("x")>>),
     Plain("column", <<Partial(FALSE, <<Repeat("x", "all", <<Leaf("x")>>)>>)>>),
     Use("card", "y", <<Collect, Partial(FALSE, <<Leaf("x")>>)>>), Only("html", Use("card", "x", <<>>)),
     Repeat("x", "all", <<Only("static", Leaf("x"))>>)}
Played == {Use("screen", "x", <<>>), Use("card", "x", <<Terminal>>), Repeat("x", "all", <<Terminal>>),
           ByName("one", "x", <<>>)}

Pairs(kinds, pool, deposits) == {Book(kinds, <<a, b>>, deposits) : a \in pool, b \in pool}
Manuscripts ==
    Pairs({}, Repeated, <<>>) \cup Pairs({"stamp", "list", "loop", "twin"}, Stamped, <<>>)
    \cup Pairs({"card", "burst"}, Slotted, <<>>) \cup Pairs({"card", "row", "wrap"}, Passed, <<>>)
    \cup Pairs({"card"}, Gathered, <<Partial(FALSE, <<Leaf("y"), Collect>>)>>)
    \cup Pairs({"card", "screen"}, Played, <<>>)
PassNames == {"html", "static", "diagram", "outline", "css", "language"}
Walks == {<<a, b>> : a \in PassNames, b \in PassNames}

INSTANCE Expansion
=============================================================================
