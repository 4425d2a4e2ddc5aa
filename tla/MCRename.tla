------------------------------- MODULE MCRename -------------------------------
(* Two items of the root and two of its block, of two names: every way in  *)
(* which a name of the one is written in the other, next to a binder of    *)
(* the same name in each kind of expression.                               *)
EXTENDS Integers, Sequences

VARIABLES scopes, drafted

MaxCalls == 2

E(is, name, binder, parts) == [is |-> is, name |-> name, binder |-> binder, parts |-> parts]
ANumber == E("number", "", "", <<>>)
N(name) == E("name", name, "", <<>>)
Of(is, name) == E(is, name, "", <<>>)
Let(binder, first, tail) == E("let", "", binder, <<first, tail>>)
Fn(binder, body) == E("fn", "", binder, <<body>>)
Match(scrut, binder, body, other) == E("match", "", binder, <<scrut, body, other>>)
Try(body, binder, handler) == E("try", "", binder, <<body, handler>>)
Call(f, given) == E("call", "", "", <<f, given>>)

X == N("x")
Y == N("y")
Item(is, name, expr) == [is |-> is, name |-> name, expr |-> expr]

OuterX == {Item("field", "x", ANumber), Item("let", "x", ANumber), Item("field", "x", Fn("y", X)),
           Item("fn", "x", Fn("x", X)), Item("let", "x", Fn("y", Of("self", "x"))),
           Item("field", "x", Of("b", "x"))}
OuterY == {Item("field", "y", X), Item("field", "y", Call(X, ANumber)), Item("field", "y", Of("self", "x")),
           Item("let", "y", Fn("x", Y)), Item("let", "x", ANumber)}
InnerX == {<<Item("field", "x", ANumber)>>, <<Item("let", "x", X)>>, <<Item("field", "x", X)>>,
           <<Item("let", "x", Fn("y", Call(X, Y)))>>, <<Item("field", "x", Let("x", X, X))>>,
           <<Item("let", "x", Of("parent", "x"))>>,
           <<Item("let", "x", ANumber), Item("field", "x", ANumber)>>,
           <<Item("field", "x", ANumber), Item("let", "x", ANumber)>>}
InnerY ==
    {Item("field", "y", e) : e \in
        {X, Of("self", "x"), Of("parent", "x"), Let("x", X, X), Let("x", X, Fn("y", X)),
         Call(Fn("x", X), X), Call(X, Of("self", "x")), Match(X, "x", X, X), Try(X, "x", X),
         Let("y", Fn("x", Call(X, Y)), Call(Y, X)), Call(Y, X),
         Let("x", ANumber, Call(X, Y))}}

INSTANCE Rename WITH Fresh <- "new",
    Drafts <- <<{<<level, <<i>>>> : i \in OuterX, level \in {0, 2}},
                {<<level, <<i>>>> : i \in OuterY, level \in {0, 2}},
                {<<1, items>> : items \in InnerX}, {<<1, <<i>>>> : i \in InnerY}>>
===============================================================================
