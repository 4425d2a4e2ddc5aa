------------------------------- MODULE MCEdits -------------------------------
(* Bare fields and blocks that hide one another, blocks that share their   *)
(* kind and label, a label that looks like the suffix of such a key, lists *)
(* that grow, shrink and change in the middle, records within a field,     *)
(* values that are none, and fields that move and change their width.      *)
EXTENDS Sequences, TLC

VARIABLES base, disk, saves, command

MaxSaves == 1

Simple(kind, num) == [kind |-> kind, num |-> num, items |-> <<>>, fields |-> [n \in {} |-> 0]]
Num(n) == Simple("num", n)
Unset == Simple("none", 0)
ListOf(items) == [Num(0) EXCEPT !.kind = "list", !.items = items]
RecordOf(fields) == [Num(0) EXCEPT !.kind = "record", !.fields = fields]

Field(name, value) == [name |-> name, value |-> value]
Bare(name, value) == [kind |-> "", label |-> "", body |-> <<Field(name, value)>>]
Server(label, body) == [kind |-> "server", label |-> label, body |-> body]
Port(n) == Field("port", Num(n))
Tags(value) == Field("tags", value)

MainTexts ==
    {<<Bare("port", Num(1)), Server("web", <<Port(1)>>)>>,
     <<Bare("host", Num(1)), Server("web", <<Port(1), Tags(Unset)>>)>>,
     <<Server("web", <<Port(1)>>), Server("web", <<Port(2)>>), Server("web#2", <<>>)>>,
     <<Server("web#2", <<Port(10)>>), Server("web", <<Port(1), Port(2)>>)>>,
     <<Server("", <<Port(1)>>), Server("", <<Tags(Unset), Port(1)>>)>>,
     <<Server("web", <<Tags(ListOf(<<Num(1), Num(2)>>)), Port(10)>>)>>,
     <<Server("web", <<Tags(ListOf(<<Num(1)>>)), Port(1)>>)>>,
     <<Server("web", <<Tags(ListOf(<<Unset, Num(2), Num(3)>>))>>)>>,
     <<Server("web", <<Tags(RecordOf("a" :> Unset @@ "b" :> ListOf(<<Num(1)>>)))>>)>>,
     <<Server("web", <<Tags(RecordOf("b" :> ListOf(<<Num(2), Unset>>)))>>)>>,
     <<Server("web", <<Port(1), Field("host", Simple("error", 0))>>), Bare("tags", Unset)>>,
     <<Bare("server", RecordOf("port" :> Num(1)))>>}
LibTexts ==
    {<<>>,
     <<Bare("port", Num(2))>>,
     <<Bare("lib", Num(1)), Server("db", <<Port(1)>>)>>}

Paths == {<<"port">>, <<"lib">>, <<"server", "port">>, <<"server", "tags">>, <<"server">>}
Values == {Num(1), Num(10), Unset, ListOf(<<Num(1)>>), ListOf(<<Num(1), Num(3), Unset>>),
           RecordOf("b" :> Num(1))}

INSTANCE Edits
==============================================================================
