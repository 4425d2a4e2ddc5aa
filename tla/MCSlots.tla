------------------------------- MODULE MCSlots -------------------------------
(* A union with a parent, each of them with the variants that are declared, *)
(* a union that is a field's type, an alias, an alias of the alias and an   *)
(* alias of a union; the values are those that such slots tell apart.       *)
EXTENDS Integers, Sequences, TLC

VARIABLES own, slot

MaxDeclared == 2

Field(name, type, optional) == [name |-> name, type |-> type, optional |-> optional]
Body(name, fields) == [name |-> name, fields |-> fields, body |-> "record"]

Given == "U" :> <<>> @@ "P" :> <<>>
         @@ "W" :> <<Body("C", <<Field("z", <<"u8">>, FALSE)>>)>>
Extends == "U" :> <<"P">> @@ "P" :> <<>> @@ "W" :> <<>>

OptionalY == Field("y", <<"f64">>, TRUE)
X(type) == Field("x", type, FALSE)
Bodies ==
    {<<X(<<"u8">>)>>, <<X(<<"f64">>)>>, <<X(<<"Port">>)>>, <<X(<<"W">>)>>,
     <<X(<<"list", "W">>)>>, <<Field("x", <<"identifier">>, TRUE)>>,
     <<OptionalY>>, <<X(<<"u8">>), OptionalY>>, <<OptionalY, X(<<"u8">>)>>}
Candidates ==
    {<<"U", Body("A", fields)>> : fields \in Bodies}
    \cup {<<"U", Body("B", fields)>> : fields \in Bodies}
    \cup {<<"P", Body("A", fields)>> : fields \in Bodies}
    \cup {<<"U", [name |-> "E", fields |-> <<>>, body |-> "unit"]>>}

Aliases == "Port" :> <<"u8">> @@ "Size" :> <<"Port">> @@ "Ws" :> <<"W">>
Factors == "Port" :> ("k" :> 10) @@ "Size" :> ("d" :> 5)
           @@ "Ws" :> [unit \in {} |-> 0]

Simple(kind, num, name) ==
    [kind |-> kind, name |-> name, fields |-> [f \in {} |-> 0], num |-> num,
     union |-> "", items |-> <<>>]
Number(kind, halves) == Simple(kind, halves, "")
RecordOf(fields) == [Number("record", 0) EXCEPT !.fields = fields]
ListOf(items) == [Number("list", 0) EXCEPT !.items = items]
Nothing == Number("none", 0)
Z == RecordOf("z" :> Number("i64", 10))
Scalars ==
    {Number("i64", 10), Number("f64", 10), Number("f64", 5), Number("i64", 600),
     Simple("utf8", 0, "s"), Nothing, Simple("unit", 2, "k"), Z, ListOf(<<Z, Z>>)}
Constructed == [Number("variant", 0) EXCEPT !.name = "C", !.union = "W",
                                            !.fields = "z" :> Number("u8", 10)]
Written ==
    {<<<<"U">>, RecordOf("x" :> v)>> : v \in Scalars}
    \cup {<<<<"U">>, RecordOf("x" :> Number("i64", 10) @@ "y" :> v)>> :
             v \in {Number("i64", 10), Nothing}}
    \cup {<<<<type>>, v>> : type \in {"u8", "Size", "W", "Ws", "identifier"},
                            v \in Scalars \cup {Simple("unit", 1, "d"), Constructed}}
    \cup {<<<<"list", type>>, ListOf(<<v, Nothing>>)>> :
             type \in {"Size", "W", "utf8"}, v \in Scalars}

INSTANCE Slots
=============================================================================
