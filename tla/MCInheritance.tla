--------------------------- MODULE MCInheritance ---------------------------
(* Two types of the main file, a type and an interface of a namespace that *)
(* it imports and has on its search path, and a type of the host's, which  *)
(* extend each other in every which way: diamonds, cycles, overrides and   *)
(* shadowed names among them.                                              *)
EXTENDS Inheritance, TLC

MCNamespace == [f \in {"root", "lib", "host"} |-> IF f = "lib" THEN <<"n">> ELSE <<>>]
NoItemAliases == [alias \in {} |-> <<>>]
NoNsAliases == [alias \in {} |-> <<>>]
MCWildcards == <<<<"n">>>>

A == <<"A">>
B == <<"B">>
C == <<"C">>
Draft(file, kind, name, extends, fields) ==
    [kind |-> kind, file |-> file, extends |-> extends, fields |-> fields,
     fqn |-> MCNamespace[file] \o <<name>>]
Field(name, type, slot) == [slot |-> slot, name |-> name, type |-> type]

Declarations ==
    <<{Draft("root", "type", "C", extends, fields) :
          extends \in {<<>>, <<A>>, <<<<"n", "A">>>>, <<B, A>>},
          fields \in {<<>>, <<Field("g", "str", "0")>>, <<Field("f", "int", "none")>>,
                      <<Field("f", "fn(B)", "none")>>}},
      {Draft("root", "type", "D", extends, fields) :
          extends \in {<<>>, <<B, C>>, <<C, B>>, <<C>>},
          fields \in {<<>>, <<Field("h", "str", "0")>>}},
      {Draft("lib", "type", "A", extends, fields) :
          extends \in {<<>>, <<C>>},
          fields \in {<<Field("f", "int", "0")>>, <<Field("f", "fn(&A)", "none")>>}},
      {Draft("lib", "interface", "B", extends, fields) :
          extends \in {<<>>, <<A>>},
          fields \in {<<>>, <<Field("f", "int", "none")>>, <<Field("f", "fn(B)", "none")>>}},
      {Draft("host", "type", "A", <<>>, <<>>), Draft("host", "type", "A", <<C>>, <<>>),
       Draft("host", "type", "H", <<C>>, <<>>)}>>
=============================================================================
