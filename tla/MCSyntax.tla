------------------------------ MODULE MCSyntax ------------------------------
(* Every construct around, before and behind an expression, three deep.    *)
(* Braces where the grammar has them, and one text where it has none.      *)
EXTENDS Sequences

VARIABLES text, writes

MaxWrites == 3
TrailingComma == TRUE

Block == <<"{", "a", "}">>
Before == {<<"-">>, <<"!">>, <<"fn">>, <<"try", "a", "catch", "=>">>,
           <<"if", "a">> \o Block \o <<"else">>}
          \cup {<<"a", op>> : op \in {"|", "+", "*"}}
Behind == {<<".m">>, <<".1">>, <<"(", ")">>, <<"::V">>, <<"::V", "(", "a", ")">>,
           <<"::V", "{", "k:", "a", "}">>}
          \cup {<<op, "a">> : op \in {"|", "+", "*"}}
Contexts ==
    {<<before, <<>>>> : before \in Before}
    \cup {<<<<>>, behind>> : behind \in Behind}
    \cup {<<<<"(">>, <<")">>>>,
          <<<<"[">>, <<"]">>>>,
          <<<<"a", "(", "a", ",">>, <<")">>>>,
          <<<<"{">>, <<"}">>>>,
          <<<<"{", "k:">>, <<"}">>>>,
          <<<<"{", "let">>, <<";", "a", "}">>>>,
          <<<<"fn", "{">>, <<"}">>>>,
          <<<<"if">>, Block>>,
          <<<<"if">>, Block \o <<"else">> \o Block>>,
          <<<<"if", "a", "a">>, <<"}">>>>,
          <<<<"match">>, <<"{", "_=>", "a", "}">>>>,
          <<<<"match", "a", "{", "1=>">>, <<",", "_=>", "a", "}">>>>,
          <<<<"try">>, <<"catch", "=>", "a">>>>,
          <<<<"try", "{", "a", "}", "catch", "{">>, <<"}">>>>}

INSTANCE Syntax
=============================================================================
