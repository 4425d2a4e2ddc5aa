----------------------------- MODULE MCImports -----------------------------
(* A main file, two files it may import and a library, with diamonds,      *)
(* repeated imports and cycles among them.                                 *)
EXTENDS Imports, TLC

Text(top, inner) == [top |-> top, inner |-> inner, fault |-> "none"]
Faulty(fault) == [Text(<<>>, {}) EXCEPT !.fault = fault]

MCFiles == {"site", "pages", "theme", "lib"}
MCDrafts ==
    ("site" :> {Text(<<"pages", "theme">>, {}), Text(<<"theme", "pages", "theme">>, {"lib"})})
    @@ ("pages" :> {Text(<<"theme", "lib">>, {}), Text(<<"lib">>, {"pages"}), Text(<<"site">>, {}),
                  Missing})
    @@ ("theme" :> {Text(<<"lib">>, {}), Text(<<"pages", "lib">>, {}), Text(<<"theme">>, {}),
                  Faulty("declarations")})
    @@ ("lib" :> {Text(<<>>, {}), Text(<<"theme">>, {"theme"}), Faulty("syntax")})
=============================================================================
