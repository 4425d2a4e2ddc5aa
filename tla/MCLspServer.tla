---------------------------- MODULE MCLspServer ----------------------------
(* A workspace of a root file that imports a library, each with a text     *)
(* that parses and one that does not.                                      *)
EXTENDS LspServer

MCUris == {"main", "lib"}
MCTexts == {"good", "bad"}
AnyDisk == [MCUris -> MCTexts]
BrokenLibrary == {[u \in MCUris |-> IF u = "lib" THEN "bad" ELSE "good"]}

(* A root that does not parse is reported and stops there; otherwise an    *)
(* error of the library is placed in the library.                          *)
MCAnalyseRoot(texts) ==
    [u \in Uris |->
        IF u = "main" THEN (IF texts["main"] = "bad" THEN {"syntax"} ELSE {})
        ELSE IF texts["main"] = "good" /\ texts["lib"] = "bad" THEN {"syntax"} ELSE {}]

MCSyntaxErrors(text) == IF text = "bad" THEN {"syntax"} ELSE {}

(* The library imports nothing; the root file, analysed alone, imports it. *)
MCAnalyseFile(u, texts) ==
    IF u = "main" THEN MCAnalyseRoot(texts)
    ELSE [v \in Uris |-> IF v = u THEN MCSyntaxErrors(texts[u]) ELSE {}]
=============================================================================
