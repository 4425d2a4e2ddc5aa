------------------------------- MODULE Syntax -------------------------------
(***************************************************************************)
(* Expressions: the Pratt parser (parser/expr.rs) and the printer          *)
(* (format/expr.rs) that decides from the same table of binding powers     *)
(* which parentheses to write.  `wcl fmt` and `wcl set` rewrite files with *)
(* the two; they meet in the text, where a literal, a dot or a minus sign  *)
(* may join what stands next to it.                                        *)
(*                                                                         *)
(* A text is a sequence of tokens.  "fn" stands for `fn() -> T`, "catch"   *)
(* for `catch e`, "let" for `let x =`, "k:" for a field's name, "1=>" and  *)
(* "_=>" for the head of a refutable and of an irrefutable arm.  A record  *)
(* has one field.  Comments, layout and the depth limits are left out, and *)
(* so are strings and patterns, which are read and printed elsewhere.      *)
(***************************************************************************)
EXTENDS Naturals, SequencesExt

CONSTANTS Contexts,       \* what may be written around a text: pairs of texts
          MaxWrites,      \* how many of them are written around one another
          TrailingComma   \* FormatConfig::trailing_comma_in_match

VARIABLES text,
          writes          \* how many contexts were written around an atom
syntaxVars == <<text, writes>>

Names == {"a"}
Numbers == {"5", "-5", "5u8"}
Init == text \in {<<atom>> : atom \in Names \cup Numbers} /\ writes = 0

Write(c) == text' = c[1] \o text \o c[2] /\ writes' = writes + 1

Next == writes < MaxWrites /\ \E c \in Contexts : Write(c)

Spec == Init /\ [][Next]_syntaxVars
-----------------------------------------------------------------------------
(* Binding powers.  Half of the operators stand for the other half, which  *)
(* is bound no differently.                                                *)
BindingPower ==
    [op \in {"??", "||", "|", "+", "*"} |->
        CASE op = "??" -> <<1, 2>>
          [] op = "||" -> <<3, 4>>
          [] op = "|"  -> <<11, 12>>
          [] op = "+"  -> <<19, 20>>
          [] op = "*"  -> <<21, 22>>]
Operators == DOMAIN BindingPower
UnaryPower == 23
CallPower == 24
MemberPower == 25
UnaryOperators == {"-", "!"}
Segments == {".m", ".1"}

\* A tree, and the uniform shape of its nodes.
Node(node, sym, kids) == [node |-> node, sym |-> sym, kids |-> kids]

(***************************************************************************)
(* The parser.  Reading from a position gives a tree and the position      *)
(* after it; position 0 is an error, which every caller passes on.  `cell` *)
(* says that a table cell is read and no bracket has been opened in it.    *)
(***************************************************************************)
Tree(tree, at) == [tree |-> tree, at |-> at]
Error == Tree(Node("error", "", <<>>), 0)
Token(t, i) == IF i \in DOMAIN t THEN t[i] ELSE "eof"
Then(r, Rest(_, _)) == IF r.at = 0 THEN Error ELSE Rest(r.tree, r.at)
Expect(t, i, token, tree) == IF Token(t, i) = token THEN Tree(tree, i + 1) ELSE Error

RECURSIVE ParseBp(_, _, _, _), ParseTails(_, _, _, _), ParseItems(_, _, _, _),
          ParseBody(_, _, _, _), ParseArms(_, _, _), ParseIf(_, _, _), IsPath(_)

ParseExpr(t, i, cell) == ParseBp(t, i, 0, cell)

\* The opening brace is skipped, whatever it is.
ParseBlock(t, i, cell) == ParseBody(t, i + 1, <<>>, cell /\ Token(t, i) \notin {"{", "(", "["})

ParseBody(t, i, lets, cell) ==
    IF Token(t, i) = "let"
    THEN Then(ParseExpr(t, i + 1, cell), LAMBDA v, at :
             IF Token(t, at) = ";" THEN ParseBody(t, at + 1, Append(lets, v), cell) ELSE Error)
    ELSE Then(ParseExpr(t, i, cell), LAMBDA tail, at :
             Expect(t, at, "}", Node("block", "", Append(lets, tail))))

ParseRecord(t, i) ==
    IF Token(t, i) # "k:" THEN Error
    ELSE Then(ParseExpr(t, i + 1, FALSE), LAMBDA v, at :
             Expect(t, at, "}", Node("record", "", <<v>>)))

\* The items of a list or of a call, up to the closing bracket; a comma
\* may follow the last.
ParseItems(t, i, close, items) ==
    IF Token(t, i) = close THEN Tree(Node("items", "", items), i + 1)
    ELSE Then(ParseExpr(t, i, FALSE), LAMBDA e, at :
             CASE Token(t, at) = ","   -> ParseItems(t, at + 1, close, Append(items, e))
               [] Token(t, at) = close -> ParseItems(t, at, close, Append(items, e))
               [] OTHER -> Error)

\* The arms of a match.  The last one must be irrefutable.
ParseArms(t, i, arms) ==
    IF Token(t, i) = "}"
    THEN IF arms # <<>> /\ Last(arms).sym = "_=>"
         THEN Tree(Node("arms", "", arms), i + 1) ELSE Error
    ELSE IF Token(t, i) \notin {"1=>", "_=>"} THEN Error
    ELSE Then(ParseExpr(t, i + 1, FALSE), LAMBDA body, at :
             LET more == Append(arms, Node("arm", t[i], <<body>>))
             IN  CASE Token(t, at) = "," -> ParseArms(t, at + 1, more)
                   [] Token(t, at) = "}" -> ParseArms(t, at, more)
                   [] OTHER -> Error)

ParseMatch(t, i, cell) ==
    Then(ParseExpr(t, i + 1, cell), LAMBDA scrut, at :
        IF Token(t, at) # "{" THEN Error
        ELSE Then(ParseArms(t, at + 1, <<>>), LAMBDA arms, end :
                 Tree(Node("match", "", <<scrut>> \o arms.kids), end)))

\* An `else` is followed by another `if` or by a block.
ParseIf(t, i, cell) ==
    Then(ParseExpr(t, i + 1, cell), LAMBDA cond, at :
        Then(ParseBlock(t, at, cell), LAMBDA yes, end :
            IF Token(t, end) # "else" THEN Tree(Node("if", "", <<cond, yes>>), end)
            ELSE Then(IF Token(t, end + 1) = "if" THEN ParseIf(t, end + 1, cell)
                      ELSE ParseBlock(t, end + 1, cell), LAMBDA no, last :
                     Tree(Node("if", "", <<cond, yes, no>>), last))))

\* A body that starts with a brace ends with it.
ParseBlockOrExpr(t, i, cell) ==
    IF Token(t, i) = "{" THEN ParseBlock(t, i, cell) ELSE ParseExpr(t, i, cell)

ParseTry(t, i, cell) ==
    Then(ParseBlockOrExpr(t, i + 1, cell), LAMBDA body, at :
        LET handler ==
                CASE Token(t, at + 1) = "=>" -> ParseBlockOrExpr(t, at + 2, cell)
                  [] Token(t, at + 1) = "{"  -> ParseBlock(t, at + 1, cell)
                  [] OTHER -> Error
        IN  IF Token(t, at) # "catch" THEN Error
            ELSE Then(handler, LAMBDA h, end : Tree(Node("try", "", <<body, h>>), end)))

ParseAtom(t, i, cell) ==
    CASE Token(t, i) = "fn" ->
            Then(ParseBlockOrExpr(t, i + 1, cell), LAMBDA body, at :
                Tree(Node("fn", "", <<body>>), at))
      [] Token(t, i) = "try"   -> ParseTry(t, i, cell)
      [] Token(t, i) = "if"    -> ParseIf(t, i, cell)
      [] Token(t, i) = "match" -> ParseMatch(t, i, cell)
      [] Token(t, i) = "(" ->
            Then(ParseExpr(t, i + 1, FALSE), LAMBDA e, at :
                Expect(t, at, ")", Node("paren", "", <<e>>)))
      [] Token(t, i) = "[" ->
            Then(ParseItems(t, i + 1, "]", <<>>), LAMBDA items, at :
                Tree(Node("list", "", items.kids), at))
      [] Token(t, i) = "{" ->
            IF Token(t, i + 1) = "k:" THEN ParseRecord(t, i + 1)
            ELSE ParseBody(t, i + 1, <<>>, FALSE)
      [] Token(t, i) \in Names \cup Numbers -> Tree(Node("atom", t[i], <<>>), i + 1)
      [] OTHER -> Error

ParsePrefix(t, i, cell) ==
    IF Token(t, i) \in UnaryOperators
    THEN Then(ParseBp(t, i + 1, UnaryPower, cell), LAMBDA e, at :
             Tree(Node("unary", t[i], <<e>>), at))
    ELSE ParseAtom(t, i, cell)

\* Only a name or a path of names may stand before `::`.
IsPath(e) ==
    \/ e.node = "atom" /\ e.sym \in Names
    \/ e.node = "member" /\ IsPath(e.kids[1])

ParseVariant(t, path, at) ==
    IF ~IsPath(path) THEN Error
    ELSE CASE Token(t, at + 1) = "(" ->
                 Then(ParseExpr(t, at + 2, FALSE), LAMBDA e, end :
                     Expect(t, end, ")", Node("variant", "(", <<path, e>>)))
           [] Token(t, at + 1) = "{" ->
                 Then(ParseRecord(t, at + 2), LAMBDA r, end :
                     Tree(Node("variant", "{", <<path, r>>), end))
           [] OTHER -> Tree(Node("variant", "", <<path>>), at + 1)

\* The loop: what follows a tree and binds at least as tightly as `min`.
ParseTails(t, lhs, min, cell) ==
    LET next == Token(t, lhs.at)
    IN  IF lhs.at = 0 THEN Error
        ELSE CASE next = "(" /\ CallPower >= min ->
                     Then(ParseItems(t, lhs.at + 1, ")", <<>>), LAMBDA args, at :
                         ParseTails(t, Tree(Node("call", "", <<lhs.tree>> \o args.kids), at), min, cell))
               [] next \in Segments /\ MemberPower >= min ->
                     ParseTails(t, Tree(Node("member", next, <<lhs.tree>>), lhs.at + 1), min, cell)
               [] next = "::V" /\ MemberPower >= min ->
                     ParseTails(t, ParseVariant(t, lhs.tree, lhs.at), min, cell)
               [] next \in Operators /\ ~(next = "|" /\ cell) /\ BindingPower[next][1] >= min ->
                     Then(ParseBp(t, lhs.at + 1, BindingPower[next][2], cell), LAMBDA rhs, at :
                         ParseTails(t, Tree(Node("binary", next, <<lhs.tree, rhs>>), at), min, cell))
               [] OTHER -> lhs

ParseBp(t, i, min, cell) == ParseTails(t, ParsePrefix(t, i, cell), min, cell)

\* A whole text, and the cells of a table row.
ParseExprOnly(t) ==
    LET r == ParseExpr(t, 1, FALSE)
    IN  IF Token(t, r.at) = "eof" THEN r.tree ELSE Error.tree
ParseCell(t) ==
    LET r == ParseExpr(t, 1, TRUE)
    IN  IF Token(t, r.at) = "eof" THEN r.tree ELSE Error.tree
-----------------------------------------------------------------------------
(* The printer.                                                            *)
Parens(t) == <<"(">> \o t \o <<")">>
Digits == Numbers \ {"-5"}           \* tokens whose text begins with a digit
EndsInDigit == Numbers \cup {".1"}

\* The literal that a minus sign and its operand are printed as, if any: a
\* signed literal changes its sign, and two signs cancel.
RECURSIVE FoldNeg(_)
FoldNeg(e) ==
    CASE e.node = "atom" /\ e.sym = "5"  -> [e EXCEPT !.sym = "-5"]
      [] e.node = "atom" /\ e.sym = "-5" -> [e EXCEPT !.sym = "5"]
      [] e.node = "unary" /\ e.sym = "-" ->
            IF FoldNeg(e.kids[1]).node # "error" THEN e.kids[1] ELSE Error.tree
      [] OTHER -> Error.tree

RECURSIVE PrintExpr(_, _)
PrintItems(items) ==
    FlattenSeq([k \in DOMAIN items |->
        (IF k > 1 THEN <<",">> ELSE <<>>) \o PrintExpr(items[k], 0)])
PrintRecord(r) == <<"{", "k:">> \o PrintExpr(r.kids[1], 0) \o <<"}">>
PrintBlock(e) ==
    <<"{">>
    \o FlattenSeq([k \in DOMAIN Front(e.kids) |->
                       <<"let">> \o PrintExpr(e.kids[k], 0) \o <<";">>])
    \o PrintExpr(Last(e.kids), 0) \o <<"}">>
PrintMatch(e) ==
    <<"match">> \o PrintExpr(e.kids[1], 0) \o <<"{">>
    \o FlattenSeq([k \in 1..Len(e.kids) - 1 |->
                       <<e.kids[k + 1].sym>> \o PrintExpr(e.kids[k + 1].kids[1], 0)
                       \o (IF TrailingComma THEN <<",">> ELSE <<>>)])
    \o <<"}">>

\* A number after a dot does not stand next to a digit.
PrintMember(e) ==
    LET recv == PrintExpr(e.kids[1], MemberPower)
    IN  (IF e.sym = ".1" /\ Last(recv) \in EndsInDigit THEN Parens(recv) ELSE recv)
        \o <<e.sym>>

\* Nor does a minus sign, unless the two are one literal.
PrintUnary_Touches(e, min) ==
    IF e.sym = "-" /\ FoldNeg(e.kids[1]).node # "error"
    THEN PrintExpr(FoldNeg(e.kids[1]), min)
    ELSE <<e.sym>> \o PrintExpr(e.kids[1], UnaryPower)
PrintUnary(e, min) ==
    LET operand == PrintExpr(e.kids[1], UnaryPower)
    IN  IF e.sym = "-" /\ FoldNeg(e.kids[1]).node # "error"
        THEN PrintExpr(FoldNeg(e.kids[1]), min)
        ELSE <<e.sym>> \o (IF e.sym = "-" /\ Head(operand) \in Digits
                           THEN Parens(operand) ELSE operand)

PrintBinary(e, min) ==
    LET power == BindingPower[e.sym]
        both == PrintExpr(e.kids[1], power[1]) \o <<e.sym>> \o PrintExpr(e.kids[2], power[2])
    IN  IF power[1] < min THEN Parens(both) ELSE both

\* The path is printed as the names it is made of.
RECURSIVE PrintPath(_)
PrintPath(e) ==
    IF e.node = "atom" THEN <<e.sym>> ELSE Append(PrintPath(e.kids[1]), e.sym)
PrintVariant(e) ==
    PrintPath(e.kids[1]) \o <<"::V">>
    \o (CASE e.sym = "(" -> Parens(PrintExpr(e.kids[2], 0))
          [] e.sym = "{" -> PrintRecord(e.kids[2])
          [] OTHER -> <<>>)

\* A try reaches to the end of its handler.
PrintTry(e, min) ==
    LET all == <<"try">> \o PrintExpr(e.kids[1], 0) \o <<"catch", "=>">>
               \o PrintExpr(e.kids[2], 0)
    IN  IF min > 0 THEN Parens(all) ELSE all

PrintExpr(e, min) ==
    CASE e.node = "atom"    -> <<e.sym>>
      [] e.node = "paren"   -> Parens(PrintExpr(e.kids[1], 0))
      [] e.node = "list"    -> <<"[">> \o PrintItems(e.kids) \o <<"]">>
      [] e.node = "member"  -> PrintMember(e)
      [] e.node = "call"    -> PrintExpr(e.kids[1], CallPower) \o Parens(PrintItems(Tail(e.kids)))
      [] e.node = "unary"   -> PrintUnary(e, min)
      [] e.node = "binary"  -> PrintBinary(e, min)
      [] e.node = "block"   -> PrintBlock(e)
      [] e.node = "if"      -> <<"if">> \o PrintExpr(e.kids[1], 0) \o PrintExpr(e.kids[2], 0)
                               \o (IF Len(e.kids) = 2 THEN <<>>
                                   ELSE <<"else">> \o PrintExpr(e.kids[3], 0))
      [] e.node = "match"   -> PrintMatch(e)
      [] e.node = "variant" -> PrintVariant(e)
      [] e.node = "record"  -> PrintRecord(e)
      [] e.node = "fn"      -> <<"fn">> \o PrintExpr(e.kids[1], 0)
      [] e.node = "try"     -> PrintTry(e, min)

\* Does e print a `|` outside any bracket?
RECURSIVE HasBareBitOr(_)
HasBareBitOr_NotInATry(e) ==
    CASE e.node = "binary" -> e.sym = "|" \/ \E k \in 1..2 : HasBareBitOr(e.kids[k])
      [] e.node \in {"unary", "member", "call", "if", "match", "fn"} -> HasBareBitOr(e.kids[1])
      [] OTHER -> FALSE
HasBareBitOr(e) ==
    CASE e.node = "binary" -> e.sym = "|" \/ \E k \in 1..2 : HasBareBitOr(e.kids[k])
      [] e.node \in {"unary", "member", "call", "if", "match", "fn"} -> HasBareBitOr(e.kids[1])
      [] e.node = "try" -> \E k \in 1..2 : HasBareBitOr(e.kids[k])
      [] OTHER -> FALSE

PrintCell(e) == IF HasBareBitOr(e) THEN Parens(PrintExpr(e, 0)) ELSE PrintExpr(e, 0)

\* What the lexer reads where printed tokens touch.
Touching(a, b) ==
    CASE a = "-" /\ b = "5"    -> <<"-5">>
      [] a = "-" /\ b = "5u8"  -> <<"bad literal">>
      [] a \in EndsInDigit /\ b = ".1" -> <<"float">>
      [] OTHER -> <<a, b>>
Lex(printed) ==
    FoldLeft(LAMBDA done, token :
                IF done = <<>> THEN <<token>> ELSE Front(done) \o Touching(Last(done), token),
             <<>>, printed)
-----------------------------------------------------------------------------
(* What a tree means: parentheses only group, and the minus sign of a      *)
(* signed literal is part of it.                                           *)
RECURSIVE Meaning(_)
Meaning(e) ==
    LET kids == [k \in DOMAIN e.kids |-> Meaning(e.kids[k])]
    IN  CASE e.node = "paren" -> kids[1]
          [] e.node = "unary" /\ e.sym = "-" /\ FoldNeg(kids[1]).node = "atom" -> FoldNeg(kids[1])
          [] OTHER -> [e EXCEPT !.kids = kids]

Parsed == ParseExprOnly(text)
Formatted(e) == Lex(PrintExpr(e, 0))
Accepted(e) == e.node # "error"

\* The path before a `::` has no number in it: none names a type.
RECURSIVE NamesTypes(_)
NamesTypes(e) ==
    /\ e.node = "variant" => ".1" \notin Range(PrintPath(e.kids[1]))
    /\ \A k \in DOMAIN e.kids : NamesTypes(e.kids[k])

SameMeaning(e, again) == Accepted(again) /\ Meaning(again) = Meaning(e)
Stable(e, again) == SameMeaning(e, again) /\ Formatted(again) = Formatted(e)
FormatKeeps(e) == Accepted(e) /\ NamesTypes(e) => Stable(e, ParseExprOnly(Formatted(e)))

(* Formatting a text that parses gives a text that parses, to a tree with  *)
(* the same meaning, and formatting that again changes nothing: the        *)
(* parentheses that are printed are exactly those the parser needs.        *)
FormatKeepsMeaning == FormatKeeps(Parsed)

\* An `else if`, whose condition HasBareBitOr does not look at.
RECURSIVE HasElseIf(_)
HasElseIf(e) ==
    \/ e.node = "if" /\ Len(e.kids) = 3 /\ e.kids[3].node = "if"
    \/ \E k \in DOMAIN e.kids : HasElseIf(e.kids[k])

CellKeeps(e) ==
    Accepted(e) /\ NamesTypes(e) /\ ~HasElseIf(e) =>
        SameMeaning(e, ParseCell(Lex(PrintCell(e))))

(* An expression put into the cell of a table row is printed so that the   *)
(* row's `|` ends it: what the cell is read back as means the same.        *)
CellKeepsMeaning == CellKeeps(Parsed)
=============================================================================
