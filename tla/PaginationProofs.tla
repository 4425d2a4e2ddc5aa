-------------------------- MODULE PaginationProofs --------------------------
(***************************************************************************)
(* Proofs about Pagination, for any paper, blocks and sites: what is laid  *)
(* out is in order and fits, no page is opened for nothing, and the        *)
(* printed contents tell the truth.                                        *)
(*                                                                         *)
(* For the contents the invariant follows the first pass section by        *)
(* section and the contents entry by entry.  That they are laid out as     *)
(* often as it takes and no more rests on one fact: an entry takes the     *)
(* same room whatever number it prints, so every round ends on the same    *)
(* page.                                                                   *)
(***************************************************************************)
EXTENDS Pagination, FiniteSetTheorems, SequenceTheorems, NaturalsInduction, TLAPS

(* The shapes that the proofs need: parts are a sequence of heights and    *)
(* gaps, a block is parts of some kind, and a piece and a box have their   *)
(* place.                                                                  *)
IsParts(parts) ==
    /\ parts \in Seq(Range(parts))
    /\ \A part \in Range(parts) : part.height \in Nat /\ part.gap \in Nat

IsBlock(b) ==
    \E kind, parts : b = [kind |-> kind, parts |-> parts] /\ IsParts(parts)

AreBlocks(q) == q \in Seq(Range(q)) /\ \A b \in Range(q) : IsBlock(b)

IsPiece(p) ==
    \E page, top, height, section \in Nat : \E number, leads :
        p = [page |-> page, top |-> top, height |-> height, section |-> section,
             number |-> number, leads |-> leads]

IsPlaced(s) == s \in Seq(Range(s)) /\ \A p \in Range(s) : IsPiece(p)

IsBox(box) ==
    \E page, top, lines \in Nat : box = [page |-> page, top |-> top, lines |-> lines]

(* What the variables are.  Numbers of entries, links and the results of   *)
(* the passes are left open: nothing here depends on them.                 *)
TypeOK ==
    /\ site \in Sites
    /\ layout \in {"pages", "contents", "bound"}
    /\ IsBlock(block)
    /\ layout = "bound" => block = Nothing
    /\ pages \in Nat \ {0} /\ cy \in Nat /\ atTop \in BOOLEAN
    /\ IsPlaced(placed) /\ \A box \in boxes : IsBox(box)
    /\ starts \in Seq(Nat) /\ starts # <<>>
    /\ AreBlocks(queue)
    /\ content.pages \in Nat /\ IsPlaced(content.placed)
    /\ \A box \in content.boxes : IsBox(box)

(* PartsInOrder of any sequence of pieces.                                 *)
InOrder(s) ==
    \A i \in DOMAIN s : i < Len(s) =>
        \/ s[i].page < s[i + 1].page
        \/ s[i].page = s[i + 1].page /\ s[i].top + s[i].height <= s[i + 1].top

(* Pieces in order, none of them below y on the last page.                 *)
StayAbove(s, page, y) ==
    /\ InOrder(s)
    /\ \A p \in Range(s) : p.page \in 1 .. page /\ (p.page = page => p.top + p.height <= y)

(* What stands on a page that no block without parts opened ends on it.    *)
Fit(s, shelves, empty) ==
    /\ \A p \in Range(s) : p.height <= Height => p.page \in empty \/ p.top + p.height <= Height
    /\ \A box \in shelves : box.page \in empty \/ box.top + BoxHeight(box.lines) <= Height

(* NothingIsCut is inductive with this: the next part goes below the last one, *)
(* where nothing was placed yet the page is empty, and the contents and    *)
(* what was laid out before them keep these properties each for itself     *)
(* until they are bound.                                                   *)
FlowInv ==
    /\ layout # "bound" => StayAbove(placed, pages, cy)
    /\ layout # "bound" => (atTop => cy = 0 \/ pages \in hollow)
    /\ layout = "bound" => InOrder(placed)
    /\ Fit(placed, boxes, hollow)
    /\ layout = "contents" =>
           /\ InOrder(content.placed)
           /\ \A p \in Range(content.placed) : 1 <= p.page
           /\ Fit(content.placed, content.boxes, content.hollow)

(* What accounts for a page: a part on it, or that it is all there is of a *)
(* section without any.                                                    *)
Holds(s, p) ==
    \/ \E k \in DOMAIN starts : starts[k] = p - 1 /\ \A piece \in Range(s) : piece.section # k
    \/ \E piece \in Range(s) : piece.page = p

(* NoBlankPages is inductive with this: on a page that a part opened there *)
(* is a part, and a section without parts has not left its first page.     *)
BlankInv ==
    layout = "pages" =>
        /\ \A p \in 1 .. pages : Holds(placed, p) \/ (p = pages /\ block.parts # <<>>)
        /\ ~atTop => \E piece \in Pieces : piece.page = pages
        /\ (\A piece \in Pieces : piece.section # Len(starts)) =>
              atTop /\ pages = starts[Len(starts)] + 1
        /\ \A piece \in Pieces : piece.section <= Len(starts)

(* The inductive invariant of both.                                        *)
Inv == TypeOK /\ FlowInv /\ BlankInv
-----------------------------------------------------------------------------
(* The fields of a piece are numbers.                                      *)
LEMMA PieceFields ==
    ASSUME NEW p, IsPiece(p)
    PROVE  p.page \in Nat /\ p.top \in Nat /\ p.height \in Nat /\ p.section \in Nat
BY DEF IsPiece

(* So are the measures of the paper.                                       *)
LEMMA Bounds ==
    /\ Height \in Nat /\ Space \in Nat /\ BeforeHeading \in Nat /\ AfterHeading \in Nat
    /\ CodeLine \in Nat /\ CodePad \in Nat /\ TitleHeight \in Nat
    /\ EntryHeight \in Nat /\ EntrySpace \in Nat
BY PaperAssumption

(* The pieces placed, by number.                                           *)
LEMMA PlacedIs ==
    ASSUME NEW s, IsPlaced(s)
    PROVE  /\ Len(s) \in Nat
           /\ DOMAIN s = 1 .. Len(s)
           /\ \A i \in 1 .. Len(s) :
                 /\ s[i] \in Range(s)
                 /\ s[i].page \in Nat /\ s[i].top \in Nat /\ s[i].height \in Nat
<1>1. Len(s) \in Nat /\ DOMAIN s = 1 .. Len(s)
  BY LenProperties DEF IsPlaced
<1>2. ASSUME NEW i \in 1 .. Len(s)
      PROVE  s[i] \in Range(s) /\ IsPiece(s[i])
  BY <1>1 DEF IsPlaced, Range
<1> QED
  BY <1>1, <1>2, PieceFields

(* Pieces in order that all stand on one page q may follow those that end  *)
(* above y on page p, if q is later or they start below y.                 *)
LEMMA AddPieces ==
    ASSUME NEW s, NEW new, IsPlaced(s), IsPlaced(new),
           NEW p \in Nat, NEW y \in Nat, NEW q \in Nat, NEW z \in Nat,
           StayAbove(s, p, y), InOrder(new), p <= q, 1 <= q,
           \A x \in Range(new) :
               x.page = q /\ x.top + x.height <= z /\ (p = q => y <= x.top),
           p = q => y <= z
    PROVE  /\ IsPlaced(s \o new)
           /\ Range(s \o new) = Range(s) \cup Range(new)
           /\ StayAbove(s \o new, q, z)
<1> DEFINE S == Range(s) \cup Range(new)
           t == s \o new
<1>1. s \in Seq(S) /\ new \in Seq(S)
  BY SeqMonotonic DEF IsPlaced
<1>2. /\ t \in Seq(S)
      /\ Len(t) = Len(s) + Len(new)
      /\ \A i \in 1 .. Len(s) + Len(new) :
            t[i] = IF i <= Len(s) THEN s[i] ELSE new[i - Len(s)]
  BY <1>1, ConcatProperties
<1>3. Range(t) = S
  BY <1>1, RangeConcatenation
<1>4. IsPlaced(t)
  BY <1>2, <1>3 DEF IsPlaced
<1>5. /\ Len(s) \in Nat /\ Len(new) \in Nat /\ DOMAIN t = 1 .. Len(s) + Len(new)
      /\ DOMAIN s = 1 .. Len(s) /\ DOMAIN new = 1 .. Len(new)
  BY <1>1, <1>2, LenProperties
<1> HIDE DEF t
<1>6. InOrder(t)
  <2> SUFFICES ASSUME NEW i \in 1 .. Len(s) + Len(new), i < Len(s) + Len(new)
               PROVE  \/ t[i].page < t[i + 1].page
                      \/ /\ t[i].page = t[i + 1].page
                         /\ t[i].top + t[i].height <= t[i + 1].top
    BY <1>2, <1>5 DEF InOrder
  <2>1. CASE i < Len(s)
    <3>1. t[i] = s[i] /\ t[i + 1] = s[i + 1]
      BY <1>2, <1>5, <2>1
    <3> QED
      BY <1>5, <2>1, <3>1 DEF StayAbove, InOrder
  <2>2. CASE i = Len(s)
    <3>1. t[i] = s[i] /\ t[i + 1] = new[1] /\ 1 \in 1 .. Len(new)
      BY <1>2, <1>5, <2>2
    <3>2. s[i] \in Range(s) /\ new[1] \in Range(new)
      BY <1>5, <2>2, <3>1 DEF Range
    <3>3. s[i].page \in 1 .. p /\ (s[i].page = p => s[i].top + s[i].height <= y)
      BY <3>2 DEF StayAbove
    <3>4. new[1].page = q /\ (p = q => y <= new[1].top)
      BY <3>2
    <3>5. /\ s[i].top \in Nat /\ s[i].height \in Nat /\ new[1].top \in Nat
      BY <3>2, PieceFields DEF IsPlaced
    <3>6. CASE p < q
      BY <3>1, <3>3, <3>4, <3>6
    <3>7. CASE p = q
      <4>1. s[i].page < new[1].page \/ (s[i].page = p /\ new[1].page = p)
        BY <3>3, <3>4, <3>7
      <4>2. s[i].page = p => s[i].top + s[i].height <= new[1].top
        BY <3>3, <3>4, <3>5, <3>7
      <4> QED
        BY <3>1, <4>1, <4>2
    <3> QED
      BY <3>6, <3>7
  <2>3. CASE i > Len(s)
    <3>1. t[i] = new[i - Len(s)] /\ t[i + 1] = new[(i - Len(s)) + 1]
      BY <1>2, <1>5, <2>3
    <3>2. i - Len(s) \in DOMAIN new /\ i - Len(s) < Len(new)
      BY <1>5, <2>3
    <3> QED
      BY <3>1, <3>2 DEF InOrder
  <2>4. i \in Nat /\ Len(s) \in Nat
    BY <1>5
  <2>5. i < Len(s) \/ i = Len(s) \/ i > Len(s)
    BY <2>4
  <2> QED
    BY <2>1, <2>2, <2>3, <2>5
<1>7. ASSUME NEW x \in Range(t)
      PROVE  x.page \in 1 .. q /\ (x.page = q => x.top + x.height <= z)
  <2>1. CASE x \in Range(new)
    BY <2>1
  <2>2. CASE x \in Range(s)
    <3>1. x.page \in 1 .. p /\ (x.page = p => x.top + x.height <= y)
      BY <2>2 DEF StayAbove
    <3>2. x.top \in Nat /\ x.height \in Nat
      BY <2>2, PieceFields DEF IsPlaced
    <3> QED
      BY <3>1, <3>2
  <2> QED
    BY <1>3, <2>1, <2>2
<1> QED
  BY <1>3, <1>4, <1>6, <1>7 DEF StayAbove, t

(* More pieces of the current section account for what the old ones did,   *)
(* and the page left behind has its part.                                  *)
LEMMA StillHolds ==
    ASSUME Inv, layout = "pages", NEW new,
           \A x \in Range(new) : x.section = Len(starts),
           Range(placed \o new) = Range(placed) \cup Range(new),
           NEW p \in 1 .. pages,
           p = pages => ~atTop \/ \E x \in Range(new) : x.page = p
    PROVE  Holds(placed \o new, p)
<1>1. /\ Holds(placed, p) \/ p = pages
      /\ ~atTop => \E piece \in Pieces : piece.page = pages
      /\ (\A piece \in Pieces : piece.section # Len(starts)) => pages = starts[Len(starts)] + 1
  BY DEF Inv, BlankInv
<1>2. CASE p = pages
  BY <1>1, <1>2 DEF Holds, Pieces
<1>3. CASE p # pages
  <2>1. CASE \E piece \in Range(placed) : piece.page = p
    BY <2>1 DEF Holds
  <2>2. CASE \E k \in DOMAIN starts :
                starts[k] = p - 1 /\ \A piece \in Range(placed) : piece.section # k
    <3>1. PICK k \in DOMAIN starts :
                 starts[k] = p - 1 /\ \A piece \in Range(placed) : piece.section # k
      BY <2>2
    <3>2. p \in Nat /\ pages \in Nat
      BY DEF Inv, TypeOK
    <3>3. k # Len(starts)
      <4> SUFFICES ASSUME k = Len(starts)
                   PROVE  FALSE
        OBVIOUS
      <4>1. pages = starts[Len(starts)] + 1
        BY <1>1, <3>1 DEF Pieces
      <4>2. pages = (p - 1) + 1
        BY <3>1, <4>1
      <4> QED
        BY <1>3, <3>2, <4>2
    <3>4. \A piece \in Range(placed \o new) : piece.section # k
      BY <3>1, <3>3
    <3> QED
      BY <3>1, <3>4 DEF Holds
  <2> QED
    BY <1>1, <1>3, <2>1, <2>2 DEF Holds
<1> QED
  BY <1>2, <1>3

(* The first of some parts, and the rest of them.                          *)
LEMMA PartsLeft ==
    ASSUME NEW parts, IsParts(parts), parts # <<>>
    PROVE  /\ Head(parts).height \in Nat /\ Head(parts).gap \in Nat
           /\ IsParts(Tail(parts))
<1>1. Head(parts) \in Range(parts) /\ Tail(parts) \in Seq(Range(parts))
  BY HeadTailProperties DEF IsParts
<1>2. Tail(parts) \in Seq(Range(Tail(parts))) /\ Range(Tail(parts)) \subseteq Range(parts)
  BY <1>1, SeqOfRange, RangeOfSeq
<1> QED
  BY <1>1, <1>2 DEF IsParts

(* A block whose parts are replaced is a block of those parts.             *)
LEMMA BlockParts ==
    ASSUME IsBlock(block)
    PROVE  /\ IsParts(block.parts)
           /\ \A parts : IsParts(parts) => IsBlock([block EXCEPT !.parts = parts])
           /\ \A parts : [block EXCEPT !.parts = parts].parts = parts
<1>1. PICK kind, parts : block = [kind |-> kind, parts |-> parts] /\ IsParts(parts)
  BY DEF IsBlock
<1>2. ASSUME NEW rest
      PROVE  [block EXCEPT !.parts = rest] = [kind |-> kind, parts |-> rest]
  BY <1>1
<1> QED
  BY <1>1, <1>2 DEF IsBlock

(* While parts are left nothing is bound yet, and the section is a number. *)
LEMMA BoundIsDone ==
    ASSUME TypeOK, block.parts # <<>>
    PROVE  layout # "bound" /\ Section \in Nat /\ (layout = "pages" => Section = Len(starts))
<1>1. layout # "bound"
  BY DEF TypeOK, Nothing
<1>2. Len(starts) \in Nat
  BY LenProperties DEF TypeOK
<1> QED
  BY <1>1, <1>2 DEF Section, TypeOK

(* One part is placed, on this page or the next.                           *)
LEMMA PlacePartKeeps ==
    ASSUME Inv, PlacePart
    PROVE  Inv'
<1> DEFINE part == Head(block.parts)
           height == Shown(block.kind, part.height)
           page == IF Breaks(height) THEN pages + 1 ELSE pages
           top == IF Breaks(height) THEN 0 ELSE cy
           piece == Piece(page, top, height, part)
<1>1. /\ TypeOK /\ FlowInv /\ BlankInv
      /\ pages \in Nat \ {0} /\ cy \in Nat /\ IsPlaced(placed)
      /\ layout # "bound" /\ Section \in Nat /\ (layout = "pages" => Section = Len(starts))
  BY BoundIsDone DEF Inv, TypeOK, PlacePart
<1>2. part.height \in Nat /\ part.gap \in Nat /\ IsParts(Tail(block.parts))
  BY <1>1, BlockParts, PartsLeft DEF PlacePart, TypeOK
<1>3. height \in Nat /\ Height \in Nat
  BY <1>1, <1>2, Bounds DEF Shown
<1>4. /\ pages' = page /\ cy' = top + height + part.gap /\ atTop' = FALSE
      /\ placed' = Append(placed, piece)
      /\ block' = [block EXCEPT !.parts = Tail(block.parts)]
      /\ UNCHANGED <<boxes, hollow, passes>>
  BY DEF PlacePart
<1>5. /\ Breaks(height) => page = pages + 1 /\ top = 0 /\ ~atTop
      /\ ~Breaks(height) => page = pages /\ top = cy /\ (cy + height <= Height \/ atTop)
  BY <1>1, <1>3 DEF Breaks
<1> HIDE DEF height, page, top
<1>6. page \in Nat /\ top \in Nat /\ pages <= page /\ 1 <= page
  BY <1>1, <1>5
<1>7. /\ piece.page = page /\ piece.top = top /\ piece.height = height
      /\ piece.section = Section /\ IsPiece(piece)
  BY <1>1, <1>3, <1>6 DEF Piece, IsPiece
<1> HIDE DEF piece, part
<1>8. Range(<<piece>>) = {piece} /\ IsPlaced(<<piece>>) /\ InOrder(<<piece>>)
  <2>1. Len(<<piece>>) = 1 /\ DOMAIN <<piece>> = {1} /\ <<piece>>[1] = piece
    OBVIOUS
  <2>2. Range(<<piece>>) = {piece}
    BY <2>1 DEF Range
  <2> QED
    BY <1>7, <2>1, <2>2 DEF IsPlaced, InOrder
<1>9. placed' = placed \o <<piece>>
  <2>1. placed \in Seq(Range(placed) \cup {piece})
    BY <1>1, SeqMonotonic DEF IsPlaced
  <2> QED
    BY <1>4, <2>1, AppendIsConcat
<1>10. /\ IsPlaced(placed') /\ Range(placed') = Range(placed) \cup {piece}
       /\ StayAbove(placed', page, top + height)
  <2>1. StayAbove(placed, pages, cy)
    BY <1>1 DEF FlowInv
  <2>2. pages = page => cy <= top + height /\ cy = top
    BY <1>1, <1>3, <1>5, <1>6
  <2> HIDE DEF StayAbove
  <2>3. /\ pages \in Nat /\ cy \in Nat /\ top + height \in Nat
        /\ \A x \in Range(<<piece>>) : x.page = page /\ x.top + x.height <= top + height
                                       /\ (pages = page => cy <= x.top)
    BY <1>1, <1>3, <1>6, <1>7, <1>8, <2>2
  <2> QED
    BY <1>1, <1>6, <1>8, <1>9, <2>1, <2>2, <2>3, AddPieces
<1>11. TypeOK'
  <2>1. IsBlock(block')
    BY <1>1, <1>2, <1>4, BlockParts DEF TypeOK
  <2>2. cy' \in Nat
    BY <1>2, <1>3, <1>4, <1>6
  <2>3. pages' \in Nat \ {0}
    BY <1>4, <1>6
  <2>5. atTop' \in BOOLEAN
    BY <1>4
  <2>4. UNCHANGED <<site, layout, boxes, starts, queue, content>>
    BY <1>4 DEF passes
  <2> QED
    BY <1>1, <1>10, <2>1, <2>2, <2>3, <2>4, <2>5 DEF TypeOK
<1>12. FlowInv'
  <2>1. StayAbove(placed', pages', cy')
    <3>1. top + height <= top + height + part.gap
      BY <1>2, <1>3, <1>6
    <3>2. \A x \in Range(placed') : x.top \in Nat /\ x.height \in Nat
      BY <1>10, PieceFields DEF IsPlaced
    <3>3. \A x \in Range(placed') : x.page = page => x.top + x.height <= top + height
      BY <1>10 DEF StayAbove
    <3>4. \A x \in Range(placed') : x.page = page => x.top + x.height <= top + height + part.gap
      BY <1>2, <1>3, <1>6, <3>1, <3>2, <3>3
    <3> QED
      BY <1>4, <1>10, <3>4 DEF StayAbove
  <2>2. height <= Height => page \in hollow \/ top + height <= Height
    <3>1. atTop => cy = 0 \/ pages \in hollow
      BY <1>1 DEF FlowInv
    <3> QED
      BY <1>1, <1>3, <1>5, <3>1
  <2>3. Fit(placed', boxes', hollow')
    BY <1>1, <1>4, <1>7, <1>10, <2>2 DEF FlowInv, Fit
  <2> QED
    BY <1>1, <1>4, <2>1, <2>3 DEF FlowInv, passes
<1>13. BlankInv'
  <2> SUFFICES ASSUME layout = "pages"
               PROVE  BlankInv'
    BY <1>4 DEF BlankInv, passes
  <2>1. starts' = starts /\ piece \in Range(placed') /\ piece.page = pages'
        /\ piece.section = Len(starts)
    BY <1>1, <1>4, <1>7, <1>10 DEF passes
  <2>2. ASSUME NEW p \in 1 .. page
        PROVE  Holds(placed \o <<piece>>, p)
    <3>1. CASE p = page
      BY <1>4, <1>9, <2>1, <3>1 DEF Holds
    <3>2. CASE p # page
      <4>1. p \in 1 .. pages /\ (p = pages => ~atTop)
        BY <1>1, <1>5, <1>6, <3>2
      <4> QED
        BY <1>8, <1>9, <1>10, <2>1, <4>1, StillHolds
    <3> QED
      BY <3>1, <3>2
  <2>3. \A p \in 1 .. pages' : Holds(placed, p)'
    BY <1>4, <1>9, <2>1, <2>2 DEF Holds
  <2>4. \A x \in Range(placed') : x.section <= Len(starts)
    <3>1. Len(starts) \in Nat
      BY <1>1, <2>1, LenProperties DEF TypeOK
    <3> QED
      BY <1>1, <1>10, <2>1, <3>1 DEF BlankInv, Pieces
  <2> QED
    BY <1>4, <2>1, <2>3, <2>4 DEF BlankInv, Pieces
<1> QED
  BY <1>1, <1>11, <1>12, <1>13 DEF Inv

(* More lines are no lower.                                                *)
LEMMA TimesGrows ==
    ASSUME NEW i \in Nat, NEW n \in Nat, i <= n, NEW k \in Nat
    PROVE  i * k \in Nat /\ n * k \in Nat /\ i * k <= n * k
<1>1. \A a, b \in Nat : a * b \in Nat
  OBVIOUS
<1>2. n - i \in Nat
  OBVIOUS
<1>3. n * k = i * k + (n - i) * k
  OBVIOUS
<1>4. i * k \in Nat /\ (n - i) * k \in Nat
  BY <1>1, <1>2
<1> QED
  BY <1>3, <1>4

(* The lines of a box end where the box of so many lines does, or above.   *)
LEMMA LinesInBox ==
    ASSUME NEW n \in Nat, NEW i \in 1 .. n
    PROVE  /\ BoxHeight(n) \in Nat /\ (i - 1) * CodeLine \in Nat
           /\ CodePad + (i - 1) * CodeLine + CodeLine <= BoxHeight(i)
           /\ BoxHeight(i) <= BoxHeight(n)
           /\ CodePad + (i - 1) * CodeLine + CodeLine = CodePad + i * CodeLine
<1>1. CodeLine \in Nat /\ CodePad \in Nat
  BY Bounds
<1>2. i * CodeLine \in Nat /\ n * CodeLine \in Nat /\ i * CodeLine <= n * CodeLine
  BY <1>1, TimesGrows
<1>3. i * CodeLine = (i - 1) * CodeLine + CodeLine
  BY <1>1
<1>4. (i - 1) * CodeLine \in Nat
  <2>1. i - 1 \in Nat
    OBVIOUS
  <2> QED
    BY <1>1, <2>1, TimesGrows
<1> QED
  BY <1>1, <1>2, <1>3, <1>4 DEF BoxHeight

(* A function on 1 .. n is a sequence.                                     *)
LEMMA SequenceOf ==
    ASSUME NEW n \in Nat, NEW new, new = [i \in 1 .. n |-> new[i]]
    PROVE  /\ new \in Seq(Range(new)) /\ Len(new) = n /\ DOMAIN new = 1 .. n
           /\ Range(new) = {new[i] : i \in 1 .. n}
<1>1. DOMAIN new = 1 .. n
  OBVIOUS
<1>2. Range(new) = {new[i] : i \in 1 .. n}
  BY <1>1 DEF Range
<1>3. new \in [1 .. n -> Range(new)]
  BY <1>2
<1>4. new \in Seq(Range(new))
  BY <1>3, SeqDef
<1>5. Len(new) \in Nat /\ 1 .. Len(new) = 1 .. n
  BY <1>1, <1>4, LenProperties
<1> QED
  BY <1>1, <1>2, <1>4, <1>5

(* Some lines of code are placed, on this page or the next; if more are    *)
(* left a page is opened for them, where at least one fits.                *)
LEMMA PlaceCodeKeeps ==
    ASSUME Inv, PlaceCode
    PROVE  Inv'
<1> DEFINE breaks == Breaks(CodePad + CodeLine)
           page == IF breaks THEN pages + 1 ELSE pages
           top == IF breaks THEN 0 ELSE cy
           left == Len(block.parts)
           Taken(n) == top + BoxHeight(n) <= Height \/ (n = 1 /\ (breaks \/ atTop))
           Line(i) == Piece(page, top + CodePad + (i - 1) * CodeLine, CodeLine, block.parts[i])
<1>1. /\ TypeOK /\ FlowInv /\ BlankInv
      /\ pages \in Nat \ {0} /\ cy \in Nat /\ IsPlaced(placed)
      /\ layout # "bound" /\ Section \in Nat /\ (layout = "pages" => Section = Len(starts))
      /\ CodePad \in Nat /\ CodeLine \in Nat /\ Height \in Nat
  BY BoundIsDone, Bounds DEF Inv, TypeOK, PlaceCode
<1>2. left \in Nat \ {0} /\ IsParts(block.parts)
  <2>1. IsParts(block.parts) /\ block.parts # <<>>
    BY <1>1, BlockParts DEF TypeOK, PlaceCode
  <2> QED
    BY <2>1, EmptySeq DEF IsParts
<1>3. PICK n \in 0 .. left :
         /\ \A i \in 1 .. n : Taken(i)
         /\ n < left => ~Taken(n + 1)
         /\ placed' = placed \o [i \in 1 .. n |-> Line(i)]
         /\ boxes' = boxes \cup {[page |-> page, top |-> top, lines |-> n]}
         /\ block' = [block EXCEPT !.parts = SubSeq(@, n + 1, left)]
         /\ IF n < left
            THEN pages' = page + 1 /\ cy' = 0 /\ atTop' = TRUE
            ELSE pages' = page /\ cy' = top + BoxHeight(n) /\ atTop' = FALSE
  BY DEF PlaceCode
<1>4. UNCHANGED <<hollow, passes>>
  BY DEF PlaceCode
<1>5. /\ breaks => page = pages + 1 /\ top = 0 /\ ~atTop
      /\ ~breaks => page = pages /\ top = cy /\ (cy + CodePad + CodeLine <= Height \/ atTop)
  BY <1>1 DEF Breaks
<1> DEFINE new == [i \in 1 .. n |-> Line(i)]
           box == [page |-> page, top |-> top, lines |-> n]
           bottom == top + BoxHeight(n)
<1>6. page \in Nat /\ top \in Nat /\ pages <= page /\ 1 <= page /\ n \in Nat
  BY <1>1, <1>5
<1>7. n = 0 => ~breaks /\ ~atTop
  BY <1>2, <1>3
<1>8. bottom \in Nat /\ BoxHeight(n) \in Nat
  <2>1. n * CodeLine \in Nat
    BY <1>1, <1>6, TimesGrows
  <2> QED
    BY <1>1, <1>6, <2>1 DEF BoxHeight
<1>9. \A i \in 1 .. n : Taken(i)
  BY <1>3
<1> HIDE DEF breaks, page, top, left
<1>10. ASSUME NEW i \in 1 .. n
       PROVE  /\ new[i].page = page /\ new[i].section = Section /\ new[i].height = CodeLine
              /\ new[i].top = top + CodePad + (i - 1) * CodeLine
              /\ new[i].top \in Nat /\ IsPiece(new[i])
              /\ new[i].top + new[i].height <= top + BoxHeight(i)
              /\ BoxHeight(i) <= BoxHeight(n) /\ BoxHeight(i) \in Nat
  <2>1. (i - 1) * CodeLine \in Nat
    BY <1>1, <1>6, LinesInBox
  <2>2. /\ CodePad + (i - 1) * CodeLine + CodeLine <= BoxHeight(i)
        /\ BoxHeight(i) <= BoxHeight(n) /\ BoxHeight(i) \in Nat
    <3>1. i \in Nat /\ i \in 1 .. i
      BY <1>6
    <3> QED
      BY <1>1, <1>6, <3>1, LinesInBox
  <2>3. new[i] = Line(i)
    OBVIOUS
  <2>4. /\ Line(i).page = page /\ Line(i).section = Section /\ Line(i).height = CodeLine
        /\ Line(i).top = top + CodePad + (i - 1) * CodeLine
    BY DEF Piece
  <2>5. top + CodePad + (i - 1) * CodeLine \in Nat
    BY <1>1, <1>6, <2>1
  <2>6. IsPiece(Line(i))
    BY <1>1, <1>6, <2>5 DEF Piece, IsPiece
  <2>7. top + CodePad + (i - 1) * CodeLine + CodeLine <= top + BoxHeight(i)
    BY <1>1, <1>6, <2>1, <2>2
  <2> QED
    BY <2>2, <2>3, <2>4, <2>5, <2>6, <2>7
<1>11. /\ IsPlaced(new) /\ Len(new) = n /\ DOMAIN new = 1 .. n
       /\ Range(new) = {new[i] : i \in 1 .. n}
  <2>1. /\ new \in Seq(Range(new)) /\ Len(new) = n /\ DOMAIN new = 1 .. n
        /\ Range(new) = {new[i] : i \in 1 .. n}
    <3>1. new = [i \in 1 .. n |-> new[i]]
      OBVIOUS
    <3> QED
      BY <1>6, <3>1, SequenceOf
  <2>2. \A x \in Range(new) : IsPiece(x)
    BY <1>10, <2>1
  <2> QED
    BY <2>1, <2>2 DEF IsPlaced
<1>12. InOrder(new)
  <2> SUFFICES ASSUME NEW i \in 1 .. n, i < n
               PROVE  /\ new[i].page = new[i + 1].page
                      /\ new[i].top + new[i].height <= new[i + 1].top
    BY <1>11 DEF InOrder
  <2>1. i + 1 \in 1 .. n
    BY <1>6
  <2>2. /\ new[i].page = page /\ new[i].top = top + CodePad + (i - 1) * CodeLine
        /\ new[i].height = CodeLine
    BY <1>10
  <2>3. new[i + 1].page = page /\ new[i + 1].top = top + CodePad + ((i + 1) - 1) * CodeLine
    BY <1>10, <2>1
  <2>4. ((i + 1) - 1) * CodeLine = i * CodeLine
    <3>1. (i + 1) - 1 = i
      BY <1>6
    <3> QED
      BY <3>1
  <2>5. (i - 1) * CodeLine + CodeLine = i * CodeLine /\ (i - 1) * CodeLine \in Nat
    BY <1>1, <1>6, LinesInBox
  <2>6. top + CodePad + (i - 1) * CodeLine + CodeLine <= top + CodePad + i * CodeLine
    BY <1>1, <1>6, <2>5
  <2>7. new[i + 1].top = top + CodePad + i * CodeLine
    BY <2>3, <2>4
  <2> HIDE DEF new
  <2>8. new[i].top + new[i].height <= new[i + 1].top
    BY <2>2, <2>6, <2>7
  <2> QED
    BY <2>2, <2>3, <2>8
<1> HIDE DEF new
<1>13. ASSUME NEW x \in Range(new)
       PROVE  /\ x.page = page /\ x.section = Section /\ x.height = CodeLine
              /\ x.top \in Nat /\ top <= x.top /\ x.top + x.height <= bottom
              /\ \E i \in 1 .. n : x.top + x.height <= top + BoxHeight(i)
  <2>1. PICK i \in 1 .. n : x = new[i]
    BY <1>11
  <2>2. (i - 1) * CodeLine \in Nat
    BY <1>1, <1>6, LinesInBox
  <2>3. /\ x.page = page /\ x.section = Section /\ x.height = CodeLine
        /\ x.top \in Nat /\ x.top + x.height <= top + BoxHeight(i)
    BY <1>10, <2>1
  <2>4. top <= x.top
    <3>1. x.top = top + CodePad + (i - 1) * CodeLine
      BY <1>10, <2>1
    <3>2. top <= top + CodePad + (i - 1) * CodeLine
      BY <1>1, <1>6, <2>2
    <3> QED
      BY <3>1, <3>2
  <2>5. x.top + x.height <= bottom
    BY <1>1, <1>6, <1>8, <1>10, <2>1
  <2> QED
    BY <2>3, <2>4, <2>5
<1>14. placed' = placed \o new
  BY <1>3 DEF new
<1> HIDE DEF bottom
<1>15. /\ IsPlaced(placed') /\ Range(placed') = Range(placed) \cup Range(new)
       /\ StayAbove(placed', page, bottom)
  <2>1. StayAbove(placed, pages, cy)
    BY <1>1 DEF FlowInv
  <2>2. pages = page => cy = top
    BY <1>1, <1>5
  <2>3. pages = page => cy <= bottom
    BY <1>6, <1>8, <2>2 DEF bottom
  <2>4. \A x \in Range(new) : x.page = page /\ x.top + x.height <= bottom
                              /\ (pages = page => cy <= x.top)
    BY <1>13, <2>2
  <2>5. pages \in Nat /\ cy \in Nat
    BY <1>1
  <2>6. /\ IsPlaced(placed \o new)
        /\ Range(placed \o new) = Range(placed) \cup Range(new)
        /\ StayAbove(placed \o new, page, bottom)
    BY <1>1, <1>6, <1>8, <1>11, <1>12, <2>1, <2>3, <2>4, <2>5, AddPieces
  <2> QED
    BY <1>14, <2>6
<1>16. IsBlock(block')
  <2>1. IsParts(SubSeq(block.parts, n + 1, left))
    <3>1. /\ block.parts \in Seq(Range(block.parts))
          /\ \A part \in Range(block.parts) : part.height \in Nat /\ part.gap \in Nat
      BY <1>2 DEF IsParts
    <3>2. \A i \in n + 1 .. left : block.parts[i] \in Range(block.parts)
      <4>1. \A i \in n + 1 .. left : i \in 1 .. Len(block.parts)
        BY <1>6 DEF left
      <4> QED
        BY <3>1, <4>1, ElementOfSeq
    <3>3. n + 1 \in Int /\ left \in Int
      BY <1>2, <1>6
    <3>4. SubSeq(block.parts, n + 1, left) \in Seq(Range(block.parts))
      BY <3>2, <3>3, SubSeqProperties
    <3>5. /\ SubSeq(block.parts, n + 1, left) \in Seq(Range(SubSeq(block.parts, n + 1, left)))
          /\ Range(SubSeq(block.parts, n + 1, left)) \subseteq Range(block.parts)
      BY <3>4, SeqOfRange, RangeOfSeq
    <3> QED
      BY <3>1, <3>5 DEF IsParts
  <2>2. block' = [block EXCEPT !.parts = SubSeq(block.parts, n + 1, left)]
    BY <1>3
  <2> QED
    BY <1>1, <2>1, <2>2, BlockParts DEF TypeOK
<1>17. n < left => block'.parts # <<>>
  <2>1. \A i \in n + 1 .. left : block.parts[i] \in Range(block.parts)
    <3>1. \A i \in n + 1 .. left : i \in 1 .. Len(block.parts)
      BY <1>6 DEF left
    <3> QED
      BY <1>2, <3>1, ElementOfSeq DEF IsParts
  <2>2. n + 1 \in Int /\ left \in Int
    BY <1>2, <1>6
  <2>3. n < left => Len(SubSeq(block.parts, n + 1, left)) = left - (n + 1) + 1
    BY <1>2, <1>6, <2>1, <2>2, SubSeqProperties
  <2>4. n < left => Len(SubSeq(block.parts, n + 1, left)) > 0
    BY <1>2, <1>6, <2>3
  <2>5. block'.parts = SubSeq(block.parts, n + 1, left)
    BY <1>1, <1>3, BlockParts DEF TypeOK
  <2>6. n < left => Len(block'.parts) > 0
    BY <2>4, <2>5
  <2>7. Len(<<>>) = 0 /\ ~(0 > 0)
    OBVIOUS
  <2> QED
    BY <2>6, <2>7
<1>18. IsBox(box)
  BY <1>6 DEF IsBox
<1>19. TypeOK'
  <2>1. pages' \in Nat \ {0}
    BY <1>3, <1>6
  <2>2. cy' \in Nat
    BY <1>3, <1>8 DEF bottom
  <2>3. atTop' \in BOOLEAN
    BY <1>3
  <2>4. \A b \in boxes' : IsBox(b)
    BY <1>1, <1>3, <1>18 DEF TypeOK
  <2>5. UNCHANGED <<site, layout, starts, queue, content>>
    BY <1>4 DEF passes
  <2> QED
    BY <1>1, <1>15, <1>16, <2>1, <2>2, <2>3, <2>4, <2>5 DEF TypeOK
<1>20. ASSUME NEW i \in 1 .. n
       PROVE  page \in hollow \/ top + BoxHeight(i) <= Height
  <2>1. CASE top + BoxHeight(i) <= Height
    BY <2>1
  <2>2. CASE i = 1 /\ (breaks \/ atTop)
    <3>1. CodePad + CodeLine + CodePad <= Height
      BY <1>1, PaperAssumption
    <3>2. BoxHeight(1) = CodePad + CodeLine + CodePad
      BY <1>1 DEF BoxHeight
    <3>3. 0 + BoxHeight(1) <= Height
      BY <1>1, <3>1, <3>2
    <3>4. CASE breaks
      BY <1>5, <2>2, <3>3, <3>4
    <3>5. CASE ~breaks /\ atTop
      <4>1. cy = 0 \/ pages \in hollow
        BY <1>1, <3>5 DEF FlowInv
      <4> QED
        BY <1>5, <2>2, <3>3, <3>5, <4>1
    <3> QED
      BY <2>2, <3>4, <3>5
  <2> QED
    BY <1>9, <2>1, <2>2
<1>21. page \in hollow \/ bottom <= Height
  <2>1. CASE n = 0
    <3>1. cy + CodePad + CodeLine <= Height /\ top = cy
      BY <1>5, <1>7, <2>1
    <3>2. BoxHeight(n) = CodePad + CodePad
      <4>1. 0 * CodeLine = 0
        BY <1>1
      <4> QED
        BY <1>1, <2>1, <4>1 DEF BoxHeight
    <3>3. CodePad <= CodeLine
      BY <1>1, PaperAssumption
    <3> QED
      BY <1>1, <3>1, <3>2, <3>3 DEF bottom
  <2>2. CASE n # 0
    <3>1. n \in 1 .. n
      BY <1>6, <2>2
    <3> QED
      BY <1>20, <3>1 DEF bottom
  <2> QED
    BY <2>1, <2>2
<1>22. Fit(placed', boxes', hollow')
  <2>1. ASSUME NEW x \in Range(new)
        PROVE  x.page \in hollow \/ x.top + x.height <= Height
    <3>1. PICK i \in 1 .. n : x.top + x.height <= top + BoxHeight(i)
      BY <1>13, <2>1
    <3>2. page \in hollow \/ top + BoxHeight(i) <= Height
      BY <1>20
    <3>3. BoxHeight(i) \in Nat /\ x.top \in Nat /\ x.height \in Nat /\ x.page = page
      <4>1. x.height = CodeLine
        BY <1>13, <2>1
      <4> QED
        BY <1>1, <1>10, <1>13, <2>1, <4>1
    <3> QED
      BY <1>1, <1>6, <3>1, <3>2, <3>3
  <2>2. box.page = page /\ box.top + BoxHeight(box.lines) = bottom
    BY DEF bottom
  <2>3. hollow' = hollow /\ boxes' = boxes \cup {box}
    BY <1>3, <1>4
  <2>4. Fit(placed, boxes, hollow)
    BY <1>1 DEF FlowInv
  <2> HIDE DEF box
  <2>5. \A b \in boxes' : b.page \in hollow \/ b.top + BoxHeight(b.lines) <= Height
    BY <1>21, <2>2, <2>3, <2>4 DEF Fit
  <2>6. \A x \in Range(placed') :
            x.height <= Height => x.page \in hollow \/ x.top + x.height <= Height
    BY <1>15, <2>1, <2>4 DEF Fit
  <2> QED
    BY <2>3, <2>5, <2>6 DEF Fit
<1>23. FlowInv'
  <2>1. StayAbove(placed', pages', cy') /\ (atTop' => cy' = 0)
    <3>1. CASE n < left
      <4>1. \A x \in Range(placed') : x.page \in 1 .. page
        BY <1>15 DEF StayAbove
      <4>2. \A x \in Range(placed') : x.page \in 1 .. (page + 1) /\ x.page # page + 1
        BY <1>6, <4>1
      <4> QED
        BY <1>3, <1>15, <3>1, <4>2 DEF StayAbove
    <3>2. CASE ~(n < left)
      BY <1>3, <1>15, <3>2 DEF bottom
    <3> QED
      BY <3>1, <3>2
  <2> QED
    BY <1>1, <1>4, <1>22, <2>1 DEF FlowInv, passes
<1>24. BlankInv'
  <2> SUFFICES ASSUME layout = "pages"
               PROVE  BlankInv'
    BY <1>4 DEF BlankInv, passes
  <2>1. starts' = starts /\ Section = Len(starts) /\ Len(starts) \in Nat
    BY <1>1, <1>4, LenProperties DEF passes, TypeOK
  <2>2. n # 0 => new[1] \in Range(new) /\ new[1].page = page /\ new[1].section = Len(starts)
    <3>1. n # 0 => 1 \in 1 .. n
      BY <1>6
    <3> QED
      BY <1>10, <1>11, <2>1, <3>1
  <2>3. ASSUME NEW p \in 1 .. pages
        PROVE  Holds(placed \o new, p)
    <3>1. p = pages => ~atTop \/ \E x \in Range(new) : x.page = p
      BY <1>5, <1>7, <2>2
    <3> QED
      BY <1>13, <1>14, <1>15, <2>1, <3>1, StillHolds
  <2>4. ASSUME NEW p \in 1 .. page
        PROVE  Holds(placed', p)
    <3>1. CASE p \in 1 .. pages
      BY <1>14, <2>3, <3>1
    <3>2. CASE p \notin 1 .. pages
      <4>1. p = page /\ breaks
        BY <1>1, <1>5, <1>6, <3>2
      <4> QED
        BY <1>7, <1>15, <2>2, <4>1 DEF Holds
    <3> QED
      BY <3>1, <3>2
  <2>5. \A p \in 1 .. pages' : Holds(placed, p)' \/ (p = pages' /\ block'.parts # <<>>)
    <3>1. \A p \in 1 .. page : Holds(placed, p)'
      BY <2>1, <2>4 DEF Holds
    <3>2. pages' = page \/ (pages' = page + 1 /\ n < left)
      BY <1>3
    <3>3. \A p \in 1 .. page + 1 : p \in 1 .. page \/ p = page + 1
      BY <1>6
    <3> QED
      BY <1>17, <3>1, <3>2, <3>3
  <2>6. ~atTop' => \E x \in Range(placed') : x.page = pages'
    <3>1. ~atTop' => pages' = page /\ n # 0
      BY <1>2, <1>3, <1>6
    <3> QED
      BY <1>15, <2>2, <3>1
  <2>7. \E x \in Range(placed') : x.section = Len(starts)
    <3>1. CASE n = 0
      BY <1>1, <1>7, <1>15, <3>1 DEF BlankInv, Pieces
    <3>2. CASE n # 0
      BY <1>15, <2>2, <3>2
    <3> QED
      BY <3>1, <3>2
  <2>8. \A x \in Range(placed') : x.section <= Len(starts)
    BY <1>1, <1>13, <1>15, <2>1 DEF BlankInv, Pieces
  <2> QED
    BY <2>1, <2>5, <2>6, <2>7, <2>8 DEF BlankInv, Pieces
<1> QED
  BY <1>1, <1>19, <1>23, <1>24 DEF Inv

(* What begins a block only moves down, and not at the top of a page.      *)
LEMMA BeginsRight ==
    ASSUME Inv, NEW b, IsBlock(b), layout # "bound", Begin(b)
    PROVE  /\ IsBlock(block') /\ cy' \in Nat
           /\ StayAbove(placed, pages, cy')
           /\ atTop => cy' = 0 \/ pages \in hollow
           /\ UNCHANGED <<pages, atTop, placed, boxes, hollow>>
<1>1. TypeOK /\ FlowInv
  BY DEF Inv
<1>2. SpaceBefore(b.kind) \in Nat
  BY <1>1, Bounds DEF SpaceBefore
<1>3. cy \in Nat /\ cy' = IF atTop THEN cy ELSE cy + SpaceBefore(b.kind)
  BY <1>1 DEF Begin, TypeOK
<1>4. cy' \in Nat /\ cy <= cy' /\ (atTop => cy' = cy)
  BY <1>2, <1>3
<1>5. StayAbove(placed, pages, cy) /\ (atTop => cy = 0 \/ pages \in hollow)
  BY <1>1 DEF FlowInv
<1>6. \A p \in Range(placed) : p.top \in Nat /\ p.height \in Nat
  BY <1>1, PieceFields DEF TypeOK, IsPlaced
<1>7. \A p \in Range(placed) : p.page = pages => p.top + p.height <= cy'
  <2> SUFFICES ASSUME NEW p \in Range(placed), p.page = pages
               PROVE  p.top + p.height <= cy'
    OBVIOUS
  <2>1. p.top + p.height <= cy
    BY <1>5 DEF StayAbove
  <2> QED
    BY <1>3, <1>4, <1>6, <2>1
<1>8. StayAbove(placed, pages, cy')
  BY <1>5, <1>7 DEF StayAbove
<1> QED
  BY <1>4, <1>5, <1>8 DEF Begin

(* What a page may hold are blocks.                                        *)
LEMMA BlocksAreBlocks ==
    ASSUME NEW b \in PageBlocks
    PROVE  IsBlock(b)
<1> DEFINE Parts == [page : {NoPage}, height : Nat, gap : Nat, number : Nat]
<1>1. b \in [kind : STRING, parts : Seq(Parts)]
  BY PaperAssumption
<1>2. b.parts \in Seq(Parts) /\ b = [kind |-> b.kind, parts |-> b.parts]
  BY <1>1
<1>3. b.parts \in Seq(Range(b.parts)) /\ Range(b.parts) \subseteq Parts
  BY <1>2, SeqOfRange, RangeOfSeq
<1>4. \A part \in Parts : part.height \in Nat /\ part.gap \in Nat
  OBVIOUS
<1> HIDE DEF Parts
<1>5. IsParts(b.parts)
  BY <1>3, <1>4 DEF IsParts
<1> QED
  BY <1>2, <1>5 DEF IsBlock

(* A block of the document begins.                                         *)
LEMMA WriteBlockKeeps ==
    ASSUME Inv, NEW b \in PageBlocks, WriteBlock(b)
    PROVE  Inv'
<1>1. TypeOK /\ FlowInv /\ BlankInv /\ layout = "pages" /\ block = Nothing
  BY DEF Inv, WriteBlock, Begin
<1>2. UNCHANGED <<site, layout, starts, content, queue>>
  BY DEF WriteBlock
<1>3. /\ IsBlock(block') /\ cy' \in Nat
      /\ StayAbove(placed, pages, cy')
      /\ atTop => cy' = 0 \/ pages \in hollow
      /\ UNCHANGED <<pages, atTop, placed, boxes, hollow>>
  BY <1>1, BlocksAreBlocks, BeginsRight DEF WriteBlock
<1>4. TypeOK'
  BY <1>1, <1>2, <1>3 DEF TypeOK
<1>5. FlowInv'
  BY <1>1, <1>2, <1>3 DEF FlowInv
<1>6. BlankInv'
  BY <1>1, <1>2, <1>3 DEF BlankInv, Holds, Pieces, Nothing
<1> QED
  BY <1>1, <1>4, <1>5, <1>6 DEF Inv

(* A block of the contents begins.                                         *)
LEMMA WriteContentsKeeps ==
    ASSUME Inv, WriteContents
    PROVE  Inv'
<1>1. TypeOK /\ FlowInv /\ layout = "contents" /\ queue # <<>>
  BY DEF Inv, WriteContents
<1>2. UNCHANGED <<site, layout, starts, content>> /\ queue' = Tail(queue)
  BY DEF WriteContents
<1>3. IsBlock(Head(queue)) /\ AreBlocks(Tail(queue))
  <2>1. Head(queue) \in Range(queue) /\ Tail(queue) \in Seq(Range(queue))
    BY <1>1, HeadTailProperties DEF TypeOK, AreBlocks
  <2>2. Tail(queue) \in Seq(Range(Tail(queue))) /\ Range(Tail(queue)) \subseteq Range(queue)
    BY <2>1, SeqOfRange, RangeOfSeq
  <2> QED
    BY <1>1, <2>1, <2>2 DEF TypeOK, AreBlocks
<1>4. /\ IsBlock(block') /\ cy' \in Nat
      /\ StayAbove(placed, pages, cy')
      /\ atTop => cy' = 0 \/ pages \in hollow
      /\ UNCHANGED <<pages, atTop, placed, boxes, hollow>>
  BY <1>1, <1>3, BeginsRight DEF WriteContents
<1>5. TypeOK'
  BY <1>1, <1>2, <1>3, <1>4 DEF TypeOK
<1>6. FlowInv'
  BY <1>1, <1>2, <1>4 DEF FlowInv
<1>7. BlankInv'
  BY <1>1, <1>2 DEF BlankInv
<1> QED
  BY <1>1, <1>5, <1>6, <1>7 DEF Inv

(* The empty sequence.                                                     *)
LEMMA NothingPlaced == Range(<<>>) = {} /\ <<>> \in Seq({}) /\ IsPlaced(<<>>) /\ InOrder(<<>>)
<1>1. Len(<<>>) = 0 /\ DOMAIN <<>> = {}
  OBVIOUS
<1>2. Range(<<>>) = {}
  BY <1>1 DEF Range
<1>3. <<>> \in Seq({})
  BY EmptySeq
<1>4. IsPlaced(<<>>)
  BY <1>2, <1>3 DEF IsPlaced
<1>5. InOrder(<<>>)
  BY <1>1 DEF InOrder
<1> QED
  BY <1>2, <1>3, <1>4, <1>5

(* No block counts as one without parts.                                   *)
LEMMA NothingIsABlock == IsBlock(Nothing)
<1>1. IsParts(<<>>)
  BY NothingPlaced DEF IsParts
<1> QED
  BY <1>1 DEF IsBlock, Nothing

(* A block ends; one without parts may leave a page that it moved down on. *)
LEMMA EndKeeps ==
    ASSUME Inv, End
    PROVE  Inv'
<1>1. TypeOK /\ FlowInv /\ BlankInv /\ layout # "bound"
  BY DEF Inv, End, TypeOK
<1>2. /\ block' = Nothing /\ cy' = cy + SpaceAfter(block.kind)
      /\ hollow' = IF atTop THEN hollow \cup {pages} ELSE hollow
      /\ UNCHANGED <<pages, atTop, placed, boxes, site, layout, starts, content, queue>>
  BY DEF End, passes
<1>3. cy \in Nat /\ cy' \in Nat /\ cy <= cy'
  <2>1. SpaceAfter(block.kind) \in Nat
    BY <1>1, Bounds DEF SpaceAfter
  <2> QED
    BY <1>1, <1>2, <2>1 DEF TypeOK
<1>4. IsBlock(Nothing)
  BY NothingIsABlock
<1>5. TypeOK'
  BY <1>1, <1>2, <1>3, <1>4 DEF TypeOK
<1>6. FlowInv'
  <2>1. \A p \in Range(placed) : p.page = pages => p.top + p.height <= cy'
    <3> SUFFICES ASSUME NEW p \in Range(placed), p.page = pages
                 PROVE  p.top + p.height <= cy'
      OBVIOUS
    <3>1. p.top + p.height <= cy
      BY <1>1 DEF FlowInv, StayAbove
    <3>2. p.top \in Nat /\ p.height \in Nat
      BY <1>1, PieceFields DEF TypeOK, IsPlaced
    <3> QED
      BY <1>3, <3>1, <3>2
  <2>2. StayAbove(placed, pages, cy')
    BY <1>1, <2>1 DEF FlowInv, StayAbove
  <2>3. Fit(placed, boxes, hollow')
    BY <1>1, <1>2 DEF FlowInv, Fit
  <2>4. atTop => pages \in hollow'
    BY <1>2
  <2> QED
    BY <1>1, <1>2, <2>2, <2>3, <2>4 DEF FlowInv
<1>7. BlankInv'
  BY <1>1, <1>2 DEF BlankInv, Holds, Pieces, End
<1> QED
  BY <1>1, <1>5, <1>6, <1>7 DEF Inv

(* A section starts a page, and the one before it is accounted for: by a   *)
(* part on it, or because the section had none.                            *)
LEMMA NextSectionKeeps ==
    ASSUME Inv, NextSection
    PROVE  Inv'
<1>1. TypeOK /\ FlowInv /\ BlankInv /\ layout = "pages" /\ block = Nothing
  BY DEF Inv, NextSection
<1>2. /\ pages' = pages + 1 /\ cy' = 0 /\ atTop' = TRUE
      /\ starts' = Append(starts, pages)
      /\ UNCHANGED <<site, layout, block, placed, boxes, hollow, content, queue>>
  BY DEF NextSection
<1>3. pages \in Nat \ {0} /\ starts \in Seq(Nat) /\ Len(starts) \in Nat
  BY <1>1, LenProperties DEF TypeOK
<1>4. /\ starts' \in Seq(Nat) /\ starts' # <<>>
      /\ Len(starts') = Len(starts) + 1
      /\ \A k \in 1 .. Len(starts) : starts'[k] = starts[k]
      /\ starts'[Len(starts) + 1] = pages
  BY <1>2, <1>3, AppendProperties
<1>5. DOMAIN starts = 1 .. Len(starts) /\ DOMAIN starts' = 1 .. Len(starts) + 1
  BY <1>3, <1>4, LenProperties
<1>6. TypeOK'
  <2>1. pages' \in Nat \ {0}
    BY <1>2, <1>3
  <2> QED
    BY <1>1, <1>2, <1>4, <2>1 DEF TypeOK
<1>7. StayAbove(placed, pages + 1, 0)
  <2>1. StayAbove(placed, pages, cy)
    BY <1>1 DEF FlowInv
  <2>2. \A p \in Range(placed) : p.page \in 1 .. pages
    BY <2>1 DEF StayAbove
  <2>3. \A p \in Range(placed) : p.page \in 1 .. (pages + 1) /\ p.page # pages + 1
    BY <1>3, <2>2
  <2> QED
    BY <2>1, <2>3 DEF StayAbove
<1>8. FlowInv'
  BY <1>1, <1>2, <1>7 DEF FlowInv
<1>9. BlankInv'
  <2>1. \A piece \in Range(placed) : piece.section \in Nat /\ piece.section <= Len(starts)
    BY <1>1, PieceFields DEF TypeOK, IsPlaced, BlankInv, Pieces
  <2>2. ASSUME NEW p \in 1 .. pages
        PROVE  Holds(placed, p)'
    <3>1. Holds(placed, p)
      BY <1>1, <2>2 DEF BlankInv, Nothing
    <3> QED
      BY <1>2, <1>3, <1>4, <1>5, <3>1 DEF Holds
  <2>3. \A piece \in Range(placed) : piece.section # Len(starts) + 1
    BY <1>3, <2>1
  <2>4. ASSUME NEW p, p = pages + 1
        PROVE  Holds(placed, p)'
    <3>1. Len(starts) + 1 \in DOMAIN starts' /\ starts'[Len(starts) + 1] = (pages + 1) - 1
      BY <1>3, <1>4, <1>5
    <3> QED
      BY <1>2, <2>3, <2>4, <3>1 DEF Holds
  <2>5. \A p \in 1 .. pages' : Holds(placed, p)'
    <3>1. \A p \in 1 .. pages + 1 : p \in 1 .. pages \/ p = pages + 1
      BY <1>3
    <3> QED
      BY <1>2, <2>2, <2>4, <3>1 DEF Holds
  <2>6. atTop' /\ pages' = starts'[Len(starts')] + 1
    BY <1>2, <1>4
  <2>7. \A piece \in Range(placed') : piece.section <= Len(starts')
    BY <1>2, <1>3, <1>4, <2>1
  <2> QED
    BY <2>5, <2>6, <2>7 DEF BlankInv, Pieces
<1> QED
  BY <1>1, <1>6, <1>8, <1>9 DEF Inv

(* The contents are two blocks.                                            *)
LEMMA TocIsBlocks ==
    ASSUME site \in Sites, NEW t
    PROVE  AreBlocks(TocSection(t))
<1> DEFINE title == <<Part(TitleHeight, 0)>>
           entries == [i \in DOMAIN site.toc |-> Entry(site.toc[i], t)]
           heading == [kind |-> "heading", parts |-> title]
           list == [kind |-> "toc", parts |-> entries]
<1>1. TitleHeight \in Nat /\ EntryHeight \in Nat /\ EntrySpace \in Nat /\ 0 \in Nat
  BY Bounds
<1>2. IsParts(title)
  <2>1. Range(title) = {Part(TitleHeight, 0)}
    <3>1. DOMAIN title = {1} /\ title[1] = Part(TitleHeight, 0)
      OBVIOUS
    <3> QED
      BY <3>1 DEF Range
  <2>2. title \in Seq(Range(title))
    BY <2>1
  <2>3. Part(TitleHeight, 0).height = TitleHeight /\ Part(TitleHeight, 0).gap = 0
    BY DEF Part
  <2> QED
    BY <1>1, <2>1, <2>2, <2>3 DEF IsParts
<1>3. IsParts(entries)
  <2>1. PICK n \in Nat : DOMAIN site.toc = 1 .. n
    <3>1. site.toc \in Seq([depth : Nat, page : STRING])
      BY PaperAssumption
    <3> QED
      BY <3>1, LenProperties
  <2>2. entries = [i \in 1 .. n |-> entries[i]]
    BY <2>1
  <2>3. entries \in Seq(Range(entries)) /\ Range(entries) = {entries[i] : i \in 1 .. n}
    BY <2>2, SequenceOf
  <2>4. ASSUME NEW e
        PROVE  Entry(e, t).height = EntryHeight /\ Entry(e, t).gap = EntrySpace
    BY DEF Entry, Part
  <2>5. \A i \in 1 .. n : entries[i].height \in Nat /\ entries[i].gap \in Nat
    <3>1. \A i \in 1 .. n : entries[i] = Entry(site.toc[i], t)
      BY <2>1
    <3> QED
      BY <1>1, <2>4, <3>1
  <2> QED
    BY <2>3, <2>5 DEF IsParts
<1> HIDE DEF title, entries
<1>4. IsBlock(heading) /\ IsBlock(list)
  BY <1>2, <1>3 DEF IsBlock
<1>5. TocSection(t) = <<heading, list>>
  BY DEF TocSection, title, entries
<1> HIDE DEF heading, list
<1>6. Range(<<heading, list>>) = {heading, list}
  <2>1. /\ DOMAIN <<heading, list>> = {1, 2}
        /\ <<heading, list>>[1] = heading /\ <<heading, list>>[2] = list
    OBVIOUS
  <2> QED
    BY <2>1 DEF Range
<1>7. <<heading, list>> \in Seq({heading, list})
  OBVIOUS
<1> QED
  BY <1>4, <1>5, <1>6, <1>7 DEF AreBlocks

(* The contents start on pages of their own.                               *)
LEMMA LayContentsKeeps ==
    ASSUME Inv, block = Nothing, NEW t, LayContents(t), layout' = "contents",
           UNCHANGED <<site, block, starts>>,
           /\ content'.pages \in Nat /\ IsPlaced(content'.placed)
           /\ \A box \in content'.boxes : IsBox(box)
           /\ InOrder(content'.placed)
           /\ \A p \in Range(content'.placed) : 1 <= p.page
           /\ Fit(content'.placed, content'.boxes, content'.hollow)
    PROVE  Inv'
<1>1. TypeOK
  BY DEF Inv
<1>2. /\ queue' = TocSection(t)
      /\ pages' = 1 /\ cy' = 0 /\ atTop' = TRUE
      /\ placed' = <<>> /\ boxes' = {} /\ hollow' = {}
  BY DEF LayContents, NewPages
<1>3. TypeOK'
  <2>1. AreBlocks(queue')
    BY <1>1, <1>2, TocIsBlocks DEF TypeOK
  <2>2. IsPlaced(placed') /\ \A box \in boxes' : IsBox(box)
    BY <1>2, NothingPlaced
  <2> QED
    BY <1>1, <1>2, <2>1, <2>2 DEF TypeOK
<1>4. FlowInv'
  BY <1>2, NothingPlaced DEF FlowInv, StayAbove, Fit
<1>5. BlankInv'
  BY DEF BlankInv
<1> QED
  BY <1>1, <1>3, <1>4, <1>5 DEF Inv

(* The contents are put before the rest, whose pages move by as many: both *)
(* are in order, and all of the rest comes later.                          *)
LEMMA BindKeeps ==
    ASSUME Inv, Bind
    PROVE  Inv'
<1> DEFINE behind == [i \in DOMAIN content.placed |-> Behind(content.placed[i])]
<1>1. TypeOK /\ FlowInv /\ layout = "contents" /\ block = Nothing
  BY DEF Inv, Bind, ContentsLaidOut
<1>2. /\ layout' = "bound"
      /\ pages' = pages + content.pages
      /\ placed' = placed \o behind
      /\ boxes' = {Behind(box) : box \in content.boxes}
      /\ hollow' = hollow \cup {p + pages : p \in content.hollow}
      /\ UNCHANGED <<site, block, cy, atTop, starts, content, queue>>
  BY DEF Bind
<1>3. /\ pages \in Nat \ {0} /\ content.pages \in Nat
      /\ IsPlaced(placed) /\ IsPlaced(content.placed)
      /\ \A box \in content.boxes : IsBox(box)
      /\ InOrder(placed) /\ InOrder(content.placed)
      /\ \A p \in Range(placed) : p.page \in 1 .. pages
      /\ \A p \in Range(content.placed) : 1 <= p.page
      /\ Fit(placed, boxes, hollow) /\ Fit(content.placed, content.boxes, content.hollow)
  BY <1>1 DEF TypeOK, FlowInv, StayAbove
<1>4. ASSUME NEW p, IsPiece(p)
      PROVE  /\ IsPiece(Behind(p)) /\ Behind(p).page = p.page + pages
             /\ Behind(p).top = p.top /\ Behind(p).height = p.height
  <2>1. PICK page \in Nat, top \in Nat, height \in Nat, section \in Nat :
            \E number, leads :
                p = [page |-> page, top |-> top, height |-> height, section |-> section,
                     number |-> number, leads |-> leads]
    BY <1>4 DEF IsPiece
  <2>2. PICK number, leads :
            p = [page |-> page, top |-> top, height |-> height, section |-> section,
                 number |-> number, leads |-> leads]
    BY <2>1
  <2>3. Behind(p) = [page |-> page + pages, top |-> top, height |-> height,
                     section |-> section, number |-> number, leads |-> leads]
    BY <2>2 DEF Behind
  <2>4. page + pages \in Nat
    BY <1>3
  <2>5. IsPiece(Behind(p))
    BY <2>3, <2>4 DEF IsPiece
  <2>6. p.page = page /\ p.top = top /\ p.height = height
    BY <2>2
  <2>7. /\ Behind(p).page = page + pages /\ Behind(p).top = top
        /\ Behind(p).height = height
    BY <2>3
  <2> QED
    BY <2>5, <2>6, <2>7
<1>5. ASSUME NEW box, IsBox(box)
      PROVE  /\ IsBox(Behind(box)) /\ Behind(box).page = box.page + pages
             /\ Behind(box).top = box.top /\ Behind(box).lines = box.lines
  <2>1. PICK page, top, lines \in Nat : box = [page |-> page, top |-> top, lines |-> lines]
    BY <1>5 DEF IsBox
  <2>2. Behind(box) = [page |-> page + pages, top |-> top, lines |-> lines]
    BY <2>1 DEF Behind
  <2>3. page + pages \in Nat
    BY <1>3
  <2> QED
    BY <2>1, <2>2, <2>3 DEF IsBox
<1> DEFINE n == Len(content.placed)
<1>6. /\ n \in Nat /\ DOMAIN content.placed = 1 .. n
      /\ \A i \in 1 .. n : content.placed[i] \in Range(content.placed)
                           /\ IsPiece(content.placed[i])
  <2>1. n \in Nat /\ DOMAIN content.placed = 1 .. n
        /\ \A i \in 1 .. n : content.placed[i] \in Range(content.placed)
    BY <1>3, PlacedIs
  <2> QED
    BY <1>3, <2>1 DEF IsPlaced
<1>7. /\ behind \in Seq(Range(behind)) /\ Len(behind) = n /\ DOMAIN behind = 1 .. n
      /\ Range(behind) = {behind[i] : i \in 1 .. n}
      /\ \A i \in 1 .. n : behind[i] = Behind(content.placed[i])
  <2>1. behind = [i \in 1 .. n |-> behind[i]]
    BY <1>6
  <2>2. \A i \in 1 .. n : behind[i] = Behind(content.placed[i])
    BY <1>6
  <2> HIDE DEF behind, n
  <2> QED
    BY <1>6, <2>1, <2>2, SequenceOf
<1> HIDE DEF behind
<1>8. ASSUME NEW i \in 1 .. n
      PROVE  /\ IsPiece(behind[i]) /\ behind[i].page = content.placed[i].page + pages
             /\ behind[i].top = content.placed[i].top
             /\ behind[i].height = content.placed[i].height
  BY <1>4, <1>6, <1>7
<1>9. IsPlaced(behind)
  BY <1>7, <1>8 DEF IsPlaced
<1>10. ASSUME NEW i \in 1 .. n
       PROVE  /\ content.placed[i].page \in Nat /\ 1 <= content.placed[i].page
              /\ content.placed[i].top \in Nat /\ content.placed[i].height \in Nat
  BY <1>3, <1>6, PieceFields
<1>11. InOrder(placed')
  <2> DEFINE m == Len(placed)
             S == Range(placed) \cup Range(behind)
  <2>1. placed \in Seq(S) /\ behind \in Seq(S)
    BY <1>3, <1>7, SeqMonotonic DEF IsPlaced
  <2> DEFINE bound == placed \o behind
  <2>9. /\ bound \in Seq(S) /\ Len(bound) = Len(placed) + Len(behind)
        /\ \A i \in 1 .. Len(placed) + Len(behind) :
              bound[i] = IF i <= Len(placed) THEN placed[i] ELSE behind[i - Len(placed)]
    BY <2>1, ConcatProperties
  <2>10. placed' = bound
    BY <1>2
  <2> HIDE DEF bound
  <2>2. /\ placed' \in Seq(S) /\ Len(placed') = m + n
        /\ \A i \in 1 .. m + n : placed'[i] = IF i <= m THEN placed[i] ELSE behind[i - m]
    BY <1>7, <2>9, <2>10
  <2>3. m \in Nat /\ DOMAIN placed = 1 .. m /\ DOMAIN placed' = 1 .. m + n
    BY <2>1, <2>2, LenProperties
  <2> HIDE DEF m, n
  <2> SUFFICES ASSUME NEW i \in 1 .. m + n, i < m + n
               PROVE  \/ placed'[i].page < placed'[i + 1].page
                      \/ /\ placed'[i].page = placed'[i + 1].page
                         /\ placed'[i].top + placed'[i].height <= placed'[i + 1].top
    BY <2>2, <2>3 DEF InOrder
  <2>4. i \in Nat /\ m \in Nat /\ n \in Nat
    BY <1>6, <2>3
  <2>5. CASE i < m
    <3>1. placed'[i] = placed[i] /\ placed'[i + 1] = placed[i + 1] /\ i \in 1 .. m
      BY <2>2, <2>4, <2>5
    <3> QED
      BY <1>3, <2>3, <2>5, <3>1 DEF InOrder, m
  <2>6. CASE i = m
    <3>1. placed'[i] = placed[i] /\ placed'[i + 1] = behind[1] /\ i \in 1 .. m /\ 1 \in 1 .. n
      BY <2>2, <2>4, <2>6
    <3>2. placed[i].page \in 1 .. pages
      BY <1>3, <2>3, <3>1 DEF Range
    <3>3. behind[1].page = content.placed[1].page + pages
          /\ content.placed[1].page \in Nat /\ 1 <= content.placed[1].page
      BY <1>8, <1>10, <3>1
    <3> QED
      BY <1>3, <3>1, <3>2, <3>3
  <2>7. CASE i > m
    <3>1. /\ placed'[i] = behind[i - m] /\ placed'[i + 1] = behind[(i - m) + 1]
          /\ i - m \in 1 .. n /\ i - m < n /\ (i - m) + 1 \in 1 .. n
      BY <2>2, <2>4, <2>7
    <3> DEFINE j == i - m
               p == content.placed[j]
               q == content.placed[j + 1]
    <3>2. p.page < q.page \/ (p.page = q.page /\ p.top + p.height <= q.top)
      BY <1>3, <1>6, <3>1 DEF InOrder, n
    <3>3. /\ behind[j].page = p.page + pages /\ behind[j].top = p.top
          /\ behind[j].height = p.height
          /\ behind[j + 1].page = q.page + pages /\ behind[j + 1].top = q.top
      BY <1>8, <3>1
    <3>4. p.page \in Nat /\ q.page \in Nat
      BY <1>10, <3>1
    <3>5. placed'[i] = behind[j] /\ placed'[i + 1] = behind[j + 1]
      BY <3>1
    <3> HIDE DEF j, p, q
    <3>6. \/ behind[j].page < behind[j + 1].page
          \/ /\ behind[j].page = behind[j + 1].page
             /\ behind[j].top + behind[j].height <= behind[j + 1].top
      BY <1>3, <3>2, <3>3, <3>4
    <3> QED
      BY <3>5, <3>6
  <2>8. i < m \/ i = m \/ i > m
    BY <2>4
  <2> QED
    BY <2>5, <2>6, <2>7, <2>8
<1>12. IsPlaced(placed') /\ Range(placed') = Range(placed) \cup Range(behind)
  <2> DEFINE S == Range(placed) \cup Range(behind)
  <2>1. placed \in Seq(S) /\ behind \in Seq(S)
    BY <1>3, <1>7, SeqMonotonic DEF IsPlaced
  <2>2. placed' \in Seq(S)
    BY <1>2, <2>1, ConcatProperties
  <2>3. Range(placed') = S
    BY <1>2, <2>1, RangeConcatenation
  <2> QED
    BY <1>3, <1>9, <2>2, <2>3 DEF IsPlaced
<1>13. Fit(placed', boxes', hollow')
  <2>1. ASSUME NEW x \in Range(behind), x.height <= Height
        PROVE  x.page \in hollow' \/ x.top + x.height <= Height
    <3>1. PICK i \in 1 .. n : x = behind[i]
      BY <1>7
    <3>2. \/ content.placed[i].page \in content.hollow
          \/ content.placed[i].top + content.placed[i].height <= Height
      BY <1>3, <1>6, <1>8, <2>1, <3>1 DEF Fit
    <3> QED
      BY <1>2, <1>8, <3>1, <3>2
  <2>2. ASSUME NEW b \in boxes'
        PROVE  b.page \in hollow' \/ b.top + BoxHeight(b.lines) <= Height
    <3>1. PICK box \in content.boxes : b = Behind(box)
      BY <1>2
    <3>2. box.page \in content.hollow \/ box.top + BoxHeight(box.lines) <= Height
      BY <1>3 DEF Fit
    <3> QED
      BY <1>2, <1>3, <1>5, <3>1, <3>2
  <2> QED
    BY <1>2, <1>3, <1>12, <2>1, <2>2 DEF Fit
<1>14. TypeOK'
  <2>1. \A b \in boxes' : IsBox(b)
    BY <1>2, <1>3, <1>5
  <2>2. pages' \in Nat \ {0}
    BY <1>2, <1>3
  <2> QED
    BY <1>1, <1>2, <1>12, <2>1, <2>2 DEF TypeOK
<1>15. FlowInv'
  BY <1>2, <1>11, <1>13 DEF FlowInv
<1>16. BlankInv'
  BY <1>2 DEF BlankInv
<1> QED
  BY <1>1, <1>14, <1>15, <1>16 DEF Inv
-----------------------------------------------------------------------------
(* The start.                                                              *)
LEMMA InitIsRight ==
    ASSUME LayoutInit
    PROVE  Inv
<1>1. TypeOK
  <2>1. <<0>> \in Seq(Nat) /\ <<0>> # <<>>
    OBVIOUS
  <2>2. IsBlock(Nothing) /\ AreBlocks(<<>>) /\ IsPlaced(<<>>)
    BY NothingIsABlock, NothingPlaced DEF AreBlocks
  <2> QED
    BY <2>1, <2>2 DEF LayoutInit, TypeOK
<1>2. FlowInv
  BY NothingPlaced DEF LayoutInit, FlowInv, StayAbove, Fit
<1>3. BlankInv
  <2>1. Len(<<0>>) = 1 /\ DOMAIN <<0>> = {1} /\ <<0>>[1] = 0
    OBVIOUS
  <2> QED
    BY <2>1, NothingPlaced DEF LayoutInit, BlankInv, Holds, Pieces
<1> QED
  BY <1>1, <1>2, <1>3 DEF Inv

(* Every step.                                                             *)
LEMMA NextKeeps ==
    ASSUME Inv, [LayoutNext]_paginationVars
    PROVE  Inv'
<1>1. CASE \E b \in PageBlocks : WriteBlock(b)
  BY <1>1, WriteBlockKeeps
<1>2. CASE PlacePart
  BY <1>2, PlacePartKeeps
<1>3. CASE PlaceCode
  BY <1>3, PlaceCodeKeeps
<1>4. CASE End
  BY <1>4, EndKeeps
<1>5. CASE NextSection
  BY <1>5, NextSectionKeeps
<1>6. CASE BindPages
  <2>1. /\ layout = "pages" /\ block = Nothing /\ layout' = "bound"
        /\ UNCHANGED <<site, block, flow, starts, content, queue>>
    BY <1>6 DEF BindPages, LaidOut
  <2>2. TypeOK'
    BY <2>1 DEF Inv, TypeOK, flow
  <2>3. FlowInv' /\ BlankInv'
    BY <2>1 DEF Inv, FlowInv, StayAbove, BlankInv, flow
  <2> QED
    BY <2>2, <2>3 DEF Inv
<1>7. CASE StartContents
  <2>1. /\ layout = "pages" /\ block = Nothing /\ layout' = "contents"
        /\ content' = [pages |-> pages, placed |-> placed, boxes |-> boxes, hollow |-> hollow]
        /\ LayContents(1)
        /\ UNCHANGED <<site, block, starts>>
    BY <1>7 DEF StartContents, LaidOut
  <2>2. /\ content'.pages = pages /\ content'.placed = placed
        /\ content'.boxes = boxes /\ content'.hollow = hollow
    BY <2>1
  <2>3. /\ pages \in Nat /\ IsPlaced(placed) /\ \A box \in boxes : IsBox(box)
        /\ InOrder(placed) /\ Fit(placed, boxes, hollow)
        /\ \A p \in Range(placed) : p.page \in 1 .. pages
    BY <2>1 DEF Inv, TypeOK, FlowInv, StayAbove
  <2>4. \A p \in Range(placed) : 1 <= p.page
    BY <2>3
  <2> QED
    BY <2>1, <2>2, <2>3, <2>4, LayContentsKeeps
<1>8. CASE WriteContents
  BY <1>8, WriteContentsKeeps
<1>9. CASE RedoContents
  <2>1. /\ layout = "contents" /\ block = Nothing /\ layout' = "contents"
        /\ LayContents(pages)
        /\ UNCHANGED <<site, block, starts, content>>
    BY <1>9 DEF RedoContents, ContentsLaidOut
  <2>2. /\ content.pages \in Nat /\ IsPlaced(content.placed)
        /\ \A box \in content.boxes : IsBox(box)
        /\ InOrder(content.placed)
        /\ \A p \in Range(content.placed) : 1 <= p.page
        /\ Fit(content.placed, content.boxes, content.hollow)
    BY <2>1 DEF Inv, TypeOK, FlowInv
  <2> QED
    BY <2>1, <2>2, LayContentsKeeps
<1>10. CASE Bind
  BY <1>10, BindKeeps
<1>11. CASE UNCHANGED paginationVars
  <2>1. UNCHANGED <<site, layout, block, pages, cy, atTop, placed, boxes, hollow, starts,
                    content, queue>>
    BY <1>11 DEF paginationVars, passes, flow
  <2>2. TypeOK'
    BY <2>1 DEF Inv, TypeOK
  <2>3. FlowInv'
    BY <2>1 DEF Inv, FlowInv
  <2>4. BlankInv'
    BY <2>1 DEF Inv, BlankInv, Holds, Pieces
  <2> QED
    BY <2>2, <2>3, <2>4 DEF Inv
<1> QED
  BY <1>1, <1>2, <1>3, <1>4, <1>5, <1>6, <1>7, <1>8, <1>9, <1>10, <1>11 DEF LayoutNext

(* The invariant implies what the run checks.                              *)
LEMMA InvMeans ==
    ASSUME Inv
    PROVE  FlowFits
<1>1. InOrder(placed) /\ Fit(placed, boxes, hollow)
  BY DEF Inv, FlowInv, StayAbove
<1>2. NothingIsCut
  BY <1>1 DEF NothingIsCut, PartsInOrder, InOrder, Fit, Fits, Pieces
<1>3. NoBlankPages
  BY DEF Inv, BlankInv, Holds, Pieces, NoBlankPages
<1> QED
  BY <1>2, <1>3 DEF FlowFits

(* On any paper with room for a line of code, and for any blocks and       *)
(* sites, the parts placed by place_block, place_code and place_contents   *)
(* are in order, nothing that fits on a page runs over its end except      *)
(* below a block without parts, and no page is opened for nothing          *)
(* (pdf/layout.rs).                                                        *)
THEOREM FlowAlwaysFits == LayoutSpec => []FlowFits
<1>1. LayoutInit => Inv
  BY InitIsRight
<1>2. Inv /\ [LayoutNext]_paginationVars => Inv'
  BY NextKeeps
<1>3. Inv => FlowFits
  BY InvMeans
<1> QED
  BY <1>1, <1>2, <1>3, PTL DEF LayoutSpec
-----------------------------------------------------------------------------
(* The contents.                                                           *)

(* The pieces of the first pass: sections in order, each on the pages      *)
(* between its start and the next one, and its first piece on the page     *)
(* after its start.                                                        *)
SectionsRight(s) ==
    \A i \in DOMAIN s :
        /\ s[i].section \in DOMAIN starts /\ s[i].leads = NoPage
        /\ starts[s[i].section] < s[i].page
        /\ s[i].section < Len(starts) => s[i].page <= starts[s[i].section + 1]
        /\ \A h \in 1 .. i : s[h].section <= s[i].section
        /\ i = 1 \/ s[i - 1].section # s[i].section => s[i].page = starts[s[i].section] + 1

(* Sections start one after the other.                                     *)
StartsRise == \A j, k \in DOMAIN starts : j <= k => starts[j] <= starts[k]

(* The two blocks of the contents.                                         *)
Title == [kind |-> "heading", parts |-> <<Part(TitleHeight, 0)>>]
Entries == [i \in DOMAIN site.toc |-> Entry(site.toc[i], guess)]
List == [kind |-> "toc", parts |-> Entries]

(* Where an entry ends, from where the one before it did: the page and the *)
(* height used.  A run is what the entries make of the first page when k   *)
(* of them are placed.                                                     *)
NextEntry(at) ==
    IF at[2] + EntryHeight > Height THEN <<at[1] + 1, EntryHeight + EntrySpace>>
    ELSE <<at[1], at[2] + EntryHeight + EntrySpace>>
IsRun(f, k) ==
    /\ f[0] = <<1, TitleHeight + AfterHeading + Space>>
    /\ \A i \in 1 .. k : f[i] = NextEntry(f[i - 1])
EntriesFill(k, page, y) == \E f : IsRun(f, k) /\ f[k] = <<page, y>>
EntriesEnd(page) == \E y : EntriesFill(Len(site.toc), page, y)

(* The stages of a round: the title is to come, begun, placed and ended,   *)
(* then some of the entries are placed, and then all.                      *)
TitleToCome ==
    /\ queue = <<Title, List>> /\ block = Nothing
    /\ placed = <<>> /\ pages = 1 /\ cy = 0 /\ atTop
TitleBegun ==
    /\ queue = <<List>> /\ block = Title
    /\ placed = <<>> /\ pages = 1 /\ cy = 0 /\ atTop
TitlePlaced ==
    /\ queue = <<List>> /\ block = [kind |-> "heading", parts |-> <<>>]
    /\ Len(placed) = 1 /\ pages = 1 /\ cy = TitleHeight /\ ~atTop
ListToCome ==
    /\ queue = <<List>> /\ block = Nothing
    /\ Len(placed) = 1 /\ pages = 1 /\ cy = TitleHeight + AfterHeading /\ ~atTop
EntryToCome(k) ==
    /\ queue = <<>>
    /\ block = [kind |-> "toc", parts |-> SubSeq(Entries, k + 1, Len(site.toc))]
    /\ Len(placed) = 1 + k /\ EntriesFill(k, pages, cy) /\ ~atTop
AllPlaced ==
    /\ queue = <<>> /\ block = Nothing
    /\ Len(placed) = 1 + Len(site.toc) /\ EntriesEnd(pages)
Stage ==
    \/ TitleToCome \/ TitleBegun \/ TitlePlaced \/ ListToCome
    \/ \E k \in 0 .. Len(site.toc) : EntryToCome(k)
    \/ AllPlaced

(* A piece of the contents leads to a page of the site, under the number   *)
(* it has if the contents take guess pages.                                *)
TrueLink(p) ==
    /\ p.section = 0
    /\ p.leads # NoPage => p.leads \in Range(Ordered) /\ p.number = Leads(guess + 1)[p.leads]

(* The first pass.                                                         *)
WhilePages ==
    /\ rounds = 0
    /\ starts[Len(starts)] < pages
    /\ SectionsRight(placed)
    /\ \A part \in Range(block.parts) : part.page = NoPage

(* The rounds.  From the second one the guess is where a round ends.       *)
WhileContents ==
    /\ rounds \in Nat \ {0}
    /\ rounds > 1 => EntriesEnd(guess)
    /\ Len(starts) = Len(Ordered) /\ SectionsRight(content.placed)
    /\ \A p \in Pieces : TrueLink(p)
    /\ Stage

(* ContentsAreTrue is inductive with these.                                *)
ContentsInv ==
    /\ StartsRise
    /\ layout = "pages" => WhilePages
    /\ layout = "contents" => WhileContents
    /\ ContentsAreTrue
-----------------------------------------------------------------------------
(* A set of numbers has a least one: what takes the place of induction in  *)
(* the proofs about sequences of any length.                               *)
LEMMA LeastNumber ==
    ASSUME NEW T, T \subseteq Nat, T # {}
    PROVE  \E i \in T : \A j \in T : i <= j
<1>1. PICK i \in T : \A j \in T : ~(<<j, i>> \in OpToRel(<, Nat))
  BY NatLessThanWellFounded, WFMin
<1>2. ASSUME NEW j \in T
      PROVE  i <= j
  <2>1. j \in Nat /\ i \in Nat
    OBVIOUS
  <2>2. ~(j < i)
    BY <1>1, <2>1 DEF OpToRel
  <2> QED
    BY <2>1, <2>2
<1> QED
  BY <1>2

(* No name stands twice.                                                   *)
NoRepeats(names) == \A i, j \in DOMAIN names : names[i] = names[j] => i = j

(* Push adds a page of the site that is not there yet, and nothing else.   *)
LEMMA PushAdds ==
    ASSUME NEW S, NEW s, NEW names \in Seq(S), NoRepeats(names), NEW name \in S
    PROVE  /\ Push(s, names, name) \in Seq(S)
           /\ NoRepeats(Push(s, names, name))
           /\ Range(Push(s, names, name)) = Range(names) \cup ({name} \cap Range(s.pages))
<1>1. CASE name \in Range(s.pages) /\ name \notin Range(names)
  <2> DEFINE t == Append(names, name)
             l == Len(names)
  <2>1. Push(s, names, name) = t
    BY <1>1 DEF Push
  <2>2. /\ t \in Seq(S) /\ Len(t) = l + 1
        /\ \A i \in 1 .. l : t[i] = names[i]
        /\ t[l + 1] = name
    <3>1. /\ Append(names, name) \in Seq(S)
          /\ Len(Append(names, name)) = Len(names) + 1
          /\ \A i \in 1 .. Len(names) : Append(names, name)[i] = names[i]
          /\ Append(names, name)[Len(names) + 1] = name
      BY AppendProperties
    <3> QED
      BY <3>1
  <2>3. l \in Nat /\ DOMAIN names = 1 .. l /\ DOMAIN t = 1 .. l + 1
    BY <2>2, LenProperties
  <2> HIDE DEF t, l
  <2>4. \A i \in 1 .. l + 1 : i \in 1 .. l \/ i = l + 1
    BY <2>3
  <2>5. Range(t) = Range(names) \cup {name}
    <3>1. Range(t) \subseteq Range(names) \cup {name}
      BY <2>2, <2>3, <2>4 DEF Range
    <3>2. l + 1 \in 1 .. l + 1 /\ \A i \in 1 .. l : i \in 1 .. l + 1
      BY <2>3
    <3>3. Range(names) \cup {name} \subseteq Range(t)
      BY <2>2, <2>3, <3>2 DEF Range
    <3> QED
      BY <3>1, <3>3
  <2>6. NoRepeats(t)
    <3> SUFFICES ASSUME NEW i \in 1 .. l + 1, NEW j \in 1 .. l + 1, t[i] = t[j]
                 PROVE  i = j
      BY <2>3 DEF NoRepeats
    <3>1. \A k \in 1 .. l : t[k] # name
      BY <1>1, <2>2, <2>3 DEF Range
    <3>2. CASE i \in 1 .. l /\ j \in 1 .. l
      BY <2>2, <2>3, <3>2 DEF NoRepeats
    <3> QED
      BY <2>2, <2>4, <3>1, <3>2
  <2> QED
    BY <1>1, <2>1, <2>2, <2>5, <2>6
<1>2. CASE ~(name \in Range(s.pages) /\ name \notin Range(names))
  <2>1. Push(s, names, name) = names
    BY <1>2 DEF Push
  <2> QED
    BY <1>2, <2>1
<1> QED
  BY <1>1, <1>2

(* order_site_pages is the function that its equations define.             *)
LEMMA OrderEquation ==
    ASSUME NEW s, Len(Listed(s)) \in Nat
    PROVE  \E f : /\ f[0] = <<>>
                  /\ \A k \in 1 .. Len(Listed(s)) : f[k] = Push(s, f[k - 1], Listed(s)[k])
                  /\ OrderSitePages(s) = f[Len(Listed(s))]
<1> DEFINE L == Len(Listed(s))
           b(names, k) == Push(s, names, Listed(s)[k])
           Solves(f, l) == f = [k \in 0 .. l |-> IF k = 0 THEN <<>> ELSE b(f[k - 1], k)]
           failing == {l \in 0 .. L : ~ \E f : Solves(f, l)}
<1> HIDE DEF b
<1>1. failing = {}
  <2> SUFFICES ASSUME failing # {}
               PROVE  FALSE
    OBVIOUS
  <2>1. failing \subseteq Nat
    OBVIOUS
  <2>2. PICK l \in failing : \A j \in failing : l <= j
    <3> HIDE DEF failing
    <3> QED
      BY <2>1, LeastNumber
  <2>3. CASE l = 0
    <3> DEFINE f == [k \in 0 .. 0 |-> <<>>]
    <3>1. Solves(f, 0)
      OBVIOUS
    <3> HIDE DEF f
    <3> QED
      BY <2>2, <2>3, <3>1
  <2>4. CASE l # 0
    <3>1. l \in Nat /\ l - 1 \in 0 .. L /\ ~(l <= l - 1)
      BY <2>2, <2>4
    <3>2. \E f : Solves(f, l - 1)
      <4>1. l - 1 \notin failing
        BY <2>2, <3>1
      <4> QED
        BY <3>1, <4>1
    <3>3. PICK f : Solves(f, l - 1)
      BY <3>2
    <3> DEFINE g == [k \in 0 .. l |-> IF k = l THEN b(f[l - 1], l) ELSE f[k]]
    <3>4. ASSUME NEW k \in 0 .. l
          PROVE  g[k] = IF k = 0 THEN <<>> ELSE b(g[k - 1], k)
      <4>1. CASE k = 0
        <5>1. g[k] = f[k] /\ 0 \in 0 .. l - 1
          BY <2>4, <3>1, <4>1
        <5> QED
          BY <3>3, <4>1, <5>1
      <4>2. CASE k # 0 /\ k = l
        <5>1. g[k] = b(f[l - 1], l) /\ g[k - 1] = f[k - 1]
          BY <3>1, <4>2
        <5> QED
          BY <4>2, <5>1
      <4>3. CASE k # 0 /\ k # l
        <5>1. g[k] = f[k] /\ g[k - 1] = f[k - 1] /\ k \in 0 .. l - 1
          BY <3>1, <4>3
        <5>2. f[k] = b(f[k - 1], k)
          BY <3>3, <4>3, <5>1
        <5> QED
          BY <4>3, <5>1, <5>2
      <4> QED
        BY <4>1, <4>2, <4>3
    <3>5. g = [k \in 0 .. l |-> g[k]]
      OBVIOUS
    <3> HIDE DEF g
    <3>6. Solves(g, l)
      BY <3>4, <3>5
    <3> QED
      BY <2>2, <3>6
  <2> QED
    BY <2>3, <2>4
<1>2. \E f : Solves(f, L)
  <2>1. L \in 0 .. L
    OBVIOUS
  <2> QED
    BY <1>1, <2>1
<1> DEFINE order == CHOOSE f : Solves(f, L)
<1>3. OrderSitePages(s) = order[L]
  BY DEF OrderSitePages, b
<1>4. Solves(order, L)
  <2> HIDE DEF Solves
  <2> QED
    BY <1>2
<1> HIDE DEF order
<1>5. order[0] = <<>> /\ \A k \in 1 .. L : order[k] = b(order[k - 1], k)
  <2>1. \A k \in 0 .. L : order[k] = IF k = 0 THEN <<>> ELSE b(order[k - 1], k)
    BY <1>4
  <2>2. 0 \in 0 .. L /\ \A k \in 1 .. L : k \in 0 .. L /\ k # 0
    OBVIOUS
  <2> QED
    BY <2>1, <2>2
<1> QED
  BY <1>3, <1>5 DEF b

(* What is listed are names, and all pages of the site are among them.     *)
LEMMA ListedNames ==
    ASSUME NEW s \in Sites
    PROVE  /\ Listed(s) \in Seq(STRING) /\ Len(Listed(s)) \in Nat
           /\ Range(s.pages) \subseteq Range(Listed(s))
<1> DEFINE start == IF s.start = 0 THEN <<>> ELSE <<s.pages[s.start]>>
           names == [i \in DOMAIN s.toc |-> s.toc[i].page]
<1>1. /\ s.pages \in Seq(STRING) /\ s.toc \in Seq([depth : Nat, page : STRING])
      /\ s.start \in Nat /\ s.start <= Len(s.pages)
  BY PaperAssumption
<1>2. start \in Seq(STRING)
  <2>1. CASE s.start = 0
    BY <2>1
  <2>2. CASE s.start # 0
    <3>1. s.start \in 1 .. Len(s.pages)
      BY <1>1, <2>2, LenProperties
    <3>2. s.pages[s.start] \in STRING
      BY <1>1, <3>1, ElementOfSeq
    <3> QED
      BY <2>2, <3>2
  <2> QED
    BY <2>1, <2>2
<1>3. names \in Seq(STRING)
  <2>1. PICK n \in Nat : DOMAIN s.toc = 1 .. n /\ n = Len(s.toc)
    BY <1>1, LenProperties
  <2>2. \A i \in 1 .. n : s.toc[i].page \in STRING
    <3>1. \A i \in 1 .. n : s.toc[i] \in [depth : Nat, page : STRING]
      BY <1>1, <2>1, ElementOfSeq
    <3> QED
      BY <3>1
  <2>3. names \in [1 .. n -> STRING]
    BY <2>1, <2>2
  <2> QED
    BY <2>3, SeqDef
<1> HIDE DEF start, names
<1>4. (start \o names) \in Seq(STRING)
  BY <1>2, <1>3, ConcatProperties
<1> DEFINE first == start \o names
           authored == s.pages
<1>5. Listed(s) = first \o authored
  BY DEF Listed, start, names
<1> HIDE DEF first, authored
<1>6. first \in Seq(STRING) /\ authored \in Seq(STRING) /\ authored = s.pages
  BY <1>1, <1>4 DEF first, authored
<1>7. first \o authored \in Seq(STRING)
  BY <1>6, ConcatProperties
<1>8. Range(first \o authored) = Range(first) \cup Range(authored)
  BY <1>6, RangeConcatenation
<1>9. Listed(s) \in Seq(STRING) /\ Range(s.pages) \subseteq Range(Listed(s))
  BY <1>5, <1>6, <1>7, <1>8
<1> QED
  BY <1>9, LenProperties

(* order_site_pages lists every page of the site once, wherever its start  *)
(* page and its toc are.                                                   *)
LEMMA OrderKeepsPages ==
    ASSUME NEW s \in Sites
    PROVE  /\ OrderSitePages(s) \in Seq(STRING)
           /\ NoRepeats(OrderSitePages(s))
           /\ Range(OrderSitePages(s)) = Range(s.pages)
<1> DEFINE N == Listed(s)
           L == Len(N)
<1>1. N \in Seq(STRING) /\ L \in Nat /\ Range(s.pages) \subseteq Range(N)
  BY ListedNames
<1>2. PICK f : /\ f[0] = <<>>
               /\ \A k \in 1 .. L : f[k] = Push(s, f[k - 1], N[k])
               /\ OrderSitePages(s) = f[L]
  BY <1>1, OrderEquation
<1>3. \A k \in 1 .. L : N[k] \in STRING
  BY <1>1, ElementOfSeq
<1>4. Range(N) = {N[i] : i \in 1 .. L}
  BY <1>1, RangeEquality
<1>10. \A names, name : names \in Seq(STRING) /\ NoRepeats(names) /\ name \in STRING =>
          /\ Push(s, names, name) \in Seq(STRING) /\ NoRepeats(Push(s, names, name))
          /\ Range(Push(s, names, name)) = Range(names) \cup ({name} \cap Range(s.pages))
  <2> HIDE DEF L, N
  <2> SUFFICES ASSUME NEW names, NEW name,
                      names \in Seq(STRING), NoRepeats(names), name \in STRING
               PROVE  /\ Push(s, names, name) \in Seq(STRING)
                      /\ NoRepeats(Push(s, names, name))
                      /\ Range(Push(s, names, name)) =
                            Range(names) \cup ({name} \cap Range(s.pages))
    OBVIOUS
  <2>1. Push(s, names, name) \in Seq(STRING)
    BY PushAdds
  <2>2. NoRepeats(Push(s, names, name))
    BY PushAdds
  <2>3. Range(Push(s, names, name)) = Range(names) \cup ({name} \cap Range(s.pages))
    BY PushAdds
  <2> QED
    BY <2>1, <2>2, <2>3
<1> HIDE DEF L, N
<1> DEFINE Good(k) == /\ f[k] \in Seq(STRING) /\ NoRepeats(f[k])
                      /\ Range(f[k]) = {N[i] : i \in 1 .. k} \cap Range(s.pages)
           failing == {k \in 0 .. L : ~Good(k)}
<1>5. Good(0)
  <2>1. <<>> \in Seq(STRING) /\ DOMAIN <<>> = {}
    OBVIOUS
  <2>2. {N[i] : i \in 1 .. 0} = {}
    OBVIOUS
  <2> QED
    BY <1>2, <2>1, <2>2, NothingPlaced DEF NoRepeats
<1>6. ASSUME NEW k \in 1 .. L, Good(k - 1)
      PROVE  Good(k)
  <2>1. f[k] = Push(s, f[k - 1], N[k])
    BY <1>2
  <2>2. /\ f[k] \in Seq(STRING) /\ NoRepeats(f[k])
        /\ Range(f[k]) = Range(f[k - 1]) \cup ({N[k]} \cap Range(s.pages))
    <3>1. f[k - 1] \in Seq(STRING) /\ NoRepeats(f[k - 1]) /\ N[k] \in STRING
      BY <1>3, <1>6
    <3> HIDE DEF Good, failing
    <3> QED
      BY <2>1, <3>1, <1>10
  <2>3. {N[i] : i \in 1 .. k} = {N[i] : i \in 1 .. k - 1} \cup {N[k]}
    <3>1. k \in 1 .. k /\ \A i : i \in 1 .. k <=> i \in 1 .. k - 1 \/ i = k
      BY <1>1
    <3> QED
      BY <3>1
  <2> QED
    BY <1>6, <2>2, <2>3
<1>7. failing = {}
  <2> SUFFICES ASSUME failing # {}
               PROVE  FALSE
    OBVIOUS
  <2>1. PICK k \in failing : \A j \in failing : k <= j
    <3>1. failing \subseteq Nat
      OBVIOUS
    <3> HIDE DEF failing
    <3> QED
      BY <3>1, LeastNumber
  <2>2. k # 0
    BY <1>5
  <2>3. k \in 1 .. L /\ k - 1 \in 0 .. L /\ ~(k <= k - 1)
    BY <1>1, <2>2
  <2>4. Good(k - 1)
    BY <2>1, <2>3
  <2> QED
    BY <1>6, <2>3, <2>4
<1>8. Good(L)
  <2>1. L \in 0 .. L
    BY <1>1 DEF L
  <2> QED
    BY <1>7, <2>1
<1>9. {N[i] : i \in 1 .. L} \cap Range(s.pages) = Range(s.pages)
  BY <1>1, <1>4
<1> QED
  BY <1>2, <1>8, <1>9

(* A page leads to where its own section starts.                           *)
LEMMA LeadsThere ==
    ASSUME site \in Sites, NEW k \in DOMAIN Ordered, NEW shift
    PROVE  /\ Ordered[k] \in Range(Ordered)
           /\ Leads(shift)[Ordered[k]] = starts[k] + shift
<1>1. NoRepeats(Ordered)
  BY OrderKeepsPages DEF Ordered
<1>2. Ordered[k] \in Range(Ordered)
  BY DEF Range
<1>3. (CHOOSE j \in DOMAIN Ordered : Ordered[j] = Ordered[k]) = k
  BY <1>1 DEF NoRepeats
<1> QED
  BY <1>2, <1>3 DEF Leads
-----------------------------------------------------------------------------
(* There is one run.                                                       *)
LEMMA RunIsOne ==
    ASSUME NEW k \in Nat, NEW f, NEW g, IsRun(f, k), IsRun(g, k)
    PROVE  f[k] = g[k]
<1> DEFINE differ == {i \in 0 .. k : f[i] # g[i]}
<1>1. differ = {}
  <2> SUFFICES ASSUME differ # {}
               PROVE  FALSE
    OBVIOUS
  <2>1. PICK i \in differ : \A j \in differ : i <= j
    <3>1. differ \subseteq Nat
      OBVIOUS
    <3> HIDE DEF differ
    <3> QED
      BY <3>1, LeastNumber
  <2>2. i # 0
    BY DEF IsRun
  <2>3. i \in 1 .. k /\ i - 1 \in 0 .. k /\ ~(i <= i - 1)
    BY <2>2
  <2>4. f[i - 1] = g[i - 1]
    BY <2>1, <2>3
  <2>5. f[i] = NextEntry(f[i - 1]) /\ g[i] = NextEntry(g[i - 1])
    BY <2>3 DEF IsRun
  <2> QED
    BY <2>1, <2>4, <2>5
<1> QED
  BY <1>1

(* So a round ends on one page only, whatever was guessed.                 *)
LEMMA EndIsOne ==
    ASSUME Len(site.toc) \in Nat, NEW p, NEW q, EntriesEnd(p), EntriesEnd(q)
    PROVE  p = q
<1>1. PICK f, y : IsRun(f, Len(site.toc)) /\ f[Len(site.toc)] = <<p, y>>
  BY DEF EntriesEnd, EntriesFill
<1>2. PICK g, z : IsRun(g, Len(site.toc)) /\ g[Len(site.toc)] = <<q, z>>
  BY DEF EntriesEnd, EntriesFill
<1>3. <<p, y>> = <<q, z>>
  BY <1>1, <1>2, RunIsOne
<1> QED
  BY <1>3

(* The run starts under the title.                                         *)
LEMMA FirstEntry == EntriesFill(0, 1, TitleHeight + AfterHeading + Space)
<1> DEFINE f == [i \in {0} |-> <<1, TitleHeight + AfterHeading + Space>>]
<1>1. f[0] = <<1, TitleHeight + AfterHeading + Space>>
  OBVIOUS
<1>2. 1 .. 0 = {}
  OBVIOUS
<1> HIDE DEF f
<1> QED
  BY <1>1, <1>2 DEF EntriesFill, IsRun

(* One more entry.                                                         *)
LEMMA EntryFills ==
    ASSUME NEW k \in Nat, NEW page, NEW y, EntriesFill(k, page, y),
           NEW q, NEW z, <<q, z>> = NextEntry(<<page, y>>)
    PROVE  EntriesFill(k + 1, q, z)
<1>1. PICK f : IsRun(f, k) /\ f[k] = <<page, y>>
  BY DEF EntriesFill
<1> DEFINE g == [i \in 0 .. k + 1 |-> IF i = k + 1 THEN <<q, z>> ELSE f[i]]
<1>2. g[k + 1] = <<q, z>> /\ \A i \in 0 .. k : g[i] = f[i]
  OBVIOUS
<1> HIDE DEF g
<1>3. g[0] = f[0] /\ g[k] = f[k]
  BY <1>2
<1>4. ASSUME NEW i \in 1 .. k + 1
      PROVE  g[i] = NextEntry(g[i - 1])
  <2>1. CASE i = k + 1
    BY <1>1, <1>2, <1>3, <2>1
  <2>2. CASE i # k + 1
    <3>1. i \in 1 .. k /\ i \in 0 .. k /\ i - 1 \in 0 .. k
      BY <2>2
    <3> QED
      BY <1>1, <1>2, <3>1 DEF IsRun
  <2> QED
    BY <2>1, <2>2
<1>5. IsRun(g, k + 1)
  BY <1>1, <1>3, <1>4 DEF IsRun
<1> QED
  BY <1>2, <1>5 DEF EntriesFill

(* The toc, and the contents made of it.                                   *)
LEMMA TocIs ==
    ASSUME site \in Sites
    PROVE  /\ Len(site.toc) \in Nat /\ DOMAIN site.toc = 1 .. Len(site.toc)
           /\ Entries \in Seq(Range(Entries)) /\ Len(Entries) = Len(site.toc)
           /\ \A i \in 1 .. Len(site.toc) : Entries[i] = Entry(site.toc[i], guess)
           /\ TocSection(guess) = <<Title, List>>
<1>1. site.toc \in Seq([depth : Nat, page : STRING])
  BY PaperAssumption
<1>2. PICK n \in Nat : n = Len(site.toc) /\ DOMAIN site.toc = 1 .. n
  BY <1>1, LenProperties
<1>3. /\ DOMAIN Entries = 1 .. n
      /\ Entries = [i \in 1 .. n |-> Entries[i]]
      /\ \A i \in 1 .. n : Entries[i] = Entry(site.toc[i], guess)
  BY <1>2 DEF Entries
<1>4. \A i \in 1 .. n : Entries[i] \in Range(Entries)
  BY <1>3 DEF Range
<1>5. Entries \in [1 .. n -> Range(Entries)]
  BY <1>3, <1>4
<1>6. Entries \in Seq(Range(Entries))
  BY <1>5, SeqDef
<1>7. Len(Entries) = n
  BY <1>3, <1>6, LenProperties
<1>8. TocSection(guess) = <<Title, List>>
  BY DEF TocSection, Title, List, Entries
<1> QED
  BY <1>2, <1>3, <1>6, <1>7, <1>8

(* An entry takes the same room whatever it prints, and it prints the      *)
(* number of the page that it leads to.                                    *)
LEMMA EntryIs ==
    ASSUME NEW e, NEW t
    PROVE  /\ Entry(e, t).height = EntryHeight /\ Entry(e, t).gap = EntrySpace
           /\ Entry(e, t).page # NoPage =>
                 /\ Entry(e, t).page \in Range(Ordered)
                 /\ Entry(e, t).number = Leads(t + 1)[Entry(e, t).page]
<1>1. CASE e.page \in Range(Ordered)
  <2>1. Entry(e, t) = [page |-> e.page, height |-> EntryHeight, gap |-> EntrySpace,
                       number |-> Leads(t + 1)[e.page]]
    BY <1>1 DEF Entry, Part
  <2> QED
    BY <1>1, <2>1
<1>2. CASE e.page \notin Range(Ordered)
  <2>1. Entry(e, t) = Part(EntryHeight, EntrySpace)
    BY <1>2 DEF Entry
  <2> QED
    BY <2>1 DEF Part
<1> QED
  BY <1>1, <1>2

(* More pieces of the current section on a page q leave the sections       *)
(* right: the first of them stands where the section starts, as nothing    *)
(* can have left that page before.                                         *)
LEMMA SectionGoesOn ==
    ASSUME Inv, layout = "pages", WhilePages,
           NEW new, IsPlaced(new), NEW q \in Nat, pages <= q, q = pages \/ ~atTop,
           \A i \in DOMAIN new :
               new[i].section = Len(starts) /\ new[i].leads = NoPage /\ new[i].page = q
    PROVE  SectionsRight(placed \o new)
<1> DEFINE t == placed \o new
           S == Range(placed) \cup Range(new)
<1>1. /\ IsPlaced(placed) /\ pages \in Nat /\ starts \in Seq(Nat) /\ starts # <<>>
      /\ (\A p \in Pieces : p.section # Len(starts)) => atTop /\ pages = starts[Len(starts)] + 1
      /\ \A p \in Pieces : p.section <= Len(starts)
  BY DEF Inv, TypeOK, BlankInv
<1>2. SectionsRight(placed) /\ starts[Len(starts)] < pages
  BY DEF WhilePages
<1>3. placed \in Seq(S) /\ new \in Seq(S)
  BY <1>1, SeqMonotonic DEF IsPlaced
<1>4. /\ Len(t) = Len(placed) + Len(new) /\ t \in Seq(S)
      /\ \A i \in 1 .. Len(placed) + Len(new) :
            t[i] = IF i <= Len(placed) THEN placed[i] ELSE new[i - Len(placed)]
  BY <1>3, ConcatProperties
<1>5. /\ Len(placed) \in Nat /\ Len(new) \in Nat
      /\ DOMAIN placed = 1 .. Len(placed) /\ DOMAIN new = 1 .. Len(new)
      /\ DOMAIN t = 1 .. Len(placed) + Len(new)
  BY <1>3, <1>4, LenProperties
<1>6. Len(starts) \in Nat \ {0} /\ DOMAIN starts = 1 .. Len(starts)
  BY <1>1, LenProperties, EmptySeq
<1>7. starts[Len(starts)] \in Nat
  BY <1>1, <1>6, ElementOfSeq
<1> HIDE DEF t
<1>8. \A i \in 1 .. Len(placed) : t[i] = placed[i] /\ placed[i] \in Pieces
  BY <1>4, <1>5 DEF Pieces, Range
<1>9. \A i \in 1 .. Len(placed) + Len(new) : i > Len(placed) =>
         t[i].section = Len(starts) /\ t[i].leads = NoPage /\ t[i].page = q
  <2> SUFFICES ASSUME NEW i \in 1 .. Len(placed) + Len(new), i > Len(placed)
               PROVE  t[i].section = Len(starts) /\ t[i].leads = NoPage /\ t[i].page = q
    OBVIOUS
  <2>1. t[i] = new[i - Len(placed)] /\ i - Len(placed) \in 1 .. Len(new)
    BY <1>4, <1>5
  <2> QED
    BY <1>5, <2>1
<1>10. \A i \in 1 .. Len(placed) : placed[i].section \in Nat /\ placed[i].section <= Len(starts)
  BY <1>1, <1>2, <1>5, <1>6, <1>8 DEF SectionsRight
<1> SUFFICES ASSUME NEW i \in 1 .. Len(placed) + Len(new)
             PROVE  /\ t[i].section \in DOMAIN starts /\ t[i].leads = NoPage
                    /\ starts[t[i].section] < t[i].page
                    /\ t[i].section < Len(starts) => t[i].page <= starts[t[i].section + 1]
                    /\ \A h \in 1 .. i : t[h].section <= t[i].section
                    /\ i = 1 \/ t[i - 1].section # t[i].section =>
                          t[i].page = starts[t[i].section] + 1
  BY <1>5 DEF SectionsRight, t
<1>11. CASE i <= Len(placed)
  <2>1. i \in 1 .. Len(placed) /\ \A h \in 1 .. i : h \in 1 .. Len(placed)
    BY <1>5, <1>11
  <2>2. i = 1 \/ i - 1 \in 1 .. Len(placed)
    BY <2>1, <1>5
  <2> QED
    BY <1>2, <1>5, <1>8, <2>1, <2>2 DEF SectionsRight
<1>12. CASE i > Len(placed)
  <2>1. t[i].section = Len(starts) /\ t[i].leads = NoPage /\ t[i].page = q
    BY <1>9, <1>12
  <2>2. \A h \in 1 .. i : t[h].section <= t[i].section
    <3> SUFFICES ASSUME NEW h \in 1 .. i
                 PROVE  t[h].section <= Len(starts)
      BY <2>1
    <3>1. h \in 1 .. Len(placed) + Len(new) /\ (h \in 1 .. Len(placed) \/ h > Len(placed))
      BY <1>5
    <3> QED
      BY <1>6, <1>8, <1>9, <1>10, <3>1
  <2>3. ASSUME i = 1 \/ t[i - 1].section # t[i].section
        PROVE  q = starts[Len(starts)] + 1
    <3>1. i = Len(placed) + 1
      <4>1. CASE i = 1
        BY <1>5, <1>12, <4>1
      <4>2. CASE i # 1 /\ i - 1 > Len(placed)
        <5>1. i - 1 \in 1 .. Len(placed) + Len(new)
          BY <1>5, <4>2
        <5> QED
          BY <1>9, <2>1, <2>3, <4>2, <5>1
      <4>3. i = 1 \/ i - 1 > Len(placed) \/ i = Len(placed) + 1
        BY <1>5, <1>12
      <4> QED
        BY <4>1, <4>2, <4>3
    <3>2. ASSUME NEW h \in 1 .. Len(placed)
          PROVE  placed[h].section # Len(starts)
      <4>1. Len(placed) \in 1 .. Len(placed) /\ h \in 1 .. Len(placed)
        BY <1>5
      <4>2. i - 1 = Len(placed) /\ i # 1
        BY <1>5, <3>1, <4>1
      <4>3. placed[Len(placed)].section # Len(starts)
        BY <1>8, <2>1, <2>3, <4>1, <4>2
      <4>4. placed[h].section <= placed[Len(placed)].section
        BY <1>2, <1>5, <4>1 DEF SectionsRight
      <4> QED
        BY <1>6, <1>10, <4>1, <4>3, <4>4
    <3>3. \A p \in Pieces : p.section # Len(starts)
      BY <1>5, <3>2 DEF Pieces, Range
    <3> QED
      BY <1>1, <3>3
  <2>4. starts[Len(starts)] < q
    BY <1>1, <1>2, <1>7
  <2> QED
    BY <1>6, <2>1, <2>2, <2>3, <2>4
<1> QED
  BY <1>5, <1>11, <1>12

(* What PlacePart adds.                                                    *)
LEMMA PlacesOne ==
    ASSUME Inv, PlacePart
    PROVE  LET part == Head(block.parts)
           IN  \E piece :
                  /\ placed' = placed \o <<piece>> /\ IsPlaced(<<piece>>)
                  /\ Len(placed') = Len(placed) + 1
                  /\ Range(placed') = Range(placed) \cup {piece}
                  /\ piece.section = Section /\ piece.page = pages'
                  /\ piece.leads = part.page /\ piece.number = part.number
                  /\ pages' \in Nat /\ pages <= pages' /\ (pages' = pages \/ ~atTop)
<1> DEFINE part == Head(block.parts)
           height == Shown(block.kind, part.height)
           page == IF Breaks(height) THEN pages + 1 ELSE pages
           top == IF Breaks(height) THEN 0 ELSE cy
           piece == Piece(page, top, height, part)
<1>1. /\ TypeOK
      /\ pages \in Nat \ {0} /\ cy \in Nat /\ IsPlaced(placed)
      /\ Section \in Nat
  BY BoundIsDone DEF Inv, TypeOK, PlacePart
<1>2. part.height \in Nat
  BY <1>1, BlockParts, PartsLeft DEF PlacePart, TypeOK
<1>3. height \in Nat
  BY <1>1, <1>2, Bounds DEF Shown
<1>4. pages' = page /\ placed' = Append(placed, piece)
  BY DEF PlacePart
<1>5. (Breaks(height) => page = pages + 1 /\ ~atTop) /\ (~Breaks(height) => page = pages)
  BY DEF Breaks
<1>6. page \in Nat /\ top \in Nat /\ pages <= page /\ (page = pages \/ ~atTop)
  BY <1>1, <1>5
<1> HIDE DEF height, page, top
<1>7. /\ piece.page = page /\ piece.section = Section /\ IsPiece(piece)
      /\ piece.leads = part.page /\ piece.number = part.number
  BY <1>1, <1>3, <1>6 DEF Piece, IsPiece
<1> HIDE DEF piece, part
<1>8. Range(<<piece>>) = {piece} /\ IsPlaced(<<piece>>)
  <2>1. Len(<<piece>>) = 1 /\ DOMAIN <<piece>> = {1} /\ <<piece>>[1] = piece
    OBVIOUS
  <2>2. Range(<<piece>>) = {piece}
    BY <2>1 DEF Range
  <2> QED
    BY <1>7, <2>1, <2>2 DEF IsPlaced
<1>9. placed \in Seq(Range(placed) \cup {piece}) /\ <<piece>> \in Seq(Range(placed) \cup {piece})
  <2>1. placed \in Seq(Range(placed) \cup {piece})
    BY <1>1, SeqMonotonic DEF IsPlaced
  <2> QED
    BY <2>1
<1>10. placed' = placed \o <<piece>>
  BY <1>4, <1>9, AppendIsConcat
<1>11. Range(placed \o <<piece>>) = Range(placed) \cup {piece}
  <2> DEFINE one == <<piece>>
  <2>1. placed \in Seq(Range(placed) \cup {piece}) /\ one \in Seq(Range(placed) \cup {piece})
        /\ Range(one) = {piece}
    BY <1>8, <1>9
  <2> HIDE DEF one
  <2>2. Range(placed \o one) = Range(placed) \cup Range(one)
    BY <2>1, RangeConcatenation
  <2> QED
    BY <2>1, <2>2 DEF one
<1>12. Len(placed') = Len(placed) + 1
  BY <1>4, <1>9, AppendProperties
<1> QED
  BY <1>4, <1>6, <1>7, <1>8, <1>10, <1>11, <1>12 DEF part

(* One action after the other, first those of the first pass.              *)
LEMMA PartsTellPlace ==
    ASSUME Inv, ContentsInv, PlacePart, layout = "pages"
    PROVE  ContentsInv'
<1>1. TypeOK /\ WhilePages /\ StartsRise /\ IsBlock(block) /\ block.parts # <<>>
  BY DEF Inv, TypeOK, ContentsInv, PlacePart
<1>2. PICK piece :
        /\ placed' = placed \o <<piece>> /\ IsPlaced(<<piece>>)
        /\ piece.section = Section /\ piece.page = pages'
        /\ piece.leads = Head(block.parts).page
        /\ pages' \in Nat /\ pages <= pages' /\ (pages' = pages \/ ~atTop)
  BY PlacesOne
<1>3. /\ Head(block.parts) \in Range(block.parts)
      /\ Range(Tail(block.parts)) \subseteq Range(block.parts)
  <2>1. block.parts \in Seq(Range(block.parts))
    BY <1>1, BlockParts DEF IsParts
  <2>2. Head(block.parts) \in Range(block.parts) /\ Tail(block.parts) \in Seq(Range(block.parts))
    BY <1>1, <2>1, HeadTailProperties
  <2> QED
    BY <2>2, RangeOfSeq
<1>4. UNCHANGED <<layout, rounds, starts, dests>>
      /\ block' = [block EXCEPT !.parts = Tail(block.parts)]
  BY DEF PlacePart, passes
<1>5. SectionsRight(placed \o <<piece>>)
  <2> DEFINE one == <<piece>>
  <2>1. DOMAIN one = {1} /\ one[1] = piece
    OBVIOUS
  <2>2. piece.section = Len(starts) /\ piece.leads = NoPage
    BY <1>1, <1>2, <1>3 DEF Section, WhilePages
  <2>3. IsPlaced(one) /\ \A i \in DOMAIN one :
           one[i].section = Len(starts) /\ one[i].leads = NoPage /\ one[i].page = pages'
    BY <1>2, <2>1, <2>2
  <2>5. placed \o one = placed \o <<piece>>
    OBVIOUS
  <2> DEFINE q == pages'
  <2>4. q \in Nat /\ pages <= q /\ (q = pages \/ ~atTop)
    BY <1>2
  <2> HIDE DEF one, q
  <2>6. \A i \in DOMAIN one :
           one[i].section = Len(starts) /\ one[i].leads = NoPage /\ one[i].page = q
    BY <2>3 DEF q
  <2>7. SectionsRight(placed \o one)
    BY <1>1, <2>3, <2>4, <2>6, SectionGoesOn
  <2> QED
    BY <2>5, <2>7
<1>6. SectionsRight(placed)'
  BY <1>2, <1>4, <1>5 DEF SectionsRight
<1>7. starts[Len(starts)] < pages'
  <2>1. pages \in Nat /\ Len(starts) \in 1 .. Len(starts) /\ starts \in Seq(Nat)
    BY <1>1, LenProperties, EmptySeq DEF TypeOK
  <2>2. starts[Len(starts)] \in Nat
    BY <2>1, ElementOfSeq
  <2> QED
    BY <1>1, <1>2, <2>1, <2>2 DEF WhilePages
<1>8. \A part \in Range(block'.parts) : part.page = NoPage
  <2>1. block'.parts = Tail(block.parts)
    BY <1>1, <1>4 DEF IsBlock
  <2> QED
    BY <1>1, <1>3, <2>1 DEF WhilePages
<1>9. WhilePages'
  BY <1>1, <1>4, <1>6, <1>7, <1>8 DEF WhilePages
<1>10. StartsRise'
  BY <1>1, <1>4 DEF StartsRise
<1>11. layout' = "pages"
  BY <1>4
<1> QED
  BY <1>9, <1>10, <1>11 DEF ContentsInv, ContentsAreTrue

(* Lines of code go on with the section.                                   *)
LEMMA CodeTellsPlace ==
    ASSUME Inv, ContentsInv, PlaceCode, layout = "pages"
    PROVE  ContentsInv'
<1> DEFINE breaks == Breaks(CodePad + CodeLine)
           page == IF breaks THEN pages + 1 ELSE pages
           top == IF breaks THEN 0 ELSE cy
           left == Len(block.parts)
           Line(i) == Piece(page, top + CodePad + (i - 1) * CodeLine, CodeLine, block.parts[i])
<1>1. /\ TypeOK /\ WhilePages /\ StartsRise /\ IsBlock(block)
      /\ pages \in Nat /\ cy \in Nat /\ Section = Len(starts)
  BY DEF Inv, TypeOK, ContentsInv, PlaceCode, Section
<1>2. PICK n \in 0 .. left :
         /\ placed' = placed \o [i \in 1 .. n |-> Line(i)]
         /\ block' = [block EXCEPT !.parts = SubSeq(block.parts, n + 1, left)]
         /\ pages' = page + 1 \/ pages' = page
  BY DEF PlaceCode
<1>3. UNCHANGED <<layout, rounds, starts, dests>>
  BY DEF PlaceCode, passes
<1>4. /\ page \in Nat /\ top \in Nat /\ pages <= page /\ (page = pages \/ ~atTop)
  BY <1>1 DEF Breaks
<1> HIDE DEF page, top
<1>5. pages' \in Nat /\ page <= pages'
  BY <1>2, <1>4
<1>6. /\ block.parts \in Seq(Range(block.parts)) /\ left \in Nat
      /\ \A i \in 1 .. left : block.parts[i] \in Range(block.parts)
  <2>1. block.parts \in Seq(Range(block.parts))
    BY <1>1, BlockParts DEF IsParts
  <2> QED
    BY <2>1, ElementOfSeq, LenProperties
<1> DEFINE lines == [i \in 1 .. n |-> Line(i)]
<1>7. /\ DOMAIN lines = 1 .. n
      /\ \A i \in 1 .. n : /\ lines[i].section = Len(starts) /\ lines[i].page = page
                           /\ lines[i].leads = NoPage
  <2> SUFFICES ASSUME NEW i \in 1 .. n
               PROVE  /\ lines[i].section = Len(starts) /\ lines[i].page = page
                      /\ lines[i].leads = NoPage
    OBVIOUS
  <2>1. lines[i] = Line(i) /\ block.parts[i].page = NoPage
    BY <1>1, <1>6 DEF WhilePages
  <2> QED
    BY <1>1, <2>1 DEF Piece
<1>8. IsPlaced(lines)
  <2>1. ASSUME NEW i \in 1 .. n
        PROVE  IsPiece(lines[i]) /\ lines[i] \in Range(lines)
    <3>1. top + CodePad + (i - 1) * CodeLine \in Nat /\ CodeLine \in Nat
      <4>1. n \in Nat /\ i \in 1 .. n
        BY <1>6
      <4>2. (i - 1) * CodeLine \in Nat
        BY <1>1, <4>1, LinesInBox
      <4>3. CodeLine \in Nat /\ CodePad \in Nat
        BY <1>1, Bounds
      <4> DEFINE down == (i - 1) * CodeLine
      <4> HIDE DEF down
      <4>4. top + CodePad + down \in Nat
        BY <1>4, <4>2, <4>3 DEF down
      <4> QED
        BY <4>3, <4>4 DEF down
    <3>2. Section \in Nat
      BY <1>1, LenProperties DEF TypeOK
    <3>3. lines[i] = Line(i)
      OBVIOUS
    <3>4. IsPiece(Line(i))
      BY <1>4, <3>1, <3>2 DEF IsPiece, Piece
    <3>5. lines[i] \in Range(lines)
      BY <1>7 DEF Range
    <3> QED
      BY <3>3, <3>4, <3>5
  <2>2. lines \in [1 .. n -> Range(lines)] /\ n \in Nat
    BY <1>6, <2>1
  <2>3. lines \in Seq(Range(lines))
    <3> HIDE DEF lines
    <3> QED
      BY <2>2, SeqDef
  <2>4. Range(lines) = {lines[i] : i \in 1 .. n}
    BY <1>7 DEF Range
  <2> HIDE DEF lines
  <2> QED
    BY <2>1, <2>3, <2>4 DEF IsPlaced
<1>9. SectionsRight(placed \o lines)
  <2> HIDE DEF lines
  <2> QED
    BY <1>1, <1>3, <1>4, <1>7, <1>8, SectionGoesOn
<1>10. SectionsRight(placed)'
  <2>1. placed' = placed \o lines
    BY <1>2
  <2> HIDE DEF lines
  <2> QED
    BY <1>3, <1>9, <2>1 DEF SectionsRight
<1>11. starts[Len(starts)] < pages'
  <2>1. Len(starts) \in 1 .. Len(starts) /\ starts \in Seq(Nat)
    BY <1>1, LenProperties, EmptySeq DEF TypeOK
  <2>2. starts[Len(starts)] \in Nat
    BY <2>1, ElementOfSeq
  <2> QED
    BY <1>1, <1>4, <1>5, <2>2 DEF WhilePages
<1>12. \A part \in Range(block'.parts) : part.page = NoPage
  <2>1. block'.parts = SubSeq(block.parts, n + 1, left)
    BY <1>1, <1>2, BlockParts
  <2>2. SubSeq(block.parts, n + 1, left) \in Seq(Range(block.parts))
    <3>1. n + 1 \in Int /\ left \in Int /\ \A i \in n + 1 .. left : i \in 1 .. left
      BY <1>6
    <3>2. \A i \in n + 1 .. left : block.parts[i] \in Range(block.parts)
      BY <1>6, <3>1
    <3> HIDE DEF left
    <3> QED
      BY <3>1, <3>2, SubSeqProperties
  <2>3. Range(SubSeq(block.parts, n + 1, left)) \subseteq Range(block.parts)
    BY <2>2, RangeOfSeq
  <2> QED
    BY <1>1, <2>1, <2>3 DEF WhilePages
<1>13. WhilePages'
  BY <1>1, <1>3, <1>10, <1>11, <1>12 DEF WhilePages
<1>14. StartsRise'
  BY <1>1, <1>3 DEF StartsRise
<1>15. layout' = "pages"
  BY <1>3
<1> QED
  BY <1>13, <1>14, <1>15 DEF ContentsInv, ContentsAreTrue

(* The end of a block adds nothing.                                        *)
LEMMA EndTellsPlace ==
    ASSUME Inv, ContentsInv, End, layout = "pages"
    PROVE  ContentsInv'
<1>1. /\ UNCHANGED <<layout, rounds, starts, pages, placed, dests>> /\ block' = Nothing
  BY DEF End, passes
<1>2. WhilePages /\ StartsRise
  BY DEF ContentsInv
<1>3. Range(block'.parts) = {}
  BY <1>1, NothingPlaced DEF Nothing
<1>4. WhilePages'
  BY <1>1, <1>2, <1>3 DEF WhilePages, SectionsRight
<1>5. StartsRise' /\ layout' = "pages"
  BY <1>1, <1>2 DEF StartsRise
<1> QED
  BY <1>4, <1>5 DEF ContentsInv, ContentsAreTrue

(* Nor does its beginning.                                                 *)
LEMMA WriteBlockTellsPlace ==
    ASSUME Inv, ContentsInv, NEW b \in PageBlocks, WriteBlock(b)
    PROVE  ContentsInv'
<1>1. /\ UNCHANGED <<layout, rounds, starts, pages, placed, dests>> /\ block' = b
      /\ layout = "pages"
  BY DEF WriteBlock, Begin
<1>2. WhilePages /\ StartsRise
  BY <1>1 DEF ContentsInv, Inv
<1>3. \A part \in Range(b.parts) : part.page = NoPage
  <2> DEFINE Parts == [page : {NoPage}, height : Nat, gap : Nat, number : Nat]
  <2>1. b.parts \in Seq(Parts)
    BY <1>2, PaperAssumption
  <2>2. Range(b.parts) \subseteq Parts
    BY <2>1, RangeOfSeq
  <2> QED
    BY <2>2
<1>4. WhilePages'
  BY <1>1, <1>2, <1>3 DEF WhilePages, SectionsRight
<1>5. StartsRise' /\ layout' = "pages"
  BY <1>1, <1>2 DEF StartsRise
<1> QED
  BY <1>4, <1>5 DEF ContentsInv, ContentsAreTrue

(* All that was placed so far ends where the next section starts.          *)
LEMMA NextSectionTellsPlace ==
    ASSUME Inv, ContentsInv, NextSection
    PROVE  ContentsInv'
<1> DEFINE new == Append(starts, pages)
           last == Len(starts)
<1>1. /\ UNCHANGED <<layout, rounds, placed, block, dests>> /\ layout = "pages"
      /\ pages' = pages + 1 /\ starts' = new
  BY DEF NextSection
<1>2. /\ WhilePages /\ StartsRise /\ StayAbove(placed, pages, cy)
      /\ pages \in Nat /\ starts \in Seq(Nat) /\ starts # <<>> /\ IsPlaced(placed)
  BY <1>1 DEF ContentsInv, Inv, TypeOK, FlowInv
<1>3. /\ Len(Append(starts, pages)) = Len(starts) + 1 /\ Append(starts, pages) \in Seq(Nat)
      /\ Append(starts, pages)[Len(starts) + 1] = pages
      /\ \A k \in 1 .. Len(starts) : Append(starts, pages)[k] = starts[k]
  BY <1>2, AppendProperties
<1>4. /\ Len(new) = last + 1 /\ new[last + 1] = pages
      /\ \A k \in 1 .. last : new[k] = starts[k]
  BY <1>3
<1>5. last \in Nat \ {0} /\ DOMAIN starts = 1 .. last /\ DOMAIN new = 1 .. last + 1
  BY <1>2, <1>3, LenProperties, EmptySeq
<1>6. \A k \in 1 .. last : starts[k] \in Nat /\ starts[k] <= starts[last]
  BY <1>2, <1>5, ElementOfSeq DEF StartsRise
<1>7. starts[last] < pages
  BY <1>2 DEF WhilePages
<1> HIDE DEF new, last
<1>8. \A k \in 1 .. last : starts[k] < pages
  <2> SUFFICES ASSUME NEW k \in 1 .. last
               PROVE  starts[k] < pages
    OBVIOUS
  <2>1. starts[last] \in Nat
    BY <1>5, <1>6
  <2> QED
    BY <1>2, <1>6, <1>7, <2>1
<1>9. StartsRise'
  <2> SUFFICES ASSUME NEW j \in 1 .. last + 1, NEW k \in 1 .. last + 1, j <= k
               PROVE  new[j] <= new[k]
    BY <1>1, <1>5 DEF StartsRise
  <2>1. (j \in 1 .. last \/ j = last + 1) /\ (k \in 1 .. last \/ k = last + 1)
    BY <1>5
  <2>2. CASE k \in 1 .. last
    <3>1. j \in 1 .. last
      BY <1>5, <2>2
    <3> QED
      BY <1>2, <1>4, <1>5, <2>2, <3>1 DEF StartsRise
  <2>3. CASE k = last + 1 /\ j \in 1 .. last
    BY <1>2, <1>4, <1>6, <1>8, <2>3
  <2>4. CASE k = last + 1 /\ j = last + 1
    BY <1>2, <1>4, <2>4
  <2> QED
    BY <2>1, <2>2, <2>3, <2>4
<1>10. SectionsRight(placed)'
  <2> SUFFICES ASSUME NEW i \in DOMAIN placed
               PROVE  /\ placed[i].section \in DOMAIN new /\ placed[i].leads = NoPage
                      /\ new[placed[i].section] < placed[i].page
                      /\ placed[i].section < last + 1 =>
                            placed[i].page <= new[placed[i].section + 1]
                      /\ \A h \in 1 .. i : placed[h].section <= placed[i].section
                      /\ i = 1 \/ placed[i - 1].section # placed[i].section =>
                            placed[i].page = new[placed[i].section] + 1
    BY <1>1, <1>4 DEF SectionsRight
  <2> DEFINE section == placed[i].section
             page == placed[i].page
  <2>1. /\ section \in 1 .. last /\ placed[i].leads = NoPage
        /\ starts[section] < page
        /\ section < last => page <= starts[section + 1]
        /\ \A h \in 1 .. i : placed[h].section <= section
        /\ i = 1 \/ placed[i - 1].section # section => page = starts[section] + 1
    BY <1>2, <1>5 DEF WhilePages, SectionsRight, last
  <2>2. page <= pages
    BY <1>2 DEF StayAbove, Range
  <2> HIDE DEF section, page
  <2>3. new[section] = starts[section] /\ section \in DOMAIN new
    BY <1>4, <1>5, <2>1
  <2>4. page <= new[section + 1]
    <3>1. CASE section = last
      BY <1>4, <2>2, <3>1
    <3>2. CASE section # last
      <4>1. section < last /\ section + 1 \in 1 .. last
        BY <1>5, <2>1, <3>2
      <4> QED
        BY <1>4, <2>1, <4>1
    <3> QED
      BY <3>1, <3>2
  <2> QED
    BY <2>1, <2>3, <2>4 DEF section, page
<1>11. starts'[Len(starts')] < pages'
  BY <1>1, <1>2, <1>4
<1>12. WhilePages'
  BY <1>1, <1>2, <1>10, <1>11 DEF WhilePages
<1> QED
  BY <1>1, <1>9, <1>12 DEF ContentsInv, ContentsAreTrue

(* A step within a round need only keep its stage and its links true.      *)
LEMMA ContentsGoOn ==
    ASSUME ContentsInv, layout = "contents",
           UNCHANGED <<layout, site, starts, guess, rounds, content>>,
           Stage', \A p \in Pieces' : TrueLink(p)
    PROVE  ContentsInv'
<1>1. WhileContents /\ StartsRise
  BY DEF ContentsInv
<1>2. \A p \in Pieces' : TrueLink(p)'
  BY DEF TrueLink, Ordered, Leads
<1>3. rounds' > 1 => EntriesEnd(guess)'
  BY <1>1 DEF WhileContents, EntriesEnd
<1>4. Len(starts') = Len(Ordered') /\ SectionsRight(content.placed)'
  BY <1>1 DEF WhileContents, Ordered, SectionsRight
<1>5. WhileContents'
  BY <1>1, <1>2, <1>3, <1>4 DEF WhileContents
<1>6. StartsRise' /\ layout' = "contents"
  BY <1>1 DEF StartsRise
<1> QED
  BY <1>5, <1>6 DEF ContentsInv, ContentsAreTrue

(* The title, or the next entry.                                           *)
LEMMA PartsOfContents ==
    ASSUME Inv, ContentsInv, PlacePart, layout = "contents"
    PROVE  ContentsInv'
<1> DEFINE n == Len(site.toc)
           part == Head(block.parts)
<1>1. /\ site \in Sites /\ IsPlaced(placed)
      /\ Stage /\ \A p \in Pieces : TrueLink(p)
      /\ pages \in Nat /\ cy \in Nat /\ IsBlock(block)
  BY DEF Inv, TypeOK, ContentsInv, WhileContents
<1>2. /\ UNCHANGED <<layout, site, starts, guess, rounds, content, queue>>
      /\ block.parts # <<>> /\ atTop' = FALSE
      /\ block' = [block EXCEPT !.parts = Tail(block.parts)]
      /\ LET height == Shown(block.kind, part.height)
         IN  /\ pages' = IF Breaks(height) THEN pages + 1 ELSE pages
             /\ cy' = (IF Breaks(height) THEN 0 ELSE cy) + height + part.gap
  BY DEF PlacePart, passes
<1>3. PICK piece :
        /\ Len(placed') = Len(placed) + 1
        /\ Range(placed') = Range(placed) \cup {piece}
        /\ piece.section = Section /\ piece.leads = part.page /\ piece.number = part.number
  BY PlacesOne
<1>4. /\ n \in Nat /\ Entries \in Seq(Range(Entries)) /\ Len(Entries) = n
      /\ \A i \in 1 .. n : Entries[i] = Entry(site.toc[i], guess)
  BY <1>1, TocIs
<1>5. UNCHANGED <<Entries, List, Title>>
  BY <1>2 DEF Entries, Entry, Ordered, Leads, List, Title
<1>6. /\ Height \in Nat /\ TitleHeight \in Nat /\ EntryHeight \in Nat /\ EntrySpace \in Nat
  BY <1>1, Bounds
<1>7. SUFFICES /\ Stage'
               /\ part.page # NoPage =>
                     part.page \in Range(Ordered) /\ part.number = Leads(guess + 1)[part.page]
  <2>1. piece.section = 0
    BY <1>3 DEF Section
  <2>2. TrueLink(piece)
    BY <1>3, <1>7, <2>1 DEF TrueLink
  <2>3. \A p \in Pieces' : TrueLink(p)
    BY <1>1, <1>3, <2>2 DEF Pieces
  <2> QED
    BY <1>2, <1>7, <2>3, ContentsGoOn
<1>8. block # Nothing
  BY <1>2 DEF Nothing
<1>9. CASE TitleBegun
  <2>1. block.kind = "heading" /\ part = Part(TitleHeight, 0) /\ Tail(block.parts) = <<>>
    BY <1>9 DEF TitleBegun, Title
  <2>2. part.height = TitleHeight /\ part.gap = 0 /\ part.page = NoPage
    BY <2>1 DEF Part
  <2>3. Shown(block.kind, part.height) = TitleHeight /\ ~Breaks(TitleHeight)
    BY <1>9, <2>1, <2>2 DEF Shown, TitleBegun, Breaks
  <2>4. pages' = 1 /\ cy' = TitleHeight /\ Len(placed') = 1
    BY <1>2, <1>3, <1>6, <1>9, <2>2, <2>3 DEF TitleBegun
  <2>5. block' = [kind |-> "heading", parts |-> <<>>]
    BY <1>2, <1>9, <2>1 DEF TitleBegun, Title
  <2>6. TitlePlaced'
    BY <1>2, <1>5, <1>9, <2>4, <2>5 DEF TitlePlaced, TitleBegun
  <2> QED
    BY <2>2, <2>6 DEF Stage
<1>10. CASE \E k \in 0 .. n : EntryToCome(k)
  <2>1. PICK k \in 0 .. n : EntryToCome(k)
    BY <1>10
  <2>2. /\ block = [kind |-> "toc", parts |-> SubSeq(Entries, k + 1, n)]
        /\ Len(placed) = 1 + k /\ EntriesFill(k, pages, cy) /\ ~atTop /\ queue = <<>>
    BY <2>1 DEF EntryToCome
  <2>3. k + 1 \in 1 .. n /\ n \in k + 1 .. n /\ k \in Nat
    <3>1. CASE k = n
      <4>1. SubSeq(Entries, k + 1, n) = <<>>
        BY <1>4, <3>1, SubSeqEmpty
      <4> QED
        BY <1>2, <2>2, <4>1
    <3> QED
      BY <1>4, <3>1
  <2>4. part = Entries[k + 1] /\ Tail(block.parts) = SubSeq(Entries, k + 1 + 1, n)
    <3>1. block.parts = SubSeq(Entries, k + 1, n)
      BY <2>2
    <3>2. /\ Head(SubSeq(Entries, k + 1, n)) = Entries[k + 1]
          /\ Tail(SubSeq(Entries, k + 1, n)) = SubSeq(Entries, k + 1 + 1, n)
      BY <1>4, <2>3, HeadTailOfSubSeq
    <3> QED
      BY <3>1, <3>2
  <2>5. part = Entry(site.toc[k + 1], guess)
    BY <1>4, <2>3, <2>4
  <2>6. /\ part.height = EntryHeight /\ part.gap = EntrySpace
        /\ part.page # NoPage =>
              part.page \in Range(Ordered) /\ part.number = Leads(guess + 1)[part.page]
    BY <2>5, EntryIs
  <2> HIDE DEF part
  <2>7. Shown(block.kind, part.height) = EntryHeight
    BY <2>2, <2>6 DEF Shown
  <2>8. Breaks(EntryHeight) <=> cy + EntryHeight > Height
    BY <2>2 DEF Breaks
  <2>9. <<pages', cy'>> = NextEntry(<<pages, cy>>)
    <3>1. CASE Breaks(EntryHeight)
      <4>1. pages' = pages + 1 /\ cy' = EntryHeight + EntrySpace
        BY <1>2, <1>6, <2>6, <2>7, <3>1
      <4>2. NextEntry(<<pages, cy>>) = <<pages + 1, EntryHeight + EntrySpace>>
        BY <2>8, <3>1 DEF NextEntry
      <4> QED
        BY <4>1, <4>2
    <3>2. CASE ~Breaks(EntryHeight)
      <4>1. pages' = pages /\ cy' = cy + EntryHeight + EntrySpace
        BY <1>2, <1>6, <2>6, <2>7, <3>2
      <4>2. NextEntry(<<pages, cy>>) = <<pages, cy + EntryHeight + EntrySpace>>
        BY <2>8, <3>2 DEF NextEntry
      <4> QED
        BY <4>1, <4>2
    <3> QED
      BY <3>1, <3>2
  <2>10. EntriesFill(k + 1, pages', cy')
    <3> DEFINE q == pages'
               z == cy'
    <3>1. <<q, z>> = NextEntry(<<pages, cy>>)
      BY <2>9
    <3> HIDE DEF q, z
    <3>2. EntriesFill(k + 1, q, z)
      BY <2>2, <2>3, <3>1, EntryFills
    <3> QED
      BY <3>2 DEF q, z
  <2>11. block' = [kind |-> "toc", parts |-> SubSeq(Entries, k + 1 + 1, n)]
    BY <1>2, <2>2, <2>4
  <2>12. Len(placed') = 1 + (k + 1)
    BY <1>3, <2>2, <2>3
  <2>13. EntryToCome(k + 1)'
    BY <1>2, <1>5, <2>2, <2>10, <2>11, <2>12 DEF EntryToCome
  <2>14. k + 1 \in 0 .. Len(site'.toc)
    BY <1>2, <2>3
  <2> QED
    BY <2>6, <2>13, <2>14 DEF Stage, part
<1>11. ~TitlePlaced
  BY <1>2 DEF TitlePlaced
<1> QED
  BY <1>1, <1>8, <1>9, <1>10, <1>11 DEF Stage, TitleToCome, ListToCome, AllPlaced

(* No code in the contents.                                                *)
LEMMA ContentsHaveNoCode ==
    ASSUME ContentsInv, layout = "contents"
    PROVE  block.kind # "code"
<1>1. Stage
  BY DEF ContentsInv, WhileContents
<1> QED
  BY <1>1 DEF Stage, TitleToCome, TitleBegun, TitlePlaced, ListToCome, EntryToCome, AllPlaced,
              Nothing, Title

(* The end of the title, or of the entries.                                *)
LEMMA EndOfContents ==
    ASSUME Inv, ContentsInv, End, layout = "contents"
    PROVE  ContentsInv'
<1> DEFINE n == Len(site.toc)
<1>1. /\ site \in Sites /\ Stage /\ \A p \in Pieces : TrueLink(p)
  BY DEF Inv, TypeOK, ContentsInv, WhileContents
<1>2. /\ UNCHANGED <<layout, site, starts, guess, rounds, content, queue, pages, placed, atTop>>
      /\ block # Nothing /\ block.parts = <<>> /\ block' = Nothing
      /\ cy' = cy + SpaceAfter(block.kind)
  BY DEF End, passes
<1>3. /\ n \in Nat /\ Entries \in Seq(Range(Entries)) /\ Len(Entries) = n
      /\ \A i \in 1 .. n : Entries[i] \in Range(Entries)
  BY <1>1, TocIs, ElementOfSeq
<1>4. UNCHANGED <<Entries, List, Title>>
  BY <1>2 DEF Entries, Entry, Ordered, Leads, List, Title
<1>5. SUFFICES Stage'
  BY <1>1, <1>2, <1>5, ContentsGoOn DEF Pieces
<1>6. CASE TitlePlaced
  <2>1. cy' = TitleHeight + AfterHeading
    BY <1>2, <1>6 DEF TitlePlaced, SpaceAfter
  <2>2. ListToCome'
    BY <1>2, <1>4, <1>6, <2>1 DEF TitlePlaced, ListToCome, Nothing
  <2> QED
    BY <2>2 DEF Stage
<1>7. CASE \E k \in 0 .. n : EntryToCome(k)
  <2>1. PICK k \in 0 .. n : EntryToCome(k)
    BY <1>7
  <2>2. /\ block.parts = SubSeq(Entries, k + 1, n)
        /\ Len(placed) = 1 + k /\ EntriesFill(k, pages, cy) /\ queue = <<>>
    BY <2>1 DEF EntryToCome
  <2>3. k = n
    <3>1. CASE k < n
      <4>1. \A i \in k + 1 .. n : Entries[i] \in Range(Entries)
        BY <1>3
      <4>2. k + 1 \in Int /\ n \in Int /\ k + 1 <= n
        BY <1>3, <3>1
      <4>3. Len(SubSeq(Entries, k + 1, n)) = n - (k + 1) + 1
        <5> HIDE DEF n
        <5> QED
          BY <4>1, <4>2, SubSeqProperties
      <4>4. Len(block.parts) = 0
        BY <1>2
      <4> QED
        BY <1>3, <2>2, <3>1, <4>3, <4>4
    <3> QED
      BY <1>3, <3>1
  <2>4. EntriesEnd(pages)
    BY <2>2, <2>3 DEF EntriesEnd
  <2>5. AllPlaced'
    BY <1>2, <2>2, <2>3, <2>4 DEF AllPlaced, Nothing, EntriesEnd
  <2> QED
    BY <2>5 DEF Stage
<1>8. ~TitleBegun
  BY <1>2 DEF TitleBegun, Title
<1> QED
  BY <1>1, <1>2, <1>6, <1>7, <1>8 DEF Stage, TitleToCome, ListToCome, AllPlaced

(* The beginning of the title, or of the entries.                          *)
LEMMA BeginContents ==
    ASSUME Inv, ContentsInv, WriteContents
    PROVE  ContentsInv'
<1> DEFINE n == Len(site.toc)
<1>1. layout = "contents"
  BY DEF WriteContents
<1>2. /\ site \in Sites /\ Stage /\ \A p \in Pieces : TrueLink(p)
  BY <1>1 DEF Inv, TypeOK, ContentsInv, WhileContents
<1>3. /\ UNCHANGED <<layout, site, starts, guess, rounds, content, pages, placed, atTop>>
      /\ block = Nothing /\ queue # <<>> /\ block' = Head(queue) /\ queue' = Tail(queue)
      /\ cy' = IF atTop THEN cy ELSE cy + SpaceBefore(Head(queue).kind)
  BY DEF WriteContents, Begin
<1>4. n \in Nat /\ Entries \in Seq(Range(Entries)) /\ Len(Entries) = n
  BY <1>2, TocIs
<1>5. UNCHANGED <<Entries, List, Title>>
  BY <1>3 DEF Entries, Entry, Ordered, Leads, List, Title
<1>6. SUFFICES Stage'
  BY <1>1, <1>2, <1>3, <1>6, ContentsGoOn DEF Pieces
<1>7. CASE TitleToCome
  <2>1. block' = Title /\ queue' = <<List>> /\ cy' = 0
    BY <1>3, <1>7 DEF TitleToCome
  <2>2. TitleBegun'
    BY <1>3, <1>5, <1>7, <2>1 DEF TitleToCome, TitleBegun
  <2> QED
    BY <2>2 DEF Stage
<1>8. CASE ListToCome
  <2>1. block' = List /\ queue' = <<>>
    BY <1>3, <1>8 DEF ListToCome
  <2>2. Head(queue).kind = "toc"
    BY <1>8 DEF ListToCome, List
  <2>3. cy' = TitleHeight + AfterHeading + Space
    BY <1>3, <1>8, <2>2 DEF ListToCome, SpaceBefore
  <2>4. SubSeq(Entries, 0 + 1, n) = Entries
    BY <1>4, SubSeqFull
  <2>5. block' = [kind |-> "toc", parts |-> SubSeq(Entries, 0 + 1, n)]
    BY <2>1, <2>4 DEF List
  <2>6. EntriesFill(0, pages', cy')
    BY <1>3, <1>8, <2>3, FirstEntry DEF ListToCome
  <2>7. EntryToCome(0)'
    BY <1>3, <1>5, <1>8, <2>1, <2>5, <2>6 DEF ListToCome, EntryToCome
  <2>8. 0 \in 0 .. Len(site'.toc)
    BY <1>3, <1>4
  <2> QED
    BY <2>7, <2>8 DEF Stage
<1>9. ~TitleBegun /\ ~TitlePlaced /\ ~AllPlaced /\ \A k \in 0 .. n : ~EntryToCome(k)
  BY <1>3 DEF TitleBegun, Title, TitlePlaced, AllPlaced, EntryToCome, Nothing
<1> QED
  BY <1>2, <1>7, <1>8, <1>9 DEF Stage

(* Every round starts in the same way.                                     *)
LEMMA LaysContents ==
    ASSUME site \in Sites, block' = Nothing, UNCHANGED <<site, starts>>,
           NEW t, LayContents(t)
    PROVE  Stage' /\ Pieces' = {}
<1>1. /\ guess' = t /\ queue' = TocSection(t)
      /\ pages' = 1 /\ cy' = 0 /\ atTop' = TRUE /\ placed' = <<>>
  BY DEF LayContents, NewPages
<1>2. TocSection(t) = <<Title', List'>>
  <2>1. Ordered' = Ordered
    BY DEF Ordered
  <2>2. Leads(guess' + 1) = Leads(guess + 1)'
    BY <2>1 DEF Leads
  <2>3. \A e : Entry(e, guess)' = Entry(e, t)
    BY <1>1, <2>1, <2>2 DEF Entry
  <2>4. Entries' = [i \in DOMAIN site.toc |-> Entry(site.toc[i], t)]
    BY <1>1, <2>3 DEF Entries
  <2> QED
    BY <2>4 DEF TocSection, List, Title
<1>3. TitleToCome'
  BY <1>1, <1>2 DEF TitleToCome, Nothing
<1> QED
  BY <1>1, <1>3, NothingPlaced DEF Stage, Pieces

(* The first one.                                                          *)
LEMMA StartsContents ==
    ASSUME Inv, ContentsInv, StartContents
    PROVE  ContentsInv'
<1>1. /\ layout = "pages" /\ layout' = "contents" /\ block = Nothing
      /\ Len(starts) = Len(Ordered) /\ LayContents(1)
      /\ UNCHANGED <<site, block, starts, dests>>
      /\ content'.placed = placed
  BY DEF StartContents, LaidOut
<1>2. WhilePages /\ StartsRise /\ site \in Sites
  BY <1>1 DEF ContentsInv, Inv, TypeOK
<1>3. Stage' /\ Pieces' = {}
  BY <1>1, <1>2, LaysContents
<1>4. rounds' = 1
  BY <1>1, <1>2 DEF WhilePages, LayContents
<1>5. Len(starts') = Len(Ordered') /\ SectionsRight(content.placed)'
  BY <1>1, <1>2 DEF Ordered, SectionsRight, WhilePages
<1>6. WhileContents'
  BY <1>3, <1>4, <1>5 DEF WhileContents
<1>7. StartsRise'
  BY <1>1, <1>2 DEF StartsRise
<1> QED
  BY <1>1, <1>6, <1>7 DEF ContentsInv, ContentsAreTrue

(* When a round is over all entries are placed.                            *)
LEMMA AreAllPlaced ==
    ASSUME ContentsInv, ContentsLaidOut
    PROVE  AllPlaced
<1>1. layout = "contents" /\ queue = <<>> /\ block = Nothing
  BY DEF ContentsLaidOut
<1>2. Stage
  BY <1>1 DEF ContentsInv, WhileContents
<1> QED
  BY <1>1, <1>2 DEF Stage, TitleToCome, TitleBegun, TitlePlaced, ListToCome, EntryToCome, Nothing

(* The next one guesses where this one ended.                              *)
LEMMA RedoesContents ==
    ASSUME Inv, ContentsInv, RedoContents
    PROVE  ContentsInv'
<1>1. /\ layout = "contents" /\ block = Nothing /\ LayContents(pages)
      /\ UNCHANGED <<layout, site, block, starts, content, dests>>
  BY DEF RedoContents, ContentsLaidOut
<1>2. WhileContents /\ StartsRise /\ site \in Sites /\ AllPlaced
  BY <1>1, AreAllPlaced DEF ContentsInv, Inv, TypeOK, RedoContents
<1>3. Stage' /\ Pieces' = {}
  BY <1>1, <1>2, LaysContents
<1>4. guess' = pages /\ rounds' \in Nat \ {0}
  BY <1>1, <1>2 DEF WhileContents, LayContents
<1>5. EntriesEnd(guess)'
  BY <1>1, <1>2, <1>4 DEF AllPlaced, EntriesEnd
<1>6. Len(starts') = Len(Ordered') /\ SectionsRight(content.placed)'
  BY <1>1, <1>2 DEF Ordered, SectionsRight, WhileContents
<1>7. WhileContents'
  BY <1>3, <1>4, <1>5, <1>6 DEF WhileContents
<1>8. StartsRise'
  BY <1>1, <1>2 DEF StartsRise
<1> QED
  BY <1>1, <1>7, <1>8 DEF ContentsInv, ContentsAreTrue

(* The names lead to the start of their sections, and there are as many as *)
(* sections.                                                               *)
LEMMA NamesCounted ==
    ASSUME site \in Sites, Len(starts) = Len(Ordered), starts \in Seq(Nat),
           NEW shift
    PROVE  /\ DOMAIN Leads(shift) = Range(site.pages)
           /\ Len(Ordered) = Cardinality(DOMAIN Leads(shift))
           /\ DOMAIN Ordered = DOMAIN starts
           /\ \A k \in DOMAIN Ordered : Leads(shift)[Ordered[k]] = starts[k] + shift
<1> DEFINE n == Len(Ordered)
<1>1. Ordered \in Seq(STRING) /\ NoRepeats(Ordered) /\ Range(Ordered) = Range(site.pages)
  BY OrderKeepsPages DEF Ordered
<1>2. n \in Nat /\ DOMAIN Ordered = 1 .. n /\ DOMAIN starts = 1 .. n
  BY <1>1, LenProperties
<1>3. DOMAIN Leads(shift) = Range(Ordered)
  BY DEF Leads
<1>4. ExistsBijection(1 .. n, Range(Ordered))
  <2>1. Ordered \in [1 .. n -> Range(Ordered)]
    BY <1>1, <1>2, SeqOfRange, LenProperties
  <2>2. \A y \in Range(Ordered) : \E k \in 1 .. n : Ordered[k] = y
    BY <1>2 DEF Range
  <2>3. \A j, k \in 1 .. n : Ordered[j] = Ordered[k] => j = k
    BY <1>1, <1>2 DEF NoRepeats
  <2> HIDE DEF n
  <2>4. Ordered \in Bijection(1 .. n, Range(Ordered))
    BY <2>1, <2>2, <2>3 DEF Bijection, Injection, Surjection, IsInjective
  <2> QED
    BY <2>4 DEF ExistsBijection
<1>5. Cardinality(Range(Ordered)) = n
  <2> HIDE DEF n
  <2> QED
    BY <1>2, <1>4, FS_CountingElements
<1>6. \A k \in DOMAIN Ordered : Leads(shift)[Ordered[k]] = starts[k] + shift
  BY LeadsThere
<1> QED
  BY <1>1, <1>2, <1>3, <1>5, <1>6

(* The bookmark of an entry whose page is there is its own.                *)
LEMMA OwnBookmark ==
    ASSUME site \in Sites, NEW names,
           NEW i \in DOMAIN site.toc, site.toc[i].page \in names
    PROVE  /\ Min({j \in Under(i) : site.toc[j].page \in names}) = i
           /\ \A j \in 1 .. i : i \in Under(j) =>
                 {l \in Under(j) : site.toc[l].page \in names} # {}
<1> DEFINE reached == {j \in Under(i) : site.toc[j].page \in names}
<1>1. Len(site.toc) \in Nat /\ i \in 1 .. Len(site.toc)
  BY TocIs
<1>2. i \in Under(i) /\ \A j \in Under(i) : j \in Nat /\ i <= j
  BY <1>1 DEF Under
<1>3. i \in reached /\ \A j \in reached : j \in Nat /\ i <= j
  BY <1>2
<1> HIDE DEF reached
<1>4. Min(reached) \in reached /\ \A j \in reached : Min(reached) <= j
  BY <1>3 DEF Min
<1>5. Min(reached) = i
  BY <1>1, <1>3, <1>4
<1> QED
  BY <1>5 DEF reached

(* No page has parts of two sections.                                      *)
LEMMA SectionsApart ==
    ASSUME starts \in Seq(Nat), StartsRise, NEW s, IsPlaced(s), SectionsRight(s),
           NEW p \in Range(s), NEW q \in Range(s), p.section < q.section
    PROVE  p.page < q.page
<1>1. PICK i \in DOMAIN s, j \in DOMAIN s : s[i] = p /\ s[j] = q
  BY DEF Range
<1>2. Len(starts) \in Nat /\ DOMAIN starts = 1 .. Len(starts)
  BY LenProperties
<1>3. /\ p.section \in 1 .. Len(starts) /\ q.section \in 1 .. Len(starts)
      /\ p.section < Len(starts) => p.page <= starts[p.section + 1]
      /\ starts[q.section] < q.page
  BY <1>1, <1>2 DEF SectionsRight
<1>4. p.section + 1 \in 1 .. Len(starts) /\ p.section < Len(starts) /\ p.section + 1 <= q.section
  BY <1>2, <1>3
<1>5. starts[p.section + 1] <= starts[q.section]
  BY <1>2, <1>3, <1>4 DEF StartsRise
<1>6. /\ starts[p.section + 1] \in Nat /\ starts[q.section] \in Nat
      /\ p.page \in Nat /\ q.page \in Nat
  BY <1>3, <1>4, ElementOfSeq, PieceFields DEF IsPlaced
<1> QED
  BY <1>3, <1>4, <1>5, <1>6

(* A document without contents.                                            *)
LEMMA BindsPages ==
    ASSUME Inv, ContentsInv, BindPages
    PROVE  ContentsInv'
<1>1. /\ layout = "pages" /\ layout' = "bound" /\ site.toc = <<>> /\ Len(starts) = Len(Ordered)
      /\ dests' = Leads(Cover) /\ UNCHANGED <<site, placed, starts>>
  BY DEF BindPages, LaidOut, flow
<1>2. /\ site \in Sites /\ IsPlaced(placed) /\ starts \in Seq(Nat)
      /\ StartsRise /\ SectionsRight(placed)
  BY <1>1 DEF Inv, TypeOK, ContentsInv, WhilePages
<1>3. /\ DOMAIN dests' = Range(site.pages) /\ Len(Ordered) = Cardinality(DOMAIN dests')
      /\ DOMAIN Ordered = DOMAIN starts
      /\ \A k \in DOMAIN Ordered : dests'[Ordered[k]] = starts[k] + Cover
  BY <1>1, <1>2, NamesCounted
<1>4. Ordered' = Ordered /\ Cover' = Cover /\ Pieces' = Pieces
  BY <1>1 DEF Ordered, Cover, Pieces
<1>5. ASSUME NEW p \in Pieces, NEW q \in Pieces, p.section # q.section
      PROVE  p.page # q.page
  <2>1. /\ p.section \in Nat /\ q.section \in Nat /\ p.page \in Nat /\ q.page \in Nat
        /\ p \in Range(placed) /\ q \in Range(placed)
    BY <1>2, PieceFields DEF IsPlaced, Pieces
  <2>2. CASE p.section < q.section
    <3>1. p.page < q.page
      BY <1>2, <2>1, <2>2, SectionsApart
    <3> QED
      BY <2>1, <3>1
  <2>3. CASE q.section < p.section
    <3>1. q.page < p.page
      BY <1>2, <2>1, <2>3, SectionsApart
    <3> QED
      BY <2>1, <3>1
  <2> QED
    BY <1>5, <2>1, <2>2, <2>3
<1>6. ASSUME NEW k \in DOMAIN Ordered, NEW i \in DOMAIN placed, placed[i].section = k,
             i = 1 \/ placed[i - 1].section # k
      PROVE  placed[i].page - 1 + Cover = dests'[Ordered[k]]
  <2>1. placed[i].page = starts[k] + 1
    BY <1>2, <1>6 DEF SectionsRight
  <2>2. starts[k] \in Nat /\ Cover \in Nat
    BY <1>2, <1>3, ElementOfSeq, LenProperties DEF Cover
  <2> QED
    BY <1>3, <2>1, <2>2
<1>7. \A p \in Pieces : p.leads = NoPage
  BY <1>2 DEF SectionsRight, Pieces, Range
<1>8. DOMAIN site.toc = {}
  BY <1>1
<1>9. ContentsAreTrue'
  BY <1>1, <1>3, <1>4, <1>5, <1>6, <1>7, <1>8 DEF ContentsAreTrue, Physical
<1>10. StartsRise'
  BY <1>1, <1>2 DEF StartsRise
<1> QED
  BY <1>1, <1>9, <1>10 DEF ContentsInv

(* A document with contents: where the last round ended is what it         *)
(* guessed, whether it was the second, third or fourth.                    *)
LEMMA ContentsAreBound ==
    ASSUME Inv, ContentsInv, Bind
    PROVE  ContentsInv'
<1> DEFINE n == Len(site.toc)
           m == Len(placed)
           rest == content.placed
           behind == [i \in DOMAIN rest |-> Behind(rest[i])]
           t == placed \o behind
<1>1. /\ layout = "contents" /\ layout' = "bound" /\ ContentsLaidOut /\ Settled
      /\ dests' = Leads(pages + Cover) /\ placed' = t
      /\ UNCHANGED <<site, starts>>
  BY DEF Bind, ContentsLaidOut
<1>2. /\ site \in Sites /\ IsPlaced(placed) /\ starts \in Seq(Nat)
      /\ pages \in Nat \ {0} /\ IsPlaced(rest)
      /\ StayAbove(placed, pages, cy)
  BY <1>1 DEF Inv, TypeOK, FlowInv
<1>3. /\ StartsRise /\ SectionsRight(rest) /\ Len(starts) = Len(Ordered)
      /\ \A p \in Pieces : TrueLink(p)
      /\ rounds > 1 => EntriesEnd(guess)
      /\ n \in Nat /\ m = 1 + n /\ EntriesEnd(pages)
  <2>1. AllPlaced
    BY <1>1, AreAllPlaced
  <2>2. n \in Nat
    BY <1>2, TocIs
  <2> QED
    BY <1>1, <2>1, <2>2 DEF ContentsInv, WhileContents, AllPlaced
<1>4. guess = pages
  <2>1. CASE rounds = 4
    BY <1>3, <2>1, EndIsOne
  <2> QED
    BY <1>1, <2>1 DEF Settled
<1>5. /\ DOMAIN dests' = Range(site.pages) /\ Len(Ordered) = Cardinality(DOMAIN dests')
      /\ DOMAIN Ordered = DOMAIN starts
      /\ \A k \in DOMAIN Ordered : dests'[Ordered[k]] = starts[k] + (pages + Cover)
  BY <1>1, <1>2, <1>3, NamesCounted
<1>6. Ordered' = Ordered /\ Cover' = Cover /\ Cover \in Nat
  BY <1>1 DEF Ordered, Cover
<1>7. /\ \A k \in DOMAIN Ordered : k \in Nat \ {0} /\ starts[k] \in Nat
      /\ DOMAIN starts = 1 .. Len(starts)
  BY <1>2, <1>5, ElementOfSeq, LenProperties
<1>8. /\ Len(rest) \in Nat /\ DOMAIN rest = 1 .. Len(rest)
      /\ \A i \in 1 .. Len(rest) : rest[i] \in Range(rest) /\ IsPiece(rest[i])
  <2>1. Len(rest) \in Nat /\ DOMAIN rest = 1 .. Len(rest)
    BY <1>2, PlacedIs
  <2>2. \A i \in 1 .. Len(rest) : rest[i] \in Range(rest)
    BY <2>1 DEF Range
  <2> QED
    BY <1>2, <2>1, <2>2 DEF IsPlaced
<1>9. /\ DOMAIN behind = 1 .. Len(rest)
      /\ \A i \in 1 .. Len(rest) :
            /\ behind[i].page = rest[i].page + pages /\ behind[i].section = rest[i].section
            /\ behind[i].leads = rest[i].leads
  <2> SUFFICES ASSUME NEW i \in 1 .. Len(rest)
               PROVE  /\ behind[i].page = rest[i].page + pages
                      /\ behind[i].section = rest[i].section
                      /\ behind[i].leads = rest[i].leads
    BY <1>8
  <2>1. behind[i] = [rest[i] EXCEPT !.page = @ + pages]
    BY <1>8 DEF Behind
  <2>2. IsPiece(rest[i])
    BY <1>8
  <2> HIDE DEF behind
  <2> QED
    BY <2>1, <2>2 DEF IsPiece
<1>10. m \in Nat /\ DOMAIN placed = 1 .. m
  BY <1>2, PlacedIs
<1>11. /\ DOMAIN t = 1 .. m + Len(rest)
       /\ \A i \in 1 .. m : t[i] = placed[i]
       /\ \A i \in 1 .. m + Len(rest) : i > m => i - m \in 1 .. Len(rest) /\ t[i] = behind[i - m]
  <2> DEFINE S == Range(placed) \cup Range(behind)
  <2>1. behind = [i \in 1 .. Len(rest) |-> behind[i]]
    BY <1>8
  <2> HIDE DEF behind
  <2>2. \A i \in 1 .. Len(rest) : behind[i] \in S
    BY <1>9 DEF Range
  <2> HIDE DEF S
  <2>3. behind \in [1 .. Len(rest) -> S]
    BY <2>1, <2>2
  <2>4. behind \in Seq(S)
    BY <1>8, <2>3, SeqDef
  <2>5. placed \in Seq(S)
    BY <1>2, SeqMonotonic DEF IsPlaced, S
  <2>6. Len(behind) = Len(rest)
    BY <1>8, <1>9, <2>4, LenProperties
  <2>7. /\ Len(placed \o behind) = Len(placed) + Len(behind) /\ placed \o behind \in Seq(S)
        /\ \A i \in 1 .. Len(placed) + Len(behind) :
              (placed \o behind)[i] = IF i <= Len(placed) THEN placed[i]
                                      ELSE behind[i - Len(placed)]
    BY <2>4, <2>5, ConcatProperties
  <2>8. Len(t) = m + Len(rest) /\ t \in Seq(S)
        /\ \A i \in 1 .. m + Len(rest) : t[i] = IF i <= m THEN placed[i] ELSE behind[i - m]
    BY <2>6, <2>7
  <2>9. DOMAIN t = 1 .. m + Len(rest)
    BY <2>8, LenProperties
  <2> HIDE DEF t, m
  <2>10. \A i \in 1 .. m : i \in 1 .. m + Len(rest) /\ i <= m
    BY <1>8, <1>10
  <2>11. \A i \in 1 .. m + Len(rest) : i > m => i - m \in 1 .. Len(rest) /\ ~(i <= m)
    BY <1>8, <1>10
  <2> QED
    BY <2>8, <2>9, <2>10, <2>11
<1> HIDE DEF t, behind, m
<1>12. ASSUME NEW i \in 1 .. m
       PROVE  /\ t[i].section = 0 /\ t[i].page \in 1 .. pages /\ TrueLink(t[i])
  <2>1. t[i] \in Pieces
    BY <1>10, <1>11 DEF Pieces, Range
  <2> QED
    BY <1>2, <1>3, <2>1 DEF StayAbove, Pieces, TrueLink
<1>13. ASSUME NEW i \in 1 .. m + Len(rest), i > m
       PROVE  /\ i - m \in 1 .. Len(rest) /\ rest[i - m] \in Range(rest)
              /\ t[i].section = rest[i - m].section /\ t[i].section \in DOMAIN starts
              /\ t[i].page = rest[i - m].page + pages /\ t[i].leads = NoPage
              /\ rest[i - m].page \in Nat \ {0}
  <2>1. i - m \in 1 .. Len(rest) /\ t[i] = behind[i - m]
    BY <1>11, <1>13
  <2> DEFINE j == i - m
  <2>2. j \in 1 .. Len(rest) /\ t[i] = behind[j]
    BY <2>1
  <2> HIDE DEF j
  <2>3. /\ rest[j].section \in DOMAIN starts /\ rest[j].leads = NoPage
        /\ starts[rest[j].section] < rest[j].page
    BY <1>3, <1>8, <2>2 DEF SectionsRight
  <2>4. starts[rest[j].section] \in Nat /\ rest[j].page \in Nat
    BY <1>2, <1>7, <1>8, <2>2, <2>3, ElementOfSeq, PieceFields
  <2>5. rest[j].page \in Nat \ {0}
    BY <2>3, <2>4
  <2>6. rest[j] \in Range(rest)
    BY <1>8, <2>2
  <2> QED
    BY <1>9, <2>2, <2>3, <2>5, <2>6 DEF j
<1>14. ASSUME NEW p \in Range(t), NEW q \in Range(t), p.section # q.section
       PROVE  p.page # q.page
  <2>1. PICK i \in 1 .. m + Len(rest), j \in 1 .. m + Len(rest) : t[i] = p /\ t[j] = q
    BY <1>11 DEF Range
  <2>2. (i \in 1 .. m \/ i > m) /\ (j \in 1 .. m \/ j > m)
    BY <1>8, <1>10
  <2>3. CASE i \in 1 .. m /\ j \in 1 .. m
    BY <1>12, <1>14, <2>1, <2>3
  <2>4. CASE i \in 1 .. m /\ j > m
    <3>1. p.page \in 1 .. pages
      BY <1>12, <2>1, <2>4
    <3>2. PICK x \in Nat \ {0} : q.page = x + pages
      BY <1>13, <2>1, <2>4
    <3> QED
      BY <1>2, <3>1, <3>2
  <2>5. CASE i > m /\ j \in 1 .. m
    <3>1. q.page \in 1 .. pages
      BY <1>12, <2>1, <2>5
    <3>2. PICK x \in Nat \ {0} : p.page = x + pages
      BY <1>13, <2>1, <2>5
    <3> QED
      BY <1>2, <3>1, <3>2
  <2>6. CASE i > m /\ j > m
    <3>1. PICK x \in Range(rest) : /\ p.section = x.section /\ p.page = x.page + pages
                                   /\ x.page \in Nat \ {0} /\ p.section \in DOMAIN starts
      BY <1>13, <2>1, <2>6
    <3>2. PICK y \in Range(rest) : /\ q.section = y.section /\ q.page = y.page + pages
                                   /\ y.page \in Nat \ {0} /\ q.section \in DOMAIN starts
      BY <1>13, <2>1, <2>6
    <3>3. x.section \in Nat /\ y.section \in Nat
      BY <1>7, <3>1, <3>2
    <3> HIDE DEF rest
    <3>4. CASE x.section < y.section
      <4>1. x.page < y.page
        BY <1>2, <1>3, <3>1, <3>2, <3>4, SectionsApart
      <4> QED
        BY <1>2, <3>1, <3>2, <4>1
    <3>5. CASE y.section < x.section
      <4>1. y.page < x.page
        BY <1>2, <1>3, <3>1, <3>2, <3>5, SectionsApart
      <4> QED
        BY <1>2, <3>1, <3>2, <4>1
    <3>6. x.section < y.section \/ y.section < x.section
      BY <1>14, <3>1, <3>2, <3>3
    <3> QED
      BY <3>4, <3>5, <3>6
  <2> QED
    BY <2>2, <2>3, <2>4, <2>5, <2>6
<1>15. ASSUME NEW k \in DOMAIN Ordered, NEW i \in DOMAIN t, t[i].section = k,
              i = 1 \/ t[i - 1].section # k
       PROVE  t[i].page - 1 + Cover = dests'[Ordered[k]]
  <2>1. i \in 1 .. m + Len(rest) /\ i > m
    <3>1. i \notin 1 .. m
      BY <1>7, <1>12, <1>15
    <3> QED
      BY <1>8, <1>10, <1>11, <3>1
  <2> DEFINE j == i - m
  <2>2. j \in 1 .. Len(rest) /\ rest[j].section = k /\ t[i].page = rest[j].page + pages
    BY <1>13, <1>15, <2>1
  <2>3. j = 1 \/ rest[j - 1].section # k
    <3> SUFFICES ASSUME j # 1
                 PROVE  rest[j - 1].section # k
      OBVIOUS
    <3>1. /\ i - 1 \in 1 .. m + Len(rest) /\ i - 1 > m /\ (i - 1) - m = j - 1 /\ i # 1
      BY <1>8, <1>10, <2>1, <2>2
    <3>2. t[i - 1].section = rest[j - 1].section
      BY <1>13, <3>1
    <3> QED
      BY <1>15, <3>1, <3>2
  <2> HIDE DEF j
  <2>4. rest[j].page = starts[k] + 1
    BY <1>3, <1>8, <2>2, <2>3 DEF SectionsRight
  <2> QED
    BY <1>2, <1>5, <1>6, <1>7, <2>2, <2>4
<1>16. ASSUME NEW p \in Range(t), p.leads # NoPage
       PROVE  p.number - 1 + Cover = dests'[p.leads]
  <2>1. PICK i \in 1 .. m + Len(rest) : t[i] = p
    BY <1>11 DEF Range
  <2>2. i \in 1 .. m
    <3>1. ~(i > m)
      BY <1>13, <1>16, <2>1
    <3> QED
      BY <1>8, <1>10, <3>1
  <2>3. p.leads \in Range(Ordered) /\ p.number = Leads(guess + 1)[p.leads]
    BY <1>12, <1>16, <2>1, <2>2 DEF TrueLink
  <2>4. PICK k \in DOMAIN Ordered : Ordered[k] = p.leads
    BY <2>3 DEF Range
  <2>5. p.number = starts[k] + (guess + 1)
    BY <1>2, <2>3, <2>4, LeadsThere
  <2>6. dests'[p.leads] = starts[k] + (pages + Cover)
    BY <1>5, <2>4
  <2>7. starts[k] \in Nat /\ pages \in Nat /\ guess = pages /\ Cover \in Nat
    BY <1>2, <1>4, <1>6, <1>7
  <2>8. p.number - 1 + Cover = starts[k] + (pages + Cover)
    BY <2>5, <2>7
  <2> QED
    BY <2>6, <2>8
<1>17. ASSUME NEW i \in DOMAIN site'.toc, site'.toc[i].page \in DOMAIN dests'
       PROVE  InOutline(i)' /\ BookmarkOf(i)' = dests'[site'.toc[i].page]
  <2> DEFINE names == DOMAIN dests'
  <2>1. i \in DOMAIN site.toc /\ site.toc[i].page \in names
    BY <1>1, <1>17
  <2>2. \A j : Reached(j)' = {l \in Under(j) : site.toc[l].page \in names}
    BY <1>1 DEF Reached, Under
  <2> HIDE DEF names
  <2>3. /\ Min({j \in Under(i) : site.toc[j].page \in names}) = i
        /\ \A j \in 1 .. i : i \in Under(j) => {l \in Under(j) : site.toc[l].page \in names} # {}
    BY <1>2, <2>1, OwnBookmark
  <2>4. InOutline(i)'
    BY <1>1, <2>2, <2>3 DEF InOutline, Under
  <2>5. Min(Reached(i)') = i
    BY <2>2, <2>3
  <2> QED
    BY <1>1, <2>4, <2>5 DEF BookmarkOf
<1>18. Cardinality({i \in DOMAIN t : t[i].section = 0}) = 1 + n
  <2>1. {i \in DOMAIN t : t[i].section = 0} = 1 .. m
    <3>1. ASSUME NEW i \in 1 .. m + Len(rest), t[i].section = 0
          PROVE  i \in 1 .. m
      <4>1. ~(i > m)
        BY <1>5, <1>7, <1>13, <3>1
      <4> QED
        BY <1>8, <1>10, <4>1
    <3>2. \A i \in 1 .. m : i \in 1 .. m + Len(rest)
      BY <1>8, <1>10
    <3> QED
      BY <1>11, <1>12, <3>1, <3>2
  <2>2. Cardinality(1 .. m) = m
    BY <1>10, FS_Interval
  <2> QED
    BY <1>3, <2>1, <2>2 DEF m
<1>19. ContentsAreTrue'
  <2>1. Pieces' = Range(t)
    BY <1>1 DEF Pieces
  <2>2. n = Len(site'.toc)
    BY <1>1
  <2>3. Ordered' = Ordered /\ Cover' = Cover /\ site' = site /\ placed' = t
    BY <1>1, <1>6
  <2>4. /\ DOMAIN dests' = Range(site'.pages) /\ Len(Ordered') = Cardinality(DOMAIN dests')
    BY <1>5, <2>3
  <2>5. \A p, q \in Pieces' : p.section # q.section => p.page # q.page
    BY <1>14, <2>1
  <2>6. \A k \in DOMAIN Ordered' : \A i \in DOMAIN placed' :
           /\ placed'[i].section = k
           /\ i = 1 \/ placed'[i - 1].section # k
           => Physical(placed[i].page)' = dests'[Ordered'[k]]
    BY <1>15, <2>3 DEF Physical
  <2>7. \A p \in Pieces' : p.leads # NoPage => Physical(p.number)' = dests'[p.leads]
    BY <1>16, <2>1, <2>3 DEF Physical
  <2>8. Cardinality({i \in DOMAIN placed' : placed'[i].section = 0}) = 1 + Len(site'.toc)
    BY <1>18, <2>2, <2>3
  <2> QED
    BY <1>17, <2>4, <2>5, <2>6, <2>7, <2>8 DEF ContentsAreTrue
<1>20. StartsRise'
  BY <1>1, <1>3 DEF StartsRise
<1> QED
  BY <1>1, <1>19, <1>20 DEF ContentsInv

(* The start.                                                              *)
LEMMA ContentsInit ==
    ASSUME LayoutInit
    PROVE  ContentsInv
<1>1. /\ layout = "pages" /\ rounds = 0 /\ starts = <<0>> /\ pages = 1 /\ placed = <<>>
      /\ block = Nothing
  BY DEF LayoutInit
<1>2. starts[Len(starts)] < pages /\ StartsRise
  BY <1>1 DEF StartsRise
<1>3. SectionsRight(placed) /\ Range(block.parts) = {}
  BY <1>1, NothingPlaced DEF SectionsRight, Nothing
<1>4. WhilePages
  BY <1>1, <1>2, <1>3 DEF WhilePages
<1> QED
  BY <1>1, <1>2, <1>4 DEF ContentsInv, ContentsAreTrue

(* Every step.                                                             *)
LEMMA ContentsNext ==
    ASSUME Inv, ContentsInv, [LayoutNext]_paginationVars
    PROVE  ContentsInv'
<1>1. ASSUME NEW b \in PageBlocks, WriteBlock(b)
      PROVE  ContentsInv'
  BY <1>1, WriteBlockTellsPlace
<1>2. CASE PlacePart
  <2>1. layout \in {"pages", "contents"}
    BY <1>2, BoundIsDone DEF PlacePart, Inv, TypeOK
  <2> QED
    BY <1>2, <2>1, PartsTellPlace, PartsOfContents
<1>3. CASE PlaceCode
  <2>1. layout \in {"pages", "contents"}
    BY <1>3, BoundIsDone DEF PlaceCode, Inv, TypeOK
  <2>2. layout # "contents"
    BY <1>3, ContentsHaveNoCode DEF PlaceCode
  <2> QED
    BY <1>3, <2>1, <2>2, CodeTellsPlace
<1>4. CASE End
  <2>1. layout \in {"pages", "contents"}
    BY <1>4, BoundIsDone DEF End, Inv, TypeOK
  <2> QED
    BY <1>4, <2>1, EndTellsPlace, EndOfContents
<1>5. CASE NextSection
  BY <1>5, NextSectionTellsPlace
<1>6. CASE BindPages
  BY <1>6, BindsPages
<1>7. CASE StartContents
  BY <1>7, StartsContents
<1>8. CASE WriteContents
  BY <1>8, BeginContents
<1>9. CASE RedoContents
  BY <1>9, RedoesContents
<1>10. CASE Bind
  BY <1>10, ContentsAreBound
<1>11. CASE UNCHANGED paginationVars
  <2>1. UNCHANGED <<site, layout, block, pages, cy, atTop, placed, starts, content, queue,
                    guess, rounds, dests>>
    BY <1>11 DEF paginationVars, passes, flow
  <2>2. StartsRise'
    BY <2>1 DEF ContentsInv, StartsRise
  <2>3. CASE layout = "pages"
    <3>1. WhilePages'
      BY <2>1, <2>3 DEF ContentsInv, WhilePages, SectionsRight
    <3> QED
      BY <2>1, <2>2, <2>3, <3>1 DEF ContentsInv, ContentsAreTrue
  <2>4. CASE layout = "contents"
    <3>1. Stage'
      <4>1. UNCHANGED <<Entries, List, Title>>
        BY <2>1 DEF Entries, Entry, Ordered, Leads, List, Title
      <4>2. Stage
        BY <2>4 DEF ContentsInv, WhileContents
      <4> QED
        BY <2>1, <4>1, <4>2 DEF Stage, TitleToCome, TitleBegun, TitlePlaced, ListToCome,
                                EntryToCome, AllPlaced, Nothing, EntriesEnd
    <3>2. \A p \in Pieces' : TrueLink(p)
      BY <2>1, <2>4 DEF ContentsInv, WhileContents, Pieces
    <3> QED
      BY <2>1, <2>4, <3>1, <3>2, ContentsGoOn
  <2>5. CASE layout # "pages" /\ layout # "contents"
    <3>1. ContentsAreTrue'
      BY <2>1 DEF ContentsInv, ContentsAreTrue, Ordered, Cover, Physical, Pieces, InOutline,
                  BookmarkOf, Under, Reached
    <3> QED
      BY <2>1, <2>2, <2>5, <3>1 DEF ContentsInv
  <2> QED
    BY <2>3, <2>4, <2>5
<1> QED
  BY <1>1, <1>2, <1>3, <1>4, <1>5, <1>6, <1>7, <1>8, <1>9, <1>10, <1>11 DEF LayoutNext

(* On any such paper, for any blocks and sites: every page of the site is  *)
(* bound once and has a destination, nothing stands above the first part   *)
(* of its section, each number in the printed contents is the one in the   *)
(* footer of the page that its link jumps to, each bookmark leads there    *)
(* too, and the contents have one line for each entry of the toc           *)
(* (pdf/mod.rs, layout.rs and paint.rs).                                   *)
THEOREM ContentsAreAlwaysTrue == LayoutSpec => []ContentsAreTrue
<1>1. LayoutInit => Inv /\ ContentsInv
  BY InitIsRight, ContentsInit
<1>2. Inv /\ ContentsInv /\ [LayoutNext]_paginationVars => (Inv /\ ContentsInv)'
  BY NextKeeps, ContentsNext
<1>3. ContentsInv => ContentsAreTrue
  BY DEF ContentsInv
<1> QED
  BY <1>1, <1>2, <1>3, PTL DEF LayoutSpec
=============================================================================
