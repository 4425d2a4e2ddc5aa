----------------------------- MODULE Pagination -----------------------------
(***************************************************************************)
(* The PDF backend (crates/wcl_wdoc/src/pdf): the pages of a site are put  *)
(* in order (mod.rs), each is a section whose blocks flow down physical    *)
(* pages (layout.rs), and a site with a toc gets printed contents, made    *)
(* after the rest and bound before it, whose numbers must be those that    *)
(* the footers will carry (paint.rs).                                      *)
(*                                                                         *)
(* Only heights are kept: a block is its kind and its parts, each with a   *)
(* height and the gap under it.  Shaping, widths and what is drawn in a    *)
(* part are left out, and so are a picture that cannot be drawn, which     *)
(* takes no place, and the cards laid over a diagram, whose own pages      *)
(* never break.                                                            *)
(***************************************************************************)
EXTENDS Integers, SequencesExt

CONSTANTS
    Height,             \* of the content box of a page
    Space,              \* around most blocks, and after a paragraph
    BeforeHeading, AfterHeading,
    CodeLine, CodePad,  \* the lines of a code block, the inset of its box
    TitleHeight,        \* of the heading of the contents
    EntryHeight, EntrySpace,  \* of its entries
    Sites,              \* [pages, start, toc, cover]: the names of the pages,
                        \* the place of the start page or 0, [depth, page]
                        \* for each entry, and whether there is a cover
    PageBlocks,         \* what a page may hold
    MaxBlocks           \* bound on the blocks of a document

VARIABLES
    site,
    layout,     \* "pages", "contents" or "bound"
    written,   \* how many blocks the document has so far
    block,     \* the block being placed, Nothing between two of them
    \* The pages being laid out.
    pages,     \* how many there are
    cy,        \* the height used on the last one
    atTop,     \* whether nothing was placed on it
    placed,    \* the parts placed, in order
    boxes,     \* the boxes behind code
    hollow,    \* the pages that a block without parts opened
    \* Both passes.
    starts,    \* section_starts
    content,   \* the result of the first pass
    queue,     \* what is left of the contents to lay out
    guess,     \* t, how many pages they are taken to have
    rounds,    \* how often they were laid out
    dests      \* the physical page that each name leads to

flow == <<pages, cy, atTop, placed, boxes, hollow>>
passes == <<site, layout, written, starts, content, queue, guess, rounds, dests>>
paginationVars == <<passes, block, flow>>

Nothing == [kind |-> "nothing", parts |-> <<>>]
NoPage == ""
Part(height, gap) == [page |-> NoPage, height |-> height, gap |-> gap, number |-> 0]
NoDests == [name \in {} |-> 0]

\* Heights add up, a page has room for a line of code and its box (PageSize is
\* A4 or letter), and the inset of a box is no more than a line.
ASSUME PaperAssumption ==
    /\ {Height, Space, BeforeHeading, AfterHeading, CodeLine, CodePad, TitleHeight,
        EntryHeight, EntrySpace} \subseteq Nat
    /\ CodePad <= CodeLine
    /\ CodePad + CodeLine + CodePad <= Height
    /\ PageBlocks \subseteq
           [kind : STRING,
            parts : Seq([page : {NoPage}, height : Nat, gap : Nat, number : Nat])]
    /\ Sites \subseteq
           [pages : Seq(STRING), start : Nat, toc : Seq([depth : Nat, page : STRING]),
            cover : BOOLEAN]
    /\ \A s \in Sites : s.start <= Len(s.pages)
-----------------------------------------------------------------------------
(* The order of the sections: the start page, those of the toc, the rest;  *)
(* each page of the site once.                                             *)
Push(s, ordered, name) ==
    IF name \in Range(s.pages) /\ name \notin Range(ordered)
    THEN Append(ordered, name) ELSE ordered
Listed(s) ==
    (IF s.start = 0 THEN <<>> ELSE <<s.pages[s.start]>>)
    \o [i \in DOMAIN s.toc |-> s.toc[i].page] \o s.pages
OrderSitePages(s) ==
    LET ordered[k \in 0 .. Len(Listed(s))] ==
            IF k = 0 THEN <<>> ELSE Push(s, ordered[k - 1], Listed(s)[k])
    IN  ordered[Len(Listed(s))]

Ordered == OrderSitePages(site)
Cover == IF site.cover THEN 1 ELSE 0

\* The section being laid out; the contents are section 0.
Section == IF layout = "contents" THEN 0 ELSE Len(starts)

NewPages ==
    /\ pages' = 1 /\ cy' = 0 /\ atTop' = TRUE
    /\ placed' = <<>> /\ boxes' = {} /\ hollow' = {}

LayoutInit ==
    /\ site \in Sites
    /\ layout = "pages" /\ written = 0 /\ block = Nothing
    /\ pages = 1 /\ cy = 0 /\ atTop = TRUE
    /\ placed = <<>> /\ boxes = {} /\ hollow = {}
    /\ starts = <<0>>
    /\ content = [pages |-> 0, placed |-> <<>>, boxes |-> {}, hollow |-> {}]
    /\ queue = <<>> /\ guess = 0 /\ rounds = 0
    /\ dests = NoDests
-----------------------------------------------------------------------------
(* A block is begun, its parts are placed one by one, and it is ended.     *)
SpaceBefore(kind) ==
    CASE kind = "heading"   -> BeforeHeading
      [] kind = "paragraph" -> 0
      [] OTHER              -> Space
SpaceAfter(kind) == IF kind = "heading" THEN AfterHeading ELSE Space

\* A picture is scaled down to a page.
Shown(kind, height) ==
    IF kind = "picture" /\ height > Height THEN Height ELSE height

Breaks_WhenFull(height) == cy >= Height /\ ~atTop
Breaks_AtTopToo(height) == cy + height > Height
Breaks(height) == cy + height > Height /\ ~atTop

Begin(b) ==
    /\ block = Nothing
    /\ block' = b
    /\ cy' = IF atTop THEN cy ELSE cy + SpaceBefore(b.kind)
    /\ UNCHANGED <<pages, atTop, placed, boxes, hollow>>

Piece(page, top, height, part) ==
    [page |-> page, top |-> top, height |-> height, section |-> Section,
     number |-> part.number, leads |-> part.page]

PlacePart ==
    /\ block.kind # "code"
    /\ block.parts # <<>>
    /\ LET part == Head(block.parts)
           height == Shown(block.kind, part.height)
           page == IF Breaks(height) THEN pages + 1 ELSE pages
           top == IF Breaks(height) THEN 0 ELSE cy
       IN /\ pages' = page
          /\ placed' = Append(placed, Piece(page, top, height, part))
          /\ cy' = top + height + part.gap
    /\ atTop' = FALSE
    /\ block' = [block EXCEPT !.parts = Tail(@)]
    /\ UNCHANGED <<boxes, hollow, passes>>

(* One turn of the loop of place_code: the lines that fit under the first  *)
(* padding, at the top of a page at least one, and the box behind them.    *)
BoxHeight(n) == CodePad + n * CodeLine + CodePad

PlaceCode ==
    /\ block.kind = "code"
    /\ block.parts # <<>>
    /\ LET breaks == Breaks(CodePad + CodeLine)
           page == IF breaks THEN pages + 1 ELSE pages
           top == IF breaks THEN 0 ELSE cy
           left == Len(block.parts)
           Taken(n) == top + BoxHeight(n) <= Height \/ (n = 1 /\ (breaks \/ atTop))
           Line(i) == Piece(page, top + CodePad + (i - 1) * CodeLine, CodeLine, block.parts[i])
       IN \E n \in 0 .. left :
             /\ \A i \in 1 .. n : Taken(i)
             /\ n < left => ~Taken(n + 1)
             /\ placed' = placed \o [i \in 1 .. n |-> Line(i)]
             /\ boxes' = boxes \cup {[page |-> page, top |-> top, lines |-> n]}
             /\ block' = [block EXCEPT !.parts = SubSeq(@, n + 1, left)]
             /\ IF n < left
                THEN pages' = page + 1 /\ cy' = 0 /\ atTop' = TRUE
                ELSE pages' = page /\ cy' = top + BoxHeight(n) /\ atTop' = FALSE
    /\ UNCHANGED <<hollow, passes>>

End ==
    /\ block # Nothing
    /\ block.parts = <<>>
    /\ block' = Nothing
    /\ cy' = cy + SpaceAfter(block.kind)
    /\ hollow' = IF atTop THEN hollow \cup {pages} ELSE hollow
    /\ UNCHANGED <<pages, atTop, placed, boxes, passes>>
-----------------------------------------------------------------------------
(* layout: every section but the first starts a page.                      *)
WriteBlock(b) ==
    /\ layout = "pages"
    /\ written < MaxBlocks
    /\ written' = written + 1
    /\ Begin(b)
    /\ UNCHANGED <<site, layout, starts, content, queue, guess, rounds, dests>>

NextSection ==
    /\ layout = "pages" /\ block = Nothing
    /\ Len(starts) < Len(Ordered)
    /\ pages' = pages + 1 /\ cy' = 0 /\ atTop' = TRUE
    /\ starts' = Append(starts, pages)
    /\ UNCHANGED <<site, layout, written, block, placed, boxes, hollow,
                   content, queue, guess, rounds, dests>>

LaidOut == layout = "pages" /\ block = Nothing /\ Len(starts) = Len(Ordered)

\* A site without a toc is bound as it is.
Leads(shift) == [name \in Range(Ordered) |->
                    starts[CHOOSE k \in DOMAIN Ordered : Ordered[k] = name] + shift]
BindPages ==
    /\ LaidOut
    /\ site.toc = <<>>
    /\ layout' = "bound"
    /\ dests' = Leads(Cover)
    /\ UNCHANGED <<site, written, block, flow, starts, content, queue, guess, rounds>>

(* build_toc_section: a number and a link for each entry whose page is of  *)
(* this site.                                                              *)
Entry(e, t) ==
    IF e.page \in Range(Ordered)
    THEN [Part(EntryHeight, EntrySpace) EXCEPT !.page = e.page,
                                               !.number = Leads(t + 1)[e.page]]
    ELSE Part(EntryHeight, EntrySpace)
TocSection(t) ==
    <<[kind |-> "heading", parts |-> <<Part(TitleHeight, 0)>>],
      [kind |-> "toc", parts |-> [i \in DOMAIN site.toc |-> Entry(site.toc[i], t)]]>>

LayContents(t) ==
    /\ guess' = t
    /\ rounds' = rounds + 1
    /\ queue' = TocSection(t)
    /\ NewPages

StartContents ==
    /\ LaidOut
    /\ site.toc # <<>>
    /\ layout' = "contents"
    /\ content' = [pages |-> pages, placed |-> placed, boxes |-> boxes, hollow |-> hollow]
    /\ LayContents(1)
    /\ UNCHANGED <<site, written, block, starts, dests>>

WriteContents ==
    /\ layout = "contents" /\ queue # <<>>
    /\ Begin(Head(queue))
    /\ queue' = Tail(queue)
    /\ UNCHANGED <<site, layout, written, starts, content, guess, rounds, dests>>

ContentsLaidOut == layout = "contents" /\ queue = <<>> /\ block = Nothing
Settled_AtOnce == rounds = 1
Settled == pages = guess \/ rounds = 4

RedoContents ==
    /\ ContentsLaidOut
    /\ ~Settled
    /\ LayContents(pages)
    /\ UNCHANGED <<site, layout, written, block, starts, content, dests>>

\* The contents, which have the first pages, and behind them the rest.
Behind(piece) == [piece EXCEPT !.page = @ + pages]
Bind ==
    /\ ContentsLaidOut
    /\ Settled
    /\ layout' = "bound"
    /\ dests' = Leads(pages + Cover)
    /\ pages' = pages + content.pages
    /\ placed' = placed \o [i \in DOMAIN content.placed |-> Behind(content.placed[i])]
    /\ boxes' = {Behind(box) : box \in content.boxes}
    /\ hollow' = hollow \cup {p + pages : p \in content.hollow}
    /\ UNCHANGED <<site, written, block, cy, atTop, starts, content, queue, guess, rounds>>

LayoutNext ==
    \/ \E b \in PageBlocks : WriteBlock(b)
    \/ PlacePart \/ PlaceCode \/ End
    \/ NextSection
    \/ BindPages
    \/ StartContents \/ WriteContents \/ RedoContents \/ Bind

LayoutSpec == LayoutInit /\ [][LayoutNext]_paginationVars
-----------------------------------------------------------------------------
(* build_outline_node: the bookmark of an entry goes to its own page or to *)
(* that of the first entry under it, and one with neither is left out with *)
(* all that is under it.                                                   *)
Under(i) == {j \in i .. Len(site.toc) :
                \A k \in i + 1 .. j : site.toc[k].depth > site.toc[i].depth}
Reached(i) == {j \in Under(i) : site.toc[j].page \in DOMAIN dests}
InOutline(i) == \A j \in 1 .. i : i \in Under(j) => Reached(j) # {}
BookmarkOf(i) == dests[site.toc[Min(Reached(i))].page]

\* paint: the footer of a page has its number without the cover; this is the
\* page that the number stands for.
Physical(number) == number - 1 + Cover

Pieces == Range(placed)
Fits(page, top, height) == page \in hollow \/ top + height <= Height

\* Parts are in order and do not cover each other, across pages too.
PartsInOrder ==
    \A i \in DOMAIN placed : i < Len(placed) =>
        LET p == placed[i]
            q == placed[i + 1]
        IN p.page < q.page \/ (p.page = q.page /\ p.top + p.height <= q.top)

\* Parts are in order, and "breaking to a new page when a line would
\* overflow" (layout.rs): what is no higher than a page ends on the page it is
\* on, and so does a box of code; only on a page opened by a block that has no
\* parts may the next part end below it, because such a block uses height and
\* leaves the page "empty".
NothingIsCut ==
    /\ PartsInOrder
    /\ \A p \in Pieces : p.height <= Height => Fits(p.page, p.top, p.height)
    /\ BoxHeight(1) <= Height =>
           \A box \in boxes : Fits(box.page, box.top, BoxHeight(box.lines))

\* No page is pushed for nothing: a page holds at least one part, also when a
\* single line is higher than a page, unless it is all there is of a section
\* without any.  (The one being filled may still be waiting for its part.)
NoBlankPages ==
    layout = "pages" =>
        \A p \in 1 .. pages :
            \/ \E s \in DOMAIN starts :
                  starts[s] = p - 1 /\ \A piece \in Pieces : piece.section # s
            \/ \E piece \in Pieces : piece.page = p
            \/ p = pages /\ block.parts # <<>>

\* Printed text ends on the page it is on, and no page is empty.
FlowFits == NothingIsCut /\ NoBlankPages

\* The printed contents tell the truth: every page of the site is bound once
\* and can be reached, nothing stands above its first part, the number an
\* entry prints is the one in the footer of the page its link jumps to, and
\* its bookmark goes there too.
ContentsAreTrue ==
    layout = "bound" =>
        /\ DOMAIN dests = Range(site.pages) /\ Len(Ordered) = Cardinality(DOMAIN dests)
        /\ \A p, q \in Pieces : p.section # q.section => p.page # q.page
        /\ \A s \in DOMAIN Ordered : \A i \in DOMAIN placed :
               /\ placed[i].section = s
               /\ i = 1 \/ placed[i - 1].section # s
               => Physical(placed[i].page) = dests[Ordered[s]]
        /\ \A p \in Pieces : p.leads # NoPage => Physical(p.number) = dests[p.leads]
        /\ \A i \in DOMAIN site.toc : site.toc[i].page \in DOMAIN dests =>
               InOutline(i) /\ BookmarkOf(i) = dests[site.toc[i].page]
        /\ site.toc # <<>> =>
               Cardinality({i \in DOMAIN placed : placed[i].section = 0}) = 1 + Len(site.toc)

\* "splitting across pages at line boundaries (a fresh box per page)"
\* (layout.rs): a box of code has code in it.
CodeBoxesHoldLines == \A box \in boxes : box.lines > 0
=============================================================================
