---------------------------- MODULE MCPagination ----------------------------
(* Pages of seven units, with blocks of every kind, two that are higher    *)
(* than a page and two that have no parts; a site without a toc and with a *)
(* cover, one whose start page is not its first, and one whose toc has     *)
(* groups, a page twice, pages of no site, and too much for one page.      *)
EXTENDS Pagination

TocEntry(depth, page) == [depth |-> depth, page |-> page]
Block(kind, parts) == [parts |-> parts, kind |-> kind]
Line(height, gap) == [page |-> NoPage, height |-> height, gap |-> gap, number |-> 0]
PdfBlocks ==
    {Block("paragraph", <<>>),
     Block("paragraph", [line \in 1..3 |-> Line(1, 0)]),
     Block("heading", <<Line(2, 0)>>),
     Block("picture", <<Line(9, 0)>>),
     Block("callout", <<Line(5, 0)>>),
     Block("callout", <<Line(9, 0)>>),
     Block("list", <<Line(1, 0), Line(1, 1)>>),
     Block("list", <<>>),
     Block("table", <<Line(3, 0), Line(3, 0)>>),
     Block("code", [line \in 1..4 |-> Line(2, 0)])}

Site(names, start, toc, cover) ==
    [pages |-> names, start |-> start, toc |-> toc, cover |-> cover]
PdfSites ==
    {Site(<<"a", "b">>, 0, <<>>, TRUE),
     Site(<<"a", "b">>, 2, <<TocEntry(0, "a"), TocEntry(1, "gone"), TocEntry(0, "b")>>, FALSE),
     Site(<<"a", "b", "c">>, 2,
          <<TocEntry(0, ""), TocEntry(1, "gone"), TocEntry(1, "c"), TocEntry(0, "a"), TocEntry(0, ""),
            TocEntry(1, "a")>>, TRUE)}
=============================================================================
