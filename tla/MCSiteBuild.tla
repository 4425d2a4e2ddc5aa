---------------------------- MODULE MCSiteBuild ----------------------------
(* Small sites for SiteBuild: two pages and the entry document. *)
EXTENDS SiteBuild, TLC

CONSTANTS home, guide

\* A sound page without references.
Page(title, body) ==
    [title |-> title, body |-> body, broken |-> "no", defines |-> 0,
     links |-> {}, icons |-> {}, players |-> {}, start |-> FALSE, toc |-> {}]
NotAPage == Page(NoPage, 0)

Entry(defines, toc) == [NotAPage EXCEPT !.defines = defines, !.toc = toc]
Home(body) == [Page("Home", body) EXCEPT !.start = TRUE]

FirstSite == (Root :> Entry(0, {})) @@ (home :> Home(0)) @@ (guide :> Page("Guide", 0))

\* The chrome with the chapter list, the page set, links, icons and
\* the start page may change, and every file may break.
EditedSite ==
    (Root :> {Entry(0, {}), Entry(1, {guide}), [Entry(0, {}) EXCEPT !.broken = "syntax"]})
    @@ (home :> {Home(0), [Page("Home", 0) EXCEPT !.links = {guide}],
                 [Home(0) EXCEPT !.icons = {"tip"}],
                 [Home(0) EXCEPT !.icons = {"tip"}, !.broken = "eval"]})
    @@ (guide :> {Page("Guide", 0), NotAPage,
                  [Page("Guide", 0) EXCEPT !.icons = {"note"}, !.start = TRUE],
                  [Page("Guide", 0) EXCEPT !.broken = "page"]})

\* Prose changes, and the home page may fail to parse or to evaluate.
BreakingSite ==
    (Root :> {Entry(0, {})})
    @@ (home :> {Home(0), Home(1), [Home(0) EXCEPT !.broken = "syntax"],
                 [Home(0) EXCEPT !.broken = "eval"]})
    @@ (guide :> {Page("Guide", 0), Page("Guide", 1)})

\* The guide also holds a top-level definition.
DefiningSite ==
    (Root :> {Entry(0, {})})
    @@ (home :> {Home(0), Home(1)})
    @@ (guide :> {Page("Guide", 0), [Page("Guide", 0) EXCEPT !.defines = 1]})

\* The guide gets the first terminal of the site.
PlayingSite ==
    (Root :> {Entry(0, {})})
    @@ (home :> {Home(0), Home(1)})
    @@ (guide :> {Page("Guide", 0),
                  [Page("Guide", 1) EXCEPT !.players = {"terminal"}]})
============================================================================
