-------------------------------- MODULE Sites --------------------------------
(***************************************************************************)
(* The sites of one document and the output directory that they share:     *)
(* which pages belong to which site, where each is written, where links    *)
(* lead, what a visitor of a directory finds, and which slot of its        *)
(* template each block of a page is placed in (wcl_wdoc's build.rs,        *)
(* inline.rs, html/page.rs).  A directory keeps what earlier builds wrote. *)
(* Wording, styles, assets and what a template does with its slots are     *)
(* left out.                                                               *)
(***************************************************************************)
EXTENDS Integers, SequencesExt

CONSTANTS Documents,    \* the documents that are built first
          Revisions,    \* the documents that one is edited into
          Layouts,      \* the slots of each template: name -> set of slots
          Children,     \* the items that a page or another item may contain
          Nesting,      \* how deep the repeaters of a page are nested
          MaxBuilds

VARIABLES authored,     \* the authored, [sites, pages]
          output,       \* the files of the output directory, <<directory, name>>
          report        \* what the last build said and wrote
siteVars == <<authored, output, report>>

None == "none"
RootDir == ""
Unbuilt == [ok |-> FALSE, filter |-> None, written |-> {}, left |-> {}, builds |-> 0]
-----------------------------------------------------------------------------
(* Sites and their pages.                                                  *)

\* What stands at some places of a sequence, in their order.
At(s, places) ==
    [n \in 1..Cardinality(places) |->
        s[CHOOSE i \in places : Cardinality({j \in places : j <= i}) = n]]

SiteNames(doc) == {doc.sites[i].name : i \in DOMAIN doc.sites}

\* No site has the name that the root of the directory has here.
ASSUME DocumentsAssumption ==
    \A doc \in Documents \cup Revisions :
        /\ doc.sites \in Seq(Range(doc.sites)) /\ RootDir \notin SiteNames(doc)
        /\ doc.pages \in Seq(Range(doc.pages))
        /\ \A i \in DOMAIN doc.pages : doc.pages[i].items \in Seq(Children)

InSite(page, name) == page.sites = {} \/ name \in page.sites

\* A document without a site is built as one that has every page.
WholeSite(doc) ==
    [name |-> None, root |-> FALSE, template |-> None, items |-> <<>>, pages |-> doc.pages]
SiteSpec(doc, site) ==
    [name |-> site.name, root |-> site.root, template |-> site.template, items |-> site.items,
     pages |-> At(doc.pages, {i \in DOMAIN doc.pages : InSite(doc.pages[i], site.name)})]
CollectSiteSpecs(doc) ==
    IF doc.sites = <<>> THEN <<WholeSite(doc)>>
    ELSE [i \in DOMAIN doc.sites |-> SiteSpec(doc, doc.sites[i])]

SitesAgree(doc) ==
    /\ Len(doc.sites) > 1 =>
          /\ None \notin SiteNames(doc)
          /\ \A i, j \in DOMAIN doc.sites : doc.sites[i].name = doc.sites[j].name => i = j
          /\ \A i \in DOMAIN doc.pages : doc.pages[i].sites # {}
    /\ doc.sites # <<>> => \A i \in DOMAIN doc.pages : doc.pages[i].sites \subseteq SiteNames(doc)
    /\ \A i, j \in DOMAIN doc.sites : doc.sites[i].root /\ doc.sites[j].root => i = j

RootSite(doc) ==
    LET roots == {i \in DOMAIN doc.sites : doc.sites[i].root}
    IN  IF roots = {} THEN None ELSE doc.sites[CHOOSE i \in roots : TRUE].name

BuildSet(specs, filter) ==
    IF filter = None THEN specs
    ELSE At(specs, {i \in DOMAIN specs : specs[i].name = filter})

\* A site is written at the root of the directory when it is built alone or is
\* the root site.
SiteLayout(spec, multi, root) ==
    IF ~multi \/ (root # None /\ spec.name = root) THEN RootDir ELSE spec.name

\* What a link to a site is given as, from wherever it is written.
SitePrefix_ByName(name, root) == name
SitePrefix(name, root) == IF name = root THEN RootDir ELSE name

StartsOf(spec) == {i \in DOMAIN spec.pages : spec.pages[i].start}
-----------------------------------------------------------------------------
(* Slots.  A child of a page is an item: of a kind, which is the name of a *)
(* slot if it fills one, conditional or not, with what it contains.  A     *)
(* repeater contains items and gives them as often as its data says.       *)

Slots(template) == IF template \in DOMAIN Layouts THEN Layouts[template] ELSE {}
SlotNames(slots) == {s.name : s \in slots}
Repeated(slots) == {s \in slots : s.repeated}
IsCollection(template) == \E s \in Repeated(Slots(template)) : s.name = "content"

ASSUME LayoutsAssumption == None \notin DOMAIN Layouts
ASSUME ChildrenAssumption ==
    \A x \in Children : x.items \in Seq(Children) /\ x.times \in Nat /\ x.conditional \in BOOLEAN

\* The template of a page is its own, "written" out or "computed", or that of
\* its site, which is always written out; a page may have none.
NoTemplate == [is |-> "absent", name |-> None]
IsWritten(template) == template.is = "written"
TemplateOf(page, spec) ==
    IF page.template # NoTemplate THEN page.template
    ELSE IF spec.template # None THEN [is |-> "written", name |-> spec.template] ELSE NoTemplate

SiteSlotNames(spec) ==
    LET used == {spec.template} \cup {spec.pages[i].template.name :
                     i \in {j \in DOMAIN spec.pages : IsWritten(spec.pages[j].template)}}
    IN  UNION {SlotNames(Slots(t)) : t \in used}
GlobalSlotNames == UNION {SlotNames(Layouts[t]) : t \in DOMAIN Layouts}

\* An item with its repeaters expanded, each as often as its data says, or once.
Unrolled(item, once) ==
    LET Times(x) == IF once THEN 1 ELSE x.times
        Given(x) == IF x.kind = "repeater" THEN FlattenSeq([n \in 1..Times(x) |-> x.items])
                    ELSE <<x>>
        round[n \in 0..Nesting] ==
            IF n = 0 THEN <<item>>
            ELSE FlattenSeq([i \in DOMAIN round[n - 1] |-> Given(round[n - 1][i])])
    IN  round[Nesting]
Expanded(items) == FlattenSeq([i \in DOMAIN items |-> Unrolled(items[i], FALSE)])
ASSUME NestingAssumption ==
    Nesting \in Nat /\ \A x \in Children : \A y \in Range(Unrolled(x, TRUE)) : y.kind # "repeater"

\* What a page may come to, without the data of its repeaters, each part at its
\* place; and whether there is content in a repeater.
PieceAt(at, item) == [at |-> at, item |-> item]
Parts(items) ==
    UNION {{PieceAt(<<i, n>>, Unrolled(items[i], TRUE)[n]) : n \in DOMAIN Unrolled(items[i], TRUE)} :
               i \in DOMAIN items}
HasContent(item) == \E x \in Range(Unrolled(item, TRUE)) : x.kind \notin GlobalSlotNames

\* A fill is counted, dropped on demand, refused, or no fill at all.
RecordSlotFill(item, slots, spec) ==
    IF item.kind \in SlotNames(slots) THEN "fill"
    ELSE IF item.conditional
         THEN IF item.kind \in SiteSlotNames(spec) THEN "dropped" ELSE "refused"
    ELSE IF item.kind \in SiteSlotNames(spec) \cup GlobalSlotNames THEN "refused"
    ELSE "content"

\* A contextual item may stand anywhere in a page.
Accepts(slot, item, onPage) ==
    slot.accepts = {} \/ item.kind \in slot.accepts \/ (onPage /\ item.contextual)

\* Mutant of FillsOnce: two fills of one slot are one fill.
FillsOnce_Merged(slots, fills, loose) == loose # {} => "content" \in SlotNames(slots)
FillsOnce(slots, fills, loose) ==
    /\ loose # {} => "content" \in SlotNames(slots)
    /\ \A p, q \in fills : p.item.kind = q.item.kind => p = q
    /\ loose # {} => \A p \in fills : p.item.kind # "content"

\* What a slot is given: the contents of its fill, or the loose items.
GivenTo(slot, fills, loose) ==
    (IF slot.name = "content" THEN loose ELSE {})
    \cup UNION {Range(p.item.items) : p \in {p \in fills : p.item.kind = slot.name}}
FillsFit(slots, fills, loose, onPage) ==
    \A slot \in slots :
        /\ \/ slot.optional
           \/ \E p \in fills : p.item.kind = slot.name
           \/ slot.name = "content" /\ loose # {}
        /\ \A x \in GivenTo(slot, fills, loose) : Accepts(slot, x, onPage)

\* Only a page that is written out, under a template that is, is checked.
ValidatePage(page, spec) ==
    LET template == TemplateOf(page, spec)
        all == Slots(template.name)
        slots == IF IsCollection(template.name) THEN Repeated(all) ELSE all
        counted == {p \in Parts(page.items) : page.items[p.at[1]].kind = "repeater" =>
                                                   p.item.kind \in GlobalSlotNames}
        Kept(verdict) == {p \in counted : RecordSlotFill(p.item, slots, spec) = verdict}
        loose == {p.item : p \in Kept("content")}
                 \cup {x \in Range(page.items) : x.kind = "repeater" /\ HasContent(x)}
    IN  page.generated \/ ~IsWritten(template) \/ template.name \notin DOMAIN Layouts
        \/ /\ IsCollection(template.name) => template.name = spec.template
           /\ Kept("refused") = {}
           /\ FillsOnce(slots, Kept("fill"), loose)
           /\ FillsFit(slots, Kept("fill"), loose, TRUE)

\* A collection takes what it does not repeat from its site.
ValidateSite(spec) ==
    LET slots == {s \in Slots(spec.template) : ~s.repeated}
        names == SlotNames(slots)
        fills == {PieceAt(i, spec.items[i]) : i \in {i \in DOMAIN spec.items : spec.items[i].kind \in names}}
        loose == {x \in Range(spec.items) : x.kind \notin names}
    IN  IsCollection(spec.template) => FillsOnce(slots, fills, loose) /\ FillsFit(slots, fills, loose, FALSE)

ValidateSlotContracts(spec) ==
    ValidateSite(spec) /\ \A i \in DOMAIN spec.pages : ValidatePage(spec.pages[i], spec)

FillsOf(made, slot) == At(made, {i \in DOMAIN made : made[i].kind = slot})

\* What the template of a page finds in its slots: of a slot the last fill.
Place(items, template, spec) ==
    LET names == SlotNames(Slots(template))
        made == Expanded(items)
        Passed(x) == x.conditional /\ x.kind \in SiteSlotNames(spec)
        Given(slot) == IF slot = "content"
                       THEN At(made, {i \in DOMAIN made : made[i].kind \notin names /\ ~Passed(made[i])})
                       ELSE IF FillsOf(made, slot) = <<>> THEN <<>>
                       ELSE Last(FillsOf(made, slot)).items
    IN  [slot \in IF template = None THEN {"content"} ELSE names |-> Given(slot)]

\* What a collection finds in the slots of a member: of a slot every fill.
InFills(made, slot) ==
    LET fills == FillsOf(made, slot) IN FlattenSeq([i \in DOMAIN fills |-> fills[i].items])
NotInFills(made, names) == At(made, {i \in DOMAIN made : made[i].kind \notin names /\ ~made[i].conditional})
PlaceMember(items, slots) ==
    LET made == Expanded(items)
        names == SlotNames(slots)
    IN  [slot \in names |-> IF slot = "content" THEN NotInFills(made, names) ELSE InFills(made, slot)]
-----------------------------------------------------------------------------
(* Links.  An address goes up to the root of the directory or not, and     *)
(* down into the directory of a site.                                      *)

Address(up, down, name) == [up |-> up, down |-> down, name |-> name]
Broken == Address(0, RootDir, None)

HasPage(spec, name) == \E i \in DOMAIN spec.pages : spec.pages[i].name = name
ResolveHref(doc, spec, directory, root, to) ==
    LET isThere == \E s \in Range(CollectSiteSpecs(doc)) : s.name = to.site /\ HasPage(s, to.page)
    IN  IF to.site = None
        THEN IF HasPage(spec, to.page) THEN Address(0, RootDir, to.page) ELSE Broken
        ELSE IF ~isThere THEN Broken
        ELSE IF to.site = spec.name THEN Address(0, RootDir, to.page)
        ELSE Address(IF directory = RootDir THEN 0 ELSE 1, SitePrefix(to.site, root), to.page)

\* Where a browser is taken from a page in a directory.
Nowhere == <<None, None>>
Lands(directory, address) ==
    CASE directory = RootDir /\ address.up = 0 -> <<address.down, address.name>>
      [] directory # RootDir /\ address.up = 1 -> <<address.down, address.name>>
      [] directory # RootDir /\ address.up = 0 /\ address.down = RootDir -> <<directory, address.name>>
      [] OTHER -> Nowhere
-----------------------------------------------------------------------------
(* A build.                                                                *)

Link(to, address) == [to |-> to, address |-> address]
File(from, links, placed) == [from |-> from, links |-> links, placed |-> placed]
Home == [site |-> RootDir, page |-> None]

\* What the frame of a page links to: the home of all sites, from below it.
FrameLinks(directory) ==
    IF directory = RootDir THEN {} ELSE {Link(Home, Address(1, RootDir, "index"))}
LinksOf(doc, spec, directory, root, links) ==
    {Link(to, ResolveHref(doc, spec, directory, root, to)) : to \in links}

\* The progress of a build: the files and what of them is its own.
Begun(files) == [files |-> files, written |-> {}, ok |-> TRUE]
Put(state, path, file) ==
    [files |-> [p \in DOMAIN state.files \cup {path} |-> IF p = path THEN file ELSE state.files[p]],
     written |-> state.written \cup {path},
     ok |-> state.ok]
Abandoned(state) == [state EXCEPT !.ok = FALSE]

BuildNormalPage(doc, spec, directory, root, state, page) ==
    LET name == TemplateOf(page, spec).name
    IN  IF name # None /\ name \notin DOMAIN Layouts THEN Abandoned(state)
        ELSE Put(state, <<directory, page.name>>,
                 File(<<spec.name, page.name>>,
                      LinksOf(doc, spec, directory, root, page.links) \cup FrameLinks(directory),
                      Place(page.items, name, spec)))

BuildCollectionPage(doc, spec, directory, root, state) ==
    LET links == UNION {spec.pages[i].links : i \in DOMAIN spec.pages}
        slots == Repeated(Slots(spec.template))
        members == [i \in DOMAIN spec.pages |-> PlaceMember(spec.pages[i].items, slots)]
    IN  Put(state, <<directory, "index">>,
            File(<<spec.name, None>>,
                 LinksOf(doc, spec, directory, root, links) \cup FrameLinks(directory), members))

HasBrokenLink(spec, state) ==
    \E path \in state.written :
        /\ state.files[path].from[1] = spec.name
        /\ \E link \in state.files[path].links : link.address = Broken

\* Pages in their order, until one fails.
BuildPages(doc, spec, directory, root, state) ==
    LET built[n \in 0..Len(spec.pages)] ==
            IF n = 0 THEN state
            ELSE IF ~built[n - 1].ok THEN built[n - 1]
            ELSE BuildNormalPage(doc, spec, directory, root, built[n - 1], spec.pages[n])
    IN  built[Len(spec.pages)]

NamesDiffer(pages) == \A i, j \in DOMAIN pages : pages[i].name = pages[j].name => i = j

CheckLinks(spec, state) ==
    IF state.ok /\ HasBrokenLink(spec, state) THEN Abandoned(state) ELSE state

BuildSite(doc, spec, directory, root, state) ==
    IF ~ValidateSlotContracts(spec) \/ ~NamesDiffer(spec.pages) THEN Abandoned(state)
    ELSE CheckLinks(spec, IF IsCollection(spec.template)
                          THEN BuildCollectionPage(doc, spec, directory, root, state)
                          ELSE BuildPages(doc, spec, directory, root, state))

\* The start page is copied over the index, whatever wrote it.
CopyStart(spec, directory, state) ==
    LET starts == StartsOf(spec)
        start == spec.pages[CHOOSE i \in starts : TRUE].name
        from == <<directory, start>>
    IN  IF ~state.ok THEN state
        ELSE IF \E i, j \in starts : i # j THEN Abandoned(state)
        ELSE IF starts = {} \/ start = "index" THEN state
        ELSE IF from \notin DOMAIN state.files THEN Abandoned(state)
        ELSE Put(state, <<directory, "index">>, state.files[from])

\* Beside other sites a site without an index is given one that redirects.
EnsureSiteIndex(spec, directory, multi, state) ==
    IF ~state.ok \/ ~multi \/ <<directory, "index">> \in DOMAIN state.files \/ spec.pages = <<>>
    THEN state
    ELSE LET to == [site |-> None, page |-> spec.pages[1].name]
         IN  Put(state, <<directory, "index">>,
                 File(<<spec.name, None>>, {Link(to, Address(0, RootDir, to.page))}, <<>>))

\* Without a root site the root of the directory leads to the sites.
WriteChooserIndex(build, root, state) ==
    IF ~state.ok \/ Len(build) <= 1 \/ root # None THEN state
    ELSE Put(state, <<RootDir, "index">>,
             File(<<None, None>>,
                  {Link(Home, Address(0, build[i].name, "index")) : i \in DOMAIN build}, <<>>))

\* What a build does for a site, after the sites before it.
WriteSite(doc, spec, multi, root, state) ==
    LET directory == SiteLayout(spec, multi, root)
    IN  EnsureSiteIndex(spec, directory, multi,
                        CopyStart(spec, directory, BuildSite(doc, spec, directory, root, state)))

\* The sites in their order, until one fails; files that are written stay.
BuildSites(doc, build, root, files) ==
    LET built[n \in 0..Len(build)] ==
            IF n = 0 THEN Begun(files)
            ELSE IF ~built[n - 1].ok THEN built[n - 1]
            ELSE WriteSite(doc, build[n], Len(build) > 1, root, built[n - 1])
    IN  built[Len(build)]

BuildInner(doc, filter, files) ==
    LET build == BuildSet(CollectSiteSpecs(doc), filter)
        root == RootSite(doc)
    IN  IF ~SitesAgree(doc) \/ build = <<>> THEN Abandoned(Begun(files))
        ELSE WriteChooserIndex(build, root, BuildSites(doc, build, root, files))

SitesInit ==
    /\ authored \in Documents
    /\ output = <<>>
    /\ report = Unbuilt

Build(filter) ==
    /\ report.builds < MaxBuilds
    /\ LET done == BuildInner(authored, filter, output)
       IN  /\ output' = done.files
           /\ report' = [ok |-> done.ok, filter |-> filter, written |-> done.written,
                         left |-> {p \in DOMAIN output : p[2] = "index"},
                         builds |-> report.builds + 1]
    /\ UNCHANGED authored

Revise ==
    /\ report.builds \in 1..MaxBuilds - 1
    /\ authored' \in Revisions
    /\ report' = [report EXCEPT !.ok = FALSE]
    /\ UNCHANGED output

SitesNext == Revise \/ \E filter \in {None} \cup SiteNames(authored) : Build(filter)

SitesSpec == SitesInit /\ [][SitesNext]_siteVars
-----------------------------------------------------------------------------
(* Correctness, after a build of every site that succeeds.                 *)

IsBuilt == report.ok /\ report.filter = None
Specs == CollectSiteSpecs(authored)
DirectoryOf(spec) == SiteLayout(spec, Len(Specs) > 1, RootSite(authored))
IndexOf(spec) == <<DirectoryOf(spec), "index">>

\* A page named `index` beside a start page is written over.
IsCovered(page, spec) ==
    page.name = "index" /\ \E i \in DOMAIN spec.pages : spec.pages[i].start /\ spec.pages[i] # page
Own(spec) == {p \in Range(spec.pages) : ~IsCollection(spec.template) /\ ~IsCovered(p, spec)}

HasFile(path, spec, page) ==
    path \in report.written /\ output[path].from = <<spec.name, page>>

\* A start page has no file in a collection: what is copied over it is of an
\* earlier build.
IsOverwritten(spec) ==
    IsCollection(spec.template) /\ \E i \in StartsOf(spec) : spec.pages[i].name # "index"

\* What a visitor of a site's directory finds: its start page, its page `index`
\* or a way to its first page; an index that an earlier build left there stands
\* in for the last.
HasLanding(spec) ==
    /\ \A i \in StartsOf(spec) : HasFile(IndexOf(spec), spec, spec.pages[i].name)
    /\ Len(Specs) > 1 /\ spec.pages # <<>> => IndexOf(spec) \in report.written \cup report.left

LeadsOn(path, link) ==
    LET to == Lands(path[1], link.address)
        site == IF link.to.site = None THEN output[path].from[1] ELSE link.to.site
        spec == CHOOSE s \in Range(Specs) : s.name = site
        IsOf(page) == page.name = link.to.page
    IN  \A page \in {p \in Own(spec) : IsOf(p)} : HasFile(to, spec, page.name)

\* The way home from a site is up; the ways on from a chooser are down.
LeadsHome(path, link) ==
    LET to == Lands(path[1], link.address)
        given == {s \in Range(Specs) : IndexOf(s) = to /\ s.pages # <<>>}
    IN  /\ IF path[1] = RootDir THEN \E spec \in Range(Specs) : to = IndexOf(spec)
           ELSE to = <<RootDir, "index">>
        /\ given # {} => to \in report.written \cup report.left

HasEntrance ==
    \/ \E spec \in Range(Specs) : DirectoryOf(spec) = RootDir
    \/ HasFile(<<RootDir, "index">>, [name |-> None], None)

\* Property: in every build of all sites that succeeds, each page has a file of
\* its own, each site its landing page and the directory a way in, and every link
\* of every page, and of the pages that are made up for the reader, leads to what
\* it names, however the sites are laid out, whichever is at the root and wherever
\* a page is copied.  (A link into a collection has no file to lead to; the
\* presentations chapter says so.  A site without pages has no index.  What an
\* earlier build wrote may lead anywhere.)
LinksLeadToTheirPages ==
    IsBuilt =>
        /\ HasEntrance
        /\ \A spec \in Range(Specs) : ~IsCollection(spec.template) =>
              /\ NamesDiffer(spec.pages) /\ HasLanding(spec)
              /\ \A page \in Own(spec) : HasFile(<<DirectoryOf(spec), page.name>>, spec, page.name)
        /\ \A path \in report.written \ {IndexOf(s) : s \in {s \in Range(Specs) : IsOverwritten(s)}} :
              \A link \in output[path].links :
                  IF link.to = Home THEN LeadsHome(path, link) ELSE LeadsOn(path, link)

\* The slots that a page fills and what became of them.
PageSlots(template) == IF IsCollection(template) THEN Repeated(Slots(template)) ELSE Slots(template)
PlacedOf(spec, i) ==
    IF IsCollection(spec.template) THEN output[IndexOf(spec)].placed[i]
    ELSE output[<<DirectoryOf(spec), spec.pages[i].name>>].placed

\* What is written so that it can be checked: no block is named `content`, and a
\* repeater fills a slot once and nothing on demand that no layout knows.
FillsPlainly(page) ==
    /\ \A x \in Range(Expanded(page.items)) : x.kind # "content"
    /\ \A x \in Range(page.items) : x.kind = "repeater" =>
          LET made == Unrolled(x, FALSE)
          IN  \A i, j \in DOMAIN made :
                 /\ made[i].conditional => made[i].kind \in GlobalSlotNames
                 /\ made[i].kind \in GlobalSlotNames /\ made[i].kind = made[j].kind => i = j

CheckedPages(spec) ==
    {i \in DOMAIN spec.pages :
        LET page == spec.pages[i]
            template == TemplateOf(page, spec)
        IN  /\ ~page.generated /\ FillsPlainly(page) /\ ~IsOverwritten(spec)
            /\ IsWritten(template) /\ template.name \in DOMAIN Layouts
            /\ IF IsCollection(spec.template) THEN template.name = spec.template
               ELSE page \in Own(spec)}

\* What a page means for a slot, in the order of the page.
Meant(page, names, slot) ==
    InFills(Expanded(page.items), slot)
    \o IF slot = "content" THEN NotInFills(Expanded(page.items), names) ELSE <<>>

\* Property: a build that succeeds gives each slot of a checked page exactly what
\* the page wrote for it, or a repeater made for it, loose blocks to the slot
\* `content`; it leaves out only what the page fills on demand for another layout
\* of its site; and what a page wrote itself is of a kind that its slot accepts.
NothingIsLost ==
    IsBuilt => \A spec \in Range(Specs) : \A i \in CheckedPages(spec) :
        LET page == spec.pages[i]
            slots == PageSlots(TemplateOf(page, spec).name)
            names == SlotNames(slots)
            placed == PlacedOf(spec, i)
            Takes(slot, x) == \A s \in slots : s.name = slot => Accepts(s, x, TRUE)
        IN  /\ \A slot \in names : placed[slot] = Meant(page, names, slot)
            /\ \A x \in Range(Expanded(page.items)) :
                  IF x.kind \in names THEN \A y \in Range(x.items) : Takes(x.kind, y)
                  ELSE IF x.conditional THEN x.kind \in SiteSlotNames(spec)
                  ELSE "content" \in names /\ x.kind \notin GlobalSlotNames
            /\ \A x \in Range(page.items) :
                  x.kind \notin names /\ ~x.conditional /\ (x.kind = "repeater" => HasContent(x))
                  => Takes("content", x)
===============================================================================
