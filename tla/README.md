# TLA+ verification of WCL

WCL is a typed configuration language (`crates/wcl_lang`), a documentation
generator written in it (`crates/wcl_wdoc`), a language server
(`crates/wcl_lsp`) and a command line over all three (`crates/wcl`). This
directory holds TLA+ modules of the parts whose correctness depends on the
order of events, or on two pieces of code that were written apart and must agree,
the TLC configurations that check them on small instances, and
proofs for every instance. `PROJECT.json` is the index: components, runs, the
source lines each definition stands for, hazards, findings and theorems.

    tlc -config LspPasses.cfg MCLspServer.tla     # any run: its cfg, its module
    tlapm LspServerProofs.tla                     # any *Proofs module

## 1. The system

### Components, their state and what makes them correct

| Component | Code | State | Hard part | Correct when |
|---|---|---|---|---|
| Language server state | `wcl_lsp/src/server.rs` | open buffers (a sharded map), generation counter, two caches behind locks, the set of published files, one diagnostics task | handlers run while jobs on a thread pool copy buffers and read files; every `await` of a diagnostics pass may be overtaken or be its last | no stale cache is served; a request sees the client's edits; the client ends up with the right errors; nothing waits for ever |
| Language server features | the rest of `wcl_lsp` | none: functions of a document and a position | a rename decides scope by a walk of its own, the evaluator by another | a rename changes no meaning (the other answers: tests) |
| Site build | `wcl_wdoc/src/build.rs` | the output directory: pages, `index.html`, manifest, sprite, scripts | a targeted build rewrites some pages and trusts the rest; builds fail or are killed half-way; several sites share a directory; slots are checked by one piece of code and filled by two others | a page that is served is out of date only with respect to changes still to be taken up; links lead to their pages; no block of a page is lost |
| Development server | `wcl_wdoc/src/serve/mod.rs` | pending files, rebuild queue, generation, error page, parked polls | watcher, worker, HTTP handlers and browsers interleave; a drained change set is gone | reports are about builds that began after the request; tabs reload, and what they reload is there |
| Lazy evaluation | `wcl_lang/src/doc/{eval_stack,cells,connections}.rs`, `views/` | a cache in each field, projection and block; a stack of evaluations for each thread | several threads force the same caches in any order; cycles, depth limits, re-entry | every read of a field gives one result, errors are real, nobody hangs |
| Imports | `wcl_lang/src/doc/{imports,loader,open}.rs` | the sets of an expansion, the loaded sources, lazily forced in-block imports | diamonds, cycles through the main file, files edited while the tree is read | each file once, complete, cycles real, nothing unchecked is open |
| Expression evaluator | `wcl_lang/src/doc/eval*.rs`, `match_pat.rs` | none beyond lazy evaluation | scope lookup in the middle of a definition | (in Lazy evaluation) |
| Type system | `wcl_lang/src/doc/types/` | none after open | a check at open, and walks afterwards that rely on it without a guard; several roads to one variant | a field, a slot and a variant mean one thing, whichever code is asked |
| Schemas | `wcl_lang/src/doc/{schema_*,declared,validate}.rs` | none after open | the check walks down, a read looks up, slots gather: three pieces of code about one document; kinds declared by blocks | check and reads find the same faults; what passes is gathered by a slot |
| Lexer, parser, formatter | `wcl_lang/src/{lexer,parser,format}` | modes stacked for interpolated strings | the printer decides from the parser's binding powers; tokens that touch are lexed anew | what is printed is read back as what was meant |
| Editing, diff | `wcl_lang/src/{edit,diff}.rs`, `wcl set` and `wcl diff` in `wcl/src/main.rs` | none; the file on disk | a file is located, read and written at three moments; entities are matched by names made up for them | one field changes; a diff tells all |
| Values, builtins | `wcl_lang/src/{value,numeric}.rs`, `doc/eval_ops.rs`, `functions/` | none | fourteen types of numbers that are compared, promoted and narrowed by different code | one order for all; whole numbers exact or an error |
| PDF pages | `wcl_wdoc/src/pdf` | the page being filled, the contents laid out so far | contents whose length decides the numbers in them | text ends on its page; numbers, links and footers agree |
| Rendering, other backends | `wcl_wdoc/src/{render,html,svg,markdown,blocks}` | a metadata cache, a depth guard | layout and wording | what the site expands to is what its author wrote (`Expansion`); the rest is out of scope |
| Command line, scaffolding | `wcl/src` | none: one command per process | | (planned: `init`) |

### How they interact

* The **language server** opens a `Document` in a job of a thread pool. All it
  takes from the evaluator is the result of an analysis, so `LspServer` has it as
  the parameters `AnalyseRoot`, `AnalyseFile` and `SyntaxErrors`.
* `wcl wdoc serve` runs one **rebuild** at a time on a blocking thread. It drains
  `pending`, opens the document (**Imports**), renders pages (**Lazy
  evaluation**), writes them and bumps a generation that wakes the **tabs**.
  `SiteBuild` has the change sets and the disk, `DevServer` the queue, the
  generation and the tabs. They meet in the outcome of a build, which
  `DevServer` leaves open (it may fail at any step) and `SiteBuild` computes.
* The **type system** is asked by the evaluator, by `open` and by the views; the
  **printer** by `wcl fmt` and `wcl set`; **diff** by `wcl diff`, which reads two
  documents. These parts run on one thread from a call to its return, so they meet
  the others in data only, and `MCSequential` explores them side by side.
* A `Document` is `Sync`: hosts read one from several threads, and every read may
  force evaluations, which may force imports.

## 2. Modules

| Module | Models | Extends |
|---|---|---|
| `LspServer` | the language server's state | |
| `SiteBuild` | full and targeted builds, the watcher and the pending set | |
| `RebuildService` | abstract: what `POST /__wdoc_rebuild` promises | |
| `DevServer` | the worker, its queue, the reload handlers and the tabs; implements `RebuildService` | |
| `LazyEval` | the evaluation stacks and caches of one document | |
| `Imports` | loading the files of one document | |
| `Inheritance` | the check of the `extends` graph at open, and the walks that trust it | |
| `Slots` | unions, aliases, the admission of a value to a slot, and the ways to write a variant | |
| `Syntax` | the expression parser and printer, over tokens | |
| `Pagination` | the pages of a PDF, its contents, links and bookmarks | |
| `Edits` | `wcl set` beside an editor; `wcl diff` | |
| `Schemas` | `wcl check`, the check of a read, and the slots that gather blocks | |
| `Numbers` | the order, the arithmetic and the fitting of numbers of all types | |
| `Rename` | references and rename of values in the editor, against the evaluator | |
| `Sites` | the sites of a document, its pages, indexes and links, and the slots of its layouts | |
| `Expansion` | what repeaters, components and slots of a page generate, in six kinds of walk | |
| `MCSequential` | `Imports` and the ten modules after it as topics of one run | `MCImports`, `MCInheritance`, `MCPagination`, `MCNumbers`, `MCSchemas`, `MCSites`; instances of the other `MC` modules |
| `MC...` | constants for TLC | the module |
| `...Proofs` | theorems and their proofs | the module, TLAPS |

### LspServer and the code

| Variable | Code |
|---|---|
| `docs`, `disk`, `unseen` | `State::docs`; the file system, and a change the client has not reported |
| `loop` | the protocol loop between a handler's effect, `changed`'s bump and its spawn |
| `generation` | `State::generation` |
| `buffers`, `buffersLock`, `root`, `rootLock` | the two generation caches and their mutexes |
| `published`, `task`, `batch`, `shown` | `State::published`, the diagnostics task, its unsent notifications, the client's view |
| `job` | a `spawn_blocking` closure: a pass's collection or a request |

A handler is three actions: its effect (`DidOpen`, `DidChange`, `DidClose`,
`DidChangeWatchedFiles`), `Bump` and `Schedule`, because jobs on other threads run
in between. A pass is `Wake` and `Recheck` around the debounce, then its job, then
`Deliver` and one `Send` for each file; an abort is noticed at the next `await`. A
job copies the buffers one at a time (`CopyBuffer`: a sharded map has no
snapshot) and reads the files one at a time (`LoadFile`), under the lock the code
holds. The debounce is a delay of any length, so every order of its end and a
later change is there.

A buffer is its text and the number of the change that last touched it. The
number is the version of an open buffer, and it is what `ReadsItsWrites` compares.

### SiteBuild and the code

A file is a record of what a build tells apart: title, body, how it breaks, what
other pages see of it (`defines`), its links, icons, players, whether it is the
start page, and the chapter list. A page file holds one page. `read` is what the
running build read, file by file, while the author keeps saving. `Target` and
`RenderAll` are the decisions of `build_inner` and `build_site`
(`AffectedPages`, `NavMatches`); `NeedFull` is the retreat when the sprite lacks an
icon. `StartFull` drops the manifest first, as the code does. `Stop` is Ctrl-C at
any step: memory is gone and the disk stays. The set `unseen` is history: the
files whose change no watcher, pending set or build owes. A property that speaks
of pages that should be current exempts the files in it.

### DevServer and the code

A build is a number, the moment it writes the page and whether it succeeds. The
worker goes through `build`, `record`, `bump` and `report` in the order of
`run_rebuild_request` and its loop, also when the build panics. A tab goes through
the static handler (the error page is looked at first, then the file is awaited),
and through the reload script's poll: comparison, subscription, a change or the
timeout. `HangUp` drops a caller.

### LazyEval and the code

An item is anything with a cache or a frame: a field or `let` (`cell`), a
`@connections` field (`projection`), the operand `index`, the `labels` of a block,
and a `call`. The code has the OnceLock without a frame three times: labels, the
arguments of a decorator and `computed_children`; the one kind `labels` stands for
all three. An expression is the sequence of the names it looks up, a name the
sequence of its bindings, innermost first, and a value is one more than the sum of
the values used, which tells a value computed from the wrong binding. `Begin`
pushes, `Refuse` is `eval_stack::enter` returning an error, `Finish` pops and
fills the cache, `Hit` is a cache that answers. A thread that finds a OnceLock being
initialised has no action until it is filled, also when it is itself the one that
initialises it.

### Imports and the code

`chain` is the recursion of `expand_top_level_imports`: each frame a file, the
text it was parsed from, and its imports to do. `loading` and `seen` are the two
sets of `ImportState`; the main file is in neither, as in the code, so a file that
imports it loads it a second time as an import. `ForceImport` is the first read of an
import inside a block, with an `ImportState` of its own. Files are edited between
any two steps. Only paths that exist canonicalise, hence the order of the guards
in `Unresolved`, `CycleFound`, `Skip` and `Enter`.

### Inheritance and the code

`source` is a document: the declarations in the order its files are searched, each
with its file, kind, name, parents and fields; a step declares one more. `Opens` is
the check (`extends.rs`: duplicates, targets, cycles, the types of overridden
fields, label slots), over edges resolved by `ByFqn`. `EffectiveFields` and
`LookupEffectiveField` are the walks of `inherit.rs`, over edges resolved again by
`LookupParent`, which looks among the types first. The walks keep no visited set.
Their recursion is cut off one level below the number of declarations and yields
`Endless` there.

### Slots and the code

`own` is the unions of a document, `slot` a type and what is written in it. `Coerce`
and `AdmitToSlot` are `slot.rs` and `inhabit.rs`: convert first, then judge. `Construct`,
`TableRowToVariant` and `DecoratorToVariant` are the other entrances to a variant, which keep
their values as they are written; `Converted` is a variant with each field as its type has it.
`ValidateUnion` is the check at open that is to make all of them unambiguous.

### Syntax and the code

`text` is a sequence of tokens, grown by writing one construct around the last.
The `Parse...` operators are the functions of `parser/expr.rs` with their binding
powers, `PrintExpr` those of `format/expr.rs`, and `Lex` is what the lexer makes of
tokens that are printed without a space. `Meaning` compares two trees: parentheses
group, a signed literal is a negation.

### Pagination and the code

An action of the layout is a call of the cursor in `layout.rs`: `Begin` a block, `PlacePart`
a line or a picture, `PlaceCode` a turn of `place_code`, `End`. `NextSection`,
`StartContents`, `RedoContents` and `Bind` are the loop of `pdf/mod.rs`, which lays the
contents out until their length is the one their numbers assume, at most four
times. Only heights are kept. `OrderSitePages` pushes the names in their order, each page once.

### Edits and the code

`disk` is the files that an editor saves; `Locate`, `Replace` and `Write` are the three
moments of `wcl set`: the document is opened and the span of a field found, the
declaring file is read and the field looked up by that span, the new text is
renamed over the file. `CollectEntities` and `DiffDocuments` are `diff.rs`, and `base`
is the other document of a diff.

### Schemas and the code

`vocabulary` is the declarations of a document and `items` what is written in it, one
block or field at a step. `SchemaOf` is the lookup of the type that governs a block,
declared or derived (`schema_lookup.rs`); `SchemaErrors` and `SchemaWarnings` are the walk of
`wcl check` (`strict.rs`, `schema_check.rs`); `Read` is the check that `Field::value` makes by
itself; `Gathered` is the blocks that the slots of the root and of blocks take. None is
defined by another. The `fields` of a type are the effective ones, by which the merge, the
gathering and the checks go; `own` is the names of those it declares itself, which is all that the
warnings compare.

### Numbers and the code

`numbers` is two operands. `PartialCmp` is `NumberKey` with the operators and the bounds
`@min`, `@max` that judge by it or by an `f64`; `ApplyBinary`, `Neg`, `BitNot` and `SumPure` are
the operators and `sum`; `FitToBuiltin` is what a field of a numeric type takes, and
`ApplyUnitFactor` what a literal with a unit becomes. The references are the places of the
numbers on a line (`OrderOf`) and the equations that a result solves (`IsResult`). All numbers are
counted in the finest step of a float, of which `One` make the whole number 1; a float type is the
numbers of so many binary digits (`Precision`) at some exponents (`Exponents`), up to a number
that it does not reach (`Beyond`).

### Rename and the code

`scopes` is the items of the main file, of a block in it and of an imported file. `Walk` is the
collector of `occurrences.rs`: its bindings are a list, innermost last, each with an identity,
and a name whose type is expected sends the walk to its initializer once more. `Refused` and
`Renamed` are `navigation.rs`: one edit at each occurrence of an identity, or none when an
occurrence has two. `Eval` is `doc/eval.rs`: locals, then `ScopeLookup`, which passes over what
is being evaluated; functions that keep their locals and are called in the scope of the caller.
A value is the place of the number or function that it comes from, so that what a document
means is told apart without any arithmetic.

### Sites and the code

`authored` is the sites and pages of a document, `output` the files of the directory with the
page each holds, its links and what its template was given, `report` what the last build did.
`Build` is `build_inner` from `collect_site_specs` to `write_chooser_index`, one operator for each
function of `build.rs` it calls: site by site `BuildSite`, `CopyStart` and `EnsureSiteIndex`, which
looks at what is on disk. `ValidatePage` is the check of the slot contract, which sees a repeater
unexpanded; `Place` (a page of its own, also `render_template`, which gives the slot `content` the
loose blocks whatever fills it by name) and `PlaceMember` (`page_handle_value` of `html/page.rs`) are
what the template finds. `Unrolled` opens the repeaters in an item (once each, as the check sees
them, or as often as their data says) in rounds, of which there are as many as repeaters are nested
(`Nesting`); `Expanded` does so for all items of a page, which with all they contain are `Children`.
A template is a set of slots (`Layouts`), and `At` picks what stands at some places of a list, in its
order: the pages of a site, the sites that are built. `ResolveHref` is `inline.rs`; `Lands` is a browser.

### Expansion and the code

`todo` is the recursion of a walk: the views that are still to be visited, each a block with the
frames it is read under. `ExpandBodies` is `expand_bodies_inner` (`views/block.rs`): a frame for
each binding set, below the scope of a repeater or of the definition of a component, with the fills
of the instance and one more than its depth. `cell` is the place where a view keeps what it
evaluated, for the next walk as well (`cached`). A walk is a page in HTML or in a static format, a
diagram, navigation, style rules or the `@children` of the language: they differ in which
blocks they know (`PassOver`), where they stop (`TooDeep`) and what they report. `charge_expansion`
is `Charge`. `Meaning`, the reference, has neither frames nor cells: it works out what is written for
a slot where it is written and puts it where the slot is.

## 3. Runs

Every run checks for deadlock except `Sequential` and `SchemaShadows`: a document that is
loaded, a text as long as the bound and a site that is bound have nothing left to
do.

| Run | Instance | Shows |
|---|---|---|
| `LspPasses` | root open or closed, a broken library on disk, 2 changes, 1 request, fairness | caches are never served stale; the root cache never goes back; a request sees the client's edits and is answered, whatever holds the locks; at rest the client shows what is true |
| `LspNoRoot` | no root document, 2 buffers, a disk that changes, 2 changes, fairness | the client's view becomes right and stays right |
| `LspStaleErrors` | 3 changes | *violation*: see findings |
| `SiteStale` | 2 pages and the root, 3 edits, 1 stop | staleness is always owed to a change still to be taken up; the manifest is true; links and icons; the index is the start page, as long as no two pages are marked at once; rebuilding repairs |
| `SiteDrained`, `SiteDefines`, `SitePlayers` | one kind of edit each | *violations*: see findings |
| `ServeTabs` | 2 callers, Enter, 1 tab | `RebuildService` is implemented; every request is answered; a tab reloads, and finds the outcome it reloads for |
| `LazyReads` | 8 documents, 2 threads with room for 4 and 3 frames | reads agree, cycles are real, values are exact, projections heal, every read ends, so nobody hangs |
| `LazyLabels` | a label that leads to itself | *violation*: see findings |
| `Sequential` | the topics below | see the topics |
| `SchemaShadows` | the topic `schemas` | *violation*: see findings |

`MCSequential` is the disjoint union of its topics: a behaviour begins with the choice
of a topic, only that topic's variables change, and a property of a topic is one of
the instance behind `topic = "..." =>`. (The variables of `Imports`, `Inheritance`,
`Pagination`, `Numbers`, `Schemas` and `Sites` rest at values for which their properties hold, so these are
stated without that guard; `MCSequential` extends these six modules, whose theorems are about the
same properties.)

| Topic | Instance | Shows |
|---|---|---|
| `imports` | 4 files of 3 or 4 texts, 2 edits, in-block imports 2 deep | each file once, complete, real cycles, nothing unchecked |
| `inheritance` | every `extends` graph of 5 declarations in 3 files | once the check has passed, walks end and a field means one thing |
| `syntax` | 3 constructs around an atom | formatting keeps the meaning, in a field and in a table cell |
| `slots` | 3 unions, 2 declared variants, aliases and units | admission is stable; a constructor gives what the record is taken for, a row or a decorator the same before its fields are converted |
| `pagination` | 3 sites, 3 blocks of any kind, pages 7 high | nothing is cut, no page is blank, the contents are true |
| `edits` | 5 paths, 1 save, diffs of any two states | one field changes; a diff tells all and is symmetric |
| `numbers` | every two of 83 numbers around the ends of 6 types | one exact order; whole numbers are computed with exactly or not at all |
| `rename` | up to 5 items in a root, a block and an import, every name renamed | references are complete and a rename keeps the meaning |
| `sites` | 1 or 2 sites of 3 pages with links, or 2 pages with up to 2 blocks under 5 layouts; 2 builds of one or all sites, 1 edit | every link leads to its page and every directory somewhere; every block reaches its slot |
| `expansion` | 219 documents of 2 blocks with repeaters, components, slots passed on, recursion and deposits; 2 walks out of 6 in any order | each walk gives what the author means, whatever was walked before; depth and budget hold and are reported; players are found |
| `schemas` | 78 sets of declarations in 2 files, 3 or 4 blocks and fields | `wcl check` and reads agree; no admitted block vanishes, unless a root type inherits a slot that another shadows |

### Bounds, and why they are enough

* `MaxChanges` bounds the edits the language server sees. A pass can be overtaken
  by one change, so two changes already put two passes side by side at every pair
  of their steps; the third of `LspStaleErrors` is the one after the overtaken
  pass. Two files are a root and what it imports. `LspPasses` has one disk and one buffer that can be
  opened, so a job mixes there a buffer with the disk or two moments of its own; that the caches
  are right however many buffers are copied one after the other is `CachesNeverStale` and
  `RequestsReadTheirWrites` (section 4). In `LspNoRoot` the disk changes, under two buffers.
* `MaxEdits` and `MaxStops` bound the author and the restarts. With three edits a
  page breaks, is mended and another page changes; one stop is enough to leave a
  directory in any intermediate state before a full and a targeted build. They take the start mark
  from one page to the other, or away, before, during and after a build that fails; without the
  premise of one mark at a time TLC finds the behaviour of section 5 there.
* Four builds (`MaxEnters`, two callers, the initial one) let a tab be two
  generations behind. Tabs do not interact, so one suffices.
* `Room` is small so that the depth error happens on one thread and not on the
  other. Each document of `MCLazyEval` is one trap: shadowing, cycles with two
  entries, a chain longer than the stack, a label that reads a projection, an index
  built with hardly any room left, recursion, computed labels.
* Two edits between two steps of a load make any pair of texts import each
  other. `MaxNesting` cuts off imports inside blocks that import themselves; the
  code has no such bound (see hazards).
* Five declarations, two of one name in different files, make every diamond, cycle,
  override and shadowed parent; a longer chain repeats these.
* Whether parentheses are needed is decided by a construct, the one around it and
  the one that follows, hence three constructs (`MaxWrites`).
* Two declared variants collide, shadow or nest in each other and in an inherited
  one.
* Pages are 7 high, so that parts of heights 1 to 9 end before, at and after the
  end of a page; three blocks are one that fills a page, one that crosses its end
  and one behind. The contents take one page or two, which is where the numbers
  in them change.
* A slot, a block in it and a field in that are three items; a kind that is declared by a
  block needs the declarer, its parameter, an instance and a field.
* Of the numeric types two narrow ones stand for all that i128 holds; i128 and u128 have 5
  bits, f32 and f64 mantissas of 2 and 3, so that, as in the code, some integers lie between
  two f64, some f32 lie between two integers, the last u128 is beyond every f32 and no i128,
  and the floats go further than the integers. Numbers are counted in quarters, the finest step of
  this f64; that of the f32 is a half.
* An expression with a name, a binder of that name in each place that has one, a declaration of
  it in the block and one outside: that is every pair of scopes that can disagree about a name,
  hence one item for each (`MCRename`). Calls nest at most two deep (`MaxCalls`).
* Two sites are the root and another, or two without a root; a page of each and one of both are
  all the directions of a link. Two blocks on a page are two fills of a slot, a fill and a loose
  block, or either with a repeater (nested `Nesting = 2` deep, giving none, one or two). Two builds
  (`MaxBuilds`) with an edit between leave every kind of old file behind, also under a collection with a
  start page.
* With a depth of 3 and a budget of 10 blocks (`MaxLowerDepth`, `MaxExpandedBlocks`) a
  component inside itself passes the first, and one twice inside itself the second as well. Two
  walks are one that fills the cells and one that reads them.
* One save falls before, between or after the three moments of a command. A second
  could only undo or repeat it.

### Fairness

* `LspServer`: the tokio runtime polls every ready task and the pool runs every
  job (`WF` on each job, pass and answer); a handler that has begun returns
  (`WF` on `Bump` and `Schedule`); the client reports a changed file. Nothing makes
  a client edit, ask or shut down.
* `SiteBuild`: a running build goes on, quiet events are noted, the server's start
  is completed and a stopped server is started again. Nothing makes an author
  save; `RebuildsRepair` assumes in its premise that rebuilds keep being asked for.
* `DevServer`: the worker runs, a build ends, a tab's script runs. The answer at
  `POLL_TIMEOUT` is part of `Browse`.
* `LazyEval`: a thread that evaluates keeps running. A thread that waits for a
  OnceLock is not enabled, so fairness does not free it: `EveryReadEnds` is a
  statement about the code.

### Findings

Each is a `violation` run: TLC finds a behaviour of the code that contradicts what
the repository says. Quotations and lines are in `PROJECT.json`.

1. `LspStaleErrors`: a diagnostics pass replaces `published` before it has sent
   anything. Overtaken after that, it loses the files it was about to clear, and a
   file that is not open keeps its errors in the editor.
2. `SiteDrained`: a rebuild that fails has drained `pending`. When the broken page
   is mended, a targeted rebuild renders that page only, and another page saved
   before the failure is served in its old form.
3. `SiteDefines`: a top-level `let`, `fn` or `type` next to a page block is not a
   block, so changing it is taken for a change of that page alone.
4. `SitePlayers`: a targeted build emits script tags for a player that no full
   build has written.
5. `LazyLabels`: labels (and decorator arguments and `computed_children`) are
   initialised without a frame on the evaluation stack. When one leads back to
   itself the thread waits for itself instead of reporting a cycle.
6. `SchemaShadows`: the warning that one root type shadows a slot of another compares what each
   declares itself. The blocks of a slot that is inherited vanish without it.

Two of the hazards listed have no property: a request's offset and analysis may
come from two texts (`server.rs:511`); a lazily imported file that changed since open
is not checked again (`declarations.rs:226`).

`SiteStale` checks what does hold in spite of 2 to 4: `StalenessIsExplained` exempts
the changes no one owes any more (`unseen`), and its drafts hold no definitions
next to a page and no players.

## 4. Proofs

All proofs are about `Spec`, for every value of the constants that satisfies the
named assumptions of the module. Those say that the constants have the shape the
`MC` modules give them (files have texts, documents name their own items, bounds
are numbers) and that a special value is not an ordinary one (`EmptyAssumption`,
`NothingAssumption`, `ConsoleAssumption`). TLC evaluates them in every run.

* **LspServerProofs**: `TypeCorrect`; `CachesNeverStale`, that a cache carrying the
  current generation holds the current buffers, and the root what they and the
  disk say; `RootForward`. The invariant `CacheIsCurrent` is not inductive: a job
  about to fill the cache must be known to hold the right copy. `CacheInv` adds
  that a job whose generation is current has copied only what is still there,
  because a change after its copy has bumped the generation beyond it. That is the
  order "change, then bump" of the handlers against "generation, then buffers"
  of `snapshot`; the mutants that swap either order break it.
  `RequestsReadTheirWrites`: the version of a buffer is the number of the change that wrote
  it, and a request notes the versions it must see (`Stamps`). `WriteInv` says that what a
  job copied, and every cache, has each stamp up to the generation it is labelled
  with (`Knows`), and that a request's generation is at least the stamps it noted
  (`AskedBefore`), because the protocol loop bumps before it takes the next message.
  `SettlesCurrent`: the client shows what is true once nothing moves. `SettledIsCurrent`
  speaks of rest only; `InHand` follows the pass of the last change, from the end of its handler on. While it works,
  its job has read what is there (`InStep`, which takes what a cache holds from
  `CacheInv`); when it sends, what the client does not show yet is in its batch
  (`BatchIsTrue`). No older pass can overwrite what it sends, because each was
  aborted by the change after it (`OneAtATime`) and the debounce outlasts the
  send an abort cuts short, which is the guard of `Wake`.
* **LazyEvalProofs**: `TypeCorrect`, with the limit on frames;
  `ReadsAlwaysAgree`; `CyclesAreAlwaysReal`. `Inv` has four parts besides the
  types. Each evaluation on a stack waits for the one above it and leads to all
  above it (`StacksAreGood`). Depth is bounded (`StacksHaveRoom`). Caches and
  failures name real cycles (`CachesAreHonest`). A cell that answered holds what it
  answered (`CellsKeepTheirAnswer`). A refusal is honest because what is asked for
  is on the asking thread's own stack and therefore leads to the asker. The proof
  needs that the lookup finds one of its bindings, which needs the least element of
  a set of positions (`FirstPosition`). Three more theorems stand on `Inv`.
  `ProjectionsAlwaysHeal` (`HealingInv`): an index only ever answers with a value, because it
  passes over what fails; a projection looks in nothing but the index
  (`ProjectionsAssumption`), so what it is told is a refusal of its own thread, which `Keep`
  does not cache, or the depth. `ValuesAreAlwaysExact` (`ValuesInv`): in a document without
  cycles nothing that is asked for is on the asker's stack (`NoReturn`), hence the
  lookup binds each name as its scopes say (`AskedIsBound`), what a frame has summed is what
  the names so far mean (`ReceiveIsExact`), and a refusal for depth needs a stack of
  different items (`StackItemsDiffer`), so of no more than there are (`RefusalIsShort`). The
  meaning is a recursive function; its equations come from the least
  counterexample (`SumsEquation`, `MeaningEquation`). `HangsAreAlwaysReentrant`: follow a set of
  threads each waiting for another of the set; the awaited items reach each other,
  and some item reaches itself (`SomethingLoops`); an index is on a stack with a frame, so it is
  refused on its own thread, and as there is only one (`IndexesAssumption`) the
  loop must go through labels.
* **SiteBuildProofs**: `TypeCorrect`; `ManifestStaysTrue`. `ManifestInv` adds the two
  reasons: a full build has no manifest while it writes and what it has written is
  a rendering of what it read, and a targeted build's navigation is the manifest's.
  On it stand `OnlyWaitingIsStale`, `LinksStayResolved`,
  `IconsStayServed` and `IndexStaysCurrent`. The properties speak of a site at rest; `FreshInv`
  speaks of every state, by keeping the account of who owes what. `Debt` is the files
  that wait and those the running build has taken up, and a page outside it is
  `Settled`. A build that fails gives back what it had taken up, one that succeeds
  repays: everything when it is full, its change set when it is targeted. `ReadInv`
  says that what a build has read is the present text of every file that does not wait, `WriteInv`
  that what it has written it rendered from that. The hard step is the end of a targeted build
  (`LeftAlone`): the pages it left alone show the present titles, because the
  manifest, which `ManifestStaysTrue` keeps honest, equals the navigation it read, and the
  present definitions, because by assumption no page file changes any
  (`PagesKeepDefinitions`; `SiteDefines` is what happens without it). `IndexStaysCurrent`
  has the premise `[]OneStart`, that no two pages are marked at once; section 5 has the behaviour it
  excludes. The mark may move meanwhile: as long as the page that has it is settled, it is the
  only one that the running build has read with a mark (`MarksInv`), so that a build which ends copied this
  page or left it and its copy alone (`KeepsIndex`, `LandingIsServed`).
  Of `Sites`: `LinksAlwaysLead`, for any documents, layouts, builds and edits. Sites have different
  directories (`DirectoriesDiffer`), so a step of one site only adds files there and leaves those of the
  others alone (`Grown`), and what a site is once it is done it stays to the end of the
  build (`DoneStays`). `IsDone` says of one site that its pages have their files, its index is what it
  has to be and every link leads out as it should (`LeadsOut`); it is followed through the pages
  (`PagesInTurn`), the check of links, the copy of the start page (`StartIsCopied`) and the
  redirect (`IndexIsEnsured`). `BuiltWell` is the same of a whole build with its chooser, and `SitesInv` says it
  of what is on disk. What makes a link lead is that two operators
  agree: the prefix a link is given, of the full layout, and the directory a site is written
  in, of the sites that are built (`ResolvedLinksLead`). `DocumentsAssumption` says that sites and pages are
  lists and that no site is called as the root of the directory is, that is, by the empty name. The proof
  found `IsOverwritten` (section 5); the runs did not reach it, and do now.
  And `NothingIsEverLost`, which compares two things written apart: `ValidatePage` passes a page
  by what it reads with every repeater opened once, and `Place` shows what the page has with the
  repeaters run over their data. Data makes nothing that the check has not seen
  (`UnrolledOnceIsMore`, by rounds of opening: `RoundsInTurn`), so that each piece of the page that is
  shown has its verdict from the check (`VerdictOf`): it fills a slot of the layout in use, or fills
  one of another layout of the site on demand, or is loose content. A page whose fills are plain
  (`FillsPlainly`) has one fill of a slot once its repeaters have run, as it had in the text
  (`FillIsOne`), and what a slot gets is the list of what is meant for it, in the order of the page
  (`AllAreAccountedFor`, `SlotsTakeThem`, `ContentTakesThem`). `IsDone` records for this that the slots of the site were checked and
  what was placed on its pages and its layouts' members (`PlacedOn`, `HasMembers`); the two kinds of page are
  `PageIsPlaced` and `MemberIsPlaced`. `LayoutsAssumption` and `ChildrenAssumption` say that layouts
  and the children of a repeater are lists of pieces, and `NestingAssumption` that `Nesting` is
  as deep as repeaters go. The proof corrected what the property took for a plain
  fill, and showed that a list of alternatives in `RecordSlotFill` overlapped.
* **DevServerProofs**: `TypeCorrect`; `ReloadsShowTheOutcome`; `Implements`, the
  refinement of `RebuildService`. `Numbered` relates the generation, the error and
  the page to the number of the build at each step of the worker; `Queued` says that
  a queued request was made before the build that takes it.
* **PaginationProofs**: `FlowAlwaysFits`, which says that nothing is cut
  (`NothingIsCut`) and no page is blank (`NoBlankPages`). `FlowInv`: what is placed
  is in order and above the cursor, and a cursor that is not at the top of its page
  although nothing was placed there was moved by a block without parts. `BlankInv`:
  each page before the last has its part or is all there is of an empty section. The
  hard step is a turn of `place_code`: the lines that fit below the padding
  make a box that ends on the page (`LinesInBox`), and a page with no room for one
  line is left before the box is begun. `PaperAssumption` is what that takes: a page has
  room for a line of code and its padding (`PageSize` is A4 or letter, 792 points at
  least, against 14.25 for the line and 9 for each padding), and the padding is no more
  than a line. Of the contents it proves `ContentsAreAlwaysTrue`. `SectionsRight` and `StartsRise`
  follow the first pass: sections stand one after the other, and the first piece of
  each is on the page after its start. `Stage` follows a round of the contents from
  entry to entry. An entry takes the same room whatever number it prints, so
  where a round ends depends on the toc only (`EntriesFill`, `RunIsOne`,
  `EndIsOne`): the second round ends where the first did, its numbers are the true
  ones, and the cap of four rounds is never what ends the loop. That is what the comment at
  `mod.rs:356-359` claims. `BookmarkOf` and the outline need that an entry is among its
  own (`OwnBookmark`), and `DOMAIN dests` that the order of the sections has each
  page once (`OrderKeepsPages`), about a recursive function whose equations come from
  the least counterexample (`LeastNumber`).
* **ImportsProofs**: `TypesHold`; `FilesLoadedOnce`; `OpenIsComplete`; `ReportedCyclesAreReal`;
  `OpenWasChecked`, for any number of files, texts and edits. `Recursion` ties the sets of an
  `ImportState` to the recursion: `loading` is the files of the chain, without
  repetition (`ChainIsLoading`); `seen` is `loading` and what was loaded (`SeenIsKnown`);
  each frame was begun by an import of the one below it (`ChainIsLinked`), so that a
  file found in `loading` closes a cycle of imports that were really read; an import
  that is done is in `seen` (`ImportsAreIn`). `Stages` says which variables rest in
  which phase, and `Outcome` is the properties themselves. `TypeOK` of `Imports` is a
  theorem only, as are those of `LazyEval`, `LspServer`, `SiteBuild` and `DevServer`; no run spends a
  property on them.
* **TypesProofs**, of `Inheritance`: `FieldsAlwaysMeanOneThing`, for any declarations, namespaces and
  aliases. The state hardly matters; the work is about the walks, which are recursive
  functions of the source. That such a function exists and satisfies its equations is proved
  once (`Iteration`, from `UpTo`, which replaces induction by a least counterexample) and used for each
  walk (`BuildsInRounds`, `LooksInRounds`). As many rounds as there are declarations reach all
  ancestors, because a round that adds none is the last (`AncestorsReach`); without a cycle a parent has fewer of
  them than its child (`ParentsAreLower`), so the unguarded walks end and the list that
  was checked has every ancestor (`AncestorsFirstHasAll`). Under `KindsAgree` both look names up alike
  (`WalkedAsChecked`, `SameAncestors`). `Meant` is what both walks owe for a declaration and one
  name: `Merged` keeps the last row of each name (`MergedKeepsLast`), and the last parent that has a field
  is where that row is (`Flattened`), so that a round keeps `Meant`
  (`RoundKeepsMeaning`). Comparing each row with the last one of its name before it compares it with all
  (`ConflictsAreFound`), for `TypesCompatible` is an equivalence. `DraftsAssumption` says that no
  declaration has two fields of one name; `register_decl_with_members` refuses that in a source, and
  the types of the host are taken to keep to it.
  Of `Schemas`: `CheckAlwaysAgrees` and `NothingEverVanishes`, for any types, unions and namespaces and a
  document of any size and depth. `NestingInv` is all they need of the state: what is written stands in
  a block written before it. So the walk of the check ends (`BlockErrorsAre`; `BlockErrors` is a recursive
  function, from a block to those in it). One direction goes up the walk: each part of it is `Honest`, so the
  whole is (`CheckIsHonest`). The other goes down: as long as no block around is left alone,
  the errors of each are among those that the check reports (`Reached`), and these hold what a read
  of a field in it fails for (`ReadsAreReported`). The same descent says of a document without errors that
  each place in it has a slot; it is the slot that takes the block, because a second slot for the kind would
  have been an error (`OnlyIsFirst`), and a second type of the root with a slot of that name a warning
  (`FirstDeclares`), if both declare it themselves. What one of them inherits nobody warns of, hence the premise
  `NoInheritedShadow` of `NothingVanishes`; without it the formula is `ShadowsAreReported`, which TLC
  refutes. That the types which govern an imported file govern the root too (`GovernsRootToo`) needs
  `VocabulariesAssumption`: a `@document` type that is not imported is one of the root file, whose
  namespace it has; the host, whose types have none, declares none.
* **NumbersProofs**: `NumbersAreAlwaysExact`, for integers of any width and floats of any precision,
  exponents and finest step. Every number but NaN has a place on one line (`OrderOf`), and the comparison of each pair of
  types is that of the places: the case that is not obvious is a whole number against a float that
  it cannot be converted to exactly, which is decided by the sign and the parts before and after the
  point (`WholeAndFloatAreOrdered`), and the float nearest to a number grows with it
  (`ApproachedGrows`). An operator has one result, whichever branch of `arith` computes it (`ArithIs`):
  the whole one where it can be held, and otherwise none or a float (`WholeAreComputed`). A difference is the sum with
  the negated operand (`DifferenceAgrees`), and for `~` the two's complement is what is left to -1
  (`ComplementAgrees`). Three assumptions say what the code's types are:
  `IntegersAssumption` (i128 goes lowest, u128 highest, and a signed type has one value more below
  zero than above), `FloatsAssumption` (an f32 is an f64, zero and the first number out of range are among what precision and exponents
  allow, and any integer of the code's types is within the range of f64) and `LiteralsAssumption` (a literal is a number of its type). The types of the code meet them: with
  `One = 2^1074` steps to the number 1, an f64 has `Precision` 53, `Exponents` 0 to 2046 and
  `Beyond` 2^1024, an f32 24, 925 to 1179 and 2^128, and the integers are those of 8 to 128 bits.

Liveness (`EventuallyCurrent`, `EveryRequestAnswered`, `RebuildsRepair`,
`EveryRebuildAnswered`, `TabsReload`, `EveryReadEnds`) stays with TLC, for the prover
has no rules for fairness or ENABLED here; of `EveryReadEnds`, `HangsAreAlwaysReentrant`
proves the part that is safety. `Syntax`, `Slots` and `Edits` are recursive operators over trees, which the
prover cannot read, and are model-checked only (so are `Rename` and `Expansion`).

## 5. Known divergences

Statements of the repository that the code does not keep, met while modelling, and
kept out of the passing properties by a named premise or exemption. Each has a
definition in its module or is one sentence away from one.

* `Inheritance`. *"no two differently named fields of the effective set claim the same
  `@inline(N)` label slot"* (`extends.rs:6-8`): in a diamond whose two sides override a
  field differently, the check and the walk keep different rows, so two fields share
  a slot (`SlotsAreDistinct`). A type of the root and an interface of an import may
  share a name; then the check follows one and the walk the other, and the walk may
  not end (`WalkTerminates`, against `extends.rs:19-21`). `FieldsMeanOneThing` has
  the premise `KindsAgree`.
* `Syntax`. With `trailing_comma_in_match` off the printer separates arms by line breaks
  only, which the parser does not accept (`format/mod.rs:33-36`). `parse_block_expr`
  skips whatever token stands where the brace should be (`expr.rs:755-758`), so more is
  accepted than the reference describes. `has_bare_bitor` does not look at the
  condition of an `else if`, so a `|` there ends the cell it is printed in
  (`~HasElseIf` is a premise of `CellKeepsMeaning`). A path with a number in it is
  accepted before `::` and cannot be printed (premise `NamesTypes`).
* `Slots`. *"A number that fits is **converted** to the declared type on the way in, so the host that
  declared `u16` reads a `u16`"* (`lang_schemas.wcl:1486`), and a table *"writes the same data"*
  (`lang_documents.wcl:399`): a row, or the arguments of a decorator, become a variant with their values as
  written (`variant_dispatch.rs:182`), so that a row has an `i64` where the record, which is converted
  field by field (`inhabit.rs:425`), has a `u8`, and admitting the variant to a slot does not change it
  (`RowsReadAsDeclared`, which TLC refutes in the topic `slots`). `SpellingsAgree` therefore says of a row
  that it is the record once its fields are converted too (`Converted`). *"The alias is
  **transparent**. It resolves to its target wherever you use it"* (`lang_types.wcl:155`): a record in a
  slot whose type is an alias of a union is refused, or stays a record inside another value, although the
  union itself takes it (`inhabit.rs:318`; `AliasesAreTransparent`, refuted there too).
  *"Because no two bodies collide, a body identifies a variant"*
  (`lang_types.wcl:429`): bodies with the same names and different types both take a
  number or a string that fits either (`BodyIdentifiesVariant`). A field of a variant that
  is typed with an alias never takes a plain number, so such a record is no variant.
  Decorator arguments are matched by number and type, and are ambiguous where
  fields of different names have one type.
* `Pagination`. A box of code without any line is left at the end of a page that has
  room for its padding only (`CodeBoxesHoldLines`, against `layout.rs:614-616`). A block
  without parts uses height on a page that counts as empty, so the next part may
  end below it (`hollow` in `FlowFits`). A section without any part has an empty page.
* `Edits`. `tests/diff.rs:243-244` says that what did not evaluate *"is not reported as a
  removal or change"*; a block with a field that fails is in no record, so it is
  reported as removed, and its key goes to the next block of that name. Of two
  fields of one name `wcl set` takes the first and the diff the last. What is saved
  between the reading and the rename of `wcl set` is lost.
* `Schemas`. A slot that a root type inherits and another one shadows loses its blocks without a
  warning (finding 6; the premise `NoInheritedShadow`). `tests/schema_agreement.rs:13-19` demands that the check flags a field *"if and only
  if"* a read of it fails. The check does not enter contextual, derived, disallowed or
  union-dispatched blocks, nor instances of a `@schemaless` type, where reads do fail
  (`LeftAlone`); and it holds a `@schemaless` block of a contextual kind to its type,
  which a read does not (`Waived`). A slot `@child(Union)` takes the first block that
  matches and nobody reports a second one, and demands one although it is declared
  optional (`lang_schemas.wcl:439`: *"none or one. Both ends are checked"*; `LeftToTheHost`).
  Beside a slot `@children(Union)` contextual blocks and those of an interface slot are
  reported, as every block without a slot for its kind is held to the union.

* `Numbers`. A unit's product that is not whole as i128 goes through `float_product as i128`,
  which cuts off silently at the ends of i128, although a product *"out of range, is an
  error"* (`inhabit.rs:475-476`; the premise of `Measures`). `@min` and `@max` compare as f64, so
  a bound beyond 2^53 takes a number that `<` says is below it (the premise in `JudgedBy`).
  *"Any integer fits a float type"* (`numeric.rs:286`), but a u128 near its end is out of range
  for f32. `==` compares by value, `list_contains`, `unique` and lists in general by type as
  well: `1u8 == 1`, and `[1]` does not contain `1u8`.
* `Rename`. *"every reference to the symbol under the cursor (declaration included) becomes a text
  edit"* (`navigation.rs:187-188`) and *"a rename that cannot see a file would leave it
  half-renamed"* (`:89-90`): a plain `let` used from another file is not in the symbol index
  (`parser/mod.rs:449-455`), and neither `self.x`, `parent.x` and the path of a block into
  another file nor `b.x` in the same one is followed, so the rename leaves them
  behind (`IsFollowed`, `IsPlainMember`), and `check_rename`, which opens the result and holds it
  to its schemas, says nothing of a value that no schema governs. In `x = x` of a block the inner `x` is an occurrence of the inner declaration, but it
  reads the outer one; a free name of a function, and `self` in it, are resolved where it is
  called; a local that is called and is no function is passed over (all: `plain`). A block
  with a `let` and a field of one name has two declarations of which names find the `let`, and
  members the field (`IsTwin`). The second walk of an initializer can give a place two
  identities, and the rename is refused. A new name that is in use already may capture, hence
  `Fresh`.
* `LazyEval`. *"A second thread asking while the first builds simply waits for the finished index"*
  (`connections.rs:69-70`): an index that is built when there is hardly room left on its thread is
  finished without the labels that got the depth error (`connections.rs:119-124`), and is what every
  thread reads from then on, so connections between blocks that are there fail to resolve (`DeepIndex`
  of `MCLazyEval`; second disjunct in `ValuesAreExact`).
* `SiteBuild`. Two pages marked `start` fail a build *after* its pages are written and its
  navigation is recorded, but before `index.html` is (`build.rs:871`, `:948`, `site_start_page`). When
  the second mark is then taken back, a targeted build of that page succeeds and leaves
  `index.html`, the copy of the start page, as it was before the failing build, whose chrome or text it then
  lacks. The premise `[]OneStart` of `IndexFollowsStart` excludes it.
* `Sites`. *"The `index` page is still there under its own name"* (`wdoc_sites.wcl:170`): the copy of
  the start page is written over that very file (`IsCovered`). *"any site of that build with no
  landing page gets a small generated `index.html`"* (`wdoc_sites.wcl:172`): an index that an earlier
  build left is kept instead, though it may lead to a page that is gone (`report.left`). A start page
  in a collection has no file to copy: the build fails, or copies one of an earlier build over
  the collection, with links that may lead nowhere (`IsOverwritten`). *"fills slot `hero` more than once"* is an error (`build.rs:2104`), but a fill in a
  repeater counts once however often it is given, and on a page of its own only the last
  is shown. A block that fills `content` by name passes the check and is shown nowhere. A fill on
  demand (`hero?`) of a slot that no layout has is refused, but not inside a repeater, where a page
  shows it as content and a collection drops it (all: `FillsPlainly`). A page in a collection that
  names a layout of its own is checked against that one and shown by the other (`CheckedPages`).

* `Expansion`. *"the budget bounds one expansion tree in total"* (`expand.rs:131-132`): blocks that fill a
  slot are not counted when they are placed, and an authored generator among them, which has depth 0,
  sets the count back to zero, so a component that passes such a fill on in a loop generates more
  than the limit without an error (`~m.nested` in `ExpansionIsBounded`). *"Any block instance in a
  document can carry `@only(...)`"* (`visibility.rs:3-5`), but the shapes of a diagram are never asked
  (first premise in `IsMadeFor`). `@children` slots, style rules and navigation do not place
  `wdoc_content`, and diagrams place no slot with a name of its own, no `collect` and no
  `project`. A feature used only inside a component body *"still ships its JS/CSS"*
  (`expand.rs:33-50`), but the scan does not follow `wdoc_instance` or `collect` (`PlayersAreFound`).
  HTML shows a marker where the depth ends; PDF and Markdown are cut in silence there. An
  instance whose `component` cannot be evaluated gives nothing and no error.

## 6. Not modelled, and why

* Real time. The debounce, the quiet window of the watcher and the poll timeout
  are delays of any length; that a steady stream of saves postpones the quiet window
  for ever is not seen.
* What an analysis or a rendering computes, beyond what it reads.
* Targeted builds of several sites, the check of a component's slots, tag pages and the markdown output;
  in `SiteBuild` a document has one site, and a page file one page. In `Sites` a page has the
  links of all its blocks, and what a layout does with its slots is left out.
* Assets, included code and markdown sources: the watcher looks at `.wcl` files only.
* A restart of the server under open tabs (`DevServer` starts once).
* Entry-dependent cycles: with `a = b` and `b = a` under an outer `a`, whether a
  reader sees a cycle depends on where evaluation was entered. `ValuesAreExact`
  speaks of documents without cycles only; `ReadsAgree` holds there too.
* Connections, tables, arguments of decorators, identity labels, references, constraints
  and imports inside blocks in `Schemas`.
* Declarations, patterns, types and strings in the parser and the printer; comments,
  line breaking and indentation.
* Tensors, generics, namespaced unions, symbol sets and constraint decorators in
  `Slots`; blocks inside blocks and schemas in `Edits`.
* Bit operations other than `~`, shifts, and which float IEEE 754 gives, in `Numbers`.
* Types, kinds, variants, symbols, decorators, namespaces and aliases under a rename; alternatives of
  a match arm; the other answers of the language server.
* `project`, the cache of page metadata and `@except` in `Expansion`; a condition there is one walk.
* The other builtins, and the HTML, SVG and markdown backends: pure functions of a value or
  of the content tree, whose result is layout and wording.

## 7. Plan

Modules, in the order of what they would tell:

1. `DeclaredKinds` (`schema_lookup.rs`): the kinds a block declares while they are
   being looked up, as part of the lazy evaluator.
2. `LexerModes` (`lexer/`): the mode stack of interpolated strings under the
   parser's backtracking.
3. `ProfileStack` (`diagnostics/profile`): balance under errors.
4. `SiteBuild` with two sites; the check of a component's slots in `Sites`; `page_metadata.rs` and
   `project` in `Expansion`; `DevServer` with a restart under open tabs; a composition of the two.
5. `Scaffold` (`wcl/src/scaffold`): the two passes and partial writes.

Theorems:

1. `ExpansionIsBounded`: its walk as a recursive function, with the budget as the measure.
