---------------------------- MODULE MCSequential ----------------------------
(* The parts of the system in which nothing runs concurrently, one topic   *)
(* each.  They share no state: a behaviour is one of the topic it starts   *)
(* with, the variables of the others stay 0, and a single run explores     *)
(* them side by side.                                                      *)
EXTENDS MCImports, MCInheritance, MCPagination, MCNumbers, MCSchemas,
        MCSites

CONSTANT Topics  \* those of "imports", "inheritance", "syntax", "slots",
                 \* "pagination", "edits", "schemas", "numbers", "rename", "sites"
                 \* and "expansion" that are explored

VARIABLES topic,
          text, writes,  \* of Syntax
          own, slot,     \* of Slots
          base, files, saves, command,  \* of Edits
          scopes, drafted, \* of Rename
          \* of Expansion
          manuscript, ahead, walk, todo, printed, noted, cached, expanded

Expr == INSTANCE MCSyntax
Slot == INSTANCE MCSlots
Tool == INSTANCE MCEdits WITH disk <- files
Ren == INSTANCE MCRename
Gen == INSTANCE MCExpansion

importsVars == vars
syntaxVars == <<text, writes>>
slotVars == <<own, slot>>
editsVars == <<base, files, saves, command>>
renameVars == <<scopes, drafted>>
expansionVars == <<manuscript, ahead, walk, todo, printed, noted, cached, expanded>>

\* The variables of Imports, Inheritance, Pagination, Numbers, Schemas and Sites rest at values for which
\* their properties hold, so that these can be checked as they are.
ImportsIdle ==
    /\ disk = 0 /\ edits = 0 /\ phase = "closed" /\ main = Missing /\ eager = <<>>
    /\ cells = {} /\ forcing = <<>> /\ chain = <<>> /\ loading = {} /\ seen = {}
    /\ out = <<>> /\ failure = Missing
InheritanceIdle == source = <<>>
SyntaxIdle == text = 0 /\ writes = 0
SlotsIdle == own = 0 /\ slot = 0
PaginationIdle ==
    /\ site = 0 /\ layout = "closed" /\ written = 0 /\ block = 0 /\ pages = 0 /\ cy = 0
    /\ atTop = 0 /\ placed = <<>> /\ boxes = {} /\ hollow = 0 /\ starts = 0 /\ content = 0
    /\ queue = 0 /\ guess = 0 /\ rounds = 0 /\ dests = 0
EditsIdle == base = 0 /\ files = 0 /\ saves = 0 /\ command = 0
SchemasIdle == vocabulary = [types |-> <<>>] /\ items = <<>>
NumbersIdle == numbers = <<>>
RenameIdle == scopes = 0 /\ drafted = 0
SitesIdle == authored = 0 /\ output = <<>> /\ report = Unbuilt
ExpansionIdle ==
    /\ manuscript = 0 /\ ahead = 0 /\ walk = 0 /\ todo = 0 /\ printed = 0 /\ noted = 0
    /\ cached = 0 /\ expanded = 0

TopicInit ==
    /\ topic \in Topics
    /\ IF topic = "imports" THEN Init ELSE ImportsIdle
    /\ IF topic = "inheritance" THEN ExtendsInit ELSE InheritanceIdle
    /\ IF topic = "syntax" THEN Expr!Init ELSE SyntaxIdle
    /\ IF topic = "slots" THEN Slot!Init ELSE SlotsIdle
    /\ IF topic = "pagination" THEN LayoutInit ELSE PaginationIdle
    /\ IF topic = "edits" THEN Tool!Init ELSE EditsIdle
    /\ IF topic = "schemas" THEN SchemasInit ELSE SchemasIdle
    /\ IF topic = "numbers" THEN NumbersInit ELSE NumbersIdle
    /\ IF topic = "rename" THEN Ren!Init ELSE RenameIdle
    /\ IF topic = "sites" THEN SitesInit ELSE SitesIdle
    /\ IF topic = "expansion" THEN Gen!Init ELSE ExpansionIdle

ImportsStep ==
    /\ topic = "imports" /\ Next
    /\ UNCHANGED <<topic, inheritanceVars, syntaxVars, slotVars, paginationVars, editsVars,
                   schemaVars, numberVars, renameVars, siteVars, expansionVars>>
InheritanceStep ==
    /\ topic = "inheritance" /\ ExtendsNext
    /\ UNCHANGED <<topic, importsVars, syntaxVars, slotVars, paginationVars, editsVars,
                   schemaVars, numberVars, renameVars, siteVars, expansionVars>>
SyntaxStep ==
    /\ topic = "syntax" /\ Expr!Next
    /\ UNCHANGED <<topic, importsVars, inheritanceVars, slotVars, paginationVars, editsVars,
                   schemaVars, numberVars, renameVars, siteVars, expansionVars>>
SlotsStep ==
    /\ topic = "slots" /\ Slot!Next
    /\ UNCHANGED <<topic, importsVars, inheritanceVars, syntaxVars, paginationVars, editsVars,
                   schemaVars, numberVars, renameVars, siteVars, expansionVars>>
PaginationStep ==
    /\ topic = "pagination" /\ LayoutNext
    /\ UNCHANGED <<topic, importsVars, inheritanceVars, syntaxVars, slotVars, editsVars,
                   schemaVars, numberVars, renameVars, siteVars, expansionVars>>
EditsStep ==
    /\ topic = "edits" /\ Tool!Next
    /\ UNCHANGED <<topic, importsVars, inheritanceVars, syntaxVars, slotVars, paginationVars,
                   schemaVars, numberVars, renameVars, siteVars, expansionVars>>
SchemasStep ==
    /\ topic = "schemas" /\ SchemasNext
    /\ UNCHANGED <<topic, importsVars, inheritanceVars, syntaxVars, slotVars, paginationVars,
                   editsVars, numberVars, renameVars, siteVars, expansionVars>>
NumbersStep ==
    /\ topic = "numbers" /\ NumbersNext
    /\ UNCHANGED <<topic, importsVars, inheritanceVars, syntaxVars, slotVars, paginationVars,
                   editsVars, schemaVars, renameVars, siteVars, expansionVars>>
RenameStep ==
    /\ topic = "rename" /\ Ren!Next
    /\ UNCHANGED <<topic, importsVars, inheritanceVars, syntaxVars, slotVars, paginationVars,
                   editsVars, schemaVars, numberVars, siteVars, expansionVars>>
SitesStep ==
    /\ topic = "sites" /\ SitesNext
    /\ UNCHANGED <<topic, importsVars, inheritanceVars, syntaxVars, slotVars, paginationVars,
                   editsVars, schemaVars, numberVars, renameVars, expansionVars>>
ExpansionStep ==
    /\ topic = "expansion" /\ Gen!Next
    /\ UNCHANGED <<topic, importsVars, inheritanceVars, syntaxVars, slotVars, paginationVars,
                   editsVars, schemaVars, numberVars, renameVars, siteVars>>

TopicNext ==
    \/ ImportsStep \/ InheritanceStep \/ SyntaxStep
    \/ SlotsStep \/ PaginationStep \/ EditsStep \/ SchemasStep \/ NumbersStep \/ RenameStep
    \/ SitesStep \/ ExpansionStep

TopicSpec ==
    TopicInit /\ [][TopicNext]_<<topic, importsVars, inheritanceVars, syntaxVars, slotVars,
                                 paginationVars, editsVars, schemaVars, numberVars, renameVars,
                                 siteVars, expansionVars>>
-----------------------------------------------------------------------------
(* The properties of the instances, in the behaviours of their topics.     *)
(* Those of the extended modules hold where these rest, and are checked    *)
(* as they are.                                                            *)

\* Formatting keeps what an expression means, as a value of a field and in the
\* cell of a table row.
FormatKeepsMeaning == topic = "syntax" => Expr!FormatKeepsMeaning /\ Expr!CellKeepsMeaning

\* Admission is stable, and the spellings of a variant are the same one: by name the
\* same value, in a row or a decorator that of the same fields, not yet converted.
SpellingsAgree == topic = "slots" => Slot!SpellingsAgree

\* A diff tells all there is to tell.
DiffTellsAll == topic = "edits" => Tool!DiffTellsAll

\* `wcl set` changes the field that it names and nothing else.
SetChangesOneField == topic = "edits" => Tool!SetChangesOneField

\* A rename in the editor keeps what the document means.
RenameKeepsMeaning == topic = "rename" => Ren!RenameKeepsMeaning

\* What a page generates is what its author means, after any walk of it, and the
\* players of what it shows are shipped.
GeneratedAsAuthored == topic = "expansion" => Gen!GeneratedAsAuthored /\ Gen!PlayersAreFound

\* Generation stops at its depth and its budget, and says so.
ExpansionIsBounded == topic = "expansion" => Gen!ExpansionIsBounded
=============================================================================
