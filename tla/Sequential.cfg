SPECIFICATION TopicSpec
CONSTANTS
    Topics = {"imports", "inheritance", "syntax", "slots", "pagination", "edits", "schemas",
              "numbers", "rename", "sites", "expansion"}
    Files <- MCFiles
    Main = "site"
    Drafts <- MCDrafts
    Missing = Missing
    MaxEdits = 2
    MaxNesting = 2
    TypeDrafts <- Declarations
    FileNamespace <- MCNamespace
    RootFile = "root"
    HostFile = "host"
    ItemAliases <- NoItemAliases
    NsAliases <- NoNsAliases
    Wildcards <- MCWildcards
    Height = 7
    Space = 1
    BeforeHeading = 2
    AfterHeading = 1
    CodeLine = 2
    CodePad = 1
    TitleHeight = 2
    EntryHeight = 1
    EntrySpace = 1
    PageBlocks <- PdfBlocks
    Sites <- PdfSites
    Low <- MCLow
    High <- MCHigh
    One = 4
    Precision <- MCPrecision
    Exponents <- MCExponents
    Beyond <- MCBeyond
    Literals <- MCLiterals
    Vocabularies <- MCVocabularies
    UnionVariants <- MCUnions
    Namespace <- MCFileNamespaces
    Documents <- MCDocuments
    Revisions <- MCRevisions
    Layouts <- MCLayouts
    Children <- MCChildren
    Nesting = 2
    MaxBuilds = 2
    MaxBlocks = 3
INVARIANTS
    LoadedOnce ImportsAreComplete CyclesAreReal
    OpenIsChecked FieldsMeanOneThing FormatKeepsMeaning
    SpellingsAgree FlowFits ContentsAreTrue
    DiffTellsAll SetChangesOneField CheckAgreesWithReads NothingVanishes
    NumbersAreExact RenameKeepsMeaning
    LinksLeadToTheirPages NothingIsLost GeneratedAsAuthored ExpansionIsBounded
CHECK_DEADLOCK FALSE
