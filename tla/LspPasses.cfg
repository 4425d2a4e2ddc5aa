CONSTANTS
    Uris <- MCUris
    Openable = {"main"}
    External = {}
    Disks <- BrokenLibrary
    Texts <- MCTexts
    AnalyseRoot <- MCAnalyseRoot
    AnalyseFile <- MCAnalyseFile
    SyntaxErrors <- MCSyntaxErrors
    Requests = {r1}
    MaxChanges = 2
    HasRoot = TRUE
SPECIFICATION FairSpec
INVARIANTS CacheIsCurrent SettledIsCurrent ReadsItsWrites
PROPERTY RootNeverRegresses
PROPERTY EveryRequestAnswered
