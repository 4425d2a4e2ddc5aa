CONSTANTS
    Uris <- MCUris
    Openable = {"main"}
    External = {}
    Disks <- BrokenLibrary
    Texts <- MCTexts
    AnalyseRoot <- MCAnalyseRoot
    AnalyseFile <- MCAnalyseFile
    SyntaxErrors <- MCSyntaxErrors
    Requests = {}
    MaxChanges = 3
    HasRoot = TRUE
SPECIFICATION Spec
INVARIANT StaleErrorsClear
