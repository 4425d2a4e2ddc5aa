CONSTANTS
    Uris <- MCUris
    Openable = {"main", "lib"}
    External = {"lib"}
    Disks <- AnyDisk
    Texts <- MCTexts
    AnalyseRoot <- MCAnalyseRoot
    AnalyseFile <- MCAnalyseFile
    SyntaxErrors <- MCSyntaxErrors
    Requests = {}
    MaxChanges = 2
    HasRoot = FALSE
SPECIFICATION FairSpec
PROPERTY EventuallyCurrent
