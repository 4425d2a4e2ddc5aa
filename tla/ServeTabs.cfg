SPECIFICATION FairSpec
CONSTANTS
    editor = editor
    script = script
    tab = tab
    Requests <- Callers
    Browsers <- Tabs
    Console = Console
    MaxEnters = 1
INVARIANT ReloadShowsOutcome
PROPERTY ImplementsService
PROPERTY EveryRebuildAnswered
PROPERTY TabsReload
