SPECIFICATION Spec
CONSTANTS
    home = home
    guide = guide
    Pages = {home, guide}
    Root = Root
    NoPage = NoPage
    Nothing = Nothing
    First <- FirstSite
    Drafts <- BreakingSite
    EditsUnwatched = FALSE
    MaxEdits = 3
    MaxStops = 0
INVARIANT StalePagesArePending
