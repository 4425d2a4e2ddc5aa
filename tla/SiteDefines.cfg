SPECIFICATION Spec
CONSTANTS
    home = home
    guide = guide
    Pages = {home, guide}
    Root = Root
    NoPage = NoPage
    Nothing = Nothing
    First <- FirstSite
    Drafts <- DefiningSite
    EditsUnwatched = FALSE
    MaxEdits = 2
    MaxStops = 0
INVARIANT OtherPagesAreCurrent
