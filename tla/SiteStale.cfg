SPECIFICATION FairSpec
CONSTANTS
    home = home
    guide = guide
    Pages = {home, guide}
    Root = Root
    NoPage = NoPage
    Nothing = Nothing
    First <- FirstSite
    Drafts <- EditedSite
    EditsUnwatched = TRUE
    MaxEdits = 3
    MaxStops = 1
INVARIANT StalenessIsExplained
INVARIANT ManifestIsTrue
INVARIANT LinksResolve
INVARIANT IconsServed
PROPERTY IndexFollowsStart
PROPERTY RebuildsRepair
