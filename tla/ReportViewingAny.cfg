SPECIFICATION SteadySpec
CONSTANTS
    None = None
    NoRows = NoRows
    Snapshot = Snapshot
    Failed = Failed
    drill = drill
    side = side
    other = other
    a = a
    b = b
    x = x
    y = y
    Pages <- TwoPages
    Visuals <- AllVisuals
    Dims = {a, b}
    Values = {x, y}
    PageOf <- MCPageOf
    Levels <- MCLevels
    Excludes <- MCExcludes
    Slicers <- MCSlicers
    Saved <- MCSaved
    Links <- MCLinks
    Stored <- Owned
    Acts = {"pick", "click", "undrill", "refresh", "turn", "bookmark", "reload"}
    MaxActs = 4
INVARIANTS
    VisualsAreCurrent
    SpinnersAwait
    SyncedPagesAgree
    FiltersAreShown
CHECK_DEADLOCK FALSE
