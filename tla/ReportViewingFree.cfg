SPECIFICATION Spec
CONSTANTS
    None = None
    NoRows = NoRows
    Snapshot = Snapshot
    Failed = Failed
    drill = drill
    side = side
    other = other
    a = a
    b = b
    x = x
    y = y
    Pages <- TwoPages
    Visuals <- AllVisuals
    Dims = {a, b}
    Values = {x, y}
    PageOf <- MCPageOf
    Levels <- MCLevels
    Excludes <- MCExcludes
    Slicers <- MCSlicers
    Saved <- Unsaved
    Links <- MCLinks
    Stored <- Owned
    Acts = {"pick", "click", "undrill", "refresh", "turn", "bookmark", "reload"}
    MaxActs = 3
INVARIANTS
    VisualsAreCurrent
CHECK_DEADLOCK FALSE
