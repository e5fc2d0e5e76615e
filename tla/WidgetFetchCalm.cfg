SPECIFICATION CalmSpec
CONSTANTS
    None = None
    w1 = w1
    w2 = w2
    b1 = b1
    b2 = b2
    v1 = v1
    v2 = v2
    Widgets <- TwoWidgets
    Bindings <- TwoBindings
    Values <- TwoValues
    Acts = {"slicer", "click", "edit", "restyle", "drill", "refresh", "reload"}
    HistoryCap = 1
    MaxActs = 4
SYMMETRY Symmetry
INVARIANTS
    SettledIsCurrent
    SpinnersEnd
CHECK_DEADLOCK FALSE
