SPECIFICATION Spec
CONSTANTS
    None = None
    w1 = w1
    w2 = w2
    b1 = b1
    b2 = b2
    v1 = v1
    v2 = v2
    Widgets <- TwoWidgets
    Bindings <- TwoBindings
    Values <- OneValue
    Acts = {"slicer", "click", "edit", "restyle", "drill", "refresh", "reload", "undo", "cancel"}
    HistoryCap = 2
    MaxActs = 3
SYMMETRY Symmetry
PROPERTIES
    NewestWins
CHECK_DEADLOCK FALSE
