SPECIFICATION Spec
CONSTANTS
    None = None
    w1 = w1
    w2 = w2
    b1 = b1
    b2 = b2
    v1 = v1
    v2 = v2
    Widgets <- OneWidget
    Bindings <- TwoBindings
    Values <- OneValue
    Acts = {"slicer"}
    HistoryCap = 1
    MaxActs = 3
SYMMETRY Symmetry
INVARIANTS
    SettledIsCurrent
CHECK_DEADLOCK FALSE
