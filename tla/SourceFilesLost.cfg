SPECIFICATION RunningSpec
CONSTANTS
    d1 = d1
    d2 = d2
    j1 = j1
    j2 = j2
    q1 = q1
    q2 = q2
    Sources <- OneSource
    Jobs <- TwoJobs
    Queries <- OneQuery
    MaxFiles = 3
SYMMETRY Symmetry
PROPERTIES
    BuiltFromCurrent
CHECK_DEADLOCK FALSE
