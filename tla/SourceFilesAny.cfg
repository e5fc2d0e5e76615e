SPECIFICATION CalmSpec
CONSTANTS
    d1 = d1
    d2 = d2
    j1 = j1
    j2 = j2
    q1 = q1
    q2 = q2
    Sources <- TwoSources
    Jobs <- TwoJobs
    Queries <- TwoQueries
    MaxFiles = 3
SYMMETRY Symmetry
INVARIANTS
    RowsNameTheirFiles
    WaitersHaveAnOpen
    CalmForgetsNoFile
    CalmConnectorIsCurrent
