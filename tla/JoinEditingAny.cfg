SPECIFICATION Spec
CONSTANTS
    t1 = t1
    t2 = t2
    t3 = t3
    t4 = t4
    k1 = k1
    sales = sales
    returns = returns
    customer = customer
    product = product
    country = country
    segment = segment
    NoTable = NoTable
    Tables = {t1, t2, t3, t4}
    Keys = {k1}
    FirstDrafts <- MCFirstDrafts
    Candidates <- MCCandidates
    Wishes <- MCWishes
    FactMarks <- MCFactMarks
    Asks = {"button", "step"}
    MaxJoins = 4
    MaxActs = 2
INVARIANTS
    ChecksAreExact
    FromIsWhole
    NearDimensionsDoNotFanOut
PROPERTIES
    AnswersKeepTheRules
CHECK_DEADLOCK FALSE
