SPECIFICATION Spec
CONSTANTS
    t1 = t1
    t2 = t2
    t3 = t3
    t4 = t4
    k1 = k1
    sales = sales
    returns = returns
    customer = customer
    product = product
    country = country
    segment = segment
    NoTable = NoTable
    Tables = {sales, returns, customer, product, country, segment}
    Keys = {k1}
    FirstDrafts <- MCConstellation
    Candidates = {}
    Wishes = {}
    FactMarks = {}
    Asks = {}
    MaxJoins = 6
    MaxActs = 1
INVARIANTS
    OneFactPerBuild
CHECK_DEADLOCK FALSE
