SPECIFICATION Spec
CONSTANTS
    ma = ma
    mb = mb
    mab = mab
    da = da
    db = db
    oa = oa
    k1 = k1
    k2 = k2
    k3 = k3
    NoOrg = NoOrg
    NoEntry = NoEntry
    NoOpts = NoOpts
    Keys = {k1, k2, k3}
    Models = {ma, mab}
    Sources = {da, db}
    Orgs = {oa}
    CacheOpts <- OrgQuestions
    Sizes = {1, 2}
    Quota <- QuotaOfThree
    Limits = {2, 5}
    Queries = {1}
INVARIANTS
    IndexesExact
    OutdatedOnlyIfLate
    QuotaHolds
PROPERTIES
    DropsExactly
    ImplementsScan
