SPECIFICATION MCWarmSpec
CONSTANTS
    r1 = r1
    m1 = m1
    hourly = hourly
    odd = odd
    here = here
    nowhere = nowhere
    Neighbour = s2
    Schedules = {s1, s2}
    Models = {m1}
    Reports = {r1}
    Report = r1
    Mine = {r1}
    ModelOf <- OneModel
    Exprs = {hourly, odd}
    NodeCron = {hourly}
    Timezones = {here, nowhere}
    KnownZones = {here}
    Settings <- ThreeSettings
    Builds = {b1, b2}
    MaxRevision = 1
    MaxRestarts = 1
    NoRow = NoRow
    NoTask = NoTask
    NoBuild = NoBuild
INVARIANTS
    RebuiltIsOnScreen
PROPERTIES
    RegistryIsTrue
    CacheNeverRegresses
    CacheFollows
    LoaderEnds
CHECK_DEADLOCK FALSE
