SPECIFICATION MCAlertSpec
CONSTANTS
    above50 = above50
    above90 = above90
    hourly = hourly
    odd = odd
    here = here
    nowhere = nowhere
    NoRow = NoRow
    NoAlert = NoAlert
    Broken = Broken
    Conditions = {above50, above90}
    Values = {40, 60}
    Meets <- ValuesMet
    Exprs = {hourly, odd}
    NodeCron = {hourly}
    Timezones = {here, nowhere}
    KnownZones = {here}
    Alerts = {1, 2}
    Neighbour = 2
    Runs = {1, 2}
    AlertSettings <- FourSettings
    HistoryCap = 2
PROPERTIES
    JobsFollowRows
    HistoryIsTrue
    SaidOnce
    Converges
