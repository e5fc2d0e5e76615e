\* Two slots for reports, four reports to save, every reader's picks.
CONSTANTS
    sales = sales
    returns = returns
    date = date
    product = product
    k1 = k1
    NoTable = NoTable
    NoReport = NoReport
    NoValue = NoValue
    Tables = {sales, returns, date, product}
    Keys = {k1}
    Joins <- MCJoins
    Dims <- MCDims
    TableOf <- MCTableOf
    Members <- MCMembers
    YearDims <- MCYearDims
    Parts <- MCParts
    DateTable = date
    Measures <- MCMeasures
    Def <- MCDef
    Rows <- MCRows
    Reports <- MCReports
    Offers <- MCOffers
    MaxActs = 4
SPECIFICATION Spec
INVARIANTS AnswersAreLive WidgetsAreServed
CHECK_DEADLOCK FALSE
