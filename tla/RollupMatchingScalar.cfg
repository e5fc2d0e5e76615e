\* A rule of one value on the bar: the selections of two values are the same
\* to the hash.
CONSTANTS
    sales = sales
    returns = returns
    date = date
    product = product
    k1 = k1
    NoTable = NoTable
    NoReport = NoReport
    NoValue = NoValue
    Tables = {sales, returns, date, product}
    Keys = {k1}
    Joins <- MCJoins
    Dims <- MCDims
    TableOf <- MCTableOf
    Members <- MCMembers
    YearDims <- MCYearDims
    Parts <- MCParts
    DateTable = date
    Measures <- MCMeasures
    Def <- MCDef
    Rows <- MCRows
    Reports <- MCReports
    Offers <- MCScalarOffers
    MaxActs = 2
SPECIFICATION Spec
INVARIANTS AnswersAreLive
CHECK_DEADLOCK FALSE
