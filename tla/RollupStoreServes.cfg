SPECIFICATION Spec
CONSTANTS
    k1 = k1
    k2 = k2
    sum = sum
    avg = avg
    NoRow = NoRow
    NoTable = NoTable
    NoKey = NoKey
    Builder = Builder
    GrainOf <- OwnGrain
    Keys = {k1}
    Incremental = {k1}
    PlanSets <- OneKeyPlan
    Drops = {d1}
    Queries = {q1}
    MaxGen = 2
    MaxModel = 2
    MaxFormula = 1
    Shapes = {sum, avg}
    ShapeOf <- RecipeOfModel
    Barren = {}
PROPERTIES
    ImplementsServing
INVARIANTS
    ServedFaithfully
    HitsAreWhole
