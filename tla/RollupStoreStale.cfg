SPECIFICATION Spec
CONSTANTS
    k1 = k1
    k2 = k2
    sum = sum
    avg = avg
    NoRow = NoRow
    NoTable = NoTable
    NoKey = NoKey
    Builder = Builder
    GrainOf <- OwnGrain
    Keys = {k1}
    Incremental = {}
    PlanSets <- OneKeyPlan
    Drops = {d1}
    Queries = {}
    MaxGen = 2
    MaxModel = 2
    MaxFormula = 1
    Shapes = {sum, avg}
    ShapeOf <- OneRecipe
    Barren = {}
INVARIANTS
    NothingOlderThanTheDrop
