SPECIFICATION FairSpec
CONSTANTS
    k1 = k1
    k2 = k2
    sum = sum
    avg = avg
    NoRow = NoRow
    NoTable = NoTable
    NoKey = NoKey
    Builder = Builder
    GrainOf <- OwnGrain
    Keys = {k1, k2}
    Incremental = {k1}
    PlanSets <- ShrinkingPlans
    Drops = {}
    Queries = {}
    MaxGen = 3
    MaxModel = 1
    MaxFormula = 2
    Shapes = {sum, avg}
    ShapeOf <- RecipeOfFormula
    Barren <- K2WithoutAtoms
PROPERTIES
    NoCacheLoss
    BuildEnds
