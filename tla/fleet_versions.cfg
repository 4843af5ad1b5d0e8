CONSTANTS
    Images = {1, 2, 3, 4}
    Version <- MCVersion
    Instances = {a, b, c, d}
    Strategies <- MCStrategies
SPECIFICATION Spec
INVARIANT FleetImageIsNewestOfMostCommon
INVARIANT RefusedForTheMany
INVARIANT BudgetCoversRollout
