CONSTANTS
    a = a
    b = b
    c = c
    Images = {1, 2, 3}
    Version <- MCVersion
    Instances = {a, b, c}
    Canaries = {a}
    Specs <- CanaryOnly
    InitSpec <- RollbackChecked2
    Broken = {}
    InitFleets <- AllOn1
    MaxRetries = 1
    MaxDisturbances = 2
    Disturbances = {"edit", "timeout", "error", "crash"}
SPECIFICATION Spec
INVARIANT RollbackHasBaseline
PROPERTY CanariesFirst
