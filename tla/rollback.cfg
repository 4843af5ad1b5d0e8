CONSTANTS
    a = a
    b = b
    c = c
    Images = {1, 2, 3}
    Version <- MCVersion
    Instances = {a, b}
    Canaries = {}
    Specs <- JustRollback2
    InitSpec <- Rollback2
    Broken = {2}
    InitFleets <- AllOn1
    MaxRetries = 1
    MaxDisturbances = 3
    Disturbances = {"error", "crash", "timeout"}
SPECIFICATION FairSpec
INVARIANT MaxParallelHolds
PROPERTY LeavesBrokenImage
