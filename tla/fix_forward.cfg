CONSTANTS
    a = a
    b = b
    c = c
    Images = {1, 2, 3}
    Version <- MCVersion
    Instances = {a, b}
    Canaries = {a}
    Specs <- CanaryMovesOn
    InitSpec <- Canary2
    Broken = {2}
    InitFleets <- AllOn1
    MaxRetries = 1
    MaxDisturbances = 1
    Disturbances = {"edit"}
SPECIFICATION FairSpec
PROPERTY FixForward
