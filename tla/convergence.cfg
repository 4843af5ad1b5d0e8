CONSTANTS
    a = a
    b = b
    c = c
    Images = {1, 2}
    Version <- MCVersion
    Instances = {a, b, c}
    Canaries = {a}
    Specs <- Strategies
    InitSpec <- To2
    Broken = {}
    InitFleets <- AllOn1
    MaxRetries = 1
    MaxDisturbances = 2
    Disturbances = {"edit", "crash", "flap"}
SPECIFICATION FairSpec
PROPERTY Converges
