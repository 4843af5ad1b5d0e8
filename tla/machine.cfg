CONSTANTS
    a = a
    b = b
    c = c
    Images = {1, 2, 3}
    Version <- MCVersion
    Instances = {a, b}
    Canaries = {a}
    Specs <- MachineSpecs
    InitSpec <- Pinned2
    Broken = {2}
    InitFleets <- Anyhow
    MaxRetries = 1
    MaxDisturbances = 2
    Disturbances = {"edit", "timeout", "error", "crash", "flap", "fault", "join", "leave"}
SPECIFICATION Spec
INVARIANT TypeOK
INVARIANT BatchOnlyWhileRolling
PROPERTY RollbackLands
PROPERTY AssignsOnlyWhenSettled
