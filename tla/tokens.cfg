CONSTANTS
    u1 = u1
    u2 = u2
    Unleashes = {u1}
    Specs <- Rotating
    UpdateEnabled = TRUE
    MaxDisturbances = 6
    Disturbances = {"apply", "edit", "delete", "crash", "error"}
SPECIFICATION Spec
PROPERTY RotationKeepsSecretWorking
PROPERTY GoneMeansClean
CHECK_DEADLOCK FALSE
