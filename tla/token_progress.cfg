CONSTANTS
    u1 = u1
    u2 = u2
    Unleashes = {u1, u2}
    Specs <- Moving
    UpdateEnabled = TRUE
    MaxDisturbances = 5
    Disturbances = {"apply", "edit", "delete", "crash", "error", "refused", "admin", "outage"}
SPECIFICATION FairSpec
INVARIANT TypeOK
INVARIANT NoDuplicates
PROPERTY Settles
PROPERTY DeletionEnds
CHECK_DEADLOCK FALSE
