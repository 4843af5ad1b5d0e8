CONSTANTS
    t1 = t1
    t2 = t2
    t3 = t3
    Tenants = {t1, t2}
    Existing = {t1, t2}
    OperatorNamespace = "operator"
    Urls = {"https", "http"}
    Nonces <- MCNonces
    InstanceSpecs <- HereOrAway
    ForeignMessages <- None
    InitClusters <- FirstPublication
    InitBound = {TRUE}
    AllowLegacyNameBoundSecrets = FALSE
    Disturbances = {"create", "edit", "delete", "error", "redelivery", "crash", "untracked", "outage"}
    MaxDisturbances = 3
SPECIFICATION FairSpec
INVARIANT TypeOK
INVARIANT FindingsHold
PROPERTY ImplementsPlacement
PROPERTY RemovalApplies
PROPERTY FederationSettles
PROPERTY Connects
CHECK_DEADLOCK FALSE
