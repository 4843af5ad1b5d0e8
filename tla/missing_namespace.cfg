CONSTANTS
    t1 = t1
    t2 = t2
    t3 = t3
    Tenants = {t1, t2}
    Existing = {t1}
    OperatorNamespace = "operator"
    Urls = {"https", "http"}
    Nonces <- MCNonces
    InstanceSpecs <- JustHere
    ForeignMessages <- None
    InitClusters <- FirstPublication
    InitBound = {FALSE}
    AllowLegacyNameBoundSecrets = TRUE
    Disturbances = {}
    MaxDisturbances = 0
SPECIFICATION FairSpec
PROPERTY EveryMessageSettles
CHECK_DEADLOCK FALSE
