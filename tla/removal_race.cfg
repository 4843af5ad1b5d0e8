CONSTANTS
    t1 = t1
    t2 = t2
    t3 = t3
    Tenants = {t1, t2}
    Existing = {t1, t2}
    OperatorNamespace = "operator"
    Urls = {"https", "http"}
    Nonces <- MCNonces
    InstanceSpecs <- JustHere
    ForeignMessages <- None
    InitClusters <- TenantLayout
    InitBound = {TRUE}
    AllowLegacyNameBoundSecrets = TRUE
    Disturbances = {"delete"}
    MaxDisturbances = 1
SPECIFICATION FairSpec
PROPERTY RemovalApplies
CHECK_DEADLOCK FALSE
