CONSTANTS
    t1 = t1
    t2 = t2
    t3 = t3
    Tenants = {t1, t2, t3}
    Existing = {t1, t2}
    OperatorNamespace = "operator"
    Urls = {"https", "http"}
    Nonces <- MCNonces
    InstanceSpecs <- HereOrWide
    ForeignMessages <- Stray
    InitClusters <- LegacyClusters
    InitBound = {TRUE}
    AllowLegacyNameBoundSecrets = TRUE
    Disturbances = {"edit", "delete", "error", "crash", "redeploy", "foreign", "unpublished"}
    MaxDisturbances = 2
SPECIFICATION FairSpec
PROPERTY ImplementsPlacement
PROPERTY CredentialKept
PROPERTY MigrationSettles
CHECK_DEADLOCK FALSE
