SPECIFICATION FairSpec
CONSTANTS
    Access <- MCAccess
    AllowExact <- MCAllowExact
    AllowServers = {"support"}
    Deny <- MCDeny
    Configs <- MCConfigs
    Enabled = {"support", "social"}
    NeedsLogin = {"social"}
    HasSetup = {"social"}
    Injected <- MCInjected
    MaxCrashes = 1
    Deployments <- MCDeployments
    Calls = {c1}
    Requests <- AllRequests
    DiskWrites = {TRUE}
INVARIANTS
    StatusTellsBringUp
PROPERTIES
    EveryWaitEnds
CHECK_DEADLOCK FALSE
