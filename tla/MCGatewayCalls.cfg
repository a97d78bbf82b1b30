SPECIFICATION Spec
CONSTANTS
    Access <- MCAccess
    AllowExact <- MCAllowExact
    AllowServers = {"support"}
    Deny <- MCDeny
    Configs <- MCConfigs
    Enabled = {"support", "social"}
    NeedsLogin = {"social"}
    HasSetup = {"social"}
    Injected <- MCInjected
    MaxCrashes = 1
    Deployments <- MCDeployments
    Calls = {c1, c2}
    Requests <- Writes
    DiskWrites = {TRUE, FALSE}
INVARIANTS
    TypeOK
    OnlyGrantedLands
    LandsAsItself
    AuditTrail
PROPERTIES
    GuardsCalls
CHECK_DEADLOCK FALSE
