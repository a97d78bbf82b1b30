SPECIFICATION FairSpec
CONSTANTS
    Access <- MCAccess
    Registries <- MCRegistries
    RoleFiles <- MCRoleFiles
    Served <- MCServed
    EnvProfile = ""
    Role = "ceo"
    NumTickets = 2
    MaxRuns = 2
INVARIANTS
    HandedOver
    ExitTells
    SeedsOnce
PROPERTIES
    ProgramEnds
CHECK_DEADLOCK FALSE
