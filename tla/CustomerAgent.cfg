SPECIFICATION FairSpec
CONSTANTS
    Feed <- MCFeed
    EnvTags <- MCEnvTags
    TagsSet = FALSE
    NumPersonas = 2
    InitialTrust <- MCTrust
    MaxTrust = 1
    RawScores <- MCScores
    NoScore = NoScore
    QueueMaxSize = 1
    WireSize = 1
    MaxLate = 1
INVARIANTS
    MemoryTells
PROPERTIES
    Rounds
    KeepsListening
    ChildIsStopped
CHECK_DEADLOCK FALSE
