SPECIFICATION Spec
CONSTANTS
    press = press
    social = social
    Tags = {press, social}
    Replays = {r1}
    Loop = loop
    QueueMaxSize = 1
    MaxPosts = 1
    Conns = {c1, c2}
    Feed <- OneEvent
    Requests <- Filters
    MaxSeq = 2
INVARIANTS
    NoEventMissed
    PostSurvives
    HealthCountsListeners
CHECK_DEADLOCK FALSE
