SPECIFICATION FairSpec
CONSTANTS
    press = press
    social = social
    Tags = {press, social}
    Replays = {r1}
    Loop = loop
    QueueMaxSize = 2
    MaxPosts = 1
    Conns = {c1}
    Feed <- TwoEvents
    Requests <- RepeatedTag
    MaxSeq = 3
INVARIANTS
    InThreadOrder
PROPERTIES
    Mailboxes
    ReplayPlaysOut
CHECK_DEADLOCK FALSE
