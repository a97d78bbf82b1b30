SPECIFICATION FairSpec
CONSTANTS
    Reads = {get_ticket}
    Writes = {create_post}
    Post = create_post
    InBand = {}
    MaxPlanSteps = 2
    MaxTotalSteps = 2
    MaxReplies = 2
    MaxTries = 2
    MaxCalls = 4
    NoTool = no_tool
INVARIANTS
    RecordMatchesTrace
    WritesRepeatAfterRaiseOnly
    EffectsAreTraced
    ChecksAreTrue
PROPERTIES
    ChatReturns
CHECK_DEADLOCK FALSE
