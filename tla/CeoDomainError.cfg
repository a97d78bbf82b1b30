SPECIFICATION Spec
CONSTANTS
    Reads = {get_ticket}
    Writes = {create_post, patch_ticket}
    Post = create_post
    InBand = {get_ticket, patch_ticket}
    MaxPlanSteps = 2
    MaxTotalSteps = 2
    MaxReplies = 2
    MaxTries = 2
    MaxCalls = 4
    NoTool = no_tool
INVARIANTS
    CompletedStepDidItsWork
CHECK_DEADLOCK FALSE
