CONSTANTS
    MaxPosts = 3
    Own = {3}
    PageSize = 2
    Decisions = {"amplify", "criticize", "ignore"}
    MaxFailures = 1
    MaxCrashes = 0
    MaxCount = 2
SPECIFICATION FairSpec
PROPERTIES RetryGetsThere
