CONSTANTS
    MaxPosts = 5
    Own = {3}
    PageSize = 2
    Decisions = {"amplify", "criticize", "ignore"}
    MaxFailures = 2
    MaxCrashes = 1
    MaxCount = 2
SPECIFICATION FairSpec
INVARIANTS NothingSkipped HandledInOrder ReactsToNewsOnly
PROPERTIES ReadsInOrder CatchesUp
