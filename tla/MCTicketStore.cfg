SPECIFICATION FairSpec
CONSTANTS
    Values <- MCValues
    Rest = {r1, r2}
    Mcp = {m1}
    Scores = {"neutral"}
    Patches <- MCPatches
    MaxTickets = 1
    MaxCrashes = 1
    NoCall = NoCall
INVARIANTS
    TypeOK
    FiledWhole
    SnapshotIsLastEntry
    AnswerIsTrue
PROPERTIES
    Ledger
    LockReleased
CHECK_DEADLOCK FALSE
