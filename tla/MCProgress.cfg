CONSTANTS
    Issues = {i1}
    Boots = {b1, b2}
    Pids = {p1}
    NoIssue = NoIssue
    NoBoot = NoBoot
    NoPid = NoPid
    MaxRuns = 1
    TTL = 1
    MaxTurn = 0
    MaxInc = 1
    CrashContinuation = TRUE
    ReleaseIssues = {}
    Faults = FALSE
SPECIFICATION FairSpec
PROPERTIES DeadOwnerFreed LostLeaseStopsWorker
CHECK_DEADLOCK FALSE
