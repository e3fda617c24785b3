CONSTANTS
    Issues = {i1}
    Boots = {b1, b2, b3}
    Pids = {}
    NoIssue = NoIssue
    NoBoot = NoBoot
    NoPid = NoPid
    MaxRuns = 3
    TTL = 1
    MaxTurn = 2
    MaxInc = 1
    CrashContinuation = TRUE
    ReleaseIssues = {}
    Faults = FALSE
SPECIFICATION Spec
SYMMETRY BootPidSymmetry
CONSTRAINT OneReplaced
INVARIANTS OneSuccessor ContinuationKeepsProgress
PROPERTIES ImplementsHistory
CHECK_DEADLOCK FALSE
