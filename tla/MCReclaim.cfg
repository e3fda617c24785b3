CONSTANTS
    Issues = {i1}
    Boots = {b1, b2}
    Pids = {p1}
    NoIssue = NoIssue
    NoBoot = NoBoot
    NoPid = NoPid
    MaxRuns = 2
    TTL = 1
    MaxTurn = 0
    MaxInc = 2
    CrashContinuation = FALSE
    ReleaseIssues = {}
    Faults = FALSE
SPECIFICATION Spec
SYMMETRY BootPidSymmetry
INVARIANTS ReapedIsGone NoForeignKill
PROPERTIES NoRevival
CHECK_DEADLOCK FALSE
