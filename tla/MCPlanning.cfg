SPECIFICATION AllSpec
CONSTANTS
  first = first
  second = second
  Tasks = {first, second}
  Requires <- PlanRequires
  Contents = {c1, c2}
  Ops = {o1, o2}
  Attempts = {w1, w2}
  Procedures = {p}
  MaxApprovals = 2
  MaxCrashes = 1
  MaxEdits = 1
  Ids = {"i1", "i2"}
  MaxDocCrashes = 2
  MaxWrites = 2
  MaxExternal = 1
  Issues = {i1, i2}
  Boots = {b1}
  Pids = {p1}
  NoIssue = NoIssue
  NoBoot = NoBoot
  NoPid = NoPid
  MaxRuns = 2
  TTL = 1
  MaxTurn = 0
  MaxInc = 1
  CrashContinuation = FALSE
  ReleaseIssues = {i2}
  Faults = TRUE
SYMMETRY Symmetry
INVARIANTS
  LaunchIsAuthorised
  AcceptedIsQuiet
  NeverTorn
PROPERTIES
  ReleaseRunStartsWithWorker
CHECK_DEADLOCK FALSE
