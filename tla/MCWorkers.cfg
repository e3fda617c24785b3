SPECIFICATION AllSpec
CONSTANTS
  i1 = i1
  i2 = i2
  Issues = {i1, i2}
  Tasks = {t1, t2, t3}
  Worlds <- SafetyWorlds
  MaxAgents = 1
  MaxRetries = 1
  EscalationMax = 2
  MaxEscalations = 1
  NoTask = NoTask
  NoIssue = NoIssue
  Orphan = Orphan
  Procs = {1, 2}
  MalformedLimit = 2
  MaxFaults = 1
  MaxStops = 1
  MaxCancels = 1
  MaxTurns = 3
  MaxLaunches = 2
  MaxTimeouts = 2
  MaxBreaks = 2
  MaxOutput = 2
  BadLineLimit = 2
SYMMETRY TaskSymmetry
INVARIANTS
  OneOwner
  RunningWithinCap
  StopHolds
  TurnIsOwn
CHECK_DEADLOCK FALSE
