SPECIFICATION AllSpec
CONSTANTS
  Ops = {q1, q2}
  Cancels = {k1}
  MaxFaults = 1
  Ids = {"a", "b"}
  Objs = {"o1", "o2", "o3"}
  Requests = {"r1", "r2"}
  Turns = {"t1", "t2"}
  MaxSessions = 1
  MaxRequests = 4
  Commands = {"c1", "c2"}
  Pids = {"p1", "p2"}
  MaxKills = 1
  Setups = {"s1", "s2"}
  Targets = {"t1"}
  Files = {"f1", "f2"}
  Ports = {"q1", "q2"}
  MaxSetupFaults = 2
  Intents = {"i1", "i2", "i3"}
  SetupCards = {"s1", "s2", "s3"}
  Choices = {1}
  MaxCards = 2
  MaxProposals = 3
  MaxDiskFaults = 1
  MaxCardEvents = 2
SYMMETRY Symmetry
INVARIANTS
  ServiceIsManaged
  TurnRunsInMode
  ApprovalsShareFiling
PROPERTIES
  RollbackIsExact
  AgentsAccounted
CHECK_DEADLOCK FALSE
