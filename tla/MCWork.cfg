SPECIFICATION AllSpec
CONSTANTS
  Tickets = {t1, t2}
  Paths = {"p", "q"}
  Excluded = {"q"}
  Policies <- WorkPolicies
  PushTarget = TRUE
  MaxEdits = 2
  MaxCommits = 4
  MaxFailures = 1
  Checks = {"c1", "c2"}
  Viewports = {"wide", "narrow"}
  Impls = {"i1"}
  MaxDefects = 3
  Sources = {1, 2}
  MaxFile = 1
  MaxTicket = 2
  MaxWrites = 2
  MaxMishaps = 1
  MaxMoves = 2
  Lanes = 2
  Cap = 2
  Threshold = 1
  MaxTurns = 3
  MaxClients = 2
  MaxUse = 2
  MaxFaults = 2
  MaxResumes = 1
SYMMETRY Symmetry
INVARIANTS
  WorkIsKept
  DoneIsMerged
  GreenMeansGreen
PROPERTIES
  BudgetHolds
  LiveTicketKeepsFiles
CHECK_DEADLOCK FALSE
