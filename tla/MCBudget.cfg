CONSTANTS
  Lanes = 2
  Cap = 2
  Threshold = 2
  MaxTurns = 3
  MaxClients = 2
  MaxUse = 2
  MaxFaults = 2
  MaxResumes = 1
SPECIFICATION Spec
INVARIANT BudgetIsPersisted
CHECK_DEADLOCK FALSE
