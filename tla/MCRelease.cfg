SPECIFICATION Spec
CONSTANTS
  Runs = {r1, r2, r3}
  NoRun = NoRun
  NoTarget = NoTarget
  Targets = {0, 1, 2}
  ContractOf <- MCContractOf
  MaxCycles = 1
  MaxGen = 3
  MaxDisturb = 2
INVARIANTS ApprovalIsEarned CompletionIsEarned
PROPERTY ImplementsCycle
SYMMETRY Symmetry
CHECK_DEADLOCK FALSE
