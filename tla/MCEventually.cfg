SPECIFICATION FairSpec
CONSTANTS
  w1 = w1
  w2 = w2
  Nobody = Nobody
  Procs = {a, b}
  MaxFaults = 1
  MaxWork = 2
INVARIANTS
  NewApprovalStays
PROPERTIES
  WritersFinish
  ArchiveFinishes
  PartialCreateRepaired
CHECK_DEADLOCK FALSE
