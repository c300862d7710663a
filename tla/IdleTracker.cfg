CONSTANTS
  Pcpus = {p1}
  NbCpus = 1
  Counts = {0, 2}
  Cap = 3
  MaxTime = 2
  MaxTaken = 2
  MaxCalls = 3
  MaxLoads = 2
SPECIFICATION Spec
INVARIANTS FreshAfterReload PeriodCovered IdleComplements IdleAverageBounded
CHECK_DEADLOCK FALSE
