CONSTANTS
  Pcpus = {p1}
  NbVcpus = 2
  Field = 3
  TsMod = 2
  LastIdle = 2
  Cap = 4
  MaxTime = 5
  MaxTaken = 4
  MaxPeriod = 3
SPECIFICATION ExactSpec
INVARIANTS AverageExact WatermarkTellsAverage
CHECK_DEADLOCK FALSE
