CONSTANTS
  Pcpus = {p1, p2}
  NbVcpus = 1
  Field = 2
  TsMod = 2
  LastIdle = 1
  Cap = 3
  MaxTime = 2
  MaxPeriod = 2
  MaxTaken = 2
SPECIFICATION Spec
SYMMETRY PcpuSymmetry
INVARIANTS TypeOK AverageBounded FreshUnlessInFlight EntryHasOneWriter
CHECK_DEADLOCK FALSE
