CONSTANTS
  Threads = {t1, t2}
  OtherTid = t3
  Pcpus = {p1}
  MaxEvents = 1
  MaxRuns = 2
  None = None
  Gone = Gone
SPECIFICATION Spec
INVARIANTS ReportedInFull CountMatches RegisteredExactly CleanedUp OtherVmKept
CHECK_DEADLOCK FALSE
PROPERTIES ToolReturns
