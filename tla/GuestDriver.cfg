CONSTANTS
  Devices = {d1, d2}
  KfuncCpus = {c1, c2}
  Files = {f1, f2}
  None = None
  Closed = Closed
  Outside = Outside
SPECIFICATION DriverSpec
INVARIANTS RcuProtects ChardevMatches OpenFileAlive
