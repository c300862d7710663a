CONSTANTS
  Callers = {r1, r2, r3}
  MaxDevices = 4
  MaxCalls = 6
SPECIFICATION Spec
SYMMETRY CallerSymmetry
INVARIANTS GrantedOwnsBackend NextIdConserved NextIdFree
CHECK_DEADLOCK FALSE
