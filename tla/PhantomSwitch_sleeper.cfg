CONSTANTS
  NbVcpus = 2
  NrMsgs = 2
  MaxAttempts = 2
  Pcpus = {p1, p2}
  Foreign <- NoForeign
  Other = Other
SPECIFICATION Spec
INVARIANT PhantomWasPreempted
