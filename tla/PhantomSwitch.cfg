CONSTANTS
  NbVcpus = 2
  NrMsgs = 2
  MaxAttempts = 2
  Pcpus = {p1, p2}
  Foreign <- OneForeign
  Other = Other
SPECIFICATION FairSpec
INVARIANTS TypeOK CountAccurate ClampsUnused RunningNotPhantom
PROPERTIES HandlerReturns ImplementsPromise
