CONSTANTS
  NbCpus = 2
  NrMsgs = 2
  Tids = {t1, t2}
  Leader = t1
  Idle = idle
  MaxEntries = 2
SPECIFICATION EndSpec
CONSTRAINTS NoUpdateLost UnplugLate
INVARIANTS SlotMeansOmp OmpThreadShown TagsAreAlive
  PhantomRunsOmp PreemptedOmpIsPhantom CountMeansOmp
PROPERTY GuestWritesOwnSlot
