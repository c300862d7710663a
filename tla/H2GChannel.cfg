CONSTANTS
  NrMsgs = 4
  CursorMod = 7
  Vms = {v1, v2}
  MaxStamp = 7
SPECIFICATION ChannelSpec
INVARIANTS LatestInHistory LatestIsSomeonesLast HistoryCycles
CHECK_DEADLOCK FALSE
