\* Two tabs over one queue, lost answers, a closed tab, keep mine.
CONSTANTS
  t1 = t1
  t2 = t2
  NoTab = NoTab
  NoWrite = NoWrite
  Writes <- TwoWrites
  Tabs <- TwoTabs
  Calls <- TwoCalls
  MayAsk <- Mixed
  Cap = 1
  MaxFaults = 1
SPECIFICATION OffSpec
INVARIANTS NothingLost NoteLandsOnce
PROPERTIES KeepMineMovesOn EveryCaptureSettles
CHECK_DEADLOCK FALSE
