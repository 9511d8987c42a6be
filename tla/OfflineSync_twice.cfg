\* Two tabs post the same reading at once.
CONSTANTS
  t1 = t1
  t2 = t2
  NoTab = NoTab
  NoWrite = NoWrite
  Writes <- OneWrite
  Tabs <- TwoTabs
  Calls <- TwoCalls
  MayAsk <- Readings
  Cap = 1
  MaxFaults = 0
SPECIFICATION OffSpec
INVARIANTS ReadingLandsOnce
CHECK_DEADLOCK FALSE
