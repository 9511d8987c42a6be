\* Opening two boxes one after the other, and closing.
CONSTANTS
  kit = kit
  drier = drier
  r1 = r1
  r2 = r2
  NoPart = NoPart
  NoLine = NoLine
  NoLot = NoLot
  Lots <- ThreeLots
  Parts <- KitAndDrier
  Lines = {}
  Inside <- OneDrier
  Units <- OneOrTwo
  Requests <- OneRequest
  Screens = {"add", "open", "close"}
  MaxEntries = 4
SPECIFICATION StockSpec
INVARIANT KitsBalance
CHECK_DEADLOCK FALSE
