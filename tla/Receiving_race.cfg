\* Two requests at once on a line that brings kits, their boxes opened, closed and
\* used, the line corrected and removed.  The order was closed by hand, so that its status
\* stands still: nothing checked here reads it.
CONSTANTS
  kit = kit
  drier = drier
  r1 = r1
  r2 = r2
  first = first
  second = second
  NoPart = NoPart
  NoLine = NoLine
  NoLot = NoLot
  Lots <- ThreeLots
  Parts <- KitAndDrier
  Lines <- OneLine
  Inside <- OneDrier
  Quantities <- NoneOrTwo
  FirstStatus = {"cancelled"}
  LineParts = {kit}
  Units <- JustOne
  Requests <- TwoRequests
  Screens = {"receive", "unreceive", "use", "open", "close", "line"}
  MaxEntries = 3
SPECIFICATION RcvSpec
INVARIANTS WithinOrder UsedCameIn NothingFromNowhere
CHECK_DEADLOCK FALSE
