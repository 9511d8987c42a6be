\* One request at a time: every screen of the shelf and of an order, two lines of loose parts.
\* The lines are alike: nothing tells them apart.
CONSTANTS
  kit = kit
  drier = drier
  r1 = r1
  r2 = r2
  first = first
  second = second
  NoPart = NoPart
  NoLine = NoLine
  NoLot = NoLot
  Lots <- TwoLots
  Parts <- OnePart
  Lines <- TwoLines
  Inside <- Loose
  Quantities = {2}
  FirstStatus = {"ordered"}
  LineParts = {drier}
  Units <- OneOrTwo
  Requests <- OneRequest
  Screens = {"add", "edit", "delete", "use", "count", "receive", "unreceive",
             "line", "order"}
  MaxEntries = 3
SPECIFICATION RcvSpec
INVARIANTS Projection NonNegative DrawnIsKept LineMatchesShelf
PROPERTIES StatusFollowsLines RefillsNoHistory
SYMMETRY EitherLine
CHECK_DEADLOCK FALSE
