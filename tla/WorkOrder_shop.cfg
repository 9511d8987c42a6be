\* One work order over a schedule, the operator beside the worker's refresh.
CONSTANTS
  oil = oil
  service = service
  None = None
  NoItem = NoItem
  Items <- AddedAgain
  Jobs <- OneJob
  Meters <- TwoReadings
  Intervals <- Dates
  DefinitionOf <- OilChange
  Template <- Builtin
  DueSoonMiles = 0
  DueSoonDays = 0
  SnoozeDays = 0
  MaxDay = 1
  MaxRequests = 3
SPECIFICATION Spec
INVARIANTS OneCompletionPerJob AnchorIsRecorded ClosedOut
PROPERTIES ServicesNeverRewind StatusCatchesUp
CHECK_DEADLOCK FALSE
