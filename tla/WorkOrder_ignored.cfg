\* An item is ignored, and the work is done all the same.
CONSTANTS
  oil = oil
  service = service
  None = None
  NoItem = NoItem
  Items <- OneItem
  Jobs <- OneJob
  Meters <- TwoReadings
  Intervals <- Dates
  DefinitionOf <- OilChange
  Template <- Builtin
  DueSoonMiles = 0
  DueSoonDays = 0
  SnoozeDays = 1
  MaxDay = 2
  MaxRequests = 3
SPECIFICATION Spec
PROPERTIES TheWorkResetsTheSchedule
CHECK_DEADLOCK FALSE
