\* One worker; a backup that kills it every time, and an operator who gives up on rows.
CONSTANTS
  a = a
  b = b
  c = c
  w1 = w1
  w2 = w2
  r1 = r1
  backup = backup
  refresh = refresh
  NoJob = NoJob
  NoType = NoType
  Jobs <- TwoJobs
  Workers <- OneWorker
  MaxAttempts = 2
  DrainLimit = 100
  Poison <- PoisonA
  Unhandled = {}
  Timely = FALSE
  MaxCrashes = 1
  Types <- Backup
  Recurring <- Backup
  Manual <- Backup
  TypeOf <- AllBackups
  Requests <- OneRequest
  MaxPresses = 1
SPECIFICATION SchedFairSpec
INVARIANT BoundedPileUp
PROPERTY ScheduleGoesOn
