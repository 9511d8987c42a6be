\* A note at the source, and one sync after the other.
CONSTANTS
  log = log
  reading = reading
  job = job
  Records = {log}
  KindOf <- OneNote
  Own = {reading}
  Syncers = {job}
  MaxDay = 2
  Overlap = 1
  FirstRun = 2
  MaxTroubles = 0
  NoDate = NoDate
SPECIFICATION LubeSpec
INVARIANT CopiedOnce
CHECK_DEADLOCK FALSE
