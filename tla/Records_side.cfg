\* Each component on its own: the trash, a code on two scans, two syncs at once, two work
\* orders that want the same part, a worker and a web process beside two people who save
\* settings, two changes to two accounts, an inspection answered and converted at once.
CONSTANTS
  l1 = l1
  l2 = l2
  l3 = l3
  desk = desk
  scan = scan
  other = other
  log = log
  reading = reading
  job = job
  button = button
  w1 = w1
  w2 = w2
  Rows = {l1, l2, l3}
  Clerks = {desk}
  Doors = {"delete", "remove line", "add line", "restore", "purge", "sweep", "admin delete", "admin restore"}
  MaxClock = 5
  Retention = 1
  Sessions = {1, 2}
  Reports = {scan, other}
  Days = {1, 2}
  Miles = {1, 2}
  NoScan = 0
  Records = {log}
  KindOf <- OneService
  Own = {reading}
  Syncers = {job, button}
  MaxDay = 2
  Overlap = 1
  FirstRun = 2
  MaxTroubles = 1
  NoDate = NoDate
  Orders = {w1, w2}
  Claims = {1, 2, 3}
  Most = 2
  MostBought = 1
  NoOrder = NoOrder
  web = web
  worker = worker
  zone = zone
  s1 = s1
  s2 = s2
  Keys = {zone}
  Values = {0, 1}
  Processes = {web, worker}
  RunWorkers = {worker}
  Savers = {s1, s2}
  MaxSaves = 3
  ann = ann
  bob = bob
  v1 = v1
  v2 = v2
  Users = {ann, bob}
  Visits = {v1, v2}
  tire = tire
  extra = extra
  q1 = q1
  q2 = q2
  Results = {tire, extra}
  AdHoc = {extra}
  Requests = {q1, q2}
  Items = {1, 2}
  NoItem = NoItem
  NoResult = NoResult
SPECIFICATION SideSpec
INVARIANTS LinesRejoin WindowIsKept RereadReplaces SentOnce NoPartPromisedTwice ShortageIsSeen StaleIsKnown SomebodyManages OneItemPerFinding
PROPERTIES VouchedStays NothingFallsBehind
CHECK_DEADLOCK FALSE
