SPECIFICATION FairSpec
CONSTANTS
  s1 = s1
  s2 = s2
  w1 = w1
  w2 = w2
  Saves = {s1}
  Cron = {"nightly"}
  Nightly = {"nightly"}
  Workers = {w1}
  Patches = {}
  Nothing = Nothing
  CatchUpRuns = 0
  SnapshotIsolation = TRUE
  FaultKinds = {"refresh", "commit", "worker", "request", "enqueue", "job", "expiry"}
  MaxQueue = 1
  MaxData = 1
  MaxFaults = 1
CHECK_DEADLOCK FALSE
PROPERTIES DashboardsCatchUp
