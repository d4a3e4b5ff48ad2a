SPECIFICATION Spec
CONSTANTS
  s1 = s1
  s2 = s2
  w1 = w1
  w2 = w2
  Saves = {s1, s2}
  Cron = {}
  Nightly = {}
  Workers = {w1, w2}
  Patches = {"patch"}
  Nothing = Nothing
  CatchUpRuns = 1
  SnapshotIsolation = TRUE
  FaultKinds = {}
  MaxQueue = 1
  MaxData = 1
  MaxFaults = 0
CHECK_DEADLOCK FALSE
SYMMETRY MCSymmetry
INVARIANTS RequestNotStranded
