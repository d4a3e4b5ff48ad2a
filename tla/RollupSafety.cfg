SPECIFICATION Spec
CONSTANTS
  s1 = s1
  s2 = s2
  w1 = w1
  w2 = w2
  Saves = {s1, s2}
  Cron = {}
  Nightly = {}
  Workers = {w1, w2}
  Patches = {}
  Nothing = Nothing
  CatchUpRuns = 1
  SnapshotIsolation = FALSE
  FaultKinds = {"refresh", "enqueue"}
  MaxQueue = 1
  MaxData = 2
  MaxFaults = 1
CHECK_DEADLOCK FALSE
SYMMETRY MCSymmetry
INVARIANTS RequestNotStranded ChangesAccounted RebuildNotForgotten
