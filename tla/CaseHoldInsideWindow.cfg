SPECIFICATION Spec
CONSTANTS
  None = None
  Lost = Lost
  Category = {"land", "water"}
  SlaWindow <- MCSlaWindow
  AutoEscalate <- MCAutoEscalate
  Threshold <- MCThreshold
  TimerHours <- MCTimerHours
  TimerExpiry <- MCTimerExpiry
  Rungs = 1
  RungHours <- MCRungHours
  HigherAuthority <- MCHigherAuthority
  SnapshotIsolation = TRUE
  MaxDeferral = 1
  MaxNow = 3
  MoveHorizon = 3
  MaxDue = 4
  MaxPending = 1
CHECK_DEADLOCK FALSE
INVARIANTS HoldInsideWindow
