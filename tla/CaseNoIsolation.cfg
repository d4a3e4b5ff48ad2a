SPECIFICATION Spec
CONSTANTS
  None = None
  Lost = Lost
  Category = {"water"}
  SlaWindow <- MCSlaWindow
  AutoEscalate <- MCAutoEscalate
  Threshold <- MCThreshold
  TimerHours <- MCTimerHours
  TimerExpiry <- MCTimerExpiry
  Rungs = 1
  RungHours <- MCTerminalTop
  HigherAuthority <- MCHigherAuthority
  SnapshotIsolation = FALSE
  MaxDeferral = 1
  MaxNow = 3
  MoveHorizon = 2
  MaxDue = 3
  MaxPending = 0
CHECK_DEADLOCK FALSE
PROPERTIES FinalOutcomeKept
