SPECIFICATION FairSpec
CONSTANTS
  None = None
  Lost = Lost
  Category = {"land", "water"}
  SlaWindow <- MCSlaWindow
  AutoEscalate <- MCAutoEscalate
  Threshold <- MCThreshold
  TimerHours <- MCTimerHours
  TimerExpiry <- MCTimerExpiry
  Rungs = 1
  RungHours <- MCRungHours
  HigherAuthority <- MCHigherAuthority
  SnapshotIsolation = TRUE
  MaxDeferral = 1
  MaxNow = 6
  MoveHorizon = 2
  MaxDue = 3
  MaxPending = 0
CHECK_DEADLOCK FALSE
PROPERTIES WaitingOnSubmitterEnds OverdueIsEscalated ImplementsContract
