SPECIFICATION Spec
CONSTANTS
  None = None
  Lost = Lost
  Category = {"land", "other"}
  SlaWindow <- MCSlaWindow
  AutoEscalate <- MCAutoEscalate
  Threshold <- MCThreshold
  TimerHours <- MCTimerHours
  TimerExpiry <- MCTimerExpiry
  Rungs = 1
  RungHours <- MCRungHours
  HigherAuthority <- MCHigherAuthority
  SnapshotIsolation = TRUE
  MaxDeferral = 1
  MaxNow = 4
  MoveHorizon = 2
  MaxDue = 3
  MaxPending = 1
CHECK_DEADLOCK FALSE
INVARIANTS DeadlineAccounting EscalationInsideWindow
PROPERTIES TerminalIsFinal DeadlineOnlyMovesOut SweepsActOnLiveRows
