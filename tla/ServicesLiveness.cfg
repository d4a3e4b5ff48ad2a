SPECIFICATION FairServicesSpec
CONSTANTS
  Parts = {"scan", "notices", "authority", "routing"}
  h = h
  s = s
  n = n
  t = t
  X = X
  Y = Y
  Z = Z
  A = A
  U = U
  North = North
  South = South
  Plain = Plain
  Attachments = {a1, a2}
  Checksum <- MCChecksum
  Scanners = {w1}
  MaxScanAttempts = 2
  SweepBatch = 1
  MaxScanFaults = 1
  NoticeEvents = {"resolved", "deadline_extended"}
  ReminderEvent = "sla_reminder_50"
  Channels <- MCChannels
  Notifications <- MCNotifications
  Repeatable = {"deadline_extended"}
  Dispatchers = {w1, w2}
  MaxNotices = 2
  MaxWindows = 2
  MaxSendFaults = 1
  Officers <- MCOfficers
  Desks <- MCTwoDesks
  Scope <- MCScope
  AreaBounds <- MCAreaBounds
  LevelOf <- MCLevelOf
  Anything = Anything
  Unrouted = U
  Nothing = Nothing
  InitialSeats <- MCInitialSeats
  InitialDesks = {"AX", "UX"}
  Hires = {}
  Changes <- MCLadderChanges
  SeatEdits = {}
  MaxEdits = 1
  FiledCases <- MCFiledCase
  Admin = Admin
  ApprovalDesks = {"AX"}
  Fallback = Other
  SupervisorApproval = TRUE
  MaxAsked = 1
  RouteCases = {1, 2}
  RouteOfficers = {w1, w2}
  Unpicked = Nothing
  MaxUpsets = 2
  Tickets = {1, 2, 3}
  Similar <- MCSimilar
  Rulers = {w1, w2}
  NoMain = Nothing
  Deliveries <- MCDeliveries
  NoTicket = Nothing
  AskFirst = TRUE
CHECK_DEADLOCK FALSE
PROPERTIES
  PendingSettles
  QueuedIsHandled
  RequestReachesAdmin
  FiledCaseRouted
