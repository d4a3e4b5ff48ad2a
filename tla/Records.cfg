SPECIFICATION RecordsSpec
CONSTANTS
  Parts = {"rollup", "counts", "registry", "directory", "taxonomy", "thread",
           "form", "pages", "exports", "seeding", "row"}
  Saves = {"save"}
  Cron = {}
  Nightly = {}
  Workers = {y1}
  Patches = {"patch"}
  Nothing = Nothing
  CatchUpRuns = 1
  SnapshotIsolation = TRUE
  FaultKinds = {"worker"}
  MaxQueue = 1
  MaxData = 1
  MaxFaults = 1
  CountedCases = {x1, x2}
  Holders = {"u1", "u2"}
  Anyone = "anyone"
  PeriodDays = 2
  IncrementalDays = 2
  BackfillDaysMax = 1
  LastDay = 3
  MaxEvents = 3
  Logins = {x1, x2}
  ProfileIds = {y1, y2}
  Names = {"x"}
  OrgTypes = {"NGO"}
  Numbers = {z1, z2}
  Faydas = {"f1"}
  Farmer = "farmer"
  None = None
  Refs = {x1, x2}
  Details = {y1, y2, long}
  Unfit = {long}
  NoProvider = None
  MaxIds = 2
  MaxTouches = 1
  Categories = {x1, x2, other}
  SeededCategory = other
  TypeIds = {y1, y2, catchall}
  SeededType = catchall
  MaxCommits = 4
  TypeNames = {"other", "water"}
  Editors = {z1, z2}
  CatchAll = "other"
  NoRow = None
  Calls = {z1, z2}
  Citizen = Citizen
  Staff = {x1, x2}
  MessageIds = {"m"}
  Blank = None
  MaxLog = 5
  EntryNames = {1, 2, 3, 4}
  PageLimit = 2
  LastMoment = 1
  NoReader = None
  Exports = {x1, x2}
  MaxContent = 1
  WriteAttempts = 3
  MaxDenials = 1
  Connection = "good"
  FirstReleases = {0}
  Editable = {"received", "reopened", "category", "default", "channel", "region", "level",
              "resolvedTimer", "pendingTimer", "title", "case", "source"}
  MaxEdits = 2
  MaxCrashes = 1
  OpenForms = {x1, x2}
  CaseRequests = {"request"}
  SweepRuns = {"sweep"}
  NoCopy = None
  RefusesOldSnapshot = TRUE
  MaxWrites = 3
CHECK_DEADLOCK FALSE
SYMMETRY RecordsSymmetry
INVARIANTS
  RecordsTypeOK
  IncrementalIsEnough
  ActiveIsVerified
  DirectoryMirrorsSource
  OneDefault
  BacklogMatchesHistory
  FormTellsTheCase
  PagesCover
  HandedOverOnRecord
  SeedingKeepsEdits
PROPERTIES
  OfficerBlockStands
  RatingFits
  NothingTakenBack
