\* Extraction, vault, configuration, backfill plan, orchestration and diagnoses, each by itself.
\* Orchestration: two criteria and two packages; a token that outlives the margin, or not.
SPECIFICATION MCSpec
CONSTANTS
  ExtractProcs = {e1, e2}
  Zips <- MCZips
  AllowedExtensions = {".txt"}
  MaxExtractCrashes = 1
  ImportProcs = {i1, i2}
  Xmls <- MCXmls
  Batches <- MCBatches
  MaxImports = 3
  MaxImportCrashes = 1
  Onboarders = {o1, o2}
  Requests <- MCRequests
  HandWritten <- MCHandWritten
  ValidIds = {"p1", "p2", "p3"}
  MaxOnboardings = 3
  MaxTears = 1
  Days <- MCDays
  FromDays = {1, 3}
  Directions = {"issued", "received"}
  MaxSubmits = 3
  Criteria = {c1, c2}
  Packages = {p1, p2}
  NoRow = NoRow
  RefreshMargin = 1
  Lifetimes = {0, 2, 3}
  MaxClock = 4
  MaxPolls = 4
  MaxRuns = 2
INVARIANTS
  StorageMatchesReports
  ReportsAreTrue
  CompletedIsComplete
  ConfigStaysLoadable
  ProfilesPreserved
  BackfillCovers
  IndexesAgree
  PackagesAreKept
  ReusedSessionOutlivesMargin
  DownloadedMeansAll
  
CHECK_DEADLOCK FALSE
