\* One process at a time, two requests sharing the file, batches of two, a crash.
SPECIFICATION Spec
CONSTANTS
  Refs = {1, 2}
  Packages = {k1}
  MaxAttempts = 2
  MaxAge = 6
  InitialDelay = 1
  SecondDelay = 2
  ThirdDelay = 3
  FourthDelay = 3
  LaterMinDelay = 2
  LaterMaxDelay = 4
  Procs = {p1}
  Commands = {"smoke", "backfill", "verify", "live", "download"}
  Criteria = {c1}
  NoCriteria = NoCriteria
  LegacyRefs = {1}
  VerifyResults <- PortResults
  MaxLimit = 2
  MaxClock = 6
  LastSubmit = 1
  MaxCrashes = 1
INVARIANTS TypeOK ScheduleConsistent OutcomeComesFromSat EvidenceBeforeDownloaded
PROPERTIES BackoffRespected ProgressKept ImplementsLifecycle
