\* Backfill and verify-due by one process that may crash; verify-due keeps being
\* started.
SPECIFICATION FairSpec
CONSTANTS
  Refs = {1, 2, 3}
  Packages = {k1}
  MaxAttempts = 2
  MaxAge = 2
  InitialDelay = 1
  SecondDelay = 2
  ThirdDelay = 2
  FourthDelay = 3
  LaterMinDelay = 2
  LaterMaxDelay = 4
  Procs = {p1}
  Commands = {"backfill", "verify", "live", "download"}
  Criteria = {c1, c2}
  NoCriteria = NoCriteria
  LegacyRefs = {1}
  VerifyResults <- AdapterResults
  MaxLimit = 1
  MaxClock = 3
  LastSubmit = 1
  MaxCrashes = 1
INVARIANTS OneRequestPerCriteria AcceptedIsTracked
PROPERTIES RequestsSettle
CHECK_DEADLOCK FALSE
