\* A request with two packages.
SPECIFICATION Spec
CONSTANTS
  Refs = {1}
  Packages = {k1, k2}
  MaxAttempts = 2
  MaxAge = 4
  InitialDelay = 1
  SecondDelay = 2
  ThirdDelay = 3
  FourthDelay = 3
  LaterMinDelay = 2
  LaterMaxDelay = 4
  Procs = {p1}
  Commands = {"smoke", "backfill", "verify", "live", "download"}
  Criteria = {c1}
  NoCriteria = NoCriteria
  LegacyRefs = {}
  VerifyResults <- AdapterResults
  MaxLimit = 1
  MaxClock = 3
  LastSubmit = 1
  MaxCrashes = 0
INVARIANTS AllPackagesStored
