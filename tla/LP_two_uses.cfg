\* Two commands read a permit before either writes it back.
SPECIFICATION Spec
CONSTANTS
  Procs = {p1, p2}
  PermitIds = {k1}
  NoPermit = NoPermit
  Queries <- FewQueries
  Inputs <- FewInputs
  Commands = {"auth-smoke", "metadata-request-smoke", "verify-due"}
  Commits = {c1}
  Minutes = {1}
  MaxClock = 1
  MaxCrashes = 0
INVARIANTS OneUsePerPermit
