\* One command at a time: every command, operation, envelope and environment, permits
\* that expire or belong to another commit, a crash.
SPECIFICATION Spec
CONSTANTS
  Procs = {p1}
  PermitIds = {k1}
  NoPermit = NoPermit
  Queries <- MixedQueries
  Inputs <- ManyInputs
  Commands <- AllCommands
  Commits = {c1, c2}
  Minutes = {1, 16}
  MaxClock = 1
  MaxCrashes = 1
INVARIANTS OneUsePerPermit IssuedIsAcceptable LiveIsAuthorised
PROPERTIES ImplementsPermit
