\* Two processes, two jobs, failures, a crash, a connection lost under its handler.
SPECIFICATION FairSpec
CONSTANTS
  Procs = {p1, p2}
  Queries = {q1, q2}
  XmlQueries = {q2}
  MaxFailures = 1
  MaxCrashes = 1
  MaxLosses = 1
INVARIANTS RowsHaveFiles OnlyAccidentsStrand
PROPERTIES PublishedSucceeds ImplementsDelivery RecordedOnce
CHECK_DEADLOCK FALSE
