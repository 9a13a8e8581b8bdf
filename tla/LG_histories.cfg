\* A uuid both issued and received, two transactions that may overlap.
SPECIFICATION Spec
CONSTANTS
  Procs = {p1, p2}
  Uuids = {u1}
  Directions = {"issued", "received"}
  MetaStatuses = {"vigente", "cancelado", "en_proceso", "otro"}
INVARIANTS NoPhantomXml EventsExplainLedger
PROPERTIES DownloadedIsFinal ReconcileRepairs
SYMMETRY UuidSymmetry
CONSTRAINT OverlapBound
