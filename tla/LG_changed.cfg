\* One document, one transaction at a time.
SPECIFICATION Spec
CONSTANTS
  Procs = {p1}
  Uuids = {u1}
  Directions = {"received"}
  MetaStatuses = {"vigente", "cancelado"}
PROPERTY ConfirmedBeforeDownload
