SPECIFICATION Spec
CONSTANTS
  Requests = {r1, r2}
  Sweepers = {p1}
  Uploads = {u1, u2}
  Contents = {c1}
  PartsTotal = 1
  Nil = Nil
  UploadTTL = 1
  StaleAfter = 1
  Retention = 1
  MaxTime = 2
  Faults = {"db", "client", "killed"}
  SlowCompletions = FALSE
SYMMETRY Symmetry
INVARIANTS
  LiveFileHasObject
  NothingLeftBehind
PROPERTIES
  PartsSettleAtLock
CHECK_DEADLOCK FALSE
