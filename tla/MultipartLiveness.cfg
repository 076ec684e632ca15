SPECIFICATION FairSpec
CONSTANTS
  Requests = {r1, r2}
  Sweepers = {p1}
  Uploads = {u1}
  Contents = {c1}
  PartsTotal = 2
  Nil = Nil
  UploadTTL = 1
  StaleAfter = 1
  Retention = 1
  MaxTime = 4
  Faults = {"s3", "lost_commit", "client", "crash"}
  SlowCompletions = FALSE
INVARIANTS
  OneCompletion
PROPERTIES
  CompletedIsFinal
  AbandonedSessionsEnd
CHECK_DEADLOCK FALSE
