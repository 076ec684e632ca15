SPECIFICATION FairSpec
CONSTANTS
  Requests = {r1, r2}
  Purgers = {p1}
  FileIds = {f1, f2}
  RefIds = {q1, q2}
  Contents = {c1, c2}
  Keys = {}
  Self = Self
  Nil = Nil
  GracePeriod = 1
  RefGrace = 1
  MaxTime = 2
  BatchLimit = 1
  Faults = {"db"}
  LongTransactions = FALSE
INVARIANTS
  LiveHasObject
  NoOrphanObject
PROPERTIES
  ImplementsLifecycle
  ExpiredFilesPurged
CHECK_DEADLOCK FALSE
