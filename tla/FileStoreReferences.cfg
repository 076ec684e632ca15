SPECIFICATION Spec
CONSTANTS
  Requests = {r1, r2}
  Purgers = {p1}
  FileIds = {f1, f2}
  RefIds = {q1, q2, q3}
  Contents = {c1}
  Keys = {k1}
  Self = Self
  Nil = Nil
  GracePeriod = 1
  RefGrace = 1
  MaxTime = 2
  BatchLimit = 2
  Faults = {"s3", "lost_commit", "purge", "crash"}
  LongTransactions = FALSE
SYMMETRY Symmetry
PROPERTIES
  PurgeSparesReferenced
CHECK_DEADLOCK FALSE
