SPECIFICATION Spec
CONSTANTS
  Tickers = {k1}
  Workers = {w1, w2}
  Requests = {r1}
  d1 = d1
  d2 = d2
  t1 = t1
  s1 = s1
  s2 = s2
  Defs = {d1}
  Implemented = {d1}
  Tenants = {t1}
  Schedules = {s1}
  DefOf <- OneSchedule
  TenantOf <- OneTenant
  Executions = {x1, x2}
  Nil = Nil
  MaxRetries = 2
  MaxConcurrent = 1
  Period = 1
  ZombieAfter = 2
  MaxTime = 2
  Faults = {"db", "queue", "crash", "killed"}
  Changes = {"schedule", "grants"}
  SlowRuns = FALSE
INVARIANTS MessagesMatchRows OneHolder
PROPERTY ImplementsLifecycle
SYMMETRY MCSymmetry
CHECK_DEADLOCK FALSE
