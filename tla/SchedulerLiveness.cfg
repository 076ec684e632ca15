SPECIFICATION FairSpec
CONSTANTS
  Tickers = {k1}
  Workers = {w1}
  Requests = {r1}
  d1 = d1
  d2 = d2
  t1 = t1
  s1 = s1
  s2 = s2
  Defs = {d1, d2}
  Implemented = {d1}
  Tenants = {t1}
  Schedules = {s1, s2}
  DefOf <- BothSchedules
  TenantOf <- OneTenant
  Executions = {x1}
  Nil = Nil
  MaxRetries = 2
  MaxConcurrent = 1
  Period = 1
  ZombieAfter = 1
  MaxTime = 2
  Faults = {"queue_lost", "crash"}
  Changes = {"tenant", "definition"}
  SlowRuns = FALSE

PROPERTY ZombiesRecovered

CHECK_DEADLOCK FALSE
