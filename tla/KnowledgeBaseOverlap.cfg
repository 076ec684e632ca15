SPECIFICATION FairSpec
CONSTANTS
  Documents = {d1}
  Files = {f1}
  Jobs = {j1, j2}
  Requests = {r1}
  Nil = Nil
  Overlapping = {"reindex", "delete"}
  Faults = {"work", "statement", "upsert", "tracker", "marking", "dies", "unqueued"}
INVARIANT FailedRunsLeaveNothing
PROPERTY IndexingSettles
CHECK_DEADLOCK FALSE
