SPECIFICATION Spec
CONSTANTS
  Documents = {d1}
  Files = {f1}
  Jobs = {j1, j2}
  Requests = {r1, r2}
  Nil = Nil
  Overlapping = {"reindex", "delete", "promote"}
  Faults = {"statement", "upsert", "cleanup", "dies", "request"}
INVARIANTS ReadyIsIndexed NoEarlyPublish
PROPERTY ImplementsDocumentIndex
SYMMETRY MCSymmetry
CHECK_DEADLOCK FALSE
