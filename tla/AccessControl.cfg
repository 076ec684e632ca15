SPECIFICATION Spec
CONSTANTS
  Requests = {q1, q2}
  Users = {u1}
  Roles = {r1, r2}
  r1 = r1
  Codes = {c1, c2, c3}
  Permissions = {p1}
  Routes = {a, b}
  Keys = {k1, k2}
  Tokens = {t1}
  Nil = Nil
  TokenRole <- AllIssueR1
  MaxUsage = 1
  MaxKeys = 2
  RequestBound = 3
  Faults = {"stops", "partial"}
INVARIANTS EnforcerAgrees UsesAreKeys
PROPERTIES RevokedForGood
CHECK_DEADLOCK FALSE
SYMMETRY Symmetry
