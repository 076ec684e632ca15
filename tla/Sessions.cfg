SPECIFICATION Spec
CONSTANTS
  Requests = {q1, q2}
  Nil = Nil
  LockAfter = 3
  Window = 2
  LockTime = 2
  PasswordTTL = 1
  ProfileTTL = 2
  Changes = 2
  Mixes <- ThreeMixes
INVARIANTS FailuresLock EvictionIsFinal
PROPERTIES StaleDataHeals
CHECK_DEADLOCK FALSE
