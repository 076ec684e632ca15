---------------------------- MODULE MCAccessControl ----------------------------
EXTENDS AccessControl, TLC

CONSTANTS r1

AllIssueR1 == [t \in Tokens |-> r1]

Symmetry ==
  Permutations(Requests) \cup Permutations(Codes) \cup Permutations(Routes)
    \cup Permutations(Keys) \cup Permutations(Users)

=============================================================================
