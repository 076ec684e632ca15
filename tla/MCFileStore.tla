----------------------------- MODULE MCFileStore ------------------------------
(* Small instances of FileStore for TLC. *)
EXTENDS FileStore, TLC

\* Ids, requests and sweeps are interchangeable: no handler compares them.
Symmetry ==
  Permutations(Requests) \cup Permutations(FileIds) \cup Permutations(RefIds)
    \cup Permutations(Purgers)
============================================================================
