---------------------------- MODULE MCKnowledgeBase ----------------------------
(* KnowledgeBase for TLC. *)
EXTENDS KnowledgeBase, TLC

MCSymmetry == Permutations(Jobs) \cup Permutations(Requests)
================================================================================
