---------------------------- MODULE MCTaskScheduler ----------------------------
(* TaskScheduler for TLC. *)
EXTENDS TaskScheduler, TLC

CONSTANTS d1, d2, t1, s1, s2

OneSchedule == s1 :> d1

BothSchedules == s1 :> d1 @@ s2 :> d2

OneTenant == [s \in Schedules |-> t1]

MCSymmetry == Permutations(Executions) \cup Permutations(Workers)
================================================================================
