------------------------------ MODULE JobLifecycle -----------------------------
(***************************************************************************)
(* What the task scheduler promises about each execution: it is created    *)
(* once, it is skipped or it runs, a failed attempt is followed by another *)
(* one only while attempts are left, and its outcome is final.             *)
(***************************************************************************)
EXTENDS Naturals

CONSTANTS Jobs, MaxRetries

VARIABLES
  outcome,   \* outcome[x]: the status an observer of execution x sees
  attempts   \* attempts[x]: its failed attempts

job == <<outcome, attempts>>

Init ==
  /\ outcome = [x \in Jobs |-> "none"]
  /\ attempts = [x \in Jobs |-> 0]

Move(x, from, to) ==
  /\ outcome[x] = from
  /\ outcome' = [outcome EXCEPT ![x] = to]
  /\ UNCHANGED attempts

Submit(x) == Move(x, "none", "pending")

Skip(x) == Move(x, "pending", "skipped")

Begin(x) == Move(x, "pending", "running")

End(x) == \E o \in {"success", "failed", "timeout"} : Move(x, "running", o)

\* The first attempt is always allowed.
FailAttempt(x) ==
  /\ outcome[x] = "running"
  /\ attempts[x] = 0 \/ attempts[x] < MaxRetries
  /\ attempts' = [attempts EXCEPT ![x] = @ + 1]
  /\ UNCHANGED outcome

Next == \E x \in Jobs : Submit(x) \/ Skip(x) \/ Begin(x) \/ End(x) \/ FailAttempt(x)

Spec == Init /\ [][Next]_job
================================================================================
