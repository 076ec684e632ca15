----------------------------- MODULE FileLifecycle -----------------------------
(***************************************************************************)
(* What the file store promises about each physical file, whatever uploads, *)
(* deletions, revivals and purge sweeps run concurrently: its bytes are in  *)
(* the bucket while it is active and while a deletion can be taken back,    *)
(* they are reclaimed only once the grace period is over, and a file that   *)
(* is gone never comes back under the same id.                              *)
(***************************************************************************)
EXTENDS Naturals

CONSTANTS FileIds, GracePeriod

VARIABLES
  clock,
  phase,     \* phase[f]: unused, active, deleted or gone
  deadline,  \* deadline[f]: when a deleted file may be reclaimed
  stored     \* the files whose bytes are in the bucket

lifecycle == <<clock, phase, deadline, stored>>

Init ==
  /\ clock = 0
  /\ phase = [f \in FileIds |-> "unused"]
  /\ deadline = [f \in FileIds |-> 0]
  /\ stored = {}

Enter(f, p) == phase' = [phase EXCEPT ![f] = p]

\* An upload stores the bytes before there is a row ...
Stage(f) ==
  /\ phase[f] = "unused"
  /\ stored' = stored \cup {f}
  /\ UNCHANGED <<clock, phase, deadline>>

\* ... and then publishes them,
Publish(f) ==
  /\ phase[f] = "unused" /\ f \in stored
  /\ Enter(f, "active")
  /\ UNCHANGED <<clock, deadline, stored>>

\* ... or gives up, perhaps leaving the bytes to a later cleanup.
Abandon(f) ==
  /\ phase[f] = "unused"
  /\ Enter(f, "gone")
  /\ stored' \in {stored, stored \cup {f}}
  /\ UNCHANGED <<clock, deadline>>

Discard(f) ==
  /\ phase[f] = "gone"
  /\ stored' = stored \ {f}
  /\ UNCHANGED <<clock, phase, deadline>>

Delete(f) ==
  /\ phase[f] = "active"
  /\ Enter(f, "deleted")
  /\ deadline' = [deadline EXCEPT ![f] = clock + GracePeriod]
  /\ UNCHANGED <<clock, stored>>

Restore(f) ==
  /\ phase[f] = "deleted" /\ clock < deadline[f]
  /\ Enter(f, "active")
  /\ deadline' = [deadline EXCEPT ![f] = 0]
  /\ UNCHANGED <<clock, stored>>

Reclaim(f) ==
  /\ phase[f] = "deleted" /\ deadline[f] <= clock
  /\ stored' = stored \ {f}
  /\ UNCHANGED <<clock, phase, deadline>>

Forget(f) ==
  /\ phase[f] = "deleted" /\ deadline[f] <= clock
  /\ Enter(f, "gone")
  /\ deadline' = [deadline EXCEPT ![f] = 0]
  /\ UNCHANGED <<clock, stored>>

Advance ==
  /\ clock' = clock + 1
  /\ UNCHANGED <<phase, deadline, stored>>

Next ==
  \/ Advance
  \/ \E f \in FileIds :
       \/ Stage(f) \/ Publish(f) \/ Abandon(f) \/ Discard(f)
       \/ Delete(f) \/ Restore(f) \/ Reclaim(f) \/ Forget(f)

Spec == Init /\ [][Next]_lifecycle
============================================================================
