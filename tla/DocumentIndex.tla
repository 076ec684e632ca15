------------------------------ MODULE DocumentIndex -----------------------------
(***************************************************************************)
(* What the knowledge base promises the readers of a document: its status  *)
(* follows pending, indexing, ready or error, and what a search can show   *)
(* of it appears at once, as the whole index one job built, when the       *)
(* document becomes ready.  Nothing is promised any more of a document     *)
(* that a reindexing or a promotion overtakes while it is worked on.       *)
(***************************************************************************)
CONSTANTS Documents, Jobs, Nil

VARIABLES
  status,   \* status[d]: the status a reader of document d sees
  visible   \* visible[d]: the job whose index a search can show, Nil when none

index == <<status, visible>>

Working == {"pending", "indexing"}

Outside == {"none", "deleted", "overtaken"}

Init ==
  /\ status = [d \in Documents |-> "none"]
  /\ visible = [d \in Documents |-> Nil]

Becomes(d, s, v) ==
  /\ status' = [status EXCEPT ![d] = s]
  /\ visible' = [visible EXCEPT ![d] = v]

Create(d) == status[d] = "none" /\ Becomes(d, "pending", Nil)

Begin(d) == status[d] = "pending" /\ Becomes(d, "indexing", Nil)

\* Nil: a deletion under way has already withdrawn what the job built.
Publish(d) == \E v \in Jobs \cup {Nil} : status[d] = "indexing" /\ Becomes(d, "ready", v)

GiveUp(d) == status[d] \in Working /\ Becomes(d, "error", Nil)

Withdraw(d) == status[d] = "ready" /\ Becomes(d, "ready", Nil)

\* Only what is not visible any more is built again.
Restart(d) ==
  /\ status[d] \notin Outside /\ visible[d] = Nil
  /\ Becomes(d, "pending", Nil)

Delete(d) == status[d] \notin Outside /\ Becomes(d, "deleted", Nil)

Overtake(d) == status[d] \notin Outside /\ Becomes(d, "overtaken", Nil)

Next ==
  \E d \in Documents :
    \/ Create(d) \/ Begin(d) \/ Publish(d) \/ GiveUp(d)
    \/ Withdraw(d) \/ Restart(d) \/ Delete(d) \/ Overtake(d)

Spec == Init /\ [][Next]_index
================================================================================
