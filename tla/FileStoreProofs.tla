--------------------------- MODULE FileStoreProofs ----------------------------
(***************************************************************************)
(* Proofs about FileStore, for any number of requests, sweeps, files and   *)
(* references.  Live files keep their object and the store implements the  *)
(* lifecycle of its files when a reported commit failure means that the    *)
(* transaction did not commit, and no transaction over a files row spans   *)
(* an instant at which a grace period ends (SoundCommits,                  *)
(* ShortTransactions).  No object is left behind when the bucket answers   *)
(* and no handler is dropped (BucketAnswers, NoCrash).  A sweep spares     *)
(* what was referenced before it began, whatever fails.                    *)
(***************************************************************************)
EXTENDS FileStore, TLAPS

SoundCommits == "lost_commit" \notin Faults

ShortTransactions == LongTransactions = FALSE

----------------------------------------------------------------------------
(* The inductive invariant *)

OwnSteps == {"insert", "cleanup_fail", "cleanup_dup"}

\* The files a sweep still holds in its hands.
Held(p) == sweep[p].todo \cup {sweep[p].file}

RowsAreMinted == \A f \in FileIds : HasRow(f) => f \in minted

OnlyDeletedExpire == \A f \in FileIds : files[f].status # "deleted" => files[f].purgeAt = 0

\* A sweep's targets never come back to life.
SweepsHoldDead ==
  \A p \in Purgers : \A f \in FileIds : f \in Held(p) => f \in minted /\ ~Live(f)

\* An upload that still cleans up after itself owns an id nobody else touches.
OwnIsFresh ==
  \A r \in Requests : pc[r] \in OwnSteps =>
    /\ job[r].own \in minted
    /\ ~HasRow(job[r].own)
    /\ pc[r] = "insert" => job[r].own \in objects
    /\ \A p \in Purgers : job[r].own \notin Held(p)
    /\ \A s \in Requests : pc[s] \in OwnSteps /\ job[s].own = job[r].own => s = r

\* A transaction over a row only ever writes to a file that is still live; a
\* soft delete that lost a race writes what the winner wrote.
DeletesNow(r) ==
  /\ job[r].at = now
  /\ IsActive(job[r].file) \/ files[job[r].file].purgeAt = now + GracePeriod

TxnsAreOnLive ==
  \A r \in Requests : pc[r] \in RowTxnSteps =>
    Live(job[r].file) /\ (pc[r] = "delete_write" => DeletesNow(r))

Inv ==
  /\ TypeOK
  /\ LiveHasObject
  /\ RowsAreMinted
  /\ OnlyDeletedExpire
  /\ SweepsHoldDead
  /\ OwnIsFresh
  /\ TxnsAreOnLive

----------------------------------------------------------------------------
(* Type correctness *)

\* A handler that returns leaves typed locals.
LEMMA QuitType ==
  ASSUME TypeOK, NEW r \in Requests, Quit(r)
  PROVE  pc' \in [Requests -> Steps] /\ job' \in [Requests -> Jobs]
<1>1. NoJob \in Jobs
  BY DEF NoJob, Jobs
<1>2. "idle" \in Steps
  BY DEF Steps
<1> QED
  BY <1>1, <1>2 DEF TypeOK, Quit

LEMMA GotoType ==
  ASSUME TypeOK, NEW r \in Requests, NEW s \in Steps, Goto(r, s)
  PROVE  pc' \in [Requests -> Steps]
BY DEF TypeOK, Goto

\* The assignments handlers make to their locals.
LEMMA JobType ==
  ASSUME TypeOK, NEW r \in Requests,
         \/ \E f \in FileIds : job' = [job EXCEPT ![r].file = f]
         \/ \E q \in RefIds : job' = [job EXCEPT ![r].ref = q]
         \/ job' = [job EXCEPT ![r].own = Nil]
  PROVE  job' \in [Requests -> Jobs]
<1>1. job[r] \in Jobs
  BY DEF TypeOK
<1>2. ASSUME NEW f \in FileIds, job' = [job EXCEPT ![r].file = f]
      PROVE  job' \in [Requests -> Jobs]
  BY <1>1, <1>2 DEF TypeOK, Jobs
<1>3. ASSUME NEW q \in RefIds, job' = [job EXCEPT ![r].ref = q]
      PROVE  job' \in [Requests -> Jobs]
  BY <1>1, <1>3 DEF TypeOK, Jobs
<1>4. CASE job' = [job EXCEPT ![r].own = Nil]
  BY <1>1, <1>4 DEF TypeOK, Jobs
<1> QED
  BY <1>2, <1>3, <1>4

\* What the locals of a typed state are.
LEMMA LocalsType ==
  ASSUME TypeOK, NEW r \in Requests
  PROVE  /\ job[r] \in Jobs
         /\ job[r].content \in Contents \cup {Nil}
         /\ job[r].key \in Keys \cup {Self, Nil}
         /\ job[r].own \in FileIds \cup {Nil}
         /\ job[r].file \in FileIds \cup {Nil}
         /\ job[r].ref \in RefIds \cup {Nil}
         /\ job[r].at \in Nat
BY DEF TypeOK, Jobs

LEMMA NewRefType ==
  ASSUME TypeOK, NEW q \in RefIds \cup {Nil}, NEW f \in FileIds \cup {Nil},
         NEW k \in Keys \cup {Self, Nil}, NewRef(q, f, k)
  PROVE  refs' \in [RefIds -> RefRows]
BY DEF TypeOK, NewRef, RefRows

\* Writing "detached" into a row of file_references leaves a row.
LEMMA DetachedType ==
  ASSUME NEW row \in RefRows, NEW at \in Nat
  PROVE  [row EXCEPT !.status = "detached", !.detachedAt = at] \in RefRows
BY DEF RefRows

LEMMA WriteRefType ==
  ASSUME TypeOK, NEW r \in Requests, WriteRef(r)
  PROVE  refs' \in [RefIds -> RefRows] /\ job' \in [Requests -> Jobs]
<1>1. CASE NewRef(job[r].ref, job[r].file, job[r].key) /\ UNCHANGED job
  BY <1>1, LocalsType, NewRefType DEF TypeOK
<1>2. ASSUME NEW n \in UnusedRefs, NewRef(n, job[r].file, job[r].key),
             job' = [job EXCEPT ![r].ref = n]
      PROVE  refs' \in [RefIds -> RefRows] /\ job' \in [Requests -> Jobs]
  <2>1. n \in RefIds
    BY <1>2 DEF UnusedRefs
  <2>2. refs' \in [RefIds -> RefRows]
    BY <1>2, <2>1, LocalsType, NewRefType
  <2>3. job' \in [Requests -> Jobs]
    BY <1>2, <2>1, JobType
  <2> QED
    BY <2>2, <2>3
<1> QED
  BY <1>1, <1>2 DEF WriteRef

\* The rows handlers write.
LEMMA RowType ==
  ASSUME TypeOK, NEW f,
         \/ \E c \in Contents \cup {Nil} : files' = [files EXCEPT ![f] = ActiveRow(c)]
         \/ files' = [files EXCEPT ![f] = ActiveRow(files[f].content)]
         \/ files' = [files EXCEPT ![f] = NoRow]
         \/ \E t \in Nat :
              files' = [files EXCEPT ![f] = [@ EXCEPT !.status = "deleted", !.purgeAt = t]]
  PROVE  files' \in [FileIds -> FileRows]
<1>1. CASE f \notin FileIds
  BY <1>1 DEF TypeOK
<1>2. CASE f \in FileIds
  <2>1. files[f] \in FileRows
    BY <1>2 DEF TypeOK
  <2>2. \A t \in Nat : [files[f] EXCEPT !.status = "deleted", !.purgeAt = t] \in FileRows
    BY <2>1 DEF FileRows
  <2>3. /\ NoRow \in FileRows
        /\ \A c \in Contents \cup {Nil} : ActiveRow(c) \in FileRows
        /\ ActiveRow(files[f].content) \in FileRows
    BY <2>1 DEF FileRows, NoRow, ActiveRow
  <2> QED
    BY <2>2, <2>3 DEF TypeOK
<1> QED
  BY <1>1, <1>2

\* A variable that is unchanged keeps its type: what is left to show of TypeOK' for
\* a step that leaves clock, ids and sweeps alone.
LEMMA FrameType ==
  ASSUME TypeOK, UNCHANGED <<now, minted, sweep>>,
         files' \in [FileIds -> FileRows], objects' \subseteq FileIds,
         refs' \in [RefIds -> RefRows], replays' \in [Contents -> FileIds \cup {Nil}],
         pc' \in [Requests -> Steps], job' \in [Requests -> Jobs]
  PROVE  TypeOK'
BY DEF TypeOK

\* The values of the other variables that most steps leave alone.
LEMMA SameType ==
  ASSUME TypeOK
  PROVE  /\ UNCHANGED files => files' \in [FileIds -> FileRows]
         /\ UNCHANGED objects => objects' \subseteq FileIds
         /\ UNCHANGED refs => refs' \in [RefIds -> RefRows]
         /\ UNCHANGED replays => replays' \in [Contents -> FileIds \cup {Nil}]
         /\ UNCHANGED job => job' \in [Requests -> Jobs]
BY DEF TypeOK

\* A handler's first step keeps the types.
LEMMA StartType ==
  ASSUME TypeOK, NEW r \in Requests, Start(r)
  PROVE  TypeOK'
<1>1. ASSUME NEW c \in Contents, NEW k \in Keys \cup {Self}, PutObject(r, c, k)
      PROVE  TypeOK'
  <2>1. PICK f \in FileIds \ minted :
          /\ minted' = minted \cup {f}
          /\ objects' \in {objects, objects \cup {f}}
          /\ \/ /\ job' = [job EXCEPT ![r] =
                     [NoJob EXCEPT !.op = "small", !.content = c, !.key = k, !.own = f]]
                /\ Goto(r, "insert")
             \/ UNCHANGED <<pc, job>>
    BY <1>1 DEF PutObject
  <2>2. [NoJob EXCEPT !.op = "small", !.content = c, !.key = k, !.own = f] \in Jobs
    BY <2>1 DEF NoJob, Jobs
  <2>3. job' \in [Requests -> Jobs]
    BY <2>1, <2>2 DEF TypeOK
  <2>4. pc' \in [Requests -> Steps]
    BY <2>1, GotoType DEF TypeOK, Steps
  <2> QED
    BY <1>1, <2>1, <2>3, <2>4 DEF TypeOK, PutObject
<1>2. ASSUME NEW c \in Contents, NEW k \in Keys \cup {Self}, MissReplay(r, c, k)
      PROVE  TypeOK'
  <2>1. [NoJob EXCEPT !.op = "instant", !.content = c, !.key = k] \in Jobs
    BY DEF NoJob, Jobs, TypeOK
  <2>2. job' \in [Requests -> Jobs]
    BY <1>2, <2>1 DEF TypeOK, MissReplay
  <2>3. pc' \in [Requests -> Steps]
    BY <1>2, GotoType DEF MissReplay, Steps, RowTxnSteps, RefTxnSteps
  <2> QED
    BY <1>2, <2>2, <2>3 DEF TypeOK, MissReplay
<1>3. ASSUME NEW f \in FileIds, NEW k \in Keys \cup {Self}, StartAttach(r, f, k)
      PROVE  TypeOK'
  <2>1. [NoJob EXCEPT !.op = "attach", !.file = f, !.key = k] \in Jobs
    BY DEF NoJob, Jobs, TypeOK
  <2>2. job' \in [Requests -> Jobs]
    BY <1>3, <2>1 DEF TypeOK, StartAttach
  <2>3. pc' \in [Requests -> Steps]
    BY <1>3, GotoType DEF StartAttach, Steps, RowTxnSteps, RefTxnSteps
  <2> QED
    BY <1>3, <2>2, <2>3 DEF TypeOK, StartAttach
<1>4. ASSUME NEW f \in FileIds, DeleteRead(r, f)
      PROVE  TypeOK'
  <2>1. [NoJob EXCEPT !.op = "delete", !.file = f, !.at = now] \in Jobs
    BY DEF NoJob, Jobs, TypeOK
  <2>2. job' \in [Requests -> Jobs]
    BY <1>4, <2>1 DEF TypeOK, DeleteRead
  <2>3. pc' \in [Requests -> Steps]
    BY <1>4, GotoType DEF DeleteRead, Steps, RowTxnSteps, RefTxnSteps
  <2> QED
    BY <1>4, <2>2, <2>3 DEF TypeOK, DeleteRead
<1>5. ASSUME NEW f \in FileIds, RestoreRead(r, f)
      PROVE  TypeOK'
  <2>1. [NoJob EXCEPT !.op = "restore", !.file = f] \in Jobs
    BY DEF NoJob, Jobs, TypeOK
  <2>2. job' \in [Requests -> Jobs]
    BY <1>5, <2>1 DEF TypeOK, RestoreRead
  <2>3. pc' \in [Requests -> Steps]
    BY <1>5, GotoType DEF RestoreRead, Steps, RowTxnSteps, RefTxnSteps
  <2> QED
    BY <1>5, <2>2, <2>3 DEF TypeOK, RestoreRead
<1>6. ASSUME NEW q \in RefIds, DetachRead(r, q)
      PROVE  TypeOK'
  <2>1. [NoJob EXCEPT !.op = "detach", !.ref = q] \in Jobs
    BY DEF NoJob, Jobs, TypeOK
  <2>2. job' \in [Requests -> Jobs]
    BY <1>6, <2>1 DEF TypeOK, DetachRead
  <2>3. pc' \in [Requests -> Steps]
    BY <1>6, GotoType DEF DetachRead, Steps, RowTxnSteps, RefTxnSteps
  <2> QED
    BY <1>6, <2>2, <2>3 DEF TypeOK, DetachRead
<1> QED
  BY <1>1, <1>2, <1>3, <1>4, <1>5, <1>6 DEF Start

\* Every later step of a handler keeps the types.
LEMMA HandleType ==
  ASSUME TypeOK, NEW r \in Requests, Handle(r) \/ Cancel(r)
  PROVE  TypeOK'
<1>0. /\ \A s \in {"ok", "cleanup_fail", "cleanup_dup", "winner", "attach_lookup", "revive_read",
                    "revive_write", "revive_attach", "revive_commit", "remember",
                    "attach_write", "attach_reread"} : s \in Steps
      /\ AfterAttach(r) \in Steps
  BY DEF Steps, RowTxnSteps, RefTxnSteps, AfterAttach
<1> USE FrameType, SameType, GotoType, QuitType
<1>1. CASE InsertRow(r)
  <2>1. files' \in [FileIds -> FileRows]
    BY <1>0, <1>1, LocalsType, RowType DEF InsertRow, TypeOK
  <2>2. refs' \in [RefIds -> RefRows]
    BY <1>0, <1>1, LocalsType, NewRefType DEF InsertRow, UnusedRefs
  <2>3. job' \in [Requests -> Jobs]
    <3>1. \A q \in RefIds :
            [job[r] EXCEPT !.file = job[r].own, !.ref = q, !.own = Nil] \in Jobs
      BY LocalsType DEF Jobs
    <3> QED
      BY <1>1, <3>1 DEF InsertRow, UnusedRefs, TypeOK
  <2>4. pc' \in [Requests -> Steps]
    BY <1>0, <1>1, GotoType DEF InsertRow
  <2> QED
    BY <1>1, <2>1, <2>2, <2>3, <2>4 DEF InsertRow
<1>2. CASE InsertError(r)
  BY <1>0, <1>2 DEF InsertError
<1>3. CASE InsertConflict(r)
  BY <1>0, <1>3 DEF InsertConflict
<1>4. CASE CleanupObject(r)
  <2>1. objects' \subseteq FileIds
    BY <1>0, <1>4, GotoType DEF CleanupObject, TypeOK
  <2>2. job' \in [Requests -> Jobs]
    BY <1>0, <1>4, JobType, LocalsType DEF CleanupObject
  <2>3. pc' \in [Requests -> Steps]
    BY <1>0, <1>4, GotoType DEF CleanupObject
  <2> QED
    BY <1>4, <2>1, <2>2, <2>3 DEF CleanupObject
<1>5. CASE FindWinner(r)
  <2>1. job' \in [Requests -> Jobs]
    BY <1>0, <1>5, JobType DEF FindWinner, RowsOf, UnusedRefs
  <2>2. pc' \in [Requests -> Steps]
    BY <1>0, <1>5, GotoType DEF FindWinner
  <2> QED
    BY <1>5, <2>1, <2>2 DEF FindWinner
<1>6. CASE ReviveRead(r)
  <2>1. pc' \in [Requests -> Steps]
    BY <1>0, <1>6, GotoType DEF ReviveRead
  <2> QED
    BY <1>6, <2>1, QuitType DEF ReviveRead
<1>7. CASE ReviveWrite(r)
  <2>1. files' \in [FileIds -> FileRows]
    BY <1>0, <1>7, LocalsType, RowType DEF ReviveWrite, HasRow, TypeOK
  <2>2. job' \in [Requests -> Jobs]
    BY <1>0, <1>7, JobType DEF ReviveWrite, FoundRefs, RefsAt, ActiveRefsAt
  <2>3. pc' \in [Requests -> Steps]
    BY <1>0, <1>7, GotoType DEF ReviveWrite
  <2> QED
    BY <1>7, <2>1, <2>2, <2>3 DEF ReviveWrite
<1>8. CASE ReviveCommit(r)
  <2>1. files' \in [FileIds -> FileRows]
    BY <1>0, <1>8, LocalsType, RowType DEF ReviveCommit, TypeOK
  <2>2. refs' \in [RefIds -> RefRows]
    BY <1>0, <1>8, WriteRefType DEF ReviveCommit
  <2>3. job' \in [Requests -> Jobs]
    BY <1>0, <1>8, WriteRefType DEF ReviveCommit
  <2>4. pc' \in [Requests -> Steps]
    BY <1>0, <1>8, GotoType DEF ReviveCommit
  <2> QED
    BY <1>8, <2>1, <2>2, <2>3, <2>4 DEF ReviveCommit
<1>9. CASE Remember(r)
  <2>1. replays' \in [Contents -> FileIds \cup {Nil}]
    BY <1>0, <1>9, LocalsType DEF Remember, TypeOK
  <2>2. pc' \in [Requests -> Steps]
    BY <1>0, <1>9, GotoType DEF Remember
  <2> QED
    BY <1>9, <2>1, <2>2 DEF Remember
<1>10. CASE AttachLookup(r)
  <2>1. job' \in [Requests -> Jobs]
    BY <1>0, <1>10, JobType DEF AttachLookup, RefsAt, ActiveRefsAt
  <2>2. pc' \in [Requests -> Steps]
    BY <1>0, <1>10, GotoType DEF AttachLookup
  <2> QED
    BY <1>10, <2>1, <2>2 DEF AttachLookup
<1>11. CASE AttachWrite(r)
  <2>1. refs' \in [RefIds -> RefRows]
    BY <1>0, <1>11, WriteRefType DEF AttachWrite
  <2>2. job' \in [Requests -> Jobs]
    BY <1>0, <1>11, WriteRefType DEF AttachWrite
  <2>3. pc' \in [Requests -> Steps]
    BY <1>0, <1>11, GotoType DEF AttachWrite
  <2> QED
    BY <1>11, <2>1, <2>2, <2>3 DEF AttachWrite
<1>12. CASE AttachReread(r)
  <2>1. job' \in [Requests -> Jobs]
    BY <1>0, <1>12, JobType DEF AttachReread, FoundRefs, RefsAt, ActiveRefsAt
  <2>2. pc' \in [Requests -> Steps]
    BY <1>0, <1>12, GotoType DEF AttachReread
  <2> QED
    BY <1>12, <2>1, <2>2 DEF AttachReread
<1>13. CASE DetachWrite(r)
  <2>1. \A q \in RefIds :
          [refs[q] EXCEPT !.status = "detached", !.detachedAt = now] \in RefRows
    <3>1. now \in Nat /\ \A q \in RefIds : refs[q] \in RefRows
      BY DEF TypeOK
    <3> QED
      BY <3>1, DetachedType
  <2>2. refs' \in [RefIds -> RefRows]
    <3>1. CASE UNCHANGED refs
      BY <3>1, SameType
    <3>2. CASE refs' = [refs EXCEPT ![job[r].ref] =
                         [@ EXCEPT !.status = "detached", !.detachedAt = now]]
      BY <2>1, <3>2 DEF TypeOK
    <3> QED
      BY <1>13, <3>1, <3>2 DEF DetachWrite
  <2> QED
    BY <1>13, <2>2 DEF DetachWrite
<1>14. CASE DeleteWrite(r)
  <2>1. job[r].at + GracePeriod \in Nat
    BY <1>0, <1>14, LocalsType, StoreConstants
  <2>2. files' \in [FileIds -> FileRows]
    BY <1>0, <1>14, <2>1, RowType DEF DeleteWrite, HasRow, TypeOK
  <2> QED
    BY <1>14, <2>1, <2>2 DEF DeleteWrite
<1>15. CASE RestoreWrite(r)
  <2>1. files' \in [FileIds -> FileRows]
    BY <1>0, <1>15, LocalsType, RowType DEF RestoreWrite, HasRow, TypeOK
  <2> QED
    BY <1>15, <2>1 DEF RestoreWrite
<1>16. CASE Return(r)
  BY <1>0, <1>16 DEF Return
<1>17. CASE Cancel(r)
  BY <1>0, <1>17 DEF Cancel
<1> QED
  BY <1>1, <1>2, <1>3, <1>4, <1>5, <1>6, <1>7, <1>8, <1>9, <1>10, <1>11, <1>12, <1>13, <1>14, <1>15, <1>16, <1>17 DEF Handle

LEMMA SweepType ==
  ASSUME TypeOK, NEW p \in Purgers, Purge(p) \/ CancelSweep(p)
  PROVE  TypeOK'
<1>1. CASE PurgeSelect(p)
  BY <1>1 DEF TypeOK, PurgeSelect, Batches, Sweeps, PurgeTargets
<1>2. CASE PurgeObject(p)
  BY <1>2 DEF TypeOK, PurgeObject, DropTarget, Sweeps, NoSweep
<1>3. CASE PurgeRow(p)
  BY <1>3, RowType DEF TypeOK, PurgeRow, DropTarget, Sweeps, NoSweep
<1>4. CASE CancelSweep(p)
  BY <1>4 DEF TypeOK, CancelSweep, Sweeps, NoSweep
<1> QED
  BY <1>1, <1>2, <1>3, <1>4 DEF Purge

LEMMA TypeStep == TypeOK /\ [Next]_vars => TypeOK'
<1>1. TypeOK /\ Tick => TypeOK'
  BY DEF TypeOK, Tick
<1>2. TypeOK /\ UNCHANGED vars => TypeOK'
  BY DEF TypeOK, vars
<1> QED
  BY <1>1, <1>2, StartType, HandleType, SweepType DEF Next

\* Whatever the handlers, the sweeps and the faults do, every variable stays in its type.
THEOREM TypeCorrect == Spec => []TypeOK
<1>1. Init => TypeOK
  BY StoreConstants
     DEF Init, TypeOK, FileRows, NoRow, RefRows, NoRef, Steps, Jobs, NoJob, Sweeps, NoSweep
<1> QED
  BY <1>1, TypeStep, PTL DEF Spec

----------------------------------------------------------------------------
(* No live file loses its object *)

\* The other requests do not move.
OthersStay(r) ==
  \A s \in Requests : s # r => pc'[s] = pc[s] /\ job'[s] = job[s]

\* A step of one request that leaves rows, objects and sweeps alone preserves the
\* invariant if the request does not claim an id and enters a row transaction only
\* over a live file.
LEMMA QuietStep ==
  ASSUME Inv, TypeOK', NEW r \in Requests, OthersStay(r),
         UNCHANGED <<now, files, objects, minted, sweep>>,
         pc'[r] \in OwnSteps =>
           /\ pc[r] \in OwnSteps
           /\ job'[r].own = job[r].own
           /\ pc'[r] # "insert",
         pc'[r] \in RowTxnSteps =>
           /\ Live(job'[r].file)
           /\ pc'[r] = "delete_write" => IsActive(job'[r].file) /\ job'[r].at = now
  PROVE  Inv'
<1>1. /\ LiveHasObject' /\ RowsAreMinted' /\ OnlyDeletedExpire' /\ SweepsHoldDead'
  BY DEF Inv, LiveHasObject, RowsAreMinted, OnlyDeletedExpire, SweepsHoldDead, Live, IsActive,
         InGrace, HasRow, Held
<1>2. OwnIsFresh'
  BY DEF Inv, OwnIsFresh, OthersStay, HasRow, Held
<1>3. TxnsAreOnLive'
  BY DEF Inv, TxnsAreOnLive, DeletesNow, OthersStay, Live, IsActive, InGrace
<1> QED
  BY <1>1, <1>2, <1>3 DEF Inv

\* Writing the row of a live file, back to active or into a deletion whose grace
\* period starts now, preserves the invariant.
LEMMA RowWrite ==
  ASSUME Inv, TypeOK', NEW r \in Requests, OthersStay(r), NEW f \in FileIds, Live(f),
         NEW row,
         files' = [files EXCEPT ![f] = row],
         \/ row.status = "active" /\ row.purgeAt = 0
         \/ row.status = "deleted" /\ row.purgeAt = now + GracePeriod,
         UNCHANGED <<now, objects, minted, sweep>>,
         pc'[r] \notin OwnSteps \cup RowTxnSteps
  PROVE  Inv'
<1>1. \A g \in FileIds : files'[g] = IF g = f THEN row ELSE files[g]
  BY DEF Inv, TypeOK
<1>2. now + GracePeriod > now /\ now \in Nat
  BY StoreConstants DEF Inv, TypeOK
<1>3. Live(f)'
  BY <1>1, <1>2 DEF Live, IsActive, InGrace
<1>4. f \in objects /\ f \in minted /\ HasRow(f)
  BY DEF Inv, LiveHasObject, RowsAreMinted, Live, IsActive, InGrace, HasRow
<1>5. \A g \in FileIds : g # f => (Live(g)' <=> Live(g)) /\ (HasRow(g)' <=> HasRow(g))
  BY <1>1 DEF Live, IsActive, InGrace, HasRow
<1>6. LiveHasObject' /\ RowsAreMinted'
  BY <1>3, <1>4, <1>5 DEF Inv, LiveHasObject, RowsAreMinted
<1>7. OnlyDeletedExpire'
  BY <1>1 DEF Inv, OnlyDeletedExpire
<1>8. SweepsHoldDead'
  BY <1>5 DEF Inv, SweepsHoldDead, Held
<1>9. OwnIsFresh'
  <2>1. \A s \in Requests : pc[s] \in OwnSteps => job[s].own # f
    BY <1>4 DEF Inv, OwnIsFresh
  <2>2. \A s \in Requests : pc'[s] \in OwnSteps =>
          s # r /\ pc[s] \in OwnSteps /\ pc'[s] = pc[s] /\ job'[s] = job[s]
    BY DEF OthersStay
  <2>3. \A g : ~HasRow(g) /\ g # f => ~HasRow(g)'
    BY <1>5 DEF HasRow
  <2> QED
    BY <2>1, <2>2, <2>3 DEF Inv, OwnIsFresh, Held
<1>10. TxnsAreOnLive'
  <2> SUFFICES ASSUME NEW s \in Requests, pc'[s] \in RowTxnSteps
               PROVE  Live(job[s].file)' /\ (pc'[s] = "delete_write" => DeletesNow(s)')
    BY DEF TxnsAreOnLive
  <2>1. s # r /\ pc'[s] = pc[s] /\ job'[s] = job[s]
    BY DEF OthersStay
  <2>2. Live(job[s].file)
    BY <2>1 DEF Inv, TxnsAreOnLive
  <2>3. job[s].file \in FileIds
    BY <2>2 DEF Live, IsActive, InGrace
  <2>4. CASE job[s].file = f
    BY <2>1, <2>4, <1>1, <1>3 DEF Inv, TxnsAreOnLive, DeletesNow, Live, IsActive, InGrace
  <2>5. CASE job[s].file # f
    BY <2>1, <2>2, <2>3, <2>5, <1>1, <1>5 DEF Inv, TxnsAreOnLive, DeletesNow, Live, IsActive,
         InGrace
  <2> QED
    BY <2>4, <2>5
<1> QED
  BY <1>6, <1>7, <1>8, <1>9, <1>10 DEF Inv

\* What a request does to its program counter when it goes somewhere or returns.
LEMMA Moves ==
  ASSUME TypeOK, NEW r \in Requests
  PROVE  /\ \A s \in Steps : Goto(r, s) =>
              pc'[r] = s /\ \A t \in Requests : t # r => pc'[t] = pc[t]
         /\ Quit(r) =>
              /\ pc'[r] = "idle"
              /\ OthersStay(r)
BY DEF TypeOK, Goto, Quit, OthersStay

\* The first step of a handler preserves the invariant: a fresh id is owned by nobody.
LEMMA StartInv ==
  ASSUME Inv, TypeOK', NEW r \in Requests, Start(r)
  PROVE  Inv'
<1> USE DEF Inv
<1>1. ASSUME NEW c \in Contents, NEW k \in Keys \cup {Self}, PutObject(r, c, k)
      PROVE  Inv'
  <2>1. PICK f \in FileIds \ minted :
          /\ minted' = minted \cup {f}
          /\ \/ /\ objects' = objects \cup {f}
                /\ job' = [job EXCEPT ![r] =
                     [NoJob EXCEPT !.op = "small", !.content = c, !.key = k, !.own = f]]
                /\ Goto(r, "insert")
             \/ /\ objects' \in {objects, objects \cup {f}}
                /\ UNCHANGED <<pc, job>>
    BY <1>1 DEF PutObject
  <2>2. pc[r] = "idle" /\ UNCHANGED <<now, files, sweep>>
    BY <1>1 DEF PutObject
  <2>3. OthersStay(r)
    BY <2>1 DEF OthersStay, TypeOK, Goto
  <2>4. pc'[r] \in {"idle", "insert"} /\ (pc'[r] = "insert" => job'[r].own = f /\ f \in objects')
    BY <2>1, <2>2 DEF TypeOK, Goto, NoJob
  <2>5. /\ ~HasRow(f)
        /\ \A p \in Purgers : f \notin Held(p)
        /\ \A s \in Requests : pc[s] \in OwnSteps => job[s].own # f
    BY <2>1 DEF RowsAreMinted, SweepsHoldDead, OwnIsFresh
  <2>6. LiveHasObject' /\ RowsAreMinted' /\ OnlyDeletedExpire' /\ SweepsHoldDead'
    BY <2>1, <2>2 DEF LiveHasObject, RowsAreMinted, OnlyDeletedExpire, SweepsHoldDead, Live,
         IsActive, InGrace, HasRow, Held
  <2>7. OwnIsFresh'
    BY <2>1, <2>2, <2>3, <2>4, <2>5 DEF OwnIsFresh, OthersStay, OwnSteps, HasRow, Held
  <2>8. TxnsAreOnLive'
    BY <2>2, <2>3, <2>4 DEF TxnsAreOnLive, DeletesNow, OthersStay, RowTxnSteps, Live, IsActive,
         InGrace
  <2> QED
    BY <2>6, <2>7, <2>8
<1>2. ASSUME NEW c \in Contents, NEW k \in Keys \cup {Self}, MissReplay(r, c, k)
      PROVE  Inv'
  <2>1. OthersStay(r) /\ pc'[r] = "winner"
    BY <1>2 DEF MissReplay, Goto, OthersStay, TypeOK
  <2> QED
    BY <1>2, <2>1, QuietStep DEF MissReplay, OwnSteps, RowTxnSteps
<1>3. ASSUME NEW f \in FileIds, NEW k \in Keys \cup {Self}, StartAttach(r, f, k)
      PROVE  Inv'
  <2>1. OthersStay(r) /\ pc'[r] = "attach_lookup"
    BY <1>3 DEF StartAttach, Goto, OthersStay, TypeOK
  <2> QED
    BY <1>3, <2>1, QuietStep DEF StartAttach, OwnSteps, RowTxnSteps
<1>4. ASSUME NEW f \in FileIds, DeleteRead(r, f)
      PROVE  Inv'
  <2>1. OthersStay(r) /\ pc'[r] = "delete_write"
    BY <1>4 DEF DeleteRead, Goto, OthersStay, TypeOK
  <2> QED
    BY <1>4, <2>1, QuietStep DEF DeleteRead, OwnSteps, RowTxnSteps, TypeOK, NoJob, Live
<1>5. ASSUME NEW f \in FileIds, RestoreRead(r, f)
      PROVE  Inv'
  <2>1. OthersStay(r) /\ pc'[r] = "restore_write"
    BY <1>5 DEF RestoreRead, Goto, OthersStay, TypeOK
  <2> QED
    BY <1>5, <2>1, QuietStep DEF RestoreRead, OwnSteps, RowTxnSteps, TypeOK, NoJob, Live
<1>6. ASSUME NEW q \in RefIds, DetachRead(r, q)
      PROVE  Inv'
  <2>1. OthersStay(r) /\ pc'[r] = "detach_write"
    BY <1>6 DEF DetachRead, Goto, OthersStay, TypeOK
  <2> QED
    BY <1>6, <2>1, QuietStep DEF DetachRead, OwnSteps, RowTxnSteps
<1> QED
  BY <1>1, <1>2, <1>3, <1>4, <1>5, <1>6 DEF Start

\* Every later step preserves the invariant.  An upload publishes or deletes only the
\* object it owns; deletions, restores and revivals write only to live files.
LEMMA HandleInv ==
  ASSUME SoundCommits, Inv, TypeOK', NEW r \in Requests, Handle(r) \/ Cancel(r)
  PROVE  Inv'
<1> USE DEF Inv
<1>1. CASE InsertRow(r)
  <2> DEFINE f == job[r].own
  <2>1. /\ files' = [files EXCEPT ![f] = ActiveRow(job[r].content)]
        /\ pc[r] = "insert" /\ Goto(r, "ok")
        /\ UNCHANGED <<now, objects, minted>>
        /\ \E j : job' = [job EXCEPT ![r] = j]
    BY <1>1 DEF InsertRow, SoundCommits
  <2>2. OthersStay(r) /\ pc'[r] = "ok"
    BY <2>1 DEF OthersStay, Goto, TypeOK
  <2>3. /\ f \in FileIds /\ f \in minted /\ f \in objects /\ files[f].status = "none"
        /\ \A p \in Purgers : f \notin Held(p)
        /\ \A s \in Requests : s # r /\ pc[s] \in OwnSteps => job[s].own # f
    BY <2>1 DEF OwnIsFresh, OwnSteps, TypeOK, HasRow
  <2>4. \A g \in FileIds : files'[g] = IF g = f THEN ActiveRow(job[r].content) ELSE files[g]
    BY <2>1 DEF TypeOK
  <2>5. \A g \in FileIds : g # f => (Live(g)' <=> Live(g)) /\ (HasRow(g)' <=> HasRow(g))
    BY <2>1, <2>4 DEF Live, IsActive, InGrace, HasRow
  <2>6. LiveHasObject' /\ RowsAreMinted' /\ OnlyDeletedExpire'
    BY <2>1, <2>3, <2>4, <2>5 DEF LiveHasObject, RowsAreMinted, OnlyDeletedExpire, ActiveRow
  <2>7. SweepsHoldDead'
    BY <1>1, <2>1, <2>3, <2>5 DEF InsertRow, SweepsHoldDead, Held
  <2>8. OwnIsFresh'
    <3>1. \A g : ~HasRow(g) /\ g # f => ~HasRow(g)'
      BY <2>5 DEF HasRow
    <3> QED
      BY <1>1, <2>1, <2>2, <2>3, <3>1 DEF InsertRow, OwnIsFresh, OthersStay, OwnSteps, Held
  <2>9. TxnsAreOnLive'
    <3>1. \A g : Live(g) => g \in FileIds /\ g # f
      BY <2>3 DEF Live, IsActive, InGrace, HasRow
    <3> QED
      BY <2>1, <2>2, <2>4, <2>5, <3>1
         DEF TxnsAreOnLive, DeletesNow, OthersStay, RowTxnSteps, IsActive
  <2> QED
    BY <2>6, <2>7, <2>8, <2>9
<1>2. CASE InsertError(r)
  <2>1. OthersStay(r) /\ pc'[r] \in {"cleanup_fail"}
    BY <1>2, Moves DEF InsertError, Goto, OthersStay, TypeOK
  <2> QED
    BY <1>2, <2>1, QuietStep DEF InsertError, OwnSteps, RowTxnSteps
<1>3. CASE InsertConflict(r)
  <2>1. OthersStay(r) /\ pc'[r] \in {"cleanup_dup"}
    BY <1>3, Moves DEF InsertConflict, Goto, OthersStay, TypeOK
  <2> QED
    BY <1>3, <2>1, QuietStep DEF InsertConflict, OwnSteps, RowTxnSteps
<1>4. CASE CleanupObject(r)
  <2> DEFINE f == job[r].own
  <2>1. /\ UNCHANGED <<now, files, minted, sweep>>
        /\ objects' \in {objects, objects \ {f}}
        /\ pc[r] \in OwnSteps
    BY <1>4 DEF CleanupObject, OwnSteps
  <2>2. OthersStay(r) /\ pc'[r] \in {"idle", "winner"}
    BY <1>4, Moves DEF CleanupObject, Goto, OthersStay, TypeOK
  <2>3. ~HasRow(f) /\ \A s \in Requests : s # r /\ pc[s] \in OwnSteps => job[s].own # f
    BY <2>1 DEF OwnIsFresh
  <2>4. LiveHasObject' /\ RowsAreMinted' /\ OnlyDeletedExpire' /\ SweepsHoldDead'
    BY <2>1, <2>3 DEF LiveHasObject, RowsAreMinted, OnlyDeletedExpire, SweepsHoldDead, Live,
         IsActive, InGrace, HasRow, Held
  <2>5. OwnIsFresh'
    BY <2>1, <2>2, <2>3 DEF OwnIsFresh, OthersStay, OwnSteps, HasRow, Held
  <2>6. TxnsAreOnLive'
    BY <2>1, <2>2 DEF TxnsAreOnLive, DeletesNow, OthersStay, RowTxnSteps, Live, IsActive, InGrace
  <2> QED
    BY <2>4, <2>5, <2>6
<1>5. CASE FindWinner(r)
  <2>1. OthersStay(r) /\ pc'[r] \in {"idle", "attach_lookup", "revive_read"}
    BY <1>5, Moves DEF FindWinner, Goto, OthersStay, TypeOK
  <2> QED
    BY <1>5, <2>1, QuietStep DEF FindWinner, OwnSteps, RowTxnSteps
<1>6. CASE ReviveRead(r)
  <2>1. OthersStay(r) /\ pc'[r] \in {"idle", "ok", "attach_lookup", "revive_write"}
    BY <1>6, Moves DEF ReviveRead, Goto, OthersStay, TypeOK
  <2>2. pc'[r] = "revive_write" => InGrace(job[r].file) /\ job' = job
    BY <1>6, Moves DEF ReviveRead, Goto, TypeOK
  <2> QED
    BY <1>6, <2>1, <2>2, QuietStep DEF ReviveRead, OwnSteps, RowTxnSteps, Live
<1>7. CASE ReviveWrite(r)
  <2> DEFINE f == job[r].file
  <2>1. /\ pc[r] = "revive_write" /\ Live(f)
        /\ UNCHANGED <<now, objects, minted, sweep>>
    BY <1>7 DEF ReviveWrite, TxnsAreOnLive, RowTxnSteps
  <2>2. CASE /\ files' = [files EXCEPT ![f] = ActiveRow(files[f].content)]
             /\ Goto(r, "attach_lookup") /\ UNCHANGED job
    <3>1. OthersStay(r) /\ pc'[r] = "attach_lookup"
      BY <2>2 DEF OthersStay, Goto, TypeOK
    <3>2. f \in FileIds
      BY <2>1 DEF Live, IsActive, InGrace
    <3> QED
      BY <2>1, <2>2, <3>1, <3>2, RowWrite DEF ActiveRow, OwnSteps, RowTxnSteps
  <2>3. CASE /\ UNCHANGED files
             /\ pc' = [pc EXCEPT ![r] = "revive_commit"] \/ pc' = [pc EXCEPT ![r] = "revive_attach"]
             /\ UNCHANGED job \/ \E q : job' = [job EXCEPT ![r].ref = q]
    <3>1. OthersStay(r) /\ pc'[r] \in {"revive_commit", "revive_attach"}
      BY <2>3 DEF OthersStay, TypeOK
    <3>2. job'[r].file = f
      BY <2>3 DEF TypeOK, Jobs
    <3> QED
      BY <2>1, <2>3, <3>1, <3>2, QuietStep DEF OwnSteps, RowTxnSteps
  <2>4. CASE Quit(r) /\ UNCHANGED files
    BY <2>1, <2>4, Moves, QuietStep DEF OwnSteps, RowTxnSteps
  <2> QED
    BY <1>7, <2>2, <2>3, <2>4 DEF ReviveWrite, Goto
<1>8. CASE ReviveCommit(r)
  <2> DEFINE f == job[r].file
  <2>1. /\ pc[r] \in {"revive_attach", "revive_commit"} /\ Live(f) /\ f \in FileIds
        /\ UNCHANGED <<now, objects, minted, sweep>>
    BY <1>8 DEF ReviveCommit, TxnsAreOnLive, RowTxnSteps, Live, IsActive, InGrace
  <2>2. CASE /\ files' = [files EXCEPT ![f] = ActiveRow(files[f].content)]
             /\ Goto(r, "ok")
             /\ UNCHANGED job \/ \E n : job' = [job EXCEPT ![r].ref = n]
    <3>1. OthersStay(r) /\ pc'[r] = "ok"
      BY <2>2 DEF OthersStay, Goto, TypeOK
    <3> QED
      BY <2>1, <2>2, <3>1, RowWrite DEF ActiveRow, OwnSteps, RowTxnSteps
  <2>3. CASE Quit(r) /\ UNCHANGED files
    BY <2>1, <2>3, Moves, QuietStep DEF OwnSteps, RowTxnSteps
  <2> QED
    BY <1>8, <2>2, <2>3 DEF ReviveCommit, WriteRef
<1>9. CASE Remember(r)
  <2>1. OthersStay(r) /\ pc'[r] \in {"ok"}
    BY <1>9, Moves DEF Remember, Goto, OthersStay, TypeOK
  <2> QED
    BY <1>9, <2>1, QuietStep DEF Remember, OwnSteps, RowTxnSteps
<1>10. CASE AttachLookup(r)
  <2>1. OthersStay(r) /\ pc'[r] \in {"idle", "ok", "remember", "attach_write"}
    BY <1>10, Moves DEF AttachLookup, Goto, OthersStay, TypeOK, AfterAttach
  <2> QED
    BY <1>10, <2>1, QuietStep DEF AttachLookup, OwnSteps, RowTxnSteps
<1>11. CASE AttachWrite(r)
  <2>1. OthersStay(r) /\ pc'[r] \in {"idle", "ok", "remember", "attach_reread"}
    BY <1>11, Moves DEF AttachWrite, Goto, OthersStay, TypeOK, AfterAttach, WriteRef
  <2> QED
    BY <1>11, <2>1, QuietStep DEF AttachWrite, OwnSteps, RowTxnSteps
<1>12. CASE AttachReread(r)
  <2>1. OthersStay(r) /\ pc'[r] \in {"idle", "ok", "remember"}
    BY <1>12, Moves DEF AttachReread, Goto, OthersStay, TypeOK, AfterAttach
  <2> QED
    BY <1>12, <2>1, QuietStep DEF AttachReread, OwnSteps, RowTxnSteps
<1>13. CASE DetachWrite(r)
  <2>1. OthersStay(r) /\ pc'[r] \in {"idle"}
    BY <1>13, Moves DEF DetachWrite, Goto, OthersStay, TypeOK
  <2> QED
    BY <1>13, <2>1, QuietStep DEF DetachWrite, OwnSteps, RowTxnSteps
<1>14. CASE DeleteWrite(r)
  <2> DEFINE f == job[r].file
  <2>1. /\ Live(f) /\ f \in FileIds /\ UNCHANGED <<now, objects, minted, sweep>>
        /\ OthersStay(r) /\ pc'[r] = "idle"
    BY <1>14, Moves DEF DeleteWrite, TxnsAreOnLive, RowTxnSteps, Live, IsActive, InGrace
  <2>2. CASE files' = [files EXCEPT ![f] = [@ EXCEPT !.status = "deleted", !.purgeAt = job[r].at + GracePeriod]]
    <3> DEFINE row == [files[f] EXCEPT !.status = "deleted", !.purgeAt = job[r].at + GracePeriod]
    <3>1. job[r].at = now
      BY <1>14 DEF DeleteWrite, TxnsAreOnLive, DeletesNow, RowTxnSteps
    <3>2. row.status = "deleted" /\ row.purgeAt = now + GracePeriod
      BY <2>1, <3>1 DEF TypeOK, FileRows
    <3>3. files' = [files EXCEPT ![f] = row]
      BY <2>2
    <3> HIDE DEF row
    <3> QED
      BY <2>1, <3>2, <3>3, RowWrite DEF OwnSteps, RowTxnSteps
  <2>3. CASE UNCHANGED files
    BY <2>1, <2>3, QuietStep DEF OwnSteps, RowTxnSteps
  <2> QED
    BY <1>14, <2>2, <2>3 DEF DeleteWrite
<1>15. CASE RestoreWrite(r)
  <2> DEFINE f == job[r].file
  <2>1. /\ Live(f) /\ f \in FileIds /\ UNCHANGED <<now, objects, minted, sweep>>
        /\ OthersStay(r) /\ pc'[r] = "idle"
    BY <1>15, Moves DEF RestoreWrite, TxnsAreOnLive, RowTxnSteps, Live, IsActive, InGrace
  <2>2. CASE files' = [files EXCEPT ![f] = ActiveRow(files[f].content)]
    BY <2>1, <2>2, RowWrite DEF ActiveRow, OwnSteps, RowTxnSteps
  <2>3. CASE UNCHANGED files
    BY <2>1, <2>3, QuietStep DEF OwnSteps, RowTxnSteps
  <2> QED
    BY <1>15, <2>2, <2>3 DEF RestoreWrite
<1>16. CASE Return(r)
  <2>1. OthersStay(r) /\ pc'[r] \in {"idle"}
    BY <1>16, Moves DEF Return, Goto, OthersStay, TypeOK
  <2> QED
    BY <1>16, <2>1, QuietStep DEF Return, OwnSteps, RowTxnSteps
<1>17. CASE Cancel(r)
  <2>1. OthersStay(r) /\ pc'[r] \in {"idle"}
    BY <1>17, Moves DEF Cancel, Goto, OthersStay, TypeOK
  <2> QED
    BY <1>17, <2>1, QuietStep DEF Cancel, OwnSteps, RowTxnSteps
<1> QED
  BY <1>1, <1>2, <1>3, <1>4, <1>5, <1>6, <1>7, <1>8, <1>9, <1>10, <1>11, <1>12, <1>13, <1>14, <1>15, <1>16, <1>17 DEF Handle

\* A sweep deletes objects and rows of files whose grace period is over, and no
\* request can bring such a file back.
LEMMA SweepInv ==
  ASSUME Inv, TypeOK', NEW p \in Purgers, Purge(p) \/ CancelSweep(p)
  PROVE  Inv'
<1> USE DEF Inv
<1>1. \A o \in Purgers : o # p => sweep'[o] = sweep[o]
  BY DEF Purge, PurgeSelect, Batches, PurgeObject, PurgeRow, CancelSweep, DropTarget, TypeOK
<1>2. UNCHANGED <<now, minted, pc, job>>
  BY DEF Purge, PurgeSelect, PurgeObject, PurgeRow, CancelSweep
<1>3. CASE PurgeSelect(p)
  <2>1. UNCHANGED <<files, objects>>
    BY <1>3 DEF PurgeSelect, Batches
  <2>2. \A f \in FileIds : f \in Held(p)' => f \in PurgeTargets
    <3>1. PICK batch \in SUBSET PurgeTargets :
            sweep' = [sweep EXCEPT ![p] = [at |-> now, todo |-> batch, file |-> Nil]]
      BY <1>3 DEF PurgeSelect, Batches
    <3>2. Held(p)' = batch \cup {Nil}
      BY <3>1 DEF Held, TypeOK
    <3> QED
      BY <3>2, StoreConstants
  <2>3. \A f \in PurgeTargets : f \in FileIds /\ HasRow(f) /\ ~Live(f)
    BY DEF PurgeTargets, HasRow, Live, IsActive, InGrace, TypeOK, FileRows
  <2>4. SweepsHoldDead'
    BY <1>1, <1>2, <2>1, <2>2, <2>3
       DEF SweepsHoldDead, RowsAreMinted, Held, Live, IsActive, InGrace
  <2>5. OwnIsFresh'
    <3>1. \A r \in Requests : pc[r] \in OwnSteps => job[r].own \in FileIds /\ job[r].own \notin Held(p)'
      BY <2>2, <2>3 DEF OwnIsFresh, TypeOK
    <3> QED
      BY <1>1, <1>2, <2>1, <3>1 DEF OwnIsFresh, Held, HasRow
  <2>6. LiveHasObject' /\ RowsAreMinted' /\ OnlyDeletedExpire' /\ TxnsAreOnLive'
    BY <1>2, <2>1 DEF LiveHasObject, RowsAreMinted, OnlyDeletedExpire, TxnsAreOnLive, DeletesNow,
         Live, IsActive, InGrace, HasRow
  <2> QED
    BY <2>4, <2>5, <2>6
<1>4. ASSUME Held(p)' \subseteq Held(p) \cup {Nil},
             NEW f \in Held(p), f \in FileIds,
             files' \in {files, [files EXCEPT ![f] = NoRow]},
             objects' \in {objects, objects \ {f}}
      PROVE  Inv'
  <2>1. f \in minted /\ ~Live(f) /\ \A r \in Requests : pc[r] \in OwnSteps => job[r].own # f
    BY <1>4 DEF SweepsHoldDead, OwnIsFresh
  <2>2. \A g \in FileIds : files'[g] = IF g = f THEN files'[f] ELSE files[g]
    BY <1>4 DEF TypeOK
  <2>3. files'[f] \in {files[f], NoRow}
    BY <1>4 DEF TypeOK
  <2>4. \A g \in FileIds : g # f => (Live(g)' <=> Live(g)) /\ (HasRow(g)' <=> HasRow(g))
    BY <1>2, <2>2 DEF Live, IsActive, InGrace, HasRow
  <2>5. ~Live(f)' /\ (HasRow(f)' => HasRow(f))
    BY <1>2, <2>1, <2>3 DEF Live, IsActive, InGrace, HasRow, NoRow
  <2>6. LiveHasObject' /\ RowsAreMinted' /\ OnlyDeletedExpire'
    BY <1>2, <1>4, <2>2, <2>3, <2>4, <2>5
       DEF LiveHasObject, RowsAreMinted, OnlyDeletedExpire, NoRow
  <2>7. SweepsHoldDead'
    <3>1. \A g \in FileIds : g \in Held(p)' => g \in Held(p)
      BY <1>4, StoreConstants
    <3> QED
      BY <1>1, <1>2, <2>4, <2>5, <3>1 DEF SweepsHoldDead, Held
  <2>8. OwnIsFresh'
    <3>1. \A r \in Requests : pc[r] \in OwnSteps => job[r].own \in FileIds /\ job[r].own \notin Held(p)'
      BY <1>4, StoreConstants DEF OwnIsFresh, TypeOK
    <3> QED
      BY <1>1, <1>2, <1>4, <2>1, <2>4, <3>1 DEF OwnIsFresh, Held
  <2>9. TxnsAreOnLive'
    <3>1. \A r \in Requests : pc[r] \in RowTxnSteps => job[r].file \in FileIds /\ job[r].file # f
      BY <2>1 DEF TxnsAreOnLive, Live, IsActive, InGrace
    <3> QED
      BY <1>2, <2>2, <2>4, <3>1 DEF TxnsAreOnLive, DeletesNow, IsActive
  <2> QED
    BY <2>6, <2>7, <2>8, <2>9
<1>5. ASSUME NEW f, DropTarget(p, f)
      PROVE  Held(p)' \subseteq Held(p) \cup {Nil}
  BY <1>5 DEF DropTarget, Held, NoSweep, TypeOK
<1>6. CASE PurgeObject(p)
  <2>1. PICK f \in sweep[p].todo :
          \/ objects' = objects \ {f} /\ sweep' = [sweep EXCEPT ![p].file = f]
          \/ DropTarget(p, f) /\ objects' \in {objects, objects \ {f}}
    BY <1>6 DEF PurgeObject
  <2>2. f \in Held(p) /\ f \in FileIds /\ UNCHANGED files
    BY <1>6, <2>1 DEF PurgeObject, Held, TypeOK, Sweeps
  <2>3. Held(p)' \subseteq Held(p) \cup {Nil}
    BY <1>5, <2>1, <2>2 DEF Held, TypeOK, Sweeps
  <2> QED
    BY <1>4, <2>1, <2>2, <2>3
<1>7. CASE PurgeRow(p)
  <2>1. /\ sweep[p].file \in Held(p) /\ sweep[p].file \in FileIds
        /\ files' \in {files, [files EXCEPT ![sweep[p].file] = NoRow]}
        /\ UNCHANGED objects
    BY <1>7 DEF PurgeRow, Held, TypeOK, Sweeps
  <2>2. Held(p)' \subseteq Held(p) \cup {Nil}
    BY <1>5, <1>7 DEF PurgeRow
  <2> QED
    BY <1>4, <2>1, <2>2
<1>8. CASE CancelSweep(p)
  <2>1. UNCHANGED <<files, objects>> /\ Held(p)' = {Nil}
    BY <1>8 DEF CancelSweep, Held, NoSweep, TypeOK
  <2>2. LiveHasObject' /\ RowsAreMinted' /\ OnlyDeletedExpire' /\ TxnsAreOnLive'
    BY <1>2, <2>1 DEF LiveHasObject, RowsAreMinted, OnlyDeletedExpire, TxnsAreOnLive, DeletesNow,
         Live, IsActive, InGrace, HasRow
  <2>3. SweepsHoldDead' /\ OwnIsFresh'
    <3>1. \A f \in FileIds : f \notin Held(p)'
      BY <2>1, StoreConstants
    <3>2. \A r \in Requests : pc[r] \in OwnSteps => job[r].own \in FileIds
      BY DEF OwnIsFresh, TypeOK
    <3> QED
      BY <1>1, <1>2, <2>1, <3>1, <3>2
         DEF SweepsHoldDead, OwnIsFresh, Held, HasRow, Live, IsActive, InGrace
  <2> QED
    BY <2>2, <2>3
<1> QED
  BY <1>3, <1>6, <1>7, <1>8 DEF Purge

\* Time only takes files out of their grace period, never during a transaction.
LEMMA TickInv ==
  ASSUME ShortTransactions, Inv, TypeOK', Tick
  PROVE  Inv'
<1> USE DEF Inv
<1>1. /\ now' = now + 1 /\ now \in Nat
      /\ UNCHANGED <<files, objects, minted, pc, job, sweep>>
      /\ \A r \in Requests : pc[r] \notin RowTxnSteps
  BY DEF Tick, ShortTransactions, TypeOK
<1>2. \A f \in FileIds : files[f].purgeAt \in Nat
  BY DEF TypeOK, FileRows
<1>3. \A f \in FileIds : Live(f)' => Live(f)
  BY <1>1, <1>2 DEF Live, IsActive, InGrace
<1>4. LiveHasObject' /\ RowsAreMinted' /\ OnlyDeletedExpire'
  BY <1>1, <1>3 DEF LiveHasObject, RowsAreMinted, OnlyDeletedExpire, HasRow
<1>5. SweepsHoldDead' /\ OwnIsFresh'
  BY <1>1, <1>3 DEF SweepsHoldDead, OwnIsFresh, Held, HasRow
<1>6. TxnsAreOnLive'
  BY <1>1 DEF TxnsAreOnLive
<1> QED
  BY <1>4, <1>5, <1>6

LEMMA StutterInv ==
  ASSUME Inv, UNCHANGED vars
  PROVE  Inv'
BY DEF Inv, TypeOK, LiveHasObject, RowsAreMinted, OnlyDeletedExpire, SweepsHoldDead, OwnIsFresh,
       TxnsAreOnLive, DeletesNow, Live, IsActive, InGrace, HasRow, Held, vars

LEMMA InvInit == Init => Inv
<1> SUFFICES ASSUME Init
             PROVE  Inv
  OBVIOUS
<1>1. TypeOK
  BY StoreConstants
     DEF Init, TypeOK, FileRows, NoRow, RefRows, NoRef, Steps, Jobs, NoJob, Sweeps, NoSweep
<1>2. LiveHasObject /\ RowsAreMinted /\ OnlyDeletedExpire
  BY DEF Init, LiveHasObject, RowsAreMinted, OnlyDeletedExpire, Live, IsActive, InGrace, HasRow,
         NoRow
<1>3. SweepsHoldDead
  BY StoreConstants DEF Init, SweepsHoldDead, Held, NoSweep
<1>4. OwnIsFresh /\ TxnsAreOnLive
  BY DEF Init, OwnIsFresh, TxnsAreOnLive, OwnSteps, RowTxnSteps
<1> QED
  BY <1>1, <1>2, <1>3, <1>4 DEF Inv

LEMMA InvStep ==
  ASSUME SoundCommits, ShortTransactions, Inv, [Next]_vars
  PROVE  Inv'
<1>1. TypeOK'
  BY TypeStep DEF Inv
<1> QED
  BY <1>1, StartInv, HandleInv, SweepInv, TickInv, StutterInv DEF Next

THEOREM Invariant ==
  ASSUME SoundCommits, ShortTransactions
  PROVE  Spec => []Inv
<1>1. Inv /\ [Next]_vars => Inv'
  BY InvStep
<1> QED
  BY <1>1, InvInit, PTL DEF Spec

\* Whatever uploads race, lose, clean up, revive and delete, and however many sweeps
\* run: the object of an active or restorable file stays in the bucket.
THEOREM LiveFilesKeepTheirObject ==
  ASSUME SoundCommits, ShortTransactions
  PROVE  Spec => []LiveHasObject
<1>1. Inv => LiveHasObject
  BY DEF Inv
<1> QED
  BY <1>1, Invariant, PTL

----------------------------------------------------------------------------
(* The store implements the lifecycle *)

\* A step that leaves clock, rows, objects, ids and pending inserts alone stutters.
LEMMA LifecycleStutter ==
  ASSUME UNCHANGED <<now, files, objects, minted>>,
         \A f \in FileIds : Inserting(f)' <=> Inserting(f)
  PROVE  UNCHANGED Lifecycle!lifecycle
<1>1. \A f \in FileIds : PhaseOf(f)' = PhaseOf(f)
  BY DEF PhaseOf
<1> QED
  BY <1>1 DEF Lifecycle!lifecycle, Phases, Deadlines

\* One request steps between points that are not a pending insert.
LEMMA InsertingSame ==
  ASSUME NEW r \in Requests, OthersStay(r), pc[r] # "insert", pc'[r] # "insert"
  PROVE  \A f \in FileIds : Inserting(f)' <=> Inserting(f)
BY DEF OthersStay, Inserting

\* Only file f changes its phase.
LEMMA PhaseStep ==
  ASSUME NEW f \in FileIds, NEW ph, PhaseOf(f)' = ph,
         \A g \in FileIds : g # f => PhaseOf(g)' = PhaseOf(g)
  PROVE  Lifecycle!Enter(f, ph)
BY DEF Lifecycle!Enter, Phases

\* Writing the row of a live file is a deletion, a restore or nothing.
LEMMA RowWriteImplements ==
  ASSUME Inv, NEW r \in Requests, OthersStay(r), pc[r] # "insert", pc'[r] # "insert",
         NEW f \in FileIds, Live(f), NEW row,
         files' = [files EXCEPT ![f] = row],
         \/ row.status = "active" /\ row.purgeAt = 0
         \/ /\ row.status = "deleted" /\ row.purgeAt = now + GracePeriod
            /\ IsActive(f) \/ files[f].purgeAt = now + GracePeriod,
         UNCHANGED <<now, objects, minted>>
  PROVE  [Lifecycle!Next]_(Lifecycle!lifecycle)
<1>1. \A g \in FileIds : files'[g] = IF g = f THEN row ELSE files[g]
  BY DEF Inv, TypeOK
<1>2. \A g \in FileIds : g # f => PhaseOf(g)' = PhaseOf(g)
  BY <1>1, InsertingSame DEF PhaseOf
<1>3. PhaseOf(f) = files[f].status /\ PhaseOf(f)' = row.status
  BY <1>1 DEF PhaseOf, Live, IsActive, InGrace
<1>4. Phases[f] = files[f].status /\ Deadlines[f] = files[f].purgeAt
  BY <1>3 DEF Phases, Deadlines
<1>5. Deadlines' = [Deadlines EXCEPT ![f] = row.purgeAt]
  <2>1. \A g \in FileIds :
          files'[g].purgeAt = IF g = f THEN row.purgeAt ELSE files[g].purgeAt
    BY <1>1
  <2> QED
    BY <2>1 DEF Deadlines
<1>6. Lifecycle!Enter(f, row.status)
  BY <1>2, <1>3, PhaseStep
<1>7. CASE row.status = files[f].status
  <2>1. row.purgeAt = files[f].purgeAt
    BY <1>7 DEF Inv, OnlyDeletedExpire, Live, IsActive, InGrace
  <2>2. Phases' = Phases /\ Deadlines' = Deadlines
    BY <1>1, <1>2, <1>3, <1>7, <2>1 DEF Phases, Deadlines
  <2> QED
    BY <2>2 DEF Lifecycle!lifecycle
<1>8. CASE row.status = "active" /\ files[f].status = "deleted"
  <2>1. Lifecycle!Restore(f)
    BY <1>4, <1>5, <1>6, <1>8 DEF Lifecycle!Restore, Live, IsActive, InGrace
  <2> QED
    BY <2>1 DEF Lifecycle!Next
<1>9. CASE row.status = "deleted" /\ files[f].status = "active"
  <2>1. Lifecycle!Delete(f)
    BY <1>4, <1>5, <1>6, <1>9 DEF Lifecycle!Delete
  <2> QED
    BY <2>1 DEF Lifecycle!Next
<1> QED
  BY <1>7, <1>8, <1>9 DEF Live, IsActive, InGrace

\* A step of a request that writes no row and keeps its object: when it gives up a
\* pending insert, its id is abandoned.
LEMMA QuietImplements ==
  ASSUME Inv, NEW r \in Requests, OthersStay(r),
         UNCHANGED <<now, files, objects, minted>>,
         pc'[r] # "insert"
  PROVE  [Lifecycle!Next]_(Lifecycle!lifecycle)
<1>1. CASE pc[r] # "insert"
  BY <1>1, InsertingSame, LifecycleStutter
<1>2. CASE pc[r] = "insert"
  <2>1. PICK f \in FileIds : f = job[r].own /\ f \in minted /\ files[f].status = "none"
    BY <1>2 DEF Inv, OwnIsFresh, OwnSteps, TypeOK, HasRow
  <2>2. Inserting(f) /\ ~Inserting(f)'
    BY <1>2, <2>1 DEF Inv, OwnIsFresh, OwnSteps, OthersStay, Inserting
  <2>3. \A g \in FileIds : g # f => (Inserting(g)' <=> Inserting(g))
    BY <1>2, <2>1 DEF OthersStay, Inserting
  <2>4. PhaseOf(f) = "unused" /\ PhaseOf(f)' = "gone"
    BY <2>1, <2>2 DEF PhaseOf
  <2>5. \A g \in FileIds : g # f => PhaseOf(g)' = PhaseOf(g)
    BY <2>3 DEF PhaseOf
  <2>6. Lifecycle!Abandon(f)
    BY <2>1, <2>4, <2>5, PhaseStep DEF Lifecycle!Abandon, Phases, Deadlines
  <2> QED
    BY <2>1, <2>6 DEF Lifecycle!Next
<1> QED
  BY <1>1, <1>2

\* An upload's first step stages its object under a fresh id; the others change nothing
\* the lifecycle sees.
LEMMA StartImplements ==
  ASSUME Inv, NEW r \in Requests, Start(r)
  PROVE  [Lifecycle!Next]_(Lifecycle!lifecycle)
<1> USE DEF Inv
<1>1. ASSUME NEW c \in Contents, NEW k \in Keys \cup {Self}, PutObject(r, c, k)
      PROVE  [Lifecycle!Next]_(Lifecycle!lifecycle)
  <2>1. PICK f \in FileIds \ minted :
          /\ minted' = minted \cup {f}
          /\ \/ /\ objects' = objects \cup {f}
                /\ job' = [job EXCEPT ![r] =
                     [NoJob EXCEPT !.op = "small", !.content = c, !.key = k, !.own = f]]
                /\ Goto(r, "insert")
             \/ /\ objects' \in {objects, objects \cup {f}}
                /\ UNCHANGED <<pc, job>>
    BY <1>1 DEF PutObject
  <2>2. pc[r] = "idle" /\ UNCHANGED <<now, files>> /\ OthersStay(r)
    BY <1>1, <2>1 DEF PutObject, OthersStay, Goto, TypeOK
  <2>3. files[f].status = "none" /\ ~Inserting(f)
    BY <2>1 DEF RowsAreMinted, HasRow, OwnIsFresh, OwnSteps, Inserting
  <2>4. PhaseOf(f) = "unused" /\ Phases[f] = "unused"
    BY <2>1, <2>3 DEF PhaseOf, Phases
  <2>5. CASE UNCHANGED <<pc, job>>
    <3>1. \A g \in FileIds : Inserting(g)' <=> Inserting(g)
      BY <2>5 DEF Inserting
    <3>2. PhaseOf(f)' = "gone" /\ \A g \in FileIds : g # f => PhaseOf(g)' = PhaseOf(g)
      BY <2>1, <2>2, <2>3, <3>1 DEF PhaseOf
    <3>3. Lifecycle!Abandon(f)
      BY <2>1, <2>2, <2>4, <3>2, PhaseStep DEF Lifecycle!Abandon, Deadlines
    <3> QED
      BY <2>1, <3>3 DEF Lifecycle!Next
  <2>6. CASE /\ objects' = objects \cup {f}
             /\ job' = [job EXCEPT ![r] =
                  [NoJob EXCEPT !.op = "small", !.content = c, !.key = k, !.own = f]]
             /\ Goto(r, "insert")
    <3>1. pc'[r] = "insert" /\ job'[r].own = f
      BY <2>6 DEF Goto, TypeOK, NoJob
    <3>2. Inserting(f)' /\ \A g \in FileIds : g # f => (Inserting(g)' <=> Inserting(g))
      BY <2>2, <3>1 DEF Inserting, OthersStay
    <3>3. \A g \in FileIds : PhaseOf(g)' = PhaseOf(g)
      BY <2>1, <2>2, <2>3, <3>2 DEF PhaseOf
    <3>4. Lifecycle!Stage(f)
      BY <2>1, <2>2, <2>4, <2>6, <3>3 DEF Lifecycle!Stage, Phases, Deadlines
    <3> QED
      BY <2>1, <3>4 DEF Lifecycle!Next
  <2> QED
    BY <2>1, <2>5, <2>6
<1>2. ASSUME NEW c \in Contents, NEW k \in Keys \cup {Self}, MissReplay(r, c, k)
      PROVE  [Lifecycle!Next]_(Lifecycle!lifecycle)
  BY <1>2, QuietImplements DEF MissReplay, OthersStay, Goto, TypeOK
<1>3. ASSUME NEW f \in FileIds, NEW k \in Keys \cup {Self}, StartAttach(r, f, k)
      PROVE  [Lifecycle!Next]_(Lifecycle!lifecycle)
  BY <1>3, QuietImplements DEF StartAttach, OthersStay, Goto, TypeOK
<1>4. ASSUME NEW f \in FileIds, DeleteRead(r, f) \/ RestoreRead(r, f)
      PROVE  [Lifecycle!Next]_(Lifecycle!lifecycle)
  BY <1>4, QuietImplements DEF DeleteRead, RestoreRead, OthersStay, Goto, TypeOK
<1>5. ASSUME NEW q \in RefIds, DetachRead(r, q)
      PROVE  [Lifecycle!Next]_(Lifecycle!lifecycle)
  BY <1>5, QuietImplements DEF DetachRead, OthersStay, Goto, TypeOK
<1> QED
  BY <1>1, <1>2, <1>3, <1>4, <1>5 DEF Start

\* Every later step of a handler is one step of the lifecycle of one file, or none.
LEMMA HandleImplements ==
  ASSUME SoundCommits, Inv, NEW r \in Requests, Handle(r) \/ Cancel(r)
  PROVE  [Lifecycle!Next]_(Lifecycle!lifecycle)
<1> USE DEF Inv
<1>1. CASE InsertRow(r)
  <2>1. /\ files' = [files EXCEPT ![job[r].own] = ActiveRow(job[r].content)]
        /\ pc[r] = "insert" /\ Goto(r, "ok")
        /\ UNCHANGED <<now, objects, minted>>
        /\ \E j : job' = [job EXCEPT ![r] = j]
    BY <1>1 DEF InsertRow, SoundCommits
  <2>2. OthersStay(r) /\ pc'[r] = "ok"
    BY <2>1 DEF OthersStay, Goto, TypeOK
  <2>3. PICK f \in FileIds :
          f = job[r].own /\ f \in minted /\ f \in objects /\ files[f].status = "none"
    BY <2>1 DEF OwnIsFresh, OwnSteps, TypeOK, HasRow
  <2>4. \A g \in FileIds : files'[g] = IF g = f THEN ActiveRow(job[r].content) ELSE files[g]
    BY <2>1, <2>3 DEF TypeOK
  <2>5. Inserting(f) /\ \A g \in FileIds : g # f => (Inserting(g)' <=> Inserting(g))
    BY <2>1, <2>2, <2>3 DEF Inserting, OthersStay
  <2>6. PhaseOf(f) = "unused" /\ PhaseOf(f)' = "active"
    BY <2>3, <2>4, <2>5 DEF PhaseOf, ActiveRow
  <2>7. \A g \in FileIds : g # f => PhaseOf(g)' = PhaseOf(g)
    BY <2>1, <2>4, <2>5 DEF PhaseOf
  <2>8. Deadlines' = Deadlines
    BY <2>3, <2>4 DEF Deadlines, OnlyDeletedExpire, ActiveRow
  <2>9. Lifecycle!Publish(f)
    BY <2>1, <2>3, <2>6, <2>7, <2>8, PhaseStep DEF Lifecycle!Publish, Phases
  <2> QED
    BY <2>3, <2>9 DEF Lifecycle!Next
<1>2. CASE InsertError(r)
  <2>1. OthersStay(r) /\ pc'[r] # "insert"
    BY <1>2, Moves DEF InsertError, Goto, OthersStay, TypeOK
  <2> QED
    BY <1>2, <2>1, QuietImplements DEF InsertError
<1>3. CASE InsertConflict(r)
  <2>1. OthersStay(r) /\ pc'[r] # "insert"
    BY <1>3, Moves DEF InsertConflict, Goto, OthersStay, TypeOK
  <2> QED
    BY <1>3, <2>1, QuietImplements DEF InsertConflict
<1>4. CASE CleanupObject(r)
  <2> DEFINE f == job[r].own
  <2>1. /\ UNCHANGED <<now, files, minted>>
        /\ objects' \in {objects, objects \ {f}}
        /\ pc[r] \in {"cleanup_fail", "cleanup_dup"}
    BY <1>4 DEF CleanupObject
  <2>2. OthersStay(r) /\ pc'[r] # "insert"
    BY <1>4, Moves DEF CleanupObject, Goto, OthersStay, TypeOK
  <2>3. /\ f \in FileIds /\ f \in minted /\ files[f].status = "none" /\ ~Inserting(f)
    BY <2>1 DEF OwnIsFresh, OwnSteps, TypeOK, HasRow, Inserting
  <2>4. \A g \in FileIds : Inserting(g)' <=> Inserting(g)
    BY <2>1, <2>2, InsertingSame
  <2>5. \A g \in FileIds : PhaseOf(g)' = PhaseOf(g)
    BY <2>1, <2>4 DEF PhaseOf
  <2>6. CASE objects' = objects
    BY <2>1, <2>4, <2>6, LifecycleStutter
  <2>7. CASE objects' = objects \ {f}
    <3>1. Lifecycle!Discard(f)
      BY <2>1, <2>3, <2>5, <2>7 DEF Lifecycle!Discard, Phases, Deadlines, PhaseOf
    <3> QED
      BY <2>3, <3>1 DEF Lifecycle!Next
  <2> QED
    BY <2>1, <2>6, <2>7
<1>5. CASE FindWinner(r)
  <2>1. OthersStay(r) /\ pc'[r] # "insert"
    BY <1>5, Moves DEF FindWinner, Goto, OthersStay, TypeOK
  <2> QED
    BY <1>5, <2>1, QuietImplements DEF FindWinner
<1>6. CASE ReviveRead(r)
  <2>1. OthersStay(r) /\ pc'[r] # "insert"
    BY <1>6, Moves DEF ReviveRead, Goto, OthersStay, TypeOK
  <2> QED
    BY <1>6, <2>1, QuietImplements DEF ReviveRead
<1>7. CASE ReviveWrite(r) \/ ReviveCommit(r) \/ RestoreWrite(r)
  <2> DEFINE f == job[r].file
  <2>1. /\ Live(f) /\ f \in FileIds /\ pc[r] # "insert"
        /\ UNCHANGED <<now, objects, minted>>
    BY <1>7 DEF ReviveWrite, ReviveCommit, RestoreWrite, TxnsAreOnLive, RowTxnSteps, Live, IsActive,
         InGrace
  <2>2. OthersStay(r)
    BY <1>7, Moves
       DEF ReviveWrite, ReviveCommit, RestoreWrite, WriteRef, Goto, OthersStay, TypeOK
  <2>3. pc'[r] # "insert"
    BY <1>7, Moves DEF ReviveWrite, ReviveCommit, RestoreWrite, Goto, TypeOK
  <2>4. CASE UNCHANGED files
    BY <2>1, <2>2, <2>3, <2>4, QuietImplements
  <2>5. CASE files' = [files EXCEPT ![f] = ActiveRow(files[f].content)]
    BY <2>1, <2>2, <2>3, <2>5, RowWriteImplements DEF ActiveRow
  <2> QED
    BY <1>7, <2>4, <2>5 DEF ReviveWrite, ReviveCommit, RestoreWrite
<1>8. CASE DeleteWrite(r)
  <2> DEFINE f == job[r].file
             row == [files[f] EXCEPT !.status = "deleted", !.purgeAt = job[r].at + GracePeriod]
  <2>1. /\ Live(f) /\ f \in FileIds /\ pc[r] # "insert" /\ DeletesNow(r)
        /\ UNCHANGED <<now, objects, minted>>
        /\ OthersStay(r) /\ pc'[r] = "idle"
    BY <1>8, Moves DEF DeleteWrite, TxnsAreOnLive, RowTxnSteps, Live, IsActive, InGrace
  <2>2. CASE UNCHANGED files
    BY <2>1, <2>2, QuietImplements
  <2>3. CASE files' = [files EXCEPT ![f] = row]
    <3>1. row.status = "deleted" /\ row.purgeAt = now + GracePeriod
      BY <2>1 DEF TypeOK, FileRows, DeletesNow
    <3>2. IsActive(f) \/ files[f].purgeAt = now + GracePeriod
      BY <2>1 DEF DeletesNow
    <3> HIDE DEF row
    <3> QED
      BY <2>1, <2>3, <3>1, <3>2, RowWriteImplements
  <2> QED
    BY <1>8, <2>2, <2>3 DEF DeleteWrite
<1>9. CASE Remember(r)
  <2>1. OthersStay(r) /\ pc'[r] # "insert"
    BY <1>9, Moves DEF Remember, Goto, OthersStay, TypeOK
  <2> QED
    BY <1>9, <2>1, QuietImplements DEF Remember
<1>10. CASE AttachLookup(r)
  <2>1. OthersStay(r) /\ pc'[r] # "insert"
    BY <1>10, Moves DEF AttachLookup, Goto, OthersStay, TypeOK, AfterAttach
  <2> QED
    BY <1>10, <2>1, QuietImplements DEF AttachLookup
<1>11. CASE AttachWrite(r)
  <2>1. OthersStay(r) /\ pc'[r] # "insert"
    BY <1>11, Moves DEF AttachWrite, Goto, OthersStay, TypeOK, AfterAttach, WriteRef
  <2> QED
    BY <1>11, <2>1, QuietImplements DEF AttachWrite
<1>12. CASE AttachReread(r)
  <2>1. OthersStay(r) /\ pc'[r] # "insert"
    BY <1>12, Moves DEF AttachReread, Goto, OthersStay, TypeOK, AfterAttach
  <2> QED
    BY <1>12, <2>1, QuietImplements DEF AttachReread
<1>13. CASE DetachWrite(r)
  <2>1. OthersStay(r) /\ pc'[r] # "insert"
    BY <1>13, Moves DEF DetachWrite, Goto, OthersStay, TypeOK
  <2> QED
    BY <1>13, <2>1, QuietImplements DEF DetachWrite
<1>14. CASE Return(r)
  <2>1. OthersStay(r) /\ pc'[r] # "insert"
    BY <1>14, Moves DEF Return, Goto, OthersStay, TypeOK
  <2> QED
    BY <1>14, <2>1, QuietImplements DEF Return
<1>15. CASE Cancel(r)
  <2>1. OthersStay(r) /\ pc'[r] # "insert"
    BY <1>15, Moves DEF Cancel, Goto, OthersStay, TypeOK
  <2> QED
    BY <1>15, <2>1, QuietImplements DEF Cancel
<1> QED
  BY <1>1, <1>2, <1>3, <1>4, <1>5, <1>6, <1>7, <1>8, <1>9, <1>10, <1>11, <1>12, <1>13, <1>14, <1>15 DEF Handle

\* A sweep only reclaims and forgets files past their deadline, or tidies up after one
\* that is gone already.
LEMMA SweepImplements ==
  ASSUME Inv, NEW p \in Purgers, Purge(p) \/ CancelSweep(p)
  PROVE  [Lifecycle!Next]_(Lifecycle!lifecycle)
<1> USE DEF Inv
<1>1. UNCHANGED <<now, minted, pc, job>>
  BY DEF Purge, PurgeSelect, PurgeObject, PurgeRow, CancelSweep
<1>2. \A f \in FileIds : Inserting(f)' <=> Inserting(f)
  BY <1>1 DEF Inserting
<1>3. CASE UNCHANGED <<files, objects>>
  BY <1>1, <1>2, <1>3, LifecycleStutter
<1>4. ASSUME NEW f \in FileIds, f \in Held(p)
      PROVE  /\ f \in minted /\ ~Inserting(f)
             /\ \/ Phases[f] = "gone" /\ files[f].status = "none"
                \/ /\ Phases[f] = "deleted" /\ files[f].status = "deleted"
                   /\ Deadlines[f] <= now
  <2>1. f \in minted /\ ~Live(f) /\ ~Inserting(f)
    BY <1>4 DEF SweepsHoldDead, OwnIsFresh, OwnSteps, Inserting
  <2>2. files[f].status \in {"none", "active", "deleted"} /\ files[f].purgeAt \in Nat /\ now \in Nat
    BY DEF TypeOK, FileRows
  <2> QED
    BY <2>1, <2>2 DEF Phases, PhaseOf, Deadlines, Live, IsActive, InGrace
<1>5. ASSUME NEW f \in sweep[p].todo, objects' = objects \ {f}, UNCHANGED files
      PROVE  [Lifecycle!Next]_(Lifecycle!lifecycle)
  <2>1. f \in FileIds /\ f \in Held(p)
    BY <1>5 DEF TypeOK, Sweeps, Held
  <2>2. Phases' = Phases /\ Deadlines' = Deadlines
    BY <1>1, <1>2, <1>5 DEF Phases, PhaseOf, Deadlines
  <2>3. Lifecycle!Discard(f) \/ Lifecycle!Reclaim(f)
    BY <1>1, <1>4, <1>5, <2>1, <2>2 DEF Lifecycle!Discard, Lifecycle!Reclaim
  <2> QED
    BY <2>1, <2>3 DEF Lifecycle!Next
<1>6. ASSUME NEW f \in FileIds, f \in Held(p), UNCHANGED objects,
             files' = [files EXCEPT ![f] = NoRow]
      PROVE  [Lifecycle!Next]_(Lifecycle!lifecycle)
  <2>1. \A g \in FileIds : files'[g] = IF g = f THEN NoRow ELSE files[g]
    BY <1>6 DEF TypeOK
  <2>2. \A g \in FileIds : files'[g].purgeAt = IF g = f THEN 0 ELSE files[g].purgeAt
    BY <2>1 DEF NoRow
  <2>3. PhaseOf(f)' = "gone" /\ \A g \in FileIds : g # f => PhaseOf(g)' = PhaseOf(g)
    BY <1>1, <1>2, <1>4, <1>6, <2>1 DEF PhaseOf, NoRow
  <2>4. Lifecycle!Enter(f, "gone")
    BY <2>3, PhaseStep
  <2>5. Deadlines' = [Deadlines EXCEPT ![f] = 0]
    BY <2>2 DEF Deadlines
  <2>6. CASE files[f].status = "deleted"
    <3>1. Lifecycle!Forget(f)
      BY <1>1, <1>4, <1>6, <2>4, <2>5, <2>6 DEF Lifecycle!Forget
    <3> QED
      BY <3>1 DEF Lifecycle!Next
  <2>7. CASE files[f].status = "none"
    <3>1. Phases[f] = "gone" /\ Deadlines[f] = 0
      BY <1>4, <1>6, <2>7 DEF Deadlines, OnlyDeletedExpire
    <3>2. Phases' = Phases
      BY <2>3, <3>1 DEF Phases
    <3>3. Deadlines' = Deadlines
      BY <2>2, <3>1 DEF Deadlines
    <3> QED
      BY <1>1, <1>6, <3>2, <3>3 DEF Lifecycle!lifecycle
  <2> QED
    BY <1>4, <1>6, <2>6, <2>7
<1>7. CASE PurgeObject(p)
  BY <1>3, <1>5, <1>7 DEF PurgeObject
<1>8. CASE PurgeRow(p)
  <2>1. sweep[p].file \in FileIds /\ sweep[p].file \in Held(p)
    BY <1>8 DEF PurgeRow, TypeOK, Sweeps, Held
  <2> QED
    BY <1>3, <1>6, <1>8, <2>1 DEF PurgeRow
<1>9. CASE PurgeSelect(p) \/ CancelSweep(p)
  BY <1>3, <1>9 DEF PurgeSelect, CancelSweep
<1> QED
  BY <1>7, <1>8, <1>9 DEF Purge

LEMMA TickImplements ==
  ASSUME Tick
  PROVE  [Lifecycle!Next]_(Lifecycle!lifecycle)
<1>1. \A f \in FileIds : PhaseOf(f)' = PhaseOf(f)
  BY DEF Tick, PhaseOf, Inserting
<1>2. Phases' = Phases /\ Deadlines' = Deadlines
  BY <1>1 DEF Tick, Phases, Deadlines
<1>3. Lifecycle!Advance
  BY <1>2 DEF Tick, Lifecycle!Advance
<1> QED
  BY <1>3 DEF Lifecycle!Next

\* The file store, with all its handlers and sweeps, implements the lifecycle of its files.
THEOREM StoreImplementsLifecycle ==
  ASSUME SoundCommits, ShortTransactions
  PROVE  Spec => ImplementsLifecycle
<1>1. Init => Lifecycle!Init
  BY DEF Init, Lifecycle!Init, Phases, PhaseOf, Deadlines, NoRow
<1>2. Inv /\ [Next]_vars => [Lifecycle!Next]_(Lifecycle!lifecycle)
  <2>1. ASSUME UNCHANGED vars
        PROVE  UNCHANGED Lifecycle!lifecycle
    BY <2>1, LifecycleStutter DEF vars, Inserting
  <2> QED
    BY <2>1, StartImplements, HandleImplements, SweepImplements, TickImplements DEF Next
<1> QED
  BY <1>1, <1>2, Invariant, PTL DEF Spec, ImplementsLifecycle, Lifecycle!Spec

----------------------------------------------------------------------------
(* A sweep spares what was referenced before it *)

\* Whatever refers to a file a sweep holds was attached since the sweep selected it: the
\* selection leaves out what an active reference protects.
ReferredSince(p) ==
  /\ sweep[p].at <= now
  /\ \A q \in RefIds :
       refs[q].status = "active" /\ refs[q].file \in Held(p) \ {Nil} =>
         refs[q].createdAt >= sweep[p].at

SparingInv == TypeOK /\ \A p \in Purgers : ReferredSince(p)

\* A reference a request writes is detached or created now.
LEMMA RequestsWriteRefs ==
  ASSUME TypeOK, NEW r \in Requests, Start(r) \/ Handle(r) \/ Cancel(r)
  PROVE  /\ UNCHANGED <<now, sweep>>
         /\ \A q \in RefIds :
              \/ refs'[q] = refs[q]
              \/ refs'[q].status = "detached"
              \/ refs'[q].createdAt = now
<1>1. UNCHANGED <<now, sweep>>
  BY DEF Start, PutObject, MissReplay, StartAttach, DeleteRead, RestoreRead, DetachRead, Handle,
         InsertRow, InsertError, InsertConflict, CleanupObject, FindWinner, ReviveRead, ReviveWrite,
         ReviveCommit, Remember, AttachLookup, AttachWrite, AttachReread, DetachWrite, DeleteWrite,
         RestoreWrite, Return, Cancel
<1>2. \/ UNCHANGED refs
      \/ InsertRow(r) \/ WriteRef(r)
      \/ DetachWrite(r)
  BY DEF Start, PutObject, MissReplay, StartAttach, DeleteRead, RestoreRead, DetachRead, Handle,
         InsertError, InsertConflict, CleanupObject, FindWinner, ReviveRead, ReviveWrite,
         ReviveCommit, Remember, AttachLookup, AttachWrite, AttachReread, DeleteWrite,
         RestoreWrite, Return, Cancel
<1>3. ASSUME NEW n, NEW f, NEW k, NewRef(n, f, k)
      PROVE  \A q \in RefIds : refs'[q] = refs[q] \/ refs'[q].createdAt = now
  BY <1>3 DEF NewRef, TypeOK
<1>4. CASE DetachWrite(r)
  BY <1>1, <1>4 DEF DetachWrite, TypeOK, RefRows
<1>5. CASE InsertRow(r) \/ WriteRef(r)
  <2>1. \E n, f, k : NewRef(n, f, k)
    BY <1>5 DEF InsertRow, WriteRef
  <2> QED
    BY <1>1, <1>3, <2>1
<1> QED
  BY <1>1, <1>2, <1>4, <1>5

\* A step of a sweep: it selects its targets, lets go of some, or ends.
LEMMA SweepMoves ==
  ASSUME TypeOK, NEW p \in Purgers, Purge(p) \/ CancelSweep(p)
  PROVE  /\ UNCHANGED <<now, refs>> /\ \A o \in Purgers : o # p => sweep'[o] = sweep[o]
         /\ \/ sweep'[p].at = now /\ Held(p)' \ {Nil} \subseteq PurgeTargets
            \/ sweep'[p].at = sweep[p].at /\ Held(p)' \ {Nil} \subseteq Held(p)
            \/ sweep'[p].at = 0 /\ Held(p)' \ {Nil} = {}
<1>1. \A o \in Purgers : o # p => sweep'[o] = sweep[o]
  BY DEF Purge, PurgeSelect, Batches, PurgeObject, PurgeRow, CancelSweep, DropTarget, TypeOK
<1>2. UNCHANGED <<now, refs>>
  BY DEF Purge, PurgeSelect, PurgeObject, PurgeRow, CancelSweep
<1>3. sweep[p] \in Sweeps
  BY DEF TypeOK
<1>4. CASE PurgeSelect(p)
  <2>1. PICK batch \in SUBSET PurgeTargets :
          sweep' = [sweep EXCEPT ![p] = [at |-> now, todo |-> batch, file |-> Nil]]
    BY <1>4 DEF PurgeSelect, Batches
  <2>2. sweep'[p].at = now /\ Held(p)' = batch \cup {Nil}
    BY <2>1 DEF Held, TypeOK
  <2> QED
    BY <1>1, <1>2, <2>2
<1>5. ASSUME NEW f, DropTarget(p, f)
      PROVE  \/ sweep'[p].at = sweep[p].at /\ Held(p)' \ {Nil} \subseteq Held(p)
             \/ sweep'[p].at = 0 /\ Held(p)' \ {Nil} = {}
  BY <1>5 DEF DropTarget, Held, NoSweep, TypeOK
<1>6. CASE PurgeObject(p)
  <2>1. PICK f \in sweep[p].todo :
          sweep' = [sweep EXCEPT ![p].file = f] \/ DropTarget(p, f)
    BY <1>6 DEF PurgeObject
  <2>2. CASE sweep' = [sweep EXCEPT ![p].file = f]
    BY <1>1, <1>2, <1>3, <2>2 DEF Held, TypeOK, Sweeps
  <2> QED
    BY <1>1, <1>2, <1>5, <2>1, <2>2
<1>7. CASE PurgeRow(p)
  BY <1>1, <1>2, <1>5, <1>7 DEF PurgeRow
<1>8. CASE CancelSweep(p)
  BY <1>1, <1>2, <1>8 DEF CancelSweep, Held, NoSweep, TypeOK
<1> QED
  BY <1>4, <1>6, <1>7, <1>8 DEF Purge

LEMMA SparingStep == SparingInv /\ [Next]_vars => SparingInv'
<1> SUFFICES ASSUME SparingInv, [Next]_vars
             PROVE  \A p \in Purgers : ReferredSince(p)'
  BY TypeStep DEF SparingInv
<1>1. /\ now \in Nat
      /\ \A p \in Purgers : sweep[p].at \in Nat /\ sweep[p].at <= now
      /\ \A q \in RefIds : refs[q] \in RefRows /\ refs[q].createdAt \in Nat
  BY DEF SparingInv, ReferredSince, TypeOK, Sweeps, RefRows
<1>2. ASSUME NEW r \in Requests, Start(r) \/ Handle(r) \/ Cancel(r)
      PROVE  \A p \in Purgers : ReferredSince(p)'
  <2>1. ASSUME NEW p \in Purgers, NEW q \in RefIds, refs'[q].status = "active",
               refs'[q].file \in Held(p) \ {Nil}
        PROVE  refs'[q].createdAt >= sweep[p].at
    <3>1. refs'[q] = refs[q] \/ refs'[q].createdAt = now
      BY <1>2, <2>1, RequestsWriteRefs DEF SparingInv
    <3>2. CASE refs'[q] = refs[q]
      BY <2>1, <3>2 DEF SparingInv, ReferredSince
    <3>3. CASE refs'[q].createdAt = now
      BY <1>1, <3>3
    <3> QED
      BY <3>1, <3>2, <3>3
  <2>2. UNCHANGED <<now, sweep>>
    BY <1>2, RequestsWriteRefs DEF SparingInv
  <2> QED
    BY <1>1, <2>1, <2>2 DEF ReferredSince, Held
<1>3. ASSUME NEW o \in Purgers, Purge(o) \/ CancelSweep(o), NEW p \in Purgers
      PROVE  ReferredSince(p)'
  <2>1. /\ UNCHANGED <<now, refs>> /\ (p # o => sweep'[p] = sweep[p])
        /\ \/ sweep'[o].at = now /\ Held(o)' \ {Nil} \subseteq PurgeTargets
           \/ sweep'[o].at = sweep[o].at /\ Held(o)' \ {Nil} \subseteq Held(o)
           \/ sweep'[o].at = 0 /\ Held(o)' \ {Nil} = {}
    BY <1>3, SweepMoves DEF SparingInv
  <2>2. ReferredSince(p)
    BY DEF SparingInv
  <2>3. CASE p # o
    BY <2>1, <2>2, <2>3 DEF ReferredSince, Held
  <2>4. CASE p = o /\ sweep'[o].at = now /\ Held(o)' \ {Nil} \subseteq PurgeTargets
    <3>1. \A q \in RefIds : refs[q].file \in PurgeTargets => refs[q].status # "active"
      BY DEF PurgeTargets, BlockedFromPurge
    <3> QED
      BY <1>1, <2>1, <2>4, <3>1 DEF ReferredSince
  <2>5. CASE p = o /\ sweep'[o].at = sweep[o].at /\ Held(o)' \ {Nil} \subseteq Held(o)
    BY <2>1, <2>2, <2>5 DEF ReferredSince
  <2>6. CASE p = o /\ sweep'[o].at = 0 /\ Held(o)' \ {Nil} = {}
    BY <1>1, <2>1, <2>6 DEF ReferredSince
  <2> QED
    BY <2>1, <2>3, <2>4, <2>5, <2>6
<1>4. ASSUME Tick, NEW p \in Purgers
      PROVE  ReferredSince(p)'
  <2>1. now' = now + 1 /\ UNCHANGED <<refs, sweep>> /\ ReferredSince(p)
    BY <1>4 DEF Tick, SparingInv
  <2> QED
    BY <1>1, <2>1 DEF ReferredSince, Held
<1>5. CASE UNCHANGED vars
  BY <1>5 DEF vars, SparingInv, ReferredSince, Held
<1> QED
  BY <1>2, <1>3, <1>4, <1>5 DEF Next

\* A sweep reads the references once, before it takes its files one by one: still it only ever
\* removes the row of a file whose active references, if any, were attached since it began.
\* However many sweeps and requests run, and whatever fails (purge_files).
THEOREM SweepsSpareReferenced == Spec => PurgeSparesReferenced
<1>1. Init => SparingInv
  <2>1. Init => TypeOK
    BY StoreConstants
       DEF Init, TypeOK, FileRows, NoRow, RefRows, NoRef, Steps, Jobs, NoJob, Sweeps, NoSweep
  <2> QED
    BY <2>1 DEF Init, SparingInv, ReferredSince, NoRef, NoSweep
<1>2. ASSUME SparingInv, [Next]_vars, NEW f \in FileIds, HasRow(f), ~HasRow(f)'
      PROVE  \E p \in Purgers :
               /\ sweep[p].file = f
               /\ \A q \in RefIds :
                    refs[q].status = "active" /\ refs[q].file = f => refs[q].createdAt >= sweep[p].at
  <2>1. files[f].status # "none" /\ files'[f].status = "none" /\ files \in [FileIds -> FileRows]
    BY <1>2 DEF HasRow, SparingInv, TypeOK
  <2>2. PICK p \in Purgers : PurgeRow(p)
    <3>1. ASSUME NEW g, NEW row, row.status # "none", files' = [files EXCEPT ![g] = row]
          PROVE  FALSE
      BY <2>1, <3>1
    <3>2. \A c : ActiveRow(c).status # "none"
      BY DEF ActiveRow
    <3>3. ~\E r \in Requests : InsertRow(r) \/ ReviveWrite(r) \/ ReviveCommit(r) \/ RestoreWrite(r)
      BY <2>1, <3>1, <3>2 DEF InsertRow, ReviveWrite, ReviveCommit, RestoreWrite
    <3>4. ~\E r \in Requests : DeleteWrite(r)
      <4> SUFFICES ASSUME NEW r \in Requests, DeleteWrite(r)
                   PROVE  FALSE
        OBVIOUS
      <4>1. PICK g, t : g \in FileIds /\ files' = [files EXCEPT ![g] =
                          [files[g] EXCEPT !.status = "deleted", !.purgeAt = t]]
        BY <2>1 DEF DeleteWrite, HasRow
      <4>2. [files[g] EXCEPT !.status = "deleted", !.purgeAt = t].status = "deleted"
        BY <2>1, <4>1 DEF FileRows
      <4> QED
        BY <3>1, <4>1, <4>2
    <3> QED
      BY <1>2, <2>1, <3>3, <3>4
         DEF Next, Tick, Start, PutObject, MissReplay, StartAttach, DeleteRead, RestoreRead,
             DetachRead, Handle, InsertError, InsertConflict, CleanupObject, FindWinner, ReviveRead,
             Remember, AttachLookup, AttachWrite, AttachReread, DetachWrite, Return, Cancel, Purge,
             PurgeSelect, PurgeObject, CancelSweep, vars
  <2>3. f = sweep[p].file
    BY <2>1, <2>2 DEF PurgeRow
  <2>4. f \in Held(p) \ {Nil}
    BY <2>3, StoreConstants DEF Held
  <2> QED
    BY <1>2, <2>3, <2>4 DEF SparingInv, ReferredSince
<1>3. SparingInv /\ [Next]_vars =>
        [\A f \in FileIds :
           HasRow(f) /\ ~HasRow(f)' =>
             \E p \in Purgers :
               /\ sweep[p].file = f
               /\ \A q \in RefIds :
                    refs[q].status = "active" /\ refs[q].file = f => refs[q].createdAt >= sweep[p].at]_vars
  BY <1>2
<1> QED
  BY <1>1, <1>3, SparingStep, PTL DEF Spec, PurgeSparesReferenced

----------------------------------------------------------------------------
(* No object is left behind *)

\* Every call to the bucket answers what it did, and every handler runs to its end.
BucketAnswers == "s3" \notin Faults

NoCrash == "crash" \notin Faults

Cleaning(f) == \E r \in Requests : pc[r] \in OwnSteps /\ job[r].own = f

\* Ids in the hands of a sweep or an upload were handed out; what a sweep is about to
\* delete the row of has lost its object, and no later upload puts one there again.
HandedOut ==
  /\ RowsAreMinted
  /\ \A p \in Purgers : Held(p) \ {Nil} \subseteq minted
  /\ \A r \in Requests : job[r].file \in minted \cup {Nil}
  /\ \A r \in Requests : pc[r] \in OwnSteps => job[r].own \in minted

ObjectBeforeRow == \A p \in Purgers : sweep[p].file \notin objects

OrphanInv == TypeOK /\ HandedOut /\ ObjectBeforeRow /\ NoOrphanObject

\* A step of a request that neither stores nor claims an object, takes no row away and
\* does not let go of the object it would clean up.
LEMMA HandsKept ==
  ASSUME OrphanInv, TypeOK', NEW r \in Requests, OthersStay(r),
         UNCHANGED <<minted, sweep>>,
         \A f \in FileIds : HasRow(f) => HasRow(f)',
         \A f \in FileIds : HasRow(f)' => f \in minted,
         objects' \subseteq objects,
         job'[r].file \in minted \cup {Nil},
         pc'[r] \in OwnSteps => job'[r].own \in minted,
         pc[r] \in OwnSteps =>
           \/ pc'[r] \in OwnSteps /\ job'[r].own = job[r].own
           \/ job[r].own \notin objects'
           \/ \A f \in FileIds : f = job[r].own => HasRow(f)'
  PROVE  OrphanInv'
<1>1. HandedOut'
  <2>1. RowsAreMinted'
    BY DEF RowsAreMinted
  <2>2. \A p \in Purgers : Held(p)' = Held(p) /\ Held(p) \ {Nil} \subseteq minted
    BY DEF OrphanInv, HandedOut, Held
  <2>3. \A s \in Requests :
          /\ job'[s].file \in minted \cup {Nil}
          /\ pc'[s] \in OwnSteps => job'[s].own \in minted
    BY DEF OrphanInv, HandedOut, OthersStay
  <2> QED
    BY <2>1, <2>2, <2>3 DEF HandedOut
<1>2. ObjectBeforeRow'
  BY DEF OrphanInv, ObjectBeforeRow
<1>3. ASSUME NEW f \in objects', ~HasRow(f)'
      PROVE  Cleaning(f)'
  <2>1. f \in FileIds /\ f \in objects /\ ~HasRow(f)
    BY <1>3 DEF TypeOK
  <2>2. PICK s \in Requests : pc[s] \in OwnSteps /\ job[s].own = f
    BY <2>1 DEF OrphanInv, NoOrphanObject, OwnSteps
  <2>3. pc'[s] \in OwnSteps /\ job'[s].own = f
    <3>1. CASE s # r
      BY <2>2, <3>1 DEF OthersStay
    <3>2. CASE s = r
      BY <1>3, <2>1, <2>2, <3>2 DEF HasRow
    <3> QED
      BY <3>1, <3>2
  <2> QED
    BY <2>3 DEF Cleaning
<1>4. NoOrphanObject'
  BY <1>3 DEF NoOrphanObject, Cleaning, OwnSteps
<1> QED
  BY <1>1, <1>2, <1>4 DEF OrphanInv

\* What a request does to its locals when it returns or goes on.
LEMMA LocalMoves ==
  ASSUME OrphanInv, NEW r \in Requests
  PROVE  /\ Quit(r) => pc'[r] = "idle" /\ OthersStay(r) /\ job'[r].file = Nil
         /\ \A s : Goto(r, s) => pc'[r] = s /\ \A t \in Requests : t # r => pc'[t] = pc[t]
         /\ \A q : job' = [job EXCEPT ![r].ref = q] =>
              /\ job'[r].file = job[r].file
              /\ \A t \in Requests : t # r => job'[t] = job[t]
         /\ \A f : job' = [job EXCEPT ![r].file = f] =>
              /\ job'[r].file = f
              /\ \A t \in Requests : t # r => job'[t] = job[t]
         /\ job' = [job EXCEPT ![r].own = Nil] =>
              /\ job'[r].file = job[r].file
              /\ \A t \in Requests : t # r => job'[t] = job[t]
         /\ \A new : job' = [job EXCEPT ![r] = new] =>
              /\ job'[r] = new
              /\ \A t \in Requests : t # r => job'[t] = job[t]
<1>1. job[r] \in Jobs /\ job \in [Requests -> Jobs] /\ pc \in [Requests -> Steps]
  BY DEF OrphanInv, TypeOK
<1>2. NoJob.file = Nil
  BY DEF NoJob
<1> QED
  BY <1>1, <1>2 DEF Quit, Goto, OthersStay, Jobs

\* The steps of requests that leave rows, objects and their own uploads alone.
LEMMA QuietLeavesNoOrphan ==
  ASSUME OrphanInv, TypeOK', NEW r \in Requests, OthersStay(r),
         UNCHANGED <<files, minted, sweep>>, objects' = objects,
         job'[r].file \in minted \cup {Nil}, pc'[r] \in OwnSteps => pc[r] \in OwnSteps,
         pc[r] \in OwnSteps => pc'[r] \in OwnSteps /\ job'[r].own = job[r].own
  PROVE  OrphanInv'
<1>1. \A f \in FileIds : (HasRow(f)' <=> HasRow(f)) /\ (HasRow(f) => f \in minted)
  BY DEF HasRow, OrphanInv, HandedOut, RowsAreMinted
<1>2. pc'[r] \in OwnSteps => job'[r].own \in minted
  BY DEF OrphanInv, HandedOut
<1> QED
  BY <1>1, <1>2, HandsKept

LEMMA StartLeavesNoOrphan ==
  ASSUME OrphanInv, TypeOK', BucketAnswers, NEW r \in Requests, Start(r)
  PROVE  OrphanInv'
<1>0. /\ TypeOK /\ HandedOut
      /\ "idle" \notin OwnSteps /\ "winner" \notin OwnSteps /\ "attach_lookup" \notin OwnSteps
      /\ "delete_write" \notin OwnSteps /\ "restore_write" \notin OwnSteps
      /\ "detach_write" \notin OwnSteps
  BY DEF OrphanInv, OwnSteps
<1>1. ASSUME NEW c \in Contents, NEW k \in Keys \cup {Self}, PutObject(r, c, k)
      PROVE  OrphanInv'
  <2>1. PICK f \in FileIds \ minted :
          /\ minted' = minted \cup {f} /\ objects' = objects \cup {f}
          /\ job' = [job EXCEPT ![r] =
               [NoJob EXCEPT !.op = "small", !.content = c, !.key = k, !.own = f]]
          /\ Goto(r, "insert")
    BY <1>1 DEF PutObject, BucketAnswers
  <2>2. /\ pc[r] = "idle" /\ pc'[r] = "insert" /\ job'[r].own = f /\ job'[r].file = Nil
        /\ OthersStay(r) /\ UNCHANGED <<files, sweep>>
    <3>1. /\ [NoJob EXCEPT !.op = "small", !.content = c, !.key = k, !.own = f].own = f
          /\ [NoJob EXCEPT !.op = "small", !.content = c, !.key = k, !.own = f].file = Nil
      BY DEF NoJob
    <3>2. pc'[r] = "insert" /\ \A t \in Requests : t # r => pc'[t] = pc[t]
      BY <2>1, LocalMoves
    <3>3. /\ job'[r] = [NoJob EXCEPT !.op = "small", !.content = c, !.key = k, !.own = f]
          /\ \A t \in Requests : t # r => job'[t] = job[t]
      BY <2>1, LocalMoves
    <3>4. pc[r] = "idle" /\ UNCHANGED <<files, sweep>>
      BY <1>1 DEF PutObject
    <3> QED
      BY <3>1, <3>2, <3>3, <3>4 DEF OthersStay
  <2>3. HandedOut'
    <3>1. RowsAreMinted'
      BY <1>0, <2>1, <2>2 DEF HandedOut, RowsAreMinted, HasRow
    <3>2. \A p \in Purgers : Held(p)' = Held(p) /\ Held(p) \ {Nil} \subseteq minted
      BY <1>0, <2>2 DEF HandedOut, Held
    <3>3. \A s \in Requests :
            /\ job'[s].file \in minted' \cup {Nil}
            /\ pc'[s] \in OwnSteps => job'[s].own \in minted'
      BY <1>0, <2>1, <2>2 DEF HandedOut, OthersStay
    <3> QED
      BY <2>1, <3>1, <3>2, <3>3 DEF HandedOut
  <2>4. ObjectBeforeRow'
    <3>1. \A p \in Purgers : sweep[p].file # f
      BY <1>0, <2>1, StoreConstants DEF HandedOut, Held
    <3> QED
      BY <2>1, <2>2, <3>1 DEF OrphanInv, ObjectBeforeRow
  <2>5. NoOrphanObject'
    <3>1. ASSUME NEW g \in objects', ~HasRow(g)'
          PROVE  Cleaning(g)'
      <4>1. CASE g = f
        BY <2>2, <4>1 DEF Cleaning, OwnSteps
      <4>2. CASE g # f
        <5>1. PICK s \in Requests : pc[s] \in OwnSteps /\ job[s].own = g
          BY <2>1, <2>2, <3>1, <4>2 DEF OrphanInv, NoOrphanObject, OwnSteps, HasRow
        <5>2. s # r
          BY <2>2, <5>1 DEF OwnSteps
        <5> QED
          BY <5>1, <5>2, <2>2 DEF OthersStay, Cleaning
      <4> QED
        BY <4>1, <4>2
    <3> QED
      BY <3>1 DEF NoOrphanObject, Cleaning, OwnSteps
  <2> QED
    BY <2>3, <2>4, <2>5 DEF OrphanInv
<1>2. ASSUME NEW new, NEW s, pc[r] = "idle", job' = [job EXCEPT ![r] = new], Goto(r, s),
             s \notin OwnSteps, new.file \in minted \cup {Nil},
             UNCHANGED <<files, objects, minted, sweep>>
      PROVE  OrphanInv'
  <2>1. OthersStay(r) /\ pc'[r] = s /\ job'[r] = new
    BY <1>2, LocalMoves DEF OthersStay
  <2> QED
    BY <1>0, <1>2, <2>1, QuietLeavesNoOrphan
<1>3. ASSUME NEW c \in Contents, NEW k \in Keys \cup {Self}, MissReplay(r, c, k)
      PROVE  OrphanInv'
  <2>1. [NoJob EXCEPT !.op = "instant", !.content = c, !.key = k].file = Nil
    BY DEF NoJob
  <2> QED
    BY <1>0, <1>2, <1>3, <2>1 DEF MissReplay
<1>4. ASSUME NEW f \in FileIds, HasRow(f)
      PROVE  f \in minted
  BY <1>0, <1>4 DEF HandedOut, RowsAreMinted
<1>5. ASSUME NEW f \in FileIds, NEW k \in Keys \cup {Self}, StartAttach(r, f, k)
      PROVE  OrphanInv'
  <2>1. [NoJob EXCEPT !.op = "attach", !.file = f, !.key = k].file = f
    BY DEF NoJob
  <2> QED
    BY <1>0, <1>2, <1>4, <1>5, <2>1 DEF StartAttach
<1>6. ASSUME NEW f \in FileIds, DeleteRead(r, f) \/ RestoreRead(r, f)
      PROVE  OrphanInv'
  <2>1. /\ [NoJob EXCEPT !.op = "delete", !.file = f, !.at = now].file = f
        /\ [NoJob EXCEPT !.op = "restore", !.file = f].file = f
    BY DEF NoJob
  <2>2. f \in minted
    BY <1>4, <1>6 DEF DeleteRead, RestoreRead, IsActive, InGrace, HasRow
  <2>3. CASE DeleteRead(r, f)
    BY <1>0, <1>2, <2>1, <2>2, <2>3 DEF DeleteRead
  <2>4. CASE RestoreRead(r, f)
    BY <1>0, <1>2, <2>1, <2>2, <2>4 DEF RestoreRead
  <2> QED
    BY <1>6, <2>3, <2>4
<1>7. ASSUME NEW q \in RefIds, DetachRead(r, q)
      PROVE  OrphanInv'
  <2>1. [NoJob EXCEPT !.op = "detach", !.ref = q].file = Nil
    BY DEF NoJob
  <2> QED
    BY <1>0, <1>2, <1>7, <2>1 DEF DetachRead
<1> QED
  BY <1>1, <1>3, <1>5, <1>6, <1>7 DEF Start

LEMMA HandleLeavesNoOrphan ==
  ASSUME OrphanInv, TypeOK', BucketAnswers, NEW r \in Requests, Handle(r)
  PROVE  OrphanInv'
<1>0. /\ TypeOK /\ HandedOut
      /\ job[r].file \in minted \cup {Nil} /\ (pc[r] \in OwnSteps => job[r].own \in minted)
      /\ \A s \in Steps \ OwnSteps : s \notin OwnSteps
      /\ {"idle", "winner", "revive_read", "attach_lookup", "attach_reread", "remember", "ok",
          "revive_write", "revive_attach", "revive_commit", "delete_write", "restore_write",
          "attach_write", "detach_write"} \cap OwnSteps = {}
      /\ AfterAttach(r) \notin OwnSteps
  BY DEF OrphanInv, HandedOut, OwnSteps, AfterAttach
<1>m. /\ Quit(r) => pc'[r] = "idle" /\ OthersStay(r) /\ job'[r].file = Nil
      /\ \A s : Goto(r, s) => pc'[r] = s /\ \A t \in Requests : t # r => pc'[t] = pc[t]
      /\ \A q : job' = [job EXCEPT ![r].ref = q] =>
           /\ job'[r].file = job[r].file
           /\ \A t \in Requests : t # r => job'[t] = job[t]
  BY LocalMoves
\* Steps that only move the request, with the file it has or none.
<1>1. ASSUME pc[r] \notin OwnSteps, pc'[r] \notin OwnSteps, OthersStay(r),
             job'[r].file \in minted \cup {Nil}, UNCHANGED <<files, objects, minted, sweep>>
      PROVE  OrphanInv'
  BY <1>1, QuietLeavesNoOrphan
<1>2. ASSUME pc[r] \notin OwnSteps, Quit(r), UNCHANGED <<files, objects, minted, sweep>>
      PROVE  OrphanInv'
  BY <1>0, <1>1, <1>2, <1>m
<1>3. ASSUME pc[r] \notin OwnSteps, NEW s, Goto(r, s), s \notin OwnSteps,
             UNCHANGED job \/ \E q : job' = [job EXCEPT ![r].ref = q],
             UNCHANGED <<files, objects, minted, sweep>>
      PROVE  OrphanInv'
  BY <1>0, <1>1, <1>3, <1>m DEF OthersStay
\* Steps that write the row of the file a request has.
<1>4. ASSUME pc[r] \notin OwnSteps, pc'[r] \notin OwnSteps, OthersStay(r),
             job'[r].file \in minted \cup {Nil}, NEW row, row.status # "none",
             files' = [files EXCEPT ![job[r].file] = row], UNCHANGED <<objects, minted, sweep>>
      PROVE  OrphanInv'
  <2>1. \A f \in FileIds : files'[f] = IF f = job[r].file THEN row ELSE files[f]
    BY <1>0, <1>4 DEF TypeOK
  <2>2. \A f \in FileIds : HasRow(f) => HasRow(f)'
    BY <1>4, <2>1 DEF HasRow
  <2>3. \A f \in FileIds : HasRow(f)' => f \in minted
    BY <1>0, <2>1, StoreConstants DEF HasRow, HandedOut, RowsAreMinted
  <2> QED
    BY <1>4, <2>2, <2>3, HandsKept
<1>5. \A c : ActiveRow(c).status # "none"
  BY DEF ActiveRow
<1>6. CASE InsertRow(r)
  <2>1. PICK q : /\ files' = [files EXCEPT ![job[r].own] = ActiveRow(job[r].content)]
                 /\ \/ job' = [job EXCEPT ![r] =
                         [@ EXCEPT !.file = job[r].own, !.ref = q, !.own = Nil]] /\ Goto(r, "ok")
                    \/ Goto(r, "cleanup_fail") /\ UNCHANGED job
    BY <1>6 DEF InsertRow
  <2>2. /\ job[r].own \in FileIds /\ job[r].own \in minted /\ pc[r] = "insert"
        /\ UNCHANGED <<objects, minted, sweep>>
    BY <1>0, <1>6 DEF InsertRow, OwnSteps, TypeOK
  <2>3. \A f \in FileIds : files'[f] = IF f = job[r].own THEN ActiveRow(job[r].content) ELSE files[f]
    BY <1>0, <2>1 DEF TypeOK
  <2>4. \A f \in FileIds : f = job[r].own => HasRow(f)'
    BY <1>5, <2>3 DEF HasRow
  <2>5. \A f \in FileIds : (HasRow(f) => HasRow(f)') /\ (HasRow(f)' => f \in minted)
    BY <1>0, <1>5, <2>2, <2>3 DEF HasRow, HandedOut, RowsAreMinted
  <2>6. OthersStay(r) /\ job'[r].file \in minted \cup {Nil} /\ (pc'[r] \in OwnSteps => job'[r].own \in minted)
    <3>1. CASE Goto(r, "cleanup_fail") /\ UNCHANGED job
      BY <1>0, <1>m, <2>2, <3>1 DEF OthersStay
    <3>2. CASE /\ job' = [job EXCEPT ![r] =
                    [job[r] EXCEPT !.file = job[r].own, !.ref = q, !.own = Nil]]
               /\ Goto(r, "ok")
      <4>1. [job[r] EXCEPT !.file = job[r].own, !.ref = q, !.own = Nil].file = job[r].own
        BY <1>0 DEF TypeOK, Jobs
      <4>2. job'[r].file = job[r].own /\ \A t \in Requests : t # r => job'[t] = job[t]
        BY <3>2, <4>1, LocalMoves
      <4> QED
        BY <1>0, <1>m, <2>2, <3>2, <4>2 DEF OthersStay
    <3> QED
      BY <2>1, <3>1, <3>2
  <2> QED
    BY <2>2, <2>4, <2>5, <2>6, HandsKept
<1>7. CASE InsertError(r) \/ InsertConflict(r)
  BY <1>0, <1>7, <1>m, QuietLeavesNoOrphan DEF InsertError, InsertConflict, OthersStay, OwnSteps
<1>8. CASE CleanupObject(r)
  <2>1. /\ objects' = objects \ {job[r].own} /\ UNCHANGED <<files, minted, sweep>>
        /\ Quit(r) \/ (Goto(r, "winner") /\ job' = [job EXCEPT ![r].own = Nil])
    BY <1>8 DEF CleanupObject, BucketAnswers
  <2>2. OthersStay(r) /\ pc'[r] \notin OwnSteps /\ job'[r].file \in minted \cup {Nil}
    BY <1>0, <1>m, <2>1, LocalMoves DEF OthersStay
  <2>3. \A f \in FileIds : (HasRow(f)' <=> HasRow(f)) /\ (HasRow(f) => f \in minted)
    BY <1>0, <2>1 DEF HasRow, HandedOut, RowsAreMinted
  <2> QED
    BY <2>1, <2>2, <2>3, HandsKept
<1>9. CASE FindWinner(r)
  <2>1. CASE Quit(r)
    BY <1>0, <1>2, <1>9, <2>1 DEF FindWinner
  <2>2. CASE \E f \in RowsOf(job[r].content) :
               /\ job' = [job EXCEPT ![r].file = f]
               /\ Goto(r, IF IsActive(f) THEN "attach_lookup" ELSE "revive_read")
    <3>1. PICK f \in RowsOf(job[r].content) :
               /\ job' = [job EXCEPT ![r].file = f]
               /\ Goto(r, IF IsActive(f) THEN "attach_lookup" ELSE "revive_read")
      BY <2>2
    <3>2. f \in minted
      BY <1>0 DEF RowsOf, HandedOut, RowsAreMinted, HasRow
    <3>3. job'[r].file = f /\ \A t \in Requests : t # r => job'[t] = job[t]
      BY <3>1, LocalMoves
    <3>4. pc[r] \notin OwnSteps /\ pc'[r] \notin OwnSteps /\ OthersStay(r)
      BY <1>0, <1>9, <1>m, <3>1, <3>3 DEF FindWinner, OthersStay
    <3> QED
      BY <1>1, <1>9, <3>2, <3>3, <3>4 DEF FindWinner
  <2> QED
    BY <1>9, <2>1, <2>2 DEF FindWinner
<1>10. CASE ReviveRead(r)
  <2>1. pc[r] \notin OwnSteps /\ UNCHANGED <<files, objects, minted, sweep>>
    BY <1>0, <1>10 DEF ReviveRead
  <2>2. \/ Quit(r)
        \/ /\ UNCHANGED job
           /\ \E s \in {"ok", "attach_lookup", "revive_write"} : Goto(r, s)
    BY <1>10 DEF ReviveRead
  <2> QED
    BY <1>0, <1>2, <1>3, <2>1, <2>2
<1>11. CASE ReviveWrite(r)
  <2>1. pc[r] \notin OwnSteps /\ UNCHANGED <<objects, minted, sweep>>
    BY <1>0, <1>11 DEF ReviveWrite
  <2>2. \/ /\ files' = [files EXCEPT ![job[r].file] = ActiveRow(files[job[r].file].content)]
           /\ UNCHANGED job /\ Goto(r, "attach_lookup")
        \/ /\ UNCHANGED files /\ Quit(r)
        \/ /\ UNCHANGED files /\ \E s \in {"revive_commit", "revive_attach"} : Goto(r, s)
           /\ UNCHANGED job \/ \E q : job' = [job EXCEPT ![r].ref = q]
    BY <1>11 DEF ReviveWrite
  <2> QED
    BY <1>0, <1>2, <1>3, <1>4, <1>5, <1>m, <2>1, <2>2 DEF OthersStay
<1>12. CASE ReviveCommit(r)
  <2>1. pc[r] \notin OwnSteps /\ UNCHANGED <<objects, minted, sweep>>
    BY <1>0, <1>12 DEF ReviveCommit
  <2>2. \/ /\ files' = [files EXCEPT ![job[r].file] = ActiveRow(files[job[r].file].content)]
           /\ UNCHANGED job \/ \E q : job' = [job EXCEPT ![r].ref = q]
           /\ Goto(r, "ok")
        \/ UNCHANGED files /\ Quit(r)
    BY <1>12 DEF ReviveCommit, WriteRef
  <2> QED
    BY <1>0, <1>2, <1>4, <1>5, <1>m, <2>1, <2>2 DEF OthersStay
<1>13. CASE Remember(r) \/ Return(r) \/ DetachWrite(r)
  BY <1>0, <1>2, <1>3, <1>13 DEF Remember, Return, DetachWrite
<1>14. CASE AttachLookup(r) \/ AttachWrite(r) \/ AttachReread(r)
  <2>1. pc[r] \notin OwnSteps /\ UNCHANGED <<files, objects, minted, sweep>>
    BY <1>0, <1>14 DEF AttachLookup, AttachWrite, AttachReread
  <2>2. \/ Quit(r)
        \/ /\ UNCHANGED job \/ \E q : job' = [job EXCEPT ![r].ref = q]
           /\ \E s \in {"attach_write", "attach_reread", AfterAttach(r)} : Goto(r, s)
    BY <1>14 DEF AttachLookup, AttachWrite, AttachReread, WriteRef
  <2> QED
    BY <1>0, <1>2, <1>3, <2>1, <2>2
<1>15. CASE DeleteWrite(r) \/ RestoreWrite(r)
  <2>1. pc[r] \notin OwnSteps /\ UNCHANGED <<objects, minted, sweep>> /\ Quit(r)
    BY <1>0, <1>15 DEF DeleteWrite, RestoreWrite
  <2>2. \A row \in FileRows : \A t : [row EXCEPT !.status = "deleted", !.purgeAt = t].status # "none"
    BY DEF FileRows
  <2>3. \/ UNCHANGED files
        \/ \E row : row.status # "none" /\ files' = [files EXCEPT ![job[r].file] = row]
    <3>1. CASE RestoreWrite(r)
      BY <1>5, <3>1 DEF RestoreWrite
    <3>2. CASE DeleteWrite(r)
      BY <1>0, <2>2, <3>2 DEF DeleteWrite, HasRow, TypeOK
    <3> QED
      BY <1>15, <3>1, <3>2
  <2> QED
    BY <1>0, <1>2, <1>4, <1>m, <2>1, <2>3
<1> QED
  BY <1>6, <1>7, <1>8, <1>9, <1>10, <1>11, <1>12, <1>13, <1>14, <1>15 DEF Handle

\* A sweep takes the object of a file away before its row.
LEMMA SweepsLeaveNoOrphan ==
  ASSUME OrphanInv, TypeOK', BucketAnswers, NEW p \in Purgers, Purge(p) \/ CancelSweep(p)
  PROVE  OrphanInv'
<1>0. /\ TypeOK /\ HandedOut /\ ObjectBeforeRow /\ NoOrphanObject
      /\ \A o \in Purgers : Held(o) \ {Nil} \subseteq minted
      /\ sweep[p] \in Sweeps /\ Nil \notin objects
  BY StoreConstants DEF OrphanInv, HandedOut, TypeOK
<1>1. /\ \A o \in Purgers : o # p => sweep'[o] = sweep[o]
      /\ UNCHANGED <<minted, pc, job>>
  BY <1>0 DEF Purge, PurgeSelect, Batches, PurgeObject, PurgeRow, CancelSweep, DropTarget, TypeOK
\* What is left to show of a step of the sweep.
<1>2. ASSUME Held(p)' \ {Nil} \subseteq minted, sweep'[p].file \notin objects', objects' \subseteq objects,
             \A f \in FileIds : HasRow(f)' => HasRow(f),
             \A f \in objects' : HasRow(f) => HasRow(f)'
      PROVE  OrphanInv'
  <2>1. HandedOut'
    <3>1. \A o \in Purgers : Held(o)' \ {Nil} \subseteq minted
      BY <1>0, <1>1, <1>2 DEF Held
    <3> QED
      BY <1>0, <1>1, <1>2, <3>1 DEF HandedOut, RowsAreMinted
  <2>2. ObjectBeforeRow'
    BY <1>0, <1>1, <1>2 DEF ObjectBeforeRow
  <2>3. NoOrphanObject'
    BY <1>0, <1>1, <1>2 DEF NoOrphanObject
  <2> QED
    BY <2>1, <2>2, <2>3 DEF OrphanInv
<1>3. \A f \in FileIds : HasRow(f) => f \in minted
  BY <1>0 DEF HandedOut, RowsAreMinted
<1>4. ASSUME NEW f, DropTarget(p, f)
      PROVE  Held(p)' \ {Nil} \subseteq minted /\ sweep'[p].file = Nil
  BY <1>0, <1>4 DEF DropTarget, Held, NoSweep, TypeOK
<1>5. UNCHANGED files => \A f \in FileIds : HasRow(f)' <=> HasRow(f)
  BY DEF HasRow
<1>6. CASE PurgeSelect(p)
  <2>1. PICK batch \in SUBSET PurgeTargets :
          sweep' = [sweep EXCEPT ![p] = [at |-> now, todo |-> batch, file |-> Nil]]
    BY <1>6 DEF PurgeSelect, Batches
  <2>2. Held(p)' = batch \cup {Nil} /\ sweep'[p].file = Nil
    BY <1>0, <2>1 DEF Held, TypeOK
  <2>3. \A f \in PurgeTargets : f \in minted
    BY <1>3 DEF PurgeTargets, HasRow
  <2>4. UNCHANGED <<files, objects>>
    BY <1>6 DEF PurgeSelect, Batches
  <2> QED
    BY <1>0, <1>2, <1>5, <2>2, <2>3, <2>4 DEF TypeOK
<1>7. CASE PurgeObject(p)
  <2>1. PICK f \in sweep[p].todo :
          objects' = objects \ {f} /\ sweep' = [sweep EXCEPT ![p].file = f]
    BY <1>7 DEF PurgeObject, BucketAnswers
  <2>2. sweep'[p].file = f /\ sweep'[p].todo = sweep[p].todo
    BY <1>0, <2>1 DEF TypeOK, Sweeps
  <2>3. Held(p)' \ {Nil} \subseteq minted
    BY <1>0, <2>2 DEF Held
  <2>4. UNCHANGED files
    BY <1>7 DEF PurgeObject
  <2> QED
    BY <1>0, <1>2, <1>5, <2>1, <2>2, <2>3, <2>4 DEF TypeOK
<1>8. CASE PurgeRow(p)
  <2>1. Held(p)' \ {Nil} \subseteq minted /\ sweep'[p].file = Nil
    BY <1>4, <1>8 DEF PurgeRow
  <2>2. UNCHANGED objects /\ sweep[p].file \notin objects
    BY <1>0, <1>8 DEF PurgeRow, ObjectBeforeRow
  <2>3. \A f \in FileIds : files'[f] \in {files[f], NoRow} /\ (f # sweep[p].file => files'[f] = files[f])
    BY <1>0, <1>8 DEF PurgeRow, TypeOK
  <2>4. \A f \in FileIds : HasRow(f)' => HasRow(f)
    BY <2>3 DEF HasRow, NoRow
  <2>5. \A f \in objects : HasRow(f) => HasRow(f)'
    BY <1>0, <2>2, <2>3 DEF HasRow, TypeOK
  <2> QED
    BY <1>0, <1>2, <2>1, <2>2, <2>4, <2>5
<1>9. CASE CancelSweep(p)
  <2>1. sweep'[p].file = Nil /\ Held(p)' = {Nil} /\ UNCHANGED <<files, objects>>
    BY <1>0, <1>9 DEF CancelSweep, Held, NoSweep, TypeOK
  <2> QED
    BY <1>0, <1>2, <1>5, <2>1 DEF TypeOK
<1> QED
  BY <1>6, <1>7, <1>8, <1>9 DEF Purge

\* When the bucket answers and no handler is dropped: every object in the bucket has a row, or
\* an upload that will still insert its row or delete it.  Whatever statements and commits fail,
\* whoever loses the insert race, and with any number of sweeps (cleanup_uploaded_object,
\* purge_single_file).
THEOREM NoObjectIsLeftBehind ==
  ASSUME BucketAnswers, NoCrash
  PROVE  Spec => []NoOrphanObject
<1>1. Init => OrphanInv
  <2> SUFFICES ASSUME Init
               PROVE  OrphanInv
    OBVIOUS
  <2>1. TypeOK
    BY StoreConstants
       DEF Init, TypeOK, FileRows, NoRow, RefRows, NoRef, Steps, Jobs, NoJob, Sweeps, NoSweep
  <2>2. HandedOut
    BY DEF Init, HandedOut, RowsAreMinted, HasRow, NoRow, Held, NoSweep, NoJob, OwnSteps
  <2> QED
    BY <2>1, <2>2 DEF Init, OrphanInv, ObjectBeforeRow, NoOrphanObject
<1>2. OrphanInv /\ [Next]_vars => OrphanInv'
  <2> SUFFICES ASSUME OrphanInv, [Next]_vars
               PROVE  OrphanInv'
    OBVIOUS
  <2>1. TypeOK'
    BY TypeStep DEF OrphanInv
  <2>2. ASSUME UNCHANGED <<files, objects, minted, pc, job, sweep>>
        PROVE  OrphanInv'
    BY <2>1, <2>2
       DEF OrphanInv, HandedOut, RowsAreMinted, ObjectBeforeRow, NoOrphanObject, HasRow, Held
  <2>3. CASE Tick
    BY <2>2, <2>3 DEF Tick
  <2>4. CASE UNCHANGED vars
    BY <2>2, <2>4 DEF vars
  <2>5. ~\E r \in Requests : Cancel(r)
    BY DEF Cancel, NoCrash
  <2> QED
    BY <2>1, <2>3, <2>4, <2>5, StartLeavesNoOrphan, HandleLeavesNoOrphan, SweepsLeaveNoOrphan
       DEF Next
<1>3. OrphanInv => NoOrphanObject
  BY DEF OrphanInv
<1> QED
  BY <1>1, <1>2, <1>3, PTL DEF Spec

============================================================================
