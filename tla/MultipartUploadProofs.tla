------------------------ MODULE MultipartUploadProofs -------------------------
(***************************************************************************)
(* Proofs about MultipartUpload, for any number of requests, sweeps and    *)
(* sessions.  With any of the faults: states are typed, a session is       *)
(* completed by one request at a time, nothing but the exceptions          *)
(* CompletedIsFinal names takes a completed session back, and parts settle *)
(* at the lock.  Without bucket errors and dropped handlers, a session     *)
(* that is over leaves nothing behind.  When commits are reported and      *)
(* completions end within COMPLETING_STALE_HOURS, a live file keeps its    *)
(* object.                                                                 *)
(***************************************************************************)
EXTENDS MultipartUpload, FiniteSetTheorems, TLAPS

----------------------------------------------------------------------------
(* The inductive invariant *)

\* A registration about to commit holds a part number of a session, a completion about
\* to lock a session.
RequestsNamed ==
  \A r \in Requests :
    /\ pc[r] = "register_write" => job[r].upload \in Uploads /\ job[r].part \in Parts
    /\ pc[r] = "lock" => job[r].upload \in Uploads

RowsAreMinted == \A u \in Uploads : HasRow(u) => u \in minted

\* A session about to be inserted is known to nobody else.
PersistIsFresh ==
  \A r \in Requests : pc[r] = "persist" =>
    /\ job[r].upload \in Uploads /\ job[r].upload \in minted
    /\ ~HasRow(job[r].upload)
    /\ \A s \in Requests :
         /\ pc[s] = "persist" /\ job[s].upload = job[r].upload => s = r
         /\ pc[s] \in LockedSteps => job[s].upload # job[r].upload

\* A session somebody completes is not active, so the lock cannot be taken again.
WorkingHolds ==
  \A r \in Requests : pc[r] \in LockedSteps =>
    /\ job[r].upload \in Uploads /\ job[r].upload \in minted
    /\ ~IsActive(job[r].upload)
    /\ \A s \in Requests : pc[s] \in LockedSteps /\ job[s].upload = job[r].upload => s = r

\* Unless a commit is misreported, a completion that has not finished is of a session
\* that is not completed.
NotYetCompleted ==
  "lost_commit" \notin Faults =>
    \A r \in Requests : pc[r] \in LockedSteps \ {"finish"} =>
      uploads[job[r].upload].status # "Completed"

Exclusion ==
  /\ RequestsNamed
  /\ RowsAreMinted
  /\ PersistIsFresh
  /\ WorkingHolds
  /\ NotYetCompleted

Inv == TypeOK /\ Exclusion

----------------------------------------------------------------------------
(* Type correctness *)

LEMMA LocalsType ==
  ASSUME TypeOK, NEW r \in Requests
  PROVE  /\ job[r] \in Jobs
         /\ job[r].upload \in Uploads \cup {Nil}
         /\ job[r].content \in Contents \cup {Nil}
         /\ job[r].hashed \in BOOLEAN /\ job[r].s3 \in BOOLEAN
         /\ job[r].part \in 0 .. PartsTotal /\ job[r].count \in 0 .. PartsTotal
         /\ job[r].file \in Uploads \cup {Nil}
         /\ job[r].next \in {"Aborted", "Completing", "Retryable"}
         /\ job[r].at \in Nat
BY DEF TypeOK, Jobs

LEMMA RowTypes ==
  ASSUME TypeOK, NEW u \in Uploads
  PROVE  /\ uploads[u] \in Sessions
         /\ uploads[u].status \in {"none", "Completing"} \cup Active \cup Over
         /\ uploads[u].s3 \in BOOLEAN /\ uploads[u].hashed \in BOOLEAN
         /\ uploads[u].content \in Contents \cup {Nil}
         /\ files[u] \in FileRows
         /\ parts[u] \subseteq Parts
BY DEF TypeOK, Sessions

LEMMA NoJobType == NoJob \in Jobs
<1>1. 0 \in 0 .. PartsTotal
  BY MultipartConstants
<1> QED
  BY <1>1 DEF NoJob, Jobs

\* A handler that returns leaves typed locals.
LEMMA QuitType ==
  ASSUME TypeOK, NEW r \in Requests, Quit(r)
  PROVE  pc' \in [Requests -> Steps] /\ job' \in [Requests -> Jobs]
BY NoJobType DEF TypeOK, Quit, Goto, Local, Steps

LEMMA GotoType ==
  ASSUME TypeOK, NEW r \in Requests, NEW s \in Steps, Goto(r, s)
  PROVE  pc' \in [Requests -> Steps]
BY DEF TypeOK, Goto

LEMMA FailType ==
  ASSUME TypeOK, NEW r \in Requests, NEW s \in Steps, NEW copied \in BOOLEAN,
         NEW status \in {"Aborted", "Completing", "Retryable"}, Fail(r, s, copied, status)
  PROVE  pc' \in [Requests -> Steps] /\ job' \in [Requests -> Jobs]
<1>1. [job[r] EXCEPT !.copied = copied, !.next = status] \in Jobs
  BY LocalsType DEF Jobs
<1> QED
  BY <1>1, GotoType DEF TypeOK, Fail, Local

\* An UPDATE writes a typed row, to its session and to no other.
LEMMA UpdateType ==
  ASSUME TypeOK, NEW u, NEW row, u \in Uploads => row \in Sessions, UpdateSession(u, row)
  PROVE  uploads' \in [Uploads -> Sessions]
<1>1. u \in Uploads => [row EXCEPT !.updatedAt = now] \in Sessions
  BY DEF TypeOK, Sessions
<1> QED
  BY <1>1 DEF TypeOK, UpdateSession

LEMMA UpdateEffect ==
  ASSUME TypeOK, NEW u, NEW row, u \in Uploads => row \in Sessions, UpdateSession(u, row)
  PROVE  \A v \in Uploads :
           /\ uploads'[v].status # uploads[v].status => v = u /\ uploads'[v].status = row.status
           /\ v = u /\ HasRow(u) => uploads'[v].status = row.status
           /\ ~HasRow(v) => uploads'[v] = uploads[v]
<1> SUFFICES ASSUME NEW v \in Uploads
             PROVE  /\ uploads'[v].status # uploads[v].status =>
                         v = u /\ uploads'[v].status = row.status
                    /\ v = u /\ HasRow(u) => uploads'[v].status = row.status
                    /\ ~HasRow(v) => uploads'[v] = uploads[v]
  OBVIOUS
<1>1. uploads \in [Uploads -> Sessions]
  BY DEF TypeOK
<1>2. CASE v = u /\ HasRow(u)
  <2>1. uploads'[v] = [row EXCEPT !.updatedAt = now]
    BY <1>1, <1>2 DEF UpdateSession
  <2>2. uploads'[v].status = row.status
    BY <1>2, <2>1 DEF Sessions
  <2> QED
    BY <1>2, <2>2
<1>3. CASE ~(v = u /\ HasRow(u))
  <2>1. uploads'[v] = uploads[v]
    BY <1>1, <1>3 DEF UpdateSession
  <2> QED
    BY <1>3, <2>1
<1> QED
  BY <1>2, <1>3

\* The rows that completions, failures and aborts write.
LEMMA WrittenRows ==
  ASSUME TypeOK, NEW u \in Uploads
  PROVE  /\ \A f \in Uploads \cup {Nil} :
              CompletedWith(u, f) \in Sessions /\ CompletedWith(u, f).status = "Completed"
         /\ \A o \in {"Aborted", "Completing", "Retryable"} :
              Ended(u, o) \in Sessions /\ Ended(u, o).status \in {"Aborted", "Completing"}
         /\ \A w \in Reasons : Aborted(u, w) \in Sessions /\ Aborted(u, w).status = "Aborted"
         /\ "aborted_by_user" \in Reasons /\ "complete_stale_aborted" \in Reasons
         /\ "ttl_purged" \in Reasons
<1>1. uploads[u] \in Sessions
  BY RowTypes
<1>2. ASSUME NEW f \in Uploads \cup {Nil}
      PROVE  CompletedWith(u, f) \in Sessions /\ CompletedWith(u, f).status = "Completed"
  BY <1>1 DEF CompletedWith, Sessions, Over, Reasons
<1>3. ASSUME NEW o \in {"Aborted", "Completing", "Retryable"}
      PROVE  Ended(u, o) \in Sessions /\ Ended(u, o).status \in {"Aborted", "Completing"}
  <2>1. CASE o = "Aborted"
    BY <1>1, <2>1 DEF Ended, Aborted, Sessions, Over, Reasons
  <2>2. CASE o # "Aborted"
    BY <1>1, <1>3, <2>2 DEF Ended, Sessions, Over, Reasons
  <2> QED
    BY <2>1, <2>2
<1>4. ASSUME NEW w \in Reasons
      PROVE  Aborted(u, w) \in Sessions /\ Aborted(u, w).status = "Aborted"
  BY <1>1 DEF Aborted, Sessions, Over
<1> QED
  BY <1>2, <1>3, <1>4 DEF Reasons

LEMMA BucketType ==
  ASSUME NEW before, NEW after, NEW S, before \subseteq Uploads, BestEffort(before, after, S)
  PROVE  after \subseteq Uploads
BY DEF BestEffort

LEMMA DiscardType ==
  ASSUME TypeOK, NEW u, NEW open, DiscardStaged(u, open)
  PROVE  multiparts' \subseteq Uploads /\ temp' \subseteq Uploads /\ final' \subseteq Uploads
<1>1. temp' \subseteq Uploads /\ final' \subseteq Uploads
  BY BucketType DEF TypeOK, DiscardStaged
<1>2. multiparts' \subseteq Uploads
  <2>1. CASE open
    BY <2>1, BucketType DEF TypeOK, DiscardStaged
  <2>2. CASE ~open
    BY <2>2 DEF TypeOK, DiscardStaged
  <2> QED
    BY <2>1, <2>2
<1> QED
  BY <1>1, <1>2

LEMMA CleanupBothType ==
  ASSUME TypeOK, NEW u, CleanupBoth(u)
  PROVE  temp' \subseteq Uploads /\ final' \subseteq Uploads
BY BucketType DEF TypeOK, CleanupBoth

LEMMA CountType ==
  ASSUME TypeOK, NEW u \in Uploads, NEW n \in Parts
  PROVE  Cardinality(parts[u] \cup {n}) \in 0 .. PartsTotal
<1>1. IsFiniteSet(Parts) /\ Cardinality(Parts) = PartsTotal
  BY MultipartConstants, FS_Interval DEF Parts
<1>2. parts[u] \cup {n} \subseteq Parts
  BY RowTypes
<1>3. /\ IsFiniteSet(parts[u] \cup {n})
      /\ Cardinality(parts[u] \cup {n}) \in Nat
      /\ Cardinality(parts[u] \cup {n}) <= Cardinality(Parts)
  BY <1>1, <1>2, FS_Subset, FS_CardinalityType
<1> QED
  BY <1>1, <1>3, MultipartConstants

LEMMA StartType ==
  ASSUME TypeOK, NEW r \in Requests, Start(r)
  PROVE  TypeOK'
<1>1. ASSUME NEW u \in Uploads, NEW c \in Contents, NEW declared \in BOOLEAN,
             CreateMultipart(r, u, c, declared)
      PROVE  TypeOK'
  <2>1. [NoJob EXCEPT !.upload = u, !.content = c, !.hashed = declared] \in Jobs
    BY NoJobType DEF Jobs
  <2>2. pc' \in [Requests -> Steps] /\ job' \in [Requests -> Jobs]
    <3>1. CASE Goto(r, "persist") /\ Local(r, [NoJob EXCEPT !.upload = u, !.content = c, !.hashed = declared])
      BY <2>1, <3>1, GotoType DEF TypeOK, Local, Steps
    <3>2. CASE UNCHANGED <<pc, job>>
      BY <3>2 DEF TypeOK
    <3> QED
      BY <1>1, <3>1, <3>2 DEF CreateMultipart
  <2>3. minted' \subseteq Uploads /\ multiparts' \subseteq Uploads
    BY <1>1 DEF TypeOK, CreateMultipart
  <2> QED
    BY <1>1, <2>2, <2>3 DEF TypeOK, CreateMultipart
<1>2. ASSUME NEW u \in Uploads, NEW n \in Parts, RegisterPart(r, u, n)
      PROVE  TypeOK'
  <2>1. n \in 0 .. PartsTotal
    BY MultipartConstants DEF Parts
  <2>2. [NoJob EXCEPT !.upload = u, !.part = n, !.count = Cardinality(parts[u] \cup {n})] \in Jobs
    BY <2>1, NoJobType, CountType DEF Jobs
  <2>3. pc' \in [Requests -> Steps] /\ job' \in [Requests -> Jobs]
    BY <1>2, <2>2, GotoType DEF TypeOK, Local, Steps, RegisterPart
  <2> QED
    BY <1>2, <2>3 DEF TypeOK, RegisterPart, bucket
<1>3. ASSUME NEW u \in Uploads, CompleteRead(r, u)
      PROVE  TypeOK'
  <2>1. [NoJob EXCEPT !.upload = u, !.s3 = uploads[u].s3, !.content = uploads[u].content,
                      !.hashed = uploads[u].hashed] \in Jobs
    BY NoJobType, RowTypes DEF Jobs
  <2>2. pc' \in [Requests -> Steps]
    BY <1>3, GotoType DEF Steps, CompleteRead
  <2>3. job' \in [Requests -> Jobs]
    BY <1>3, <2>1 DEF TypeOK, Local, CompleteRead
  <2> QED
    BY <1>3, <2>2, <2>3 DEF TypeOK, CompleteRead, bucket
<1>4. ASSUME NEW u \in Uploads, AbortUpload(r, u)
      PROVE  TypeOK'
  <2>1. [NoJob EXCEPT !.upload = u, !.s3 = uploads[u].s3] \in Jobs
    BY NoJobType, RowTypes DEF Jobs
  <2>2. pc' \in [Requests -> Steps] /\ job' \in [Requests -> Jobs]
    <3>1. CASE Goto(r, "abort_cleanup") /\ Local(r, [NoJob EXCEPT !.upload = u, !.s3 = uploads[u].s3])
      BY <2>1, <3>1, GotoType DEF TypeOK, Local, Steps
    <3>2. CASE UNCHANGED <<pc, job>>
      BY <3>2 DEF TypeOK
    <3> QED
      BY <1>4, <3>1, <3>2 DEF AbortUpload
  <2>3. uploads' \in [Uploads -> Sessions]
    BY <1>4, WrittenRows, UpdateType DEF AbortUpload
  <2> QED
    BY <1>4, <2>2, <2>3 DEF TypeOK, AbortUpload, bucket
<1> QED
  BY <1>1, <1>2, <1>3, <1>4 DEF Start

\* A step that only moves the program counter, or leaves the handler.
LEMMA MoveType ==
  ASSUME TypeOK, NEW r \in Requests, NEW s \in Steps,
         Quit(r) \/ (Goto(r, s) /\ UNCHANGED job)
  PROVE  pc' \in [Requests -> Steps] /\ job' \in [Requests -> Jobs]
BY QuitType, GotoType DEF TypeOK

LEMMA InitiateType ==
  ASSUME TypeOK, NEW r \in Requests, PersistUpload(r) \/ AbortInitiated(r)
  PROVE  TypeOK'
<1>1. CASE PersistUpload(r)
  <2>1. uploads' \in [Uploads -> Sessions]
    <3>1. CASE InsertSession(r)
      <4>1. [NoSession EXCEPT !.status = "Initiated", !.s3 = TRUE, !.content = job[r].content,
               !.hashed = job[r].hashed, !.updatedAt = now, !.expiresAt = now + UploadTTL]
              \in Sessions
        <5>1. now + UploadTTL \in Nat /\ now \in Nat /\ 0 \in 0 .. PartsTotal
          BY MultipartConstants DEF TypeOK
        <5> QED
          BY <5>1, LocalsType DEF NoSession, Sessions, Active, Reasons
      <4> QED
        BY <3>1, <4>1 DEF TypeOK, InsertSession
    <3>2. CASE UNCHANGED uploads
      BY <3>2 DEF TypeOK
    <3> QED
      BY <1>1, <3>1, <3>2 DEF PersistUpload
  <2>2. pc' \in [Requests -> Steps] /\ job' \in [Requests -> Jobs]
    BY <1>1, MoveType DEF Steps, PersistUpload
  <2> QED
    BY <1>1, <2>1, <2>2 DEF TypeOK, PersistUpload, bucket
<1>2. CASE AbortInitiated(r)
  <2>1. multiparts' \subseteq Uploads
    BY <1>2, BucketType DEF TypeOK, AbortInitiated
  <2> QED
    BY <1>2, <2>1, QuitType DEF TypeOK, AbortInitiated
<1> QED
  BY <1>1, <1>2

LEMMA RegisterType ==
  ASSUME TypeOK, RequestsNamed, NEW r \in Requests, RegisterCommit(r)
  PROVE  TypeOK'
<1> DEFINE u == job[r].upload
<1>1. u \in Uploads /\ job[r].part \in Parts
  BY DEF RequestsNamed, RegisterCommit
<1>2. uploads' \in [Uploads -> Sessions]
  <2>1. [uploads[u] EXCEPT !.status = "InProgress", !.received = job[r].count] \in Sessions
    BY <1>1, RowTypes, LocalsType DEF Sessions, Active
  <2> QED
    BY <1>1, <2>1, UpdateType DEF TypeOK, RegisterCommit
<1>3. parts' \in [Uploads -> SUBSET Parts]
  <2>1. parts[u] \cup {job[r].part} \in SUBSET Parts
    BY <1>1, RowTypes
  <2>2. CASE parts' = [parts EXCEPT ![u] = @ \cup {job[r].part}]
    BY <1>1, <2>1, <2>2 DEF TypeOK
  <2>3. CASE UNCHANGED parts
    BY <2>3 DEF TypeOK
  <2> QED
    BY <2>2, <2>3 DEF RegisterCommit
<1> QED
  BY <1>2, <1>3, QuitType DEF TypeOK, RegisterCommit, bucket

LEMMA LockType ==
  ASSUME TypeOK, NEW r \in Requests, CompleteLock(r)
  PROVE  TypeOK'
<1> DEFINE u == job[r].upload
<1>1. uploads' \in [Uploads -> Sessions]
  <2>1. u \in Uploads => [uploads[u] EXCEPT !.status = "Completing"] \in Sessions
    BY RowTypes DEF Sessions
  <2> QED
    BY <2>1, UpdateType DEF TypeOK, CompleteLock
<1>2. pc' \in [Requests -> Steps] /\ job' \in [Requests -> Jobs]
  <2>1. [job[r] EXCEPT !.at = now] \in Jobs
    BY LocalsType DEF TypeOK, Jobs
  <2>2. CASE Goto(r, "store") /\ Local(r, [job[r] EXCEPT !.at = now])
    BY <2>1, <2>2, GotoType DEF TypeOK, Local, Steps, LockedSteps
  <2>3. CASE Quit(r)
    BY <2>3, QuitType
  <2> QED
    BY <2>2, <2>3 DEF CompleteLock
<1> QED
  BY <1>1, <1>2 DEF TypeOK, CompleteLock, bucket

\* The locals of a completion that goes on, fails or ends.
LEMMA CompletionLocals ==
  ASSUME TypeOK, NEW r \in Requests,
         \/ Quit(r)
         \/ \E s \in Steps : Goto(r, s) /\ UNCHANGED job
         \/ \E s \in Steps, copied \in BOOLEAN, status \in {"Aborted", "Completing", "Retryable"} :
              Fail(r, s, copied, status)
  PROVE  pc' \in [Requests -> Steps] /\ job' \in [Requests -> Jobs]
BY QuitType, GotoType, FailType DEF TypeOK

LEMMA CompletionStepsType ==
  /\ {"verify", "copy", "insert", "cleanup", "terminalize", "finish", "dedup_cleanup",
      "dedup_find", "reuse"} \subseteq Steps
  /\ TRUE \in BOOLEAN /\ FALSE \in BOOLEAN
BY DEF Steps, LockedSteps

LEMMA ObjectsType ==
  ASSUME TypeOK, NEW r \in Requests, StoreMultipart(r) \/ VerifyObject(r) \/ CopyObject(r)
  PROVE  TypeOK'
<1>1. pc' \in [Requests -> Steps] /\ job' \in [Requests -> Jobs]
  BY CompletionLocals, CompletionStepsType DEF StoreMultipart, VerifyObject, CopyObject
<1>2. uploads' \in [Uploads -> Sessions]
  <2>1. job[r].upload \in Uploads => [uploads[job[r].upload] EXCEPT !.hashed = TRUE] \in Sessions
    BY RowTypes DEF Sessions
  <2> QED
    BY <2>1, UpdateType DEF TypeOK, StoreMultipart, VerifyObject, CopyObject
<1>3. multiparts' \subseteq Uploads /\ temp' \subseteq Uploads /\ final' \subseteq Uploads
  BY DEF TypeOK, StoreMultipart, VerifyObject, CopyObject, bucket
<1> QED
  BY <1>1, <1>2, <1>3 DEF TypeOK, StoreMultipart, VerifyObject, CopyObject, bucket

LEMMA FileType ==
  ASSUME TypeOK, NEW f, NEW c \in Contents \cup {Nil}, NEW s \in {"active", "deleted", "expired"},
         \/ files' = [files EXCEPT ![f] = [status |-> s, content |-> c]]
         \/ files' = [files EXCEPT ![f].status = s]
         \/ files' = [files EXCEPT ![f] = NoFile]
         \/ UNCHANGED files
  PROVE  files' \in [Uploads -> FileRows]
<1>1. [status |-> s, content |-> c] \in FileRows /\ NoFile \in FileRows
  BY DEF FileRows, NoFile
<1>2. f \in Uploads => [files[f] EXCEPT !.status = s] \in FileRows
  BY RowTypes DEF FileRows
<1> QED
  BY <1>1, <1>2 DEF TypeOK

LEMMA InsertType ==
  ASSUME TypeOK, NEW r \in Requests, InsertFile(r) \/ InsertFails(r) \/ InsertConflict(r)
  PROVE  TypeOK'
<1>1. pc' \in [Requests -> Steps] /\ job' \in [Requests -> Jobs]
  BY CompletionLocals, CompletionStepsType DEF InsertFile, InsertFails, InsertConflict
<1>2. uploads' \in [Uploads -> Sessions]
  BY WrittenRows, UpdateType DEF TypeOK, InsertFile, InsertFails, InsertConflict
<1>3. files' \in [Uploads -> FileRows]
  BY FileType, LocalsType DEF InsertFile, InsertFails, InsertConflict
<1> QED
  BY <1>1, <1>2, <1>3 DEF TypeOK, InsertFile, InsertFails, InsertConflict, bucket

LEMMA CleanupType ==
  ASSUME TypeOK, NEW r \in Requests,
         CleanupFailure(r) \/ DedupCleanup(r) \/ Finish(r) \/ ReturnBusy(r) \/ AbortCleanup(r)
  PROVE  TypeOK'
<1>1. pc' \in [Requests -> Steps] /\ job' \in [Requests -> Jobs]
  BY CompletionLocals, CompletionStepsType
     DEF CleanupFailure, DedupCleanup, Finish, ReturnBusy, AbortCleanup
<1>2. multiparts' \subseteq Uploads /\ temp' \subseteq Uploads /\ final' \subseteq Uploads
  <2>1. CASE AbortCleanup(r)
    BY <2>1, DiscardType DEF AbortCleanup
  <2>2. CASE DedupCleanup(r)
    BY <2>2, CleanupBothType DEF TypeOK, DedupCleanup
  <2>3. CASE CleanupFailure(r)
    BY <2>3, CleanupBothType, BucketType DEF TypeOK, CleanupFailure
  <2>4. CASE Finish(r)
    BY <2>4, BucketType DEF TypeOK, Finish
  <2>5. CASE ReturnBusy(r)
    BY <2>5 DEF TypeOK, ReturnBusy, bucket
  <2> QED
    BY <2>1, <2>2, <2>3, <2>4, <2>5
<1> QED
  BY <1>1, <1>2 DEF TypeOK, CleanupFailure, DedupCleanup, Finish, ReturnBusy, AbortCleanup, bucket

LEMMA OutcomeType ==
  ASSUME TypeOK, NEW r \in Requests, Terminalize(r) \/ DedupFind(r) \/ ReuseWinner(r)
  PROVE  TypeOK'
<1>1. uploads' \in [Uploads -> Sessions]
  <2>1. CASE UpdateSession(job[r].upload, Ended(job[r].upload, job[r].next))
    BY <2>1, WrittenRows, LocalsType, UpdateType
  <2>2. CASE UpdateSession(job[r].upload, CompletedWith(job[r].upload, job[r].file))
    BY <2>2, WrittenRows, LocalsType, UpdateType
  <2>3. CASE UNCHANGED uploads
    BY <2>3 DEF TypeOK
  <2> QED
    BY <2>1, <2>2, <2>3 DEF Terminalize, DedupFind, ReuseWinner
<1>2. CASE Terminalize(r) \/ ReuseWinner(r)
  <2>1. pc' \in [Requests -> Steps] /\ job' \in [Requests -> Jobs]
    BY <1>2, CompletionLocals, CompletionStepsType DEF Terminalize, ReuseWinner
  <2> QED
    BY <1>1, <1>2, <2>1 DEF TypeOK, Terminalize, ReuseWinner, bucket
<1>3. CASE DedupFind(r)
  <2>1. files' \in [Uploads -> FileRows]
    BY <1>3, FileType DEF DedupFind
  <2>2. pc' \in [Requests -> Steps] /\ job' \in [Requests -> Jobs]
    <3>1. ASSUME NEW f \in FilesOf(job[r].content), Goto(r, "reuse"),
                 Local(r, [job[r] EXCEPT !.file = f])
          PROVE  pc' \in [Requests -> Steps] /\ job' \in [Requests -> Jobs]
      <4>1. [job[r] EXCEPT !.file = f] \in Jobs
        BY <3>1, LocalsType DEF Jobs, FilesOf
      <4> QED
        BY <3>1, <4>1, GotoType, CompletionStepsType DEF TypeOK, Local
    <3>2. CASE Quit(r) \/ Fail(r, "terminalize", FALSE, "Aborted")
      BY <3>2, CompletionLocals, CompletionStepsType
    <3> QED
      BY <1>3, <3>1, <3>2 DEF DedupFind
  <2> QED
    BY <1>1, <1>3, <2>1, <2>2 DEF TypeOK, DedupFind, bucket
<1> QED
  BY <1>2, <1>3

LEMMA HandleType ==
  ASSUME TypeOK, RequestsNamed, NEW r \in Requests, Handle(r)
  PROVE  TypeOK'
BY InitiateType, RegisterType, LockType, ObjectsType, InsertType, CleanupType, OutcomeType
   DEF Handle

LEMMA CancelType ==
  ASSUME TypeOK, NEW r \in Requests, Cancel(r)
  PROVE  TypeOK'
BY QuitType DEF TypeOK, Cancel, bucket

LEMMA SweepTypes ==
  ASSUME TypeOK, NEW p \in Sweepers
  PROVE  /\ sweep[p] \in Sweeps /\ sweep[p].at \in Nat
         /\ sweep[p].soft \subseteq Uploads /\ sweep[p].stale \subseteq Uploads
         /\ sweep[p].keyed \subseteq Uploads /\ sweep[p].hard \subseteq Uploads
         /\ NoSweep \in Sweeps
         /\ \A u : Without(p, u) \in Sweeps
BY DEF TypeOK, Sweeps, NoSweep, Without

LEMMA SweepSessionType ==
  ASSUME TypeOK, NEW p \in Sweepers, NEW u \in Uploads, NEW row \in Sessions,
         SweepSession(p, u, row)
  PROVE  /\ uploads' \in [Uploads -> Sessions]
         /\ \A v \in Uploads : uploads'[v].status # uploads[v].status =>
              v = u /\ HasRow(v) /\ uploads'[v].status = row.status
<1>1. [row EXCEPT !.updatedAt = sweep[p].at] \in Sessions
  BY SweepTypes DEF Sessions
<1>2. [row EXCEPT !.updatedAt = sweep[p].at].status = row.status
  BY DEF Sessions
<1> QED
  BY <1>1, <1>2 DEF TypeOK, SweepSession

LEMMA SweepType ==
  ASSUME TypeOK, NEW p \in Sweepers, Sweep(p) \/ CancelSweep(p)
  PROVE  TypeOK'
<1>1. CASE SweepSelect(p)
  <2>1. [at |-> now, soft |-> SoftTargets, stale |-> StaleTargets,
         keyed |-> {u \in StaleTargets : uploads[u].hashed}, hard |-> HardTargets, swept |-> Nil]
          \in Sweeps
    BY DEF TypeOK, Sweeps, SoftTargets, StaleTargets, HardTargets
  <2> QED
    BY <1>1, <2>1 DEF TypeOK, SweepSelect, bucket
<1>2. CASE SoftObjects(p)
  <2>1. \A u \in Uploads : [sweep[p] EXCEPT !.swept = u] \in Sweeps
    BY SweepTypes DEF Sweeps
  <2>2. PICK u \in sweep[p].soft : DiscardStaged(u, TRUE) /\ sweep' = [sweep EXCEPT ![p].swept = u]
    BY <1>2 DEF SoftObjects
  <2> QED
    BY <1>2, <2>1, <2>2, DiscardType, SweepTypes DEF TypeOK, SoftObjects
<1>3. CASE SoftRow(p)
  <2>1. ASSUME NEW u \in Uploads
        PROVE  [uploads[u] EXCEPT !.status = "Expired", !.s3 = FALSE, !.reason = "ttl_purged",
                                  !.expiredAt = sweep[p].at] \in Sessions
    <3>1. uploads[u] \in Sessions /\ sweep[p].at \in Nat /\ FALSE \in BOOLEAN
      BY SweepTypes, RowTypes
    <3> QED
      BY <3>1 DEF Sessions, Over, Reasons
  <2>2. uploads' \in [Uploads -> Sessions]
    BY <1>3, <2>1, SweepTypes, SweepSessionType DEF TypeOK, SoftRow
  <2>3. sweep' \in [Sweepers -> Sweeps]
    BY <1>3, SweepTypes DEF TypeOK, SoftRow, Drop
  <2> QED
    BY <1>3, <2>2, <2>3 DEF TypeOK, SoftRow, bucket
<1>4. CASE StaleObjects(p)
  <2>1. \A u \in Uploads : [sweep[p] EXCEPT !.swept = u] \in Sweeps
    BY SweepTypes DEF Sweeps
  <2>2. PICK u \in sweep[p].stale :
          /\ IF u \in sweep[p].keyed THEN CleanupBoth(u)
             ELSE BestEffort(temp, temp', {u}) /\ UNCHANGED final
          /\ sweep' = [sweep EXCEPT ![p].swept = u]
    BY <1>4 DEF StaleObjects
  <2>3. temp' \subseteq Uploads /\ final' \subseteq Uploads
    BY <2>2, CleanupBothType, BucketType DEF TypeOK
  <2> QED
    BY <1>4, <2>1, <2>2, <2>3, SweepTypes DEF TypeOK, StaleObjects
<1>5. CASE StaleRow(p)
  <2>1. uploads' \in [Uploads -> Sessions]
    BY <1>5, WrittenRows, SweepTypes, SweepSessionType DEF TypeOK, StaleRow, AbortStale
  <2>2. sweep' \in [Sweepers -> Sweeps]
    BY <1>5, SweepTypes DEF TypeOK, StaleRow, Drop
  <2> QED
    BY <1>5, <2>1, <2>2 DEF TypeOK, StaleRow, bucket
<1>6. CASE HardDelete(p)
  <2>1. NoSession \in Sessions
    BY MultipartConstants DEF NoSession, Sessions, Reasons
  <2>2. uploads' \in [Uploads -> Sessions] /\ parts' \in [Uploads -> SUBSET Parts]
    BY <1>6, <2>1 DEF TypeOK, HardDelete
  <2>3. sweep' \in [Sweepers -> Sweeps]
    BY <1>6, SweepTypes DEF TypeOK, HardDelete, Drop
  <2> QED
    BY <1>6, <2>2, <2>3 DEF TypeOK, HardDelete, bucket
<1>7. CASE CancelSweep(p)
  BY <1>7, SweepTypes DEF TypeOK, CancelSweep, bucket
<1> QED
  BY <1>1, <1>2, <1>3, <1>4, <1>5, <1>6, <1>7 DEF Sweep

LEMMA EnvironmentType ==
  ASSUME TypeOK, Environment \/ Tick
  PROVE  TypeOK'
<1>1. ASSUME NEW f \in Uploads, DeleteFile(f) \/ ExpireFile(f) \/ PurgeFile(f)
      PROVE  TypeOK'
  <2>1. files' \in [Uploads -> FileRows]
    BY <1>1, FileType DEF DeleteFile, ExpireFile, PurgeFile
  <2> QED
    BY <1>1, <2>1 DEF TypeOK, DeleteFile, ExpireFile, PurgeFile, bucket
<1>2. CASE Tick
  BY <1>2 DEF TypeOK, Tick, bucket
<1> QED
  BY <1>1, <1>2 DEF Environment

LEMMA TypeStep ==
  ASSUME TypeOK, RequestsNamed, [Next]_vars
  PROVE  TypeOK'
<1>1. CASE UNCHANGED vars
  BY <1>1 DEF TypeOK, vars
<1>2. CASE Next
  BY <1>2, StartType, HandleType, CancelType, SweepType, EnvironmentType DEF Next
<1> QED
  BY <1>1, <1>2

LEMMA TypeInit == Init => TypeOK
<1> SUFFICES ASSUME Init PROVE TypeOK
  OBVIOUS
<1>1. NoSession \in Sessions /\ NoFile \in FileRows /\ NoSweep \in Sweeps
  BY MultipartConstants DEF NoSession, Sessions, Reasons, NoFile, FileRows, NoSweep, Sweeps
<1> QED
  BY <1>1, NoJobType DEF Init, TypeOK, Steps

----------------------------------------------------------------------------
(* Exclusion *)

\* What every step does that matters to Exclusion; r takes it, or is no request.
OnlyMoves(r) ==
  /\ \A s \in Requests : s # r => pc'[s] = pc[s] /\ job'[s] = job[s]
  /\ minted \subseteq minted'

\* A row appears where r persists it, becomes active there only, and becomes completed
\* where r completes it.
StatusMoves(r) ==
  \A v \in Uploads :
    /\ uploads'[v].status \in Active =>
         IsActive(v) \/ (r \in Requests /\ pc[r] = "persist" /\ job[r].upload = v)
    /\ uploads'[v].status # "none" =>
         HasRow(v) \/ (r \in Requests /\ pc[r] = "persist" /\ job[r].upload = v /\ pc'[r] # "persist")
    /\ uploads'[v].status = "Completed" =>
         \/ uploads[v].status = "Completed"
         \/ /\ r \in Requests /\ pc[r] \in LockedSteps /\ job[r].upload = v
            /\ pc'[r] \notin LockedSteps \ {"finish"} \/ "lost_commit" \in Faults

\* How r comes to persist a session, to hold one, or to register a part.
LocalMoves(r) ==
  /\ pc'[r] = "register_write" =>
       (pc[r] = "register_write" /\ job'[r] = job[r])
         \/ (job'[r].upload \in Uploads /\ job'[r].part \in Parts)
  /\ pc'[r] = "lock" => (pc[r] = "lock" /\ job'[r] = job[r]) \/ job'[r].upload \in Uploads
  /\ pc'[r] = "persist" =>
       \/ pc[r] = "persist" /\ job'[r] = job[r]
       \/ job'[r].upload \in Uploads /\ job'[r].upload \in minted' /\ job'[r].upload \notin minted
  /\ pc'[r] \in LockedSteps =>
       \/ /\ pc[r] \in LockedSteps /\ job'[r].upload = job[r].upload
          /\ pc[r] = "finish" => pc'[r] = "finish"
       \/ /\ job'[r].upload \in Uploads /\ IsActive(job'[r].upload)
          /\ uploads'[job'[r].upload].status = "Completing"

Moves(r) == OnlyMoves(r) /\ StatusMoves(r) /\ LocalMoves(r)

LEMMA StatusSets ==
  /\ "none" \notin Active /\ "Completed" \notin Active /\ "Completing" \notin Active
  /\ "Aborted" \notin Active /\ "Expired" \notin Active
  /\ {"persist", "register_write", "lock"} \cap LockedSteps = {}
BY DEF Active, LockedSteps

LEMMA PersistIsFreshStep ==
  ASSUME Inv, NEW r, OnlyMoves(r), StatusMoves(r), LocalMoves(r)
  PROVE  PersistIsFresh'
<1> USE StatusSets
<1> SUFFICES ASSUME NEW q \in Requests, pc'[q] = "persist"
             PROVE  /\ job'[q].upload \in Uploads /\ job'[q].upload \in minted'
                    /\ uploads'[job'[q].upload].status = "none"
                    /\ \A s \in Requests :
                         /\ pc'[s] = "persist" /\ job'[s].upload = job'[q].upload => s = q
                         /\ pc'[s] \in LockedSteps => job'[s].upload # job'[q].upload
  BY DEF PersistIsFresh, HasRow
<1> DEFINE u == job'[q].upload
<1>1. \/ pc[q] = "persist" /\ job[q].upload = u
      \/ q = r /\ u \in Uploads /\ u \in minted' /\ u \notin minted
  BY DEF OnlyMoves, LocalMoves
<1>2. u \in Uploads /\ u \in minted' /\ ~HasRow(u)
  BY <1>1 DEF Inv, Exclusion, RowsAreMinted, PersistIsFresh, OnlyMoves
<1>3. uploads'[u].status = "none"
  <2> SUFFICES ASSUME uploads'[u].status # "none" PROVE FALSE
    OBVIOUS
  <2>1. r \in Requests /\ pc[r] = "persist" /\ job[r].upload = u /\ pc'[r] # "persist"
    BY <1>2 DEF StatusMoves
  <2>2. pc[q] # "persist" \/ job[q].upload # u \/ q = r
    BY <2>1 DEF Inv, Exclusion, PersistIsFresh
  <2> QED
    BY <1>1, <2>1, <2>2
<1>4. ASSUME NEW s \in Requests, pc'[s] = "persist", job'[s].upload = u
      PROVE  s = q
  <2>1. \/ pc[s] = "persist" /\ job[s].upload = u
        \/ s = r /\ u \notin minted
    BY <1>4 DEF OnlyMoves, LocalMoves
  <2> QED
    BY <1>1, <2>1 DEF Inv, Exclusion, PersistIsFresh
<1>5. ASSUME NEW s \in Requests, pc'[s] \in LockedSteps
      PROVE  job'[s].upload # u
  <2>1. CASE pc[s] \in LockedSteps /\ job'[s].upload = job[s].upload
    BY <1>1, <2>1 DEF Inv, Exclusion, PersistIsFresh, WorkingHolds
  <2>2. CASE IsActive(job'[s].upload)
    BY <1>2, <2>2 DEF HasRow, IsActive
  <2> QED
    BY <1>5, <2>1, <2>2 DEF OnlyMoves, LocalMoves
<1> QED
  BY <1>2, <1>3, <1>4, <1>5

LEMMA WorkingHoldsStep ==
  ASSUME Inv, NEW r, OnlyMoves(r), StatusMoves(r), LocalMoves(r)
  PROVE  WorkingHolds'
<1> USE StatusSets
<1> SUFFICES ASSUME NEW q \in Requests, pc'[q] \in LockedSteps
             PROVE  /\ job'[q].upload \in Uploads /\ job'[q].upload \in minted'
                    /\ uploads'[job'[q].upload].status \notin Active
                    /\ \A s \in Requests :
                         pc'[s] \in LockedSteps /\ job'[s].upload = job'[q].upload => s = q
  BY DEF WorkingHolds, IsActive
<1> DEFINE Kept(s) == pc[s] \in LockedSteps /\ job'[s].upload = job[s].upload
           Took(s) == /\ s = r /\ job'[s].upload \in Uploads /\ IsActive(job'[s].upload)
                      /\ uploads'[job'[s].upload].status = "Completing"
<1>1. \A s \in Requests : pc'[s] \in LockedSteps => Kept(s) \/ Took(s)
  BY DEF OnlyMoves, LocalMoves
<1>2. \A s \in Requests : Kept(s) =>
        job'[s].upload \in Uploads /\ job'[s].upload \in minted /\ ~IsActive(job'[s].upload)
  BY DEF Inv, Exclusion, WorkingHolds
<1>3. \A s \in Requests : Took(s) => job'[s].upload \in minted
  BY DEF Inv, Exclusion, RowsAreMinted, HasRow, IsActive
<1>4. job'[q].upload \in Uploads /\ job'[q].upload \in minted'
  BY <1>1, <1>2, <1>3 DEF OnlyMoves
<1>5. uploads'[job'[q].upload].status \notin Active
  <2>1. CASE Kept(q)
    <3>1. ~(r \in Requests /\ pc[r] = "persist" /\ job[r].upload = job[q].upload)
      BY <2>1 DEF Inv, Exclusion, PersistIsFresh
    <3> QED
      BY <1>2, <2>1, <3>1 DEF StatusMoves
  <2>2. CASE Took(q)
    BY <2>2
  <2> QED
    BY <1>1, <2>1, <2>2
<1>6. ASSUME NEW s \in Requests, pc'[s] \in LockedSteps, job'[s].upload = job'[q].upload
      PROVE  s = q
  <2>1. CASE Kept(s) /\ Kept(q)
    BY <1>6, <2>1 DEF Inv, Exclusion, WorkingHolds
  <2>2. CASE Took(s) /\ Took(q)
    BY <2>2
  <2>3. ~(Kept(s) /\ Took(q)) /\ ~(Took(s) /\ Kept(q))
    BY <1>2, <1>6
  <2> QED
    BY <1>1, <1>6, <2>1, <2>2, <2>3
<1> QED
  BY <1>4, <1>5, <1>6

LEMMA NotYetCompletedStep ==
  ASSUME Inv, NEW r, OnlyMoves(r), StatusMoves(r), LocalMoves(r)
  PROVE  NotYetCompleted'
<1> SUFFICES ASSUME "lost_commit" \notin Faults, NEW q \in Requests,
                    pc'[q] \in LockedSteps \ {"finish"},
                    uploads'[job'[q].upload].status = "Completed"
             PROVE  FALSE
  BY DEF NotYetCompleted
<1> DEFINE u == job'[q].upload
<1>1. pc[q] \in LockedSteps \ {"finish"} /\ job[q].upload = u
  BY DEF OnlyMoves, LocalMoves
<1>2. u \in Uploads /\ uploads[u].status # "Completed"
  BY <1>1 DEF Inv, Exclusion, WorkingHolds, NotYetCompleted
<1>3. r \in Requests /\ pc[r] \in LockedSteps /\ job[r].upload = u
      /\ pc'[r] \notin LockedSteps \ {"finish"}
  BY <1>2 DEF StatusMoves
<1>4. r = q
  BY <1>1, <1>3 DEF Inv, Exclusion, WorkingHolds
<1> QED
  BY <1>3, <1>4

LEMMA ExclusionStep ==
  ASSUME Inv, NEW r, Moves(r)
  PROVE  Exclusion'
<1> USE DEF Moves
<1>1. RequestsNamed'
  BY DEF Inv, Exclusion, RequestsNamed, OnlyMoves, LocalMoves
<1>2. RowsAreMinted'
  BY DEF Inv, Exclusion, RowsAreMinted, PersistIsFresh, HasRow, OnlyMoves, StatusMoves
<1> QED
  BY <1>1, <1>2, PersistIsFreshStep, WorkingHoldsStep, NotYetCompletedStep DEF Exclusion

LEMMA MovesAre ==
  ASSUME TypeOK, NEW r \in Requests
  PROVE  /\ \A s : Goto(r, s) => pc'[r] = s
         /\ \A j : Local(r, j) => job'[r] = j
         /\ Quit(r) => pc'[r] = "idle"
         /\ \A s, copied, status : Fail(r, s, copied, status) =>
              pc'[r] = s /\ job'[r].upload = job[r].upload
<1>1. job[r] \in Jobs
  BY DEF TypeOK
<1>2. \A copied, status : [job[r] EXCEPT !.copied = copied, !.next = status].upload = job[r].upload
  BY <1>1 DEF Jobs
<1>3. \A s : Goto(r, s) => pc'[r] = s
  BY DEF TypeOK, Goto
<1>4. \A j : Local(r, j) => job'[r] = j
  BY DEF TypeOK, Local
<1>5. ASSUME NEW s, NEW copied, NEW status, Fail(r, s, copied, status)
      PROVE  pc'[r] = s /\ job'[r].upload = job[r].upload
  <2>1. job'[r] = [job[r] EXCEPT !.copied = copied, !.next = status]
    BY <1>5 DEF TypeOK, Fail, Local
  <2> QED
    BY <1>2, <1>3, <1>5, <2>1 DEF Fail
<1>6. Quit(r) => pc'[r] = "idle"
  BY <1>3 DEF Quit
<1> QED
  BY <1>3, <1>4, <1>5, <1>6

LEMMA OnlyMovesBy ==
  ASSUME TypeOK, NEW r \in Requests, minted \subseteq minted',
         UNCHANGED pc \/ Quit(r) \/ (\E s : Goto(r, s)) \/ (\E s, c, t : Fail(r, s, c, t)),
         UNCHANGED job \/ Quit(r) \/ (\E j : Local(r, j)) \/ (\E s, c, t : Fail(r, s, c, t))
  PROVE  OnlyMoves(r)
BY DEF TypeOK, OnlyMoves, Goto, Local, Quit, Fail

\* An UPDATE that activates no session, and completes one only at the end of its
\* completion.
LEMMA UpdateMoves ==
  ASSUME TypeOK, NEW r \in Requests, NEW u, NEW row, u \in Uploads => row \in Sessions,
         UpdateSession(u, row),
         u \in Uploads /\ row.status \in Active => IsActive(u),
         u \in Uploads /\ row.status = "Completed" =>
           \/ uploads[u].status = "Completed"
           \/ /\ pc[r] \in LockedSteps /\ job[r].upload = u
              /\ pc'[r] \notin LockedSteps \ {"finish"} \/ "lost_commit" \in Faults
  PROVE  StatusMoves(r)
<1>1. \A v \in Uploads :
        /\ uploads'[v].status # uploads[v].status => v = u /\ uploads'[v].status = row.status
        /\ ~HasRow(v) => uploads'[v] = uploads[v]
  BY UpdateEffect
<1>2. "none" \notin Active
  BY StatusSets
<1> QED
  BY <1>1, <1>2 DEF StatusMoves, IsActive, HasRow

LEMMA SameStatusMoves ==
  ASSUME NEW r, UNCHANGED uploads
  PROVE  StatusMoves(r)
BY DEF StatusMoves, IsActive, HasRow

\* A handler that returns holds and registers nothing any more.
LEMMA IdleMoves ==
  ASSUME NEW r, pc'[r] \notin {"register_write", "lock", "persist"} \cup LockedSteps
  PROVE  LocalMoves(r)
BY DEF LocalMoves

\* A completion that goes on with its session.
LEMMA HolderMoves ==
  ASSUME NEW r, pc[r] \in LockedSteps \ {"finish"}, job'[r].upload = job[r].upload,
         pc'[r] \in LockedSteps
  PROVE  LocalMoves(r)
BY StatusSets DEF LocalMoves

LEMMA StartMoves ==
  ASSUME Inv, NEW r \in Requests, Start(r)
  PROVE  Moves(r)
<1> USE StatusSets
<1>0. TypeOK
  BY DEF Inv
<1>1. ASSUME NEW u \in Uploads, NEW c \in Contents, NEW declared \in BOOLEAN,
             CreateMultipart(r, u, c, declared)
      PROVE  Moves(r)
  <2>1. OnlyMoves(r) /\ StatusMoves(r)
    BY <1>0, <1>1, OnlyMovesBy, SameStatusMoves DEF CreateMultipart
  <2>2. LocalMoves(r)
    <3>1. CASE UNCHANGED <<pc, job>>
      BY <1>1, <3>1, IdleMoves DEF CreateMultipart, LockedSteps
    <3>2. CASE Goto(r, "persist") /\ Local(r, [NoJob EXCEPT !.upload = u, !.content = c, !.hashed = declared])
      <4>1. pc'[r] = "persist" /\ job'[r].upload = u
        BY <1>0, <3>2, MovesAre DEF NoJob
      <4>2. u \in minted' /\ u \notin minted
        BY <1>1 DEF CreateMultipart
      <4> QED
        BY <4>1, <4>2 DEF LocalMoves
    <3> QED
      BY <1>1, <3>1, <3>2 DEF CreateMultipart
  <2> QED
    BY <2>1, <2>2 DEF Moves
<1>2. ASSUME NEW u \in Uploads, NEW n \in Parts, RegisterPart(r, u, n)
      PROVE  Moves(r)
  <2>1. OnlyMoves(r) /\ StatusMoves(r)
    BY <1>0, <1>2, OnlyMovesBy, SameStatusMoves DEF RegisterPart
  <2>2. pc'[r] = "register_write" /\ job'[r].upload = u /\ job'[r].part = n
    BY <1>0, <1>2, MovesAre DEF RegisterPart, NoJob
  <2>3. LocalMoves(r)
    BY <2>2 DEF LocalMoves
  <2> QED
    BY <2>1, <2>3 DEF Moves
<1>3. ASSUME NEW u \in Uploads, CompleteRead(r, u)
      PROVE  Moves(r)
  <2>1. OnlyMoves(r) /\ StatusMoves(r)
    BY <1>0, <1>3, OnlyMovesBy, SameStatusMoves DEF CompleteRead
  <2>2. pc'[r] \in {"lock", "busy"} /\ job'[r].upload = u
    BY <1>0, <1>3, MovesAre DEF CompleteRead, NoJob
  <2>3. LocalMoves(r)
    BY <2>2 DEF LocalMoves, LockedSteps
  <2> QED
    BY <2>1, <2>3 DEF Moves
<1>4. ASSUME NEW u \in Uploads, AbortUpload(r, u)
      PROVE  Moves(r)
  <2>1. OnlyMoves(r)
    BY <1>0, <1>4, OnlyMovesBy DEF AbortUpload
  <2>2. StatusMoves(r)
    BY <1>0, <1>4, WrittenRows, UpdateMoves DEF AbortUpload
  <2>3. pc'[r] \in {"abort_cleanup", "idle"}
    <3>1. pc[r] = "idle" /\ (UNCHANGED pc \/ Goto(r, "abort_cleanup"))
      BY <1>4 DEF AbortUpload
    <3> QED
      BY <1>0, <3>1, MovesAre
  <2>4. LocalMoves(r)
    BY <2>3, IdleMoves DEF LockedSteps
  <2> QED
    BY <2>1, <2>2, <2>4 DEF Moves
<1> QED
  BY <1>1, <1>2, <1>3, <1>4 DEF Start

LEMMA ReturnMoves ==
  ASSUME Inv, NEW r \in Requests, Quit(r), UNCHANGED minted, StatusMoves(r)
  PROVE  Moves(r)
<1>1. OnlyMoves(r) /\ pc'[r] = "idle"
  BY OnlyMovesBy, MovesAre DEF Inv
<1>2. LocalMoves(r)
  BY <1>1, IdleMoves DEF LockedSteps
<1> QED
  BY <1>1, <1>2 DEF Moves

LEMMA InitiateMoves ==
  ASSUME Inv, NEW r \in Requests, PersistUpload(r) \/ AbortInitiated(r)
  PROVE  Moves(r)
<1> USE StatusSets
<1>0. TypeOK
  BY DEF Inv
<1>1. CASE AbortInitiated(r)
  BY <1>1, SameStatusMoves, ReturnMoves DEF AbortInitiated
<1>2. CASE PersistUpload(r)
  <2>1. pc[r] = "persist" /\ OnlyMoves(r)
    BY <1>0, <1>2, OnlyMovesBy DEF PersistUpload
  <2>2. pc'[r] \in {"idle", "abort_initiated"}
    BY <1>0, <1>2, MovesAre DEF PersistUpload
  <2>3. LocalMoves(r)
    BY <2>2, IdleMoves DEF LockedSteps
  <2>4. StatusMoves(r)
    <3>1. CASE UNCHANGED uploads
      BY <3>1, SameStatusMoves
    <3>2. CASE InsertSession(r)
      <4>1. \A v \in Uploads : v # job[r].upload => uploads'[v] = uploads[v]
        BY <1>0, <3>2 DEF TypeOK, InsertSession
      <4>2. job[r].upload \in Uploads => uploads'[job[r].upload].status = "Initiated"
        BY <1>0, <3>2 DEF TypeOK, InsertSession, NoSession
      <4> QED
        BY <2>1, <2>2, <4>1, <4>2 DEF StatusMoves, IsActive, HasRow
    <3> QED
      BY <1>2, <3>1, <3>2 DEF PersistUpload
  <2> QED
    BY <2>1, <2>3, <2>4 DEF Moves
<1> QED
  BY <1>1, <1>2

LEMMA LockMoves ==
  ASSUME Inv, NEW r \in Requests, RegisterCommit(r) \/ CompleteLock(r)
  PROVE  Moves(r)
<1> USE StatusSets
<1> DEFINE u == job[r].upload
<1>0. TypeOK
  BY DEF Inv
<1>1. CASE RegisterCommit(r)
  <2>1. [uploads[u] EXCEPT !.status = "InProgress", !.received = job[r].count].status = "InProgress"
        /\ u \in Uploads
    BY <1>0, <1>1, RowTypes DEF Inv, Exclusion, RequestsNamed, RegisterCommit, Sessions
  <2>2. [uploads[u] EXCEPT !.status = "InProgress", !.received = job[r].count] \in Sessions
    BY <1>0, <2>1, RowTypes, LocalsType DEF Sessions, Active
  <2>3. StatusMoves(r)
    BY <1>0, <1>1, <2>1, <2>2, UpdateMoves, SameStatusMoves DEF RegisterCommit, RegisterGuard
  <2> QED
    BY <1>1, <2>3, ReturnMoves DEF RegisterCommit
<1>2. CASE CompleteLock(r)
  <2>1. u \in Uploads => /\ [uploads[u] EXCEPT !.status = "Completing"] \in Sessions
                         /\ [uploads[u] EXCEPT !.status = "Completing"].status = "Completing"
    BY <1>0, RowTypes DEF Sessions
  <2>2. StatusMoves(r)
    BY <1>0, <1>2, <2>1, UpdateMoves, SameStatusMoves DEF CompleteLock
  <2>3. CASE Quit(r)
    BY <1>2, <2>2, <2>3, ReturnMoves DEF CompleteLock
  <2>4. CASE /\ LockGuard(u) /\ UpdateSession(u, [uploads[u] EXCEPT !.status = "Completing"])
             /\ job[r].s3 /\ Goto(r, "store") /\ Local(r, [job[r] EXCEPT !.at = now])
    <3>1. OnlyMoves(r)
      BY <1>0, <1>2, <2>4, OnlyMovesBy DEF CompleteLock
    <3>2. pc'[r] = "store" /\ job'[r].upload = u
      BY <1>0, <2>4, MovesAre, LocalsType DEF Jobs
    <3>3. u \in Uploads /\ IsActive(u)
      BY <1>2, <2>4 DEF CompleteLock, LockGuard, Inv, Exclusion, RequestsNamed
    <3>4. uploads'[u].status = "Completing"
      <4>1. HasRow(u)
        BY <3>3 DEF IsActive, HasRow
      <4> DEFINE row == [uploads[u] EXCEPT !.status = "Completing"]
      <4>2. row \in Sessions /\ row.status = "Completing" /\ UpdateSession(u, row)
        BY <2>1, <2>4, <3>3
      <4> HIDE DEF row
      <4>3. uploads'[u].status = row.status
        BY <1>0, <3>3, <4>1, <4>2, UpdateEffect
      <4> QED
        BY <4>2, <4>3
    <3>5. LocalMoves(r)
      BY <3>2, <3>3, <3>4 DEF LocalMoves, IsActive
    <3> QED
      BY <2>2, <3>1, <3>5 DEF Moves
  <2> QED
    BY <1>2, <2>3, <2>4 DEF CompleteLock
<1> QED
  BY <1>1, <1>2

\* A step of a completion: it goes on with its session, fails or returns.
LEMMA CompletionMoves ==
  ASSUME Inv, NEW r \in Requests, pc[r] \in LockedSteps \ {"finish"}, UNCHANGED minted,
         \/ Quit(r)
         \/ \E s \in LockedSteps : Goto(r, s) /\ UNCHANGED job
         \/ \E s \in LockedSteps : \E c, t : Fail(r, s, c, t),
         StatusMoves(r)
  PROVE  Moves(r)
<1>1. TypeOK
  BY DEF Inv
<1>2. CASE Quit(r)
  BY <1>2, ReturnMoves
<1>3. ASSUME NEW s \in LockedSteps, Goto(r, s), UNCHANGED job
      PROVE  Moves(r)
  <2>1. OnlyMoves(r) /\ pc'[r] = s /\ job'[r] = job[r]
    BY <1>1, <1>3, OnlyMovesBy, MovesAre
  <2> QED
    BY <2>1, HolderMoves DEF Moves
<1>4. ASSUME NEW s \in LockedSteps, NEW c, NEW t, Fail(r, s, c, t)
      PROVE  Moves(r)
  <2>1. pc'[r] = s /\ job'[r].upload = job[r].upload
    BY <1>1, <1>4, MovesAre
  <2>2. OnlyMoves(r)
    BY <1>1, <1>4, OnlyMovesBy
  <2> QED
    BY <2>1, <2>2, HolderMoves DEF Moves
<1> QED
  BY <1>2, <1>3, <1>4

LEMMA LockedStepsAre ==
  {"store", "verify", "copy", "insert", "cleanup", "terminalize", "dedup_cleanup", "dedup_find",
   "reuse", "finish"} = LockedSteps
BY DEF LockedSteps

LEMMA ObjectsMoves ==
  ASSUME Inv, NEW r \in Requests,
         StoreMultipart(r) \/ VerifyObject(r) \/ CopyObject(r) \/ CleanupFailure(r)
           \/ DedupCleanup(r) \/ InsertFails(r) \/ InsertConflict(r)
  PROVE  Moves(r)
<1> DEFINE u == job[r].upload
<1>0. TypeOK
  BY DEF Inv
<1>1. CASE VerifyObject(r)
  <2>1. StatusMoves(r)
    <3>1. CASE UNCHANGED uploads
      BY <3>1, SameStatusMoves
    <3>2. CASE UpdateSession(u, [uploads[u] EXCEPT !.hashed = TRUE])
      <4> DEFINE row == [uploads[u] EXCEPT !.hashed = TRUE]
      <4>1. u \in Uploads => row \in Sessions /\ row.status = uploads[u].status
        BY <1>0, RowTypes DEF Sessions
      <4>2. UpdateSession(u, row)
        BY <3>2
      <4> HIDE DEF row
      <4> QED
        BY <1>0, <4>1, <4>2, UpdateMoves DEF IsActive
    <3> QED
      BY <1>1, <3>1, <3>2 DEF VerifyObject
  <2> QED
    BY <1>1, <2>1, LockedStepsAre, CompletionMoves DEF VerifyObject
<1>2. CASE StoreMultipart(r) \/ CopyObject(r) \/ CleanupFailure(r)
  BY <1>2, SameStatusMoves, LockedStepsAre, CompletionMoves
     DEF StoreMultipart, CopyObject, CleanupFailure
<1>3. CASE DedupCleanup(r) \/ InsertFails(r) \/ InsertConflict(r)
  BY <1>3, SameStatusMoves, LockedStepsAre, CompletionMoves
     DEF DedupCleanup, InsertFails, InsertConflict
<1> QED
  BY <1>1, <1>2, <1>3

\* The two ways a session is completed.
LEMMA CompletedMoves ==
  ASSUME TypeOK, NEW r \in Requests, pc[r] \in LockedSteps, NEW f \in Uploads \cup {Nil},
         UpdateSession(job[r].upload, CompletedWith(job[r].upload, f)),
         pc'[r] = "finish" \/ "lost_commit" \in Faults
  PROVE  StatusMoves(r)
<1> DEFINE u == job[r].upload
           row == CompletedWith(u, f)
<1>1. u \in Uploads => row \in Sessions /\ row.status = "Completed"
  BY WrittenRows
<1>2. UpdateSession(u, row)
  OBVIOUS
<1> HIDE DEF row
<1> QED
  BY <1>1, <1>2, StatusSets, UpdateMoves

LEMMA InsertMoves ==
  ASSUME Inv, NEW r \in Requests, InsertFile(r) \/ ReuseWinner(r)
  PROVE  Moves(r)
<1>0. TypeOK /\ job[r].file \in Uploads \cup {Nil}
  BY LocalsType DEF Inv
<1>1. CASE InsertFile(r)
  <2>1. pc[r] = "insert" /\ job[r].upload \in Uploads
    BY <1>1, LockedStepsAre DEF Inv, Exclusion, WorkingHolds, InsertFile
  <2>2. pc'[r] = "finish" \/ "lost_commit" \in Faults
    BY <1>0, <1>1, MovesAre DEF InsertFile
  <2>3. StatusMoves(r)
    BY <1>0, <1>1, <2>1, <2>2, LockedStepsAre, CompletedMoves DEF InsertFile
  <2> QED
    BY <1>1, <2>1, <2>3, LockedStepsAre, CompletionMoves DEF InsertFile
<1>2. CASE ReuseWinner(r)
  <2>1. StatusMoves(r)
    <3>1. CASE UNCHANGED uploads
      BY <3>1, SameStatusMoves
    <3>2. CASE /\ UpdateSession(job[r].upload, CompletedWith(job[r].upload, job[r].file))
               /\ \/ Goto(r, "finish") /\ UNCHANGED job
                  \/ "lost_commit" \in Faults /\ Fail(r, "terminalize", FALSE, "Aborted")
      <4>1. pc'[r] = "finish" \/ "lost_commit" \in Faults
        BY <1>0, <3>2, MovesAre
      <4>2. pc[r] = "reuse"
        BY <1>2 DEF ReuseWinner
      <4> QED
        BY <1>0, <3>2, <4>1, <4>2, LockedStepsAre, CompletedMoves
    <3> QED
      BY <1>2, <3>1, <3>2 DEF ReuseWinner
  <2> QED
    BY <1>2, <2>1, LockedStepsAre, CompletionMoves DEF ReuseWinner
<1> QED
  BY <1>1, <1>2

LEMMA OutcomeMoves ==
  ASSUME Inv, NEW r \in Requests, Terminalize(r) \/ DedupFind(r)
  PROVE  Moves(r)
<1>0. TypeOK /\ job[r].next \in {"Aborted", "Completing", "Retryable"} /\ job[r] \in Jobs
  BY LocalsType DEF Inv
<1>1. CASE Terminalize(r)
  <2>1. StatusMoves(r)
    <3>1. CASE UNCHANGED uploads
      BY <3>1, SameStatusMoves
    <3>2. CASE UpdateSession(job[r].upload, Ended(job[r].upload, job[r].next))
      <4> DEFINE u == job[r].upload
                 row == Ended(u, job[r].next)
      <4>1. u \in Uploads => row \in Sessions /\ row.status \in {"Aborted", "Completing"}
        BY <1>0, WrittenRows
      <4>2. UpdateSession(u, row)
        BY <3>2
      <4> HIDE DEF row
      <4> QED
        BY <1>0, <4>1, <4>2, StatusSets, UpdateMoves
    <3> QED
      BY <1>1, <3>1, <3>2 DEF Terminalize
  <2> QED
    BY <1>1, <2>1, ReturnMoves DEF Terminalize
<1>2. CASE DedupFind(r)
  <2>1. StatusMoves(r) /\ pc[r] = "dedup_find"
    BY <1>2, SameStatusMoves DEF DedupFind
  <2>2. ASSUME NEW f, Goto(r, "reuse"), Local(r, [job[r] EXCEPT !.file = f])
        PROVE  Moves(r)
    <3>1. pc'[r] = "reuse" /\ OnlyMoves(r)
      BY <1>0, <1>2, <2>2, MovesAre, OnlyMovesBy DEF DedupFind
    <3>2. job'[r].upload = job[r].upload
      BY <1>0, <2>2 DEF TypeOK, Local, Jobs
    <3> QED
      BY <2>1, <3>1, <3>2, LockedStepsAre, HolderMoves DEF Moves
  <2>3. CASE Quit(r) \/ Fail(r, "terminalize", FALSE, "Aborted")
    BY <1>2, <2>1, <2>3, LockedStepsAre, CompletionMoves DEF DedupFind
  <2> QED
    BY <1>2, <2>2, <2>3 DEF DedupFind
<1> QED
  BY <1>1, <1>2

LEMMA HandleMoves ==
  ASSUME Inv, NEW r \in Requests, Handle(r) \/ Cancel(r)
  PROVE  Moves(r)
<1>1. CASE Finish(r) \/ ReturnBusy(r) \/ AbortCleanup(r) \/ Cancel(r)
  BY <1>1, SameStatusMoves, ReturnMoves DEF Finish, ReturnBusy, AbortCleanup, Cancel
<1> QED
  BY <1>1, InitiateMoves, LockMoves, ObjectsMoves, InsertMoves, OutcomeMoves
     DEF Handle

\* A sweep, the file store and the clock take no session and complete none.
LEMMA QuietMoves ==
  ASSUME Inv, UNCHANGED <<pc, job, minted>>,
         \A v \in Uploads : uploads'[v].status # uploads[v].status =>
           uploads'[v].status \notin Active \cup {"Completed"}
             /\ (HasRow(v) \/ uploads'[v].status = "none")
  PROVE  Moves(Nil)
<1>1. OnlyMoves(Nil) /\ LocalMoves(Nil)
  BY DEF OnlyMoves, LocalMoves
<1>2. StatusMoves(Nil)
  BY DEF StatusMoves, IsActive, HasRow
<1> QED
  BY <1>1, <1>2 DEF Moves

LEMMA SweepMoves ==
  ASSUME Inv, NEW p \in Sweepers, Sweep(p) \/ CancelSweep(p)
  PROVE  Moves(Nil)
<1> USE StatusSets
<1>0. TypeOK
  BY DEF Inv
<1>1. CASE SweepSelect(p) \/ SoftObjects(p) \/ StaleObjects(p) \/ CancelSweep(p)
  BY <1>1, QuietMoves DEF SweepSelect, SoftObjects, StaleObjects, CancelSweep
<1>2. CASE SoftRow(p)
  <2> DEFINE u == sweep[p].swept
             row == [uploads[u] EXCEPT !.status = "Expired", !.s3 = FALSE, !.reason = "ttl_purged",
                                       !.expiredAt = sweep[p].at]
  <2>1. u \in Uploads
    BY <1>0, <1>2, SweepTypes DEF SoftRow
  <2>2. row \in Sessions /\ row.status = "Expired"
    <3>1. uploads[u] \in Sessions /\ sweep[p].at \in Nat /\ FALSE \in BOOLEAN
      BY <1>0, <2>1, SweepTypes, RowTypes
    <3> HIDE DEF u
    <3>2. row \in Sessions
      BY <3>1 DEF Sessions, Over, Reasons
    <3>3. row.status = "Expired"
      BY <3>1 DEF Sessions
    <3> QED
      BY <3>2, <3>3
  <2>3. SweepSession(p, u, row) \/ UNCHANGED uploads
    BY <1>2 DEF SoftRow
  <2> HIDE DEF row
  <2>4. \A v \in Uploads : uploads'[v].status # uploads[v].status =>
          uploads'[v].status = "Expired" /\ HasRow(v)
    BY <1>0, <2>1, <2>2, <2>3, SweepSessionType
  <2> QED
    BY <1>2, <2>4, QuietMoves DEF SoftRow
<1>3. CASE StaleRow(p)
  <2> DEFINE u == sweep[p].swept
             row == Aborted(u, "complete_stale_aborted")
  <2>1. u \in Uploads
    BY <1>0, <1>3, SweepTypes DEF StaleRow
  <2>2. row \in Sessions /\ row.status \in {"Aborted", "Completing"}
    BY <1>0, <2>1, WrittenRows
  <2>3. SweepSession(p, u, row) \/ UNCHANGED uploads
    BY <1>3 DEF StaleRow, AbortStale
  <2> HIDE DEF row
  <2>4. \A v \in Uploads : uploads'[v].status # uploads[v].status =>
          uploads'[v].status \in {"Aborted", "Completing"} /\ HasRow(v)
    BY <1>0, <2>1, <2>2, <2>3, SweepSessionType
  <2> QED
    BY <1>3, <2>4, QuietMoves DEF StaleRow
<1>4. CASE HardDelete(p)
  <2>1. \A v \in Uploads : uploads'[v].status # uploads[v].status => uploads'[v].status = "none"
    BY <1>0, <1>4 DEF TypeOK, HardDelete, NoSession
  <2> QED
    BY <1>4, <2>1, QuietMoves DEF HardDelete
<1> QED
  BY <1>1, <1>2, <1>3, <1>4 DEF Sweep

LEMMA EnvironmentMoves ==
  ASSUME Inv, Environment \/ Tick \/ UNCHANGED vars
  PROVE  Moves(Nil)
BY QuietMoves DEF Environment, DeleteFile, ExpireFile, PurgeFile, Tick, vars

LEMMA InvInit == Init => Inv
<1> SUFFICES ASSUME Init PROVE Inv
  OBVIOUS
<1>1. Exclusion
  BY DEF Init, Exclusion, RequestsNamed, RowsAreMinted, PersistIsFresh, WorkingHolds,
         NotYetCompleted, HasRow, NoSession, LockedSteps
<1> QED
  BY <1>1, TypeInit DEF Inv

LEMMA InvStep == Inv /\ [Next]_vars => Inv'
<1> SUFFICES ASSUME Inv, [Next]_vars PROVE Inv'
  OBVIOUS
<1>1. TypeOK'
  BY TypeStep DEF Inv, Exclusion
<1>2. Exclusion'
  BY StartMoves, HandleMoves, SweepMoves, EnvironmentMoves, ExclusionStep DEF Next
<1> QED
  BY <1>1, <1>2 DEF Inv

\* The inductive invariant holds in every reachable state.
THEOREM Invariant == Spec => []Inv
<1> QED
  BY InvInit, InvStep, PTL DEF Spec

\* Every reachable state is typed: handlers and sweeps only ever write rows, parts and
\* locals of the shapes the schema allows.
THEOREM TypeCorrect == Spec => []TypeOK
<1>1. Inv => TypeOK
  BY DEF Inv
<1> QED
  BY <1>1, Invariant, PTL

\* No two requests are between the lock of complete_upload and its answer for one
\* session, whatever faults, sweeps and late writers do to its row.
THEOREM OneCompletionAtATime == Spec => []OneCompletion
<1>1. Inv => OneCompletion
  <2> SUFFICES ASSUME Inv, NEW u \in Uploads
               PROVE  Cardinality(Working(u)) <= 1
    BY DEF OneCompletion
  <2>1. \A r, s \in Working(u) : r = s
    BY DEF Working, Inv, Exclusion, WorkingHolds
  <2>2. CASE Working(u) = {}
    BY <2>2, FS_EmptySet
  <2>3. CASE Working(u) # {}
    <3>1. PICK r \in Working(u) : Working(u) = {r}
      BY <2>1, <2>3
    <3> QED
      BY <3>1, FS_Singleton
  <2> QED
    BY <2>2, <2>3
<1> QED
  BY <1>1, Invariant, PTL

----------------------------------------------------------------------------
(* Completed sessions and settled parts *)

\* An UPDATE by id of a session that is not completed, or of a completed one that keeps
\* its status, takes no session back.
LEMMA UpdateKeepsCompleted ==
  ASSUME TypeOK, NEW u, NEW row, u \in Uploads => row \in Sessions, UpdateSession(u, row),
         u \in Uploads /\ uploads[u].status = "Completed" => row.status = "Completed"
  PROVE  \A v \in Uploads : uploads[v].status = "Completed" => uploads'[v].status = "Completed"
BY UpdateEffect

LEMMA HandleKeepsCompleted ==
  ASSUME Inv, NEW r \in Requests, Start(r) \/ Handle(r), ~Terminalize(r)
  PROVE  \A v \in Uploads : uploads[v].status = "Completed" => uploads'[v].status = "Completed"
<1> USE StatusSets
<1> DEFINE u == job[r].upload
<1>0. TypeOK
  BY DEF Inv
<1>1. CASE UNCHANGED uploads
  BY <1>1
<1>2. ASSUME NEW v \in Uploads, AbortUpload(r, v)
      PROVE  \A w \in Uploads : uploads[w].status = "Completed" => uploads'[w].status = "Completed"
  BY <1>0, <1>2, WrittenRows, UpdateKeepsCompleted DEF AbortUpload, IsActive
<1>3. CASE InsertSession(r) /\ pc[r] = "persist"
  <2>1. u \in Uploads /\ uploads[u].status = "none"
    BY <1>3 DEF Inv, Exclusion, PersistIsFresh, HasRow
  <2> QED
    BY <1>0, <1>3, <2>1 DEF TypeOK, InsertSession
<1>4. CASE RegisterCommit(r)
  <2>1. u \in Uploads
    BY <1>4 DEF Inv, Exclusion, RequestsNamed, RegisterCommit
  <2>2. [uploads[u] EXCEPT !.status = "InProgress", !.received = job[r].count] \in Sessions
    BY <1>0, <2>1, RowTypes, LocalsType DEF Sessions, Active
  <2> QED
    BY <1>0, <1>4, <2>1, <2>2, UpdateKeepsCompleted DEF RegisterCommit, RegisterGuard, IsActive
<1>5. CASE CompleteLock(r)
  <2>1. u \in Uploads => [uploads[u] EXCEPT !.status = "Completing"] \in Sessions
    BY <1>0, RowTypes DEF Sessions
  <2> QED
    BY <1>0, <1>5, <2>1, UpdateKeepsCompleted DEF CompleteLock, LockGuard, IsActive
<1>6. CASE UpdateSession(u, [uploads[u] EXCEPT !.hashed = TRUE])
  <2> DEFINE row == [uploads[u] EXCEPT !.hashed = TRUE]
  <2>1. u \in Uploads => row \in Sessions /\ row.status = uploads[u].status
    BY <1>0, RowTypes DEF Sessions
  <2>2. UpdateSession(u, row)
    BY <1>6
  <2> HIDE DEF row
  <2> QED
    BY <1>0, <2>1, <2>2, UpdateKeepsCompleted
<1>7. ASSUME NEW f \in Uploads \cup {Nil}, UpdateSession(u, CompletedWith(u, f))
      PROVE  \A w \in Uploads : uploads[w].status = "Completed" => uploads'[w].status = "Completed"
  <2> DEFINE row == CompletedWith(u, f)
  <2>1. u \in Uploads => row \in Sessions /\ row.status = "Completed"
    BY <1>0, WrittenRows
  <2>2. UpdateSession(u, row)
    BY <1>7
  <2> HIDE DEF row
  <2> QED
    BY <1>0, <2>1, <2>2, UpdateKeepsCompleted
<1>8. CASE Start(r)
  BY <1>1, <1>2, <1>8 DEF Start, CreateMultipart, RegisterPart, CompleteRead
<1>9. CASE InsertFile(r) \/ ReuseWinner(r)
  <2>1. job[r].file \in Uploads \cup {Nil}
    BY <1>0, LocalsType
  <2>2. CASE InsertFile(r)
    <3>1. u \in Uploads
      BY <2>2, LockedStepsAre DEF Inv, Exclusion, WorkingHolds, InsertFile
    <3> QED
      BY <1>7, <2>2, <3>1 DEF InsertFile
  <2>3. CASE ReuseWinner(r)
    BY <1>1, <1>7, <2>1, <2>3 DEF ReuseWinner
  <2> QED
    BY <1>9, <2>2, <2>3
<1>10. CASE PersistUpload(r) \/ VerifyObject(r)
  BY <1>1, <1>3, <1>6, <1>10 DEF PersistUpload, VerifyObject
<1>11. CASE \/ AbortInitiated(r) \/ StoreMultipart(r) \/ CopyObject(r) \/ InsertFails(r)
            \/ InsertConflict(r) \/ CleanupFailure(r) \/ DedupCleanup(r) \/ DedupFind(r)
            \/ Finish(r) \/ ReturnBusy(r) \/ AbortCleanup(r)
  BY <1>1, <1>11 DEF AbortInitiated, StoreMultipart, CopyObject, InsertFails, InsertConflict,
     CleanupFailure, DedupCleanup, DedupFind, Finish, ReturnBusy, AbortCleanup
<1> QED
  BY <1>4, <1>5, <1>8, <1>9, <1>10, <1>11 DEF Handle

\* The late failure of a completion overwrites what that completion itself wrote, and
\* that only when the commit was reported to have failed.
LEMMA TerminalizeKeepsCompleted ==
  ASSUME Inv, NEW r \in Requests, Terminalize(r), NEW v \in Uploads,
         uploads[v].status = "Completed", uploads'[v].status # "Completed"
  PROVE  "lost_commit" \in Faults /\ pc[r] = "terminalize" /\ job[r].upload = v
<1> DEFINE u == job[r].upload
           row == Ended(u, job[r].next)
<1>0. TypeOK
  BY DEF Inv
<1>1. UpdateSession(u, row) /\ pc[r] = "terminalize"
  BY DEF Terminalize
<1>2. u \in Uploads => row \in Sessions
  BY <1>0, WrittenRows, LocalsType
<1> HIDE DEF row
<1>3. v = u
  BY <1>0, <1>1, <1>2, UpdateEffect
<1>4. "lost_commit" \in Faults
  BY <1>1, <1>3, LockedStepsAre DEF Inv, Exclusion, NotYetCompleted
<1> QED
  BY <1>1, <1>3, <1>4

LEMMA SweepKeepsCompleted ==
  ASSUME Inv, NEW p \in Sweepers, Sweep(p) \/ CancelSweep(p), NEW v \in Uploads,
         uploads[v].status = "Completed", uploads'[v].status # "Completed"
  PROVE  v \in sweep[p].soft \cup sweep[p].stale \cup sweep[p].hard
<1>0. uploads \in [Uploads -> Sessions]
  BY DEF Inv, TypeOK
<1>1. CASE SweepSelect(p) \/ SoftObjects(p) \/ StaleObjects(p) \/ CancelSweep(p)
  BY <1>1 DEF SweepSelect, SoftObjects, StaleObjects, CancelSweep
<1>2. ASSUME NEW u, NEW row, SweepSession(p, u, row), v # u
      PROVE  FALSE
  BY <1>0, <1>2 DEF SweepSession
<1>3. CASE SoftRow(p) \/ StaleRow(p)
  BY <1>2, <1>3 DEF SoftRow, StaleRow, AbortStale
<1>4. CASE HardDelete(p)
  BY <1>0, <1>4 DEF HardDelete
<1> QED
  BY <1>1, <1>3, <1>4 DEF Sweep

\* Nothing takes a completed session back but a sweep that had selected it, or the
\* request that was told its commit failed: complete_upload, register_part and
\* abort_upload check the status again in the statement that writes it.
THEOREM CompletedStaysCompleted == Spec => CompletedIsFinal
<1>1. ASSUME Inv, [Next]_vars, NEW u \in Uploads,
             uploads[u].status = "Completed", uploads'[u].status # "Completed"
      PROVE  \/ \E p \in Sweepers : u \in sweep[p].soft \cup sweep[p].stale \cup sweep[p].hard
             \/ "lost_commit" \in Faults
                /\ \E r \in Requests : pc[r] = "terminalize" /\ job[r].upload = u
  <2>1. UNCHANGED uploads => FALSE
    BY <1>1
  <2>2. ASSUME NEW r \in Requests, Start(r) \/ Handle(r)
        PROVE  "lost_commit" \in Faults /\ pc[r] = "terminalize" /\ job[r].upload = u
    BY <1>1, <2>2, HandleKeepsCompleted, TerminalizeKeepsCompleted
  <2>3. ASSUME NEW p \in Sweepers, Sweep(p) \/ CancelSweep(p)
        PROVE  u \in sweep[p].soft \cup sweep[p].stale \cup sweep[p].hard
    BY <1>1, <2>3, SweepKeepsCompleted
  <2>4. ~Environment /\ ~Tick /\ ~UNCHANGED vars /\ \A r \in Requests : ~Cancel(r)
    BY <2>1 DEF Environment, DeleteFile, ExpireFile, PurgeFile, Tick, Cancel, vars
  <2> QED
    BY <1>1, <2>2, <2>3, <2>4 DEF Next
<1>2. Inv /\ [Next]_vars => [\A u \in Uploads :
         uploads[u].status = "Completed" /\ uploads'[u].status # "Completed" =>
           \/ \E p \in Sweepers : u \in sweep[p].soft \cup sweep[p].stale \cup sweep[p].hard
           \/ "lost_commit" \in Faults
              /\ \E r \in Requests : pc[r] = "terminalize" /\ job[r].upload = u]_vars
  BY <1>1
<1> QED
  BY <1>2, Invariant, PTL DEF Spec, CompletedIsFinal

\* Once a session is locked or over, no registration adds a part to it: the parts that
\* ensure_parts_continuity checked are the parts the session keeps.
THEOREM PartsSettle == Spec => PartsSettleAtLock
<1>1. ASSUME Inv, [Next]_vars, NEW u \in Uploads,
             uploads[u].status \in {"Completing"} \cup Over
      PROVE  parts'[u] \subseteq parts[u]
  <2>0. TypeOK /\ ~IsActive(u)
    BY <1>1, StatusSets DEF Inv, IsActive, Over
  <2>1. CASE UNCHANGED parts
    BY <2>1
  <2>2. ASSUME NEW r \in Requests, RegisterCommit(r)
        PROVE  parts'[u] \subseteq parts[u]
    BY <1>1, <2>0, <2>2 DEF TypeOK, RegisterCommit, RegisterGuard
  <2>3. ASSUME NEW p \in Sweepers, HardDelete(p)
        PROVE  parts'[u] \subseteq parts[u]
    BY <1>1, <2>0, <2>3 DEF TypeOK, HardDelete
  <2>4. ASSUME NEW r \in Requests, Start(r) \/ Cancel(r)
        PROVE  UNCHANGED parts
    BY <2>4 DEF Start, CreateMultipart, RegisterPart, CompleteRead, AbortUpload, Cancel
  <2>5. ASSUME NEW r \in Requests, Handle(r), ~RegisterCommit(r)
        PROVE  UNCHANGED parts
    BY <2>5 DEF Handle, PersistUpload, AbortInitiated, CompleteLock, StoreMultipart,
       VerifyObject, CopyObject, InsertFile, InsertFails, InsertConflict, CleanupFailure,
       Terminalize, DedupCleanup, DedupFind, ReuseWinner, Finish, ReturnBusy, AbortCleanup
  <2>6. ASSUME NEW p \in Sweepers, Sweep(p) \/ CancelSweep(p), ~HardDelete(p)
        PROVE  UNCHANGED parts
    BY <2>6 DEF Sweep, SweepSelect, SoftObjects, SoftRow, StaleObjects, StaleRow, CancelSweep
  <2>7. Environment \/ Tick \/ UNCHANGED vars => UNCHANGED parts
    BY DEF Environment, DeleteFile, ExpireFile, PurgeFile, Tick, vars
  <2> QED
    BY <1>1, <2>1, <2>2, <2>3, <2>4, <2>5, <2>6, <2>7 DEF Next
<1>2. Inv /\ [Next]_vars => [\A u \in Uploads :
         uploads[u].status \in {"Completing"} \cup Over => parts'[u] \subseteq parts[u]]_vars
  BY <1>1
<1> QED
  BY <1>2, Invariant, PTL DEF Spec, PartsSettleAtLock

----------------------------------------------------------------------------
(* Nothing is left in the bucket *)

\* Every call to the bucket answers what it did, and every request runs to its end.
BucketAnswers == "s3" \notin Faults

NoCrash == "crash" \notin Faults

\* Where a completion still has its staged object to remove, or its final one.
Staging == {"verify", "copy", "insert", "cleanup", "dedup_cleanup", "finish"}

Stages(r, u) == pc[r] \in Staging /\ job[r].upload = u

Copied(r, u) ==
  /\ job[r].upload = u
  /\ pc[r] \in {"insert", "dedup_cleanup"} \/ (pc[r] = "cleanup" /\ job[r].copied)

StagedIsHeld == \A u \in temp : \E r \in Requests : Stages(r, u)

FinalIsOwned == \A u \in final : files[u].status # "none" \/ \E r \in Requests : Copied(r, u)

LeftInv == StagedIsHeld /\ FinalIsOwned

\* A step of r that answers for what it leaves in the bucket.
LEMMA LeftStep ==
  ASSUME LeftInv, NEW r \in Requests, OnlyMoves(r),
         \A u \in temp' : Stages(r, u)' \/ (u \in temp /\ ~Stages(r, u)),
         \A u \in final' : \/ files'[u].status # "none" \/ Copied(r, u)'
                           \/ u \in final /\ files[u].status = "none" /\ ~Copied(r, u)
  PROVE  LeftInv'
<1>1. ASSUME NEW u \in temp'
      PROVE  \E s \in Requests : Stages(s, u)'
  <2>1. CASE Stages(r, u)'
    BY <2>1
  <2>2. CASE u \in temp /\ ~Stages(r, u)
    <3>1. PICK s \in Requests : Stages(s, u)
      BY <2>2 DEF LeftInv, StagedIsHeld
    <3>2. s # r
      BY <2>2, <3>1
    <3> QED
      BY <3>1, <3>2 DEF OnlyMoves, Stages
  <2> QED
    BY <1>1, <2>1, <2>2
<1>2. ASSUME NEW u \in final', files'[u].status = "none"
      PROVE  \E s \in Requests : Copied(s, u)'
  <2>1. CASE Copied(r, u)'
    BY <2>1
  <2>2. CASE u \in final /\ files[u].status = "none" /\ ~Copied(r, u)
    <3>1. PICK s \in Requests : Copied(s, u)
      BY <2>2 DEF LeftInv, FinalIsOwned
    <3>2. s # r
      BY <2>2, <3>1
    <3> QED
      BY <3>1, <3>2 DEF OnlyMoves, Copied
  <2> QED
    BY <1>2, <2>1, <2>2
<1> QED
  BY <1>1, <1>2 DEF LeftInv, StagedIsHeld, FinalIsOwned

\* A step outside a completion's work on the bucket adds nothing to it.
LEMMA LeftAlone ==
  ASSUME LeftInv, NEW r \in Requests, OnlyMoves(r), pc[r] \notin Staging, temp' \subseteq temp,
         final' \subseteq final,
         \A u \in final' : files'[u].status = "none" => files[u].status = "none"
  PROVE  LeftInv'
<1>1. \A u : ~Stages(r, u) /\ ~Copied(r, u)
  BY DEF Stages, Copied, Staging
<1> QED
  BY <1>1, LeftStep

\* The sweep and the file store: they remove, and a file that is purged loses its object.
LEMMA LeftByOthers ==
  ASSUME LeftInv, UNCHANGED <<pc, job>>, temp' \subseteq temp, final' \subseteq final,
         \A u \in final' : files'[u].status = "none" => files[u].status = "none"
  PROVE  LeftInv'
BY DEF LeftInv, StagedIsHeld, FinalIsOwned, Stages, Copied

LEMMA RequestLeaves ==
  ASSUME Inv, LeftInv, BucketAnswers, NoCrash, NEW r \in Requests,
         Start(r) \/ Handle(r) \/ Cancel(r)
  PROVE  LeftInv'
<1> USE DEF BucketAnswers, NoCrash
<1>0. TypeOK /\ job[r] \in Jobs
  BY DEF Inv, TypeOK
<1>u. PICK u : u = job[r].upload
  OBVIOUS
<1>m. /\ \A s : Goto(r, s) => pc'[r] = s
      /\ \A s, copied, status : Fail(r, s, copied, status) =>
           pc'[r] = s /\ job'[r].upload = job[r].upload /\ job'[r].copied = copied
      /\ UNCHANGED job => job'[r].upload = u
      /\ Quit(r) => pc'[r] = "idle"
  <2>1. ASSUME NEW s, NEW copied, NEW status, Fail(r, s, copied, status)
        PROVE  job'[r].copied = copied
    <3>1. job'[r] = [job[r] EXCEPT !.copied = copied, !.next = status]
      BY <1>0, <2>1 DEF TypeOK, Fail, Local
    <3> QED
      BY <1>0, <3>1 DEF Jobs
  <2> QED
    BY <1>0, <1>u, <2>1, MovesAre
<1>1. ASSUME Start(r)
      PROVE  LeftInv'
  <2>1. pc[r] = "idle" /\ UNCHANGED <<temp, final, files>> /\ minted \subseteq minted'
    BY <1>1 DEF Start, CreateMultipart, RegisterPart, CompleteRead, AbortUpload, bucket
  <2>2. /\ UNCHANGED pc \/ (\E s : Goto(r, s))
        /\ UNCHANGED job \/ (\E j : Local(r, j))
    BY <1>1 DEF Start, CreateMultipart, RegisterPart, CompleteRead, AbortUpload
  <2>3. OnlyMoves(r)
    BY <1>0, <2>1, <2>2, OnlyMovesBy
  <2> QED
    BY <2>1, <2>3, LeftAlone DEF Staging
<1>2. ASSUME pc[r] \notin Staging, Handle(r)
      PROVE  LeftInv' \/ StoreMultipart(r)
  <2>0. /\ "verify" \in Staging /\ "copy" \in Staging /\ "insert" \in Staging
        /\ "cleanup" \in Staging /\ "dedup_cleanup" \in Staging /\ "finish" \in Staging
    BY DEF Staging
  <2>1. \/ PersistUpload(r) \/ AbortInitiated(r) \/ RegisterCommit(r) \/ CompleteLock(r)
        \/ StoreMultipart(r) \/ Terminalize(r) \/ DedupFind(r) \/ ReuseWinner(r)
        \/ ReturnBusy(r) \/ AbortCleanup(r)
    BY <1>2, <2>0
       DEF Handle, VerifyObject, CopyObject, InsertFile, InsertFails, InsertConflict,
           CleanupFailure, DedupCleanup, Finish
  <2>2. CASE DedupFind(r)
    <3>1. \A f : files' = [files EXCEPT ![f].status = "active"] =>
            \A v \in Uploads : files'[v].status = "none" => files[v].status = "none"
      BY <1>0 DEF TypeOK, FileRows
    <3>2. \A v \in Uploads : files'[v].status = "none" => files[v].status = "none"
      BY <2>2, <3>1 DEF DedupFind
    <3>3. OnlyMoves(r) /\ UNCHANGED <<temp, final>>
      BY <1>0, <2>2, OnlyMovesBy DEF DedupFind, bucket
    <3> QED
      BY <1>0, <1>2, <3>2, <3>3, LeftAlone DEF TypeOK
  <2>3. CASE PersistUpload(r) \/ AbortInitiated(r) \/ RegisterCommit(r) \/ CompleteLock(r)
    <3>1. OnlyMoves(r) /\ UNCHANGED <<temp, final, files>>
      BY <1>0, <2>3, OnlyMovesBy
         DEF PersistUpload, AbortInitiated, RegisterCommit, CompleteLock, bucket
    <3> QED
      BY <1>2, <3>1, LeftAlone
  <2>4. CASE Terminalize(r) \/ ReuseWinner(r) \/ ReturnBusy(r)
    <3>1. OnlyMoves(r) /\ UNCHANGED <<temp, final, files>>
      BY <1>0, <2>4, OnlyMovesBy DEF Terminalize, ReuseWinner, ReturnBusy, bucket
    <3> QED
      BY <1>2, <3>1, LeftAlone
  <2>5. CASE AbortCleanup(r)
    <3>1. OnlyMoves(r) /\ temp' \subseteq temp /\ UNCHANGED <<final, files>>
      BY <1>0, <2>5, OnlyMovesBy DEF AbortCleanup, DiscardStaged, BestEffort
    <3> QED
      BY <1>2, <3>1, LeftAlone
  <2> QED
    BY <2>1, <2>2, <2>3, <2>4, <2>5
<1>3. ASSUME StoreMultipart(r)
      PROVE  LeftInv'
  <2>1. OnlyMoves(r) /\ UNCHANGED <<final, files>> /\ pc[r] = "store"
    BY <1>0, <1>3, OnlyMovesBy DEF StoreMultipart
  <2>2. CASE UNCHANGED temp
    BY <2>1, <2>2, LeftAlone DEF Staging
  <2>3. CASE temp' = temp \cup {u} /\ Goto(r, "verify") /\ UNCHANGED job
    <3>1. Stages(r, u)' /\ \A v : ~Stages(r, v) /\ ~Copied(r, v)
      BY <1>0, <1>m, <1>u, <2>1, <2>3 DEF Stages, Copied, Staging
    <3> QED
      BY <2>1, <2>3, <3>1, LeftStep
  <2> QED
    BY <1>3, <1>u, <2>2, <2>3 DEF StoreMultipart
\* A completion goes on with its session, and still has its objects in hand.
<1>4. ASSUME VerifyObject(r) \/ CopyObject(r)
      PROVE  LeftInv'
  <2>1. OnlyMoves(r) /\ UNCHANGED <<temp, files>>
    BY <1>0, <1>4, OnlyMovesBy DEF VerifyObject, CopyObject, bucket
  <2>2. Stages(r, u)' /\ \A v : Stages(r, v) => v = u
    BY <1>0, <1>4, <1>m, <1>u DEF VerifyObject, CopyObject, Stages, Staging
  <2>3. \A v : ~Copied(r, v)
    BY <1>4 DEF VerifyObject, CopyObject, Copied
  <2>4. final' = final \/ (final' = final \cup {u} /\ Copied(r, u)')
    BY <1>0, <1>4, <1>m, <1>u DEF VerifyObject, CopyObject, Copied, bucket
  <2> QED
    BY <2>1, <2>2, <2>3, <2>4, LeftStep
<1>5. ASSUME InsertFile(r) \/ InsertFails(r) \/ InsertConflict(r)
      PROVE  LeftInv'
  <2>1. OnlyMoves(r) /\ UNCHANGED <<temp, final>>
    BY <1>0, <1>5, OnlyMovesBy DEF InsertFile, InsertFails, InsertConflict, bucket
  <2>2. Stages(r, u)' /\ \A v : (Stages(r, v) => v = u) /\ (Copied(r, v) => v = u)
    BY <1>0, <1>5, <1>m, <1>u DEF InsertFile, InsertFails, InsertConflict, Stages, Staging, Copied
  <2>3. Copied(r, u)' \/ (u \in Uploads => files'[u].status # "none")
    <3>1. CASE InsertFile(r)
      <4>1. \A w : u \in Uploads /\ files' = [files EXCEPT ![u] = w] => files'[u] = w
        BY <1>0 DEF TypeOK
      <4> QED
        BY <1>u, <3>1, <4>1 DEF InsertFile
    <3>2. CASE InsertFails(r)
      <4>1. PICK status : Fail(r, "cleanup", TRUE, status)
        BY <3>2 DEF InsertFails
      <4> QED
        BY <1>m, <1>u, <4>1 DEF Copied
    <3>3. CASE InsertConflict(r)
      BY <1>m, <1>u, <3>3 DEF InsertConflict, Copied
    <3> QED
      BY <1>5, <3>1, <3>2, <3>3
  <2>4. \A v \in Uploads : v # u => files'[v] = files[v]
    <3>1. \A w : files' = [files EXCEPT ![u] = w] => \A v \in Uploads : v # u => files'[v] = files[v]
      BY <1>0 DEF TypeOK
    <3> QED
      BY <1>5, <1>u, <3>1 DEF InsertFile, InsertFails, InsertConflict
  <2> QED
    BY <1>0, <2>1, <2>2, <2>3, <2>4, LeftStep DEF TypeOK
<1>6. ASSUME CleanupFailure(r) \/ DedupCleanup(r) \/ Finish(r)
      PROVE  LeftInv'
  <2>1. OnlyMoves(r) /\ UNCHANGED files
    BY <1>0, <1>6, OnlyMovesBy DEF CleanupFailure, DedupCleanup, Finish
  <2>2. temp' = temp \ {u} /\ \A v : (Stages(r, v) => v = u) /\ (Copied(r, v) => v = u)
    BY <1>6, <1>u DEF CleanupFailure, DedupCleanup, Finish, CleanupBoth, BestEffort, Stages, Copied
  <2>3. final' = final \ {u} \/ (final' = final /\ ~Copied(r, u))
    BY <1>6, <1>u
       DEF CleanupFailure, DedupCleanup, Finish, CleanupBoth, BestEffort, FinalKey, Copied
  <2> QED
    BY <2>1, <2>2, <2>3, LeftStep
<1>7. ASSUME pc[r] \in Staging, Handle(r)
      PROVE  LeftInv'
  <2>1. \/ VerifyObject(r) \/ CopyObject(r) \/ InsertFile(r) \/ InsertFails(r) \/ InsertConflict(r)
        \/ CleanupFailure(r) \/ DedupCleanup(r) \/ Finish(r)
    BY <1>7
       DEF Staging, Handle, PersistUpload, AbortInitiated, RegisterCommit, CompleteLock,
           StoreMultipart, Terminalize, DedupFind, ReuseWinner, ReturnBusy, AbortCleanup
  <2> QED
    BY <1>4, <1>5, <1>6, <2>1
<1>8. ~Cancel(r)
  BY DEF Cancel
<1> QED
  BY <1>1, <1>2, <1>3, <1>7, <1>8

\* Why a session that is over may leave its multipart upload open.
Forgotten(u) ==
  \/ uploads[u].reason = "complete_stale_aborted"
  \/ "lost_commit" \in Faults /\ uploads[u].reason = "aborted_by_user"

Accounted(u) ==
  uploads[u].status \in Active \cup {"Completing"} \/ (uploads[u].status = "Aborted" /\ Forgotten(u))

\* A handler that is about to persist, or to close, the multipart upload of u.
Closes(r, u) ==
  /\ job[r].upload = u
  /\ \/ pc[r] \in {"persist", "abort_initiated"} /\ uploads[u].status = "none"
     \/ pc[r] = "abort_cleanup" /\ job[r].s3 /\ uploads[u].status = "Aborted"

OpenIsAccounted == \A u \in multiparts : Accounted(u) \/ \E r \in Requests : Closes(r, u)

ActiveKnowsItsUpload == \A u \in Uploads : IsActive(u) => uploads[u].s3

\* A completion that stored the object, and has therefore closed the multipart upload.
Closed(r) ==
  \/ pc[r] \in Staging \cup {"dedup_find", "reuse"}
  \/ pc[r] = "terminalize" /\ job[r].next # "Retryable"

StoredIsClosed == \A r \in Requests : Closed(r) => job[r].upload \notin multiparts

\* What a sweep holds: sessions that exist, closed once it has dealt with their objects.
SweptIsClosed ==
  \A p \in Sweepers :
    /\ sweep[p].soft \cup sweep[p].hard \subseteq minted
    /\ sweep[p].swept \in sweep[p].soft => sweep[p].swept \notin multiparts
    /\ sweep[p].hard \cap multiparts = {}

OpenInv == OpenIsAccounted /\ ActiveKnowsItsUpload /\ StoredIsClosed /\ SweptIsClosed

\* What a step makes of a row.
RowsSettle(r) ==
  \A v \in Uploads :
    \/ uploads'[v] = uploads[v]
    \/ /\ uploads'[v].status \in Active => uploads'[v].s3
       /\ v \in multiparts' => Accounted(v)' \/ (r \in Requests /\ Closes(r, v)')

\* A multipart upload is closed for good, and a new one is of a new session.
OpenMoves(r) ==
  /\ multiparts' \subseteq multiparts \cup (minted' \ minted)
  /\ \A v \in multiparts' :
       v \notin multiparts \/ (r \in Requests /\ Closes(r, v)) =>
         Accounted(v)' \/ (r \in Requests /\ Closes(r, v)')
  /\ r \in Requests /\ Closed(r)' => job'[r].upload \notin multiparts'

LEMMA OpenStep ==
  ASSUME Inv, OpenInv, NEW r, OnlyMoves(r), RowsSettle(r), OpenMoves(r), multiparts' \subseteq Uploads
  PROVE  (OpenIsAccounted /\ ActiveKnowsItsUpload /\ StoredIsClosed)'
<1>1. ASSUME NEW v \in multiparts'
      PROVE  Accounted(v)' \/ \E s \in Requests : Closes(s, v)'
  <2>1. CASE uploads'[v] # uploads[v] \/ v \notin multiparts \/ (r \in Requests /\ Closes(r, v))
    BY <1>1, <2>1 DEF RowsSettle, OpenMoves
  <2>2. CASE uploads'[v] = uploads[v] /\ v \in multiparts /\ ~(r \in Requests /\ Closes(r, v))
    <3>1. CASE Accounted(v)
      BY <2>2, <3>1 DEF Accounted, Forgotten
    <3>2. CASE \E s \in Requests : Closes(s, v)
      <4>1. PICK s \in Requests : Closes(s, v)
        BY <3>2
      <4>2. pc'[s] = pc[s] /\ job'[s] = job[s]
        BY <2>2, <4>1 DEF OnlyMoves
      <4> QED
        BY <2>2, <4>1, <4>2 DEF Closes
    <3> QED
      BY <2>2, <3>1, <3>2 DEF OpenInv, OpenIsAccounted
  <2> QED
    BY <2>1, <2>2
<1>2. ActiveKnowsItsUpload'
  BY DEF OpenInv, ActiveKnowsItsUpload, RowsSettle, IsActive
<1>3. ASSUME NEW s \in Requests, Closed(s)'
      PROVE  job'[s].upload \notin multiparts'
  <2>1. CASE s = r
    BY <1>3, <2>1 DEF OpenMoves
  <2>2. CASE s # r
    <3>1. pc'[s] = pc[s] /\ job'[s] = job[s]
      BY <2>2 DEF OnlyMoves
    <3>2. Closed(s)
      BY <1>3, <3>1 DEF Closed
    <3>3. job[s].upload \notin multiparts /\ job[s].upload \in minted
      <4>1. pc[s] \in LockedSteps
        BY <3>2 DEF Closed, Staging, LockedSteps
      <4> QED
        BY <3>2, <4>1 DEF OpenInv, StoredIsClosed, Inv, Exclusion, WorkingHolds
    <3> QED
      BY <3>1, <3>3 DEF OpenMoves
  <2> QED
    BY <2>1, <2>2
<1> QED
  BY <1>1, <1>2, <1>3 DEF OpenIsAccounted, StoredIsClosed

\* A step that leaves the sweeps alone.
LEMMA SweptStays ==
  ASSUME OpenInv, UNCHANGED sweep, minted \subseteq minted',
         multiparts' \subseteq multiparts \cup (minted' \ minted), Inv
  PROVE  SweptIsClosed'
BY SweepTypes DEF OpenInv, SweptIsClosed, Inv

\* A step that changes no row and no multipart upload.
LEMMA OpenAlone ==
  ASSUME NEW r \in Requests, UNCHANGED <<uploads, multiparts>>,
         pc[r] \notin {"persist", "abort_initiated", "abort_cleanup"},
         Closed(r)' => job'[r].upload \notin multiparts
  PROVE  RowsSettle(r) /\ OpenMoves(r)
BY DEF RowsSettle, OpenMoves, Closes

\* An UPDATE by id.
LEMMA RowIsWritten ==
  ASSUME TypeOK, NEW u, NEW row, u \in Uploads => row \in Sessions, UpdateSession(u, row)
  PROVE  \A v \in Uploads :
           \/ uploads'[v] = uploads[v]
           \/ /\ v = u /\ HasRow(u)
              /\ uploads'[v].status = row.status /\ uploads'[v].reason = row.reason
              /\ uploads'[v].s3 = row.s3
<1> SUFFICES ASSUME NEW v \in Uploads, uploads'[v] # uploads[v]
             PROVE  /\ v = u /\ HasRow(u)
                    /\ uploads'[v].status = row.status /\ uploads'[v].reason = row.reason
                    /\ uploads'[v].s3 = row.s3
  OBVIOUS
<1>1. v = u /\ HasRow(u) /\ uploads'[v] = [row EXCEPT !.updatedAt = now]
  BY DEF TypeOK, UpdateSession
<1>2. row \in Sessions
  BY <1>1
<1> QED
  BY <1>1, <1>2 DEF Sessions

LEMMA StartOpens ==
  ASSUME Inv, OpenInv, BucketAnswers, NEW r \in Requests, Start(r)
  PROVE  RowsSettle(r) /\ OpenMoves(r)
<1> USE DEF BucketAnswers
<1>0. TypeOK /\ job[r] \in Jobs
  BY DEF Inv, TypeOK
<1>1. ASSUME NEW u \in Uploads, NEW c \in Contents, NEW declared \in BOOLEAN,
             CreateMultipart(r, u, c, declared)
      PROVE  RowsSettle(r) /\ OpenMoves(r)
  <2>1. pc'[r] = "persist" /\ job'[r].upload = u
    <3>1. Goto(r, "persist") /\ Local(r, [NoJob EXCEPT !.upload = u, !.content = c, !.hashed = declared])
      BY <1>1 DEF CreateMultipart
    <3> QED
      BY <1>0, <3>1, MovesAre DEF NoJob
  <2>2. UNCHANGED uploads /\ u \in minted' \ minted /\ minted \subseteq minted' /\ pc[r] = "idle"
    BY <1>1 DEF CreateMultipart
  <2>3. uploads'[u].status = "none"
    BY <2>2 DEF Inv, Exclusion, RowsAreMinted, HasRow
  <2>4. Closes(r, u)' /\ \A v : ~Closes(r, v)
    BY <2>1, <2>2, <2>3 DEF Closes
  <2>5. multiparts' = multiparts \cup {u}
    BY <1>1 DEF CreateMultipart
  <2>6. ~Closed(r)'
    BY <2>1 DEF Closed, Staging
  <2> QED
    BY <2>2, <2>4, <2>5, <2>6 DEF RowsSettle, OpenMoves
<1>2. CASE \E u \in Uploads : CompleteRead(r, u) \/ \E n \in Parts : RegisterPart(r, u, n)
  <2>1. pc[r] = "idle" /\ UNCHANGED <<uploads, multiparts>>
    BY <1>2 DEF CompleteRead, RegisterPart, bucket
  <2>2. pc'[r] \in {"lock", "busy", "register_write"}
    BY <1>0, <1>2, MovesAre DEF CompleteRead, RegisterPart
  <2>3. ~Closed(r)'
    BY <2>2 DEF Closed, Staging
  <2> QED
    BY <2>1, <2>3, OpenAlone
<1>3. ASSUME NEW u \in Uploads, AbortUpload(r, u)
      PROVE  RowsSettle(r) /\ OpenMoves(r)
  <2> DEFINE row == Aborted(u, "aborted_by_user")
  <2>1. UNCHANGED multiparts /\ pc[r] = "idle" /\ IsActive(u) /\ UpdateSession(u, row)
    BY <1>3 DEF AbortUpload, bucket
  <2>2. row \in Sessions /\ row.status = "Aborted" /\ row.reason = "aborted_by_user"
    <3>1. uploads[u] \in Sessions
      BY <1>0, RowTypes
    <3> QED
      BY <1>0, <3>1, WrittenRows DEF Aborted, Sessions
  <2>3. \A v \in Uploads :
          \/ uploads'[v] = uploads[v]
          \/ v = u /\ uploads'[v].status = "Aborted" /\ uploads'[v].reason = "aborted_by_user"
    BY <1>0, <2>1, <2>2, RowIsWritten
  <2>4. pc'[r] \in {"abort_cleanup", "idle"}
    <3>1. UNCHANGED pc \/ Goto(r, "abort_cleanup")
      BY <1>3 DEF AbortUpload
    <3> QED
      BY <1>0, <2>1, <3>1, MovesAre
  <2>5. uploads'[u].status = "Aborted" => Accounted(u)' \/ Closes(r, u)'
    <3>1. CASE Goto(r, "abort_cleanup") /\ Local(r, [NoJob EXCEPT !.upload = u, !.s3 = uploads[u].s3])
      <4>1. pc'[r] = "abort_cleanup" /\ job'[r].upload = u /\ job'[r].s3 = uploads[u].s3
        BY <1>0, <3>1, MovesAre DEF NoJob
      <4>2. uploads[u].s3
        BY <2>1 DEF OpenInv, ActiveKnowsItsUpload
      <4> QED
        BY <4>1, <4>2 DEF Closes
    <3>2. CASE "lost_commit" \in Faults
      <4>1. uploads'[u].reason = "aborted_by_user"
        <5>1. uploads[u].status # "none"
          BY <2>1 DEF IsActive, Active
        <5>2. uploads'[u] = [row EXCEPT !.updatedAt = now]
          BY <1>0, <2>1, <5>1 DEF UpdateSession, HasRow, TypeOK
        <5> QED
          BY <2>2, <5>2 DEF Sessions
      <4> QED
        BY <3>2, <4>1 DEF Accounted, Forgotten
    <3> QED
      BY <1>3, <3>1, <3>2 DEF AbortUpload
  <2>6. \A v : ~Closes(r, v)
    BY <2>1 DEF Closes
  <2>7. ~Closed(r)'
    BY <2>4 DEF Closed, Staging
  <2>8. RowsSettle(r)
    BY <2>3, <2>5, StatusSets DEF RowsSettle
  <2> QED
    BY <2>1, <2>6, <2>7, <2>8 DEF OpenMoves
<1> QED
  BY <1>1, <1>2, <1>3 DEF Start

LEMMA HandleOpens ==
  ASSUME Inv, OpenInv, BucketAnswers, NEW r \in Requests, Handle(r)
  PROVE  RowsSettle(r) /\ OpenMoves(r)
<1> USE DEF BucketAnswers
<1>0. TypeOK /\ job[r] \in Jobs
  BY DEF Inv, TypeOK
<1>u. PICK u : u = job[r].upload
  OBVIOUS
<1>m. /\ \A s : Goto(r, s) => pc'[r] = s
      /\ \A s, copied, status : Fail(r, s, copied, status) =>
           pc'[r] = s /\ job'[r].upload = u /\ job'[r].next = status
      /\ UNCHANGED job => job'[r] = job[r]
      /\ Quit(r) => pc'[r] = "idle"
  <2>1. ASSUME NEW s, NEW copied, NEW status, Fail(r, s, copied, status)
        PROVE  job'[r].next = status
    <3>1. job'[r] = [job[r] EXCEPT !.copied = copied, !.next = status]
      BY <1>0, <2>1 DEF TypeOK, Fail, Local
    <3> QED
      BY <1>0, <3>1 DEF Jobs
  <2> QED
    BY <1>0, <1>u, <2>1, MovesAre
<1>c. Closed(r) => u \notin multiparts
  BY <1>u DEF OpenInv, StoredIsClosed
<1>i. pc'[r] \in {"idle", "store", "abort_initiated"} => ~Closed(r)'
  BY DEF Closed, Staging
<1>1. CASE PersistUpload(r)
  <2>1. pc[r] = "persist" /\ UNCHANGED <<multiparts, minted>> /\ u \in Uploads
        /\ uploads[u].status = "none"
    BY <1>1, <1>u DEF PersistUpload, bucket, Inv, Exclusion, PersistIsFresh, HasRow
  <2>2. pc'[r] \in {"idle", "abort_initiated"}
    BY <1>1, <1>m DEF PersistUpload
  <2>3. CASE InsertSession(r)
    <3>1. \A v \in Uploads : v # u => uploads'[v] = uploads[v]
      BY <1>0, <1>u, <2>3 DEF InsertSession, TypeOK
    <3>2. uploads'[u].status = "Initiated" /\ uploads'[u].s3
      BY <1>0, <1>u, <2>1, <2>3 DEF InsertSession, TypeOK, NoSession
    <3>3. Accounted(u)' /\ \A v : Closes(r, v) => v = u
      BY <1>u, <3>2 DEF Accounted, Active, Closes
    <3>4. RowsSettle(r)
      BY <3>1, <3>2, <3>3 DEF RowsSettle
    <3> QED
      BY <1>i, <2>1, <2>2, <3>3, <3>4 DEF OpenMoves
  <2>4. CASE Goto(r, "abort_initiated") /\ UNCHANGED <<uploads, job>>
    <3>1. pc'[r] = "abort_initiated" /\ job'[r].upload = u
      BY <1>m, <1>u, <2>4
    <3>2. Closes(r, u)' /\ \A v : Closes(r, v) => v = u
      BY <1>u, <2>1, <2>4, <3>1 DEF Closes
    <3> QED
      BY <1>i, <2>1, <2>2, <2>4, <3>2 DEF RowsSettle, OpenMoves
  <2> QED
    BY <1>1, <2>3, <2>4 DEF PersistUpload
<1>2. CASE AbortInitiated(r)
  <2>1. multiparts' = multiparts \ {u} /\ UNCHANGED uploads /\ Quit(r)
    BY <1>2, <1>u DEF AbortInitiated, BestEffort
  <2>2. ~Closed(r)' /\ \A v : Closes(r, v) => v = u
    BY <1>i, <1>m, <1>u, <2>1 DEF Closes
  <2> QED
    BY <2>1, <2>2 DEF RowsSettle, OpenMoves
<1>3. CASE RegisterCommit(r)
  <2>1. pc[r] = "register_write" /\ UNCHANGED multiparts /\ Quit(r)
    BY <1>3 DEF RegisterCommit, bucket
  <2>2. RowsSettle(r)
    <3>1. CASE UNCHANGED uploads
      BY <3>1 DEF RowsSettle
    <3>2. CASE /\ IsActive(u)
               /\ UpdateSession(u, [uploads[u] EXCEPT !.status = "InProgress", !.received = job[r].count])
      <4> DEFINE row == [uploads[u] EXCEPT !.status = "InProgress", !.received = job[r].count]
      <4>1. u \in Uploads
        BY <1>3, <1>u DEF RegisterCommit, Inv, Exclusion, RequestsNamed
      <4>2. uploads[u] \in Sessions /\ job[r].count \in 0 .. PartsTotal /\ uploads[u].s3
        BY <1>0, <3>2, <4>1, RowTypes DEF Jobs, OpenInv, ActiveKnowsItsUpload
      <4>3. row \in Sessions /\ row.status = "InProgress" /\ row.s3
        BY <4>2 DEF Sessions, Active
      <4> HIDE DEF row
      <4>4. \A v \in Uploads :
              uploads'[v] = uploads[v] \/ (uploads'[v].status = "InProgress" /\ uploads'[v].s3)
        BY <1>0, <3>2, <4>3, RowIsWritten DEF row
      <4> QED
        BY <4>4 DEF RowsSettle, Accounted, Active
    <3> QED
      BY <1>3, <1>u, <3>1, <3>2 DEF RegisterCommit, RegisterGuard
  <2>3. ~Closed(r)' /\ \A v : ~Closes(r, v)
    BY <1>i, <1>m, <2>1 DEF Closes
  <2> QED
    BY <2>1, <2>2, <2>3 DEF OpenMoves
<1>4. CASE CompleteLock(r)
  <2>1. pc[r] = "lock" /\ UNCHANGED multiparts
    BY <1>4 DEF CompleteLock, bucket
  <2>2. RowsSettle(r)
    <3>1. CASE UNCHANGED uploads
      BY <3>1 DEF RowsSettle
    <3>2. CASE UpdateSession(u, [uploads[u] EXCEPT !.status = "Completing"])
      <4> DEFINE row == [uploads[u] EXCEPT !.status = "Completing"]
      <4>1. u \in Uploads => uploads[u] \in Sessions
        BY <1>0, RowTypes
      <4>2. u \in Uploads => row \in Sessions /\ row.status = "Completing"
        BY <4>1 DEF Sessions
      <4> HIDE DEF row
      <4>3. \A v \in Uploads : uploads'[v] = uploads[v] \/ uploads'[v].status = "Completing"
        BY <1>0, <3>2, <4>2, RowIsWritten DEF row
      <4> QED
        BY <4>3, StatusSets DEF RowsSettle, Accounted
    <3> QED
      BY <1>4, <1>u, <3>1, <3>2 DEF CompleteLock
  <2>3. pc'[r] \in {"store", "idle"}
    BY <1>4, <1>m DEF CompleteLock
  <2>4. ~Closed(r)' /\ \A v : ~Closes(r, v)
    BY <1>i, <2>1, <2>3 DEF Closes
  <2> QED
    BY <2>1, <2>2, <2>4 DEF OpenMoves
<1>5. CASE StoreMultipart(r)
  <2>1. pc[r] = "store" /\ UNCHANGED uploads /\ multiparts' \subseteq multiparts
    BY <1>5 DEF StoreMultipart
  <2>2. \/ Goto(r, "verify") /\ UNCHANGED job /\ u \notin multiparts'
        \/ Fail(r, "terminalize", FALSE, "Retryable")
    BY <1>5, <1>u DEF StoreMultipart
  <2>3. Closed(r)' => job'[r].upload \notin multiparts'
    <3>1. CASE Goto(r, "verify") /\ UNCHANGED job /\ u \notin multiparts'
      BY <1>u, <3>1
    <3>2. CASE Fail(r, "terminalize", FALSE, "Retryable")
      <4>1. pc'[r] = "terminalize" /\ job'[r].next = "Retryable"
        BY <1>m, <3>2
      <4> QED
        BY <4>1 DEF Closed, Staging
    <3> QED
      BY <2>2, <3>1, <3>2
  <2>4. \A v : ~Closes(r, v)
    BY <2>1 DEF Closes
  <2> QED
    BY <2>1, <2>3, <2>4 DEF RowsSettle, OpenMoves
\* A completion that has its object stored goes on with the same session.
<1>6. CASE VerifyObject(r)
  <2>1. pc[r] = "verify" /\ UNCHANGED multiparts
    BY <1>6 DEF VerifyObject, bucket
  <2>2. u \notin multiparts /\ job'[r].upload = u
    BY <1>6, <1>c, <1>m, <1>u DEF VerifyObject, Closed, Staging
  <2>3. RowsSettle(r)
    <3>1. CASE UNCHANGED uploads
      BY <3>1 DEF RowsSettle
    <3>2. CASE UpdateSession(u, [uploads[u] EXCEPT !.hashed = TRUE])
      <4> DEFINE row == [uploads[u] EXCEPT !.hashed = TRUE]
      <4>1. u \in Uploads => uploads[u] \in Sessions
        BY <1>0, RowTypes
      <4>2. u \in Uploads => row \in Sessions /\ row.status = uploads[u].status /\ row.s3 = uploads[u].s3
        BY <4>1 DEF Sessions
      <4> HIDE DEF row
      <4>3. \A v \in Uploads : uploads'[v] = uploads[v]
              \/ (v = u /\ uploads'[v].status = uploads[v].status /\ uploads'[v].s3 = uploads[v].s3)
        BY <1>0, <3>2, <4>2, RowIsWritten DEF row
      <4> QED
        BY <2>1, <2>2, <4>3 DEF RowsSettle, OpenInv, ActiveKnowsItsUpload, IsActive
    <3> QED
      BY <1>6, <1>u, <3>1, <3>2 DEF VerifyObject
  <2>4. \A v : ~Closes(r, v)
    BY <2>1 DEF Closes
  <2> QED
    BY <2>1, <2>2, <2>3, <2>4 DEF OpenMoves
<1>7. CASE CopyObject(r) \/ InsertFails(r) \/ InsertConflict(r) \/ CleanupFailure(r) \/ DedupCleanup(r)
  <2>1. UNCHANGED <<uploads, multiparts>>
    BY <1>7 DEF CopyObject, InsertFails, InsertConflict, CleanupFailure, DedupCleanup, bucket
  <2>2. pc[r] \in {"copy", "insert", "cleanup", "dedup_cleanup"}
    BY <1>7 DEF CopyObject, InsertFails, InsertConflict, CleanupFailure, DedupCleanup
  <2>3. job'[r].upload = u
    BY <1>7, <1>m, <1>u DEF CopyObject, InsertFails, InsertConflict, CleanupFailure, DedupCleanup
  <2>4. u \notin multiparts
    BY <1>c, <2>2 DEF Closed, Staging
  <2> QED
    BY <2>1, <2>2, <2>3, <2>4, OpenAlone
<1>8. CASE InsertFile(r) \/ ReuseWinner(r)
  <2>1. UNCHANGED multiparts /\ pc[r] \in {"insert", "reuse"}
    BY <1>8 DEF InsertFile, ReuseWinner, bucket
  <2>2. u \notin multiparts
    BY <1>c, <2>1 DEF Closed, Staging
  <2>3. job'[r].upload = u \/ pc'[r] = "idle"
    BY <1>8, <1>m, <1>u DEF InsertFile, ReuseWinner
  <2>4. RowsSettle(r)
    <3>1. CASE UNCHANGED uploads
      BY <3>1 DEF RowsSettle
    <3>2. ASSUME NEW f \in Uploads \cup {Nil}, UpdateSession(u, CompletedWith(u, f))
          PROVE  RowsSettle(r)
      <4>1. u \in Uploads => CompletedWith(u, f) \in Sessions /\ CompletedWith(u, f).status = "Completed"
        BY <1>0, WrittenRows
      <4>2. \A v \in Uploads : uploads'[v] = uploads[v] \/ (v = u /\ uploads'[v].status = "Completed")
        BY <1>0, <3>2, <4>1, RowIsWritten
      <4> QED
        BY <2>1, <2>2, <4>2, StatusSets DEF RowsSettle
    <3>3. u \in Uploads /\ job[r].file \in Uploads \cup {Nil}
      <4>1. pc[r] \in LockedSteps
        BY <2>1 DEF LockedSteps
      <4> QED
        BY <1>0, <1>u, <4>1 DEF Inv, Exclusion, WorkingHolds, Jobs
    <3> QED
      BY <1>8, <1>u, <3>1, <3>2, <3>3 DEF InsertFile, ReuseWinner
  <2>5. \A v : ~Closes(r, v)
    BY <2>1 DEF Closes
  <2> QED
    BY <1>i, <2>1, <2>2, <2>3, <2>4, <2>5 DEF OpenMoves
<1>9. CASE Terminalize(r)
  <2>1. UNCHANGED multiparts /\ pc[r] = "terminalize" /\ pc'[r] = "idle"
    BY <1>9, <1>m DEF Terminalize, bucket
  <2>2. RowsSettle(r)
    <3>1. CASE UNCHANGED uploads
      BY <3>1 DEF RowsSettle
    <3>2. CASE UpdateSession(u, Ended(u, job[r].next))
      <4>1. job[r].next \in {"Aborted", "Completing", "Retryable"}
        BY <1>0 DEF Jobs
      <4>2. u \in Uploads => Ended(u, job[r].next) \in Sessions
        BY <1>0, <4>1, WrittenRows
      <4>3. CASE job[r].next = "Aborted"
        <5>1. u \notin multiparts
          BY <1>c, <2>1, <4>3 DEF Closed
        <5>2. \A v \in Uploads : uploads'[v] = uploads[v] \/ (v = u /\ uploads'[v].status = "Aborted")
          <6>1. u \in Uploads => Ended(u, job[r].next).status = "Aborted"
            <7>1. u \in Uploads => Aborted(u, "failed").status = "Aborted"
              BY <1>0, RowTypes DEF Aborted, Sessions
            <7> QED
              BY <4>3, <7>1 DEF Ended
          <6> QED
            BY <1>0, <3>2, <4>2, <6>1, RowIsWritten
        <5> QED
          BY <2>1, <5>1, <5>2, StatusSets DEF RowsSettle
      <4>4. CASE job[r].next # "Aborted"
        <5>1. u \in Uploads => Ended(u, job[r].next).status = "Completing"
          <6>1. u \in Uploads => uploads[u] \in Sessions
            BY <1>0, RowTypes
          <6> QED
            BY <4>4, <6>1 DEF Ended, Sessions
        <5>2. \A v \in Uploads : uploads'[v] = uploads[v] \/ uploads'[v].status = "Completing"
          BY <1>0, <3>2, <4>2, <5>1, RowIsWritten
        <5> QED
          BY <5>2, StatusSets DEF RowsSettle, Accounted
      <4> QED
        BY <4>3, <4>4
    <3> QED
      BY <1>9, <1>u, <3>1, <3>2 DEF Terminalize
  <2>3. \A v : ~Closes(r, v)
    BY <2>1 DEF Closes
  <2> QED
    BY <1>i, <2>1, <2>2, <2>3 DEF OpenMoves
<1>10. CASE DedupFind(r)
  <2>1. UNCHANGED <<uploads, multiparts>> /\ pc[r] = "dedup_find"
    BY <1>10 DEF DedupFind, bucket
  <2>2. job'[r].upload = u \/ pc'[r] = "idle"
    <3>1. \A f : Local(r, [job[r] EXCEPT !.file = f]) => job'[r].upload = u
      BY <1>0, <1>u DEF Local, TypeOK, Jobs
    <3> QED
      BY <1>10, <1>m, <1>u, <3>1 DEF DedupFind
  <2>3. u \notin multiparts
    BY <1>c, <2>1 DEF Closed
  <2> QED
    BY <1>i, <2>1, <2>2, <2>3, OpenAlone
<1>11. CASE Finish(r) \/ ReturnBusy(r)
  <2>1. UNCHANGED <<uploads, multiparts>> /\ pc[r] \in {"finish", "busy"} /\ pc'[r] = "idle"
    BY <1>11, <1>m DEF Finish, ReturnBusy, bucket
  <2> QED
    BY <1>i, <2>1, OpenAlone
<1>12. CASE AbortCleanup(r)
  <2>1. UNCHANGED uploads /\ multiparts' \subseteq multiparts /\ pc'[r] = "idle"
    BY <1>12, <1>m DEF AbortCleanup, DiscardStaged, BestEffort
  <2>2. \A v \in multiparts' : ~Closes(r, v)
    BY <1>12 DEF AbortCleanup, DiscardStaged, BestEffort, Closes
  <2> QED
    BY <1>i, <2>1, <2>2 DEF RowsSettle, OpenMoves
<1> QED
  BY <1>1, <1>2, <1>3, <1>4, <1>5, <1>6, <1>7, <1>8, <1>9, <1>10, <1>11, <1>12 DEF Handle

\* The sweep and the file store.
LEMMA OpenOthers ==
  ASSUME OpenInv, UNCHANGED <<pc, job>>, multiparts' \subseteq multiparts,
         \A v \in Uploads :
           \/ uploads'[v] = uploads[v]
           \/ /\ uploads'[v].status \in Active => uploads'[v].s3
              /\ v \in multiparts' => Accounted(v)',
         multiparts' \subseteq Uploads
  PROVE  (OpenIsAccounted /\ ActiveKnowsItsUpload /\ StoredIsClosed)'
<1>1. ASSUME NEW v \in multiparts', uploads'[v] = uploads[v]
      PROVE  Accounted(v)' \/ \E s \in Requests : Closes(s, v)'
  <2>1. Accounted(v) => Accounted(v)'
    BY <1>1 DEF Accounted, Forgotten
  <2>2. \A s : Closes(s, v) => Closes(s, v)'
    BY <1>1 DEF Closes
  <2> QED
    BY <1>1, <2>1, <2>2 DEF OpenInv, OpenIsAccounted
<1>2. OpenIsAccounted'
  BY <1>1 DEF OpenIsAccounted
<1>3. ActiveKnowsItsUpload'
  BY DEF OpenInv, ActiveKnowsItsUpload, IsActive
<1>4. StoredIsClosed'
  BY DEF OpenInv, StoredIsClosed, Closed
<1> QED
  BY <1>2, <1>3, <1>4

\* What a sweep holds after a step of its own.
LEMMA SweptMoves ==
  ASSUME OpenInv, TypeOK, NEW p \in Sweepers, UNCHANGED minted, multiparts' \subseteq multiparts,
         \A q \in Sweepers : q # p => sweep'[q] = sweep[q],
         sweep'[p].soft \cup sweep'[p].hard \subseteq minted,
         sweep'[p].swept \in sweep'[p].soft => sweep'[p].swept \notin multiparts',
         sweep'[p].hard \cap multiparts' = {}
  PROVE  SweptIsClosed'
<1> SUFFICES ASSUME NEW q \in Sweepers
             PROVE  /\ sweep'[q].soft \cup sweep'[q].hard \subseteq minted'
                    /\ sweep'[q].swept \in sweep'[q].soft => sweep'[q].swept \notin multiparts'
                    /\ sweep'[q].hard \cap multiparts' = {}
  BY DEF SweptIsClosed
<1>1. CASE q = p
  BY <1>1
<1>2. CASE q # p
  BY <1>2 DEF OpenInv, SweptIsClosed
<1> QED
  BY <1>1, <1>2

\* A sweep that has dealt with a session, or ends.
LEMMA DropMoves ==
  ASSUME OpenInv, TypeOK, NEW p \in Sweepers, NEW u, UNCHANGED <<minted, multiparts>>,
         Drop(p, u) \/ sweep' = [sweep EXCEPT ![p] = NoSweep]
  PROVE  SweptIsClosed'
<1>1. sweep' = [sweep EXCEPT ![p] = Without(p, u)] \/ sweep' = [sweep EXCEPT ![p] = NoSweep]
  BY DEF Drop
<1>2. \A q \in Sweepers : q # p => sweep'[q] = sweep[q]
  BY <1>1 DEF TypeOK
<1>3. sweep'[p] \in {Without(p, u), NoSweep}
  BY <1>1 DEF TypeOK
<1>4. sweep[p] \in Sweeps
  BY DEF TypeOK
<1>5. /\ sweep'[p].soft \subseteq sweep[p].soft /\ sweep'[p].hard \subseteq sweep[p].hard
      /\ sweep'[p].swept = Nil
  <2> DEFINE rest == [sweep[p] EXCEPT !.soft = @ \ {u}, !.stale = @ \ {u}, !.hard = @ \ {u},
                                      !.keyed = @ \ {u}, !.swept = Nil]
  <2>1. /\ rest.soft \subseteq sweep[p].soft /\ rest.hard \subseteq sweep[p].hard
        /\ rest.swept = Nil
    BY <1>4 DEF Sweeps
  <2>2. Without(p, u) \in {rest, NoSweep}
    BY DEF Without
  <2> HIDE DEF rest
  <2> QED
    BY <1>3, <2>1, <2>2 DEF NoSweep
<1>6. Nil \notin sweep'[p].soft
  BY <1>4, <1>5, MultipartConstants DEF Sweeps
<1> QED
  BY <1>2, <1>5, <1>6, SweptMoves DEF OpenInv, SweptIsClosed

LEMMA SweepOpens ==
  ASSUME Inv, OpenInv, BucketAnswers, NEW p \in Sweepers, Sweep(p) \/ CancelSweep(p)
  PROVE  OpenInv'
<1> USE DEF BucketAnswers
<1>0. TypeOK /\ sweep[p] \in Sweeps /\ sweep[p].at \in Nat
  BY SweepTypes DEF Inv, TypeOK
<1>1. UNCHANGED <<pc, job, minted>> /\ multiparts' \subseteq multiparts /\ multiparts' \subseteq Uploads
  BY <1>0
     DEF Sweep, SweepSelect, SoftObjects, SoftRow, StaleObjects, StaleRow, HardDelete, CancelSweep,
         DiscardStaged, BestEffort, bucket, TypeOK
<1>2. UNCHANGED uploads => (OpenIsAccounted /\ ActiveKnowsItsUpload /\ StoredIsClosed)'
  BY <1>1, OpenOthers
<1>s. ASSUME NEW w, sweep' = [sweep EXCEPT ![p] = w]
      PROVE  sweep'[p] = w /\ \A q \in Sweepers : q # p => sweep'[q] = sweep[q]
  BY <1>0, <1>s DEF TypeOK
<1>3. CASE SweepSelect(p)
  <2> DEFINE w == [at |-> now, soft |-> SoftTargets, stale |-> StaleTargets,
                   keyed |-> {u \in StaleTargets : uploads[u].hashed}, hard |-> HardTargets,
                   swept |-> Nil]
  <2>1. sweep' = [sweep EXCEPT ![p] = w] /\ UNCHANGED <<uploads, multiparts>>
    BY <1>3 DEF SweepSelect, bucket
  <2>2. sweep'[p] = w
    BY <1>s, <2>1
  <2>3. SoftTargets \cup HardTargets \subseteq minted
    BY StatusSets DEF SoftTargets, HardTargets, Inv, Exclusion, RowsAreMinted, HasRow, IsActive
  <2>4. HardTargets \cap multiparts = {}
    BY StatusSets DEF HardTargets, OpenInv, OpenIsAccounted, Accounted, Closes
  <2>5. Nil \notin SoftTargets
    BY MultipartConstants DEF SoftTargets
  <2>6. sweep'[p].soft = SoftTargets /\ sweep'[p].hard = HardTargets /\ sweep'[p].swept = Nil
    BY <2>2
  <2>7. \A q \in Sweepers : q # p => sweep'[q] = sweep[q]
    BY <1>s, <2>1
  <2>8. SweptIsClosed'
    BY <1>0, <1>1, <2>1, <2>3, <2>4, <2>5, <2>6, <2>7, SweptMoves
  <2> QED
    BY <1>2, <2>1, <2>8 DEF OpenInv
<1>4. CASE SoftObjects(p)
  <2>1. PICK u \in sweep[p].soft : DiscardStaged(u, TRUE) /\ sweep' = [sweep EXCEPT ![p].swept = u]
    BY <1>4 DEF SoftObjects
  <2>2. /\ sweep'[p] = [sweep[p] EXCEPT !.swept = u]
        /\ \A q \in Sweepers : q # p => sweep'[q] = sweep[q]
    BY <1>0, <2>1 DEF TypeOK
  <2>3. sweep'[p].soft = sweep[p].soft /\ sweep'[p].hard = sweep[p].hard /\ sweep'[p].swept = u
    BY <1>0, <2>2 DEF Sweeps
  <2>4. u \notin multiparts'
    BY <2>1 DEF DiscardStaged, BestEffort
  <2>5. SweptIsClosed'
    BY <1>0, <1>1, <2>2, <2>3, <2>4, SweptMoves DEF OpenInv, SweptIsClosed
  <2>6. UNCHANGED uploads
    BY <1>4 DEF SoftObjects
  <2> QED
    BY <1>2, <2>5, <2>6 DEF OpenInv
<1>5. CASE SoftRow(p)
  <2> DEFINE u == sweep[p].swept
             row == [uploads[u] EXCEPT !.status = "Expired", !.s3 = FALSE, !.reason = "ttl_purged",
                                       !.expiredAt = sweep[p].at]
  <2>1. u \in Uploads /\ u \notin multiparts /\ UNCHANGED multiparts /\ Drop(p, u)
    BY <1>0, <1>5 DEF SoftRow, bucket, Sweeps, OpenInv, SweptIsClosed
  <2>2. SweptIsClosed'
    BY <1>0, <1>1, <2>1, DropMoves
  <2>3. \A v \in Uploads : uploads'[v] = uploads[v] \/ (v = u /\ uploads'[v].status = "Expired")
    <3>1. CASE UNCHANGED uploads
      BY <3>1
    <3>2. CASE SweepSession(p, u, row)
      <4>1. uploads[u] \in Sessions
        BY <1>0, <2>1, RowTypes
      <4>2. [row EXCEPT !.updatedAt = sweep[p].at].status = "Expired"
        <5> HIDE DEF u
        <5> QED
          BY <1>0, <4>1 DEF Sessions
      <4> HIDE DEF row
      <4> QED
        BY <1>0, <2>1, <3>2, <4>2 DEF SweepSession, TypeOK
    <3> QED
      BY <1>5, <3>1, <3>2 DEF SoftRow
  <2>4. \A v \in Uploads :
          \/ uploads'[v] = uploads[v]
          \/ uploads'[v].status \notin Active /\ v \notin multiparts'
    BY <2>1, <2>3, StatusSets
  <2> QED
    BY <1>1, <2>2, <2>4, OpenOthers DEF OpenInv
<1>6. CASE StaleObjects(p)
  <2>1. PICK u \in sweep[p].stale : sweep' = [sweep EXCEPT ![p].swept = u]
    BY <1>6 DEF StaleObjects
  <2>2. /\ sweep'[p] = [sweep[p] EXCEPT !.swept = u]
        /\ \A q \in Sweepers : q # p => sweep'[q] = sweep[q]
    BY <1>0, <2>1 DEF TypeOK
  <2>3. sweep'[p].soft = {} /\ sweep'[p].hard = sweep[p].hard
    BY <1>0, <1>6, <2>2 DEF Sweeps, StaleObjects
  <2>4. SweptIsClosed'
    BY <1>0, <1>1, <2>2, <2>3, SweptMoves DEF OpenInv, SweptIsClosed
  <2>5. UNCHANGED uploads
    BY <1>6 DEF StaleObjects
  <2> QED
    BY <1>2, <2>4, <2>5 DEF OpenInv
<1>7. CASE StaleRow(p)
  <2> DEFINE u == sweep[p].swept
             row == Aborted(u, "complete_stale_aborted")
  <2>1. u \in Uploads /\ UNCHANGED multiparts
    BY <1>0, <1>7, SweepTypes DEF StaleRow, bucket
  <2>2. SweptIsClosed'
    <3>1. Drop(p, u) \/ sweep' = [sweep EXCEPT ![p] = NoSweep]
      BY <1>7 DEF StaleRow
    <3> QED
      BY <1>0, <1>1, <2>1, <3>1, DropMoves
  <2>3. \A v \in Uploads : uploads'[v] = uploads[v]
          \/ (uploads'[v].status = "Aborted" /\ uploads'[v].reason = "complete_stale_aborted")
    <3>1. CASE UNCHANGED uploads
      BY <3>1
    <3>2. CASE SweepSession(p, u, row)
      <4>1. uploads[u] \in Sessions
        BY <1>0, <2>1, RowTypes
      <4>2. /\ [row EXCEPT !.updatedAt = sweep[p].at].status = "Aborted"
            /\ [row EXCEPT !.updatedAt = sweep[p].at].reason = "complete_stale_aborted"
        <5> HIDE DEF u
        <5> QED
          BY <1>0, <4>1 DEF Sessions, Aborted
      <4> HIDE DEF row
      <4> QED
        BY <1>0, <2>1, <3>2, <4>2 DEF SweepSession, TypeOK
    <3> QED
      BY <1>7, <3>1, <3>2 DEF StaleRow, AbortStale
  <2>4. \A v \in Uploads :
          \/ uploads'[v] = uploads[v]
          \/ uploads'[v].status \notin Active /\ Accounted(v)'
    BY <2>3, StatusSets DEF Accounted, Forgotten
  <2> QED
    BY <1>1, <2>2, <2>4, OpenOthers DEF OpenInv
<1>8. CASE HardDelete(p)
  <2>1. PICK u \in sweep[p].hard :
          /\ uploads' = [uploads EXCEPT ![u] = NoSession] \/ UNCHANGED uploads
          /\ Drop(p, u)
    BY <1>8 DEF HardDelete
  <2>2. UNCHANGED multiparts
    BY <1>8 DEF HardDelete, bucket
  <2>3. SweptIsClosed'
    BY <1>0, <1>1, <2>1, <2>2, DropMoves
  <2>4. u \notin multiparts
    BY <2>1 DEF OpenInv, SweptIsClosed
  <2>5. \A v \in Uploads :
          \/ uploads'[v] = uploads[v]
          \/ uploads'[v].status \notin Active /\ v \notin multiparts'
    BY <1>0, <2>1, <2>2, <2>4, StatusSets DEF TypeOK, NoSession
  <2> QED
    BY <1>1, <2>3, <2>5, OpenOthers DEF OpenInv
<1>9. CASE CancelSweep(p)
  <2>1. UNCHANGED <<uploads, multiparts>> /\ sweep' = [sweep EXCEPT ![p] = NoSweep]
    BY <1>9 DEF CancelSweep, bucket
  <2>2. SweptIsClosed'
    BY <1>0, <1>1, <2>1, DropMoves
  <2> QED
    BY <1>2, <2>1, <2>2 DEF OpenInv
<1> QED
  BY <1>3, <1>4, <1>5, <1>6, <1>7, <1>8, <1>9 DEF Sweep

\* Whatever races, loses, fails in the database or sends the wrong bytes, and whatever the sweep
\* does meanwhile: a session that nobody works on leaves no staged object, a final object
\* only when there is a file it is the object of, and an open multipart upload only where the
\* stale sweep, or an abort that was told its commit failed, forgot it
\* (cleanup_complete_failure, complete_upload_dedup, cleanup_abort_s3_objects, purge_uploads).
THEOREM SessionsLeaveNothing ==
  ASSUME BucketAnswers, NoCrash
  PROVE  Spec => []NothingLeftBehind
<1>1. Init => LeftInv
  BY DEF Init, LeftInv, StagedIsHeld, FinalIsOwned
<1>2. Inv /\ LeftInv /\ [Next]_vars => LeftInv'
  <2> SUFFICES ASSUME Inv, LeftInv, [Next]_vars
               PROVE  LeftInv'
    OBVIOUS
  <2>0. TypeOK
    BY DEF Inv
  <2>1. ASSUME NEW p \in Sweepers, Sweep(p) \/ CancelSweep(p)
        PROVE  LeftInv'
    <3>1. UNCHANGED <<pc, job, files>> /\ temp' \subseteq temp /\ final' \subseteq final
      BY <2>1
         DEF Sweep, SweepSelect, SoftObjects, SoftRow, StaleObjects, StaleRow, HardDelete,
             CancelSweep, DiscardStaged, CleanupBoth, BestEffort, bucket
    <3> QED
      BY <3>1, LeftByOthers
  <2>2. CASE Environment
    <3>1. PICK f \in Uploads : DeleteFile(f) \/ ExpireFile(f) \/ PurgeFile(f)
      BY <2>2 DEF Environment
    <3>2. UNCHANGED <<pc, job, temp>> /\ final' \subseteq final
      BY <3>1 DEF DeleteFile, ExpireFile, PurgeFile, bucket
    <3>3. \A u \in final' : files'[u].status = "none" => files[u].status = "none"
      BY <2>0, <3>1 DEF DeleteFile, ExpireFile, PurgeFile, TypeOK, FileRows, bucket
    <3> QED
      BY <3>2, <3>3, LeftByOthers
  <2>3. CASE Tick \/ UNCHANGED vars
    BY <2>3, LeftByOthers DEF Tick, vars, bucket
  <2> QED
    BY <2>1, <2>2, <2>3, RequestLeaves DEF Next
<1>3. Init => OpenInv
  <2> SUFFICES ASSUME Init PROVE OpenInv
    OBVIOUS
  <2>1. OpenIsAccounted /\ StoredIsClosed
    BY DEF Init, OpenIsAccounted, StoredIsClosed
  <2>2. ActiveKnowsItsUpload
    BY StatusSets DEF Init, ActiveKnowsItsUpload, IsActive, NoSession
  <2>3. SweptIsClosed
    BY DEF Init, SweptIsClosed, NoSweep
  <2> QED
    BY <2>1, <2>2, <2>3 DEF OpenInv
<1>4. Inv /\ OpenInv /\ [Next]_vars => OpenInv'
  <2> SUFFICES ASSUME Inv, OpenInv, [Next]_vars
               PROVE  OpenInv'
    OBVIOUS
  <2>0. TypeOK /\ multiparts' \subseteq Uploads
    BY TypeStep DEF Inv, Exclusion, TypeOK
  <2>1. ASSUME NEW r \in Requests, Start(r) \/ Handle(r)
        PROVE  OpenInv'
    <3>1. RowsSettle(r) /\ OpenMoves(r) /\ OnlyMoves(r)
      BY <2>1, StartOpens, HandleOpens, StartMoves, HandleMoves DEF Moves
    <3>2. UNCHANGED sweep
      BY <2>1
         DEF Start, CreateMultipart, RegisterPart, CompleteRead, AbortUpload, Handle, PersistUpload,
             AbortInitiated, RegisterCommit, CompleteLock, StoreMultipart, VerifyObject, CopyObject,
             InsertFile, InsertFails, InsertConflict, CleanupFailure, Terminalize, DedupCleanup,
             DedupFind, ReuseWinner, Finish, ReturnBusy, AbortCleanup
    <3>3. (OpenIsAccounted /\ ActiveKnowsItsUpload /\ StoredIsClosed)'
      BY <2>0, <3>1, OpenStep
    <3>4. SweptIsClosed'
      BY <3>1, <3>2, SweptStays DEF OpenMoves, OnlyMoves
    <3> QED
      BY <3>3, <3>4 DEF OpenInv
  <2>2. ASSUME NEW r \in Requests, Cancel(r)
        PROVE  OpenInv'
    BY <2>2 DEF Cancel, NoCrash
  <2>3. CASE Environment \/ Tick \/ UNCHANGED vars
    <3>1. UNCHANGED <<pc, job, uploads, multiparts, sweep, minted>>
      BY <2>3 DEF Environment, DeleteFile, ExpireFile, PurgeFile, Tick, vars, bucket
    <3> QED
      BY <2>0, <3>1, OpenOthers, SweptStays DEF OpenInv
  <2> QED
    BY <2>1, <2>2, <2>3, SweepOpens DEF Next
<1>5. LeftInv /\ OpenInv => NothingLeftBehind
  <2> SUFFICES ASSUME LeftInv, OpenInv, NEW u \in Uploads,
                      uploads[u].status \in Over \cup {"none"}, Untouched(u)
               PROVE  /\ u \notin temp
                      /\ u \in final => files[u].status # "none"
                      /\ u \in multiparts => Forgotten(u)
    BY DEF NothingLeftBehind, Forgotten
  <2>1. u \notin temp
    BY DEF LeftInv, StagedIsHeld, Stages, Untouched
  <2>2. u \in final => files[u].status # "none"
    BY DEF LeftInv, FinalIsOwned, Copied, Untouched
  <2>3. u \in multiparts => Accounted(u)
    BY DEF OpenInv, OpenIsAccounted, Closes, Untouched
  <2>4. uploads[u].status \notin Active \cup {"Completing"}
    BY DEF Over, Active
  <2> QED
    BY <2>1, <2>2, <2>3, <2>4 DEF Accounted
<1> QED
  BY <1>1, <1>2, <1>3, <1>4, <1>5, Invariant, PTL DEF Spec

----------------------------------------------------------------------------
(* A live file has its object *)

\* The commit of a completion is not reported as an error when it took effect.
CommitsAreReported == "lost_commit" \notin Faults

\* A completion ends within StaleAfter of its lock.
CompletionsAreQuick == ~SlowCompletions

HasFile(u) == files[u].status # "none"

Live == {"active", "deleted"}

Open(u) == uploads[u].status \in Active \cup {"Completing"}

\* Nobody works on u, nobody will, and no file came of it.
Abandoned(u) ==
  /\ u \in minted /\ ~IsActive(u) /\ ~HasFile(u)
  /\ \A r \in Requests : pc[r] \in LockedSteps \cup {"persist"} => job[r].upload # u

FilesAreMinted == \A u \in Uploads : HasFile(u) => u \in minted

NoFileYet ==
  \A r \in Requests :
    pc[r] \in (LockedSteps \ {"finish"}) \cup {"persist"} => ~HasFile(job[r].upload)

OpenHasNoFile == \A u \in Uploads : Open(u) => ~HasFile(u)

\* What a sweep has selected as stale is: it may delete the final object.
StaleIsAbandoned == \A p \in Sweepers : \A u \in sweep[p].stale : Abandoned(u)

\* A completion that runs was locked at most StaleAfter ago, and its session was written
\* to since.
CompletesInTime ==
  \A r \in Requests : pc[r] \in LockedSteps =>
    /\ job[r].at <= now /\ now <= job[r].at + StaleAfter
    /\ uploads[job[r].upload].status = "Completing" => job[r].at <= uploads[job[r].upload].updatedAt

CopyIsThere == \A r \in Requests : pc[r] = "insert" => job[r].upload \in final

LiveInv ==
  /\ FilesAreMinted
  /\ NoFileYet
  /\ OpenHasNoFile
  /\ StaleIsAbandoned
  /\ CompletesInTime
  /\ CopyIsThere
  /\ LiveFileHasObject

\* What every step does that matters to LiveInv; r takes it, or is no request.
Inserts(r, u) ==
  /\ r \in Requests /\ pc[r] = "insert" /\ job[r].upload = u
  /\ pc'[r] \notin (LockedSteps \ {"finish"}) \cup {"persist"}
  /\ ~Open(u)'

FileMoves(r) ==
  \A u \in Uploads :
    /\ HasFile(u)' => HasFile(u) \/ Inserts(r, u)
    /\ files'[u].status \in Live => files[u].status \in Live \/ Inserts(r, u)

RowMoves(r) ==
  \A u \in Uploads : uploads'[u].status = "Completing" =>
    \/ uploads[u].status = "Completing" /\ uploads'[u].updatedAt = uploads[u].updatedAt
    \/ /\ uploads'[u].updatedAt = now
       /\ Open(u) \/ (r \in Requests /\ pc[r] \in LockedSteps \ {"finish"} /\ job[r].upload = u)

\* An object that is removed belongs to no live file, and to no completion about to
\* make one.
ObjectMoves ==
  \A u \in final :
    \/ u \in final'
    \/ /\ files'[u].status \notin Live
       /\ \A s \in Requests : pc[s] = "insert" => job[s].upload # u

CopyMoves(r) ==
  r \in Requests /\ pc'[r] = "insert" =>
    (pc[r] = "insert" /\ job'[r] = job[r]) \/ job'[r].upload \in final'

TimeMoves(r) ==
  r \in Requests /\ pc'[r] \in LockedSteps =>
    \/ pc[r] \in LockedSteps /\ job'[r].at = job[r].at
    \/ pc[r] \notin LockedSteps /\ job'[r].at = now

StaleMoves == \A p \in Sweepers : sweep'[p].stale \subseteq sweep[p].stale \cup StaleTargets

Settles(r) ==
  FileMoves(r) /\ RowMoves(r) /\ ObjectMoves /\ CopyMoves(r) /\ TimeMoves(r) /\ StaleMoves

\* Where a completion or an initiation came from.
LEMMA HeldFrom ==
  ASSUME Inv, NEW r, Moves(r), NEW q \in Requests, pc'[q] \in LockedSteps \cup {"persist"}
  PROVE  \/ pc[q] \in LockedSteps /\ pc'[q] \in LockedSteps /\ job'[q].upload = job[q].upload
            /\ (pc[q] = "finish" => pc'[q] = "finish")
         \/ pc[q] = "persist" /\ pc'[q] = "persist" /\ job'[q].upload = job[q].upload
         \/ q = r /\ pc'[q] \in LockedSteps /\ IsActive(job'[q].upload)
            /\ job'[q].upload \in Uploads /\ uploads'[job'[q].upload].status = "Completing"
         \/ q = r /\ pc'[q] = "persist" /\ job'[q].upload \in Uploads /\ job'[q].upload \notin minted
<1>1. CASE q = r
  BY <1>1, StatusSets DEF Moves, LocalMoves
<1>2. CASE q # r
  BY <1>2 DEF Moves, OnlyMoves
<1> QED
  BY <1>1, <1>2

\* An abandoned session stays so.
LEMMA AbandonedStays ==
  ASSUME Inv, NEW r, Moves(r), FileMoves(r), NEW u \in Uploads, Abandoned(u)
  PROVE  Abandoned(u)'
<1>1. u \in minted'
  BY DEF Abandoned, Moves, OnlyMoves
<1>2. ~IsActive(u)'
  BY DEF Abandoned, Moves, StatusMoves, IsActive
<1>3. ~HasFile(u)'
  BY DEF Abandoned, FileMoves, Inserts, LockedSteps
<1>4. ASSUME NEW q \in Requests, pc'[q] \in LockedSteps \cup {"persist"}
      PROVE  job'[q].upload # u
  BY <1>4, HeldFrom DEF Abandoned
<1> QED
  BY <1>1, <1>2, <1>3, <1>4 DEF Abandoned

\* What a sweep selects as stale is abandoned: a completion still running has written to its
\* session less than StaleAfter ago.
LEMMA StaleTargetsAbandoned ==
  ASSUME Inv, LiveInv, NEW u \in StaleTargets
  PROVE  Abandoned(u)
<1>1. u \in Uploads /\ uploads[u].status = "Completing" /\ uploads[u].updatedAt + StaleAfter < now
  BY DEF StaleTargets, IsStale
<1>2. u \in minted /\ ~IsActive(u) /\ ~HasFile(u)
  BY <1>1, StatusSets DEF Inv, Exclusion, RowsAreMinted, HasRow, IsActive, LiveInv, OpenHasNoFile, Open
<1>3. ASSUME NEW q \in Requests, pc[q] \in LockedSteps, job[q].upload = u
      PROVE  FALSE
  <2>1. job[q].at <= uploads[u].updatedAt /\ now <= job[q].at + StaleAfter
    BY <1>1, <1>3 DEF LiveInv, CompletesInTime
  <2>2. job[q].at \in Nat /\ now \in Nat /\ uploads[u].updatedAt \in Nat /\ StaleAfter \in Nat
    BY <1>1, LocalsType, RowTypes, MultipartConstants DEF Inv, TypeOK, Sessions
  <2> QED
    BY <1>1, <2>1, <2>2
<1>4. ASSUME NEW q \in Requests, pc[q] = "persist"
      PROVE  job[q].upload # u
  BY <1>1, <1>4 DEF Inv, Exclusion, PersistIsFresh, HasRow
<1> QED
  BY <1>2, <1>3, <1>4 DEF Abandoned

LEMMA LiveStep ==
  ASSUME Inv, Inv', LiveInv, NEW r, Moves(r), Settles(r), now' = now
  PROVE  LiveInv'
<1>0. FileMoves(r) /\ RowMoves(r) /\ ObjectMoves /\ CopyMoves(r) /\ TimeMoves(r) /\ StaleMoves
  BY DEF Settles
<1>i. "insert" \in LockedSteps \ {"finish"}
  BY DEF LockedSteps
<1>1. FilesAreMinted'
  <2> SUFFICES ASSUME NEW u \in Uploads, HasFile(u)'
               PROVE  u \in minted'
    BY DEF FilesAreMinted
  <2>1. CASE HasFile(u)
    BY <2>1 DEF LiveInv, FilesAreMinted, Moves, OnlyMoves
  <2>2. CASE Inserts(r, u)
    BY <1>i, <2>2 DEF Inserts, Inv, Exclusion, WorkingHolds, Moves, OnlyMoves
  <2> QED
    BY <1>0, <2>1, <2>2 DEF FileMoves
<1>2. NoFileYet'
  <2> SUFFICES ASSUME NEW q \in Requests, pc'[q] \in (LockedSteps \ {"finish"}) \cup {"persist"},
                      NEW u, u = job'[q].upload
               PROVE  ~HasFile(u)'
    BY DEF NoFileYet, HasFile
  <2>1. u \in Uploads
    BY DEF Inv, Exclusion, WorkingHolds, PersistIsFresh
  <2>2. ~HasFile(u)
    BY <2>1, HeldFrom DEF LiveInv, NoFileYet, FilesAreMinted, OpenHasNoFile, Open, IsActive
  <2>3. ~Inserts(r, u)
    <3> SUFFICES ASSUME Inserts(r, u) PROVE FALSE
      OBVIOUS
    <3>1. q # r
      BY DEF Inserts
    <3>2. pc[q] = pc'[q] /\ job[q].upload = u
      BY <3>1 DEF Moves, OnlyMoves
    <3> QED
      BY <1>i, <3>1, <3>2 DEF Inserts, Inv, Exclusion, WorkingHolds, PersistIsFresh
  <2> QED
    BY <1>0, <2>1, <2>2, <2>3 DEF FileMoves
<1>3. OpenHasNoFile'
  <2> SUFFICES ASSUME NEW u \in Uploads, Open(u)'
               PROVE  ~HasFile(u)'
    BY DEF OpenHasNoFile
  <2>1. CASE uploads'[u].status \in Active
    <3>1. IsActive(u) \/ (r \in Requests /\ pc[r] = "persist" /\ job[r].upload = u)
      BY <2>1 DEF Moves, StatusMoves
    <3>2. ~HasFile(u)
      BY <3>1 DEF LiveInv, NoFileYet, OpenHasNoFile, Open, IsActive
    <3> QED
      BY <1>0, <3>2 DEF FileMoves, Inserts
  <2>2. CASE uploads'[u].status = "Completing"
    <3>1. Open(u) \/ (r \in Requests /\ pc[r] \in LockedSteps \ {"finish"} /\ job[r].upload = u)
      BY <1>0, <2>2 DEF RowMoves, Open
    <3>2. ~HasFile(u)
      BY <3>1 DEF LiveInv, NoFileYet, OpenHasNoFile
    <3> QED
      BY <1>0, <3>2 DEF FileMoves, Inserts
  <2> QED
    BY <2>1, <2>2 DEF Open
<1>4. StaleIsAbandoned'
  <2> SUFFICES ASSUME NEW p \in Sweepers, NEW u \in sweep'[p].stale
               PROVE  Abandoned(u)'
    BY DEF StaleIsAbandoned
  <2>1. u \in Uploads
    BY DEF Inv, TypeOK, Sweeps
  <2>2. Abandoned(u)
    BY <1>0, StaleTargetsAbandoned DEF StaleMoves, LiveInv, StaleIsAbandoned
  <2> QED
    BY <1>0, <2>1, <2>2, AbandonedStays
<1>5. CompletesInTime'
  <2> SUFFICES ASSUME NEW q \in Requests, pc'[q] \in LockedSteps, NEW u, u = job'[q].upload
               PROVE  /\ job'[q].at <= now /\ now <= job'[q].at + StaleAfter
                      /\ uploads'[u].status = "Completing" => job'[q].at <= uploads'[u].updatedAt
    BY DEF CompletesInTime
  <2>0. u \in Uploads /\ now \in Nat /\ StaleAfter \in Nat
    BY MultipartConstants DEF Inv, Exclusion, WorkingHolds, TypeOK
  <2>1. CASE pc[q] \in LockedSteps
    <3>1. job'[q].at = job[q].at
      BY <1>0, <2>1 DEF TimeMoves, Moves, OnlyMoves
    <3>2. job[q].at <= now /\ now <= job[q].at + StaleAfter
      BY <2>1 DEF LiveInv, CompletesInTime
    <3>3. ASSUME uploads'[u].status = "Completing"
          PROVE  job[q].at <= uploads'[u].updatedAt
      <4>1. CASE uploads'[u].updatedAt = now
        BY <3>2, <4>1
      <4>2. CASE uploads[u].status = "Completing" /\ uploads'[u].updatedAt = uploads[u].updatedAt
        <5>1. job[q].upload = u
          BY <2>1, <4>2, HeldFrom, StatusSets DEF IsActive
        <5> QED
          BY <2>1, <4>2, <5>1 DEF LiveInv, CompletesInTime
      <4> QED
        BY <1>0, <2>0, <3>3, <4>1, <4>2 DEF RowMoves
    <3> QED
      BY <3>1, <3>2, <3>3
  <2>2. CASE pc[q] \notin LockedSteps
    <3>1. q = r /\ IsActive(u)
      BY <2>2, HeldFrom, StatusSets
    <3>2. job'[q].at = now
      BY <1>0, <2>2, <3>1 DEF TimeMoves
    <3>3. uploads'[u].status = "Completing" => uploads'[u].updatedAt = now
      BY <1>0, <2>0, <3>1, StatusSets DEF RowMoves, IsActive
    <3> QED
      BY <2>0, <3>2, <3>3
  <2> QED
    BY <2>1, <2>2
<1>6. CopyIsThere'
  <2> SUFFICES ASSUME NEW q \in Requests, pc'[q] = "insert"
               PROVE  job'[q].upload \in final'
    BY DEF CopyIsThere
  <2>1. CASE pc[q] = "insert" /\ job'[q] = job[q]
    BY <1>0, <2>1 DEF LiveInv, CopyIsThere, ObjectMoves
  <2> QED
    BY <1>0, <2>1 DEF CopyMoves, Moves, OnlyMoves
<1>7. LiveFileHasObject'
  <2> SUFFICES ASSUME NEW u \in Uploads, files'[u].status \in Live
               PROVE  u \in final'
    BY DEF LiveFileHasObject, Live
  <2>1. u \in final
    BY <1>0 DEF FileMoves, Inserts, LiveInv, CopyIsThere, LiveFileHasObject, Live
  <2> QED
    BY <1>0, <2>1 DEF ObjectMoves
<1> QED
  BY <1>1, <1>2, <1>3, <1>4, <1>5, <1>6, <1>7 DEF LiveInv

----------------------------------------------------------------------------
(* What each step settles *)

LEMMA RowMovesBy ==
  ASSUME TypeOK, NEW r \in Requests, NEW u, NEW row, u \in Uploads => row \in Sessions,
         UpdateSession(u, row),
         u \in Uploads /\ row.status = "Completing" =>
           Open(u) \/ (pc[r] \in LockedSteps \ {"finish"} /\ job[r].upload = u)
  PROVE  RowMoves(r)
<1> SUFFICES ASSUME NEW v \in Uploads, uploads'[v].status = "Completing", uploads'[v] # uploads[v]
             PROVE  /\ uploads'[v].updatedAt = now
                    /\ Open(v) \/ (pc[r] \in LockedSteps \ {"finish"} /\ job[r].upload = v)
  BY DEF RowMoves
<1>1. v = u /\ uploads'[v] = [row EXCEPT !.updatedAt = now]
  BY DEF TypeOK, UpdateSession
<1>2. row \in Sessions
  BY <1>1
<1>3. uploads'[v].updatedAt = now /\ row.status = "Completing"
  BY <1>1, <1>2 DEF Sessions
<1> QED
  BY <1>1, <1>3

LEMMA SameRows ==
  ASSUME NEW r, UNCHANGED uploads
  PROVE  RowMoves(r)
BY DEF RowMoves

\* A request that is not completing, that returns, or whose completion goes on.
LEMMA TimeMovesBy ==
  ASSUME TypeOK, NEW r \in Requests,
         \/ UNCHANGED pc /\ pc[r] \notin LockedSteps
         \/ Quit(r)
         \/ \E s : Goto(r, s) /\ s \notin LockedSteps
         \/ pc[r] \in LockedSteps /\ UNCHANGED job
         \/ pc[r] \in LockedSteps /\ \E s, c, t : Fail(r, s, c, t)
  PROVE  TimeMoves(r)
<1>1. job[r] \in Jobs
  BY LocalsType
<1>2. ASSUME NEW s, NEW c, NEW t, Fail(r, s, c, t)
      PROVE  job'[r].at = job[r].at
  <2>1. job'[r] = [job[r] EXCEPT !.copied = c, !.next = t]
    BY <1>2 DEF TypeOK, Fail, Local
  <2> QED
    BY <1>1, <2>1 DEF Jobs
<1>3. "idle" \notin LockedSteps
  BY DEF LockedSteps
<1> QED
  BY <1>2, <1>3, MovesAre DEF TimeMoves

LEMMA SameFiles ==
  ASSUME NEW r, UNCHANGED files
  PROVE  FileMoves(r)
BY DEF FileMoves, HasFile

LEMMA SameObjects ==
  ASSUME final \subseteq final'
  PROVE  ObjectMoves
BY DEF ObjectMoves

LEMMA SameSweeps ==
  ASSUME UNCHANGED sweep
  PROVE  StaleMoves
BY DEF StaleMoves

\* A request that touches no file and no final object.
LEMMA CalmSettles ==
  ASSUME NEW r \in Requests, UNCHANGED <<files, final, sweep>>, RowMoves(r), TimeMoves(r),
         pc'[r] # "insert"
  PROVE  Settles(r)
BY SameFiles, SameObjects, SameSweeps DEF Settles, CopyMoves

\* The completion's own objects belong to no live file, and no other request works on
\* its session.
LEMMA OwnObjectMoves ==
  ASSUME Inv, LiveInv, NEW r \in Requests, pc[r] \in LockedSteps \ {"finish", "insert"},
         UNCHANGED files, \A v \in final : v # job[r].upload => v \in final'
  PROVE  ObjectMoves
<1> SUFFICES ASSUME NEW u \in final, u = job[r].upload
             PROVE  /\ files'[u].status \notin Live
                    /\ \A s \in Requests : pc[s] = "insert" => job[s].upload # u
  BY DEF ObjectMoves
<1>1. files'[u].status \notin Live
  BY DEF LiveInv, NoFileYet, HasFile, Live
<1>2. "insert" \in LockedSteps
  BY DEF LockedSteps
<1> QED
  BY <1>1, <1>2 DEF Inv, Exclusion, WorkingHolds

LEMMA StartSettles ==
  ASSUME Inv, NEW r \in Requests, Start(r)
  PROVE  Settles(r)
<1>0. TypeOK /\ pc[r] = "idle" /\ UNCHANGED <<files, final, sweep>>
  BY DEF Inv, Start, CreateMultipart, RegisterPart, CompleteRead, AbortUpload, bucket
<1>1. UNCHANGED pc \/ \E s \in {"persist", "register_write", "lock", "busy", "abort_cleanup"} : Goto(r, s)
  BY DEF Start, CreateMultipart, RegisterPart, CompleteRead, AbortUpload
<1>2. TimeMoves(r) /\ pc'[r] # "insert"
  BY <1>0, <1>1, TimeMovesBy, MovesAre DEF LockedSteps
<1>3. RowMoves(r)
  <2>1. CASE UNCHANGED uploads
    BY <2>1, SameRows
  <2>2. ASSUME NEW u \in Uploads, UpdateSession(u, Aborted(u, "aborted_by_user"))
        PROVE  RowMoves(r)
    <3>1. Aborted(u, "aborted_by_user") \in Sessions
      BY <1>0, WrittenRows
    <3>2. Aborted(u, "aborted_by_user").status = "Aborted"
      BY <1>0, RowTypes DEF Aborted, Sessions
    <3> QED
      BY <1>0, <2>2, <3>1, <3>2, RowMovesBy
  <2> QED
    BY <2>1, <2>2 DEF Start, CreateMultipart, RegisterPart, CompleteRead, AbortUpload
<1> QED
  BY <1>0, <1>2, <1>3, CalmSettles

\* The handlers around a completion.
LEMMA OutsideSettles ==
  ASSUME Inv, NEW r \in Requests,
         \/ PersistUpload(r) \/ AbortInitiated(r) \/ RegisterCommit(r) \/ CompleteLock(r)
         \/ Finish(r) \/ ReturnBusy(r) \/ AbortCleanup(r) \/ Cancel(r)
  PROVE  Settles(r)
<1>0. TypeOK
  BY DEF Inv
<1>1. CASE AbortInitiated(r) \/ Finish(r) \/ ReturnBusy(r) \/ AbortCleanup(r) \/ Cancel(r)
  <2>1. Quit(r) /\ UNCHANGED <<uploads, files, final, sweep>>
    BY <1>1 DEF AbortInitiated, Finish, ReturnBusy, AbortCleanup, Cancel, DiscardStaged, bucket
  <2> QED
    BY <1>0, <2>1, TimeMovesBy, MovesAre, SameRows, CalmSettles
<1>2. CASE PersistUpload(r)
  <2>1. /\ Quit(r) \/ Goto(r, "abort_initiated")
        /\ UNCHANGED <<files, final, sweep>>
    BY <1>2 DEF PersistUpload, bucket
  <2>2. TimeMoves(r) /\ pc'[r] # "insert"
    BY <1>0, <2>1, TimeMovesBy, MovesAre DEF LockedSteps
  <2>3. RowMoves(r)
    <3>1. CASE UNCHANGED uploads
      BY <3>1, SameRows
    <3>2. CASE InsertSession(r)
      <4>1. \A v \in Uploads : v # job[r].upload => uploads'[v] = uploads[v]
        BY <1>0, <3>2 DEF TypeOK, InsertSession
      <4>2. job[r].upload \in Uploads => uploads'[job[r].upload].status = "Initiated"
        BY <1>0, <3>2 DEF TypeOK, InsertSession, NoSession
      <4> QED
        BY <4>1, <4>2 DEF RowMoves
    <3> QED
      BY <1>2, <3>1, <3>2 DEF PersistUpload
  <2> QED
    BY <2>1, <2>2, <2>3, CalmSettles
<1>3. CASE RegisterCommit(r)
  <2> DEFINE u == job[r].upload
             row == [uploads[u] EXCEPT !.status = "InProgress", !.received = job[r].count]
  <2>1. Quit(r) /\ UNCHANGED <<files, final, sweep>> /\ (UNCHANGED uploads \/ UpdateSession(u, row))
    BY <1>3 DEF RegisterCommit, bucket
  <2>2. u \in Uploads
    BY <1>3 DEF Inv, Exclusion, RequestsNamed, RegisterCommit
  <2>3. row \in Sessions /\ row.status = "InProgress"
    BY <1>0, <2>2, RowTypes, LocalsType DEF Sessions, Active
  <2> HIDE DEF row
  <2>4. RowMoves(r)
    BY <1>0, <2>1, <2>2, <2>3, SameRows, RowMovesBy
  <2> QED
    BY <1>0, <2>1, <2>4, TimeMovesBy, MovesAre, CalmSettles
<1>4. CASE CompleteLock(r)
  <2> DEFINE u == job[r].upload
             row == [uploads[u] EXCEPT !.status = "Completing"]
  <2>1. /\ pc[r] = "lock" /\ UNCHANGED <<files, final, sweep>>
        /\ UNCHANGED uploads \/ (IsActive(u) /\ UpdateSession(u, row))
        /\ Quit(r) \/ (Goto(r, "store") /\ Local(r, [job[r] EXCEPT !.at = now]))
    BY <1>4 DEF CompleteLock, LockGuard, bucket
  <2>2. u \in Uploads => row \in Sessions
    BY <1>0, RowTypes DEF Sessions
  <2> HIDE DEF row
  <2>3. RowMoves(r)
    BY <1>0, <2>1, <2>2, SameRows, RowMovesBy DEF Open, IsActive
  <2>4. TimeMoves(r)
    <3>1. CASE Quit(r)
      BY <1>0, <3>1, TimeMovesBy
    <3>2. CASE Goto(r, "store") /\ Local(r, [job[r] EXCEPT !.at = now])
      <4>1. job'[r].at = now
        BY <1>0, <3>2, MovesAre, LocalsType DEF Jobs
      <4> QED
        BY <2>1, <4>1 DEF TimeMoves, LockedSteps
    <3> QED
      BY <2>1, <3>1, <3>2
  <2>5. pc'[r] # "insert"
    BY <1>0, <2>1, MovesAre
  <2> QED
    BY <2>1, <2>3, <2>4, <2>5, CalmSettles
<1> QED
  BY <1>1, <1>2, <1>3, <1>4

\* A completion until its transaction, and when it ends.
LEMMA ObjectsSettle ==
  ASSUME Inv, LiveInv, NEW r \in Requests,
         \/ StoreMultipart(r) \/ VerifyObject(r) \/ CopyObject(r) \/ InsertFails(r)
         \/ InsertConflict(r) \/ CleanupFailure(r) \/ DedupCleanup(r) \/ Terminalize(r)
  PROVE  Settles(r)
<1> DEFINE u == job[r].upload
<1>0. TypeOK
  BY DEF Inv
<1>g. \A s : Goto(r, s) => pc'[r] = s
  BY <1>0, MovesAre
<1>t. TimeMoves(r)
  <2>1. pc[r] \in LockedSteps
    BY LockedStepsAre
       DEF StoreMultipart, VerifyObject, CopyObject, InsertFails, InsertConflict, CleanupFailure,
           DedupCleanup, Terminalize
  <2>2. Quit(r) \/ UNCHANGED job \/ \E s, c, t : Fail(r, s, c, t)
    BY DEF StoreMultipart, VerifyObject, CopyObject, InsertFails, InsertConflict, CleanupFailure,
           DedupCleanup, Terminalize
  <2> QED
    BY <1>0, <2>1, <2>2, TimeMovesBy
<1>1. CASE StoreMultipart(r) \/ InsertFails(r) \/ InsertConflict(r)
  <2>1. UNCHANGED <<uploads, files, final, sweep>> /\ pc'[r] # "insert"
    BY <1>g, <1>1 DEF StoreMultipart, InsertFails, InsertConflict, Fail, bucket
  <2> QED
    BY <1>t, <2>1, SameRows, CalmSettles
<1>2. CASE VerifyObject(r)
  <2> DEFINE row == [uploads[u] EXCEPT !.hashed = TRUE]
  <2>1. /\ UNCHANGED <<files, final, sweep>> /\ pc'[r] # "insert"
        /\ UNCHANGED uploads \/ UpdateSession(u, row)
    BY <1>g, <1>2 DEF VerifyObject, Fail, bucket
  <2>2. u \in Uploads => row \in Sessions /\ row.status = uploads[u].status
    BY <1>0, RowTypes DEF Sessions
  <2> HIDE DEF row
  <2>3. RowMoves(r)
    BY <1>0, <2>1, <2>2, SameRows, RowMovesBy DEF Open
  <2> QED
    BY <1>t, <2>1, <2>3, CalmSettles
<1>3. CASE CopyObject(r)
  <2>1. UNCHANGED <<uploads, files, sweep>> /\ final \subseteq final'
    BY <1>3 DEF CopyObject
  <2>2. CopyMoves(r)
    <3>1. CASE Goto(r, "insert") /\ UNCHANGED job /\ final' = final \cup {u}
      BY <3>1 DEF CopyMoves
    <3>2. CASE Fail(r, "cleanup", TRUE, "Aborted")
      BY <1>g, <3>2 DEF CopyMoves, Fail
    <3> QED
      BY <1>3, <3>1, <3>2 DEF CopyObject
  <2> QED
    BY <1>t, <2>1, <2>2, SameRows, SameFiles, SameObjects, SameSweeps DEF Settles
<1>4. CASE CleanupFailure(r) \/ DedupCleanup(r)
  <2>1. /\ UNCHANGED <<uploads, files, sweep>> /\ pc'[r] # "insert"
        /\ \A v \in final : v # u => v \in final'
    BY <1>0, <1>4, MovesAre DEF CleanupFailure, DedupCleanup, CleanupBoth, BestEffort, FinalKey
  <2>2. pc[r] \in LockedSteps \ {"finish", "insert"}
    BY <1>4, LockedStepsAre DEF CleanupFailure, DedupCleanup
  <2>3. ObjectMoves
    BY <2>1, <2>2, OwnObjectMoves
  <2> QED
    BY <1>t, <2>1, <2>3, SameRows, SameFiles, SameSweeps DEF Settles, CopyMoves
<1>5. CASE Terminalize(r)
  <2> DEFINE row == Ended(u, job[r].next)
  <2>1. /\ UNCHANGED <<files, final, sweep>> /\ Quit(r) /\ pc[r] \in LockedSteps \ {"finish"}
        /\ UNCHANGED uploads \/ UpdateSession(u, row)
    BY <1>5, LockedStepsAre DEF Terminalize, bucket
  <2>2. u \in Uploads => row \in Sessions
    BY <1>0, LocalsType, WrittenRows
  <2> HIDE DEF row
  <2>3. RowMoves(r)
    BY <1>0, <2>1, <2>2, SameRows, RowMovesBy
  <2> QED
    BY <1>0, <1>t, <2>1, <2>3, MovesAre, CalmSettles
<1> QED
  BY <1>1, <1>2, <1>3, <1>4, <1>5

\* The transaction that inserts the file, and those that reuse another one's.
LEMMA FilesSettle ==
  ASSUME Inv, CommitsAreReported, NEW r \in Requests,
         InsertFile(r) \/ DedupFind(r) \/ ReuseWinner(r)
  PROVE  Settles(r)
<1>u. PICK u : u = job[r].upload
  OBVIOUS
<1>0. TypeOK /\ job[r] \in Jobs /\ job[r].file \in Uploads \cup {Nil}
  BY LocalsType DEF Inv
<1>g. \A s : Goto(r, s) => pc'[r] = s
  BY <1>0, MovesAre
<1>1. CASE InsertFile(r)
  <2> DEFINE row == CompletedWith(u, u)
  <2>1. /\ pc[r] = "insert" /\ Goto(r, "finish") /\ UNCHANGED <<job, final, sweep>>
        /\ files' = [files EXCEPT ![u] = [status |-> "active", content |-> job[r].content]]
        /\ UpdateSession(u, row)
    BY <1>1, <1>u DEF InsertFile, CommitsAreReported, bucket
  <2>2. u \in Uploads /\ pc[r] \in LockedSteps /\ ~IsActive(u)
    BY <1>u, <2>1, LockedStepsAre DEF Inv, Exclusion, WorkingHolds
  <2>3. row \in Sessions /\ row.status = "Completed"
    BY <1>0, <2>2, WrittenRows
  <2> HIDE DEF row
  <2>4. RowMoves(r)
    BY <1>0, <2>1, <2>3, RowMovesBy
  <2>5. TimeMoves(r) /\ pc'[r] = "finish"
    BY <1>0, <2>1, <2>2, TimeMovesBy, MovesAre
  <2>6. Inserts(r, u)
    <3>1. HasRow(u) => uploads'[u].status = "Completed"
      BY <1>0, <2>1, <2>2, <2>3, UpdateEffect
    <3>2. ~HasRow(u) => uploads'[u].status = "none"
      BY <1>0, <2>1, <2>2, <2>3, UpdateEffect DEF HasRow
    <3>3. ~Open(u)'
      BY <3>1, <3>2, StatusSets DEF Open
    <3> QED
      BY <1>u, <2>1, <2>5, <3>3, LockedStepsAre DEF Inserts
  <2>7. \A v \in Uploads : v # u => files'[v] = files[v]
    BY <1>0, <2>1 DEF TypeOK
  <2>8. FileMoves(r)
    BY <2>6, <2>7 DEF FileMoves, HasFile
  <2> QED
    BY <2>1, <2>4, <2>5, <2>8, SameObjects, SameSweeps DEF Settles, CopyMoves
<1>2. CASE DedupFind(r)
  <2>1. UNCHANGED <<uploads, final, sweep>> /\ pc[r] = "dedup_find"
    BY <1>2 DEF DedupFind, bucket
  <2>2. ASSUME NEW f \in Uploads, files[f].status \in Live,
               files' = [files EXCEPT ![f].status = "active"]
        PROVE  FileMoves(r)
    <3>1. \A v \in Uploads : v # f => files'[v] = files[v]
      BY <1>0, <2>2 DEF TypeOK
    <3>2. HasFile(f)
      BY <2>2 DEF HasFile, Live
    <3> QED
      BY <2>2, <3>1, <3>2 DEF FileMoves, HasFile
  <2>3. FileMoves(r)
    BY <1>2, <2>2, SameFiles DEF DedupFind, FilesOf, Live
  <2>4. TimeMoves(r) /\ pc'[r] # "insert"
    <3>1. CASE Quit(r) \/ Fail(r, "terminalize", FALSE, "Aborted")
      <4>1. TimeMoves(r)
        BY <1>0, <2>1, <3>1, LockedStepsAre, TimeMovesBy
      <4> QED
        BY <1>g, <3>1, <4>1 DEF Fail, Quit
    <3>2. ASSUME NEW f, Goto(r, "reuse"), Local(r, [job[r] EXCEPT !.file = f])
          PROVE  TimeMoves(r) /\ pc'[r] # "insert"
      <4>1. pc'[r] = "reuse" /\ job'[r].at = job[r].at
        BY <1>0, <3>2, MovesAre DEF Jobs
      <4> QED
        BY <2>1, <4>1, LockedStepsAre DEF TimeMoves
    <3> QED
      BY <1>2, <3>1, <3>2 DEF DedupFind
  <2> QED
    BY <2>1, <2>3, <2>4, SameRows, SameObjects, SameSweeps DEF Settles, CopyMoves
<1>3. CASE ReuseWinner(r)
  <2> DEFINE row == CompletedWith(u, job[r].file)
  <2>1. /\ UNCHANGED <<files, final, sweep>> /\ pc[r] = "reuse"
        /\ UNCHANGED uploads \/ UpdateSession(u, row)
        /\ \/ Goto(r, "finish") /\ UNCHANGED job
           \/ Fail(r, "terminalize", FALSE, "Aborted")
           \/ Quit(r)
    BY <1>3, <1>u DEF ReuseWinner, bucket
  <2>2. u \in Uploads => row \in Sessions /\ row.status = "Completed"
    BY <1>0, WrittenRows
  <2> HIDE DEF row
  <2>3. RowMoves(r)
    BY <1>0, <2>1, <2>2, SameRows, RowMovesBy
  <2>4. TimeMoves(r)
    BY <1>0, <2>1, LockedStepsAre, TimeMovesBy
  <2>5. pc'[r] # "insert"
    BY <1>g, <2>1 DEF Fail, Quit
  <2> QED
    BY <2>1, <2>3, <2>4, <2>5, CalmSettles
<1> QED
  BY <1>1, <1>2, <1>3

----------------------------------------------------------------------------
(* Sweeps and the file store settle too *)

\* Neither moves a request.
LEMMA QuietSettles ==
  ASSUME UNCHANGED <<pc, job>>, FileMoves(Nil), RowMoves(Nil), ObjectMoves, StaleMoves
  PROVE  Settles(Nil)
BY DEF Settles, CopyMoves, TimeMoves

LEMMA SweepSettles ==
  ASSUME Inv, LiveInv, NEW p \in Sweepers, Sweep(p) \/ CancelSweep(p)
  PROVE  Settles(Nil)
<1>0. TypeOK /\ UNCHANGED <<pc, job, files>> /\ FileMoves(Nil)
  BY SameFiles
     DEF Inv, Sweep, SweepSelect, SoftObjects, SoftRow, StaleObjects, StaleRow, HardDelete, CancelSweep
<1>1. \A u : Without(p, u).stale \subseteq sweep[p].stale
  <2>1. ASSUME NEW s \in Sweeps, NEW u
        PROVE  [s EXCEPT !.soft = @ \ {u}, !.stale = @ \ {u}, !.hard = @ \ {u},
                         !.keyed = @ \ {u}, !.swept = Nil].stale \subseteq s.stale
    BY DEF Sweeps
  <2>2. NoSweep.stale = {}
    BY DEF NoSweep
  <2> QED
    BY <1>0, <2>1, <2>2, SweepTypes DEF Without
<1>2. StaleMoves
  <2>1. \A s : sweep' = [sweep EXCEPT ![p] = s] =>
          sweep'[p] = s /\ \A q \in Sweepers : q # p => sweep'[q] = sweep[q]
    BY <1>0 DEF TypeOK
  <2>2. CASE SweepSelect(p)
    BY <2>1, <2>2 DEF SweepSelect, StaleMoves
  <2>3. CASE SoftObjects(p) \/ StaleObjects(p)
    <3>1. PICK u : sweep' = [sweep EXCEPT ![p] = [sweep[p] EXCEPT !.swept = u]]
      BY <2>3 DEF SoftObjects, StaleObjects
    <3>2. [sweep[p] EXCEPT !.swept = u].stale = sweep[p].stale
      BY <1>0, SweepTypes DEF Sweeps
    <3> QED
      BY <2>1, <3>1, <3>2 DEF StaleMoves
  <2>4. CASE \E u : Drop(p, u)
    BY <1>1, <2>1, <2>4 DEF Drop, StaleMoves
  <2>5. CASE sweep' = [sweep EXCEPT ![p] = NoSweep]
    BY <2>1, <2>5 DEF StaleMoves, NoSweep
  <2> QED
    BY <2>2, <2>3, <2>4, <2>5 DEF Sweep, SoftRow, StaleRow, HardDelete, CancelSweep
<1>3. RowMoves(Nil)
  <2>1. ASSUME NEW u \in Uploads, NEW row \in Sessions, row.status # "Completing",
               SweepSession(p, u, row)
        PROVE  RowMoves(Nil)
    <3>1. \A v \in Uploads : uploads'[v].status # "Completing" \/ uploads'[v] = uploads[v]
      <4>1. [row EXCEPT !.updatedAt = sweep[p].at].status = row.status
        BY DEF Sessions
      <4> QED
        BY <1>0, <2>1, <4>1 DEF TypeOK, SweepSession
    <3> QED
      BY <3>1 DEF RowMoves
  <2>2. CASE UNCHANGED uploads
    BY <2>2, SameRows
  <2>3. CASE SoftRow(p)
    <3> DEFINE u == sweep[p].swept
               row == [uploads[u] EXCEPT !.status = "Expired", !.s3 = FALSE, !.reason = "ttl_purged",
                                         !.expiredAt = sweep[p].at]
    <3>1. u \in Uploads
      BY <1>0, <2>3, SweepTypes DEF SoftRow
    <3>2. SweepSession(p, u, row) \/ UNCHANGED uploads
      BY <2>3 DEF SoftRow
    <3>3. uploads[u] \in Sessions /\ sweep[p].at \in Nat /\ FALSE \in BOOLEAN
      BY <1>0, <3>1, SweepTypes, RowTypes
    <3>4. row \in Sessions /\ row.status = "Expired"
      <4> HIDE DEF u
      <4>1. row \in Sessions
        BY <3>3 DEF Sessions, Over, Reasons
      <4>2. row.status = "Expired"
        BY <3>3 DEF Sessions
      <4> QED
        BY <4>1, <4>2
    <3> HIDE DEF row
    <3> QED
      BY <2>1, <2>2, <3>1, <3>2, <3>4
  <2>4. CASE StaleRow(p)
    <3> DEFINE u == sweep[p].swept
               row == Aborted(u, "complete_stale_aborted")
    <3>1. u \in Uploads
      BY <1>0, <2>4, SweepTypes DEF StaleRow
    <3>2. SweepSession(p, u, row) \/ UNCHANGED uploads
      BY <2>4 DEF StaleRow, AbortStale
    <3>3. row \in Sessions
      BY <1>0, <3>1, WrittenRows
    <3>4. row.status = "Aborted"
      BY <1>0, <3>1, RowTypes DEF Aborted, Sessions
    <3> HIDE DEF row
    <3> QED
      BY <2>1, <2>2, <3>1, <3>2, <3>3, <3>4
  <2>5. CASE HardDelete(p)
    <3>1. \A v \in Uploads : uploads'[v].status # "Completing" \/ uploads'[v] = uploads[v]
      BY <1>0, <2>5 DEF TypeOK, HardDelete, NoSession
    <3> QED
      BY <3>1 DEF RowMoves
  <2> QED
    BY <2>2, <2>3, <2>4, <2>5
       DEF Sweep, SweepSelect, SoftObjects, StaleObjects, CancelSweep
<1>4. ObjectMoves
  <2>1. CASE UNCHANGED final
    BY <2>1, SameObjects
  <2>2. CASE StaleObjects(p)
    <3>1. PICK u \in sweep[p].stale : \A v \in final : v # u => v \in final'
      BY <2>2 DEF StaleObjects, CleanupBoth, BestEffort, FinalKey
    <3>2. Abandoned(u)
      BY DEF LiveInv, StaleIsAbandoned
    <3>3. files'[u].status \notin Live /\ \A s \in Requests : pc[s] = "insert" => job[s].upload # u
      BY <1>0, <3>2 DEF Abandoned, HasFile, Live, LockedSteps
    <3> QED
      BY <3>1, <3>3 DEF ObjectMoves
  <2> QED
    BY <2>1, <2>2
       DEF Sweep, SweepSelect, SoftObjects, SoftRow, StaleRow, HardDelete, CancelSweep,
           DiscardStaged, bucket
<1> QED
  BY <1>0, <1>2, <1>3, <1>4, QuietSettles

LEMMA EnvironmentSettles ==
  ASSUME Inv, LiveInv, Environment
  PROVE  Settles(Nil)
<1>1. PICK f \in Uploads : DeleteFile(f) \/ ExpireFile(f) \/ PurgeFile(f)
  BY DEF Environment
<1>2. UNCHANGED <<pc, job, uploads, sweep>> /\ TypeOK
  BY <1>1 DEF Inv, DeleteFile, ExpireFile, PurgeFile, bucket
<1>3. /\ files[f].status \in {"active", "deleted", "expired"}
      /\ files'[f].status \in Live => files[f].status \in Live
      /\ \A v \in Uploads : v # f => files'[v] = files[v]
  BY <1>1, <1>2 DEF DeleteFile, ExpireFile, PurgeFile, TypeOK, FileRows, Live, NoFile
<1>4. FileMoves(Nil)
  BY <1>3 DEF FileMoves, HasFile
<1>5. ObjectMoves
  <2>1. CASE UNCHANGED final
    BY <2>1, SameObjects
  <2>2. CASE PurgeFile(f)
    <3>1. files'[f] = NoFile /\ \A v \in final : v # f => v \in final'
      BY <1>2, <2>2 DEF PurgeFile, TypeOK
    <3>2. \A s \in Requests : pc[s] = "insert" => job[s].upload # f
      BY <1>3, LockedStepsAre DEF LiveInv, NoFileYet, HasFile
    <3> QED
      BY <3>1, <3>2 DEF ObjectMoves, NoFile, Live
  <2> QED
    BY <1>1, <2>1, <2>2 DEF DeleteFile, ExpireFile, bucket
<1> QED
  BY <1>2, <1>4, <1>5, SameRows, SameSweeps, QuietSettles

LEMMA TickLives ==
  ASSUME Inv, LiveInv, CompletionsAreQuick, Tick
  PROVE  LiveInv'
<1>1. UNCHANGED <<minted, uploads, files, final, pc, job, sweep>> /\ now' = now + 1
  BY DEF Tick, bucket
<1>2. FilesAreMinted' /\ NoFileYet' /\ OpenHasNoFile' /\ CopyIsThere' /\ LiveFileHasObject'
  BY <1>1
     DEF LiveInv, FilesAreMinted, NoFileYet, OpenHasNoFile, Open, CopyIsThere, LiveFileHasObject,
         HasFile
<1>3. StaleIsAbandoned'
  BY <1>1 DEF LiveInv, StaleIsAbandoned, Abandoned, IsActive, HasFile
<1>4. CompletesInTime'
  <2> SUFFICES ASSUME NEW r \in Requests, pc[r] \in LockedSteps
               PROVE  job[r].at <= now + 1 /\ now + 1 <= job[r].at + StaleAfter
    BY <1>1 DEF LiveInv, CompletesInTime
  <2>1. job[r].at \in Nat /\ now \in Nat /\ StaleAfter \in Nat
    BY LocalsType, MultipartConstants DEF Inv, TypeOK
  <2>2. job[r].at <= now
    BY DEF LiveInv, CompletesInTime
  <2>3. now < job[r].at + StaleAfter
    BY DEF Tick, CompletionsAreQuick
  <2> QED
    BY <2>1, <2>2, <2>3
<1> QED
  BY <1>2, <1>3, <1>4 DEF LiveInv

\* Losers of a content race, failed completions, purges and the stale sweep all delete final
\* objects, and none of them that of an active or restorable file: as long as a completion
\* takes less than COMPLETING_STALE_HOURS and learns whether its transaction was committed.
THEOREM LiveFilesKeepTheirObject ==
  ASSUME CommitsAreReported, CompletionsAreQuick
  PROVE  Spec => []LiveFileHasObject
<1>1. Init => LiveInv
  BY DEF Init, LiveInv, FilesAreMinted, NoFileYet, OpenHasNoFile, Open, StaleIsAbandoned,
         CompletesInTime, CopyIsThere, LiveFileHasObject, HasFile, NoFile, NoSweep, LockedSteps
<1>2. Inv /\ Inv' /\ LiveInv /\ [Next]_vars => LiveInv'
  <2> SUFFICES ASSUME Inv, Inv', LiveInv, [Next]_vars
               PROVE  LiveInv'
    OBVIOUS
  <2>1. ASSUME NEW r \in Requests, Start(r) \/ Handle(r) \/ Cancel(r)
        PROVE  LiveInv'
    <3>1. Moves(r)
      BY <2>1, StartMoves, HandleMoves
    <3>2. Settles(r)
      BY <2>1, StartSettles, OutsideSettles, ObjectsSettle, FilesSettle DEF Handle
    <3>3. now' = now
      BY <2>1
         DEF Start, CreateMultipart, RegisterPart, CompleteRead, AbortUpload, Handle, PersistUpload,
             AbortInitiated, RegisterCommit, CompleteLock, StoreMultipart, VerifyObject, CopyObject,
             InsertFile, InsertFails, InsertConflict, CleanupFailure, Terminalize, DedupCleanup,
             DedupFind, ReuseWinner, Finish, ReturnBusy, AbortCleanup, Cancel
    <3> QED
      BY <3>1, <3>2, <3>3, LiveStep
  <2>2. ASSUME NEW p \in Sweepers, Sweep(p) \/ CancelSweep(p)
        PROVE  LiveInv'
    <3>1. now' = now
      BY <2>2
         DEF Sweep, SweepSelect, SoftObjects, SoftRow, StaleObjects, StaleRow, HardDelete, CancelSweep
    <3> QED
      BY <2>2, <3>1, SweepMoves, SweepSettles, LiveStep
  <2>3. CASE Environment
    <3>1. now' = now
      BY <2>3 DEF Environment, DeleteFile, ExpireFile, PurgeFile
    <3> QED
      BY <2>3, <3>1, EnvironmentMoves, EnvironmentSettles, LiveStep
  <2>4. CASE Tick
    BY <2>4, TickLives
  <2>5. CASE UNCHANGED vars
    BY <2>5
       DEF vars, LiveInv, FilesAreMinted, NoFileYet, OpenHasNoFile, Open, StaleIsAbandoned, Abandoned,
           CompletesInTime, CopyIsThere, LiveFileHasObject, HasFile, IsActive
  <2> QED
    BY <2>1, <2>2, <2>3, <2>4, <2>5 DEF Next
<1>3. LiveInv => LiveFileHasObject
  BY DEF LiveInv
<1> QED
  BY <1>1, <1>2, <1>3, Invariant, PTL DEF Spec

============================================================================
