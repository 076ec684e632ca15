---------------------------- MODULE MultipartUpload ----------------------------
(***************************************************************************)
(* Resumable uploads: `file_uploads` sessions and their registered parts,  *)
(* the S3 multipart upload behind each, the staged (temp) and the final    *)
(* object, the handlers that initiate, register a part, complete and abort,*)
(* and the `purge_uploads` sweep.  A handler is cut at every await between *)
(* a read and a write that depends on it and between calls to the bucket;  *)
(* a transaction takes effect in the step that stands for its commit.      *)
(*                                                                         *)
(* The file of a session has the session's id, so sessions, staged objects,*)
(* final objects and `files` rows share the set Uploads.  What the rest of *)
(* the file store does to a finished file (FileStore) is an environment    *)
(* here: it is deleted, its grace ends, it is purged.                      *)
(***************************************************************************)
EXTENDS Naturals, FiniteSets

CONSTANTS
  Requests,         \* concurrent HTTP requests
  Sweepers,         \* concurrent purge_uploads sweeps
  Uploads,          \* session ids generate_id() hands out, each once
  Contents,         \* distinct (content_hash, size) pairs of one tenant
  PartsTotal,       \* parts_total of every session
  Nil,              \* no session, no file, no content
  UploadTTL,        \* UPLOAD_TTL_HOURS in clock units
  StaleAfter,       \* COMPLETING_STALE_HOURS
  Retention,        \* HARD_PURGE_RETENTION_DAYS
  MaxTime,          \* bound on the clock
  Faults,           \* which of AllFaults may happen
  SlowCompletions   \* may a completion run for longer than StaleAfter?

\* "client": the bytes in the bucket are not what the client declared or registered;
\* "crash": a request is dropped; "killed": a sweep is.
AllFaults == {"s3", "db", "lost_commit", "client", "crash", "killed"}

ASSUME MultipartConstants ==
  /\ PartsTotal \in Nat \ {0}
  /\ UploadTTL \in Nat /\ StaleAfter \in Nat /\ Retention \in Nat /\ MaxTime \in Nat
  /\ StaleAfter <= UploadTTL /\ UploadTTL <= Retention
  /\ Faults \subseteq AllFaults
  /\ SlowCompletions \in BOOLEAN
  /\ Nil \notin Uploads \cup Contents

Parts == 1 .. PartsTotal

VARIABLES
  now,         \* the wall clock
  minted,      \* the session ids handed out so far
  uploads,     \* uploads[u]: the file_uploads row, NoSession when there is none
  parts,       \* parts[u]: the part numbers of its committed file_upload_parts rows
  multiparts,  \* the sessions whose S3 multipart upload is open
  temp,        \* the sessions whose staged object is in the bucket
  final,       \* the sessions whose final object is in the bucket
  files,       \* files[u]: the files row a completion of u inserted
  pc, job,     \* where each request is in its handler, and its local variables
  sweep        \* sweep[p]: the local variables of sweep p

vars == <<now, minted, uploads, parts, multiparts, temp, final, files, pc, job, sweep>>

bucket == <<multiparts, temp, final>>

----------------------------------------------------------------------------
(* Rows, locals and types *)

NoSession ==
  [status |-> "none", s3 |-> FALSE, content |-> Nil, hashed |-> FALSE, received |-> 0,
   reason |-> "none", file |-> Nil, updatedAt |-> 0, expiresAt |-> 0, expiredAt |-> 0]

Active == {"Initiated", "InProgress"}

Over == {"Completed", "Aborted", "Expired"}

\* status_reason: what ended a session, or why its completion came back ("failed" stands
\* for every complete_... and ..._mismatch reason a request writes).
Reasons == {"none", "retryable", "failed", "aborted_by_user", "complete_stale_aborted", "ttl_purged"}

Sessions ==
  [status : {"none", "Completing"} \cup Active \cup Over, s3 : BOOLEAN,
   content : Contents \cup {Nil}, hashed : BOOLEAN, received : 0 .. PartsTotal,
   reason : Reasons, file : Uploads \cup {Nil}, updatedAt : Nat, expiresAt : Nat,
   expiredAt : Nat]

NoFile == [status |-> "none", content |-> Nil]

FileRows == [status : {"none", "active", "deleted", "expired"}, content : Contents \cup {Nil}]

NoJob ==
  [upload |-> Nil, content |-> Nil, hashed |-> FALSE, s3 |-> FALSE, part |-> 0,
   count |-> 0, copied |-> FALSE, next |-> "Aborted", file |-> Nil, at |-> 0]

Jobs ==
  [upload : Uploads \cup {Nil}, content : Contents \cup {Nil}, hashed : BOOLEAN,
   s3 : BOOLEAN, part : 0 .. PartsTotal, count : 0 .. PartsTotal, copied : BOOLEAN,
   next : {"Aborted", "Completing", "Retryable"}, file : Uploads \cup {Nil}, at : Nat]

\* The stretch of a completion between its lock on the session and its answer.
LockedSteps ==
  {"store", "verify", "copy", "insert", "cleanup", "terminalize", "dedup_cleanup",
   "dedup_find", "reuse", "finish"}

Steps ==
  {"idle", "persist", "abort_initiated", "register_write", "lock", "busy", "abort_cleanup"}
    \cup LockedSteps

NoSweep == [at |-> 0, soft |-> {}, stale |-> {}, keyed |-> {}, hard |-> {}, swept |-> Nil]

Sweeps ==
  [at : Nat, soft : SUBSET Uploads, stale : SUBSET Uploads, keyed : SUBSET Uploads,
   hard : SUBSET Uploads, swept : Uploads \cup {Nil}]

Init ==
  /\ now = 0
  /\ minted = {}
  /\ uploads = [u \in Uploads |-> NoSession]
  /\ parts = [u \in Uploads |-> {}]
  /\ multiparts = {} /\ temp = {} /\ final = {}
  /\ files = [u \in Uploads |-> NoFile]
  /\ pc = [r \in Requests |-> "idle"]
  /\ job = [r \in Requests |-> NoJob]
  /\ sweep = [p \in Sweepers |-> NoSweep]

----------------------------------------------------------------------------
(* Reads and writes the handlers share *)

HasRow(u) == uploads[u].status # "none"

\* assert_active_upload, and the status filter of every guarded UPDATE.
IsActive(u) == uploads[u].status \in Active

\* find_any_by_hash_and_size, and what the unique index of files looks at.
FilesOf(c) == {f \in Uploads : files[f].status # "none" /\ files[f].content = c}

\* An UPDATE by id: it sets the status and the columns of `row`, and touches nothing
\* when the row is gone.
UpdateSession(u, row) ==
  uploads' = IF HasRow(u) THEN [uploads EXCEPT ![u] = [row EXCEPT !.updatedAt = now]] ELSE uploads

\* The session is aborted, and forgets its multipart upload.
Aborted(u, reason) ==
  [uploads[u] EXCEPT !.status = "Aborted", !.reason = reason, !.s3 = FALSE]

\* update_upload_state: to Aborted, or to Completing with one of two reasons.
Ended(u, outcome) ==
  IF outcome = "Aborted" THEN Aborted(u, "failed")
  ELSE [uploads[u] EXCEPT !.status = "Completing",
          !.reason = IF outcome = "Retryable" THEN "retryable" ELSE "failed"]

CompletedWith(u, f) ==
  [uploads[u] EXCEPT !.status = "Completed", !.reason = "none", !.s3 = FALSE, !.file = f]

Goto(r, step) == pc' = [pc EXCEPT ![r] = step]

Local(r, j) == job' = [job EXCEPT ![r] = j]

Quit(r) == Goto(r, "idle") /\ Local(r, NoJob)

----------------------------------------------------------------------------
(* initiate_upload *)

\* create_s3_multipart; a call that fails may have opened a multipart upload.
CreateMultipart(r, u, c, declared) ==
  /\ pc[r] = "idle" /\ u \notin minted
  /\ minted' = minted \cup {u}
  /\ multiparts' = multiparts \cup {u}
  /\ \/ /\ Goto(r, "persist")
        /\ Local(r, [NoJob EXCEPT !.upload = u, !.content = c, !.hashed = declared])
     \/ "s3" \in Faults /\ UNCHANGED <<pc, job>>
  /\ UNCHANGED <<now, uploads, parts, temp, final, files, sweep>>

InsertSession(r) ==
  uploads' = [uploads EXCEPT ![job[r].upload] =
    [NoSession EXCEPT !.status = "Initiated", !.s3 = TRUE, !.content = job[r].content,
       !.hashed = job[r].hashed, !.updatedAt = now, !.expiresAt = now + UploadTTL]]

\* persist_upload_and_respond: insert and commit, or undo the multipart upload.
PersistUpload(r) ==
  /\ pc[r] = "persist"
  /\ \/ InsertSession(r) /\ Quit(r)
     \/ "db" \in Faults /\ Goto(r, "abort_initiated") /\ UNCHANGED <<uploads, job>>
     \/ "lost_commit" \in Faults /\ InsertSession(r) /\ Goto(r, "abort_initiated")
        /\ UNCHANGED job
  /\ UNCHANGED <<now, minted, parts, bucket, files, sweep>>

\* The bucket forgets S, unless the (best-effort) call fails.
BestEffort(before, after, S) ==
  after = before \ S \/ ("s3" \in Faults /\ after = before)

AbortInitiated(r) ==
  /\ pc[r] = "abort_initiated"
  /\ BestEffort(multiparts, multiparts', {job[r].upload})
  /\ Quit(r)
  /\ UNCHANGED <<now, minted, uploads, parts, temp, final, files, sweep>>

----------------------------------------------------------------------------
(* register_part *)

\* Transaction with an uncommitted row for the same part: the unique index makes the
\* second INSERT wait for the first.
Registering(u, n) ==
  \E r \in Requests : pc[r] = "register_write" /\ job[r].upload = u /\ job[r].part = n

\* The part is inserted unless it is there, and the parts this transaction can see are
\* counted: the committed ones and its own.
RegisterPart(r, u, n) ==
  /\ pc[r] = "idle" /\ IsActive(u) /\ ~Registering(u, n)
  /\ Goto(r, "register_write")
  /\ Local(r, [NoJob EXCEPT !.upload = u, !.part = n, !.count = Cardinality(parts[u] \cup {n})])
  /\ UNCHANGED <<now, minted, uploads, parts, bucket, files, sweep>>

\* Mutant of RegisterGuard: the state is not looked at again.
RegisterUnguarded(u) == HasRow(u)

RegisterGuard(u) == IsActive(u)

\* guard_register_part_state_update and the commit, or a rollback (409).
RegisterCommit(r) ==
  LET u == job[r].upload IN
  /\ pc[r] = "register_write"
  /\ \/ /\ RegisterGuard(u)
        /\ parts' = [parts EXCEPT ![u] = @ \cup {job[r].part}]
        /\ UpdateSession(u, [uploads[u] EXCEPT !.status = "InProgress", !.received = job[r].count])
     \/ /\ ~RegisterGuard(u) \/ "db" \in Faults
        /\ UNCHANGED <<parts, uploads>>
  /\ Quit(r)
  /\ UNCHANGED <<now, minted, bucket, files, sweep>>

----------------------------------------------------------------------------
(* complete_upload *)

\* The session and its parts are read; ensure_parts_continuity wants all of them.
\* A session that is completing is refused as busy.
CompleteRead(r, u) ==
  /\ pc[r] = "idle"
  /\ \/ IsActive(u) /\ parts[u] = Parts /\ Goto(r, "lock")
     \/ uploads[u].status = "Completing" /\ Goto(r, "busy")
  /\ Local(r, [NoJob EXCEPT !.upload = u, !.s3 = uploads[u].s3, !.content = uploads[u].content,
                            !.hashed = uploads[u].hashed])
  /\ UNCHANGED <<now, minted, uploads, parts, bucket, files, sweep>>

\* Mutant of LockGuard: whatever state the session is in, it is taken.
LockAlways(u) == HasRow(u)

LockGuard(u) == IsActive(u)

\* The compare-and-set that takes the session.
CompleteLock(r) ==
  LET u == job[r].upload IN
  /\ pc[r] = "lock"
  /\ \/ /\ LockGuard(u)
        /\ UpdateSession(u, [uploads[u] EXCEPT !.status = "Completing"])
        /\ IF job[r].s3 THEN Goto(r, "store") /\ Local(r, [job[r] EXCEPT !.at = now]) ELSE Quit(r)
     \/ /\ ~LockGuard(u) \/ "db" \in Faults
        /\ Quit(r)
        /\ UNCHANGED uploads
  /\ UNCHANGED <<now, minted, parts, bucket, files, sweep>>

\* The remaining steps of a completion that fails: clean the bucket up (the final
\* object too once a copy was tried), then write the status.
Fail(r, step, copied, status) ==
  Goto(r, step) /\ Local(r, [job[r] EXCEPT !.copied = copied, !.next = status])

\* complete_stored_multipart.  S3 refuses it when the upload is not open or the ETags
\* are wrong; a call reported as failed may have been carried out.
StoreMultipart(r) ==
  LET u == job[r].upload IN
  /\ pc[r] = "store"
  /\ \/ /\ u \in multiparts
        /\ multiparts' = multiparts \ {u} /\ temp' = temp \cup {u}
        /\ \/ Goto(r, "verify") /\ UNCHANGED job
           \/ "s3" \in Faults /\ Fail(r, "terminalize", FALSE, "Retryable")
     \/ /\ u \notin multiparts \/ Faults \cap {"s3", "client"} # {}
        /\ Fail(r, "terminalize", FALSE, "Retryable")
        /\ UNCHANGED <<multiparts, temp>>
  /\ UNCHANGED <<now, minted, uploads, parts, final, files, sweep>>

\* verify_uploaded_object streams the staged object, compares it with what was
\* declared and stores the hash of a session initiated without one.
VerifyObject(r) ==
  LET u == job[r].upload IN
  /\ pc[r] = "verify"
  /\ \/ /\ u \in temp
        /\ IF job[r].hashed THEN UNCHANGED uploads
           ELSE UpdateSession(u, [uploads[u] EXCEPT !.hashed = TRUE])
        /\ Goto(r, "copy") /\ UNCHANGED job
     \/ /\ u \notin temp \/ Faults \cap {"s3", "db", "client"} # {}
        /\ Fail(r, "cleanup", FALSE, "Aborted")
        /\ UNCHANGED uploads
  /\ UNCHANGED <<now, minted, parts, bucket, files, sweep>>

CopyObject(r) ==
  LET u == job[r].upload IN
  /\ pc[r] = "copy"
  /\ \/ /\ u \in temp
        /\ final' = final \cup {u}
        /\ \/ Goto(r, "insert") /\ UNCHANGED job
           \/ "s3" \in Faults /\ Fail(r, "cleanup", TRUE, "Aborted")
     \/ /\ u \notin temp \/ "s3" \in Faults
        /\ Fail(r, "cleanup", TRUE, "Aborted")
        /\ UNCHANGED final
  /\ UNCHANGED <<now, minted, uploads, parts, multiparts, temp, files, sweep>>

\* insert_file_row, finalize_inserted_file, the reference and the commit: the file and
\* the session change together.
InsertFile(r) ==
  LET u == job[r].upload
      c == job[r].content IN
  /\ pc[r] = "insert" /\ FilesOf(c) = {}
  /\ files' = [files EXCEPT ![u] = [status |-> "active", content |-> c]]
  /\ UpdateSession(u, CompletedWith(u, u))
  /\ \/ Goto(r, "finish") /\ UNCHANGED job
     \/ "lost_commit" \in Faults /\ Fail(r, "cleanup", TRUE, "Aborted")
  /\ UNCHANGED <<now, minted, parts, bucket, sweep>>

\* A statement fails: the insert and the commit abort the session, the others leave it
\* completing.
InsertFails(r) ==
  /\ pc[r] = "insert" /\ "db" \in Faults
  /\ \E status \in {"Aborted", "Completing"} : Fail(r, "cleanup", TRUE, status)
  /\ UNCHANGED <<now, minted, uploads, parts, bucket, files, sweep>>

\* Another file has this content: the transaction is rolled back.
InsertConflict(r) ==
  /\ pc[r] = "insert" /\ FilesOf(job[r].content) # {}
  /\ Goto(r, "dedup_cleanup") /\ UNCHANGED job
  /\ UNCHANGED <<now, minted, uploads, parts, bucket, files, sweep>>

\* Mutant of FinalKey: the key names the content, so the loser shares its winner's.
FinalKeyOfContent(u) == {f \in Uploads : f = u \/ (HasRow(u) /\ files[f].content = uploads[u].content)}

\* final_storage_key: the final object of a session is named by its id.
FinalKey(u) == {u}

\* cleanup_complete_failure with a final key.
CleanupBoth(u) ==
  BestEffort(final, final', FinalKey(u)) /\ BestEffort(temp, temp', {u})

\* Mutant of CleanupFailure: the final object is left when the copy was made.
CleanupTempOnly(r) ==
  /\ pc[r] = "cleanup"
  /\ BestEffort(temp, temp', {job[r].upload}) /\ UNCHANGED final
  /\ Goto(r, "terminalize") /\ UNCHANGED job
  /\ UNCHANGED <<now, minted, uploads, parts, multiparts, files, sweep>>

CleanupFailure(r) ==
  LET u == job[r].upload IN
  /\ pc[r] = "cleanup"
  /\ IF job[r].copied THEN CleanupBoth(u)
     ELSE BestEffort(temp, temp', {u}) /\ UNCHANGED final
  /\ Goto(r, "terminalize") /\ UNCHANGED job
  /\ UNCHANGED <<now, minted, uploads, parts, multiparts, files, sweep>>

\* best_effort_terminalize_upload_row: an unconditional UPDATE by id.
Terminalize(r) ==
  LET u == job[r].upload IN
  /\ pc[r] = "terminalize"
  /\ \/ UpdateSession(u, Ended(u, job[r].next))
     \/ "db" \in Faults /\ UNCHANGED uploads
  /\ Quit(r)
  /\ UNCHANGED <<now, minted, parts, bucket, files, sweep>>

\* complete_upload_dedup: the loser removes its own objects ...
DedupCleanup(r) ==
  /\ pc[r] = "dedup_cleanup"
  /\ CleanupBoth(job[r].upload)
  /\ Goto(r, "dedup_find") /\ UNCHANGED job
  /\ UNCHANGED <<now, minted, uploads, parts, multiparts, files, sweep>>

\* ... finds the winner and revives it in a transaction of its own when it is deleted
\* but restorable (FileStore models what can happen inside that transaction); an
\* expired winner aborts the session, a missing one and a failing query leave it
\* completing.
DedupFind(r) ==
  LET found == FilesOf(job[r].content) IN
  /\ pc[r] = "dedup_find"
  /\ \/ \E f \in found :
          \/ /\ files[f].status \in {"active", "deleted"}
             /\ files' = [files EXCEPT ![f].status = "active"]
             /\ Goto(r, "reuse") /\ Local(r, [job[r] EXCEPT !.file = f])
          \/ /\ files[f].status = "expired" \/ "db" \in Faults
             /\ Fail(r, "terminalize", FALSE, "Aborted")
             /\ UNCHANGED files
     \/ /\ found = {} \/ "db" \in Faults
        /\ Quit(r) /\ UNCHANGED files
  /\ UNCHANGED <<now, minted, uploads, parts, bucket, sweep>>

\* persist_dedup_reuse, the reference and the commit; the reference needs the file.
ReuseWinner(r) ==
  LET u == job[r].upload
      f == job[r].file IN
  /\ pc[r] = "reuse"
  /\ \/ /\ files[f].status # "none"
        /\ UpdateSession(u, CompletedWith(u, f))
        /\ \/ Goto(r, "finish") /\ UNCHANGED job
           \/ "lost_commit" \in Faults /\ Fail(r, "terminalize", FALSE, "Aborted")
     \/ /\ files[f].status = "none" \/ "db" \in Faults
        /\ Fail(r, "terminalize", FALSE, "Aborted")
        /\ UNCHANGED uploads
     \/ "db" \in Faults /\ Quit(r) /\ UNCHANGED uploads
  /\ UNCHANGED <<now, minted, parts, bucket, files, sweep>>

Finish(r) ==
  /\ pc[r] = "finish"
  /\ BestEffort(temp, temp', {job[r].upload})
  /\ Quit(r)
  /\ UNCHANGED <<now, minted, uploads, parts, multiparts, final, files, sweep>>

\* The 409 of a completion that found the session completing leaves the server.
ReturnBusy(r) ==
  /\ pc[r] = "busy"
  /\ Quit(r)
  /\ UNCHANGED <<now, minted, uploads, parts, bucket, files, sweep>>

----------------------------------------------------------------------------
(* abort_upload *)

\* transition_abort_state: the compare-and-set; the multipart id was read before it.  An
\* error of the commit ends the request before the bucket is cleaned up.
AbortUpload(r, u) ==
  /\ pc[r] = "idle" /\ IsActive(u)
  /\ UpdateSession(u, Aborted(u, "aborted_by_user"))
  /\ \/ /\ Goto(r, "abort_cleanup")
        /\ Local(r, [NoJob EXCEPT !.upload = u, !.s3 = uploads[u].s3])
     \/ "lost_commit" \in Faults /\ UNCHANGED <<pc, job>>
  /\ UNCHANGED <<now, minted, parts, bucket, files, sweep>>

\* cleanup_abort_s3_objects and the soft purge remove what a session staged.
DiscardStaged(u, open) ==
  /\ IF open THEN BestEffort(multiparts, multiparts', {u}) ELSE UNCHANGED multiparts
  /\ BestEffort(temp, temp', {u})
  /\ UNCHANGED final

AbortCleanup(r) ==
  /\ pc[r] = "abort_cleanup"
  /\ DiscardStaged(job[r].upload, job[r].s3)
  /\ Quit(r)
  /\ UNCHANGED <<now, minted, uploads, parts, files, sweep>>

\* The client disconnects, or the server dies.
Cancel(r) ==
  /\ "crash" \in Faults /\ pc[r] # "idle"
  /\ Quit(r)
  /\ UNCHANGED <<now, minted, uploads, parts, bucket, files, sweep>>

----------------------------------------------------------------------------
(* purge_uploads *)

SoftTargets == {u \in Uploads : IsActive(u) /\ uploads[u].expiresAt < now}

HardTargets == {u \in Uploads : uploads[u].status = "Expired" /\ uploads[u].expiredAt + Retention < now}

IsStale(u) == uploads[u].status = "Completing" /\ uploads[u].updatedAt + StaleAfter < now

\* Mutant of StaleTargets: only completions that reported a failure are looked at.
StaleFailures == {u \in Uploads : IsStale(u) /\ uploads[u].reason = "retryable"}

StaleTargets == {u \in Uploads : IsStale(u)}

\* The three sets of targets are selected once, up front, by queries with one clock
\* reading: no session moves into a later query's set between them.
SweepSelect(p) ==
  /\ sweep[p] = NoSweep
  /\ SoftTargets \cup StaleTargets \cup HardTargets # {}
  /\ sweep' = [sweep EXCEPT ![p] =
       [at |-> now, soft |-> SoftTargets, stale |-> StaleTargets,
        keyed |-> {u \in StaleTargets : uploads[u].hashed}, hard |-> HardTargets, swept |-> Nil]]
  /\ UNCHANGED <<now, minted, uploads, parts, bucket, files, pc, job>>

\* The sweep's state once u is dealt with.
Without(p, u) ==
  LET s == sweep[p]
      rest == [s EXCEPT !.soft = @ \ {u}, !.stale = @ \ {u}, !.hard = @ \ {u},
                        !.keyed = @ \ {u}, !.swept = Nil] IN
  IF rest.soft \cup rest.stale \cup rest.hard = {} THEN NoSweep ELSE rest

Drop(p, u) == sweep' = [sweep EXCEPT ![p] = Without(p, u)]

\* purge_soft_expired, for one session: its objects (a session selected while active has
\* its multipart id) ...
SoftObjects(p) ==
  /\ sweep[p].swept = Nil
  /\ \E u \in sweep[p].soft :
       /\ DiscardStaged(u, TRUE)
       /\ sweep' = [sweep EXCEPT ![p].swept = u]
  /\ UNCHANGED <<now, minted, uploads, parts, files, pc, job>>

\* An UPDATE by id of the sweep, which keeps the clock it started with.
SweepSession(p, u, row) ==
  uploads' = IF HasRow(u) THEN [uploads EXCEPT ![u] = [row EXCEPT !.updatedAt = sweep[p].at]]
             ELSE uploads

\* ... then its row, whatever has become of it.
SoftRow(p) ==
  LET u == sweep[p].swept IN
  /\ u # Nil /\ u \in sweep[p].soft
  /\ \/ SweepSession(p, u, [uploads[u] EXCEPT !.status = "Expired", !.s3 = FALSE,
                              !.reason = "ttl_purged", !.expiredAt = sweep[p].at])
     \/ "db" \in Faults /\ UNCHANGED uploads
  /\ Drop(p, u)
  /\ UNCHANGED <<now, minted, parts, bucket, files, pc, job>>

\* purge_stale_completing, after the soft targets: cleanup_complete_failure ...
StaleObjects(p) ==
  /\ sweep[p].swept = Nil /\ sweep[p].soft = {}
  /\ \E u \in sweep[p].stale :
       /\ IF u \in sweep[p].keyed THEN CleanupBoth(u)
          ELSE BestEffort(temp, temp', {u}) /\ UNCHANGED final
       /\ sweep' = [sweep EXCEPT ![p].swept = u]
  /\ UNCHANGED <<now, minted, uploads, parts, multiparts, files, pc, job>>

AbortStale(p, u) == SweepSession(p, u, Aborted(u, "complete_stale_aborted"))

\* ... then its row, by id, and the audit entry; an error of either ends the sweep.
StaleRow(p) ==
  LET u == sweep[p].swept IN
  /\ u # Nil /\ u \in sweep[p].stale
  /\ \/ AbortStale(p, u) /\ Drop(p, u)
     \/ /\ "db" \in Faults
        /\ AbortStale(p, u) \/ UNCHANGED uploads
        /\ sweep' = [sweep EXCEPT ![p] = NoSweep]
  /\ UNCHANGED <<now, minted, parts, bucket, files, pc, job>>

\* purge_hard_expired, last: the parts, then the row, in statements of their own.
HardDelete(p) ==
  /\ sweep[p].soft = {} /\ sweep[p].stale = {}
  /\ \E u \in sweep[p].hard :
       /\ \/ /\ uploads' = [uploads EXCEPT ![u] = NoSession]
             /\ parts' = [parts EXCEPT ![u] = {}]
          \/ /\ "db" \in Faults
             /\ parts' \in {parts, [parts EXCEPT ![u] = {}]}
             /\ UNCHANGED uploads
       /\ Drop(p, u)
  /\ UNCHANGED <<now, minted, bucket, files, pc, job>>

CancelSweep(p) ==
  /\ "killed" \in Faults /\ sweep[p] # NoSweep
  /\ sweep' = [sweep EXCEPT ![p] = NoSweep]
  /\ UNCHANGED <<now, minted, uploads, parts, bucket, files, pc, job>>

----------------------------------------------------------------------------
(* The rest of the file store, and the clock *)

DeleteFile(f) ==
  /\ files[f].status = "active"
  /\ files' = [files EXCEPT ![f].status = "deleted"]
  /\ UNCHANGED <<now, minted, uploads, parts, bucket, pc, job, sweep>>

ExpireFile(f) ==
  /\ files[f].status = "deleted"
  /\ files' = [files EXCEPT ![f].status = "expired"]
  /\ UNCHANGED <<now, minted, uploads, parts, bucket, pc, job, sweep>>

PurgeFile(f) ==
  /\ files[f].status = "expired"
  /\ files' = [files EXCEPT ![f] = NoFile]
  /\ final' = final \ {f}
  /\ UNCHANGED <<now, minted, uploads, parts, multiparts, temp, pc, job, sweep>>

\* Unless SlowCompletions, a completion ends within StaleAfter of its lock.
Tick ==
  /\ now < MaxTime
  /\ SlowCompletions \/ \A r \in Requests : pc[r] \in LockedSteps => now < job[r].at + StaleAfter
  /\ now' = now + 1
  /\ UNCHANGED <<minted, uploads, parts, bucket, files, pc, job, sweep>>

Start(r) ==
  \E u \in Uploads :
    \/ \E c \in Contents, declared \in BOOLEAN : CreateMultipart(r, u, c, declared)
    \/ \E n \in Parts : RegisterPart(r, u, n)
    \/ CompleteRead(r, u)
    \/ AbortUpload(r, u)

Handle(r) ==
  \/ PersistUpload(r) \/ AbortInitiated(r) \/ RegisterCommit(r)
  \/ CompleteLock(r) \/ StoreMultipart(r) \/ VerifyObject(r) \/ CopyObject(r)
  \/ InsertFile(r) \/ InsertFails(r) \/ InsertConflict(r)
  \/ CleanupFailure(r) \/ Terminalize(r)
  \/ DedupCleanup(r) \/ DedupFind(r) \/ ReuseWinner(r) \/ Finish(r)
  \/ ReturnBusy(r) \/ AbortCleanup(r)

Sweep(p) ==
  \/ SweepSelect(p) \/ SoftObjects(p) \/ SoftRow(p) \/ StaleObjects(p) \/ StaleRow(p)
  \/ HardDelete(p)

Environment == \E f \in Uploads : DeleteFile(f) \/ ExpireFile(f) \/ PurgeFile(f)

Next ==
  \/ Tick
  \/ Environment
  \/ \E r \in Requests : Start(r) \/ Handle(r) \/ Cancel(r)
  \/ \E p \in Sweepers : Sweep(p) \/ CancelSweep(p)

Spec == Init /\ [][Next]_vars

\* A request is polled until it returns; the scheduler runs purge_uploads every 15
\* minutes, to its end.
FairSpec ==
  /\ Spec
  /\ \A r \in Requests : WF_vars(Handle(r))
  /\ \A p \in Sweepers : WF_vars(Sweep(p))

----------------------------------------------------------------------------
(* Properties *)

TypeOK ==
  /\ now \in Nat
  /\ minted \subseteq Uploads
  /\ uploads \in [Uploads -> Sessions]
  /\ parts \in [Uploads -> SUBSET Parts]
  /\ multiparts \subseteq Uploads /\ temp \subseteq Uploads /\ final \subseteq Uploads
  /\ files \in [Uploads -> FileRows]
  /\ pc \in [Requests -> Steps]
  /\ job \in [Requests -> Jobs]
  /\ sweep \in [Sweepers -> Sweeps]

Working(u) == {r \in Requests : pc[r] \in LockedSteps /\ job[r].upload = u}

\* A session is completed by one request at a time, whatever sweeps, failures and
\* retries do to its status meanwhile: everything after the lock relies on it.
OneCompletion == \A u \in Uploads : Cardinality(Working(u)) <= 1

\* A file that is active or restorable has its final object, although losers of the
\* content race, failed completions and the stale sweep all delete final objects.
LiveFileHasObject == \A f \in Uploads : files[f].status \in {"active", "deleted"} => f \in final

\* A completed session stays completed: late writers of a status (an abort, a
\* registration, another completion) never undo it.  Only a sweep that selected the
\* session before it was completed can, or the request that completed it and was told
\* that its commit failed.
CompletedIsFinal ==
  [][\A u \in Uploads :
       uploads[u].status = "Completed" /\ uploads'[u].status # "Completed" =>
         \/ \E p \in Sweepers : u \in sweep[p].soft \cup sweep[p].stale \cup sweep[p].hard
         \/ "lost_commit" \in Faults
            /\ \E r \in Requests : pc[r] = "terminalize" /\ job[r].upload = u]_vars

Untouched(u) ==
  /\ \A r \in Requests : job[r].upload # u
  /\ \A p \in Sweepers : u \notin sweep[p].soft \cup sweep[p].stale

\* A session that is over, one way or another, leaves no staged object, no final object
\* but that of its file, and no open multipart upload, with two exceptions: the stale sweep
\* forgets the multipart upload of a completion that never closed it, and so does an abort
\* that was told its commit failed.
NothingLeftBehind ==
  \A u \in Uploads :
    u \in minted /\ uploads[u].status \in Over \cup {"none"} /\ Untouched(u) =>
      /\ u \notin temp
      /\ u \in final => files[u].status # "none"
      /\ u \in multiparts =>
           \/ uploads[u].reason = "complete_stale_aborted"
           \/ "lost_commit" \in Faults /\ uploads[u].reason = "aborted_by_user"

\* A part is registered in an active session only: the parts a completion checked and
\* sent to S3 are those the session keeps.
PartsSettleAtLock ==
  [][\A u \in Uploads :
       uploads[u].status \in {"Completing"} \cup Over => parts'[u] \subseteq parts[u]]_vars

\* A session its client abandoned past its TTL, or whose completion died, comes to its
\* end: the sweep's three selections leave no state without a way out.
AbandonedSessionsEnd ==
  \A u \in Uploads :
    /\ IsActive(u) /\ uploads[u].expiresAt < now ~> ~IsActive(u)
    /\ IsStale(u) ~> uploads[u].status \in Over \cup {"none"}

============================================================================
