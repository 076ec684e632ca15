------------------------------- MODULE FileStore -------------------------------
(***************************************************************************)
(* The physical file store of one tenant: `files` rows in the database,    *)
(* objects in the bucket, `file_references` rows that keep files alive,    *)
(* the HTTP handlers that upload, delete, restore, attach and detach, and  *)
(* the `purge_files` sweep.  Handlers run concurrently against PostgreSQL  *)
(* at READ COMMITTED, so a handler is cut wherever it awaits between a     *)
(* read and a write that depends on it, and a transaction takes effect in  *)
(* the one step that stands for its commit.                                *)
(*                                                                         *)
(* A storage key embeds the file id (utils/file_hash.rs), so an object is  *)
(* identified with the file id it was stored for.                          *)
(***************************************************************************)
EXTENDS Naturals, FiniteSets

CONSTANTS
  Requests,         \* concurrent HTTP requests (each runs one handler at a time)
  Purgers,          \* concurrent purge_files sweeps
  FileIds,          \* ids generate_id() hands out, each once
  RefIds,           \* ids of file_references rows
  Contents,         \* distinct (content_hash, size) pairs
  Keys,             \* distinct (resource_type, resource_id, field_name) keys
  Self,             \* the "$self" sentinel: a key no other row has
  Nil,              \* no file, no reference, no content, no key
  GracePeriod,      \* GRACE_PERIOD_HOURS in clock units
  RefGrace,         \* REFERENCE_DETACH_GRACE_HOURS in clock units
  MaxTime,          \* bound on the clock
  BatchLimit,       \* the LIMIT of the purge target query
  Faults,           \* which of AllFaults may happen
  LongTransactions  \* may the clock tick between a transaction's read and commit?

\* Failing bucket calls, statements of a request, answers to a commit, and deletions of
\* the sweep; handlers and sweeps that are dropped half-way.
AllFaults == {"s3", "db", "lost_commit", "purge", "crash"}

ASSUME StoreConstants ==
  /\ GracePeriod \in Nat \ {0}
  /\ RefGrace \in Nat
  /\ MaxTime \in Nat
  /\ BatchLimit \in Nat \ {0}
  /\ Faults \subseteq AllFaults
  /\ LongTransactions \in BOOLEAN
  /\ Nil \notin FileIds \cup RefIds \cup Contents \cup Keys \cup {Self}
  /\ Self \notin Keys

VARIABLES
  now,      \* the wall clock the handlers and the sweep sample
  files,    \* files[f]: the row of file f, NoRow when there is none
  objects,  \* the file ids whose object is in the bucket
  minted,   \* the file ids handed out so far
  refs,     \* refs[q]: the file_references row q, NoRef when there is none
  replays,  \* replays[c]: the file the instant-upload replay cache holds for content c
  pc,       \* pc[r]: where request r is in its handler
  job,      \* job[r]: the local variables of request r's handler
  sweep     \* sweep[p]: the local variables of sweep p

vars == <<now, files, objects, minted, refs, replays, pc, job, sweep>>

----------------------------------------------------------------------------
(* Rows, locals and types *)

NoRow == [status |-> "none", content |-> Nil, purgeAt |-> 0]

ActiveRow(c) == [status |-> "active", content |-> c, purgeAt |-> 0]

FileRows ==
  [status : {"none", "active", "deleted"}, content : Contents \cup {Nil}, purgeAt : Nat]

NoRef == [status |-> "none", file |-> Nil, key |-> Nil, createdAt |-> 0, detachedAt |-> 0]

RefRows ==
  [status : {"none", "active", "detached"}, file : FileIds \cup {Nil},
   key : Keys \cup {Self, Nil}, createdAt : Nat, detachedAt : Nat]

NoJob ==
  [op |-> "none", content |-> Nil, key |-> Nil, own |-> Nil, file |-> Nil,
   ref |-> Nil, at |-> 0]

Jobs ==
  [op : {"none", "small", "instant", "delete", "restore", "attach", "detach"},
   content : Contents \cup {Nil}, key : Keys \cup {Self, Nil},
   own : FileIds \cup {Nil}, file : FileIds \cup {Nil}, ref : RefIds \cup {Nil},
   at : Nat]

\* Steps of a request that sit between the read and the write of one transaction
\* over a files row.
RowTxnSteps ==
  {"revive_write", "revive_attach", "revive_commit", "delete_write", "restore_write"}

\* ... and over a file_references row.
RefTxnSteps == {"attach_write", "detach_write"}

Steps ==
  {"idle", "insert", "cleanup_fail", "cleanup_dup", "winner", "revive_read",
   "attach_lookup", "attach_reread", "remember", "ok"} \cup RowTxnSteps \cup RefTxnSteps

NoSweep == [at |-> 0, todo |-> {}, file |-> Nil]

Sweeps == [at : Nat, todo : SUBSET FileIds, file : FileIds \cup {Nil}]

Init ==
  /\ now = 0
  /\ files = [f \in FileIds |-> NoRow]
  /\ objects = {}
  /\ minted = {}
  /\ refs = [q \in RefIds |-> NoRef]
  /\ replays = [c \in Contents |-> Nil]
  /\ pc = [r \in Requests |-> "idle"]
  /\ job = [r \in Requests |-> NoJob]
  /\ sweep = [p \in Purgers |-> NoSweep]

----------------------------------------------------------------------------
(* What the handlers read *)

HasRow(f) == f \in FileIds /\ files[f].status # "none"

IsActive(f) == f \in FileIds /\ files[f].status = "active"

\* restore and both revive paths: deleted and now < purge_at.
InGrace(f) == f \in FileIds /\ files[f].status = "deleted" /\ now < files[f].purgeAt

\* find_any_by_hash: rows of this content, soft-deleted ones included.
RowsOf(c) == {f \in FileIds : files[f].status # "none" /\ files[f].content = c}

\* find_by_key: rows of one logical key.  A "$self" key resolves to the new
\* row's own id before the lookup, so it never finds one.
RefsAt(f, k) ==
  IF k = Self THEN {}
  ELSE {q \in RefIds : refs[q].status # "none" /\ refs[q].file = f /\ refs[q].key = k}

ActiveRefsAt(f, k) == {q \in RefsAt(f, k) : refs[q].status = "active"}

\* The row find_by_key returns: an active one if there is any, else a detached one.
FoundRefs(f, k) ==
  IF ActiveRefsAt(f, k) # {} THEN ActiveRefsAt(f, k) ELSE RefsAt(f, k)

UnusedRefs == {q \in RefIds : refs[q].status = "none"}

\* The row lock PostgreSQL keeps from an UPDATE to the end of its transaction.
Locked(f) ==
  \E r \in Requests : pc[r] \in {"revive_attach", "revive_commit"} /\ job[r].file = f

\* Mutant of BlockedFromPurge: active references are forgotten.
BlockedByDetachedOnly(f) ==
  \E q \in RefIds :
    refs[q].file = f /\ refs[q].status = "detached" /\ refs[q].detachedAt + RefGrace > now

\* The blocking_refs subquery of purge_files.
BlockedFromPurge(f) ==
  \E q \in RefIds :
    /\ refs[q].file = f
    /\ \/ refs[q].status = "active"
       \/ refs[q].status = "detached" /\ refs[q].detachedAt + RefGrace > now

\* Mutant of PurgeTargets: purge_at is not compared.
TargetsIgnoringGrace == {f \in FileIds : files[f].status = "deleted" /\ ~BlockedFromPurge(f)}

PurgeTargets ==
  {f \in FileIds :
    /\ files[f].status = "deleted"
    /\ files[f].purgeAt <= now
    /\ ~BlockedFromPurge(f)}

----------------------------------------------------------------------------
(* Control flow of a request *)

Goto(r, step) == pc' = [pc EXCEPT ![r] = step]

\* The handler returns an error, or its future is dropped.
Quit(r) ==
  /\ pc' = [pc EXCEPT ![r] = "idle"]
  /\ job' = [job EXCEPT ![r] = NoJob]

\* Where a handler goes once its reference is in place.
AfterAttach(r) == IF job[r].op = "instant" THEN "remember" ELSE "ok"

\* Bound: a handler that may insert a reference starts only while an id is left
\* for it.
RoomForRef ==
  Cardinality({r \in Requests : job[r].op \in {"small", "instant", "attach"}})
    < Cardinality(UnusedRefs)

----------------------------------------------------------------------------
(* small_upload *)

\* A fresh file id is minted and its object is put.  An error answer of put_object
\* may or may not have stored the object; it is returned without a cleanup.
PutObject(r, c, k) ==
  /\ pc[r] = "idle" /\ RoomForRef
  /\ \E f \in FileIds \ minted :
       /\ minted' = minted \cup {f}
       /\ \/ /\ objects' = objects \cup {f}
             /\ job' = [job EXCEPT ![r] =
                  [NoJob EXCEPT !.op = "small", !.content = c, !.key = k, !.own = f]]
             /\ Goto(r, "insert")
          \/ /\ "s3" \in Faults
             /\ objects' \in {objects, objects \cup {f}}
             /\ UNCHANGED <<pc, job>>
  /\ UNCHANGED <<now, files, refs, replays, sweep>>

NewRef(q, f, k) ==
  refs' = [refs EXCEPT ![q] =
    [status |-> "active", file |-> f, key |-> k, createdAt |-> now, detachedAt |-> 0]]

\* The transaction of a fresh insert: the row and its first reference commit
\* together.  A lost commit took effect but is reported as an error.
InsertRow(r) ==
  /\ pc[r] = "insert"
  /\ RowsOf(job[r].content) = {}
  /\ \E q \in UnusedRefs :
       /\ files' = [files EXCEPT ![job[r].own] = ActiveRow(job[r].content)]
       /\ NewRef(q, job[r].own, job[r].key)
       /\ \/ /\ job' = [job EXCEPT ![r] =
                  [@ EXCEPT !.file = job[r].own, !.ref = q, !.own = Nil]]
             /\ Goto(r, "ok")
          \/ /\ "lost_commit" \in Faults
             /\ Goto(r, "cleanup_fail")
             /\ UNCHANGED job
  /\ UNCHANGED <<now, objects, minted, replays, sweep>>

\* Mutant of InsertError: the error is returned without deleting the object.
InsertErrorLeavesObject(r) ==
  /\ pc[r] = "insert" /\ "db" \in Faults
  /\ Quit(r)
  /\ UNCHANGED <<now, files, objects, minted, refs, replays, sweep>>

\* begin, insert, read-back, audit, attach or commit fails: the transaction is
\* rolled back and the object is deleted.
InsertError(r) ==
  /\ pc[r] = "insert" /\ "db" \in Faults
  /\ Goto(r, "cleanup_fail")
  /\ UNCHANGED <<now, files, objects, minted, refs, replays, job, sweep>>

\* ON CONFLICT DO NOTHING on uq_files_tenant_hash_size met a committed row.
InsertConflict(r) ==
  /\ pc[r] = "insert"
  /\ RowsOf(job[r].content) # {}
  /\ Goto(r, "cleanup_dup")
  /\ UNCHANGED <<now, files, objects, minted, refs, replays, job, sweep>>

\* cleanup_uploaded_object: a failed delete is only logged.
CleanupObject(r) ==
  /\ pc[r] \in {"cleanup_fail", "cleanup_dup"}
  /\ \/ objects' = objects \ {job[r].own}
     \/ "s3" \in Faults /\ UNCHANGED objects
  /\ IF pc[r] = "cleanup_fail"
     THEN Quit(r)
     ELSE /\ Goto(r, "winner")
          /\ job' = [job EXCEPT ![r].own = Nil]
  /\ UNCHANGED <<now, files, minted, refs, replays, sweep>>

----------------------------------------------------------------------------
(* instant_upload *)

\* lookup_instant_upload_cache: a cached file that is still active is confirmed at
\* once; anything else is a miss, and the upload goes on.
MissReplay(r, c, k) ==
  /\ pc[r] = "idle" /\ RoomForRef
  /\ ~IsActive(replays[c])
  /\ job' = [job EXCEPT ![r] =
       [NoJob EXCEPT !.op = "instant", !.content = c, !.key = k]]
  /\ Goto(r, "winner")
  /\ UNCHANGED <<now, files, objects, minted, refs, replays, sweep>>

\* store_instant_upload_cache: the first row for the key wins, errors are swallowed.
Remember(r) ==
  /\ pc[r] = "remember"
  /\ \/ replays' = [replays EXCEPT ![job[r].content] = IF @ = Nil THEN job[r].file ELSE @]
     \/ "db" \in Faults /\ UNCHANGED replays
  /\ Goto(r, "ok")
  /\ UNCHANGED <<now, files, objects, minted, refs, job, sweep>>

----------------------------------------------------------------------------
(* The existing row both uploads fall back to *)

\* find_any_by_hash (small) and find_any_by_hash_and_size (instant).  No row:
\* 500 for a small upload, a Miss for an instant one.
FindWinner(r) ==
  /\ pc[r] = "winner"
  /\ \/ /\ RowsOf(job[r].content) = {}
        /\ Quit(r)
     \/ \E f \in RowsOf(job[r].content) :
          /\ job' = [job EXCEPT ![r].file = f]
          /\ Goto(r, IF IsActive(f) THEN "attach_lookup" ELSE "revive_read")
  /\ UNCHANGED <<now, files, objects, minted, refs, replays, sweep>>

\* The revive transaction re-reads the row.  A row that has become active in the
\* meantime is used as it is: handle_conflict_dedup returns it at once,
\* revive_or_use_winner hands it back to instant_upload, which attaches.
ReviveRead(r) ==
  LET f == job[r].file IN
  /\ pc[r] = "revive_read"
  /\ \/ /\ IsActive(f)
        /\ Goto(r, IF job[r].op = "small" THEN "ok" ELSE "attach_lookup")
        /\ UNCHANGED job
     \/ /\ InGrace(f)
        /\ Goto(r, "revive_write")
        /\ UNCHANGED job
     \/ /\ ~IsActive(f) /\ ~InGrace(f)     \* purged, or 410 grace_expired
        /\ Quit(r)
  /\ UNCHANGED <<now, files, objects, minted, refs, replays, sweep>>

\* The UPDATE of the row.  revive_or_use_winner commits here; handle_conflict_dedup
\* keeps the row locked and looks up the reference in the same transaction: an
\* active one is left alone, otherwise one is to be written.
ReviveWrite(r) ==
  LET f == job[r].file
      k == job[r].key
  IN
  /\ pc[r] = "revive_write" /\ ~Locked(f)
  /\ \/ /\ HasRow(f) /\ job[r].op = "instant"
        /\ files' = [files EXCEPT ![f] = ActiveRow(files[f].content)]
        /\ Goto(r, "attach_lookup")
        /\ UNCHANGED job
     \/ /\ HasRow(f) /\ job[r].op = "small"
        /\ Goto(r, IF ActiveRefsAt(f, k) # {} THEN "revive_commit" ELSE "revive_attach")
        /\ \/ RefsAt(f, k) = {} /\ UNCHANGED job
           \/ \E q \in FoundRefs(f, k) : job' = [job EXCEPT ![r].ref = q]
        /\ UNCHANGED files
     \/ /\ ~HasRow(f) \/ "db" \in Faults
        /\ Quit(r)
        /\ UNCHANGED files
  /\ UNCHANGED <<now, objects, minted, refs, replays, sweep>>

\* attach_in_txn_inner's write: revive the row the lookup found, or insert one.
\* The partial unique index admits one active row per key.
WriteRef(r) ==
  LET f == job[r].file
      k == job[r].key
      q == job[r].ref
  IN
  \/ /\ q # Nil
     /\ ActiveRefsAt(f, k) \subseteq {q}
     /\ NewRef(q, f, k)
     /\ UNCHANGED job
  \/ /\ q = Nil
     /\ ActiveRefsAt(f, k) = {}
     /\ \E n \in UnusedRefs :
          /\ NewRef(n, f, k)
          /\ job' = [job EXCEPT ![r].ref = n]

\* handle_conflict_dedup: row and reference commit together, or neither does.
ReviveCommit(r) ==
  LET f == job[r].file
      others == ActiveRefsAt(f, job[r].key) \ {job[r].ref}
  IN
  /\ pc[r] \in {"revive_attach", "revive_commit"}
  /\ \/ /\ files' = [files EXCEPT ![f] = ActiveRow(files[f].content)]
        /\ IF pc[r] = "revive_attach" THEN WriteRef(r) ELSE UNCHANGED <<refs, job>>
        /\ Goto(r, "ok")
     \/ /\ (pc[r] = "revive_attach" /\ others # {}) \/ "db" \in Faults
        /\ Quit(r)
        /\ UNCHANGED <<files, refs>>
  /\ UNCHANGED <<now, objects, minted, replays, sweep>>

----------------------------------------------------------------------------
(* attach and detach *)

StartAttach(r, f, k) ==
  /\ pc[r] = "idle" /\ RoomForRef
  /\ HasRow(f)
  /\ job' = [job EXCEPT ![r] = [NoJob EXCEPT !.op = "attach", !.file = f, !.key = k]]
  /\ Goto(r, "attach_lookup")
  /\ UNCHANGED <<now, files, objects, minted, refs, replays, sweep>>

\* attach_in_txn_inner up to its write: the file must have a row (soft-deleted is
\* enough), and an active reference ends the call.
AttachLookup(r) ==
  LET f == job[r].file
      k == job[r].key
  IN
  /\ pc[r] = "attach_lookup"
  /\ \/ /\ HasRow(f)
        /\ \E q \in ActiveRefsAt(f, k) :
             /\ job' = [job EXCEPT ![r].ref = q]
             /\ Goto(r, AfterAttach(r))
     \/ /\ HasRow(f)
        /\ ActiveRefsAt(f, k) = {}
        /\ Goto(r, "attach_write")
        /\ \/ /\ RefsAt(f, k) = {}
              /\ UNCHANGED job
           \/ \E q \in RefsAt(f, k) : job' = [job EXCEPT ![r].ref = q]
     \/ /\ ~HasRow(f) \/ "db" \in Faults
        /\ Quit(r)
  /\ UNCHANGED <<now, files, objects, minted, refs, replays, sweep>>

\* The write and the commit.  Only a violation by the INSERT is a UniqueRace; one
\* by the reviving UPDATE is an error.
AttachWrite(r) ==
  LET f == job[r].file
      k == job[r].key
      q == job[r].ref
  IN
  /\ pc[r] = "attach_write"
  /\ \/ /\ WriteRef(r)
        /\ Goto(r, AfterAttach(r))
     \/ /\ q = Nil /\ ActiveRefsAt(f, k) # {}
        /\ Goto(r, "attach_reread")
        /\ UNCHANGED <<refs, job>>
     \/ /\ (q # Nil /\ ~(ActiveRefsAt(f, k) \subseteq {q})) \/ "db" \in Faults
        /\ Quit(r)
        /\ UNCHANGED refs
  /\ UNCHANGED <<now, files, objects, minted, replays, sweep>>

\* After a lost race the row find_by_key returns is the answer, whatever its state.
AttachReread(r) ==
  LET found == FoundRefs(job[r].file, job[r].key) IN
  /\ pc[r] = "attach_reread"
  /\ \/ /\ found = {} \/ "db" \in Faults
        /\ Quit(r)
     \/ \E q \in found :
          /\ job' = [job EXCEPT ![r].ref = q]
          /\ Goto(r, AfterAttach(r))
  /\ UNCHANGED <<now, files, objects, minted, refs, replays, sweep>>

\* Detaching a detached reference is a success that changes nothing.
DetachRead(r, q) ==
  /\ pc[r] = "idle"
  /\ refs[q].status = "active"
  /\ job' = [job EXCEPT ![r] = [NoJob EXCEPT !.op = "detach", !.ref = q]]
  /\ Goto(r, "detach_write")
  /\ UNCHANGED <<now, files, objects, minted, refs, replays, sweep>>

\* UPDATE by primary key, whatever the row has become since the read.
DetachWrite(r) ==
  LET q == job[r].ref IN
  /\ pc[r] = "detach_write"
  /\ \/ refs' = [refs EXCEPT ![q] = [@ EXCEPT !.status = "detached", !.detachedAt = now]]
     \/ "db" \in Faults /\ UNCHANGED refs
  /\ Quit(r)
  /\ UNCHANGED <<now, files, objects, minted, replays, sweep>>

----------------------------------------------------------------------------
(* soft_delete and restore *)

\* Any other state of the row is answered 404 or 409.
DeleteRead(r, f) ==
  /\ pc[r] = "idle"
  /\ IsActive(f)
  /\ job' = [job EXCEPT ![r] = [NoJob EXCEPT !.op = "delete", !.file = f, !.at = now]]
  /\ Goto(r, "delete_write")
  /\ UNCHANGED <<now, files, objects, minted, refs, replays, sweep>>

\* The UPDATE is by primary key; it finds no row when the file was purged.
DeleteWrite(r) ==
  LET f == job[r].file IN
  /\ pc[r] = "delete_write" /\ ~Locked(f)
  /\ \/ /\ HasRow(f)
        /\ files' = [files EXCEPT ![f] =
             [@ EXCEPT !.status = "deleted", !.purgeAt = job[r].at + GracePeriod]]
     \/ /\ ~HasRow(f) \/ "db" \in Faults
        /\ UNCHANGED files
  /\ Quit(r)
  /\ UNCHANGED <<now, objects, minted, refs, replays, sweep>>

\* Mutant of RestoreRead: the grace period is not checked.
RestoreReadUnchecked(r, f) ==
  /\ pc[r] = "idle"
  /\ files[f].status = "deleted"
  /\ job' = [job EXCEPT ![r] = [NoJob EXCEPT !.op = "restore", !.file = f]]
  /\ Goto(r, "restore_write")
  /\ UNCHANGED <<now, files, objects, minted, refs, replays, sweep>>

\* Any other state of the row is answered 404, 409 or 410.
RestoreRead(r, f) ==
  /\ pc[r] = "idle"
  /\ InGrace(f)
  /\ job' = [job EXCEPT ![r] = [NoJob EXCEPT !.op = "restore", !.file = f]]
  /\ Goto(r, "restore_write")
  /\ UNCHANGED <<now, files, objects, minted, refs, replays, sweep>>

RestoreWrite(r) ==
  LET f == job[r].file IN
  /\ pc[r] = "restore_write" /\ ~Locked(f)
  /\ \/ /\ HasRow(f)
        /\ files' = [files EXCEPT ![f] = ActiveRow(files[f].content)]
     \/ /\ ~HasRow(f) \/ "db" \in Faults
        /\ UNCHANGED files
  /\ Quit(r)
  /\ UNCHANGED <<now, objects, minted, refs, replays, sweep>>

\* The response leaves the server.
Return(r) ==
  /\ pc[r] = "ok"
  /\ Quit(r)
  /\ UNCHANGED <<now, files, objects, minted, refs, replays, sweep>>

\* The client disconnects, or the server dies: an open transaction is rolled back
\* and nothing is cleaned up.
Cancel(r) ==
  /\ "crash" \in Faults /\ pc[r] # "idle"
  /\ Quit(r)
  /\ UNCHANGED <<now, files, objects, minted, refs, replays, sweep>>

----------------------------------------------------------------------------
(* purge_files *)

\* ORDER BY purge_at LIMIT BatchLimit.
Batches(targets) ==
  {batch \in SUBSET targets :
    /\ Cardinality(batch) <= BatchLimit
    /\ batch = targets \/ Cardinality(batch) = BatchLimit
    /\ \A f \in batch, g \in targets \ batch : files[f].purgeAt <= files[g].purgeAt}

\* Mutant of PurgeSelect: the blocked files are taken out of the batch, not out of the query.
PurgeSelectThenFilter(p) ==
  /\ sweep[p] = NoSweep
  /\ \E batch \in Batches({f \in FileIds : files[f].status = "deleted" /\ files[f].purgeAt <= now}) :
       /\ batch \cap PurgeTargets # {}
       /\ sweep' = [sweep EXCEPT ![p] = [at |-> now, todo |-> batch \cap PurgeTargets, file |-> Nil]]
  /\ UNCHANGED <<now, files, objects, minted, refs, replays, pc, job>>

\* `now` is sampled and the targets are selected once, up front.
PurgeSelect(p) ==
  /\ sweep[p] = NoSweep /\ PurgeTargets # {}
  /\ \E batch \in Batches(PurgeTargets) :
       sweep' = [sweep EXCEPT ![p] = [at |-> now, todo |-> batch, file |-> Nil]]
  /\ UNCHANGED <<now, files, objects, minted, refs, replays, pc, job>>

\* The sweep is done with file f, and with itself when nothing is left.
DropTarget(p, f) ==
  LET rest == sweep[p].todo \ {f} IN
  sweep' = [sweep EXCEPT ![p] =
    IF rest = {} THEN NoSweep ELSE [at |-> sweep[p].at, todo |-> rest, file |-> Nil]]

\* purge_single_file deletes the object first; a failure, with or without effect, skips the file.
PurgeObject(p) ==
  /\ sweep[p].file = Nil
  /\ \E f \in sweep[p].todo :
       \/ /\ objects' = objects \ {f}
          /\ sweep' = [sweep EXCEPT ![p].file = f]
       \/ /\ "s3" \in Faults
          /\ objects' \in {objects, objects \ {f}}
          /\ DropTarget(p, f)
  /\ UNCHANGED <<now, files, minted, refs, replays, pc, job>>

\* The row is re-read for the audit snapshot only and deleted by id.
PurgeRow(p) ==
  LET f == sweep[p].file IN
  /\ f # Nil /\ ~Locked(f)
  /\ \/ files' = [files EXCEPT ![f] = NoRow]
     \/ "purge" \in Faults /\ UNCHANGED files
  /\ DropTarget(p, f)
  /\ UNCHANGED <<now, objects, minted, refs, replays, pc, job>>

CancelSweep(p) ==
  /\ "crash" \in Faults /\ sweep[p] # NoSweep
  /\ sweep' = [sweep EXCEPT ![p] = NoSweep]
  /\ UNCHANGED <<now, files, objects, minted, refs, replays, pc, job>>

----------------------------------------------------------------------------

\* Transactions take milliseconds and grace periods hours; unless
\* LongTransactions, the clock does not move while one is open.
Tick ==
  /\ now < MaxTime
  /\ LongTransactions \/ \A r \in Requests : pc[r] \notin RowTxnSteps \cup RefTxnSteps
  /\ now' = now + 1
  /\ UNCHANGED <<files, objects, minted, refs, replays, pc, job, sweep>>

Start(r) ==
  \/ \E c \in Contents, k \in Keys \cup {Self} : PutObject(r, c, k) \/ MissReplay(r, c, k)
  \/ \E f \in FileIds, k \in Keys \cup {Self} : StartAttach(r, f, k)
  \/ \E f \in FileIds : DeleteRead(r, f) \/ RestoreRead(r, f)
  \/ \E q \in RefIds : DetachRead(r, q)

Handle(r) ==
  \/ InsertRow(r) \/ InsertError(r) \/ InsertConflict(r) \/ CleanupObject(r)
  \/ FindWinner(r) \/ ReviveRead(r) \/ ReviveWrite(r) \/ ReviveCommit(r) \/ Remember(r)
  \/ AttachLookup(r) \/ AttachWrite(r) \/ AttachReread(r) \/ DetachWrite(r)
  \/ DeleteWrite(r) \/ RestoreWrite(r)
  \/ Return(r)

Purge(p) == PurgeSelect(p) \/ PurgeObject(p) \/ PurgeRow(p)

Next ==
  \/ Tick
  \/ \E r \in Requests : Start(r) \/ Handle(r) \/ Cancel(r)
  \/ \E p \in Purgers : Purge(p) \/ CancelSweep(p)

Spec == Init /\ [][Next]_vars

\* A spawned request task is polled until it returns, and the scheduler starts
\* purge_files every 15 minutes and runs it to its end.
Fairness ==
  /\ \A r \in Requests : WF_vars(Handle(r))
  /\ \A p \in Purgers : WF_vars(Purge(p))

FairSpec == Spec /\ Fairness

----------------------------------------------------------------------------
(* Properties *)

TypeOK ==
  /\ now \in Nat
  /\ files \in [FileIds -> FileRows]
  /\ objects \subseteq FileIds
  /\ minted \subseteq FileIds
  /\ refs \in [RefIds -> RefRows]
  /\ replays \in [Contents -> FileIds \cup {Nil}]
  /\ pc \in [Requests -> Steps]
  /\ job \in [Requests -> Jobs]
  /\ sweep \in [Purgers -> Sweeps]

\* A file that can be read, or that a restore or a repeated upload may still bring
\* back: active, or soft-deleted with its grace period running.
Live(f) == IsActive(f) \/ InGrace(f)

\* No interleaving of uploads that lose the insert race and clean up after
\* themselves, of revivals, deletions and sweeps loses the bytes of a file that is
\* active or still restorable.
LiveHasObject == \A f \in FileIds : Live(f) => f \in objects

\* No upload leaves an object behind that no row names: whatever way the insert
\* goes, the object is either owned by a row or by an upload about to clean it up.
NoOrphanObject ==
  \A f \in objects :
    \/ HasRow(f)
    \/ \E r \in Requests : pc[r] \in {"insert", "cleanup_fail", "cleanup_dup"} /\ job[r].own = f

\* The sweep that removes the row of a file is older than each of the file's active
\* references: attaching before a sweep starts protects the file from that sweep, even
\* though it reads the references only once.
PurgeSparesReferenced ==
  [][\A f \in FileIds :
       HasRow(f) /\ ~HasRow(f)' =>
         \E p \in Purgers :
           /\ sweep[p].file = f
           /\ \A q \in RefIds :
                refs[q].status = "active" /\ refs[q].file = f => refs[q].createdAt >= sweep[p].at]_vars

Inserting(f) == \E r \in Requests : pc[r] = "insert" /\ job[r].own = f

\* The lifecycle a file id goes through: an id is gone once it was handed out and
\* neither has a row nor belongs to an upload that may still insert one.
PhaseOf(f) ==
  IF files[f].status # "none" THEN files[f].status
  ELSE IF f \in minted /\ ~Inserting(f) THEN "gone" ELSE "unused"

Phases == [f \in FileIds |-> PhaseOf(f)]

Deadlines == [f \in FileIds |-> files[f].purgeAt]

Lifecycle ==
  INSTANCE FileLifecycle WITH
    clock <- now, phase <- Phases, deadline <- Deadlines, stored <- objects

\* The store implements the abstract lifecycle: losers of an insert race, revivals
\* and sweeps never take a file through a transition the lifecycle does not have.
ImplementsLifecycle == Lifecycle!Spec

\* A deleted file whose grace period is over and that nothing references is
\* eventually purged, unless a new reference protects it: files that may not be purged,
\* however long they have been due, do not fill the batches and starve it.
ExpiredFilesPurged ==
  \A f \in FileIds :
    (files[f].status = "deleted" /\ files[f].purgeAt <= now /\ ~BlockedFromPurge(f))
      ~> (~HasRow(f) \/ BlockedFromPurge(f))

============================================================================
