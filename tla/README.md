# A verification project for Knota Fold

Knota Fold (`knota-fold`) is a multi-tenant administration backend: a Rust service on
Loco/Axum with SeaORM, PostgreSQL in production and SQLite in development, an
S3-compatible object store, Redis as an optional cache, and Qdrant for vector search.
This directory holds TLA+ modules translated from its source, the TLC configurations
that check them on small instances, and proofs that TLAPS checks for every value of the
constants.

Contents: [the system](#the-system), [the modules](#the-modules),
[FileStore](#filestore-uploads-deletions-references-and-the-purge),
[MultipartUpload](#multipartupload-resumable-uploads),
[TaskScheduler](#taskscheduler-scheduled-jobs),
[KnowledgeBase](#knowledgebase-documents-and-their-indexes),
[ChatSession](#chatsession-turns-answers-and-summaries),
[ToolBroker](#toolbroker-page-tools-and-their-results),
[AccessControl](#accesscontrol-tables-and-enforcer),
[Sessions](#sessions-logins-and-cached-accounts),
[Translations](#translations-revisions-bundles-and-etags),
[Dictionaries](#dictionaries-trees-and-overrides), [Settings](#settings-configuration-and-its-cache),
[Chunking](#chunking-cutting-a-document), [seen and not run](#seen-and-not-run),
[proofs](#proofs), [what is not modelled](#what-is-not-modelled), [plan](#plan).

## The system

The server is one async process (or several behind a load balancer). HTTP handlers are
futures on a shared Tokio runtime; background jobs are run by the Loco scheduler
(`src/config/scheduler.yaml`, `src/src/tasks`) and by a `BackgroundQueue` of workers.
Components share state only through the database, the bucket, the cache and a few
process-wide structures. A transaction is the default of its engine, READ COMMITTED on
PostgreSQL, and nothing in the services asks for `SELECT ... FOR UPDATE`: a handler that
reads and then writes by primary key can be overtaken in between.

| Component | State it keeps | Operations | Interacts with | What makes it correct |
|---|---|---|---|---|
| File store (`services/file_service.rs`) | `files` rows, objects in the bucket | small upload, instant upload, dedup check, soft delete, restore, purge sweep | bucket, references, audit, scheduler | an active or restorable file keeps its bytes; a sweep reclaims only what is past its grace period and unreferenced; no upload leaks an object |
| File references (`services/file_reference_service.rs`) | `file_references` rows | attach, detach, list | uploads, purge sweep | one active row per key; an active reference keeps a file from the sweep |
| Multipart upload (`services/file_upload_service*`) | `file_uploads`, `file_upload_parts`, idempotency keys, staged objects | initiate, sign, register part, complete, abort, resume, purge | bucket, file store, scheduler | one completion per session; a completed session has its file; a sweep never takes the bytes of a file |
| Task scheduler (`services/task_scheduler_service.rs`, `task_execution_service.rs`) | `scheduled_worker_definitions`, `_tenant_grants`, `_schedules`, `_executions` | tick, recover zombies, dispatch, trigger, run with status tracking, retry, set grants | background queue | an execution has one holder; queued retries agree with their rows; a retry count is bounded; a terminal status is final |
| Worker runs (`services/worker_run_service.rs`) | `worker_runs` rows | start, stage, progress, finish | indexing worker | a finished run stays finished; a failed run's index is taken away |
| KB indexing (`workers/indexing_worker.rs`, `document_service`, `controller/documents.rs`) | documents, chunks, lines, vectors | create, index, reindex, promote, delete | Qdrant, worker runs, providers | a ready document has one whole index in three stores; readers see it appear and disappear at once |
| Tool result broker (`knowledge_base/service/tools/tool_result_broker`) | in-process map of pending calls | register, resolve, cleanup | QA agent, HTTP result endpoint | a result is delivered to its call once; a call is not leaked |
| QA agent (`qa_v3_*`, `qa_compaction_service`, `chat_service`, `memory_service`) | sessions, messages, cached summaries, memory vectors | ask (SSE), compact, remember, delete | providers, broker, search | a summary stands for a whole beginning of the conversation; a stored question gets an answer |
| Chunking (`chunking_service.rs`) | none | cut a text into chunks | indexing | no text is lost; the splitting ends |
| Retrieval, parsers, providers | none of their own | parse, embed, search | Qdrant, providers | - |
| Login guard (`services/login_guard.rs`) | failure counters in the cache | check, record failure, clear | auth controller, captcha | lock-out after the limit |
| Auth cache (`services/auth_cache.rs`) | `user:pwd_iat`, the time of a user's password, and `user:profile`, his profile and status, in the cache | get-or-load, invalidate | users, every authenticated request | an evicted password time does not come back; what is out of date ends with its TTL |
| Captcha | none: challenges and tokens are signed and carry their expiry | issue, verify | auth controller | a token is no good after its TTL; until then it may be used again |
| API keys and exchange tokens | `api_keys`, `api_key_exchange_tokens` | create, revoke, exchange, verify | enforcer | a revoked key authenticates nobody |
| RBAC (`role_service`, `permission_service`, `casbin_*`) | roles, permissions, Casbin policy | assign, revoke, enforce, sync | middleware | what the enforcer allows is what the rows say |
| Users and tenants | `users`, `tenants`, memberships | CRUD, enable/disable, initialise a tenant | RBAC, auth cache | tenant isolation |
| Dictionaries (`dict_service.rs`) | `dict_types`, `dict_items`, tenants' overrides of both | create, update, toggle, reset, list, tree | - | the tree has no circle; a tenant's view has each entry once and misses none |
| i18n (`services/i18n_*`) | translations, entries, bundle revisions; bundles and ETags in the cache | edit, import, batch, apply a manifest, serve a bundle under an ETag | cache, browsers | a client that is told its bundle is current holds the current texts |
| System configuration (`sys_config_service.rs`) | `sys_configs`, resolved views in the cache | read, create, update, delete, override, revert | everyone | what the cache keeps after the evictions is what the rows say |
| Menus | `menus` | CRUD, reorder | RBAC | a tree |
| Notifications (`modules/notification`) | messages, receipts, live connections | publish, read, stream | users | a published message reaches each recipient |
| Audit and application logs | `audit_logs`, log files | log, query, rotate | everyone | an entry commits with its change |
| Mailers, middleware, initialisers, views, migrations, fixtures | - | - | - | - |

Hard behaviours: two handlers between a read and a write of one row; an object store
that takes no part in database transactions; sweeps that select their targets once and
act on them one by one; requests whose future is dropped when the client disconnects;
workers that die and leave `running` rows; a queue that delivers late; caches filled
from a read that an invalidation has overtaken; clocks compared at two points of one
handler.

## The modules

| Module | Models | Kind |
|---|---|---|
| `FileLifecycle` | what the file store promises about one physical file | abstract specification |
| `FileStore` | rows, objects, references, the upload/delete/restore/attach handlers and the sweep | detailed specification, refines `FileLifecycle` |
| `FileStoreProofs` | type correctness, live files and their objects, what a sweep spares, orphan objects, the refinement | proofs |
| `MultipartUpload` | sessions, parts, staged and final objects, completion, abort, the `purge_uploads` sweep | detailed specification |
| `MultipartUploadProofs` | type correctness, exclusion of completions, finality of a completed session, what a session leaves, live files and their objects | proofs |
| `JobLifecycle` | what the scheduler promises about one execution | abstract specification |
| `TaskScheduler` | definitions, grants, schedules, executions, the queue, ticks, triggers, workers | detailed specification, refines `JobLifecycle` |
| `TaskSchedulerProofs` | type correctness, one holder per execution, agreement of retries and rows, the refinement | proofs |
| `DocumentIndex` | what a reader of the knowledge base sees of one document | abstract specification |
| `KnowledgeBase` | documents, their chunks, lines and vectors, indexing jobs and the requests that meet them | detailed specification, refines `DocumentIndex` |
| `KnowledgeBaseProofs` | type correctness, scopes of vectors, clean failures, ready documents, the refinement | proofs |
| `ChatSession` | sessions, turns, streamed answers, compactions, memory vectors, deletion | detailed specification |
| `ChatSessionProofs` | type correctness, stored turns, summaries that only grow and are beginnings of the conversation | proofs |
| `ToolBroker` | the broker's map, page tools that wait, posts of their results | detailed specification |
| `AccessControl` | tables of users, roles, permissions and API keys, and the Casbin enforcer | detailed specification |
| `AccessControlProofs` | type correctness, keys and their uses, revocations, agreement of enforcer and tables | proofs |
| `Sessions` | the login guard, password changes, the cached account every request is checked against | detailed specification |
| `SessionsProofs` | type correctness, the lock, the finality of evictions | proofs |
| `Translations` | translations, revisions, cached bundles and ETags, conditional requests | detailed specification |
| `Dictionaries` | types and items, platform rows, tenants' own and overriding rows, the checks of a move, the merged view | detailed specification |
| `Settings` | configuration rows, tenants' overrides, the views resolved from them and their cache | detailed specification |
| `Chunking` | the loop that cuts a text into chunks | detailed specification |
| `MCFileStore`, `MCMultipartUpload`, `MCTaskScheduler`, `MCKnowledgeBase`, `MCChatSession`, `MCAccessControl`, `MCSessions` | symmetry sets and values of the instances | model-checking modules |
| `MCSideBySide` | `Translations`, `ToolBroker`, `Chunking`, `Dictionaries` and `Settings` in one run | model-checking module |
| `SideBySideProofs` | `ToolBroker`: type correctness, one result per call; `Settings`: cached views and rows; `Dictionaries`: merged views, the tree; `Translations`: ETags; `Chunking`: no text is lost, splits shorten | proofs |

The modules share conventions. A handler is cut at every await between a read and a write
that depends on it; a transaction takes effect in the action that stands for its commit. What
may go wrong is a constant, `Faults`, whose members each module lists; a run names those it
admits. Ids are handed out once. Clocks are bounded by `MaxTime`, ids and requests by the sets a
run gives. `CHECK_DEADLOCK FALSE` everywhere: ids and clock are bounded, so a run of the model
ends, and a server without requests is idle. Variables that only properties read are called
history where they are declared.

Where the modules meet: `MultipartUpload` treats what `FileStore` does to a finished file as its
environment; `KnowledgeBase` reads a file's bytes from it (an outcome); the queue that
`TaskScheduler` models is the one that carries the jobs of `KnowledgeBase`, with the same
promises (one delivery, none after a worker's death); `ToolBroker` is called from a turn of
`ChatSession`, whose answer waits for it; `Chunking` is one step of a job (`Chunk`); API keys
that `AccessControl` issues are not subject to `Sessions`; `Dictionaries` and `Settings` share nothing with
the others.

## FileStore: uploads, deletions, references and the purge

**State.** `files[f]` is a row of `files` with its status, its content and `purge_at`
(0 when NULL); a content stands for a `(content_hash, size)` pair of one tenant.
`objects` is the bucket: a storage key embeds the file id
(`utils/file_hash.rs: build_storage_key`), so an object is named by the id it was stored
under. `refs` are `file_references` rows, `replays` the instant-upload replay cache,
`now` the wall clock. `pc[r]` and `job[r]` are the program counter and the locals of
request `r`, `sweep[p]` those of a running `purge_files`.

**Actions.** One action per stretch of a handler between two awaits that matter. A
transaction that reads and then writes is cut in two (READ COMMITTED lets others commit in
between), its writes take effect in the action that stands for the commit.
`handle_conflict_dedup` is cut once more: its UPDATE locks the row until the commit
(`Locked`), the reference lookup happens under that lock.

| Code | Actions |
|---|---|
| `small_upload_inner`, `put_object_and_begin_txn` | `PutObject` |
| `insert_and_resolve_conflict`, `handle_inserted_file` | `InsertRow`, `InsertError`, `InsertConflict` |
| `cleanup_uploaded_object` | `CleanupObject` |
| `instant_upload` | `MissReplay`, `FindWinner`, `ReviveRead`, `ReviveWrite`, `AttachLookup`.., `Remember` |
| `handle_conflict_dedup`, `revive_or_use_winner` | `FindWinner`, `ReviveRead`, `ReviveWrite`, `ReviveCommit` |
| `attach`, `attach_in_txn_inner`, `find_by_key` | `StartAttach`, `AttachLookup`, `AttachWrite`, `AttachReread`, `WriteRef` |
| `detach` | `DetachRead`, `DetachWrite` |
| `soft_delete`, `restore` | `DeleteRead`/`DeleteWrite`, `RestoreRead`/`RestoreWrite` |
| `purge_files`, `purge_single_file` | `PurgeSelect`, `PurgeObject`, `PurgeRow` |
| a dropped future, a killed process | `Cancel`, `CancelSweep` |

**Faults** are a constant: `s3` (an object-store call fails, with or without effect), `db`
(a statement or commit fails and is rolled back), `lost_commit` (a commit takes effect but
is reported as an error), `purge` (a sweep fails on one file and goes on), `crash` (a handler or a
sweep stops between two steps).

**Runs.**

| Run | Asks | Bounds |
|---|---|---|
| `file_store` | do live files keep their objects; do losing and failed uploads take theirs with them; does the store implement `FileLifecycle`; is every expired, unreferenced file purged, although a sweep takes one at a time, the oldest first, and an older one may be kept from it by a reference | 2 requests, 1 sweep, 2 files, 2 contents, 2 references, 3 clock values, a batch limit of 1; `db`; 469 608 states |
| `file_references` | does the sweep spare what was referenced before it began when keys are reused, attaches race, handlers are dropped, bucket calls fail and commits are lost | the same with one content and one explicit key, 3 references, a batch limit of 2; `s3`, `lost_commit`, `purge`, `crash` |

Two requests are enough for every pairwise overtaking (the code never waits for a third
party). Two file ids and two contents give both the insert race of one content and two files that
are expired at once, of which a batch of one must leave one; three reference ids make a race on
one key next to an existing row. Grace periods of one clock unit put every comparison with
`purge_at` on both sides within the clock's bound.

**Fairness** is weak fairness of each request's handler and of each sweep: Tokio polls a
woken task until it completes, and `scheduler.yaml` starts `purge_files` every fifteen
minutes. Nothing makes a client send a request, so `Start` is not fair.

`PurgeSparesReferenced` lets a sweep purge a file with an active reference only when that reference was
attached since this very sweep, the one that holds the file, made its selection.

**Clock and transactions.** `LongTransactions = FALSE` stops the clock while a transaction is
between its read and its commit: transactions take milliseconds and the grace period is 24
hours. Without it a restore that compares `now < purge_at` just before the deadline and
commits after a sweep has selected the row loses the object: nothing re-checks the deadline
in the UPDATE, and the sweep does not re-check the row. The assumption is named in every
theorem that needs it.

## MultipartUpload: resumable uploads

**State.** `uploads[u]` is a row of `file_uploads` (status, whether it holds an S3 multipart id,
whether the content hash is known, `parts_received`, the `status_reason`, the file, the
timestamps the sweep compares); `parts[u]` are its committed `file_upload_parts`.
`multiparts`, `temp` and `final` are the three things a session may own in the bucket: an open
multipart upload, the staged object, the final one. `files[u]` is the `files` row a completion
inserted: the file has the session's id, as `finalize_inserted_file` gives it. What the file
store does to a finished file (delete, end of grace, purge) is the environment, one action each.

| Code | Actions |
|---|---|
| `initiate_upload`, `persist_upload_and_respond`, `abort_multipart_if_possible` | `CreateMultipart`, `PersistUpload`, `AbortInitiated` |
| `register_part_inner`, `upsert_part_and_finalize`, `guard_register_part_state_update` | `RegisterPart`, `RegisterCommit` |
| `complete_upload_inner`: read, compare-and-set | `CompleteRead`, `CompleteLock`, `ReturnBusy` |
| `complete_stored_multipart`, `verify_uploaded_object`, `copy_completed_object` | `StoreMultipart`, `VerifyObject`, `CopyObject` |
| `complete_upload_inserted`, `finalize_inserted_file`, `commit_inserted_completion` | `InsertFile`, `InsertFails`, `InsertConflict`, `Finish` |
| `complete_upload_dedup`, `find_dedup_candidate`, `persist_dedup_reuse` | `DedupCleanup`, `DedupFind`, `ReuseWinner` |
| `cleanup_complete_failure`, `best_effort_terminalize_upload_row` | `CleanupFailure`, `Terminalize` |
| `abort_upload`, `cleanup_abort_s3_objects` | `AbortUpload`, `AbortCleanup` |
| `purge_uploads`: selection, `purge_soft_expired`, `purge_stale_completing`, `purge_hard_expired` | `SweepSelect`, `SoftObjects`/`SoftRow`, `StaleObjects`/`StaleRow`, `HardDelete` |
| a dropped future, a killed sweep | `Cancel`, `CancelSweep` |

**Faults.** `s3` (a call fails, carried out or not), `db` (a statement fails), `lost_commit` (a commit
takes effect and is reported as an error), `client` (the bytes in the bucket are not what was
declared), `crash` (a handler is dropped), `killed` (a sweep is).

| Run | Asks | Bounds |
|---|---|---|
| `multipart_safety` | do live files keep their final object although losers, failures and the stale sweep delete objects; does a session that is over leave nothing behind; do parts settle at the lock | 2 sessions of one content, 2 requests, 1 sweep, 1 part, 3 clock values; `db`, `client`, `killed`; 1 007 681 states |
| `multipart_liveness` | one completion at a time; is completed final; do abandoned and stuck sessions end | 1 session of 2 parts, 2 requests, 1 sweep, 5 clock values; `s3`, `lost_commit`, `client`, `crash`; 551 144 states |

Two sessions are needed for the content race and no more; two requests make every pair of
handlers of one session meet. `UploadTTL`, `StaleAfter` and `Retention` are one clock unit, and five
clock values take a session through its TTL, the stale sweep, the retention and its deletion.
`StaleAfter <= UploadTTL <= Retention` is what the constants of the source (one hour, 24 hours,
seven days) satisfy; it is `MultipartConstants`, and it is why the three target sets of a sweep, selected
up front, cannot overlap in a way that matters.

**Fairness** is that of `FileStore`: handlers are polled to their end, and `purge_uploads` runs every
15 minutes. `crash` may still drop any handler at any point; the sweep then finds the session.

**Assumption.** `SlowCompletions = FALSE`: a completion ends within `COMPLETING_STALE_HOURS` of its
lock. What happens when it does not is described under [seen and not run](#seen-and-not-run).

**Exceptions in `NothingLeftBehind`.** A session that is over, and that nobody works on, owns nothing in the
bucket but the object of its file: no staged object, no final one, no open multipart upload. The code has two
exceptions for the last: the stale sweep deletes objects and forgets the multipart upload
(`complete_stale_aborted`), and an abort whose commit was carried out but reported as an error never gets to its clean-up
(`aborted_by_user`). Both are named in the property.

**Exceptions in `CompletedIsFinal`.** A sweep that selected a session as active and reaches it after
it was completed marks it expired, by id; the request that was told its own commit failed aborts
the session it has completed. Both are in the code, both are named in the property, and nothing
else can undo a completion.

## TaskScheduler: scheduled jobs

**State.** `defs`, `grants`, `schedules`, `executions` are the columns of the four tables that change or
are read; `open` the tenants that are active; `queue` the messages of the background queue;
`tick[t]`, `request[r]`, `run[w]` the locals of a run of `scheduler_dispatch`, of a request and of a queue
worker. No transaction protects any of it: every row is written by id, after a read of its own.

| Code | Actions |
|---|---|
| `tick`: `recover_zombies`, `find_due`, the loop | `TickStart`, `RecoverZombie`, `FindDue` |
| `process_schedule`: checks, `create_pending`, `advance_next_run` | `CheckSchedule`, `CreatePending`, `AdvanceNextRun` |
| `dispatch_or_skip`, `mark_execution_skipped_*` | `Dispatch`, `MarkSkipped` |
| `trigger`, `validate_trigger_authorization` | `TriggerCheck`, `TriggerCreate`, `TriggerEnqueue` |
| `batch_set_grants` | `SetGrants`, `DisableRevoked`, `DeleteGrants`, `InsertGrant`, `RequestFails` |
| `worker_schedules`: `create`, `update`, `patch_status`, `delete_schedule` | `CreateSchedule`, `ChangeSchedule` |
| `worker_definitions`: `update`, `patch_status` | `ChangeDefinition` |
| `run_with_status_tracking`, `validate_and_load_config` | `Take`, `StartRun`, `EndRun` |
| `handle_failure` | `CountRetry`, `Requeue`, `GiveUp` |
| a tick, request or worker that dies | `TickDies`, `RequestFails`, `WorkerDies` |

`max_retries`, the cron period and the two-hour zombie cutoff are constants. The queue is modelled from its
callers: it delivers a message to one worker, once, and does not deliver it again when the
worker dies. `perform_later` may refuse (`queue`), or queue the message and report an error (`queue_lost`).
`batch_set_grants` disables the schedules of a revoked grant row by row (worker_definitions.rs:315-320); `DisableRevoked` is one step.

| Run | Asks | Bounds |
|---|---|---|
| `scheduler_safety` | has an execution one holder; do queued retries agree with their rows; does each execution behave as `JobLifecycle` promises (an outcome is final, attempts are bounded) | 1 schedule, 2 executions, 1 tick, 1 request, 2 workers, 3 clock values; `db`, `queue`, `crash`, `killed`; schedules and grants change |
| `scheduler_liveness` | does a tick end every execution whose worker died | 2 definitions of which one is implemented, 1 execution, 3 clock values; `queue_lost`, `crash`; tenants and definitions change |

Two executions of one schedule and two workers are what it takes for executions to overlap and
for a recovered execution to meet a running one; `MaxRetries = 2` has both a retry and a last
attempt. `scheduler_liveness` needs one execution only: the property is about each of them.

**Fairness**: `scheduler_dispatch` runs every minute to its end; queue workers poll, and
`tokio::select!` bounds the work by `timeout_secs`.

**Assumption.** `SlowRuns = FALSE`: an execution ends, with its retries, within the zombie cutoff.
With `TRUE` a tick fails an execution that a worker still has, and the worker then overwrites the
outcome. `ImplementsLifecycle` is checked without `queue_lost`, because an execution whose message
was queued although the queue reported an error is marked skipped and runs all the same.

## KnowledgeBase: documents and their indexes

**State.** `docs[d]` is a row of `kb_documents` (deleted, scope, status, parsed text);
`chunks`, `lines` and `vectors` are the three stores an index is spread over, as sets of what a
job has put there, `whole` or cut short. `job[j]` is a message of the queue, its `worker_runs` row
and the locals of the worker that runs it; `request[r]` the locals of an HTTP request. No
transaction spans the three stores, so the order of the steps carries the properties.

| Code | Actions |
|---|---|
| `run_indexing_pipeline`, `start_indexing` | `Start`, `MarkIndexing` |
| `load_pipeline_input`, `parse_prepare_and_save`, `set_parsed_content`, `save_parsed_markdown` | `LoadInput`, `Parse`, `FindParsed`, `SaveParsed` |
| `chunk_index_markdown`, `insert_document_lines`, `generate_embeddings` | `Chunk`, `InsertLines`, `Embed` |
| `persist_chunks_and_vectors` | `Persist`, `InsertChunks`, `Upsert` |
| `mark_ready`, `handle_pipeline_outcome` | `FindReady`, `MarkReady`, `Succeed` |
| `cleanup_partial_index`, `fail`, `mark_error` | `DropChunks`, `DropLines`, `DropVectors`, `FailRun`, `FindFailed`, `MarkFailed` |
| `documents.rs: create` | `Create`, `InsertDocument`, `FindText`, `WriteText`, `Enqueue` |
| `reindex` | `Reindex`, `ClearChunks`, `ClearLines`, `FindReset`, `WriteReset`, `Enqueue` |
| `delete` | `Delete`, `DeleteVectors`, `DeleteRows` |
| `promote` | `Promote`, `WriteScope`, `PromoteVectors` |
| a run, a cleanup or a mark that fails in turn | `TrackerFails`, `CleanupFails`, `MarkingFails` |
| a request that fails, a worker that dies | `RequestFails`, `JobDies` |

**Faults**: `work` (parsing, embedding or a model fails), `statement`, `upsert` (Qdrant fails, with or
without effect), `tracker` (that a job runs, or how it ended, cannot be recorded), `cleanup` (a step of the
cleanup after a failure fails; the others are still tried), `marking` (`mark_error` fails), `dies` (the worker's process), `request`
(a request is refused, fails or is dropped), `unqueued` (it stops when its document waits for a job).

**Overlaps.** Nothing in the code keeps a request away from a document that is being worked on.
`Overlapping` names the kinds that may come then; `kb_safety` has all three, and the theorems hold for any choice.
What became of a document is history, `trouble`:

| `trouble` | The document | Ends |
|---|---|---|
| `overtaken` | was reindexed or promoted while a job or another request had it | never |
| `halfway` | had a reindexing, promotion or deletion that stopped between two of its steps | when a reindexing has cleared all three stores |
| `unqueued` | had a creation or reindexing that stopped before there was a job | never |

`ReadyIsIndexed` speaks of ready documents that are neither overtaken nor halfway, and not in the middle of
a withdrawal or promotion. `ImplementsDocumentIndex` lets an overtaken document leave the abstract specification (`Overtake`) and
holds for every other one, those halfway included, since a reader sees a withdrawal that stopped as a
withdrawal. What becomes of the excepted ones is described under [seen and not run](#seen-and-not-run). `NoEarlyPublish` and
`FailedRunsLeaveNothing` except nothing.

| Run | Asks | Bounds |
|---|---|---|
| `kb_safety` | has a ready document its whole index, of one job, in all three stores; does a reader see what `DocumentIndex` says; are the vectors of a private document ever marked as the tenant's | 1 document, 2 jobs, 2 requests, all overlaps; `statement`, `upsert`, `cleanup`, `dies`, `request`; 2 989 427 states |
| `kb_overlap` | does a failed run leave anything; does a document that is being indexed stop being it | 1 document, 2 jobs, 1 request at a time, reindexings and deletions; `work`, `statement`, `upsert`, `tracker`, `marking`, `dies`, `unqueued`; 439 217 states |

Jobs of two documents share nothing. Two jobs give a first index and a reindexing, one after the other or at
once; two requests make a deletion or a promotion meet a reindexing. `ImplementsDocumentIndex` is strict about stale
vectors because `/api/kb/search` shows a vector without asking the database.

**Fairness** is weak fairness of the worker's job and of each request. `IndexingSettles` is two leads-to: every queued job
brings its document to a moment at which it is not being indexed, and every document that is being indexed gets there.
The exceptions are those the code has. A job may be *lost*: its worker died, its run could not be recorded, so that nothing
handles its outcome, or `mark_error` failed. A request may have stopped with its document waiting for a job (`unqueued`).
Nothing in the code finds such a document; only another reindexing helps.

## ChatSession: turns, answers and summaries

**State.** `rows[s]` is a session with its cached summary (the last message it covers and the set of
messages whose content went into it), `messages[s]` its messages by `created_at`, `memory` the
vectors of messages, `spawned` the tasks that write them, `guard` the process-wide set that
admits one compaction per session. `turns[t]`, `jobs[t]`, `deletes[d]` hold the locals of a turn, of the
compaction it spawned and of a deletion, `clients[t]` what the reader of the stream has seen.

| Code | Actions |
|---|---|
| `prepare_session_and_history`, `save_user_turn` | `Open`, `ReadHistory`, `MaterialsFail`, `SaveUser` |
| `prepare_compaction`, `maybe_spawn_compaction` | `Compact` |
| `consume_agent_stream`, `disconnected_turn_result`, `persist_stream_error` | `Generate`, `Answer`, `Disconnect`, `StreamFails` |
| `persist_successful_turn`, `send_completed_event` | `Persist`, `Complete` |
| `compact_history`, `cache_summary`, the guard | `JobReads`, `JobFails`, `WriteSummary`, `Release` |
| `index_message` | `IndexMessage` |
| `delete_session`, `delete_by_session` | `Delete`, `DeleteMessages`, `DeleteRow`, `DeleteVectors` |

The session's lock is held around the history read only, so that read is one action. Whether the
client is still there is decided when something is sent to it. The content of prompts, recall,
citations and titles changes nothing that is checked.

**Run** `chat_turns`: one turn ended earlier (`Earlier`), two more run at once, of which one
(`Fragile`) may lose its client, its model or a statement, and the session may be deleted. Thresholds are
one message, so every turn may compact; the estimate of tokens is assumed to exceed its threshold
whenever the number of messages does. Two overlapping turns are what it takes for a compaction to work
on a history that another one has moved past. 420 956 states.

**Fairness**: spawned tasks are polled to their end.

## ToolBroker: page tools and their results

**State.** `entries[c]` is the broker's map (`pending`, or a `Resolved` marker that is recent or
expired), `mailbox[c]` the oneshot channel, `stubs[c]` the page tool that waits, `posts[p]` a
request that brings a result. The map is locked per access: `resolve` accesses it two or three times, the
actions `Check`, `DropExpired`, `Take`, `Send`, `Mark`. `Deadline` is tokio's timeout, which polls the
channel before the clock; `TimeOut` and `Cleanup` follow.

It is checked in the run `side_by_side` with one call and three posts: calls have ids of their own,
and three posts let one resolve, one arrive in between and one find the marker expired.

**Fairness**: the runtime polls the tool and the handlers, and its clock runs; nothing makes a
browser post.

## AccessControl: tables and enforcer

**State.** `users`, `roles`, `perms`, `holds` (`user_roles`), `grants` (`role_permissions`), `keys`, `used` are the
tables of one tenant; `rules` and `groups` the enforcer, which knows roles by their codes and
permissions by their routes. Its memory and its own table are one variable: both change under its
write lock. `unsettled` is history: the users, roles and keys that changed in the tables since a
request that ran alone, and to its end, has set their part of the enforcer; a request that overlaps
another settles nothing.

| Code | Actions |
|---|---|
| `assign_roles`, `sync_user_roles`, initialising a tenant | `SyncUserRoles`, `CreateAdmin`, `ClearRoles`, `InsertRole`, `ReadCodes`, `ApplyUser` |
| `assign_permissions` | `SyncRolePermissions`, `ClearPermissions`, `InsertPermission`, `ReadRoutes`, `ApplyRole` |
| role update, disable, enable | `UpdateRole`, `Disable`, `DropRole`, `Enable`, `ReadRole`, `ApplyEnabled`, `FindHolders`, `ReadHolder`, `ApplyHolder`, `EndEnable` |
| permission update, delete, restore | `UpdatePermission`, `DeletePermission`, `RevokeRoute`, `RestorePermission` |
| exchange of a token for a key | `Exchange`, `InsertKey`, `ReadUsage`, `WriteUsage`, `ApplyKey` |
| change of a key's role, revocation | `ChangeRole`, `WriteKey`, `Revoke`, `DropKey` |
| a request that fails or is dropped, an enforcer that fails halfway | `Stops`, `StopsHalfway` |

`EnforcerAgrees` compares, for whatever is settled, what the enforcer allows with what the tables say;
`RevokedForGood` follows a key through an update that read it before its revocation; `UsesAreKeys`
counts the keys of a token.

**Run** `access`: two requests at a time and three in all (`RequestBound`), one user, two roles with three
codes to move between, one permission with two routes, two keys and one token. Two requests meet in
every pair; the third is the lone one that must heal what they left. 1 000 666 states.

## Sessions: logins and cached accounts

**State.** One account: its row (the second of its password, its status, a mailed reset token), the
`password_iat` of the tokens handed out, the login guard's failure counter and lock, the two cache
entries every authenticated request consults (`user:pwd_iat`, `user:profile`), and the locals of two
handlers. Cache calls are awaits: anything may run between them. Passwords and captchas are
outcomes. Seconds in which nothing is stamped are not told apart (`Tick`, `Stamped`), nor counts
above the limit. The services ignore the errors of the cache (login_guard.rs:121-128, :198-228, auth_cache.rs:101, :131):
any call may fail (`Outage`), a get then finds nothing, a write is not made, and the handler goes on. The second
`get_password_iat` of the extractor (extractors/tenant.rs:89) repeats the middleware's and is left out.

| Code | Actions |
|---|---|
| `login`, `login_guard` | `Login`, `Refuse`, `Admit`, `Verify`, `ReadCount`, `StoreCount`, `SetLock`, `ClearCount`, `ClearLock`, `Unlock` |
| `auth_cache`, the extractor | `Check`, `LookIat`, `LoadIat`, `KeepIat`, `Accept`, `LookProfile`, `LoadProfile`, `KeepProfile` |
| password change and reset | `VerifyOld`, `ResetPassword`, `StorePassword`, `EvictIat`, `EvictProfile` |
| `toggle_user_status`, `forgot`, a dropped handler | `Toggle`, `Forgot`, `Drop` |

`FailuresLock`: failures that do not overlap, and whose calls to the cache succeed, lock the account; a
call that fails ends the streak the property counts, since the code takes it for a count of zero or never stores it. The property's window is the smaller of
the failure window and the lock time. `EvictionIsFinal`: once a change has evicted it, the cached
password time is up to date, but for the excuses the code has (a slow reader re-inserts what it read
before the change, the eviction fails, the handler is dropped before it, a reset by mail evicts nothing).
`StaleDataHeals`: time ends the excuses.

**Run** `sessions`: two handlers, three failures to a lock, time limits of one and two seconds, two changes.
`Mixes` bounds what goes on beside logins in one behaviour: failures with unlocks and status changes, password changes,
or checks with status changes, each with calls to the cache that fail. 833 857 states.

**Fairness** is that of the clock (`Tick`) and of each handler.

## Translations: revisions, bundles and ETags

**State.** `rows` and `revisions` are the tables `i18n_translations` and `i18n_bundle_revisions` for one
namespace, `registered` the keys of `i18n_entries`. `tenant_id` is NULL in global rows, and PostgreSQL
holds NULLs for distinct in a unique index: two transactions may insert two global rows of one thing, so
each carries the write that inserted it (`by`). `bundles` and `etags` are the two cached values of each
scope and locale, `held` what a browser shows. `blurred` is history: the bundles whose revision has
stopped telling their contents, see below.

| Code | Actions |
|---|---|
| `upsert_global_translation`, `upsert_tenant_override`, updates and deletions by id and by cell | `UpsertGlobal`, `UpsertOverride`, `UpdateGlobal`, `DeleteGlobal`, `DeleteOverride`, `DeleteCell` |
| `import_global`, `import_tenant`, `batch_update_*`, `apply_manifest` | `ImportGlobal`, `ImportTenant`, `BatchGlobal`, `BatchTenant`, `ApplyManifest` |
| `find_*` and `*_one_in_txn` inside the transaction | `FindRow`, `Found`, `NothingFound`, `WriteRows` |
| `bump_revision_inner`, `bump_global_revision`, the commit | `ReadRevision`, `Commit`, `RollBack` |
| `invalidate_bundle_cache` | `EvictBundle`, `EvictETag` |
| `delete_entry_cascade` | `DropEntry` |
| `get_bundle`, `compute_etag`, `read_revisions`, `resolve_bundle`, `build_bundle_from_db` | `Ask`, `ReadGlobalRevision`, `ReadTenantRevision`, `KeepETag`, `LookBundle`, `ReadOwn`, `ReadBase`, `ReadOverrides`, `KeepBundle` |
| the five minutes of `BUNDLE_CACHE_TTL`; a failed statement or a dropped handler | `ExpireBundle`, `ExpireETag`; `Fail` |

The finds of one batch come before its writes, which is when its transaction shows anything. A write
that meets the row of another open transaction waits for it (`Contended`). Reads that fail, the audit and
the entries' status and locations are left out.

`EtagTellsContent` says that a 304 is right: a client whose ETag is the current one shows the current
texts. It rests on `build_bundle_from_db` reading the revisions before the rows; the mutant reads them
after. `ClientsCatchUp` says that once the writes are over the client shows what they wrote, although
a global write does not evict the caches of tenants and a slow reader may insert after an eviction.
Both except `blurred` bundles, and the exceptions are for good since a number can be reached twice: two
overlapping bumps that store the same number, duplicated rows, a base-locale write seen from another
locale (only the base locale's revision is bumped), and a cascade deletion, which bumps nothing.

**Run** `side_by_side`: two writes of any kind, one key seeded with one text and written with another,
one tenant, a base locale and another one, and a tenant's client in the other one, the case with the most
reads. With two keys the invariants were checked apart, in 4.0 million states; only there can `RollBack`
happen, which takes two inserts of a tenant that do not wait for each other.

**Fairness**: handlers run to their end, clients ask again, and cached values expire.

## Dictionaries: trees and overrides

**State.** `base[e]` is the platform's or a tenant's own row of an entry (a type or an item), `overriding[t][e]`
the live copy-on-write row by which tenant `t` overrides it. `editor[c]` holds the locals of a request.
`steady` is history: the rows that a view could have seen all along; `tangled` too: two moves of base rows
have overlapped. Nothing here runs in a transaction, so every query and every change is a step.

| Code | Actions |
|---|---|
| the endpoints of `controllers/dicts.rs` | `BeginUpdate`, `BeginToggle`, `BeginReset`, `BeginCreate`, `BeginView` |
| `update_dict_item`, `toggle_item_for_tenant`: load, authorise, find the override | `Load`, `FindOverride` |
| `validate_no_circular_ref`, `validate_tree_depth`: one query per ancestor | `Circular`, `Depth` |
| `update_with_version`, `create_item_override`, `create_dict_item` | `Check`, `Write`, `InsertOverride`, `Insert` |
| `reset_dict_type_override`, `soft_delete` | `FindDoomed`, `Drop`, `ListOverrides` |
| `find_effective_types`, `find_effective_items` | `ReadOverrides`, `ReadOwn`, `ReadBase`, `Close` |

`ParentsEnd`: the parents of every item end at a root, unless two moves overlapped (`tangled`): each is
checked before the other is written. `ViewsMissNothing`: a view is merged from three queries, between which
overrides come and go; an entry one of whose rows was visible throughout is shown, and each entry once.

**Run** `side_by_side`: one type, overridden at the start, an item under another one, a third to be created,
two editors with one request each, trees of depth two. Two requests make every pair of an edit and a check or
of an edit and a view overlap; two seeded items and a new one are what a circle or a tree that is too deep takes.

## Settings: configuration and its cache

**State.** `globals[k]` are the global rows of a key, a set, because the unique index over `(tenant_id, key)` does
not count a NULL tenant; `overrides[t][k]` the row of a tenant. `cached[v]` is what the cache holds of a view:
one key of a scope (`Detail`) or all of them (`Listing`). `stale` is history: the views the code lets go stale
until their TTL.

| Code | Actions |
|---|---|
| `create_global_config`, `update_global_config`, `delete_global_config` | `FindGlobal`, `InsertGlobal`, `WriteGlobal`, `DropOverrides`, `DropGlobal` |
| `upsert_tenant_config`, `delete_tenant_config` | `FindOverride`, `InsertOverride`, `WriteOverride`, `FindOwn`, `DropOwn` |
| the eviction after each change | `EvictDetail`, `EvictAll` |
| `get_resolved_detail`, `get_all_resolved` | `Look`, `ReadGlobal`, `ReadOverride`, `Keep` |
| the TTL; a dropped handler | `Expire`; `Drop` |

`SettledViewsAgree`: a cached view that no request has still to evict is what the rows resolve to, but for the
three ways to a stale one: a global change, which leaves the views of tenants to their TTL, a reader that a
change has overtaken, a handler dropped before its eviction. An eviction that fails is ignored by the code (sys_config_service.rs:281-282) and
leaves no view stale that a dropped handler would not.

**Run** `side_by_side`: two callers and three requests, one key, one tenant, two types and three values, of which
each fits one type or none; dropped handlers. A reader, a writer that overtakes it and a second reader are
three requests.

## Chunking: cutting a document

`document` is the sequence of the parser's events, `content`, `fresh`, `check` the locals of
`chunk_markdown` (`current_content`, `has_new_content_since_flush`, `next_token_check_bytes`), `chunks` what was
cut off. `AppendEvent` is one turn of the outer loop, `SplitOff`, `FlushWhole` and `WithinBudget` the branches of the
inner one, `Finish` the end. Characters are letters, full stops and blank lines, known by their
place in the document; the script has no ASCII letters, so a character is three bytes and a token. Blocks are
paragraphs, headings that end a chunk, headings that do not, and formulas, which stand for every event
`append_event` has no arm for (chunking_service.rs:208: formulas, inline HTML, references of footnotes, outside headings); those
add nothing (`Appended`).
`best_boundary_under_token_budget` is the greatest boundary that fits, which is what the binary search
returns because the estimate grows with the prefix.

**Run** `side_by_side` checks it on each of the 3193 documents of up to two blocks of up to three
characters, with a budget of two tokens, a minimum of one and one sentence of overlap: `NothingLost` (every
character of an event that is handled is in some chunk, although content that only repeats a chunk is dropped) and `SplitsShorten` (the loop
over the budget ends). Two blocks give every pair of kinds.

`MCSideBySide` runs `Translations`, `ToolBroker`, `Chunking`, `Dictionaries` and `Settings` in one TLC run
because they are small and share nothing: a variable says which of them moves in a behaviour, the others stay in
their initial states. 554 178 states in all.

## Seen and not run

Met while modelling; each follows from the code and no run is spent on it.

* File store: the dual grace is decided once. `purge_files` documents (file_service.rs:1277-1279) that a file is
  purgeable only when every reference has been detached for the grace window; the filter runs in the SELECT
  only, so a reference attached after it does not save the file. `find_by_key` argues that detached rows are
  unique per key (file_reference_service.rs:608-612); two attaches that both miss, the first detached before
  the second inserts (:366), leave two. `handle_conflict_dedup` returns a row that became active between its two reads
  without attaching the reference `default_self_attach` promises. An expired row that active references keep
  from the sweep answers 410 to every new upload of its content. `attach` says the winner of its race is
  active, but the re-read runs after the rollback, and a detach can come first.
* Multipart: a completion that takes longer than an hour is taken for dead by the stale sweep, which deletes its
  final object and aborts its session; the completion then commits a file without bytes
  (file_upload_service.rs:1763). A session left `complete_failed_retryable` (complete.rs:57) answers 409 to the
  retry. Two registrations of different parts each count without the other's uncommitted row. A deduplicated
  completion revives the winner before its own transaction. The stale sweep forgets a multipart upload that was
  never closed. Two initiations with one idempotency key both miss the cache.
* Scheduler: the transaction of `batch_set_grants` is empty, every statement runs on the pool
  (worker_definitions.rs:322, against :302-303). The concurrency checks see `running` rows only; a manual trigger
  ignores the limit and leaves its row pending when the queue refuses the message; an execution stays
  pending when `advance_next_run` fails; nothing recovers pending rows. `max_retries = n` gives n
  attempts in all, not n retries.
* Knowledge base: a document deleted while its job runs keeps vectors: the worker upserts after the deletion and
  returns without a clean-up (against documents.rs:531). A second queued message for a ready document
  fails in `start_indexing`, and the clean-up takes the ready index away. A promotion during a job leaves vectors
  private; a reindexing during one leaves the vectors of both. A reindexing whose enqueue fails stays pending; one that fails after the vectors were deleted leaves a ready
  document without any, and so does a deletion. A worker's death leaves `indexing` until a reindexing, and so do `mark_error` failing and
  `WorkerRunTracker::start` failing, which returns before anything handles the outcome (indexing_worker.rs:103-115, against
  document_service.rs:203-207, where a document is not to be left stuck). Cancelled runs are
  recorded as succeeded. Two uploads of one file both miss `find_duplicate_file_document`. `delete_library` and
  `delete_folder` count and then delete. Parsed assets are never removed from the bucket, nor the file reference
  detached.
* Chat: a history that cannot be read is answered as an empty one. A complete answer is lost when the client leaves
  before it is stored, while a partial one is kept. Turn indexes repeat when turns overlap. A compaction of
  an old history moves the boundary of the summary back; messages between the boundary and the
  recent window are missing from the prompt until the next one. A panic in a compaction keeps the guard. A session
  deleted under a turn keeps its messages and vectors (against chat_service.rs:72-76).
* Page tools: a duplicate post may be answered 404; a post answered `Fresh` may not reach a tool that timed out; a tool that
  blocks on a full event channel has no timeout; `Resolved` entries are never removed unless another post comes
  (in_process.rs:19 calls them temporary); the id in `ToolCallCompleted` is not the one in `ToolCallStarted`.
* Access: overlapping synchronisations leave rules of the loser until the next lone one. Renaming a
  role's code, moving a permission to another route and restoring a permission change the tables only; the API keys
  of a role are not put back when it is enabled. `user_roles` and `role_permissions` are rewritten without a
  transaction. Limits on keys and tokens are counted and then inserted. Overlapping exchanges of one token are counted
  once, so it is exchanged for more keys than it allows (tests/requests/api_keys.rs:351-380 expects otherwise of
  exchanges one after the other).
* Sessions: overlapping failures are counted once. A cache error while a failure is counted starts the count again at one, or
  loses the failure or the lock (login_guard.rs:121-128, :198-228). A reset by mail evicts nothing, nor does `toggle_user_status`,
  although the comment of `invalidate_user` lists status toggles. Two password changes in one second, or stored in the reverse
  order, leave a token of the earlier one valid. Reset tokens do not expire. A captcha token can be used again until its
  TTL. The check for the last super administrator counts and then updates.
* Translations: two overlapping bumps share a number (i18n_bundle.rs:25 says that any global write increments);
  `delete_entry_cascade` neither bumps nor evicts; base-locale writes do not bump the locales that fall back on them;
  the comment in `invalidate_bundle_cache` that tenants' ETags change does not hold while the ETag itself is cached;
  the cascade over tenants' revisions is redundant, since the ETag contains the global one.
* Chunking: `append_event` drops the text of inline and display formulas, inline HTML and references of footnotes outside headings
  (chunking_service.rs:208), although the parser is asked for them (`Options::all()`). A chunk may exceed the budget (no boundary fits, content without text on both sides, a heading); after
  a split `chunk_byte_start` is the end of the event, so `char_start`, `char_end` and line ranges point past
  the text; a heading's text appears twice; the branches on an empty tail cannot be taken.
* Dictionaries: no service function opens a transaction. Two overlapping moves can close a circle, after which
  `validate_no_circular_ref` of an item below it does not end. A tenant's moves are checked against base rows, so its
  overrides may form a circle of their own, although `validate_tree_depth` speaks of the "effective item set"; that check
  also ignores the subtree that moves along. `update_with_version` checks and then writes by id, so the later of two
  overlapping updates wins. An override that is reset and made again starts at version 1, which an old client may still
  name. A view misses an entry whose override is made, and whose platform row is then disabled, between its queries.
* System configuration: two overlapping `create_global_config` make two global rows of one key, since the unique index
  ignores a NULL tenant. An upsert that overlaps the deletion of its global row leaves an override without one, which a
  comment says should not happen. A global change leaves the views of tenants to the five minutes of their TTL (a comment
  says so for this version).

## Proofs

TLAPS proves, for every value of the constants allowed by the assumptions:

| Theorem | Under | Says |
|---|---|---|
| `FileStoreProofs!TypeCorrect` | - | `Spec => []TypeOK` |
| `FileStoreProofs!LiveFilesKeepTheirObject` | `SoundCommits`, `ShortTransactions` | `Spec => []LiveHasObject` |
| `FileStoreProofs!StoreImplementsLifecycle` | the same | `Spec => ImplementsLifecycle` |
| `FileStoreProofs!SweepsSpareReferenced` | - | `Spec => PurgeSparesReferenced` |
| `FileStoreProofs!NoObjectIsLeftBehind` | `BucketAnswers`, `NoCrash` | `Spec => []NoOrphanObject` |
| `MultipartUploadProofs!TypeCorrect` | - | `Spec => []TypeOK` |
| `MultipartUploadProofs!OneCompletionAtATime` | - | `Spec => []OneCompletion` |
| `MultipartUploadProofs!CompletedStaysCompleted` | - | `Spec => CompletedIsFinal` |
| `MultipartUploadProofs!PartsSettle` | - | `Spec => PartsSettleAtLock` |
| `MultipartUploadProofs!SessionsLeaveNothing` | `BucketAnswers`, `NoCrash` | `Spec => []NothingLeftBehind` |
| `MultipartUploadProofs!LiveFilesKeepTheirObject` | `CommitsAreReported`, `CompletionsAreQuick` | `Spec => []LiveFileHasObject` |
| `TaskSchedulerProofs!TypeCorrect` | - | `Spec => []TypeOK` |
| `TaskSchedulerProofs!ExecutionsHaveOneHolder` | - | `Spec => []OneHolder` |
| `TaskSchedulerProofs!RetriesMatchRows` | - | `Spec => []MessagesMatchRows` |
| `TaskSchedulerProofs!ExecutionsFollowLifecycle` | `QueueAnswers`, `RunsAreQuick` | `Spec => ImplementsLifecycle` |
| `KnowledgeBaseProofs!TypeCorrect` | - | `Spec => []TypeOK` |
| `KnowledgeBaseProofs!VectorsFollowTheirDocument` | - | `Spec => []NoEarlyPublish` |
| `KnowledgeBaseProofs!FailedRunsCleanUp` | no `cleanup` fault | `Spec => []FailedRunsLeaveNothing` |
| `KnowledgeBaseProofs!ReadyDocumentsAreIndexed` | - | `Spec => []ReadyIsIndexed` |
| `KnowledgeBaseProofs!ReadersSeeWholeIndexes` | - | `Spec => ImplementsDocumentIndex` |
| `ChatSessionProofs!TypeCorrect` | - | `Spec => []TypeOK` |
| `ChatSessionProofs!CompletedTurnsAreStored` | - | `Spec => []CompletedIsStored` |
| `ChatSessionProofs!SummariesOnlyGrow` | - | `Spec => SummaryNeverForgets` |
| `ChatSessionProofs!SummariesArePrefixes` | - | `Spec => []SummaryIsPrefix` |
| `AccessControlProofs!TypeCorrect` | - | `Spec => []TypeOK` |
| `AccessControlProofs!UsesBelongToKeys` | - | `Spec => []UsesAreKeys` |
| `AccessControlProofs!RevocationsLast` | - | `Spec => RevokedForGood` |
| `AccessControlProofs!SettledIsEnforced` | - | `Spec => []EnforcerAgrees` |
| `SessionsProofs!TypeCorrect` | - | `Spec => []TypeOK` |
| `SessionsProofs!FailuresLockTheAccount` | - | `Spec => []FailuresLock` |
| `SessionsProofs!EvictionsAreFinal` | - | `Spec => []EvictionIsFinal` |
| `SideBySideProofs!TypeCorrect` | - | `Spec => []TypeOK` |
| `SideBySideProofs!CallsHaveOneResult` | `Distinct` | `Spec => []OneResult` |
| `SideBySideProofs!PendingEntriesAreAwaited` | `Distinct` | `Spec => []PendingIsAwaited` |
| `SideBySideProofs!SettledViewsMatchRows` | - | `SpecOfOne => []SettledViewsAgree` |
| `SideBySideProofs!ViewsListWhatStayed` | - | `SpecOfOne => []ViewsMissNothing` |
| `SideBySideProofs!ParentsEndAtRoots` | - | `SpecOfOne => []ParentsEnd` |
| `SideBySideProofs!EtagsTellContents` | - | `SpecOfOne => []EtagTellsContent` |
| `SideBySideProofs!NothingIsLost` | - | `SpecOfOne => []NothingLost` |
| `SideBySideProofs!SplitsMakeShorter` | - | `SpecOfOne => SplitsShorten` |

What the assumptions say is true of the instance of some run, so that TLC has checked the same statement:
`SoundCommits` and `CommitsAreReported` exclude `lost_commit`, `BucketAnswers` excludes `s3`, `NoCrash` excludes
`crash`, `QueueAnswers` excludes `queue_lost`; `ShortTransactions`, `CompletionsAreQuick` and `RunsAreQuick` are the
three assumptions on speed described with their modules. Without them the statements are false of the code, for the
reasons given under [seen and not run](#seen-and-not-run): a handler that is dropped before its clean-up leaves
its object, a run that outlives the zombie cutoff is ended twice. Every other fault is allowed. The inductive invariants
were checked with TLC on the instances of the runs before they were proved.

**FileStore.** `LiveHasObject` is not inductive. `Inv` adds: rows belong to minted ids; only deleted rows
carry a deadline; a sweep's targets are dead for good (`SweepsHoldDead`: they were past their deadline
when selected and nothing revives an expired row); an upload that still cleans up owns an id that no
row, no sweep and no other upload has (`OwnIsFresh`); a transaction between its read and its commit is
over a row that is live (`TxnsAreOnLive`), which is where `ShortTransactions` is used. `SoundCommits`
is needed because a lost commit followed by the clean-up deletes the object of a live
file. The refinement shows that each action is one step of `FileLifecycle` for one file or a stutter.
`PurgeSparesReferenced` speaks of one step, and needs to know of a sweep what its SELECT saw: every active
reference to a file it holds was attached since (`ReferredSince`). That no object is an orphan follows from whose
hands it is in: an object without a row is that of an upload which still has its clean-up before it, and a sweep
deletes an object before its row (`HandedOut`, `ObjectBeforeRow`).

**MultipartUpload.** `Inv` is `TypeOK` and `Exclusion`: a session about to be inserted is known to nobody else
(`PersistIsFresh`); a session somebody completes is not active, so the compare-and-set cannot take it
again (`WorkingHolds`); unless commits are misreported, a completion that is not finished is of a
session that is not completed (`NotYetCompleted`). The proof goes through lemmas that say what an
action may do to a status (`UpdateMoves`, `HolderMoves`). No assumption on faults or speed.
`LeftInv` names, for each staged and each final object, the completion that will remove it or the file that has it.
`LiveInv` explains why the stale sweep never takes the object of a live file: what it selected is
abandoned, that is, nobody completes it and no file came of it (`StaleIsAbandoned`), because a completion that runs was locked
less than `StaleAfter` ago and its session was written to since (`CompletesInTime`).

**TaskScheduler.** `Inv` is `TypeOK`, `OneHolder` and: ticks, requests and workers past a given step name an
execution (`Named`); an id that has no row is held by nobody, so an insert makes its first holder
(`HeldExist`); every holder knows the `retry_count` of its row (`HoldersMatchRows`). Most actions are
*quiet*: they give nobody an execution he did not have (`QuietStep`). The others hand one execution over, from
its only holder to another one (`HandOver`). All faults are allowed, `queue_lost` too.
The refinement of `JobLifecycle` needs to know the status that goes with each place an execution can be in
(`JobFits`): who holds a message, a run or a dispatch has a row that the next step may legally change, what a tick is about to
skip or takes for a zombie nobody else has (`SkipsFit`, `ZombiesFit`), and whatever somebody runs is no zombie yet
(`RunsInTime`, from `RunsAreQuick`). Each step touches one execution, and is a step of its lifecycle.

**KnowledgeBase.** `Inv` is `TypeOK` and: jobs and requests past a given step name a document, and an id that has
no row yet is in nobody's hands (`JobsNamed`, `RequestsNamed`, `KnownExist`); what a job put in a store is of its
document (`OwnRows`); a job that copied the scope `tenant` copied it from a row that says so, and a
promotion reaches the vectors after the row (`ScopesCopied`, `PromotionsWritten`): a scope never goes back,
so `NoEarlyPublish` follows from the order of these two writes alone. `Cleaned` says which stores of a
failed job are empty at each step of its cleanup; no other job writes rows under its id.
Overlapping jobs and every fault are allowed, but a step of the cleanup that fails must be excluded
for `FailedRunsLeaveNothing`: with it the code leaves rows behind.
For a ready document `IndexInv` says, of each document that exists and was not overtaken (`Kept`, `InStep`), that one job or one
rewriting request has it (`Sole`); what the three stores hold of it at each stage of that job or request (`Fits`, `Prepared`); and that a
ready one has all of its job's rows unless a request has begun, or may have stopped, taking them away (`Indexed`, `Withdrawn`).
`Sole` holds because a request that finds the document idle is alone, and one that does not overtakes it. The same invariant,
with what a request knows of a document it has just made (`Fresh`), carries the refinement of `DocumentIndex`, whose readers see
vectors only. Both theorems allow every fault and every overlap.

**ChatSession.** Four invariants, one above the other. `NamedInv`: the locals of turns, jobs and deletions name what
exists. `TurnsAreStored`: what a turn has passed is in its session as long as nobody deletes that, hence a reader who saw
`Completed` finds question and answer. `GuardInv`: a session has one compaction at a time (`OneJob`), and what that one
read of the cached summary is still there or is gone with the session (`JobsUpToDate`), so writing a new summary never
covers less. `SummaryInv`: whatever a turn or a compaction has read of the conversation begins it still, or the conversation
is gone (`ReadingsAreOld`); messages are stored once, and only what was said is (`MessagesFit`); a cached summary, and one
about to be cached, covers a beginning up to its boundary (`CachesFit`). No fault is excluded. Beginnings are compared position by
position, because induction over sequences is out of reach.

**AccessControl.** No fault is excluded and no bound on overlapping requests is assumed. `KeyInv` counts, for each token, the keys an
exchange has inserted (`Counted`); `used` and what an exchange has read stay below. That a revoked key stays revoked is a property of
single steps over it: a write of a key keeps the flag it finds. Agreement takes three layers. `FlightInv`: a request that is alone
is the only one, and what it read is what the tables say still (`Fresh`). `CoverInv`: whatever an overlapping request may yet
change in the enforcer is unsettled already (`Covered`). `AgreeInv`: outside the unsettled and what is in flight (`Open`) enforcer
and tables agree, and a lone request has done its part up to its step (`Own`). When it ends, `Own` says that its subject agrees
and may be settled. Steps that leave everything outside a set as it was (`Steady`) are most of them.

**Sessions.** The streak, which a failing call to the cache ends, and the excuses are history that the two properties are about. For the guard `Inv`
says that a handler that is alone is the only one (`AloneIsOnly`), so whoever writes the next failure of a
streak has read those before it (`ReadersCounted`); that the counter holds at least the streak and
outlives it (`StreakIsCounted`); that a handler about to lift the lock has ended the streak (`LiftersEnded`);
and that a full streak has its lock, or a handler about to set it (`StreakLocks`). For the cache: without an excuse
every check that is about to store holds the row's time (`ReadersAreFresh`) and an old entry has a change
about to evict it (`StaleIsEvicted`). Only a change or a reset stores a password (`StoresHaveGoals`,
`ChecksHaveGoals`).

**ToolBroker.** A *winner* is a post that took the pending entry out. `Inv`: a call has at most one winner
(`OneWinner`) and none while its entry is pending (`PendingIsUnwon`), since the ids are fresh and nobody posts for
a call that is not registered (`IdleIsUnknown`); what is in a channel, or was returned, the winner has sent
(`Delivered`). `Distinct` says that the values the module tells apart (no value, the timeout, an accepted post)
are different ones.

**Settings.** `ConfigInv` tells where what is to be cached comes from. A reader that no change has overtaken has picked global rows that
are still there (`PickFits`), and before it stores, what it has is an answer the rows give now (`UpToDate`). A step that changes a row
leaves alone what every view outside `Affected` tells (`RowsStay`, hence `AnswersStay`), marks the readers of the views it affects as old, and
either its request has the evictions before it or the view is one the code leaves to its TTL. `UnlikeAssumption` says that the absent value is no key
and that no tenant has the platform's scope.

**Dictionaries.** `DictionaryInv` says of a view between its queries that what it has read holds what was there to be read and has stayed
visible since (`ViewFits`), and that what it took for an override, an own row or the platform's is one still. That rests on two facts about the
tables: no row changes its owner (`OwnersStay`), and every override is of a platform row (`OverridesArePlatforms`); the second needs each
request under way to know its entry (`EditorFits`), since an override may be inserted long after the row it copies was loaded. `ApartAssumption` says
that the absent value is no row, item, type or id, that no tenant is the platform, and that the items of the start are a tree; which tree is a
constant (`Above`).
`TreeInv` follows a move up the tree: there is a set of items that it has passed, its own not among them, whose parents are in the set, or are where it
is now, or are none (`GoesUp`, `WentUp`), so that a circle closed by its write would have been one before. Others may insert items below these and make
them roots meanwhile; only a second move could lead out of the set, which is what `tangled` records. Only a request whose row is its own writes a base row
(`TreeFits`), which needs an override found by a request to have an id: `IdsCounted` counts the ids against the requests that have ended, so `NewId` never
runs out of them.

**Translations.** `EtagInv` says of everything under an ETag (what a client shows, what a cache keeps, what a request has read so far) that the revisions in
the ETag are not above those there are (`NotAbove`), and that it is what the rows give as long as they are those there are (`Tells`, `RequestFits`).
That holds of a request because it reads the revisions first, and it stays through every commit: to a bundle that is not blurred
a commit is either to other rows and revisions (`Steady`) or makes every earlier ETag past (`Raised`), since a write that finds the revision it has read
(`OneRevision`, `WriteFits`) raises it, for a tenant's bundle also when the write is global. `ViewAssumption` says that each client uses one bundle.

**Chunking.** `ChunkInv` says that what was appended of handled events is in the content or in a chunk, and that content which is not fresh, and so
may be dropped at the end, is in a chunk. It is inductive because a boundary lies inside the content (`BoundaryInside`): what is before it is
trimmed of breaks only and becomes a chunk, what is after it stays. For the second property the characters left after a split
are traced back to those before it (`Assembled`): no two come from the same one, and one that the overlap does not repeat comes back nowhere, so there are fewer of
them (`FewerInked`). `SizesAssumption` says that budget, minimum, overlap and bounds are natural numbers: neither the budget nor the
overlap need be positive.

**Model-checked only.** Liveness under fairness is out of TLAPS's reach: `ExpiredFilesPurged`, `AbandonedSessionsEnd`, `ZombiesRecovered`, `IndexingSettles`,
`QuestionsAnswered`, `ClientsCatchUp`, `StaleDataHeals`. Every invariant and every action property of the runs is a theorem;
where the table names an assumption, under that.

## What is not modelled

Components without a module, with the reason (`PROJECT.json` lists them all):

* Menus: a tree and overrides per tenant, one statement per operation; `Dictionaries` has the same shape with
  more steps. Tenants themselves and role templates are rows written by one administrator.
* Notifications, mailers, audit and application logs: rows appended or messages sent, nothing
  decides on them.
* Retrieval, parsers, providers: calls to models and services, whose answers are inputs of `KnowledgeBase`
  and `ChatSession`.
* Part layout (`partition_policy`), the sampled ranges of the fast hash, `char_offset_to_line`: pure
  functions with tests of their boundaries.
* Middleware, initialisers, views, migrations, binaries: wiring.

In the modelled components: `detach_by_resource` has no caller. Download URLs, the content proxy,
listing, probing and MIME validation neither change nor depend on the state above; nor do signing parts
and resuming. The replay of idempotent answers of the multipart handlers is left out. Audit rows are
written inside the same transactions and never read back. SQLite serialises writers, so the PostgreSQL model has
every behaviour SQLite has. Worker definitions exist from the start; log output and its truncation
are not modelled. In the knowledge base, folders and libraries are left out: they move and count
documents and start nothing. In the dictionaries, the query that looks for the code of a tenant's new type among the platform's
rows is taken together with the unique index, in `Insert`; names, values, order and pages are left out.

## Plan

Done: the components modelled have their modules and runs, and every safety property of the runs is proved.

Left, in this order:

1. Part layout against a reference definition.
