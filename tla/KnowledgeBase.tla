----------------------------- MODULE KnowledgeBase -----------------------------
(***************************************************************************)
(* Documents of the knowledge base and the job that indexes one: requests  *)
(* that create, reindex, delete and promote a document, the background     *)
(* queue, the indexing worker and what it writes in three stores: the row  *)
(* of the document, its chunk and line rows, and its vectors in Qdrant.    *)
(* There is no transaction around a job: it looks at the document between  *)
(* its stages and stops when the document is no longer being indexed.      *)
(*                                                                         *)
(* A job is the message that asked for it, the run that tracks it and the  *)
(* generation of the index it builds.  The queue delivers a message once.  *)
(***************************************************************************)
EXTENDS Naturals, FiniteSets

CONSTANTS
  Documents,    \* document ids, each given to one document
  Files,        \* files of the file store a document may be created from
  Jobs,         \* job ids, each enqueued once
  Requests,     \* concurrent HTTP requests
  Nil,          \* no document, no file
  Overlapping,  \* the kinds of request that may come while a document is being worked on
  Faults        \* which of AllFaults may happen

Kinds == {"reindex", "delete", "promote"}

\* In a job, "work": a parser, the embedding service or a file read fails; "statement",
\* "upsert": a statement, a call to Qdrant does; "tracker": its run, or how it ends, is not
\* recorded; "cleanup", "marking": the cleanup after a failure, or mark_error, fails in turn;
\* "dies": the worker's process does.  "request": a request stops, refused or dropped;
\* "unqueued": it stops with its document waiting for a job.
AllFaults ==
  {"work", "statement", "upsert", "tracker", "cleanup", "marking", "dies", "request", "unqueued"}

ASSUME KnowledgeBaseConstants ==
  /\ Overlapping \subseteq Kinds /\ Faults \subseteq AllFaults
  /\ Nil \notin Documents \cup Files \cup Jobs

VARIABLES
  docs,     \* docs[d]: the row of document d
  chunks,   \* the chunk rows, one element for what a job inserted for a document
  lines,    \* the line rows, likewise
  vectors,  \* the points in Qdrant, likewise
  job,      \* job[j]: the local variables of job j and the status of its run
  request   \* request[r]: the local variables of a request

vars == <<docs, chunks, lines, vectors, job, request>>

index == <<chunks, lines, vectors>>

----------------------------------------------------------------------------
(* Rows, locals and types *)

Working == {"pending", "indexing"}

\* What became of a document, for the properties and in no column: a reindexing or a promotion
\* came while it was being worked on; one stopped between two of its steps, and no reindexing
\* has got as far since; a request stopped before it had a job.
Troubles == {"overtaken", "halfway", "unqueued"}

\* The status of a deleted row is "deleted" until a worker that read it earlier writes another.
NoDocument ==
  [status |-> "none", deleted |-> FALSE, scope |-> "private", file |-> Nil, trouble |-> {}]

DocumentRows ==
  [status : {"none", "ready", "error", "deleted"} \cup Working, deleted : BOOLEAN,
   scope : {"private", "tenant"}, file : Files \cup {Nil}, trouble : SUBSET Troubles]

\* A job that was told to stop may have embeddings for a part of its chunks.
IndexRows == [doc : Documents, job : Jobs, whole : BOOLEAN]

Points == [doc : Documents, job : Jobs, whole : BOOLEAN, scope : {"private", "tenant"}]

NoJob ==
  [step |-> "none", doc |-> Nil, scope |-> "private", text |-> FALSE, got |-> "none",
   run |-> "none", lost |-> FALSE]

Stages ==
  {"mark", "load", "parse", "save", "write", "resume", "chunked", "lines", "lined", "embed",
   "embedded", "persist", "insert", "inserted", "upsert", "persisted", "ready", "publish",
   "succeed"}

FailureSteps ==
  {"drop_chunks", "drop_lines", "drop_vectors", "fail", "find_failed", "mark_failed"}

JobLocals ==
  [step : {"none", "queued", "ended"} \cup Stages \cup FailureSteps,
   doc : Documents \cup {Nil}, scope : {"private", "tenant"}, text : BOOLEAN,
   got : {"none", "part", "all"}, run : {"none", "running", "succeeded", "failed"},
   lost : BOOLEAN]

NoRequest == [step |-> "idle", doc |-> Nil, file |-> Nil]

\* The steps of a reindexing or a deletion that come after it took vectors away.
Withdrawing == {"clear_chunks", "clear_lines", "reset", "write_reset", "delete_rows"}

RequestLocals ==
  [step : {"idle", "insert", "set_text", "write_text", "enqueue", "reindex",
           "delete", "promote", "write_scope", "promote_vectors"} \cup Withdrawing,
   doc : Documents \cup {Nil}, file : Files \cup {Nil}]

Init ==
  /\ docs = [d \in Documents |-> NoDocument]
  /\ chunks = {} /\ lines = {} /\ vectors = {}
  /\ job = [j \in Jobs |-> NoJob]
  /\ request = [r \in Requests |-> NoRequest]

----------------------------------------------------------------------------
(* Reads and writes the handlers share *)

Exists(d) == docs[d].status # "none" /\ ~docs[d].deleted

\* is_indexing_active
Active(d) == Exists(d) /\ docs[d].status \in Working

Rows(table, d) == {x \in table : x.doc = d}

\* A row is updated by its id: whatever was read of it before, deleted or not.
SetStatus(d, status) == docs' = [docs EXCEPT ![d].status = status]

Live(j) == job[j].step \notin {"none", "ended"}

Idle(d) ==
  /\ \A j \in Jobs : job[j].doc = d => ~Live(j)
  /\ \A r \in Requests : request[r].doc # d

MayCome(kind, d) == Exists(d) /\ (kind \in Overlapping \/ Idle(d))

----------------------------------------------------------------------------
(* The indexing job *)

At(j, step) == job[j].step = step

Go(j, step) == job' = [job EXCEPT ![j].step = step]

\* The locals of a job that ended mean nothing any more.  Lost: it could not say how it went.
End(j, run, lost) ==
  job' = [job EXCEPT ![j] =
           [NoJob EXCEPT !.step = "ended", !.doc = job[j].doc, !.run = run, !.lost = lost]]

\* Every error of the pipeline, a panic included, is handled by handle_pipeline_outcome.
Fail(j) == Go(j, "drop_chunks")

\* What a job works out by itself is part of the step that next looks at the document.
Check(j, from, active, stopped) ==
  /\ At(j, from)
  /\ Go(j, IF Active(job[j].doc) THEN active ELSE stopped)
  /\ UNCHANGED <<docs, index, request>>

\* The run is recorded; get_document, whose scope the vectors will carry, and the check of
\* start_indexing.
Start(j) ==
  /\ At(j, "queued")
  /\ LET d == job[j].doc IN
       job' = [job EXCEPT ![j] =
                [@ EXCEPT !.run = "running", !.scope = docs[d].scope,
                          !.step = IF Active(d) THEN "mark" ELSE "drop_chunks"]]
  /\ UNCHANGED <<docs, index, request>>

MarkIndexing(j) ==
  /\ At(j, "mark")
  /\ SetStatus(job[j].doc, "indexing") /\ Go(j, "load")
  /\ UNCHANGED <<index, request>>

LoadInput(j) == Check(j, "load", "parse", "succeed")

\* A job that is told to stop while it parses goes on with an empty text.
Parse(j) ==
  /\ At(j, "parse")
  /\ LET active == Active(job[j].doc) IN
       job' = [job EXCEPT ![j] =
                [@ EXCEPT !.text = active, !.step = IF active THEN "save" ELSE "resume"]]
  /\ UNCHANGED <<docs, index, request>>

FindParsed(j) ==
  /\ At(j, "save")
  /\ IF Exists(job[j].doc) THEN Go(j, "write") ELSE Fail(j)
  /\ UNCHANGED <<docs, index, request>>

\* set_parsed_content: "indexing", whatever the status was.
SaveParsed(j) ==
  /\ At(j, "write")
  /\ SetStatus(job[j].doc, "indexing") /\ Go(j, "resume")
  /\ UNCHANGED <<index, request>>

\* No chunks come out of an empty text, and that is an error.
Chunk(j) ==
  \/ job[j].text /\ Check(j, "resume", "chunked", "succeed")
  \/ ~job[j].text /\ Check(j, "resume", "drop_chunks", "succeed")

Chunked(j) == Check(j, "chunked", "lines", "succeed")

\* The primary key of document_lines, the unique index of kb_chunks: a document has one set
\* of rows, and a second one is refused.
InsertLines(j) ==
  /\ At(j, "lines")
  /\ LET d == job[j].doc IN
       IF Rows(lines, d) = {}
         THEN /\ lines' = lines \cup {[doc |-> d, job |-> j, whole |-> TRUE]}
              /\ Go(j, "lined")
         ELSE Fail(j) /\ UNCHANGED lines
  /\ UNCHANGED <<docs, chunks, vectors, request>>

Lined(j) == Check(j, "lined", "embed", "succeed")

\* The document is looked at before every batch: the chunks of the batches before have theirs.
Embed(j) ==
  /\ At(j, "embed")
  /\ \E got \in IF Active(job[j].doc) THEN {"all"} ELSE {"none", "part"} :
       job' = [job EXCEPT ![j] = [@ EXCEPT !.got = got, !.step = "embedded"]]
  /\ UNCHANGED <<docs, index, request>>

Embedded(j) == Check(j, "embedded", "persist", "succeed")

Persist(j) == Check(j, "persist", "insert", "persisted")

InsertChunks(j) ==
  /\ At(j, "insert")
  /\ LET d == job[j].doc IN
       IF job[j].got = "none" THEN Go(j, "inserted") /\ UNCHANGED chunks
       ELSE IF Rows(chunks, d) = {}
         THEN /\ chunks' = chunks \cup {[doc |-> d, job |-> j, whole |-> job[j].got = "all"]}
              /\ Go(j, "inserted")
         ELSE Fail(j) /\ UNCHANGED chunks
  /\ UNCHANGED <<docs, lines, vectors, request>>

Inserted(j) == Check(j, "inserted", "upsert", "persisted")

\* Points have fresh ids: those of another job stay beside them.
NewPoints(j) ==
  IF job[j].got = "none" THEN {}
  ELSE {[doc |-> job[j].doc, job |-> j, whole |-> job[j].got = "all", scope |-> job[j].scope]}

Upsert(j) ==
  /\ At(j, "upsert")
  /\ vectors' = vectors \cup NewPoints(j)
  /\ Go(j, "persisted")
  /\ UNCHANGED <<docs, chunks, lines, request>>

Persisted(j) == Check(j, "persisted", "ready", "succeed")

FindReady(j) ==
  /\ At(j, "ready")
  /\ IF Exists(job[j].doc) THEN Go(j, "publish") ELSE Fail(j)
  /\ UNCHANGED <<docs, index, request>>

MarkReady(j) ==
  /\ At(j, "publish")
  /\ SetStatus(job[j].doc, "ready") /\ Go(j, "succeed")
  /\ UNCHANGED <<index, request>>

\* A job that was told to stop succeeds too.
Succeed(j) ==
  /\ At(j, "succeed")
  /\ End(j, "succeeded", FALSE)
  /\ UNCHANGED <<docs, index, request>>

----------------------------------------------------------------------------
(* A job that failed: cleanup_partial_index, the run, mark_error *)

DropChunks(j) ==
  /\ At(j, "drop_chunks")
  /\ chunks' = chunks \ Rows(chunks, job[j].doc)
  /\ Go(j, "drop_lines")
  /\ UNCHANGED <<docs, lines, vectors, request>>

DropLines(j) ==
  /\ At(j, "drop_lines")
  /\ lines' = lines \ Rows(lines, job[j].doc)
  /\ Go(j, "drop_vectors")
  /\ UNCHANGED <<docs, chunks, vectors, request>>

\* Mutant of DropVectors: the cleanup of a failed job ends with its rows.
DropVectorsForgotten(j) ==
  /\ At(j, "drop_vectors")
  /\ Go(j, "fail")
  /\ UNCHANGED <<docs, index, request>>

DropVectors(j) ==
  /\ At(j, "drop_vectors")
  /\ vectors' = vectors \ Rows(vectors, job[j].doc)
  /\ Go(j, "fail")
  /\ UNCHANGED <<docs, chunks, lines, request>>

FailRun(j) ==
  /\ At(j, "fail")
  /\ job' = [job EXCEPT ![j] = [@ EXCEPT !.run = "failed", !.step = "find_failed"]]
  /\ UNCHANGED <<docs, index, request>>

\* Mutant of FindFailed: a job that failed before it marked the document leaves it pending.
FindFailedIndexing(j) ==
  /\ At(j, "find_failed")
  /\ IF Active(job[j].doc) /\ docs[job[j].doc].status = "indexing"
       THEN Go(j, "mark_failed") ELSE End(j, job[j].run, FALSE)
  /\ UNCHANGED <<docs, index, request>>

FindFailed(j) ==
  /\ At(j, "find_failed")
  /\ IF Active(job[j].doc) THEN Go(j, "mark_failed") ELSE End(j, job[j].run, FALSE)
  /\ UNCHANGED <<docs, index, request>>

MarkFailed(j) ==
  /\ At(j, "mark_failed")
  /\ SetStatus(job[j].doc, "error") /\ End(j, job[j].run, FALSE)
  /\ UNCHANGED <<index, request>>

----------------------------------------------------------------------------
(* What goes wrong in a job *)

\* The parser refuses the file or fails, the text has no chunks, no embeddings come back.
WorkFails(j) ==
  /\ "work" \in Faults /\ job[j].step \in {"load", "parse", "resume", "embed"}
  /\ Fail(j)
  /\ UNCHANGED <<docs, index, request>>

StatementFails(j) ==
  /\ "statement" \in Faults /\ job[j].step \in Stages \ {"upsert", "succeed"}
  /\ Fail(j)
  /\ UNCHANGED <<docs, index, request>>

\* An upsert that is reported as failed may have been applied.
UpsertFails(j) ==
  /\ "upsert" \in Faults /\ At(j, "upsert")
  /\ vectors' \in {vectors, vectors \cup NewPoints(j)}
  /\ Fail(j)
  /\ UNCHANGED <<docs, chunks, lines, request>>

\* WorkerRunTracker::start fails before there is anything that handles the outcome of the job;
\* succeed, when all is done; the error of fail is ignored.
TrackerFails(j) ==
  /\ "tracker" \in Faults
  /\ \/ At(j, "queued") /\ End(j, job[j].run, TRUE)
     \/ At(j, "succeed") /\ End(j, job[j].run, FALSE)
     \/ At(j, "fail") /\ Go(j, "find_failed")
  /\ UNCHANGED <<docs, index, request>>

\* The cleanup is done as far as it goes, and its errors are logged.
CleanupFails(j) ==
  /\ "cleanup" \in Faults
  /\ \/ job[j].step \in {"drop_chunks", "drop_lines"} /\ Go(j, "drop_vectors")
     \/ At(j, "drop_vectors") /\ Go(j, "fail")
  /\ UNCHANGED <<docs, index, request>>

\* An error of mark_error is logged too.
MarkingFails(j) ==
  /\ "marking" \in Faults
  /\ job[j].step \in {"find_failed", "mark_failed"}
  /\ End(j, job[j].run, TRUE)
  /\ UNCHANGED <<docs, index, request>>

JobDies(j) ==
  /\ "dies" \in Faults /\ Live(j) /\ ~At(j, "queued")
  /\ End(j, job[j].run, ~At(j, "succeed"))
  /\ UNCHANGED <<docs, index, request>>

----------------------------------------------------------------------------
(* Requests *)

Answer(r) == request' = [request EXCEPT ![r] = NoRequest]

Then(r, step) == request' = [request EXCEPT ![r].step = step]

Handle(r, step, d) == request' = [request EXCEPT ![r] = [NoRequest EXCEPT !.step = step, !.doc = d]]

\* Bound: a request is made when there are ids left for what it creates.
Reserving(steps) == {r \in Requests : request[r].step \in steps}

IdsLeft(ids, steps) == Cardinality(ids) > Cardinality(Reserving(steps))

FreeDocuments == {d \in Documents : docs[d].status = "none"}

FreeJobs == {j \in Jobs : At(j, "none")}

ToEnqueue ==
  {"insert", "set_text", "write_text", "enqueue", "reindex", "clear_chunks", "clear_lines",
   "reset", "write_reset"}

JobLeft == IdsLeft(FreeJobs, ToEnqueue)

\* A file that a document of the same place holds already is not indexed again: that document
\* is the answer.
Create(r) ==
  /\ request[r] = NoRequest /\ JobLeft /\ IdsLeft(FreeDocuments, {"insert"})
  /\ \E f \in Files \cup {Nil} :
       /\ f = Nil \/ \A d \in Documents : Exists(d) => docs[d].file # f
       /\ request' = [request EXCEPT ![r] = [NoRequest EXCEPT !.step = "insert", !.file = f]]
  /\ UNCHANGED <<docs, index, job>>

\* One transaction; a document has a file, a text, or both.
InsertDocument(r) ==
  /\ request[r].step = "insert"
  /\ \E d \in FreeDocuments, scope \in {"private", "tenant"}, step \in {"set_text", "enqueue"} :
       /\ request[r].file = Nil => step = "set_text"
       /\ docs' = [docs EXCEPT ![d] =
                     [NoDocument EXCEPT !.status = "pending", !.scope = scope,
                                        !.file = request[r].file]]
       /\ Handle(r, step, d)
  /\ UNCHANGED <<index, job>>

FindText(r) ==
  /\ request[r].step = "set_text"
  /\ IF Exists(request[r].doc) THEN Then(r, "write_text") ELSE Answer(r)
  /\ UNCHANGED <<docs, index, job>>

WriteText(r) ==
  /\ request[r].step = "write_text"
  /\ SetStatus(request[r].doc, "indexing") /\ Then(r, "enqueue")
  /\ UNCHANGED <<index, job>>

Enqueue(r) ==
  /\ request[r].step = "enqueue"
  /\ \E j \in FreeJobs :
       job' = [job EXCEPT ![j] = [NoJob EXCEPT !.step = "queued", !.doc = request[r].doc]]
  /\ Answer(r)
  /\ UNCHANGED <<docs, index>>

Troubled(d, trouble) == docs' = [docs EXCEPT ![d].trouble = @ \cup {trouble}]

\* A request that changes the document or its index comes while others do.
Overtakes(d) == IF Idle(d) THEN UNCHANGED docs ELSE Troubled(d, "overtaken")

Reindex(r, d) ==
  /\ request[r] = NoRequest /\ MayCome("reindex", d) /\ JobLeft
  /\ Handle(r, "reindex", d)
  /\ Overtakes(d)
  /\ UNCHANGED <<index, job>>

Delete(r, d) ==
  /\ request[r] = NoRequest /\ MayCome("delete", d)
  /\ Handle(r, "delete", d)
  /\ UNCHANGED <<docs, index, job>>

\* Mutant of DeleteVectors: a reindexing counts on the upsert to replace the points.
DeleteVectorsOnDelete(r) ==
  /\ \/ request[r].step = "reindex" /\ Then(r, "clear_chunks") /\ UNCHANGED vectors
     \/ /\ request[r].step = "delete" /\ Then(r, "delete_rows")
        /\ vectors' = vectors \ Rows(vectors, request[r].doc)
  /\ UNCHANGED <<docs, chunks, lines, job>>

\* delete_by_document comes first in both.
DeleteVectors(r) ==
  /\ vectors' = vectors \ Rows(vectors, request[r].doc)
  /\ \/ request[r].step = "reindex" /\ Then(r, "clear_chunks")
     \/ request[r].step = "delete" /\ Then(r, "delete_rows")
  /\ UNCHANGED <<docs, chunks, lines, job>>

ClearChunks(r) ==
  /\ request[r].step = "clear_chunks"
  /\ chunks' = chunks \ Rows(chunks, request[r].doc)
  /\ Then(r, "clear_lines")
  /\ UNCHANGED <<docs, lines, vectors, job>>

ClearLines(r) ==
  /\ request[r].step = "clear_lines"
  /\ lines' = lines \ Rows(lines, request[r].doc)
  /\ Then(r, "reset")
  /\ UNCHANGED <<docs, chunks, vectors, job>>

FindReset(r) ==
  /\ request[r].step = "reset"
  /\ IF Exists(request[r].doc) THEN Then(r, "write_reset") ELSE Answer(r)
  /\ UNCHANGED <<docs, index, job>>

\* Mutant of WriteReset: the document is marked as if a worker had begun.
WriteResetIndexing(r) ==
  /\ request[r].step = "write_reset"
  /\ SetStatus(request[r].doc, "indexing") /\ Then(r, "enqueue")
  /\ UNCHANGED <<index, job>>

\* Nothing is left of what was there before.
WriteReset(r) ==
  /\ request[r].step = "write_reset"
  /\ docs' = [docs EXCEPT ![request[r].doc].status = "pending",
                          ![request[r].doc].trouble = @ \ {"halfway"}]
  /\ Then(r, "enqueue")
  /\ UNCHANGED <<index, job>>

\* The rows and the document, in one transaction.  The file reference is not detached.
DeleteRows(r) ==
  /\ request[r].step = "delete_rows"
  /\ LET d == request[r].doc IN
       IF Exists(d)
         THEN /\ chunks' = chunks \ Rows(chunks, d) /\ lines' = lines \ Rows(lines, d)
              /\ docs' = [docs EXCEPT ![d].status = "deleted", ![d].deleted = TRUE]
         ELSE UNCHANGED <<docs, chunks, lines>>
  /\ Answer(r)
  /\ UNCHANGED <<vectors, job>>

\* Mutant of Promote: the vectors are promoted before the row.
PromoteVectorsFirst(r, d) ==
  /\ request[r] = NoRequest /\ MayCome("promote", d) /\ docs[d].scope = "private"
  /\ Handle(r, "promote_vectors", d)
  /\ Overtakes(d)
  /\ UNCHANGED <<index, job>>

Promote(r, d) ==
  /\ request[r] = NoRequest /\ MayCome("promote", d) /\ docs[d].scope = "private"
  /\ Handle(r, "write_scope", d)
  /\ Overtakes(d)
  /\ UNCHANGED <<index, job>>

WriteScope(r) ==
  /\ request[r].step = "write_scope"
  /\ docs' = [docs EXCEPT ![request[r].doc].scope = "tenant"]
  /\ Then(r, "promote_vectors")
  /\ UNCHANGED <<index, job>>

PromoteVectors(r) ==
  /\ request[r].step = "promote_vectors"
  /\ vectors' = {IF v.doc = request[r].doc THEN [v EXCEPT !.scope = "tenant"] ELSE v : v \in vectors}
  /\ Answer(r)
  /\ UNCHANGED <<docs, chunks, lines, job>>

\* The document is in the database and its job is not in the queue yet.
Unqueued == {"set_text", "write_text", "enqueue"}

\* A statement, Qdrant or the queue refuses, or the handler's future is dropped.
RequestFails(r) ==
  /\ request[r] # NoRequest
  /\ LET d == request[r].doc
         step == request[r].step
     IN  \/ /\ step \in Unqueued /\ "unqueued" \in Faults /\ Troubled(d, "unqueued")
         \/ /\ step \notin Unqueued /\ "request" \in Faults
            /\ IF step \in Withdrawing \cup {"promote_vectors"} THEN Troubled(d, "halfway")
               ELSE UNCHANGED docs
  /\ Answer(r)
  /\ UNCHANGED <<index, job>>

----------------------------------------------------------------------------
(* The specification *)

JobStep(j) ==
  \/ Start(j) \/ MarkIndexing(j) \/ LoadInput(j) \/ Parse(j) \/ FindParsed(j) \/ SaveParsed(j)
  \/ Chunk(j) \/ Chunked(j) \/ InsertLines(j) \/ Lined(j) \/ Embed(j) \/ Embedded(j)
  \/ Persist(j) \/ InsertChunks(j) \/ Inserted(j) \/ Upsert(j) \/ Persisted(j)
  \/ FindReady(j) \/ MarkReady(j) \/ Succeed(j)
  \/ DropChunks(j) \/ DropLines(j) \/ DropVectors(j) \/ FailRun(j) \/ FindFailed(j)
  \/ MarkFailed(j)

JobFault(j) ==
  \/ WorkFails(j) \/ StatementFails(j) \/ UpsertFails(j) \/ TrackerFails(j) \/ CleanupFails(j)
  \/ MarkingFails(j) \/ JobDies(j)

RequestStep(r) ==
  \/ InsertDocument(r) \/ FindText(r) \/ WriteText(r) \/ Enqueue(r)
  \/ DeleteVectors(r) \/ ClearChunks(r) \/ ClearLines(r) \/ FindReset(r) \/ WriteReset(r)
  \/ DeleteRows(r) \/ WriteScope(r) \/ PromoteVectors(r)

RequestComes(r) ==
  \/ Create(r)
  \/ \E d \in Documents : Reindex(r, d) \/ Delete(r, d) \/ Promote(r, d)

Next ==
  \/ \E j \in Jobs : JobStep(j) \/ JobFault(j)
  \/ \E r \in Requests : RequestStep(r) \/ RequestComes(r) \/ RequestFails(r)

Spec == Init /\ [][Next]_vars

\* Workers go on with the jobs they have and the server with its requests; nothing obliges a
\* client to send one.
Fairness ==
  /\ \A j \in Jobs : WF_vars(JobStep(j))
  /\ \A r \in Requests : WF_vars(RequestStep(r))

FairSpec == Spec /\ Fairness

----------------------------------------------------------------------------
(* Properties *)

TypeOK ==
  /\ docs \in [Documents -> DocumentRows]
  /\ chunks \in SUBSET IndexRows /\ lines \in SUBSET IndexRows /\ vectors \in SUBSET Points
  /\ job \in [Jobs -> JobLocals]
  /\ request \in [Requests -> RequestLocals]

Ready(d) == Exists(d) /\ docs[d].status = "ready"

\* What search_knowledge_base may show of a document: the points that have a chunk row,
\* when the document is ready.
Shown(d) == {v \in Rows(vectors, d) : Ready(d) /\ \E c \in chunks : c.doc = d /\ c.job = v.job}

Built(d, j) ==
  /\ Rows(chunks, d) = {[doc |-> d, job |-> j, whole |-> TRUE]}
  /\ Rows(lines, d) = {[doc |-> d, job |-> j, whole |-> TRUE]}
  /\ \E scope \in {"private", "tenant"} :
       Rows(vectors, d) = {[doc |-> d, job |-> j, whole |-> TRUE, scope |-> scope]}

\* A document that is ready has its whole index: chunks, lines and vectors of one job, and
\* vectors that carry its scope; unless a request that takes the index away, or a
\* promotion, is between two of its steps, stopped there, or came while the document was being
\* worked on.  Three stores, no transaction: the order of the stages, of the cleanup and of a
\* reindexing carries it.
ReadyIsIndexed ==
  \A d \in Documents :
    /\ Ready(d) /\ docs[d].trouble \subseteq {"unqueued"}
    /\ \A r \in Requests :
         request[r].doc = d => request[r].step \notin Withdrawing \cup {"promote_vectors"}
    => \E j \in Jobs : Built(d, j) /\ \A v \in Rows(vectors, d) : v.scope = docs[d].scope

\* The vectors of a private document never say "tenant": promotion writes the row before the
\* vectors, and a job copies the scope it read.
NoEarlyPublish == \A v \in vectors : v.scope = "tenant" => docs[v.doc].scope = "tenant"

\* A job whose run failed leaves nothing of its own in any of the three stores, whatever
\* other jobs and requests do to the document meanwhile (cleanup_partial_index).
FailedRunsLeaveNothing ==
  \A j \in Jobs : At(j, "ended") /\ job[j].run = "failed" =>
    \A x \in chunks \cup lines \cup vectors : x.job # j

\* A document is not left running (the comment of mark_error), even when jobs and requests
\* overlap: a job brings it to a moment at which it is ready, in error or deleted, and so does its
\* whole history.  Three kinds of job do not, against that comment: one whose run could not be
\* recorded, so that nothing handles its outcome, one that mark_error failed, one that died; nor
\* does a document whose request stopped before it had a job.
IndexingSettles ==
  /\ \A j \in Jobs, d \in Documents :
       At(j, "queued") /\ job[j].doc = d ~> ~Active(d) \/ job[j].lost
  /\ \A d \in Documents :
       Active(d) ~> \/ ~Active(d) \/ "unqueued" \in docs[d].trouble
                    \/ \E j \in Jobs : job[j].doc = d /\ job[j].lost

\* What a reader sees of the documents is DocumentIndex.  An index that is shown and not
\* whole is none of its values.
ShownIndex(d) ==
  IF Shown(d) = {} THEN Nil
  ELSE IF \E j \in Jobs : Built(d, j) THEN (CHOOSE v \in Shown(d) : TRUE).job ELSE "torn"

Overtaken(d) == "overtaken" \in docs[d].trouble

Reader ==
  INSTANCE DocumentIndex WITH
    status <- [d \in Documents |-> IF Overtaken(d) THEN "overtaken"
                                   ELSE IF docs[d].deleted THEN "deleted" ELSE docs[d].status],
    visible <- [d \in Documents |-> IF Overtaken(d) THEN Nil ELSE ShownIndex(d)]

ImplementsDocumentIndex == Reader!Spec
================================================================================
