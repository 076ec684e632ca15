------------------------- MODULE KnowledgeBaseProofs -------------------------
(***************************************************************************)
(* Proofs about KnowledgeBase, for any number of documents, jobs and       *)
(* requests.  Whatever overlaps: states are typed, no vector says it is    *)
(* the tenant's before its document does, a failed run leaves nothing, a   *)
(* ready document has its whole index, and what readers see is a           *)
(* DocumentIndex; the last two but for documents overtaken at work.        *)
(***************************************************************************)
EXTENDS KnowledgeBase, TLAPS

----------------------------------------------------------------------------
(* The inductive invariant *)

JobsNamed == \A j \in Jobs : job[j].step # "none" => job[j].doc \in Documents

RequestsNamed ==
  \A r \in Requests : request[r].step \notin {"idle", "insert"} => request[r].doc \in Documents

\* The id of a document that is inserted is in nobody's hands.
KnownExist ==
  \A d \in Documents : docs[d].status = "none" =>
    /\ \A j \in Jobs : job[j].doc # d
    /\ \A r \in Requests : request[r].doc # d

\* What is in a table was put there by a job that began, for the document it has.
Owned(x) == job[x.job].doc = x.doc /\ job[x.job].step \notin {"none", "queued"}

OwnRows ==
  /\ \A x \in chunks : Owned(x)
  /\ \A x \in lines : Owned(x)
  /\ \A x \in vectors : Owned(x)

ScopesCopied ==
  \A j \in Jobs, d \in Documents :
    job[j].doc = d /\ job[j].scope = "tenant" => docs[d].scope = "tenant"

PromotionsWritten ==
  \A r \in Requests, d \in Documents :
    request[r].step = "promote_vectors" /\ request[r].doc = d => docs[d].scope = "tenant"

FailedWhen ==
  \A j \in Jobs : job[j].run = "failed" => job[j].step \in {"find_failed", "mark_failed", "ended"}

\* The cleanup of a failed job takes the three stores in turn.
NoChunks(j) == \A x \in chunks : x.job # j

NoLines(j) == \A x \in lines : x.job # j

NoVectors(j) == \A x \in vectors : x.job # j

Cleaned(j) ==
  /\ job[j].step \in {"drop_lines", "drop_vectors", "fail"} \/ job[j].run = "failed" => NoChunks(j)
  /\ job[j].step \in {"drop_vectors", "fail"} \/ job[j].run = "failed" => NoLines(j)
  /\ job[j].step = "fail" \/ job[j].run = "failed" => NoVectors(j)

CleanedUp == "cleanup" \notin Faults => \A j \in Jobs : Cleaned(j)

Known == JobsNamed /\ RequestsNamed /\ KnownExist /\ OwnRows

Scopes == ScopesCopied /\ PromotionsWritten /\ NoEarlyPublish

Inv == TypeOK /\ Known /\ Scopes /\ FailedWhen /\ CleanedUp

----------------------------------------------------------------------------
(* Types of locals and rows *)

JobSteps == {"none", "queued", "ended"} \cup Stages \cup FailureSteps

RequestSteps ==
  {"idle", "insert", "set_text", "write_text", "enqueue", "reindex", "delete", "promote",
   "write_scope", "promote_vectors"} \cup Withdrawing

LEMMA NilIsNothing == Nil \notin Documents /\ Nil \notin Files /\ Nil \notin Jobs
BY KnowledgeBaseConstants

LEMMA JobTypes ==
  ASSUME TypeOK, NEW j \in Jobs
  PROVE  job[j] \in JobLocals /\ job[j].doc \in Documents \cup {Nil}
BY DEF TypeOK, JobLocals

LEMMA RequestTypes ==
  ASSUME TypeOK, NEW r \in Requests
  PROVE  /\ request[r] \in RequestLocals
         /\ request[r].doc \in Documents \cup {Nil} /\ request[r].file \in Files \cup {Nil}
BY DEF TypeOK, RequestLocals

LEMMA DocTypes ==
  ASSUME TypeOK, NEW d \in Documents
  PROVE  docs[d] \in DocumentRows /\ docs[d].scope \in {"private", "tenant"}
BY DEF TypeOK, DocumentRows

\* The locals of a job whose step changes, and of one that ends.
LEMMA StepLocals ==
  ASSUME NEW locals \in JobLocals, NEW step \in JobSteps
  PROVE  LET new == [locals EXCEPT !.step = step] IN
         /\ new \in JobLocals
         /\ new.step = step /\ new.doc = locals.doc
         /\ new.scope = locals.scope /\ new.run = locals.run
BY DEF JobLocals, JobSteps

LEMMA RequestStepLocals ==
  ASSUME NEW locals \in RequestLocals, NEW step \in RequestSteps
  PROVE  LET new == [locals EXCEPT !.step = step] IN
         /\ new \in RequestLocals
         /\ new.step = step /\ new.doc = locals.doc
BY DEF RequestLocals, RequestSteps

LEMMA HandleLocals ==
  ASSUME NEW doc \in Documents, NEW step \in RequestSteps
  PROVE  LET new == [NoRequest EXCEPT !.step = step, !.doc = doc] IN
         /\ new \in RequestLocals
         /\ new.step = step /\ new.doc = doc
BY DEF RequestLocals, RequestSteps, NoRequest

LEMMA NothingLocals ==
  /\ NoRequest \in RequestLocals /\ NoRequest.step = "idle" /\ NoRequest.doc = Nil
  /\ NoJob \in JobLocals /\ NoJob.scope = "private"
BY DEF RequestLocals, NoRequest, JobLocals, NoJob

----------------------------------------------------------------------------
(* What a step may do to the rows of documents *)

\* A document that was inserted stays inserted, and one that is the tenant's stays so.
DocsKeep ==
  /\ docs' \in [Documents -> DocumentRows]
  /\ \A d \in Documents : docs[d].status # "none" =>
       docs'[d].status # "none" /\ (docs[d].scope = "tenant" => docs'[d].scope = "tenant")

LEMMA SameDocsKeep == ASSUME TypeOK, UNCHANGED docs PROVE DocsKeep
BY DEF DocsKeep, TypeOK

LEMMA SetStatusKeeps ==
  ASSUME TypeOK, NEW d \in Documents, NEW status \in {"ready", "error"} \cup Working,
         SetStatus(d, status)
  PROVE  DocsKeep
<1> DEFINE row == [docs[d] EXCEPT !.status = status]
<1>1. row \in DocumentRows /\ row.scope = docs[d].scope /\ row.status = status
  BY DocTypes DEF DocumentRows
<1>2. docs' = [docs EXCEPT ![d] = row]
  BY DEF SetStatus
<1>3. status # "none"
  BY DEF Working
<1> HIDE DEF row
<1> QED
  BY <1>1, <1>2, <1>3 DEF DocsKeep, TypeOK

LEMMA TroubledKeeps ==
  ASSUME TypeOK, NEW d \in Documents, NEW trouble \in Troubles, Troubled(d, trouble)
  PROVE  DocsKeep
<1> DEFINE row == [docs[d] EXCEPT !.trouble = @ \cup {trouble}]
<1>1. row \in DocumentRows /\ row.scope = docs[d].scope /\ row.status = docs[d].status
  BY DocTypes DEF DocumentRows
<1>2. docs' = [docs EXCEPT ![d] = row]
  BY DEF Troubled
<1> HIDE DEF row
<1> QED
  BY <1>1, <1>2 DEF DocsKeep, TypeOK

LEMMA OvertakesKeeps ==
  ASSUME TypeOK, NEW d \in Documents, Overtakes(d)
  PROVE  DocsKeep
BY SameDocsKeep, TroubledKeeps DEF Overtakes, Troubles

LEMMA ResetKeeps ==
  ASSUME TypeOK, NEW d \in Documents,
         docs' = [docs EXCEPT ![d].status = "pending", ![d].trouble = @ \ {"halfway"}]
  PROVE  DocsKeep
<1>1. PICK pending \in DocumentRows : pending = [docs[d] EXCEPT !.status = "pending"]
  BY DocTypes DEF DocumentRows, Working
<1>2. PICK row \in DocumentRows : row = [pending EXCEPT !.trouble = @ \ {"halfway"}]
  BY DEF DocumentRows
<1>3. row.status = "pending" /\ row.scope = docs[d].scope
  BY <1>1, <1>2, DocTypes DEF DocumentRows
<1>4. docs' = [docs EXCEPT ![d] = row]
  BY <1>1, <1>2 DEF TypeOK
<1> QED
  BY <1>3, <1>4 DEF DocsKeep, TypeOK

----------------------------------------------------------------------------
(* The steps of a job *)

\* Job j goes on with other locals.
Moves(j, locals) ==
  /\ job' = [job EXCEPT ![j] = locals]
  /\ locals \in JobLocals
  /\ locals.doc = job[j].doc /\ job[j].step # "none" /\ locals.step \notin {"none", "queued"}
  /\ locals.scope = "tenant" => docs[locals.doc].scope = "tenant"
  /\ request' = request

\* It takes rows of its document away, or adds some.
Indexes(j) ==
  /\ chunks' \in SUBSET IndexRows /\ lines' \in SUBSET IndexRows /\ vectors' \in SUBSET Points
  /\ \A x \in chunks' : x \in chunks \/ (x.job = j /\ x.doc = job[j].doc)
  /\ \A x \in lines' : x \in lines \/ (x.job = j /\ x.doc = job[j].doc)
  /\ \A x \in vectors' :
       x \in vectors \/ (x.job = j /\ x.doc = job[j].doc /\ x.scope = job[j].scope)

LEMMA SameIndexes == ASSUME TypeOK, NEW j, UNCHANGED index PROVE Indexes(j)
BY DEF Indexes, TypeOK, index

LEMMA JobGoes ==
  ASSUME Inv, NEW j \in Jobs, job[j].step # "none", NEW step \in Stages \cup FailureSteps,
         Go(j, step), UNCHANGED request
  PROVE  \E locals \in JobLocals :
           Moves(j, locals) /\ locals.step = step /\ locals.run = job[j].run
<1>1. PICK locals \in JobLocals : locals = [job[j] EXCEPT !.step = step]
  BY JobTypes, StepLocals DEF Inv, JobSteps
<1>2. /\ locals.step = step /\ locals.doc = job[j].doc /\ locals.scope = job[j].scope
      /\ locals.run = job[j].run
  BY <1>1, JobTypes, StepLocals DEF Inv, JobSteps
<1>3. job' = [job EXCEPT ![j] = locals]
  BY <1>1 DEF Go
<1>4. locals.scope = "tenant" => docs[locals.doc].scope = "tenant"
  BY <1>2 DEF Inv, Known, JobsNamed, Scopes, ScopesCopied
<1>5. step \notin {"none", "queued"}
  BY DEF Stages, FailureSteps
<1> QED
  BY <1>2, <1>3, <1>4, <1>5 DEF Moves

LEMMA JobEnds ==
  ASSUME Inv, NEW j \in Jobs, job[j].step # "none",
         NEW run, run = "succeeded" \/ run = job[j].run, NEW lost \in BOOLEAN, End(j, run, lost),
         UNCHANGED request
  PROVE  \E locals \in JobLocals :
           Moves(j, locals) /\ locals.step = "ended" /\ locals.run = run
<1>0. run \in {"none", "running", "succeeded", "failed"} /\ job[j].doc \in Documents \cup {Nil}
  BY JobTypes DEF Inv, JobLocals
<1>1. PICK locals \in JobLocals :
        locals = [NoJob EXCEPT !.step = "ended", !.doc = job[j].doc, !.run = run, !.lost = lost]
  BY <1>0 DEF JobLocals, NoJob
<1>2. /\ locals.step = "ended" /\ locals.doc = job[j].doc /\ locals.scope = "private"
      /\ locals.run = run
  BY <1>1 DEF NoJob
<1>3. job' = [job EXCEPT ![j] = locals]
  BY <1>1 DEF End
<1> QED
  BY <1>2, <1>3 DEF Moves

\* Names, types and scopes, whatever the job does.
LEMMA JobKeeps ==
  ASSUME Inv, NEW j \in Jobs, NEW locals, Moves(j, locals), Indexes(j), DocsKeep
  PROVE  TypeOK' /\ Known' /\ Scopes'
<1> USE DEF Inv
<1>0. job[j].doc \in Documents
  BY DEF Moves, Known, JobsNamed
<1>1. TypeOK'
  BY DEF TypeOK, Moves, Indexes, DocsKeep
<1>2. /\ job'[j] = locals /\ job'[j].doc = job[j].doc /\ job'[j].step \notin {"none", "queued"}
      /\ \A i \in Jobs : i # j => job'[i] = job[i]
      /\ \A i \in Jobs : job'[i].doc = job[i].doc
  BY DEF TypeOK, Moves
<1>3. JobsNamed' /\ RequestsNamed'
  BY <1>0, <1>2 DEF Known, JobsNamed, RequestsNamed, Moves
<1>4. KnownExist'
  BY <1>2 DEF Known, KnownExist, DocsKeep, Moves
<1>5. OwnRows'
  <2>1. \A x : x.job \in Jobs /\ Owned(x) => Owned(x)'
    BY <1>2 DEF Owned
  <2>2. \A x : x.job = j /\ x.doc = job[j].doc => Owned(x)'
    BY <1>2 DEF Owned
  <2>3. \A x \in IndexRows \cup Points : x.job \in Jobs
    BY DEF IndexRows, Points
  <2>4. \A x \in chunks' : Owned(x)'
    BY <2>1, <2>2, <2>3 DEF Indexes, Known, OwnRows, TypeOK
  <2>5. \A x \in lines' : Owned(x)'
    BY <2>1, <2>2, <2>3 DEF Indexes, Known, OwnRows, TypeOK
  <2>6. \A x \in vectors' : Owned(x)'
    BY <2>1, <2>2, <2>3 DEF Indexes, Known, OwnRows, TypeOK
  <2> QED
    BY <2>4, <2>5, <2>6 DEF OwnRows
<1>6. \A d \in Documents :
        /\ \A i \in Jobs : job[i].doc = d => docs[d].status # "none"
        /\ \A r \in Requests : request[r].doc = d => docs[d].status # "none"
  BY DEF Known, KnownExist
<1>7. ScopesCopied'
  <2> SUFFICES ASSUME NEW i \in Jobs, job[i].doc \in Documents, job'[i].scope = "tenant"
               PROVE  docs'[job[i].doc].scope = "tenant"
    BY <1>2 DEF ScopesCopied
  <2>1. docs[job[i].doc].scope = "tenant"
    BY <1>2 DEF Moves, Scopes, ScopesCopied
  <2> QED
    BY <1>6, <2>1 DEF DocsKeep
<1>8. PromotionsWritten'
  BY <1>6 DEF Scopes, PromotionsWritten, DocsKeep, Moves
<1>9. NoEarlyPublish'
  <2> SUFFICES ASSUME NEW v \in vectors', v.scope = "tenant"
               PROVE  docs'[v.doc].scope = "tenant"
    BY DEF NoEarlyPublish
  <2>1. v.doc \in Documents /\ v.job \in Jobs
    BY DEF Indexes, Points
  <2>2. job[v.job].doc = v.doc
    BY DEF Indexes, Known, OwnRows, Owned
  <2>3. docs[v.doc].scope = "tenant"
    BY <2>1, <2>2 DEF Indexes, Scopes, NoEarlyPublish, ScopesCopied
  <2> QED
    BY <1>6, <2>1, <2>2, <2>3 DEF DocsKeep
<1> QED
  BY <1>1, <1>3, <1>4, <1>5, <1>7, <1>8, <1>9 DEF Known, Scopes

\* The cleanup of the others is not disturbed.
LEMMA OthersStayClean ==
  ASSUME Inv, NEW j \in Jobs, NEW locals, Moves(j, locals), Indexes(j),
         NEW i \in Jobs, i # j, Cleaned(i)
  PROVE  Cleaned(i)'
<1>1. job'[i] = job[i]
  BY DEF Inv, TypeOK, Moves
<1>2. NoChunks(i) => NoChunks(i)'
  BY DEF NoChunks, Indexes
<1>3. NoLines(i) => NoLines(i)'
  BY DEF NoLines, Indexes
<1>4. NoVectors(i) => NoVectors(i)'
  BY DEF NoVectors, Indexes
<1> QED
  BY <1>1, <1>2, <1>3, <1>4 DEF Cleaned

\* A job that does not fail, or has not begun to clean up.
LEMMA JobWorks ==
  ASSUME Inv, NEW j \in Jobs, NEW locals, Moves(j, locals), Indexes(j), DocsKeep,
         locals.run # "failed",
         locals.step \in Stages \cup {"drop_chunks"}
  PROVE  Inv'
<1>1. TypeOK' /\ Known' /\ Scopes'
  BY JobKeeps
<1>2. job'[j] = locals /\ \A i \in Jobs : i # j => job'[i] = job[i]
  BY DEF Inv, TypeOK, Moves
<1>3. FailedWhen'
  BY <1>2 DEF Inv, FailedWhen
<1>4. locals.step \notin {"drop_lines", "drop_vectors", "fail"}
  BY DEF Stages
<1>5. Cleaned(j)'
  BY <1>2, <1>4 DEF Cleaned
<1>6. CleanedUp'
  BY <1>5, OthersStayClean DEF Inv, CleanedUp
<1> QED
  BY <1>1, <1>3, <1>6 DEF Inv

LEMMA JobEndsStep ==
  ASSUME Inv, NEW j \in Jobs, job[j].step # "none",
         NEW run, run = "succeeded" \/ run = job[j].run, NEW lost \in BOOLEAN, End(j, run, lost),
         UNCHANGED <<index, request>>, DocsKeep
  PROVE  Inv'
<1>1. PICK locals \in JobLocals :
        Moves(j, locals) /\ locals.step = "ended" /\ locals.run = run
  BY JobEnds
<1>2. Indexes(j)
  BY SameIndexes DEF Inv
<1>3. TypeOK' /\ Known' /\ Scopes'
  BY <1>1, <1>2, JobKeeps
<1>4. job'[j] = locals /\ \A i \in Jobs : i # j => job'[i] = job[i]
  BY <1>1 DEF Inv, TypeOK, Moves
<1>5. FailedWhen'
  BY <1>1, <1>4 DEF Inv, FailedWhen
<1>6. Cleaned(j) => Cleaned(j)'
  BY <1>1, <1>4 DEF Cleaned, NoChunks, NoLines, NoVectors, index
<1>7. CleanedUp'
  BY <1>1, <1>2, <1>6, OthersStayClean DEF Inv, CleanedUp
<1> QED
  BY <1>3, <1>5, <1>7 DEF Inv

\* A step of the cleanup: its own locals say what is gone.
LEMMA JobCleans ==
  ASSUME Inv, NEW j \in Jobs, NEW locals, Moves(j, locals), Indexes(j), DocsKeep,
         locals.run = "failed" => locals.step \in {"find_failed", "mark_failed"},
         "cleanup" \notin Faults => Cleaned(j)'
  PROVE  Inv'
<1>1. TypeOK' /\ Known' /\ Scopes'
  BY JobKeeps
<1>2. job'[j] = locals /\ \A i \in Jobs : i # j => job'[i] = job[i]
  BY DEF Inv, TypeOK, Moves
<1>3. FailedWhen'
  BY <1>2 DEF Inv, FailedWhen
<1>4. CleanedUp'
  BY OthersStayClean DEF Inv, CleanedUp
<1> QED
  BY <1>1, <1>3, <1>4 DEF Inv

\* A job at work passes to another stage, or fails.
LEMMA WorkGoes ==
  ASSUME Inv, NEW j \in Jobs, job[j].step \in Stages, NEW step \in Stages \cup {"drop_chunks"},
         Go(j, step), UNCHANGED request, Indexes(j), DocsKeep
  PROVE  Inv'
<1>1. job[j].run # "failed" /\ job[j].step # "none"
  BY DEF Inv, FailedWhen, Stages
<1>2. step \in Stages \cup FailureSteps
  BY DEF FailureSteps
<1>3. PICK locals \in JobLocals :
        Moves(j, locals) /\ locals.step = step /\ locals.run = job[j].run
  BY <1>1, <1>2, JobGoes
<1> QED
  BY <1>1, <1>3, JobWorks

\* A job whose other locals change.
LEMMA WorkMoves ==
  ASSUME Inv, NEW j \in Jobs, job[j].step \in Stages, NEW locals \in JobLocals,
         job' = [job EXCEPT ![j] = locals], locals.doc = job[j].doc,
         locals.scope = job[j].scope, locals.run = job[j].run,
         locals.step \in Stages \cup {"drop_chunks"}, UNCHANGED <<docs, index, request>>
  PROVE  Inv'
<1>1. job[j].run # "failed" /\ job[j].step # "none"
  BY DEF Inv, FailedWhen, Stages
<1>2. locals.step \notin {"none", "queued"}
  BY DEF Stages
<1>3. locals.scope = "tenant" => docs[locals.doc].scope = "tenant"
  BY <1>1 DEF Inv, Known, JobsNamed, Scopes, ScopesCopied
<1>4. Moves(j, locals)
  BY <1>1, <1>2, <1>3 DEF Moves
<1>5. Indexes(j) /\ DocsKeep
  BY SameIndexes, SameDocsKeep DEF Inv
<1> QED
  BY <1>1, <1>4, <1>5, JobWorks

LEMMA CheckStep ==
  ASSUME Inv, NEW j \in Jobs, NEW from \in Stages, NEW active \in Stages \cup {"drop_chunks"},
         NEW stopped \in Stages \cup {"drop_chunks"}, Check(j, from, active, stopped)
  PROVE  Inv'
<1>1. Indexes(j) /\ DocsKeep
  BY SameIndexes, SameDocsKeep DEF Inv, Check
<1>2. PICK step \in Stages \cup {"drop_chunks"} : Go(j, step)
  BY DEF Check
<1> QED
  BY <1>1, <1>2, WorkGoes DEF Check, At

LEMMA StartStep ==
  ASSUME Inv, NEW j \in Jobs, Start(j)
  PROVE  Inv'
<1>0. job[j] \in JobLocals /\ job[j].step = "queued" /\ job[j].doc \in Documents
  BY JobTypes DEF Inv, Known, JobsNamed, Start, At
<1>1. PICK step \in {"mark", "drop_chunks"} :
        job' = [job EXCEPT ![j] =
                 [@ EXCEPT !.run = "running", !.scope = docs[job[j].doc].scope, !.step = step]]
  BY DEF Start
<1>2. docs[job[j].doc].scope \in {"private", "tenant"}
  BY <1>0, DocTypes DEF Inv
<1>3. step \in Stages \cup FailureSteps
  BY DEF Stages, FailureSteps
<1>4. PICK locals \in JobLocals :
        locals = [job[j] EXCEPT !.run = "running", !.scope = docs[job[j].doc].scope, !.step = step]
  BY <1>0, <1>2, <1>3 DEF JobLocals
<1>5. /\ locals.doc = job[j].doc /\ locals.scope = docs[job[j].doc].scope
      /\ locals.run = "running" /\ locals.step = step
  BY <1>0, <1>4 DEF JobLocals
<1>6. job' = [job EXCEPT ![j] = locals]
  BY <1>1, <1>4
<1>7. Moves(j, locals)
  BY <1>0, <1>5, <1>6 DEF Moves, Start
<1>8. Indexes(j) /\ DocsKeep
  BY SameIndexes, SameDocsKeep DEF Inv, Start
<1>9. step \in Stages \cup {"drop_chunks"}
  BY DEF Stages
<1> QED
  BY <1>5, <1>7, <1>8, <1>9, JobWorks

\* Stages that write a status.
LEMMA WriteStep ==
  ASSUME Inv, NEW j \in Jobs, job[j].step \in Stages, NEW step \in Stages,
         NEW status \in {"ready", "error"} \cup Working, SetStatus(job[j].doc, status),
         Go(j, step), UNCHANGED <<index, request>>
  PROVE  Inv'
<1>1. job[j].doc \in Documents
  BY DEF Inv, Known, JobsNamed, Stages
<1>2. DocsKeep
  BY <1>1, SetStatusKeeps DEF Inv
<1>3. Indexes(j)
  BY SameIndexes DEF Inv
<1> QED
  BY <1>2, <1>3, WorkGoes

LEMMA ParseStep ==
  ASSUME Inv, NEW j \in Jobs, Parse(j)
  PROVE  Inv'
<1>0. job[j] \in JobLocals /\ job[j].step \in Stages
  BY JobTypes DEF Inv, Parse, At, Stages
<1>1. PICK text \in BOOLEAN, step \in {"save", "resume"} :
        job' = [job EXCEPT ![j] = [@ EXCEPT !.text = text, !.step = step]]
  <2>1. Active(job[j].doc) \in BOOLEAN
    BY DEF Active, Exists
  <2> QED
    BY <2>1 DEF Parse
<1>2. step \in Stages
  BY DEF Stages
<1>3. PICK locals \in JobLocals : locals = [job[j] EXCEPT !.text = text, !.step = step]
  BY <1>0, <1>2 DEF JobLocals
<1>4. /\ locals.doc = job[j].doc /\ locals.scope = job[j].scope
      /\ locals.run = job[j].run /\ locals.step = step
  BY <1>0, <1>3 DEF JobLocals
<1>5. job' = [job EXCEPT ![j] = locals]
  BY <1>1, <1>3
<1> QED
  BY <1>0, <1>2, <1>4, <1>5, WorkMoves DEF Parse

LEMMA EmbedStep ==
  ASSUME Inv, NEW j \in Jobs, Embed(j)
  PROVE  Inv'
<1>0. job[j] \in JobLocals /\ job[j].step \in Stages
  BY JobTypes DEF Inv, Embed, At, Stages
<1>1. PICK got \in {"none", "part", "all"} :
        job' = [job EXCEPT ![j] = [@ EXCEPT !.got = got, !.step = "embedded"]]
  BY DEF Embed
<1>2. "embedded" \in Stages
  BY DEF Stages
<1>3. PICK locals \in JobLocals : locals = [job[j] EXCEPT !.got = got, !.step = "embedded"]
  BY <1>0, <1>2 DEF JobLocals
<1>4. /\ locals.doc = job[j].doc /\ locals.scope = job[j].scope
      /\ locals.run = job[j].run /\ locals.step = "embedded"
  BY <1>0, <1>3 DEF JobLocals
<1>5. job' = [job EXCEPT ![j] = locals]
  BY <1>1, <1>3
<1> QED
  BY <1>0, <1>2, <1>4, <1>5, WorkMoves DEF Embed

LEMMA ChunkStep ==
  ASSUME Inv, NEW j \in Jobs, Chunk(j)
  PROVE  Inv'
<1>1. {"resume", "chunked", "succeed"} \subseteq Stages
  BY DEF Stages
<1> QED
  BY <1>1, CheckStep DEF Chunk

LEMMA InsertLinesStep ==
  ASSUME Inv, NEW j \in Jobs, InsertLines(j)
  PROVE  Inv'
<1> DEFINE row == [doc |-> job[j].doc, job |-> j, whole |-> TRUE]
<1>0. {"lines", "lined"} \subseteq Stages
  BY DEF Stages
<1>1. job[j].doc \in Documents
  BY DEF Inv, Known, JobsNamed, InsertLines, At
<1>2. row \in IndexRows /\ row.job = j /\ row.doc = job[j].doc
  BY <1>1 DEF IndexRows
<1>3. UNCHANGED <<docs, chunks, vectors, request>> /\ lines' \in {lines, lines \cup {row}}
  BY DEF InsertLines
<1> HIDE DEF row
<1>4. Indexes(j)
  BY <1>2, <1>3 DEF Indexes, Inv, TypeOK
<1>5. PICK step \in Stages \cup {"drop_chunks"} : Go(j, step)
  BY <1>0 DEF InsertLines, Fail
<1> QED
  BY <1>0, <1>3, <1>4, <1>5, SameDocsKeep, WorkGoes DEF Inv, InsertLines, At

LEMMA InsertChunksStep ==
  ASSUME Inv, NEW j \in Jobs, InsertChunks(j)
  PROVE  Inv'
<1> DEFINE row == [doc |-> job[j].doc, job |-> j, whole |-> job[j].got = "all"]
<1>0. {"insert", "inserted"} \subseteq Stages
  BY DEF Stages
<1>1. job[j].doc \in Documents
  BY DEF Inv, Known, JobsNamed, InsertChunks, At
<1>2. row \in IndexRows /\ row.job = j /\ row.doc = job[j].doc
  BY <1>1 DEF IndexRows
<1>3. UNCHANGED <<docs, lines, vectors, request>> /\ chunks' \in {chunks, chunks \cup {row}}
  BY DEF InsertChunks
<1> HIDE DEF row
<1>4. Indexes(j)
  BY <1>2, <1>3 DEF Indexes, Inv, TypeOK
<1>5. PICK step \in Stages \cup {"drop_chunks"} : Go(j, step)
  BY <1>0 DEF InsertChunks, Fail
<1> QED
  BY <1>0, <1>3, <1>4, <1>5, SameDocsKeep, WorkGoes DEF Inv, InsertChunks, At

\* An upsert, reported as failed or not, applied or not.
LEMMA PointsOfJob ==
  ASSUME Inv, NEW j \in Jobs, job[j].step # "none",
         vectors' \in {vectors, vectors \cup NewPoints(j)}, UNCHANGED <<chunks, lines>>
  PROVE  Indexes(j)
<1>1. job[j].doc \in Documents /\ job[j].scope \in {"private", "tenant"}
  BY JobTypes DEF Inv, Known, JobsNamed, JobLocals
<1>2. \A v \in NewPoints(j) :
        v \in Points /\ v.job = j /\ v.doc = job[j].doc /\ v.scope = job[j].scope
  <2> SUFFICES ASSUME NEW v \in NewPoints(j)
               PROVE  v \in Points /\ v.job = j /\ v.doc = job[j].doc /\ v.scope = job[j].scope
    OBVIOUS
  <2>1. PICK whole \in BOOLEAN :
          v = [doc |-> job[j].doc, job |-> j, whole |-> whole, scope |-> job[j].scope]
    BY DEF NewPoints
  <2> QED
    BY <1>1, <2>1 DEF Points
<1> QED
  BY <1>2 DEF Indexes, Inv, TypeOK

LEMMA UpsertStep ==
  ASSUME Inv, NEW j \in Jobs, Upsert(j) \/ UpsertFails(j)
  PROVE  Inv'
<1>0. {"upsert", "persisted"} \subseteq Stages
  BY DEF Stages
<1>1. job[j].step = "upsert" /\ UNCHANGED <<docs, chunks, lines, request>>
      /\ vectors' \in {vectors, vectors \cup NewPoints(j)}
  BY DEF Upsert, UpsertFails, At
<1>2. PICK step \in Stages \cup {"drop_chunks"} : Go(j, step)
  BY <1>0 DEF Upsert, UpsertFails, Fail
<1> QED
  BY <1>0, <1>1, <1>2, PointsOfJob, SameDocsKeep, WorkGoes DEF Inv

----------------------------------------------------------------------------
(* Actions of a job that failed *)

\* A job has put nothing but rows of its document into the stores.
LEMMA OwnRowsOfDocument ==
  ASSUME Inv, NEW j \in Jobs
  PROVE  /\ \A x \in chunks : x.job = j => x \in Rows(chunks, job[j].doc)
         /\ \A x \in lines : x.job = j => x \in Rows(lines, job[j].doc)
         /\ \A x \in vectors : x.job = j => x \in Rows(vectors, job[j].doc)
BY DEF Inv, Known, OwnRows, Owned, Rows

\* What a job that cleans up leaves when it goes to the next step of its cleanup.
LEMMA CleanupGoes ==
  ASSUME Inv, NEW j \in Jobs, job[j].step # "none", job[j].run # "failed",
         NEW step \in {"drop_lines", "drop_vectors", "fail"}, Go(j, step),
         chunks' \subseteq chunks, lines' \subseteq lines, vectors' \subseteq vectors,
         UNCHANGED <<docs, request>>,
         "cleanup" \notin Faults =>
           /\ NoChunks(j)'
           /\ step \in {"drop_vectors", "fail"} => NoLines(j)'
           /\ step = "fail" => NoVectors(j)'
  PROVE  Inv'
<1>0. step \in Stages \cup FailureSteps
  BY DEF FailureSteps
<1>1. PICK locals \in JobLocals :
        Moves(j, locals) /\ locals.step = step /\ locals.run = job[j].run
  BY <1>0, JobGoes
<1>2. Indexes(j) /\ DocsKeep
  BY SameDocsKeep DEF Inv, Indexes, TypeOK
<1>3. job'[j] = locals
  BY <1>1 DEF Inv, TypeOK, Moves
<1>4. "cleanup" \notin Faults => Cleaned(j)'
  BY <1>1, <1>3 DEF Cleaned
<1> QED
  BY <1>1, <1>2, <1>4, JobCleans

LEMMA DropChunksStep ==
  ASSUME Inv, NEW j \in Jobs, DropChunks(j)
  PROVE  Inv'
<1>1. job[j].step = "drop_chunks" /\ job[j].run # "failed"
  BY DEF DropChunks, At, Inv, FailedWhen
<1>2. NoChunks(j)'
  BY OwnRowsOfDocument DEF DropChunks, NoChunks
<1> QED
  BY <1>1, <1>2, CleanupGoes DEF DropChunks

LEMMA DropLinesStep ==
  ASSUME Inv, NEW j \in Jobs, DropLines(j)
  PROVE  Inv'
<1>1. job[j].step = "drop_lines" /\ job[j].run # "failed"
  BY DEF DropLines, At, Inv, FailedWhen
<1>2. NoLines(j)'
  BY OwnRowsOfDocument DEF DropLines, NoLines
<1>3. "cleanup" \notin Faults => NoChunks(j)'
  BY <1>1 DEF Inv, CleanedUp, Cleaned, NoChunks, DropLines
<1> QED
  BY <1>1, <1>2, <1>3, CleanupGoes DEF DropLines

LEMMA DropVectorsStep ==
  ASSUME Inv, NEW j \in Jobs, DropVectors(j)
  PROVE  Inv'
<1>1. job[j].step = "drop_vectors" /\ job[j].run # "failed"
  BY DEF DropVectors, At, Inv, FailedWhen
<1>2. NoVectors(j)'
  BY OwnRowsOfDocument DEF DropVectors, NoVectors
<1>3. "cleanup" \notin Faults => NoChunks(j)' /\ NoLines(j)'
  BY <1>1 DEF Inv, CleanedUp, Cleaned, NoChunks, NoLines, DropVectors
<1> QED
  BY <1>1, <1>2, <1>3, CleanupGoes DEF DropVectors

\* The run is failed when nothing is left.
LEMMA FailRunStep ==
  ASSUME Inv, NEW j \in Jobs, FailRun(j)
  PROVE  Inv'
<1>0. job[j] \in JobLocals /\ job[j].step = "fail"
  BY JobTypes DEF Inv, FailRun, At
<1>1. PICK locals \in JobLocals : locals = [job[j] EXCEPT !.run = "failed", !.step = "find_failed"]
  BY <1>0 DEF JobLocals, FailureSteps
<1>2. /\ locals.doc = job[j].doc /\ locals.scope = job[j].scope
      /\ locals.run = "failed" /\ locals.step = "find_failed"
  BY <1>0, <1>1 DEF JobLocals
<1>3. job' = [job EXCEPT ![j] = locals] /\ UNCHANGED <<docs, index, request>>
  BY <1>1 DEF FailRun
<1>4. locals.scope = "tenant" => docs[locals.doc].scope = "tenant"
  BY <1>0, <1>2 DEF Inv, Known, JobsNamed, Scopes, ScopesCopied
<1>5. Moves(j, locals)
  BY <1>0, <1>2, <1>3, <1>4 DEF Moves
<1>6. Indexes(j) /\ DocsKeep
  BY <1>3, SameIndexes, SameDocsKeep DEF Inv
<1>7. job'[j] = locals
  BY <1>3 DEF Inv, TypeOK
<1>8. "cleanup" \notin Faults => NoChunks(j) /\ NoLines(j) /\ NoVectors(j)
  BY <1>0 DEF Inv, CleanedUp, Cleaned
<1>9. "cleanup" \notin Faults => Cleaned(j)'
  BY <1>3, <1>8 DEF Cleaned, NoChunks, NoLines, NoVectors, index
<1> QED
  BY <1>2, <1>5, <1>6, <1>9, JobCleans

\* The document is looked at, and marked or not.
LEMMA FindFailedStep ==
  ASSUME Inv, NEW j \in Jobs, FindFailed(j)
  PROVE  Inv'
<1>0. job[j].step = "find_failed" /\ UNCHANGED <<docs, index, request>>
  BY DEF FindFailed, At
<1>1. Indexes(j) /\ DocsKeep
  BY <1>0, SameIndexes, SameDocsKeep DEF Inv
<1>2. CASE Go(j, "mark_failed")
  <2>1. "mark_failed" \in Stages \cup FailureSteps
    BY DEF FailureSteps
  <2>2. PICK locals \in JobLocals :
          Moves(j, locals) /\ locals.step = "mark_failed" /\ locals.run = job[j].run
    BY <1>0, <1>2, <2>1, JobGoes
  <2>3. job'[j] = locals
    BY <2>2 DEF Inv, TypeOK, Moves
  <2>4. "cleanup" \notin Faults => Cleaned(j)'
    BY <1>0, <2>2, <2>3 DEF Inv, CleanedUp, Cleaned, NoChunks, NoLines, NoVectors, index
  <2> QED
    BY <1>1, <2>2, <2>4, JobCleans
<1>3. CASE End(j, job[j].run, FALSE)
  BY <1>0, <1>1, <1>3, JobEndsStep
<1> QED
  BY <1>2, <1>3 DEF FindFailed

LEMMA MarkFailedStep ==
  ASSUME Inv, NEW j \in Jobs, MarkFailed(j)
  PROVE  Inv'
<1>1. job[j].step = "mark_failed" /\ job[j].doc \in Documents
  BY DEF MarkFailed, At, Inv, Known, JobsNamed
<1>2. DocsKeep
  BY <1>1, SetStatusKeeps DEF MarkFailed, Inv
<1> QED
  BY <1>1, <1>2, JobEndsStep DEF MarkFailed

LEMMA CleanupFailsStep ==
  ASSUME Inv, NEW j \in Jobs, CleanupFails(j)
  PROVE  Inv'
<1>1. /\ "cleanup" \in Faults /\ UNCHANGED <<docs, index, request>>
      /\ job[j].step \in {"drop_chunks", "drop_lines", "drop_vectors"}
  BY DEF CleanupFails, At
<1>2. PICK step \in {"drop_vectors", "fail"} : Go(j, step)
  BY DEF CleanupFails
<1>3. job[j].run # "failed" /\ job[j].step # "none"
  BY <1>1 DEF Inv, FailedWhen
<1> QED
  BY <1>1, <1>2, <1>3, CleanupGoes DEF index

\* The error of fail is ignored: the run is not failed, and the document is marked all the same.
LEMMA FailIgnoredStep ==
  ASSUME Inv, NEW j \in Jobs, At(j, "fail"), Go(j, "find_failed"), UNCHANGED <<docs, index, request>>
  PROVE  Inv'
<1>1. Indexes(j) /\ DocsKeep /\ job[j].step # "none" /\ job[j].run # "failed"
  BY SameIndexes, SameDocsKeep DEF Inv, At, FailedWhen
<1>2. "find_failed" \in Stages \cup FailureSteps
  BY DEF FailureSteps
<1>3. PICK locals \in JobLocals :
        Moves(j, locals) /\ locals.step = "find_failed" /\ locals.run = job[j].run
  BY <1>1, <1>2, JobGoes
<1>4. job'[j] = locals
  BY <1>3 DEF Inv, TypeOK, Moves
<1>5. Cleaned(j)'
  BY <1>1, <1>3, <1>4 DEF Cleaned
<1> QED
  BY <1>1, <1>3, <1>5, JobCleans

----------------------------------------------------------------------------
(* Every step of a job *)

LEMMA SucceedStep ==
  ASSUME Inv, NEW j \in Jobs, Succeed(j)
  PROVE  Inv'
<1>1. job[j].step # "none" /\ DocsKeep
  BY SameDocsKeep DEF Succeed, At, Inv
<1> QED
  BY <1>1, JobEndsStep DEF Succeed

\* A job that stops where it is: it dies, or how it went cannot be recorded.
LEMMA StopStep ==
  ASSUME Inv, NEW j \in Jobs, TrackerFails(j) \/ MarkingFails(j) \/ JobDies(j)
  PROVE  Inv'
<1>1. DocsKeep /\ UNCHANGED <<docs, index, request>>
  BY SameDocsKeep DEF TrackerFails, MarkingFails, JobDies, Inv
<1>2. CASE At(j, "fail") /\ Go(j, "find_failed")
  BY <1>1, <1>2, FailIgnoredStep
<1>3. ASSUME NEW lost \in BOOLEAN, job[j].step # "none", End(j, job[j].run, lost)
      PROVE  Inv'
  BY <1>1, <1>3, JobEndsStep
<1>4. CASE MarkingFails(j)
  BY <1>3, <1>4 DEF MarkingFails
<1>5. CASE JobDies(j)
  BY <1>3, <1>5 DEF JobDies, Live, At
<1>6. CASE TrackerFails(j)
  BY <1>2, <1>3, <1>6 DEF TrackerFails, At
<1> QED
  BY <1>4, <1>5, <1>6

LEMMA WorkStopsStep ==
  ASSUME Inv, NEW j \in Jobs, WorkFails(j) \/ StatementFails(j)
  PROVE  Inv'
<1>1. job[j].step \in Stages /\ Go(j, "drop_chunks") /\ UNCHANGED <<docs, index, request>>
  BY DEF WorkFails, StatementFails, Fail, Stages
<1>2. Indexes(j) /\ DocsKeep
  BY <1>1, SameIndexes, SameDocsKeep DEF Inv
<1> QED
  BY <1>1, <1>2, WorkGoes

\* FindParsed and FindReady: the document is still there, or the job fails.
LEMMA FindStep ==
  ASSUME Inv, NEW j \in Jobs, FindParsed(j) \/ FindReady(j)
  PROVE  Inv'
<1>1. PICK step \in {"write", "publish", "drop_chunks"} : Go(j, step)
  BY DEF FindParsed, FindReady, Fail
<1>2. job[j].step \in Stages /\ step \in Stages \cup {"drop_chunks"}
  BY DEF FindParsed, FindReady, At, Stages
<1>3. Indexes(j) /\ DocsKeep /\ UNCHANGED request
  BY SameIndexes, SameDocsKeep DEF Inv, FindParsed, FindReady
<1> QED
  BY <1>1, <1>2, <1>3, WorkGoes

LEMMA MarkStep ==
  ASSUME Inv, NEW j \in Jobs, MarkIndexing(j) \/ SaveParsed(j) \/ MarkReady(j)
  PROVE  Inv'
<1>1. job[j].step \in Stages /\ UNCHANGED <<index, request>>
  BY DEF MarkIndexing, SaveParsed, MarkReady, At, Stages
<1>2. PICK step \in {"load", "resume", "succeed"} : Go(j, step)
  BY DEF MarkIndexing, SaveParsed, MarkReady
<1>3. step \in Stages
  BY DEF Stages
<1>4. PICK status \in {"ready", "error"} \cup Working : SetStatus(job[j].doc, status)
  BY DEF MarkIndexing, SaveParsed, MarkReady, Working
<1> QED
  BY <1>1, <1>2, <1>3, <1>4, WriteStep

LEMMA ChecksStep ==
  ASSUME Inv, NEW j \in Jobs,
         \/ LoadInput(j) \/ Chunked(j) \/ Lined(j) \/ Embedded(j)
         \/ Persist(j) \/ Inserted(j) \/ Persisted(j)
  PROVE  Inv'
<1>1. {"load", "parse", "chunked", "lines", "lined", "embed", "embedded", "persist", "insert",
       "inserted", "upsert", "persisted", "ready", "succeed"} \subseteq Stages
  BY DEF Stages
<1> QED
  BY <1>1, CheckStep
     DEF LoadInput, Chunked, Lined, Embedded, Persist, Inserted, Persisted

LEMMA JobStepsKeep ==
  ASSUME Inv, NEW j \in Jobs, JobStep(j) \/ JobFault(j)
  PROVE  Inv'
<1>1. CASE JobStep(j)
  BY <1>1, StartStep, ParseStep, ChunkStep, InsertLinesStep, EmbedStep, InsertChunksStep,
     UpsertStep, SucceedStep, DropChunksStep, DropLinesStep, DropVectorsStep, FailRunStep,
     FindFailedStep, MarkFailedStep, FindStep, MarkStep, ChecksStep
     DEF JobStep
<1>2. CASE JobFault(j)
  BY <1>2, WorkStopsStep, UpsertStep, StopStep, CleanupFailsStep DEF JobFault
<1> QED
  BY <1>1, <1>2

----------------------------------------------------------------------------
(* The steps of a request *)

\* Request r goes on with other locals.
Handles(r, locals) ==
  /\ request' = [request EXCEPT ![r] = locals]
  /\ locals \in RequestLocals
  /\ locals.step \notin {"idle", "insert"} => locals.doc \in Documents
  /\ locals.doc \in Documents => docs'[locals.doc].status # "none"
  /\ locals.step = "promote_vectors" /\ locals.doc \in Documents =>
       docs'[locals.doc].scope = "tenant"

\* It takes rows away, and adds none.
Withdraws ==
  /\ chunks' \subseteq chunks /\ lines' \subseteq lines /\ vectors' \subseteq vectors

\* What holds of requests and documents, whatever becomes of jobs and stores.
LEMMA HandlesKeeps ==
  ASSUME Inv, NEW r \in Requests, NEW locals, Handles(r, locals), DocsKeep
  PROVE  /\ docs' \in [Documents -> DocumentRows] /\ request' \in [Requests -> RequestLocals]
         /\ RequestsNamed' /\ PromotionsWritten'
         /\ \A d \in Documents, q \in Requests :
              docs'[d].status = "none" => request'[q].doc # d
         /\ \A d \in Documents :
              docs'[d].status = "none" => docs[d].status = "none" /\ \A j \in Jobs : job[j].doc # d
         /\ \A d \in Documents, j \in Jobs :
              job[j].doc = d /\ docs[d].scope = "tenant" => docs'[d].scope = "tenant"
<1> USE DEF Inv
<1>1. docs' \in [Documents -> DocumentRows] /\ request' \in [Requests -> RequestLocals]
  BY DEF Handles, DocsKeep, TypeOK
<1>2. request'[r] = locals /\ \A q \in Requests : q # r => request'[q] = request[q]
  BY DEF Handles, TypeOK
<1>3. RequestsNamed'
  BY <1>2 DEF Known, RequestsNamed, Handles
<1>4. \A d \in Documents, q \in Requests : request[q].doc = d => docs[d].status # "none"
  BY DEF Known, KnownExist
<1>5. PromotionsWritten'
  BY <1>2, <1>4 DEF Scopes, PromotionsWritten, Handles, DocsKeep
<1>6. \A d \in Documents, q \in Requests : docs'[d].status = "none" => request'[q].doc # d
  BY <1>2, <1>4 DEF Handles, DocsKeep
<1>7. \A d \in Documents :
        docs'[d].status = "none" => docs[d].status = "none" /\ \A j \in Jobs : job[j].doc # d
  BY DEF Known, KnownExist, DocsKeep
<1>8. \A d \in Documents, j \in Jobs :
        job[j].doc = d /\ docs[d].scope = "tenant" => docs'[d].scope = "tenant"
  BY DEF Known, KnownExist, DocsKeep
<1> QED
  BY <1>1, <1>3, <1>5, <1>6, <1>7, <1>8

LEMMA RequestWithdraws ==
  ASSUME Inv, NEW r \in Requests, NEW locals, Handles(r, locals), DocsKeep, Withdraws,
         UNCHANGED job
  PROVE  Inv'
<1> USE DEF Inv
<1>1. TypeOK'
  BY HandlesKeeps DEF TypeOK, Withdraws
<1>2. JobsNamed' /\ KnownExist'
  BY HandlesKeeps DEF Known, JobsNamed, KnownExist
<1>3. OwnRows'
  BY DEF Known, OwnRows, Owned, Withdraws
<1>4. ScopesCopied'
  BY HandlesKeeps DEF Scopes, ScopesCopied
<1>5. NoEarlyPublish'
  <2> SUFFICES ASSUME NEW v \in vectors', v.scope = "tenant"
               PROVE  docs'[v.doc].scope = "tenant"
    BY DEF NoEarlyPublish
  <2>1. v.doc \in Documents /\ v.job \in Jobs /\ job[v.job].doc = v.doc
    BY DEF Withdraws, TypeOK, Points, Known, OwnRows, Owned
  <2>2. docs[v.doc].scope = "tenant"
    BY DEF Withdraws, Scopes, NoEarlyPublish
  <2> QED
    BY <2>1, <2>2, HandlesKeeps
<1>6. FailedWhen' /\ CleanedUp'
  BY DEF FailedWhen, CleanedUp, Cleaned, NoChunks, NoLines, NoVectors, Withdraws
<1> QED
  BY <1>1, <1>2, <1>3, <1>4, <1>5, <1>6, HandlesKeeps DEF Known, Scopes

\* An answer, and a step with the document the request has.
LEMMA AnswerHandles ==
  ASSUME Inv, NEW r, Answer(r)
  PROVE  Handles(r, NoRequest)
BY NothingLocals, NilIsNothing DEF Answer, Handles

LEMMA ThenHandles ==
  ASSUME Inv, NEW r \in Requests, request[r].doc \in Documents, NEW step \in RequestSteps,
         Then(r, step), DocsKeep,
         step = "promote_vectors" => docs'[request[r].doc].scope = "tenant"
  PROVE  \E locals \in RequestLocals : Handles(r, locals)
<1>0. request[r] \in RequestLocals
  BY RequestTypes DEF Inv
<1>1. PICK locals \in RequestLocals : locals = [request[r] EXCEPT !.step = step]
  BY <1>0, RequestStepLocals
<1>2. locals.step = step /\ locals.doc = request[r].doc
  BY <1>0, <1>1 DEF RequestLocals
<1>3. docs'[request[r].doc].status # "none"
  BY DEF Inv, Known, KnownExist, DocsKeep
<1>4. request' = [request EXCEPT ![r] = locals]
  BY <1>1 DEF Then
<1>5. PICK d \in Documents : d = request[r].doc
  OBVIOUS
<1> QED
  BY <1>2, <1>3, <1>4, <1>5 DEF Handles

LEMMA HandleHandles ==
  ASSUME Inv, NEW r \in Requests, NEW d \in Documents, NEW step \in RequestSteps,
         Handle(r, step, d), docs'[d].status # "none", step # "promote_vectors"
  PROVE  \E locals \in RequestLocals : Handles(r, locals)
<1>1. PICK locals \in RequestLocals : locals = [NoRequest EXCEPT !.step = step, !.doc = d]
  BY HandleLocals
<1>2. locals.step = step /\ locals.doc = d
  BY <1>1 DEF NoRequest
<1>3. request' = [request EXCEPT ![r] = locals]
  BY <1>1 DEF Handle
<1> QED
  BY <1>2, <1>3 DEF Handles

\* A request that answers.
LEMMA AnswersStep ==
  ASSUME Inv, NEW r \in Requests, Answer(r), DocsKeep, Withdraws, UNCHANGED job
  PROVE  Inv'
BY AnswerHandles, RequestWithdraws

\* A request that goes on.
LEMMA ThenStep ==
  ASSUME Inv, NEW r \in Requests, request[r].step \notin {"idle", "insert"},
         NEW step \in RequestSteps, Then(r, step), step # "promote_vectors",
         DocsKeep, Withdraws, UNCHANGED job
  PROVE  Inv'
<1>1. request[r].doc \in Documents
  BY DEF Inv, Known, RequestsNamed
<1> QED
  BY <1>1, ThenHandles, RequestWithdraws

LEMMA SameStores == ASSUME UNCHANGED index PROVE Withdraws
BY DEF Withdraws, index

LEMMA CreateStep ==
  ASSUME Inv, NEW r \in Requests, Create(r)
  PROVE  Inv'
<1>1. PICK f \in Files \cup {Nil} :
        request' = [request EXCEPT ![r] = [NoRequest EXCEPT !.step = "insert", !.file = f]]
  BY DEF Create
<1>2. PICK locals \in RequestLocals : locals = [NoRequest EXCEPT !.step = "insert", !.file = f]
  BY DEF RequestLocals, NoRequest
<1>3. locals.step = "insert" /\ locals.doc = Nil
  BY <1>2 DEF NoRequest
<1>4. Handles(r, locals)
  BY <1>1, <1>2, <1>3, NilIsNothing DEF Handles
<1> QED
  BY <1>4, SameDocsKeep, SameStores, RequestWithdraws DEF Inv, Create

LEMMA InsertDocumentStep ==
  ASSUME Inv, NEW r \in Requests, InsertDocument(r)
  PROVE  Inv'
<1>1. PICK d \in FreeDocuments, scope \in {"private", "tenant"}, step \in {"set_text", "enqueue"} :
        /\ docs' = [docs EXCEPT ![d] =
                      [NoDocument EXCEPT !.status = "pending", !.scope = scope,
                                         !.file = request[r].file]]
        /\ Handle(r, step, d)
  BY DEF InsertDocument
<1>2. PICK file \in Files \cup {Nil} : file = request[r].file
  BY RequestTypes DEF Inv
<1>3. PICK row \in DocumentRows :
        row = [NoDocument EXCEPT !.status = "pending", !.scope = scope, !.file = file]
  BY DEF NoDocument, DocumentRows, Working
<1>4. d \in Documents /\ docs[d].status = "none" /\ row.status = "pending"
  BY <1>3 DEF FreeDocuments, NoDocument
<1>5. DocsKeep /\ docs'[d].status # "none"
  BY <1>1, <1>2, <1>3, <1>4 DEF DocsKeep, Inv, TypeOK
<1>6. PICK locals \in RequestLocals : Handles(r, locals)
  BY <1>1, <1>4, <1>5, HandleHandles DEF RequestSteps
<1> QED
  BY <1>5, <1>6, SameStores, RequestWithdraws DEF InsertDocument

\* Reindex, delete and promote find the document in the database.
LEMMA ComesStep ==
  ASSUME Inv, NEW r \in Requests, NEW d \in Documents,
         Reindex(r, d) \/ Delete(r, d) \/ Promote(r, d)
  PROVE  Inv'
<1>1. PICK step \in {"reindex", "delete", "write_scope"} : Handle(r, step, d)
  BY DEF Reindex, Delete, Promote
<1>2. docs[d].status # "none" /\ UNCHANGED <<index, job>>
  BY DEF Reindex, Delete, Promote, MayCome, Exists
<1>3. step \in RequestSteps /\ step # "promote_vectors"
  BY DEF RequestSteps
<1>4. DocsKeep
  BY SameDocsKeep, OvertakesKeeps DEF Inv, Reindex, Delete, Promote
<1>5. PICK locals \in RequestLocals : Handles(r, locals)
  BY <1>1, <1>2, <1>3, <1>4, HandleHandles DEF DocsKeep
<1> QED
  BY <1>2, <1>4, <1>5, SameStores, RequestWithdraws

\* FindText and FindReset: the document is still there, or the request fails.
LEMMA FindsStep ==
  ASSUME Inv, NEW r \in Requests, FindText(r) \/ FindReset(r)
  PROVE  Inv'
<1>1. request[r].step \notin {"idle", "insert"} /\ UNCHANGED <<docs, index, job>>
  BY DEF FindText, FindReset
<1>2. DocsKeep /\ Withdraws
  BY <1>1, SameDocsKeep, SameStores DEF Inv
<1>3. ASSUME NEW step \in {"write_text", "write_reset"}, Then(r, step) PROVE Inv'
  BY <1>1, <1>2, <1>3, ThenStep DEF RequestSteps, Withdrawing
<1> QED
  BY <1>1, <1>2, <1>3, AnswersStep DEF FindText, FindReset

LEMMA WritesStep ==
  ASSUME Inv, NEW r \in Requests, WriteText(r) \/ WriteReset(r)
  PROVE  Inv'
<1>1. request[r].step \notin {"idle", "insert"} /\ UNCHANGED <<index, job>> /\ Then(r, "enqueue")
  BY DEF WriteText, WriteReset
<1>2. request[r].doc \in Documents
  BY <1>1 DEF Inv, Known, RequestsNamed
<1>3. ASSUME WriteText(r) PROVE DocsKeep
  BY <1>2, <1>3, SetStatusKeeps DEF Inv, WriteText, Working
<1>4. DocsKeep
  BY <1>2, <1>3, ResetKeeps DEF Inv, WriteReset
<1> QED
  BY <1>1, <1>4, SameStores, ThenStep DEF RequestSteps

\* DeleteVectors, ClearChunks and ClearLines take rows away.
LEMMA ClearsStep ==
  ASSUME Inv, NEW r \in Requests, DeleteVectors(r) \/ ClearChunks(r) \/ ClearLines(r)
  PROVE  Inv'
<1>1. request[r].step \notin {"idle", "insert"} /\ UNCHANGED <<docs, job>> /\ Withdraws
  BY DEF DeleteVectors, ClearChunks, ClearLines, Withdraws
<1>2. PICK step \in {"clear_chunks", "delete_rows", "clear_lines", "reset"} : Then(r, step)
  BY DEF DeleteVectors, ClearChunks, ClearLines
<1>3. step \in RequestSteps /\ step # "promote_vectors"
  BY DEF RequestSteps, Withdrawing
<1> QED
  BY <1>1, <1>2, <1>3, SameDocsKeep, ThenStep DEF Inv

LEMMA DeleteRowsStep ==
  ASSUME Inv, NEW r \in Requests, DeleteRows(r)
  PROVE  Inv'
<1>1. request[r].doc \in Documents
  BY DEF DeleteRows, Inv, Known, RequestsNamed
<1>2. DocsKeep
  <2>1. CASE UNCHANGED docs
    BY <2>1, SameDocsKeep DEF Inv
  <2>2. CASE docs' = [docs EXCEPT ![request[r].doc].status = "deleted",
                                  ![request[r].doc].deleted = TRUE]
    <3>1. PICK row \in DocumentRows :
            row = [[docs[request[r].doc] EXCEPT !.status = "deleted"] EXCEPT !.deleted = TRUE]
      BY <1>1, DocTypes DEF Inv, DocumentRows
    <3>2. row.status = "deleted" /\ row.scope = docs[request[r].doc].scope
      BY <1>1, <3>1, DocTypes DEF Inv, DocumentRows
    <3>3. docs' = [docs EXCEPT ![request[r].doc] = row]
      BY <1>1, <2>2, <3>1 DEF Inv, TypeOK
    <3> QED
      BY <1>1, <3>2, <3>3 DEF DocsKeep, Inv, TypeOK
  <2> QED
    BY <2>1, <2>2 DEF DeleteRows
<1>3. Withdraws
  BY DEF DeleteRows, Withdraws
<1> QED
  BY <1>2, <1>3, AnswersStep DEF DeleteRows

LEMMA WriteScopeStep ==
  ASSUME Inv, NEW r \in Requests, WriteScope(r)
  PROVE  Inv'
<1>1. request[r].doc \in Documents
  BY DEF WriteScope, Inv, Known, RequestsNamed
<1>2. PICK row \in DocumentRows : row = [docs[request[r].doc] EXCEPT !.scope = "tenant"]
  BY <1>1, DocTypes DEF Inv, DocumentRows
<1>3. row.scope = "tenant" /\ row.status = docs[request[r].doc].status
  BY <1>1, <1>2, DocTypes DEF Inv, DocumentRows
<1>4. docs' = [docs EXCEPT ![request[r].doc] = row]
  BY <1>2 DEF WriteScope
<1>5. DocsKeep /\ docs'[request[r].doc].scope = "tenant"
  BY <1>1, <1>3, <1>4 DEF DocsKeep, Inv, TypeOK
<1>6. "promote_vectors" \in RequestSteps
  BY DEF RequestSteps
<1>7. PICK locals \in RequestLocals : Handles(r, locals)
  BY <1>1, <1>5, <1>6, ThenHandles DEF WriteScope
<1> QED
  BY <1>5, <1>7, SameStores, RequestWithdraws DEF WriteScope

\* The document was promoted before its vectors are.
LEMMA PromoteVectorsStep ==
  ASSUME Inv, NEW r \in Requests, PromoteVectors(r)
  PROVE  Inv'
<1> USE DEF Inv
<1>1. /\ request[r].step = "promote_vectors" /\ UNCHANGED <<docs, chunks, lines, job>>
      /\ DocsKeep /\ Handles(r, NoRequest)
  BY SameDocsKeep, AnswerHandles DEF PromoteVectors
<1>2. request[r].doc \in Documents /\ docs[request[r].doc].scope = "tenant"
  BY <1>1 DEF Known, RequestsNamed, Scopes, PromotionsWritten
<1>3. \A v \in vectors' : \E u \in vectors :
        /\ v \in Points /\ v.doc = u.doc /\ v.job = u.job
        /\ v.scope = u.scope \/ v.doc = request[r].doc
  <2> SUFFICES ASSUME NEW u \in vectors,
                      NEW v, v = IF u.doc = request[r].doc THEN [u EXCEPT !.scope = "tenant"] ELSE u
               PROVE  /\ v \in Points /\ v.doc = u.doc /\ v.job = u.job
                      /\ v.scope = u.scope \/ v.doc = request[r].doc
    BY DEF PromoteVectors
  <2>1. u \in Points
    BY DEF TypeOK
  <2> QED
    BY <2>1 DEF Points
<1>4. TypeOK'
  BY <1>1, <1>3, HandlesKeeps DEF TypeOK
<1>5. Known'
  BY <1>1, <1>3, HandlesKeeps DEF Known, JobsNamed, KnownExist, OwnRows, Owned
<1>6. ScopesCopied' /\ PromotionsWritten'
  BY <1>1, HandlesKeeps DEF Scopes, ScopesCopied
<1>7. NoEarlyPublish'
  BY <1>1, <1>2, <1>3 DEF Scopes, NoEarlyPublish
<1>8. FailedWhen' /\ CleanedUp'
  BY <1>1, <1>3 DEF FailedWhen, CleanedUp, Cleaned, NoChunks, NoLines, NoVectors
<1> QED
  BY <1>4, <1>5, <1>6, <1>7, <1>8 DEF Scopes

\* A new job: nobody's rows are its own.
LEMMA EnqueueStep ==
  ASSUME Inv, NEW r \in Requests, Enqueue(r)
  PROVE  Inv'
<1> USE DEF Inv
<1>1. UNCHANGED <<docs, index>> /\ DocsKeep /\ Handles(r, NoRequest)
  BY SameDocsKeep, AnswerHandles DEF Enqueue
<1>2. PICK d \in Documents : d = request[r].doc /\ docs[d].status # "none"
  BY DEF Enqueue, Known, RequestsNamed, KnownExist
<1>3. PICK j \in FreeJobs : job' = [job EXCEPT ![j] = [NoJob EXCEPT !.step = "queued", !.doc = d]]
  BY <1>2 DEF Enqueue
<1>4. PICK locals \in JobLocals : locals = [NoJob EXCEPT !.step = "queued", !.doc = d]
  BY DEF JobLocals, NoJob
<1>5. /\ locals.step = "queued" /\ locals.doc = d /\ locals.scope = "private"
      /\ locals.run = "none"
  BY <1>4 DEF NoJob
<1>6. j \in Jobs /\ job[j].step = "none"
  BY DEF FreeJobs, At
<1>7. job'[j] = locals /\ \A i \in Jobs : i # j => job'[i] = job[i]
  BY <1>3, <1>4, <1>6 DEF TypeOK
<1>8. TypeOK'
  BY <1>1, <1>3, <1>4, HandlesKeeps DEF TypeOK, index
<1>9. JobsNamed' /\ KnownExist'
  BY <1>1, <1>2, <1>5, <1>7, HandlesKeeps DEF Known, JobsNamed, KnownExist
<1>10. OwnRows'
  <2>1. \A x : x.job \in Jobs /\ Owned(x) => Owned(x)'
    BY <1>6, <1>7 DEF Owned
  <2>2. /\ \A x \in chunks : x.job \in Jobs
        /\ \A x \in lines : x.job \in Jobs
        /\ \A x \in vectors : x.job \in Jobs
    BY DEF TypeOK, IndexRows, Points
  <2> QED
    BY <1>1, <2>1, <2>2 DEF Known, OwnRows, index
<1>11. ScopesCopied' /\ NoEarlyPublish'
  BY <1>1, <1>5, <1>7 DEF Scopes, ScopesCopied, NoEarlyPublish, index
<1>12. FailedWhen' /\ CleanedUp'
  BY <1>1, <1>5, <1>7 DEF FailedWhen, CleanedUp, Cleaned, NoChunks, NoLines, NoVectors, index
<1> QED
  BY <1>1, <1>8, <1>9, <1>10, <1>11, <1>12, HandlesKeeps DEF Known, Scopes

LEMMA RequestFailsStep ==
  ASSUME Inv, NEW r \in Requests, RequestFails(r)
  PROVE  Inv'
<1> DEFINE d == request[r].doc
           step == request[r].step
<1>1. step \in Unqueued \cup Withdrawing \cup {"promote_vectors"} => d \in Documents
  BY DEF Inv, Known, RequestsNamed, Unqueued, Withdrawing
<1>2. \/ UNCHANGED docs
      \/ /\ step \in Unqueued \cup Withdrawing \cup {"promote_vectors"}
         /\ Troubled(d, "unqueued") \/ Troubled(d, "halfway")
  BY DEF RequestFails
<1> HIDE DEF d, step
<1>3. DocsKeep
  BY <1>1, <1>2, SameDocsKeep, TroubledKeeps DEF Inv, Troubles
<1> QED
  BY <1>3, AnswersStep, SameStores DEF RequestFails

LEMMA RequestsKeep ==
  ASSUME Inv, NEW r \in Requests, RequestStep(r) \/ RequestComes(r) \/ RequestFails(r)
  PROVE  Inv'
<1>1. CASE RequestStep(r)
  BY <1>1, InsertDocumentStep, FindsStep, WritesStep, EnqueueStep, ClearsStep, DeleteRowsStep,
     WriteScopeStep, PromoteVectorsStep
     DEF RequestStep
<1>2. CASE RequestComes(r)
  BY <1>2, CreateStep, ComesStep DEF RequestComes
<1>3. CASE RequestFails(r)
  BY <1>3, RequestFailsStep
<1> QED
  BY <1>1, <1>2, <1>3

----------------------------------------------------------------------------
(* The theorems *)

LEMMA InitInv == Init => Inv
<1> SUFFICES ASSUME Init PROVE Inv
  OBVIOUS
<1>0. NoDocument \in DocumentRows
  BY DEF NoDocument, DocumentRows
<1>1. TypeOK
  BY <1>0, NothingLocals DEF Init, TypeOK
<1>2. Known
  BY NothingLocals, NilIsNothing
     DEF Init, Known, JobsNamed, RequestsNamed, KnownExist, OwnRows, NoJob
<1>3. Scopes
  BY NothingLocals DEF Init, Scopes, ScopesCopied, PromotionsWritten, NoEarlyPublish
<1>4. FailedWhen /\ CleanedUp
  BY DEF Init, FailedWhen, CleanedUp, Cleaned, NoChunks, NoLines, NoVectors, NoJob
<1> QED
  BY <1>1, <1>2, <1>3, <1>4 DEF Inv

LEMMA StutterInv == Inv /\ UNCHANGED vars => Inv'
BY DEF vars, index, Inv, TypeOK, Known, JobsNamed, RequestsNamed, KnownExist, OwnRows, Owned,
       Scopes, ScopesCopied, PromotionsWritten, NoEarlyPublish, FailedWhen, CleanedUp, Cleaned,
       NoChunks, NoLines, NoVectors

LEMMA InvHolds == Spec => []Inv
<1>1. Inv /\ [Next]_vars => Inv'
  BY JobStepsKeep, RequestsKeep, StutterInv DEF Next
<1> QED
  BY <1>1, InitInv, PTL DEF Spec

\* The rows, the stores and the locals of jobs and requests keep their types.
THEOREM TypeCorrect == Spec => []TypeOK
<1>1. Inv => TypeOK
  BY DEF Inv
<1> QED
  BY <1>1, InvHolds, PTL

\* A vector never says "tenant" of a document whose row does not, whatever overlaps: the
\* promotion writes the row first, and a job copies the scope it read (promote, start_indexing).
THEOREM VectorsFollowTheirDocument == Spec => []NoEarlyPublish
<1>1. Inv => NoEarlyPublish
  BY DEF Inv, Scopes
<1> QED
  BY <1>1, InvHolds, PTL

\* Unless a step of its cleanup fails, a failed run leaves nothing in the three stores: with
\* dead workers, failed statements and upserts, and other jobs of its document
\* (cleanup_partial_index, handle_pipeline_outcome).
THEOREM FailedRunsCleanUp ==
  ASSUME "cleanup" \notin Faults
  PROVE  Spec => []FailedRunsLeaveNothing
<1>1. Inv => FailedRunsLeaveNothing
  BY DEF Inv, CleanedUp, Cleaned, NoChunks, NoLines, NoVectors, FailedRunsLeaveNothing
<1> QED
  BY <1>1, InvHolds, PTL
----------------------------------------------------------------------------
(* A document and its index.  The invariant says, of each document that     *)
(* exists and that no reindexing or promotion overtook, who works on it and *)
(* what is in the three stores at every step.                               *)

Kept(d) == Exists(d) /\ ~Overtaken(d)

Row(d, j) == [doc |-> d, job |-> j, whole |-> TRUE]

Point(d, j, scope) == [doc |-> d, job |-> j, whole |-> TRUE, scope |-> scope]

Blank(d) == Rows(chunks, d) = {} /\ Rows(lines, d) = {} /\ Rows(vectors, d) = {}

BuiltAs(d, j, scope) ==
  /\ Rows(chunks, d) = {Row(d, j)} /\ Rows(lines, d) = {Row(d, j)}
  /\ Rows(vectors, d) = {Point(d, j, scope)}

\* Requests that build a document, or change the one that is built.
Rewriting ==
  {"set_text", "write_text", "enqueue", "reindex", "clear_chunks", "clear_lines", "reset",
   "write_reset", "write_scope", "promote_vectors"}

LiveJobs(d) == {j \in Jobs : Live(j) /\ job[j].doc = d}

Writers(d) == {r \in Requests : request[r].doc = d /\ request[r].step \in Rewriting}

\* One at a time.
Sole(d) ==
  /\ \A i, j \in LiveJobs(d) : i = j
  /\ \A r, s \in Writers(d) : r = s
  /\ LiveJobs(d) = {} \/ Writers(d) = {}

\* A request is, or stopped, between steps that take an index away; or between the two of a
\* promotion.
Withdrawn(d) ==
  \/ "halfway" \in docs[d].trouble
  \/ \E r \in Requests : request[r].doc = d /\ request[r].step \in Withdrawing

Disturbed(d) ==
  \/ Withdrawn(d)
  \/ \E r \in Requests : request[r].doc = d /\ request[r].step = "promote_vectors"

\* What is in the stores before each stage of a job.
Early == {"queued", "mark", "load", "parse", "save", "write", "resume", "chunked", "lines"}

Lining == {"lined", "embed", "embedded", "persist", "insert"}

Stored == {"inserted", "upsert"}

Complete == {"persisted", "ready", "publish"}

StatusFits(step, d) ==
  /\ step \in {"queued", "mark"} \cup FailureSteps => docs[d].status \in Working
  /\ step \in Stages \ {"mark", "succeed"} => docs[d].status = "indexing"
  /\ step = "succeed" => docs[d].status = "ready"

StoresFit(locals, j, d) ==
  /\ locals.step \in Early => Blank(d)
  /\ locals.step \in Lining =>
       Rows(lines, d) = {Row(d, j)} /\ Rows(chunks, d) = {} /\ Rows(vectors, d) = {}
  /\ locals.step \in Stored =>
       /\ Rows(lines, d) = {Row(d, j)} /\ Rows(chunks, d) = {Row(d, j)}
       /\ Rows(vectors, d) = {}
  /\ locals.step \in Complete =>
       \/ BuiltAs(d, j, locals.scope)
       \/ Rows(vectors, d) = {} /\ Withdrawn(d)

Fits(locals, j, d) ==
  /\ StatusFits(locals.step, d) /\ StoresFit(locals, j, d)
  /\ locals.step \in Stages => locals.scope = docs[d].scope
  /\ locals.step \in {"embedded", "persist", "insert"} \cup Stored => locals.got = "all"

Prepared(step, d) ==
  /\ step \in Unqueued => Blank(d) /\ docs[d].status \in Working
  /\ step \in {"clear_chunks", "clear_lines", "reset", "write_reset"} => Rows(vectors, d) = {}
  /\ step \in {"clear_lines", "reset", "write_reset"} => Rows(chunks, d) = {}
  /\ step \in {"reset", "write_reset"} => Rows(lines, d) = {}

\* A document that is ready has its whole index, or what it shows was withdrawn.
Indexed(d) ==
  docs[d].status = "ready" =>
    /\ \/ Rows(vectors, d) = {} /\ Withdrawn(d)
       \/ \E j \in Jobs, scope \in {"private", "tenant"} : BuiltAs(d, j, scope)
    /\ Disturbed(d) \/ \E j \in Jobs : BuiltAs(d, j, docs[d].scope)

InStep(d) ==
  Kept(d) =>
    /\ Sole(d)
    /\ \A j \in LiveJobs(d) : Fits(job[j], j, d)
    /\ \A r \in Writers(d) : Prepared(request[r].step, d)
    /\ Indexed(d)

IndexInv == Inv /\ \A d \in Documents : InStep(d)

----------------------------------------------------------------------------
(* What a step leaves alone *)

\* The row of a document and what the stores have of it.
SamePlace(d) ==
  /\ docs'[d] = docs[d]
  /\ Rows(chunks, d)' = Rows(chunks, d) /\ Rows(lines, d)' = Rows(lines, d)
  /\ Rows(vectors, d)' = Rows(vectors, d)

\* The same but for its troubles, of which the invariant knows one.
Alike(d) ==
  /\ docs'[d].status = docs[d].status /\ docs'[d].deleted = docs[d].deleted
  /\ docs'[d].scope = docs[d].scope /\ Overtaken(d)' = Overtaken(d)
  /\ Rows(chunks, d)' = Rows(chunks, d) /\ Rows(lines, d)' = Rows(lines, d)
  /\ Rows(vectors, d)' = Rows(vectors, d)

LEMMA SamePlaceAlike == ASSUME NEW d, SamePlace(d) PROVE Alike(d)
BY DEF SamePlace, Alike, Overtaken

LEMMA AlikeFits ==
  ASSUME NEW d, Alike(d),
         Withdrawn(d) => Withdrawn(d)', Disturbed(d) => Disturbed(d)'
  PROVE  /\ Kept(d)' = Kept(d)
         /\ \A locals, j : Fits(locals, j, d) => Fits(locals, j, d)'
         /\ \A step : Prepared(step, d) => Prepared(step, d)'
         /\ Indexed(d) => Indexed(d)'
<1>1. Kept(d)' = Kept(d)
  BY DEF Alike, Kept, Exists
<1>2. \A j, scope : BuiltAs(d, j, scope)' = BuiltAs(d, j, scope)
  BY DEF Alike, BuiltAs
<1>3. Blank(d)' = Blank(d)
  BY DEF Alike, Blank
<1>4. ASSUME NEW locals, NEW j, Fits(locals, j, d)
      PROVE  Fits(locals, j, d)'
  <2>1. StatusFits(locals.step, d)'
    BY <1>4 DEF Fits, StatusFits, Alike
  <2>2. StoresFit(locals, j, d)'
    BY <1>2, <1>3, <1>4 DEF Fits, StoresFit, Alike
  <2> QED
    BY <1>4, <2>1, <2>2 DEF Fits, Alike
<1>5. \A step : Prepared(step, d) => Prepared(step, d)'
  BY <1>3 DEF Prepared, Alike
<1>6. Indexed(d) => Indexed(d)'
  BY <1>2 DEF Indexed, Alike
<1> QED
  BY <1>1, <1>4, <1>5, <1>6

\* Nobody else comes to it.
SameHands(d) ==
  /\ LiveJobs(d)' = LiveJobs(d) /\ \A j \in LiveJobs(d) : job'[j] = job[j]
  /\ Writers(d)' \subseteq Writers(d) /\ \A r \in Writers(d)' : request'[r].step = request[r].step
  /\ Withdrawn(d) => Withdrawn(d)'
  /\ Disturbed(d) => Disturbed(d)'

LEMMA ApartInStep ==
  ASSUME NEW d, InStep(d), Alike(d), SameHands(d)
  PROVE  InStep(d)'
<1> SUFFICES ASSUME Kept(d)'
             PROVE  InStep(d)'
  BY DEF InStep
<1>1. /\ Kept(d)
      /\ \A locals, j : Fits(locals, j, d) => Fits(locals, j, d)'
      /\ \A step : Prepared(step, d) => Prepared(step, d)'
      /\ Indexed(d) => Indexed(d)'
  BY AlikeFits DEF SameHands
<1>2. Sole(d)'
  BY <1>1 DEF InStep, Sole, SameHands
<1>3. \A j \in LiveJobs(d)' : Fits(job[j], j, d)'
  <2> SUFFICES ASSUME NEW j \in LiveJobs(d)
               PROVE  Fits(job[j], j, d)'
    BY DEF SameHands
  <2>1. PICK locals : locals = job[j] /\ locals = job'[j]
    BY DEF SameHands
  <2>2. Fits(locals, j, d)'
    BY <1>1, <2>1 DEF InStep
  <2> QED
    BY <2>1, <2>2
<1>4. \A r \in Writers(d)' : Prepared(request[r].step, d)'
  <2> SUFFICES ASSUME NEW r \in Writers(d)'
               PROVE  Prepared(request[r].step, d)'
    OBVIOUS
  <2>1. PICK step : step = request[r].step /\ step = request'[r].step /\ r \in Writers(d)
    BY DEF SameHands
  <2>2. Prepared(step, d)'
    BY <1>1, <2>1 DEF InStep
  <2> QED
    BY <2>1, <2>2
<1> QED
  BY <1>1, <1>2, <1>3, <1>4 DEF InStep

----------------------------------------------------------------------------
(* A step of a job and the document it works on *)

LEMMA JobInStep ==
  ASSUME IndexInv, NEW d \in Documents, NEW j \in Jobs, Live(j), job[j].doc = d,
         NEW locals, job' = [job EXCEPT ![j] = locals], locals.doc = d, UNCHANGED request,
         \A e \in Documents : e # d => SamePlace(e),
         Kept(d)' => /\ Kept(d) /\ Indexed(d)'
                     /\ locals.step \notin {"none", "ended"} => Fits(locals, j, d)'
  PROVE  \A e \in Documents : InStep(e)'
<1>1. job'[j] = locals /\ \A i \in Jobs : i # j => job'[i] = job[i]
  BY DEF IndexInv, Inv, TypeOK
<1>2. /\ \A e : Writers(e)' = Writers(e)
      /\ \A r : request'[r].step = request[r].step
      /\ \A e \in Documents : e # d =>
           Withdrawn(e)' = Withdrawn(e) /\ Disturbed(e)' = Disturbed(e)
  BY DEF Withdrawn, Disturbed, Writers, SamePlace
<1>3. ASSUME NEW e \in Documents, e # d
      PROVE  InStep(e)'
  <2>1. \A i \in Jobs : i \in LiveJobs(e)' <=> i \in LiveJobs(e)
    BY <1>1, <1>3 DEF LiveJobs, Live
  <2>2. LiveJobs(e)' = LiveJobs(e)
    BY <2>1 DEF LiveJobs
  <2>3. \A i \in LiveJobs(e) : job'[i] = job[i]
    BY <1>1, <1>3 DEF LiveJobs
  <2> QED
    BY <1>2, <1>3, <2>2, <2>3, SamePlaceAlike, ApartInStep DEF IndexInv, SameHands
<1>4. ASSUME Kept(d)'
      PROVE  InStep(d)'
  <2>1. Sole(d) /\ j \in LiveJobs(d) /\ Kept(d)
    BY <1>4 DEF IndexInv, InStep, LiveJobs
  <2>2. Writers(d)' = {}
    BY <1>2, <2>1 DEF Sole
  <2>3. \A i \in LiveJobs(d) : i = j
    BY <2>1 DEF Sole
  <2>4. \A i \in LiveJobs(d)' : i = j
    BY <1>1, <2>3 DEF LiveJobs, Live
  <2>5. Sole(d)'
    BY <2>2, <2>4 DEF Sole
  <2>6. \A i \in LiveJobs(d)' : Fits(job[i], i, d)'
    <3> SUFFICES ASSUME j \in LiveJobs(d)' PROVE Fits(job[j], j, d)'
      BY <2>4
    <3>1. locals.step \notin {"none", "ended"}
      BY <1>1 DEF LiveJobs, Live
    <3>2. Fits(locals, j, d)'
      BY <1>4, <3>1
    <3> QED
      BY <1>1, <3>2
  <2> QED
    BY <1>4, <2>2, <2>5, <2>6 DEF InStep
<1> QED
  BY <1>3, <1>4 DEF InStep

\* What is known of a job that is at work.
LEMMA AtWork ==
  ASSUME IndexInv, NEW j \in Jobs, Live(j)
  PROVE  /\ job[j].doc \in Documents /\ job[j] \in JobLocals
         /\ Kept(job[j].doc) => Fits(job[j], j, job[j].doc) /\ Indexed(job[j].doc)
<1>1. job[j].doc \in Documents /\ job[j] \in JobLocals
  BY JobTypes DEF IndexInv, Inv, Known, JobsNamed, Live
<1> QED
  BY <1>1 DEF IndexInv, InStep, LiveJobs

\* A job that writes nothing.
LEMMA QuietInStep ==
  ASSUME IndexInv, NEW j \in Jobs, Live(j), NEW locals, job' = [job EXCEPT ![j] = locals],
         locals.doc = job[j].doc, UNCHANGED <<docs, index, request>>,
         Kept(job[j].doc) =>
           locals.step \in {"none", "ended"} \/ Fits(locals, j, job[j].doc)
  PROVE  \A e \in Documents : InStep(e)'
<1>1. PICK d \in Documents : d = job[j].doc
  BY AtWork
<1>2. \A e : SamePlace(e) /\ Withdrawn(e)' = Withdrawn(e) /\ Disturbed(e)' = Disturbed(e)
  BY DEF SamePlace, index, Rows, Withdrawn, Disturbed
<1>3. /\ Kept(d)' = Kept(d) /\ (Indexed(d) => Indexed(d)')
      /\ Fits(locals, j, d) => Fits(locals, j, d)'
  BY <1>2, SamePlaceAlike, AlikeFits
<1> QED
  BY <1>1, <1>2, <1>3, AtWork, JobInStep

\* The stages between which a job only looks at its document.
Onward ==
  {<<"load", "parse">>, <<"parse", "save">>, <<"save", "write">>, <<"resume", "chunked">>,
   <<"chunked", "lines">>, <<"lined", "embed">>, <<"embedded", "persist">>,
   <<"persist", "insert">>, <<"inserted", "upsert">>, <<"persisted", "ready">>,
   <<"ready", "publish">>}

LEMMA OnwardFits ==
  ASSUME NEW d, NEW j, NEW locals, NEW next, Fits(locals, j, d),
         <<locals.step, next.step>> \in Onward, next.scope = locals.scope, next.got = locals.got
  PROVE  Fits(next, j, d)
<1>1. StatusFits(next.step, d)
  BY DEF Onward, Fits, StatusFits, Stages, FailureSteps
<1>2. locals.step \in Stages /\ (locals.step \in {"embedded", "persist", "insert"} \cup Stored =>
                                    locals.got = "all")
  BY DEF Onward, Fits, Stages
<1>3. next.scope = docs[d].scope
  BY <1>2 DEF Fits
<1>4. next.step \in {"embedded", "persist", "insert"} \cup Stored => next.got = "all"
  BY <1>2 DEF Onward, Stored
<1>5. StoresFit(next, j, d)
  BY DEF Onward, Fits, StoresFit, Early, Lining, Stored, Complete
<1> QED
  BY <1>1, <1>3, <1>4, <1>5 DEF Fits

\* A failure may come at every stage but the upsert, when the job has not marked its document yet.
LEMMA FailureFits ==
  ASSUME NEW d, NEW j, NEW locals, NEW next, Fits(locals, j, d),
         locals.step \in {"queued"} \cup FailureSteps \cup (Stages \ {"succeed"}),
         next.step \in FailureSteps
  PROVE  Fits(next, j, d)
<1>1. StatusFits(next.step, d)
  BY DEF Fits, StatusFits, Stages, FailureSteps, Working
<1> QED
  BY <1>1 DEF Fits, StoresFit, FailureSteps, Stages, Early, Lining, Stored, Complete

\* A live job whose document exists finds it active, until it has marked it ready.
LEMMA StillActive ==
  ASSUME IndexInv, NEW j \in Jobs, Live(j), Kept(job[j].doc), job[j].step # "succeed"
  PROVE  Active(job[j].doc)
<1>1. Fits(job[j], j, job[j].doc)
  BY AtWork
<1>2. job[j].step \in {"queued"} \cup FailureSteps \cup (Stages \ {"succeed"})
  BY AtWork DEF JobLocals, Live
<1> QED
  BY <1>1, <1>2 DEF Fits, StatusFits, Active, Working, Kept

\* Locals whose step changes.
LEMMA NextLocals ==
  ASSUME NEW locals \in JobLocals, NEW step \in JobSteps,
         NEW next, next = [locals EXCEPT !.step = step]
  PROVE  /\ next.step = step /\ next.doc = locals.doc /\ next.scope = locals.scope
         /\ next.got = locals.got
BY DEF JobLocals, JobSteps

LEMMA GoInStep ==
  ASSUME IndexInv, NEW j \in Jobs, Live(j), NEW step \in Stages \cup FailureSteps, Go(j, step),
         UNCHANGED <<docs, index, request>>,
         Kept(job[j].doc) =>
           \/ <<job[j].step, step>> \in Onward
           \/ job[j].step # "succeed" /\ step \in FailureSteps
  PROVE  \A e \in Documents : InStep(e)'
<1>1. PICK locals : locals = [job[j] EXCEPT !.step = step]
  OBVIOUS
<1>2. /\ locals.step = step /\ locals.doc = job[j].doc /\ locals.scope = job[j].scope
      /\ locals.got = job[j].got
  BY <1>1, AtWork, NextLocals DEF JobSteps
<1>3. job' = [job EXCEPT ![j] = locals]
  BY <1>1 DEF Go
<1>4. ASSUME Kept(job[j].doc)
      PROVE  Fits(locals, j, job[j].doc)
  <2>1. Fits(job[j], j, job[j].doc)
    BY <1>4, AtWork
  <2>2. job[j].step \in {"queued", "succeed"} \cup FailureSteps \cup (Stages \ {"succeed"})
    BY AtWork DEF JobLocals, Live
  <2>3. CASE <<job[j].step, step>> \in Onward
    BY <1>2, <2>1, <2>3, OnwardFits
  <2>4. CASE job[j].step # "succeed" /\ step \in FailureSteps
    BY <1>2, <2>1, <2>2, <2>4, FailureFits
  <2> QED
    BY <1>4, <2>3, <2>4
<1> QED
  BY <1>2, <1>3, <1>4, QuietInStep

LEMMA CheckInStep ==
  ASSUME IndexInv, NEW j \in Jobs, NEW from \in Stages \ {"succeed"},
         NEW active \in Stages \cup FailureSteps, NEW stopped \in Stages \cup FailureSteps,
         <<from, active>> \in Onward \/ active \in FailureSteps,
         Check(j, from, active, stopped)
  PROVE  \A e \in Documents : InStep(e)'
<1>1. job[j].step = from /\ UNCHANGED <<docs, index, request>>
  BY DEF Check, At
<1>2. Live(j) /\ from # "succeed"
  BY <1>1 DEF Live, Stages
<1>3. PICK step \in {active, stopped} : Go(j, step) /\ (Active(job[j].doc) => step = active)
  BY DEF Check
<1>4. Kept(job[j].doc) => step = active
  BY <1>1, <1>2, <1>3, StillActive
<1> QED
  BY <1>1, <1>2, <1>3, <1>4, GoInStep

LEMMA EndInStep ==
  ASSUME IndexInv, NEW j \in Jobs, Live(j), NEW run, NEW lost, End(j, run, lost),
         UNCHANGED <<docs, index, request>>
  PROVE  \A e \in Documents : InStep(e)'
<1>1. PICK locals :
        locals = [NoJob EXCEPT !.step = "ended", !.doc = job[j].doc, !.run = run, !.lost = lost]
  OBVIOUS
<1>2. locals.step = "ended" /\ locals.doc = job[j].doc /\ job' = [job EXCEPT ![j] = locals]
  BY <1>1 DEF NoJob, End
<1> QED
  BY <1>2, QuietInStep

\* The actions of a job that change nothing but its locals.
LEMMA LooksInStep ==
  ASSUME IndexInv, NEW j \in Jobs,
         \/ LoadInput(j) \/ Chunk(j) \/ Chunked(j) \/ Lined(j) \/ Embedded(j) \/ Persist(j)
         \/ Inserted(j) \/ Persisted(j)
  PROVE  \A e \in Documents : InStep(e)'
<1>1. /\ {"load", "resume", "chunked", "lined", "embedded", "persist", "inserted", "persisted"}
           \subseteq Stages \ {"succeed"}
      /\ {"parse", "lines", "embed", "insert", "upsert", "ready", "succeed", "chunked", "persist",
          "persisted"} \subseteq Stages
      /\ "drop_chunks" \in FailureSteps
  BY DEF Stages, FailureSteps
<1>2. /\ <<"load", "parse">> \in Onward /\ <<"resume", "chunked">> \in Onward
      /\ <<"chunked", "lines">> \in Onward /\ <<"lined", "embed">> \in Onward
      /\ <<"embedded", "persist">> \in Onward /\ <<"persist", "insert">> \in Onward
      /\ <<"inserted", "upsert">> \in Onward /\ <<"persisted", "ready">> \in Onward
  BY DEF Onward
<1>3. CASE LoadInput(j)
  BY <1>1, <1>2, <1>3, CheckInStep DEF LoadInput
<1>4. CASE Chunk(j)
  BY <1>1, <1>2, <1>4, CheckInStep DEF Chunk
<1>5. CASE Chunked(j) \/ Lined(j) \/ Embedded(j)
  BY <1>1, <1>2, <1>5, CheckInStep DEF Chunked, Lined, Embedded
<1>6. CASE Persist(j) \/ Inserted(j) \/ Persisted(j)
  BY <1>1, <1>2, <1>6, CheckInStep DEF Persist, Inserted, Persisted
<1> QED
  BY <1>3, <1>4, <1>5, <1>6

LEMMA FindsInStep ==
  ASSUME IndexInv, NEW j \in Jobs, FindParsed(j) \/ FindReady(j)
  PROVE  \A e \in Documents : InStep(e)'
<1>1. job[j].step \in {"save", "ready"} /\ Live(j) /\ UNCHANGED <<docs, index, request>>
  BY DEF FindParsed, FindReady, At, Live
<1>2. PICK step : /\ Go(j, step)
                  /\ \/ Exists(job[j].doc) /\ <<job[j].step, step>> \in Onward
                     \/ ~Exists(job[j].doc) /\ step = "drop_chunks"
                  /\ step \in {"write", "publish", "drop_chunks"}
  BY DEF FindParsed, FindReady, Fail, At, Onward
<1>3. step \in Stages \cup FailureSteps
  BY <1>2 DEF Stages, FailureSteps
<1> QED
  BY <1>1, <1>2, <1>3, GoInStep DEF Kept

LEMMA StartInStep ==
  ASSUME IndexInv, NEW j \in Jobs, Start(j)
  PROVE  \A e \in Documents : InStep(e)'
<1>1. job[j].step = "queued" /\ Live(j) /\ UNCHANGED <<docs, index, request>>
  BY DEF Start, At, Live
<1>2. PICK step : /\ step = IF Active(job[j].doc) THEN "mark" ELSE "drop_chunks"
                  /\ job' = [job EXCEPT ![j] =
                       [@ EXCEPT !.run = "running", !.scope = docs[job[j].doc].scope,
                                 !.step = step]]
  BY DEF Start
<1>3. PICK locals : locals = [job[j] EXCEPT !.run = "running", !.scope = docs[job[j].doc].scope,
                                            !.step = step]
  OBVIOUS
<1>4. locals.step = step /\ locals.doc = job[j].doc /\ locals.scope = docs[job[j].doc].scope
  BY <1>1, <1>3, AtWork DEF JobLocals
<1>5. job' = [job EXCEPT ![j] = locals]
  BY <1>2, <1>3
<1>6. ASSUME Kept(job[j].doc)
      PROVE  Fits(locals, j, job[j].doc)
  <2>1. Fits(job[j], j, job[j].doc) /\ step = "mark"
    BY <1>1, <1>2, <1>6, AtWork, StillActive
  <2>2. docs[job[j].doc].status \in Working /\ Blank(job[j].doc)
    BY <1>1, <2>1 DEF Fits, StatusFits, StoresFit, Early
  <2> QED
    BY <1>4, <2>1, <2>2
       DEF Fits, StatusFits, StoresFit, Stages, FailureSteps, Lining, Stored, Complete
<1> QED
  BY <1>1, <1>4, <1>5, <1>6, QuietInStep

LEMMA ParseInStep ==
  ASSUME IndexInv, NEW j \in Jobs, Parse(j)
  PROVE  \A e \in Documents : InStep(e)'
<1>1. job[j].step = "parse" /\ Live(j) /\ UNCHANGED <<docs, index, request>>
  BY DEF Parse, At, Live
<1>2. PICK text, step :
        /\ step = IF Active(job[j].doc) THEN "save" ELSE "resume"
        /\ job' = [job EXCEPT ![j] = [@ EXCEPT !.text = text, !.step = step]]
  BY DEF Parse
<1>3. PICK locals : locals = [job[j] EXCEPT !.text = text, !.step = step]
  OBVIOUS
<1>4. /\ locals.step = step /\ locals.doc = job[j].doc /\ locals.scope = job[j].scope
      /\ locals.got = job[j].got
  BY <1>1, <1>3, AtWork DEF JobLocals
<1>5. job' = [job EXCEPT ![j] = locals]
  BY <1>2, <1>3
<1>6. Kept(job[j].doc) => Fits(locals, j, job[j].doc)
  BY <1>1, <1>2, <1>4, AtWork, StillActive, OnwardFits DEF Onward
<1> QED
  BY <1>1, <1>4, <1>5, <1>6, QuietInStep

LEMMA EmbedInStep ==
  ASSUME IndexInv, NEW j \in Jobs, Embed(j)
  PROVE  \A e \in Documents : InStep(e)'
<1>1. job[j].step = "embed" /\ Live(j) /\ UNCHANGED <<docs, index, request>>
  BY DEF Embed, At, Live
<1>2. PICK got : /\ Active(job[j].doc) => got = "all"
                 /\ job' = [job EXCEPT ![j] = [@ EXCEPT !.got = got, !.step = "embedded"]]
  BY DEF Embed
<1>3. PICK locals : locals = [job[j] EXCEPT !.got = got, !.step = "embedded"]
  OBVIOUS
<1>4. /\ locals.step = "embedded" /\ locals.doc = job[j].doc /\ locals.scope = job[j].scope
      /\ locals.got = got
  BY <1>1, <1>3, AtWork DEF JobLocals
<1>5. job' = [job EXCEPT ![j] = locals]
  BY <1>2, <1>3
<1>6. ASSUME Kept(job[j].doc)
      PROVE  Fits(locals, j, job[j].doc)
  <2>1. Fits(job[j], j, job[j].doc) /\ got = "all"
    BY <1>1, <1>2, <1>6, AtWork, StillActive
  <2>2. StatusFits("embedded", job[j].doc)
    BY <1>1, <2>1 DEF Fits, StatusFits, Stages, FailureSteps
  <2>3. StoresFit(locals, j, job[j].doc)
    BY <1>1, <1>4, <2>1 DEF Fits, StoresFit, Early, Lining, Stored, Complete
  <2> QED
    BY <1>1, <1>4, <2>1, <2>2, <2>3 DEF Fits, Stages
<1> QED
  BY <1>1, <1>4, <1>5, <1>6, QuietInStep

LEMMA FailRunInStep ==
  ASSUME IndexInv, NEW j \in Jobs, FailRun(j)
  PROVE  \A e \in Documents : InStep(e)'
<1>1. job[j].step = "fail" /\ Live(j) /\ UNCHANGED <<docs, index, request>>
  BY DEF FailRun, At, Live
<1>2. PICK locals : locals = [job[j] EXCEPT !.run = "failed", !.step = "find_failed"]
  OBVIOUS
<1>3. locals.step = "find_failed" /\ locals.doc = job[j].doc
  BY <1>1, <1>2, AtWork DEF JobLocals
<1>4. job' = [job EXCEPT ![j] = locals]
  BY <1>2 DEF FailRun
<1>5. Kept(job[j].doc) => Fits(locals, j, job[j].doc)
  BY <1>1, <1>3, AtWork, FailureFits DEF FailureSteps
<1> QED
  BY <1>1, <1>3, <1>4, <1>5, QuietInStep

\* A job stops, fails, or leaves a part of its cleanup.
LEMMA StopsInStep ==
  ASSUME IndexInv, NEW j \in Jobs,
         \/ Succeed(j) \/ TrackerFails(j) \/ JobDies(j) \/ WorkFails(j) \/ StatementFails(j)
         \/ FindFailed(j) \/ CleanupFails(j) \/ MarkingFails(j)
  PROVE  \A e \in Documents : InStep(e)'
<1>1. Live(j) /\ UNCHANGED <<docs, index, request>>
  BY DEF Succeed, TrackerFails, JobDies, WorkFails, StatementFails, FindFailed, CleanupFails,
         MarkingFails, At, Live, Stages
<1>2. CASE \E run, lost : End(j, run, lost)
  BY <1>1, <1>2, EndInStep
<1>3. CASE job[j].step # "succeed" /\ \E step \in FailureSteps : Go(j, step)
  BY <1>1, <1>3, GoInStep
<1>4. {"drop_chunks", "drop_vectors", "fail", "find_failed", "mark_failed"} \subseteq FailureSteps
  BY DEF FailureSteps
<1>5. CASE Succeed(j) \/ MarkingFails(j) \/ JobDies(j)
  BY <1>2, <1>5 DEF Succeed, MarkingFails, JobDies
<1>9. CASE TrackerFails(j)
  BY <1>2, <1>3, <1>4, <1>9 DEF TrackerFails, At
<1>6. CASE WorkFails(j) \/ StatementFails(j)
  BY <1>3, <1>4, <1>6 DEF WorkFails, StatementFails, Fail, Stages
<1>7. CASE FindFailed(j)
  BY <1>2, <1>3, <1>4, <1>7 DEF FindFailed, At
<1>8. CASE CleanupFails(j)
  BY <1>3, <1>4, <1>8 DEF CleanupFails, At
<1> QED
  BY <1>5, <1>6, <1>7, <1>8, <1>9

----------------------------------------------------------------------------
(* Jobs that write the status of their document *)

LEMMA StatusWritten ==
  ASSUME IndexInv, NEW d \in Documents, NEW status, SetStatus(d, status)
  PROVE  /\ docs'[d].status = status /\ docs'[d].deleted = docs[d].deleted
         /\ docs'[d].scope = docs[d].scope /\ docs'[d].trouble = docs[d].trouble
         /\ \A e \in Documents : e # d => docs'[e] = docs[e]
BY DocTypes DEF IndexInv, Inv, TypeOK, SetStatus, DocumentRows

\* The document of a job was inserted.
LEMMA InHand ==
  ASSUME IndexInv, NEW d \in Documents,
         (\E j \in Jobs : job[j].doc = d) \/ (\E r \in Requests : request[r].doc = d)
  PROVE  docs[d].status # "none"
BY DEF IndexInv, Inv, Known, KnownExist

Written == {<<"mark", "load", "indexing">>, <<"write", "resume", "indexing">>,
            <<"publish", "succeed", "ready">>}

LEMMA MarksInStep ==
  ASSUME IndexInv, NEW j \in Jobs, MarkIndexing(j) \/ SaveParsed(j) \/ MarkReady(j)
  PROVE  \A e \in Documents : InStep(e)'
<1>1. Live(j) /\ UNCHANGED <<index, request>>
  BY DEF MarkIndexing, SaveParsed, MarkReady, At, Live
<1>2. PICK step, status : /\ <<job[j].step, step, status>> \in Written
                          /\ Go(j, step) /\ SetStatus(job[j].doc, status)
  BY DEF MarkIndexing, SaveParsed, MarkReady, At, Written
<1>3. PICK d, locals :
        d \in Documents /\ d = job[j].doc /\ locals = [job[j] EXCEPT !.step = step]
  BY <1>1, AtWork
<1>4. /\ locals.step = step /\ locals.doc = d /\ locals.scope = job[j].scope
      /\ locals.got = job[j].got /\ job' = [job EXCEPT ![j] = locals]
      /\ step \in {"load", "resume", "succeed"} /\ status \in {"indexing", "ready"}
  BY <1>1, <1>2, <1>3, AtWork, NextLocals DEF JobSteps, Stages, Written, Go
<1>5. /\ docs'[d].status = status /\ docs'[d].deleted = docs[d].deleted
      /\ docs'[d].scope = docs[d].scope /\ docs'[d].trouble = docs[d].trouble
      /\ \A e \in Documents : e # d => docs'[e] = docs[e]
  BY <1>2, <1>3, StatusWritten
<1>6. \A e \in Documents : e # d => SamePlace(e)
  BY <1>1, <1>5 DEF SamePlace, index, Rows
<1>7. ASSUME Kept(d)'
      PROVE  Kept(d) /\ Indexed(d)' /\ Fits(locals, j, d)'
  <2>1. Kept(d) /\ Fits(job[j], j, d)
    BY <1>1, <1>3, <1>5, <1>7, InHand, AtWork DEF Kept, Exists, Overtaken
  <2>2. /\ Blank(d)' = Blank(d) /\ Rows(vectors, d)' = Rows(vectors, d)
        /\ Withdrawn(d)' = Withdrawn(d)
        /\ \A i, scope : BuiltAs(d, i, scope)' = BuiltAs(d, i, scope)
    BY <1>1, <1>5 DEF index, Blank, BuiltAs, Rows, Withdrawn
  <2>3. /\ job[j].scope = docs[d].scope /\ job[j].step \in {"mark", "write", "publish"}
        /\ step \in {"load", "resume"} => Blank(d) /\ status = "indexing"
        /\ step = "succeed" =>
             /\ status = "ready"
             /\ BuiltAs(d, j, docs[d].scope) \/ (Rows(vectors, d) = {} /\ Withdrawn(d))
    BY <1>2, <2>1 DEF Written, Fits, StoresFit, Stages, Early, Complete
  <2>4. docs[d].scope \in {"private", "tenant"}
    BY <1>3, DocTypes DEF IndexInv, Inv
  <2>5. Indexed(d)'
    BY <1>4, <1>5, <2>2, <2>3, <2>4 DEF Indexed, Disturbed
  <2>6. StatusFits(step, d)'
    BY <1>4, <1>5, <2>3 DEF StatusFits, FailureSteps
  <2>7. StoresFit(locals, j, d)'
    BY <1>4, <2>2, <2>3 DEF StoresFit, Lining, Stored, Complete, Early
  <2> QED
    BY <1>4, <1>5, <2>1, <2>3, <2>5, <2>6, <2>7 DEF Fits, Stored
<1> QED
  BY <1>1, <1>3, <1>4, <1>6, <1>7, JobInStep

LEMMA MarkFailedInStep ==
  ASSUME IndexInv, NEW j \in Jobs, MarkFailed(j)
  PROVE  \A e \in Documents : InStep(e)'
<1>1. Live(j) /\ UNCHANGED <<index, request>>
  BY DEF MarkFailed, At, Live
<1>2. PICK d, locals :
        /\ d \in Documents /\ d = job[j].doc
        /\ locals = [NoJob EXCEPT !.step = "ended", !.doc = d, !.run = job[j].run, !.lost = FALSE]
  BY <1>1, AtWork
<1>3. locals.step = "ended" /\ locals.doc = d /\ job' = [job EXCEPT ![j] = locals]
  BY <1>2 DEF NoJob, MarkFailed, End
<1>4. /\ docs'[d].status = "error" /\ docs'[d].deleted = docs[d].deleted
      /\ docs'[d].trouble = docs[d].trouble
      /\ \A e \in Documents : e # d => docs'[e] = docs[e]
  BY <1>2, StatusWritten DEF MarkFailed
<1>5. \A e \in Documents : e # d => SamePlace(e)
  BY <1>1, <1>4 DEF SamePlace, index, Rows
<1>6. Kept(d)' => Kept(d) /\ Indexed(d)'
  BY <1>2, <1>4, InHand DEF Kept, Exists, Overtaken, Indexed
<1> QED
  BY <1>1, <1>2, <1>3, <1>5, <1>6, JobInStep

----------------------------------------------------------------------------
(* Jobs that write the stores *)

LEMMA RowsMore ==
  ASSUME NEW table, NEW x, NEW d
  PROVE  /\ x.doc = d => Rows(table \cup {x}, d) = Rows(table, d) \cup {x}
         /\ x.doc # d => Rows(table \cup {x}, d) = Rows(table, d)
BY DEF Rows

LEMMA RowsLess ==
  ASSUME NEW table, NEW d
  PROVE  /\ Rows(table \ Rows(table, d), d) = {}
         /\ \A e : e # d => Rows(table \ Rows(table, d), e) = Rows(table, e)
BY DEF Rows

\* A job that writes what is in the stores of its document, and not the document.
LEMMA StoresInStep ==
  ASSUME IndexInv, NEW j \in Jobs, Live(j), job[j].step # "succeed",
         NEW d \in Documents, d = job[j].doc,
         NEW step \in Stages \cup FailureSteps, Go(j, step), UNCHANGED <<docs, request>>,
         \A e \in Documents : e # d => SamePlace(e),
         Kept(d) =>
           \/ step \in FailureSteps
           \/ /\ <<job[j].step, step>> \in
                   {<<"lines", "lined">>, <<"insert", "inserted">>, <<"upsert", "persisted">>}
              /\ \A locals :
                   /\ locals.step = step /\ locals.scope = job[j].scope
                   => StoresFit(locals, j, d)'
  PROVE  \A e \in Documents : InStep(e)'
<1>1. PICK locals : locals = [job[j] EXCEPT !.step = step]
  OBVIOUS
<1>2. /\ locals.step = step /\ locals.doc = d /\ locals.scope = job[j].scope
      /\ locals.got = job[j].got /\ job' = [job EXCEPT ![j] = locals]
  BY <1>1, AtWork, NextLocals DEF JobSteps, Go
<1>3. ASSUME Kept(d)
      PROVE  Indexed(d)' /\ Fits(locals, j, d)'
  <2>1. Fits(job[j], j, d) /\ docs'[d] = docs[d]
    BY <1>1, <1>3, AtWork
  <2>2. job[j].step \in {"queued"} \cup FailureSteps \cup (Stages \ {"succeed"})
    BY AtWork DEF JobLocals, Live
  <2>3. docs[d].status \in Working
    BY <2>1, <2>2 DEF Fits, StatusFits, Working
  <2>4. Indexed(d)'
    BY <2>1, <2>3 DEF Indexed, Working
  <2>5. CASE step \in FailureSteps
    <3>1. StatusFits(step, d)'
      BY <2>1, <2>3, <2>5 DEF StatusFits, FailureSteps, Stages
    <3> QED
      BY <1>2, <2>4, <2>5, <3>1
         DEF Fits, StoresFit, FailureSteps, Stages, Early, Lining, Stored, Complete
  <2>6. CASE <<job[j].step, step>> \in
               {<<"lines", "lined">>, <<"insert", "inserted">>, <<"upsert", "persisted">>}
    <3>1. StatusFits(step, d)'
      BY <2>1, <2>6 DEF Fits, StatusFits, FailureSteps, Stages
    <3>2. step \notin FailureSteps
      BY <2>6 DEF FailureSteps
    <3>3. StoresFit(locals, j, d)'
      BY <1>1, <1>2, <1>3, <3>2
    <3>4. job[j].scope = docs[d].scope
      BY <2>1, <2>6 DEF Fits, Stages
    <3>5. step \in {"embedded", "persist", "insert"} \cup Stored => job[j].got = "all"
      BY <2>1, <2>6 DEF Fits, Stored
    <3> QED
      BY <1>2, <2>1, <2>4, <3>1, <3>3, <3>4, <3>5 DEF Fits
  <2> QED
    BY <1>1, <1>3, <2>5, <2>6
<1>4. Kept(d)' = Kept(d)
  BY DEF Kept, Exists, Overtaken
<1> QED
  BY <1>1, <1>2, <1>3, <1>4, JobInStep

LEMMA InsertLinesInStep ==
  ASSUME IndexInv, NEW j \in Jobs, InsertLines(j)
  PROVE  \A e \in Documents : InStep(e)'
<1>1. /\ job[j].step = "lines" /\ Live(j) /\ UNCHANGED <<docs, chunks, vectors, request>>
      /\ {"lined", "drop_chunks"} \subseteq Stages \cup FailureSteps
      /\ "drop_chunks" \in FailureSteps
  BY DEF InsertLines, At, Live, Stages, FailureSteps
<1>2. PICK d \in Documents : d = job[j].doc
  BY <1>1, AtWork
<1>3. CASE Fail(j) /\ UNCHANGED lines
  <2>1. \A e \in Documents : SamePlace(e)
    BY <1>1, <1>3 DEF SamePlace, Rows
  <2> QED
    BY <1>1, <1>2, <1>3, <2>1, StoresInStep DEF Fail
<1>4. CASE Rows(lines, d) = {} /\ lines' = lines \cup {Row(d, j)} /\ Go(j, "lined")
  <2>1. Row(d, j).doc = d
    BY DEF Row
  <2>2. Rows(lines, d)' = {Row(d, j)} /\ \A e \in Documents : e # d => SamePlace(e)
    <3>1. Rows(lines', d) = {Row(d, j)} /\ \A e : e # d => Rows(lines', e) = Rows(lines, e)
      BY <1>4, <2>1, RowsMore
    <3> QED
      BY <1>1, <3>1 DEF SamePlace, Rows
  <2>3. ASSUME Kept(d)
        PROVE  \A locals : locals.step = "lined" => StoresFit(locals, j, d)'
    <3>1. Fits(job[j], j, d)
      BY <1>1, <1>2, <2>3, AtWork
    <3>2. Rows(chunks, d) = {} /\ Rows(vectors, d) = {}
      BY <1>1, <3>1 DEF Fits, StoresFit, Early, Blank
    <3>3. Rows(chunks, d)' = {} /\ Rows(vectors, d)' = {}
      BY <1>1, <3>2 DEF Rows
    <3> QED
      BY <2>2, <3>3 DEF StoresFit, Early, Stored, Complete
  <2> QED
    BY <1>1, <1>2, <1>4, <2>2, <2>3, StoresInStep
<1> QED
  BY <1>1, <1>2, <1>3, <1>4 DEF InsertLines, Row

LEMMA InsertChunksInStep ==
  ASSUME IndexInv, NEW j \in Jobs, InsertChunks(j)
  PROVE  \A e \in Documents : InStep(e)'
<1>1. /\ job[j].step = "insert" /\ Live(j) /\ UNCHANGED <<docs, lines, vectors, request>>
      /\ {"inserted", "drop_chunks"} \subseteq Stages \cup FailureSteps
      /\ "drop_chunks" \in FailureSteps
  BY DEF InsertChunks, At, Live, Stages, FailureSteps
<1>2. PICK d \in Documents : d = job[j].doc
  BY <1>1, AtWork
<1>3. CASE Fail(j) /\ UNCHANGED chunks
  <2>1. \A e \in Documents : SamePlace(e)
    BY <1>1, <1>3 DEF SamePlace, Rows
  <2> QED
    BY <1>1, <1>2, <1>3, <2>1, StoresInStep DEF Fail
<1>4. CASE Go(j, "inserted")
  <2>1. PICK x : x = [doc |-> d, job |-> j, whole |-> job[j].got = "all"]
    OBVIOUS
  <2>2. chunks' = chunks \/ (chunks' = chunks \cup {x} /\ Rows(chunks, d) = {})
    BY <1>2, <2>1 DEF InsertChunks
  <2>3. x.doc = d /\ (job[j].got = "all" => x = Row(d, j))
    BY <2>1 DEF Row
  <2>4. \A e \in Documents : e # d => SamePlace(e)
    <3>1. \A e : e # d => Rows(chunks', e) = Rows(chunks, e)
      BY <2>2, <2>3 DEF Rows
    <3> QED
      BY <1>1, <3>1 DEF SamePlace, Rows
  <2>5. ASSUME Kept(d)
        PROVE  \A locals : locals.step = "inserted" => StoresFit(locals, j, d)'
    <3>1. Fits(job[j], j, d)
      BY <1>1, <1>2, <2>5, AtWork
    <3>2. Rows(lines, d) = {Row(d, j)} /\ Rows(vectors, d) = {} /\ job[j].got = "all"
      BY <1>1, <3>1 DEF Fits, StoresFit, Lining
    <3>3. Rows(lines, d)' = {Row(d, j)} /\ Rows(vectors, d)' = {}
      BY <1>1, <3>2 DEF Rows
    <3>4. chunks' = chunks \cup {Row(d, j)} /\ Rows(chunks, d) = {}
      <4>2. job[j].step # "inserted" /\ job'[j].step = "inserted"
        BY <1>1, <1>4 DEF Go, IndexInv, Inv, TypeOK
      <4>3. Fail(j) => job'[j].step = "drop_chunks"
        BY DEF Fail, Go, IndexInv, Inv, TypeOK
      <4> QED
        BY <1>2, <2>3, <3>2, <4>2, <4>3 DEF InsertChunks, Row
    <3>5. Row(d, j).doc = d
      BY DEF Row
    <3>6. Rows(chunks', d) = {Row(d, j)}
      BY <3>4, <3>5 DEF Rows
    <3> QED
      BY <3>3, <3>6 DEF StoresFit, Early, Lining, Stored, Complete, Rows
  <2> QED
    BY <1>1, <1>2, <1>4, <2>4, <2>5, StoresInStep
<1> QED
  BY <1>1, <1>3, <1>4 DEF InsertChunks

LEMMA UpsertInStep ==
  ASSUME IndexInv, NEW j \in Jobs, Upsert(j) \/ UpsertFails(j)
  PROVE  \A e \in Documents : InStep(e)'
<1>1. /\ job[j].step = "upsert" /\ Live(j) /\ UNCHANGED <<docs, chunks, lines, request>>
      /\ {"persisted", "drop_chunks"} \subseteq Stages \cup FailureSteps
      /\ "drop_chunks" \in FailureSteps
  BY DEF Upsert, UpsertFails, At, Live, Stages, FailureSteps
<1>2. PICK d \in Documents : d = job[j].doc
  BY <1>1, AtWork
<1>3. \A v \in NewPoints(j) : v.doc = d
  <2>1. PICK x : x = [doc |-> d, job |-> j, whole |-> job[j].got = "all", scope |-> job[j].scope]
    OBVIOUS
  <2>2. x.doc = d
    BY <2>1
  <2> QED
    BY <1>2, <2>1, <2>2 DEF NewPoints
<1>4. \A e \in Documents : e # d => SamePlace(e)
  <2>1. vectors' \in {vectors, vectors \cup NewPoints(j)}
    BY DEF Upsert, UpsertFails
  <2>2. \A e : e # d => Rows(vectors', e) = Rows(vectors, e)
    BY <1>3, <2>1 DEF Rows
  <2> QED
    BY <1>1, <2>2 DEF SamePlace, Rows
<1>5. CASE Fail(j)
  BY <1>1, <1>2, <1>4, <1>5, StoresInStep DEF Fail
<1>6. CASE Upsert(j)
  <2>1. ASSUME Kept(d), NEW locals, locals.step = "persisted", locals.scope = job[j].scope
        PROVE  StoresFit(locals, j, d)'
    <3>1. Fits(job[j], j, d)
      BY <1>1, <1>2, <2>1, AtWork
    <3>2. /\ Rows(lines, d) = {Row(d, j)} /\ Rows(chunks, d) = {Row(d, j)}
          /\ Rows(vectors, d) = {} /\ job[j].got = "all"
      BY <1>1, <3>1 DEF Fits, StoresFit, Stored
    <3>3. vectors' = vectors \cup {Point(d, j, locals.scope)}
      BY <1>2, <1>6, <2>1, <3>2 DEF Upsert, NewPoints, Point
    <3>4. Point(d, j, locals.scope).doc = d
      BY DEF Point
    <3>5. Rows(vectors', d) = {Point(d, j, locals.scope)}
      BY <3>2, <3>3, <3>4 DEF Rows
    <3>6. BuiltAs(d, j, locals.scope)'
      BY <1>1, <3>2, <3>5 DEF BuiltAs, Rows
    <3> QED
      BY <2>1, <3>6 DEF StoresFit, Early, Lining, Stored
  <2> QED
    BY <1>1, <1>2, <1>4, <1>6, <2>1, StoresInStep DEF Upsert
<1> QED
  BY <1>5, <1>6 DEF UpsertFails

LEMMA DropsInStep ==
  ASSUME IndexInv, NEW j \in Jobs, DropChunks(j) \/ DropLines(j) \/ DropVectors(j)
  PROVE  \A e \in Documents : InStep(e)'
<1>1. /\ Live(j) /\ job[j].step # "succeed" /\ UNCHANGED <<docs, request>>
      /\ {"drop_lines", "drop_vectors", "fail"} \subseteq FailureSteps
  BY DEF DropChunks, DropLines, DropVectors, At, Live, FailureSteps
<1>2. PICK d \in Documents : d = job[j].doc
  BY <1>1, AtWork
<1>3. \A e \in Documents : e # d => SamePlace(e)
  BY <1>2, RowsLess DEF DropChunks, DropLines, DropVectors, SamePlace, Rows
<1>4. PICK step \in FailureSteps : Go(j, step)
  BY <1>1 DEF DropChunks, DropLines, DropVectors
<1> QED
  BY <1>1, <1>2, <1>3, <1>4, StoresInStep

LEMMA JobsInStep ==
  ASSUME IndexInv, NEW j \in Jobs, JobStep(j) \/ JobFault(j)
  PROVE  \A e \in Documents : InStep(e)'
<1>1. CASE JobStep(j)
  BY <1>1, StartInStep, ParseInStep, EmbedInStep, LooksInStep, FindsInStep, FailRunInStep,
     StopsInStep, MarksInStep, MarkFailedInStep, InsertLinesInStep, InsertChunksInStep,
     UpsertInStep, DropsInStep
     DEF JobStep
<1>2. CASE JobFault(j)
  BY <1>2, StopsInStep, UpsertInStep DEF JobFault
<1> QED
  BY <1>1, <1>2

----------------------------------------------------------------------------
(* A step of a request and the document it is about *)

\* A request leaves alone the documents it is not about.
LEMMA OthersInStep ==
  ASSUME IndexInv, NEW d, NEW r \in Requests, NEW locals, request' = [request EXCEPT ![r] = locals],
         request[r].step \in {"idle", "insert"} \/ request[r].doc = d,
         locals.step \in {"idle", "insert"} \/ locals.doc = d, UNCHANGED job,
         NEW e \in Documents, e # d, SamePlace(e)
  PROVE  InStep(e)'
<1>1. request'[r] = locals /\ \A s \in Requests : s # r => request'[s] = request[s]
  BY DEF IndexInv, Inv, TypeOK
<1>2. "idle" \notin Rewriting \cup Withdrawing \cup {"promote_vectors"}
      /\ "insert" \notin Rewriting \cup Withdrawing \cup {"promote_vectors"}
  BY DEF Rewriting, Withdrawing
<1>3. ASSUME NEW s \in Requests, NEW steps,
             steps \in {Rewriting, Withdrawing, {"promote_vectors"}}
      PROVE  /\ request'[s].doc = e /\ request'[s].step \in steps <=>
                  request[s].doc = e /\ request[s].step \in steps
             /\ request'[s].doc = e /\ request'[s].step \in steps =>
                  request'[s].step = request[s].step
  <2>1. CASE s = r
    <3>1. ~(request'[r].doc = e /\ request'[r].step \in steps)
      BY <1>1, <1>2, <1>3
    <3>2. ~(request[r].doc = e /\ request[r].step \in steps)
      BY <1>2, <1>3
    <3> QED
      BY <2>1, <3>1, <3>2
  <2>2. CASE s # r
    BY <1>1, <2>2
  <2> QED
    BY <2>1, <2>2
<1>4. /\ Writers(e)' \subseteq Writers(e)
      /\ \A s \in Writers(e)' : request'[s].step = request[s].step
  BY <1>3 DEF Writers
<1>5. Withdrawn(e) => Withdrawn(e)'
  BY <1>3 DEF Withdrawn, SamePlace
<1>6. Disturbed(e) => Disturbed(e)'
  <2>1. (\E s \in Requests : request[s].doc = e /\ request[s].step \in {"promote_vectors"}) =>
        \E s \in Requests : request'[s].doc = e /\ request'[s].step \in {"promote_vectors"}
    BY <1>3
  <2> QED
    BY <1>5, <2>1 DEF Disturbed
<1>7. LiveJobs(e)' = LiveJobs(e)
  BY DEF LiveJobs, Live
<1> QED
  BY <1>4, <1>5, <1>6, <1>7, SamePlaceAlike, ApartInStep DEF IndexInv, SameHands

\* A request that nothing depends on comes, or leaves: what its documents keep of it is trouble.
LEMMA PassesInStep ==
  ASSUME IndexInv, NEW r \in Requests, NEW locals, request' = [request EXCEPT ![r] = locals],
         UNCHANGED <<index, job>>, locals.step \notin Rewriting,
         \A e \in Documents : Alike(e) /\ docs[e].trouble \subseteq docs'[e].trouble,
         request[r].step \in Withdrawing \cup {"promote_vectors"} =>
           "halfway" \in docs'[request[r].doc].trouble
  PROVE  \A e \in Documents : InStep(e)'
<1>1. request'[r] = locals /\ \A s \in Requests : s # r => request'[s] = request[s]
  BY DEF IndexInv, Inv, TypeOK
<1> SUFFICES ASSUME NEW e \in Documents PROVE InStep(e)'
  OBVIOUS
<1>2. LiveJobs(e)' = LiveJobs(e)
  BY DEF LiveJobs, Live
<1>3. /\ Writers(e)' \subseteq Writers(e)
      /\ \A s \in Writers(e)' : request'[s].step = request[s].step
  BY <1>1 DEF Writers
<1>4. Withdrawn(e) => Withdrawn(e)'
  BY <1>1 DEF Withdrawn
<1>5. Disturbed(e) => Disturbed(e)'
  BY <1>1, <1>4 DEF Disturbed, Withdrawn
<1> QED
  BY <1>2, <1>3, <1>4, <1>5, ApartInStep DEF IndexInv, SameHands

LEMMA TroubledAlike ==
  ASSUME IndexInv, NEW d \in Documents, NEW trouble \in {"halfway", "unqueued"},
         Troubled(d, trouble), UNCHANGED index
  PROVE  /\ \A e \in Documents : Alike(e) /\ docs[e].trouble \subseteq docs'[e].trouble
         /\ trouble \in docs'[d].trouble
<1>1. /\ docs'[d].status = docs[d].status /\ docs'[d].deleted = docs[d].deleted
      /\ docs'[d].scope = docs[d].scope /\ docs'[d].trouble = docs[d].trouble \cup {trouble}
      /\ \A e \in Documents : e # d => docs'[e] = docs[e]
  BY DocTypes DEF IndexInv, Inv, TypeOK, Troubled, DocumentRows
<1> QED
  BY <1>1 DEF Alike, Overtaken, index, Rows

\* The request that writes to a document goes on, or is done.
LEMMA WriterInStep ==
  ASSUME IndexInv, NEW d \in Documents, NEW r \in Requests, r \in Writers(d),
         NEW locals, request' = [request EXCEPT ![r] = locals],
         locals.step \in {"idle", "insert"} \/ locals.doc = d, UNCHANGED job,
         \A e \in Documents : e # d => SamePlace(e),
         Kept(d)' =>
           /\ Kept(d) /\ Indexed(d)'
           /\ locals.step \in Rewriting => Prepared(locals.step, d)'
  PROVE  \A e \in Documents : InStep(e)'
<1>1. request'[r] = locals /\ \A s \in Requests : s # r => request'[s] = request[s]
  BY DEF IndexInv, Inv, TypeOK
<1>2. request[r].doc = d
  BY DEF Writers
<1>3. ASSUME Kept(d)'
      PROVE  InStep(d)'
  <2>1. Sole(d)
    BY <1>3 DEF IndexInv, InStep
  <2>2. LiveJobs(d)' = {}
    BY <2>1 DEF Sole, LiveJobs, Live
  <2>3. \A s \in Writers(d)' : s = r
    BY <1>1, <2>1 DEF Sole, Writers
  <2>4. Sole(d)'
    BY <2>2, <2>3 DEF Sole
  <2>5. \A s \in Writers(d)' : Prepared(request[s].step, d)'
    <3> SUFFICES ASSUME r \in Writers(d)' PROVE Prepared(request[r].step, d)'
      BY <2>3
    <3>1. locals.step \in Rewriting
      BY <1>1 DEF Writers
    <3>2. Prepared(locals.step, d)'
      BY <1>3, <3>1
    <3> QED
      BY <1>1, <3>2
  <2> QED
    BY <1>3, <2>2, <2>4, <2>5 DEF InStep
<1> QED
  BY <1>2, <1>3, OthersInStep DEF InStep

\* What is known of a request that writes to its document.
LEMMA Writing ==
  ASSUME IndexInv, NEW r \in Requests, request[r].step \in Rewriting
  PROVE  /\ request[r].doc \in Documents /\ r \in Writers(request[r].doc)
         /\ docs[request[r].doc].status # "none"
         /\ Kept(request[r].doc) =>
              /\ Prepared(request[r].step, request[r].doc) /\ Indexed(request[r].doc)
              /\ LiveJobs(request[r].doc) = {}
<1>1. request[r].doc \in Documents
  BY DEF IndexInv, Inv, Known, RequestsNamed, Rewriting
<1>2. r \in Writers(request[r].doc)
  BY DEF Writers
<1> QED
  BY <1>1, <1>2, InHand DEF IndexInv, InStep, Sole

LEMMA ThenLocals ==
  ASSUME IndexInv, NEW r \in Requests, NEW step \in RequestSteps, Then(r, step)
  PROVE  \E locals : /\ request' = [request EXCEPT ![r] = locals]
                     /\ locals.step = step /\ locals.doc = request[r].doc
<1>1. PICK locals : locals = [request[r] EXCEPT !.step = step]
  OBVIOUS
<1>2. locals.step = step /\ locals.doc = request[r].doc
  BY <1>1, RequestTypes, RequestStepLocals DEF IndexInv, Inv
<1> QED
  BY <1>1, <1>2 DEF Then

\* Reindexing and promotion come to a document that nobody is working on.
LEMMA IdleInStep ==
  ASSUME IndexInv, NEW r \in Requests, NEW d \in Documents, request[r] = NoRequest, Idle(d),
         NEW step \in {"reindex", "write_scope"}, Handle(r, step, d), UNCHANGED <<docs, index, job>>
  PROVE  \A e \in Documents : InStep(e)'
<1>1. PICK locals : locals = [NoRequest EXCEPT !.step = step, !.doc = d]
  OBVIOUS
<1>2. locals.step = step /\ locals.doc = d /\ request' = [request EXCEPT ![r] = locals]
  BY <1>1 DEF NoRequest, Handle
<1>3. request[r].step = "idle"
  BY NothingLocals
<1>4. request'[r] = locals /\ \A s \in Requests : s # r => request'[s] = request[s]
  BY <1>2 DEF IndexInv, Inv, TypeOK
<1>5. \A e : SamePlace(e)
  BY DEF SamePlace, index, Rows
<1>6. ASSUME Kept(d)'
      PROVE  InStep(d)'
  <2>1. LiveJobs(d)' = {} /\ \A s \in Writers(d)' : s = r
    BY <1>4 DEF Idle, LiveJobs, Live, Writers
  <2>2. Sole(d)'
    BY <2>1 DEF Sole
  <2>3. Prepared(step, d)'
    BY DEF Prepared, Unqueued
  <2>4. \A s \in Writers(d)' : Prepared(request[s].step, d)'
    BY <1>2, <1>4, <2>1, <2>3
  <2>5. Withdrawn(d) => Withdrawn(d)'
    BY DEF Idle, Withdrawn
  <2>6. Disturbed(d) => Disturbed(d)'
    BY <2>5 DEF Idle, Disturbed
  <2>7. Kept(d) /\ Indexed(d)'
    BY <1>5, <1>6, <2>5, <2>6, SamePlaceAlike, AlikeFits DEF IndexInv, InStep
  <2> QED
    BY <2>1, <2>2, <2>4, <2>7 DEF InStep
<1> QED
  BY <1>2, <1>3, <1>5, <1>6, OthersInStep DEF InStep

\* To one that somebody works on, and of which nothing is said any more.
LEMMA OvertakesInStep ==
  ASSUME IndexInv, NEW r \in Requests, NEW d \in Documents, request[r] = NoRequest,
         NEW step, Handle(r, step, d), Troubled(d, "overtaken"), UNCHANGED <<index, job>>
  PROVE  \A e \in Documents : InStep(e)'
<1>1. PICK locals : locals = [NoRequest EXCEPT !.step = step, !.doc = d]
  OBVIOUS
<1>2. locals.doc = d /\ request' = [request EXCEPT ![r] = locals]
  BY <1>1 DEF NoRequest, Handle
<1>3. request[r].step = "idle"
  BY NothingLocals
<1>4. "overtaken" \in docs'[d].trouble /\ \A e \in Documents : e # d => docs'[e] = docs[e]
  BY DocTypes DEF IndexInv, Inv, TypeOK, Troubled, DocumentRows
<1>5. \A e \in Documents : e # d => SamePlace(e)
  BY <1>4 DEF SamePlace, index, Rows
<1>6. InStep(d)'
  BY <1>4 DEF InStep, Kept, Overtaken
<1> QED
  BY <1>2, <1>3, <1>5, <1>6, OthersInStep

LEMMA ComesInStep ==
  ASSUME IndexInv, NEW r \in Requests, RequestComes(r)
  PROVE  \A e \in Documents : InStep(e)'
<1>1. CASE Create(r)
  <2>1. PICK f : request' = [request EXCEPT ![r] = [NoRequest EXCEPT !.step = "insert", !.file = f]]
    BY <1>1 DEF Create
  <2>2. PICK locals : locals = [NoRequest EXCEPT !.step = "insert", !.file = f]
    OBVIOUS
  <2>3. locals.step \notin Rewriting
    BY <2>2 DEF NoRequest, Rewriting
  <2>4. request[r].step \notin Withdrawing \cup {"promote_vectors"}
    BY <1>1, NothingLocals DEF Create, Withdrawing
  <2>5. \A e \in Documents : Alike(e) /\ docs'[e] = docs[e]
    BY <1>1, SamePlaceAlike DEF Create, SamePlace, index, Rows
  <2> QED
    BY <1>1, <2>1, <2>2, <2>3, <2>4, <2>5, PassesInStep DEF Create
<1>2. ASSUME NEW d \in Documents, Delete(r, d)
      PROVE  \A e \in Documents : InStep(e)'
  <2>1. PICK locals : locals = [NoRequest EXCEPT !.step = "delete", !.doc = d]
    OBVIOUS
  <2>2. locals.step \notin Rewriting
    BY <2>1 DEF NoRequest, Rewriting
  <2>3. request[r].step \notin Withdrawing \cup {"promote_vectors"}
    BY <1>2, NothingLocals DEF Delete, Withdrawing
  <2>4. \A e \in Documents : Alike(e) /\ docs'[e] = docs[e]
    BY <1>2, SamePlaceAlike DEF Delete, SamePlace, index, Rows
  <2> QED
    BY <1>2, <2>1, <2>2, <2>3, <2>4, PassesInStep DEF Delete, Handle
<1>3. ASSUME NEW d \in Documents, Reindex(r, d) \/ Promote(r, d)
      PROVE  \A e \in Documents : InStep(e)'
  <2>1. PICK step \in {"reindex", "write_scope"} : Handle(r, step, d)
    BY <1>3 DEF Reindex, Promote
  <2>2. request[r] = NoRequest /\ Overtakes(d) /\ UNCHANGED <<index, job>>
    BY <1>3 DEF Reindex, Promote
  <2> QED
    BY <2>1, <2>2, IdleInStep, OvertakesInStep DEF Overtakes
<1> QED
  BY <1>1, <1>2, <1>3 DEF RequestComes

\* A request that stops: what it leaves half done is remembered.
LEMMA FailsAlike ==
  ASSUME IndexInv, NEW r \in Requests, RequestFails(r)
  PROVE  /\ \A e \in Documents : Alike(e) /\ docs[e].trouble \subseteq docs'[e].trouble
         /\ request[r].step \in Withdrawing \cup {"promote_vectors"} =>
              "halfway" \in docs'[request[r].doc].trouble
<1>1. /\ Unqueued \cap (Withdrawing \cup {"promote_vectors"}) = {}
      /\ {"idle", "insert"} \cap (Unqueued \cup Withdrawing \cup {"promote_vectors"}) = {}
  BY DEF Unqueued, Withdrawing
<1>2. \/ /\ request[r].step \notin Withdrawing \cup {"promote_vectors"}
         /\ UNCHANGED docs
      \/ /\ request[r].step \in Unqueued
         /\ Troubled(request[r].doc, "unqueued")
      \/ /\ request[r].step \in Withdrawing \cup {"promote_vectors"}
         /\ Troubled(request[r].doc, "halfway")
  BY DEF RequestFails
<1>3. UNCHANGED index
  BY DEF RequestFails
<1>4. CASE UNCHANGED docs /\ request[r].step \notin Withdrawing \cup {"promote_vectors"}
  <2>1. \A e : SamePlace(e)
    BY <1>3, <1>4 DEF SamePlace, index, Rows
  <2> QED
    BY <1>4, <2>1, SamePlaceAlike
<1>5. CASE request[r].step \in Unqueued \cup Withdrawing \cup {"promote_vectors"}
  <2>1. request[r].doc \in Documents
    BY <1>1, <1>5 DEF IndexInv, Inv, Known, RequestsNamed
  <2> QED
    BY <1>1, <1>2, <1>3, <1>4, <2>1, TroubledAlike
<1> QED
  BY <1>2, <1>4, <1>5

LEMMA FailsInStep ==
  ASSUME IndexInv, NEW r \in Requests, RequestFails(r)
  PROVE  \A e \in Documents : InStep(e)'
<1>1. NoRequest.step \notin Rewriting
  BY NothingLocals DEF Rewriting
<1> QED
  BY <1>1, FailsAlike, PassesInStep DEF RequestFails, Answer

\* FindText and FindReset: the document is still there, or the request is answered.
LEMMA FindsDocumentInStep ==
  ASSUME IndexInv, NEW r \in Requests, FindText(r) \/ FindReset(r)
  PROVE  \A e \in Documents : InStep(e)'
<1>1. /\ request[r].step \in {"set_text", "reset"} /\ UNCHANGED <<docs, index, job>>
      /\ {"set_text", "reset", "write_text", "write_reset"} \subseteq Rewriting
      /\ {"write_text", "write_reset"} \subseteq RequestSteps
  BY DEF FindText, FindReset, Rewriting, RequestSteps, Withdrawing
<1>2. PICK d \in Documents : d = request[r].doc /\ r \in Writers(d)
  BY <1>1, Writing
<1>3. \A e : SamePlace(e) /\ Kept(e)' = Kept(e)
  BY <1>1 DEF SamePlace, index, Rows, Kept, Exists, Overtaken
<1>4. CASE Kept(d)
  <2>1. PICK step \in {"write_text", "write_reset"} :
          /\ Then(r, step)
          /\ request[r].step = IF step = "write_text" THEN "set_text" ELSE "reset"
    BY <1>2, <1>4 DEF FindText, FindReset, Kept
  <2>2. PICK locals : /\ request' = [request EXCEPT ![r] = locals]
                      /\ locals.step = step /\ locals.doc = d
    BY <1>1, <1>2, <2>1, ThenLocals
  <2>3. Prepared(request[r].step, d) /\ Indexed(d)
    BY <1>1, <1>2, <1>4, Writing
  <2>4. Prepared(step, d)
    BY <2>1, <2>3 DEF Prepared, Unqueued
  <2>5. CASE step = "write_text"
    <3>1. docs[d].status \in Working /\ docs'[d] = docs[d]
      BY <1>1, <2>4, <2>5 DEF Prepared, Unqueued
    <3>2. Indexed(d)'
      BY <3>1 DEF Indexed, Working
    <3>3. Prepared(step, d)'
      BY <1>3, <2>4 DEF Prepared, SamePlace, Blank
    <3> QED
      BY <1>1, <1>2, <1>3, <2>2, <3>2, <3>3, <1>4, WriterInStep
  <2>6. CASE step = "write_reset"
    <3>1. request'[r] = locals /\ \A s \in Requests : s # r => request'[s] = request[s]
      BY <2>2 DEF IndexInv, Inv, TypeOK
    <3>2. Withdrawn(d)'
      BY <2>2, <2>6, <3>1 DEF Withdrawn, Withdrawing
    <3>3. Disturbed(d)'
      BY <3>2 DEF Disturbed
    <3>4. Indexed(d)' /\ Prepared(step, d)'
      BY <1>3, <2>3, <2>4, <3>2, <3>3, SamePlaceAlike, AlikeFits
    <3> QED
      BY <1>1, <1>2, <1>3, <2>2, <3>4, <1>4, WriterInStep
  <2> QED
    BY <2>5, <2>6
<1>5. CASE ~Kept(d)
  <2>1. PICK locals : /\ request' = [request EXCEPT ![r] = locals]
                      /\ locals.step = "idle" \/ locals.doc = d
    <3>1. CASE Answer(r)
      BY <3>1, NothingLocals DEF Answer
    <3>2. CASE Then(r, "write_text") \/ Then(r, "write_reset")
      BY <1>1, <1>2, <3>2, ThenLocals
    <3> QED
      BY <3>1, <3>2 DEF FindText, FindReset
  <2> QED
    BY <1>1, <1>2, <1>3, <1>5, <2>1, WriterInStep
<1> QED
  BY <1>4, <1>5

LEMMA WaitsForJob ==
  ASSUME IndexInv, NEW r \in Requests, WriteText(r) \/ WriteReset(r),
         NEW d \in Documents, d = request[r].doc
  PROVE  /\ docs'[d].status = IF request[r].step = "write_text" THEN "indexing" ELSE "pending"
         /\ docs'[d].status \in Working
         /\ docs'[d].deleted = docs[d].deleted /\ Overtaken(d)' = Overtaken(d)
         /\ \A e \in Documents : e # d => docs'[e] = docs[e]
<1>1. CASE WriteText(r)
  BY <1>1, StatusWritten DEF WriteText, Working, Overtaken
<1>2. CASE WriteReset(r)
  <2>1. /\ docs' = [docs EXCEPT ![d].status = "pending", ![d].trouble = @ \ {"halfway"}]
        /\ request[r].step = "write_reset"
    BY <1>2 DEF WriteReset
  <2>2. PICK pending : pending = [docs[d] EXCEPT !.status = "pending"]
    OBVIOUS
  <2>3. PICK row : row = [pending EXCEPT !.trouble = docs[d].trouble \ {"halfway"}]
    OBVIOUS
  <2>4. pending \in DocumentRows /\ pending.status = "pending" /\ pending.deleted = docs[d].deleted
    BY <2>2, DocTypes DEF IndexInv, Inv, DocumentRows, Working
  <2>5. /\ row.status = "pending" /\ row.deleted = docs[d].deleted
        /\ row.trouble = docs[d].trouble \ {"halfway"}
    BY <2>3, <2>4 DEF DocumentRows
  <2>6. docs'[d] = row /\ \A e \in Documents : e # d => docs'[e] = docs[e]
    BY <2>1, <2>2, <2>3, DocTypes DEF IndexInv, Inv, TypeOK, DocumentRows
  <2>7. Overtaken(d)' = Overtaken(d)
    BY <2>5, <2>6 DEF Overtaken
  <2> QED
    BY <2>1, <2>5, <2>6, <2>7 DEF Working
<1> QED
  BY <1>1, <1>2

\* WriteText and WriteReset: a document that has nothing in the stores waits for a job.
LEMMA WritesInStep ==
  ASSUME IndexInv, NEW r \in Requests, WriteText(r) \/ WriteReset(r)
  PROVE  \A e \in Documents : InStep(e)'
<1>1. /\ request[r].step \in {"write_text", "write_reset"} /\ UNCHANGED <<index, job>>
      /\ {"write_text", "write_reset", "enqueue"} \subseteq Rewriting
      /\ "enqueue" \in RequestSteps /\ Then(r, "enqueue")
  BY DEF WriteText, WriteReset, Rewriting, RequestSteps
<1>2. PICK d \in Documents : d = request[r].doc /\ r \in Writers(d) /\ docs[d].status # "none"
  BY <1>1, Writing
<1>4. /\ docs'[d].status \in Working /\ docs'[d].deleted = docs[d].deleted
      /\ Overtaken(d)' = Overtaken(d) /\ \A e \in Documents : e # d => docs'[e] = docs[e]
  BY <1>2, WaitsForJob
<1>5. PICK locals : /\ request' = [request EXCEPT ![r] = locals]
                    /\ locals.step = "enqueue" /\ locals.doc = d
  BY <1>1, <1>2, ThenLocals
<1>6. \A e \in Documents : e # d => SamePlace(e)
  BY <1>1, <1>4 DEF SamePlace, index, Rows
<1>7. ASSUME Kept(d)'
      PROVE  Kept(d) /\ Indexed(d)' /\ Prepared("enqueue", d)'
  <2>1. Kept(d)
    BY <1>2, <1>4, <1>7 DEF Kept, Exists
  <2>2. Prepared(request[r].step, d)
    BY <1>1, <1>2, <2>1, Writing
  <2>3. Blank(d)
    BY <1>1, <2>2 DEF Prepared, Unqueued, Blank
  <2>4. Blank(d)'
    BY <1>1, <2>3 DEF Blank, index, Rows
  <2> QED
    BY <1>4, <2>1, <2>4 DEF Indexed, Prepared, Working
<1> QED
  BY <1>1, <1>2, <1>5, <1>6, <1>7, WriterInStep

\* ClearChunks and ClearLines: nobody else fills the stores meanwhile.
LEMMA ClearsInStep ==
  ASSUME IndexInv, NEW r \in Requests, ClearChunks(r) \/ ClearLines(r)
  PROVE  \A e \in Documents : InStep(e)'
<1>1. /\ request[r].step \in {"clear_chunks", "clear_lines"} /\ UNCHANGED <<docs, vectors, job>>
      /\ {"clear_chunks", "clear_lines", "reset"} \subseteq Rewriting
      /\ {"clear_lines", "reset"} \subseteq RequestSteps \cap Withdrawing
  BY DEF ClearChunks, ClearLines, Rewriting, RequestSteps, Withdrawing
<1>2. PICK d \in Documents : d = request[r].doc /\ r \in Writers(d)
  BY <1>1, Writing
<1>3. PICK step \in {"clear_lines", "reset"} :
        /\ Then(r, step)
        /\ step = "clear_lines" => /\ request[r].step = "clear_chunks" /\ lines' = lines
                                   /\ chunks' = chunks \ Rows(chunks, d)
        /\ step = "reset" => /\ request[r].step = "clear_lines" /\ chunks' = chunks
                             /\ lines' = lines \ Rows(lines, d)
  BY <1>2 DEF ClearChunks, ClearLines
<1>4. PICK locals : /\ request' = [request EXCEPT ![r] = locals]
                    /\ locals.step = step /\ locals.doc = d
  BY <1>1, <1>2, <1>3, ThenLocals
<1>5. request'[r] = locals
  BY <1>4 DEF IndexInv, Inv, TypeOK
<1>6. \A e \in Documents : e # d => SamePlace(e)
  BY <1>1, <1>3, RowsLess DEF SamePlace, Rows
<1>7. Withdrawn(d)' /\ Disturbed(d)'
  BY <1>1, <1>3, <1>4, <1>5 DEF Withdrawn, Disturbed
<1>8. ASSUME Kept(d)'
      PROVE  Kept(d) /\ Indexed(d)' /\ Prepared(step, d)'
  <2>1. Kept(d)
    BY <1>1, <1>8 DEF Kept, Exists, Overtaken
  <2>2. Prepared(request[r].step, d)
    BY <1>1, <1>2, <2>1, Writing
  <2>3. Rows(vectors', d) = {}
    BY <1>1, <2>2 DEF Prepared
  <2>4. Rows(chunks', d) = {} /\ (step = "reset" => Rows(lines', d) = {})
    BY <1>3, <2>2, RowsLess DEF Prepared
  <2>5. Prepared(step, d)'
    BY <2>3, <2>4 DEF Prepared, Unqueued, Rows
  <2>6. Indexed(d)'
    BY <1>7, <2>3 DEF Indexed, Rows
  <2> QED
    BY <2>1, <2>5, <2>6
<1> QED
  BY <1>1, <1>2, <1>4, <1>6, <1>8, WriterInStep

\* The first step of a reindexing and of a deletion: a job may be under way in the second.
LEMMA DeleteVectorsInStep ==
  ASSUME IndexInv, NEW r \in Requests, DeleteVectors(r)
  PROVE  \A e \in Documents : InStep(e)'
<1>1. PICK step \in {"clear_chunks", "delete_rows"} :
        /\ Then(r, step)
        /\ request[r].step = IF step = "clear_chunks" THEN "reindex" ELSE "delete"
  BY DEF DeleteVectors
<1>2. /\ UNCHANGED <<docs, chunks, lines, job>> /\ request[r].step \notin {"idle", "insert"}
      /\ step \in RequestSteps \cap Withdrawing
  BY <1>1 DEF DeleteVectors, RequestSteps, Withdrawing
<1>3. PICK d \in Documents : d = request[r].doc
  BY <1>2 DEF IndexInv, Inv, Known, RequestsNamed
<1>4. PICK locals : /\ request' = [request EXCEPT ![r] = locals]
                    /\ locals.step = step /\ locals.doc = d
  BY <1>1, <1>2, <1>3, ThenLocals
<1>5. request'[r] = locals /\ \A s \in Requests : s # r => request'[s] = request[s]
  BY <1>4 DEF IndexInv, Inv, TypeOK
<1>6. vectors' = vectors \ Rows(vectors, d)
  BY <1>3 DEF DeleteVectors
<1>7. \A e \in Documents : e # d => SamePlace(e)
  BY <1>2, <1>6, RowsLess DEF SamePlace, Rows
<1>8. Withdrawn(d)' /\ Disturbed(d)' /\ Rows(vectors, d)' = {} /\ Rows(vectors', d) = {}
  BY <1>2, <1>4, <1>5, <1>6, RowsLess DEF Withdrawn, Disturbed, Rows
<1>9. Indexed(d)'
  BY <1>8 DEF Indexed
<1>10. Kept(d)' = Kept(d)
  BY <1>2 DEF Kept, Exists, Overtaken
<1>11. CASE step = "clear_chunks"
  <2>1. request[r].step \in Rewriting
    BY <1>1, <1>11 DEF Rewriting
  <2>2. Prepared(step, d)'
    BY <1>8, <1>11 DEF Prepared, Unqueued
  <2> QED
    BY <1>2, <1>3, <1>4, <1>7, <1>9, <1>10, <2>1, <2>2, Writing, WriterInStep
<1>12. CASE step = "delete_rows"
  <2>1. ASSUME Kept(d)'
        PROVE  InStep(d)'
    <3>1. LiveJobs(d)' = LiveJobs(d) /\ \A j : job'[j] = job[j]
      BY <1>2 DEF LiveJobs, Live
    <3>2. /\ Writers(d)' \subseteq Writers(d)
          /\ \A s \in Writers(d)' : request'[s].step = request[s].step
      BY <1>4, <1>5, <1>12 DEF Writers, Rewriting
    <3>3. InStep(d) /\ Kept(d)
      BY <1>10, <2>1 DEF IndexInv
    <3>4. Sole(d)'
      BY <3>1, <3>2, <3>3 DEF InStep, Sole
    <3>5. docs'[d] = docs[d] /\ Rows(chunks, d)' = Rows(chunks, d) /\ Rows(lines, d)' = Rows(lines, d)
      BY <1>2 DEF Rows
    <3>6. ASSUME NEW locs, NEW j, Fits(locs, j, d)
          PROVE  Fits(locs, j, d)'
      <4>1. StatusFits(locs.step, d)'
        BY <3>5, <3>6 DEF Fits, StatusFits
      <4>2. StoresFit(locs, j, d)'
        BY <1>8, <3>5, <3>6 DEF Fits, StoresFit, Blank
      <4> QED
        BY <3>5, <3>6, <4>1, <4>2 DEF Fits
    <3>7. \A j \in LiveJobs(d)' : Fits(job[j], j, d)'
      <4> SUFFICES ASSUME NEW j \in LiveJobs(d) PROVE Fits(job[j], j, d)'
        BY <3>1
      <4>1. PICK locs : locs = job[j] /\ locs = job'[j]
        BY <3>1
      <4>2. Fits(locs, j, d)'
        BY <3>3, <3>6, <4>1 DEF InStep
      <4> QED
        BY <4>1, <4>2
    <3>8. \A s : Prepared(s, d) => Prepared(s, d)'
      BY <1>8, <3>5 DEF Prepared, Blank
    <3>9. \A s \in Writers(d)' : Prepared(request[s].step, d)'
      <4> SUFFICES ASSUME NEW s \in Writers(d)' PROVE Prepared(request[s].step, d)'
        OBVIOUS
      <4>1. PICK locs : locs = request[s].step /\ locs = request'[s].step /\ s \in Writers(d)
        BY <3>2
      <4>2. Prepared(locs, d)'
        BY <3>3, <3>8, <4>1 DEF InStep
      <4> QED
        BY <4>1, <4>2
    <3> QED
      BY <1>9, <3>4, <3>7, <3>9 DEF InStep
  <2> QED
    BY <1>2, <1>3, <1>4, <1>7, <2>1, OthersInStep DEF InStep
<1> QED
  BY <1>11, <1>12

LEMMA DeleteRowsInStep ==
  ASSUME IndexInv, NEW r \in Requests, DeleteRows(r)
  PROVE  \A e \in Documents : InStep(e)'
<1>1. request[r].step = "delete_rows" /\ UNCHANGED <<vectors, job>> /\ Answer(r)
  BY DEF DeleteRows
<1>2. PICK d \in Documents : d = request[r].doc
  BY <1>1 DEF IndexInv, Inv, Known, RequestsNamed
<1>3. /\ \A e \in Documents : e # d => docs'[e] = docs[e]
      /\ ~Kept(d)'
  <2>1. CASE ~Exists(d)
    BY <1>2, <2>1 DEF DeleteRows, Exists, Kept
  <2>2. CASE Exists(d)
    <3>1. docs' = [docs EXCEPT ![d].status = "deleted", ![d].deleted = TRUE]
      BY <1>2, <2>2 DEF DeleteRows
    <3> QED
      BY <3>1, DocTypes DEF IndexInv, Inv, TypeOK, Kept, Exists, DocumentRows
  <2> QED
    BY <2>1, <2>2
<1>4. \A e \in Documents : e # d => SamePlace(e)
  <2>1. \A e : e # d => Rows(chunks', e) = Rows(chunks, e) /\ Rows(lines', e) = Rows(lines, e)
    BY <1>2, RowsLess DEF DeleteRows
  <2> QED
    BY <1>1, <1>3, <2>1 DEF SamePlace, Rows
<1>5. NoRequest.step = "idle"
  BY NothingLocals
<1> QED
  BY <1>1, <1>2, <1>3, <1>4, <1>5, OthersInStep DEF Answer, InStep

\* A promotion writes the row first.
LEMMA WriteScopeInStep ==
  ASSUME IndexInv, NEW r \in Requests, WriteScope(r)
  PROVE  \A e \in Documents : InStep(e)'
<1>1. /\ request[r].step = "write_scope" /\ UNCHANGED <<index, job>> /\ Then(r, "promote_vectors")
      /\ {"write_scope", "promote_vectors"} \subseteq Rewriting
      /\ "promote_vectors" \in RequestSteps
  BY DEF WriteScope, Rewriting, RequestSteps
<1>2. PICK d \in Documents : d = request[r].doc /\ r \in Writers(d)
  BY <1>1, Writing
<1>3. /\ docs'[d].status = docs[d].status /\ docs'[d].deleted = docs[d].deleted
      /\ docs'[d].trouble = docs[d].trouble
      /\ \A e \in Documents : e # d => docs'[e] = docs[e]
  BY <1>2, DocTypes DEF WriteScope, IndexInv, Inv, TypeOK, DocumentRows
<1>4. PICK locals : /\ request' = [request EXCEPT ![r] = locals]
                    /\ locals.step = "promote_vectors" /\ locals.doc = d
  BY <1>1, <1>2, ThenLocals
<1>5. request'[r] = locals /\ \A s \in Requests : s # r => request'[s] = request[s]
  BY <1>4 DEF IndexInv, Inv, TypeOK
<1>6. \A e \in Documents : e # d => SamePlace(e)
  BY <1>1, <1>3 DEF SamePlace, index, Rows
<1>7. ASSUME Kept(d)'
      PROVE  Kept(d) /\ Indexed(d)' /\ Prepared("promote_vectors", d)'
  <2>1. Kept(d) /\ Indexed(d)
    BY <1>1, <1>2, <1>3, <1>7, Writing DEF Kept, Exists, Overtaken
  <2>2. Disturbed(d)' /\ (Withdrawn(d) => Withdrawn(d)')
    BY <1>1, <1>3, <1>4, <1>5 DEF Disturbed, Withdrawn, Withdrawing
  <2>3. Rows(vectors, d)' = Rows(vectors, d) /\ \A i, scope : BuiltAs(d, i, scope)' = BuiltAs(d, i, scope)
    BY <1>1 DEF index, BuiltAs, Rows
  <2> QED
    BY <1>3, <2>1, <2>2, <2>3 DEF Indexed, Prepared, Unqueued
<1> QED
  BY <1>1, <1>2, <1>4, <1>6, <1>7, WriterInStep

\* And the vectors next: what the stores have keeps its shape and gets the scope of the row.
LEMMA PromoteVectorsInStep ==
  ASSUME IndexInv, NEW r \in Requests, PromoteVectors(r)
  PROVE  \A e \in Documents : InStep(e)'
<1>1. /\ request[r].step = "promote_vectors" /\ UNCHANGED <<docs, chunks, lines, job>>
      /\ Answer(r) /\ "promote_vectors" \in Rewriting
  BY DEF PromoteVectors, Rewriting
<1>2. PICK d \in Documents : d = request[r].doc /\ r \in Writers(d)
  BY <1>1, Writing
<1>3. docs[d].scope = "tenant"
  BY <1>1, <1>2 DEF IndexInv, Inv, Scopes, PromotionsWritten
<1>4. PICK locals : locals = NoRequest
  OBVIOUS
<1>5. locals.step = "idle" /\ request' = [request EXCEPT ![r] = locals]
  BY <1>1, <1>4, NothingLocals DEF Answer
<1>6. request'[r] = locals /\ \A s \in Requests : s # r => request'[s] = request[s]
  BY <1>5 DEF IndexInv, Inv, TypeOK
<1>7. vectors' = {IF v.doc = d THEN [v EXCEPT !.scope = "tenant"] ELSE v : v \in vectors}
  BY <1>2 DEF PromoteVectors
<1>8. \A v \in vectors : v \in Points
  BY DEF IndexInv, Inv, TypeOK
<1>9. \A e \in Documents : e # d => SamePlace(e)
  <2>1. ASSUME NEW e, e # d PROVE Rows(vectors', e) = Rows(vectors, e)
    <3>1. \A v \in vectors : [v EXCEPT !.scope = "tenant"].doc = v.doc
      BY <1>8 DEF Points
    <3>2. \A w \in Rows(vectors', e) : w \in Rows(vectors, e)
      BY <1>7, <2>1, <3>1 DEF Rows
    <3>3. \A w \in Rows(vectors, e) : w \in Rows(vectors', e)
      BY <1>7, <2>1 DEF Rows
    <3> QED
      BY <3>2, <3>3
  <2> QED
    BY <1>1, <2>1 DEF SamePlace, Rows
<1>10. Rows(vectors, d) = {} => Rows(vectors', d) = {}
  <2>1. \A v \in vectors : [v EXCEPT !.scope = "tenant"].doc = v.doc
    BY <1>8 DEF Points
  <2> QED
    BY <1>7, <2>1 DEF Rows
<1>11. ASSUME NEW j \in Jobs, NEW scope \in {"private", "tenant"}, BuiltAs(d, j, scope)
       PROVE  BuiltAs(d, j, "tenant")'
  <2>1. Rows(vectors, d) = {Point(d, j, scope)}
    BY <1>11 DEF BuiltAs
  <2>2. [Point(d, j, scope) EXCEPT !.scope = "tenant"] = Point(d, j, "tenant")
    <3>1. Point(d, j, scope) \in Points /\ Point(d, j, "tenant") \in Points
      BY DEF Point, Points
    <3>2. PICK p \in Points : p = [Point(d, j, scope) EXCEPT !.scope = "tenant"]
      BY <3>1 DEF Points
    <3>3. p.doc = d /\ p.job = j /\ p.whole = TRUE /\ p.scope = "tenant"
      BY <3>1, <3>2 DEF Point, Points
    <3> QED
      BY <3>2, <3>3 DEF Point, Points
  <2>3. Point(d, j, scope).doc = d /\ Point(d, j, "tenant").doc = d
    BY DEF Point
  <2>4. Point(d, j, scope) \in vectors /\ \A v \in vectors : v.doc = d => v = Point(d, j, scope)
    BY <2>1 DEF Rows
  <2>5. Point(d, j, "tenant") \in vectors'
    BY <1>7, <2>2, <2>3, <2>4
  <2>6. \A w \in vectors' : w.doc = d => w = Point(d, j, "tenant")
    <3> SUFFICES ASSUME NEW v \in vectors,
                        NEW w, w = IF v.doc = d THEN [v EXCEPT !.scope = "tenant"] ELSE v, w.doc = d
                 PROVE  w = Point(d, j, "tenant")
      BY <1>7
    <3>1. v.doc = d
      OBVIOUS
    <3> QED
      BY <2>2, <2>4, <3>1
  <2>7. Rows(vectors', d) = {Point(d, j, "tenant")}
    BY <2>3, <2>5, <2>6 DEF Rows
  <2> QED
    BY <1>1, <1>11, <2>7 DEF BuiltAs, Rows
<1>12. Withdrawn(d) => Withdrawn(d)'
  BY <1>1, <1>6 DEF Withdrawn, Withdrawing
<1>13. ASSUME Kept(d)'
       PROVE  Kept(d) /\ Indexed(d)'
  <2>1. Kept(d) /\ Indexed(d)
    BY <1>1, <1>2, <1>13, Writing DEF Kept, Exists, Overtaken
  <2>2. ASSUME docs[d].status = "ready"
        PROVE  \/ Rows(vectors, d)' = {} /\ Withdrawn(d)'
               \/ \E j \in Jobs : BuiltAs(d, j, "tenant")'
    <3>1. CASE Rows(vectors, d) = {} /\ Withdrawn(d)
      BY <1>10, <1>12, <3>1 DEF Rows
    <3>2. CASE \E j \in Jobs, scope \in {"private", "tenant"} : BuiltAs(d, j, scope)
      BY <1>11, <3>2
    <3> QED
      BY <2>1, <2>2, <3>1, <3>2 DEF Indexed
  <2>3. docs'[d] = docs[d]
    BY <1>1
  <2>4. \A j : BuiltAs(d, j, docs[d].scope)' <=> BuiltAs(d, j, "tenant")'
    BY <1>3, <2>3
  <2>5. Indexed(d)'
    BY <1>3, <2>2, <2>3, <2>4 DEF Indexed, Disturbed
  <2> QED
    BY <2>1, <2>5
<1>14. "idle" \notin Rewriting
  BY DEF Rewriting
<1> QED
  BY <1>1, <1>2, <1>5, <1>9, <1>13, <1>14, WriterInStep

\* Nothing is known of a document that is inserted.
LEMMA InsertInStep ==
  ASSUME IndexInv, NEW r \in Requests, InsertDocument(r)
  PROVE  \A e \in Documents : InStep(e)'
<1>1. PICK d \in FreeDocuments, scope \in {"private", "tenant"}, step \in {"set_text", "enqueue"} :
        /\ docs' = [docs EXCEPT ![d] =
                      [NoDocument EXCEPT !.status = "pending", !.scope = scope,
                                         !.file = request[r].file]]
        /\ Handle(r, step, d)
  BY DEF InsertDocument
<1>2. UNCHANGED <<index, job>> /\ request[r].step = "insert"
  BY DEF InsertDocument
<1>3. d \in Documents /\ docs[d].status = "none"
  BY <1>1 DEF FreeDocuments
<1>4. PICK locals : locals = [NoRequest EXCEPT !.step = step, !.doc = d]
  OBVIOUS
<1>5. locals.step = step /\ locals.doc = d /\ request' = [request EXCEPT ![r] = locals]
  BY <1>1, <1>4 DEF NoRequest, Handle
<1>6. request'[r] = locals /\ \A s \in Requests : s # r => request'[s] = request[s]
  BY <1>5 DEF IndexInv, Inv, TypeOK
<1>7. docs'[d].status = "pending" /\ \A e \in Documents : e # d => docs'[e] = docs[e]
  BY <1>1, <1>3 DEF IndexInv, Inv, TypeOK, NoDocument
<1>8. \A e \in Documents : e # d => SamePlace(e)
  BY <1>2, <1>7 DEF SamePlace, index, Rows
<1>9. (\A j \in Jobs : job[j].doc # d) /\ \A s \in Requests : request[s].doc # d
  BY <1>3 DEF IndexInv, Inv, Known, KnownExist
<1>10. Blank(d)'
  <2>1. \A x \in chunks \cup lines \cup vectors : x.job \in Jobs /\ job[x.job].doc = x.doc
    BY DEF IndexInv, Inv, TypeOK, Known, OwnRows, Owned, IndexRows, Points
  <2>2. \A x \in chunks \cup lines \cup vectors : x.doc # d
    BY <1>9, <2>1
  <2> QED
    BY <1>2, <2>2 DEF Blank, Rows, index
<1>11. InStep(d)'
  <2>1. LiveJobs(d)' = {} /\ \A s \in Writers(d)' : s = r
    BY <1>2, <1>6, <1>9 DEF LiveJobs, Writers
  <2>2. Prepared(step, d)'
    BY <1>7, <1>10 DEF Prepared, Unqueued, Working
  <2>3. Sole(d)' /\ \A s \in Writers(d)' : Prepared(request[s].step, d)'
    BY <1>5, <1>6, <2>1, <2>2 DEF Sole
  <2>4. Indexed(d)'
    BY <1>7 DEF Indexed
  <2> QED
    BY <2>1, <2>3, <2>4 DEF InStep
<1> QED
  BY <1>2, <1>3, <1>5, <1>8, <1>11, OthersInStep

\* The request hands its document over to a job.
LEMMA EnqueueInStep ==
  ASSUME IndexInv, NEW r \in Requests, Enqueue(r)
  PROVE  \A e \in Documents : InStep(e)'
<1>1. /\ request[r].step = "enqueue" /\ UNCHANGED <<docs, index>> /\ Answer(r)
      /\ "enqueue" \in Rewriting
  BY DEF Enqueue, Rewriting
<1>2. PICK d \in Documents : d = request[r].doc /\ r \in Writers(d)
  BY <1>1, Writing
<1>3. PICK j, locals :
        /\ j \in FreeJobs /\ locals = [NoJob EXCEPT !.step = "queued", !.doc = d]
        /\ job' = [job EXCEPT ![j] = locals]
  BY <1>2 DEF Enqueue
<1>4. j \in Jobs /\ job[j].step = "none" /\ locals.step = "queued" /\ locals.doc = d
  BY <1>3 DEF FreeJobs, At, NoJob
<1>5. job'[j] = locals /\ \A i \in Jobs : i # j => job'[i] = job[i]
  BY <1>3, <1>4 DEF IndexInv, Inv, TypeOK
<1>6. PICK answered : answered = NoRequest
  OBVIOUS
<1>7. /\ answered.step = "idle" /\ request'[r] = answered
      /\ \A s \in Requests : s # r => request'[s] = request[s]
  BY <1>1, <1>6, NothingLocals DEF Answer, IndexInv, Inv, TypeOK
<1>8. \A e : SamePlace(e) /\ Kept(e)' = Kept(e)
  BY <1>1 DEF SamePlace, index, Rows, Kept, Exists, Overtaken
<1>9. \A e : /\ Writers(e)' \subseteq Writers(e) \ {r}
             /\ \A s \in Writers(e)' : request'[s].step = request[s].step
             /\ (Withdrawn(e) => Withdrawn(e)') /\ (Disturbed(e) => Disturbed(e)')
  <2>1. {"idle", "enqueue"} \cap (Withdrawing \cup {"promote_vectors"}) = {} /\ "idle" \notin Rewriting
    BY DEF Withdrawing, Rewriting
  <2>2. \A e : /\ Writers(e)' \subseteq Writers(e) \ {r}
               /\ \A s \in Writers(e)' : request'[s].step = request[s].step
    BY <1>7, <2>1 DEF Writers
  <2>3. \A e : Withdrawn(e) => Withdrawn(e)'
    BY <1>1, <1>7, <2>1 DEF Withdrawn
  <2>4. \A e : Disturbed(e) => Disturbed(e)'
    BY <1>1, <1>7, <2>1, <2>3 DEF Disturbed
  <2> QED
    BY <2>2, <2>3, <2>4
<1>10. ASSUME NEW e \in Documents, e # d
       PROVE  InStep(e)'
  <2>1. \A i \in Jobs : i \in LiveJobs(e)' <=> i \in LiveJobs(e)
    BY <1>4, <1>5, <1>10 DEF LiveJobs, Live
  <2>2. LiveJobs(e)' = LiveJobs(e) /\ \A i \in LiveJobs(e) : job'[i] = job[i]
    BY <1>4, <1>5, <2>1 DEF LiveJobs, Live
  <2> QED
    BY <1>8, <1>9, <2>2, SamePlaceAlike, ApartInStep DEF IndexInv, SameHands
<1>11. ASSUME Kept(d)
       PROVE  InStep(d)'
  <2>1. /\ Prepared("enqueue", d) /\ Indexed(d) /\ LiveJobs(d) = {} /\ Sole(d)
    BY <1>1, <1>2, <1>11, Writing DEF IndexInv, InStep
  <2>2. Blank(d) /\ docs[d].status \in Working
    BY <2>1 DEF Prepared, Unqueued
  <2>3. Blank(d)' /\ docs'[d].status \in Working
    BY <1>1, <1>8, <2>2 DEF Blank, SamePlace
  <2>4. Writers(d)' = {}
    BY <1>2, <1>9, <2>1 DEF Sole
  <2>5. \A i \in LiveJobs(d)' : i = j
    BY <1>5, <2>1 DEF LiveJobs, Live
  <2>6. Fits(locals, j, d)'
    BY <1>4, <2>3
       DEF Fits, StatusFits, StoresFit, Stages, FailureSteps, Lining, Stored, Complete
  <2>7. \A i \in LiveJobs(d)' : Fits(job[i], i, d)'
    BY <1>5, <2>5, <2>6
  <2>8. Sole(d)' /\ Indexed(d)'
    BY <2>3, <2>4, <2>5 DEF Sole, Indexed, Working
  <2> QED
    BY <2>4, <2>7, <2>8 DEF InStep
<1> QED
  BY <1>8, <1>10, <1>11 DEF InStep

LEMMA RequestsInStep ==
  ASSUME IndexInv, NEW r \in Requests,
         RequestStep(r) \/ RequestComes(r) \/ RequestFails(r)
  PROVE  \A e \in Documents : InStep(e)'
<1>1. CASE RequestStep(r)
  BY <1>1, InsertInStep, FindsDocumentInStep, WritesInStep, EnqueueInStep, DeleteVectorsInStep,
     ClearsInStep, DeleteRowsInStep, WriteScopeInStep, PromoteVectorsInStep
     DEF RequestStep
<1> QED
  BY <1>1, ComesInStep, FailsInStep

LEMMA InitInStep == Init => IndexInv
<1> SUFFICES ASSUME Init PROVE IndexInv
  OBVIOUS
<1>1. \A d \in Documents : docs[d].status = "none"
  BY DEF Init, NoDocument
<1> QED
  BY <1>1, InitInv DEF IndexInv, InStep, Kept, Exists

LEMMA StutterInStep ==
  ASSUME IndexInv, UNCHANGED vars
  PROVE  \A e \in Documents : InStep(e)'
<1>1. \A e : SamePlace(e) /\ SameHands(e)
  BY DEF vars, index, SamePlace, SameHands, Rows, LiveJobs, Live, Writers, Withdrawn, Disturbed
<1> QED
  BY <1>1, SamePlaceAlike, ApartInStep DEF IndexInv

LEMMA IndexInvHolds == Spec => []IndexInv
<1>1. IndexInv /\ [Next]_vars => IndexInv'
  <2> SUFFICES ASSUME IndexInv, [Next]_vars
               PROVE  Inv' /\ \A e \in Documents : InStep(e)'
    BY DEF IndexInv
  <2>1. Inv'
    BY JobStepsKeep, RequestsKeep, StutterInv DEF Next, IndexInv
  <2>2. \A e \in Documents : InStep(e)'
    BY JobsInStep, RequestsInStep, StutterInStep DEF Next
  <2> QED
    BY <2>1, <2>2
<1> QED
  BY <1>1, InitInStep, PTL DEF Spec

\* A document that is ready has the whole index of one job in the three stores, and vectors that
\* carry its scope: whatever fails in jobs, dies, or is deleted meanwhile, and whatever comes
\* (process_document, cleanup_partial_index, reindex, promote).  Excepted are a document that a
\* reindexing or a promotion overtook, and one of which a request is between the steps that take
\* the index away or promote it, or stopped there.
THEOREM ReadyDocumentsAreIndexed == Spec => []ReadyIsIndexed
<1>1. ASSUME IndexInv, NEW d \in Documents, Ready(d), docs[d].trouble \subseteq {"unqueued"},
             \A r \in Requests :
               request[r].doc = d => request[r].step \notin Withdrawing \cup {"promote_vectors"}
      PROVE  \E j \in Jobs : Built(d, j) /\ \A v \in Rows(vectors, d) : v.scope = docs[d].scope
  <2>1. ~Disturbed(d) /\ Kept(d)
    BY <1>1 DEF Disturbed, Withdrawn, Kept, Overtaken, Ready
  <2>2. PICK j \in Jobs : BuiltAs(d, j, docs[d].scope)
    BY <1>1, <2>1 DEF IndexInv, InStep, Ready, Indexed
  <2>3. docs[d].scope \in {"private", "tenant"}
    BY <1>1, DocTypes DEF IndexInv, Inv
  <2>4. Built(d, j)
    BY <2>2, <2>3 DEF Built, BuiltAs, Row, Point
  <2>5. \A v \in Rows(vectors, d) : v.scope = docs[d].scope
    BY <2>2 DEF BuiltAs, Point
  <2> QED
    BY <2>4, <2>5
<1>2. IndexInv => ReadyIsIndexed
  BY <1>1 DEF ReadyIsIndexed
<1> QED
  BY <1>2, IndexInvHolds, PTL

----------------------------------------------------------------------------
(* What readers see is DocumentIndex *)

\* The status a reader sees of a document that was not overtaken.
Told(d) == IF docs[d].deleted THEN "deleted" ELSE docs[d].status

LEMMA NothingShown ==
  ASSUME NEW d
  PROVE  /\ ~Ready(d) \/ Rows(vectors, d) = {} => ShownIndex(d) = Nil
         /\ ~Ready(d)' \/ Rows(vectors, d)' = {} => ShownIndex(d)' = Nil
<1>1. ~Ready(d) \/ Rows(vectors, d) = {} => Shown(d) = {}
  BY DEF Shown
<1>2. ~Ready(d)' \/ Rows(vectors, d)' = {} => Shown(d)' = {}
  BY DEF Shown
<1> QED
  BY <1>1, <1>2 DEF ShownIndex

LEMMA IndexShown ==
  ASSUME NEW d, NEW j \in Jobs, NEW scope \in {"private", "tenant"}
  PROVE  /\ Ready(d) /\ BuiltAs(d, j, scope) => ShownIndex(d) = j
         /\ Ready(d)' /\ BuiltAs(d, j, scope)' => ShownIndex(d)' = j
<1>0. PICK p : p = Point(d, j, scope)
  OBVIOUS
<1>1. p = Point(d, j, scope) /\ p.job = j /\ p.doc = d
  BY <1>0 DEF Point
<1>2. Row(d, j).doc = d /\ Row(d, j).job = j
  BY DEF Row
<1>3. (CHOOSE v \in {p} : TRUE) = p
  OBVIOUS
<1>4. ASSUME Ready(d), BuiltAs(d, j, scope)
      PROVE  ShownIndex(d) = j
  <2>1. Rows(vectors, d) = {p} /\ Row(d, j) \in chunks
    BY <1>1, <1>4 DEF BuiltAs, Rows
  <2>2. Shown(d) = {p}
    BY <1>1, <1>2, <1>4, <2>1 DEF Shown
  <2>3. Built(d, j)
    BY <1>4 DEF Built, BuiltAs, Row, Point
  <2> QED
    BY <1>1, <1>3, <2>2, <2>3 DEF ShownIndex
<1>5. ASSUME Ready(d)', BuiltAs(d, j, scope)'
      PROVE  ShownIndex(d)' = j
  <2>1. Rows(vectors, d)' = {p} /\ Row(d, j) \in chunks'
    BY <1>1, <1>5 DEF BuiltAs, Rows
  <2>2. Shown(d)' = {p}
    BY <1>1, <1>2, <1>5, <2>1 DEF Shown
  <2>3. Built(d, j)'
    BY <1>5 DEF Built, BuiltAs, Row, Point
  <2> QED
    BY <1>1, <1>3, <2>2, <2>3 DEF ShownIndex
<1> QED
  BY <1>4, <1>5

\* What a document shows is the index of a job, or nothing.
LEMMA ShownIsWhole ==
  ASSUME NEW d \in Documents, InStep(d)', ~Overtaken(d)'
  PROVE  ShownIndex(d)' \in Jobs \cup {Nil}
<1>1. CASE ~Ready(d)' \/ Rows(vectors, d)' = {}
  BY <1>1, NothingShown
<1>2. CASE Ready(d)' /\ Rows(vectors, d)' # {}
  <2>1. PICK j \in Jobs, scope \in {"private", "tenant"} : BuiltAs(d, j, scope)'
    BY <1>2 DEF InStep, Ready, Indexed, Kept
  <2> QED
    BY <1>2, <2>1, IndexShown
<1> QED
  BY <1>1, <1>2

\* What is seen of a document does not depend on its scope.
LEMMA SameRowsShow ==
  ASSUME NEW d, docs'[d].status = docs[d].status, docs'[d].deleted = docs[d].deleted,
         Rows(chunks, d)' = Rows(chunks, d), Rows(lines, d)' = Rows(lines, d),
         Rows(vectors, d)' = Rows(vectors, d)
  PROVE  Told(d)' = Told(d) /\ ShownIndex(d)' = ShownIndex(d)
<1>1. Ready(d)' = Ready(d)
  BY DEF Ready, Exists
<1>2. \A i : (\E c \in chunks' : c.doc = d /\ c.job = i) <=> (\E c \in chunks : c.doc = d /\ c.job = i)
  <2>1. \A c : c \in Rows(chunks', d) <=> c \in Rows(chunks, d)
    BY DEF Rows
  <2> QED
    BY <2>1 DEF Rows
<1>3. Shown(d)' = Shown(d)
  BY <1>1, <1>2 DEF Shown
<1>4. \A j : Built(d, j)' = Built(d, j)
  BY DEF Built
<1>5. Told(d)' = Told(d)
  BY DEF Told
<1> QED
  BY <1>3, <1>4, <1>5 DEF ShownIndex

\* What readers see of a document, overtaken or not.
Seen(d) == IF Overtaken(d) THEN "overtaken" ELSE Told(d)

Visible(d) == IF Overtaken(d) THEN Nil ELSE ShownIndex(d)

LEMMA AlikeShows ==
  ASSUME NEW d, Alike(d)
  PROVE  /\ Told(d)' = Told(d) /\ ShownIndex(d)' = ShownIndex(d)
         /\ Seen(d)' = Seen(d) /\ Visible(d)' = Visible(d)
<1>1. Told(d)' = Told(d) /\ ShownIndex(d)' = ShownIndex(d)
  BY SameRowsShow DEF Alike
<1> QED
  BY <1>1 DEF Alike, Seen, Visible

LEMMA ReaderBecomes ==
  ASSUME NEW d \in Documents, NEW s, NEW v,
         \A e \in Documents : e # d => Seen(e)' = Seen(e) /\ Visible(e)' = Visible(e),
         Seen(d)' = s, Visible(d)' = v
  PROVE  Reader!Becomes(d, s, v)
<1>1. [e \in Documents |-> Seen(e)'] = [[e \in Documents |-> Seen(e)] EXCEPT ![d] = s]
  OBVIOUS
<1>2. [e \in Documents |-> Visible(e)'] = [[e \in Documents |-> Visible(e)] EXCEPT ![d] = v]
  OBVIOUS
<1> QED
  BY <1>1, <1>2 DEF Reader!Becomes, Seen, Visible, Told

\* The steps of DocumentIndex, for one document that is not overtaken.
View(d) ==
  \/ Told(d)' = Told(d) /\ ShownIndex(d)' = ShownIndex(d)
  \/ Told(d) = "none" /\ Told(d)' = "pending" /\ ShownIndex(d)' = Nil
  \/ Told(d) = "pending" /\ Told(d)' = "indexing" /\ ShownIndex(d)' = Nil
  \/ Told(d) = "indexing" /\ Told(d)' = "ready" /\ ShownIndex(d)' \in Jobs \cup {Nil}
  \/ Told(d) \in Working /\ Told(d)' = "error" /\ ShownIndex(d)' = Nil
  \/ Told(d) = "ready" /\ Told(d)' = "ready" /\ ShownIndex(d)' = Nil
  \/ /\ Told(d) \notin {"none", "deleted"} /\ ShownIndex(d) = Nil
     /\ Told(d)' = "pending" /\ ShownIndex(d)' = Nil
  \/ Told(d) \notin {"none", "deleted"} /\ Told(d)' = "deleted" /\ ShownIndex(d)' = Nil

LEMMA ViewStep ==
  ASSUME IndexInv, NEW d \in Documents, \A e \in Documents : e # d => SamePlace(e),
         Overtaken(d)' = Overtaken(d), Overtaken(d) \/ View(d)
  PROVE  Reader!Next \/ UNCHANGED Reader!index
<1>1. \A e \in Documents : e # d => Seen(e)' = Seen(e) /\ Visible(e)' = Visible(e)
  BY SamePlaceAlike, AlikeShows
<1>2. CASE Seen(d)' = Seen(d) /\ Visible(d)' = Visible(d)
  <2>1. \A e \in Documents : Seen(e)' = Seen(e) /\ Visible(e)' = Visible(e)
    BY <1>1, <1>2
  <2> QED
    BY <2>1 DEF Reader!index, Seen, Visible, Told
<1>3. CASE Overtaken(d)
  BY <1>2, <1>3 DEF Seen, Visible
<1>4. CASE ~Overtaken(d)
  <2>1. /\ Seen(d) = Told(d) /\ Seen(d)' = Told(d)'
        /\ Visible(d) = ShownIndex(d) /\ Visible(d)' = ShownIndex(d)'
    BY <1>4 DEF Seen, Visible
  <2>2. \A s, v : Told(d)' = s /\ ShownIndex(d)' = v => Reader!Becomes(d, s, v)
    BY <1>1, <2>1, ReaderBecomes
  <2>3. [e \in Documents |-> Seen(e)][d] = Told(d) /\ [e \in Documents |-> Visible(e)][d] = ShownIndex(d)
    BY <2>1
  <2>4. /\ [e \in Documents |-> IF Overtaken(e) THEN "overtaken"
                                 ELSE IF docs[e].deleted THEN "deleted" ELSE docs[e].status][d] = Told(d)
        /\ [e \in Documents |-> IF Overtaken(e) THEN Nil ELSE ShownIndex(e)][d] = ShownIndex(d)
    BY <2>3 DEF Seen, Visible, Told
  <2>5. Told(d) # "overtaken"
    BY DocTypes DEF IndexInv, Inv, DocumentRows, Working, Told
  <2> QED
    BY <1>2, <1>4, <2>1, <2>2, <2>4, <2>5
       DEF View, Reader!Next, Reader!Create, Reader!Begin, Reader!Publish, Reader!GiveUp,
           Reader!Withdraw, Reader!Restart, Reader!Delete, Reader!Working, Reader!Outside, Working
<1> QED
  BY <1>3, <1>4

\* A document that was never inserted was never deleted nor overtaken, and the status of a
\* deletion is written with the deletion.
Fresh(d) ==
  /\ docs[d].status = "none" => ~docs[d].deleted /\ ~Overtaken(d)
  /\ docs[d].status = "deleted" => docs[d].deleted

ReaderInv == IndexInv /\ \A d \in Documents : Fresh(d)

\* What a step may do to the rows of documents: nothing, or to one of them.
LEMMA FreshKept ==
  ASSUME ReaderInv, NEW d \in Documents,
         \A e \in Documents : e # d => docs'[e] = docs[e],
         Fresh(d)'
  PROVE  \A e \in Documents : Fresh(e)'
BY DEF ReaderInv, Fresh, Overtaken

\* A step that changes no document but its troubles, and no store.
LEMMA QuietView ==
  ASSUME ReaderInv, \A e \in Documents : Alike(e)
  PROVE  (Reader!Next \/ UNCHANGED Reader!index) /\ \A e \in Documents : Fresh(e)'
<1>1. \A e \in Documents : Fresh(e)'
  BY DEF ReaderInv, Fresh, Alike
<1>2. \A e \in Documents : Seen(e)' = Seen(e) /\ Visible(e)' = Visible(e)
  BY AlikeShows
<1>3. UNCHANGED Reader!index
  BY <1>2 DEF Reader!index, Seen, Visible, Told
<1> QED
  BY <1>1, <1>3

LEMMA UnchangedAlike ==
  ASSUME UNCHANGED <<docs, index>>
  PROVE  \A e : SamePlace(e) /\ Alike(e)
BY SamePlaceAlike DEF SamePlace, index, Rows

\* A reindexing or a promotion comes to a document that somebody works on.
LEMMA OvertakeView ==
  ASSUME ReaderInv, NEW d \in Documents, Exists(d), Troubled(d, "overtaken"), UNCHANGED index
  PROVE  (Reader!Next \/ UNCHANGED Reader!index) /\ \A e \in Documents : Fresh(e)'
<1>1. /\ docs'[d].status = docs[d].status /\ docs'[d].deleted = docs[d].deleted
      /\ docs'[d].scope = docs[d].scope /\ "overtaken" \in docs'[d].trouble
      /\ \A e \in Documents : e # d => docs'[e] = docs[e]
  BY DocTypes DEF ReaderInv, IndexInv, Inv, TypeOK, Troubled, DocumentRows
<1>2. \A e \in Documents : e # d => SamePlace(e)
  BY <1>1 DEF SamePlace, index, Rows
<1>3. CASE Overtaken(d)
  <2>1. Alike(d)
    BY <1>1, <1>3 DEF Alike, Overtaken, index, Rows
  <2> QED
    BY <1>2, <2>1, SamePlaceAlike, QuietView
<1>4. CASE ~Overtaken(d)
  <2>1. Seen(d) \notin {"none", "deleted", "overtaken"}
    BY <1>4, DocTypes
       DEF ReaderInv, IndexInv, Inv, Fresh, Exists, DocumentRows, Working, Seen, Told
  <2>2. Seen(d)' = "overtaken" /\ Visible(d)' = Nil
    BY <1>1 DEF Overtaken, Seen, Visible
  <2>3. Reader!Becomes(d, "overtaken", Nil)
    BY <1>2, <2>2, SamePlaceAlike, AlikeShows, ReaderBecomes
  <2>4. [e \in Documents |-> Seen(e)][d] \notin {"none", "deleted", "overtaken"}
    BY <2>1
  <2>5. Reader!Next
    BY <2>3, <2>4 DEF Reader!Next, Reader!Overtake, Reader!Outside, Seen, Told
  <2>6. Fresh(d)'
    BY <1>1 DEF ReaderInv, Fresh, Exists
  <2> QED
    BY <1>1, <2>5, <2>6, FreshKept
<1> QED
  BY <1>3, <1>4

\* A job that writes the stores: its document is not ready.
LEMMA StoresView ==
  ASSUME ReaderInv, NEW j \in Jobs, Live(j), job[j].step # "succeed", UNCHANGED docs,
         \A e \in Documents : e # job[j].doc => SamePlace(e)
  PROVE  (Reader!Next \/ UNCHANGED Reader!index) /\ \A e \in Documents : Fresh(e)'
<1>1. PICK d \in Documents : d = job[j].doc
  BY AtWork DEF ReaderInv
<1>2. Overtaken(d) \/ ~Ready(d)
  BY <1>1, StillActive DEF ReaderInv, Ready, Active, Working, Kept
<1>3. Ready(d)' = Ready(d) /\ Told(d)' = Told(d) /\ Overtaken(d)' = Overtaken(d)
  BY DEF Ready, Exists, Told, Overtaken
<1>4. Overtaken(d) \/ View(d)
  BY <1>2, <1>3, NothingShown DEF View
<1> QED
  BY <1>1, <1>3, <1>4, ViewStep DEF ReaderInv, Fresh, Overtaken

\* The other documents, when a table loses the rows of one or gets a row for it.
LEMMA TablesApart ==
  ASSUME NEW d, \A e \in Documents : e # d => docs'[e] = docs[e],
         \/ chunks' = chunks \/ chunks' = chunks \ Rows(chunks, d)
         \/ \E x : x.doc = d /\ chunks' = chunks \cup {x},
         \/ lines' = lines \/ lines' = lines \ Rows(lines, d)
         \/ \E x : x.doc = d /\ lines' = lines \cup {x},
         \/ vectors' = vectors \/ vectors' = vectors \ Rows(vectors, d)
         \/ \E x : x.doc = d /\ vectors' = vectors \cup {x}
  PROVE  \A e \in Documents : e # d => SamePlace(e)
<1>1. \A e : e # d => Rows(chunks', e) = Rows(chunks, e)
  BY DEF Rows
<1>2. \A e : e # d => Rows(lines', e) = Rows(lines, e)
  BY DEF Rows
<1>3. \A e : e # d => Rows(vectors', e) = Rows(vectors, e)
  BY DEF Rows
<1> QED
  BY <1>1, <1>2, <1>3 DEF SamePlace, Rows

LEMMA JobStoresView ==
  ASSUME ReaderInv, NEW j \in Jobs,
         \/ InsertLines(j) \/ InsertChunks(j) \/ Upsert(j) \/ UpsertFails(j)
         \/ DropChunks(j) \/ DropLines(j) \/ DropVectors(j)
  PROVE  (Reader!Next \/ UNCHANGED Reader!index) /\ \A e \in Documents : Fresh(e)'
<1>1. Live(j) /\ job[j].step # "succeed" /\ UNCHANGED docs
  BY DEF InsertLines, InsertChunks, Upsert, UpsertFails, DropChunks, DropLines, DropVectors, At, Live
<1>2. PICK d : d = job[j].doc
  OBVIOUS
<1>3. \A e \in Documents : e # d => SamePlace(e)
  <2>1. CASE InsertLines(j)
    <3>1. PICK x : x = [doc |-> d, job |-> j, whole |-> TRUE]
      OBVIOUS
    <3>2. x.doc = d
      BY <3>1
    <3>3. /\ UNCHANGED <<chunks, vectors>>
          /\ lines' = lines \/ lines' = lines \cup {x}
      BY <1>2, <2>1, <3>1 DEF InsertLines
    <3> QED
      BY <1>1, <3>2, <3>3, TablesApart
  <2>2. CASE InsertChunks(j)
    <3>1. PICK x : x = [doc |-> d, job |-> j, whole |-> job[j].got = "all"]
      OBVIOUS
    <3>2. x.doc = d
      BY <3>1
    <3>3. /\ UNCHANGED <<lines, vectors>>
          /\ chunks' = chunks \/ chunks' = chunks \cup {x}
      BY <1>2, <2>2, <3>1 DEF InsertChunks
    <3> QED
      BY <1>1, <3>2, <3>3, TablesApart
  <2>3. CASE Upsert(j) \/ UpsertFails(j)
    <3>1. PICK x : x = [doc |-> d, job |-> j, whole |-> job[j].got = "all", scope |-> job[j].scope]
      OBVIOUS
    <3>2. x.doc = d
      BY <3>1
    <3>3. UNCHANGED <<chunks, lines>> /\ vectors' \in {vectors, vectors \cup NewPoints(j)}
      BY <2>3 DEF Upsert, UpsertFails
    <3>4. vectors' = vectors \/ vectors' = vectors \cup {x}
      BY <1>2, <3>1, <3>3 DEF NewPoints
    <3> QED
      BY <1>1, <3>2, <3>3, <3>4, TablesApart
  <2>4. CASE DropChunks(j) \/ DropLines(j) \/ DropVectors(j)
    <3>1. /\ chunks' = chunks \/ chunks' = chunks \ Rows(chunks, d)
          /\ lines' = lines \/ lines' = lines \ Rows(lines, d)
          /\ vectors' = vectors \/ vectors' = vectors \ Rows(vectors, d)
      BY <1>2, <2>4 DEF DropChunks, DropLines, DropVectors
    <3> QED
      BY <1>1, <3>1, TablesApart
  <2> QED
    BY <2>1, <2>2, <2>3, <2>4
<1> QED
  BY <1>1, <1>2, <1>3, StoresView

\* A document that has no row to show, because it is deleted.
LEMMA DeletedView ==
  ASSUME NEW d \in Documents, docs[d].deleted, docs'[d].deleted
  PROVE  View(d)
BY NothingShown DEF View, Told, Ready, Exists

LEMMA JobStatusView ==
  ASSUME ReaderInv, NEW j \in Jobs, MarkIndexing(j) \/ SaveParsed(j) \/ MarkReady(j) \/ MarkFailed(j),
         \A e \in Documents : InStep(e)'
  PROVE  (Reader!Next \/ UNCHANGED Reader!index) /\ \A e \in Documents : Fresh(e)'
<1>1. Live(j) /\ UNCHANGED index
  BY DEF MarkIndexing, SaveParsed, MarkReady, MarkFailed, At, Live
<1>2. PICK d \in Documents : d = job[j].doc /\ docs[d].status # "none"
  BY <1>1, AtWork, InHand DEF ReaderInv
<1>3. PICK status \in {"indexing", "ready", "error"} :
        /\ SetStatus(d, status)
        /\ status = "indexing" => job[j].step \in {"mark", "write"}
        /\ status = "ready" => job[j].step = "publish"
        /\ status = "error" => job[j].step = "mark_failed"
  BY <1>2 DEF MarkIndexing, SaveParsed, MarkReady, MarkFailed, At
<1>4. /\ docs'[d].status = status /\ docs'[d].deleted = docs[d].deleted
      /\ Overtaken(d)' = Overtaken(d)
      /\ \A e \in Documents : e # d => docs'[e] = docs[e]
  BY <1>3, StatusWritten DEF ReaderInv, Overtaken
<1>5. \A e \in Documents : e # d => SamePlace(e)
  BY <1>1, <1>4 DEF SamePlace, index, Rows
<1>6. ASSUME Kept(d)
      PROVE  View(d)
  <2>1. Fits(job[j], j, d) /\ docs[d].status \in Working
    BY <1>1, <1>2, <1>3, <1>6, AtWork, StillActive DEF ReaderInv, Active
  <2>2. ~Ready(d) /\ ShownIndex(d) = Nil /\ Told(d) = docs[d].status /\ Told(d)' = status
    BY <1>4, <1>6, <2>1, NothingShown DEF Ready, Working, Exists, Told, Kept
  <2>3. CASE status = "ready"
    <3>1. docs[d].status = "indexing"
      BY <1>3, <2>1, <2>3 DEF Fits, StatusFits, Stages
    <3>2. ShownIndex(d)' \in Jobs \cup {Nil}
      BY <1>4, <1>6, ShownIsWhole DEF Kept
    <3> QED
      BY <2>2, <2>3, <3>1, <3>2 DEF View
  <2>4. CASE status \in {"indexing", "error"}
    <3>1. ShownIndex(d)' = Nil
      BY <1>4, <2>4, NothingShown DEF Ready
    <3> QED
      BY <2>1, <2>2, <2>4, <3>1 DEF View, Working
  <2> QED
    BY <2>3, <2>4
<1>7. Overtaken(d) \/ View(d)
  BY <1>2, <1>4, <1>6, DeletedView DEF Exists, Kept
<1>8. status \notin {"none", "deleted"}
  OBVIOUS
<1> QED
  BY <1>4, <1>5, <1>7, <1>8, ViewStep, FreshKept DEF ReaderInv, Fresh

LEMMA JobsView ==
  ASSUME ReaderInv, NEW j \in Jobs, JobStep(j) \/ JobFault(j), \A e \in Documents : InStep(e)'
  PROVE  (Reader!Next \/ UNCHANGED Reader!index) /\ \A e \in Documents : Fresh(e)'
<1>1. \/ InsertLines(j) \/ InsertChunks(j) \/ Upsert(j) \/ UpsertFails(j)
      \/ DropChunks(j) \/ DropLines(j) \/ DropVectors(j)
      \/ MarkIndexing(j) \/ SaveParsed(j) \/ MarkReady(j) \/ MarkFailed(j)
      \/ UNCHANGED <<docs, index>>
  BY DEF JobStep, JobFault, Start, LoadInput, Parse, FindParsed, Chunk, Chunked, Lined, Embed,
         Embedded, Persist, Inserted, Persisted, FindReady, Succeed, FailRun, FindFailed, Check,
         WorkFails, StatementFails, TrackerFails, CleanupFails, MarkingFails, JobDies
<1> QED
  BY <1>1, JobStoresView, JobStatusView, UnchangedAlike, QuietView

----------------------------------------------------------------------------
(* What readers see of the steps of requests *)

LEMMA InsertView ==
  ASSUME ReaderInv, NEW r \in Requests, InsertDocument(r)
  PROVE  (Reader!Next \/ UNCHANGED Reader!index) /\ \A e \in Documents : Fresh(e)'
<1>0. PICK d, scope :
        /\ d \in FreeDocuments
        /\ docs' = [docs EXCEPT ![d] =
                      [NoDocument EXCEPT !.status = "pending", !.scope = scope,
                                         !.file = request[r].file]]
  BY DEF InsertDocument
<1>1. PICK row : /\ row.status = "pending" /\ row.deleted = FALSE /\ row.trouble = {}
                 /\ docs' = [docs EXCEPT ![d] = row] /\ d \in FreeDocuments
  BY <1>0 DEF NoDocument
<1>2. /\ d \in Documents /\ docs[d].status = "none" /\ ~docs[d].deleted /\ ~Overtaken(d)
      /\ UNCHANGED index
  BY <1>1 DEF FreeDocuments, InsertDocument, ReaderInv, Fresh
<1>3. /\ docs'[d].status = "pending" /\ ~docs'[d].deleted /\ ~Overtaken(d)'
      /\ \A e \in Documents : e # d => docs'[e] = docs[e]
  BY <1>1, <1>2 DEF ReaderInv, IndexInv, Inv, TypeOK, Overtaken
<1>4. \A e \in Documents : e # d => SamePlace(e)
  BY <1>2, <1>3 DEF SamePlace, index, Rows
<1>5. ShownIndex(d)' = Nil
  BY <1>3, NothingShown DEF Ready
<1>6. View(d)
  BY <1>2, <1>3, <1>5 DEF View, Told
<1> QED
  BY <1>2, <1>3, <1>4, <1>6, ViewStep, FreshKept DEF ReaderInv, Fresh, Overtaken

LEMMA WritesView ==
  ASSUME ReaderInv, NEW r \in Requests, WriteText(r) \/ WriteReset(r)
  PROVE  (Reader!Next \/ UNCHANGED Reader!index) /\ \A e \in Documents : Fresh(e)'
<1>1. request[r].step \in {"write_text", "write_reset"} /\ UNCHANGED index
      /\ {"write_text", "write_reset"} \subseteq Rewriting
  BY DEF WriteText, WriteReset, Rewriting
<1>2. PICK d \in Documents : d = request[r].doc /\ docs[d].status # "none"
  BY <1>1, Writing DEF ReaderInv
<1>3. PICK status \in Working :
        /\ status = "indexing" => request[r].step = "write_text"
        /\ docs'[d].status = status
  BY <1>1, <1>2, WaitsForJob DEF ReaderInv, Working
<1>4. /\ docs'[d].status = status /\ docs'[d].deleted = docs[d].deleted
      /\ Overtaken(d)' = Overtaken(d)
      /\ \A e \in Documents : e # d => docs'[e] = docs[e]
  BY <1>2, <1>3, WaitsForJob DEF ReaderInv
<1>5. \A e \in Documents : e # d => SamePlace(e)
  BY <1>1, <1>4 DEF SamePlace, index, Rows
<1>6. ASSUME Kept(d)
      PROVE  View(d)
  <2>1. Prepared(request[r].step, d)
    BY <1>1, <1>2, <1>6, Writing DEF ReaderInv
  <2>2. Rows(vectors, d) = {} /\ (status = "indexing" => docs[d].status \in Working)
    BY <1>1, <1>3, <2>1 DEF Prepared, Unqueued, Blank
  <2>3. ShownIndex(d) = Nil /\ ShownIndex(d)' = Nil
    BY <1>4, <2>2, NothingShown DEF Ready, Working
  <2>4. Told(d) = docs[d].status /\ Told(d)' = status /\ docs[d].status # "deleted"
    <3>1. docs[d].status # "deleted"
      BY <1>2, <1>6 DEF ReaderInv, Fresh, Exists, Kept
    <3> QED
      BY <1>4, <1>6, <3>1 DEF Exists, Told, Kept
  <2> QED
    BY <1>2, <1>3, <2>2, <2>3, <2>4 DEF View, Working
<1>7. Overtaken(d) \/ View(d)
  BY <1>2, <1>4, <1>6, DeletedView DEF Exists, Kept
<1>8. status \notin {"none", "deleted"}
  BY DEF Working
<1> QED
  BY <1>4, <1>5, <1>7, <1>8, ViewStep, FreshKept DEF ReaderInv, Fresh

\* The first step of a deletion or a reindexing hides the index.
LEMMA WithdrawsView ==
  ASSUME ReaderInv, NEW r \in Requests, DeleteVectors(r)
  PROVE  (Reader!Next \/ UNCHANGED Reader!index) /\ \A e \in Documents : Fresh(e)'
<1>1. PICK d \in Documents : d = request[r].doc
  BY DEF DeleteVectors, ReaderInv, IndexInv, Inv, Known, RequestsNamed
<1>2. UNCHANGED <<docs, chunks, lines>> /\ vectors' = vectors \ Rows(vectors, d)
  BY <1>1 DEF DeleteVectors
<1>3. \A e \in Documents : e # d => SamePlace(e)
  BY <1>2, RowsLess DEF SamePlace, Rows
<1>4. Rows(vectors, d)' = {}
  BY <1>2 DEF Rows
<1>5. ShownIndex(d)' = Nil /\ Told(d)' = Told(d)
  BY <1>2, <1>4, NothingShown DEF Told
<1>6. Ready(d) => Told(d) = "ready"
  BY DEF Ready, Exists, Told
<1>7. View(d) /\ Overtaken(d)' = Overtaken(d)
  BY <1>2, <1>5, <1>6, NothingShown DEF View, Overtaken
<1> QED
  BY <1>2, <1>3, <1>7, ViewStep DEF ReaderInv, Fresh, Overtaken

\* The next ones take away what is hidden.
LEMMA ClearsView ==
  ASSUME ReaderInv, NEW r \in Requests, ClearChunks(r) \/ ClearLines(r)
  PROVE  (Reader!Next \/ UNCHANGED Reader!index) /\ \A e \in Documents : Fresh(e)'
<1>1. /\ request[r].step \in {"clear_chunks", "clear_lines"} /\ UNCHANGED <<docs, vectors>>
      /\ {"clear_chunks", "clear_lines"} \subseteq Rewriting
  BY DEF ClearChunks, ClearLines, Rewriting
<1>2. PICK d \in Documents : d = request[r].doc
  BY <1>1, Writing DEF ReaderInv
<1>3. /\ chunks' = chunks \/ chunks' = chunks \ Rows(chunks, d)
      /\ lines' = lines \/ lines' = lines \ Rows(lines, d)
  BY <1>2 DEF ClearChunks, ClearLines
<1>4. \A e \in Documents : e # d => SamePlace(e)
  BY <1>1, <1>3, TablesApart
<1>5. Overtaken(d) \/ ~Ready(d) \/ Rows(vectors, d) = {}
  <2>1. Kept(d) => Prepared(request[r].step, d)
    BY <1>1, <1>2, Writing DEF ReaderInv
  <2> QED
    BY <1>1, <2>1 DEF Prepared, Ready, Kept
<1>6. /\ Ready(d)' = Ready(d) /\ Told(d)' = Told(d) /\ Rows(vectors, d)' = Rows(vectors, d)
      /\ Overtaken(d)' = Overtaken(d)
  BY <1>1 DEF Ready, Exists, Told, Rows, Overtaken
<1>7. Overtaken(d) \/ View(d)
  BY <1>5, <1>6, NothingShown DEF View
<1> QED
  BY <1>1, <1>4, <1>6, <1>7, ViewStep DEF ReaderInv, Fresh, Overtaken

LEMMA DeleteRowsView ==
  ASSUME ReaderInv, NEW r \in Requests, DeleteRows(r)
  PROVE  (Reader!Next \/ UNCHANGED Reader!index) /\ \A e \in Documents : Fresh(e)'
<1>1. PICK d \in Documents : d = request[r].doc /\ docs[d].status # "none"
  BY InHand DEF DeleteRows, ReaderInv, IndexInv, Inv, Known, RequestsNamed
<1>2. CASE ~Exists(d)
  <2>1. UNCHANGED <<docs, index>>
    BY <1>1, <1>2 DEF DeleteRows, index
  <2> QED
    BY <2>1, UnchangedAlike, QuietView
<1>3. CASE Exists(d)
  <2>1. /\ docs' = [docs EXCEPT ![d].status = "deleted", ![d].deleted = TRUE]
        /\ chunks' = chunks \ Rows(chunks, d) /\ lines' = lines \ Rows(lines, d)
        /\ vectors' = vectors
    BY <1>1, <1>3 DEF DeleteRows
  <2>2. /\ docs'[d].deleted /\ docs'[d].status = "deleted" /\ Overtaken(d)' = Overtaken(d)
        /\ \A e \in Documents : e # d => docs'[e] = docs[e]
    BY <2>1, DocTypes DEF ReaderInv, IndexInv, Inv, TypeOK, DocumentRows, Overtaken
  <2>3. \A e \in Documents : e # d => SamePlace(e)
    BY <2>1, <2>2, TablesApart
  <2>4. View(d)
    <3>1. ShownIndex(d)' = Nil
      BY <2>2, NothingShown DEF Ready, Exists
    <3>2. docs[d].status # "deleted"
      BY <1>1, <1>3 DEF ReaderInv, Fresh, Exists
    <3> QED
      BY <1>1, <1>3, <2>2, <3>1, <3>2 DEF View, Told, Exists
  <2> QED
    BY <2>2, <2>3, <2>4, ViewStep, FreshKept DEF ReaderInv, Fresh
<1> QED
  BY <1>2, <1>3

\* A promotion is not seen.
LEMMA WriteScopeView ==
  ASSUME ReaderInv, NEW r \in Requests, WriteScope(r)
  PROVE  (Reader!Next \/ UNCHANGED Reader!index) /\ \A e \in Documents : Fresh(e)'
<1>1. UNCHANGED index /\ request[r].step \in Rewriting
  BY DEF WriteScope, Rewriting
<1>2. PICK d \in Documents : d = request[r].doc /\ docs[d].status # "none"
  BY <1>1, Writing DEF ReaderInv
<1>3. /\ docs'[d].status = docs[d].status /\ docs'[d].deleted = docs[d].deleted
      /\ Overtaken(d)' = Overtaken(d)
      /\ \A e \in Documents : e # d => docs'[e] = docs[e]
  BY <1>2, DocTypes DEF WriteScope, ReaderInv, IndexInv, Inv, TypeOK, DocumentRows, Overtaken
<1>4. \A e \in Documents : e # d => SamePlace(e)
  BY <1>1, <1>3 DEF SamePlace, index, Rows
<1>5. /\ Rows(chunks, d)' = Rows(chunks, d) /\ Rows(lines, d)' = Rows(lines, d)
      /\ Rows(vectors, d)' = Rows(vectors, d)
  BY <1>1 DEF index, Rows
<1>6. View(d)
  BY <1>3, <1>5, SameRowsShow DEF View
<1> QED
  BY <1>2, <1>3, <1>4, <1>6, ViewStep, FreshKept DEF ReaderInv, Fresh

LEMMA PromoteVectorsView ==
  ASSUME ReaderInv, NEW r \in Requests, PromoteVectors(r), \A e \in Documents : InStep(e)'
  PROVE  (Reader!Next \/ UNCHANGED Reader!index) /\ \A e \in Documents : Fresh(e)'
<1>1. UNCHANGED <<docs, chunks, lines>> /\ request[r].step \in Rewriting
  BY DEF PromoteVectors, Rewriting
<1>2. PICK d \in Documents : d = request[r].doc
  BY <1>1, Writing DEF ReaderInv
<1>3. /\ vectors' = {IF v.doc = d THEN [v EXCEPT !.scope = "tenant"] ELSE v : v \in vectors}
      /\ \A v \in vectors : [v EXCEPT !.scope = "tenant"].doc = v.doc
  BY <1>2 DEF PromoteVectors, ReaderInv, IndexInv, Inv, TypeOK, Points
<1>4. \A e \in Documents : e # d => SamePlace(e)
  <2>1. ASSUME NEW e, e # d PROVE Rows(vectors', e) = Rows(vectors, e)
    <3>1. \A w \in Rows(vectors', e) : w \in Rows(vectors, e)
      BY <1>3, <2>1 DEF Rows
    <3>2. \A w \in Rows(vectors, e) : w \in Rows(vectors', e)
      BY <1>3, <2>1 DEF Rows
    <3> QED
      BY <3>1, <3>2
  <2> QED
    BY <1>1, <2>1 DEF SamePlace, Rows
<1>5. Rows(vectors', d) = {} <=> Rows(vectors, d) = {}
  <2>1. ASSUME NEW v \in vectors, v.doc = d
        PROVE  \E w \in vectors' : w.doc = d
    BY <1>3, <2>1
  <2>2. ASSUME NEW w \in vectors', w.doc = d
        PROVE  \E v \in vectors : v.doc = d
    BY <1>3, <2>2
  <2> QED
    BY <2>1, <2>2 DEF Rows
<1>6. Ready(d)' = Ready(d) /\ Told(d)' = Told(d) /\ Overtaken(d)' = Overtaken(d)
  BY <1>1 DEF Ready, Exists, Told, Overtaken
<1>7. ASSUME ~Overtaken(d)
      PROVE  ShownIndex(d)' = ShownIndex(d)
  <2>1. CASE ~Ready(d) \/ Rows(vectors, d) = {}
    <3>1. ~Ready(d)' \/ Rows(vectors, d)' = {}
      BY <1>5, <1>6, <2>1 DEF Rows
    <3> QED
      BY <2>1, <3>1, NothingShown
  <2>2. CASE Ready(d) /\ Rows(vectors, d) # {}
    <3>1. PICK i \in Jobs, scope \in {"private", "tenant"} : BuiltAs(d, i, scope)
      BY <1>7, <2>2 DEF ReaderInv, IndexInv, InStep, Ready, Indexed, Kept
    <3>2. Ready(d)' /\ Rows(vectors, d)' # {}
      BY <1>5, <1>6, <2>2 DEF Rows
    <3>3. PICK j \in Jobs, next \in {"private", "tenant"} : BuiltAs(d, j, next)'
      BY <1>6, <1>7, <3>2 DEF InStep, Ready, Indexed, Kept
    <3>4. Row(d, i) = Row(d, j)
      BY <1>1, <3>1, <3>3 DEF BuiltAs, Rows
    <3>5. i = j
      BY <3>4 DEF Row
    <3> QED
      BY <2>2, <3>1, <3>2, <3>3, <3>5, IndexShown
  <2> QED
    BY <2>1, <2>2
<1>8. Overtaken(d) \/ View(d)
  BY <1>6, <1>7 DEF View
<1> QED
  BY <1>1, <1>4, <1>6, <1>8, ViewStep DEF ReaderInv, Fresh, Overtaken

LEMMA RequestsView ==
  ASSUME ReaderInv, NEW r \in Requests, RequestStep(r) \/ RequestComes(r) \/ RequestFails(r),
         \A e \in Documents : InStep(e)'
  PROVE  (Reader!Next \/ UNCHANGED Reader!index) /\ \A e \in Documents : Fresh(e)'
<1>1. \/ InsertDocument(r) \/ WriteText(r) \/ WriteReset(r) \/ DeleteVectors(r)
      \/ ClearChunks(r) \/ ClearLines(r) \/ DeleteRows(r) \/ WriteScope(r) \/ PromoteVectors(r)
      \/ \E d \in Documents : Exists(d) /\ Troubled(d, "overtaken") /\ UNCHANGED index
      \/ RequestFails(r)
      \/ UNCHANGED <<docs, index>>
  BY DEF RequestStep, RequestComes, FindText, FindReset, Enqueue, Create, Reindex, Delete, Promote,
         MayCome, Overtakes
<1>2. CASE RequestFails(r)
  BY <1>2, FailsAlike, QuietView DEF ReaderInv
<1> QED
  BY <1>1, <1>2, InsertView, WritesView, WithdrawsView, ClearsView, DeleteRowsView, WriteScopeView,
     PromoteVectorsView, OvertakeView, UnchangedAlike, QuietView

\* What readers see of the documents is DocumentIndex: the whole index of one job appears at once,
\* when the document becomes ready, and nothing else is ever shown of it, whatever fails, dies or is
\* deleted between the steps that write three stores (process_document, cleanup_partial_index,
\* reindex, delete, promote).  A document that a reindexing or a promotion overtakes while it is being
\* worked on is the exception, and DocumentIndex says when it becomes one.
THEOREM ReadersSeeWholeIndexes == Spec => ImplementsDocumentIndex
<1>1. Init => ReaderInv /\ Reader!Init
  <2> SUFFICES ASSUME Init PROVE ReaderInv /\ Reader!Init
    OBVIOUS
  <2>1. \A d \in Documents : docs[d].status = "none" /\ ~docs[d].deleted /\ ~Overtaken(d)
    BY DEF Init, NoDocument, Overtaken
  <2>2. \A d \in Documents : ShownIndex(d) = Nil
    BY <2>1, NothingShown DEF Ready
  <2> QED
    BY <2>1, <2>2, InitInStep DEF ReaderInv, Fresh, Reader!Init
<1>2. ReaderInv /\ IndexInv' /\ [Next]_vars => ReaderInv' /\ [Reader!Next]_Reader!index
  <2> SUFFICES ASSUME ReaderInv, IndexInv', [Next]_vars
               PROVE  (Reader!Next \/ UNCHANGED Reader!index) /\ \A e \in Documents : Fresh(e)'
    BY DEF ReaderInv
  <2>1. \A e \in Documents : InStep(e)'
    BY DEF IndexInv
  <2>2. CASE Next
    BY <2>1, <2>2, JobsView, RequestsView DEF Next
  <2>3. CASE UNCHANGED vars
    <3>1. UNCHANGED <<docs, index>>
      BY <2>3 DEF vars, index
    <3> QED
      BY <3>1, UnchangedAlike, QuietView
  <2> QED
    BY <2>2, <2>3
<1> QED
  BY <1>1, <1>2, IndexInvHolds, PTL DEF Spec, ImplementsDocumentIndex, Reader!Spec
=============================================================================
