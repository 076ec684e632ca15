----------------------------- MODULE ChatSession -----------------------------
(***************************************************************************)
(* Chat sessions and the turns of the question answering agent            *)
(* (qa_v3_service.rs, qa_compaction_service.rs, chat_service.rs).         *)
(* A turn is a detached task: it reads the history of its session, saves  *)
(* the user's message, streams an answer to a client that may leave at    *)
(* any moment, and saves the answer.  It may spawn a compaction of the    *)
(* history it read, and one task per saved message that writes its vector *)
(* to the memory collection.  Sessions can be deleted meanwhile.          *)
(***************************************************************************)
EXTENDS Naturals, Sequences, FiniteSets

CONSTANTS
    Sessions,       \* session ids
    Turns,          \* qa_v3_stream requests
    Deletes,        \* delete_session requests
    Remembered,     \* the messages whose vectors are followed
    Fragile,        \* the turns whose agent or client may fail
    Earlier,        \* the turns that ended before the model begins, in their order
    Faults,         \* what may fail, a subset of FaultKinds
    Threshold,      \* compaction_threshold, in messages; the estimate of tokens exceeds its
                    \* threshold whenever the number of messages exceeds this one
    Recent,         \* compaction_recent_turns, in messages
    MinRecompact,   \* MIN_MESSAGES_FOR_RECOMPACT
    Nil             \* no value

FaultKinds == {"client", "statement", "stream", "model", "memory"}

Message == [turn : Turns, kind : {"user", "answer", "error"}]

\* The summary cache of a session: its last message and what the summary stands for.
Summaries == [last : Message, covered : SUBSET Message]
Caches == Summaries \cup {Nil}

ASSUME ChatAssumption ==
    /\ Faults \subseteq FaultKinds
    /\ Remembered \subseteq [turn : Turns, kind : {"user", "answer"}]
    /\ Fragile \subseteq Turns /\ Earlier \in Seq(Turns)
    /\ \A i, j \in DOMAIN Earlier : Earlier[i] = Earlier[j] => i = j
    /\ Threshold \in Nat /\ Recent \in Nat \ {0} /\ MinRecompact \in Nat \ {0}
    /\ Nil \notin Sessions /\ Nil \notin Summaries

VARIABLES
    rows,       \* chat_sessions: "unused", "live" or "deleted", and the summary cache
    messages,   \* chat_messages by created_at: a sequence per session
    memory,     \* the chat_memory collection: messages with a vector
    spawned,    \* messages whose index_message task runs
    guard,      \* compaction_guard: sessions with a compaction in the background
    turns,      \* run_qa_pipeline: where it is and what it holds
    clients,    \* the readers of the event streams
    jobs,       \* the compaction a turn spawned
    deletes     \* delete_session: where it is

vars == <<rows, messages, memory, spawned, guard, turns, clients, jobs, deletes>>

Msg(t, kind) == [turn |-> t, kind |-> kind]

Elements(seq) == {seq[i] : i \in DOMAIN seq}

NoTurn == [pc |-> "idle", session |-> Nil, history |-> <<>>, connected |-> TRUE]
NoJob == [pc |-> "idle", older |-> <<>>, cached |-> Nil]

\* The conversation so far: the question and the answer of each earlier turn.
Conversation ==
    [i \in 1..2 * Len(Earlier) |-> Msg(Earlier[(i + 1) \div 2], IF i % 2 = 1 THEN "user" ELSE "answer")]

Init ==
    /\ \E s \in Sessions :
          /\ rows = [r \in Sessions |-> [state |-> IF r = s /\ Earlier # <<>> THEN "live" ELSE "unused", cache |-> Nil]]
          /\ messages = [r \in Sessions |-> IF r = s THEN Conversation ELSE <<>>]
          /\ turns = [t \in Turns |-> IF t \in Elements(Earlier)
                                      THEN [NoTurn EXCEPT !.pc = "done", !.session = s] ELSE NoTurn]
    /\ memory = {} /\ spawned = {} /\ guard = {}
    /\ clients = [t \in Turns |-> IF t \in Elements(Earlier) THEN "completed" ELSE "listening"]
    /\ jobs = [t \in Turns |-> NoJob]
    /\ deletes = [d \in Deletes |-> [pc |-> "idle", session |-> Nil]]

Live(s) == rows[s].state = "live"
At(t, pc) == turns[t].pc = pc
Goes(t, pc) == turns' = [turns EXCEPT ![t].pc = pc]
Ends(t, pc) == turns' = [turns EXCEPT ![t] = [NoTurn EXCEPT !.pc = pc, !.session = turns[t].session]]

\* An event reaches the client, or it turns out that the client has left.
Reached(t) == clients[t] # "gone" /\ UNCHANGED clients
Gone(t) == "client" \in Faults /\ t \in Fragile /\ clients' = [clients EXCEPT ![t] = "gone"]
Hears(t, event) == clients' = [clients EXCEPT ![t] = IF @ = "gone" THEN @ ELSE event]

\* A statement of the database fails.
StatementFails == "statement" \in Faults

\* create_message and spawn_index_message; no foreign key looks at the session.
Store(t, kind) ==
    LET m == Msg(t, kind)
    IN  /\ messages' = [messages EXCEPT ![turns[t].session] = Append(@, m)]
        /\ spawned' = IF m \in Remembered THEN spawned \cup {m} ELSE spawned

-----------------------------------------------------------------------------
(* A turn.                                                                 *)

\* A session the request names, or a new one.
Open(t, s) ==
    /\ At(t, "idle")
    /\ \/ /\ rows[s].state = "unused"
          /\ rows' = [rows EXCEPT ![s].state = "live"]
          /\ turns' = [turns EXCEPT ![t].pc = "history", ![t].session = s]
          /\ UNCHANGED clients
       \/ /\ Live(s)
          /\ turns' = [turns EXCEPT ![t].pc = "history", ![t].session = s]
          /\ UNCHANGED <<rows, clients>>
       \/ /\ rows[s].state = "deleted"
          /\ Ends(t, "failed") /\ Hears(t, "error")
          /\ UNCHANGED rows
    /\ UNCHANGED <<messages, memory, spawned, guard, jobs, deletes>>

\* The session's lock is held for this read alone; a read that fails or that
\* finds the session deleted is an empty history.
ReadHistory(t) ==
    LET s == turns[t].session
    IN  /\ At(t, "history")
        /\ \/ turns' = [turns EXCEPT ![t].pc = "save", ![t].history = IF Live(s) THEN messages[s] ELSE <<>>]
           \/ StatementFails /\ Goes(t, "save")
        /\ UNCHANGED <<rows, messages, memory, spawned, guard, clients, jobs, deletes>>

\* Looking up the documents and files of the request fails; what the history
\* mentions is recovered as far as it is found.
MaterialsFail == "statement" \in Faults

\* Started and MaterialProcessing must reach the client, then the materials of
\* the request and of the history are gathered and the user's message is saved.
SaveUser(t) ==
    /\ At(t, "save")
    /\ \/ /\ Reached(t)
          /\ Store(t, "user") /\ Goes(t, "compact")
       \/ /\ Gone(t) /\ Ends(t, "left")
          /\ UNCHANGED <<messages, spawned>>
       \/ /\ MaterialsFail \/ StatementFails
          /\ Ends(t, "failed")
          /\ UNCHANGED <<messages, spawned, clients>>
    /\ UNCHANGED <<rows, memory, guard, jobs, deletes>>

NeedsCompaction(history) == Len(history) > Threshold /\ Len(history) > Recent
Older(history) == SubSeq(history, 1, Len(history) - Recent)

\* GeneratingAnswer must reach the client, or the user's message stays alone.
Generate(t) == \/ Reached(t) /\ Goes(t, "stream")
               \/ Gone(t) /\ Ends(t, "left")

\* Mutant of Compact: the guard is looked at, and never set.
CompactUnguarded(t) ==
    LET s == turns[t].session
        h == turns[t].history
    IN  /\ At(t, "compact")
        /\ Generate(t)
        /\ IF NeedsCompaction(h) /\ s \notin guard
           THEN jobs' = [jobs EXCEPT ![t] = [pc |-> "read", older |-> Older(h), cached |-> Nil]]
           ELSE UNCHANGED jobs
        /\ UNCHANGED <<rows, messages, memory, spawned, guard, deletes>>

\* Spawns a compaction of the history this turn read, unless one is at work;
\* the turn itself goes on with the summary that is cached by now, if any.
Compact(t) ==
    LET s == turns[t].session
        h == turns[t].history
    IN  /\ At(t, "compact")
        /\ Generate(t)
        /\ IF NeedsCompaction(h) /\ s \notin guard
           THEN /\ guard' = guard \cup {s}
                /\ jobs' = [jobs EXCEPT ![t] = [pc |-> "read", older |-> Older(h), cached |-> Nil]]
           ELSE UNCHANGED <<guard, jobs>>
        /\ UNCHANGED <<rows, messages, memory, spawned, deletes>>

Disconnect(t) == turns' = [turns EXCEPT ![t].pc = "persist", ![t].connected = FALSE]

\* The agent's stream: to its end, or to a token the client is not there for.
Answer(t) ==
    /\ At(t, "stream")
    /\ \/ Reached(t) /\ Goes(t, "persist")
       \/ Gone(t) /\ Disconnect(t)
    /\ UNCHANGED <<rows, messages, memory, spawned, guard, jobs, deletes>>

\* The error and what was answered so far become a message; a failure of that is ignored.
StoreError(t) == Store(t, "error") \/ UNCHANGED <<messages, spawned>>

\* Mutant of StreamFails: the turn ends where the stream does.
StreamFailsEnds(t) ==
    /\ "stream" \in Faults /\ t \in Fragile
    /\ At(t, "stream")
    /\ Hears(t, "error") /\ Ends(t, "done")
    /\ UNCHANGED <<rows, messages, memory, spawned, guard, jobs, deletes>>

\* After an error of the stream the turn goes on as if the client had left, so
\* that an answer is stored behind the error; a folder of the request that cannot
\* be resolved is told to the client and stored nowhere.
StreamFails(t) ==
    /\ "stream" \in Faults /\ t \in Fragile
    /\ At(t, "stream")
    /\ StoreError(t)
    /\ Hears(t, "error") /\ Disconnect(t)
    /\ UNCHANGED <<rows, memory, guard, jobs, deletes>>

\* Mutant of Persist: a failing create_message is logged and forgotten.
PersistIgnoring(t) ==
    /\ At(t, "persist")
    /\ Goes(t, "complete")
    /\ \/ Store(t, "answer")
       \/ StatementFails /\ UNCHANGED <<messages, spawned>>
    /\ UNCHANGED <<rows, memory, guard, clients, jobs, deletes>>

\* A client that left after the last token loses the answer, one that left
\* before it does not: only the former is still taken for connected.
Persist(t) ==
    /\ At(t, "persist")
    /\ \/ /\ UNCHANGED clients
          /\ Store(t, "answer") /\ Goes(t, "complete")
       \/ /\ turns[t].connected
          /\ Gone(t) /\ Ends(t, "left")
          /\ UNCHANGED <<messages, spawned>>
       \/ /\ StatementFails
          /\ Ends(t, "failed")
          /\ UNCHANGED <<messages, spawned, clients>>
    /\ UNCHANGED <<rows, memory, guard, jobs, deletes>>

Complete(t) ==
    /\ At(t, "complete")
    /\ \/ turns[t].connected /\ (Hears(t, "completed") \/ Gone(t))
       \/ ~turns[t].connected /\ UNCHANGED clients
    /\ Ends(t, "done")
    /\ UNCHANGED <<rows, messages, memory, spawned, guard, jobs, deletes>>

-----------------------------------------------------------------------------
(* A compaction in the background.                                         *)

JobGoes(t, pc) == jobs' = [jobs EXCEPT ![t].pc = pc]

\* The messages after the last compacted one; all of them when it is not there.
NewMessages(older, cached) ==
    IF cached = Nil \/ cached.last \notin Elements(older) THEN Elements(older)
    ELSE {older[i] : i \in {j \in DOMAIN older : \A k \in j..Len(older) : older[k] # cached.last}}

\* Too few new messages, or no session any more: nothing to do.
JobReads(t) ==
    LET s == turns[t].session
        cached == rows[s].cache
        few == cached # Nil /\ Cardinality(NewMessages(jobs[t].older, cached)) < MinRecompact
    IN  /\ jobs[t].pc = "read"
        /\ jobs' = [jobs EXCEPT ![t].pc = IF ~Live(s) \/ few THEN "release" ELSE "write",
                                ![t].cached = cached]
        /\ UNCHANGED <<rows, messages, memory, spawned, guard, turns, clients, deletes>>

Covered(cached) == IF cached = Nil THEN {} ELSE cached.covered

\* The call of the model fails.
JobFails(t) ==
    /\ "model" \in Faults
    /\ jobs[t].pc = "write"
    /\ JobGoes(t, "release")
    /\ UNCHANGED <<rows, messages, memory, spawned, guard, turns, clients, deletes>>

\* Mutant of WriteSummary: the boundary is looked up again, after the call.
WriteSummaryUpToNow(t) ==
    LET s == turns[t].session
        older == jobs[t].older
        cached == jobs[t].cached
    IN  /\ jobs[t].pc = "write"
        /\ rows' = [rows EXCEPT ![s].cache =
                        IF ~Live(s) \/ messages[s] = <<>> THEN @
                        ELSE [last |-> messages[s][Len(messages[s])], covered |-> Covered(cached) \cup NewMessages(older, cached)]]
        /\ JobGoes(t, "release")
        /\ UNCHANGED <<messages, memory, spawned, guard, turns, clients, deletes>>

\* The model merges what is new into the summary it was given; the result and
\* its boundary are cached, if the row is still there.
WriteSummary(t) ==
    LET s == turns[t].session
        older == jobs[t].older
        cached == jobs[t].cached
    IN  /\ jobs[t].pc = "write"
        /\ rows' = [rows EXCEPT ![s].cache =
                        IF ~Live(s) THEN @
                        ELSE [last |-> older[Len(older)], covered |-> Covered(cached) \cup NewMessages(older, cached)]]
        /\ JobGoes(t, "release")
        /\ UNCHANGED <<messages, memory, spawned, guard, turns, clients, deletes>>

Release(t) ==
    /\ jobs[t].pc = "release"
    /\ guard' = guard \ {turns[t].session}
    /\ jobs' = [jobs EXCEPT ![t] = [NoJob EXCEPT !.pc = "done"]]
    /\ UNCHANGED <<rows, messages, memory, spawned, turns, clients, deletes>>

-----------------------------------------------------------------------------
(* Memory and deletion.                                                    *)

IndexMessage(m) ==
    /\ m \in spawned
    /\ spawned' = spawned \ {m}
    /\ \/ memory' = memory \cup {m}
       \/ "memory" \in Faults /\ UNCHANGED memory
    /\ UNCHANGED <<rows, messages, guard, turns, clients, jobs, deletes>>

DeleteGoes(d, pc) == deletes' = [deletes EXCEPT ![d].pc = pc]

Delete(d, s) ==
    /\ deletes[d].pc = "idle"
    /\ Live(s)
    /\ deletes' = [deletes EXCEPT ![d] = [pc |-> "messages", session |-> s]]
    /\ UNCHANGED <<rows, messages, memory, spawned, guard, turns, clients, jobs>>

DeleteMessages(d) ==
    /\ deletes[d].pc = "messages"
    /\ messages' = [messages EXCEPT ![deletes[d].session] = <<>>]
    /\ DeleteGoes(d, "row")
    /\ UNCHANGED <<rows, memory, spawned, guard, turns, clients, jobs>>

DeleteRow(d) ==
    /\ deletes[d].pc = "row"
    /\ rows' = [rows EXCEPT ![deletes[d].session] = [state |-> "deleted", cache |-> Nil]]
    /\ DeleteGoes(d, "vectors")
    /\ UNCHANGED <<messages, memory, spawned, guard, turns, clients, jobs>>

\* Best effort: the rows are gone already.
DeleteVectors(d) ==
    /\ deletes[d].pc = "vectors"
    /\ \/ memory' = {m \in memory : turns[m.turn].session # deletes[d].session}
       \/ "memory" \in Faults /\ UNCHANGED memory
    /\ DeleteGoes(d, "done")
    /\ UNCHANGED <<rows, messages, spawned, guard, turns, clients, jobs>>

-----------------------------------------------------------------------------
TurnStep(t) ==
    \/ ReadHistory(t) \/ SaveUser(t) \/ Compact(t) \/ Answer(t) \/ StreamFails(t) \/ Persist(t) \/ Complete(t)

JobStep(t) == JobReads(t) \/ JobFails(t) \/ WriteSummary(t) \/ Release(t)

DeleteStep(d) == DeleteMessages(d) \/ DeleteRow(d) \/ DeleteVectors(d)

Next ==
    \/ \E t \in Turns : TurnStep(t) \/ JobStep(t) \/ (\E s \in Sessions : Open(t, s))
    \/ \E d \in Deletes : DeleteStep(d) \/ (\E s \in Sessions : Delete(d, s))
    \/ \E m \in Message : IndexMessage(m)

Spec == Init /\ [][Next]_vars

\* Spawned tasks and handlers keep being polled, and every call they await
\* returns, with an error at the latest.
Fairness ==
    /\ \A t \in Turns : WF_vars(TurnStep(t)) /\ WF_vars(JobStep(t))
    /\ \A d \in Deletes : WF_vars(DeleteStep(d))

FairSpec == Spec /\ Fairness

-----------------------------------------------------------------------------
(* Properties.                                                             *)

TurnStates ==
    [pc : {"idle", "history", "save", "compact", "stream", "persist", "complete", "done", "left", "failed"},
     session : Sessions \cup {Nil}, history : Seq(Message), connected : BOOLEAN]

JobStates ==
    [pc : {"idle", "read", "write", "release", "done"}, older : Seq(Message), cached : Caches]

DeleteStates ==
    [pc : {"idle", "messages", "row", "vectors", "done"}, session : Sessions \cup {Nil}]

TypeOK ==
    /\ rows \in [Sessions -> [state : {"unused", "live", "deleted"}, cache : Caches]]
    /\ messages \in [Sessions -> Seq(Message)]
    /\ memory \subseteq Message /\ spawned \subseteq Message /\ guard \subseteq Sessions
    /\ turns \in [Turns -> TurnStates]
    /\ clients \in [Turns -> {"listening", "gone", "error", "completed"}]
    /\ jobs \in [Turns -> JobStates]
    /\ deletes \in [Deletes -> DeleteStates]

\* The cached summary stands for a beginning of the conversation: everything up
\* to the last compacted message is in it, also after a compaction of a history
\* that is older than the cache and does not contain its last message.
SummaryIsPrefix ==
    \A s \in Sessions : \A i \in DOMAIN messages[s] :
        (rows[s].cache # Nil /\ messages[s][i] = rows[s].cache.last) =>
            \A j \in 1..i : messages[s][j] \in rows[s].cache.covered

\* Merging never loses what an earlier summary covered, whichever turns spawned
\* the compactions: no compaction overwrites the result of another that it did
\* not read ("do not delete any information of the existing summary").
SummaryNeverForgets ==
    [][\A s \in Sessions : rows[s].cache # Nil /\ rows'[s].cache # Nil =>
          rows[s].cache.covered \subseteq rows'[s].cache.covered]_rows

Deleting(s) == \E d \in Deletes : deletes[d].session = s

\* A client that was told its turn completed finds question and answer in the
\* session, in this order, as long as nobody deletes it.
CompletedIsStored ==
    \A t \in Turns : (clients[t] = "completed" /\ Live(turns[t].session)
                      /\ ~Deleting(turns[t].session)) =>
        \E i, j \in DOMAIN messages[turns[t].session] :
            i < j /\ messages[turns[t].session][i] = Msg(t, "user")
                  /\ messages[turns[t].session][j] = Msg(t, "answer")

Answered(t) == turns[t].session # Nil /\ \E i \in DOMAIN messages[turns[t].session] :
                  messages[turns[t].session][i] \in {Msg(t, "answer"), Msg(t, "error")}

\* A question that was stored gets something stored for an answer, unless the
\* client left or the database failed: an agent that breaks off is no excuse.
\* (A session that is being deleted is not looked at.)
QuestionsAnswered ==
    \A t \in Turns : turns[t].pc = "compact" ~>
        turns[t].pc \in {"left", "failed"} \/ Deleting(turns[t].session) \/ Answered(t)

=============================================================================
