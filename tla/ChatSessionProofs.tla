-------------------------- MODULE ChatSessionProofs --------------------------
(***************************************************************************)
(* Proofs about ChatSession, for any number of sessions, turns, deletions  *)
(* and compactions and with any of the faults: states are typed, a turn    *)
(* that completed is stored, a summary stands for a beginning of its       *)
(* session, and no compaction forgets what an earlier one had summarised.  *)
(***************************************************************************)
EXTENDS ChatSession, SequenceTheorems, TLAPS

----------------------------------------------------------------------------
(* The inductive invariant *)

Active(t) == jobs[t].pc \in {"read", "write", "release"}

\* A turn at work is in a session; one that has not begun has read nothing.
TurnsNamed ==
  \A t \in Turns :
    /\ turns[t].pc \notin {"idle", "failed"} => turns[t].session \in Sessions
    /\ turns[t].session \in Sessions => rows[turns[t].session].state # "unused"
    /\ turns[t].pc = "idle" => turns[t].history = <<>> /\ ~Active(t) /\ clients[t] # "completed"
    /\ clients[t] = "completed" => turns[t].pc = "done"

DeletesNamed ==
  \A d \in Deletes :
    IF deletes[d].pc = "idle" THEN deletes[d].session = Nil ELSE deletes[d].session \in Sessions

\* A compaction has something to compact.
JobsNamed ==
  \A t \in Turns : Active(t) => turns[t].session \in Sessions /\ jobs[t].older # <<>>

\* The guard: a session has one compaction, and has an entry as long as it runs.
OneJob ==
  \A t \in Turns : Active(t) =>
    /\ turns[t].session \in guard
    /\ \A u \in Turns : Active(u) /\ turns[u].session = turns[t].session => u = t

\* The summary a compaction merges into is still the cached one.
JobsUpToDate ==
  \A t \in Turns : jobs[t].pc = "write" /\ Live(turns[t].session) =>
    jobs[t].cached = rows[turns[t].session].cache

\* A message whose turn is past storing it.
Said(m) ==
  /\ m.kind = "user" => turns[m.turn].pc \notin {"idle", "history", "save"}
  /\ m.kind = "error" => turns[m.turn].pc \notin {"idle", "history", "save", "compact", "stream"}
  /\ m.kind = "answer" =>
       turns[m.turn].pc \notin {"idle", "history", "save", "compact", "stream", "persist"}

AllSaid(seq) == \A m \in Message : (\E i \in DOMAIN seq : seq[i] = m) => Said(m)

\* No message is stored twice.
Once(s) == \A i, j \in DOMAIN messages[s] : messages[s][i] = messages[s][j] => i = j

\* What was read of a session begins its messages, unless they were deleted since.
Old(h, s) ==
  \/ \A i \in DOMAIN h : i \in DOMAIN messages[s] /\ messages[s][i] = h[i]
  \/ \A i \in DOMAIN h : \A j \in DOMAIN messages[s] : messages[s][j] # h[i]

ReadingsAreOld ==
  \A t \in Turns :
    /\ AllSaid(turns[t].history) /\ AllSaid(jobs[t].older)
    /\ turns[t].session \in Sessions => Old(turns[t].history, turns[t].session)
    /\ Active(t) => Old(jobs[t].older, turns[t].session)

\* Everything up to the last message of a summary is in it.
Covers(c, s) ==
  \A i \in DOMAIN messages[s] : messages[s][i] = c.last =>
    \A j \in 1..i : messages[s][j] \in c.covered

CacheFits(c, s) == c # Nil => Said(c.last) /\ Covers(c, s)

MessagesFit == \A s \in Sessions : AllSaid(messages[s]) /\ Once(s) /\ CacheFits(rows[s].cache, s)

CachesFit == \A t \in Turns : Active(t) => CacheFits(jobs[t].cached, turns[t].session)

\* The question of t is stored; its answer is stored behind it.
Asked(t) == \E i \in DOMAIN messages[turns[t].session] : messages[turns[t].session][i] = Msg(t, "user")

BothStored(t) ==
  \E i, j \in DOMAIN messages[turns[t].session] :
    i < j /\ messages[turns[t].session][i] = Msg(t, "user")
          /\ messages[turns[t].session][j] = Msg(t, "answer")

TurnsAreStored ==
  \A t \in Turns : ~Deleting(turns[t].session) =>
    /\ turns[t].pc \in {"compact", "stream", "persist"} => Asked(t)
    /\ turns[t].pc = "complete" \/ clients[t] = "completed" => BothStored(t)

NamedInv == TypeOK /\ TurnsNamed /\ DeletesNamed /\ JobsNamed

GuardInv == OneJob /\ JobsUpToDate

SummaryInv == ReadingsAreOld /\ MessagesFit /\ CachesFit

----------------------------------------------------------------------------
(* What a step does to the turns and to the messages *)

\* t gets to pc, in its session, with what it has read or nothing.
Moves(t, pc) ==
  /\ turns' \in [Turns -> TurnStates]
  /\ turns'[t].pc = pc /\ turns'[t].session = turns[t].session
  /\ turns'[t].history \in {turns[t].history, <<>>}
  /\ \A u \in Turns : u # t => turns'[u] = turns[u]

LEMMA Moving ==
  ASSUME turns \in [Turns -> TurnStates], NEW t \in Turns, NEW pc,
         pc \in {"idle", "history", "save", "compact", "stream", "persist", "complete", "done",
                 "left", "failed"},
         Goes(t, pc) \/ Ends(t, pc) \/ (pc = "persist" /\ Disconnect(t))
  PROVE  Moves(t, pc)
<1>0. turns[t] \in TurnStates /\ <<>> \in Seq(Message)
  OBVIOUS
<1>1. CASE Goes(t, pc)
  <2>1. [turns[t] EXCEPT !.pc = pc] \in TurnStates
    BY <1>0 DEF TurnStates
  <2>2. [turns[t] EXCEPT !.pc = pc].pc = pc /\ [turns[t] EXCEPT !.pc = pc].session = turns[t].session
        /\ [turns[t] EXCEPT !.pc = pc].history = turns[t].history
    BY <1>0 DEF TurnStates
  <2> QED
    BY <1>1, <2>1, <2>2 DEF Goes, Moves
<1>2. CASE Ends(t, pc)
  <2> DEFINE l == [NoTurn EXCEPT !.pc = pc, !.session = turns[t].session]
  <2>1. l \in TurnStates /\ l.pc = pc /\ l.session = turns[t].session /\ l.history = <<>>
    BY <1>0 DEF TurnStates, NoTurn
  <2>2. turns' = [turns EXCEPT ![t] = l]
    BY <1>2 DEF Ends
  <2> HIDE DEF l
  <2> QED
    BY <2>1, <2>2 DEF Moves
<1>3. CASE pc = "persist" /\ Disconnect(t)
  <2> DEFINE l == [turns[t] EXCEPT !.pc = "persist", !.connected = FALSE]
  <2>1. l \in TurnStates /\ l.pc = pc /\ l.session = turns[t].session /\ l.history = turns[t].history
    BY <1>0, <1>3 DEF TurnStates
  <2>2. turns' = [turns EXCEPT ![t] = l]
    BY <1>3 DEF Disconnect
  <2> HIDE DEF l
  <2> QED
    BY <2>1, <2>2 DEF Moves
<1> QED
  BY <1>1, <1>2, <1>3

\* A client hears something, or leaves; nobody else's client does.
Hearing(t) ==
  /\ clients' \in [Turns -> {"listening", "gone", "error", "completed"}]
  /\ \A u \in Turns : u # t => clients'[u] = clients[u]

LEMMA ClientsMove ==
  ASSUME TypeOK, NEW t \in Turns,
         \/ UNCHANGED clients \/ Reached(t) \/ Gone(t) \/ Hears(t, "error") \/ Hears(t, "completed")
  PROVE  Hearing(t)
BY DEF TypeOK, Reached, Gone, Hears, Hearing

\* A message is put behind those of its session.
Stores(s, m) ==
  /\ messages' \in [Sessions -> Seq(Message)]
  /\ messages'[s] = Append(messages[s], m)
  /\ \A r \in Sessions : r # s => messages'[r] = messages[r]

LEMMA Storing ==
  ASSUME TypeOK, NEW t \in Turns, turns[t].session \in Sessions,
         NEW kind \in {"user", "answer", "error"}, Store(t, kind)
  PROVE  Stores(turns[t].session, Msg(t, kind)) /\ Msg(t, kind) \in Message /\ spawned' \subseteq Message
<1>1. Msg(t, kind) \in Message
  BY DEF Msg, Message
<1>2. PICK s \in Sessions : s = turns[t].session
  OBVIOUS
<1>3. messages' = [messages EXCEPT ![s] = Append(messages[s], Msg(t, kind))]
  BY <1>2 DEF Store
<1>4. Append(messages[s], Msg(t, kind)) \in Seq(Message)
  BY <1>1 DEF TypeOK
<1>5. spawned' \subseteq Message
  BY <1>1 DEF TypeOK, Store
<1> QED
  BY <1>1, <1>2, <1>3, <1>4, <1>5 DEF TypeOK, Stores

\* What was there stays in its place.
Grows(s) == \A i \in DOMAIN messages[s] : i \in DOMAIN messages'[s] /\ messages'[s][i] = messages[s][i]

LEMMA AppendAt ==
  ASSUME NEW S, NEW seq \in Seq(S), NEW m \in S
  PROVE  /\ DOMAIN Append(seq, m) = DOMAIN seq \cup {Len(seq) + 1} /\ DOMAIN seq = 1..Len(seq)
         /\ Len(seq) \in Nat /\ Append(seq, m)[Len(seq) + 1] = m
         /\ \A i \in DOMAIN seq : Append(seq, m)[i] = seq[i] /\ i \in Nat /\ i < Len(seq) + 1
OBVIOUS

LEMMA StoringGrows ==
  ASSUME TypeOK, NEW s \in Sessions, NEW m \in Message, Stores(s, m)
  PROVE  /\ \A r \in Sessions : Grows(r)
         /\ Len(messages[s]) + 1 \in DOMAIN messages'[s] /\ messages'[s][Len(messages[s]) + 1] = m
         /\ \A i \in DOMAIN messages[s] : i < Len(messages[s]) + 1
         /\ \A i \in DOMAIN messages'[s] : i \in DOMAIN messages[s] \/ i = Len(messages[s]) + 1
<1>1. messages[s] \in Seq(Message)
  BY DEF TypeOK
<1>2. /\ DOMAIN messages'[s] = DOMAIN messages[s] \cup {Len(messages[s]) + 1}
      /\ messages'[s][Len(messages[s]) + 1] = m
      /\ \A i \in DOMAIN messages[s] :
           messages'[s][i] = messages[s][i] /\ i < Len(messages[s]) + 1
  BY <1>1, AppendAt DEF Stores
<1> QED
  BY <1>2 DEF Stores, Grows

LEMMA RowMoves ==
  ASSUME TypeOK, NEW s \in Sessions, NEW state \in {"unused", "live", "deleted"}, NEW c \in Caches,
         rows' = [rows EXCEPT ![s] = [state |-> state, cache |-> c]]
  PROVE  /\ rows' \in [Sessions -> [state : {"unused", "live", "deleted"}, cache : Caches]]
         /\ rows'[s].state = state /\ rows'[s].cache = c
         /\ \A r \in Sessions : r # s => rows'[r] = rows[r]
BY DEF TypeOK

----------------------------------------------------------------------------
(* States are typed, turns and deletions are in a session *)

LEMMA NoStates ==
  /\ NoJob \in JobStates /\ [NoJob EXCEPT !.pc = "done"] \in JobStates
  /\ [NoJob EXCEPT !.pc = "done"].pc = "done"
<1>1. <<>> \in Seq(Message)
  OBVIOUS
<1> QED
  BY <1>1 DEF NoJob, JobStates, Caches

LEMMA Conversing ==
  /\ Conversation \in Seq(Message)
  /\ \A i \in DOMAIN Conversation : Conversation[i].turn \in Elements(Earlier)
  /\ \A i, j \in DOMAIN Conversation : Conversation[i] = Conversation[j] => i = j
  /\ \A t \in Elements(Earlier) : \E i, j \in DOMAIN Conversation :
       i < j /\ Conversation[i] = Msg(t, "user") /\ Conversation[j] = Msg(t, "answer")
<1>0. Earlier \in Seq(Turns) /\ Len(Earlier) \in Nat /\ DOMAIN Earlier = 1..Len(Earlier)
  BY ChatAssumption
<1>d. DOMAIN Conversation = 1..2 * Len(Earlier)
  BY DEF Conversation
<1>1. ASSUME NEW i \in 1..2 * Len(Earlier)
      PROVE  /\ (i + 1) \div 2 \in 1..Len(Earlier)
             /\ i = 2 * ((i + 1) \div 2) - (IF i % 2 = 1 THEN 1 ELSE 0)
  BY <1>0
<1>2. ASSUME NEW i \in 1..2 * Len(Earlier)
      PROVE  /\ Conversation[i] \in Message
             /\ Conversation[i].turn = Earlier[(i + 1) \div 2]
             /\ Conversation[i].kind = IF i % 2 = 1 THEN "user" ELSE "answer"
  <2>1. Earlier[(i + 1) \div 2] \in Turns
    BY <1>0, <1>1
  <2> QED
    BY <2>1 DEF Conversation, Msg, Message
<1>3. Conversation \in Seq(Message)
  <2>1. 2 * Len(Earlier) \in Nat
    BY <1>0
  <2>2. \A i \in 1..2 * Len(Earlier) : Conversation[i] \in Message
    BY <1>2
  <2>3. Conversation \in [1..2 * Len(Earlier) -> Message]
    BY <2>2 DEF Conversation
  <2> QED
    BY <2>1, <2>3, SeqDef
<1>4. \A i \in DOMAIN Conversation : Conversation[i].turn \in Elements(Earlier)
  BY <1>0, <1>d, <1>1, <1>2 DEF Elements
<1>5. \A i, j \in DOMAIN Conversation : Conversation[i] = Conversation[j] => i = j
  <2> SUFFICES ASSUME NEW i \in 1..2 * Len(Earlier), NEW j \in 1..2 * Len(Earlier),
                      Conversation[i] = Conversation[j]
               PROVE  i = j
    BY <1>d
  <2>1. (i + 1) \div 2 = (j + 1) \div 2
    <3>1. Earlier[(i + 1) \div 2] = Earlier[(j + 1) \div 2]
      BY <1>2
    <3>2. \A k, l \in 1..Len(Earlier) : Earlier[k] = Earlier[l] => k = l
      BY <1>0, ChatAssumption
    <3> QED
      BY <1>1, <3>1, <3>2
  <2>2. (i % 2 = 1) <=> (j % 2 = 1)
    BY <1>2
  <2> QED
    BY <1>1, <2>1, <2>2
<1>6. ASSUME NEW t \in Elements(Earlier)
      PROVE  \E i, j \in DOMAIN Conversation :
               i < j /\ Conversation[i] = Msg(t, "user") /\ Conversation[j] = Msg(t, "answer")
  <2>1. PICK k \in 1..Len(Earlier) : Earlier[k] = t
    BY <1>0 DEF Elements
  <2>2. /\ 2 * k - 1 \in 1..2 * Len(Earlier) /\ 2 * k \in 1..2 * Len(Earlier) /\ 2 * k - 1 < 2 * k
        /\ (2 * k - 1 + 1) \div 2 = k /\ (2 * k + 1) \div 2 = k
        /\ (2 * k - 1) % 2 = 1 /\ (2 * k) % 2 = 0
    BY <1>0
  <2>3. Conversation[2 * k - 1] = Msg(t, "user")
    BY <2>1, <2>2 DEF Conversation
  <2>4. Conversation[2 * k] = Msg(t, "answer")
    BY <2>1, <2>2 DEF Conversation
  <2> QED
    BY <1>d, <2>2, <2>3, <2>4
<1> QED
  BY <1>3, <1>4, <1>5, <1>6

LEMMA NamedInit ==
  ASSUME Init
  PROVE  NamedInv
<1>1. PICK s \in Sessions :
        /\ rows = [r \in Sessions |->
                     [state |-> IF r = s /\ Earlier # <<>> THEN "live" ELSE "unused", cache |-> Nil]]
        /\ messages = [r \in Sessions |-> IF r = s THEN Conversation ELSE <<>>]
        /\ turns = [t \in Turns |-> IF t \in Elements(Earlier)
                                    THEN [NoTurn EXCEPT !.pc = "done", !.session = s] ELSE NoTurn]
  BY DEF Init
<1>2. ASSUME NEW t \in Turns
      PROVE  /\ turns[t] \in TurnStates /\ turns[t].history = <<>>
             /\ t \in Elements(Earlier) => turns[t].pc = "done" /\ turns[t].session = s
             /\ t \notin Elements(Earlier) => turns[t].pc = "idle" /\ turns[t].session = Nil
  <2>1. <<>> \in Seq(Message)
    OBVIOUS
  <2> QED
    BY <1>1, <2>1 DEF TurnStates, NoTurn
<1>3. TypeOK
  <2>1. turns \in [Turns -> TurnStates]
    BY <1>1, <1>2
  <2>2. messages \in [Sessions -> Seq(Message)]
    BY <1>1, Conversing
  <2>3. jobs \in [Turns -> JobStates]
    BY NoStates DEF Init
  <2>4. rows \in [Sessions -> [state : {"unused", "live", "deleted"}, cache : Caches]]
    BY <1>1 DEF Caches
  <2> QED
    BY <2>1, <2>2, <2>3, <2>4 DEF Init, TypeOK, DeleteStates
<1>4. TurnsNamed
  <2> SUFFICES ASSUME NEW t \in Turns
               PROVE  /\ turns[t].pc \notin {"idle", "failed"} => turns[t].session \in Sessions
                      /\ turns[t].session \in Sessions => rows[turns[t].session].state # "unused"
                      /\ turns[t].pc = "idle" =>
                           turns[t].history = <<>> /\ ~Active(t) /\ clients[t] # "completed"
                      /\ clients[t] = "completed" => turns[t].pc = "done"
    BY DEF TurnsNamed
  <2>1. ~Active(t) /\ (clients[t] = "completed" <=> t \in Elements(Earlier))
    BY DEF Init, Active, NoJob
  <2>2. t \in Elements(Earlier) => Earlier # <<>>
    BY DEF Elements
  <2> QED
    BY <1>1, <1>2, <2>1, <2>2, ChatAssumption
<1>5. DeletesNamed
  BY DEF Init, DeletesNamed
<1>6. JobsNamed
  BY DEF Init, JobsNamed, Active, NoJob
<1> QED
  BY <1>3, <1>4, <1>5, <1>6 DEF NamedInv

\* A turn that is in its session goes on, and nothing else does.
LEMMA TurnNamed ==
  ASSUME NamedInv, NEW t \in Turns, NEW to, Moves(t, to), Hearing(t), UNCHANGED rows,
         turns[t].pc \notin {"idle", "failed", "done", "left"}, to # "idle",
         clients'[t] = "completed" => to = "done",
         \A u \in Turns : u # t => jobs'[u] = jobs[u]
  PROVE  TurnsNamed'
BY DEF NamedInv, TurnsNamed, Moves, Hearing, Active

\* Compactions and deletions do not touch the turns.
LEMMA OthersNamed ==
  ASSUME NamedInv, UNCHANGED <<turns, clients>>,
         \A t \in Turns : Active(t)' => Active(t),
         \A s \in Sessions : rows'[s].state = "unused" => rows[s].state = "unused"
  PROVE  TurnsNamed'
BY DEF NamedInv, TurnsNamed

LEMMA OpenNamed ==
  ASSUME NamedInv, NEW t \in Turns, NEW s \in Sessions, Open(t, s)
  PROVE  NamedInv'
<1>0. turns[t] \in TurnStates /\ UNCHANGED <<messages, memory, spawned, guard, jobs, deletes>>
      /\ TypeOK /\ At(t, "idle") /\ TurnsNamed /\ rows[s].cache \in Caches
  BY DEF NamedInv, TypeOK, Open
<1>1. CASE rows[s].state \in {"unused", "live"} /\ UNCHANGED clients
           /\ ((rows' = rows /\ Live(s)) \/ rows' = [rows EXCEPT ![s].state = "live"])
           /\ turns' = [turns EXCEPT ![t].pc = "history", ![t].session = s]
  <2> DEFINE l == [turns[t] EXCEPT !.pc = "history", !.session = s]
  <2>1. l \in TurnStates /\ l.pc = "history" /\ l.session = s
    BY <1>0 DEF TurnStates
  <2>2. turns' = [turns EXCEPT ![t] = l]
    BY <1>1
  <2> HIDE DEF l
  <2>3. turns' \in [Turns -> TurnStates] /\ turns'[t] = l /\ \A u \in Turns : u # t => turns'[u] = turns[u]
    BY <1>0, <2>1, <2>2 DEF TypeOK
  <2>4. rows' \in [Sessions -> [state : {"unused", "live", "deleted"}, cache : Caches]]
    BY <1>0, <1>1 DEF TypeOK
  <2>5. \A r \in Sessions : rows'[r].state = "unused" => rows[r].state = "unused" /\ r # s
    BY <1>0, <1>1 DEF TypeOK, Live
  <2>6. TurnsNamed'
    BY <1>0, <1>1, <2>1, <2>3, <2>5 DEF TurnsNamed, At, Active
  <2>7. JobsNamed'
    BY <1>0, <2>3 DEF NamedInv, JobsNamed, TurnsNamed, At, Active
  <2> QED
    BY <1>0, <1>1, <2>3, <2>4, <2>6, <2>7 DEF NamedInv, TypeOK, DeletesNamed
<1>2. CASE Ends(t, "failed") /\ Hears(t, "error") /\ UNCHANGED rows
  <2>1. Moves(t, "failed") /\ Hearing(t) /\ clients'[t] \in {"gone", "error"}
    BY <1>0, <1>2, Moving, ClientsMove DEF TypeOK, Hears
  <2>2. TurnsNamed'
    BY <1>0, <1>2, <2>1 DEF TurnsNamed, At, Active, Moves, Hearing
  <2>3. JobsNamed'
    BY <1>0, <2>1 DEF NamedInv, JobsNamed, TurnsNamed, At, Active, Moves
  <2> QED
    BY <1>0, <1>2, <2>1, <2>2, <2>3 DEF NamedInv, TypeOK, DeletesNamed, Moves, Hearing
<1> QED
  BY <1>0, <1>1, <1>2 DEF Open, Live

LEMMA ReadHistoryMoves ==
  ASSUME NamedInv, NEW t \in Turns, ReadHistory(t)
  PROVE  /\ turns' \in [Turns -> TurnStates]
         /\ turns'[t].pc = "save" /\ turns'[t].session = turns[t].session
         /\ turns'[t].history \in {turns[t].history, <<>>, messages[turns[t].session]}
         /\ \A u \in Turns : u # t => turns'[u] = turns[u]
<1>0. turns[t] \in TurnStates /\ turns[t].session \in Sessions /\ <<>> \in Seq(Message)
      /\ messages[turns[t].session] \in Seq(Message) /\ turns \in [Turns -> TurnStates]
  BY DEF NamedInv, TypeOK, TurnsNamed, ReadHistory, At
<1>1. CASE Goes(t, "save")
  BY <1>0, <1>1, Moving DEF Moves
<1>2. PICK h : h = IF Live(turns[t].session) THEN messages[turns[t].session] ELSE <<>>
  OBVIOUS
<1>3. CASE turns' = [turns EXCEPT ![t].pc = "save", ![t].history = h]
  <2> DEFINE l == [turns[t] EXCEPT !.pc = "save", !.history = h]
  <2>1. l \in TurnStates /\ l.pc = "save" /\ l.session = turns[t].session /\ l.history = h
    BY <1>0, <1>2 DEF TurnStates
  <2>2. turns' = [turns EXCEPT ![t] = l]
    BY <1>3
  <2> HIDE DEF l
  <2> QED
    BY <1>0, <1>2, <2>1, <2>2
<1> QED
  BY <1>1, <1>2, <1>3 DEF ReadHistory

----------------------------------------------------------------------------
(* The steps of a turn, from one pc to the next *)

\* Where a turn goes, and which of its messages it stores on the way.
Transition(t, to) ==
  LET from == turns[t].pc
      s == turns[t].session IN
  \/ from = "save" /\ to = "compact" /\ Stores(s, Msg(t, "user"))
  \/ from \in {"save", "compact", "persist"} /\ to \in {"left", "failed"} /\ UNCHANGED messages
  \/ from = "compact" /\ to = "stream" /\ UNCHANGED messages
  \/ from = "stream" /\ to = "persist" /\ (UNCHANGED messages \/ Stores(s, Msg(t, "error")))
  \/ from = "persist" /\ to = "complete" /\ Stores(s, Msg(t, "answer"))
  \/ from = "complete" /\ to = "done" /\ UNCHANGED messages

GoesOn(t, to) ==
  /\ Moves(t, to) /\ Transition(t, to)
  /\ Hearing(t) /\ (clients'[t] = "completed" => to = "done")
  /\ messages' \in [Sessions -> Seq(Message)] /\ spawned' \subseteq Message
  /\ UNCHANGED <<rows, memory, deletes>>

\* The steps of a turn but Compact leave the compactions alone.
LEMMA TurnGoesOn ==
  ASSUME NamedInv, NEW t \in Turns,
         SaveUser(t) \/ Answer(t) \/ StreamFails(t) \/ Persist(t) \/ Complete(t)
  PROVE  (\E to : GoesOn(t, to)) /\ UNCHANGED <<guard, jobs>>
<1>0. /\ TypeOK /\ turns \in [Turns -> TurnStates]
      /\ turns[t].pc \in {"save", "stream", "persist", "complete"} => turns[t].session \in Sessions
      /\ turns[t].pc \in {"save", "stream", "persist", "complete"} => clients[t] # "completed"
      /\ messages \in [Sessions -> Seq(Message)] /\ spawned \subseteq Message
  BY DEF NamedInv, TypeOK, TurnsNamed
<1>1. CASE SaveUser(t)
  <2>1. CASE Reached(t) /\ Store(t, "user") /\ Goes(t, "compact")
    <3>1. Moves(t, "compact") /\ Hearing(t) /\ Stores(turns[t].session, Msg(t, "user"))
          /\ spawned' \subseteq Message
      BY <1>0, <1>1, <2>1, Moving, ClientsMove, Storing DEF SaveUser, At
    <3>2. GoesOn(t, "compact")
      BY <1>0, <1>1, <2>1, <3>1 DEF GoesOn, Transition, SaveUser, At, Reached, Stores
    <3> QED
      BY <1>1, <3>2 DEF SaveUser
  <2>2. CASE Gone(t) /\ Ends(t, "left") /\ UNCHANGED <<messages, spawned>>
    <3>1. Moves(t, "left") /\ Hearing(t) /\ clients'[t] # "completed"
      BY <1>0, <2>2, Moving, ClientsMove DEF Gone, TypeOK
    <3>2. GoesOn(t, "left")
      BY <1>0, <1>1, <2>2, <3>1 DEF GoesOn, Transition, SaveUser, At
    <3> QED
      BY <1>1, <3>2 DEF SaveUser
  <2>3. CASE Ends(t, "failed") /\ UNCHANGED <<messages, spawned, clients>>
    <3>1. Moves(t, "failed") /\ Hearing(t)
      BY <1>0, <2>3, Moving, ClientsMove
    <3>2. GoesOn(t, "failed")
      BY <1>0, <1>1, <2>3, <3>1 DEF GoesOn, Transition, SaveUser, At
    <3> QED
      BY <1>1, <3>2 DEF SaveUser
  <2> QED
    BY <1>1, <2>1, <2>2, <2>3 DEF SaveUser
<1>2. CASE Answer(t)
  <2>1. Moves(t, "persist") /\ Hearing(t) /\ clients'[t] # "completed"
    BY <1>0, <1>2, Moving, ClientsMove DEF Answer, At, Reached, Gone, TypeOK
  <2>2. GoesOn(t, "persist")
    BY <1>0, <1>2, <2>1 DEF GoesOn, Transition, Answer, At
  <2> QED
    BY <1>2, <2>2 DEF Answer
<1>3. CASE StreamFails(t)
  <2>1. Moves(t, "persist") /\ Hearing(t) /\ clients'[t] # "completed"
    BY <1>0, <1>3, Moving, ClientsMove DEF StreamFails, Hears, TypeOK
  <2>2. /\ UNCHANGED messages \/ Stores(turns[t].session, Msg(t, "error"))
        /\ messages' \in [Sessions -> Seq(Message)] /\ spawned' \subseteq Message
    BY <1>0, <1>3, Storing DEF StreamFails, StoreError, At, Stores
  <2>3. GoesOn(t, "persist")
    BY <1>0, <1>3, <2>1, <2>2 DEF GoesOn, Transition, StreamFails, At
  <2> QED
    BY <1>3, <2>3 DEF StreamFails
<1>4. CASE Persist(t)
  <2>1. CASE UNCHANGED clients /\ Store(t, "answer") /\ Goes(t, "complete")
    <3>1. Moves(t, "complete") /\ Hearing(t) /\ Stores(turns[t].session, Msg(t, "answer"))
          /\ spawned' \subseteq Message
      BY <1>0, <1>4, <2>1, Moving, ClientsMove, Storing DEF Persist, At
    <3>2. GoesOn(t, "complete")
      BY <1>0, <1>4, <2>1, <3>1 DEF GoesOn, Transition, Persist, At, Stores
    <3> QED
      BY <1>4, <3>2 DEF Persist
  <2>2. CASE Gone(t) /\ Ends(t, "left") /\ UNCHANGED <<messages, spawned>>
    <3>1. Moves(t, "left") /\ Hearing(t) /\ clients'[t] # "completed"
      BY <1>0, <2>2, Moving, ClientsMove DEF Gone, TypeOK
    <3>2. GoesOn(t, "left")
      BY <1>0, <1>4, <2>2, <3>1 DEF GoesOn, Transition, Persist, At
    <3> QED
      BY <1>4, <3>2 DEF Persist
  <2>3. CASE Ends(t, "failed") /\ UNCHANGED <<messages, spawned, clients>>
    <3>1. Moves(t, "failed") /\ Hearing(t)
      BY <1>0, <2>3, Moving, ClientsMove
    <3>2. GoesOn(t, "failed")
      BY <1>0, <1>4, <2>3, <3>1 DEF GoesOn, Transition, Persist, At
    <3> QED
      BY <1>4, <3>2 DEF Persist
  <2> QED
    BY <1>4, <2>1, <2>2, <2>3 DEF Persist
<1>5. CASE Complete(t)
  <2>1. Moves(t, "done") /\ Hearing(t)
    BY <1>0, <1>5, Moving, ClientsMove DEF Complete, At
  <2>2. GoesOn(t, "done")
    BY <1>0, <1>5, <2>1 DEF GoesOn, Transition, Complete, At
  <2> QED
    BY <1>5, <2>2 DEF Complete
<1> QED
  BY <1>1, <1>2, <1>3, <1>4, <1>5

NewJob(t) == [pc |-> "read", older |-> Older(turns[t].history), cached |-> Nil]

\* Compact also spawns a job for what the turn has read, if nobody else has.
LEMMA CompactGoesOn ==
  ASSUME NamedInv, NEW t \in Turns, Compact(t)
  PROVE  /\ \E to : GoesOn(t, to)
         /\ \/ UNCHANGED <<guard, jobs>>
            \/ /\ NeedsCompaction(turns[t].history) /\ turns[t].session \notin guard
               /\ turns[t].session \in Sessions /\ guard' = guard \cup {turns[t].session}
               /\ jobs' = [jobs EXCEPT ![t] = NewJob(t)]
<1>0. /\ TypeOK /\ turns \in [Turns -> TurnStates] /\ turns[t].pc = "compact"
      /\ turns[t].session \in Sessions /\ clients[t] # "completed"
      /\ messages \in [Sessions -> Seq(Message)] /\ spawned \subseteq Message
  BY DEF NamedInv, TypeOK, TurnsNamed, Compact, At
<1>1. PICK to \in {"stream", "left"} : Moves(t, to) /\ Hearing(t) /\ clients'[t] # "completed"
  <2>1. CASE Reached(t) /\ Goes(t, "stream")
    <3>1. Moves(t, "stream") /\ Hearing(t) /\ clients'[t] # "completed"
      BY <1>0, <2>1, Moving, ClientsMove DEF Reached
    <3> QED
      BY <3>1
  <2>2. CASE Gone(t) /\ Ends(t, "left")
    <3>1. Moves(t, "left") /\ Hearing(t) /\ clients'[t] # "completed"
      BY <1>0, <2>2, Moving, ClientsMove DEF Gone, TypeOK
    <3> QED
      BY <3>1
  <2> QED
    BY <2>1, <2>2 DEF Compact, Generate
<1>2. GoesOn(t, to)
  BY <1>0, <1>1 DEF GoesOn, Transition, Compact
<1> QED
  BY <1>0, <1>2 DEF Compact, NewJob

----------------------------------------------------------------------------
(* The steps of compactions and deletions *)

\* A job gets another state, the others keep theirs.
JobMoves(t, l) ==
  /\ jobs' \in [Turns -> JobStates] /\ jobs'[t] = l
  /\ \A u \in Turns : u # t => jobs'[u] = jobs[u]

LEMMA JobMoving ==
  ASSUME TypeOK, NEW t \in Turns, NEW l \in JobStates, jobs' = [jobs EXCEPT ![t] = l]
  PROVE  JobMoves(t, l)
BY DEF TypeOK, JobMoves

\* Where a job gets to, and with what.
LEMMA JobReading ==
  ASSUME NamedInv, NEW t \in Turns, JobReads(t)
  PROVE  /\ Active(t) /\ turns[t].session \in Sessions /\ jobs' \in [Turns -> JobStates]
         /\ jobs'[t].pc \in {"release", "write"} /\ (jobs'[t].pc = "write" => Live(turns[t].session))
         /\ jobs'[t].older = jobs[t].older /\ jobs'[t].cached = rows[turns[t].session].cache
         /\ \A u \in Turns : u # t => jobs'[u] = jobs[u]
         /\ UNCHANGED <<rows, messages, memory, spawned, guard, turns, clients, deletes>>
<1>0. TypeOK /\ jobs[t] \in JobStates /\ jobs[t].pc = "read" /\ Active(t)
  BY DEF NamedInv, TypeOK, JobReads, Active
<1>1. PICK s \in Sessions : s = turns[t].session
  BY <1>0 DEF NamedInv, JobsNamed
<1>2. rows[s].cache \in Caches
  BY <1>0 DEF TypeOK
<1>3. PICK pc \in {"release", "write"} :
        /\ jobs' = [jobs EXCEPT ![t].pc = pc, ![t].cached = rows[s].cache]
        /\ pc = "write" => Live(s)
  <2>1. PICK pc :
          pc = IF \/ ~Live(s)
                  \/ /\ rows[s].cache # Nil
                     /\ Cardinality(NewMessages(jobs[t].older, rows[s].cache)) < MinRecompact
               THEN "release" ELSE "write"
    OBVIOUS
  <2>2. jobs' = [jobs EXCEPT ![t].pc = pc, ![t].cached = rows[s].cache]
    BY <1>1, <2>1 DEF JobReads
  <2>3. pc \in {"release", "write"} /\ (pc = "write" => Live(s))
    BY <2>1
  <2> QED
    BY <2>2, <2>3
<1> DEFINE l == [jobs[t] EXCEPT !.pc = pc, !.cached = rows[s].cache]
<1>4. l \in JobStates /\ l.pc = pc /\ l.cached = rows[s].cache /\ l.older = jobs[t].older
  BY <1>0, <1>2 DEF JobStates
<1>5. jobs' = [jobs EXCEPT ![t] = l]
  BY <1>3
<1> HIDE DEF l
<1>6. JobMoves(t, l)
  BY <1>0, <1>4, <1>5, JobMoving
<1> QED
  BY <1>0, <1>1, <1>3, <1>4, <1>6 DEF JobMoves, JobReads

LEMMA JobGoing ==
  ASSUME TypeOK, NEW t \in Turns, JobGoes(t, "release")
  PROVE  /\ jobs' \in [Turns -> JobStates]
         /\ jobs'[t].pc = "release" /\ jobs'[t].older = jobs[t].older /\ jobs'[t].cached = jobs[t].cached
         /\ \A u \in Turns : u # t => jobs'[u] = jobs[u]
<1> DEFINE l == [jobs[t] EXCEPT !.pc = "release"]
<1>1. l \in JobStates /\ l.pc = "release" /\ l.cached = jobs[t].cached /\ l.older = jobs[t].older
  BY DEF TypeOK, JobStates
<1>2. jobs' = [jobs EXCEPT ![t] = l]
  BY DEF JobGoes
<1> HIDE DEF l
<1> QED
  BY <1>1, <1>2, JobMoving DEF JobMoves

\* What WriteSummary caches.
Merged(older, cached) ==
  [last |-> older[Len(older)], covered |-> Covered(cached) \cup NewMessages(older, cached)]

LEMMA MergedIsSummary ==
  ASSUME NEW older \in Seq(Message), older # <<>>, NEW cached \in Caches
  PROVE  /\ Merged(older, cached) \in Summaries /\ Merged(older, cached) # Nil
         /\ Len(older) \in DOMAIN older /\ DOMAIN older = 1..Len(older) /\ Len(older) \in Nat
<1>1. Len(older) \in DOMAIN older /\ DOMAIN older = 1..Len(older) /\ Len(older) \in Nat
  BY EmptySeq
<1>2. Elements(older) \subseteq Message
  BY <1>1 DEF Elements
<1>3. NewMessages(older, cached) \subseteq Message
  BY <1>2 DEF NewMessages, Elements
<1>4. Covered(cached) \subseteq Message
  BY DEF Covered, Caches, Summaries
<1>5. older[Len(older)] \in Message
  BY <1>1
<1>6. Merged(older, cached) \in Summaries
  BY <1>3, <1>4, <1>5 DEF Merged, Summaries
<1> QED
  BY <1>1, <1>6, ChatAssumption

LEMMA SummaryWriting ==
  ASSUME NamedInv, NEW t \in Turns, WriteSummary(t)
  PROVE  /\ Active(t) /\ turns[t].session \in Sessions
         /\ Merged(jobs[t].older, jobs[t].cached) \in Summaries
         /\ rows' \in [Sessions -> [state : {"unused", "live", "deleted"}, cache : Caches]]
         /\ \A s \in Sessions : rows'[s].state = rows[s].state
         /\ rows'[turns[t].session].cache =
              IF Live(turns[t].session) THEN Merged(jobs[t].older, jobs[t].cached)
              ELSE rows[turns[t].session].cache
         /\ \A s \in Sessions : s # turns[t].session => rows'[s] = rows[s]
<1>0. TypeOK /\ jobs[t] \in JobStates /\ jobs[t].pc = "write" /\ Active(t)
  BY DEF NamedInv, TypeOK, WriteSummary, Active
<1>1. PICK s \in Sessions : s = turns[t].session
  BY <1>0 DEF NamedInv, JobsNamed
<1>2. Merged(jobs[t].older, jobs[t].cached) \in Summaries
  BY <1>0, MergedIsSummary DEF NamedInv, JobsNamed, JobStates
<1>3. PICK c : c = IF Live(s) THEN Merged(jobs[t].older, jobs[t].cached) ELSE rows[s].cache
  OBVIOUS
<1>4. c \in Caches
  BY <1>0, <1>2, <1>3 DEF TypeOK, Caches
<1>5. rows' = [rows EXCEPT ![s].cache = c]
  BY <1>1, <1>3 DEF WriteSummary, Merged
<1> DEFINE l == [rows[s] EXCEPT !.cache = c]
<1>6. l \in [state : {"unused", "live", "deleted"}, cache : Caches] /\ l.state = rows[s].state /\ l.cache = c
  BY <1>0, <1>4 DEF TypeOK
<1>7. rows' = [rows EXCEPT ![s] = l]
  BY <1>5
<1> HIDE DEF l
<1>8. rows' \in [Sessions -> [state : {"unused", "live", "deleted"}, cache : Caches]]
      /\ rows'[s] = l /\ \A r \in Sessions : r # s => rows'[r] = rows[r]
  BY <1>0, <1>6, <1>7 DEF TypeOK
<1> QED
  BY <1>0, <1>1, <1>2, <1>3, <1>6, <1>8

\* A deletion gets to pc and stays in its session.
DeleteMoves(d, pc) ==
  /\ deletes' \in [Deletes -> DeleteStates]
  /\ deletes'[d].pc = pc /\ deletes'[d].session = deletes[d].session
  /\ \A e \in Deletes : e # d => deletes'[e] = deletes[e]

LEMMA DeleteMoving ==
  ASSUME TypeOK, NEW d \in Deletes, NEW pc \in {"row", "vectors", "done"}, DeleteGoes(d, pc)
  PROVE  DeleteMoves(d, pc)
<1> DEFINE l == [deletes[d] EXCEPT !.pc = pc]
<1>1. l \in DeleteStates /\ l.pc = pc /\ l.session = deletes[d].session
  BY DEF TypeOK, DeleteStates
<1>2. deletes' = [deletes EXCEPT ![d] = l]
  BY DEF DeleteGoes
<1> HIDE DEF l
<1> QED
  BY <1>1, <1>2 DEF TypeOK, DeleteMoves

\* A deletion that has begun: its session is named, and it stays so.
LEMMA DeletesStay ==
  ASSUME NamedInv, NEW d \in Deletes, DeleteStep(d)
  PROVE  /\ \E pc \in {"row", "vectors", "done"} : DeleteMoves(d, pc)
         /\ deletes[d].session \in Sessions /\ DeletesNamed'
         /\ \A s \in Sessions : Deleting(s) => Deleting(s)'
<1>1. PICK pc \in {"row", "vectors", "done"} : DeleteMoves(d, pc)
  BY DeleteMoving DEF DeleteStep, DeleteMessages, DeleteRow, DeleteVectors, NamedInv
<1>2. deletes[d].pc # "idle"
  BY DEF DeleteStep, DeleteMessages, DeleteRow, DeleteVectors
<1> QED
  BY <1>1, <1>2 DEF NamedInv, DeletesNamed, DeleteMoves, Deleting

LEMMA TurnsStayNamed ==
  ASSUME NamedInv, NEW t \in Turns, TurnStep(t)
  PROVE  NamedInv'
<1>0. TypeOK /\ DeletesNamed /\ JobsNamed /\ turns[t].pc \notin {"idle", "failed", "done", "left"}
      /\ turns[t].session \in Sessions /\ clients[t] # "completed"
  BY DEF NamedInv, TurnsNamed, TurnStep, At, ReadHistory, SaveUser, Compact, Answer, StreamFails,
         Persist, Complete
<1>1. CASE ReadHistory(t)
  <2>0. UNCHANGED <<rows, messages, memory, spawned, guard, clients, jobs, deletes>>
    BY <1>1 DEF ReadHistory
  <2>1. TurnsNamed' /\ JobsNamed'
    BY <1>0, <1>1, <2>0, ReadHistoryMoves DEF NamedInv, TurnsNamed, JobsNamed, Active
  <2> QED
    BY <1>0, <1>1, <2>0, <2>1, ReadHistoryMoves DEF NamedInv, TypeOK, DeletesNamed
<1>2. ASSUME NEW to, GoesOn(t, to), jobs' \in [Turns -> JobStates], guard' \subseteq Sessions,
             \A u \in Turns : u # t => jobs'[u] = jobs[u], Active(t)' => jobs'[t].older # <<>>
      PROVE  NamedInv'
  <2>1. to # "idle"
    BY <1>2 DEF GoesOn, Transition
  <2>2. TurnsNamed'
    BY <1>0, <1>2, <2>1, TurnNamed DEF GoesOn
  <2>3. JobsNamed'
    BY <1>0, <1>2 DEF JobsNamed, GoesOn, Moves, Active
  <2> QED
    BY <1>0, <1>2, <2>2, <2>3 DEF NamedInv, TypeOK, DeletesNamed, GoesOn, Moves, Hearing
<1>3. CASE UNCHANGED <<guard, jobs>> /\ \E to : GoesOn(t, to)
  BY <1>0, <1>2, <1>3 DEF TypeOK, JobsNamed, Active
<1>4. CASE Compact(t)
  <2>1. CASE /\ NeedsCompaction(turns[t].history) /\ guard' = guard \cup {turns[t].session}
             /\ jobs' = [jobs EXCEPT ![t] = NewJob(t)]
    <3> DEFINE h == turns[t].history
               l == NewJob(t)
    <3>1. h \in Seq(Message) /\ Recent \in Nat \ {0} /\ Len(h) \in Nat /\ Len(h) > Recent
      BY <1>0, <2>1, ChatAssumption DEF TypeOK, TurnStates, NeedsCompaction
    <3>2. Older(h) \in Seq(Message) /\ Older(h) # <<>>
      <4> HIDE DEF h
      <4>1. Older(h) \in Seq(Message) /\ Len(Older(h)) = Len(h) - Recent
        BY <3>1, SubSeqProperties DEF Older
      <4> QED
        BY <3>1, <4>1, EmptySeq
    <3>3. l \in JobStates /\ l.older # <<>>
      BY <3>2 DEF NewJob, JobStates, Caches
    <3>4. JobMoves(t, l)
      BY <1>0, <2>1, <3>3, JobMoving
    <3> HIDE DEF l
    <3>5. jobs'[t].older # <<>> /\ guard' \subseteq Sessions
      BY <1>0, <2>1, <3>3, <3>4 DEF JobMoves, TypeOK
    <3> QED
      BY <1>2, <1>4, <3>4, <3>5, CompactGoesOn DEF JobMoves
  <2> QED
    BY <1>3, <1>4, <2>1, CompactGoesOn
<1> QED
  BY <1>1, <1>3, <1>4, TurnGoesOn DEF TurnStep

LEMMA JobsStayNamed ==
  ASSUME NamedInv, NEW t \in Turns, JobStep(t)
  PROVE  NamedInv'
<1>0. TypeOK /\ JobsNamed /\ DeletesNamed /\ UNCHANGED <<messages, memory, spawned, turns, clients, deletes>>
  BY DEF NamedInv, JobStep, JobReads, JobFails, WriteSummary, Release
<1>1. ASSUME jobs' \in [Turns -> JobStates], \A u \in Turns : u # t => jobs'[u] = jobs[u],
             Active(t)' => Active(t) /\ jobs'[t].older = jobs[t].older,
             rows' \in [Sessions -> [state : {"unused", "live", "deleted"}, cache : Caches]],
             \A s \in Sessions : rows'[s].state = rows[s].state, guard' \subseteq Sessions
      PROVE  NamedInv'
  <2>1. JobsNamed' /\ \A u \in Turns : Active(u)' => Active(u)
    BY <1>0, <1>1 DEF JobsNamed, Active
  <2>2. TurnsNamed'
    BY <1>0, <1>1, <2>1, OthersNamed
  <2> QED
    BY <1>0, <1>1, <2>1, <2>2 DEF NamedInv, TypeOK, DeletesNamed
<1>2. CASE JobReads(t)
  BY <1>0, <1>1, <1>2, JobReading DEF TypeOK
<1>3. CASE JobFails(t)
  <2>1. JobGoes(t, "release") /\ UNCHANGED <<rows, guard>> /\ Active(t)
    BY <1>3 DEF JobFails, Active
  <2> QED
    BY <1>0, <1>1, <2>1, JobGoing DEF TypeOK
<1>4. CASE WriteSummary(t)
  <2>1. JobGoes(t, "release") /\ UNCHANGED guard
    BY <1>4 DEF WriteSummary
  <2> QED
    BY <1>0, <1>1, <1>4, <2>1, JobGoing, SummaryWriting DEF TypeOK
<1>5. CASE Release(t)
  <2> DEFINE l == [NoJob EXCEPT !.pc = "done"]
  <2>1. l \in JobStates /\ l.pc = "done"
    BY NoStates
  <2>2. jobs' = [jobs EXCEPT ![t] = l] /\ guard' \subseteq guard /\ UNCHANGED rows
    BY <1>5 DEF Release
  <2> HIDE DEF l
  <2>3. JobMoves(t, l)
    BY <1>0, <2>1, <2>2, JobMoving
  <2>4. ~Active(t)'
    BY <2>1, <2>3 DEF JobMoves, Active
  <2> QED
    BY <1>0, <1>1, <2>2, <2>3, <2>4 DEF TypeOK, JobMoves
<1> QED
  BY <1>2, <1>3, <1>4, <1>5 DEF JobStep

LEMMA DeletesStayNamed ==
  ASSUME NamedInv, NEW d \in Deletes, DeleteStep(d) \/ \E s \in Sessions : Delete(d, s)
  PROVE  NamedInv'
<1>0. TypeOK /\ JobsNamed /\ DeletesNamed /\ UNCHANGED <<spawned, guard, turns, clients, jobs>>
  BY DEF NamedInv, DeleteStep, DeleteMessages, DeleteRow, DeleteVectors, Delete
<1>1. ASSUME deletes' \in [Deletes -> DeleteStates], DeletesNamed', memory' \subseteq Message,
             rows' \in [Sessions -> [state : {"unused", "live", "deleted"}, cache : Caches]],
             \A s \in Sessions : rows'[s].state = "unused" => rows[s].state = "unused",
             messages' \in [Sessions -> Seq(Message)]
      PROVE  NamedInv'
  <2>1. JobsNamed' /\ \A u \in Turns : Active(u)' => Active(u)
    BY <1>0 DEF JobsNamed, Active
  <2>2. TurnsNamed'
    BY <1>0, <1>1, <2>1, OthersNamed
  <2> QED
    BY <1>0, <1>1, <2>1, <2>2 DEF NamedInv, TypeOK
<1>2. CASE DeleteMessages(d)
  <2>1. messages' \in [Sessions -> Seq(Message)]
    <3>1. <<>> \in Seq(Message)
      OBVIOUS
    <3> QED
      BY <1>0, <1>2, <3>1 DEF DeleteMessages, TypeOK
  <2> QED
    BY <1>0, <1>1, <1>2, <2>1, DeletesStay DEF DeleteStep, DeleteMessages, DeleteMoves, TypeOK
<1>3. CASE DeleteRow(d)
  <2>1. DeletesNamed' /\ deletes' \in [Deletes -> DeleteStates] /\ deletes[d].session \in Sessions
    BY <1>3, DeletesStay DEF DeleteStep, DeleteMoves
  <2>2. UNCHANGED <<messages, memory>>
        /\ rows' = [rows EXCEPT ![deletes[d].session] = [state |-> "deleted", cache |-> Nil]]
    BY <1>3 DEF DeleteRow
  <2>3. Nil \in Caches
    BY DEF Caches
  <2> QED
    BY <1>0, <1>1, <2>1, <2>2, <2>3, RowMoves DEF TypeOK
<1>4. CASE DeleteVectors(d)
  <2>1. memory' \subseteq Message /\ UNCHANGED <<rows, messages>>
    BY <1>0, <1>4 DEF DeleteVectors, TypeOK
  <2> QED
    BY <1>0, <1>1, <1>4, <2>1, DeletesStay DEF DeleteStep, DeleteMoves, TypeOK
<1>5. ASSUME NEW s \in Sessions, Delete(d, s)
      PROVE  NamedInv'
  <2>1. [pc |-> "messages", session |-> s] \in DeleteStates
    BY DEF DeleteStates
  <2>2. deletes' \in [Deletes -> DeleteStates]
    BY <1>0, <1>5, <2>1 DEF Delete, TypeOK
  <2>3. DeletesNamed'
    BY <1>0, <1>5 DEF Delete, DeletesNamed, TypeOK
  <2> QED
    BY <1>0, <1>1, <1>5, <2>2, <2>3 DEF Delete, TypeOK
<1> QED
  BY <1>2, <1>3, <1>4, <1>5 DEF DeleteStep

LEMMA NamedStep ==
  ASSUME NamedInv, [Next]_vars
  PROVE  NamedInv'
<1>1. ASSUME NEW m \in Message, IndexMessage(m)
      PROVE  NamedInv'
  BY <1>1 DEF IndexMessage, NamedInv, TypeOK, TurnsNamed, DeletesNamed, JobsNamed, Active
<1>2. CASE UNCHANGED vars
  BY <1>2 DEF vars, NamedInv, TypeOK, TurnsNamed, DeletesNamed, JobsNamed, Active
<1> QED
  BY <1>1, <1>2, TurnsStayNamed, JobsStayNamed, DeletesStayNamed, OpenNamed DEF Next

\* States are typed, a turn at work and a deletion are in a session, and a compaction has
\* something to compact.
THEOREM TypeCorrect == Spec => []TypeOK
<1>1. Init => NamedInv
  BY NamedInit
<1>2. NamedInv /\ [Next]_vars => NamedInv'
  BY NamedStep
<1>3. NamedInv => TypeOK
  BY DEF NamedInv
<1> QED
  BY <1>1, <1>2, <1>3, PTL DEF Spec

----------------------------------------------------------------------------
(* What the client of a completed turn can rely on *)

StoredInv == NamedInv /\ TurnsAreStored

TurnIsStored(t) ==
  ~Deleting(turns[t].session) =>
    /\ turns[t].pc \in {"compact", "stream", "persist"} => Asked(t)
    /\ turns[t].pc = "complete" \/ clients[t] = "completed" => BothStored(t)

\* A session loses no message unless it is being deleted.
Keeps(s) == Grows(s) \/ Deleting(s)'

LEMMA StoredStays ==
  ASSUME NEW t \in Turns, TurnIsStored(t), turns[t].session \in Sessions \cup {Nil},
         turns'[t] = turns[t], clients'[t] = clients[t] \/ clients'[t] # "completed",
         turns[t].session \in Sessions => Keeps(turns[t].session),
         turns[t].session \notin Sessions => turns[t].pc \in {"idle", "failed"} /\ clients[t] # "completed",
         Deleting(turns[t].session) => Deleting(turns[t].session)'
  PROVE  TurnIsStored(t)'
<1>1. CASE turns[t].session \notin Sessions
  BY <1>1 DEF TurnIsStored
<1>2. CASE turns[t].session \in Sessions
  <2>1. PICK s \in Sessions : s = turns[t].session
    BY <1>2
  <2>2. SUFFICES ASSUME ~Deleting(s)'
                 PROVE  TurnIsStored(t)'
    BY <2>1 DEF TurnIsStored
  <2>3. ~Deleting(s) /\ Grows(s)
    BY <2>1, <2>2 DEF Keeps
  <2>4. Asked(t) => Asked(t)'
    BY <2>1, <2>3 DEF Asked, Grows
  <2>5. BothStored(t) => BothStored(t)'
    BY <2>1, <2>3 DEF BothStored, Grows
  <2> QED
    BY <2>1, <2>2, <2>3, <2>4, <2>5 DEF TurnIsStored
<1> QED
  BY <1>1, <1>2

LEMMA StoredInit ==
  ASSUME Init
  PROVE  TurnsAreStored
<1>1. PICK s \in Sessions :
        /\ messages = [r \in Sessions |-> IF r = s THEN Conversation ELSE <<>>]
        /\ turns = [t \in Turns |-> IF t \in Elements(Earlier)
                                    THEN [NoTurn EXCEPT !.pc = "done", !.session = s] ELSE NoTurn]
  BY DEF Init
<1>2. ASSUME NEW t \in Turns
      PROVE  TurnIsStored(t)
  <2>1. /\ turns[t].pc \in {"idle", "done"} /\ (clients[t] = "completed" => t \in Elements(Earlier))
        /\ t \in Elements(Earlier) => turns[t].session = s
    BY <1>1 DEF NoTurn, Init
  <2>2. ASSUME t \in Elements(Earlier)
        PROVE  BothStored(t)
    <3>1. messages[turns[t].session] = Conversation
      BY <1>1, <2>1, <2>2
    <3> QED
      BY <2>2, <3>1, Conversing DEF BothStored
  <2> QED
    BY <2>1, <2>2 DEF TurnIsStored
<1> QED
  BY <1>2 DEF TurnsAreStored, TurnIsStored

LEMMA OthersStored ==
  ASSUME StoredInv, UNCHANGED <<turns, clients>>, \A s \in Sessions : Keeps(s),
         \A s \in Sessions \cup {Nil} : Deleting(s) => Deleting(s)'
  PROVE  TurnsAreStored'
<1>1. ASSUME NEW t \in Turns
      PROVE  TurnIsStored(t)'
  <2>1. TurnIsStored(t)
    BY DEF StoredInv, TurnsAreStored, TurnIsStored
  <2>2. turns[t].session \in Sessions \cup {Nil}
        /\ (turns[t].session \notin Sessions =>
              turns[t].pc \in {"idle", "failed"} /\ clients[t] # "completed")
    BY DEF StoredInv, NamedInv, TypeOK, TurnStates, TurnsNamed
  <2> QED
    BY <2>1, <2>2, StoredStays
<1> QED
  BY <1>1 DEF TurnsAreStored, TurnIsStored

LEMMA OneTurnStored ==
  ASSUME StoredInv, NEW t \in Turns, UNCHANGED deletes, \A s \in Sessions : Grows(s),
         \A u \in Turns : u # t => turns'[u] = turns[u] /\ clients'[u] = clients[u],
         TurnIsStored(t)'
  PROVE  TurnsAreStored'
<1>1. ASSUME NEW u \in Turns, u # t
      PROVE  TurnIsStored(u)'
  <2>1. TurnIsStored(u)
    BY DEF StoredInv, TurnsAreStored, TurnIsStored
  <2>2. turns[u].session \in Sessions \cup {Nil}
        /\ (turns[u].session \notin Sessions =>
              turns[u].pc \in {"idle", "failed"} /\ clients[u] # "completed")
    BY DEF StoredInv, NamedInv, TypeOK, TurnStates, TurnsNamed
  <2>3. Deleting(turns[u].session) => Deleting(turns[u].session)'
    BY <1>1 DEF Deleting
  <2> QED
    BY <1>1, <2>1, <2>2, <2>3, StoredStays DEF Keeps
<1> QED
  BY <1>1 DEF TurnsAreStored, TurnIsStored

LEMMA GoingOnStored ==
  ASSUME StoredInv, NEW t \in Turns, NEW to, GoesOn(t, to)
  PROVE  TurnsAreStored'
<1>0. /\ turns[t].pc \notin {"idle", "history", "failed", "done", "left"} /\ clients[t] # "completed"
      /\ turns'[t].session = turns[t].session /\ turns'[t].pc = to /\ UNCHANGED deletes /\ TypeOK
      /\ to \in {"compact", "left", "failed", "stream", "persist", "complete", "done"}
  BY DEF StoredInv, NamedInv, TurnsNamed, GoesOn, Transition, Moves
<1>1. PICK s \in Sessions : s = turns[t].session
  BY <1>0 DEF StoredInv, NamedInv, TurnsNamed
<1>2. \/ UNCHANGED messages
      \/ \E kind \in {"user", "answer", "error"} : Stores(s, Msg(t, kind))
  BY <1>1 DEF GoesOn, Transition
<1>3. \A r \in Sessions : Grows(r)
  <2>1. ASSUME NEW kind \in {"user", "answer", "error"}, Stores(s, Msg(t, kind))
        PROVE  \A r \in Sessions : Grows(r)
    <3>1. Msg(t, kind) \in Message
      BY DEF Msg, Message
    <3> QED
      BY <1>0, <2>1, <3>1, StoringGrows
  <2> QED
    BY <1>2, <2>1 DEF Grows
<1>4. TurnIsStored(t)'
  <2> SUFFICES ASSUME ~Deleting(s)'
               PROVE  /\ to \in {"compact", "stream", "persist"} => Asked(t)'
                      /\ to = "complete" \/ to = "done" => BothStored(t)'
    BY <1>0, <1>1 DEF TurnIsStored, GoesOn
  <2>1. ~Deleting(s)
    BY <1>0 DEF Deleting
  <2>2. /\ turns[t].pc \in {"compact", "stream", "persist"} => Asked(t)
        /\ turns[t].pc = "complete" => BothStored(t)
    BY <1>1, <2>1 DEF StoredInv, TurnsAreStored
  <2>3. (Asked(t) => Asked(t)') /\ (BothStored(t) => BothStored(t)')
    BY <1>0, <1>1, <1>3 DEF Asked, BothStored, Grows
  <2>4. to = "compact" => Asked(t)'
    <3>1. Msg(t, "user") \in Message
      BY DEF Msg, Message
    <3> QED
      BY <1>0, <1>1, <3>1, StoringGrows DEF GoesOn, Transition, Asked
  <2>5. to = "complete" => BothStored(t)'
    <3> SUFFICES ASSUME to = "complete"
                 PROVE  BothStored(t)'
      OBVIOUS
    <3>1. Stores(s, Msg(t, "answer")) /\ Msg(t, "answer") \in Message /\ turns[t].pc = "persist"
      BY <1>1 DEF GoesOn, Transition, Msg, Message
    <3>2. PICK i \in DOMAIN messages[s] : messages[s][i] = Msg(t, "user")
      BY <1>1, <2>2, <3>1 DEF Asked
    <3>3. PICK j : j = Len(messages[s]) + 1
      OBVIOUS
    <3>4. /\ j \in DOMAIN messages'[s] /\ messages'[s][j] = Msg(t, "answer") /\ i < j
          /\ i \in DOMAIN messages'[s] /\ messages'[s][i] = Msg(t, "user")
      BY <1>0, <3>1, <3>2, <3>3, StoringGrows DEF Grows
    <3> QED
      BY <1>0, <1>1, <3>4 DEF BothStored
  <2>6. /\ to \in {"stream", "persist"} => turns[t].pc \in {"compact", "stream"}
        /\ to = "done" => turns[t].pc = "complete"
    BY DEF GoesOn, Transition
  <2> QED
    BY <2>2, <2>3, <2>4, <2>5, <2>6
<1> QED
  BY <1>0, <1>3, <1>4, OneTurnStored DEF GoesOn, Moves, Hearing

LEMMA StoredStep ==
  ASSUME StoredInv, [Next]_vars
  PROVE  TurnsAreStored'
<1>0. NamedInv
  BY DEF StoredInv
<1>g. UNCHANGED messages => \A s \in Sessions : Grows(s)
  BY DEF Grows
<1>1. ASSUME NEW t \in Turns, TurnStep(t)
      PROVE  TurnsAreStored'
  <2>1. CASE ReadHistory(t)
    <3>1. turns'[t].pc = "save" /\ clients[t] # "completed"
      BY <1>0, <2>1, ReadHistoryMoves DEF NamedInv, TurnsNamed, ReadHistory, At
    <3>2. TurnIsStored(t)' /\ UNCHANGED <<messages, deletes, clients>>
      BY <2>1, <3>1 DEF ReadHistory, TurnIsStored
    <3> QED
      BY <1>0, <1>g, <2>1, <3>2, ReadHistoryMoves, OneTurnStored
  <2> QED
    BY <1>0, <1>1, <2>1, TurnGoesOn, CompactGoesOn, GoingOnStored DEF TurnStep
<1>2. ASSUME NEW t \in Turns, NEW s \in Sessions, Open(t, s)
      PROVE  TurnsAreStored'
  <2>0. /\ UNCHANGED <<messages, deletes>> /\ clients[t] # "completed"
        /\ turns \in [Turns -> TurnStates] /\ turns[t] \in TurnStates
        /\ clients \in [Turns -> {"listening", "gone", "error", "completed"}]
    BY <1>0, <1>2 DEF Open, NamedInv, TypeOK, TurnsNamed, At
  <2>1. /\ \A u \in Turns : u # t => turns'[u] = turns[u] /\ clients'[u] = clients[u]
        /\ turns'[t].pc \in {"history", "failed"} /\ clients'[t] # "completed"
        /\ UNCHANGED <<messages, deletes>>
    <3>1. CASE UNCHANGED clients /\ turns' = [turns EXCEPT ![t].pc = "history", ![t].session = s]
      BY <2>0, <3>1 DEF TurnStates
    <3>2. CASE Ends(t, "failed") /\ Hears(t, "error")
      <4>1. Moves(t, "failed") /\ clients'[t] \in {"gone", "error"}
        BY <2>0, <3>2, Moving DEF Hears
      <4> QED
        BY <2>0, <3>2, <4>1 DEF Moves, Hears
    <3> QED
      BY <1>2, <3>1, <3>2 DEF Open
  <2> QED
    BY <1>g, <2>1, OneTurnStored DEF TurnIsStored
<1>3. ASSUME NEW t \in Turns, JobStep(t)
      PROVE  TurnsAreStored'
  <2>1. UNCHANGED <<messages, turns, clients, deletes>>
    BY <1>3 DEF JobStep, JobReads, JobFails, WriteSummary, Release
  <2> QED
    BY <1>g, <2>1, OthersStored DEF Keeps, Deleting
<1>4. ASSUME NEW d \in Deletes, DeleteStep(d)
      PROVE  TurnsAreStored'
  <2>1. UNCHANGED <<turns, clients>> /\ deletes[d].session \in Sessions
        /\ \A s \in Sessions : Deleting(s) => Deleting(s)'
    BY <1>0, <1>4, DeletesStay DEF DeleteStep, DeleteMessages, DeleteRow, DeleteVectors
  <2>x. PICK x \in Sessions : x = deletes[d].session
    BY <2>1
  <2>2. Deleting(x)' /\ (Deleting(Nil) => Deleting(Nil)')
    BY <1>0, <1>4, <2>x, DeletesStay DEF Deleting, DeleteMoves
  <2>3. \A s \in Sessions : s # x => messages'[s] = messages[s]
    BY <1>0, <1>4, <2>x DEF DeleteStep, DeleteMessages, DeleteRow, DeleteVectors, NamedInv, TypeOK
  <2>4. \A s \in Sessions : Keeps(s)
    BY <2>2, <2>3 DEF Keeps, Grows
  <2>5. \A s \in Sessions \cup {Nil} : Deleting(s) => Deleting(s)'
    BY <2>1, <2>2
  <2> QED
    BY <2>1, <2>4, <2>5, OthersStored
<1>5. ASSUME NEW d \in Deletes, NEW s \in Sessions, Delete(d, s)
      PROVE  TurnsAreStored'
  <2>1. UNCHANGED <<messages, turns, clients>> /\ deletes[d].session = Nil
        /\ \A e \in Deletes : e # d => deletes'[e] = deletes[e]
    BY <1>0, <1>5 DEF Delete, NamedInv, TypeOK, DeletesNamed
  <2>2. \A r \in Sessions : Deleting(r) => Deleting(r)'
    BY <2>1, ChatAssumption DEF Deleting
  <2>3. \A t \in Turns : turns[t].session = Nil =>
          turns[t].pc \in {"idle", "failed"} /\ clients[t] # "completed"
    BY <1>0, ChatAssumption DEF NamedInv, TurnsNamed
  <2>4. ASSUME NEW t \in Turns
        PROVE  TurnIsStored(t)'
    <3>1. CASE turns[t].session = Nil
      BY <2>1, <2>3, <3>1 DEF TurnIsStored
    <3>2. CASE turns[t].session \in Sessions
      BY <1>g, <2>1, <2>2, <3>2, StoredStays DEF StoredInv, TurnsAreStored, TurnIsStored, Keeps
    <3> QED
      BY <1>0, <3>1, <3>2 DEF NamedInv, TypeOK, TurnStates
  <2> QED
    BY <2>4 DEF TurnsAreStored, TurnIsStored
<1>6. CASE UNCHANGED vars \/ \E m \in Message : IndexMessage(m)
  <2>1. UNCHANGED <<messages, turns, clients, deletes>>
    BY <1>6 DEF vars, IndexMessage
  <2> QED
    BY <1>g, <2>1, OthersStored DEF Keeps, Deleting
<1> QED
  BY <1>1, <1>2, <1>3, <1>4, <1>5, <1>6 DEF Next

\* A client that was told its turn completed finds question and answer in the session, whatever
\* the other turns, the compactions and the failures do, until somebody deletes it.
THEOREM CompletedTurnsAreStored == Spec => []CompletedIsStored
<1>1. Init => StoredInv
  BY NamedInit, StoredInit DEF StoredInv
<1>2. StoredInv /\ [Next]_vars => StoredInv'
  BY NamedStep, StoredStep DEF StoredInv
<1>3. StoredInv => CompletedIsStored
  BY DEF StoredInv, TurnsAreStored, BothStored, CompletedIsStored
<1> QED
  BY <1>1, <1>2, <1>3, PTL DEF Spec

----------------------------------------------------------------------------
(* Compactions of a session take turns *)

SoleInv == NamedInv /\ GuardInv

\* Steps that leave the guard and the compactions alone.
LEMMA JobsLeftAlone ==
  ASSUME SoleInv, UNCHANGED <<guard, jobs>>,
         \A t \in Turns : Active(t) => turns'[t].session = turns[t].session,
         \A s \in Sessions : rows[s].state # "unused" /\ Live(s)' => Live(s) /\ rows'[s].cache = rows[s].cache
  PROVE  GuardInv'
<1>1. \A t \in Turns : (Active(t)' <=> Active(t)) /\ (jobs[t].pc = "write" => Active(t))
  BY DEF Active
<1>2. OneJob'
  BY <1>1 DEF SoleInv, GuardInv, OneJob
<1>3. ASSUME NEW t \in Turns, jobs[t].pc = "write", Live(turns[t].session)'
      PROVE  jobs[t].cached = rows'[turns'[t].session].cache
  <2>1. PICK s \in Sessions : s = turns[t].session
    BY <1>1, <1>3 DEF SoleInv, NamedInv, JobsNamed
  <2>2. turns'[t].session = s /\ rows[s].state # "unused" /\ Live(s)'
    BY <1>1, <1>3, <2>1 DEF SoleInv, NamedInv, TurnsNamed, Live
  <2> QED
    BY <1>3, <2>1, <2>2 DEF SoleInv, GuardInv, JobsUpToDate
<1> QED
  BY <1>2, <1>3 DEF GuardInv, JobsUpToDate

LEMMA CompactAlone ==
  ASSUME SoleInv, NEW t \in Turns, Compact(t)
  PROVE  GuardInv'
<1>0. /\ \A u \in Turns : turns'[u].session = turns[u].session
      /\ UNCHANGED rows
  BY CompactGoesOn DEF SoleInv, GoesOn, Moves
<1>1. CASE UNCHANGED <<guard, jobs>>
  BY <1>0, <1>1, JobsLeftAlone DEF Live
<1>2. CASE /\ turns[t].session \notin guard /\ guard' = guard \cup {turns[t].session}
           /\ jobs' = [jobs EXCEPT ![t] = NewJob(t)]
  <2>1. jobs'[t].pc = "read" /\ \A u \in Turns : u # t => jobs'[u] = jobs[u]
    BY <1>2 DEF SoleInv, NamedInv, TypeOK, NewJob
  <2>2. ~Active(t) /\ \A u \in Turns : u # t => (Active(u)' <=> Active(u))
    BY <1>2, <2>1 DEF SoleInv, GuardInv, OneJob, Active
  <2>3. \A u \in Turns : Active(u)' => u = t \/ (Active(u) /\ turns[u].session # turns[t].session)
    BY <1>2, <2>2 DEF SoleInv, GuardInv, OneJob
  <2>4. OneJob'
    BY <1>0, <1>2, <2>2, <2>3 DEF SoleInv, GuardInv, OneJob
  <2>5. JobsUpToDate'
    BY <1>0, <2>1 DEF SoleInv, GuardInv, JobsUpToDate, Live
  <2> QED
    BY <2>4, <2>5 DEF GuardInv
<1> QED
  BY <1>1, <1>2, CompactGoesOn DEF SoleInv

\* A compaction goes on, holding what it holds, in a guard that is still its own.
LEMMA JobAlone ==
  ASSUME SoleInv, NEW t \in Turns, Active(t), UNCHANGED <<guard, turns>>,
         \A u \in Turns : u # t => jobs'[u] = jobs[u],
         \A s \in Sessions : s # turns[t].session => rows'[s] = rows[s],
         jobs'[t].pc = "write" /\ Live(turns[t].session)' => jobs'[t].cached = rows'[turns[t].session].cache
  PROVE  GuardInv'
<1>1. \A u \in Turns : u # t =>
        (Active(u)' <=> Active(u)) /\ (Active(u) => turns[u].session # turns[t].session)
  BY DEF Active, SoleInv, GuardInv, OneJob
<1>2. OneJob'
  BY <1>1 DEF SoleInv, GuardInv, OneJob
<1>3. ASSUME NEW u \in Turns, jobs'[u].pc = "write", Live(turns[u].session)'
      PROVE  jobs'[u].cached = rows'[turns[u].session].cache
  <2>1. CASE u = t
    BY <1>3, <2>1
  <2>2. CASE u # t
    <3>1. Active(u) /\ jobs[u].pc = "write" /\ jobs'[u] = jobs[u]
      BY <1>3, <2>2 DEF Active
    <3>2. turns[u].session \in Sessions /\ rows'[turns[u].session] = rows[turns[u].session]
      BY <1>1, <2>2, <3>1 DEF SoleInv, NamedInv, JobsNamed
    <3> QED
      BY <1>3, <3>1, <3>2 DEF SoleInv, GuardInv, JobsUpToDate, Live
  <2> QED
    BY <2>1, <2>2
<1> QED
  BY <1>2, <1>3 DEF GuardInv, JobsUpToDate

LEMMA ReleaseAlone ==
  ASSUME SoleInv, NEW t \in Turns, Release(t)
  PROVE  GuardInv'
<1>0. TypeOK /\ UNCHANGED <<rows, turns>> /\ Active(t) /\ guard' = guard \ {turns[t].session}
  BY DEF SoleInv, NamedInv, Release, Active
<1> DEFINE l == [NoJob EXCEPT !.pc = "done"]
<1>1. l \in JobStates /\ l.pc = "done"
  BY NoStates
<1>2. jobs' = [jobs EXCEPT ![t] = l]
  BY DEF Release
<1> HIDE DEF l
<1>3. jobs'[t].pc = "done" /\ \A u \in Turns : u # t => jobs'[u] = jobs[u]
  BY <1>0, <1>1, <1>2, JobMoving DEF JobMoves
<1>4. \A u \in Turns : Active(u)' => Active(u) /\ turns[u].session # turns[t].session
  BY <1>0, <1>3 DEF Active, SoleInv, GuardInv, OneJob
<1>5. OneJob'
  BY <1>0, <1>4 DEF SoleInv, GuardInv, OneJob
<1>6. JobsUpToDate'
  BY <1>0, <1>3 DEF SoleInv, GuardInv, JobsUpToDate, Live
<1> QED
  BY <1>5, <1>6 DEF GuardInv

LEMMA GuardStep ==
  ASSUME SoleInv, [Next]_vars
  PROVE  GuardInv'
<1>0. NamedInv /\ TypeOK
  BY DEF SoleInv, NamedInv
<1>1. ASSUME NEW t \in Turns, TurnStep(t)
      PROVE  GuardInv'
  <2>1. CASE ReadHistory(t)
    <3>1. UNCHANGED <<guard, jobs, rows>> /\ \A u \in Turns : turns'[u].session = turns[u].session
      BY <1>0, <2>1, ReadHistoryMoves DEF ReadHistory
    <3> QED
      BY <3>1, JobsLeftAlone DEF Live
  <2>2. CASE SaveUser(t) \/ Answer(t) \/ StreamFails(t) \/ Persist(t) \/ Complete(t)
    <3>1. UNCHANGED <<guard, jobs, rows>> /\ \A u \in Turns : turns'[u].session = turns[u].session
      BY <1>0, <2>2, TurnGoesOn DEF GoesOn, Moves
    <3> QED
      BY <3>1, JobsLeftAlone DEF Live
  <2> QED
    BY <1>1, <2>1, <2>2, CompactAlone DEF TurnStep
<1>2. ASSUME NEW t \in Turns, NEW s \in Sessions, Open(t, s)
      PROVE  GuardInv'
  <2>1. UNCHANGED <<guard, jobs>> /\ ~Active(t)
    BY <1>0, <1>2 DEF Open, At, NamedInv, TurnsNamed
  <2>2. \A u \in Turns : u # t => turns'[u] = turns[u]
    BY <1>0, <1>2 DEF Open, Ends, TypeOK
  <2>3. \A r \in Sessions : rows[r].state # "unused" /\ Live(r)' => Live(r) /\ rows'[r].cache = rows[r].cache
    BY <1>0, <1>2 DEF Open, Live, TypeOK
  <2>4. \A u \in Turns : Active(u) => turns'[u].session = turns[u].session
    BY <2>1, <2>2
  <2> QED
    BY <2>1, <2>3, <2>4, JobsLeftAlone
<1>3. ASSUME NEW t \in Turns, JobStep(t)
      PROVE  GuardInv'
  <2>1. CASE JobReads(t)
    BY <1>0, <2>1, JobReading, JobAlone
  <2>2. CASE JobFails(t) \/ WriteSummary(t)
    <3>1. JobGoes(t, "release") /\ Active(t) /\ UNCHANGED <<guard, turns>>
      BY <2>2 DEF JobFails, WriteSummary, Active
    <3>2. \A s \in Sessions : s # turns[t].session => rows'[s] = rows[s]
      BY <1>0, <2>2, SummaryWriting DEF JobFails
    <3> QED
      BY <1>0, <3>1, <3>2, JobGoing, JobAlone
  <2> QED
    BY <1>3, <2>1, <2>2, ReleaseAlone DEF JobStep
<1>4. ASSUME NEW d \in Deletes, DeleteStep(d)
      PROVE  GuardInv'
  <2>1. UNCHANGED <<guard, jobs, turns>>
    BY <1>4 DEF DeleteStep, DeleteMessages, DeleteRow, DeleteVectors
  <2>2. \A r \in Sessions : Live(r)' => Live(r) /\ rows'[r].cache = rows[r].cache
    <3>1. CASE UNCHANGED rows
      BY <3>1 DEF Live
    <3>2. CASE DeleteRow(d)
      BY <1>0, <3>2 DEF DeleteRow, Live, TypeOK
    <3> QED
      BY <1>4, <3>1, <3>2 DEF DeleteStep, DeleteMessages, DeleteVectors
  <2> QED
    BY <2>1, <2>2, JobsLeftAlone
<1>5. CASE UNCHANGED vars \/ (\E m \in Message : IndexMessage(m))
           \/ (\E d \in Deletes, s \in Sessions : Delete(d, s))
  <2>1. UNCHANGED <<guard, jobs, turns, rows>>
    BY <1>5 DEF vars, IndexMessage, Delete
  <2> QED
    BY <2>1, JobsLeftAlone DEF Live
<1> QED
  BY <1>1, <1>2, <1>3, <1>4, <1>5 DEF Next

LEMMA SoleInit ==
  ASSUME Init
  PROVE  SoleInv
<1>1. GuardInv
  BY DEF Init, GuardInv, OneJob, JobsUpToDate, Active, NoJob
<1> QED
  BY <1>1, NamedInit DEF SoleInv

\* A step that leaves a session its summary gives it one that covers as much.
NeverForgets ==
  \A s \in Sessions : rows[s].cache # Nil /\ rows'[s].cache # Nil =>
    rows[s].cache.covered \subseteq rows'[s].cache.covered

LEMMA NothingForgotten ==
  ASSUME SoleInv, [Next]_vars
  PROVE  NeverForgets
<1>0. NamedInv /\ TypeOK
  BY DEF SoleInv, NamedInv
<1>1. ASSUME NEW t \in Turns, WriteSummary(t)
      PROVE  NeverForgets
  <2>1. PICK s \in Sessions : s = turns[t].session
    BY <1>0, <1>1, SummaryWriting
  <2>2. CASE Live(s)
    <3>1. rows'[s].cache = Merged(jobs[t].older, jobs[t].cached) /\ jobs[t].cached = rows[s].cache
      BY <1>0, <1>1, <2>1, <2>2, SummaryWriting DEF SoleInv, GuardInv, JobsUpToDate, WriteSummary
    <3>2. rows[s].cache # Nil => rows[s].cache.covered \subseteq rows'[s].cache.covered
      BY <3>1 DEF Merged, Covered
    <3> QED
      BY <1>0, <1>1, <2>1, <3>2, SummaryWriting DEF NeverForgets
  <2>3. CASE ~Live(s)
    BY <1>0, <1>1, <2>1, <2>3, SummaryWriting DEF NeverForgets
  <2> QED
    BY <2>2, <2>3
<1>2. CASE UNCHANGED rows
  BY <1>2 DEF NeverForgets
<1>3. ASSUME NEW t \in Turns, NEW s \in Sessions, Open(t, s)
      PROVE  NeverForgets
  <2>1. \A r \in Sessions : rows'[r].cache = rows[r].cache
    <3>1. CASE rows' = [rows EXCEPT ![s].state = "live"]
      BY <1>0, <3>1 DEF TypeOK
    <3> QED
      BY <1>3, <3>1 DEF Open
  <2> QED
    BY <2>1 DEF NeverForgets
<1>4. ASSUME NEW d \in Deletes, DeleteRow(d)
      PROVE  NeverForgets
  BY <1>0, <1>4 DEF DeleteRow, NeverForgets, TypeOK
<1>5. ASSUME NEW t \in Turns, TurnStep(t)
      PROVE  UNCHANGED rows
  BY <1>5 DEF TurnStep, ReadHistory, SaveUser, Compact, Answer, StreamFails, Persist, Complete
<1>6. ASSUME NEW t \in Turns, JobReads(t) \/ JobFails(t) \/ Release(t)
      PROVE  UNCHANGED rows
  BY <1>6 DEF JobReads, JobFails, Release
<1>7. ASSUME NEW d \in Deletes, DeleteMessages(d) \/ DeleteVectors(d) \/ \E s \in Sessions : Delete(d, s)
      PROVE  UNCHANGED rows
  BY <1>7 DEF DeleteMessages, DeleteVectors, Delete
<1>8. ASSUME UNCHANGED vars \/ \E m \in Message : IndexMessage(m)
      PROVE  UNCHANGED rows
  BY <1>8 DEF vars, IndexMessage
<1> QED
  BY <1>1, <1>2, <1>3, <1>4, <1>5, <1>6, <1>7, <1>8 DEF Next, JobStep, DeleteStep

\* Whichever turns spawned them, no compaction loses what an earlier one had summarised: the
\* guard lets one at a time work on a session, on the summary that is cached.
THEOREM SummariesOnlyGrow == Spec => SummaryNeverForgets
<1>1. Init => SoleInv
  BY SoleInit
<1>2. SoleInv /\ [Next]_vars => SoleInv' /\ [NeverForgets]_rows
  BY NamedStep, GuardStep, NothingForgotten DEF SoleInv
<1> QED
  BY <1>1, <1>2, PTL DEF Spec, SummaryNeverForgets, NeverForgets

----------------------------------------------------------------------------
(* What a step does to what was said, read and summarised *)

\* What is said stays said.
LEMMA SaidStays ==
  ASSUME NamedInv, [Next]_vars
  PROVE  \A m \in Message : Said(m) => Said(m)'
<1>1. ASSUME NEW t \in Turns, \A u \in Turns : u # t => turns'[u] = turns[u],
             \/ turns[t].pc = "idle"
             \/ turns[t].pc = "history" /\ turns'[t].pc = "save"
             \/ Transition(t, turns'[t].pc)
      PROVE  \A m \in Message : Said(m) => Said(m)'
  BY <1>1 DEF Said, Transition, Message
<1>2. ASSUME NEW t \in Turns, TurnStep(t)
      PROVE  \A m \in Message : Said(m) => Said(m)'
  <2>1. CASE ReadHistory(t)
    BY <1>1, <2>1, ReadHistoryMoves DEF ReadHistory, At
  <2>2. ASSUME NEW to, GoesOn(t, to)
        PROVE  \A m \in Message : Said(m) => Said(m)'
    <3>1. turns'[t].pc = to /\ \A u \in Turns : u # t => turns'[u] = turns[u]
      BY <2>2 DEF GoesOn, Moves
    <3>2. Transition(t, turns'[t].pc)
      BY <2>2, <3>1 DEF GoesOn
    <3> QED
      BY <1>1, <3>1, <3>2
  <2> QED
    BY <1>2, <2>1, <2>2, TurnGoesOn, CompactGoesOn DEF TurnStep
<1>3. ASSUME NEW t \in Turns, NEW s \in Sessions, Open(t, s)
      PROVE  \A m \in Message : Said(m) => Said(m)'
  <2>1. turns[t].pc = "idle" /\ \A u \in Turns : u # t => turns'[u] = turns[u]
    BY <1>3 DEF Open, At, Ends, NamedInv, TypeOK
  <2> QED
    BY <1>1, <2>1
<1>4. ASSUME UNCHANGED turns
      PROVE  \A m \in Message : Said(m) => Said(m)'
  BY <1>4 DEF Said
<1>5. ASSUME NEW t \in Turns, JobStep(t)
      PROVE  UNCHANGED turns
  BY <1>5 DEF JobStep, JobReads, JobFails, WriteSummary, Release
<1>6. ASSUME NEW d \in Deletes, DeleteStep(d) \/ \E s \in Sessions : Delete(d, s)
      PROVE  UNCHANGED turns
  BY <1>6 DEF DeleteStep, DeleteMessages, DeleteRow, DeleteVectors, Delete
<1>7. ASSUME UNCHANGED vars \/ \E m \in Message : IndexMessage(m)
      PROVE  UNCHANGED turns
  BY <1>7 DEF vars, IndexMessage
<1> QED
  BY <1>2, <1>3, <1>4, <1>5, <1>6, <1>7 DEF Next

\* A session keeps its messages, or gets one that was not said before, or loses them all.
Adds(s) == \E m \in Message : ~Said(m) /\ Said(m)' /\ Stores(s, m)

LEMMA MessagesMove ==
  ASSUME NamedInv, [Next]_vars, NEW s \in Sessions
  PROVE  messages'[s] = messages[s] \/ Adds(s) \/ messages'[s] = <<>>
<1>1. ASSUME NEW t \in Turns, NEW to, GoesOn(t, to)
      PROVE  messages'[s] = messages[s] \/ Adds(s)
  <2>1. turns'[t].pc = to
    BY <1>1 DEF GoesOn, Moves
  <2>2. ASSUME NEW kind \in {"user", "error", "answer"}, Stores(turns[t].session, Msg(t, kind)),
               kind = "user" => turns[t].pc = "save" /\ to = "compact",
               kind = "error" => turns[t].pc = "stream" /\ to = "persist",
               kind = "answer" => turns[t].pc = "persist" /\ to = "complete"
        PROVE  messages'[s] = messages[s] \/ Adds(s)
    <3>1. Msg(t, kind) \in Message /\ Msg(t, kind).turn = t /\ Msg(t, kind).kind = kind
      BY DEF Msg, Message
    <3>2. PICK m \in Message : m = Msg(t, kind)
      BY <3>1
    <3>3. ~Said(m) /\ Said(m)'
      BY <2>1, <2>2, <3>1, <3>2 DEF Said
    <3>4. CASE s = turns[t].session
      BY <2>2, <3>2, <3>3, <3>4 DEF Adds
    <3>5. CASE s # turns[t].session
      BY <2>2, <3>5 DEF Stores
    <3> QED
      BY <3>4, <3>5
  <2> QED
    BY <1>1, <2>2 DEF GoesOn, Transition
<1>2. ASSUME NEW t \in Turns, TurnStep(t)
      PROVE  messages'[s] = messages[s] \/ Adds(s)
  BY <1>1, <1>2, TurnGoesOn, CompactGoesOn DEF TurnStep, ReadHistory
<1>3. ASSUME NEW d \in Deletes, DeleteMessages(d)
      PROVE  messages'[s] = messages[s] \/ messages'[s] = <<>>
  BY <1>3 DEF DeleteMessages, NamedInv, TypeOK
<1>4. ASSUME NEW t \in Turns, JobStep(t) \/ \E r \in Sessions : Open(t, r)
      PROVE  UNCHANGED messages
  BY <1>4 DEF JobStep, JobReads, JobFails, WriteSummary, Release, Open
<1>5. ASSUME NEW d \in Deletes, DeleteRow(d) \/ DeleteVectors(d) \/ \E r \in Sessions : Delete(d, r)
      PROVE  UNCHANGED messages
  BY <1>5 DEF DeleteRow, DeleteVectors, Delete
<1>6. ASSUME UNCHANGED vars \/ \E m \in Message : IndexMessage(m)
      PROVE  UNCHANGED messages
  BY <1>6 DEF vars, IndexMessage
<1> QED
  BY <1>2, <1>3, <1>4, <1>5, <1>6 DEF Next, DeleteStep

\* What a turn has read: what it had, nothing, or the messages of its session.
HistoryMoves(t) ==
  \/ turns'[t].session = turns[t].session /\ turns'[t].history = turns[t].history
  \/ turns'[t].history = <<>>
  \/ /\ turns'[t].session = turns[t].session /\ turns[t].session \in Sessions
     /\ turns'[t].history = messages[turns[t].session] /\ UNCHANGED messages

LEMMA HistoriesMove ==
  ASSUME NamedInv, [Next]_vars, NEW t \in Turns
  PROVE  HistoryMoves(t) /\ (Active(t) => turns'[t].session = turns[t].session)
<1>0. /\ turns \in [Turns -> TurnStates]
      /\ turns[t].pc = "idle" => ~Active(t) /\ turns[t].history = <<>>
  BY DEF NamedInv, TypeOK, TurnsNamed
<1>1. ASSUME NEW u \in Turns, TurnStep(u)
      PROVE  HistoryMoves(t) /\ (Active(t) => turns'[t].session = turns[t].session)
  <2>1. CASE ReadHistory(u)
    <3>1. turns[u].session \in Sessions /\ UNCHANGED messages
      BY <2>1 DEF ReadHistory, At, NamedInv, TurnsNamed
    <3> QED
      BY <2>1, <3>1, ReadHistoryMoves DEF HistoryMoves
  <2> QED
    BY <1>1, <2>1, TurnGoesOn, CompactGoesOn DEF TurnStep, GoesOn, Moves, HistoryMoves
<1>2. ASSUME NEW u \in Turns, NEW s \in Sessions, Open(u, s)
      PROVE  HistoryMoves(t) /\ (Active(t) => turns'[t].session = turns[t].session)
  <2>1. CASE t # u
    BY <1>0, <1>2, <2>1 DEF Open, Ends, HistoryMoves
  <2>2. CASE t = u
    <3>1. turns[t].pc = "idle" /\ turns[t] \in TurnStates
      BY <1>0, <1>2, <2>2 DEF Open, At
    <3>2. turns'[t].history = <<>>
      <4>1. CASE Ends(t, "failed")
        BY <1>0, <4>1 DEF Ends, NoTurn
      <4>2. CASE turns' = [turns EXCEPT ![t].pc = "history", ![t].session = s]
        BY <1>0, <3>1, <4>2 DEF TurnStates
      <4> QED
        BY <1>2, <2>2, <4>1, <4>2 DEF Open
    <3> QED
      BY <1>0, <3>1, <3>2 DEF HistoryMoves
  <2> QED
    BY <2>1, <2>2
<1>3. ASSUME NEW u \in Turns, JobStep(u)
      PROVE  UNCHANGED turns
  BY <1>3 DEF JobStep, JobReads, JobFails, WriteSummary, Release
<1>4. ASSUME NEW d \in Deletes, DeleteStep(d) \/ \E s \in Sessions : Delete(d, s)
      PROVE  UNCHANGED turns
  BY <1>4 DEF DeleteStep, DeleteMessages, DeleteRow, DeleteVectors, Delete
<1>5. ASSUME UNCHANGED vars \/ \E m \in Message : IndexMessage(m)
      PROVE  UNCHANGED turns
  BY <1>5 DEF vars, IndexMessage
<1> QED
  BY <1>1, <1>2, <1>3, <1>4, <1>5 DEF Next, HistoryMoves

\* A compaction gets the older part of what its turn has read, and then the cached summary.
JobKeeps(t) ==
  \/ jobs'[t] = jobs[t]
  \/ Active(t) /\ jobs'[t].older = jobs[t].older
     /\ jobs'[t].cached \in {jobs[t].cached, rows[turns[t].session].cache}
  \/ /\ NeedsCompaction(turns[t].history) /\ turns[t].session \in Sessions
     /\ turns'[t].session = turns[t].session
     /\ jobs'[t].older = Older(turns[t].history) /\ jobs'[t].cached = Nil
  \/ ~Active(t)' /\ jobs'[t].older = <<>> /\ jobs'[t].cached = Nil

LEMMA JobsMove ==
  ASSUME NamedInv, [Next]_vars, NEW t \in Turns
  PROVE  JobKeeps(t)
<1>0. TypeOK
  BY DEF NamedInv
<1>1. ASSUME NEW u \in Turns, Compact(u)
      PROVE  JobKeeps(t)
  <2>1. CASE /\ NeedsCompaction(turns[u].history) /\ turns[u].session \in Sessions
             /\ jobs' = [jobs EXCEPT ![u] = NewJob(u)]
    BY <1>0, <1>1, <2>1, CompactGoesOn DEF JobKeeps, NewJob, TypeOK, GoesOn, Moves
  <2> QED
    BY <1>1, <2>1, CompactGoesOn DEF JobKeeps
<1>2. ASSUME NEW u \in Turns, JobReads(u)
      PROVE  JobKeeps(t)
  BY <1>2, JobReading DEF JobKeeps
<1>3. ASSUME NEW u \in Turns, JobFails(u) \/ WriteSummary(u)
      PROVE  JobKeeps(t)
  <2>1. JobGoes(u, "release") /\ Active(u)
    BY <1>3 DEF JobFails, WriteSummary, Active
  <2> QED
    BY <1>0, <2>1, JobGoing DEF JobKeeps
<1>4. ASSUME NEW u \in Turns, Release(u)
      PROVE  JobKeeps(t)
  <2> DEFINE l == [NoJob EXCEPT !.pc = "done"]
  <2>1. l \in JobStates /\ l.pc = "done" /\ l.older = <<>> /\ l.cached = Nil
    BY NoStates DEF NoJob
  <2>2. jobs' = [jobs EXCEPT ![u] = l]
    BY <1>4 DEF Release
  <2> HIDE DEF l
  <2>3. JobMoves(u, l)
    BY <1>0, <2>1, <2>2, JobMoving
  <2>4. CASE t = u
    BY <2>1, <2>3, <2>4 DEF JobMoves, JobKeeps, Active
  <2> QED
    BY <2>3, <2>4 DEF JobMoves, JobKeeps
<1>5. ASSUME NEW u \in Turns, TurnStep(u) \/ \E s \in Sessions : Open(u, s)
      PROVE  UNCHANGED jobs \/ Compact(u)
  BY <1>5, TurnGoesOn DEF TurnStep, Open, ReadHistory
<1>6. ASSUME NEW d \in Deletes, DeleteStep(d) \/ \E s \in Sessions : Delete(d, s)
      PROVE  UNCHANGED jobs
  BY <1>6 DEF DeleteStep, DeleteMessages, DeleteRow, DeleteVectors, Delete
<1>7. ASSUME UNCHANGED vars \/ \E m \in Message : IndexMessage(m)
      PROVE  UNCHANGED jobs
  BY <1>7 DEF vars, IndexMessage
<1> QED
  BY <1>1, <1>2, <1>3, <1>4, <1>5, <1>6, <1>7 DEF Next, JobStep, JobKeeps

\* A cached summary stays, is dropped, or is replaced by a compaction of the session.
CacheMoves(s) ==
  \/ rows'[s].cache = rows[s].cache
  \/ rows'[s].cache = Nil
  \/ \E t \in Turns : /\ Active(t) /\ turns[t].session = s
                      /\ rows'[s].cache = Merged(jobs[t].older, jobs[t].cached)

LEMMA CachesMove ==
  ASSUME NamedInv, [Next]_vars, NEW s \in Sessions
  PROVE  CacheMoves(s)
<1>0. TypeOK
  BY DEF NamedInv
<1>1. ASSUME NEW t \in Turns, WriteSummary(t)
      PROVE  CacheMoves(s)
  BY <1>1, SummaryWriting DEF CacheMoves
<1>2. ASSUME NEW t \in Turns, NEW r \in Sessions, Open(t, r)
      PROVE  CacheMoves(s)
  <2>1. CASE rows' = [rows EXCEPT ![r].state = "live"]
    BY <1>0, <2>1 DEF TypeOK, CacheMoves
  <2> QED
    BY <1>2, <2>1 DEF Open, CacheMoves
<1>3. ASSUME NEW d \in Deletes, DeleteRow(d)
      PROVE  CacheMoves(s)
  BY <1>0, <1>3 DEF DeleteRow, CacheMoves, TypeOK
<1>4. ASSUME NEW t \in Turns, TurnStep(t)
      PROVE  UNCHANGED rows
  BY <1>4 DEF TurnStep, ReadHistory, SaveUser, Compact, Answer, StreamFails, Persist, Complete
<1>5. ASSUME NEW t \in Turns, JobReads(t) \/ JobFails(t) \/ Release(t)
      PROVE  UNCHANGED rows
  BY <1>5 DEF JobReads, JobFails, Release
<1>6. ASSUME NEW d \in Deletes, DeleteMessages(d) \/ DeleteVectors(d) \/ \E r \in Sessions : Delete(d, r)
      PROVE  UNCHANGED rows
  BY <1>6 DEF DeleteMessages, DeleteVectors, Delete
<1>7. ASSUME UNCHANGED vars \/ \E m \in Message : IndexMessage(m)
      PROVE  UNCHANGED rows
  BY <1>7 DEF vars, IndexMessage
<1> QED
  BY <1>1, <1>2, <1>3, <1>4, <1>5, <1>6, <1>7 DEF Next, JobStep, DeleteStep, CacheMoves

----------------------------------------------------------------------------
(* Summaries stand for a beginning of the conversation *)

PrefixInv == NamedInv /\ SummaryInv

\* What is said stays said, and a session only grows or is emptied.
NothingUnsaid == \A m \in Message : Said(m) => Said(m)'

Moved(s) == messages'[s] = messages[s] \/ Adds(s) \/ messages'[s] = <<>>

LEMMA AddsAt ==
  ASSUME TypeOK, NEW s \in Sessions, Adds(s)
  PROVE  \E m \in Message :
           /\ ~Said(m) /\ Said(m)' /\ Len(messages[s]) + 1 \notin DOMAIN messages[s]
           /\ DOMAIN messages'[s] = DOMAIN messages[s] \cup {Len(messages[s]) + 1}
           /\ messages'[s][Len(messages[s]) + 1] = m
           /\ \A i \in DOMAIN messages[s] :
                messages'[s][i] = messages[s][i] /\ i \in Nat /\ i < Len(messages[s]) + 1
<1>1. PICK m \in Message : ~Said(m) /\ Said(m)' /\ Stores(s, m)
  BY DEF Adds
<1>2. messages[s] \in Seq(Message) /\ messages'[s] = Append(messages[s], m)
  BY <1>1 DEF TypeOK, Stores
<1>3. /\ DOMAIN messages'[s] = DOMAIN messages[s] \cup {Len(messages[s]) + 1}
      /\ messages'[s][Len(messages[s]) + 1] = m
      /\ \A i \in DOMAIN messages[s] :
           messages'[s][i] = messages[s][i] /\ i \in Nat /\ i < Len(messages[s]) + 1
      /\ Len(messages[s]) \in Nat /\ DOMAIN messages[s] = 1..Len(messages[s])
  BY <1>2, AppendAt
<1>4. Len(messages[s]) + 1 \notin DOMAIN messages[s]
  BY <1>3
<1> QED
  BY <1>1, <1>3, <1>4

\* What was read before stays a beginning, or stays gone.
LEMMA OldStays ==
  ASSUME TypeOK, NEW s \in Sessions, Moved(s), NEW h \in Seq(Message), AllSaid(h), Old(h, s)
  PROVE  Old(h, s)'
<1>1. CASE messages'[s] = messages[s] \/ messages'[s] = <<>>
  BY <1>1 DEF Old
<1>2. CASE Adds(s)
  <2>1. PICK m \in Message :
           /\ ~Said(m)
           /\ DOMAIN messages'[s] = DOMAIN messages[s] \cup {Len(messages[s]) + 1}
           /\ messages'[s][Len(messages[s]) + 1] = m
           /\ \A i \in DOMAIN messages[s] : messages'[s][i] = messages[s][i]
    BY <1>2, AddsAt
  <2>2. \A i \in DOMAIN h : h[i] # m
    BY <2>1 DEF AllSaid
  <2> QED
    BY <2>1, <2>2 DEF Old
<1> QED
  BY <1>1, <1>2 DEF Moved

LEMMA CoversStays ==
  ASSUME TypeOK, NothingUnsaid, NEW s \in Sessions, Moved(s), NEW c \in Caches, CacheFits(c, s)
  PROVE  CacheFits(c, s)'
<1> SUFFICES ASSUME c \in Summaries, c # Nil
             PROVE  CacheFits(c, s)'
  BY DEF CacheFits, Caches
<1>1. c.last \in Message /\ Said(c.last) /\ Said(c.last)' /\ Covers(c, s)
  BY DEF CacheFits, NothingUnsaid, Summaries
<1>2. CASE messages'[s] = messages[s] \/ messages'[s] = <<>>
  BY <1>1, <1>2 DEF CacheFits, Covers
<1>3. CASE Adds(s)
  <2>1. PICK m \in Message :
           /\ ~Said(m) /\ Len(messages[s]) + 1 \notin DOMAIN messages[s]
           /\ DOMAIN messages'[s] = DOMAIN messages[s] \cup {Len(messages[s]) + 1}
           /\ messages'[s][Len(messages[s]) + 1] = m
           /\ \A i \in DOMAIN messages[s] :
                messages'[s][i] = messages[s][i] /\ i \in Nat /\ i < Len(messages[s]) + 1
    BY <1>3, AddsAt
  <2>2. ASSUME NEW i \in DOMAIN messages'[s], messages'[s][i] = c.last
        PROVE  \A j \in 1..i : messages'[s][j] \in c.covered
    <3>1. i \in DOMAIN messages[s] /\ messages[s][i] = c.last
      BY <1>1, <2>1, <2>2
    <3>2. \A j \in 1..i : messages[s][j] \in c.covered
      BY <1>1, <3>1 DEF Covers
    <3>3. \A j \in 1..i : j \in DOMAIN messages[s]
      <4>1. DOMAIN messages[s] = 1..Len(messages[s]) /\ Len(messages[s]) \in Nat
        BY DEF TypeOK
      <4> QED
        BY <3>1, <4>1
    <3> QED
      BY <2>1, <3>2, <3>3
  <2> QED
    BY <1>1, <2>2 DEF CacheFits, Covers
<1> QED
  BY <1>2, <1>3 DEF Moved

LEMMA MessagesStay ==
  ASSUME TypeOK, NothingUnsaid, NEW s \in Sessions, Moved(s), AllSaid(messages[s]), Once(s)
  PROVE  AllSaid(messages[s])' /\ Once(s)'
<1>0. \A i \in DOMAIN messages[s] : messages[s][i] \in Message
  BY DEF TypeOK
<1>1. CASE messages'[s] = messages[s] \/ messages'[s] = <<>>
  BY <1>1 DEF AllSaid, Once, NothingUnsaid
<1>2. CASE Adds(s)
  <2>1. PICK m \in Message :
           /\ ~Said(m) /\ Said(m)' /\ Len(messages[s]) + 1 \notin DOMAIN messages[s]
           /\ DOMAIN messages'[s] = DOMAIN messages[s] \cup {Len(messages[s]) + 1}
           /\ messages'[s][Len(messages[s]) + 1] = m
           /\ \A i \in DOMAIN messages[s] : messages'[s][i] = messages[s][i]
    BY <1>2, AddsAt
  <2>2. \A i \in DOMAIN messages[s] : messages[s][i] # m /\ Said(messages[s][i])
    BY <1>0, <2>1 DEF AllSaid
  <2>3. ASSUME NEW n \in Message, NEW i \in DOMAIN messages'[s], messages'[s][i] = n
        PROVE  Said(n)'
    BY <2>1, <2>2, <2>3 DEF NothingUnsaid
  <2>4. Once(s)'
    BY <2>1, <2>2 DEF Once
  <2> QED
    BY <2>3, <2>4 DEF AllSaid
<1> QED
  BY <1>1, <1>2 DEF Moved

\* The older part of a history begins it.
LEMMA OlderBegins ==
  ASSUME NEW h \in Seq(Message), NeedsCompaction(h)
  PROVE  /\ Older(h) \in Seq(Message) /\ DOMAIN Older(h) \subseteq DOMAIN h
         /\ \A i \in DOMAIN Older(h) : Older(h)[i] = h[i]
<1>1. Len(h) \in Nat /\ DOMAIN h = 1..Len(h) /\ Recent \in Nat \ {0} /\ Len(h) > Recent
      /\ \A i \in 1..Len(h) : h[i] \in Message
  BY ChatAssumption DEF NeedsCompaction
<1>n. Len(h) - Recent \in Nat
  BY <1>1
<1>2. PICK n \in Nat : n = Len(h) - Recent
  BY <1>n
<1>3. n <= Len(h) /\ \A i \in 1..n : h[i] \in Message
  BY <1>1, <1>2
<1>4. /\ SubSeq(h, 1, n) \in Seq(Message)
      /\ Len(SubSeq(h, 1, n)) = n
      /\ \A i \in 1..n : SubSeq(h, 1, n)[i] = h[i]
  BY <1>3, SubSeqProperties
<1>5. DOMAIN SubSeq(h, 1, n) = 1..n
  BY <1>4
<1>6. 1..n \subseteq DOMAIN h
  BY <1>1, <1>3
<1>7. Older(h) = SubSeq(h, 1, n)
  BY <1>2 DEF Older
<1> QED
  BY <1>4, <1>5, <1>6, <1>7

\* Merging what is new into a summary that fits makes one that fits: what was read either
\* begins the session still, or is gone and so is its last message.
LEMMA MergedFits ==
  ASSUME TypeOK, NEW s \in Sessions, NEW older \in Seq(Message), older # <<>>, NEW cached \in Caches,
         Once(s), AllSaid(older), Old(older, s), CacheFits(cached, s)
  PROVE  CacheFits(Merged(older, cached), s)
<1> DEFINE L == Len(older)
<1>1. L \in DOMAIN older /\ DOMAIN older = 1..L /\ L \in Nat
  BY MergedIsSummary
<1>2. Merged(older, cached).last = older[L]
      /\ Merged(older, cached).covered = Covered(cached) \cup NewMessages(older, cached)
  BY DEF Merged
<1>3. older[L] \in Message /\ Said(older[L])
  BY <1>1 DEF AllSaid
<1>4. ASSUME NEW i \in DOMAIN messages[s], messages[s][i] = older[L], NEW j \in 1..i
      PROVE  messages[s][j] \in Covered(cached) \cup NewMessages(older, cached)
  <2>1. \A k \in DOMAIN older : k \in DOMAIN messages[s] /\ messages[s][k] = older[k]
    BY <1>1, <1>4 DEF Old
  <2>2. i = L
    BY <1>1, <1>4, <2>1 DEF Once
  <2>3. j \in DOMAIN older /\ messages[s][j] = older[j]
    BY <1>1, <2>1, <2>2
  <2>4. CASE cached = Nil \/ cached.last \notin Elements(older)
    BY <2>3, <2>4 DEF NewMessages, Elements
  <2>5. CASE cached # Nil /\ cached.last \in Elements(older)
    <3>1. PICK p \in DOMAIN older : older[p] = cached.last
      BY <2>5 DEF Elements
    <3>2. \A k \in 1..p : messages[s][k] \in cached.covered
      BY <2>1, <2>5, <3>1 DEF CacheFits, Covers
    <3>3. CASE j <= p
      BY <1>1, <2>3, <2>5, <3>1, <3>2, <3>3 DEF Covered
    <3>4. CASE p < j
      <4>1. \A k \in j..L : older[k] # cached.last
        BY <1>1, <2>1, <2>3, <3>1, <3>4 DEF Once
      <4>2. older[j] \in NewMessages(older, cached)
        BY <2>3, <2>5, <4>1 DEF NewMessages
      <4> QED
        BY <2>3, <4>2
    <3> QED
      BY <1>1, <2>3, <3>1, <3>3, <3>4
  <2> QED
    BY <2>4, <2>5
<1> QED
  BY <1>2, <1>3, <1>4 DEF CacheFits, Covers

LEMMA AllSaidStays ==
  ASSUME NothingUnsaid, NEW h, AllSaid(h)
  PROVE  AllSaid(h)'
BY DEF AllSaid, NothingUnsaid

LEMMA PrefixStep ==
  ASSUME PrefixInv, [Next]_vars
  PROVE  SummaryInv'
<1>0. NamedInv /\ TypeOK /\ NamedInv' /\ NothingUnsaid /\ \A s \in Sessions : Moved(s)
  BY NamedStep, SaidStays, MessagesMove DEF PrefixInv, NamedInv, NothingUnsaid, Moved
<1>t. TypeOK'
  BY <1>0 DEF NamedInv
<1>1. ASSUME NEW s \in Sessions
      PROVE  AllSaid(messages[s])' /\ Once(s)' /\ CacheFits(rows[s].cache, s)'
  <2>1. AllSaid(messages[s])' /\ Once(s)'
    BY <1>0, MessagesStay DEF PrefixInv, SummaryInv, MessagesFit
  <2>2. PICK c \in Caches : c = rows'[s].cache
    BY <1>t DEF TypeOK
  <2>3. CacheFits(c, s)
    <3>1. CASE c = rows[s].cache
      BY <3>1 DEF PrefixInv, SummaryInv, MessagesFit
    <3>2. CASE c = Nil
      BY <3>2 DEF CacheFits
    <3>3. ASSUME NEW t \in Turns, Active(t), turns[t].session = s, c = Merged(jobs[t].older, jobs[t].cached)
          PROVE  CacheFits(c, s)
      <4>1. jobs[t].older \in Seq(Message) /\ jobs[t].older # <<>> /\ jobs[t].cached \in Caches
        BY <1>0, <3>3 DEF TypeOK, JobStates, NamedInv, JobsNamed
      <4>2. /\ Once(s) /\ AllSaid(jobs[t].older) /\ Old(jobs[t].older, s)
            /\ CacheFits(jobs[t].cached, s)
        BY <3>3 DEF PrefixInv, SummaryInv, MessagesFit, ReadingsAreOld, CachesFit
      <4> QED
        BY <1>0, <3>3, <4>1, <4>2, MergedFits
    <3> QED
      BY <1>0, <2>2, <3>1, <3>2, <3>3, CachesMove DEF CacheMoves
  <2>4. CacheFits(c, s)'
    BY <1>0, <2>3, CoversStays
  <2> QED
    BY <2>1, <2>2, <2>4 DEF CacheFits, Covers
<1>2. ASSUME NEW t \in Turns
      PROVE  /\ AllSaid(turns[t].history)'
             /\ turns'[t].session \in Sessions => Old(turns[t].history, turns[t].session)'
  <2>1. PICK h \in Seq(Message) : h = turns'[t].history
    BY <1>t DEF TypeOK, TurnStates
  <2>2. AllSaid(h) /\ \A s \in Sessions : s = turns'[t].session => Old(h, s)
    <3>1. CASE turns'[t].session = turns[t].session /\ h = turns[t].history
      BY <3>1 DEF PrefixInv, SummaryInv, ReadingsAreOld
    <3>2. CASE h = <<>>
      BY <3>2 DEF AllSaid, Old
    <3>3. CASE /\ turns'[t].session = turns[t].session /\ turns[t].session \in Sessions
               /\ h = messages[turns[t].session]
      BY <3>3 DEF PrefixInv, SummaryInv, MessagesFit, Old
    <3> QED
      BY <1>0, <2>1, <3>1, <3>2, <3>3, HistoriesMove DEF HistoryMoves
  <2>3. AllSaid(h)' /\ \A s \in Sessions : s = turns'[t].session => Old(h, s)'
    BY <1>0, <2>2, AllSaidStays, OldStays
  <2>4. AllSaid(turns[t].history)'
    BY <2>1, <2>3 DEF AllSaid
  <2>5. ASSUME turns'[t].session \in Sessions
        PROVE  Old(turns[t].history, turns[t].session)'
    <3>1. PICK s \in Sessions : s = turns'[t].session
      BY <2>5
    <3> QED
      BY <2>1, <2>3, <3>1 DEF Old
  <2> QED
    BY <2>4, <2>5
<1>3. ASSUME NEW t \in Turns
      PROVE  /\ AllSaid(jobs[t].older)'
             /\ Active(t)' =>
                  Old(jobs[t].older, turns[t].session)' /\ CacheFits(jobs[t].cached, turns[t].session)'
  <2>1. PICK o \in Seq(Message) : o = jobs'[t].older
    BY <1>t DEF TypeOK, JobStates
  <2>2. PICK c \in Caches : c = jobs'[t].cached
    BY <1>t DEF TypeOK, JobStates
  <2>3. JobKeeps(t) /\ (Active(t) => turns'[t].session = turns[t].session)
    BY <1>0, JobsMove, HistoriesMove
  <2>4. /\ AllSaid(o)
        /\ Active(t)' => \A s \in Sessions : s = turns'[t].session => Old(o, s) /\ CacheFits(c, s)
    <3>1. CASE jobs'[t] = jobs[t]
      BY <2>1, <2>2, <2>3, <3>1 DEF PrefixInv, SummaryInv, ReadingsAreOld, CachesFit, Active
    <3>2. CASE /\ Active(t) /\ jobs'[t].older = jobs[t].older
               /\ jobs'[t].cached \in {jobs[t].cached, rows[turns[t].session].cache}
      BY <2>1, <2>2, <2>3, <3>2 DEF PrefixInv, SummaryInv, ReadingsAreOld, CachesFit, MessagesFit
    <3>3. CASE /\ NeedsCompaction(turns[t].history) /\ turns[t].session \in Sessions
               /\ turns'[t].session = turns[t].session
               /\ jobs'[t].older = Older(turns[t].history) /\ jobs'[t].cached = Nil
      <4>1. PICK h \in Seq(Message) : h = turns[t].history
        BY <1>0 DEF TypeOK, TurnStates
      <4>2. PICK s \in Sessions : s = turns[t].session
        BY <3>3
      <4>3. AllSaid(h) /\ Old(h, s)
        BY <4>1, <4>2 DEF PrefixInv, SummaryInv, ReadingsAreOld
      <4>4. o = Older(h) /\ DOMAIN o \subseteq DOMAIN h /\ \A i \in DOMAIN o : o[i] = h[i]
        BY <2>1, <3>3, <4>1, OlderBegins
      <4>5. AllSaid(o)
        BY <4>3, <4>4 DEF AllSaid
      <4>6. Old(o, s)
        BY <4>3, <4>4 DEF Old
      <4> QED
        BY <2>2, <3>3, <4>2, <4>5, <4>6 DEF CacheFits
    <3>4. CASE ~Active(t)' /\ jobs'[t].older = <<>>
      BY <2>1, <3>4 DEF AllSaid
    <3> QED
      BY <2>3, <3>1, <3>2, <3>3, <3>4 DEF JobKeeps
  <2>5. /\ AllSaid(o)'
        /\ Active(t)' => \A s \in Sessions : s = turns'[t].session => Old(o, s)' /\ CacheFits(c, s)'
    BY <1>0, <2>4, AllSaidStays, OldStays, CoversStays
  <2>6. AllSaid(jobs[t].older)'
    BY <2>1, <2>5 DEF AllSaid
  <2>7. ASSUME Active(t)'
        PROVE  Old(jobs[t].older, turns[t].session)' /\ CacheFits(jobs[t].cached, turns[t].session)'
    <3>1. PICK s \in Sessions : s = turns'[t].session
      BY <1>0, <2>7 DEF NamedInv, JobsNamed
    <3>2. Old(o, s)' /\ CacheFits(c, s)'
      BY <2>5, <2>7, <3>1
    <3>3. Old(jobs[t].older, turns[t].session)'
      BY <2>1, <3>1, <3>2 DEF Old
    <3>4. CacheFits(jobs[t].cached, turns[t].session)'
      BY <2>2, <3>1, <3>2 DEF CacheFits, Covers
    <3> QED
      BY <3>3, <3>4
  <2> QED
    BY <2>6, <2>7
<1>4. MessagesFit'
  BY <1>1 DEF MessagesFit
<1>5. ReadingsAreOld'
  BY <1>2, <1>3 DEF ReadingsAreOld
<1>6. CachesFit'
  BY <1>3 DEF CachesFit
<1> QED
  BY <1>4, <1>5, <1>6 DEF SummaryInv

LEMMA PrefixInit ==
  ASSUME Init
  PROVE  SummaryInv
<1>1. PICK s \in Sessions :
        /\ rows = [r \in Sessions |->
                     [state |-> IF r = s /\ Earlier # <<>> THEN "live" ELSE "unused", cache |-> Nil]]
        /\ messages = [r \in Sessions |-> IF r = s THEN Conversation ELSE <<>>]
        /\ turns = [t \in Turns |-> IF t \in Elements(Earlier)
                                    THEN [NoTurn EXCEPT !.pc = "done", !.session = s] ELSE NoTurn]
  BY DEF Init
<1>2. \A t \in Turns : ~Active(t) /\ jobs[t].older = <<>> /\ turns[t].history = <<>>
  BY <1>1 DEF Init, Active, NoJob, NoTurn
<1>3. ReadingsAreOld /\ CachesFit
  BY <1>2 DEF ReadingsAreOld, CachesFit, AllSaid, Old
<1>4. ASSUME NEW r \in Sessions
      PROVE  AllSaid(messages[r]) /\ Once(r) /\ CacheFits(rows[r].cache, r)
  <2>1. CacheFits(rows[r].cache, r)
    BY <1>1 DEF CacheFits
  <2>2. CASE messages[r] = <<>>
    BY <2>1, <2>2 DEF AllSaid, Once
  <2>3. CASE messages[r] = Conversation
    <3>1. ASSUME NEW m \in Message, NEW i \in DOMAIN Conversation, Conversation[i] = m
          PROVE  Said(m)
      <4>1. m.turn \in Elements(Earlier) /\ m.turn \in Turns
        BY <3>1, Conversing DEF Message
      <4>2. turns[m.turn].pc = "done"
        BY <1>1, <4>1 DEF NoTurn
      <4> QED
        BY <4>2 DEF Said
    <3>2. Once(r)
      BY <2>3, Conversing DEF Once
    <3> QED
      BY <2>1, <2>3, <3>1, <3>2 DEF AllSaid
  <2> QED
    BY <1>1, <2>2, <2>3
<1> QED
  BY <1>3, <1>4 DEF SummaryInv, MessagesFit

\* The cached summary stands for everything up to the last message it compacted, whatever
\* history the compaction that wrote it had read and whichever compactions and deletions there
\* were meanwhile.
THEOREM SummariesArePrefixes == Spec => []SummaryIsPrefix
<1>1. Init => PrefixInv
  BY NamedInit, PrefixInit DEF PrefixInv
<1>2. PrefixInv /\ [Next]_vars => PrefixInv'
  BY NamedStep, PrefixStep DEF PrefixInv
<1>3. PrefixInv => SummaryIsPrefix
  BY DEF PrefixInv, SummaryInv, MessagesFit, CacheFits, Covers, SummaryIsPrefix
<1> QED
  BY <1>1, <1>2, <1>3, PTL DEF Spec

=============================================================================
