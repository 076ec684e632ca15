-------------------------- MODULE TaskSchedulerProofs --------------------------
(***************************************************************************)
(* Proofs about TaskScheduler, for any number of ticks, workers, requests  *)
(* and executions and with any of the faults: states are typed, an         *)
(* execution has one holder, and a queued retry agrees with its row.       *)
(* Each execution goes through JobLifecycle as long as a message the queue *)
(* reports as refused is refused and runs end before they are taken for    *)
(* dead.                                                                   *)
(***************************************************************************)
EXTENDS TaskScheduler, TLAPS

----------------------------------------------------------------------------
(* The inductive invariant *)

\* A tick past its checks has a schedule, and after the insert an execution.
TicksNamed ==
  \A t \in Tickers :
    /\ tick[t].step \in {"create", "advance", "dispatch", "skip"} => tick[t].schedule \in Schedules
    /\ tick[t].step \in {"advance", "dispatch", "skip"} => tick[t].exec \in Executions

RequestsNamed ==
  \A r \in Requests :
    /\ request[r].step \in {"create", "enqueue"} => request[r].schedule \in Schedules
    /\ request[r].step = "enqueue" => request[r].exec \in Executions
    /\ request[r].step \in {"disable", "delete", "insert"} => request[r].def \in Defs

RunsNamed == \A w \in Workers : run[w].step # "idle" => run[w].exec \in Executions

\* An execution that somebody has or is about to mark is in the table: the id of a new
\* row is nobody's yet.
HeldExist ==
  \A x \in Executions : executions[x].status = "none" =>
    /\ \A t \in Tickers : tick[t].exec # x /\ x \notin tick[t].zombies
    /\ \A r \in Requests : request[r].exec # x
    /\ \A w \in Workers : run[w].exec # x
    /\ \A m \in queue : m.exec # x

\* The holder of an execution knows its retry_count.
HoldersMatchRows ==
  /\ \A t \in Tickers :
       tick[t].step \in {"advance", "dispatch"} => executions[tick[t].exec].retry = 0
  /\ \A r \in Requests :
       request[r].step = "enqueue" => executions[request[r].exec].retry = 0
  /\ \A w \in Workers :
       run[w].step # "idle" => executions[run[w].exec].retry = run[w].retry
  /\ MessagesMatchRows

Named == TicksNamed /\ RequestsNamed /\ RunsNamed

Inv == TypeOK /\ Named /\ HeldExist /\ OneHolder /\ HoldersMatchRows

----------------------------------------------------------------------------
(* Type correctness *)

LEMMA NilIsNothing ==
  Nil \notin Schedules /\ Nil \notin Executions /\ Nil \notin Defs
BY SchedulerConstants

LEMMA RowTypes ==
  ASSUME TypeOK, NEW x \in Executions
  PROVE  /\ executions[x] \in ExecutionRows
         /\ executions[x].retry \in Nat
         /\ executions[x].schedule \in Schedules \cup {Nil}
BY DEF TypeOK, ExecutionRows

LEMMA TickTypes ==
  ASSUME TypeOK, NEW t \in Tickers
  PROVE  /\ tick[t] \in Ticks
         /\ tick[t].at \in Nat
         /\ tick[t].zombies \in SUBSET Executions /\ tick[t].due \in SUBSET DueRows
         /\ tick[t].schedule \in Schedules \cup {Nil} /\ tick[t].exec \in Executions \cup {Nil}
BY DEF TypeOK, Ticks

LEMMA RequestTypes ==
  ASSUME TypeOK, NEW r \in Requests
  PROVE  /\ request[r] \in RequestLocals
         /\ request[r].old \in SUBSET Tenants /\ request[r].new \in SUBSET Tenants
         /\ request[r].todo \in SUBSET Tenants
BY DEF TypeOK, RequestLocals

LEMMA RunTypes ==
  ASSUME TypeOK, NEW w \in Workers
  PROVE  run[w] \in Runs /\ run[w].retry \in Nat
BY DEF TypeOK, Runs

LEMMA NothingTypes == NoTick \in Ticks /\ NoRequest \in RequestLocals /\ NoRun \in Runs
BY DEF NoTick, Ticks, NoRequest, RequestLocals, NoRun, Runs

LEMMA WriteType ==
  ASSUME TypeOK, NEW x \in Executions, NEW row \in ExecutionRows, Write(x, row)
  PROVE  executions' \in [Executions -> ExecutionRows]
BY DEF TypeOK, Write

LEMMA StatusType ==
  ASSUME TypeOK, NEW x \in Executions, NEW status \in Outcomes, NEW finished \in BOOLEAN,
         UpdateStatus(x, status, finished)
  PROVE  executions' \in [Executions -> ExecutionRows]
<1>1. [executions[x] EXCEPT !.status = status, !.finished = finished] \in ExecutionRows
  BY RowTypes DEF ExecutionRows
<1> QED
  BY <1>1, WriteType DEF UpdateStatus

LEMMA PendingType ==
  ASSUME TypeOK, NEW x \in Executions, NEW s \in Schedules, InsertPending(x, s)
  PROVE  executions' \in [Executions -> ExecutionRows]
<1>1. [NoExecution EXCEPT !.status = "pending", !.schedule = s] \in ExecutionRows
  BY DEF NoExecution, ExecutionRows
<1> QED
  BY <1>1, WriteType DEF InsertPending

LEMMA SetTickType ==
  ASSUME TypeOK, NEW t \in Tickers, NEW locals \in Ticks, SetTick(t, locals)
  PROVE  tick' \in [Tickers -> Ticks]
BY DEF TypeOK, SetTick

LEMMA SetRequestType ==
  ASSUME TypeOK, NEW r \in Requests, NEW locals \in RequestLocals, SetRequest(r, locals)
  PROVE  request' \in [Requests -> RequestLocals]
BY DEF TypeOK, SetRequest

LEMMA SetRunType ==
  ASSUME TypeOK, NEW w \in Workers, NEW locals \in Runs, SetRun(w, locals)
  PROVE  run' \in [Workers -> Runs]
BY DEF TypeOK, SetRun

LEMMA RemainingType ==
  ASSUME TypeOK, NEW t \in Tickers, NEW due \in SUBSET DueRows
  PROVE  Remaining(t, due) \in Ticks
<1>1. [NoTick EXCEPT !.step = "due", !.at = tick[t].at, !.due = due] \in Ticks
  BY TickTypes DEF NoTick, Ticks
<1> QED
  BY <1>1, NothingTypes DEF Remaining

LEMMA NextScheduleType ==
  ASSUME TypeOK, NEW t \in Tickers, NEW due \in SUBSET DueRows, NextSchedule(t, due)
  PROVE  tick' \in [Tickers -> Ticks]
BY RemainingType, SetTickType DEF NextSchedule

LEMMA DueType == TypeOK => \A time : DueAt(time) \in SUBSET DueRows
BY DEF TypeOK, DueAt, DueRows, ScheduleRows

LEMMA NextRunType == TypeOK => NextRun \in Nat
<1>1. TypeOK => now \div Period \in Nat
  BY SchedulerConstants DEF TypeOK
<1> QED
  BY <1>1, SchedulerConstants DEF NextRun

LEMMA TickingType ==
  ASSUME TypeOK, Named, NEW t \in Tickers, Ticking(t)
  PROVE  TypeOK'
<1>1. CASE TickStart(t)
  <2>1. [NoTick EXCEPT !.step = "recover", !.at = now, !.zombies = Zombies] \in Ticks
    BY DEF TypeOK, NoTick, Ticks, Zombies
  <2> QED
    BY <1>1, <2>1, SetTickType DEF TypeOK, TickStart, config
<1>2. CASE RecoverZombie(t)
  <2> PICK x \in tick[t].zombies :
         \/ /\ UpdateStatus(x, "failed", TRUE)
            /\ SetTick(t, [tick[t] EXCEPT !.zombies = @ \ {x}])
         \/ UNCHANGED executions /\ SetTick(t, NoTick)
    BY <1>2 DEF RecoverZombie
  <2>1. x \in Executions
    BY TickTypes
  <2>2. [tick[t] EXCEPT !.zombies = @ \ {x}] \in Ticks
    BY TickTypes DEF Ticks
  <2>3. tick' \in [Tickers -> Ticks]
    BY <2>2, NothingTypes, SetTickType
  <2>4. executions' \in [Executions -> ExecutionRows]
    BY <2>1, StatusType DEF Outcomes, TypeOK
  <2> QED
    BY <1>2, <2>3, <2>4 DEF TypeOK, RecoverZombie, config
<1>3. CASE FindDue(t)
  BY <1>3, DueType, NextScheduleType DEF TypeOK, FindDue, config
<1>4. CASE CheckSchedule(t)
  <2> PICK d \in tick[t].due :
         \/ SetTick(t, [tick[t] EXCEPT !.step = "create", !.schedule = d.schedule,
                                        !.due = @ \ {d}])
         \/ NextSchedule(t, tick[t].due \ {d})
    BY <1>4 DEF CheckSchedule
  <2>1. d.schedule \in Schedules /\ tick[t].due \ {d} \in SUBSET DueRows
    BY TickTypes DEF DueRows
  <2>2. [tick[t] EXCEPT !.step = "create", !.schedule = d.schedule, !.due = @ \ {d}] \in Ticks
    BY <2>1, TickTypes DEF Ticks
  <2> QED
    BY <1>4, <2>1, <2>2, SetTickType, NextScheduleType DEF TypeOK, CheckSchedule, config
<1>5. CASE CreatePending(t)
  <2>1. CASE NextSchedule(t, tick[t].due) /\ UNCHANGED executions
    BY <1>5, <2>1, TickTypes, NextScheduleType DEF TypeOK, CreatePending, config
  <2>2. ASSUME NEW x \in Executions, InsertPending(x, tick[t].schedule),
               SetTick(t, [tick[t] EXCEPT !.step = "advance", !.exec = x])
        PROVE  TypeOK'
    <3>1. [tick[t] EXCEPT !.step = "advance", !.exec = x] \in Ticks
      BY TickTypes DEF Ticks
    <3>2. tick[t].schedule \in Schedules
      BY <1>5 DEF CreatePending, Named, TicksNamed
    <3> QED
      BY <1>5, <2>2, <3>1, <3>2, SetTickType, PendingType DEF TypeOK, CreatePending, config
  <2> QED
    BY <1>5, <2>1, <2>2 DEF CreatePending
<1>6. CASE AdvanceNextRun(t)
  <2>1. [tick[t] EXCEPT !.step = "dispatch"] \in Ticks
    BY TickTypes DEF Ticks
  <2>2. tick' \in [Tickers -> Ticks]
    BY <1>6, <2>1, TickTypes, SetTickType, NextScheduleType DEF AdvanceNextRun
  <2>3. \A s \in Schedules : [schedules[s] EXCEPT !.next = NextRun] \in ScheduleRows
    BY NextRunType DEF TypeOK, ScheduleRows
  <2>4. schedules' \in [Schedules -> ScheduleRows]
    BY <1>6, <2>3 DEF TypeOK, AdvanceNextRun
  <2> QED
    BY <1>6, <2>2, <2>4 DEF TypeOK, AdvanceNextRun, config
<1>7. CASE Dispatch(t)
  <2>1. [tick[t] EXCEPT !.step = "skip"] \in Ticks
    BY TickTypes DEF Ticks
  <2>2. tick' \in [Tickers -> Ticks]
    BY <1>7, <2>1, TickTypes, SetTickType, NextScheduleType DEF Dispatch
  <2>3. FirstAttempt(tick[t].exec) \in Messages
    BY <1>7 DEF Dispatch, FirstAttempt, Messages, Named, TicksNamed
  <2>4. queue' \subseteq Messages
    BY <1>7, <2>3 DEF Dispatch, Enqueued, NotEnqueued, TypeOK
  <2> QED
    BY <1>7, <2>2, <2>4 DEF TypeOK, Dispatch, config
<1>8. CASE MarkSkipped(t)
  <2>1. tick[t].exec \in Executions
    BY <1>8 DEF MarkSkipped, Named, TicksNamed
  <2>2. executions' \in [Executions -> ExecutionRows]
    BY <1>8, <2>1, StatusType DEF MarkSkipped, OrFails, Outcomes, TypeOK
  <2>3. tick' \in [Tickers -> Ticks]
    BY <1>8, TickTypes, NextScheduleType DEF MarkSkipped
  <2> QED
    BY <1>8, <2>2, <2>3 DEF TypeOK, MarkSkipped, config
<1> QED
  BY <1>1, <1>2, <1>3, <1>4, <1>5, <1>6, <1>7, <1>8 DEF Ticking

LEMMA AskType ==
  ASSUME TypeOK, NEW r \in Requests, Ask(r)
  PROVE  TypeOK'
<1>1. ASSUME NEW s \in Schedules, TriggerCheck(r, s)
      PROVE  TypeOK'
  <2>1. [NoRequest EXCEPT !.step = "create", !.schedule = s] \in RequestLocals
    BY DEF NoRequest, RequestLocals
  <2> QED
    BY <1>1, <2>1, SetRequestType DEF TypeOK, TriggerCheck, config
<1>2. ASSUME NEW d \in Defs, NEW new \in SUBSET Tenants, SetGrants(r, d, new)
      PROVE  TypeOK'
  <2>1. [NoRequest EXCEPT !.step = "disable", !.def = d, !.new = new,
                          !.old = {u \in Tenants : <<d, u>> \in grants}] \in RequestLocals
    BY DEF NoRequest, RequestLocals
  <2> QED
    BY <1>2, <2>1, SetRequestType DEF TypeOK, SetGrants, config
<1> QED
  BY <1>1, <1>2 DEF Ask

LEMMA HandleType ==
  ASSUME TypeOK, Named, NEW r \in Requests, Handle(r)
  PROVE  TypeOK'
<1>1. CASE TriggerCreate(r)
  <2>1. CASE Return(r) /\ UNCHANGED executions
    BY <1>1, <2>1, NothingTypes, SetRequestType DEF Return, TypeOK, TriggerCreate, config
  <2>2. ASSUME NEW x \in Executions, InsertPending(x, request[r].schedule),
               SetRequest(r, [request[r] EXCEPT !.step = "enqueue", !.exec = x])
        PROVE  TypeOK'
    <3>1. [request[r] EXCEPT !.step = "enqueue", !.exec = x] \in RequestLocals
      BY RequestTypes DEF RequestLocals
    <3>2. request[r].schedule \in Schedules
      BY <1>1 DEF TriggerCreate, Named, RequestsNamed
    <3> QED
      BY <1>1, <2>2, <3>1, <3>2, SetRequestType, PendingType DEF TypeOK, TriggerCreate, config
  <2> QED
    BY <1>1, <2>1, <2>2 DEF TriggerCreate
<1>2. CASE TriggerEnqueue(r)
  <2>1. request[r].exec \in Executions
    BY <1>2 DEF TriggerEnqueue, Named, RequestsNamed
  <2>2. request' \in [Requests -> RequestLocals]
    BY <1>2, NothingTypes, SetRequestType DEF TriggerEnqueue, Return
  <2>3. FirstAttempt(request[r].exec) \in Messages
    BY <2>1 DEF FirstAttempt, Messages
  <2>4. queue' \subseteq Messages
    BY <1>2, <2>3 DEF TriggerEnqueue, Enqueued, NotEnqueued, TypeOK
  <2>5. executions' \in [Executions -> ExecutionRows]
    BY <1>2, <2>1, StatusType DEF TriggerEnqueue, OrFails, Outcomes, TypeOK
  <2> QED
    BY <1>2, <2>2, <2>4, <2>5 DEF TypeOK, TriggerEnqueue, config
<1>3. CASE DisableRevoked(r)
  <2>1. [request[r] EXCEPT !.step = "delete"] \in RequestLocals
    BY RequestTypes DEF RequestLocals
  <2>2. schedules' \in [Schedules -> ScheduleRows]
    BY <1>3 DEF TypeOK, DisableRevoked, ScheduleRows
  <2> QED
    BY <1>3, <2>1, <2>2, SetRequestType DEF TypeOK, DisableRevoked, config
<1>4. CASE DeleteGrants(r)
  <2>1. [request[r] EXCEPT !.step = "insert", !.todo = request[r].new] \in RequestLocals
    BY RequestTypes DEF RequestLocals
  <2>2. request' \in [Requests -> RequestLocals]
    BY <1>4, <2>1, NothingTypes, SetRequestType DEF DeleteGrants, Return
  <2> QED
    BY <1>4, <2>2 DEF TypeOK, DeleteGrants
<1>5. CASE InsertGrant(r)
  <2> PICK u \in request[r].todo :
         /\ grants' = grants \cup {<<request[r].def, u>>}
         /\ IF request[r].todo \ {u} = {} THEN Return(r)
            ELSE SetRequest(r, [request[r] EXCEPT !.todo = request[r].todo \ {u}])
    BY <1>5 DEF InsertGrant
  <2>1. [request[r] EXCEPT !.todo = request[r].todo \ {u}] \in RequestLocals
    BY RequestTypes DEF RequestLocals
  <2>2. request' \in [Requests -> RequestLocals]
    BY <2>1, NothingTypes, SetRequestType DEF Return
  <2>3. request[r].def \in Defs /\ u \in Tenants
    BY <1>5, RequestTypes DEF InsertGrant, Named, RequestsNamed
  <2> QED
    BY <1>5, <2>2, <2>3 DEF TypeOK, InsertGrant
<1> QED
  BY <1>1, <1>2, <1>3, <1>4, <1>5 DEF Handle

LEMMA AfterFailureType ==
  ASSUME TypeOK, NEW w \in Workers, NEW retry \in Nat, AfterFailure(w, retry)
  PROVE  run' \in [Workers -> Runs]
<1>1. PICK step \in {"requeue", "give_up"} :
        SetRun(w, [run[w] EXCEPT !.step = step, !.retry = retry])
  BY DEF AfterFailure
<1>2. [run[w] EXCEPT !.step = step, !.retry = retry] \in Runs
  BY RunTypes DEF Runs
<1> QED
  BY <1>1, <1>2, SetRunType

LEMMA WorkType ==
  ASSUME TypeOK, Named, NEW w \in Workers, Work(w)
  PROVE  TypeOK'
<1>0. run[w].step # "idle" => run[w].exec \in Executions
  BY DEF Named, RunsNamed
<1>1. CASE Take(w)
  <2> PICK m \in queue :
         /\ queue' = queue \ {m}
         /\ \/ SetRun(w, [step |-> "start", exec |-> m.exec, retry |-> m.retry])
            \/ UNCHANGED run
    BY <1>1 DEF Take
  <2>1. [step |-> "start", exec |-> m.exec, retry |-> m.retry] \in Runs
    BY DEF TypeOK, Messages, Runs
  <2> QED
    BY <1>1, <2>1, SetRunType DEF TypeOK, Take, config
<1>2. CASE StartRun(w)
  <2>0. run[w].exec \in Executions
    BY <1>0, <1>2 DEF StartRun
  <2>1. [executions[run[w].exec] EXCEPT !.status = "running", !.startedAt = now,
                                        !.finished = FALSE] \in ExecutionRows
    BY <2>0, RowTypes DEF ExecutionRows, TypeOK
  <2>2. executions' \in [Executions -> ExecutionRows]
    BY <1>2, <2>0, <2>1, WriteType DEF StartRun, TypeOK
  <2>3. [run[w] EXCEPT !.step = "work"] \in Runs
    BY RunTypes DEF Runs
  <2>4. run' \in [Workers -> Runs]
    BY <1>2, <2>3, NothingTypes, SetRunType DEF StartRun, Stop
  <2> QED
    BY <1>2, <2>2, <2>4 DEF TypeOK, StartRun, config
<1>3. CASE EndRun(w)
  <2>0. run[w].exec \in Executions
    BY <1>0, <1>3 DEF EndRun
  <2>1. executions' \in [Executions -> ExecutionRows]
    BY <1>3, <2>0, StatusType DEF EndRun, OrFails, Outcomes, TypeOK
  <2>2. run' \in [Workers -> Runs]
    BY <1>3, NothingTypes, SetRunType DEF EndRun, Stop
  <2> QED
    BY <1>3, <2>1, <2>2 DEF TypeOK, EndRun, config
<1>4. CASE CountRetry(w)
  <2>0. run[w].exec \in Executions
    BY <1>0, <1>4 DEF CountRetry
  <2>1. [executions[run[w].exec] EXCEPT !.retry = run[w].retry + 1] \in ExecutionRows
    BY <2>0, RowTypes, RunTypes DEF ExecutionRows
  <2>2. executions' \in [Executions -> ExecutionRows]
    BY <1>4, <2>0, <2>1, WriteType DEF CountRetry, TypeOK
  <2>3. run[w].retry + 1 \in Nat
    BY RunTypes
  <2>4. run' \in [Workers -> Runs]
    BY <1>4, <2>3, NothingTypes, SetRunType, AfterFailureType DEF CountRetry, Stop
  <2> QED
    BY <1>4, <2>2, <2>4 DEF TypeOK, CountRetry, config
<1>5. CASE Requeue(w)
  <2>0. run[w].exec \in Executions
    BY <1>0, <1>5 DEF Requeue
  <2>1. [exec |-> run[w].exec, retry |-> run[w].retry] \in Messages
    BY <2>0, RunTypes DEF Messages
  <2>2. queue' \subseteq Messages
    BY <1>5, <2>1 DEF Requeue, Enqueued, NotEnqueued, TypeOK
  <2>3. run' \in [Workers -> Runs]
    BY <1>5, NothingTypes, SetRunType DEF Requeue, Stop
  <2> QED
    BY <1>5, <2>2, <2>3 DEF TypeOK, Requeue, config
<1>6. CASE GiveUp(w)
  <2>0. run[w].exec \in Executions
    BY <1>0, <1>6 DEF GiveUp
  <2>1. executions' \in [Executions -> ExecutionRows]
    BY <1>6, <2>0, StatusType DEF GiveUp, OrFails, Outcomes, TypeOK
  <2>2. run' \in [Workers -> Runs]
    BY <1>6, NothingTypes, SetRunType DEF GiveUp, Stop
  <2> QED
    BY <1>6, <2>1, <2>2 DEF TypeOK, GiveUp, config
<1> QED
  BY <1>1, <1>2, <1>3, <1>4, <1>5, <1>6 DEF Work

LEMMA AdministerType ==
  ASSUME TypeOK, Administer
  PROVE  TypeOK'
<1>1. ASSUME NEW s \in Schedules, CreateSchedule(s)
      PROVE  TypeOK'
  <2>1. [exists |-> TRUE, enabled |-> TRUE, next |-> NextRun] \in ScheduleRows
    BY NextRunType DEF ScheduleRows
  <2> QED
    BY <1>1, <2>1 DEF TypeOK, CreateSchedule, config
<1>2. ASSUME NEW s \in Schedules, ChangeSchedule(s)
      PROVE  TypeOK'
  <2>1. ASSUME NEW row \in ScheduleRows, EditSchedule(s, row)
        PROVE  TypeOK'
    BY <2>1 DEF TypeOK, EditSchedule, config
  <2>2. /\ [schedules[s] EXCEPT !.next = NextRun] \in ScheduleRows
        /\ [schedules[s] EXCEPT !.enabled = TRUE, !.next = NextRun] \in ScheduleRows
        /\ [schedules[s] EXCEPT !.enabled = FALSE] \in ScheduleRows
        /\ NoSchedule \in ScheduleRows
    BY NextRunType DEF TypeOK, ScheduleRows, NoSchedule
  <2> QED
    BY <1>2, <2>1, <2>2 DEF ChangeSchedule
<1>3. ASSUME NEW d \in Defs, ChangeDefinition(d)
      PROVE  TypeOK'
  BY <1>3 DEF TypeOK, ChangeDefinition
<1>4. ASSUME NEW u \in Tenants, ChangeTenant(u)
      PROVE  TypeOK'
  BY <1>4 DEF TypeOK, ChangeTenant
<1> QED
  BY <1>1, <1>2, <1>3, <1>4 DEF Administer

\* Ticks, requests and workers that stop leave nothing but their locals behind.
LEMMA StopType ==
  ASSUME TypeOK
  PROVE  /\ \A t \in Tickers : TickDies(t) => TypeOK'
         /\ \A r \in Requests : RequestFails(r) => TypeOK'
         /\ \A w \in Workers : WorkerDies(w) => TypeOK'
<1>1. ASSUME NEW t \in Tickers, TickDies(t) PROVE TypeOK'
  BY <1>1, NothingTypes, SetTickType DEF TypeOK, TickDies, config
<1>2. ASSUME NEW r \in Requests, RequestFails(r) PROVE TypeOK'
  BY <1>2, NothingTypes, SetRequestType DEF TypeOK, RequestFails, Return, config
<1>3. ASSUME NEW w \in Workers, WorkerDies(w) PROVE TypeOK'
  BY <1>3, NothingTypes, SetRunType DEF TypeOK, WorkerDies, Stop, config
<1> QED
  BY <1>1, <1>2, <1>3

LEMMA TypeStep == TypeOK /\ Named /\ [Next]_vars => TypeOK'
<1> SUFFICES ASSUME TypeOK, Named, [Next]_vars PROVE TypeOK'
  OBVIOUS
<1>1. CASE Advance
  BY <1>1 DEF TypeOK, Advance, config
<1>2. CASE UNCHANGED vars
  BY <1>2 DEF TypeOK, vars
<1> QED
  BY <1>1, <1>2, AdministerType, TickingType, AskType, HandleType, WorkType, StopType DEF Next

LEMMA TypeInit == Init => TypeOK
<1> SUFFICES ASSUME Init PROVE TypeOK
  OBVIOUS
<1>1. \A b \in BOOLEAN : [active |-> TRUE, concurrent |-> b] \in DefRows
  BY DEF DefRows
<1>0. defs \in [Defs -> DefRows]
  BY <1>1 DEF Init
<1>2. NoSchedule \in ScheduleRows /\ NoExecution \in ExecutionRows
  BY DEF NoSchedule, ScheduleRows, NoExecution, ExecutionRows
<1>3. tick \in [Tickers -> Ticks] /\ request \in [Requests -> RequestLocals] /\ run \in [Workers -> Runs]
  BY NothingTypes DEF Init
<1> QED
  BY <1>0, <1>2, <1>3 DEF Init, TypeOK

----------------------------------------------------------------------------
(* Steps that hand no execution over *)

\* A tick that goes on to the locals l gets hold of no execution it did not have.
QuietTick(t, l) ==
  /\ l.exec \in {tick[t].exec, Nil}
  /\ l.exec # Nil /\ l.step # "skip" => tick[t].step # "skip"
  /\ l.step \in {"advance", "dispatch"} =>
       l.exec = tick[t].exec /\ tick[t].step \in {"advance", "dispatch"}
  /\ l.step \in {"create", "advance", "dispatch", "skip"} => l.schedule \in Schedules
  /\ l.step = "skip" => l.exec \in Executions
  /\ \A x \in Executions \cap l.zombies : executions[x].status # "none"

QuietRequest(r, l) ==
  /\ l.exec \in {request[r].exec, Nil}
  /\ l.step = "enqueue" => request[r].step = "enqueue" /\ l.exec = request[r].exec
  /\ l.step \in {"create", "enqueue"} => l.schedule \in Schedules
  /\ l.step \in {"disable", "delete", "insert"} => l.def \in Defs

QuietRun(w, l) ==
  /\ l.exec \in {run[w].exec, Nil}
  /\ l.step # "idle" =>
       run[w].step # "idle" /\ l.exec = run[w].exec /\ l.retry = run[w].retry

TicksQuiet == \A t \in Tickers : QuietTick(t, tick'[t])

RequestsQuiet == \A r \in Requests : QuietRequest(r, request'[r])

RunsQuiet == \A w \in Workers : QuietRun(w, run'[w])

\* No row is inserted or deleted, and no retry is counted.
RowsQuiet ==
  \A x \in Executions :
    /\ executions'[x].status = "none" <=> executions[x].status = "none"
    /\ executions'[x].retry = executions[x].retry

LEMMA SetTickQuiet ==
  ASSUME TypeOK, Named, HeldExist, NEW t \in Tickers, NEW l, QuietTick(t, l), SetTick(t, l)
  PROVE  TicksQuiet
<1> SUFFICES ASSUME NEW s \in Tickers PROVE QuietTick(s, tick'[s])
  BY DEF TicksQuiet
<1>1. CASE s = t
  BY <1>1 DEF TypeOK, SetTick
<1>2. CASE s # t
  <2>1. tick'[s] = tick[s]
    BY <1>2 DEF TypeOK, SetTick
  <2> QED
    BY <2>1 DEF QuietTick, Named, TicksNamed, HeldExist
<1> QED
  BY <1>1, <1>2

LEMMA SetRequestQuiet ==
  ASSUME TypeOK, Named, NEW r \in Requests, NEW l, QuietRequest(r, l), SetRequest(r, l)
  PROVE  RequestsQuiet
<1> SUFFICES ASSUME NEW s \in Requests PROVE QuietRequest(s, request'[s])
  BY DEF RequestsQuiet
<1>1. CASE s = r
  BY <1>1 DEF TypeOK, SetRequest
<1>2. CASE s # r
  <2>1. request'[s] = request[s]
    BY <1>2 DEF TypeOK, SetRequest
  <2> QED
    BY <2>1 DEF QuietRequest, Named, RequestsNamed
<1> QED
  BY <1>1, <1>2

LEMMA SetRunQuiet ==
  ASSUME TypeOK, Named, NEW w \in Workers, NEW l, QuietRun(w, l), SetRun(w, l)
  PROVE  RunsQuiet
<1> SUFFICES ASSUME NEW s \in Workers PROVE QuietRun(s, run'[s])
  BY DEF RunsQuiet
<1>1. CASE s = w
  BY <1>1 DEF TypeOK, SetRun
<1>2. CASE s # w
  <2>1. run'[s] = run[s]
    BY <1>2 DEF TypeOK, SetRun
  <2> QED
    BY <2>1 DEF QuietRun
<1> QED
  BY <1>1, <1>2

LEMMA SameQuiet ==
  ASSUME Named, HeldExist
  PROVE  /\ UNCHANGED tick => TicksQuiet
         /\ UNCHANGED request => RequestsQuiet
         /\ UNCHANGED run => RunsQuiet
         /\ UNCHANGED executions => RowsQuiet
BY DEF Named, TicksNamed, RequestsNamed, HeldExist, TicksQuiet, QuietTick, RequestsQuiet, QuietRequest,
       RunsQuiet, QuietRun, RowsQuiet

\* Whoever stops holds nothing.
LEMMA NothingQuiet ==
  /\ \A t \in Tickers : QuietTick(t, NoTick)
  /\ \A r \in Requests : QuietRequest(r, NoRequest)
  /\ \A w \in Workers : QuietRun(w, NoRun)
BY DEF QuietTick, NoTick, QuietRequest, NoRequest, QuietRun, NoRun

LEMMA NextScheduleQuiet ==
  ASSUME TypeOK, Named, HeldExist, NEW t \in Tickers, NEW due, NextSchedule(t, due)
  PROVE  TicksQuiet
<1>1. QuietTick(t, Remaining(t, due))
  BY NothingQuiet DEF Remaining, QuietTick, NoTick
<1> QED
  BY <1>1, SetTickQuiet DEF NextSchedule

\* A status written to an execution that exists.
LEMMA StatusQuiet ==
  ASSUME TypeOK, NEW x \in Executions, NEW status \in Outcomes, NEW finished \in BOOLEAN,
         executions[x].status # "none", UpdateStatus(x, status, finished)
  PROVE  RowsQuiet
BY DEF TypeOK, ExecutionRows, Outcomes, UpdateStatus, Write, RowsQuiet

\* The holder whose exec is x is in the table.
LEMMA HeldExists ==
  ASSUME HeldExist, Named
  PROVE  /\ \A t \in Tickers : tick[t].exec \in Executions => executions[tick[t].exec].status # "none"
         /\ \A r \in Requests :
              request[r].exec \in Executions => executions[request[r].exec].status # "none"
         /\ \A w \in Workers : run[w].exec \in Executions => executions[run[w].exec].status # "none"
BY DEF HeldExist

----------------------------------------------------------------------------
(* What the steps preserve *)

LEMMA HoldersShrink ==
  ASSUME TicksQuiet, RequestsQuiet, RunsQuiet, queue' \subseteq queue, NEW x \in Executions
  PROVE  Holders(x)' \subseteq Holders(x)
<1>1. x # Nil
  BY NilIsNothing
<1>2. \A t \in Tickers :
        tick'[t].exec = x /\ tick'[t].step # "skip" => tick[t].exec = x /\ tick[t].step # "skip"
  BY <1>1 DEF TicksQuiet, QuietTick
<1>3. \A r \in Requests : request'[r].exec = x => request[r].exec = x
  BY <1>1 DEF RequestsQuiet, QuietRequest
<1>4. \A w \in Workers : run'[w].exec = x => run[w].exec = x
  BY <1>1 DEF RunsQuiet, QuietRun
<1> QED
  BY <1>2, <1>3, <1>4 DEF Holders

\* An execution that keeps its holder, or is handed to one new holder, has one.
LEMMA HandOver ==
  ASSUME OneHolder,
         \A x \in Executions : Holders(x)' \subseteq Holders(x) \/ \E h : Holders(x)' \subseteq {h}
  PROVE  OneHolder'
BY DEF OneHolder

LEMMA QuietStep ==
  ASSUME Inv, TicksQuiet, RequestsQuiet, RunsQuiet, RowsQuiet, queue' \subseteq queue
  PROVE  (Named /\ HeldExist /\ OneHolder /\ HoldersMatchRows)'
<1>1. Named'
  BY DEF Inv, Named, TicksNamed, RequestsNamed, RunsNamed, TicksQuiet, QuietTick, RequestsQuiet,
         QuietRequest, RunsQuiet, QuietRun
<1>2. HeldExist'
  BY NilIsNothing DEF Inv, HeldExist, RowsQuiet, TicksQuiet, QuietTick, RequestsQuiet,
         QuietRequest, RunsQuiet, QuietRun
<1>3. OneHolder'
  BY HoldersShrink, HandOver DEF Inv
<1>4. HoldersMatchRows'
  <2>1. ASSUME NEW t \in Tickers, tick'[t].step \in {"advance", "dispatch"}
        PROVE  executions'[tick'[t].exec].retry = 0
    BY <2>1 DEF Inv, Named, TicksNamed, TicksQuiet, QuietTick, RowsQuiet, HoldersMatchRows
  <2>2. ASSUME NEW r \in Requests, request'[r].step = "enqueue"
        PROVE  executions'[request'[r].exec].retry = 0
    BY <2>2 DEF Inv, Named, RequestsNamed, RequestsQuiet, QuietRequest, RowsQuiet, HoldersMatchRows
  <2>3. ASSUME NEW w \in Workers, run'[w].step # "idle"
        PROVE  executions'[run'[w].exec].retry = run'[w].retry
    BY <2>3 DEF Inv, Named, RunsNamed, RunsQuiet, QuietRun, RowsQuiet, HoldersMatchRows
  <2>4. MessagesMatchRows'
    BY DEF Inv, TypeOK, Messages, RowsQuiet, HoldersMatchRows, MessagesMatchRows
  <2> QED
    BY <2>1, <2>2, <2>3, <2>4 DEF HoldersMatchRows
<1> QED
  BY <1>1, <1>2, <1>3, <1>4

\* A row is inserted under an id that nobody had.
LEMMA InsertRows ==
  ASSUME TypeOK, NEW x \in Executions, NEW s \in Schedules, InsertPending(x, s)
  PROVE  /\ executions[x].status = "none"
         /\ executions'[x].status # "none" /\ executions'[x].retry = 0
         /\ \A y \in Executions : y # x => executions'[y] = executions[y]
BY DEF TypeOK, InsertPending, Write, NoExecution

\* The insert of a tick: the tick is the first holder of the row.
LEMMA CreatePendingInv ==
  ASSUME Inv, NEW t \in Tickers, CreatePending(t)
  PROVE  (Named /\ HeldExist /\ OneHolder /\ HoldersMatchRows)'
<1>0. TypeOK /\ Named /\ HeldExist /\ OneHolder /\ HoldersMatchRows
  BY DEF Inv
<1>1. CASE NextSchedule(t, tick[t].due) /\ UNCHANGED executions
  BY <1>0, <1>1, NextScheduleQuiet, SameQuiet, QuietStep DEF CreatePending
<1>2. ASSUME NEW x \in Executions, InsertPending(x, tick[t].schedule),
             SetTick(t, [tick[t] EXCEPT !.step = "advance", !.exec = x])
      PROVE  (Named /\ HeldExist /\ OneHolder /\ HoldersMatchRows)'
  <2>1. tick[t].schedule \in Schedules
    BY <1>0, CreatePending(t) DEF CreatePending, Named, TicksNamed
  <2>2. /\ executions[x].status = "none"
        /\ executions'[x].status # "none" /\ executions'[x].retry = 0
        /\ \A y \in Executions : y # x => executions'[y] = executions[y]
    BY <1>0, <1>2, <2>1, InsertRows
  <2>3. /\ tick'[t].exec = x /\ tick'[t].step = "advance" /\ tick'[t].zombies = tick[t].zombies
        /\ tick'[t].schedule \in Schedules
        /\ \A s \in Tickers : s # t => tick'[s] = tick[s]
    BY <1>0, <1>2, <2>1, TickTypes DEF TypeOK, SetTick, Ticks
  <2>4. UNCHANGED <<queue, request, run>>
    BY CreatePending(t) DEF CreatePending
  <2>5. Named'
    BY <1>0, <2>3, <2>4 DEF Named, TicksNamed, RequestsNamed, RunsNamed
  <2>6. HeldExist'
    BY <1>0, <2>2, <2>3, <2>4 DEF HeldExist
  <2>7. Holders(x)' \subseteq {<<"tick", t>>}
    BY <1>0, <2>2, <2>3, <2>4 DEF HeldExist, Holders
  <2>8. ASSUME NEW y \in Executions, y # x
        PROVE  Holders(y)' \subseteq Holders(y)
    BY <2>3, <2>4, <2>8 DEF Holders
  <2>9. OneHolder'
    BY <1>0, <2>7, <2>8, HandOver
  <2>10. HoldersMatchRows'
    BY <1>0, <2>2, <2>3, <2>4
    DEF HoldersMatchRows, MessagesMatchRows, HeldExist, Named, TicksNamed, RequestsNamed,
        RunsNamed, TypeOK, Messages
  <2> QED
    BY <2>5, <2>6, <2>9, <2>10
<1> QED
  BY <1>1, <1>2 DEF CreatePending

\* A message takes an execution over from its holder h, which lets go of it.
LEMMA EnqueueInv ==
  ASSUME Inv, TicksQuiet, RequestsQuiet, RunsQuiet, RowsQuiet,
         NEW x \in Executions, executions[x].status # "none",
         NEW h \in Holders(x), h \notin Holders(x)',
         NEW m, m.exec = x, m.retry = executions[x].retry,
         \A k \in queue : h # <<"queue", k>>,
         queue' = queue \cup {m}
  PROVE  (Named /\ HeldExist /\ OneHolder /\ HoldersMatchRows)'
<1>0. TypeOK /\ Named /\ HeldExist /\ OneHolder /\ HoldersMatchRows
  BY DEF Inv
<1>1. x # Nil
  BY NilIsNothing
<1>2. \A t \in Tickers :
        tick'[t].exec # Nil /\ tick'[t].step # "skip" =>
          tick'[t].exec = tick[t].exec /\ tick[t].step # "skip"
  BY DEF TicksQuiet, QuietTick
<1>3. \A r \in Requests : request'[r].exec # Nil => request'[r].exec = request[r].exec
  BY DEF RequestsQuiet, QuietRequest
<1>4. \A w \in Workers : run'[w].exec # Nil => run'[w].exec = run[w].exec
  BY DEF RunsQuiet, QuietRun
<1>5. \A y \in Executions : Holders(y)' \subseteq Holders(y) \cup {<<"queue", m>>}
  BY NilIsNothing, <1>2, <1>3, <1>4 DEF Holders
<1>6. \A y \in Executions : y # x => <<"queue", m>> \notin Holders(y)'
  BY DEF Holders
<1>7. \A k \in Holders(x) : k = h
  BY <1>0 DEF OneHolder
<1>8. Holders(x)' \subseteq {<<"queue", m>>}
  BY <1>5, <1>7
<1>9. OneHolder'
  BY <1>0, <1>5, <1>6, <1>8, HandOver
<1>10. Named'
  BY <1>0 DEF Named, TicksNamed, RequestsNamed, RunsNamed, TicksQuiet, QuietTick, RequestsQuiet,
         QuietRequest, RunsQuiet, QuietRun
<1>11. HeldExist'
  BY <1>0, NilIsNothing DEF HeldExist, RowsQuiet, TicksQuiet, QuietTick, RequestsQuiet,
         QuietRequest, RunsQuiet, QuietRun
<1>12. HoldersMatchRows'
  <2>1. ASSUME NEW t \in Tickers, tick'[t].step \in {"advance", "dispatch"}
        PROVE  executions'[tick'[t].exec].retry = 0
    BY <1>0, <2>1 DEF Named, TicksNamed, TicksQuiet, QuietTick, RowsQuiet, HoldersMatchRows
  <2>2. ASSUME NEW r \in Requests, request'[r].step = "enqueue"
        PROVE  executions'[request'[r].exec].retry = 0
    BY <1>0, <2>2 DEF Named, RequestsNamed, RequestsQuiet, QuietRequest, RowsQuiet, HoldersMatchRows
  <2>3. ASSUME NEW w \in Workers, run'[w].step # "idle"
        PROVE  executions'[run'[w].exec].retry = run'[w].retry
    BY <1>0, <2>3 DEF Named, RunsNamed, RunsQuiet, QuietRun, RowsQuiet, HoldersMatchRows
  <2>4. MessagesMatchRows'
    BY <1>0 DEF TypeOK, Messages, RowsQuiet, HoldersMatchRows, MessagesMatchRows
  <2> QED
    BY <2>1, <2>2, <2>3, <2>4 DEF HoldersMatchRows
<1> QED
  BY <1>9, <1>10, <1>11, <1>12

LEMMA RemainingIsNothing ==
  \A t, due : Remaining(t, due).exec = Nil
BY DEF Remaining, NoTick

\* A tick hands its execution to the queue, or keeps it only to mark it skipped.
LEMMA DispatchInv ==
  ASSUME Inv, NEW t \in Tickers, Dispatch(t)
  PROVE  (Named /\ HeldExist /\ OneHolder /\ HoldersMatchRows)'
<1>0. TypeOK /\ Named /\ HeldExist /\ OneHolder /\ HoldersMatchRows
  BY DEF Inv
<1>1. tick[t].exec \in Executions /\ tick[t].step = "dispatch"
  BY <1>0 DEF Dispatch, Named, TicksNamed
<1> PICK x \in Executions : x = tick[t].exec
  BY <1>1
<1> DEFINE m == FirstAttempt(x)
<1>2. QuietTick(t, [tick[t] EXCEPT !.step = "skip"])
  BY <1>0, <1>1, TickTypes DEF QuietTick, Ticks, Named, TicksNamed, HeldExist
<1>3. TicksQuiet
  BY <1>0, <1>2, SetTickQuiet, NextScheduleQuiet DEF Dispatch
<1>4. RequestsQuiet /\ RunsQuiet /\ RowsQuiet
  BY <1>0, SameQuiet DEF Dispatch
<1>5. CASE UNCHANGED queue
  BY <1>0, <1>3, <1>4, <1>5, QuietStep
<1>6. CASE queue' = queue \cup {m}
  <2>1. tick'[t].exec # x \/ tick'[t].step = "skip"
    <3>1. CASE NextSchedule(t, tick[t].due)
      BY <1>0, <1>1, <3>1, RemainingIsNothing, NilIsNothing DEF NextSchedule, SetTick, TypeOK
    <3>2. CASE SetTick(t, [tick[t] EXCEPT !.step = "skip"])
      BY <1>0, <3>2, TickTypes DEF SetTick, TypeOK, Ticks
    <3> QED
      BY <3>1, <3>2 DEF Dispatch
  <2>2. <<"tick", t>> \in Holders(x)
    BY <1>1 DEF Holders
  <2>3. <<"tick", t>> \notin Holders(x)'
    BY <2>1 DEF Holders
  <2>4. m.exec = x /\ m.retry = executions[x].retry
    BY <1>0, <1>1 DEF FirstAttempt, HoldersMatchRows
  <2>5. executions[x].status # "none"
    BY <1>0, <1>1 DEF HeldExist
  <2> HIDE DEF m
  <2> QED
    BY <1>1, <1>3, <1>4, <1>6, <2>2, <2>3, <2>4, <2>5, EnqueueInv
<1> QED
  BY <1>5, <1>6 DEF Dispatch, Enqueued, NotEnqueued

LEMMA TickingInv ==
  ASSUME Inv, NEW t \in Tickers, Ticking(t)
  PROVE  (Named /\ HeldExist /\ OneHolder /\ HoldersMatchRows)'
<1>0. TypeOK /\ Named /\ HeldExist /\ OneHolder /\ HoldersMatchRows
  BY DEF Inv
<1>1. CASE TickStart(t)
  <2>1. QuietTick(t, [NoTick EXCEPT !.step = "recover", !.at = now, !.zombies = Zombies])
    BY DEF QuietTick, NoTick, Zombies, IsZombie, Running
  <2>2. TicksQuiet
    BY <1>0, <1>1, <2>1, SetTickQuiet DEF TickStart
  <2> QED
    BY <1>0, <1>1, <2>2, SameQuiet, QuietStep DEF TickStart
<1>2. CASE RecoverZombie(t)
  <2> PICK x \in tick[t].zombies :
         \/ /\ UpdateStatus(x, "failed", TRUE)
            /\ SetTick(t, [tick[t] EXCEPT !.zombies = @ \ {x}])
         \/ UNCHANGED executions /\ SetTick(t, NoTick)
    BY <1>2 DEF RecoverZombie
  <2>1. x \in Executions /\ executions[x].status # "none"
    BY <1>0, TickTypes DEF HeldExist
  <2>2. QuietTick(t, [tick[t] EXCEPT !.zombies = @ \ {x}])
    BY <1>0, <1>2, TickTypes DEF RecoverZombie, QuietTick, Ticks, HeldExist
  <2>3. TicksQuiet
    BY <1>0, <2>2, NothingQuiet, SetTickQuiet
  <2>4. RowsQuiet
    BY <1>0, <2>1, StatusQuiet, SameQuiet DEF Outcomes
  <2> QED
    BY <1>0, <1>2, <2>3, <2>4, SameQuiet, QuietStep DEF RecoverZombie
<1>3. CASE FindDue(t)
  BY <1>0, <1>3, NextScheduleQuiet, SameQuiet, QuietStep DEF FindDue
<1>4. CASE CheckSchedule(t)
  <2> PICK d \in tick[t].due :
         \/ SetTick(t, [tick[t] EXCEPT !.step = "create", !.schedule = d.schedule,
                                        !.due = @ \ {d}])
         \/ NextSchedule(t, tick[t].due \ {d})
    BY <1>4 DEF CheckSchedule
  <2>1. d.schedule \in Schedules
    BY <1>0, TickTypes DEF DueRows
  <2>2. QuietTick(t, [tick[t] EXCEPT !.step = "create", !.schedule = d.schedule, !.due = @ \ {d}])
    BY <1>0, <1>4, <2>1, TickTypes DEF CheckSchedule, QuietTick, Ticks, HeldExist
  <2>3. TicksQuiet
    BY <1>0, <2>2, NextScheduleQuiet, SetTickQuiet
  <2> QED
    BY <1>0, <1>4, <2>3, SameQuiet, QuietStep DEF CheckSchedule
<1>5. CASE AdvanceNextRun(t)
  <2>1. QuietTick(t, [tick[t] EXCEPT !.step = "dispatch"])
    BY <1>0, <1>5, TickTypes DEF AdvanceNextRun, QuietTick, Ticks, HeldExist, Named, TicksNamed
  <2>2. TicksQuiet
    BY <1>0, <1>5, <2>1, NextScheduleQuiet, SetTickQuiet DEF AdvanceNextRun
  <2> QED
    BY <1>0, <1>5, <2>2, SameQuiet, QuietStep DEF AdvanceNextRun
<1>6. CASE MarkSkipped(t)
  <2>1. tick[t].exec \in Executions /\ executions[tick[t].exec].status # "none"
    BY <1>0, <1>6 DEF MarkSkipped, Named, TicksNamed, HeldExist
  <2>2. RowsQuiet
    BY <1>0, <1>6, <2>1, StatusQuiet, SameQuiet DEF MarkSkipped, OrFails, Outcomes
  <2> QED
    BY <1>0, <1>6, <2>2, NextScheduleQuiet, SameQuiet, QuietStep DEF MarkSkipped
<1> QED
  BY <1>1, <1>2, <1>3, <1>4, <1>5, <1>6, CreatePendingInv, DispatchInv DEF Ticking

LEMMA AskInv ==
  ASSUME Inv, NEW r \in Requests, Ask(r)
  PROVE  (Named /\ HeldExist /\ OneHolder /\ HoldersMatchRows)'
<1>0. TypeOK /\ Named /\ HeldExist
  BY DEF Inv
<1>1. ASSUME NEW s \in Schedules, TriggerCheck(r, s)
      PROVE  (Named /\ HeldExist /\ OneHolder /\ HoldersMatchRows)'
  <2>1. QuietRequest(r, [NoRequest EXCEPT !.step = "create", !.schedule = s])
    BY DEF QuietRequest, NoRequest
  <2> QED
    BY <1>0, <1>1, <2>1, SetRequestQuiet, SameQuiet, QuietStep DEF TriggerCheck
<1>2. ASSUME NEW d \in Defs, NEW new \in SUBSET Tenants, SetGrants(r, d, new)
      PROVE  (Named /\ HeldExist /\ OneHolder /\ HoldersMatchRows)'
  <2>1. QuietRequest(r, [NoRequest EXCEPT !.step = "disable", !.def = d, !.new = new,
                                          !.old = {u \in Tenants : <<d, u>> \in grants}])
    BY DEF QuietRequest, NoRequest
  <2> QED
    BY <1>0, <1>2, <2>1, SetRequestQuiet, SameQuiet, QuietStep DEF SetGrants
<1> QED
  BY <1>1, <1>2 DEF Ask

\* The insert of a trigger.
LEMMA TriggerCreateInv ==
  ASSUME Inv, NEW r \in Requests, TriggerCreate(r)
  PROVE  (Named /\ HeldExist /\ OneHolder /\ HoldersMatchRows)'
<1>0. TypeOK /\ Named /\ HeldExist /\ OneHolder /\ HoldersMatchRows
  BY DEF Inv
<1>1. CASE Return(r) /\ UNCHANGED executions
  BY <1>0, <1>1, NothingQuiet, SetRequestQuiet, SameQuiet, QuietStep DEF TriggerCreate, Return
<1>2. ASSUME NEW x \in Executions, InsertPending(x, request[r].schedule),
             SetRequest(r, [request[r] EXCEPT !.step = "enqueue", !.exec = x])
      PROVE  (Named /\ HeldExist /\ OneHolder /\ HoldersMatchRows)'
  <2>1. request[r].schedule \in Schedules
    BY <1>0, TriggerCreate(r) DEF TriggerCreate, Named, RequestsNamed
  <2>2. /\ executions[x].status = "none"
        /\ executions'[x].status # "none" /\ executions'[x].retry = 0
        /\ \A y \in Executions : y # x => executions'[y] = executions[y]
    BY <1>0, <1>2, <2>1, InsertRows
  <2>3. /\ request'[r].exec = x /\ request'[r].step = "enqueue"
        /\ request'[r].schedule \in Schedules
        /\ \A s \in Requests : s # r => request'[s] = request[s]
    BY <1>0, <1>2, <2>1, RequestTypes DEF TypeOK, SetRequest, RequestLocals
  <2>4. UNCHANGED <<queue, tick, run>>
    BY TriggerCreate(r) DEF TriggerCreate
  <2>5. Named'
    BY <1>0, <2>3, <2>4 DEF Named, TicksNamed, RequestsNamed, RunsNamed
  <2>6. HeldExist'
    BY <1>0, <2>2, <2>3, <2>4 DEF HeldExist
  <2>7. Holders(x)' \subseteq {<<"request", r>>}
    BY <1>0, <2>2, <2>3, <2>4 DEF HeldExist, Holders
  <2>8. ASSUME NEW y \in Executions, y # x
        PROVE  Holders(y)' \subseteq Holders(y)
    BY <2>3, <2>4, <2>8 DEF Holders
  <2>9. OneHolder'
    BY <1>0, <2>7, <2>8, HandOver
  <2>10. HoldersMatchRows'
    BY <1>0, <2>2, <2>3, <2>4
    DEF HoldersMatchRows, MessagesMatchRows, HeldExist, Named, TicksNamed, RequestsNamed,
        RunsNamed, TypeOK, Messages
  <2> QED
    BY <2>5, <2>6, <2>9, <2>10
<1> QED
  BY <1>1, <1>2 DEF TriggerCreate

LEMMA TriggerEnqueueInv ==
  ASSUME Inv, NEW r \in Requests, TriggerEnqueue(r)
  PROVE  (Named /\ HeldExist /\ OneHolder /\ HoldersMatchRows)'
<1>0. TypeOK /\ Named /\ HeldExist /\ OneHolder /\ HoldersMatchRows
  BY DEF Inv
<1>1. request[r].exec \in Executions /\ request[r].step = "enqueue"
  BY <1>0 DEF TriggerEnqueue, Named, RequestsNamed
<1> PICK x \in Executions : x = request[r].exec
  BY <1>1
<1> DEFINE m == FirstAttempt(x)
<1>2. executions[x].status # "none"
  BY <1>0, <1>1 DEF HeldExist
<1>3. RequestsQuiet
  BY <1>0, NothingQuiet, SetRequestQuiet DEF TriggerEnqueue, Return
<1>4. TicksQuiet /\ RunsQuiet
  BY <1>0, SameQuiet DEF TriggerEnqueue
<1>5. RowsQuiet
  BY <1>0, <1>2, StatusQuiet, SameQuiet DEF TriggerEnqueue, OrFails, Outcomes
<1>6. CASE UNCHANGED queue
  BY <1>3, <1>4, <1>5, <1>6, QuietStep
<1>7. CASE queue' = queue \cup {m}
  <2>1. <<"request", r>> \in Holders(x)
    BY <1>1 DEF Holders
  <2>2. request'[r].exec # x
    BY <1>0, NilIsNothing DEF TriggerEnqueue, Return, SetRequest, TypeOK, NoRequest
  <2>3. <<"request", r>> \notin Holders(x)'
    BY <2>2 DEF Holders
  <2>4. m.exec = x /\ m.retry = executions[x].retry
    BY <1>0, <1>1 DEF FirstAttempt, HoldersMatchRows
  <2> HIDE DEF m
  <2> QED
    BY <1>2, <1>3, <1>4, <1>5, <1>7, <2>1, <2>3, <2>4, EnqueueInv
<1> QED
  BY <1>6, <1>7 DEF TriggerEnqueue, Enqueued, NotEnqueued

LEMMA HandleInv ==
  ASSUME Inv, NEW r \in Requests, Handle(r)
  PROVE  (Named /\ HeldExist /\ OneHolder /\ HoldersMatchRows)'
<1>0. TypeOK /\ Named /\ HeldExist
  BY DEF Inv
<1>1. CASE DisableRevoked(r)
  <2>1. QuietRequest(r, [request[r] EXCEPT !.step = "delete"])
    BY <1>0, <1>1, RequestTypes DEF DisableRevoked, QuietRequest, RequestLocals, Named, RequestsNamed
  <2> QED
    BY <1>0, <1>1, <2>1, SetRequestQuiet, SameQuiet, QuietStep DEF DisableRevoked
<1>2. CASE DeleteGrants(r)
  <2>1. QuietRequest(r, [request[r] EXCEPT !.step = "insert", !.todo = request[r].new])
    BY <1>0, <1>2, RequestTypes DEF DeleteGrants, QuietRequest, RequestLocals, Named, RequestsNamed
  <2>2. RequestsQuiet
    BY <1>0, <1>2, <2>1, NothingQuiet, SetRequestQuiet DEF DeleteGrants, Return
  <2> QED
    BY <1>0, <1>2, <2>2, SameQuiet, QuietStep DEF DeleteGrants
<1>3. CASE InsertGrant(r)
  <2> PICK u \in request[r].todo :
         IF request[r].todo \ {u} = {} THEN Return(r)
         ELSE SetRequest(r, [request[r] EXCEPT !.todo = request[r].todo \ {u}])
    BY <1>3 DEF InsertGrant
  <2>1. QuietRequest(r, [request[r] EXCEPT !.todo = request[r].todo \ {u}])
    BY <1>0, <1>3, RequestTypes DEF InsertGrant, QuietRequest, RequestLocals, Named, RequestsNamed
  <2>2. RequestsQuiet
    BY <1>0, <2>1, NothingQuiet, SetRequestQuiet DEF Return
  <2> QED
    BY <1>0, <1>3, <2>2, SameQuiet, QuietStep DEF InsertGrant
<1> QED
  BY <1>1, <1>2, <1>3, TriggerCreateInv, TriggerEnqueueInv DEF Handle

\* The worker takes the execution over from the message.
LEMMA TakeInv ==
  ASSUME Inv, NEW w \in Workers, Take(w)
  PROVE  (Named /\ HeldExist /\ OneHolder /\ HoldersMatchRows)'
<1>0. TypeOK /\ Named /\ HeldExist /\ OneHolder /\ HoldersMatchRows
  BY DEF Inv
<1>1. CASE UNCHANGED run
  BY <1>0, <1>1, SameQuiet, QuietStep DEF Take
<1>2. ASSUME NEW m \in queue, queue' = queue \ {m}, executions[m.exec].status # "none",
             SetRun(w, [step |-> "start", exec |-> m.exec, retry |-> m.retry])
      PROVE  (Named /\ HeldExist /\ OneHolder /\ HoldersMatchRows)'
  <2>1. PICK x \in Executions : x = m.exec
    BY <1>0 DEF TypeOK, Messages
  <2>2. m.retry = executions[x].retry
    BY <1>0, <2>1 DEF HoldersMatchRows, MessagesMatchRows
  <2>3. /\ run'[w].exec = x /\ run'[w].step = "start" /\ run'[w].retry = m.retry
        /\ \A v \in Workers : v # w => run'[v] = run[v]
    BY <1>0, <1>2, <2>1 DEF TypeOK, SetRun
  <2>4. UNCHANGED <<tick, request, executions>>
    BY Take(w) DEF Take
  <2>5. Named'
    BY <1>0, <2>3, <2>4 DEF Named, TicksNamed, RequestsNamed, RunsNamed
  <2>6. HeldExist'
    BY <1>0, <1>2, <2>1, <2>3, <2>4 DEF HeldExist
  <2>7. <<"queue", m>> \in Holders(x)
    BY <2>1 DEF Holders
  <2>8. \A k \in Holders(x) : k = <<"queue", m>>
    BY <1>0, <2>7 DEF OneHolder
  <2>9. Holders(x)' \subseteq {<<"worker", w>>}
    <3>1. Holders(x)' \subseteq (Holders(x) \ {<<"queue", m>>}) \cup {<<"worker", w>>}
      BY <1>2, <2>3, <2>4 DEF Holders
    <3> QED
      BY <3>1, <2>8
  <2>10. ASSUME NEW y \in Executions, y # x
         PROVE  Holders(y)' \subseteq Holders(y)
    BY <1>2, <2>3, <2>4, <2>10 DEF Holders
  <2>11. OneHolder'
    BY <1>0, <2>9, <2>10, HandOver
  <2>12. HoldersMatchRows'
    BY <1>0, <1>2, <2>2, <2>3, <2>4
    DEF HoldersMatchRows, MessagesMatchRows, Named, TicksNamed, RequestsNamed, RunsNamed
  <2> QED
    BY <2>5, <2>6, <2>11, <2>12
<1> QED
  BY <1>1, <1>2 DEF Take

\* The retry is counted in the row and in the worker's locals: nobody else has either.
LEMMA CountRetryInv ==
  ASSUME Inv, NEW w \in Workers, CountRetry(w)
  PROVE  (Named /\ HeldExist /\ OneHolder /\ HoldersMatchRows)'
<1>0. TypeOK /\ Named /\ HeldExist /\ OneHolder /\ HoldersMatchRows
  BY DEF Inv
<1>1. run[w].exec \in Executions /\ run[w].step = "work"
  BY <1>0 DEF CountRetry, Named, RunsNamed
<1> PICK x \in Executions : x = run[w].exec
  BY <1>1
<1> DEFINE retry == run[w].retry + 1
<1>2. CASE Stop(w) /\ UNCHANGED executions
  BY <1>0, <1>2, NothingQuiet, SetRunQuiet, SameQuiet, QuietStep DEF CountRetry, Stop
<1>3. CASE Write(x, [executions[x] EXCEPT !.retry = retry]) /\ AfterFailure(w, retry)
  <2>1. /\ executions'[x].retry = run[w].retry + 1
        /\ executions'[x].status = executions[x].status
        /\ \A y \in Executions : y # x => executions'[y] = executions[y]
    BY <1>0, <1>3, RowTypes DEF TypeOK, Write, ExecutionRows
  <2>2. /\ run'[w].exec = x /\ run'[w].step # "idle" /\ run'[w].retry = run[w].retry + 1
        /\ \A v \in Workers : v # w => run'[v] = run[v]
    BY <1>0, <1>3, RunTypes DEF TypeOK, SetRun, AfterFailure, Runs
  <2>3. UNCHANGED <<tick, request, queue>>
    BY CountRetry(w) DEF CountRetry
  <2>4. <<"worker", w>> \in Holders(x)
    BY <1>1 DEF Holders
  <2>5. \A k \in Holders(x) : k = <<"worker", w>>
    BY <1>0, <2>4 DEF OneHolder
  <2>6. /\ \A t \in Tickers : tick[t].exec = x => tick[t].step = "skip"
        /\ \A r \in Requests : request[r].exec # x
        /\ \A v \in Workers : v # w => run[v].exec # x
        /\ \A m \in queue : m.exec # x
    <3>1. ASSUME NEW t \in Tickers, tick[t].exec = x PROVE tick[t].step = "skip"
      <4>1. <<"tick", t>> # <<"worker", w>>
        OBVIOUS
      <4>2. tick[t].step = "skip" \/ <<"tick", t>> \in Holders(x)
        BY <3>1 DEF Holders
      <4> QED
        BY <2>5, <4>1, <4>2
    <3>2. ASSUME NEW r \in Requests, request[r].exec = x PROVE FALSE
      <4>1. <<"request", r>> # <<"worker", w>>
        OBVIOUS
      <4>2. <<"request", r>> \in Holders(x)
        BY <3>2 DEF Holders
      <4> QED
        BY <2>5, <4>1, <4>2
    <3>3. ASSUME NEW v \in Workers, v # w, run[v].exec = x PROVE FALSE
      <4>1. <<"worker", v>> # <<"worker", w>>
        BY <3>3
      <4>2. <<"worker", v>> \in Holders(x)
        BY <3>3 DEF Holders
      <4> QED
        BY <2>5, <4>1, <4>2
    <3>4. ASSUME NEW m \in queue, m.exec = x PROVE FALSE
      <4>1. <<"queue", m>> # <<"worker", w>>
        OBVIOUS
      <4>2. <<"queue", m>> \in Holders(x)
        BY <3>4 DEF Holders
      <4> QED
        BY <2>5, <4>1, <4>2
    <3> QED
      BY <3>1, <3>2, <3>3, <3>4
  <2>7. Named'
    BY <1>0, <2>2, <2>3 DEF Named, TicksNamed, RequestsNamed, RunsNamed
  <2>8. HeldExist'
    BY <1>0, <1>1, <2>1, <2>2, <2>3 DEF HeldExist
  <2>9. OneHolder'
    <3>1. \A y \in Executions : Holders(y)' \subseteq Holders(y)
      BY <1>1, <2>2, <2>3 DEF Holders
    <3> QED
      BY <1>0, <3>1, HandOver
  <2>10. HoldersMatchRows'
    BY <1>0, <2>1, <2>2, <2>3, <2>6
    DEF HoldersMatchRows, MessagesMatchRows, Named, TicksNamed, RequestsNamed, RunsNamed,
        TypeOK, Messages
  <2> QED
    BY <2>7, <2>8, <2>9, <2>10
<1> QED
  BY <1>2, <1>3 DEF CountRetry

\* The message takes the execution over from the worker.
LEMMA RequeueInv ==
  ASSUME Inv, NEW w \in Workers, Requeue(w)
  PROVE  (Named /\ HeldExist /\ OneHolder /\ HoldersMatchRows)'
<1>0. TypeOK /\ Named /\ HeldExist /\ OneHolder /\ HoldersMatchRows
  BY DEF Inv
<1>1. run[w].exec \in Executions /\ run[w].step = "requeue"
  BY <1>0 DEF Requeue, Named, RunsNamed
<1> PICK x \in Executions : x = run[w].exec
  BY <1>1
<1> PICK m : m = [exec |-> x, retry |-> run[w].retry]
  OBVIOUS
<1>2. executions[x].status # "none"
  BY <1>0, <1>1 DEF HeldExist
<1>3. RunsQuiet
  BY <1>0, NothingQuiet, SetRunQuiet DEF Requeue, Stop
<1>4. TicksQuiet /\ RequestsQuiet /\ RowsQuiet
  BY <1>0, SameQuiet DEF Requeue
<1>5. CASE UNCHANGED queue
  BY <1>3, <1>4, <1>5, QuietStep
<1>6. CASE queue' = queue \cup {m}
  <2>1. <<"worker", w>> \in Holders(x)
    BY <1>1 DEF Holders
  <2>2. run'[w].exec # x
    BY <1>0, NilIsNothing DEF Requeue, Stop, SetRun, TypeOK, NoRun
  <2>3. <<"worker", w>> \notin Holders(x)'
    BY <2>2 DEF Holders
  <2>4. m.exec = x /\ m.retry = executions[x].retry
    BY <1>0, <1>1 DEF HoldersMatchRows
  <2> QED
    BY <1>2, <1>3, <1>4, <1>6, <2>1, <2>3, <2>4, EnqueueInv
<1> QED
  BY <1>5, <1>6 DEF Requeue, Enqueued, NotEnqueued

LEMMA WorkInv ==
  ASSUME Inv, NEW w \in Workers, Work(w)
  PROVE  (Named /\ HeldExist /\ OneHolder /\ HoldersMatchRows)'
<1>0. TypeOK /\ Named /\ HeldExist
  BY DEF Inv
<1>1. CASE StartRun(w)
  <2>1. run[w].exec \in Executions /\ executions[run[w].exec].status # "none"
    BY <1>0, <1>1 DEF StartRun, Named, RunsNamed, HeldExist
  <2>2. RowsQuiet
    <3> DEFINE row == [executions[run[w].exec] EXCEPT !.status = "running", !.startedAt = now,
                                                      !.finished = FALSE]
    <3>1. row.status = "running" /\ row.retry = executions[run[w].exec].retry
      BY <2>1, <1>0, RowTypes DEF ExecutionRows
    <3>2. CASE Write(run[w].exec, row)
      <4> HIDE DEF row
      <4> QED
        BY <1>0, <2>1, <3>1, <3>2 DEF Write, RowsQuiet, TypeOK
    <3> QED
      BY <1>0, <1>1, <3>2, SameQuiet DEF StartRun
  <2>3. QuietRun(w, [run[w] EXCEPT !.step = "work"])
    BY <1>0, <1>1, RunTypes DEF StartRun, QuietRun, Runs
  <2>4. RunsQuiet
    BY <1>0, <1>1, <2>3, NothingQuiet, SetRunQuiet DEF StartRun, Stop
  <2> QED
    BY <1>0, <1>1, <2>2, <2>4, SameQuiet, QuietStep DEF StartRun
<1>2. CASE EndRun(w)
  <2>1. run[w].exec \in Executions /\ executions[run[w].exec].status # "none"
    BY <1>0, <1>2 DEF EndRun, Named, RunsNamed, HeldExist
  <2>2. RowsQuiet
    BY <1>0, <1>2, <2>1, StatusQuiet, SameQuiet DEF EndRun, OrFails, Outcomes
  <2>3. RunsQuiet
    BY <1>0, <1>2, NothingQuiet, SetRunQuiet DEF EndRun, Stop
  <2> QED
    BY <1>0, <1>2, <2>2, <2>3, SameQuiet, QuietStep DEF EndRun
<1>3. CASE GiveUp(w)
  <2>1. run[w].exec \in Executions /\ executions[run[w].exec].status # "none"
    BY <1>0, <1>3 DEF GiveUp, Named, RunsNamed, HeldExist
  <2>2. RowsQuiet
    BY <1>0, <1>3, <2>1, StatusQuiet, SameQuiet DEF GiveUp, OrFails, Outcomes
  <2>3. RunsQuiet
    BY <1>0, <1>3, NothingQuiet, SetRunQuiet DEF GiveUp, Stop
  <2> QED
    BY <1>0, <1>3, <2>2, <2>3, SameQuiet, QuietStep DEF GiveUp
<1> QED
  BY <1>1, <1>2, <1>3, TakeInv, CountRetryInv, RequeueInv DEF Work

\* Clock, administrators, and whoever stops: nothing is handed over.
LEMMA OthersInv ==
  ASSUME Inv,
         \/ Advance \/ Administer \/ UNCHANGED vars
         \/ \E t \in Tickers : TickDies(t)
         \/ \E r \in Requests : RequestFails(r)
         \/ \E w \in Workers : WorkerDies(w)
  PROVE  (Named /\ HeldExist /\ OneHolder /\ HoldersMatchRows)'
<1>0. TypeOK /\ Named /\ HeldExist
  BY DEF Inv
<1>1. CASE Advance \/ Administer \/ UNCHANGED vars
  <2>1. UNCHANGED <<executions, queue, tick, request, run>>
    BY <1>1 DEF Advance, Administer, vars, CreateSchedule, ChangeSchedule, EditSchedule,
                ChangeDefinition, ChangeTenant
  <2> QED
    BY <1>0, <2>1, SameQuiet, QuietStep
<1>2. ASSUME NEW t \in Tickers, TickDies(t)
      PROVE  (Named /\ HeldExist /\ OneHolder /\ HoldersMatchRows)'
  BY <1>0, <1>2, NothingQuiet, SetTickQuiet, SameQuiet, QuietStep DEF TickDies
<1>3. ASSUME NEW r \in Requests, RequestFails(r)
      PROVE  (Named /\ HeldExist /\ OneHolder /\ HoldersMatchRows)'
  BY <1>0, <1>3, NothingQuiet, SetRequestQuiet, SameQuiet, QuietStep DEF RequestFails, Return
<1>4. ASSUME NEW w \in Workers, WorkerDies(w)
      PROVE  (Named /\ HeldExist /\ OneHolder /\ HoldersMatchRows)'
  BY <1>0, <1>4, NothingQuiet, SetRunQuiet, SameQuiet, QuietStep DEF WorkerDies, Stop
<1> QED
  BY <1>1, <1>2, <1>3, <1>4

LEMMA InvInit == Init => Inv
<1> SUFFICES ASSUME Init PROVE Inv
  OBVIOUS
<1>1. TypeOK
  BY TypeInit
<1>2. Named
  BY DEF Init, Named, TicksNamed, RequestsNamed, RunsNamed, NoTick, NoRequest, NoRun
<1>3. HeldExist
  BY NilIsNothing DEF Init, HeldExist, NoTick, NoRequest, NoRun
<1>4. \A x \in Executions : Holders(x) = {}
  BY NilIsNothing DEF Init, Holders, NoTick, NoRequest, NoRun
<1>5. HoldersMatchRows
  BY DEF Init, HoldersMatchRows, MessagesMatchRows, NoTick, NoRequest, NoRun
<1> QED
  BY <1>1, <1>2, <1>3, <1>4, <1>5 DEF Inv, OneHolder

LEMMA InvStep == Inv /\ [Next]_vars => Inv'
<1> SUFFICES ASSUME Inv, [Next]_vars PROVE Inv'
  OBVIOUS
<1>1. TypeOK'
  BY TypeStep DEF Inv
<1>2. (Named /\ HeldExist /\ OneHolder /\ HoldersMatchRows)'
  BY TickingInv, AskInv, HandleInv, WorkInv, OthersInv DEF Next
<1> QED
  BY <1>1, <1>2 DEF Inv

\* The inductive invariant holds in every reachable state.
THEOREM Invariant == Spec => []Inv
<1>1. Init => Inv
  BY InvInit
<1>2. Inv /\ [Next]_vars => Inv'
  BY InvStep
<1> QED
  BY <1>1, <1>2, PTL DEF Spec

\* Rows, messages and the locals of ticks, requests and workers keep their shapes.
THEOREM TypeCorrect == Spec => []TypeOK
<1>1. Inv => TypeOK
  BY DEF Inv
<1> QED
  BY <1>1, Invariant, PTL

\* An execution is in the hands of one dispatcher, one message or one worker, whatever
\* fails, dies or is reported wrongly.
THEOREM ExecutionsHaveOneHolder == Spec => []OneHolder
<1>1. Inv => OneHolder
  BY DEF Inv
<1> QED
  BY <1>1, Invariant, PTL

\* No retry is refused by validate_and_load_config: the count of a message in the queue
\* is that of its row.
THEOREM RetriesMatchRows == Spec => []MessagesMatchRows
<1>1. Inv => MessagesMatchRows
  BY DEF Inv, HoldersMatchRows
<1> QED
  BY <1>1, Invariant, PTL

----------------------------------------------------------------------------
(* Executions go through JobLifecycle *)

\* A message the queue reports as refused is refused.
QueueAnswers == "queue_lost" \notin Faults

\* A run and its retries end within ZombieAfter of the start of the last attempt.
RunsAreQuick == ~SlowRuns

\* The status that goes with an attempt to come, the first one or a retry.
Ready(x, retry) ==
  /\ retry = 0 => executions[x].status = "pending"
  /\ retry # 0 => executions[x].status = "running" /\ retry < MaxRetries

\* The status and the retry_count that go with the step of a worker.
RunFits(w) ==
  /\ run[w].step = "start" => Ready(run[w].exec, run[w].retry)
  /\ run[w].step \in {"work", "requeue", "give_up"} => executions[run[w].exec].status = "running"
  /\ run[w].step = "work" => run[w].retry = 0 \/ run[w].retry < MaxRetries
  /\ run[w].step = "requeue" => run[w].retry # 0 /\ run[w].retry < MaxRetries

\* Nobody has x but a tick that will mark it skipped.
Unheld(x) ==
  /\ \A t \in Tickers : tick[t].exec = x => tick[t].step = "skip"
  /\ \A r \in Requests : request[r].exec # x
  /\ \A w \in Workers : run[w].exec # x
  /\ \A m \in queue : m.exec # x

\* An id nobody was handed has no failed attempts.
RowFits(x) == executions[x].status = "none" => executions[x].retry = 0

MessagesFit(x) == \A m \in queue : m.exec = x => Ready(x, m.retry)

RunsFit(x) == \A w \in Workers : run[w].exec = x => RunFits(w)

\* Whoever has not passed x on has a pending execution.
DispatchersFit(x) ==
  /\ \A t \in Tickers : tick[t].exec = x => executions[x].status = "pending"
  /\ \A r \in Requests : request[r].exec = x => executions[x].status = "pending"

\* What a tick is about to mark skipped, nobody else has.
SkipsFit(x) ==
  \A t \in Tickers : tick[t].exec = x /\ tick[t].step = "skip" =>
    Unheld(x) /\ \A s \in Tickers : tick[s].exec = x => s = t

\* What a tick takes for a zombie, nobody has, and nothing but a tick ends.
ZombiesFit(x) ==
  \A t \in Tickers : x \in tick[t].zombies =>
    executions[x].status \in {"running", "failed"} /\ Unheld(x)

\* What somebody has and runs is no zombie yet.
RunsInTime(x) ==
  executions[x].status = "running" /\ ~Unheld(x) => now < executions[x].startedAt + ZombieAfter

JobFits(x) ==
  /\ RowFits(x)
  /\ MessagesFit(x)
  /\ RunsFit(x)
  /\ DispatchersFit(x)
  /\ SkipsFit(x)
  /\ ZombiesFit(x)
  /\ RunsInTime(x)

JobsFit == \A x \in Executions : JobFits(x)

----------------------------------------------------------------------------
(* Who has an execution *)

\* Nobody gets hold of x, and its row stays as it is.
Untouched(x) ==
  /\ executions'[x] = executions[x] /\ now' = now
  /\ \A m \in queue' : m.exec = x => m \in queue
  /\ \A w \in Workers : run'[w].exec = x => run'[w] = run[w]
  /\ \A t \in Tickers :
       /\ tick'[t].exec = x => tick[t].exec = x /\ (tick'[t].step = "skip" <=> tick[t].step = "skip")
       /\ x \in tick'[t].zombies => x \in tick[t].zombies
  /\ \A r \in Requests : request'[r].exec = x => request[r].exec = x

LEMMA UntouchedFits ==
  ASSUME NEW x \in Executions, JobFits(x), Untouched(x)
  PROVE  JobFits(x)'
<1>1. Unheld(x) => Unheld(x)'
  BY DEF Unheld, Untouched
<1>2. RowFits(x)' /\ MessagesFit(x)'
  BY DEF JobFits, RowFits, MessagesFit, Ready, Untouched
<1>3. RunsFit(x)'
  BY DEF JobFits, RunsFit, RunFits, Ready, Untouched
<1>4. DispatchersFit(x)'
  BY DEF JobFits, DispatchersFit, Untouched
<1>5. SkipsFit(x)'
  BY <1>1 DEF JobFits, SkipsFit, Untouched
<1>6. ZombiesFit(x)'
  BY <1>1 DEF JobFits, ZombiesFit, Untouched
<1>7. RunsInTime(x)'
  BY <1>1 DEF JobFits, RunsInTime, Untouched
<1> QED
  BY <1>2, <1>3, <1>4, <1>5, <1>6, <1>7 DEF JobFits

\* What nobody has fits, whatever became of it.
LEMMA NobodyFits ==
  ASSUME NEW x \in Executions, Unheld(x), RowFits(x), \A t \in Tickers : tick[t].exec # x,
         \A t \in Tickers : x \in tick[t].zombies => executions[x].status \in {"running", "failed"}
  PROVE  JobFits(x)
BY DEF JobFits, MessagesFit, RunsFit, DispatchersFit, SkipsFit, ZombiesFit, RunsInTime, Unheld

\* The holder of an execution is its only one.
LEMMA OnlyHolder ==
  ASSUME OneHolder, NEW x \in Executions
  PROVE  /\ \A t \in Tickers : tick[t].exec = x /\ tick[t].step # "skip" =>
              /\ \A s \in Tickers : tick[s].exec = x /\ tick[s].step # "skip" => s = t
              /\ \A r \in Requests : request[r].exec # x
              /\ \A w \in Workers : run[w].exec # x
              /\ \A m \in queue : m.exec # x
         /\ \A r \in Requests : request[r].exec = x =>
              /\ \A t \in Tickers : tick[t].exec = x => tick[t].step = "skip"
              /\ \A s \in Requests : request[s].exec = x => s = r
              /\ \A w \in Workers : run[w].exec # x
              /\ \A m \in queue : m.exec # x
         /\ \A w \in Workers : run[w].exec = x =>
              /\ \A t \in Tickers : tick[t].exec = x => tick[t].step = "skip"
              /\ \A r \in Requests : request[r].exec # x
              /\ \A v \in Workers : run[v].exec = x => v = w
              /\ \A m \in queue : m.exec # x
         /\ \A m \in queue : m.exec = x =>
              /\ \A t \in Tickers : tick[t].exec = x => tick[t].step = "skip"
              /\ \A r \in Requests : request[r].exec # x
              /\ \A w \in Workers : run[w].exec # x
              /\ \A n \in queue : n.exec = x => n = m
<1>1. \A h, k \in Holders(x) : h = k
  BY DEF OneHolder
<1>2. /\ \A t \in Tickers : tick[t].exec = x /\ tick[t].step # "skip" => <<"tick", t>> \in Holders(x)
      /\ \A r \in Requests : request[r].exec = x => <<"request", r>> \in Holders(x)
      /\ \A w \in Workers : run[w].exec = x => <<"worker", w>> \in Holders(x)
      /\ \A m \in queue : m.exec = x => <<"queue", m>> \in Holders(x)
  BY DEF Holders
<1>3. \A a, b : /\ <<"tick", a>> # <<"request", b>> /\ <<"tick", a>> # <<"worker", b>>
                /\ <<"tick", a>> # <<"queue", b>> /\ <<"request", a>> # <<"worker", b>>
                /\ <<"request", a>> # <<"queue", b>> /\ <<"worker", a>> # <<"queue", b>>
  OBVIOUS
<1>4. \A a, b : /\ <<"tick", a>> = <<"tick", b>> => a = b
                /\ <<"request", a>> = <<"request", b>> => a = b
                /\ <<"worker", a>> = <<"worker", b>> => a = b
                /\ <<"queue", a>> = <<"queue", b>> => a = b
  OBVIOUS
<1>5. \A t \in Tickers : tick[t].exec = x /\ tick[t].step # "skip" =>
        /\ \A s \in Tickers : tick[s].exec = x /\ tick[s].step # "skip" => s = t
        /\ \A r \in Requests : request[r].exec # x
        /\ \A w \in Workers : run[w].exec # x
        /\ \A m \in queue : m.exec # x
  BY <1>1, <1>2, <1>3, <1>4
<1>6. \A r \in Requests : request[r].exec = x =>
        /\ \A t \in Tickers : tick[t].exec = x => tick[t].step = "skip"
        /\ \A s \in Requests : request[s].exec = x => s = r
        /\ \A w \in Workers : run[w].exec # x
        /\ \A m \in queue : m.exec # x
  BY <1>1, <1>2, <1>3, <1>4
<1>7. \A w \in Workers : run[w].exec = x =>
        /\ \A t \in Tickers : tick[t].exec = x => tick[t].step = "skip"
        /\ \A r \in Requests : request[r].exec # x
        /\ \A v \in Workers : run[v].exec = x => v = w
        /\ \A m \in queue : m.exec # x
  BY <1>1, <1>2, <1>3, <1>4
<1>8. \A m \in queue : m.exec = x =>
        /\ \A t \in Tickers : tick[t].exec = x => tick[t].step = "skip"
        /\ \A r \in Requests : request[r].exec # x
        /\ \A w \in Workers : run[w].exec # x
        /\ \A n \in queue : n.exec = x => n = m
  BY <1>1, <1>2, <1>3, <1>4
<1> QED
  BY <1>5, <1>6, <1>7, <1>8

\* What is held, no tick skips or takes for a zombie.
LEMMA HeldIsNoZombie ==
  ASSUME NEW x \in Executions, JobFits(x), ~Unheld(x)
  PROVE  \A t \in Tickers : x \notin tick[t].zombies /\ ~(tick[t].exec = x /\ tick[t].step = "skip")
BY DEF JobFits, SkipsFit, ZombiesFit

\* A step that leaves every execution but x alone.
LEMMA FitsExcept ==
  ASSUME JobsFit, NEW x \in Executions, \A y \in Executions : y # x => Untouched(y), JobFits(x)'
  PROVE  JobsFit'
BY UntouchedFits DEF JobsFit

LEMMA FitsAll ==
  ASSUME JobsFit, \A y \in Executions : Untouched(y)
  PROVE  JobsFit'
BY UntouchedFits DEF JobsFit

\* What the locals of one tick, request or worker leave untouched.
LEMMA SetTickTouches ==
  ASSUME TypeOK, NEW t \in Tickers, NEW l, SetTick(t, l), NEW x,
         UNCHANGED <<now, request, run>>, executions'[x] = executions[x],
         \A m \in queue' : m.exec = x => m \in queue,
         l.exec = x => tick[t].exec = x /\ (l.step = "skip" <=> tick[t].step = "skip"),
         x \in l.zombies => x \in tick[t].zombies
  PROVE  Untouched(x)
BY DEF TypeOK, SetTick, Untouched

LEMMA SetRequestTouches ==
  ASSUME TypeOK, NEW r \in Requests, NEW l, SetRequest(r, l), NEW x,
         UNCHANGED <<now, tick, run>>, executions'[x] = executions[x],
         \A m \in queue' : m.exec = x => m \in queue,
         l.exec = x => request[r].exec = x
  PROVE  Untouched(x)
BY DEF TypeOK, SetRequest, Untouched

LEMMA SetRunTouches ==
  ASSUME TypeOK, NEW w \in Workers, NEW l, SetRun(w, l), NEW x,
         UNCHANGED <<now, tick, request>>, executions'[x] = executions[x],
         \A m \in queue' : m.exec = x => m \in queue,
         l.exec = x => l = run[w]
  PROVE  Untouched(x)
BY DEF TypeOK, SetRun, Untouched

LEMMA LocalsAre ==
  ASSUME TypeOK
  PROVE  /\ \A t \in Tickers : \A l : SetTick(t, l) =>
              tick'[t] = l /\ \A s \in Tickers : s # t => tick'[s] = tick[s]
         /\ \A r \in Requests : \A l : SetRequest(r, l) =>
              request'[r] = l /\ \A s \in Requests : s # r => request'[s] = request[s]
         /\ \A w \in Workers : \A l : SetRun(w, l) =>
              run'[w] = l /\ \A v \in Workers : v # w => run'[v] = run[v]
         /\ \A x \in Executions : \A row : Write(x, row) =>
              executions'[x] = row /\ \A y \in Executions : y # x => executions'[y] = executions[y]
BY DEF TypeOK, SetTick, SetRequest, SetRun, Write

LEMMA NothingHolds ==
  /\ \A x \in Executions : NoTick.exec # x /\ x \notin NoTick.zombies
  /\ \A x \in Executions : NoRequest.exec # x /\ NoRun.exec # x
  /\ \A x \in Executions : \A t, due : Remaining(t, due).exec # x /\ x \notin Remaining(t, due).zombies
<1>1. \A t, due : Remaining(t, due).exec = Nil /\ Remaining(t, due).zombies = {}
  BY DEF Remaining, NoTick
<1> QED
  BY <1>1, NilIsNothing DEF NoTick, NoRequest, NoRun

----------------------------------------------------------------------------
(* Every step keeps JobsFit and is a step of JobLifecycle *)

LifeStep == Lifecycle!Next \/ UNCHANGED Lifecycle!job

LEMMA SameLife ==
  ASSUME UNCHANGED executions
  PROVE  LifeStep
BY DEF LifeStep, Lifecycle!job

\* A step of JobLifecycle that moves the outcome of x.
LEMMA StatusLife ==
  ASSUME NEW x \in Executions, \A y \in Executions : y # x => executions'[y] = executions[y],
         executions'[x].retry = executions[x].retry,
         \/ executions'[x].status = executions[x].status
         \/ executions[x].status = "none" /\ executions'[x].status = "pending"
         \/ executions[x].status = "pending" /\ executions'[x].status \in {"skipped", "running"}
         \/ executions[x].status = "running" /\ executions'[x].status \in {"success", "failed", "timeout"}
  PROVE  LifeStep
<1> DEFINE outcome == [y \in Executions |-> executions[y].status]
           attempts == [y \in Executions |-> executions[y].retry]
<1>1. attempts' = attempts
  OBVIOUS
<1>2. \A o : executions'[x].status = o => outcome' = [outcome EXCEPT ![x] = o]
  OBVIOUS
<1>3. outcome[x] = executions[x].status
  OBVIOUS
<1>4. CASE executions'[x].status = executions[x].status
  <2>1. outcome' = outcome
    BY <1>4
  <2> QED
    BY <1>1, <2>1 DEF LifeStep, Lifecycle!job
<1> HIDE DEF outcome, attempts
<1>5. \A from, to : executions[x].status = from /\ executions'[x].status = to => Lifecycle!Move(x, from, to)
  BY <1>1, <1>2, <1>3 DEF Lifecycle!Move, outcome, attempts
<1>6. CASE executions[x].status = "none" /\ executions'[x].status = "pending"
  BY <1>5, <1>6 DEF LifeStep, Lifecycle!Next, Lifecycle!Submit
<1>7. CASE executions[x].status = "pending" /\ executions'[x].status \in {"skipped", "running"}
  BY <1>5, <1>7 DEF LifeStep, Lifecycle!Next, Lifecycle!Skip, Lifecycle!Begin
<1>8. CASE executions[x].status = "running" /\ executions'[x].status \in {"success", "failed", "timeout"}
  BY <1>5, <1>8 DEF LifeStep, Lifecycle!Next, Lifecycle!End
<1> QED
  BY <1>4, <1>6, <1>7, <1>8

LEMMA RetryLife ==
  ASSUME NEW x \in Executions, \A y \in Executions : y # x => executions'[y] = executions[y],
         executions[x].status = "running", executions'[x].status = "running",
         executions[x].retry = 0 \/ executions[x].retry < MaxRetries,
         executions'[x].retry = executions[x].retry + 1
  PROVE  LifeStep
<1> DEFINE outcome == [y \in Executions |-> executions[y].status]
           attempts == [y \in Executions |-> executions[y].retry]
<1>1. outcome' = outcome /\ outcome[x] = "running" /\ attempts[x] = executions[x].retry
  OBVIOUS
<1>2. attempts' = [attempts EXCEPT ![x] = @ + 1]
  OBVIOUS
<1>3. Lifecycle!FailAttempt(x)
  BY <1>1, <1>2 DEF Lifecycle!FailAttempt
<1> QED
  BY <1>3 DEF LifeStep, Lifecycle!Next

LEMMA RowIs ==
  ASSUME TypeOK, NEW x \in Executions
  PROVE  /\ executions[x] \in ExecutionRows
         /\ \A status, finished : UpdateStatus(x, status, finished) =>
              /\ executions'[x].status = status /\ executions'[x].retry = executions[x].retry
              /\ \A y \in Executions : y # x => executions'[y] = executions[y]
<1>1. executions[x] \in ExecutionRows
  BY RowTypes
<1>2. ASSUME NEW status, NEW finished, UpdateStatus(x, status, finished)
      PROVE  /\ executions'[x].status = status /\ executions'[x].retry = executions[x].retry
             /\ \A y \in Executions : y # x => executions'[y] = executions[y]
  <2> DEFINE row == [executions[x] EXCEPT !.status = status, !.finished = finished]
  <2>1. row.status = status /\ row.retry = executions[x].retry
    BY <1>1 DEF ExecutionRows
  <2>2. Write(x, row)
    BY <1>2 DEF UpdateStatus
  <2> HIDE DEF row
  <2> QED
    BY <2>1, <2>2, LocalsAre
<1> QED
  BY <1>1, <1>2

LEMMA PendingIs ==
  ASSUME TypeOK, NEW x \in Executions, NEW s, InsertPending(x, s)
  PROVE  /\ executions[x].status = "none"
         /\ executions'[x].status = "pending" /\ executions'[x].retry = 0
         /\ \A y \in Executions : y # x => executions'[y] = executions[y]
<1> DEFINE row == [NoExecution EXCEPT !.status = "pending", !.schedule = s]
<1>1. row.status = "pending" /\ row.retry = 0
  BY DEF NoExecution
<1>2. Write(x, row) /\ executions[x].status = "none"
  BY DEF InsertPending
<1> HIDE DEF row
<1> QED
  BY <1>1, <1>2, LocalsAre

----------------------------------------------------------------------------
(* The tick *)

LEMMA TickStartFits ==
  ASSUME Inv, JobsFit, NEW t \in Tickers, TickStart(t)
  PROVE  JobsFit' /\ LifeStep
<1>0. TypeOK
  BY DEF Inv
<1> DEFINE l == [NoTick EXCEPT !.step = "recover", !.at = now, !.zombies = Zombies]
<1>1. SetTick(t, l) /\ UNCHANGED <<now, executions, queue, request, run>>
  BY DEF TickStart
<1>2. l.exec = Nil /\ l.zombies = Zombies /\ l.step = "recover"
  BY DEF NoTick
<1> HIDE DEF l
<1>3. tick'[t] = l /\ \A s \in Tickers : s # t => tick'[s] = tick[s]
  BY <1>0, <1>1, LocalsAre
<1>4. ASSUME NEW x \in Executions, x \notin Zombies
      PROVE  JobFits(x)'
  <2>1. Untouched(x)
    BY <1>0, <1>1, <1>2, <1>4, SetTickTouches, NilIsNothing
  <2> QED
    BY <2>1, UntouchedFits DEF JobsFit
<1>5. ASSUME NEW x \in Zombies
      PROVE  JobFits(x)'
  <2>1. x \in Executions /\ executions[x].status = "running"
        /\ executions[x].startedAt + ZombieAfter <= now
    BY DEF Zombies, IsZombie, Running
  <2>2. executions[x].startedAt \in Nat /\ ZombieAfter \in Nat /\ now \in Nat
    BY <1>0, <2>1, SchedulerConstants DEF TypeOK, ExecutionRows
  <2>3. Unheld(x)
    BY <2>1, <2>2 DEF JobsFit, JobFits, RunsInTime
  <2>4. \A s \in Tickers : tick[s].exec # x
    BY <2>1 DEF JobsFit, JobFits, DispatchersFit
  <2>5. Unheld(x)' /\ \A s \in Tickers : tick'[s].exec # x
    BY <1>1, <1>2, <1>3, <2>1, <2>3, <2>4, NilIsNothing DEF Unheld
  <2>6. executions'[x].status = "running"
    BY <1>1, <2>1
  <2> QED
    BY <2>1, <2>5, <2>6 DEF JobFits, RowFits, MessagesFit, RunsFit, DispatchersFit, SkipsFit, ZombiesFit,
                            RunsInTime, Unheld
<1>6. JobsFit'
  BY <1>4, <1>5 DEF JobsFit
<1> QED
  BY <1>1, <1>6, SameLife

LEMMA RecoverZombieFits ==
  ASSUME Inv, JobsFit, NEW t \in Tickers, RecoverZombie(t)
  PROVE  JobsFit' /\ LifeStep
<1>0. TypeOK /\ UNCHANGED <<now, queue, request, run>> /\ tick[t].zombies \subseteq Executions
  BY TickTypes DEF Inv, RecoverZombie
<1>1. CASE SetTick(t, NoTick) /\ UNCHANGED executions
  <2>1. \A y \in Executions : Untouched(y)
    BY <1>0, <1>1, SetTickTouches, NothingHolds
  <2> QED
    BY <1>1, <2>1, FitsAll, SameLife
<1>2. ASSUME NEW x \in tick[t].zombies, UpdateStatus(x, "failed", TRUE),
             SetTick(t, [tick[t] EXCEPT !.zombies = @ \ {x}])
      PROVE  JobsFit' /\ LifeStep
  <2> DEFINE l == [tick[t] EXCEPT !.zombies = @ \ {x}]
  <2>1. x \in Executions /\ executions[x].status \in {"running", "failed"} /\ Unheld(x)
    BY <1>0 DEF JobsFit, JobFits, ZombiesFit
  <2>2. executions'[x].status = "failed" /\ executions'[x].retry = executions[x].retry
        /\ \A y \in Executions : y # x => executions'[y] = executions[y]
    BY <1>0, <1>2, <2>1, RowIs
  <2>3. l.exec = tick[t].exec /\ l.step = tick[t].step /\ l.zombies = tick[t].zombies \ {x}
    BY <1>0, TickTypes DEF Ticks
  <2>4. SetTick(t, l)
    BY <1>2
  <2> HIDE DEF l
  <2>5. \A y \in Executions : y # x => Untouched(y)
    BY <1>0, <2>2, <2>3, <2>4, SetTickTouches
  <2>6. \A s \in Tickers : tick'[s].exec = tick[s].exec /\ tick'[s].step = tick[s].step
    BY <1>0, <2>3, <2>4, LocalsAre
  <2>7. \A s \in Tickers : tick[s].exec # x
    BY <2>1 DEF JobsFit, JobFits, DispatchersFit
  <2>8. Unheld(x)' /\ (\A s \in Tickers : tick[s].exec # x)'
    BY <1>0, <2>1, <2>6, <2>7 DEF Unheld
  <2>9. JobFits(x)'
    BY <2>1, <2>2, <2>8
       DEF JobFits, RowFits, MessagesFit, RunsFit, DispatchersFit, SkipsFit, ZombiesFit, RunsInTime, Unheld
  <2> QED
    BY <2>1, <2>2, <2>5, <2>9, FitsExcept, StatusLife
<1> QED
  BY <1>1, <1>2 DEF RecoverZombie

LEMMA CreatePendingFits ==
  ASSUME Inv, JobsFit, NEW t \in Tickers, CreatePending(t)
  PROVE  JobsFit' /\ LifeStep
<1>0. /\ TypeOK /\ HeldExist /\ UNCHANGED <<now, queue, request, run>>
      /\ tick[t].step = "create" /\ tick[t].schedule \in Schedules
  BY DEF Inv, CreatePending, Named, TicksNamed
<1>1. CASE NextSchedule(t, tick[t].due) /\ UNCHANGED executions
  <2>1. \A y \in Executions : Untouched(y)
    BY <1>0, <1>1, SetTickTouches, NothingHolds DEF NextSchedule
  <2> QED
    BY <1>1, <2>1, FitsAll, SameLife
<1>2. ASSUME NEW x \in Executions, InsertPending(x, tick[t].schedule),
             SetTick(t, [tick[t] EXCEPT !.step = "advance", !.exec = x])
      PROVE  JobsFit' /\ LifeStep
  <2> DEFINE l == [tick[t] EXCEPT !.step = "advance", !.exec = x]
  <2>1. executions[x].status = "none" /\ executions'[x].status = "pending" /\ executions'[x].retry = 0
        /\ \A y \in Executions : y # x => executions'[y] = executions[y]
    BY <1>0, <1>2, PendingIs
  <2>2. executions[x].retry = 0
    BY <2>1 DEF JobsFit, JobFits, RowFits
  <2>3. l.exec = x /\ l.step = "advance" /\ l.zombies = tick[t].zombies
    BY <1>0, TickTypes DEF Ticks
  <2>4. SetTick(t, l)
    BY <1>2
  <2> HIDE DEF l
  <2>5. \A y \in Executions : y # x => Untouched(y)
    BY <1>0, <2>1, <2>3, <2>4, SetTickTouches
  <2>6. tick'[t] = l /\ \A s \in Tickers : s # t => tick'[s] = tick[s]
    BY <1>0, <2>4, LocalsAre
  <2>7. /\ \A s \in Tickers : tick[s].exec # x /\ x \notin tick[s].zombies
        /\ \A r \in Requests : request[r].exec # x
        /\ \A w \in Workers : run[w].exec # x
        /\ \A m \in queue : m.exec # x
    BY <1>0, <2>1 DEF HeldExist
  <2>8. JobFits(x)'
    BY <1>0, <2>1, <2>3, <2>6, <2>7
       DEF JobFits, RowFits, MessagesFit, RunsFit, DispatchersFit, SkipsFit, ZombiesFit, RunsInTime
  <2> QED
    BY <2>1, <2>2, <2>5, <2>8, FitsExcept, StatusLife
<1> QED
  BY <1>1, <1>2 DEF CreatePending

----------------------------------------------------------------------------
(* Dispatching *)

\* A tick that goes on, or ends, without an execution it did not have.
LEMMA CalmTickFits ==
  ASSUME Inv, JobsFit, NEW t \in Tickers,
         FindDue(t) \/ CheckSchedule(t) \/ AdvanceNextRun(t) \/ TickDies(t)
  PROVE  JobsFit' /\ LifeStep
<1>0. TypeOK /\ UNCHANGED <<now, executions, queue, request, run>>
  BY DEF Inv, FindDue, CheckSchedule, AdvanceNextRun, TickDies
<1>1. ASSUME NEW l, SetTick(t, l), \A y \in Executions : l.exec # y /\ y \notin l.zombies
      PROVE  JobsFit' /\ LifeStep
  BY <1>0, <1>1, SetTickTouches, FitsAll, SameLife
<1>2. CASE SetTick(t, NoTick) \/ \E due : NextSchedule(t, due)
  BY <1>1, <1>2, NothingHolds DEF NextSchedule
<1>3. ASSUME NEW d, tick[t].step = "due",
             SetTick(t, [tick[t] EXCEPT !.step = "create", !.schedule = d.schedule, !.due = @ \ {d}])
      PROVE  JobsFit' /\ LifeStep
  <2> DEFINE l == [tick[t] EXCEPT !.step = "create", !.schedule = d.schedule, !.due = @ \ {d}]
  <2>1. l.exec = tick[t].exec /\ l.zombies = tick[t].zombies /\ l.step = "create" /\ SetTick(t, l)
    BY <1>0, <1>3, TickTypes DEF Ticks
  <2> HIDE DEF l
  <2>2. \A y \in Executions : Untouched(y)
    BY <1>0, <1>3, <2>1, SetTickTouches
  <2> QED
    BY <1>0, <2>2, FitsAll, SameLife
<1>4. ASSUME tick[t].step = "advance", SetTick(t, [tick[t] EXCEPT !.step = "dispatch"])
      PROVE  JobsFit' /\ LifeStep
  <2> DEFINE l == [tick[t] EXCEPT !.step = "dispatch"]
  <2>1. l.exec = tick[t].exec /\ l.zombies = tick[t].zombies /\ l.step = "dispatch" /\ SetTick(t, l)
    BY <1>0, <1>4, TickTypes DEF Ticks
  <2> HIDE DEF l
  <2>2. \A y \in Executions : Untouched(y)
    BY <1>0, <1>4, <2>1, SetTickTouches
  <2> QED
    BY <1>0, <2>2, FitsAll, SameLife
<1>5. CASE CheckSchedule(t)
  BY <1>2, <1>3, <1>5 DEF CheckSchedule
<1>6. CASE AdvanceNextRun(t)
  BY <1>2, <1>4, <1>6 DEF AdvanceNextRun
<1>7. CASE FindDue(t) \/ TickDies(t)
  BY <1>2, <1>7 DEF FindDue, TickDies
<1> QED
  BY <1>5, <1>6, <1>7

\* A pending execution that its dispatcher puts into the queue, where it is ready for its
\* first attempt, or drops.
LEMMA HandedToQueue ==
  ASSUME Inv, JobsFit, NEW x \in Executions, executions[x].status = "pending",
         UNCHANGED <<now, executions, run>>, RunsInTime(x)',
         queue' = queue \/ queue' = queue \cup {FirstAttempt(x)},
         \A w \in Workers : run[w].exec # x, \A m \in queue : m.exec # x,
         \A t \in Tickers : tick'[t].exec # x,
         \A r \in Requests : request'[r].exec # x,
         \A t \in Tickers : x \notin tick'[t].zombies
  PROVE  JobFits(x)'
<1>1. \A m \in queue' : m.exec = x => m.retry = 0
  BY DEF FirstAttempt
<1>2. RowFits(x)' /\ MessagesFit(x)'
  BY <1>1 DEF JobsFit, JobFits, RowFits, MessagesFit, Ready
<1> QED
  BY <1>2 DEF JobFits, RunsFit, DispatchersFit, SkipsFit, ZombiesFit

LEMMA DispatchFits ==
  ASSUME Inv, JobsFit, QueueAnswers, NEW t \in Tickers, Dispatch(t)
  PROVE  JobsFit' /\ LifeStep
<1>0. TypeOK /\ OneHolder /\ UNCHANGED <<now, executions, request, run>> /\ tick[t].step = "dispatch"
  BY DEF Inv, Dispatch
<1>x. PICK x \in Executions : x = tick[t].exec
  BY <1>0 DEF Inv, Named, TicksNamed
<1>1. executions[x].status = "pending" /\ ~Unheld(x)
  BY <1>0, <1>x DEF JobsFit, JobFits, DispatchersFit, Unheld
<1>2. /\ \A s \in Tickers : tick[s].exec = x => s = t
      /\ \A s \in Tickers : x \notin tick[s].zombies
      /\ \A r \in Requests : request[r].exec # x
      /\ \A w \in Workers : run[w].exec # x
      /\ \A m \in queue : m.exec # x
  BY <1>0, <1>1, <1>x, OnlyHolder, HeldIsNoZombie DEF JobsFit
<1>3. PICK l : /\ SetTick(t, l)
               /\ \/ l = Remaining(t, tick[t].due) /\ queue' = queue \cup {FirstAttempt(x)}
                  \/ l = [tick[t] EXCEPT !.step = "skip"] /\ queue' = queue
  BY <1>x DEF Dispatch, NotEnqueued, Enqueued, QueueAnswers, NextSchedule
<1>4. tick'[t] = l /\ \A s \in Tickers : s # t => tick'[s] = tick[s]
  BY <1>0, <1>3, LocalsAre
<1>5. CASE l = Remaining(t, tick[t].due) /\ queue' = queue \cup {FirstAttempt(x)}
  <2>1. l.exec # x /\ x \notin l.zombies /\ \A y \in Executions : l.exec # y /\ y \notin l.zombies
    BY <1>5, NothingHolds
  <2>2. JobFits(x)'
    BY <1>0, <1>1, <1>2, <1>4, <1>5, <2>1, HandedToQueue DEF RunsInTime
  <2>3. \A y \in Executions : y # x => Untouched(y)
    BY <1>0, <1>3, <1>5, <2>1, SetTickTouches DEF FirstAttempt
  <2> QED
    BY <1>0, <2>2, <2>3, FitsExcept, SameLife
<1>6. CASE l = [tick[t] EXCEPT !.step = "skip"] /\ queue' = queue
  <2>1. l.exec = x /\ l.step = "skip" /\ l.zombies = tick[t].zombies
    BY <1>0, <1>6, <1>x, TickTypes DEF Ticks
  <2>2. Unheld(x)'
    BY <1>0, <1>2, <1>4, <1>6, <2>1 DEF Unheld
  <2>3. JobFits(x)'
    BY <1>0, <1>1, <1>2, <1>4, <1>6, <2>1, <2>2
       DEF JobFits, RowFits, MessagesFit, RunsFit, DispatchersFit, SkipsFit, ZombiesFit, RunsInTime
  <2>4. \A y \in Executions : y # x => Untouched(y)
    BY <1>0, <1>3, <1>6, <1>x, <2>1, SetTickTouches
  <2> QED
    BY <1>0, <2>3, <2>4, FitsExcept, SameLife
<1> QED
  BY <1>3, <1>5, <1>6

\* What a dispatcher gives up for good.
LEMMA SkippedFits ==
  ASSUME Inv, JobsFit, NEW x \in Executions, executions[x].status = "pending",
         UpdateStatus(x, "skipped", FALSE), Unheld(x)', \A t \in Tickers : tick'[t].exec # x,
         \A t \in Tickers : x \notin tick'[t].zombies,
         \A y \in Executions : y # x => Untouched(y)
  PROVE  JobsFit' /\ LifeStep
<1>1. executions'[x].status = "skipped" /\ executions'[x].retry = executions[x].retry
      /\ \A y \in Executions : y # x => executions'[y] = executions[y]
  BY RowIs DEF Inv
<1>2. JobFits(x)'
  BY <1>1
     DEF JobFits, RowFits, MessagesFit, RunsFit, DispatchersFit, SkipsFit, ZombiesFit, RunsInTime, Unheld
<1> QED
  BY <1>1, <1>2, FitsExcept, StatusLife

LEMMA MarkSkippedFits ==
  ASSUME Inv, JobsFit, NEW t \in Tickers, MarkSkipped(t)
  PROVE  JobsFit' /\ LifeStep
<1>0. /\ TypeOK /\ UNCHANGED <<now, queue, request, run>> /\ tick[t].step = "skip"
      /\ NextSchedule(t, tick[t].due)
  BY DEF Inv, MarkSkipped
<1>x. PICK x \in Executions : x = tick[t].exec
  BY <1>0 DEF Inv, Named, TicksNamed
<1>1. \A y \in Executions : tick'[t].exec # y /\ y \notin tick'[t].zombies
  BY <1>0, LocalsAre, NothingHolds DEF NextSchedule
<1>2. CASE UNCHANGED executions
  <2>1. \A y \in Executions : Untouched(y)
    BY <1>0, <1>2, SetTickTouches, NothingHolds DEF NextSchedule
  <2> QED
    BY <1>2, <2>1, FitsAll, SameLife
<1>3. CASE UpdateStatus(x, "skipped", FALSE)
  <2>1. executions[x].status = "pending" /\ Unheld(x) /\ \A s \in Tickers : tick[s].exec = x => s = t
    BY <1>0, <1>x DEF JobsFit, JobFits, DispatchersFit, SkipsFit
  <2>2. \A s \in Tickers : s # t => tick'[s] = tick[s]
    BY <1>0, LocalsAre DEF NextSchedule
  <2>3. \A s \in Tickers : tick'[s].exec # x /\ x \notin tick'[s].zombies
    BY <1>1, <2>1, <2>2 DEF JobsFit, JobFits, ZombiesFit
  <2>4. Unheld(x)'
    BY <1>0, <2>1, <2>3 DEF Unheld
  <2>5. \A y \in Executions : y # x => executions'[y] = executions[y]
    BY <1>0, <1>3, RowIs
  <2>6. \A y \in Executions : y # x => Untouched(y)
    BY <1>0, <2>5, SetTickTouches, NothingHolds DEF NextSchedule
  <2> QED
    BY <1>3, <2>1, <2>3, <2>4, <2>6, SkippedFits
<1> QED
  BY <1>2, <1>3, <1>x DEF MarkSkipped, OrFails

----------------------------------------------------------------------------
(* Requests *)

\* A request that gets hold of no execution.
LEMMA CalmRequestFits ==
  ASSUME Inv, JobsFit, NEW r \in Requests,
         \/ Ask(r) \/ DisableRevoked(r) \/ DeleteGrants(r) \/ InsertGrant(r) \/ RequestFails(r)
  PROVE  JobsFit' /\ LifeStep
<1>0. TypeOK /\ UNCHANGED <<now, executions, queue, tick, run>>
  BY DEF Inv, Ask, TriggerCheck, SetGrants, DisableRevoked, DeleteGrants, InsertGrant, RequestFails
<1>1. ASSUME NEW l, SetRequest(r, l), \A y \in Executions : l.exec = y => request[r].exec = y
      PROVE  JobsFit' /\ LifeStep
  BY <1>0, <1>1, SetRequestTouches, FitsAll, SameLife
<1>2. \A s \in Schedules : [NoRequest EXCEPT !.step = "create", !.schedule = s].exec = Nil
  BY DEF NoRequest
<1>3. \A d, old, new :
        [NoRequest EXCEPT !.step = "disable", !.def = d, !.new = new, !.old = old].exec = Nil
  BY DEF NoRequest
<1>4. /\ [request[r] EXCEPT !.step = "delete"].exec = request[r].exec
      /\ \A todo : [request[r] EXCEPT !.step = "insert", !.todo = todo].exec = request[r].exec
      /\ \A todo : [request[r] EXCEPT !.todo = todo].exec = request[r].exec
  BY <1>0, RequestTypes DEF RequestLocals
<1>5. CASE Ask(r)
  <2>1. ASSUME NEW s \in Schedules, TriggerCheck(r, s)
        PROVE  JobsFit' /\ LifeStep
    BY <1>1, <1>2, <2>1, NilIsNothing DEF TriggerCheck
  <2>2. ASSUME NEW d, NEW new, SetGrants(r, d, new)
        PROVE  JobsFit' /\ LifeStep
    <3> DEFINE l == [NoRequest EXCEPT !.step = "disable", !.def = d, !.new = new,
                                      !.old = {u \in Tenants : <<d, u>> \in grants}]
    <3>1. l.exec = Nil /\ SetRequest(r, l)
      BY <1>3, <2>2 DEF SetGrants
    <3> HIDE DEF l
    <3> QED
      BY <1>1, <3>1, NilIsNothing
  <2> QED
    BY <1>5, <2>1, <2>2 DEF Ask
<1>6. CASE Return(r)
  BY <1>1, <1>6, NothingHolds DEF Return
<1>7. CASE DisableRevoked(r)
  BY <1>1, <1>4, <1>7 DEF DisableRevoked
<1>8. CASE DeleteGrants(r) \/ InsertGrant(r)
  BY <1>1, <1>4, <1>6, <1>8 DEF DeleteGrants, InsertGrant
<1> QED
  BY <1>5, <1>6, <1>7, <1>8 DEF RequestFails

LEMMA TriggerCreateFits ==
  ASSUME Inv, JobsFit, NEW r \in Requests, TriggerCreate(r)
  PROVE  JobsFit' /\ LifeStep
<1>0. TypeOK /\ HeldExist /\ UNCHANGED <<now, queue, tick, run>>
  BY DEF Inv, TriggerCreate
<1>1. CASE Return(r) /\ UNCHANGED executions
  <2>1. \A y \in Executions : Untouched(y)
    BY <1>0, <1>1, SetRequestTouches, NothingHolds DEF Return
  <2> QED
    BY <1>1, <2>1, FitsAll, SameLife
<1>2. ASSUME NEW x \in Executions, InsertPending(x, request[r].schedule),
             SetRequest(r, [request[r] EXCEPT !.step = "enqueue", !.exec = x])
      PROVE  JobsFit' /\ LifeStep
  <2> DEFINE l == [request[r] EXCEPT !.step = "enqueue", !.exec = x]
  <2>1. executions[x].status = "none" /\ executions'[x].status = "pending" /\ executions'[x].retry = 0
        /\ \A y \in Executions : y # x => executions'[y] = executions[y]
    BY <1>0, <1>2, PendingIs
  <2>2. executions[x].retry = 0
    BY <2>1 DEF JobsFit, JobFits, RowFits
  <2>3. l.exec = x /\ SetRequest(r, l)
    BY <1>0, <1>2, RequestTypes DEF RequestLocals
  <2> HIDE DEF l
  <2>4. \A y \in Executions : y # x => Untouched(y)
    BY <1>0, <2>1, <2>3, SetRequestTouches
  <2>5. /\ \A s \in Tickers : tick[s].exec # x /\ x \notin tick[s].zombies
        /\ \A w \in Workers : run[w].exec # x
        /\ \A m \in queue : m.exec # x
    BY <1>0, <2>1 DEF HeldExist
  <2>6. JobFits(x)'
    BY <1>0, <2>1, <2>5
       DEF JobFits, RowFits, MessagesFit, RunsFit, DispatchersFit, SkipsFit, ZombiesFit, RunsInTime
  <2> QED
    BY <2>1, <2>2, <2>4, <2>6, FitsExcept, StatusLife
<1> QED
  BY <1>1, <1>2 DEF TriggerCreate

LEMMA TriggerEnqueueFits ==
  ASSUME Inv, JobsFit, NEW r \in Requests, TriggerEnqueue(r)
  PROVE  JobsFit' /\ LifeStep
<1>0. /\ TypeOK /\ OneHolder /\ UNCHANGED <<now, tick, run>> /\ request[r].step = "enqueue"
      /\ SetRequest(r, NoRequest)
  BY DEF Inv, TriggerEnqueue, Return
<1>x. PICK x \in Executions : x = request[r].exec
  BY <1>0 DEF Inv, Named, RequestsNamed
<1>1. executions[x].status = "pending" /\ ~Unheld(x)
  BY <1>x DEF JobsFit, JobFits, DispatchersFit, Unheld
<1>2. /\ \A s \in Tickers : tick[s].exec # x /\ x \notin tick[s].zombies
      /\ \A q \in Requests : request[q].exec = x => q = r
      /\ \A w \in Workers : run[w].exec # x
      /\ \A m \in queue : m.exec # x
  BY <1>0, <1>1, <1>x, OnlyHolder, HeldIsNoZombie DEF JobsFit
<1>3. \A q \in Requests : request'[q].exec # x
  BY <1>0, <1>2, LocalsAre, NothingHolds
<1>4. CASE UNCHANGED executions /\ (queue' = queue \/ queue' = queue \cup {FirstAttempt(x)})
  <2>1. JobFits(x)'
    BY <1>0, <1>1, <1>2, <1>3, <1>4, HandedToQueue DEF RunsInTime
  <2>2. \A y \in Executions : y # x => Untouched(y)
    BY <1>0, <1>4, SetRequestTouches, NothingHolds DEF FirstAttempt
  <2> QED
    BY <1>4, <2>1, <2>2, FitsExcept, SameLife
<1>5. CASE UpdateStatus(x, "skipped", FALSE) /\ UNCHANGED queue
  <2>1. \A y \in Executions : y # x => executions'[y] = executions[y]
    BY <1>0, <1>5, RowIs
  <2>2. \A y \in Executions : y # x => Untouched(y)
    BY <1>0, <1>5, <2>1, SetRequestTouches, NothingHolds
  <2>3. Unheld(x)'
    BY <1>0, <1>2, <1>3, <1>5 DEF Unheld
  <2> QED
    BY <1>0, <1>1, <1>2, <1>5, <2>2, <2>3, SkippedFits
<1> QED
  BY <1>4, <1>5, <1>x DEF TriggerEnqueue, OrFails, Enqueued, NotEnqueued

----------------------------------------------------------------------------
(* Workers *)

LEMMA TakeFits ==
  ASSUME Inv, JobsFit, NEW w \in Workers, Take(w)
  PROVE  JobsFit' /\ LifeStep
<1>0. TypeOK /\ OneHolder /\ UNCHANGED <<now, executions, tick, request>> /\ run[w] = NoRun
  BY DEF Inv, Take
<1>1. CASE UNCHANGED run
  <2>1. \A y \in Executions : Untouched(y)
    BY <1>0, <1>1 DEF Take, Untouched
  <2> QED
    BY <1>0, <2>1, FitsAll, SameLife
<1>2. ASSUME NEW m \in queue, queue' = queue \ {m},
             SetRun(w, [step |-> "start", exec |-> m.exec, retry |-> m.retry])
      PROVE  JobsFit' /\ LifeStep
  <2>x. PICK x \in Executions : x = m.exec
    BY <1>0 DEF TypeOK, Messages
  <2>1. run'[w] = [step |-> "start", exec |-> x, retry |-> m.retry]
        /\ \A v \in Workers : v # w => run'[v] = run[v]
    BY <1>0, <1>2, <2>x, LocalsAre
  <2>2. Ready(x, m.retry) /\ ~Unheld(x)
    BY <2>x DEF JobsFit, JobFits, MessagesFit, Unheld
  <2>3. /\ \A s \in Tickers : tick[s].exec # x /\ x \notin tick[s].zombies
        /\ \A r \in Requests : request[r].exec # x
        /\ \A v \in Workers : run[v].exec # x
        /\ \A n \in queue : n.exec = x => n = m
    BY <1>0, <2>2, <2>x, OnlyHolder, HeldIsNoZombie DEF JobsFit
  <2>4. RunFits(w)'
    BY <1>0, <2>1, <2>2 DEF RunFits, Ready
  <2>5. RunsFit(x)'
    BY <2>1, <2>3, <2>4 DEF RunsFit
  <2>6. RowFits(x)' /\ RunsInTime(x)'
    BY <1>0, <2>2 DEF JobsFit, JobFits, RowFits, RunsInTime
  <2>7. JobFits(x)'
    BY <1>0, <1>2, <2>3, <2>5, <2>6 DEF JobFits, MessagesFit, DispatchersFit, SkipsFit, ZombiesFit
  <2>8. \A y \in Executions : y # x => Untouched(y)
    BY <1>0, <1>2, <2>1 DEF Untouched
  <2> QED
    BY <1>0, <2>7, <2>8, FitsExcept, SameLife
<1> QED
  BY <1>1, <1>2 DEF Take

\* A worker that stops, and leaves its execution as it is or with an outcome.
LEMMA StopFits ==
  ASSUME Inv, JobsFit, NEW w \in Workers, run[w].step # "idle", Stop(w),
         UNCHANGED <<now, queue, tick, request>>,
         \/ UNCHANGED executions
         \/ /\ executions[run[w].exec].status = "running"
            /\ \E o \in {"success", "failed", "timeout"} : UpdateStatus(run[w].exec, o, TRUE)
  PROVE  JobsFit' /\ LifeStep
<1>0. TypeOK /\ OneHolder /\ SetRun(w, NoRun)
  BY DEF Inv, Stop
<1>1. CASE UNCHANGED executions
  <2>1. \A y \in Executions : Untouched(y)
    BY <1>0, <1>1, SetRunTouches, NothingHolds
  <2> QED
    BY <1>1, <2>1, FitsAll, SameLife
<1>2. ASSUME NEW o \in {"success", "failed", "timeout"}, executions[run[w].exec].status = "running",
             UpdateStatus(run[w].exec, o, TRUE)
      PROVE  JobsFit' /\ LifeStep
  <2>x. PICK x \in Executions : x = run[w].exec
    BY DEF Inv, Named, RunsNamed
  <2>1. executions'[x].status = o /\ executions'[x].retry = executions[x].retry
        /\ \A y \in Executions : y # x => executions'[y] = executions[y]
    BY <1>0, <1>2, <2>x, RowIs
  <2>2. ~Unheld(x)
    BY <2>x DEF Unheld
  <2>3. /\ \A s \in Tickers : tick[s].exec # x /\ x \notin tick[s].zombies
        /\ \A r \in Requests : request[r].exec # x
        /\ \A v \in Workers : run[v].exec = x => v = w
        /\ \A m \in queue : m.exec # x
    BY <1>0, <2>2, <2>x, OnlyHolder, HeldIsNoZombie DEF JobsFit
  <2>4. \A v \in Workers : run'[v].exec # x
    BY <1>0, <2>3, LocalsAre, NothingHolds
  <2>5. JobFits(x)'
    BY <2>1, <2>3, <2>4
       DEF JobFits, RowFits, MessagesFit, RunsFit, DispatchersFit, SkipsFit, ZombiesFit, RunsInTime
  <2>6. \A y \in Executions : y # x => Untouched(y)
    BY <1>0, <2>1, SetRunTouches, NothingHolds
  <2> QED
    BY <1>2, <2>1, <2>5, <2>6, <2>x, FitsExcept, StatusLife
<1> QED
  BY <1>1, <1>2

\* A worker that goes on with its execution, which stays or becomes running.
LEMMA GoOnFits ==
  ASSUME Inv, JobsFit, NEW w \in Workers, NEW x \in Executions, run[w].exec = x, NEW l, l.exec = x,
         SetRun(w, l), UNCHANGED <<now, queue, tick, request>>,
         \A y \in Executions : y # x => executions'[y] = executions[y],
         executions'[x].status = "running", RunFits(w)', RunsInTime(x)'
  PROVE  JobsFit'
<1>0. TypeOK /\ OneHolder
  BY DEF Inv
<1>1. ~Unheld(x)
  BY DEF Unheld
<1>2. /\ \A s \in Tickers : tick[s].exec # x /\ x \notin tick[s].zombies
      /\ \A r \in Requests : request[r].exec # x
      /\ \A v \in Workers : run[v].exec = x => v = w
      /\ \A m \in queue : m.exec # x
  BY <1>0, <1>1, OnlyHolder, HeldIsNoZombie DEF JobsFit
<1>3. \A v \in Workers : v # w => run'[v] = run[v]
  BY <1>0, LocalsAre
<1>4. RunsFit(x)'
  BY <1>2, <1>3 DEF RunsFit
<1>5. JobFits(x)'
  BY <1>2, <1>4 DEF JobFits, RowFits, MessagesFit, DispatchersFit, SkipsFit, ZombiesFit
<1>6. \A y \in Executions : y # x => Untouched(y)
  BY <1>0, SetRunTouches
<1> QED
  BY <1>5, <1>6, FitsExcept

LEMMA StartRunFits ==
  ASSUME Inv, JobsFit, NEW w \in Workers, StartRun(w)
  PROVE  JobsFit' /\ LifeStep
<1>0. TypeOK /\ run[w].step = "start" /\ UNCHANGED <<now, queue, tick, request>>
  BY DEF Inv, StartRun
<1>1. CASE Stop(w) /\ UNCHANGED executions
  BY <1>0, <1>1, StopFits
<1>x. PICK x \in Executions : x = run[w].exec
  BY <1>0 DEF Inv, Named, RunsNamed
<1>2. ASSUME Write(x, [executions[x] EXCEPT !.status = "running", !.startedAt = now, !.finished = FALSE]),
             SetRun(w, [run[w] EXCEPT !.step = "work"])
      PROVE  JobsFit' /\ LifeStep
  <2> DEFINE row == [executions[x] EXCEPT !.status = "running", !.startedAt = now, !.finished = FALSE]
             l == [run[w] EXCEPT !.step = "work"]
  <2>1. row.status = "running" /\ row.startedAt = now /\ row.retry = executions[x].retry
    BY <1>0, RowTypes DEF ExecutionRows
  <2>2. l.exec = x /\ l.step = "work" /\ l.retry = run[w].retry
    BY <1>0, <1>x, RunTypes DEF Runs
  <2>3. Write(x, row) /\ SetRun(w, l)
    BY <1>2
  <2> HIDE DEF row, l
  <2>4. executions'[x] = row /\ run'[w] = l /\ \A y \in Executions : y # x => executions'[y] = executions[y]
    BY <1>0, <2>3, LocalsAre
  <2>5. Ready(x, run[w].retry)
    BY <1>0, <1>x DEF JobsFit, JobFits, RunsFit, RunFits
  <2>6. RunFits(w)'
    BY <2>1, <2>2, <2>4, <2>5 DEF RunFits, Ready
  <2>7. RunsInTime(x)'
    <3>1. now \in Nat /\ ZombieAfter \in Nat \ {0}
      BY <1>0, SchedulerConstants DEF TypeOK
    <3> QED
      BY <1>0, <2>1, <2>4, <3>1 DEF RunsInTime
  <2>8. JobsFit'
    BY <1>0, <1>x, <2>1, <2>2, <2>3, <2>4, <2>6, <2>7, GoOnFits
  <2>9. executions[x].status \in {"pending", "running"}
    BY <2>5 DEF Ready
  <2> QED
    BY <2>1, <2>4, <2>8, <2>9, StatusLife
<1> QED
  BY <1>1, <1>2, <1>x DEF StartRun

LEMMA CountRetryFits ==
  ASSUME Inv, JobsFit, NEW w \in Workers, CountRetry(w)
  PROVE  JobsFit' /\ LifeStep
<1>0. TypeOK /\ run[w].step = "work" /\ UNCHANGED <<now, queue, tick, request>>
  BY DEF Inv, CountRetry
<1>1. CASE Stop(w) /\ UNCHANGED executions
  BY <1>0, <1>1, StopFits
<1>x. PICK x \in Executions : x = run[w].exec
  BY <1>0 DEF Inv, Named, RunsNamed
<1>n. PICK n : n = run[w].retry + 1
  OBVIOUS
<1>2. ASSUME Write(x, [executions[x] EXCEPT !.retry = n]), AfterFailure(w, n)
      PROVE  JobsFit' /\ LifeStep
  <2>a. PICK step : step = IF RetriesLeft(n) THEN "requeue" ELSE "give_up"
    OBVIOUS
  <2>1. /\ SetRun(w, [run[w] EXCEPT !.step = step, !.retry = n])
        /\ step \in {"requeue", "give_up"} /\ (step = "requeue" => n < MaxRetries)
    <3>1. SetRun(w, [run[w] EXCEPT !.step = step, !.retry = n])
      BY <1>2, <2>a DEF AfterFailure
    <3>2. step \in {"requeue", "give_up"} /\ (step = "requeue" => n < MaxRetries)
      BY <2>a DEF RetriesLeft
    <3> QED
      BY <3>1, <3>2
  <2> DEFINE row == [executions[x] EXCEPT !.retry = n]
             l == [run[w] EXCEPT !.step = step, !.retry = n]
  <2>2. executions[x].status = "running" /\ (run[w].retry = 0 \/ run[w].retry < MaxRetries)
    BY <1>0, <1>x DEF JobsFit, JobFits, RunsFit, RunFits
  <2>3. executions[x].retry = run[w].retry /\ run[w].retry \in Nat
    BY <1>0, <1>x, RunTypes DEF Inv, HoldersMatchRows
  <2>4. row.status = executions[x].status /\ row.startedAt = executions[x].startedAt /\ row.retry = n
    BY <1>0, RowTypes DEF ExecutionRows
  <2>5. l.exec = x /\ l.step = step /\ l.retry = n
    BY <1>0, <1>x, RunTypes DEF Runs
  <2>6. Write(x, row) /\ SetRun(w, l)
    BY <1>2, <2>1
  <2> HIDE DEF row, l
  <2>7. executions'[x] = row /\ run'[w] = l /\ \A y \in Executions : y # x => executions'[y] = executions[y]
    BY <1>0, <2>6, LocalsAre
  <2>8. RunFits(w)'
    BY <1>n, <2>1, <2>2, <2>3, <2>4, <2>5, <2>7 DEF RunFits
  <2>9. RunsInTime(x)'
    <3>1. now < executions[x].startedAt + ZombieAfter
      BY <1>x, <2>2 DEF JobsFit, JobFits, RunsInTime, Unheld
    <3> QED
      BY <1>0, <2>4, <2>7, <3>1 DEF RunsInTime
  <2>10. JobsFit'
    BY <1>0, <1>x, <2>2, <2>4, <2>5, <2>6, <2>7, <2>8, <2>9, GoOnFits
  <2> QED
    BY <1>n, <2>2, <2>3, <2>4, <2>7, <2>10, RetryLife
<1> QED
  BY <1>1, <1>2, <1>n, <1>x DEF CountRetry

LEMMA RequeueFits ==
  ASSUME Inv, JobsFit, NEW w \in Workers, Requeue(w)
  PROVE  JobsFit' /\ LifeStep
<1>0. /\ TypeOK /\ OneHolder /\ run[w].step = "requeue" /\ UNCHANGED <<now, executions, tick, request>>
      /\ SetRun(w, NoRun)
  BY DEF Inv, Requeue, Stop
<1>x. PICK x \in Executions : x = run[w].exec
  BY <1>0 DEF Inv, Named, RunsNamed
<1>1. Ready(x, run[w].retry) /\ ~Unheld(x)
  BY <1>0, <1>x DEF JobsFit, JobFits, RunsFit, RunFits, Ready, Unheld
<1>2. /\ \A s \in Tickers : tick[s].exec # x /\ x \notin tick[s].zombies
      /\ \A r \in Requests : request[r].exec # x
      /\ \A v \in Workers : run[v].exec = x => v = w
      /\ \A m \in queue : m.exec # x
  BY <1>0, <1>1, <1>x, OnlyHolder, HeldIsNoZombie DEF JobsFit
<1>3. PICK m : m.exec = x /\ m.retry = run[w].retry /\ queue' \subseteq queue \cup {m}
  BY <1>x DEF Requeue, Enqueued, NotEnqueued
<1>4. \A v \in Workers : run'[v].exec # x
  BY <1>0, <1>2, LocalsAre, NothingHolds
<1>5. MessagesFit(x)'
  BY <1>0, <1>1, <1>2, <1>3 DEF MessagesFit, Ready
<1>6. RowFits(x)' /\ RunsInTime(x)'
  BY <1>0, <1>1 DEF JobsFit, JobFits, RowFits, RunsInTime
<1>7. JobFits(x)'
  BY <1>0, <1>2, <1>4, <1>5, <1>6 DEF JobFits, RunsFit, DispatchersFit, SkipsFit, ZombiesFit
<1>8. \A y \in Executions : y # x => Untouched(y)
  BY <1>0, <1>3, SetRunTouches, NothingHolds
<1> QED
  BY <1>0, <1>7, <1>8, FitsExcept, SameLife

LEMMA WorkFits ==
  ASSUME Inv, JobsFit, NEW w \in Workers, Work(w) \/ WorkerDies(w)
  PROVE  JobsFit' /\ LifeStep
<1>1. CASE EndRun(w) \/ GiveUp(w)
  <2>1. /\ run[w].step \in {"work", "give_up"} /\ Stop(w) /\ UNCHANGED <<now, queue, tick, request>>
        /\ \/ UNCHANGED executions
           \/ \E o \in {"success", "failed", "timeout"} : UpdateStatus(run[w].exec, o, TRUE)
    BY <1>1 DEF EndRun, GiveUp, OrFails
  <2>2. executions[run[w].exec].status = "running"
    BY <2>1 DEF Inv, Named, RunsNamed, JobsFit, JobFits, RunsFit, RunFits
  <2> QED
    BY <2>1, <2>2, StopFits
<1>2. CASE WorkerDies(w)
  <2>1. TypeOK /\ UNCHANGED <<now, executions, queue, tick, request>> /\ SetRun(w, NoRun)
    BY <1>2 DEF Inv, WorkerDies, Stop
  <2>2. \A y \in Executions : Untouched(y)
    BY <2>1, SetRunTouches, NothingHolds
  <2> QED
    BY <2>1, <2>2, FitsAll, SameLife
<1> QED
  BY <1>1, <1>2, TakeFits, StartRunFits, CountRetryFits, RequeueFits DEF Work

----------------------------------------------------------------------------
(* The clock, and the theorem *)

LEMMA AdvanceFits ==
  ASSUME Inv, JobsFit, RunsAreQuick, Advance
  PROVE  JobsFit' /\ LifeStep
<1>0. UNCHANGED <<executions, queue, tick, request, run>> /\ now' = now + 1
  BY DEF Advance
<1>1. ASSUME NEW x \in Executions
      PROVE  JobFits(x)'
  <2>1. RunsInTime(x)'
    <3> SUFFICES ASSUME executions[x].status = "running", ~Unheld(x)
                 PROVE  now + 1 < executions[x].startedAt + ZombieAfter
      BY <1>0 DEF RunsInTime, Unheld
    <3>1. Busy(x)
      BY DEF JobsFit, JobFits, DispatchersFit, Unheld, Busy
    <3> QED
      BY <3>1 DEF Advance, RunsAreQuick, Running
  <2> QED
    BY <1>0, <2>1
       DEF JobsFit, JobFits, RowFits, MessagesFit, RunsFit, RunFits, Ready, DispatchersFit, SkipsFit,
           ZombiesFit, Unheld
<1> QED
  BY <1>0, <1>1, SameLife DEF JobsFit

LEMMA AdministerFits ==
  ASSUME Inv, JobsFit, Administer \/ UNCHANGED vars
  PROVE  JobsFit' /\ LifeStep
<1>1. UNCHANGED <<now, executions, queue, tick, request, run>>
  BY DEF Administer, vars, CreateSchedule, ChangeSchedule, EditSchedule, ChangeDefinition, ChangeTenant
<1>2. \A y \in Executions : Untouched(y)
  BY <1>1 DEF Untouched
<1> QED
  BY <1>1, <1>2, FitsAll, SameLife

\* Although every status is written by id and unconditionally, by ticks, requests, workers and
\* the recovery of zombies, each execution goes through JobLifecycle: an outcome is final, and
\* attempts are bounded by max_retries.  A refused message is refused, and a run with its retries
\* ends before find_zombies takes it for dead.
THEOREM ExecutionsFollowLifecycle ==
  ASSUME QueueAnswers, RunsAreQuick
  PROVE  Spec => ImplementsLifecycle
<1>1. Init => JobsFit
  BY NilIsNothing
     DEF Init, JobsFit, JobFits, RowFits, MessagesFit, RunsFit, DispatchersFit, SkipsFit, ZombiesFit,
         RunsInTime, NoExecution, NoTick, NoRequest, NoRun
<1>2. Init => Lifecycle!Init
  BY DEF Init, Lifecycle!Init, NoExecution
<1>3. Inv /\ JobsFit /\ [Next]_vars => JobsFit' /\ LifeStep
  <2> SUFFICES ASSUME Inv, JobsFit, [Next]_vars
               PROVE  JobsFit' /\ LifeStep
    OBVIOUS
  <2>1. ASSUME NEW t \in Tickers, Ticking(t) \/ TickDies(t)
        PROVE  JobsFit' /\ LifeStep
    BY <2>1, TickStartFits, RecoverZombieFits, CreatePendingFits, CalmTickFits, DispatchFits,
       MarkSkippedFits DEF Ticking
  <2>2. ASSUME NEW r \in Requests, Ask(r) \/ Handle(r) \/ RequestFails(r)
        PROVE  JobsFit' /\ LifeStep
    BY <2>2, CalmRequestFits, TriggerCreateFits, TriggerEnqueueFits DEF Handle
  <2> QED
    BY <2>1, <2>2, WorkFits, AdvanceFits, AdministerFits DEF Next
<1>4. LifeStep => [Lifecycle!Next]_(Lifecycle!job)
  BY DEF LifeStep
<1> QED
  BY <1>1, <1>2, <1>3, <1>4, Invariant, PTL DEF Spec, ImplementsLifecycle, Lifecycle!Spec

=============================================================================
