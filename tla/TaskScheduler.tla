----------------------------- MODULE TaskScheduler -----------------------------
(***************************************************************************)
(* Scheduled jobs: the definitions of workers, the grants that let a       *)
(* tenant use them, a tenant's schedules, and their executions; the tick   *)
(* that recovers zombies and dispatches what is due, the manual trigger,   *)
(* the background queue and the worker that tracks the status of a run.    *)
(* Rows are written by id, after a read of their own and outside any       *)
(* transaction: a step is one statement and what leads up to it.           *)
(*                                                                         *)
(* The queue hands a message to one worker, once, and forgets it: a job    *)
(* that dies in a worker is not delivered again.                           *)
(***************************************************************************)
EXTENDS Naturals, FiniteSets

CONSTANTS
  Tickers,        \* overlapping runs of the scheduler_dispatch task
  Workers,        \* workers of the background queue
  Requests,       \* concurrent HTTP requests
  Defs,           \* worker definitions, by code
  Implemented,    \* the codes the server has a worker for
  Tenants,
  Schedules,      \* schedule ids
  DefOf,          \* DefOf[s]: the definition of schedule s
  TenantOf,       \* TenantOf[s]: its tenant
  Executions,     \* execution ids generate_id() hands out, each once
  Nil,            \* no schedule, no execution, no definition
  MaxRetries,     \* max_retries of every definition
  MaxConcurrent,  \* max_concurrent_per_tenant
  Period,         \* every cron expression fires when the clock is a multiple of it
  ZombieAfter,    \* the two hours of recover_zombies
  MaxTime,        \* bound on the clock
  Faults,         \* which of AllFaults may happen
  Changes,        \* which of AllChanges an administrator makes
  SlowRuns        \* may a run, with its retries, take longer than ZombieAfter?

\* "queue": the queue refuses a message; "queue_lost": it takes it and reports an error;
\* "crash": a request or a worker dies; "killed": a tick does.
AllFaults == {"db", "queue", "queue_lost", "crash", "killed"}

AllChanges == {"definition", "tenant", "grants", "schedule"}

ASSUME SchedulerConstants ==
  /\ DefOf \in [Schedules -> Defs] /\ TenantOf \in [Schedules -> Tenants]
  /\ Implemented \subseteq Defs
  /\ MaxRetries \in Nat /\ MaxConcurrent \in Nat \ {0} /\ MaxTime \in Nat
  /\ Period \in Nat \ {0} /\ ZombieAfter \in Nat \ {0}
  /\ Faults \subseteq AllFaults /\ Changes \subseteq AllChanges
  /\ SlowRuns \in BOOLEAN
  /\ Nil \notin Schedules \cup Executions \cup Defs

VARIABLES
  now,         \* the wall clock
  defs,        \* defs[d]: the columns of a definition that change
  open,        \* the tenants that are active
  grants,      \* the <<definition, tenant>> pairs that are granted
  schedules,   \* schedules[s]: its row, NoSchedule when there is none
  executions,  \* executions[x]: its row, NoExecution when there is none
  queue,       \* the messages waiting for a worker
  tick,        \* tick[t]: the local variables of a tick
  request,     \* request[r]: the local variables of a request
  run          \* run[w]: the local variables of a worker

vars == <<now, defs, open, grants, schedules, executions, queue, tick, request, run>>

config == <<defs, open, grants>>

----------------------------------------------------------------------------
(* Rows, locals and types *)

DefRows == [active : BOOLEAN, concurrent : BOOLEAN]

NoSchedule == [exists |-> FALSE, enabled |-> FALSE, next |-> 0]

ScheduleRows == [exists : BOOLEAN, enabled : BOOLEAN, next : Nat]

NoExecution ==
  [status |-> "none", schedule |-> Nil, retry |-> 0, startedAt |-> 0, finished |-> FALSE]

Outcomes == {"success", "failed", "timeout", "skipped"}

\* startedAt is read for a running execution only, which has one; finished says that
\* finished_at is not NULL.
ExecutionRows ==
  [status : {"none", "pending", "running"} \cup Outcomes, schedule : Schedules \cup {Nil},
   retry : Nat, startedAt : Nat, finished : BOOLEAN]

Messages == [exec : Executions, retry : Nat]

NoTick == [step |-> "idle", at |-> 0, zombies |-> {}, due |-> {}, schedule |-> Nil, exec |-> Nil]

DueRows == [schedule : Schedules, next : Nat]

Ticks ==
  [step : {"idle", "recover", "due", "create", "advance", "dispatch", "skip"}, at : Nat,
   zombies : SUBSET Executions, due : SUBSET DueRows,
   schedule : Schedules \cup {Nil}, exec : Executions \cup {Nil}]

NoRequest ==
  [step |-> "idle", schedule |-> Nil, exec |-> Nil, def |-> Nil, old |-> {}, new |-> {}, todo |-> {}]

RequestLocals ==
  [step : {"idle", "create", "enqueue", "disable", "delete", "insert"},
   schedule : Schedules \cup {Nil}, exec : Executions \cup {Nil}, def : Defs \cup {Nil},
   old : SUBSET Tenants, new : SUBSET Tenants, todo : SUBSET Tenants]

NoRun == [step |-> "idle", exec |-> Nil, retry |-> 0]

Runs ==
  [step : {"idle", "start", "work", "requeue", "give_up"}, exec : Executions \cup {Nil},
   retry : Nat]

Init ==
  /\ now = 0
  /\ defs \in [Defs -> {[active |-> TRUE, concurrent |-> b] : b \in BOOLEAN}]
  /\ open = Tenants
  /\ grants = Defs \X Tenants
  /\ schedules = [s \in Schedules |-> NoSchedule]
  /\ executions = [x \in Executions |-> NoExecution]
  /\ queue = {}
  /\ tick = [t \in Tickers |-> NoTick]
  /\ request = [r \in Requests |-> NoRequest]
  /\ run = [w \in Workers |-> NoRun]

----------------------------------------------------------------------------
(* Reads and writes the handlers share *)

\* compute_next_run: the first time the expression fires after now.
NextRun == (now \div Period + 1) * Period

Running == {x \in Executions : executions[x].status = "running"}

\* The definition is active, it is granted to the tenant, and the tenant is active.
Authorised(s) ==
  /\ defs[DefOf[s]].active
  /\ <<DefOf[s], TenantOf[s]>> \in grants
  /\ TenantOf[s] \in open

\* find_running_for_schedule, unless the definition allows concurrent executions.
Overlaps(s) ==
  ~defs[DefOf[s]].concurrent /\ \E x \in Running : executions[x].schedule = s

\* count_running_for_tenant; an execution keeps the tenant of its schedule.
TenantIsFull(s) ==
  Cardinality({x \in Running : TenantOf[executions[x].schedule] = TenantOf[s]}) >= MaxConcurrent

Write(x, row) == executions' = [executions EXCEPT ![x] = row]

\* update_status, by id: whatever the status was.  finished_at is overwritten too.
UpdateStatus(x, status, finished) ==
  Write(x, [executions[x] EXCEPT !.status = status, !.finished = finished])

\* create_pending
InsertPending(x, s) ==
  /\ executions[x].status = "none"
  /\ Write(x, [NoExecution EXCEPT !.status = "pending", !.schedule = s])

\* The bound on executions: once it is reached an insert fails.
IdsLeft == \E x \in Executions : executions[x].status = "none"

\* A statement that fails changes nothing.
OrFails(statement) == statement \/ ("db" \in Faults /\ UNCHANGED executions)

\* perform_later succeeds, or reports an error and has or has not queued the message.
Enqueued(m) == queue' = queue \cup {m}

NotEnqueued(m) ==
  \/ "queue" \in Faults /\ UNCHANGED queue
  \/ "queue_lost" \in Faults /\ Enqueued(m)

FirstAttempt(x) == [exec |-> x, retry |-> 0]

SetTick(t, locals) == tick' = [tick EXCEPT ![t] = locals]

SetRequest(r, locals) == request' = [request EXCEPT ![r] = locals]

Return(r) == SetRequest(r, NoRequest)

SetRun(w, locals) == run' = [run EXCEPT ![w] = locals]

Stop(w) == SetRun(w, NoRun)

----------------------------------------------------------------------------
(* tick *)

\* find_zombies
IsZombie(x) ==
  x \in Running /\ ~executions[x].finished /\ executions[x].startedAt + ZombieAfter <= now

\* Mutant of Zombies: an execution that was queued again is not looked at.
ZombiesNeverRetried == {x \in Executions : IsZombie(x) /\ executions[x].retry = 0}

Zombies == {x \in Executions : IsZombie(x)}

\* find_due
DueAt(time) ==
  {[schedule |-> s, next |-> schedules[s].next] :
     s \in {s \in Schedules : /\ schedules[s].exists /\ schedules[s].enabled
                              /\ schedules[s].next <= time}}

\* A tick reads the clock, then the zombies (one with nothing to do is left out).
TickStart(t) ==
  /\ tick[t] = NoTick
  /\ Zombies # {} \/ DueAt(now) # {}
  /\ SetTick(t, [NoTick EXCEPT !.step = "recover", !.at = now, !.zombies = Zombies])
  /\ UNCHANGED <<now, config, schedules, executions, queue, request, run>>

\* recover_zombies: each is failed by id, whatever has become of it; an error ends the
\* tick.
RecoverZombie(t) ==
  /\ tick[t].step = "recover"
  /\ \E x \in tick[t].zombies :
       \/ /\ UpdateStatus(x, "failed", TRUE)
          /\ SetTick(t, [tick[t] EXCEPT !.zombies = @ \ {x}])
       \/ /\ "db" \in Faults /\ UNCHANGED executions
          /\ SetTick(t, NoTick)
  /\ UNCHANGED <<now, config, schedules, queue, request, run>>

\* What is left of a tick once it is done with a schedule.
Remaining(t, due) ==
  IF due = {} THEN NoTick ELSE [NoTick EXCEPT !.step = "due", !.at = tick[t].at, !.due = due]

NextSchedule(t, due) == SetTick(t, Remaining(t, due))

FindDue(t) ==
  /\ tick[t].step = "recover" /\ tick[t].zombies = {}
  /\ NextSchedule(t, DueAt(tick[t].at))
  /\ UNCHANGED <<now, config, schedules, executions, queue, request, run>>

\* process_schedule, the checks: in the order of next_run_at, from the rows that
\* find_due returned.
CheckSchedule(t) ==
  /\ tick[t].step = "due"
  /\ \E d \in tick[t].due :
       /\ \A e \in tick[t].due : d.next <= e.next
       /\ \/ /\ Authorised(d.schedule) /\ ~Overlaps(d.schedule) /\ ~TenantIsFull(d.schedule)
             /\ SetTick(t, [tick[t] EXCEPT !.step = "create", !.schedule = d.schedule,
                                            !.due = @ \ {d}])
          \/ /\ ~Authorised(d.schedule) \/ Overlaps(d.schedule) \/ TenantIsFull(d.schedule)
                  \/ "db" \in Faults
             /\ NextSchedule(t, tick[t].due \ {d})
  /\ UNCHANGED <<now, config, schedules, executions, queue, request, run>>

CreatePending(t) ==
  /\ tick[t].step = "create"
  /\ \/ \E x \in Executions :
          /\ InsertPending(x, tick[t].schedule)
          /\ SetTick(t, [tick[t] EXCEPT !.step = "advance", !.exec = x])
     \/ ("db" \in Faults \/ ~IdsLeft) /\ NextSchedule(t, tick[t].due) /\ UNCHANGED executions
  /\ UNCHANGED <<now, config, schedules, queue, request, run>>

\* advance_next_run; when it fails the execution is left pending and is not queued.
AdvanceNextRun(t) ==
  LET s == tick[t].schedule IN
  /\ tick[t].step = "advance"
  /\ \/ /\ schedules' = IF schedules[s].exists THEN [schedules EXCEPT ![s].next = NextRun]
                        ELSE schedules
        /\ SetTick(t, [tick[t] EXCEPT !.step = "dispatch"])
     \/ "db" \in Faults /\ NextSchedule(t, tick[t].due) /\ UNCHANGED schedules
  /\ UNCHANGED <<now, config, executions, queue, request, run>>

\* dispatch_or_skip
Dispatch(t) ==
  LET m == FirstAttempt(tick[t].exec)
      known == DefOf[tick[t].schedule] \in Implemented IN
  /\ tick[t].step = "dispatch"
  /\ \/ known /\ Enqueued(m) /\ NextSchedule(t, tick[t].due)
     \/ known /\ NotEnqueued(m) /\ SetTick(t, [tick[t] EXCEPT !.step = "skip"])
     \/ ~known /\ SetTick(t, [tick[t] EXCEPT !.step = "skip"]) /\ UNCHANGED queue
  /\ UNCHANGED <<now, config, schedules, executions, request, run>>

MarkSkipped(t) ==
  /\ tick[t].step = "skip"
  /\ OrFails(UpdateStatus(tick[t].exec, "skipped", FALSE))
  /\ NextSchedule(t, tick[t].due)
  /\ UNCHANGED <<now, config, schedules, queue, request, run>>

TickDies(t) ==
  /\ "killed" \in Faults /\ tick[t] # NoTick
  /\ SetTick(t, NoTick)
  /\ UNCHANGED <<now, config, schedules, executions, queue, request, run>>

----------------------------------------------------------------------------
(* trigger *)

\* A manual run asks for no more than the schedule and the authorisation: it may be
\* disabled, and the tenant's limit is not looked at.
TriggerCheck(r, s) ==
  /\ request[r] = NoRequest
  /\ schedules[s].exists /\ Authorised(s) /\ ~Overlaps(s)
  /\ SetRequest(r, [NoRequest EXCEPT !.step = "create", !.schedule = s])
  /\ UNCHANGED <<now, config, schedules, executions, queue, tick, run>>

TriggerCreate(r) ==
  /\ request[r].step = "create"
  /\ \/ \E x \in Executions :
          /\ InsertPending(x, request[r].schedule)
          /\ SetRequest(r, [request[r] EXCEPT !.step = "enqueue", !.exec = x])
     \/ ("db" \in Faults \/ ~IdsLeft) /\ Return(r) /\ UNCHANGED executions
  /\ UNCHANGED <<now, config, schedules, queue, tick, run>>

\* When the queue refuses the message the caller is told and the row stays pending.
TriggerEnqueue(r) ==
  LET m == FirstAttempt(request[r].exec)
      known == DefOf[request[r].schedule] \in Implemented IN
  /\ request[r].step = "enqueue"
  /\ \/ known /\ (Enqueued(m) \/ NotEnqueued(m)) /\ UNCHANGED executions
     \/ ~known /\ OrFails(UpdateStatus(request[r].exec, "skipped", FALSE)) /\ UNCHANGED queue
  /\ Return(r)
  /\ UNCHANGED <<now, config, schedules, tick, run>>

----------------------------------------------------------------------------
(* batch_set_grants: the transaction it opens is used for none of its statements *)

SetGrants(r, d, new) ==
  /\ "grants" \in Changes /\ request[r] = NoRequest
  /\ SetRequest(r, [NoRequest EXCEPT !.step = "disable", !.def = d, !.new = new,
                                     !.old = {u \in Tenants : <<d, u>> \in grants}])
  /\ UNCHANGED <<now, config, schedules, executions, queue, tick, run>>

\* disable_for_worker_and_tenant, for each tenant that loses the grant
DisableRevoked(r) ==
  LET revoked == request[r].old \ request[r].new IN
  /\ request[r].step = "disable"
  /\ schedules' = [s \in Schedules |->
       IF schedules[s].exists /\ DefOf[s] = request[r].def /\ TenantOf[s] \in revoked
       THEN [schedules[s] EXCEPT !.enabled = FALSE] ELSE schedules[s]]
  /\ SetRequest(r, [request[r] EXCEPT !.step = "delete"])
  /\ UNCHANGED <<now, config, executions, queue, tick, run>>

\* delete_for_worker
DeleteGrants(r) ==
  /\ request[r].step = "delete"
  /\ grants' = grants \ ({request[r].def} \X Tenants)
  /\ IF request[r].new = {} THEN Return(r)
     ELSE SetRequest(r, [request[r] EXCEPT !.step = "insert", !.todo = request[r].new])
  /\ UNCHANGED <<now, defs, open, schedules, executions, queue, tick, run>>

\* The unique index refuses a grant that is there already.
Refused(r) ==
  request[r].step = "insert" /\ \E u \in request[r].todo : <<request[r].def, u>> \in grants

InsertGrant(r) ==
  /\ request[r].step = "insert"
  /\ \E u \in request[r].todo :
       LET g == <<request[r].def, u>>
           todo == request[r].todo \ {u} IN
       /\ g \notin grants
       /\ grants' = grants \cup {g}
       /\ IF todo = {} THEN Return(r) ELSE SetRequest(r, [request[r] EXCEPT !.todo = todo])
  /\ UNCHANGED <<now, defs, open, schedules, executions, queue, tick, run>>

\* A statement of a request fails, or its future is dropped.
RequestFails(r) ==
  /\ request[r] # NoRequest
  /\ {"crash", "db"} \cap Faults # {} \/ Refused(r)
  /\ Return(r)
  /\ UNCHANGED <<now, config, schedules, executions, queue, tick, run>>

----------------------------------------------------------------------------
(* Schedules, definitions and tenants: one statement each *)

EditSchedule(s, row) ==
  /\ "schedule" \in Changes
  /\ schedules' = [schedules EXCEPT ![s] = row]
  /\ UNCHANGED <<now, config, executions, queue, tick, request, run>>

\* create; the grant read before the insert is read again by every tick.
CreateSchedule(s) ==
  /\ ~schedules[s].exists
  /\ <<DefOf[s], TenantOf[s]>> \in grants /\ defs[DefOf[s]].active
  /\ schedules' = [schedules EXCEPT ![s] = [exists |-> TRUE, enabled |-> TRUE, next |-> NextRun]]
  /\ UNCHANGED <<now, config, executions, queue, tick, request, run>>

\* update with a new cron expression, patch_status, delete_schedule
ChangeSchedule(s) ==
  /\ schedules[s].exists
  /\ \/ EditSchedule(s, [schedules[s] EXCEPT !.next = NextRun])
     \/ EditSchedule(s, [schedules[s] EXCEPT !.enabled = TRUE, !.next = NextRun])
     \/ EditSchedule(s, [schedules[s] EXCEPT !.enabled = FALSE])
     \/ EditSchedule(s, NoSchedule)

\* patch_status and update of a definition
ChangeDefinition(d) ==
  /\ "definition" \in Changes
  /\ \E row \in DefRows : defs' = [defs EXCEPT ![d] = row]
  /\ UNCHANGED <<now, open, grants, schedules, executions, queue, tick, request, run>>

\* Tenants are enabled and disabled elsewhere.
ChangeTenant(u) ==
  /\ "tenant" \in Changes
  /\ open' \in {open \cup {u}, open \ {u}}
  /\ UNCHANGED <<now, defs, grants, schedules, executions, queue, tick, request, run>>

----------------------------------------------------------------------------
(* run_with_status_tracking *)

\* The queue hands a message over; validate_and_load_config refuses it when the row has
\* another retry_count.
Take(w) ==
  /\ run[w] = NoRun
  /\ \E m \in queue :
       /\ queue' = queue \ {m}
       /\ \/ /\ executions[m.exec].status # "none" /\ executions[m.exec].retry = m.retry
             /\ SetRun(w, [step |-> "start", exec |-> m.exec, retry |-> m.retry])
          \/ /\ executions[m.exec].status = "none" \/ executions[m.exec].retry # m.retry
                  \/ "db" \in Faults
             /\ UNCHANGED run
  /\ UNCHANGED <<now, config, schedules, executions, tick, request>>

StartRun(w) ==
  LET x == run[w].exec IN
  /\ run[w].step = "start"
  /\ \/ /\ Write(x, [executions[x] EXCEPT !.status = "running", !.startedAt = now,
                                          !.finished = FALSE])
        /\ SetRun(w, [run[w] EXCEPT !.step = "work"])
     \/ "db" \in Faults /\ Stop(w) /\ UNCHANGED executions
  /\ UNCHANGED <<now, config, schedules, queue, tick, request>>

\* The work succeeds, or tokio::select! gives up on it.
EndRun(w) ==
  /\ run[w].step = "work"
  /\ \E outcome \in {"success", "timeout"} : OrFails(UpdateStatus(run[w].exec, outcome, TRUE))
  /\ Stop(w)
  /\ UNCHANGED <<now, config, schedules, queue, tick, request>>

\* Mutant of RetriesLeft: the last retry is counted as one to come.
RetriesLeftInclusive(retry) == retry <= MaxRetries

RetriesLeft(retry) == retry < MaxRetries

AfterFailure(w, retry) ==
  SetRun(w, [run[w] EXCEPT !.step = IF RetriesLeft(retry) THEN "requeue" ELSE "give_up",
                           !.retry = retry])

\* Mutant of CountRetry: the row keeps its retry_count.
CountRetryForgotten(w) ==
  /\ run[w].step = "work"
  /\ AfterFailure(w, run[w].retry + 1)
  /\ UNCHANGED <<now, config, schedules, executions, queue, tick, request>>

\* handle_failure: the work returns an error, and set_retry_count.
CountRetry(w) ==
  LET x == run[w].exec
      retry == run[w].retry + 1 IN
  /\ run[w].step = "work"
  /\ \/ Write(x, [executions[x] EXCEPT !.retry = retry]) /\ AfterFailure(w, retry)
     \/ "db" \in Faults /\ Stop(w) /\ UNCHANGED executions
  /\ UNCHANGED <<now, config, schedules, queue, tick, request>>

\* Mutant of Requeue: the branch that gives up is taken as well.
RequeueAndGiveUp(w) ==
  /\ run[w].step = "requeue"
  /\ Enqueued([exec |-> run[w].exec, retry |-> run[w].retry])
  /\ SetRun(w, [run[w] EXCEPT !.step = "give_up"])
  /\ UNCHANGED <<now, config, schedules, executions, tick, request>>

\* The execution stays running, with the start time of the attempt that failed.
Requeue(w) ==
  LET m == [exec |-> run[w].exec, retry |-> run[w].retry] IN
  /\ run[w].step = "requeue"
  /\ Enqueued(m) \/ NotEnqueued(m)
  /\ Stop(w)
  /\ UNCHANGED <<now, config, schedules, executions, tick, request>>

GiveUp(w) ==
  /\ run[w].step = "give_up"
  /\ OrFails(UpdateStatus(run[w].exec, "failed", TRUE))
  /\ Stop(w)
  /\ UNCHANGED <<now, config, schedules, queue, tick, request>>

WorkerDies(w) ==
  /\ "crash" \in Faults /\ run[w] # NoRun
  /\ Stop(w)
  /\ UNCHANGED <<now, config, schedules, executions, queue, tick, request>>

----------------------------------------------------------------------------
(* The clock, and the system *)

\* Somebody has the execution: a worker, or the queue.
Busy(x) == (\E w \in Workers : run[w].exec = x) \/ (\E m \in queue : m.exec = x)

\* Unless SlowRuns, a run and its retries end before the sweep would take them for dead.
Advance ==
  /\ now < MaxTime
  /\ SlowRuns \/ \A x \in Running : Busy(x) => now + 1 < executions[x].startedAt + ZombieAfter
  /\ now' = now + 1
  /\ UNCHANGED <<config, schedules, executions, queue, tick, request, run>>

Ticking(t) ==
  \/ TickStart(t) \/ RecoverZombie(t) \/ FindDue(t) \/ CheckSchedule(t) \/ CreatePending(t)
  \/ AdvanceNextRun(t) \/ Dispatch(t) \/ MarkSkipped(t)

Handle(r) ==
  \/ TriggerCreate(r) \/ TriggerEnqueue(r)
  \/ DisableRevoked(r) \/ DeleteGrants(r) \/ InsertGrant(r)

Ask(r) ==
  \/ \E s \in Schedules : TriggerCheck(r, s)
  \/ \E d \in Defs, new \in SUBSET Tenants : SetGrants(r, d, new)

Administer ==
  \/ \E s \in Schedules : CreateSchedule(s) \/ ChangeSchedule(s)
  \/ \E d \in Defs : ChangeDefinition(d)
  \/ \E u \in Tenants : ChangeTenant(u)

Work(w) == Take(w) \/ StartRun(w) \/ EndRun(w) \/ CountRetry(w) \/ Requeue(w) \/ GiveUp(w)

Next ==
  \/ Advance
  \/ Administer
  \/ \E t \in Tickers : Ticking(t) \/ TickDies(t)
  \/ \E r \in Requests : Ask(r) \/ Handle(r) \/ RequestFails(r)
  \/ \E w \in Workers : Work(w) \/ WorkerDies(w)

Spec == Init /\ [][Next]_vars

\* The scheduler runs scheduler_dispatch every minute, to its end; a worker polls the
\* queue, and its work is bounded by tokio::select!.
FairSpec ==
  /\ Spec
  /\ \A t \in Tickers : WF_vars(Ticking(t))
  /\ \A w \in Workers : WF_vars(Work(w))

----------------------------------------------------------------------------
(* Properties *)

TypeOK ==
  /\ now \in Nat
  /\ defs \in [Defs -> DefRows]
  /\ open \subseteq Tenants
  /\ grants \subseteq Defs \X Tenants
  /\ schedules \in [Schedules -> ScheduleRows]
  /\ executions \in [Executions -> ExecutionRows]
  /\ queue \subseteq Messages
  /\ tick \in [Tickers -> Ticks]
  /\ request \in [Requests -> RequestLocals]
  /\ run \in [Workers -> Runs]

\* The retry_count of a message is that of its row, so no attempt is lost to the check
\* of validate_and_load_config: the count is written before the message is queued, and
\* by nobody but the worker that holds the execution.
MessagesMatchRows == \A m \in queue : executions[m.exec].retry = m.retry

\* Who has execution x.  A tick that only marks it skipped has let go of it.
Holders(x) ==
  ({"tick"} \X {t \in Tickers : tick[t].exec = x /\ tick[t].step # "skip"})
    \cup ({"request"} \X {r \in Requests : request[r].exec = x})
    \cup ({"worker"} \X {w \in Workers : run[w].exec = x})
    \cup ({"queue"} \X {m \in queue : m.exec = x})

\* An execution is in the hands of one dispatcher, one message or one worker, whatever
\* ticks overlap, retries are queued and zombies are recovered: its work never runs
\* twice at a time.
OneHolder == \A x \in Executions : \A h, k \in Holders(x) : h = k

Lifecycle ==
  INSTANCE JobLifecycle WITH
    Jobs <- Executions,
    outcome <- [x \in Executions |-> executions[x].status],
    attempts <- [x \in Executions |-> executions[x].retry]

\* Each execution goes through JobLifecycle: an outcome is final although every status
\* is written by id and unconditionally, and attempts are bounded by max_retries.
ImplementsLifecycle == Lifecycle!Spec

\* A running execution that nobody has any more is brought to an end by the ticks.
ZombiesRecovered ==
  \A x \in Executions : IsZombie(x) /\ ~Busy(x) ~> executions[x].status # "running"

================================================================================
