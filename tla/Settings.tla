------------------------------ MODULE Settings ------------------------------
(***************************************************************************)
(* The system configuration (sys_config_service.rs): a key has a global    *)
(* row with a type, a tenant may override its value, and what a scope      *)
(* resolves to is cached, one key at a time and all keys together.  No     *)
(* handler runs in a transaction: each query, each change and each         *)
(* eviction is a step of its own.                                          *)
(***************************************************************************)
EXTENDS Naturals, FiniteSets

CONSTANTS
  Callers,      \* concurrent requests
  Tenants, Global, \* Global is no tenant
  Keys, Types, Values,
  Fits,         \* the pairs of a value and a type that validate_value accepts
  Ids,          \* ids of rows: more than are ever in use
  Nil,          \* no row, nothing cached, no key
  CallBound,    \* how many requests are ever made
  Faults        \* "dropped": a handler is dropped between two steps

VARIABLES
  globals,   \* globals[k]: the global rows of key k; the unique index does not count a null tenant
  overrides, \* overrides[t][k]: the row of tenant t for key k
  cached,    \* cached[v]: what the cache holds of view v
  caller,    \* caller[c]: the local variables of a request
  calls,     \* how many requests were made
  stale      \* history: views the code lets go stale until they expire

tables == <<globals, overrides>>

settingsVars == <<tables, cached, caller, calls, stale>>

----------------------------------------------------------------------------
(* Views *)

Scopes == Tenants \cup {Global}

Row == [id : Ids, type : Types, value : Values]

\* cfg:resolved:<scope>:<key> and cfg:all:<scope>.
Detail(s, k) == [kind |-> "detail", scope |-> s, key |-> k]
Listing(s) == [kind |-> "all", scope |-> s, key |-> Nil]

Views == {Detail(s, k) : s \in Scopes, k \in Keys} \cup {Listing(s) : s \in Scopes}

\* A query for the row of a key answers any of them.
Picks ==
  {pick \in [Keys -> (UNION {globals[k] : k \in Keys}) \cup {Nil}] :
     \A k \in Keys : IF globals[k] = {} THEN pick[k] = Nil ELSE pick[k] \in globals[k]}

OverridesOf(s) == IF s = Global THEN [k \in Keys |-> Nil] ELSE overrides[s]

ResolvedDetail(row, own) ==
  [type |-> row.type, global |-> row.value, own |-> IF own = Nil THEN Nil ELSE own.value]

ResolvedSlim(row, own) ==
  CASE row = Nil -> Nil
    [] row # Nil /\ own = Nil -> [type |-> row.type, value |-> row.value]
    [] OTHER -> [type |-> own.type, value |-> own.value]

Resolved(view, pick, owns) ==
  CASE view.kind = "all" -> [k \in Keys |-> ResolvedSlim(pick[k], owns[k])]
    [] view.kind = "detail" /\ pick[view.key] = Nil -> Nil
    [] OTHER -> [k \in {view.key} |-> ResolvedDetail(pick[k], owns[k])]

----------------------------------------------------------------------------
(* Requests *)

Steps ==
  {"idle", "find_global", "insert_global", "write_global", "drop_overrides", "drop_global",
   "find_override", "insert_override", "write_override", "find_own", "drop_own",
   "evict_detail", "evict_all", "look", "read_global", "read_override", "keep"}

Idle ==
  [step |-> "idle", op |-> Nil, scope |-> Nil, key |-> Nil, type |-> Nil, value |-> Nil,
   row |-> Nil, own |-> Nil, view |-> Nil, picked |-> Nil, content |-> Nil, old |-> FALSE]

Init ==
  /\ \E k \in Keys, fit \in Fits :
       globals = [key \in Keys |->
         IF key = k THEN {[id |-> CHOOSE id \in Ids : TRUE, type |-> fit[2], value |-> fit[1]]}
         ELSE {}]
  /\ overrides = [t \in Tenants |-> [k \in Keys |-> Nil]]
  /\ cached = [v \in Views |-> Nil]
  /\ caller = [c \in Callers |-> Idle]
  /\ calls = 0 /\ stale = {}

At(c, step) == caller[c].step = step

Goes(c, local) == caller' = [caller EXCEPT ![c] = local]

Ends(c) == Goes(c, Idle)

Held == {caller[c].row.id : c \in {d \in Callers : caller[d].row # Nil}}
          \cup {caller[c].own.id : c \in {d \in Callers : caller[d].own # Nil}}

InUse ==
  {row.id : row \in UNION {globals[k] : k \in Keys}}
    \cup UNION {{overrides[t][k].id : k \in {key \in Keys : overrides[t][key] # Nil}} : t \in Tenants}

NewId == CHOOSE id \in Ids : id \notin Held \cup InUse

Begin(c, local) ==
  /\ At(c, "idle") /\ calls < CallBound
  /\ calls' = calls + 1
  /\ Goes(c, local)
  /\ UNCHANGED <<tables, cached, stale>>

Starts(op, step, scope, key) ==
  [Idle EXCEPT !.op = op, !.step = step, !.scope = scope, !.key = key]

BeginCreate(c) ==
  \E k \in Keys, fit \in Fits :
    Begin(c, [Starts("create", "find_global", Global, k) EXCEPT !.value = fit[1], !.type = fit[2]])

BeginUpdate(c) ==
  \E k \in Keys, value \in Values :
    Begin(c, [Starts("update", "find_global", Global, k) EXCEPT !.value = value])

BeginDelete(c) == \E k \in Keys : Begin(c, Starts("delete", "find_global", Global, k))

BeginUpsert(c) ==
  \E t \in Tenants, k \in Keys, value \in Values :
    Begin(c, [Starts("upsert", "find_global", t, k) EXCEPT !.value = value])

BeginRevert(c) ==
  \E t \in Tenants, k \in Keys : Begin(c, Starts("revert", "find_own", t, k))

BeginRead(c) ==
  \E view \in Views :
    Begin(c, [Starts("read", "look", view.scope, view.key) EXCEPT !.view = view])

----------------------------------------------------------------------------
(* Changes of the tables *)

Affected(s, k) == {v \in Views : v.scope \in (IF s = Global THEN Scopes ELSE {s}) /\ v.key \in {k, Nil}}

\* A reader that has read the rows before they change will cache the old view.
ReadBefore(d, s, k) ==
  /\ caller[d].view # Nil /\ caller[d].view \in Affected(s, k)
  /\ \/ At(d, "keep")
     \/ At(d, "read_override") /\ s = Global

\* A change of scope s: its own views are evicted next, those of tenants wait for their TTL.
Changes(c, s, k, next) ==
  /\ caller' = [d \in Callers |->
       IF d = c THEN next
       ELSE IF ReadBefore(d, s, k) THEN [caller[d] EXCEPT !.old = TRUE]
       ELSE caller[d]]
  /\ stale' = stale \cup {v \in Affected(s, k) : v.scope # s}
  /\ UNCHANGED <<cached, calls>>

Local(c, step) == [caller[c] EXCEPT !.step = step]

Unchanged == UNCHANGED <<tables, cached, calls, stale>>

FindGlobal(c) ==
  LET self == caller[c]
      found == globals[self.key]
  IN  /\ At(c, "find_global")
      /\ \/ /\ self.op = "create" /\ found = {}
            /\ Goes(c, Local(c, "insert_global"))
         \/ /\ (self.op = "create") # (found = {})
            /\ Ends(c)
         \/ \E row \in found :
              /\ self.op # "create"
              /\ IF self.op # "delete" /\ <<self.value, row.type>> \notin Fits
                 THEN Ends(c)
                 ELSE Goes(c, [self EXCEPT !.row = row, !.step =
                        CASE self.op = "update" -> "write_global"
                          [] self.op = "delete" -> "drop_overrides"
                          [] self.op = "upsert" -> "find_override"])
      /\ Unchanged

InsertGlobal(c) ==
  LET self == caller[c]
      row == [id |-> NewId, type |-> self.type, value |-> self.value]
  IN  /\ At(c, "insert_global")
      /\ globals' = [globals EXCEPT ![self.key] = @ \cup {row}]
      /\ Changes(c, Global, self.key, Local(c, "evict_detail"))
      /\ UNCHANGED overrides

\* By id: an update of a row that is gone fails.
WriteGlobal(c) ==
  LET self == caller[c]
      row == {r \in globals[self.key] : r.id = self.row.id}
  IN  /\ At(c, "write_global")
      /\ IF row = {}
         THEN Ends(c) /\ UNCHANGED <<globals, cached, calls, stale>>
         ELSE /\ globals' = [globals EXCEPT ![self.key] =
                   (@ \ row) \cup {[r EXCEPT !.value = self.value] : r \in row}]
              /\ Changes(c, Global, self.key, Local(c, "evict_detail"))
      /\ UNCHANGED overrides

DropOverrides(c) ==
  LET k == caller[c].key
  IN  /\ At(c, "drop_overrides")
      /\ overrides' = [t \in Tenants |-> [overrides[t] EXCEPT ![k] = Nil]]
      /\ Changes(c, Global, k, Local(c, "drop_global"))
      /\ UNCHANGED globals

DropGlobal(c) ==
  LET self == caller[c]
  IN  /\ At(c, "drop_global")
      /\ globals' = [globals EXCEPT ![self.key] = {r \in @ : r.id # self.row.id}]
      /\ Changes(c, Global, self.key, Local(c, "evict_detail"))
      /\ UNCHANGED overrides

FindOverride(c) ==
  LET own == overrides[caller[c].scope][caller[c].key]
  IN  /\ At(c, "find_override")
      /\ Goes(c, [caller[c] EXCEPT !.own = own,
                    !.step = IF own = Nil THEN "insert_override" ELSE "write_override"])
      /\ Unchanged

\* The unique index refuses a second row of the tenant.
InsertOverride(c) ==
  LET self == caller[c]
      row == [id |-> NewId, type |-> self.row.type, value |-> self.value]
  IN  /\ At(c, "insert_override")
      /\ IF overrides[self.scope][self.key] # Nil
         THEN Ends(c) /\ UNCHANGED <<overrides, cached, calls, stale>>
         ELSE /\ overrides' = [overrides EXCEPT ![self.scope][self.key] = row]
              /\ Changes(c, self.scope, self.key, Local(c, "evict_detail"))
      /\ UNCHANGED globals

\* The value only: the type column keeps what the insertion copied.
WriteOverride(c) ==
  LET self == caller[c]
      row == overrides[self.scope][self.key]
  IN  /\ At(c, "write_override")
      /\ IF row = Nil \/ row.id # self.own.id
         THEN Ends(c) /\ UNCHANGED <<overrides, cached, calls, stale>>
         ELSE /\ overrides' = [overrides EXCEPT ![self.scope][self.key].value = self.value]
              /\ Changes(c, self.scope, self.key, Local(c, "evict_detail"))
      /\ UNCHANGED globals

FindOwn(c) ==
  LET own == overrides[caller[c].scope][caller[c].key]
  IN  /\ At(c, "find_own")
      /\ IF own = Nil THEN Ends(c) ELSE Goes(c, [caller[c] EXCEPT !.own = own, !.step = "drop_own"])
      /\ Unchanged

DropOwn(c) ==
  LET self == caller[c]
      row == overrides[self.scope][self.key]
  IN  /\ At(c, "drop_own")
      /\ overrides' = IF row # Nil /\ row.id = self.own.id
                      THEN [overrides EXCEPT ![self.scope][self.key] = Nil] ELSE overrides
      /\ Changes(c, self.scope, self.key, Local(c, "evict_detail"))
      /\ UNCHANGED globals

----------------------------------------------------------------------------
(* The cache *)

Evicts(v) == cached' = [cached EXCEPT ![v] = Nil] /\ stale' = stale \ {v}

\* Mutant of EvictDetail: the listing of the scope is forgotten.
EvictDetailOnly(c) ==
  /\ At(c, "evict_detail")
  /\ Evicts(Detail(caller[c].scope, caller[c].key))
  /\ Ends(c)
  /\ UNCHANGED <<tables, calls>>

EvictDetail(c) ==
  /\ At(c, "evict_detail")
  /\ Evicts(Detail(caller[c].scope, caller[c].key))
  /\ Goes(c, Local(c, "evict_all"))
  /\ UNCHANGED <<tables, calls>>

EvictAll(c) ==
  /\ At(c, "evict_all")
  /\ Evicts(Listing(caller[c].scope))
  /\ Ends(c)
  /\ UNCHANGED <<tables, calls>>

Look(c) ==
  /\ At(c, "look")
  /\ IF cached[caller[c].view] # Nil THEN Ends(c) ELSE Goes(c, Local(c, "read_global"))
  /\ Unchanged

\* What is not found is an error, and errors are not cached.
Resolves(c, pick, owns) ==
  LET content == Resolved(caller[c].view, pick, owns)
  IN  IF content = Nil THEN Ends(c)
      ELSE Goes(c, [caller[c] EXCEPT !.step = "keep", !.content = content, !.picked = Nil])

ReadGlobal(c) ==
  /\ At(c, "read_global")
  /\ \E pick \in Picks :
       IF caller[c].scope = Global THEN Resolves(c, pick, OverridesOf(Global))
       ELSE Goes(c, [caller[c] EXCEPT !.step = "read_override", !.picked = pick])
  /\ Unchanged

ReadOverride(c) ==
  /\ At(c, "read_override")
  /\ Resolves(c, caller[c].picked, OverridesOf(caller[c].scope))
  /\ Unchanged

Keep(c) ==
  LET self == caller[c]
  IN  /\ At(c, "keep")
      /\ cached' = [cached EXCEPT ![self.view] = self.content]
      /\ stale' = IF self.old THEN stale \cup {self.view} ELSE stale \ {self.view}
      /\ Ends(c)
      /\ UNCHANGED <<tables, calls>>

Expire(v) ==
  /\ cached[v] # Nil
  /\ Evicts(v)
  /\ UNCHANGED <<tables, caller, calls>>

\* The views a request has still to evict.
Due(c) ==
  LET self == caller[c]
  IN  CASE At(c, "evict_detail") -> {Detail(self.scope, self.key), Listing(self.scope)}
        [] At(c, "evict_all") -> {Listing(self.scope)}
        [] OTHER -> {}

Drop(c) ==
  /\ "dropped" \in Faults /\ ~At(c, "idle")
  /\ stale' = stale \cup Due(c)
  /\ Ends(c)
  /\ UNCHANGED <<tables, cached, calls>>

Begins(c) ==
  \/ BeginCreate(c) \/ BeginUpdate(c) \/ BeginDelete(c)
  \/ BeginUpsert(c) \/ BeginRevert(c) \/ BeginRead(c)

WriteStep(c) ==
  \/ FindGlobal(c) \/ InsertGlobal(c) \/ WriteGlobal(c) \/ DropOverrides(c) \/ DropGlobal(c)
  \/ FindOverride(c) \/ InsertOverride(c) \/ WriteOverride(c) \/ FindOwn(c) \/ DropOwn(c)
  \/ EvictDetail(c) \/ EvictAll(c)

Reads(c) == Look(c) \/ ReadGlobal(c) \/ ReadOverride(c) \/ Keep(c)

Next ==
  \/ \E c \in Callers : Begins(c) \/ WriteStep(c) \/ Reads(c) \/ Drop(c)
  \/ \E v \in Views : Expire(v)

Spec == Init /\ [][Next]_settingsVars

----------------------------------------------------------------------------

TypeOK ==
  /\ globals \in [Keys -> SUBSET Row]
  /\ overrides \in [Tenants -> [Keys -> Row \cup {Nil}]]
  /\ DOMAIN cached = Views /\ DOMAIN caller = Callers
  /\ \A c \in Callers : caller[c].step \in Steps
  /\ calls \in 0..CallBound /\ stale \subseteq Views

Answers(v) == {Resolved(v, pick, OverridesOf(v.scope)) : pick \in Picks}

\* A cached view is what the rows resolve to, once the requests that changed them have evicted
\* it: the ways to an old one are a change of a global row, which leaves the tenants' views to their
\* TTL, a reader that a change overtook, and a handler dropped before its eviction.
SettledViewsAgree ==
  \A v \in Views \ (stale \cup UNION {Due(c) : c \in Callers}) :
    cached[v] # Nil => cached[v] \in Answers(v)
=============================================================================
