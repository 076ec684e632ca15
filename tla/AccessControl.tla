----------------------------- MODULE AccessControl -----------------------------
(***************************************************************************)
(* Who may call which route: the tables of roles, permissions, users and   *)
(* API keys of one tenant, and the Casbin enforcer that answers every      *)
(* request.  The enforcer holds a second copy of what the tables say,      *)
(* keyed by the codes of roles and by routes instead of ids.  Each request *)
(* that changes the tables also changes the enforcer, in statements of     *)
(* their own: only the enforcer's lock is held, around its own part.       *)
(***************************************************************************)
EXTENDS Naturals, FiniteSets

CONSTANTS
  Requests,     \* concurrent HTTP requests
  Users, Roles, Codes, Permissions, Routes, Keys, Tokens,
  Nil,          \* no subject, no code
  TokenRole,    \* TokenRole[t]: the role of the keys a token is exchanged for
  MaxUsage,     \* how many keys a token may be exchanged for
  MaxKeys,      \* how many valid keys the tenant may have
  RequestBound, \* how many requests are ever made
  Faults        \* "stops": a request fails or is dropped between two steps; "partial": the
                \* enforcer fails in the middle of a change

ASSUME AccessControlConstants ==
  /\ MaxUsage \in Nat /\ MaxKeys \in Nat /\ RequestBound \in Nat /\ IsFiniteSet(Keys)
  /\ Cardinality(Roles) <= Cardinality(Codes)
  /\ Cardinality(Permissions) <= Cardinality(Routes)
  /\ TokenRole \in [Tokens -> Roles]
  /\ Faults \subseteq {"stops", "partial"}
  /\ Nil \notin Users \cup Roles \cup Codes \cup Permissions \cup Keys \cup Tokens
  /\ Users \cap (Roles \cup Permissions \cup Keys) = {}
  /\ Roles \cap (Permissions \cup Keys) = {} /\ Permissions \cap Keys = {}

VARIABLES
  users,    \* the users that exist
  roles,    \* roles[r]: the row of role r
  perms,    \* perms[p]: the row of permission p
  holds,    \* holds[u]: the roles of user u, in user_roles
  grants,   \* grants[r]: the permissions of role r, in role_permissions
  keys,     \* keys[k]: the row of API key k
  used,     \* used[t]: the used_count of exchange token t
  rules,    \* the enforcer: the pairs of a code and a route it allows
  groups,   \* the enforcer: the pairs of a user or a key and a code
  request,  \* request[q]: the local variables of a request
  made,     \* how many requests were made
  unsettled \* users, roles and keys whose part of the enforcer nothing has set since they changed

tables == <<users, roles, perms, holds, grants, keys, used>>

enforcer == <<rules, groups>>

vars == <<tables, enforcer, request, made, unsettled>>

----------------------------------------------------------------------------
(* Rows, locals and types *)

NoKey == [role |-> Nil, token |-> Nil, revoked |-> FALSE]

Steps ==
  {"idle", "clear_roles", "insert_role", "apply_user",
   "clear_permissions", "insert_permission", "apply_role",
   "drop_role", "read_role", "apply_enabled", "find_holders", "read_holder", "apply_holder",
   "drop_route", "insert_key", "read_usage", "write_usage", "write_key", "apply_key", "drop_key"}

Idle ==
  [step |-> "idle", on |-> Nil, code |-> Nil, role |-> Nil, token |-> Nil, want |-> {},
   got |-> {}, holder |-> Nil, count |-> 0, alone |-> FALSE]

Locals ==
  [step : Steps, on : Users \cup Roles \cup Keys \cup Permissions \cup {Nil},
   code : Codes \cup {Nil}, role : Roles \cup {Nil}, token : Tokens \cup {Nil},
   want : SUBSET (Roles \cup Permissions \cup Users), got : SUBSET (Codes \cup Routes),
   holder : Users \cup {Nil}, count : Nat, alone : BOOLEAN]

\* What the tables say: find_user_role_codes and find_role_permission_obj_acts.
UserCodes(u) == {roles[r].code : r \in {x \in holds[u] : roles[x].active}}

RoleRoutes(r) == {perms[p].route : p \in {x \in grants[r] : ~perms[x].deleted}}

\* A tenant whose enforcer has loaded what its tables say.
Init ==
  /\ users \in SUBSET Users
  /\ \E code \in [Roles -> Codes], route \in [Permissions -> Routes] :
       /\ \A r, s \in Roles : code[r] = code[s] => r = s
       /\ \A p, s \in Permissions : route[p] = route[s] => p = s
       /\ roles = [r \in Roles |-> [code |-> code[r], active |-> TRUE]]
       /\ perms = [p \in Permissions |-> [route |-> route[p], deleted |-> FALSE]]
  /\ holds \in [Users -> SUBSET Roles]
  /\ \A u \in Users \ users : holds[u] = {}
  /\ grants \in [Roles -> SUBSET Permissions]
  /\ keys = [k \in Keys |-> NoKey]
  /\ used = [t \in Tokens |-> 0]
  /\ rules = UNION {{<<roles[r].code, route>> : route \in RoleRoutes(r)} : r \in Roles}
  /\ groups = UNION {{<<u, code>> : code \in UserCodes(u)} : u \in Users}
  /\ request = [q \in Requests |-> Idle]
  /\ made = 0
  /\ unsettled = {}

----------------------------------------------------------------------------
(* Requests in flight *)

At(q, step) == request[q].step = step

InFlight == {q \in Requests : ~At(q, "idle")}

Holders(r) == {u \in users : r \in holds[u]}

KeysOf(r) == {k \in Keys : keys[k].role = r}

\* The users, roles and keys whose part of the enforcer a request may change.
Touched(on) ==
  CASE on \in Roles -> {on} \cup Holders(on) \cup KeysOf(on)
    [] on \in Permissions -> {r \in Roles : on \in grants[r]}
    [] OTHER -> {on}

\* Requests that overlap settle nothing, whatever order their steps come in.
Disturb(local, others, changes) ==
  /\ made < RequestBound
  /\ made' = made + 1
  /\ request' = [q \in Requests |->
       IF q \in DOMAIN local THEN local[q] ELSE [request[q] EXCEPT !.alone = FALSE]]
  /\ unsettled' = unsettled \cup changes \cup UNION {Touched(request[q].on) : q \in others}

Begin(q, local) ==
  LET others == InFlight
      alone == others = {}
  IN /\ At(q, "idle")
     /\ Disturb([x \in {q} |-> [local EXCEPT !.alone = alone]], others,
                IF alone THEN {} ELSE Touched(local.on))

\* A request of a single statement changes the tables and leaves the enforcer as it was.
Single(changes) == Disturb([x \in {} |-> Idle], InFlight, changes) /\ UNCHANGED enforcer

Go(q, local) ==
  request' = [request EXCEPT ![q] = local] /\ UNCHANGED <<made, unsettled>>

Step(q, from, to) == At(q, from) /\ Go(q, [request[q] EXCEPT !.step = to])

\* The request is over: what it settled, when it ran alone, and what it left unsettled.
End(q, settled, left) ==
  /\ request' = [request EXCEPT ![q] = Idle]
  /\ unsettled' =
       IF request[q].alone THEN (unsettled \ settled) \cup left ELSE unsettled
  /\ UNCHANGED made

----------------------------------------------------------------------------
(* The enforcer, each operator one write lock *)

SetUser(u, codes) ==
  /\ groups' = {g \in groups : g[1] # u} \cup ({u} \X codes)
  /\ UNCHANGED rules

SetRole(code, routes) ==
  /\ rules' = {x \in rules : x[1] # code} \cup ({code} \X routes)
  /\ UNCHANGED groups

DropCode(code) ==
  /\ rules' = {x \in rules : x[1] # code}
  /\ groups' = {g \in groups : g[2] # code}

DropRoute(route) ==
  /\ rules' = {x \in rules : x[2] # route}
  /\ UNCHANGED groups

----------------------------------------------------------------------------
(* Roles of a user *)

New(step, on) == [Idle EXCEPT !.step = step, !.on = on]

SyncUserRoles(q, u, wanted) ==
  /\ u \in users /\ \A r \in wanted : roles[r].active
  /\ Begin(q, [New("clear_roles", u) EXCEPT !.want = wanted])
  /\ UNCHANGED <<tables, enforcer>>

ClearRoles(q) ==
  /\ Step(q, "clear_roles", "insert_role")
  /\ holds' = [holds EXCEPT ![request[q].on] = {}]
  /\ UNCHANGED <<users, roles, perms, grants, keys, used, enforcer>>

\* A row that is there already fails the statement, and the request with it: see Stops.
InsertRole(q) ==
  /\ At(q, "insert_role")
  /\ \E r \in request[q].want \ holds[request[q].on] :
       /\ holds' = [holds EXCEPT ![request[q].on] = @ \cup {r}]
       /\ Go(q, [request[q] EXCEPT !.want = @ \ {r}])
  /\ UNCHANGED <<users, roles, perms, grants, keys, used, enforcer>>

ReadCodes(q) ==
  /\ At(q, "insert_role") /\ request[q].want = {}
  /\ Go(q, [request[q] EXCEPT !.step = "apply_user", !.got = UserCodes(request[q].on)])
  /\ UNCHANGED <<tables, enforcer>>

ApplyUser(q) ==
  /\ At(q, "apply_user")
  /\ SetUser(request[q].on, request[q].got)
  /\ End(q, {request[q].on}, {})
  /\ UNCHANGED tables

\* create_tenant_admin and create_super_admin: the user and its roles in one transaction.
CreateAdmin(q, u, wanted) ==
  /\ u \in Users \ users
  /\ wanted # {} /\ \A r \in wanted : roles[r].active
  /\ users' = users \cup {u}
  /\ holds' = [holds EXCEPT ![u] = wanted]
  /\ Begin(q, [New("apply_user", u) EXCEPT !.got = {roles[r].code : r \in wanted}])
  /\ UNCHANGED <<roles, perms, grants, keys, used, enforcer>>

----------------------------------------------------------------------------
(* Permissions of a role *)

SyncRolePermissions(q, r, wanted) ==
  /\ roles[r].active /\ \A p \in wanted : ~perms[p].deleted
  /\ Begin(q, [New("clear_permissions", r) EXCEPT !.want = wanted, !.code = roles[r].code])
  /\ UNCHANGED <<tables, enforcer>>

ClearPermissions(q) ==
  /\ Step(q, "clear_permissions", "insert_permission")
  /\ grants' = [grants EXCEPT ![request[q].on] = {}]
  /\ UNCHANGED <<users, roles, perms, holds, keys, used, enforcer>>

InsertPermission(q) ==
  /\ At(q, "insert_permission")
  /\ \E p \in request[q].want \ grants[request[q].on] :
       /\ grants' = [grants EXCEPT ![request[q].on] = @ \cup {p}]
       /\ Go(q, [request[q] EXCEPT !.want = @ \ {p}])
  /\ UNCHANGED <<users, roles, perms, holds, keys, used, enforcer>>

ReadRoutes(q) ==
  /\ At(q, "insert_permission") /\ request[q].want = {}
  /\ Go(q, [request[q] EXCEPT !.step = "apply_role", !.got = RoleRoutes(request[q].on)])
  /\ UNCHANGED <<tables, enforcer>>

ApplyRole(q) ==
  /\ At(q, "apply_role")
  /\ SetRole(request[q].code, request[q].got)
  /\ End(q, {request[q].on}, {})
  /\ UNCHANGED tables

----------------------------------------------------------------------------
(* A role is renamed, disabled and enabled *)

\* Only an active role is renamed; uk_roles_tenant_code keeps the codes apart.
UpdateRole(r, code) ==
  /\ roles[r].active /\ \A s \in Roles : roles[s].code # code
  /\ roles' = [roles EXCEPT ![r].code = code]
  /\ Single(Touched(r))
  /\ UNCHANGED <<users, perms, holds, grants, keys, used>>

Disable(q, r) ==
  /\ roles[r].active
  /\ roles' = [roles EXCEPT ![r].active = FALSE]
  /\ Begin(q, [New("drop_role", r) EXCEPT !.code = roles[r].code])
  /\ UNCHANGED <<users, perms, holds, grants, keys, used, enforcer>>

DropRole(q) ==
  /\ At(q, "drop_role")
  /\ DropCode(request[q].code)
  /\ End(q, {request[q].on}, {})
  /\ UNCHANGED tables

\* A role that is active already may be enabled again.
Enable(q, r) ==
  /\ roles' = [roles EXCEPT ![r].active = TRUE]
  /\ Begin(q, [New("read_role", r) EXCEPT !.code = roles[r].code])
  /\ UNCHANGED <<users, perms, holds, grants, keys, used, enforcer>>

ReadRole(q) ==
  /\ At(q, "read_role")
  /\ Go(q, [request[q] EXCEPT !.step = "apply_enabled", !.got = RoleRoutes(request[q].on)])
  /\ UNCHANGED <<tables, enforcer>>

ApplyEnabled(q) ==
  /\ Step(q, "apply_enabled", "find_holders")
  /\ SetRole(request[q].code, request[q].got)
  /\ UNCHANGED tables

\* Mutant of FindHolders: enabling a role puts its rules back, not its users.
FindHoldersNone(q) ==
  /\ At(q, "find_holders")
  /\ Go(q, [request[q] EXCEPT !.step = "read_holder", !.want = {}])
  /\ UNCHANGED <<tables, enforcer>>

FindHolders(q) ==
  /\ At(q, "find_holders")
  /\ Go(q, [request[q] EXCEPT !.step = "read_holder", !.want = Holders(request[q].on)])
  /\ UNCHANGED <<tables, enforcer>>

ReadHolder(q) ==
  /\ At(q, "read_holder")
  /\ \E u \in request[q].want :
       Go(q, [request[q] EXCEPT !.step = "apply_holder", !.want = @ \ {u}, !.got = UserCodes(u),
                               !.holder = u])
  /\ UNCHANGED <<tables, enforcer>>

ApplyHolder(q) ==
  /\ Step(q, "apply_holder", "read_holder")
  /\ SetUser(request[q].holder, request[q].got)
  /\ UNCHANGED tables

\* The keys of the role, which disabling took out of the enforcer, are not put back.
EndEnable(q) ==
  LET r == request[q].on
  IN /\ At(q, "read_holder") /\ request[q].want = {}
     /\ End(q, {r} \cup Holders(r), KeysOf(r))
     /\ UNCHANGED <<tables, enforcer>>

----------------------------------------------------------------------------
(* A permission is moved to another route, deleted and restored *)

\* uk_permissions_obj_act counts the deleted rows too.
UpdatePermission(p, route) ==
  /\ ~perms[p].deleted /\ \A s \in Permissions : perms[s].route # route
  /\ perms' = [perms EXCEPT ![p].route = route]
  /\ Single(Touched(p))
  /\ UNCHANGED <<users, roles, holds, grants, keys, used>>

DeletePermission(q, p) ==
  /\ ~perms[p].deleted
  /\ perms' = [perms EXCEPT ![p].deleted = TRUE]
  /\ Begin(q, [New("drop_route", p) EXCEPT !.got = {perms[p].route}])
  /\ UNCHANGED <<users, roles, holds, grants, keys, used, enforcer>>

RevokeRoute(q) ==
  /\ At(q, "drop_route")
  /\ \E route \in request[q].got : DropRoute(route)
  /\ End(q, {}, {})
  /\ UNCHANGED tables

\* sync_permissions finds a deleted permission for a route; its rows in role_permissions are
\* still there, and grant again.
RestorePermission(p) ==
  /\ perms[p].deleted
  /\ perms' = [perms EXCEPT ![p].deleted = FALSE]
  /\ Single(Touched(p))
  /\ UNCHANGED <<users, roles, holds, grants, keys, used>>

----------------------------------------------------------------------------
(* API keys *)

Valid(k) == keys[k].role # Nil /\ ~keys[k].revoked

\* The checks of exchange_key.  A token that expires is one that is no longer exchanged.
Exchange(q, t, k) ==
  LET r == TokenRole[t]
  IN /\ keys[k] = NoKey /\ \A x \in InFlight : request[x].on # k
     /\ used[t] < MaxUsage
     /\ Cardinality({x \in Keys : Valid(x)}) < MaxKeys
     /\ roles[r].active
     /\ Begin(q, [New("insert_key", k) EXCEPT !.role = r, !.code = roles[r].code, !.token = t])
     /\ UNCHANGED <<tables, enforcer>>

\* Mutant of InsertKey: the use is counted before the key is inserted.
InsertKeyLate(q) ==
  LET local == request[q]
  IN \/ /\ At(q, "insert_key") /\ used[local.token] = local.count
        /\ Go(q, [local EXCEPT !.count = @ + 1])
        /\ used' = [used EXCEPT ![local.token] = local.count + 1]
        /\ UNCHANGED <<users, roles, perms, holds, grants, keys, enforcer>>
     \/ /\ At(q, "insert_key") /\ local.count > 0
        /\ Go(q, [local EXCEPT !.step = "apply_key"])
        /\ keys' = [keys EXCEPT ![local.on] =
                       [role |-> local.role, token |-> local.token, revoked |-> FALSE]]
        /\ UNCHANGED <<users, roles, perms, holds, grants, used, enforcer>>

InsertKey(q) ==
  LET local == request[q]
  IN /\ Step(q, "insert_key", "read_usage")
     /\ keys' = [keys EXCEPT ![local.on] =
                    [role |-> local.role, token |-> local.token, revoked |-> FALSE]]
     /\ UNCHANGED <<users, roles, perms, holds, grants, used, enforcer>>

ReadUsage(q) ==
  /\ At(q, "read_usage")
  /\ Go(q, [request[q] EXCEPT !.step = "write_usage", !.count = used[request[q].token]])
  /\ UNCHANGED <<tables, enforcer>>

WriteUsage(q) ==
  /\ Step(q, "write_usage", "apply_key")
  /\ used' = [used EXCEPT ![request[q].token] = request[q].count + 1]
  /\ UNCHANGED <<users, roles, perms, holds, grants, keys, enforcer>>

ChangeRole(q, k, r) ==
  /\ keys[k].role # Nil /\ roles[r].active
  /\ Begin(q, [New("write_key", k) EXCEPT !.role = r, !.code = roles[r].code])
  /\ UNCHANGED <<tables, enforcer>>

\* Mutant of WriteKey: every column is written as it was read.
WriteKeyRow(q) ==
  /\ Step(q, "write_key", "apply_key")
  /\ keys' = [keys EXCEPT ![request[q].on].role = request[q].role,
                          ![request[q].on].revoked = FALSE]
  /\ UNCHANGED <<users, roles, perms, holds, grants, used, enforcer>>

\* Only the column that changes is written.
WriteKey(q) ==
  /\ Step(q, "write_key", "apply_key")
  /\ keys' = [keys EXCEPT ![request[q].on].role = request[q].role]
  /\ UNCHANGED <<users, roles, perms, holds, grants, used, enforcer>>

ApplyKey(q) ==
  /\ At(q, "apply_key")
  /\ SetUser(request[q].on, {request[q].code})
  /\ End(q, {request[q].on}, {})
  /\ UNCHANGED tables

Revoke(q, k) ==
  /\ keys[k].role # Nil
  /\ keys' = [keys EXCEPT ![k].revoked = TRUE]
  /\ Begin(q, New("drop_key", k))
  /\ UNCHANGED <<users, roles, perms, holds, grants, used, enforcer>>

DropKey(q) ==
  /\ At(q, "drop_key")
  /\ SetUser(request[q].on, {})
  /\ End(q, {}, {})
  /\ UNCHANGED tables

----------------------------------------------------------------------------
(* Failures *)

\* A statement, the audit log or the enforcer fails, or the client leaves: the handler ends
\* where it is.
Stops(q) ==
  /\ "stops" \in Faults /\ ~At(q, "idle")
  /\ End(q, {}, Touched(request[q].on))
  /\ UNCHANGED <<tables, enforcer>>

\* The enforcer takes the old rules out and puts the new ones in one at a time.
StopsHalfway(q) ==
  LET local == request[q]
      some == SUBSET local.got
  IN /\ "partial" \in Faults
     /\ \/ At(q, "apply_user") /\ \E codes \in some : SetUser(local.on, codes)
        \/ At(q, "apply_holder") /\ \E codes \in some : SetUser(local.holder, codes)
        \/ /\ local.step \in {"apply_role", "apply_enabled"}
           /\ \E routes \in some : SetRole(local.code, routes)
        \/ At(q, "apply_key") /\ SetUser(local.on, {})
        \/ At(q, "drop_role") /\ SetRole(local.code, {})
     /\ End(q, {}, Touched(local.on))
     /\ UNCHANGED tables

----------------------------------------------------------------------------

UserRequest(q) ==
  \/ \E u \in Users, wanted \in SUBSET Roles :
       SyncUserRoles(q, u, wanted) \/ CreateAdmin(q, u, wanted)
  \/ ClearRoles(q) \/ InsertRole(q) \/ ReadCodes(q) \/ ApplyUser(q)

RoleRequest(q) ==
  \/ \E r \in Roles, wanted \in SUBSET Permissions : SyncRolePermissions(q, r, wanted)
  \/ ClearPermissions(q) \/ InsertPermission(q) \/ ReadRoutes(q) \/ ApplyRole(q)
  \/ \E r \in Roles : Disable(q, r) \/ Enable(q, r)
  \/ DropRole(q) \/ ReadRole(q) \/ ApplyEnabled(q)
  \/ FindHolders(q) \/ ReadHolder(q) \/ ApplyHolder(q) \/ EndEnable(q)

PermissionRequest(q) ==
  \/ \E p \in Permissions : DeletePermission(q, p)
  \/ RevokeRoute(q)

KeyRequest(q) ==
  \/ \E k \in Keys : \/ \E t \in Tokens : Exchange(q, t, k)
                      \/ \E r \in Roles : ChangeRole(q, k, r)
                      \/ Revoke(q, k)
  \/ InsertKey(q) \/ ReadUsage(q) \/ WriteUsage(q) \/ WriteKey(q) \/ ApplyKey(q) \/ DropKey(q)

SingleRequest ==
  \/ \E r \in Roles, code \in Codes : UpdateRole(r, code)
  \/ \E p \in Permissions : \/ \E route \in Routes : UpdatePermission(p, route)
                            \/ RestorePermission(p)

Next ==
  \/ \E q \in Requests : \/ UserRequest(q) \/ RoleRequest(q) \/ PermissionRequest(q)
                         \/ KeyRequest(q) \/ Stops(q) \/ StopsHalfway(q)
  \/ SingleRequest

Spec == Init /\ [][Next]_vars

----------------------------------------------------------------------------
(* What a request may do *)

Enforced(subject) == {x[2] : x \in {y \in rules : <<subject, y[1]>> \in groups}}

\* authenticate reads the key and its role from the tables before the enforcer is asked.
Authenticated(k) == Valid(k) /\ roles[keys[k].role].active

UserMay(u) == UNION {RoleRoutes(r) : r \in {x \in holds[u] : roles[x].active}}

KeyMay(k) == IF Authenticated(k) THEN RoleRoutes(keys[k].role) ELSE {}

----------------------------------------------------------------------------
(* Properties *)

\* Every table, the enforcer and the locals of a request hold values of their types.
TypeOK ==
  /\ users \subseteq Users
  /\ roles \in [Roles -> [code : Codes, active : BOOLEAN]]
  /\ perms \in [Permissions -> [route : Routes, deleted : BOOLEAN]]
  /\ holds \in [Users -> SUBSET Roles] /\ grants \in [Roles -> SUBSET Permissions]
  /\ keys \in [Keys -> [role : Roles \cup {Nil}, token : Tokens \cup {Nil}, revoked : BOOLEAN]]
  /\ used \in [Tokens -> Nat]
  /\ rules \subseteq Codes \X Routes /\ groups \subseteq (Users \cup Keys) \X Codes
  /\ request \in [Requests -> Locals]
  /\ made \in 0..RequestBound
  /\ unsettled \subseteq Users \cup Roles \cup Keys

\* Whatever failed or overlapped before, a synchronisation that runs alone heals what it
\* synchronises: with no request in flight, the enforcer allows a user or a key exactly what the
\* tables grant it, if it and its roles were last set by such a request.
EnforcerAgrees ==
  InFlight = {} =>
    /\ \A u \in users \ unsettled :
         holds[u] \cap unsettled = {} => Enforced(u) = UserMay(u)
    /\ \A k \in Keys \ unsettled :
         Authenticated(k) /\ keys[k].role \notin unsettled => Enforced(k) = KeyMay(k)

\* A revoked key stays revoked and in no request's power to bring back: a change of its role that
\* read the row before the revocation writes the role only.
RevokedForGood == [][\A k \in Keys : keys[k].revoked => keys'[k].revoked]_vars

\* An exchange that fails does not use its token up: each use that is counted belongs to a key.
UsesAreKeys ==
  \A t \in Tokens : used[t] <= Cardinality({k \in Keys : keys[k].token = t})

=============================================================================
