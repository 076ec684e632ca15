-------------------------- MODULE AccessControlProofs --------------------------
(***************************************************************************)
(* Proofs about AccessControl, for any number of requests, users, roles,   *)
(* permissions, keys and tokens, and any faults.                           *)
(***************************************************************************)
EXTENDS AccessControl, TLAPS, FiniteSetTheorems

----------------------------------------------------------------------------
(* The locals of a request at each of its steps *)

UserSteps == {"clear_roles", "insert_role", "apply_user"}

PermissionSteps == {"clear_permissions", "insert_permission", "apply_role"}

EnableSteps == {"read_role", "apply_enabled", "find_holders", "read_holder", "apply_holder"}

RoleSteps == PermissionSteps \cup EnableSteps \cup {"drop_role"}

ExchangeSteps == {"insert_key", "read_usage", "write_usage"}

KeySteps == ExchangeSteps \cup {"write_key", "apply_key", "drop_key"}

Fits(local) ==
  /\ local.step = "idle" => local = Idle
  /\ local.step \in UserSteps => local.on \in Users
  /\ local.step \in RoleSteps => local.on \in Roles /\ local.code \in Codes
  /\ local.step = "drop_route" => local.on \in Permissions
  /\ local.step \in KeySteps => local.on \in Keys
  /\ local.step \in KeySteps \ {"drop_key"} => local.role \in Roles /\ local.code \in Codes
  /\ local.step \in ExchangeSteps => local.token \in Tokens
  /\ local.step \in {"clear_roles", "insert_role"} => local.want \subseteq Roles
  /\ local.step \in {"clear_permissions", "insert_permission"} =>
       local.want \subseteq Permissions
  /\ local.step \in {"read_holder", "apply_holder"} => local.want \subseteq Users
  /\ local.step = "apply_holder" => local.holder \in Users
  /\ local.step \in {"apply_user", "apply_holder"} => local.got \subseteq Codes
  /\ local.step \in {"apply_role", "apply_enabled", "drop_route"} => local.got \subseteq Routes

Fit == \A q \in Requests : Fits(request[q])

TypeInv == TypeOK /\ Fit

RequestsFit == request \in [Requests -> Locals] /\ Fit

Subjects == Users \cup Roles \cup Keys

----------------------------------------------------------------------------
(* Type correctness *)

LEMMA IdleTypes == Idle \in Locals /\ Fits(Idle)
BY DEF Idle, Locals, Steps, Fits, UserSteps, RoleSteps, PermissionSteps, EnableSteps, KeySteps,
       ExchangeSteps

LEMMA InitTypes ==
  ASSUME Init
  PROVE  TypeInv
<1>1. /\ users \subseteq Users
      /\ roles \in [Roles -> [code : Codes, active : BOOLEAN]]
      /\ perms \in [Permissions -> [route : Routes, deleted : BOOLEAN]]
      /\ holds \in [Users -> SUBSET Roles] /\ grants \in [Roles -> SUBSET Permissions]
  BY DEF Init
<1>2. /\ keys \in [Keys -> [role : Roles \cup {Nil}, token : Tokens \cup {Nil}, revoked : BOOLEAN]]
      /\ used \in [Tokens -> Nat] /\ made \in 0..RequestBound
      /\ unsettled \subseteq Users \cup Roles \cup Keys
  BY AccessControlConstants DEF Init, NoKey
<1>3. request \in [Requests -> Locals] /\ Fit
  BY IdleTypes DEF Init, Fit
<1>4. rules \subseteq Codes \X Routes
  <2>1. \A r \in Roles : RoleRoutes(r) \subseteq Routes /\ roles[r].code \in Codes
    BY <1>1 DEF RoleRoutes
  <2> QED
    BY <2>1 DEF Init
<1>5. groups \subseteq (Users \cup Keys) \X Codes
  <2>1. \A u \in Users : UserCodes(u) \subseteq Codes
    BY <1>1 DEF UserCodes
  <2> QED
    BY <2>1 DEF Init
<1> QED
  BY <1>1, <1>2, <1>3, <1>4, <1>5 DEF TypeInv, TypeOK

LEMMA LocalTypes ==
  ASSUME TypeInv, NEW q \in Requests
  PROVE  request[q] \in Locals /\ Fits(request[q])
BY DEF TypeInv, TypeOK, Fit

\* What a request in flight is about.
LEMMA OnTypes ==
  ASSUME TypeInv, NEW q \in Requests, ~At(q, "idle")
  PROVE  request[q].on \in Subjects \cup Permissions
<1>1. request[q].step \in Steps
  BY LocalTypes DEF Locals
<1>2. request[q].step \in UserSteps \cup RoleSteps \cup KeySteps \cup {"drop_route"}
  BY <1>1 DEF At, Steps, UserSteps, RoleSteps, PermissionSteps, EnableSteps, KeySteps,
              ExchangeSteps
<1>3. Fits(request[q])
  BY LocalTypes
<1> QED
  BY <1>2, <1>3 DEF Fits, Subjects

LEMMA TouchedTypes ==
  ASSUME TypeOK, NEW on \in Subjects \cup Permissions
  PROVE  Touched(on) \subseteq Subjects
BY DEF TypeOK, Touched, Holders, KeysOf, Subjects

LEMMA GoTypes ==
  ASSUME TypeInv, NEW q \in Requests, NEW local \in Locals, Fits(local), Go(q, local)
  PROVE  RequestsFit' /\ made' \in 0..RequestBound /\ unsettled' \subseteq Subjects
BY DEF TypeInv, TypeOK, Fit, RequestsFit, Go, Subjects

LEMMA EndTypes ==
  ASSUME TypeInv, NEW q \in Requests, NEW settled, NEW left \in SUBSET Subjects,
         End(q, settled, left)
  PROVE  RequestsFit' /\ made' \in 0..RequestBound /\ unsettled' \subseteq Subjects
BY IdleTypes DEF TypeInv, TypeOK, Fit, RequestsFit, End, Subjects

LEMMA LonelyTypes ==
  ASSUME NEW local \in Locals, Fits(local), local.step # "idle", NEW a \in BOOLEAN
  PROVE  [local EXCEPT !.alone = a] \in Locals /\ Fits([local EXCEPT !.alone = a])
BY DEF Locals, Fits

LEMMA DisturbTypes ==
  ASSUME TypeInv, NEW local, NEW changes \in SUBSET Subjects, Disturb(local, InFlight, changes),
         \A q \in DOMAIN local : local[q] \in Locals /\ Fits(local[q])
  PROVE  RequestsFit' /\ made' \in 0..RequestBound /\ unsettled' \subseteq Subjects
<1>1. made' \in 0..RequestBound
  BY AccessControlConstants DEF TypeInv, TypeOK, Disturb
<1>2. ASSUME NEW q \in InFlight
      PROVE  Touched(request[q].on) \subseteq Subjects
  <2>1. request[q].on \in Subjects \cup Permissions
    BY OnTypes DEF InFlight
  <2> QED
    BY <2>1, TouchedTypes DEF TypeInv
<1>3. unsettled' \subseteq Subjects
  BY <1>2 DEF Disturb, TypeInv, TypeOK, Subjects
<1>4. ASSUME NEW q \in Requests
      PROVE  request'[q] \in Locals /\ Fits(request'[q])
  <2>1. CASE q \in DOMAIN local
    BY <2>1 DEF Disturb
  <2>2. CASE q \notin DOMAIN local /\ ~At(q, "idle")
    BY <2>2, LocalTypes, LonelyTypes DEF Disturb, At
  <2>3. CASE q \notin DOMAIN local /\ At(q, "idle")
    <3>1. request[q] = Idle
      BY <2>3, LocalTypes DEF At, Fits
    <3>2. Idle.alone = FALSE
      BY DEF Idle
    <3>3. [Idle EXCEPT !.alone = FALSE] = Idle
      BY <3>2 DEF Idle
    <3> QED BY <2>3, <3>1, <3>3, IdleTypes DEF Disturb
  <2> QED BY <2>1, <2>2, <2>3
<1> QED
  BY <1>1, <1>3, <1>4 DEF RequestsFit, Fit, Disturb

LEMMA BeginTypes ==
  ASSUME TypeInv, NEW q \in Requests, NEW local \in Locals, Fits(local), local.step # "idle",
         local.on \in Subjects \cup Permissions, Begin(q, local)
  PROVE  RequestsFit' /\ made' \in 0..RequestBound /\ unsettled' \subseteq Subjects
<1>1. PICK lonely \in {[local EXCEPT !.alone = (InFlight = {})]},
           changes \in {IF InFlight = {} THEN {} ELSE Touched(local.on)} :
        Disturb([x \in {q} |-> lonely], InFlight, changes)
  BY DEF Begin
<1>2. lonely \in Locals /\ Fits(lonely)
  BY LonelyTypes, <1>1
<1>3. changes \in SUBSET Subjects
  BY TouchedTypes, <1>1 DEF TypeInv
<1> QED
  BY <1>1, <1>2, <1>3, DisturbTypes

TablesFit ==
  /\ users \subseteq Users
  /\ roles \in [Roles -> [code : Codes, active : BOOLEAN]]
  /\ perms \in [Permissions -> [route : Routes, deleted : BOOLEAN]]
  /\ holds \in [Users -> SUBSET Roles] /\ grants \in [Roles -> SUBSET Permissions]
  /\ keys \in [Keys -> [role : Roles \cup {Nil}, token : Tokens \cup {Nil}, revoked : BOOLEAN]]
  /\ used \in [Tokens -> Nat]

EnforcerFit ==
  rules \subseteq Codes \X Routes /\ groups \subseteq (Users \cup Keys) \X Codes

FlightFit == RequestsFit /\ made \in 0..RequestBound /\ unsettled \subseteq Subjects

LEMMA TypeParts ==
  /\ TypeInv <=> TablesFit /\ EnforcerFit /\ FlightFit
  /\ TypeInv' <=> TablesFit' /\ EnforcerFit' /\ FlightFit'
BY DEF TypeInv, TypeOK, TablesFit, EnforcerFit, FlightFit, RequestsFit, Subjects

LEMMA CodesAndRoutes ==
  ASSUME TypeOK
  PROVE  /\ \A u \in Users : UserCodes(u) \subseteq Codes
         /\ \A r \in Roles : RoleRoutes(r) \subseteq Routes
BY DEF TypeOK, UserCodes, RoleRoutes

LEMMA EnforcerTypes ==
  ASSUME TypeOK
  PROVE  /\ \A s \in Users \cup Keys, codes \in SUBSET Codes : SetUser(s, codes) => EnforcerFit'
         /\ \A code \in Codes, routes \in SUBSET Routes : SetRole(code, routes) => EnforcerFit'
         /\ \A code : DropCode(code) => EnforcerFit'
         /\ \A route : DropRoute(route) => EnforcerFit'
BY DEF TypeOK, SetUser, SetRole, DropCode, DropRoute, EnforcerFit

\* The locals a request begins with.
LEMMA NewTypes ==
  ASSUME NEW step \in Steps \ {"idle"}, NEW on \in Subjects \cup Permissions
  PROVE  New(step, on) \in Locals /\ New(step, on).step = step /\ New(step, on).on = on
BY DEF New, Idle, Locals, Subjects

LEMMA UserRequestTypes ==
  ASSUME TypeInv, NEW q \in Requests, UserRequest(q)
  PROVE  TypeInv'
<1> USE DEF UserSteps, RoleSteps, PermissionSteps, EnableSteps, KeySteps, ExchangeSteps
<1>1. TypeOK /\ TablesFit /\ EnforcerFit
  BY TypeParts DEF TypeInv
<1>2. request[q] \in Locals /\ Fits(request[q])
  BY LocalTypes
<1>3. ASSUME NEW u \in Users, NEW wanted \in SUBSET Roles, SyncUserRoles(q, u, wanted)
      PROVE  TypeInv'
  <2>1. [New("clear_roles", u) EXCEPT !.want = wanted] \in Locals
    BY <1>3 DEF New, Idle, Locals, Steps
  <2>2. Fits([New("clear_roles", u) EXCEPT !.want = wanted])
    BY <1>3 DEF New, Idle, Fits
  <2>3. FlightFit'
    BY <1>3, <2>1, <2>2, BeginTypes DEF SyncUserRoles, New, Idle, FlightFit, Subjects
  <2> QED
    BY <1>1, <1>3, <2>3, TypeParts DEF SyncUserRoles, TablesFit, EnforcerFit, tables, enforcer
<1>4. ASSUME NEW u \in Users, NEW wanted \in SUBSET Roles, CreateAdmin(q, u, wanted)
      PROVE  TypeInv'
  <2> DEFINE local == [New("apply_user", u) EXCEPT !.got = {roles[r].code : r \in wanted}]
  <2>1. {roles[r].code : r \in wanted} \subseteq Codes
    BY <1>1 DEF TablesFit
  <2>2. local \in Locals
    BY <1>4, <2>1 DEF New, Idle, Locals, Steps
  <2>3. Fits(local)
    BY <1>4, <2>1 DEF New, Idle, Fits
  <2>4. FlightFit'
    BY <1>4, <2>2, <2>3, BeginTypes DEF CreateAdmin, New, Idle, FlightFit, Subjects
  <2> QED
    BY <1>1, <1>4, <2>4, TypeParts DEF CreateAdmin, TablesFit, EnforcerFit, enforcer
<1>5. CASE ClearRoles(q)
  <2>1. FlightFit'
    BY <1>2, <1>5, GoTypes DEF ClearRoles, Step, At, Fits, Locals, Steps, FlightFit
  <2> QED
    BY <1>1, <1>2, <1>5, <2>1, TypeParts
       DEF ClearRoles, Step, At, Fits, TablesFit, EnforcerFit, enforcer
<1>6. CASE InsertRole(q)
  <2>1. FlightFit'
    BY <1>2, <1>6, GoTypes DEF InsertRole, At, Fits, Locals, Steps, FlightFit
  <2> QED
    BY <1>1, <1>2, <1>6, <2>1, TypeParts
       DEF InsertRole, At, Fits, TablesFit, EnforcerFit, enforcer
<1>7. CASE ReadCodes(q)
  <2>1. UserCodes(request[q].on) \subseteq Codes
    BY <1>1, <1>2, <1>7, CodesAndRoutes DEF ReadCodes, At, Fits
  <2>2. FlightFit'
    BY <1>2, <1>7, <2>1, GoTypes DEF ReadCodes, At, Fits, Locals, Steps, FlightFit
  <2> QED
    BY <1>1, <1>7, <2>2, TypeParts DEF ReadCodes, TablesFit, EnforcerFit, tables, enforcer
<1>8. CASE ApplyUser(q)
  <2>1. EnforcerFit'
    BY <1>1, <1>2, <1>8, EnforcerTypes DEF ApplyUser, At, Fits
  <2>2. FlightFit'
    BY <1>8, EndTypes DEF ApplyUser, FlightFit
  <2> QED
    BY <1>1, <1>8, <2>1, <2>2, TypeParts DEF ApplyUser, TablesFit, tables
<1> QED
  BY <1>3, <1>4, <1>5, <1>6, <1>7, <1>8 DEF UserRequest

LEMMA RoleRequestTypes ==
  ASSUME TypeInv, NEW q \in Requests, RoleRequest(q)
  PROVE  TypeInv'
<1> USE DEF UserSteps, RoleSteps, PermissionSteps, EnableSteps, KeySteps, ExchangeSteps
<1>1. TypeOK /\ TablesFit /\ EnforcerFit
  BY TypeParts DEF TypeInv
<1>2. request[q] \in Locals /\ Fits(request[q])
  BY LocalTypes
<1>3. ASSUME NEW r \in Roles, NEW wanted \in SUBSET Permissions, SyncRolePermissions(q, r, wanted)
      PROVE  TypeInv'
  <2> DEFINE local == 
       [New("clear_permissions", r) EXCEPT !.want = wanted, !.code = roles[r].code]
  <2>1. local \in Locals
    BY <1>1, <1>3 DEF SyncRolePermissions, New, Idle, Locals, Steps, TablesFit
  <2>2. Fits(local)
    BY <1>1, <1>3 DEF SyncRolePermissions, New, Idle, Fits, TablesFit
  <2>3. FlightFit'
    BY <1>3, <2>1, <2>2, BeginTypes DEF SyncRolePermissions, New, Idle, FlightFit, Subjects
  <2> QED
    BY <1>1, <1>3, <2>3, TypeParts DEF SyncRolePermissions, TablesFit, EnforcerFit, tables, enforcer
<1>4. CASE ClearPermissions(q)
  <2>1. FlightFit'
    BY <1>2, <1>4, GoTypes DEF ClearPermissions, Step, At, Fits, Locals, Steps, FlightFit
  <2> QED
    BY <1>1, <1>2, <1>4, <2>1, TypeParts
       DEF ClearPermissions, Step, At, Fits, TablesFit, EnforcerFit, enforcer
<1>5. CASE InsertPermission(q)
  <2>1. FlightFit'
    BY <1>2, <1>5, GoTypes DEF InsertPermission, Step, At, Fits, Locals, Steps, FlightFit
  <2> QED
    BY <1>1, <1>2, <1>5, <2>1, TypeParts
       DEF InsertPermission, Step, At, Fits, TablesFit, EnforcerFit, enforcer
<1>6. CASE ReadRoutes(q)
  <2>1. RoleRoutes(request[q].on) \subseteq Routes
    BY <1>1, <1>2, <1>6, CodesAndRoutes DEF ReadRoutes, At, Fits
  <2>2. FlightFit'
    BY <1>2, <1>6, <2>1, GoTypes DEF ReadRoutes, Step, At, Fits, Locals, Steps, FlightFit
  <2> QED
    BY <1>1, <1>6, <2>2, TypeParts DEF ReadRoutes, TablesFit, EnforcerFit, tables, enforcer
<1>7. CASE ApplyRole(q)
  <2>1. EnforcerFit'
    BY <1>1, <1>2, <1>7, EnforcerTypes DEF ApplyRole, At, Fits
  <2>2. FlightFit'
    BY <1>7, EndTypes DEF ApplyRole, FlightFit
  <2> QED
    BY <1>1, <1>7, <2>1, <2>2, TypeParts DEF ApplyRole, TablesFit, tables
<1>8. ASSUME NEW r \in Roles, Disable(q, r)
      PROVE  TypeInv'
  <2> DEFINE local == [New("drop_role", r) EXCEPT !.code = roles[r].code]
  <2>1. local \in Locals
    BY <1>1, <1>8 DEF Disable, New, Idle, Locals, Steps, TablesFit
  <2>2. Fits(local)
    BY <1>1, <1>8 DEF Disable, New, Idle, Fits, TablesFit
  <2>3. FlightFit'
    BY <1>8, <2>1, <2>2, BeginTypes DEF Disable, New, Idle, FlightFit, Subjects
  <2> QED
    BY <1>1, <1>8, <2>3, TypeParts DEF Disable, TablesFit, EnforcerFit, enforcer
<1>9. ASSUME NEW r \in Roles, Enable(q, r)
      PROVE  TypeInv'
  <2> DEFINE local == [New("read_role", r) EXCEPT !.code = roles[r].code]
  <2>1. local \in Locals
    BY <1>1, <1>9 DEF Enable, New, Idle, Locals, Steps, TablesFit
  <2>2. Fits(local)
    BY <1>1, <1>9 DEF Enable, New, Idle, Fits, TablesFit
  <2>3. FlightFit'
    BY <1>9, <2>1, <2>2, BeginTypes DEF Enable, New, Idle, FlightFit, Subjects
  <2> QED
    BY <1>1, <1>9, <2>3, TypeParts DEF Enable, TablesFit, EnforcerFit, enforcer
<1>10. CASE DropRole(q)
  <2>1. EnforcerFit'
    BY <1>1, <1>2, <1>10, EnforcerTypes DEF DropRole, At, Fits
  <2>2. FlightFit'
    BY <1>10, EndTypes DEF DropRole, FlightFit
  <2> QED
    BY <1>1, <1>10, <2>1, <2>2, TypeParts DEF DropRole, TablesFit, tables
<1>11. CASE ReadRole(q)
  <2>1. RoleRoutes(request[q].on) \subseteq Routes
    BY <1>1, <1>2, <1>11, CodesAndRoutes DEF ReadRole, At, Fits
  <2>2. FlightFit'
    BY <1>2, <1>11, <2>1, GoTypes DEF ReadRole, Step, At, Fits, Locals, Steps, FlightFit
  <2> QED
    BY <1>1, <1>11, <2>2, TypeParts DEF ReadRole, TablesFit, EnforcerFit, tables, enforcer
<1>12. CASE ApplyEnabled(q)
  <2>1. FlightFit'
    BY <1>2, <1>12, GoTypes DEF ApplyEnabled, Step, At, Fits, Locals, Steps, FlightFit
  <2>2. EnforcerFit'
    BY <1>1, <1>2, <1>12, EnforcerTypes DEF ApplyEnabled, Step, At, Fits
  <2> QED
    BY <1>1, <1>12, <2>1, <2>2, TypeParts DEF ApplyEnabled, TablesFit, tables
<1>13. CASE FindHolders(q)
  <2>1. Holders(request[q].on) \subseteq Users
    BY <1>1, <1>2, <1>13, CodesAndRoutes DEF Holders, TablesFit
  <2>2. FlightFit'
    BY <1>2, <1>13, <2>1, GoTypes DEF FindHolders, Step, At, Fits, Locals, Steps, FlightFit
  <2> QED
    BY <1>1, <1>13, <2>2, TypeParts DEF FindHolders, TablesFit, EnforcerFit, tables, enforcer
<1>14. CASE ReadHolder(q)
  <2>1. \A u \in request[q].want : u \in Users /\ UserCodes(u) \subseteq Codes
    BY <1>1, <1>2, <1>14, CodesAndRoutes DEF ReadHolder, At, Fits
  <2>2. PICK u \in request[q].want :
          Go(q, [request[q] EXCEPT !.step = "apply_holder", !.want = @ \ {u},
                                   !.got = UserCodes(u), !.holder = u])
    BY <1>14 DEF ReadHolder
  <2> DEFINE local == [request[q] EXCEPT !.step = "apply_holder", !.want = @ \ {u},
                                         !.got = UserCodes(u), !.holder = u]
  <2>3. local \in Locals
    BY <1>2, <2>1 DEF Locals, Steps
  <2>4. Fits(local)
    BY <1>2, <1>14, <2>1 DEF ReadHolder, At, Fits, Locals
  <2>5. FlightFit'
    BY <2>2, <2>3, <2>4, GoTypes DEF FlightFit
  <2> QED
    BY <1>1, <1>14, <2>5, TypeParts DEF ReadHolder, TablesFit, EnforcerFit, tables, enforcer
<1>15. CASE ApplyHolder(q)
  <2>1. FlightFit'
    BY <1>2, <1>15, GoTypes DEF ApplyHolder, Step, At, Fits, Locals, Steps, FlightFit
  <2>2. EnforcerFit'
    BY <1>1, <1>2, <1>15, EnforcerTypes DEF ApplyHolder, Step, At, Fits
  <2> QED
    BY <1>1, <1>15, <2>1, <2>2, TypeParts DEF ApplyHolder, TablesFit, tables
<1>16. CASE EndEnable(q)
  <2>1. KeysOf(request[q].on) \subseteq Subjects
    BY DEF KeysOf, Subjects
  <2>2. FlightFit'
    BY <1>16, <2>1, EndTypes DEF EndEnable, FlightFit
  <2> QED
    BY <1>1, <1>16, <2>2, TypeParts DEF EndEnable, TablesFit, EnforcerFit, tables, enforcer
<1> QED
  BY <1>3, <1>4, <1>5, <1>6, <1>7, <1>8, <1>9, <1>10, <1>11, <1>12, <1>13, <1>14, <1>15, <1>16 DEF RoleRequest

LEMMA PermissionRequestTypes ==
  ASSUME TypeInv, NEW q \in Requests, PermissionRequest(q)
  PROVE  TypeInv'
<1> USE DEF UserSteps, RoleSteps, PermissionSteps, EnableSteps, KeySteps, ExchangeSteps
<1>1. TypeOK /\ TablesFit /\ EnforcerFit
  BY TypeParts DEF TypeInv
<1>2. request[q] \in Locals /\ Fits(request[q])
  BY LocalTypes
<1>3. ASSUME NEW p \in Permissions, DeletePermission(q, p)
      PROVE  TypeInv'
  <2> DEFINE local == [New("drop_route", p) EXCEPT !.got = {perms[p].route}]
  <2>0. {perms[p].route} \subseteq Routes
    BY <1>1 DEF TablesFit
  <2>1. local \in Locals
    BY <2>0 DEF New, Idle, Locals, Steps
  <2>2. Fits(local)
    BY <2>0 DEF New, Idle, Fits
  <2>3. FlightFit'
    BY <1>3, <2>1, <2>2, BeginTypes DEF DeletePermission, New, Idle, FlightFit, Subjects
  <2> QED
    BY <1>1, <1>3, <2>3, TypeParts DEF DeletePermission, TablesFit, EnforcerFit, enforcer
<1>4. CASE RevokeRoute(q)
  <2>1. EnforcerFit'
    BY <1>1, <1>2, <1>4, EnforcerTypes DEF RevokeRoute, At, Fits
  <2>2. FlightFit'
    BY <1>4, EndTypes DEF RevokeRoute, FlightFit
  <2> QED
    BY <1>1, <1>4, <2>1, <2>2, TypeParts DEF RevokeRoute, TablesFit, tables
<1> QED
  BY <1>3, <1>4 DEF PermissionRequest

LEMMA KeyRequestTypes ==
  ASSUME TypeInv, NEW q \in Requests, KeyRequest(q)
  PROVE  TypeInv'
<1> USE DEF UserSteps, RoleSteps, PermissionSteps, EnableSteps, KeySteps, ExchangeSteps
<1>1. TypeOK /\ TablesFit /\ EnforcerFit
  BY TypeParts DEF TypeInv
<1>2. request[q] \in Locals /\ Fits(request[q])
  BY LocalTypes
<1>3. ASSUME NEW k \in Keys, NEW t \in Tokens, Exchange(q, t, k)
      PROVE  TypeInv'
  <2> DEFINE r == TokenRole[t]
             local == [New("insert_key", k) EXCEPT
                         !.role = r, !.code = roles[r].code, !.token = t]
  <2>0. r \in Roles
    BY AccessControlConstants
  <2>1. local \in Locals
    BY <1>1, <1>3, <2>0 DEF New, Idle, Locals, Steps, TablesFit
  <2>2. Fits(local)
    BY <1>1, <1>3, <2>0 DEF New, Idle, Fits, TablesFit
  <2>3. FlightFit'
    BY <1>3, <2>1, <2>2, BeginTypes DEF Exchange, New, Idle, FlightFit, Subjects
  <2> QED
    BY <1>1, <1>3, <2>3, TypeParts DEF Exchange, TablesFit, EnforcerFit, tables, enforcer
<1>4. ASSUME NEW k \in Keys, NEW r \in Roles, ChangeRole(q, k, r)
      PROVE  TypeInv'
  <2> DEFINE local == 
       [New("write_key", k) EXCEPT !.role = r, !.code = roles[r].code]
  <2>1. local \in Locals
    BY <1>1, <1>4 DEF ChangeRole, New, Idle, Locals, Steps, TablesFit
  <2>2. Fits(local)
    BY <1>1, <1>4 DEF ChangeRole, New, Idle, Fits, TablesFit
  <2>3. FlightFit'
    BY <1>4, <2>1, <2>2, BeginTypes DEF ChangeRole, New, Idle, FlightFit, Subjects
  <2> QED
    BY <1>1, <1>4, <2>3, TypeParts DEF ChangeRole, TablesFit, EnforcerFit, tables, enforcer
<1>5. ASSUME NEW k \in Keys, Revoke(q, k)
      PROVE  TypeInv'
  <2> DEFINE local == New("drop_key", k)
  <2>1. local \in Locals
    BY <1>1, <1>5 DEF Revoke, New, Idle, Locals, Steps, TablesFit
  <2>2. Fits(local)
    BY <1>1, <1>5 DEF Revoke, New, Idle, Fits, TablesFit
  <2>3. FlightFit'
    BY <1>5, <2>1, <2>2, BeginTypes DEF Revoke, New, Idle, FlightFit, Subjects
  <2> QED
    BY <1>1, <1>5, <2>3, TypeParts DEF Revoke, TablesFit, EnforcerFit, enforcer
<1>6. CASE InsertKey(q)
  <2>1. FlightFit'
    BY <1>2, <1>6, GoTypes DEF InsertKey, Step, At, Fits, Locals, Steps, FlightFit
  <2> QED
    BY <1>1, <1>2, <1>6, <2>1, TypeParts
       DEF InsertKey, Step, At, Fits, TablesFit, EnforcerFit, enforcer
<1>7. CASE ReadUsage(q)
  <2>1. used[request[q].token] \in Nat
    BY <1>1, <1>2, <1>7, AccessControlConstants DEF ReadUsage, At, Fits, TablesFit
  <2>2. FlightFit'
    BY <1>2, <1>7, <2>1, GoTypes DEF ReadUsage, Step, At, Fits, Locals, Steps, FlightFit
  <2> QED
    BY <1>1, <1>7, <2>2, TypeParts DEF ReadUsage, TablesFit, EnforcerFit, tables, enforcer
<1>8. CASE WriteUsage(q)
  <2>1. FlightFit'
    BY <1>2, <1>8, GoTypes DEF WriteUsage, Step, At, Fits, Locals, Steps, FlightFit
  <2> QED
    BY <1>1, <1>2, <1>8, <2>1, TypeParts
       DEF WriteUsage, Step, At, Fits, Locals, TablesFit, EnforcerFit, enforcer
<1>9. CASE WriteKey(q)
  <2>1. FlightFit'
    BY <1>2, <1>9, GoTypes DEF WriteKey, Step, At, Fits, Locals, Steps, FlightFit
  <2> QED
    BY <1>1, <1>2, <1>9, <2>1, TypeParts
       DEF WriteKey, Step, At, Fits, TablesFit, EnforcerFit, enforcer
<1>10. CASE ApplyKey(q)
  <2>1. EnforcerFit'
    BY <1>1, <1>2, <1>10, EnforcerTypes DEF ApplyKey, At, Fits
  <2>2. FlightFit'
    BY <1>10, EndTypes DEF ApplyKey, FlightFit
  <2> QED
    BY <1>1, <1>10, <2>1, <2>2, TypeParts DEF ApplyKey, TablesFit, tables
<1>11. CASE DropKey(q)
  <2>1. EnforcerFit'
    BY <1>1, <1>2, <1>11, EnforcerTypes DEF DropKey, At, Fits
  <2>2. FlightFit'
    BY <1>11, EndTypes DEF DropKey, FlightFit
  <2> QED
    BY <1>1, <1>11, <2>1, <2>2, TypeParts DEF DropKey, TablesFit, tables
<1> QED
  BY <1>3, <1>4, <1>5, <1>6, <1>7, <1>8, <1>9, <1>10, <1>11 DEF KeyRequest

LEMMA SingleRequestTypes ==
  ASSUME TypeInv, SingleRequest
  PROVE  TypeInv'
<1>1. TypeOK /\ TablesFit /\ EnforcerFit
  BY TypeParts DEF TypeInv
<1>2. ASSUME NEW on \in Roles \cup Permissions, Single(Touched(on))
      PROVE  FlightFit' /\ EnforcerFit'
  <2>1. Touched(on) \subseteq Subjects
    BY <1>1, TouchedTypes DEF Subjects
  <2>2. FlightFit'
    BY <1>2, <2>1, DisturbTypes DEF Single, FlightFit
  <2> QED
    BY <1>1, <1>2, <2>2 DEF Single, EnforcerFit, enforcer
<1>3. ASSUME NEW r \in Roles, NEW code \in Codes, UpdateRole(r, code)
      PROVE  TypeInv'
  BY <1>1, <1>2, <1>3, TypeParts DEF UpdateRole, TablesFit
<1>4. ASSUME NEW p \in Permissions, NEW route \in Routes, UpdatePermission(p, route)
      PROVE  TypeInv'
  BY <1>1, <1>2, <1>4, TypeParts DEF UpdatePermission, TablesFit
<1>5. ASSUME NEW p \in Permissions, RestorePermission(p)
      PROVE  TypeInv'
  BY <1>1, <1>2, <1>5, TypeParts DEF RestorePermission, TablesFit
<1> QED
  BY <1>3, <1>4, <1>5 DEF SingleRequest

LEMMA FailureTypes ==
  ASSUME TypeInv, NEW q \in Requests, Stops(q) \/ StopsHalfway(q)
  PROVE  TypeInv'
<1> USE DEF UserSteps, RoleSteps, PermissionSteps, EnableSteps, KeySteps, ExchangeSteps
<1>1. TypeOK /\ TablesFit /\ EnforcerFit
  BY TypeParts DEF TypeInv
<1>2. request[q] \in Locals /\ Fits(request[q])
  BY LocalTypes
<1>3. ~At(q, "idle")
  BY DEF Stops, StopsHalfway, At
<1>4. Touched(request[q].on) \subseteq Subjects
  BY <1>1, <1>3, OnTypes, TouchedTypes
<1>5. FlightFit'
  BY <1>4, EndTypes DEF Stops, StopsHalfway, FlightFit
<1>6. TablesFit'
  BY <1>1 DEF Stops, StopsHalfway, TablesFit, tables
<1>7. CASE Stops(q)
  BY <1>1, <1>5, <1>6, <1>7, TypeParts DEF Stops, EnforcerFit, enforcer
<1>8. CASE StopsHalfway(q)
  <2>1. EnforcerFit'
    BY <1>1, <1>2, <1>8, EnforcerTypes DEF StopsHalfway, At, Fits
  <2> QED
    BY <1>5, <1>6, <2>1, TypeParts
<1> QED
  BY <1>7, <1>8

LEMMA TypeStep ==
  ASSUME TypeInv, [Next]_vars
  PROVE  TypeInv'
<1>1. CASE UNCHANGED vars
  BY <1>1 DEF vars, tables, enforcer, TypeInv, TypeOK, Fit, Fits, Idle
<1>2. CASE Next
  BY <1>2, UserRequestTypes, RoleRequestTypes, PermissionRequestTypes, KeyRequestTypes,
     SingleRequestTypes, FailureTypes DEF Next
<1> QED
  BY <1>1, <1>2

\* Every table, the enforcer and the locals of a request hold values of their types, and the
\* locals are those of the request's step.
THEOREM TypeCorrect == Spec => []TypeOK
<1>1. Spec => []TypeInv
  BY InitTypes, TypeStep, PTL DEF Spec
<1> QED
  BY <1>1, PTL DEF TypeInv

----------------------------------------------------------------------------
(* Keys, and the uses of the tokens they were exchanged for *)

CountSteps == {"read_usage", "write_usage"}

Exchanges(q) == request[q].step \in ExchangeSteps

\* Nobody else knows of a key that is about to be inserted; what is about to be counted is the
\* use of the token that the key names.
ExchangeInv ==
  /\ \A q \in Requests : At(q, "insert_key") =>
       /\ keys[request[q].on] = NoKey
       /\ \A x \in Requests : x # q => request[x].on # request[q].on
  /\ \A q, x \in Requests :
       Exchanges(q) /\ Exchanges(x) /\ request[q].on = request[x].on => q = x
  /\ \A q \in Requests :
       request[q].step \in CountSteps => keys[request[q].on].token = request[q].token

\* The keys whose use is counted, or was never to be.
Counted(t) ==
  {k \in Keys : /\ keys[k].token = t
                /\ \A q \in Requests : request[q].step \in CountSteps => request[q].on # k}

UsesInv ==
  /\ \A t \in Tokens : used[t] <= Cardinality(Counted(t))
  /\ \A q \in Requests :
       At(q, "write_usage") => request[q].count <= Cardinality(Counted(request[q].token))

KeyInv == TypeInv /\ ExchangeInv /\ UsesInv

\* A request that goes on as it was, as far as an exchange can tell.
Same(q) ==
  /\ request'[q].step = request[q].step /\ request'[q].on = request[q].on
  /\ request'[q].token = request[q].token /\ request'[q].count = request[q].count

\* A request that leaves the exchange, or was in none, and is about no key that is being made.
Leaves(q) ==
  /\ request'[q].step \notin ExchangeSteps
  /\ \/ request'[q].on = request[q].on
     \/ request'[q].on \notin Keys
     \/ keys[request'[q].on] # NoKey

Calm == \A q \in Requests : Same(q) \/ Leaves(q)

\* The rows that an exchange reads stay.
KeysStay ==
  /\ \A k \in Keys : keys'[k].token = keys[k].token
  /\ \A q \in Requests : At(q, "insert_key") => keys'[request[q].on] = keys[request[q].on]

LEMMA GoIsCalm ==
  ASSUME TypeInv, NEW q \in Requests, NEW local, Go(q, local),
         local.on = request[q].on, local.step \notin ExchangeSteps
  PROVE  Calm
BY DEF TypeInv, TypeOK, Go, Calm, Same, Leaves

LEMMA EndIsCalm ==
  ASSUME TypeInv, NEW q \in Requests, NEW settled, NEW left, End(q, settled, left)
  PROVE  Calm
BY AccessControlConstants
   DEF TypeInv, TypeOK, End, Calm, Same, Leaves, Idle, ExchangeSteps

LEMMA OthersStay ==
  ASSUME TypeInv, NEW q \in Requests, request' = [request EXCEPT ![q] = request'[q]]
  PROVE  \A x \in Requests : x # q => Same(x)
BY DEF TypeInv, TypeOK, Same

LEMMA DisturbedStay ==
  ASSUME TypeInv, NEW local, NEW others, NEW changes, Disturb(local, others, changes),
         NEW x \in Requests, x \notin DOMAIN local
  PROVE  Same(x)
BY LocalTypes DEF Disturb, Same, Locals

LEMMA BeginIsCalm ==
  ASSUME TypeInv, NEW q \in Requests, NEW local \in Locals, Begin(q, local),
         local.step \notin ExchangeSteps, local.on \notin Keys \/ keys[local.on] # NoKey
  PROVE  Calm
<1>1. \A x \in Requests : x # q => Same(x)
  BY DisturbedStay DEF Begin
<1>2. request'[q].step = local.step /\ request'[q].on = local.on
  BY DEF Begin, Disturb, Locals
<1> QED
  BY <1>1, <1>2 DEF Calm, Leaves

LEMMA SingleIsCalm ==
  ASSUME TypeInv, NEW changes, Single(changes)
  PROVE  Calm
BY DisturbedStay DEF Single, Calm

\* A step that no exchange takes.
LEMMA CalmStep ==
  ASSUME KeyInv, TypeInv', Calm, KeysStay
  PROVE  ExchangeInv' /\ \A t \in Tokens : Counted(t) \subseteq Counted(t)'
<1> USE DEF KeyInv
<1>1. ASSUME NEW q \in Requests, At(q, "insert_key")'
      PROVE  /\ keys'[request'[q].on] = NoKey
             /\ \A x \in Requests : x # q => request'[x].on # request'[q].on
  <2>1. Same(q) /\ At(q, "insert_key") /\ request[q].on \in Keys
    BY <1>1, LocalTypes DEF Calm, Leaves, Same, At, ExchangeSteps, KeySteps, Fits
  <2>2. keys'[request'[q].on] = NoKey
    BY <2>1 DEF KeysStay, Same, ExchangeInv
  <2>3. ASSUME NEW x \in Requests, x # q
        PROVE  request'[x].on # request'[q].on
    BY <2>1, <2>3 DEF Calm, Same, Leaves, ExchangeInv
  <2> QED
    BY <2>2, <2>3
<1>2. \A q \in Requests : Exchanges(q)' => Same(q) /\ Exchanges(q)
  BY DEF Calm, Same, Leaves, Exchanges
<1>3. ASSUME NEW q \in Requests, request'[q].step \in CountSteps
      PROVE  keys'[request'[q].on].token = request'[q].token
  <2>1. Same(q) /\ request[q].step \in CountSteps /\ request[q].on \in Keys
    BY <1>2, <1>3, LocalTypes DEF Same, Exchanges, CountSteps, ExchangeSteps, KeySteps, Fits
  <2> QED
    BY <2>1 DEF KeysStay, Same, ExchangeInv
<1>4. ExchangeInv'
  BY <1>1, <1>2, <1>3 DEF ExchangeInv, Same
<1>5. \A t \in Tokens : Counted(t) \subseteq Counted(t)'
  BY <1>2 DEF Counted, KeysStay, Same, Exchanges, CountSteps, ExchangeSteps
<1> QED
  BY <1>4, <1>5

LEMMA CountedIsFinite ==
  /\ \A t : IsFiniteSet(Counted(t)) /\ IsFiniteSet(Counted(t)')
  /\ \A t : Cardinality(Counted(t)) \in Nat /\ Cardinality(Counted(t)') \in Nat
<1>1. ASSUME NEW t
      PROVE  /\ IsFiniteSet(Counted(t)) /\ IsFiniteSet(Counted(t)')
             /\ Cardinality(Counted(t)) \in Nat /\ Cardinality(Counted(t)') \in Nat
  <2>1. Counted(t) \subseteq Keys /\ Counted(t)' \subseteq Keys
    BY DEF Counted
  <2>2. IsFiniteSet(Counted(t)) /\ IsFiniteSet(Counted(t)')
    BY <2>1, FS_Subset, AccessControlConstants
  <2> QED
    BY <2>2, FS_CardinalityType
<1> QED
  BY <1>1

LEMMA CountedGrows ==
  ASSUME NEW t, Counted(t) \subseteq Counted(t)'
  PROVE  Cardinality(Counted(t)) <= Cardinality(Counted(t)')
BY CountedIsFinite, FS_Subset

LEMMA KeysUnchanged ==
  ASSUME keys' = keys
  PROVE  KeysStay
BY DEF KeysStay

\* The requests that change no key.
LEMMA TableRequestsAreCalm ==
  ASSUME TypeInv, NEW q \in Requests, UserRequest(q) \/ RoleRequest(q) \/ PermissionRequest(q)
  PROVE  Calm /\ UNCHANGED <<keys, used>>
<1> USE DEF UserSteps, RoleSteps, PermissionSteps, EnableSteps, KeySteps, ExchangeSteps
<1>1. UNCHANGED <<keys, used>>
  BY DEF UserRequest, SyncUserRoles, CreateAdmin, ClearRoles, InsertRole, ReadCodes, ApplyUser,
         RoleRequest, SyncRolePermissions, ClearPermissions, InsertPermission, ReadRoutes,
         ApplyRole, Disable, Enable, DropRole, ReadRole, ApplyEnabled, FindHolders, ReadHolder,
         ApplyHolder, EndEnable, PermissionRequest, DeletePermission, RevokeRoute, tables
<1>2. request[q] \in Locals
  BY LocalTypes
<1>3. CASE ApplyUser(q) \/ ApplyRole(q) \/ DropRole(q) \/ EndEnable(q) \/ RevokeRoute(q)
  BY <1>1, <1>3, EndIsCalm DEF ApplyUser, ApplyRole, DropRole, EndEnable, RevokeRoute
<1>4. CASE ClearRoles(q) \/ InsertRole(q) \/ ReadCodes(q)
  BY <1>1, <1>2, <1>4, GoIsCalm DEF ClearRoles, InsertRole, ReadCodes, Step, At, Locals
<1>5. CASE ClearPermissions(q) \/ InsertPermission(q) \/ ReadRoutes(q)
  BY <1>1, <1>2, <1>5, GoIsCalm DEF ClearPermissions, InsertPermission, ReadRoutes, Step, At, Locals
<1>6. CASE ReadRole(q) \/ ApplyEnabled(q) \/ FindHolders(q) \/ ReadHolder(q) \/ ApplyHolder(q)
  BY <1>1, <1>2, <1>6, GoIsCalm
     DEF ReadRole, ApplyEnabled, FindHolders, ReadHolder, ApplyHolder, Step, At, Locals
<1>7. ASSUME NEW u \in Users, NEW wanted \in SUBSET Roles, SyncUserRoles(q, u, wanted)
      PROVE  Calm
  <2>1. [New("clear_roles", u) EXCEPT !.want = wanted] \in Locals
    BY <1>7 DEF New, Idle, Locals, Steps
  <2> QED
    BY <1>7, <2>1, BeginIsCalm, AccessControlConstants DEF SyncUserRoles, New, Idle
<1>8. ASSUME NEW u \in Users, NEW wanted \in SUBSET Roles, CreateAdmin(q, u, wanted)
      PROVE  Calm
  <2> DEFINE local == [New("apply_user", u) EXCEPT !.got = {roles[r].code : r \in wanted}]
  <2>1. {roles[r].code : r \in wanted} \subseteq Codes
    BY DEF TypeInv, TypeOK
  <2>2. local \in Locals
    BY <1>8, <2>1 DEF New, Idle, Locals, Steps
  <2> QED
    BY <1>8, <2>2, BeginIsCalm, AccessControlConstants DEF CreateAdmin, New, Idle
<1>9. ASSUME NEW r \in Roles, NEW wanted \in SUBSET Permissions, SyncRolePermissions(q, r, wanted)
      PROVE  Calm
  <2> DEFINE local == [New("clear_permissions", r) EXCEPT !.want = wanted, !.code = roles[r].code]
  <2>1. local \in Locals
    BY <1>9 DEF New, Idle, Locals, Steps, TypeInv, TypeOK
  <2> QED
    BY <1>9, <2>1, BeginIsCalm, AccessControlConstants DEF SyncRolePermissions, New, Idle
<1>10. ASSUME NEW r \in Roles, Disable(q, r)
       PROVE  Calm
  <2>1. [New("drop_role", r) EXCEPT !.code = roles[r].code] \in Locals
    BY <1>10 DEF New, Idle, Locals, Steps, TypeInv, TypeOK
  <2> QED
    BY <1>10, <2>1, BeginIsCalm, AccessControlConstants DEF Disable, New, Idle
<1>11. ASSUME NEW r \in Roles, Enable(q, r)
       PROVE  Calm
  <2>1. [New("read_role", r) EXCEPT !.code = roles[r].code] \in Locals
    BY <1>11 DEF New, Idle, Locals, Steps, TypeInv, TypeOK
  <2> QED
    BY <1>11, <2>1, BeginIsCalm, AccessControlConstants DEF Enable, New, Idle
<1>12. ASSUME NEW p \in Permissions, DeletePermission(q, p)
       PROVE  Calm
  <2>1. {perms[p].route} \subseteq Routes
    BY DEF TypeInv, TypeOK
  <2>2. [New("drop_route", p) EXCEPT !.got = {perms[p].route}] \in Locals
    BY <2>1 DEF New, Idle, Locals, Steps
  <2> QED
    BY <1>12, <2>2, BeginIsCalm, AccessControlConstants DEF DeletePermission, New, Idle
<1> QED
  BY <1>1, <1>3, <1>4, <1>5, <1>6, <1>7, <1>8, <1>9, <1>10, <1>11, <1>12
     DEF UserRequest, RoleRequest, PermissionRequest

LEMMA SinglesAreCalm ==
  ASSUME TypeInv, SingleRequest
  PROVE  Calm /\ UNCHANGED <<keys, used>>
BY SingleIsCalm DEF SingleRequest, UpdateRole, UpdatePermission, RestorePermission

LEMMA FailuresAreCalm ==
  ASSUME TypeInv, NEW q \in Requests, Stops(q) \/ StopsHalfway(q)
  PROVE  Calm /\ UNCHANGED <<keys, used>>
BY EndIsCalm DEF Stops, StopsHalfway, tables

\* A change of a key's role, its revocation, and what ends a request about a key.
LEMMA KeyChangesAreCalm ==
  ASSUME KeyInv, NEW q \in Requests,
         \/ \E k \in Keys : (\E r \in Roles : ChangeRole(q, k, r)) \/ Revoke(q, k)
         \/ WriteKey(q) \/ ApplyKey(q) \/ DropKey(q)
  PROVE  Calm /\ KeysStay /\ UNCHANGED used
<1> USE DEF KeyInv, KeySteps, ExchangeSteps
<1>1. request[q] \in Locals /\ Fits(request[q])
  BY LocalTypes
<1>2. CASE ApplyKey(q) \/ DropKey(q)
  BY <1>2, EndIsCalm, KeysUnchanged DEF ApplyKey, DropKey, tables
<1>3. ASSUME NEW k \in Keys, NEW r \in Roles, ChangeRole(q, k, r)
      PROVE  Calm /\ KeysStay /\ UNCHANGED used
  <2>1. [New("write_key", k) EXCEPT !.role = r, !.code = roles[r].code] \in Locals
    BY <1>3 DEF New, Idle, Locals, Steps, TypeInv, TypeOK
  <2>2. keys[k].role # Nil /\ NoKey.role = Nil
    BY <1>3 DEF ChangeRole, NoKey
  <2>3. keys[k] # NoKey
    BY <2>2
  <2>4. Calm
    BY <1>3, <2>1, <2>3, BeginIsCalm DEF ChangeRole, New, Idle
  <2> QED
    BY <1>3, <2>4, KeysUnchanged DEF ChangeRole, tables
<1>4. ASSUME NEW k \in Keys, Revoke(q, k)
      PROVE  Calm /\ KeysStay /\ UNCHANGED used
  <2>1. New("drop_key", k) \in Locals
    BY <1>4 DEF New, Idle, Locals, Steps
  <2>2. keys[k] # NoKey
    BY <1>4 DEF Revoke, NoKey
  <2>3. Calm
    BY <1>4, <2>1, <2>2, BeginIsCalm DEF Revoke, New, Idle
  <2>4. \A z \in Requests : At(z, "insert_key") => request[z].on # k
    BY <2>2 DEF ExchangeInv
  <2>5. KeysStay
    BY <1>4, <2>4, LocalTypes DEF Revoke, KeysStay, TypeInv, TypeOK, At, Fits
  <2> QED
    BY <1>4, <2>3, <2>5 DEF Revoke
<1>5. CASE WriteKey(q)
  <2>1. Calm
    BY <1>1, <1>5, GoIsCalm DEF WriteKey, Step, At, Locals
  <2>2. \A z \in Requests : At(z, "insert_key") => request[z].on # request[q].on
    BY <1>5 DEF ExchangeInv, WriteKey, Step, At
  <2>3. KeysStay
    BY <1>1, <1>5, <2>2, LocalTypes DEF WriteKey, Step, KeysStay, TypeInv, TypeOK, At, Fits
  <2> QED
    BY <1>5, <2>1, <2>3 DEF WriteKey
<1> QED
  BY <1>2, <1>3, <1>4, <1>5

LEMMA CalmKeyStep ==
  ASSUME KeyInv, TypeInv', Calm, KeysStay, UNCHANGED used
  PROVE  KeyInv'
<1>1. ExchangeInv' /\ \A t \in Tokens : Cardinality(Counted(t)) <= Cardinality(Counted(t)')
  BY CalmStep, CountedGrows
<1>2. ASSUME NEW t \in Tokens
      PROVE  used'[t] <= Cardinality(Counted(t)')
  BY <1>1, CountedIsFinite DEF KeyInv, UsesInv, TypeInv, TypeOK
<1>3. ASSUME NEW q \in Requests, At(q, "write_usage")', NEW t, t = request'[q].token
      PROVE  request'[q].count <= Cardinality(Counted(t)')
  <2>1. Same(q) /\ At(q, "write_usage")
    BY <1>3 DEF Calm, Same, Leaves, At, ExchangeSteps
  <2>2. request[q].token \in Tokens /\ request[q].count \in Nat
    BY <2>1, LocalTypes DEF KeyInv, At, ExchangeSteps, KeySteps, Fits, Locals
  <2>3. t = request[q].token
    BY <1>3, <2>1 DEF Same
  <2>4. request[q].count <= Cardinality(Counted(t))
    BY <2>1, <2>3 DEF KeyInv, UsesInv
  <2> QED
    BY <1>1, <2>1, <2>2, <2>3, <2>4, CountedIsFinite DEF Same
<1>4. UsesInv'
  BY <1>2, <1>3 DEF UsesInv
<1> QED
  BY <1>1, <1>4 DEF KeyInv

LEMMA ExchangeStep ==
  ASSUME KeyInv, TypeInv', NEW q \in Requests, NEW t \in Tokens, NEW k \in Keys, Exchange(q, t, k)
  PROVE  KeyInv'
<1> USE DEF KeyInv
<1> DEFINE r == TokenRole[t]
           local == [New("insert_key", k) EXCEPT !.role = r, !.code = roles[r].code, !.token = t]
<1>1. local \in Locals
  BY AccessControlConstants DEF New, Idle, Locals, Steps, TypeInv, TypeOK
<1>2. \A x \in Requests : x # q => Same(x)
  BY DisturbedStay DEF Exchange, Begin
<1>3. request'[q].step = "insert_key" /\ request'[q].on = k
  BY <1>1 DEF Exchange, Begin, Disturb, New, Idle, Locals
<1>4. keys[k] = NoKey /\ UNCHANGED <<keys, used>>
  BY DEF Exchange, tables
<1>5. ASSUME NEW x \in Requests, x # q
      PROVE  request[x].on # k
  <2>1. CASE ~At(x, "idle")
    BY <2>1 DEF Exchange, InFlight
  <2>2. CASE At(x, "idle")
    BY <2>2, LocalTypes, AccessControlConstants DEF At, Fits, Idle
  <2> QED
    BY <2>1, <2>2
<1>6. ExchangeInv'
  BY <1>2, <1>3, <1>4, <1>5 DEF ExchangeInv, Exchanges, At, Same, CountSteps
<1>7. \A x \in Requests : request'[x].step \in CountSteps => Same(x) /\ request[x].step \in CountSteps
  BY <1>2, <1>3 DEF CountSteps, Same
<1>8. \A s \in Tokens : Counted(s) \subseteq Counted(s)'
  BY <1>4, <1>7 DEF Counted, Same
<1>9. UsesInv'
  <2>1. \A s \in Tokens : used[s] <= Cardinality(Counted(s)')
    BY <1>8, CountedGrows, CountedIsFinite DEF UsesInv, TypeInv, TypeOK
  <2>2. ASSUME NEW x \in Requests, At(x, "write_usage")', NEW s, s = request'[x].token
        PROVE  request'[x].count <= Cardinality(Counted(s)')
    <3>1. Same(x) /\ At(x, "write_usage")
      BY <1>7, <2>2 DEF At, CountSteps, Same
    <3>2. s \in Tokens /\ s = request[x].token /\ request[x].count \in Nat
      BY <2>2, <3>1, LocalTypes DEF Same, At, ExchangeSteps, KeySteps, Fits, Locals
    <3> QED
      BY <1>8, <3>1, <3>2, CountedGrows, CountedIsFinite DEF UsesInv, Same
  <2> QED
    BY <1>4, <2>1, <2>2 DEF UsesInv
<1> QED
  BY <1>6, <1>9

\* What the three steps of an exchange have in common.
LEMMA InExchange ==
  ASSUME TypeInv, NEW q \in Requests, NEW local \in Locals, Go(q, local)
  PROVE  request'[q] = local /\ \A x \in Requests : x # q => Same(x)
BY DEF TypeInv, TypeOK, Go, Same

LEMMA InsertKeyStep ==
  ASSUME KeyInv, TypeInv', NEW q \in Requests, InsertKey(q)
  PROVE  KeyInv'
<1> USE DEF KeyInv
<1>1. /\ request[q] \in Locals /\ At(q, "insert_key")
      /\ request[q].on \in Keys /\ request[q].token \in Tokens
  BY LocalTypes DEF InsertKey, Step, At, Fits, ExchangeSteps, KeySteps
<1> DEFINE k == request[q].on
           local == [request[q] EXCEPT !.step = "read_usage"]
<1>2. /\ local \in Locals /\ local.step = "read_usage"
      /\ local.on = k /\ local.token = request[q].token
  BY <1>1 DEF Locals, Steps
<1>2a. request'[q] = local /\ \A x \in Requests : x # q => Same(x)
  BY <1>2, InExchange DEF InsertKey, Step
<1>3. /\ request'[q].step = "read_usage"
      /\ request'[q].on = k /\ request'[q].token = request[q].token
      /\ \A x \in Requests : x # q => Same(x)
  BY <1>2, <1>2a
<1> HIDE DEF local
<1>4. keys[k] = NoKey /\ \A x \in Requests : x # q => request[x].on # k
  BY <1>1 DEF ExchangeInv
<1>5. /\ keys'[k].token = request[q].token
      /\ \A c \in Keys : c # k => keys'[c] = keys[c]
      /\ used' = used
  BY <1>1 DEF InsertKey, TypeInv, TypeOK
<1>6. \A x \in Requests : x # q /\ (Exchanges(x) \/ Exchanges(x)') => request[x].on \in Keys \ {k}
  BY <1>3, <1>4, LocalTypes DEF Same, Exchanges, KeySteps, Fits
<1>7. ExchangeInv'
  <2>1. ASSUME NEW x \in Requests, At(x, "insert_key")'
        PROVE  /\ keys'[request'[x].on] = NoKey
               /\ \A y \in Requests : y # x => request'[y].on # request'[x].on
    <3>1. x # q /\ At(x, "insert_key") /\ request[x].on \in Keys \ {k}
      BY <1>3, <1>6, <2>1 DEF At, Same, Exchanges, ExchangeSteps
    <3>2. request'[x].on = request[x].on
      BY <1>3, <3>1 DEF Same
    <3>3. keys'[request[x].on] = NoKey
      BY <1>5, <3>1 DEF ExchangeInv
    <3>4. ASSUME NEW y \in Requests, y # x
          PROVE  request'[y].on # request'[x].on
      <4>1. CASE y = q
        BY <1>3, <3>1, <3>2, <4>1
      <4>2. CASE y # q
        BY <1>3, <3>1, <3>2, <3>4, <4>2 DEF ExchangeInv, Same
      <4> QED
        BY <4>1, <4>2
    <3> QED
      BY <3>2, <3>3, <3>4
  <2>2. ASSUME NEW x \in Requests, request'[x].step \in CountSteps
        PROVE  keys'[request'[x].on].token = request'[x].token
    <3>1. CASE x = q
      BY <1>3, <1>5, <3>1
    <3>2. CASE x # q
      BY <1>3, <1>5, <1>6, <2>2, <3>2
         DEF ExchangeInv, Same, CountSteps, Exchanges, ExchangeSteps
    <3> QED
      BY <3>1, <3>2
  <2>3. ASSUME NEW x \in Requests, NEW y \in Requests, Exchanges(x)', Exchanges(y)',
               request'[x].on = request'[y].on
        PROVE  x = y
    <3>1. CASE x = q \/ y = q
      <4>1. \A z \in Requests : z # q => request'[z].on # k
        BY <1>3, <1>4 DEF Same
      <4> QED
        BY <1>3, <2>3, <3>1, <4>1
    <3>2. CASE x # q /\ y # q
      BY <1>3, <2>3, <3>2 DEF ExchangeInv, Same, Exchanges
    <3> QED
      BY <3>1, <3>2
  <2> QED
    BY <2>1, <2>2, <2>3 DEF ExchangeInv
<1>8. \A s \in Tokens : Counted(s) \subseteq Counted(s)'
  <2>1. NoKey.token \notin Tokens
    BY AccessControlConstants DEF NoKey
  <2>2. ASSUME NEW s \in Tokens, NEW c \in Counted(s)
        PROVE  c \in Counted(s)'
    <3>1. c \in Keys /\ keys[c].token = s /\ c # k
      BY <1>4, <2>1, <2>2 DEF Counted
    <3>2. \A x \in Requests : request'[x].step \in CountSteps => request'[x].on # c
      BY <1>3, <2>2, <3>1 DEF Counted, Same, CountSteps
    <3> QED
      BY <1>5, <3>1, <3>2 DEF Counted
  <2> QED
    BY <2>2
<1>9. UsesInv'
  <2>1. \A s \in Tokens : used[s] <= Cardinality(Counted(s)')
    BY <1>8, CountedGrows, CountedIsFinite DEF UsesInv, TypeInv, TypeOK
  <2>2. ASSUME NEW x \in Requests, At(x, "write_usage")', NEW s, s = request'[x].token
        PROVE  request'[x].count <= Cardinality(Counted(s)')
    <3>1. Same(x) /\ At(x, "write_usage")
      BY <1>3, <2>2 DEF At, Same
    <3>2. s \in Tokens /\ s = request[x].token /\ request[x].count \in Nat
      BY <2>2, <3>1, LocalTypes DEF Same, At, ExchangeSteps, KeySteps, Fits, Locals
    <3> QED
      BY <1>8, <3>1, <3>2, CountedGrows, CountedIsFinite DEF UsesInv, Same
  <2> QED
    BY <1>5, <2>1, <2>2 DEF UsesInv
<1> QED
  BY <1>7, <1>9

LEMMA ReadUsageStep ==
  ASSUME KeyInv, TypeInv', NEW q \in Requests, ReadUsage(q)
  PROVE  KeyInv'
<1> USE DEF KeyInv
<1>1. /\ request[q] \in Locals /\ At(q, "read_usage")
      /\ request[q].token \in Tokens /\ used[request[q].token] \in Nat
  BY LocalTypes DEF ReadUsage, At, Fits, ExchangeSteps, KeySteps, TypeInv, TypeOK
<1> DEFINE local == [request[q] EXCEPT !.step = "write_usage", !.count = used[request[q].token]]
<1>2. /\ local \in Locals /\ local.step = "write_usage" /\ local.on = request[q].on
      /\ local.token = request[q].token /\ local.count = used[request[q].token]
  BY <1>1 DEF Locals, Steps
<1>2a. request'[q] = local /\ \A x \in Requests : x # q => Same(x)
  BY <1>2, InExchange DEF ReadUsage
<1>3. /\ request'[q].step = "write_usage"
      /\ request'[q].count = used[request[q].token]
      /\ \A x \in Requests : /\ x # q => Same(x)
                             /\ request'[x].on = request[x].on
                             /\ request'[x].token = request[x].token
  BY <1>2, <1>2a DEF Same
<1> HIDE DEF local
<1>4. UNCHANGED <<keys, used>>
  BY DEF ReadUsage, tables
<1>5. \A x \in Requests : /\ Exchanges(x)' <=> Exchanges(x)
                          /\ At(x, "insert_key")' <=> At(x, "insert_key")
                          /\ request'[x].step \in CountSteps <=> request[x].step \in CountSteps
  BY <1>1, <1>3 DEF Exchanges, At, Same, ExchangeSteps, CountSteps
<1>6. ExchangeInv'
  BY <1>3, <1>4, <1>5 DEF ExchangeInv
<1>7. \A s : Counted(s)' = Counted(s)
  BY <1>3, <1>4, <1>5 DEF Counted
<1>8. ASSUME NEW x \in Requests, At(x, "write_usage")', NEW s, s = request'[x].token
      PROVE  request'[x].count <= Cardinality(Counted(s)')
  <2>1. CASE x = q
    BY <1>1, <1>3, <1>7, <1>8, <2>1 DEF UsesInv
  <2>2. CASE x # q
    BY <1>3, <1>7, <1>8, <2>2 DEF UsesInv, Same, At
  <2> QED
    BY <2>1, <2>2
<1>9. UsesInv'
  BY <1>4, <1>7, <1>8 DEF UsesInv
<1> QED
  BY <1>6, <1>9

\* What WriteUsage counts it has not counted before.
LEMMA WriteUsageStep ==
  ASSUME KeyInv, TypeInv', NEW q \in Requests, WriteUsage(q)
  PROVE  KeyInv'
<1> USE DEF KeyInv
<1>1. /\ request[q] \in Locals /\ Fits(request[q]) /\ At(q, "write_usage")
  BY LocalTypes DEF WriteUsage, Step
<1>1a. PICK t \in Tokens, k \in Keys : t = request[q].token /\ k = request[q].on
  BY <1>1 DEF At, Fits, ExchangeSteps, KeySteps
<1> DEFINE local == [request[q] EXCEPT !.step = "apply_key"]
<1>2. request[q].count \in Nat /\ used[t] \in Nat
  BY <1>1 DEF Locals, TypeInv, TypeOK
<1>3. /\ local.step = "apply_key" /\ local.on = k /\ local.step \notin ExchangeSteps
      /\ Go(q, local)
  BY <1>1, <1>1a DEF Locals, ExchangeSteps, WriteUsage, Step
<1>4. Calm /\ KeysStay /\ keys' = keys
  BY <1>1a, <1>3, GoIsCalm, KeysUnchanged DEF WriteUsage
<1>5. request'[q].step = "apply_key" /\ \A x \in Requests : x # q => Same(x)
  BY <1>3 DEF Go, TypeInv, TypeOK, Same
<1> HIDE DEF local
<1>6. ExchangeInv' /\ \A s \in Tokens : Counted(s) \subseteq Counted(s)'
  BY <1>4, CalmStep
<1>7. used' = [used EXCEPT ![t] = request[q].count + 1]
  BY <1>1a DEF WriteUsage
<1>8. k \in Counted(t)' /\ k \notin Counted(t)
  <2>1. \A x \in Requests : x # q /\ Exchanges(x) => request[x].on # k
    BY <1>1, <1>1a DEF ExchangeInv, Exchanges, At, ExchangeSteps
  <2>2. \A x \in Requests : request'[x].step \in CountSteps => request'[x].on # k
    BY <1>5, <2>1 DEF Same, CountSteps, Exchanges, ExchangeSteps
  <2>3. keys'[k].token = t
    BY <1>1, <1>1a, <1>4 DEF ExchangeInv, At, CountSteps
  <2> QED
    BY <1>1, <1>1a, <2>2, <2>3 DEF Counted, At, CountSteps
<1>9. Cardinality(Counted(t)) + 1 <= Cardinality(Counted(t)')
  <2>1. Cardinality(Counted(t) \cup {k}) = Cardinality(Counted(t)) + 1
    BY <1>8, CountedIsFinite, FS_AddElement
  <2>2. Counted(t) \cup {k} \subseteq Counted(t)'
    BY <1>2, <1>6, <1>8
  <2> QED
    BY <2>1, <2>2, CountedIsFinite, FS_Subset
<1>10. \A s \in Tokens : Cardinality(Counted(s)) <= Cardinality(Counted(s)')
  BY <1>6, CountedGrows
<1>11. ASSUME NEW s \in Tokens
       PROVE  used'[s] <= Cardinality(Counted(s)')
  <2>1. CASE s = t
    BY <1>1, <1>1a, <1>2, <1>7, <1>9, <2>1, CountedIsFinite DEF UsesInv, TypeInv, TypeOK
  <2>2. CASE s # t
    BY <1>7, <1>10, <2>2, CountedIsFinite DEF UsesInv, TypeInv, TypeOK
  <2> QED
    BY <2>1, <2>2
<1>12. ASSUME NEW x \in Requests, At(x, "write_usage")', NEW s, s = request'[x].token
       PROVE  request'[x].count <= Cardinality(Counted(s)')
  <2>1. Same(x) /\ At(x, "write_usage")
    BY <1>5, <1>12 DEF Same, At
  <2>2. s \in Tokens /\ s = request[x].token /\ request[x].count \in Nat
    BY <1>12, <2>1, LocalTypes DEF Same, At, ExchangeSteps, KeySteps, Fits, Locals
  <2> QED
    BY <1>10, <2>1, <2>2, CountedIsFinite DEF UsesInv, Same
<1>13. UsesInv'
  BY <1>11, <1>12 DEF UsesInv
<1> QED
  BY <1>6, <1>13

LEMMA KeyStep ==
  ASSUME KeyInv, [Next]_vars
  PROVE  KeyInv'
<1>1. TypeInv'
  BY TypeStep DEF KeyInv
<1>2. CASE UNCHANGED vars
  <2>1. \A s : Counted(s)' = Counted(s)
    BY <1>2 DEF vars, tables, Counted
  <2> QED
    BY <1>1, <1>2, <2>1
       DEF KeyInv, vars, tables, ExchangeInv, Exchanges, UsesInv, At
<1>3. ASSUME NEW q \in Requests, UserRequest(q) \/ RoleRequest(q) \/ PermissionRequest(q)
      PROVE  KeyInv'
  BY <1>1, <1>3, TableRequestsAreCalm, KeysUnchanged, CalmKeyStep DEF KeyInv
<1>4. CASE SingleRequest
  BY <1>1, <1>4, SinglesAreCalm, KeysUnchanged, CalmKeyStep DEF KeyInv
<1>5. ASSUME NEW q \in Requests, Stops(q) \/ StopsHalfway(q)
      PROVE  KeyInv'
  BY <1>1, <1>5, FailuresAreCalm, KeysUnchanged, CalmKeyStep DEF KeyInv
<1>6. ASSUME NEW q \in Requests, KeyRequest(q)
      PROVE  KeyInv'
  BY <1>1, <1>6, KeyChangesAreCalm, CalmKeyStep, ExchangeStep, InsertKeyStep, ReadUsageStep,
     WriteUsageStep DEF KeyRequest
<1> QED
  BY <1>2, <1>3, <1>4, <1>5, <1>6 DEF Next

LEMMA KeyInit ==
  ASSUME Init
  PROVE  KeyInv
<1>1. TypeInv /\ used = [t \in Tokens |-> 0] /\ \A q \in Requests : request[q] = Idle
  BY InitTypes DEF Init
<1>2. Idle.step = "idle"
  BY DEF Idle
<1>3. ExchangeInv
  BY <1>1, <1>2 DEF ExchangeInv, Exchanges, At, ExchangeSteps, CountSteps
<1>4. UsesInv
  BY <1>1, <1>2, CountedIsFinite DEF UsesInv, At
<1> QED
  BY <1>1, <1>3, <1>4 DEF KeyInv

LEMMA KeysAreKept == Spec => []KeyInv
BY KeyInit, KeyStep, PTL DEF Spec

\* An exchange counts a use of its token when the key is there, and no other request can take the
\* key for its own, however exchanges, failures and changes of keys interleave: the uses counted
\* never exceed the keys.
THEOREM UsesBelongToKeys == Spec => []UsesAreKeys
<1>1. KeyInv => UsesAreKeys
  <2> SUFFICES ASSUME KeyInv, NEW t \in Tokens
               PROVE  used[t] <= Cardinality({k \in Keys : keys[k].token = t})
    BY DEF UsesAreKeys
  <2> DEFINE issued == {k \in Keys : keys[k].token = t}
  <2>1. IsFiniteSet(issued) /\ Counted(t) \subseteq issued
    BY FS_Subset, AccessControlConstants DEF Counted
  <2>2. Cardinality(Counted(t)) <= Cardinality(issued) /\ Cardinality(issued) \in Nat
    BY <2>1, FS_Subset, FS_CardinalityType
  <2> QED
    BY <2>2, CountedIsFinite DEF KeyInv, UsesInv, TypeInv, TypeOK
<1> QED
  BY <1>1, KeysAreKept, PTL

\* No request gives a revoked key back: what a change of its role read before the revocation it
\* does not write, and an exchange inserts only a key that nobody has.
THEOREM RevocationsLast == Spec => RevokedForGood
<1>1. ASSUME KeyInv, [Next]_vars
      PROVE  [\A k \in Keys : keys[k].revoked => keys'[k].revoked]_vars
  <2> SUFFICES ASSUME Next, NEW k \in Keys, keys[k].revoked
               PROVE  keys'[k].revoked
    BY <1>1
  <2> USE <1>1 DEF KeyInv
  <2>1. ASSUME NEW q \in Requests, UserRequest(q) \/ RoleRequest(q) \/ PermissionRequest(q)
        PROVE  keys'[k].revoked
    BY <2>1, TableRequestsAreCalm
  <2>2. CASE SingleRequest
    BY <2>2, SinglesAreCalm
  <2>3. ASSUME NEW q \in Requests, Stops(q) \/ StopsHalfway(q)
        PROVE  keys'[k].revoked
    BY <2>3, FailuresAreCalm
  <2>4. ASSUME NEW q \in Requests, InsertKey(q)
        PROVE  keys'[k].revoked
    <3>1. k # request[q].on
      BY <2>4 DEF InsertKey, Step, ExchangeInv, NoKey
    <3> QED
      BY <2>4, <3>1 DEF InsertKey, TypeInv, TypeOK
  <2>5. ASSUME NEW q \in Requests, KeyRequest(q), ~InsertKey(q)
        PROVE  keys'[k].revoked
    <3>1. \/ keys' = keys
          \/ \E c \in Keys : keys' = [keys EXCEPT ![c].revoked = TRUE]
          \/ keys' = [keys EXCEPT ![request[q].on].role = request[q].role]
      BY <2>5 DEF KeyRequest, Exchange, ChangeRole, Revoke, ReadUsage, WriteUsage, WriteKey,
                  ApplyKey, DropKey, tables
    <3> QED
      BY <3>1 DEF TypeInv, TypeOK
  <2> QED
    BY <2>1, <2>2, <2>3, <2>4, <2>5 DEF Next
<1> QED
  BY <1>1, KeysAreKept, PTL DEF Spec, RevokedForGood

----------------------------------------------------------------------------
(* What a request that runs alone has read is still so *)

Alone == \A q \in Requests : request[q].alone => InFlight = {q}

\* A user that a request is about exists, and a user that does not has no roles.
Existing ==
  /\ \A q \in Requests : request[q].on \in Users => request[q].on \in users
  /\ \A u \in Users \ users : holds[u] = {}

Distinct ==
  /\ \A r, s \in Roles : roles[r].code = roles[s].code => r = s
  /\ \A p, s \in Permissions : perms[p].route = perms[s].route => p = s

Fresh(q) ==
  LET local == request[q]
  IN /\ local.step = "apply_user" => local.got = UserCodes(local.on)
     /\ local.step \in RoleSteps => local.code = roles[local.on].code
     /\ local.step \in {"apply_role", "apply_enabled"} => local.got = RoleRoutes(local.on)
     /\ local.step = "drop_role" => ~roles[local.on].active
     /\ local.step \in {"read_holder", "apply_holder"} => local.want \subseteq Holders(local.on)
     /\ local.step = "apply_holder" =>
          local.holder \in Holders(local.on) /\ local.got = UserCodes(local.holder)
     /\ local.step = "drop_route" =>
          local.got = {perms[local.on].route} /\ perms[local.on].deleted
     /\ local.step \in KeySteps \ {"drop_key"} => local.code = roles[local.role].code
     /\ local.step \in {"read_usage", "write_usage", "apply_key"} =>
          keys[local.on].role = local.role
     /\ local.step = "drop_key" => keys[local.on].revoked

FlightInv ==
  /\ TypeInv /\ Alone /\ Existing /\ Distinct
  /\ \A q \in Requests : request[q].alone => Fresh(q)

\* The locals of a request that another one's beginning does not change.
Goes(q, local) ==
  /\ request'[q].step = local.step /\ request'[q].on = local.on /\ request'[q].code = local.code
  /\ request'[q].role = local.role /\ request'[q].want = local.want /\ request'[q].got = local.got
  /\ request'[q].holder = local.holder

LEMMA DisturbedGo ==
  ASSUME TypeInv, NEW local, NEW others, NEW changes, Disturb(local, others, changes),
         NEW x \in Requests, x \notin DOMAIN local
  PROVE  Goes(x, request[x]) /\ ~request'[x].alone
BY LocalTypes DEF Disturb, Goes, Locals

LEMMA Begun ==
  ASSUME TypeInv, NEW q \in Requests, NEW local \in Locals, Begin(q, local)
  PROVE  /\ Goes(q, local) /\ request'[q].alone = (InFlight = {})
         /\ \A x \in Requests : x # q => Goes(x, request[x]) /\ ~request'[x].alone
<1>1. \A x \in Requests : x # q => Goes(x, request[x]) /\ ~request'[x].alone
  BY DisturbedGo DEF Begin
<1>2. Goes(q, local) /\ request'[q].alone = (InFlight = {})
  BY DEF Begin, Disturb, Goes, Locals
<1> QED
  BY <1>1, <1>2

LEMMA Gone ==
  ASSUME TypeInv, NEW q \in Requests, NEW local \in Locals, Go(q, local)
  PROVE  /\ request'[q] = local
         /\ \A x \in Requests : x # q => request'[x] = request[x]
         /\ UNCHANGED <<made, unsettled>>
BY DEF TypeInv, TypeOK, Go

LEMMA Ended ==
  ASSUME TypeInv, NEW q \in Requests, NEW settled, NEW left, End(q, settled, left)
  PROVE  /\ request'[q] = Idle
         /\ \A x \in Requests : x # q => request'[x] = request[x]
         /\ unsettled' = IF request[q].alone THEN (unsettled \ settled) \cup left ELSE unsettled
BY DEF TypeInv, TypeOK, End

LEMMA IdleIsNotAlone ==
  ASSUME TypeInv, NEW q \in Requests, At(q, "idle")
  PROVE  ~request[q].alone /\ request[q].on = Nil
BY LocalTypes DEF At, Fits, Idle

\* The four kinds of step, and what they do to the requests in flight.
LEMMA BeginFlight ==
  ASSUME TypeInv, Alone, NEW q \in Requests, NEW local \in Locals, Begin(q, local),
         local.step # "idle"
  PROVE  Alone' /\ InFlight' = InFlight \cup {q}
<1>1. InFlight' = InFlight \cup {q}
  BY Begun DEF InFlight, At, Goes
<1>2. \A x \in Requests : request'[x].alone => x = q /\ InFlight = {}
  BY Begun
<1> QED
  BY <1>1, <1>2 DEF Alone

LEMMA SingleFlight ==
  ASSUME TypeInv, NEW changes, Single(changes)
  PROVE  Alone' /\ InFlight' = InFlight /\ \A x \in Requests : Goes(x, request[x]) /\ ~request'[x].alone
<1>1. \A x \in Requests : Goes(x, request[x]) /\ ~request'[x].alone
  BY DisturbedGo DEF Single
<1> QED
  BY <1>1 DEF Alone, InFlight, At, Goes

LEMMA GoFlight ==
  ASSUME TypeInv, Alone, NEW q \in InFlight, NEW local \in Locals, Go(q, local),
         local.step # "idle", local.alone = request[q].alone
  PROVE  Alone' /\ InFlight' = InFlight
<1>1. q \in Requests
  BY DEF InFlight
<1>2. InFlight' = InFlight
  BY <1>1, Gone DEF InFlight, At
<1>3. \A x \in Requests : request'[x].alone = request[x].alone
  BY <1>1, Gone
<1> QED
  BY <1>2, <1>3 DEF Alone

LEMMA EndFlight ==
  ASSUME TypeInv, Alone, NEW q \in InFlight, NEW settled, NEW left, End(q, settled, left)
  PROVE  Alone' /\ InFlight' = InFlight \ {q} /\ ~request'[q].alone
<1>1. q \in Requests /\ Idle.step = "idle" /\ ~Idle.alone
  BY DEF InFlight, Idle
<1>2. InFlight' = InFlight \ {q}
  BY <1>1, Ended DEF InFlight, At
<1>3. ASSUME NEW x \in Requests, request'[x].alone
      PROVE  FALSE
  <2>1. x # q /\ request[x].alone
    BY <1>1, <1>3, Ended
  <2> QED
    BY <2>1 DEF Alone
<1> QED
  BY <1>1, <1>2, <1>3, Ended DEF Alone

\* Requests other than the one that takes a step are as fresh as they were: when one runs alone,
\* no other can take a step but to begin, and then it does not run alone any longer.
LEMMA OthersFresh ==
  ASSUME FlightInv, NEW q \in Requests, NEW local \in Locals,
         \/ Begin(q, local)
         \/ q \in InFlight /\ Go(q, local)
  PROVE  \A x \in Requests : request'[x].alone => x = q
<1> USE DEF FlightInv
<1>1. CASE Begin(q, local)
  BY <1>1, Begun
<1>2. CASE q \in InFlight /\ Go(q, local)
  BY <1>2, Gone DEF Alone
<1> QED
  BY <1>1, <1>2

\* The locals that requests begin with.
LEMMA UserLocals ==
  ASSUME TypeInv, NEW u \in Users, NEW wanted \in SUBSET Roles
  PROVE  /\ [New("clear_roles", u) EXCEPT !.want = wanted] \in Locals
         /\ [New("apply_user", u) EXCEPT !.got = {roles[r].code : r \in wanted}] \in Locals
<1>1. {roles[r].code : r \in wanted} \subseteq Codes
  BY DEF TypeInv, TypeOK
<1> QED
  BY <1>1 DEF New, Idle, Locals, Steps

LEMMA RoleLocals ==
  ASSUME TypeInv, NEW r \in Roles
  PROVE  /\ \A wanted \in SUBSET Permissions :
              [New("clear_permissions", r) EXCEPT !.want = wanted, !.code = roles[r].code] \in Locals
         /\ [New("drop_role", r) EXCEPT !.code = roles[r].code] \in Locals
         /\ [New("read_role", r) EXCEPT !.code = roles[r].code] \in Locals
BY DEF New, Idle, Locals, Steps, TypeInv, TypeOK

LEMMA PermissionLocals ==
  ASSUME TypeInv, NEW p \in Permissions
  PROVE  [New("drop_route", p) EXCEPT !.got = {perms[p].route}] \in Locals
<1>1. {perms[p].route} \subseteq Routes
  BY DEF TypeInv, TypeOK
<1> QED
  BY <1>1 DEF New, Idle, Locals, Steps

LEMMA KeyLocals ==
  ASSUME TypeInv, NEW k \in Keys, NEW r \in Roles
  PROVE  /\ \A t \in Tokens :
              [New("insert_key", k) EXCEPT !.role = r, !.code = roles[r].code, !.token = t] \in Locals
         /\ [New("write_key", k) EXCEPT !.role = r, !.code = roles[r].code] \in Locals
         /\ New("drop_key", k) \in Locals
BY DEF New, Idle, Locals, Steps, TypeInv, TypeOK

LEMMA FlightBegin ==
  ASSUME FlightInv, TypeInv', NEW q \in Requests, NEW local \in Locals, Begin(q, local),
         local.step # "idle", users \subseteq users', local.on \in Users => local.on \in users',
         \A u \in Users \ users' : holds'[u] = {}, Distinct', Fresh(q)'
  PROVE  FlightInv'
<1>1. Alone' /\ \A x \in Requests : request'[x].alone => x = q
  BY BeginFlight, OthersFresh DEF FlightInv
<1>2. Existing'
  BY Begun DEF FlightInv, Existing, Goes
<1> QED
  BY <1>1, <1>2 DEF FlightInv

LEMMA FlightGo ==
  ASSUME FlightInv, TypeInv', NEW q \in InFlight, NEW local \in Locals, Go(q, local),
         local.step # "idle", local.alone = request[q].alone, local.on = request[q].on,
         users' = users, \A u \in Users \ users : holds'[u] = holds[u],
         \A r \in Roles : roles'[r].code = roles[r].code, perms' = perms,
         request[q].alone => Fresh(q)'
  PROVE  FlightInv'
<1>0. q \in Requests
  BY DEF InFlight
<1>1. Alone' /\ \A x \in Requests : request'[x].alone => x = q /\ request[q].alone
  BY <1>0, GoFlight, OthersFresh, Gone DEF FlightInv
<1>2. Existing'
  BY <1>0, Gone DEF FlightInv, Existing
<1>3. Distinct'
  BY DEF FlightInv, Distinct
<1> QED
  BY <1>1, <1>2, <1>3 DEF FlightInv

LEMMA FlightEnd ==
  ASSUME FlightInv, TypeInv', NEW q \in InFlight, NEW settled, NEW left, End(q, settled, left),
         UNCHANGED tables
  PROVE  FlightInv'
<1>0. q \in Requests /\ Idle.on \notin Users
  BY AccessControlConstants DEF InFlight, Idle
<1>1. Alone' /\ \A x \in Requests : ~request'[x].alone
  BY <1>0, EndFlight, Ended DEF FlightInv, Alone
<1>2. Existing' /\ Distinct'
  BY <1>0, Ended DEF FlightInv, Existing, Distinct, tables
<1> QED
  BY <1>1, <1>2 DEF FlightInv

LEMMA UserFlight ==
  ASSUME FlightInv, TypeInv', NEW q \in Requests, UserRequest(q)
  PROVE  FlightInv'
<1> USE DEF UserSteps, RoleSteps, PermissionSteps, EnableSteps, KeySteps, ExchangeSteps
<1>1. TypeInv /\ Existing /\ Distinct /\ request[q] \in Locals /\ Fits(request[q])
  BY LocalTypes DEF FlightInv
<1>2. ASSUME NEW u \in Users, NEW wanted \in SUBSET Roles, SyncUserRoles(q, u, wanted)
      PROVE  FlightInv'
  <2> DEFINE local == [New("clear_roles", u) EXCEPT !.want = wanted]
  <2>1. local \in Locals /\ local.step = "clear_roles" /\ local.on = u /\ Begin(q, local)
    BY <1>1, <1>2, UserLocals DEF SyncUserRoles, New, Idle
  <2>2. Fresh(q)'
    BY <1>1, <2>1, Begun DEF Fresh, Goes
  <2>3. UNCHANGED tables /\ u \in users
    BY <1>2 DEF SyncUserRoles
  <2> HIDE DEF local
  <2>4. Distinct' /\ users' = users /\ \A v \in Users \ users' : holds'[v] = {}
    BY <1>1, <2>3 DEF tables, Existing, Distinct
  <2> QED
    BY <1>1, <2>1, <2>2, <2>3, <2>4, FlightBegin
<1>3. ASSUME NEW u \in Users, NEW wanted \in SUBSET Roles, CreateAdmin(q, u, wanted)
      PROVE  FlightInv'
  <2> DEFINE local == [New("apply_user", u) EXCEPT !.got = {roles[r].code : r \in wanted}]
  <2>1. /\ local \in Locals /\ local.step = "apply_user" /\ local.on = u
        /\ local.got = {roles[r].code : r \in wanted} /\ Begin(q, local)
    BY <1>1, <1>3, UserLocals DEF CreateAdmin, New, Idle
  <2>2. /\ holds' = [holds EXCEPT ![u] = wanted] /\ users' = users \cup {u}
        /\ UNCHANGED <<roles, perms>> /\ \A r \in wanted : roles[r].active
    BY <1>3 DEF CreateAdmin
  <2> HIDE DEF local
  <2>3. UserCodes(u)' = {roles[r].code : r \in wanted}
    BY <1>1, <2>2 DEF UserCodes, TypeInv, TypeOK
  <2>4. Fresh(q)'
    BY <1>1, <2>1, <2>3, Begun DEF Fresh, Goes
  <2>5. \A v \in Users \ users' : holds'[v] = {}
    BY <1>1, <2>2 DEF Existing, TypeInv, TypeOK
  <2> QED
    BY <1>1, <2>1, <2>2, <2>4, <2>5, FlightBegin DEF Distinct
<1>4. CASE ClearRoles(q)
  <2> DEFINE local == [request[q] EXCEPT !.step = "insert_role"]
  <2>1. /\ local \in Locals /\ local.step = "insert_role" /\ local.on = request[q].on
        /\ local.alone = request[q].alone /\ Go(q, local) /\ q \in InFlight
    BY <1>1, <1>4 DEF ClearRoles, Step, At, InFlight, Locals, Steps
  <2>2. Fresh(q)'
    BY <1>1, <2>1, Gone DEF Fresh
  <2>3. request[q].on \in users
    BY <1>1, <1>4 DEF ClearRoles, Step, At, Fits, Existing
  <2> QED
    BY <1>1, <1>4, <2>1, <2>2, <2>3, FlightGo DEF ClearRoles, TypeInv, TypeOK
<1>5. CASE InsertRole(q)
  <2>1. PICK r \in request[q].want \ holds[request[q].on] :
          /\ holds' = [holds EXCEPT ![request[q].on] = @ \cup {r}]
          /\ Go(q, [request[q] EXCEPT !.want = @ \ {r}])
    BY <1>5 DEF InsertRole
  <2> DEFINE local == [request[q] EXCEPT !.want = @ \ {r}]
  <2>2. /\ local \in Locals /\ local.step = "insert_role" /\ local.on = request[q].on
        /\ local.alone = request[q].alone /\ Go(q, local) /\ q \in InFlight
    BY <1>1, <1>5, <2>1 DEF InsertRole, At, InFlight, Locals, Steps
  <2>3. Fresh(q)'
    BY <1>1, <2>2, Gone DEF Fresh
  <2>4. request[q].on \in users
    BY <1>1, <1>5 DEF InsertRole, At, Fits, Existing
  <2> QED
    BY <1>1, <1>5, <2>1, <2>2, <2>3, <2>4, FlightGo DEF InsertRole, TypeInv, TypeOK
<1>6. CASE ReadCodes(q)
  <2> DEFINE local == [request[q] EXCEPT !.step = "apply_user", !.got = UserCodes(request[q].on)]
  <2>0. UserCodes(request[q].on) \subseteq Codes
    BY <1>1, <1>6, CodesAndRoutes DEF ReadCodes, At, Fits, TypeInv
  <2>1. /\ local \in Locals /\ local.step = "apply_user" /\ local.on = request[q].on
        /\ local.alone = request[q].alone /\ local.got = UserCodes(request[q].on)
        /\ Go(q, local) /\ q \in InFlight
    BY <1>1, <1>6, <2>0 DEF ReadCodes, At, InFlight, Locals, Steps
  <2>2. UNCHANGED tables
    BY <1>6 DEF ReadCodes
  <2> HIDE DEF local
  <2>3. Fresh(q)'
    BY <1>1, <2>1, <2>2, Gone DEF Fresh, UserCodes, tables
  <2> QED
    BY <1>1, <2>1, <2>2, <2>3, FlightGo DEF tables
<1>7. CASE ApplyUser(q)
  BY <1>7, FlightEnd DEF ApplyUser, At, InFlight
<1> QED
  BY <1>2, <1>3, <1>4, <1>5, <1>6, <1>7 DEF UserRequest

LEMMA RoleFlight ==
  ASSUME FlightInv, TypeInv', NEW q \in Requests, RoleRequest(q)
  PROVE  FlightInv'
<1> USE DEF UserSteps, RoleSteps, PermissionSteps, EnableSteps, KeySteps, ExchangeSteps
<1>1. TypeInv /\ Existing /\ Distinct /\ request[q] \in Locals /\ Fits(request[q])
  BY LocalTypes DEF FlightInv
<1>2. ASSUME NEW r \in Roles, NEW wanted \in SUBSET Permissions, SyncRolePermissions(q, r, wanted)
      PROVE  FlightInv'
  <2> DEFINE local == 
       [New("clear_permissions", r) EXCEPT !.want = wanted, !.code = roles[r].code]
  <2>1. /\ local \in Locals /\ Begin(q, local)
        /\ local.step = "clear_permissions" /\ local.on = r /\ local.code = roles[r].code
    BY <1>1, <1>2, RoleLocals DEF SyncRolePermissions, New, Idle
  <2> HIDE DEF local
  <2>2. Distinct' /\ users' = users /\ \A v \in Users \ users' : holds'[v] = {}
    BY <1>1, <1>2 DEF SyncRolePermissions, tables, Existing, Distinct, TypeInv, TypeOK
  <2>3. Fresh(q)'
    BY <1>1, <1>2, <2>1, Begun DEF Fresh, Goes, SyncRolePermissions, tables
  <2> QED
    BY <1>1, <2>1, <2>2, <2>3, FlightBegin, AccessControlConstants
<1>3. CASE ClearPermissions(q)
  <2> DEFINE local == [request[q] EXCEPT !.step = "insert_permission"]
  <2>1. /\ local \in Locals /\ local.step = "insert_permission" /\ local.on = request[q].on
        /\ local.alone = request[q].alone /\ local.code = request[q].code
        /\ local.role = request[q].role /\ Go(q, local) /\ q \in InFlight
    BY <1>1, <1>3 DEF ClearPermissions, Step, At, InFlight, Locals, Steps
  <2> HIDE DEF local
  <2>2. request'[q] = local
    BY <1>1, <2>1, Gone
  <2>3. ASSUME Fresh(q)
        PROVE  Fresh(q)'
    BY <1>1, <1>3, <2>1, <2>2, <2>3 DEF ClearPermissions, Step, At, Fresh, Fits, TypeInv, TypeOK
  <2> QED
    BY <1>1, <1>3, <2>1, <2>3, FlightGo DEF ClearPermissions, FlightInv, tables, TypeInv, TypeOK
<1>4. CASE InsertPermission(q)
  <2>0. PICK p \in request[q].want \ grants[request[q].on] :
          Go(q, [request[q] EXCEPT !.want = @ \ {p}])
    BY <1>4 DEF InsertPermission
  <2> DEFINE local == [request[q] EXCEPT !.want = @ \ {p}]
  <2>1. /\ local \in Locals /\ local.step = "insert_permission" /\ local.on = request[q].on
        /\ local.alone = request[q].alone /\ local.code = request[q].code
        /\ Go(q, local) /\ q \in InFlight
    BY <1>1, <1>4, <2>0 DEF InsertPermission, At, InFlight, Locals, Steps
  <2> HIDE DEF local
  <2>2. request'[q] = local
    BY <1>1, <2>1, Gone
  <2>3. ASSUME Fresh(q)
        PROVE  Fresh(q)'
    BY <1>1, <1>4, <2>1, <2>2, <2>3 DEF InsertPermission, At, Fresh
  <2> QED
    BY <1>1, <1>4, <2>1, <2>3, FlightGo DEF InsertPermission, FlightInv
<1>5. CASE ReadRoutes(q)
  <2> DEFINE local == 
       [request[q] EXCEPT !.step = "apply_role", !.got = RoleRoutes(request[q].on)]
  <2>0. RoleRoutes(request[q].on) \subseteq Routes
    BY <1>1, <1>5, CodesAndRoutes DEF ReadRoutes, At, Fits, TypeInv
  <2>1. /\ local \in Locals /\ local.step = "apply_role" /\ local.on = request[q].on
        /\ local.alone = request[q].alone /\ local.code = request[q].code
        /\ local.role = request[q].role /\ Go(q, local) /\ q \in InFlight
        /\ local.got = RoleRoutes(request[q].on)
    BY <1>1, <1>5, <2>0 DEF ReadRoutes, Step, At, InFlight, Locals, Steps
  <2> HIDE DEF local
  <2>2. request'[q] = local
    BY <1>1, <2>1, Gone
  <2>3. ASSUME Fresh(q)
        PROVE  Fresh(q)'
    BY <1>1, <1>5, <2>1, <2>2, <2>3 DEF ReadRoutes, Step, At, Fresh, Fits, TypeInv, TypeOK, RoleRoutes, tables
  <2> QED
    BY <1>1, <1>5, <2>1, <2>3, FlightGo DEF ReadRoutes, FlightInv, tables, TypeInv, TypeOK
<1>6. CASE ApplyRole(q)
  BY <1>6, FlightEnd DEF ApplyRole, At, InFlight, tables, enforcer
<1>7. ASSUME NEW r \in Roles, Disable(q, r)
      PROVE  FlightInv'
  <2> DEFINE local == [New("drop_role", r) EXCEPT !.code = roles[r].code]
  <2>1. /\ local \in Locals /\ Begin(q, local)
        /\ local.step = "drop_role" /\ local.on = r /\ local.code = roles[r].code
    BY <1>1, <1>7, RoleLocals DEF Disable, New, Idle
  <2> HIDE DEF local
  <2>2. Distinct' /\ users' = users /\ \A v \in Users \ users' : holds'[v] = {}
    BY <1>1, <1>7 DEF Disable, tables, Existing, Distinct, TypeInv, TypeOK
  <2>3. Fresh(q)'
    BY <1>1, <1>7, <2>1, Begun DEF Fresh, Goes, Disable, TypeInv, TypeOK
  <2> QED
    BY <1>1, <2>1, <2>2, <2>3, FlightBegin, AccessControlConstants
<1>8. ASSUME NEW r \in Roles, Enable(q, r)
      PROVE  FlightInv'
  <2> DEFINE local == [New("read_role", r) EXCEPT !.code = roles[r].code]
  <2>1. /\ local \in Locals /\ Begin(q, local)
        /\ local.step = "read_role" /\ local.on = r /\ local.code = roles[r].code
    BY <1>1, <1>8, RoleLocals DEF Enable, New, Idle
  <2> HIDE DEF local
  <2>2. Distinct' /\ users' = users /\ \A v \in Users \ users' : holds'[v] = {}
    BY <1>1, <1>8 DEF Enable, tables, Existing, Distinct, TypeInv, TypeOK
  <2>3. Fresh(q)'
    BY <1>1, <1>8, <2>1, Begun DEF Fresh, Goes, Enable, TypeInv, TypeOK
  <2> QED
    BY <1>1, <2>1, <2>2, <2>3, FlightBegin, AccessControlConstants
<1>9. CASE DropRole(q)
  BY <1>9, FlightEnd DEF DropRole, At, InFlight, tables, enforcer
<1>10. CASE ReadRole(q)
  <2> DEFINE local == 
       [request[q] EXCEPT !.step = "apply_enabled", !.got = RoleRoutes(request[q].on)]
  <2>0. RoleRoutes(request[q].on) \subseteq Routes
    BY <1>1, <1>10, CodesAndRoutes DEF ReadRole, At, Fits, TypeInv
  <2>1. /\ local \in Locals /\ local.step = "apply_enabled" /\ local.on = request[q].on
        /\ local.alone = request[q].alone /\ local.code = request[q].code
        /\ local.role = request[q].role /\ Go(q, local) /\ q \in InFlight
        /\ local.got = RoleRoutes(request[q].on)
    BY <1>1, <1>10, <2>0 DEF ReadRole, Step, At, InFlight, Locals, Steps
  <2> HIDE DEF local
  <2>2. request'[q] = local
    BY <1>1, <2>1, Gone
  <2>3. ASSUME Fresh(q)
        PROVE  Fresh(q)'
    BY <1>1, <1>10, <2>1, <2>2, <2>3 DEF ReadRole, Step, At, Fresh, Fits, TypeInv, TypeOK, RoleRoutes, tables
  <2> QED
    BY <1>1, <1>10, <2>1, <2>3, FlightGo DEF ReadRole, FlightInv, tables, TypeInv, TypeOK
<1>11. CASE ApplyEnabled(q)
  <2> DEFINE local == [request[q] EXCEPT !.step = "find_holders"]
  <2>1. /\ local \in Locals /\ local.step = "find_holders" /\ local.on = request[q].on
        /\ local.alone = request[q].alone /\ local.code = request[q].code
        /\ local.role = request[q].role /\ Go(q, local) /\ q \in InFlight
    BY <1>1, <1>11 DEF ApplyEnabled, Step, At, InFlight, Locals, Steps
  <2> HIDE DEF local
  <2>2. request'[q] = local
    BY <1>1, <2>1, Gone
  <2>3. ASSUME Fresh(q)
        PROVE  Fresh(q)'
    BY <1>1, <1>11, <2>1, <2>2, <2>3 DEF ApplyEnabled, Step, At, Fresh, Fits, TypeInv, TypeOK, tables
  <2> QED
    BY <1>1, <1>11, <2>1, <2>3, FlightGo DEF ApplyEnabled, FlightInv, tables, TypeInv, TypeOK
<1>12. CASE FindHolders(q)
  <2> DEFINE local == 
       [request[q] EXCEPT !.step = "read_holder", !.want = Holders(request[q].on)]
  <2>0. Holders(request[q].on) \subseteq Users
    BY <1>1 DEF Holders, TypeInv, TypeOK
  <2>1. /\ local \in Locals /\ local.step = "read_holder" /\ local.on = request[q].on
        /\ local.alone = request[q].alone /\ local.code = request[q].code
        /\ local.role = request[q].role /\ Go(q, local) /\ q \in InFlight
        /\ local.want = Holders(request[q].on)
    BY <1>1, <1>12, <2>0 DEF FindHolders, Step, At, InFlight, Locals, Steps
  <2> HIDE DEF local
  <2>2. request'[q] = local
    BY <1>1, <2>1, Gone
  <2>3. ASSUME Fresh(q)
        PROVE  Fresh(q)'
    BY <1>1, <1>12, <2>1, <2>2, <2>3 DEF FindHolders, Step, At, Fresh, Fits, TypeInv, TypeOK, Holders, tables
  <2> QED
    BY <1>1, <1>12, <2>1, <2>3, FlightGo DEF FindHolders, FlightInv, tables, TypeInv, TypeOK
<1>13. CASE ReadHolder(q)
  <2>0. PICK u \in request[q].want :
          Go(q, [request[q] EXCEPT !.step = "apply_holder", !.want = @ \ {u},
                                   !.got = UserCodes(u), !.holder = u])
    BY <1>13 DEF ReadHolder
  <2> DEFINE local == [request[q] EXCEPT !.step = "apply_holder", !.want = @ \ {u},
                                         !.got = UserCodes(u), !.holder = u]
  <2>0a. u \in Users /\ UserCodes(u) \subseteq Codes
    BY <1>1, <1>13, CodesAndRoutes DEF ReadHolder, At, Fits, TypeInv
  <2>1. /\ local \in Locals /\ local.step = "apply_holder" /\ local.on = request[q].on
        /\ local.alone = request[q].alone /\ local.code = request[q].code
        /\ local.want = request[q].want \ {u} /\ local.got = UserCodes(u) /\ local.holder = u
        /\ Go(q, local) /\ q \in InFlight
    BY <1>1, <1>13, <2>0, <2>0a DEF ReadHolder, At, InFlight, Locals, Steps
  <2> HIDE DEF local
  <2>2. request'[q] = local
    BY <1>1, <2>1, Gone
  <2>3. UNCHANGED tables
    BY <1>13 DEF ReadHolder
  <2>4. ASSUME Fresh(q)
        PROVE  Fresh(q)'
    BY <1>1, <1>13, <2>0, <2>1, <2>2, <2>3, <2>4
       DEF ReadHolder, At, Fresh, Holders, UserCodes, tables
  <2> QED
    BY <1>1, <2>1, <2>3, <2>4, FlightGo DEF FlightInv, tables
<1>14. CASE ApplyHolder(q)
  <2> DEFINE local == [request[q] EXCEPT !.step = "read_holder"]
  <2>1. /\ local \in Locals /\ local.step = "read_holder" /\ local.on = request[q].on
        /\ local.alone = request[q].alone /\ local.code = request[q].code
        /\ local.role = request[q].role /\ Go(q, local) /\ q \in InFlight
        /\ local.want = request[q].want
    BY <1>1, <1>14 DEF ApplyHolder, Step, At, InFlight, Locals, Steps
  <2> HIDE DEF local
  <2>2. request'[q] = local
    BY <1>1, <2>1, Gone
  <2>3. ASSUME Fresh(q)
        PROVE  Fresh(q)'
    BY <1>1, <1>14, <2>1, <2>2, <2>3 DEF ApplyHolder, Step, At, Fresh, Fits, TypeInv, TypeOK, Holders, tables
  <2> QED
    BY <1>1, <1>14, <2>1, <2>3, FlightGo DEF ApplyHolder, FlightInv, tables, TypeInv, TypeOK
<1>15. CASE EndEnable(q)
  BY <1>15, FlightEnd DEF EndEnable, At, InFlight, tables, enforcer
<1> QED
  BY <1>2, <1>3, <1>4, <1>5, <1>6, <1>7, <1>8, <1>9, <1>10, <1>11, <1>12, <1>13, <1>14, <1>15
     DEF RoleRequest

LEMMA PermissionFlight ==
  ASSUME FlightInv, TypeInv', NEW q \in Requests, PermissionRequest(q)
  PROVE  FlightInv'
<1> USE DEF UserSteps, RoleSteps, PermissionSteps, EnableSteps, KeySteps, ExchangeSteps
<1>1. TypeInv /\ Existing /\ Distinct /\ request[q] \in Locals /\ Fits(request[q])
  BY LocalTypes DEF FlightInv
<1>2. ASSUME NEW p \in Permissions, DeletePermission(q, p)
      PROVE  FlightInv'
  <2> DEFINE local == [New("drop_route", p) EXCEPT !.got = {perms[p].route}]
  <2>1. /\ local \in Locals /\ Begin(q, local)
        /\ local.step = "drop_route" /\ local.on = p /\ local.got = {perms[p].route}
    BY <1>1, <1>2, PermissionLocals DEF DeletePermission, New, Idle
  <2> HIDE DEF local
  <2>2. Distinct' /\ users' = users /\ \A v \in Users \ users' : holds'[v] = {}
    BY <1>1, <1>2 DEF DeletePermission, tables, Existing, Distinct, TypeInv, TypeOK
  <2>3. Fresh(q)'
    BY <1>1, <1>2, <2>1, Begun DEF Fresh, Goes, DeletePermission, TypeInv, TypeOK
  <2> QED
    BY <1>1, <2>1, <2>2, <2>3, FlightBegin, AccessControlConstants
<1>3. CASE RevokeRoute(q)
  BY <1>3, FlightEnd DEF RevokeRoute, At, InFlight, tables, enforcer
<1> QED
  BY <1>2, <1>3
     DEF PermissionRequest

LEMMA KeyFlight ==
  ASSUME FlightInv, TypeInv', NEW q \in Requests, KeyRequest(q)
  PROVE  FlightInv'
<1> USE DEF UserSteps, RoleSteps, PermissionSteps, EnableSteps, KeySteps, ExchangeSteps
<1>1. TypeInv /\ Existing /\ Distinct /\ request[q] \in Locals /\ Fits(request[q])
  BY LocalTypes DEF FlightInv
<1>2. ASSUME NEW k \in Keys, NEW t \in Tokens, Exchange(q, t, k)
      PROVE  FlightInv'
  <2> DEFINE r == TokenRole[t]
             local == [New("insert_key", k) EXCEPT
                         !.role = r, !.code = roles[r].code, !.token = t]
  <2>0. r \in Roles
    BY AccessControlConstants
  <2>1. /\ local \in Locals /\ Begin(q, local)
        /\ local.step = "insert_key" /\ local.on = k /\ local.role = r
        /\ local.code = roles[r].code
    BY <1>1, <1>2, <2>0, KeyLocals DEF Exchange, New, Idle
  <2> HIDE DEF local, r
  <2>2. UNCHANGED tables
    BY <1>2 DEF Exchange
  <2>3. Distinct' /\ users' = users /\ \A v \in Users \ users' : holds'[v] = {}
    BY <1>1, <2>2 DEF tables, Existing, Distinct
  <2>4. Fresh(q)'
    BY <1>1, <2>1, <2>2, Begun DEF Fresh, Goes, tables
  <2> QED
    BY <1>1, <2>1, <2>3, <2>4, FlightBegin, AccessControlConstants
<1>3. ASSUME NEW k \in Keys, NEW r \in Roles, ChangeRole(q, k, r)
      PROVE  FlightInv'
  <2> DEFINE local == 
       [New("write_key", k) EXCEPT !.role = r, !.code = roles[r].code]
  <2>1. /\ local \in Locals /\ Begin(q, local)
        /\ local.step = "write_key" /\ local.on = k /\ local.role = r /\ local.code = roles[r].code
    BY <1>1, <1>3, KeyLocals DEF ChangeRole, New, Idle
  <2> HIDE DEF local
  <2>2. Distinct' /\ users' = users /\ \A v \in Users \ users' : holds'[v] = {}
    BY <1>1, <1>3 DEF ChangeRole, tables, Existing, Distinct, TypeInv, TypeOK
  <2>3. Fresh(q)'
    BY <1>1, <1>3, <2>1, Begun DEF Fresh, Goes, ChangeRole, tables
  <2> QED
    BY <1>1, <2>1, <2>2, <2>3, FlightBegin, AccessControlConstants
<1>4. ASSUME NEW k \in Keys, Revoke(q, k)
      PROVE  FlightInv'
  <2> DEFINE local == New("drop_key", k)
  <2>1. local \in Locals /\ Begin(q, local) /\ local.step = "drop_key" /\ local.on = k
    BY <1>1, <1>4 DEF Revoke, New, Idle, Locals, Steps
  <2> HIDE DEF local
  <2>2. Distinct' /\ users' = users /\ \A v \in Users \ users' : holds'[v] = {}
    BY <1>1, <1>4 DEF Revoke, Existing, Distinct
  <2>3. Fresh(q)'
    BY <1>1, <1>4, <2>1, Begun DEF Fresh, Goes, Revoke, TypeInv, TypeOK
  <2> QED
    BY <1>1, <2>1, <2>2, <2>3, FlightBegin, AccessControlConstants
<1>5. CASE InsertKey(q)
  <2> DEFINE local == [request[q] EXCEPT !.step = "read_usage"]
  <2>1. /\ local \in Locals /\ local.step = "read_usage" /\ local.on = request[q].on
        /\ local.alone = request[q].alone /\ local.code = request[q].code
        /\ local.role = request[q].role /\ Go(q, local) /\ q \in InFlight
    BY <1>1, <1>5 DEF InsertKey, Step, At, InFlight, Locals, Steps
  <2> HIDE DEF local
  <2>2. request'[q] = local
    BY <1>1, <2>1, Gone
  <2>3. ASSUME Fresh(q)
        PROVE  Fresh(q)'
    BY <1>1, <1>5, <2>1, <2>2, <2>3 DEF InsertKey, Step, At, Fresh, Fits, TypeInv, TypeOK
  <2> QED
    BY <1>1, <1>5, <2>1, <2>3, FlightGo DEF InsertKey, FlightInv, tables, TypeInv, TypeOK
<1>6. CASE ReadUsage(q)
  <2> DEFINE local == 
       [request[q] EXCEPT !.step = "write_usage", !.count = used[request[q].token]]
  <2>0. used[request[q].token] \in Nat
    BY <1>1, <1>6 DEF ReadUsage, At, Fits, TypeInv, TypeOK
  <2>1. /\ local \in Locals /\ local.step = "write_usage" /\ local.on = request[q].on
        /\ local.alone = request[q].alone /\ local.code = request[q].code
        /\ local.role = request[q].role /\ Go(q, local) /\ q \in InFlight
    BY <1>1, <1>6, <2>0 DEF ReadUsage, Step, At, InFlight, Locals, Steps
  <2> HIDE DEF local
  <2>2. request'[q] = local
    BY <1>1, <2>1, Gone
  <2>3. ASSUME Fresh(q)
        PROVE  Fresh(q)'
    BY <1>1, <1>6, <2>1, <2>2, <2>3 DEF ReadUsage, Step, At, Fresh, Fits, TypeInv, TypeOK, tables
  <2> QED
    BY <1>1, <1>6, <2>1, <2>3, FlightGo DEF ReadUsage, FlightInv, tables, TypeInv, TypeOK
<1>7. CASE WriteUsage(q)
  <2> DEFINE local == [request[q] EXCEPT !.step = "apply_key"]
  <2>1. /\ local \in Locals /\ local.step = "apply_key" /\ local.on = request[q].on
        /\ local.alone = request[q].alone /\ local.code = request[q].code
        /\ local.role = request[q].role /\ Go(q, local) /\ q \in InFlight
    BY <1>1, <1>7 DEF WriteUsage, Step, At, InFlight, Locals, Steps
  <2> HIDE DEF local
  <2>2. request'[q] = local
    BY <1>1, <2>1, Gone
  <2>3. ASSUME Fresh(q)
        PROVE  Fresh(q)'
    BY <1>1, <1>7, <2>1, <2>2, <2>3 DEF WriteUsage, Step, At, Fresh, Fits, TypeInv, TypeOK
  <2> QED
    BY <1>1, <1>7, <2>1, <2>3, FlightGo DEF WriteUsage, FlightInv, tables, TypeInv, TypeOK
<1>8. CASE WriteKey(q)
  <2> DEFINE local == [request[q] EXCEPT !.step = "apply_key"]
  <2>1. /\ local \in Locals /\ local.step = "apply_key" /\ local.on = request[q].on
        /\ local.alone = request[q].alone /\ local.code = request[q].code
        /\ local.role = request[q].role /\ Go(q, local) /\ q \in InFlight
    BY <1>1, <1>8 DEF WriteKey, Step, At, InFlight, Locals, Steps
  <2> HIDE DEF local
  <2>2. request'[q] = local
    BY <1>1, <2>1, Gone
  <2>3. ASSUME Fresh(q)
        PROVE  Fresh(q)'
    BY <1>1, <1>8, <2>1, <2>2, <2>3 DEF WriteKey, Step, At, Fresh, Fits, TypeInv, TypeOK
  <2> QED
    BY <1>1, <1>8, <2>1, <2>3, FlightGo DEF WriteKey, FlightInv, tables, TypeInv, TypeOK
<1>9. CASE ApplyKey(q)
  BY <1>9, FlightEnd DEF ApplyKey, At, InFlight, tables, enforcer
<1>10. CASE DropKey(q)
  BY <1>10, FlightEnd DEF DropKey, At, InFlight, tables, enforcer
<1> QED
  BY <1>2, <1>3, <1>4, <1>5, <1>6, <1>7, <1>8, <1>9, <1>10
     DEF KeyRequest

LEMMA SingleRequestFlight ==
  ASSUME FlightInv, TypeInv', SingleRequest
  PROVE  FlightInv'
<1>1. TypeInv /\ Existing /\ Distinct
  BY DEF FlightInv
<1>2. \E changes : Single(changes)
  BY DEF SingleRequest, UpdateRole, UpdatePermission, RestorePermission
<1>3. Alone' /\ \A x \in Requests : request'[x].on = request[x].on /\ ~request'[x].alone
  BY <1>1, <1>2, SingleFlight DEF Goes
<1>4. Existing'
  BY <1>1, <1>3 DEF Existing, SingleRequest, UpdateRole, UpdatePermission, RestorePermission
<1>5. Distinct'
  <2>1. ASSUME NEW r \in Roles, NEW code \in Codes, UpdateRole(r, code)
        PROVE  Distinct'
    BY <1>1, <2>1 DEF UpdateRole, Distinct, TypeInv, TypeOK
  <2>2. ASSUME NEW p \in Permissions, NEW route \in Routes, UpdatePermission(p, route)
        PROVE  Distinct'
    BY <1>1, <2>2 DEF UpdatePermission, Distinct, TypeInv, TypeOK
  <2>3. ASSUME NEW p \in Permissions, RestorePermission(p)
        PROVE  Distinct'
    BY <1>1, <2>3 DEF RestorePermission, Distinct, TypeInv, TypeOK
  <2> QED
    BY <2>1, <2>2, <2>3 DEF SingleRequest
<1> QED
  BY <1>3, <1>4, <1>5 DEF FlightInv

LEMMA FlightStep ==
  ASSUME FlightInv, [Next]_vars
  PROVE  FlightInv'
<1>1. TypeInv'
  BY TypeStep DEF FlightInv
<1>2. CASE UNCHANGED vars
  <2>1. UNCHANGED <<users, roles, perms, holds, grants, keys, request>>
    BY <1>2 DEF vars, tables
  <2>2. Alone' /\ Existing' /\ Distinct'
    BY <2>1 DEF FlightInv, Alone, InFlight, At, Existing, Distinct
  <2>3. ASSUME NEW q \in Requests, request'[q].alone
        PROVE  Fresh(q)'
    BY <2>1, <2>3 DEF FlightInv, Fresh, UserCodes, RoleRoutes, Holders
  <2> QED
    BY <1>1, <2>2, <2>3 DEF FlightInv
<1>3. ASSUME NEW q \in Requests, Stops(q) \/ StopsHalfway(q)
      PROVE  FlightInv'
  BY <1>1, <1>3, FlightEnd DEF Stops, StopsHalfway, At, InFlight
<1> QED
  BY <1>1, <1>2, <1>3, UserFlight, RoleFlight, PermissionFlight, KeyFlight, SingleRequestFlight
     DEF Next

LEMMA FlightInit ==
  ASSUME Init
  PROVE  FlightInv
<1>1. \A q \in Requests : request[q] = Idle
  BY DEF Init
<1>2. ~Idle.alone /\ Idle.on = Nil
  BY DEF Idle
<1>3. Alone /\ Existing /\ Distinct
  BY <1>1, <1>2, AccessControlConstants DEF Init, Alone, Existing, Distinct
<1> QED
  BY <1>1, <1>2, <1>3, InitTypes DEF FlightInv

----------------------------------------------------------------------------
(* Requests that overlap: whatever they may still change in the enforcer is unsettled *)

Covered(q) ==
  LET local == request[q]
  IN /\ Touched(local.on) \subseteq unsettled
     /\ local.step \in RoleSteps =>
          \A r \in Roles : roles[r].code = local.code => Touched(r) \subseteq unsettled
     /\ local.step \in {"read_holder", "apply_holder"} => local.want \subseteq unsettled
     /\ local.step = "apply_holder" => local.holder \in unsettled
     /\ local.step = "drop_route" =>
          \A p \in Permissions : perms[p].route \in local.got => Touched(p) \subseteq unsettled

Overlapping == \A q \in InFlight : ~request[q].alone => Covered(q)

CoverInv == FlightInv /\ Overlapping

LEMMA TouchesItself ==
  ASSUME NEW on \in Subjects
  PROVE  on \in Touched(on)
BY AccessControlConstants DEF Subjects, Touched

LEMMA TouchedOfRole ==
  ASSUME NEW r \in Roles
  PROVE  Touched(r) = {r} \cup Holders(r) \cup KeysOf(r)
BY AccessControlConstants DEF Touched

LEMMA TouchedOfPermission ==
  ASSUME NEW p \in Permissions
  PROVE  Touched(p) = {r \in Roles : p \in grants[r]}
BY AccessControlConstants DEF Touched

LEMMA TouchedOfSubject ==
  ASSUME NEW on \in Users \cup Keys
  PROVE  Touched(on) = {on}
BY AccessControlConstants DEF Touched

\* What may grow what a request touches: a user that has a new role, a role that has a new
\* permission, a key that has another role.
LEMMA TouchedGrows ==
  ASSUME NEW extra,
         \A u \in users' : u \notin extra => u \in users /\ holds'[u] \subseteq holds[u],
         \A r \in Roles : r \notin extra => grants'[r] \subseteq grants[r],
         \A k \in Keys : k \notin extra => keys'[k].role = keys[k].role,
         NEW on
  PROVE  Touched(on)' \subseteq Touched(on) \cup extra
<1>1. CASE on \in Roles
  BY <1>1 DEF Touched, Holders, KeysOf
<1>2. CASE on \in Permissions
  BY <1>2, AccessControlConstants DEF Touched
<1>3. CASE on \notin Roles \cup Permissions
  BY <1>3 DEF Touched
<1> QED
  BY <1>1, <1>2, <1>3

LEMMA CoverGo ==
  ASSUME CoverInv, FlightInv', NEW q \in InFlight, NEW local \in Locals, Go(q, local),
         local.step # "idle", local.alone = request[q].alone, local.on = request[q].on,
         local.step \in RoleSteps =>
           request[q].step \in RoleSteps /\ local.code = request[q].code,
         request[q].on \in Subjects, local.step # "drop_route",
         \A on : Touched(on)' \subseteq Touched(on) \cup {request[q].on},
         \A r \in Roles : roles'[r].code = roles[r].code, perms' = perms,
         ~request[q].alone =>
           /\ local.step \in {"read_holder", "apply_holder"} => local.want \subseteq unsettled
           /\ local.step = "apply_holder" => local.holder \in unsettled
  PROVE  CoverInv'
<1>1. /\ q \in Requests /\ request'[q] = local /\ unsettled' = unsettled
      /\ \A x \in Requests : x # q => request'[x] = request[x]
      /\ InFlight' = InFlight
  BY Gone, GoFlight DEF CoverInv, FlightInv, InFlight
<1>2. ASSUME NEW z \in InFlight, ~request'[z].alone
      PROVE  Covered(z)'
  <2>0. z \in Requests /\ request'[z].alone = request[z].alone
    BY <1>1 DEF InFlight
  <2>1. ~request[q].alone /\ ~request[z].alone
    BY <1>1, <1>2, <2>0 DEF CoverInv, FlightInv, Alone
  <2>2. Covered(q) /\ Covered(z)
    BY <2>1 DEF CoverInv, Overlapping
  <2>3. ASSUME NEW on, Touched(on) \subseteq unsettled
        PROVE  Touched(on)' \subseteq unsettled'
    <3>1. request[q].on \in unsettled
      BY <2>2, TouchesItself DEF Covered
    <3> QED
      BY <1>1, <2>3, <3>1
  <2>4. CASE z = q
    <3>1. request'[z].on = request[q].on
      BY <1>1, <2>4
    <3> QED
      BY <1>1, <2>1, <2>2, <2>3, <2>4, <3>1 DEF Covered
  <2>5. CASE z # q
    <3>1. request'[z] = request[z] /\ z \in Requests
      BY <1>1, <2>5 DEF InFlight
    <3> QED
      BY <1>1, <2>2, <2>3, <3>1 DEF Covered
  <2> QED
    BY <2>4, <2>5
<1> QED
  BY <1>1, <1>2 DEF CoverInv, Overlapping

LEMMA CoverEnd ==
  ASSUME CoverInv, FlightInv', NEW q \in InFlight, NEW settled, NEW left, End(q, settled, left),
         UNCHANGED tables
  PROVE  CoverInv'
<1>1. /\ q \in Requests /\ InFlight' = InFlight \ {q}
      /\ \A x \in Requests : x # q => request'[x] = request[x]
      /\ ~request[q].alone => unsettled' = unsettled
  BY Ended, EndFlight DEF CoverInv, FlightInv, InFlight
<1>2. ASSUME NEW z \in InFlight', ~request'[z].alone
      PROVE  Covered(z)'
  <2>1. z \in InFlight /\ z # q /\ z \in Requests /\ request'[z] = request[z]
    BY <1>1 DEF InFlight
  <2>2. ~request[q].alone
    BY <1>1, <2>1 DEF CoverInv, FlightInv, Alone
  <2>3. Covered(z)
    BY <1>2, <2>1 DEF CoverInv, Overlapping
  <2>4. ASSUME NEW on
        PROVE  Touched(on)' = Touched(on)
    BY DEF tables, Touched, Holders, KeysOf
  <2> QED
    BY <1>1, <2>1, <2>2, <2>3, <2>4 DEF Covered, tables
<1> QED
  BY <1>2 DEF CoverInv, Overlapping

\* The requests in flight when another one comes.
LEMMA CoverDisturbed ==
  ASSUME CoverInv, FlightInv', NEW local, NEW changes, Disturb(local, InFlight, changes),
         NEW extra, extra \subseteq unsettled',
         \A on : Touched(on)' \subseteq Touched(on) \cup extra,
         \A r \in Roles : roles'[r].code = roles[r].code \/ Touched(r) \subseteq unsettled',
         \A p \in Permissions :
           perms'[p].route = perms[p].route \/ Touched(p) \subseteq unsettled',
         NEW z \in InFlight, z \notin DOMAIN local
  PROVE  Covered(z)'
<1>1. z \in Requests /\ Goes(z, request[z])
  BY DisturbedGo DEF InFlight, CoverInv, FlightInv
<1>2. unsettled \subseteq unsettled' /\ Touched(request[z].on) \subseteq unsettled'
  BY DEF Disturb
<1>3. ASSUME NEW on, Touched(on) \subseteq unsettled'
      PROVE  Touched(on)' \subseteq unsettled'
  BY <1>3
<1>4. Touched(request'[z].on) \subseteq unsettled'
  BY <1>1, <1>2 DEF Goes
<1>5. ASSUME NEW on, on = request'[z].on
      PROVE  Touched(on)' \subseteq unsettled'
  BY <1>3, <1>4, <1>5
<1>6. ASSUME request'[z].step \in RoleSteps, NEW r \in Roles, roles'[r].code = request'[z].code
      PROVE  Touched(r)' \subseteq unsettled'
  <2>1. request[z].step \in RoleSteps /\ request[z].code = roles'[r].code
    BY <1>1, <1>6 DEF Goes
  <2>2. CASE roles'[r].code # roles[r].code
    BY <1>3, <2>2
  <2>3. CASE roles'[r].code = roles[r].code /\ request[z].alone
    <3>1. request[z].on \in Roles
      BY <1>1, <2>1, LocalTypes DEF CoverInv, FlightInv, Fits
    <3>2. request[z].code = roles[request[z].on].code
      BY <1>1, <2>1, <2>3 DEF CoverInv, FlightInv, Fresh
    <3>3. r = request[z].on
      BY <2>1, <2>3, <3>1, <3>2 DEF CoverInv, FlightInv, Distinct
    <3> QED
      BY <1>2, <1>3, <3>3
  <2>4. CASE roles'[r].code = roles[r].code /\ ~request[z].alone
    BY <1>2, <1>3, <2>1, <2>4 DEF CoverInv, Overlapping, Covered
  <2> QED
    BY <2>2, <2>3, <2>4
<1>7. ASSUME request'[z].step \in {"read_holder", "apply_holder"}
      PROVE  /\ request'[z].want \subseteq unsettled'
             /\ request'[z].step = "apply_holder" => request'[z].holder \in unsettled'
  <2>1. CASE request[z].alone
    <3>1. Fresh(z) /\ request[z].on \in Roles
      BY <1>1, <1>7, <2>1, LocalTypes
         DEF CoverInv, FlightInv, Fits, Goes, RoleSteps, EnableSteps
    <3>2. Holders(request[z].on) \subseteq unsettled'
      BY <1>2, <3>1, TouchedOfRole
    <3> QED
      BY <1>1, <1>7, <3>1, <3>2 DEF Fresh, Goes
  <2>2. CASE ~request[z].alone
    BY <1>1, <1>2, <1>7, <2>2 DEF CoverInv, Overlapping, Covered, Goes
  <2> QED
    BY <2>1, <2>2
<1>8. ASSUME request'[z].step = "drop_route", NEW p \in Permissions,
             perms'[p].route \in request'[z].got
      PROVE  Touched(p)' \subseteq unsettled'
  <2>1. request[z].step = "drop_route" /\ perms'[p].route \in request[z].got
    BY <1>1, <1>8 DEF Goes
  <2>2. CASE perms'[p].route # perms[p].route
    BY <1>3, <2>2
  <2>3. CASE perms'[p].route = perms[p].route /\ request[z].alone
    <3>1. request[z].on \in Permissions
      BY <1>1, <2>1, LocalTypes DEF CoverInv, FlightInv, Fits
    <3>2. request[z].got = {perms[request[z].on].route}
      BY <1>1, <2>1, <2>3 DEF CoverInv, FlightInv, Fresh
    <3>3. p = request[z].on
      BY <2>1, <2>3, <3>1, <3>2 DEF CoverInv, FlightInv, Distinct
    <3> QED
      BY <1>2, <1>3, <3>3
  <2>4. CASE perms'[p].route = perms[p].route /\ ~request[z].alone
    BY <1>2, <1>3, <2>1, <2>4 DEF CoverInv, Overlapping, Covered
  <2> QED
    BY <2>2, <2>3, <2>4
<1>9. request'[z].step = "apply_holder" => request'[z].step \in {"read_holder", "apply_holder"}
  OBVIOUS
<1> QED
  BY <1>5, <1>6, <1>7, <1>8, <1>9 DEF Covered

LEMMA CoverBegin ==
  ASSUME CoverInv, FlightInv', NEW q \in Requests, NEW local \in Locals, Begin(q, local),
         local.step \notin {"idle", "read_holder", "apply_holder"},
         local.step \in RoleSteps => local.on \in Roles /\ local.code = roles[local.on].code,
         local.step = "drop_route" =>
           local.on \in Permissions /\ local.got = {perms[local.on].route},
         \A r \in Roles : roles'[r].code = roles[r].code,
         \A p \in Permissions : perms'[p].route = perms[p].route,
         NEW extra, extra = {} \/ (extra = {local.on} /\ local.on \in Subjects),
         \A on : Touched(on)' \subseteq Touched(on) \cup extra
  PROVE  CoverInv'
<1>1. /\ Goes(q, local) /\ request'[q].alone = (InFlight = {}) /\ InFlight' = InFlight \cup {q}
  BY Begun, BeginFlight DEF CoverInv, FlightInv
<1>2. CASE InFlight = {}
  BY <1>1, <1>2 DEF CoverInv, Overlapping
<1>3. CASE InFlight # {}
  <2>1. PICK lonely : Disturb([x \in {q} |-> lonely], InFlight, Touched(local.on))
    BY <1>3 DEF Begin
  <2>2. Touched(local.on) \subseteq unsettled'
    BY <2>1 DEF Disturb
  <2>3. extra \subseteq unsettled'
    BY <2>2, TouchesItself
  <2>4. ASSUME NEW z \in InFlight
        PROVE  Covered(z)'
    <3>1. z # q
      BY DEF Begin, InFlight
    <3> QED
      BY <2>1, <2>3, <2>4, <3>1, CoverDisturbed
  <2>5. ASSUME NEW on, on = local.on
        PROVE  Touched(on)' \subseteq unsettled'
    BY <2>2, <2>3, <2>5
  <2>6. ASSUME local.step \in RoleSteps, NEW r \in Roles, roles'[r].code = local.code
        PROVE  Touched(r)' \subseteq unsettled'
    <3>1. r = local.on
      BY <2>6 DEF CoverInv, FlightInv, Distinct
    <3> QED
      BY <2>5, <3>1
  <2>7. ASSUME local.step = "drop_route", NEW p \in Permissions, perms'[p].route \in local.got
        PROVE  Touched(p)' \subseteq unsettled'
    <3>1. p = local.on
      BY <2>7 DEF CoverInv, FlightInv, Distinct
    <3> QED
      BY <2>5, <3>1
  <2>8. Covered(q)'
    BY <1>1, <2>5, <2>6, <2>7 DEF Covered, Goes
  <2> QED
    BY <1>1, <2>4, <2>8 DEF CoverInv, Overlapping
<1> QED
  BY <1>2, <1>3

\* A request that goes on to its next step.
GoesOn(q, local) ==
  /\ q \in InFlight /\ local \in Locals /\ Go(q, local)
  /\ local.step \notin {"idle", "drop_route"}
  /\ local.alone = request[q].alone /\ local.on = request[q].on /\ request[q].on \in Subjects
  /\ local.step \in RoleSteps => request[q].step \in RoleSteps /\ local.code = request[q].code

HolderSteps == {"read_holder", "apply_holder"}

LEMMA UserGoes ==
  ASSUME TypeInv, NEW q \in Requests, ClearRoles(q) \/ InsertRole(q) \/ ReadCodes(q)
  PROVE  \E local : GoesOn(q, local) /\ local.step \notin HolderSteps
<1> USE DEF UserSteps, RoleSteps, PermissionSteps, EnableSteps, HolderSteps
<1>1. /\ request[q] \in Locals
      /\ request[q].step \in UserSteps /\ request[q].on \in Users /\ request[q].on \in Subjects
  BY LocalTypes DEF ClearRoles, InsertRole, ReadCodes, Step, At, Fits, Subjects
<1>2. q \in InFlight
  BY <1>1 DEF InFlight, At
<1>3. CASE ClearRoles(q)
  <2> DEFINE local == [request[q] EXCEPT !.step = "insert_role"]
  <2>1. GoesOn(q, local) /\ local.step \notin HolderSteps
    BY <1>1, <1>2, <1>3 DEF ClearRoles, Step, GoesOn, Locals, Steps
  <2> QED
    BY <2>1
<1>4. CASE InsertRole(q)
  <2>1. PICK r : Go(q, [request[q] EXCEPT !.want = @ \ {r}])
    BY <1>4 DEF InsertRole
  <2> DEFINE local == [request[q] EXCEPT !.want = @ \ {r}]
  <2>2. GoesOn(q, local) /\ local.step \notin HolderSteps
    BY <1>1, <1>2, <1>4, <2>1 DEF InsertRole, At, GoesOn, Locals, Steps
  <2> QED
    BY <2>2
<1>5. CASE ReadCodes(q)
  <2> DEFINE local == [request[q] EXCEPT !.step = "apply_user", !.got = UserCodes(request[q].on)]
  <2>1. UserCodes(request[q].on) \subseteq Codes
    BY <1>1, CodesAndRoutes DEF TypeInv
  <2>2. GoesOn(q, local) /\ local.step \notin HolderSteps
    BY <1>1, <1>2, <1>5, <2>1 DEF ReadCodes, GoesOn, Locals, Steps
  <2> QED
    BY <2>2
<1> QED
  BY <1>3, <1>4, <1>5

LEMMA RoleGoes ==
  ASSUME TypeInv, NEW q \in Requests,
         \/ ClearPermissions(q) \/ InsertPermission(q) \/ ReadRoutes(q)
         \/ ReadRole(q) \/ ApplyEnabled(q)
  PROVE  \E local : GoesOn(q, local) /\ local.step \notin HolderSteps
<1> USE DEF UserSteps, RoleSteps, PermissionSteps, EnableSteps, HolderSteps
<1>1. /\ request[q] \in Locals
      /\ request[q].step \in RoleSteps /\ request[q].on \in Roles /\ request[q].on \in Subjects
  BY LocalTypes DEF ClearPermissions, InsertPermission, ReadRoutes, ReadRole, ApplyEnabled,
                    Step, At, Fits, Subjects
<1>2. q \in InFlight
  BY <1>1 DEF InFlight, At
<1>3. RoleRoutes(request[q].on) \subseteq Routes
  BY <1>1, CodesAndRoutes DEF TypeInv
<1>4. CASE ClearPermissions(q)
  <2> DEFINE local == [request[q] EXCEPT !.step = "insert_permission"]
  <2>1. GoesOn(q, local) /\ local.step \notin HolderSteps
    BY <1>1, <1>2, <1>4 DEF ClearPermissions, Step, GoesOn, Locals, Steps
  <2> QED
    BY <2>1
<1>5. CASE InsertPermission(q)
  <2>1. PICK p : Go(q, [request[q] EXCEPT !.want = @ \ {p}])
    BY <1>5 DEF InsertPermission
  <2> DEFINE local == [request[q] EXCEPT !.want = @ \ {p}]
  <2>2. GoesOn(q, local) /\ local.step \notin HolderSteps
    BY <1>1, <1>2, <1>5, <2>1 DEF InsertPermission, At, GoesOn, Locals, Steps
  <2> QED
    BY <2>2
<1>6. CASE ReadRoutes(q)
  <2> DEFINE local == [request[q] EXCEPT !.step = "apply_role", !.got = RoleRoutes(request[q].on)]
  <2>1. GoesOn(q, local) /\ local.step \notin HolderSteps
    BY <1>1, <1>2, <1>3, <1>6 DEF ReadRoutes, GoesOn, Locals, Steps
  <2> QED
    BY <2>1
<1>7. CASE ReadRole(q)
  <2> DEFINE local ==
        [request[q] EXCEPT !.step = "apply_enabled", !.got = RoleRoutes(request[q].on)]
  <2>1. GoesOn(q, local) /\ local.step \notin HolderSteps
    BY <1>1, <1>2, <1>3, <1>7 DEF ReadRole, GoesOn, Locals, Steps
  <2> QED
    BY <2>1
<1>8. CASE ApplyEnabled(q)
  <2> DEFINE local == [request[q] EXCEPT !.step = "find_holders"]
  <2>1. GoesOn(q, local) /\ local.step \notin HolderSteps
    BY <1>1, <1>2, <1>8 DEF ApplyEnabled, Step, GoesOn, Locals, Steps
  <2> QED
    BY <2>1
<1> QED
  BY <1>4, <1>5, <1>6, <1>7, <1>8

LEMMA KeyGoes ==
  ASSUME TypeInv, NEW q \in Requests, InsertKey(q) \/ ReadUsage(q) \/ WriteUsage(q) \/ WriteKey(q)
  PROVE  \E local : GoesOn(q, local) /\ local.step \notin HolderSteps
<1> USE DEF UserSteps, RoleSteps, PermissionSteps, EnableSteps, HolderSteps, KeySteps, ExchangeSteps
<1>1. /\ request[q] \in Locals
      /\ request[q].step \in KeySteps /\ request[q].on \in Keys /\ request[q].on \in Subjects
  BY LocalTypes DEF InsertKey, ReadUsage, WriteUsage, WriteKey, Step, At, Fits, Subjects
<1>2. q \in InFlight
  BY <1>1 DEF InFlight, At
<1>3. CASE InsertKey(q)
  <2> DEFINE local == [request[q] EXCEPT !.step = "read_usage"]
  <2>1. GoesOn(q, local) /\ local.step \notin HolderSteps
    BY <1>1, <1>2, <1>3 DEF InsertKey, Step, GoesOn, Locals, Steps
  <2> QED
    BY <2>1
<1>4. CASE ReadUsage(q)
  <2> DEFINE local ==
        [request[q] EXCEPT !.step = "write_usage", !.count = used[request[q].token]]
  <2>1. used[request[q].token] \in Nat
    BY <1>4, LocalTypes DEF ReadUsage, At, Fits, TypeInv, TypeOK
  <2>2. GoesOn(q, local) /\ local.step \notin HolderSteps
    BY <1>1, <1>2, <1>4, <2>1 DEF ReadUsage, GoesOn, Locals, Steps
  <2> QED
    BY <2>2
<1>5. CASE WriteUsage(q) \/ WriteKey(q)
  <2> DEFINE local == [request[q] EXCEPT !.step = "apply_key"]
  <2>1. GoesOn(q, local) /\ local.step \notin HolderSteps
    BY <1>1, <1>2, <1>5 DEF WriteUsage, WriteKey, Step, GoesOn, Locals, Steps
  <2> QED
    BY <2>1
<1> QED
  BY <1>3, <1>4, <1>5

\* The three steps that give the holders of an enabled role their codes back.
LEMMA HolderGoes ==
  ASSUME TypeInv, NEW q \in Requests, FindHolders(q) \/ ReadHolder(q) \/ ApplyHolder(q)
  PROVE  \E local :
           /\ GoesOn(q, local) /\ request[q].on \in Roles
           /\ \/ FindHolders(q) /\ local.step = "read_holder" /\ local.want = Holders(request[q].on)
              \/ /\ ReadHolder(q) /\ local.step = "apply_holder" /\ request[q].step = "read_holder"
                 /\ \E u \in request[q].want :
                      /\ local.holder = u /\ local.want = request[q].want \ {u}
                      /\ local.got = UserCodes(u)
              \/ /\ ApplyHolder(q) /\ local.step = "read_holder" /\ request[q].step = "apply_holder"
                 /\ local.want = request[q].want
<1> USE DEF UserSteps, RoleSteps, PermissionSteps, EnableSteps
<1>1. /\ request[q] \in Locals /\ Fits(request[q])
      /\ request[q].step \in RoleSteps /\ request[q].on \in Roles /\ request[q].on \in Subjects
  BY LocalTypes DEF FindHolders, ReadHolder, ApplyHolder, Step, At, Fits, Subjects
<1>2. q \in InFlight
  BY <1>1 DEF InFlight, At
<1>3. CASE FindHolders(q)
  <2> DEFINE local ==
        [request[q] EXCEPT !.step = "read_holder", !.want = Holders(request[q].on)]
  <2>1. Holders(request[q].on) \subseteq Users
    BY DEF Holders, TypeInv, TypeOK
  <2>2. /\ GoesOn(q, local)
        /\ local.step = "read_holder" /\ local.want = Holders(request[q].on)
    BY <1>1, <1>2, <1>3, <2>1 DEF FindHolders, GoesOn, Locals, Steps
  <2> QED
    BY <1>1, <1>3, <2>2
<1>4. CASE ReadHolder(q)
  <2>1. PICK u \in request[q].want :
          Go(q, [request[q] EXCEPT !.step = "apply_holder", !.want = @ \ {u},
                                   !.got = UserCodes(u), !.holder = u])
    BY <1>4 DEF ReadHolder
  <2> DEFINE local == [request[q] EXCEPT !.step = "apply_holder", !.want = @ \ {u},
                                         !.got = UserCodes(u), !.holder = u]
  <2>2. u \in Users /\ UserCodes(u) \subseteq Codes
    BY <1>1, <1>4, CodesAndRoutes DEF ReadHolder, At, Fits, TypeInv
  <2>3. /\ GoesOn(q, local) /\ local.step = "apply_holder" /\ request[q].step = "read_holder"
        /\ local.holder = u /\ local.want = request[q].want \ {u} /\ local.got = UserCodes(u)
    BY <1>1, <1>2, <1>4, <2>1, <2>2 DEF ReadHolder, At, GoesOn, Locals, Steps
  <2> QED
    BY <1>1, <1>4, <2>3
<1>5. CASE ApplyHolder(q)
  <2> DEFINE local == [request[q] EXCEPT !.step = "read_holder"]
  <2>1. /\ GoesOn(q, local) /\ local.step = "read_holder" /\ request[q].step = "apply_holder"
        /\ local.want = request[q].want
    BY <1>1, <1>2, <1>5 DEF ApplyHolder, Step, At, GoesOn, Locals, Steps
  <2> QED
    BY <1>1, <1>5, <2>1
<1> QED
  BY <1>3, <1>4, <1>5

\* What the steps of a request in flight do to the tables.
LEMMA GoTouches ==
  ASSUME TypeInv, NEW q \in InFlight, request[q].on \in Subjects,
         \/ ClearRoles(q) \/ InsertRole(q) \/ ReadCodes(q)
         \/ ClearPermissions(q) \/ InsertPermission(q) \/ ReadRoutes(q)
         \/ ReadRole(q) \/ ApplyEnabled(q) \/ FindHolders(q) \/ ReadHolder(q) \/ ApplyHolder(q)
         \/ InsertKey(q) \/ ReadUsage(q) \/ WriteUsage(q) \/ WriteKey(q)
  PROVE  /\ \A on : Touched(on)' \subseteq Touched(on) \cup {request[q].on}
         /\ roles' = roles /\ perms' = perms /\ users' = users
<1>1. CASE \/ ReadCodes(q) \/ ReadRoutes(q) \/ ReadRole(q) \/ ApplyEnabled(q) \/ FindHolders(q)
           \/ ReadHolder(q) \/ ApplyHolder(q) \/ ReadUsage(q) \/ WriteUsage(q)
  <2>1. UNCHANGED <<users, roles, perms, holds, grants, keys>>
    BY <1>1 DEF ReadCodes, ReadRoutes, ReadRole, ApplyEnabled, FindHolders, ReadHolder,
                ApplyHolder, ReadUsage, WriteUsage, tables
  <2> QED
    BY <2>1, TouchedGrows
<1>2. CASE ClearRoles(q) \/ InsertRole(q)
  <2>1. /\ UNCHANGED <<users, roles, perms, grants, keys>>
        /\ \A u \in Users : u # request[q].on => holds'[u] = holds[u]
    BY <1>2 DEF ClearRoles, InsertRole, TypeInv, TypeOK
  <2>2. users \subseteq Users
    BY DEF TypeInv, TypeOK
  <2> QED
    BY <2>1, <2>2, TouchedGrows
<1>3. CASE ClearPermissions(q) \/ InsertPermission(q)
  <2>1. /\ UNCHANGED <<users, roles, perms, holds, keys>>
        /\ \A r \in Roles : r # request[q].on => grants'[r] = grants[r]
    BY <1>3 DEF ClearPermissions, InsertPermission, TypeInv, TypeOK
  <2> QED
    BY <2>1, TouchedGrows
<1>4. CASE InsertKey(q) \/ WriteKey(q)
  <2>1. /\ UNCHANGED <<users, roles, perms, holds, grants>>
        /\ \A k \in Keys : k # request[q].on => keys'[k] = keys[k]
    BY <1>4 DEF InsertKey, WriteKey, TypeInv, TypeOK
  <2> QED
    BY <2>1, TouchedGrows
<1> QED
  BY <1>1, <1>2, <1>3, <1>4

LEMMA GoCovers ==
  ASSUME CoverInv, FlightInv', NEW q \in Requests,
         \/ ClearRoles(q) \/ InsertRole(q) \/ ReadCodes(q)
         \/ ClearPermissions(q) \/ InsertPermission(q) \/ ReadRoutes(q)
         \/ ReadRole(q) \/ ApplyEnabled(q)
         \/ InsertKey(q) \/ ReadUsage(q) \/ WriteUsage(q) \/ WriteKey(q)
  PROVE  CoverInv'
<1>1. PICK local : GoesOn(q, local) /\ local.step \notin HolderSteps
  BY UserGoes, RoleGoes, KeyGoes DEF CoverInv, FlightInv
<1>2. /\ \A on : Touched(on)' \subseteq Touched(on) \cup {request[q].on}
      /\ roles' = roles /\ perms' = perms
  BY <1>1, GoTouches DEF GoesOn, CoverInv, FlightInv
<1> QED
  BY <1>1, <1>2, CoverGo DEF GoesOn, HolderSteps

LEMMA HolderCovers ==
  ASSUME CoverInv, FlightInv', NEW q \in Requests,
         FindHolders(q) \/ ReadHolder(q) \/ ApplyHolder(q)
  PROVE  CoverInv'
<1>1. PICK local :
           /\ GoesOn(q, local) /\ request[q].on \in Roles
           /\ \/ FindHolders(q) /\ local.step = "read_holder" /\ local.want = Holders(request[q].on)
              \/ /\ ReadHolder(q) /\ local.step = "apply_holder" /\ request[q].step = "read_holder"
                 /\ \E u \in request[q].want :
                      /\ local.holder = u /\ local.want = request[q].want \ {u}
                      /\ local.got = UserCodes(u)
              \/ /\ ApplyHolder(q) /\ local.step = "read_holder" /\ request[q].step = "apply_holder"
                 /\ local.want = request[q].want
  BY HolderGoes DEF CoverInv, FlightInv
<1>2. /\ \A on : Touched(on)' \subseteq Touched(on) \cup {request[q].on}
      /\ roles' = roles /\ perms' = perms
  BY <1>1, GoTouches DEF GoesOn, CoverInv, FlightInv
<1>3. ASSUME ~request[q].alone
      PROVE  /\ local.step \in HolderSteps => local.want \subseteq unsettled
             /\ local.step = "apply_holder" => local.holder \in unsettled
  <2>1. Covered(q) /\ Holders(request[q].on) \subseteq Touched(request[q].on)
    BY <1>1, <1>3, TouchedOfRole DEF CoverInv, Overlapping, GoesOn
  <2> QED
    BY <1>1, <2>1 DEF Covered, HolderSteps
<1> QED
  BY <1>1, <1>2, <1>3, CoverGo DEF GoesOn, HolderSteps

LEMMA EndCovers ==
  ASSUME CoverInv, FlightInv', NEW q \in Requests,
         \/ ApplyUser(q) \/ ApplyRole(q) \/ DropRole(q) \/ EndEnable(q) \/ RevokeRoute(q)
         \/ ApplyKey(q) \/ DropKey(q) \/ Stops(q) \/ StopsHalfway(q)
  PROVE  CoverInv'
<1>1. q \in InFlight
  BY DEF ApplyUser, ApplyRole, DropRole, EndEnable, RevokeRoute, ApplyKey, DropKey, Stops,
         StopsHalfway, InFlight, At
<1>2. UNCHANGED tables
  BY DEF ApplyUser, ApplyRole, DropRole, EndEnable, RevokeRoute, ApplyKey, DropKey, Stops,
         StopsHalfway
<1>3. \E settled, left : End(q, settled, left)
  BY DEF ApplyUser, ApplyRole, DropRole, EndEnable, RevokeRoute, ApplyKey, DropKey, Stops,
         StopsHalfway
<1> QED
  BY <1>1, <1>2, <1>3, CoverEnd

\* A request begins with what the tables say.
Begins(q, step, on) ==
  \E local \in Locals :
    /\ Begin(q, local) /\ local.step = step /\ local.on = on
    /\ step \in RoleSteps => local.code = roles[on].code
    /\ step = "drop_route" => local.got = {perms[on].route}

LEMMA BeginsWith ==
  ASSUME TypeInv, NEW q \in Requests
  PROVE  /\ \A u \in Users, wanted \in SUBSET Roles :
              /\ SyncUserRoles(q, u, wanted) => Begins(q, "clear_roles", u)
              /\ CreateAdmin(q, u, wanted) => Begins(q, "apply_user", u)
         /\ \A r \in Roles :
              /\ \A wanted \in SUBSET Permissions :
                   SyncRolePermissions(q, r, wanted) => Begins(q, "clear_permissions", r)
              /\ Disable(q, r) => Begins(q, "drop_role", r)
              /\ Enable(q, r) => Begins(q, "read_role", r)
         /\ \A p \in Permissions : DeletePermission(q, p) => Begins(q, "drop_route", p)
         /\ \A k \in Keys :
              /\ \A t \in Tokens : Exchange(q, t, k) => Begins(q, "insert_key", k)
              /\ \A r \in Roles : ChangeRole(q, k, r) => Begins(q, "write_key", k)
              /\ Revoke(q, k) => Begins(q, "drop_key", k)
<1>1. TypeInv
  OBVIOUS
<1>2. ASSUME NEW u \in Users, NEW wanted \in SUBSET Roles, SyncUserRoles(q, u, wanted)
      PROVE  Begins(q, "clear_roles", u)
  <2> DEFINE local == [New("clear_roles", u) EXCEPT !.want = wanted]
  <2>1. /\ local \in Locals /\ Begin(q, local)
        /\ local.step = "clear_roles" /\ local.on = u
    BY <1>1, <1>2, UserLocals DEF SyncUserRoles, New, Idle
  <2> HIDE DEF local
  <2> QED
    BY <2>1 DEF Begins, RoleSteps, PermissionSteps, EnableSteps
<1>3. ASSUME NEW r \in Roles, NEW wanted \in SUBSET Permissions,
             SyncRolePermissions(q, r, wanted)
      PROVE  Begins(q, "clear_permissions", r)
  <2> DEFINE local == 
        [New("clear_permissions", r) EXCEPT !.want = wanted, !.code = roles[r].code]
  <2>1. /\ local \in Locals /\ Begin(q, local)
        /\ local.step = "clear_permissions" /\ local.on = r /\ local.code = roles[r].code
    BY <1>1, <1>3, RoleLocals DEF SyncRolePermissions, New, Idle
  <2> HIDE DEF local
  <2> QED
    BY <2>1 DEF Begins, RoleSteps, PermissionSteps, EnableSteps
<1>4. ASSUME NEW r \in Roles, Disable(q, r)
      PROVE  Begins(q, "drop_role", r)
  <2> DEFINE local == [New("drop_role", r) EXCEPT !.code = roles[r].code]
  <2>1. /\ local \in Locals /\ Begin(q, local)
        /\ local.step = "drop_role" /\ local.on = r /\ local.code = roles[r].code
    BY <1>1, <1>4, RoleLocals DEF Disable, New, Idle
  <2> HIDE DEF local
  <2> QED
    BY <2>1 DEF Begins, RoleSteps, PermissionSteps, EnableSteps
<1>5. ASSUME NEW r \in Roles, Enable(q, r)
      PROVE  Begins(q, "read_role", r)
  <2> DEFINE local == [New("read_role", r) EXCEPT !.code = roles[r].code]
  <2>1. /\ local \in Locals /\ Begin(q, local)
        /\ local.step = "read_role" /\ local.on = r /\ local.code = roles[r].code
    BY <1>1, <1>5, RoleLocals DEF Enable, New, Idle
  <2> HIDE DEF local
  <2> QED
    BY <2>1 DEF Begins, RoleSteps, PermissionSteps, EnableSteps
<1>6. ASSUME NEW p \in Permissions, DeletePermission(q, p)
      PROVE  Begins(q, "drop_route", p)
  <2> DEFINE local == [New("drop_route", p) EXCEPT !.got = {perms[p].route}]
  <2>1. /\ local \in Locals /\ Begin(q, local)
        /\ local.step = "drop_route" /\ local.on = p /\ local.got = {perms[p].route}
    BY <1>1, <1>6, PermissionLocals DEF DeletePermission, New, Idle
  <2> HIDE DEF local
  <2> QED
    BY <2>1 DEF Begins, RoleSteps, PermissionSteps, EnableSteps
<1>7. ASSUME NEW k \in Keys, NEW t \in Tokens, Exchange(q, t, k)
      PROVE  Begins(q, "insert_key", k)
  <2> DEFINE local == 
        [New("insert_key", k) EXCEPT
           !.role = TokenRole[t], !.code = roles[TokenRole[t]].code, !.token = t]
  <2>1. /\ local \in Locals /\ Begin(q, local)
        /\ local.step = "insert_key" /\ local.on = k
    BY <1>1, <1>7, KeyLocals, AccessControlConstants DEF Exchange, New, Idle
  <2> HIDE DEF local
  <2> QED
    BY <2>1 DEF Begins, RoleSteps, PermissionSteps, EnableSteps
<1>8. ASSUME NEW k \in Keys, NEW r \in Roles, ChangeRole(q, k, r)
      PROVE  Begins(q, "write_key", k)
  <2> DEFINE local == [New("write_key", k) EXCEPT !.role = r, !.code = roles[r].code]
  <2>1. /\ local \in Locals /\ Begin(q, local)
        /\ local.step = "write_key" /\ local.on = k
    BY <1>1, <1>8, KeyLocals DEF ChangeRole, New, Idle
  <2> HIDE DEF local
  <2> QED
    BY <2>1 DEF Begins, RoleSteps, PermissionSteps, EnableSteps
<1>9. ASSUME NEW k \in Keys, Revoke(q, k)
      PROVE  Begins(q, "drop_key", k)
  <2> DEFINE local == New("drop_key", k)
  <2>1. /\ local \in Locals /\ Begin(q, local)
        /\ local.step = "drop_key" /\ local.on = k
    BY <1>1, <1>9 DEF Revoke, New, Idle, Locals, Steps
  <2> HIDE DEF local
  <2> QED
    BY <2>1 DEF Begins, RoleSteps, PermissionSteps, EnableSteps
<1>10. ASSUME NEW u \in Users, NEW wanted \in SUBSET Roles, CreateAdmin(q, u, wanted)
      PROVE  Begins(q, "apply_user", u)
  <2> DEFINE local == [New("apply_user", u) EXCEPT !.got = {roles[r].code : r \in wanted}]
  <2>1. /\ local \in Locals /\ Begin(q, local)
        /\ local.step = "apply_user" /\ local.on = u
    BY <1>1, <1>10, UserLocals DEF CreateAdmin, New, Idle
  <2> HIDE DEF local
  <2> QED
    BY <2>1 DEF Begins, RoleSteps, PermissionSteps, EnableSteps
<1> QED
  BY <1>2, <1>3, <1>4, <1>5, <1>6, <1>7, <1>8, <1>9, <1>10

\* What a request changes in the tables when it begins: the flags of a row at most.
LEMMA BeginTables ==
  ASSUME TypeInv, NEW q \in Requests,
         \/ \E u \in Users, wanted \in SUBSET Roles : SyncUserRoles(q, u, wanted)
         \/ \E r \in Roles, wanted \in SUBSET Permissions : SyncRolePermissions(q, r, wanted)
         \/ \E r \in Roles : Disable(q, r) \/ Enable(q, r)
         \/ \E p \in Permissions : DeletePermission(q, p)
         \/ \E k \in Keys : \/ \E t \in Tokens : Exchange(q, t, k)
                            \/ \E r \in Roles : ChangeRole(q, k, r)
                            \/ Revoke(q, k)
  PROVE  /\ UNCHANGED <<users, holds, grants>> /\ \A k \in Keys : keys'[k].role = keys[k].role
         /\ \A r \in Roles : roles'[r].code = roles[r].code
         /\ \A p \in Permissions : perms'[p].route = perms[p].route
<1>1. CASE \/ \E u \in Users, wanted \in SUBSET Roles : SyncUserRoles(q, u, wanted)
           \/ \E r \in Roles, wanted \in SUBSET Permissions : SyncRolePermissions(q, r, wanted)
           \/ \E k \in Keys : \/ \E t \in Tokens : Exchange(q, t, k)
                              \/ \E r \in Roles : ChangeRole(q, k, r)
  <2>1. UNCHANGED tables
    BY <1>1 DEF SyncUserRoles, SyncRolePermissions, Exchange, ChangeRole
  <2> QED
    BY <2>1 DEF tables
<1>2. ASSUME NEW r \in Roles, Disable(q, r) \/ Enable(q, r)
      PROVE  /\ UNCHANGED <<users, perms, holds, grants, keys>>
             /\ \A x \in Roles : roles'[x].code = roles[x].code
  <2>1. /\ UNCHANGED <<users, perms, holds, grants, keys>>
        /\ \E b \in BOOLEAN : roles' = [roles EXCEPT ![r].active = b]
    BY <1>2 DEF Disable, Enable
  <2> QED
    BY <2>1 DEF TypeInv, TypeOK
<1>3. ASSUME NEW p \in Permissions, DeletePermission(q, p)
      PROVE  /\ UNCHANGED <<users, roles, holds, grants, keys>>
             /\ \A x \in Permissions : perms'[x].route = perms[x].route
  BY <1>3 DEF DeletePermission, TypeInv, TypeOK
<1>4. ASSUME NEW k \in Keys, Revoke(q, k)
      PROVE  /\ UNCHANGED <<users, roles, holds, grants, perms>>
             /\ \A x \in Keys : keys'[x].role = keys[x].role
  BY <1>4 DEF Revoke, TypeInv, TypeOK
<1> QED
  BY <1>1, <1>2, <1>3, <1>4

LEMMA BeginCovers ==
  ASSUME CoverInv, FlightInv', NEW q \in Requests,
         \/ \E u \in Users, wanted \in SUBSET Roles : SyncUserRoles(q, u, wanted)
         \/ \E r \in Roles, wanted \in SUBSET Permissions : SyncRolePermissions(q, r, wanted)
         \/ \E r \in Roles : Disable(q, r) \/ Enable(q, r)
         \/ \E p \in Permissions : DeletePermission(q, p)
         \/ \E k \in Keys : \/ \E t \in Tokens : Exchange(q, t, k)
                            \/ \E r \in Roles : ChangeRole(q, k, r)
                            \/ Revoke(q, k)
  PROVE  CoverInv'
<1> USE DEF RoleSteps, PermissionSteps, EnableSteps
<1>1. TypeInv
  BY DEF CoverInv, FlightInv
<1>2. /\ \A on : Touched(on)' \subseteq Touched(on) \cup {}
      /\ \A r \in Roles : roles'[r].code = roles[r].code
      /\ \A p \in Permissions : perms'[p].route = perms[p].route
  <2>1. /\ UNCHANGED <<users, holds, grants>> /\ \A k \in Keys : keys'[k].role = keys[k].role
        /\ \A r \in Roles : roles'[r].code = roles[r].code
        /\ \A p \in Permissions : perms'[p].route = perms[p].route
    BY <1>1, BeginTables
  <2> QED
    BY <2>1, TouchedGrows
<1>3. PICK step, on :
        /\ step \in {"clear_roles", "clear_permissions", "drop_role", "read_role", "drop_route",
                    "insert_key", "write_key", "drop_key"}
        /\ Begins(q, step, on)
        /\ step \in RoleSteps => on \in Roles
        /\ step = "drop_route" => on \in Permissions
  BY <1>1, BeginsWith
<1> QED
  BY <1>2, <1>3, CoverBegin DEF Begins

LEMMA CreateCovers ==
  ASSUME CoverInv, FlightInv', NEW q \in Requests, NEW u \in Users, NEW wanted \in SUBSET Roles,
         CreateAdmin(q, u, wanted)
  PROVE  CoverInv'
<1>1. TypeInv /\ users \subseteq Users
  BY DEF CoverInv, FlightInv, TypeInv, TypeOK
<1> DEFINE local == [New("apply_user", u) EXCEPT !.got = {roles[r].code : r \in wanted}]
<1>2. local \in Locals
  BY <1>1, UserLocals
<1>3. Begin(q, local) /\ local.step = "apply_user" /\ local.on = u
  BY DEF CreateAdmin, New, Idle
<1>4. /\ UNCHANGED <<roles, perms, grants, keys>>
      /\ \A x \in users' : x \notin {u} => x \in users /\ holds'[x] \subseteq holds[x]
  BY <1>1 DEF CreateAdmin, CoverInv, FlightInv, TypeInv, TypeOK
<1>5. \A on : Touched(on)' \subseteq Touched(on) \cup {u}
  BY <1>4, TouchedGrows
<1> HIDE DEF local
<1>6. PICK extra : extra = {local.on} /\ local.on \in Subjects /\ extra = {u}
  BY <1>3 DEF Subjects
<1>7. local.step \notin RoleSteps
  BY <1>3 DEF RoleSteps, PermissionSteps, EnableSteps
<1> QED
  BY <1>2, <1>3, <1>4, <1>5, <1>6, <1>7, CoverBegin

LEMMA SingleCovers ==
  ASSUME CoverInv, FlightInv', SingleRequest
  PROVE  CoverInv'
<1>1. PICK changes : /\ Single(changes) /\ UNCHANGED <<users, holds, grants, keys>>
                     /\ \A r \in Roles : roles'[r].code = roles[r].code \/ Touched(r) \subseteq changes
                     /\ \A p \in Permissions :
                          perms'[p].route = perms[p].route \/ Touched(p) \subseteq changes
  <2>1. ASSUME NEW r \in Roles, NEW code \in Codes, UpdateRole(r, code)
        PROVE  /\ Single(Touched(r)) /\ UNCHANGED <<users, perms, holds, grants, keys>>
               /\ \A x \in Roles : x # r => roles'[x].code = roles[x].code
    BY <2>1 DEF UpdateRole, CoverInv, FlightInv, TypeInv, TypeOK
  <2>2. ASSUME NEW p \in Permissions,
               RestorePermission(p) \/ \E route \in Routes : UpdatePermission(p, route)
        PROVE  /\ Single(Touched(p)) /\ UNCHANGED <<users, roles, holds, grants, keys>>
               /\ \A x \in Permissions : x # p => perms'[x].route = perms[x].route
    BY <2>2 DEF RestorePermission, UpdatePermission, CoverInv, FlightInv, TypeInv, TypeOK
  <2> QED
    BY <2>1, <2>2 DEF SingleRequest
<1>2. PICK local : DOMAIN local = {} /\ Disturb(local, InFlight, changes)
  BY <1>1 DEF Single
<1>3. changes \subseteq unsettled'
  BY <1>2 DEF Disturb
<1>4. \A on : Touched(on)' \subseteq Touched(on) \cup {}
  BY <1>1, TouchedGrows
<1>5. ASSUME NEW z \in InFlight
      PROVE  Covered(z)'
  BY <1>1, <1>2, <1>3, <1>4, <1>5, CoverDisturbed
<1>6. InFlight' = InFlight
  BY <1>1, SingleFlight DEF CoverInv, FlightInv
<1> QED
  BY <1>5, <1>6 DEF CoverInv, Overlapping

LEMMA CoverStep ==
  ASSUME CoverInv, [Next]_vars
  PROVE  CoverInv'
<1>1. FlightInv'
  BY FlightStep DEF CoverInv
<1>2. CASE UNCHANGED vars
  <2>1. InFlight' = InFlight
    BY <1>2 DEF vars, InFlight, At
  <2>2. ASSUME NEW z \in InFlight
        PROVE  Covered(z) => Covered(z)'
    BY <1>2 DEF vars, tables, Covered, Touched, Holders, KeysOf
  <2> QED
    BY <1>1, <1>2, <2>1, <2>2 DEF vars, CoverInv, Overlapping
<1>3. CASE SingleRequest
  BY <1>1, <1>3, SingleCovers
<1>4. ASSUME NEW q \in Requests, UserRequest(q)
      PROVE  CoverInv'
  BY <1>1, <1>4, BeginCovers, CreateCovers, GoCovers, EndCovers DEF UserRequest
<1>5. ASSUME NEW q \in Requests, RoleRequest(q)
      PROVE  CoverInv'
  BY <1>1, <1>5, BeginCovers, GoCovers, HolderCovers, EndCovers DEF RoleRequest
<1>6. ASSUME NEW q \in Requests, PermissionRequest(q) \/ KeyRequest(q)
      PROVE  CoverInv'
  BY <1>1, <1>6, BeginCovers, GoCovers, EndCovers DEF PermissionRequest, KeyRequest
<1>7. ASSUME NEW q \in Requests, Stops(q) \/ StopsHalfway(q)
      PROVE  CoverInv'
  BY <1>1, <1>7, EndCovers
<1> QED
  BY <1>2, <1>3, <1>4, <1>5, <1>6, <1>7 DEF Next

LEMMA CoverInit ==
  ASSUME Init
  PROVE  CoverInv
<1>1. InFlight = {}
  BY DEF Init, InFlight, At, Idle
<1> QED
  BY <1>1, FlightInit DEF CoverInv, Overlapping

----------------------------------------------------------------------------
(* The enforcer and the tables: they agree but about what is open, which is what is unsettled  *)
(* and what the requests in flight may change                                                   *)

CodesIn(s) == {c \in Codes : <<s, c>> \in groups}

RulesOf(r) == {x \in Routes : <<roles[r].code, x>> \in rules}

CodeOf(k) == roles[keys[k].role].code

UsersAgree(S) == \A u \in users \ S : CodesIn(u) = UserCodes(u)

RolesAgree(S) == \A r \in Roles \ S : roles[r].active => RulesOf(r) = RoleRoutes(r)

KeysAgree(S) == \A k \in Keys \ S : Authenticated(k) => CodesIn(k) = {CodeOf(k)}

Agree(S) == UsersAgree(S) /\ RolesAgree(S) /\ KeysAgree(S)

Open == unsettled \cup UNION {Touched(request[q].on) : q \in InFlight}

\* What a request that runs alone has done so far.
Own(q) ==
  LET local == request[q]
      r == local.on
  IN /\ local.step \in PermissionSteps => UsersAgree(unsettled) /\ KeysAgree(unsettled)
     /\ local.step = "drop_role" =>
          /\ KeysAgree(unsettled)
          /\ \A u \in users \ unsettled : CodesIn(u) \ {local.code} = UserCodes(u)
     /\ local.step \in {"find_holders", "read_holder", "apply_holder"} =>
          RulesOf(r) = RoleRoutes(r)
     /\ local.step \in HolderSteps =>
          \A u \in Holders(r) \ local.want :
            CodesIn(u) = UserCodes(u) \/ (local.step = "apply_holder" /\ u = local.holder)
     /\ local.step = "drop_route" =>
          \A x \in Roles \ unsettled : roles[x].active => RulesOf(x) \ local.got = RoleRoutes(x)

AgreeInv == CoverInv /\ Agree(Open) /\ \A q \in Requests : request[q].alone => Own(q)

\* Outside S a step leaves the tables and the enforcer as they were.
Steady(S) ==
  /\ \A u \in users' \ S :
       u \in users /\ UserCodes(u)' = UserCodes(u) /\ CodesIn(u)' = CodesIn(u)
  /\ \A r \in Roles \ S : roles'[r].active =>
       roles[r].active /\ RoleRoutes(r)' = RoleRoutes(r) /\ RulesOf(r)' = RulesOf(r)
  /\ \A k \in Keys \ S : Authenticated(k)' =>
       Authenticated(k) /\ CodeOf(k)' = CodeOf(k) /\ CodesIn(k)' = CodesIn(k)

LEMMA SteadyAgrees ==
  ASSUME NEW S, NEW T, S \subseteq T, Agree(S), Steady(T)
  PROVE  Agree(T)'
BY DEF Agree, UsersAgree, RolesAgree, KeysAgree, Steady

\* The tables change inside S, and the enforcer does not change.
LEMMA RowsMove ==
  ASSUME NEW S, UNCHANGED <<roles, perms, enforcer>>,
         \A u \in users' \ S : u \in users /\ holds'[u] = holds[u],
         \A r \in Roles \ S : grants'[r] = grants[r],
         \A k \in Keys \ S : keys'[k] = keys[k]
  PROVE  Steady(S)
<1>1. \A u \in users' \ S : u \in users /\ UserCodes(u)' = UserCodes(u) /\ CodesIn(u)' = CodesIn(u)
  BY DEF UserCodes, CodesIn, enforcer
<1>2. \A r \in Roles \ S : roles'[r].active =>
        roles[r].active /\ RoleRoutes(r)' = RoleRoutes(r) /\ RulesOf(r)' = RulesOf(r)
  BY DEF RoleRoutes, RulesOf, enforcer
<1>3. \A k \in Keys \ S : Authenticated(k)' =>
       Authenticated(k) /\ CodeOf(k)' = CodeOf(k) /\ CodesIn(k)' = CodesIn(k)
  BY DEF Authenticated, Valid, CodeOf, CodesIn, enforcer
<1> QED
  BY <1>1, <1>2, <1>3 DEF Steady

LEMMA RoleMoves ==
  ASSUME TypeInv, NEW S, NEW r \in Roles, UNCHANGED <<users, perms, holds, grants, keys, enforcer>>,
         \A x \in Roles : x # r => roles'[x] = roles[x],
         Touched(r) \subseteq S
  PROVE  Steady(S)
<1>1. r \in S /\ (\A u \in users \ S : r \notin holds[u]) /\ \A k \in Keys \ S : keys[k].role # r
  BY TouchedOfRole DEF Holders, KeysOf
<1>2. \A u \in users' \ S : u \in users /\ UserCodes(u)' = UserCodes(u) /\ CodesIn(u)' = CodesIn(u)
  <2>1. ASSUME NEW u \in users' \ S
        PROVE  UserCodes(u)' = UserCodes(u)
    <3>1. \A x \in holds[u] : roles'[x] = roles[x]
      BY <1>1 DEF TypeInv, TypeOK
    <3> QED
      BY <3>1 DEF UserCodes
  <2> QED
    BY <2>1 DEF CodesIn, enforcer
<1>3. \A x \in Roles \ S : roles'[x].active =>
        roles[x].active /\ RoleRoutes(x)' = RoleRoutes(x) /\ RulesOf(x)' = RulesOf(x)
  BY <1>1 DEF RoleRoutes, RulesOf, enforcer
<1>4. \A k \in Keys \ S : Authenticated(k)' =>
       Authenticated(k) /\ CodeOf(k)' = CodeOf(k) /\ CodesIn(k)' = CodesIn(k)
  <2>1. ASSUME NEW k \in Keys \ S, Valid(k)
        PROVE  roles'[keys[k].role] = roles[keys[k].role]
    BY <1>1, <2>1 DEF Valid, TypeInv, TypeOK
  <2> QED
    BY <2>1 DEF Authenticated, Valid, CodeOf, CodesIn, enforcer
<1> QED
  BY <1>2, <1>3, <1>4 DEF Steady

LEMMA PermissionMoves ==
  ASSUME TypeInv, NEW S, NEW p \in Permissions,
         UNCHANGED <<users, roles, holds, grants, keys, enforcer>>,
         \A x \in Permissions : x # p => perms'[x] = perms[x],
         Touched(p) \subseteq S
  PROVE  Steady(S)
<1>1. \A r \in Roles \ S : p \notin grants[r]
  BY TouchedOfPermission
<1>2. \A u \in users' \ S : u \in users /\ UserCodes(u)' = UserCodes(u) /\ CodesIn(u)' = CodesIn(u)
  BY DEF UserCodes, CodesIn, enforcer
<1>3. \A r \in Roles \ S : roles'[r].active =>
        roles[r].active /\ RoleRoutes(r)' = RoleRoutes(r) /\ RulesOf(r)' = RulesOf(r)
  <2>1. ASSUME NEW r \in Roles \ S
        PROVE  RoleRoutes(r)' = RoleRoutes(r)
    <3>1. \A x \in grants[r] : perms'[x] = perms[x]
      BY <1>1 DEF TypeInv, TypeOK
    <3> QED
      BY <3>1 DEF RoleRoutes
  <2> QED
    BY <2>1 DEF RulesOf, enforcer
<1>4. \A k \in Keys \ S : Authenticated(k)' =>
       Authenticated(k) /\ CodeOf(k)' = CodeOf(k) /\ CodesIn(k)' = CodesIn(k)
  BY DEF Authenticated, Valid, CodeOf, CodesIn, enforcer
<1> QED
  BY <1>2, <1>3, <1>4 DEF Steady

\* What each operation of the enforcer does, one subject and one code at a time.
LEMMA SetUserEffect ==
  ASSUME NEW s, NEW codes \in SUBSET Codes, SetUser(s, codes)
  PROVE  /\ {c \in Codes : <<s, c>> \in groups'} = codes
         /\ \A y : y # s => {c \in Codes : <<y, c>> \in groups'} = CodesIn(y)
         /\ rules' = rules
BY DEF SetUser, CodesIn

LEMMA SetRoleEffect ==
  ASSUME NEW code, NEW routes \in SUBSET Routes, SetRole(code, routes)
  PROVE  /\ {x \in Routes : <<code, x>> \in rules'} = routes
         /\ \A c, x : c # code => (<<c, x>> \in rules' <=> <<c, x>> \in rules)
         /\ groups' = groups
BY DEF SetRole

LEMMA DropCodeEffect ==
  ASSUME NEW code, DropCode(code)
  PROVE  /\ \A c, x : c # code => (<<c, x>> \in rules' <=> <<c, x>> \in rules)
         /\ \A s : {c \in Codes : <<s, c>> \in groups'} = CodesIn(s) \ {code}
BY DEF DropCode, CodesIn

LEMMA DropRouteEffect ==
  ASSUME NEW route, DropRoute(route)
  PROVE  /\ \A c : {x \in Routes : <<c, x>> \in rules'} = {x \in Routes : <<c, x>> \in rules} \ {route}
         /\ groups' = groups
BY DEF DropRoute

\* When the tables stay as they are, what they say stays too.
LEMMA TablesSame ==
  ASSUME UNCHANGED tables
  PROVE  /\ users' = users /\ roles' = roles
         /\ \A u : UserCodes(u)' = UserCodes(u)
         /\ \A r : RoleRoutes(r)' = RoleRoutes(r) /\ Holders(r)' = Holders(r) /\ KeysOf(r)' = KeysOf(r)
         /\ \A k : Authenticated(k)' = Authenticated(k) /\ CodeOf(k)' = CodeOf(k)
         /\ \A on : Touched(on)' = Touched(on)
BY DEF tables, UserCodes, RoleRoutes, Holders, KeysOf, Authenticated, Valid, CodeOf, Touched

LEMMA SetUserSteady ==
  ASSUME UNCHANGED tables, NEW S, NEW s \in S, NEW codes \in SUBSET Codes, SetUser(s, codes)
  PROVE  Steady(S)
<1>1. /\ \A y : y # s => CodesIn(y)' = CodesIn(y)
      /\ \A r \in Roles : RulesOf(r)' = RulesOf(r)
  BY SetUserEffect, TablesSame DEF CodesIn, RulesOf
<1> QED
  BY <1>1, TablesSame DEF Steady

LEMMA SetRoleSteady ==
  ASSUME UNCHANGED tables, NEW S, NEW code, NEW routes \in SUBSET Routes, SetRole(code, routes),
         \A r \in Roles : roles[r].code = code => r \in S
  PROVE  Steady(S)
<1>1. /\ \A y : CodesIn(y)' = CodesIn(y)
      /\ \A r \in Roles : roles[r].code # code => RulesOf(r)' = RulesOf(r)
  BY SetRoleEffect, TablesSame DEF CodesIn, RulesOf
<1> QED
  BY <1>1, TablesSame DEF Steady

\* A code or a route that only what is open has goes without any other noticing.
LEMMA DropCodeSteady ==
  ASSUME TypeInv, UNCHANGED tables, NEW S, NEW code, DropCode(code), Agree(S),
         \A r \in Roles : roles[r].code = code => Touched(r) \subseteq S
  PROVE  Steady(S)
<1>1. /\ \A s : CodesIn(s)' = CodesIn(s) \ {code}
      /\ \A r \in Roles : roles[r].code # code => RulesOf(r)' = RulesOf(r)
  BY DropCodeEffect, TablesSame DEF CodesIn, RulesOf
<1>2. \A r \in Roles : roles[r].code = code =>
        r \in S /\ (\A u \in users \ S : r \notin holds[u]) /\ \A k \in Keys \ S : keys[k].role # r
  BY TouchedOfRole DEF Holders, KeysOf
<1>3. ASSUME NEW u \in users \ S
      PROVE  CodesIn(u)' = CodesIn(u)
  <2>1. CodesIn(u) = UserCodes(u) /\ holds[u] \subseteq Roles
    BY DEF Agree, UsersAgree, TypeInv, TypeOK
  <2>2. code \notin UserCodes(u)
    BY <1>2, <2>1 DEF UserCodes
  <2> QED
    BY <1>1, <2>1, <2>2
<1>4. ASSUME NEW k \in Keys \ S, Authenticated(k)
      PROVE  CodesIn(k)' = CodesIn(k)
  <2>1. CodesIn(k) = {CodeOf(k)} /\ keys[k].role \in Roles
    BY <1>4 DEF Agree, KeysAgree, Authenticated, Valid, TypeInv, TypeOK
  <2>2. code # CodeOf(k)
    BY <1>2, <2>1 DEF CodeOf
  <2> QED
    BY <1>1, <2>1, <2>2
<1> QED
  BY <1>1, <1>2, <1>3, <1>4, TablesSame DEF Steady

LEMMA DropRouteSteady ==
  ASSUME TypeInv, UNCHANGED tables, NEW S, NEW route, DropRoute(route), Agree(S),
         \A p \in Permissions : perms[p].route = route => Touched(p) \subseteq S
  PROVE  Steady(S)
<1>1. /\ \A s : CodesIn(s)' = CodesIn(s)
      /\ \A r \in Roles : RulesOf(r)' = RulesOf(r) \ {route}
  BY DropRouteEffect, TablesSame DEF CodesIn, RulesOf
<1>2. \A p \in Permissions : perms[p].route = route => \A r \in Roles \ S : p \notin grants[r]
  BY TouchedOfPermission
<1>3. ASSUME NEW r \in Roles \ S, roles[r].active
      PROVE  RulesOf(r)' = RulesOf(r)
  <2>1. RulesOf(r) = RoleRoutes(r) /\ grants[r] \subseteq Permissions
    BY <1>3 DEF Agree, RolesAgree, TypeInv, TypeOK
  <2>2. route \notin RoleRoutes(r)
    BY <1>2, <2>1 DEF RoleRoutes
  <2> QED
    BY <1>1, <2>1, <2>2
<1> QED
  BY <1>1, <1>3, TablesSame DEF Steady

\* What is open before and after a step.
LEMMA OpenNow ==
  ASSUME CoverInv
  PROVE  /\ (\A q \in InFlight : ~request[q].alone) => Open = unsettled
         /\ \A q \in InFlight : ~request[q].alone => Open = unsettled
         /\ \A q \in InFlight : request[q].alone => Open = unsettled \cup Touched(request[q].on)
<1>1. (\A q \in InFlight : ~request[q].alone) => Open = unsettled
  BY DEF CoverInv, Overlapping, Covered, Open
<1>2. \A q, x \in InFlight : request[x].alone => x = q
  BY DEF CoverInv, FlightInv, Alone, InFlight
<1>3. \A q \in InFlight : request[q].alone => InFlight = {q}
  BY DEF CoverInv, FlightInv, Alone, InFlight
<1> QED
  BY <1>1, <1>2, <1>3 DEF Open

LEMMA OpenDisturbed ==
  ASSUME NEW local, NEW changes, Disturb(local, InFlight, changes)
  PROVE  Open \cup changes \subseteq Open'
BY DEF Disturb, Open

LEMMA OpenBegin ==
  ASSUME TypeInv, Alone, NEW q \in Requests, NEW local \in Locals, local.step # "idle",
         Begin(q, local), \A on : Touched(on) \subseteq Touched(on)'
  PROVE  Open \cup Touched(local.on) \subseteq Open'
<1>1. CASE InFlight # {}
  <2>1. PICK lonely : Disturb([x \in {q} |-> lonely], InFlight, Touched(local.on))
    BY <1>1 DEF Begin
  <2> QED
    BY <2>1, OpenDisturbed
<1>2. CASE InFlight = {}
  <2>1. Open = unsettled /\ unsettled \subseteq unsettled'
    BY <1>2 DEF Open, Begin, Disturb
  <2>2. q \in InFlight' /\ request'[q].on = local.on
    BY Begun, BeginFlight DEF Goes
  <2>3. \A on : on = local.on => Touched(on)' \subseteq Open'
    BY <2>2 DEF Open
  <2> QED
    BY <2>1, <2>3 DEF Open
<1> QED
  BY <1>1, <1>2

LEMMA OpenGoes ==
  ASSUME CoverInv, NEW q, NEW local, GoesOn(q, local),
         \A on : on = request[q].on => Touched(on) \subseteq Touched(on)'
  PROVE  Open \subseteq Open' /\ request[q].on \in Open'
<1>1. /\ q \in Requests /\ InFlight' = InFlight /\ request'[q].on = request[q].on
      /\ unsettled' = unsettled
  BY Gone, GoFlight DEF GoesOn, CoverInv, FlightInv, InFlight
<1>2. request[q].on \in Touched(request[q].on)
  BY TouchesItself DEF GoesOn
<1>3. CASE ~request[q].alone
  <2>1. Open = unsettled /\ Touched(request[q].on) \subseteq unsettled
    BY <1>3, OpenNow DEF GoesOn, CoverInv, Overlapping, Covered
  <2> QED
    BY <1>1, <1>2, <2>1 DEF Open
<1>4. CASE request[q].alone
  <2>1. Open = unsettled \cup Touched(request[q].on)
    BY <1>4, OpenNow DEF GoesOn
  <2>2. \A on : on = request[q].on => Touched(on)' \subseteq Open'
    BY <1>1 DEF Open, GoesOn
  <2> QED
    BY <1>1, <1>2, <2>1, <2>2 DEF Open
<1> QED
  BY <1>3, <1>4

LEMMA OpenEnds ==
  ASSUME CoverInv, CoverInv', NEW q \in InFlight, NEW settled, NEW left, End(q, settled, left)
  PROVE  /\ ~request[q].alone => Open' = Open /\ Open = unsettled
         /\ request[q].alone =>
              /\ Open = unsettled \cup Touched(request[q].on)
              /\ Open' = (unsettled \ settled) \cup left
              /\ \A x \in Requests : ~request'[x].alone
<1>1. /\ q \in Requests /\ InFlight' = InFlight \ {q}
      /\ \A x \in Requests : x # q => request'[x] = request[x]
      /\ ~request'[q].alone
      /\ unsettled' = IF request[q].alone THEN (unsettled \ settled) \cup left ELSE unsettled
  BY Ended, EndFlight DEF CoverInv, FlightInv, InFlight
<1>2. CASE ~request[q].alone
  <2>1. \A x \in InFlight : ~request[x].alone
    BY <1>2 DEF CoverInv, FlightInv, Alone, InFlight
  <2>2. \A x \in InFlight' : ~request'[x].alone
    BY <1>1, <2>1 DEF InFlight
  <2>3. Open' = unsettled'
    BY <2>2 DEF CoverInv, Overlapping, Covered, Open
  <2> QED
    BY <1>1, <1>2, <2>1, <2>3, OpenNow
<1>3. CASE request[q].alone
  <2>1. InFlight = {q} /\ InFlight' = {}
    BY <1>1, <1>3 DEF CoverInv, FlightInv, Alone
  <2>2. Open' = unsettled'
    BY <2>1 DEF Open
  <2>3. \A x \in Requests : ~request'[x].alone
    BY <1>1, <2>1 DEF CoverInv, FlightInv, Alone
  <2> QED
    BY <1>1, <1>3, <2>2, <2>3, OpenNow
<1> QED
  BY <1>2, <1>3

\* A request begins: what is open grows by what it may touch, and if it runs alone everything
\* else agrees.
LEMMA BeginOwn ==
  ASSUME TypeInv, NEW q \in Requests, InFlight = {}, NEW S, S = unsettled,
         NEW step \in {"clear_roles", "apply_user", "clear_permissions", "drop_role", "read_role",
                       "drop_route", "insert_key", "write_key", "drop_key"}, NEW on,
         Begins(q, step, on),
         step = "clear_permissions" => UsersAgree(S)' /\ KeysAgree(S)',
         step = "drop_role" =>
           /\ KeysAgree(S)'
           /\ \A u \in users' \ S : CodesIn(u)' \ {roles[on].code} = UserCodes(u)',
         step = "drop_route" =>
           \A x \in Roles \ S : roles'[x].active => RulesOf(x)' \ {perms[on].route} = RoleRoutes(x)'
  PROVE  Own(q)'
<1>1. PICK local \in Locals :
        /\ Begin(q, local) /\ local.step = step /\ local.on = on
        /\ step \in RoleSteps => local.code = roles[on].code
        /\ step = "drop_route" => local.got = {perms[on].route}
  BY DEF Begins
<1>2. Goes(q, local)
  BY <1>1, Begun
<1>3. unsettled' = S
  BY <1>1 DEF Begin, Disturb
<1>4. request'[q].step = step /\ request'[q].on = on
  BY <1>1, <1>2 DEF Goes
<1>5. step = "drop_role" => request'[q].code = roles[on].code
  BY <1>1, <1>2 DEF Goes, RoleSteps
<1>6. step = "drop_route" => request'[q].got = {perms[on].route}
  BY <1>1, <1>2 DEF Goes
<1>7. step \in PermissionSteps => UsersAgree(unsettled)' /\ KeysAgree(unsettled)'
  BY <1>3 DEF PermissionSteps, UsersAgree, KeysAgree
<1>8. step = "drop_role" => KeysAgree(unsettled)'
  BY <1>3 DEF KeysAgree
<1> QED
  BY <1>3, <1>4, <1>5, <1>6, <1>7, <1>8 DEF Own, HolderSteps

LEMMA BeginAgrees ==
  ASSUME AgreeInv, CoverInv', NEW q \in Requests, NEW step, step # "idle", NEW on,
         Begins(q, step, on), \A x : Touched(x) \subseteq Touched(x)',
         \A T : Touched(on) \subseteq T => Steady(T),
         InFlight = {} => Own(q)'
  PROVE  AgreeInv'
<1>1. PICK local \in Locals : Begin(q, local) /\ local.step = step /\ local.on = on
  BY DEF Begins
<1>2. TypeInv /\ Alone
  BY DEF AgreeInv, CoverInv, FlightInv
<1>3. PICK T : T = Open'
  OBVIOUS
<1>4. Open \cup Touched(on) \subseteq T
  BY <1>1, <1>2, <1>3, OpenBegin
<1>5. Agree(T)'
  BY <1>4, SteadyAgrees DEF AgreeInv
<1>6. Agree(Open)'
  BY <1>3, <1>5 DEF Agree, UsersAgree, RolesAgree, KeysAgree
<1>7. \A x \in Requests : request'[x].alone => x = q /\ InFlight = {}
  BY <1>1, <1>2, Begun
<1> QED
  BY <1>6, <1>7 DEF AgreeInv

\* The requests that begin without writing.
LEMMA AskAgrees ==
  ASSUME AgreeInv, CoverInv', NEW q \in Requests,
         \/ \E u \in Users, wanted \in SUBSET Roles : SyncUserRoles(q, u, wanted)
         \/ \E r \in Roles, wanted \in SUBSET Permissions : SyncRolePermissions(q, r, wanted)
         \/ \E k \in Keys : \/ \E t \in Tokens : Exchange(q, t, k)
                            \/ \E r \in Roles : ChangeRole(q, k, r)
  PROVE  AgreeInv'
<1>1. TypeInv
  BY DEF AgreeInv, CoverInv, FlightInv
<1>2. UNCHANGED <<tables, enforcer>>
  BY DEF SyncUserRoles, SyncRolePermissions, Exchange, ChangeRole
<1>3. PICK step, on :
        step \in {"clear_roles", "clear_permissions", "insert_key", "write_key"} /\ Begins(q, step, on)
  BY <1>1, BeginsWith
<1>4. \A x : Touched(x) \subseteq Touched(x)'
  BY <1>2, TablesSame
<1>5. \A T : Steady(T)
  <2>1. UNCHANGED <<users, roles, perms, holds, grants, keys, enforcer>>
    BY <1>2 DEF tables
  <2> QED
    BY <2>1, RowsMove
<1>6. ASSUME InFlight = {}
      PROVE  Own(q)'
  <2>1. PICK S : S = unsettled /\ S = Open
    BY <1>6 DEF Open
  <2>2. Agree(S)'
    BY <1>5, <2>1, SteadyAgrees DEF AgreeInv
  <2> QED
    BY <1>1, <1>3, <1>6, <2>1, <2>2, BeginOwn DEF Agree
<1> QED
  BY <1>3, <1>4, <1>5, <1>6, BeginAgrees

LEMMA EnableAgrees ==
  ASSUME AgreeInv, CoverInv', NEW q \in Requests, NEW r \in Roles, Enable(q, r)
  PROVE  AgreeInv'
<1>1. TypeInv
  BY DEF AgreeInv, CoverInv, FlightInv
<1>2. /\ UNCHANGED <<users, perms, holds, grants, keys, enforcer>>
      /\ \A x \in Roles : x # r => roles'[x] = roles[x]
  BY <1>1 DEF Enable, TypeInv, TypeOK
<1>3. \A x : Touched(x) \subseteq Touched(x)'
  BY <1>2 DEF Touched, Holders, KeysOf
<1>4. \A T : Touched(r) \subseteq T => Steady(T)
  BY <1>1, <1>2, RoleMoves
<1>5. Begins(q, "read_role", r)
  BY <1>1, BeginsWith
<1>6. InFlight = {} => Own(q)'
  BY <1>1, <1>5, BeginOwn
<1> QED
  BY <1>3, <1>4, <1>5, <1>6, BeginAgrees

LEMMA DisableAgrees ==
  ASSUME AgreeInv, CoverInv', NEW q \in Requests, NEW r \in Roles, Disable(q, r)
  PROVE  AgreeInv'
<1>1. TypeInv /\ Distinct
  BY DEF AgreeInv, CoverInv, FlightInv
<1>2. /\ UNCHANGED <<users, perms, holds, grants, keys, enforcer>>
      /\ \A x \in Roles : x # r => roles'[x] = roles[x]
      /\ roles[r].active /\ ~roles'[r].active /\ roles'[r].code = roles[r].code
  BY <1>1 DEF Disable, TypeInv, TypeOK
<1>3. \A x : Touched(x) \subseteq Touched(x)'
  BY <1>2 DEF Touched, Holders, KeysOf
<1>4. \A T : Touched(r) \subseteq T => Steady(T)
  BY <1>1, <1>2, RoleMoves
<1>5. Begins(q, "drop_role", r)
  BY <1>1, BeginsWith
<1>6. ASSUME InFlight = {}
      PROVE  Own(q)'
  <2>1. PICK S : S = unsettled /\ S = Open
    BY <1>6 DEF Open
  <2>2. Agree(S)
    BY <2>1 DEF AgreeInv
  <2>3. KeysAgree(S)'
    <3>1. ASSUME NEW k \in Keys \ S, Authenticated(k)'
          PROVE  CodesIn(k)' = {CodeOf(k)'}
      <4>1. keys[k].role \in Roles /\ keys[k].role # r /\ Authenticated(k) /\ CodeOf(k)' = CodeOf(k)
        BY <1>1, <1>2, <3>1 DEF Authenticated, Valid, CodeOf, TypeInv, TypeOK
      <4> QED
        BY <1>2, <2>2, <4>1 DEF Agree, KeysAgree, CodesIn, enforcer
    <3> QED
      BY <3>1 DEF KeysAgree
  <2>4. ASSUME NEW u \in users' \ S
        PROVE  CodesIn(u)' \ {roles[r].code} = UserCodes(u)'
    <3>1. CodesIn(u)' = UserCodes(u) /\ holds'[u] = holds[u] /\ holds[u] \subseteq Roles
      BY <1>1, <1>2, <2>2 DEF Agree, UsersAgree, CodesIn, enforcer, TypeInv, TypeOK
    <3>2. UserCodes(u) \ {roles[r].code} = UserCodes(u)'
      BY <1>1, <1>2, <3>1 DEF UserCodes, Distinct
    <3> QED
      BY <3>1, <3>2
  <2> QED
    BY <1>1, <1>5, <1>6, <2>1, <2>3, <2>4, BeginOwn
<1> QED
  BY <1>3, <1>4, <1>5, <1>6, BeginAgrees

LEMMA DeleteAgrees ==
  ASSUME AgreeInv, CoverInv', NEW q \in Requests, NEW p \in Permissions, DeletePermission(q, p)
  PROVE  AgreeInv'
<1>1. TypeInv /\ Distinct
  BY DEF AgreeInv, CoverInv, FlightInv
<1>2. /\ UNCHANGED <<users, roles, holds, grants, keys, enforcer>>
      /\ \A x \in Permissions : x # p => perms'[x] = perms[x]
      /\ perms'[p].deleted /\ ~perms[p].deleted
  BY <1>1 DEF DeletePermission, TypeInv, TypeOK
<1>3. \A x : Touched(x) \subseteq Touched(x)'
  BY <1>2 DEF Touched, Holders, KeysOf
<1>4. \A T : Touched(p) \subseteq T => Steady(T)
  BY <1>1, <1>2, PermissionMoves
<1>5. Begins(q, "drop_route", p)
  BY <1>1, BeginsWith
<1>6. ASSUME InFlight = {}
      PROVE  Own(q)'
  <2>1. PICK S : S = unsettled /\ S = Open
    BY <1>6 DEF Open
  <2>2. Agree(S)
    BY <2>1 DEF AgreeInv
  <2>3. ASSUME NEW x \in Roles \ S, roles'[x].active
        PROVE  RulesOf(x)' \ {perms[p].route} = RoleRoutes(x)'
    <3>1. RulesOf(x)' = RoleRoutes(x) /\ grants'[x] = grants[x] /\ grants[x] \subseteq Permissions
      BY <1>1, <1>2, <2>2, <2>3 DEF Agree, RolesAgree, RulesOf, enforcer, TypeInv, TypeOK
    <3>2. RoleRoutes(x) \ {perms[p].route} = RoleRoutes(x)'
      BY <1>1, <1>2, <3>1 DEF RoleRoutes, Distinct
    <3> QED
      BY <3>1, <3>2
  <2> QED
    BY <1>1, <1>5, <1>6, <2>1, <2>3, BeginOwn
<1> QED
  BY <1>3, <1>4, <1>5, <1>6, BeginAgrees

LEMMA RevokeAgrees ==
  ASSUME AgreeInv, CoverInv', NEW q \in Requests, NEW k \in Keys, Revoke(q, k)
  PROVE  AgreeInv'
<1>1. TypeInv
  BY DEF AgreeInv, CoverInv, FlightInv
<1>2. /\ UNCHANGED <<users, roles, perms, holds, grants, enforcer>>
      /\ \A x \in Keys : x # k => keys'[x] = keys[x]
      /\ \A x \in Keys : keys'[x].role = keys[x].role
  BY <1>1 DEF Revoke, TypeInv, TypeOK
<1>3. \A x : Touched(x) \subseteq Touched(x)'
  BY <1>2 DEF Touched, Holders, KeysOf
<1>4. k \in Touched(k)
  BY TouchesItself DEF Subjects
<1>5. \A T : Touched(k) \subseteq T => Steady(T)
  BY <1>2, <1>4, RowsMove
<1>6. Begins(q, "drop_key", k)
  BY <1>1, BeginsWith
<1>7. InFlight = {} => Own(q)'
  BY <1>1, <1>6, BeginOwn
<1> QED
  BY <1>3, <1>5, <1>6, <1>7, BeginAgrees

LEMMA CreateAgrees ==
  ASSUME AgreeInv, CoverInv', NEW q \in Requests, NEW u \in Users, NEW wanted \in SUBSET Roles,
         CreateAdmin(q, u, wanted)
  PROVE  AgreeInv'
<1>1. TypeInv /\ Existing
  BY DEF AgreeInv, CoverInv, FlightInv
<1>2. /\ UNCHANGED <<roles, perms, grants, keys, enforcer>> /\ users' = users \cup {u}
      /\ \A x \in Users : x # u => holds'[x] = holds[x]
      /\ holds[u] \subseteq holds'[u]
  BY <1>1 DEF CreateAdmin, Existing, TypeInv, TypeOK
<1>3. \A x : Touched(x) \subseteq Touched(x)'
  <2>1. users \subseteq Users
    BY <1>1 DEF TypeInv, TypeOK
  <2>2. \A r : Holders(r) \subseteq Holders(r)'
    BY <1>2, <2>1 DEF Holders
  <2> QED
    BY <1>2, <2>2 DEF Touched, KeysOf
<1>4. u \in Touched(u)
  BY TouchesItself DEF Subjects
<1>5. \A T : Touched(u) \subseteq T => Steady(T)
  <2>1. users \subseteq Users
    BY <1>1 DEF TypeInv, TypeOK
  <2> QED
    BY <1>2, <1>4, <2>1, RowsMove
<1>6. Begins(q, "apply_user", u)
  BY <1>1, BeginsWith
<1>7. InFlight = {} => Own(q)'
  BY <1>1, <1>6, BeginOwn
<1> QED
  BY <1>3, <1>5, <1>6, <1>7, BeginAgrees

LEMMA SingleAgrees ==
  ASSUME AgreeInv, CoverInv', SingleRequest
  PROVE  AgreeInv'
<1>1. TypeInv
  BY DEF AgreeInv, CoverInv, FlightInv
<1>2. PICK changes : Single(changes) /\ \A T : changes \subseteq T => Steady(T)
  <2>1. ASSUME NEW r \in Roles, NEW code \in Codes, UpdateRole(r, code)
        PROVE  Single(Touched(r)) /\ \A T : Touched(r) \subseteq T => Steady(T)
    <3>1. /\ Single(Touched(r)) /\ UNCHANGED <<users, perms, holds, grants, keys, enforcer>>
          /\ \A x \in Roles : x # r => roles'[x] = roles[x]
      BY <1>1, <2>1 DEF UpdateRole, Single, TypeInv, TypeOK
    <3> QED
      BY <1>1, <3>1, RoleMoves
  <2>2. ASSUME NEW p \in Permissions,
               RestorePermission(p) \/ \E route \in Routes : UpdatePermission(p, route)
        PROVE  Single(Touched(p)) /\ \A T : Touched(p) \subseteq T => Steady(T)
    <3>1. /\ Single(Touched(p)) /\ UNCHANGED <<users, roles, holds, grants, keys, enforcer>>
          /\ \A x \in Permissions : x # p => perms'[x] = perms[x]
      BY <1>1, <2>2 DEF RestorePermission, UpdatePermission, Single, TypeInv, TypeOK
    <3> QED
      BY <1>1, <3>1, PermissionMoves
  <2> QED
    BY <2>1, <2>2 DEF SingleRequest
<1>3. PICK T : T = Open'
  OBVIOUS
<1>4. Open \cup changes \subseteq T
  BY <1>2, <1>3, OpenDisturbed DEF Single
<1>5. Agree(T)'
  BY <1>2, <1>4, SteadyAgrees DEF AgreeInv
<1>6. Agree(Open)'
  BY <1>3, <1>5 DEF Agree, UsersAgree, RolesAgree, KeysAgree
<1>7. \A x \in Requests : ~request'[x].alone
  BY <1>1, <1>2, SingleFlight DEF AgreeInv, CoverInv, FlightInv
<1> QED
  BY <1>6, <1>7 DEF AgreeInv

\* A request goes on: what it may touch stays open, and it changes nothing else.
LEMMA GoAgrees ==
  ASSUME AgreeInv, CoverInv', NEW q \in Requests, NEW local, GoesOn(q, local),
         \A on : on = request[q].on => Touched(on) \subseteq Touched(on)',
         \A T : Open \subseteq T /\ request[q].on \in T => Steady(T),
         request[q].alone => Own(q)'
  PROVE  AgreeInv'
<1>1. PICK T : T = Open'
  OBVIOUS
<1>2. Open \subseteq T /\ request[q].on \in T
  BY <1>1, OpenGoes DEF AgreeInv
<1>3. Agree(T)'
  BY <1>2, SteadyAgrees DEF AgreeInv
<1>4. Agree(Open)'
  BY <1>1, <1>3 DEF Agree, UsersAgree, RolesAgree, KeysAgree
<1>5. TypeInv /\ local \in Locals /\ Go(q, local) /\ local.alone = request[q].alone
  BY DEF GoesOn, AgreeInv, CoverInv, FlightInv
<1>6. /\ \A x \in Requests : x # q => request'[x] = request[x]
      /\ request'[q].alone = request[q].alone
  BY <1>5, Gone
<1>7. ASSUME NEW x \in Requests, request'[x].alone
      PROVE  x = q /\ request[q].alone
  <2>1. q \in InFlight
    BY DEF GoesOn
  <2> QED
    BY <1>6, <1>7, <2>1 DEF AgreeInv, CoverInv, FlightInv, Alone
<1> QED
  BY <1>4, <1>7 DEF AgreeInv

\* The steps whose request owes nothing yet.
LEMMA RowsAgree ==
  ASSUME AgreeInv, CoverInv', NEW q \in Requests,
         \/ ClearRoles(q) \/ InsertRole(q) \/ ReadCodes(q) \/ ReadRole(q)
         \/ InsertKey(q) \/ ReadUsage(q) \/ WriteUsage(q) \/ WriteKey(q)
  PROVE  AgreeInv'
<1> USE DEF UserSteps, RoleSteps, PermissionSteps, EnableSteps, KeySteps, ExchangeSteps, HolderSteps
<1>1. TypeInv
  BY DEF AgreeInv, CoverInv, FlightInv
<1>2. PICK local : GoesOn(q, local)
  BY <1>1, UserGoes, RoleGoes, KeyGoes
<1>3. request' = [request EXCEPT ![q] = local] /\ request'[q] = local
  BY <1>1, <1>2 DEF GoesOn, Go, TypeInv, TypeOK
<1>4. request'[q].step \in {"insert_role", "apply_user", "apply_enabled", "read_usage",
                            "write_usage", "apply_key"}
  <2>1. request[q] \in Locals /\ request \in [Requests -> Locals]
    BY <1>1, LocalTypes DEF TypeInv, TypeOK
  <2>2. CASE ClearRoles(q) \/ InsertKey(q) \/ WriteUsage(q) \/ WriteKey(q)
    BY <2>1, <2>2 DEF ClearRoles, InsertKey, WriteUsage, WriteKey, Step, Go, Locals
  <2>3. CASE InsertRole(q)
    BY <2>1, <2>3 DEF InsertRole, At, Go, Locals
  <2>4. CASE ReadCodes(q) \/ ReadRole(q) \/ ReadUsage(q)
    BY <2>1, <2>4 DEF ReadCodes, ReadRole, ReadUsage, Go, Locals
  <2> QED
    BY <2>2, <2>3, <2>4
<1>5. Own(q)'
  BY <1>4 DEF Own
<1>6. UNCHANGED <<users, roles, perms, grants, enforcer>>
  BY DEF ClearRoles, InsertRole, ReadCodes, ReadRole, InsertKey, ReadUsage, WriteUsage, WriteKey,
         tables
<1>7. /\ \A u \in Users : u # request[q].on => holds'[u] = holds[u]
      /\ \A k \in Keys : k # request[q].on => keys'[k] = keys[k]
  BY <1>1 DEF ClearRoles, InsertRole, ReadCodes, ReadRole, InsertKey, ReadUsage, WriteUsage,
              WriteKey, tables, TypeInv, TypeOK
<1>8. \A T : request[q].on \in T => Steady(T)
  <2>1. users \subseteq Users
    BY <1>1 DEF TypeInv, TypeOK
  <2> QED
    BY <1>6, <1>7, <2>1, RowsMove
<1>9. ASSUME NEW on, on = request[q].on
      PROVE  Touched(on) \subseteq Touched(on)'
  <2>1. CASE on \in Users \cup Keys
    BY <2>1, AccessControlConstants DEF Touched
  <2>2. CASE on \notin Users \cup Keys
    <3>1. ReadRole(q)
      BY <1>1, <1>9, <2>2, LocalTypes
         DEF ClearRoles, InsertRole, ReadCodes, InsertKey, ReadUsage, WriteUsage, WriteKey,
             Step, At, Fits
    <3> QED
      BY <3>1, TablesSame DEF ReadRole
  <2> QED
    BY <2>1, <2>2
<1> QED
  BY <1>2, <1>5, <1>8, <1>9, GoAgrees

LEMMA PermissionsAgree ==
  ASSUME AgreeInv, CoverInv', NEW q \in Requests,
         ClearPermissions(q) \/ InsertPermission(q) \/ ReadRoutes(q)
  PROVE  AgreeInv'
<1> USE DEF UserSteps, RoleSteps, PermissionSteps, EnableSteps, HolderSteps
<1>1. TypeInv
  BY DEF AgreeInv, CoverInv, FlightInv
<1>2. PICK local : GoesOn(q, local)
  BY <1>1, RoleGoes
<1>3. UNCHANGED <<users, roles, perms, holds, keys, enforcer, unsettled>>
  BY DEF ClearPermissions, InsertPermission, ReadRoutes, Step, Go, tables
<1>4. \A r \in Roles : r # request[q].on => grants'[r] = grants[r]
  BY <1>1 DEF ClearPermissions, InsertPermission, ReadRoutes, tables, TypeInv, TypeOK
<1>5. \A T : request[q].on \in T => Steady(T)
  BY <1>3, <1>4, RowsMove
<1>6. request[q].step \in PermissionSteps /\ request'[q].step \in PermissionSteps
  <2>1. request[q] \in Locals /\ request \in [Requests -> Locals]
    BY <1>1, LocalTypes DEF TypeInv, TypeOK
  <2>2. CASE ClearPermissions(q)
    BY <2>1, <2>2 DEF ClearPermissions, Step, At, Go, Locals
  <2>3. CASE InsertPermission(q)
    BY <2>1, <2>3 DEF InsertPermission, At, Go, Locals
  <2>4. CASE ReadRoutes(q)
    BY <2>1, <2>4 DEF ReadRoutes, At, Go, Locals
  <2> QED
    BY <2>2, <2>3, <2>4
<1>7. ASSUME request[q].alone
      PROVE  Own(q)'
  <2>1. UsersAgree(unsettled) /\ KeysAgree(unsettled)
    BY <1>6, <1>7 DEF AgreeInv, Own
  <2>2. UsersAgree(unsettled)' /\ KeysAgree(unsettled)'
    BY <1>3, <2>1 DEF UsersAgree, KeysAgree, CodesIn, UserCodes, Authenticated, Valid, CodeOf,
                      enforcer
  <2> QED
    BY <1>6, <2>2 DEF Own
<1>8. \A on : on = request[q].on => Touched(on) \subseteq Touched(on)'
  <2>1. request[q].on \in Roles
    BY <1>1, <1>6, LocalTypes DEF Fits
  <2> QED
    BY <1>3, <2>1 DEF Touched, Holders, KeysOf
<1> QED
  BY <1>2, <1>5, <1>7, <1>8, GoAgrees

\* The rules of a role are the enforcer's part a request sets by the code it has read.
LEMMA CodeIsOpen ==
  ASSUME CoverInv, NEW q \in InFlight, request[q].step \in RoleSteps
  PROVE  \A r \in Roles : roles[r].code = request[q].code => Touched(r) \subseteq Open
<1>1. q \in Requests /\ request[q].on \in Roles
  BY LocalTypes DEF CoverInv, FlightInv, Fits, InFlight
<1>2. CASE request[q].alone
  <2>1. request[q].code = roles[request[q].on].code
    BY <1>1, <1>2 DEF CoverInv, FlightInv, Fresh
  <2>2. \A r \in Roles : roles[r].code = request[q].code => r = request[q].on
    BY <1>1, <2>1 DEF CoverInv, FlightInv, Distinct
  <2> QED
    BY <1>2, <2>2, OpenNow
<1>3. CASE ~request[q].alone
  BY <1>3, OpenNow DEF CoverInv, Overlapping, Covered
<1> QED
  BY <1>2, <1>3

LEMMA ApplyEnabledAgrees ==
  ASSUME AgreeInv, CoverInv', NEW q \in Requests, ApplyEnabled(q)
  PROVE  AgreeInv'
<1> USE DEF RoleSteps, PermissionSteps, EnableSteps, HolderSteps
<1>1. /\ TypeInv /\ CoverInv /\ request[q] \in Locals /\ request \in [Requests -> Locals]
      /\ request[q].step = "apply_enabled" /\ request[q].on \in Roles
      /\ request[q].got \in SUBSET Routes
  BY LocalTypes DEF ApplyEnabled, Step, At, Fits, AgreeInv, CoverInv, FlightInv, TypeInv, TypeOK
<1>2. PICK local : GoesOn(q, local)
  BY <1>1, RoleGoes
<1>3. /\ UNCHANGED tables /\ SetRole(request[q].code, request[q].got)
      /\ request'[q].step = "find_holders" /\ request'[q].on = request[q].on
  BY <1>1 DEF ApplyEnabled, Step, Go, Locals
<1>4. ASSUME NEW T, Open \subseteq T
      PROVE  Steady(T)
  <2>1. \A r \in Roles : roles[r].code = request[q].code => r \in T
    BY <1>1, <1>2, <1>4, CodeIsOpen, TouchedOfRole DEF GoesOn
  <2> QED
    BY <1>1, <1>3, <2>1, SetRoleSteady
<1>5. ASSUME request[q].alone
      PROVE  Own(q)'
  <2>1. /\ request[q].code = roles[request[q].on].code
        /\ request[q].got = RoleRoutes(request[q].on)
    BY <1>1, <1>5 DEF CoverInv, FlightInv, Fresh
  <2>2. \A r : r = request[q].on => RulesOf(r)' = RoleRoutes(r)'
    BY <1>1, <1>3, <2>1, SetRoleEffect, TablesSame DEF RulesOf
  <2> QED
    BY <1>3, <2>2 DEF Own
<1>6. \A on : Touched(on) \subseteq Touched(on)'
  BY <1>3, TablesSame
<1> QED
  BY <1>2, <1>4, <1>5, <1>6, GoAgrees

LEMMA HolderAgrees ==
  ASSUME AgreeInv, CoverInv', NEW q \in Requests,
         FindHolders(q) \/ ReadHolder(q) \/ ApplyHolder(q)
  PROVE  AgreeInv'
<1> USE DEF HolderSteps
<1>1. TypeInv /\ CoverInv
  BY DEF AgreeInv, CoverInv, FlightInv
<1>2. PICK local :
           /\ GoesOn(q, local) /\ request[q].on \in Roles
           /\ \/ FindHolders(q) /\ local.step = "read_holder" /\ local.want = Holders(request[q].on)
              \/ /\ ReadHolder(q) /\ local.step = "apply_holder" /\ request[q].step = "read_holder"
                 /\ \E u \in request[q].want :
                      /\ local.holder = u /\ local.want = request[q].want \ {u}
                      /\ local.got = UserCodes(u)
              \/ /\ ApplyHolder(q) /\ local.step = "read_holder" /\ request[q].step = "apply_holder"
                 /\ local.want = request[q].want
  BY <1>1, HolderGoes
<1>3. /\ request'[q] = local /\ unsettled' = unsettled /\ local.on = request[q].on
      /\ UNCHANGED tables /\ request[q].step \in {"find_holders", "read_holder", "apply_holder"}
  BY <1>1, <1>2, Gone DEF GoesOn, FindHolders, ReadHolder, ApplyHolder, Step, At
<1>4. ApplyHolder(q) =>
        /\ SetUser(request[q].holder, request[q].got)
        /\ request[q].holder \in Users /\ request[q].got \in SUBSET Codes
        /\ request[q].step = "apply_holder"
  BY <1>1, LocalTypes DEF ApplyHolder, Step, At, Fits
<1>5. FindHolders(q) \/ ReadHolder(q) => UNCHANGED enforcer
  BY DEF FindHolders, ReadHolder
<1>6. ASSUME NEW T, Open \subseteq T
      PROVE  Steady(T)
  <2>1. CASE ApplyHolder(q)
    <3>1. q \in InFlight
      BY <1>2 DEF GoesOn
    <3>2. CASE request[q].alone
      <4>1. request[q].holder \in Holders(request[q].on)
        BY <1>1, <1>4, <2>1, <3>2 DEF CoverInv, FlightInv, Fresh
      <4>2. request[q].holder \in T
        BY <1>1, <1>2, <1>6, <3>1, <3>2, <4>1, OpenNow, TouchedOfRole
      <4> QED
        BY <1>3, <1>4, <2>1, <4>2, SetUserSteady
    <3>3. CASE ~request[q].alone
      <4>1. request[q].holder \in T
        BY <1>1, <1>4, <1>6, <2>1, <3>1, <3>3, OpenNow DEF CoverInv, Overlapping, Covered
      <4> QED
        BY <1>3, <1>4, <2>1, <4>1, SetUserSteady
    <3> QED
      BY <3>2, <3>3
  <2>2. CASE FindHolders(q) \/ ReadHolder(q)
    <3>1. UNCHANGED <<users, roles, perms, holds, grants, keys, enforcer>>
      BY <1>3, <1>5, <2>2 DEF tables
    <3> QED
      BY <3>1, RowsMove
  <2> QED
    BY <2>1, <2>2
<1>7. ASSUME request[q].alone
      PROVE  Own(q)'
  <2>1. PICK r : r = request[q].on
    OBVIOUS
  <2>2. RulesOf(r) = RoleRoutes(r)
    BY <1>3, <1>7, <2>1 DEF AgreeInv, Own
  <2>3. RulesOf(r)' = RulesOf(r)
    <3>1. rules' = rules
      BY <1>2, <1>4, <1>5 DEF SetUser, enforcer
    <3> QED
      BY <1>3, <3>1, TablesSame DEF RulesOf
  <2>4. ASSUME NEW u \in Holders(r) \ local.want
        PROVE  CodesIn(u)' = UserCodes(u) \/ (local.step = "apply_holder" /\ u = local.holder)
    <3>1. CASE FindHolders(q) /\ local.want = Holders(request[q].on)
      BY <2>1, <2>4, <3>1
    <3>2. CASE ReadHolder(q) /\ ~ApplyHolder(q)
      <4>1. PICK x \in request[q].want :
              local.step = "apply_holder" /\ local.holder = x /\ local.want = request[q].want \ {x}
        BY <1>2, <1>3, <3>2 DEF FindHolders, ReadHolder, Step, At
      <4>2. request[q].step = "read_holder"
        BY <1>2, <3>2, <4>1
      <4>3. u = x \/ CodesIn(u) = UserCodes(u)
        BY <1>7, <2>1, <2>4, <4>1, <4>2 DEF AgreeInv, Own
      <4> QED
        BY <1>5, <3>2, <4>1, <4>3 DEF CodesIn, enforcer
    <3>3. CASE ApplyHolder(q)
      <4>1. local.want = request[q].want
        BY <1>2, <1>4, <3>3 DEF FindHolders, At
      <4>2. CodesIn(u) = UserCodes(u) \/ u = request[q].holder
        BY <1>4, <1>7, <2>1, <2>4, <3>3, <4>1 DEF AgreeInv, Own
      <4>3. request[q].got = UserCodes(request[q].holder)
        BY <1>1, <1>4, <1>7, <3>3 DEF CoverInv, FlightInv, Fresh
      <4>4. \A y : CodesIn(y)' = IF y = request[q].holder THEN request[q].got ELSE CodesIn(y)
        BY <1>4, <3>3, SetUserEffect DEF CodesIn
      <4> QED
        BY <4>2, <4>3, <4>4
    <3> QED
      BY <1>2, <3>1, <3>2, <3>3
  <2>5. \A u \in Holders(r)' \ request'[q].want :
          CodesIn(u)' = UserCodes(u)'
            \/ (request'[q].step = "apply_holder" /\ u = request'[q].holder)
    BY <1>3, <2>4, TablesSame
  <2>6. request'[q].on = r /\ request'[q].step \in HolderSteps
    BY <1>2, <1>3, <2>1
  <2>7. RulesOf(r)' = RoleRoutes(r)'
    BY <1>3, <2>2, <2>3, TablesSame
  <2> QED
    BY <2>5, <2>6, <2>7 DEF Own, PermissionSteps
<1>8. \A on : Touched(on) \subseteq Touched(on)'
  BY <1>3, TablesSame
<1> QED
  BY <1>2, <1>6, <1>7, <1>8, GoAgrees

\* A request ends: one that overlapped others leaves what was settled as it was, one that ran
\* alone settles its own.
LEMMA EndAgrees ==
  ASSUME AgreeInv, CoverInv', NEW q \in InFlight, NEW settled, NEW left, End(q, settled, left),
         NEW S, S = Open, NEW T, T = (unsettled \ settled) \cup left,
         ~request[q].alone => Steady(S),
         request[q].alone => Agree(T)'
  PROVE  AgreeInv'
<1>1. /\ ~request[q].alone => Open' = S
      /\ request[q].alone => Open' = T /\ \A x \in Requests : ~request'[x].alone
  BY OpenEnds DEF AgreeInv
<1>2. Agree(Open)'
  <2>1. CASE ~request[q].alone
    <3>1. Agree(S)'
      BY <2>1, SteadyAgrees DEF AgreeInv
    <3> QED
      BY <1>1, <2>1, <3>1 DEF Agree, UsersAgree, RolesAgree, KeysAgree
  <2>2. CASE request[q].alone
    BY <1>1, <2>2 DEF Agree, UsersAgree, RolesAgree, KeysAgree
  <2> QED
    BY <2>1, <2>2
<1>3. q \in Requests /\ TypeInv
  BY DEF InFlight, AgreeInv, CoverInv, FlightInv
<1>4. \A x \in Requests : ~request'[x].alone
  <2>1. CASE ~request[q].alone
    <3>1. \A x \in Requests : ~request[x].alone
      BY <2>1 DEF AgreeInv, CoverInv, FlightInv, Alone
    <3> QED
      BY <1>3, <3>1, Ended DEF Idle
  <2> QED
    BY <1>1, <2>1
<1> QED
  BY <1>2, <1>4 DEF AgreeInv

LEMMA OnIsOpen ==
  ASSUME CoverInv, NEW q \in InFlight, request[q].on \in Subjects
  PROVE  Touched(request[q].on) \subseteq Open /\ request[q].on \in Open
BY TouchesItself DEF Open

\* The subject of the request is set to what it should have.
LEMMA ApplyUserAgrees ==
  ASSUME AgreeInv, CoverInv', NEW q \in Requests, ApplyUser(q)
  PROVE  AgreeInv'
<1> DEFINE u == request[q].on
<1>1. /\ TypeInv /\ CoverInv /\ request[q].step = "apply_user" /\ q \in InFlight
      /\ request[q].on \in Users /\ request[q].got \in SUBSET Codes
  BY LocalTypes
     DEF ApplyUser, At, Fits, UserSteps, AgreeInv, CoverInv, FlightInv, InFlight
<1>2. SetUser(u, request[q].got) /\ UNCHANGED tables /\ End(q, {u}, {})
  BY DEF ApplyUser
<1>3. PICK S : S = Open
  OBVIOUS
<1>4. Steady(S)
  BY <1>1, <1>2, <1>3, OnIsOpen, SetUserSteady DEF Subjects
<1>5. PICK T : T = (unsettled \ {u}) \cup {}
  OBVIOUS
<1>6. ASSUME request[q].alone
      PROVE  Agree(T)'
  <2>1. S = unsettled \cup {u}
    BY <1>1, <1>3, <1>6, OpenNow, TouchedOfSubject
  <2>2. Agree(S)'
    BY <1>3, <1>4, SteadyAgrees DEF AgreeInv
  <2>3. \A s : s = u => CodesIn(s)' = UserCodes(s)'
    <3>1. request[q].got = UserCodes(u)
      BY <1>1, <1>6 DEF CoverInv, FlightInv, Fresh
    <3>2. {c \in Codes : <<u, c>> \in groups'} = request[q].got
      BY <1>1, <1>2, SetUserEffect
    <3> QED
      BY <1>2, <3>1, <3>2, TablesSame DEF CodesIn
  <2>4. u \notin Roles \cup Keys
    BY <1>1, AccessControlConstants
  <2> QED
    BY <1>5, <2>1, <2>2, <2>3, <2>4 DEF Agree, UsersAgree, RolesAgree, KeysAgree
<1> QED
  BY <1>1, <1>2, <1>3, <1>4, <1>5, <1>6, EndAgrees

LEMMA ApplyKeyAgrees ==
  ASSUME AgreeInv, CoverInv', NEW q \in Requests, ApplyKey(q)
  PROVE  AgreeInv'
<1> DEFINE k == request[q].on
<1>1. /\ TypeInv /\ CoverInv /\ request[q].step = "apply_key" /\ q \in InFlight
      /\ request[q].on \in Keys /\ {request[q].code} \in SUBSET Codes
  BY LocalTypes
     DEF ApplyKey, At, Fits, KeySteps, AgreeInv, CoverInv, FlightInv, InFlight
<1>2. SetUser(k, {request[q].code}) /\ UNCHANGED tables /\ End(q, {k}, {})
  BY DEF ApplyKey
<1>3. PICK S : S = Open
  OBVIOUS
<1>4. Steady(S)
  BY <1>1, <1>2, <1>3, OnIsOpen, SetUserSteady DEF Subjects
<1>5. PICK T : T = (unsettled \ {k}) \cup {}
  OBVIOUS
<1>6. ASSUME request[q].alone
      PROVE  Agree(T)'
  <2>1. S = unsettled \cup {k}
    BY <1>1, <1>3, <1>6, OpenNow, TouchedOfSubject
  <2>2. Agree(S)'
    BY <1>3, <1>4, SteadyAgrees DEF AgreeInv
  <2>3. \A s : s = k => CodesIn(s)' = {CodeOf(s)'}
    <3>1. request[q].code = CodeOf(k)
      BY <1>1, <1>6 DEF CoverInv, FlightInv, Fresh, KeySteps, CodeOf
    <3>2. {c \in Codes : <<k, c>> \in groups'} = {request[q].code}
      BY <1>1, <1>2, SetUserEffect
    <3> QED
      BY <1>2, <3>1, <3>2, TablesSame DEF CodesIn
  <2>4. k \notin Roles \cup Users
    BY <1>1, AccessControlConstants
  <2>5. users' \subseteq Users
    BY <1>1, <1>2, TablesSame DEF TypeInv, TypeOK
  <2> QED
    BY <1>5, <2>1, <2>2, <2>3, <2>4, <2>5 DEF Agree, UsersAgree, RolesAgree, KeysAgree
<1> QED
  BY <1>1, <1>2, <1>3, <1>4, <1>5, <1>6, EndAgrees

LEMMA DropKeyAgrees ==
  ASSUME AgreeInv, CoverInv', NEW q \in Requests, DropKey(q)
  PROVE  AgreeInv'
<1> DEFINE k == request[q].on
<1>1. /\ TypeInv /\ CoverInv /\ request[q].step = "drop_key" /\ q \in InFlight
      /\ request[q].on \in Keys
  BY LocalTypes
     DEF DropKey, At, Fits, KeySteps, AgreeInv, CoverInv, FlightInv, InFlight
<1>2. SetUser(k, {}) /\ UNCHANGED tables /\ End(q, {}, {})
  BY DEF DropKey
<1>3. PICK S : S = Open
  OBVIOUS
<1>4. Steady(S)
  BY <1>1, <1>2, <1>3, OnIsOpen, SetUserSteady DEF Subjects
<1>5. PICK T : T = (unsettled \ {}) \cup {}
  OBVIOUS
<1>6. ASSUME request[q].alone
      PROVE  Agree(T)'
  <2>1. S = unsettled \cup {k}
    BY <1>1, <1>3, <1>6, OpenNow, TouchedOfSubject
  <2>2. Agree(S)'
    BY <1>3, <1>4, SteadyAgrees DEF AgreeInv
  <2>3. \A s : s = k => ~Authenticated(s)'
    <3>1. keys[k].revoked
      BY <1>1, <1>6 DEF CoverInv, FlightInv, Fresh
    <3> QED
      BY <1>2, <3>1, TablesSame DEF Authenticated, Valid
  <2>4. k \notin Roles \cup Users
    BY <1>1, AccessControlConstants
  <2>5. users' \subseteq Users
    BY <1>1, <1>2, TablesSame DEF TypeInv, TypeOK
  <2> QED
    BY <1>5, <2>1, <2>2, <2>3, <2>4, <2>5 DEF Agree, UsersAgree, RolesAgree, KeysAgree
<1> QED
  BY <1>1, <1>2, <1>3, <1>4, <1>5, <1>6, EndAgrees

LEMMA ApplyRoleAgrees ==
  ASSUME AgreeInv, CoverInv', NEW q \in Requests, ApplyRole(q)
  PROVE  AgreeInv'
<1> DEFINE r == request[q].on
<1>1. /\ TypeInv /\ CoverInv /\ Distinct /\ request[q].step = "apply_role" /\ q \in InFlight
      /\ request[q].on \in Roles /\ request[q].got \in SUBSET Routes
      /\ request[q].step \in PermissionSteps /\ request[q].step \in RoleSteps
  BY LocalTypes
     DEF ApplyRole, At, Fits, RoleSteps, PermissionSteps, AgreeInv, CoverInv, FlightInv, InFlight
<1>2. SetRole(request[q].code, request[q].got) /\ UNCHANGED tables /\ End(q, {r}, {})
  BY DEF ApplyRole
<1>3. PICK S : S = Open
  OBVIOUS
<1>4. Steady(S)
  <2>1. \A x \in Roles : roles[x].code = request[q].code => x \in S
    BY <1>1, <1>3, CodeIsOpen, TouchedOfRole
  <2> QED
    BY <1>1, <1>2, <2>1, SetRoleSteady
<1>5. PICK T : T = (unsettled \ {r}) \cup {}
  OBVIOUS
<1>6. ASSUME request[q].alone
      PROVE  Agree(T)'
  <2>1. UsersAgree(unsettled) /\ KeysAgree(unsettled)
    BY <1>1, <1>6 DEF AgreeInv, Own
  <2>2. /\ \A s : CodesIn(s)' = CodesIn(s) /\ UserCodes(s)' = UserCodes(s)
        /\ \A k : Authenticated(k)' = Authenticated(k) /\ CodeOf(k)' = CodeOf(k)
        /\ users' = users /\ roles' = roles
    BY <1>1, <1>2, SetRoleEffect, TablesSame DEF CodesIn
  <2>3. r \notin Users \cup Keys /\ users \subseteq Users
    BY <1>1, AccessControlConstants DEF TypeInv, TypeOK
  <2>4. UsersAgree(T)' /\ KeysAgree(T)'
    BY <1>5, <2>1, <2>2, <2>3 DEF UsersAgree, KeysAgree
  <2>5. S \cap Roles \subseteq unsettled \cup {r}
    <3>1. S = unsettled \cup Touched(r)
      BY <1>1, <1>3, <1>6, OpenNow
    <3>2. Touched(r) \subseteq {r} \cup Users \cup Keys
      BY <1>1, <2>3, TouchedOfRole DEF Holders, KeysOf
    <3> QED
      BY <3>1, <3>2, AccessControlConstants
  <2>6. Agree(S)'
    BY <1>3, <1>4, SteadyAgrees DEF AgreeInv
  <2>7. \A x : x = r => RulesOf(x)' = RoleRoutes(x)'
    <3>1. request[q].got = RoleRoutes(r) /\ request[q].code = roles[r].code
      BY <1>1, <1>6 DEF CoverInv, FlightInv, Fresh
    <3>2. {x \in Routes : <<request[q].code, x>> \in rules'} = request[q].got
      BY <1>1, <1>2, SetRoleEffect
    <3> QED
      BY <1>2, <2>2, <3>1, <3>2, TablesSame DEF RulesOf
  <2>8. RolesAgree(T)'
    BY <1>5, <2>5, <2>6, <2>7 DEF Agree, RolesAgree
  <2> QED
    BY <2>4, <2>8 DEF Agree
<1> QED
  BY <1>1, <1>2, <1>3, <1>4, <1>5, <1>6, EndAgrees

LEMMA DropRoleAgrees ==
  ASSUME AgreeInv, CoverInv', NEW q \in Requests, DropRole(q)
  PROVE  AgreeInv'
<1> DEFINE r == request[q].on
<1>1. /\ TypeInv /\ CoverInv /\ Distinct /\ request[q].step = "drop_role" /\ q \in InFlight
      /\ request[q].on \in Roles /\ request[q].step \in RoleSteps
  BY LocalTypes DEF DropRole, At, Fits, RoleSteps, AgreeInv, CoverInv, FlightInv, InFlight
<1>2. DropCode(request[q].code) /\ UNCHANGED tables /\ End(q, {r}, {})
  BY DEF DropRole
<1>3. PICK S : S = Open
  OBVIOUS
<1>4. Steady(S)
  <2>1. \A x \in Roles : roles[x].code = request[q].code => Touched(x) \subseteq S
    BY <1>1, <1>3, CodeIsOpen
  <2> QED
    BY <1>1, <1>2, <1>3, <2>1, DropCodeSteady DEF AgreeInv
<1>5. PICK T : T = (unsettled \ {r}) \cup {}
  OBVIOUS
<1>6. ASSUME request[q].alone
      PROVE  Agree(T)'
  <2>1. /\ KeysAgree(unsettled) /\ request[q].code = roles[r].code /\ ~roles[r].active
        /\ \A u \in users \ unsettled : CodesIn(u) \ {request[q].code} = UserCodes(u)
    BY <1>1, <1>6 DEF AgreeInv, Own, CoverInv, FlightInv, Fresh
  <2>2. \A s : CodesIn(s)' = CodesIn(s) \ {request[q].code}
    BY <1>2, DropCodeEffect DEF CodesIn
  <2>3. /\ users' = users /\ roles' = roles
        /\ \A s : UserCodes(s)' = UserCodes(s)
        /\ \A k : Authenticated(k)' = Authenticated(k) /\ CodeOf(k)' = CodeOf(k)
    BY <1>2, TablesSame
  <2>4. r \notin Users \cup Keys /\ users \subseteq Users
    BY <1>1, AccessControlConstants DEF TypeInv, TypeOK
  <2>5. UsersAgree(T)'
    BY <1>5, <2>1, <2>2, <2>3, <2>4 DEF UsersAgree
  <2>6. ASSUME NEW k \in Keys \ T, Authenticated(k)
        PROVE  CodesIn(k)' = {CodeOf(k)}
    <3>1. keys[k].role \in Roles /\ roles[keys[k].role].active
      BY <1>1, <2>6 DEF Authenticated, Valid, TypeInv, TypeOK
    <3>2. CodeOf(k) # request[q].code
      BY <1>1, <2>1, <3>1 DEF CodeOf, Distinct
    <3>3. CodesIn(k) = {CodeOf(k)}
      BY <1>5, <2>1, <2>4, <2>6 DEF KeysAgree
    <3> QED
      BY <2>2, <3>2, <3>3
  <2>7. KeysAgree(T)'
    BY <2>3, <2>6 DEF KeysAgree
  <2>8. S \cap Roles \subseteq unsettled \cup {r}
    <3>1. S = unsettled \cup Touched(r)
      BY <1>1, <1>3, <1>6, OpenNow
    <3>2. Touched(r) \subseteq {r} \cup Users \cup Keys
      BY <1>1, <2>4, TouchedOfRole DEF Holders, KeysOf
    <3> QED
      BY <3>1, <3>2, AccessControlConstants
  <2>9. Agree(S)'
    BY <1>3, <1>4, SteadyAgrees DEF AgreeInv
  <2>10. RolesAgree(T)'
    BY <1>5, <2>1, <2>3, <2>8, <2>9 DEF Agree, RolesAgree
  <2> QED
    BY <2>5, <2>7, <2>10 DEF Agree
<1> QED
  BY <1>1, <1>2, <1>3, <1>4, <1>5, <1>6, EndAgrees

LEMMA EndEnableAgrees ==
  ASSUME AgreeInv, CoverInv', NEW q \in Requests, EndEnable(q)
  PROVE  AgreeInv'
<1> DEFINE r == request[q].on
<1>1. /\ TypeInv /\ CoverInv /\ request[q].step = "read_holder" /\ q \in InFlight
      /\ request[q].on \in Roles /\ request[q].want = {}
  BY LocalTypes
     DEF EndEnable, At, Fits, RoleSteps, EnableSteps, AgreeInv, CoverInv, FlightInv, InFlight
<1>2. UNCHANGED <<tables, enforcer>> /\ End(q, {r} \cup Holders(r), KeysOf(r))
  BY DEF EndEnable
<1>3. PICK S : S = Open
  OBVIOUS
<1>4. Steady(S)
  <2>1. UNCHANGED <<users, roles, perms, holds, grants, keys, enforcer>>
    BY <1>2 DEF tables
  <2> QED
    BY <2>1, RowsMove
<1>5. PICK T : T = (unsettled \ ({r} \cup Holders(r))) \cup KeysOf(r)
  OBVIOUS
<1>6. ASSUME request[q].alone
      PROVE  Agree(T)'
  <2>1. /\ RulesOf(r) = RoleRoutes(r)
        /\ \A u \in Holders(r) : CodesIn(u) = UserCodes(u)
    BY <1>1, <1>6 DEF AgreeInv, Own, HolderSteps
  <2>2. S = unsettled \cup {r} \cup Holders(r) \cup KeysOf(r)
    BY <1>1, <1>3, <1>6, OpenNow, TouchedOfRole
  <2>3. Agree(S)
    BY <1>3 DEF AgreeInv
  <2>4. /\ users \subseteq Users /\ Holders(r) \subseteq Users /\ r \in Roles /\ KeysOf(r) \subseteq Keys
        /\ Users \cap Roles = {} /\ Users \cap Keys = {} /\ Roles \cap Keys = {}
    BY <1>1, AccessControlConstants DEF TypeInv, TypeOK, Holders, KeysOf
  <2>5. UsersAgree(T)
    BY <1>5, <2>1, <2>2, <2>3, <2>4 DEF Agree, UsersAgree
  <2>6. RolesAgree(T)
    BY <1>5, <2>1, <2>2, <2>3, <2>4 DEF Agree, RolesAgree
  <2>7. KeysAgree(T)
    BY <1>5, <2>2, <2>3, <2>4 DEF Agree, KeysAgree
  <2>8. Steady(T)
    <3>1. UNCHANGED <<users, roles, perms, holds, grants, keys, enforcer>>
      BY <1>2 DEF tables
    <3> QED
      BY <3>1, RowsMove
  <2> QED
    BY <2>5, <2>6, <2>7, <2>8, SteadyAgrees DEF Agree
<1> QED
  BY <1>1, <1>2, <1>3, <1>4, <1>5, <1>6, EndAgrees

LEMMA RevokeRouteAgrees ==
  ASSUME AgreeInv, CoverInv', NEW q \in Requests, RevokeRoute(q)
  PROVE  AgreeInv'
<1> DEFINE p == request[q].on
<1>1. /\ TypeInv /\ CoverInv /\ Distinct /\ request[q].step = "drop_route" /\ q \in InFlight
      /\ request[q].on \in Permissions
  BY LocalTypes DEF RevokeRoute, At, Fits, AgreeInv, CoverInv, FlightInv, InFlight
<1>2. PICK route \in request[q].got : DropRoute(route)
  BY DEF RevokeRoute
<1>3. UNCHANGED tables /\ End(q, {}, {})
  BY DEF RevokeRoute
<1>4. PICK S : S = Open
  OBVIOUS
<1>5. ASSUME ~request[q].alone
      PROVE  Steady(S)
  <2>1. \A x \in Permissions : perms[x].route = route => Touched(x) \subseteq S
    BY <1>1, <1>2, <1>4, <1>5, OpenNow DEF CoverInv, Overlapping, Covered
  <2> QED
    BY <1>1, <1>2, <1>3, <1>4, <2>1, DropRouteSteady DEF AgreeInv
<1>6. PICK T : T = (unsettled \ {}) \cup {}
  OBVIOUS
<1>7. ASSUME request[q].alone
      PROVE  Agree(T)'
  <2>1. /\ request[q].got = {route}
        /\ \A x \in Roles \ unsettled : roles[x].active => RulesOf(x) \ {route} = RoleRoutes(x)
    <3>1. request[q].got = {perms[p].route}
      BY <1>1, <1>7 DEF CoverInv, FlightInv, Fresh
    <3>2. request[q].got = {route}
      BY <1>2, <3>1
    <3> QED
      BY <1>1, <1>7, <3>2 DEF AgreeInv, Own
  <2>2. S = unsettled \cup Touched(p) /\ Touched(p) \subseteq Roles
    BY <1>1, <1>4, <1>7, OpenNow, TouchedOfPermission
  <2>3. Agree(S)
    BY <1>4 DEF AgreeInv
  <2>4. users \subseteq Users /\ Users \cap Roles = {} /\ Roles \cap Keys = {}
    BY <1>1, AccessControlConstants DEF TypeInv, TypeOK
  <2>5. UsersAgree(T) /\ KeysAgree(T)
    BY <1>6, <2>2, <2>3, <2>4 DEF Agree, UsersAgree, KeysAgree
  <2>6. /\ \A s : CodesIn(s)' = CodesIn(s)
        /\ \A x \in Roles : RulesOf(x)' = RulesOf(x) \ {route}
    BY <1>2, <1>3, DropRouteEffect, TablesSame DEF CodesIn, RulesOf
  <2>7. UsersAgree(T)' /\ KeysAgree(T)'
    BY <1>3, <2>5, <2>6, TablesSame DEF UsersAgree, KeysAgree
  <2>8. RolesAgree(T)'
    BY <1>3, <1>6, <2>1, <2>6, TablesSame DEF RolesAgree
  <2> QED
    BY <2>7, <2>8 DEF Agree
<1> QED
  BY <1>1, <1>3, <1>4, <1>5, <1>6, <1>7, EndAgrees

\* A request that stops, also in the middle of a change of the enforcer, leaves unsettled all it
\* may have touched.
LEMMA StopsAgrees ==
  ASSUME AgreeInv, CoverInv', NEW q \in Requests, Stops(q) \/ StopsHalfway(q)
  PROVE  AgreeInv'
<1>1. /\ TypeInv /\ CoverInv /\ q \in InFlight
      /\ UNCHANGED tables /\ End(q, {}, Touched(request[q].on))
  BY DEF Stops, StopsHalfway, At, InFlight, AgreeInv, CoverInv, FlightInv
<1>2. PICK S : S = Open
  OBVIOUS
<1>3. Steady(S)
  <2>1. CASE Stops(q)
    <3>1. UNCHANGED <<users, roles, perms, holds, grants, keys, enforcer>>
      BY <1>1, <2>1 DEF Stops, tables
    <3> QED
      BY <3>1, RowsMove
  <2>2. CASE At(q, "apply_user") /\ \E codes \in SUBSET request[q].got : SetUser(request[q].on, codes)
    <3>1. request[q].on \in Users /\ request[q].got \subseteq Codes
      BY <1>1, <2>2, LocalTypes DEF At, Fits, UserSteps
    <3> QED
      BY <1>1, <1>2, <2>2, <3>1, OnIsOpen, SetUserSteady DEF Subjects
  <2>3. CASE /\ At(q, "apply_holder")
             /\ \E codes \in SUBSET request[q].got : SetUser(request[q].holder, codes)
    <3>1. request[q].on \in Roles /\ request[q].got \subseteq Codes
      BY <1>1, <2>3, LocalTypes DEF At, Fits, RoleSteps, EnableSteps
    <3>2. request[q].holder \in S
      <4>1. CASE request[q].alone
        <5>1. request[q].holder \in Holders(request[q].on)
          BY <1>1, <2>3, <4>1 DEF At, CoverInv, FlightInv, Fresh
        <5> QED
          BY <1>1, <1>2, <3>1, <4>1, <5>1, OpenNow, TouchedOfRole
      <4>2. CASE ~request[q].alone
        BY <1>1, <1>2, <2>3, <4>2, OpenNow DEF At, CoverInv, Overlapping, Covered
      <4> QED
        BY <4>1, <4>2
    <3> QED
      BY <1>1, <2>3, <3>1, <3>2, SetUserSteady
  <2>4. CASE /\ request[q].step \in {"apply_role", "apply_enabled", "drop_role"}
             /\ \E routes \in SUBSET Routes : SetRole(request[q].code, routes)
    <3>1. \A x \in Roles : roles[x].code = request[q].code => x \in S
      BY <1>1, <1>2, <2>4, CodeIsOpen, TouchedOfRole DEF RoleSteps, PermissionSteps, EnableSteps
    <3> QED
      BY <1>1, <2>4, <3>1, SetRoleSteady
  <2>5. CASE At(q, "apply_key") /\ SetUser(request[q].on, {})
    <3>1. request[q].on \in Keys
      BY <1>1, <2>5, LocalTypes DEF At, Fits, KeySteps
    <3> QED
      BY <1>1, <1>2, <2>5, <3>1, OnIsOpen, SetUserSteady DEF Subjects
  <2>6. request[q].step \in {"apply_role", "apply_enabled"} => request[q].got \subseteq Routes
    BY <1>1, LocalTypes DEF Fits
  <2> QED
    BY <2>1, <2>2, <2>3, <2>4, <2>5, <2>6 DEF StopsHalfway, At
<1>4. PICK T : T = (unsettled \ {}) \cup Touched(request[q].on)
  OBVIOUS
<1>5. ASSUME request[q].alone
      PROVE  Agree(T)'
  <2>1. S = T
    BY <1>1, <1>2, <1>4, <1>5, OpenNow
  <2> QED
    BY <1>2, <1>3, <2>1, SteadyAgrees DEF AgreeInv
<1> QED
  BY <1>1, <1>2, <1>3, <1>4, <1>5, EndAgrees

LEMMA AgreeStep ==
  ASSUME AgreeInv, [Next]_vars
  PROVE  AgreeInv'
<1>1. CoverInv'
  BY CoverStep DEF AgreeInv
<1>2. CASE UNCHANGED vars
  <2>1. UNCHANGED <<tables, enforcer, request, unsettled>>
    BY <1>2 DEF vars
  <2>2. InFlight' = InFlight
    BY <2>1 DEF InFlight, At
  <2>3. Open' = Open
    BY <2>1, <2>2, TablesSame DEF Open
  <2>4. Agree(Open)'
    BY <2>1, <2>3, TablesSame
       DEF AgreeInv, Agree, UsersAgree, RolesAgree, KeysAgree, CodesIn, RulesOf, enforcer
  <2>5. ASSUME NEW q \in Requests, Own(q)
        PROVE  Own(q)'
    BY <2>1, <2>5, TablesSame DEF Own, UsersAgree, KeysAgree, CodesIn, RulesOf, enforcer
  <2> QED
    BY <1>1, <2>1, <2>4, <2>5 DEF AgreeInv
<1>3. CASE SingleRequest
  BY <1>1, <1>3, SingleAgrees
<1>4. ASSUME NEW q \in Requests, UserRequest(q)
      PROVE  AgreeInv'
  BY <1>1, <1>4, AskAgrees, CreateAgrees, RowsAgree, ApplyUserAgrees DEF UserRequest
<1>5. ASSUME NEW q \in Requests, RoleRequest(q)
      PROVE  AgreeInv'
  BY <1>1, <1>5, AskAgrees, DisableAgrees, EnableAgrees, PermissionsAgree, ApplyRoleAgrees,
     DropRoleAgrees, RowsAgree, ApplyEnabledAgrees, HolderAgrees, EndEnableAgrees DEF RoleRequest
<1>6. ASSUME NEW q \in Requests, PermissionRequest(q)
      PROVE  AgreeInv'
  BY <1>1, <1>6, DeleteAgrees, RevokeRouteAgrees DEF PermissionRequest
<1>7. ASSUME NEW q \in Requests, KeyRequest(q)
      PROVE  AgreeInv'
  BY <1>1, <1>7, AskAgrees, RevokeAgrees, RowsAgree, ApplyKeyAgrees, DropKeyAgrees DEF KeyRequest
<1>8. ASSUME NEW q \in Requests, Stops(q) \/ StopsHalfway(q)
      PROVE  AgreeInv'
  BY <1>1, <1>8, StopsAgrees
<1> QED
  BY <1>2, <1>3, <1>4, <1>5, <1>6, <1>7, <1>8 DEF Next

LEMMA AgreeInit ==
  ASSUME Init
  PROVE  AgreeInv
<1>1. CoverInv
  BY CoverInit
<1>2. TypeInv /\ Distinct
  BY <1>1 DEF CoverInv, FlightInv
<1>3. UsersAgree(Open)
  <2>1. ASSUME NEW u \in users
        PROVE  CodesIn(u) = UserCodes(u)
    <3>1. u \in Users /\ UserCodes(u) \subseteq Codes
      BY <1>2, CodesAndRoutes DEF TypeInv, TypeOK
    <3>2. groups = UNION {{<<x, code>> : code \in UserCodes(x)} : x \in Users}
      BY DEF Init
    <3> QED
      BY <3>1, <3>2 DEF CodesIn
  <2> QED
    BY <2>1 DEF UsersAgree
<1>4. RolesAgree(Open)
  <2>1. ASSUME NEW r \in Roles
        PROVE  RulesOf(r) = RoleRoutes(r)
    <3>1. RoleRoutes(r) \subseteq Routes
      BY <1>2, CodesAndRoutes DEF TypeInv
    <3>2. rules = UNION {{<<roles[x].code, route>> : route \in RoleRoutes(x)} : x \in Roles}
      BY DEF Init
    <3> QED
      BY <1>2, <3>1, <3>2 DEF RulesOf, Distinct
  <2> QED
    BY <2>1 DEF RolesAgree
<1>5. KeysAgree(Open)
  BY DEF Init, NoKey, KeysAgree, Authenticated, Valid
<1>6. \A q \in Requests : ~request[q].alone
  BY DEF Init, Idle
<1> QED
  BY <1>1, <1>3, <1>4, <1>5, <1>6 DEF AgreeInv, Agree

LEMMA AgreementIsKept == Spec => []AgreeInv
<1>1. AgreeInv /\ [Next]_vars => AgreeInv'
  BY AgreeStep
<1> QED
  BY AgreeInit, <1>1, PTL DEF Spec

\* What the enforcer answers for a subject: the routes of the codes it is grouped with.
LEMMA EnforcedRoutes ==
  ASSUME TypeInv, NEW s
  PROVE  Enforced(s) = {x \in Routes : \E c \in CodesIn(s) : <<c, x>> \in rules}
<1>1. rules \subseteq Codes \X Routes /\ groups \subseteq (Users \cup Keys) \X Codes
  BY DEF TypeInv, TypeOK
<1>2. \A c, x : <<c, x>> \in rules => c \in Codes /\ x \in Routes
  BY <1>1
<1>3. \A y \in rules : y = <<y[1], y[2]>>
  BY <1>1
<1>4. ASSUME NEW x
      PROVE  x \in Enforced(s) <=> x \in Routes /\ \E c \in CodesIn(s) : <<c, x>> \in rules
  <2>1. ASSUME x \in Enforced(s)
        PROVE  x \in Routes /\ \E c \in CodesIn(s) : <<c, x>> \in rules
    <3>1. PICK y \in rules : x = y[2] /\ <<s, y[1]>> \in groups
      BY <2>1 DEF Enforced
    <3>2. <<y[1], x>> \in rules
      BY <1>3, <3>1
    <3> QED
      BY <1>2, <3>1, <3>2 DEF CodesIn
  <2>2. ASSUME NEW c \in CodesIn(s), <<c, x>> \in rules
        PROVE  x \in Enforced(s)
    <3>1. PICK y \in rules : y = <<c, x>>
      BY <2>2
    <3>2. y[1] = c /\ y[2] = x
      BY <3>1
    <3>3. <<s, y[1]>> \in groups
      BY <3>2 DEF CodesIn
    <3> QED
      BY <3>2, <3>3 DEF Enforced
  <2> QED
    BY <2>1, <2>2
<1> QED
  BY <1>4

LEMMA AgreementAnswers ==
  ASSUME AgreeInv
  PROVE  EnforcerAgrees
<1>1. TypeInv
  BY DEF AgreeInv, CoverInv, FlightInv
<1>2. SUFFICES ASSUME InFlight = {}
               PROVE  /\ \A u \in users \ unsettled :
                            holds[u] \cap unsettled = {} => Enforced(u) = UserMay(u)
                      /\ \A k \in Keys \ unsettled :
                            Authenticated(k) /\ keys[k].role \notin unsettled =>
                              Enforced(k) = KeyMay(k)
  BY DEF EnforcerAgrees
<1>3. Agree(unsettled)
  <2>1. Open = unsettled
    BY <1>2 DEF Open
  <2> QED
    BY <2>1 DEF AgreeInv
<1>4. \A r \in Roles : RoleRoutes(r) \subseteq Routes
  BY <1>1, CodesAndRoutes DEF TypeInv
<1>5. ASSUME NEW u \in users \ unsettled, holds[u] \cap unsettled = {}
      PROVE  Enforced(u) = UserMay(u)
  <2>1. CodesIn(u) = UserCodes(u) /\ holds[u] \subseteq Roles
    BY <1>1, <1>3 DEF Agree, UsersAgree, TypeInv, TypeOK
  <2>2. \A r \in holds[u] : roles[r].active => RulesOf(r) = RoleRoutes(r)
    BY <1>3, <1>5, <2>1 DEF Agree, RolesAgree
  <2>3. ASSUME NEW x
        PROVE  x \in Enforced(u) <=> x \in UserMay(u)
    <3>1. x \in Enforced(u) <=>
            \E r \in holds[u] : roles[r].active /\ x \in Routes /\ <<roles[r].code, x>> \in rules
      BY <1>1, <2>1, EnforcedRoutes DEF UserCodes
    <3>2. x \in UserMay(u) <=> \E r \in holds[u] : roles[r].active /\ x \in RoleRoutes(r)
      BY DEF UserMay
    <3> QED
      BY <2>2, <3>1, <3>2 DEF RulesOf
  <2> QED
    BY <2>3
<1>6. ASSUME NEW k \in Keys \ unsettled, Authenticated(k), keys[k].role \notin unsettled
      PROVE  Enforced(k) = KeyMay(k)
  <2>1. keys[k].role \in Roles /\ roles[keys[k].role].active
    BY <1>1, <1>6 DEF Authenticated, Valid, TypeInv, TypeOK
  <2>2. CodesIn(k) = {roles[keys[k].role].code}
    BY <1>3, <1>6 DEF Agree, KeysAgree, CodeOf
  <2>3. RulesOf(keys[k].role) = RoleRoutes(keys[k].role)
    BY <1>3, <1>6, <2>1 DEF Agree, RolesAgree
  <2>4. Enforced(k) = RulesOf(keys[k].role)
    BY <1>1, <2>2, EnforcedRoutes DEF RulesOf
  <2> QED
    BY <1>6, <2>3, <2>4 DEF KeyMay
<1> QED
  BY <1>5, <1>6

\* With no request in flight the enforcer allows every user and key whose last synchronisation
\* ran alone, and whose roles' did, exactly what the tables grant: every overlap, stop and
\* half-made change since is accounted for by what it left unsettled.
THEOREM SettledIsEnforced == Spec => []EnforcerAgrees
BY AgreementIsKept, AgreementAnswers, PTL
================================================================================
