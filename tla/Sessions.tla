-------------------------------- MODULE Sessions --------------------------------
(***************************************************************************)
(* One account and the two things the cache keeps for it: the failures and *)
(* the lock of the login guard, and the password time and the status that  *)
(* every authenticated request is checked against.  Handlers await every   *)
(* call to the cache and to the database: anything may run in between.     *)
(* The services ignore the errors of the cache: a call that fails is a get *)
(* that finds nothing, or a write that is not made.                        *)
(* Passwords and captchas are outcomes; time passes in ticks of a second.  *)
(***************************************************************************)
EXTENDS Naturals

CONSTANTS
  Requests,    \* concurrent HTTP requests about the account
  Nil,         \* no token
  LockAfter,   \* max_failures_before_lock
  Window,      \* failure_window_seconds
  LockTime,    \* lock_duration_seconds
  PasswordTTL, \* PWD_IAT_TTL
  ProfileTTL,  \* PROFILE_TTL
  Changes,     \* how often the password or the status is changed
  Mixes        \* what goes on beside logins, in one behaviour or another

\* "outage": calls to the cache may fail.
Kinds == {"failure", "unlock", "check", "change", "toggle", "outage"}

ASSUME SessionsConstants ==
  /\ LockAfter \in Nat \ {0} /\ Window \in Nat \ {0} /\ LockTime \in Nat \ {0}
  /\ PasswordTTL \in Nat \ {0} /\ ProfileTTL \in Nat \ {0} /\ Changes \in Nat
  /\ Nil \notin Nat
  /\ Mixes \subseteq SUBSET Kinds

VARIABLES
  now,     \* the second; seconds in which nothing is stamped are not told apart
  account, \* the row of users: the second of its password, its status, a reset token mailed
  tokens,  \* the password_iat of the JWTs handed out
  fails,   \* auth:login:fail
  lock,    \* auth:login:lock, the seconds it has left
  iat,     \* user:pwd_iat
  profile, \* user:profile
  request, \* request[q]: the local variables of a handler
  made,    \* how many changes were asked for
  mix,     \* what goes on in this behaviour
  streak,  \* failed attempts in a row, each alone and spared by outages
  excuse   \* why user:pwd_iat may be out of date with no eviction under way

guard == <<fails, lock, streak>>

cache == <<iat, profile, excuse>>

bounds == <<made, mix>>

vars == <<now, account, tokens, guard, cache, request, bounds>>

----------------------------------------------------------------------------

LoginSteps ==
  {"gate", "verify", "read_count", "store_count", "set_lock", "clear_count", "clear_lock"}

CheckSteps ==
  {"look_iat", "load_iat", "keep_iat", "look_profile", "load_profile", "keep_profile"}

ChangeSteps == {"verify_old", "store_password", "evict_iat", "evict_profile"}

\* What a request is for, once its token is accepted; a reset by mail evicts nothing.
Goals == {"none", "serve", "edit", "change", "reset"}

Idle ==
  [step |-> "idle", token |-> Nil, read |-> 0, active |-> FALSE, at |-> Nil, goal |-> "none",
   alone |-> FALSE]

Locals ==
  [step : {"idle"} \cup LoginSteps \cup CheckSteps \cup ChangeSteps, token : Nat \cup {Nil},
   read : Nat, active : BOOLEAN, at : Nat \cup {Nil}, goal : Goals, alone : BOOLEAN]

NoFails == [count |-> 0, left |-> 0]

NoIat == [second |-> 0, left |-> 0]

NoProfile == [active |-> FALSE, left |-> 0]

Init ==
  /\ now = 1
  /\ account = [changed |-> 0, active |-> TRUE, reset |-> FALSE]
  /\ tokens = {}
  /\ fails = NoFails /\ lock = 0
  /\ iat = NoIat /\ profile = NoProfile
  /\ request = [q \in Requests |-> Idle]
  /\ made = 0 /\ mix \in Mixes
  /\ streak = NoFails /\ excuse = FALSE

----------------------------------------------------------------------------
(* Requests in flight *)

At(q, step) == request[q].step = step

Go(q, local) == request' = [request EXCEPT ![q] = local]

Step(q, from, to) == At(q, from) /\ Go(q, [request[q] EXCEPT !.step = to])

Done(q) == Go(q, Idle)

GuardRequests == {q \in Requests : request[q].step \in LoginSteps}

\* Attempts and unlocks that overlap are not alone, neither of them.
EnterGuard(q, step) ==
  LET others == GuardRequests
  IN /\ At(q, "idle")
     /\ request' = [x \in Requests |->
          IF x = q THEN [Idle EXCEPT !.step = step, !.alone = others = {}]
          ELSE [request[x] EXCEPT !.alone = FALSE]]

\* A call to the cache returns an error.
Outage == "outage" \in mix

----------------------------------------------------------------------------
(* Logging in *)

Login(q) ==
  /\ EnterGuard(q, "gate")
  /\ UNCHANGED <<now, account, tokens, guard, cache, bounds>>

\* pre_login_check; a captcha that is missing or wrong is a failed attempt.
Refuse(q) ==
  /\ At(q, "gate") /\ lock > 0
  /\ Done(q)
  /\ UNCHANGED <<now, account, tokens, guard, cache, bounds>>

Fails(q, from) == "failure" \in mix /\ Step(q, from, "read_count")

Admit(q) ==
  /\ lock = 0 \/ Outage
  /\ Step(q, "gate", "verify") \/ Fails(q, "gate")
  /\ UNCHANGED <<now, account, tokens, guard, cache, bounds>>

\* The address may be unknown and the password wrong; a disabled account is refused, and its
\* failures are forgotten like those of a success.
Verify(q) ==
  /\ \/ Fails(q, "verify")
     \/ /\ At(q, "verify")
        /\ Go(q, [request[q] EXCEPT !.step = "clear_count",
                   !.token = IF account.active THEN account.changed ELSE Nil])
  /\ UNCHANGED <<now, account, tokens, guard, cache, bounds>>

\* record_failure: the count is read, 0 when that fails, and written back.
ReadCount(q) ==
  /\ At(q, "read_count")
  /\ \/ /\ Go(q, [request[q] EXCEPT !.step = "store_count", !.read = fails.count])
        /\ UNCHANGED streak
     \/ /\ Outage
        /\ Go(q, [request[q] EXCEPT !.step = "store_count", !.read = 0])
        /\ streak' = NoFails
  /\ UNCHANGED <<now, account, tokens, fails, lock, cache, bounds>>

\* Counts from LockAfter on are not told apart.
OneMore(count) == IF count < LockAfter THEN count + 1 ELSE LockAfter

\* An attempt of its own makes the streak longer, an overlap ends it.
Longer(q) ==
  IF ~request[q].alone THEN NoFails
  ELSE [count |-> OneMore(streak.count),
        left |-> IF Window < LockTime THEN Window ELSE LockTime]

\* Mutant of StoreCount: the lock is one failure late.
StoreCountLate(q) ==
  LET count == OneMore(request[q].read)
  IN /\ At(q, "store_count")
     /\ fails' = [count |-> count, left |-> Window]
     /\ IF request[q].read >= LockAfter THEN Go(q, [request[q] EXCEPT !.step = "set_lock"])
        ELSE Done(q)
     /\ streak' = Longer(q)
     /\ UNCHANGED <<now, account, tokens, lock, cache, bounds>>

\* The handler goes on whether its writes succeed or not.
StoreCount(q) ==
  LET count == OneMore(request[q].read)
  IN /\ At(q, "store_count")
     /\ \/ fails' = [count |-> count, left |-> Window] /\ streak' = Longer(q)
        \/ Outage /\ UNCHANGED fails /\ streak' = NoFails
     /\ IF count >= LockAfter THEN Go(q, [request[q] EXCEPT !.step = "set_lock"]) ELSE Done(q)
     /\ UNCHANGED <<now, account, tokens, lock, cache, bounds>>

SetLock(q) ==
  /\ At(q, "set_lock")
  /\ \/ lock' = LockTime /\ UNCHANGED streak
     \/ Outage /\ UNCHANGED lock /\ streak' = NoFails
  /\ Done(q)
  /\ UNCHANGED <<now, account, tokens, fails, cache, bounds>>

\* record_success and unlock.
ClearCount(q) ==
  /\ Step(q, "clear_count", "clear_lock")
  /\ fails' = NoFails \/ (Outage /\ UNCHANGED fails)
  /\ streak' = NoFails
  /\ UNCHANGED <<now, account, tokens, lock, cache, bounds>>

\* The JWT was made from the row that Verify read.
ClearLock(q) ==
  /\ At(q, "clear_lock")
  /\ lock' = 0 \/ (Outage /\ UNCHANGED lock)
  /\ tokens' = tokens \cup ({request[q].token} \ {Nil})
  /\ Done(q)
  /\ UNCHANGED <<now, account, fails, streak, cache, bounds>>

Unlock(q) ==
  /\ "unlock" \in mix
  /\ EnterGuard(q, "clear_count")
  /\ UNCHANGED <<now, account, tokens, guard, cache, bounds>>

----------------------------------------------------------------------------
(* A request with a JWT *)

\* A change of the password counts when it is asked for.
Check(q, token, goal) ==
  /\ IF goal = "serve" THEN "check" \in mix ELSE "change" \in mix
  /\ At(q, "idle")
  /\ made' = IF goal = "change" THEN made + 1 ELSE made
  /\ made' <= Changes
  /\ Go(q, [Idle EXCEPT !.step = "look_iat", !.token = token, !.goal = goal])
  /\ UNCHANGED <<now, account, tokens, guard, cache, mix>>

\* verify_password_freshness
Compare(q, second) ==
  IF request[q].token < second THEN Done(q)
  ELSE Go(q, [request[q] EXCEPT !.step = "look_profile", !.read = 0])

LookIat(q) ==
  /\ At(q, "look_iat")
  /\ \/ iat.left > 0 /\ Compare(q, iat.second)
     \/ (iat.left = 0 \/ Outage) /\ Go(q, [request[q] EXCEPT !.step = "load_iat"])
  /\ UNCHANGED <<now, account, tokens, guard, cache, bounds>>

LoadIat(q) ==
  /\ At(q, "load_iat")
  /\ Go(q, [request[q] EXCEPT !.step = "keep_iat", !.read = account.changed])
  /\ UNCHANGED <<now, account, tokens, guard, cache, bounds>>

KeepIat(q) ==
  /\ At(q, "keep_iat")
  /\ \/ iat' = [second |-> request[q].read, left |-> PasswordTTL]
     \/ Outage /\ UNCHANGED iat
  /\ Compare(q, request[q].read)
  /\ UNCHANGED <<now, account, tokens, guard, profile, excuse, bounds>>

\* verify_user_active, and what an accepted request goes on with.  The row that update_profile
\* writes to holds nothing the checks look at.
Accept(q, active) ==
  CASE ~active \/ request[q].goal = "serve" -> Done(q)
    [] active /\ request[q].goal = "edit" -> Go(q, [request[q] EXCEPT !.step = "evict_iat"])
    [] active /\ request[q].goal = "change" -> Go(q, [request[q] EXCEPT !.step = "verify_old"])

\* Mutant of LookProfile: a hit renews the entry.
LookProfileRenews(q) ==
  /\ At(q, "look_profile")
  /\ IF profile.left > 0 THEN Accept(q, profile.active)
     ELSE Go(q, [request[q] EXCEPT !.step = "load_profile"])
  /\ profile' = IF profile.left > 0 THEN [profile EXCEPT !.left = ProfileTTL] ELSE profile
  /\ UNCHANGED <<now, account, tokens, guard, iat, excuse, bounds>>

LookProfile(q) ==
  /\ At(q, "look_profile")
  /\ \/ profile.left > 0 /\ Accept(q, profile.active)
     \/ (profile.left = 0 \/ Outage) /\ Go(q, [request[q] EXCEPT !.step = "load_profile"])
  /\ UNCHANGED <<now, account, tokens, guard, cache, bounds>>

LoadProfile(q) ==
  /\ At(q, "load_profile")
  /\ Go(q, [request[q] EXCEPT !.step = "keep_profile", !.active = account.active])
  /\ UNCHANGED <<now, account, tokens, guard, cache, bounds>>

KeepProfile(q) ==
  /\ At(q, "keep_profile")
  /\ \/ profile' = [active |-> request[q].active, left |-> ProfileTTL]
     \/ Outage /\ UNCHANGED profile
  /\ Accept(q, request[q].active)
  /\ UNCHANGED <<now, account, tokens, guard, iat, excuse, bounds>>

----------------------------------------------------------------------------
(* Changes of the account *)

Changing(goal) == [Idle EXCEPT !.step = "store_password", !.at = now, !.goal = goal]

\* change_password: the old password may be wrong, the new one too short.
VerifyOld(q) ==
  /\ At(q, "verify_old")
  /\ Done(q) \/ Go(q, Changing("change"))
  /\ UNCHANGED <<now, account, tokens, guard, cache, bounds>>

\* An administrator resets the password, or its owner does with the token of the mail.
ResetPassword(q, goal) ==
  /\ "change" \in mix
  /\ At(q, "idle") /\ (goal = "reset" => account.reset)
  /\ made < Changes /\ made' = made + 1
  /\ Go(q, Changing(goal))
  /\ UNCHANGED <<now, account, tokens, guard, cache, mix>>

Holds(q, second) == \E x \in Requests \ {q} : At(x, "keep_iat") /\ request[x].read # second

StorePassword(q) ==
  LET local == request[q]
  IN /\ At(q, "store_password")
     /\ account' = [account EXCEPT !.changed = local.at, !.reset = FALSE]
     /\ IF local.goal = "reset" THEN Done(q) ELSE Go(q, [local EXCEPT !.step = "evict_iat"])
     /\ excuse' = (excuse \/ local.goal = "reset" \/ Holds(q, local.at))
     /\ UNCHANGED <<now, tokens, guard, iat, profile, bounds>>

\* Mutant of EvictIat: only the profile is evicted.
EvictIatNot(q) ==
  /\ Step(q, "evict_iat", "evict_profile")
  /\ excuse' = Holds(q, account.changed)
  /\ UNCHANGED <<now, account, tokens, guard, iat, profile, bounds>>

\* invalidate_user
EvictIat(q) ==
  /\ Step(q, "evict_iat", "evict_profile")
  /\ \/ iat' = NoIat /\ excuse' = Holds(q, account.changed)
     \/ Outage /\ UNCHANGED iat /\ excuse' = TRUE
  /\ UNCHANGED <<now, account, tokens, guard, profile, bounds>>

EvictProfile(q) ==
  /\ At(q, "evict_profile")
  /\ profile' = NoProfile \/ (Outage /\ UNCHANGED profile)
  /\ Done(q)
  /\ UNCHANGED <<now, account, tokens, guard, iat, excuse, bounds>>

\* toggle_user_status evicts nothing.
Toggle ==
  /\ "toggle" \in mix
  /\ made < Changes /\ made' = made + 1
  /\ account' = [account EXCEPT !.active = ~@]
  /\ UNCHANGED <<now, tokens, guard, cache, request, mix>>

Forgot ==
  /\ "change" \in mix
  /\ ~account.reset /\ made < Changes
  /\ account' = [account EXCEPT !.reset = TRUE]
  /\ UNCHANGED <<now, tokens, guard, cache, request, bounds>>

----------------------------------------------------------------------------
(* Time, and clients that leave *)

Older(entry, none) == IF entry.left <= 1 THEN none ELSE [entry EXCEPT !.left = @ - 1]

\* Only a second that is stamped on something is told apart from the one after it.
Stamped == {account.changed} \cup tokens \cup {request[q].at : q \in Requests}
             \cup {request[q].token : q \in Requests}

Tick ==
  /\ now' = IF now \in Stamped THEN now + 1 ELSE now
  /\ fails' = Older(fails, NoFails)
  /\ lock' = IF lock = 0 THEN 0 ELSE lock - 1
  /\ iat' = Older(iat, NoIat)
  /\ profile' = Older(profile, NoProfile)
  /\ streak' = Older(streak, NoFails)
  /\ UNCHANGED <<account, tokens, request, bounds, excuse>>

\* The future of a handler is dropped with its connection; a failing statement of the database
\* ends it too.
Drop(q) ==
  /\ ~At(q, "idle")
  /\ excuse' = (excuse \/ (At(q, "evict_iat") /\ request[q].goal = "change"))
  /\ streak' = IF q \in GuardRequests THEN NoFails ELSE streak
  /\ Done(q)
  /\ UNCHANGED <<now, account, tokens, fails, lock, iat, profile, bounds>>

----------------------------------------------------------------------------

Arrive(q) ==
  \/ Login(q) \/ Unlock(q)
  \/ \E token \in tokens, goal \in {"serve", "edit", "change"} : Check(q, token, goal)
  \/ \E goal \in {"change", "reset"} : ResetPassword(q, goal)

Handle(q) ==
  \/ Refuse(q) \/ Admit(q) \/ Verify(q) \/ ReadCount(q) \/ StoreCount(q) \/ SetLock(q)
  \/ ClearCount(q) \/ ClearLock(q)
  \/ LookIat(q) \/ LoadIat(q) \/ KeepIat(q) \/ LookProfile(q) \/ LoadProfile(q) \/ KeepProfile(q)
  \/ VerifyOld(q) \/ StorePassword(q) \/ EvictIat(q) \/ EvictProfile(q)

Next ==
  \/ \E q \in Requests : Arrive(q) \/ Handle(q) \/ Drop(q)
  \/ Toggle \/ Forgot \/ Tick

\* A handler that has started goes on, and time passes.
Spec ==
  /\ Init /\ [][Next]_vars
  /\ WF_vars(Tick) /\ \A q \in Requests : WF_vars(Handle(q))

----------------------------------------------------------------------------
(* Properties *)

\* The row, the entries of the cache and the locals of a handler hold values of their types.
TypeOK ==
  /\ now \in Nat /\ made \in 0..Changes /\ mix \in Mixes
  /\ account \in [changed : Nat, active : BOOLEAN, reset : BOOLEAN]
  /\ tokens \subseteq Nat
  /\ fails \in [count : 0..LockAfter, left : 0..Window] /\ lock \in 0..LockTime
  /\ iat \in [second : Nat, left : 0..PasswordTTL]
  /\ profile \in [active : BOOLEAN, left : 0..ProfileTTL]
  /\ request \in [Requests -> Locals]
  /\ streak \in [count : 0..LockAfter, left : Nat] /\ excuse \in BOOLEAN

\* LockAfter failed attempts in a row, each within the window of the one before, lock the
\* account.  Only three things lose an attempt to the count or to the lock: another attempt or
\* an unlock that overlaps it, a client that gives it up, and a call to the cache that fails,
\* whose error the guard takes for a count of 0 or ignores.
FailuresLock ==
  streak.count >= LockAfter /\ GuardRequests = {} => lock > 0

\* Once change_password or an administrator's reset has evicted it, user:pwd_iat is up to date:
\* the only ways to an old value are a reset by mail, which evicts nothing, a handler dropped
\* before its eviction, an eviction that fails, and a check that read the row before the change.
EvictionIsFinal ==
  ~excuse /\ (\A q \in Requests : ~At(q, "evict_iat")) =>
    iat.left = 0 \/ iat.second = account.changed

\* "so stale data self-heals even without explicit invalidation": when the changes are over, what
\* the cache says of the account is right from some time on, however busy the account is.
StaleDataHeals ==
  <>[](/\ iat.left > 0 => iat.second = account.changed
       /\ profile.left > 0 => profile.active = account.active)

=============================================================================
