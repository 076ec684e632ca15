---------------------------- MODULE SessionsProofs ----------------------------
(***************************************************************************)
(* Proofs about Sessions, for any number of handlers and any limits:       *)
(* states are typed, failures that do not overlap lock the account, and    *)
(* what an eviction withdrew from the cache does not come back.            *)
(***************************************************************************)
EXTENDS Sessions, TLAPS

----------------------------------------------------------------------------
(* The inductive invariant of the login guard *)

\* A handler that is alone is the only one in the guard.
AloneIsOnly ==
  \A q, x \in Requests : q \in GuardRequests /\ request[q].alone /\ x \in GuardRequests => x = q

\* The failures that count for the streak are in the counter, and outlive it.
StreakIsCounted ==
  /\ streak.count <= fails.count /\ streak.left <= fails.left /\ streak.left <= LockTime
  /\ streak.count > 0 => streak.left > 0

\* Whoever stores the next failure of a streak has read the ones before.
ReadersCounted ==
  \A q \in Requests : At(q, "store_count") /\ request[q].alone => request[q].read >= streak.count

\* A handler that is about to lift the lock has ended the streak.
LiftersEnded == \A q \in Requests : At(q, "clear_lock") => streak.count = 0

StreakLocks ==
  streak.count >= LockAfter => lock >= streak.left \/ \E q \in Requests : At(q, "set_lock")

GuardInv ==
  AloneIsOnly /\ StreakIsCounted /\ ReadersCounted /\ LiftersEnded /\ StreakLocks

----------------------------------------------------------------------------
(* The inductive invariant of the cached password time *)

\* Nobody but a change and a mailed reset stores a password, and the first evicts.
StoresHaveGoals ==
  \A q \in Requests : At(q, "store_password") =>
    request[q].goal \in {"change", "reset"} /\ request[q].at \in Nat

\* Without an excuse a check holds what the row says.
ReadersAreFresh ==
  ~excuse => \A q \in Requests : At(q, "keep_iat") => request[q].read = account.changed

\* Without an excuse an old value is about to be evicted by the change that made it old.
StaleIsEvicted ==
  ~excuse => \/ iat.left = 0 \/ iat.second = account.changed
             \/ \E q \in Requests : At(q, "evict_iat") /\ request[q].goal = "change"

\* A request whose token is checked is for something.
Purposeful(local) == local.step \in CheckSteps => local.goal \in {"serve", "edit", "change"}

ChecksHaveGoals == \A q \in Requests : Purposeful(request[q])

CacheInv == StoresHaveGoals /\ ChecksHaveGoals /\ ReadersAreFresh /\ StaleIsEvicted

Inv == TypeOK /\ GuardInv /\ CacheInv

----------------------------------------------------------------------------
(* Types *)

Steps == {"idle"} \cup LoginSteps \cup CheckSteps \cup ChangeSteps

LEMMA LocalTypes ==
  ASSUME TypeOK, NEW q \in Requests
  PROVE  /\ request[q] \in Locals
         /\ request[q].read \in Nat /\ request[q].token \in Nat \cup {Nil}
         /\ request[q].at \in Nat \cup {Nil} /\ request[q].alone \in BOOLEAN
BY DEF TypeOK, Locals

LEMMA IdleType ==
  /\ Idle \in Locals /\ Idle.step = "idle" /\ Idle.alone = FALSE /\ Idle.goal = "none"
BY DEF Idle, Locals, Goals

LEMMA StepType ==
  ASSUME NEW local \in Locals, NEW step \in Steps
  PROVE  [local EXCEPT !.step = step] \in Locals
BY DEF Locals, Steps

LEMMA NothingTypes ==
  /\ NoFails \in [count : 0..LockAfter, left : 0..Window]
  /\ NoFails \in [count : 0..LockAfter, left : Nat]
  /\ NoIat \in [second : Nat, left : 0..PasswordTTL]
  /\ NoProfile \in [active : BOOLEAN, left : 0..ProfileTTL]
BY SessionsConstants DEF NoFails, NoIat, NoProfile

LEMMA GoType ==
  ASSUME TypeOK, NEW q \in Requests, NEW local \in Locals, Go(q, local)
  PROVE  request' \in [Requests -> Locals]
BY DEF TypeOK, Go

\* The locals of the others, and one's own.
LEMMA GoMoves ==
  ASSUME TypeOK, NEW q \in Requests, NEW local \in Locals, Go(q, local)
  PROVE  request'[q] = local /\ \A x \in Requests : x # q => request'[x] = request[x]
BY DEF TypeOK, Go

----------------------------------------------------------------------------
(* Steps that leave the guard alone *)

\* A handler goes on outside the guard, or from one of its steps to another.
LEMMA GuardKeeps ==
  ASSUME Inv, NEW q \in Requests, NEW local \in Locals, Go(q, local),
         UNCHANGED guard, ~At(q, "set_lock"),
         local.step \in LoginSteps =>
           request[q].step \in LoginSteps /\ local.alone = request[q].alone,
         local.step \notin {"clear_lock", "store_count"}
  PROVE  GuardInv'
<1> USE DEF Inv, GuardInv
<1>1. request'[q] = local /\ \A x \in Requests : x # q => request'[x] = request[x]
  BY GoMoves
<1>2. \A x \in Requests : x \in GuardRequests' => x \in GuardRequests /\ request'[x].alone = request[x].alone
  BY <1>1 DEF GuardRequests
<1>3. AloneIsOnly'
  BY <1>2 DEF AloneIsOnly, GuardRequests
<1>4. StreakIsCounted'
  BY DEF StreakIsCounted, guard
<1>5. ReadersCounted' /\ LiftersEnded'
  BY <1>1 DEF ReadersCounted, LiftersEnded, At, guard
<1>6. StreakLocks'
  BY <1>1 DEF StreakLocks, At, guard
<1> QED
  BY <1>3, <1>4, <1>5, <1>6

\* A handler that ends is in nobody's way.
LEMMA GuardEnds ==
  ASSUME Inv, NEW q \in Requests, Done(q), UNCHANGED guard, ~At(q, "set_lock")
  PROVE  GuardInv'
<1>1. "idle" \notin LoginSteps /\ Idle.step = "idle" /\ Go(q, Idle) /\ Idle \in Locals
  BY IdleType DEF LoginSteps, Done
<1> QED
  BY <1>1, GuardKeeps

----------------------------------------------------------------------------
(* Steps that leave the password time alone *)

LEMMA CacheKeeps ==
  ASSUME Inv, NEW q \in Requests, NEW local \in Locals, Go(q, local),
         UNCHANGED <<iat, excuse>>, account'.changed = account.changed,
         At(q, "evict_iat") => request[q].goal # "change",
         local.step # "keep_iat",
         local.step = "store_password" => local.goal \in {"change", "reset"} /\ local.at \in Nat,
         Purposeful(local)
  PROVE  CacheInv'
<1> USE DEF Inv, CacheInv
<1>1. request'[q] = local /\ \A x \in Requests : x # q => request'[x] = request[x]
  BY GoMoves
<1>2. StoresHaveGoals' /\ ChecksHaveGoals' /\ ReadersAreFresh'
  BY <1>1 DEF StoresHaveGoals, ChecksHaveGoals, Purposeful, ReadersAreFresh, At
<1>3. StaleIsEvicted'
  BY <1>1 DEF StaleIsEvicted, At
<1> QED
  BY <1>2, <1>3

LEMMA CacheEnds ==
  ASSUME Inv, NEW q \in Requests, Done(q), UNCHANGED <<account, iat, excuse>>,
         ~At(q, "evict_iat")
  PROVE  CacheInv'
<1>1. Go(q, Idle) /\ Idle \in Locals /\ Idle.step = "idle" /\ Purposeful(Idle)
  BY IdleType DEF Done, Purposeful, CheckSteps
<1> QED
  BY <1>1, CacheKeeps

\* A handler that ends, and has nothing to say.
LEMMA EndStep ==
  ASSUME Inv, NEW q \in Requests, Done(q), ~At(q, "set_lock"), ~At(q, "evict_iat"),
         UNCHANGED <<account, guard, iat, excuse>>, TypeOK'
  PROVE  Inv'
BY GuardEnds, CacheEnds DEF Inv

\* A handler that goes on, outside the guard.
LEMMA GoStep ==
  ASSUME Inv, NEW q \in Requests, NEW local \in Locals, Go(q, local),
         ~At(q, "set_lock"), ~At(q, "evict_iat"), local.step \notin LoginSteps,
         local.step # "keep_iat", Purposeful(local),
         local.step = "store_password" => local.goal \in {"change", "reset"} /\ local.at \in Nat,
         UNCHANGED <<account, guard, iat, excuse>>, TypeOK'
  PROVE  Inv'
<1>1. local.step \notin {"clear_lock", "store_count"}
  BY DEF LoginSteps
<1> QED
  BY <1>1, GuardKeeps, CacheKeeps DEF Inv

----------------------------------------------------------------------------
(* The login guard *)

\* Who enters is alone only if nobody is there, and whoever is there is alone no more.
LEMMA EnterStep ==
  ASSUME Inv, NEW q \in Requests, NEW step \in {"gate", "clear_count"}, EnterGuard(q, step),
         UNCHANGED <<now, account, tokens, guard, cache, bounds>>
  PROVE  Inv'
<1> USE DEF Inv
<1>0. PICK alone \in BOOLEAN : alone = (GuardRequests = {})
  OBVIOUS
<1>1. PICK own \in Locals : own = [Idle EXCEPT !.step = step, !.alone = alone]
  BY IdleType DEF Locals, LoginSteps
<1>2. own.step = step /\ own.alone = alone /\ own.goal = "none"
  BY <1>1 DEF Idle
<1>3. request' = [x \in Requests |-> IF x = q THEN own ELSE [request[x] EXCEPT !.alone = FALSE]]
  BY <1>0, <1>1 DEF EnterGuard
<1>4. \A x \in Requests : x # q =>
        /\ request'[x] \in Locals
        /\ request'[x].step = request[x].step /\ request'[x].alone = FALSE
        /\ request'[x].read = request[x].read /\ request'[x].goal = request[x].goal
        /\ request'[x].at = request[x].at
  <2> SUFFICES ASSUME NEW x \in Requests, x # q
               PROVE  /\ request'[x] \in Locals
                      /\ request'[x].step = request[x].step /\ request'[x].alone = FALSE
                      /\ request'[x].read = request[x].read /\ request'[x].goal = request[x].goal
                      /\ request'[x].at = request[x].at
    OBVIOUS
  <2>1. request[x] \in Locals /\ request'[x] = [request[x] EXCEPT !.alone = FALSE]
    BY <1>3, LocalTypes
  <2> QED
    BY <2>1 DEF Locals
<1>5. request'[q] = own /\ request[q].step = "idle"
  BY <1>3 DEF EnterGuard, At
<1>6. TypeOK'
  BY <1>3, <1>4, <1>5 DEF TypeOK, guard, cache, bounds
<1>7. \A x \in Requests : x # q => (x \in GuardRequests' <=> x \in GuardRequests)
  BY <1>4 DEF GuardRequests
<1>8. AloneIsOnly'
  <2> SUFFICES ASSUME NEW x \in Requests, NEW y \in Requests, x \in GuardRequests',
                      request'[x].alone, y \in GuardRequests'
               PROVE  y = x
    BY DEF AloneIsOnly
  <2>1. x = q /\ alone
    BY <1>2, <1>4, <1>5
  <2> QED
    BY <1>0, <1>7, <2>1
<1>9. StreakIsCounted'
  BY DEF GuardInv, StreakIsCounted, guard
<1>10. ReadersCounted' /\ LiftersEnded' /\ StreakLocks'
  BY <1>2, <1>4, <1>5
     DEF GuardInv, ReadersCounted, LiftersEnded, StreakLocks, At, guard
<1>11. StoresHaveGoals' /\ ChecksHaveGoals' /\ ReadersAreFresh' /\ StaleIsEvicted'
  BY <1>2, <1>4, <1>5
     DEF CacheInv, StoresHaveGoals, ChecksHaveGoals, Purposeful, CheckSteps, ReadersAreFresh,
         StaleIsEvicted, At, cache
<1> QED
  BY <1>6, <1>8, <1>9, <1>10, <1>11 DEF GuardInv, CacheInv

LEMMA RefuseStep ==
  ASSUME Inv, NEW q \in Requests, Refuse(q)
  PROVE  Inv'
<1>1. TypeOK'
  BY IdleType, GoType DEF Inv, Refuse, Done, TypeOK, guard, cache, bounds
<1> QED
  BY <1>1, EndStep DEF Refuse, At, cache

\* A handler of the guard goes on, with the locals it has.
LEMMA GuardStep ==
  ASSUME Inv, NEW q \in Requests, request[q].step \in LoginSteps \ {"set_lock"},
         NEW local \in Locals, Go(q, local), local.alone = request[q].alone,
         local.step \in {"verify", "read_count", "clear_count"},
         UNCHANGED <<now, account, tokens, guard, cache, bounds>>
  PROVE  Inv'
<1>0. ~At(q, "evict_iat") /\ ~At(q, "set_lock")
  BY DEF At, LoginSteps
<1>1. TypeOK'
  BY GoType DEF Inv, TypeOK, guard, cache, bounds
<1>2. GuardInv'
  BY <1>0, GuardKeeps
<1>3. CacheInv'
  BY <1>0, CacheKeeps DEF cache, Purposeful, CheckSteps
<1> QED
  BY <1>1, <1>2, <1>3 DEF Inv

\* The locals of a handler whose step changes.
LEMMA StepLocals ==
  ASSUME Inv, NEW q \in Requests, NEW from, NEW step \in Steps, Step(q, from, step)
  PROVE  \E local \in Locals :
           /\ Go(q, local)
           /\ local.step = step /\ local.alone = request[q].alone /\ local.read = request[q].read
           /\ local.goal = request[q].goal
<1>0. request[q] \in Locals
  BY LocalTypes DEF Inv
<1>1. PICK local \in Locals : local = [request[q] EXCEPT !.step = step]
  BY <1>0, StepType
<1>2. /\ local.step = step /\ local.alone = request[q].alone /\ local.read = request[q].read
      /\ local.goal = request[q].goal
  BY <1>0, <1>1 DEF Locals
<1> QED
  BY <1>1, <1>2 DEF Step

LEMMA AdmitStep ==
  ASSUME Inv, NEW q \in Requests, Admit(q)
  PROVE  Inv'
<1>1. PICK step \in {"verify", "read_count"} : Step(q, "gate", step)
  BY DEF Admit, Fails
<1>2. request[q].step \in LoginSteps \ {"set_lock"} /\ step \in Steps
  BY <1>1 DEF Step, At, LoginSteps, Steps
<1>3. PICK local \in Locals : Go(q, local) /\ local.step = step /\ local.alone = request[q].alone
  BY <1>1, <1>2, StepLocals
<1> QED
  BY <1>2, <1>3, GuardStep DEF Admit

LEMMA VerifyStep ==
  ASSUME Inv, NEW q \in Requests, Verify(q)
  PROVE  Inv'
<1>0. request[q] \in Locals /\ request[q].step = "verify" /\ account.changed \in Nat
  BY LocalTypes DEF Inv, Verify, Fails, Step, At, TypeOK
<1>1. request[q].step \in LoginSteps \ {"set_lock"}
  BY <1>0 DEF LoginSteps
<1>2. CASE Fails(q, "verify")
  <2>1. "read_count" \in Steps
    BY DEF Steps, LoginSteps
  <2>2. PICK local \in Locals :
          Go(q, local) /\ local.step = "read_count" /\ local.alone = request[q].alone
    BY <1>2, <2>1, StepLocals DEF Fails
  <2> QED
    BY <1>1, <2>2, GuardStep DEF Verify
<1>3. CASE ~Fails(q, "verify")
  <2>1. PICK token \in Nat \cup {Nil} : token = IF account.active THEN account.changed ELSE Nil
    BY <1>0
  <2>2. PICK local \in Locals : local = [request[q] EXCEPT !.step = "clear_count", !.token = token]
    BY <1>0 DEF Locals, LoginSteps
  <2>3. local.step = "clear_count" /\ local.alone = request[q].alone
    BY <1>0, <2>2 DEF Locals
  <2>4. Go(q, local)
    BY <1>3, <2>1, <2>2 DEF Verify
  <2> QED
    BY <1>1, <2>3, <2>4, GuardStep DEF Verify
<1> QED
  BY <1>2, <1>3

\* The values that stand for nothing counted.
LEMMA NoStreak ==
  ASSUME TypeOK, NEW none, none = NoFails
  PROVE  /\ none.count = 0 /\ none.left = 0 /\ none \in [count : 0..LockAfter, left : Nat]
         /\ none.count <= fails.count /\ none.left <= fails.left /\ none.left <= LockTime
         /\ ~(none.count >= LockAfter) /\ ~(none.count > 0)
BY SessionsConstants DEF NoFails, TypeOK

\* What is read is what the streak has been counted into, or the streak ends.
LEMMA ReadCountStep ==
  ASSUME Inv, NEW q \in Requests, ReadCount(q)
  PROVE  Inv'
<1>0. /\ request[q] \in Locals /\ fails.count \in Nat /\ request[q].step = "read_count" /\ 0 \in Nat
      /\ TypeOK
  BY LocalTypes DEF Inv, TypeOK, ReadCount, At
<1>1. PICK read \in Nat :
        /\ Go(q, [request[q] EXCEPT !.step = "store_count", !.read = read])
        /\ (read = fails.count /\ UNCHANGED streak) \/ streak' = NoFails
  BY <1>0 DEF ReadCount
<1>2. PICK local \in Locals : local = [request[q] EXCEPT !.step = "store_count", !.read = read]
  BY <1>0 DEF Locals, LoginSteps
<1>3. local.step = "store_count" /\ local.alone = request[q].alone /\ local.read = read
  BY <1>0, <1>2 DEF Locals
<1>4. Go(q, local) /\ UNCHANGED <<now, account, tokens, fails, lock, cache, bounds>>
  BY <1>1, <1>2 DEF ReadCount
<1>5. request'[q] = local /\ \A x \in Requests : x # q => request'[x] = request[x]
  BY <1>4, GoMoves DEF Inv
<1>6. ASSUME streak' = NoFails
      PROVE  TypeOK' /\ StreakIsCounted' /\ ReadersCounted' /\ LiftersEnded' /\ StreakLocks'
  <2>1. /\ streak'.count = 0 /\ streak' \in [count : 0..LockAfter, left : Nat]
        /\ StreakIsCounted' /\ LiftersEnded' /\ StreakLocks'
    BY <1>0, <1>4, <1>6, NoStreak DEF StreakIsCounted, LiftersEnded, StreakLocks
  <2>2. TypeOK'
    BY <1>4, <2>1, GoType DEF Inv, TypeOK, cache, bounds
  <2>3. ReadersCounted'
    BY <2>1, <2>2, LocalTypes DEF ReadersCounted, TypeOK, Locals
  <2> QED
    BY <2>1, <2>2, <2>3
<1>7. ASSUME read = fails.count, UNCHANGED streak
      PROVE  TypeOK' /\ StreakIsCounted' /\ ReadersCounted' /\ LiftersEnded' /\ StreakLocks'
  <2>1. TypeOK'
    BY <1>4, <1>7, GoType DEF Inv, TypeOK, cache, bounds
  <2>2. StreakIsCounted'
    BY <1>4, <1>7 DEF Inv, GuardInv, StreakIsCounted
  <2>3. ReadersCounted'
    <3> SUFFICES ASSUME NEW x \in Requests, request'[x].step = "store_count", request'[x].alone
                 PROVE  request'[x].read >= streak.count
      BY <1>7 DEF ReadersCounted, At
    <3>1. CASE x = q
      BY <1>3, <1>5, <1>7, <3>1 DEF Inv, GuardInv, StreakIsCounted, TypeOK
    <3>2. CASE x # q
      BY <1>5, <3>2 DEF Inv, GuardInv, ReadersCounted, At
    <3> QED
      BY <3>1, <3>2
  <2>4. LiftersEnded' /\ StreakLocks'
    BY <1>0, <1>3, <1>4, <1>5, <1>7 DEF Inv, GuardInv, LiftersEnded, StreakLocks, At
  <2> QED
    BY <2>1, <2>2, <2>3, <2>4
<1>8. CacheInv'
  BY <1>0, <1>3, <1>4, CacheKeeps DEF At, cache, Purposeful, CheckSteps
<1>9. request[q].step \in LoginSteps
  BY <1>0 DEF LoginSteps
<1>10. \A x \in Requests : x \in GuardRequests' => x \in GuardRequests /\ request'[x].alone = request[x].alone
  BY <1>3, <1>5, <1>9 DEF GuardRequests
<1>11. AloneIsOnly'
  BY <1>10 DEF Inv, GuardInv, AloneIsOnly, GuardRequests
<1>12. TypeOK' /\ StreakIsCounted' /\ ReadersCounted' /\ LiftersEnded' /\ StreakLocks'
  BY <1>1, <1>6, <1>7
<1> QED
  BY <1>8, <1>11, <1>12 DEF Inv, GuardInv

\* While a handler that is not alone stores its failure, there is no streak; one that is
\* alone stores at least one more than the streak has.
LEMMA StoreCountStep ==
  ASSUME Inv, NEW q \in Requests, StoreCount(q)
  PROVE  Inv'
<1> USE DEF Inv
<1> DEFINE count == OneMore(request[q].read)
<1>0. /\ request[q] \in Locals /\ request[q].step = "store_count" /\ request[q].read \in Nat
      /\ streak.count \in 0..LockAfter /\ LockAfter \in Nat \ {0} /\ Window \in Nat \ {0}
      /\ LockTime \in Nat \ {0}
  BY LocalTypes, SessionsConstants DEF TypeOK, StoreCount, At
<1>1. count \in 0..LockAfter /\ count > 0 /\ (request[q].read >= streak.count => count >= OneMore(streak.count))
  BY <1>0 DEF OneMore
<1>2. PICK local \in Locals :
        /\ Go(q, local)
        /\ \/ local.step = "set_lock" /\ local.alone = request[q].alone /\ count >= LockAfter
           \/ local = Idle /\ ~(count >= LockAfter)
  <2>1. CASE count >= LockAfter
    <3>1. PICK local \in Locals : local = [request[q] EXCEPT !.step = "set_lock"]
      BY <1>0, StepType DEF Steps, LoginSteps
    <3>2. local.step = "set_lock" /\ local.alone = request[q].alone
      BY <1>0, <3>1 DEF Locals
    <3> QED
      BY <2>1, <3>1, <3>2 DEF StoreCount
  <2>2. CASE ~(count >= LockAfter)
    BY <2>2, IdleType DEF StoreCount, Done
  <2> QED
    BY <2>1, <2>2
<1>3. /\ \/ fails' = [count |-> count, left |-> Window] /\ streak' = Longer(q)
         \/ UNCHANGED fails /\ streak' = NoFails
      /\ UNCHANGED <<now, account, tokens, lock, cache, bounds>>
  BY DEF StoreCount
<1>4. /\ fails' \in [count : 0..LockAfter, left : 0..Window]
      /\ streak' \in [count : 0..LockAfter, left : Nat]
      /\ streak'.count <= fails'.count /\ streak'.left <= fails'.left /\ streak'.left <= LockTime
      /\ streak'.count > 0 => streak'.left > 0
      /\ streak'.count > 0 => request[q].alone
      /\ streak'.count >= LockAfter => count >= LockAfter
  <2>0. CASE UNCHANGED fails /\ streak' = NoFails
    <3>1. TypeOK /\ fails \in [count : 0..LockAfter, left : 0..Window]
      BY DEF TypeOK
    <3>2. fails' = fails
      BY <2>0
    <3> QED
      BY <2>0, <3>1, <3>2, NoStreak
  <2>1. CASE ~request[q].alone /\ fails' = [count |-> count, left |-> Window] /\ streak' = Longer(q)
    BY <1>0, <1>1, <2>1 DEF Longer, NoFails
  <2>2. CASE request[q].alone /\ fails' = [count |-> count, left |-> Window] /\ streak' = Longer(q)
    <3>1. request[q].read >= streak.count
      BY <1>0, <2>2 DEF GuardInv, ReadersCounted, At
    <3>2. streak' = [count |-> OneMore(streak.count),
                     left |-> IF Window < LockTime THEN Window ELSE LockTime]
      BY <2>2 DEF Longer
    <3>3. OneMore(streak.count) \in 0..LockAfter
      BY <1>0 DEF OneMore
    <3> QED
      BY <1>0, <1>1, <2>2, <3>1, <3>2, <3>3
  <2> QED
    BY <1>3, <2>0, <2>1, <2>2
<1>5. request'[q] = local /\ \A x \in Requests : x # q => request'[x] = request[x]
  BY <1>2, GoMoves
<1>6. TypeOK'
  BY <1>1, <1>2, <1>3, <1>4, <1>0, GoType DEF TypeOK, cache, bounds
<1>7. CacheInv'
  <2>1. local.step \notin {"keep_iat", "store_password"} /\ Purposeful(local)
    BY <1>2, IdleType DEF Purposeful, CheckSteps
  <2> QED
    BY <1>0, <1>2, <1>3, <2>1, CacheKeeps DEF At, cache
<1>8. q \in GuardRequests
  BY <1>0 DEF GuardRequests, LoginSteps
<1>9. \A x \in Requests : x \in GuardRequests' => x \in GuardRequests /\ request'[x].alone = request[x].alone
  BY <1>2, <1>5, <1>8, IdleType DEF GuardRequests, LoginSteps
<1>10. AloneIsOnly'
  BY <1>9 DEF GuardInv, AloneIsOnly, GuardRequests
<1>11. StreakIsCounted'
  BY <1>4 DEF StreakIsCounted
<1>12. ASSUME NEW x \in Requests, x # q, request[x].step \in LoginSteps
       PROVE  ~request[x].alone /\ streak'.count = 0
  <2>1. x \in GuardRequests
    BY <1>12 DEF GuardRequests
  <2>2. ~request[x].alone /\ ~request[q].alone
    BY <1>8, <1>12, <2>1 DEF GuardInv, AloneIsOnly
  <2> QED
    BY <1>4, <2>2
<1>13. ReadersCounted' /\ LiftersEnded'
  <2>1. local.step \notin {"store_count", "clear_lock"}
    BY <1>2, IdleType
  <2>2. "store_count" \in LoginSteps /\ "clear_lock" \in LoginSteps
    BY DEF LoginSteps
  <2> QED
    BY <1>5, <1>12, <2>1, <2>2 DEF ReadersCounted, LiftersEnded, At
<1>14. StreakLocks'
  BY <1>2, <1>4, <1>5 DEF StreakLocks, At
<1> QED
  BY <1>6, <1>7, <1>10, <1>11, <1>13, <1>14 DEF GuardInv

\* The lock holds at least as long as the streak, or the streak ends.
LEMMA SetLockStep ==
  ASSUME Inv, NEW q \in Requests, SetLock(q)
  PROVE  Inv'
<1> USE DEF Inv
<1>0. /\ request[q].step = "set_lock" /\ Go(q, Idle) /\ Done(q)
      /\ (lock' = LockTime /\ UNCHANGED streak) \/ (UNCHANGED lock /\ streak' = NoFails)
      /\ UNCHANGED <<now, account, tokens, fails, cache, bounds>>
  BY DEF SetLock, At, Done
<1>1. request'[q] = Idle /\ \A x \in Requests : x # q => request'[x] = request[x]
  BY <1>0, IdleType, GoMoves
<1>2. lock' \in 0..LockTime /\ streak' \in [count : 0..LockAfter, left : Nat]
  BY <1>0, NoStreak, SessionsConstants DEF TypeOK
<1>3. TypeOK'
  BY <1>0, <1>2, IdleType, GoType DEF TypeOK, cache, bounds
<1>4. CacheInv'
  BY <1>0, CacheEnds DEF At, cache
<1>5. AloneIsOnly'
  BY <1>0, <1>1, IdleType DEF GuardInv, AloneIsOnly, GuardRequests, LoginSteps
<1>6. ASSUME lock' = LockTime, UNCHANGED streak
      PROVE  ReadersCounted' /\ LiftersEnded' /\ StreakIsCounted' /\ StreakLocks'
  <2>1. ReadersCounted' /\ LiftersEnded'
    BY <1>0, <1>1, <1>6, IdleType DEF GuardInv, ReadersCounted, LiftersEnded, At
  <2>2. StreakIsCounted' /\ StreakLocks'
    BY <1>0, <1>6 DEF GuardInv, StreakIsCounted, StreakLocks
  <2> QED
    BY <2>1, <2>2
<1>7. ASSUME streak' = NoFails
      PROVE  ReadersCounted' /\ LiftersEnded' /\ StreakIsCounted' /\ StreakLocks'
  <2>1. streak'.count = 0 /\ StreakIsCounted' /\ LiftersEnded' /\ StreakLocks'
    BY <1>0, <1>7, NoStreak DEF StreakIsCounted, LiftersEnded, StreakLocks
  <2>2. ReadersCounted'
    BY <1>3, <2>1, LocalTypes DEF ReadersCounted, TypeOK, Locals
  <2> QED
    BY <2>1, <2>2
<1>8. ReadersCounted' /\ LiftersEnded' /\ StreakIsCounted' /\ StreakLocks'
  BY <1>0, <1>6, <1>7
<1> QED
  BY <1>3, <1>4, <1>5, <1>8 DEF GuardInv

LEMMA ClearCountStep ==
  ASSUME Inv, NEW q \in Requests, ClearCount(q)
  PROVE  Inv'
<1> USE DEF Inv
<1>0. /\ request[q].step = "clear_count" /\ request[q].step \in LoginSteps
      /\ fails' = NoFails \/ UNCHANGED fails
      /\ streak' = NoFails
      /\ UNCHANGED <<now, account, tokens, lock, cache, bounds>>
  BY DEF ClearCount, Step, At, LoginSteps
<1>1. PICK local \in Locals :
        Go(q, local) /\ local.step = "clear_lock" /\ local.alone = request[q].alone
  BY StepLocals DEF ClearCount, Steps, LoginSteps
<1>2. request'[q] = local /\ \A x \in Requests : x # q => request'[x] = request[x]
  BY <1>1, GoMoves
<1>3. fails' \in [count : 0..LockAfter, left : 0..Window]
  BY <1>0, NothingTypes DEF TypeOK
<1>4. TypeOK'
  BY <1>0, <1>1, <1>3, GoType, NoStreak DEF TypeOK, cache, bounds
<1>5. CacheInv'
  BY <1>0, <1>1, CacheKeeps DEF At, cache, Purposeful, CheckSteps
<1>6. AloneIsOnly'
  BY <1>0, <1>1, <1>2 DEF GuardInv, AloneIsOnly, GuardRequests
<1>7. streak'.count = 0 /\ StreakIsCounted' /\ LiftersEnded' /\ StreakLocks'
  BY <1>0, <1>3, NoStreak, SessionsConstants DEF StreakIsCounted, LiftersEnded, StreakLocks, NoFails
<1>8. ReadersCounted'
  BY <1>4, <1>7, LocalTypes DEF ReadersCounted, TypeOK, Locals
<1> QED
  BY <1>4, <1>5, <1>6, <1>7, <1>8 DEF GuardInv

LEMMA ClearLockStep ==
  ASSUME Inv, NEW q \in Requests, ClearLock(q)
  PROVE  Inv'
<1> USE DEF Inv
<1>0. /\ request[q].step = "clear_lock" /\ Go(q, Idle) /\ Done(q)
      /\ lock' = 0 \/ UNCHANGED lock
      /\ UNCHANGED <<now, account, fails, streak, cache, bounds>>
      /\ tokens' = tokens \cup ({request[q].token} \ {Nil})
  BY DEF ClearLock, At, Done
<1>1. request'[q] = Idle /\ \A x \in Requests : x # q => request'[x] = request[x]
  BY <1>0, IdleType, GoMoves
<1>2. tokens' \subseteq Nat
  BY <1>0, LocalTypes DEF TypeOK
<1>3. TypeOK'
  BY <1>0, <1>2, IdleType, GoType, SessionsConstants DEF TypeOK, cache, bounds
<1>4. CacheInv'
  BY <1>0, CacheEnds DEF At, cache
<1>5. AloneIsOnly' /\ ReadersCounted' /\ LiftersEnded'
  BY <1>0, <1>1, IdleType
     DEF GuardInv, AloneIsOnly, GuardRequests, LoginSteps, ReadersCounted, LiftersEnded, At
<1>6. streak.count = 0
  BY <1>0 DEF GuardInv, LiftersEnded, At
<1>7. StreakIsCounted' /\ StreakLocks'
  BY <1>0, <1>6, SessionsConstants DEF GuardInv, StreakIsCounted, StreakLocks
<1> QED
  BY <1>3, <1>4, <1>5, <1>7 DEF GuardInv

LEMMA GuardHandlers ==
  ASSUME Inv, NEW q \in Requests,
         \/ Login(q) \/ Unlock(q) \/ Refuse(q) \/ Admit(q) \/ Verify(q) \/ ReadCount(q)
         \/ StoreCount(q) \/ SetLock(q) \/ ClearCount(q) \/ ClearLock(q)
  PROVE  Inv'
<1>1. CASE Login(q) \/ Unlock(q)
  BY <1>1, EnterStep DEF Login, Unlock
<1> QED
  BY <1>1, RefuseStep, AdmitStep, VerifyStep, ReadCountStep, StoreCountStep, SetLockStep,
     ClearCountStep, ClearLockStep

----------------------------------------------------------------------------
(* A request with a JWT *)

LEMMA CheckStep ==
  ASSUME Inv, NEW q \in Requests, NEW token \in tokens, NEW goal \in {"serve", "edit", "change"},
         Check(q, token, goal)
  PROVE  Inv'
<1>1. PICK local \in Locals : local = [Idle EXCEPT !.step = "look_iat", !.token = token, !.goal = goal]
  BY IdleType DEF Inv, TypeOK, Locals, CheckSteps, Goals
<1>2. local.step = "look_iat" /\ Purposeful(local)
  BY <1>1 DEF Idle, Purposeful
<1>3. Go(q, local) /\ UNCHANGED <<now, account, tokens, guard, cache, mix>>
  BY <1>1 DEF Check
<1>4. made' \in 0..Changes
  BY SessionsConstants DEF Check, Inv, TypeOK
<1>5. TypeOK'
  BY <1>3, <1>4, GoType DEF Inv, TypeOK, guard, cache
<1>6. ~At(q, "set_lock") /\ ~At(q, "evict_iat") /\ "look_iat" \notin LoginSteps
  BY DEF Check, At, LoginSteps
<1> QED
  BY <1>2, <1>3, <1>5, <1>6, GoStep DEF cache

\* What comes of a comparison, and of an accepted request.
LEMMA CompareGoes ==
  ASSUME Inv, NEW q \in Requests, NEW second, Compare(q, second)
  PROVE  \E local \in Locals :
           Go(q, local) /\ local.step \in {"idle", "look_profile"}
           /\ (local.step # "idle" => local.goal = request[q].goal)
<1>0. request[q] \in Locals
  BY LocalTypes DEF Inv
<1>1. CASE Done(q)
  BY <1>1, IdleType DEF Done
<1>2. CASE Go(q, [request[q] EXCEPT !.step = "look_profile", !.read = 0])
  <2>1. PICK local \in Locals : local = [request[q] EXCEPT !.step = "look_profile", !.read = 0]
    BY <1>0 DEF Locals, CheckSteps
  <2>2. local.step = "look_profile" /\ local.goal = request[q].goal
    BY <1>0, <2>1 DEF Locals
  <2> QED
    BY <1>2, <2>1, <2>2
<1> QED
  BY <1>1, <1>2 DEF Compare

LEMMA AcceptGoes ==
  ASSUME Inv, NEW q \in Requests, NEW active, Accept(q, active),
         request[q].goal \in {"serve", "edit", "change"}
  PROVE  \E local \in Locals : Go(q, local) /\ local.step \in {"idle", "evict_iat", "verify_old"}
<1>0. request[q] \in Locals
  BY LocalTypes DEF Inv
<1>1. CASE Done(q)
  BY <1>1, IdleType DEF Done
<1>2. ASSUME NEW step \in {"evict_iat", "verify_old"}, Go(q, [request[q] EXCEPT !.step = step])
      PROVE  \E local \in Locals : Go(q, local) /\ local.step \in {"idle", "evict_iat", "verify_old"}
  <2>1. PICK local \in Locals : local = [request[q] EXCEPT !.step = step]
    BY <1>0, StepType DEF Steps, ChangeSteps
  <2>2. local.step = step
    BY <1>0, <2>1 DEF Locals
  <2> QED
    BY <1>2, <2>1, <2>2
<1>3. Done(q) \/ \E step \in {"evict_iat", "verify_old"} : Go(q, [request[q] EXCEPT !.step = step])
  BY DEF Accept
<1> QED
  BY <1>1, <1>2, <1>3

\* A check that reads, or that stops.
LEMMA CheckGoes ==
  ASSUME Inv, NEW q \in Requests, request[q].step \in CheckSteps,
         NEW step \in CheckSteps, step # "keep_iat",
         Go(q, [request[q] EXCEPT !.step = step]),
         UNCHANGED <<now, account, tokens, guard, cache, bounds>>
  PROVE  Inv'
<1>0. request[q] \in Locals /\ step \in Steps /\ step \notin LoginSteps
  BY LocalTypes DEF Inv, Steps, LoginSteps, CheckSteps
<1>1. PICK local \in Locals : local = [request[q] EXCEPT !.step = step]
  BY <1>0, StepType
<1>2. local.step = step /\ local.goal = request[q].goal
  BY <1>0, <1>1 DEF Locals
<1>3. Purposeful(local) /\ step # "store_password"
  BY <1>2 DEF Inv, CacheInv, ChecksHaveGoals, Purposeful, CheckSteps
<1>4. TypeOK'
  BY <1>1, GoType DEF Inv, TypeOK, guard, cache, bounds
<1>5. ~At(q, "set_lock") /\ ~At(q, "evict_iat")
  BY DEF At, CheckSteps
<1> QED
  BY <1>0, <1>1, <1>2, <1>3, <1>4, <1>5, GoStep DEF cache

LEMMA LookIatStep ==
  ASSUME Inv, NEW q \in Requests, LookIat(q)
  PROVE  Inv'
<1>0. /\ request[q].step = "look_iat" /\ request[q].step \in CheckSteps
      /\ UNCHANGED <<now, account, tokens, guard, cache, bounds>>
  BY DEF LookIat, At, CheckSteps
<1>1. CASE Compare(q, iat.second)
  <2>1. PICK second : Compare(q, second)
    BY <1>1
  <2>2. PICK local \in Locals :
          /\ Go(q, local) /\ local.step \in {"idle", "look_profile"}
          /\ local.step # "idle" => local.goal = request[q].goal
    BY <2>1, CompareGoes
  <2>3. Purposeful(local) /\ local.step \notin LoginSteps
    BY <1>0, <2>2 DEF Inv, CacheInv, ChecksHaveGoals, Purposeful, CheckSteps, LoginSteps
  <2>4. TypeOK'
    BY <1>0, <2>2, GoType DEF Inv, TypeOK, guard, cache, bounds
  <2> QED
    BY <1>0, <2>2, <2>3, <2>4, GoStep DEF At, cache
<1>2. CASE Go(q, [request[q] EXCEPT !.step = "load_iat"])
  <2>1. "load_iat" \in CheckSteps
    BY DEF CheckSteps
  <2> QED
    BY <1>0, <1>2, <2>1, CheckGoes
<1> QED
  BY <1>1, <1>2 DEF LookIat

\* What a check reads is what the row says.
LEMMA LoadIatStep ==
  ASSUME Inv, NEW q \in Requests, LoadIat(q)
  PROVE  Inv'
<1> USE DEF Inv
<1>0. /\ request[q] \in Locals /\ request[q].step = "load_iat" /\ account.changed \in Nat
      /\ UNCHANGED <<now, account, tokens, guard, cache, bounds>>
      /\ request[q].goal \in {"serve", "edit", "change"}
  BY LocalTypes DEF TypeOK, LoadIat, At, CacheInv, ChecksHaveGoals, Purposeful, CheckSteps
<1>1. PICK local \in Locals :
        local = [request[q] EXCEPT !.step = "keep_iat", !.read = account.changed]
  BY <1>0 DEF Locals, CheckSteps
<1>2. local.step = "keep_iat" /\ local.read = account.changed /\ local.goal = request[q].goal
  BY <1>0, <1>1 DEF Locals
<1>3. Go(q, local)
  BY <1>1 DEF LoadIat
<1>4. request'[q] = local /\ \A x \in Requests : x # q => request'[x] = request[x]
  BY <1>3, GoMoves
<1>5. TypeOK'
  BY <1>0, <1>3, GoType DEF TypeOK, guard, cache, bounds
<1>6. GuardInv'
  BY <1>0, <1>2, <1>3, GuardKeeps DEF At, LoginSteps
<1>7. StoresHaveGoals' /\ ChecksHaveGoals'
  BY <1>0, <1>2, <1>4 DEF CacheInv, StoresHaveGoals, ChecksHaveGoals, Purposeful, At
<1>8. ReadersAreFresh' /\ StaleIsEvicted'
  BY <1>0, <1>2, <1>4 DEF CacheInv, ReadersAreFresh, StaleIsEvicted, At, cache
<1> QED
  BY <1>5, <1>6, <1>7, <1>8 DEF CacheInv

\* What it then puts into the cache, if it can, still is, or there is an excuse.
LEMMA KeepIatStep ==
  ASSUME Inv, NEW q \in Requests, KeepIat(q)
  PROVE  Inv'
<1> USE DEF Inv
<1>0. /\ request[q].step = "keep_iat" /\ request[q].read \in Nat
      /\ iat' = [second |-> request[q].read, left |-> PasswordTTL] \/ UNCHANGED iat
      /\ UNCHANGED <<now, account, tokens, guard, profile, excuse, bounds>>
      /\ request[q].goal \in {"serve", "edit", "change"}
  BY LocalTypes DEF TypeOK, KeepIat, At, CacheInv, ChecksHaveGoals, Purposeful, CheckSteps
<1>1. PICK local \in Locals :
        /\ Go(q, local) /\ local.step \in {"idle", "look_profile"}
        /\ local.step # "idle" => local.goal = request[q].goal
  BY CompareGoes DEF KeepIat
<1>2. request'[q] = local /\ \A x \in Requests : x # q => request'[x] = request[x]
  BY <1>1, GoMoves
<1>3. TypeOK'
  <2>1. iat' \in [second : Nat, left : 0..PasswordTTL]
    BY <1>0, SessionsConstants DEF TypeOK
  <2> QED
    BY <1>0, <1>1, <2>1, GoType DEF TypeOK, guard, bounds
<1>4. GuardInv'
  BY <1>0, <1>1, GuardKeeps DEF At, LoginSteps
<1>5. StoresHaveGoals' /\ ChecksHaveGoals' /\ ReadersAreFresh'
  BY <1>0, <1>1, <1>2
     DEF CacheInv, StoresHaveGoals, ChecksHaveGoals, Purposeful, CheckSteps, ReadersAreFresh, At
<1>6. StaleIsEvicted'
  <2>1. CASE iat' = [second |-> request[q].read, left |-> PasswordTTL]
    BY <1>0, <2>1 DEF CacheInv, ReadersAreFresh, StaleIsEvicted, At
  <2>2. CASE UNCHANGED iat
    BY <1>0, <1>1, <1>2, <2>2 DEF CacheInv, StaleIsEvicted, At
  <2> QED
    BY <1>0, <2>1, <2>2
<1> QED
  BY <1>3, <1>4, <1>5, <1>6 DEF CacheInv

\* An accepted request serves, edits or changes.
LEMMA AcceptStep ==
  ASSUME Inv, NEW q \in Requests, NEW active, Accept(q, active),
         request[q].step \in {"look_profile", "keep_profile"},
         UNCHANGED <<account, guard, iat, excuse>>,
         \A local \in Locals : Go(q, local) => TypeOK'
  PROVE  Inv'
<1>1. request[q].goal \in {"serve", "edit", "change"}
  BY DEF Inv, CacheInv, ChecksHaveGoals, Purposeful, CheckSteps
<1>2. PICK local \in Locals : Go(q, local) /\ local.step \in {"idle", "evict_iat", "verify_old"}
  BY <1>1, AcceptGoes
<1>3. Purposeful(local) /\ local.step \notin LoginSteps
  BY <1>2 DEF Purposeful, CheckSteps, LoginSteps
<1> QED
  BY <1>2, <1>3, GoStep DEF At

LEMMA LookProfileStep ==
  ASSUME Inv, NEW q \in Requests, LookProfile(q)
  PROVE  Inv'
<1>0. /\ request[q].step = "look_profile"
      /\ UNCHANGED <<now, account, tokens, guard, cache, bounds>>
  BY DEF LookProfile, At
<1>1. CASE Accept(q, profile.active)
  <2>1. Accept(q, profile.active)
    BY <1>1
  <2>2. \A local \in Locals : Go(q, local) => TypeOK'
    BY <1>0, GoType DEF Inv, TypeOK, guard, cache, bounds
  <2>3. PICK active : active = profile.active
    OBVIOUS
  <2> QED
    BY <1>0, <2>1, <2>2, <2>3, AcceptStep DEF cache
<1>2. CASE Go(q, [request[q] EXCEPT !.step = "load_profile"])
  <2>1. {"look_profile", "load_profile"} \subseteq CheckSteps
    BY DEF CheckSteps
  <2> QED
    BY <1>0, <1>2, <2>1, CheckGoes
<1> QED
  BY <1>1, <1>2 DEF LookProfile

LEMMA LoadProfileStep ==
  ASSUME Inv, NEW q \in Requests, LoadProfile(q)
  PROVE  Inv'
<1>0. /\ request[q] \in Locals /\ request[q].step = "load_profile" /\ account.active \in BOOLEAN
      /\ UNCHANGED <<now, account, tokens, guard, cache, bounds>>
      /\ request[q].goal \in {"serve", "edit", "change"}
  BY LocalTypes
     DEF Inv, TypeOK, LoadProfile, At, CacheInv, ChecksHaveGoals, Purposeful, CheckSteps
<1>1. PICK local \in Locals :
        local = [request[q] EXCEPT !.step = "keep_profile", !.active = account.active]
  BY <1>0 DEF Locals, CheckSteps
<1>2. local.step = "keep_profile" /\ local.goal = request[q].goal
  BY <1>0, <1>1 DEF Locals
<1>3. Go(q, local)
  BY <1>1 DEF LoadProfile
<1>4. TypeOK'
  BY <1>0, <1>3, GoType DEF Inv, TypeOK, guard, cache, bounds
<1>5. Purposeful(local) /\ local.step \notin LoginSteps
  BY <1>0, <1>2 DEF Purposeful, LoginSteps
<1> QED
  BY <1>0, <1>2, <1>3, <1>4, <1>5, GoStep DEF At, cache

LEMMA KeepProfileStep ==
  ASSUME Inv, NEW q \in Requests, KeepProfile(q)
  PROVE  Inv'
<1>0. /\ request[q].step = "keep_profile" /\ request[q].active \in BOOLEAN
      /\ UNCHANGED <<now, account, tokens, guard, iat, excuse, bounds>>
      /\ profile' = [active |-> request[q].active, left |-> ProfileTTL] \/ UNCHANGED profile
      /\ Accept(q, request[q].active)
  BY LocalTypes DEF Inv, KeepProfile, At, Locals
<1>1. profile' \in [active : BOOLEAN, left : 0..ProfileTTL]
  BY <1>0, SessionsConstants DEF Inv, TypeOK
<1>2. \A local \in Locals : Go(q, local) => TypeOK'
  BY <1>0, <1>1, GoType DEF Inv, TypeOK, guard, bounds
<1>3. PICK active : active = request[q].active
  OBVIOUS
<1> QED
  BY <1>0, <1>2, <1>3, AcceptStep

----------------------------------------------------------------------------
(* Changes of the account *)

LEMMA ChangingType ==
  ASSUME TypeOK, NEW goal \in {"change", "reset"}
  PROVE  \E local \in Locals :
           /\ local = Changing(goal)
           /\ local.step = "store_password" /\ local.goal = goal /\ local.at = now
<1>1. "store_password" \in Steps /\ now \in Nat /\ goal \in Goals
  BY DEF Steps, ChangeSteps, TypeOK, Goals
<1>2. PICK local \in Locals :
        local = [Idle EXCEPT !.step = "store_password", !.at = now, !.goal = goal]
  BY <1>1, IdleType DEF Locals, Steps
<1>3. local.step = "store_password" /\ local.goal = goal /\ local.at = now
  BY <1>2, IdleType DEF Locals
<1> QED
  BY <1>2, <1>3 DEF Changing

LEMMA ChangingStep ==
  ASSUME Inv, NEW q \in Requests, NEW goal \in {"change", "reset"}, Go(q, Changing(goal)),
         ~At(q, "set_lock"), ~At(q, "evict_iat"), made' \in 0..Changes,
         UNCHANGED <<now, account, tokens, guard, cache, mix>>
  PROVE  Inv'
<1>1. PICK local \in Locals :
        /\ local = Changing(goal)
        /\ local.step = "store_password" /\ local.goal = goal /\ local.at \in Nat
  BY ChangingType DEF Inv, TypeOK
<1>2. Go(q, local)
  BY <1>1
<1>3. TypeOK'
  BY <1>2, GoType DEF Inv, TypeOK, guard, cache
<1>4. Purposeful(local) /\ local.step \notin LoginSteps
  BY <1>1 DEF Purposeful, CheckSteps, LoginSteps
<1> QED
  BY <1>1, <1>2, <1>3, <1>4, GoStep DEF cache

LEMMA VerifyOldStep ==
  ASSUME Inv, NEW q \in Requests, VerifyOld(q)
  PROVE  Inv'
<1>0. /\ ~At(q, "set_lock") /\ ~At(q, "evict_iat")
      /\ UNCHANGED <<now, account, tokens, guard, cache, bounds>> /\ made' \in 0..Changes
  BY DEF VerifyOld, At, Inv, TypeOK, bounds
<1>1. CASE Done(q)
  <2>1. TypeOK'
    BY <1>0, <1>1, IdleType, GoType DEF Inv, Done, TypeOK, guard, cache, bounds
  <2> QED
    BY <1>0, <1>1, <2>1, EndStep DEF cache
<1>2. CASE Go(q, Changing("change"))
  BY <1>0, <1>2, ChangingStep DEF bounds
<1> QED
  BY <1>1, <1>2 DEF VerifyOld

LEMMA ResetPasswordStep ==
  ASSUME Inv, NEW q \in Requests, NEW goal \in {"change", "reset"}, ResetPassword(q, goal)
  PROVE  Inv'
<1>1. made' \in 0..Changes
  BY SessionsConstants DEF ResetPassword, Inv, TypeOK
<1> QED
  BY <1>1, ChangingStep DEF ResetPassword, At

\* The change that makes what is cached old is about to evict it, and whoever has read
\* the old value is the excuse.
LEMMA StorePasswordStep ==
  ASSUME Inv, NEW q \in Requests, StorePassword(q)
  PROVE  Inv'
<1> USE DEF Inv
<1>0. /\ request[q] \in Locals /\ request[q].step = "store_password"
      /\ request[q].goal \in {"change", "reset"} /\ excuse \in BOOLEAN
      /\ account' = [account EXCEPT !.changed = request[q].at, !.reset = FALSE]
      /\ excuse' = (excuse \/ request[q].goal = "reset" \/ Holds(q, request[q].at))
      /\ UNCHANGED <<now, tokens, guard, iat, profile, bounds>>
  BY LocalTypes DEF TypeOK, StorePassword, At, CacheInv, StoresHaveGoals
<1>1. request[q].at \in Nat /\ account'.changed = request[q].at
      /\ account' \in [changed : Nat, active : BOOLEAN, reset : BOOLEAN]
  BY <1>0 DEF TypeOK, CacheInv, StoresHaveGoals, At
<1>2. PICK local \in Locals :
        /\ Go(q, local)
        /\ \/ local.step = "idle" /\ request[q].goal = "reset"
           \/ local.step = "evict_iat" /\ local.goal = "change"
  <2>1. CASE request[q].goal = "reset"
    BY <2>1, IdleType DEF StorePassword, Done
  <2>2. CASE request[q].goal = "change"
    <3>1. PICK local \in Locals : local = [request[q] EXCEPT !.step = "evict_iat"]
      BY <1>0, StepType DEF Steps, ChangeSteps
    <3>2. local.step = "evict_iat" /\ local.goal = "change"
      BY <1>0, <2>2, <3>1 DEF Locals
    <3>3. Go(q, local)
      BY <2>2, <3>1 DEF StorePassword
    <3> QED
      BY <3>2, <3>3
  <2> QED
    BY <1>0, <2>1, <2>2
<1>3. request'[q] = local /\ \A x \in Requests : x # q => request'[x] = request[x]
  BY <1>2, GoMoves
<1>4. excuse' \in BOOLEAN
  BY <1>0 DEF Holds, At
<1>5. TypeOK'
  BY <1>0, <1>1, <1>2, <1>4, GoType DEF TypeOK, guard, bounds
<1>6. GuardInv'
  BY <1>0, <1>2, GuardKeeps DEF At, LoginSteps
<1>7. StoresHaveGoals' /\ ChecksHaveGoals'
  BY <1>2, <1>3 DEF CacheInv, StoresHaveGoals, ChecksHaveGoals, Purposeful, CheckSteps, At
<1>8. ReadersAreFresh'
  BY <1>0, <1>1, <1>2, <1>3 DEF ReadersAreFresh, Holds, At
<1>9. StaleIsEvicted'
  BY <1>0, <1>2, <1>3 DEF StaleIsEvicted, At
<1> QED
  BY <1>5, <1>6, <1>7, <1>8, <1>9 DEF CacheInv

\* An eviction settles everything but the checks that have read an older value; one that fails
\* is an excuse.
LEMMA EvictIatStep ==
  ASSUME Inv, NEW q \in Requests, EvictIat(q)
  PROVE  Inv'
<1> USE DEF Inv
<1>0. /\ request[q].step = "evict_iat"
      /\ \/ iat' = NoIat /\ excuse' = Holds(q, account.changed)
         \/ UNCHANGED iat /\ excuse' = TRUE
      /\ UNCHANGED <<now, account, tokens, guard, profile, bounds>>
  BY DEF EvictIat, Step, At
<1>1. PICK local \in Locals : Go(q, local) /\ local.step = "evict_profile"
  BY StepLocals DEF EvictIat, Steps, ChangeSteps
<1>2. request'[q] = local /\ \A x \in Requests : x # q => request'[x] = request[x]
  BY <1>1, GoMoves
<1>3. excuse' \in BOOLEAN
  BY <1>0 DEF Holds, At
<1>4. TypeOK'
  BY <1>0, <1>1, <1>3, GoType, NothingTypes DEF TypeOK, guard, bounds
<1>5. GuardInv'
  BY <1>0, <1>1, GuardKeeps DEF At, LoginSteps
<1>6. StoresHaveGoals' /\ ChecksHaveGoals'
  BY <1>1, <1>2 DEF CacheInv, StoresHaveGoals, ChecksHaveGoals, Purposeful, CheckSteps, At
<1>7. ReadersAreFresh'
  BY <1>0, <1>1, <1>2 DEF ReadersAreFresh, Holds, At
<1>8. StaleIsEvicted'
  BY <1>0 DEF StaleIsEvicted, NoIat
<1> QED
  BY <1>4, <1>5, <1>6, <1>7, <1>8 DEF CacheInv

LEMMA EvictProfileStep ==
  ASSUME Inv, NEW q \in Requests, EvictProfile(q)
  PROVE  Inv'
<1>1. TypeOK'
  BY IdleType, GoType, NothingTypes DEF EvictProfile, Done, Inv, TypeOK, guard, bounds
<1> QED
  BY <1>1, EndStep DEF EvictProfile, At

LEMMA AccountStep ==
  ASSUME Inv, Toggle \/ Forgot
  PROVE  Inv'
<1>1. /\ account' \in [changed : Nat, active : BOOLEAN, reset : BOOLEAN]
      /\ account'.changed = account.changed /\ made' \in 0..Changes
      /\ UNCHANGED <<now, tokens, guard, cache, request, mix>>
  <2> USE DEF Inv, TypeOK
  <2>1. CASE Toggle
    <3>1. account' = [account EXCEPT !.active = ~account.active] /\ made' = made + 1 /\ made < Changes
      BY <2>1 DEF Toggle
    <3>2. PICK active : active = ~account.active /\ active \in BOOLEAN
      <4>1. CASE account.active
        BY <4>1, Zenon
      <4>2. CASE ~account.active
        BY <4>2, Zenon
      <4> QED
        BY <4>1, <4>2
    <3>3. account' \in [changed : Nat, active : BOOLEAN, reset : BOOLEAN]
          /\ account'.changed = account.changed
      BY <3>1, <3>2
    <3>4. made' \in 0..Changes
      BY <3>1, SessionsConstants
    <3> QED
      BY <2>1, <3>3, <3>4 DEF Toggle
  <2>2. CASE Forgot
    <3>1. account' = [account EXCEPT !.reset = TRUE]
      BY <2>2 DEF Forgot
    <3>2. account' \in [changed : Nat, active : BOOLEAN, reset : BOOLEAN]
          /\ account'.changed = account.changed
      BY <3>1
    <3> QED
      BY <2>2, <3>2 DEF Forgot, bounds
  <2> QED
    BY <2>1, <2>2
<1>2. TypeOK'
  BY <1>1 DEF Inv, TypeOK, guard, cache
<1>3. GuardInv'
  BY <1>1 DEF Inv, GuardInv, AloneIsOnly, GuardRequests, StreakIsCounted, ReadersCounted,
              LiftersEnded, StreakLocks, At, guard
<1>4. CacheInv'
  BY <1>1 DEF Inv, CacheInv, StoresHaveGoals, ChecksHaveGoals, Purposeful, ReadersAreFresh,
              StaleIsEvicted, At, cache
<1> QED
  BY <1>2, <1>3, <1>4 DEF Inv

----------------------------------------------------------------------------
(* Time, and clients that leave *)

LEMMA OlderCounts ==
  ASSUME NEW entry, entry.left \in Nat, entry.count \in Nat,
         NEW older, older = Older(entry, NoFails), entry = [count |-> entry.count, left |-> entry.left]
  PROVE  \/ entry.left <= 1 /\ older.count = 0 /\ older.left = 0 /\ older = NoFails
         \/ /\ entry.left > 1 /\ older.count = entry.count /\ older.left = entry.left - 1
            /\ older = [count |-> entry.count, left |-> entry.left - 1]
BY DEF Older, NoFails

LEMMA TickStep ==
  ASSUME Inv, Tick
  PROVE  Inv'
<1> USE DEF Inv
<1>0. UNCHANGED <<account, tokens, request, made, mix, excuse>>
  BY DEF Tick, bounds
<1>1. now' \in Nat /\ lock' \in 0..LockTime /\ lock' = (IF lock = 0 THEN 0 ELSE lock - 1)
  BY SessionsConstants DEF Tick, TypeOK
<1>2. /\ \/ fails.left <= 1 /\ fails' = NoFails /\ fails'.count = 0 /\ fails'.left = 0
         \/ /\ fails.left > 1 /\ fails'.count = fails.count /\ fails'.left = fails.left - 1
            /\ fails' = [count |-> fails.count, left |-> fails.left - 1]
  <2>1. fails.left \in Nat /\ fails.count \in Nat
        /\ fails = [count |-> fails.count, left |-> fails.left]
    BY SessionsConstants DEF TypeOK
  <2> QED
    BY <2>1 DEF Tick, Older, NoFails
<1>3. /\ \/ streak.left <= 1 /\ streak' = NoFails /\ streak'.count = 0 /\ streak'.left = 0
         \/ /\ streak.left > 1 /\ streak'.count = streak.count /\ streak'.left = streak.left - 1
            /\ streak' = [count |-> streak.count, left |-> streak.left - 1]
  <2>1. streak.left \in Nat /\ streak.count \in Nat
        /\ streak = [count |-> streak.count, left |-> streak.left]
    BY SessionsConstants DEF TypeOK
  <2> QED
    BY <2>1 DEF Tick, Older, NoFails
<1>4. /\ iat' \in [second : Nat, left : 0..PasswordTTL]
      /\ iat'.left = 0 \/ (iat.left > 0 /\ iat'.second = iat.second)
  <2>1. iat \in [second : Nat, left : 0..PasswordTTL] /\ PasswordTTL \in Nat
    BY SessionsConstants DEF TypeOK
  <2>2. iat' = NoIat \/ (iat.left > 1 /\ iat' = [iat EXCEPT !.left = @ - 1])
    BY <2>1 DEF Tick, Older
  <2> QED
    BY <2>1, <2>2, NothingTypes DEF NoIat
<1>5. profile' \in [active : BOOLEAN, left : 0..ProfileTTL]
  <2>1. profile \in [active : BOOLEAN, left : 0..ProfileTTL] /\ ProfileTTL \in Nat
    BY SessionsConstants DEF TypeOK
  <2>2. profile' = NoProfile \/ (profile.left > 1 /\ profile' = [profile EXCEPT !.left = @ - 1])
    BY <2>1 DEF Tick, Older
  <2> QED
    BY <2>1, <2>2, NothingTypes
<1>6. fails' \in [count : 0..LockAfter, left : 0..Window]
      /\ streak' \in [count : 0..LockAfter, left : Nat]
  BY <1>2, <1>3, NothingTypes, SessionsConstants DEF TypeOK
<1>7. TypeOK'
  BY <1>0, <1>1, <1>4, <1>5, <1>6 DEF TypeOK
<1>8. /\ fails.count \in Nat /\ fails.left \in Nat /\ streak.count \in Nat /\ streak.left \in Nat
      /\ lock \in Nat /\ LockTime \in Nat /\ LockAfter \in Nat \ {0}
  BY SessionsConstants DEF TypeOK
<1>9. AloneIsOnly'
  BY <1>0 DEF GuardInv, AloneIsOnly, GuardRequests
<1>10. StreakIsCounted'
  BY <1>2, <1>3, <1>8 DEF GuardInv, StreakIsCounted
<1>11. ReadersCounted' /\ LiftersEnded'
  <2>1. \A q \in Requests : request[q].read \in Nat
    BY LocalTypes
  <2> QED
    BY <1>0, <1>3, <1>8, <2>1 DEF GuardInv, ReadersCounted, LiftersEnded, At
<1>12. StreakLocks'
  BY <1>0, <1>1, <1>3, <1>8 DEF GuardInv, StreakLocks, At
<1>13. StoresHaveGoals' /\ ChecksHaveGoals' /\ ReadersAreFresh'
  BY <1>0 DEF CacheInv, StoresHaveGoals, ChecksHaveGoals, Purposeful, ReadersAreFresh, At
<1>14. StaleIsEvicted'
  BY <1>0, <1>4 DEF CacheInv, StaleIsEvicted, At, TypeOK
<1> QED
  BY <1>7, <1>9, <1>10, <1>11, <1>12, <1>13, <1>14 DEF GuardInv, CacheInv

\* A handler that is dropped in the guard ends the streak, before an eviction it is an excuse.
LEMMA DropStep ==
  ASSUME Inv, NEW q \in Requests, Drop(q)
  PROVE  Inv'
<1> USE DEF Inv
<1>0. /\ Go(q, Idle) /\ UNCHANGED <<now, account, tokens, fails, lock, iat, profile, bounds>>
      /\ excuse' = (excuse \/ (At(q, "evict_iat") /\ request[q].goal = "change"))
      /\ streak' = IF q \in GuardRequests THEN NoFails ELSE streak
  BY DEF Drop, Done
<1>1. request'[q] = Idle /\ \A x \in Requests : x # q => request'[x] = request[x]
  BY <1>0, IdleType, GoMoves
<1>2. excuse' \in BOOLEAN /\ streak' \in [count : 0..LockAfter, left : Nat]
  BY <1>0, NothingTypes DEF TypeOK, At
<1>3. TypeOK'
  BY <1>0, <1>2, IdleType, GoType DEF TypeOK, bounds
<1>4. streak'.count <= streak.count /\ (streak'.count > 0 => streak' = streak /\ q \notin GuardRequests)
      /\ (streak' = streak \/ (streak'.count = 0 /\ streak'.left = 0))
  BY <1>0, SessionsConstants DEF NoFails, TypeOK
<1>5. AloneIsOnly' /\ LiftersEnded'
  BY <1>0, <1>1, <1>4, IdleType
     DEF GuardInv, AloneIsOnly, GuardRequests, LoginSteps, LiftersEnded, At, TypeOK
<1>6. StreakIsCounted'
  BY <1>0, <1>4, SessionsConstants DEF GuardInv, StreakIsCounted, TypeOK
<1>7. ReadersCounted'
  <2>1. \A x \in Requests : request[x].read \in Nat
    BY LocalTypes
  <2>2. streak.count \in Nat /\ streak'.count \in Nat
    BY <1>2, SessionsConstants DEF TypeOK
  <2> QED
    BY <1>1, <1>4, <2>1, <2>2, IdleType DEF GuardInv, ReadersCounted, At
<1>8. StreakLocks'
  <2> SUFFICES ASSUME streak'.count >= LockAfter
               PROVE  lock' >= streak'.left \/ \E x \in Requests : At(x, "set_lock")'
    BY DEF StreakLocks
  <2>1. streak' = streak /\ q \notin GuardRequests
    BY <1>2, <1>4, SessionsConstants
  <2>2. ~At(q, "set_lock")
    BY <2>1 DEF GuardRequests, LoginSteps, At
  <2> QED
    BY <1>0, <1>1, <2>1, <2>2 DEF GuardInv, StreakLocks, At
<1>9. StoresHaveGoals' /\ ChecksHaveGoals' /\ ReadersAreFresh'
  BY <1>0, <1>1, IdleType
     DEF CacheInv, StoresHaveGoals, ChecksHaveGoals, Purposeful, CheckSteps, ReadersAreFresh, At
<1>10. StaleIsEvicted'
  BY <1>0, <1>1, IdleType DEF CacheInv, StaleIsEvicted, At
<1> QED
  BY <1>3, <1>5, <1>6, <1>7, <1>8, <1>9, <1>10 DEF GuardInv, CacheInv

----------------------------------------------------------------------------
(* The theorems *)

LEMMA InitInv == Init => Inv
<1> SUFFICES ASSUME Init PROVE Inv
  OBVIOUS
<1>1. TypeOK
  <2>1. now \in Nat /\ made \in 0..Changes /\ mix \in Mixes /\ tokens \subseteq Nat
        /\ lock \in 0..LockTime
    BY SessionsConstants DEF Init
  <2>2. account \in [changed : Nat, active : BOOLEAN, reset : BOOLEAN]
    BY DEF Init
  <2>3. request \in [Requests -> Locals]
    BY IdleType DEF Init
  <2>4. /\ fails \in [count : 0..LockAfter, left : 0..Window]
        /\ streak \in [count : 0..LockAfter, left : Nat]
        /\ iat \in [second : Nat, left : 0..PasswordTTL]
        /\ profile \in [active : BOOLEAN, left : 0..ProfileTTL]
    BY NothingTypes DEF Init
  <2>5. excuse \in BOOLEAN
    BY DEF Init
  <2> QED
    BY <2>1, <2>2, <2>3, <2>4, <2>5 DEF TypeOK
<1>2. \A q \in Requests : request[q].step = "idle"
  BY IdleType DEF Init
<1>3. streak.count = 0 /\ streak.left = 0 /\ fails.count = 0 /\ fails.left = 0 /\ iat.left = 0
  BY DEF Init, NoFails, NoIat
<1>4. GuardInv
  BY <1>2, <1>3, SessionsConstants
     DEF GuardInv, AloneIsOnly, GuardRequests, LoginSteps, StreakIsCounted, ReadersCounted,
         LiftersEnded, StreakLocks, At
<1>5. CacheInv
  BY <1>2, <1>3
     DEF CacheInv, StoresHaveGoals, ChecksHaveGoals, Purposeful, CheckSteps, ReadersAreFresh,
         StaleIsEvicted, At
<1> QED
  BY <1>1, <1>4, <1>5 DEF Inv

LEMMA ArriveStep ==
  ASSUME Inv, NEW q \in Requests, Arrive(q)
  PROVE  Inv'
BY GuardHandlers, CheckStep, ResetPasswordStep DEF Arrive

LEMMA HandleStep ==
  ASSUME Inv, NEW q \in Requests, Handle(q)
  PROVE  Inv'
BY GuardHandlers, LookIatStep, LoadIatStep, KeepIatStep, LookProfileStep, LoadProfileStep,
   KeepProfileStep, VerifyOldStep, StorePasswordStep, EvictIatStep, EvictProfileStep
   DEF Handle

LEMMA StutterInv == Inv /\ UNCHANGED vars => Inv'
<1> SUFFICES ASSUME Inv, UNCHANGED vars PROVE Inv'
  OBVIOUS
<1>1. TypeOK'
  BY DEF Inv, vars, guard, cache, bounds, TypeOK
<1>2. GuardInv'
  BY DEF Inv, vars, guard, GuardInv, AloneIsOnly, GuardRequests, StreakIsCounted,
         ReadersCounted, LiftersEnded, StreakLocks, At
<1>3. CacheInv'
  BY DEF Inv, vars, cache, CacheInv, StoresHaveGoals, ChecksHaveGoals, Purposeful,
         ReadersAreFresh, StaleIsEvicted, At
<1> QED
  BY <1>1, <1>2, <1>3 DEF Inv

LEMMA InvHolds == Spec => []Inv
<1>1. Inv /\ [Next]_vars => Inv'
  BY ArriveStep, HandleStep, DropStep, AccountStep, TickStep, StutterInv DEF Next
<1> QED
  BY <1>1, InitInv, PTL DEF Spec

\* The row, the entries of the cache and the locals of handlers keep their types.
THEOREM TypeCorrect == Spec => []TypeOK
<1>1. Inv => TypeOK
  BY DEF Inv
<1> QED
  BY <1>1, InvHolds, PTL

\* Failures that do not overlap are all counted, and lock the account (record_failure).
THEOREM FailuresLockTheAccount == Spec => []FailuresLock
<1>1. Inv => FailuresLock
  <2> SUFFICES ASSUME Inv, streak.count >= LockAfter, GuardRequests = {}
               PROVE  lock > 0
    BY DEF FailuresLock
  <2>1. \A q \in Requests : ~At(q, "set_lock")
    BY DEF GuardRequests, LoginSteps, At
  <2>2. lock >= streak.left
    BY <2>1 DEF Inv, GuardInv, StreakLocks
  <2>3. streak.left > 0
    BY SessionsConstants DEF Inv, GuardInv, StreakIsCounted, TypeOK
  <2> QED
    BY <2>2, <2>3, SessionsConstants DEF Inv, TypeOK
<1> QED
  BY <1>1, InvHolds, PTL

\* What an eviction withdrew does not come back but for the excuses (invalidate_user,
\* get_password_iat).
THEOREM EvictionsAreFinal == Spec => []EvictionIsFinal
<1>1. Inv => EvictionIsFinal
  BY DEF Inv, CacheInv, StaleIsEvicted, EvictionIsFinal
<1> QED
  BY <1>1, InvHolds, PTL
===============================================================================
