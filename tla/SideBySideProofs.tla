-------------------------- MODULE SideBySideProofs --------------------------
(***************************************************************************)
(* Proofs about components that run side by side.  ToolBroker, for any     *)
(* number of calls and posts: a call has one result, and a pending entry   *)
(* is somebody's.  Settings, for any number of requests, tenants, keys and *)
(* values: what the cache holds of a settled view is what the rows resolve *)
(* to.  Dictionaries, for any number of requests and tenants: a view lists *)
(* what was visible all along, and each entry once; the parents of the     *)
(* items end at roots.  Translations, for any number of writes, clients,   *)
(* tenants, locales and keys: an ETag tells what was read under it.        *)
(* Chunking, for any document and budget: no text is lost, and every split *)
(* leaves less to split.                                                   *)
(***************************************************************************)
EXTENDS MCSideBySide, TLAPS, FiniteSetTheorems, SequenceTheorems

\* The values the module tells apart are different ones.
Distinct == Nil \notin Calls \cup Posts /\ Nil # "Fresh" /\ "timeout" \notin Posts

----------------------------------------------------------------------------
(* ToolBroker: the inductive invariant *)

\* A post that took the pending entry out: it has the sender, or had it.
Winner(p, c) ==
  posts[p].call = c /\ (posts[p].pc \in {"send", "mark"} \/ posts[p].answer = "Fresh")

OneWinner == \A c \in Calls, p, q \in Posts : Winner(p, c) /\ Winner(q, c) => p = q

\* The sender is in the map or with the winner.
PendingIsUnwon == \A c \in Calls, p \in Posts : entries[c] = "pending" => ~Winner(p, c)

\* Nobody posts for a call before it is registered.
IdleIsUnknown == \A c \in Calls, p \in Posts : stubs[c].pc = "idle" => posts[p].call # c

PostsNamed ==
  \A p \in Posts :
    posts[p].pc \in {"check", "drop", "take", "send", "mark"} =>
      posts[p].call \in Calls /\ posts[p].answer = Nil

UnusedPosts == \A p \in Posts : posts[p].pc = "idle" => posts[p].answer = Nil

Sent(p, c) == posts[p].call = c /\ (posts[p].pc = "mark" \/ posts[p].answer = "Fresh")

\* What is in a channel, and what a tool returned, the winner has sent.
Delivered ==
  \A c \in Calls, p \in Posts : mailbox[c] = p \/ stubs[c].result = p => Sent(p, c)

Inv ==
  /\ TypeOK /\ OneWinner /\ PendingIsUnwon /\ IdleIsUnknown /\ PostsNamed /\ UnusedPosts
  /\ Delivered /\ PendingIsAwaited

----------------------------------------------------------------------------
(* Type correctness *)

LEMMA PostTypes ==
  ASSUME TypeOK, NEW p \in Posts
  PROVE  /\ posts[p] \in PostStates
         /\ posts[p].call \in Calls \cup {Nil}
BY DEF TypeOK, PostStates

LEMMA StubTypes ==
  ASSUME TypeOK, NEW c \in Calls
  PROVE  stubs[c] \in StubStates /\ mailbox[c] \in Posts \cup {Nil}
BY DEF TypeOK

LEMMA StubGoesType ==
  ASSUME TypeOK, NEW c \in Calls, NEW at, StubGoes(c, at),
         at \in {"idle", "announce", "wait", "late", "cleanup", "done"}
  PROVE  stubs' \in [Calls -> StubStates]
<1>1. [stubs[c] EXCEPT !.pc = at] \in StubStates
  BY StubTypes DEF StubStates
<1> QED
  BY <1>1 DEF TypeOK, StubGoes

LEMMA PostGoesType ==
  ASSUME TypeOK, NEW p \in Posts, NEW at, PostGoes(p, at),
         at \in {"idle", "check", "drop", "take", "send", "mark", "done"}
  PROVE  posts' \in [Posts -> PostStates]
<1>1. [posts[p] EXCEPT !.pc = at] \in PostStates
  BY PostTypes DEF PostStates
<1> QED
  BY <1>1 DEF TypeOK, PostGoes

LEMMA PostAnswersType ==
  ASSUME TypeOK, NEW p \in Posts, NEW answer \in {"Fresh", "AlreadyResolved", "NotFound"},
         PostAnswers(p, answer)
  PROVE  posts' \in [Posts -> PostStates]
<1>1. [[posts[p] EXCEPT !.pc = "done"] EXCEPT !.answer = answer] \in PostStates
  BY PostTypes DEF PostStates
<1> QED
  BY <1>1 DEF TypeOK, PostAnswers

LEMMA SetEntryType ==
  ASSUME TypeOK, NEW c, NEW entry \in Entries, SetEntry(c, entry)
  PROVE  entries' \in [Calls -> Entries]
BY DEF TypeOK, SetEntry

LEMMA TypeStep ==
  ASSUME TypeOK, [Next]_vars
  PROVE  TypeOK'
<1> USE DEF TypeOK
<1>1. ASSUME NEW c \in Calls, Register(c) PROVE TypeOK'
  BY <1>1, SetEntryType, StubGoesType DEF Register, Entries
<1>2. ASSUME NEW c \in Calls, Announce(c) PROVE TypeOK'
  BY <1>2, StubGoesType DEF Announce
<1>3. ASSUME NEW c \in Calls, Receive(c) PROVE TypeOK'
  <2>1. [pc |-> "done", result |-> mailbox[c]] \in StubStates
    BY StubTypes DEF StubStates
  <2> QED
    BY <1>3, <2>1 DEF Receive, StubReturns
<1>4. ASSUME NEW c \in Calls, Deadline(c) PROVE TypeOK'
  BY <1>4, StubGoesType DEF Deadline
<1>5. ASSUME NEW c \in Calls, TimeOut(c) PROVE TypeOK'
  <2>1. [pc |-> "cleanup", result |-> "timeout"] \in StubStates
    BY DEF StubStates
  <2> QED
    BY <1>5, <2>1 DEF TimeOut, StubReturns
<1>6. ASSUME NEW c \in Calls, Cleanup(c) PROVE TypeOK'
  BY <1>6, SetEntryType, StubGoesType DEF Cleanup, Entries
<1>7. ASSUME NEW c \in Calls, Expire(c) PROVE TypeOK'
  BY <1>7, SetEntryType DEF Expire, Entries
<1>8. ASSUME NEW p \in Posts, NEW c \in Calls, Post(p, c) PROVE TypeOK'
  <2>1. [pc |-> "check", call |-> c, answer |-> Nil] \in PostStates
    BY DEF PostStates
  <2> QED
    BY <1>8, <2>1 DEF Post
<1>9. ASSUME NEW p \in Posts, Check(p) PROVE TypeOK'
  BY <1>9, PostGoesType, PostAnswersType DEF Check
<1>10. ASSUME NEW p \in Posts, DropExpired(p) PROVE TypeOK'
  BY <1>10, SetEntryType, PostAnswersType DEF DropExpired, Entries
<1>11. ASSUME NEW p \in Posts, Take(p) PROVE TypeOK'
  BY <1>11, SetEntryType, PostGoesType, PostAnswersType DEF Take, Entries
<1>12. ASSUME NEW p \in Posts, Send(p) PROVE TypeOK'
  BY <1>12, PostGoesType DEF Send
<1>13. ASSUME NEW p \in Posts, Mark(p) PROVE TypeOK'
  BY <1>13, SetEntryType, PostAnswersType DEF Mark, Entries
<1>14. UNCHANGED vars => TypeOK'
  BY DEF vars
<1> QED
  BY <1>1, <1>2, <1>3, <1>4, <1>5, <1>6, <1>7, <1>8, <1>9, <1>10, <1>11, <1>12, <1>13, <1>14
     DEF Next, StubStep, ResolveStep

----------------------------------------------------------------------------
(* The steps of the page tool: no post moves *)

LEMMA PostsStay ==
  ASSUME UNCHANGED posts
  PROVE  /\ \A p, c : Winner(p, c)' <=> Winner(p, c)
         /\ \A p, c : Sent(p, c)' <=> Sent(p, c)
BY DEF Winner, Sent

LEMMA RegisterStep ==
  ASSUME Inv, NEW c \in Calls, Register(c), TypeOK'
  PROVE  Inv'
<1> USE DEF Inv
<1>1. stubs' = [stubs EXCEPT ![c].pc = "announce"] /\ entries' = [entries EXCEPT ![c] = "pending"]
      /\ UNCHANGED <<mailbox, posts>> /\ stubs[c].pc = "idle"
  BY DEF Register, StubGoes, SetEntry
<1>2. OneWinner' /\ PostsNamed' /\ UnusedPosts'
  BY <1>1, PostsStay DEF OneWinner, PostsNamed, UnusedPosts
<1>3. PendingIsUnwon'
  BY <1>1, PostsStay DEF PendingIsUnwon, TypeOK, IdleIsUnknown, Winner
<1>4. IdleIsUnknown' /\ PendingIsAwaited'
  BY <1>1 DEF IdleIsUnknown, PendingIsAwaited, TypeOK, StubStates
<1>5. Delivered'
  BY <1>1, PostsStay DEF Delivered, TypeOK, StubStates
<1> QED
  BY <1>2, <1>3, <1>4, <1>5

\* A step of the stub that leaves the map and the channel alone.
LEMMA StubGoesStep ==
  ASSUME Inv, NEW c \in Calls, NEW at, StubGoes(c, at), UNCHANGED <<entries, mailbox, posts>>,
         stubs[c].pc # "idle", at \in {"wait", "late"}, TypeOK'
  PROVE  Inv'
<1> USE DEF Inv
<1>1. stubs' = [stubs EXCEPT ![c].pc = at]
  BY DEF StubGoes
<1>2. OneWinner' /\ PostsNamed' /\ UnusedPosts' /\ PendingIsUnwon'
  BY PostsStay DEF OneWinner, PostsNamed, UnusedPosts, PendingIsUnwon
<1>3. IdleIsUnknown' /\ PendingIsAwaited'
  BY <1>1 DEF IdleIsUnknown, PendingIsAwaited, TypeOK, StubStates
<1>4. Delivered'
  BY <1>1, PostsStay DEF Delivered, TypeOK, StubStates
<1> QED
  BY <1>2, <1>3, <1>4

\* A tool that got a result has no pending entry: the winner took it.
LEMMA ReceiveStep ==
  ASSUME Inv, NEW c \in Calls, Receive(c), TypeOK'
  PROVE  Inv'
<1> USE DEF Inv
<1>1. stubs' = [stubs EXCEPT ![c] = [pc |-> "done", result |-> mailbox[c]]]
      /\ UNCHANGED <<entries, mailbox, posts>> /\ stubs[c].pc = "wait" /\ mailbox[c] # Nil
  BY DEF Receive, StubReturns
<1>2. PICK p \in Posts : p = mailbox[c]
  BY <1>1 DEF TypeOK
<1>3. Sent(p, c) /\ Winner(p, c)
  BY <1>2 DEF Delivered, Sent, Winner
<1>4. entries[c] # "pending"
  BY <1>3 DEF PendingIsUnwon
<1>5. OneWinner' /\ PostsNamed' /\ UnusedPosts' /\ PendingIsUnwon'
  BY <1>1, PostsStay DEF OneWinner, PostsNamed, UnusedPosts, PendingIsUnwon
<1>6. IdleIsUnknown' /\ PendingIsAwaited'
  BY <1>1, <1>4 DEF IdleIsUnknown, PendingIsAwaited, TypeOK, StubStates
<1>7. Delivered'
  BY <1>1, PostsStay DEF Delivered, TypeOK, StubStates
<1> QED
  BY <1>5, <1>6, <1>7

LEMMA TimeOutStep ==
  ASSUME Distinct, Inv, NEW c \in Calls, TimeOut(c), TypeOK'
  PROVE  Inv'
<1> USE DEF Inv
<1>1. stubs' = [stubs EXCEPT ![c] = [pc |-> "cleanup", result |-> "timeout"]]
      /\ UNCHANGED <<entries, mailbox, posts>> /\ stubs[c].pc = "late"
  BY DEF TimeOut, StubReturns
<1>2. OneWinner' /\ PostsNamed' /\ UnusedPosts' /\ PendingIsUnwon'
  BY <1>1, PostsStay DEF OneWinner, PostsNamed, UnusedPosts, PendingIsUnwon
<1>3. IdleIsUnknown' /\ PendingIsAwaited'
  BY <1>1 DEF IdleIsUnknown, PendingIsAwaited, TypeOK, StubStates
<1>4. Delivered'
  BY <1>1, PostsStay DEF Delivered, Distinct, TypeOK, StubStates
<1> QED
  BY <1>2, <1>3, <1>4

LEMMA CleanupStep ==
  ASSUME Inv, NEW c \in Calls, Cleanup(c), TypeOK'
  PROVE  Inv'
<1> USE DEF Inv
<1>1. stubs' = [stubs EXCEPT ![c].pc = "done"] /\ entries' = [entries EXCEPT ![c] = "absent"]
      /\ UNCHANGED <<mailbox, posts>> /\ stubs[c].pc = "cleanup"
  BY DEF Cleanup, StubGoes, SetEntry
<1>2. OneWinner' /\ PostsNamed' /\ UnusedPosts'
  BY <1>1, PostsStay DEF OneWinner, PostsNamed, UnusedPosts
<1>3. PendingIsUnwon'
  BY <1>1, PostsStay DEF PendingIsUnwon, TypeOK
<1>4. IdleIsUnknown' /\ PendingIsAwaited'
  BY <1>1 DEF IdleIsUnknown, PendingIsAwaited, TypeOK, StubStates
<1>5. Delivered'
  BY <1>1, PostsStay DEF Delivered, TypeOK, StubStates
<1> QED
  BY <1>2, <1>3, <1>4, <1>5

LEMMA ExpireStep ==
  ASSUME Inv, NEW c \in Calls, Expire(c), TypeOK'
  PROVE  Inv'
<1> USE DEF Inv
<1>1. entries' = [entries EXCEPT ![c] = "expired"] /\ UNCHANGED <<mailbox, stubs, posts>>
  BY DEF Expire, SetEntry
<1>2. OneWinner' /\ PostsNamed' /\ UnusedPosts' /\ IdleIsUnknown' /\ Delivered'
  BY <1>1, PostsStay DEF OneWinner, PostsNamed, UnusedPosts, IdleIsUnknown, Delivered
<1>3. PendingIsUnwon' /\ PendingIsAwaited'
  BY <1>1, PostsStay DEF PendingIsUnwon, PendingIsAwaited, TypeOK
<1> QED
  BY <1>2, <1>3

----------------------------------------------------------------------------
(* The steps of a post *)

\* What a step of one post may do without disturbing the others.
LEMMA OtherPosts ==
  ASSUME TypeOK, NEW p \in Posts, NEW post, posts' = [posts EXCEPT ![p] = post]
  PROVE  /\ posts'[p] = post
         /\ \A q \in Posts : q # p => posts'[q] = posts[q]
         /\ \A q \in Posts, c \in Calls : q # p => (Winner(q, c)' <=> Winner(q, c))
         /\ \A q \in Posts, c \in Calls : q # p => (Sent(q, c)' <=> Sent(q, c))
BY DEF TypeOK, Winner, Sent

\* A post that neither wins nor sends, and makes no entry pending.
LEMMA QuietPost ==
  ASSUME Distinct, Inv, TypeOK', NEW p \in Posts, NEW post, posts' = [posts EXCEPT ![p] = post],
         UNCHANGED <<mailbox, stubs>>,
         \A c \in Calls : entries'[c] = "pending" => entries[c] = "pending",
         post.answer # "Fresh", post.pc \notin {"send", "mark", "idle"},
         post.pc # "done" => post.call \in Calls /\ post.answer = Nil,
         post.call = posts[p].call \/ \E c \in Calls : post.call = c /\ stubs[c].pc # "idle",
         posts[p].answer # "Fresh", posts[p].pc # "mark"
  PROVE  Inv'
<1> USE DEF Inv
<1>0. \A c \in Calls : ~Winner(p, c)' /\ ~Sent(p, c)' /\ ~Sent(p, c)
  <2>1. posts'[p] = post
    BY OtherPosts
  <2> QED
    BY <2>1 DEF Winner, Sent
<1>w. \A q \in Posts, c \in Calls : Winner(q, c)' => q # p /\ Winner(q, c)
  BY <1>0, OtherPosts
<1>1. OneWinner'
  BY <1>w DEF OneWinner
<1>2. PendingIsUnwon'
  BY <1>w DEF PendingIsUnwon
<1>3. IdleIsUnknown'
  <2> SUFFICES ASSUME NEW c \in Calls, NEW q \in Posts, stubs[c].pc = "idle"
               PROVE  posts'[q].call # c
    BY DEF IdleIsUnknown
  <2>1. CASE q # p
    BY <2>1, OtherPosts DEF IdleIsUnknown
  <2>2. CASE q = p
    BY <2>2, OtherPosts DEF IdleIsUnknown
  <2> QED
    BY <2>1, <2>2
<1>4. PostsNamed' /\ UnusedPosts'
  <2> SUFFICES ASSUME NEW q \in Posts
               PROVE  /\ posts'[q].pc \in {"check", "drop", "take", "send", "mark"} =>
                           posts'[q].call \in Calls /\ posts'[q].answer = Nil
                      /\ posts'[q].pc = "idle" => posts'[q].answer = Nil
    BY DEF PostsNamed, UnusedPosts
  <2>1. CASE q # p
    BY <2>1, OtherPosts DEF PostsNamed, UnusedPosts
  <2>2. CASE q = p
    BY <2>2, OtherPosts
  <2> QED
    BY <2>1, <2>2
<1>5. Delivered'
  <2>1. \A q \in Posts, c \in Calls : Sent(q, c) => Sent(q, c)'
    BY <1>0, OtherPosts
  <2> QED
    BY <2>1 DEF Delivered
<1>6. PendingIsAwaited'
  BY DEF PendingIsAwaited
<1> QED
  BY <1>1, <1>2, <1>3, <1>4, <1>5, <1>6

LEMMA PostStep ==
  ASSUME Distinct, Inv, TypeOK', NEW p \in Posts, NEW c \in Calls, Post(p, c)
  PROVE  Inv'
<1> DEFINE post == [pc |-> "check", call |-> c, answer |-> Nil]
<1>1. posts' = [posts EXCEPT ![p] = post] /\ UNCHANGED <<entries, mailbox, stubs>>
      /\ posts[p].pc = "idle" /\ stubs[c].pc # "idle"
  BY DEF Post
<1>2. posts[p].answer # "Fresh"
  BY <1>1 DEF Inv, UnusedPosts, Distinct
<1> HIDE DEF post
<1>3. post.pc = "check" /\ post.call = c /\ post.answer = Nil
  BY DEF post
<1> QED
  BY <1>1, <1>2, <1>3, QuietPost DEF Distinct

\* The first two accesses, and the answers of a post that does not win.
LEMMA MovesOn ==
  ASSUME Distinct, Inv, TypeOK', NEW p \in Posts, UNCHANGED <<mailbox, stubs>>,
         \A c \in Calls : entries'[c] = "pending" => entries[c] = "pending",
         posts[p].pc \in {"check", "drop", "take"},
         \/ \E at \in {"drop", "take"} : PostGoes(p, at)
         \/ \E answer \in {"AlreadyResolved", "NotFound"} : PostAnswers(p, answer)
  PROVE  Inv'
<1>0. posts[p] \in PostStates /\ posts[p].call \in Calls /\ posts[p].answer = Nil
  BY PostTypes DEF Inv, PostsNamed
<1>1. ASSUME NEW at \in {"drop", "take"}, PostGoes(p, at) PROVE Inv'
  <2> DEFINE post == [posts[p] EXCEPT !.pc = at]
  <2>1. posts' = [posts EXCEPT ![p] = post]
    BY <1>1 DEF PostGoes
  <2>2. post.pc = at /\ post.call = posts[p].call /\ post.answer = Nil
    BY <1>0 DEF PostStates
  <2> HIDE DEF post
  <2> QED
    BY <1>0, <2>1, <2>2, QuietPost DEF Distinct
<1>2. ASSUME NEW answer \in {"AlreadyResolved", "NotFound"}, PostAnswers(p, answer) PROVE Inv'
  <2> DEFINE post == [[posts[p] EXCEPT !.pc = "done"] EXCEPT !.answer = answer]
  <2>1. posts' = [posts EXCEPT ![p] = post]
    BY <1>2 DEF PostAnswers, Inv, TypeOK
  <2>2. post.pc = "done" /\ post.call = posts[p].call /\ post.answer = answer
    BY <1>0 DEF PostStates
  <2> HIDE DEF post
  <2> QED
    BY <1>0, <2>1, <2>2, QuietPost DEF Distinct
<1> QED
  BY <1>1, <1>2

LEMMA CheckStep ==
  ASSUME Distinct, Inv, TypeOK', NEW p \in Posts, Check(p)
  PROVE  Inv'
BY MovesOn DEF Check

LEMMA DropExpiredStep ==
  ASSUME Distinct, Inv, TypeOK', NEW p \in Posts, DropExpired(p)
  PROVE  Inv'
<1>1. \A c \in Calls : entries'[c] = "pending" => entries[c] = "pending"
  BY DEF DropExpired, SetEntry, Inv, TypeOK
<1> QED
  BY <1>1, MovesOn DEF DropExpired

\* The entry leaves the map with the winner.
LEMMA TakeStep ==
  ASSUME Distinct, Inv, TypeOK', NEW p \in Posts, Take(p)
  PROVE  Inv'
<1> USE DEF Inv
<1> DEFINE c == posts[p].call
<1>0. c \in Calls /\ posts[p].answer = Nil /\ posts[p].pc = "take" /\ posts[p] \in PostStates
  BY PostTypes DEF Take, PostsNamed
<1>1. entries' = [entries EXCEPT ![c] = "absent"] /\ UNCHANGED <<mailbox, stubs>>
  BY DEF Take, SetEntry
<1>2. \A d \in Calls : entries'[d] = "pending" => entries[d] = "pending" /\ d # c
  BY <1>0, <1>1 DEF TypeOK
<1>3. CASE entries[c] # "pending"
  BY <1>0, <1>1, <1>2, <1>3, MovesOn DEF Take
<1>4. CASE entries[c] = "pending"
  <2> DEFINE post == [posts[p] EXCEPT !.pc = "send"]
  <2>1. posts' = [posts EXCEPT ![p] = post]
    BY <1>4 DEF Take, PostGoes
  <2>2. post.pc = "send" /\ post.call = c /\ post.answer = Nil
    BY <1>0 DEF PostStates
  <2> HIDE DEF post
  <2>3. \A d \in Calls : Winner(p, d)' => d = c
    BY <2>1, <2>2, OtherPosts DEF Winner
  <2>4. \A d \in Calls : ~Sent(p, d)
    BY <1>0 DEF Sent, Distinct
  <2>5. OneWinner'
    <3>1. \A q \in Posts : ~Winner(q, c)
      BY <1>0, <1>4 DEF PendingIsUnwon
    <3>2. \A q \in Posts, d \in Calls : Winner(q, d)' => q = p \/ (d # c /\ Winner(q, d))
      <4> SUFFICES ASSUME NEW q \in Posts, NEW d \in Calls, q # p, Winner(q, d)'
                   PROVE  d # c /\ Winner(q, d)
        OBVIOUS
      <4>1. Winner(q, d)
        BY <2>1, OtherPosts
      <4> QED
        BY <3>1, <4>1
    <3> QED
      BY <2>3, <3>2 DEF OneWinner
  <2>6. PendingIsUnwon'
    BY <1>2, <2>1, <2>3, OtherPosts DEF PendingIsUnwon
  <2>7. \A q \in Posts : posts'[q].call = posts[q].call
    BY <2>1, <2>2, OtherPosts
  <2>8. IdleIsUnknown' /\ PendingIsAwaited'
    BY <1>1, <1>2, <2>7 DEF IdleIsUnknown, PendingIsAwaited
  <2>9. PostsNamed' /\ UnusedPosts'
    BY <1>0, <2>1, <2>2, OtherPosts DEF PostsNamed, UnusedPosts
  <2>10. Delivered'
    BY <1>1, <2>1, <2>4, OtherPosts DEF Delivered
  <2> QED
    BY <2>5, <2>6, <2>8, <2>9, <2>10
<1> QED
  BY <1>3, <1>4

\* The winner alone writes the channel.
LEMMA SendStep ==
  ASSUME Distinct, Inv, TypeOK', NEW p \in Posts, Send(p)
  PROVE  Inv'
<1> USE DEF Inv
<1> DEFINE c == posts[p].call
           post == [posts[p] EXCEPT !.pc = "mark"]
<1>0. c \in Calls /\ posts[p].answer = Nil /\ posts[p].pc = "send" /\ posts[p] \in PostStates
  BY PostTypes DEF Send, PostsNamed
<1>1. /\ posts' = [posts EXCEPT ![p] = post] /\ UNCHANGED <<entries, stubs>>
      /\ mailbox' = [mailbox EXCEPT ![c] = IF Listening(c) THEN p ELSE @]
  BY DEF Send, PostGoes
<1>2. post.pc = "mark" /\ post.call = c /\ post.answer = Nil
  BY <1>0 DEF PostStates
<1> HIDE DEF post
<1>3. \A q \in Posts, d \in Calls : Winner(q, d)' <=> Winner(q, d)
  BY <1>0, <1>1, <1>2, OtherPosts DEF Winner
<1>4. \A q \in Posts, d \in Calls : Sent(q, d) => Sent(q, d)'
  BY <1>0, <1>1, <1>2, OtherPosts DEF Sent
<1>5. Sent(p, c)'
  BY <1>1, <1>2, OtherPosts DEF Sent
<1>6. OneWinner' /\ PendingIsUnwon'
  BY <1>1, <1>3 DEF OneWinner, PendingIsUnwon
<1>7. \A q \in Posts : posts'[q].call = posts[q].call
  BY <1>1, <1>2, OtherPosts
<1>8. IdleIsUnknown' /\ PendingIsAwaited'
  BY <1>1, <1>7 DEF IdleIsUnknown, PendingIsAwaited
<1>9. PostsNamed' /\ UnusedPosts'
  BY <1>0, <1>1, <1>2, OtherPosts DEF PostsNamed, UnusedPosts
<1>10. Delivered'
  <2>1. \A d \in Calls : mailbox'[d] = mailbox[d] \/ (d = c /\ mailbox'[d] = p)
    BY <1>0, <1>1 DEF TypeOK
  <2> QED
    <3> SUFFICES ASSUME NEW d \in Calls, NEW q \in Posts,
                        mailbox'[d] = q \/ stubs[d].result = q
                 PROVE  Sent(q, d)'
      BY <1>1 DEF Delivered
    <3>1. CASE mailbox[d] = q \/ stubs[d].result = q
      BY <1>4, <3>1 DEF Delivered
    <3>2. CASE d = c /\ q = p
      BY <1>5, <1>7, <3>2
    <3> QED
      BY <2>1, <3>1, <3>2
<1> QED
  BY <1>6, <1>8, <1>9, <1>10

LEMMA MarkStep ==
  ASSUME Distinct, Inv, TypeOK', NEW p \in Posts, Mark(p)
  PROVE  Inv'
<1> USE DEF Inv
<1> DEFINE c == posts[p].call
           post == [[posts[p] EXCEPT !.pc = "done"] EXCEPT !.answer = "Fresh"]
<1>0. c \in Calls /\ posts[p].pc = "mark" /\ posts[p] \in PostStates
  BY PostTypes DEF Mark, PostsNamed
<1>1. /\ posts' = [posts EXCEPT ![p] = post] /\ UNCHANGED <<mailbox, stubs>>
      /\ entries' = [entries EXCEPT ![c] = "recent"]
  BY DEF Mark, PostAnswers, SetEntry, TypeOK
<1>2. post.pc = "done" /\ post.call = c /\ post.answer = "Fresh"
  BY <1>0 DEF PostStates
<1> HIDE DEF post
<1>3. \A q \in Posts, d \in Calls : Winner(q, d)' <=> Winner(q, d)
  BY <1>0, <1>1, <1>2, OtherPosts DEF Winner
<1>4. \A q \in Posts, d \in Calls : Sent(q, d) => Sent(q, d)'
  BY <1>0, <1>1, <1>2, OtherPosts DEF Sent
<1>5. \A d \in Calls : entries'[d] = "pending" => entries[d] = "pending"
  BY <1>0, <1>1 DEF TypeOK
<1>6. OneWinner' /\ PendingIsUnwon'
  BY <1>3, <1>5 DEF OneWinner, PendingIsUnwon
<1>7. \A q \in Posts : posts'[q].call = posts[q].call
  BY <1>1, <1>2, OtherPosts
<1>8. IdleIsUnknown' /\ PendingIsAwaited'
  BY <1>1, <1>5, <1>7 DEF IdleIsUnknown, PendingIsAwaited
<1>9. PostsNamed' /\ UnusedPosts'
  BY <1>1, <1>2, OtherPosts DEF PostsNamed, UnusedPosts
<1>10. Delivered'
  BY <1>1, <1>4 DEF Delivered
<1> QED
  BY <1>6, <1>8, <1>9, <1>10

----------------------------------------------------------------------------
(* The theorems *)

LEMMA InitInv == Distinct /\ Init => Inv
BY DEF Init, Inv, TypeOK, Entries, StubStates, PostStates, OneWinner, PendingIsUnwon, Winner,
       IdleIsUnknown, PostsNamed, UnusedPosts, Delivered, PendingIsAwaited, Distinct

LEMMA StepInv == Distinct /\ Inv /\ [Next]_vars => Inv'
<1> SUFFICES ASSUME Distinct, Inv, [Next]_vars PROVE Inv'
  OBVIOUS
<1>0. TypeOK'
  BY TypeStep DEF Inv
<1>1. ASSUME NEW c \in Calls, StubStep(c) PROVE Inv'
  <2>1. CASE Announce(c)
    BY <1>0, <2>1, StubGoesStep DEF Announce
  <2>2. CASE Deadline(c)
    BY <1>0, <2>2, StubGoesStep DEF Deadline
  <2> QED
    BY <1>0, <1>1, <2>1, <2>2, RegisterStep, ReceiveStep, TimeOutStep, CleanupStep DEF StubStep
<1>2. ASSUME NEW p \in Posts, ResolveStep(p) PROVE Inv'
  BY <1>0, <1>2, CheckStep, DropExpiredStep, TakeStep, SendStep, MarkStep DEF ResolveStep
<1>3. CASE UNCHANGED vars
  BY <1>3, PostsStay
     DEF vars, Inv, TypeOK, OneWinner, PendingIsUnwon, IdleIsUnknown, PostsNamed, UnusedPosts,
         Delivered, PendingIsAwaited
<1> QED
  BY <1>0, <1>1, <1>2, <1>3, ExpireStep, PostStep DEF Next

LEMMA WinnersAreOne ==
  ASSUME Inv, NEW c \in Calls
  PROVE  Cardinality(Accepted(c)) <= 1
<1>1. \A p, q \in Accepted(c) : p = q
  BY DEF Inv, OneWinner, Winner, Accepted
<1>2. CASE Accepted(c) = {}
  BY <1>2, FS_EmptySet
<1>3. CASE Accepted(c) # {}
  <2>1. PICK p \in Accepted(c) : TRUE
    BY <1>3
  <2>2. Accepted(c) = {p}
    BY <1>1, <2>1
  <2> QED
    BY <2>2, FS_Singleton
<1> QED
  BY <1>2, <1>3

LEMMA InvIsOneResult == Inv => OneResult
<1> SUFFICES ASSUME Inv, NEW c \in Calls
             PROVE  /\ Cardinality(Accepted(c)) <= 1
                    /\ mailbox[c] # Nil => mailbox[c] \in Accepted(c)
                    /\ stubs[c].result \in Posts => stubs[c].result \in Accepted(c)
  BY DEF OneResult
<1>1. \A p \in Posts : Sent(p, c) => p \in Accepted(c)
  BY DEF Sent, Accepted
<1>2. mailbox[c] # Nil => mailbox[c] \in Posts
  BY DEF Inv, TypeOK
<1> QED
  BY <1>1, <1>2, WinnersAreOne DEF Inv, Delivered

LEMMA InvHolds == Distinct => (Spec => []Inv)
<1> SUFFICES ASSUME Distinct PROVE Spec => []Inv
  OBVIOUS
<1>1. Init => Inv
  BY InitInv
<1>2. Inv /\ [Next]_vars => Inv'
  BY StepInv
<1> QED
  BY <1>1, <1>2, PTL DEF Spec

\* The entries, the channels and the locals of tools and posts keep their types.
THEOREM TypeCorrect == Spec => []TypeOK
<1>1. Init => TypeOK
  BY DEF Init, TypeOK, Entries, StubStates, PostStates
<1>2. TypeOK /\ [Next]_vars => TypeOK'
  BY TypeStep
<1> QED
  BY <1>1, <1>2, PTL DEF Spec

\* However posts overlap with each other and with the tool's timeout, one of them is the
\* result and the others are told so (resolve, FrontendToolStub::call).
THEOREM CallsHaveOneResult == ASSUME Distinct PROVE Spec => []OneResult
BY InvHolds, InvIsOneResult, PTL

\* A pending entry of the map is a tool that waits or cleans up (register, cleanup).
THEOREM PendingEntriesAreAwaited == ASSUME Distinct PROVE Spec => []PendingIsAwaited
<1>1. Inv => PendingIsAwaited
  BY DEF Inv
<1> QED
  BY <1>1, InvHolds, PTL

----------------------------------------------------------------------------
(* Settings: the locals of a request *)

\* The view of nothing is none, no key has its name, and no tenant is everybody.
Unlike == Nil \notin Config!Views /\ Nil \notin ConfigKeys /\ Global \notin Tenants

\* A record of a request's locals, whatever their values.
CallersOver(S) ==
  [step : S, op : S, scope : S, key : S, type : S, value : S, row : S, own : S, view : S,
   picked : S, content : S, old : S]

IsLocal(local) == \E S : local \in CallersOver(S)

GlobalSteps == {"insert_global", "write_global", "drop_overrides", "drop_global"}

OwnSteps == {"find_override", "insert_override", "write_override", "find_own", "drop_own"}

EvictingSteps == {"evict_detail", "evict_all"}

ReadingSteps == {"look", "read_global", "read_override", "keep"}

CallerFits(local) ==
  /\ local.step = "find_global" =>
       /\ local.key \in ConfigKeys
       /\ \/ local.op \in {"create", "update", "delete"} /\ local.scope = Global
          \/ local.op = "upsert" /\ local.scope \in Tenants
  /\ local.step \in GlobalSteps => local.scope = Global /\ local.key \in ConfigKeys
  /\ local.step \in OwnSteps => local.scope \in Tenants /\ local.key \in ConfigKeys
  /\ local.step \in EvictingSteps => local.scope \in Config!Scopes /\ local.key \in ConfigKeys
  /\ local.step \in ReadingSteps =>
       local.view \in Config!Views /\ local.scope = local.view.scope
  /\ local.step = "read_override" => local.scope # Global

\* The keys a view tells of.
KeysOf(v) == IF v.kind = "all" THEN ConfigKeys ELSE {v.key}

\* A choice of global rows is one the tables admit now.
PickFits(pick, v) ==
  \A k \in KeysOf(v) : IF globals[k] = {} THEN pick[k] = Nil ELSE pick[k] \in globals[k]

\* What a reader that no change has overtaken will cache is what the rows resolve to.
UpToDate(local) ==
  /\ local.step = "read_override" /\ ~local.old => PickFits(local.picked, local.view)
  /\ local.step = "keep" /\ ~local.old => local.content \in Config!Answers(local.view)

CallersFit ==
  /\ caller = [c \in Callers |-> caller[c]]
  /\ \A c \in Callers : IsLocal(caller[c]) /\ CallerFits(caller[c]) /\ UpToDate(caller[c])

RowsFit ==
  /\ globals = [k \in ConfigKeys |-> globals[k]]
  /\ overrides = [t \in Tenants |-> [k \in ConfigKeys |-> overrides[t][k]]]

ConfigInv ==
  /\ RowsFit /\ CallersFit /\ cached = [v \in Config!Views |-> cached[v]] /\ SettledViewsAgree

LEMMA Widen ==
  ASSUME NEW S, NEW T
  PROVE  CallersOver(S) \subseteq CallersOver(S \cup T)
BY DEF CallersOver

LEMMA StepLocal ==
  ASSUME NEW l, IsLocal(l), NEW x
  PROVE  /\ IsLocal([l EXCEPT !.step = x])
         /\ [l EXCEPT !.step = x].step = x
         /\ [l EXCEPT !.step = x].scope = l.scope /\ [l EXCEPT !.step = x].key = l.key
         /\ [l EXCEPT !.step = x].op = l.op /\ [l EXCEPT !.step = x].view = l.view
         /\ [l EXCEPT !.step = x].old = l.old /\ [l EXCEPT !.step = x].content = l.content
         /\ [l EXCEPT !.step = x].picked = l.picked
<1>1. PICK S : l \in CallersOver(S)
  BY DEF IsLocal
<1>2. l \in CallersOver(S \cup {x})
  BY <1>1, Widen
<1>3. [l EXCEPT !.step = x] \in CallersOver(S \cup {x})
  BY <1>2 DEF CallersOver
<1>4. IsLocal([l EXCEPT !.step = x])
  BY <1>3 DEF IsLocal
<1> QED
  BY <1>2, <1>4 DEF CallersOver

LEMMA RowLocal ==
  ASSUME NEW l, IsLocal(l), NEW x, NEW m, m = [l EXCEPT !.row = x]
  PROVE  /\ IsLocal(m) /\ m.step = l.step /\ m.view = l.view
         /\ m.scope = l.scope /\ m.key = l.key /\ m.op = l.op /\ m.old = l.old
<1>1. PICK S : l \in CallersOver(S)
  BY DEF IsLocal
<1>2. l \in CallersOver(S \cup {x})
  BY <1>1, Widen
<1>3. m \in CallersOver(S \cup {x})
  BY <1>2 DEF CallersOver
<1>4. IsLocal(m)
  BY <1>3 DEF IsLocal
<1> QED
  BY <1>2, <1>4 DEF CallersOver

LEMMA OwnLocal ==
  ASSUME NEW l, IsLocal(l), NEW x, NEW m, m = [l EXCEPT !.own = x]
  PROVE  /\ IsLocal(m) /\ m.step = l.step /\ m.view = l.view
         /\ m.scope = l.scope /\ m.key = l.key /\ m.op = l.op /\ m.old = l.old
<1>1. PICK S : l \in CallersOver(S)
  BY DEF IsLocal
<1>2. l \in CallersOver(S \cup {x})
  BY <1>1, Widen
<1>3. m \in CallersOver(S \cup {x})
  BY <1>2 DEF CallersOver
<1>4. IsLocal(m)
  BY <1>3 DEF IsLocal
<1> QED
  BY <1>2, <1>4 DEF CallersOver

LEMMA ContentLocal ==
  ASSUME NEW l, IsLocal(l), NEW x, NEW m, m = [l EXCEPT !.content = x]
  PROVE  /\ IsLocal(m) /\ m.step = l.step /\ m.view = l.view /\ m.content = x
         /\ m.scope = l.scope /\ m.key = l.key /\ m.op = l.op /\ m.old = l.old
<1>1. PICK S : l \in CallersOver(S)
  BY DEF IsLocal
<1>2. l \in CallersOver(S \cup {x})
  BY <1>1, Widen
<1>3. m \in CallersOver(S \cup {x})
  BY <1>2 DEF CallersOver
<1>4. IsLocal(m)
  BY <1>3 DEF IsLocal
<1> QED
  BY <1>2, <1>4 DEF CallersOver

LEMMA PickedLocal ==
  ASSUME NEW l, IsLocal(l), NEW x, NEW m, m = [l EXCEPT !.picked = x]
  PROVE  /\ IsLocal(m) /\ m.step = l.step /\ m.view = l.view /\ m.picked = x /\ m.content = l.content
         /\ m.scope = l.scope /\ m.key = l.key /\ m.op = l.op /\ m.old = l.old
<1>1. PICK S : l \in CallersOver(S)
  BY DEF IsLocal
<1>2. l \in CallersOver(S \cup {x})
  BY <1>1, Widen
<1>3. m \in CallersOver(S \cup {x})
  BY <1>2 DEF CallersOver
<1>4. IsLocal(m)
  BY <1>3 DEF IsLocal
<1> QED
  BY <1>2, <1>4 DEF CallersOver

----------------------------------------------------------------------------
(* Settings: what a view tells depends on the rows of its keys *)

LEMMA KeysOfView ==
  ASSUME NEW v \in Config!Views
  PROVE  /\ KeysOf(v) \subseteq ConfigKeys /\ v.scope \in Config!Scopes
         /\ v.kind = "all" => KeysOf(v) = ConfigKeys
         /\ v.kind # "all" => v.kind = "detail" /\ KeysOf(v) = {v.key}
BY DEF Config!Views, Config!Detail, Config!Listing, KeysOf

LEMMA SameResolved ==
  ASSUME NEW v \in Config!Views, NEW p, NEW q, NEW o, NEW m,
         \A k \in KeysOf(v) : p[k] = q[k] /\ o[k] = m[k]
  PROVE  Config!Resolved(v, p, o) = Config!Resolved(v, q, m)
<1>1. CASE v.kind = "all"
  <2>1. \A k \in ConfigKeys : Config!ResolvedSlim(p[k], o[k]) = Config!ResolvedSlim(q[k], m[k])
    BY <1>1, KeysOfView
  <2> QED
    BY <1>1, <2>1 DEF Config!Resolved
<1>2. CASE v.kind = "detail"
  <2>1. p[v.key] = q[v.key] /\ o[v.key] = m[v.key]
    BY <1>2, KeysOfView
  <2>2. Config!ResolvedDetail(p[v.key], o[v.key]) = Config!ResolvedDetail(q[v.key], m[v.key])
    BY <2>1
  <2>3. [k \in {v.key} |-> Config!ResolvedDetail(p[k], o[k])]
          = [k \in {v.key} |-> Config!ResolvedDetail(q[k], m[k])]
    BY <2>2
  <2> QED
    BY <1>2, <2>1, <2>3 DEF Config!Resolved
<1> QED
  BY <1>1, <1>2, KeysOfView

PicksAnswer ==
  \A v \in Config!Views : \A pick :
    PickFits(pick, v) => Config!Resolved(v, pick, Config!OverridesOf(v.scope)) \in Config!Answers(v)

LEMMA PickedAnswer == PicksAnswer
<1> SUFFICES ASSUME NEW v \in Config!Views, NEW pick, PickFits(pick, v)
             PROVE  Config!Resolved(v, pick, Config!OverridesOf(v.scope)) \in Config!Answers(v)
  BY DEF PicksAnswer
<1> DEFINE p == [k \in ConfigKeys |->
             IF k \in KeysOf(v) THEN pick[k]
             ELSE IF globals[k] = {} THEN Nil ELSE CHOOSE row \in globals[k] : TRUE]
<1>1. \A k \in ConfigKeys : IF globals[k] = {} THEN p[k] = Nil ELSE p[k] \in globals[k]
  BY DEF PickFits
<1>2. \A k \in ConfigKeys : p[k] \in (UNION {globals[key] : key \in ConfigKeys}) \cup {Nil}
  BY <1>1
<1>6. p \in [ConfigKeys -> (UNION {globals[key] : key \in ConfigKeys}) \cup {Nil}]
  BY <1>2
<1> HIDE DEF p
<1>3. p \in Config!Picks
  BY <1>1, <1>6 DEF Config!Picks
<1>4. \A k \in KeysOf(v) : p[k] = pick[k]
  BY KeysOfView DEF p
<1>5. Config!Resolved(v, pick, Config!OverridesOf(v.scope))
        = Config!Resolved(v, p, Config!OverridesOf(v.scope))
  BY <1>4, SameResolved
<1> QED
  BY <1>3, <1>5 DEF Config!Answers

LEMMA PickedAnswerNext == PicksAnswer'
BY PickedAnswer, PTL

\* An answer stays one while the rows of the view's keys stay as they are.
LEMMA AnswersStay ==
  ASSUME NEW v \in Config!Views,
         \A k \in KeysOf(v) : globals'[k] = globals[k],
         \A k \in KeysOf(v) : Config!OverridesOf(v.scope)'[k] = Config!OverridesOf(v.scope)[k]
  PROVE  /\ \A a \in Config!Answers(v) : a \in Config!Answers(v)'
         /\ \A pick : PickFits(pick, v) => PickFits(pick, v)'
<1>1. \A pick : PickFits(pick, v) => PickFits(pick, v)'
  BY DEF PickFits
<1>2. ASSUME NEW a \in Config!Answers(v)
      PROVE  a \in Config!Answers(v)'
  <2>1. PICK pick \in Config!Picks : a = Config!Resolved(v, pick, Config!OverridesOf(v.scope))
    BY <1>2 DEF Config!Answers
  <2>2. PickFits(pick, v)
    BY <2>1, KeysOfView DEF Config!Picks, PickFits
  <2>3. PickFits(pick, v)'
    BY <1>1, <2>2
  <2>4. Config!Resolved(v, pick, Config!OverridesOf(v.scope)')
          = Config!Resolved(v, pick, Config!OverridesOf(v.scope))
    BY SameResolved
  <2>5. Config!Resolved(v, pick, Config!OverridesOf(v.scope)') \in Config!Answers(v)'
    BY <2>3, PickedAnswerNext DEF PicksAnswer
  <2> QED
    BY <2>1, <2>4, <2>5
<1> QED
  BY <1>1, <1>2

----------------------------------------------------------------------------
(* Settings: steps that leave the rows alone *)

Fits(local) == IsLocal(local) /\ CallerFits(local) /\ UpToDate(local)

LEMMA StepKeeps ==
  ASSUME ConfigInv, UNCHANGED <<globals, overrides>>,
         caller' = [d \in Callers |-> caller'[d]],
         \A d \in Callers : caller'[d] = caller[d] \/ Fits(caller'[d]),
         cached' = [v \in Config!Views |-> cached'[v]],
         \A v \in Config!Views :
           \/ cached'[v] = Nil \/ v \in stale' \/ \E d \in Callers : v \in Config!Due(d)'
           \/ cached'[v] \in Config!Answers(v)
           \/ cached'[v] = cached[v] /\ v \notin stale /\ \A d \in Callers : v \notin Config!Due(d)
  PROVE  ConfigInv'
<1>1. \A v \in Config!Views : Config!Answers(v)' = Config!Answers(v)
  BY DEF Config!Answers, Config!Picks, Config!OverridesOf
<1>2. \A local : UpToDate(local) => UpToDate(local)'
  <2>1. \A pick, v : PickFits(pick, v) => PickFits(pick, v)'
    BY DEF PickFits
  <2>2. \A v : Config!Answers(v)' = Config!Answers(v)
    BY DEF Config!Answers, Config!Picks, Config!OverridesOf
  <2> QED
    BY <2>1, <2>2 DEF UpToDate
<1>3. \A d \in Callers : IsLocal(caller'[d]) /\ CallerFits(caller'[d]) /\ UpToDate(caller'[d])
  BY DEF ConfigInv, CallersFit, Fits
<1>4. CallersFit'
  <2>1. \A d \in Callers : UpToDate(caller[d])'
    <3>1. ASSUME NEW d \in Callers, NEW l, l = caller'[d]
          PROVE  UpToDate(l)'
      BY <1>2, <1>3, <3>1
    <3> QED
      BY <3>1
  <2> QED
    BY <1>3, <2>1 DEF CallersFit
<1>5. SettledViewsAgree'
  BY <1>1 DEF ConfigInv, SettledViewsAgree, Config!SettledViewsAgree
<1>6. RowsFit'
  BY DEF ConfigInv, RowsFit
<1> QED
  BY <1>4, <1>5, <1>6 DEF ConfigInv

\* A request goes on, nothing is evicted, and what it leaves to the TTL is known to be stale.
LEMMA QuietStep ==
  ASSUME ConfigInv, NEW c \in Callers, NEW local, Config!Goes(c, local), Fits(local),
         UNCHANGED <<globals, overrides, cached>>,
         stale \cup Config!Due(c) \subseteq stale'
  PROVE  ConfigInv'
<1>1. /\ caller' = [d \in Callers |-> caller'[d]] /\ caller'[c] = local
      /\ \A d \in Callers : d # c => caller'[d] = caller[d]
  BY DEF Config!Goes, ConfigInv, CallersFit
<1>2. \A d \in Callers : d # c => Config!Due(d)' = Config!Due(d)
  BY <1>1 DEF Config!Due, Config!At
<1>3. \A v \in Config!Views :
        \/ cached'[v] = Nil \/ v \in stale' \/ \E d \in Callers : v \in Config!Due(d)'
        \/ cached'[v] \in Config!Answers(v)
        \/ cached'[v] = cached[v] /\ v \notin stale /\ \A d \in Callers : v \notin Config!Due(d)
  BY <1>2
<1>4. cached' = [v \in Config!Views |-> cached'[v]]
  BY DEF ConfigInv
<1> QED
  BY <1>1, <1>3, <1>4, StepKeeps

LEMMA EvictStep ==
  ASSUME ConfigInv, NEW w, UNCHANGED <<globals, overrides>>, Config!Evicts(w),
         caller' = [d \in Callers |-> caller'[d]],
         \A d \in Callers : caller'[d] = caller[d] \/ Fits(caller'[d]),
         \A d \in Callers : Config!Due(d) \subseteq Config!Due(d)' \cup {w}
  PROVE  ConfigInv'
<1>1. cached' = [v \in Config!Views |-> cached'[v]]
      /\ \A v \in Config!Views : cached'[v] = IF v = w THEN Nil ELSE cached[v]
  BY DEF ConfigInv, Config!Evicts
<1>2. \A v : v # w => (v \in stale' <=> v \in stale)
  BY DEF Config!Evicts
<1> QED
  BY <1>1, <1>2, StepKeeps

----------------------------------------------------------------------------
(* Settings: changes of the rows *)

\* The rows a view tells of stay as they are.
RowsStay(v) ==
  \A k \in KeysOf(v) :
    /\ globals'[k] = globals[k]
    /\ Config!OverridesOf(v.scope)'[k] = Config!OverridesOf(v.scope)[k]

LEMMA OldLocal ==
  ASSUME NEW l, IsLocal(l), NEW m, m = [l EXCEPT !.old = TRUE]
  PROVE  /\ IsLocal(m) /\ m.old = TRUE
         /\ m.step = l.step /\ m.scope = l.scope /\ m.key = l.key /\ m.op = l.op /\ m.view = l.view
<1>1. PICK S : l \in CallersOver(S)
  BY DEF IsLocal
<1>2. l \in CallersOver(S \cup {TRUE})
  BY <1>1, Widen
<1>3. m \in CallersOver(S \cup {TRUE})
  BY <1>2 DEF CallersOver
<1>4. IsLocal(m)
  BY <1>3 DEF IsLocal
<1> QED
  BY <1>2, <1>4 DEF CallersOver

LEMMA OwnViews ==
  ASSUME Unlike, NEW s, NEW k \in ConfigKeys, NEW v \in Config!Views,
         v \in Config!Affected(s, k), v.scope = s
  PROVE  v \in {Config!Detail(s, k), Config!Listing(s)}
<1>1. v.key \in {k, Nil}
  BY DEF Config!Affected
<1>2. CASE \E t \in Config!Scopes, i \in ConfigKeys : v = Config!Detail(t, i)
  <2>1. PICK t \in Config!Scopes, i \in ConfigKeys : v = Config!Detail(t, i)
    BY <1>2
  <2>2. v.key = i /\ v.scope = t
    BY <2>1 DEF Config!Detail
  <2> QED
    BY <1>1, <2>1, <2>2 DEF Unlike
<1>3. CASE \E t \in Config!Scopes : v = Config!Listing(t)
  BY <1>3 DEF Config!Listing
<1> QED
  BY <1>2, <1>3 DEF Config!Views

LEMMA ChangeKeeps ==
  ASSUME Unlike, ConfigInv, NEW c \in Callers, NEW s \in Config!Scopes, NEW k \in ConfigKeys,
         NEW local, Config!Changes(c, s, k, local), IsLocal(local), CallerFits(local),
         local.step \in {"drop_global", "evict_detail"}, local.scope = s, local.key = k,
         Config!Due(c) = {},
         \A v \in Config!Views :
           \/ RowsStay(v)
           \/ v \in Config!Affected(s, k) /\ (v.scope = s => local.step = "evict_detail"),
         s # Global => UNCHANGED globals, RowsFit'
  PROVE  ConfigInv'
<1>1. /\ caller' = [d \in Callers |-> caller'[d]] /\ caller'[c] = local
      /\ \A d \in Callers \ {c} :
           \/ Config!ReadBefore(d, s, k) /\ caller'[d] = [caller[d] EXCEPT !.old = TRUE]
           \/ ~Config!ReadBefore(d, s, k) /\ caller'[d] = caller[d]
      /\ UNCHANGED cached
      /\ stale' = stale \cup {v \in Config!Affected(s, k) : v.scope # s}
  BY DEF Config!Changes
<1>2. \A d \in Callers \ {c} :
        /\ IsLocal(caller'[d]) /\ CallerFits(caller'[d])
        /\ caller'[d].step = caller[d].step /\ caller'[d].scope = caller[d].scope
        /\ caller'[d].key = caller[d].key
  <2> SUFFICES ASSUME NEW d \in Callers \ {c}
               PROVE  /\ IsLocal(caller'[d]) /\ CallerFits(caller'[d])
                      /\ caller'[d].step = caller[d].step /\ caller'[d].scope = caller[d].scope
                      /\ caller'[d].key = caller[d].key
    OBVIOUS
  <2>1. CASE caller'[d] = caller[d]
    BY <2>1 DEF ConfigInv, CallersFit
  <2>2. CASE caller'[d] = [caller[d] EXCEPT !.old = TRUE]
    <3>1. PICK l : l = caller[d]
      OBVIOUS
    <3>2. PICK m : m = caller'[d]
      OBVIOUS
    <3>3. IsLocal(l) /\ CallerFits(l)
      BY <3>1 DEF ConfigInv, CallersFit
    <3>4. /\ IsLocal(m) /\ m.step = l.step /\ m.scope = l.scope /\ m.key = l.key
          /\ m.op = l.op /\ m.view = l.view
      BY <2>2, <3>1, <3>2, <3>3, OldLocal
    <3> QED
      BY <3>1, <3>2, <3>3, <3>4 DEF CallerFits
  <2> QED
    BY <1>1, <2>1, <2>2
<1>3. ASSUME NEW d \in Callers \ {c}
      PROVE  UpToDate(caller[d])'
  <2>1. PICK l : l = caller'[d]
    OBVIOUS
  <2>2. CASE Config!ReadBefore(d, s, k)
    <3>1. l.old = TRUE
      BY <1>1, <2>1, <2>2, OldLocal DEF ConfigInv, CallersFit
    <3>2. UpToDate(l)'
      BY <3>1 DEF UpToDate
    <3> QED
      BY <2>1, <3>2
  <2>3. CASE ~Config!ReadBefore(d, s, k)
    <3>1. l = caller[d] /\ CallerFits(l) /\ UpToDate(l)
      BY <1>1, <2>1, <2>3 DEF ConfigInv, CallersFit
    <3>2. ASSUME l.step \in {"read_override", "keep"}
          PROVE  l.view \in Config!Views /\ l.view # Nil
      BY <3>1, <3>2 DEF CallerFits, ReadingSteps, Unlike
    <3>3. ASSUME l.step = "read_override", ~l.old
          PROVE  PickFits(l.picked, l.view)'
      <4>1. CASE s = Global
        <5>1. l.view \notin Config!Affected(s, k)
          BY <2>3, <3>1, <3>2, <3>3, <4>1 DEF Config!ReadBefore, Config!At
        <5>2. RowsStay(l.view)
          BY <3>2, <3>3, <5>1
        <5> QED
          BY <3>1, <3>3, <5>2 DEF UpToDate, RowsStay, PickFits
      <4>2. CASE s # Global
        BY <3>1, <3>3, <4>2 DEF UpToDate, PickFits
      <4> QED
        BY <4>1, <4>2
    <3>4. ASSUME l.step = "keep", ~l.old
          PROVE  l.content \in Config!Answers(l.view)'
      <4>1. l.view \notin Config!Affected(s, k)
        BY <2>3, <3>1, <3>2, <3>4 DEF Config!ReadBefore, Config!At
      <4>2. RowsStay(l.view)
        BY <3>2, <3>4, <4>1
      <4>3. l.content \in Config!Answers(l.view)
        BY <3>1, <3>4 DEF UpToDate
      <4> QED
        BY <3>2, <3>4, <4>2, <4>3, AnswersStay DEF RowsStay
    <3>5. UpToDate(l)'
      BY <3>3, <3>4 DEF UpToDate
    <3> QED
      BY <2>1, <3>5
  <2> QED
    BY <2>2, <2>3
<1>4. UpToDate(caller[c])'
  <2>1. PICK l : l = local
    OBVIOUS
  <2>2. UpToDate(l)'
    BY <2>1 DEF UpToDate
  <2> QED
    BY <1>1, <2>1, <2>2
<1>5. CallersFit'
  BY <1>1, <1>2, <1>3, <1>4 DEF CallersFit
<1>6. ASSUME NEW v \in Config!Views, v \notin stale', \A d \in Callers : v \notin Config!Due(d)',
             cached'[v] # Nil
      PROVE  cached'[v] \in Config!Answers(v)'
  <2>1. \A d \in Callers \ {c} : Config!Due(d)' = Config!Due(d)
    BY <1>2 DEF Config!Due, Config!At
  <2>2. cached[v] \in Config!Answers(v)
    <3>1. v \notin stale /\ \A d \in Callers : v \notin Config!Due(d)
      BY <1>1, <1>6, <2>1
    <3> QED
      BY <1>1, <1>6, <3>1 DEF ConfigInv, SettledViewsAgree, Config!SettledViewsAgree
  <2>3. RowsStay(v)
    <3>1. SUFFICES ASSUME v \in Config!Affected(s, k), v.scope = s, local.step = "evict_detail"
                   PROVE  FALSE
      BY <1>1, <1>6
    <3>2. v \in Config!Due(c)'
      BY <1>1, <3>1, OwnViews DEF Config!Due, Config!At
    <3> QED
      BY <1>6, <3>2
  <2>4. cached'[v] = cached[v]
    BY <1>1
  <2> QED
    BY <2>2, <2>3, <2>4, AnswersStay DEF RowsStay
<1>7. SettledViewsAgree'
  BY <1>6 DEF SettledViewsAgree, Config!SettledViewsAgree
<1> QED
  BY <1>1, <1>5, <1>7 DEF ConfigInv

----------------------------------------------------------------------------
(* Settings: requests begin and end *)

LEMMA IdleFits == Fits(Config!Idle)
<1> DEFINE S == {"idle", Nil, FALSE}
<1>1. Config!Idle \in CallersOver(S)
  BY DEF Config!Idle, CallersOver
<1>2. Config!Idle.step = "idle"
  BY DEF Config!Idle
<1> QED
  BY <1>1, <1>2 DEF Fits, IsLocal, CallerFits, UpToDate, GlobalSteps, OwnSteps, EvictingSteps,
     ReadingSteps

LEMMA NothingDue ==
  ASSUME NEW c, caller[c].step \notin EvictingSteps
  PROVE  Config!Due(c) = {}
BY DEF Config!Due, Config!At, EvictingSteps

LEMMA StartsLocal ==
  ASSUME NEW op, NEW step, NEW s, NEW k
  PROVE  /\ IsLocal(Config!Starts(op, step, s, k))
         /\ Config!Starts(op, step, s, k).op = op /\ Config!Starts(op, step, s, k).step = step
         /\ Config!Starts(op, step, s, k).scope = s /\ Config!Starts(op, step, s, k).key = k
<1> DEFINE S == {"idle", Nil, FALSE, op, step, s, k}
<1>1. Config!Idle \in CallersOver(S)
  BY DEF Config!Idle, CallersOver
<1>2. Config!Starts(op, step, s, k) \in CallersOver(S)
  BY <1>1 DEF Config!Starts, CallersOver
<1>3. IsLocal(Config!Starts(op, step, s, k))
  BY <1>2 DEF IsLocal
<1> HIDE DEF S
<1> QED
  BY <1>1, <1>3 DEF Config!Starts, CallersOver

LEMMA ValueLocal ==
  ASSUME NEW l, IsLocal(l), NEW x, NEW m, m = [l EXCEPT !.value = x]
  PROVE  /\ IsLocal(m) /\ m.step = l.step
         /\ m.scope = l.scope /\ m.key = l.key /\ m.op = l.op /\ m.view = l.view /\ m.old = l.old
<1>1. PICK S : l \in CallersOver(S)
  BY DEF IsLocal
<1>2. l \in CallersOver(S \cup {x})
  BY <1>1, Widen
<1>3. m \in CallersOver(S \cup {x})
  BY <1>2 DEF CallersOver
<1>4. IsLocal(m)
  BY <1>3 DEF IsLocal
<1> QED
  BY <1>2, <1>4 DEF CallersOver

LEMMA TypeLocal ==
  ASSUME NEW l, IsLocal(l), NEW x, NEW m, m = [l EXCEPT !.type = x]
  PROVE  /\ IsLocal(m) /\ m.step = l.step
         /\ m.scope = l.scope /\ m.key = l.key /\ m.op = l.op /\ m.view = l.view /\ m.old = l.old
<1>1. PICK S : l \in CallersOver(S)
  BY DEF IsLocal
<1>2. l \in CallersOver(S \cup {x})
  BY <1>1, Widen
<1>3. m \in CallersOver(S \cup {x})
  BY <1>2 DEF CallersOver
<1>4. IsLocal(m)
  BY <1>3 DEF IsLocal
<1> QED
  BY <1>2, <1>4 DEF CallersOver

LEMMA ViewLocal ==
  ASSUME NEW l, IsLocal(l), NEW x, NEW m, m = [l EXCEPT !.view = x]
  PROVE  /\ IsLocal(m) /\ m.step = l.step /\ m.view = x
         /\ m.scope = l.scope /\ m.key = l.key /\ m.op = l.op /\ m.old = l.old
<1>1. PICK S : l \in CallersOver(S)
  BY DEF IsLocal
<1>2. l \in CallersOver(S \cup {x})
  BY <1>1, Widen
<1>3. m \in CallersOver(S \cup {x})
  BY <1>2 DEF CallersOver
<1>4. IsLocal(m)
  BY <1>3 DEF IsLocal
<1> QED
  BY <1>2, <1>4 DEF CallersOver

\* Before a step that has nothing to evict.
LEMMA QuietFrom ==
  ASSUME ConfigInv, NEW c \in Callers, NEW local, Config!Goes(c, local), Fits(local),
         UNCHANGED <<globals, overrides, cached, stale>>, caller[c].step \notin EvictingSteps
  PROVE  ConfigInv'
BY NothingDue, QuietStep

LEMMA BeginKeeps ==
  ASSUME ConfigInv, NEW c \in Callers, NEW local, Config!Begin(c, local), Fits(local)
  PROVE  ConfigInv'
BY QuietFrom DEF Config!Begin, Config!tables, Config!At, EvictingSteps

LEMMA BeginsKeep ==
  ASSUME ConfigInv, NEW c \in Callers, Config!Begins(c)
  PROVE  ConfigInv'
<1>1. CASE Config!BeginCreate(c)
  <2>1. PICK k \in ConfigKeys, fit \in FittingValues :
          Config!Begin(c, [Config!Starts("create", "find_global", Global, k)
                             EXCEPT !.value = fit[1], !.type = fit[2]])
    BY <1>1 DEF Config!BeginCreate
  <2>2. PICK l : l = Config!Starts("create", "find_global", Global, k)
    OBVIOUS
  <2>7. PICK j : j = [l EXCEPT !.value = fit[1]]
    OBVIOUS
  <2>3. PICK m : m = [j EXCEPT !.type = fit[2]]
    OBVIOUS
  <2>6. IsLocal(l) /\ l.step = "find_global" /\ l.op = "create" /\ l.scope = Global /\ l.key = k
    BY <2>2, StartsLocal
  <2>8. IsLocal(j) /\ j.step = "find_global" /\ j.op = "create" /\ j.scope = Global /\ j.key = k
    BY <2>6, <2>7, ValueLocal
  <2>4. IsLocal(m) /\ m.step = "find_global" /\ m.op = "create" /\ m.scope = Global /\ m.key = k
    BY <2>3, <2>8, TypeLocal
  <2>5. Fits(m)
    BY <2>4 DEF Fits, CallerFits, UpToDate, GlobalSteps, OwnSteps, EvictingSteps,
         ReadingSteps
  <2> QED
    BY <2>1, <2>2, <2>3, <2>5, <2>7, BeginKeeps
<1>2. CASE Config!BeginUpdate(c)
  <2>1. PICK k \in ConfigKeys, x \in Values :
          Config!Begin(c, [Config!Starts("update", "find_global", Global, k) EXCEPT !.value = x])
    BY <1>2 DEF Config!BeginUpdate
  <2>2. PICK l : l = Config!Starts("update", "find_global", Global, k)
    OBVIOUS
  <2>3. PICK m : m = [l EXCEPT !.value = x]
    OBVIOUS
  <2>6. IsLocal(l) /\ l.step = "find_global" /\ l.op = "update" /\ l.scope = Global /\ l.key = k
    BY <2>2, StartsLocal
  <2>4. IsLocal(m) /\ m.step = "find_global" /\ m.op = "update" /\ m.scope = Global /\ m.key = k
    BY <2>3, <2>6, ValueLocal
  <2>5. Fits(m)
    BY <2>4 DEF Fits, CallerFits, UpToDate, GlobalSteps, OwnSteps, EvictingSteps,
         ReadingSteps
  <2> QED
    BY <2>1, <2>2, <2>3, <2>5, BeginKeeps
<1>3. CASE Config!BeginDelete(c)
  <2>1. PICK k \in ConfigKeys : Config!Begin(c, Config!Starts("delete", "find_global", Global, k))
    BY <1>3 DEF Config!BeginDelete
  <2>2. PICK m : m = Config!Starts("delete", "find_global", Global, k)
    OBVIOUS
  <2>3. IsLocal(m) /\ m.step = "find_global" /\ m.op = "delete" /\ m.scope = Global /\ m.key = k
    BY <2>2, StartsLocal
  <2>4. Fits(m)
    BY <2>3 DEF Fits, CallerFits, UpToDate, GlobalSteps, OwnSteps, EvictingSteps,
         ReadingSteps
  <2> QED
    BY <2>1, <2>2, <2>4, BeginKeeps
<1>4. CASE Config!BeginUpsert(c)
  <2>1. PICK t \in Tenants, k \in ConfigKeys, x \in Values :
          Config!Begin(c, [Config!Starts("upsert", "find_global", t, k) EXCEPT !.value = x])
    BY <1>4 DEF Config!BeginUpsert
  <2>2. PICK l : l = Config!Starts("upsert", "find_global", t, k)
    OBVIOUS
  <2>3. PICK m : m = [l EXCEPT !.value = x]
    OBVIOUS
  <2>6. IsLocal(l) /\ l.step = "find_global" /\ l.op = "upsert" /\ l.scope = t /\ l.key = k
    BY <2>2, StartsLocal
  <2>4. IsLocal(m) /\ m.step = "find_global" /\ m.op = "upsert" /\ m.scope = t /\ m.key = k
    BY <2>3, <2>6, ValueLocal
  <2>5. Fits(m)
    BY <2>4 DEF Fits, CallerFits, UpToDate, GlobalSteps, OwnSteps, EvictingSteps,
         ReadingSteps
  <2> QED
    BY <2>1, <2>2, <2>3, <2>5, BeginKeeps
<1>5. CASE Config!BeginRevert(c)
  <2>1. PICK t \in Tenants, k \in ConfigKeys :
          Config!Begin(c, Config!Starts("revert", "find_own", t, k))
    BY <1>5 DEF Config!BeginRevert
  <2>2. PICK m : m = Config!Starts("revert", "find_own", t, k)
    OBVIOUS
  <2>3. IsLocal(m) /\ m.step = "find_own" /\ m.scope = t /\ m.key = k
    BY <2>2, StartsLocal
  <2>4. Fits(m)
    BY <2>3 DEF Fits, CallerFits, UpToDate, GlobalSteps, OwnSteps, EvictingSteps,
         ReadingSteps
  <2> QED
    BY <2>1, <2>2, <2>4, BeginKeeps
<1>6. CASE Config!BeginRead(c)
  <2>1. PICK v \in Config!Views :
          Config!Begin(c, [Config!Starts("read", "look", v.scope, v.key) EXCEPT !.view = v])
    BY <1>6 DEF Config!BeginRead
  <2>2. PICK l : l = Config!Starts("read", "look", v.scope, v.key)
    OBVIOUS
  <2>3. PICK m : m = [l EXCEPT !.view = v]
    OBVIOUS
  <2>6. IsLocal(l) /\ l.step = "look" /\ l.scope = v.scope
    BY <2>2, StartsLocal
  <2>4. IsLocal(m) /\ m.step = "look" /\ m.scope = v.scope /\ m.view = v
    BY <2>3, <2>6, ViewLocal
  <2>5. Fits(m)
    BY <2>4 DEF Fits, CallerFits, UpToDate, GlobalSteps, OwnSteps, EvictingSteps,
         ReadingSteps
  <2> QED
    BY <2>1, <2>2, <2>3, <2>5, BeginKeeps
<1> QED
  BY <1>1, <1>2, <1>3, <1>4, <1>5, <1>6 DEF Config!Begins

----------------------------------------------------------------------------
(* Settings: searches, which change nothing *)

LEMMA EndKeeps ==
  ASSUME ConfigInv, NEW c \in Callers, Config!Ends(c), UNCHANGED <<globals, overrides, cached, stale>>,
         caller[c].step \notin EvictingSteps
  PROVE  ConfigInv'
BY QuietFrom, IdleFits DEF Config!Ends

LEMMA FindGlobalKeeps ==
  ASSUME ConfigInv, NEW c \in Callers, Config!FindGlobal(c)
  PROVE  ConfigInv'
<1>1. PICK l : l = caller[c]
  OBVIOUS
<1>2. /\ IsLocal(l) /\ CallerFits(l) /\ l.step = "find_global" /\ l.key \in ConfigKeys
      /\ \/ l.op \in {"create", "update", "delete"} /\ l.scope = Global
         \/ l.op = "upsert" /\ l.scope \in Tenants
  BY <1>1 DEF ConfigInv, CallersFit, Config!FindGlobal, Config!At, CallerFits
<1>3. UNCHANGED <<globals, overrides, cached, stale>> /\ caller[c].step \notin EvictingSteps
  BY <1>1, <1>2 DEF Config!FindGlobal, Config!Unchanged, Config!tables, EvictingSteps
<1>4. CASE Config!Ends(c)
  BY <1>3, <1>4, EndKeeps
<1>5. CASE l.op = "create" /\ Config!Goes(c, Config!Local(c, "insert_global"))
  <2>1. PICK m : m = [l EXCEPT !.step = "insert_global"]
    OBVIOUS
  <2>2. IsLocal(m) /\ m.step = "insert_global" /\ m.scope = Global /\ m.key \in ConfigKeys
    BY <1>2, <1>5, <2>1, StepLocal
  <2>3. Fits(m)
    BY <2>2 DEF Fits, CallerFits, UpToDate, GlobalSteps, OwnSteps, EvictingSteps, ReadingSteps
  <2>4. Config!Goes(c, m)
    BY <1>1, <1>5, <2>1 DEF Config!Local
  <2> QED
    BY <1>3, <2>3, <2>4, QuietFrom
<1>6. ASSUME NEW row, l.op # "create",
             Config!Goes(c, [l EXCEPT !.row = row, !.step =
                               CASE l.op = "update" -> "write_global"
                                 [] l.op = "delete" -> "drop_overrides"
                                 [] l.op = "upsert" -> "find_override"])
      PROVE  ConfigInv'
  <2>1. PICK step : step = CASE l.op = "update" -> "write_global"
                             [] l.op = "delete" -> "drop_overrides"
                             [] l.op = "upsert" -> "find_override"
    OBVIOUS
  <2>7. PICK j : j = [l EXCEPT !.row = row]
    OBVIOUS
  <2>2. PICK m : m = [j EXCEPT !.step = step]
    OBVIOUS
  <2>8. IsLocal(j) /\ j.scope = l.scope /\ j.key = l.key
    BY <1>2, <2>7, RowLocal
  <2>3. IsLocal(m) /\ m.step = step /\ m.scope = l.scope /\ m.key = l.key
    BY <2>2, <2>8, StepLocal
  <2>4. \/ step \in GlobalSteps /\ l.scope = Global
        \/ step = "find_override" /\ l.scope \in Tenants
    BY <1>2, <1>6, <2>1 DEF GlobalSteps
  <2>5. Fits(m)
    BY <1>2, <2>3, <2>4
       DEF Fits, CallerFits, UpToDate, GlobalSteps, OwnSteps, EvictingSteps, ReadingSteps
  <2>6. Config!Goes(c, m)
    BY <1>6, <2>1, <2>2, <2>7
  <2> QED
    BY <1>3, <2>5, <2>6, QuietFrom
<1> QED
  BY <1>1, <1>4, <1>5, <1>6 DEF Config!FindGlobal

LEMMA FindOverrideKeeps ==
  ASSUME ConfigInv, NEW c \in Callers, Config!FindOverride(c) \/ Config!FindOwn(c)
  PROVE  ConfigInv'
<1>1. PICK l : l = caller[c]
  OBVIOUS
<1>2. IsLocal(l) /\ l.step \in OwnSteps /\ l.key \in ConfigKeys /\ l.scope \in Tenants
  BY <1>1 DEF ConfigInv, CallersFit, Config!FindOverride, Config!FindOwn, Config!At, CallerFits, OwnSteps
<1>3. UNCHANGED <<globals, overrides, cached, stale>> /\ caller[c].step \notin EvictingSteps
  BY <1>1, <1>2 DEF Config!FindOverride, Config!FindOwn, Config!Unchanged, Config!tables,
     EvictingSteps, OwnSteps
<1>4. CASE Config!Ends(c)
  BY <1>3, <1>4, EndKeeps
<1>5. ASSUME NEW own, NEW step \in {"insert_override", "write_override", "drop_own"},
             Config!Goes(c, [l EXCEPT !.own = own, !.step = step])
      PROVE  ConfigInv'
  <2>4. PICK j : j = [l EXCEPT !.own = own]
    OBVIOUS
  <2>1. PICK m : m = [j EXCEPT !.step = step]
    OBVIOUS
  <2>5. IsLocal(j) /\ j.scope = l.scope /\ j.key = l.key
    BY <1>2, <2>4, OwnLocal
  <2>2. IsLocal(m) /\ m.step = step /\ m.scope = l.scope /\ m.key = l.key
    BY <2>1, <2>5, StepLocal
  <2>3. Fits(m)
    BY <1>2, <2>2
       DEF Fits, CallerFits, UpToDate, GlobalSteps, OwnSteps, EvictingSteps, ReadingSteps
  <2> QED
    BY <1>3, <1>5, <2>1, <2>3, <2>4, QuietFrom
<1>6. CASE Config!FindOverride(c)
  BY <1>1, <1>5, <1>6 DEF Config!FindOverride
<1>7. CASE Config!FindOwn(c)
  BY <1>1, <1>4, <1>5, <1>7 DEF Config!FindOwn
<1> QED
  BY <1>6, <1>7

LEMMA LookKeeps ==
  ASSUME ConfigInv, NEW c \in Callers, Config!Look(c)
  PROVE  ConfigInv'
<1>1. PICK l : l = caller[c]
  OBVIOUS
<1>2. IsLocal(l) /\ l.step = "look" /\ l.view \in Config!Views /\ l.scope = l.view.scope
  BY <1>1 DEF ConfigInv, CallersFit, Config!Look, Config!At, CallerFits, ReadingSteps
<1>3. UNCHANGED <<globals, overrides, cached, stale>> /\ caller[c].step \notin EvictingSteps
  BY <1>1, <1>2 DEF Config!Look, Config!Unchanged, Config!tables, EvictingSteps
<1>4. CASE Config!Goes(c, Config!Local(c, "read_global"))
  <2>1. PICK m : m = [l EXCEPT !.step = "read_global"]
    OBVIOUS
  <2>2. IsLocal(m) /\ m.step = "read_global" /\ m.scope = l.scope /\ m.view = l.view
    BY <1>2, <2>1, StepLocal
  <2>3. Fits(m)
    BY <1>2, <2>2
       DEF Fits, CallerFits, UpToDate, GlobalSteps, OwnSteps, EvictingSteps, ReadingSteps
  <2>4. Config!Goes(c, m)
    BY <1>1, <1>4, <2>1 DEF Config!Local
  <2> QED
    BY <1>3, <2>3, <2>4, QuietFrom
<1> QED
  BY <1>3, <1>4, EndKeeps DEF Config!Look

----------------------------------------------------------------------------
(* Settings: changes, each followed by its evictions *)

LEMMA GlobalElsewhere ==
  ASSUME NEW k \in ConfigKeys,
         \A i \in ConfigKeys \ {k} :
           globals'[i] = globals[i] /\ \A t \in Tenants : overrides'[t][i] = overrides[t][i],
         NEW v \in Config!Views, v \notin Config!Affected(Global, k)
  PROVE  RowsStay(v)
<1>1. v.scope \in Config!Scopes
  BY KeysOfView
<1>2. v.key \notin {k, Nil}
  BY <1>1 DEF Config!Affected
<1>3. v.kind # "all"
  BY <1>2 DEF Config!Views, Config!Detail, Config!Listing
<1>4. KeysOf(v) = {v.key} /\ v.key \in ConfigKeys \ {k}
  BY <1>2, <1>3, KeysOfView
<1>5. Config!OverridesOf(v.scope)'[v.key] = Config!OverridesOf(v.scope)[v.key]
  BY <1>1, <1>4 DEF Config!OverridesOf, Config!Scopes
<1> QED
  BY <1>4, <1>5 DEF RowsStay

LEMMA OwnElsewhere ==
  ASSUME Unlike, NEW s \in Tenants, NEW k \in ConfigKeys, UNCHANGED globals,
         \A t \in Tenants, i \in ConfigKeys : t # s \/ i # k => overrides'[t][i] = overrides[t][i],
         NEW v \in Config!Views, v \notin Config!Affected(s, k)
  PROVE  RowsStay(v)
<1>1. s # Global
  BY DEF Unlike
<1>2. v.scope # s \/ v.key \notin {k, Nil}
  BY <1>1 DEF Config!Affected
<1>3. CASE v.scope # s
  <2>1. \A i \in ConfigKeys : Config!OverridesOf(v.scope)'[i] = Config!OverridesOf(v.scope)[i]
    BY <1>3, KeysOfView DEF Config!OverridesOf, Config!Scopes
  <2> QED
    BY <2>1, KeysOfView DEF RowsStay
<1>4. CASE v.key \notin {k, Nil}
  <2>1. v.kind # "all"
    BY <1>4 DEF Config!Views, Config!Detail, Config!Listing
  <2>2. KeysOf(v) = {v.key} /\ v.key \in ConfigKeys \ {k}
    BY <1>4, <2>1, KeysOfView
  <2>3. Config!OverridesOf(v.scope)'[v.key] = Config!OverridesOf(v.scope)[v.key]
    BY <2>2, KeysOfView DEF Config!OverridesOf, Config!Scopes
  <2> QED
    BY <2>2, <2>3 DEF RowsStay
<1> QED
  BY <1>2, <1>3, <1>4

\* A request of scope s changes rows of k: the evictions are its next steps.
LEMMA ChangeGoes ==
  ASSUME Unlike, ConfigInv, NEW c \in Callers, caller[c].step \in GlobalSteps \cup OwnSteps,
         NEW step \in {"drop_global", "evict_detail"},
         caller[c].scope # Global => step = "evict_detail",
         Config!Changes(c, caller[c].scope, caller[c].key, Config!Local(c, step)),
         caller[c].scope # Global => UNCHANGED globals, RowsFit',
         \A v \in Config!Views : v \notin Config!Affected(caller[c].scope, caller[c].key) => RowsStay(v),
         step = "drop_global" => UNCHANGED globals
  PROVE  ConfigInv'
<1>1. PICK l : l = caller[c]
  OBVIOUS
<1>2. PICK s, k : s = l.scope /\ k = l.key
  OBVIOUS
<1>3. /\ IsLocal(l) /\ CallerFits(l) /\ k \in ConfigKeys /\ s \in Config!Scopes
      /\ s # Global => s \in Tenants
  BY <1>1, <1>2 DEF ConfigInv, CallersFit, CallerFits, Config!Scopes
<1>4. PICK m : m = [l EXCEPT !.step = step]
  OBVIOUS
<1>10. IsLocal(l)
  BY <1>3
<1>11. IsLocal(m) /\ m.step = step /\ m.scope = l.scope /\ m.key = l.key
  BY ONLY <1>4, <1>10, StepLocal
<1>5. IsLocal(m) /\ m.step = step /\ m.scope = s /\ m.key = k
  BY <1>2, <1>11
<1>6. CallerFits(m)
  BY <1>1, <1>2, <1>3, <1>5 DEF CallerFits, GlobalSteps, OwnSteps, EvictingSteps, ReadingSteps
<1>7. Config!Changes(c, s, k, m)
  BY <1>1, <1>2, <1>4 DEF Config!Local
<1>8. Config!Due(c) = {}
  BY NothingDue DEF GlobalSteps, OwnSteps, EvictingSteps
<1>9. \A v \in Config!Views :
        \/ RowsStay(v)
        \/ v \in Config!Affected(s, k) /\ (v.scope = s => m.step = "evict_detail")
  <2> SUFFICES ASSUME NEW v \in Config!Views, v \in Config!Affected(s, k), v.scope = s,
                      m.step # "evict_detail"
               PROVE  RowsStay(v)
    BY <1>1, <1>2
  <2>1. s = Global /\ UNCHANGED globals
    BY <1>1, <1>2, <1>5
  <2>2. Config!OverridesOf(v.scope)' = Config!OverridesOf(v.scope)
    BY <2>1 DEF Config!OverridesOf
  <2> QED
    BY <2>1, <2>2 DEF RowsStay
<1> QED
  BY <1>1, <1>2, <1>3, <1>5, <1>6, <1>7, <1>8, <1>9, ChangeKeeps

\* What a request of a change knows before it changes a row.
LEMMA ChangerFits ==
  ASSUME ConfigInv, NEW c \in Callers
  PROVE  /\ caller[c].step \in GlobalSteps => caller[c].scope = Global /\ caller[c].key \in ConfigKeys
         /\ caller[c].step \in OwnSteps => caller[c].scope \in Tenants /\ caller[c].key \in ConfigKeys
<1>1. CallerFits(caller[c])
  BY DEF ConfigInv, CallersFit
<1> QED
  BY <1>1 DEF CallerFits

LEMMA InsertGlobalKeeps ==
  ASSUME Unlike, ConfigInv, NEW c \in Callers, Config!InsertGlobal(c)
  PROVE  ConfigInv'
<1>1. caller[c].step \in GlobalSteps /\ caller[c].scope = Global /\ caller[c].key \in ConfigKeys
  BY ChangerFits DEF Config!InsertGlobal, Config!At, GlobalSteps
<1>2. UNCHANGED overrides /\ \A i \in ConfigKeys \ {caller[c].key} : globals'[i] = globals[i]
  BY DEF Config!InsertGlobal, ConfigInv, RowsFit
<1>3. \A v \in Config!Views : v \notin Config!Affected(caller[c].scope, caller[c].key) => RowsStay(v)
  BY <1>1, <1>2, GlobalElsewhere
<1>4. Config!Changes(c, caller[c].scope, caller[c].key, Config!Local(c, "evict_detail"))
  BY <1>1 DEF Config!InsertGlobal
<1>5. RowsFit'
  BY <1>2 DEF Config!InsertGlobal, ConfigInv, RowsFit
<1> QED
  BY <1>1, <1>3, <1>4, <1>5, ChangeGoes

LEMMA WriteGlobalKeeps ==
  ASSUME Unlike, ConfigInv, NEW c \in Callers, Config!WriteGlobal(c)
  PROVE  ConfigInv'
<1>1. caller[c].step \in GlobalSteps /\ caller[c].scope = Global /\ caller[c].key \in ConfigKeys
  BY ChangerFits DEF Config!WriteGlobal, Config!At, GlobalSteps
<1> DEFINE row == {r \in globals[caller[c].key] : r.id = caller[c].row.id}
<1>2. CASE row = {}
  <2>1. Config!Ends(c) /\ UNCHANGED <<globals, overrides, cached, stale>>
    BY <1>2 DEF Config!WriteGlobal
  <2>2. caller[c].step \notin EvictingSteps
    BY <1>1 DEF GlobalSteps, EvictingSteps
  <2> QED
    BY <2>1, <2>2, EndKeeps
<1>3. CASE row # {}
  <2>2. UNCHANGED overrides /\ \A i \in ConfigKeys \ {caller[c].key} : globals'[i] = globals[i]
    BY <1>3 DEF Config!WriteGlobal, ConfigInv, RowsFit
  <2>3. \A v \in Config!Views : v \notin Config!Affected(caller[c].scope, caller[c].key) => RowsStay(v)
    BY <1>1, <2>2, GlobalElsewhere
  <2>4. Config!Changes(c, caller[c].scope, caller[c].key, Config!Local(c, "evict_detail"))
    BY <1>1, <1>3 DEF Config!WriteGlobal
  <2>5. RowsFit'
    BY <1>3, <2>2 DEF Config!WriteGlobal, ConfigInv, RowsFit
  <2> QED
    BY <1>1, <2>3, <2>4, <2>5, ChangeGoes
<1> QED
  BY <1>2, <1>3

LEMMA DropOverridesKeeps ==
  ASSUME Unlike, ConfigInv, NEW c \in Callers, Config!DropOverrides(c)
  PROVE  ConfigInv'
<1>1. caller[c].step \in GlobalSteps /\ caller[c].scope = Global /\ caller[c].key \in ConfigKeys
  BY ChangerFits DEF Config!DropOverrides, Config!At, GlobalSteps
<1>2. /\ UNCHANGED globals
      /\ \A t \in Tenants : overrides'[t] = [overrides[t] EXCEPT ![caller[c].key] = Nil]
  BY DEF Config!DropOverrides
<1>6. \A t \in Tenants : \A i \in ConfigKeys \ {caller[c].key} : overrides'[t][i] = overrides[t][i]
  BY <1>2 DEF ConfigInv, RowsFit
<1>3. \A v \in Config!Views : v \notin Config!Affected(caller[c].scope, caller[c].key) => RowsStay(v)
  BY <1>1, <1>2, <1>6, GlobalElsewhere
<1>4. Config!Changes(c, caller[c].scope, caller[c].key, Config!Local(c, "drop_global"))
  BY <1>1 DEF Config!DropOverrides
<1>5. RowsFit'
  <2>1. \A t \in Tenants : overrides[t] = [i \in ConfigKeys |-> overrides[t][i]]
    BY DEF ConfigInv, RowsFit
  <2>2. \A t \in Tenants : overrides'[t] = [i \in ConfigKeys |-> overrides'[t][i]]
    BY <1>2, <2>1
  <2>3. overrides' = [t \in Tenants |-> overrides'[t]]
    BY DEF Config!DropOverrides
  <2> QED
    BY <1>2, <2>2, <2>3 DEF ConfigInv, RowsFit
<1> QED
  BY <1>1, <1>2, <1>3, <1>4, <1>5, ChangeGoes

LEMMA DropGlobalKeeps ==
  ASSUME Unlike, ConfigInv, NEW c \in Callers, Config!DropGlobal(c)
  PROVE  ConfigInv'
<1>1. caller[c].step \in GlobalSteps /\ caller[c].scope = Global /\ caller[c].key \in ConfigKeys
  BY ChangerFits DEF Config!DropGlobal, Config!At, GlobalSteps
<1>2. UNCHANGED overrides /\ \A i \in ConfigKeys \ {caller[c].key} : globals'[i] = globals[i]
  BY DEF Config!DropGlobal, ConfigInv, RowsFit
<1>3. \A v \in Config!Views : v \notin Config!Affected(caller[c].scope, caller[c].key) => RowsStay(v)
  BY <1>1, <1>2, GlobalElsewhere
<1>4. Config!Changes(c, caller[c].scope, caller[c].key, Config!Local(c, "evict_detail"))
  BY <1>1 DEF Config!DropGlobal
<1>5. RowsFit'
  BY <1>2 DEF Config!DropGlobal, ConfigInv, RowsFit
<1> QED
  BY <1>1, <1>3, <1>4, <1>5, ChangeGoes

\* A tenant's row changes and nothing else.
LEMMA OwnRow ==
  ASSUME RowsFit, NEW s \in Tenants, NEW k \in ConfigKeys, UNCHANGED globals, NEW x,
         overrides' = overrides \/ overrides' = [overrides EXCEPT ![s] = [@ EXCEPT ![k] = x]]
  PROVE  /\ \A t \in Tenants, i \in ConfigKeys : t # s \/ i # k => overrides'[t][i] = overrides[t][i]
         /\ RowsFit'
<1>1. /\ overrides = [t \in Tenants |-> overrides[t]]
      /\ \A t \in Tenants : overrides[t] = [i \in ConfigKeys |-> overrides[t][i]]
  BY DEF RowsFit
<1>2. CASE overrides' = overrides
  BY <1>2 DEF RowsFit
<1>3. CASE overrides' = [overrides EXCEPT ![s] = [@ EXCEPT ![k] = x]]
  <2>1. /\ overrides' = [t \in Tenants |-> overrides'[t]]
        /\ overrides'[s] = [overrides[s] EXCEPT ![k] = x]
        /\ \A t \in Tenants \ {s} : overrides'[t] = overrides[t]
    BY <1>1, <1>3
  <2>2. /\ overrides'[s] = [i \in ConfigKeys |-> overrides'[s][i]]
        /\ \A i \in ConfigKeys \ {k} : overrides'[s][i] = overrides[s][i]
    BY <1>1, <2>1
  <2>3. \A t \in Tenants : overrides'[t] = [i \in ConfigKeys |-> overrides'[t][i]]
    BY <1>1, <2>1, <2>2
  <2>4. overrides' = [t \in Tenants |-> [i \in ConfigKeys |-> overrides'[t][i]]]
    BY <2>1, <2>3
  <2>5. RowsFit'
    BY <2>4 DEF RowsFit
  <2> QED
    BY <2>1, <2>2, <2>5
<1> QED
  BY <1>2, <1>3

LEMMA OwnChange ==
  ASSUME Unlike, ConfigInv, NEW c \in Callers, caller[c].step \in OwnSteps,
         UNCHANGED globals, NEW x,
         \/ overrides' = overrides
         \/ overrides' = [overrides EXCEPT ![caller[c].scope] = [@ EXCEPT ![caller[c].key] = x]],
         Config!Changes(c, caller[c].scope, caller[c].key, Config!Local(c, "evict_detail"))
  PROVE  ConfigInv'
<1>1. caller[c].scope \in Tenants /\ caller[c].key \in ConfigKeys
  BY ChangerFits
<1>2. /\ RowsFit'
      /\ \A t \in Tenants, i \in ConfigKeys :
           t # caller[c].scope \/ i # caller[c].key => overrides'[t][i] = overrides[t][i]
  BY <1>1, OwnRow DEF ConfigInv
<1>3. \A v \in Config!Views : v \notin Config!Affected(caller[c].scope, caller[c].key) => RowsStay(v)
  BY <1>1, <1>2, OwnElsewhere
<1> QED
  BY <1>1, <1>2, <1>3, ChangeGoes

LEMMA InsertOverrideKeeps ==
  ASSUME Unlike, ConfigInv, NEW c \in Callers, Config!InsertOverride(c)
  PROVE  ConfigInv'
<1>1. caller[c].step \in OwnSteps /\ UNCHANGED globals /\ caller[c].step \notin EvictingSteps
  BY DEF Config!InsertOverride, Config!At, OwnSteps, EvictingSteps
<1> DEFINE row == [id |-> Config!NewId, type |-> caller[c].row.type, value |-> caller[c].value]
<1>2. CASE Config!Ends(c) /\ UNCHANGED <<overrides, cached, stale>>
  BY <1>1, <1>2, EndKeeps
<1>3. CASE /\ overrides' = [overrides EXCEPT ![caller[c].scope][caller[c].key] = row]
           /\ Config!Changes(c, caller[c].scope, caller[c].key, Config!Local(c, "evict_detail"))
  <2> HIDE DEF row
  <2> QED
    BY <1>1, <1>3, OwnChange
<1> QED
  BY <1>2, <1>3 DEF Config!InsertOverride

LEMMA WriteOverrideKeeps ==
  ASSUME Unlike, ConfigInv, NEW c \in Callers, Config!WriteOverride(c)
  PROVE  ConfigInv'
<1>1. caller[c].step \in OwnSteps /\ UNCHANGED globals /\ caller[c].step \notin EvictingSteps
  BY DEF Config!WriteOverride, Config!At, OwnSteps, EvictingSteps
<1>2. CASE Config!Ends(c) /\ UNCHANGED <<overrides, cached, stale>>
  BY <1>1, <1>2, EndKeeps
<1>3. CASE /\ overrides' = [overrides EXCEPT ![caller[c].scope][caller[c].key].value = caller[c].value]
           /\ Config!Changes(c, caller[c].scope, caller[c].key, Config!Local(c, "evict_detail"))
  <2>1. caller[c].scope \in Tenants /\ caller[c].key \in ConfigKeys
    BY <1>1, ChangerFits
  <2>2. PICK x : x = [overrides[caller[c].scope][caller[c].key] EXCEPT !.value = caller[c].value]
    OBVIOUS
  <2>3. overrides' = [overrides EXCEPT ![caller[c].scope] = [@ EXCEPT ![caller[c].key] = x]]
    BY <1>3, <2>1, <2>2 DEF ConfigInv, RowsFit
  <2> QED
    BY <1>1, <1>3, <2>3, OwnChange
<1> QED
  BY <1>2, <1>3 DEF Config!WriteOverride

LEMMA DropOwnKeeps ==
  ASSUME Unlike, ConfigInv, NEW c \in Callers, Config!DropOwn(c)
  PROVE  ConfigInv'
<1>1. caller[c].step \in OwnSteps /\ UNCHANGED globals
  BY DEF Config!DropOwn, Config!At, OwnSteps
<1>2. \/ overrides' = overrides
      \/ overrides' = [overrides EXCEPT ![caller[c].scope] = [@ EXCEPT ![caller[c].key] = Nil]]
  BY DEF Config!DropOwn
<1>3. Config!Changes(c, caller[c].scope, caller[c].key, Config!Local(c, "evict_detail"))
  BY DEF Config!DropOwn
<1> QED
  BY <1>1, <1>2, <1>3, OwnChange

----------------------------------------------------------------------------
(* Settings: evictions, readers and what ends without them *)

LEMMA GoesTo ==
  ASSUME ConfigInv, NEW c \in Callers, NEW local, Config!Goes(c, local)
  PROVE  /\ caller' = [d \in Callers |-> caller'[d]] /\ caller'[c] = local
         /\ \A d \in Callers \ {c} : caller'[d] = caller[d] /\ Config!Due(d)' = Config!Due(d)
<1>1. /\ caller' = [d \in Callers |-> caller'[d]] /\ caller'[c] = local
      /\ \A d \in Callers \ {c} : caller'[d] = caller[d]
  BY DEF Config!Goes, ConfigInv, CallersFit
<1>2. \A d \in Callers \ {c} : Config!Due(d)' = Config!Due(d)
  BY <1>1 DEF Config!Due, Config!At
<1> QED
  BY <1>1, <1>2

LEMMA EvictDetailKeeps ==
  ASSUME ConfigInv, NEW c \in Callers, Config!EvictDetail(c)
  PROVE  ConfigInv'
<1>1. PICK l : l = caller[c]
  OBVIOUS
<1>2. IsLocal(l) /\ l.step = "evict_detail" /\ l.scope \in Config!Scopes /\ l.key \in ConfigKeys
  BY <1>1 DEF ConfigInv, CallersFit, CallerFits, Config!EvictDetail, Config!At, EvictingSteps
<1>3. PICK m : m = [l EXCEPT !.step = "evict_all"]
  OBVIOUS
<1>4. IsLocal(l)
  BY <1>2
<1>5. IsLocal(m) /\ m.step = "evict_all" /\ m.scope = l.scope /\ m.key = l.key
  BY ONLY <1>3, <1>4, StepLocal
<1>6. Fits(m)
  BY <1>2, <1>5 DEF Fits, CallerFits, UpToDate, GlobalSteps, OwnSteps, EvictingSteps, ReadingSteps
<1>7. Config!Goes(c, m)
  BY <1>1, <1>3 DEF Config!EvictDetail, Config!Local
<1>8. /\ caller' = [d \in Callers |-> caller'[d]] /\ caller'[c] = m
      /\ \A d \in Callers \ {c} : caller'[d] = caller[d] /\ Config!Due(d)' = Config!Due(d)
  BY <1>7, GoesTo
<1>9. /\ Config!Due(c) = {Config!Detail(l.scope, l.key), Config!Listing(l.scope)}
      /\ Config!Due(c)' = {Config!Listing(l.scope)}
  BY <1>1, <1>2, <1>5, <1>8 DEF Config!Due, Config!At
<1>10. Config!Evicts(Config!Detail(l.scope, l.key)) /\ UNCHANGED <<globals, overrides>>
  BY <1>1 DEF Config!EvictDetail, Config!tables
<1> QED
  BY <1>6, <1>8, <1>9, <1>10, EvictStep

LEMMA EvictAllKeeps ==
  ASSUME ConfigInv, NEW c \in Callers, Config!EvictAll(c)
  PROVE  ConfigInv'
<1>1. /\ caller' = [d \in Callers |-> caller'[d]] /\ caller'[c] = Config!Idle
      /\ \A d \in Callers \ {c} : caller'[d] = caller[d] /\ Config!Due(d)' = Config!Due(d)
  BY GoesTo DEF Config!EvictAll, Config!Ends
<1>2. Config!Due(c) = {Config!Listing(caller[c].scope)}
  BY DEF Config!EvictAll, Config!Due, Config!At
<1>3. Config!Evicts(Config!Listing(caller[c].scope)) /\ UNCHANGED <<globals, overrides>>
  BY DEF Config!EvictAll, Config!tables
<1> QED
  BY <1>1, <1>2, <1>3, IdleFits, EvictStep

LEMMA ResolvesKeeps ==
  ASSUME ConfigInv, NEW c \in Callers, caller[c].step \in {"read_global", "read_override"},
         NEW pick, ~caller[c].old => PickFits(pick, caller[c].view),
         Config!Resolves(c, pick, Config!OverridesOf(caller[c].scope)),
         UNCHANGED <<globals, overrides, cached, stale>>
  PROVE  ConfigInv'
<1>1. PICK l : l = caller[c]
  OBVIOUS
<1>2. IsLocal(l) /\ l.view \in Config!Views /\ l.scope = l.view.scope
  BY <1>1 DEF ConfigInv, CallersFit, CallerFits, ReadingSteps
<1>3. caller[c].step \notin EvictingSteps
  BY DEF EvictingSteps
<1>4. PICK answer : answer = Config!Resolved(l.view, pick, Config!OverridesOf(l.view.scope))
  OBVIOUS
<1>5. CASE Config!Ends(c)
  BY <1>3, <1>5, EndKeeps
<1>6. CASE Config!Goes(c, [l EXCEPT !.step = "keep", !.content = answer, !.picked = Nil])
  <2>1. PICK i : i = [l EXCEPT !.step = "keep"]
    OBVIOUS
  <2>2. PICK j : j = [i EXCEPT !.content = answer]
    OBVIOUS
  <2>3. PICK m : m = [j EXCEPT !.picked = Nil]
    OBVIOUS
  <2>4. IsLocal(l)
    BY <1>2
  <2>5. /\ IsLocal(i) /\ i.step = "keep" /\ i.scope = l.scope /\ i.view = l.view
        /\ i.old = l.old
    BY ONLY <2>1, <2>4, StepLocal
  <2>6. /\ IsLocal(j) /\ j.step = "keep" /\ j.scope = l.scope /\ j.view = l.view
        /\ j.old = l.old /\ j.content = answer
    BY ONLY <2>2, <2>5, ContentLocal
  <2>7. /\ IsLocal(m) /\ m.step = "keep" /\ m.scope = l.scope /\ m.view = l.view
        /\ m.old = l.old /\ m.content = answer
    BY ONLY <2>3, <2>6, PickedLocal
  <2>8. CallerFits(m)
    BY <1>2, <2>7 DEF CallerFits, GlobalSteps, OwnSteps, EvictingSteps, ReadingSteps
  <2>9. ~m.old => m.content \in Config!Answers(m.view)
    BY <1>1, <1>2, <1>4, <2>7, PickedAnswer DEF PicksAnswer
  <2>10. Fits(m)
    BY <2>7, <2>8, <2>9 DEF Fits, UpToDate
  <2>11. Config!Goes(c, m)
    BY <1>6, <2>1, <2>2, <2>3
  <2> QED
    BY <1>3, <2>10, <2>11, QuietFrom
<1> QED
  BY <1>1, <1>2, <1>4, <1>5, <1>6 DEF Config!Resolves

LEMMA ReadGlobalKeeps ==
  ASSUME ConfigInv, NEW c \in Callers, Config!ReadGlobal(c)
  PROVE  ConfigInv'
<1>1. PICK l : l = caller[c]
  OBVIOUS
<1>2. IsLocal(l) /\ l.step = "read_global" /\ l.view \in Config!Views /\ l.scope = l.view.scope
  BY <1>1 DEF ConfigInv, CallersFit, CallerFits, Config!ReadGlobal, Config!At, ReadingSteps
<1>3. UNCHANGED <<globals, overrides, cached, stale>> /\ caller[c].step \notin EvictingSteps
  BY <1>1, <1>2 DEF Config!ReadGlobal, Config!Unchanged, Config!tables, EvictingSteps
<1>4. PICK pick \in Config!Picks :
        IF l.scope = Global THEN Config!Resolves(c, pick, Config!OverridesOf(Global))
        ELSE Config!Goes(c, [l EXCEPT !.step = "read_override", !.picked = pick])
  BY <1>1 DEF Config!ReadGlobal
<1>5. PickFits(pick, l.view)
  BY <1>2, <1>4, KeysOfView DEF Config!Picks, PickFits
<1>6. CASE l.scope = Global
  BY <1>1, <1>2, <1>3, <1>4, <1>5, <1>6, ResolvesKeeps
<1>7. CASE l.scope # Global
  <2>1. PICK i : i = [l EXCEPT !.step = "read_override"]
    OBVIOUS
  <2>2. PICK m : m = [i EXCEPT !.picked = pick]
    OBVIOUS
  <2>3. IsLocal(l)
    BY <1>2
  <2>4. IsLocal(i) /\ i.step = "read_override" /\ i.scope = l.scope /\ i.view = l.view
    BY ONLY <2>1, <2>3, StepLocal
  <2>5. /\ IsLocal(m) /\ m.step = "read_override" /\ m.scope = l.scope /\ m.view = l.view
        /\ m.picked = pick
    BY ONLY <2>2, <2>4, PickedLocal
  <2>6. CallerFits(m)
    BY <1>2, <1>7, <2>5 DEF CallerFits, GlobalSteps, OwnSteps, EvictingSteps, ReadingSteps
  <2>7. Fits(m)
    BY <1>5, <2>5, <2>6 DEF Fits, UpToDate
  <2>8. Config!Goes(c, m)
    BY <1>4, <1>7, <2>1, <2>2
  <2> QED
    BY <1>3, <2>7, <2>8, QuietFrom
<1> QED
  BY <1>6, <1>7

LEMMA ReadOverrideKeeps ==
  ASSUME ConfigInv, NEW c \in Callers, Config!ReadOverride(c)
  PROVE  ConfigInv'
<1>1. caller[c].step = "read_override" /\ ~caller[c].old => PickFits(caller[c].picked, caller[c].view)
  BY DEF ConfigInv, CallersFit, UpToDate
<1>2. caller[c].step = "read_override" /\ UNCHANGED <<globals, overrides, cached, stale>>
  BY DEF Config!ReadOverride, Config!At, Config!Unchanged, Config!tables
<1>3. Config!Resolves(c, caller[c].picked, Config!OverridesOf(caller[c].scope))
  BY DEF Config!ReadOverride
<1> QED
  BY <1>1, <1>2, <1>3, ResolvesKeeps

LEMMA KeepKeeps ==
  ASSUME ConfigInv, NEW c \in Callers, Config!Keep(c)
  PROVE  ConfigInv'
<1>1. PICK l : l = caller[c]
  OBVIOUS
<1>2. l.step = "keep" /\ l.view \in Config!Views /\ UpToDate(l)
  BY <1>1 DEF ConfigInv, CallersFit, CallerFits, Config!Keep, Config!At, ReadingSteps
<1>3. /\ caller' = [d \in Callers |-> caller'[d]] /\ caller'[c] = Config!Idle
      /\ \A d \in Callers \ {c} : caller'[d] = caller[d] /\ Config!Due(d)' = Config!Due(d)
  BY GoesTo DEF Config!Keep, Config!Ends
<1>4. Config!Due(c) = {}
  BY <1>1, <1>2, NothingDue DEF EvictingSteps
<1>5. /\ cached' = [cached EXCEPT ![l.view] = l.content]
      /\ stale' = IF l.old THEN stale \cup {l.view} ELSE stale \ {l.view}
      /\ UNCHANGED <<globals, overrides>>
  BY <1>1 DEF Config!Keep, Config!tables
<1>6. /\ cached' = [v \in Config!Views |-> cached'[v]] /\ cached'[l.view] = l.content
      /\ \A v \in Config!Views : v # l.view => cached'[v] = cached[v]
  BY <1>2, <1>5 DEF ConfigInv
<1>7. ASSUME NEW v \in Config!Views
      PROVE  \/ cached'[v] = Nil \/ v \in stale' \/ \E d \in Callers : v \in Config!Due(d)'
             \/ cached'[v] \in Config!Answers(v)
             \/ cached'[v] = cached[v] /\ v \notin stale /\ \A d \in Callers : v \notin Config!Due(d)
  <2>1. CASE v = l.view /\ l.old
    BY <1>5, <2>1
  <2>2. CASE v = l.view /\ ~l.old
    BY <1>2, <1>6, <2>2 DEF UpToDate
  <2>3. CASE v # l.view
    BY <1>3, <1>4, <1>5, <1>6, <2>3
  <2> QED
    BY <2>1, <2>2, <2>3
<1> QED
  BY <1>3, <1>5, <1>6, <1>7, IdleFits, StepKeeps

LEMMA DropKeeps ==
  ASSUME ConfigInv, NEW c \in Callers, Config!Drop(c)
  PROVE  ConfigInv'
BY QuietStep, IdleFits DEF Config!Drop, Config!Ends, Config!tables

LEMMA ExpireKeeps ==
  ASSUME ConfigInv, NEW v \in Config!Views, Config!Expire(v)
  PROVE  ConfigInv'
<1>1. \A d \in Callers : Config!Due(d)' = Config!Due(d) /\ caller'[d] = caller[d]
  BY DEF Config!Expire, Config!Due, Config!At
<1>2. caller' = [d \in Callers |-> caller'[d]]
  BY DEF Config!Expire, ConfigInv, CallersFit
<1>3. Config!Evicts(v) /\ UNCHANGED <<globals, overrides>>
  BY DEF Config!Expire, Config!tables
<1> QED
  BY <1>1, <1>2, <1>3, EvictStep

LEMMA ConfigKeeps ==
  ASSUME Unlike, ConfigInv, Config!Next
  PROVE  ConfigInv'
<1>1. ASSUME NEW c \in Callers, Config!WriteStep(c)
      PROVE  ConfigInv'
  BY <1>1, FindGlobalKeeps, InsertGlobalKeeps, WriteGlobalKeeps, DropOverridesKeeps, DropGlobalKeeps,
     FindOverrideKeeps, InsertOverrideKeeps, WriteOverrideKeeps, DropOwnKeeps, EvictDetailKeeps,
     EvictAllKeeps DEF Config!WriteStep
<1>2. ASSUME NEW c \in Callers, Config!Reads(c)
      PROVE  ConfigInv'
  BY <1>2, LookKeeps, ReadGlobalKeeps, ReadOverrideKeeps, KeepKeeps DEF Config!Reads
<1> QED
  BY <1>1, <1>2, BeginsKeep, DropKeeps, ExpireKeeps DEF Config!Next

LEMMA ConfigStarts ==
  ASSUME Config!Init
  PROVE  ConfigInv
<1>1. RowsFit
  BY DEF Config!Init, RowsFit
<1>2. CallersFit
  BY IdleFits DEF Config!Init, CallersFit, Fits
<1>3. cached = [v \in Config!Views |-> cached[v]]
  BY DEF Config!Init
<1>4. SettledViewsAgree
  BY DEF Config!Init, SettledViewsAgree, Config!SettledViewsAgree
<1> QED
  BY <1>1, <1>2, <1>3, <1>4 DEF ConfigInv

----------------------------------------------------------------------------
(* Settings beside the other components *)

\* ConfigInv says how the requests stand whose cache entries are not settled: what a reader keeps is
\* what the rows resolve to, unless a change has overtaken it and marked what it read as old.
THEOREM SettledViewsMatchRows == SpecOfOne => []SettledViewsAgree
<1>1. InitOfOne => ConfigInv
  BY ConfigStarts DEF InitOfOne
<1>2. ConfigInv /\ [NextOfOne]_allVars => ConfigInv'
  <2> SUFFICES ASSUME ConfigInv, [NextOfOne]_allVars
               PROVE  ConfigInv'
    OBVIOUS
  <2>1. CASE Config!Next
    BY <2>1, UnlikeAssumption, ConfigKeeps DEF Unlike
  <2>2. CASE UNCHANGED configVars
    <3>1. Config!Views' = Config!Views
      OBVIOUS
    <3>2. \A d \in Callers : Config!Due(d)' = Config!Due(d) /\ caller'[d] = caller[d]
      BY <2>2 DEF configVars, Config!Due, Config!At
    <3>3. ConfigInv'
      BY <2>2, <3>2, StepKeeps DEF configVars, ConfigInv, CallersFit
    <3> QED
      BY <3>3
  <2> QED
    BY <2>1, <2>2 DEF NextOfOne, Translating, allVars, configVars
<1>3. ConfigInv => SettledViewsAgree
  BY DEF ConfigInv
<1> QED
  BY <1>1, <1>2, <1>3, PTL DEF SpecOfOne

----------------------------------------------------------------------------
(* Dictionaries: rows, owners and the requests that are under way *)

\* What ApartAssumption says.
Apart ==
  /\ Nil \notin {"view", "create"}
  /\ Nil \notin Types \cup Items /\ Platform \notin Tenants
  /\ Nil \notin Dictionary!BaseRow /\ Overridden \subseteq Seeded
  /\ Seeded \subseteq Types \cup Items
  /\ \A i \in Seeded \cap Items : Above[i] \in (Seeded \cap Items) \cup {Nil}
  /\ \A circle \in (SUBSET (Seeded \cap Items)) \ {{}} : \E i \in circle : Above[i] \notin circle
  /\ EditBound \in Nat /\ Nil \notin 0..EditBound

EditorFields ==
  {"step", "op", "as", "entry", "parent", "moves", "seen", "own", "row", "at", "depth", "doomed",
   "overrides", "owned", "platforms"}

ViewingSteps == {"read_overrides", "read_own", "read_base", "shown"}

UndoingSteps == {"find_doomed", "drop", "list_overrides"}

ForkingSteps == {"find_override", "insert_override"}

\* A request knows what it is about, and the row that it changes exists.
EditorFits(local) ==
  /\ DOMAIN local = EditorFields
  /\ local.op = "view" <=> local.step \in ViewingSteps
  /\ local.op = "view" => local.as \in Tenants
  /\ local.step \notin {"idle"} \cup ViewingSteps \cup UndoingSteps =>
       /\ local.entry \in Dictionary!Entered /\ local.as \in Dictionary!Actors
       /\ local.parent \in Dictionary!Parents /\ local.moves \in BOOLEAN /\ local.seen \in Nat
       /\ local.step = "insert" \/ local.op = "create" \/ Dictionary!Exists(local.entry)
  /\ local.step \in ForkingSteps => local.as \in Tenants /\ Dictionary!IsPlatforms(local.entry)
  /\ local.op = "create" => local.step \in {"depth", "insert"}

\* What a view has read so far holds what it has read of the rows that stayed.
ViewFits(local, kept) ==
  local.op = "view" =>
    /\ kept \subseteq Dictionary!Visible(local.as, local.entry)
    /\ local.step # "read_overrides" =>
         /\ \A e \in local.overrides : e \in Dictionary!Entered /\ Dictionary!IsPlatforms(e)
         /\ \A e : <<"override", e>> \in kept => e \in local.overrides
    /\ local.step \in {"read_base", "shown"} =>
         /\ \A e \in local.owned : e \in Dictionary!Entered /\ Dictionary!IsOwn(local.as, e)
         /\ \A e : <<"own", e>> \in kept => e \in local.owned
    /\ local.step = "shown" =>
         /\ \A e \in local.platforms :
              e \in Dictionary!Entered /\ Dictionary!IsPlatforms(e) /\ e \notin local.overrides
         /\ \A e : <<"platform", e>> \in kept => e \in local.overrides \cup local.platforms

IsOverriding(row) == DOMAIN row = {"id", "parent", "active", "version"} /\ row.version \in Nat

EntriesFit ==
  /\ base \in [Dictionary!Entered -> Dictionary!BaseRow \cup {Nil}]
  /\ overriding = [t \in Tenants |-> [e \in Dictionary!Entered |-> overriding[t][e]]]
  /\ \A t \in Tenants, e \in Dictionary!Entered :
       overriding[t][e] # Nil => IsOverriding(overriding[t][e])

OverridesArePlatforms ==
  \A t \in Tenants, e \in Dictionary!Entered : overriding[t][e] # Nil => Dictionary!IsPlatforms(e)

DictionaryInv ==
  /\ EntriesFit /\ OverridesArePlatforms
  /\ editor = [c \in Editors |-> editor[c]] /\ steady = [c \in Editors |-> steady[c]]
  /\ \A c \in Editors : EditorFits(editor[c]) /\ ViewFits(editor[c], steady[c])

LEMMA VisibleRows ==
  ASSUME NEW t, NEW listing, NEW seen
  PROVE  seen \in Dictionary!Visible(t, listing) <=>
           \E e \in Dictionary!Listed(listing) :
             \/ seen = <<"override", e>> /\ overriding[t][e] # Nil
             \/ seen = <<"own", e>> /\ Dictionary!IsOwn(t, e)
             \/ seen = <<"platform", e>> /\ Dictionary!IsPlatforms(e) /\ base[e].active
BY DEF Dictionary!Visible

LEMMA ListedEntries ==
  ASSUME NEW listing
  PROVE  Dictionary!Listed(listing) \subseteq Dictionary!Entered
BY DEF Dictionary!Listed, Dictionary!Entered

\* No row changes its owner.
OwnersStay ==
  \A e \in Dictionary!Entered :
    Dictionary!Exists(e) => Dictionary!Exists(e)' /\ base'[e].owner = base[e].owner

LEMMA OwnedStaysOwned ==
  ASSUME OwnersStay
  PROVE  /\ \A t : \A e \in Dictionary!Entered : Dictionary!IsOwn(t, e) => Dictionary!IsOwn(t, e)'
         /\ \A e \in Dictionary!Entered : Dictionary!IsPlatforms(e) => Dictionary!IsPlatforms(e)'
BY DEF OwnersStay, Dictionary!IsOwn, Dictionary!IsPlatforms

LEMMA EditorStillFits ==
  ASSUME NEW l, EditorFits(l), OwnersStay
  PROVE  EditorFits(l)'
<1>1. \A e : e \in Dictionary!Entered /\ Dictionary!Exists(e) => Dictionary!Exists(e)'
  BY DEF OwnersStay
<1>2. l.step \in ForkingSteps => Dictionary!IsPlatforms(l.entry)'
  BY OwnedStaysOwned DEF EditorFits, ForkingSteps, ViewingSteps, UndoingSteps
<1> QED
  BY <1>1, <1>2 DEF EditorFits

LEMMA ViewStillFits ==
  ASSUME NEW l, NEW kept, NEW left, ViewFits(l, kept), OwnersStay,
         l.op = "view" => left \subseteq kept \cap Dictionary!Visible(l.as, l.entry)'
  PROVE  ViewFits(l, left)'
<1>1. \A t : \A e \in Dictionary!Entered : Dictionary!IsOwn(t, e) => Dictionary!IsOwn(t, e)'
  BY OwnedStaysOwned
<1>2. \A e \in Dictionary!Entered : Dictionary!IsPlatforms(e) => Dictionary!IsPlatforms(e)'
  BY OwnedStaysOwned
<1> QED
  BY <1>1, <1>2 DEF ViewFits

\* A request goes on: the others and their views are still as they should be.
LEMMA EditorGoes ==
  ASSUME DictionaryInv, NEW c \in Editors, NEW m, Dictionary!Goes(c, m), Dictionary!Remembers,
         EntriesFit', OverridesArePlatforms', OwnersStay,
         EditorFits(m)', NEW kept, kept = steady'[c], ViewFits(m, kept)'
  PROVE  DictionaryInv'
<1>1. /\ editor' = [d \in Editors |-> editor'[d]] /\ editor'[c] = m
      /\ \A d \in Editors \ {c} : editor'[d] = editor[d]
  BY DEF Dictionary!Goes, DictionaryInv
<1>2. steady' = [d \in Editors |-> steady'[d]]
  BY DEF Dictionary!Remembers
<1>3. ASSUME NEW d \in Editors \ {c}
      PROVE  EditorFits(editor[d])' /\ ViewFits(editor[d], steady[d])'
  <2>1. PICK l, left : l = editor[d] /\ left = steady'[d]
    OBVIOUS
  <2>2. EditorFits(l) /\ ViewFits(l, steady[d])
    BY <2>1 DEF DictionaryInv
  <2>3. l.op = "view" => left \subseteq steady[d] \cap Dictionary!Visible(l.as, l.entry)'
    <3>1. SUFFICES ASSUME l.op = "view"
                   PROVE  left \subseteq steady[d] \cap Dictionary!Visible(l.as, l.entry)'
      OBVIOUS
    <3>2. ~Dictionary!At(d, "idle")
      BY <2>1, <2>2, <3>1 DEF EditorFits, Dictionary!At, ViewingSteps
    <3>3. Dictionary!Visible(editor[d].as, editor[d].entry)' = Dictionary!Visible(l.as, l.entry)'
      BY <1>1, <2>1
    <3>4. left = steady[d] \cap Dictionary!Visible(editor[d].as, editor[d].entry)'
      BY <1>1, <2>1, <3>1, <3>2 DEF Dictionary!Remembers
    <3> QED
      BY <3>3, <3>4
  <2>4. EditorFits(l)'
    BY <2>2, EditorStillFits
  <2>5. ViewFits(l, left)'
    BY <2>2, <2>3, ViewStillFits
  <2> QED
    BY <1>1, <2>1, <2>4, <2>5
<1>4. EditorFits(editor[c])' /\ ViewFits(editor[c], steady[c])'
  BY <1>1
<1> QED
  BY <1>1, <1>2, <1>3, <1>4 DEF DictionaryInv

----------------------------------------------------------------------------
(* Dictionaries: requests begin *)

LEMMA IdleFields ==
  /\ DOMAIN Dictionary!Idle = EditorFields
  /\ Dictionary!Idle.op = Nil /\ Dictionary!Idle.step = "idle" /\ Dictionary!Idle.entry = Nil
  /\ Dictionary!Idle.parent = Nil /\ Dictionary!Idle.own = Nil
  /\ Dictionary!Idle.moves \in {FALSE} /\ Dictionary!Idle.seen \in Nat
<1>1. PICK j : j = Dictionary!Idle
  OBVIOUS
<1>2. /\ DOMAIN j = EditorFields /\ j.op = Nil /\ j.step = "idle" /\ j.entry = Nil
      /\ j.parent = Nil /\ j.own = Nil /\ j.moves \in {FALSE} /\ j.seen \in Nat
  BY ONLY <1>1 DEF Dictionary!Idle, EditorFields
<1> QED
  BY ONLY <1>1, <1>2

LEMMA IdleEditorFits ==
  ASSUME Apart
  PROVE  EditorFits(Dictionary!Idle) /\ Dictionary!Idle.op # "view"
<1>1. Nil # "view" /\ Nil # "create"
  BY DEF Apart
<1> QED
  BY <1>1, IdleFields DEF EditorFits, ViewingSteps, UndoingSteps, ForkingSteps

\* A step of a request that changes no row.
LEMMA QuietEdit ==
  ASSUME DictionaryInv, NEW c \in Editors, NEW m, Dictionary!Goes(c, m), Dictionary!Remembers,
         UNCHANGED <<base, overriding>>, EditorFits(m), m.op # "view"
  PROVE  DictionaryInv'
<1>1. EntriesFit' /\ OwnersStay
  BY DEF DictionaryInv, EntriesFit, OwnersStay, Dictionary!Exists
<1>2. OverridesArePlatforms'
  BY DEF DictionaryInv, OverridesArePlatforms, Dictionary!IsPlatforms, Dictionary!IsOwn, Dictionary!Exists
<1>3. EditorFits(m)'
  BY <1>1, EditorStillFits
<1>4. PICK kept : kept = steady'[c]
  OBVIOUS
<1>5. ViewFits(m, kept)'
  BY DEF ViewFits
<1> QED
  BY <1>1, <1>2, <1>3, <1>4, <1>5, EditorGoes

\* An entry that exists is changed, as a client names it.
NamesEntry(l) ==
  \E op \in {"update", "toggle"}, as \in Dictionary!Actors, e \in Dictionary!Entered :
    Dictionary!Exists(e) /\ l \in Dictionary!Names(Dictionary!Starts(op, "load", as, e))

LEMMA NamesFit ==
  ASSUME EntriesFit, NEW l, NamesEntry(l)
  PROVE  /\ EditorFits(l) /\ l.op \in {"update", "toggle"} /\ l.step = "load"
         /\ l.parent = Nil /\ l.moves \in {FALSE}
<1>13. PICK op, as, e :
         /\ op \in {"update", "toggle"} /\ as \in Dictionary!Actors /\ e \in Dictionary!Entered
         /\ Dictionary!Exists(e) /\ l \in Dictionary!Names(Dictionary!Starts(op, "load", as, e))
  BY DEF NamesEntry
<1>1. PICK j : j = Dictionary!Starts(op, "load", as, e)
  OBVIOUS
<1>0. PICK i : i = Dictionary!Idle
  OBVIOUS
<1>10. DOMAIN i = EditorFields /\ i.parent = Nil /\ i.moves \in {FALSE} /\ i.seen \in Nat
  BY ONLY <1>0, IdleFields
<1>11. j = [i EXCEPT !.op = op, !.step = "load", !.as = as, !.entry = e]
  BY <1>0, <1>1 DEF Dictionary!Starts
<1>2. /\ DOMAIN j = EditorFields /\ j.op = op /\ j.step = "load" /\ j.as = as /\ j.entry = e
      /\ j.parent = Nil /\ j.moves \in {FALSE}
  BY ONLY <1>10, <1>11 DEF EditorFields
<1>3. base[e].version \in Nat
  BY <1>13 DEF EntriesFit, Dictionary!Exists, Dictionary!BaseRow
<1>4. as # Platform => as \in Tenants
  BY <1>13 DEF Dictionary!Actors
<1>5. \/ l = [j EXCEPT !.seen = base[e].version]
      \/ /\ as # Platform /\ overriding[as][e] # Nil
         /\ \/ l = [j EXCEPT !.seen = overriding[as][e].version, !.own = overriding[as][e].id]
            \/ l = [j EXCEPT !.seen = overriding[as][e].version]
  BY <1>1, <1>2, <1>13 DEF Dictionary!Names
<1>6. \E seen \in Nat : \E own :
        l = [j EXCEPT !.seen = seen] \/ l = [j EXCEPT !.seen = seen, !.own = own]
  BY <1>3, <1>4, <1>5, <1>13 DEF EntriesFit, IsOverriding
<1>7. PICK seen, own :
        /\ seen \in Nat
        /\ l = [j EXCEPT !.seen = seen] \/ l = [j EXCEPT !.seen = seen, !.own = own]
  BY <1>6
<1>8. /\ DOMAIN l = EditorFields /\ l.op = op /\ l.step = "load" /\ l.as = as /\ l.entry = e
      /\ l.parent = Nil /\ l.moves \in {FALSE} /\ l.seen \in Nat
  BY ONLY <1>2, <1>7 DEF EditorFields
<1>9. EditorFits(l)
  BY <1>8, <1>13 DEF EditorFits, ViewingSteps, UndoingSteps, ForkingSteps, Dictionary!Parents
<1> QED
  BY <1>8, <1>9, <1>13

LEMMA BegunEdit ==
  ASSUME DictionaryInv, NEW c \in Editors, NEW l, Dictionary!Begin(c, l), Dictionary!Remembers,
         EditorFits(l), l.op # "view"
  PROVE  DictionaryInv'
BY QuietEdit DEF Dictionary!Begin, Dictionary!tables

LEMMA BeginUpdateStep ==
  ASSUME DictionaryInv, NEW c \in Editors, Dictionary!BeginUpdate(c) \/ Dictionary!BeginToggle(c),
         Dictionary!Remembers
  PROVE  DictionaryInv'
<1>1. PICK j :
        /\ NamesEntry(j)
        /\ \/ Dictionary!Begin(c, j)
           \/ \E parent \in Dictionary!Shown :
                Dictionary!Begin(c, [j EXCEPT !.moves = TRUE, !.parent = parent])
  BY DEF NamesEntry, Dictionary!BeginUpdate, Dictionary!BeginToggle
<1>2. EditorFits(j) /\ j.step = "load" /\ j.op \notin {"view", "create"}
  BY <1>1, NamesFit DEF DictionaryInv
<1>3. CASE Dictionary!Begin(c, j)
  BY <1>1, <1>2, <1>3, BegunEdit
<1>4. ASSUME NEW parent \in Dictionary!Shown,
             Dictionary!Begin(c, [j EXCEPT !.moves = TRUE, !.parent = parent])
      PROVE  DictionaryInv'
  <2>1. PICK l : l = [j EXCEPT !.moves = TRUE, !.parent = parent]
    OBVIOUS
  <2>2. parent \in Dictionary!Parents
    BY DEF Dictionary!Shown, Dictionary!Parents
  <2>3. DOMAIN j = EditorFields
    BY <1>2 DEF EditorFits
  <2>4. /\ DOMAIN l = EditorFields /\ l.op = j.op /\ l.step = j.step /\ l.as = j.as /\ l.entry = j.entry
        /\ l.moves = TRUE /\ l.parent = parent /\ l.seen = j.seen
    BY ONLY <2>1, <2>3 DEF EditorFields
  <2>5. EditorFits(l) /\ l.op # "view"
    BY <1>2, <2>2, <2>4 DEF EditorFits, ViewingSteps, UndoingSteps, ForkingSteps
  <2> QED
    BY <1>4, <2>1, <2>5, BegunEdit
<1> QED
  BY <1>1, <1>3, <1>4

LEMMA BeginResetStep ==
  ASSUME DictionaryInv, NEW c \in Editors, Dictionary!BeginReset(c), Dictionary!Remembers
  PROVE  DictionaryInv'
<1>1. PICK t \in Tenants, e \in Dictionary!Entered :
        /\ overriding[t][e] # Nil
        /\ Dictionary!Begin(c, [Dictionary!Starts("reset", "load", t, e)
                                  EXCEPT !.own = overriding[t][e].id])
  BY DEF Dictionary!BeginReset
<1>2. PICK i, l, own :
        /\ i = Dictionary!Idle /\ own = overriding[t][e].id
        /\ l = [Dictionary!Starts("reset", "load", t, e) EXCEPT !.own = own]
  OBVIOUS
<1>3. DOMAIN i = EditorFields /\ i.parent = Nil /\ i.moves \in {FALSE} /\ i.seen \in Nat
  BY ONLY <1>2, IdleFields
<1>4. PICK j : j = [i EXCEPT !.op = "reset", !.step = "load", !.as = t, !.entry = e]
  OBVIOUS
<1>5. l = [j EXCEPT !.own = own]
  BY <1>2, <1>4 DEF Dictionary!Starts
<1>6. /\ DOMAIN l = EditorFields /\ l.op = "reset" /\ l.step = "load" /\ l.as = t /\ l.entry = e
      /\ l.parent = Nil /\ l.moves \in {FALSE} /\ l.seen \in Nat
  BY ONLY <1>3, <1>4, <1>5 DEF EditorFields
<1>7. Dictionary!Exists(e)
  BY <1>1 DEF DictionaryInv, OverridesArePlatforms, Dictionary!IsPlatforms, Dictionary!IsOwn
<1>8. EditorFits(l)
  BY <1>6, <1>7 DEF EditorFits, ViewingSteps, UndoingSteps, ForkingSteps, Dictionary!Parents,
     Dictionary!Actors
<1> QED
  BY <1>1, <1>2, <1>6, <1>8, BegunEdit

LEMMA BeginCreateStep ==
  ASSUME DictionaryInv, NEW c \in Editors, Dictionary!BeginCreate(c), Dictionary!Remembers
  PROVE  DictionaryInv'
<1>1. PICK as \in Dictionary!Actors, e \in Dictionary!Entered, parent \in Dictionary!Shown,
           step \in {"insert", "depth"} :
        Dictionary!Begin(c, [Dictionary!Starts("create", step, as, e) EXCEPT !.parent = parent, !.at = parent])
  BY DEF Dictionary!BeginCreate
<1>2. PICK i, l :
        /\ i = Dictionary!Idle
        /\ l = [Dictionary!Starts("create", step, as, e) EXCEPT !.parent = parent, !.at = parent]
  OBVIOUS
<1>3. DOMAIN i = EditorFields /\ i.moves \in {FALSE} /\ i.seen \in Nat
  BY ONLY <1>2, IdleFields
<1>4. PICK j : j = [i EXCEPT !.op = "create", !.step = step, !.as = as, !.entry = e]
  OBVIOUS
<1>5. l = [j EXCEPT !.parent = parent, !.at = parent]
  BY <1>2, <1>4 DEF Dictionary!Starts
<1>6. /\ DOMAIN l = EditorFields /\ l.op = "create" /\ l.step = step /\ l.as = as /\ l.entry = e
      /\ l.parent = parent /\ l.moves \in {FALSE} /\ l.seen \in Nat
  BY ONLY <1>3, <1>4, <1>5 DEF EditorFields
<1>7. parent \in Dictionary!Parents
  BY DEF Dictionary!Shown, Dictionary!Parents
<1>8. EditorFits(l)
  BY <1>6, <1>7 DEF EditorFits, ViewingSteps, UndoingSteps, ForkingSteps
<1> QED
  BY <1>1, <1>2, <1>6, <1>8, BegunEdit

----------------------------------------------------------------------------
(* Dictionaries: checks *)

SameRequest(m, l) ==
  /\ DOMAIN m = EditorFields
  /\ m.op = l.op /\ m.as = l.as /\ m.entry = l.entry
  /\ m.parent = l.parent /\ m.moves = l.moves /\ m.seen = l.seen

LEMMA StaysQuiet ==
  ASSUME DictionaryInv, NEW c \in Editors, NEW m, Dictionary!Goes(c, m), Dictionary!Stays,
         Dictionary!Remembers, EditorFits(m), m.op # "view"
  PROVE  DictionaryInv'
BY QuietEdit DEF Dictionary!Stays, Dictionary!tables

LEMMA EndsQuietly ==
  ASSUME Apart, DictionaryInv, NEW c \in Editors, Dictionary!Ends(c), Dictionary!Stays,
         Dictionary!Remembers
  PROVE  DictionaryInv'
BY IdleEditorFits, StaysQuiet DEF Dictionary!Ends

\* A request whose row is its own goes on; one that overrides looks for its override.
LEMMA AuthorisedCases ==
  ASSUME NEW c \in Editors, NEW l, l = editor[c], l.as \in Dictionary!Actors
  PROVE  \/ Dictionary!Authorised(c) = Dictionary!Idle
         \/ /\ Dictionary!Authorised(c) = [l EXCEPT !.step = "check"]
            /\ l.own # Nil \/ Dictionary!IsOwn(l.as, l.entry)
         \/ /\ Dictionary!Authorised(c) = [l EXCEPT !.step = "find_override"]
            /\ l.own = Nil /\ l.as \in Tenants /\ Dictionary!IsPlatforms(l.entry)
BY DEF Dictionary!Authorised, Dictionary!Local, Dictionary!Actors

LEMMA IdleAgain ==
  ASSUME Apart, NEW i, i = Dictionary!Idle, NEW m, NEW x, NEW y, NEW z,
         m = [i EXCEPT !.row = x] \/ m = [i EXCEPT !.at = y, !.depth = z]
  PROVE  EditorFits(m) /\ m.op # "view"
<1>1. /\ DOMAIN i = EditorFields /\ i.op = Nil /\ i.step = "idle"
  BY ONLY i = Dictionary!Idle, IdleFields
<1>2. DOMAIN m = EditorFields /\ m.op = Nil /\ m.step = "idle"
  BY ONLY <1>1, m = [i EXCEPT !.row = x] \/ m = [i EXCEPT !.at = y, !.depth = z] DEF EditorFields
<1>3. Nil # "view" /\ Nil # "create"
  BY DEF Apart
<1> QED
  BY <1>2, <1>3 DEF EditorFits, ViewingSteps, UndoingSteps, ForkingSteps

LEMMA LoadStep ==
  ASSUME Apart, DictionaryInv, NEW c \in Editors, Dictionary!Load(c), Dictionary!Remembers
  PROVE  DictionaryInv'
<1>1. PICK l : l = editor[c]
  OBVIOUS
<1>2. EditorFits(l) /\ l.step = "load" /\ Dictionary!Stays
  BY <1>1 DEF DictionaryInv, Dictionary!Load, Dictionary!At
<1>3. /\ DOMAIN l = EditorFields /\ l.op \notin {"view", "create"} /\ l.entry \in Dictionary!Entered
      /\ l.as \in Dictionary!Actors /\ l.parent \in Dictionary!Parents /\ l.moves \in BOOLEAN
      /\ l.seen \in Nat /\ Dictionary!Exists(l.entry)
  BY <1>2 DEF EditorFits, ViewingSteps, UndoingSteps
<1>4. CASE Dictionary!Ends(c)
  BY <1>2, <1>4, EndsQuietly
<1>5. ASSUME NEW row, NEW x, NEW m, NEW step \in {"find_doomed", "circular"}, Dictionary!Goes(c, m),
             \/ m = [[l EXCEPT !.row = row] EXCEPT !.step = step, !.doomed = x]
             \/ m = [[l EXCEPT !.row = row] EXCEPT !.step = step, !.at = x]
      PROVE  DictionaryInv'
  <2>1. DOMAIN l = EditorFields
    BY <1>3
  <2>2. SameRequest(m, l) /\ m.step = step
    BY ONLY <1>5, <2>1 DEF SameRequest, EditorFields
  <2>3. EditorFits(m) /\ m.op # "view"
    BY <1>3, <2>2 DEF SameRequest, EditorFits, ViewingSteps, UndoingSteps, ForkingSteps
  <2> QED
    BY <1>2, <1>5, <2>3, StaysQuiet
<1>6. ASSUME NEW row, Dictionary!Goes(c, [Dictionary!Authorised(c) EXCEPT !.row = row])
      PROVE  DictionaryInv'
  <2>1. PICK j : j = Dictionary!Authorised(c)
    OBVIOUS
  <2>2. PICK m : m = [j EXCEPT !.row = row]
    OBVIOUS
  <2>3. Dictionary!Goes(c, m)
    BY <1>6, <2>1, <2>2
  <2>4. CASE j = Dictionary!Idle
    BY <1>2, <2>2, <2>3, <2>4, IdleAgain, StaysQuiet
  <2>5. ASSUME NEW step \in {"check", "find_override"}, j = [l EXCEPT !.step = step],
               step = "find_override" => l.as \in Tenants /\ Dictionary!IsPlatforms(l.entry)
        PROVE  DictionaryInv'
    <3>1. DOMAIN l = EditorFields /\ m = [[l EXCEPT !.step = step] EXCEPT !.row = row]
      BY <1>3, <2>2, <2>5
    <3>2. SameRequest(m, l) /\ m.step = step
      BY ONLY <3>1 DEF SameRequest, EditorFields
    <3>3. EditorFits(m) /\ m.op # "view"
      BY <1>3, <2>5, <3>2 DEF SameRequest, EditorFits, ViewingSteps, UndoingSteps, ForkingSteps
    <3> QED
      BY <1>2, <2>3, <3>3, StaysQuiet
  <2> QED
    BY <1>1, <1>3, <2>1, <2>4, <2>5, AuthorisedCases
<1> QED
  BY <1>1, <1>4, <1>5, <1>6 DEF Dictionary!Load

LEMMA CircularStep ==
  ASSUME Apart, DictionaryInv, NEW c \in Editors, Dictionary!Circular(c), Dictionary!Remembers
  PROVE  DictionaryInv'
<1>1. PICK l : l = editor[c]
  OBVIOUS
<1>2. EditorFits(l) /\ l.step = "circular" /\ Dictionary!Stays
  BY <1>1 DEF DictionaryInv, Dictionary!Circular, Dictionary!At
<1>3. CASE Dictionary!Ends(c)
  BY <1>2, <1>3, EndsQuietly
<1>4. ASSUME NEW m, NEW x, Dictionary!Goes(c, m),
             m = [l EXCEPT !.step = "depth", !.at = x] \/ m = [l EXCEPT !.at = x]
      PROVE  DictionaryInv'
  <2>1. DOMAIN l = EditorFields /\ l.step = "circular"
    BY <1>2 DEF EditorFits
  <2>2. SameRequest(m, l) /\ m.step \in {"circular", "depth"}
    BY ONLY <1>4, <2>1 DEF SameRequest, EditorFields
  <2>3. EditorFits(m) /\ m.op # "view"
    BY <1>2, <2>2 DEF SameRequest, EditorFits, ViewingSteps, UndoingSteps, ForkingSteps
  <2> QED
    BY <1>2, <1>4, <2>3, StaysQuiet
<1> QED
  BY <1>1, <1>3, <1>4 DEF Dictionary!Circular

LEMMA DepthStep ==
  ASSUME Apart, DictionaryInv, NEW c \in Editors, Dictionary!Depth(c), Dictionary!Remembers
  PROVE  DictionaryInv'
<1>1. PICK l : l = editor[c]
  OBVIOUS
<1>2. EditorFits(l) /\ l.step = "depth" /\ Dictionary!Stays
  BY <1>1 DEF DictionaryInv, Dictionary!Depth, Dictionary!At
<1>3. DOMAIN l = EditorFields /\ l.as \in Dictionary!Actors
  BY <1>2 DEF EditorFits, ViewingSteps, UndoingSteps
<1>4. CASE Dictionary!Ends(c)
  BY <1>2, <1>4, EndsQuietly
<1>5. ASSUME NEW x, NEW y, Dictionary!Goes(c, [l EXCEPT !.at = x, !.depth = y])
      PROVE  DictionaryInv'
  <2>1. PICK m : m = [l EXCEPT !.at = x, !.depth = y]
    OBVIOUS
  <2>2. SameRequest(m, l) /\ m.step = l.step
    BY ONLY <1>3, <2>1 DEF SameRequest, EditorFields
  <2>3. EditorFits(m) /\ m.op # "view"
    BY <1>2, <2>2 DEF SameRequest, EditorFits, ViewingSteps, UndoingSteps, ForkingSteps
  <2> QED
    BY <1>2, <1>5, <2>1, <2>3, StaysQuiet
<1>6. ASSUME NEW after, Dictionary!Goes(c, [after EXCEPT !.at = Nil, !.depth = 0]),
             \/ l.op = "create" /\ after = [l EXCEPT !.step = "insert"]
             \/ l.op # "create" /\ after = Dictionary!Authorised(c)
      PROVE  DictionaryInv'
  <2>1. PICK m : m = [after EXCEPT !.at = Nil, !.depth = 0]
    OBVIOUS
  <2>2. CASE after = Dictionary!Idle
    <3>1. EditorFits(m) /\ m.op # "view"
      BY <2>1, <2>2, IdleAgain
    <3> QED
      BY <1>2, <1>6, <2>1, <3>1, StaysQuiet
  <2>3. ASSUME NEW step \in {"insert", "check", "find_override"}, after = [l EXCEPT !.step = step],
               step = "insert" <=> l.op = "create",
               step = "find_override" => l.as \in Tenants /\ Dictionary!IsPlatforms(l.entry)
        PROVE  DictionaryInv'
    <3>1. DOMAIN l = EditorFields /\ m = [[l EXCEPT !.step = step] EXCEPT !.at = Nil, !.depth = 0]
      BY <1>3, <2>1, <2>3
    <3>2. SameRequest(m, l) /\ m.step = step
      BY ONLY <3>1 DEF SameRequest, EditorFields
    <3>3. EditorFits(m) /\ m.op # "view"
      BY <1>2, <2>3, <3>2 DEF SameRequest, EditorFits, ViewingSteps, UndoingSteps, ForkingSteps
    <3> QED
      BY <1>2, <1>6, <2>1, <3>3, StaysQuiet
  <2>4. CASE l.op = "create" /\ after = [l EXCEPT !.step = "insert"]
    BY <2>3, <2>4
  <2>5. CASE l.op # "create" /\ after = Dictionary!Authorised(c)
    BY <1>1, <1>3, <2>2, <2>3, <2>5, AuthorisedCases
  <2> QED
    BY <1>6, <2>4, <2>5
<1>7. PICK after : after = IF l.op = "create" THEN [l EXCEPT !.step = "insert"]
                           ELSE Dictionary!Authorised(c)
  OBVIOUS
<1>8. \/ Dictionary!Ends(c)
      \/ \E x, y : Dictionary!Goes(c, [l EXCEPT !.at = x, !.depth = y])
      \/ Dictionary!Goes(c, IF after = Dictionary!Idle THEN Dictionary!Idle
                            ELSE [after EXCEPT !.at = Nil, !.depth = 0])
  BY <1>1, <1>7 DEF Dictionary!Depth, Dictionary!Local
<1> QED
  BY <1>4, <1>5, <1>6, <1>7, <1>8 DEF Dictionary!Ends

LEMMA FindForkStep ==
  ASSUME Apart, DictionaryInv, NEW c \in Editors, Dictionary!FindOverride(c), Dictionary!Remembers
  PROVE  DictionaryInv'
<1>1. PICK l : l = editor[c]
  OBVIOUS
<1>2. EditorFits(l) /\ l.step = "find_override" /\ Dictionary!Stays
  BY <1>1 DEF DictionaryInv, Dictionary!FindOverride, Dictionary!At
<1>3. DOMAIN l = EditorFields
  BY <1>2 DEF EditorFits
<1>7. PICK row : row = overriding[l.as][l.entry]
  OBVIOUS
<1>4. PICK m : m = IF row = Nil THEN [l EXCEPT !.step = "insert_override"]
                   ELSE [[l EXCEPT !.step = "check"] EXCEPT !.own = row.id, !.row = row]
  OBVIOUS
<1>8. Dictionary!Goes(c, m)
  BY <1>1, <1>4, <1>7 DEF Dictionary!FindOverride, Dictionary!Local
<1>5. SameRequest(m, l) /\ m.step \in {"insert_override", "check"}
  BY ONLY <1>3, <1>4 DEF SameRequest, EditorFields
<1>6. EditorFits(m) /\ m.op # "view"
  BY <1>2, <1>5 DEF SameRequest, EditorFits, ViewingSteps, UndoingSteps, ForkingSteps
<1> QED
  BY <1>2, <1>6, <1>8, StaysQuiet

LEMMA CheckEntryStep ==
  ASSUME Apart, DictionaryInv, NEW c \in Editors, Dictionary!Check(c), Dictionary!Remembers
  PROVE  DictionaryInv'
<1>1. PICK l : l = editor[c]
  OBVIOUS
<1>2. EditorFits(l) /\ l.step = "check" /\ Dictionary!Stays
  BY <1>1 DEF DictionaryInv, Dictionary!Check, Dictionary!At
<1>3. CASE Dictionary!Ends(c)
  BY <1>2, <1>3, EndsQuietly
<1>4. CASE Dictionary!Goes(c, Dictionary!Local(c, "write"))
  <2>1. DOMAIN l = EditorFields
    BY <1>2 DEF EditorFits
  <2>2. PICK m : m = [l EXCEPT !.step = "write"]
    OBVIOUS
  <2>3. SameRequest(m, l) /\ m.step = "write"
    BY ONLY <2>1, <2>2 DEF SameRequest, EditorFields
  <2>4. EditorFits(m) /\ m.op # "view"
    BY <1>2, <2>3 DEF SameRequest, EditorFits, ViewingSteps, UndoingSteps, ForkingSteps
  <2> QED
    BY <1>1, <1>2, <1>4, <2>2, <2>4, StaysQuiet DEF Dictionary!Local
<1> QED
  BY <1>3, <1>4 DEF Dictionary!Check

----------------------------------------------------------------------------
(* Dictionaries: changes *)

\* A request ends or goes on after it changed rows of which none changed hands.
LEMMA ChangeEdit ==
  ASSUME DictionaryInv, NEW c \in Editors, NEW m, Dictionary!Goes(c, m), Dictionary!Remembers,
         EntriesFit', OverridesArePlatforms', OwnersStay, EditorFits(m), m.op # "view"
  PROVE  DictionaryInv'
<1>1. EditorFits(m)'
  BY EditorStillFits
<1>2. PICK kept : kept = steady'[c]
  OBVIOUS
<1>3. ViewFits(m, kept)'
  BY DEF ViewFits
<1> QED
  BY <1>1, <1>2, <1>3, EditorGoes

\* The platform's rows stay, and who overrides only overrides them.
LEMMA OverrideEdit ==
  ASSUME DictionaryInv, NEW c \in Editors, NEW m, Dictionary!Goes(c, m), Dictionary!Remembers,
         UNCHANGED base, EditorFits(m), m.op # "view",
         NEW s, NEW k, NEW row,
         overriding' = overriding \/ overriding' = [overriding EXCEPT ![s] = [@ EXCEPT ![k] = row]],
         s \in Tenants /\ k \in Dictionary!Entered /\ row # Nil =>
           IsOverriding(row) /\ Dictionary!IsPlatforms(k)
  PROVE  DictionaryInv'
<1>1. OwnersStay /\ \A e : Dictionary!IsPlatforms(e)' <=> Dictionary!IsPlatforms(e)
  BY DEF OwnersStay, Dictionary!IsPlatforms, Dictionary!IsOwn, Dictionary!Exists
<1>2. /\ overriding = [t \in Tenants |-> overriding[t]]
      /\ \A t \in Tenants : overriding[t] = [e \in Dictionary!Entered |-> overriding[t][e]]
  BY DEF DictionaryInv, EntriesFit
<1>3. /\ overriding' = [t \in Tenants |-> overriding'[t]]
      /\ \A t \in Tenants : overriding'[t] = IF t = s /\ overriding' # overriding
                                             THEN [overriding[t] EXCEPT ![k] = row] ELSE overriding[t]
  BY <1>2
<1>4. \A t \in Tenants : overriding'[t] = [e \in Dictionary!Entered |-> overriding'[t][e]]
  BY <1>2, <1>3
<1>5. overriding' = [t \in Tenants |-> [e \in Dictionary!Entered |-> overriding'[t][e]]]
  BY <1>3, <1>4
<1>6. \A t \in Tenants, e \in Dictionary!Entered :
        overriding'[t][e] = overriding[t][e] \/ (t = s /\ e = k /\ overriding'[t][e] = row)
  <2> SUFFICES ASSUME NEW t \in Tenants, NEW e \in Dictionary!Entered, overriding'[t][e] # overriding[t][e]
               PROVE  t = s /\ e = k /\ overriding'[t][e] = row
    OBVIOUS
  <2>1. t = s /\ overriding'[t] = [overriding[t] EXCEPT ![k] = row]
    BY <1>3
  <2> QED
    BY <1>2, <2>1
<1>7. EntriesFit'
  BY <1>5, <1>6 DEF DictionaryInv, EntriesFit
<1>8. OverridesArePlatforms'
  BY <1>1, <1>6 DEF DictionaryInv, OverridesArePlatforms
<1> QED
  BY <1>1, <1>7, <1>8, ChangeEdit

LEMMA ChangedRows ==
  ASSUME NEW c \in Editors, editor[c].parent \in Dictionary!Parents, editor[c].seen \in Nat, NEW row
  PROVE  /\ row \in Dictionary!BaseRow =>
              /\ Dictionary!Changed(c, row) \in Dictionary!BaseRow
              /\ Dictionary!Changed(c, row).owner = row.owner
              /\ Dictionary!Changed(c, row).parent = IF editor[c].moves THEN editor[c].parent ELSE row.parent
         /\ IsOverriding(row) =>
              IsOverriding(Dictionary!Changed(c, row)) /\ Dictionary!Changed(c, row).id = row.id
<1>1. PICK version, parent, active, m :
        /\ version = editor[c].seen + 1
        /\ parent = IF editor[c].moves THEN editor[c].parent ELSE row.parent
        /\ active = IF editor[c].op = "toggle" THEN ~editor[c].row.active ELSE row.active
        /\ m = Dictionary!Changed(c, row)
  OBVIOUS
<1>5. version \in Nat \ {0}
  BY <1>1
<1>6. (~editor[c].row.active) \in BOOLEAN
  OBVIOUS
<1>7. row \in Dictionary!BaseRow => row.active \in BOOLEAN /\ row.parent \in Dictionary!Parents
  BY DEF Dictionary!BaseRow
<1>8. row \in Dictionary!BaseRow => active \in BOOLEAN
  BY <1>1, <1>6, <1>7
<1>9. row \in Dictionary!BaseRow => parent \in Dictionary!Parents
  BY <1>1, <1>7
<1>2. /\ version \in Nat \ {0}
      /\ row \in Dictionary!BaseRow => parent \in Dictionary!Parents /\ active \in BOOLEAN
  BY <1>5, <1>8, <1>9
<1>3. CASE row \in Dictionary!BaseRow
  <2>1. m = [row EXCEPT !.version = version, !.parent = parent, !.active = active]
    BY <1>1, <1>3 DEF Dictionary!Changed, Dictionary!BaseRow
  <2>2. m \in Dictionary!BaseRow /\ m.owner = row.owner /\ m.parent = parent
    BY ONLY <1>2, <1>3, <2>1 DEF Dictionary!BaseRow
  <2>3. DOMAIN row = {"owner", "parent", "active", "version"}
    BY <1>3 DEF Dictionary!BaseRow
  <2>4. ~IsOverriding(row)
    BY ONLY <2>3 DEF IsOverriding
  <2> QED
    BY <1>1, <2>2, <2>4
<1>4. CASE IsOverriding(row)
  <2>1. m = [row EXCEPT !.version = version, !.parent = parent, !.active = active]
    BY <1>1, <1>4 DEF Dictionary!Changed, IsOverriding
  <2>2. IsOverriding(m) /\ m.id = row.id
    BY ONLY <1>2, <1>4, <2>1 DEF IsOverriding
  <2>3. row \notin Dictionary!BaseRow
    <3>1. row \in Dictionary!BaseRow => DOMAIN row = {"owner", "parent", "active", "version"}
      BY DEF Dictionary!BaseRow
    <3> QED
      BY ONLY <1>4, <3>1 DEF IsOverriding
  <2> QED
    BY <1>1, <2>2, <2>3
<1> QED
  BY <1>3, <1>4

\* A row of the base changes its texts or is entered: nobody's row becomes another's.
LEMMA BaseEdit ==
  ASSUME Apart, DictionaryInv, NEW c \in Editors, Dictionary!Ends(c), Dictionary!Remembers,
         UNCHANGED overriding, NEW k \in Dictionary!Entered, NEW row \in Dictionary!BaseRow,
         base' = [base EXCEPT ![k] = row],
         Dictionary!Exists(k) => row.owner = base[k].owner
  PROVE  DictionaryInv'
<1>1. /\ base' \in [Dictionary!Entered -> Dictionary!BaseRow \cup {Nil}]
      /\ base'[k] = row /\ \A e \in Dictionary!Entered \ {k} : base'[e] = base[e]
  BY DEF DictionaryInv, EntriesFit
<1>2. row # Nil
  BY DEF Apart
<1>3. OwnersStay
  BY <1>1, <1>2 DEF OwnersStay, Dictionary!Exists
<1>4. EntriesFit'
  BY <1>1 DEF DictionaryInv, EntriesFit
<1>5. OverridesArePlatforms'
  BY <1>3, OwnedStaysOwned DEF DictionaryInv, OverridesArePlatforms
<1> QED
  BY <1>3, <1>4, <1>5, IdleEditorFits, ChangeEdit DEF Dictionary!Ends

LEMMA WriteEntryStep ==
  ASSUME Apart, DictionaryInv, NEW c \in Editors, Dictionary!Write(c), Dictionary!Remembers
  PROVE  DictionaryInv'
<1>1. PICK l : l = editor[c]
  OBVIOUS
<1>2. EditorFits(l) /\ l.step = "write" /\ Dictionary!Ends(c)
  BY <1>1 DEF DictionaryInv, Dictionary!Write, Dictionary!At
<1>3. /\ l.entry \in Dictionary!Entered /\ l.as \in Dictionary!Actors
      /\ l.parent \in Dictionary!Parents /\ l.seen \in Nat /\ Dictionary!Exists(l.entry)
  BY <1>2 DEF EditorFits, ViewingSteps, UndoingSteps
<1>4. CASE l.own = Nil
  <2>1. base[l.entry] \in Dictionary!BaseRow
    BY <1>3 DEF DictionaryInv, EntriesFit, Dictionary!Exists
  <2>2. PICK row : row = Dictionary!Changed(c, base[l.entry])
    OBVIOUS
  <2>3. row \in Dictionary!BaseRow /\ row.owner = base[l.entry].owner
    BY <1>1, <1>3, <2>1, <2>2, ChangedRows
  <2>4. UNCHANGED overriding /\ base' = [base EXCEPT ![l.entry] = row]
    BY <1>1, <1>4, <2>2 DEF Dictionary!Write, Dictionary!Target
  <2> QED
    BY <1>2, <1>3, <2>3, <2>4, BaseEdit
<1>5. CASE l.own # Nil
  <2>1. PICK target, row : target = Dictionary!Target(c) /\ row = Dictionary!Changed(c, target)
    OBVIOUS
  <2>2. /\ UNCHANGED base
        /\ \/ overriding' = overriding
           \/ target # Nil /\ overriding' = [overriding EXCEPT ![l.as] = [@ EXCEPT ![l.entry] = row]]
    BY <1>1, <1>5, <2>1 DEF Dictionary!Write
  <2>3. ASSUME target # Nil, l.as \in Tenants
        PROVE  IsOverriding(row) /\ Dictionary!IsPlatforms(l.entry)
    <3>1. target = overriding[l.as][l.entry]
      BY <1>1, <1>5, <2>1, <2>3 DEF Dictionary!Target
    <3>2. IsOverriding(target) /\ Dictionary!IsPlatforms(l.entry)
      BY <1>3, <2>3, <3>1 DEF DictionaryInv, EntriesFit, OverridesArePlatforms
    <3> QED
      BY <1>1, <1>3, <2>1, <3>2, ChangedRows
  <2>4. CASE target = Nil
    BY <1>2, <2>2, <2>4, IdleEditorFits, OverrideEdit DEF Dictionary!Ends
  <2>5. CASE target # Nil
    BY <1>2, <2>2, <2>3, <2>5, IdleEditorFits, OverrideEdit DEF Dictionary!Ends
  <2> QED
    BY <2>4, <2>5
<1> QED
  BY <1>4, <1>5

LEMMA InsertForkStep ==
  ASSUME Apart, DictionaryInv, NEW c \in Editors, Dictionary!InsertOverride(c), Dictionary!Remembers
  PROVE  DictionaryInv'
<1>1. PICK l : l = editor[c]
  OBVIOUS
<1>2. /\ Dictionary!IsPlatforms(l.entry) /\ Dictionary!Ends(c) /\ UNCHANGED base
  BY <1>1 DEF DictionaryInv, EditorFits, Dictionary!InsertOverride, Dictionary!At, ForkingSteps
<1>3. PICK active, parent, row :
        /\ active = (l.op # "toggle")
        /\ parent = IF l.moves THEN l.parent ELSE l.row.parent
        /\ row = [id |-> Dictionary!NewId, version |-> 1, active |-> active, parent |-> parent]
  OBVIOUS
<1>4. IsOverriding(row)
  BY ONLY <1>3 DEF IsOverriding
<1>5. \/ overriding' = overriding
      \/ overriding' = [overriding EXCEPT ![l.as] = [@ EXCEPT ![l.entry] = row]]
  BY <1>1, <1>3 DEF Dictionary!InsertOverride
<1> QED
  BY <1>2, <1>4, <1>5, IdleEditorFits, OverrideEdit DEF Dictionary!Ends

LEMMA InsertEntryStep ==
  ASSUME Apart, DictionaryInv, NEW c \in Editors, Dictionary!Insert(c), Dictionary!Remembers
  PROVE  DictionaryInv'
<1>1. PICK l : l = editor[c]
  OBVIOUS
<1>2. /\ l.entry \in Dictionary!Entered /\ l.as \in Dictionary!Actors /\ l.parent \in Dictionary!Parents
      /\ Dictionary!Ends(c) /\ UNCHANGED overriding
  BY <1>1 DEF DictionaryInv, EditorFits, ViewingSteps, UndoingSteps, Dictionary!Insert, Dictionary!At
<1>3. PICK row : row = [owner |-> l.as, parent |-> l.parent, active |-> TRUE, version |-> 1]
  OBVIOUS
<1>4. row \in Dictionary!BaseRow
  BY <1>2, <1>3 DEF Dictionary!BaseRow
<1>5. CASE Dictionary!Exists(l.entry)
  <2>1. UNCHANGED <<base, overriding>>
    BY <1>1, <1>2, <1>5 DEF Dictionary!Insert
  <2> QED
    BY <1>2, <2>1, IdleEditorFits, QuietEdit DEF Dictionary!Ends
<1>6. CASE ~Dictionary!Exists(l.entry)
  <2>1. base' = [base EXCEPT ![l.entry] = row]
    BY <1>1, <1>3, <1>6 DEF Dictionary!Insert
  <2> QED
    BY <1>2, <1>4, <1>6, <2>1, BaseEdit
<1> QED
  BY <1>5, <1>6

LEMMA UndoingFits ==
  ASSUME NEW l, EditorFits(l), l.step \in UndoingSteps, NEW m, SameRequest(m, l),
         m.step \in UndoingSteps
  PROVE  EditorFits(m) /\ m.op # "view"
BY DEF SameRequest, EditorFits, ViewingSteps, UndoingSteps, ForkingSteps

LEMMA FindDoomedStep ==
  ASSUME Apart, DictionaryInv, NEW c \in Editors, Dictionary!FindDoomed(c), Dictionary!Remembers
  PROVE  DictionaryInv'
<1>1. PICK l : l = editor[c]
  OBVIOUS
<1>2. EditorFits(l) /\ l.step = "find_doomed" /\ Dictionary!Stays /\ DOMAIN l = EditorFields
  BY <1>1 DEF DictionaryInv, EditorFits, Dictionary!FindDoomed, Dictionary!At
<1>3. CASE Dictionary!Ends(c)
  BY <1>2, <1>3, EndsQuietly
<1>4. ASSUME NEW m, NEW x, Dictionary!Goes(c, m), m = [[l EXCEPT !.step = "drop"] EXCEPT !.at = x]
      PROVE  DictionaryInv'
  <2>1. DOMAIN l = EditorFields
    BY <1>2
  <2>2. SameRequest(m, l) /\ m.step = "drop"
    BY ONLY <1>4, <2>1 DEF SameRequest, EditorFields
  <2>3. EditorFits(m) /\ m.op # "view"
    BY <1>2, <2>2, UndoingFits DEF UndoingSteps
  <2> QED
    BY <1>2, <1>4, <2>3, StaysQuiet
<1> QED
  BY <1>1, <1>3, <1>4 DEF Dictionary!FindDoomed, Dictionary!Local

LEMMA DropEntryStep ==
  ASSUME Apart, DictionaryInv, NEW c \in Editors, Dictionary!Drop(c), Dictionary!Remembers
  PROVE  DictionaryInv'
<1>1. PICK l : l = editor[c]
  OBVIOUS
<1>2. EditorFits(l) /\ l.step = "drop" /\ UNCHANGED base /\ DOMAIN l = EditorFields
  BY <1>1 DEF DictionaryInv, EditorFits, Dictionary!Drop, Dictionary!At
<1>3. \/ overriding' = overriding
      \/ overriding' = [overriding EXCEPT ![l.as] = [@ EXCEPT ![l.at[1]] = Nil]]
  BY <1>1 DEF Dictionary!Drop
<1>4. CASE Dictionary!Ends(c)
  BY <1>2, <1>3, <1>4, IdleEditorFits, OverrideEdit DEF Dictionary!Ends
<1>5. ASSUME NEW m, NEW x, NEW step \in UndoingSteps, Dictionary!Goes(c, m),
             m = [[l EXCEPT !.step = step] EXCEPT !.at = Nil, !.doomed = x]
      PROVE  DictionaryInv'
  <2>1. DOMAIN l = EditorFields
    BY <1>2
  <2>2. SameRequest(m, l) /\ m.step = step
    BY ONLY <1>5, <2>1 DEF SameRequest, EditorFields
  <2>3. EditorFits(m) /\ m.op # "view"
    BY <1>2, <2>2, UndoingFits DEF UndoingSteps
  <2> QED
    BY <1>2, <1>3, <1>5, <2>3, OverrideEdit
<1> QED
  BY <1>1, <1>4, <1>5 DEF Dictionary!Drop, Dictionary!Local, UndoingSteps

LEMMA ListOverridesStep ==
  ASSUME Apart, DictionaryInv, NEW c \in Editors, Dictionary!ListOverrides(c), Dictionary!Remembers
  PROVE  DictionaryInv'
<1>1. PICK l : l = editor[c]
  OBVIOUS
<1>2. EditorFits(l) /\ l.step = "list_overrides" /\ Dictionary!Stays /\ DOMAIN l = EditorFields
  BY <1>1 DEF DictionaryInv, EditorFits, Dictionary!ListOverrides, Dictionary!At
<1>3. CASE Dictionary!Ends(c)
  BY <1>2, <1>3, EndsQuietly
<1>4. ASSUME NEW m, NEW x, Dictionary!Goes(c, m), m = [[l EXCEPT !.step = "find_doomed"] EXCEPT !.doomed = x]
      PROVE  DictionaryInv'
  <2>1. DOMAIN l = EditorFields
    BY <1>2
  <2>2. SameRequest(m, l) /\ m.step = "find_doomed"
    BY ONLY <1>4, <2>1 DEF SameRequest, EditorFields
  <2>3. EditorFits(m) /\ m.op # "view"
    BY <1>2, <2>2, UndoingFits DEF UndoingSteps
  <2> QED
    BY <1>2, <1>4, <2>3, StaysQuiet
<1> QED
  BY <1>1, <1>3, <1>4 DEF Dictionary!ListOverrides, Dictionary!Local

----------------------------------------------------------------------------
(* Dictionaries: views *)

\* A view goes on: it keeps of what it remembers what is visible now.
LEMMA ViewGoes ==
  ASSUME DictionaryInv, NEW c \in Editors, NEW m, Dictionary!Goes(c, m), Dictionary!Remembers,
         UNCHANGED <<base, overriding>>, EditorFits(m), m.op = "view",
         NEW kept,
         kept = IF Dictionary!At(c, "idle") THEN Dictionary!Visible(m.as, m.entry)
                ELSE steady[c] \cap Dictionary!Visible(m.as, m.entry),
         ViewFits(m, kept)
  PROVE  DictionaryInv'
<1>1. EntriesFit' /\ OwnersStay
  BY DEF DictionaryInv, EntriesFit, OwnersStay, Dictionary!Exists
<1>2. OverridesArePlatforms'
  BY DEF DictionaryInv, OverridesArePlatforms, Dictionary!IsPlatforms, Dictionary!IsOwn, Dictionary!Exists
<1>3. EditorFits(m)'
  BY <1>1, EditorStillFits
<1>4. Dictionary!Visible(m.as, m.entry)' = Dictionary!Visible(m.as, m.entry)
  BY DEF Dictionary!Visible, Dictionary!IsPlatforms, Dictionary!IsOwn, Dictionary!Exists
<1>5. editor'[c] = m
  BY DEF Dictionary!Goes, DictionaryInv
<1>6. Dictionary!Visible(editor[c].as, editor[c].entry)' = Dictionary!Visible(m.as, m.entry)'
  BY <1>5
<1>7. kept = steady'[c]
  <2>1. editor'[c].op = "view"
    BY <1>5
  <2>2. steady'[c] = IF Dictionary!At(c, "idle")
                     THEN Dictionary!Visible(editor[c].as, editor[c].entry)'
                     ELSE steady[c] \cap Dictionary!Visible(editor[c].as, editor[c].entry)'
    BY <2>1 DEF Dictionary!Remembers
  <2> QED
    BY <1>4, <1>6, <2>2
<1>8. ViewFits(m, kept)'
  <2>1. m.op = "view" => kept \subseteq kept \cap Dictionary!Visible(m.as, m.entry)'
    BY <1>4 DEF ViewFits
  <2> QED
    BY <1>1, <2>1, ViewStillFits
<1> QED
  BY <1>1, <1>2, <1>3, <1>7, <1>8, EditorGoes

LEMMA BeginViewStep ==
  ASSUME Apart, DictionaryInv, NEW c \in Editors, Dictionary!BeginView(c), Dictionary!Remembers
  PROVE  DictionaryInv'
<1>1. PICK t \in Tenants, listing \in Types \cup {Nil} :
        Dictionary!Begin(c, Dictionary!Starts("view", "read_overrides", t, listing))
  BY DEF Dictionary!BeginView
<1>2. PICK i, m : i = Dictionary!Idle /\ m = Dictionary!Starts("view", "read_overrides", t, listing)
  OBVIOUS
<1>3. DOMAIN i = EditorFields
  BY ONLY <1>2, IdleFields
<1>4. m = [i EXCEPT !.op = "view", !.step = "read_overrides", !.as = t, !.entry = listing]
  BY <1>2 DEF Dictionary!Starts
<1>5. /\ DOMAIN m = EditorFields /\ m.op = "view" /\ m.step = "read_overrides" /\ m.as = t
      /\ m.entry = listing
  BY ONLY <1>3, <1>4 DEF EditorFields
<1>6. EditorFits(m)
  BY <1>5 DEF EditorFits, ViewingSteps, UndoingSteps, ForkingSteps
<1>7. Dictionary!Goes(c, m) /\ UNCHANGED <<base, overriding>> /\ Dictionary!At(c, "idle")
  BY <1>1, <1>2 DEF Dictionary!Begin, Dictionary!tables
<1>8. PICK kept : kept = Dictionary!Visible(m.as, m.entry)
  OBVIOUS
<1>9. ViewFits(m, kept)
  BY <1>5, <1>8 DEF ViewFits
<1> QED
  BY <1>5, <1>6, <1>7, <1>8, <1>9, ViewGoes

LEMMA ReadForksStep ==
  ASSUME Apart, DictionaryInv, NEW c \in Editors, Dictionary!ReadOverrides(c), Dictionary!Remembers
  PROVE  DictionaryInv'
<1>1. PICK l : l = editor[c]
  OBVIOUS
<1>2. /\ EditorFits(l) /\ ViewFits(l, steady[c]) /\ l.step = "read_overrides"
      /\ UNCHANGED <<base, overriding>> /\ ~Dictionary!At(c, "idle")
  BY <1>1 DEF DictionaryInv, Dictionary!ReadOverrides, Dictionary!At, Dictionary!Stays, Dictionary!tables
<1>3. DOMAIN l = EditorFields /\ l.op = "view" /\ l.as \in Tenants
  BY <1>2 DEF EditorFits, ViewingSteps
<1>4. PICK found : found = {e \in Dictionary!Listed(l.entry) : overriding[l.as][e] # Nil}
  OBVIOUS
<1>5. PICK m : m = [l EXCEPT !.step = "read_own", !.overrides = found]
  OBVIOUS
<1>6. SameRequest(m, l) /\ m.step = "read_own" /\ m.overrides = found
  BY ONLY <1>3, <1>5 DEF SameRequest, EditorFields
<1>7. EditorFits(m)
  BY <1>3, <1>6 DEF SameRequest, EditorFits, ViewingSteps, UndoingSteps, ForkingSteps
<1>8. PICK kept : kept = steady[c] \cap Dictionary!Visible(m.as, m.entry)
  OBVIOUS
<1>9. \A e \in found : e \in Dictionary!Entered /\ Dictionary!IsPlatforms(e)
  BY <1>3, <1>4, ListedEntries DEF DictionaryInv, OverridesArePlatforms
<1>10. \A e : <<"override", e>> \in kept => e \in found
  BY <1>4, <1>6, <1>8, VisibleRows DEF SameRequest
<1>11. ViewFits(m, kept)
  BY <1>6, <1>8, <1>9, <1>10 DEF ViewFits
<1>12. Dictionary!Goes(c, m)
  BY <1>1, <1>4, <1>5 DEF Dictionary!ReadOverrides
<1> QED
  BY <1>2, <1>3, <1>6, <1>7, <1>8, <1>11, <1>12, ViewGoes DEF SameRequest

LEMMA ReadOwnStep ==
  ASSUME Apart, DictionaryInv, NEW c \in Editors, Dictionary!ReadOwn(c), Dictionary!Remembers
  PROVE  DictionaryInv'
<1>1. PICK l : l = editor[c]
  OBVIOUS
<1>2. /\ EditorFits(l) /\ ViewFits(l, steady[c]) /\ l.step = "read_own"
      /\ UNCHANGED <<base, overriding>> /\ ~Dictionary!At(c, "idle")
  BY <1>1 DEF DictionaryInv, Dictionary!ReadOwn, Dictionary!At, Dictionary!Stays, Dictionary!tables
<1>3. DOMAIN l = EditorFields /\ l.op = "view" /\ l.as \in Tenants
  BY <1>2 DEF EditorFits, ViewingSteps
<1>4. PICK found : found = {e \in Dictionary!Listed(l.entry) : Dictionary!IsOwn(l.as, e)}
  OBVIOUS
<1>5. PICK m : m = [l EXCEPT !.step = "read_base", !.owned = found]
  OBVIOUS
<1>6. SameRequest(m, l) /\ m.step = "read_base" /\ m.owned = found /\ m.overrides = l.overrides
  BY ONLY <1>3, <1>5 DEF SameRequest, EditorFields
<1>7. EditorFits(m)
  BY <1>3, <1>6 DEF SameRequest, EditorFits, ViewingSteps, UndoingSteps, ForkingSteps
<1>8. PICK kept : kept = steady[c] \cap Dictionary!Visible(m.as, m.entry)
  OBVIOUS
<1>9. \A e \in found : e \in Dictionary!Entered /\ Dictionary!IsOwn(m.as, e)
  BY <1>4, <1>6, ListedEntries DEF SameRequest
<1>10. \A e : <<"own", e>> \in kept => e \in found
  BY <1>4, <1>6, <1>8, VisibleRows DEF SameRequest
<1>11. ViewFits(m, kept)
  BY <1>2, <1>3, <1>6, <1>8, <1>9, <1>10 DEF ViewFits
<1>12. Dictionary!Goes(c, m)
  BY <1>1, <1>4, <1>5 DEF Dictionary!ReadOwn
<1> QED
  BY <1>2, <1>3, <1>6, <1>7, <1>8, <1>11, <1>12, ViewGoes DEF SameRequest

LEMMA ReadBaseStep ==
  ASSUME Apart, DictionaryInv, NEW c \in Editors, Dictionary!ReadBase(c), Dictionary!Remembers
  PROVE  DictionaryInv'
<1>1. PICK l : l = editor[c]
  OBVIOUS
<1>2. /\ EditorFits(l) /\ ViewFits(l, steady[c]) /\ l.step = "read_base"
      /\ UNCHANGED <<base, overriding>> /\ ~Dictionary!At(c, "idle")
  BY <1>1 DEF DictionaryInv, Dictionary!ReadBase, Dictionary!At, Dictionary!Stays, Dictionary!tables
<1>3. DOMAIN l = EditorFields /\ l.op = "view" /\ l.as \in Tenants
  BY <1>2 DEF EditorFits, ViewingSteps
<1>4. PICK found : found = Dictionary!ActivePlatforms(c) \ l.overrides
  OBVIOUS
<1>5. PICK m : m = [[l EXCEPT !.step = "shown"] EXCEPT !.platforms = found]
  OBVIOUS
<1>6. /\ SameRequest(m, l) /\ m.step = "shown" /\ m.platforms = found /\ m.overrides = l.overrides
      /\ m.owned = l.owned
  BY ONLY <1>3, <1>5 DEF SameRequest, EditorFields
<1>7. EditorFits(m)
  BY <1>3, <1>6 DEF SameRequest, EditorFits, ViewingSteps, UndoingSteps, ForkingSteps
<1>8. PICK kept : kept = steady[c] \cap Dictionary!Visible(m.as, m.entry)
  OBVIOUS
<1>9. \A e \in found : e \in Dictionary!Entered /\ Dictionary!IsPlatforms(e) /\ e \notin m.overrides
  BY <1>1, <1>4, <1>6, ListedEntries DEF Dictionary!ActivePlatforms
<1>10. \A e : <<"platform", e>> \in kept => e \in m.overrides \cup found
  BY <1>1, <1>4, <1>6, <1>8, VisibleRows DEF SameRequest, Dictionary!ActivePlatforms
<1>11. ViewFits(m, kept)
  <2>1. /\ \A e \in l.overrides : e \in Dictionary!Entered /\ Dictionary!IsPlatforms(e)
        /\ \A e \in l.owned : e \in Dictionary!Entered /\ Dictionary!IsOwn(l.as, e)
        /\ \A e : <<"override", e>> \in steady[c] => e \in l.overrides
        /\ \A e : <<"own", e>> \in steady[c] => e \in l.owned
    BY <1>2, <1>3 DEF ViewFits
  <2>2. kept \subseteq steady[c] /\ kept \subseteq Dictionary!Visible(m.as, m.entry)
    BY <1>8
  <2> QED
    BY <1>6, <1>9, <1>10, <2>1, <2>2 DEF ViewFits, SameRequest
<1>12. Dictionary!Goes(c, m)
  BY <1>1, <1>4, <1>5 DEF Dictionary!ReadBase, Dictionary!Local
<1> QED
  BY <1>2, <1>3, <1>6, <1>7, <1>8, <1>11, <1>12, ViewGoes DEF SameRequest

----------------------------------------------------------------------------
(* Dictionaries beside the other components *)

LEMMA CloseStep ==
  ASSUME Apart, DictionaryInv, NEW c \in Editors, Dictionary!Close(c), Dictionary!Remembers
  PROVE  DictionaryInv'
BY EndsQuietly DEF Dictionary!Close

LEMMA DictionaryKeeps ==
  ASSUME Apart, DictionaryInv, Dictionary!Next
  PROVE  DictionaryInv'
<1>1. PICK c \in Editors :
        /\ Dictionary!Begins(c) \/ Dictionary!Checks(c) \/ Dictionary!Changes(c) \/ Dictionary!Views(c)
        /\ Dictionary!Remembers
  BY DEF Dictionary!Next
<1>2. CASE Dictionary!Begins(c)
  BY <1>1, <1>2, BeginUpdateStep, BeginResetStep, BeginCreateStep, BeginViewStep DEF Dictionary!Begins
<1>3. CASE Dictionary!Checks(c)
  BY <1>1, <1>3, LoadStep, CircularStep, DepthStep, FindForkStep, CheckEntryStep DEF Dictionary!Checks
<1>4. CASE Dictionary!Changes(c)
  BY <1>1, <1>4, WriteEntryStep, InsertForkStep, InsertEntryStep, FindDoomedStep, DropEntryStep,
     ListOverridesStep DEF Dictionary!Changes
<1>5. CASE Dictionary!Views(c)
  BY <1>1, <1>5, ReadForksStep, ReadOwnStep, ReadBaseStep, CloseStep DEF Dictionary!Views
<1> QED
  BY <1>1, <1>2, <1>3, <1>4, <1>5

LEMMA DictionaryStarts ==
  ASSUME Apart, Dictionary!Init
  PROVE  DictionaryInv
<1>1. \A e \in Dictionary!Entered \cap Seeded : Dictionary!FirstParent(e) \in Dictionary!Parents
  BY DEF Apart, Dictionary!FirstParent, Dictionary!Parents
<1>2. base \in [Dictionary!Entered -> Dictionary!BaseRow \cup {Nil}]
  <2>1. \A e \in Dictionary!Entered \cap Seeded :
          [owner |-> Platform, parent |-> Dictionary!FirstParent(e), active |-> TRUE, version |-> 1]
            \in Dictionary!BaseRow
    BY <1>1 DEF Dictionary!BaseRow, Dictionary!Actors
  <2> QED
    BY <2>1 DEF Dictionary!Init
<1>3. ASSUME NEW t \in Tenants, NEW e \in Dictionary!Entered, overriding[t][e] # Nil
      PROVE  IsOverriding(overriding[t][e]) /\ Dictionary!IsPlatforms(e)
  <2>1. e \in Overridden
    BY <1>3 DEF Dictionary!Init
  <2>2. overriding[t][e] =
          [id |-> 0, parent |-> Dictionary!FirstParent(e), active |-> TRUE, version |-> 1]
    BY <2>1 DEF Dictionary!Init
  <2>3. IsOverriding(overriding[t][e])
    BY <2>2 DEF IsOverriding
  <2>4. base[e] = [owner |-> Platform, parent |-> Dictionary!FirstParent(e), active |-> TRUE, version |-> 1]
    BY <2>1 DEF Dictionary!Init, Apart
  <2>5. base[e] \in Dictionary!BaseRow
    BY <1>1, <2>1, <2>4 DEF Apart, Dictionary!BaseRow, Dictionary!Actors
  <2>6. base[e] # Nil
    BY <2>5 DEF Apart
  <2>7. base[e].owner = Platform
    BY ONLY <2>4
  <2> QED
    BY <2>3, <2>6, <2>7 DEF Dictionary!IsPlatforms, Dictionary!IsOwn, Dictionary!Exists
<1>4. overriding = [t \in Tenants |-> [e \in Dictionary!Entered |-> overriding[t][e]]]
  BY DEF Dictionary!Init
<1>5. EntriesFit /\ OverridesArePlatforms
  BY <1>2, <1>3, <1>4 DEF EntriesFit, OverridesArePlatforms
<1>6. \A c \in Editors : EditorFits(editor[c]) /\ ViewFits(editor[c], steady[c])
  BY IdleEditorFits DEF Dictionary!Init, ViewFits
<1> QED
  BY <1>5, <1>6 DEF DictionaryInv, Dictionary!Init

LEMMA ViewsHoldWhatStayed ==
  ASSUME Apart, DictionaryInv
  PROVE  ViewsMissNothing
<1> SUFFICES ASSUME NEW c \in Editors, Dictionary!At(c, "shown"), NEW v, v = editor[c]
             PROVE  /\ {seen[2] : seen \in steady[c]} \subseteq v.overrides \cup v.owned \cup v.platforms
                    /\ v.overrides \cap (v.owned \cup v.platforms) = {}
                    /\ v.owned \cap v.platforms = {}
  BY DEF ViewsMissNothing, Dictionary!ViewsMissNothing
<1>1. EditorFits(v) /\ ViewFits(v, steady[c]) /\ v.step = "shown"
  BY DEF DictionaryInv, Dictionary!At
<1>2. v.op = "view" /\ v.as \in Tenants
  BY <1>1 DEF EditorFits, ViewingSteps
<1>3. /\ steady[c] \subseteq Dictionary!Visible(v.as, v.entry)
      /\ \A e \in v.overrides : Dictionary!IsPlatforms(e)
      /\ \A e \in v.owned : Dictionary!IsOwn(v.as, e)
      /\ \A e \in v.platforms : Dictionary!IsPlatforms(e) /\ e \notin v.overrides
      /\ \A e : <<"override", e>> \in steady[c] => e \in v.overrides
      /\ \A e : <<"own", e>> \in steady[c] => e \in v.owned
      /\ \A e : <<"platform", e>> \in steady[c] => e \in v.overrides \cup v.platforms
  BY <1>1, <1>2 DEF ViewFits
<1>4. ASSUME NEW seen \in steady[c]
      PROVE  seen[2] \in v.overrides \cup v.owned \cup v.platforms
  <2>1. PICK e : seen = <<"override", e>> \/ seen = <<"own", e>> \/ seen = <<"platform", e>>
    BY <1>3, VisibleRows
  <2>2. seen[2] = e
    BY <2>1
  <2> QED
    BY <1>3, <2>1, <2>2
<1>5. \A e : ~(Dictionary!IsPlatforms(e) /\ Dictionary!IsOwn(v.as, e))
  BY <1>2 DEF Apart, Dictionary!IsPlatforms, Dictionary!IsOwn
<1> QED
  BY <1>3, <1>4, <1>5

LEMMA DictionaryStays ==
  ASSUME DictionaryInv, [NextOfOne]_allVars
  PROVE  DictionaryInv'
<1>1. CASE Dictionary!Next
  BY <1>1, ApartAssumption, DictionaryKeeps DEF Apart
<1>2. CASE UNCHANGED dictionaryVars
  <2>1. EntriesFit'
    BY <1>2 DEF dictionaryVars, DictionaryInv, EntriesFit
  <2>2. OverridesArePlatforms'
    BY <1>2 DEF dictionaryVars, DictionaryInv, OverridesArePlatforms, Dictionary!IsPlatforms,
       Dictionary!IsOwn, Dictionary!Exists
  <2>3. OwnersStay
    BY <1>2 DEF dictionaryVars, OwnersStay, Dictionary!Exists
  <2>4. ASSUME NEW d \in Editors
        PROVE  EditorFits(editor[d])' /\ ViewFits(editor[d], steady[d])'
    <3>1. PICK l, left : l = editor[d] /\ left = steady[d]
      OBVIOUS
    <3>2. EditorFits(l)'
      BY <2>3, <3>1, EditorStillFits DEF DictionaryInv
    <3>3. Dictionary!Visible(l.as, l.entry)' = Dictionary!Visible(l.as, l.entry)
      BY <1>2 DEF dictionaryVars, Dictionary!Visible, Dictionary!IsPlatforms, Dictionary!IsOwn,
         Dictionary!Exists
    <3>4. ViewFits(l, left)
      BY <3>1 DEF DictionaryInv
    <3>5. l.op = "view" => left \subseteq left \cap Dictionary!Visible(l.as, l.entry)'
      BY <3>3, <3>4 DEF ViewFits
    <3>6. ViewFits(l, left)'
      BY <2>3, <3>4, <3>5, ViewStillFits
    <3>7. editor'[d] = l /\ steady'[d] = left
      BY <1>2, <3>1 DEF dictionaryVars
    <3> QED
      BY <3>2, <3>6, <3>7
  <2> QED
    BY <1>2, <2>1, <2>2, <2>4 DEF DictionaryInv, dictionaryVars
<1> QED
  BY <1>1, <1>2 DEF NextOfOne, Translating, allVars, dictionaryVars

\* DictionaryInv says of a view between its queries that what it has read holds the rows read that
\* stayed visible; it stands on rows keeping their owners and on overrides being of the platform's
\* rows, whatever edits, resets and creations come between.
THEOREM ViewsListWhatStayed == SpecOfOne => []ViewsMissNothing
<1>1. InitOfOne => DictionaryInv
  BY ApartAssumption, DictionaryStarts DEF InitOfOne, Apart
<1>2. DictionaryInv /\ [NextOfOne]_allVars => DictionaryInv'
  BY DictionaryStays
<1>3. DictionaryInv => ViewsMissNothing
  BY ApartAssumption, ViewsHoldWhatStayed DEF Apart
<1> QED
  BY <1>1, <1>2, <1>3, PTL DEF SpecOfOne

----------------------------------------------------------------------------
(* Dictionaries: ids, parents and moves *)

\* The ids a request holds, and those of the live overrides.
IdsOf(local) == {local.own} \cup {doomed[2] : doomed \in local.doomed}

LiveIds ==
  {overriding[pair[1]][pair[2]].id :
     pair \in {other \in Tenants \X Dictionary!Entered : overriding[other[1]][other[2]] # Nil}}

Busy == {c \in Editors : ~Dictionary!At(c, "idle")}

\* An id that is held or live is one of ids.
IdsAmong(ids) ==
  LiveIds \subseteq ids /\ \A c \in Editors : IdsOf(editor[c]) \subseteq ids \cup {Nil}

\* Every id was made by a request that has ended, but for the first: there is always another one.
IdsCounted ==
  /\ edits \in 0..EditBound /\ IsFiniteSet(Busy)
  /\ \E ids \in SUBSET (0..EditBound) :
       IdsAmong(ids) /\ Cardinality(ids) + Cardinality(Busy) <= edits + 1

MovingSteps ==
  {"load", "circular", "depth", "find_override", "insert_override", "check", "write"}

\* A request names a parent that exists, writes a base row only if it is its own, and resets
\* a tenant's overrides.
TreeFits(local) ==
  /\ local.parent \in Dictionary!Shown
  /\ local.moves => local.op \notin {"create", "reset"} /\ local.step \in MovingSteps
  /\ local.step \in {"check", "write"} /\ local.own = Nil => Dictionary!IsOwn(local.as, local.entry)
  /\ local.step = "circular" => local.at \in Items /\ Dictionary!Exists(local.at)
  /\ (local.step = "load" /\ local.op = "reset") \/ local.step \in UndoingSteps =>
       local.as \in Tenants

\* A move has been up from its parent: it has not met the item that it moves.
WentUp(local, above) ==
  /\ local.entry \notin above /\ local.parent \in above
  /\ \A i \in above : Dictionary!Exists(i) /\ Dictionary!ParentOf(i) \in above \cup {Nil}

\* A move that is still on its way up has met it nowhere below where it is.
GoesUp(local, above) ==
  /\ local.entry \notin above /\ local.parent \in above \cup {local.at}
  /\ \A i \in above :
       Dictionary!Exists(i) /\ Dictionary!ParentOf(i) \in above \cup {local.at, Nil}

Cleared(local) ==
  Dictionary!MovesBase(local) =>
    \/ local.step = "load"
    \/ local.step = "circular" /\ \E above \in SUBSET Items : GoesUp(local, above)
    \/ \E above \in SUBSET Items : WentUp(local, above)

ParentsExist == \A i \in Items : Dictionary!ParentOf(i) \in Dictionary!Shown

OneMove ==
  \A c, d \in Editors : Dictionary!MovesBase(editor[c]) /\ Dictionary!MovesBase(editor[d]) => c = d

TreeInv ==
  /\ IdsCounted /\ ParentsExist
  /\ \A c \in Editors : TreeFits(editor[c])
  /\ tangled \/ (OneMove /\ \A c \in Editors : Cleared(editor[c]))
  /\ ParentsEnd

LEMMA IdsStay ==
  ASSUME Apart, DictionaryInv, IdsCounted, NEW c \in Editors, NEW l, l = editor[c],
         NEW m, Dictionary!Goes(c, m),
         IdsOf(m) \subseteq IdsOf(l) \cup LiveIds \cup {Nil}, LiveIds' \subseteq LiveIds,
         \/ ~Dictionary!At(c, "idle") /\ edits' = edits
         \/ edits < EditBound /\ edits' = edits + 1
  PROVE  IdsCounted'
<1>1. editor'[c] = m /\ \A d \in Editors \ {c} : editor'[d] = editor[d]
  BY DEF Dictionary!Goes, DictionaryInv
<1>2. PICK busy : busy = Busy'
  OBVIOUS
<1>3. busy \subseteq Busy \cup {c} /\ (~Dictionary!At(c, "idle") => busy \subseteq Busy)
  BY <1>1, <1>2 DEF Busy, Dictionary!At
<1>4. IsFiniteSet(Busy) /\ edits \in 0..EditBound
  BY DEF IdsCounted
<1>5. /\ IsFiniteSet(busy) /\ Cardinality(busy) \in Nat /\ Cardinality(Busy) \in Nat
      /\ Cardinality(busy) <= Cardinality(Busy) + 1
      /\ ~Dictionary!At(c, "idle") => Cardinality(busy) <= Cardinality(Busy)
  <2>1. /\ IsFiniteSet(Busy \cup {c}) /\ Cardinality(Busy) \in Nat
        /\ Cardinality(Busy \cup {c}) <= Cardinality(Busy) + 1
    <3>1. Cardinality(Busy) \in Nat
      BY <1>4, FS_CardinalityType
    <3>2. /\ IsFiniteSet(Busy \cup {c})
          /\ Cardinality(Busy \cup {c}) =
               IF c \in Busy THEN Cardinality(Busy) ELSE Cardinality(Busy) + 1
      BY <1>4, FS_AddElement
    <3> QED
      BY <3>1, <3>2
  <2>2. IsFiniteSet(busy) /\ Cardinality(busy) <= Cardinality(Busy \cup {c})
    BY <1>3, <2>1, FS_Subset
  <2>3. Cardinality(busy) \in Nat /\ Cardinality(Busy \cup {c}) \in Nat
    BY <2>1, <2>2, FS_CardinalityType
  <2>4. ~Dictionary!At(c, "idle") => Cardinality(busy) <= Cardinality(Busy)
    BY <1>3, <1>4, FS_Subset
  <2> QED
    BY <2>1, <2>2, <2>3, <2>4
<1>6. edits' \in 0..EditBound /\ EditBound \in Nat
  BY <1>4 DEF Apart
<1>7. PICK ids \in SUBSET (0..EditBound) :
        IdsAmong(ids) /\ Cardinality(ids) + Cardinality(Busy) <= edits + 1
  BY DEF IdsCounted
<1>8. Cardinality(ids) \in Nat
  <2>1. IsFiniteSet(0..EditBound)
    BY <1>6, FS_Interval
  <2> QED
    BY <1>7, <2>1, FS_Subset, FS_CardinalityType
<1>9. Cardinality(ids) + Cardinality(busy) <= edits' + 1
  BY <1>4, <1>5, <1>6, <1>7, <1>8
<1>10. IdsAmong(ids)'
  <2>1. LiveIds' \subseteq ids
    BY <1>7 DEF IdsAmong
  <2>2. ASSUME NEW d \in Editors
        PROVE  IdsOf(editor'[d]) \subseteq ids \cup {Nil}
    BY <1>1, <1>7 DEF IdsAmong
  <2>3. \A d \in Editors : IdsOf(editor[d])' = IdsOf(editor'[d])
    BY DEF IdsOf
  <2> QED
    BY <2>1, <2>2, <2>3 DEF IdsAmong
<1> QED
  BY <1>2, <1>5, <1>6, <1>7, <1>9, <1>10 DEF IdsCounted

\* As many ids are known as requests have ended, and one is left for the request that asks.
LEMMA AnotherId ==
  ASSUME Apart, IdsCounted, NEW c \in Busy,
         NEW ids \in SUBSET (0..EditBound), IdsAmong(ids),
         Cardinality(ids) + Cardinality(Busy) <= edits + 1
  PROVE  Dictionary!NewId \in 0..EditBound
<1>1. EditBound \in Nat /\ edits \in 0..EditBound /\ IsFiniteSet(Busy)
  BY DEF Apart, IdsCounted
<1>2. IsFiniteSet(0..EditBound) /\ Cardinality(0..EditBound) = EditBound + 1
  BY <1>1, FS_Interval
<1>3. IsFiniteSet(ids) /\ Cardinality(ids) \in Nat
  BY <1>2, FS_Subset, FS_CardinalityType
<1>4. Cardinality(Busy) \in Nat \ {0}
  BY <1>1, FS_CardinalityType, FS_EmptySet
<1>5. Cardinality(ids) # EditBound + 1
  BY <1>1, <1>3, <1>4
<1>6. PICK id \in 0..EditBound : id \notin ids
  BY <1>2, <1>5
<1>7. id \notin Dictionary!Named
  <2>1. \A d \in Editors : IdsOf(editor[d]) \subseteq ids \cup {Nil}
    BY DEF IdsAmong
  <2>2. \A d \in Editors : id \notin IdsOf(editor[d])
    BY <1>6, <2>1 DEF Apart
  <2> QED
    BY <2>2 DEF Dictionary!Named, IdsOf
<1> QED
  BY <1>6, <1>7 DEF Dictionary!NewId

LEMMA IdsMade ==
  ASSUME Apart, DictionaryInv, IdsCounted, NEW c \in Editors, ~Dictionary!At(c, "idle"),
         Dictionary!Ends(c), LiveIds' \subseteq LiveIds \cup {Dictionary!NewId}, edits' = edits
  PROVE  IdsCounted' /\ Dictionary!NewId \in 0..EditBound
<1>1. PICK ids \in SUBSET (0..EditBound) :
        IdsAmong(ids) /\ Cardinality(ids) + Cardinality(Busy) <= edits + 1
  BY DEF IdsCounted
<1>2. c \in Busy /\ IsFiniteSet(Busy) /\ edits \in 0..EditBound /\ EditBound \in Nat
  BY DEF Busy, IdsCounted, Apart
<1>3. Dictionary!NewId \in 0..EditBound
  BY <1>1, <1>2, AnotherId
<1>4. PICK idle : idle = Dictionary!Idle
  OBVIOUS
<1>5. idle.own = Nil /\ idle.doomed = {} /\ idle.step = "idle"
  BY ONLY <1>4 DEF Dictionary!Idle
<1>6. editor'[c] = idle /\ \A d \in Editors \ {c} : editor'[d] = editor[d]
  BY <1>4 DEF Dictionary!Goes, Dictionary!Ends, DictionaryInv
<1>7. Busy' = Busy \ {c}
  BY <1>5, <1>6 DEF Busy, Dictionary!At
<1>8. IsFiniteSet(Busy \ {c}) /\ Cardinality(Busy \ {c}) = Cardinality(Busy) - 1
  BY <1>2, FS_RemoveElement
<1>9. PICK more : more = ids \cup {Dictionary!NewId}
  OBVIOUS
<1>10. /\ more \in SUBSET (0..EditBound) /\ Cardinality(more) \in Nat /\ Cardinality(ids) \in Nat
       /\ Cardinality(more) <= Cardinality(ids) + 1
  <2>1. IsFiniteSet(0..EditBound)
    BY <1>2, FS_Interval
  <2>2. IsFiniteSet(ids) /\ Cardinality(ids) \in Nat
    BY <1>1, <2>1, FS_Subset, FS_CardinalityType
  <2>3. IsFiniteSet(more) /\ Cardinality(more) <= Cardinality(ids) + 1
    BY <1>9, <2>2, FS_AddElement
  <2> QED
    BY <1>1, <1>3, <1>9, <2>2, <2>3, FS_CardinalityType
<1>11. Cardinality(Busy) \in Nat
  BY <1>2, FS_CardinalityType
<1>12. Cardinality(more) + Cardinality(Busy \ {c}) <= edits + 1
  BY <1>1, <1>2, <1>8, <1>10, <1>11
<1>13. IdsAmong(more)'
  <2>1. LiveIds' \subseteq more
    BY <1>1, <1>9 DEF IdsAmong
  <2>2. ASSUME NEW d \in Editors
        PROVE  IdsOf(editor'[d]) \subseteq more \cup {Nil}
    <3>1. IdsOf(idle) \subseteq {Nil}
      BY <1>5 DEF IdsOf
    <3> QED
      BY <1>1, <1>6, <1>9, <3>1 DEF IdsAmong
  <2>3. \A d \in Editors : IdsOf(editor[d])' = IdsOf(editor'[d])
    BY DEF IdsOf
  <2> QED
    BY <2>1, <2>2, <2>3 DEF IdsAmong
<1>14. edits' \in 0..EditBound /\ IsFiniteSet(Busy')
  BY <1>2, <1>7, <1>8
<1> QED
  BY <1>3, <1>7, <1>10, <1>12, <1>13, <1>14 DEF IdsCounted
----------------------------------------------------------------------------
(* Dictionaries: what the others' steps leave as it is *)

LEMMA MovedExist ==
  ASSUME NEW l, EditorFits(l), TreeFits(l), l.moves
  PROVE  l.entry \in Dictionary!Entered /\ Dictionary!Exists(l.entry)
BY DEF EditorFits, TreeFits, MovingSteps, ViewingSteps, UndoingSteps

LEMMA MovesStay ==
  ASSUME OwnersStay, NEW l, EditorFits(l), TreeFits(l)
  PROVE  Dictionary!MovesBase(l)' <=> Dictionary!MovesBase(l)
BY MovedExist DEF OwnersStay, Dictionary!MovesBase, Dictionary!IsOwn

LEMMA TreeStillFits ==
  ASSUME OwnersStay, NEW l, EditorFits(l), TreeFits(l)
  PROVE  TreeFits(l)'
<1>1. \A i \in Items : Dictionary!Exists(i) => Dictionary!Exists(i)'
  BY DEF OwnersStay, Dictionary!Entered
<1>2. l.parent \in Dictionary!Shown'
  BY <1>1 DEF TreeFits, Dictionary!Shown
<1>3. l.step \in {"check", "write"} /\ l.own = Nil => Dictionary!IsOwn(l.as, l.entry)'
  BY OwnedStaysOwned DEF EditorFits, TreeFits, ViewingSteps, UndoingSteps
<1> QED
  BY <1>1, <1>2, <1>3 DEF TreeFits

LEMMA ClearedStays ==
  ASSUME OwnersStay, NEW l, EditorFits(l), TreeFits(l), Cleared(l),
         \A i \in Items :
           Dictionary!Exists(i) => Dictionary!ParentOf(i)' \in {Dictionary!ParentOf(i), Nil}
  PROVE  Cleared(l)'
<1>1. \A i \in Items : Dictionary!Exists(i) => Dictionary!Exists(i)'
  BY DEF OwnersStay, Dictionary!Entered
<1>2. \A above \in SUBSET Items : GoesUp(l, above) => GoesUp(l, above)'
  BY <1>1 DEF GoesUp
<1>3. \A above \in SUBSET Items : WentUp(l, above) => WentUp(l, above)'
  BY <1>1 DEF WentUp
<1>4. Dictionary!MovesBase(l)' => Dictionary!MovesBase(l)
  BY MovesStay
<1> QED
  BY <1>2, <1>3, <1>4 DEF Cleared

LEMMA OthersStayInTree ==
  ASSUME DictionaryInv, TreeInv, OwnersStay, NEW c \in Editors, NEW m, Dictionary!Goes(c, m),
         \A i \in Items :
           \/ Dictionary!Exists(i) => Dictionary!ParentOf(i)' \in {Dictionary!ParentOf(i), Nil}
           \/ Dictionary!MovesBase(editor[c]),
         IdsCounted', ParentsExist', ParentsEnd', TreeFits(m)',
         tangled' \/ (/\ ~tangled /\ Cleared(m)'
                      /\ Dictionary!MovesBase(m)' =>
                           \A d \in Editors \ {c} : ~Dictionary!MovesBase(editor[d]))
  PROVE  TreeInv'
<1>1. editor'[c] = m /\ \A d \in Editors \ {c} : editor'[d] = editor[d]
  BY DEF Dictionary!Goes, DictionaryInv
<1>2. ASSUME NEW d \in Editors \ {c}
      PROVE  /\ TreeFits(editor[d])'
             /\ Dictionary!MovesBase(editor[d])' <=> Dictionary!MovesBase(editor[d])
             /\ tangled \/ Cleared(editor[d])'
  <2>1. PICK l : l = editor[d]
    OBVIOUS
  <2>2. EditorFits(l) /\ TreeFits(l) /\ (tangled \/ Cleared(l))
    BY <2>1 DEF DictionaryInv, TreeInv
  <2>3. TreeFits(l)' /\ (Dictionary!MovesBase(l)' <=> Dictionary!MovesBase(l))
    BY <2>2, TreeStillFits, MovesStay
  <2>4. CASE Dictionary!MovesBase(editor[c]) /\ ~tangled
    <3>1. ~Dictionary!MovesBase(l)
      BY <2>1, <2>4 DEF TreeInv, OneMove
    <3>2. Cleared(l)'
      BY <2>3, <3>1 DEF Cleared
    <3> QED
      BY <1>1, <2>1, <2>3, <3>2
  <2>5. CASE ~Dictionary!MovesBase(editor[c]) /\ ~tangled
    <3>1. Cleared(l)'
      BY <2>2, <2>5, ClearedStays
    <3> QED
      BY <1>1, <2>1, <2>3, <3>1
  <2> QED
    BY <1>1, <2>1, <2>3, <2>4, <2>5
<1>3. \A d \in Editors : TreeFits(editor[d])'
  BY <1>1, <1>2
<1>4. ASSUME ~tangled'
      PROVE  OneMove' /\ \A d \in Editors : Cleared(editor[d])'
  <2>1. /\ ~tangled /\ Cleared(m)'
        /\ Dictionary!MovesBase(m)' => \A d \in Editors \ {c} : ~Dictionary!MovesBase(editor[d])
    BY <1>4
  <2>2. \A d \in Editors : Cleared(editor[d])'
    BY <1>1, <1>2, <2>1
  <2>3. \A d \in Editors \ {c} :
          Dictionary!MovesBase(editor[d])' => Dictionary!MovesBase(editor[d]) /\ ~Dictionary!MovesBase(m)'
    BY <1>2, <2>1
  <2>4. Dictionary!MovesBase(editor[c])' <=> Dictionary!MovesBase(m)'
    BY <1>1
  <2>5. OneMove
    BY <2>1 DEF TreeInv
  <2>6. ASSUME NEW d \in Editors, NEW e \in Editors,
               Dictionary!MovesBase(editor[d])', Dictionary!MovesBase(editor[e])'
        PROVE  d = e
    <3>1. CASE d # c /\ e # c
      BY <2>3, <2>5, <2>6, <3>1 DEF OneMove
    <3>2. CASE d = c \/ e = c
      BY <2>3, <2>4, <2>6, <3>2
    <3> QED
      BY <3>1, <3>2
  <2>7. OneMove'
    BY <2>6 DEF OneMove
  <2> QED
    BY <2>2, <2>7
<1> QED
  BY <1>3, <1>4 DEF TreeInv

\* A step that leaves the base rows alone.
LEMMA QuietInTree ==
  ASSUME Apart, DictionaryInv, TreeInv, NEW c \in Editors, NEW l, l = editor[c],
         NEW m, Dictionary!Goes(c, m), UNCHANGED base,
         IdsOf(m) \subseteq IdsOf(l) \cup LiveIds \cup {Nil}, LiveIds' \subseteq LiveIds,
         \/ ~Dictionary!At(c, "idle") /\ edits' = edits
         \/ edits < EditBound /\ edits' = edits + 1,
         TreeFits(m),
         tangled' \/ (/\ ~tangled /\ Cleared(m)
                      /\ Dictionary!MovesBase(m) =>
                           \A d \in Editors \ {c} : ~Dictionary!MovesBase(editor[d]))
  PROVE  TreeInv'
<1>1. OwnersStay /\ \A i : Dictionary!ParentOf(i)' = Dictionary!ParentOf(i)
  BY DEF OwnersStay, Dictionary!Exists, Dictionary!ParentOf
<1>2. IdsCounted'
  BY IdsStay DEF TreeInv
<1>3. ParentsExist'
  BY <1>1 DEF TreeInv, ParentsExist, Dictionary!Shown, Dictionary!Exists
<1>4. tangled => tangled'
  OBVIOUS
<1>5. ParentsEnd'
  BY <1>1, <1>4 DEF TreeInv, ParentsEnd, Dictionary!ParentsEnd
<1>6. TreeFits(m)'
  BY DEF TreeFits, Dictionary!Shown, Dictionary!IsOwn, Dictionary!Exists
<1>7. Dictionary!MovesBase(m)' <=> Dictionary!MovesBase(m)
  BY DEF Dictionary!MovesBase, Dictionary!IsOwn, Dictionary!Exists
<1>8. Cleared(m) => Cleared(m)'
  BY <1>1, <1>7 DEF Cleared, GoesUp, WentUp, Dictionary!Exists
<1> QED
  BY <1>1, <1>2, <1>3, <1>5, <1>6, <1>7, <1>8, OthersStayInTree
----------------------------------------------------------------------------
(* Dictionaries: ids, parents and moves while a request goes on *)

Rests(local) ==
  /\ local.step = "idle" /\ local.moves \in {FALSE} /\ local.parent = Nil
  /\ local.own = Nil /\ local.doomed = {}

LEMMA IdleRests == Rests(Dictionary!Idle)
<1>1. PICK i : i = Dictionary!Idle
  OBVIOUS
<1>2. i.doomed = {}
  BY ONLY <1>1 DEF Dictionary!Idle
<1> QED
  BY <1>1, <1>2, IdleFields DEF Rests

LEMMA RestsInTree ==
  ASSUME Apart, DictionaryInv, TreeInv, NEW c \in Editors, ~Dictionary!At(c, "idle"),
         NEW m, Dictionary!Goes(c, m), Rests(m), UNCHANGED <<base, edits, tangled>>,
         LiveIds' \subseteq LiveIds
  PROVE  TreeInv'
<1>1. TreeFits(m) /\ IdsOf(m) \subseteq {Nil}
  BY DEF Rests, TreeFits, IdsOf, Dictionary!Shown, UndoingSteps
<1>2. ~Dictionary!MovesBase(m) /\ Cleared(m)
  BY DEF Rests, Dictionary!MovesBase, Cleared
<1> QED
  BY <1>1, <1>2, QuietInTree

LEMMA IdsLive ==
  ASSUME UNCHANGED overriding
  PROVE  LiveIds' \subseteq LiveIds
BY DEF LiveIds

LEMMA EndsInTree ==
  ASSUME Apart, DictionaryInv, TreeInv, NEW c \in Editors, ~Dictionary!At(c, "idle"),
         Dictionary!Ends(c), Dictionary!Stays
  PROVE  TreeInv'
BY IdsLive, IdleRests, RestsInTree DEF Dictionary!Ends, Dictionary!Stays, Dictionary!tables

\* A request that goes on names what it named, and goes nowhere it has not cleared.
LEMMA GoesOnInTree ==
  ASSUME Apart, DictionaryInv, TreeInv, NEW c \in Editors, NEW l, l = editor[c], l.step # "idle",
         NEW m, Dictionary!Goes(c, m), UNCHANGED <<base, edits, tangled>>, LiveIds' \subseteq LiveIds,
         SameRequest(m, l), m.own = Nil => l.own = Nil,
         IdsOf(m) \subseteq IdsOf(l) \cup LiveIds \cup {Nil},
         l.moves => m.step \in MovingSteps,
         m.step \in {"check", "write"} /\ m.own = Nil => Dictionary!IsOwn(l.as, l.entry),
         m.step = "circular" => m.at \in Items /\ Dictionary!Exists(m.at),
         m.step # "load", m.step \in UndoingSteps => l.as \in Tenants,
         Cleared(l) => Cleared(m)
  PROVE  TreeInv'
<1>1. TreeFits(l) /\ (tangled \/ (OneMove /\ Cleared(l)))
  BY DEF TreeInv
<1>2. TreeFits(m)
  BY <1>1 DEF TreeFits, SameRequest
<1>3. Dictionary!MovesBase(m) => Dictionary!MovesBase(l)
  BY DEF SameRequest, Dictionary!MovesBase
<1>4. ~Dictionary!At(c, "idle")
  BY DEF Dictionary!At
<1>5. OneMove /\ Dictionary!MovesBase(l) => \A d \in Editors \ {c} : ~Dictionary!MovesBase(editor[d])
  BY DEF OneMove
<1>6. tangled' \/ (/\ ~tangled /\ Cleared(m)
                   /\ Dictionary!MovesBase(m) =>
                        \A d \in Editors \ {c} : ~Dictionary!MovesBase(editor[d]))
  BY <1>1, <1>3, <1>5
<1> QED
  BY <1>2, <1>4, <1>6, QuietInTree

\* Once it has gone up, or when it moves nothing, a request has nothing left to clear.
LEMMA StaysCleared ==
  ASSUME NEW l, NEW m, SameRequest(m, l), m.own = Nil => l.own = Nil,
         l.moves /\ l.parent # Nil => l.step \notin {"load", "circular"},
         Cleared(l)
  PROVE  Cleared(m)
<1>1. Dictionary!MovesBase(m) => Dictionary!MovesBase(l)
  BY DEF SameRequest, Dictionary!MovesBase
<1>2. Dictionary!MovesBase(l) => \E above \in SUBSET Items : WentUp(l, above)
  BY DEF Cleared, Dictionary!MovesBase
<1>3. \A above \in SUBSET Items : WentUp(l, above) => WentUp(m, above)
  BY DEF WentUp, SameRequest
<1> QED
  BY <1>1, <1>2, <1>3 DEF Cleared
LEMMA LiveId ==
  ASSUME NEW t \in Tenants, NEW e \in Dictionary!Entered, overriding[t][e] # Nil
  PROVE  /\ overriding[t][e].id \in LiveIds
         /\ Apart /\ IdsCounted => overriding[t][e].id # Nil
<1>1. overriding[t][e].id \in LiveIds
  <2>1. PICK pair : pair = <<t, e>>
    OBVIOUS
  <2>2. pair \in Tenants \X Dictionary!Entered /\ pair[1] = t /\ pair[2] = e
    BY <2>1
  <2> QED
    BY <2>2 DEF LiveIds
<1>2. Apart /\ IdsCounted => LiveIds \subseteq 0..EditBound /\ Nil \notin 0..EditBound
  BY DEF Apart, IdsCounted, IdsAmong
<1> QED
  BY <1>1, <1>2

Carries(m, l) == SameRequest(m, l) /\ m.own = l.own /\ m.doomed = l.doomed

\* A request passes from one check to the next.
LEMMA CarriesOnInTree ==
  ASSUME Apart, DictionaryInv, TreeInv, NEW c \in Editors, NEW l, l = editor[c], l.step # "idle",
         NEW m, Dictionary!Goes(c, m), Dictionary!Stays, Carries(m, l),
         l.moves => m.step \in MovingSteps,
         m.step \in {"check", "write"} /\ m.own = Nil => Dictionary!IsOwn(l.as, l.entry),
         m.step \notin {"load", "circular"}, m.step \in UndoingSteps => l.as \in Tenants,
         l.moves /\ l.parent # Nil => l.step \notin {"load", "circular"}
  PROVE  TreeInv'
<1>1. UNCHANGED <<base, edits, tangled>> /\ LiveIds' \subseteq LiveIds
  BY IdsLive DEF Dictionary!Stays, Dictionary!tables
<1>2. SameRequest(m, l) /\ IdsOf(m) = IdsOf(l) /\ (m.own = Nil => l.own = Nil)
  BY DEF Carries, IdsOf
<1>3. Cleared(l) => Cleared(m)
  BY <1>2, StaysCleared
<1> QED
  BY <1>1, <1>2, <1>3, GoesOnInTree

LEMMA LoadInTree ==
  ASSUME Apart, DictionaryInv, TreeInv, NEW c \in Editors, Dictionary!Load(c)
  PROVE  TreeInv'
<1>1. PICK l : l = editor[c]
  OBVIOUS
<1>2. /\ EditorFits(l) /\ TreeFits(l) /\ l.step = "load" /\ Dictionary!Stays /\ ~Dictionary!At(c, "idle")
      /\ UNCHANGED <<base, edits, tangled>> /\ LiveIds' \subseteq LiveIds
  BY <1>1, IdsLive
  DEF DictionaryInv, TreeInv, Dictionary!Load, Dictionary!At, Dictionary!Stays, Dictionary!tables
<1>3. DOMAIN l = EditorFields /\ l.as \in Dictionary!Actors
  BY <1>2 DEF EditorFits, ViewingSteps, UndoingSteps
<1>4. CASE Dictionary!Ends(c)
  BY <1>2, <1>4, EndsInTree
<1>5. ASSUME l.op = "reset", NEW row, NEW m, Dictionary!Goes(c, m),
             m = [[l EXCEPT !.row = row] EXCEPT !.step = "find_doomed", !.doomed = {<<l.entry, l.own>>}]
      PROVE  TreeInv'
  <2>1. /\ SameRequest(m, l) /\ m.step = "find_doomed" /\ m.own = l.own
        /\ m.doomed = {<<l.entry, l.own>>}
    BY ONLY <1>3, <1>5 DEF SameRequest, EditorFields
  <2>2. IdsOf(m) \subseteq IdsOf(l)
    BY <2>1 DEF IdsOf
  <2>3. ~l.moves
    BY <1>2, <1>5 DEF TreeFits
  <2>4. Cleared(m)
    BY <2>1, <2>3 DEF Cleared, SameRequest, Dictionary!MovesBase
  <2>5. l.as \in Tenants
    BY <1>2, <1>5 DEF TreeFits
  <2> QED
    BY <1>1, <1>2, <1>5, <2>1, <2>2, <2>3, <2>4, <2>5, GoesOnInTree
<1>6. ASSUME l.parent # Nil, NEW row, NEW m, Dictionary!Goes(c, m),
             m = [[l EXCEPT !.row = row] EXCEPT !.step = "circular", !.at = l.parent]
      PROVE  TreeInv'
  <2>1. SameRequest(m, l) /\ m.step = "circular" /\ m.own = l.own /\ m.doomed = l.doomed /\ m.at = l.parent
    BY ONLY <1>3, <1>6 DEF SameRequest, EditorFields
  <2>2. IdsOf(m) \subseteq IdsOf(l)
    BY <2>1 DEF IdsOf
  <2>3. m.at \in Items /\ Dictionary!Exists(m.at)
    BY <1>2, <1>6, <2>1 DEF TreeFits, Dictionary!Shown
  <2>4. GoesUp(m, {})
    BY <2>1 DEF GoesUp, SameRequest
  <2>5. Cleared(m)
    BY <2>1, <2>4 DEF Cleared
  <2> QED
    BY <1>1, <1>2, <1>6, <2>1, <2>2, <2>3, <2>5, GoesOnInTree DEF MovingSteps, UndoingSteps
<1>7. ASSUME l.op # "reset", l.parent = Nil, NEW row,
             Dictionary!Goes(c, [Dictionary!Authorised(c) EXCEPT !.row = row])
      PROVE  TreeInv'
  <2>1. PICK j : j = Dictionary!Authorised(c)
    OBVIOUS
  <2>2. PICK m : m = [j EXCEPT !.row = row]
    OBVIOUS
  <2>3. Dictionary!Goes(c, m)
    BY <1>7, <2>1, <2>2
  <2>4. CASE j = Dictionary!Idle
    <3>1. Rests(j) /\ DOMAIN j = EditorFields
      BY <2>4, IdleRests, IdleFields
    <3>2. Rests(m)
      BY ONLY <2>2, <3>1 DEF Rests, EditorFields
    <3> QED
      BY <1>2, <2>3, <3>2, RestsInTree
  <2>5. ASSUME NEW step \in {"check", "find_override"}, j = [l EXCEPT !.step = step],
               step = "check" => l.own # Nil \/ Dictionary!IsOwn(l.as, l.entry)
        PROVE  TreeInv'
    <3>1. DOMAIN l = EditorFields /\ m = [[l EXCEPT !.step = step] EXCEPT !.row = row]
      BY <1>3, <2>2, <2>5
    <3>2. Carries(m, l) /\ m.step = step /\ m.own = l.own
      BY ONLY <3>1 DEF Carries, SameRequest, EditorFields
    <3> QED
      BY <1>1, <1>2, <1>7, <2>3, <2>5, <3>2, CarriesOnInTree DEF MovingSteps, UndoingSteps
  <2> QED
    BY <1>1, <1>3, <2>1, <2>4, <2>5, AuthorisedCases
<1>8. PICK target, self : target = Dictionary!Target(c) /\ self = [l EXCEPT !.row = target]
  OBVIOUS
<1>9. self.op = l.op /\ self.parent = l.parent /\ self.entry = l.entry /\ self.own = l.own
  BY ONLY <1>3, <1>8 DEF EditorFields
<1>10. \/ Dictionary!Ends(c)
       \/ /\ self.op = "reset"
          /\ Dictionary!Goes(c, [self EXCEPT !.step = "find_doomed", !.doomed = {<<self.entry, self.own>>}])
       \/ /\ self.op # "reset" /\ self.parent # Nil
          /\ Dictionary!Goes(c, [self EXCEPT !.step = "circular", !.at = self.parent])
       \/ /\ self.op # "reset" /\ self.parent = Nil
          /\ \E row : Dictionary!Goes(c, [Dictionary!Authorised(c) EXCEPT !.row = row])
  BY <1>1, <1>8 DEF Dictionary!Load
<1> QED
  BY <1>4, <1>5, <1>6, <1>7, <1>8, <1>9, <1>10

LEMMA CircularInTree ==
  ASSUME Apart, DictionaryInv, TreeInv, NEW c \in Editors, Dictionary!Circular(c)
  PROVE  TreeInv'
<1>1. PICK l, up : l = editor[c] /\ up = Dictionary!ParentOf(l.at)
  OBVIOUS
<1>2. /\ EditorFits(l) /\ TreeFits(l) /\ l.step = "circular" /\ Dictionary!Stays
      /\ ~Dictionary!At(c, "idle")
      /\ UNCHANGED <<base, edits, tangled>> /\ LiveIds' \subseteq LiveIds
  BY <1>1, IdsLive
  DEF DictionaryInv, TreeInv, Dictionary!Circular, Dictionary!At, Dictionary!Stays, Dictionary!tables
<1>3. DOMAIN l = EditorFields /\ l.at \in Items /\ Dictionary!Exists(l.at)
  BY <1>2 DEF EditorFits, TreeFits
<1>4. CASE Dictionary!Ends(c)
  BY <1>2, <1>4, EndsInTree
<1>5. ASSUME NEW above \in SUBSET Items, GoesUp(l, above), l.at # l.entry
      PROVE  /\ l.entry \notin above \cup {l.at} /\ l.parent \in above \cup {l.at}
             /\ \A i \in above \cup {l.at} :
                  Dictionary!Exists(i) /\ Dictionary!ParentOf(i) \in above \cup {l.at} \cup {up, Nil}
             /\ above \cup {l.at} \in SUBSET Items
  BY <1>1, <1>3, <1>5 DEF GoesUp
<1>6. ASSUME up = Nil, l.own # Nil \/ l.at # l.entry, NEW m, Dictionary!Goes(c, m),
             m = [l EXCEPT !.step = "depth", !.at = l.parent]
      PROVE  TreeInv'
  <2>1. SameRequest(m, l) /\ m.step = "depth" /\ m.own = l.own /\ m.doomed = l.doomed
    BY ONLY <1>3, <1>6 DEF SameRequest, EditorFields
  <2>2. IdsOf(m) \subseteq IdsOf(l)
    BY <2>1 DEF IdsOf
  <2>3. ASSUME NEW above \in SUBSET Items, GoesUp(l, above), l.at # l.entry
        PROVE  WentUp(m, above \cup {l.at})
    BY <1>5, <1>6, <2>1, <2>3 DEF WentUp, SameRequest
  <2>4. \A above : WentUp(l, above) => WentUp(m, above)
    BY <2>1 DEF WentUp, SameRequest
  <2>5. Cleared(l) => Cleared(m)
    BY <1>2, <1>5, <1>6, <2>1, <2>3, <2>4 DEF Cleared, SameRequest, Dictionary!MovesBase
  <2> QED
    BY <1>1, <1>2, <1>6, <2>1, <2>2, <2>5, GoesOnInTree DEF MovingSteps, UndoingSteps
<1>7. ASSUME up # Nil, l.own # Nil \/ l.at # l.entry, NEW m, Dictionary!Goes(c, m),
             m = [l EXCEPT !.at = up]
      PROVE  TreeInv'
  <2>1. SameRequest(m, l) /\ m.step = l.step /\ m.own = l.own /\ m.doomed = l.doomed /\ m.at = up
    BY ONLY <1>3, <1>7 DEF SameRequest, EditorFields
  <2>2. IdsOf(m) \subseteq IdsOf(l)
    BY <2>1 DEF IdsOf
  <2>3. m.at \in Items /\ Dictionary!Exists(m.at)
    BY <1>1, <1>3, <1>7, <2>1 DEF TreeInv, ParentsExist, Dictionary!Shown
  <2>4. ASSUME NEW above \in SUBSET Items, GoesUp(l, above), l.at # l.entry
        PROVE  GoesUp(m, above \cup {l.at})
    BY <1>5, <2>1, <2>4 DEF GoesUp, SameRequest
  <2>5. \A above : WentUp(l, above) => WentUp(m, above)
    BY <2>1 DEF WentUp, SameRequest
  <2>6. Cleared(l) => Cleared(m)
    <3>1. SUFFICES ASSUME Dictionary!MovesBase(l), Cleared(l)
                   PROVE  Cleared(m)
      BY <2>1 DEF Cleared, SameRequest, Dictionary!MovesBase
    <3>2. l.at # l.entry /\ m.step = "circular" /\ l.step = "circular"
      BY <1>2, <1>7, <2>1, <3>1 DEF Dictionary!MovesBase
    <3>3. CASE \E above \in SUBSET Items : GoesUp(l, above)
      <4>1. PICK above \in SUBSET Items : GoesUp(l, above)
        BY <3>3
      <4>2. GoesUp(m, above \cup {l.at}) /\ above \cup {l.at} \in SUBSET Items
        BY <1>5, <2>4, <3>2, <4>1
      <4> QED
        BY <3>2, <4>2 DEF Cleared
    <3>4. CASE \E above \in SUBSET Items : WentUp(l, above)
      BY <2>5, <3>4 DEF Cleared
    <3> QED
      BY <3>1, <3>2, <3>3, <3>4 DEF Cleared
  <2> QED
    BY <1>1, <1>2, <1>7, <2>1, <2>2, <2>3, <2>6, GoesOnInTree DEF MovingSteps, UndoingSteps
<1> QED
  BY <1>1, <1>4, <1>6, <1>7 DEF Dictionary!Circular
LEMMA DepthInTree ==
  ASSUME Apart, DictionaryInv, TreeInv, NEW c \in Editors, Dictionary!Depth(c)
  PROVE  TreeInv'
<1>1. PICK l : l = editor[c]
  OBVIOUS
<1>2. /\ EditorFits(l) /\ TreeFits(l) /\ l.step = "depth" /\ Dictionary!Stays
      /\ ~Dictionary!At(c, "idle")
      /\ UNCHANGED <<base, edits, tangled>> /\ LiveIds' \subseteq LiveIds
  BY <1>1, IdsLive
  DEF DictionaryInv, TreeInv, Dictionary!Depth, Dictionary!At, Dictionary!Stays, Dictionary!tables
<1>3. DOMAIN l = EditorFields /\ l.as \in Dictionary!Actors
  BY <1>2 DEF EditorFits, ViewingSteps, UndoingSteps
<1>4. CASE Dictionary!Ends(c)
  BY <1>2, <1>4, EndsInTree
<1>5. ASSUME NEW x, NEW y, Dictionary!Goes(c, [l EXCEPT !.at = x, !.depth = y])
      PROVE  TreeInv'
  <2>1. PICK m : m = [l EXCEPT !.at = x, !.depth = y]
    OBVIOUS
  <2>2. Carries(m, l) /\ m.step = l.step
    BY ONLY <1>3, <2>1 DEF Carries, SameRequest, EditorFields
  <2> QED
    BY <1>1, <1>2, <1>5, <2>1, <2>2, CarriesOnInTree DEF MovingSteps, UndoingSteps
<1>6. ASSUME NEW after, Dictionary!Goes(c, [after EXCEPT !.at = Nil, !.depth = 0]),
             \/ l.op = "create" /\ after = [l EXCEPT !.step = "insert"]
             \/ l.op # "create" /\ after = Dictionary!Authorised(c)
      PROVE  TreeInv'
  <2>1. PICK m : m = [after EXCEPT !.at = Nil, !.depth = 0]
    OBVIOUS
  <2>2. CASE after = Dictionary!Idle
    <3>1. Rests(after) /\ DOMAIN after = EditorFields
      BY <2>2, IdleRests, IdleFields
    <3>2. Rests(m)
      BY ONLY <2>1, <3>1 DEF Rests, EditorFields
    <3> QED
      BY <1>2, <1>6, <2>1, <3>2, RestsInTree
  <2>3. ASSUME NEW step \in {"insert", "check", "find_override"}, after = [l EXCEPT !.step = step],
               step = "insert" => l.op = "create",
               step = "check" => l.own # Nil \/ Dictionary!IsOwn(l.as, l.entry)
        PROVE  TreeInv'
    <3>1. DOMAIN l = EditorFields /\ m = [[l EXCEPT !.step = step] EXCEPT !.at = Nil, !.depth = 0]
      BY <1>3, <2>1, <2>3
    <3>2. Carries(m, l) /\ m.step = step /\ m.own = l.own
      BY ONLY <3>1 DEF Carries, SameRequest, EditorFields
    <3>3. l.moves => m.step \in MovingSteps
      BY <1>2, <2>3, <3>2 DEF TreeFits, MovingSteps
    <3> QED
      BY <1>1, <1>2, <1>6, <2>1, <2>3, <3>2, <3>3, CarriesOnInTree DEF UndoingSteps
  <2>4. CASE l.op = "create" /\ after = [l EXCEPT !.step = "insert"]
    BY <2>3, <2>4
  <2>5. CASE l.op # "create" /\ after = Dictionary!Authorised(c)
    BY <1>1, <1>3, <2>2, <2>3, <2>5, AuthorisedCases
  <2> QED
    BY <1>6, <2>4, <2>5
<1>7. PICK after : after = IF l.op = "create" THEN [l EXCEPT !.step = "insert"]
                           ELSE Dictionary!Authorised(c)
  OBVIOUS
<1>8. \/ Dictionary!Ends(c)
      \/ \E x, y : Dictionary!Goes(c, [l EXCEPT !.at = x, !.depth = y])
      \/ Dictionary!Goes(c, IF after = Dictionary!Idle THEN Dictionary!Idle
                            ELSE [after EXCEPT !.at = Nil, !.depth = 0])
  BY <1>1, <1>7 DEF Dictionary!Depth, Dictionary!Local
<1> QED
  BY <1>4, <1>5, <1>6, <1>7, <1>8 DEF Dictionary!Ends

LEMMA FindForkInTree ==
  ASSUME Apart, DictionaryInv, TreeInv, NEW c \in Editors, Dictionary!FindOverride(c)
  PROVE  TreeInv'
<1>1. PICK l, row : l = editor[c] /\ row = overriding[l.as][l.entry]
  OBVIOUS
<1>2. /\ EditorFits(l) /\ TreeFits(l) /\ l.step = "find_override" /\ Dictionary!Stays
      /\ UNCHANGED <<base, edits, tangled>> /\ LiveIds' \subseteq LiveIds
  BY <1>1, IdsLive
  DEF DictionaryInv, TreeInv, Dictionary!FindOverride, Dictionary!At, Dictionary!Stays, Dictionary!tables
<1>3. DOMAIN l = EditorFields /\ l.as \in Tenants /\ l.entry \in Dictionary!Entered
  BY <1>2 DEF EditorFits, ForkingSteps, ViewingSteps, UndoingSteps
<1>4. ASSUME row = Nil, NEW m, Dictionary!Goes(c, m), m = [l EXCEPT !.step = "insert_override"]
      PROVE  TreeInv'
  <2>1. Carries(m, l) /\ m.step = "insert_override"
    BY ONLY <1>3, <1>4 DEF Carries, SameRequest, EditorFields
  <2> QED
    BY <1>1, <1>2, <1>4, <2>1, CarriesOnInTree DEF MovingSteps, UndoingSteps
<1>5. ASSUME row # Nil, NEW m, Dictionary!Goes(c, m),
             m = [[l EXCEPT !.step = "check"] EXCEPT !.own = row.id, !.row = row]
      PROVE  TreeInv'
  <2>1. SameRequest(m, l) /\ m.step = "check" /\ m.own = row.id /\ m.doomed = l.doomed
    BY ONLY <1>3, <1>5 DEF SameRequest, EditorFields
  <2>2. row.id \in LiveIds /\ row.id # Nil
    BY <1>1, <1>3, <1>5, LiveId DEF TreeInv
  <2>3. IdsOf(m) \subseteq IdsOf(l) \cup LiveIds \cup {Nil}
    BY <2>1, <2>2 DEF IdsOf
  <2>4. Cleared(l) => Cleared(m)
    BY <1>2, <2>1, <2>2, StaysCleared
  <2>5. m.step # "circular" /\ m.own # Nil
    BY <2>1, <2>2
  <2> QED
    BY <1>1, <1>2, <1>5, <2>1, <2>3, <2>4, <2>5, GoesOnInTree DEF MovingSteps, UndoingSteps
<1> QED
  BY <1>1, <1>4, <1>5 DEF Dictionary!FindOverride, Dictionary!Local

LEMMA CheckInTree ==
  ASSUME Apart, DictionaryInv, TreeInv, NEW c \in Editors, Dictionary!Check(c)
  PROVE  TreeInv'
<1>1. PICK l : l = editor[c]
  OBVIOUS
<1>2. /\ EditorFits(l) /\ TreeFits(l) /\ l.step = "check" /\ Dictionary!Stays
      /\ ~Dictionary!At(c, "idle")
  BY <1>1 DEF DictionaryInv, TreeInv, Dictionary!Check, Dictionary!At
<1>3. CASE Dictionary!Ends(c)
  BY <1>2, <1>3, EndsInTree
<1>4. CASE Dictionary!Goes(c, Dictionary!Local(c, "write"))
  <2>1. DOMAIN l = EditorFields
    BY <1>2 DEF EditorFits
  <2>2. PICK m : m = [l EXCEPT !.step = "write"]
    OBVIOUS
  <2>3. Carries(m, l) /\ m.step = "write" /\ m.own = l.own
    BY ONLY <2>1, <2>2 DEF Carries, SameRequest, EditorFields
  <2>4. m.own = Nil => Dictionary!IsOwn(l.as, l.entry)
    BY <1>2, <2>3 DEF TreeFits
  <2>5. Dictionary!Goes(c, m)
    BY <1>1, <1>4, <2>2 DEF Dictionary!Local
  <2> QED
    BY <1>1, <1>2, <2>3, <2>4, <2>5, CarriesOnInTree DEF MovingSteps, UndoingSteps
<1> QED
  BY <1>3, <1>4 DEF Dictionary!Check

----------------------------------------------------------------------------
(* Dictionaries: ids, parents and moves over overrides *)

\* One override is written: it is the only one whose id may be new.
LEMMA LiveIdsAfter ==
  ASSUME EntriesFit, NEW s, NEW k, NEW row, NEW ids,
         overriding' = overriding \/ overriding' = [overriding EXCEPT ![s] = [@ EXCEPT ![k] = row]],
         s \in Tenants /\ k \in Dictionary!Entered /\ row # Nil => row.id \in LiveIds \cup ids
  PROVE  LiveIds' \subseteq LiveIds \cup ids
<1>1. /\ overriding = [t \in Tenants |-> overriding[t]]
      /\ \A t \in Tenants : overriding[t] = [e \in Dictionary!Entered |-> overriding[t][e]]
  BY DEF EntriesFit
<1>2. ASSUME NEW t \in Tenants, NEW e \in Dictionary!Entered, overriding'[t][e] # overriding[t][e]
      PROVE  t = s /\ e = k /\ overriding'[t][e] = row
  <2>1. t = s /\ overriding'[t] = [overriding[t] EXCEPT ![k] = row]
    BY <1>1, <1>2
  <2> QED
    BY <1>1, <1>2, <2>1
<1>3. ASSUME NEW t \in Tenants, NEW e \in Dictionary!Entered, overriding'[t][e] # Nil
      PROVE  overriding'[t][e].id \in LiveIds \cup ids
  <2>1. CASE overriding'[t][e] = overriding[t][e]
    BY <1>3, <2>1, LiveId
  <2>2. CASE overriding'[t][e] # overriding[t][e]
    BY <1>2, <1>3, <2>2
  <2> QED
    BY <2>1, <2>2
<1>4. ASSUME NEW pair \in Tenants \X Dictionary!Entered, overriding'[pair[1]][pair[2]] # Nil
      PROVE  overriding'[pair[1]][pair[2]].id \in LiveIds \cup ids
  BY <1>3, <1>4
<1> QED
  BY <1>4 DEF LiveIds

LEMMA WriteForkInTree ==
  ASSUME Apart, DictionaryInv, TreeInv, NEW c \in Editors, Dictionary!Write(c), editor[c].own # Nil
  PROVE  TreeInv'
<1>1. PICK l, target, row :
        l = editor[c] /\ target = Dictionary!Target(c) /\ row = Dictionary!Changed(c, target)
  OBVIOUS
<1>2. /\ EditorFits(l) /\ l.step = "write" /\ ~Dictionary!At(c, "idle") /\ Dictionary!Ends(c)
      /\ UNCHANGED <<base, edits, tangled>>
  BY <1>1 DEF DictionaryInv, Dictionary!Write, Dictionary!At
<1>3. l.parent \in Dictionary!Parents /\ l.seen \in Nat
  BY <1>2 DEF EditorFits, ViewingSteps, UndoingSteps
<1>4. \/ overriding' = overriding
      \/ target # Nil /\ overriding' = [overriding EXCEPT ![l.as] = [@ EXCEPT ![l.entry] = row]]
  BY <1>1 DEF Dictionary!Write
<1>5. ASSUME target # Nil, l.as \in Tenants, l.entry \in Dictionary!Entered
      PROVE  row.id \in LiveIds
  <2>1. target = overriding[l.as][l.entry]
    BY <1>1, <1>5 DEF Dictionary!Target
  <2>2. IsOverriding(target) /\ target.id \in LiveIds
    BY <1>5, <2>1, LiveId DEF DictionaryInv, EntriesFit
  <2> QED
    BY <1>1, <1>3, <2>2, ChangedRows
<1>6. LiveIds' \subseteq LiveIds
  <2>1. CASE overriding' = overriding
    BY <2>1, IdsLive
  <2>2. CASE target # Nil /\ overriding' = [overriding EXCEPT ![l.as] = [@ EXCEPT ![l.entry] = row]]
    <3>1. EntriesFit /\ (l.as \in Tenants /\ l.entry \in Dictionary!Entered /\ row # Nil =>
                           row.id \in LiveIds \cup {})
      BY <1>5, <2>2 DEF DictionaryInv
    <3>2. LiveIds' \subseteq LiveIds \cup {}
      BY <2>2, <3>1, LiveIdsAfter
    <3> QED
      BY <3>2
  <2> QED
    BY <1>4, <2>1, <2>2
<1> QED
  BY <1>2, <1>6, IdleRests, RestsInTree DEF Dictionary!Ends

LEMMA InsertForkInTree ==
  ASSUME Apart, DictionaryInv, TreeInv, NEW c \in Editors, Dictionary!InsertOverride(c)
  PROVE  TreeInv'
<1>1. PICK l, row :
        /\ l = editor[c]
        /\ row = [id |-> Dictionary!NewId, version |-> 1, active |-> l.op # "toggle",
                  parent |-> IF l.moves THEN l.parent ELSE l.row.parent]
  OBVIOUS
<1>2. /\ ~Dictionary!At(c, "idle") /\ Dictionary!Ends(c) /\ UNCHANGED <<base, edits, tangled>>
      /\ \/ overriding' = overriding
         \/ overriding' = [overriding EXCEPT ![l.as] = [@ EXCEPT ![l.entry] = row]]
  BY <1>1 DEF Dictionary!InsertOverride, Dictionary!At
<1>3. row.id = Dictionary!NewId
  BY ONLY <1>1
<1>4. LiveIds' \subseteq LiveIds \cup {Dictionary!NewId}
  BY <1>2, <1>3, LiveIdsAfter DEF DictionaryInv
<1>5. IdsCounted'
  BY <1>2, <1>4, IdsMade DEF TreeInv
<1>6. PICK m : m = Dictionary!Idle
  OBVIOUS
<1>7. Dictionary!Goes(c, m) /\ Rests(m)
  BY <1>2, <1>6, IdleRests DEF Dictionary!Ends
<1>8. TreeFits(m)' /\ ~Dictionary!MovesBase(m)' /\ Cleared(m)'
  BY <1>7 DEF Rests, TreeFits, Dictionary!Shown, UndoingSteps, Dictionary!MovesBase, Cleared
<1>9. OwnersStay /\ \A i : Dictionary!ParentOf(i)' = Dictionary!ParentOf(i)
  BY <1>2 DEF OwnersStay, Dictionary!Exists, Dictionary!ParentOf
<1>10. ParentsExist'
  BY <1>2, <1>9 DEF TreeInv, ParentsExist, Dictionary!Shown, Dictionary!Exists
<1>11. ParentsEnd'
  BY <1>2, <1>9 DEF TreeInv, ParentsEnd, Dictionary!ParentsEnd
<1> QED
  BY <1>2, <1>5, <1>7, <1>8, <1>9, <1>10, <1>11, OthersStayInTree

\* A reset looks for what is left to undo, or a view reads on: nothing moves.
LEMMA AsideInTree ==
  ASSUME Apart, DictionaryInv, TreeInv, NEW c \in Editors, NEW l, l = editor[c],
         l.step \notin MovingSteps \cup {"idle"},
         NEW m, Dictionary!Goes(c, m), UNCHANGED <<base, edits, tangled>>, LiveIds' \subseteq LiveIds,
         SameRequest(m, l), m.own = l.own,
         IdsOf(m) \subseteq IdsOf(l) \cup LiveIds \cup {Nil},
         m.step \notin MovingSteps, m.step \in UndoingSteps => l.step \in UndoingSteps
  PROVE  TreeInv'
<1>1. TreeFits(l)
  BY DEF TreeInv
<1>2. ~l.moves /\ (m.step \in UndoingSteps => l.as \in Tenants)
  BY <1>1 DEF TreeFits
<1>3. Cleared(m)
  BY <1>2 DEF Cleared, SameRequest, Dictionary!MovesBase
<1> QED
  BY <1>2, <1>3, GoesOnInTree DEF MovingSteps

LEMMA FindDoomedInTree ==
  ASSUME Apart, DictionaryInv, TreeInv, NEW c \in Editors, Dictionary!FindDoomed(c)
  PROVE  TreeInv'
<1>1. PICK l : l = editor[c]
  OBVIOUS
<1>2. /\ l.step = "find_doomed" /\ Dictionary!Stays /\ DOMAIN l = EditorFields /\ ~Dictionary!At(c, "idle")
      /\ UNCHANGED <<base, edits, tangled>> /\ LiveIds' \subseteq LiveIds
  BY <1>1, IdsLive
  DEF DictionaryInv, EditorFits, Dictionary!FindDoomed, Dictionary!At, Dictionary!Stays, Dictionary!tables
<1>3. CASE Dictionary!Ends(c)
  BY <1>2, <1>3, EndsInTree
<1>4. ASSUME NEW m, NEW x, Dictionary!Goes(c, m), m = [[l EXCEPT !.step = "drop"] EXCEPT !.at = x]
      PROVE  TreeInv'
  <2>1. DOMAIN l = EditorFields
    BY <1>2
  <2>2. SameRequest(m, l) /\ m.step = "drop" /\ m.own = l.own /\ m.doomed = l.doomed
    BY ONLY <1>4, <2>1 DEF SameRequest, EditorFields
  <2>3. IdsOf(m) = IdsOf(l)
    BY <2>2 DEF IdsOf
  <2> QED
    BY <1>1, <1>2, <1>4, <2>2, <2>3, AsideInTree DEF UndoingSteps, MovingSteps
<1> QED
  BY <1>1, <1>3, <1>4 DEF Dictionary!FindDoomed, Dictionary!Local

LEMMA DropInTree ==
  ASSUME Apart, DictionaryInv, TreeInv, NEW c \in Editors, Dictionary!Drop(c)
  PROVE  TreeInv'
<1>1. PICK l : l = editor[c]
  OBVIOUS
<1>2. /\ l.step = "drop" /\ DOMAIN l = EditorFields /\ ~Dictionary!At(c, "idle")
      /\ UNCHANGED <<base, edits, tangled>>
  BY <1>1 DEF DictionaryInv, EditorFits, Dictionary!Drop, Dictionary!At
<1>3. \/ overriding' = overriding
      \/ overriding' = [overriding EXCEPT ![l.as] = [@ EXCEPT ![l.at[1]] = Nil]]
  BY <1>1 DEF Dictionary!Drop
<1>4. LiveIds' \subseteq LiveIds
  <2>1. LiveIds' \subseteq LiveIds \cup {}
    BY <1>3, LiveIdsAfter DEF DictionaryInv
  <2> QED
    BY <2>1
<1>5. CASE Dictionary!Ends(c)
  BY <1>2, <1>4, <1>5, IdleRests, RestsInTree DEF Dictionary!Ends
<1>6. ASSUME NEW m, NEW x, x \subseteq l.doomed, NEW step \in UndoingSteps, Dictionary!Goes(c, m),
             m = [[l EXCEPT !.step = step] EXCEPT !.at = Nil, !.doomed = x]
      PROVE  TreeInv'
  <2>1. DOMAIN l = EditorFields
    BY <1>2
  <2>2. SameRequest(m, l) /\ m.step = step /\ m.own = l.own /\ m.doomed = x
    BY ONLY <1>6, <2>1 DEF SameRequest, EditorFields
  <2>3. IdsOf(m) \subseteq IdsOf(l)
    BY <1>6, <2>2 DEF IdsOf
  <2> QED
    BY <1>1, <1>2, <1>4, <1>6, <2>2, <2>3, AsideInTree DEF UndoingSteps, MovingSteps
<1>7. \/ Dictionary!Ends(c)
      \/ \E x, step : /\ x \subseteq l.doomed /\ step \in UndoingSteps
                      /\ Dictionary!Goes(c, [[l EXCEPT !.step = step] EXCEPT !.at = Nil, !.doomed = x])
  BY <1>1 DEF Dictionary!Drop, Dictionary!Local, UndoingSteps
<1> QED
  BY <1>5, <1>6, <1>7

LEMMA ListOverridesInTree ==
  ASSUME Apart, DictionaryInv, TreeInv, NEW c \in Editors, Dictionary!ListOverrides(c)
  PROVE  TreeInv'
<1>1. PICK l, items, x :
        /\ l = editor[c] /\ items = {i \in Dictionary!Listed(l.entry) : overriding[l.as][i] # Nil}
        /\ x = {<<i, overriding[l.as][i].id>> : i \in items}
  OBVIOUS
<1>2. /\ l.step = "list_overrides" /\ Dictionary!Stays /\ DOMAIN l = EditorFields
      /\ ~Dictionary!At(c, "idle") /\ TreeFits(l)
      /\ UNCHANGED <<base, edits, tangled>> /\ LiveIds' \subseteq LiveIds
  BY <1>1, IdsLive
  DEF DictionaryInv, TreeInv, EditorFits, Dictionary!ListOverrides, Dictionary!At, Dictionary!Stays,
      Dictionary!tables
<1>3. CASE Dictionary!Ends(c)
  BY <1>2, <1>3, EndsInTree
<1>4. ASSUME NEW m, Dictionary!Goes(c, m), m = [[l EXCEPT !.step = "find_doomed"] EXCEPT !.doomed = x]
      PROVE  TreeInv'
  <2>1. DOMAIN l = EditorFields
    BY <1>2
  <2>2. SameRequest(m, l) /\ m.step = "find_doomed" /\ m.own = l.own /\ m.doomed = x
    BY ONLY <1>4, <2>1 DEF SameRequest, EditorFields
  <2>3. l.as \in Tenants
    BY <1>2 DEF TreeFits, UndoingSteps
  <2>4. \A i \in items : overriding[l.as][i].id \in LiveIds
    BY <1>1, <2>3, ListedEntries, LiveId
  <2>5. \A doomed \in x : doomed[2] \in LiveIds
    BY <1>1, <2>4
  <2>6. IdsOf(m) \subseteq IdsOf(l) \cup LiveIds \cup {Nil}
    BY <2>2, <2>5 DEF IdsOf
  <2> QED
    BY <1>1, <1>2, <1>4, <2>2, <2>6, AsideInTree DEF UndoingSteps, MovingSteps
<1> QED
  BY <1>1, <1>3, <1>4 DEF Dictionary!ListOverrides, Dictionary!Local

LEMMA ReadsInTree ==
  ASSUME Apart, DictionaryInv, TreeInv, NEW c \in Editors,
         Dictionary!ReadOverrides(c) \/ Dictionary!ReadOwn(c) \/ Dictionary!ReadBase(c)
  PROVE  TreeInv'
<1>1. PICK l : l = editor[c]
  OBVIOUS
<1>2. /\ l.step \in ViewingSteps /\ DOMAIN l = EditorFields /\ ~Dictionary!At(c, "idle")
      /\ UNCHANGED <<base, edits, tangled>> /\ LiveIds' \subseteq LiveIds
  BY <1>1, IdsLive
  DEF DictionaryInv, EditorFits, Dictionary!ReadOverrides, Dictionary!ReadOwn, Dictionary!ReadBase,
      Dictionary!At, Dictionary!Stays, Dictionary!tables, ViewingSteps
<1>3. ASSUME NEW m, NEW x, NEW step \in ViewingSteps, Dictionary!Goes(c, m),
             \/ m = [l EXCEPT !.step = step, !.overrides = x]
             \/ m = [l EXCEPT !.step = step, !.owned = x]
             \/ m = [[l EXCEPT !.step = step] EXCEPT !.platforms = x]
      PROVE  TreeInv'
  <2>1. DOMAIN l = EditorFields
    BY <1>2
  <2>2. SameRequest(m, l) /\ m.step = step /\ m.own = l.own /\ m.doomed = l.doomed
    BY ONLY <1>3, <2>1 DEF SameRequest, EditorFields
  <2>3. IdsOf(m) = IdsOf(l)
    BY <2>2 DEF IdsOf
  <2> QED
    BY <1>1, <1>2, <1>3, <2>2, <2>3, AsideInTree DEF ViewingSteps, UndoingSteps, MovingSteps
<1>4. CASE Dictionary!ReadOverrides(c)
  BY <1>1, <1>3, <1>4 DEF Dictionary!ReadOverrides, ViewingSteps
<1>5. CASE Dictionary!ReadOwn(c)
  BY <1>1, <1>3, <1>5 DEF Dictionary!ReadOwn, ViewingSteps
<1>6. CASE Dictionary!ReadBase(c)
  BY <1>1, <1>3, <1>6 DEF Dictionary!ReadBase, Dictionary!Local, ViewingSteps
<1> QED
  BY <1>4, <1>5, <1>6

----------------------------------------------------------------------------
(* Dictionaries: ids, parents and moves when the tree changes *)

LEMMA BaseInTree ==
  ASSUME Apart, DictionaryInv, TreeInv, NEW c \in Editors, ~Dictionary!At(c, "idle"),
         Dictionary!Ends(c), UNCHANGED <<overriding, edits, tangled>>,
         NEW k \in Dictionary!Entered, NEW row \in Dictionary!BaseRow,
         base' = [base EXCEPT ![k] = row], Dictionary!Exists(k) => row.owner = base[k].owner,
         k \in Items => row.parent \in Dictionary!Shown,
         k \in Items /\ Dictionary!Exists(k) =>
           row.parent \in {Dictionary!ParentOf(k), Nil} \/ Dictionary!MovesBase(editor[c]),
         ParentsEnd'
  PROVE  TreeInv'
<1>1. base'[k] = row /\ \A e \in Dictionary!Entered \ {k} : base'[e] = base[e]
  BY DEF DictionaryInv, EntriesFit
<1>2. row # Nil
  BY DEF Apart
<1>3. OwnersStay
  BY <1>1, <1>2 DEF OwnersStay, Dictionary!Exists
<1>4. /\ Dictionary!ParentOf(k)' = row.parent
      /\ \A i \in Items \ {k} : Dictionary!ParentOf(i)' = Dictionary!ParentOf(i)
  BY <1>1, <1>2 DEF Dictionary!ParentOf, Dictionary!Exists, Dictionary!Entered
<1>5. \A i \in Dictionary!Shown : i \in Dictionary!Shown'
  BY <1>3 DEF OwnersStay, Dictionary!Shown, Dictionary!Entered
<1>6. ParentsExist'
  BY <1>4, <1>5 DEF TreeInv, ParentsExist
<1>7. IdsCounted'
  <2>1. PICK m : m = Dictionary!Idle
    OBVIOUS
  <2>2. IdsOf(m) \subseteq {Nil} /\ Dictionary!Goes(c, m)
    BY <2>1, IdleRests DEF Rests, IdsOf, Dictionary!Ends
  <2> QED
    BY <2>2, IdsStay, IdsLive DEF TreeInv
<1>8. PICK m : m = Dictionary!Idle
  OBVIOUS
<1>9. Dictionary!Goes(c, m) /\ Rests(m)
  BY <1>8, IdleRests DEF Dictionary!Ends
<1>10. TreeFits(m)' /\ ~Dictionary!MovesBase(m)' /\ Cleared(m)'
  BY <1>9 DEF Rests, TreeFits, Dictionary!Shown, UndoingSteps, Dictionary!MovesBase, Cleared
<1>11. \A i \in Items :
         \/ Dictionary!Exists(i) => Dictionary!ParentOf(i)' \in {Dictionary!ParentOf(i), Nil}
         \/ Dictionary!MovesBase(editor[c])
  BY <1>4
<1> QED
  BY <1>3, <1>6, <1>7, <1>9, <1>10, <1>11, OthersStayInTree

LEMMA WriteBaseInTree ==
  ASSUME Apart, DictionaryInv, TreeInv, NEW c \in Editors, Dictionary!Write(c), editor[c].own = Nil
  PROVE  TreeInv'
<1>1. PICK l, k, row : l = editor[c] /\ k = l.entry /\ row = Dictionary!Changed(c, base[k])
  OBVIOUS
<1>2. /\ EditorFits(l) /\ TreeFits(l) /\ l.step = "write" /\ ~Dictionary!At(c, "idle")
      /\ Dictionary!Ends(c) /\ UNCHANGED <<overriding, edits, tangled>> /\ l.own = Nil
  BY <1>1 DEF DictionaryInv, TreeInv, Dictionary!Write, Dictionary!At
<1>3. /\ k \in Dictionary!Entered /\ l.parent \in Dictionary!Parents /\ l.seen \in Nat
      /\ l.moves \in BOOLEAN /\ l.parent \in Dictionary!Shown
  BY <1>1, <1>2 DEF EditorFits, TreeFits, ViewingSteps, UndoingSteps
<1>4. Dictionary!IsOwn(l.as, k) /\ Dictionary!Exists(k)
  BY <1>1, <1>2 DEF TreeFits, Dictionary!IsOwn
<1>5. base[k] \in Dictionary!BaseRow /\ Dictionary!ParentOf(k) = base[k].parent
  BY <1>3, <1>4 DEF DictionaryInv, EntriesFit, Dictionary!Exists, Dictionary!ParentOf
<1>6. /\ row \in Dictionary!BaseRow /\ row.owner = base[k].owner
      /\ row.parent = IF l.moves THEN l.parent ELSE Dictionary!ParentOf(k)
  BY <1>1, <1>3, <1>5, ChangedRows
<1>7. base' = [base EXCEPT ![k] = row]
  BY <1>1, <1>2 DEF Dictionary!Write, Dictionary!Target
<1>8. k \in Items => row.parent \in Dictionary!Shown
  BY <1>3, <1>6 DEF TreeInv, ParentsExist
<1>9. Dictionary!MovesBase(l) \/ row.parent \in {Dictionary!ParentOf(k), Nil}
  <2>1. k # Nil
    BY <1>3 DEF Apart, Dictionary!Entered
  <2> QED
    BY <1>1, <1>2, <1>4, <1>6, <2>1 DEF Dictionary!MovesBase
<1>10. /\ Dictionary!ParentOf(k)' = row.parent
       /\ \A i \in Items \ {k} : Dictionary!ParentOf(i)' = Dictionary!ParentOf(i)
  <2>1. base'[k] = row /\ \A e \in Dictionary!Entered \ {k} : base'[e] = base[e]
    BY <1>3, <1>7 DEF DictionaryInv, EntriesFit
  <2>2. row # Nil
    BY <1>6 DEF Apart
  <2> QED
    BY <2>1, <2>2 DEF Dictionary!ParentOf, Dictionary!Exists, Dictionary!Entered
<1>11. ASSUME ~tangled, NEW circle \in (SUBSET Items) \ {{}},
              \A i \in circle : Dictionary!ParentOf(i)' \in circle
       PROVE  FALSE
  <2>1. \A closed \in (SUBSET Items) \ {{}} : \E i \in closed : Dictionary!ParentOf(i) \notin closed
    BY <1>11 DEF TreeInv, ParentsEnd, Dictionary!ParentsEnd
  <2>2. k \in circle /\ row.parent # Dictionary!ParentOf(k)
    BY <1>10, <1>11, <2>1
  <2>3. row.parent \in circle /\ row.parent # Nil
    BY <1>10, <1>11, <2>2 DEF Apart
  <2>4. Dictionary!MovesBase(l) /\ row.parent = l.parent
    BY <1>6, <1>9, <2>2, <2>3
  <2>5. PICK above \in SUBSET Items : WentUp(l, above)
    BY <1>1, <1>2, <1>11, <2>4 DEF TreeInv, Cleared
  <2>6. PICK closed : closed = circle \cap above
    OBVIOUS
  <2>7. closed \in (SUBSET Items) \ {{}}
    BY <2>3, <2>4, <2>5, <2>6 DEF WentUp
  <2>8. \A i \in closed : Dictionary!ParentOf(i) \in closed
    <3> SUFFICES ASSUME NEW i \in closed
                 PROVE  Dictionary!ParentOf(i) \in circle /\ Dictionary!ParentOf(i) \in above
      BY <2>6
    <3>1. i # k /\ i \in circle /\ i \in Items
      BY <1>1, <2>5, <2>6 DEF WentUp
    <3>2. Dictionary!ParentOf(i) \in circle
      BY <1>10, <1>11, <3>1
    <3>3. Dictionary!ParentOf(i) \in above \cup {Nil}
      BY <2>5, <2>6 DEF WentUp
    <3> QED
      BY <3>2, <3>3 DEF Apart
  <2> QED
    BY <2>1, <2>7, <2>8
<1>12. ParentsEnd'
  BY <1>2, <1>11 DEF ParentsEnd, Dictionary!ParentsEnd
<1> QED
  BY <1>1, <1>2, <1>3, <1>6, <1>7, <1>8, <1>9, <1>12, BaseInTree

LEMMA InsertInTree ==
  ASSUME Apart, DictionaryInv, TreeInv, NEW c \in Editors, Dictionary!Insert(c)
  PROVE  TreeInv'
<1>1. PICK l, k, row :
        /\ l = editor[c] /\ k = l.entry
        /\ row = [owner |-> l.as, parent |-> l.parent, active |-> TRUE, version |-> 1]
  OBVIOUS
<1>2. /\ EditorFits(l) /\ TreeFits(l) /\ l.step = "insert" /\ ~Dictionary!At(c, "idle")
      /\ Dictionary!Ends(c) /\ UNCHANGED <<overriding, edits, tangled>>
  BY <1>1 DEF DictionaryInv, TreeInv, Dictionary!Insert, Dictionary!At
<1>3. /\ k \in Dictionary!Entered /\ l.as \in Dictionary!Actors /\ l.parent \in Dictionary!Parents
      /\ l.parent \in Dictionary!Shown
  BY <1>1, <1>2 DEF EditorFits, TreeFits, ViewingSteps, UndoingSteps
<1>4. row \in Dictionary!BaseRow /\ row.parent = l.parent
  BY <1>1, <1>3 DEF Dictionary!BaseRow
<1>5. CASE Dictionary!Exists(k)
  <2>1. UNCHANGED base
    BY <1>1, <1>5 DEF Dictionary!Insert
  <2> QED
    BY <1>2, <2>1, IdsLive, IdleRests, RestsInTree DEF Dictionary!Ends
<1>6. CASE ~Dictionary!Exists(k)
  <2>1. base' = [base EXCEPT ![k] = row]
    BY <1>1, <1>6 DEF Dictionary!Insert
  <2>2. /\ Dictionary!ParentOf(k)' = l.parent
        /\ \A i \in Items \ {k} : Dictionary!ParentOf(i)' = Dictionary!ParentOf(i)
    <3>1. base'[k] = row /\ \A e \in Dictionary!Entered \ {k} : base'[e] = base[e]
      BY <1>3, <2>1 DEF DictionaryInv, EntriesFit
    <3>2. row # Nil
      BY <1>4 DEF Apart
    <3> QED
      BY <1>4, <3>1, <3>2 DEF Dictionary!ParentOf, Dictionary!Exists, Dictionary!Entered
  <2>3. k \notin Dictionary!Shown
    BY <1>3, <1>6 DEF Apart, Dictionary!Shown, Dictionary!Entered
  <2>4. ASSUME ~tangled, NEW circle \in (SUBSET Items) \ {{}},
               \A i \in circle : Dictionary!ParentOf(i)' \in circle
        PROVE  FALSE
    <3>1. \A closed \in (SUBSET Items) \ {{}} : \E i \in closed : Dictionary!ParentOf(i) \notin closed
      BY <2>4 DEF TreeInv, ParentsEnd, Dictionary!ParentsEnd
    <3>2. k \in circle
      BY <2>2, <2>4, <3>1
    <3>3. l.parent \in circle \ {k}
      BY <1>3, <2>2, <2>3, <2>4, <3>2
    <3>4. \A i \in circle \ {k} : Dictionary!ParentOf(i) \in circle \ {k}
      BY <2>2, <2>3, <2>4 DEF TreeInv, ParentsExist
    <3> QED
      BY <3>1, <3>3, <3>4
  <2>5. ParentsEnd'
    BY <1>2, <2>4 DEF ParentsEnd, Dictionary!ParentsEnd
  <2> QED
    BY <1>2, <1>3, <1>4, <1>6, <2>1, <2>5, BaseInTree
<1> QED
  BY <1>5, <1>6

----------------------------------------------------------------------------
(* Dictionaries: ids, parents and moves when a request begins *)

LEMMA BegunInTree ==
  ASSUME Apart, DictionaryInv, TreeInv, NEW c \in Editors, NEW m, Dictionary!Begin(c, m), TreeFits(m),
         IdsOf(m) \subseteq LiveIds \cup {Nil}, m.step = "load" \/ m.moves \in {FALSE}
  PROVE  TreeInv'
<1>1. PICK l : l = editor[c]
  OBVIOUS
<1>2. /\ edits < EditBound /\ edits' = edits + 1 /\ Dictionary!Goes(c, m) /\ UNCHANGED <<base, overriding>>
      /\ tangled' = (tangled \/ (Dictionary!MovesBase(m) /\ \E d \in Editors : Dictionary!MovesBase(editor[d])))
  BY DEF Dictionary!Begin, Dictionary!tables
<1>3. IdsOf(m) \subseteq IdsOf(l) \cup LiveIds \cup {Nil} /\ LiveIds' \subseteq LiveIds
  BY <1>2, IdsLive
<1>4. Cleared(m)
  BY DEF Cleared, Dictionary!MovesBase
<1>5. tangled' \/ (/\ ~tangled /\ Cleared(m)
                   /\ Dictionary!MovesBase(m) =>
                        \A d \in Editors \ {c} : ~Dictionary!MovesBase(editor[d]))
  BY <1>2, <1>4
<1> QED
  BY <1>1, <1>2, <1>3, <1>5, QuietInTree

LEMMA NamesInTree ==
  ASSUME EntriesFit, NEW l, NamesEntry(l)
  PROVE  IdsOf(l) \subseteq LiveIds \cup {Nil}
<1>1. PICK op, as, e :
        /\ as \in Dictionary!Actors /\ e \in Dictionary!Entered
        /\ l \in Dictionary!Names(Dictionary!Starts(op, "load", as, e))
  BY DEF NamesEntry
<1>2. PICK i, j : i = Dictionary!Idle /\ j = Dictionary!Starts(op, "load", as, e)
  OBVIOUS
<1>3. DOMAIN i = EditorFields /\ Rests(i)
  BY <1>2, IdleFields, IdleRests
<1>4. j = [i EXCEPT !.op = op, !.step = "load", !.as = as, !.entry = e]
  BY <1>2 DEF Dictionary!Starts
<1>5. DOMAIN j = EditorFields /\ j.as = as /\ j.entry = e /\ j.own = Nil /\ j.doomed = {}
  BY ONLY <1>3, <1>4 DEF EditorFields, Rests
<1>6. PICK row : row = overriding[as][e]
  OBVIOUS
<1>7. \/ \E seen : l = [j EXCEPT !.seen = seen]
      \/ /\ as # Platform /\ row # Nil
         /\ \E seen : l = [j EXCEPT !.seen = seen, !.own = row.id]
  BY <1>1, <1>2, <1>5, <1>6 DEF Dictionary!Names
<1>8. PICK seen :
        \/ l = [j EXCEPT !.seen = seen]
        \/ as # Platform /\ row # Nil /\ l = [j EXCEPT !.seen = seen, !.own = row.id]
  BY <1>7
<1>9. l.doomed = {} /\ (l.own = Nil \/ (as # Platform /\ row # Nil /\ l.own = row.id))
  BY ONLY <1>5, <1>8 DEF EditorFields
<1>10. as # Platform /\ row # Nil => row.id \in LiveIds
  BY <1>1, <1>6, LiveId DEF Dictionary!Actors
<1> QED
  BY <1>9, <1>10 DEF IdsOf

LEMMA BeginUpdateInTree ==
  ASSUME Apart, DictionaryInv, TreeInv, NEW c \in Editors,
         Dictionary!BeginUpdate(c) \/ Dictionary!BeginToggle(c)
  PROVE  TreeInv'
<1>1. PICK j :
        /\ NamesEntry(j)
        /\ \/ Dictionary!Begin(c, j)
           \/ \E parent \in Dictionary!Shown :
                Dictionary!Begin(c, [j EXCEPT !.moves = TRUE, !.parent = parent])
  BY DEF NamesEntry, Dictionary!BeginUpdate, Dictionary!BeginToggle
<1>2. /\ EditorFits(j) /\ j.step = "load" /\ j.op \in {"update", "toggle"} /\ j.parent = Nil
      /\ j.moves \in {FALSE} /\ IdsOf(j) \subseteq LiveIds \cup {Nil}
  BY <1>1, NamesFit, NamesInTree DEF DictionaryInv
<1>3. CASE Dictionary!Begin(c, j)
  <2>1. TreeFits(j)
    BY <1>2 DEF TreeFits, Dictionary!Shown, UndoingSteps
  <2> QED
    BY <1>2, <1>3, <2>1, BegunInTree
<1>4. ASSUME NEW parent \in Dictionary!Shown,
             Dictionary!Begin(c, [j EXCEPT !.moves = TRUE, !.parent = parent])
      PROVE  TreeInv'
  <2>1. PICK l : l = [j EXCEPT !.moves = TRUE, !.parent = parent]
    OBVIOUS
  <2>2. DOMAIN j = EditorFields
    BY <1>2 DEF EditorFits
  <2>3. /\ l.op = j.op /\ l.step = j.step /\ l.parent = parent /\ l.own = j.own /\ l.doomed = j.doomed
    BY ONLY <2>1, <2>2 DEF EditorFields
  <2>4. TreeFits(l)
    BY <1>2, <2>3 DEF TreeFits, MovingSteps, UndoingSteps
  <2>5. IdsOf(l) = IdsOf(j)
    BY <2>3 DEF IdsOf
  <2> QED
    BY <1>2, <1>4, <2>1, <2>3, <2>4, <2>5, BegunInTree
<1> QED
  BY <1>1, <1>3, <1>4

LEMMA BeginResetInTree ==
  ASSUME Apart, DictionaryInv, TreeInv, NEW c \in Editors, Dictionary!BeginReset(c)
  PROVE  TreeInv'
<1>1. PICK t \in Tenants, e \in Dictionary!Entered :
        /\ overriding[t][e] # Nil
        /\ Dictionary!Begin(c, [Dictionary!Starts("reset", "load", t, e)
                                  EXCEPT !.own = overriding[t][e].id])
  BY DEF Dictionary!BeginReset
<1>2. PICK i, l, own :
        /\ i = Dictionary!Idle /\ own = overriding[t][e].id
        /\ l = [Dictionary!Starts("reset", "load", t, e) EXCEPT !.own = own]
  OBVIOUS
<1>3. DOMAIN i = EditorFields /\ Rests(i)
  BY <1>2, IdleFields, IdleRests
<1>4. PICK j : j = [i EXCEPT !.op = "reset", !.step = "load", !.as = t, !.entry = e]
  OBVIOUS
<1>5. l = [j EXCEPT !.own = own]
  BY <1>2, <1>4 DEF Dictionary!Starts
<1>6. /\ l.op = "reset" /\ l.step = "load" /\ l.as = t /\ l.parent = Nil /\ l.moves \in {FALSE}
      /\ l.own = own /\ l.doomed = {}
  BY ONLY <1>3, <1>4, <1>5 DEF EditorFields, Rests
<1>7. TreeFits(l)
  BY <1>6 DEF TreeFits, Dictionary!Shown, UndoingSteps
<1>8. IdsOf(l) \subseteq LiveIds \cup {Nil}
  BY <1>1, <1>2, <1>6, LiveId DEF IdsOf
<1> QED
  BY <1>1, <1>2, <1>6, <1>7, <1>8, BegunInTree

LEMMA BeginCreateInTree ==
  ASSUME Apart, DictionaryInv, TreeInv, NEW c \in Editors, Dictionary!BeginCreate(c)
  PROVE  TreeInv'
<1>1. PICK as \in Dictionary!Actors, e \in Dictionary!Entered, parent \in Dictionary!Shown,
           step \in {"insert", "depth"} :
        Dictionary!Begin(c, [Dictionary!Starts("create", step, as, e) EXCEPT !.parent = parent, !.at = parent])
  BY DEF Dictionary!BeginCreate
<1>2. PICK i, l :
        /\ i = Dictionary!Idle
        /\ l = [Dictionary!Starts("create", step, as, e) EXCEPT !.parent = parent, !.at = parent]
  OBVIOUS
<1>3. DOMAIN i = EditorFields /\ Rests(i)
  BY <1>2, IdleFields, IdleRests
<1>4. PICK j : j = [i EXCEPT !.op = "create", !.step = step, !.as = as, !.entry = e]
  OBVIOUS
<1>5. l = [j EXCEPT !.parent = parent, !.at = parent]
  BY <1>2, <1>4 DEF Dictionary!Starts
<1>6. /\ l.step = step /\ l.parent = parent /\ l.moves \in {FALSE} /\ l.own = Nil /\ l.doomed = {}
  BY ONLY <1>3, <1>4, <1>5 DEF EditorFields, Rests
<1>7. TreeFits(l) /\ IdsOf(l) \subseteq {Nil}
  BY <1>6 DEF TreeFits, UndoingSteps, IdsOf
<1> QED
  BY <1>1, <1>2, <1>6, <1>7, BegunInTree

LEMMA BeginViewInTree ==
  ASSUME Apart, DictionaryInv, TreeInv, NEW c \in Editors, Dictionary!BeginView(c)
  PROVE  TreeInv'
<1>1. PICK t \in Tenants, listing \in Types \cup {Nil} :
        Dictionary!Begin(c, Dictionary!Starts("view", "read_overrides", t, listing))
  BY DEF Dictionary!BeginView
<1>2. PICK i, m : i = Dictionary!Idle /\ m = Dictionary!Starts("view", "read_overrides", t, listing)
  OBVIOUS
<1>3. DOMAIN i = EditorFields /\ Rests(i)
  BY <1>2, IdleFields, IdleRests
<1>4. m = [i EXCEPT !.op = "view", !.step = "read_overrides", !.as = t, !.entry = listing]
  BY <1>2 DEF Dictionary!Starts
<1>5. /\ m.step = "read_overrides" /\ m.parent = Nil /\ m.moves \in {FALSE} /\ m.own = Nil
      /\ m.doomed = {}
  BY ONLY <1>3, <1>4 DEF EditorFields, Rests
<1>6. TreeFits(m) /\ IdsOf(m) \subseteq {Nil}
  BY <1>5 DEF TreeFits, UndoingSteps, IdsOf, Dictionary!Shown
<1> QED
  BY <1>1, <1>2, <1>5, <1>6, BegunInTree

----------------------------------------------------------------------------
(* Dictionaries: the tree beside the other components *)

LEMMA TreeKeeps ==
  ASSUME Apart, DictionaryInv, TreeInv, Dictionary!Next
  PROVE  TreeInv'
<1>1. PICK c \in Editors :
        Dictionary!Begins(c) \/ Dictionary!Checks(c) \/ Dictionary!Changes(c) \/ Dictionary!Views(c)
  BY DEF Dictionary!Next
<1>2. CASE Dictionary!Begins(c)
  BY <1>2, BeginUpdateInTree, BeginResetInTree, BeginCreateInTree, BeginViewInTree DEF Dictionary!Begins
<1>3. CASE Dictionary!Checks(c)
  BY <1>3, LoadInTree, CircularInTree, DepthInTree, FindForkInTree, CheckInTree DEF Dictionary!Checks
<1>4. CASE Dictionary!Changes(c)
  BY <1>4, WriteForkInTree, WriteBaseInTree, InsertForkInTree, InsertInTree, FindDoomedInTree,
     DropInTree, ListOverridesInTree DEF Dictionary!Changes
<1>5. ASSUME Dictionary!Close(c)
      PROVE  TreeInv'
  BY <1>5, EndsInTree DEF Dictionary!Close, Dictionary!At
<1>6. CASE Dictionary!Views(c)
  BY <1>5, <1>6, ReadsInTree DEF Dictionary!Views
<1> QED
  BY <1>1, <1>2, <1>3, <1>4, <1>6

LEMMA TreeStarts ==
  ASSUME Apart, Dictionary!Init
  PROVE  TreeInv
<1>1. \A e \in Dictionary!Entered \cap Seeded : Dictionary!FirstParent(e) \in Dictionary!Parents
  BY DEF Apart, Dictionary!FirstParent, Dictionary!Parents
<1>2. /\ \A e \in Dictionary!Entered : e \in Seeded <=> Dictionary!Exists(e)
      /\ \A e \in Dictionary!Entered \cap Seeded : base[e].parent = Dictionary!FirstParent(e)
  <2>1. \A e \in Dictionary!Entered \cap Seeded :
          [owner |-> Platform, parent |-> Dictionary!FirstParent(e), active |-> TRUE, version |-> 1]
            \in Dictionary!BaseRow
    BY <1>1 DEF Dictionary!BaseRow, Dictionary!Actors
  <2> QED
    BY <2>1 DEF Apart, Dictionary!Init, Dictionary!Exists
<1>3. \A i \in Items : Dictionary!ParentOf(i) = IF i \in Seeded THEN Above[i] ELSE Nil
  BY <1>2 DEF Dictionary!ParentOf, Dictionary!FirstParent, Dictionary!Entered
<1>4. ParentsExist
  BY <1>2, <1>3 DEF Apart, ParentsExist, Dictionary!Shown, Dictionary!Entered
<1>5. ParentsEnd
  <2> SUFFICES ASSUME NEW circle \in (SUBSET Items) \ {{}},
                      \A i \in circle : Dictionary!ParentOf(i) \in circle
               PROVE  FALSE
    BY DEF ParentsEnd, Dictionary!ParentsEnd
  <2>1. circle \subseteq Seeded \cap Items
    BY <1>3 DEF Apart
  <2>2. PICK i \in circle : Above[i] \notin circle
    BY <2>1 DEF Apart
  <2> QED
    BY <1>3, <2>1, <2>2
<1>6. PICK m : m = Dictionary!Idle
  OBVIOUS
<1>7. Rests(m) /\ \A c \in Editors : editor[c] = m
  BY <1>6, IdleRests DEF Dictionary!Init
<1>8. TreeFits(m) /\ Cleared(m) /\ ~Dictionary!MovesBase(m) /\ IdsOf(m) \subseteq {Nil}
  BY <1>7 DEF Rests, TreeFits, Cleared, Dictionary!MovesBase, IdsOf, Dictionary!Shown, UndoingSteps
<1>9. IdsCounted
  <2>1. Busy = {}
    BY <1>7 DEF Busy, Dictionary!At, Rests
  <2>2. LiveIds \subseteq {0}
    <3>1. \A t \in Tenants, e \in Dictionary!Entered :
            overriding[t][e] # Nil => overriding[t][e].id = 0
      BY DEF Dictionary!Init
    <3>2. ASSUME NEW pair \in Tenants \X Dictionary!Entered, overriding[pair[1]][pair[2]] # Nil
          PROVE  overriding[pair[1]][pair[2]].id = 0
      BY <3>1, <3>2
    <3> QED
      BY <3>2 DEF LiveIds
  <2>3. IdsAmong({0})
    BY <1>7, <1>8, <2>2 DEF IdsAmong
  <2>4. Cardinality({0}) = 1
    BY FS_Singleton
  <2>5. Cardinality(Busy) = 0 /\ IsFiniteSet(Busy)
    BY <2>1, FS_EmptySet
  <2>6. edits = 0 /\ edits \in 0..EditBound /\ {0} \in SUBSET (0..EditBound)
    BY DEF Apart, Dictionary!Init
  <2>7. Cardinality({0}) + Cardinality(Busy) <= edits + 1
    BY <2>4, <2>5, <2>6
  <2> QED
    BY <2>3, <2>5, <2>6, <2>7 DEF IdsCounted
<1> QED
  BY <1>4, <1>5, <1>7, <1>8, <1>9 DEF TreeInv, OneMove

\* TreeInv follows a move on its way up: whatever the others do meanwhile, the items it has passed have
\* their parents among themselves and where it is now, and it has not met its own item.  Only a second
\* move could send one of them elsewhere.
THEOREM ParentsEndAtRoots == SpecOfOne => []ParentsEnd
<1>1. InitOfOne => DictionaryInv /\ TreeInv
  BY ApartAssumption, DictionaryStarts, TreeStarts DEF InitOfOne, Apart
<1>2. DictionaryInv /\ TreeInv /\ [NextOfOne]_allVars => (DictionaryInv /\ TreeInv)'
  <2> SUFFICES ASSUME DictionaryInv, TreeInv, [NextOfOne]_allVars
               PROVE  DictionaryInv' /\ TreeInv'
    OBVIOUS
  <2>1. DictionaryInv'
    BY DictionaryStays
  <2>2. CASE Dictionary!Next
    BY <2>1, <2>2, ApartAssumption, TreeKeeps DEF Apart
  <2>3. CASE UNCHANGED dictionaryVars
    <3>1. IdsCounted'
      <4>1. Busy' = Busy /\ LiveIds' = LiveIds
        BY <2>3 DEF dictionaryVars, Busy, LiveIds, Dictionary!At
      <4>2. \A c \in Editors : IdsOf(editor[c])' = IdsOf(editor[c])
        BY <2>3 DEF dictionaryVars
      <4>3. \A ids : IdsAmong(ids) => IdsAmong(ids)'
        BY <4>1, <4>2 DEF IdsAmong
      <4> QED
        BY <2>3, <4>1, <4>3 DEF TreeInv, dictionaryVars, IdsCounted
    <3>2. OwnersStay /\ \A i : Dictionary!ParentOf(i)' = Dictionary!ParentOf(i)
      BY <2>3 DEF dictionaryVars, OwnersStay, Dictionary!Exists, Dictionary!ParentOf
    <3>3. ParentsExist'
      BY <2>3, <3>2 DEF dictionaryVars, TreeInv, ParentsExist, Dictionary!Shown, Dictionary!Exists
    <3>4. ParentsEnd'
      BY <2>3, <3>2 DEF dictionaryVars, TreeInv, ParentsEnd, Dictionary!ParentsEnd
    <3>5. ASSUME NEW c \in Editors
          PROVE  /\ TreeFits(editor[c])' /\ (Cleared(editor[c]) => Cleared(editor[c])')
                 /\ Dictionary!MovesBase(editor[c])' <=> Dictionary!MovesBase(editor[c])
      <4>1. PICK l : l = editor[c]
        OBVIOUS
      <4>2. EditorFits(l) /\ TreeFits(l) /\ editor'[c] = l
        BY <2>3, <4>1 DEF dictionaryVars, DictionaryInv, TreeInv
      <4>3. TreeFits(l)' /\ (Cleared(l) => Cleared(l)')
        BY <3>2, <4>2, TreeStillFits, ClearedStays
      <4>4. Dictionary!MovesBase(l)' <=> Dictionary!MovesBase(l)
        BY <3>2, <4>2, MovesStay
      <4> QED
        BY <4>1, <4>2, <4>3, <4>4
    <3>6. OneMove => OneMove'
      BY <3>5 DEF OneMove
    <3>7. tangled' \/ (OneMove' /\ \A c \in Editors : Cleared(editor[c])')
      <4>1. tangled' = tangled
        BY <2>3 DEF dictionaryVars
      <4>2. tangled \/ (OneMove /\ \A c \in Editors : Cleared(editor[c]))
        BY DEF TreeInv
      <4> QED
        BY <3>5, <3>6, <4>1, <4>2
    <3> QED
      BY <2>1, <3>1, <3>3, <3>4, <3>5, <3>7 DEF TreeInv
  <2> QED
    BY <2>2, <2>3 DEF NextOfOne, Translating, allVars, dictionaryVars
<1>3. TreeInv => ParentsEnd
  BY DEF TreeInv
<1> QED
  BY <1>1, <1>2, <1>3, PTL DEF SpecOfOne

----------------------------------------------------------------------------
(* Translations: the inductive invariant *)

RowFields == {"scope", "locale", "key", "text", "by"}

IsRevision(v) == DOMAIN v = {"scope", "locale", "number", "by"} /\ v.number \in Nat

WriteFields == {"pc", "kind", "scope", "locale", "keys", "unfound", "text", "plan", "revision"}

\* What a write has found is of its scope and locale.
WriteFits(m) ==
  /\ DOMAIN m = WriteFields /\ m.kind \in {"upsert", "update", "sync"}
  /\ \A p \in m.plan :
       DOMAIN p.row = RowFields /\ p.row.scope = m.scope /\ p.row.locale = m.locale
  /\ m.revision # Nil =>
       IsRevision(m.revision) /\ m.revision.scope = m.scope /\ m.revision.locale = m.locale

\* A scope and locale has one revision, if any.
OneRevision(scope, locale) ==
  \A u, v \in Translator!RevisionsOf(scope, locale) : u = v

\* Revisions only rise: an ETag that was made of b's is not above them.
NotAbove(b, etag) ==
  /\ etag[1] \in Nat /\ \A n \in Translator!Numbers(Global, b[2]) : etag[1] <= n
  /\ etag[2] \in Nat /\ \A n \in Translator!Numbers(b[1], b[2]) : etag[2] <= n \/ b[1] = Global

\* The rows under b's in a client's own locale are the base locale's.
Beneath(b) == IF b[2] = Base THEN {Translator!NoEntries} ELSE Translator!Listings(Global, Base)

\* What is held under an ETag of b is b's while the ETag is.
Tells(b, etag, texts) ==
  NotAbove(b, etag) /\ (etag \in Translator!Current(b) => texts \in Translator!Resolved(b))

RequestFields == {"pc", "want", "etag", "unread", "own", "base"}

\* A request reads the revisions before the rows, so that what it has read is what they number.
RequestFits(b, q) ==
  /\ NotAbove(b, q.etag)
  /\ q.pc \notin {"rows", "keep"} => q.base = Translator!NoEntries
  /\ q.pc = "rows" /\ q.etag \in Translator!Current(b) =>
       /\ "own" \in q.unread \/ q.own \in Translator!Listings(Global, b[2])
       /\ "base" \in q.unread \/ q.base \in Beneath(b)
  /\ q.pc = "rows" /\ b[2] = Base => "base" \notin q.unread
  /\ q.pc = "keep" /\ q.want = "bundle" /\ q.etag \in Translator!Current(b) =>
       q.own \in Translator!Resolved(b)

TablesFit ==
  /\ \A r \in rows : DOMAIN r = RowFields
  /\ \A v \in revisions : IsRevision(v)
  /\ \A b \in Translator!Bundles \ blurred : OneRevision(Global, b[2]) /\ OneRevision(b[1], b[2])

EtagInv ==
  /\ TablesFit
  /\ DOMAIN write = Writes /\ \A w \in Writes : WriteFits(write[w])
  /\ DOMAIN bundles = Translator!Bundles /\ DOMAIN held = Clients /\ DOMAIN request = Clients
  /\ \A b \in Translator!Bundles \ blurred :
       bundles[b] # Nil => Tells(b, bundles[b].etag, bundles[b].entries)
  /\ \A c \in Clients :
       /\ DOMAIN request[c] = RequestFields
       /\ View[c] \notin blurred =>
            /\ held[c] # Nil => Tells(View[c], held[c].etag, held[c].entries)
            /\ RequestFits(View[c], request[c])

----------------------------------------------------------------------------
(* Translations: what a commit does to a bundle whose revisions tell *)

LEMMA RowsElsewhere ==
  ASSUME NEW w \in Writes, NEW m, m = write[w], WriteFits(m), rows' = Translator!Applied(w),
         NEW scope, NEW locale, <<scope, locale>> # <<m.scope, m.locale>>
  PROVE  /\ Translator!RowsOf(scope, locale)' = Translator!RowsOf(scope, locale)
         /\ Translator!Listings(scope, locale)' = Translator!Listings(scope, locale)
<1>1. ASSUME NEW r \in rows, r.scope = scope, r.locale = locale, NEW p \in m.plan
      PROVE  Translator!Cell(r) # Translator!Cell(p.row)
  BY <1>1 DEF Translator!Cell, WriteFits
<1>2. ASSUME NEW p \in m.plan, NEW x, x = [p.row EXCEPT !.text = p.text]
      PROVE  x.scope = m.scope /\ x.locale = m.locale
  BY <1>2 DEF WriteFits, RowFields
<1>3. Translator!RowsOf(scope, locale)' = Translator!RowsOf(scope, locale)
  <2>1. ASSUME NEW r \in rows, r.scope = scope, r.locale = locale
        PROVE  r \in rows'
    BY <1>1, <2>1 DEF Translator!Applied
  <2>2. ASSUME NEW r \in rows', r.scope = scope, r.locale = locale
        PROVE  r \in rows
    BY <1>2, <2>2 DEF Translator!Applied
  <2> QED
    BY <2>1, <2>2 DEF Translator!RowsOf
<1>4. \A k : Translator!RowsFor(scope, locale, k)' = Translator!RowsFor(scope, locale, k)
  BY <1>3 DEF Translator!RowsFor
<1> QED
  BY <1>3, <1>4 DEF Translator!Listings

LEMMA AppliedRows ==
  ASSUME NEW w \in Writes, WriteFits(write[w]), TablesFit, rows' = Translator!Applied(w)
  PROVE  \A r \in rows' : DOMAIN r = RowFields
BY DEF Translator!Applied, WriteFits, TablesFit

\* A bump changes revisions of the write's scope and locale only.
LEMMA BumpedRevisions ==
  ASSUME NEW w \in Writes, NEW m, m = write[w], WriteFits(m), TablesFit
  PROVE  /\ \A x \in Translator!Bumped(w) :
              /\ IsRevision(x)
              /\ <<x.scope, x.locale>> # <<m.scope, m.locale>> => x \in revisions
         /\ \A u \in revisions :
              <<u.scope, u.locale>> # <<m.scope, m.locale>> => u \in Translator!Bumped(w)
<1>1. PICK v : v = m.revision
  OBVIOUS
<1>2. CASE v = Nil
  <2>1. PICK x : x = [scope |-> m.scope, locale |-> m.locale, number |-> 1, by |-> w]
    OBVIOUS
  <2>2. IsRevision(x) /\ x.scope = m.scope /\ x.locale = m.locale
    BY <2>1 DEF IsRevision
  <2>3. Translator!Bumped(w) = revisions \cup {x}
    BY <1>1, <1>2, <2>1 DEF Translator!Bumped
  <2> QED
    BY <2>2, <2>3 DEF TablesFit
<1>3. CASE v # Nil
  <2>1. IsRevision(v) /\ v.scope = m.scope /\ v.locale = m.locale
    BY <1>1, <1>3 DEF WriteFits
  <2> DEFINE new(u) == IF <<u.scope, u.locale, u.by>> = <<v.scope, v.locale, v.by>>
                       THEN [u EXCEPT !.number = v.number + 1] ELSE u
  <2>2. Translator!Bumped(w) = {new(u) : u \in revisions}
    BY <1>1, <1>3 DEF Translator!Bumped
  <2>3. ASSUME NEW u \in revisions
        PROVE  /\ IsRevision(new(u)) /\ new(u).scope = u.scope /\ new(u).locale = u.locale
               /\ <<u.scope, u.locale>> # <<m.scope, m.locale>> => new(u) = u
    BY <2>1 DEF IsRevision, TablesFit
  <2> HIDE DEF new
  <2> QED
    BY <2>2, <2>3
<1> QED
  BY <1>2, <1>3

\* Where the revision that was read is still the one there is, it is one higher afterwards.
LEMMA BumpRaises ==
  ASSUME NEW w \in Writes, NEW m, m = write[w], WriteFits(m), TablesFit,
         Translator!RevisionsOf(m.scope, m.locale) = {m.revision} \ {Nil}
  PROVE  \E x : /\ \A y \in Translator!Bumped(w) : <<y.scope, y.locale>> = <<m.scope, m.locale>> => y = x
                /\ x \in Translator!Bumped(w) /\ x.scope = m.scope /\ x.locale = m.locale
                /\ \A n \in Translator!Numbers(m.scope, m.locale) : n \in Nat /\ x.number = n + 1
<1>1. PICK v : v = m.revision
  OBVIOUS
<1>2. CASE v = Nil
  <2>1. PICK x : x = [scope |-> m.scope, locale |-> m.locale, number |-> 1, by |-> w]
    OBVIOUS
  <2>2. x.scope = m.scope /\ x.locale = m.locale /\ x.number = 1
    BY <2>1
  <2>3. Translator!Bumped(w) = revisions \cup {x}
    BY <1>1, <1>2, <2>1 DEF Translator!Bumped
  <2>4. Translator!RevisionsOf(m.scope, m.locale) = {}
    BY <1>1, <1>2
  <2>5. Translator!Numbers(m.scope, m.locale) = {0}
    BY <2>4 DEF Translator!Numbers
  <2>6. \A y \in Translator!Bumped(w) : <<y.scope, y.locale>> = <<m.scope, m.locale>> => y = x
    BY <2>3, <2>4 DEF Translator!RevisionsOf
  <2> QED
    BY <2>2, <2>3, <2>5, <2>6
<1>3. CASE v # Nil
  <2>1. IsRevision(v) /\ v.scope = m.scope /\ v.locale = m.locale
    BY <1>1, <1>3 DEF WriteFits
  <2>2. Translator!RevisionsOf(m.scope, m.locale) = {v}
    BY <1>1, <1>3
  <2>3. v \in revisions /\ \A u \in revisions : u.scope = m.scope /\ u.locale = m.locale => u = v
    BY <2>2 DEF Translator!RevisionsOf
  <2> DEFINE new(u) == IF <<u.scope, u.locale, u.by>> = <<v.scope, v.locale, v.by>>
                       THEN [u EXCEPT !.number = v.number + 1] ELSE u
  <2>4. Translator!Bumped(w) = {new(u) : u \in revisions}
    BY <1>1, <1>3 DEF Translator!Bumped
  <2>5. \A u \in revisions : new(u).scope = u.scope /\ new(u).locale = u.locale
    BY DEF IsRevision, TablesFit
  <2>6. PICK x : x = new(v)
    OBVIOUS
  <2>7. x.scope = m.scope /\ x.locale = m.locale /\ x.number = v.number + 1
    BY <2>1, <2>6 DEF IsRevision
  <2> HIDE DEF new
  <2>8. x \in Translator!Bumped(w)
    BY <2>3, <2>4, <2>6
  <2>9. \A y \in Translator!Bumped(w) : <<y.scope, y.locale>> = <<m.scope, m.locale>> => y = x
    BY <2>3, <2>4, <2>5, <2>6
  <2>10. Translator!Numbers(m.scope, m.locale) = {v.number}
    BY <2>2 DEF Translator!Numbers
  <2> QED
    BY <2>1, <2>7, <2>8, <2>9, <2>10 DEF IsRevision
<1> QED
  BY <1>2, <1>3

\* A global bump leaves the global revisions and those of other locales alone, and raises the others.
LEMMA CascadedRevisions ==
  ASSUME NEW w \in Writes, NEW m, m = write[w], NEW bumped, \A u \in bumped : IsRevision(u)
  PROVE  /\ \A x \in Translator!Cascaded(w, bumped) :
              /\ IsRevision(x)
              /\ \E u \in bumped :
                   /\ x.scope = u.scope /\ x.locale = u.locale
                   /\ IF u.scope # Global /\ u.locale = m.locale THEN x = [u EXCEPT !.number = @ + 1] ELSE x = u
         /\ \A u \in bumped :
              /\ u.scope = Global \/ u.locale # m.locale => u \in Translator!Cascaded(w, bumped)
              /\ \E x \in Translator!Cascaded(w, bumped) : x.scope = u.scope /\ x.locale = u.locale
<1> DEFINE new(u) ==
             IF u.scope # Global /\ u.locale = m.locale THEN [u EXCEPT !.number = @ + 1] ELSE u
<1>1. Translator!Cascaded(w, bumped) = {new(u) : u \in bumped}
  BY DEF Translator!Cascaded
<1>2. ASSUME NEW u \in bumped
      PROVE  /\ IsRevision(new(u)) /\ new(u).scope = u.scope /\ new(u).locale = u.locale
             /\ u.scope = Global \/ u.locale # m.locale => new(u) = u
             /\ IF u.scope # Global /\ u.locale = m.locale
                THEN new(u) = [u EXCEPT !.number = @ + 1] ELSE new(u) = u
  BY DEF IsRevision
<1> HIDE DEF new
<1> QED
  BY <1>1, <1>2

LEMMA NumbersAre ==
  ASSUME NEW scope, NEW locale, TablesFit
  PROVE  /\ \E n \in Translator!Numbers(scope, locale) : TRUE
         /\ Translator!Numbers(scope, locale) \subseteq Nat
BY DEF Translator!Numbers, Translator!RevisionsOf, TablesFit, IsRevision

\* The rows and the revisions that a bundle is made of stay as they are.
Steady(b) ==
  /\ Translator!Listings(Global, b[2])' = Translator!Listings(Global, b[2])
  /\ Translator!Listings(b[1], b[2])' = Translator!Listings(b[1], b[2])
  /\ b[2] # Base => Translator!Listings(Global, Base)' = Translator!Listings(Global, Base)
  /\ Translator!RevisionsOf(Global, b[2])' = Translator!RevisionsOf(Global, b[2])
  /\ Translator!RevisionsOf(b[1], b[2])' = Translator!RevisionsOf(b[1], b[2])

\* No ETag that was made before is the bundle's any more.
Raised(b) == \A e : NotAbove(b, e) => NotAbove(b, e)' /\ e \notin Translator!Current(b)'

Commits(w) ==
  /\ rows' = Translator!Applied(w)
  /\ revisions' = IF write[w].scope = Global THEN Translator!Cascaded(w, Translator!Bumped(w))
                  ELSE Translator!Bumped(w)

LEMMA CommittedTables ==
  ASSUME NEW w \in Writes, WriteFits(write[w]), TablesFit, Commits(w)
  PROVE  (\A r \in rows' : DOMAIN r = RowFields) /\ (\A v \in revisions' : IsRevision(v))
<1>1. \A r \in rows' : DOMAIN r = RowFields
  BY AppliedRows DEF Commits
<1>2. \A x \in Translator!Bumped(w) : IsRevision(x)
  BY BumpedRevisions
<1>3. \A x \in Translator!Cascaded(w, Translator!Bumped(w)) : IsRevision(x)
  BY <1>2, CascadedRevisions
<1> QED
  BY <1>1, <1>2, <1>3 DEF Commits

\* A commit to other rows than the bundle's.
LEMMA CommitElsewhere ==
  ASSUME NEW w \in Writes, NEW m, m = write[w], WriteFits(m), TablesFit, Commits(w),
         NEW b \in Translator!Bundles, ~(m.scope \in {Global, b[1]} /\ m.locale = b[2]),
         ~(m.scope = Global /\ m.locale = Base /\ b[2] # Base)
  PROVE  Steady(b)
<1>1. <<Global, b[2]>> # <<m.scope, m.locale>> /\ <<b[1], b[2]>> # <<m.scope, m.locale>>
  OBVIOUS
<1>2. b[2] # Base => <<Global, Base>> # <<m.scope, m.locale>>
  OBVIOUS
<1>3. ASSUME NEW scope \in {Global, b[1]}
      PROVE  Translator!RevisionsOf(scope, b[2])' = Translator!RevisionsOf(scope, b[2])
  <2>1. \A u : u.scope = scope /\ u.locale = b[2] => <<u.scope, u.locale>> # <<m.scope, m.locale>>
    BY <1>1, <1>3
  <2>2. ASSUME NEW u, u.scope = scope, u.locale = b[2]
        PROVE  u \in revisions <=> u \in Translator!Bumped(w)
    BY <2>1, <2>2, BumpedRevisions
  <2>3. CASE m.scope # Global
    <3>1. revisions' = Translator!Bumped(w)
      BY <2>3 DEF Commits
    <3> QED
      BY <2>2, <3>1 DEF Translator!RevisionsOf
  <2>4. CASE m.scope = Global
    <3>1. m.locale # b[2]
      BY <2>4
    <3>2. revisions' = Translator!Cascaded(w, Translator!Bumped(w))
      BY <2>4 DEF Commits
    <3>3. \A u \in Translator!Bumped(w) : IsRevision(u)
      BY BumpedRevisions
    <3>4. ASSUME NEW u, u.scope = scope, u.locale = b[2]
          PROVE  u \in revisions' <=> u \in Translator!Bumped(w)
      BY <3>1, <3>2, <3>3, <3>4, CascadedRevisions
    <3> QED
      BY <2>2, <3>4 DEF Translator!RevisionsOf
  <2> QED
    BY <2>3, <2>4
<1>4. rows' = Translator!Applied(w)
  BY DEF Commits
<1>5. \A scope, locale : <<scope, locale>> # <<m.scope, m.locale>> =>
         Translator!Listings(scope, locale)' = Translator!Listings(scope, locale)
  BY <1>4, RowsElsewhere
<1> QED
  BY <1>1, <1>2, <1>3, <1>5 DEF Steady

\* A global commit in the bundle's locale that finds the revision it has read.
LEMMA CommitGlobally ==
  ASSUME NEW w \in Writes, NEW m, m = write[w], WriteFits(m), TablesFit, Commits(w),
         NEW b \in Translator!Bundles, b \notin blurred, m.scope = Global, m.locale = b[2],
         Translator!RevisionsOf(m.scope, m.locale) = {m.revision} \ {Nil}
  PROVE  Raised(b) /\ OneRevision(Global, b[2])' /\ OneRevision(b[1], b[2])'
<1>1. revisions' = Translator!Cascaded(w, Translator!Bumped(w))
  BY DEF Commits
<1>2. \A u \in Translator!Bumped(w) :
        IsRevision(u) /\ (<<u.scope, u.locale>> # <<Global, b[2]>> => u \in revisions)
  BY BumpedRevisions
<1>3. PICK x : /\ \A y \in Translator!Bumped(w) : <<y.scope, y.locale>> = <<Global, b[2]>> => y = x
               /\ x \in Translator!Bumped(w) /\ x.scope = Global /\ x.locale = b[2]
               /\ \A n \in Translator!Numbers(Global, b[2]) : n \in Nat /\ x.number = n + 1
  BY BumpRaises
<1>4. \A y \in revisions' :
        \E u \in Translator!Bumped(w) :
          /\ y.scope = u.scope /\ y.locale = u.locale
          /\ IF u.scope # Global /\ u.locale = b[2] THEN y = [u EXCEPT !.number = @ + 1] ELSE y = u
  BY <1>1, <1>2, CascadedRevisions
<1>5. Translator!RevisionsOf(Global, b[2])' = {x}
  <2>1. x \in revisions'
    BY <1>1, <1>2, <1>3, CascadedRevisions
  <2>2. \A y \in revisions' : y.scope = Global /\ y.locale = b[2] => y = x
    BY <1>3, <1>4
  <2> QED
    BY <1>3, <2>1, <2>2 DEF Translator!RevisionsOf
<1>6. Translator!Numbers(Global, b[2])' = {x.number}
  BY <1>5 DEF Translator!Numbers
<1>7. ASSUME NEW y \in revisions', y.scope = b[1], y.locale = b[2], b[1] # Global
      PROVE  \E u \in Translator!RevisionsOf(b[1], b[2]) : y = [u EXCEPT !.number = @ + 1]
  BY <1>2, <1>4, <1>7 DEF Translator!RevisionsOf
<1>8. OneRevision(b[1], b[2])
  BY DEF TablesFit
<1>9. OneRevision(Global, b[2])' /\ OneRevision(b[1], b[2])'
  <2>1. OneRevision(Global, b[2])'
    BY <1>5 DEF OneRevision
  <2>2. ASSUME b[1] # Global
        PROVE  OneRevision(b[1], b[2])'
    <3>1. ASSUME NEW y, NEW z, y \in Translator!RevisionsOf(b[1], b[2])',
                 z \in Translator!RevisionsOf(b[1], b[2])'
          PROVE  y = z
      <4>1. PICK u \in Translator!RevisionsOf(b[1], b[2]) : y = [u EXCEPT !.number = @ + 1]
        BY <1>7, <2>2, <3>1 DEF Translator!RevisionsOf
      <4>2. PICK v \in Translator!RevisionsOf(b[1], b[2]) : z = [v EXCEPT !.number = @ + 1]
        BY <1>7, <2>2, <3>1 DEF Translator!RevisionsOf
      <4> QED
        BY <1>8, <4>1, <4>2 DEF OneRevision
    <3> QED
      BY <3>1 DEF OneRevision
  <2> QED
    BY <2>1, <2>2
<1>10. ASSUME NEW e, NotAbove(b, e)
       PROVE  NotAbove(b, e)'
  <2>1. \A n \in Translator!Numbers(Global, b[2])' : e[1] <= n
    <3>1. PICK n \in Translator!Numbers(Global, b[2]) : n \in Nat
      BY NumbersAre
    <3>2. e[1] \in Nat /\ e[1] <= n /\ x.number = n + 1
      BY <1>3, <1>10, <3>1 DEF NotAbove
    <3>3. e[1] <= x.number
      BY <3>1, <3>2
    <3> QED
      BY <1>6, <3>3
  <2>2. ASSUME NEW n \in Translator!Numbers(b[1], b[2])', b[1] # Global
        PROVE  e[2] <= n
    <3>1. CASE Translator!RevisionsOf(b[1], b[2])' = {}
      <4>1. Translator!RevisionsOf(b[1], b[2]) = {}
        <5> SUFFICES ASSUME NEW u \in revisions, u.scope = b[1], u.locale = b[2]
                     PROVE  FALSE
          BY DEF Translator!RevisionsOf
        <5>1. <<u.scope, u.locale>> # <<m.scope, m.locale>>
          BY <2>2
        <5>2. u \in Translator!Bumped(w)
          BY <5>1, BumpedRevisions
        <5>3. \E y \in revisions' : y.scope = b[1] /\ y.locale = b[2]
          BY <1>1, <1>2, <5>2, CascadedRevisions
        <5> QED
          BY <3>1, <5>3 DEF Translator!RevisionsOf
      <4>2. n = 0 /\ 0 \in Translator!Numbers(b[1], b[2])
        BY <2>2, <3>1, <4>1 DEF Translator!Numbers
      <4> QED
        BY <1>10, <2>2, <4>2 DEF NotAbove
    <3>2. CASE Translator!RevisionsOf(b[1], b[2])' # {}
      <4>1. PICK y \in Translator!RevisionsOf(b[1], b[2])' : n = y.number
        BY <2>2, <3>2 DEF Translator!Numbers
      <4>2. PICK u \in Translator!RevisionsOf(b[1], b[2]) : y = [u EXCEPT !.number = @ + 1]
        BY <1>7, <2>2, <4>1 DEF Translator!RevisionsOf
      <4>3. IsRevision(u) /\ u.number \in Translator!Numbers(b[1], b[2])
        BY <4>2 DEF TablesFit, Translator!RevisionsOf, Translator!Numbers
      <4>4. n = u.number + 1 /\ u.number \in Nat
        BY <4>1, <4>2, <4>3 DEF IsRevision
      <4>5. e[2] \in Nat /\ e[2] <= u.number
        BY <1>10, <2>2, <4>3 DEF NotAbove
      <4> QED
        BY <4>4, <4>5
    <3> QED
      BY <3>1, <3>2
  <2> QED
    BY <1>10, <2>1, <2>2 DEF NotAbove
<1>11. ASSUME NEW e, NotAbove(b, e)
       PROVE  e \notin Translator!Current(b)'
  <2>1. PICK n \in Translator!Numbers(Global, b[2]) : n \in Nat
    BY NumbersAre
  <2>2. e[1] \in Nat /\ e[1] <= n /\ x.number = n + 1
    BY <1>3, <1>11, <2>1 DEF NotAbove
  <2>3. e[1] # x.number
    BY <2>1, <2>2
  <2> QED
    BY <1>6, <2>3 DEF Translator!Current
<1> QED
  BY <1>9, <1>10, <1>11 DEF Raised

\* A tenant's commit in the tenant's bundle that finds the revision it has read.
LEMMA CommitLocally ==
  ASSUME NEW w \in Writes, NEW m, m = write[w], WriteFits(m), TablesFit, Commits(w),
         NEW b \in Translator!Bundles, b \notin blurred,
         m.scope = b[1], m.scope # Global, m.locale = b[2],
         Translator!RevisionsOf(m.scope, m.locale) = {m.revision} \ {Nil}
  PROVE  Raised(b) /\ OneRevision(Global, b[2])' /\ OneRevision(b[1], b[2])'
<1>1. revisions' = Translator!Bumped(w)
  BY DEF Commits
<1>2. PICK x : /\ \A y \in Translator!Bumped(w) : <<y.scope, y.locale>> = <<b[1], b[2]>> => y = x
               /\ x \in Translator!Bumped(w) /\ x.scope = b[1] /\ x.locale = b[2]
               /\ \A n \in Translator!Numbers(b[1], b[2]) : n \in Nat /\ x.number = n + 1
  BY BumpRaises
<1>3. Translator!RevisionsOf(b[1], b[2])' = {x}
  BY <1>1, <1>2 DEF Translator!RevisionsOf
<1>4. Translator!Numbers(b[1], b[2])' = {x.number}
  BY <1>3 DEF Translator!Numbers
<1>5. Translator!RevisionsOf(Global, b[2])' = Translator!RevisionsOf(Global, b[2])
  <2>1. ASSUME NEW u, u.scope = Global, u.locale = b[2]
        PROVE  u \in revisions <=> u \in Translator!Bumped(w)
    <3>1. <<u.scope, u.locale>> # <<m.scope, m.locale>>
      BY <2>1
    <3> QED
      BY <3>1, BumpedRevisions
  <2> QED
    BY <1>1, <2>1 DEF Translator!RevisionsOf
<1>6. Translator!Numbers(Global, b[2])' = Translator!Numbers(Global, b[2])
  BY <1>5 DEF Translator!Numbers
<1>7. OneRevision(Global, b[2])' /\ OneRevision(b[1], b[2])'
  BY <1>3, <1>5 DEF OneRevision, TablesFit
<1>8. ASSUME NEW e, NotAbove(b, e)
      PROVE  NotAbove(b, e)' /\ e \notin Translator!Current(b)'
  <2>1. PICK n \in Translator!Numbers(b[1], b[2]) : n \in Nat
    BY NumbersAre
  <2>2. e[2] \in Nat /\ e[2] <= n /\ x.number = n + 1
    BY <1>2, <1>8, <2>1 DEF NotAbove
  <2>3. e[2] # x.number /\ e[2] <= x.number
    BY <2>1, <2>2
  <2>4. NotAbove(b, e)'
    BY <1>4, <1>6, <1>8, <2>3 DEF NotAbove
  <2>5. e \notin Translator!Current(b)'
    BY <1>4, <2>3 DEF Translator!Current
  <2> QED
    BY <2>4, <2>5
<1> QED
  BY <1>7, <1>8 DEF Raised

LEMMA CommitTells ==
  ASSUME NEW w \in Writes, WriteFits(write[w]), TablesFit, Translator!Commit(w)
  PROVE  /\ TablesFit'
         /\ \A b \in Translator!Bundles \ blurred' : b \notin blurred /\ (Steady(b) \/ Raised(b))
<1>1. PICK m : m = write[w]
  OBVIOUS
<1>2. WriteFits(m) /\ Commits(w) /\ blurred' = blurred \cup Translator!Blurs(w)
  BY <1>1 DEF Translator!Commit, Commits
<1>3. ASSUME NEW b \in Translator!Bundles, b \notin blurred'
      PROVE  /\ b \notin blurred /\ (Steady(b) \/ Raised(b))
             /\ OneRevision(Global, b[2])' /\ OneRevision(b[1], b[2])'
  <2>1. b \notin blurred /\ b \notin Translator!Blurs(w)
    BY <1>2, <1>3
  <2>2. /\ m.scope \in {Global, b[1]} /\ m.locale = b[2] =>
              Translator!RevisionsOf(m.scope, m.locale) = {m.revision} \ {Nil}
        /\ ~(m.scope = Global /\ m.locale = Base /\ b[2] # Base)
    BY <1>1, <2>1 DEF Translator!Blurs, Translator!Lost
  <2>3. CASE m.scope = Global /\ m.locale = b[2]
    BY <1>1, <1>2, <2>1, <2>2, <2>3, CommitGlobally
  <2>4. CASE m.scope # Global /\ m.scope = b[1] /\ m.locale = b[2]
    BY <1>1, <1>2, <2>1, <2>2, <2>4, CommitLocally
  <2>5. CASE ~(m.scope \in {Global, b[1]} /\ m.locale = b[2])
    <3>1. Steady(b)
      BY <1>1, <1>2, <2>2, <2>5, CommitElsewhere
    <3>2. OneRevision(Global, b[2]) /\ OneRevision(b[1], b[2])
      BY <2>1 DEF TablesFit
    <3>3. OneRevision(Global, b[2])' /\ OneRevision(b[1], b[2])'
      BY <3>1, <3>2 DEF Steady, OneRevision
    <3> QED
      BY <2>1, <3>1, <3>3
  <2> QED
    BY <2>3, <2>4, <2>5
<1>4. TablesFit'
  BY <1>2, <1>3, CommittedTables DEF TablesFit
<1> QED
  BY <1>3, <1>4

\* What fits a bundle goes on to fit it: what it is made of is the same, or all it was made of is past.
LEMMA FitsOn ==
  ASSUME NEW b \in Translator!Bundles, Steady(b) \/ Raised(b)
  PROVE  /\ \A etag, texts : Tells(b, etag, texts) => Tells(b, etag, texts)'
         /\ \A q : RequestFits(b, q) => RequestFits(b, q)'
<1>1. CASE Steady(b)
  <2>1. /\ Translator!Numbers(Global, b[2])' = Translator!Numbers(Global, b[2])
        /\ Translator!Numbers(b[1], b[2])' = Translator!Numbers(b[1], b[2])
    BY <1>1 DEF Steady, Translator!Numbers
  <2>2. Translator!Current(b)' = Translator!Current(b)
    BY <2>1 DEF Translator!Current
  <2>3. Beneath(b)' = Beneath(b)
    BY <1>1 DEF Steady, Beneath
  <2>4. Translator!Resolved(b)' = Translator!Resolved(b)
    <3> DEFINE owns == IF b[1] = Global THEN {Translator!NoEntries}
                       ELSE Translator!Listings(b[1], b[2])
    <3>1. Translator!Resolved(b) =
            {Translator!Over(o, Translator!Over(g, f)) :
               o \in owns, g \in Translator!Listings(Global, b[2]), f \in Beneath(b)}
      BY DEF Translator!Resolved, Beneath
    <3>2. Translator!Resolved(b)' =
            {Translator!Over(o, Translator!Over(g, f)) :
               o \in owns', g \in Translator!Listings(Global, b[2])', f \in Beneath(b)'}
      BY DEF Translator!Resolved, Beneath
    <3>3. owns' = owns /\ Translator!Listings(Global, b[2])' = Translator!Listings(Global, b[2])
      BY <1>1 DEF Steady
    <3> HIDE DEF owns
    <3> QED
      BY <2>3, <3>1, <3>2, <3>3
  <2>5. \A e : NotAbove(b, e)' <=> NotAbove(b, e)
    BY <2>1 DEF NotAbove
  <2>6. \A etag, texts : Tells(b, etag, texts) => Tells(b, etag, texts)'
    BY <2>2, <2>4, <2>5 DEF Tells
  <2>7. \A q : RequestFits(b, q) => RequestFits(b, q)'
    <3>1. Translator!Listings(Global, b[2])' = Translator!Listings(Global, b[2])
      BY <1>1 DEF Steady
    <3> QED
      BY <2>2, <2>3, <2>4, <2>5, <3>1 DEF RequestFits
  <2> QED
    BY <2>6, <2>7
<1>2. CASE Raised(b)
  <2>1. \A etag, texts : Tells(b, etag, texts) => Tells(b, etag, texts)'
    BY <1>2 DEF Raised, Tells
  <2>2. ASSUME NEW q, RequestFits(b, q)
        PROVE  RequestFits(b, q)'
    <3>1. NotAbove(b, q.etag)' /\ q.etag \notin Translator!Current(b)'
      BY <1>2, <2>2 DEF Raised, RequestFits
    <3> QED
      BY <2>2, <3>1 DEF RequestFits
  <2> QED
    BY <2>1, <2>2
<1> QED
  BY <1>1, <1>2

LEMMA UnchangedIsSteady ==
  ASSUME UNCHANGED <<rows, revisions, blurred>>
  PROVE  /\ \A b \in Translator!Bundles : Steady(b)
         /\ TablesFit => TablesFit'
<1>1. \A scope, locale :
        /\ Translator!RowsOf(scope, locale)' = Translator!RowsOf(scope, locale)
        /\ Translator!RevisionsOf(scope, locale)' = Translator!RevisionsOf(scope, locale)
  BY DEF Translator!RowsOf, Translator!RevisionsOf
<1>2. \A scope, locale, k : Translator!RowsFor(scope, locale, k)' = Translator!RowsFor(scope, locale, k)
  BY <1>1 DEF Translator!RowsFor
<1>3. \A scope, locale : Translator!Listings(scope, locale)' = Translator!Listings(scope, locale)
  BY <1>2 DEF Translator!Listings
<1>4. \A b \in Translator!Bundles : Steady(b)
  BY <1>1, <1>3 DEF Steady
<1>5. TablesFit => TablesFit'
  BY <1>1 DEF TablesFit, OneRevision
<1> QED
  BY <1>4, <1>5

\* A step keeps the invariant when what it leaves in a cache, with a client and in a request fits
\* the tables before it, and what it does to them is steady or raises their revisions.
LEMMA EtagInvKept ==
  ASSUME EtagInv, TablesFit',
         \A b \in Translator!Bundles \ blurred' : b \notin blurred /\ (Steady(b) \/ Raised(b)),
         DOMAIN write' = Writes, \A w \in Writes : WriteFits(write'[w]),
         DOMAIN bundles' = Translator!Bundles, DOMAIN held' = Clients, DOMAIN request' = Clients,
         \A b \in Translator!Bundles \ blurred :
           bundles'[b] # Nil =>
             bundles'[b] = bundles[b] \/ Tells(b, bundles'[b].etag, bundles'[b].entries),
         \A c \in Clients :
           DOMAIN request'[c] = RequestFields /\
           (View[c] \notin blurred =>
             /\ held'[c] # Nil =>
                  held'[c] = held[c] \/ Tells(View[c], held'[c].etag, held'[c].entries)
             /\ RequestFits(View[c], request'[c]))
  PROVE  EtagInv'
<1>1. ASSUME NEW b \in Translator!Bundles, b \notin blurred', bundles'[b] # Nil
      PROVE  Tells(b, bundles[b].etag, bundles[b].entries)'
  <2>1. PICK u : u = bundles'[b]
    OBVIOUS
  <2>2. Tells(b, u.etag, u.entries)
    BY <1>1, <2>1 DEF EtagInv
  <2>3. Tells(b, u.etag, u.entries)'
    BY <1>1, <2>2, FitsOn
  <2> QED
    BY <2>1, <2>3
<1>2. ASSUME NEW c \in Clients, View[c] \notin blurred'
      PROVE  /\ held'[c] # Nil => Tells(View[c], held[c].etag, held[c].entries)'
             /\ RequestFits(View[c], request[c])'
  <2>1. PICK h, q : h = held'[c] /\ q = request'[c]
    OBVIOUS
  <2>2. View[c] \in Translator!Bundles
    BY ViewAssumption
  <2>3. View[c] \notin blurred /\ (Steady(View[c]) \/ Raised(View[c]))
    BY <1>2, <2>2
  <2>4. (h # Nil => Tells(View[c], h.etag, h.entries)) /\ RequestFits(View[c], q)
    BY <2>1, <2>3 DEF EtagInv
  <2>5. (h # Nil => Tells(View[c], h.etag, h.entries)') /\ RequestFits(View[c], q)'
    BY <2>2, <2>3, <2>4, FitsOn
  <2> QED
    BY <2>1, <2>5
<1> QED
  BY <1>1, <1>2 DEF EtagInv

----------------------------------------------------------------------------
(* Translations: the steps of the writes *)

Moves(w) == \E m : WriteFits(m) /\ write' = [write EXCEPT ![w] = m]

LEMMA NoWriteFits ==
  /\ DOMAIN Translator!NoWrite = WriteFields
  /\ Translator!NoWrite.plan = {} /\ Translator!NoWrite.revision = Nil
  /\ Translator!NoWrite.kind = "upsert"
BY DEF Translator!NoWrite, WriteFields

LEMMA WriteBegins ==
  ASSUME NEW w \in Writes, NEW kind \in {"upsert", "update", "sync"}, NEW scope, NEW locale, NEW keys,
         NEW text, Translator!Begin(w, kind, scope, locale, keys, text)
  PROVE  Moves(w)
<1>1. PICK i, m :
        /\ i = Translator!NoWrite
        /\ m = [i EXCEPT !.pc = "find", !.kind = kind, !.scope = scope, !.locale = locale,
                         !.keys = keys, !.unfound = keys, !.text = text]
  OBVIOUS
<1>2. DOMAIN i = WriteFields /\ i.plan = {} /\ i.revision = Nil
  BY <1>1, NoWriteFits
<1>3. DOMAIN m = WriteFields /\ m.plan = {} /\ m.revision = Nil /\ m.kind = kind
  BY ONLY <1>1, <1>2 DEF WriteFields
<1>4. WriteFits(m)
  BY <1>3 DEF WriteFits
<1> QED
  BY <1>1, <1>4 DEF Translator!Begin, Moves

LEMMA RowWriteBegins ==
  ASSUME TablesFit, NEW w \in Writes, NEW r \in rows, NEW text, Translator!BeginRow(w, r, text)
  PROVE  Moves(w)
<1>1. PICK i, p, m :
        /\ i = Translator!NoWrite /\ p = [row |-> r, text |-> text]
        /\ m = [i EXCEPT !.pc = "write", !.scope = r.scope, !.locale = r.locale, !.plan = {p}]
  OBVIOUS
<1>2. DOMAIN i = WriteFields /\ i.revision = Nil /\ i.kind = "upsert" /\ p.row = r
  BY <1>1, NoWriteFits
<1>3. /\ DOMAIN m = WriteFields /\ m.plan = {p} /\ m.revision = Nil /\ m.kind = "upsert"
      /\ m.scope = r.scope /\ m.locale = r.locale
  BY ONLY <1>1, <1>2 DEF WriteFields
<1>4. WriteFits(m)
  BY <1>2, <1>3 DEF WriteFits, TablesFit
<1> QED
  BY <1>1, <1>4 DEF Translator!BeginRow, Moves

LEMMA EndsMoves ==
  ASSUME NEW w \in Writes, Translator!Ends(w)
  PROVE  Moves(w)
<1>1. PICK i, m : i = Translator!NoWrite /\ m = [i EXCEPT !.pc = "done"]
  OBVIOUS
<1>2. DOMAIN i = WriteFields /\ i.plan = {} /\ i.revision = Nil /\ i.kind = "upsert"
  BY <1>1, NoWriteFits
<1>3. DOMAIN m = WriteFields /\ m.plan = {} /\ m.revision = Nil /\ m.kind = "upsert"
  BY ONLY <1>1, <1>2 DEF WriteFields
<1> QED
  BY <1>1, <1>3 DEF Translator!Ends, Moves, WriteFits

LEMMA GoesMoves ==
  ASSUME EtagInv, NEW w \in Writes, NEW step, Translator!Goes(w, step)
  PROVE  Moves(w)
<1>1. PICK l, m : l = write[w] /\ m = [l EXCEPT !.pc = step]
  OBVIOUS
<1>2. WriteFits(l) /\ DOMAIN write = Writes
  BY <1>1 DEF EtagInv
<1>3. /\ DOMAIN m = WriteFields /\ m.plan = l.plan /\ m.revision = l.revision /\ m.kind = l.kind
      /\ m.scope = l.scope /\ m.locale = l.locale
  BY <1>1, <1>2 DEF WriteFits, WriteFields
<1>4. write' = [write EXCEPT ![w] = m]
  BY <1>1 DEF Translator!Goes
<1> QED
  BY <1>2, <1>3, <1>4 DEF Moves, WriteFits

LEMMA BeginsMove ==
  ASSUME EtagInv, NEW w \in Writes, Translator!BeginStep(w)
  PROVE  Moves(w)
<1>1. TablesFit
  BY DEF EtagInv
<1>2. CASE Translator!UpsertGlobal(w) \/ Translator!UpsertOverride(w) \/ Translator!ImportGlobal(w)
             \/ Translator!ImportTenant(w)
  BY <1>2, WriteBegins
     DEF Translator!UpsertGlobal, Translator!UpsertOverride, Translator!ImportGlobal, Translator!ImportTenant
<1>3. CASE Translator!BatchGlobal(w) \/ Translator!BatchTenant(w) \/ Translator!ApplyManifest(w)
  BY <1>3, WriteBegins DEF Translator!BatchGlobal, Translator!BatchTenant, Translator!ApplyManifest
<1>4. CASE Translator!UpdateGlobal(w) \/ Translator!DeleteGlobal(w) \/ Translator!DeleteOverride(w)
  BY <1>1, <1>4, RowWriteBegins
     DEF Translator!UpdateGlobal, Translator!DeleteGlobal, Translator!DeleteOverride
<1>5. CASE Translator!DeleteCell(w)
  BY <1>1, <1>5, RowWriteBegins DEF Translator!DeleteCell, Translator!RowsFor, Translator!RowsOf
<1>6. ASSUME NEW k \in Keys, Translator!DropEntry(w, k)
      PROVE  Moves(w)
  BY <1>6, EndsMoves DEF Translator!DropEntry
<1> QED
  BY <1>2, <1>3, <1>4, <1>5, <1>6 DEF Translator!BeginStep

LEMMA FindRowMoves ==
  ASSUME EtagInv, NEW w \in Writes, NEW k \in Keys, Translator!FindRow(w, k)
  PROVE  Moves(w)
<1>1. PICK l : l = write[w]
  OBVIOUS
<1>2. WriteFits(l) /\ DOMAIN write = Writes /\ TablesFit
  BY <1>1 DEF EtagInv
<1>3. PICK more \in Translator!Plans(w, k) :
        write' = [write EXCEPT ![w].plan = @ \cup more, ![w].unfound = @ \ {k}]
  BY DEF Translator!FindRow
<1>4. ASSUME NEW r \in Translator!RowsFor(l.scope, l.locale, k)
      PROVE  DOMAIN r = RowFields /\ r.scope = l.scope /\ r.locale = l.locale
  BY <1>2 DEF Translator!RowsFor, Translator!RowsOf, TablesFit
<1>5. ASSUME NEW p, p = Translator!Insert(w, k)
      PROVE  DOMAIN p.row = RowFields /\ p.row.scope = l.scope /\ p.row.locale = l.locale
  BY <1>1, <1>5 DEF Translator!Insert, RowFields
<1>6. ASSUME NEW p \in more
      PROVE  p = Translator!Insert(w, k) \/ p.row \in Translator!RowsFor(l.scope, l.locale, k)
  <2>1. CASE l.kind = "upsert"
    BY <1>1, <1>3, <2>1 DEF Translator!Plans, Translator!Upserts
  <2>2. CASE l.kind = "update"
    BY <1>1, <1>3, <2>2 DEF Translator!Plans, Translator!Updates
  <2>3. CASE l.kind = "sync"
    BY <1>1, <1>3, <2>3 DEF Translator!Plans, Translator!Syncs
  <2> QED
    BY <1>2, <2>1, <2>2, <2>3 DEF WriteFits
<1>7. PICK m : m = [l EXCEPT !.plan = @ \cup more, !.unfound = @ \ {k}]
  OBVIOUS
<1>8. /\ DOMAIN m = WriteFields /\ m.plan = l.plan \cup more /\ m.revision = l.revision
      /\ m.kind = l.kind /\ m.scope = l.scope /\ m.locale = l.locale
  BY <1>2, <1>7 DEF WriteFits, WriteFields
<1>9. WriteFits(m)
  BY <1>2, <1>4, <1>5, <1>6, <1>8 DEF WriteFits
<1>10. write' = [write EXCEPT ![w] = m]
  BY <1>1, <1>2, <1>3, <1>7
<1> QED
  BY <1>9, <1>10 DEF Moves

LEMMA FoundMoves ==
  ASSUME EtagInv, NEW w \in Writes, Translator!Found(w)
  PROVE  Moves(w)
<1>1. PICK l, keys : l = write[w] /\ keys = IF l.kind = "sync" THEN l.keys ELSE {}
  OBVIOUS
<1>2. WriteFits(l) /\ DOMAIN write = Writes
  BY <1>1 DEF EtagInv
<1>3. PICK m : m = [l EXCEPT !.pc = "write", !.text = Nil, !.keys = keys]
  OBVIOUS
<1>4. /\ DOMAIN m = WriteFields /\ m.plan = l.plan /\ m.revision = l.revision /\ m.kind = l.kind
      /\ m.scope = l.scope /\ m.locale = l.locale
  BY <1>2, <1>3 DEF WriteFits, WriteFields
<1>5. write' = [write EXCEPT ![w] = m]
  BY <1>1, <1>2, <1>3 DEF Translator!Found, WriteFits, WriteFields
<1> QED
  BY <1>2, <1>4, <1>5 DEF Moves, WriteFits

LEMMA ReadRevisionMoves ==
  ASSUME EtagInv, NEW w \in Writes, Translator!ReadRevision(w)
  PROVE  Moves(w)
<1>1. PICK l : l = write[w]
  OBVIOUS
<1>2. WriteFits(l) /\ DOMAIN write = Writes /\ TablesFit
  BY <1>1 DEF EtagInv
<1>3. PICK v \in Translator!RevisionsOf(l.scope, l.locale) \cup {Nil} :
        write' = [write EXCEPT ![w].pc = "commit", ![w].revision = v]
  BY <1>1 DEF Translator!ReadRevision
<1>4. PICK m : m = [l EXCEPT !.pc = "commit", !.revision = v]
  OBVIOUS
<1>5. /\ DOMAIN m = WriteFields /\ m.plan = l.plan /\ m.revision = v /\ m.kind = l.kind
      /\ m.scope = l.scope /\ m.locale = l.locale
  BY <1>2, <1>4 DEF WriteFits, WriteFields
<1>6. v # Nil => IsRevision(v) /\ v.scope = l.scope /\ v.locale = l.locale
  BY <1>2, <1>3 DEF Translator!RevisionsOf, TablesFit
<1>7. write' = [write EXCEPT ![w] = m]
  BY <1>1, <1>2, <1>3, <1>4
<1> QED
  BY <1>2, <1>5, <1>6, <1>7 DEF Moves, WriteFits

LEMMA WriteStepMoves ==
  ASSUME EtagInv, NEW w \in Writes, Translator!WriteStep(w) \/ Translator!Fail(w)
  PROVE  Moves(w)
<1>1. Translator!Ends(w) => Moves(w)
  BY EndsMoves
<1>2. \A step : Translator!Goes(w, step) => Moves(w)
  BY GoesMoves
<1>3. CASE Translator!NothingFound(w) \/ Translator!RollBack(w) \/ Translator!EvictETag(w)
             \/ Translator!Fail(w)
  BY <1>1, <1>3
     DEF Translator!NothingFound, Translator!RollBack, Translator!EvictETag, Translator!Fail
<1>4. CASE Translator!WriteRows(w) \/ Translator!Commit(w) \/ Translator!EvictBundle(w)
  BY <1>1, <1>2, <1>4 DEF Translator!WriteRows, Translator!Commit, Translator!EvictBundle
<1> QED
  BY <1>3, <1>4, FindRowMoves, FoundMoves, ReadRevisionMoves DEF Translator!WriteStep

LEMMA MovesKeep ==
  ASSUME EtagInv, NEW w \in Writes, Moves(w), TablesFit',
         \A b \in Translator!Bundles \ blurred' : b \notin blurred /\ (Steady(b) \/ Raised(b)),
         UNCHANGED <<held, request>>,
         DOMAIN bundles' = Translator!Bundles,
         \A b \in Translator!Bundles : bundles'[b] # Nil => bundles'[b] = bundles[b]
  PROVE  EtagInv'
<1>1. DOMAIN write' = Writes /\ \A v \in Writes : WriteFits(write'[v])
  BY DEF EtagInv, Moves
<1>2. \A c \in Clients :
        /\ DOMAIN request'[c] = RequestFields /\ held'[c] = held[c]
        /\ View[c] \notin blurred => RequestFits(View[c], request'[c])
  BY DEF EtagInv
<1>3. DOMAIN held' = Clients /\ DOMAIN request' = Clients
  BY DEF EtagInv
<1> QED
  BY <1>1, <1>2, <1>3, EtagInvKept

LEMMA WritesKeep ==
  ASSUME EtagInv, NEW w \in Writes,
         Translator!BeginStep(w) \/ Translator!WriteStep(w) \/ Translator!Fail(w)
  PROVE  EtagInv'
<1>1. Moves(w)
  BY BeginsMove, WriteStepMoves
<1>2. TablesFit /\ WriteFits(write[w]) /\ DOMAIN bundles = Translator!Bundles
  BY DEF EtagInv
<1>3. CASE Translator!Commit(w)
  <2>1. UNCHANGED <<bundles, held, request>>
    BY <1>3 DEF Translator!Commit, Translator!caches, Translator!clients
  <2>2. /\ TablesFit'
        /\ \A b \in Translator!Bundles \ blurred' : b \notin blurred /\ (Steady(b) \/ Raised(b))
    BY <1>2, <1>3, CommitTells
  <2> QED
    BY <1>1, <1>2, <2>1, <2>2, MovesKeep
<1>4. ASSUME NEW k \in Keys, Translator!DropEntry(w, k)
      PROVE  EtagInv'
  <2>1. UNCHANGED <<revisions, bundles, held, request>>
    BY <1>4 DEF Translator!DropEntry, Translator!caches, Translator!clients
  <2>2. blurred' = Translator!Bundles /\ \A r \in rows' : r \in rows
    BY <1>4 DEF Translator!DropEntry
  <2>3. TablesFit'
    BY <1>2, <2>1, <2>2 DEF TablesFit
  <2>4. \A b \in Translator!Bundles \ blurred' : b \notin blurred /\ (Steady(b) \/ Raised(b))
    BY <2>2
  <2> QED
    BY <1>1, <1>2, <2>1, <2>3, <2>4, MovesKeep
<1>5. ASSUME UNCHANGED <<rows, revisions, blurred, held, request>>,
             UNCHANGED bundles
               \/ bundles' = [bundles EXCEPT ![<<write[w].scope, write[w].locale>>] = Nil]
      PROVE  EtagInv'
  <2>1. TablesFit' /\ \A b \in Translator!Bundles : Steady(b)
    BY <1>2, <1>5, UnchangedIsSteady
  <2>2. \A b \in Translator!Bundles \ blurred' : b \notin blurred /\ (Steady(b) \/ Raised(b))
    BY <1>5, <2>1
  <2>3. /\ DOMAIN bundles' = Translator!Bundles
        /\ \A b \in Translator!Bundles : bundles'[b] # Nil => bundles'[b] = bundles[b]
    BY <1>2, <1>5
  <2> QED
    BY <1>1, <1>5, <2>1, <2>2, <2>3, MovesKeep
<1>6. CASE Translator!BeginStep(w)
  <2>1. \A kind, scope, locale, keys, text :
          Translator!Begin(w, kind, scope, locale, keys, text) =>
            UNCHANGED <<rows, revisions, blurred, held, request, bundles>>
    BY DEF Translator!Begin, Translator!tables, Translator!caches, Translator!clients
  <2>2. \A r, text : Translator!BeginRow(w, r, text) =>
          UNCHANGED <<rows, revisions, blurred, held, request, bundles>>
    BY DEF Translator!BeginRow, Translator!tables, Translator!caches, Translator!clients
  <2>3. CASE Translator!UpsertGlobal(w) \/ Translator!UpsertOverride(w) \/ Translator!ImportGlobal(w)
               \/ Translator!ImportTenant(w)
    BY <1>5, <2>1, <2>3
       DEF Translator!UpsertGlobal, Translator!UpsertOverride, Translator!ImportGlobal, Translator!ImportTenant
  <2>4. CASE Translator!BatchGlobal(w) \/ Translator!BatchTenant(w) \/ Translator!ApplyManifest(w)
    BY <1>5, <2>1, <2>4 DEF Translator!BatchGlobal, Translator!BatchTenant, Translator!ApplyManifest
  <2>5. CASE Translator!UpdateGlobal(w) \/ Translator!DeleteGlobal(w) \/ Translator!DeleteOverride(w)
               \/ Translator!DeleteCell(w)
    BY <1>5, <2>2, <2>5
       DEF Translator!UpdateGlobal, Translator!DeleteGlobal, Translator!DeleteOverride, Translator!DeleteCell
  <2> QED
    BY <1>4, <1>6, <2>3, <2>4, <2>5 DEF Translator!BeginStep
<1>7. CASE Translator!EvictBundle(w)
  BY <1>5, <1>7 DEF Translator!EvictBundle, Translator!tables, Translator!clients
<1>8. CASE Translator!EvictETag(w) \/ Translator!Fail(w) \/ Translator!RollBack(w)
             \/ Translator!NothingFound(w)
  BY <1>5, <1>8
     DEF Translator!EvictETag, Translator!Fail, Translator!RollBack, Translator!NothingFound,
         Translator!tables, Translator!caches, Translator!clients
<1>9. CASE (\E k \in Keys : Translator!FindRow(w, k)) \/ Translator!Found(w)
             \/ Translator!WriteRows(w) \/ Translator!ReadRevision(w)
  BY <1>5, <1>9
     DEF Translator!FindRow, Translator!Found, Translator!WriteRows, Translator!ReadRevision,
         Translator!tables, Translator!caches, Translator!clients
<1> QED
  BY <1>3, <1>6, <1>7, <1>8, <1>9 DEF Translator!WriteStep

----------------------------------------------------------------------------
(* Translations: the steps of the clients *)

\* A request goes on, or ends with a bundle that fits.
LEMMA ClientKept ==
  ASSUME EtagInv, NEW c \in Clients, NEW q, request' = [request EXCEPT ![c] = q],
         DOMAIN q = RequestFields, View[c] \notin blurred => RequestFits(View[c], q),
         UNCHANGED <<rows, revisions, blurred, write>>,
         \/ UNCHANGED <<held, bundles>>
         \/ \E u : /\ held' = [held EXCEPT ![c] = u]
                   /\ bundles' = bundles \/ bundles' = [bundles EXCEPT ![View[c]] = u]
                   /\ View[c] \notin blurred /\ u # Nil => Tells(View[c], u.etag, u.entries)
  PROVE  EtagInv'
<1>1. TablesFit' /\ \A b \in Translator!Bundles \ blurred' : b \notin blurred /\ Steady(b)
  BY UnchangedIsSteady DEF EtagInv
<1>2. DOMAIN write' = Writes /\ \A w \in Writes : WriteFits(write'[w])
  BY DEF EtagInv
<1>3. DOMAIN bundles' = Translator!Bundles /\ DOMAIN held' = Clients /\ DOMAIN request' = Clients
  BY DEF EtagInv
<1>4. ASSUME NEW b \in Translator!Bundles \ blurred, bundles'[b] # Nil
      PROVE  bundles'[b] = bundles[b] \/ Tells(b, bundles'[b].etag, bundles'[b].entries)
  BY <1>4 DEF EtagInv
<1>5. ASSUME NEW d \in Clients
      PROVE  /\ DOMAIN request'[d] = RequestFields
             /\ View[d] \notin blurred =>
                  /\ held'[d] # Nil =>
                       held'[d] = held[d] \/ Tells(View[d], held'[d].etag, held'[d].entries)
                  /\ RequestFits(View[d], request'[d])
  BY DEF EtagInv
<1> QED
  BY <1>1, <1>2, <1>3, <1>4, <1>5, EtagInvKept

LEMMA NoRequestIs ==
  /\ DOMAIN Translator!NoRequest = RequestFields
  /\ Translator!NoRequest.pc = "idle" /\ Translator!NoRequest.etag = <<0, 0>>
  /\ Translator!NoRequest.base = Translator!NoEntries
BY DEF Translator!NoRequest, RequestFields

LEMMA NothingRead ==
  ASSUME TablesFit, NEW b, NEW q, q.etag = <<0, 0>>, q.base = Translator!NoEntries,
         q.pc \notin {"rows", "keep"}
  PROVE  RequestFits(b, q)
<1>1. \A scope, locale : \A n \in Translator!Numbers(scope, locale) : n \in Nat
  BY NumbersAre
<1>2. NotAbove(b, q.etag)
  BY <1>1 DEF NotAbove
<1> QED
  BY <1>2 DEF RequestFits

LEMMA ComparedFits ==
  ASSUME EtagInv, NEW c \in Clients, NEW etag, Translator!Compare(c, etag)
  PROVE  \E q : /\ request' = [request EXCEPT ![c] = q] /\ DOMAIN q = RequestFields
                /\ RequestFits(View[c], q)
<1>1. PICK i, m : i = Translator!NoRequest /\ m = [i EXCEPT !.pc = "look", !.want = "bundle"]
  OBVIOUS
<1>2. DOMAIN i = RequestFields /\ i.pc = "idle" /\ i.etag = <<0, 0>> /\ i.base = Translator!NoEntries
  BY <1>1, NoRequestIs
<1>3. DOMAIN m = RequestFields /\ m.pc = "look" /\ m.etag = <<0, 0>> /\ m.base = Translator!NoEntries
  BY ONLY <1>1, <1>2 DEF RequestFields
<1>4. RequestFits(View[c], i) /\ RequestFits(View[c], m)
  BY <1>2, <1>3, NothingRead DEF EtagInv
<1> QED
  BY <1>1, <1>2, <1>3, <1>4 DEF Translator!Compare

LEMMA OneNumber ==
  ASSUME NEW scope, NEW locale, TablesFit, OneRevision(scope, locale),
         NEW m \in Translator!Numbers(scope, locale), NEW n \in Translator!Numbers(scope, locale)
  PROVE  m = n
BY DEF OneRevision, Translator!Numbers

LEMMA ReadsFits ==
  ASSUME EtagInv, NEW c \in Clients, request[c].pc \in {"idle", "look"}, Translator!Reads(c, "global")
  PROVE  \E q : /\ request' = [request EXCEPT ![c] = q] /\ DOMAIN q = RequestFields
                /\ View[c] \notin blurred => RequestFits(View[c], q)
<1>1. PICK l, q : l = request[c] /\ q = [l EXCEPT !.pc = "global"]
  OBVIOUS
<1>2. DOMAIN l = RequestFields /\ (View[c] \notin blurred => RequestFits(View[c], l))
  BY <1>1 DEF EtagInv
<1>3. DOMAIN q = RequestFields /\ q.pc = "global" /\ q.etag = l.etag /\ q.base = l.base
  BY <1>1, <1>2 DEF RequestFields
<1>4. View[c] \notin blurred => RequestFits(View[c], q)
  BY <1>1, <1>2, <1>3 DEF RequestFits
<1>5. request' = [request EXCEPT ![c] = q]
  BY <1>1 DEF Translator!Reads
<1> QED
  BY <1>3, <1>4, <1>5

LEMMA NumberedFits ==
  ASSUME EtagInv, NEW c \in Clients, request[c].pc \in {"global", "tenant"}, NEW etag,
         Translator!Numbered(c, etag), View[c] \notin blurred => NotAbove(View[c], etag)
  PROVE  \E q : /\ request' = [request EXCEPT ![c] = q] /\ DOMAIN q = RequestFields
                /\ View[c] \notin blurred => RequestFits(View[c], q)
<1>1. PICK l, b, step, unread, q :
        /\ l = request[c] /\ b = View[c]
        /\ step = IF l.want = "etag" THEN "keep" ELSE "rows"
        /\ unread = IF l.want = "etag" THEN {} ELSE {"own"} \cup IF b[2] = Base THEN {} ELSE {"base"}
        /\ q = [l EXCEPT !.etag = etag, !.pc = step, !.unread = unread]
  OBVIOUS
<1>2. /\ DOMAIN l = RequestFields /\ DOMAIN request = Clients
      /\ b \notin blurred => RequestFits(b, l)
  BY <1>1 DEF EtagInv
<1>3. /\ DOMAIN q = RequestFields /\ q.pc = step /\ q.etag = etag /\ q.base = l.base
      /\ q.want = l.want /\ q.unread = unread
  BY <1>1, <1>2 DEF RequestFields
<1>4. ASSUME b \notin blurred
      PROVE  RequestFits(b, q)
  <2>1. NotAbove(b, etag) /\ l.base = Translator!NoEntries
    BY <1>1, <1>2, <1>4 DEF RequestFits
  <2>2. CASE l.want = "etag"
    <3>1. q.pc = "keep" /\ q.want = "etag"
      BY <1>1, <1>3, <2>2
    <3> QED
      BY <1>3, <2>1, <3>1 DEF RequestFits
  <2>3. CASE l.want # "etag"
    <3>1. q.pc = "rows" /\ "own" \in q.unread /\ ("base" \in q.unread <=> b[2] # Base)
      BY <1>1, <1>3, <2>3
    <3>2. b[2] = Base => q.base \in Beneath(b)
      BY <1>3, <2>1 DEF Beneath
    <3> QED
      BY <1>3, <2>1, <3>1, <3>2 DEF RequestFits
  <2> QED
    BY <2>2, <2>3
<1>5. request' = [request EXCEPT ![c] = q]
  BY <1>1, <1>2, <1>3 DEF Translator!Numbered, RequestFields
<1> QED
  BY <1>1, <1>3, <1>4, <1>5

LEMMA ReadGlobalRevisionKeeps ==
  ASSUME EtagInv, NEW c \in Clients, Translator!ReadGlobalRevision(c)
  PROVE  EtagInv'
<1>1. PICK b, l : b = View[c] /\ l = request[c]
  OBVIOUS
<1>2. /\ TablesFit /\ DOMAIN l = RequestFields /\ b \in Translator!Bundles /\ DOMAIN request = Clients
      /\ b \notin blurred => RequestFits(b, l) /\ OneRevision(Global, b[2])
  BY <1>1, ViewAssumption DEF EtagInv, TablesFit
<1>3. PICK n \in Translator!Numbers(Global, b[2]) :
        IF b[1] = Global THEN Translator!Numbered(c, <<n, 0>>)
        ELSE request' = [request EXCEPT ![c].etag = <<n, 0>>, ![c].pc = "tenant"]
  BY <1>1 DEF Translator!ReadGlobalRevision
<1>4. ASSUME b \notin blurred
      PROVE  NotAbove(b, <<n, 0>>)
  <2>1. n \in Nat /\ \A m \in Translator!Numbers(Global, b[2]) : n = m
    BY <1>2, <1>4, NumbersAre, OneNumber
  <2>2. \A m \in Translator!Numbers(b[1], b[2]) : m \in Nat
    BY <1>2, NumbersAre
  <2> QED
    BY <2>1, <2>2 DEF NotAbove
<1>5. l.pc = "global"
  BY <1>1 DEF Translator!ReadGlobalRevision
<1>6. \E q : /\ request' = [request EXCEPT ![c] = q] /\ DOMAIN q = RequestFields
             /\ View[c] \notin blurred => RequestFits(View[c], q)
  <2>1. CASE b[1] = Global
    BY <1>1, <1>3, <1>4, <1>5, <2>1, NumberedFits
  <2>2. CASE b[1] # Global
    <3>1. PICK q : q = [l EXCEPT !.etag = <<n, 0>>, !.pc = "tenant"]
      OBVIOUS
    <3>2. DOMAIN q = RequestFields /\ q.pc = "tenant" /\ q.etag = <<n, 0>> /\ q.base = l.base
      BY <1>2, <3>1 DEF RequestFields
    <3>3. b \notin blurred => RequestFits(b, q)
      BY <1>2, <1>4, <1>5, <3>2 DEF RequestFits
    <3>4. request' = [request EXCEPT ![c] = q]
      BY <1>1, <1>2, <1>3, <2>2, <3>1 DEF RequestFields
    <3> QED
      BY <1>1, <3>2, <3>3, <3>4
  <2> QED
    BY <2>1, <2>2
<1>7. UNCHANGED <<rows, revisions, blurred, write, held, bundles>>
  BY DEF Translator!ReadGlobalRevision, Translator!tables, Translator!caches
<1> QED
  BY <1>6, <1>7, ClientKept

LEMMA ReadTenantRevisionKeeps ==
  ASSUME EtagInv, NEW c \in Clients, Translator!ReadTenantRevision(c)
  PROVE  EtagInv'
<1>1. PICK b, l : b = View[c] /\ l = request[c]
  OBVIOUS
<1>2. /\ TablesFit /\ b \in Translator!Bundles
      /\ b \notin blurred => RequestFits(b, l) /\ OneRevision(b[1], b[2])
  BY <1>1, ViewAssumption DEF EtagInv, TablesFit
<1>3. PICK n \in Translator!Numbers(b[1], b[2]) : Translator!Numbered(c, <<l.etag[1], n>>)
  BY <1>1 DEF Translator!ReadTenantRevision
<1>4. ASSUME b \notin blurred
      PROVE  NotAbove(b, <<l.etag[1], n>>)
  <2>1. n \in Nat /\ \A m \in Translator!Numbers(b[1], b[2]) : n = m
    BY <1>2, <1>4, NumbersAre, OneNumber
  <2>2. NotAbove(b, l.etag)
    BY <1>2, <1>4 DEF RequestFits
  <2> QED
    BY <2>1, <2>2 DEF NotAbove
<1>5. l.pc = "tenant"
  BY <1>1 DEF Translator!ReadTenantRevision
<1>6. \E q : /\ request' = [request EXCEPT ![c] = q] /\ DOMAIN q = RequestFields
             /\ View[c] \notin blurred => RequestFits(View[c], q)
  BY <1>1, <1>3, <1>4, <1>5, NumberedFits
<1>7. UNCHANGED <<rows, revisions, blurred, write, held, bundles>>
  BY DEF Translator!ReadTenantRevision, Translator!tables, Translator!caches
<1> QED
  BY <1>6, <1>7, ClientKept

LEMMA AskKeeps ==
  ASSUME EtagInv, NEW c \in Clients, Translator!Ask(c)
  PROVE  EtagInv'
<1>1. UNCHANGED <<rows, revisions, blurred, write, bundles>>
  BY DEF Translator!Ask, Translator!tables, Translator!caches
<1>2. \/ Translator!Compare(c, etags[View[c]])
      \/ request[c].pc = "idle" /\ Translator!Reads(c, "global") /\ UNCHANGED held
  BY DEF Translator!Ask
<1>3. \E q : /\ request' = [request EXCEPT ![c] = q] /\ DOMAIN q = RequestFields
             /\ View[c] \notin blurred => RequestFits(View[c], q)
  BY <1>2, ComparedFits, ReadsFits
<1>4. UNCHANGED held
  BY <1>2 DEF Translator!Compare
<1> QED
  BY <1>1, <1>3, <1>4, ClientKept

LEMMA TakeKeeps ==
  ASSUME EtagInv, NEW c \in Clients, NEW u, Translator!Take(c, u), UNCHANGED <<rows, revisions, blurred, write>>,
         bundles' = bundles \/ bundles' = [bundles EXCEPT ![View[c]] = u],
         View[c] \notin blurred /\ u # Nil => Tells(View[c], u.etag, u.entries)
  PROVE  EtagInv'
<1>1. PICK q : q = Translator!NoRequest
  OBVIOUS
<1>2. /\ DOMAIN q = RequestFields /\ q.pc = "idle" /\ q.etag = <<0, 0>>
      /\ q.base = Translator!NoEntries
  BY <1>1, NoRequestIs
<1>3. RequestFits(View[c], q)
  BY <1>2, NothingRead DEF EtagInv
<1>4. request' = [request EXCEPT ![c] = q] /\ held' = [held EXCEPT ![c] = u]
  BY <1>1 DEF Translator!Take
<1> QED
  BY <1>2, <1>3, <1>4, ClientKept

LEMMA LookBundleKeeps ==
  ASSUME EtagInv, NEW c \in Clients, Translator!LookBundle(c)
  PROVE  EtagInv'
<1>1. UNCHANGED <<rows, revisions, blurred, write, bundles>>
  BY DEF Translator!LookBundle, Translator!tables, Translator!caches
<1>2. CASE bundles[View[c]] # Nil
  <2>1. PICK u : u = bundles[View[c]]
    OBVIOUS
  <2>2. Translator!Take(c, u)
    BY <1>2, <2>1 DEF Translator!LookBundle
  <2>3. View[c] \in Translator!Bundles
    BY ViewAssumption
  <2>4. View[c] \notin blurred => Tells(View[c], u.etag, u.entries)
    BY <1>2, <2>1, <2>3 DEF EtagInv
  <2> QED
    BY <1>1, <2>2, <2>4, TakeKeeps
<1>3. CASE bundles[View[c]] = Nil
  <2>1. request[c].pc = "look" /\ Translator!Reads(c, "global") /\ UNCHANGED held
    BY <1>3 DEF Translator!LookBundle
  <2>2. \E q : /\ request' = [request EXCEPT ![c] = q] /\ DOMAIN q = RequestFields
               /\ View[c] \notin blurred => RequestFits(View[c], q)
    BY <2>1, ReadsFits
  <2> QED
    BY <1>1, <2>1, <2>2, ClientKept
<1> QED
  BY <1>2, <1>3

LEMMA KeepETagKeeps ==
  ASSUME EtagInv, NEW c \in Clients, Translator!KeepETag(c)
  PROVE  EtagInv'
<1>1. UNCHANGED <<rows, revisions, blurred, write, held, bundles>>
  BY DEF Translator!KeepETag, Translator!Compare, Translator!tables
<1>2. \E q : /\ request' = [request EXCEPT ![c] = q] /\ DOMAIN q = RequestFields
             /\ RequestFits(View[c], q)
  BY ComparedFits DEF Translator!KeepETag
<1> QED
  BY <1>1, <1>2, ClientKept

LEMMA ReadRowsKeeps ==
  ASSUME EtagInv, NEW c \in Clients, Translator!ReadOwn(c) \/ Translator!ReadBase(c)
  PROVE  EtagInv'
<1>1. PICK b, l : b = View[c] /\ l = request[c]
  OBVIOUS
<1>2. /\ DOMAIN l = RequestFields /\ DOMAIN request = Clients
      /\ b \notin blurred => RequestFits(b, l)
  BY <1>1 DEF EtagInv
<1>3. UNCHANGED <<rows, revisions, blurred, write, held, bundles>>
  BY DEF Translator!ReadOwn, Translator!ReadBase, Translator!tables, Translator!caches
<1>4. l.pc = "rows"
  BY <1>1 DEF Translator!ReadOwn, Translator!ReadBase
<1>5. \E q : /\ request' = [request EXCEPT ![c] = q] /\ DOMAIN q = RequestFields
             /\ b \notin blurred => RequestFits(b, q)
  <2>1. CASE Translator!ReadOwn(c)
    <3>1. PICK e \in Translator!Listings(Global, b[2]) :
            request' = [request EXCEPT ![c].own = e, ![c].unread = @ \ {"own"}]
      BY <1>1, <2>1 DEF Translator!ReadOwn
    <3>2. PICK q : q = [l EXCEPT !.own = e, !.unread = @ \ {"own"}]
      OBVIOUS
    <3>3. /\ DOMAIN q = RequestFields /\ q.pc = "rows" /\ q.etag = l.etag /\ q.own = e
          /\ q.base = l.base /\ q.unread = l.unread \ {"own"}
      BY <1>2, <1>4, <3>2 DEF RequestFields
    <3>4. b \notin blurred => RequestFits(b, q)
      BY <1>2, <1>4, <3>3 DEF RequestFits
    <3>5. request' = [request EXCEPT ![c] = q]
      BY <1>1, <1>2, <3>1, <3>2
    <3> QED
      BY <3>3, <3>4, <3>5
  <2>2. CASE Translator!ReadBase(c)
    <3>1. PICK e \in Translator!Listings(Global, Base) :
            request' = [request EXCEPT ![c].base = e, ![c].unread = @ \ {"base"}]
      BY <1>1, <2>2 DEF Translator!ReadBase
    <3>2. PICK q : q = [l EXCEPT !.base = e, !.unread = @ \ {"base"}]
      OBVIOUS
    <3>3. /\ DOMAIN q = RequestFields /\ q.pc = "rows" /\ q.etag = l.etag /\ q.base = e
          /\ q.own = l.own /\ q.unread = l.unread \ {"base"}
      BY <1>2, <1>4, <3>2 DEF RequestFields
    <3>4. ASSUME b \notin blurred
          PROVE  RequestFits(b, q)
      <4>1. "base" \in l.unread
        BY <1>1, <2>2 DEF Translator!ReadBase
      <4>2. e \in Beneath(b)
        BY <1>2, <1>4, <3>4, <4>1 DEF RequestFits, Beneath
      <4> QED
        BY <1>2, <1>4, <3>3, <3>4, <4>2 DEF RequestFits
    <3>5. request' = [request EXCEPT ![c] = q]
      BY <1>1, <1>2, <3>1, <3>2
    <3> QED
      BY <3>3, <3>4, <3>5
  <2> QED
    BY <2>1, <2>2
<1> QED
  BY <1>1, <1>3, <1>5, ClientKept

LEMMA ReadOverridesKeeps ==
  ASSUME EtagInv, NEW c \in Clients, Translator!ReadOverrides(c)
  PROVE  EtagInv'
<1>1. PICK b, l : b = View[c] /\ l = request[c]
  OBVIOUS
<1>2. /\ DOMAIN l = RequestFields /\ DOMAIN request = Clients
      /\ b \notin blurred => RequestFits(b, l)
  BY <1>1 DEF EtagInv
<1>3. UNCHANGED <<rows, revisions, blurred, write, held, bundles>>
  BY DEF Translator!ReadOverrides, Translator!tables, Translator!caches
<1>4. l.pc = "rows" /\ l.unread = {}
  BY <1>1 DEF Translator!ReadOverrides
<1>5. PICK e \in IF b[1] = Global THEN {Translator!NoEntries} ELSE Translator!Listings(b[1], b[2]) :
        request' = [request EXCEPT ![c].own = Translator!Over(e, Translator!Over(@, request[c].base)),
                                   ![c].base = Translator!NoEntries, ![c].pc = "keep"]
  BY <1>1 DEF Translator!ReadOverrides
<1>6. PICK own, q : /\ own = Translator!Over(e, Translator!Over(l.own, l.base))
                    /\ q = [l EXCEPT !.own = own, !.base = Translator!NoEntries, !.pc = "keep"]
  OBVIOUS
<1>7. /\ DOMAIN q = RequestFields /\ q.pc = "keep" /\ q.etag = l.etag /\ q.own = own
      /\ q.base = Translator!NoEntries
  BY <1>2, <1>6 DEF RequestFields
<1>8. ASSUME b \notin blurred
      PROVE  RequestFits(b, q)
  <2>1. ASSUME l.etag \in Translator!Current(b)
        PROVE  own \in Translator!Resolved(b)
    <3>1. l.own \in Translator!Listings(Global, b[2]) /\ l.base \in Beneath(b)
      BY <1>2, <1>4, <1>8, <2>1 DEF RequestFits
    <3> QED
      BY <1>5, <1>6, <3>1 DEF Translator!Resolved, Beneath
  <2> QED
    BY <1>2, <1>7, <1>8, <2>1 DEF RequestFits
<1>9. request' = [request EXCEPT ![c] = q]
  BY <1>1, <1>2, <1>5, <1>6 DEF RequestFields
<1> QED
  BY <1>1, <1>3, <1>7, <1>8, <1>9, ClientKept

LEMMA KeepBundleKeeps ==
  ASSUME EtagInv, NEW c \in Clients, Translator!KeepBundle(c)
  PROVE  EtagInv'
<1>1. PICK u : u = [etag |-> request[c].etag, entries |-> request[c].own]
  OBVIOUS
<1>2. /\ bundles' = [bundles EXCEPT ![View[c]] = u] /\ Translator!Take(c, u)
      /\ UNCHANGED <<rows, revisions, blurred, write>>
  BY <1>1 DEF Translator!KeepBundle, Translator!tables
<1>3. request[c].pc = "keep" /\ request[c].want = "bundle"
  BY DEF Translator!KeepBundle
<1>4. View[c] \notin blurred => RequestFits(View[c], request[c])
  BY DEF EtagInv
<1>5. View[c] \notin blurred => Tells(View[c], u.etag, u.entries)
  BY <1>1, <1>3, <1>4 DEF RequestFits, Tells
<1> QED
  BY <1>2, <1>5, TakeKeeps

----------------------------------------------------------------------------
(* Translations: beside the other components *)

\* Nothing but what was cached goes.
LEMMA RestKeeps ==
  ASSUME EtagInv, UNCHANGED <<rows, revisions, blurred, write, held, request>>,
         \/ UNCHANGED bundles
         \/ \E b \in Translator!Bundles : bundles' = [bundles EXCEPT ![b] = Nil]
  PROVE  EtagInv'
<1>1. TablesFit' /\ \A b \in Translator!Bundles \ blurred' : b \notin blurred /\ Steady(b)
  BY UnchangedIsSteady DEF EtagInv
<1>2. /\ DOMAIN bundles' = Translator!Bundles
      /\ \A b \in Translator!Bundles : bundles'[b] # Nil => bundles'[b] = bundles[b]
  BY DEF EtagInv
<1>3. /\ DOMAIN write' = Writes /\ \A w \in Writes : WriteFits(write'[w])
      /\ DOMAIN held' = Clients /\ DOMAIN request' = Clients
  BY DEF EtagInv
<1>4. \A c \in Clients :
        /\ DOMAIN request'[c] = RequestFields /\ held'[c] = held[c]
        /\ View[c] \notin blurred => RequestFits(View[c], request'[c])
  BY DEF EtagInv
<1> QED
  BY <1>1, <1>2, <1>3, <1>4, EtagInvKept

LEMMA EtagInvStays ==
  ASSUME EtagInv, [NextOfOne]_allVars
  PROVE  EtagInv'
<1>1. ASSUME Translator!Next
      PROVE  EtagInv'
  <2>1. ASSUME NEW c \in Clients, Translator!ClientStep(c)
        PROVE  EtagInv'
    BY <2>1, AskKeeps, LookBundleKeeps, ReadGlobalRevisionKeeps, ReadTenantRevisionKeeps, KeepETagKeeps,
       ReadRowsKeeps, ReadOverridesKeeps, KeepBundleKeeps DEF Translator!ClientStep
  <2>2. ASSUME NEW b \in Translator!Bundles, Translator!ExpireBundle(b) \/ Translator!ExpireETag(b)
        PROVE  EtagInv'
    BY <2>2, RestKeeps
       DEF Translator!ExpireBundle, Translator!ExpireETag, Translator!tables, Translator!clients
  <2> QED
    BY <1>1, <2>1, <2>2, WritesKeep DEF Translator!Next
<1>2. CASE UNCHANGED translatorVars
  BY <1>2, RestKeeps DEF translatorVars
<1> QED
  BY <1>1, <1>2 DEF NextOfOne, Translating, allVars

LEMMA EtagInvStarts ==
  ASSUME Translator!Init
  PROVE  EtagInv
<1>1. PICK k \in Keys :
        rows = {[scope |-> Global, locale |-> Base, key |-> k, text |-> Seed, by |-> Nil]}
  BY DEF Translator!Init
<1>2. \A r \in rows : DOMAIN r = RowFields
  BY <1>1 DEF RowFields
<1>3. PICK v : v = [scope |-> Global, locale |-> Base, number |-> 1, by |-> Nil]
  OBVIOUS
<1>4. revisions = {v} /\ IsRevision(v)
  BY <1>3 DEF Translator!Init, IsRevision
<1>5. \A scope, locale : OneRevision(scope, locale)
  BY <1>4 DEF OneRevision, Translator!RevisionsOf
<1>6. TablesFit
  BY <1>2, <1>4, <1>5 DEF TablesFit
<1>7. PICK m, q : m = Translator!NoWrite /\ q = Translator!NoRequest
  OBVIOUS
<1>8. WriteFits(m) /\ DOMAIN q = RequestFields /\ \A b : RequestFits(b, q)
  BY <1>6, <1>7, NoWriteFits, NoRequestIs, NothingRead DEF WriteFits
<1>9. /\ write = [w \in Writes |-> m] /\ request = [c \in Clients |-> q]
      /\ bundles = [b \in Translator!Bundles |-> Nil] /\ held = [c \in Clients |-> Nil]
  BY <1>7 DEF Translator!Init
<1> QED
  BY <1>6, <1>8, <1>9 DEF EtagInv

\* EtagInv says of a request under way, and of a bundle in a cache or with a client, that the revisions
\* it was made of are not above those there are, and that what was read after them is what they number
\* for as long as they are there; a write that finds the revision it read raises it.
THEOREM EtagsTellContents == SpecOfOne => []EtagTellsContent
<1>1. InitOfOne => EtagInv
  BY EtagInvStarts DEF InitOfOne
<1>2. EtagInv /\ [NextOfOne]_allVars => EtagInv'
  BY EtagInvStays
<1>3. EtagInv => EtagTellsContent
  <2> SUFFICES ASSUME EtagInv, NEW c \in Clients, held[c] # Nil, View[c] \notin blurred,
                      held[c].etag \in Translator!Current(View[c])
               PROVE  held[c].entries \in Translator!Resolved(View[c])
    BY DEF EtagTellsContent, Translator!EtagTellsContent
  <2> QED
    BY DEF EtagInv, Tells
<1> QED
  BY <1>1, <1>2, <1>3, PTL DEF SpecOfOne

----------------------------------------------------------------------------
(* Least and greatest elements *)

LEMMA LeastOf ==
  ASSUME NEW S, S \subseteq Nat, S # {}
  PROVE  Chunker!Min(S) \in S /\ \A y \in S : Chunker!Min(S) <= y
<1> DEFINE under(x) == {y \in Nat : y < x}
           all == {under(x) : x \in S}
<1>1. \A x \in S : IsFiniteSet(under(x))
  <2>1. ASSUME NEW x \in S
        PROVE  IsFiniteSet(under(x))
    <3>1. under(x) \subseteq 0 .. x
      OBVIOUS
    <3>2. IsFiniteSet(0 .. x)
      BY <2>1, FS_Interval
    <3> QED
      BY <3>1, <3>2, FS_Subset
  <2> QED
    BY <2>1
<1>2. all \subseteq FiniteSubsetsOf(Nat) /\ all # {}
  BY <1>1 DEF FiniteSubsetsOf
<1>3. IsWellFoundedOn(StrictSubsetOrdering(Nat), FiniteSubsetsOf(Nat))
  BY FS_StrictSubsetOrderingWellFounded
<1> HIDE DEF all
<1>4. PICK least \in all : \A other \in all : <<other, least>> \notin StrictSubsetOrdering(Nat)
  BY <1>2, <1>3, WFMin
<1>5. PICK x \in S : least = under(x)
  BY <1>4 DEF all
<1>6. ASSUME NEW y \in S, ~(x <= y)
      PROVE  FALSE
  <2>1. under(y) \subseteq under(x) /\ y \in under(x) /\ y \notin under(y)
    BY <1>6
  <2>2. <<under(y), least>> \in StrictSubsetOrdering(Nat)
    BY <1>5, <2>1 DEF StrictSubsetOrdering
  <2> QED
    BY <1>4, <1>6, <2>2 DEF all
<1> QED
  BY <1>6 DEF Chunker!Min

LEMMA GreatestOf ==
  ASSUME NEW n \in Nat, NEW S, S \subseteq 0 .. n, S # {}
  PROVE  Chunker!Max(S) \in S /\ \A y \in S : Chunker!Max(S) >= y
<1>1. PICK mirrored : mirrored = {n - x : x \in S}
  OBVIOUS
<1>2. mirrored \subseteq Nat /\ mirrored # {}
  <2>1. \A x \in S : x \in Nat /\ x <= n
    OBVIOUS
  <2>2. \A x \in S : n - x \in Nat
    BY <2>1
  <2> QED
    BY <1>1, <2>2
<1>3. PICK m \in mirrored : \A y \in mirrored : m <= y
  BY ONLY <1>2, LeastOf
<1>4. PICK x \in S : m = n - x
  BY <1>1, <1>3
<1>5. \A y \in S : x >= y
  BY <1>1, <1>3, <1>4
<1> QED
  BY <1>4, <1>5 DEF Chunker!Max

\* The module's own Cardinality is that of FiniteSets.
LEMMA SameCardinality ==
  ASSUME NEW S
  PROVE  Chunker!Cardinality(S) = Cardinality(S)
BY DEF Chunker!Cardinality, Cardinality

----------------------------------------------------------------------------
(* Chunking: stretches of the content *)

Chars == [kind : {"letter", "stop", "break"}, at : Nat \X Nat]

\* The places of the characters at some positions of the content.
PlacesAt(positions) == {content[k].at : k \in positions} \ {Chunker!Break.at}

LEMMA InkedAre ==
  ASSUME content \in Seq(Chars)
  PROVE  /\ Chunker!Inked \subseteq 1 .. Len(content)
         /\ \A k \in 1 .. Len(content) : content[k].at # Chunker!Break.at => k \in Chunker!Inked
         /\ Chunker!Places(content) = PlacesAt(Chunker!Inked)
<1>1. DOMAIN content = 1 .. Len(content)
  OBVIOUS
<1>2. \A k \in 1 .. Len(content) : content[k].at # Chunker!Break.at => k \in Chunker!Inked
  BY <1>1 DEF Chunker!Inked
<1> QED
  BY <1>1, <1>2 DEF Chunker!Inked, Chunker!Places, PlacesAt

LEMMA TrimmedText ==
  ASSUME content \in Seq(Chars), NEW i \in Nat \ {0}, NEW j \in Nat, j <= Len(content),
         NEW positions, positions = Chunker!Inked \cap (i .. j)
  PROVE  \/ positions = {} /\ Chunker!Trimmed(i, j) = <<>>
         \/ \E lo, hi \in positions :
              /\ \A k \in positions : lo <= k /\ k <= hi
              /\ Chunker!Trimmed(i, j) = SubSeq(content, lo, hi)
<1>1. Chunker!Inked \subseteq 1 .. Len(content)
  BY InkedAre
<1>2. positions = {k \in Chunker!Inked : k \in i .. j}
  OBVIOUS
<1>3. CASE positions = {}
  BY <1>2, <1>3 DEF Chunker!Trimmed
<1>4. CASE positions # {}
  <2>1. PICK lo, hi : lo = Chunker!Min(positions) /\ hi = Chunker!Max(positions)
    OBVIOUS
  <2>2. positions \subseteq Nat /\ positions \subseteq 0 .. Len(content) /\ Len(content) \in Nat
    BY <1>1
  <2>3. lo \in positions /\ \A k \in positions : lo <= k
    BY <1>4, <2>1, <2>2, LeastOf
  <2>4. hi \in positions /\ \A k \in positions : hi >= k
    BY <1>4, <2>1, <2>2, GreatestOf
  <2>5. Chunker!Trimmed(i, j) = SubSeq(content, lo, hi)
    BY <1>2, <1>4, <2>1 DEF Chunker!Trimmed
  <2>6. \A k \in positions : lo <= k /\ k <= hi
    BY <2>2, <2>3, <2>4
  <2> QED
    BY <2>3, <2>4, <2>5, <2>6
<1> QED
  BY <1>3, <1>4

LEMMA Stretch ==
  ASSUME content \in Seq(Chars), NEW lo \in 1 .. Len(content), NEW hi \in 0 .. Len(content)
  PROVE  /\ SubSeq(content, lo, hi) \in Seq(Chars)
         /\ Chunker!Places(SubSeq(content, lo, hi)) = PlacesAt(lo .. hi)
<1>1. PICK t : t = SubSeq(content, lo, hi)
  OBVIOUS
<1>2. t \in Seq(Chars) /\ DOMAIN t = 1 .. (IF hi < lo THEN 0 ELSE hi - lo + 1)
  <2>1. lo \in Int /\ hi \in Int /\ \A k \in lo .. hi : content[k] \in Chars
    OBVIOUS
  <2>2. t \in Seq(Chars) /\ Len(t) = IF lo <= hi THEN hi - lo + 1 ELSE 0
    BY ONLY <1>1, <2>1, SubSeqProperties
  <2>3. DOMAIN t = 1 .. Len(t)
    BY <2>2
  <2> QED
    BY <2>1, <2>2, <2>3
<1>3. \A k \in DOMAIN t : t[k] = content[lo + k - 1] /\ lo + k - 1 \in lo .. hi
  BY <1>1, <1>2
<1>4. ASSUME NEW k \in lo .. hi
      PROVE  \E n \in DOMAIN t : t[n] = content[k]
  <2>1. PICK n : n = k - lo + 1
    OBVIOUS
  <2>2. n \in DOMAIN t /\ lo + n - 1 = k
    BY <1>2, <2>1
  <2> QED
    BY <1>3, <2>2
<1>5. {t[k].at : k \in DOMAIN t} = {content[k].at : k \in lo .. hi}
  BY <1>3, <1>4
<1> QED
  BY <1>1, <1>2, <1>5 DEF Chunker!Places, PlacesAt

LEMMA TrimmedPlaces ==
  ASSUME content \in Seq(Chars), NEW i \in Nat \ {0}, NEW j \in Nat, j <= Len(content)
  PROVE  /\ Chunker!Trimmed(i, j) \in Seq(Chars)
         /\ Chunker!Places(Chunker!Trimmed(i, j)) = PlacesAt(i .. j)
<1>1. PICK positions : positions = Chunker!Inked \cap (i .. j)
  OBVIOUS
<1>2. \A k \in i .. j : content[k].at # Chunker!Break.at => k \in positions
  BY <1>1, InkedAre
<1>3. positions \subseteq 1 .. Len(content)
  BY <1>1, InkedAre
<1>4. CASE positions = {} /\ Chunker!Trimmed(i, j) = <<>>
  <2>1. PlacesAt(i .. j) = {}
    BY <1>2, <1>4 DEF PlacesAt
  <2> QED
    BY <1>4, <2>1 DEF Chunker!Places
<1>5. ASSUME NEW lo \in positions, NEW hi \in positions, \A k \in positions : lo <= k /\ k <= hi,
             Chunker!Trimmed(i, j) = SubSeq(content, lo, hi)
      PROVE  /\ Chunker!Trimmed(i, j) \in Seq(Chars)
             /\ Chunker!Places(Chunker!Trimmed(i, j)) = PlacesAt(i .. j)
  <2>1. lo .. hi \subseteq i .. j /\ positions \subseteq lo .. hi
    BY <1>1, <1>3, <1>5
  <2>2. PlacesAt(lo .. hi) = PlacesAt(i .. j)
    BY <1>2, <2>1 DEF PlacesAt
  <2> QED
    BY <1>3, <1>5, <2>2, Stretch
<1> QED
  BY <1>1, <1>4, <1>5, TrimmedText

LEMMA ConcatPlaces ==
  ASSUME NEW s \in Seq(Chars), NEW t \in Seq(Chars)
  PROVE  s \o t \in Seq(Chars) /\ Chunker!Places(s \o t) = Chunker!Places(s) \cup Chunker!Places(t)
<1>1. PICK u : u = s \o t
  OBVIOUS
<1>2. /\ u \in Seq(Chars) /\ Len(u) = Len(s) + Len(t) /\ Len(s) \in Nat /\ Len(t) \in Nat
      /\ \A i \in 1 .. Len(s) + Len(t) : u[i] = IF i <= Len(s) THEN s[i] ELSE t[i - Len(s)]
  BY <1>1, ConcatProperties
<1>3. DOMAIN u = 1 .. Len(u) /\ DOMAIN s = 1 .. Len(s) /\ DOMAIN t = 1 .. Len(t)
  BY <1>2
<1>4. \A i \in DOMAIN u : (i \in DOMAIN s /\ u[i] = s[i]) \/ (i - Len(s) \in DOMAIN t /\ u[i] = t[i - Len(s)])
  BY <1>2, <1>3
<1>5. \A i \in DOMAIN s : i \in DOMAIN u /\ u[i] = s[i]
  BY <1>2, <1>3
<1>6. ASSUME NEW i \in DOMAIN t
      PROVE  \E n \in DOMAIN u : u[n] = t[i]
  <2>1. PICK n : n = Len(s) + i
    OBVIOUS
  <2>2. n \in DOMAIN u /\ n - Len(s) = i /\ ~(n <= Len(s))
    BY <1>2, <1>3, <2>1
  <2> QED
    BY <1>2, <1>3, <2>2
<1>7. {u[i].at : i \in DOMAIN u} = {s[i].at : i \in DOMAIN s} \cup {t[i].at : i \in DOMAIN t}
  BY <1>4, <1>5, <1>6
<1>8. /\ Chunker!Places(u) = {u[i].at : i \in DOMAIN u} \ {Chunker!Break.at}
      /\ Chunker!Places(s) = {s[i].at : i \in DOMAIN s} \ {Chunker!Break.at}
      /\ Chunker!Places(t) = {t[i].at : i \in DOMAIN t} \ {Chunker!Break.at}
  BY DEF Chunker!Places
<1> QED
  BY <1>1, <1>2, <1>7, <1>8

LEMMA BreakFollows ==
  ASSUME NEW s \in Seq(Chars)
  PROVE  /\ Append(s, Chunker!Break) \in Seq(Chars)
         /\ Chunker!Places(Append(s, Chunker!Break)) = Chunker!Places(s)
<1>1. PICK gap, u : gap = Chunker!Break /\ u = Append(s, gap)
  OBVIOUS
<1>2. gap \in Chars
  BY <1>1 DEF Chunker!Break, Chars
<1>3. /\ u \in Seq(Chars) /\ DOMAIN u = 1 .. Len(s) + 1 /\ u[Len(s) + 1] = gap
      /\ \A i \in 1 .. Len(s) : u[i] = s[i]
  BY <1>1, <1>2
<1>4. DOMAIN s = 1 .. Len(s) /\ DOMAIN u = DOMAIN s \cup {Len(s) + 1}
  BY <1>3
<1>5. {u[i].at : i \in DOMAIN u} = {s[i].at : i \in DOMAIN s} \cup {gap.at}
  BY <1>3, <1>4
<1> QED
  BY <1>1, <1>3, <1>5 DEF Chunker!Places

LEMMA SizesOf ==
  ASSUME NEW s \in Seq(Chars)
  PROVE  Chunker!BreaksIn(s) \in 0 .. Len(s) /\ Chunker!Bytes(s) \in Nat
<1>1. PICK breaks : breaks = {i \in DOMAIN s : s[i] = Chunker!Break}
  OBVIOUS
<1>2. IsFiniteSet(1 .. Len(s)) /\ Cardinality(1 .. Len(s)) = Len(s) /\ breaks \subseteq 1 .. Len(s)
  BY <1>1, FS_Interval
<1>3. IsFiniteSet(breaks) /\ Cardinality(breaks) <= Len(s)
  BY <1>2, FS_Subset
<1>4. Cardinality(breaks) \in Nat
  BY <1>3, FS_CardinalityType
<1>5. Chunker!BreaksIn(s) \in 0 .. Len(s)
  <2>1. Chunker!BreaksIn(s) = Cardinality(breaks)
    BY <1>1, SameCardinality DEF Chunker!BreaksIn
  <2> QED
    BY <1>3, <1>4, <2>1
<1>6. \A n \in 0 .. Len(s) : 3 * (Len(s) - n) + 2 * n \in Nat
  OBVIOUS
<1> QED
  BY <1>5, <1>6 DEF Chunker!Bytes

LEMMA BoundaryInside ==
  ASSUME content \in Seq(Chars), Chunker!Splits
  PROVE  Chunker!split_at_token_budget \in 1 .. Len(content) - 1
<1>1. PICK n : n = Len(content)
  OBVIOUS
<1>2. n \in Nat \ {0}
  BY <1>1, InkedAre DEF Chunker!Splits
<1>3. PICK best : best = Chunker!best_boundary_under_token_budget
  OBVIOUS
<1>4. best \subseteq 0 .. n - 1
  BY <1>1, <1>2, <1>3 DEF Chunker!best_boundary_under_token_budget, Chunker!Boundaries
<1>5. PICK half : half = {i \in 0 .. n - 1 :
                            Chunker!Bytes(SubSeq(content, 1, i)) <= Chunker!Bytes(content) \div 2}
  OBVIOUS
<1>6. 0 \in half
  <2>1. SubSeq(content, 1, 0) = <<>>
    BY SubSeqEmpty
  <2>2. Chunker!Bytes(<<>>) = 0
    <3>1. <<>> \in Seq(Chars) /\ Len(<<>>) = 0
      BY EmptySeq
    <3>2. Chunker!BreaksIn(<<>>) \in 0 .. 0
      BY <3>1, SizesOf
    <3> QED
      BY <3>1, <3>2 DEF Chunker!Bytes
  <2>3. Chunker!Bytes(content) \div 2 \in Nat
    BY SizesOf
  <2>4. Chunker!Bytes(SubSeq(content, 1, 0)) = 0
    BY <2>1, <2>2, Zenon
  <2>5. 0 <= Chunker!Bytes(content) \div 2
    BY <2>3
  <2> QED
    BY <1>2, <1>5, <2>4, <2>5
<1>7. n - 1 \in Nat /\ half \subseteq 0 .. n - 1 /\ half # {}
  BY <1>2, <1>5, <1>6
<1>8. Chunker!split_at_token_budget \in 0 .. n - 1
  <2>1. best # {} => Chunker!Max(best) \in best
    BY <1>4, <1>7, GreatestOf
  <2>2. Chunker!Max(half) \in half
    BY <1>7, GreatestOf
  <2>3. Chunker!fallback_char_boundary = Chunker!Max(half)
    BY <1>1, <1>5 DEF Chunker!fallback_char_boundary
  <2> QED
    BY <1>3, <1>4, <1>7, <2>1, <2>2, <2>3 DEF Chunker!split_at_token_budget
<1>9. Chunker!split_at_token_budget # 0
  BY <1>8 DEF Chunker!Splits
<1> QED
  BY <1>1, <1>8, <1>9

LEMMA OverlapText ==
  ASSUME content \in Seq(Chars), NEW b \in 1 .. Len(content),
         NEW overlap, overlap = Chunker!non_blocking_overlap(1, b)
  PROVE  \/ overlap = <<>>
         \/ \E start \in 1 .. b + 1 :
              /\ Chunker!Inked \cap (1 .. start - 1) # {}
              /\ overlap = Append(Chunker!Trimmed(start, b), Chunker!Break)
<1>1. PICK stops : stops = {k \in 1 .. b : content[k].kind = "stop"}
  OBVIOUS
<1>2. PICK before : before = {k \in stops : Chunker!Cardinality({l \in stops : l > k}) >= OverlapSentences}
  OBVIOUS
<1>3. before \subseteq 0 .. b /\ before \subseteq 1 .. b /\ b \in Nat
  BY <1>1, <1>2
<1>4. before # {} => Chunker!Max(before) \in before
  BY <1>3, GreatestOf
<1>5. Chunker!trailing_sentences(1, b) = IF before = {} THEN 1 ELSE Chunker!Max(before) + 1
  BY ONLY <1>1, <1>2, Zenon DEF Chunker!trailing_sentences
<1>6. Chunker!trailing_sentences(1, b) \in 1 .. b + 1
  <2>1. CASE before = {}
    BY <1>3, <1>5, <2>1
  <2>2. CASE before # {}
    <3>1. Chunker!Max(before) \in 1 .. b
      BY <1>3, <1>4, <2>2
    <3> QED
      BY <1>3, <1>5, <2>2, <3>1
  <2> QED
    BY <2>1, <2>2
<1> QED
  BY <1>6 DEF Chunker!non_blocking_overlap

----------------------------------------------------------------------------
(* Chunking: the inductive invariant *)

Events == [chars : Seq(Chars), ends : BOOLEAN, new : BOOLEAN, handled : BOOLEAN]

AppendedPlaces(event) == Chunker!Places(Chunker!Appended(event))

\* An event that is not new content appends no text.
DocumentFits ==
  /\ document \in Seq(Events)
  /\ \A e \in DOMAIN document : document[e].new \/ AppendedPlaces(document[e]) = {}

InChunks(place) == \E chunk \in chunks : place \in Chunker!Places(chunk)

\* What was appended is in the content or in a chunk, and content that is not fresh is in one too.
ChunkInv ==
  /\ DocumentFits /\ next \in Nat \ {0} /\ content \in Seq(Chars) /\ fresh \in BOOLEAN
  /\ \A e \in DOMAIN document : e < next =>
       \A place \in AppendedPlaces(document[e]) :
         place \in Chunker!Places(content) \/ InChunks(place)
  /\ fresh \/ \A place \in Chunker!Places(content) : InChunks(place)
  /\ NothingLost

LEMMA WholePlaces ==
  ASSUME content \in Seq(Chars)
  PROVE  Chunker!Places(content) = PlacesAt(1 .. Len(content))
<1>1. DOMAIN content = 1 .. Len(content)
  OBVIOUS
<1> QED
  BY <1>1 DEF Chunker!Places, PlacesAt

LEMMA OverlapPlaces ==
  ASSUME content \in Seq(Chars), NEW b \in 1 .. Len(content),
         NEW overlap, overlap = Chunker!non_blocking_overlap(1, b)
  PROVE  overlap \in Seq(Chars) /\ Chunker!Places(overlap) \subseteq PlacesAt(1 .. b)
<1>1. CASE overlap = <<>>
  <2>1. Chunker!Places(<<>>) = {}
    BY DEF Chunker!Places
  <2>2. <<>> \in Seq(Chars)
    BY EmptySeq
  <2> QED
    BY <1>1, <2>1, <2>2, Zenon
<1>2. ASSUME NEW start \in 1 .. b + 1,
             overlap = Append(Chunker!Trimmed(start, b), Chunker!Break)
      PROVE  overlap \in Seq(Chars) /\ Chunker!Places(overlap) \subseteq PlacesAt(1 .. b)
  <2>1. start \in Nat \ {0} /\ b \in Nat /\ b <= Len(content) /\ start .. b \subseteq 1 .. b
    OBVIOUS
  <2>2. /\ Chunker!Trimmed(start, b) \in Seq(Chars)
        /\ Chunker!Places(Chunker!Trimmed(start, b)) = PlacesAt(start .. b)
    BY <2>1, TrimmedPlaces
  <2>3. overlap \in Seq(Chars) /\ Chunker!Places(overlap) = PlacesAt(start .. b)
    BY <1>2, <2>2, BreakFollows
  <2> QED
    BY <2>1, <2>3 DEF PlacesAt
<1> QED
  BY <1>1, <1>2, OverlapText

\* A step in which nothing is appended keeps what is held.
LEMMA HeldOn ==
  ASSUME ChunkInv, UNCHANGED <<document, next>>, content' \in Seq(Chars), fresh' \in BOOLEAN,
         \A place : InChunks(place) => InChunks(place)',
         \A place \in Chunker!Places(content) :
           place \in Chunker!Places(content') \/ InChunks(place)',
         fresh' \/ \A place \in Chunker!Places(content') : InChunks(place)',
         pc' # "done"
  PROVE  ChunkInv'
<1>1. NothingLost'
  BY DEF NothingLost, Chunker!NothingLost
<1>2. \A e \in DOMAIN document' : e < next' =>
        \A place \in AppendedPlaces(document'[e]) :
          place \in Chunker!Places(content') \/ InChunks(place)'
  BY DEF ChunkInv
<1>3. DocumentFits'
  BY DEF ChunkInv, DocumentFits
<1> QED
  BY <1>1, <1>2, <1>3 DEF ChunkInv

LEMMA AppendEventKeeps ==
  ASSUME ChunkInv, Chunker!AppendEvent
  PROVE  ChunkInv'
<1>1. PICK event, ended :
        /\ event = document[next]
        /\ ended = (event.ends /\ content # <<>> /\ Chunker!estimate_tokens(content) > MinTokens)
  OBVIOUS
<1>2. /\ chunks' = IF ended THEN chunks \cup {content} ELSE chunks
      /\ content' = (IF ended THEN <<>> ELSE content) \o Chunker!Appended(event)
      /\ fresh' = (fresh \/ event.new)
      /\ pc' \in {"split", "append"} /\ next' = next + 1 /\ document' = document
      /\ next <= Len(document)
  BY <1>1 DEF Chunker!AppendEvent
<1>3. PICK kept : kept = IF ended THEN <<>> ELSE content
  OBVIOUS
<1>4. DocumentFits /\ next \in Nat \ {0} /\ content \in Seq(Chars) /\ fresh \in BOOLEAN
  BY DEF ChunkInv
<1>5. kept \in Seq(Chars)
  BY <1>3, <1>4
<1>6. ASSUME next \in DOMAIN document
      PROVE  /\ Chunker!Appended(event) \in Seq(Chars) /\ event.new \in BOOLEAN
             /\ event.new \/ AppendedPlaces(event) = {}
  <2>1. document[next] \in Events
    BY <1>4, <1>6 DEF DocumentFits
  <2>2. document[next].new \/ AppendedPlaces(document[next]) = {}
    BY <1>4, <1>6, Zenon DEF DocumentFits
  <2>3. event.new \/ AppendedPlaces(event) = {}
    BY <1>1, <2>2, Zenon
  <2>4. event.chars \in Seq(Chars) /\ <<>> \in Seq(Chars) /\ event.new \in BOOLEAN
    BY <1>1, <2>1 DEF Events
  <2>5. Chunker!Appended(event) \in Seq(Chars)
    BY <2>4, Zenon DEF Chunker!Appended
  <2> QED
    BY <2>3, <2>4, <2>5
<1>7. next \in DOMAIN document
  BY <1>2, <1>4 DEF DocumentFits
<1>8. /\ content' \in Seq(Chars)
      /\ Chunker!Places(content') = Chunker!Places(kept) \cup AppendedPlaces(event)
  <2>1. PICK chars : chars = Chunker!Appended(event)
    OBVIOUS
  <2>2. Chunker!Places(chars) = AppendedPlaces(event) /\ chars \in Seq(Chars)
    BY <1>6, <1>7, <2>1 DEF AppendedPlaces
  <2> QED
    BY <1>2, <1>3, <1>5, <2>1, <2>2, ConcatPlaces
<1>9. \A place : InChunks(place) => InChunks(place)'
  BY <1>2 DEF InChunks
<1>10. \A place \in Chunker!Places(content) : place \in Chunker!Places(content') \/ InChunks(place)'
  BY <1>2, <1>3, <1>8 DEF InChunks
<1>11. \A e \in DOMAIN document' : e < next' =>
         \A place \in AppendedPlaces(document'[e]) :
           place \in Chunker!Places(content') \/ InChunks(place)'
  <2>1. SUFFICES ASSUME NEW e \in DOMAIN document, e < next + 1,
                        NEW place \in AppendedPlaces(document[e])
                 PROVE  place \in Chunker!Places(content') \/ InChunks(place)'
    BY <1>2
  <2>2. CASE e < next
    BY <1>9, <1>10, <2>1, <2>2 DEF ChunkInv
  <2>3. CASE e = next
    BY <1>1, <1>8, <2>1, <2>3
  <2>4. e \in Nat
    BY <1>4 DEF DocumentFits
  <2> QED
    BY <1>4, <2>1, <2>2, <2>3, <2>4
<1>12. fresh' \/ \A place \in Chunker!Places(content') : InChunks(place)'
  <2>1. Chunker!Places(<<>>) = {}
    BY DEF Chunker!Places
  <2>2. Chunker!Places(kept) \subseteq Chunker!Places(content)
    BY <1>3, <2>1
  <2>3. ~ fresh' => ~ fresh /\ ~ event.new
    BY <1>2
  <2> QED
    BY <1>6, <1>7, <1>8, <1>9, <2>2, <2>3 DEF ChunkInv
<1>13. NothingLost' /\ DocumentFits'
  BY <1>2, <1>4 DEF NothingLost, Chunker!NothingLost, DocumentFits
<1>14. next' \in Nat \ {0} /\ fresh' \in BOOLEAN
  BY <1>2, <1>4, <1>6, <1>7
<1> QED
  BY <1>8, <1>11, <1>12, <1>13, <1>14 DEF ChunkInv

LEMMA ChunkStepsKeep ==
  ASSUME ChunkInv, Chunker!SplitOff \/ Chunker!FlushWhole \/ Chunker!WithinBudget \/ Chunker!Finish
  PROVE  ChunkInv'
<1>1. DocumentFits /\ next \in Nat \ {0} /\ content \in Seq(Chars) /\ fresh \in BOOLEAN
  BY DEF ChunkInv
<1>2. CASE Chunker!SplitOff
  <2>1. PICK boundary, start :
          /\ boundary = Chunker!split_at_token_budget
          /\ start = Chunker!Min({k \in Chunker!Inked : k > boundary})
          /\ content' = Chunker!non_blocking_overlap(1, boundary) \o SubSeq(content, start, Len(content))
          /\ chunks' = chunks \cup {Chunker!Trimmed(1, boundary)}
    BY <1>2 DEF Chunker!SplitOff
  <2>2. Chunker!Splits /\ fresh' = TRUE /\ UNCHANGED <<document, next>> /\ pc' # "done"
    BY <1>2 DEF Chunker!SplitOff
  <2>3. boundary \in 1 .. Len(content) - 1 /\ Len(content) \in Nat
    BY <1>1, <2>1, <2>2, BoundaryInside
  <2>4. PICK rest : rest = {k \in Chunker!Inked : k > boundary}
    OBVIOUS
  <2>5. Chunker!Inked \subseteq 1 .. Len(content)
    BY <1>1, InkedAre
  <2>6. rest \subseteq 1 .. Len(content) /\ rest \subseteq Nat /\ rest # {}
    <3>1. PICK k : k \in Chunker!Inked \cap (boundary + 1 .. Len(content))
      BY <2>1, <2>2 DEF Chunker!Splits
    <3>2. k \in rest
      <4>1. k \in Chunker!Inked /\ k > boundary
        BY <2>3, <3>1
      <4> QED
        BY <2>4, <4>1
    <3>3. rest \subseteq 1 .. Len(content)
      BY <2>4, <2>5
    <3>4. 1 .. Len(content) \subseteq Nat
      BY <2>3
    <3> QED
      BY <3>2, <3>3, <3>4
  <2>7. start \in rest /\ \A k \in rest : start <= k
    BY <2>1, <2>4, <2>6, LeastOf
  <2>8. PICK overlap, tail : overlap = Chunker!non_blocking_overlap(1, boundary)
                             /\ tail = SubSeq(content, start, Len(content))
    OBVIOUS
  <2>9. overlap \in Seq(Chars)
    BY <1>1, <2>3, <2>8, OverlapPlaces
  <2>10. tail \in Seq(Chars) /\ Chunker!Places(tail) = PlacesAt(start .. Len(content))
    BY <1>1, <2>3, <2>6, <2>7, <2>8, Stretch
  <2>11. content' \in Seq(Chars) /\ Chunker!Places(content') = Chunker!Places(overlap) \cup Chunker!Places(tail)
    BY <2>1, <2>8, <2>9, <2>10, ConcatPlaces
  <2>12. Chunker!Places(Chunker!Trimmed(1, boundary)) = PlacesAt(1 .. boundary)
    BY <1>1, <2>3, TrimmedPlaces
  <2>13. \A place : InChunks(place) => InChunks(place)'
    BY <2>1 DEF InChunks
  <2>14. ASSUME NEW place \in Chunker!Places(content)
         PROVE  place \in Chunker!Places(content') \/ InChunks(place)'
    <3>1. PICK k \in Chunker!Inked : place = content[k].at /\ place # Chunker!Break.at
      BY <1>1, <2>14, InkedAre DEF PlacesAt
    <3>2. CASE k <= boundary
      <4>1. k \in 1 .. boundary
        BY <2>3, <2>5, <3>2
      <4>2. place \in Chunker!Places(Chunker!Trimmed(1, boundary))
        BY <2>12, <3>1, <4>1 DEF PlacesAt
      <4> QED
        BY <2>1, <4>2 DEF InChunks
    <3>3. CASE k > boundary
      <4>1. k \in rest
        BY <2>4, <3>3
      <4>2. k \in start .. Len(content)
        BY <2>5, <2>6, <2>7, <4>1
      <4> QED
        BY <2>10, <2>11, <3>1, <4>2 DEF PlacesAt
    <3> QED
      BY <2>3, <2>5, <3>2, <3>3
  <2> QED
    BY <2>2, <2>11, <2>13, <2>14, HeldOn
<1>3. CASE Chunker!FlushWhole
  <2>1. /\ chunks' = chunks \cup {content} /\ content' = Chunker!non_blocking_overlap(1, Len(content))
        /\ fresh' = FALSE /\ UNCHANGED <<document, next>> /\ pc' # "done" /\ Chunker!Over
    BY <1>3 DEF Chunker!FlushWhole
  <2>2. Len(content) # 0
    <3>1. SUFFICES ASSUME Len(content) = 0
                   PROVE  FALSE
      OBVIOUS
    <3>2. Chunker!BreaksIn(content) = 0
      <4>1. Chunker!BreaksIn(content) \in 0 .. Len(content)
        BY <1>1, SizesOf
      <4> QED
        BY <3>1, <4>1
    <3>3. Chunker!estimate_tokens(content) = 0
      BY <3>1, <3>2 DEF Chunker!estimate_tokens
    <3> QED
      BY <2>1, <3>3, SizesAssumption DEF Chunker!Over
  <2>3. Len(content) \in 1 .. Len(content)
    BY <1>1, <2>2
  <2>4. content' \in Seq(Chars) /\ Chunker!Places(content') \subseteq PlacesAt(1 .. Len(content))
    BY <1>1, <2>1, <2>3, OverlapPlaces
  <2>5. Chunker!Places(content) = PlacesAt(1 .. Len(content))
    BY <1>1, WholePlaces
  <2>6. \A place \in Chunker!Places(content) : InChunks(place)'
    BY <2>1 DEF InChunks
  <2>7. \A place : InChunks(place) => InChunks(place)'
    BY <2>1 DEF InChunks
  <2>8. \A place \in Chunker!Places(content') : InChunks(place)'
    BY <2>4, <2>5, <2>6
  <2> QED
    BY <2>1, <2>4, <2>6, <2>7, <2>8, HeldOn
<1>4. CASE Chunker!WithinBudget
  <2>1. UNCHANGED <<document, next, content, fresh, chunks>> /\ pc' # "done"
    BY <1>4 DEF Chunker!WithinBudget
  <2>2. \A place : InChunks(place)' <=> InChunks(place)
    BY <2>1 DEF InChunks
  <2>3. fresh' \/ \A place \in Chunker!Places(content') : InChunks(place)'
    BY <2>1, <2>2 DEF ChunkInv
  <2> QED
    BY <1>1, <2>1, <2>2, <2>3, HeldOn
<1>5. CASE Chunker!Finish
  <2>1. /\ UNCHANGED <<document, next, content, fresh>> /\ next > Len(document)
        /\ chunks' = IF content # <<>> /\ fresh THEN chunks \cup {content} ELSE chunks
    BY <1>5 DEF Chunker!Finish
  <2>2. \A place : InChunks(place) => InChunks(place)'
    BY <2>1 DEF InChunks
  <2>3. Chunker!Places(<<>>) = {}
    BY DEF Chunker!Places
  <2>4. \A place \in Chunker!Places(content) : InChunks(place)'
    <3>1. CASE fresh
      BY <2>1, <2>3, <3>1 DEF InChunks
    <3>2. CASE ~ fresh
      BY <2>2, <3>2 DEF ChunkInv
    <3> QED
      BY <3>1, <3>2
  <2>5. \A e \in DOMAIN document : e < next
    BY <1>1, <2>1 DEF DocumentFits
  <2>6. \A e \in DOMAIN document : \A place \in AppendedPlaces(document[e]) : InChunks(place)'
    BY <2>2, <2>4, <2>5 DEF ChunkInv
  <2>7. NothingLost'
    <3>1. ASSUME NEW e \in DOMAIN document, document[e].handled, NEW place \in Chunker!Places(document[e].chars)
          PROVE  InChunks(place)'
      <4>1. Chunker!Appended(document[e]) = document[e].chars
        BY <3>1, Zenon DEF Chunker!Appended
      <4>2. place \in AppendedPlaces(document[e])
        BY <3>1, <4>1 DEF AppendedPlaces
      <4> QED
        BY <2>6, <4>2
    <3> QED
      BY <2>1, <3>1 DEF NothingLost, Chunker!NothingLost, InChunks
  <2>8. DocumentFits'
    BY <1>1, <2>1 DEF DocumentFits
  <2> QED
    BY <1>1, <2>1, <2>4, <2>6, <2>7, <2>8 DEF ChunkInv
<1> QED
  BY <1>2, <1>3, <1>4, <1>5

LEMMA InitDocument ==
  ASSUME Chunker!Init
  PROVE  ChunkInv
<1>1. PICK source \in Chunker!Sources : document = Chunker!EventsOfSource(source)
  BY DEF Chunker!Init
<1>2. PICK n \in Nat : source \in [1 .. n -> Chunker!Blocks]
  BY SizesAssumption DEF Chunker!Sources
<1>3. Len(source) = n
  BY <1>2
<1>4. ASSUME NEW b \in 1 .. n, NEW i \in 1 .. 2
      PROVE  /\ Chunker!EventsOf(source[b], b)[i] \in Events
             /\ LET event == Chunker!EventsOf(source[b], b)[i]
                IN  event.new \in {TRUE} \/ AppendedPlaces(event) = {}
  <2>1. PICK block : block = source[b]
    OBVIOUS
  <2>2. block.kind \in {"paragraph", "formula", "heading", "deep"} /\ block.text \in Chunker!BlockTexts
    BY <1>2, <2>1 DEF Chunker!Blocks
  <2>3. PICK m \in Nat : block.text \in [1 .. m -> {"letter", "stop"}]
    BY <2>2, SizesAssumption DEF Chunker!BlockTexts
  <2>4. PICK text : text = [k \in DOMAIN block.text |-> [kind |-> block.text[k], at |-> <<b, k>>]]
    OBVIOUS
  <2>5. text \in [1 .. m -> Chars]
    <3>1. \A k \in 1 .. m : block.text[k] \in {"letter", "stop"} /\ <<b, k>> \in Nat \X Nat
      BY <2>3
    <3>2. \A k \in 1 .. m : [kind |-> block.text[k], at |-> <<b, k>>] \in Chars
      BY <3>1 DEF Chars
    <3> QED
      BY <2>3, <2>4, <3>2
  <2>6. text \in Seq(Chars)
    BY <2>5
  <2>7. PICK gap : gap = <<Chunker!Break>>
    OBVIOUS
  <2>8. gap \in Seq(Chars) /\ Chunker!Places(gap) = {}
    <3>1. Chunker!Break \in Chars
      BY DEF Chunker!Break, Chars
    <3>2. \A k \in DOMAIN gap : gap[k] = Chunker!Break
      BY <2>7
    <3> QED
      BY <2>7, <3>1, <3>2 DEF Chunker!Places
  <2>9. PICK whole, between, again, opens, dropped :
          /\ whole = [chars |-> text, ends |-> FALSE, new |-> TRUE, handled |-> TRUE]
          /\ between = [chars |-> gap, ends |-> FALSE, new |-> FALSE, handled |-> TRUE]
          /\ again = [chars |-> text, ends |-> FALSE, new |-> TRUE, handled |-> TRUE]
          /\ opens = [chars |-> text, ends |-> block.kind = "heading", new |-> TRUE, handled |-> TRUE]
          /\ dropped = [chars |-> text, ends |-> FALSE, new |-> FALSE, handled |-> FALSE]
    OBVIOUS
  <2>10. Chunker!EventsOf(source[b], b) \in {<<whole, between>>, <<dropped, between>>, <<opens, again>>}
    <3>1. CASE block.kind = "paragraph"
      BY <2>1, <2>4, <2>7, <2>9, <3>1 DEF Chunker!EventsOf
    <3>2. CASE block.kind = "formula"
      BY <2>1, <2>4, <2>7, <2>9, <3>2 DEF Chunker!EventsOf
    <3>3. CASE block.kind \in {"heading", "deep"}
      BY <2>1, <2>4, <2>7, <2>9, <3>3 DEF Chunker!EventsOf
    <3> QED
      BY <2>2, <3>1, <3>2, <3>3
  <2>11. {whole, between, again, opens, dropped} \subseteq Events
    BY <2>6, <2>8, <2>9 DEF Events
  <2>12. /\ whole.new \in {TRUE} /\ again.new \in {TRUE} /\ opens.new \in {TRUE}
         /\ Chunker!Appended(between) = gap /\ Chunker!Appended(dropped) = <<>>
    BY <2>9 DEF Chunker!Appended
  <2>13. AppendedPlaces(between) = {} /\ AppendedPlaces(dropped) = {}
    BY <2>8, <2>12 DEF AppendedPlaces, Chunker!Places
  <2>14. PICK events : events = Chunker!EventsOf(source[b], b)
    OBVIOUS
  <2>15. events[i] \in {whole, between, again, opens, dropped}
    BY <2>10, <2>14
  <2>16. events[i] \in Events /\ (events[i].new \in {TRUE} \/ AppendedPlaces(events[i]) = {})
    BY <2>11, <2>12, <2>13, <2>15, Zenon
  <2> QED
    BY <2>14, <2>16, Zenon
<1>5. \A e \in 1 .. 2 * n : (e + 1) \div 2 \in 1 .. n /\ 2 - (e % 2) \in 1 .. 2
  BY <1>2
<1>6. DOMAIN document = 1 .. 2 * n /\ 2 * n \in Nat
      /\ document = [e \in 1 .. 2 * n |-> Chunker!EventsOf(source[(e + 1) \div 2], (e + 1) \div 2)[2 - (e % 2)]]
  BY <1>1, <1>2, <1>3 DEF Chunker!EventsOfSource
<1>7. ASSUME NEW e \in 1 .. 2 * n
      PROVE  document[e] \in Events /\ (document[e].new \in {TRUE} \/ AppendedPlaces(document[e]) = {})
  <2>1. PICK b, i : b = (e + 1) \div 2 /\ i = 2 - (e % 2)
    OBVIOUS
  <2>2. b \in 1 .. n /\ i \in 1 .. 2
    BY <1>5, <2>1
  <2>3. document[e] = Chunker!EventsOf(source[b], b)[i]
    BY <1>6, <2>1
  <2> QED
    BY <1>4, <2>2, <2>3
<1>8. document \in Seq(Events)
  <2>1. PICK d : d = [e \in 1 .. 2 * n |-> document[e]]
    OBVIOUS
  <2>2. d \in [1 .. 2 * n -> Events]
    BY <1>7, <2>1
  <2>3. document = d
    BY <1>6, <2>1
  <2>4. PICK size \in Nat : size = 2 * n
    BY <1>6
  <2>5. d \in [1 .. size -> Events]
    BY <2>2, <2>4
  <2>6. d \in Seq(Events)
    BY ONLY <2>5
  <2> QED
    BY <2>3, <2>6
<1>9. DocumentFits
  BY <1>6, <1>7, <1>8 DEF DocumentFits
<1>10. next = 1 /\ content = <<>> /\ fresh \in {FALSE} /\ chunks = {} /\ pc = "append"
  BY DEF Chunker!Init
<1>11. \A e \in DOMAIN document : ~(e < next)
  BY <1>6, <1>10
<1>12. Chunker!Places(content) = {} /\ content \in Seq(Chars)
  BY <1>10 DEF Chunker!Places
<1> QED
  BY <1>9, <1>10, <1>11, <1>12 DEF ChunkInv, NothingLost, Chunker!NothingLost

----------------------------------------------------------------------------
(* Chunking: a split leaves less to split *)

\* A text of a stretch of the content before b, breaks, and the content from start on; d is a position
\* of the content that is in neither stretch.
Assembled(t, b, start, p, q, lo, d) ==
  /\ b \in 1 .. Len(content) - 1 /\ start \in b + 1 .. Len(content)
  /\ p \in Nat /\ q \in Nat /\ p <= q /\ lo \in 1 .. b /\ lo + p <= b + 1
  /\ d \in Chunker!Inked /\ d <= b /\ (p = 0 \/ d < lo)
  /\ t \in Seq(Chars) /\ Len(t) = q + Len(content) - start + 1
  /\ \A i \in 1 .. p : t[i] = content[lo + i - 1]
  /\ \A i \in p + 1 .. q : t[i] = Chunker!Break
  /\ \A i \in q + 1 .. Len(t) : t[i] = content[start + i - q - 1]

LEMMA FewerInked ==
  ASSUME content \in Seq(Chars), NEW b, NEW start, NEW p, NEW q, NEW lo, NEW d, NEW t,
         Assembled(t, b, start, p, q, lo, d)
  PROVE  Cardinality({i \in DOMAIN t : t[i] # Chunker!Break}) < Cardinality(Chunker!Inked)
<1> USE DEF Assembled
<1>1. PICK inked : inked = {i \in DOMAIN t : t[i] # Chunker!Break}
  OBVIOUS
<1>2. PICK n \in Nat : n = Len(content) /\ DOMAIN content = 1 .. n
  OBVIOUS
<1>3. Chunker!Inked = {i \in 1 .. n : content[i] # Chunker!Break}
  BY <1>2 DEF Chunker!Inked
<1>4. PICK origin : origin = [i \in inked |-> IF i <= p THEN lo + i - 1 ELSE start + i - q - 1]
  OBVIOUS
<1>5. ASSUME NEW i \in inked
      PROVE  /\ i \in 1 .. Len(t) /\ (i <= p \/ i > q)
             /\ origin[i] = IF i <= p THEN lo + i - 1 ELSE start + i - q - 1
             /\ i <= p => origin[i] <= b
             /\ i > q => origin[i] >= start
             /\ origin[i] \in 1 .. n
             /\ content[origin[i]] = t[i]
             /\ origin[i] # d
  <2>1. i \in 1 .. Len(t) /\ t[i] # Chunker!Break
    BY <1>1
  <2>2. i <= p \/ i > q
    BY <2>1
  <2>3. origin[i] = IF i <= p THEN lo + i - 1 ELSE start + i - q - 1
    BY <1>4
  <2>4. CASE i <= p
    <3>1. origin[i] = lo + i - 1 /\ ~(i > q) /\ d < lo
      BY <2>1, <2>3, <2>4
    <3>2. content[origin[i]] = t[i]
      BY <2>1, <2>4, <3>1
    <3>3. origin[i] \in lo .. b /\ d \in Nat
      BY <1>2, <1>3, <2>1, <2>4, <3>1
    <3> QED
      BY <1>2, <2>1, <2>2, <2>3, <2>4, <3>1, <3>2, <3>3
  <2>5. CASE i > q
    <3>1. origin[i] = start + i - q - 1 /\ ~(i <= p)
      BY <2>1, <2>3, <2>5
    <3>2. content[origin[i]] = t[i]
      BY <2>1, <2>5, <3>1
    <3>3. origin[i] \in start .. n
      BY <1>2, <2>1, <2>5, <3>1
    <3>4. origin[i] # d
      BY <1>2, <1>3, <3>3
    <3> QED
      BY <1>2, <2>1, <2>2, <2>3, <2>5, <3>1, <3>2, <3>3, <3>4
  <2> QED
    BY <2>2, <2>4, <2>5
<1>6. PICK others : others = Chunker!Inked \ {d}
  OBVIOUS
<1>7. \A i \in inked : origin[i] \in others
  BY <1>1, <1>3, <1>5, <1>6
<1>8. origin \in [inked -> others]
  BY <1>4, <1>7
<1>9. ASSUME NEW i \in inked, NEW j \in inked, origin[i] = origin[j]
      PROVE  i = j
  <2>1. i \in 1 .. Len(t) /\ j \in 1 .. Len(t)
    BY <1>5
  <2>2. CASE i <= p /\ j <= p
    BY <1>5, <1>9, <2>1, <2>2
  <2>3. CASE i > q /\ j > q
    <3>1. ~(i <= p) /\ ~(j <= p)
      BY <2>1, <2>3
    <3> QED
      BY <1>5, <1>9, <2>1, <2>3, <3>1
  <2>4. ~(i <= p /\ j > q) /\ ~(i > q /\ j <= p)
    <3>1. \A k \in inked : k <= p => origin[k] \in 1 .. n /\ origin[k] <= b
      BY <1>5
    <3>2. \A k \in inked : k > q => origin[k] \in 1 .. n /\ origin[k] >= b + 1
      <4>1. start >= b + 1 /\ start \in Int /\ b \in Int
        BY <1>2
      <4>2. \A k \in inked : k > q => origin[k] \in 1 .. n /\ origin[k] >= start
        BY <1>5
      <4> QED
        BY ONLY <1>2, <4>1, <4>2
    <3> QED
      BY <1>2, <1>9, <3>1, <3>2
  <2> QED
    BY <1>5, <2>2, <2>3, <2>4
<1>10. origin \in Injection(inked, others)
  BY <1>8, <1>9 DEF Injection, IsInjective
<1>11. IsFiniteSet(Chunker!Inked)
  <2>1. IsFiniteSet(1 .. n) /\ Chunker!Inked \subseteq 1 .. n
    BY <1>2, <1>3, FS_Interval
  <2> QED
    BY <2>1, FS_Subset
<1>12. IsFiniteSet(others) /\ Cardinality(others) = Cardinality(Chunker!Inked) - 1
  BY <1>6, <1>11, FS_RemoveElement
<1>13. IsFiniteSet(inked) /\ Cardinality(inked) <= Cardinality(others)
  BY <1>10, <1>12, FS_Injection
<1>14. Cardinality(Chunker!Inked) \in Nat /\ Cardinality(inked) \in Nat
  BY <1>11, <1>13, FS_CardinalityType
<1> QED
  BY <1>1, <1>12, <1>13, <1>14

\* What Trimmed makes of a stretch, by its first and last characters.
TextOfStretch(i, j) ==
  \/ Chunker!Trimmed(i, j) = <<>>
  \/ \E lo, hi \in Chunker!Inked \cap (i .. j) : lo <= hi /\ Chunker!Trimmed(i, j) = SubSeq(content, lo, hi)

LEMMA TextsOfStretches ==
  ASSUME content \in Seq(Chars), NEW i \in Nat \ {0}, NEW j \in Nat, j <= Len(content)
  PROVE  TextOfStretch(i, j)
<1>1. PICK positions : positions = Chunker!Inked \cap (i .. j)
  OBVIOUS
<1>2. CASE Chunker!Trimmed(i, j) = <<>>
  BY <1>2 DEF TextOfStretch
<1>3. ASSUME NEW lo \in positions, NEW hi \in positions, \A k \in positions : lo <= k /\ k <= hi,
             Chunker!Trimmed(i, j) = SubSeq(content, lo, hi)
      PROVE  TextOfStretch(i, j)
  BY <1>1, <1>3 DEF TextOfStretch
<1> QED
  BY <1>1, <1>2, <1>3, TrimmedText

LEMMA SplitsLeaveLess ==
  ASSUME ChunkInv, Chunker!SplitOff
  PROVE  Chunker!Cardinality(Chunker!Inked') < Chunker!Cardinality(Chunker!Inked)
<1>1. content \in Seq(Chars)
  BY DEF ChunkInv
<1>2. PICK b, start, overlap, n :
        /\ b = Chunker!split_at_token_budget
        /\ start = Chunker!Min({k \in Chunker!Inked : k > b})
        /\ overlap = Chunker!non_blocking_overlap(1, b)
        /\ n = Len(content)
        /\ content' = overlap \o SubSeq(content, start, n)
  BY DEF Chunker!SplitOff
<1>3. Chunker!Splits
  BY DEF Chunker!SplitOff
<1>4. n \in Nat /\ b \in 1 .. n - 1 /\ b \in 1 .. n
  BY <1>1, <1>2, <1>3, BoundaryInside
<1>5. Chunker!Inked \subseteq 1 .. n
  BY <1>1, <1>2, InkedAre
<1>6. start \in b + 1 .. n
  <2>1. PICK rest : rest = {k \in Chunker!Inked : k > b}
    OBVIOUS
  <2>2. PICK k : k \in Chunker!Inked /\ k \in b + 1 .. n
    BY <1>2, <1>3 DEF Chunker!Splits
  <2>3. k \in rest
    BY <1>4, <2>1, <2>2
  <2>4. rest \subseteq b + 1 .. n
    <3>1. \A i \in 1 .. n : i > b => i \in b + 1 .. n
      BY <1>4
    <3> QED
      BY <1>5, <2>1, <3>1
  <2>5. b + 1 .. n \subseteq Nat
    BY <1>4
  <2>6. Chunker!Min(rest) \in rest
    BY <2>3, <2>4, <2>5, LeastOf
  <2> QED
    BY <1>2, <2>1, <2>4, <2>6
<1>7. PICK t, tail : tail = SubSeq(content, start, n) /\ t = overlap \o tail
  OBVIOUS
<1>8. overlap \in Seq(Chars)
  BY <1>1, <1>2, <1>4, OverlapPlaces
<1>9. tail \in Seq(Chars) /\ Len(tail) = n - start + 1 /\ \A i \in 1 .. Len(tail) : tail[i] = content[start + i - 1]
  <2>1. start \in Int /\ n \in Int /\ start <= n /\ \A k \in start .. n : content[k] \in Chars
    <3>1. \A k \in 1 .. n : content[k] \in Chars
      BY <1>1, <1>2
    <3>2. start .. n \subseteq 1 .. n
      BY <1>4, <1>6
    <3> QED
      BY <1>4, <1>6, <3>1, <3>2
  <2> QED
    BY ONLY <1>7, <2>1, SubSeqProperties
<1>10. /\ t \in Seq(Chars) /\ Len(t) = Len(overlap) + Len(tail) /\ Len(overlap) \in Nat
       /\ \A i \in 1 .. Len(overlap) : t[i] = overlap[i]
       /\ \A i \in Len(overlap) + 1 .. Len(t) : t[i] = tail[i - Len(overlap)]
  <2>1. /\ t \in Seq(Chars) /\ Len(t) = Len(overlap) + Len(tail)
        /\ \A i \in 1 .. Len(overlap) + Len(tail) :
             t[i] = IF i <= Len(overlap) THEN overlap[i] ELSE tail[i - Len(overlap)]
    BY ONLY <1>7, <1>8, <1>9, ConcatProperties
  <2>2. Len(overlap) \in Nat /\ Len(tail) \in Nat
    BY <1>8, <1>9
  <2> QED
    BY <2>1, <2>2
<1>11. PICK q \in Nat : q = Len(overlap)
  BY <1>10
<1>12. \A i \in q + 1 .. Len(t) : t[i] = content[start + i - q - 1]
  <2>1. SUFFICES ASSUME NEW i \in q + 1 .. Len(t)
                 PROVE  t[i] = content[start + i - q - 1]
    OBVIOUS
  <2>2. PICK j : j = i - q
    OBVIOUS
  <2>3. j \in 1 .. Len(tail) /\ start + j - 1 = start + i - q - 1
    BY <1>4, <1>6, <1>9, <1>10, <1>11, <2>1, <2>2
  <2>4. t[i] = tail[j]
    BY <1>10, <1>11, <2>1, <2>2
  <2> QED
    BY <1>9, <2>3, <2>4
<1>13. Len(t) = q + n - start + 1
  BY <1>4, <1>6, <1>9, <1>10, <1>11
<1>14. \E p \in Nat, lo \in 1 .. b, d \in Chunker!Inked :
         /\ p <= q /\ lo + p <= b + 1 /\ d <= b /\ (p = 0 \/ d < lo)
         /\ \A i \in 1 .. p : t[i] = content[lo + i - 1]
         /\ \A i \in p + 1 .. q : t[i] = Chunker!Break
  <2>1. CASE overlap = <<>>
    <3>1. PICK d \in Chunker!Inked : d \in 1 .. b
      BY <1>2, <1>3 DEF Chunker!Splits
    <3>2. q = 0
      BY <1>11, <2>1
    <3>3. PICK p \in Nat, lo \in 1 .. b : p = 0 /\ lo = 1
      BY <1>4
    <3>4. 1 .. p = {} /\ p + 1 .. q = {}
      BY <3>2, <3>3
    <3>5. (\A i \in 1 .. p : t[i] = content[lo + i - 1]) /\ \A i \in p + 1 .. q : t[i] = Chunker!Break
      BY <3>4
    <3>6. p <= q /\ lo + p <= b + 1 /\ d <= b
      BY <1>4, <3>1, <3>2, <3>3
    <3> QED
      BY <3>3, <3>5, <3>6
  <2>2. ASSUME NEW from \in 1 .. b + 1, Chunker!Inked \cap (1 .. from - 1) # {},
               overlap = Append(Chunker!Trimmed(from, b), Chunker!Break)
        PROVE  \E p \in Nat, lo \in 1 .. b, d \in Chunker!Inked :
                 /\ p <= q /\ lo + p <= b + 1 /\ d <= b /\ (p = 0 \/ d < lo)
                 /\ \A i \in 1 .. p : t[i] = content[lo + i - 1]
                 /\ \A i \in p + 1 .. q : t[i] = Chunker!Break
    <3>1. PICK d \in Chunker!Inked : d \in 1 .. from - 1
      BY <2>2
    <3>2. PICK text, gap : text = Chunker!Trimmed(from, b) /\ gap = Chunker!Break
      OBVIOUS
    <3>3. from \in Nat \ {0} /\ b \in Nat /\ b <= Len(content)
      BY <1>2, <1>4
    <3>4. text \in Seq(Chars)
      BY <1>1, <3>2, <3>3, TrimmedPlaces
    <3>5. PICK p \in Nat : p = Len(text)
      BY <3>4
    <3>6. overlap = Append(text, gap) /\ gap \in Chars
      BY <2>2, <3>2 DEF Chunker!Break, Chars
    <3>7. q = p + 1 /\ overlap[p + 1] = gap /\ \A i \in 1 .. p : overlap[i] = text[i]
      BY <1>11, <3>4, <3>5, <3>6
    <3>8. (\A i \in 1 .. p : t[i] = text[i]) /\ (\A i \in p + 1 .. q : t[i] = gap)
      BY <1>10, <1>11, <3>7
    <3>9. PICK positions : positions = Chunker!Inked \cap (from .. b)
      OBVIOUS
    <3>10. text = <<>> \/ \E lo, hi \in positions : lo <= hi /\ text = SubSeq(content, lo, hi)
      <4>1. TextOfStretch(from, b)
        BY <1>1, <3>3, TextsOfStretches
      <4> QED
        BY <3>2, <3>9, <4>1, Zenon DEF TextOfStretch
    <3>11. CASE text = <<>>
      <4>1. p = 0 /\ 1 .. p = {}
        BY <3>5, <3>11
      <4>2. 1 \in 1 .. b /\ d <= b
        BY <1>4, <3>1, <2>2
      <4> QED
        BY <1>4, <3>2, <3>7, <3>8, <4>1, <4>2
    <3>12. ASSUME NEW lo \in positions, NEW hi \in positions, lo <= hi, text = SubSeq(content, lo, hi)
           PROVE  \E least \in 1 .. b :
                    /\ p <= q /\ least + p <= b + 1 /\ d <= b /\ (p = 0 \/ d < least)
                    /\ \A i \in 1 .. p : t[i] = content[least + i - 1]
                    /\ \A i \in p + 1 .. q : t[i] = Chunker!Break
      <4>1. lo \in from .. b /\ hi \in from .. b
        BY <3>9, <3>12
      <4>2. lo \in Int /\ hi \in Int /\ \A k \in lo .. hi : content[k] \in Chars
        BY <1>1, <3>3, <4>1
      <4>3. Len(text) = hi - lo + 1 /\ \A i \in 1 .. Len(text) : text[i] = content[lo + i - 1]
        BY ONLY <3>12, <4>2, SubSeqProperties
      <4>4. \A i \in 1 .. p : t[i] = content[lo + i - 1]
        BY <3>5, <3>8, <4>3
      <4>5. lo \in 1 .. b /\ lo + p <= b + 1 /\ d <= b /\ d < lo /\ p <= q
        BY <1>4, <3>1, <3>3, <3>5, <3>7, <4>1, <4>3
      <4> QED
        BY <3>2, <3>8, <4>4, <4>5
    <3> QED
      BY <3>10, <3>11, <3>12
  <2> QED
    BY <1>1, <1>2, <1>4, <2>1, <2>2, OverlapText
<1>15. PICK p \in Nat, lo \in 1 .. b, d \in Chunker!Inked :
         /\ p <= q /\ lo + p <= b + 1 /\ d <= b /\ (p = 0 \/ d < lo)
         /\ \A i \in 1 .. p : t[i] = content[lo + i - 1]
         /\ \A i \in p + 1 .. q : t[i] = Chunker!Break
  BY <1>14
<1>16. Cardinality({i \in DOMAIN t : t[i] # Chunker!Break}) < Cardinality(Chunker!Inked)
  <2>1. b \in 1 .. Len(content) - 1 /\ start \in b + 1 .. Len(content)
    BY <1>2, <1>4, <1>6, Zenon
  <2>2. Len(t) = q + Len(content) - start + 1
    BY <1>2, <1>13, Zenon
  <2>3. Assembled(t, b, start, p, q, lo, d)
    BY ONLY <1>10, <1>11, <1>12, <1>15, <2>1, <2>2, Zenon DEF Assembled
  <2> QED
    BY <1>1, <2>3, FewerInked
<1>17. Chunker!Inked' = {i \in DOMAIN t : t[i] # Chunker!Break}
  BY <1>2, <1>7 DEF Chunker!Inked, Chunker!Break
<1> QED
  BY <1>16, <1>17, SameCardinality

LEMMA ChunkInvStays ==
  ASSUME ChunkInv, [NextOfOne]_allVars
  PROVE  ChunkInv'
<1>1. CASE Chunker!Next
  BY <1>1, AppendEventKeeps, ChunkStepsKeep DEF Chunker!Next
<1>2. CASE UNCHANGED chunkerVars
  <2>1. UNCHANGED <<document, next, content, fresh, chunks, pc>>
    BY <1>2 DEF chunkerVars
  <2>2. \A place : InChunks(place)' <=> InChunks(place)
    BY <2>1 DEF InChunks
  <2>3. NothingLost' /\ DocumentFits'
    BY <2>1 DEF ChunkInv, NothingLost, Chunker!NothingLost, DocumentFits
  <2> QED
    BY <2>1, <2>2, <2>3 DEF ChunkInv
<1> QED
  BY <1>1, <1>2 DEF NextOfOne, Translating, allVars

\* ChunkInv says that what was appended is in the content or in a chunk, and that content that is not
\* fresh, and so may be dropped, is in a chunk: the cut is after a place of the content, and what comes
\* before it is a chunk.
THEOREM NothingIsLost == SpecOfOne => []NothingLost
<1>1. InitOfOne => ChunkInv
  BY InitDocument DEF InitOfOne
<1>2. ChunkInv /\ [NextOfOne]_allVars => ChunkInv'
  BY ChunkInvStays
<1>3. ChunkInv => NothingLost
  BY DEF ChunkInv
<1> QED
  BY <1>1, <1>2, <1>3, PTL DEF SpecOfOne

\* A split drops a place of the content that the overlap does not repeat, and repeats no place twice.
THEOREM SplitsMakeShorter == SpecOfOne => SplitsShorten
<1>1. InitOfOne => ChunkInv
  BY InitDocument DEF InitOfOne
<1>2. ChunkInv /\ [NextOfOne]_allVars => ChunkInv'
  BY ChunkInvStays
<1>3. ChunkInv /\ [NextOfOne]_allVars =>
        [pc = "split" /\ pc' = "split" =>
           Chunker!Cardinality(Chunker!Inked') < Chunker!Cardinality(Chunker!Inked)]_Chunker!vars
  <2> SUFFICES ASSUME ChunkInv, [NextOfOne]_allVars, pc = "split", pc' = "split", ~ UNCHANGED Chunker!vars
               PROVE  Chunker!Cardinality(Chunker!Inked') < Chunker!Cardinality(Chunker!Inked)
    OBVIOUS
  <2>1. Chunker!Next
    BY DEF NextOfOne, Translating, allVars, chunkerVars, Chunker!vars
  <2>2. Chunker!SplitOff
    BY <2>1
       DEF Chunker!Next, Chunker!AppendEvent, Chunker!FlushWhole, Chunker!WithinBudget, Chunker!Finish
  <2> QED
    BY <2>2, SplitsLeaveLess
<1> QED
  BY <1>1, <1>2, <1>3, PTL DEF SpecOfOne, SplitsShorten, Chunker!SplitsShorten
=============================================================================
