----------------------------- MODULE ToolBroker -----------------------------
(***************************************************************************)
(* The rendezvous of the agent with the browser (in_process.rs,           *)
(* frontend_tool_stub.rs, receive_tool_result of controller/search.rs).   *)
(* The agent's page tool registers a fresh call id, announces it on the   *)
(* event stream and blocks on a oneshot channel; the browser posts the    *)
(* result, perhaps more than once, perhaps too late.  The map of the      *)
(* broker is locked per access, so a handler that accesses it twice can   *)
(* be overtaken between the two.                                          *)
(***************************************************************************)
EXTENDS Naturals, FiniteSets

CONSTANTS
    Calls,    \* call ids: one page tool call each, the ids are fresh uuids
    Posts,    \* requests of the browser; the result a post carries is the post
    Nil       \* no value

VARIABLES
    entries,  \* the broker's map: call id -> "absent", "pending", "recent" or "expired"
    mailbox,  \* the oneshot channel of a call: the post it carries
    stubs,    \* FrontendToolStub::call: where it is and what it returns
    posts     \* receive_tool_result: where it is, its call and what it answers

vars == <<entries, mailbox, stubs, posts>>

\* A Resolved entry is "recent" until RESOLVED_TTL has passed, then "expired".
Entries == {"absent", "pending", "recent", "expired"}

\* Nobody drops the sender before it sends, so "timeout" is the only error.
StubStates == [pc : {"idle", "announce", "wait", "late", "cleanup", "done"},
               result : Posts \cup {Nil, "timeout"}]

PostStates == [pc : {"idle", "check", "drop", "take", "send", "mark", "done"},
               call : Calls \cup {Nil},
               answer : {Nil, "Fresh", "AlreadyResolved", "NotFound"}]

Init ==
    /\ entries = [c \in Calls |-> "absent"]
    /\ mailbox = [c \in Calls |-> Nil]
    /\ stubs = [c \in Calls |-> [pc |-> "idle", result |-> Nil]]
    /\ posts = [p \in Posts |-> [pc |-> "idle", call |-> Nil, answer |-> Nil]]

StubGoes(c, pc) == stubs' = [stubs EXCEPT ![c].pc = pc]
StubReturns(c, pc, result) == stubs' = [stubs EXCEPT ![c] = [pc |-> pc, result |-> result]]
PostGoes(p, pc) == posts' = [posts EXCEPT ![p].pc = pc]
PostAnswers(p, answer) == posts' = [posts EXCEPT ![p].pc = "done", ![p].answer = answer]
SetEntry(c, entry) == entries' = [entries EXCEPT ![c] = entry]

\* The receiving half lives from the registration to the end of the stub's wait.
Listening(c) == stubs[c].pc \in {"announce", "wait", "late"}

-----------------------------------------------------------------------------
(* The page tool.                                                          *)

\* A fresh id conflicts with nothing.
Register(c) ==
    /\ stubs[c].pc = "idle"
    /\ entries[c] = "absent"
    /\ SetEntry(c, "pending")
    /\ StubGoes(c, "announce")
    /\ UNCHANGED <<mailbox, posts>>

\* ToolCallStarted; the browser may be gone, the stub waits all the same.
Announce(c) ==
    /\ stubs[c].pc = "announce"
    /\ StubGoes(c, "wait")
    /\ UNCHANGED <<entries, mailbox, posts>>

Receive(c) ==
    /\ stubs[c].pc = "wait"
    /\ mailbox[c] # Nil
    /\ StubReturns(c, "done", mailbox[c])
    /\ UNCHANGED <<entries, mailbox, posts>>

\* tokio polls the channel before the clock; with the time up and the channel
\* empty the wait is over, also for a result that arrives before it returns.
Deadline(c) ==
    /\ stubs[c].pc = "wait"
    /\ mailbox[c] = Nil
    /\ StubGoes(c, "late")
    /\ UNCHANGED <<entries, mailbox, posts>>

TimeOut(c) ==
    /\ stubs[c].pc = "late"
    /\ StubReturns(c, "cleanup", "timeout")
    /\ UNCHANGED <<entries, mailbox, posts>>

\* Mutant of Cleanup: the timeout path returns without the broker's cleanup.
CleanupForgotten(c) ==
    /\ stubs[c].pc = "cleanup"
    /\ StubGoes(c, "done")
    /\ UNCHANGED <<entries, mailbox, posts>>

\* Removes whatever the call has by now.
Cleanup(c) ==
    /\ stubs[c].pc = "cleanup"
    /\ SetEntry(c, "absent")
    /\ StubGoes(c, "done")
    /\ UNCHANGED <<mailbox, posts>>

-----------------------------------------------------------------------------
(* The browser's post: resolve.                                            *)

\* The browser knows the calls that were announced.
Post(p, c) ==
    /\ posts[p].pc = "idle"
    /\ stubs[c].pc \notin {"idle", "announce"}
    /\ posts' = [posts EXCEPT ![p] = [pc |-> "check", call |-> c, answer |-> Nil]]
    /\ UNCHANGED <<entries, mailbox, stubs>>

\* The first access; an absent entry falls through to the second.
Check(p) ==
    LET entry == entries[posts[p].call]
    IN  /\ posts[p].pc = "check"
        /\ \/ entry = "recent" /\ PostAnswers(p, "AlreadyResolved")
           \/ entry = "expired" /\ PostGoes(p, "drop")
           \/ entry \in {"absent", "pending"} /\ PostGoes(p, "take")
        /\ UNCHANGED <<entries, mailbox, stubs>>

DropExpired(p) ==
    /\ posts[p].pc = "drop"
    /\ SetEntry(posts[p].call, "absent")
    /\ PostAnswers(p, "NotFound")
    /\ UNCHANGED <<mailbox, stubs>>

\* The second access takes the entry out: at most one post gets the sender.
\* Mutant of Take: the pending entry is read and overwritten later.
TakeByReading(p) ==
    LET c == posts[p].call
    IN  /\ posts[p].pc = "take"
        /\ \/ entries[c] = "absent" /\ PostAnswers(p, "NotFound")
           \/ entries[c] = "pending" /\ PostGoes(p, "send")
           \/ entries[c] \in {"recent", "expired"} /\ PostAnswers(p, "AlreadyResolved")
        /\ UNCHANGED <<entries, mailbox, stubs>>

Take(p) ==
    LET c == posts[p].call
    IN  /\ posts[p].pc = "take"
        /\ SetEntry(c, "absent")
        /\ \/ entries[c] = "absent" /\ PostAnswers(p, "NotFound")
           \/ entries[c] = "pending" /\ PostGoes(p, "send")
           \/ entries[c] \in {"recent", "expired"} /\ PostAnswers(p, "AlreadyResolved")
        /\ UNCHANGED <<mailbox, stubs>>

\* A receiver that is gone swallows the result.
Send(p) ==
    LET c == posts[p].call
    IN  /\ posts[p].pc = "send"
        /\ mailbox' = [mailbox EXCEPT ![c] = IF Listening(c) THEN p ELSE @]
        /\ PostGoes(p, "mark")
        /\ UNCHANGED <<entries, stubs>>

Mark(p) ==
    /\ posts[p].pc = "mark"
    /\ SetEntry(posts[p].call, "recent")
    /\ PostAnswers(p, "Fresh")
    /\ UNCHANGED <<mailbox, stubs>>

\* A minute passes over a resolved entry.
Expire(c) ==
    /\ entries[c] = "recent"
    /\ SetEntry(c, "expired")
    /\ UNCHANGED <<mailbox, stubs, posts>>

-----------------------------------------------------------------------------
StubStep(c) == Register(c) \/ Announce(c) \/ Receive(c) \/ Deadline(c) \/ TimeOut(c) \/ Cleanup(c)

ResolveStep(p) == Check(p) \/ DropExpired(p) \/ Take(p) \/ Send(p) \/ Mark(p)

Next ==
    \/ \E c \in Calls : StubStep(c) \/ Expire(c)
    \/ \E p \in Posts : ResolveStep(p) \/ (\E c \in Calls : Post(p, c))

Spec == Init /\ [][Next]_vars

-----------------------------------------------------------------------------
(* Properties.                                                             *)

TypeOK ==
    /\ entries \in [Calls -> Entries]
    /\ mailbox \in [Calls -> Posts \cup {Nil}]
    /\ stubs \in [Calls -> StubStates]
    /\ posts \in [Posts -> PostStates]

Accepted(c) == {p \in Posts : posts[p].call = c /\ (posts[p].pc = "mark" \/ posts[p].answer = "Fresh")}

\* However posts of one call overlap with each other and with the tool's
\* timeout, at most one of them is accepted as the result, and the tool returns
\* the result of that one or none.
OneResult ==
    \A c \in Calls : /\ Cardinality(Accepted(c)) <= 1
                     /\ mailbox[c] # Nil => mailbox[c] \in Accepted(c)
                     /\ stubs[c].result \in Posts => stubs[c].result \in Accepted(c)

\* A pending entry is a tool that still waits, or is about to clean up: no
\* order of timeouts and posts leaves a pending entry nobody will remove, and
\* pending_count counts tools at work.
PendingIsAwaited ==
    \A c \in Calls : entries[c] = "pending" => stubs[c].pc \in {"announce", "wait", "late", "cleanup"}

=============================================================================
