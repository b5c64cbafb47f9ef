------------------------------ MODULE Refresher -----------------------------
(***************************************************************************)
(* A refresher (src/library/refresher.cpp): a thread that calls a function *)
(* once when it starts and then once a period, until its owner destroys    *)
(* it.  The operators below are the steps of the thread and of its owner;  *)
(* what happens between Call and Return is the function, and belongs to    *)
(* the module that has one.                                                *)
(*                                                                         *)
(* A wait on condition_ ends by its timeout, by a spurious wake or by the *)
(* notification of the destructor, which reaches a thread that waits and   *)
(* is lost otherwise.  Nothing but the wait uses the refresher's mutex_.   *)
(***************************************************************************)
EXTENDS Integers, FiniteSets, SequencesExt

CONSTANTS Refreshers

VARIABLES
    stopping,   \* stopping_ of each refresher
    thread,     \* where each refreshing_thread is
    notified    \* the threads woken by notify_one that have not gone on yet

refresherVars == <<stopping, thread, notified>>

Places == {"none", "start", "call", "test", "tested", "wait", "check", "ended"}

RefresherTypeOK ==
    /\ stopping \in [Refreshers -> BOOLEAN]
    /\ thread \in [Refreshers -> Places]
    /\ notified \in SUBSET Refreshers

RefresherInit ==
    /\ stopping = [r \in Refreshers |-> FALSE]
    /\ thread = [r \in Refreshers |-> "none"]
    /\ notified = {}

At(r, place) == thread[r] = place
Goto(r, place) == thread' = [thread EXCEPT ![r] = place]

\* the constructor
StartRefresher(r) ==
    /\ thread' = [thread EXCEPT ![r] = "start"]
    /\ stopping' = [stopping EXCEPT ![r] = FALSE]
    /\ UNCHANGED notified

\* the two tests of the flag before f_ is called: the thread calls it, or goes on
Call(r) ==
    /\ thread[r] \in {"start", "check"}
    /\ Goto(r, IF stopping[r] THEN "test" ELSE "call")
    /\ UNCHANGED <<stopping, notified>>

\* f_ returns
Return(r) == At(r, "call") /\ Goto(r, "test") /\ UNCHANGED <<stopping, notified>>

\* the condition of the loop
TestFlag(r) ==
    /\ At(r, "test")
    /\ Goto(r, IF stopping[r] THEN "ended" ELSE "tested")
    /\ UNCHANGED <<stopping, notified>>

\* timed_wait begins
Sleep(r) == At(r, "tested") /\ Goto(r, "wait") /\ UNCHANGED <<stopping, notified>>

\* A bug that could be made in the next one: wait instead of timed_wait.
WakeIfNotified(r) ==
    /\ At(r, "wait") /\ r \in notified
    /\ Goto(r, "check")
    /\ notified' = notified \ {r}
    /\ UNCHANGED stopping

\* timed_wait returns: notified or not, the thread looks at the flag
Wake(r) ==
    /\ At(r, "wait")
    /\ Goto(r, "check")
    /\ notified' = notified \ {r}
    /\ UNCHANGED stopping

\* the destructor: it raises the flag and notifies ...
RaiseFlag(r) ==
    /\ stopping' = [stopping EXCEPT ![r] = TRUE]
    /\ notified' = IF At(r, "wait") THEN notified \union {r} ELSE notified
    /\ UNCHANGED thread
\* ... and its join returns when the thread has ended
Joinable(r) == thread[r] \in {"none", "ended"}

\* the thread, outside its function
RefresherStep(r) == Call(r) \/ TestFlag(r) \/ Sleep(r) \/ Wake(r)

=============================================================================
