------------------------------ MODULE Service -------------------------------
(***************************************************************************)
(* A service (src/include/details/service.hpp): it routes the user's       *)
(* messages to its handles, keeps the messages of handles that do not      *)
(* exist, creates and removes handles as the heartbeats collector reports  *)
(* hosts and handles, and brings the responses back to the user.           *)
(*                                                                         *)
(* Threads: the user's (Send, Register), the collector's ping thread       *)
(* (refresh_hosts_and_handles), the service's own (dispatch_responces) and *)
(* one per handle (Handle).  They meet on service::mutex_; only the ping   *)
(* thread keeps it over several steps here, so `Locked' is a predicate on  *)
(* where the ping thread is.                                               *)
(***************************************************************************)
EXTENDS Handle

CONSTANTS
    Dest,         \* the handle each message is addressed to
    Ports,        \* the ports a handle may listen on
    Views,        \* what the collector may report: live hosts, and handle infos
    MaxChanges    \* bound: reports that differ from the one before

Infos == [name : Handles, port : Ports]
AllViews == [hosts : SUBSET Hosts, infos : SUBSET Infos]

\* the collector counts a host only when it answers with handles
ASSUME ServiceConstants ==
    /\ Dest \in [Messages -> Handles]
    /\ Views \subseteq AllViews
    /\ \A v \in Views : v.hosts = {} <=> v.infos = {}
    /\ MaxChanges \in Nat
    /\ None \notin Handles /\ None \notin Messages

VARIABLES
    handles,             \* the keys of handles_
    port,                \* info_.port_ of each handle
    service_hosts,       \* hosts_
    unhandled_messages,  \* unhandled_messages_; an empty queue stands for no entry
    shared_queue,        \* handles whose unhandled entry is the deque of their own cache
    callbacks,           \* the keys of responses_callbacks_map_
    responses,           \* received_responces_
    ping,                \* where the ping thread is
    outstanding,         \* the outstanding handles not yet removed
    victim,              \* the handle being removed
    fresh,               \* the new handles not yet created
    dropped, added,      \* outstanding_hosts, new_hosts
    connecting,          \* the handle created and not yet connected
    view,                \* the report being applied, or the last one
    changes,             \* reports so far that differed from the one before
    accepted,            \* history: the messages accepted, in order
    answers,             \* history: the responses given to the user, by message
    discarded            \* history: messages whose final response found no callback

mapVars == <<handles, port, service_hosts, unhandled_messages, shared_queue>>
responseVars == <<callbacks, responses, answers, discarded>>
pingVars == <<ping, outstanding, victim, fresh, dropped, added, connecting, view, changes>>
serviceVars == <<mapVars, responseVars, pingVars, accepted>>
vars == <<cacheVars, handleVars, serviceVars>>

TypeOK ==
    /\ CacheTypeOK
    /\ HandleTypeOK
    /\ handles \in SUBSET Handles
    /\ port \in [Handles -> Ports \union {None}]
    /\ service_hosts \in SUBSET Hosts
    /\ unhandled_messages \in [Handles -> Seq(Messages)]
    /\ shared_queue \in SUBSET Handles
    /\ callbacks \in SUBSET Handles
    /\ responses \in [Handles -> Seq(Responses)]
    /\ ping \in {"idle", "remove", "collect", "kill", "join", "hosts", "create", "connect"}
    /\ outstanding \in SUBSET Handles
    /\ victim \in Handles \union {None}
    /\ fresh \in SUBSET Infos
    /\ dropped \in SUBSET Hosts
    /\ added \in SUBSET Hosts
    /\ connecting \in Handles \union {None}
    /\ view \in AllViews
    /\ changes \in 0..MaxChanges
    /\ accepted \in Seq(Messages)
    /\ answers \in [Messages -> Seq(Kinds)]
    /\ discarded \in SUBSET Messages

Init ==
    /\ CacheInit
    /\ HandleInit
    /\ handles = {}
    /\ port = [h \in Handles |-> None]
    /\ service_hosts = {}
    /\ unhandled_messages = [h \in Handles |-> <<>>]
    /\ shared_queue = {}
    /\ callbacks = {}
    /\ responses = [h \in Handles |-> <<>>]
    /\ ping = "idle"
    /\ outstanding = {}
    /\ victim = None
    /\ fresh = {}
    /\ dropped = {}
    /\ added = {}
    /\ connecting = None
    /\ view = [hosts |-> {}, infos |-> {}]
    /\ changes = 0
    /\ accepted = <<>>
    /\ answers = [m \in Messages |-> <<>>]
    /\ discarded = {}

\* the steps of refresh_hosts_and_handles before lock.unlock()
Locked == ping \in {"remove", "collect", "kill", "join", "hosts"}

\* the queue stored for a handle that does not exist
Unhandled(h) == IF h \in shared_queue THEN new_messages[h] ELSE unhandled_messages[h]

-----------------------------------------------------------------------------
(* The user *)

\* service::send_message
Send(m) ==
    /\ ~Locked
    /\ m \notin Range(accepted)
    /\ accepted' = Append(accepted, m)
    /\ IF Dest[m] \in handles
       THEN /\ CacheEnqueue(Dest[m], m)
            /\ UNCHANGED unhandled_messages
       ELSE /\ unhandled_messages' = [unhandled_messages EXCEPT ![Dest[m]] = Append(@, m)]
            /\ UNCHANGED cacheVars
    /\ UNCHANGED <<handleVars, handles, port, service_hosts, shared_queue,
                   responseVars, pingVars>>

\* service::register_responder_callback
Register(h) ==
    /\ ~Locked
    /\ h \notin callbacks
    /\ callbacks' = callbacks \union {h}
    /\ UNCHANGED <<cacheVars, handleVars, mapVars, responses, answers, discarded,
                   pingVars, accepted>>

-----------------------------------------------------------------------------
(* Responses *)

\* service::enqueue_responce_callback, called by the thread of handle h
EnqueueResponse(h) ==
    LET m == reply[h].msg
        d == Dest[m]
    IN
    /\ thread[h] = "enqueue"
    /\ ~Locked
    /\ IF d \in callbacks
       THEN /\ responses' = [responses EXCEPT ![d] = Append(@, reply[h])]
            /\ UNCHANGED discarded
       ELSE /\ discarded' = IF reply[h].kind \in FinalKinds THEN discarded \union {m}
                                                            ELSE discarded
            /\ UNCHANGED responses
    /\ reply' = [reply EXCEPT ![h] = None]
    /\ GoTo(h, "receive")
    /\ UNCHANGED <<cacheVars, sharedVars, is_connected, copied, peers, sending, workVars,
                   mapVars, callbacks, answers, pingVars, accepted>>

\* service::dispatch_responces: one pass of the loop gives the user the first
\* response of every queue with a callback
DispatchPass ==
    LET ready == {h \in callbacks : responses[h] # <<>>}
        First(m) == Head(responses[Dest[m]])
        Delivered(m) == Dest[m] \in ready /\ First(m).msg = m
    IN
    /\ ~Locked
    /\ ready # {}
    /\ responses' = [h \in Handles |-> IF h \in ready THEN Tail(responses[h])
                                                      ELSE responses[h]]
    /\ answers' = [m \in Messages |-> IF Delivered(m) THEN Append(answers[m], First(m).kind)
                                                      ELSE answers[m]]
    /\ UNCHANGED <<cacheVars, handleVars, mapVars, callbacks, discarded, pingVars, accepted>>

-----------------------------------------------------------------------------
(* The ping thread: refresh_hosts_and_handles *)

Info(h) == [name |-> h, port |-> port[h]]
NewInfos(v) == {i \in v.infos : i.name \notin handles}

\* A bug that could be made in the next one: handles compared by name alone.
OutstandingByName(v) == {h \in handles : h \notin {i.name : i \in v.infos}}

OutstandingHandles(v) == {h \in handles : Info(h) \notin v.infos}

\* refresh_hosts and refresh_handles.  A report that repeats the last one and
\* finds nothing to do is left out: it changes nothing.
BeginRefresh(v) ==
    /\ ping = "idle"
    /\ \/ v # view /\ changes < MaxChanges
       \/ v = view /\ (NewInfos(v) # {} \/ OutstandingHandles(v) # {})
    /\ changes' = IF v = view THEN changes ELSE changes + 1
    /\ view' = v
    /\ dropped' = service_hosts \ v.hosts
    /\ added' = v.hosts \ service_hosts
    /\ service_hosts' = v.hosts
    /\ outstanding' = OutstandingHandles(v)
    /\ fresh' = NewInfos(v)
    /\ ping' = IF outstanding' = {} THEN "hosts" ELSE "remove"
    /\ UNCHANGED <<cacheVars, handleVars, handles, port, unhandled_messages, shared_queue,
                   victim, connecting, responseVars, accepted>>

\* remove_outstanding_handles, the next handle: disconnect ...
RemoveHandle(h) ==
    /\ ping = "remove"
    /\ h \in outstanding
    /\ outstanding' = outstanding \ {h}
    /\ victim' = h
    /\ Disconnect(h)
    /\ ping' = "collect"
    /\ UNCHANGED <<cacheVars, mapVars, fresh, dropped, added, connecting, view, changes,
                   responseVars, accepted>>

\* ... make_all_messages_new ...
CollectMessages ==
    /\ ping = "collect"
    /\ make_all_messages_new(victim)
    /\ ping' = "kill"
    /\ UNCHANGED <<handleVars, mapVars, outstanding, victim, fresh, dropped, added,
                   connecting, view, changes, responseVars, accepted>>

\* A bug that could be made in the next one: the queue is not stored.
KillWithoutStoring ==
    /\ ping = "kill"
    /\ Kill(victim)
    /\ ping' = "join"
    /\ UNCHANGED <<cacheVars, mapVars, outstanding, victim, fresh, dropped, added,
                   connecting, view, changes, responseVars, accepted>>

\* ... the queue of the cache, not a copy of it, is stored among the unhandled
\* ones; the last reference to the handle goes and ~handle kills the thread ...
KillHandle ==
    /\ ping = "kill"
    /\ unhandled_messages[victim] = <<>>    \* otherwise the code throws
    /\ shared_queue' = IF new_messages[victim] = <<>> THEN shared_queue
                                                      ELSE shared_queue \union {victim}
    /\ Kill(victim)
    /\ ping' = "join"
    /\ UNCHANGED <<cacheVars, handles, port, service_hosts, unhandled_messages, outstanding,
                   victim, fresh, dropped, added, connecting, view, changes,
                   responseVars, accepted>>

\* ... and joins it, still under the mutex
JoinHandle ==
    /\ ping = "join"
    /\ DestroyHandle(victim)
    /\ unhandled_messages' = [unhandled_messages EXCEPT ![victim] = Unhandled(victim)]
    /\ shared_queue' = shared_queue \ {victim}
    /\ DestroyCache(victim)
    /\ handles' = handles \ {victim}
    /\ port' = [port EXCEPT ![victim] = None]
    /\ victim' = None
    /\ ping' = IF outstanding = {} THEN "hosts" ELSE "remove"
    /\ UNCHANGED <<service_hosts, outstanding, fresh, dropped, added, connecting, view,
                   changes, responseVars, accepted>>

AfterHosts == IF fresh = {} THEN "idle" ELSE "create"

\* the handles that stay are told of the hosts
UpdateHosts ==
    /\ ping = "hosts"
    /\ IF dropped # {} THEN ReconnectAll(handles, service_hosts)
       ELSE IF added # {} THEN ConnectAllToNewHosts(handles, added)
       ELSE UNCHANGED handleVars
    /\ dropped' = {}
    /\ added' = {}
    /\ ping' = AfterHosts
    /\ UNCHANGED <<cacheVars, mapVars, outstanding, victim, fresh, connecting, view,
                   changes, responseVars, accepted>>

\* A bug that could be made in the next one: the entry of the unhandled queue
\* is not erased when it is given to the handle.
CreateWithoutErasing(i) ==
    /\ ping = "create"
    /\ i \in fresh
    /\ i.name \notin handles
    /\ fresh' = fresh \ {i}
    /\ ConstructHandle(i.name, service_hosts)
    /\ append_message_queue(i.name, unhandled_messages[i.name])
    /\ handles' = handles \union {i.name}
    /\ port' = [port EXCEPT ![i.name] = i.port]
    /\ connecting' = i.name
    /\ ping' = "connect"
    /\ UNCHANGED <<service_hosts, unhandled_messages, shared_queue, outstanding, victim,
                   dropped, added, view, changes, responseVars, accepted>>

\* create_new_handles, the next handle; the thread that is started waits for
\* CONNECT, so the queue may be appended after it
CreateHandle(i) ==
    /\ ping = "create"
    /\ i \in fresh
    /\ i.name \notin handles
    /\ fresh' = fresh \ {i}
    /\ ConstructHandle(i.name, service_hosts)
    /\ append_message_queue(i.name, unhandled_messages[i.name])
    /\ unhandled_messages' = [unhandled_messages EXCEPT ![i.name] = <<>>]
    /\ handles' = handles \union {i.name}
    /\ port' = [port EXCEPT ![i.name] = i.port]
    /\ connecting' = i.name
    /\ ping' = "connect"
    /\ UNCHANGED <<service_hosts, shared_queue, outstanding, victim, dropped, added, view,
                   changes, responseVars, accepted>>

\* two infos of one name: the address of the control socket is in use, the
\* constructor throws and the refresh ends here
CreateFails(i) ==
    /\ ping = "create"
    /\ i \in fresh
    /\ i.name \in handles
    /\ fresh' = {}
    /\ ping' = "idle"
    /\ UNCHANGED <<cacheVars, handleVars, mapVars, outstanding, victim, dropped, added,
                   connecting, view, changes, responseVars, accepted>>

\* handle::connect, with the mutex released
ConnectHandle ==
    /\ ping = "connect"
    /\ Connect(connecting, service_hosts)
    /\ connecting' = None
    /\ ping' = AfterHosts
    /\ UNCHANGED <<cacheVars, mapVars, outstanding, victim, fresh, dropped, added, view,
                   changes, responseVars, accepted>>

Refresh ==
    \/ \E h \in Handles : RemoveHandle(h)
    \/ CollectMessages
    \/ KillHandle
    \/ JoinHandle
    \/ UpdateHosts
    \/ \E i \in Infos : CreateHandle(i) \/ CreateFails(i)
    \/ ConnectHandle

-----------------------------------------------------------------------------
HandleStep(h) == ThreadStep(h) /\ UNCHANGED serviceVars
WorkersStep(h, m) == WorkerStep(h, m) /\ UNCHANGED serviceVars

Next ==
    \/ \E m \in Messages : Send(m)
    \/ \E h \in Handles : Register(h) \/ HandleStep(h) \/ EnqueueResponse(h)
    \/ DispatchPass
    \/ \E v \in Views : BeginRefresh(v)
    \/ Refresh
    \/ \E h \in Handles, m \in Messages : WorkersStep(h, m)

Spec == Init /\ [][Next]_vars

(***************************************************************************)
(* Fairness.  Every thread of the code loops without end and is scheduled; *)
(* a thread that waits for service::mutex_ gets it if it is free again and *)
(* again (strong fairness: the reports that change nothing, left out here, *)
(* also take it).  The collector reports every few seconds.  Workers, when *)
(* they are assumed to work, end each message they have.                   *)
(***************************************************************************)
ThreadFairness ==
    /\ \A h \in Handles : WF_vars(HandleStep(h)) /\ SF_vars(EnqueueResponse(h))
    /\ SF_vars(DispatchPass)
    /\ WF_vars(\E v \in Views : BeginRefresh(v))
    /\ WF_vars(Refresh)

WorkerFairness ==
    \A h \in Handles, m \in Messages : WF_vars(WorkerFinal(h, m) /\ UNCHANGED serviceVars)

FairSpec == Spec /\ ThreadFairness /\ WorkerFairness

-----------------------------------------------------------------------------
(* Safety *)

Accepted == Range(accepted)

\* the messages of a handle that wait to be sent, in the order they will be;
\* an unhandled entry that is the cache's own deque counts once
Queue(h) == unhandled_messages[h] \o new_messages[h]

\* the messages of acc for handle h that are not in sent are in queue q, in the
\* order of acc
KeepsOrder(h, acc, q, sent) ==
    \A i, j \in DOMAIN acc :
        (/\ i <= j
         /\ Dest[acc[i]] = h /\ acc[i] \notin sent
         /\ Dest[acc[j]] = h /\ acc[j] \notin sent)
        => \E k, l \in DOMAIN q :
               /\ q[k] = acc[i]
               /\ q[l] = acc[j]
               /\ i < j => k < l

\* Every message the service accepted and no handle has sent yet is still
\* queued for its handle, and such messages are queued in the order the user
\* sent them: through send_message with and without the handle, the removal of
\* the handle while its thread works on, and the creation of the next one.
UnsentInOrder == \A h \in Handles : KeepsOrder(h, accepted, Queue(h), transmitted)

\* "found unhandled non-empty message queue with existing handle!": a handle
\* that exists has no queue beside its own, except the deque it shares with the
\* unhandled ones between the moment it is stored and the join.
NoQueueBesideHandle ==
    /\ \A h \in handles : unhandled_messages[h] = <<>>
    /\ \A h \in shared_queue : ping = "join" /\ h = victim

\* The thread looks at the front of the queue three times, with the cache
\* unlocked in between: there is a message when it gets one, and the message it
\* moves to the sent ones is the one it sent.
SendsWhatItMoves ==
    \A h \in Handles :
        /\ thread[h] = "transmit" => new_messages[h] # <<>>
        /\ thread[h] = "move" => new_messages[h] # <<>> /\ sending[h] = Head(new_messages[h])

\* The rest of what makes the three properties above inductive.
\* ... the handle being removed is in the map until its thread is joined:
VictimIsHandle ==
    /\ outstanding \subseteq handles
    /\ ping \in {"collect", "kill", "join"} => victim \in handles \ outstanding

\* ... a name outside the map has no thread, and nothing in a cache:
NoHandleNoCache ==
    \A h \in Handles :
        h \notin handles => /\ thread[h] = "none"
                           /\ new_messages[h] = <<>>
                           /\ sent_messages[h] = {}

\* ... the thread that works on a response has one:
ReplyIsThere ==
    \A h \in Handles : thread[h] \in {"apply", "enqueue"} => reply[h] \in Responses

\* ... what is among the sent messages was sent; a handle removed with an empty
\* queue gets back sent messages only (refused by a worker):
SentWasTransmitted ==
    /\ \A h \in Handles :
          /\ sent_messages[h] \subseteq transmitted
          /\ thread[h] = "move" => sending[h] \in transmitted
    /\ ping = "join" /\ victim \notin shared_queue
          => Range(new_messages[victim]) \subseteq transmitted

\* The inductive invariant of ServiceProofs.
IndInv ==
    /\ TypeOK
    /\ VictimIsHandle
    /\ NoQueueBesideHandle
    /\ NoHandleNoCache
    /\ ReplyIsThere
    /\ SendsWhatItMoves
    /\ SentWasTransmitted
    /\ UnsentInOrder

\* What the threads do to the queues, the caches and the unhandled entries is what
\* the service promises of its messages.
Promised == INSTANCE Promise WITH queue <- [h \in Handles |-> Queue(h)], sent <- sent_messages
KeepsPromise == Promised!Spec

\* A message is in one place of one queue, or among the sent ones, never twice:
\* what is there twice is sent and answered twice.
SingleCustody ==
    \A h \in Handles :
        /\ IsInjective(Queue(h))
        /\ Range(Queue(h)) \intersect sent_messages[h] = {}

\* The user gets at most one final response to a message (MESSAGE_CHOKE or an
\* error), and nothing after it, also when the message went to a second handle:
\* in what he has got, what waits for his callback, and what the thread of the
\* handle is about to hand over.
FinalIsLast ==
    \A m \in Messages :
        LET h == Dest[m]
            handed == thread[h] = "enqueue" /\ reply[h].msg = m
            waits(i) == responses[h][i].msg = m
        IN /\ \A i \in DOMAIN answers[m] : answers[m][i] \in FinalKinds =>
                  i = Len(answers[m]) /\ ~handed /\ \A j \in DOMAIN responses[h] : ~waits(j)
           /\ \A i \in DOMAIN responses[h] : waits(i) /\ responses[h][i].kind \in FinalKinds =>
                  ~handed /\ \A j \in DOMAIN responses[h] : j > i => ~waits(j)

Answered(m) == Range(answers[m]) \intersect FinalKinds # {}

AnswerUnderWay(m) ==
    \/ thread[Dest[m]] = "enqueue" /\ reply[Dest[m]].msg = m
    \/ \E i \in DOMAIN responses[Dest[m]] :
            /\ responses[Dest[m]][i].msg = m
            /\ responses[Dest[m]][i].kind \in FinalKinds

\* README: "no messages lost, yeah!"  A message accepted is queued, or sent and
\* remembered, until its final response is given to the user or meets no
\* callback.
NoMessageLost ==
    \A m \in Accepted :
        \/ m \in Range(Queue(Dest[m])) \union sent_messages[Dest[m]]
        \/ AnswerUnderWay(m)
        \/ Answered(m)
        \/ m \in discarded

\* The ping thread has made the messages of h new and waits for, or will wait for, its
\* thread, with service::mutex_.
BeingRemoved(h) == ping \in {"kill", "join"} /\ victim = h

\* The thread of h remembers m as sent, or is about to.
Remembered(h, m) == m \in sent_messages[h] \/ (thread[h] = "move" /\ sending[h] = m)

\* The workers of h have m, or the socket of h has responses to it.
Waiting(h, m) == {i \in DOMAIN inbox[h] : inbox[h][i].msg = m}
UnderWay(h, m) == wire[h][m] > 0 \/ Waiting(h, m) # {}

\* The workers have m once at most, and not any more when one of them has ended or
\* refused it: that is the last response to it.
OneCopy(h, m) ==
    /\ wire[h][m] <= 1
    /\ \A i \in Waiting(h, m) :
          inbox[h][i].kind # "chunk" => wire[h][m] = 0 /\ \A j \in Waiting(h, m) : j <= i

\* The workers work on each message once, and on nothing the thread does not remember,
\* so that no response of theirs is dropped for want of its message: through refusals,
\* new sockets and the loss of hosts, until a removal makes the messages new while the
\* thread still runs.
WorkedOnOnce ==
    \A h \in Handles, m \in Messages :
        UnderWay(h, m) /\ ~BeingRemoved(h) => Remembered(h, m) /\ OneCopy(h, m)

\* The thread of h finds what it needs for its next step.
GoesOn(h) ==
    \/ thread[h] = "control" /\ (control[h] # <<>> \/ is_connected[h])
    \/ thread[h] \in {"clear", "send", "receive"}
    \/ thread[h] \in {"transmit", "move"} /\ new_messages[h] # <<>>
    \/ thread[h] = "apply" /\ reply[h].kind # "chunk"

\* A refresh never stops in the middle of its removals: it throws nothing where it
\* removes a handle, has one left where it looks for the next, and the thread it joins
\* has ended or goes on with KILL as the last order it will read; only one that hands
\* over a response waits for the mutex of the refresh (KilledThreadEnds).  A handle
\* that cannot be created ends the refresh, after its removals (CreateFails).
RefreshGoesOn ==
    /\ ping = "remove" => outstanding # {}
    /\ ping = "kill" => unhandled_messages[victim] = <<>>
    /\ ping = "join" /\ thread[victim] # "dead" =>
          /\ GoesOn(victim) \/ thread[victim] = "enqueue"
          /\ control[victim] # <<>> /\ Last(control[victim]) = CONTROL_MESSAGE_KILL
    /\ ping = "create" => fresh # {}
    /\ ping = "connect" => connecting \in handles

\* Every handle but those being removed is one of the last report, on the port it
\* gave, and its thread is connected, or reads CONNECT before any order that it
\* would ignore until then: no handle sleeps beside its messages.
ServesTheReport ==
    \A h \in handles \ (outstanding \union {victim}) :
        /\ Info(h) \in view.infos
        /\ thread[h] \notin {"none", "dead"}
        /\ \/ is_connected[h] \/ connecting = h
           \/ control[h] # <<>> /\ Head(control[h]) = CONTROL_MESSAGE_CONNECT

\* What the thread of a handle still has to be told: a RECONNECT on its way,
\* the copy it is about to connect to, or hosts the ping thread has not passed on.
TopologyPending(h) ==
    \/ CONTROL_MESSAGE_RECONNECT \in Range(control[h])
    \/ thread[h] = "clear"
    \/ Locked

\* A handle never stays connected to a host that the collector no longer
\* reports: whatever the order of CONNECT, RECONNECT and CONNECT_NEW_HOSTS in
\* its queue, once no RECONNECT is pending its socket knows live hosts only.
NoStalePeer ==
    \A h \in handles : TopologyPending(h) \/ peers[h] \subseteq service_hosts

-----------------------------------------------------------------------------
(* Liveness *)

\* Once the reports settle, the service has exactly the handles of the last one,
\* on the ports it gave, although a refresh computes the new handles before it
\* removes the outstanding ones.
HandlesConverge ==
    <>[](/\ ping = "idle"
         /\ handles = {i.name : i \in view.infos}
         /\ \A h \in handles : Info(h) \in view.infos)

\* Every message accepted gets its final response, or one that met no callback.
EveryMessageAnswered ==
    \A m \in Messages : m \in Accepted ~> Answered(m) \/ m \in discarded

\* ... which holds while no host is dropped: refused messages are sent again,
\* hosts may come, the handle may be created after the messages were accepted.
AnsweredWhileHostsStay == [](dropped = {}) => EveryMessageAnswered

\* handle.hpp:724, "kill dispatch thread from the inside": the thread that is
\* sent KILL ends, so that the join of ~handle returns.
KilledThreadEnds ==
    \A h \in Handles : (ping = "join" /\ victim = h) ~> thread[h] = "dead"

=============================================================================
