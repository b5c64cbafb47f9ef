------------------------------- MODULE Client -------------------------------
(***************************************************************************)
(* The client (src/library/client.cpp, client_impl.cpp) over its collector *)
(* and its services: the calls of the user, the client's mutex, the limit  *)
(* on the size of the messages it keeps, and how its locks meet those of   *)
(* the collector and of the services.                                      *)
(*                                                                         *)
(* Callers: the user's threads, and the response thread of each service,   *)
(* whose callback may make any call of the client but its destruction.  A  *)
(* service is reduced here to its mutex, the sizes of the messages its     *)
(* handles keep, the responses that wait for its response thread, and what *)
(* of it is destroyed; Service has the rest.                               *)
(***************************************************************************)
EXTENDS Collector

CONSTANTS
    Users,           \* the user's threads
    Sizes,           \* the data sizes they may send
    Overhead,        \* sizeof(cached_message) + UUID_SIZE + the length of the path
    MaxData,         \* MAX_MESSAGE_DATA_SIZE
    Capacity,        \* max_message_cache_size
    Word,            \* sizes are counted modulo 2^64
    Unknown,         \* a service the configuration does not have
    MaxSends,        \* bound: calls of send_message
    MaxConnects,     \* bound: calls of connect
    CallbackCalls    \* whether the user's callback calls the client

Callers == Users \union Services
\* the sum of the numbers in q
Total(q) ==
    LET upto[n \in 0..Len(q)] == IF n = 0 THEN 0 ELSE upto[n - 1] + q[n] IN upto[Len(q)]
\* ... of what f has for the services, which the loop takes in the order of their map
Sum(f) == Total([i \in 1..Count |-> f[ServiceOrder[i]]])

ASSUME ClientConstants ==
    /\ Users \cap (Services \union {None, User, Pinger}) = {}
    /\ Sizes \subseteq 0..Word - 1
    /\ Word \in Nat /\ Capacity \in Nat /\ Overhead \in 1..Word /\ MaxData \in Nat
    /\ Capacity + MaxData + Overhead < Word    \* true of 64 bit, 2 GB and any cache
    /\ Unknown \notin Services
    /\ MaxSends \in Nat /\ MaxConnects \in Nat /\ CallbackCalls \in BOOLEAN

VARIABLES
    client_mutex,        \* who holds client_impl::mutex_
    call,                \* where each caller is
    arg,                 \* the service each caller calls, and the size of what it sends
    made,                \* heartbeats_collector_ is set
    freed,               \* what a thread still uses was freed
    messages_cache_size,
    cache_size,          \* service::cache_size_
    queued,              \* the sizes of the messages a service keeps
    service_mutex,       \* who holds service::mutex_
    registered,          \* the services with a response callback
    responses,           \* responses that wait for the callback, by service
    is_running,          \* service::is_running_
    dispatching,         \* where the response thread of each service is
    torn,                \* services whose mutex, maps and queues of responses are destroyed
    working,             \* services whose handles' threads run
    sends, connects

callVars == <<call, arg, made, freed, sends, connects>>
sizeVars == <<messages_cache_size, cache_size, queued>>
teardownVars == <<torn, working>>
dispatchVars == <<registered, responses, is_running, dispatching, teardownVars>>
lockVars == <<client_mutex, service_mutex>>
clientVars == <<collectorVars, callVars, sizeVars, dispatchVars, lockVars>>

Requests == [service : Services \union {Unknown}, size : 0..Word - 1]
\* where a call waits for the client's mutex, and where it has it
Waits == {"to send", "to connect", "to disconnect"}
Inside == {"route", "account", "connect", "disconnect"}

CallsTypeOK ==
    /\ client_mutex \in Callers \union {None}
    /\ call \in [Callers -> {"idle", "to register", "destroy", "destroyed"}
                               \union Waits \union Inside]
    /\ arg \in [Callers -> Requests \union {None}]
    /\ made \in BOOLEAN /\ freed \in BOOLEAN
    /\ messages_cache_size \in Nat
    /\ cache_size \in [Services -> Nat]
    /\ queued \in [Services -> Seq(Nat)]
    /\ service_mutex \in [Services -> Services \union {None}]
    /\ registered \in SUBSET Services /\ is_running \in SUBSET Services
    /\ torn \in SUBSET Services /\ working \in SUBSET Services
    /\ responses \in [Services -> Nat]
    /\ dispatching \in [Services -> {"loop", "callback", "ended"}]
    /\ sends \in 0..MaxSends /\ connects \in 0..MaxConnects

ClientTypeOK == CollectorTypeOK /\ CallsTypeOK

\* client_impl::client_impl: a service for each of the configuration's
ClientInit ==
    /\ CollectorInit
    /\ client_mutex = None
    /\ call = [t \in Callers |-> "idle"]
    /\ arg = [t \in Callers |-> None]
    /\ made = FALSE /\ freed = FALSE
    /\ messages_cache_size = 0
    /\ cache_size = [s \in Services |-> 0]
    /\ queued = [s \in Services |-> <<>>]
    /\ service_mutex = [s \in Services |-> None]
    /\ registered = {} /\ is_running = Services
    /\ responses = [s \in Services |-> 0]
    /\ dispatching = [s \in Services |-> "loop"]
    /\ torn = {} /\ working = Services
    /\ sends = 0 /\ connects = 0

\* threads that may make a call: a user's, or a response thread in its callback;
\* nobody calls a client that is being destroyed
Alive == \A t \in Users : call[t] \notin {"destroy", "destroyed"}
MayCall(t) ==
    /\ call[t] = "idle" /\ Alive
    /\ t \in Services => CallbackCalls /\ dispatching[t] = "callback"
\* a call begins: it waits for the mutex, a callback with the one of its service
Begins(t, place) == MayCall(t) /\ call' = [call EXCEPT ![t] = place]
Takes(t) == client_mutex = None /\ client_mutex' = t
Holds(t, place) == client_mutex = t /\ call[t] = place
\* the call ends, with an error or without
Returns(t) == call' = [call EXCEPT ![t] = "idle"]

-----------------------------------------------------------------------------
(* send_message *)

\* container_size of a message
Size(data) == (data + Overhead) % Word
Fits(data) == (messages_cache_size + Size(data)) % Word <= Capacity
\* A bug that could be made in the next one: no limit on the data.
NeverTooBig(data) == FALSE

\* the constructor of cached_message
TooBig(data) == data > MaxData

BeginSend(t, s, data) ==
    /\ sends < MaxSends /\ Begins(t, "to send")
    /\ arg' = [arg EXCEPT ![t] = [service |-> s, size |-> data]]
    /\ sends' = sends + 1
    /\ UNCHANGED <<collectorVars, made, freed, connects, sizeVars, dispatchVars,
                   lockVars>>

\* the checks that end the call, with an error of their own each; the mutex is held
\* during the step only
RefuseMessage(t) ==
    LET s == arg[t].service
        data == arg[t].size
    IN
    /\ call[t] = "to send" /\ client_mutex = None
    /\ ~Fits(data) \/ s \notin Services \/ TooBig(data)
    /\ Returns(t)
    /\ arg' = [arg EXCEPT ![t] = None]
    /\ UNCHANGED <<collectorVars, made, freed, sends, connects, sizeVars, dispatchVars, lockVars>>

AcceptMessage(t) ==
    LET s == arg[t].service
        data == arg[t].size
    IN
    /\ call[t] = "to send" /\ Takes(t)
    /\ Fits(data) /\ s \in Services /\ ~TooBig(data)
    /\ call' = [call EXCEPT ![t] = "route"]
    /\ arg' = [arg EXCEPT ![t] = [service |-> s, size |-> Size(data)]]
    /\ UNCHANGED <<collectorVars, made, freed, sends, connects, sizeVars,
                   dispatchVars, service_mutex>>

\* service::send_message, with the client's mutex held
RouteMessage(t) ==
    LET s == arg[t].service IN
    /\ Holds(t, "route") /\ service_mutex[s] = None
    /\ queued' = [queued EXCEPT ![s] = Append(@, arg[t].size)]
    /\ cache_size' = [cache_size EXCEPT ![s] = @ + arg[t].size]
    /\ call' = [call EXCEPT ![t] = "account"]
    /\ UNCHANGED <<collectorVars, arg, made, freed, sends, connects,
                   messages_cache_size, dispatchVars, lockVars>>

\* update_messages_cache_size
AccountMessage(t) ==
    /\ Holds(t, "account")
    /\ messages_cache_size' = Sum(cache_size)
    /\ arg' = [arg EXCEPT ![t] = None]
    /\ client_mutex' = None
    /\ Returns(t)
    /\ UNCHANGED <<collectorVars, made, freed, sends, connects, cache_size, queued,
                   dispatchVars, service_mutex>>

SendStep(t) ==
    \/ \E s \in Services \union {Unknown}, data \in Sizes : BeginSend(t, s, data)
    \/ RefuseMessage(t) \/ AcceptMessage(t) \/ RouteMessage(t) \/ AccountMessage(t)

-----------------------------------------------------------------------------
(* set_response_callback *)

\* takes no lock of the client; nothing comes of a call for an unknown service
SetResponseCallback(t, s) ==
    /\ Begins(t, "to register")
    /\ arg' = [arg EXCEPT ![t] = [service |-> s, size |-> 0]]
    /\ UNCHANGED <<collectorVars, made, freed, sends, connects, sizeVars, dispatchVars, lockVars>>

\* register_responder_callback, under the service's mutex; a callback that is set stays
RegisterCallback(t) ==
    LET s == arg[t].service IN
    /\ call[t] = "to register" /\ service_mutex[s] = None
    /\ registered' = registered \union {s}
    /\ arg' = [arg EXCEPT ![t] = None]
    /\ Returns(t)
    /\ UNCHANGED <<collectorVars, made, freed, sends, connects, sizeVars, responses, is_running,
                   dispatching, teardownVars, lockVars>>

RegisterStep(t) ==
    \/ \E s \in Services : SetResponseCallback(t, s)
    \/ RegisterCallback(t)

-----------------------------------------------------------------------------
(* connect and disconnect *)

BeginConnect(t) ==
    /\ connects < MaxConnects /\ Begins(t, "to connect")
    /\ connects' = connects + 1
    /\ UNCHANGED <<collectorVars, arg, made, freed, sends, sizeVars, dispatchVars,
                   lockVars>>

EnterConnect(t) ==
    /\ call[t] = "to connect" /\ Takes(t)
    /\ call' = [call EXCEPT ![t] = "connect"]
    /\ UNCHANGED <<collectorVars, arg, made, freed, sends, connects, sizeVars,
                   dispatchVars, service_mutex>>

\* heartbeats_collector_.reset(new http_heartbeats_collector).  The class behind
\* the auto_ptr has no virtual destructor: the old collector is freed without stop()
NewCollector(t) ==
    /\ Holds(t, "connect") /\ user \in {"new", "running", "stopped"} /\ (user = "new" => ~made)
    /\ made' = TRUE
    /\ IF \A r \in Refreshers : Joinable(r)
       THEN /\ user' = "new" /\ at' = 1 /\ bound' = {} /\ callback' = FALSE
            /\ fetched' = [s \in Services |-> None]
            /\ thread' = [r \in Refreshers |-> "none"]
            /\ stopping' = [r \in Refreshers |-> FALSE] /\ notified' = {}
            /\ UNCHANGED freed
       ELSE freed' = TRUE /\ UNCHANGED <<userVars, refresherVars, fetched>>
    /\ UNCHANGED <<mutex, fetch, list, pingVars, worldVars, crashed, call, arg,
                   sends, connects, sizeVars, dispatchVars, lockVars>>

\* set_callback and run
ConnectStep(t) ==
    /\ Holds(t, "connect") /\ made
    /\ SetCallback \/ BeginRun \/ RunFetcher \/ BindFetcher
    /\ UNCHANGED <<callVars, sizeVars, dispatchVars, lockVars>>

EndConnect(t) ==
    /\ Holds(t, "connect")
    /\ RunPinger
    /\ client_mutex' = None
    /\ Returns(t)
    /\ UNCHANGED <<arg, made, freed, sends, connects, sizeVars, dispatchVars, service_mutex>>

BeginDisconnect(t) ==
    /\ MayStop /\ Begins(t, "to disconnect")
    /\ UNCHANGED <<collectorVars, arg, made, freed, sends, connects, sizeVars,
                   dispatchVars, lockVars>>

\* without a collector the call throws; the mutex is held during the step only
EnterDisconnect(t) ==
    /\ call[t] = "to disconnect" /\ client_mutex = None
    /\ IF ~made
       THEN Returns(t) /\ UNCHANGED client_mutex
       ELSE client_mutex' = t /\ call' = [call EXCEPT ![t] = "disconnect"]
    /\ UNCHANGED <<collectorVars, arg, made, freed, sends, connects, sizeVars, dispatchVars,
                   service_mutex>>

DisconnectStep(t) ==
    /\ Holds(t, "disconnect")
    /\ BeginStop \/ StopRefresher \/ JoinRefresher \/ EndStop
    /\ UNCHANGED <<callVars, sizeVars, dispatchVars, lockVars>>

\* a collector stopped before has nothing left to stop
EndDisconnect(t) ==
    /\ Holds(t, "disconnect") /\ user = "stopped"
    /\ client_mutex' = None
    /\ Returns(t)
    /\ UNCHANGED <<collectorVars, arg, made, freed, sends, connects, sizeVars, dispatchVars,
                   service_mutex>>

ConnectOrDisconnect(t) ==
    \/ BeginConnect(t) \/ EnterConnect(t) \/ NewCollector(t) \/ ConnectStep(t) \/ EndConnect(t)
    \/ BeginDisconnect(t) \/ EnterDisconnect(t) \/ DisconnectStep(t) \/ EndDisconnect(t)

-----------------------------------------------------------------------------
(* ~client_impl, by a user's thread when no other thread is in a call:      *)
(* disconnect, then the services                                            *)

NoOtherCall(t) == \A u \in Callers \ {t} : call[u] = "idle"

\* disconnect throws in the destructor of a client that never connected
DestroyUnconnected(t) ==
    /\ t \in Users /\ MayCall(t) /\ NoOtherCall(t) /\ client_mutex = None
    /\ MayStop /\ ~made
    /\ crashed' = TRUE
    /\ UNCHANGED <<refresherVars, mutex, userVars, fetchVars, pingVars, worldVars, callVars,
                   sizeVars, dispatchVars, lockVars>>

\* disconnect, called by the destructor, has returned
BeginDestroy(t) ==
    /\ Holds(t, "disconnect") /\ user = "stopped" /\ NoOtherCall(t)
    /\ client_mutex' = None
    /\ call' = [call EXCEPT ![t] = "destroy"]
    /\ UNCHANGED <<collectorVars, arg, made, freed, sends, connects, sizeVars,
                   dispatchVars, service_mutex>>

\* service::~service, of one service after the other: it stops the response thread
StopService(t, s) ==
    /\ call[t] = "destroy" /\ s \in is_running /\ working \subseteq is_running
    /\ is_running' = is_running \ {s}
    /\ UNCHANGED <<collectorVars, callVars, sizeVars, registered, responses, dispatching,
                   teardownVars, lockVars>>

\* A bug that could be made in the next one: the response thread is not joined.
DestroyMembersAtOnce(t, s) ==
    /\ call[t] = "destroy" /\ s \notin is_running \union torn
    /\ torn' = torn \union {s}
    /\ UNCHANGED <<collectorVars, callVars, sizeVars, registered, responses, is_running,
                   dispatching, working, lockVars>>

\* ... and joins it.  The members are destroyed from the last to the first: the map of
\* callbacks, mutex_ and the queues of responses before the handles ...
DestroyMembers(t, s) ==
    /\ call[t] = "destroy" /\ s \notin is_running \union torn /\ dispatching[s] = "ended"
    /\ torn' = torn \union {s}
    /\ UNCHANGED <<collectorVars, callVars, sizeVars, registered, responses, is_running,
                   dispatching, working, lockVars>>

\* ... whose destructors end their threads
JoinHandles(t, s) ==
    /\ call[t] = "destroy" /\ s \in torn \intersect working
    /\ working' = working \ {s}
    /\ UNCHANGED <<collectorVars, callVars, sizeVars, registered, responses, is_running,
                   dispatching, torn, lockVars>>

\* the client is no more
EndDestroy(t) ==
    /\ call[t] = "destroy" /\ working = {}
    /\ call' = [call EXCEPT ![t] = "destroyed"]
    /\ UNCHANGED <<collectorVars, arg, made, freed, sends, connects, sizeVars,
                   dispatchVars, lockVars>>

DestroyStep(t) ==
    \/ DestroyUnconnected(t) \/ BeginDestroy(t) \/ EndDestroy(t)
    \/ \E s \in Services : StopService(t, s) \/ DestroyMembers(t, s) \/ JoinHandles(t, s)

CallStep(t) == SendStep(t) \/ RegisterStep(t) \/ ConnectOrDisconnect(t)
UserThread(t) == CallStep(t) \/ DestroyStep(t)

-----------------------------------------------------------------------------
(* The services *)

\* a handle's thread hands over the final response of a message and forgets it
AnswerMessage(s) == \E i \in DOMAIN queued[s] :
    /\ s \in working \ torn /\ service_mutex[s] = None
    /\ queued' = [queued EXCEPT ![s] = RemoveAt(@, i)]
    /\ responses' = IF s \in registered THEN [responses EXCEPT ![s] = @ + 1] ELSE responses
    /\ UNCHANGED <<collectorVars, callVars, messages_cache_size, cache_size, registered,
                   is_running, dispatching, teardownVars, lockVars>>

\* ... when the mutex and the queues it is to use are destroyed already
AnswerTooLate(s) ==
    /\ s \in working \intersect torn /\ queued[s] # <<>>
    /\ freed' = TRUE
    /\ UNCHANGED <<collectorVars, call, arg, made, sends, connects, sizeVars,
                   dispatchVars, lockVars>>

\* A bug that could be made in the next one: the queue is not tested.
BeginCallbackUntested(s) ==
    /\ dispatching[s] = "loop" /\ s \in is_running /\ service_mutex[s] = None
    /\ s \in registered
    /\ service_mutex' = [service_mutex EXCEPT ![s] = s]
    /\ dispatching' = [dispatching EXCEPT ![s] = "callback"]
    /\ UNCHANGED <<collectorVars, callVars, sizeVars, registered, responses, is_running,
                   teardownVars, client_mutex>>

\* dispatch_responces: the callback runs under the service's mutex
BeginCallback(s) ==
    /\ dispatching[s] = "loop" /\ s \in is_running /\ service_mutex[s] = None
    /\ s \in registered /\ responses[s] > 0
    /\ service_mutex' = [service_mutex EXCEPT ![s] = s]
    /\ dispatching' = [dispatching EXCEPT ![s] = "callback"]
    /\ UNCHANGED <<collectorVars, callVars, sizeVars, registered, responses, is_running,
                   teardownVars, client_mutex>>

\* A bug that could be made in the next one: the client is told of the response
\* removed, under the client's mutex.
EndCallbackTellsClient(s) ==
    /\ dispatching[s] = "callback" /\ call[s] = "idle" /\ client_mutex = None
    /\ responses' = [responses EXCEPT ![s] = @ - 1]
    /\ service_mutex' = [service_mutex EXCEPT ![s] = None]
    /\ dispatching' = [dispatching EXCEPT ![s] = "loop"]
    /\ UNCHANGED <<collectorVars, callVars, sizeVars, registered, is_running, teardownVars,
                   client_mutex>>

\* the callback has returned; the response is removed
EndCallback(s) ==
    /\ dispatching[s] = "callback" /\ call[s] = "idle"
    /\ responses' = [responses EXCEPT ![s] = @ - 1]
    /\ service_mutex' = [service_mutex EXCEPT ![s] = None]
    /\ dispatching' = [dispatching EXCEPT ![s] = "loop"]
    /\ UNCHANGED <<collectorVars, callVars, sizeVars, registered, is_running, teardownVars,
                   client_mutex>>

EndDispatch(s) ==
    /\ dispatching[s] = "loop" /\ s \notin is_running
    /\ dispatching' = [dispatching EXCEPT ![s] = "ended"]
    /\ UNCHANGED <<collectorVars, callVars, sizeVars, registered, responses, is_running,
                   teardownVars, lockVars>>

\* the handles' threads, and the response thread
ServiceStep(s) ==
    \/ AnswerMessage(s) \/ AnswerTooLate(s)
    \/ BeginCallback(s) \/ CallStep(s) \/ EndCallback(s) \/ EndDispatch(s)

-----------------------------------------------------------------------------
\* the collector's callback, service_hosts_pinged_callback, takes the mutex of
\* the service to refresh it; it takes none of the client
FetcherRuns(s) ==
    /\ FetchStep(s) \/ RefresherRuns(s)
    /\ UNCHANGED <<callVars, sizeVars, dispatchVars, lockVars>>
PingerRuns ==
    /\ PingStep \/ (CallBack /\ service_mutex[Target] = None) \/ RefresherRuns(Pinger)
    /\ UNCHANGED <<callVars, sizeVars, dispatchVars, lockVars>>
HostsChange == WorldChanges /\ UNCHANGED <<callVars, sizeVars, dispatchVars, lockVars>>

\* after either, what the process does is undefined
Running == ~crashed /\ ~freed

ClientNext ==
    /\ Running
    /\ \/ \E t \in Users : UserThread(t)
       \/ \E s \in Services : ServiceStep(s) \/ FetcherRuns(s)
       \/ PingerRuns \/ HostsChange

ClientSpec == ClientInit /\ [][ClientNext]_clientVars

CallGoesOn(t) ==
    \/ RefuseMessage(t) \/ AcceptMessage(t) \/ RouteMessage(t) \/ AccountMessage(t)
    \/ RegisterCallback(t)
    \/ EnterConnect(t) \/ NewCollector(t) \/ ConnectStep(t) \/ EndConnect(t)
    \/ EnterDisconnect(t) \/ DisconnectStep(t) \/ EndDisconnect(t)
DestroyGoesOn(t) ==
    \/ EndDestroy(t)
    \/ \E s \in Services : StopService(t, s) \/ DestroyMembers(t, s) \/ JoinHandles(t, s)

\* a thread in a call, or in a callback, goes on while it can, and gets the mutex it
\* waits for in the end; so do the threads of the collector; the user's callback makes
\* finitely many calls and returns
ClientFairness ==
    /\ \A t \in Users : SF_clientVars(Running /\ (CallGoesOn(t) \/ DestroyGoesOn(t)))
    /\ \A s \in Services :
        /\ SF_clientVars(Running /\ CallGoesOn(s))
        /\ SF_clientVars(Running /\ (EndCallback(s) \/ EndDispatch(s)))
        /\ WF_clientVars(Running /\ FetcherRuns(s))
    /\ SF_clientVars(Running /\ PingerRuns)

FairClientSpec == ClientSpec /\ ClientFairness

-----------------------------------------------------------------------------
(* Properties *)

\* The messages of all services never take more than the configured cache, though
\* sizes wrap, the check and the addition are in different objects, and callbacks
\* send too; between calls the client's figure is the sum of the services', and
\* no service keeps more than it counts.
WithinCapacity ==
    /\ Sum(cache_size) <= Capacity
    /\ client_mutex = None => messages_cache_size = Sum(cache_size)
    /\ \A s \in Services : Total(queued[s]) <= cache_size[s]

\* When a service's mutex, maps and queues are destroyed, nobody has the mutex, and no thread
\* of the collector, no response thread of that service and no call is left to use them; the
\* threads of its handles may be (AnswerTooLate).  When the client is gone so are these.
DestroyedIsQuiet ==
    /\ \A s \in torn :
        /\ service_mutex[s] = None /\ dispatching[s] = "ended"
        /\ \A r \in Refreshers : Joinable(r)
        /\ \A t \in Callers : call[t] \in {"idle", "destroy", "destroyed"}
    /\ (\E t \in Users : call[t] = "destroyed") => torn = Services /\ working = {}

\* The threads that take mutexes: the callers, and those of the collector.  The threads of
\* handles take those of services too, and are joined in Service (JoinHandle).
Threads == ({"caller"} \X Callers) \union ({"refresher"} \X Refreshers)

\* What a thread waits for, and who it is that has it.
CallerWaits(t, y) ==
    \/ call[t] \in Waits /\ y = <<"caller", client_mutex>>
    \/ call[t] \in {"to register", "route"} /\ y = <<"caller", service_mutex[arg[t].service]>>
    \/ call[t] = "connect" /\ user \in {"new", "set"} /\ ~Free /\ y = <<"refresher", mutex>>
    \/ call[t] = "disconnect" /\ user = "running" /\ ~Free /\ y = <<"refresher", mutex>>
    \/ /\ call[t] = "disconnect" /\ user = "join" /\ ~Joinable(Owned[at])
       /\ y = <<"refresher", Owned[at]>>
    \/ t \in Users /\ call[t] = "destroy"
          /\ \E s \in Services \ is_running : dispatching[s] # "ended" /\ y = <<"caller", s>>
RefresherWaits(r, y) ==
    \/ WaitsForMutex(r) /\ mutex = User /\ y = <<"caller", client_mutex>>
    \/ WaitsForMutex(r) /\ mutex # User /\ y = <<"refresher", mutex>>
    \/ r = Pinger /\ Reports /\ y = <<"caller", service_mutex[Target]>>
WaitsFor(x, y) ==
    \/ \E t \in Callers : x = <<"caller", t>> /\ CallerWaits(t, y)
    \/ \E r \in Refreshers : x = <<"refresher", r>> /\ RefresherWaits(r, y)

\* A call that needs the mutex of service r: it sends to r, sets a callback of r, or is to
\* stop the pinger, which holds the collector's mutex and waits for that of r.
Needs(t, r) ==
    \/ call[t] \in {"to register", "route"} /\ arg[t].service = r
    \/ call[t] = "disconnect" /\ user = "running" /\ Reports /\ Target = r
\* The callback of s cannot go on before that of r ends: its call needs the mutex of r, or
\* waits for the client's, whose holder needs that of r.
NeedsCallback(s, r) ==
    \/ Needs(s, r)
    \/ call[s] \in Waits /\ \E t \in Callers : client_mutex = t /\ Needs(t, r)
\* Callbacks that wait for each other, or one that waits for itself.
CallbackDeadlocked ==
    \E S \in SUBSET Services : S # {} /\ \A s \in S :
        dispatching[s] = "callback" /\ \E r \in S : NeedsCallback(s, r)

\* Threads never wait for each other in a circle but for these two, whatever calls callbacks
\* make: stop() joins a thread that wants its mutex, or callbacks wait for callbacks.
NoOtherCircle ==
    \A C \in SUBSET Threads :
        C # {} /\ (\A x \in C : \E y \in C : WaitsFor(x, y)) => StopDeadlocked \/ CallbackDeadlocked

\* Every call returns, and so does the destructor, and the callback, whose response is
\* then removed (service.hpp:205, 208), unless threads wait for each other in one of the
\* two circles.
CallsReturn ==
    ([]<>~StopDeadlocked /\ []<>~CallbackDeadlocked) =>
        /\ \A t \in Users : call[t] # "idle" ~> call[t] \in {"idle", "destroyed"} \/ ~Running
        /\ \A s \in Services : dispatching[s] = "callback" ~> dispatching[s] = "loop" \/ ~Running
=============================================================================
