------------------------------ MODULE Collector -----------------------------
(***************************************************************************)
(* The heartbeats collector (src/library/http_heartbeats_collector.cpp)    *)
(* and its hosts fetchers (src/library/curl_hosts_fetcher.cpp).  A fetcher *)
(* per service asks the service's URL for its hosts once a second; the     *)
(* pinger asks, once a second, each host of each list for its handles, and *)
(* passes what answered to a callback.                                     *)
(*                                                                         *)
(* Threads: one refresher per service and one for the pinger, and the user *)
(* who sets the callback, runs and stops.  They meet on mutex_, which the  *)
(* user keeps during run and stop, and the pinger while it pings the hosts *)
(* of one service and calls back.                                          *)
(*                                                                         *)
(* A host's answer is what parse_host_response tells apart: no answer,     *)
(* text that does not parse (or has a member of the wrong type), or the    *)
(* applications by name.  An answer whose root is not an object ends the   *)
(* process in an assertion of jsoncpp (JsonValue) and is not in the model. *)
(***************************************************************************)
EXTENDS Refresher

CONSTANTS
    Services,     \* the services of the configuration
    ServiceOrder, \* ... in the order of the map of services
    Instance,     \* the instance each service is made of, service_info::instance_
    Apps,         \* service_info::app_name_ of each service
    Hosts,
    Worlds,       \* what the URLs and the hosts may answer, at one time
    MaxChanges,   \* bound: changes of the world
    MaxThrows,    \* bound: callbacks that throw
    MayStop,      \* whether the user stops the collector
    Malformed,    \* a handle that is not an object, or an empty one
    Pinger, User, None

VARIABLES
    mutex,        \* who holds mutex_
    user,         \* where the user is
    at,           \* the refresher the user is starting or stopping
    bound,        \* the fetchers whose callback_ is set
    callback,     \* whether callback_ is set
    fetch,        \* where interval_func of each fetcher is
    list,         \* the hosts each fetcher holds
    fetched,      \* fetched_services_hosts_
    ping,         \* where services_ping_callback is
    round,        \* services_2_ping
    turn,         \* the service of the round
    asked,        \* the hosts of the service asked so far
    responded,    \* responded_hosts
    answers,      \* hosts_and_handles
    collected,    \* collected_handles
    reported,     \* the last arguments of the callback, by service
    world,        \* external: what the URLs and the hosts answer now
    changes,
    throws,
    crashed       \* an empty function was called: the process has ended

userVars == <<user, at, bound, callback>>
fetchVars == <<fetch, list, fetched>>
pingVars == <<ping, round, turn, asked, responded, answers, collected, reported, throws>>
worldVars == <<world, changes>>
collectorVars == <<refresherVars, mutex, userVars, fetchVars, pingVars, worldVars, crashed>>

Lists == {w.lists[s] : w \in Worlds, s \in Services} \ {None}
Count == Len(ServiceOrder)
\* A bug that could be made in the next one: the pinger is left running.
OwnedFetchers == ServiceOrder

\* the order in which stop() destroys the refreshers
Owned == ServiceOrder \o <<Pinger>>
Infos == [name : STRING, port : Nat]
Tasks == [name : STRING, type : STRING, instance : STRING, port : Nat]

ASSUME CollectorConstants ==
    /\ Refreshers = Services \union {Pinger}
    /\ ServiceOrder \in Seq(Services) /\ Range(ServiceOrder) = Services
    /\ IsInjective(ServiceOrder)
    /\ Pinger \notin Services /\ User \notin Refreshers /\ None \notin Refreshers \union {User}
    /\ \A w \in Worlds, s \in Services : w.lists[s] \in Seq(Hosts) \union {None}
    /\ \A w \in Worlds, s \in Services, h \in Hosts :
          LET answer == w.meta[s][h] IN
          answer.kind = "apps" =>
              \A app \in Range(answer.apps) :
                  app.kind = "object" => app.tasks \in Seq(Tasks \union {Malformed})
    /\ MaxChanges \in Nat /\ MaxThrows \in Nat /\ MayStop \in BOOLEAN

CollectorTypeOK ==
    /\ RefresherTypeOK
    /\ mutex \in {None, User, Pinger}
    /\ user \in {"new", "set", "run", "bind", "running", "stop", "join", "stopped"}
    /\ at \in 1..Count + 2
    /\ bound \in SUBSET Services
    /\ callback \in BOOLEAN
    /\ fetch \in [Services -> {"request", "deliver"}]
    /\ list \in [Services -> Lists \union {<<>>}]
    /\ fetched \in [Services -> Lists \union {None}]
    /\ ping \in {"snapshot", "next", "ask"}
    /\ round \in [Services -> Lists \union {None}]
    /\ turn \in 1..Count + 1
    /\ asked \in Nat
    /\ responded \in Seq(Hosts)
    /\ answers \in Seq(Hosts \X Infos)
    /\ collected \in Seq(Infos)
    /\ reported \in [Services -> [hosts : Seq(Hosts), infos : Seq(Infos)] \union {None}]
    /\ world \in Worlds /\ changes \in 0..MaxChanges /\ throws \in 0..MaxThrows
    /\ crashed \in BOOLEAN

CollectorInit ==
    /\ RefresherInit
    /\ mutex = None
    /\ user = "new" /\ at = 1 /\ bound = {} /\ callback = FALSE
    /\ fetch = [s \in Services |-> "request"]
    /\ list = [s \in Services |-> <<>>]
    /\ fetched = [s \in Services |-> None]
    /\ ping = "snapshot" /\ turn = 1 /\ asked = 0
    /\ round = [s \in Services |-> None]
    /\ responded = <<>> /\ answers = <<>> /\ collected = <<>>
    /\ reported = [s \in Services |-> None]
    /\ world \in Worlds
    /\ changes = 0 /\ throws = 0
    /\ crashed = FALSE

Free == mutex = None

-----------------------------------------------------------------------------
(* The answers of the hosts *)

\* push_back, if x is in K
PushIf(K, q, x) == IF x \in K THEN Append(q, x) ELSE q
\* the elements of q that are in K, in their order
Keep(q, K) ==
    LET kept[n \in 0..Len(q)] == IF n = 0 THEN <<>> ELSE PushIf(K, kept[n - 1], q[n])
    IN kept[Len(q)]

\* what parse_host_response keeps of a task: an lsd handle of our instance
Accepts(s, task) ==
    /\ task.type = "server+lsd"
    /\ task.instance # "" /\ task.instance = Instance[s]
    /\ task.port # 0

\* parse_host_response throws
Unusable(s, answer) ==
    \/ answer.kind # "apps"
    \/ DOMAIN answer.apps = {}
    \/ /\ Apps[s] \in DOMAIN answer.apps
       /\ LET app == answer.apps[Apps[s]] IN
          app.kind = "object" /\ app.running
              /\ (app.tasks = <<>> \/ Malformed \in Range(app.tasks))

\* the handles parse_host_response leaves in its last argument; those of an
\* answer it throws on are not used
parse_host_response(s, answer) ==
    IF Unusable(s, answer) \/ Apps[s] \notin DOMAIN answer.apps THEN <<>>
    ELSE LET app == answer.apps[Apps[s]]
         IN IF app.kind # "object" \/ ~app.running THEN <<>>
            ELSE LET tasks == Keep(app.tasks, {t \in Range(app.tasks) : Accepts(s, t)})
                 IN [i \in 1..Len(tasks) |-> [name |-> tasks[i].name, port |-> tasks[i].port]]

\* collected_handles with the handles of one more host, which all differ: they are
\* members of one object
AddNew(known, more) == known \o Keep(more, Range(more) \ Range(known))

\* hosts_and_handles.equal_range(h)
HandlesOf(h) == Keep(answers, {h} \X Infos)

\* one direction of validate_host_handles: the inner iterator is not set back,
\* so that only the first handle of one host is looked for in the other
NotFoundIn(from, to) ==
    {i \in 1..Len(from) : i > 1 \/ \A j \in 1..Len(to) : to[j][2] # from[i][2]}

\* the hosts, by index, that validate_host_handles finds fault with
validate_host_handles ==
    {i \in 1..Len(responded) - 1 :
        LET one == HandlesOf(responded[i])
            two == HandlesOf(responded[i + 1])
        IN NotFoundIn(one, two) # {} \/ NotFoundIn(two, one) # {}}

-----------------------------------------------------------------------------
(* The user: set_callback, run, stop *)

SetCallback ==
    /\ user = "new" /\ Free
    /\ callback' = TRUE
    /\ user' = "set"
    /\ UNCHANGED <<refresherVars, mutex, at, bound, fetchVars, pingVars, worldVars, crashed>>

BeginRun ==
    /\ user = "set" /\ Free
    /\ mutex' = User
    /\ user' = "run" /\ at' = 1
    /\ UNCHANGED <<refresherVars, bound, callback, fetchVars, pingVars, worldVars, crashed>>

\* new curl_hosts_fetcher: its constructor starts the thread
RunFetcher ==
    /\ user = "run" /\ at <= Count
    /\ StartRefresher(ServiceOrder[at])
    /\ user' = "bind"
    /\ UNCHANGED <<mutex, at, bound, callback, fetchVars, pingVars, worldVars, crashed>>

\* A bug that could be made in the next one: the callback is not set.
BindNothing ==
    /\ user = "bind"
    /\ user' = "run" /\ at' = at + 1
    /\ UNCHANGED <<refresherVars, mutex, bound, callback, fetchVars, pingVars, worldVars, crashed>>

\* fetcher->set_callback
BindFetcher ==
    /\ user = "bind"
    /\ bound' = bound \union {ServiceOrder[at]}
    /\ user' = "run" /\ at' = at + 1
    /\ UNCHANGED <<refresherVars, mutex, callback, fetchVars, pingVars, worldVars, crashed>>

RunPinger ==
    /\ user = "run" /\ at > Count
    /\ StartRefresher(Pinger)
    /\ mutex' = None
    /\ user' = "running"
    /\ UNCHANGED <<at, bound, callback, fetchVars, pingVars, worldVars, crashed>>

\* A bug that could be made in the next one: the mutex is not taken.
BeginStopUnlocked ==
    /\ MayStop
    /\ user = "running"
    /\ user' = "stop" /\ at' = 1
    /\ UNCHANGED <<refresherVars, mutex, bound, callback, fetchVars, pingVars, worldVars, crashed>>

BeginStop ==
    /\ MayStop
    /\ user = "running" /\ Free
    /\ mutex' = User
    /\ user' = "stop" /\ at' = 1
    /\ UNCHANGED <<refresherVars, bound, callback, fetchVars, pingVars, worldVars, crashed>>

\* reset of one refresher: its destructor raises the flag ...
StopRefresher ==
    /\ user = "stop" /\ at <= Len(Owned)
    /\ RaiseFlag(Owned[at])
    /\ user' = "join"
    /\ UNCHANGED <<mutex, at, bound, callback, fetchVars, pingVars, worldVars, crashed>>

\* ... and joins the thread
JoinRefresher ==
    /\ user = "join" /\ Joinable(Owned[at])
    /\ user' = "stop" /\ at' = at + 1
    /\ UNCHANGED <<refresherVars, mutex, bound, callback, fetchVars, pingVars, worldVars, crashed>>

EndStop ==
    /\ user = "stop" /\ at > Len(Owned)
    /\ mutex' = None
    /\ user' = "stopped"
    /\ UNCHANGED <<refresherVars, at, bound, callback, fetchVars, pingVars, worldVars, crashed>>

UserStep ==
    \/ SetCallback \/ BeginRun \/ RunFetcher \/ BindFetcher \/ RunPinger
    \/ BeginStop \/ StopRefresher \/ JoinRefresher \/ EndStop

-----------------------------------------------------------------------------
(* A fetcher: interval_func, and hosts_callback of the collector *)

InFetch(s, place) == At(s, "call") /\ fetch[s] = place

\* A bug that could be made in the next one: the result of curl is not looked at.
FetchFailsDelivers(s) ==
    /\ InFetch(s, "request") /\ world.lists[s] = None
    /\ list' = [list EXCEPT ![s] = None]
    /\ fetch' = [fetch EXCEPT ![s] = "deliver"]
    /\ UNCHANGED <<refresherVars, mutex, userVars, fetched, pingVars, worldVars, crashed>>

FetchFails(s) ==
    /\ InFetch(s, "request") /\ world.lists[s] = None
    /\ Return(s)
    /\ UNCHANGED <<mutex, userVars, fetchVars, pingVars, worldVars, crashed>>

FetchList(s) ==
    /\ InFetch(s, "request") /\ world.lists[s] # None
    /\ list' = [list EXCEPT ![s] = world.lists[s]]
    /\ fetch' = [fetch EXCEPT ![s] = "deliver"]
    /\ UNCHANGED <<refresherVars, mutex, userVars, fetched, pingVars, worldVars, crashed>>

\* callback_ is empty: the call throws, and nothing in the thread catches
CallEmpty(s) ==
    /\ InFetch(s, "deliver") /\ s \notin bound
    /\ crashed' = TRUE
    /\ UNCHANGED <<refresherVars, mutex, userVars, fetchVars, pingVars, worldVars>>

\* A bug that could be made in the next one: a list once fetched is kept.
hosts_callback_once(s) ==
    /\ InFetch(s, "deliver") /\ s \in bound /\ Free
    /\ fetched' = [fetched EXCEPT ![s] = IF @ = None THEN list[s] ELSE @]
    /\ fetch' = [fetch EXCEPT ![s] = "request"]
    /\ Return(s)
    /\ UNCHANGED <<mutex, userVars, list, pingVars, worldVars, crashed>>

hosts_callback(s) ==
    /\ InFetch(s, "deliver") /\ s \in bound /\ Free
    /\ fetched' = [fetched EXCEPT ![s] = list[s]]
    /\ fetch' = [fetch EXCEPT ![s] = "request"]
    /\ Return(s)
    /\ UNCHANGED <<mutex, userVars, list, pingVars, worldVars, crashed>>

FetchStep(s) == FetchFails(s) \/ FetchList(s) \/ CallEmpty(s) \/ hosts_callback(s)

-----------------------------------------------------------------------------
(* The pinger: services_ping_callback and ping_service_hosts *)

InPing(place) == At(Pinger, "call") /\ ping = place
Target == ServiceOrder[turn]

\* services_2_ping is copied under the mutex
TakeRound ==
    /\ InPing("snapshot") /\ Free
    /\ round' = fetched /\ turn' = 1
    /\ ping' = "next"
    /\ UNCHANGED <<refresherVars, mutex, userVars, fetchVars, asked, responded, answers,
                   collected, reported, throws, worldVars, crashed>>

\* the end of the round
EndRound ==
    /\ InPing("next") /\ turn > Count
    /\ Return(Pinger)
    /\ ping' = "snapshot"
    /\ UNCHANGED <<mutex, userVars, fetchVars, round, turn, asked, responded, answers,
                   collected, reported, throws, worldVars, crashed>>

\* no list was fetched for the service yet
SkipService ==
    /\ InPing("next") /\ turn <= Count /\ round[Target] = None
    /\ turn' = turn + 1
    /\ UNCHANGED <<refresherVars, mutex, userVars, fetchVars, ping, round, asked, responded,
                   answers, collected, reported, throws, worldVars, crashed>>

\* ping_service_hosts takes the mutex
BeginPing ==
    /\ InPing("next") /\ turn <= Count /\ round[Target] # None /\ Free
    /\ mutex' = Pinger
    /\ ping' = "ask" /\ asked' = 0
    /\ responded' = <<>> /\ answers' = <<>> /\ collected' = <<>>
    /\ UNCHANGED <<refresherVars, userVars, fetchVars, round, turn, reported, throws,
                   worldVars, crashed>>

\* A bug that could be made in the next one: a host counts when it answers at all.
AskHostCountsAll ==
    /\ InPing("ask") /\ asked < Len(round[Target])
    /\ LET h == round[Target][asked + 1]
           got == parse_host_response(Target, world.meta[Target][h])
       IN /\ responded' = Append(responded, h)
          /\ answers' = answers \o [i \in 1..Len(got) |-> <<h, got[i]>>]
          /\ collected' = AddNew(collected, got)
    /\ asked' = asked + 1
    /\ UNCHANGED <<refresherVars, mutex, userVars, fetchVars, ping, round, turn, reported,
                   throws, worldVars, crashed>>

\* get_metainfo_from_host and parse_host_response for the next host
AskHost ==
    /\ InPing("ask") /\ asked < Len(round[Target])
    /\ LET h == round[Target][asked + 1]
           got == parse_host_response(Target, world.meta[Target][h])
       IN IF got = <<>> THEN UNCHANGED <<responded, answers, collected>>
          ELSE /\ responded' = Append(responded, h)
               /\ answers' = answers \o [i \in 1..Len(got) |-> <<h, got[i]>>]
               /\ collected' = AddNew(collected, got)
    /\ asked' = asked + 1
    /\ UNCHANGED <<refresherVars, mutex, userVars, fetchVars, ping, round, turn, reported,
                   throws, worldVars, crashed>>

Reports == InPing("ask") /\ asked = Len(round[Target])

\* callback_(s_info, responded_hosts, collected_handles)
Report ==
    /\ Reports /\ callback
    /\ reported' = [reported EXCEPT ![Target] = [hosts |-> responded, infos |-> collected]]
    /\ mutex' = None
    /\ ping' = "next" /\ turn' = turn + 1
    /\ UNCHANGED <<refresherVars, userVars, fetchVars, round, asked, responded, answers,
                   collected, throws, worldVars, crashed>>

\* the callback throws, or is empty: the catch ends the round
ReportThrows ==
    /\ Reports /\ (callback => throws < MaxThrows)
    /\ throws' = IF callback THEN throws + 1 ELSE throws
    /\ mutex' = None
    /\ Return(Pinger)
    /\ ping' = "snapshot"
    /\ UNCHANGED <<userVars, fetchVars, round, turn, asked, responded, answers, collected,
                   reported, worldVars, crashed>>

PingStep == TakeRound \/ EndRound \/ SkipService \/ BeginPing \/ AskHost
CallBack == Report \/ ReportThrows

-----------------------------------------------------------------------------
\* external: hosts come and go, and change what they run
WorldChanges ==
    /\ changes < MaxChanges
    /\ world' \in Worlds /\ world' # world
    /\ changes' = changes + 1
    /\ UNCHANGED <<refresherVars, mutex, userVars, fetchVars, pingVars, crashed>>

RefresherRuns(r) ==
    /\ RefresherStep(r)
    /\ UNCHANGED <<mutex, userVars, fetchVars, pingVars, worldVars, crashed>>

CollectorStep ==
    \/ \E s \in Services : FetchStep(s)
    \/ PingStep \/ CallBack
    \/ \E r \in Refreshers : RefresherRuns(r)
    \/ WorldChanges

CollectorNext == ~crashed /\ (UserStep \/ CollectorStep)

CollectorSpec == CollectorInit /\ [][CollectorNext]_collectorVars

\* every thread goes on while it can, and one that waits for the mutex gets it
\* in the end: a thread that lets go of it sleeps for a second
CollectorFairness ==
    /\ WF_collectorVars(CollectorNext /\ UserStep)
    /\ \A s \in Services :
        /\ WF_collectorVars(~crashed /\ (FetchFails(s) \/ FetchList(s) \/ CallEmpty(s)))
        /\ SF_collectorVars(~crashed /\ hosts_callback(s))
        /\ WF_collectorVars(~crashed /\ RefresherRuns(s))
    /\ SF_collectorVars(~crashed /\ (TakeRound \/ BeginPing))
    /\ WF_collectorVars(~crashed /\ (EndRound \/ SkipService \/ AskHost))
    /\ WF_collectorVars(~crashed /\ Report)
    /\ WF_collectorVars(~crashed /\ RefresherRuns(Pinger))

FairCollectorSpec == CollectorSpec /\ CollectorFairness

-----------------------------------------------------------------------------
(* Properties *)

\* the last report a service got is the one the world now calls for
Expected(s) ==
    LET hosts == world.lists[s]
        Got(h) == parse_host_response(s, world.meta[s][h])
        Alive(h) == Got(h) # <<>>
    IN [hosts |-> SelectSeq(hosts, Alive),
        infos |-> FoldLeft(LAMBDA known, h : AddNew(known, Got(h)), <<>>, hosts)]

\* part is l with some elements left out
IsPart(part, l) ==
    \E f \in [1..Len(part) -> 1..Len(l)] :
        /\ \A i, j \in 1..Len(part) : i < j => f[i] < f[j]
        /\ \A i \in 1..Len(part) : part[i] = l[f[i]]

\* every handle is one that one of the hosts gave, at some time
GivenBy(s, hosts, infos) ==
    \A i \in Range(infos) : \E w \in Worlds : \E h \in Range(hosts) :
        i \in Range(parse_host_response(s, w.meta[s][h]))

\* A report has hosts exactly when it has handles: what Service assumes of its
\* Views.  The handles are the service's own and listen on a port; the hosts are
\* those of one fetched list, in its order, though lists and answers change while
\* the hosts are pinged.
ReportsAreSound ==
    \A s \in Services : reported[s] # None =>
        LET hosts == reported[s].hosts
            infos == reported[s].infos
        IN /\ hosts = <<>> <=> infos = <<>>
           /\ GivenBy(s, hosts, infos)
           /\ \E l \in Lists : IsPart(hosts, l)

\* When stop has returned no thread runs and no callback is under way.
StoppedIsQuiet ==
    user = "stopped" => \A r \in Refreshers : Joinable(r)

\* Once the world is quiet, and until the user stops, the reports catch up with it,
\* though rounds work on copies, and callbacks that throw end rounds early.
ReportsConverge ==
    [](~crashed /\ user \notin {"stop", "join", "stopped"}) =>
        <>[](\A s \in Services : world.lists[s] # None => reported[s] = Expected(s))

\* the thread of a refresher wants mutex_
WaitsForMutex(r) ==
    /\ At(r, "call")
    /\ \/ r \in bound /\ fetch[r] = "deliver"
       \/ r = Pinger /\ ping = "snapshot"
       \/ r = Pinger /\ ping = "next" /\ turn <= Count /\ round[Target] # None

\* stop() joins, with mutex_, a thread that wants it
StopDeadlocked == user = "join" /\ WaitsForMutex(Owned[at])

\* stop() kills the fetchers and the pinger (http_heartbeats_collector.cpp:65, 70)
\* and returns, also when a refresher has tested its flag and not yet begun to
\* wait, so that its notification is lost; only a thread that wants the mutex
\* stop() holds keeps it for ever.
StopReturns ==
    []<>~StopDeadlocked => (user \in {"stop", "join"} ~> user = "stopped" \/ crashed)

\* A fetcher passes its hosts to its callback (curl_hosts_fetcher.cpp:41): the
\* callback is missing only between the two statements of run() that start the
\* thread and bind it.
UnboundOnlyInRun == crashed => user = "bind"
=============================================================================
