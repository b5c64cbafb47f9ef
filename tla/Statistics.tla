----------------------------- MODULE Statistics -----------------------------
(***************************************************************************)
(* Statistics: the counters of a handle (handle.hpp), the copies of them   *)
(* and of the services' figures in the collector of statistics, and the    *)
(* thread that answers requests for them                                   *)
(* (src/library/statistics_collector.cpp).                                 *)
(*                                                                         *)
(* The handle's thread counts in statistics_ and posts copies; the ping    *)
(* thread, in connect, reconnect and connect_new_hosts, overwrites         *)
(* statistics_ with the last posted copy and posts again.  Nothing guards  *)
(* statistics_ itself: the collector's mutex_ guards its maps only.        *)
(***************************************************************************)
EXTENDS Integers, SequencesExt

CONSTANTS
    Services, ServiceOrder,   \* the services, in the order of their map
    Clients,                  \* external: REQ sockets of who asks for statistics
    Requests,                 \* what they may ask
    Enabled,                  \* is_statistics_enabled
    MaxEvents,                \* bound: events counted
    MaxRequests,              \* bound: requests made
    MaxUnhandled,             \* bound: unhandled messages of a service
    BadJson, Absent, IllTyped, None

Protocol == 1                 \* STATISTICS_PROTOCOL_VERSION
Sentinel == 1239846245        \* stands for a missing version
NoAction == "1239846245"      \* stands for a missing action
Actions == {"cache_stats", "config", "all_services", "service"}
Fields == {"sent_messages", "resent_messages", "bad_sent_messages", "all_responces",
           "normal_responces", "err_responces", "expired_responses"}
Counts == [Fields -> Nat]
Zero == [f \in Fields |-> 0]

ASSUME StatisticsConstants ==
    /\ Range(ServiceOrder) = Services /\ None \notin Services /\ None \notin Counts
    /\ MaxEvents \in Nat /\ MaxRequests \in Nat /\ Enabled \in BOOLEAN

VARIABLES
    statistics,    \* statistics_ of the handle
    todo,          \* the fields of an event it has yet to count
    happened,      \* history: what really happened, by field
    posted,        \* handles_stats_, its entry of the handle
    thread,        \* where the handle's thread is
    ping,          \* where the ping thread, or the constructor, is
    tmp_stats,     \* its copy
    events,
    services_stats,\* services_stats_: unhandled messages of each service
    is_running,    \* of the collector of statistics
    server,        \* the REP socket: ready to receive, or to send
    request,       \* the request of each client that waits for an answer
    requests

countVars == <<statistics, todo, happened, posted, thread, ping, tmp_stats, events>>
serverVars == <<services_stats, is_running, server, request, requests>>
vars == <<countVars, serverVars>>

StatisticsTypeOK ==
    /\ statistics \in Counts /\ todo \in Seq(Fields) /\ happened \in Counts
    /\ posted \in Counts \union {None} /\ tmp_stats \in Counts \union {None}
    /\ thread \in {"none", "loop", "counted"}
    /\ ping \in {"idle", "get", "assign", "post"}
    /\ services_stats \in [Services -> (0..MaxUnhandled) \union {None}]
    /\ is_running \in BOOLEAN
    /\ server \in {"recv", "send", "ended", "thrown"}
    /\ request \in [Clients -> Requests \union {None}]

Init ==
    /\ statistics = Zero /\ todo = <<>> /\ happened = Zero
    /\ posted = None /\ tmp_stats = None
    /\ thread = "none" /\ ping = "idle" /\ events = 0
    /\ services_stats = [s \in Services |-> None]
    /\ is_running = TRUE /\ server = "recv"
    /\ request = [c \in Clients |-> None]
    /\ requests = 0

-----------------------------------------------------------------------------
(* The counters of the handle *)

\* update_handle_stats: nothing is kept when statistics are off
Posted(counts) == IF Enabled THEN counts ELSE posted

\* the thread begins to count an event: the fields it adds one to, one after the other
Count(fields) ==
    /\ thread \in {"loop", "counted"} /\ todo = <<>> /\ events < MaxEvents
    /\ todo' = fields
    /\ happened' = [f \in Fields |-> happened[f] + (IF f \in Range(fields) THEN 1 ELSE 0)]
    /\ thread' = "counted"
    /\ events' = events + 1
    /\ UNCHANGED <<statistics, posted, ping, tmp_stats, serverVars>>

Sent == Count(<<"sent_messages">>)
BadSend == Count(<<"bad_sent_messages">>)
Resent == Count(<<"resent_messages">>)
NormalResponce == Count(<<"normal_responces", "all_responces">>)
Expired == Count(<<"err_responces", "expired_responses", "all_responces">>)
\* an error that is not an expiry is counted, and counted again
ErrResponce == Count(<<"err_responces", "err_responces", "all_responces">>)

\* A bug that could be made in the next one: a field is left to be counted again.
IncrementTwice ==
    /\ todo # <<>>
    /\ statistics' = [statistics EXCEPT ![Head(todo)] = @ + 1]
    /\ todo' = IF statistics[Head(todo)] = 0 THEN todo ELSE Tail(todo)
    /\ UNCHANGED <<happened, posted, thread, ping, tmp_stats, events, serverVars>>

Increment ==
    /\ todo # <<>>
    /\ statistics' = [statistics EXCEPT ![Head(todo)] = @ + 1]
    /\ todo' = Tail(todo)
    /\ UNCHANGED <<happened, posted, thread, ping, tmp_stats, events, serverVars>>

\* update_statistics, at once or at the end of the round of the thread
Publish ==
    /\ thread = "counted" /\ todo = <<>>
    /\ posted' = Posted(statistics)
    /\ thread' = "loop"
    /\ UNCHANGED <<todo, statistics, happened, ping, tmp_stats, events, serverVars>>

\* the constructor: its counters are zero, and its thread starts before it looks
\* for earlier ones
CreateHandle ==
    /\ thread = "none" /\ ping = "idle"
    /\ statistics' = Zero
    /\ thread' = "loop" /\ ping' = "get"
    /\ UNCHANGED <<todo, happened, posted, tmp_stats, events, serverVars>>

\* the handle is killed and destroyed: the thread ends with an update
DestroyHandle ==
    /\ thread = "loop" /\ ping = "idle"
    /\ posted' = Posted(statistics)
    /\ thread' = "none"
    /\ UNCHANGED <<todo, statistics, happened, ping, tmp_stats, events, serverVars>>

\* connect, reconnect and connect_new_hosts begin as the constructor goes on
BeginConnect ==
    /\ ping = "idle" /\ thread # "none"
    /\ ping' = "get"
    /\ UNCHANGED <<todo, statistics, happened, posted, thread, tmp_stats, events, serverVars>>

\* get_statistics in the ping thread: it copies under the collector's mutex ...
GetStatistics ==
    /\ ping = "get"
    /\ IF posted # None THEN tmp_stats' = posted /\ ping' = "assign"
       ELSE UNCHANGED tmp_stats /\ ping' = "post"
    /\ UNCHANGED <<todo, statistics, happened, posted, thread, events, serverVars>>

\* ... and assigns without it
AssignStatistics ==
    /\ ping = "assign"
    /\ statistics' = tmp_stats
    /\ tmp_stats' = None
    /\ ping' = "post"
    /\ UNCHANGED <<todo, happened, posted, thread, events, serverVars>>

\* A bug that could be made in the next one: a reconnect forgets to post.
ForgetToPost ==
    /\ ping = "post"
    /\ ping' = "idle"
    /\ UNCHANGED <<todo, statistics, happened, posted, thread, tmp_stats, events, serverVars>>

PostStatistics ==
    /\ ping = "post"
    /\ posted' = Posted(statistics)
    /\ ping' = "idle"
    /\ UNCHANGED <<todo, statistics, happened, thread, tmp_stats, events, serverVars>>

\* enqueue_message posts what there is, in the thread of a sender
EnqueueMessage ==
    /\ thread # "none"
    /\ posted' = Posted(statistics)
    /\ UNCHANGED <<todo, statistics, happened, thread, ping, tmp_stats, events, serverVars>>

\* service::update_statistics, by send_message and refresh
UpdateServiceStats(s) ==
    /\ Enabled
    /\ \E n \in 0..MaxUnhandled : services_stats' = [services_stats EXCEPT ![s] = n]
    /\ UNCHANGED <<countVars, is_running, server, request, requests>>

-----------------------------------------------------------------------------
(* Requests *)

\* the loop assigns root["3 - services"] anew for each service
all_services_json ==
    LET known == {s \in Services : services_stats[s] # None}
    IN [kind |-> "all_services",
        unhandled |-> MapThenSumSet(LAMBDA s : services_stats[s], known),
        services |-> IF ServiceOrder = <<>> THEN {} ELSE {ServiceOrder[Len(ServiceOrder)]}]

Error(kind) == [kind |-> kind]

\* root.get(member, default)
Get(value, default) == IF value = Absent THEN default ELSE value
Throws(r) ==
    /\ r # BadJson
    /\ \/ r.version = IllTyped
       \/ r.version = Protocol /\ r.action = IllTyped

\* A bug that could be made in the next one: an answer only when there is data.
process_known_only(r) ==
    IF r = BadJson THEN None
    ELSE LET version == Get(r.version, Sentinel)
             action == Get(r.action, NoAction)
         IN IF version = Protocol /\ action = "all_services" THEN all_services_json ELSE None

\* None is the empty string
process_request_json(r) ==
    IF r = BadJson THEN Error("bad json")
    ELSE LET version == Get(r.version, Sentinel)
             action == Get(r.action, NoAction)
         IN CASE version = Sentinel -> Error("no version")
              [] version \notin {Protocol, Sentinel} -> Error("unsupported version")
              [] version = Protocol /\ action = NoAction -> Error("no action")
              [] version = Protocol /\ action \notin Actions \union {NoAction} ->
                    Error("unsupported action")
              [] version = Protocol /\ action = "cache_stats" -> [kind |-> "cache_stats"]
              [] version = Protocol /\ action = "config" -> [kind |-> "config"]
              [] version = Protocol /\ action = "all_services" -> all_services_json
              [] version = Protocol /\ action = "service" -> None

\* external: a client with no question under way asks
Ask(c) ==
    /\ request[c] = None /\ requests < MaxRequests
    /\ \E r \in Requests : request' = [request EXCEPT ![c] = r]
    /\ requests' = requests + 1
    /\ UNCHANGED <<countVars, services_stats, is_running, server>>

\* process_remote_connection: a request is received and answered
Answer(c) ==
    /\ server = "recv" /\ is_running /\ request[c] # None /\ ~Throws(request[c])
    /\ process_request_json(request[c]) # None
    /\ request' = [request EXCEPT ![c] = None]
    /\ UNCHANGED <<countVars, services_stats, is_running, server, requests>>

\* an empty answer is not sent: the REP socket cannot receive again before it sends
NoAnswer(c) ==
    /\ server = "recv" /\ is_running /\ request[c] # None /\ ~Throws(request[c])
    /\ process_request_json(request[c]) = None
    /\ server' = "send"
    /\ UNCHANGED <<countVars, services_stats, is_running, request, requests>>

\* a member of the wrong type: the exception leaves the thread
RequestThrows(c) ==
    /\ server = "recv" /\ is_running /\ request[c] # None /\ Throws(request[c])
    /\ server' = "thrown"
    /\ UNCHANGED <<countVars, services_stats, is_running, request, requests>>

\* ~statistics_collector
Stop ==
    /\ is_running
    /\ is_running' = FALSE
    /\ UNCHANGED <<countVars, services_stats, server, request, requests>>
EndServer ==
    /\ ~is_running /\ server \in {"recv", "send"}
    /\ server' = "ended"
    /\ UNCHANGED <<countVars, services_stats, is_running, request, requests>>

HandleThread ==
    Sent \/ BadSend \/ Resent \/ NormalResponce \/ Expired \/ ErrResponce
    \/ Increment \/ Publish
PingThread ==
    \/ CreateHandle \/ DestroyHandle
    \/ BeginConnect \/ GetStatistics \/ AssignStatistics \/ PostStatistics
Server == EndServer \/ \E c \in Clients : Answer(c) \/ NoAnswer(c) \/ RequestThrows(c)

\* an exception that leaves the server's thread ends the process
Next ==
    /\ server # "thrown"
    /\ \/ HandleThread \/ PingThread \/ EnqueueMessage \/ Server \/ Stop
       \/ \E s \in Services : UpdateServiceStats(s)
       \/ \E c \in Clients : Ask(c)

Spec == Init /\ [][Next]_vars
\* the thread polls without end, and takes requests in turn
FairSpec ==
    /\ Spec
    /\ WF_vars(EndServer)
    /\ \A c \in Clients : WF_vars(Answer(c)) /\ WF_vars(NoAnswer(c) \/ RequestThrows(c))

-----------------------------------------------------------------------------
(* Properties *)

\* The posted copy is the handle's own whenever neither thread is in the middle of
\* something: what either counts, overwrites or posts in any order leaves the two the
\* same, and counting resumes from the copy when the handle is created again.
CopiesAgree ==
    Enabled /\ thread = "loop" /\ ping = "idle" => posted = statistics

\* Nothing but errors is counted more often than it happened, and they never more than
\* twice, though the counters are overwritten by older copies between any two increments.
NothingCountedTwice ==
    \A counts \in {statistics, posted, tmp_stats} \ {None} :
        /\ \A f \in Fields \ {"err_responces"} : counts[f] <= happened[f]
        /\ counts["err_responces"] <= 2 * happened["err_responces"]

\* A client that asks gets an answer while the thread runs, unless somebody asked for
\* the action service before, which leaves the socket waiting for an answer to send.
RequestsAnswered ==
    \A c \in Clients :
        request[c] # None ~>
            \/ request[c] = None
            \/ [version |-> Protocol, action |-> "service"] \in Range(request)
            \/ server = "thrown" \/ ~is_running

=============================================================================
