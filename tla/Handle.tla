------------------------------- MODULE Handle -------------------------------
(***************************************************************************)
(* A handle (src/include/details/handle.hpp): an object that the threads   *)
(* of the service call, and a thread of its own that owns the socket to    *)
(* the workers and runs dispatch_messages().  The two share the message    *)
(* cache and the host lists, and are connected by an in-process PAIR of    *)
(* sockets that carries control messages.  The operations called by the    *)
(* service are operators that Service composes into actions; the steps of  *)
(* the thread and of the workers are actions.                              *)
(*                                                                         *)
(* A step of the thread ends where the code releases a mutex, or reads     *)
(* memory that another thread writes without one.                          *)
(***************************************************************************)
EXTENDS MessageCache

CONSTANTS
    Hosts,       \* the hosts workers run on
    MaxChunks,   \* bound: data chunks the workers produce for one message
    MaxBusy,     \* bound: times the workers refuse a message ("queue is full")
    Lossy,       \* TRUE when a message on the wire may be lost with its host
    None         \* no object

ASSUME HandleBounds == /\ MaxChunks \in Nat
                       /\ MaxBusy \in Nat
                       /\ Lossy \in BOOLEAN

VARIABLES
    thread,        \* where the dispatch thread of the handle is
    is_connected,  \* is_connected_
    hosts,         \* hosts_
    new_hosts,     \* new_hosts_
    copied,        \* the local copy of new_hosts_ that the thread connects to
    control,       \* the control messages not yet received
    peers,         \* the hosts the thread's main socket is connected to
    sending,       \* new_msg, the message the thread is sending
    reply,         \* the response the thread is processing
    inbox,         \* the responses waiting in the thread's main socket
    wire,          \* how many copies of a message the workers still work on
    chunks,        \* data chunks the workers produced for a message
    refusals,      \* refusals of the workers so far
    transmitted    \* history: the messages that were ever sent to a worker

threadVars == <<thread, is_connected, copied, peers, sending, reply>>
workVars == <<inbox, wire, chunks, refusals, transmitted>>
sharedVars == <<hosts, new_hosts, control>>
handleVars == <<threadVars, workVars, sharedVars>>

\* the #defines of handle.hpp; CONTROL_MESSAGE_NOTHING is never sent
CONTROL_MESSAGE_CONNECT == 1
CONTROL_MESSAGE_RECONNECT == 2
CONTROL_MESSAGE_DISCONNECT == 3
CONTROL_MESSAGE_CONNECT_NEW_HOSTS == 4
CONTROL_MESSAGE_KILL == 5

\* lexical_cast<string> of a digit is one character, '0' + digit
Character(digit) == 48 + digit

ControlMessages ==
    {CONTROL_MESSAGE_CONNECT, CONTROL_MESSAGE_RECONNECT,
     Character(CONTROL_MESSAGE_DISCONNECT), CONTROL_MESSAGE_DISCONNECT,
     CONTROL_MESSAGE_CONNECT_NEW_HOSTS, CONTROL_MESSAGE_KILL}

\* the envelopes a worker sends: a data chunk, the end of the response
\* ("completed"), the refusal MESSAGE_QUEUE_IS_FULL, any other error code
Kinds == {"chunk", "choke", "busy", "error"}
FinalKinds == {"choke", "error"}

Responses == [msg : Messages, kind : Kinds]

HandleTypeOK ==
    /\ thread \in [Handles -> {"none", "control", "clear", "send", "transmit", "move",
                               "receive", "apply", "enqueue", "dead"}]
    /\ is_connected \in [Handles -> BOOLEAN]
    /\ hosts \in [Handles -> SUBSET Hosts]
    /\ new_hosts \in [Handles -> SUBSET Hosts]
    /\ copied \in [Handles -> SUBSET Hosts]
    /\ control \in [Handles -> Seq(ControlMessages)]
    /\ peers \in [Handles -> SUBSET Hosts]
    /\ sending \in [Handles -> Messages \union {None}]
    /\ reply \in [Handles -> Responses \union {None}]
    /\ inbox \in [Handles -> Seq(Responses)]
    /\ wire \in [Handles -> [Messages -> Nat]]
    /\ chunks \in [Messages -> Nat]
    /\ refusals \in Nat
    /\ transmitted \in SUBSET Messages

HandleInit ==
    /\ thread = [h \in Handles |-> "none"]
    /\ is_connected = [h \in Handles |-> FALSE]
    /\ hosts = [h \in Handles |-> {}]
    /\ new_hosts = [h \in Handles |-> {}]
    /\ copied = [h \in Handles |-> {}]
    /\ control = [h \in Handles |-> <<>>]
    /\ peers = [h \in Handles |-> {}]
    /\ sending = [h \in Handles |-> None]
    /\ reply = [h \in Handles |-> None]
    /\ inbox = [h \in Handles |-> <<>>]
    /\ wire = [h \in Handles |-> [m \in Messages |-> 0]]
    /\ chunks = [m \in Messages |-> 0]
    /\ refusals = 0
    /\ transmitted = {}

GoTo(h, place) == thread' = [thread EXCEPT ![h] = place]

-----------------------------------------------------------------------------
(* Called by the service's threads *)

SendControl(h, type) == control' = [control EXCEPT ![h] = Append(@, type)]

\* handle::handle: the thread starts; the object sits in no map yet
ConstructHandle(h, hs) ==
    /\ GoTo(h, "control")
    /\ is_connected' = [is_connected EXCEPT ![h] = FALSE]
    /\ hosts' = [hosts EXCEPT ![h] = hs]
    /\ new_hosts' = [new_hosts EXCEPT ![h] = {}]
    /\ control' = [control EXCEPT ![h] = <<>>]
    /\ UNCHANGED <<copied, peers, sending, reply, workVars>>

\* A bug that could be made in the next one: connect() skipped because the
\* constructor already stored the same hosts.
ConnectIfHostsDiffer(h, hs) ==
    /\ IF is_connected[h] \/ hs = {} \/ hosts[h] = hs
       THEN UNCHANGED sharedVars
       ELSE /\ hosts' = [hosts EXCEPT ![h] = hs]
            /\ SendControl(h, CONTROL_MESSAGE_CONNECT)
            /\ UNCHANGED new_hosts
    /\ UNCHANGED <<threadVars, workVars>>

\* handle::connect(hosts), then connect()
Connect(h, hs) ==
    /\ IF is_connected[h] \/ hs = {}
       THEN UNCHANGED sharedVars
       ELSE /\ hosts' = [hosts EXCEPT ![h] = hs]
            /\ SendControl(h, CONTROL_MESSAGE_CONNECT)
            /\ UNCHANGED new_hosts
    /\ UNCHANGED <<threadVars, workVars>>

\* A bug that could be made in the next one: RECONNECT sent as text, as
\* DISCONNECT is.
ReconnectAsText(H, hs) ==
    /\ hosts' = [h \in Handles |-> IF h \in H /\ hs # {} THEN hs ELSE hosts[h]]
    /\ control' = [h \in Handles |-> IF h \in H /\ hs # {}
                                     THEN Append(control[h], Character(CONTROL_MESSAGE_RECONNECT))
                                     ELSE control[h]]
    /\ UNCHANGED <<new_hosts, threadVars, workVars>>

\* handle::reconnect for every handle of a set; without hosts it does nothing
ReconnectAll(H, hs) ==
    /\ hosts' = [h \in Handles |-> IF h \in H /\ hs # {} THEN hs ELSE hosts[h]]
    /\ control' = [h \in Handles |-> IF h \in H /\ hs # {}
                                     THEN Append(control[h], CONTROL_MESSAGE_RECONNECT)
                                     ELSE control[h]]
    /\ UNCHANGED <<new_hosts, threadVars, workVars>>

\* handle::connect_new_hosts for every handle of a set
ConnectAllToNewHosts(H, hs) ==
    /\ new_hosts' = [h \in Handles |-> IF h \in H THEN new_hosts[h] \union hs
                                                  ELSE new_hosts[h]]
    /\ control' = [h \in Handles |-> IF h \in H
                                     THEN Append(control[h], CONTROL_MESSAGE_CONNECT_NEW_HOSTS)
                                     ELSE control[h]]
    /\ UNCHANGED <<hosts, threadVars, workVars>>

\* handle::disconnect: unlike every other control message, sent as text
Disconnect(h) ==
    /\ SendControl(h, Character(CONTROL_MESSAGE_DISCONNECT))
    /\ UNCHANGED <<hosts, new_hosts, threadVars, workVars>>

\* handle::kill
Kill(h) ==
    /\ SendControl(h, CONTROL_MESSAGE_KILL)
    /\ UNCHANGED <<hosts, new_hosts, threadVars, workVars>>

-----------------------------------------------------------------------------
(* The dispatch thread: dispatch_messages().  is_running_ is TRUE until the  *)
(* thread itself reads KILL, so the tests of it are tests of the location.   *)

\* A bug that could be made in the next one: the old socket is kept.
ConnectOldSocket(h, hs) ==
    /\ peers' = [peers EXCEPT ![h] = @ \union hs]
    /\ UNCHANGED workVars

\* main_socket.reset(new socket): what was under way on the old one is gone
OpenSocket(h, hs) ==
    /\ peers' = [peers EXCEPT ![h] = hs]
    /\ inbox' = [inbox EXCEPT ![h] = <<>>]
    /\ wire' = [wire EXCEPT ![h] = [m \in Messages |-> 0]]
    /\ UNCHANGED <<chunks, refusals, transmitted>>

SetConnected(h, b) == is_connected' = [is_connected EXCEPT ![h] = b]

\* the top of the loop: no control message, and only a connected handle works
ReceiveNothing(h) ==
    /\ thread[h] = "control"
    /\ control[h] = <<>>
    /\ is_connected[h]
    /\ GoTo(h, "send")
    /\ UNCHANGED <<cacheVars, sharedVars, is_connected, copied, peers, sending, reply, workVars>>

OpensSocket(h) ==
    \/ Head(control[h]) = CONTROL_MESSAGE_CONNECT /\ ~is_connected[h]
    \/ Head(control[h]) = CONTROL_MESSAGE_RECONNECT

TakesNewHosts(h) ==
    /\ Head(control[h]) = CONTROL_MESSAGE_CONNECT_NEW_HOSTS
    /\ is_connected[h]
    /\ new_hosts[h] # {}

\* receive_control_messages and dispatch_control_messages, all messages but
\* KILL and the one that takes new hosts
ReceiveControl(h) ==
    /\ thread[h] = "control"
    /\ control[h] # <<>>
    /\ Head(control[h]) # CONTROL_MESSAGE_KILL
    /\ ~TakesNewHosts(h)
    /\ control' = [control EXCEPT ![h] = Tail(@)]
    /\ IF OpensSocket(h)
       THEN OpenSocket(h, hosts[h]) /\ SetConnected(h, TRUE)
       ELSE IF Head(control[h]) = CONTROL_MESSAGE_DISCONNECT
            THEN OpenSocket(h, {}) /\ SetConnected(h, FALSE)
            ELSE UNCHANGED <<is_connected, peers, workVars>>
    /\ GoTo(h, IF is_connected'[h] THEN "send" ELSE "control")
    /\ UNCHANGED <<cacheVars, hosts, new_hosts, copied, sending, reply>>

\* case CONTROL_MESSAGE_CONNECT_NEW_HOSTS: new_hosts = new_hosts_ ...
CopyNewHosts(h) ==
    /\ thread[h] = "control"
    /\ control[h] # <<>>
    /\ TakesNewHosts(h)
    /\ control' = [control EXCEPT ![h] = Tail(@)]
    /\ copied' = [copied EXCEPT ![h] = new_hosts[h]]
    /\ GoTo(h, "clear")
    /\ UNCHANGED <<cacheVars, hosts, new_hosts, is_connected, peers, sending, reply, workVars>>

\* ... new_hosts_.clear(), without the mutex that guards its other uses; the
\* socket connects to the copy
ClearNewHosts(h) ==
    /\ thread[h] = "clear"
    /\ new_hosts' = [new_hosts EXCEPT ![h] = {}]
    /\ peers' = [peers EXCEPT ![h] = @ \union copied[h]]
    /\ copied' = [copied EXCEPT ![h] = {}]
    /\ GoTo(h, "send")
    /\ UNCHANGED <<cacheVars, hosts, control, is_connected, sending, reply, workVars>>

\* KILL ends the loop; the sockets go with the thread
ReceiveKill(h) ==
    /\ thread[h] = "control"
    /\ control[h] # <<>>
    /\ Head(control[h]) = CONTROL_MESSAGE_KILL
    /\ control' = [control EXCEPT ![h] = <<>>]
    /\ OpenSocket(h, {})
    /\ GoTo(h, "dead")
    /\ UNCHANGED <<cacheVars, hosts, new_hosts, is_connected, copied, sending, reply>>

\* dispatch_next_available_message: is there a message to send
CountNewMessages(h) ==
    /\ thread[h] = "send"
    /\ GoTo(h, IF new_messages[h] = <<>> THEN "receive" ELSE "transmit")
    /\ UNCHANGED <<cacheVars, sharedVars, is_connected, copied, peers, sending, reply, workVars>>

\* get_new_message, and the message goes out
TransmitMessage(h) ==
    /\ thread[h] = "transmit"
    /\ new_messages[h] # <<>>
    /\ sending' = [sending EXCEPT ![h] = Head(new_messages[h])]
    /\ wire' = [wire EXCEPT ![h][Head(new_messages[h])] = @ + 1]
    /\ transmitted' = transmitted \union {Head(new_messages[h])}
    /\ GoTo(h, "move")
    /\ UNCHANGED <<cacheVars, sharedVars, is_connected, copied, peers, reply,
                   inbox, chunks, refusals>>

\* move_new_message_to_sent, after the cache was unlocked
MoveMessage(h) ==
    /\ thread[h] = "move"
    /\ move_new_message_to_sent(h)
    /\ sending' = [sending EXCEPT ![h] = None]
    /\ GoTo(h, "receive")
    /\ UNCHANGED <<sharedVars, is_connected, copied, peers, reply, workVars>>

\* check_for_responses, and dispatch_responces found the socket drained
NoResponse(h) ==
    /\ thread[h] = "receive"
    /\ inbox[h] = <<>>
    /\ GoTo(h, "control")
    /\ UNCHANGED <<cacheVars, sharedVars, is_connected, copied, peers, sending, reply, workVars>>

\* dispatch_responces: one response, looked up with get_sent_message; the
\* response to a message that is not there is dropped
ReceiveResponse(h) ==
    /\ thread[h] = "receive"
    /\ inbox[h] # <<>>
    /\ inbox' = [inbox EXCEPT ![h] = Tail(@)]
    /\ IF Head(inbox[h]).msg \in sent_messages[h]
       THEN /\ reply' = [reply EXCEPT ![h] = Head(inbox[h])]
            /\ GoTo(h, IF Head(inbox[h]).kind = "chunk" THEN "enqueue" ELSE "apply")
       ELSE UNCHANGED <<reply, thread>>
    /\ UNCHANGED <<cacheVars, sharedVars, is_connected, copied, peers, sending,
                   wire, chunks, refusals, transmitted>>

\* MESSAGE_QUEUE_IS_FULL: just send message again
ApplyRefusal(h) ==
    /\ thread[h] = "apply"
    /\ reply[h].kind = "busy"
    /\ move_sent_message_to_new_front(h, reply[h].msg)
    /\ reply' = [reply EXCEPT ![h] = None]
    /\ GoTo(h, "receive")
    /\ UNCHANGED <<sharedVars, is_connected, copied, peers, sending, workVars>>

\* the end of the response, or an error: the cache forgets the message first,
\* enqueue_response comes after
ApplyFinal(h) ==
    /\ thread[h] = "apply"
    /\ reply[h].kind \in FinalKinds
    /\ remove_message_from_cache(h, reply[h].msg)
    /\ GoTo(h, "enqueue")
    /\ UNCHANGED <<sharedVars, is_connected, copied, peers, sending, reply, workVars>>

\* ~handle, after the thread was joined
DestroyHandle(h) ==
    /\ thread[h] = "dead"
    /\ GoTo(h, "none")
    /\ is_connected' = [is_connected EXCEPT ![h] = FALSE]
    /\ hosts' = [hosts EXCEPT ![h] = {}]
    /\ new_hosts' = [new_hosts EXCEPT ![h] = {}]
    /\ UNCHANGED <<control, copied, peers, sending, reply, workVars>>

ThreadStep(h) ==
    \/ ReceiveNothing(h)
    \/ ReceiveControl(h)
    \/ CopyNewHosts(h)
    \/ ClearNewHosts(h)
    \/ ReceiveKill(h)
    \/ CountNewMessages(h)
    \/ TransmitMessage(h)
    \/ MoveMessage(h)
    \/ NoResponse(h)
    \/ ReceiveResponse(h)
    \/ ApplyRefusal(h)
    \/ ApplyFinal(h)

-----------------------------------------------------------------------------
(* External: the workers behind the socket, and the network between.         *)

Deliver(h, m, kind) == inbox' = [inbox EXCEPT ![h] = Append(@, [msg |-> m, kind |-> kind])]

WireLoses(h, m) ==
    /\ wire[h][m] > 0
    /\ wire' = [wire EXCEPT ![h][m] = @ - 1]

WorkerChunk(h, m) ==
    /\ wire[h][m] > 0
    /\ chunks[m] < MaxChunks
    /\ chunks' = [chunks EXCEPT ![m] = @ + 1]
    /\ Deliver(h, m, "chunk")
    /\ UNCHANGED <<wire, refusals, transmitted, cacheVars, threadVars, sharedVars>>

WorkerFinal(h, m) ==
    /\ WireLoses(h, m)
    /\ \E kind \in FinalKinds : Deliver(h, m, kind)
    /\ UNCHANGED <<chunks, refusals, transmitted, cacheVars, threadVars, sharedVars>>

WorkerRefuses(h, m) ==
    /\ refusals < MaxBusy
    /\ WireLoses(h, m)
    /\ Deliver(h, m, "busy")
    /\ refusals' = refusals + 1
    /\ UNCHANGED <<chunks, transmitted, cacheVars, threadVars, sharedVars>>

\* a host dies with the message, or with the response
HostLost(h, m) ==
    /\ Lossy
    /\ WireLoses(h, m)
    /\ UNCHANGED <<inbox, chunks, refusals, transmitted, cacheVars, threadVars, sharedVars>>

WorkerStep(h, m) ==
    \/ WorkerChunk(h, m)
    \/ WorkerFinal(h, m)
    \/ WorkerRefuses(h, m)
    \/ HostLost(h, m)

=============================================================================
