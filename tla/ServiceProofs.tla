--------------------------- MODULE ServiceProofs ----------------------------
(***************************************************************************)
(* Proofs about Service: its inductive invariant IndInv, and from it the   *)
(* types and the properties of the queues; then, from TopologyInv, that no *)
(* socket is stale, and from RefreshInv that a refresh goes on to its end  *)
(* and leaves handles that serve: for any sets of messages, handles and    *)
(* hosts and any reports of the collector.                                 *)
(*                                                                         *)
(* The argument.  UnsentInOrder looks at the queue of a handle, which is   *)
(* in two places; NoQueueBesideHandle and NoHandleNoCache say that one of  *)
(* them is empty, so that a step changes the queue at one end only.  What  *)
(* leaves at the front is the message the thread sent (SendsWhatItMoves),  *)
(* hence one that need not be queued any more; what a removal leaves       *)
(* behind was sent too (SentWasTransmitted).                               *)
(***************************************************************************)
EXTENDS Service, SequenceTheorems, FiniteSetTheorems, TLAPS

(***************************************************************************)
(* Lemmas about the operators of the cache.                                *)
(***************************************************************************)

\* The order in which make_all_messages_new walks the index of sent messages is
\* a sequence of messages.
LEMMA OrderingsAreSequences ==
    ASSUME NEW S \in SUBSET Messages, NEW s \in Orderings(S)
    PROVE  s \in Seq(Messages)
<1>1. IsFiniteSet(S)
    BY FiniteMessages, FS_Subset
<1>2. Cardinality(S) \in Nat
    BY <1>1, FS_CardinalityType
<1>3. s \in [1..Cardinality(S) -> S]
    BY DEF Orderings, SetToSeqs
<1>4. s \in Seq(S)
    BY <1>2, <1>3
<1> QED
    BY <1>4

\* The steps of a thread keep the types of what it owns and of the cache.
LEMMA ThreadStepType ==
    ASSUME CacheTypeOK, HandleTypeOK, NEW h \in Handles, ThreadStep(h)
    PROVE  CacheTypeOK' /\ HandleTypeOK'
<1> USE DEF CacheTypeOK, HandleTypeOK, cacheVars, threadVars, workVars, sharedVars, GoTo
<1>1. CASE ReceiveNothing(h)
    BY <1>1 DEF ReceiveNothing
<1>2. CASE ReceiveControl(h)
    <2>1. Tail(control[h]) \in Seq(ControlMessages)
        BY <1>2 DEF ReceiveControl
    <2>2. UNCHANGED <<chunks, refusals, transmitted, cacheVars, hosts, new_hosts, copied,
                      sending, reply>>
        BY <1>2 DEF ReceiveControl, OpenSocket
    <2>3. /\ control' = [control EXCEPT ![h] = Tail(@)]
          /\ \E place \in {"send", "control"} : thread' = [thread EXCEPT ![h] = place]
        BY <1>2 DEF ReceiveControl
    <2>4. CASE OpensSocket(h)
        <3>1. /\ peers' = [peers EXCEPT ![h] = hosts[h]]
              /\ inbox' = [inbox EXCEPT ![h] = <<>>]
              /\ wire' = [wire EXCEPT ![h] = [m \in Messages |-> 0]]
              /\ is_connected' = [is_connected EXCEPT ![h] = TRUE]
            BY <1>2, <2>4 DEF ReceiveControl, OpenSocket, SetConnected
        <3> QED
            BY <2>1, <2>2, <2>3, <3>1
    <2>5. CASE ~OpensSocket(h) /\ Head(control[h]) = CONTROL_MESSAGE_DISCONNECT
        <3>1. /\ peers' = [peers EXCEPT ![h] = {}]
              /\ inbox' = [inbox EXCEPT ![h] = <<>>]
              /\ wire' = [wire EXCEPT ![h] = [m \in Messages |-> 0]]
              /\ is_connected' = [is_connected EXCEPT ![h] = FALSE]
            BY <1>2, <2>5 DEF ReceiveControl, OpenSocket, SetConnected
        <3> QED
            BY <2>1, <2>2, <2>3, <3>1
    <2>6. CASE ~OpensSocket(h) /\ Head(control[h]) # CONTROL_MESSAGE_DISCONNECT
        BY <1>2, <2>1, <2>2, <2>3, <2>6 DEF ReceiveControl
    <2> QED
        BY <2>4, <2>5, <2>6
<1>3. CASE CopyNewHosts(h)
    <2>1. Tail(control[h]) \in Seq(ControlMessages)
        BY <1>3 DEF CopyNewHosts
    <2> QED
        BY <1>3, <2>1 DEF CopyNewHosts
<1>4. CASE ClearNewHosts(h)
    BY <1>4 DEF ClearNewHosts
<1>5. CASE ReceiveKill(h)
    BY <1>5 DEF ReceiveKill, OpenSocket
<1>6. CASE CountNewMessages(h)
    BY <1>6 DEF CountNewMessages
<1>7. CASE TransmitMessage(h)
    <2>1. Head(new_messages[h]) \in Messages
        BY <1>7 DEF TransmitMessage
    <2> QED
        BY <1>7, <2>1 DEF TransmitMessage
<1>8. CASE MoveMessage(h)
    <2>1. /\ Head(new_messages[h]) \in Messages
          /\ Tail(new_messages[h]) \in Seq(Messages)
        BY <1>8 DEF MoveMessage, move_new_message_to_sent
    <2> QED
        BY <1>8, <2>1 DEF MoveMessage, move_new_message_to_sent
<1>9. CASE NoResponse(h)
    BY <1>9 DEF NoResponse
<1>10. CASE ReceiveResponse(h)
    <2>1. /\ Head(inbox[h]) \in Responses
          /\ Tail(inbox[h]) \in Seq(Responses)
        BY <1>10 DEF ReceiveResponse
    <2> QED
        BY <1>10, <2>1 DEF ReceiveResponse
<1>11. CASE ApplyRefusal(h)
    <2>1. CASE reply[h].msg \in sent_messages[h]
        <3>1. <<reply[h].msg>> \o new_messages[h] \in Seq(Messages)
            BY <2>1, ConcatProperties
        <3>2. /\ new_messages' = [new_messages EXCEPT ![h] = <<reply[h].msg>> \o @]
              /\ sent_messages' = [sent_messages EXCEPT ![h] = @ \ {reply[h].msg}]
            BY <1>11, <2>1 DEF ApplyRefusal, move_sent_message_to_new_front
        <3>3. HandleTypeOK'
            BY <1>11 DEF ApplyRefusal
        <3> QED
            BY <3>1, <3>2, <3>3
    <2>2. CASE reply[h].msg \notin sent_messages[h]
        BY <1>11, <2>2 DEF ApplyRefusal, move_sent_message_to_new_front
    <2> QED
        BY <2>1, <2>2
<1>12. CASE ApplyFinal(h)
    BY <1>12 DEF ApplyFinal, remove_message_from_cache
<1> QED
    BY <1>1, <1>2, <1>3, <1>4, <1>5, <1>6, <1>7, <1>8, <1>9, <1>10, <1>11, <1>12
    DEF ThreadStep

\* A thread touches nothing of another handle.
LEMMA ThreadStepOfOne ==
    ASSUME CacheTypeOK, HandleTypeOK, NEW h \in Handles, ThreadStep(h),
           NEW g \in Handles, g # h
    PROVE  /\ thread'[g] = thread[g]
           /\ new_messages'[g] = new_messages[g]
           /\ sent_messages'[g] = sent_messages[g]
           /\ reply'[g] = reply[g]
           /\ sending'[g] = sending[g]
<1> USE DEF CacheTypeOK, HandleTypeOK, cacheVars, threadVars, workVars, sharedVars, GoTo
<1>1. CASE ReceiveNothing(h)
    BY <1>1 DEF ReceiveNothing
<1>2. CASE ReceiveControl(h)
    BY <1>2 DEF ReceiveControl
<1>3. CASE CopyNewHosts(h)
    BY <1>3 DEF CopyNewHosts
<1>4. CASE ClearNewHosts(h)
    BY <1>4 DEF ClearNewHosts
<1>5. CASE ReceiveKill(h)
    BY <1>5 DEF ReceiveKill
<1>6. CASE CountNewMessages(h)
    BY <1>6 DEF CountNewMessages
<1>7. CASE TransmitMessage(h)
    BY <1>7 DEF TransmitMessage
<1>8. CASE MoveMessage(h)
    BY <1>8 DEF MoveMessage, move_new_message_to_sent
<1>9. CASE NoResponse(h)
    BY <1>9 DEF NoResponse
<1>10. CASE ReceiveResponse(h)
    BY <1>10 DEF ReceiveResponse
<1>11. CASE ApplyRefusal(h)
    BY <1>11 DEF ApplyRefusal, move_sent_message_to_new_front
<1>12. CASE ApplyFinal(h)
    BY <1>12 DEF ApplyFinal, remove_message_from_cache
<1> QED
    BY <1>1, <1>2, <1>3, <1>4, <1>5, <1>6, <1>7, <1>8, <1>9, <1>10, <1>11, <1>12
    DEF ThreadStep

\* So do the steps of the workers.
LEMMA WorkerStepType ==
    ASSUME CacheTypeOK, HandleTypeOK, NEW h \in Handles, NEW m \in Messages, WorkerStep(h, m)
    PROVE  CacheTypeOK' /\ HandleTypeOK'
<1> USE DEF CacheTypeOK, HandleTypeOK, cacheVars, threadVars, workVars, sharedVars
<1>0. \A kind \in Kinds :
          Append(inbox[h], [msg |-> m, kind |-> kind]) \in Seq(Responses)
    <2>1. SUFFICES ASSUME NEW kind \in Kinds
                   PROVE  Append(inbox[h], [msg |-> m, kind |-> kind]) \in Seq(Responses)
        OBVIOUS
    <2>2. [msg |-> m, kind |-> kind] \in Responses
        BY DEF Responses
    <2> QED
        BY <2>2
<1>1. CASE WorkerChunk(h, m)
    <2>1. "chunk" \in Kinds
        BY DEF Kinds
    <2> QED
        BY <1>0, <1>1, <2>1 DEF WorkerChunk, Deliver
<1>2. CASE WorkerFinal(h, m)
    <2>1. PICK kind \in Kinds : inbox' = [inbox EXCEPT ![h] = Append(@, [msg |-> m, kind |-> kind])]
        BY <1>2 DEF WorkerFinal, Deliver, FinalKinds, Kinds
    <2>2. wire[h][m] - 1 \in Nat
        BY <1>2 DEF WorkerFinal, WireLoses
    <2> QED
        BY <1>0, <1>2, <2>1, <2>2 DEF WorkerFinal, WireLoses
<1>3. CASE WorkerRefuses(h, m)
    <2>1. "busy" \in Kinds
        BY DEF Kinds
    <2>2. wire[h][m] - 1 \in Nat
        BY <1>3 DEF WorkerRefuses, WireLoses
    <2> QED
        BY <1>0, <1>3, <2>1, <2>2 DEF WorkerRefuses, WireLoses, Deliver
<1>4. CASE HostLost(h, m)
    <2>1. wire[h][m] - 1 \in Nat
        BY <1>4 DEF HostLost, WireLoses
    <2> QED
        BY <1>4, <2>1 DEF HostLost, WireLoses
<1> QED
    BY <1>1, <1>2, <1>3, <1>4 DEF WorkerStep

-----------------------------------------------------------------------------
(* Types *)

LEMMA TypeInit == Init => TypeOK
<1> SUFFICES ASSUME Init PROVE TypeOK
    OBVIOUS
<1>1. CacheTypeOK
    BY DEF Init, CacheInit, CacheTypeOK
<1>2. HandleTypeOK
    BY DEF Init, HandleInit, HandleTypeOK
<1>3. view \in AllViews
    BY DEF Init, AllViews
<1>4. 0 \in 0..MaxChanges
    BY ServiceConstants
<1> QED
    BY <1>1, <1>2, <1>3, <1>4 DEF Init, TypeOK

\* Every action keeps the types; a removal needs to know that the victim is a
\* handle, the delivery of a response that there is one.
LEMMA TypeStep ==
    ASSUME TypeOK, VictimIsHandle, ReplyIsThere, [Next]_vars
    PROVE  TypeOK'
<1> USE ServiceConstants DEF TypeOK, cacheVars, handleVars, threadVars, workVars, sharedVars,
        mapVars, responseVars, pingVars
<1>1. ASSUME NEW m \in Messages, Send(m)
      PROVE  TypeOK'
    <2>1. /\ Append(accepted, m) \in Seq(Messages)
          /\ Dest[m] \in Handles
          /\ Append(new_messages[Dest[m]], m) \in Seq(Messages)
          /\ Append(unhandled_messages[Dest[m]], m) \in Seq(Messages)
        BY DEF CacheTypeOK
    <2>2. CacheTypeOK'
        <3>1. CASE Dest[m] \in handles
            <4>1. /\ new_messages' = [new_messages EXCEPT ![Dest[m]] = Append(@, m)]
                  /\ UNCHANGED sent_messages
                BY <1>1, <3>1 DEF Send, CacheEnqueue
            <4> QED
                BY <2>1, <4>1 DEF CacheTypeOK
        <3>2. CASE Dest[m] \notin handles
            BY <1>1, <3>2 DEF Send, CacheTypeOK
        <3> QED
            BY <3>1, <3>2
    <2>3. HandleTypeOK'
        BY <1>1 DEF Send, HandleTypeOK
    <2>4. unhandled_messages' \in [Handles -> Seq(Messages)]
        <3>1. \/ unhandled_messages' = unhandled_messages
              \/ unhandled_messages' = [unhandled_messages EXCEPT ![Dest[m]] = Append(@, m)]
            BY <1>1 DEF Send
        <3> QED
            <4>1. unhandled_messages \in [Handles -> Seq(Messages)]
                OBVIOUS
            <4> HIDE DEF TypeOK
            <4> QED
                BY <2>1, <3>1, <4>1
    <2> QED
        BY <1>1, <2>1, <2>2, <2>3, <2>4 DEF Send
<1>2. ASSUME NEW h \in Handles, Register(h)
      PROVE  TypeOK'
    BY <1>2 DEF Register, CacheTypeOK, HandleTypeOK
<1>3. ASSUME NEW h \in Handles, HandleStep(h)
      PROVE  TypeOK'
    BY <1>3, ThreadStepType DEF HandleStep, serviceVars
<1>4. ASSUME NEW h \in Handles, EnqueueResponse(h)
      PROVE  TypeOK'
    <2>1. /\ reply[h] \in Responses
          /\ reply[h].msg \in Messages
        BY <1>4 DEF EnqueueResponse, ReplyIsThere, Responses
    <2>2. CacheTypeOK'
        BY <1>4 DEF EnqueueResponse, CacheTypeOK
    <2>3. HandleTypeOK'
        BY <1>4 DEF EnqueueResponse, HandleTypeOK, GoTo
    <2>4. responses' \in [Handles -> Seq(Responses)]
        <3>1. /\ Dest[reply[h].msg] \in Handles
              /\ Append(responses[Dest[reply[h].msg]], reply[h]) \in Seq(Responses)
            BY <2>1
        <3> QED
            <4>1. \/ responses' = responses
                  \/ responses' = [responses EXCEPT ![Dest[reply[h].msg]] = Append(@, reply[h])]
                BY <1>4 DEF EnqueueResponse
            <4> QED
                <5>1. responses \in [Handles -> Seq(Responses)]
                    OBVIOUS
                <5> HIDE DEF TypeOK
                <5> QED
                    BY <3>1, <4>1, <5>1
    <2>5. discarded' \in SUBSET Messages
        BY <1>4, <2>1 DEF EnqueueResponse
    <2> QED
        BY <1>4, <2>2, <2>3, <2>4, <2>5 DEF EnqueueResponse
<1>5. ASSUME DispatchPass
      PROVE  TypeOK'
    <2> DEFINE ready == {h \in callbacks : responses[h] # <<>>}
    <2>1. CacheTypeOK' /\ HandleTypeOK'
        BY <1>5 DEF DispatchPass, CacheTypeOK, HandleTypeOK
    <2>2. \A h \in ready : Head(responses[h]) \in Responses /\ Tail(responses[h]) \in Seq(Responses)
        OBVIOUS
    <2>3. responses' \in [Handles -> Seq(Responses)]
        BY <1>5, <2>2 DEF DispatchPass
    <2>4. \A h \in ready : Head(responses[h]).kind \in Kinds
        BY <2>2 DEF Responses
    <2>5. answers' \in [Messages -> Seq(Kinds)]
        BY <1>5, <2>4 DEF DispatchPass
    <2> QED
        BY <1>5, <2>1, <2>3, <2>5 DEF DispatchPass
<1>6. ASSUME NEW v \in Views, BeginRefresh(v)
      PROVE  TypeOK'
    <2>1. CacheTypeOK' /\ HandleTypeOK'
        BY <1>6 DEF BeginRefresh, CacheTypeOK, HandleTypeOK
    <2>2. v \in AllViews /\ v.hosts \in SUBSET Hosts /\ v.infos \in SUBSET Infos
        BY DEF AllViews
    <2>3. changes' \in 0..MaxChanges
        BY <1>6 DEF BeginRefresh
    <2> QED
        BY <1>6, <2>1, <2>2, <2>3 DEF BeginRefresh, OutstandingHandles, NewInfos
<1>7. ASSUME NEW h \in Handles, RemoveHandle(h)
      PROVE  TypeOK'
    <2>1. Character(CONTROL_MESSAGE_DISCONNECT) \in ControlMessages
        BY DEF ControlMessages
    <2>2. Append(control[h], Character(CONTROL_MESSAGE_DISCONNECT)) \in Seq(ControlMessages)
        BY <2>1 DEF HandleTypeOK
    <2>3. CacheTypeOK'
        BY <1>7 DEF RemoveHandle, CacheTypeOK
    <2>4. HandleTypeOK'
        <3>1. /\ control' = [control EXCEPT
                                ![h] = Append(@, Character(CONTROL_MESSAGE_DISCONNECT))]
              /\ UNCHANGED <<hosts, new_hosts, threadVars, workVars>>
            BY <1>7 DEF RemoveHandle, Disconnect, SendControl
        <3> QED
            BY <2>2, <3>1 DEF HandleTypeOK
    <2> QED
        BY <1>7, <2>3, <2>4 DEF RemoveHandle
<1>8. ASSUME CollectMessages
      PROVE  TypeOK'
    <2>1. victim \in Handles
        BY <1>8 DEF CollectMessages, VictimIsHandle
    <2>2. PICK sent \in Orderings(sent_messages[victim]) :
              /\ new_messages' = [new_messages EXCEPT ![victim] = @ \o sent]
              /\ sent_messages' = [sent_messages EXCEPT ![victim] = {}]
        BY <1>8 DEF CollectMessages, make_all_messages_new
    <2>3. sent \in Seq(Messages)
        BY <2>1, OrderingsAreSequences DEF CacheTypeOK
    <2>4. new_messages[victim] \o sent \in Seq(Messages)
        BY <2>1, <2>3, ConcatProperties DEF CacheTypeOK
    <2>5. CacheTypeOK'
        BY <2>1, <2>2, <2>4 DEF CacheTypeOK
    <2>6. HandleTypeOK'
        BY <1>8 DEF CollectMessages, HandleTypeOK
    <2> QED
        BY <1>8, <2>5, <2>6 DEF CollectMessages
<1>9. ASSUME KillHandle
      PROVE  TypeOK'
    <2>1. victim \in Handles
        BY <1>9 DEF KillHandle, VictimIsHandle
    <2>2. CONTROL_MESSAGE_KILL \in ControlMessages
        BY DEF ControlMessages
    <2>3. CacheTypeOK'
        BY <1>9 DEF KillHandle, CacheTypeOK
    <2>4. HandleTypeOK'
        <3>1. /\ control' = [control EXCEPT ![victim] = Append(@, CONTROL_MESSAGE_KILL)]
              /\ UNCHANGED <<hosts, new_hosts, threadVars, workVars>>
            BY <1>9 DEF KillHandle, Kill, SendControl
        <3>2. Append(control[victim], CONTROL_MESSAGE_KILL) \in Seq(ControlMessages)
            BY <2>1, <2>2 DEF HandleTypeOK
        <3> QED
            BY <2>1, <3>1, <3>2 DEF HandleTypeOK
    <2> QED
        BY <1>9, <2>1, <2>3, <2>4 DEF KillHandle
<1>10. ASSUME JoinHandle
       PROVE  TypeOK'
    <2>1. victim \in Handles
        BY <1>10 DEF JoinHandle, VictimIsHandle
    <2>2. CacheTypeOK'
        BY <1>10, <2>1 DEF JoinHandle, DestroyCache, CacheTypeOK
    <2>3. HandleTypeOK'
        <3>1. /\ thread' = [thread EXCEPT ![victim] = "none"]
              /\ is_connected' = [is_connected EXCEPT ![victim] = FALSE]
              /\ hosts' = [hosts EXCEPT ![victim] = {}]
              /\ new_hosts' = [new_hosts EXCEPT ![victim] = {}]
              /\ UNCHANGED <<control, copied, peers, sending, reply, workVars>>
            BY <1>10 DEF JoinHandle, DestroyHandle, GoTo
        <3> QED
            BY <3>1 DEF HandleTypeOK
    <2>4. Unhandled(victim) \in Seq(Messages)
        BY <2>1 DEF Unhandled, CacheTypeOK
    <2> QED
        BY <1>10, <2>1, <2>2, <2>3, <2>4 DEF JoinHandle
<1>11. ASSUME UpdateHosts
       PROVE  TypeOK'
    <2>1. CacheTypeOK'
        BY <1>11 DEF UpdateHosts, CacheTypeOK
    <2>2. HandleTypeOK'
        <3>1. /\ CONTROL_MESSAGE_RECONNECT \in ControlMessages
              /\ CONTROL_MESSAGE_CONNECT_NEW_HOSTS \in ControlMessages
            BY DEF ControlMessages
        <3>2. \A h \in Handles :
                 /\ Append(control[h], CONTROL_MESSAGE_RECONNECT) \in Seq(ControlMessages)
                 /\ Append(control[h], CONTROL_MESSAGE_CONNECT_NEW_HOSTS) \in Seq(ControlMessages)
            BY <3>1 DEF HandleTypeOK
        <3>3. CASE dropped # {}
            <4>1. control' \in [Handles -> Seq(ControlMessages)]
                <5>1. control' = [h \in Handles |-> IF h \in handles /\ service_hosts # {}
                                                    THEN Append(control[h], CONTROL_MESSAGE_RECONNECT)
                                                    ELSE control[h]]
                    BY <1>11, <3>3 DEF UpdateHosts, ReconnectAll
                <5>2. \A h \in Handles : control[h] \in Seq(ControlMessages)
                    BY DEF HandleTypeOK
                <5> QED
                    BY <3>2, <5>1, <5>2
            <4>2. hosts' \in [Handles -> SUBSET Hosts]
                <5>1. hosts' = [h \in Handles |-> IF h \in handles /\ service_hosts # {}
                                                  THEN service_hosts ELSE hosts[h]]
                    BY <1>11, <3>3 DEF UpdateHosts, ReconnectAll
                <5>2. \A h \in Handles : hosts[h] \in SUBSET Hosts
                    BY DEF HandleTypeOK
                <5> QED
                    BY <5>1, <5>2
            <4>3. UNCHANGED <<new_hosts, threadVars, workVars>>
                BY <1>11, <3>3 DEF UpdateHosts, ReconnectAll
            <4> QED
                BY <4>1, <4>2, <4>3 DEF HandleTypeOK
        <3>4. CASE dropped = {} /\ added # {}
            <4>1. control' \in [Handles -> Seq(ControlMessages)]
                <5>1. control' = [h \in Handles |-> IF h \in handles
                                                    THEN Append(control[h], CONTROL_MESSAGE_CONNECT_NEW_HOSTS)
                                                    ELSE control[h]]
                    BY <1>11, <3>4 DEF UpdateHosts, ConnectAllToNewHosts
                <5>2. \A h \in Handles : control[h] \in Seq(ControlMessages)
                    BY DEF HandleTypeOK
                <5> QED
                    BY <3>2, <5>1, <5>2
            <4>2. new_hosts' \in [Handles -> SUBSET Hosts]
                <5>1. new_hosts' = [h \in Handles |-> IF h \in handles THEN new_hosts[h] \union added
                                                                      ELSE new_hosts[h]]
                    BY <1>11, <3>4 DEF UpdateHosts, ConnectAllToNewHosts
                <5>2. \A h \in Handles : new_hosts[h] \in SUBSET Hosts
                    BY DEF HandleTypeOK
                <5>3. added \in SUBSET Hosts
                    OBVIOUS
                <5> QED
                    BY <5>1, <5>2, <5>3
            <4>3. UNCHANGED <<hosts, threadVars, workVars>>
                BY <1>11, <3>4 DEF UpdateHosts, ConnectAllToNewHosts
            <4> QED
                BY <4>1, <4>2, <4>3 DEF HandleTypeOK
        <3>5. CASE dropped = {} /\ added = {}
            BY <1>11, <3>5 DEF UpdateHosts, HandleTypeOK
        <3> QED
            BY <3>3, <3>4, <3>5
    <2> QED
        BY <1>11, <2>1, <2>2 DEF UpdateHosts, AfterHosts
<1>12. ASSUME NEW i \in Infos, CreateHandle(i)
       PROVE  TypeOK'
    <2>1. i.name \in Handles /\ i.port \in Ports
        BY DEF Infos
    <2>2. new_messages[i.name] \o unhandled_messages[i.name] \in Seq(Messages)
        BY <2>1, ConcatProperties DEF CacheTypeOK
    <2>3. CacheTypeOK'
        BY <1>12, <2>1, <2>2 DEF CreateHandle, append_message_queue, CacheTypeOK
    <2>4. HandleTypeOK'
        BY <1>12, <2>1 DEF CreateHandle, ConstructHandle, GoTo, HandleTypeOK
    <2> QED
        BY <1>12, <2>1, <2>3, <2>4 DEF CreateHandle
<1>13. ASSUME NEW i \in Infos, CreateFails(i)
       PROVE  TypeOK'
    BY <1>13 DEF CreateFails, CacheTypeOK, HandleTypeOK
<1>14. ASSUME ConnectHandle
       PROVE  TypeOK'
    <2>1. CONTROL_MESSAGE_CONNECT \in ControlMessages
        BY DEF ControlMessages
    <2>2. CacheTypeOK'
        BY <1>14 DEF ConnectHandle, CacheTypeOK
    <2>3. \A h \in Handles : Append(control[h], CONTROL_MESSAGE_CONNECT) \in Seq(ControlMessages)
        BY <2>1 DEF HandleTypeOK
    <2>4. HandleTypeOK'
        <3>1. CASE is_connected[connecting] \/ service_hosts = {}
            BY <1>14, <3>1 DEF ConnectHandle, Connect, HandleTypeOK
        <3>2. CASE ~(is_connected[connecting] \/ service_hosts = {})
            <4>1. /\ hosts' = [hosts EXCEPT ![connecting] = service_hosts]
                  /\ control' = [control EXCEPT ![connecting] = Append(@, CONTROL_MESSAGE_CONNECT)]
                  /\ UNCHANGED <<new_hosts, threadVars, workVars>>
                BY <1>14, <3>2 DEF ConnectHandle, Connect, SendControl
            <4>2. control' \in [Handles -> Seq(ControlMessages)]
                BY <2>3, <4>1 DEF HandleTypeOK
            <4>3. hosts' \in [Handles -> SUBSET Hosts]
                BY <4>1 DEF HandleTypeOK
            <4> QED
                BY <4>1, <4>2, <4>3 DEF HandleTypeOK
        <3> QED
            BY <3>1, <3>2
    <2> QED
        BY <1>14, <2>2, <2>4 DEF ConnectHandle, AfterHosts
<1>15. ASSUME NEW h \in Handles, NEW m \in Messages, WorkersStep(h, m)
       PROVE  TypeOK'
    BY <1>15, WorkerStepType DEF WorkersStep, serviceVars
<1>16. ASSUME UNCHANGED vars
       PROVE  TypeOK'
    BY <1>16 DEF vars, serviceVars, CacheTypeOK, HandleTypeOK
<1> QED
    BY <1>1, <1>2, <1>3, <1>4, <1>5, <1>6, <1>7, <1>8, <1>9, <1>10, <1>11, <1>12, <1>13,
       <1>14, <1>15, <1>16 DEF Next, Refresh

-----------------------------------------------------------------------------
(* The parts of the inductive invariant *)

\* The victim of a removal stays in the map until it is joined, and is removed once.
LEMMA VictimStep ==
    ASSUME TypeOK, VictimIsHandle, [Next]_vars
    PROVE  VictimIsHandle'
<1> USE DEF VictimIsHandle, mapVars, pingVars
<1>1. ASSUME NEW m \in Messages, Send(m)
      PROVE  VictimIsHandle'
    BY <1>1 DEF Send
<1>2. ASSUME NEW h \in Handles, Register(h)
      PROVE  VictimIsHandle'
    BY <1>2 DEF Register
<1>3. ASSUME NEW h \in Handles, HandleStep(h)
      PROVE  VictimIsHandle'
    BY <1>3 DEF HandleStep, serviceVars
<1>4. ASSUME NEW h \in Handles, EnqueueResponse(h)
      PROVE  VictimIsHandle'
    BY <1>4 DEF EnqueueResponse
<1>5. ASSUME DispatchPass
      PROVE  VictimIsHandle'
    BY <1>5 DEF DispatchPass
<1>6. ASSUME NEW v \in Views, BeginRefresh(v)
      PROVE  VictimIsHandle'
    BY <1>6 DEF BeginRefresh, OutstandingHandles
<1>7. ASSUME NEW h \in Handles, RemoveHandle(h)
      PROVE  VictimIsHandle'
    BY <1>7 DEF RemoveHandle
<1>8. ASSUME CollectMessages
      PROVE  VictimIsHandle'
    BY <1>8 DEF CollectMessages
<1>9. ASSUME KillHandle
      PROVE  VictimIsHandle'
    BY <1>9 DEF KillHandle
<1>10. ASSUME JoinHandle
       PROVE  VictimIsHandle'
    BY <1>10 DEF JoinHandle
<1>11. ASSUME UpdateHosts
       PROVE  VictimIsHandle'
    BY <1>11 DEF UpdateHosts, AfterHosts
<1>12. ASSUME NEW i \in Infos, CreateHandle(i)
       PROVE  VictimIsHandle'
    BY <1>12 DEF CreateHandle
<1>13. ASSUME NEW i \in Infos, CreateFails(i)
       PROVE  VictimIsHandle'
    BY <1>13 DEF CreateFails
<1>14. ASSUME ConnectHandle
       PROVE  VictimIsHandle'
    BY <1>14 DEF ConnectHandle, AfterHosts
<1>15. ASSUME NEW h \in Handles, NEW m \in Messages, WorkersStep(h, m)
       PROVE  VictimIsHandle'
    BY <1>15 DEF WorkersStep, serviceVars
<1>16. ASSUME UNCHANGED vars
       PROVE  VictimIsHandle'
    BY <1>16 DEF vars, serviceVars
<1> QED
    BY <1>1, <1>2, <1>3, <1>4, <1>5, <1>6, <1>7, <1>8, <1>9, <1>10, <1>11, <1>12, <1>13,
       <1>14, <1>15, <1>16 DEF Next, Refresh

\* send_message and create_new_handles keep a handle and an unhandled queue of
\* the same name apart; the deque stored by a removal is shared until the join.
LEMMA QueueBesideStep ==
    ASSUME TypeOK, VictimIsHandle, NoQueueBesideHandle, [Next]_vars
    PROVE  NoQueueBesideHandle'
<1> USE DEF NoQueueBesideHandle, mapVars, pingVars
<1>1. ASSUME NEW m \in Messages, Send(m)
      PROVE  NoQueueBesideHandle'
    <2>1. handles \subseteq Handles /\ unhandled_messages \in [Handles -> Seq(Messages)]
        BY DEF TypeOK
    <2>2. \A h \in handles : unhandled_messages'[h] = unhandled_messages[h]
        BY <1>1, <2>1 DEF Send
    <2> QED
        BY <1>1, <2>2 DEF Send
<1>2. ASSUME NEW h \in Handles, Register(h)
      PROVE  NoQueueBesideHandle'
    BY <1>2 DEF Register
<1>3. ASSUME NEW h \in Handles, HandleStep(h)
      PROVE  NoQueueBesideHandle'
    BY <1>3 DEF HandleStep, serviceVars
<1>4. ASSUME NEW h \in Handles, EnqueueResponse(h)
      PROVE  NoQueueBesideHandle'
    BY <1>4 DEF EnqueueResponse
<1>5. ASSUME DispatchPass
      PROVE  NoQueueBesideHandle'
    BY <1>5 DEF DispatchPass
<1>6. ASSUME NEW v \in Views, BeginRefresh(v)
      PROVE  NoQueueBesideHandle'
    <2>1. shared_queue = {}
        BY <1>6 DEF BeginRefresh
    <2> QED
        BY <1>6, <2>1 DEF BeginRefresh
<1>7. ASSUME NEW h \in Handles, RemoveHandle(h)
      PROVE  NoQueueBesideHandle'
    BY <1>7 DEF RemoveHandle
<1>8. ASSUME CollectMessages
      PROVE  NoQueueBesideHandle'
    BY <1>8 DEF CollectMessages
<1>9. ASSUME KillHandle
      PROVE  NoQueueBesideHandle'
    <2>1. shared_queue' \subseteq {victim}
        BY <1>9 DEF KillHandle
    <2> QED
        BY <1>9, <2>1 DEF KillHandle
<1>10. ASSUME JoinHandle
       PROVE  NoQueueBesideHandle'
    <2>1. shared_queue' = {}
        BY <1>10 DEF JoinHandle
    <2>2. \A h \in handles' : unhandled_messages'[h] = <<>>
        BY <1>10 DEF JoinHandle
    <2> QED
        BY <2>1, <2>2
<1>11. ASSUME UpdateHosts
       PROVE  NoQueueBesideHandle'
    BY <1>11 DEF UpdateHosts
<1>12. ASSUME NEW i \in Infos, CreateHandle(i)
       PROVE  NoQueueBesideHandle'
    <2>1. handles \subseteq Handles /\ unhandled_messages \in [Handles -> Seq(Messages)]
        BY DEF TypeOK
    <2>2. i.name \in Handles
        BY DEF Infos
    <2>3. \A h \in handles' : unhandled_messages'[h] = <<>>
        BY <1>12, <2>1, <2>2 DEF CreateHandle
    <2> QED
        BY <1>12, <2>3 DEF CreateHandle
<1>13. ASSUME NEW i \in Infos, CreateFails(i)
       PROVE  NoQueueBesideHandle'
    BY <1>13 DEF CreateFails
<1>14. ASSUME ConnectHandle
       PROVE  NoQueueBesideHandle'
    BY <1>14 DEF ConnectHandle
<1>15. ASSUME NEW h \in Handles, NEW m \in Messages, WorkersStep(h, m)
       PROVE  NoQueueBesideHandle'
    BY <1>15 DEF WorkersStep, serviceVars
<1>16. ASSUME UNCHANGED vars
       PROVE  NoQueueBesideHandle'
    BY <1>16 DEF vars, serviceVars
<1> QED
    BY <1>1, <1>2, <1>3, <1>4, <1>5, <1>6, <1>7, <1>8, <1>9, <1>10, <1>11, <1>12, <1>13,
       <1>14, <1>15, <1>16 DEF Next, Refresh

\* A thread works only for a handle of the map, and a handle leaves the map with
\* its thread and its cache.
LEMMA NoCacheStep ==
    ASSUME TypeOK, VictimIsHandle, NoHandleNoCache, [Next]_vars
    PROVE  NoHandleNoCache'
<1> USE DEF NoHandleNoCache, mapVars, cacheVars, handleVars, threadVars, workVars, sharedVars
<1>1. ASSUME NEW m \in Messages, Send(m)
      PROVE  NoHandleNoCache'
    <2>1. \A h \in Handles : h # Dest[m] => new_messages'[h] = new_messages[h]
        BY <1>1 DEF Send, CacheEnqueue, TypeOK, CacheTypeOK
    <2>2. Dest[m] \notin handles => new_messages' = new_messages
        BY <1>1 DEF Send
    <2>3. UNCHANGED <<handles, thread, sent_messages>>
        BY <1>1 DEF Send, CacheEnqueue
    <2> QED
        BY <2>1, <2>2, <2>3
<1>2. ASSUME NEW h \in Handles, Register(h)
      PROVE  NoHandleNoCache'
    BY <1>2 DEF Register
<1>3. ASSUME NEW h \in Handles, HandleStep(h)
      PROVE  NoHandleNoCache'
    <2>1. thread[h] # "none" /\ handles' = handles
        BY <1>3 DEF HandleStep, ThreadStep, serviceVars, ReceiveNothing, ReceiveControl, CopyNewHosts,
           ClearNewHosts, ReceiveKill, CountNewMessages, TransmitMessage, MoveMessage, NoResponse,
           ReceiveResponse, ApplyRefusal, ApplyFinal
    <2>2. \A g \in Handles : g # h => /\ thread'[g] = thread[g]
                                      /\ new_messages'[g] = new_messages[g]
                                      /\ sent_messages'[g] = sent_messages[g]
        BY <1>3, ThreadStepOfOne DEF HandleStep, TypeOK
    <2> QED
        BY <2>1, <2>2
<1>4. ASSUME NEW h \in Handles, EnqueueResponse(h)
      PROVE  NoHandleNoCache'
    <2>1. h \in handles
        BY <1>4 DEF EnqueueResponse
    <2> QED
        BY <1>4, <2>1 DEF EnqueueResponse, GoTo, HandleTypeOK, TypeOK
<1>5. ASSUME DispatchPass
      PROVE  NoHandleNoCache'
    BY <1>5 DEF DispatchPass
<1>6. ASSUME NEW v \in Views, BeginRefresh(v)
      PROVE  NoHandleNoCache'
    BY <1>6 DEF BeginRefresh
<1>7. ASSUME NEW h \in Handles, RemoveHandle(h)
      PROVE  NoHandleNoCache'
    BY <1>7 DEF RemoveHandle, Disconnect
<1>8. ASSUME CollectMessages
      PROVE  NoHandleNoCache'
    <2>1. victim \in handles
        BY <1>8 DEF CollectMessages, VictimIsHandle
    <2> QED
        BY <1>8, <2>1 DEF CollectMessages, make_all_messages_new
<1>9. ASSUME KillHandle
      PROVE  NoHandleNoCache'
    BY <1>9 DEF KillHandle, Kill
<1>10. ASSUME JoinHandle
       PROVE  NoHandleNoCache'
    <2>1. victim \in Handles
        BY <1>10 DEF JoinHandle, VictimIsHandle, TypeOK
    <2> QED
        BY <1>10, <2>1 DEF JoinHandle, DestroyHandle, DestroyCache, GoTo, TypeOK, CacheTypeOK,
           HandleTypeOK
<1>11. ASSUME UpdateHosts
       PROVE  NoHandleNoCache'
    BY <1>11 DEF UpdateHosts, ReconnectAll, ConnectAllToNewHosts
<1>12. ASSUME NEW i \in Infos, CreateHandle(i)
       PROVE  NoHandleNoCache'
    <2>1. \A h \in Handles : h # i.name => /\ thread'[h] = thread[h]
                                           /\ new_messages'[h] = new_messages[h]
        BY <1>12 DEF CreateHandle, ConstructHandle, append_message_queue, GoTo, TypeOK,
           CacheTypeOK, HandleTypeOK
    <2>2. /\ handles' = handles \union {i.name}
          /\ UNCHANGED sent_messages
        BY <1>12 DEF CreateHandle, append_message_queue
    <2> QED
        BY <2>1, <2>2
<1>13. ASSUME NEW i \in Infos, CreateFails(i)
       PROVE  NoHandleNoCache'
    BY <1>13 DEF CreateFails
<1>14. ASSUME ConnectHandle
       PROVE  NoHandleNoCache'
    BY <1>14 DEF ConnectHandle, Connect
<1>15. ASSUME NEW h \in Handles, NEW m \in Messages, WorkersStep(h, m)
       PROVE  NoHandleNoCache'
    BY <1>15 DEF WorkersStep, WorkerStep, WorkerChunk, WorkerFinal, WorkerRefuses, HostLost, serviceVars
<1>16. ASSUME UNCHANGED vars
       PROVE  NoHandleNoCache'
    BY <1>16 DEF vars, serviceVars
<1> QED
    BY <1>1, <1>2, <1>3, <1>4, <1>5, <1>6, <1>7, <1>8, <1>9, <1>10, <1>11, <1>12, <1>13,
       <1>14, <1>15, <1>16 DEF Next, Refresh

\* The thread goes to apply or hand over a response only with one in its hands.
LEMMA ReplyStep ==
    ASSUME TypeOK, ReplyIsThere, [Next]_vars
    PROVE  ReplyIsThere'
<1> USE DEF ReplyIsThere, mapVars, cacheVars, handleVars, threadVars, workVars, sharedVars
<1>1. ASSUME NEW m \in Messages, Send(m)
      PROVE  ReplyIsThere'
    BY <1>1 DEF Send
<1>2. ASSUME NEW h \in Handles, Register(h)
      PROVE  ReplyIsThere'
    BY <1>2 DEF Register
<1>3. ASSUME NEW h \in Handles, HandleStep(h)
      PROVE  ReplyIsThere'
    <2>1. CacheTypeOK /\ HandleTypeOK /\ ThreadStep(h)
        BY <1>3 DEF HandleStep, TypeOK
    <2>2. \A g \in Handles : g # h => thread'[g] = thread[g] /\ reply'[g] = reply[g]
        BY <2>1, ThreadStepOfOne
    <2>3. thread'[h] \in {"apply", "enqueue"} => reply'[h] \in Responses
        <3>1. CASE ReceiveResponse(h)
            <4>1. Head(inbox[h]) \in Responses
                BY <2>1, <3>1 DEF ReceiveResponse, HandleTypeOK
            <4> QED
                BY <2>1, <3>1, <4>1 DEF ReceiveResponse, HandleTypeOK, GoTo
        <3>2. CASE ApplyFinal(h)
            BY <2>1, <3>2 DEF ApplyFinal
        <3>3. CASE ~ReceiveResponse(h) /\ ~ApplyFinal(h)
            BY <2>1, <3>3 DEF ThreadStep, ReceiveNothing, ReceiveControl, CopyNewHosts, ClearNewHosts,
               ReceiveKill, CountNewMessages, TransmitMessage, MoveMessage, NoResponse, ApplyRefusal,
               HandleTypeOK, GoTo
        <3> QED
            BY <3>1, <3>2, <3>3
    <2> QED
        BY <2>2, <2>3
<1>4. ASSUME NEW h \in Handles, EnqueueResponse(h)
      PROVE  ReplyIsThere'
    <2>1. /\ thread' = [thread EXCEPT ![h] = "receive"]
          /\ reply' = [reply EXCEPT ![h] = None]
        BY <1>4 DEF EnqueueResponse, GoTo
    <2> QED
        BY <2>1 DEF TypeOK, HandleTypeOK
<1>5. ASSUME DispatchPass
      PROVE  ReplyIsThere'
    BY <1>5 DEF DispatchPass
<1>6. ASSUME NEW v \in Views, BeginRefresh(v)
      PROVE  ReplyIsThere'
    BY <1>6 DEF BeginRefresh
<1>7. ASSUME NEW h \in Handles, RemoveHandle(h)
      PROVE  ReplyIsThere'
    BY <1>7 DEF RemoveHandle, Disconnect
<1>8. ASSUME CollectMessages
      PROVE  ReplyIsThere'
    BY <1>8 DEF CollectMessages
<1>9. ASSUME KillHandle
      PROVE  ReplyIsThere'
    BY <1>9 DEF KillHandle, Kill
<1>10. ASSUME JoinHandle
       PROVE  ReplyIsThere'
    <2>1. thread' = [thread EXCEPT ![victim] = "none"] /\ reply' = reply
        BY <1>10 DEF JoinHandle, DestroyHandle, GoTo
    <2> QED
        BY <2>1 DEF TypeOK, HandleTypeOK
<1>11. ASSUME UpdateHosts
       PROVE  ReplyIsThere'
    BY <1>11 DEF UpdateHosts, ReconnectAll, ConnectAllToNewHosts
<1>12. ASSUME NEW i \in Infos, CreateHandle(i)
       PROVE  ReplyIsThere'
    <2>1. thread' = [thread EXCEPT ![i.name] = "control"] /\ reply' = reply
        BY <1>12 DEF CreateHandle, ConstructHandle, GoTo
    <2> QED
        BY <2>1 DEF TypeOK, HandleTypeOK
<1>13. ASSUME NEW i \in Infos, CreateFails(i)
       PROVE  ReplyIsThere'
    BY <1>13 DEF CreateFails
<1>14. ASSUME ConnectHandle
       PROVE  ReplyIsThere'
    BY <1>14 DEF ConnectHandle, Connect
<1>15. ASSUME NEW h \in Handles, NEW m \in Messages, WorkersStep(h, m)
       PROVE  ReplyIsThere'
    BY <1>15 DEF WorkersStep, WorkerStep, WorkerChunk, WorkerFinal, WorkerRefuses, HostLost, serviceVars
<1>16. ASSUME UNCHANGED vars
       PROVE  ReplyIsThere'
    BY <1>16 DEF vars, serviceVars
<1> QED
    BY <1>1, <1>2, <1>3, <1>4, <1>5, <1>6, <1>7, <1>8, <1>9, <1>10, <1>11, <1>12, <1>13,
       <1>14, <1>15, <1>16 DEF Next, Refresh

\* Whatever the other threads do to the queue while the thread sends, its front
\* stays: they append at the back, and only the thread itself pushes in front.
LEMMA SendsStep ==
    ASSUME TypeOK, VictimIsHandle, SendsWhatItMoves, [Next]_vars
    PROVE  SendsWhatItMoves'
<1> USE DEF SendsWhatItMoves, mapVars, cacheVars, handleVars, threadVars, workVars, sharedVars
<1>1. ASSUME NEW m \in Messages, Send(m)
      PROVE  SendsWhatItMoves'
    <2>1. thread' = thread /\ sending' = sending
        BY <1>1 DEF Send
    <2>2. CASE Dest[m] \in handles
        <3>1. new_messages' = [new_messages EXCEPT ![Dest[m]] = Append(@, m)]
            BY <1>1, <2>2 DEF Send, CacheEnqueue
        <3>2. \A q \in Seq(Messages) :
                  /\ Append(q, m) # <<>>
                  /\ q # <<>> => Head(Append(q, m)) = Head(q)
            OBVIOUS
        <3> QED
            BY <2>1, <2>2, <3>1, <3>2 DEF TypeOK, CacheTypeOK
    <2>3. CASE Dest[m] \notin handles
        BY <1>1, <2>1, <2>3 DEF Send
    <2> QED
        BY <2>2, <2>3
<1>2. ASSUME NEW h \in Handles, Register(h)
      PROVE  SendsWhatItMoves'
    BY <1>2 DEF Register
<1>3. ASSUME NEW h \in Handles, HandleStep(h)
      PROVE  SendsWhatItMoves'
    <2>1. CacheTypeOK /\ HandleTypeOK /\ ThreadStep(h)
        BY <1>3 DEF HandleStep, TypeOK
    <2>2. \A g \in Handles : g # h => /\ thread'[g] = thread[g]
                                      /\ new_messages'[g] = new_messages[g]
                                      /\ sending'[g] = sending[g]
        BY <2>1, ThreadStepOfOne
    <2>3. /\ thread'[h] = "transmit" => new_messages'[h] # <<>>
          /\ thread'[h] = "move" => /\ new_messages'[h] # <<>>
                                   /\ sending'[h] = Head(new_messages'[h])
        <3>1. CASE CountNewMessages(h)
            BY <2>1, <3>1 DEF CountNewMessages, HandleTypeOK, GoTo
        <3>2. CASE TransmitMessage(h)
            BY <2>1, <3>2 DEF TransmitMessage, HandleTypeOK, GoTo
        <3>3. CASE ~CountNewMessages(h) /\ ~TransmitMessage(h)
            BY <2>1, <3>3 DEF ThreadStep, ReceiveNothing, ReceiveControl, CopyNewHosts, ClearNewHosts,
               ReceiveKill, MoveMessage, NoResponse, ReceiveResponse, ApplyRefusal, ApplyFinal,
               HandleTypeOK, GoTo
        <3> QED
            BY <3>1, <3>2, <3>3
    <2> QED
        BY <2>2, <2>3
<1>4. ASSUME NEW h \in Handles, EnqueueResponse(h)
      PROVE  SendsWhatItMoves'
    <2>1. /\ thread' = [thread EXCEPT ![h] = "receive"]
          /\ UNCHANGED <<new_messages, sending>>
        BY <1>4 DEF EnqueueResponse, GoTo
    <2> QED
        BY <2>1 DEF TypeOK, HandleTypeOK
<1>5. ASSUME DispatchPass
      PROVE  SendsWhatItMoves'
    BY <1>5 DEF DispatchPass
<1>6. ASSUME NEW v \in Views, BeginRefresh(v)
      PROVE  SendsWhatItMoves'
    BY <1>6 DEF BeginRefresh
<1>7. ASSUME NEW h \in Handles, RemoveHandle(h)
      PROVE  SendsWhatItMoves'
    BY <1>7 DEF RemoveHandle, Disconnect
<1>8. ASSUME CollectMessages
      PROVE  SendsWhatItMoves'
    <2>1. victim \in Handles
        BY <1>8 DEF CollectMessages, VictimIsHandle, TypeOK
    <2>2. PICK sent \in Orderings(sent_messages[victim]) :
              new_messages' = [new_messages EXCEPT ![victim] = @ \o sent]
        BY <1>8 DEF CollectMessages, make_all_messages_new
    <2>3. sent \in Seq(Messages)
        BY <2>1, OrderingsAreSequences DEF TypeOK, CacheTypeOK
    <2>4. \A q \in Seq(Messages) :
              q # <<>> => q \o sent # <<>> /\ Head(q \o sent) = Head(q)
        BY <2>3
    <2>5. UNCHANGED <<thread, sending>>
        BY <1>8 DEF CollectMessages
    <2> QED
        BY <2>1, <2>2, <2>4, <2>5 DEF TypeOK, CacheTypeOK
<1>9. ASSUME KillHandle
      PROVE  SendsWhatItMoves'
    BY <1>9 DEF KillHandle, Kill
<1>10. ASSUME JoinHandle
       PROVE  SendsWhatItMoves'
    <2>1. /\ thread' = [thread EXCEPT ![victim] = "none"]
          /\ new_messages' = [new_messages EXCEPT ![victim] = <<>>]
          /\ sending' = sending
        BY <1>10 DEF JoinHandle, DestroyHandle, DestroyCache, GoTo
    <2> QED
        BY <2>1 DEF TypeOK, CacheTypeOK, HandleTypeOK
<1>11. ASSUME UpdateHosts
       PROVE  SendsWhatItMoves'
    BY <1>11 DEF UpdateHosts, ReconnectAll, ConnectAllToNewHosts
<1>12. ASSUME NEW i \in Infos, CreateHandle(i)
       PROVE  SendsWhatItMoves'
    <2>1. /\ thread' = [thread EXCEPT ![i.name] = "control"]
          /\ \A h \in Handles : h # i.name => new_messages'[h] = new_messages[h]
          /\ sending' = sending
        BY <1>12 DEF CreateHandle, ConstructHandle, append_message_queue, GoTo, TypeOK, CacheTypeOK
    <2> QED
        BY <2>1 DEF TypeOK, HandleTypeOK
<1>13. ASSUME NEW i \in Infos, CreateFails(i)
       PROVE  SendsWhatItMoves'
    BY <1>13 DEF CreateFails
<1>14. ASSUME ConnectHandle
       PROVE  SendsWhatItMoves'
    BY <1>14 DEF ConnectHandle, Connect
<1>15. ASSUME NEW h \in Handles, NEW m \in Messages, WorkersStep(h, m)
       PROVE  SendsWhatItMoves'
    BY <1>15 DEF WorkersStep, WorkerStep, WorkerChunk, WorkerFinal, WorkerRefuses, HostLost, serviceVars
<1>16. ASSUME UNCHANGED vars
       PROVE  SendsWhatItMoves'
    BY <1>16 DEF vars, serviceVars
<1> QED
    BY <1>1, <1>2, <1>3, <1>4, <1>5, <1>6, <1>7, <1>8, <1>9, <1>10, <1>11, <1>12, <1>13,
       <1>14, <1>15, <1>16 DEF Next, Refresh

\* What can be at the front or in the rest of a queue after a thread's step.
LEMMA RangeOfTail ==
    ASSUME NEW q \in Seq(Messages), q # <<>>
    PROVE  /\ Range(Tail(q)) \subseteq Range(q)
           /\ Head(q) \in Range(q)
<1>1. \A i \in DOMAIN Tail(q) : i + 1 \in DOMAIN q /\ Tail(q)[i] = q[i + 1]
    OBVIOUS
<1>2. 1 \in DOMAIN q /\ Head(q) = q[1]
    OBVIOUS
<1> QED
    BY <1>1, <1>2 DEF Range

LEMMA RangeOfPushFront ==
    ASSUME NEW q \in Seq(Messages), NEW m \in Messages
    PROVE  Range(<<m>> \o q) = {m} \union Range(q)
<1>1. <<m>> \in Seq(Messages)
    OBVIOUS
<1>2. Range(<<m>>) = {m}
    BY DEF Range
<1>3. Range(<<m>> \o q) = Range(<<m>>) \union Range(q)
    BY <1>1, RangeConcatenation, ZenonT(60)
<1> QED
    BY <1>2, <1>3

\* A message gets among the sent ones from the front of the queue, and it is the
\* one the thread just sent.
LEMMA TransmittedStep ==
    ASSUME TypeOK, VictimIsHandle, SendsWhatItMoves, SentWasTransmitted, [Next]_vars
    PROVE  SentWasTransmitted'
<1> USE DEF SentWasTransmitted, mapVars, pingVars, cacheVars, handleVars, threadVars, workVars, sharedVars
<1>1. ASSUME NEW m \in Messages, Send(m)
      PROVE  SentWasTransmitted'
    <2>1. UNCHANGED <<thread, sending, sent_messages, transmitted, ping>>
        BY <1>1 DEF Send, CacheEnqueue
    <2>2. ping # "join"
        BY <1>1 DEF Send, Locked
    <2> QED
        BY <2>1, <2>2
<1>2. ASSUME NEW h \in Handles, Register(h)
      PROVE  SentWasTransmitted'
    BY <1>2 DEF Register
<1>3. ASSUME NEW h \in Handles, HandleStep(h)
      PROVE  SentWasTransmitted'
    <2>1. /\ CacheTypeOK /\ HandleTypeOK /\ ThreadStep(h)
          /\ UNCHANGED <<ping, victim, shared_queue>>
        BY <1>3 DEF HandleStep, TypeOK, serviceVars
    <2>2. \A g \in Handles : g # h => /\ thread'[g] = thread[g]
                                      /\ new_messages'[g] = new_messages[g]
                                      /\ sent_messages'[g] = sent_messages[g]
                                      /\ sending'[g] = sending[g]
        BY <2>1, ThreadStepOfOne
    <2>3. transmitted \subseteq transmitted'
        BY <2>1 DEF ThreadStep, ReceiveNothing, ReceiveControl, CopyNewHosts, ClearNewHosts, ReceiveKill,
           OpenSocket, CountNewMessages, TransmitMessage, MoveMessage, NoResponse, ReceiveResponse,
           ApplyRefusal, ApplyFinal
    <2>4. /\ sent_messages'[h] \subseteq transmitted'
          /\ thread'[h] = "move" => sending'[h] \in transmitted'
          /\ Range(new_messages'[h]) \subseteq Range(new_messages[h]) \union sent_messages[h]
        <3>1. CASE TransmitMessage(h)
            <4>1. /\ UNCHANGED <<new_messages, sent_messages>>
                  /\ sending'[h] = Head(new_messages[h])
                  /\ Head(new_messages[h]) \in transmitted'
                BY <2>1, <3>1 DEF TransmitMessage, HandleTypeOK
            <4> QED
                BY <2>3, <4>1
        <3>2. CASE MoveMessage(h)
            <4>1. /\ sent_messages'[h] = sent_messages[h] \union {sending[h]}
                  /\ new_messages'[h] = Tail(new_messages[h])
                  /\ sending[h] \in transmitted
                  /\ thread'[h] = "receive"
                BY <2>1, <3>2 DEF MoveMessage, move_new_message_to_sent, SendsWhatItMoves, GoTo,
                   CacheTypeOK, HandleTypeOK
            <4>2. new_messages[h] \in Seq(Messages) /\ new_messages[h] # <<>>
                BY <2>1, <3>2 DEF MoveMessage, move_new_message_to_sent, CacheTypeOK
            <4>3. Range(Tail(new_messages[h])) \subseteq Range(new_messages[h])
                BY <4>2, RangeOfTail
            <4> QED
                BY <2>3, <4>1, <4>3
        <3>3. CASE ApplyRefusal(h)
            <4>1. thread'[h] = "receive"
                BY <2>1, <3>3 DEF ApplyRefusal, HandleTypeOK, GoTo
            <4>2. CASE reply[h].msg \in sent_messages[h]
                <5>1. /\ reply[h].msg \in Messages
                      /\ new_messages[h] \in Seq(Messages)
                    BY <2>1, <4>2 DEF CacheTypeOK
                <5>2. /\ sent_messages'[h] = sent_messages[h] \ {reply[h].msg}
                      /\ new_messages'[h] = <<reply[h].msg>> \o new_messages[h]
                    BY <2>1, <3>3, <4>2 DEF ApplyRefusal, move_sent_message_to_new_front, CacheTypeOK
                <5>3. Range(new_messages'[h]) = {reply[h].msg} \union Range(new_messages[h])
                    BY <5>1, <5>2, RangeOfPushFront
                <5> QED
                    BY <2>3, <4>1, <4>2, <5>2, <5>3
            <4>3. CASE reply[h].msg \notin sent_messages[h]
                <5>1. UNCHANGED <<new_messages, sent_messages>>
                    BY <3>3, <4>3 DEF ApplyRefusal, move_sent_message_to_new_front
                <5> QED
                    BY <2>3, <4>1, <5>1
            <4> QED
                BY <4>2, <4>3
        <3>4. CASE ApplyFinal(h)
            <4>1. /\ sent_messages'[h] = sent_messages[h] \ {reply[h].msg}
                  /\ new_messages' = new_messages
                  /\ thread'[h] = "enqueue"
                BY <2>1, <3>4 DEF ApplyFinal, remove_message_from_cache, CacheTypeOK, HandleTypeOK, GoTo
            <4> QED
                BY <2>3, <4>1
        <3>5. CASE ~(TransmitMessage(h) \/ MoveMessage(h) \/ ApplyRefusal(h) \/ ApplyFinal(h))
            <4>1. UNCHANGED <<new_messages, sent_messages>> /\ thread'[h] # "move"
                BY <2>1, <3>5 DEF ThreadStep, ReceiveNothing, ReceiveControl, CopyNewHosts, ClearNewHosts,
                   ReceiveKill, CountNewMessages, NoResponse, ReceiveResponse, HandleTypeOK, GoTo
            <4> QED
                BY <2>3, <4>1
        <3> QED
            BY <3>1, <3>2, <3>3, <3>4, <3>5
    <2>5. ping = "join" => victim \in Handles
        BY DEF VictimIsHandle, TypeOK
    <2> QED
        BY <2>1, <2>2, <2>3, <2>4, <2>5
<1>4. ASSUME NEW h \in Handles, EnqueueResponse(h)
      PROVE  SentWasTransmitted'
    <2>1. /\ thread' = [thread EXCEPT ![h] = "receive"]
          /\ UNCHANGED <<new_messages, sent_messages, sending, transmitted, ping, victim, shared_queue>>
        BY <1>4 DEF EnqueueResponse, GoTo
    <2> QED
        BY <2>1 DEF TypeOK, HandleTypeOK
<1>5. ASSUME DispatchPass
      PROVE  SentWasTransmitted'
    BY <1>5 DEF DispatchPass
<1>6. ASSUME NEW v \in Views, BeginRefresh(v)
      PROVE  SentWasTransmitted'
    BY <1>6 DEF BeginRefresh
<1>7. ASSUME NEW h \in Handles, RemoveHandle(h)
      PROVE  SentWasTransmitted'
    BY <1>7 DEF RemoveHandle, Disconnect
<1>8. ASSUME CollectMessages
      PROVE  SentWasTransmitted'
    <2>1. /\ \A h \in Handles : sent_messages'[h] \subseteq sent_messages[h]
          /\ UNCHANGED <<thread, sending, transmitted>>
          /\ ping' = "kill"
        BY <1>8 DEF CollectMessages, make_all_messages_new, TypeOK, CacheTypeOK
    <2> QED
        BY <2>1
<1>9. ASSUME KillHandle
      PROVE  SentWasTransmitted'
    <2>1. victim \notin shared_queue' => Range(new_messages[victim]) = {}
        BY <1>9 DEF KillHandle, Range
    <2>2. UNCHANGED <<new_messages, sent_messages, thread, sending, transmitted, victim>>
        BY <1>9 DEF KillHandle, Kill
    <2> QED
        BY <2>1, <2>2
<1>10. ASSUME JoinHandle
       PROVE  SentWasTransmitted'
    <2>1. /\ thread' = [thread EXCEPT ![victim] = "none"]
          /\ sent_messages' = [sent_messages EXCEPT ![victim] = {}]
          /\ sending' = sending /\ transmitted' = transmitted
          /\ ping' # "join"
        BY <1>10 DEF JoinHandle, DestroyHandle, DestroyCache, GoTo
    <2> QED
        BY <2>1 DEF TypeOK, CacheTypeOK, HandleTypeOK
<1>11. ASSUME UpdateHosts
       PROVE  SentWasTransmitted'
    BY <1>11 DEF UpdateHosts, ReconnectAll, ConnectAllToNewHosts, AfterHosts
<1>12. ASSUME NEW i \in Infos, CreateHandle(i)
       PROVE  SentWasTransmitted'
    <2>1. /\ thread' = [thread EXCEPT ![i.name] = "control"]
          /\ UNCHANGED <<sent_messages, sending, transmitted>>
          /\ ping' = "connect"
        BY <1>12 DEF CreateHandle, ConstructHandle, append_message_queue, GoTo
    <2> QED
        BY <2>1 DEF TypeOK, HandleTypeOK
<1>13. ASSUME NEW i \in Infos, CreateFails(i)
       PROVE  SentWasTransmitted'
    BY <1>13 DEF CreateFails
<1>14. ASSUME ConnectHandle
       PROVE  SentWasTransmitted'
    BY <1>14 DEF ConnectHandle, Connect, AfterHosts
<1>15. ASSUME NEW h \in Handles, NEW m \in Messages, WorkersStep(h, m)
       PROVE  SentWasTransmitted'
    BY <1>15 DEF WorkersStep, WorkerStep, WorkerChunk, WorkerFinal, WorkerRefuses, HostLost, serviceVars
<1>16. ASSUME UNCHANGED vars
       PROVE  SentWasTransmitted'
    BY <1>16 DEF vars, serviceVars
<1> QED
    BY <1>1, <1>2, <1>3, <1>4, <1>5, <1>6, <1>7, <1>8, <1>9, <1>10, <1>11, <1>12, <1>13,
       <1>14, <1>15, <1>16 DEF Next, Refresh

-----------------------------------------------------------------------------
(* What changes of the log, of the queue and of the sent messages keep the   *)
(* unsent messages of a handle queued, and queued in order.                  *)

LEMMA OrderSentGrows ==
    ASSUME NEW h \in Handles, NEW acc \in Seq(Messages), NEW q \in Seq(Messages), NEW sent, NEW more,
           sent \subseteq more, KeepsOrder(h, acc, q, sent)
    PROVE  KeepsOrder(h, acc, q, more)
BY DEF KeepsOrder

\* The user sends a message to this handle ...
LEMMA OrderAppendBoth ==
    ASSUME NEW h \in Handles, NEW acc \in Seq(Messages), NEW q \in Seq(Messages), NEW sent,
           NEW m \in Messages, KeepsOrder(h, acc, q, sent)
    PROVE  KeepsOrder(h, Append(acc, m), Append(q, m), sent)
<1> DEFINE acc2 == Append(acc, m)
           q2 == Append(q, m)
           Waits(i) == Dest[acc2[i]] = h /\ acc2[i] \notin sent
<1>1. /\ DOMAIN acc2 = DOMAIN acc \union {Len(acc) + 1}
      /\ \A i \in DOMAIN acc : acc2[i] = acc[i] /\ i \in Int /\ i <= Len(acc)
      /\ acc2[Len(acc) + 1] = m
    OBVIOUS
<1>2. /\ DOMAIN q2 = DOMAIN q \union {Len(q) + 1}
      /\ \A k \in DOMAIN q : q2[k] = q[k] /\ k \in Int /\ k < Len(q) + 1
      /\ q2[Len(q) + 1] = m
    OBVIOUS
<1>3. SUFFICES ASSUME NEW i \in DOMAIN acc2, NEW j \in DOMAIN acc2, i <= j, Waits(i), Waits(j)
               PROVE  \E k, l \in DOMAIN q2 : q2[k] = acc2[i] /\ q2[l] = acc2[j] /\ (i < j => k < l)
    BY DEF KeepsOrder
<1>4. CASE i \in DOMAIN acc /\ j \in DOMAIN acc
    <2>1. PICK k \in DOMAIN q, l \in DOMAIN q :
              q[k] = acc[i] /\ q[l] = acc[j] /\ (i < j => k < l)
        BY <1>1, <1>3, <1>4 DEF KeepsOrder
    <2> QED
        BY <1>1, <1>2, <1>4, <2>1
<1>5. CASE i \in DOMAIN acc /\ j = Len(acc) + 1
    <2>1. PICK k \in DOMAIN q : q[k] = acc[i]
        BY <1>1, <1>3, <1>5 DEF KeepsOrder
    <2>2. /\ k \in DOMAIN q2 /\ q2[k] = acc2[i]
          /\ Len(q) + 1 \in DOMAIN q2 /\ q2[Len(q) + 1] = acc2[j]
          /\ k < Len(q) + 1
        BY <1>1, <1>2, <1>5, <2>1
    <2> QED
        BY <2>2
<1>6. CASE i = Len(acc) + 1
    <2>1. j = i
        BY <1>1, <1>3, <1>6
    <2>2. Len(q) + 1 \in DOMAIN q2 /\ q2[Len(q) + 1] = acc2[i]
        BY <1>1, <1>2, <1>6
    <2> QED
        BY <1>1, <2>1, <2>2
<1> QED
    BY <1>1, <1>4, <1>5, <1>6

\* ... or to another one.
LEMMA OrderAppendOther ==
    ASSUME NEW h \in Handles, NEW acc \in Seq(Messages), NEW q \in Seq(Messages), NEW sent,
           NEW m \in Messages, Dest[m] # h, KeepsOrder(h, acc, q, sent)
    PROVE  KeepsOrder(h, Append(acc, m), q, sent)
<1> DEFINE acc2 == Append(acc, m)
<1>1. /\ DOMAIN acc2 = DOMAIN acc \union {Len(acc) + 1}
      /\ \A i \in DOMAIN acc : acc2[i] = acc[i]
      /\ acc2[Len(acc) + 1] = m
    OBVIOUS
<1> QED
    BY <1>1 DEF KeepsOrder

\* The thread moves a sent message away from the front.
LEMMA OrderTail ==
    ASSUME NEW h \in Handles, NEW acc \in Seq(Messages), NEW q \in Seq(Messages), NEW sent,
           q # <<>>, Head(q) \in sent, KeepsOrder(h, acc, q, sent)
    PROVE  KeepsOrder(h, acc, Tail(q), sent)
<1>1. \A k \in DOMAIN q : q[k] \notin sent => k - 1 \in DOMAIN Tail(q) /\ Tail(q)[k - 1] = q[k]
    OBVIOUS
<1>2. \A k \in DOMAIN q : k \in Int
    OBVIOUS
<1>3. SUFFICES ASSUME NEW i \in DOMAIN acc, NEW j \in DOMAIN acc, i <= j,
                      Dest[acc[i]] = h, acc[i] \notin sent, Dest[acc[j]] = h, acc[j] \notin sent
               PROVE  \E k, l \in DOMAIN Tail(q) :
                          Tail(q)[k] = acc[i] /\ Tail(q)[l] = acc[j] /\ (i < j => k < l)
    BY DEF KeepsOrder
<1>4. PICK k \in DOMAIN q, l \in DOMAIN q : q[k] = acc[i] /\ q[l] = acc[j] /\ (i < j => k < l)
    BY <1>3 DEF KeepsOrder
<1>5. /\ k - 1 \in DOMAIN Tail(q) /\ Tail(q)[k - 1] = acc[i]
      /\ l - 1 \in DOMAIN Tail(q) /\ Tail(q)[l - 1] = acc[j]
      /\ i < j => k - 1 < l - 1
    BY <1>1, <1>2, <1>3, <1>4
<1> QED
    BY <1>5

\* A refused message comes back to the front.
LEMMA OrderPushFront ==
    ASSUME NEW h \in Handles, NEW acc \in Seq(Messages), NEW q \in Seq(Messages), NEW sent,
           NEW m \in Messages, KeepsOrder(h, acc, q, sent)
    PROVE  KeepsOrder(h, acc, <<m>> \o q, sent)
<1> DEFINE q2 == <<m>> \o q
<1>1. \A k \in DOMAIN q : k \in Int /\ k + 1 \in DOMAIN q2 /\ q2[k + 1] = q[k]
    OBVIOUS
<1>2. SUFFICES ASSUME NEW i \in DOMAIN acc, NEW j \in DOMAIN acc, i <= j,
                      Dest[acc[i]] = h, acc[i] \notin sent, Dest[acc[j]] = h, acc[j] \notin sent
               PROVE  \E k, l \in DOMAIN q2 : q2[k] = acc[i] /\ q2[l] = acc[j] /\ (i < j => k < l)
    BY DEF KeepsOrder
<1>3. PICK k \in DOMAIN q, l \in DOMAIN q : q[k] = acc[i] /\ q[l] = acc[j] /\ (i < j => k < l)
    BY <1>2 DEF KeepsOrder
<1>4. /\ k + 1 \in DOMAIN q2 /\ q2[k + 1] = acc[i]
      /\ l + 1 \in DOMAIN q2 /\ q2[l + 1] = acc[j]
      /\ i < j => k + 1 < l + 1
    BY <1>1, <1>3
<1> QED
    BY <1>4

\* Messages are added at the back.
LEMMA OrderAddBack ==
    ASSUME NEW h \in Handles, NEW acc \in Seq(Messages), NEW q \in Seq(Messages), NEW sent,
           NEW s \in Seq(Messages), KeepsOrder(h, acc, q, sent)
    PROVE  KeepsOrder(h, acc, q \o s, sent)
<1> DEFINE q2 == q \o s
<1>1. \A k \in DOMAIN q : k \in DOMAIN q2 /\ q2[k] = q[k]
    OBVIOUS
<1> QED
    BY <1>1 DEF KeepsOrder

\* A queue of sent messages only may go.
LEMMA OrderOfSent ==
    ASSUME NEW h \in Handles, NEW acc \in Seq(Messages), NEW q \in Seq(Messages), NEW sent,
           Range(q) \subseteq sent, KeepsOrder(h, acc, q, sent)
    PROVE  KeepsOrder(h, acc, <<>>, sent)
<1>1. \A k \in DOMAIN q : q[k] \in sent
    BY DEF Range
<1>2. ASSUME NEW i \in DOMAIN acc, Dest[acc[i]] = h, acc[i] \notin sent
      PROVE  FALSE
    <2>1. i <= i
        OBVIOUS
    <2>2. \E k \in DOMAIN q : q[k] = acc[i]
        BY <1>2, <2>1 DEF KeepsOrder
    <2> QED
        BY <1>1, <1>2, <2>2
<1> QED
    BY <1>2 DEF KeepsOrder

\* A handle's messages are in its cache, those of a name without one are among
\* the unhandled ones.
LEMMA QueueOfHandle ==
    ASSUME TypeOK, NoQueueBesideHandle, NoHandleNoCache, NEW h \in Handles
    PROVE  /\ h \in handles => unhandled_messages[h] = <<>> /\ Queue(h) = new_messages[h]
           /\ h \notin handles => new_messages[h] = <<>> /\ Queue(h) = unhandled_messages[h]
           /\ Queue(h) \in Seq(Messages)
<1>1. new_messages[h] \in Seq(Messages) /\ unhandled_messages[h] \in Seq(Messages)
    BY DEF TypeOK, CacheTypeOK
<1>2. h \in handles => unhandled_messages[h] = <<>>
    BY DEF NoQueueBesideHandle
<1>3. h \notin handles => new_messages[h] = <<>>
    BY DEF NoHandleNoCache
<1>4. \A q \in Seq(Messages) : <<>> \o q = q /\ q \o <<>> = q
    BY ConcatEmptySeq
<1> QED
    BY <1>1, <1>2, <1>3, <1>4 DEF Queue

\* No step drops or reorders unsent messages.
LEMMA UnsentStep ==
    ASSUME TypeOK, VictimIsHandle, NoQueueBesideHandle, NoHandleNoCache, SendsWhatItMoves,
           SentWasTransmitted, UnsentInOrder, [Next]_vars
    PROVE  UnsentInOrder'
<1> USE DEF UnsentInOrder, mapVars, cacheVars, handleVars, threadVars, workVars, sharedVars
<1>1. ASSUME NEW m \in Messages, Send(m)
      PROVE  UnsentInOrder'
    <2>1. /\ accepted \in Seq(Messages) /\ Dest[m] \in Handles
          /\ accepted' = Append(accepted, m)
          /\ transmitted' = transmitted
        BY <1>1, ServiceConstants DEF Send, TypeOK
    <2>2. Queue(Dest[m])' = Append(Queue(Dest[m]), m)
        <3>1. CASE Dest[m] \in handles
            <4>1. /\ new_messages'[Dest[m]] = Append(new_messages[Dest[m]], m)
                  /\ unhandled_messages'[Dest[m]] = <<>>
                BY <1>1, <2>1, <3>1, QueueOfHandle DEF Send, CacheEnqueue, TypeOK, CacheTypeOK
            <4>2. Append(new_messages[Dest[m]], m) \in Seq(Messages)
                BY <2>1 DEF TypeOK, CacheTypeOK
            <4>3. Queue(Dest[m])' = Append(new_messages[Dest[m]], m)
                BY <4>1, <4>2, ConcatEmptySeq DEF Queue
            <4> QED
                BY <2>1, <3>1, <4>3, QueueOfHandle
        <3>2. CASE Dest[m] \notin handles
            <4>1. /\ new_messages'[Dest[m]] = <<>>
                  /\ unhandled_messages'[Dest[m]] = Append(unhandled_messages[Dest[m]], m)
                BY <1>1, <2>1, <3>2, QueueOfHandle DEF Send, TypeOK
            <4>2. Append(unhandled_messages[Dest[m]], m) \in Seq(Messages)
                BY <2>1 DEF TypeOK
            <4>3. Queue(Dest[m])' = Append(unhandled_messages[Dest[m]], m)
                BY <4>1, <4>2, ConcatEmptySeq DEF Queue
            <4> QED
                BY <2>1, <3>2, <4>3, QueueOfHandle
        <3> QED
            BY <3>1, <3>2
    <2>3. \A h \in Handles : h # Dest[m] => Queue(h)' = Queue(h)
        <3>1. \A h \in Handles : h # Dest[m] => /\ new_messages'[h] = new_messages[h]
                                               /\ unhandled_messages'[h] = unhandled_messages[h]
            BY <1>1, <2>1 DEF Send, CacheEnqueue, TypeOK, CacheTypeOK
        <3> QED
            BY <3>1 DEF Queue
    <2>4. SUFFICES ASSUME NEW h \in Handles
                   PROVE  KeepsOrder(h, accepted', Queue(h)', transmitted')
        OBVIOUS
    <2>5. Queue(h) \in Seq(Messages) /\ KeepsOrder(h, accepted, Queue(h), transmitted)
        BY QueueOfHandle
    <2>6. CASE h = Dest[m]
        <3>1. KeepsOrder(h, Append(accepted, m), Append(Queue(h), m), transmitted)
            BY <2>1, <2>5, OrderAppendBoth
        <3> QED
            BY <2>1, <2>2, <2>6, <3>1
    <2>7. CASE h # Dest[m]
        <3>1. KeepsOrder(h, Append(accepted, m), Queue(h), transmitted)
            BY <2>1, <2>5, <2>7, OrderAppendOther
        <3> QED
            BY <2>1, <2>3, <2>7, <3>1
    <2> QED
        BY <2>6, <2>7
<1>2. ASSUME NEW h \in Handles, Register(h)
      PROVE  UnsentInOrder'
    BY <1>2 DEF Register, Queue
<1>3. ASSUME NEW h \in Handles, HandleStep(h)
      PROVE  UnsentInOrder'
    <2>1. /\ CacheTypeOK /\ HandleTypeOK /\ ThreadStep(h)
          /\ UNCHANGED <<accepted, unhandled_messages>>
          /\ accepted \in Seq(Messages)
        BY <1>3 DEF HandleStep, TypeOK, serviceVars
    <2>2. \A g \in Handles : g # h => Queue(g)' = Queue(g)
        BY <2>1, ThreadStepOfOne DEF Queue
    <2>3. transmitted \subseteq transmitted'
        BY <2>1 DEF ThreadStep, ReceiveNothing, ReceiveControl, CopyNewHosts, ClearNewHosts, ReceiveKill,
           OpenSocket, CountNewMessages, TransmitMessage, MoveMessage, NoResponse, ReceiveResponse,
           ApplyRefusal, ApplyFinal
    <2>4. \A g \in Handles : /\ Queue(g) \in Seq(Messages)
                             /\ KeepsOrder(g, accepted, Queue(g), transmitted)
        BY QueueOfHandle
    <2>5. KeepsOrder(h, accepted, Queue(h)', transmitted)
        <3>1. thread[h] # "none"
            BY <2>1 DEF ThreadStep, ReceiveNothing, ReceiveControl, CopyNewHosts, ClearNewHosts,
               ReceiveKill, CountNewMessages, TransmitMessage, MoveMessage, NoResponse,
               ReceiveResponse, ApplyRefusal, ApplyFinal
        <3>2. unhandled_messages[h] = <<>> /\ Queue(h) = new_messages[h]
            BY <3>1, QueueOfHandle DEF NoHandleNoCache
        <3>3. CASE MoveMessage(h)
            <4>1. /\ Head(new_messages[h]) \in transmitted
                  /\ new_messages[h] # <<>>
                  /\ new_messages'[h] = Tail(new_messages[h])
                BY <2>1, <3>3 DEF MoveMessage, move_new_message_to_sent, SendsWhatItMoves,
                   SentWasTransmitted, CacheTypeOK
            <4>2. Tail(new_messages[h]) \in Seq(Messages)
                BY <2>1, <4>1 DEF CacheTypeOK
            <4>3. Queue(h)' = Tail(Queue(h))
                BY <2>1, <3>2, <4>1, <4>2, ConcatEmptySeq DEF Queue
            <4> QED
                BY <2>1, <2>4, <3>2, <4>1, <4>3, OrderTail
        <3>4. CASE ApplyRefusal(h) /\ reply[h].msg \in sent_messages[h]
            <4>1. /\ reply[h].msg \in Messages
                  /\ new_messages'[h] = <<reply[h].msg>> \o new_messages[h]
                BY <2>1, <3>4 DEF ApplyRefusal, move_sent_message_to_new_front, CacheTypeOK
            <4>2. <<reply[h].msg>> \o new_messages[h] \in Seq(Messages)
                BY <2>1, <4>1, ConcatProperties DEF CacheTypeOK
            <4>3. Queue(h)' = <<reply[h].msg>> \o Queue(h)
                BY <2>1, <3>2, <4>1, <4>2, ConcatEmptySeq DEF Queue
            <4> QED
                BY <2>1, <2>4, <4>1, <4>3, OrderPushFront
        <3>5. CASE ~MoveMessage(h) /\ ~(ApplyRefusal(h) /\ reply[h].msg \in sent_messages[h])
            <4>1. UNCHANGED new_messages
                BY <2>1, <3>5 DEF ThreadStep, ReceiveNothing, ReceiveControl, CopyNewHosts, ClearNewHosts,
                   ReceiveKill, CountNewMessages, TransmitMessage, NoResponse, ReceiveResponse,
                   ApplyRefusal, ApplyFinal, move_sent_message_to_new_front, remove_message_from_cache
            <4> QED
                BY <2>1, <2>4, <4>1 DEF Queue
        <3> QED
            BY <3>3, <3>4, <3>5
    <2>6. Queue(h)' \in Seq(Messages)
        <3>1. CacheTypeOK' /\ unhandled_messages' \in [Handles -> Seq(Messages)]
            BY <2>1, ThreadStepType DEF TypeOK
        <3>2. new_messages'[h] \in Seq(Messages) /\ unhandled_messages'[h] \in Seq(Messages)
            BY <3>1 DEF CacheTypeOK
        <3> QED
            BY <3>2, ConcatProperties DEF Queue
    <2>7. SUFFICES ASSUME NEW g \in Handles
                   PROVE  KeepsOrder(g, accepted', Queue(g)', transmitted')
        OBVIOUS
    <2>8. KeepsOrder(g, accepted, Queue(g)', transmitted) /\ Queue(g)' \in Seq(Messages)
        BY <2>2, <2>4, <2>5, <2>6
    <2>9. KeepsOrder(g, accepted, Queue(g)', transmitted')
        BY <2>1, <2>3, <2>8, OrderSentGrows
    <2> QED
        BY <2>1, <2>9
<1>4. ASSUME NEW h \in Handles, EnqueueResponse(h)
      PROVE  UnsentInOrder'
    BY <1>4 DEF EnqueueResponse, Queue
<1>5. ASSUME DispatchPass
      PROVE  UnsentInOrder'
    BY <1>5 DEF DispatchPass, Queue
<1>6. ASSUME NEW v \in Views, BeginRefresh(v)
      PROVE  UnsentInOrder'
    BY <1>6 DEF BeginRefresh, Queue
<1>7. ASSUME NEW h \in Handles, RemoveHandle(h)
      PROVE  UnsentInOrder'
    BY <1>7 DEF RemoveHandle, Disconnect, Queue
<1>8. ASSUME CollectMessages
      PROVE  UnsentInOrder'
    <2>1. PICK v \in Handles : v = victim /\ v \in handles
        BY <1>8 DEF CollectMessages, VictimIsHandle, TypeOK
    <2>2. PICK sent \in Orderings(sent_messages[v]) :
              new_messages' = [new_messages EXCEPT ![v] = @ \o sent]
        BY <1>8, <2>1 DEF CollectMessages, make_all_messages_new
    <2>3. sent \in Seq(Messages)
        BY <2>1, OrderingsAreSequences DEF TypeOK, CacheTypeOK
    <2>4. UNCHANGED <<accepted, unhandled_messages, transmitted>> /\ accepted \in Seq(Messages)
        BY <1>8 DEF CollectMessages, TypeOK
    <2>5. unhandled_messages[v] = <<>> /\ Queue(v) = new_messages[v]
        BY <2>1, QueueOfHandle
    <2>6. new_messages[v] \in Seq(Messages) /\ new_messages[v] \o sent \in Seq(Messages)
        BY <2>1, <2>3, ConcatProperties DEF TypeOK, CacheTypeOK
    <2>7. new_messages'[v] = new_messages[v] \o sent
        BY <2>1, <2>2 DEF TypeOK, CacheTypeOK
    <2>8. Queue(v)' = Queue(v) \o sent
        BY <2>4, <2>5, <2>6, <2>7, ConcatEmptySeq DEF Queue
    <2>9. KeepsOrder(v, accepted, Queue(v) \o sent, transmitted)
        BY <2>1, <2>3, <2>4, <2>5, <2>6, OrderAddBack
    <2>10. \A h \in Handles : h # v => Queue(h)' = Queue(h)
        BY <2>2, <2>4 DEF Queue, TypeOK, CacheTypeOK
    <2> QED
        BY <2>4, <2>8, <2>9, <2>10
<1>9. ASSUME KillHandle
      PROVE  UnsentInOrder'
    BY <1>9 DEF KillHandle, Kill, Queue
<1>10. ASSUME JoinHandle
       PROVE  UnsentInOrder'
    <2>1. PICK v \in Handles : v = victim /\ v \in handles
        BY <1>10 DEF JoinHandle, VictimIsHandle, TypeOK
    <2>2. UNCHANGED <<accepted, transmitted>> /\ accepted \in Seq(Messages)
        BY <1>10 DEF JoinHandle, DestroyHandle, TypeOK
    <2>3. new_messages'[v] = <<>> /\ unhandled_messages'[v] = Unhandled(v)
        BY <1>10, <2>1 DEF JoinHandle, DestroyCache, TypeOK, CacheTypeOK
    <2>4. Unhandled(v) \in Seq(Messages)
        BY <2>1 DEF Unhandled, TypeOK, CacheTypeOK
    <2>5. Queue(v)' = Unhandled(v)
        BY <2>3, <2>4, ConcatEmptySeq DEF Queue
    <2>6. /\ unhandled_messages[v] = <<>>
          /\ Queue(v) = new_messages[v] /\ Queue(v) \in Seq(Messages)
        BY <2>1, QueueOfHandle
    <2>7. KeepsOrder(v, accepted, Unhandled(v), transmitted)
        <3>1. CASE v \in shared_queue
            BY <2>1, <2>6, <3>1 DEF Unhandled
        <3>2. CASE v \notin shared_queue
            <4>1. Unhandled(v) = <<>>
                BY <2>6, <3>2 DEF Unhandled
            <4>2. Range(Queue(v)) \subseteq transmitted
                BY <1>10, <2>1, <2>6, <3>2 DEF JoinHandle, SentWasTransmitted
            <4> QED
                BY <2>1, <2>2, <2>6, <4>1, <4>2, OrderOfSent
        <3> QED
            BY <3>1, <3>2
    <2>8. \A h \in Handles : h # v => Queue(h)' = Queue(h)
        BY <1>10, <2>1 DEF JoinHandle, DestroyCache, Queue, TypeOK, CacheTypeOK
    <2> QED
        BY <2>2, <2>5, <2>7, <2>8
<1>11. ASSUME UpdateHosts
       PROVE  UnsentInOrder'
    BY <1>11 DEF UpdateHosts, ReconnectAll, ConnectAllToNewHosts, Queue
<1>12. ASSUME NEW i \in Infos, CreateHandle(i)
       PROVE  UnsentInOrder'
    <2>1. i.name \in Handles /\ i.name \notin handles
        BY <1>12 DEF CreateHandle, Infos
    <2>2. UNCHANGED <<accepted, transmitted>>
        BY <1>12 DEF CreateHandle, ConstructHandle
    <2>3. new_messages[i.name] = <<>> /\ Queue(i.name) = unhandled_messages[i.name]
        BY <2>1, QueueOfHandle
    <2>4. unhandled_messages[i.name] \in Seq(Messages)
        BY <2>1 DEF TypeOK
    <2>5. /\ new_messages'[i.name] = <<>> \o unhandled_messages[i.name]
          /\ unhandled_messages'[i.name] = <<>>
        BY <1>12, <2>1, <2>3 DEF CreateHandle, append_message_queue, TypeOK, CacheTypeOK
    <2>6. Queue(i.name)' = Queue(i.name)
        BY <2>3, <2>4, <2>5, ConcatEmptySeq DEF Queue
    <2>7. \A h \in Handles : h # i.name => Queue(h)' = Queue(h)
        BY <1>12 DEF CreateHandle, append_message_queue, Queue, TypeOK, CacheTypeOK
    <2> QED
        BY <2>1, <2>2, <2>6, <2>7
<1>13. ASSUME NEW i \in Infos, CreateFails(i)
       PROVE  UnsentInOrder'
    BY <1>13 DEF CreateFails, Queue
<1>14. ASSUME ConnectHandle
       PROVE  UnsentInOrder'
    BY <1>14 DEF ConnectHandle, Connect, Queue
<1>15. ASSUME NEW h \in Handles, NEW m \in Messages, WorkersStep(h, m)
       PROVE  UnsentInOrder'
    BY <1>15 DEF WorkersStep, WorkerStep, WorkerChunk, WorkerFinal, WorkerRefuses, HostLost, serviceVars, Queue
<1>16. ASSUME UNCHANGED vars
       PROVE  UnsentInOrder'
    BY <1>16 DEF vars, serviceVars, Queue
<1> QED
    BY <1>1, <1>2, <1>3, <1>4, <1>5, <1>6, <1>7, <1>8, <1>9, <1>10, <1>11, <1>12, <1>13,
       <1>14, <1>15, <1>16 DEF Next, Refresh

-----------------------------------------------------------------------------
(* The inductive invariant and what follows from it.                         *)

LEMMA IndInvInit == Init => IndInv
<1> SUFFICES ASSUME Init PROVE IndInv
    OBVIOUS
<1>1. TypeOK
    BY TypeInit
<1>2. /\ \A h \in Handles : new_messages[h] = <<>> /\ sent_messages[h] = {} /\ thread[h] = "none"
      /\ transmitted = {} /\ accepted = <<>>
      /\ handles = {} /\ shared_queue = {} /\ outstanding = {} /\ ping = "idle"
    BY DEF Init, CacheInit, HandleInit
<1>3. DOMAIN accepted = {}
    BY <1>2
<1>4. UnsentInOrder
    BY <1>3 DEF UnsentInOrder, KeepsOrder
<1> QED
    BY <1>1, <1>2, <1>4 DEF IndInv, VictimIsHandle, NoQueueBesideHandle, NoHandleNoCache,
       ReplyIsThere, SendsWhatItMoves, SentWasTransmitted

LEMMA IndInvStep == IndInv /\ [Next]_vars => IndInv'
<1> SUFFICES ASSUME IndInv, [Next]_vars PROVE IndInv'
    OBVIOUS
<1>1. TypeOK'
    BY TypeStep DEF IndInv
<1>2. VictimIsHandle'
    BY VictimStep DEF IndInv
<1>3. NoQueueBesideHandle'
    BY QueueBesideStep DEF IndInv
<1>4. NoHandleNoCache'
    BY NoCacheStep DEF IndInv
<1>5. ReplyIsThere'
    BY ReplyStep DEF IndInv
<1>6. SendsWhatItMoves'
    BY SendsStep DEF IndInv
<1>7. SentWasTransmitted'
    BY TransmittedStep DEF IndInv
<1>8. UnsentInOrder'
    BY UnsentStep DEF IndInv
<1> QED
    BY <1>1, <1>2, <1>3, <1>4, <1>5, <1>6, <1>7, <1>8 DEF IndInv

\* The invariant of all the steps of service::send_message, of the ping thread
\* and of the handles' threads holds in every reachable state.
THEOREM Invariance == Spec => []IndInv
<1> QED
    BY IndInvInit, IndInvStep, PTL DEF Spec

\* Every variable keeps its type: no control message that has no meaning to
\* dispatch_control_messages but the one DISCONNECT sends, no response that was
\* not received, no victim that is not a handle.
THEOREM TypeCorrectness == Spec => []TypeOK
<1>1. IndInv => TypeOK
    BY DEF IndInv
<1> QED
    BY Invariance, <1>1, PTL

\* remove_outstanding_handles never finds an unhandled queue of the handle it
\* removes (the exception of service.hpp:535 is never thrown), and
\* create_new_handles never finds one left beside a handle.
THEOREM HandlesHaveOneQueue == Spec => []NoQueueBesideHandle
<1>1. IndInv => NoQueueBesideHandle
    BY DEF IndInv
<1> QED
    BY Invariance, <1>1, PTL

\* dispatch_next_available_message moves to the sent messages the very message
\* it sent, and never finds the queue empty, although it releases the cache's
\* mutex before each of its three looks at the queue.
THEOREM MovesWhatItSent == Spec => []SendsWhatItMoves
<1>1. IndInv => SendsWhatItMoves
    BY DEF IndInv
<1> QED
    BY Invariance, <1>1, PTL

\* No message that was never given to a worker is dropped or overtaken, for any
\* number of messages, handles, hosts and reports of the collector.
THEOREM UnsentKeptInOrder == Spec => []UnsentInOrder
<1>1. IndInv => UnsentInOrder
    BY DEF IndInv
<1> QED
    BY Invariance, <1>1, PTL

-----------------------------------------------------------------------------
(***************************************************************************)
(* Topology: a handle is not connected to a host that is gone, for any     *)
(* number of handles, hosts and reports.                                   *)
(*                                                                         *)
(* The argument.  The hosts a thread connects to travel in memory, the     *)
(* orders to connect in its queue, so that it may meet hosts that came     *)
(* after the order, or that are gone.  Whatever it may still connect to is *)
(* among the hosts of the last report and those it dropped (Known), or is  *)
(* followed in the queue by a RECONNECT (FollowsTheHosts): that order is   *)
(* put behind all others when hosts are dropped, and new hosts wait with   *)
(* an order of their own, which is taken before it.  An order must not be  *)
(* ignored for want of a connection: CONNECT is the first (Connects), and  *)
(* it is sent since a report with handles has hosts (ReportApplied).       *)
(***************************************************************************)

\* The hosts of the last report, and those the handles have not been told of.
Known == service_hosts \union dropped

\* A control message is on its way, or CONNECT_NEW_HOSTS and RECONNECT behind it.
IsSent(h, type) == \E i \in DOMAIN control[h] : control[h][i] = type
NewBeforeReconnect(h) ==
    \E i, j \in DOMAIN control[h] :
        /\ i < j
        /\ control[h][i] = CONTROL_MESSAGE_CONNECT_NEW_HOSTS
        /\ control[h][j] = CONTROL_MESSAGE_RECONNECT

Reconnects(h) == IsSent(h, CONTROL_MESSAGE_RECONNECT)

\* What the thread of h is connected to, or may still connect to.
FollowsTheHosts(h) ==
    /\ hosts[h] \subseteq Known
    /\ peers[h] \subseteq Known \/ Reconnects(h)
    /\ thread[h] = "clear" /\ ~Reconnects(h) => copied[h] \subseteq Known /\ new_hosts[h] \subseteq Known
    /\ thread[h] # "clear" => new_hosts[h] \subseteq Known \/ NewBeforeReconnect(h)
    /\ new_hosts[h] # {} => thread[h] = "clear" \/ IsSent(h, CONTROL_MESSAGE_CONNECT_NEW_HOSTS)

\* The thread of h is connected, or will be before it takes another order.
Connects(h) ==
    /\ \/ is_connected[h]
       \/ control[h] = <<>> /\ connecting = h
       \/ control[h] # <<>> /\ control[h][1] = CONTROL_MESSAGE_CONNECT
    /\ ~IsSent(h, CONTROL_MESSAGE_DISCONNECT)

\* A thread that has not begun or has ended is connected to nothing.
Stopped(h) == thread[h] \in {"none", "dead"}

Follows(h) ==
    /\ Stopped(h) => peers[h] = {}
    /\ ~Stopped(h) => FollowsTheHosts(h) /\ Connects(h)
HandlesFollow == \A h \in Handles : Follows(h)

\* Where the ping thread is with the last report.
ReportApplied ==
    /\ ~Locked => dropped = {}
    /\ added \subseteq service_hosts /\ service_hosts = view.hosts
    /\ view.hosts = {} <=> view.infos = {}
    /\ fresh \subseteq view.infos
    /\ ping = "connect" <=> connecting # None
    /\ ping = "connect" => view.infos # {}
    /\ ping = "hosts" => outstanding = {}
    /\ Locked /\ view.infos = {} =>
          handles \subseteq outstanding \union (IF ping \in {"collect", "kill", "join"} THEN {victim} ELSE {})

TopologyInv == IndInv /\ HandlesFollow /\ ReportApplied

-----------------------------------------------------------------------------
(* The queue of control messages.                                            *)

LEMMA OrderAppended ==
    ASSUME NEW h \in Handles, control[h] \in Seq(ControlMessages),
           NEW type \in ControlMessages, control'[h] = Append(control[h], type)
    PROVE  /\ \A t \in ControlMessages : IsSent(h, t)' <=> IsSent(h, t) \/ t = type
           /\ NewBeforeReconnect(h) => NewBeforeReconnect(h)'
           /\ IsSent(h, CONTROL_MESSAGE_CONNECT_NEW_HOSTS) /\ type = CONTROL_MESSAGE_RECONNECT
                 => NewBeforeReconnect(h)'
           /\ control'[h] # <<>>
           /\ control'[h][1] = IF control[h] = <<>> THEN type ELSE control[h][1]
<1>1. /\ DOMAIN control'[h] = DOMAIN control[h] \union {Len(control[h]) + 1}
      /\ \A i \in DOMAIN control[h] : control'[h][i] = control[h][i] /\ i < Len(control[h]) + 1
      /\ control'[h][Len(control[h]) + 1] = type
      /\ control'[h] # <<>>
    OBVIOUS
<1>2. control[h] # <<>> => 1 \in DOMAIN control[h]
    OBVIOUS
<1>3. control[h] = <<>> => Len(control[h]) + 1 = 1
    OBVIOUS
<1> QED
    BY <1>1, <1>2, <1>3 DEF IsSent, NewBeforeReconnect

LEMMA OrderTaken ==
    ASSUME NEW h \in Handles, control[h] \in Seq(ControlMessages), control[h] # <<>>,
           control'[h] = Tail(control[h])
    PROVE  /\ Head(control[h]) = control[h][1] /\ Head(control[h]) \in ControlMessages
           /\ \A t \in ControlMessages : IsSent(h, t)' => IsSent(h, t)
           /\ \A t \in ControlMessages : IsSent(h, t) => IsSent(h, t)' \/ t = Head(control[h])
           /\ NewBeforeReconnect(h) => Reconnects(h)'
           /\ NewBeforeReconnect(h) /\ Head(control[h]) # CONTROL_MESSAGE_CONNECT_NEW_HOSTS
                 => NewBeforeReconnect(h)'
<1>1. /\ Head(control[h]) = control[h][1] /\ Head(control[h]) \in ControlMessages
      /\ \A i \in DOMAIN control'[h] : i + 1 \in DOMAIN control[h] /\ control'[h][i] = control[h][i + 1]
      /\ \A i \in DOMAIN control[h] : i \in Nat /\ i > 0
      /\ \A i \in DOMAIN control[h] : i > 1 => i - 1 \in DOMAIN control'[h] /\ control'[h][i - 1] = control[h][i]
    OBVIOUS
<1>2. \A t \in ControlMessages : IsSent(h, t)' => IsSent(h, t)
    BY <1>1 DEF IsSent
<1>3. \A t \in ControlMessages : IsSent(h, t) => IsSent(h, t)' \/ t = Head(control[h])
    <2>1. ASSUME NEW t \in ControlMessages, NEW i \in DOMAIN control[h], control[h][i] = t,
                 t # Head(control[h])
          PROVE  IsSent(h, t)'
        <3>1. i > 1
            BY <1>1, <2>1
        <3> QED
            BY <1>1, <2>1, <3>1 DEF IsSent
    <2> QED
        BY <2>1 DEF IsSent
<1>4. ASSUME NEW i \in DOMAIN control[h], NEW j \in DOMAIN control[h], i < j,
             control[h][i] = CONTROL_MESSAGE_CONNECT_NEW_HOSTS,
             control[h][j] = CONTROL_MESSAGE_RECONNECT
      PROVE  /\ Reconnects(h)'
             /\ Head(control[h]) # CONTROL_MESSAGE_CONNECT_NEW_HOSTS => NewBeforeReconnect(h)'
    <2>1. i \in Nat /\ j \in Nat /\ i > 0 /\ j > 1
        BY <1>1, <1>4
    <2>2. j - 1 \in DOMAIN control'[h] /\ control'[h][j - 1] = CONTROL_MESSAGE_RECONNECT
        BY <1>1, <1>4, <2>1
    <2>3. ASSUME Head(control[h]) # CONTROL_MESSAGE_CONNECT_NEW_HOSTS
          PROVE  NewBeforeReconnect(h)'
        <3>1. i > 1
            BY <1>1, <1>4, <2>1, <2>3
        <3>2. i - 1 \in DOMAIN control'[h] /\ control'[h][i - 1] = CONTROL_MESSAGE_CONNECT_NEW_HOSTS
            BY <1>1, <1>4, <3>1
        <3>3. i - 1 < j - 1
            BY <1>4, <2>1
        <3> QED
            BY <2>2, <3>2, <3>3 DEF NewBeforeReconnect
    <2> QED
        BY <2>2, <2>3 DEF Reconnects, IsSent
<1> QED
    BY <1>1, <1>2, <1>3, <1>4 DEF NewBeforeReconnect

\* Nothing a thread follows changes, and it neither stops nor starts.
LEMMA FollowsStays ==
    ASSUME NEW h \in Handles, Follows(h), Known \subseteq Known',
           hosts'[h] = hosts[h], new_hosts'[h] = new_hosts[h], copied'[h] = copied[h],
           peers'[h] = peers[h], control'[h] = control[h], is_connected'[h] = is_connected[h],
           connecting = h => connecting' = h,
           \/ thread'[h] = thread[h]
           \/ {thread[h], thread'[h]} \intersect {"none", "dead", "clear"} = {}
    PROVE  Follows(h)'
<1>1. /\ Stopped(h)' <=> Stopped(h)
      /\ thread'[h] = "clear" <=> thread[h] = "clear"
      /\ \A t : IsSent(h, t)' <=> IsSent(h, t)
      /\ NewBeforeReconnect(h)' <=> NewBeforeReconnect(h)
      /\ Reconnects(h)' <=> Reconnects(h)
    BY DEF Stopped, IsSent, NewBeforeReconnect, Reconnects
<1>2. FollowsTheHosts(h) => FollowsTheHosts(h)'
    BY <1>1 DEF FollowsTheHosts
<1>3. Connects(h) => Connects(h)'
    BY <1>1 DEF Connects
<1> QED
    BY <1>1, <1>2, <1>3 DEF Follows

-----------------------------------------------------------------------------
(* The thread.                                                               *)

\* An order other than the one that takes new hosts.
LEMMA ReceiveControlFollows ==
    ASSUME TopologyInv, NEW h \in Handles, ReceiveControl(h), UNCHANGED serviceVars
    PROVE  Follows(h)'
<1>1. /\ thread[h] = "control" /\ control[h] # <<>> /\ control[h] \in Seq(ControlMessages)
      /\ Follows(h) /\ FollowsTheHosts(h) /\ Connects(h)
      /\ Head(control[h]) # CONTROL_MESSAGE_KILL /\ ~TakesNewHosts(h)
    BY DEF ReceiveControl, TopologyInv, IndInv, TypeOK, HandleTypeOK, HandlesFollow, Follows, Stopped
<1>2. control'[h] = Tail(control[h])
    BY <1>1 DEF ReceiveControl, TopologyInv, IndInv, TypeOK, HandleTypeOK
<1>3. Known' = Known /\ hosts' = hosts /\ new_hosts' = new_hosts /\ connecting' = connecting
    BY DEF ReceiveControl, Known, serviceVars, mapVars, pingVars
<1>4. /\ Head(control[h]) = control[h][1] /\ Head(control[h]) \in ControlMessages
      /\ \A t \in ControlMessages : IsSent(h, t)' => IsSent(h, t)
      /\ \A t \in ControlMessages : IsSent(h, t) => IsSent(h, t)' \/ t = Head(control[h])
      /\ NewBeforeReconnect(h) => Reconnects(h)'
      /\ NewBeforeReconnect(h) /\ Head(control[h]) # CONTROL_MESSAGE_CONNECT_NEW_HOSTS
            => NewBeforeReconnect(h)'
    BY <1>1, <1>2, OrderTaken
<1>5. /\ CONTROL_MESSAGE_DISCONNECT \in ControlMessages /\ CONTROL_MESSAGE_RECONNECT \in ControlMessages
      /\ CONTROL_MESSAGE_CONNECT_NEW_HOSTS \in ControlMessages
    BY DEF ControlMessages
<1>6. Head(control[h]) # CONTROL_MESSAGE_DISCONNECT
    BY <1>1, <1>4 DEF Connects, IsSent
<1>7. /\ is_connected'[h]
      /\ thread'[h] = "send"
      /\ peers'[h] = IF OpensSocket(h) THEN hosts[h] ELSE peers[h]
    <2>1. is_connected \in [Handles -> BOOLEAN] /\ thread \in [Handles -> {"none", "control", "clear",
              "send", "transmit", "move", "receive", "apply", "enqueue", "dead"}]
          /\ peers \in [Handles -> SUBSET Hosts]
        BY DEF TopologyInv, IndInv, TypeOK, HandleTypeOK
    <2>2. CASE OpensSocket(h)
        BY <2>1, <2>2 DEF ReceiveControl, OpenSocket, SetConnected, GoTo
    <2>3. CASE ~OpensSocket(h)
        <3>1. is_connected[h]
            BY <1>1, <1>4, <2>3 DEF Connects, OpensSocket
        <3>2. is_connected' = is_connected /\ peers' = peers
            BY <1>6, <2>3 DEF ReceiveControl
        <3> QED
            BY <2>1, <2>3, <3>1, <3>2 DEF ReceiveControl, GoTo
    <2> QED
        BY <2>2, <2>3
<1>8. CASE Head(control[h]) = CONTROL_MESSAGE_CONNECT_NEW_HOSTS
    <2>1. is_connected[h] /\ ~OpensSocket(h)
        BY <1>1, <1>4, <1>8 DEF Connects, OpensSocket, CONTROL_MESSAGE_CONNECT,
           CONTROL_MESSAGE_CONNECT_NEW_HOSTS, CONTROL_MESSAGE_RECONNECT
    <2>2. new_hosts[h] = {}
        BY <1>1, <1>8, <2>1 DEF TakesNewHosts
    <2>3. Reconnects(h) => Reconnects(h)'
        BY <1>4, <1>5, <1>8 DEF Reconnects, CONTROL_MESSAGE_CONNECT_NEW_HOSTS, CONTROL_MESSAGE_RECONNECT
    <2> QED
        BY <1>1, <1>3, <1>4, <1>5, <1>7, <2>1, <2>2, <2>3
        DEF Follows, FollowsTheHosts, Connects, Stopped
<1>9. CASE Head(control[h]) # CONTROL_MESSAGE_CONNECT_NEW_HOSTS
    <2>1. Reconnects(h) => Reconnects(h)' \/ OpensSocket(h)
        BY <1>4, <1>5 DEF Reconnects, OpensSocket
    <2>2. peers'[h] \subseteq Known \/ Reconnects(h)'
        BY <1>1, <1>7, <2>1 DEF FollowsTheHosts
    <2>3. new_hosts[h] \subseteq Known \/ NewBeforeReconnect(h)'
        BY <1>1, <1>4, <1>9 DEF FollowsTheHosts
    <2>4. new_hosts[h] # {} => IsSent(h, CONTROL_MESSAGE_CONNECT_NEW_HOSTS)'
        BY <1>1, <1>4, <1>5, <1>9 DEF FollowsTheHosts
    <2>5. ~IsSent(h, CONTROL_MESSAGE_DISCONNECT)'
        BY <1>1, <1>4, <1>5 DEF Connects
    <2> QED
        BY <1>1, <1>3, <1>7, <2>2, <2>3, <2>4, <2>5 DEF Follows, FollowsTheHosts, Connects, Stopped
<1> QED
    BY <1>8, <1>9

\* new_hosts_ is copied: what it holds is known, or a RECONNECT comes after the order.
LEMMA CopyNewHostsFollows ==
    ASSUME TopologyInv, NEW h \in Handles, CopyNewHosts(h), UNCHANGED serviceVars
    PROVE  Follows(h)'
<1>1. /\ thread[h] = "control" /\ control[h] # <<>> /\ control[h] \in Seq(ControlMessages)
      /\ FollowsTheHosts(h) /\ Connects(h) /\ is_connected[h]
      /\ Head(control[h]) = CONTROL_MESSAGE_CONNECT_NEW_HOSTS
    BY DEF CopyNewHosts, TakesNewHosts, TopologyInv, IndInv, TypeOK, HandleTypeOK, HandlesFollow,
       Follows, Stopped
<1>2. /\ control'[h] = Tail(control[h]) /\ thread'[h] = "clear" /\ copied'[h] = new_hosts[h]
      /\ UNCHANGED <<hosts, new_hosts, is_connected, peers>>
    BY <1>1 DEF CopyNewHosts, GoTo, TopologyInv, IndInv, TypeOK, HandleTypeOK
<1>3. Known' = Known
    BY DEF Known, serviceVars, mapVars, pingVars
<1>4. /\ \A t \in ControlMessages : IsSent(h, t)' => IsSent(h, t)
      /\ \A t \in ControlMessages : IsSent(h, t) => IsSent(h, t)' \/ t = Head(control[h])
      /\ NewBeforeReconnect(h) => Reconnects(h)'
    BY <1>1, <1>2, OrderTaken
<1>5. /\ CONTROL_MESSAGE_DISCONNECT \in ControlMessages /\ CONTROL_MESSAGE_RECONNECT \in ControlMessages
      /\ CONTROL_MESSAGE_CONNECT_NEW_HOSTS # CONTROL_MESSAGE_RECONNECT
    BY DEF ControlMessages, CONTROL_MESSAGE_CONNECT_NEW_HOSTS, CONTROL_MESSAGE_RECONNECT
<1>6. Reconnects(h) => Reconnects(h)'
    BY <1>1, <1>4, <1>5 DEF Reconnects
<1>7. FollowsTheHosts(h)'
    BY <1>1, <1>2, <1>3, <1>4, <1>6 DEF FollowsTheHosts
<1>8. Connects(h)'
    BY <1>1, <1>2, <1>4, <1>5 DEF Connects
<1> QED
    BY <1>2, <1>7, <1>8 DEF Follows, Stopped

LEMMA ClearNewHostsFollows ==
    ASSUME TopologyInv, NEW h \in Handles, ClearNewHosts(h), UNCHANGED serviceVars
    PROVE  Follows(h)'
<1>1. thread[h] = "clear" /\ FollowsTheHosts(h) /\ Connects(h)
    BY DEF ClearNewHosts, TopologyInv, HandlesFollow, Follows, Stopped
<1>2. /\ new_hosts'[h] = {} /\ peers'[h] = peers[h] \union copied[h] /\ thread'[h] = "send"
      /\ UNCHANGED <<hosts, control, is_connected>>
    BY DEF ClearNewHosts, GoTo, TopologyInv, IndInv, TypeOK, HandleTypeOK
<1>3. Known' = Known /\ connecting' = connecting
    BY DEF Known, serviceVars, mapVars, pingVars
<1>4. /\ Reconnects(h)' <=> Reconnects(h)
      /\ \A t : IsSent(h, t)' <=> IsSent(h, t)
    BY <1>2 DEF Reconnects, IsSent
<1>5. FollowsTheHosts(h)'
    BY <1>1, <1>2, <1>3, <1>4 DEF FollowsTheHosts
<1>6. Connects(h)'
    BY <1>1, <1>2, <1>3, <1>4 DEF Connects
<1> QED
    BY <1>2, <1>5, <1>6 DEF Follows, Stopped

\* A step of a thread, for its own handle and the others.
LEMMA ThreadFollows ==
    ASSUME TopologyInv, NEW h \in Handles, ThreadStep(h), UNCHANGED serviceVars
    PROVE  HandlesFollow'
<1>1. HandleTypeOK /\ \A g \in Handles : Follows(g)
    BY DEF TopologyInv, IndInv, TypeOK, HandlesFollow
<1>2. Known' = Known /\ connecting' = connecting
    BY DEF Known, serviceVars, mapVars, pingVars
<1>3. ASSUME NEW g \in Handles, g # h
      PROVE  Follows(g)'
    <2>1. /\ hosts'[g] = hosts[g] /\ new_hosts'[g] = new_hosts[g] /\ copied'[g] = copied[g]
          /\ peers'[g] = peers[g] /\ control'[g] = control[g] /\ is_connected'[g] = is_connected[g]
          /\ thread'[g] = thread[g]
        BY <1>1, <1>3 DEF HandleTypeOK, ThreadStep, ReceiveNothing, ReceiveControl, CopyNewHosts,
           ClearNewHosts, ReceiveKill, CountNewMessages, TransmitMessage, MoveMessage, NoResponse,
           ReceiveResponse, ApplyRefusal, ApplyFinal, GoTo, OpenSocket, SetConnected, sharedVars
    <2> QED
        BY <1>1, <1>2, <2>1, FollowsStays
<1>4. Follows(h)'
    <2>1. CASE ReceiveControl(h)
        BY <2>1, ReceiveControlFollows
    <2>2. CASE CopyNewHosts(h)
        BY <2>2, CopyNewHostsFollows
    <2>3. CASE ClearNewHosts(h)
        BY <2>3, ClearNewHostsFollows
    <2>4. CASE ReceiveKill(h)
        BY <1>1, <2>4 DEF ReceiveKill, OpenSocket, GoTo, HandleTypeOK, Follows, Stopped
    <2>5. CASE \/ ReceiveNothing(h) \/ CountNewMessages(h) \/ TransmitMessage(h) \/ MoveMessage(h)
               \/ NoResponse(h) \/ ReceiveResponse(h) \/ ApplyRefusal(h) \/ ApplyFinal(h)
        <3>1. /\ hosts' = hosts /\ new_hosts' = new_hosts /\ copied' = copied
              /\ peers' = peers /\ control' = control /\ is_connected' = is_connected
              /\ {thread[h], thread'[h]} \intersect {"none", "dead", "clear"} = {}
            BY <1>1, <2>5 DEF HandleTypeOK, ReceiveNothing, CountNewMessages, TransmitMessage,
               MoveMessage, NoResponse, ReceiveResponse, ApplyRefusal, ApplyFinal, GoTo, sharedVars
        <3> QED
            BY <1>1, <1>2, <3>1, FollowsStays
    <2> QED
        BY <2>1, <2>2, <2>3, <2>4, <2>5 DEF ThreadStep
<1> QED
    BY <1>3, <1>4 DEF HandlesFollow

-----------------------------------------------------------------------------
(* The ping thread.                                                          *)

\* An order that changes nothing but where the thread is told of it later: DISCONNECT as
\* text, KILL.
LEMMA OrderFollows ==
    ASSUME TopologyInv, NEW h \in Handles, ping # "connect",
           NEW type \in ControlMessages \ {CONTROL_MESSAGE_DISCONNECT}, SendControl(h, type),
           UNCHANGED <<hosts, new_hosts, threadVars, service_hosts, dropped, connecting>>
    PROVE  HandlesFollow'
<1>1. HandleTypeOK /\ (\A g \in Handles : Follows(g)) /\ connecting = None
    BY DEF TopologyInv, IndInv, TypeOK, HandlesFollow, ReportApplied
<1>2. Known' = Known
    BY DEF Known
<1>3. ASSUME NEW g \in Handles, g # h
      PROVE  Follows(g)'
    <2>1. control'[g] = control[g]
        BY <1>1, <1>3 DEF SendControl, HandleTypeOK
    <2> QED
        BY <1>1, <1>2, <2>1, FollowsStays DEF threadVars
<1>4. Follows(h)'
    <2>1. control[h] \in Seq(ControlMessages) /\ control'[h] = Append(control[h], type)
        BY <1>1 DEF SendControl, HandleTypeOK
    <2>2. /\ \A t \in ControlMessages : IsSent(h, t)' <=> IsSent(h, t) \/ t = type
          /\ NewBeforeReconnect(h) => NewBeforeReconnect(h)'
          /\ control'[h] # <<>>
          /\ control'[h][1] = IF control[h] = <<>> THEN type ELSE control[h][1]
        BY <2>1, OrderAppended
    <2>3. /\ CONTROL_MESSAGE_DISCONNECT \in ControlMessages /\ CONTROL_MESSAGE_RECONNECT \in ControlMessages
          /\ CONTROL_MESSAGE_CONNECT_NEW_HOSTS \in ControlMessages
        BY DEF ControlMessages
    <2>4. Reconnects(h) => Reconnects(h)'
        BY <2>2, <2>3 DEF Reconnects
    <2>5. FollowsTheHosts(h) => FollowsTheHosts(h)'
        <3>1. SUFFICES ASSUME FollowsTheHosts(h) PROVE FollowsTheHosts(h)'
            OBVIOUS
        <3>2. IsSent(h, CONTROL_MESSAGE_CONNECT_NEW_HOSTS) => IsSent(h, CONTROL_MESSAGE_CONNECT_NEW_HOSTS)'
            BY <2>2, <2>3
        <3> QED
            BY <1>2, <2>2, <2>4, <3>1, <3>2 DEF FollowsTheHosts, threadVars
    <2>6. Connects(h) => Connects(h)'
        <3>1. connecting # h
            BY <1>1, ServiceConstants
        <3> QED
            BY <2>2, <2>3, <3>1 DEF Connects, threadVars
    <2> QED
        BY <1>1, <2>5, <2>6 DEF Follows, Stopped, threadVars
<1> QED
    BY <1>3, <1>4 DEF HandlesFollow

\* What RECONNECT does for a handle that exists, when hosts were dropped.
LEMMA ReconnectFollows ==
    ASSUME TopologyInv, NEW h \in handles, ping = "hosts",
           ReconnectAll(handles, service_hosts), service_hosts # {},
           UNCHANGED <<service_hosts, connecting>>, dropped' = {}
    PROVE  Follows(h)'
<1>1. /\ h \in Handles /\ HandleTypeOK /\ Follows(h) /\ connecting # h
    BY ServiceConstants DEF TopologyInv, IndInv, TypeOK, HandlesFollow, ReportApplied
<1>2. /\ control[h] \in Seq(ControlMessages)
      /\ control'[h] = Append(control[h], CONTROL_MESSAGE_RECONNECT)
      /\ hosts'[h] = service_hosts
      /\ UNCHANGED <<thread, is_connected, copied, peers, new_hosts>>
    BY <1>1 DEF ReconnectAll, HandleTypeOK, threadVars
<1>3. /\ CONTROL_MESSAGE_DISCONNECT \in ControlMessages /\ CONTROL_MESSAGE_RECONNECT \in ControlMessages
      /\ CONTROL_MESSAGE_CONNECT_NEW_HOSTS \in ControlMessages
      /\ CONTROL_MESSAGE_DISCONNECT # CONTROL_MESSAGE_RECONNECT
    BY DEF ControlMessages, CONTROL_MESSAGE_DISCONNECT, CONTROL_MESSAGE_RECONNECT
<1>4. /\ \A t \in ControlMessages : IsSent(h, t)' <=> IsSent(h, t) \/ t = CONTROL_MESSAGE_RECONNECT
      /\ IsSent(h, CONTROL_MESSAGE_CONNECT_NEW_HOSTS) => NewBeforeReconnect(h)'
      /\ control'[h] # <<>>
      /\ control'[h][1] = IF control[h] = <<>> THEN CONTROL_MESSAGE_RECONNECT ELSE control[h][1]
    BY <1>1, <1>2, <1>3, OrderAppended
<1>5. Reconnects(h)'
    BY <1>3, <1>4 DEF Reconnects
<1>6. hosts'[h] \subseteq Known'
    BY <1>2 DEF Known
<1>7. IsSent(h, CONTROL_MESSAGE_CONNECT_NEW_HOSTS) => IsSent(h, CONTROL_MESSAGE_CONNECT_NEW_HOSTS)'
    BY <1>3, <1>4
<1>8. FollowsTheHosts(h) => FollowsTheHosts(h)'
    BY <1>2, <1>4, <1>5, <1>6, <1>7 DEF FollowsTheHosts
<1>9. Connects(h) => Connects(h)'
    BY <1>1, <1>2, <1>3, <1>4 DEF Connects
<1> QED
    BY <1>1, <1>2, <1>8, <1>9 DEF Follows, Stopped

\* What CONNECT_NEW_HOSTS does for a handle that exists.
LEMMA NewHostsFollow ==
    ASSUME TopologyInv, NEW h \in handles, ping = "hosts",
           ConnectAllToNewHosts(handles, added),
           UNCHANGED <<service_hosts, connecting>>, dropped = {}, dropped' = {}
    PROVE  Follows(h)'
<1>1. /\ h \in Handles /\ HandleTypeOK /\ Follows(h) /\ connecting # h /\ added \subseteq Known
    BY ServiceConstants DEF TopologyInv, IndInv, TypeOK, HandlesFollow, ReportApplied, Known
<1>2. /\ control[h] \in Seq(ControlMessages)
      /\ control'[h] = Append(control[h], CONTROL_MESSAGE_CONNECT_NEW_HOSTS)
      /\ new_hosts'[h] = new_hosts[h] \union added
      /\ UNCHANGED <<thread, is_connected, copied, peers, hosts>>
    BY <1>1 DEF ConnectAllToNewHosts, HandleTypeOK, threadVars
<1>3. /\ CONTROL_MESSAGE_DISCONNECT \in ControlMessages /\ CONTROL_MESSAGE_RECONNECT \in ControlMessages
      /\ CONTROL_MESSAGE_CONNECT_NEW_HOSTS \in ControlMessages
      /\ CONTROL_MESSAGE_DISCONNECT # CONTROL_MESSAGE_CONNECT_NEW_HOSTS
    BY DEF ControlMessages, CONTROL_MESSAGE_DISCONNECT, CONTROL_MESSAGE_CONNECT_NEW_HOSTS
<1>4. /\ \A t \in ControlMessages : IsSent(h, t)' <=> IsSent(h, t) \/ t = CONTROL_MESSAGE_CONNECT_NEW_HOSTS
      /\ NewBeforeReconnect(h) => NewBeforeReconnect(h)'
      /\ control'[h] # <<>>
      /\ control'[h][1] = IF control[h] = <<>> THEN CONTROL_MESSAGE_CONNECT_NEW_HOSTS ELSE control[h][1]
    BY <1>1, <1>2, <1>3, OrderAppended
<1>5. Reconnects(h) => Reconnects(h)'
    BY <1>3, <1>4 DEF Reconnects
<1>6. Known' = Known
    BY DEF Known
<1>7. IsSent(h, CONTROL_MESSAGE_CONNECT_NEW_HOSTS)'
    BY <1>3, <1>4
<1>8. FollowsTheHosts(h) => FollowsTheHosts(h)'
    BY <1>1, <1>2, <1>4, <1>5, <1>6, <1>7 DEF FollowsTheHosts
<1>9. Connects(h) => Connects(h)'
    BY <1>1, <1>2, <1>3, <1>4 DEF Connects
<1> QED
    BY <1>1, <1>2, <1>8, <1>9 DEF Follows, Stopped

LEMMA UpdateHostsFollows ==
    ASSUME TopologyInv, UpdateHosts
    PROVE  HandlesFollow'
<1>1. /\ HandleTypeOK /\ handles \subseteq Handles /\ (\A g \in Handles : Follows(g))
      /\ ping = "hosts" /\ dropped' = {} /\ UNCHANGED <<service_hosts, connecting, threadVars>>
    BY DEF TopologyInv, IndInv, TypeOK, HandlesFollow, UpdateHosts, mapVars, handleVars,
       ReconnectAll, ConnectAllToNewHosts
<1>2. ASSUME NEW g \in Handles, g \notin handles
      PROVE  Follows(g)'
    BY <1>1, <1>2 DEF TopologyInv, IndInv, NoHandleNoCache, Follows, Stopped, threadVars
<1>3. ASSUME NEW g \in handles
      PROVE  Follows(g)'
    <2>1. CASE dropped # {}
        <3>1. service_hosts # {}
            BY <1>1, <1>3 DEF TopologyInv, ReportApplied, Locked
        <3>2. ReconnectAll(handles, service_hosts)
            BY <2>1 DEF UpdateHosts
        <3> QED
            BY <1>1, <3>1, <3>2, ReconnectFollows
    <2>2. CASE dropped = {} /\ added # {}
        BY <1>1, <2>2, NewHostsFollow DEF UpdateHosts
    <2>3. CASE dropped = {} /\ added = {}
        <3>1. UNCHANGED handleVars /\ Known' = Known
            BY <1>1, <2>3 DEF UpdateHosts, Known
        <3> QED
            BY <1>1, <3>1, FollowsStays DEF handleVars, threadVars, sharedVars
    <2> QED
        BY <2>1, <2>2, <2>3
<1> QED
    BY <1>2, <1>3 DEF HandlesFollow

\* A new handle has the hosts of the report, and nobody has told it of them.
LEMMA CreateFollows ==
    ASSUME TopologyInv, NEW i \in Infos, CreateHandle(i)
    PROVE  HandlesFollow'
<1> DEFINE h == i.name
<1>1. /\ h \in Handles /\ HandleTypeOK /\ (\A g \in Handles : Follows(g))
      /\ thread[h] = "none" /\ connecting = None /\ connecting' = h
      /\ Known' = Known
    BY DEF TopologyInv, IndInv, TypeOK, HandlesFollow, CreateHandle, Infos, NoHandleNoCache, ReportApplied,
       Known
<1>2. /\ thread' = [thread EXCEPT ![h] = "control"]
      /\ is_connected' = [is_connected EXCEPT ![h] = FALSE]
      /\ hosts' = [hosts EXCEPT ![h] = service_hosts]
      /\ new_hosts' = [new_hosts EXCEPT ![h] = {}]
      /\ control' = [control EXCEPT ![h] = <<>>]
      /\ UNCHANGED <<copied, peers>>
    BY DEF CreateHandle, ConstructHandle, GoTo
<1>3. ASSUME NEW g \in Handles, g # h
      PROVE  Follows(g)'
    <2>1. /\ hosts'[g] = hosts[g] /\ new_hosts'[g] = new_hosts[g] /\ control'[g] = control[g]
          /\ is_connected'[g] = is_connected[g] /\ thread'[g] = thread[g] /\ connecting # g
        BY <1>1, <1>2, <1>3, ServiceConstants DEF HandleTypeOK
    <2> QED
        BY <1>1, <1>2, <2>1, FollowsStays
<1>4. Follows(h)'
    <2>1. /\ thread'[h] = "control" /\ hosts'[h] = service_hosts /\ new_hosts'[h] = {}
          /\ control'[h] = <<>> /\ peers'[h] = {}
        BY <1>1, <1>2 DEF HandleTypeOK, Follows, Stopped
    <2>2. \A t : ~IsSent(h, t)'
        BY <1>2, <2>1 DEF IsSent
    <2>3. service_hosts \subseteq Known'
        BY <1>1 DEF Known
    <2> QED
        BY <1>1, <1>2, <2>1, <2>2, <2>3 DEF Follows, FollowsTheHosts, Connects, Stopped
<1> QED
    BY <1>3, <1>4 DEF HandlesFollow

\* CONNECT is its first order: the report that named it has hosts.
LEMMA ConnectFollows ==
    ASSUME TopologyInv, ConnectHandle
    PROVE  HandlesFollow'
<1>1. PICK h \in Handles : h = connecting
    BY DEF TopologyInv, IndInv, TypeOK, ConnectHandle, ReportApplied
<1>2. /\ HandleTypeOK /\ (\A g \in Handles : Follows(g)) /\ service_hosts # {}
      /\ connecting' = None /\ Known' = Known /\ UNCHANGED threadVars
    BY DEF TopologyInv, IndInv, TypeOK, HandlesFollow, ConnectHandle, ReportApplied, Known, mapVars, Connect
<1>3. CASE is_connected[h]
    <2>1. UNCHANGED <<hosts, new_hosts, control, service_hosts>>
        BY <1>1, <1>3 DEF ConnectHandle, Connect, sharedVars, mapVars
    <2>2. ASSUME NEW g \in Handles
          PROVE  Follows(g)'
        <3>1. CASE g # h
            BY <1>1, <1>2, <2>1, <3>1, FollowsStays DEF threadVars
        <3>2. CASE g = h
            <4>1. /\ Stopped(h)' <=> Stopped(h)
                  /\ FollowsTheHosts(h)' <=> FollowsTheHosts(h)
                  /\ IsSent(h, CONTROL_MESSAGE_DISCONNECT)' <=> IsSent(h, CONTROL_MESSAGE_DISCONNECT)
                BY <1>2, <2>1 DEF Stopped, FollowsTheHosts, Reconnects, IsSent, NewBeforeReconnect, threadVars
            <4> QED
                BY <1>2, <1>3, <3>2, <4>1 DEF Follows, Connects, threadVars
        <3> QED
            BY <3>1, <3>2
    <2> QED
        BY <2>2 DEF HandlesFollow
<1>4. CASE ~is_connected[h]
    <2>1. /\ hosts' = [hosts EXCEPT ![h] = service_hosts]
          /\ control' = [control EXCEPT ![h] = Append(@, CONTROL_MESSAGE_CONNECT)]
          /\ new_hosts' = new_hosts
        BY <1>1, <1>2, <1>4 DEF ConnectHandle, Connect, SendControl
    <2>2. ASSUME NEW g \in Handles, g # h
          PROVE  Follows(g)'
        BY <1>1, <1>2, <2>1, <2>2, FollowsStays DEF HandleTypeOK, threadVars
    <2>3. Follows(h)'
        <3>1. /\ control[h] \in Seq(ControlMessages) /\ hosts'[h] = service_hosts
              /\ control'[h] = Append(control[h], CONTROL_MESSAGE_CONNECT)
            BY <1>2, <2>1 DEF HandleTypeOK
        <3>2. /\ CONTROL_MESSAGE_DISCONNECT \in ControlMessages /\ CONTROL_MESSAGE_RECONNECT \in ControlMessages
              /\ CONTROL_MESSAGE_CONNECT_NEW_HOSTS \in ControlMessages
              /\ CONTROL_MESSAGE_CONNECT \in ControlMessages
              /\ CONTROL_MESSAGE_DISCONNECT # CONTROL_MESSAGE_CONNECT
            BY DEF ControlMessages, CONTROL_MESSAGE_DISCONNECT, CONTROL_MESSAGE_CONNECT
        <3>3. /\ \A t \in ControlMessages : IsSent(h, t)' <=> IsSent(h, t) \/ t = CONTROL_MESSAGE_CONNECT
              /\ NewBeforeReconnect(h) => NewBeforeReconnect(h)'
              /\ control'[h] # <<>>
              /\ control'[h][1] = IF control[h] = <<>> THEN CONTROL_MESSAGE_CONNECT ELSE control[h][1]
            BY <3>1, <3>2, OrderAppended
        <3>4. Reconnects(h) => Reconnects(h)'
            BY <3>2, <3>3 DEF Reconnects
        <3>5. hosts'[h] \subseteq Known'
            BY <1>2, <3>1 DEF Known
        <3>6. IsSent(h, CONTROL_MESSAGE_CONNECT_NEW_HOSTS) => IsSent(h, CONTROL_MESSAGE_CONNECT_NEW_HOSTS)'
            BY <3>2, <3>3
        <3>7. FollowsTheHosts(h) => FollowsTheHosts(h)'
            BY <1>2, <2>1, <3>3, <3>4, <3>5, <3>6 DEF FollowsTheHosts, threadVars
        <3>8. Connects(h) => Connects(h)'
            BY <1>4, <3>2, <3>3 DEF Connects
        <3> QED
            BY <1>2, <3>7, <3>8 DEF Follows, Stopped, threadVars
    <2> QED
        BY <2>2, <2>3 DEF HandlesFollow
<1> QED
    BY <1>3, <1>4

\* A step that touches nothing the threads follow.
LEMMA QuietFollows ==
    ASSUME TopologyInv, Known \subseteq Known',
           UNCHANGED <<hosts, new_hosts, copied, peers, control, is_connected, connecting>>,
           \A h \in Handles :
               \/ thread'[h] = thread[h]
               \/ {thread[h], thread'[h]} \intersect {"none", "dead", "clear"} = {}
    PROVE  HandlesFollow'
<1>1. \A h \in Handles : Follows(h)
    BY DEF TopologyInv, HandlesFollow
<1>2. ASSUME NEW h \in Handles
      PROVE  Follows(h)'
    BY <1>1, FollowsStays
<1> QED
    BY <1>2 DEF HandlesFollow

LEMMA RemoveFollows ==
    ASSUME TopologyInv, NEW h \in Handles, RemoveHandle(h)
    PROVE  HandlesFollow'
<1>1. Character(CONTROL_MESSAGE_DISCONNECT) \in ControlMessages \ {CONTROL_MESSAGE_DISCONNECT}
    BY DEF Character, ControlMessages, CONTROL_MESSAGE_DISCONNECT
<1>2. /\ SendControl(h, Character(CONTROL_MESSAGE_DISCONNECT)) /\ ping # "connect"
      /\ UNCHANGED <<hosts, new_hosts, threadVars, service_hosts, dropped, connecting>>
    BY DEF RemoveHandle, Disconnect, mapVars
<1> QED
    BY <1>1, <1>2, OrderFollows

LEMMA KillFollows ==
    ASSUME TopologyInv, KillHandle
    PROVE  HandlesFollow'
<1>1. CONTROL_MESSAGE_KILL \in ControlMessages \ {CONTROL_MESSAGE_DISCONNECT}
    BY DEF ControlMessages, CONTROL_MESSAGE_DISCONNECT, CONTROL_MESSAGE_KILL
<1>2. victim \in Handles
    BY DEF TopologyInv, IndInv, TypeOK, VictimIsHandle, KillHandle
<1>3. /\ SendControl(victim, CONTROL_MESSAGE_KILL) /\ ping # "connect"
      /\ UNCHANGED <<hosts, new_hosts, threadVars, service_hosts, dropped, connecting>>
    BY DEF KillHandle, Kill
<1> QED
    BY <1>1, <1>2, <1>3, OrderFollows

\* The thread that is joined has closed its socket.
LEMMA JoinFollows ==
    ASSUME TopologyInv, JoinHandle
    PROVE  HandlesFollow'
<1>0. PICK h \in Handles : h = victim
    BY DEF TopologyInv, IndInv, TypeOK, VictimIsHandle, JoinHandle
<1>1. HandleTypeOK /\ \A g \in Handles : Follows(g)
    BY DEF TopologyInv, IndInv, TypeOK, HandlesFollow
<1>2. /\ thread[h] = "dead"
      /\ thread' = [thread EXCEPT ![h] = "none"]
      /\ is_connected' = [is_connected EXCEPT ![h] = FALSE]
      /\ hosts' = [hosts EXCEPT ![h] = {}]
      /\ new_hosts' = [new_hosts EXCEPT ![h] = {}]
      /\ UNCHANGED <<control, copied, peers, connecting>>
      /\ Known' = Known
    BY <1>0 DEF JoinHandle, DestroyHandle, GoTo, Known
<1>3. ASSUME NEW g \in Handles, g # h
      PROVE  Follows(g)'
    <2>1. /\ hosts'[g] = hosts[g] /\ new_hosts'[g] = new_hosts[g]
          /\ is_connected'[g] = is_connected[g] /\ thread'[g] = thread[g]
        BY <1>1, <1>2, <1>3 DEF HandleTypeOK
    <2> QED
        BY <1>1, <1>2, <2>1, FollowsStays
<1>4. Follows(h)'
    <2>1. thread'[h] = "none" /\ peers'[h] = {}
        BY <1>1, <1>2 DEF HandleTypeOK, Follows, Stopped
    <2> QED
        BY <2>1 DEF Follows, Stopped
<1> QED
    BY <1>3, <1>4 DEF HandlesFollow

\* What was known is live or dropped.
LEMMA BeginFollows ==
    ASSUME TopologyInv, NEW v \in Views, BeginRefresh(v)
    PROVE  HandlesFollow'
<1>1. dropped = {}
    BY DEF TopologyInv, ReportApplied, BeginRefresh, Locked
<1>2. service_hosts' = v.hosts /\ dropped' = service_hosts \ v.hosts
    BY DEF BeginRefresh
<1>3. Known \subseteq Known'
    BY <1>1, <1>2 DEF Known
<1>4. UNCHANGED <<hosts, new_hosts, copied, peers, control, is_connected, connecting, thread>>
    BY DEF BeginRefresh, handleVars, threadVars, sharedVars
<1> QED
    BY <1>3, <1>4, QuietFollows

LEMMA HandlesFollowStep ==
    ASSUME TopologyInv, [Next]_vars
    PROVE  HandlesFollow'
<1>1. CASE \E m \in Messages : Send(m)
    <2>1. Known' = Known /\ UNCHANGED <<hosts, new_hosts, copied, peers, control, is_connected, connecting, thread>>
        BY <1>1 DEF Send, Known, handleVars, threadVars, sharedVars, pingVars
    <2> QED
        BY <2>1, QuietFollows
<1>2. CASE \E h \in Handles : Register(h)
    <2>1. Known' = Known /\ UNCHANGED <<hosts, new_hosts, copied, peers, control, is_connected, connecting, thread>>
        BY <1>2 DEF Register, Known, handleVars, threadVars, sharedVars, pingVars, mapVars
    <2> QED
        BY <2>1, QuietFollows
<1>3. CASE \E h \in Handles : HandleStep(h)
    BY <1>3, ThreadFollows DEF HandleStep
<1>4. ASSUME NEW h \in Handles, EnqueueResponse(h)
      PROVE  HandlesFollow'
    <2>1. /\ Known' = Known /\ UNCHANGED <<hosts, new_hosts, copied, peers, control, is_connected, connecting>>
          /\ thread[h] = "enqueue" /\ thread' = [thread EXCEPT ![h] = "receive"]
        BY <1>4 DEF EnqueueResponse, GoTo, Known, sharedVars, pingVars, mapVars
    <2>2. thread \in [Handles -> {"none", "control", "clear", "send", "transmit", "move",
                               "receive", "apply", "enqueue", "dead"}]
        BY DEF TopologyInv, IndInv, TypeOK, HandleTypeOK
    <2>3. ASSUME NEW g \in Handles
          PROVE  \/ thread'[g] = thread[g]
                 \/ {thread[g], thread'[g]} \intersect {"none", "dead", "clear"} = {}
        <3>1. CASE g = h
            <4>1. thread[g] = "enqueue" /\ thread'[g] = "receive"
                BY <2>1, <2>2, <3>1
            <4> QED
                BY <4>1
        <3>2. CASE g # h
            BY <2>1, <2>2, <3>2
        <3> QED
            BY <3>1, <3>2
    <2> QED
        BY <2>1, <2>3, QuietFollows
<1>5. CASE DispatchPass
    <2>1. Known' = Known /\ UNCHANGED <<hosts, new_hosts, copied, peers, control, is_connected, connecting, thread>>
        BY <1>5 DEF DispatchPass, Known, handleVars, threadVars, sharedVars, pingVars, mapVars
    <2> QED
        BY <2>1, QuietFollows
<1>6. CASE \E v \in Views : BeginRefresh(v)
    BY <1>6, BeginFollows
<1>7. CASE Refresh
    <2>1. CASE CollectMessages
        <3>1. Known' = Known /\ UNCHANGED <<hosts, new_hosts, copied, peers, control, is_connected, connecting, thread>>
            BY <2>1 DEF CollectMessages, Known, handleVars, threadVars, sharedVars, mapVars
        <3> QED
            BY <3>1, QuietFollows
    <2>2. CASE \E i \in Infos : CreateFails(i)
        <3>1. Known' = Known /\ UNCHANGED <<hosts, new_hosts, copied, peers, control, is_connected, connecting, thread>>
            BY <2>2 DEF CreateFails, Known, handleVars, threadVars, sharedVars, mapVars
        <3> QED
            BY <3>1, QuietFollows
    <2> QED
        BY <1>7, <2>1, <2>2, RemoveFollows, KillFollows, JoinFollows, UpdateHostsFollows, CreateFollows,
           ConnectFollows DEF Refresh
<1>8. CASE \E h \in Handles, m \in Messages : WorkersStep(h, m)
    <2>1. Known' = Known /\ UNCHANGED <<hosts, new_hosts, copied, peers, control, is_connected, connecting, thread>>
        BY <1>8 DEF WorkersStep, WorkerStep, WorkerChunk, WorkerFinal, WorkerRefuses, HostLost, Known,
           serviceVars, mapVars, pingVars, threadVars, sharedVars
    <2> QED
        BY <2>1, QuietFollows
<1>9. CASE UNCHANGED vars
    <2>1. Known' = Known /\ UNCHANGED <<hosts, new_hosts, copied, peers, control, is_connected, connecting, thread>>
        BY <1>9 DEF vars, Known, handleVars, threadVars, sharedVars, pingVars, mapVars, serviceVars
    <2> QED
        BY <2>1, QuietFollows
<1> QED
    BY <1>1, <1>2, <1>3, <1>4, <1>5, <1>6, <1>7, <1>8, <1>9 DEF Next

-----------------------------------------------------------------------------
(* The report.                                                               *)

LEMMA ReportAppliedStep ==
    ASSUME TopologyInv, [Next]_vars
    PROVE  ReportApplied'
<1> DEFINE leaving == IF ping \in {"collect", "kill", "join"} THEN {victim} ELSE {}
<1>1. ReportApplied /\ None \notin Handles
    BY ServiceConstants DEF TopologyInv
<1>2. ASSUME UNCHANGED <<pingVars, handles, service_hosts>>
      PROVE  ReportApplied'
    BY <1>1, <1>2 DEF ReportApplied, Locked, pingVars
<1>3. CASE \/ \E m \in Messages : Send(m)
           \/ \E h \in Handles : Register(h) \/ HandleStep(h) \/ EnqueueResponse(h)
           \/ DispatchPass
           \/ \E h \in Handles, m \in Messages : WorkersStep(h, m)
           \/ UNCHANGED vars
    <2>1. UNCHANGED <<pingVars, handles, service_hosts>>
        BY <1>3 DEF Send, Register, HandleStep, EnqueueResponse, DispatchPass, WorkersStep, vars,
           serviceVars, mapVars
    <2> QED
        BY <1>2, <2>1
<1>4. ASSUME NEW v \in Views, BeginRefresh(v)
      PROVE  ReportApplied'
    <2>1. /\ ping = "idle" /\ view' = v /\ service_hosts' = v.hosts
          /\ added' = v.hosts \ service_hosts /\ fresh' = NewInfos(v)
          /\ outstanding' = OutstandingHandles(v) /\ UNCHANGED <<handles, connecting>>
          /\ ping' = IF outstanding' = {} THEN "hosts" ELSE "remove"
        BY <1>4 DEF BeginRefresh
    <2>2. NewInfos(v) \subseteq v.infos
        BY DEF NewInfos
    <2>3. v.infos = {} => OutstandingHandles(v) = handles
        BY DEF OutstandingHandles
    <2>4. v.hosts = {} <=> v.infos = {}
        BY ServiceConstants
    <2> QED
        BY <1>1, <2>1, <2>2, <2>3, <2>4 DEF ReportApplied, Locked
<1>5. CASE Refresh
    <2>1. ASSUME NEW h \in Handles, RemoveHandle(h)
          PROVE  ReportApplied'
        BY <1>1, <2>1 DEF RemoveHandle, ReportApplied, Locked, mapVars
    <2>2. CASE CollectMessages
        BY <1>1, <2>2 DEF CollectMessages, ReportApplied, Locked, mapVars
    <2>3. CASE KillHandle
        BY <1>1, <2>3 DEF KillHandle, ReportApplied, Locked
    <2>4. CASE JoinHandle
        BY <1>1, <2>4 DEF JoinHandle, ReportApplied, Locked
    <2>5. CASE UpdateHosts
        BY <1>1, <2>5 DEF UpdateHosts, AfterHosts, ReportApplied, Locked, mapVars
    <2>6. ASSUME NEW i \in Infos, CreateHandle(i)
          PROVE  ReportApplied'
        <3>1. i.name # None
            BY <1>1 DEF Infos
        <3> QED
            BY <1>1, <2>6, <3>1 DEF CreateHandle, ReportApplied, Locked
    <2>7. ASSUME NEW i \in Infos, CreateFails(i)
          PROVE  ReportApplied'
        BY <1>1, <2>7 DEF CreateFails, ReportApplied, Locked, mapVars
    <2>8. CASE ConnectHandle
        BY <1>1, <2>8 DEF ConnectHandle, AfterHosts, ReportApplied, Locked, mapVars
    <2> QED
        BY <1>5, <2>1, <2>2, <2>3, <2>4, <2>5, <2>6, <2>7, <2>8 DEF Refresh
<1> QED
    BY <1>3, <1>4, <1>5 DEF Next

-----------------------------------------------------------------------------
LEMMA TopologyInit == Init => TopologyInv
<1> SUFFICES ASSUME Init PROVE TopologyInv
    OBVIOUS
<1>1. IndInv
    BY IndInvInit
<1>2. HandlesFollow
    BY DEF Init, HandleInit, HandlesFollow, Follows, Stopped
<1>3. ReportApplied
    BY DEF Init, ReportApplied, Locked
<1> QED
    BY <1>1, <1>2, <1>3 DEF TopologyInv

\* What the invariant says of a handle whose thread has nothing to be told.
LEMMA TopologyShowsPeers == TopologyInv => NoStalePeer
<1> SUFFICES ASSUME TopologyInv, NEW h \in handles, ~TopologyPending(h)
             PROVE  peers[h] \subseteq service_hosts
    BY DEF NoStalePeer
<1>1. /\ h \in Handles /\ Follows(h) /\ control[h] \in Seq(ControlMessages)
      /\ Known = service_hosts
    BY DEF TopologyInv, IndInv, TypeOK, HandleTypeOK, HandlesFollow, ReportApplied, Known,
       TopologyPending
<1>2. ~Reconnects(h)
    <2>1. \A i \in DOMAIN control[h] : control[h][i] \in Range(control[h])
        BY DEF Range
    <2> QED
        BY <2>1 DEF TopologyPending, Reconnects, IsSent
<1> QED
    BY <1>1, <1>2 DEF Follows, FollowsTheHosts

\* No handle of a service is ever connected to a host the collector no longer reports, once
\* the RECONNECT it was sent has been taken: connect_new_hosts is ordered before the reconnect
\* that follows it, and the hosts it adds come from a report in force
\* (handle.hpp:344-372, 771-818, service.hpp:397-410).
THEOREM NoPeerIsStale == Spec => []NoStalePeer
<1>1. Init => TopologyInv
    BY TopologyInit
<1>2. TopologyInv /\ [Next]_vars => TopologyInv'
    BY IndInvStep, HandlesFollowStep, ReportAppliedStep DEF TopologyInv
<1>3. TopologyInv => NoStalePeer
    BY TopologyShowsPeers
<1> QED
    BY <1>1, <1>2, <1>3, PTL DEF Spec


-----------------------------------------------------------------------------
(***************************************************************************)
(* The refresh: it goes on to its end, and what is left then is what the   *)
(* report calls for.                                                       *)
(*                                                                         *)
(* The argument.  KILL is sent to the handle that is joined and to no      *)
(* other, and nothing is sent to it after that, so that KILL is its last   *)
(* order until it is read; no other thread ends (Runs).  The handle being  *)
(* removed is the victim from the moment it is chosen until it is joined,  *)
(* and what is neither outstanding nor the victim was found in the report  *)
(* or created from it (RefreshPlace).                                      *)
(***************************************************************************)

Joined(h) == ping = "join" /\ victim = h

\* How the thread of h stands to its handle and to KILL.
Runs(h) ==
    /\ h \in handles => thread[h] # "none"
    /\ thread[h] = "dead" => Joined(h) /\ control[h] = <<>>
    /\ IsSent(h, CONTROL_MESSAGE_KILL) => Joined(h)
    /\ Joined(h) /\ thread[h] # "dead" =>
          control[h] # <<>> /\ control[h][Len(control[h])] = CONTROL_MESSAGE_KILL
    /\ thread[h] = "apply" => reply[h].kind # "chunk"
ThreadsRun == \A h \in Handles : Runs(h)

\* Where the ping thread is with the handles of the last report.
RefreshPlace ==
    /\ ping = "remove" => outstanding # {}
    /\ ping = "create" => fresh # {}
    /\ ping = "connect" => connecting \in handles
    /\ ping \notin {"collect", "kill", "join"} => victim = None
    /\ \A h \in handles \ (outstanding \union {victim}) : Info(h) \in view.infos

RefreshInv == TopologyInv /\ ThreadsRun /\ RefreshPlace

\* A step that leaves the orders of h and the removal alone.
LEMMA RunsStays ==
    ASSUME NEW h \in Handles, Runs(h), control'[h] = control[h],
           h \in handles' => h \in handles, Joined(h)' <=> Joined(h),
           \/ thread'[h] = thread[h]
           \/ {thread[h], thread'[h]} \intersect {"none", "dead"} = {},
           thread'[h] = "apply" => thread[h] = "apply" /\ reply'[h] = reply[h]
    PROVE  Runs(h)'
<1>1. IsSent(h, CONTROL_MESSAGE_KILL)' <=> IsSent(h, CONTROL_MESSAGE_KILL)
    BY DEF IsSent, CONTROL_MESSAGE_KILL
<1>2. h \in handles' => thread'[h] # "none"
    BY DEF Runs
<1>3. thread'[h] = "dead" => Joined(h)' /\ control'[h] = <<>>
    BY DEF Runs
<1>4. Joined(h)' /\ thread'[h] # "dead" =>
          control'[h] # <<>> /\ control'[h][Len(control'[h])] = CONTROL_MESSAGE_KILL
    BY DEF Runs
<1>5. thread'[h] = "apply" => reply'[h].kind # "chunk"
    BY DEF Runs
<1>6. CONTROL_MESSAGE_KILL' = CONTROL_MESSAGE_KILL
    BY DEF CONTROL_MESSAGE_KILL
<1> QED
    BY <1>1, <1>2, <1>3, <1>4, <1>5, <1>6, Zenon DEF Runs

\* A step that touches no thread's orders.
LEMMA QuietRuns ==
    ASSUME ThreadsRun, UNCHANGED <<control, handles, reply>>,
           \A h \in Handles : Joined(h)' <=> Joined(h),
           \A h \in Handles :
               \/ thread'[h] = thread[h]
               \/ {thread[h], thread'[h]} \intersect {"none", "dead", "apply"} = {}
    PROVE  ThreadsRun'
<1>1. ASSUME NEW h \in Handles
      PROVE  Runs(h)'
    <2>1. thread'[h] = "apply" => thread[h] = "apply" /\ reply'[h] = reply[h]
        OBVIOUS
    <2> QED
        BY <2>1, RunsStays DEF ThreadsRun
<1> QED
    BY <1>1 DEF ThreadsRun

\* A sequence of more than one element has the same last one without its head.
LEMMA TailKeepsLast ==
    ASSUME NEW S, NEW c \in Seq(S), c # <<>>, Len(c) # 1
    PROVE  Tail(c) # <<>> /\ Tail(c)[Len(Tail(c))] = c[Len(c)]
<1>1. Len(c) \in Nat /\ Len(c) # 0
    BY LenProperties, EmptySeq
<1>2. Len(Tail(c)) = Len(c) - 1 /\ Tail(c) \in Seq(S)
    BY HeadTailProperties
<1>3. Tail(c) # <<>>
    <2>1. Len(Tail(c)) # 0
        BY <1>1, <1>2
    <2>2. Len(<<>>) = 0
        BY EmptySeq
    <2> QED
        BY <2>1, <2>2, Zenon
<1>4. Len(c) - 1 \in 1..Len(Tail(c))
    BY <1>1, <1>2
<1>5. \A i \in 1..Len(Tail(c)) : Tail(c)[i] = c[i + 1]
    BY HeadTailProperties
<1> QED
    BY <1>1, <1>2, <1>3, <1>4, <1>5

\* An order taken from the front that is not KILL.
LEMMA OrderRead ==
    ASSUME NEW h \in Handles, Runs(h), control[h] \in Seq(ControlMessages), control[h] # <<>>,
           Head(control[h]) # CONTROL_MESSAGE_KILL, control'[h] = Tail(control[h]),
           h \in handles' => h \in handles, Joined(h)' <=> Joined(h),
           thread[h] = "control", thread'[h] \in {"send", "control", "clear"}
    PROVE  Runs(h)'
<1>1. /\ Len(control[h]) \in Nat \ {0} /\ Head(control[h]) = control[h][1]
      /\ Len(control'[h]) = Len(control[h]) - 1
      /\ DOMAIN control[h] = 1..Len(control[h])
      /\ DOMAIN control'[h] = 1..Len(control'[h])
      /\ \A i \in 1..Len(control'[h]) : control'[h][i] = control[h][i + 1]
    BY LenProperties, HeadTailProperties
<1>2. IsSent(h, CONTROL_MESSAGE_KILL)' => IsSent(h, CONTROL_MESSAGE_KILL)
    BY <1>1 DEF IsSent, CONTROL_MESSAGE_KILL
<1>3. Joined(h) => control'[h] # <<>> /\ control'[h][Len(control'[h])] = CONTROL_MESSAGE_KILL
    <2>1. SUFFICES ASSUME Joined(h)
                   PROVE  control'[h] # <<>> /\ control'[h][Len(control'[h])] = CONTROL_MESSAGE_KILL
        OBVIOUS
    <2>2. control[h][Len(control[h])] = CONTROL_MESSAGE_KILL
        BY <2>1 DEF Runs
    <2>3. Len(control[h]) # 1
        BY <1>1, <2>2
    <2> QED
        BY <2>2, <2>3, TailKeepsLast
<1>4. h \in handles' => thread'[h] # "none"
    OBVIOUS
<1>5. CONTROL_MESSAGE_KILL' = CONTROL_MESSAGE_KILL
    BY DEF CONTROL_MESSAGE_KILL
<1>6. IsSent(h, CONTROL_MESSAGE_KILL)' => Joined(h)'
    BY <1>2 DEF Runs
<1> QED
    BY <1>3, <1>4, <1>5, <1>6 DEF Runs

\* An order put at the end that is not KILL, to a handle that is not joined.
LEMMA OrderSent ==
    ASSUME NEW h \in Handles, Runs(h), control[h] \in Seq(ControlMessages),
           NEW type \in ControlMessages, type # CONTROL_MESSAGE_KILL,
           control'[h] = Append(control[h], type),
           handles' = handles, ~Joined(h), ~Joined(h)', UNCHANGED <<thread, reply>>
    PROVE  Runs(h)'
<1>1. CONTROL_MESSAGE_KILL \in ControlMessages
    BY DEF ControlMessages
<1>2. IsSent(h, CONTROL_MESSAGE_KILL)' => IsSent(h, CONTROL_MESSAGE_KILL)
    <2>1. \A t \in ControlMessages : IsSent(h, t)' <=> IsSent(h, t) \/ t = type
        BY OrderAppended
    <2>2. CONTROL_MESSAGE_KILL' = CONTROL_MESSAGE_KILL
        BY DEF CONTROL_MESSAGE_KILL
    <2> QED
        BY <1>1, <2>1, <2>2
<1> QED
    BY <1>2 DEF Runs

LEMMA ThreadRuns ==
    ASSUME RefreshInv, NEW h \in Handles, HandleStep(h)
    PROVE  ThreadsRun'
<1>1. HandleTypeOK /\ CacheTypeOK /\ ThreadStep(h) /\ UNCHANGED serviceVars /\ \A g \in Handles : Runs(g)
    BY DEF RefreshInv, TopologyInv, IndInv, TypeOK, ThreadsRun, HandleStep
<1>2. UNCHANGED <<handles, ping, victim>>
    BY <1>1 DEF serviceVars, mapVars, pingVars
<1>3. \A g \in Handles : Joined(g)' <=> Joined(g)
    BY <1>2 DEF Joined
<1>4. ASSUME NEW g \in Handles, g # h
      PROVE  Runs(g)'
    <2>1. control'[g] = control[g]
        BY <1>1, <1>4 DEF HandleTypeOK, ThreadStep, ReceiveNothing, ReceiveControl, CopyNewHosts,
           ClearNewHosts, ReceiveKill, CountNewMessages, TransmitMessage, MoveMessage, NoResponse,
           ReceiveResponse, ApplyRefusal, ApplyFinal, sharedVars
    <2>2. thread'[g] = thread[g] /\ reply'[g] = reply[g]
        BY <1>1, <1>4, ThreadStepOfOne
    <2> QED
        BY <1>1, <1>2, <1>3, <2>1, <2>2, RunsStays
<1>5. Runs(h)'
    <2>1. CASE ReceiveControl(h)
        <3>1. /\ control[h] # <<>> /\ Head(control[h]) # CONTROL_MESSAGE_KILL
              /\ control'[h] = Tail(control[h]) /\ thread[h] = "control"
              /\ thread'[h] \in {"send", "control", "clear"}
            BY <1>1, <2>1 DEF ReceiveControl, GoTo, HandleTypeOK
        <3>2. control[h] \in Seq(ControlMessages)
            BY <1>1 DEF HandleTypeOK
        <3> QED
            BY <1>1, <1>2, <1>3, <3>1, <3>2, OrderRead
    <2>2. CASE CopyNewHosts(h)
        <3>1. /\ control[h] # <<>> /\ Head(control[h]) # CONTROL_MESSAGE_KILL
              /\ control'[h] = Tail(control[h]) /\ thread[h] = "control"
              /\ thread'[h] \in {"send", "control", "clear"}
            BY <1>1, <2>2 DEF CopyNewHosts, TakesNewHosts, GoTo, HandleTypeOK, CONTROL_MESSAGE_KILL,
               CONTROL_MESSAGE_CONNECT_NEW_HOSTS
        <3>2. control[h] \in Seq(ControlMessages)
            BY <1>1 DEF HandleTypeOK
        <3> QED
            BY <1>1, <1>2, <1>3, <3>1, <3>2, OrderRead
    <2>3. CASE ReceiveKill(h)
        <3>1. /\ control[h] # <<>> /\ Head(control[h]) = CONTROL_MESSAGE_KILL
              /\ control'[h] = <<>> /\ thread'[h] = "dead"
            BY <1>1, <2>3 DEF ReceiveKill, GoTo, HandleTypeOK
        <3>2. IsSent(h, CONTROL_MESSAGE_KILL)
            <4>1. control[h] \in Seq(ControlMessages)
                BY <1>1 DEF HandleTypeOK
            <4>2. 1 \in DOMAIN control[h] /\ control[h][1] = Head(control[h])
                BY <3>1, <4>1
            <4> QED
                BY <3>1, <4>2 DEF IsSent
        <3>3. Joined(h)' /\ ~IsSent(h, CONTROL_MESSAGE_KILL)'
            BY <1>1, <1>3, <3>1, <3>2 DEF Runs, IsSent
        <3> QED
            BY <3>1, <3>3 DEF Runs
    <2>4. CASE ReceiveResponse(h)
        <3>1. /\ control' = control /\ thread[h] = "receive"
              /\ thread'[h] \in {"receive", "enqueue", "apply"}
              /\ thread'[h] = "apply" => reply'[h].kind # "chunk"
            BY <1>1, <2>4 DEF ReceiveResponse, GoTo, HandleTypeOK, sharedVars
        <3>2. IsSent(h, CONTROL_MESSAGE_KILL)' <=> IsSent(h, CONTROL_MESSAGE_KILL)
            BY <3>1 DEF IsSent, CONTROL_MESSAGE_KILL
        <3> QED
            BY <1>1, <1>2, <1>3, <3>1, <3>2 DEF Runs, CONTROL_MESSAGE_KILL
    <2>5. CASE \/ ReceiveNothing(h) \/ ClearNewHosts(h) \/ CountNewMessages(h) \/ TransmitMessage(h)
               \/ MoveMessage(h) \/ NoResponse(h) \/ ApplyRefusal(h) \/ ApplyFinal(h)
        <3>1. /\ control' = control
              /\ {thread[h], thread'[h]} \intersect {"none", "dead"} = {} /\ thread'[h] # "apply"
            BY <1>1, <2>5 DEF HandleTypeOK, ReceiveNothing, ClearNewHosts, CountNewMessages,
               TransmitMessage, MoveMessage, NoResponse, ApplyRefusal, ApplyFinal, GoTo, sharedVars
        <3> QED
            BY <1>1, <1>2, <1>3, <3>1, RunsStays
    <2> QED
        BY <1>1, <2>1, <2>2, <2>3, <2>4, <2>5 DEF ThreadStep
<1> QED
    BY <1>4, <1>5 DEF ThreadsRun

LEMMA RemoveRuns ==
    ASSUME RefreshInv, NEW h \in Handles, RemoveHandle(h)
    PROVE  ThreadsRun'
<1>1. HandleTypeOK /\ \A g \in Handles : Runs(g)
    BY DEF RefreshInv, TopologyInv, IndInv, TypeOK, ThreadsRun
<1> DEFINE type == Character(CONTROL_MESSAGE_DISCONNECT)
<1>2. type \in ControlMessages /\ type # CONTROL_MESSAGE_KILL
    BY DEF Character, ControlMessages, CONTROL_MESSAGE_DISCONNECT, CONTROL_MESSAGE_KILL
<1>3. /\ control' = [control EXCEPT ![h] = Append(@, type)]
      /\ UNCHANGED <<handles, thread, reply>>
      /\ ping = "remove" /\ ping' = "collect"
    BY DEF RemoveHandle, Disconnect, SendControl, threadVars, mapVars
<1> HIDE DEF type
<1>4. \A g \in Handles : ~Joined(g) /\ ~Joined(g)'
    BY <1>3 DEF Joined
<1>5. ASSUME NEW g \in Handles
      PROVE  Runs(g)'
    <2>1. CASE g # h
        <3>1. control'[g] = control[g]
            BY <1>1, <1>3, <2>1 DEF HandleTypeOK
        <3> QED
            BY <1>1, <1>3, <1>4, <3>1, RunsStays
    <2>2. CASE g = h
        <3>1. control[g] \in Seq(ControlMessages) /\ control'[g] = Append(control[g], type)
            BY <1>1, <1>3, <2>2 DEF HandleTypeOK
        <3> QED
            BY <1>1, <1>2, <1>3, <1>4, <3>1, OrderSent
    <2> QED
        BY <2>1, <2>2
<1> QED
    BY <1>5 DEF ThreadsRun

LEMMA KillRuns ==
    ASSUME RefreshInv, KillHandle
    PROVE  ThreadsRun'
<1>0. PICK h \in Handles : h = victim
    BY DEF RefreshInv, TopologyInv, IndInv, TypeOK, VictimIsHandle, KillHandle
<1>1. HandleTypeOK /\ \A g \in Handles : Runs(g)
    BY DEF RefreshInv, TopologyInv, IndInv, TypeOK, ThreadsRun
<1>2. /\ control' = [control EXCEPT ![h] = Append(@, CONTROL_MESSAGE_KILL)]
      /\ UNCHANGED <<handles, thread, reply, victim>>
      /\ ping = "kill" /\ ping' = "join"
    BY <1>0 DEF KillHandle, Kill, SendControl, threadVars
<1>3. \A g \in Handles : ~Joined(g) /\ (Joined(g)' <=> g = h)
    BY <1>0, <1>2 DEF Joined
<1>4. ASSUME NEW g \in Handles, g # h
      PROVE  Runs(g)'
    <2>1. control'[g] = control[g]
        BY <1>1, <1>2, <1>4 DEF HandleTypeOK
    <2> QED
        BY <1>1, <1>2, <1>3, <1>4, <2>1, RunsStays
<1>5. Runs(h)'
    <2>1. control[h] \in Seq(ControlMessages) /\ control'[h] = Append(control[h], CONTROL_MESSAGE_KILL)
        BY <1>1, <1>2 DEF HandleTypeOK
    <2>2. /\ CONTROL_MESSAGE_KILL \in ControlMessages
          /\ CONTROL_MESSAGE_KILL' = CONTROL_MESSAGE_KILL
        BY DEF ControlMessages, CONTROL_MESSAGE_KILL
    <2>3. control'[h] # <<>> /\ control'[h][Len(control'[h])] = CONTROL_MESSAGE_KILL
        BY <2>1, <2>2, AppendProperties
    <2> QED
        BY <1>1, <1>2, <1>3, <2>2, <2>3 DEF Runs
<1> QED
    BY <1>4, <1>5 DEF ThreadsRun

LEMMA JoinRuns ==
    ASSUME RefreshInv, JoinHandle
    PROVE  ThreadsRun'
<1>0. PICK h \in Handles : h = victim
    BY DEF RefreshInv, TopologyInv, IndInv, TypeOK, VictimIsHandle, JoinHandle
<1>1. HandleTypeOK /\ \A g \in Handles : Runs(g)
    BY DEF RefreshInv, TopologyInv, IndInv, TypeOK, ThreadsRun
<1>2. /\ thread[h] = "dead" /\ thread' = [thread EXCEPT ![h] = "none"]
      /\ UNCHANGED <<control, reply>> /\ handles' = handles \ {h}
      /\ ping = "join" /\ ping' # "join"
    BY <1>0 DEF JoinHandle, DestroyHandle, GoTo
<1>3. \A g \in Handles : ~Joined(g)' /\ (Joined(g) <=> g = h)
    BY <1>0, <1>2 DEF Joined
<1>4. ASSUME NEW g \in Handles, g # h
      PROVE  Runs(g)'
    <2>1. thread'[g] = thread[g]
        BY <1>1, <1>2, <1>4 DEF HandleTypeOK
    <2> QED
        BY <1>1, <1>2, <1>3, <1>4, <2>1, RunsStays
<1>5. Runs(h)'
    <2>1. thread'[h] = "none" /\ h \notin handles' /\ control'[h] = <<>>
        BY <1>1, <1>2 DEF HandleTypeOK, Runs
    <2>2. ~IsSent(h, CONTROL_MESSAGE_KILL)'
        BY <2>1 DEF IsSent
    <2> QED
        BY <1>3, <2>1, <2>2 DEF Runs
<1> QED
    BY <1>4, <1>5 DEF ThreadsRun

LEMMA UpdateRuns ==
    ASSUME RefreshInv, UpdateHosts
    PROVE  ThreadsRun'
<1>1. HandleTypeOK /\ \A g \in Handles : Runs(g)
    BY DEF RefreshInv, TopologyInv, IndInv, TypeOK, ThreadsRun
<1>2. UNCHANGED <<handles, thread, reply>>
    BY DEF UpdateHosts, ReconnectAll, ConnectAllToNewHosts, handleVars, threadVars, mapVars
<1>3. \A g \in Handles : ~Joined(g) /\ ~Joined(g)'
    BY DEF UpdateHosts, AfterHosts, Joined
<1>4. ASSUME NEW g \in Handles
      PROVE  Runs(g)'
    <2>1. /\ control[g] \in Seq(ControlMessages)
          /\ \/ control'[g] = control[g]
             \/ control'[g] = Append(control[g], CONTROL_MESSAGE_RECONNECT)
             \/ control'[g] = Append(control[g], CONTROL_MESSAGE_CONNECT_NEW_HOSTS)
        BY <1>1 DEF UpdateHosts, ReconnectAll, ConnectAllToNewHosts, handleVars, sharedVars, HandleTypeOK
    <2>2. \A type \in {CONTROL_MESSAGE_RECONNECT, CONTROL_MESSAGE_CONNECT_NEW_HOSTS} :
              type \in ControlMessages /\ type # CONTROL_MESSAGE_KILL
        BY DEF ControlMessages, CONTROL_MESSAGE_RECONNECT, CONTROL_MESSAGE_CONNECT_NEW_HOSTS, CONTROL_MESSAGE_KILL
    <2>3. CASE control'[g] = control[g]
        BY <1>1, <1>2, <1>3, <2>3, RunsStays
    <2>4. CASE \E type \in {CONTROL_MESSAGE_RECONNECT, CONTROL_MESSAGE_CONNECT_NEW_HOSTS} :
                  control'[g] = Append(control[g], type)
        BY <1>1, <1>2, <1>3, <2>1, <2>2, <2>4, OrderSent
    <2> QED
        BY <2>1, <2>3, <2>4
<1> QED
    BY <1>4 DEF ThreadsRun

LEMMA CreateRuns ==
    ASSUME RefreshInv, NEW i \in Infos, CreateHandle(i)
    PROVE  ThreadsRun'
<1> DEFINE h == i.name
<1>1. h \in Handles /\ HandleTypeOK /\ \A g \in Handles : Runs(g)
    BY DEF RefreshInv, TopologyInv, IndInv, TypeOK, ThreadsRun, Infos
<1>2. /\ thread' = [thread EXCEPT ![h] = "control"] /\ control' = [control EXCEPT ![h] = <<>>]
      /\ reply' = reply /\ handles' = handles \union {h}
      /\ ping = "create" /\ ping' = "connect"
    BY DEF CreateHandle, ConstructHandle, GoTo
<1> HIDE DEF h
<1>3. \A g \in Handles : ~Joined(g) /\ ~Joined(g)'
    BY <1>2 DEF Joined
<1>4. ASSUME NEW g \in Handles, g # h
      PROVE  Runs(g)'
    <2>1. thread'[g] = thread[g] /\ control'[g] = control[g] /\ (g \in handles' => g \in handles)
        BY <1>1, <1>2, <1>4 DEF HandleTypeOK
    <2> QED
        BY <1>1, <1>2, <1>3, <2>1, RunsStays
<1>5. Runs(h)'
    <2>1. thread'[h] = "control" /\ control'[h] = <<>>
        BY <1>1, <1>2 DEF HandleTypeOK
    <2>2. ~IsSent(h, CONTROL_MESSAGE_KILL)'
        BY <2>1 DEF IsSent
    <2> QED
        BY <1>1, <1>3, <2>1, <2>2 DEF Runs
<1> QED
    BY <1>4, <1>5 DEF ThreadsRun

LEMMA ConnectRuns ==
    ASSUME RefreshInv, ConnectHandle
    PROVE  ThreadsRun'
<1>0. PICK h \in Handles : h = connecting
    BY DEF RefreshInv, TopologyInv, IndInv, TypeOK, ConnectHandle, ReportApplied
<1>1. HandleTypeOK /\ \A g \in Handles : Runs(g)
    BY DEF RefreshInv, TopologyInv, IndInv, TypeOK, ThreadsRun
<1>2. UNCHANGED <<handles, thread, reply>>
    BY DEF ConnectHandle, Connect, threadVars, mapVars
<1>3. \A g \in Handles : ~Joined(g) /\ ~Joined(g)'
    BY DEF ConnectHandle, AfterHosts, Joined
<1>4. ASSUME NEW g \in Handles
      PROVE  Runs(g)'
    <2>1. /\ control[g] \in Seq(ControlMessages)
          /\ control'[g] = control[g] \/ control'[g] = Append(control[g], CONTROL_MESSAGE_CONNECT)
        BY <1>0, <1>1 DEF ConnectHandle, Connect, SendControl, sharedVars, HandleTypeOK
    <2>2. CONTROL_MESSAGE_CONNECT \in ControlMessages /\ CONTROL_MESSAGE_CONNECT # CONTROL_MESSAGE_KILL
        BY DEF ControlMessages, CONTROL_MESSAGE_CONNECT, CONTROL_MESSAGE_KILL
    <2>3. CASE control'[g] = control[g]
        BY <1>1, <1>2, <1>3, <2>3, RunsStays
    <2>4. CASE control'[g] = Append(control[g], CONTROL_MESSAGE_CONNECT)
        BY <1>1, <1>2, <1>3, <2>1, <2>2, <2>4, OrderSent
    <2> QED
        BY <2>1, <2>3, <2>4
<1> QED
    BY <1>4 DEF ThreadsRun

LEMMA ThreadsRunStep ==
    ASSUME RefreshInv, [Next]_vars
    PROVE  ThreadsRun'
<1>0. ThreadsRun
    BY DEF RefreshInv
<1>1. CASE \/ \E m \in Messages : Send(m)
           \/ \E h \in Handles : Register(h)
           \/ DispatchPass
           \/ \E h \in Handles, m \in Messages : WorkersStep(h, m)
           \/ UNCHANGED vars
    <2>1. UNCHANGED <<control, handles, reply, ping, victim, thread>>
        BY <1>1 DEF Send, Register, DispatchPass, WorkersStep, WorkerStep, WorkerChunk, WorkerFinal,
           WorkerRefuses, HostLost, handleVars, threadVars, sharedVars, mapVars, pingVars, serviceVars, vars
    <2> QED
        BY <1>0, <2>1, QuietRuns DEF Joined
<1>2. ASSUME NEW h \in Handles, HandleStep(h)
      PROVE  ThreadsRun'
    BY <1>2, ThreadRuns
<1>3. ASSUME NEW h \in Handles, EnqueueResponse(h)
      PROVE  ThreadsRun'
    <2>1. /\ UNCHANGED <<control, handles, ping, victim>>
          /\ thread[h] = "enqueue" /\ thread' = [thread EXCEPT ![h] = "receive"]
          /\ reply' = [reply EXCEPT ![h] = None]
        BY <1>3 DEF EnqueueResponse, GoTo, sharedVars, pingVars, mapVars
    <2>2. HandleTypeOK
        BY DEF RefreshInv, TopologyInv, IndInv, TypeOK
    <2>3. ASSUME NEW g \in Handles
          PROVE  Runs(g)'
        <3>1. \/ thread'[g] = thread[g] /\ reply'[g] = reply[g]
              \/ thread[g] = "enqueue" /\ thread'[g] = "receive"
            BY <2>1, <2>2 DEF HandleTypeOK
        <3>2. /\ thread'[g] = "apply" => thread[g] = "apply" /\ reply'[g] = reply[g]
              /\ \/ thread'[g] = thread[g]
                 \/ {thread[g], thread'[g]} \intersect {"none", "dead"} = {}
            BY <3>1
        <3> QED
            BY <1>0, <2>1, <3>2, RunsStays DEF ThreadsRun, Joined
    <2> QED
        BY <2>3 DEF ThreadsRun
<1>4. ASSUME NEW v \in Views, BeginRefresh(v)
      PROVE  ThreadsRun'
    <2>1. UNCHANGED <<control, handles, reply, thread>> /\ ping = "idle" /\ ping' \in {"hosts", "remove"}
        BY <1>4 DEF BeginRefresh, handleVars, threadVars, sharedVars
    <2> QED
        BY <1>0, <2>1, QuietRuns DEF Joined
<1>5. CASE CollectMessages
    <2>1. UNCHANGED <<control, handles, reply, thread>> /\ ping = "collect" /\ ping' = "kill"
        BY <1>5 DEF CollectMessages, handleVars, threadVars, sharedVars, mapVars
    <2> QED
        BY <1>0, <2>1, QuietRuns DEF Joined
<1>6. ASSUME NEW i \in Infos, CreateFails(i)
      PROVE  ThreadsRun'
    <2>1. UNCHANGED <<control, handles, reply, thread>> /\ ping = "create" /\ ping' = "idle"
        BY <1>6 DEF CreateFails, handleVars, threadVars, sharedVars, mapVars
    <2> QED
        BY <1>0, <2>1, QuietRuns DEF Joined
<1> QED
    BY <1>1, <1>2, <1>3, <1>4, <1>5, <1>6, RemoveRuns, KillRuns, JoinRuns, UpdateRuns, CreateRuns,
       ConnectRuns DEF Next, Refresh

-----------------------------------------------------------------------------
LEMMA RefreshPlaceStep ==
    ASSUME RefreshInv, [Next]_vars
    PROVE  RefreshPlace'
<1>1. RefreshPlace /\ VictimIsHandle /\ ReportApplied /\ None \notin Handles /\ handles \subseteq Handles
    BY ServiceConstants DEF RefreshInv, TopologyInv, IndInv, TypeOK
<1>2. CASE \/ \E m \in Messages : Send(m)
           \/ \E h \in Handles : Register(h) \/ HandleStep(h) \/ EnqueueResponse(h)
           \/ DispatchPass
           \/ \E h \in Handles, m \in Messages : WorkersStep(h, m)
           \/ UNCHANGED vars
    <2>1. UNCHANGED <<pingVars, handles, port>>
        BY <1>2 DEF Send, Register, HandleStep, EnqueueResponse, DispatchPass, WorkersStep, vars,
           serviceVars, mapVars
    <2> QED
        BY <1>1, <2>1 DEF RefreshPlace, Info, pingVars
<1>3. ASSUME NEW v \in Views, BeginRefresh(v)
      PROVE  RefreshPlace'
    <2>1. /\ ping = "idle" /\ view' = v /\ outstanding' = OutstandingHandles(v)
          /\ UNCHANGED <<handles, port, victim>>
          /\ ping' = IF outstanding' = {} THEN "hosts" ELSE "remove"
        BY <1>3 DEF BeginRefresh
    <2>2. \A h \in handles : h \in OutstandingHandles(v) \/ Info(h) \in v.infos
        BY DEF OutstandingHandles
    <2> QED
        BY <1>1, <2>1, <2>2 DEF RefreshPlace, Info
<1>4. ASSUME NEW h \in Handles, RemoveHandle(h)
      PROVE  RefreshPlace'
    BY <1>1, <1>4 DEF RemoveHandle, RefreshPlace, Info, mapVars
<1>5. CASE CollectMessages
    BY <1>1, <1>5 DEF CollectMessages, RefreshPlace, Info, mapVars
<1>6. CASE KillHandle
    BY <1>1, <1>6 DEF KillHandle, RefreshPlace, Info
<1>7. CASE JoinHandle
    <2>1. /\ handles' = handles \ {victim} /\ port' = [port EXCEPT ![victim] = None] /\ victim' = None
          /\ ping' = IF outstanding = {} THEN "hosts" ELSE "remove"
          /\ UNCHANGED <<outstanding, view>>
        BY <1>7 DEF JoinHandle
    <2>2. ASSUME NEW h \in handles' \ outstanding
          PROVE  Info(h)' \in view.infos
        <3>1. h # victim /\ h \in Handles
            BY <1>1, <2>1
        <3>2. port'[h] = port[h]
            <4>1. port \in [Handles -> Ports \union {None}]
                BY DEF RefreshInv, TopologyInv, IndInv, TypeOK
            <4> QED
                BY <2>1, <3>1, <4>1
        <3> QED
            BY <1>1, <2>1, <3>1, <3>2 DEF RefreshPlace, Info
    <2> QED
        BY <2>1, <2>2 DEF RefreshPlace
<1>8. CASE UpdateHosts
    BY <1>1, <1>8 DEF UpdateHosts, AfterHosts, RefreshPlace, Info, mapVars
<1>9. ASSUME NEW i \in Infos, CreateHandle(i)
      PROVE  RefreshPlace'
    <2>1. /\ i \in fresh /\ i.name \notin handles /\ i.name \in Handles
          /\ handles' = handles \union {i.name} /\ port' = [port EXCEPT ![i.name] = i.port]
          /\ ping = "create" /\ ping' = "connect" /\ connecting' = i.name
          /\ UNCHANGED <<outstanding, victim, view>>
        BY <1>9 DEF CreateHandle, Infos
    <2>2. port \in [Handles -> Ports \union {None}]
        BY DEF RefreshInv, TopologyInv, IndInv, TypeOK
    <2>3. victim = None
        BY <1>1, <2>1 DEF RefreshPlace
    <2>4. Info(i.name)' = i
        <3>1. port'[i.name] = i.port
            BY <2>1, <2>2
        <3>2. i = [name |-> i.name, port |-> i.port]
            BY DEF Infos
        <3> QED
            BY <3>1, <3>2 DEF Info
    <2>5. ASSUME NEW h \in handles \ outstanding
          PROVE  Info(h)' \in view.infos
        <3>1. port'[h] = port[h] /\ h # victim
            BY <1>1, <2>1, <2>2, <2>3, <2>5
        <3> QED
            BY <1>1, <3>1 DEF RefreshPlace, Info
    <2>6. i \in view.infos
        BY <1>1, <2>1 DEF ReportApplied
    <2> QED
        BY <2>1, <2>3, <2>4, <2>5, <2>6 DEF RefreshPlace
<1>10. ASSUME NEW i \in Infos, CreateFails(i)
       PROVE  RefreshPlace'
    BY <1>1, <1>10 DEF CreateFails, RefreshPlace, Info, mapVars
<1>11. CASE ConnectHandle
    BY <1>1, <1>11 DEF ConnectHandle, AfterHosts, RefreshPlace, Info, mapVars
<1> QED
    BY <1>2, <1>3, <1>4, <1>5, <1>6, <1>7, <1>8, <1>9, <1>10, <1>11 DEF Next, Refresh

LEMMA RefreshInvInit == Init => RefreshInv
<1> SUFFICES ASSUME Init PROVE RefreshInv
    OBVIOUS
<1>1. TopologyInv
    BY TopologyInit
<1>2. ThreadsRun
    BY DEF Init, HandleInit, ThreadsRun, Runs, Joined, IsSent
<1>3. RefreshPlace
    BY DEF Init, RefreshPlace
<1> QED
    BY <1>1, <1>2, <1>3 DEF RefreshInv

LEMMA RefreshInvStep == RefreshInv /\ [Next]_vars => RefreshInv'
BY IndInvStep, HandlesFollowStep, ReportAppliedStep, ThreadsRunStep, RefreshPlaceStep
   DEF RefreshInv, TopologyInv

\* The removals of refresh_hosts_and_handles never throw, and never stop between two handles: what
\* may stop them is a thread they join that hands over a response just then (service.hpp:397-410,
\* 508-560, handle.hpp:167-174).
THEOREM RefreshesGoOn == Spec => []RefreshGoesOn
<1>1. RefreshInv => RefreshGoesOn
    <2>1. SUFFICES ASSUME RefreshInv PROVE RefreshGoesOn
        OBVIOUS
    <2>2. /\ TypeOK /\ VictimIsHandle /\ NoQueueBesideHandle /\ SendsWhatItMoves
          /\ ThreadsRun /\ RefreshPlace
        BY <2>1 DEF RefreshInv, TopologyInv, IndInv
    <2>3. ping = "kill" => unhandled_messages[victim] = <<>>
        BY <2>2 DEF VictimIsHandle, NoQueueBesideHandle
    <2>4. ASSUME ping = "join", thread[victim] # "dead"
          PROVE  /\ GoesOn(victim) \/ thread[victim] = "enqueue"
                 /\ control[victim] # <<>> /\ Last(control[victim]) = CONTROL_MESSAGE_KILL
        <3>1. PICK h \in Handles : h = victim /\ h \in handles
            BY <2>2, <2>4 DEF VictimIsHandle, TypeOK
        <3>2. Runs(h) /\ Joined(h)
            BY <2>2, <2>4, <3>1 DEF ThreadsRun, Joined
        <3>3. /\ control[h] # <<>> /\ control[h][Len(control[h])] = CONTROL_MESSAGE_KILL
              /\ thread[h] # "none" /\ (thread[h] = "apply" => reply[h].kind # "chunk")
            BY <2>4, <3>1, <3>2 DEF Runs
        <3>4. thread[h] \in {"none", "control", "clear", "send", "transmit", "move",
                             "receive", "apply", "enqueue", "dead"}
            BY <2>2 DEF TypeOK, HandleTypeOK
        <3>5. GoesOn(h) \/ thread[h] = "enqueue"
            BY <2>2, <2>4, <3>1, <3>3, <3>4 DEF GoesOn, SendsWhatItMoves
        <3> QED
            BY <3>1, <3>3, <3>5 DEF Last
    <2> QED
        BY <2>2, <2>3, <2>4 DEF RefreshGoesOn, RefreshPlace
<1> QED
    BY <1>1, RefreshInvInit, RefreshInvStep, PTL DEF Spec

\* When the ping thread has done with the outstanding handles, every handle is one of the last
\* report, on its port, although the new ones were chosen before the outstanding ones were
\* removed; and none waits unconnected for an order it was not sent (service.hpp:420-541,
\* 543-601, handle.hpp:333-366).
THEOREM HandlesServe == Spec => []ServesTheReport
<1>1. RefreshInv => ServesTheReport
    <2>1. SUFFICES ASSUME RefreshInv, NEW h \in handles \ (outstanding \union {victim})
                   PROVE  /\ Info(h) \in view.infos
                          /\ thread[h] \notin {"none", "dead"}
                          /\ \/ is_connected[h] \/ connecting = h
                             \/ control[h] # <<>> /\ Head(control[h]) = CONTROL_MESSAGE_CONNECT
        BY DEF ServesTheReport
    <2>2. h \in Handles /\ Runs(h) /\ Follows(h) /\ Info(h) \in view.infos
        BY <2>1 DEF RefreshInv, TopologyInv, IndInv, TypeOK, ThreadsRun, HandlesFollow, RefreshPlace
    <2>3. thread[h] \notin {"none", "dead"}
        BY <2>1, <2>2 DEF Runs, Joined
    <2>4. Connects(h)
        BY <2>2, <2>3 DEF Follows, Stopped
    <2> QED
        BY <2>2, <2>3, <2>4 DEF Connects
<1> QED
    BY <1>1, RefreshInvInit, RefreshInvStep, PTL DEF Spec
=============================================================================
