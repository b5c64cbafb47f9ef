--------------------------- MODULE CustodyProofs ----------------------------
(***************************************************************************)
(* Proofs about Service, from the invariant of ServiceProofs: a service    *)
(* keeps what Promise says of its messages; so a message is in one place,  *)
(* once; so the workers work on it once; and so the user gets one final    *)
(* response to it at most.                                                 *)
(*                                                                         *)
(* The argument.  A step of any thread is one of the moves of Promise or   *)
(* none of the user's business (StepIsPromised).  None of those moves puts *)
(* a message in a second place, since it comes from the other place or     *)
(* from the user (MoveKeepsCustody).  A thread looks a response up among   *)
(* the sent messages, so that only a message in custody is answered, and   *)
(* one that got its final response is not in custody any more              *)
(* (EndedIsForgotten), unless a removal made it new again in between; then *)
(* the thread waits for a mutex that the removal holds until it ends.  A   *)
(* message goes out from the queue, and is then not among those sent, of   *)
(* which the workers have each once (WorkOf).                              *)
(***************************************************************************)
EXTENDS ServiceProofs

(***************************************************************************)
(* Lemmas about sequences without repetitions.                             *)
(***************************************************************************)

LEMMA AppendOnce ==
    ASSUME NEW q \in Seq(Messages), NEW m \in Messages
    PROVE  /\ Append(q, m) \in Seq(Messages)
           /\ Range(Append(q, m)) = Range(q) \union {m}
           /\ IsInjective(q) /\ m \notin Range(q) => IsInjective(Append(q, m))
<1>1. /\ Append(q, m) \in Seq(Messages)
      /\ DOMAIN Append(q, m) = DOMAIN q \union {Len(q) + 1}
      /\ \A i \in DOMAIN q : Append(q, m)[i] = q[i] /\ i # Len(q) + 1
      /\ Append(q, m)[Len(q) + 1] = m
    OBVIOUS
<1> QED
    BY <1>1 DEF Range, IsInjective

LEMMA TailOnce ==
    ASSUME NEW q \in Seq(Messages), q # <<>>
    PROVE  /\ Head(q) \in Range(q) /\ Head(q) \in Messages
           /\ Tail(q) \in Seq(Messages)
           /\ Range(Tail(q)) \subseteq Range(q)
           /\ Range(q) \subseteq Range(Tail(q)) \union {Head(q)}
           /\ IsInjective(q) => IsInjective(Tail(q)) /\ Head(q) \notin Range(Tail(q))
<1>1. /\ Tail(q) \in Seq(Messages)
      /\ 1 \in DOMAIN q /\ Head(q) = q[1] /\ q[1] \in Messages
      /\ \A i \in DOMAIN Tail(q) : /\ i \in Int /\ i # 0
                                   /\ i + 1 \in DOMAIN q /\ Tail(q)[i] = q[i + 1]
      /\ \A i \in DOMAIN q : i \in Int /\ (i # 1 => i - 1 \in DOMAIN Tail(q) /\ Tail(q)[i - 1] = q[i])
    OBVIOUS
<1>2. Range(Tail(q)) \subseteq Range(q) /\ Head(q) \in Range(q)
    BY <1>1 DEF Range
<1>3. Range(q) \subseteq Range(Tail(q)) \union {Head(q)}
    <2>1. ASSUME NEW i \in DOMAIN q
          PROVE  q[i] = Head(q) \/ \E j \in DOMAIN Tail(q) : q[i] = Tail(q)[j]
        BY <1>1
    <2> QED
        BY <2>1 DEF Range
<1>4. ASSUME IsInjective(q)
      PROVE  IsInjective(Tail(q)) /\ Head(q) \notin Range(Tail(q))
    <2>1. \A i, j \in DOMAIN q : q[i] = q[j] => i = j
        BY <1>4 DEF IsInjective
    <2>2. \A i, j \in DOMAIN Tail(q) : Tail(q)[i] = Tail(q)[j] => i = j
        <3>1. ASSUME NEW i \in DOMAIN Tail(q), NEW j \in DOMAIN Tail(q), Tail(q)[i] = Tail(q)[j]
              PROVE  i = j
            <4>1. i + 1 = j + 1
                BY <1>1, <2>1, <3>1
            <4> QED
                BY <1>1, <4>1
        <3> QED
            BY <3>1
    <2>3. ASSUME NEW i \in DOMAIN Tail(q), Tail(q)[i] = Head(q)
          PROVE  FALSE
        <3>1. i + 1 = 1
            BY <1>1, <2>1, <2>3
        <3> QED
            BY <1>1, <3>1
    <2> QED
        BY <2>2, <2>3 DEF Range, IsInjective
<1> QED
    BY <1>1, <1>2, <1>3, <1>4

LEMMA ConcatOnce ==
    ASSUME NEW q \in Seq(Messages), NEW s \in Seq(Messages)
    PROVE  /\ q \o s \in Seq(Messages)
           /\ Range(q \o s) = Range(q) \union Range(s)
           /\ IsInjective(q) /\ IsInjective(s) /\ Range(q) \intersect Range(s) = {}
                 => IsInjective(q \o s)
<1>1. q \o s \in Seq(Messages)
    BY ConcatProperties
<1>2. Range(q \o s) = Range(q) \union Range(s)
    BY RangeConcatenation, ZenonT(60)
<1>3. ASSUME IsInjective(q), IsInjective(s), Range(q) \intersect Range(s) = {},
             NEW i \in DOMAIN (q \o s), NEW j \in DOMAIN (q \o s), (q \o s)[i] = (q \o s)[j]
      PROVE  i = j
    <2>1. \A k \in DOMAIN (q \o s) :
              /\ k \in Int
              /\ \/ k \in DOMAIN q /\ (q \o s)[k] = q[k]
                 \/ k - Len(q) \in DOMAIN s /\ (q \o s)[k] = s[k - Len(q)]
        OBVIOUS
    <2>2. \A k \in DOMAIN q, l \in DOMAIN s : q[k] # s[l]
        BY <1>3 DEF Range
    <2>3. CASE i \in DOMAIN q /\ (q \o s)[i] = q[i] /\ j \in DOMAIN q /\ (q \o s)[j] = q[j]
        BY <1>3, <2>3 DEF IsInjective
    <2>4. CASE /\ i - Len(q) \in DOMAIN s /\ (q \o s)[i] = s[i - Len(q)]
               /\ j - Len(q) \in DOMAIN s /\ (q \o s)[j] = s[j - Len(q)]
        <3>1. i - Len(q) = j - Len(q)
            BY <1>3, <2>4 DEF IsInjective
        <3> QED
            BY <2>1, <3>1
    <2> QED
        BY <1>3, <2>1, <2>2, <2>3, <2>4
<1> QED
    BY <1>1, <1>2, <1>3 DEF IsInjective

LEMMA PushOnce ==
    ASSUME NEW q \in Seq(Messages), NEW m \in Messages
    PROVE  /\ <<m>> \o q \in Seq(Messages)
           /\ Range(<<m>> \o q) = {m} \union Range(q)
           /\ IsInjective(q) /\ m \notin Range(q) => IsInjective(<<m>> \o q)
<1>1. <<m>> \in Seq(Messages) /\ Range(<<m>>) = {m} /\ IsInjective(<<m>>)
    BY DEF Range, IsInjective
<1> QED
    BY <1>1, ConcatOnce

\* The sent messages in any order: each of them, once.
LEMMA OrderingOnce ==
    ASSUME NEW S \in SUBSET Messages, NEW s \in Orderings(S)
    PROVE  s \in Seq(Messages) /\ IsInjective(s) /\ Range(s) = S
<1>1. IsFiniteSet(S) /\ Cardinality(S) \in Nat
    BY FiniteMessages, FS_Subset, FS_CardinalityType
<1>2. s \in [1..Cardinality(S) -> S] /\ IsInjective(s)
    BY DEF Orderings, SetToSeqs, IsInjective
<1>3. s \in Injection(1..Cardinality(S), S)
    BY <1>2 DEF Injection
<1>4. Cardinality(1..Cardinality(S)) = Cardinality(S)
    BY <1>1, FS_Interval
<1>5. s \in Surjection(1..Cardinality(S), S)
    BY <1>1, <1>3, <1>4, FS_Injection
<1>6. Range(s) = S
    BY <1>2, <1>5 DEF Surjection, Range
<1> QED
    BY <1>2, <1>6, OrderingsAreSequences

-----------------------------------------------------------------------------
(* Service implements Promise.                                               *)

Queues == [h \in Handles |-> Queue(h)]
PromiseVars == <<accepted, Queues, sent_messages, transmitted>>

\* How a change of one handle's queue looks to Promise.
LEMMA QueuesExcept ==
    ASSUME NEW h \in Handles, NEW q, Queue(h)' = q,
           \A g \in Handles : g # h => Queue(g)' = Queue(g)
    PROVE  Queues' = [Queues EXCEPT ![h] = q]
BY DEF Queues

LEMMA QueuesSame ==
    ASSUME UNCHANGED <<new_messages, unhandled_messages>>
    PROVE  Queues' = Queues
BY DEF Queues, Queue

\* The user's step.
LEMMA SendIsPromised ==
    ASSUME IndInv, NEW m \in Messages, Send(m)
    PROVE  Promised!Accept(m)
<1> DEFINE d == Dest[m]
<1>1. /\ d \in Handles
      /\ m \notin Range(accepted) /\ accepted' = Append(accepted, m)
      /\ transmitted' = transmitted /\ sent_messages' = sent_messages
    BY ServiceConstants DEF Send, CacheEnqueue, cacheVars, handleVars, workVars
<1>2. /\ new_messages \in [Handles -> Seq(Messages)]
      /\ unhandled_messages \in [Handles -> Seq(Messages)]
    BY DEF IndInv, TypeOK, CacheTypeOK
<1>3. /\ d \in handles => unhandled_messages[d] = <<>> /\ Queue(d) = new_messages[d]
      /\ d \notin handles => new_messages[d] = <<>> /\ Queue(d) = unhandled_messages[d]
    BY <1>1, QueueOfHandle DEF IndInv
<1>4. Queue(d)' = Append(Queue(d), m)
    <2>1. CASE d \in handles
        <3>1. new_messages'[d] = Append(Queue(d), m) /\ unhandled_messages'[d] = <<>>
            BY <1>1, <1>2, <1>3, <2>1 DEF Send, CacheEnqueue
        <3>2. Append(Queue(d), m) \in Seq(Messages)
            BY <1>1, <1>2, <1>3, <2>1
        <3> QED
            BY <3>1, <3>2, ConcatEmptySeq DEF Queue
    <2>2. CASE d \notin handles
        <3>1. unhandled_messages'[d] = Append(Queue(d), m) /\ new_messages'[d] = <<>>
            BY <1>1, <1>2, <1>3, <2>2 DEF Send, cacheVars
        <3>2. Append(Queue(d), m) \in Seq(Messages)
            BY <1>1, <1>2, <1>3, <2>2
        <3> QED
            BY <3>1, <3>2, ConcatEmptySeq DEF Queue
    <2> QED
        BY <2>1, <2>2
<1>5. \A g \in Handles : g # d => Queue(g)' = Queue(g)
    BY <1>1, <1>2 DEF Send, CacheEnqueue, cacheVars, Queue
<1>6. Queues' = [Queues EXCEPT ![d] = Append(Queue(d), m)]
    BY <1>1, <1>4, <1>5, QueuesExcept
<1>7. Queues[d] = Queue(d)
    BY <1>1 DEF Queues
<1> QED
    BY <1>1, <1>6, <1>7 DEF Promised!Accept, Promised!Range, Range, Queues

\* The thread of a handle: what it does to its cache is a move of Promise.
LEMMA ThreadIsPromised ==
    ASSUME IndInv, NEW h \in Handles, ThreadStep(h), UNCHANGED serviceVars
    PROVE  \/ Promised!Transmit(h) \/ Promised!Remember(h)
           \/ \E m \in Messages : Promised!Resend(h, m) \/ Promised!Finish(h, m)
           \/ UNCHANGED PromiseVars
<1>1. /\ new_messages \in [Handles -> Seq(Messages)]
      /\ sent_messages \in [Handles -> SUBSET Messages]
      /\ UNCHANGED <<accepted, unhandled_messages>>
    BY DEF IndInv, TypeOK, CacheTypeOK, serviceVars, mapVars
<1>2. h \in handles
    BY DEF IndInv, NoHandleNoCache, ThreadStep, ReceiveNothing, ReceiveControl, CopyNewHosts,
       ClearNewHosts, ReceiveKill, CountNewMessages, TransmitMessage, MoveMessage, NoResponse,
       ReceiveResponse, ApplyRefusal, ApplyFinal
<1>3. unhandled_messages[h] = <<>> /\ Queue(h) = new_messages[h] /\ Queues[h] = new_messages[h]
    BY <1>2, QueueOfHandle DEF IndInv, Queues
<1>4. ASSUME NEW q \in Seq(Messages), new_messages' = [new_messages EXCEPT ![h] = q]
      PROVE  Queues' = [Queues EXCEPT ![h] = q]
    <2>1. Queue(h)' = q
        BY <1>1, <1>3, <1>4, ConcatEmptySeq DEF Queue
    <2>2. \A g \in Handles : g # h => Queue(g)' = Queue(g)
        BY <1>1, <1>4 DEF Queue
    <2> QED
        BY <2>1, <2>2, QueuesExcept
<1>5. CASE TransmitMessage(h)
    <2>1. /\ new_messages[h] # <<>>
          /\ transmitted' = transmitted \union {Head(new_messages[h])}
          /\ UNCHANGED <<new_messages, sent_messages>>
        BY <1>5 DEF TransmitMessage, cacheVars
    <2>2. Queues' = Queues
        BY <1>1, <2>1, QueuesSame
    <2> QED
        BY <1>1, <1>3, <2>1, <2>2 DEF Promised!Transmit, Queues
<1>6. CASE MoveMessage(h)
    <2>1. /\ new_messages[h] # <<>>
          /\ new_messages' = [new_messages EXCEPT ![h] = Tail(new_messages[h])]
          /\ sent_messages' = [sent_messages EXCEPT ![h] = @ \union {Head(new_messages[h])}]
          /\ transmitted' = transmitted
        BY <1>6 DEF MoveMessage, move_new_message_to_sent, workVars
    <2>2. Head(new_messages[h]) \in transmitted
        BY <1>6 DEF MoveMessage, IndInv, SendsWhatItMoves, SentWasTransmitted
    <2>3. Tail(new_messages[h]) \in Seq(Messages)
        BY <1>1, <2>1
    <2>4. Queues' = [Queues EXCEPT ![h] = Tail(new_messages[h])]
        BY <1>4, <2>1, <2>3
    <2> QED
        BY <1>1, <1>3, <2>1, <2>2, <2>4 DEF Promised!Remember, Queues
<1>7. CASE ApplyRefusal(h)
    <2>1. CASE reply[h].msg \in sent_messages[h]
        <3>1. /\ reply[h].msg \in Messages
              /\ new_messages' = [new_messages EXCEPT ![h] = <<reply[h].msg>> \o new_messages[h]]
              /\ sent_messages' = [sent_messages EXCEPT ![h] = @ \ {reply[h].msg}]
              /\ transmitted' = transmitted
            BY <1>1, <1>7, <2>1 DEF ApplyRefusal, move_sent_message_to_new_front, workVars
        <3>2. <<reply[h].msg>> \o new_messages[h] \in Seq(Messages)
            BY <1>1, <3>1, PushOnce
        <3>3. Queues' = [Queues EXCEPT ![h] = <<reply[h].msg>> \o new_messages[h]]
            BY <1>4, <3>1, <3>2
        <3>4. Promised!Resend(h, reply[h].msg)
            BY <1>1, <1>3, <2>1, <3>1, <3>3 DEF Promised!Resend, Queues
        <3> QED
            BY <3>1, <3>4
    <2>2. CASE reply[h].msg \notin sent_messages[h]
        <3>1. UNCHANGED <<new_messages, sent_messages, transmitted>>
            BY <1>7, <2>2 DEF ApplyRefusal, move_sent_message_to_new_front, cacheVars, workVars
        <3> QED
            BY <1>1, <3>1, QueuesSame DEF PromiseVars
    <2> QED
        BY <2>1, <2>2
<1>8. CASE ApplyFinal(h)
    <2>1. /\ sent_messages' = [sent_messages EXCEPT ![h] = @ \ {reply[h].msg}]
          /\ UNCHANGED <<new_messages, transmitted>>
        BY <1>8 DEF ApplyFinal, remove_message_from_cache, workVars
    <2>2. Queues' = Queues
        BY <1>1, <2>1, QueuesSame
    <2>3. CASE reply[h].msg \in sent_messages[h]
        <3>1. reply[h].msg \in Messages
            BY <1>1, <2>3
        <3>2. Promised!Finish(h, reply[h].msg)
            BY <1>1, <2>1, <2>2, <2>3 DEF Promised!Finish, Queues
        <3> QED
            BY <3>1, <3>2
    <2>4. CASE reply[h].msg \notin sent_messages[h]
        <3>1. sent_messages' = sent_messages
            BY <1>1, <2>1, <2>4
        <3> QED
            BY <1>1, <2>1, <2>2, <3>1 DEF PromiseVars
    <2> QED
        BY <2>3, <2>4
<1>9. CASE ~(TransmitMessage(h) \/ MoveMessage(h) \/ ApplyRefusal(h) \/ ApplyFinal(h))
    <2>1. UNCHANGED <<new_messages, sent_messages, transmitted>>
        BY <1>9 DEF ThreadStep, ReceiveNothing, ReceiveControl, CopyNewHosts, ClearNewHosts,
           ReceiveKill, CountNewMessages, NoResponse, ReceiveResponse, OpenSocket, cacheVars, workVars
    <2> QED
        BY <1>1, <2>1, QueuesSame DEF PromiseVars
<1> QED
    BY <1>5, <1>6, <1>7, <1>8, <1>9

\* make_all_messages_new, under service::mutex_.
LEMMA CollectIsPromised ==
    ASSUME IndInv, CollectMessages, NEW v \in Handles, v = victim
    PROVE  Promised!Requeue(v)
<1>1. /\ v \in handles
      /\ new_messages \in [Handles -> Seq(Messages)]
      /\ sent_messages \in [Handles -> SUBSET Messages]
    BY DEF CollectMessages, IndInv, VictimIsHandle, TypeOK, CacheTypeOK
<1>2. unhandled_messages[v] = <<>> /\ Queue(v) = new_messages[v]
    BY <1>1, QueueOfHandle DEF IndInv
<1>3. PICK s \in Orderings(sent_messages[v]) :
          new_messages' = [new_messages EXCEPT ![v] = @ \o s]
    BY DEF CollectMessages, make_all_messages_new
<1>4. /\ sent_messages' = [sent_messages EXCEPT ![v] = {}]
      /\ UNCHANGED <<accepted, transmitted, unhandled_messages>>
    BY DEF CollectMessages, make_all_messages_new, handleVars, workVars, mapVars
<1>5. s \in Seq(Messages) /\ new_messages[v] \o s \in Seq(Messages)
    BY <1>1, OrderingOnce, ConcatOnce
<1>6. Queue(v)' = new_messages[v] \o s
    BY <1>1, <1>2, <1>3, <1>4, <1>5, ConcatEmptySeq DEF Queue
<1>7. \A g \in Handles : g # v => Queue(g)' = Queue(g)
    BY <1>1, <1>3, <1>4 DEF Queue
<1>8. Queues' = [Queues EXCEPT ![v] = new_messages[v] \o s]
    BY <1>1, <1>6, <1>7, QueuesExcept
<1>9. Queues[v] = new_messages[v]
    BY <1>1, <1>2 DEF Queues
<1>10. s \in Promised!SetToSeqs(sent_messages[v])
    BY DEF Orderings, SetToSeqs, Promised!SetToSeqs, Promised!Cardinality, Cardinality
<1> QED
    BY <1>1, <1>4, <1>8, <1>9, <1>10 DEF Promised!Requeue, Queues

\* The end of a removal: what the thread sent after its messages were collected is
\* gone with the cache.
LEMMA JoinIsPromised ==
    ASSUME IndInv, JoinHandle, NEW v \in Handles, v = victim
    PROVE  Promised!Forget(v)
<1>1. /\ v \in handles
      /\ new_messages \in [Handles -> Seq(Messages)]
      /\ unhandled_messages \in [Handles -> Seq(Messages)]
      /\ sent_messages \in [Handles -> SUBSET Messages]
    BY DEF JoinHandle, IndInv, VictimIsHandle, TypeOK, CacheTypeOK
<1>2. unhandled_messages[v] = <<>> /\ Queue(v) = new_messages[v]
    BY <1>1, QueueOfHandle DEF IndInv
<1> DEFINE q == Unhandled(v)
<1>3. /\ new_messages' = [new_messages EXCEPT ![v] = <<>>]
      /\ sent_messages' = [sent_messages EXCEPT ![v] = {}]
      /\ unhandled_messages' = [unhandled_messages EXCEPT ![v] = q]
      /\ UNCHANGED <<accepted, transmitted>>
    BY DEF JoinHandle, DestroyHandle, DestroyCache, workVars
<1>4. q \in Seq(Messages)
    BY <1>1 DEF Unhandled
<1>5. Queue(v)' = q
    BY <1>1, <1>3, <1>4, ConcatEmptySeq DEF Queue
<1>6. \A g \in Handles : g # v => Queue(g)' = Queue(g)
    BY <1>1, <1>3 DEF Queue
<1>7. Queues' = [Queues EXCEPT ![v] = q]
    BY <1>5, <1>6, QueuesExcept
<1>8. Queues[v] = new_messages[v]
    BY <1>2 DEF Queues
<1>9. CASE v \in shared_queue
    <2>1. q = Queues[v]
        BY <1>8, <1>9 DEF Unhandled
    <2>2. Queues' = Queues
        BY <1>7, <2>1 DEF Queues
    <2> QED
        BY <1>3, <2>2 DEF Promised!Forget, Queues
<1>10. CASE v \notin shared_queue
    <2>1. q = <<>>
        BY <1>2, <1>10 DEF Unhandled
    <2>2. Range(Queues[v]) \subseteq transmitted
        BY <1>8, <1>10 DEF JoinHandle, IndInv, SentWasTransmitted
    <2> QED
        BY <1>3, <1>7, <2>1, <2>2 DEF Promised!Forget, Promised!Range, Range, Queues
<1> QED
    BY <1>9, <1>10

\* A new handle is given the messages that waited for it.
LEMMA CreateIsPromised ==
    ASSUME IndInv, NEW i \in Infos, CreateHandle(i)
    PROVE  UNCHANGED PromiseVars
<1>1. i.name \in Handles /\ i.name \notin handles
    BY DEF CreateHandle, Infos
<1>2. /\ new_messages \in [Handles -> Seq(Messages)]
      /\ unhandled_messages \in [Handles -> Seq(Messages)]
    BY DEF IndInv, TypeOK, CacheTypeOK
<1>3. new_messages[i.name] = <<>> /\ Queue(i.name) = unhandled_messages[i.name]
    BY <1>1, QueueOfHandle DEF IndInv
<1>4. /\ new_messages' = [new_messages EXCEPT ![i.name] = @ \o unhandled_messages[i.name]]
      /\ unhandled_messages' = [unhandled_messages EXCEPT ![i.name] = <<>>]
      /\ UNCHANGED <<accepted, sent_messages, transmitted>>
    BY DEF CreateHandle, ConstructHandle, append_message_queue, workVars
<1>5. Queue(i.name)' = Queue(i.name)
    BY <1>1, <1>2, <1>3, <1>4, ConcatEmptySeq DEF Queue
<1>6. \A g \in Handles : g # i.name => Queue(g)' = Queue(g)
    BY <1>1, <1>2, <1>4 DEF Queue
<1> QED
    BY <1>4, <1>5, <1>6 DEF PromiseVars, Queues

\* Every step of Service is a step of Promise, or leaves its variables alone.
LEMMA StepIsPromised ==
    ASSUME IndInv, [Next]_vars
    PROVE  [Promised!Next]_PromiseVars
<1> USE DEF mapVars, cacheVars, handleVars, threadVars, workVars, sharedVars
<1>1. ASSUME NEW m \in Messages, Send(m)
      PROVE  [Promised!Next]_PromiseVars
    BY <1>1, SendIsPromised DEF Promised!Next
<1>2. ASSUME NEW h \in Handles, HandleStep(h)
      PROVE  [Promised!Next]_PromiseVars
    BY <1>2, ThreadIsPromised DEF HandleStep, Promised!Next
<1>3. ASSUME CollectMessages
      PROVE  [Promised!Next]_PromiseVars
    <2>1. PICK v \in Handles : v = victim
        BY <1>3 DEF CollectMessages, IndInv, VictimIsHandle, TypeOK
    <2> QED
        BY <1>3, <2>1, CollectIsPromised DEF Promised!Next
<1>4. ASSUME JoinHandle
      PROVE  [Promised!Next]_PromiseVars
    <2>1. PICK v \in Handles : v = victim
        BY <1>4 DEF JoinHandle, IndInv, VictimIsHandle, TypeOK
    <2> QED
        BY <1>4, <2>1, JoinIsPromised DEF Promised!Next
<1>5. ASSUME NEW i \in Infos, CreateHandle(i)
      PROVE  [Promised!Next]_PromiseVars
    BY <1>5, CreateIsPromised
<1>6. CASE /\ ~(\E m \in Messages : Send(m)) /\ ~(\E h \in Handles : HandleStep(h))
           /\ ~CollectMessages /\ ~JoinHandle /\ ~(\E i \in Infos : CreateHandle(i))
    <2>1. CASE \/ \E h \in Handles : Register(h) \/ EnqueueResponse(h)
               \/ DispatchPass
               \/ \E v \in Views : BeginRefresh(v)
        <3>1. UNCHANGED <<accepted, new_messages, unhandled_messages, sent_messages, transmitted>>
            BY <2>1 DEF Register, EnqueueResponse, DispatchPass, BeginRefresh
        <3> QED
            BY <3>1, QueuesSame DEF PromiseVars
    <2>2. CASE Refresh
        <3>1. UNCHANGED <<accepted, new_messages, unhandled_messages, sent_messages, transmitted>>
            BY <1>6, <2>2 DEF Refresh, RemoveHandle, Disconnect, KillHandle, Kill, UpdateHosts,
               ReconnectAll, ConnectAllToNewHosts, CreateFails, ConnectHandle, Connect
        <3> QED
            BY <3>1, QueuesSame DEF PromiseVars
    <2>3. CASE \E h \in Handles, m \in Messages : WorkersStep(h, m)
        <3>1. UNCHANGED <<accepted, new_messages, unhandled_messages, sent_messages, transmitted>>
            BY <2>3 DEF WorkersStep, WorkerStep, WorkerChunk, WorkerFinal, WorkerRefuses, HostLost,
               serviceVars
        <3> QED
            BY <3>1, QueuesSame DEF PromiseVars
    <2>4. CASE UNCHANGED vars
        BY <2>4, QueuesSame DEF vars, serviceVars, PromiseVars
    <2> QED
        BY <1>6, <2>1, <2>2, <2>3, <2>4 DEF Next
<1> QED
    BY <1>1, <1>2, <1>3, <1>4, <1>5, <1>6

\* The threads, the sockets and the reports are not to be seen: what becomes of a message
\* is what the service promises (service.hpp:520-665, handle.hpp:414-628).
THEOREM PromiseIsKept == Spec => KeepsPromise
<1>1. Init => Promised!Init
    BY DEF Init, CacheInit, HandleInit, Promised!Init, Queue
<1>2. IndInv /\ [Next]_vars => [Promised!Next]_PromiseVars
    BY StepIsPromised
<1> QED
    BY <1>1, <1>2, Invariance, PTL DEF Spec, KeepsPromise, Promised!Spec, Promised!vars, PromiseVars, Queues

-----------------------------------------------------------------------------
(* A message is in one place.                                                *)

\* One handle's queue and sent messages.
Once(q, S) == IsInjective(q) /\ Range(q) \intersect S = {}

\* What the moves of Promise do to them, but for a message the user sends.
Move(q, S, q2, S2) ==
    \/ q2 = q /\ S2 = S
    \/ q # <<>> /\ q2 = Tail(q) /\ S2 = S \union {Head(q)}
    \/ \E m \in S : (q2 = <<m>> \o q \/ q2 = q) /\ S2 = S \ {m}
    \/ \E s \in Orderings(S) : q2 = q \o s /\ S2 = {}
    \/ (q2 = q \/ q2 = <<>>) /\ S2 = {}

LEMMA MoveIsOnce ==
    ASSUME NEW q \in Seq(Messages), NEW S \in SUBSET Messages, NEW q2, NEW S2,
           Once(q, S), Move(q, S, q2, S2)
    PROVE  Once(q2, S2) /\ Range(q2) \union S2 \subseteq Range(q) \union S
<1>1. CASE q2 = q /\ S2 = S
    BY <1>1
<1>2. CASE q # <<>> /\ q2 = Tail(q) /\ S2 = S \union {Head(q)}
    BY <1>2, TailOnce DEF Once
<1>3. ASSUME NEW m \in S, q2 = <<m>> \o q \/ q2 = q, S2 = S \ {m}
      PROVE  Once(q2, S2) /\ Range(q2) \union S2 \subseteq Range(q) \union S
    <2>1. m \in Messages /\ m \notin Range(q)
        BY DEF Once
    <2> QED
        BY <1>3, <2>1, PushOnce DEF Once
<1>4. ASSUME NEW s \in Orderings(S), q2 = q \o s, S2 = {}
      PROVE  Once(q2, S2) /\ Range(q2) \union S2 \subseteq Range(q) \union S
    <2>1. s \in Seq(Messages) /\ IsInjective(s) /\ Range(s) = S
        BY OrderingOnce
    <2> QED
        BY <1>4, <2>1, ConcatOnce DEF Once
<1>5. CASE (q2 = q \/ q2 = <<>>) /\ S2 = {}
    <2>1. IsInjective(<<>>) /\ Range(<<>>) = {}
        BY DEF IsInjective, Range
    <2> QED
        BY <1>5, <2>1 DEF Once
<1> QED
    BY <1>1, <1>2, <1>3, <1>4, <1>5 DEF Move

\* The messages that handle h has to deliver ...
Custody(h) == Range(Queue(h)) \union sent_messages[h]

\* ... were accepted for it.
CustodyIsAccepted ==
    \A h \in Handles : \A m \in Custody(h) : m \in Accepted /\ Dest[m] = h

\* A move of Promise puts no message in a second place, and takes one into custody only
\* when the user sends it.
LEMMA MoveKeepsCustody ==
    ASSUME IndInv, SingleCustody, CustodyIsAccepted, [Promised!Next]_PromiseVars
    PROVE  /\ SingleCustody' /\ CustodyIsAccepted'
           /\ \A h \in Handles : \A m \in Custody(h)' : m \in Custody(h) \/ m \notin Accepted
<1>1. \A h \in Handles : /\ Queue(h) \in Seq(Messages)
                         /\ sent_messages[h] \in SUBSET Messages
                         /\ Once(Queue(h), sent_messages[h])
    BY QueueOfHandle DEF IndInv, TypeOK, CacheTypeOK, SingleCustody, Once
<1>2. /\ accepted \in Seq(Messages)
      /\ sent_messages \in [Handles -> SUBSET Messages]
      /\ Queues \in [Handles -> Seq(Messages)]
      /\ \A h \in Handles : Queues[h] = Queue(h) /\ Queues'[h] = Queue(h)'
    BY <1>1 DEF IndInv, TypeOK, CacheTypeOK, Queues
<1>3. ASSUME NEW m \in Messages, Promised!Accept(m)
      PROVE  /\ SingleCustody' /\ CustodyIsAccepted'
             /\ \A h \in Handles : \A n \in Custody(h)' : n \in Custody(h) \/ n \notin Accepted
    <2>1. /\ Dest[m] \in Handles /\ m \notin Accepted
          /\ accepted' = Append(accepted, m)
          /\ sent_messages' = sent_messages
          /\ Queues' = [Queues EXCEPT ![Dest[m]] = Append(Queues[Dest[m]], m)]
        BY <1>2, <1>3, ServiceConstants DEF Promised!Accept, Promised!Range, Range, Accepted, Queues
    <2>2. \A h \in Handles : h # Dest[m] => Queue(h)' = Queue(h)
        BY <1>2, <2>1
    <2>3. Queue(Dest[m])' = Append(Queue(Dest[m]), m)
        BY <1>2, <2>1
    <2>4. m \notin Custody(Dest[m])
        BY <2>1 DEF CustodyIsAccepted
    <2>5. /\ Range(Queue(Dest[m])') = Range(Queue(Dest[m])) \union {m}
          /\ IsInjective(Queue(Dest[m])')
        BY <1>1, <2>1, <2>3, <2>4, AppendOnce DEF Once, Custody
    <2>6. Accepted' = Accepted \union {m}
        BY <1>2, <2>1, AppendOnce DEF Accepted
    <2>7. \A h \in Handles : Custody(h)' = IF h = Dest[m] THEN Custody(h) \union {m} ELSE Custody(h)
        BY <2>1, <2>2, <2>5 DEF Custody
    <2>8. \A h \in Handles : Once(Queue(h)', sent_messages'[h])
        BY <1>1, <2>1, <2>2, <2>4, <2>5 DEF Once, Custody
    <2> QED
        BY <2>1, <2>6, <2>7, <2>8 DEF SingleCustody, Once, CustodyIsAccepted
<1>4. CASE ~(\E m \in Messages : Promised!Accept(m))
    <2>1. accepted' = accepted
        BY <1>4 DEF Promised!Next, Promised!Transmit, Promised!Remember, Promised!Resend,
           Promised!Finish, Promised!Requeue, Promised!Forget, PromiseVars
    <2>2. \A h \in Handles : Move(Queues[h], sent_messages[h], Queues'[h], sent_messages'[h])
        <3>1. ASSUME NEW g \in Handles, Promised!Transmit(g)
              PROVE  UNCHANGED <<Queues, sent_messages>>
            BY <3>1 DEF Promised!Transmit, Queues
        <3>2. ASSUME NEW g \in Handles, Promised!Remember(g), NEW h \in Handles
              PROVE  Move(Queues[h], sent_messages[h], Queues'[h], sent_messages'[h])
            <4>1. /\ Queues[g] # <<>>
                  /\ Queues' = [Queues EXCEPT ![g] = Tail(Queues[g])]
                  /\ sent_messages' = [sent_messages EXCEPT ![g] = @ \union {Head(Queues[g])}]
                BY <3>2 DEF Promised!Remember, Queues
            <4> QED
                BY <1>2, <4>1 DEF Move
        <3>3. ASSUME NEW g \in Handles, NEW m \in Messages, Promised!Resend(g, m) \/ Promised!Finish(g, m),
                     NEW h \in Handles
              PROVE  Move(Queues[h], sent_messages[h], Queues'[h], sent_messages'[h])
            <4>1. /\ m \in sent_messages[g]
                  /\ Queues' = [Queues EXCEPT ![g] = <<m>> \o Queues[g]] \/ Queues' = Queues
                  /\ sent_messages' = [sent_messages EXCEPT ![g] = @ \ {m}]
                BY <3>3 DEF Promised!Resend, Promised!Finish, Queues
            <4> QED
                BY <1>2, <4>1 DEF Move
        <3>4. ASSUME NEW g \in Handles, Promised!Requeue(g), NEW h \in Handles
              PROVE  Move(Queues[h], sent_messages[h], Queues'[h], sent_messages'[h])
            <4>1. /\ \E s \in Orderings(sent_messages[g]) :
                        Queues' = [Queues EXCEPT ![g] = Queues[g] \o s]
                  /\ sent_messages' = [sent_messages EXCEPT ![g] = {}]
                BY <3>4 DEF Promised!Requeue, Queues, Orderings, SetToSeqs, Promised!SetToSeqs,
                   Promised!Cardinality, Cardinality
            <4> QED
                BY <1>2, <4>1 DEF Move
        <3>5. ASSUME NEW g \in Handles, Promised!Forget(g), NEW h \in Handles
              PROVE  Move(Queues[h], sent_messages[h], Queues'[h], sent_messages'[h])
            <4>1. /\ Queues' = [Queues EXCEPT ![g] = <<>>] \/ Queues' = Queues
                  /\ sent_messages' = [sent_messages EXCEPT ![g] = {}]
                BY <3>5 DEF Promised!Forget, Queues
            <4> QED
                BY <1>2, <4>1 DEF Move
        <3>6. CASE UNCHANGED PromiseVars
            BY <3>6 DEF PromiseVars, Move
        <3>7. UNCHANGED <<Queues, sent_messages>> =>
                  \A h \in Handles : Move(Queues[h], sent_messages[h], Queues'[h], sent_messages'[h])
            BY DEF Move
        <3> QED
            BY <1>4, <3>1, <3>2, <3>3, <3>4, <3>5, <3>6, <3>7 DEF Promised!Next
    <2>3. \A h \in Handles : /\ Once(Queue(h)', sent_messages'[h])
                             /\ Custody(h)' \subseteq Custody(h)
        BY <1>1, <1>2, <2>2, MoveIsOnce DEF Custody
    <2> QED
        BY <2>1, <2>3 DEF SingleCustody, Once, CustodyIsAccepted, Accepted
<1> QED
    BY <1>3, <1>4

CustodyInv == IndInv /\ SingleCustody /\ CustodyIsAccepted

LEMMA CustodyInvInit == Init => CustodyInv
<1> SUFFICES ASSUME Init PROVE CustodyInv
    OBVIOUS
<1>1. \A h \in Handles : Queue(h) = <<>> /\ sent_messages[h] = {}
    BY DEF Init, CacheInit, Queue
<1>2. IsInjective(<<>>) /\ Range(<<>>) = {}
    BY DEF IsInjective, Range
<1> QED
    BY <1>1, <1>2, IndInvInit DEF CustodyInv, SingleCustody, CustodyIsAccepted, Custody

LEMMA CustodyInvStep == CustodyInv /\ [Next]_vars => CustodyInv'
BY StepIsPromised, MoveKeepsCustody, IndInvStep DEF CustodyInv

\* A message is in one place of one queue, or among the sent ones, never twice, through
\* refusals, removals and creations (message_cache.cpp:138-218, service.hpp:543-601).
THEOREM CustodyIsSingle == Spec => []SingleCustody
<1>1. CustodyInv => SingleCustody
    BY DEF CustodyInv
<1> QED
    BY <1>1, CustodyInvInit, CustodyInvStep, PTL DEF Spec

-----------------------------------------------------------------------------
(* A message gets one final response.                                        *)

\* The thread of a handle works on a response to a message it has in custody: a final one
\* makes the cache forget the message before it is handed over.
ReplyInCustody ==
    \A h \in Handles :
        /\ thread[h] \in {"apply", "enqueue"} => reply[h].msg \in Accepted /\ Dest[reply[h].msg] = h
        /\ thread[h] = "apply" =>
              \/ reply[h].msg \in sent_messages[h]
              \/ BeingRemoved(h) /\ reply[h].msg \in Custody(h)
        /\ thread[h] = "enqueue" /\ reply[h].kind \notin FinalKinds => reply[h].msg \in Custody(h)

\* Only what was accepted is answered.
AnswersAccepted ==
    /\ \A h \in Handles : \A i \in DOMAIN responses[h] : responses[h][i].msg \in Accepted
    /\ \A m \in Messages : answers[m] # <<>> => m \in Accepted

\* The thread of its handle is about to hand over a response to m.
Handed(m) == thread[Dest[m]] = "enqueue" /\ reply[Dest[m]].msg = m

\* The user has got the final response to m, or will get it.
Delivered(m) ==
    \/ \E i \in DOMAIN answers[m] : answers[m][i] \in FinalKinds
    \/ \E i \in DOMAIN responses[Dest[m]] :
          responses[Dest[m]][i].msg = m /\ responses[Dest[m]][i].kind \in FinalKinds
Ended(m) == Delivered(m) \/ (Handed(m) /\ reply[Dest[m]].kind \in FinalKinds)

\* A message that ended is in custody no more, unless a removal made it new again in
\* between; then the thread that has the response waits for the mutex of the removal.
EndedIsForgotten ==
    \A m \in Messages :
        Ended(m) => m \notin Custody(Dest[m]) \/ (Handed(m) /\ BeingRemoved(Dest[m]))

EndInv == CustodyInv /\ ReplyInCustody /\ AnswersAccepted /\ EndedIsForgotten /\ FinalIsLast

LEMMA EndInvTypes ==
    ASSUME EndInv
    PROVE  /\ \A m \in Messages : Dest[m] \in Handles
           /\ accepted \in Seq(Messages) /\ Accepted \subseteq Messages
           /\ CacheTypeOK /\ HandleTypeOK
           /\ responses \in [Handles -> Seq(Responses)]
           /\ answers \in [Messages -> Seq(Kinds)]
<1>1. TypeOK
    BY DEF EndInv, CustodyInv, IndInv
<1>2. Accepted \subseteq Messages
    BY <1>1 DEF TypeOK, Accepted, Range
<1> QED
    BY <1>1, <1>2, ServiceConstants DEF TypeOK

\* Who has a final response has it of a message that was accepted.
LEMMA EndedWasAccepted ==
    ASSUME EndInv, NEW m \in Messages, Ended(m)
    PROVE  m \in Accepted
<1>1. CASE \E i \in DOMAIN answers[m] : answers[m][i] \in FinalKinds
    BY <1>1 DEF EndInv, AnswersAccepted
<1>2. CASE Delivered(m) /\ ~(\E i \in DOMAIN answers[m] : answers[m][i] \in FinalKinds)
    BY <1>2, EndInvTypes DEF EndInv, AnswersAccepted, Delivered
<1>3. CASE Handed(m)
    BY <1>3, EndInvTypes DEF EndInv, ReplyInCustody, Handed
<1> QED
    BY <1>1, <1>2, <1>3 DEF Ended

\* What every step does to what is accepted and in custody.
LEMMA CustodyOnlyGrows ==
    ASSUME EndInv, [Next]_vars
    PROVE  /\ CustodyInv' /\ Accepted \subseteq Accepted'
           /\ \A h \in Handles : \A m \in Custody(h)' : m \in Custody(h) \/ m \notin Accepted
<1>1. /\ CustodyInv'
      /\ \A h \in Handles : \A m \in Custody(h)' : m \in Custody(h) \/ m \notin Accepted
    BY CustodyInvStep, StepIsPromised, MoveKeepsCustody DEF EndInv, CustodyInv
<1>2. accepted' = accepted \/ \E m \in Messages : accepted' = Append(accepted, m)
    BY StepIsPromised DEF EndInv, CustodyInv, Promised!Next, Promised!Accept, Promised!Transmit,
       Promised!Remember, Promised!Resend, Promised!Finish, Promised!Requeue, Promised!Forget,
       PromiseVars
<1>3. Accepted \subseteq Accepted'
    BY <1>2, EndInvTypes, AppendOnce DEF Accepted
<1> QED
    BY <1>1, <1>3

\* A step that hands nothing over, and leaves the threads that have a response alone or
\* lets one finish with a refusal.
LEMMA QuietStep ==
    ASSUME EndInv, [Next]_vars, UNCHANGED <<responses, answers>>,
           \A h \in Handles : thread'[h] \in {"apply", "enqueue"} =>
               /\ thread'[h] = thread[h] /\ reply'[h] = reply[h]
               /\ Custody(h) \subseteq Custody(h)'
               /\ sent_messages[h] \subseteq sent_messages'[h] \/ BeingRemoved(h)'
               /\ BeingRemoved(h) => BeingRemoved(h)',
           \A h \in Handles : thread[h] = "enqueue" => thread'[h] = "enqueue"
    PROVE  EndInv'
<1>1. /\ CustodyInv' /\ Accepted \subseteq Accepted'
      /\ \A h \in Handles : \A m \in Custody(h)' : m \in Custody(h) \/ m \notin Accepted
    BY CustodyOnlyGrows
<1>2. \A m \in Messages : /\ Dest[m] \in Handles
                          /\ Handed(m) <=> Handed(m)'
                          /\ Ended(m)' => Ended(m)
    BY EndInvTypes DEF Handed, Ended, Delivered
<1>3. ReplyInCustody'
    <2>1. ASSUME NEW h \in Handles, thread'[h] = "apply"
          PROVE  \/ reply'[h].msg \in sent_messages'[h]
                 \/ BeingRemoved(h)' /\ reply'[h].msg \in Custody(h)'
        <3>1. /\ thread[h] = "apply" /\ reply'[h] = reply[h]
              /\ Custody(h) \subseteq Custody(h)' /\ sent_messages[h] \subseteq Custody(h)
              /\ sent_messages[h] \subseteq sent_messages'[h] \/ BeingRemoved(h)'
              /\ BeingRemoved(h) => BeingRemoved(h)'
            BY <2>1 DEF Custody
        <3> QED
            BY <3>1 DEF EndInv, ReplyInCustody
    <2>2. ASSUME NEW h \in Handles, thread'[h] \in {"apply", "enqueue"}
          PROVE  reply'[h].msg \in Accepted' /\ Dest[reply'[h].msg] = h
        BY <1>1, <2>2 DEF EndInv, ReplyInCustody
    <2>3. ASSUME NEW h \in Handles, thread'[h] = "enqueue", reply'[h].kind \notin FinalKinds
          PROVE  reply'[h].msg \in Custody(h)'
        BY <2>3 DEF EndInv, ReplyInCustody
    <2> QED
        BY <2>1, <2>2, <2>3 DEF ReplyInCustody
<1>4. AnswersAccepted'
    BY <1>1 DEF EndInv, AnswersAccepted
<1>5. EndedIsForgotten'
    <2>1. ASSUME NEW m \in Messages, Ended(m)'
          PROVE  m \notin Custody(Dest[m])' \/ (Handed(m)' /\ BeingRemoved(Dest[m])')
        <3>1. m \in Accepted /\ Ended(m)
            BY <1>2, <2>1, EndedWasAccepted
        <3>2. CASE m \notin Custody(Dest[m])
            BY <1>1, <1>2, <3>1, <3>2
        <3>3. CASE Handed(m) /\ BeingRemoved(Dest[m])
            <4>1. Handed(m)'
                BY <1>2, <3>3
            <4>2. thread'[Dest[m]] = "enqueue"
                BY <4>1 DEF Handed
            <4>3. BeingRemoved(Dest[m])'
                BY <1>2, <3>3, <4>2
            <4> QED
                BY <4>1, <4>3
        <3> QED
            BY <3>1, <3>2, <3>3 DEF EndInv, EndedIsForgotten
    <2> QED
        BY <2>1 DEF EndedIsForgotten
<1>6. FinalIsLast'
    BY <1>2 DEF EndInv, FinalIsLast, Handed
<1> QED
    BY <1>1, <1>3, <1>4, <1>5, <1>6 DEF EndInv

\* A message in custody has not ended, unless its thread waits for a removal.
LEMMA NotYetEnded ==
    ASSUME EndInv, NEW m \in Messages, m \in Custody(Dest[m]), thread[Dest[m]] # "enqueue"
    PROVE  ~Ended(m) /\ ~Delivered(m)
BY DEF EndInv, EndedIsForgotten, Ended, Handed

\* dispatch_responces looks a response up: its message is among the sent ones.
LEMMA LookUpKeeps ==
    ASSUME EndInv, [Next]_vars, NEW h \in Handles, ReceiveResponse(h), UNCHANGED serviceVars,
           Head(inbox[h]).msg \in sent_messages[h]
    PROVE  EndInv'
<1> DEFINE r == Head(inbox[h])
           m == r.msg
<1>1. /\ r \in Responses /\ m \in Messages /\ thread[h] = "receive"
      /\ thread' = [thread EXCEPT ![h] = IF r.kind = "chunk" THEN "enqueue" ELSE "apply"]
      /\ reply' = [reply EXCEPT ![h] = r]
      /\ UNCHANGED <<new_messages, sent_messages, unhandled_messages, responses, answers,
                     accepted, ping, victim>>
    <2>1. thread[h] = "receive" /\ inbox[h] # <<>> /\ inbox[h] \in Seq(Responses)
        BY EndInvTypes DEF ReceiveResponse, HandleTypeOK
    <2>2. r \in Responses
        BY <2>1
    <2>3. m \in Messages
        BY <2>2 DEF Responses
    <2> QED
        BY <2>1, <2>2, <2>3 DEF ReceiveResponse, GoTo, cacheVars, serviceVars, mapVars,
           responseVars, pingVars
<1>2. /\ \A g \in Handles : Custody(g)' = Custody(g) /\ sent_messages[g] \subseteq Custody(g)
      /\ \A g \in Handles : BeingRemoved(g)' <=> BeingRemoved(g)
      /\ Accepted' = Accepted
    BY <1>1 DEF Custody, Queue, BeingRemoved, Accepted
<1>3. m \in Accepted /\ Dest[m] = h
    BY <1>1, <1>2 DEF EndInv, CustodyInv, CustodyIsAccepted
<1>4. ~Delivered(m) /\ ~Ended(m)
    BY <1>1, <1>2, <1>3, NotYetEnded
<1>5. \A g \in Handles : g # h => thread'[g] = thread[g] /\ reply'[g] = reply[g]
    BY <1>1, EndInvTypes DEF HandleTypeOK
<1>6. /\ thread'[h] = IF r.kind = "chunk" THEN "enqueue" ELSE "apply"
      /\ reply'[h] = r
    BY <1>1, EndInvTypes DEF HandleTypeOK
<1>7. ReplyInCustody'
    <2>1. \A g \in Handles : g # h =>
              /\ thread'[g] \in {"apply", "enqueue"} => reply'[g].msg \in Accepted' /\ Dest[reply'[g].msg] = g
              /\ thread'[g] = "apply" =>
                    \/ reply'[g].msg \in sent_messages'[g]
                    \/ BeingRemoved(g)' /\ reply'[g].msg \in Custody(g)'
              /\ thread'[g] = "enqueue" /\ reply'[g].kind \notin FinalKinds => reply'[g].msg \in Custody(g)'
        BY <1>1, <1>2, <1>5 DEF EndInv, ReplyInCustody
    <2>2. /\ reply'[h].msg \in Accepted' /\ Dest[reply'[h].msg] = h
          /\ reply'[h].msg \in sent_messages'[h] /\ reply'[h].msg \in Custody(h)'
        BY <1>1, <1>2, <1>3, <1>6
    <2> QED
        BY <2>1, <2>2 DEF ReplyInCustody
<1>8. AnswersAccepted'
    BY <1>1, <1>2 DEF EndInv, AnswersAccepted
<1>9. ASSUME NEW n \in Messages, n # m
      PROVE  \/ (Handed(n)' <=> Handed(n)) /\ reply'[Dest[n]] = reply[Dest[n]]
             \/ ~Handed(n)' /\ ~Handed(n)
    <2>1. CASE Dest[n] = h
        BY <1>1, <1>6, <1>9, <2>1 DEF Handed
    <2>2. CASE Dest[n] # h
        BY <1>5, <2>2, EndInvTypes DEF Handed
    <2> QED
        BY <2>1, <2>2
<1>10. \A n \in Messages : Delivered(n)' <=> Delivered(n)
    BY <1>1 DEF Delivered
<1>11. EndedIsForgotten'
    <2>1. ASSUME NEW n \in Messages, Ended(n)'
          PROVE  n \notin Custody(Dest[n])' \/ (Handed(n)' /\ BeingRemoved(Dest[n])')
        <3>1. CASE n = m
            <4>1. r.kind \in FinalKinds /\ thread'[h] = "enqueue"
                BY <1>3, <1>4, <1>6, <1>10, <2>1, <3>1 DEF Ended, Handed
            <4> QED
                BY <1>6, <4>1 DEF FinalKinds
        <3>2. CASE n # m
            <4>1. Ended(n) /\ Dest[n] \in Handles /\ (Handed(n) => Handed(n)')
                BY <1>9, <1>10, <2>1, <3>2, EndInvTypes DEF Ended
            <4> QED
                BY <1>2, <4>1 DEF EndInv, EndedIsForgotten
        <3> QED
            BY <3>1, <3>2
    <2> QED
        BY <2>1 DEF EndedIsForgotten
<1>12. FinalIsLast'
    <2>1. ASSUME NEW n \in Messages
          PROVE  /\ \A i \in DOMAIN answers[n] : answers[n][i] \in FinalKinds =>
                        i = Len(answers[n]) /\ ~Handed(n)' /\ \A j \in DOMAIN responses[Dest[n]] : responses[Dest[n]][j].msg # n
                 /\ \A i \in DOMAIN responses[Dest[n]] :
                        responses[Dest[n]][i].msg = n /\ responses[Dest[n]][i].kind \in FinalKinds =>
                        ~Handed(n)' /\ \A j \in DOMAIN responses[Dest[n]] : j > i => responses[Dest[n]][j].msg # n
        <3>1. CASE n = m
            BY <1>4, <3>1 DEF Delivered
        <3>2. CASE n # m
            <4>1. Handed(n)' => Handed(n)
                BY <1>9, <3>2
            <4> QED
                BY <4>1 DEF EndInv, FinalIsLast, Handed
        <3> QED
            BY <3>1, <3>2
    <2> QED
        BY <1>1, <2>1 DEF FinalIsLast, Handed
<1> QED
    BY <1>7, <1>8, <1>11, <1>12, CustodyOnlyGrows DEF EndInv

\* The cache forgets the message before its final response is handed over.
LEMMA ForgetKeeps ==
    ASSUME EndInv, [Next]_vars, NEW h \in Handles, ApplyFinal(h), UNCHANGED serviceVars
    PROVE  EndInv'
<1> DEFINE m == reply[h].msg
<1>1. /\ thread[h] = "apply" /\ reply[h].kind \in FinalKinds
      /\ thread' = [thread EXCEPT ![h] = "enqueue"]
      /\ sent_messages' = [sent_messages EXCEPT ![h] = @ \ {m}]
      /\ UNCHANGED <<new_messages, unhandled_messages, responses, answers, reply,
                     accepted, ping, victim>>
    BY DEF ApplyFinal, remove_message_from_cache, GoTo, serviceVars, mapVars, responseVars, pingVars
<1>2. m \in Accepted /\ Dest[m] = h /\ m \in Messages
    BY <1>1, EndInvTypes DEF EndInv, ReplyInCustody
<1>3. /\ \A g \in Handles : g # h => /\ Custody(g)' = Custody(g)
                                    /\ sent_messages'[g] = sent_messages[g]
                                    /\ thread'[g] = thread[g]
      /\ Custody(h)' \subseteq Custody(h)
      /\ thread'[h] = "enqueue"
      /\ \A g \in Handles : BeingRemoved(g)' <=> BeingRemoved(g)
      /\ Accepted' = Accepted
    BY <1>1, EndInvTypes DEF Custody, Queue, BeingRemoved, Accepted, CacheTypeOK, HandleTypeOK
<1>4. m \in Custody(h)
    BY <1>1 DEF EndInv, ReplyInCustody, Custody
<1>5. ~Delivered(m)
    BY <1>1, <1>2, <1>4, NotYetEnded
<1>6. m \notin Custody(h)' \/ BeingRemoved(h)'
    <2>1. CASE m \in sent_messages[h]
        <3>1. m \notin Range(Queue(h))
            BY <2>1 DEF EndInv, CustodyInv, SingleCustody
        <3>2. Queue(h)' = Queue(h) /\ m \notin sent_messages'[h]
            BY <1>1, EndInvTypes DEF Queue, CacheTypeOK
        <3> QED
            BY <3>1, <3>2 DEF Custody
    <2>2. CASE BeingRemoved(h)
        BY <1>3, <2>2
    <2> QED
        BY <1>1, <2>1, <2>2 DEF EndInv, ReplyInCustody
<1>7. ReplyInCustody'
    <2>1. \A g \in Handles : g # h =>
              /\ thread'[g] \in {"apply", "enqueue"} => reply'[g].msg \in Accepted' /\ Dest[reply'[g].msg] = g
              /\ thread'[g] = "apply" =>
                    \/ reply'[g].msg \in sent_messages'[g]
                    \/ BeingRemoved(g)' /\ reply'[g].msg \in Custody(g)'
              /\ thread'[g] = "enqueue" /\ reply'[g].kind \notin FinalKinds => reply'[g].msg \in Custody(g)'
        BY <1>1, <1>3 DEF EndInv, ReplyInCustody
    <2>2. /\ reply'[h].msg \in Accepted' /\ Dest[reply'[h].msg] = h
          /\ thread'[h] = "enqueue" /\ reply'[h].kind \in FinalKinds
        BY <1>1, <1>2, <1>3
    <2> QED
        BY <2>1, <2>2 DEF ReplyInCustody
<1>8. AnswersAccepted'
    BY <1>1, <1>3 DEF EndInv, AnswersAccepted
<1>9. /\ \A n \in Messages : n # m => (Handed(n)' <=> Handed(n))
      /\ Handed(m)'
      /\ \A n \in Messages : Delivered(n)' <=> Delivered(n)
    <2>1. \A n \in Messages : Delivered(n)' <=> Delivered(n)
        BY <1>1 DEF Delivered
    <2>2. Handed(m)'
        BY <1>1, <1>2, <1>3 DEF Handed
    <2>3. ASSUME NEW n \in Messages, n # m
          PROVE  Handed(n)' <=> Handed(n)
        <3>1. CASE Dest[n] = h
            BY <1>1, <2>3, <3>1 DEF Handed
        <3>2. CASE Dest[n] # h
            BY <1>1, <1>3, <3>2, EndInvTypes DEF Handed
        <3> QED
            BY <3>1, <3>2
    <2> QED
        BY <2>1, <2>2, <2>3
<1>10. EndedIsForgotten'
    <2>1. ASSUME NEW n \in Messages, Ended(n)', n # m
          PROVE  n \notin Custody(Dest[n])' \/ (Handed(n)' /\ BeingRemoved(Dest[n])')
        <3>1. Ended(n) /\ Dest[n] \in Handles
            BY <1>1, <1>9, <2>1, EndInvTypes DEF Ended
        <3>2. n \notin Custody(Dest[n]) \/ (Handed(n) /\ BeingRemoved(Dest[n]))
            BY <3>1 DEF EndInv, EndedIsForgotten
        <3>3. Custody(Dest[n])' \subseteq Custody(Dest[n])
            BY <1>3, <3>1
        <3> QED
            BY <1>3, <1>9, <2>1, <3>1, <3>2, <3>3
    <2>2. ASSUME NEW n \in Messages, n = m
          PROVE  n \notin Custody(Dest[n])' \/ (Handed(n)' /\ BeingRemoved(Dest[n])')
        <3>1. Dest[n] = h /\ Handed(n)'
            BY <1>1, <1>2, <1>3, <2>2 DEF Handed
        <3>2. n \notin Custody(h)' \/ BeingRemoved(h)'
            BY <1>1, <1>6, <2>2
        <3> QED
            BY <3>1, <3>2
    <2>3. \A n \in Messages : Ended(n)' =>
              n \notin Custody(Dest[n])' \/ (Handed(n)' /\ BeingRemoved(Dest[n])')
        BY <2>1, <2>2
    <2> QED
        BY <2>3 DEF EndedIsForgotten
<1>11. FinalIsLast'
    <2>1. ASSUME NEW n \in Messages
          PROVE  /\ \A i \in DOMAIN answers[n] : answers[n][i] \in FinalKinds =>
                        i = Len(answers[n]) /\ ~Handed(n)' /\ \A j \in DOMAIN responses[Dest[n]] : responses[Dest[n]][j].msg # n
                 /\ \A i \in DOMAIN responses[Dest[n]] :
                        responses[Dest[n]][i].msg = n /\ responses[Dest[n]][i].kind \in FinalKinds =>
                        ~Handed(n)' /\ \A j \in DOMAIN responses[Dest[n]] : j > i => responses[Dest[n]][j].msg # n
        <3>1. CASE n = m
            BY <1>5, <3>1 DEF Delivered
        <3>2. CASE n # m
            <4>1. Handed(n)' => Handed(n)
                BY <1>9, <3>2
            <4> QED
                BY <4>1 DEF EndInv, FinalIsLast, Handed
        <3> QED
            BY <3>1, <3>2
    <2> QED
        BY <1>1, <2>1 DEF FinalIsLast, Handed
<1> QED
    BY <1>7, <1>8, <1>10, <1>11, CustodyOnlyGrows DEF EndInv

\* enqueue_responce_callback takes the response to the queue of its handle, with
\* service::mutex_: no removal is under way, so what ends is in custody no more.
LEMMA EnqueueKeeps ==
    ASSUME EndInv, [Next]_vars, NEW h \in Handles, EnqueueResponse(h)
    PROVE  EndInv'
<1> DEFINE New(g, i) == g = h /\ i = Len(responses[h]) + 1 /\ responses'[g][i] = reply[h]
           Old(g, i) == i \in DOMAIN responses[g] /\ responses'[g][i] = responses[g][i]
<1>1. /\ thread[h] = "enqueue" /\ ~Locked
      /\ thread' = [thread EXCEPT ![h] = "receive"]
      /\ reply' = [reply EXCEPT ![h] = None]
      /\ UNCHANGED <<new_messages, sent_messages, unhandled_messages, answers,
                     accepted, ping, victim>>
    BY DEF EnqueueResponse, GoTo, cacheVars, mapVars, pingVars
<1>2. PICK m \in Messages : /\ m = reply[h].msg /\ m \in Accepted /\ Dest[m] = h
                            /\ reply[h] \in Responses
    BY <1>1, EndInvTypes DEF EndInv, ReplyInCustody, CustodyInv, IndInv, ReplyIsThere
<1>3. /\ thread'[h] = "receive"
      /\ \A g \in Handles : g # h => thread'[g] = thread[g] /\ reply'[g] = reply[g]
      /\ \A g \in Handles : Custody(g)' = Custody(g) /\ ~BeingRemoved(g) /\ ~BeingRemoved(g)'
      /\ Accepted' = Accepted
    BY <1>1, EndInvTypes DEF Custody, Queue, BeingRemoved, Locked, Accepted, HandleTypeOK
<1>4. ASSUME NEW g \in Handles, NEW i \in DOMAIN responses'[g]
      PROVE  Old(g, i) \/ New(g, i)
    <2>1. responses' = responses \/ responses' = [responses EXCEPT ![h] = Append(@, reply[h])]
        BY <1>2 DEF EnqueueResponse
    <2>2. responses[g] \in Seq(Responses)
        BY EndInvTypes
    <2>3. CASE g = h /\ responses'[h] = Append(responses[h], reply[h])
        BY <1>2, <1>4, <2>2, <2>3
    <2>4. CASE responses'[g] = responses[g]
        BY <1>4, <2>4
    <2> QED
        BY <2>1, <2>3, <2>4, EndInvTypes
<1>5. ASSUME NEW n \in Messages, Handed(n)'
      PROVE  n # m /\ Handed(n) /\ reply'[Dest[n]] = reply[Dest[n]]
    BY <1>2, <1>3, <1>5, EndInvTypes DEF Handed
<1>6. Handed(m)
    BY <1>1, <1>2 DEF Handed
<1>7. ASSUME NEW n \in Messages, Ended(n)'
      PROVE  Ended(n)
    <2>1. CASE Handed(n)' /\ reply'[Dest[n]].kind \in FinalKinds
        BY <1>5, <2>1 DEF Ended
    <2>2. CASE \E i \in DOMAIN answers'[n] : answers'[n][i] \in FinalKinds
        BY <1>1, <2>2 DEF Ended, Delivered
    <2>3. ASSUME NEW i \in DOMAIN responses'[Dest[n]],
                 responses'[Dest[n]][i].msg = n, responses'[Dest[n]][i].kind \in FinalKinds
          PROVE  Ended(n)
        <3>1. CASE Old(Dest[n], i)
            BY <2>3, <3>1 DEF Ended, Delivered
        <3>2. CASE New(Dest[n], i)
            BY <1>2, <1>6, <2>3, <3>2 DEF Ended
        <3> QED
            BY <1>4, <2>3, <3>1, <3>2, EndInvTypes
    <2> QED
        BY <1>7, <2>1, <2>2, <2>3 DEF Ended, Delivered
<1>8. ReplyInCustody'
    BY <1>1, <1>3 DEF EndInv, ReplyInCustody
<1>9. AnswersAccepted'
    <2>1. ASSUME NEW g \in Handles, NEW i \in DOMAIN responses'[g]
          PROVE  responses'[g][i].msg \in Accepted
        BY <1>2, <1>4, <2>1 DEF EndInv, AnswersAccepted
    <2> QED
        BY <1>1, <1>3, <2>1 DEF EndInv, AnswersAccepted
<1>10. EndedIsForgotten'
    BY <1>3, <1>7, EndInvTypes DEF EndInv, EndedIsForgotten
<1>11. FinalIsLast'
    <2>1. ASSUME NEW n \in Messages, NEW i \in DOMAIN answers[n], answers[n][i] \in FinalKinds
          PROVE  /\ i = Len(answers[n]) /\ ~Handed(n)'
                 /\ \A j \in DOMAIN responses'[Dest[n]] : responses'[Dest[n]][j].msg # n
        <3>1. /\ i = Len(answers[n]) /\ ~Handed(n)
              /\ \A j \in DOMAIN responses[Dest[n]] : responses[Dest[n]][j].msg # n
            BY <2>1 DEF EndInv, FinalIsLast, Handed
        <3>2. n # m
            BY <1>6, <3>1
        <3> QED
            BY <1>2, <1>4, <1>5, <3>1, <3>2, EndInvTypes
    <2>2. ASSUME NEW n \in Messages, NEW i \in DOMAIN responses'[Dest[n]],
                 responses'[Dest[n]][i].msg = n, responses'[Dest[n]][i].kind \in FinalKinds,
                 NEW j \in DOMAIN responses'[Dest[n]], j > i
          PROVE  responses'[Dest[n]][j].msg # n
        <3>1. CASE Old(Dest[n], i)
            <4>1. ~Handed(n) /\ \A k \in DOMAIN responses[Dest[n]] : k > i => responses[Dest[n]][k].msg # n
                BY <2>2, <3>1 DEF EndInv, FinalIsLast, Handed
            <4>2. n # m
                BY <1>6, <4>1
            <4> QED
                BY <1>2, <1>4, <2>2, <4>1, <4>2, EndInvTypes
        <3>2. CASE New(Dest[n], i)
            <4>1. responses[h] \in Seq(Responses)
                BY EndInvTypes
            <4>2. Old(Dest[n], j) \/ New(Dest[n], j)
                BY <1>4, <2>2, EndInvTypes
            <4> QED
                BY <2>2, <3>2, <4>1, <4>2
        <3> QED
            BY <1>4, <2>2, <3>1, <3>2, EndInvTypes
    <2>3. ASSUME NEW n \in Messages, NEW i \in DOMAIN responses'[Dest[n]],
                 responses'[Dest[n]][i].msg = n, responses'[Dest[n]][i].kind \in FinalKinds
          PROVE  ~Handed(n)'
        <3>1. CASE Old(Dest[n], i)
            <4>1. ~Handed(n)
                BY <2>3, <3>1 DEF EndInv, FinalIsLast, Handed
            <4> QED
                BY <1>5, <4>1
        <3>2. CASE New(Dest[n], i)
            BY <1>2, <1>5, <2>3, <3>2
        <3> QED
            BY <1>4, <2>3, <3>1, <3>2, EndInvTypes
    <2> QED
        BY <1>1, <2>1, <2>2, <2>3 DEF FinalIsLast, Handed
<1> QED
    BY <1>8, <1>9, <1>10, <1>11, CustodyOnlyGrows DEF EndInv

\* A pass of dispatch_responces takes the first response of some queues to the user.
LEMMA DispatchKeeps ==
    ASSUME EndInv, [Next]_vars, DispatchPass
    PROVE  EndInv'
<1> DEFINE Given(n) ==
        /\ 1 \in DOMAIN responses[Dest[n]] /\ responses[Dest[n]][1].msg = n
        /\ answers'[n] = Append(answers[n], responses[Dest[n]][1].kind)
        /\ \A i \in DOMAIN responses'[Dest[n]] :
              i + 1 \in DOMAIN responses[Dest[n]] /\ responses'[Dest[n]][i] = responses[Dest[n]][i + 1]
<1>1. /\ ~Locked
      /\ UNCHANGED <<new_messages, sent_messages, unhandled_messages, thread, reply,
                     accepted, ping, victim>>
    BY DEF DispatchPass, cacheVars, handleVars, threadVars, mapVars, pingVars
<1>2. /\ \A g \in Handles : Custody(g)' = Custody(g) /\ ~BeingRemoved(g) /\ ~BeingRemoved(g)'
      /\ Accepted' = Accepted
      /\ \A n \in Messages : Handed(n)' <=> Handed(n)
    BY <1>1 DEF Custody, Queue, BeingRemoved, Locked, Accepted, Handed
<1>3. ASSUME NEW g \in Handles
      PROVE  \E c \in {0, 1} : \A i \in DOMAIN responses'[g] :
                 i \in Nat /\ i + c \in DOMAIN responses[g] /\ responses'[g][i] = responses[g][i + c]
    <2>1. responses[g] \in Seq(Responses)
        BY EndInvTypes
    <2>2. responses'[g] = responses[g] \/ (responses[g] # <<>> /\ responses'[g] = Tail(responses[g]))
        BY DEF DispatchPass
    <2>3. CASE responses'[g] = responses[g]
        <3>1. \A i \in DOMAIN responses'[g] :
                  i \in Nat /\ i + 0 \in DOMAIN responses[g] /\ responses'[g][i] = responses[g][i + 0]
            BY <2>1, <2>3
        <3> QED
            BY <3>1
    <2>4. CASE responses[g] # <<>> /\ responses'[g] = Tail(responses[g])
        <3>1. \A i \in DOMAIN responses'[g] :
                  i \in Nat /\ i + 1 \in DOMAIN responses[g] /\ responses'[g][i] = responses[g][i + 1]
            BY <2>1, <2>4
        <3> QED
            BY <3>1
    <2> QED
        BY <2>2, <2>3, <2>4
<1>4. ASSUME NEW n \in Messages
      PROVE  answers'[n] = answers[n] \/ Given(n)
    <2>1. Dest[n] \in Handles /\ responses[Dest[n]] \in Seq(Responses)
        BY EndInvTypes
    <2>2. CASE Dest[n] \in callbacks /\ responses[Dest[n]] # <<>> /\ Head(responses[Dest[n]]).msg = n
        <3>1. /\ responses'[Dest[n]] = Tail(responses[Dest[n]])
              /\ answers'[n] = Append(answers[n], Head(responses[Dest[n]]).kind)
            BY <2>1, <2>2 DEF DispatchPass
        <3> QED
            BY <2>1, <2>2, <3>1
    <2>3. CASE ~(Dest[n] \in callbacks /\ responses[Dest[n]] # <<>> /\ Head(responses[Dest[n]]).msg = n)
        BY <2>3 DEF DispatchPass
    <2> QED
        BY <2>2, <2>3
<1>5. ASSUME NEW n \in Messages
      PROVE  /\ answers[n] \in Seq(Kinds)
             /\ \A i \in DOMAIN answers'[n] :
                    \/ i \in DOMAIN answers[n] /\ answers'[n][i] = answers[n][i]
                    \/ /\ Given(n) /\ i = Len(answers[n]) + 1 /\ i = Len(answers'[n])
                       /\ answers'[n][i] = responses[Dest[n]][1].kind
    <2>1. answers[n] \in Seq(Kinds) /\ responses[Dest[n]] \in Seq(Responses)
        BY EndInvTypes
    <2>2. \A i \in DOMAIN responses[Dest[n]] : responses[Dest[n]][i].kind \in Kinds
        <3>1. \A i \in DOMAIN responses[Dest[n]] : responses[Dest[n]][i] \in Responses
            BY <2>1
        <3> QED
            BY <3>1 DEF Responses
    <2>3. CASE answers'[n] = answers[n]
        BY <2>1, <2>3
    <2>4. CASE Given(n)
        <3>1. responses[Dest[n]][1].kind \in Kinds
            BY <2>2, <2>4
        <3>2. answers'[n] = Append(answers[n], responses[Dest[n]][1].kind)
            BY <2>4
        <3> HIDE DEF Given
        <3> QED
            BY <2>1, <2>4, <3>1, <3>2
    <2> QED
        BY <1>4, <2>1, <2>3, <2>4
<1>6. ASSUME NEW n \in Messages, Ended(n)'
      PROVE  Ended(n)
    <2>1. Dest[n] \in Handles
        BY EndInvTypes
    <2>2. ASSUME NEW i \in DOMAIN answers'[n], answers'[n][i] \in FinalKinds
          PROVE  Delivered(n)
        BY <1>5, <2>2 DEF Delivered
    <2>3. ASSUME NEW i \in DOMAIN responses'[Dest[n]],
                 responses'[Dest[n]][i].msg = n, responses'[Dest[n]][i].kind \in FinalKinds
          PROVE  Delivered(n)
        BY <1>3, <2>1, <2>3 DEF Delivered
    <2>4. Delivered(n)' => Delivered(n)
        BY <2>2, <2>3 DEF Delivered
    <2> QED
        BY <1>1, <1>2, <1>6, <2>4 DEF Ended
<1>7. ReplyInCustody'
    BY <1>1, <1>2 DEF EndInv, ReplyInCustody
<1>8. AnswersAccepted'
    <2>1. \A g \in Handles : \A i \in DOMAIN responses'[g] : responses'[g][i].msg \in Accepted'
        BY <1>2, <1>3 DEF EndInv, AnswersAccepted
    <2>2. ASSUME NEW n \in Messages, answers'[n] # <<>>
          PROVE  n \in Accepted'
        <3>1. CASE answers'[n] = answers[n]
            BY <1>2, <2>2, <3>1 DEF EndInv, AnswersAccepted
        <3>2. CASE 1 \in DOMAIN responses[Dest[n]] /\ responses[Dest[n]][1].msg = n
            BY <1>2, <3>2, EndInvTypes DEF EndInv, AnswersAccepted
        <3> QED
            BY <1>4, <3>1, <3>2
    <2> QED
        BY <2>1, <2>2 DEF AnswersAccepted
<1>9. EndedIsForgotten'
    BY <1>2, <1>6, EndInvTypes DEF EndInv, EndedIsForgotten
<1>10. FinalIsLast'
    <2>1. ASSUME NEW n \in Messages, NEW i \in DOMAIN answers'[n], answers'[n][i] \in FinalKinds
          PROVE  /\ i = Len(answers'[n]) /\ ~Handed(n)'
                 /\ \A j \in DOMAIN responses'[Dest[n]] : responses'[Dest[n]][j].msg # n
        <3>1. CASE i \in DOMAIN answers[n] /\ answers'[n][i] = answers[n][i]
            <4>1. /\ i = Len(answers[n]) /\ ~Handed(n)
                  /\ \A j \in DOMAIN responses[Dest[n]] : responses[Dest[n]][j].msg # n
                BY <2>1, <3>1 DEF EndInv, FinalIsLast, Handed
            <4>2. answers'[n] = answers[n]
                BY <1>4, <4>1
            <4> QED
                BY <1>2, <1>3, <4>1, <4>2, EndInvTypes
        <3>2. CASE /\ Given(n) /\ i = Len(answers[n]) + 1 /\ i = Len(answers'[n])
                   /\ answers'[n][i] = responses[Dest[n]][1].kind
            <4>1. ~Handed(n) /\ \A j \in DOMAIN responses[Dest[n]] : j > 1 => responses[Dest[n]][j].msg # n
                BY <2>1, <3>2 DEF EndInv, FinalIsLast, Handed
            <4>2. \A j \in DOMAIN responses'[Dest[n]] : j \in Nat /\ j > 0
                BY EndInvTypes DEF DispatchPass
            <4> QED
                BY <1>2, <3>2, <4>1, <4>2
        <3> QED
            BY <1>5, <2>1, <3>1, <3>2
    <2>2. ASSUME NEW n \in Messages, NEW i \in DOMAIN responses'[Dest[n]],
                 responses'[Dest[n]][i].msg = n, responses'[Dest[n]][i].kind \in FinalKinds
          PROVE  /\ ~Handed(n)'
                 /\ \A j \in DOMAIN responses'[Dest[n]] : j > i => responses'[Dest[n]][j].msg # n
        <3>1. PICK c \in {0, 1} : \A j \in DOMAIN responses'[Dest[n]] :
                  /\ j \in Nat /\ j + c \in DOMAIN responses[Dest[n]]
                  /\ responses'[Dest[n]][j] = responses[Dest[n]][j + c]
            BY <1>3, EndInvTypes
        <3>2. /\ ~Handed(n)
              /\ \A k \in DOMAIN responses[Dest[n]] : k > i + c => responses[Dest[n]][k].msg # n
            BY <2>2, <3>1 DEF EndInv, FinalIsLast, Handed
        <3> QED
            BY <1>2, <2>2, <3>1, <3>2
    <2> QED
        BY <2>1, <2>2 DEF FinalIsLast, Handed
<1> QED
    BY <1>7, <1>8, <1>9, <1>10, CustodyOnlyGrows DEF EndInv

\* What a message is in, seen through Queues.
LEMMA CustodyOfQueue ==
    ASSUME NEW h \in Handles
    PROVE  /\ Custody(h) = Range(Queues[h]) \union sent_messages[h]
           /\ Custody(h)' = Range(Queues'[h]) \union sent_messages'[h]
BY DEF Custody, Queues

LEMMA SendKeeps ==
    ASSUME EndInv, [Next]_vars, NEW m \in Messages, Send(m)
    PROVE  EndInv'
<1> DEFINE d == Dest[m]
<1>1. UNCHANGED <<thread, reply, sent_messages, responses, answers, ping, victim>>
    BY DEF Send, CacheEnqueue, cacheVars, handleVars, threadVars, responseVars, pingVars
<1>2. /\ d \in Handles
      /\ Queues' = [Queues EXCEPT ![d] = Append(Queues[d], m)]
      /\ \A h \in Handles : Queues[h] \in Seq(Messages)
    <2>1. d \in Handles
        BY EndInvTypes
    <2>2. Promised!Accept(m)
        BY SendIsPromised DEF EndInv, CustodyInv
    <2>3. Queues' = [Queues EXCEPT ![d] = Append(Queues[d], m)]
        BY <2>2 DEF Promised!Accept, Queues
    <2>4. \A h \in Handles : Queues[h] \in Seq(Messages)
        BY QueueOfHandle DEF EndInv, CustodyInv, IndInv, Queues
    <2> QED
        BY <2>1, <2>3, <2>4
<1>3. ASSUME NEW h \in Handles
      PROVE  Custody(h) \subseteq Custody(h)'
    <2>1. Queues'[h] = Append(Queues[h], m) \/ Queues'[h] = Queues[h]
        BY <1>2 DEF Queues
    <2>2. Range(Queues[h]) \subseteq Range(Queues'[h])
        BY <1>2, <2>1, AppendOnce
    <2> QED
        BY <1>1, <2>2, CustodyOfQueue
<1> QED
    BY <1>1, <1>3, QuietStep DEF BeingRemoved

\* The steps of a thread, but for those above: it has no response in hand after them.
LEMMA ThreadKeeps ==
    ASSUME EndInv, [Next]_vars, NEW h \in Handles, ThreadStep(h), UNCHANGED serviceVars
    PROVE  EndInv'
<1>1. CASE ApplyFinal(h)
    BY <1>1, ForgetKeeps
<1>2. CASE ReceiveResponse(h) /\ Head(inbox[h]).msg \in sent_messages[h]
    BY <1>2, LookUpKeeps
<1>3. CASE /\ ~ApplyFinal(h)
           /\ ~(ReceiveResponse(h) /\ Head(inbox[h]).msg \in sent_messages[h])
    <2>1. thread[h] # "enqueue" /\ thread'[h] \notin {"apply", "enqueue"}
        BY <1>3, EndInvTypes DEF ThreadStep, ReceiveNothing, ReceiveControl, CopyNewHosts,
           ClearNewHosts, ReceiveKill, CountNewMessages, TransmitMessage, MoveMessage, NoResponse,
           ReceiveResponse, ApplyRefusal, GoTo, HandleTypeOK
    <2>2. UNCHANGED <<responses, answers, unhandled_messages, ping, victim>>
        BY DEF serviceVars, mapVars, responseVars, pingVars
    <2>3. ASSUME NEW g \in Handles, g # h
          PROVE  /\ thread'[g] = thread[g] /\ reply'[g] = reply[g]
                 /\ Custody(g)' = Custody(g) /\ sent_messages'[g] = sent_messages[g]
        BY <2>2, <2>3, ThreadStepOfOne, EndInvTypes DEF Custody, Queue
    <2> QED
        BY <2>1, <2>2, <2>3, QuietStep DEF BeingRemoved
<1> QED
    BY <1>1, <1>2, <1>3

\* make_all_messages_new: the thread whose response is to a message that is new again
\* meets the removal.
LEMMA CollectKeeps ==
    ASSUME EndInv, [Next]_vars, CollectMessages
    PROVE  EndInv'
<1>1. /\ UNCHANGED <<thread, reply, responses, answers, victim>>
      /\ ping = "collect" /\ ping' = "kill"
    BY DEF CollectMessages, handleVars, threadVars, responseVars
<1>2. PICK v \in Handles : v = victim
    BY DEF CollectMessages, EndInv, CustodyInv, IndInv, VictimIsHandle, TypeOK
<1>3. /\ \E s \in Orderings(sent_messages[v]) : Queues' = [Queues EXCEPT ![v] = Queues[v] \o s]
      /\ sent_messages' = [sent_messages EXCEPT ![v] = {}]
    BY <1>2, CollectIsPromised DEF EndInv, CustodyInv, Promised!Requeue, Queues, Orderings, SetToSeqs,
       Promised!SetToSeqs, Promised!Cardinality, Cardinality
<1>4. ASSUME NEW h \in Handles
      PROVE  Custody(h) \subseteq Custody(h)'
    <2>1. Queues[h] \in Seq(Messages) /\ sent_messages[h] \in SUBSET Messages
        BY QueueOfHandle, EndInvTypes DEF EndInv, CustodyInv, IndInv, Queues, CacheTypeOK
    <2>2. CASE h = v
        <3>1. PICK s \in Orderings(sent_messages[h]) : Queues'[h] = Queues[h] \o s
            BY <1>3, <2>2 DEF Queues
        <3>2. s \in Seq(Messages) /\ Range(s) = sent_messages[h]
            BY <2>1, OrderingOnce
        <3>3. Range(Queues'[h]) = Range(Queues[h]) \union sent_messages[h]
            BY <2>1, <3>1, <3>2, ConcatOnce
        <3> QED
            BY <3>3, CustodyOfQueue
    <2>3. CASE h # v
        <3>1. Queues'[h] = Queues[h] /\ sent_messages'[h] = sent_messages[h]
            BY <1>3, <2>3, EndInvTypes DEF Queues, CacheTypeOK
        <3> QED
            BY <3>1, CustodyOfQueue
    <2> QED
        BY <2>2, <2>3
<1>5. ASSUME NEW h \in Handles
      PROVE  sent_messages[h] \subseteq sent_messages'[h] \/ BeingRemoved(h)'
    BY <1>1, <1>2, <1>3, EndInvTypes DEF BeingRemoved, CacheTypeOK
<1> QED
    BY <1>1, <1>4, <1>5, QuietStep DEF BeingRemoved

\* The thread that is joined had nothing in hand.
LEMMA JoinKeeps ==
    ASSUME EndInv, [Next]_vars, JoinHandle
    PROVE  EndInv'
<1>1. PICK v \in Handles : v = victim
    BY DEF JoinHandle, EndInv, CustodyInv, IndInv, VictimIsHandle, TypeOK
<1>2. /\ thread[v] = "dead" /\ thread' = [thread EXCEPT ![v] = "none"]
      /\ new_messages' = [new_messages EXCEPT ![v] = <<>>]
      /\ sent_messages' = [sent_messages EXCEPT ![v] = {}]
      /\ unhandled_messages' = [unhandled_messages EXCEPT ![v] = Unhandled(v)]
      /\ UNCHANGED <<reply, responses, answers>>
    BY <1>1 DEF JoinHandle, DestroyHandle, DestroyCache, GoTo, responseVars
<1>3. ASSUME NEW g \in Handles, g # v
      PROVE  /\ thread'[g] = thread[g] /\ Custody(g)' = Custody(g)
             /\ sent_messages'[g] = sent_messages[g] /\ ~BeingRemoved(g)
    BY <1>1, <1>2, <1>3, EndInvTypes DEF Custody, Queue, BeingRemoved, HandleTypeOK, CacheTypeOK
<1>4. thread'[v] = "none" /\ thread[v] # "enqueue"
    BY <1>2, EndInvTypes DEF HandleTypeOK
<1> QED
    BY <1>2, <1>3, <1>4, QuietStep

LEMMA CreateKeeps ==
    ASSUME EndInv, [Next]_vars, NEW i \in Infos, CreateHandle(i)
    PROVE  EndInv'
<1>1. /\ i.name \in Handles /\ thread[i.name] = "none"
      /\ thread' = [thread EXCEPT ![i.name] = "control"]
      /\ UNCHANGED <<reply, responses, answers, sent_messages>> /\ ping = "create"
    BY DEF CreateHandle, Infos, ConstructHandle, append_message_queue, GoTo, responseVars,
       EndInv, CustodyInv, IndInv, NoHandleNoCache
<1>2. Queues' = Queues /\ sent_messages' = sent_messages
    BY CreateIsPromised DEF EndInv, CustodyInv, PromiseVars
<1>3. \A g \in Handles : Custody(g)' = Custody(g) /\ ~BeingRemoved(g)
    BY <1>1, <1>2, CustodyOfQueue DEF BeingRemoved
<1>4. /\ thread'[i.name] = "control"
      /\ \A g \in Handles : g # i.name => thread'[g] = thread[g]
    BY <1>1, EndInvTypes DEF HandleTypeOK
<1> QED
    BY <1>1, <1>3, <1>4, QuietStep

\* The steps that touch neither queue nor cache, and no response.
LEMMA OtherStepKeeps ==
    ASSUME EndInv, [Next]_vars,
           UNCHANGED <<new_messages, sent_messages, unhandled_messages, thread, reply,
                       responses, answers>>,
           \A h \in Handles : BeingRemoved(h) => BeingRemoved(h)'
    PROVE  EndInv'
<1>1. \A h \in Handles : Custody(h)' = Custody(h)
    BY DEF Custody, Queue
<1> QED
    BY <1>1, QuietStep

LEMMA EndInvStep == EndInv /\ [Next]_vars => EndInv'
<1> SUFFICES ASSUME EndInv, [Next]_vars PROVE EndInv'
    OBVIOUS
<1> USE DEF mapVars, cacheVars, handleVars, threadVars, responseVars
<1>1. ASSUME NEW m \in Messages, Send(m)
      PROVE  EndInv'
    BY <1>1, SendKeeps
<1>2. ASSUME NEW h \in Handles, Register(h) \/ HandleStep(h) \/ EnqueueResponse(h)
      PROVE  EndInv'
    <2>1. CASE Register(h)
        BY <2>1, OtherStepKeeps DEF Register, pingVars, BeingRemoved
    <2>2. CASE HandleStep(h)
        BY <2>2, ThreadKeeps DEF HandleStep
    <2>3. CASE EnqueueResponse(h)
        BY <2>3, EnqueueKeeps
    <2> QED
        BY <1>2, <2>1, <2>2, <2>3
<1>3. CASE DispatchPass
    BY <1>3, DispatchKeeps
<1>4. ASSUME NEW v \in Views, BeginRefresh(v)
      PROVE  EndInv'
    BY <1>4, OtherStepKeeps DEF BeginRefresh, BeingRemoved
<1>5. CASE Refresh
    <2>1. ASSUME NEW h \in Handles, RemoveHandle(h)
          PROVE  EndInv'
        BY <2>1, OtherStepKeeps DEF RemoveHandle, Disconnect, BeingRemoved
    <2>2. CASE KillHandle
        BY <2>2, OtherStepKeeps DEF KillHandle, Kill, BeingRemoved
    <2>3. CASE UpdateHosts
        BY <2>3, OtherStepKeeps DEF UpdateHosts, ReconnectAll, ConnectAllToNewHosts, BeingRemoved
    <2>4. ASSUME NEW i \in Infos, CreateFails(i)
          PROVE  EndInv'
        BY <2>4, OtherStepKeeps DEF CreateFails, BeingRemoved
    <2>5. CASE ConnectHandle
        BY <2>5, OtherStepKeeps DEF ConnectHandle, Connect, BeingRemoved
    <2> QED
        BY <1>5, <2>1, <2>2, <2>3, <2>4, <2>5, CollectKeeps, JoinKeeps, CreateKeeps DEF Refresh
<1>6. ASSUME NEW h \in Handles, NEW m \in Messages, WorkersStep(h, m)
      PROVE  EndInv'
    BY <1>6, OtherStepKeeps DEF WorkersStep, WorkerStep, WorkerChunk, WorkerFinal, WorkerRefuses,
       HostLost, serviceVars, pingVars, BeingRemoved
<1>7. CASE UNCHANGED vars
    BY <1>7, OtherStepKeeps DEF vars, serviceVars, pingVars, BeingRemoved
<1> QED
    BY <1>1, <1>2, <1>3, <1>4, <1>5, <1>6, <1>7 DEF Next

LEMMA EndInvInit == Init => EndInv
<1> SUFFICES ASSUME Init PROVE EndInv
    OBVIOUS
<1>1. /\ \A h \in Handles : responses[h] = <<>> /\ thread[h] = "none"
      /\ \A m \in Messages : answers[m] = <<>> /\ Dest[m] \in Handles
    BY ServiceConstants DEF Init, HandleInit
<1>2. DOMAIN <<>> = {}
    OBVIOUS
<1> QED
    BY <1>1, <1>2, CustodyInvInit DEF EndInv, ReplyInCustody, AnswersAccepted, EndedIsForgotten,
       FinalIsLast, Ended, Delivered, Handed

\* After a final response the user gets no response to that message any more, although a
\* removal may have made it new again while its response was on its way
\* (handle.hpp:478-573, service.hpp:543-643).
THEOREM FinalEndsAll == Spec => []FinalIsLast
<1>1. EndInv => FinalIsLast
    BY DEF EndInv
<1> QED
    BY <1>1, EndInvInit, EndInvStep, PTL DEF Spec

-----------------------------------------------------------------------------
(* A message is lost only with a handle that is removed.                      *)

\* Where a message that was accepted may be.
Kept(m) ==
    \/ m \in Custody(Dest[m])
    \/ AnswerUnderWay(m) \/ Answered(m) \/ m \in discarded

\* What a thread does to its cache takes nothing out of custody, but for the final response.
LEMMA ThreadStepKeepsCustody ==
    ASSUME EndInv, NEW h \in Handles, ThreadStep(h), UNCHANGED serviceVars, ~ApplyFinal(h)
    PROVE  Custody(h) \subseteq Custody(h)'
<1>1. /\ new_messages \in [Handles -> Seq(Messages)] /\ new_messages[h] \in Seq(Messages)
      /\ sent_messages \in [Handles -> SUBSET Messages]
      /\ unhandled_messages' = unhandled_messages
    BY EndInvTypes DEF CacheTypeOK, serviceVars, mapVars
<1>2. CASE UNCHANGED cacheVars
    BY <1>1, <1>2 DEF cacheVars, Custody, Queue
<1>3. h \in handles
    BY DEF EndInv, CustodyInv, IndInv, NoHandleNoCache, ThreadStep, ReceiveNothing, ReceiveControl,
       CopyNewHosts, ClearNewHosts, ReceiveKill, CountNewMessages, TransmitMessage, MoveMessage,
       NoResponse, ReceiveResponse, ApplyRefusal, ApplyFinal
<1>4. Queue(h) = new_messages[h] /\ unhandled_messages[h] = <<>>
    BY <1>3, QueueOfHandle DEF EndInv, CustodyInv, IndInv
<1>5. ASSUME new_messages'[h] \in Seq(Messages)
      PROVE  Queue(h)' = new_messages'[h]
    BY <1>1, <1>4, <1>5, ConcatEmptySeq DEF Queue
<1>6. CASE MoveMessage(h)
    <2>1. /\ new_messages[h] # <<>>
          /\ new_messages'[h] = Tail(new_messages[h])
          /\ sent_messages'[h] = sent_messages[h] \union {Head(new_messages[h])}
        BY <1>1, <1>6 DEF MoveMessage, move_new_message_to_sent
    <2>2. /\ Tail(new_messages[h]) \in Seq(Messages)
          /\ Range(new_messages[h]) \subseteq Range(Tail(new_messages[h])) \union {Head(new_messages[h])}
        BY <1>1, <2>1, TailOnce
    <2> QED
        BY <1>4, <1>5, <2>1, <2>2 DEF Custody
<1>7. CASE ApplyRefusal(h) /\ reply[h].msg \in sent_messages[h]
    <2>1. /\ new_messages'[h] = <<reply[h].msg>> \o new_messages[h]
          /\ sent_messages'[h] = sent_messages[h] \ {reply[h].msg}
          /\ reply[h].msg \in Messages
        BY <1>1, <1>7 DEF ApplyRefusal, move_sent_message_to_new_front
    <2>2. /\ <<reply[h].msg>> \o new_messages[h] \in Seq(Messages)
          /\ Range(<<reply[h].msg>> \o new_messages[h]) = {reply[h].msg} \union Range(new_messages[h])
        BY <1>1, <2>1, PushOnce
    <2> QED
        BY <1>4, <1>5, <2>1, <2>2 DEF Custody
<1>8. CASE ~MoveMessage(h) /\ ~(ApplyRefusal(h) /\ reply[h].msg \in sent_messages[h])
    <2>1. UNCHANGED cacheVars
        BY <1>8 DEF ThreadStep, ReceiveNothing, ReceiveControl, CopyNewHosts, ClearNewHosts,
           ReceiveKill, CountNewMessages, TransmitMessage, NoResponse, ReceiveResponse,
           ApplyRefusal, move_sent_message_to_new_front
    <2> QED
        BY <1>2, <2>1
<1> QED
    BY <1>6, <1>7, <1>8

\* The thread that a removal has joined left no message among the sent ones, and none in
\* a queue that was not stored among the unhandled ones.
LosesNothing ==
    /\ sent_messages[victim] = {}
    /\ victim \in shared_queue \/ new_messages[victim] = <<>>

\* Custody shrinks by a final response, and by a removal that loses something.
LEMMA CustodyStays ==
    ASSUME EndInv, [Next]_vars, NEW h \in Handles,
           ~(HandleStep(h) /\ ApplyFinal(h)), JoinHandle /\ victim = h => LosesNothing
    PROVE  Custody(h) \subseteq Custody(h)'
<1> USE DEF mapVars, cacheVars
<1>1. ASSUME UNCHANGED <<new_messages, sent_messages, unhandled_messages>>
      PROVE  Custody(h) \subseteq Custody(h)'
    BY <1>1 DEF Custody, Queue
<1>2. ASSUME NEW m \in Messages, Send(m)
      PROVE  Custody(h) \subseteq Custody(h)'
    <2>1. /\ sent_messages' = sent_messages /\ Dest[m] \in Handles
          /\ Queues' = [Queues EXCEPT ![Dest[m]] = Append(Queues[Dest[m]], m)]
        BY <1>2, SendIsPromised, EndInvTypes DEF EndInv, CustodyInv, Promised!Accept, Queues
    <2>2. Queues[h] \in Seq(Messages)
        BY QueueOfHandle DEF EndInv, CustodyInv, IndInv, Queues
    <2>3. Queues'[h] = Append(Queues[h], m) \/ Queues'[h] = Queues[h]
        BY <2>1 DEF Queues
    <2>4. Range(Queues[h]) \subseteq Range(Queues'[h])
        BY <2>2, <2>3, AppendOnce
    <2> QED
        BY <2>1, <2>4, CustodyOfQueue
<1>3. ASSUME NEW g \in Handles, HandleStep(g)
      PROVE  Custody(h) \subseteq Custody(h)'
    <2>1. CASE g = h
        BY <1>3, <2>1, ThreadStepKeepsCustody DEF HandleStep
    <2>2. CASE g # h
        BY <1>3, <2>2, ThreadStepOfOne, EndInvTypes DEF HandleStep, serviceVars, Custody, Queue
    <2> QED
        BY <2>1, <2>2
<1>4. CASE CollectMessages
    <2>1. PICK v \in Handles : v = victim
        BY <1>4 DEF CollectMessages, EndInv, CustodyInv, IndInv, VictimIsHandle, TypeOK
    <2>2. /\ \E s \in Orderings(sent_messages[v]) : Queues' = [Queues EXCEPT ![v] = Queues[v] \o s]
          /\ sent_messages' = [sent_messages EXCEPT ![v] = {}]
        BY <1>4, <2>1, CollectIsPromised DEF EndInv, CustodyInv, Promised!Requeue, Queues,
           Orderings, SetToSeqs, Promised!SetToSeqs, Promised!Cardinality, Cardinality
    <2>3. Queues[h] \in Seq(Messages) /\ sent_messages[h] \in SUBSET Messages
        BY QueueOfHandle, EndInvTypes DEF EndInv, CustodyInv, IndInv, Queues, CacheTypeOK
    <2>4. CASE h = v
        <3>1. PICK s \in Orderings(sent_messages[h]) : Queues'[h] = Queues[h] \o s
            BY <2>2, <2>4 DEF Queues
        <3>2. s \in Seq(Messages) /\ Range(s) = sent_messages[h]
            BY <2>3, OrderingOnce
        <3>3. Range(Queues'[h]) = Range(Queues[h]) \union sent_messages[h]
            BY <2>3, <3>1, <3>2, ConcatOnce
        <3> QED
            BY <3>3, CustodyOfQueue
    <2>5. CASE h # v
        <3>1. Queues'[h] = Queues[h] /\ sent_messages'[h] = sent_messages[h]
            BY <2>2, <2>5, EndInvTypes DEF Queues, CacheTypeOK
        <3> QED
            BY <3>1, CustodyOfQueue
    <2> QED
        BY <2>4, <2>5
<1>5. CASE JoinHandle
    <2>1. /\ new_messages' = [new_messages EXCEPT ![victim] = <<>>]
          /\ sent_messages' = [sent_messages EXCEPT ![victim] = {}]
          /\ unhandled_messages' = [unhandled_messages EXCEPT ![victim] = Unhandled(victim)]
          /\ victim \in handles
        BY <1>5 DEF JoinHandle, DestroyCache, EndInv, CustodyInv, IndInv, VictimIsHandle
    <2>2. /\ new_messages \in [Handles -> Seq(Messages)]
          /\ sent_messages \in [Handles -> SUBSET Messages]
          /\ unhandled_messages \in [Handles -> Seq(Messages)]
        BY DEF EndInv, CustodyInv, IndInv, TypeOK, CacheTypeOK
    <2>3. CASE victim # h
        <3>1. /\ new_messages'[h] = new_messages[h] /\ sent_messages'[h] = sent_messages[h]
              /\ unhandled_messages'[h] = unhandled_messages[h]
            BY <2>1, <2>2, <2>3
        <3> QED
            BY <3>1 DEF Custody, Queue
    <2>4. CASE victim = h
        <3>1. Queue(h) = new_messages[h] /\ unhandled_messages[h] = <<>> /\ sent_messages[h] = {}
            BY <1>5, <2>1, <2>4, QueueOfHandle DEF EndInv, CustodyInv, IndInv, LosesNothing
        <3>2. Unhandled(h) = new_messages[h]
            BY <1>5, <2>4, <3>1 DEF LosesNothing, Unhandled
        <3>3. new_messages'[h] = <<>> /\ unhandled_messages'[h] = new_messages[h]
            BY <2>1, <2>2, <2>4, <3>2
        <3>4. Queue(h)' = new_messages[h]
            BY <2>2, <3>3, ConcatEmptySeq DEF Queue
        <3> QED
            BY <3>1, <3>4 DEF Custody
    <2> QED
        BY <2>3, <2>4
<1>6. ASSUME NEW i \in Infos, CreateHandle(i)
      PROVE  Custody(h) \subseteq Custody(h)'
    <2>1. Queues' = Queues /\ sent_messages' = sent_messages
        BY <1>6, CreateIsPromised DEF EndInv, CustodyInv, PromiseVars
    <2> QED
        BY <2>1, CustodyOfQueue
<1>7. ASSUME NEW g \in Handles, Register(g) \/ EnqueueResponse(g) \/ RemoveHandle(g)
      PROVE  Custody(h) \subseteq Custody(h)'
    BY <1>1, <1>7 DEF Register, EnqueueResponse, RemoveHandle
<1>8. CASE DispatchPass \/ (\E v \in Views : BeginRefresh(v)) \/ KillHandle \/ UpdateHosts
           \/ (\E i \in Infos : CreateFails(i)) \/ ConnectHandle \/ UNCHANGED vars
    BY <1>1, <1>8 DEF DispatchPass, BeginRefresh, KillHandle, UpdateHosts, CreateFails,
       ConnectHandle, vars, serviceVars
<1>9. ASSUME NEW g \in Handles, NEW m \in Messages, WorkersStep(g, m)
      PROVE  Custody(h) \subseteq Custody(h)'
    BY <1>1, <1>9 DEF WorkersStep, WorkerStep, WorkerChunk, WorkerFinal, WorkerRefuses, HostLost,
       serviceVars
<1> QED
    BY <1>2, <1>3, <1>4, <1>5, <1>6, <1>7, <1>8, <1>9 DEF Next, Refresh

\* A thread that is about to hand a response over does nothing else.
LEMMA HandsOver ==
    ASSUME EndInv, [Next]_vars, NEW h \in Handles, thread[h] = "enqueue", ~EnqueueResponse(h)
    PROVE  thread'[h] = "enqueue" /\ reply'[h] = reply[h]
<1> USE DEF cacheVars, handleVars, threadVars
<1>1. ASSUME NEW g \in Handles, HandleStep(g)
      PROVE  thread'[h] = thread[h] /\ reply'[h] = reply[h]
    <2>1. thread[g] # "enqueue"
        BY <1>1 DEF HandleStep, ThreadStep, ReceiveNothing, ReceiveControl, CopyNewHosts,
           ClearNewHosts, ReceiveKill, CountNewMessages, TransmitMessage, MoveMessage, NoResponse,
           ReceiveResponse, ApplyRefusal, ApplyFinal
    <2> QED
        BY <1>1, <2>1, ThreadStepOfOne, EndInvTypes DEF HandleStep
<1>2. ASSUME NEW g \in Handles, EnqueueResponse(g)
      PROVE  thread'[h] = thread[h] /\ reply'[h] = reply[h]
    BY <1>2, EndInvTypes DEF EnqueueResponse, GoTo, HandleTypeOK
<1>3. CASE JoinHandle
    BY <1>3, EndInvTypes DEF JoinHandle, DestroyHandle, GoTo, HandleTypeOK
<1>4. ASSUME NEW i \in Infos, CreateHandle(i)
      PROVE  thread'[h] = thread[h] /\ reply'[h] = reply[h]
    <2>1. thread[i.name] = "none"
        BY <1>4 DEF CreateHandle, Infos, EndInv, CustodyInv, IndInv, NoHandleNoCache
    <2> QED
        BY <1>4, <2>1, EndInvTypes DEF CreateHandle, ConstructHandle, GoTo, HandleTypeOK
<1>5. ASSUME NEW m \in Messages, Send(m)
      PROVE  thread'[h] = thread[h] /\ reply'[h] = reply[h]
    BY <1>5 DEF Send
<1>6. ASSUME NEW g \in Handles, Register(g) \/ RemoveHandle(g)
      PROVE  thread'[h] = thread[h] /\ reply'[h] = reply[h]
    BY <1>6 DEF Register, RemoveHandle, Disconnect
<1>7. CASE DispatchPass \/ (\E v \in Views : BeginRefresh(v)) \/ CollectMessages \/ KillHandle
           \/ UpdateHosts \/ (\E i \in Infos : CreateFails(i)) \/ ConnectHandle \/ UNCHANGED vars
    BY <1>7 DEF DispatchPass, BeginRefresh, CollectMessages, KillHandle, Kill, UpdateHosts,
       ReconnectAll, ConnectAllToNewHosts, CreateFails, ConnectHandle, Connect, vars
<1>8. ASSUME NEW g \in Handles, NEW m \in Messages, WorkersStep(g, m)
      PROVE  thread'[h] = thread[h] /\ reply'[h] = reply[h]
    BY <1>8 DEF WorkersStep, WorkerStep, WorkerChunk, WorkerFinal, WorkerRefuses, HostLost
<1> QED
    BY <1>1, <1>2, <1>3, <1>4, <1>5, <1>6, <1>7, <1>8 DEF Next, Refresh

\* What the steps do to the responses on their way and to those the user has.
LEMMA ResponsesMove ==
    ASSUME EndInv, [Next]_vars
    PROVE  \/ UNCHANGED <<responses, answers, discarded>>
           \/ \E h \in Handles : EnqueueResponse(h)
           \/ DispatchPass
BY DEF Next, Send, Register, HandleStep, BeginRefresh, Refresh, RemoveHandle, CollectMessages,
   KillHandle, JoinHandle, UpdateHosts, CreateHandle, CreateFails, ConnectHandle, WorkersStep,
   vars, serviceVars, responseVars

\* What the user was given he keeps, and so it is noted what met no callback.
LEMMA AnsweredStays ==
    ASSUME EndInv, [Next]_vars, NEW m \in Messages, Answered(m) \/ m \in discarded
    PROVE  Answered(m)' \/ m \in discarded'
<1>1. answers[m] \in Seq(Kinds)
    BY EndInvTypes
<1>2. answers'[m] = answers[m] \/ \E k : answers'[m] = Append(answers[m], k)
    BY ResponsesMove DEF EnqueueResponse, DispatchPass
<1>3. discarded \subseteq discarded'
    BY ResponsesMove DEF EnqueueResponse, DispatchPass
<1>4. \A i \in DOMAIN answers[m] : i \in DOMAIN answers'[m] /\ answers'[m][i] = answers[m][i]
    BY <1>1, <1>2
<1>5. Answered(m) <=> \E i \in DOMAIN answers[m] : answers[m][i] \in FinalKinds
    BY DEF Answered, Range
<1>6. Answered(m)' <=> \E i \in DOMAIN answers'[m] : answers'[m][i] \in FinalKinds
    BY DEF Answered, Range
<1> QED
    BY <1>3, <1>4, <1>5, <1>6

\* A final response that waits for the user reaches him.
LEMMA WaitingStays ==
    ASSUME EndInv, [Next]_vars, NEW m \in Messages,
           NEW i \in DOMAIN responses[Dest[m]],
           responses[Dest[m]][i].msg = m, responses[Dest[m]][i].kind \in FinalKinds
    PROVE  AnswerUnderWay(m)' \/ Answered(m)'
<1> DEFINE d == Dest[m]
<1>1. d \in Handles /\ responses[d] \in Seq(Responses) /\ answers[m] \in Seq(Kinds)
    BY EndInvTypes
<1>2. ASSUME NEW j \in DOMAIN responses'[d], responses'[d][j] = responses[d][i]
      PROVE  AnswerUnderWay(m)'
    BY <1>2 DEF AnswerUnderWay
<1>3. CASE responses'[d] = responses[d]
    BY <1>2, <1>3
<1>4. CASE \E g \in Handles : EnqueueResponse(g)
    <2>1. responses'[d] = responses[d] \/ \E r : responses'[d] = Append(responses[d], r)
        <3>1. PICK g \in Handles : EnqueueResponse(g)
            BY <1>4
        <3>2. \/ responses' = responses
              \/ responses' = [responses EXCEPT ![Dest[reply[g].msg]] = Append(@, reply[g])]
            BY <3>1 DEF EnqueueResponse
        <3>3. responses'[d] = responses[d] \/ responses'[d] = Append(responses[d], reply[g])
            BY <1>1, <3>2, EndInvTypes
        <3> QED
            BY <3>3
    <2>2. i \in DOMAIN responses'[d] /\ responses'[d][i] = responses[d][i]
        BY <1>1, <2>1, SMTT(30)
    <2> QED
        BY <1>2, <2>2
<1>5. CASE DispatchPass /\ d \in callbacks /\ responses[d] # <<>>
    <2>1. responses'[d] = Tail(responses[d])
        BY <1>1, <1>5 DEF DispatchPass
    <2>2. CASE i = 1
        <3>1. Head(responses[d]).msg = m /\ Head(responses[d]).kind \in FinalKinds
            BY <1>1, <2>2
        <3>2. answers'[m] = Append(answers[m], Head(responses[d]).kind)
            BY <1>1, <1>5, <3>1 DEF DispatchPass
        <3>3. \A k : LET a == Append(answers[m], k)
                     IN Len(answers[m]) + 1 \in DOMAIN a /\ a[Len(answers[m]) + 1] = k
            BY <1>1
        <3>4. \E j \in DOMAIN answers'[m] : answers'[m][j] \in FinalKinds
            BY <3>1, <3>2, <3>3
        <3> QED
            BY <3>4 DEF Answered, Range
    <2>3. CASE i # 1
        <3>1. i - 1 \in DOMAIN responses'[d] /\ responses'[d][i - 1] = responses[d][i]
            BY <1>1, <2>1, <2>3
        <3> QED
            BY <1>2, <3>1
    <2> QED
        BY <2>2, <2>3
<1>6. CASE DispatchPass /\ ~(d \in callbacks /\ responses[d] # <<>>)
    <2>1. responses'[d] = responses[d]
        BY <1>1, <1>6 DEF DispatchPass
    <2> QED
        BY <1>3, <2>1
<1> QED
    BY <1>3, <1>4, <1>5, <1>6, ResponsesMove

\* A response that is handed over waits for the user, or meets no callback; what is not
\* final leaves its message in custody.
LEMMA HandedStays ==
    ASSUME EndInv, [Next]_vars, NEW m \in Messages, Handed(m)
    PROVE  Kept(m)'
<1> DEFINE d == Dest[m]
<1>1. /\ d \in Handles /\ responses[d] \in Seq(Responses)
      /\ responses \in [Handles -> Seq(Responses)]
      /\ thread[d] = "enqueue" /\ reply[d].msg = m /\ reply[d] \in Responses
    BY EndInvTypes DEF Handed, EndInv, CustodyInv, IndInv, ReplyIsThere
<1>2. CASE ~EnqueueResponse(d)
    BY <1>1, <1>2, HandsOver DEF Kept, AnswerUnderWay
<1>3. CASE EnqueueResponse(d) /\ reply[d].kind \notin FinalKinds
    <2>1. m \in Custody(d)
        BY <1>1, <1>3 DEF EndInv, ReplyInCustody
    <2>2. ~ApplyFinal(d) /\ ~(JoinHandle /\ victim = d)
        BY <1>1 DEF ApplyFinal, JoinHandle, DestroyHandle
    <2>3. m \in Custody(d)'
        BY <1>1, <2>1, <2>2, CustodyStays
    <2> QED
        BY <2>3 DEF Kept
<1>4. CASE EnqueueResponse(d) /\ reply[d].kind \in FinalKinds /\ d \in callbacks
    <2>1. responses'[d] = Append(responses[d], reply[d])
        BY <1>1, <1>4 DEF EnqueueResponse
    <2>2. /\ Len(responses[d]) + 1 \in DOMAIN responses'[d]
          /\ responses'[d][Len(responses[d]) + 1] = reply[d]
        BY <1>1, <2>1
    <2>3. AnswerUnderWay(m)'
        BY <1>1, <1>4, <2>2 DEF AnswerUnderWay
    <2> QED
        BY <2>3 DEF Kept
<1>5. CASE EnqueueResponse(d) /\ reply[d].kind \in FinalKinds /\ d \notin callbacks
    BY <1>1, <1>5 DEF EnqueueResponse, Kept
<1> QED
    BY <1>2, <1>3, <1>4, <1>5

LEMMA KeptStep ==
    ASSUME EndInv, [Next]_vars, NEW m \in Messages, Kept(m),
           JoinHandle /\ victim = Dest[m] => LosesNothing
    PROVE  Kept(m)'
<1> DEFINE d == Dest[m]
<1>1. d \in Handles
    BY EndInvTypes
<1>2. CASE m \in Custody(d) /\ ~(HandleStep(d) /\ ApplyFinal(d))
    BY <1>1, <1>2, CustodyStays DEF Kept
<1>3. CASE m \in Custody(d) /\ HandleStep(d) /\ ApplyFinal(d)
    <2>1. /\ thread[d] = "apply" /\ thread'[d] = "enqueue" /\ reply'[d] = reply[d]
          /\ Queue(d)' = Queue(d) /\ sent_messages'[d] = sent_messages[d] \ {reply[d].msg}
        BY <1>1, <1>3, EndInvTypes DEF HandleStep, ApplyFinal, remove_message_from_cache, GoTo,
           serviceVars, mapVars, Queue, CacheTypeOK, HandleTypeOK
    <2>2. CASE reply[d].msg = m
        BY <2>1, <2>2 DEF Kept, AnswerUnderWay
    <2>3. CASE reply[d].msg # m
        BY <1>3, <2>1, <2>3 DEF Kept, Custody
    <2> QED
        BY <2>2, <2>3
<1>4. CASE Handed(m)
    BY <1>4, HandedStays
<1>5. CASE \E i \in DOMAIN responses[d] :
               responses[d][i].msg = m /\ responses[d][i].kind \in FinalKinds
    BY <1>5, WaitingStays DEF Kept
<1>6. CASE Answered(m) \/ m \in discarded
    BY <1>6, AnsweredStays DEF Kept
<1> QED
    BY <1>2, <1>3, <1>4, <1>5, <1>6 DEF Kept, AnswerUnderWay, Handed

\* A message is in the custody of its handle from the moment it is accepted.
LEMMA AcceptedIsKept ==
    ASSUME EndInv, [Next]_vars, NEW m \in Messages, m \in Accepted', m \notin Accepted
    PROVE  Kept(m)'
<1>1. accepted' # accepted
    BY DEF Accepted
<1>2. PICK n \in Messages : Promised!Accept(n)
    BY <1>1, StepIsPromised DEF EndInv, CustodyInv, Promised!Next, Promised!Transmit,
       Promised!Remember, Promised!Resend, Promised!Finish, Promised!Requeue, Promised!Forget,
       PromiseVars
<1>3. /\ Dest[n] \in Handles /\ accepted \in Seq(Messages)
      /\ accepted' = Append(accepted, n)
      /\ Queues' = [Queues EXCEPT ![Dest[n]] = Append(Queues[Dest[n]], n)]
    BY <1>2, EndInvTypes DEF Promised!Accept, Queues
<1>4. m = n
    BY <1>3, AppendOnce DEF Accepted
<1>5. Queues[Dest[m]] \in Seq(Messages) /\ Dest[m] \in DOMAIN Queues
    BY <1>3, <1>4, QueueOfHandle DEF EndInv, CustodyInv, IndInv, Queues
<1>6. Queues'[Dest[m]] = Append(Queues[Dest[m]], m)
    BY <1>3, <1>4, <1>5
<1>7. m \in Range(Queues'[Dest[m]])
    BY <1>5, <1>6, AppendOnce
<1> QED
    BY <1>3, <1>4, <1>7, CustodyOfQueue DEF Kept

LEMMA NoMessageLostIsKept == NoMessageLost <=> \A m \in Accepted : Kept(m)
BY DEF NoMessageLost, Kept, Custody

\* README.md:15, "no messages lost, yeah!", holds but for a removal that joins a thread
\* which remembers messages as sent, or whose queue was not stored: the refusals, the
\* responses that meet no callback and the other removals lose no message
\* (handle.hpp:478-628, service.hpp:543-643).
THEOREM OnlyJoinLoses ==
    Spec /\ [][JoinHandle => LosesNothing]_vars => []NoMessageLost
<1>1. Init => NoMessageLost
    <2>1. ASSUME Init
          PROVE  Accepted = {}
        BY <2>1 DEF Init, Accepted, Range
    <2> QED
        BY <2>1 DEF NoMessageLost
<1>2. EndInv /\ NoMessageLost /\ [Next]_vars /\ [JoinHandle => LosesNothing]_vars => NoMessageLost'
    <2> SUFFICES ASSUME EndInv, NoMessageLost, [Next]_vars, [JoinHandle => LosesNothing]_vars,
                        NEW m \in Accepted'
                 PROVE  Kept(m)'
        BY DEF NoMessageLost, Kept, Custody
    <2>1. m \in Messages
        BY CustodyOnlyGrows DEF CustodyInv, IndInv, TypeOK, Accepted, Range
    <2>2. CASE m \in Accepted /\ (JoinHandle => LosesNothing)
        BY <2>1, <2>2, NoMessageLostIsKept, KeptStep
    <2>3. CASE m \in Accepted /\ UNCHANGED vars
        <3>1. ~JoinHandle
            BY <2>3 DEF vars, serviceVars, pingVars, JoinHandle
        <3> QED
            BY <2>1, <2>3, <3>1, NoMessageLostIsKept, KeptStep
    <2>4. CASE m \notin Accepted
        BY <2>1, <2>4, AcceptedIsKept
    <2> QED
        BY <2>2, <2>3, <2>4
<1> QED
    BY <1>1, <1>2, EndInvInit, EndInvStep, PTL DEF Spec

-----------------------------------------------------------------------------
(* The workers have a message once, and nothing the thread does not remember. *)

\* What makes WorkedOnOnce inductive, of one handle: a message whose last response the
\* thread is about to apply is under way no more, and nothing is when no thread has a
\* socket.
WorkOf(h) ==
    /\ \A m \in Messages :
          UnderWay(h, m) /\ ~BeingRemoved(h) => Remembered(h, m) /\ OneCopy(h, m)
    /\ thread[h] = "apply" /\ ~BeingRemoved(h) => ~UnderWay(h, reply[h].msg)
    /\ thread[h] \in {"none", "dead"} => \A m \in Messages : ~UnderWay(h, m)

WorkInv == CustodyInv /\ \A h \in Handles : WorkOf(h)

\* A step that touches neither the socket nor the workers, and makes the thread forget nothing.
LEMMA WorkStays ==
    ASSUME NEW h \in Handles, WorkOf(h), wire'[h] = wire[h], inbox'[h] = inbox[h],
           BeingRemoved(h) => BeingRemoved(h)',
           \A m \in Messages : UnderWay(h, m) /\ Remembered(h, m) => Remembered(h, m)' \/ BeingRemoved(h)',
           thread'[h] = "apply" => thread[h] = "apply" /\ reply'[h] = reply[h],
           thread'[h] \in {"none", "dead"} => thread[h] \in {"none", "dead"}
    PROVE  WorkOf(h)'
<1>1. \A m : (UnderWay(h, m)' <=> UnderWay(h, m)) /\ (OneCopy(h, m)' <=> OneCopy(h, m))
    BY DEF UnderWay, OneCopy, Waiting
<1>2. ASSUME NEW m \in Messages, UnderWay(h, m)', ~BeingRemoved(h)'
      PROVE  Remembered(h, m)' /\ OneCopy(h, m)'
    BY <1>1, <1>2 DEF WorkOf
<1>3. ASSUME thread'[h] = "apply", ~BeingRemoved(h)'
      PROVE  ~UnderWay(h, reply[h].msg)'
    BY <1>1, <1>3 DEF WorkOf
<1> QED
    BY <1>1, <1>2, <1>3 DEF WorkOf

\* A socket that was just opened.
LEMMA NewSocketWork ==
    ASSUME NEW h \in Handles, inbox'[h] = <<>>, \A m \in Messages : wire'[h][m] = 0,
           thread'[h] # "apply"
    PROVE  WorkOf(h)'
<1>1. \A m \in Messages : ~UnderWay(h, m)'
    BY DEF UnderWay, Waiting
<1> QED
    BY <1>1 DEF WorkOf

\* A message that was not under way goes out.
LEMMA TransmitWork ==
    ASSUME WorkInv, NEW h \in Handles, TransmitMessage(h), UNCHANGED serviceVars
    PROVE  WorkOf(h)'
<1>1. HandleTypeOK /\ CacheTypeOK /\ WorkOf(h) /\ Once(Queue(h), sent_messages[h])
    BY DEF WorkInv, CustodyInv, IndInv, TypeOK, SingleCustody, Once
<1>2. PICK n \in Messages : n = Head(new_messages[h]) /\ n \notin sent_messages[h]
    <2>1. /\ unhandled_messages[h] \in Seq(Messages) /\ new_messages[h] \in Seq(Messages)
          /\ new_messages[h] # <<>>
        BY DEF WorkInv, CustodyInv, IndInv, TypeOK, CacheTypeOK, TransmitMessage
    <2>2. Head(new_messages[h]) \in Range(new_messages[h]) /\ Head(new_messages[h]) \in Messages
        BY <2>1, TailOnce
    <2>3. Range(new_messages[h]) \subseteq Range(Queue(h))
        BY <2>1, ConcatOnce DEF Queue
    <2> QED
        BY <1>1, <2>2, <2>3 DEF Once
<1>3. /\ thread[h] = "transmit" /\ thread'[h] = "move" /\ sending'[h] = n
      /\ UNCHANGED <<inbox, sent_messages, ping, victim>>
      /\ wire'[h][n] = wire[h][n] + 1
      /\ \A m \in Messages : m # n => wire'[h][m] = wire[h][m]
    BY <1>1, <1>2 DEF TransmitMessage, GoTo, HandleTypeOK, serviceVars, pingVars, cacheVars
<1>4. wire[h][n] \in Nat
    BY <1>1, <1>2 DEF HandleTypeOK
<1>5. BeingRemoved(h)' <=> BeingRemoved(h)
    BY <1>3 DEF BeingRemoved
<1>6. ASSUME NEW m \in Messages, UnderWay(h, m)', ~BeingRemoved(h)'
      PROVE  Remembered(h, m)' /\ OneCopy(h, m)'
    <2>1. CASE m = n
        <3>1. ~UnderWay(h, n)
            BY <1>1, <1>2, <1>3, <1>5, <1>6 DEF WorkOf, Remembered
        <3>2. wire'[h][n] = 1 /\ Waiting(h, n)' = {}
            BY <1>3, <1>4, <3>1 DEF UnderWay, Waiting
        <3> QED
            BY <1>3, <2>1, <3>2 DEF Remembered, OneCopy
    <2>2. CASE m # n
        <3>1. wire'[h][m] = wire[h][m] /\ Waiting(h, m)' = Waiting(h, m) /\ inbox'[h] = inbox[h]
            BY <1>3, <2>2 DEF Waiting
        <3>2. Remembered(h, m) /\ OneCopy(h, m)
            BY <1>1, <1>5, <1>6, <3>1 DEF WorkOf, UnderWay
        <3> QED
            BY <1>3, <3>1, <3>2 DEF Remembered, OneCopy
    <2> QED
        BY <2>1, <2>2
<1> QED
    BY <1>3, <1>6 DEF WorkOf

\* The thread takes a response: after a last one nothing of the message is under way.
LEMMA ReceiveWork ==
    ASSUME WorkInv, NEW h \in Handles, ReceiveResponse(h), UNCHANGED serviceVars
    PROVE  WorkOf(h)'
<1>1. HandleTypeOK /\ WorkOf(h)
    BY DEF WorkInv, CustodyInv, IndInv, TypeOK
<1> DEFINE q == inbox[h]
<1>2. PICK r \in Responses : q \in Seq(Responses) /\ q # <<>> /\ r = Head(q)
    BY <1>1 DEF HandleTypeOK, ReceiveResponse
<1>3. /\ thread[h] = "receive" /\ inbox'[h] = Tail(q)
      /\ UNCHANGED <<wire, sent_messages, ping, victim>>
      /\ thread'[h] \in {"receive", "enqueue", "apply"}
      /\ thread'[h] = "apply" => reply'[h] = r /\ r.kind # "chunk"
    BY <1>1, <1>2 DEF ReceiveResponse, GoTo, HandleTypeOK, serviceVars, pingVars, cacheVars
<1>4. /\ 1 \in DOMAIN q /\ r = q[1]
      /\ \A i \in DOMAIN Tail(q) : i + 1 \in DOMAIN q /\ Tail(q)[i] = q[i + 1] /\ i \in Nat \ {0}
    <2> HIDE DEF q
    <2> QED
        BY <1>2
<1>r. r.msg \in Messages
    BY DEF Responses
<1> HIDE DEF q
<1>5. BeingRemoved(h)' <=> BeingRemoved(h)
    BY <1>3 DEF BeingRemoved
<1>6. \A m : \A i \in Waiting(h, m)' : i + 1 \in Waiting(h, m) /\ Tail(q)[i] = q[i + 1] /\ i \in Nat \ {0}
    BY <1>3, <1>4 DEF Waiting, q
<1>7. ASSUME NEW m \in Messages, UnderWay(h, m)', ~BeingRemoved(h)'
      PROVE  Remembered(h, m)' /\ OneCopy(h, m)'
    <2>1. UnderWay(h, m) /\ wire'[h][m] = wire[h][m]
        BY <1>3, <1>6, <1>7 DEF UnderWay
    <2>2. Remembered(h, m) /\ OneCopy(h, m)
        BY <1>1, <1>5, <1>7, <2>1 DEF WorkOf
    <2>3. ASSUME NEW i \in Waiting(h, m)', inbox'[h][i].kind # "chunk"
          PROVE  wire'[h][m] = 0 /\ \A j \in Waiting(h, m)' : j <= i
        <3>1. i + 1 \in Waiting(h, m) /\ q[i + 1].kind # "chunk" /\ i \in Nat
            BY <1>3, <1>6, <2>3
        <3>2. wire[h][m] = 0 /\ \A j \in Waiting(h, m) : j <= i + 1
            BY <2>2, <3>1 DEF OneCopy, q
        <3>3. ASSUME NEW j \in Waiting(h, m)'
              PROVE  j <= i
            <4>1. j + 1 \in Waiting(h, m) /\ j \in Nat
                BY <1>6
            <4> QED
                BY <3>1, <3>2, <4>1
        <3> QED
            BY <2>1, <3>2, <3>3
    <2> QED
        BY <1>3, <2>1, <2>2, <2>3 DEF Remembered, OneCopy
<1>8. ASSUME thread'[h] = "apply", ~BeingRemoved(h)'
      PROVE  ~UnderWay(h, reply[h].msg)'
    <2>1. reply'[h] = r /\ r.kind # "chunk"
        BY <1>3, <1>8
    <2>2. 1 \in Waiting(h, r.msg)
        BY <1>4 DEF Waiting, q
    <2>3. OneCopy(h, r.msg)
        BY <1>1, <1>4, <1>5, <1>8, <1>r, <2>2 DEF WorkOf, UnderWay
    <2>4. wire[h][r.msg] = 0 /\ \A j \in Waiting(h, r.msg) : j <= 1
        BY <1>4, <2>1, <2>2, <2>3 DEF OneCopy, q
    <2>5. Waiting(h, r.msg)' = {}
        <3>1. ASSUME NEW i \in Waiting(h, r.msg)' PROVE FALSE
            <4>1. i + 1 \in Waiting(h, r.msg) /\ i \in Nat \ {0}
                BY <1>6
            <4> QED
                BY <2>4, <4>1
        <3> QED
            BY <3>1
    <2>6. ~(wire'[h][r.msg] > 0)
        BY <1>3, <2>4
    <2> QED
        BY <2>1, <2>5, <2>6 DEF UnderWay, Waiting
<1> QED
    BY <1>3, <1>7, <1>8 DEF WorkOf

\* A step of the thread.
LEMMA ThreadWork ==
    ASSUME WorkInv, NEW h \in Handles, HandleStep(h)
    PROVE  \A g \in Handles : WorkOf(g)'
<1>1. /\ HandleTypeOK /\ CacheTypeOK /\ SendsWhatItMoves /\ \A g \in Handles : WorkOf(g)
      /\ ThreadStep(h) /\ UNCHANGED serviceVars
    BY DEF WorkInv, CustodyInv, IndInv, TypeOK, HandleStep
<1>2. UNCHANGED <<ping, victim>>
    BY <1>1 DEF serviceVars, pingVars
<1>3. \A g \in Handles : BeingRemoved(g)' <=> BeingRemoved(g)
    BY <1>2 DEF BeingRemoved
<1>4. ASSUME NEW g \in Handles, g # h
      PROVE  WorkOf(g)'
    <2>1. /\ thread'[g] = thread[g] /\ sent_messages'[g] = sent_messages[g]
          /\ reply'[g] = reply[g] /\ sending'[g] = sending[g]
        BY <1>1, <1>4, ThreadStepOfOne
    <2>2. wire'[g] = wire[g] /\ inbox'[g] = inbox[g]
        BY <1>1, <1>4 DEF ThreadStep, ReceiveNothing, ReceiveControl, CopyNewHosts, ClearNewHosts,
           ReceiveKill, CountNewMessages, TransmitMessage, MoveMessage, NoResponse, ReceiveResponse,
           ApplyRefusal, ApplyFinal, OpenSocket, HandleTypeOK, workVars
    <2>3. \A m \in Messages : Remembered(g, m)' <=> Remembered(g, m)
        BY <2>1 DEF Remembered
    <2> QED
        BY <1>1, <1>3, <2>1, <2>2, <2>3, WorkStays
<1>5. WorkOf(h)'
    <2>1. CASE \/ ReceiveNothing(h) \/ CopyNewHosts(h) \/ ClearNewHosts(h)
               \/ CountNewMessages(h) \/ NoResponse(h)
        <3>1. /\ UNCHANGED <<wire, inbox, sent_messages>> /\ thread[h] # "move"
              /\ thread'[h] \notin {"apply", "none", "dead"}
            BY <1>1, <2>1 DEF ReceiveNothing, CopyNewHosts, ClearNewHosts, CountNewMessages, NoResponse,
               GoTo, HandleTypeOK, workVars, cacheVars
        <3>2. \A m \in Messages : Remembered(h, m) => Remembered(h, m)'
            BY <3>1 DEF Remembered
        <3> QED
            BY <1>1, <1>3, <3>1, <3>2, WorkStays
    <2>2. CASE ReceiveControl(h)
        <3>1. UNCHANGED sent_messages /\ thread[h] # "move" /\ thread'[h] \notin {"apply", "none", "dead"}
            BY <1>1, <2>2 DEF ReceiveControl, GoTo, HandleTypeOK, cacheVars
        <3>2. \/ wire' = wire /\ inbox' = inbox
              \/ inbox'[h] = <<>> /\ \A m \in Messages : wire'[h][m] = 0
            <4>1. ASSUME NEW hs, OpenSocket(h, hs)
                  PROVE  inbox'[h] = <<>> /\ \A m \in Messages : wire'[h][m] = 0
                BY <1>1, <4>1 DEF OpenSocket, HandleTypeOK
            <4>2. OpenSocket(h, hosts[h]) \/ OpenSocket(h, {}) \/ UNCHANGED workVars
                BY <2>2 DEF ReceiveControl
            <4> QED
                BY <4>1, <4>2 DEF workVars
        <3>3. \A m \in Messages : Remembered(h, m) => Remembered(h, m)'
            BY <3>1 DEF Remembered
        <3> QED
            BY <1>1, <1>3, <3>1, <3>2, <3>3, WorkStays, NewSocketWork
    <2>3. CASE ReceiveKill(h)
        <3>1. thread'[h] # "apply" /\ inbox'[h] = <<>> /\ \A m \in Messages : wire'[h][m] = 0
            BY <1>1, <2>3 DEF ReceiveKill, OpenSocket, GoTo, HandleTypeOK
        <3> QED
            BY <3>1, NewSocketWork
    <2>4. CASE MoveMessage(h)
        <3>1. /\ UNCHANGED <<wire, inbox>> /\ thread[h] = "move"
              /\ thread'[h] \notin {"apply", "none", "dead"}
              /\ sent_messages'[h] = sent_messages[h] \union {Head(new_messages[h])}
            BY <1>1, <2>4 DEF MoveMessage, move_new_message_to_sent, GoTo, HandleTypeOK, CacheTypeOK, workVars
        <3>2. sending[h] = Head(new_messages[h])
            BY <1>1, <3>1 DEF SendsWhatItMoves
        <3>3. \A m \in Messages : Remembered(h, m) => Remembered(h, m)'
            BY <3>1, <3>2 DEF Remembered
        <3> QED
            BY <1>1, <1>3, <3>1, <3>3, WorkStays
    <2>5. CASE ApplyRefusal(h) \/ ApplyFinal(h)
        <3>1. /\ UNCHANGED <<wire, inbox>> /\ thread[h] = "apply"
              /\ thread'[h] \notin {"apply", "none", "dead"}
              /\ \A m \in Messages : m # reply[h].msg /\ m \in sent_messages[h] => m \in sent_messages'[h]
            BY <1>1, <2>5 DEF ApplyRefusal, ApplyFinal, move_sent_message_to_new_front,
               remove_message_from_cache, GoTo, HandleTypeOK, CacheTypeOK, workVars, cacheVars
        <3>2. \A m \in Messages : UnderWay(h, m) /\ Remembered(h, m) => Remembered(h, m)' \/ BeingRemoved(h)'
            BY <1>1, <1>3, <3>1 DEF WorkOf, Remembered
        <3> QED
            BY <1>1, <1>3, <3>1, <3>2, WorkStays
    <2> QED
        BY <1>1, <2>1, <2>2, <2>3, <2>4, <2>5, TransmitWork, ReceiveWork DEF ThreadStep
<1> QED
    BY <1>4, <1>5

\* A step of the workers: a last response goes behind every other one to its message.
LEMMA WorkersWork ==
    ASSUME WorkInv, NEW h \in Handles, NEW n \in Messages, WorkersStep(h, n)
    PROVE  \A g \in Handles : WorkOf(g)'
<1>1. /\ HandleTypeOK /\ \A g \in Handles : WorkOf(g)
      /\ WorkerStep(h, n) /\ UNCHANGED serviceVars
    BY DEF WorkInv, CustodyInv, IndInv, TypeOK, WorkersStep
<1>2. UNCHANGED <<ping, victim, thread, reply, sending, sent_messages>>
    BY <1>1 DEF serviceVars, pingVars, WorkerStep, WorkerChunk, WorkerFinal, WorkerRefuses, HostLost,
       threadVars, cacheVars
<1>3. \A g \in Handles : /\ BeingRemoved(g)' <=> BeingRemoved(g)
                         /\ \A m : Remembered(g, m)' <=> Remembered(g, m)
    BY <1>2 DEF BeingRemoved, Remembered
<1>4. /\ wire[h][n] > 0 /\ wire[h][n] \in Nat
      /\ \A g \in Handles : g # h => wire'[g] = wire[g] /\ inbox'[g] = inbox[g]
      /\ \A m \in Messages : m # n => wire'[h][m] = wire[h][m]
      /\ \/ inbox'[h] = inbox[h] /\ wire'[h][n] = wire[h][n] - 1
         \/ \E r \in Responses : /\ r.msg = n
                                 /\ inbox'[h] = Append(inbox[h], r)
                                 /\ \/ r.kind = "chunk" /\ wire' = wire
                                    \/ wire'[h][n] = wire[h][n] - 1
    <2>1. CASE WorkerChunk(h, n)
        <3>1. [msg |-> n, kind |-> "chunk"] \in Responses
            BY DEF Responses, Kinds
        <3> QED
            BY <1>1, <2>1, <3>1 DEF WorkerChunk, Deliver, HandleTypeOK
    <2>2. CASE HostLost(h, n)
        BY <1>1, <2>2 DEF HostLost, WireLoses, HandleTypeOK
    <2>3. CASE WorkerFinal(h, n) \/ WorkerRefuses(h, n)
        <3>1. WireLoses(h, n) /\ \E kind \in Kinds : Deliver(h, n, kind)
            BY <2>3 DEF WorkerFinal, WorkerRefuses, Kinds, FinalKinds
        <3>2. PICK r \in Responses : r.msg = n /\ inbox' = [inbox EXCEPT ![h] = Append(@, r)]
            BY <3>1 DEF Deliver, Responses
        <3> QED
            BY <1>1, <3>1, <3>2 DEF WireLoses, HandleTypeOK
    <2> QED
        BY <1>1, <2>1, <2>2, <2>3 DEF WorkerStep
<1>5. ASSUME NEW g \in Handles, g # h
      PROVE  WorkOf(g)'
    BY <1>1, <1>2, <1>3, <1>4, <1>5, WorkStays
<1>6. WorkOf(h)'
    <2>1. UnderWay(h, n) /\ thread[h] \notin {"none", "dead"}
        BY <1>1, <1>4 DEF WorkOf, UnderWay
    <2>2. /\ inbox[h] \in Seq(Responses)
          /\ \A m \in Messages : m # n => Waiting(h, m)' = Waiting(h, m)
          /\ \A m \in Messages : \A i \in Waiting(h, m) :
                 i \in DOMAIN inbox'[h] /\ inbox'[h][i] = inbox[h][i]
        <3>1. inbox[h] \in Seq(Responses)
            BY <1>1 DEF HandleTypeOK
        <3>2. CASE inbox'[h] = inbox[h]
            BY <3>1, <3>2 DEF Waiting
        <3>3. CASE \E r \in Responses : r.msg = n /\ inbox'[h] = Append(inbox[h], r)
            BY <3>1, <3>3 DEF Waiting
        <3> QED
            BY <1>4, <3>1, <3>2, <3>3
    <2>3. ASSUME NEW m \in Messages, m # n
          PROVE  (UnderWay(h, m)' <=> UnderWay(h, m)) /\ (OneCopy(h, m) => OneCopy(h, m)')
        BY <1>4, <2>2, <2>3 DEF UnderWay, OneCopy, Waiting
    <2>4. ASSUME OneCopy(h, n)
          PROVE  OneCopy(h, n)'
        <3>1. wire[h][n] = 1 /\ \A i \in Waiting(h, n) : inbox[h][i].kind = "chunk"
            BY <1>4, <2>4 DEF OneCopy
        <3>2. CASE inbox'[h] = inbox[h] /\ wire'[h][n] = wire[h][n] - 1
            BY <3>1, <3>2 DEF OneCopy, Waiting
        <3>3. ASSUME NEW r \in Responses, r.msg = n, inbox'[h] = Append(inbox[h], r),
                     (r.kind = "chunk" /\ wire' = wire) \/ wire'[h][n] = wire[h][n] - 1
              PROVE  OneCopy(h, n)'
            <4>1. /\ \A i \in DOMAIN inbox'[h] :
                        i \in Nat /\ i <= Len(inbox[h]) + 1
                        /\ (i = Len(inbox[h]) + 1 \/ (i \in DOMAIN inbox[h] /\ inbox'[h][i] = inbox[h][i]))
                  /\ inbox'[h][Len(inbox[h]) + 1] = r
                BY <2>2, <3>3
            <4>2. ASSUME NEW i \in Waiting(h, n)', inbox'[h][i].kind # "chunk"
                  PROVE  wire'[h][n] = 0 /\ \A j \in Waiting(h, n)' : j <= i
                <5>1. i = Len(inbox[h]) + 1
                    BY <3>1, <4>1, <4>2 DEF Waiting
                <5>2. r.kind # "chunk"
                    BY <4>1, <4>2, <5>1
                <5> QED
                    BY <3>1, <3>3, <4>1, <5>1, <5>2 DEF Waiting
            <4>3. wire'[h][n] <= 1
                BY <3>1, <3>3
            <4> QED
                BY <4>2, <4>3 DEF OneCopy
        <3> QED
            BY <1>4, <3>2, <3>3
    <2>5. ASSUME NEW m \in Messages, UnderWay(h, m)', ~BeingRemoved(h)'
          PROVE  Remembered(h, m)' /\ OneCopy(h, m)'
        BY <1>1, <1>3, <2>1, <2>3, <2>4, <2>5 DEF WorkOf
    <2>6. ASSUME thread'[h] = "apply", ~BeingRemoved(h)'
          PROVE  ~UnderWay(h, reply[h].msg)'
        <3>1. PICK m \in Messages : m = reply[h].msg
            BY <1>2, <2>6 DEF WorkInv, CustodyInv, IndInv, ReplyIsThere, Responses
        <3>2. ~UnderWay(h, m)
            BY <1>1, <1>2, <1>3, <2>6, <3>1 DEF WorkOf
        <3>3. ~UnderWay(h, m)'
            BY <2>1, <2>3, <3>2
        <3> QED
            BY <1>2, <3>1, <3>3
    <2> QED
        BY <1>2, <2>1, <2>5, <2>6 DEF WorkOf
<1> QED
    BY <1>5, <1>6

\* A removal forgets the messages of a handle that is then being removed; when it is joined
\* its thread has no socket.
LEMMA RefreshWork ==
    ASSUME WorkInv, Refresh
    PROVE  \A h \in Handles : WorkOf(h)'
<1>1. /\ HandleTypeOK /\ CacheTypeOK /\ \A h \in Handles : WorkOf(h)
      /\ VictimIsHandle /\ NoHandleNoCache
    BY DEF WorkInv, CustodyInv, IndInv, TypeOK
<1>2. ASSUME UNCHANGED <<wire, inbox, thread, reply, sending, sent_messages>>, ping \notin {"kill", "join"}
      PROVE  \A h \in Handles : WorkOf(h)'
    <2>1. \A h \in Handles : /\ ~BeingRemoved(h)
                             /\ \A m \in Messages : Remembered(h, m)' <=> Remembered(h, m)
        BY <1>2 DEF BeingRemoved, Remembered
    <2> QED
        BY <1>1, <1>2, <2>1, WorkStays
<1>3. ASSUME NEW h \in Handles, RemoveHandle(h)
      PROVE  \A g \in Handles : WorkOf(g)'
    BY <1>2, <1>3 DEF RemoveHandle, Disconnect, threadVars, workVars, cacheVars
<1>4. ASSUME CollectMessages
      PROVE  \A h \in Handles : WorkOf(h)'
    <2>1. /\ UNCHANGED <<wire, inbox, thread, reply, sending, victim>> /\ ping = "collect" /\ ping' = "kill"
          /\ \A h \in Handles : h # victim => sent_messages'[h] = sent_messages[h]
        BY <1>1, <1>4 DEF CollectMessages, make_all_messages_new, handleVars, threadVars, workVars, CacheTypeOK
    <2>2. ASSUME NEW h \in Handles
          PROVE  /\ ~BeingRemoved(h) /\ (h = victim => BeingRemoved(h)')
                 /\ \A m \in Messages : Remembered(h, m) => Remembered(h, m)' \/ BeingRemoved(h)'
        BY <2>1 DEF BeingRemoved, Remembered
    <2> QED
        BY <1>1, <2>1, <2>2, WorkStays
<1>5. ASSUME KillHandle
      PROVE  \A h \in Handles : WorkOf(h)'
    <2>1. UNCHANGED <<wire, inbox, thread, reply, sending, sent_messages, victim>>
          /\ ping = "kill" /\ ping' = "join"
        BY <1>5 DEF KillHandle, Kill, threadVars, workVars, cacheVars
    <2>2. \A h \in Handles : /\ BeingRemoved(h)' <=> BeingRemoved(h)
                             /\ \A m \in Messages : Remembered(h, m)' <=> Remembered(h, m)
        BY <2>1 DEF BeingRemoved, Remembered
    <2> QED
        BY <1>1, <2>1, <2>2, WorkStays
<1>6. ASSUME JoinHandle
      PROVE  \A h \in Handles : WorkOf(h)'
    <2>1. PICK v \in Handles : v = victim
        BY <1>1, <1>6 DEF WorkInv, CustodyInv, IndInv, TypeOK, VictimIsHandle, JoinHandle
    <2>2. /\ UNCHANGED <<wire, inbox, reply, sending>> /\ thread[v] = "dead"
          /\ thread' = [thread EXCEPT ![v] = "none"]
          /\ sent_messages' = [sent_messages EXCEPT ![v] = {}]
        BY <1>6, <2>1 DEF JoinHandle, DestroyHandle, DestroyCache, GoTo, workVars
    <2>3. WorkOf(v)'
        <3>1. thread'[v] = "none" /\ \A m \in Messages : ~UnderWay(v, m)
            BY <1>1, <2>2 DEF WorkOf, HandleTypeOK
        <3> QED
            BY <1>1, <2>2, <3>1, WorkStays DEF WorkOf, UnderWay, Waiting
    <2>4. ASSUME NEW h \in Handles, h # v
          PROVE  WorkOf(h)'
        <3>1. ~BeingRemoved(h) /\ thread'[h] = thread[h] /\ sent_messages'[h] = sent_messages[h]
            BY <1>1, <2>1, <2>2, <2>4 DEF BeingRemoved, HandleTypeOK, CacheTypeOK
        <3>2. \A m \in Messages : Remembered(h, m)' <=> Remembered(h, m)
            BY <2>2, <3>1 DEF Remembered
        <3> QED
            BY <1>1, <2>2, <3>1, <3>2, WorkStays
    <2> QED
        BY <2>3, <2>4
<1>7. ASSUME UpdateHosts
      PROVE  \A h \in Handles : WorkOf(h)'
    BY <1>2, <1>7 DEF UpdateHosts, ReconnectAll, ConnectAllToNewHosts, handleVars, threadVars, workVars, cacheVars
<1>8. ASSUME NEW i \in Infos, CreateHandle(i)
      PROVE  \A h \in Handles : WorkOf(h)'
    <2>1. PICK v \in Handles : v = i.name
        BY DEF Infos
    <2>2. /\ UNCHANGED <<wire, inbox, reply, sending, sent_messages>> /\ thread[v] = "none"
          /\ thread' = [thread EXCEPT ![v] = "control"] /\ ping = "create"
        BY <1>1, <1>8, <2>1 DEF CreateHandle, ConstructHandle, append_message_queue, GoTo, workVars, NoHandleNoCache
    <2>3. ASSUME NEW h \in Handles
          PROVE  /\ ~BeingRemoved(h) /\ thread'[h] = (IF h = v THEN "control" ELSE thread[h])
                 /\ \A m \in Messages : Remembered(h, m)' <=> Remembered(h, m)
        BY <1>1, <2>2 DEF BeingRemoved, Remembered, HandleTypeOK
    <2> QED
        BY <1>1, <2>2, <2>3, WorkStays
<1>9. ASSUME NEW i \in Infos, CreateFails(i)
      PROVE  \A h \in Handles : WorkOf(h)'
    BY <1>2, <1>9 DEF CreateFails, handleVars, threadVars, workVars, cacheVars
<1>10. ASSUME ConnectHandle
       PROVE  \A h \in Handles : WorkOf(h)'
    BY <1>2, <1>10 DEF ConnectHandle, Connect, threadVars, workVars, cacheVars
<1> QED
    BY <1>3, <1>4, <1>5, <1>6, <1>7, <1>8, <1>9, <1>10 DEF Refresh

LEMMA WorkInvStep == WorkInv /\ [Next]_vars => WorkInv'
<1> SUFFICES ASSUME WorkInv, [Next]_vars PROVE \A h \in Handles : WorkOf(h)'
    BY CustodyInvStep DEF WorkInv
<1>1. HandleTypeOK /\ \A h \in Handles : WorkOf(h)
    BY DEF WorkInv, CustodyInv, IndInv, TypeOK
<1>2. ASSUME UNCHANGED <<wire, inbox, thread, reply, sending, sent_messages>>,
             \A h \in Handles : BeingRemoved(h) => BeingRemoved(h)'
      PROVE  \A h \in Handles : WorkOf(h)'
    <2>1. \A h \in Handles : \A m \in Messages : Remembered(h, m)' <=> Remembered(h, m)
        BY <1>2 DEF Remembered
    <2> QED
        BY <1>1, <1>2, <2>1, WorkStays
<1>3. ASSUME NEW m \in Messages, Send(m)
      PROVE  \A h \in Handles : WorkOf(h)'
    BY <1>2, <1>3 DEF Send, CacheEnqueue, cacheVars, handleVars, threadVars, workVars, pingVars, BeingRemoved
<1>4. ASSUME NEW h \in Handles, Register(h)
      PROVE  \A g \in Handles : WorkOf(g)'
    BY <1>2, <1>4 DEF Register, cacheVars, handleVars, threadVars, workVars, pingVars, BeingRemoved
<1>5. ASSUME NEW h \in Handles, EnqueueResponse(h)
      PROVE  \A g \in Handles : WorkOf(g)'
    <2>1. /\ UNCHANGED <<wire, inbox, sending, sent_messages>> /\ thread[h] = "enqueue" /\ ~Locked
          /\ thread' = [thread EXCEPT ![h] = "receive"] /\ reply' = [reply EXCEPT ![h] = None]
        BY <1>5 DEF EnqueueResponse, GoTo, workVars, cacheVars
    <2>2. ASSUME NEW g \in Handles
          PROVE  /\ ~BeingRemoved(g)
                 /\ thread'[g] = (IF g = h THEN "receive" ELSE thread[g])
                 /\ g # h => reply'[g] = reply[g]
                 /\ \A m \in Messages : Remembered(g, m)' <=> Remembered(g, m)
        BY <1>1, <2>1 DEF BeingRemoved, Locked, Remembered, HandleTypeOK
    <2> QED
        BY <1>1, <2>1, <2>2, WorkStays
<1>6. ASSUME DispatchPass
      PROVE  \A h \in Handles : WorkOf(h)'
    BY <1>2, <1>6 DEF DispatchPass, cacheVars, handleVars, threadVars, workVars, pingVars, BeingRemoved
<1>7. ASSUME NEW v \in Views, BeginRefresh(v)
      PROVE  \A h \in Handles : WorkOf(h)'
    BY <1>2, <1>7 DEF BeginRefresh, cacheVars, handleVars, threadVars, workVars, BeingRemoved
<1>8. ASSUME UNCHANGED vars
      PROVE  \A h \in Handles : WorkOf(h)'
    BY <1>2, <1>8 DEF vars, cacheVars, handleVars, threadVars, workVars, serviceVars, pingVars, BeingRemoved
<1> QED
    BY <1>3, <1>4, <1>5, <1>6, <1>7, <1>8, ThreadWork, WorkersWork, RefreshWork DEF Next

LEMMA WorkInvInit == Init => WorkInv
<1> SUFFICES ASSUME Init PROVE \A h \in Handles : WorkOf(h)
    BY CustodyInvInit DEF WorkInv
<1>1. ASSUME NEW h \in Handles
      PROVE  inbox[h] = <<>> /\ thread[h] = "none" /\ \A m \in Messages : wire[h][m] = 0
    BY DEF Init, HandleInit
<1>2. \A h \in Handles, m \in Messages : ~UnderWay(h, m)
    BY <1>1 DEF UnderWay, Waiting
<1> QED
    BY <1>1, <1>2 DEF WorkOf

\* The workers have no message twice and none the thread has forgotten, so that what they
\* answer is never dropped: through refusals, new sockets and lost hosts, and until the
\* thread is being removed (handle.hpp:461-495, 560-616, 828-857).
THEOREM NothingIsWorkedOnTwice == Spec => []WorkedOnOnce
<1>1. WorkInv => WorkedOnOnce
    BY DEF WorkInv, WorkOf, WorkedOnOnce
<1> QED
    BY <1>1, WorkInvInit, WorkInvStep, PTL DEF Spec
=============================================================================
