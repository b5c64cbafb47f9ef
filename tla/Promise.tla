------------------------------ MODULE Promise -------------------------------
(***************************************************************************)
(* What a service promises of the messages it accepts                      *)
(* (src/README.md:15, src/include/details/service.hpp): each waits in the  *)
(* queue of its handle or is remembered as sent.  It leaves a queue at the *)
(* front, after it was given to a worker; it is forgotten when it is       *)
(* answered, or with its handle, and then only after it was given to a     *)
(* worker.  Threads, sockets, hosts and reports are not to be seen, nor    *)
(* whether a handle exists: Service implements this.                       *)
(***************************************************************************)
EXTENDS Sequences, SequencesExt

CONSTANTS
    Messages,
    Handles,
    Dest           \* the handle each message is addressed to

VARIABLES
    accepted,      \* the messages accepted, in order
    queue,         \* the messages of each handle that wait to be sent
    sent,          \* the messages of each handle that wait for an answer
    transmitted    \* the messages that were ever given to a worker

vars == <<accepted, queue, sent, transmitted>>

Init ==
    /\ accepted = <<>>
    /\ queue = [h \in Handles |-> <<>>]
    /\ sent = [h \in Handles |-> {}]
    /\ transmitted = {}

\* the user sends a message
Accept(m) ==
    /\ m \notin Range(accepted)
    /\ accepted' = Append(accepted, m)
    /\ queue' = [queue EXCEPT ![Dest[m]] = Append(@, m)]
    /\ UNCHANGED <<sent, transmitted>>

\* the first message goes to a worker ...
Transmit(h) ==
    /\ queue[h] # <<>>
    /\ transmitted' = transmitted \union {Head(queue[h])}
    /\ UNCHANGED <<accepted, queue, sent>>

\* ... and leaves the queue
Remember(h) ==
    /\ queue[h] # <<>>
    /\ Head(queue[h]) \in transmitted
    /\ queue' = [queue EXCEPT ![h] = Tail(@)]
    /\ sent' = [sent EXCEPT ![h] = @ \union {Head(queue[h])}]
    /\ UNCHANGED <<accepted, transmitted>>

\* a worker refuses it: it is sent again before all others
Resend(h, m) ==
    /\ m \in sent[h]
    /\ queue' = [queue EXCEPT ![h] = <<m>> \o @]
    /\ sent' = [sent EXCEPT ![h] = @ \ {m}]
    /\ UNCHANGED <<accepted, transmitted>>

\* it is answered
Finish(h, m) ==
    /\ m \in sent[h]
    /\ sent' = [sent EXCEPT ![h] = @ \ {m}]
    /\ UNCHANGED <<accepted, queue, transmitted>>

\* a handle is about to go: what it sent is to be sent again by the next one
Requeue(h) ==
    /\ \E s \in SetToSeqs(sent[h]) : queue' = [queue EXCEPT ![h] = @ \o s]
    /\ sent' = [sent EXCEPT ![h] = {}]
    /\ UNCHANGED <<accepted, transmitted>>

\* a handle goes, and what its thread went on sending with it
Forget(h) ==
    /\ sent' = [sent EXCEPT ![h] = {}]
    /\ \/ UNCHANGED queue
       \/ /\ Range(queue[h]) \subseteq transmitted
          /\ queue' = [queue EXCEPT ![h] = <<>>]
    /\ UNCHANGED <<accepted, transmitted>>

Next ==
    \/ \E m \in Messages : Accept(m)
    \/ \E h \in Handles :
        \/ Transmit(h) \/ Remember(h) \/ Requeue(h) \/ Forget(h)
        \/ \E m \in Messages : Resend(h, m) \/ Finish(h, m)

Spec == Init /\ [][Next]_vars
=============================================================================
