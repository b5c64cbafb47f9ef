---------------------------- MODULE MessageCache ----------------------------
(***************************************************************************)
(* The message cache of every handle: src/library/message_cache.cpp.       *)
(* Each operation below takes message_cache::mutex_ for its whole body, so *)
(* it is one step; the callers in Handle and Service take several steps    *)
(* between two of them, and that is where the interesting cases are.       *)
(***************************************************************************)
EXTENDS Integers, Sequences, FiniteSets, SequencesExt

CONSTANTS
    Messages,   \* the messages (cached_message objects, one uuid each)
    Handles     \* the handle names a service may hold

ASSUME FiniteMessages == IsFiniteSet(Messages)

VARIABLES
    new_messages,   \* new_messages_ of each cache: the queue still to be sent
    sent_messages   \* sent_messages_ of each cache: sent and not yet answered

cacheVars == <<new_messages, sent_messages>>

CacheTypeOK ==
    /\ new_messages \in [Handles -> Seq(Messages)]
    /\ sent_messages \in [Handles -> SUBSET Messages]

CacheInit ==
    /\ new_messages = [h \in Handles |-> <<>>]
    /\ sent_messages = [h \in Handles |-> {}]

\* A bug that could be made in the next one: the wrong end of the deque.
EnqueueInFront(h, m) ==
    /\ new_messages' = [new_messages EXCEPT ![h] = <<m>> \o @]
    /\ UNCHANGED sent_messages

\* message_cache::enqueue: a message the user sent
CacheEnqueue(h, m) ==
    /\ new_messages' = [new_messages EXCEPT ![h] = Append(@, m)]
    /\ UNCHANGED sent_messages

\* message_cache::append_message_queue
append_message_queue(h, queue) ==
    /\ new_messages' = [new_messages EXCEPT ![h] = @ \o queue]
    /\ UNCHANGED sent_messages

\* message_cache::move_new_message_to_sent: whatever is in front NOW
move_new_message_to_sent(h) ==
    /\ new_messages[h] # <<>>
    /\ sent_messages' = [sent_messages EXCEPT ![h] = @ \union {Head(new_messages[h])}]
    /\ new_messages' = [new_messages EXCEPT ![h] = Tail(@)]

\* Bugs that could be made in the next one: erasing the message and no more (the
\* line commented out in dispatch_responces); not erasing it.
RefusedIsErased(h, m) ==
    /\ sent_messages' = [sent_messages EXCEPT ![h] = @ \ {m}]
    /\ UNCHANGED new_messages

RefusedIsCopied(h, m) ==
    /\ new_messages' = [new_messages EXCEPT ![h] = <<m>> \o @]
    /\ UNCHANGED sent_messages

\* message_cache::move_sent_message_to_new_front: a worker refused the message
move_sent_message_to_new_front(h, m) ==
    IF m \in sent_messages[h]
    THEN /\ sent_messages' = [sent_messages EXCEPT ![h] = @ \ {m}]
         /\ new_messages' = [new_messages EXCEPT ![h] = <<m>> \o @]
    ELSE UNCHANGED cacheVars

\* A bug that could be made in the next one: the entry is left in the index.
ForgetToErase(h, m) == UNCHANGED cacheVars

\* message_cache::remove_message_from_cache: the message is answered
remove_message_from_cache(h, m) ==
    /\ sent_messages' = [sent_messages EXCEPT ![h] = @ \ {m}]
    /\ UNCHANGED new_messages

\* sent_messages_ is a map ordered by uuid, which is random: any order
Orderings(S) == SetToSeqs(S)

\* A bug that could be made in the next one: the sent messages go to the front.
SentMadeNewInFront(h) ==
    \E sent \in Orderings(sent_messages[h]) :
        /\ new_messages' = [new_messages EXCEPT ![h] = sent \o @]
        /\ sent_messages' = [sent_messages EXCEPT ![h] = {}]

\* message_cache::make_all_messages_new
make_all_messages_new(h) ==
    \E sent \in Orderings(sent_messages[h]) :
        /\ new_messages' = [new_messages EXCEPT ![h] = @ \o sent]
        /\ sent_messages' = [sent_messages EXCEPT ![h] = {}]

\* the last reference to a cache goes with its handle
DestroyCache(h) ==
    /\ new_messages' = [new_messages EXCEPT ![h] = <<>>]
    /\ sent_messages' = [sent_messages EXCEPT ![h] = {}]

=============================================================================
