------------------------------ MODULE Messages ------------------------------
(***************************************************************************)
(* Messages and responses (src/library/cached_message.cpp,                 *)
(* cached_response.cpp, message_path and message_policy of structs.hpp):   *)
(* values that own a data container, and are constructed, copied, assigned *)
(* and destroyed.  Each object has the container of its own name; its      *)
(* container is default constructed and then assigned, which leaves what   *)
(* the operator of DataContainer named here leaves.                        *)
(***************************************************************************)
EXTENDS DataContainer, Sequences

CONSTANTS
    Paths,          \* message_path: service and handle
    Policies,       \* message_policy
    Errors,         \* error codes of a response; the messages go with them
    MaxUuids        \* bound: messages made

ASSUME MessageConstants == MaxUuids \in Nat

VARIABLES
    object,         \* the fields of each object that lives
    uuids           \* external: the identifiers generated so far

messageVars == <<vars, object, uuids>>

None == [kind |-> "none"]
\* what container_size_ was computed from
SizeOf(x, path) == <<x, path>>

Message(id, path, policy, x) ==
    [kind |-> "message", uuid |-> id, path |-> path, policy |-> policy, is_sent |-> FALSE,
     size |-> SizeOf(x, path)]
Response(id, path, x, error) ==
    [kind |-> "response", uuid |-> id, path |-> path, error |-> error,
     size |-> SizeOf(x, path)]

Objects == [kind : {"message"}, uuid : 1..MaxUuids, path : Paths, policy : Policies,
            is_sent : {FALSE}, size : (Contents \union {Null}) \X Paths]
    \union [kind : {"response"}, uuid : 1..MaxUuids, path : Paths, error : Errors \union {0},
            size : (Contents \union {Null}) \X Paths]

MessagesTypeOK ==
    /\ DataTypeOK
    /\ object \in [Containers -> Objects \union {None}]
    /\ \A o \in Containers : o \in live <=> object[o] # None
    /\ uuids \in 0..MaxUuids

MessagesInit == DataInit /\ object = [o \in Containers |-> None] /\ uuids = 0

Becomes(o, value) == object' = [object EXCEPT ![o] = value]

-----------------------------------------------------------------------------
\* data_ of a new object: none, or a copy of x
HoldsNew(o, k, x) ==
    IF x = Null THEN DefaultConstruct(o, k)
    ELSE \E b \in Buffers : ConstructWithData(o, k, b, x)

\* the constructor; data that is too big throws before there is an object
NewMessage(o, k, path, policy, x) ==
    /\ uuids < MaxUuids
    /\ HoldsNew(o, k, x)
    /\ uuids' = uuids + 1
    /\ Becomes(o, Message(uuids', path, policy, x))

\* a response to a message that was sent: with the data of a chunk, or with an error
NewResponse(o, k, m, x, error) ==
    /\ m \in live /\ object[m].kind = "message"
    /\ (x = Null) \/ (error = 0)
    /\ HoldsNew(o, k, x)
    /\ Becomes(o, Response(object[m].uuid, object[m].path, x, error))
    /\ UNCHANGED uuids

\* data_ = rhs.data_ in an object whose data_ is empty
CopyData(o, k, from) ==
    IF Empty(from) THEN DefaultConstruct(o, k) ELSE CopyConstruct(o, from)

AssignData(o, k, from) ==
    IF Empty(from) THEN AssignEmpty(o, from, k) ELSE AssignShared(o, from)

\* what operator = leaves in an object: the error of a response is not assigned
Assigned(error, from) ==
    IF object[from].kind = "message" THEN object[from]
    ELSE [object[from] EXCEPT !.error = error]

\* the copy constructors
Copy(o, k, from) ==
    /\ from \in live
    /\ CopyData(o, k, from)
    /\ Becomes(o, Assigned(0, from))
    /\ UNCHANGED uuids

\* A bug that could be made in the next one: the policy is not assigned.
AssignButPolicy(o, k, from) ==
    /\ {o, from} \subseteq live /\ object[o].kind = object[from].kind
    /\ o # from
    /\ AssignData(o, k, from)
    /\ Becomes(o, IF object[o].kind = "message"
                  THEN [object[from] EXCEPT !.policy = object[o].policy]
                  ELSE Assigned(object[o].error, from))
    /\ UNCHANGED uuids

\* operator =; assignment to itself does nothing
Assign(o, k, from) ==
    /\ {o, from} \subseteq live /\ object[o].kind = object[from].kind
    /\ o # from
    /\ AssignData(o, k, from)
    /\ Becomes(o, Assigned(IF object[o].kind = "message" THEN 0 ELSE object[o].error, from))
    /\ UNCHANGED uuids

set_error(o, error) ==
    /\ o \in live /\ object[o].kind = "response"
    /\ Becomes(o, [object[o] EXCEPT !.error = error])
    /\ UNCHANGED <<vars, uuids>>

\* mark_as_sent stores false for either value
mark_as_sent(o) ==
    /\ o \in live /\ object[o].kind = "message"
    /\ Becomes(o, [object[o] EXCEPT !.is_sent = FALSE])
    /\ UNCHANGED <<vars, uuids>>

DestroyObject(o) ==
    /\ Destroy(o)
    /\ Becomes(o, None)
    /\ UNCHANGED uuids

MessagesNext == \E o \in Containers :
    \/ DestroyObject(o) \/ mark_as_sent(o)
    \/ \E error \in Errors : set_error(o, error)
    \/ \E k \in Counters, x \in Contents \union {Null} :
        \/ \E path \in Paths, policy \in Policies : NewMessage(o, k, path, policy, x)
        \/ \E m \in Containers, error \in Errors \union {0} : NewResponse(o, k, m, x, error)
    \/ \E k \in Counters, from \in Containers : Copy(o, k, from) \/ Assign(o, k, from)

MessagesSpec == MessagesInit /\ [][MessagesNext]_messageVars

-----------------------------------------------------------------------------
(* Properties *)

\* Two messages are equal (operator ==) when they have one uuid: then they agree in
\* their paths, policies, data and sizes, however they were copied and assigned, and
\* whatever became of the original and of its buffer.  A response has the path of its
\* message.
SameUuidSameMessage ==
    \A o, d \in live : object[o].uuid = object[d].uuid =>
        /\ object[o].path = object[d].path
        /\ object[o].kind = "message" /\ object[d].kind = "message" =>
              /\ object[o].policy = object[d].policy /\ object[o].size = object[d].size
              /\ Held(o) = Held(d)
=============================================================================
