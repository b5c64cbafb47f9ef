--------------------------- MODULE DataContainer ----------------------------
(***************************************************************************)
(* The data of messages and responses (src/library/data_container.cpp):    *)
(* containers that share one buffer and count who shares it.  A container  *)
(* is used by one thread at a time, so that each operation is one step;    *)
(* the temporary of an assignment lives within its step.                   *)
(***************************************************************************)
EXTENDS Integers, FiniteSets

CONSTANTS
    Containers,   \* data_container objects
    Buffers,      \* addresses operator new may return for data
    Counters,     \* ... and for counters
    Contents,     \* the data, and whether it is more than SMALL_DATA_SIZE
    Null

VARIABLES
    live,      \* the containers that are constructed and not yet destroyed
    data,      \* data_
    counter,   \* ref_counter_
    count,     \* *ref_counter_
    heap,      \* the buffers that are allocated
    content    \* what was last written to each buffer

vars == <<live, data, counter, count, heap, content>>

ASSUME ContainerConstants ==
    /\ IsFiniteSet(Containers)
    /\ Null \notin Buffers \union Counters
    /\ Containers \cap {Null} = {}

DataTypeOK ==
    /\ live \in SUBSET Containers
    /\ data \in [Containers -> Buffers \union {Null}]
    /\ counter \in [Containers -> Counters \union {Null}]
    /\ count \in [Counters -> Nat]
    /\ heap \in SUBSET Buffers
    /\ content \in [Buffers -> Contents]

DataInit ==
    /\ live = {}
    /\ data = [c \in Containers |-> Null]
    /\ counter = [c \in Containers |-> Null]
    /\ count = [k \in Counters |-> 0]
    /\ heap = {}
    /\ content \in [Buffers -> Contents]

\* empty(): size_ is 0 exactly when there is no buffer
Empty(c) == data[c] = Null

\* the counters no live container uses: theirs is gone with its last shared_ptr
Unused == Counters \ {counter[c] : c \in live}

\* init() gives the container a counter of its own
Fresh(c, k) ==
    /\ k \in Unused
    /\ counter' = [counter EXCEPT ![c] = k]

DefaultConstruct(c, k) ==
    /\ c \notin live
    /\ Fresh(c, k)
    /\ live' = live \union {c}
    /\ count' = [count EXCEPT ![k] = 0]
    /\ data' = [data EXCEPT ![c] = Null]
    /\ UNCHANGED <<heap, content>>

\* init_with_data: a new buffer, counted once; data of no size is as none
ConstructWithData(c, k, b, x) ==
    /\ c \notin live /\ b \notin heap
    /\ Fresh(c, k)
    /\ live' = live \union {c}
    /\ count' = [count EXCEPT ![k] = 1]
    /\ data' = [data EXCEPT ![c] = b]
    /\ heap' = heap \union {b}
    /\ content' = [content EXCEPT ![b] = x]

\* A bug that could be made in the next one: the copy is not counted.
CopyUncounted(c, from) ==
    /\ c \notin live /\ from \in live /\ ~Empty(from)
    /\ live' = live \union {c}
    /\ data' = [data EXCEPT ![c] = data[from]]
    /\ counter' = [counter EXCEPT ![c] = counter[from]]
    /\ UNCHANGED <<count, heap, content>>

\* the copy constructor; a copy of an empty container is as a new one
CopyConstruct(c, from) ==
    /\ c \notin live /\ from \in live /\ ~Empty(from)
    /\ live' = live \union {c}
    /\ data' = [data EXCEPT ![c] = data[from]]
    /\ counter' = [counter EXCEPT ![c] = counter[from]]
    /\ count' = [count EXCEPT ![counter[from]] = @ + 1]
    /\ UNCHANGED <<heap, content>>

\* what the destructor and clear() leave of the counter and the heap
Released(c) == [count EXCEPT ![counter[c]] = IF @ = 0 THEN 0 ELSE @ - 1]

\* Bugs that could be made in the next one: the last owner does not free the buffer;
\* every owner frees it.
HeapKept(c) == IF count[counter[c]] = 0 THEN heap \ {data[c]} ELSE heap
HeapFreed(c) == heap \ {data[c]}

HeapWithout(c) ==
    IF count[counter[c]] = 1 THEN heap \ {data[c]} ELSE heap

\* the destructor
Destroy(c) ==
    /\ c \in live
    /\ live' = live \ {c}
    /\ count' = Released(c)
    /\ heap' = HeapWithout(c)
    /\ UNCHANGED <<data, counter, content>>

\* clear(): as the destructor, then init()
Clear(c, k) ==
    /\ c \in live /\ count[counter[c]] # 0
    /\ Fresh(c, k)
    /\ count' = [Released(c) EXCEPT ![k] = 0]
    /\ heap' = HeapWithout(c)
    /\ data' = [data EXCEPT ![c] = Null]
    /\ UNCHANGED <<live, content>>

\* operator =: a temporary copy of the right side is swapped with the container,
\* and its destructor releases what the container had
AssignShared(c, from) ==
    /\ c \in live /\ from \in live /\ ~Empty(from)
    /\ IF counter[c] = counter[from] THEN UNCHANGED <<count, heap>>
       ELSE /\ count' = [Released(c) EXCEPT ![counter[from]] = @ + 1]
            /\ heap' = HeapWithout(c)
    /\ data' = [data EXCEPT ![c] = data[from]]
    /\ counter' = [counter EXCEPT ![c] = counter[from]]
    /\ UNCHANGED <<live, content>>

AssignEmpty(c, from, k) ==
    /\ c \in live /\ from \in live /\ Empty(from)
    /\ Fresh(c, k)
    /\ count' = [Released(c) EXCEPT ![k] = 0]
    /\ heap' = HeapWithout(c)
    /\ data' = [data EXCEPT ![c] = Null]
    /\ UNCHANGED <<live, content>>

DataNext ==
    \E c \in Containers :
        \/ Destroy(c)
        \/ \E from \in Containers : CopyConstruct(c, from) \/ AssignShared(c, from)
        \/ \E k \in Counters :
            \/ DefaultConstruct(c, k) \/ Clear(c, k)
            \/ \E from \in Containers : AssignEmpty(c, from, k)
            \/ \E b \in Buffers, x \in Contents : ConstructWithData(c, k, b, x)

DataSpec == DataInit /\ [][DataNext]_vars

-----------------------------------------------------------------------------
(* Properties *)

\* the containers that share a buffer through one counter
Owners(k) == {c \in live : counter[c] = k /\ ~Empty(c)}

\* The counter of a live container is the number of containers that share its buffer,
\* which all have the same one.
CounterCountsOwners ==
    /\ \A c \in live : count[counter[c]] = Cardinality(Owners(counter[c]))
    /\ \A c, d \in live : counter[c] = counter[d] => data[c] = data[d]

\* The buffers allocated are those of the live containers: none is used after it was
\* freed, freed while another container has it, or lost; and a buffer has one counter.
BuffersAreOwned ==
    /\ heap = {data[c] : c \in live} \ {Null}
    /\ \A c, d \in live : ~Empty(c) /\ data[c] = data[d] => counter[c] = counter[d]

\* what a container holds
Held(c) == IF Empty(c) THEN Null ELSE content[data[c]]

Shared == INSTANCE SharedData WITH held <- [c \in live |-> Held(c)]

\* Sharing is not to be seen: each container is a value of its own, which only an
\* operation on that container changes, and an assignment or a copy makes equal to
\* the other's, though they use one buffer that any of them may be the last to free.
IsSharedData == Shared!Spec
=============================================================================
