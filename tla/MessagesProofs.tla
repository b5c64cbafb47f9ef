--------------------------- MODULE MessagesProofs ---------------------------
(***************************************************************************)
(* Proofs about DataContainer and Messages, for any sets of containers,    *)
(* buffers, counters and contents: the counters count, the buffers are     *)
(* freed by the last of their owners, and DataContainer implements         *)
(* SharedData; what is done with messages and responses is done with their *)
(* containers by the operations of DataContainer, so that all of it holds  *)
(* of them; and messages of one uuid are one message.                      *)
(*                                                                         *)
(* The argument for the containers.  CounterCountsOwners speaks of the     *)
(* counters in use only; AllCounts, of all of them, is what a step         *)
(* preserves, because a counter leaves use at 0 and comes back so.  A step *)
(* changes one container c.  So each action is looked at in two halves:    *)
(* what it leaves of the counters and the buffers without c                *)
(* (ReleasedCounts, HeapWithoutIs), and what c is given (none, the share   *)
(* of another, or a buffer of its own).                                    *)
(*                                                                         *)
(* The argument for the messages.  A step gives one object its fields:     *)
(* those of a message with a uuid that no object has yet (UuidsAreKnown),  *)
(* or those of an object that lives, and then also what its container      *)
(* holds (Alike).                                                          *)
(***************************************************************************)
EXTENDS Messages, FiniteSetTheorems, TLAPS

-----------------------------------------------------------------------------
(* DataContainer *)


AllCounts == \A k \in Counters : count[k] = Cardinality(Owners(k))

OneCounter == \A c \in live : counter[c] \in Counters

SameCounterSameData == \A c, d \in live : counter[c] = counter[d] => data[c] = data[d]

DataInv ==
    /\ DataTypeOK
    /\ OneCounter
    /\ AllCounts
    /\ SameCounterSameData
    /\ BuffersAreOwned

\* what a step leaves alone that works on container c: the other containers
Only(c) ==
    /\ live' \ {c} = live \ {c}
    /\ \A d \in live \ {c} : data'[d] = data[d] /\ counter'[d] = counter[d]

\* the buffers of the containers but c
BuffersBut(c) == {data[d] : d \in live \ {c}} \ {Null}

\* Owners are containers that live: finitely many.
LEMMA OwnersAreFinite ==
    ASSUME DataTypeOK, NEW k
    PROVE  /\ IsFiniteSet(Owners(k))
           /\ Cardinality(Owners(k)) \in Nat
<1>1. IsFiniteSet(Containers)
    BY ContainerConstants
<1>2. Owners(k) \in SUBSET Containers
    BY DEF Owners, DataTypeOK
<1>3. IsFiniteSet(Owners(k))
    BY <1>1, <1>2, FS_Subset
<1> QED
    BY <1>3, FS_CardinalityType

\* An empty container shares its counter with no owner.
LEMMA EmptyHasNoOwners ==
    ASSUME DataInv, NEW c \in live, Empty(c)
    PROVE  Owners(counter[c]) = {} /\ count[counter[c]] = 0
<1>1. Owners(counter[c]) = {}
    BY DEF DataInv, SameCounterSameData, Owners, Empty
<1> QED
    BY <1>1, FS_EmptySet DEF DataInv, AllCounts, OneCounter

\* The destructor and clear() leave each counter at the number of the other owners.
LEMMA ReleasedCounts ==
    ASSUME DataInv, NEW c \in live, NEW k \in Counters
    PROVE  Released(c)[k] = Cardinality(Owners(k) \ {c})
<1>1. /\ count \in [Counters -> Nat] /\ counter[c] \in Counters
      /\ IsFiniteSet(Owners(k)) /\ Cardinality(Owners(k)) \in Nat
      /\ count[k] = Cardinality(Owners(k))
    BY OwnersAreFinite DEF DataInv, DataTypeOK, OneCounter, AllCounts
<1>2. CASE k # counter[c]
    <2>1. Owners(k) \ {c} = Owners(k)
        BY <1>2 DEF Owners
    <2> QED
        BY <1>1, <1>2, <2>1 DEF Released
<1>3. CASE k = counter[c] /\ Empty(c)
    <2>1. Owners(k) = {} /\ count[k] = 0
        BY <1>3, EmptyHasNoOwners
    <2>2. Released(c)[k] = 0
        BY <1>1, <1>3, <2>1 DEF Released
    <2>3. Owners(k) \ {c} = {}
        BY <2>1
    <2> QED
        BY <2>2, <2>3, FS_EmptySet
<1>4. CASE k = counter[c] /\ ~Empty(c)
    <2>1. c \in Owners(k)
        BY <1>4 DEF Owners
    <2>2. Cardinality(Owners(k) \ {c}) = Cardinality(Owners(k)) - 1
        BY <1>1, <2>1, FS_RemoveElement
    <2>3. Owners(k) # {}
        BY <2>1
    <2>4. Cardinality(Owners(k)) # 0
        BY <1>1, <2>3, FS_EmptySet
    <2> QED
        BY <1>1, <1>4, <2>2, <2>4 DEF Released
<1> QED
    BY <1>2, <1>3, <1>4

\* They free the buffer if no other container has it, and only then.
LEMMA HeapWithoutIs ==
    ASSUME DataInv, NEW c \in live
    PROVE  HeapWithout(c) = BuffersBut(c)
<1>1. /\ heap = {data[d] : d \in live} \ {Null}
      /\ \A d \in live : ~Empty(c) /\ data[c] = data[d] => counter[c] = counter[d]
      /\ counter[c] \in Counters
      /\ count[counter[c]] = Cardinality(Owners(counter[c]))
      /\ IsFiniteSet(Owners(counter[c]))
    BY OwnersAreFinite DEF DataInv, BuffersAreOwned, OneCounter, AllCounts
<1>2. CASE Empty(c)
    <2>1. HeapWithout(c) = heap
        BY <1>2, EmptyHasNoOwners DEF HeapWithout
    <2> QED
        BY <1>1, <1>2, <2>1 DEF BuffersBut, Empty
<1>3. CASE ~Empty(c) /\ count[counter[c]] = 1
    <2>1. c \in Owners(counter[c])
        BY <1>3 DEF Owners
    <2>2. Owners(counter[c]) = {c}
        <3>1. \A S : IsFiniteSet(S) /\ Cardinality(S) = 1 => \E x : S = {x}
            BY FS_Singleton
        <3>2. PICK x : Owners(counter[c]) = {x}
            BY <1>1, <1>3, <3>1
        <3> QED
            BY <2>1, <3>2
    <2>3. \A d \in live : data[d] = data[c] => d = c
        BY <1>1, <1>3, <2>2 DEF Owners, Empty
    <2>4. HeapWithout(c) = heap \ {data[c]}
        BY <1>3 DEF HeapWithout
    <2> QED
        BY <1>1, <2>3, <2>4 DEF BuffersBut
<1>4. CASE ~Empty(c) /\ count[counter[c]] # 1
    <2>1. c \in Owners(counter[c])
        BY <1>4 DEF Owners
    <2>2. Owners(counter[c]) # {c}
        BY <1>1, <1>4, FS_Singleton
    <2>3. PICK d \in Owners(counter[c]) : d # c
        BY <2>1, <2>2
    <2>4. d \in live \ {c} /\ data[d] = data[c]
        BY <2>3 DEF Owners, DataInv, SameCounterSameData
    <2>5. HeapWithout(c) = heap
        BY <1>4 DEF HeapWithout
    <2> QED
        BY <1>1, <2>4, <2>5 DEF BuffersBut
<1> QED
    BY <1>2, <1>3, <1>4

\* The owners but c of each counter stay what they are.
LEMMA OthersStay ==
    ASSUME NEW c, Only(c), NEW k
    PROVE  Owners(k)' \ {c} = Owners(k) \ {c}
<1>1. \A d : d # c => (d \in live' <=> d \in live)
    BY DEF Only
<1>2. \A d \in live : d # c => data'[d] = data[d] /\ counter'[d] = counter[d]
    BY DEF Only
<1> QED
    BY <1>1, <1>2 DEF Owners, Empty

\* A container that is no more leaves the others as they should be.
LEMMA Gone ==
    ASSUME DataInv, DataTypeOK', NEW c \in Containers, Only(c), c \notin live',
           \A k \in Counters : count'[k] = Cardinality(Owners(k) \ {c}),
           heap' = BuffersBut(c)
    PROVE  DataInv'
<1>1. live' = live \ {c}
    BY DEF Only
<1>2. \A d \in live' : d \in live /\ data'[d] = data[d] /\ counter'[d] = counter[d]
    BY <1>1 DEF Only
<1>3. OneCounter' /\ SameCounterSameData'
    BY <1>2 DEF DataInv, OneCounter, SameCounterSameData
<1>4. AllCounts'
    <2>1. ASSUME NEW k \in Counters
          PROVE  count'[k] = Cardinality(Owners(k)')
        <3>1. Owners(k)' = Owners(k)' \ {c}
            BY DEF Owners
        <3>2. Owners(k)' \ {c} = Owners(k) \ {c}
            BY OthersStay
        <3> QED
            BY <3>1, <3>2
    <2> QED
        BY <2>1 DEF AllCounts
<1>5. heap' = {data'[d] : d \in live'} \ {Null}
    BY <1>1, <1>2 DEF BuffersBut
<1>6. BuffersAreOwned'
    BY <1>2, <1>5 DEF DataInv, BuffersAreOwned, Empty
<1> QED
    BY <1>3, <1>4, <1>6 DEF DataInv

\* So does one that becomes empty, with a counter nobody else has.
LEMMA GivenNone ==
    ASSUME DataInv, DataTypeOK', NEW c \in live', Only(c),
           NEW k0 \in Counters, \A d \in live \ {c} : counter[d] # k0,
           counter'[c] = k0, data'[c] = Null,
           \A k \in Counters : count'[k] = Cardinality(Owners(k) \ {c}),
           heap' = BuffersBut(c)
    PROVE  DataInv'
<1>1. \A d \in live' \ {c} : d \in live \ {c} /\ data'[d] = data[d] /\ counter'[d] = counter[d]
    BY DEF Only
<1>2. OneCounter' /\ SameCounterSameData'
    BY <1>1 DEF DataInv, OneCounter, SameCounterSameData
<1>3. AllCounts'
    <2>1. ASSUME NEW k \in Counters
          PROVE  count'[k] = Cardinality(Owners(k)')
        <3>1. Owners(k)' = Owners(k)' \ {c}
            BY DEF Owners, Empty
        <3>2. Owners(k)' \ {c} = Owners(k) \ {c}
            BY OthersStay
        <3> QED
            BY <3>1, <3>2
    <2> QED
        BY <2>1 DEF AllCounts
<1>4. heap' = {data'[d] : d \in live'} \ {Null}
    <2>1. live' = (live \ {c}) \union {c}
        BY DEF Only
    <2> QED
        BY <1>1, <2>1 DEF BuffersBut
<1>5. BuffersAreOwned'
    BY <1>1, <1>4 DEF DataInv, BuffersAreOwned, Empty
<1> QED
    BY <1>2, <1>3, <1>5 DEF DataInv

\* So does one that comes to share the buffer of another.
LEMMA GivenShare ==
    ASSUME DataInv, DataTypeOK', NEW c \in live', Only(c),
           NEW from \in live \ {c}, ~Empty(from),
           counter'[c] = counter[from], data'[c] = data[from],
           \A k \in Counters :
               count'[k] = Cardinality(Owners(k) \ {c}) + (IF k = counter[from] THEN 1 ELSE 0),
           heap' = BuffersBut(c)
    PROVE  DataInv'
<1>1. \A d \in live' \ {c} : d \in live \ {c} /\ data'[d] = data[d] /\ counter'[d] = counter[d]
    BY DEF Only
<1>2. OneCounter' /\ SameCounterSameData'
    BY <1>1 DEF DataInv, OneCounter, SameCounterSameData
<1>3. AllCounts'
    <2>1. ASSUME NEW k \in Counters
          PROVE  count'[k] = Cardinality(Owners(k)')
        <3>1. IsFiniteSet(Owners(k)) /\ Owners(k)' \ {c} = Owners(k) \ {c}
            BY OwnersAreFinite, OthersStay DEF DataInv
        <3>2. IsFiniteSet(Owners(k) \ {c})
            BY <3>1, FS_RemoveElement
        <3>3. Cardinality(Owners(k) \ {c}) \in Nat
            BY <3>2, FS_CardinalityType
        <3>4. CASE k = counter[from]
            <4>1. c \in Owners(k)'
                BY <3>4 DEF Owners, Empty
            <4>2. Owners(k)' = (Owners(k) \ {c}) \union {c}
                BY <3>1, <4>1
            <4>3. Cardinality((Owners(k) \ {c}) \union {c}) = Cardinality(Owners(k) \ {c}) + 1
                BY <3>2, FS_AddElement
            <4> QED
                BY <3>4, <4>2, <4>3
        <3>5. CASE k # counter[from]
            <4>1. c \notin Owners(k)'
                BY <3>5 DEF Owners
            <4>2. Owners(k)' = Owners(k) \ {c}
                BY <3>1, <4>1
            <4> QED
                BY <3>3, <3>5, <4>2
        <3> QED
            BY <3>4, <3>5
    <2> QED
        BY <2>1 DEF AllCounts
<1>4. heap' = {data'[d] : d \in live'} \ {Null}
    <2>1. live' = (live \ {c}) \union {c}
        BY DEF Only
    <2>2. data'[c] \in {data[d] : d \in live \ {c}}
        OBVIOUS
    <2> QED
        BY <1>1, <2>1, <2>2 DEF BuffersBut
<1>5. BuffersAreOwned'
    BY <1>1, <1>4 DEF DataInv, BuffersAreOwned, Empty
<1> QED
    BY <1>2, <1>3, <1>5 DEF DataInv

\* So does a new one with a new buffer.
LEMMA GivenBuffer ==
    ASSUME DataInv, DataTypeOK', NEW c \in live', c \notin live, Only(c),
           NEW k0 \in Unused, NEW b \in Buffers, b \notin heap,
           counter'[c] = k0, data'[c] = b,
           count' = [count EXCEPT ![k0] = 1],
           heap' = heap \union {b}
    PROVE  DataInv'
<1>1. \A d \in live' \ {c} : d \in live /\ data'[d] = data[d] /\ counter'[d] = counter[d]
    BY DEF Only
<1>2. k0 \in Counters /\ \A d \in live : counter[d] # k0
    BY DEF Unused
<1>3. b # Null
    BY ContainerConstants
<1>4. OneCounter' /\ SameCounterSameData'
    BY <1>1, <1>2 DEF DataInv, OneCounter, SameCounterSameData
<1>5. AllCounts'
    <2>1. ASSUME NEW k \in Counters
          PROVE  count'[k] = Cardinality(Owners(k)')
        <3>1. /\ Owners(k)' \ {c} = Owners(k) \ {c}
              /\ Owners(k) \ {c} = Owners(k)
            BY OthersStay DEF Owners
        <3>2. count \in [Counters -> Nat] /\ count[k] = Cardinality(Owners(k))
            BY DEF DataInv, DataTypeOK, AllCounts
        <3>3. CASE k = k0
            <4>1. Owners(k) = {}
                BY <1>2, <3>3 DEF Owners
            <4>2. c \in Owners(k)'
                BY <1>3, <3>3 DEF Owners, Empty
            <4>3. Owners(k)' = {c}
                BY <3>1, <4>1, <4>2
            <4>4. Cardinality({c}) = 1
                BY FS_Singleton
            <4> QED
                BY <3>2, <3>3, <4>3, <4>4
        <3>4. CASE k # k0
            <4>1. c \notin Owners(k)'
                BY <3>4 DEF Owners
            <4>2. Owners(k)' = Owners(k)
                BY <3>1, <4>1
            <4> QED
                BY <3>2, <3>4, <4>2
        <3> QED
            BY <3>3, <3>4
    <2> QED
        BY <2>1 DEF AllCounts
<1>6. heap' = {data'[d] : d \in live'} \ {Null}
    <2>1. live' = live \union {c}
        BY DEF Only
    <2>2. heap = {data[d] : d \in live} \ {Null}
        BY DEF DataInv, BuffersAreOwned
    <2> QED
        BY <1>1, <1>3, <2>1, <2>2
<1>7. \A d \in live : data[d] # b
    BY <1>3 DEF DataInv, BuffersAreOwned
<1>8. BuffersAreOwned'
    BY <1>1, <1>6, <1>7 DEF DataInv, BuffersAreOwned, Empty
<1> QED
    BY <1>4, <1>5, <1>8 DEF DataInv

-----------------------------------------------------------------------------
(* Each operation *)

\* What is left of the counters and the buffers has their types.
LEMMA ReleasedType ==
    ASSUME DataInv, NEW c \in live
    PROVE  Released(c) \in [Counters -> Nat] /\ HeapWithout(c) \in SUBSET Buffers
<1>1. count \in [Counters -> Nat] /\ counter[c] \in Counters /\ heap \in SUBSET Buffers
    BY DEF DataInv, DataTypeOK, OneCounter
<1>2. (IF count[counter[c]] = 0 THEN 0 ELSE count[counter[c]] - 1) \in Nat
    BY <1>1
<1> QED
    BY <1>1, <1>2 DEF Released, HeapWithout

\* A container that is not alive has nothing that is counted or allocated.
LEMMA NewHasNothing ==
    ASSUME DataInv, NEW c, c \notin live
    PROVE  /\ \A k \in Counters : count[k] = Cardinality(Owners(k) \ {c})
           /\ heap = BuffersBut(c)
<1>1. \A k : Owners(k) \ {c} = Owners(k)
    BY DEF Owners
<1>2. live \ {c} = live
    OBVIOUS
<1> QED
    BY <1>1, <1>2 DEF DataInv, AllCounts, BuffersAreOwned, BuffersBut

LEMMA DestroyKeeps ==
    ASSUME DataInv, NEW c \in Containers, Destroy(c)
    PROVE  DataInv'
<1>1. DataTypeOK'
    BY ReleasedType DEF DataInv, DataTypeOK, Destroy
<1>2. Only(c) /\ c \notin live'
    BY DEF Only, Destroy
<1>3. heap' = BuffersBut(c)
    BY HeapWithoutIs DEF Destroy
<1>4. \A k \in Counters : count'[k] = Cardinality(Owners(k) \ {c})
    BY ReleasedCounts DEF Destroy
<1> QED
    BY <1>1, <1>2, <1>3, <1>4, Gone

LEMMA DefaultConstructKeeps ==
    ASSUME DataInv, NEW c \in Containers, NEW k \in Counters, DefaultConstruct(c, k)
    PROVE  DataInv'
<1>1. DataTypeOK'
    BY DEF DataInv, DataTypeOK, DefaultConstruct, Fresh
<1>2. Only(c) /\ c \in live' /\ counter'[c] = k /\ data'[c] = Null
    BY DEF Only, DefaultConstruct, Fresh, DataInv, DataTypeOK
<1>3. \A d \in live \ {c} : counter[d] # k
    BY DEF DefaultConstruct, Fresh, Unused
<1>4. \A i \in Counters : count'[i] = Cardinality(Owners(i) \ {c})
    <2>1. ASSUME NEW i \in Counters
          PROVE  count'[i] = Cardinality(Owners(i) \ {c})
        <3>1. count[i] = Cardinality(Owners(i) \ {c})
            BY NewHasNothing DEF DefaultConstruct
        <3>2. CASE i = k
            <4>1. Owners(i) \ {c} = {}
                BY <3>2 DEF DefaultConstruct, Fresh, Unused, Owners
            <4>2. Cardinality(Owners(i) \ {c}) = 0
                BY <4>1, FS_EmptySet
            <4> QED
                BY <3>2, <4>2 DEF DefaultConstruct, DataInv, DataTypeOK
        <3> QED
            BY <3>1, <3>2 DEF DefaultConstruct, DataInv, DataTypeOK
    <2> QED
        BY <2>1
<1>5. heap' = BuffersBut(c)
    BY NewHasNothing DEF DefaultConstruct
<1> QED
    BY <1>1, <1>2, <1>3, <1>4, <1>5, GivenNone

LEMMA ConstructWithDataKeeps ==
    ASSUME DataInv, NEW c \in Containers, NEW k \in Counters, NEW b \in Buffers,
           NEW x \in Contents, ConstructWithData(c, k, b, x)
    PROVE  DataInv'
<1>1. DataTypeOK'
    BY DEF DataInv, DataTypeOK, ConstructWithData, Fresh
<1>2. Only(c) /\ c \in live' /\ counter'[c] = k /\ data'[c] = b
    BY DEF Only, ConstructWithData, Fresh, DataInv, DataTypeOK
<1> QED
    BY <1>1, <1>2, GivenBuffer DEF ConstructWithData, Fresh

LEMMA CopyConstructKeeps ==
    ASSUME DataInv, NEW c \in Containers, NEW from \in Containers, CopyConstruct(c, from)
    PROVE  DataInv'
<1>1. from \in live \ {c} /\ ~Empty(from) /\ c \notin live
    BY DEF CopyConstruct
<1>2. counter[from] \in Counters
    BY <1>1 DEF DataInv, OneCounter
<1>3. DataTypeOK'
    BY <1>1, <1>2 DEF DataInv, DataTypeOK, CopyConstruct
<1>4. /\ Only(c) /\ c \in live'
      /\ counter'[c] = counter[from] /\ data'[c] = data[from]
    BY DEF Only, CopyConstruct, DataInv, DataTypeOK
<1>5. /\ \A k \in Counters : count[k] = Cardinality(Owners(k) \ {c})
      /\ heap' = BuffersBut(c)
    BY <1>1, NewHasNothing DEF CopyConstruct
<1>6. \A k \in Counters :
          count'[k] = Cardinality(Owners(k) \ {c}) + (IF k = counter[from] THEN 1 ELSE 0)
    BY <1>2, <1>5 DEF CopyConstruct, DataInv, DataTypeOK
<1> QED
    BY <1>1, <1>3, <1>4, <1>5, <1>6, GivenShare

\* What clear() and the assignment of nothing have in common.
LEMMA EmptiedKeeps ==
    ASSUME DataInv, NEW c \in live, NEW k \in Counters, Fresh(c, k),
           count' = [Released(c) EXCEPT ![k] = 0], heap' = HeapWithout(c),
           data' = [data EXCEPT ![c] = Null], UNCHANGED <<live, content>>
    PROVE  DataInv'
<1>1. DataTypeOK'
    BY ReleasedType DEF DataInv, DataTypeOK, Fresh
<1>2. Only(c) /\ c \in live' /\ counter'[c] = k /\ data'[c] = Null
    BY DEF Only, Fresh, DataInv, DataTypeOK
<1>3. \A d \in live : counter[d] # k
    BY DEF Fresh, Unused
<1>4. \A i \in Counters : count'[i] = Cardinality(Owners(i) \ {c})
    <2>1. ASSUME NEW i \in Counters
          PROVE  count'[i] = Cardinality(Owners(i) \ {c})
        <3>1. Released(c)[i] = Cardinality(Owners(i) \ {c}) /\ Released(c) \in [Counters -> Nat]
            BY ReleasedCounts, ReleasedType DEF DataInv
        <3>2. CASE i = k
            <4>1. Owners(i) \ {c} = {}
                BY <1>3, <3>2 DEF Owners
            <4>2. Cardinality(Owners(i) \ {c}) = 0
                BY <4>1, FS_EmptySet
            <4> QED
                BY <3>1, <3>2, <4>2
        <3> QED
            BY <3>1, <3>2
    <2> QED
        BY <2>1
<1>5. heap' = BuffersBut(c) /\ c \in Containers
    BY HeapWithoutIs DEF DataInv, DataTypeOK
<1> QED
    BY <1>1, <1>2, <1>3, <1>4, <1>5, GivenNone

LEMMA AssignSharedKeeps ==
    ASSUME DataInv, NEW c \in Containers, NEW from \in Containers, AssignShared(c, from)
    PROVE  DataInv'
<1>1. c \in live /\ from \in live /\ ~Empty(from)
    BY DEF AssignShared
<1>2. counter[from] \in Counters
    BY <1>1 DEF DataInv, OneCounter
<1>3. CASE counter[c] = counter[from]
    <2>1. data[c] = data[from]
        BY <1>1, <1>3 DEF DataInv, SameCounterSameData
    <2>2. UNCHANGED vars
        BY <1>3, <2>1 DEF AssignShared, vars, DataInv, DataTypeOK
    <2> QED
        BY <2>2 DEF vars, DataInv, DataTypeOK, OneCounter, AllCounts, SameCounterSameData,
                    BuffersAreOwned, Owners, Empty
<1>4. CASE counter[c] # counter[from]
    <2>1. /\ count' = [Released(c) EXCEPT ![counter[from]] = @ + 1]
          /\ heap' = HeapWithout(c)
        BY <1>4 DEF AssignShared
    <2>2. Released(c) \in [Counters -> Nat] /\ HeapWithout(c) \in SUBSET Buffers
        BY <1>1, ReleasedType
    <2>3. DataTypeOK'
        BY <1>2, <2>1, <2>2 DEF AssignShared, DataInv, DataTypeOK
    <2>4. /\ Only(c) /\ c \in live' /\ from \in live \ {c}
          /\ counter'[c] = counter[from] /\ data'[c] = data[from]
        BY <1>1, <1>4 DEF Only, AssignShared, DataInv, DataTypeOK
    <2>5. \A k \in Counters : Released(c)[k] = Cardinality(Owners(k) \ {c})
        BY <1>1, ReleasedCounts
    <2>6. \A k \in Counters :
              count'[k] = Cardinality(Owners(k) \ {c}) + (IF k = counter[from] THEN 1 ELSE 0)
        <3>1. ASSUME NEW k \in Counters
              PROVE  count'[k] = Released(c)[k] + (IF k = counter[from] THEN 1 ELSE 0)
            BY <1>2, <2>1, <2>2
        <3> QED
            BY <2>5, <3>1
    <2>7. heap' = BuffersBut(c)
        BY <1>1, <2>1, HeapWithoutIs
    <2> QED
        BY <1>1, <2>3, <2>4, <2>6, <2>7, GivenShare
<1> QED
    BY <1>3, <1>4

-----------------------------------------------------------------------------
(* The theorems *)

LEMMA DataInvInit ==
    ASSUME DataInit
    PROVE  DataInv
<1>1. DataTypeOK
    BY DEF DataInit, DataTypeOK
<1>2. \A k : Owners(k) = {}
    BY DEF DataInit, Owners
<1>3. AllCounts
    BY <1>2, FS_EmptySet DEF DataInit, AllCounts
<1> QED
    BY <1>1, <1>3 DEF DataInit, DataInv, OneCounter, SameCounterSameData, BuffersAreOwned

LEMMA DataInvNext ==
    ASSUME DataInv, [DataNext]_vars
    PROVE  DataInv'
<1>1. CASE UNCHANGED vars
    BY <1>1 DEF vars, DataInv, DataTypeOK, OneCounter, AllCounts, SameCounterSameData,
                BuffersAreOwned, Owners, Empty
<1>2. ASSUME NEW c \in Containers, Destroy(c)
      PROVE  DataInv'
    BY <1>2, DestroyKeeps
<1>3. ASSUME NEW c \in Containers, NEW from \in Containers, CopyConstruct(c, from)
      PROVE  DataInv'
    BY <1>3, CopyConstructKeeps
<1>4. ASSUME NEW c \in Containers, NEW from \in Containers, AssignShared(c, from)
      PROVE  DataInv'
    BY <1>4, AssignSharedKeeps
<1>5. ASSUME NEW c \in Containers, NEW k \in Counters, DefaultConstruct(c, k)
      PROVE  DataInv'
    BY <1>5, DefaultConstructKeeps
<1>6. ASSUME NEW c \in Containers, NEW k \in Counters, Clear(c, k)
      PROVE  DataInv'
    BY <1>6, EmptiedKeeps DEF Clear
<1>7. ASSUME NEW c \in Containers, NEW from \in Containers, NEW k \in Counters,
             AssignEmpty(c, from, k)
      PROVE  DataInv'
    BY <1>7, EmptiedKeeps DEF AssignEmpty
<1>8. ASSUME NEW c \in Containers, NEW k \in Counters, NEW b \in Buffers, NEW x \in Contents,
             ConstructWithData(c, k, b, x)
      PROVE  DataInv'
    BY <1>8, ConstructWithDataKeeps
<1> QED
    BY <1>1, <1>2, <1>3, <1>4, <1>5, <1>6, <1>7, <1>8 DEF DataNext

LEMMA DataInvAlways == DataSpec => []DataInv
<1>1. DataInit => DataInv
    BY DataInvInit
<1>2. DataInv /\ [DataNext]_vars => DataInv'
    BY DataInvNext
<1> QED
    BY <1>1, <1>2, PTL DEF DataSpec

\* Whatever is constructed, copied, assigned and destroyed: a counter is the number of
\* the containers that share its buffer (data_container.cpp:48-64, 131-150).
THEOREM CountersCount == DataSpec => []CounterCountsOwners
<1>1. DataInv => CounterCountsOwners
    BY DEF DataInv, OneCounter, AllCounts, SameCounterSameData, CounterCountsOwners
<1> QED
    BY <1>1, DataInvAlways, PTL

\* No buffer is used after it was freed, freed twice or lost.
THEOREM BuffersOwned == DataSpec => []BuffersAreOwned
<1>1. DataInv => BuffersAreOwned
    BY DEF DataInv
<1> QED
    BY <1>1, DataInvAlways, PTL

-----------------------------------------------------------------------------
(* The refinement *)

\* The values of the containers, as SharedData sees them.
Values == [c \in live |-> Held(c)]

\* A container that is given nothing, a value or a copy: the others keep what they hold.
LEMMA ValuesWith ==
    ASSUME DataInv, NEW c \in live', Only(c),
           \A d \in live \ {c} : Held(d)' = Held(d), NEW x, Held(c)' = x
    PROVE  Values' = [d \in live \union {c} |-> IF d = c THEN x ELSE Values[d]]
<1>1. live' = live \union {c}
    BY DEF Only
<1>2. ASSUME NEW d \in live', d # c
      PROVE  Held(d)' = Values[d]
    BY <1>1, <1>2 DEF Values
<1> QED
    BY <1>1, <1>2 DEF Values

\* What a container holds depends on its buffer, and on what is in that.
LEMMA HeldStays ==
    ASSUME DataInv, NEW c, Only(c), content' = content
    PROVE  \A d \in live \ {c} : Held(d)' = Held(d)
BY DEF Only, Held, Empty

\* The values, as a function.
LEMMA ValuesAre == DOMAIN Values = live /\ \A c \in live : Values[c] = Held(c)
BY DEF Values

(***************************************************************************)
(* Each operation is one of SharedData.                                    *)
(***************************************************************************)

LEMMA DestroyIsShared ==
    ASSUME DataInv, NEW c \in Containers, Destroy(c)
    PROVE  Shared!Destroy(c)
<1>1. Only(c) /\ live' = live \ {c} /\ content' = content
    BY DEF Only, Destroy
<1>2. Values' = [d \in live \ {c} |-> Values[d]]
    BY <1>1, ValuesAre, HeldStays DEF Values
<1> QED
    BY ValuesAre, <1>2 DEF Shared!Destroy, Values, Destroy

LEMMA CopyConstructIsShared ==
    ASSUME DataInv, NEW c \in Containers, NEW from \in Containers, CopyConstruct(c, from)
    PROVE  Shared!Copy(c, from)
<1>1. /\ Only(c) /\ c \in live' /\ content' = content /\ Held(c)' = Held(from)
      /\ c \notin live /\ from \in live
    BY DEF Only, CopyConstruct, Held, Empty, DataInv, DataTypeOK
<1>2. \A d \in live \ {c} : Held(d)' = Held(d)
    BY <1>1, HeldStays
<1>3. Values' = [d \in live \union {c} |-> IF d = c THEN Held(from) ELSE Values[d]]
    BY <1>1, <1>2, ValuesWith
<1> QED
    BY ValuesAre, <1>1, <1>3 DEF Shared!Copy, Shared!With, Values

LEMMA AssignSharedIsShared ==
    ASSUME DataInv, NEW c \in Containers, NEW from \in Containers, AssignShared(c, from)
    PROVE  Shared!Assign(c, from)
<1>1. /\ Only(c) /\ c \in live' /\ content' = content /\ Held(c)' = Held(from)
      /\ c \in live /\ from \in live
    BY DEF Only, AssignShared, Held, Empty, DataInv, DataTypeOK
<1>2. \A d \in live \ {c} : Held(d)' = Held(d)
    BY <1>1, HeldStays
<1>3. Values' = [d \in live \union {c} |-> IF d = c THEN Held(from) ELSE Values[d]]
    BY <1>1, <1>2, ValuesWith
<1> QED
    BY ValuesAre, <1>1, <1>3 DEF Shared!Assign, Shared!With, Values

LEMMA DefaultConstructIsShared ==
    ASSUME DataInv, NEW c \in Containers, NEW k \in Counters, DefaultConstruct(c, k)
    PROVE  Shared!Construct(c, Null)
<1>1. /\ Only(c) /\ c \in live' /\ content' = content /\ Held(c)' = Null
      /\ c \notin live
    BY DEF Only, DefaultConstruct, Fresh, Held, Empty, DataInv, DataTypeOK
<1>2. \A d \in live \ {c} : Held(d)' = Held(d)
    BY <1>1, HeldStays
<1>3. Values' = [d \in live \union {c} |-> IF d = c THEN Null ELSE Values[d]]
    BY <1>1, <1>2, ValuesWith
<1> QED
    BY ValuesAre, <1>1, <1>3 DEF Shared!Construct, Shared!With, Values

LEMMA ClearIsShared ==
    ASSUME DataInv, NEW c \in Containers, NEW k \in Counters, Clear(c, k)
    PROVE  Shared!Clear(c)
<1>1. /\ Only(c) /\ c \in live' /\ content' = content /\ Held(c)' = Null
      /\ c \in live
    BY DEF Only, Clear, Fresh, Held, Empty, DataInv, DataTypeOK
<1>2. \A d \in live \ {c} : Held(d)' = Held(d)
    BY <1>1, HeldStays
<1>3. Values' = [d \in live \union {c} |-> IF d = c THEN Null ELSE Values[d]]
    BY <1>1, <1>2, ValuesWith
<1> QED
    BY ValuesAre, <1>1, <1>3 DEF Shared!Clear, Shared!With, Values

LEMMA AssignEmptyIsShared ==
    ASSUME DataInv, NEW c \in Containers, NEW from \in Containers, NEW k \in Counters,
           AssignEmpty(c, from, k)
    PROVE  Shared!Assign(c, from)
<1>1. /\ Only(c) /\ c \in live' /\ content' = content /\ Held(c)' = Held(from)
      /\ c \in live /\ from \in live
    BY DEF Only, AssignEmpty, Fresh, Held, Empty, DataInv, DataTypeOK
<1>2. \A d \in live \ {c} : Held(d)' = Held(d)
    BY <1>1, HeldStays
<1>3. Values' = [d \in live \union {c} |-> IF d = c THEN Held(from) ELSE Values[d]]
    BY <1>1, <1>2, ValuesWith
<1> QED
    BY ValuesAre, <1>1, <1>3 DEF Shared!Assign, Shared!With, Values

LEMMA ConstructWithDataIsShared ==
    ASSUME DataInv, NEW c \in Containers, NEW k \in Counters, NEW b \in Buffers,
           NEW x \in Contents, ConstructWithData(c, k, b, x)
    PROVE  Shared!Construct(c, x)
<1>1. b # Null
    BY ContainerConstants
<1>2. /\ Only(c) /\ c \in live' /\ c \notin live
      /\ data'[c] = b /\ content' = [content EXCEPT ![b] = x] /\ b \notin heap
    BY DEF Only, ConstructWithData, Fresh, DataInv, DataTypeOK
<1>3. Held(c)' = x
    BY <1>1, <1>2 DEF Held, Empty, DataInv, DataTypeOK
<1>4. \A d \in live \ {c} : Held(d)' = Held(d)
    <2>1. ASSUME NEW d \in live \ {c}
          PROVE  Held(d)' = Held(d)
        <3>1. data'[d] = data[d] /\ data[d] # b
            BY <1>1, <1>2 DEF Only, DataInv, BuffersAreOwned
        <3>2. content'[data[d]] = content[data[d]] \/ data[d] = Null
            BY <1>2, <3>1 DEF DataInv, DataTypeOK
        <3> QED
            BY <3>1, <3>2 DEF Held, Empty
    <2> QED
        BY <2>1
<1>5. Values' = [d \in live \union {c} |-> IF d = c THEN x ELSE Values[d]]
    BY <1>2, <1>3, <1>4, ValuesWith
<1> QED
    BY ValuesAre, <1>2, <1>5 DEF Shared!Construct, Shared!With, Values

\* Each step of DataContainer is one of SharedData.
LEMMA SharedStep ==
    ASSUME DataInv, [DataNext]_vars
    PROVE  [Shared!Next]_Values
<1>1. CASE UNCHANGED vars
    BY <1>1 DEF vars, Values, Held, Empty
<1>2. CASE DataNext
    BY <1>2, DestroyIsShared, CopyConstructIsShared, AssignSharedIsShared,
       DefaultConstructIsShared, ClearIsShared, AssignEmptyIsShared, ConstructWithDataIsShared
    DEF DataNext, Shared!Next
<1> QED
    BY <1>1, <1>2

\* That copies share a buffer is not to be seen: DataContainer implements SharedData.
THEOREM SharingIsHidden == DataSpec => IsSharedData
<1>1. DataInit => Shared!Init
    BY DEF DataInit, Shared!Init
<1>2. DataInv /\ [DataNext]_vars => [Shared!Next]_Values
    BY SharedStep
<1> QED
    BY <1>1, <1>2, DataInvAlways, PTL DEF DataSpec, IsSharedData, Shared!Spec, Values

-----------------------------------------------------------------------------
(* Messages *)


\* The types, apart from those of the containers.
ObjectsOK ==
    /\ object \in [Containers -> Objects \union {None}]
    /\ \A o \in Containers : o \in live <=> object[o] # None
    /\ uuids \in 0..MaxUuids

\* No object has a uuid that was not generated yet.
UuidsAreKnown == \A o \in live : object[o].uuid <= uuids

MessagesInv == DataInv /\ ObjectsOK /\ UuidsAreKnown /\ SameUuidSameMessage

\* The fields of an object that lives.
LEMMA LiveObjects ==
    ASSUME DataInv, ObjectsOK, NEW o \in live
    PROVE  object[o] \in Objects
BY DEF DataInv, DataTypeOK, ObjectsOK

\* What all objects have.
LEMMA ObjectFields ==
    ASSUME NEW value \in Objects
    PROVE  /\ value.kind \in {"message", "response"} /\ value # None
           /\ value.uuid \in 1..MaxUuids /\ value.path \in Paths
<1>1. CASE value \in [kind : {"message"}, uuid : 1..MaxUuids, path : Paths, policy : Policies,
                      is_sent : {FALSE}, size : (Contents \union {Null}) \X Paths]
    BY <1>1 DEF None
<1>2. CASE value \in [kind : {"response"}, uuid : 1..MaxUuids, path : Paths,
                      error : Errors \union {0}, size : (Contents \union {Null}) \X Paths]
    BY <1>2 DEF None
<1> QED
    BY <1>1, <1>2 DEF Objects

\* Messages and responses are told apart by their kinds.
LEMMA Kinds ==
    ASSUME NEW value \in Objects
    PROVE  /\ value.kind = "message" =>
                 value \in [kind : {"message"}, uuid : 1..MaxUuids, path : Paths,
                           policy : Policies, is_sent : {FALSE},
                           size : (Contents \union {Null}) \X Paths]
           /\ value.kind = "response" =>
                 value \in [kind : {"response"}, uuid : 1..MaxUuids, path : Paths,
                           error : Errors \union {0}, size : (Contents \union {Null}) \X Paths]
BY DEF Objects

\* The two ways of a new object to have its data.
LEMMA HoldsNewIs ==
    ASSUME NEW o \in Containers, NEW k \in Counters, NEW x \in Contents \union {Null},
           HoldsNew(o, k, x)
    PROVE  /\ DataNext
           /\ DataInv => Shared!Construct(o, x)
<1>1. CASE x = Null
    <2>1. DefaultConstruct(o, k)
        BY <1>1 DEF HoldsNew
    <2> QED
        BY <1>1, <2>1, DefaultConstructIsShared DEF DataNext
<1>2. CASE x # Null
    <2>1. PICK b \in Buffers : ConstructWithData(o, k, b, x)
        BY <1>2 DEF HoldsNew
    <2>2. x \in Contents
        BY <1>2
    <2> QED
        BY <2>1, <2>2, ConstructWithDataIsShared DEF DataNext
<1> QED
    BY <1>1, <1>2

\* A copy holds what it is a copy of.
LEMMA CopyDataIs ==
    ASSUME NEW o \in Containers, NEW k \in Counters, NEW from \in live, from \in Containers,
           CopyData(o, k, from)
    PROVE  /\ DataNext
           /\ DataInv => Shared!Construct(o, Held(from))
<1>1. CASE Empty(from)
    <2>1. DefaultConstruct(o, k) /\ Held(from) = Null
        BY <1>1 DEF CopyData, Held
    <2> QED
        BY <2>1, DefaultConstructIsShared DEF DataNext
<1>2. CASE ~Empty(from)
    <2>1. CopyConstruct(o, from)
        BY <1>2 DEF CopyData
    <2>2. DataInv => Shared!Copy(o, from) /\ DOMAIN Values = live /\ Values[from] = Held(from)
        BY <2>1, CopyConstructIsShared, ValuesAre
    <2> QED
        BY <2>1, <2>2 DEF DataNext, Shared!Copy, Shared!Construct, Values
<1> QED
    BY <1>1, <1>2

LEMMA AssignDataIs ==
    ASSUME NEW o \in Containers, NEW k \in Counters, NEW from \in Containers,
           AssignData(o, k, from)
    PROVE  /\ DataNext
           /\ DataInv => Shared!Assign(o, from)
<1>1. CASE Empty(from)
    <2>1. AssignEmpty(o, from, k)
        BY <1>1 DEF AssignData
    <2> QED
        BY <2>1, AssignEmptyIsShared DEF DataNext
<1>2. CASE ~Empty(from)
    <2>1. AssignShared(o, from)
        BY <1>2 DEF AssignData
    <2> QED
        BY <2>1, AssignSharedIsShared DEF DataNext
<1> QED
    BY <1>1, <1>2

\* Each step of Messages is one of DataContainer.
LEMMA DataStep ==
    ASSUME live \in SUBSET Containers, [MessagesNext]_messageVars
    PROVE  [DataNext]_vars
<1>1. CASE UNCHANGED messageVars
    BY <1>1 DEF messageVars
<1>2. ASSUME NEW o \in Containers, DestroyObject(o)
      PROVE  DataNext
    BY <1>2 DEF DestroyObject, DataNext
<1>3. ASSUME NEW o \in Containers, mark_as_sent(o) \/ \E error \in Errors : set_error(o, error)
      PROVE  UNCHANGED vars
    BY <1>3 DEF mark_as_sent, set_error
<1>4. ASSUME NEW o \in Containers, NEW k \in Counters, NEW x \in Contents \union {Null},
             \/ \E path \in Paths, policy \in Policies : NewMessage(o, k, path, policy, x)
             \/ \E m \in Containers, error \in Errors \union {0} : NewResponse(o, k, m, x, error)
      PROVE  DataNext
    <2>1. HoldsNew(o, k, x)
        BY <1>4 DEF NewMessage, NewResponse
    <2> QED
        BY <2>1, HoldsNewIs
<1>5. ASSUME NEW o \in Containers, NEW k \in Counters, NEW from \in Containers, Copy(o, k, from)
      PROVE  DataNext
    <2>1. CopyData(o, k, from) /\ from \in live
        BY <1>5 DEF Copy
    <2> QED
        BY <2>1, CopyDataIs
<1>6. ASSUME NEW o \in Containers, NEW k \in Counters, NEW from \in Containers, Assign(o, k, from)
      PROVE  DataNext
    <2>1. AssignData(o, k, from)
        BY <1>6 DEF Assign
    <2> QED
        BY <2>1, AssignDataIs
<1>7. CASE MessagesNext
    BY <1>2, <1>3, <1>4, <1>5, <1>6, <1>7 DEF MessagesNext
<1> QED
    BY <1>1, <1>7

\* Messages uses its containers as DataContainer says.
THEOREM MessagesUseContainers == MessagesSpec => DataSpec
<1>1. MessagesInit => DataInit /\ DataInv
    BY DataInvInit DEF MessagesInit
<1>2. DataInv /\ [MessagesNext]_messageVars => [DataNext]_vars /\ DataInv'
    <2>1. DataInv => live \in SUBSET Containers
        BY DEF DataInv, DataTypeOK
    <2> QED
        BY <2>1, DataStep, DataInvNext
<1> QED
    BY <1>1, <1>2, PTL DEF MessagesSpec, DataSpec

\* So the buffers of messages and responses are counted, owned and shared unseen,
\* whatever is constructed, copied, assigned and destroyed
\* (cached_message.cpp:26-56, 85-101, cached_response.cpp:26-80, data_container.cpp).
THEOREM MessageBuffersCounted == MessagesSpec => []CounterCountsOwners
BY MessagesUseContainers, CountersCount, PTL

THEOREM MessageBuffersOwned == MessagesSpec => []BuffersAreOwned
BY MessagesUseContainers, BuffersOwned, PTL

THEOREM MessageDataShared == MessagesSpec => IsSharedData
BY MessagesUseContainers, SharingIsHidden, PTL

-----------------------------------------------------------------------------
(* Messages of one uuid are one message *)

\* What a step does that leaves all objects but o alone.
OnlyObject(o) ==
    /\ live' \ {o} = live \ {o}
    /\ \A d \in live \ {o} : object'[d] = object[d] /\ Held(d)' = Held(d)

\* Object o comes to say no more of its message than m does.
Alike(o, m) ==
    /\ object'[o].uuid = object[m].uuid /\ object'[o].path = object[m].path
    /\ object'[o].kind = "message" =>
          /\ object[m].kind = "message"
          /\ object'[o].policy = object[m].policy /\ object'[o].size = object[m].size
          /\ Held(o)' = Held(m)

\* The values of the containers, read one by one.
LEMMA GivenValue ==
    ASSUME NEW o \in Containers, NEW x, Values' = Shared!With(o, x)
    PROVE  /\ live' = live \union {o}
           /\ Held(o)' = x
           /\ \A d \in live \ {o} : Held(d)' = Held(d)
<1>1. Values' = [d \in live \union {o} |-> IF d = o THEN x ELSE Values[d]]
    BY DEF Shared!With, Values
<1>2. live' = live \union {o}
    BY <1>1 DEF Values
<1>3. \A d \in live' : Held(d)' = Values'[d]
    BY DEF Values
<1> QED
    BY <1>1, <1>2, <1>3 DEF Values

\* An object that is no more leaves the others what they are.
LEMMA GoneKeeps ==
    ASSUME DataInv, UuidsAreKnown, SameUuidSameMessage, NEW o, OnlyObject(o), o \notin live',
           uuids' = uuids
    PROVE  (UuidsAreKnown /\ SameUuidSameMessage)'
BY DEF OnlyObject, UuidsAreKnown, SameUuidSameMessage

\* So does one that becomes like an object that lives.
LEMMA AlikeKeeps ==
    ASSUME DataInv, UuidsAreKnown, SameUuidSameMessage, NEW o, OnlyObject(o), NEW m \in live,
           Alike(o, m), uuids' = uuids
    PROVE  (UuidsAreKnown /\ SameUuidSameMessage)'
<1>1. \A d \in live' : d = o \/ d \in live \ {o}
    BY DEF OnlyObject
<1>2. UuidsAreKnown'
    BY <1>1 DEF OnlyObject, Alike, UuidsAreKnown
<1>3. \A d \in live \ {o} : object'[d].uuid = object'[o].uuid =>
          /\ object'[d].path = object'[o].path
          /\ object'[d].kind = "message" /\ object'[o].kind = "message" =>
                /\ object'[d].policy = object'[o].policy /\ object'[d].size = object'[o].size
                /\ Held(d)' = Held(o)'
    BY DEF OnlyObject, Alike, SameUuidSameMessage
<1>4. \A c, d \in live \ {o} : object'[c].uuid = object'[d].uuid =>
          /\ object'[c].path = object'[d].path
          /\ object'[c].kind = "message" /\ object'[d].kind = "message" =>
                /\ object'[c].policy = object'[d].policy /\ object'[c].size = object'[d].size
                /\ Held(c)' = Held(d)'
    BY DEF OnlyObject, SameUuidSameMessage
<1>5. SameUuidSameMessage'
    <2>1. ASSUME NEW c \in live', NEW d \in live', object'[c].uuid = object'[d].uuid
          PROVE  /\ object'[c].path = object'[d].path
                 /\ object'[c].kind = "message" /\ object'[d].kind = "message" =>
                       /\ object'[c].policy = object'[d].policy /\ object'[c].size = object'[d].size
                       /\ Held(c)' = Held(d)'
        BY <1>1, <1>3, <1>4, <2>1
    <2> QED
        BY <2>1 DEF SameUuidSameMessage
<1> QED
    BY <1>2, <1>5

\* So does one with a uuid of its own.
LEMMA FreshKeeps ==
    ASSUME DataInv, ObjectsOK, UuidsAreKnown, SameUuidSameMessage, NEW o, OnlyObject(o),
           uuids' = uuids + 1, object'[o].uuid = uuids'
    PROVE  (UuidsAreKnown /\ SameUuidSameMessage)'
<1>1. \A d \in live' : d = o \/ d \in live \ {o}
    BY DEF OnlyObject
<1>2. \A d \in live \ {o} : object[d].uuid \in Nat /\ object[d].uuid <= uuids
    BY LiveObjects, ObjectFields, MessageConstants DEF UuidsAreKnown
<1>3. uuids \in Nat
    BY MessageConstants DEF ObjectsOK
<1>4. UuidsAreKnown'
    BY <1>1, <1>2, <1>3 DEF OnlyObject, UuidsAreKnown
<1>5. \A d \in live \ {o} : object'[d].uuid # object'[o].uuid
    BY <1>2, <1>3 DEF OnlyObject
<1>6. \A c, d \in live \ {o} : object'[c].uuid = object'[d].uuid =>
          /\ object'[c].path = object'[d].path
          /\ object'[c].kind = "message" /\ object'[d].kind = "message" =>
                /\ object'[c].policy = object'[d].policy /\ object'[c].size = object'[d].size
                /\ Held(c)' = Held(d)'
    BY DEF OnlyObject, SameUuidSameMessage
<1>7. SameUuidSameMessage'
    BY <1>1, <1>5, <1>6 DEF SameUuidSameMessage
<1> QED
    BY <1>4, <1>7

\* The fields of an object that is given a value.
LEMMA BecomesOK ==
    ASSUME DataInv, ObjectsOK, NEW o \in Containers, NEW value \in Objects, Becomes(o, value),
           live' = live \union {o}, uuids' \in 0..MaxUuids
    PROVE  ObjectsOK' /\ object'[o] = value
<1>1. value # None
    BY ObjectFields
<1> QED
    BY <1>1 DEF ObjectsOK, Becomes

\* The operations, one by one.
LEMMA NewMessageKeeps ==
    ASSUME MessagesInv, NEW o \in Containers, NEW k \in Counters, NEW path \in Paths,
           NEW policy \in Policies, NEW x \in Contents \union {Null},
           NewMessage(o, k, path, policy, x)
    PROVE  (ObjectsOK /\ UuidsAreKnown /\ SameUuidSameMessage)'
<1> DEFINE value == Message(uuids + 1, path, policy, x)
<1>1. uuids + 1 \in 1..MaxUuids /\ uuids' = uuids + 1 /\ Becomes(o, value)
    BY MessageConstants DEF NewMessage, MessagesInv, ObjectsOK
<1>2. value \in Objects
    BY <1>1 DEF Message, SizeOf, Objects
<1>3. Shared!Construct(o, x)
    BY HoldsNewIs DEF NewMessage, MessagesInv
<1>4. Values' = Shared!With(o, x) /\ o \notin live
    BY <1>3 DEF Shared!Construct, Values
<1>5. /\ live' = live \union {o}
      /\ \A d \in live \ {o} : Held(d)' = Held(d)
    BY <1>4, GivenValue
<1>6. ObjectsOK' /\ object'[o] = value
    BY <1>1, <1>2, <1>5, BecomesOK DEF MessagesInv
<1>7. OnlyObject(o)
    BY <1>1, <1>5 DEF OnlyObject, Becomes, MessagesInv, ObjectsOK, DataInv, DataTypeOK
<1>8. object'[o].uuid = uuids'
    BY <1>1, <1>6 DEF Message
<1> QED
    BY <1>1, <1>6, <1>7, <1>8, FreshKeeps DEF MessagesInv

LEMMA NewResponseKeeps ==
    ASSUME MessagesInv, NEW o \in Containers, NEW k \in Counters, NEW m \in Containers,
           NEW x \in Contents \union {Null}, NEW error \in Errors \union {0},
           NewResponse(o, k, m, x, error)
    PROVE  (ObjectsOK /\ UuidsAreKnown /\ SameUuidSameMessage)'
<1> DEFINE value == Response(object[m].uuid, object[m].path, x, error)
<1>1. m \in live /\ uuids' = uuids /\ Becomes(o, value)
    BY DEF NewResponse
<1>2. object[m].uuid \in 1..MaxUuids /\ object[m].path \in Paths
    BY <1>1, LiveObjects, ObjectFields DEF MessagesInv
<1>3. value \in Objects
    BY <1>2 DEF Response, SizeOf, Objects
<1>4. Shared!Construct(o, x)
    BY HoldsNewIs DEF NewResponse, MessagesInv
<1>5. Values' = Shared!With(o, x) /\ o \notin live
    BY <1>4 DEF Shared!Construct, Values
<1>6. /\ live' = live \union {o}
      /\ \A d \in live \ {o} : Held(d)' = Held(d)
    BY <1>5, GivenValue
<1>7. ObjectsOK' /\ object'[o] = value
    BY <1>1, <1>3, <1>6, BecomesOK DEF MessagesInv, ObjectsOK
<1>8. OnlyObject(o)
    BY <1>1, <1>6 DEF OnlyObject, Becomes, MessagesInv, ObjectsOK, DataInv, DataTypeOK
<1>9. Alike(o, m)
    BY <1>7 DEF Alike, Response
<1> QED
    BY <1>1, <1>7, <1>8, <1>9, AlikeKeeps DEF MessagesInv

\* What operator = leaves of the fields.
LEMMA AssignedIs ==
    ASSUME NEW from, object[from] \in Objects, NEW error,
           object[from].kind = "response" => error \in Errors \union {0}
    PROVE  /\ Assigned(error, from) \in Objects
           /\ Assigned(error, from).uuid = object[from].uuid
           /\ Assigned(error, from).path = object[from].path
           /\ Assigned(error, from).kind = object[from].kind
           /\ object[from].kind = "message" =>
            /\ Assigned(error, from).policy = object[from].policy
            /\ Assigned(error, from).size = object[from].size
<1>1. CASE object[from].kind = "message"
    BY <1>1 DEF Assigned
<1>2. CASE object[from].kind = "response"
    <2>1. object[from] \in [kind : {"response"}, uuid : 1..MaxUuids, path : Paths,
                            error : Errors \union {0}, size : (Contents \union {Null}) \X Paths]
        BY <1>2, Kinds
    <2>2. Assigned(error, from) = [object[from] EXCEPT !.error = error]
        BY <1>2 DEF Assigned
    <2> QED
        BY <1>2, <2>1, <2>2 DEF Objects
<1> QED
    BY <1>1, <1>2, ObjectFields

LEMMA CopyKeeps ==
    ASSUME MessagesInv, NEW o \in Containers, NEW k \in Counters, NEW from \in Containers,
           Copy(o, k, from)
    PROVE  (ObjectsOK /\ UuidsAreKnown /\ SameUuidSameMessage)'
<1>1. from \in live /\ uuids' = uuids /\ Becomes(o, Assigned(0, from)) /\ CopyData(o, k, from)
    BY DEF Copy
<1>2. object[from] \in Objects
    BY <1>1, LiveObjects DEF MessagesInv
<1>3. /\ Assigned(0, from) \in Objects
      /\ Assigned(0, from).uuid = object[from].uuid
      /\ Assigned(0, from).path = object[from].path
      /\ Assigned(0, from).kind = object[from].kind
      /\ object[from].kind = "message" =>
            /\ Assigned(0, from).policy = object[from].policy
            /\ Assigned(0, from).size = object[from].size
    BY <1>2, AssignedIs
<1>4. Shared!Construct(o, Held(from))
    BY <1>1, CopyDataIs DEF MessagesInv
<1>5. Values' = Shared!With(o, Held(from)) /\ o \notin live
    BY <1>4 DEF Shared!Construct, Values
<1>6. /\ live' = live \union {o} /\ Held(o)' = Held(from)
      /\ \A d \in live \ {o} : Held(d)' = Held(d)
    BY <1>5, GivenValue
<1>7. ObjectsOK' /\ object'[o] = Assigned(0, from)
    BY <1>1, <1>3, <1>6, BecomesOK DEF MessagesInv, ObjectsOK
<1>8. OnlyObject(o)
    BY <1>1, <1>6 DEF OnlyObject, Becomes, MessagesInv, ObjectsOK, DataInv, DataTypeOK
<1>9. Alike(o, from)
    BY <1>3, <1>6, <1>7 DEF Alike
<1> QED
    BY <1>1, <1>7, <1>8, <1>9, AlikeKeeps DEF MessagesInv

LEMMA AssignKeeps ==
    ASSUME MessagesInv, NEW o \in Containers, NEW k \in Counters, NEW from \in Containers,
           Assign(o, k, from)
    PROVE  (ObjectsOK /\ UuidsAreKnown /\ SameUuidSameMessage)'
<1> DEFINE error == IF object[o].kind = "message" THEN 0 ELSE object[o].error
<1>1. /\ o \in live /\ from \in live /\ uuids' = uuids /\ Becomes(o, Assigned(error, from))
      /\ AssignData(o, k, from) /\ object[o].kind = object[from].kind
    BY DEF Assign
<1>2. object[from] \in Objects /\ object[o] \in Objects
    BY <1>1, LiveObjects DEF MessagesInv
<1>3. object[from].kind = "response" => error \in Errors \union {0}
    <2>1. CASE object[o].kind = "response"
        <3>1. object[o] \in [kind : {"response"}, uuid : 1..MaxUuids, path : Paths,
                             error : Errors \union {0},
                             size : (Contents \union {Null}) \X Paths]
            BY <1>2, <2>1, Kinds
        <3> QED
            BY <2>1, <3>1
    <2> QED
        BY <1>1, <2>1
<1> HIDE DEF error
<1>4. /\ Assigned(error, from) \in Objects
      /\ Assigned(error, from).uuid = object[from].uuid
      /\ Assigned(error, from).path = object[from].path
      /\ Assigned(error, from).kind = object[from].kind
      /\ object[from].kind = "message" =>
            /\ Assigned(error, from).policy = object[from].policy
            /\ Assigned(error, from).size = object[from].size
    BY <1>2, <1>3, AssignedIs
<1>5. Shared!Assign(o, from)
    BY <1>1, AssignDataIs DEF MessagesInv
<1>6. Values' = Shared!With(o, Held(from))
    BY <1>1, <1>5 DEF Shared!Assign, Values
<1>7. /\ live' = live \union {o} /\ Held(o)' = Held(from)
      /\ \A d \in live \ {o} : Held(d)' = Held(d)
    BY <1>6, GivenValue
<1>8. ObjectsOK' /\ object'[o] = Assigned(error, from)
    BY <1>1, <1>4, <1>7, BecomesOK DEF MessagesInv, ObjectsOK
<1>9. OnlyObject(o)
    BY <1>1, <1>7 DEF OnlyObject, Becomes, MessagesInv, ObjectsOK, DataInv, DataTypeOK
<1>10. Alike(o, from)
    BY <1>4, <1>7, <1>8 DEF Alike
<1> QED
    BY <1>1, <1>8, <1>9, <1>10, AlikeKeeps DEF MessagesInv

\* set_error and mark_as_sent: the object is as it was but for what Alike does not see.
LEMMA FieldKeeps ==
    ASSUME MessagesInv, NEW o \in live, NEW value \in Objects, Becomes(o, value),
           value.uuid = object[o].uuid, value.path = object[o].path,
           value.kind = object[o].kind,
           value.kind = "message" => value.policy = object[o].policy /\ value.size = object[o].size,
           UNCHANGED <<vars, uuids>>
    PROVE  (ObjectsOK /\ UuidsAreKnown /\ SameUuidSameMessage)'
<1>1. o \in Containers
    BY DEF MessagesInv, DataInv, DataTypeOK
<1>2. live' = live /\ uuids' = uuids /\ \A d : Held(d)' = Held(d)
    BY DEF vars, Held, Empty
<1>3. ObjectsOK' /\ object'[o] = value
    BY <1>1, <1>2, BecomesOK DEF MessagesInv, ObjectsOK
<1>4. OnlyObject(o)
    BY <1>2 DEF OnlyObject, Becomes, MessagesInv, ObjectsOK, DataInv, DataTypeOK
<1>5. Alike(o, o)
    BY <1>2, <1>3 DEF Alike
<1> QED
    BY <1>2, <1>3, <1>4, <1>5, AlikeKeeps DEF MessagesInv

LEMMA SetErrorKeeps ==
    ASSUME MessagesInv, NEW o \in Containers, NEW error \in Errors, set_error(o, error)
    PROVE  (ObjectsOK /\ UuidsAreKnown /\ SameUuidSameMessage)'
<1> DEFINE value == [object[o] EXCEPT !.error = error]
<1>1. /\ o \in live /\ object[o].kind = "response" /\ Becomes(o, value)
      /\ UNCHANGED <<vars, uuids>>
    BY DEF set_error
<1>2. object[o] \in [kind : {"response"}, uuid : 1..MaxUuids, path : Paths,
                     error : Errors \union {0}, size : (Contents \union {Null}) \X Paths]
    BY <1>1, LiveObjects, Kinds DEF MessagesInv
<1>3. /\ value \in Objects /\ value.uuid = object[o].uuid /\ value.path = object[o].path
      /\ value.kind = "response"
    BY <1>1, <1>2 DEF Objects
<1> HIDE DEF value
<1> QED
    BY <1>1, <1>3, FieldKeeps

LEMMA MarkAsSentKeeps ==
    ASSUME MessagesInv, NEW o \in Containers, mark_as_sent(o)
    PROVE  (ObjectsOK /\ UuidsAreKnown /\ SameUuidSameMessage)'
<1> DEFINE value == [object[o] EXCEPT !.is_sent = FALSE]
<1>1. /\ o \in live /\ object[o].kind = "message" /\ Becomes(o, value)
      /\ UNCHANGED <<vars, uuids>>
    BY DEF mark_as_sent
<1>2. object[o] \in [kind : {"message"}, uuid : 1..MaxUuids, path : Paths,
                     policy : Policies, is_sent : {FALSE},
                     size : (Contents \union {Null}) \X Paths]
    BY <1>1, LiveObjects, Kinds DEF MessagesInv
<1>3. /\ value \in Objects /\ value.uuid = object[o].uuid /\ value.path = object[o].path
      /\ value.kind = "message" /\ value.policy = object[o].policy /\ value.size = object[o].size
    BY <1>1, <1>2 DEF Objects
<1> HIDE DEF value
<1> QED
    BY <1>1, <1>3, FieldKeeps

LEMMA DestroyObjectKeeps ==
    ASSUME MessagesInv, NEW o \in Containers, DestroyObject(o)
    PROVE  (ObjectsOK /\ UuidsAreKnown /\ SameUuidSameMessage)'
<1>1. Destroy(o) /\ Becomes(o, None) /\ uuids' = uuids
    BY DEF DestroyObject
<1>2. live' = live \ {o} /\ \A d : Held(d)' = Held(d)
    BY <1>1 DEF Destroy, Held, Empty
<1>3. ObjectsOK'
    BY <1>1, <1>2 DEF MessagesInv, ObjectsOK, Becomes
<1>4. OnlyObject(o) /\ o \notin live'
    BY <1>1, <1>2 DEF OnlyObject, Becomes, MessagesInv, ObjectsOK, DataInv, DataTypeOK
<1> QED
    BY <1>1, <1>3, <1>4, GoneKeeps DEF MessagesInv

LEMMA MessagesInvNext ==
    ASSUME MessagesInv, [MessagesNext]_messageVars
    PROVE  MessagesInv'
<1>1. DataInv'
    <2>1. live \in SUBSET Containers
        BY DEF MessagesInv, DataInv, DataTypeOK
    <2> QED
        BY <2>1, DataStep, DataInvNext DEF MessagesInv
<1>2. CASE UNCHANGED messageVars
    <2>1. \A o : Held(o)' = Held(o)
        BY <1>2 DEF messageVars, vars, Held, Empty
    <2> QED
        BY <1>1, <1>2, <2>1 DEF messageVars, vars, MessagesInv, ObjectsOK, UuidsAreKnown,
                              SameUuidSameMessage
<1>3. CASE MessagesNext
    <2>1. (ObjectsOK /\ UuidsAreKnown /\ SameUuidSameMessage)'
        BY <1>3, NewMessageKeeps, NewResponseKeeps, CopyKeeps, AssignKeeps, SetErrorKeeps,
           MarkAsSentKeeps, DestroyObjectKeeps DEF MessagesNext
    <2> QED
        BY <1>1, <2>1 DEF MessagesInv
<1> QED
    BY <1>2, <1>3

\* Objects of one uuid agree in what they say of the message, however they were copied
\* and assigned (cached_message.cpp:85-101).
THEOREM OneUuidOneMessage == MessagesSpec => []SameUuidSameMessage
<1>1. MessagesInit => MessagesInv
    BY DataInvInit, MessageConstants
    DEF MessagesInit, DataInit, MessagesInv, ObjectsOK, UuidsAreKnown, SameUuidSameMessage
<1>2. MessagesInv /\ [MessagesNext]_messageVars => MessagesInv'
    BY MessagesInvNext
<1>3. MessagesInv => SameUuidSameMessage
    BY DEF MessagesInv
<1> QED
    BY <1>1, <1>2, <1>3, PTL DEF MessagesSpec
=============================================================================
