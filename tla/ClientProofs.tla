---------------------------- MODULE ClientProofs ----------------------------
(***************************************************************************)
(* Proofs about Client: the messages of all services stay within the       *)
(* configured cache, what the client destroys of a service is used by no   *)
(* thread but those of its handles, and threads wait for each other in a   *)
(* circle in two ways only, for any users, services, sizes and answers.    *)
(*                                                                         *)
(* The argument.  The client's mutex has the caller that is in one of the  *)
(* places Inside (MutexIsHeld), so that the figure a sender was checked    *)
(* against is still the sum of the services' when its message is added     *)
(* (SizesInv).  Sums are taken over a sequence, and what a sum does when   *)
(* the sequence changes is proved by induction along it, over its partial  *)
(* sums (AddsUp).  A caller destroys the client when the collector has     *)
(* stopped and nobody is in a call, and then no call begins (EndsStopped): *)
(* what CollectorProofs proves of stop() stays true while the services are *)
(* torn down (TornDown).  A call that begins, takes or gives back the      *)
(* mutex, or ends, changes few of these: GoingKeeps has them all.          *)
(*                                                                         *)
(* Circles.  Take threads of which each waits for one of them, and leave   *)
(* aside that stop() joins one that wants its mutex.  The one that has the *)
(* client's mutex needs that of a service whose callback is among them     *)
(* (HolderNeeds): it is to use that service, or to stop the pinger, which  *)
(* waits for that callback (PingerWaits).  So some callback is among them  *)
(* (CallbackIsIn), and each that is cannot go on before another of them,   *)
(* or itself, ends (CallbackNeeds).                                        *)
(***************************************************************************)
EXTENDS Client, CollectorProofs

-----------------------------------------------------------------------------
(* Sums *)

\* u[i] is the sum of the first i elements of q, up to n.
AddsUp(q, u, n) ==
    /\ u \in [0..n -> Nat]
    /\ u[0] = 0
    /\ \A i \in 1..n : u[i] = u[i - 1] + q[i]

LEMMA NextSum ==
    ASSUME NEW q, NEW u, NEW m \in Nat, AddsUp(q, u, m), NEW n \in Nat, n + 1 <= m
    PROVE  u[n + 1] = u[n] + q[n + 1] /\ u[n] \in Nat /\ u[n + 1] \in Nat
<1>1. n + 1 \in 1..m /\ (n + 1) - 1 = n /\ n \in 0..m /\ n + 1 \in 0..m
    OBVIOUS
<1> QED
    BY <1>1 DEF AddsUp

LEMMA SumsExist ==
    ASSUME NEW q \in Seq(Nat)
    PROVE  \E u : AddsUp(q, u, Len(q))
<1> DEFINE P == {n \in Nat : n <= Len(q) => \E u : AddsUp(q, u, n)}
<1>0. Len(q) \in Nat /\ \A n \in 1..Len(q) : q[n] \in Nat
    BY LenProperties
<1>1. 0 \in P
    <2>1. AddsUp(q, [n \in 0..0 |-> 0], 0)
        BY DEF AddsUp
    <2> QED
        BY <2>1
<1>2. ASSUME NEW n \in P
      PROVE  n + 1 \in P
    <2>1. SUFFICES ASSUME n + 1 <= Len(q)
                   PROVE  \E u : AddsUp(q, u, n + 1)
        OBVIOUS
    <2>2. PICK u : AddsUp(q, u, n)
        BY <1>0, <2>1
    <2> DEFINE v == [i \in 0..n + 1 |-> IF i = n + 1 THEN u[n] + q[n + 1] ELSE u[i]]
    <2>3. v \in [0..n + 1 -> Nat] /\ v[0] = 0
        BY <1>0, <2>1, <2>2 DEF AddsUp
    <2>4. ASSUME NEW i \in 1..n + 1
          PROVE  v[i] = v[i - 1] + q[i]
        <3>1. n \in Nat
            OBVIOUS
        <3>2. CASE i = n + 1
            BY <3>1, <3>2
        <3>3. CASE i \in 1..n
            BY <2>2, <3>1, <3>3 DEF AddsUp
        <3> QED
            BY <2>4, <3>1, <3>2, <3>3
    <2> QED
        BY <2>3, <2>4 DEF AddsUp
<1>3. P = Nat
    <2> HIDE DEF P
    <2> QED
        BY <1>1, <1>2, FromZeroOn DEF P
<1> QED
    BY <1>0, <1>3

\* Total is the last of the partial sums.
LEMMA TotalIs ==
    ASSUME NEW q \in Seq(Nat), NEW u, AddsUp(q, u, Len(q))
    PROVE  Total(q) = u[Len(q)] /\ Total(q) \in Nat
<1> DEFINE Step(w) == [n \in 0..Len(q) |-> IF n = 0 THEN 0 ELSE w[n - 1] + q[n]]
           upto == CHOOSE w : w = Step(w)
<1>0. Len(q) \in Nat
    BY LenProperties
<1>1. u = Step(u)
    BY <1>0 DEF AddsUp
<1>2. upto = Step(upto)
    BY <1>1
<1>3. upto[0] = 0 /\ \A n \in 1..Len(q) : upto[n] = upto[n - 1] + q[n]
    <2> HIDE DEF upto
    <2> QED
        BY <1>0, <1>2
<1>4. \A n \in 0..Len(q) : upto[n] = u[n]
    <2> DEFINE P == {n \in Nat : n <= Len(q) => upto[n] = u[n]}
    <2> HIDE DEF upto
    <2>1. 0 \in P
        BY <1>3 DEF AddsUp
    <2>2. ASSUME NEW n \in P
          PROVE  n + 1 \in P
        BY <1>0, <1>3 DEF AddsUp
    <2>3. P = Nat
        <3> HIDE DEF P
        <3> QED
            BY <2>1, <2>2, FromZeroOn DEF P
    <2> QED
        BY <1>0, <2>3
<1>5. Total(q) = upto[Len(q)]
    BY DEF Total
<1> QED
    BY <1>0, <1>4, <1>5 DEF AddsUp

\* Sequences that begin alike have the same partial sums so far.
LEMMA SumsAgree ==
    ASSUME NEW q, NEW r, NEW u, NEW v, NEW m \in Nat, NEW n \in Nat, NEW k \in Nat,
           k <= m, k <= n, AddsUp(q, u, m), AddsUp(r, v, n), \A i \in 1..k : q[i] = r[i]
    PROVE  u[k] = v[k]
<1> DEFINE P == {i \in Nat : i <= k => u[i] = v[i]}
<1>1. 0 \in P
    BY DEF AddsUp
<1>2. ASSUME NEW i \in P
      PROVE  i + 1 \in P
    BY DEF AddsUp
<1>3. P = Nat
    <2> HIDE DEF P
    <2> QED
        BY <1>1, <1>2, FromZeroOn DEF P
<1> QED
    BY <1>3

LEMMA TotalOfNone == Total(<<>>) = 0
<1>1. PICK u : AddsUp(<<>>, u, Len(<<>>))
    BY SumsExist, EmptySeq
<1> QED
    BY <1>1, TotalIs, EmptySeq DEF AddsUp

\* A number put at the end is added.
LEMMA TotalAppend ==
    ASSUME NEW q \in Seq(Nat), NEW d \in Nat
    PROVE  Total(Append(q, d)) = Total(q) + d
<1> DEFINE r == Append(q, d)
<1>1. /\ r \in Seq(Nat) /\ Len(q) \in Nat /\ Len(r) = Len(q) + 1 /\ r[Len(q) + 1] = d
      /\ \A i \in 1..Len(q) : r[i] = q[i]
    BY AppendProperties, LenProperties
<1> HIDE DEF r
<1>2. PICK u : AddsUp(q, u, Len(q))
    BY SumsExist
<1>3. PICK v : AddsUp(r, v, Len(r))
    BY <1>1, SumsExist
<1>4. u[Len(q)] = v[Len(q)]
    <2>1. Len(q) <= Len(r) /\ Len(r) \in Nat /\ \A i \in 1..Len(q) : q[i] = r[i]
        BY <1>1
    <2> QED
        BY <1>2, <1>3, <2>1, SumsAgree, LenProperties
<1>5. v[Len(r)] = v[Len(q)] + d
    BY <1>1, <1>3 DEF AddsUp
<1> QED
    BY <1>1, <1>2, <1>3, <1>4, <1>5, TotalIs DEF r

\* One number of them that is larger by d makes the sum larger by d.
LEMMA TotalRaise ==
    ASSUME NEW q \in Seq(Nat), NEW r \in Seq(Nat), NEW d \in Nat, Len(r) = Len(q),
           NEW k \in 1..Len(q), r[k] = q[k] + d,
           \A i \in 1..Len(q) : i # k => r[i] = q[i]
    PROVE  Total(r) = Total(q) + d
<1>0. Len(q) \in Nat /\ \A i \in 1..Len(q) : q[i] \in Nat
    BY LenProperties
<1>1. PICK u : AddsUp(q, u, Len(q))
    BY SumsExist
<1>2. PICK v : AddsUp(r, v, Len(q))
    BY SumsExist
<1> DEFINE P == {n \in Nat : n <= Len(q) => (n < k => v[n] = u[n]) /\ (n >= k => v[n] = u[n] + d)}
<1>3. 0 \in P
    BY <1>1, <1>2 DEF AddsUp
<1>4. ASSUME NEW n \in P
      PROVE  n + 1 \in P
    <2>1. SUFFICES ASSUME n + 1 <= Len(q)
                   PROVE  /\ n + 1 < k => v[n + 1] = u[n + 1]
                          /\ n + 1 >= k => v[n + 1] = u[n + 1] + d
        OBVIOUS
    <2>2. /\ n \in Nat /\ n + 1 \in 1..Len(q)
          /\ (n < k => v[n] = u[n]) /\ (n >= k => v[n] = u[n] + d)
        BY <1>0, <2>1
    <2>3. v[n + 1] = v[n] + r[n + 1] /\ u[n + 1] = u[n] + q[n + 1] /\ u[n] \in Nat
        BY <1>0, <1>1, <1>2, <2>1, <2>2, NextSum, SMTT(30)
    <2> HIDE DEF P
    <2>4. CASE n + 1 = k
        <3>1. r[n + 1] = q[n + 1] + d /\ q[n + 1] \in Nat /\ n < k
            BY <1>0, <2>2, <2>4, SMTT(30)
        <3> QED
            BY <2>2, <2>3, <2>4, <3>1, SMTT(30)
    <2>5. CASE n + 1 # k
        <3>1. r[n + 1] = q[n + 1] /\ q[n + 1] \in Nat
            BY <1>0, <2>2, <2>5
        <3> QED
            BY <2>2, <2>3, <2>5, <3>1, SMTT(30)
    <2> QED
        BY <2>4, <2>5
<1>5. P = Nat
    <2> HIDE DEF P
    <2> QED
        BY <1>3, <1>4, FromZeroOn DEF P
<1>6. v[Len(q)] = u[Len(q)] + d
    BY <1>0, <1>5, SMTT(30)
<1> QED
    BY <1>0, <1>1, <1>2, <1>6, TotalIs

\* Without one of them the sum is not larger.
LEMMA TotalRemove ==
    ASSUME NEW q \in Seq(Nat), NEW k \in 1..Len(q)
    PROVE  RemoveAt(q, k) \in Seq(Nat) /\ Total(RemoveAt(q, k)) <= Total(q)
<1> DEFINE r == RemoveAt(q, k)
<1>0. Len(q) \in Nat /\ \A i \in 1..Len(q) : q[i] \in Nat
    BY LenProperties
<1>1. /\ r \in Seq(Nat) /\ Len(r) = Len(q) - 1
      /\ \A i \in 1..Len(q) - 1 : (i < k => r[i] = q[i]) /\ (i >= k => r[i] = q[i + 1])
    <2> DEFINE a == SubSeq(q, 1, k - 1)
               b == SubSeq(q, k + 1, Len(q))
    <2>1. a \in Seq(Nat) /\ Len(a) = k - 1 /\ \A i \in 1..k - 1 : a[i] = q[i]
        BY <1>0, SubSeqProperties
    <2>2. b \in Seq(Nat) /\ Len(b) = Len(q) - k /\ \A i \in 1..Len(q) - k : b[i] = q[k + i]
        BY <1>0, SubSeqProperties
    <2> HIDE DEF a, b
    <2>3. r = a \o b
        BY DEF RemoveAt, a, b
    <2>4. /\ a \o b \in Seq(Nat) /\ Len(a \o b) = Len(a) + Len(b)
          /\ \A i \in 1..Len(a) + Len(b) :
                (a \o b)[i] = IF i <= Len(a) THEN a[i] ELSE b[i - Len(a)]
        BY <2>1, <2>2, ConcatProperties
    <2> HIDE DEF r
    <2>5. ASSUME NEW i \in 1..Len(q) - 1
          PROVE  (i < k => r[i] = q[i]) /\ (i >= k => r[i] = q[i + 1])
        <3>1. CASE i < k
            BY <1>0, <2>1, <2>2, <2>3, <2>4, <3>1
        <3>2. CASE i >= k
            <4> DEFINE j == i - (k - 1)
            <4>1. j \in 1..Len(q) - k /\ k + j = i + 1
                BY <1>0, <3>2
            <4>2. i \in 1..Len(a) + Len(b) /\ ~(i <= Len(a)) /\ j = i - Len(a)
                BY <1>0, <2>1, <2>2, <3>2
            <4> HIDE DEF j
            <4>3. r[i] = b[j]
                BY <2>3, <2>4, <4>2
            <4>4. b[j] = q[i + 1]
                BY <2>2, <4>1
            <4> QED
                BY <3>2, <4>3, <4>4
        <3> QED
            BY <1>0, <3>1, <3>2
    <2>6. Len(a) + Len(b) = Len(q) - 1
        BY <1>0, <2>1, <2>2
    <2> QED
        BY <2>3, <2>4, <2>5, <2>6
<1> HIDE DEF r
<1>2. PICK u : AddsUp(q, u, Len(q))
    BY SumsExist
<1>3. PICK v : AddsUp(r, v, Len(r))
    BY <1>1, SumsExist
<1> DEFINE P == {n \in Nat : n <= Len(r) => (n < k => v[n] = u[n]) /\ (n >= k => v[n] <= u[n + 1])}
<1>4. 0 \in P
    BY <1>2, <1>3 DEF AddsUp
<1>5. ASSUME NEW n \in P
      PROVE  n + 1 \in P
    <2>1. SUFFICES ASSUME n + 1 <= Len(r)
                   PROVE  /\ n + 1 < k => v[n + 1] = u[n + 1]
                          /\ n + 1 >= k => v[n + 1] <= u[n + 2]
        OBVIOUS
    <2>2. /\ n \in Nat /\ n + 1 \in 1..Len(r) /\ n + 1 \in 1..Len(q) /\ n + 2 \in 1..Len(q)
          /\ (n < k => v[n] = u[n]) /\ (n >= k => v[n] <= u[n + 1])
        <3>1. n \in Nat /\ (n <= Len(r) => (n < k => v[n] = u[n]) /\ (n >= k => v[n] <= u[n + 1]))
            OBVIOUS
        <3>2. Len(r) \in Nat /\ Len(q) \in Nat /\ Len(r) = Len(q) - 1
            BY <1>0, <1>1
        <3> HIDE DEF P
        <3>3. n <= Len(r)
            BY <2>1, <3>1, <3>2
        <3>4. n + 1 \in 1..Len(r) /\ n + 1 \in 1..Len(q) /\ n + 2 \in 1..Len(q)
            BY <2>1, <3>1, <3>2
        <3> QED
            BY <3>1, <3>3, <3>4
    <2>3. /\ v[n + 1] = v[n] + r[n + 1] /\ v[n] \in Nat /\ u[n] \in Nat
          /\ u[n + 1] = u[n] + q[n + 1] /\ u[n + 2] = u[n + 1] + q[n + 2]
        <3>1. v[n + 1] = v[n] + r[n + 1] /\ v[n] \in Nat
            BY <1>0, <1>1, <1>3, <2>1, <2>2, NextSum, SMTT(30)
        <3>2. u[n + 1] = u[n] + q[n + 1] /\ u[n] \in Nat
            <4>1. n \in Nat /\ n + 1 <= Len(q)
                BY <1>0, <2>2
            <4> HIDE DEF P
            <4> QED
                BY <1>0, <1>2, <4>1, NextSum
        <3>3. n + 1 \in Nat /\ (n + 1) + 1 <= Len(q) /\ (n + 1) + 1 = n + 2
            BY <1>0, <1>1, <2>1, <2>2
        <3>4. u[n + 2] = u[n + 1] + q[n + 2]
            BY <1>0, <1>2, <3>3, NextSum
        <3> QED
            BY <3>1, <3>2, <3>4
    <2>4. (n + 1 < k => r[n + 1] = q[n + 1]) /\ (n + 1 >= k => r[n + 1] = q[n + 2])
        <3>1. n + 1 \in 1..Len(q) - 1 /\ (n + 1) + 1 = n + 2
            BY <1>0, <1>1, <2>2
        <3> QED
            BY <1>1, <3>1
    <2>5. q[n + 1] \in Nat /\ q[n + 2] \in Nat
        BY <1>0, <2>2
    <2> HIDE DEF P
    <2>6. CASE n + 1 < k
        BY <2>2, <2>3, <2>4, <2>6
    <2>7. CASE n + 1 = k
        BY <2>2, <2>3, <2>4, <2>5, <2>7
    <2>8. CASE n >= k
        BY <2>2, <2>3, <2>4, <2>5, <2>8, SMTT(30)
    <2> QED
        BY <2>2, <2>6, <2>7, <2>8
<1>6. P = Nat
    <2> HIDE DEF P
    <2> QED
        BY <1>4, <1>5, FromZeroOn DEF P
<1>7. v[Len(r)] <= u[Len(q)]
    <2> DEFINE n == Len(r)
    <2>1. n \in Nat /\ n + 1 = Len(q)
        BY <1>0, <1>1
    <2>2. (n < k => v[n] = u[n]) /\ (n >= k => v[n] <= u[n + 1])
        BY <1>6, <2>1, SMTT(30)
    <2> HIDE DEF n, P
    <2>3. u[n + 1] = u[n] + q[n + 1] /\ u[n] \in Nat /\ q[n + 1] \in Nat
        BY <1>0, <1>2, <2>1, NextSum, SMTT(30)
    <2>4. v[n] <= u[n + 1]
        BY <2>1, <2>2, <2>3
    <2> QED
        BY <2>1, <2>4 DEF n
<1> QED
    BY <1>1, <1>2, <1>3, <1>7, TotalIs DEF r

\* The services' counts, as a sequence.
LEMMA CountsAre ==
    ASSUME NEW f \in [Services -> Nat]
    PROVE  /\ [i \in 1..Count |-> f[ServiceOrder[i]]] \in Seq(Nat)
           /\ Len([i \in 1..Count |-> f[ServiceOrder[i]]]) = Count
           /\ Count \in Nat
<1>1. Count \in Nat /\ \A i \in 1..Count : ServiceOrder[i] \in Services
    BY OwnedIs
<1>2. \A i \in 1..Count : f[ServiceOrder[i]] \in Nat
    BY <1>1
<1> QED
    BY <1>1, <1>2, IsASeq, LenProperties

LEMMA SumType ==
    ASSUME NEW f \in [Services -> Nat]
    PROVE  Sum(f) \in Nat
<1> DEFINE q == [i \in 1..Count |-> f[ServiceOrder[i]]]
<1>1. q \in Seq(Nat)
    BY CountsAre
<1> HIDE DEF q
<1>2. Total(q) \in Nat
    BY <1>1, SumsExist, TotalIs
<1> QED
    BY <1>2 DEF Sum, q

LEMMA SumOfNone == Sum([s \in Services |-> 0]) = 0
<1> DEFINE f == [s \in Services |-> 0]
           q == [i \in 1..Count |-> f[ServiceOrder[i]]]
           u == [n \in 0..Count |-> 0]
<1>1. q \in Seq(Nat) /\ Len(q) = Count /\ Count \in Nat
    <2>1. f \in [Services -> Nat]
        OBVIOUS
    <2> HIDE DEF f
    <2> QED
        BY <2>1, CountsAre
<1>2. \A i \in 1..Count : q[i] = 0
    BY OwnedIs
<1>3. AddsUp(q, u, Count)
    <2> HIDE DEF q
    <2> QED
        BY <1>1, <1>2 DEF AddsUp
<1>4. Total(q) = u[Count]
    <2> HIDE DEF q, u
    <2> QED
        BY <1>1, <1>3, TotalIs
<1> QED
    BY <1>1, <1>4 DEF Sum

\* What one service has more of, the sum has more of.
LEMMA SumRaise ==
    ASSUME NEW f \in [Services -> Nat], NEW s \in Services, NEW d \in Nat
    PROVE  Sum([f EXCEPT ![s] = @ + d]) = Sum(f) + d
<1> DEFINE g == [f EXCEPT ![s] = @ + d]
           q == [i \in 1..Count |-> f[ServiceOrder[i]]]
           r == [i \in 1..Count |-> g[ServiceOrder[i]]]
<1>1. g \in [Services -> Nat] /\ g[s] = f[s] + d /\ \A t \in Services : t # s => g[t] = f[t]
    OBVIOUS
<1>2. q \in Seq(Nat) /\ Len(q) = Count /\ Count \in Nat
    BY CountsAre
<1>3. r \in Seq(Nat) /\ Len(r) = Count
    <2> HIDE DEF g
    <2> QED
        BY <1>1, CountsAre
<1>4. /\ ServiceOrder \in Seq(Services) /\ Range(ServiceOrder) = Services
      /\ IsInjective(ServiceOrder)
    BY CollectorConstants
<1>5. DOMAIN ServiceOrder = 1..Count
    BY <1>4, LenProperties DEF Count
<1>6. PICK k \in 1..Count : ServiceOrder[k] = s
    BY <1>4, <1>5 DEF Range
<1>7. \A i \in 1..Count : ServiceOrder[i] \in Services /\ (i # k => ServiceOrder[i] # s)
    BY <1>4, <1>5, <1>6, OwnedIs DEF IsInjective
<1>8. r[k] = q[k] + d /\ \A i \in 1..Count : i # k => r[i] = q[i]
    <2> HIDE DEF g
    <2> QED
        BY <1>1, <1>6, <1>7
<1>9. Total(r) = Total(q) + d
    <2> HIDE DEF q, r
    <2>1. Len(r) = Len(q) /\ k \in 1..Len(q) /\ \A i \in 1..Len(q) : i # k => r[i] = q[i]
        BY <1>2, <1>3, <1>8
    <2> QED
        BY <1>2, <1>3, <1>8, <2>1, TotalRaise
<1> QED
    BY <1>9 DEF Sum

-----------------------------------------------------------------------------
(* The collector, under the client *)

\* What CollectorProofs proves of a collector.
CollectorPart == StopInv /\ CollectorTypeOK /\ HearingInv

LEMMA CollectorGoesOn ==
    ASSUME CollectorPart, UserStep \/ CollectorStep
    PROVE  CollectorPart'
<1>1. CollectorInv
    BY DEF CollectorPart, CollectorInv, StopInv
<1>2. CASE UserStep
    BY <1>1, <1>2, UserStepKeeps, UserStepHears DEF CollectorPart
<1>3. CASE CollectorStep
    <2>1. StopInv'
        BY <1>3, CollectorStepIs, OthersKeep DEF CollectorPart, StopInv
    <2> QED
        BY <1>1, <1>3, <2>1, CollectorStepHears DEF CollectorPart
<1> QED
    BY <1>2, <1>3

LEMMA CollectorRests ==
    ASSUME CollectorPart, crashed' \in BOOLEAN,
           UNCHANGED <<refresherVars, mutex, userVars, fetchVars, pingVars, worldVars>>
    PROVE  CollectorPart'
<1> USE DEF CollectorPart, refresherVars, userVars, fetchVars, worldVars
<1>1. StopInv'
    BY DEF StopInv, UserOK, JoinedBefore, StoppedIsQuiet, StartedIsBound, Joinable
<1>2. HearingInv'
    BY HearingStays
<1>3. CollectorTypeOK'
    BY DEF CollectorTypeOK, RefresherTypeOK, pingVars
<1> QED
    BY <1>1, <1>2, <1>3

\* A new collector has the types, and nothing that runs; so has a freed one.
LEMMA NewCollectorIs ==
    ASSUME CollectorPart, NEW t, NewCollector(t)
    PROVE  CollectorPart'
<1> USE DEF CollectorPart, NewCollector, refresherVars, userVars, worldVars
<1>1. CASE ~\A r \in Refreshers : Joinable(r)
    BY <1>1, CollectorRests DEF fetchVars, CollectorTypeOK
<1>2. CASE \A r \in Refreshers : Joinable(r)
    <2>1. /\ user' = "new" /\ at' = 1 /\ bound' = {} /\ callback' = FALSE
          /\ fetched' = [s \in Services |-> None]
          /\ thread' = [r \in Refreshers |-> "none"]
          /\ stopping' = [r \in Refreshers |-> FALSE] /\ notified' = {}
          /\ UNCHANGED <<mutex, fetch, list, pingVars, worldVars, crashed>>
        BY <1>2
    <2>2. StopInv'
        <3>1. \A s \in Services : thread'[s] = "none"
            BY <2>1, CollectorConstants
        <3>2. UserOK'
            BY <2>1 DEF UserOK, Places
        <3> QED
            BY <2>1, <3>1, <3>2 DEF StopInv, JoinedBefore, StoppedIsQuiet, StartedIsBound
    <2>3. HearingInv'
        BY <2>1, HearingStays
    <2>4. CollectorTypeOK'
        <3>1. RefresherTypeOK'
            BY <2>1 DEF RefresherTypeOK, Places
        <3>2. at' \in 1..Count + 2
            BY <2>1, OwnedIs
        <3>3. fetched' \in [Services -> Lists \union {None}]
            BY <2>1
        <3>4. callback' \in BOOLEAN
            BY <2>1, Zenon
        <3> QED
            BY <2>1, <3>1, <3>2, <3>3, <3>4 DEF CollectorTypeOK, pingVars
    <2> QED
        BY <2>2, <2>3, <2>4
<1> QED
    BY <1>1, <1>2

-----------------------------------------------------------------------------
(* The client's calls *)

\* The client's mutex has the caller that is where it is held, and a service's mutex
\* its own callback.
MutexIsHeld ==
    /\ \A t \in Callers : call[t] \in Inside <=> client_mutex = t
    /\ \A s \in Services :
          service_mutex[s] = IF dispatching[s] = "callback" THEN s ELSE None

\* A response thread calls the client in its callback only.
CallbacksCall == \A s \in Services : call[s] # "idle" => dispatching[s] = "callback"

\* A message that was let in still fits when it reaches its service.
RoutesFit ==
    \A t \in Callers : call[t] = "route" =>
        /\ arg[t] \in [service : Services, size : 0..Word - 1]
        /\ messages_cache_size + arg[t].size <= Capacity

\* A call that waits for a mutex has what it is called with.
CallsAsk ==
    \A t \in Callers :
        /\ call[t] = "to send" => arg[t] \in Requests
        /\ call[t] = "to register" => arg[t].service \in Services

\* The client's figure is the sum of the services' but while a message is added.
Accounted ==
    (\A t \in Callers : call[t] # "account") => messages_cache_size = Sum(cache_size)

SizesInv ==
    /\ Sum(cache_size) <= Capacity
    /\ Accounted /\ RoutesFit /\ CallsAsk
    /\ \A s \in Services : Total(queued[s]) <= cache_size[s]

\* A callback is given a response.
CallbacksAnswer == \A s \in Services : dispatching[s] = "callback" => responses[s] > 0

Destroys(t) == call[t] \in {"destroy", "destroyed"}

\* The client is destroyed when the collector has stopped and nobody is in a call, or
\* waits to begin one.
EndsStopped ==
    (\E t \in Users : Destroys(t)) =>
        user = "stopped" /\ \A u \in Callers : call[u] = "idle" \/ Destroys(u)

\* What is destroyed of a service is so after its response thread has ended, the handles'
\* threads end last, and the client is gone when all have.
TornDown ==
    /\ \A s \in torn : dispatching[s] = "ended" /\ \E t \in Users : Destroys(t)
    /\ \A s \in Services \ working : s \in torn
    /\ (\E t \in Users : call[t] = "destroyed") => working = {}

ThreadsInv == MutexIsHeld /\ CallbacksCall /\ CallbacksAnswer /\ EndsStopped /\ TornDown

CallsPart == CallsTypeOK /\ SizesInv /\ ThreadsInv

ClientInv == CollectorPart /\ CallsPart

\* Who holds the mutex of the client, or of a service, is no longer nobody.
LEMMA CallersAre ==
    /\ Users \subseteq Callers /\ Services \subseteq Callers /\ None \notin Callers
    /\ Users \cap Services = {}
<1>1. None \notin Services
    BY CollectorConstants
<1> QED
    BY <1>1, ClientConstants DEF Callers

\* What becomes of the collector matters to none of this, as long as it is in a call that
\* the collector stops.
LEMMA CallsRest ==
    ASSUME CallsPart,
           UNCHANGED <<call, arg, sends, connects, sizeVars, dispatchVars, lockVars>>,
           made' \in BOOLEAN, freed' \in BOOLEAN,
           user' = user \/ \E t \in Callers : call[t] \in Inside
    PROVE  CallsPart'
<1> USE DEF CallsPart, sizeVars, lockVars, dispatchVars, teardownVars
<1>1. CallsTypeOK'
    BY DEF CallsTypeOK
<1>2. ThreadsInv'
    BY DEF ThreadsInv, MutexIsHeld, CallbacksCall, CallbacksAnswer, EndsStopped, TornDown,
       Destroys, Inside
<1>3. SizesInv'
    BY DEF SizesInv, Accounted, RoutesFit, CallsAsk
<1> QED
    BY <1>1, <1>2, <1>3

\* A call begins, goes on or ends, with v what it is called with now: the places where it
\* has the client's mutex are those it takes it for.
Goes(t, place, v) ==
    /\ call' = [call EXCEPT ![t] = place] /\ arg' = [arg EXCEPT ![t] = v]
    /\ call[t] = "idle" => MayCall(t)
    /\ place = "to send" => v \in Requests
    /\ place = "to register" => v.service \in Services
    /\ place = "route" => /\ v \in [service : Services, size : 0..Word - 1]
                          /\ messages_cache_size + v.size <= Capacity
    /\ \/ place \in Inside /\ Takes(t)
       \/ place \notin Inside /\ call[t] \in Inside /\ client_mutex' = None
       \/ place \notin Inside /\ call[t] \notin Inside /\ UNCHANGED client_mutex

LEMMA GoingKeeps ==
    ASSUME CallsPart, NEW t \in Callers, NEW v \in Requests \union {None},
           NEW place \in {"idle", "to register", "route", "connect", "disconnect"} \union Waits,
           call[t] # "account", ~Destroys(t), Goes(t, place, v),
           user' = user \/ call[t] \in Inside,
           sends' \in 0..MaxSends, connects' \in 0..MaxConnects, registered' \in SUBSET Services,
           UNCHANGED <<made, freed, sizeVars, responses, is_running, dispatching, teardownVars,
                       service_mutex>>
    PROVE  CallsPart'
<1> USE DEF CallsPart, sizeVars, teardownVars, Goes
<1>1. /\ call'[t] = place /\ arg'[t] = v
      /\ \A u \in Callers : u # t => call'[u] = call[u] /\ arg'[u] = arg[u]
    BY DEF CallsTypeOK
<1>2. CallsTypeOK'
    <2>1. /\ call' \in [Callers -> {"idle", "to register", "destroy", "destroyed"}
                                     \union Waits \union Inside]
          /\ arg' \in [Callers -> Requests \union {None}]
        BY DEF CallsTypeOK, Inside
    <2>2. client_mutex' \in Callers \union {None}
        BY DEF CallsTypeOK, Takes
    <2> QED
        BY <2>1, <2>2 DEF CallsTypeOK
<1>3. Alive
    BY CallersAre DEF MayCall, ThreadsInv, EndsStopped, Alive, Destroys
<1>4. ThreadsInv'
    <2> USE DEF ThreadsInv
    <2>1. MutexIsHeld'
        <3>1. /\ \A u \in Callers : call[u] \in Inside <=> client_mutex = u
              /\ \A s \in Services :
                    service_mutex'[s] = IF dispatching'[s] = "callback" THEN s ELSE None
            BY DEF MutexIsHeld
        <3>h. \/ place \in Inside /\ Takes(t)
              \/ place \notin Inside /\ call[t] \in Inside /\ client_mutex' = None
              \/ place \notin Inside /\ call[t] \notin Inside /\ UNCHANGED client_mutex
            OBVIOUS
        <3> HIDE DEF CallsPart, Goes, ThreadsInv
        <3>2. CASE place \in Inside /\ Takes(t)
            BY <1>1, <3>1, <3>2, CallersAre DEF MutexIsHeld, Takes
        <3>3. CASE place \notin Inside /\ call[t] \in Inside /\ client_mutex' = None
            BY <1>1, <3>1, <3>3, CallersAre DEF MutexIsHeld
        <3>4. CASE place \notin Inside /\ call[t] \notin Inside /\ UNCHANGED client_mutex
            BY <1>1, <3>1, <3>4 DEF MutexIsHeld
        <3> QED
            BY <3>h, <3>2, <3>3, <3>4
    <2>2. CallbacksCall' /\ CallbacksAnswer'
        <3>1. UNCHANGED <<responses, dispatching>>
            OBVIOUS
        <3>2. t \in Services => dispatching[t] = "callback"
            BY <1>3 DEF CallbacksCall, MayCall
        <3>3. CallbacksCall /\ CallbacksAnswer /\ Services \subseteq Callers
            BY CallersAre
        <3> HIDE DEF CallsPart, Goes, ThreadsInv
        <3> QED
            BY <1>1, <3>1, <3>2, <3>3 DEF CallbacksCall, CallbacksAnswer
    <2>3. \A u \in Users : call'[u] \notin {"destroy", "destroyed"}
        BY <1>1, <1>3, CallersAre DEF Alive, Waits
    <2>4. EndsStopped' /\ TornDown'
        BY <1>3, <2>3 DEF EndsStopped, TornDown, Destroys, Alive
    <2> QED
        BY <2>1, <2>2, <2>4
<1>5. SizesInv'
    <2>1. Accounted'
        BY <1>1 DEF SizesInv, Accounted, Waits
    <2>2. RoutesFit' /\ CallsAsk'
        BY <1>1 DEF SizesInv, RoutesFit, CallsAsk
    <2> QED
        BY <2>1, <2>2 DEF SizesInv
<1> QED
    BY <1>2, <1>4, <1>5

\* The size of a message that may be sent does not wrap.
LEMMA SizeIs ==
    ASSUME NEW data \in 0..Word - 1, ~TooBig(data)
    PROVE  Size(data) = data + Overhead /\ Size(data) \in 0..Word - 1
           /\ Size(data) <= MaxData + Overhead
<1>1. data \in Nat /\ data <= MaxData /\ Overhead \in Nat /\ MaxData \in Nat /\ Word \in Nat
      /\ Capacity \in Nat /\ Capacity + MaxData + Overhead < Word
    BY ClientConstants DEF TooBig
<1>2. data + Overhead \in 0..Word - 1
    BY <1>1
<1>3. (data + Overhead) % Word = data + Overhead
    BY <1>1, <1>2
<1> QED
    BY <1>1, <1>2, <1>3 DEF Size

LEMMA AcceptKeeps ==
    ASSUME CallsPart, NEW t \in Callers, AcceptMessage(t)
    PROVE  CallsPart'
<1> DEFINE s == arg[t].service
           data == arg[t].size
           v == [service |-> s, size |-> Size(data)]
<1>1. /\ call[t] = "to send" /\ Takes(t)
      /\ s \in Services /\ ~TooBig(data) /\ Fits(data)
      /\ call' = [call EXCEPT ![t] = "route"] /\ arg' = [arg EXCEPT ![t] = v]
      /\ UNCHANGED <<made, freed, sends, connects, user, sizeVars, dispatchVars, service_mutex>>
    BY DEF AcceptMessage, collectorVars, userVars
<1>2. /\ sends' \in 0..MaxSends /\ connects' \in 0..MaxConnects /\ registered' \in SUBSET Services
      /\ UNCHANGED <<responses, is_running, dispatching, teardownVars>>
    BY <1>1 DEF CallsPart, CallsTypeOK, dispatchVars
<1>r. arg[t] \in Requests
    BY <1>1 DEF CallsPart, SizesInv, CallsAsk
<1>s. data \in 0..Word - 1
    BY <1>r DEF Requests
<1> HIDE DEF s, data
<1>3. /\ Size(data) = data + Overhead /\ Size(data) \in 0..Word - 1
      /\ Size(data) <= MaxData + Overhead
    BY <1>1, <1>s, SizeIs
<1>4. messages_cache_size <= Capacity /\ messages_cache_size \in Nat
    <2>1. \A u \in Callers : call[u] # "account"
        BY <1>1, CallersAre DEF CallsPart, ThreadsInv, MutexIsHeld, Takes, Inside
    <2> QED
        BY <2>1 DEF CallsPart, CallsTypeOK, SizesInv, Accounted
<1>5. messages_cache_size + Size(data) <= Capacity
    <2>1. /\ Word \in Nat /\ Overhead \in Nat /\ MaxData \in Nat /\ Capacity \in Nat
          /\ Capacity + MaxData + Overhead < Word
        BY ClientConstants
    <2>2. messages_cache_size + Size(data) \in 0..Word - 1
        BY <1>3, <1>4, <2>1
    <2>3. (messages_cache_size + Size(data)) % Word = messages_cache_size + Size(data)
        BY <2>1, <2>2
    <2> QED
        BY <1>1, <2>3 DEF Fits
<1>6. v \in [service : Services, size : 0..Word - 1] /\ v.size = Size(data) /\ v \in Requests
    BY <1>1, <1>3 DEF Requests
<1> HIDE DEF v
<1>7. Goes(t, "route", v)
    BY <1>1, <1>5, <1>6 DEF Goes, Inside
<1> QED
    BY <1>1, <1>2, <1>6, <1>7, GoingKeeps DEF Destroys

LEMMA RouteKeeps ==
    ASSUME CallsPart, NEW t \in Callers, RouteMessage(t)
    PROVE  CallsPart'
<1> DEFINE s == arg[t].service
           size == arg[t].size
<1>1. /\ client_mutex = t /\ call[t] = "route" /\ call' = [call EXCEPT ![t] = "account"]
      /\ queued' = [queued EXCEPT ![s] = Append(@, size)]
      /\ cache_size' = [cache_size EXCEPT ![s] = @ + size]
      /\ UNCHANGED <<collectorVars, arg, made, freed, sends, connects, messages_cache_size,
                     dispatchVars, lockVars>>
    BY DEF RouteMessage, Holds
<1>2. /\ s \in Services /\ size \in Nat /\ messages_cache_size + size <= Capacity
    BY <1>1, ClientConstants DEF CallsPart, SizesInv, RoutesFit
<1>3. \A u \in Callers : u # t => call[u] \notin Inside
    BY <1>1 DEF CallsPart, ThreadsInv, MutexIsHeld
<1>4. messages_cache_size = Sum(cache_size)
    BY <1>1, <1>3 DEF CallsPart, SizesInv, Accounted, Inside
<1>5. /\ cache_size \in [Services -> Nat]
      /\ queued \in [Services -> Seq(Nat)] /\ queued[s] \in Seq(Nat)
    BY <1>2 DEF CallsPart, CallsTypeOK
<1>6. /\ Append(queued[s], size) \in Seq(Nat)
      /\ Total(Append(queued[s], size)) = Total(queued[s]) + size
    BY <1>2, <1>5, TotalAppend, AppendProperties
<1>7. Sum(cache_size') = Sum(cache_size) + size
    BY <1>1, <1>2, <1>5, SumRaise
<1> HIDE DEF s, size
<1>m. call'[t] = "account" /\ \A u \in Callers : u # t => call'[u] = call[u]
    BY <1>1 DEF CallsPart, CallsTypeOK
<1>8. CallsTypeOK'
    <2>1. queued' \in [Services -> Seq(Nat)] /\ cache_size' \in [Services -> Nat]
        BY <1>1, <1>2, <1>5, <1>6
    <2>2. call' \in [Callers -> {"idle", "to register", "destroy", "destroyed"}
                                  \union Waits \union Inside]
        BY <1>1 DEF CallsPart, CallsTypeOK, Inside
    <2> QED
        BY <1>1, <2>1, <2>2 DEF CallsPart, CallsTypeOK, dispatchVars, teardownVars, lockVars
<1>9. SizesInv'
    <2>1. Sum(cache_size') <= Capacity
        BY <1>2, <1>4, <1>7
    <2>2. \A r \in Services : Total(queued'[r]) <= cache_size'[r]
        <3>1. Total(queued[s]) \in Nat
            <4>1. PICK u : AddsUp(queued[s], u, Len(queued[s]))
                BY <1>5, SumsExist
            <4> QED
                BY <1>5, <4>1, TotalIs
        <3>2. Total(queued'[s]) <= cache_size'[s]
            BY <1>1, <1>2, <1>5, <1>6, <3>1 DEF CallsPart, SizesInv
        <3>3. \A r \in Services : r # s => queued'[r] = queued[r] /\ cache_size'[r] = cache_size[r]
            BY <1>1, <1>2, <1>5
        <3> QED
            BY <3>2, <3>3 DEF CallsPart, SizesInv
    <2>3. Accounted' /\ RoutesFit'
        BY <1>3, <1>m DEF Accounted, RoutesFit, Inside
    <2>4. CallsAsk'
        BY <1>1, <1>m DEF CallsPart, SizesInv, CallsAsk
    <2> QED
        BY <2>1, <2>2, <2>3, <2>4 DEF SizesInv
<1>10. ThreadsInv'
    BY <1>1, <1>m, CallersAre DEF CallsPart, ThreadsInv, MutexIsHeld, CallbacksCall,
       CallbacksAnswer, EndsStopped, TornDown, Destroys, Inside, dispatchVars, teardownVars,
       lockVars, collectorVars, userVars
<1> QED
    BY <1>8, <1>9, <1>10 DEF CallsPart

LEMMA AccountKeeps ==
    ASSUME CallsPart, NEW t \in Callers, AccountMessage(t)
    PROVE  CallsPart'
<1>1. /\ client_mutex = t /\ call[t] = "account" /\ call' = [call EXCEPT ![t] = "idle"]
      /\ messages_cache_size' = Sum(cache_size) /\ arg' = [arg EXCEPT ![t] = None]
      /\ client_mutex' = None
      /\ UNCHANGED <<collectorVars, made, freed, sends, connects, cache_size, queued,
                     dispatchVars, service_mutex>>
    BY DEF AccountMessage, Holds, Returns
<1>2. \A u \in Callers : u # t => call[u] \notin Inside
    BY <1>1 DEF CallsPart, ThreadsInv, MutexIsHeld
<1>3. Sum(cache_size) \in Nat
    BY SumType DEF CallsPart, CallsTypeOK
<1>4. arg' \in [Callers -> Requests \union {None}]
    BY <1>1 DEF CallsPart, CallsTypeOK
<1>m. call'[t] = "idle" /\ \A u \in Callers : u # t => call'[u] = call[u] /\ arg'[u] = arg[u]
    BY <1>1 DEF CallsPart, CallsTypeOK
<1>5. CallsTypeOK'
    BY <1>1, <1>3, <1>4 DEF CallsPart, CallsTypeOK, dispatchVars, teardownVars
<1>6. \A u \in Callers : call'[u] # "route" /\ call'[u] # "account"
    BY <1>2, <1>m DEF Inside
<1>7. SizesInv'
    <2>1. CallsAsk'
        BY <1>m DEF CallsPart, SizesInv, CallsAsk
    <2> QED
        BY <1>1, <1>6, <2>1 DEF CallsPart, SizesInv, Accounted, RoutesFit
<1>8. ThreadsInv'
    BY <1>1, <1>m, CallersAre DEF CallsPart, ThreadsInv, MutexIsHeld, CallbacksCall,
       CallbacksAnswer, EndsStopped, TornDown, Destroys, Inside, dispatchVars, teardownVars,
       collectorVars, userVars
<1> QED
    BY <1>5, <1>7, <1>8 DEF CallsPart

\* What a call is called with, when it leaves that alone.
LEMMA SameArg ==
    ASSUME CallsPart, NEW t \in Callers
    PROVE  arg[t] \in Requests \union {None} /\ arg = [arg EXCEPT ![t] = arg[t]]
BY DEF CallsPart, CallsTypeOK

LEMMA BeginSendKeeps ==
    ASSUME CallsPart, NEW t \in Callers, NEW s \in Services \union {Unknown},
           NEW data \in Sizes, BeginSend(t, s, data)
    PROVE  CallsPart'
<1> DEFINE v == [service |-> s, size |-> data]
<1>1. v \in Requests
    BY ClientConstants DEF Requests
<1> HIDE DEF v
<1>2. /\ MayCall(t) /\ call[t] = "idle" /\ sends < MaxSends /\ sends' = sends + 1
      /\ call' = [call EXCEPT ![t] = "to send"] /\ arg' = [arg EXCEPT ![t] = v]
      /\ UNCHANGED <<user, made, freed, connects, sizeVars, dispatchVars, lockVars>>
    BY DEF BeginSend, Begins, MayCall, collectorVars, userVars, v
<1>3. sends' \in 0..MaxSends
    <2>1. sends \in 0..MaxSends
        BY DEF CallsPart, CallsTypeOK
    <2>2. sends < MaxSends /\ sends' = sends + 1 /\ MaxSends \in Nat
        BY <1>2, ClientConstants
    <2> QED
        BY <2>1, <2>2
<1>4. Goes(t, "to send", v)
    BY <1>1, <1>2 DEF Goes, Inside, lockVars
<1> QED
    BY <1>1, <1>2, <1>3, <1>4, GoingKeeps
    DEF CallsPart, CallsTypeOK, Destroys, dispatchVars, lockVars, Waits

LEMMA RefuseKeeps ==
    ASSUME CallsPart, NEW t \in Callers, RefuseMessage(t)
    PROVE  CallsPart'
<1>1. /\ call[t] = "to send" /\ call' = [call EXCEPT ![t] = "idle"]
      /\ arg' = [arg EXCEPT ![t] = None]
      /\ UNCHANGED <<user, made, freed, sends, connects, sizeVars, dispatchVars, lockVars>>
    BY DEF RefuseMessage, Returns, collectorVars, userVars
<1>2. Goes(t, "idle", None)
    BY <1>1 DEF Goes, Inside, lockVars
<1> QED
    BY <1>1, <1>2, GoingKeeps DEF CallsPart, CallsTypeOK, Destroys, dispatchVars, lockVars

LEMMA SendKeeps ==
    ASSUME CallsPart, NEW t \in Callers, SendStep(t)
    PROVE  CallsPart'
BY BeginSendKeeps, RefuseKeeps, AcceptKeeps, RouteKeeps, AccountKeeps DEF SendStep

LEMMA RegisterKeeps ==
    ASSUME CallsPart, NEW t \in Callers, RegisterStep(t)
    PROVE  CallsPart'
<1>1. CASE \E s \in Services : SetResponseCallback(t, s)
    <2>1. PICK s \in Services : SetResponseCallback(t, s)
        BY <1>1
    <2> DEFINE v == [service |-> s, size |-> 0]
    <2>2. v \in Requests /\ v.service \in Services
        BY ClientConstants DEF Requests
    <2> HIDE DEF v
    <2>3. /\ MayCall(t) /\ call[t] = "idle"
          /\ call' = [call EXCEPT ![t] = "to register"] /\ arg' = [arg EXCEPT ![t] = v]
          /\ UNCHANGED <<user, made, freed, sends, connects, sizeVars, dispatchVars, lockVars>>
        BY <2>1 DEF SetResponseCallback, Begins, MayCall, collectorVars, userVars, v
    <2>4. Goes(t, "to register", v)
        BY <2>2, <2>3 DEF Goes, Inside, lockVars
    <2> QED
        BY <2>2, <2>3, <2>4, GoingKeeps
        DEF CallsPart, CallsTypeOK, Destroys, dispatchVars, lockVars
<1>2. CASE RegisterCallback(t)
    <2>1. /\ call[t] = "to register" /\ call' = [call EXCEPT ![t] = "idle"]
          /\ arg' = [arg EXCEPT ![t] = None] /\ registered' = registered \union {arg[t].service}
          /\ UNCHANGED <<user, made, freed, sends, connects, sizeVars, responses, is_running,
                         dispatching, teardownVars, lockVars>>
        BY <1>2 DEF RegisterCallback, Returns, collectorVars, userVars
    <2>2. registered' \in SUBSET Services
        BY <2>1 DEF CallsPart, CallsTypeOK, SizesInv, CallsAsk
    <2>3. Goes(t, "idle", None)
        BY <2>1 DEF Goes, Inside, lockVars
    <2> QED
        BY <2>1, <2>2, <2>3, GoingKeeps DEF CallsPart, CallsTypeOK, Destroys, lockVars
<1> QED
    BY <1>1, <1>2 DEF RegisterStep

\* A call of connect or disconnect begins, enters or ends.
LEMMA ConnectingGoes ==
    ASSUME CallsPart, NEW t \in Callers, NEW place \in {"idle", "connect", "disconnect"} \union Waits,
           call[t] \notin {"account", "destroy", "destroyed"}, place # "to send",
           call' = [call EXCEPT ![t] = place], call[t] = "idle" => MayCall(t),
           \/ place \in Inside /\ Takes(t)
           \/ place \notin Inside /\ call[t] \in Inside /\ client_mutex' = None
           \/ place \notin Inside /\ call[t] \notin Inside /\ UNCHANGED client_mutex,
           user' = user \/ call[t] \in Inside, connects' \in 0..MaxConnects,
           UNCHANGED <<arg, made, freed, sends, sizeVars, dispatchVars, service_mutex>>
    PROVE  CallsPart'
<1>1. Goes(t, place, arg[t])
    BY SameArg DEF Goes, Waits
<1> QED
    BY <1>1, SameArg, GoingKeeps DEF CallsPart, CallsTypeOK, Destroys, dispatchVars

LEMMA ConnectingKeeps ==
    ASSUME CallsPart, NEW t \in Callers, ConnectOrDisconnect(t)
    PROVE  CallsPart'
<1>0. sends \in 0..MaxSends /\ connects \in 0..MaxConnects /\ made \in BOOLEAN /\ freed \in BOOLEAN
    BY DEF CallsPart, CallsTypeOK
<1>1. CASE BeginConnect(t)
    <2>1. connects' \in 0..MaxConnects
        <3>1. MaxConnects \in Nat /\ connects < MaxConnects /\ connects' = connects + 1
            BY <1>1, ClientConstants DEF BeginConnect
        <3> QED
            BY <1>0, <3>1
    <2> QED
        BY <1>1, <2>1, ConnectingGoes
        DEF BeginConnect, Begins, MayCall, Waits, Inside, lockVars, collectorVars, userVars
<1>2. CASE EnterConnect(t)
    BY <1>0, <1>2, ConnectingGoes DEF EnterConnect, Waits, Inside, collectorVars, userVars
<1>3. CASE NewCollector(t)
    <2>1. made' \in BOOLEAN
        BY <1>3, Zenon DEF NewCollector
    <2>2. freed' \in BOOLEAN
        <3>1. freed' = TRUE \/ freed' = freed
            BY <1>3, Zenon DEF NewCollector
        <3> QED
            BY <1>0, <3>1, Zenon
    <2>3. /\ call[t] \in Inside
          /\ UNCHANGED <<call, arg, sends, connects, sizeVars, dispatchVars, lockVars>>
        BY <1>3 DEF NewCollector, Holds, Inside
    <2> QED
        BY <2>1, <2>2, <2>3, CallsRest
<1>4. CASE ConnectStep(t) \/ DisconnectStep(t)
    <2>1. /\ call[t] \in Inside
          /\ UNCHANGED <<callVars, sizeVars, dispatchVars, lockVars>>
        BY <1>4 DEF ConnectStep, DisconnectStep, Holds, Inside
    <2> QED
        BY <1>0, <2>1, CallsRest DEF callVars
<1>5. CASE EndConnect(t)
    BY <1>0, <1>5, ConnectingGoes DEF EndConnect, Holds, Returns, Inside, Waits
<1>6. CASE BeginDisconnect(t)
    BY <1>0, <1>6, ConnectingGoes
    DEF BeginDisconnect, Begins, MayCall, Waits, Inside, lockVars, collectorVars, userVars
<1>7. CASE EnterDisconnect(t)
    <2>1. CASE made
        BY <1>0, <1>7, <2>1, ConnectingGoes
        DEF EnterDisconnect, Takes, Waits, Inside, collectorVars, userVars
    <2>2. CASE ~made
        BY <1>0, <1>7, <2>2, ConnectingGoes
        DEF EnterDisconnect, Returns, Waits, Inside, collectorVars, userVars
    <2> QED
        BY <2>1, <2>2
<1>8. CASE EndDisconnect(t)
    BY <1>0, <1>8, ConnectingGoes
    DEF EndDisconnect, Holds, Returns, Inside, Waits, collectorVars, userVars
<1> QED
    BY <1>1, <1>2, <1>3, <1>4, <1>5, <1>6, <1>7, <1>8 DEF ConnectOrDisconnect

\* The destructor goes on: to the services, or to the end of the client.
LEMMA DestroyerGoes ==
    ASSUME CallsPart, NEW t \in Users, NEW place \in {"destroy", "destroyed"},
           call' = [call EXCEPT ![t] = place], user' = "stopped",
           \A u \in Callers \ {t} : call[u] = "idle" \/ Destroys(u),
           \/ call[t] = "disconnect" /\ place = "destroy" /\ client_mutex' = None
           \/ call[t] = "destroy" /\ working = {} /\ UNCHANGED client_mutex,
           UNCHANGED <<arg, made, freed, sends, connects, sizeVars, dispatchVars, service_mutex>>
    PROVE  CallsPart'
<1> USE DEF CallsPart, sizeVars, dispatchVars, teardownVars
<1>1. t \in Callers /\ call'[t] = place /\ \A u \in Callers : u # t => call'[u] = call[u]
    BY CallersAre DEF CallsTypeOK
<1>2. CallsTypeOK'
    BY DEF CallsTypeOK
<1>3. \A u \in Callers \ {t} : call[u] \notin Inside
    BY DEF Destroys, Inside
<1>4. ThreadsInv'
    <2> USE DEF ThreadsInv
    <2>1. MutexIsHeld'
        BY <1>1, <1>3, CallersAre DEF MutexIsHeld, Inside
    <2>2. CallbacksCall' /\ CallbacksAnswer'
        BY <1>1, CallersAre DEF CallbacksCall, CallbacksAnswer
    <2>3. EndsStopped'
        BY <1>1, CallersAre DEF EndsStopped, Destroys
    <2>4. TornDown'
        <3>1. \A s \in torn : dispatching[s] = "ended" /\ \E u \in Users : Destroys(u)'
            BY <1>1 DEF TornDown, Destroys
        <3>2. (\E u \in Users : call'[u] = "destroyed") => working = {}
            <4>1. ASSUME NEW u \in Users, u # t, call'[u] = "destroyed"
                  PROVE  working = {}
                BY <1>1, <4>1, CallersAre DEF TornDown
            <4>2. place = "destroyed" => working = {}
                OBVIOUS
            <4> QED
                BY <1>1, <4>1, <4>2
        <3> QED
            BY <3>1, <3>2 DEF TornDown
    <2> QED
        BY <2>1, <2>2, <2>3, <2>4
<1>5. SizesInv'
    BY <1>1, <1>3 DEF SizesInv, Accounted, RoutesFit, CallsAsk, Inside
<1> QED
    BY <1>2, <1>4, <1>5

\* A service is stopped, its members are destroyed, or its handles' threads have ended.
LEMMA TearingKeeps ==
    ASSUME CallsPart, NEW t \in Users, NEW s \in Services,
           StopService(t, s) \/ DestroyMembers(t, s) \/ JoinHandles(t, s)
    PROVE  CallsPart'
<1>1. /\ call[t] = "destroy"
      /\ UNCHANGED <<collectorVars, callVars, sizeVars, registered, responses, dispatching, lockVars>>
      /\ \/ is_running' = is_running \ {s} /\ UNCHANGED <<torn, working>>
         \/ /\ torn' = torn \union {s} /\ dispatching[s] = "ended"
            /\ UNCHANGED <<is_running, working>>
         \/ working' = working \ {s} /\ s \in torn /\ UNCHANGED <<torn, is_running>>
    BY DEF StopService, DestroyMembers, JoinHandles, teardownVars
<1>2. CallsTypeOK'
    BY <1>1 DEF CallsPart, CallsTypeOK, callVars, lockVars, sizeVars
<1>3. MutexIsHeld' /\ CallbacksCall' /\ CallbacksAnswer' /\ EndsStopped'
    BY <1>1 DEF CallsPart, ThreadsInv, MutexIsHeld, CallbacksCall, CallbacksAnswer, EndsStopped,
       Destroys, callVars, lockVars, collectorVars, userVars
<1>4. TornDown'
    <2>1. UNCHANGED <<call, dispatching>> /\ Destroys(t)
        BY <1>1 DEF callVars, Destroys
    <2> QED
        BY <1>1, <2>1 DEF CallsPart, ThreadsInv, TornDown, Destroys
<1>5. SizesInv'
    BY <1>1 DEF CallsPart, SizesInv, Accounted, RoutesFit, CallsAsk, callVars, sizeVars
<1> QED
    BY <1>2, <1>3, <1>4, <1>5 DEF CallsPart, ThreadsInv

LEMMA DestroyingKeeps ==
    ASSUME CallsPart, NEW t \in Users, DestroyStep(t)
    PROVE  CallsPart'
<1>0. t \in Callers
    BY CallersAre
<1>1. CASE DestroyUnconnected(t)
    BY <1>1, CallsRest DEF DestroyUnconnected, CallsPart, CallsTypeOK, callVars, userVars
<1>2. CASE BeginDestroy(t)
    BY <1>2, DestroyerGoes DEF BeginDestroy, NoOtherCall, Holds, collectorVars, userVars
<1>3. CASE EndDestroy(t)
    <2>1. user = "stopped" /\ \A u \in Callers : call[u] = "idle" \/ Destroys(u)
        BY <1>3 DEF EndDestroy, CallsPart, ThreadsInv, EndsStopped, Destroys
    <2> QED
        BY <1>3, <2>1, DestroyerGoes DEF EndDestroy, lockVars, collectorVars, userVars
<1> QED
    BY <1>1, <1>2, <1>3, TearingKeeps DEF DestroyStep

LEMMA CallKeeps ==
    ASSUME CallsPart, NEW t \in Callers, CallStep(t)
    PROVE  CallsPart'
BY SendKeeps, RegisterKeeps, ConnectingKeeps DEF CallStep

-----------------------------------------------------------------------------
(* The services, the collector's threads, and the theorems *)

LEMMA AnswerKeeps ==
    ASSUME CallsPart, NEW s \in Services, AnswerMessage(s)
    PROVE  CallsPart'
<1>1. PICK i \in DOMAIN queued[s] :
          /\ queued' = [queued EXCEPT ![s] = RemoveAt(@, i)]
          /\ responses' = IF s \in registered THEN [responses EXCEPT ![s] = @ + 1] ELSE responses
          /\ UNCHANGED <<collectorVars, callVars, messages_cache_size, cache_size, registered,
                         is_running, dispatching, teardownVars, lockVars>>
    BY DEF AnswerMessage
<1>2. queued \in [Services -> Seq(Nat)] /\ cache_size \in [Services -> Nat]
      /\ responses \in [Services -> Nat]
    BY DEF CallsPart, CallsTypeOK
<1>3. queued[s] \in Seq(Nat) /\ i \in 1..Len(queued[s])
    BY <1>2, LenProperties
<1>4. RemoveAt(queued[s], i) \in Seq(Nat) /\ Total(RemoveAt(queued[s], i)) <= Total(queued[s])
    BY <1>3, TotalRemove
<1>5. Total(queued[s]) \in Nat /\ Total(RemoveAt(queued[s], i)) \in Nat
    <2>1. \A q \in Seq(Nat) : Total(q) \in Nat
        BY SumsExist, TotalIs
    <2> QED
        BY <1>3, <1>4, <2>1
<1>6. /\ queued'[s] = RemoveAt(queued[s], i)
      /\ \A r \in Services : r # s => queued'[r] = queued[r]
      /\ queued' \in [Services -> Seq(Nat)]
    BY <1>1, <1>2, <1>4
<1>7. /\ responses' \in [Services -> Nat]
      /\ \A r \in Services : responses[r] > 0 => responses'[r] > 0
    <2>1. CASE s \in registered
        BY <1>1, <1>2, <2>1
    <2>2. CASE s \notin registered
        BY <1>1, <1>2, <2>2
    <2> QED
        BY <2>1, <2>2
<1>8. CallsTypeOK'
    BY <1>1, <1>6, <1>7 DEF CallsPart, CallsTypeOK, callVars, lockVars, teardownVars
<1>9. ThreadsInv'
    BY <1>1, <1>7 DEF CallsPart, ThreadsInv, MutexIsHeld, CallbacksCall, CallbacksAnswer,
       EndsStopped, TornDown, Destroys, callVars, lockVars, teardownVars, collectorVars, userVars
<1>10. SizesInv'
    <2>1. \A r \in Services : Total(queued'[r]) <= cache_size[r]
        <3>1. Total(queued[s]) <= cache_size[s] /\ cache_size[s] \in Nat
            BY <1>2 DEF CallsPart, SizesInv
        <3>2. Total(queued'[s]) <= cache_size[s]
            BY <1>4, <1>5, <1>6, <3>1
        <3> QED
            BY <1>6, <3>2 DEF CallsPart, SizesInv
    <2> QED
        BY <1>1, <2>1 DEF CallsPart, SizesInv, Accounted, RoutesFit, CallsAsk, callVars
<1> QED
    BY <1>8, <1>9, <1>10 DEF CallsPart

LEMMA DispatchKeeps ==
    ASSUME CallsPart, NEW s \in Services,
           BeginCallback(s) \/ EndCallback(s) \/ EndDispatch(s)
    PROVE  CallsPart'
<1>0. \A n \in Nat : n > 0 => n - 1 \in Nat
    OBVIOUS
<1> USE DEF BeginCallback, EndCallback, EndDispatch
<1>1. UNCHANGED <<collectorVars, callVars, sizeVars, registered, is_running, teardownVars,
                  client_mutex>>
    BY DEF lockVars
<1>2. s # None
    BY CallersAre
<1>3. SizesInv'
    BY <1>1 DEF CallsPart, SizesInv, Accounted, RoutesFit, CallsAsk, callVars, sizeVars
<1>4. /\ responses' \in [Services -> Nat]
      /\ dispatching' \in [Services -> {"loop", "callback", "ended"}]
      /\ service_mutex' \in [Services -> Services \union {None}]
      /\ \A r \in Services : service_mutex'[r] = IF dispatching'[r] = "callback" THEN r ELSE None
      /\ CallbacksAnswer'
    <2> USE DEF CallsPart, CallsTypeOK, ThreadsInv, MutexIsHeld, CallbacksAnswer
    <2>1. CASE BeginCallback(s)
        BY <2>1
    <2>2. CASE EndCallback(s)
        <3>1. responses[s] \in Nat /\ responses[s] > 0
            BY <2>2
        <3>2. responses[s] - 1 \in Nat
            BY <1>0, <3>1, Zenon
        <3>3. /\ responses' = [responses EXCEPT ![s] = @ - 1]
              /\ service_mutex' = [service_mutex EXCEPT ![s] = None]
              /\ dispatching' = [dispatching EXCEPT ![s] = "loop"]
            BY <2>2
        <3>4. /\ responses' \in [Services -> Nat]
              /\ \A r \in Services : r # s => responses'[r] = responses[r]
            BY <3>2, <3>3
        <3>5. /\ service_mutex' \in [Services -> Services \union {None}]
              /\ dispatching' \in [Services -> {"loop", "callback", "ended"}]
              /\ \A r \in Services : r # s =>
                    service_mutex'[r] = service_mutex[r] /\ dispatching'[r] = dispatching[r]
              /\ service_mutex'[s] = None /\ dispatching'[s] = "loop"
            BY <3>3
        <3>6. \A r \in Services :
                  /\ service_mutex[r] = IF dispatching[r] = "callback" THEN r ELSE None
                  /\ dispatching[r] = "callback" => responses[r] > 0
            OBVIOUS
        <3> HIDE DEF CallsPart, CallsTypeOK, ThreadsInv, MutexIsHeld, BeginCallback, EndCallback,
                     EndDispatch
        <3> QED
            BY <3>4, <3>5, <3>6
    <2>3. CASE EndDispatch(s)
        BY <2>3 DEF lockVars
    <2> QED
        BY <2>1, <2>2, <2>3
<1>5. CallsTypeOK'
    BY <1>1, <1>4 DEF CallsPart, CallsTypeOK, callVars, sizeVars, teardownVars
<1>6. MutexIsHeld' /\ CallbacksAnswer'
    BY <1>1, <1>4 DEF CallsPart, ThreadsInv, MutexIsHeld, callVars
<1>7. CallbacksCall'
    BY <1>1 DEF CallsPart, ThreadsInv, CallbacksCall, CallsTypeOK, callVars
<1>8. EndsStopped' /\ TornDown'
    <2>1. \A r \in Services : dispatching[r] = "ended" => dispatching'[r] = "ended"
        BY DEF CallsPart, CallsTypeOK
    <2> QED
        BY <1>1, <2>1 DEF CallsPart, CallsTypeOK, ThreadsInv, EndsStopped, TornDown, Destroys,
           callVars, collectorVars, userVars, teardownVars
<1> QED
    BY <1>3, <1>5, <1>6, <1>7, <1>8 DEF CallsPart, ThreadsInv

LEMMA ServiceKeeps ==
    ASSUME CallsPart, NEW s \in Services, ServiceStep(s)
    PROVE  CallsPart'
<1>1. CASE AnswerTooLate(s)
    <2>1. freed' \in BOOLEAN
        BY <1>1, Zenon DEF AnswerTooLate
    <2> QED
        BY <1>1, <2>1, CallsRest
        DEF AnswerTooLate, CallsPart, CallsTypeOK, collectorVars, userVars
<1> QED
    BY <1>1, CallersAre, AnswerKeeps, DispatchKeeps, CallKeeps DEF ServiceStep

\* What the threads of the collector do, with the services' mutex or without, and the hosts.
LEMMA ThreadsKeep ==
    ASSUME ClientInv,
           (\E s \in Services : FetcherRuns(s)) \/ PingerRuns \/ HostsChange
    PROVE  ClientInv'
<1>1. CollectorStep /\ UNCHANGED <<callVars, sizeVars, dispatchVars, lockVars>>
    <2>1. Refreshers = Services \union {Pinger}
        BY CollectorConstants
    <2> QED
        BY <2>1 DEF FetcherRuns, PingerRuns, HostsChange, CollectorStep, CallBack
<1>2. CollectorPart'
    BY <1>1, CollectorGoesOn DEF ClientInv
<1>3. UNCHANGED userVars
    BY <1>1, CollectorStepIs DEF ClientInv, CollectorPart, StopInv
<1>4. CallsPart'
    BY <1>1, <1>3, CallsRest DEF ClientInv, CallsPart, CallsTypeOK, callVars, userVars
<1> QED
    BY <1>2, <1>4 DEF ClientInv

\* What becomes of the collector when the user's threads and the services' go on: they set
\* up a new one, run or stop the one there is, or leave it alone.
LEMMA CallsCollector ==
    ASSUME NEW t, CallStep(t)
    PROVE  UNCHANGED collectorVars \/ NewCollector(t) \/ UserStep
<1>1. CASE SendStep(t) \/ RegisterStep(t)
    BY <1>1 DEF SendStep, BeginSend, RefuseMessage, AcceptMessage, RouteMessage, AccountMessage,
       RegisterStep, SetResponseCallback, RegisterCallback
<1>2. CASE ConnectOrDisconnect(t)
    BY <1>2 DEF ConnectOrDisconnect, BeginConnect, EnterConnect, ConnectStep, EndConnect,
       BeginDisconnect, EnterDisconnect, DisconnectStep, EndDisconnect, UserStep
<1> QED
    BY <1>1, <1>2 DEF CallStep

LEMMA CollectorKeeps ==
    ASSUME CollectorPart,
           (\E t \in Users : UserThread(t)) \/ (\E s \in Services : ServiceStep(s))
    PROVE  CollectorPart'
<1>1. ASSUME UNCHANGED collectorVars
      PROVE  CollectorPart'
    BY <1>1, CollectorRests DEF collectorVars, CollectorPart, CollectorTypeOK
<1>2. ASSUME NEW t, CallStep(t)
      PROVE  CollectorPart'
    BY <1>1, <1>2, CallsCollector, NewCollectorIs, CollectorGoesOn
<1>3. ASSUME NEW s \in Services, ServiceStep(s)
      PROVE  CollectorPart'
    BY <1>1, <1>2, <1>3
    DEF ServiceStep, AnswerMessage, AnswerTooLate, BeginCallback, EndCallback, EndDispatch
<1>4. ASSUME NEW t \in Users, DestroyStep(t)
      PROVE  CollectorPart'
    <2>1. CASE DestroyUnconnected(t)
        <3>1. crashed' \in BOOLEAN
            BY <2>1, Zenon DEF DestroyUnconnected
        <3> QED
            BY <2>1, <3>1, CollectorRests DEF DestroyUnconnected
    <2>2. CASE ~DestroyUnconnected(t)
        BY <1>1, <1>4, <2>2
        DEF DestroyStep, BeginDestroy, EndDestroy, StopService, DestroyMembers, JoinHandles
    <2> QED
        BY <2>1, <2>2
<1> QED
    BY <1>2, <1>3, <1>4 DEF UserThread

LEMMA ClientInvStarts == ClientInit => ClientInv
<1> SUFFICES ASSUME ClientInit
             PROVE  ClientInv
    OBVIOUS
<1>1. CollectorPart
    BY UserInvStarts, CollectorInvStarts
    DEF ClientInit, CollectorPart, UserInv, CollectorInv
<1>2. CallsTypeOK
    <2>1. MaxSends \in Nat /\ MaxConnects \in Nat
        BY ClientConstants
    <2>2. made \in BOOLEAN /\ freed \in BOOLEAN
        BY Zenon DEF ClientInit
    <2>3. queued \in [Services -> Seq(Nat)]
        BY EmptySeq DEF ClientInit
    <2> QED
        BY <2>1, <2>2, <2>3 DEF ClientInit, CallsTypeOK
<1>3. SizesInv
    <2>1. Sum(cache_size) = 0 /\ Capacity \in Nat
        BY SumOfNone, ClientConstants DEF ClientInit
    <2>2. \A s \in Services : Total(queued[s]) <= cache_size[s]
        BY TotalOfNone DEF ClientInit
    <2> QED
        BY <2>1, <2>2 DEF ClientInit, SizesInv, Accounted, RoutesFit, CallsAsk
<1>4. ThreadsInv
    BY CallersAre DEF ClientInit, ThreadsInv, MutexIsHeld, CallbacksCall, CallbacksAnswer,
       EndsStopped, TornDown, Destroys, Inside, Callers
<1> QED
    BY <1>1, <1>2, <1>3, <1>4 DEF ClientInv, CallsPart

LEMMA ClientInvAlways == ClientSpec => []ClientInv
<1>1. ClientInv /\ [ClientNext]_clientVars => ClientInv'
    <2>1. ASSUME ClientInv, NEW t \in Users, UserThread(t)
          PROVE  ClientInv'
        <3>1. CollectorPart'
            BY <2>1, CollectorKeeps DEF ClientInv
        <3>2. CallsPart'
            BY <2>1, CallersAre, CallKeeps, DestroyingKeeps DEF UserThread, ClientInv
        <3> QED
            BY <3>1, <3>2 DEF ClientInv
    <2>2. ASSUME ClientInv, NEW s \in Services, ServiceStep(s)
          PROVE  ClientInv'
        <3>1. CollectorPart'
            BY <2>2, CollectorKeeps DEF ClientInv
        <3>2. CallsPart'
            BY <2>2, ServiceKeeps DEF ClientInv
        <3> QED
            BY <3>1, <3>2 DEF ClientInv
    <2>3. ASSUME ClientInv, UNCHANGED clientVars
          PROVE  ClientInv'
        <3>1. CollectorPart'
            BY <2>3, CollectorRests
            DEF clientVars, collectorVars, ClientInv, CollectorPart, CollectorTypeOK
        <3>2. CallsPart'
            BY <2>3, CallsRest DEF clientVars, collectorVars, userVars, callVars,
               ClientInv, CallsPart, CallsTypeOK
        <3> QED
            BY <3>1, <3>2 DEF ClientInv
    <2> QED
        BY <2>1, <2>2, <2>3, ThreadsKeep DEF ClientNext
<1> QED
    BY <1>1, ClientInvStarts, PTL DEF ClientSpec

\* The types of the client's state, with those of its collector (client_impl.cpp:33-243).
THEOREM ClientTyped == ClientSpec => []ClientTypeOK
<1>1. ClientInv => ClientTypeOK
    BY DEF ClientInv, CollectorPart, CallsPart, ClientTypeOK
<1> QED
    BY <1>1, ClientInvAlways, PTL

\* The messages of all services stay within the configured cache, and the client's figure
\* is the sum of the services' whenever nobody holds its mutex, for any number of threads,
\* services and callbacks that send (client_impl.cpp:150-203, 276-293).
THEOREM CacheWithinCapacity == ClientSpec => []WithinCapacity
<1>1. ASSUME ClientInv
      PROVE  WithinCapacity
    <2>1. client_mutex = None => \A t \in Callers : call[t] # "account"
        BY <1>1, CallersAre DEF ClientInv, CallsPart, ThreadsInv, MutexIsHeld, Inside
    <2> QED
        BY <1>1, <2>1 DEF ClientInv, CallsPart, SizesInv, Accounted, WithinCapacity
<1> QED
    BY <1>1, ClientInvAlways, PTL

\* When the mutex and the queues of a service are destroyed, no thread of the collector, no
\* call and not the service's response thread is left that could use them; the threads of its
\* handles may be, until their own destructors, which come after (client_impl.cpp:49-53,
\* service.hpp:122-171).
THEOREM DestroyedStaysQuiet == ClientSpec => []DestroyedIsQuiet
<1>1. ASSUME ClientInv
      PROVE  DestroyedIsQuiet
    <2>1. ASSUME NEW s \in torn
          PROVE  /\ service_mutex[s] = None /\ dispatching[s] = "ended"
                 /\ \A r \in Refreshers : Joinable(r)
                 /\ \A t \in Callers : call[t] \in {"idle", "destroy", "destroyed"}
        <3>1. s \in Services /\ dispatching[s] = "ended" /\ \E t \in Users : Destroys(t)
            BY <1>1 DEF ClientInv, CallsPart, CallsTypeOK, ThreadsInv, TornDown
        <3>2. service_mutex[s] = None
            BY <1>1, <3>1 DEF ClientInv, CallsPart, ThreadsInv, MutexIsHeld
        <3>3. user = "stopped" /\ \A t \in Callers : call[t] = "idle" \/ Destroys(t)
            BY <1>1, <3>1 DEF ClientInv, CallsPart, ThreadsInv, EndsStopped
        <3>4. \A r \in Refreshers : Joinable(r)
            BY <1>1, <3>3 DEF ClientInv, CollectorPart, StopInv, StoppedIsQuiet
        <3> QED
            BY <3>1, <3>2, <3>3, <3>4 DEF Destroys
    <2>2. (\E t \in Users : call[t] = "destroyed") => torn = Services /\ working = {}
        BY <1>1 DEF ClientInv, CallsPart, CallsTypeOK, ThreadsInv, TornDown
    <2> QED
        BY <2>1, <2>2 DEF DestroyedIsQuiet
<1> QED
    BY <1>1, ClientInvAlways, PTL

-----------------------------------------------------------------------------
(* Who waits for whom *)

\* The collector's mutex has the user while run() and stop() go on, and the pinger while it
\* asks the hosts of one service and calls back; the pinger is what run() starts last.
LocksInv ==
    /\ mutex = User <=> user \in {"run", "bind", "stop", "join"}
    /\ mutex = Pinger <=> ping = "ask"
    /\ ping # "snapshot" => At(Pinger, "call")
    /\ user \in {"new", "set", "run", "bind"} => thread[Pinger] = "none"

WaitInv == ClientInv /\ LocksInv

LEMMA ThreadsDiffer ==
    /\ Pinger \in Refreshers /\ Pinger \notin Services /\ Services \subseteq Refreshers
    /\ User # Pinger /\ None # User /\ None # Pinger
BY CollectorConstants

LEMMA LocksByUser ==
    ASSUME CollectorPart, LocksInv, UserStep
    PROVE  LocksInv'
<1> USE ThreadsDiffer DEF LocksInv, At, refresherVars, pingVars
<1>0. thread \in [Refreshers -> Places]
    BY DEF CollectorPart, StopInv, UserOK
<1>1. CASE SetCallback
    BY <1>1 DEF SetCallback
<1>2. CASE BeginRun
    BY <1>2 DEF BeginRun, Free
<1>3. CASE RunFetcher
    <2>1. ServiceOrder[at] \in Services
        BY <1>3, OwnedIs DEF RunFetcher, CollectorPart, StopInv, UserOK
    <2> QED
        BY <1>0, <1>3, <2>1 DEF RunFetcher, StartRefresher
<1>4. CASE BindFetcher
    BY <1>4 DEF BindFetcher
<1>5. CASE RunPinger
    BY <1>0, <1>5 DEF RunPinger, StartRefresher
<1>6. CASE BeginStop
    BY <1>6 DEF BeginStop, Free
<1>7. CASE StopRefresher
    BY <1>7 DEF StopRefresher, RaiseFlag
<1>8. CASE JoinRefresher
    BY <1>8 DEF JoinRefresher
<1>9. CASE EndStop
    BY <1>9 DEF EndStop
<1> QED
    BY <1>1, <1>2, <1>3, <1>4, <1>5, <1>6, <1>7, <1>8, <1>9 DEF UserStep

LEMMA LocksByThreads ==
    ASSUME CollectorPart, LocksInv, CollectorStep
    PROVE  LocksInv'
<1> USE ThreadsDiffer DEF LocksInv, At, Goto
<1>0. thread \in [Refreshers -> Places] /\ UNCHANGED user
    BY CollectorStepIs DEF CollectorPart, StopInv, UserOK, userVars
<1>1. ASSUME NEW s \in Services, FetchStep(s)
      PROVE  LocksInv'
    <2>1. UNCHANGED <<mutex, ping>> /\ thread'[Pinger] = thread[Pinger]
        BY <1>0, <1>1 DEF FetchStep, FetchFails, FetchList, CallEmpty, hosts_callback, Return,
           refresherVars, pingVars
    <2> QED
        BY <1>0, <2>1
<1>2. ASSUME NEW r \in Refreshers, RefresherRuns(r)
      PROVE  LocksInv'
    <2>1. /\ UNCHANGED <<mutex, ping>>
          /\ thread'[Pinger] = thread[Pinger] \/ thread[Pinger] \notin {"none", "call"}
        BY <1>0, <1>2 DEF RefresherRuns, RefresherStep, Call, TestFlag, Sleep, Wake, pingVars,
           Places
    <2>2. thread[Pinger] = "none" => thread'[Pinger] = "none"
        BY <2>1
    <2>3. ping # "snapshot" => thread'[Pinger] = "call"
        BY <2>1
    <2> QED
        BY <1>0, <2>1, <2>2, <2>3
<1>3. CASE PingStep
    <2>1. CASE TakeRound
        BY <1>0, <2>1 DEF TakeRound, InPing, refresherVars, Free
    <2>2. CASE EndRound
        BY <1>0, <2>2 DEF EndRound, InPing, Return
    <2>3. CASE SkipService
        BY <1>0, <2>3 DEF SkipService, refresherVars
    <2>4. CASE BeginPing
        BY <1>0, <2>4 DEF BeginPing, InPing, refresherVars, Free
    <2>5. CASE AskHost
        BY <1>0, <2>5 DEF AskHost, refresherVars
    <2> QED
        BY <1>3, <2>1, <2>2, <2>3, <2>4, <2>5 DEF PingStep
<1>4. CASE CallBack
    <2>1. CASE Report
        BY <1>0, <2>1 DEF Report, Reports, InPing, refresherVars
    <2>2. CASE ReportThrows
        BY <1>0, <2>2 DEF ReportThrows, Reports, InPing, Return
    <2> QED
        BY <1>4, <2>1, <2>2 DEF CallBack
<1>5. CASE WorldChanges
    BY <1>0, <1>5 DEF WorldChanges, refresherVars, pingVars
<1> QED
    BY <1>1, <1>2, <1>3, <1>4, <1>5 DEF CollectorStep

LEMMA LocksRest ==
    ASSUME LocksInv, UNCHANGED <<mutex, user, ping, thread>>
    PROVE  LocksInv'
BY DEF LocksInv, At

LEMMA WaitInvAlways == ClientSpec => []WaitInv
<1>1. ClientInit => LocksInv
    BY CollectorConstants
    DEF ClientInit, CollectorInit, RefresherInit, LocksInv, At
<1>2. WaitInv /\ ClientInv' /\ [ClientNext]_clientVars => WaitInv'
    <2> SUFFICES ASSUME WaitInv, ClientInv', [ClientNext]_clientVars
                 PROVE  LocksInv'
        BY DEF WaitInv
    <2>0. CollectorPart /\ LocksInv
        BY DEF WaitInv, ClientInv
    <2>r. ASSUME UNCHANGED collectorVars
          PROVE  LocksInv'
        BY <2>0, <2>r, LocksRest DEF collectorVars, userVars, pingVars, refresherVars
    <2>1. ASSUME NEW t, CallStep(t)
          PROVE  LocksInv'
        <3>1. CASE NewCollector(t)
            <4>1. /\ user \in {"new", "running", "stopped"} /\ UNCHANGED <<mutex, ping>>
                  /\ \/ /\ user' = "new" /\ thread' = [r \in Refreshers |-> "none"]
                        /\ \A r \in Refreshers : Joinable(r)
                     \/ UNCHANGED <<user, thread>>
                BY <3>1 DEF NewCollector, userVars, refresherVars, pingVars
            <4> QED
                BY <2>0, <4>1, ThreadsDiffer DEF LocksInv, At, Joinable
        <3> QED
            BY <2>0, <2>r, <2>1, <3>1, CallsCollector, LocksByUser
    <2>2. ASSUME NEW t \in Users, DestroyStep(t)
          PROVE  LocksInv'
        BY <2>0, <2>2, LocksRest
        DEF DestroyStep, DestroyUnconnected, BeginDestroy, EndDestroy, StopService, DestroyMembers,
            JoinHandles, collectorVars, userVars, pingVars, refresherVars
    <2>3. ASSUME NEW s \in Services, ServiceStep(s)
          PROVE  LocksInv'
        BY <2>r, <2>1, <2>3
        DEF ServiceStep, AnswerMessage, AnswerTooLate, BeginCallback, EndCallback, EndDispatch
    <2>4. CASE (\E s \in Services : FetcherRuns(s)) \/ PingerRuns \/ HostsChange
        <3>1. CollectorStep
            BY <2>4, ThreadsDiffer
            DEF FetcherRuns, PingerRuns, HostsChange, CollectorStep, CallBack
        <3> QED
            BY <2>0, <3>1, LocksByThreads
    <2>5. CASE UNCHANGED clientVars
        BY <2>r, <2>5 DEF clientVars
    <2> QED
        BY <2>1, <2>2, <2>3, <2>4, <2>5 DEF ClientNext, UserThread
<1>3. WaitInv <=> ClientInv /\ LocksInv
    BY DEF WaitInv
<1> QED
    BY <1>1, <1>2, <1>3, ClientInvAlways, PTL DEF ClientSpec

-----------------------------------------------------------------------------
(* Circles *)

\* C has, of each of its threads, one that thread waits for.
Closed(C) == C \subseteq Threads /\ \A x \in C : \E y \in C : WaitsFor(x, y)
\* the services whose response threads are in it
Served(C) == {s \in Services : <<"caller", s>> \in C}

LEMMA ThreadsWait ==
    ASSUME NEW C, Closed(C)
    PROVE  /\ \A t : <<"caller", t>> \in C => t \in Callers /\ \E y \in C : CallerWaits(t, y)
           /\ \A r : <<"refresher", r>> \in C => r \in Refreshers /\ \E y \in C : RefresherWaits(r, y)
           /\ \A x \in C : (\E t : x = <<"caller", t>>) \/ \E r : x = <<"refresher", r>>
<1>1. "caller" # "refresher"
    OBVIOUS
<1>2. ASSUME NEW t, <<"caller", t>> \in C
      PROVE  t \in Callers /\ \E y \in C : CallerWaits(t, y)
    <2>1. PICK y \in C : WaitsFor(<<"caller", t>>, y)
        BY <1>2 DEF Closed
    <2> QED
        BY <1>1, <2>1 DEF WaitsFor
<1>3. ASSUME NEW r, <<"refresher", r>> \in C
      PROVE  r \in Refreshers /\ \E y \in C : RefresherWaits(r, y)
    <2>1. PICK y \in C : WaitsFor(<<"refresher", r>>, y)
        BY <1>3 DEF Closed
    <2> QED
        BY <1>1, <2>1 DEF WaitsFor
<1>4. ASSUME NEW x \in C
      PROVE  (\E t : x = <<"caller", t>>) \/ \E r : x = <<"refresher", r>>
    BY DEF Closed, Threads
<1> QED
    BY <1>2, <1>3, <1>4

\* The pinger, when it waits for a service, has the collector's mutex.
LEMMA ReportsHolds ==
    ASSUME WaitInv, Reports
    PROVE  mutex = Pinger /\ Target \in Services
<1>1. mutex = Pinger
    BY DEF Reports, InPing, WaitInv, LocksInv
<1>2. turn \in 1..Count
    BY DEF Reports, InPing, WaitInv, ClientInv, CollectorPart, HearingInv, AsksOfAList,
       CollectorTypeOK
<1> QED
    BY <1>1, <1>2, OwnedIs DEF Target

\* Who holds a service's mutex is that service's own callback.
LEMMA ServiceMutexIs ==
    ASSUME WaitInv, NEW s \in Services, NEW C, Closed(C), <<"caller", service_mutex[s]>> \in C
    PROVE  s \in Served(C)
<1>1. service_mutex[s] \in Callers
    BY ThreadsWait
<1> QED
    BY <1>1, CallersAre DEF WaitInv, ClientInv, CallsPart, ThreadsInv, MutexIsHeld, Served

\* A pinger that has the collector's mutex, and waits, waits for a callback.
LEMMA PingerWaits ==
    ASSUME WaitInv, NEW C, Closed(C), mutex # User, <<"refresher", mutex>> \in C
    PROVE  Reports /\ Target \in Served(C)
<1>1. mutex = Pinger
    <2>1. mutex \in Refreshers /\ mutex \in {None, User, Pinger}
        BY ThreadsWait DEF WaitInv, ClientInv, CollectorPart, CollectorTypeOK
    <2> QED
        BY <2>1, CollectorConstants
<1>2. PICK z \in C : RefresherWaits(Pinger, z)
    BY <1>1, ThreadsWait
<1>3. ~WaitsForMutex(Pinger)
    <2>1. Pinger \notin bound
        BY ThreadsDiffer DEF WaitInv, ClientInv, CollectorPart, StopInv, UserOK
    <2> QED
        BY <1>1, <2>1 DEF WaitInv, LocksInv, WaitsForMutex
<1>4. Reports /\ <<"caller", service_mutex[Target]>> \in C
    BY <1>2, <1>3 DEF RefresherWaits
<1>5. PICK s \in Services : s = Target
    BY <1>4, ReportsHolds
<1> QED
    BY <1>4, <1>5, ServiceMutexIs

\* The caller that has the client's mutex, and waits, needs the mutex of a callback.
LEMMA HolderNeeds ==
    ASSUME WaitInv, ~StopDeadlocked, NEW C, Closed(C), NEW t, <<"caller", t>> \in C,
           client_mutex = t
    PROVE  \E r \in Served(C) : Needs(t, r)
<1>1. t \in Callers
    BY ThreadsWait
<1>2. PICK y \in C : CallerWaits(t, y)
    BY ThreadsWait
<1>3. call[t] \in Inside
    BY <1>1 DEF WaitInv, ClientInv, CallsPart, ThreadsInv, MutexIsHeld
<1>4. mutex \in {None, User, Pinger}
    BY DEF WaitInv, ClientInv, CollectorPart, CollectorTypeOK
<1>5. ~(call[t] = "connect" /\ user \in {"new", "set"} /\ ~Free)
    BY <1>4 DEF WaitInv, LocksInv, Free, At
<1>6. ASSUME call[t] = "route", y = <<"caller", service_mutex[arg[t].service]>>
      PROVE  \E r \in Served(C) : Needs(t, r)
    <2>1. PICK r \in Services : r = arg[t].service
        BY <1>1, <1>6 DEF WaitInv, ClientInv, CallsPart, SizesInv, RoutesFit
    <2>2. r \in Served(C)
        BY <1>2, <1>6, <2>1, ServiceMutexIs
    <2> QED
        BY <1>6, <2>1, <2>2 DEF Needs
<1>7. ASSUME call[t] = "disconnect", user = "running", ~Free, y = <<"refresher", mutex>>
      PROVE  \E r \in Served(C) : Needs(t, r)
    <2>1. mutex # User
        BY <1>7 DEF WaitInv, LocksInv
    <2>2. Reports /\ Target \in Served(C)
        BY <1>2, <1>7, <2>1, PingerWaits
    <2> QED
        BY <1>7, <2>2 DEF Needs
<1>8. ~(user = "join" /\ y = <<"refresher", Owned[at]>>)
    <2> SUFFICES ASSUME user = "join", y = <<"refresher", Owned[at]>>
                 PROVE  FALSE
        OBVIOUS
    <2>1. PICK z \in C : RefresherWaits(Owned[at], z)
        BY <1>2, ThreadsWait
    <2>2. ~Reports
        <3>1. mutex = User
            BY DEF WaitInv, LocksInv
        <3> QED
            BY <3>1, ReportsHolds, ThreadsDiffer
    <2> QED
        BY <2>1, <2>2 DEF RefresherWaits, StopDeadlocked
<1> QED
    BY <1>2, <1>3, <1>5, <1>6, <1>7, <1>8 DEF CallerWaits, Inside, Waits

\* The client's mutex is waited for: its holder needs that of a callback.
LEMMA MutexNeeds ==
    ASSUME WaitInv, ~StopDeadlocked, NEW C, Closed(C), <<"caller", client_mutex>> \in C
    PROVE  \E r \in Served(C) : \E t \in Callers : client_mutex = t /\ Needs(t, r)
<1>1. PICK t \in Callers : client_mutex = t
    BY ThreadsWait
<1> QED
    BY <1>1, HolderNeeds

\* A call that waits for a mutex to register needs that of a callback.
LEMMA RegisterNeeds ==
    ASSUME WaitInv, NEW C, Closed(C), NEW t \in Callers, call[t] = "to register",
           <<"caller", service_mutex[arg[t].service]>> \in C
    PROVE  \E r \in Served(C) : Needs(t, r)
<1>1. PICK r \in Services : r = arg[t].service
    BY DEF WaitInv, ClientInv, CallsPart, SizesInv, CallsAsk
<1> QED
    BY <1>1, ServiceMutexIs DEF Needs

\* A callback in a closed set cannot go on before another in it, or itself.
LEMMA CallbackNeeds ==
    ASSUME WaitInv, ~StopDeadlocked, NEW C, Closed(C), NEW s \in Served(C)
    PROVE  dispatching[s] = "callback" /\ \E r \in Served(C) : NeedsCallback(s, r)
<1>1. s \in Services /\ s \in Callers /\ s \notin Users /\ <<"caller", s>> \in C
    BY CallersAre DEF Served
<1>2. PICK y \in C : CallerWaits(s, y)
    BY <1>1, ThreadsWait
<1>3. call[s] # "idle"
    BY <1>1, <1>2 DEF CallerWaits, Waits
<1>4. dispatching[s] = "callback"
    BY <1>1, <1>3 DEF WaitInv, ClientInv, CallsPart, ThreadsInv, CallbacksCall
<1>5. CASE call[s] \in Inside
    <2>1. client_mutex = s
        BY <1>1, <1>5 DEF WaitInv, ClientInv, CallsPart, ThreadsInv, MutexIsHeld
    <2> QED
        BY <1>1, <1>4, <2>1, HolderNeeds DEF NeedsCallback
<1>6. CASE call[s] \in Waits
    <2>1. <<"caller", client_mutex>> \in C
        BY <1>1, <1>2, <1>6 DEF CallerWaits, Waits
    <2> QED
        BY <1>4, <1>6, <2>1, MutexNeeds DEF NeedsCallback
<1>7. CASE call[s] = "to register"
    <2>1. <<"caller", service_mutex[arg[s].service]>> \in C
        BY <1>1, <1>2, <1>7 DEF CallerWaits, Waits
    <2> QED
        BY <1>1, <1>4, <1>7, <2>1, RegisterNeeds DEF NeedsCallback
<1> QED
    BY <1>1, <1>2, <1>5, <1>6, <1>7 DEF CallerWaits, Inside

\* A closed set has a callback in it.
LEMMA CallbackIsIn ==
    ASSUME WaitInv, ~StopDeadlocked, NEW C, Closed(C), C # {}
    PROVE  Served(C) # {}
<1>1. ASSUME NEW t, <<"caller", t>> \in C
      PROVE  Served(C) # {}
    <2>1. PICK y \in C : CallerWaits(t, y)
        BY <1>1, ThreadsWait
    <2>2. t \in Callers
        BY <1>1, ThreadsWait
    <2>3. CASE call[t] \in Inside
        <3>1. client_mutex = t
            BY <2>2, <2>3 DEF WaitInv, ClientInv, CallsPart, ThreadsInv, MutexIsHeld
        <3> QED
            BY <1>1, <3>1, HolderNeeds
    <2>4. CASE call[t] \in Waits
        <3>1. <<"caller", client_mutex>> \in C
            BY <2>1, <2>4 DEF CallerWaits, Waits
        <3> QED
            BY <3>1, MutexNeeds
    <2>5. CASE call[t] = "to register"
        <3>1. <<"caller", service_mutex[arg[t].service]>> \in C
            BY <2>1, <2>5 DEF CallerWaits, Waits
        <3> QED
            BY <2>2, <2>5, <3>1, RegisterNeeds
    <2>6. CASE call[t] = "destroy"
        BY <2>1, <2>6 DEF CallerWaits, Waits, Served
    <2> QED
        BY <2>1, <2>3, <2>4, <2>5, <2>6 DEF CallerWaits, Inside
<1>2. ASSUME NEW r, <<"refresher", r>> \in C
      PROVE  Served(C) # {}
    <2>1. PICK y \in C : RefresherWaits(r, y)
        BY <1>2, ThreadsWait
    <2>2. CASE y = <<"caller", client_mutex>>
        BY <1>1, <2>2
    <2>3. CASE mutex # User /\ y = <<"refresher", mutex>>
        BY <2>3, PingerWaits
    <2>4. CASE y = <<"caller", service_mutex[Target]>>
        BY <1>1, <2>4
    <2> QED
        BY <2>1, <2>2, <2>3, <2>4 DEF RefresherWaits
<1> QED
    BY <1>1, <1>2, ThreadsWait

\* Whatever calls callbacks make, threads wait for each other in a circle only where stop()
\* joins a thread that wants the mutex it holds, or where callbacks wait for each other: the
\* client has no other deadlock of its callers and its collector's threads, for any users and
\* services (client_impl.cpp:55-255, http_heartbeats_collector.cpp:35-75, 103-135,
\* service.hpp:176-206, 261-274).
THEOREM OnlyTwoCircles == ClientSpec => []NoOtherCircle
<1>1. ASSUME WaitInv
      PROVE  NoOtherCircle
    <2>1. ASSUME NEW C, Closed(C), C # {}, ~StopDeadlocked
          PROVE  CallbackDeadlocked
        <3>1. Served(C) \in SUBSET Services /\ Served(C) # {}
            BY <1>1, <2>1, CallbackIsIn DEF Served
        <3>2. \A s \in Served(C) :
                  dispatching[s] = "callback" /\ \E r \in Served(C) : NeedsCallback(s, r)
            BY <1>1, <2>1, CallbackNeeds
        <3> QED
            BY <3>1, <3>2 DEF CallbackDeadlocked
    <2> QED
        BY <2>1 DEF NoOtherCircle, Closed
<1> QED
    BY <1>1, WaitInvAlways, PTL
=============================================================================
