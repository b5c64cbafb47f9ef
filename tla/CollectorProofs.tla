-------------------------- MODULE CollectorProofs ---------------------------
(***************************************************************************)
(* Proofs about Collector: stop() leaves no thread behind, and a fetcher   *)
(* lacks its callback only while run() is between the two statements that  *)
(* start and bind it, for any services, hosts, lists and answers.          *)
(*                                                                         *)
(* The argument.  Only run() starts a thread; every other step moves one   *)
(* that is on its way (Going), so that a thread that has ended, or was     *)
(* never started, stays so (JoinedBefore), and a thread that runs was      *)
(* started by run(), which binds it before it starts the next one          *)
(* (StartedIsBound).  The hosts of a report were asked in the order of one *)
(* list, which a round keeps while it is asked (AsksOfAList, HeardSoFar):  *)
(* the hosts that answered so far are a part of those asked so far, and    *)
(* the handles collected are handles they gave.                            *)
(*                                                                         *)
(* What the loops of the code make of a sequence is proved by induction:   *)
(* a set of numbers with 0, and n + 1 with every n, has them all           *)
(* (FromZeroOn, which follows from the pigeonhole principle).              *)
(***************************************************************************)
EXTENDS Collector, SequenceTheorems, FiniteSetTheorems, TLAPS

\* The types the argument needs.
UserOK ==
    /\ thread \in [Refreshers -> Places]
    /\ bound \in SUBSET Services
    /\ at \in Nat \ {0}
    /\ user \in {"new", "set", "run", "bind", "running", "stop", "join", "stopped"}
    /\ user = "bind" => at <= Count
    /\ user = "join" => at <= Len(Owned)

\* stop() has joined the threads before the one it is at.
JoinedBefore ==
    user \in {"stop", "join"} => \A i \in 1..at - 1 : i <= Len(Owned) => Joinable(Owned[i])

\* A fetcher that was started has its callback, but for the one run() is about to bind.
StartedIsBound ==
    \A s \in Services : thread[s] # "none" /\ s \notin bound =>
        user = "bind" /\ s = ServiceOrder[at]

StopInv == UserOK /\ JoinedBefore /\ StoppedIsQuiet /\ StartedIsBound

UserInv == StopInv /\ UnboundOnlyInRun

\* At most one thread moves on, and it is neither one that has ended nor one that was
\* never started.
Going ==
    \/ thread' = thread
    \/ \E r \in Refreshers, place \in Places \ {"none"} :
        /\ ~Joinable(r)
        /\ thread' = [thread EXCEPT ![r] = place]

LEMMA OwnedIs ==
    /\ Count \in Nat /\ Len(Owned) = Count + 1
    /\ \A i \in 1..Count : ServiceOrder[i] \in Services
    /\ \A i \in 1..Len(Owned) : Owned[i] \in Refreshers
    /\ \A r \in Refreshers : \E i \in 1..Len(Owned) : Owned[i] = r
<1>1. /\ ServiceOrder \in Seq(Services) /\ Refreshers = Services \union {Pinger}
      /\ Range(ServiceOrder) = Services
    BY CollectorConstants
<1>2. Count \in Nat /\ DOMAIN ServiceOrder = 1..Count
    BY <1>1, LenProperties DEF Count
<1>3. <<Pinger>> \in Seq(Refreshers) /\ Len(<<Pinger>>) = 1 /\ <<Pinger>>[1] = Pinger
    BY <1>1
<1>4. \A i \in 1..Count : ServiceOrder[i] \in Services
    BY <1>1, <1>2, LenProperties DEF Count
<1>5. ServiceOrder \in Seq(Refreshers)
    BY <1>1
<1>6. Len(Owned) = Count + 1
    BY <1>2, <1>3, <1>5, ConcatProperties DEF Owned, Count
<1>7. \A i \in 1..Count : Owned[i] = ServiceOrder[i]
    BY <1>2, <1>3, <1>5, <1>6, ConcatProperties DEF Owned, Count
<1>8. Owned[Count + 1] = Pinger
    BY <1>2, <1>3, <1>5, <1>6, ConcatProperties DEF Owned, Count
<1>9. \A s \in Services : \E i \in 1..Count : ServiceOrder[i] = s
    BY <1>1, <1>2 DEF Range
<1> QED
    BY <1>1, <1>2, <1>4, <1>6, <1>7, <1>8, <1>9

\* The steps of the threads and of the world leave the user alone.
LEMMA CollectorStepIs ==
    ASSUME UserOK, CollectorStep
    PROVE  /\ UNCHANGED userVars
           /\ Going
           /\ \/ crashed' = crashed
              \/ \E s \in Services : At(s, "call") /\ s \notin bound
<1> USE DEF UserOK, Places, At, Goto, refresherVars
<1>1. ASSUME NEW s \in Services, FetchStep(s), ~CallEmpty(s)
      PROVE  UNCHANGED userVars /\ Going /\ crashed' = crashed
    <2>1. s \in Refreshers
        BY CollectorConstants
    <2>2. CASE FetchFails(s)
        BY <2>1, <2>2 DEF FetchFails, InFetch, Return, Going, Joinable
    <2>3. CASE FetchList(s)
        BY <2>3 DEF FetchList, Going
    <2>4. CASE hosts_callback(s)
        BY <2>1, <2>4 DEF hosts_callback, InFetch, Return, Going, Joinable
    <2> QED
        BY <1>1, <2>2, <2>3, <2>4 DEF FetchStep
<1>5. ASSUME NEW s \in Services, CallEmpty(s)
      PROVE  UNCHANGED userVars /\ Going /\ At(s, "call") /\ s \notin bound
    BY <1>5 DEF CallEmpty, InFetch, Going
<1>2. ASSUME PingStep \/ CallBack
      PROVE  UNCHANGED userVars /\ Going /\ crashed' = crashed
    <2>1. Pinger \in Refreshers
        BY CollectorConstants
    <2>2. CASE TakeRound \/ SkipService \/ BeginPing \/ AskHost \/ Report
        BY <2>2 DEF TakeRound, SkipService, BeginPing, AskHost, Report, Going
    <2>3. CASE EndRound
        BY <2>1, <2>3 DEF EndRound, Return, Going, Joinable
    <2>4. CASE ReportThrows
        BY <2>1, <2>4 DEF ReportThrows, Return, Going, Joinable
    <2> QED
        BY <1>2, <2>2, <2>3, <2>4 DEF PingStep, CallBack
<1>3. ASSUME NEW r \in Refreshers, RefresherRuns(r)
      PROVE  UNCHANGED userVars /\ Going /\ crashed' = crashed
    <2>1. CASE Call(r)
        BY <1>3, <2>1 DEF RefresherRuns, Call, Going, Joinable
    <2>2. CASE TestFlag(r)
        BY <1>3, <2>2 DEF RefresherRuns, TestFlag, Going, Joinable
    <2>3. CASE Sleep(r)
        BY <1>3, <2>3 DEF RefresherRuns, Sleep, Going, Joinable
    <2>4. CASE Wake(r)
        BY <1>3, <2>4 DEF RefresherRuns, Wake, Going, Joinable
    <2> QED
        BY <1>3, <2>1, <2>2, <2>3, <2>4 DEF RefresherRuns, RefresherStep
<1>4. ASSUME WorldChanges
      PROVE  UNCHANGED userVars /\ Going /\ crashed' = crashed
    BY <1>4 DEF WorldChanges, Going
<1> QED
    BY <1>1, <1>2, <1>3, <1>4, <1>5, Zenon DEF CollectorStep

\* Threads that go on: none begins, and none that has ended goes on.
LEMMA GoingIs ==
    ASSUME UserOK, Going
    PROVE  /\ thread' \in [Refreshers -> Places]
           /\ \A r \in Refreshers : Joinable(r) => Joinable(r)'
           /\ \A r \in Refreshers : thread[r] = "none" => thread'[r] = "none"
BY DEF UserOK, Going, Joinable, Places

\* The invariant, when the user does nothing.
LEMMA OthersKeep ==
    ASSUME StopInv, UNCHANGED userVars, Going
    PROVE  StopInv'
<1> USE DEF userVars
<1>1. UserOK'
    BY GoingIs DEF StopInv, UserOK
<1>2. \A r \in Refreshers : Joinable(r) => Joinable(r)'
    BY GoingIs DEF StopInv
<1>3. JoinedBefore'
    BY <1>2, OwnedIs DEF StopInv, UserOK, JoinedBefore
<1>4. StoppedIsQuiet'
    BY <1>2 DEF StopInv, StoppedIsQuiet
<1>5. StartedIsBound'
    <2>1. \A s \in Services : thread'[s] # "none" => thread[s] # "none"
        BY GoingIs, CollectorConstants DEF StopInv
    <2> QED
        BY <2>1 DEF StopInv, StartedIsBound
<1> QED
    BY <1>1, <1>3, <1>4, <1>5 DEF StopInv

\* The steps of the user.
LEMMA UserStepKeeps ==
    ASSUME StopInv, UserStep
    PROVE  StopInv' /\ crashed' = crashed
<1> USE DEF userVars, StopInv, UserOK
<1>0. crashed' = crashed
    BY DEF UserStep, SetCallback, BeginRun, RunFetcher, BindFetcher, RunPinger, BeginStop,
           StopRefresher, JoinRefresher, EndStop
<1>1. CASE SetCallback
    BY <1>1 DEF SetCallback, refresherVars, JoinedBefore, StoppedIsQuiet, StartedIsBound
<1>2. CASE BeginRun
    BY <1>2 DEF BeginRun, refresherVars, JoinedBefore, StoppedIsQuiet, StartedIsBound
<1>3. CASE RunFetcher
    <2>1. /\ user = "run" /\ at <= Count /\ user' = "bind"
          /\ thread' = [thread EXCEPT ![ServiceOrder[at]] = "start"]
          /\ UNCHANGED <<at, bound>>
        BY <1>3 DEF RunFetcher, StartRefresher
    <2>2. ServiceOrder[at] \in Refreshers
        BY <2>1, OwnedIs, CollectorConstants
    <2>3. UserOK'
        BY <2>1, <2>2 DEF Places
    <2>4. StartedIsBound'
        BY <2>1, <2>2, CollectorConstants DEF StartedIsBound
    <2> QED
        BY <1>0, <1>3, <2>1, <2>3, <2>4 DEF JoinedBefore, StoppedIsQuiet, RunFetcher
<1>4. CASE BindFetcher
    <2>1. /\ user = "bind" /\ at <= Count /\ user' = "run" /\ at' = at + 1
          /\ bound' = bound \union {ServiceOrder[at]} /\ UNCHANGED thread
        BY <1>4 DEF BindFetcher, refresherVars
    <2>2. UserOK'
        BY <2>1, OwnedIs
    <2>3. StartedIsBound'
        BY <2>1 DEF StartedIsBound
    <2> QED
        BY <1>0, <1>4, <2>1, <2>2, <2>3 DEF JoinedBefore, StoppedIsQuiet, BindFetcher
<1>5. CASE RunPinger
    <2>1. /\ user = "run" /\ user' = "running" /\ UNCHANGED <<at, bound>>
          /\ thread' = [thread EXCEPT ![Pinger] = "start"]
        BY <1>5 DEF RunPinger, StartRefresher
    <2>2. Pinger \in Refreshers /\ Pinger \notin Services
        BY CollectorConstants
    <2>3. UserOK'
        BY <2>1, <2>2 DEF Places
    <2>4. StartedIsBound'
        BY <2>1, <2>2, CollectorConstants DEF StartedIsBound
    <2> QED
        BY <1>0, <1>5, <2>1, <2>3, <2>4 DEF JoinedBefore, StoppedIsQuiet, RunPinger
<1>6. CASE BeginStop
    BY <1>6, <1>0 DEF BeginStop, refresherVars, JoinedBefore, StoppedIsQuiet, StartedIsBound
<1>7. CASE StopRefresher
    BY <1>7, <1>0 DEF StopRefresher, RaiseFlag, JoinedBefore, StoppedIsQuiet, StartedIsBound,
                    Joinable
<1>8. CASE JoinRefresher
    <2>1. /\ user = "join" /\ user' = "stop" /\ at' = at + 1 /\ Joinable(Owned[at])
          /\ UNCHANGED <<thread, bound>>
        BY <1>8 DEF JoinRefresher, refresherVars
    <2>2. JoinedBefore'
        <3>1. SUFFICES ASSUME NEW i \in 1..at, i <= Len(Owned)
                       PROVE  Joinable(Owned[i])'
            BY <2>1 DEF JoinedBefore
        <3>2. i = at \/ i \in 1..at - 1
            BY <3>1
        <3> QED
            BY <2>1, <3>1, <3>2 DEF JoinedBefore, Joinable
    <2>3. UserOK'
        BY <2>1
    <2>4. StartedIsBound' /\ StoppedIsQuiet'
        BY <2>1 DEF StartedIsBound, StoppedIsQuiet
    <2> QED
        BY <1>0, <1>8, <2>2, <2>3, <2>4 DEF JoinRefresher
<1>9. CASE EndStop
    <2>1. /\ user = "stop" /\ at > Len(Owned) /\ user' = "stopped"
          /\ UNCHANGED <<thread, bound, at>>
        BY <1>9 DEF EndStop, refresherVars
    <2>2. StoppedIsQuiet'
        <3>1. ASSUME NEW r \in Refreshers
              PROVE  Joinable(r)'
            <4>1. PICK i \in 1..Len(Owned) : Owned[i] = r
                BY OwnedIs
            <4>2. i \in 1..at - 1 /\ i <= Len(Owned)
                BY <2>1, <4>1, OwnedIs
            <4> QED
                BY <2>1, <4>1, <4>2 DEF JoinedBefore, Joinable
        <3> QED
            BY <3>1 DEF StoppedIsQuiet
    <2>3. UserOK'
        BY <2>1
    <2>4. StartedIsBound' /\ JoinedBefore'
        BY <2>1 DEF StartedIsBound, JoinedBefore
    <2> QED
        BY <1>0, <1>9, <2>2, <2>3, <2>4 DEF EndStop
<1> QED
    BY <1>0, <1>1, <1>2, <1>3, <1>4, <1>5, <1>6, <1>7, <1>8, <1>9 DEF UserStep

LEMMA UserInvStarts == CollectorInit => UserInv
<1>1. ASSUME CollectorInit
      PROVE  UserOK
    BY <1>1 DEF CollectorInit, RefresherInit, Places, UserOK
<1>2. ASSUME CollectorInit
      PROVE  JoinedBefore /\ StoppedIsQuiet /\ StartedIsBound /\ UnboundOnlyInRun
    <2>1. \A s \in Services : thread[s] = "none"
        BY <1>2, CollectorConstants DEF CollectorInit, RefresherInit
    <2>2. user = "new" /\ ~crashed
        BY <1>2 DEF CollectorInit
    <2> QED
        BY <2>1, <2>2 DEF JoinedBefore, StoppedIsQuiet, StartedIsBound, UnboundOnlyInRun
<1> QED
    BY <1>1, <1>2 DEF UserInv, StopInv

LEMMA UserInvAlways == CollectorSpec => []UserInv
<1>1. CollectorInit => UserInv
    BY UserInvStarts
<1>2. UserInv /\ [CollectorNext]_collectorVars => UserInv'
    <2>1. ASSUME UserInv, CollectorNext
          PROVE  UserInv'
        <3>1. CASE UserStep
            BY <2>1, <3>1, UserStepKeeps DEF CollectorNext, UserInv, UnboundOnlyInRun
        <3>2. CASE CollectorStep
            <4>1. StopInv'
                BY <2>1, <3>2, CollectorStepIs, OthersKeep DEF UserInv, StopInv
            <4>2. UnboundOnlyInRun'
                BY <2>1, <3>2, CollectorStepIs DEF CollectorNext, UserInv, StopInv,
                   StartedIsBound, UnboundOnlyInRun, At, userVars
            <4> QED
                BY <4>1, <4>2 DEF UserInv
        <3> QED
            BY <2>1, <3>1, <3>2 DEF CollectorNext
    <2>2. ASSUME UserInv, UNCHANGED collectorVars
          PROVE  UserInv'
        BY <2>2 DEF collectorVars, refresherVars, userVars, UserInv, StopInv, UserOK, JoinedBefore,
                    StoppedIsQuiet, StartedIsBound, UnboundOnlyInRun, Joinable
    <2> QED
        BY <2>1, <2>2
<1> QED
    BY <1>1, <1>2, PTL DEF CollectorSpec

\* When stop has returned no thread of the collector runs
\* (http_heartbeats_collector.cpp:60-72, refresher.cpp:28-32).
THEOREM StoppedStaysQuiet == CollectorSpec => []StoppedIsQuiet
<1>1. UserInv => StoppedIsQuiet
    BY DEF UserInv, StopInv
<1> QED
    BY <1>1, UserInvAlways, PTL

\* A fetcher lacks its callback in run() only (http_heartbeats_collector.cpp:47-51).
THEOREM OnlyRunUnbound == CollectorSpec => []UnboundOnlyInRun
<1>1. UserInv => UnboundOnlyInRun
    BY DEF UserInv
<1> QED
    BY <1>1, UserInvAlways, PTL

-----------------------------------------------------------------------------
(* What is heard of the hosts: the types of the collector's state, and its *)
(* reports.                                                                *)

\* Induction: what begins with 0 and has the successor of each of its elements is all
\* of Nat.  Were n left out, the successor would map those up to n one to one to
\* those of them that are not 0.
LEMMA FromZeroOn ==
    ASSUME NEW P \in SUBSET Nat, 0 \in P, \A n \in P : n + 1 \in P
    PROVE  P = Nat
<1>1. SUFFICES ASSUME NEW n \in Nat, n \notin P
               PROVE  FALSE
    OBVIOUS
<1> DEFINE A == P \cap (0..n)
           next == [m \in A |-> m + 1]
<1>2. IsFiniteSet(0..n)
    BY FS_Interval
<1>3. IsFiniteSet(A) /\ 0 \in A
    BY <1>2, FS_Subset
<1>4. IsFiniteSet(A \ {0}) /\ Cardinality(A \ {0}) < Cardinality(A)
    <2> HIDE DEF A
    <2>1. Cardinality(A) \in Nat
        BY <1>3, FS_CardinalityType
    <2>2. IsFiniteSet(A \ {0}) /\ Cardinality(A \ {0}) = Cardinality(A) - 1
        BY <1>3, FS_RemoveElement
    <2> QED
        BY <2>1, <2>2
<1>5. \A i \in A : i \in Nat /\ i + 1 \in A \ {0}
    BY <1>1
<1>6. next \in [A -> A \ {0}]
    BY <1>5
<1>7. \A m \in A : next[m] = m + 1
    OBVIOUS
<1> HIDE DEF A, next
<1>8. PICK i, j \in A : i # j /\ next[i] = next[j]
    BY <1>3, <1>4, <1>6, FS_PigeonHole
<1> QED
    BY <1>5, <1>7, <1>8

\* u[i] is what Keep keeps of the first i elements of q, up to n.
KeepsUp(q, K, S, u, n) ==
    /\ u \in [0..n -> Seq(S \cap K)]
    /\ u[0] = <<>>
    /\ \A i \in 1..n : u[i] = PushIf(K, u[i - 1], q[i])

LEMMA PushIfIs ==
    ASSUME NEW S, NEW K, NEW q \in Seq(S \cap K), NEW x \in S
    PROVE  /\ PushIf(K, q, x) \in Seq(S \cap K)
           /\ PushIf(K, q, x) = <<>> => q = <<>> /\ x \notin K
BY AppendProperties DEF PushIf

LEMMA KeptExists ==
    ASSUME NEW S, NEW q \in Seq(S), NEW K
    PROVE  \E u : KeepsUp(q, K, S, u, Len(q))
<1> DEFINE P == {n \in Nat : n <= Len(q) => \E u : KeepsUp(q, K, S, u, n)}
<1>0. Len(q) \in Nat /\ \A n \in 1..Len(q) : q[n] \in S
    BY LenProperties
<1>1. 0 \in P
    <2>1. KeepsUp(q, K, S, [n \in 0..0 |-> <<>>], 0)
        BY EmptySeq DEF KeepsUp
    <2> QED
        BY <2>1
<1>2. ASSUME NEW n \in P
      PROVE  n + 1 \in P
    <2>1. SUFFICES ASSUME n + 1 <= Len(q)
                   PROVE  \E u : KeepsUp(q, K, S, u, n + 1)
        OBVIOUS
    <2>2. PICK u : KeepsUp(q, K, S, u, n)
        BY <1>0, <2>1
    <2>3. n \in Nat /\ n + 1 \in 1..Len(q)
        BY <1>0, <2>1
    <2> DEFINE v == [i \in 0..n + 1 |-> IF i = n + 1 THEN PushIf(K, u[n], q[n + 1]) ELSE u[i]]
    <2>4. PushIf(K, u[n], q[n + 1]) \in Seq(S \cap K)
        <3>1. u[n] \in Seq(S \cap K) /\ q[n + 1] \in S
            BY <1>0, <2>2, <2>3 DEF KeepsUp
        <3> QED
            BY <3>1, PushIfIs
    <2>5. v \in [0..n + 1 -> Seq(S \cap K)] /\ v[0] = <<>>
        BY <2>2, <2>3, <2>4 DEF KeepsUp
    <2>6. ASSUME NEW i \in 1..n + 1
          PROVE  v[i] = PushIf(K, v[i - 1], q[i])
        <3>1. CASE i = n + 1
            BY <2>3, <3>1
        <3>2. CASE i \in 1..n
            BY <2>2, <2>3, <3>2 DEF KeepsUp
        <3> QED
            BY <2>3, <2>6, <3>1, <3>2
    <2> HIDE DEF v
    <2> QED
        BY <2>5, <2>6 DEF KeepsUp
<1>3. P = Nat
    <2> HIDE DEF P
    <2> QED
        BY <1>1, <1>2, FromZeroOn DEF P
<1> QED
    BY <1>0, <1>3

\* Keep keeps the elements that are in K; it keeps none only when there is none.
LEMMA KeepIs ==
    ASSUME NEW S, NEW q \in Seq(S), NEW K
    PROVE  /\ Keep(q, K) \in Seq(S \cap K)
           /\ Keep(q, K) = <<>> => \A i \in 1..Len(q) : q[i] \notin K
<1> DEFINE Step(w) == [n \in 0..Len(q) |->
               IF n = 0 THEN <<>> ELSE PushIf(K, w[n - 1], q[n])]
           kept == CHOOSE w : w = Step(w)
<1>0. Len(q) \in Nat
    BY LenProperties
<1>1. PICK u : KeepsUp(q, K, S, u, Len(q))
    BY KeptExists
<1>2. u = Step(u)
    BY <1>0, <1>1 DEF KeepsUp
<1>3. kept = Step(kept)
    BY <1>2
<1>4. Keep(q, K) = kept[Len(q)]
    BY DEF Keep
<1> HIDE DEF kept
<1>5. /\ kept[0] = <<>>
      /\ \A n \in 1..Len(q) : kept[n] = PushIf(K, kept[n - 1], q[n])
    BY <1>0, <1>3
<1>6. \A n \in 0..Len(q) : /\ kept[n] = u[n] /\ kept[n] \in Seq(S \cap K)
                           /\ kept[n] = <<>> => \A i \in 1..n : q[i] \notin K
    <2> DEFINE P == {n \in Nat : n <= Len(q) =>
                        /\ kept[n] = u[n] /\ kept[n] \in Seq(S \cap K)
                        /\ kept[n] = <<>> => \A i \in 1..n : q[i] \notin K}
    <2>1. 0 \in P
        BY <1>1, <1>5 DEF KeepsUp
    <2>2. ASSUME NEW n \in P
          PROVE  n + 1 \in P
        <3>1. SUFFICES ASSUME n + 1 <= Len(q)
                       PROVE  /\ kept[n + 1] = u[n + 1] /\ kept[n + 1] \in Seq(S \cap K)
                              /\ kept[n + 1] = <<>> => \A i \in 1..n + 1 : q[i] \notin K
            OBVIOUS
        <3>2. n \in Nat /\ n <= Len(q) /\ n + 1 \in 1..Len(q) /\ (n + 1) - 1 = n
            BY <1>0, <3>1
        <3>3. /\ kept[n] = u[n] /\ kept[n] \in Seq(S \cap K)
              /\ kept[n] = <<>> => \A i \in 1..n : q[i] \notin K
            BY <3>2
        <3>4. u[n + 1] \in Seq(S \cap K)
            <4> HIDE DEF P
            <4>1. n + 1 \in 0..Len(q)
                BY <1>0, <3>2
            <4> HIDE DEF Step
            <4>2. u \in [0..Len(q) -> Seq(S \cap K)]
                BY <1>1 DEF KeepsUp
            <4> QED
                BY <4>1, <4>2
        <3>5. kept[n + 1] = u[n + 1]
            BY <1>1, <1>5, <3>2, <3>3 DEF KeepsUp
        <3>6. kept[n + 1] = PushIf(K, kept[n], q[n + 1]) /\ q[n + 1] \in S
            BY <1>5, <3>2, LenProperties
        <3>7. kept[n + 1] = <<>> => kept[n] = <<>> /\ q[n + 1] \notin K
            <4> HIDE DEF P
            <4>1. kept[n] \in Seq(S \cap K)
                BY <3>3
            <4>2. PushIf(K, kept[n], q[n + 1]) = <<>> => kept[n] = <<>> /\ q[n + 1] \notin K
                BY <3>6, <4>1, AppendProperties DEF PushIf
            <4> QED
                BY <3>6, <4>2
        <3> QED
            <4>1. ASSUME kept[n + 1] = <<>>, NEW i \in 1..n + 1
                  PROVE  q[i] \notin K
                <5>1. i = n + 1 \/ i \in 1..n
                    BY <3>2
                <5> QED
                    BY <3>3, <3>7, <4>1, <5>1
            <4> QED
                BY <3>4, <3>5, <4>1
    <2>3. P = Nat
        <3> HIDE DEF P
        <3> QED
            BY <2>1, <2>2, FromZeroOn DEF P
    <2> QED
        BY <1>0, <2>3
<1> QED
    BY <1>0, <1>4, <1>6

\* A service that is being pinged has a list, of which the pinger is at an element.
AsksOfAList ==
    ping = "ask" => turn <= Count /\ round[Target] # None /\ asked <= Len(round[Target])

\* What a fetcher is about to deliver was fetched.
ListsAreHeld == \A s \in Services : fetch[s] = "deliver" => list[s] \in Lists

\* What was heard of the hosts asked so far is sound as a report is.
HeardSoFar ==
    ping = "ask" =>
        /\ responded = <<>> <=> collected = <<>>
        /\ GivenBy(Target, responded, collected)
        /\ IsPart(responded, SubSeq(round[Target], 1, asked))

HearingInv == AsksOfAList /\ ListsAreHeld /\ HeardSoFar /\ ReportsAreSound

CollectorInv == UserOK /\ CollectorTypeOK /\ HearingInv

\* Lists are sequences of hosts.
LEMMA ListsAre ==
    /\ \A l \in Lists : l \in Seq(Hosts)
    /\ \A w \in Worlds, s \in Services : w.lists[s] # None => w.lists[s] \in Lists
BY CollectorConstants DEF Lists

\* What is parsed is a sequence of handles.
LEMMA ParseIs ==
    ASSUME NEW w \in Worlds, NEW s \in Services, NEW h \in Hosts
    PROVE  parse_host_response(s, w.meta[s][h]) \in Seq(Infos)
<1> DEFINE answer == w.meta[s][h]
           app == answer.apps[Apps[s]]
           K == {t \in Range(app.tasks) : Accepts(s, t)}
           kept == Keep(app.tasks, K)
<1>1. CASE \/ Unusable(s, answer) \/ Apps[s] \notin DOMAIN answer.apps
           \/ app.kind # "object" \/ ~app.running
    BY <1>1, EmptySeq DEF parse_host_response
<1>2. CASE /\ ~Unusable(s, answer) /\ Apps[s] \in DOMAIN answer.apps
           /\ app.kind = "object" /\ app.running
    <2>1. answer.kind = "apps" /\ Malformed \notin Range(app.tasks)
        BY <1>2 DEF Unusable
    <2>2. app.tasks \in Seq(Tasks \union {Malformed})
        <3>1. app \in Range(answer.apps)
            BY <1>2 DEF Range
        <3>2. \A a \in Range(answer.apps) :
                 a.kind = "object" => a.tasks \in Seq(Tasks \union {Malformed})
            BY <2>1, CollectorConstants
        <3> HIDE DEF app
        <3> QED
            BY <1>2, <3>1, <3>2
    <2>3. kept \in Seq((Tasks \union {Malformed}) \cap K)
        <3> HIDE DEF K
        <3> QED
            BY <2>2, KeepIs
    <2>4. \A i \in 1..Len(kept) : kept[i] \in Tasks
        <3> HIDE DEF kept
        <3>1. (Tasks \union {Malformed}) \cap K \subseteq Tasks
            BY <2>1
        <3> HIDE DEF K
        <3> QED
            BY <2>3, <3>1, LenProperties
    <2>5. parse_host_response(s, answer) =
             [i \in 1..Len(kept) |-> [name |-> kept[i].name, port |-> kept[i].port]]
        BY <1>2 DEF parse_host_response
    <2>6. Len(kept) \in Nat
        BY <2>3, LenProperties
    <2>7. \A i \in 1..Len(kept) : [name |-> kept[i].name, port |-> kept[i].port] \in Infos
        <3> HIDE DEF kept
        <3> QED
            BY <2>4 DEF Tasks, Infos
    <2> HIDE DEF kept
    <2> QED
        BY <2>5, <2>6, <2>7, IsASeq
<1> QED
    BY <1>1, <1>2

\* AddNew adds nothing but what it is given, and leaves nothing out of the first answer.
LEMMA AddNewIs ==
    ASSUME NEW known \in Seq(Infos), NEW more \in Seq(Infos)
    PROVE  /\ AddNew(known, more) \in Seq(Infos)
           /\ Range(AddNew(known, more)) \subseteq Range(known) \union Range(more)
           /\ AddNew(known, more) = <<>> => more = <<>>
<1> DEFINE K == Range(more) \ Range(known)
           kept == Keep(more, K)
<1>1. /\ kept \in Seq(Infos \cap K)
      /\ kept = <<>> => \A i \in 1..Len(more) : more[i] \notin K
    <2> HIDE DEF K
    <2> QED
        BY KeepIs
<1>2. AddNew(known, more) = known \o kept
    BY DEF AddNew
<1>3. kept \in Seq(Infos) /\ \A i \in 1..Len(kept) : kept[i] \in Range(more)
    <2> HIDE DEF kept
    <2>1. \A i \in 1..Len(kept) : kept[i] \in Infos \cap K
        BY <1>1, LenProperties
    <2>2. kept = [i \in 1..Len(kept) |-> kept[i]] /\ Len(kept) \in Nat
        BY <1>1, LenProperties
    <2> HIDE DEF K
    <2>3. kept \in Seq(Infos)
        BY <2>1, <2>2, IsASeq
    <2> QED
        BY <2>1, <2>3 DEF K
<1> HIDE DEF kept
<1>4. /\ known \o kept \in Seq(Infos)
      /\ Len(known \o kept) = Len(known) + Len(kept)
      /\ \A i \in 1..Len(known) + Len(kept) : (known \o kept)[i] =
            IF i <= Len(known) THEN known[i] ELSE kept[i - Len(known)]
    BY <1>3, ConcatProperties
<1>5. Len(known) \in Nat /\ Len(kept) \in Nat /\ Len(more) \in Nat
    BY <1>3, LenProperties
<1>6. ASSUME NEW x \in Range(known \o kept)
      PROVE  x \in Range(known) \union Range(more)
    <2>1. PICK i \in 1..Len(known) + Len(kept) : x = (known \o kept)[i]
        BY <1>4, LenProperties DEF Range
    <2>2. CASE i <= Len(known)
        BY <1>4, <1>5, <2>1, <2>2, LenProperties DEF Range
    <2>3. CASE i > Len(known)
        <3>1. i - Len(known) \in 1..Len(kept) /\ x = kept[i - Len(known)]
            BY <1>4, <1>5, <2>1, <2>3
        <3> QED
            BY <1>3, <3>1
    <2> QED
        BY <1>5, <2>1, <2>2, <2>3
<1>7. ASSUME known \o kept = <<>>
      PROVE  more = <<>>
    <2>1. known = <<>> /\ kept = <<>>
        BY <1>3, <1>7, ConcatEqualIffEmpty, <1>4, <1>5, EmptySeq
    <2>2. \A i \in 1..Len(more) : more[i] \in K
        BY <2>1, LenProperties DEF Range
    <2>3. Len(more) = 0
        BY <1>1, <1>5, <2>1, <2>2
    <2> QED
        BY <2>3, EmptySeq
<1> QED
    BY <1>2, <1>4, <1>6, <1>7

\* The first elements of a list, and one more.
LEMMA OneMore ==
    ASSUME NEW S, NEW l \in Seq(S), NEW n \in Nat, n < Len(l)
    PROVE  /\ SubSeq(l, 1, n) \in Seq(S) /\ Len(SubSeq(l, 1, n)) = n
           /\ \A i \in 1..n : SubSeq(l, 1, n)[i] = l[i]
           /\ SubSeq(l, 1, n + 1) \in Seq(S) /\ Len(SubSeq(l, 1, n + 1)) = n + 1
           /\ \A i \in 1..n + 1 : SubSeq(l, 1, n + 1)[i] = l[i]
BY SubSeqProperties, LenProperties

\* A part of the first elements of a list stays one when the next element is passed
\* over, or put at its end.
LEMMA PartGrows ==
    ASSUME NEW S, NEW l \in Seq(S), NEW n \in Nat, n < Len(l), NEW p \in Seq(S),
           IsPart(p, SubSeq(l, 1, n))
    PROVE  /\ IsPart(p, SubSeq(l, 1, n + 1))
           /\ IsPart(Append(p, l[n + 1]), SubSeq(l, 1, n + 1))
<1> DEFINE one == SubSeq(l, 1, n)
           two == SubSeq(l, 1, n + 1)
           q == Append(p, l[n + 1])
<1>1. /\ Len(one) = n /\ \A i \in 1..n : one[i] = l[i]
      /\ Len(two) = n + 1 /\ \A i \in 1..n + 1 : two[i] = l[i]
    BY OneMore
<1>2. l[n + 1] \in S
    BY LenProperties
<1>3. /\ Len(p) \in Nat /\ Len(q) = Len(p) + 1 /\ q[Len(p) + 1] = l[n + 1]
      /\ \A i \in 1..Len(p) : q[i] = p[i]
    BY <1>2, AppendProperties, LenProperties
<1> HIDE DEF one, two, q
<1>4. PICK f \in [1..Len(p) -> 1..Len(one)] :
          /\ \A i, j \in 1..Len(p) : i < j => f[i] < f[j]
          /\ \A i \in 1..Len(p) : p[i] = one[f[i]]
    BY DEF IsPart, one
<1>5. \A i \in 1..Len(p) : f[i] \in 1..n
    BY <1>1, <1>4
<1>6. IsPart(p, two)
    <2>1. f \in [1..Len(p) -> 1..Len(two)]
        BY <1>1, <1>3, <1>4, <1>5
    <2>2. \A i \in 1..Len(p) : p[i] = two[f[i]]
        BY <1>1, <1>4, <1>5
    <2> QED
        BY <1>4, <2>1, <2>2 DEF IsPart
<1>7. IsPart(q, two)
    <2> DEFINE g == [i \in 1..Len(q) |-> IF i = Len(q) THEN n + 1 ELSE f[i]]
    <2>1. g \in [1..Len(q) -> 1..Len(two)]
        BY <1>1, <1>3, <1>5
    <2>2. ASSUME NEW i \in 1..Len(q), NEW j \in 1..Len(q), i < j
          PROVE  g[i] < g[j]
        <3>1. i \in 1..Len(p)
            BY <1>3, <2>2
        <3>2. g[i] = f[i] /\ f[i] \in 1..n
            BY <1>3, <1>5, <3>1
        <3>3. CASE j = Len(q)
            BY <3>2, <3>3
        <3>4. CASE j \in 1..Len(p)
            BY <1>3, <1>4, <2>2, <3>1, <3>4
        <3> QED
            BY <1>3, <3>3, <3>4
    <2>3. ASSUME NEW i \in 1..Len(q)
          PROVE  q[i] = two[g[i]]
        <3>1. CASE i = Len(q)
            BY <1>1, <1>3, <3>1
        <3>2. CASE i \in 1..Len(p)
            <4>1. g[i] = f[i] /\ f[i] \in 1..n
                BY <1>3, <1>5, <3>2
            <4> QED
                BY <1>1, <1>3, <1>4, <3>2, <4>1
        <3> QED
            BY <1>3, <3>1, <3>2
    <2> HIDE DEF g
    <2> QED
        BY <2>1, <2>2, <2>3 DEF IsPart
<1> QED
    BY <1>6, <1>7 DEF two, q

\* One more host, which answers, gives its handles.
LEMMA GivenGrows ==
    ASSUME NEW s, NEW hosts \in Seq(Hosts), NEW infos \in Seq(Infos), NEW h \in Hosts,
           NEW w \in Worlds, parse_host_response(s, w.meta[s][h]) \in Seq(Infos),
           GivenBy(s, hosts, infos)
    PROVE  GivenBy(s, Append(hosts, h), AddNew(infos, parse_host_response(s, w.meta[s][h])))
<1> DEFINE got == parse_host_response(s, w.meta[s][h])
<1>1. Range(AddNew(infos, got)) \subseteq Range(infos) \union Range(got)
    BY AddNewIs
<1>2. Range(hosts) \subseteq Range(Append(hosts, h)) /\ h \in Range(Append(hosts, h))
    <2>1. /\ Append(hosts, h) \in Seq(Hosts) /\ Len(Append(hosts, h)) = Len(hosts) + 1
          /\ Len(hosts) \in Nat /\ Append(hosts, h)[Len(hosts) + 1] = h
          /\ \A i \in 1..Len(hosts) : Append(hosts, h)[i] = hosts[i]
        BY AppendProperties, LenProperties
    <2>2. DOMAIN Append(hosts, h) = 1..Len(hosts) + 1 /\ DOMAIN hosts = 1..Len(hosts)
        BY <2>1, LenProperties
    <2> QED
        BY <2>1, <2>2 DEF Range
<1> QED
    BY <1>1, <1>2 DEF GivenBy

\* The user, the threads outside their functions and the world change nothing of what
\* was heard.
LEMMA HearingStays ==
    ASSUME HearingInv, UNCHANGED <<fetch, list, pingVars>>
    PROVE  HearingInv'
BY DEF HearingInv, AsksOfAList, ListsAreHeld, HeardSoFar, ReportsAreSound, pingVars, Target,
       GivenBy

LEMMA UserStepHears ==
    ASSUME CollectorInv, UserStep
    PROVE  CollectorTypeOK' /\ HearingInv'
<1> USE DEF CollectorInv, CollectorTypeOK, RefresherTypeOK, UserOK, refresherVars, userVars,
            fetchVars, pingVars, worldVars
<1>1. HearingInv'
    BY HearingStays DEF UserStep, SetCallback, BeginRun, RunFetcher, BindFetcher, RunPinger,
       BeginStop, StopRefresher, JoinRefresher, EndStop
<1>2. UNCHANGED <<fetchVars, pingVars, worldVars, crashed>>
    BY DEF UserStep, SetCallback, BeginRun, RunFetcher, BindFetcher, RunPinger,
       BeginStop, StopRefresher, JoinRefresher, EndStop
<1>3. /\ fetch' \in [Services -> {"request", "deliver"}]
      /\ list' \in [Services -> Lists \union {<<>>}]
      /\ fetched' \in [Services -> Lists \union {None}]
      /\ ping' \in {"snapshot", "next", "ask"} /\ round' \in [Services -> Lists \union {None}]
      /\ turn' \in 1..Count + 1 /\ asked' \in Nat
      /\ responded' \in Seq(Hosts) /\ answers' \in Seq(Hosts \X Infos)
      /\ collected' \in Seq(Infos)
      /\ reported' \in [Services -> [hosts : Seq(Hosts), infos : Seq(Infos)] \union {None}]
      /\ world' \in Worlds /\ changes' \in 0..MaxChanges /\ throws' \in 0..MaxThrows
      /\ crashed' \in BOOLEAN
    BY <1>2
<1>4. /\ RefresherTypeOK'
      /\ mutex' \in {None, User, Pinger}
      /\ user' \in {"new", "set", "run", "bind", "running", "stop", "join", "stopped"}
      /\ at' \in 1..Count + 2 /\ bound' \in SUBSET Services /\ callback' \in BOOLEAN
    <2>1. CASE SetCallback
        BY <2>1 DEF SetCallback
    <2>2. CASE BeginRun
        BY <2>2, OwnedIs DEF BeginRun
    <2>3. CASE RunFetcher
        BY <2>3, OwnedIs DEF RunFetcher, StartRefresher, Places
    <2>4. CASE BindFetcher
        BY <2>4, OwnedIs DEF BindFetcher
    <2>5. CASE RunPinger
        BY <2>5, CollectorConstants DEF RunPinger, StartRefresher, Places
    <2>6. CASE BeginStop
        BY <2>6, OwnedIs DEF BeginStop
    <2>7. CASE StopRefresher
        BY <2>7, OwnedIs DEF StopRefresher, RaiseFlag
    <2>8. CASE JoinRefresher
        BY <2>8, OwnedIs DEF JoinRefresher
    <2>9. CASE EndStop
        BY <2>9 DEF EndStop
    <2> QED
        BY <2>1, <2>2, <2>3, <2>4, <2>5, <2>6, <2>7, <2>8, <2>9 DEF UserStep
<1> QED
    BY <1>1, <1>3, <1>4

\* A fetcher delivers what it fetched.
LEMMA FetchStepHears ==
    ASSUME CollectorInv, NEW s \in Services, FetchStep(s)
    PROVE  CollectorTypeOK' /\ HearingInv'
<1> USE DEF CollectorInv, CollectorTypeOK, RefresherTypeOK, refresherVars, userVars,
            fetchVars, pingVars, worldVars
<1>0. s \in Refreshers
    BY CollectorConstants
<1>1. CASE FetchFails(s)
    <2>1. HearingInv'
        BY <1>1, HearingStays DEF FetchFails
    <2>2. CollectorTypeOK'
        BY <1>0, <1>1 DEF FetchFails, Return, Goto, Places
    <2> QED
        BY <2>1, <2>2
<1>2. CASE CallEmpty(s)
    <2>1. HearingInv'
        BY <1>2, HearingStays DEF CallEmpty
    <2>2. CollectorTypeOK'
        BY <1>2 DEF CallEmpty
    <2> QED
        BY <2>1, <2>2
<1>3. CASE FetchList(s)
    <2>1. world.lists[s] \in Lists
        BY <1>3, ListsAre DEF FetchList
    <2>2. list' = [list EXCEPT ![s] = world.lists[s]] /\ fetch' = [fetch EXCEPT ![s] = "deliver"]
        BY <1>3 DEF FetchList
    <2>3. CollectorTypeOK'
        BY <1>3, <2>1, <2>2 DEF FetchList
    <2>4. ListsAreHeld'
        BY <2>1, <2>2 DEF ListsAreHeld, HearingInv
    <2>5. AsksOfAList' /\ HeardSoFar' /\ ReportsAreSound'
        BY <1>3 DEF FetchList, HearingInv, AsksOfAList, HeardSoFar, ReportsAreSound, Target,
                    GivenBy
    <2> QED
        BY <2>3, <2>4, <2>5 DEF HearingInv
<1>4. CASE hosts_callback(s)
    <2>1. list[s] \in Lists
        BY <1>4 DEF hosts_callback, InFetch, HearingInv, ListsAreHeld
    <2>2. fetched' = [fetched EXCEPT ![s] = list[s]] /\ fetch' = [fetch EXCEPT ![s] = "request"]
        BY <1>4 DEF hosts_callback
    <2>3. CollectorTypeOK'
        BY <1>0, <1>4, <2>1, <2>2 DEF hosts_callback, Return, Goto, Places
    <2>4. ListsAreHeld'
        BY <1>4, <2>2 DEF hosts_callback, ListsAreHeld, HearingInv
    <2>5. AsksOfAList' /\ HeardSoFar' /\ ReportsAreSound'
        BY <1>4 DEF hosts_callback, HearingInv, AsksOfAList, HeardSoFar, ReportsAreSound, Target,
                    GivenBy
    <2> QED
        BY <2>3, <2>4, <2>5 DEF HearingInv
<1> QED
    BY <1>1, <1>2, <1>3, <1>4 DEF FetchStep

\* The next host: when it gives handles it is one more of the hosts that responded.
LEMMA AskHostHears ==
    ASSUME CollectorInv, AskHost
    PROVE  CollectorTypeOK' /\ HearingInv'
<1> DEFINE l == round[Target]
           h == l[asked + 1]
           got == parse_host_response(Target, world.meta[Target][h])
<1> USE DEF CollectorInv, CollectorTypeOK
<1>1. /\ ping = "ask" /\ asked < Len(l) /\ asked' = asked + 1
      /\ IF got = <<>> THEN UNCHANGED <<responded, answers, collected>>
         ELSE /\ responded' = Append(responded, h)
              /\ answers' = answers \o [i \in 1..Len(got) |-> <<h, got[i]>>]
              /\ collected' = AddNew(collected, got)
      /\ UNCHANGED <<refresherVars, mutex, userVars, fetchVars, ping, round, turn, reported,
                     throws, worldVars, crashed>>
    BY DEF AskHost, InPing
<1>2. /\ turn \in 1..Count /\ l # None
      /\ (responded = <<>> <=> collected = <<>>) /\ GivenBy(Target, responded, collected)
      /\ IsPart(responded, SubSeq(l, 1, asked))
    <2>1. ping = "ask" /\ turn \in 1..Count + 1 /\ Count \in Nat
        BY OwnedIs DEF AskHost, InPing
    <2>2. AsksOfAList /\ HeardSoFar
        BY DEF HearingInv
    <2>3. turn \in 1..Count /\ l # None
        BY <2>1, <2>2 DEF AsksOfAList
    <2> QED
        BY <2>1, <2>2, <2>3 DEF HeardSoFar
<1>3. Target \in Services
    BY <1>2, OwnedIs DEF Target
<1>4. l \in Seq(Hosts) /\ Len(l) \in Nat
    BY <1>2, <1>3, ListsAre, LenProperties
<1>5. asked \in Nat /\ asked + 1 \in 1..Len(l) /\ h \in Hosts
    <2>1. asked \in Nat /\ asked < Len(l)
        BY <1>1
    <2>2. h = l[asked + 1]
        OBVIOUS
    <2> HIDE DEF CollectorInv, CollectorTypeOK, l, h
    <2>3. asked + 1 \in 1..Len(l)
        BY <1>4, <2>1
    <2> QED
        BY <1>4, <2>1, <2>2, <2>3
<1>6. got \in Seq(Infos)
    BY <1>3, <1>5, ParseIs
<1>7. Target' = Target /\ l' = l
    BY <1>1 DEF Target
<1> HIDE DEF l, h, got
<1>8. /\ responded' \in Seq(Hosts) /\ answers' \in Seq(Hosts \X Infos)
      /\ collected' \in Seq(Infos)
    <2>1. CASE got = <<>>
        BY <1>1, <2>1
    <2>2. CASE got # <<>>
        <3>1. [i \in 1..Len(got) |-> <<h, got[i]>>] \in Seq(Hosts \X Infos)
            <4>1. Len(got) \in Nat /\ \A i \in 1..Len(got) : <<h, got[i]>> \in Hosts \X Infos
                BY <1>5, <1>6, LenProperties
            <4> QED
                BY <4>1, IsASeq
        <3>2. responded' \in Seq(Hosts) /\ answers' \in Seq(Hosts \X Infos)
            <4>1. Append(responded, h) \in Seq(Hosts)
                BY <1>5, AppendProperties
            <4>2. answers \o [i \in 1..Len(got) |-> <<h, got[i]>>] \in Seq(Hosts \X Infos)
                BY <3>1, ConcatProperties
            <4> QED
                BY <1>1, <2>2, <4>1, <4>2
        <3>3. collected' \in Seq(Infos)
            BY <1>1, <1>6, <2>2, AddNewIs
        <3> QED
            BY <3>2, <3>3
    <2> QED
        BY <2>1, <2>2
<1>9. CollectorTypeOK'
    BY <1>1, <1>8 DEF RefresherTypeOK, refresherVars, userVars, fetchVars, worldVars
<1>10. HeardSoFar'
    <2>1. IsPart(responded', SubSeq(l, 1, asked + 1))
        <3>1. /\ IsPart(responded, SubSeq(l, 1, asked + 1))
              /\ IsPart(Append(responded, h), SubSeq(l, 1, asked + 1))
            BY <1>1, <1>2, <1>4, <1>5, PartGrows DEF h
        <3> QED
            BY <1>1, <3>1
    <2>2. GivenBy(Target, responded', collected') /\ (responded' = <<>> <=> collected' = <<>>)
        <3>1. CASE got = <<>>
            BY <1>1, <1>2, <3>1
        <3>2. CASE got # <<>>
            <4>1. GivenBy(Target, Append(responded, h), AddNew(collected, got))
                BY <1>2, <1>5, <1>6, GivenGrows DEF got
            <4>2. AddNew(collected, got) # <<>>
                BY <1>6, <3>2, AddNewIs
            <4>3. Append(responded, h) # <<>>
                BY <1>5, AppendProperties
            <4> QED
                BY <1>1, <3>2, <4>1, <4>2, <4>3
        <3> QED
            BY <3>1, <3>2
    <2> QED
        BY <1>1, <1>7, <2>1, <2>2 DEF HeardSoFar, GivenBy, l
<1>11. AsksOfAList'
    BY <1>1, <1>2, <1>4, <1>5, <1>7 DEF AsksOfAList, l
<1>12. ListsAreHeld' /\ ReportsAreSound'
    BY <1>1 DEF HearingInv, ListsAreHeld, ReportsAreSound, fetchVars, GivenBy
<1> QED
    BY <1>9, <1>10, <1>11, <1>12 DEF HearingInv

\* All hosts of the service were asked: what was heard is reported.
LEMMA ReportHears ==
    ASSUME CollectorInv, Report
    PROVE  CollectorTypeOK' /\ HearingInv'
<1> DEFINE l == round[Target]
           report == [hosts |-> responded, infos |-> collected]
<1> USE DEF CollectorInv, CollectorTypeOK
<1>1. /\ ping = "ask" /\ asked = Len(l) /\ ping' = "next" /\ turn' = turn + 1 /\ mutex' = None
      /\ reported' = [reported EXCEPT ![Target] = report]
      /\ UNCHANGED <<refresherVars, userVars, fetchVars, round, asked, responded, answers,
                     collected, throws, worldVars, crashed>>
    BY DEF Report, Reports, InPing
<1>2. /\ turn \in 1..Count /\ l # None
      /\ (responded = <<>> <=> collected = <<>>) /\ GivenBy(Target, responded, collected)
      /\ IsPart(responded, SubSeq(l, 1, asked))
    BY <1>1 DEF HearingInv, AsksOfAList, HeardSoFar
<1>3. Target \in Services /\ Count \in Nat
    BY <1>2, OwnedIs DEF Target
<1>4. l \in Lists /\ l \in Seq(Hosts)
    BY <1>2, <1>3, ListsAre
<1>5. report \in [hosts : Seq(Hosts), infos : Seq(Infos)]
    OBVIOUS
<1> HIDE DEF l, report
<1>6. CollectorTypeOK'
    <2>1. /\ reported' \in [Services -> [hosts : Seq(Hosts), infos : Seq(Infos)] \union {None}]
          /\ turn' \in 1..Count + 1
        BY <1>1, <1>2, <1>3, <1>5
    <2>2. RefresherTypeOK'
        BY <1>1 DEF RefresherTypeOK, refresherVars
    <2> QED
        BY <1>1, <2>1, <2>2 DEF userVars, fetchVars, worldVars
<1>7. IsPart(responded, l)
    <2>1. SubSeq(l, 1, Len(l)) = l
        BY <1>4, SubSeqFull
    <2> QED
        BY <1>1, <1>2, <2>1
<1>8. ReportsAreSound'
    <2>1. ASSUME NEW s \in Services, reported'[s] # None
          PROVE  /\ reported'[s].hosts = <<>> <=> reported'[s].infos = <<>>
                 /\ GivenBy(s, reported'[s].hosts, reported'[s].infos)
                 /\ \E list_s \in Lists : IsPart(reported'[s].hosts, list_s)
        <3>1. CASE s = Target
            <4>1. reported'[s] = report
                BY <1>1, <1>3, <3>1
            <4>2. reported'[s].hosts = responded /\ reported'[s].infos = collected
                BY <4>1 DEF report
            <4> QED
                BY <1>2, <1>4, <1>7, <3>1, <4>2
        <3>2. CASE s # Target
            <4>1. reported'[s] = reported[s]
                BY <1>1, <3>2
            <4> QED
                BY <2>1, <4>1 DEF HearingInv, ReportsAreSound
        <3> QED
            BY <3>1, <3>2
    <2> QED
        BY <2>1 DEF ReportsAreSound, GivenBy
<1>9. AsksOfAList' /\ ListsAreHeld' /\ HeardSoFar'
    BY <1>1 DEF HearingInv, AsksOfAList, ListsAreHeld, HeardSoFar, fetchVars
<1> QED
    BY <1>6, <1>8, <1>9 DEF HearingInv

LEMMA PingStepHears ==
    ASSUME CollectorInv, PingStep \/ CallBack
    PROVE  CollectorTypeOK' /\ HearingInv'
<1> USE DEF CollectorInv, CollectorTypeOK, RefresherTypeOK, refresherVars, userVars,
            fetchVars, worldVars
<1>0. Pinger \in Refreshers /\ Count \in Nat
    BY CollectorConstants, OwnedIs
<1>1. CASE TakeRound
    <2>1. CollectorTypeOK'
        BY <1>0, <1>1 DEF TakeRound
    <2>2. HearingInv'
        BY <1>1 DEF TakeRound, HearingInv, AsksOfAList, ListsAreHeld, HeardSoFar,
                    ReportsAreSound, GivenBy
    <2> QED
        BY <2>1, <2>2
<1>2. CASE EndRound
    <2>1. CollectorTypeOK'
        BY <1>0, <1>2 DEF EndRound, Return, Goto, Places
    <2>2. HearingInv'
        BY <1>2 DEF EndRound, HearingInv, AsksOfAList, ListsAreHeld, HeardSoFar,
                    ReportsAreSound, GivenBy
    <2> QED
        BY <2>1, <2>2
<1>3. CASE SkipService
    <2>1. CollectorTypeOK'
        BY <1>0, <1>3 DEF SkipService
    <2>2. HearingInv'
        BY <1>3 DEF SkipService, InPing, HearingInv, AsksOfAList, ListsAreHeld, HeardSoFar,
                    ReportsAreSound, GivenBy
    <2> QED
        BY <2>1, <2>2
<1>4. CASE BeginPing
    <2>1. /\ turn <= Count /\ round[Target] # None /\ ping' = "ask" /\ asked' = 0
          /\ responded' = <<>> /\ answers' = <<>> /\ collected' = <<>> /\ mutex' = Pinger
          /\ UNCHANGED <<refresherVars, userVars, fetchVars, round, turn, reported, throws,
                         worldVars, crashed>>
        BY <1>4 DEF BeginPing
    <2>2. CollectorTypeOK'
        BY <2>1, EmptySeq
    <2>3. Target' = Target /\ Target \in Services
        BY <1>0, <2>1, OwnedIs DEF Target
    <2>4. round[Target] \in Seq(Hosts)
        BY <2>1, <2>3, ListsAre
    <2>5. AsksOfAList'
        BY <2>1, <2>3, <2>4, LenProperties DEF AsksOfAList
    <2>6. HeardSoFar'
        <3>1. GivenBy(Target, <<>>, <<>>)
            BY DEF GivenBy, Range
        <3>2. IsPart(<<>>, SubSeq(round[Target], 1, 0))
            <4> DEFINE none == SubSeq(round[Target], 1, 0)
                       f == [i \in 1..Len(<<>>) |-> 1]
            <4>1. 1..Len(<<>>) = {}
                BY EmptySeq
            <4>2. f \in [1..Len(<<>>) -> 1..Len(none)]
                BY <4>1
            <4> HIDE DEF none, f
            <4>3. IsPart(<<>>, none)
                BY <4>1, <4>2 DEF IsPart
            <4> QED
                BY <4>3 DEF none
        <3> QED
            BY <2>1, <2>3, <3>1, <3>2 DEF HeardSoFar, GivenBy
    <2>7. ListsAreHeld' /\ ReportsAreSound'
        BY <2>1 DEF HearingInv, ListsAreHeld, ReportsAreSound, GivenBy
    <2> QED
        BY <2>2, <2>5, <2>6, <2>7 DEF HearingInv
<1>5. CASE ReportThrows
    <2>1. CollectorTypeOK'
        BY <1>0, <1>5, CollectorConstants DEF ReportThrows, Return, Goto, Places
    <2>2. HearingInv'
        BY <1>5 DEF ReportThrows, HearingInv, AsksOfAList, ListsAreHeld, HeardSoFar,
                    ReportsAreSound, GivenBy
    <2> QED
        BY <2>1, <2>2
<1> QED
    BY <1>1, <1>2, <1>3, <1>4, <1>5, AskHostHears, ReportHears DEF PingStep, CallBack

LEMMA RefresherHears ==
    ASSUME CollectorInv, NEW r \in Refreshers, RefresherRuns(r)
    PROVE  CollectorTypeOK' /\ HearingInv'
<1>1. HearingInv'
    BY HearingStays DEF RefresherRuns, CollectorInv, fetchVars
<1>2. CollectorTypeOK'
    <2>1. /\ thread \in [Refreshers -> Places] /\ stopping \in [Refreshers -> BOOLEAN]
          /\ notified \in SUBSET Refreshers
        BY DEF CollectorInv, CollectorTypeOK, RefresherTypeOK
    <2>2. /\ \E place \in {"test", "call", "ended", "tested", "wait", "check"} :
                 thread' = [thread EXCEPT ![r] = place]
          /\ stopping' = stopping /\ (notified' = notified \/ notified' = notified \ {r})
        BY DEF RefresherRuns, RefresherStep, Call, TestFlag, Sleep, Wake, Goto
    <2>3. RefresherTypeOK'
        BY <2>1, <2>2 DEF RefresherTypeOK, Places
    <2>4. UNCHANGED <<mutex, userVars, fetchVars, pingVars, worldVars, crashed>>
        BY DEF RefresherRuns
    <2> QED
        BY <2>3, <2>4 DEF CollectorInv, CollectorTypeOK, userVars, fetchVars, pingVars, worldVars
<1> QED
    BY <1>1, <1>2

LEMMA CollectorStepHears ==
    ASSUME CollectorInv, CollectorStep
    PROVE  CollectorTypeOK' /\ HearingInv'
<1>1. ASSUME WorldChanges
      PROVE  CollectorTypeOK' /\ HearingInv'
    <2>1. HearingInv'
        BY <1>1, HearingStays DEF WorldChanges, CollectorInv, fetchVars
    <2>2. CollectorTypeOK'
        BY <1>1, CollectorConstants DEF WorldChanges, CollectorInv, CollectorTypeOK,
           RefresherTypeOK, refresherVars, userVars, fetchVars, pingVars
    <2> QED
        BY <2>1, <2>2
<1> QED
    BY <1>1, FetchStepHears, PingStepHears, RefresherHears DEF CollectorStep

LEMMA CollectorInvStarts == CollectorInit => CollectorInv
<1>1. ASSUME CollectorInit
      PROVE  CollectorTypeOK /\ HearingInv
    <2>1. /\ Count \in Nat /\ <<>> \in Seq(Hosts) /\ <<>> \in Seq(Hosts \X Infos)
          /\ <<>> \in Seq(Infos)
        BY OwnedIs, EmptySeq
    <2>2. CollectorTypeOK
        <3>1. RefresherTypeOK
            BY <1>1 DEF CollectorInit, RefresherInit, RefresherTypeOK, Places
        <3>2. MaxChanges \in Nat /\ MaxThrows \in Nat
            BY CollectorConstants
        <3>3. /\ mutex \in {None, User, Pinger} /\ bound \in SUBSET Services
              /\ user \in {"new", "set", "run", "bind", "running", "stop", "join", "stopped"}
              /\ at \in 1..Count + 2
            BY <1>1, <2>1 DEF CollectorInit
        <3>4. /\ fetch \in [Services -> {"request", "deliver"}]
              /\ list \in [Services -> Lists \union {<<>>}]
              /\ fetched \in [Services -> Lists \union {None}]
              /\ round \in [Services -> Lists \union {None}]
              /\ reported \in [Services -> [hosts : Seq(Hosts), infos : Seq(Infos)]
                                             \union {None}]
            BY <1>1 DEF CollectorInit
        <3>5. /\ ping \in {"snapshot", "next", "ask"} /\ turn \in 1..Count + 1
              /\ asked \in Nat /\ responded \in Seq(Hosts) /\ collected \in Seq(Infos)
              /\ answers \in Seq(Hosts \X Infos)
              /\ world \in Worlds /\ changes \in 0..MaxChanges /\ throws \in 0..MaxThrows
            BY <1>1, <2>1, <3>2 DEF CollectorInit
        <3>6. callback \in BOOLEAN /\ crashed \in BOOLEAN
            BY <1>1, Zenon DEF CollectorInit
        <3> QED
            BY <3>1, <3>3, <3>4, <3>5, <3>6 DEF CollectorTypeOK
    <2>3. HearingInv
        BY <1>1 DEF CollectorInit, HearingInv, AsksOfAList, ListsAreHeld, HeardSoFar,
           ReportsAreSound
    <2> QED
        BY <2>2, <2>3
<1>2. ASSUME CollectorInit
      PROVE  UserOK
    BY <1>2 DEF CollectorInit, RefresherInit, Places, UserOK
<1> QED
    BY <1>1, <1>2 DEF CollectorInv

LEMMA CollectorInvAlways == CollectorSpec => []CollectorInv
<1>1. CollectorInit => CollectorInv
    BY CollectorInvStarts
<1>2. CollectorInv /\ UserOK' /\ [CollectorNext]_collectorVars => CollectorInv'
    <2>1. ASSUME CollectorInv, CollectorNext
          PROVE  CollectorTypeOK' /\ HearingInv'
        BY <2>1, UserStepHears, CollectorStepHears DEF CollectorNext
    <2>2. ASSUME CollectorInv, UNCHANGED collectorVars
          PROVE  CollectorTypeOK' /\ HearingInv'
        <3>1. HearingInv'
            BY <2>2, HearingStays DEF collectorVars, CollectorInv, fetchVars
        <3>2. CollectorTypeOK'
            BY <2>2 DEF CollectorInv, CollectorTypeOK, RefresherTypeOK, collectorVars,
               refresherVars, userVars, fetchVars, pingVars, worldVars
        <3> QED
            BY <3>1, <3>2
    <2> QED
        BY <2>1, <2>2 DEF CollectorInv
<1>3. UserInv => UserOK
    BY DEF UserInv, StopInv
<1> QED
    BY <1>1, <1>2, <1>3, UserInvAlways, PTL DEF CollectorSpec

\* The collector's types, with handles that are made of what the hosts answer
\* (http_heartbeats_collector.cpp:180-284).
THEOREM CollectorTyped == CollectorSpec => []CollectorTypeOK
<1>1. CollectorInv => CollectorTypeOK
    BY DEF CollectorInv
<1> QED
    BY <1>1, CollectorInvAlways, PTL

\* A report has hosts exactly when it has handles, handles that its hosts gave, and
\* hosts of one list in its order, whatever becomes of the lists and the answers while
\* the hosts are asked (http_heartbeats_collector.cpp:101-178).
THEOREM ReportsSound == CollectorSpec => []ReportsAreSound
<1>1. CollectorInv => ReportsAreSound
    BY DEF CollectorInv, HearingInv
<1> QED
    BY <1>1, CollectorInvAlways, PTL
=============================================================================
