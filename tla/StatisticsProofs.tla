-------------------------- MODULE StatisticsProofs --------------------------
(***************************************************************************)
(* Proofs about the counters of Statistics, for any number of events and   *)
(* of services.                                                            *)
(*                                                                         *)
(* The argument.  CopiesAgree: whichever of the two threads is the last to *)
(* be in the middle of something posts at its end, and a thread that is    *)
(* not in the middle of counting has nothing left to count                 *)
(* (CountedInTheMiddle).  NothingCountedTwice: a copy may be put over the  *)
(* counters between two increments of one event, so that the bound must    *)
(* leave room, in each copy, for what is still to be counted (RoomLeft);   *)
(* a copy that is posted has that room already.                            *)
(***************************************************************************)
EXTENDS Statistics, SequenceTheorems, TLAPS

\* The types of the counters.
CountersOK ==
    /\ statistics \in Counts /\ happened \in Counts
    /\ posted \in Counts \union {None} /\ tmp_stats \in Counts \union {None}
    /\ todo \in Seq(Fields) /\ Len(todo) <= 3
    /\ None \notin Counts

\* Only in the middle of counting is something left to count, and only in the middle of
\* an assignment is there a copy.
CountedInTheMiddle ==
    /\ thread # "counted" => todo = <<>>
    /\ ping = "assign" => tmp_stats # None

\* How often field f is still to be counted.
Place(i, f) == IF i <= Len(todo) /\ todo[i] = f THEN 1 ELSE 0
Left(f) == Place(1, f) + Place(2, f) + Place(3, f)

\* What a field may be counted to.
Bound(f) == IF f = "err_responces" THEN 2 * happened[f] ELSE happened[f]

RoomIn(counts) == \A f \in Fields : counts[f] + Left(f) <= Bound(f)
RoomLeft ==
    /\ RoomIn(statistics)
    /\ posted # None => RoomIn(posted)
    /\ tmp_stats # None => RoomIn(tmp_stats)

StatisticsInv == CountersOK /\ CountedInTheMiddle /\ CopiesAgree /\ RoomLeft

\* A step that counts nothing leaves the room that there is.
LEMMA RoomStays ==
    ASSUME NEW counts, RoomIn(counts), todo' = todo, happened' = happened
    PROVE  \A f \in Fields : counts[f] + Left(f)' <= Bound(f)'
BY DEF RoomIn, Left, Place, Bound

\* The events of a handle: each adds at most one to a field, but two to err_responces.
LEMMA CountKeeps ==
    ASSUME StatisticsInv, NEW fields \in Seq(Fields), Len(fields) <= 3,
           Len(fields) > 1 => fields[1] # fields[2] \/ fields[1] = "err_responces",
           Len(fields) > 2 => fields[3] \notin {"err_responces", fields[1], fields[2]},
           Count(fields)
    PROVE  StatisticsInv'
<1>1. /\ statistics \in Counts /\ happened \in [Fields -> Nat] /\ posted \in Counts \union {None}
      /\ tmp_stats \in Counts \union {None} /\ None \notin Counts /\ todo = <<>>
      /\ UNCHANGED <<statistics, posted, tmp_stats, ping>> /\ todo' = fields
      /\ thread' = "counted"
      /\ happened' = [f \in Fields |->
                         happened[f] + (IF f \in Range(fields) THEN 1 ELSE 0)]
    BY DEF StatisticsInv, CountersOK, Count, Counts
<1>2. happened' \in Counts
    BY <1>1 DEF Counts
<1>3. \A f \in Fields : Left(f) = 0
    BY <1>1 DEF Left, Place
<1>4. ASSUME NEW f \in Fields
      PROVE  Bound(f) + Left(f)' <= Bound(f)'
    <2>1. Len(fields) \in Nat /\ Len(fields) <= 3
        BY LenProperties
    <2>2. \A i \in 1..Len(fields) : fields[i] \in Range(fields)
        BY DEF Range
    <2>3. CASE f \in Range(fields)
        <3>1. happened'[f] = happened[f] + 1 /\ happened[f] \in Nat
            BY <1>1, <2>3
        <3>2. CASE f = "err_responces"
            <4>0. Place(3, f)' = 0
                <5>1. ~(3 <= Len(fields) /\ fields[3] = f)
                    BY <2>1, <3>2
                <5> QED
                    BY <1>1, <5>1 DEF Place
            <4>1. Left(f)' <= 2
                BY <4>0 DEF Left, Place
            <4>2. Bound(f) = 2 * happened[f] /\ Bound(f)' = 2 * happened'[f]
                BY <3>2 DEF Bound
            <4>3. Left(f)' \in Nat
                BY DEF Left, Place
            <4> QED
                BY <3>1, <4>1, <4>2, <4>3
        <3>3. CASE f # "err_responces"
            <4>1. Left(f)' <= 1
                BY <1>1, <2>1, <3>3 DEF Left, Place
            <4> QED
                BY <3>1, <3>3, <4>1 DEF Bound, Left, Place
        <3> QED
            BY <3>2, <3>3
    <2>4. CASE f \notin Range(fields)
        <3>1. happened'[f] = happened[f] /\ happened[f] \in Nat
            BY <1>1, <2>4
        <3>2. Left(f)' = 0
            BY <1>1, <2>1, <2>2, <2>4 DEF Left, Place
        <3> QED
            BY <3>1, <3>2 DEF Bound
    <2> QED
        BY <2>3, <2>4
<1>5. ASSUME NEW counts \in Counts, RoomIn(counts)
      PROVE  \A f \in Fields : counts[f] + Left(f)' <= Bound(f)'
    <2>1. SUFFICES ASSUME NEW f \in Fields
                   PROVE  counts[f] + Left(f)' <= Bound(f)'
        OBVIOUS
    <2>2. counts[f] \in Nat /\ counts[f] <= Bound(f)
        BY <1>3, <1>5 DEF RoomIn, Counts
    <2>3. Left(f)' \in Nat
        BY DEF Left, Place
    <2>4. happened[f] \in Nat /\ happened'[f] \in Nat
        BY <1>1, <1>2 DEF Counts
    <2>5. Bound(f) \in Nat /\ Bound(f)' \in Nat
        BY <2>4 DEF Bound
    <2> QED
        BY <1>4, <2>2, <2>3, <2>5
<1>6. RoomLeft'
    BY <1>1, <1>5 DEF StatisticsInv, RoomLeft, RoomIn
<1> QED
    BY <1>1, <1>2, <1>6 DEF StatisticsInv, CountersOK, CountedInTheMiddle, CopiesAgree

LEMMA EventsKeep ==
    ASSUME StatisticsInv,
           Sent \/ BadSend \/ Resent \/ NormalResponce \/ Expired \/ ErrResponce
    PROVE  StatisticsInv'
<1>1. CASE Sent
    <2> DEFINE e == <<"sent_messages">>
    <2>1. e \in Seq(Fields) /\ Len(e) = 1
        BY DEF Fields
    <2>2. e[1] = "sent_messages"
        OBVIOUS
    <2>3. Count(e)
        BY <1>1 DEF Sent
    <2> HIDE DEF e
    <2>4. /\ Len(e) <= 3
          /\ Len(e) > 1 => e[1] # e[2] \/ e[1] = "err_responces"
          /\ Len(e) > 2 => e[3] \notin {"err_responces", e[1], e[2]}
        BY <2>1, <2>2
    <2> QED
        BY <2>1, <2>3, <2>4, CountKeeps
<1>2. CASE BadSend
    <2> DEFINE e == <<"bad_sent_messages">>
    <2>1. e \in Seq(Fields) /\ Len(e) = 1
        BY DEF Fields
    <2>2. e[1] = "bad_sent_messages"
        OBVIOUS
    <2>3. Count(e)
        BY <1>2 DEF BadSend
    <2> HIDE DEF e
    <2>4. /\ Len(e) <= 3
          /\ Len(e) > 1 => e[1] # e[2] \/ e[1] = "err_responces"
          /\ Len(e) > 2 => e[3] \notin {"err_responces", e[1], e[2]}
        BY <2>1, <2>2
    <2> QED
        BY <2>1, <2>3, <2>4, CountKeeps
<1>3. CASE Resent
    <2> DEFINE e == <<"resent_messages">>
    <2>1. e \in Seq(Fields) /\ Len(e) = 1
        BY DEF Fields
    <2>2. e[1] = "resent_messages"
        OBVIOUS
    <2>3. Count(e)
        BY <1>3 DEF Resent
    <2> HIDE DEF e
    <2>4. /\ Len(e) <= 3
          /\ Len(e) > 1 => e[1] # e[2] \/ e[1] = "err_responces"
          /\ Len(e) > 2 => e[3] \notin {"err_responces", e[1], e[2]}
        BY <2>1, <2>2
    <2> QED
        BY <2>1, <2>3, <2>4, CountKeeps
<1>4. CASE NormalResponce
    <2> DEFINE e == <<"normal_responces", "all_responces">>
    <2>1. e \in Seq(Fields) /\ Len(e) = 2
        BY DEF Fields
    <2>2. e[1] = "normal_responces" /\ e[2] = "all_responces"
        OBVIOUS
    <2>3. Count(e)
        BY <1>4 DEF NormalResponce
    <2> HIDE DEF e
    <2>4. /\ Len(e) <= 3
          /\ Len(e) > 1 => e[1] # e[2] \/ e[1] = "err_responces"
          /\ Len(e) > 2 => e[3] \notin {"err_responces", e[1], e[2]}
        BY <2>1, <2>2
    <2> QED
        BY <2>1, <2>3, <2>4, CountKeeps
<1>5. CASE Expired
    <2> DEFINE e == <<"err_responces", "expired_responses", "all_responces">>
    <2>1. e \in Seq(Fields) /\ Len(e) = 3
        BY DEF Fields
    <2>2. e[1] = "err_responces" /\ e[2] = "expired_responses" /\ e[3] = "all_responces"
        OBVIOUS
    <2>3. Count(e)
        BY <1>5 DEF Expired
    <2> HIDE DEF e
    <2>4. /\ Len(e) <= 3
          /\ Len(e) > 1 => e[1] # e[2] \/ e[1] = "err_responces"
          /\ Len(e) > 2 => e[3] \notin {"err_responces", e[1], e[2]}
        BY <2>1, <2>2
    <2> QED
        BY <2>1, <2>3, <2>4, CountKeeps
<1>6. CASE ErrResponce
    <2> DEFINE e == <<"err_responces", "err_responces", "all_responces">>
    <2>1. e \in Seq(Fields) /\ Len(e) = 3
        BY DEF Fields
    <2>2. e[1] = "err_responces" /\ e[2] = "err_responces" /\ e[3] = "all_responces"
        OBVIOUS
    <2>3. Count(e)
        BY <1>6 DEF ErrResponce
    <2> HIDE DEF e
    <2>4. /\ Len(e) <= 3
          /\ Len(e) > 1 => e[1] # e[2] \/ e[1] = "err_responces"
          /\ Len(e) > 2 => e[3] \notin {"err_responces", e[1], e[2]}
        BY <2>1, <2>2
    <2> QED
        BY <2>1, <2>3, <2>4, CountKeeps
<1> QED
    BY <1>1, <1>2, <1>3, <1>4, <1>5, <1>6

\* An increment takes one from what is left and gives it to the counter; the copies only
\* gain room.
LEMMA IncrementKeeps ==
    ASSUME StatisticsInv, Increment
    PROVE  StatisticsInv'
<1> DEFINE g == Head(todo)
<1>1. /\ todo \in Seq(Fields) /\ todo # <<>> /\ Len(todo) <= 3 /\ todo' = Tail(todo)
      /\ statistics \in [Fields -> Nat] /\ happened \in [Fields -> Nat]
      /\ statistics' = [statistics EXCEPT ![g] = @ + 1]
      /\ UNCHANGED <<happened, posted, thread, ping, tmp_stats>>
    BY DEF StatisticsInv, CountersOK, Increment, Counts
<1>2. /\ Len(todo) \in 1..3 /\ g = todo[1] /\ g \in Fields
      /\ Len(Tail(todo)) = Len(todo) - 1 /\ Tail(todo) \in Seq(Fields)
      /\ \A i \in 1..Len(todo) - 1 : Tail(todo)[i] = todo[i + 1]
    <2>1. Len(todo) \in Nat /\ Len(todo) > 0
        BY <1>1, EmptySeq, LenProperties
    <2>2. /\ g \in Fields /\ Tail(todo) \in Seq(Fields) /\ Len(Tail(todo)) = Len(todo) - 1
          /\ \A i \in 1..Len(Tail(todo)) : Tail(todo)[i] = todo[i + 1]
        BY <1>1, HeadTailProperties
    <2>3. g = todo[1]
        BY <1>1
    <2>4. Len(todo) \in 1..3
        <3>1. Len(todo) <= 3
            BY <1>1
        <3>2. \A n \in Nat : n > 0 /\ n <= 3 => n \in 1..3
            OBVIOUS
        <3> HIDE DEF g
        <3> QED
            BY <2>1, <3>1, <3>2
    <2>5. \A i \in 1..Len(todo) - 1 : Tail(todo)[i] = todo[i + 1]
        BY <2>2
    <2> QED
        BY <2>2, <2>3, <2>4, <2>5
<1>3. statistics' \in Counts
    BY <1>1, <1>2 DEF Counts
<1>4. \A f \in Fields : Left(f) = Left(f)' + (IF f = g THEN 1 ELSE 0)
    <2>1. SUFFICES ASSUME NEW f \in Fields
                   PROVE  Left(f) = Left(f)' + (IF f = g THEN 1 ELSE 0)
        OBVIOUS
    <2>2. Place(1, f) = (IF f = g THEN 1 ELSE 0)
        BY <1>2 DEF Place
    <2>3. Place(2, f) = Place(1, f)'
        BY <1>1, <1>2 DEF Place
    <2>4. Place(3, f) = Place(2, f)'
        BY <1>1, <1>2 DEF Place
    <2>5. Place(3, f)' = 0
        BY <1>1, <1>2 DEF Place
    <2>6. Place(2, f) \in Nat /\ Place(3, f) \in Nat
        BY DEF Place
    <2> QED
        BY <2>2, <2>3, <2>4, <2>5, <2>6 DEF Left
<1>5. \A f \in Fields : Left(f)' \in Nat /\ Bound(f) \in Nat /\ Bound(f)' = Bound(f)
    BY <1>1, SMTT(30) DEF Left, Place, Bound
<1>6. ASSUME NEW counts \in Counts, RoomIn(counts)
      PROVE  \A f \in Fields : counts[f] + Left(f)' <= Bound(f)'
    <2>1. SUFFICES ASSUME NEW f \in Fields
                   PROVE  counts[f] + Left(f)' <= Bound(f)'
        OBVIOUS
    <2>2. counts[f] \in Nat /\ counts[f] + Left(f) <= Bound(f)
        BY <1>6 DEF RoomIn, Counts
    <2> QED
        BY <1>4, <1>5, <2>2
<1>7. \A f \in Fields : statistics'[f] + Left(f)' <= Bound(f)'
    <2>1. SUFFICES ASSUME NEW f \in Fields
                   PROVE  statistics'[f] + Left(f)' <= Bound(f)'
        OBVIOUS
    <2>2. statistics[f] \in Nat /\ statistics[f] + Left(f) <= Bound(f)
        BY <1>1 DEF StatisticsInv, RoomLeft, RoomIn
    <2>3. statistics'[f] = statistics[f] + (IF f = g THEN 1 ELSE 0)
        BY <1>1, <1>2
    <2> QED
        BY <1>4, <1>5, <2>2, <2>3
<1>8. RoomLeft'
    BY <1>1, <1>6, <1>7 DEF StatisticsInv, CountersOK, RoomLeft, RoomIn
<1>9. thread = "counted"
    BY <1>1 DEF StatisticsInv, CountedInTheMiddle
<1>10. CountersOK'
    BY <1>1, <1>2, <1>3 DEF StatisticsInv, CountersOK
<1> QED
    BY <1>1, <1>8, <1>9, <1>10 DEF StatisticsInv, CountedInTheMiddle, CopiesAgree

\* What moves the counters about as a whole: each of them becomes one of the three there
\* were.
Moved(counts) == counts \in {statistics, posted, tmp_stats, None}

LEMMA MovingKeeps ==
    ASSUME StatisticsInv, UNCHANGED <<todo, happened>>,
           Moved(statistics'), Moved(posted'), Moved(tmp_stats'), statistics' # None,
           CountedInTheMiddle', CopiesAgree'
    PROVE  StatisticsInv'
<1>1. CountersOK'
    BY DEF StatisticsInv, CountersOK, Moved
<1>2. ASSUME NEW counts, counts # None, Moved(counts)
      PROVE  \A f \in Fields : counts[f] + Left(f)' <= Bound(f)'
    <2>1. RoomIn(counts)
        BY <1>2 DEF Moved, StatisticsInv, RoomLeft
    <2> QED
        BY <2>1, RoomStays
<1>3. RoomLeft'
    BY <1>2 DEF RoomLeft, RoomIn
<1> QED
    BY <1>1, <1>3 DEF StatisticsInv

\* A new handle has counted nothing, and has nothing left to count.
LEMMA CreateHandleKeeps ==
    ASSUME StatisticsInv, CreateHandle
    PROVE  StatisticsInv'
<1>1. Zero \in Counts
    BY DEF Zero, Counts
<1>2. todo = <<>> /\ happened \in [Fields -> Nat]
    BY DEF StatisticsInv, CountedInTheMiddle, CreateHandle, CountersOK, Counts
<1>3. CountersOK'
    BY <1>1 DEF StatisticsInv, CountersOK, CreateHandle
<1>4. \A f \in Fields : Zero[f] + Left(f)' <= Bound(f)'
    BY <1>2 DEF CreateHandle, Zero, Left, Place, Bound
<1>5. ASSUME NEW counts, RoomIn(counts)
      PROVE  \A f \in Fields : counts[f] + Left(f)' <= Bound(f)'
    BY <1>5, RoomStays DEF CreateHandle
<1>6. RoomLeft'
    BY <1>4, <1>5 DEF StatisticsInv, RoomLeft, RoomIn, CreateHandle
<1> QED
    BY <1>2, <1>3, <1>6 DEF StatisticsInv, CountedInTheMiddle, CopiesAgree, CreateHandle

LEMMA StatisticsInvNext ==
    ASSUME StatisticsInv, [Next]_vars
    PROVE  StatisticsInv'
<1> USE DEF StatisticsInv, CountedInTheMiddle, CopiesAgree, Moved, Posted
<1>1. CASE UNCHANGED countVars
    BY <1>1, MovingKeeps DEF countVars, CountersOK
<1>2. CASE Increment
    BY <1>2, IncrementKeeps
<1>3. CASE Publish
    BY <1>3, MovingKeeps DEF Publish, CountersOK
<1>4. CASE DestroyHandle
    BY <1>4, MovingKeeps DEF DestroyHandle, CountersOK
<1>5. CASE BeginConnect
    BY <1>5, MovingKeeps DEF BeginConnect, CountersOK
<1>6. CASE GetStatistics
    BY <1>6, MovingKeeps DEF GetStatistics, CountersOK
<1>7. CASE AssignStatistics
    BY <1>7, MovingKeeps DEF AssignStatistics, CountersOK
<1>8. CASE PostStatistics
    BY <1>8, MovingKeeps DEF PostStatistics, CountersOK
<1>9. CASE EnqueueMessage
    BY <1>9, MovingKeeps DEF EnqueueMessage, CountersOK
<1>10. CASE \/ Server \/ Stop
            \/ \E s \in Services : UpdateServiceStats(s)
            \/ \E c \in Clients : Ask(c)
    <2>1. UNCHANGED countVars
        BY <1>10 DEF Server, Stop, UpdateServiceStats, Ask, Answer, NoAnswer, RequestThrows,
                     EndServer
    <2> QED
        BY <1>1, <2>1
<1>11. CASE UNCHANGED vars
    BY <1>1, <1>11 DEF vars
<1> QED
    BY <1>1, <1>2, <1>3, <1>4, <1>5, <1>6, <1>7, <1>8, <1>9, <1>10, <1>11, EventsKeep,
       CreateHandleKeeps
    DEF Next, HandleThread, PingThread

LEMMA StatisticsInvInit ==
    ASSUME Init
    PROVE  StatisticsInv
<1>1. Zero \in Counts /\ \A f \in Fields : Zero[f] = 0
    BY DEF Zero, Counts
<1>2. <<>> \in Seq(Fields) /\ Len(<<>>) = 0
    OBVIOUS
<1>3. CountersOK
    BY <1>1, <1>2, StatisticsConstants DEF Init, CountersOK
<1>4. \A f \in Fields : Left(f) = 0 /\ Bound(f) = 0
    BY <1>1 DEF Init, Left, Place, Bound
<1>5. RoomLeft
    BY <1>1, <1>4 DEF Init, RoomLeft, RoomIn
<1> QED
    BY <1>3, <1>5 DEF Init, StatisticsInv, CountedInTheMiddle, CopiesAgree

LEMMA StatisticsInvAlways == Spec => []StatisticsInv
<1>1. Init => StatisticsInv
    BY StatisticsInvInit
<1>2. StatisticsInv /\ [Next]_vars => StatisticsInv'
    BY StatisticsInvNext
<1> QED
    BY <1>1, <1>2, PTL DEF Spec

\* The copy posted is the handle's own whenever neither of the two threads that count,
\* overwrite and post is in the middle of something (handle.hpp:641-663).
THEOREM CopiesAlwaysAgree == Spec => []CopiesAgree
<1>1. StatisticsInv => CopiesAgree
    BY DEF StatisticsInv
<1> QED
    BY <1>1, StatisticsInvAlways, PTL

\* Overwriting counters by older copies loses counts and makes none; errors are counted
\* at most twice (handle.hpp:554-628, 641-663).
THEOREM NothingEverCountedTwice == Spec => []NothingCountedTwice
<1>1. StatisticsInv => NothingCountedTwice
    <2>1. SUFFICES ASSUME StatisticsInv, NEW counts \in {statistics, posted, tmp_stats} \ {None},
                          NEW f \in Fields
                   PROVE  counts[f] <= Bound(f)
        BY DEF NothingCountedTwice, Bound, Fields
    <2>2. counts \in Counts /\ RoomIn(counts)
        BY <2>1 DEF StatisticsInv, CountersOK, RoomLeft
    <2>3. counts[f] \in Nat /\ counts[f] + Left(f) <= Bound(f)
        BY <2>2 DEF RoomIn, Counts
    <2>4. Left(f) \in Nat
        BY DEF Left, Place
    <2>5. Bound(f) \in Nat
        BY <2>1 DEF Bound, StatisticsInv, CountersOK, Counts
    <2> QED
        BY <2>3, <2>4, <2>5
<1> QED
    BY <1>1, StatisticsInvAlways, PTL

\* A request waits, a socket waits and a copy is there only as the code has them, whoever
\* asks and counts: the copy that is assigned is always one (handle.hpp:641-663,
\* statistics_collector.cpp:118-190).
THEOREM StatisticsTypes == Spec => []StatisticsTypeOK
<1>1. Init => StatisticsTypeOK
    <2>1. Zero \in Counts
        BY DEF Zero, Counts
    <2> QED
        BY <2>1 DEF Init, StatisticsTypeOK
<1>2. ASSUME StatisticsTypeOK, StatisticsInv, StatisticsInv', [Next]_vars
      PROVE  StatisticsTypeOK'
    <2>1. /\ statistics' \in Counts /\ todo' \in Seq(Fields) /\ happened' \in Counts
          /\ posted' \in Counts \union {None} /\ tmp_stats' \in Counts \union {None}
        BY <1>2 DEF StatisticsInv, CountersOK
    <2>2. CASE HandleThread
        BY <1>2, <2>1, <2>2 DEF StatisticsTypeOK, HandleThread, Sent, BadSend, Resent, NormalResponce,
           Expired, ErrResponce, Count, Increment, Publish, serverVars
    <2>3. CASE PingThread
        BY <1>2, <2>1, <2>3 DEF StatisticsTypeOK, PingThread, CreateHandle, DestroyHandle, BeginConnect,
           GetStatistics, AssignStatistics, PostStatistics, serverVars
    <2>4. CASE EnqueueMessage
        BY <1>2, <2>1, <2>4 DEF StatisticsTypeOK, EnqueueMessage, serverVars
    <2>5. CASE Server \/ Stop
        BY <1>2, <2>1, <2>5 DEF StatisticsTypeOK, Server, EndServer, Answer, NoAnswer, RequestThrows, Stop,
           countVars
    <2>6. ASSUME NEW s \in Services, UpdateServiceStats(s)
          PROVE  StatisticsTypeOK'
        BY <1>2, <2>1, <2>6 DEF StatisticsTypeOK, UpdateServiceStats, countVars
    <2>7. ASSUME NEW c \in Clients, Ask(c)
          PROVE  StatisticsTypeOK'
        BY <1>2, <2>1, <2>7 DEF StatisticsTypeOK, Ask, countVars
    <2>8. CASE UNCHANGED vars
        BY <1>2, <2>8 DEF StatisticsTypeOK, vars, countVars, serverVars
    <2> QED
        BY <1>2, <2>2, <2>3, <2>4, <2>5, <2>6, <2>7, <2>8 DEF Next
<1> QED
    BY <1>1, <1>2, StatisticsInvAlways, PTL DEF Spec
=============================================================================
