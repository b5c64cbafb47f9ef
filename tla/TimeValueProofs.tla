-------------------------- MODULE TimeValueProofs ---------------------------
(***************************************************************************)
(* Proofs about TimeValue: what a difference, a sum and a timer are worth, *)
(* for seconds of any length, any timeout and any settings of the clock.   *)
(*                                                                         *)
(* The argument.  A time_value stands for its number of microseconds, and  *)
(* every operation is the one on numbers, but for what truncation loses    *)
(* (CurrentIsClock, TruncatedIs, DistanceIs).  Then the clock shows what   *)
(* it showed at the beginning, and what passed and it was set (ClockMoves).*)
(***************************************************************************)
EXTENDS TimeValue, TLAPS

\* Seconds and microseconds of a number of microseconds.
LEMMA Divided ==
    ASSUME NEW d \in Nat
    PROVE  /\ d \div Second \in Nat /\ d % Second \in Nat /\ d % Second < Second
           /\ (d \div Second) * Second + (d % Second) = d
<1>1. Second \in Nat \ {0}
    BY TimeConstants
<1> QED
    BY <1>1

LEMMA TruncatedIs ==
    ASSUME NEW d \in Nat
    PROVE  /\ as_double(Truncated(d)) = d /\ Truncated(d) \in TimeValues
           /\ 0 <= Truncated(d).usec /\ Truncated(d).usec < Second
BY Divided DEF as_double, microseconds, Truncated, TimeValues

LEMMA CurrentIsClock ==
    ASSUME NEW t \in Nat
    PROVE  as_double(Current(t)) = t /\ Current(t) \in TimeValues
BY Divided DEF as_double, microseconds, Current, TimeValues

\* A double becomes a time_value that is it, or a microsecond less.
LEMMA FromDoubleIs ==
    ASSUME NEW d \in Nat, NEW v \in FromDouble(d)
    PROVE  /\ as_double(v) \in {d, d - 1} \cap Nat /\ v \in TimeValues
           /\ 0 <= v.usec /\ v.usec < Second
<1>1. PICK x \in {d, d - 1} \cap Nat : v = Truncated(x)
    BY DEF FromDouble
<1> QED
    BY <1>1, TruncatedIs

\* What is borrowed is given back.
LEMMA BorrowKeeps ==
    ASSUME NEW diff \in TimeValues
    PROVE  microseconds(Borrow(diff)) = microseconds(diff) /\ Borrow(diff) \in TimeValues
<1>1. Second \in Nat \ {0}
    BY TimeConstants
<1>2. PICK debt \in Int :
          Borrow(diff) = [sec |-> diff.sec - debt, usec |-> diff.usec + debt * Second]
    <2>1. diff.usec < 0 => (Second - 1 - diff.usec) \div Second \in Int
        BY <1>1 DEF TimeValues
    <2> DEFINE owed == IF diff.usec < 0 THEN (Second - 1 - diff.usec) \div Second ELSE 0
    <2>2. owed \in Int
        BY <2>1
    <2>3. Borrow(diff) = [sec |-> diff.sec - owed, usec |-> diff.usec + owed * Second]
        BY DEF Borrow
    <2> HIDE DEF owed
    <2> QED
        BY <2>2, <2>3
<1>3. diff.sec \in Int /\ diff.usec \in Int /\ debt * Second \in Int
    BY <1>1, <1>2 DEF TimeValues
<1>4. (diff.sec - debt) * Second = diff.sec * Second - debt * Second
    BY <1>1, <1>3
<1> QED
    BY <1>1, <1>2, <1>3, <1>4 DEF microseconds, TimeValues

\* A distance is the difference of the numbers, either way.
LEMMA DistanceIs ==
    ASSUME NEW v \in TimeValues, NEW w \in TimeValues
    PROVE  /\ as_double(v) \in Int /\ as_double(w) \in Int
           /\ distance(v, w) = IF as_double(w) < as_double(v) THEN as_double(v) - as_double(w)
                                                             ELSE as_double(w) - as_double(v)
<1> DEFINE diff == [sec |-> w.sec - v.sec, usec |-> w.usec - v.usec]
<1>1. Second \in Nat
    BY TimeConstants
<1>2. /\ v.sec \in Int /\ v.usec \in Int /\ w.sec \in Int /\ w.usec \in Int
      /\ diff \in TimeValues
    BY DEF TimeValues
<1>3. /\ v.sec * Second \in Int /\ w.sec * Second \in Int
      /\ (w.sec - v.sec) * Second = w.sec * Second - v.sec * Second
    BY <1>1, <1>2
<1>4. microseconds(diff) = as_double(w) - as_double(v) /\ as_double(v) \in Int /\ as_double(w) \in Int
    BY <1>2, <1>3 DEF microseconds, as_double
<1>5. microseconds(Borrow(diff)) = as_double(w) - as_double(v)
    BY <1>2, <1>4, BorrowKeeps
<1> QED
    BY <1>4, <1>5 DEF distance

-----------------------------------------------------------------------------
(* The wait *)

\* The clock shows what it showed at the beginning, what passed and what it was set.
ClockMoves ==
    /\ clock \in Nat /\ begin \in TimeValues /\ elapsed \in TimeValues
    /\ passed \in Nat /\ back \in Nat /\ forth \in Nat
    /\ clock = as_double(begin) + passed + forth - back

TimeInv ==
    /\ ClockMoves
    /\ outcome \in {"waiting", "polled", "answer", "none"}
    /\ \E t \in Nat : begin = Current(t)
    /\ TimerIsRight
    /\ WaitIsTimely

\* What the timer shows: the difference of the clock, if it is not negative, or a
\* microsecond less.
LEMMA ElapsedIs ==
    ASSUME ClockMoves, NEW v \in Elapsed
    PROVE  /\ v \in TimeValues /\ as_double(v) \in Nat
           /\ as_double(v) <= passed + forth
           /\ as_double(v) >= passed + forth - back - 1
<1>1. /\ as_double(Current(clock)) = clock /\ Current(clock) \in TimeValues
      /\ clock \in Nat /\ begin \in TimeValues
    BY CurrentIsClock DEF ClockMoves
<1>2. /\ as_double(begin) \in Int /\ passed \in Nat /\ back \in Nat /\ forth \in Nat
      /\ clock = as_double(begin) + passed + forth - back
    BY <1>1, DistanceIs DEF ClockMoves
<1>3. CASE Later(begin, Current(clock))
    <2>1. v = Empty
        BY <1>3 DEF Elapsed
    <2>2. as_double(Empty) = 0 /\ Empty \in TimeValues
        BY TimeConstants DEF Empty, as_double, microseconds, TimeValues
    <2>3. as_double(begin) > clock
        BY <1>1, <1>3 DEF Later
    <2> QED
        BY <1>1, <1>2, <2>1, <2>2, <2>3
<1>4. CASE ~Later(begin, Current(clock))
    <2>1. as_double(begin) <= clock
        BY <1>1, <1>2, <1>4 DEF Later
    <2>2. distance(Current(clock), begin) = clock - as_double(begin)
        BY <1>1, <1>2, <2>1, DistanceIs
    <2>3. clock - as_double(begin) \in Nat
        BY <1>1, <1>2, <2>1
    <2>4. v \in FromDouble(clock - as_double(begin))
        BY <1>4, <2>2 DEF Elapsed
    <2>5. as_double(v) \in {clock - as_double(begin), clock - as_double(begin) - 1} \cap Nat
        BY <2>3, <2>4, FromDoubleIs
    <2>6. v \in TimeValues
        BY <2>3, <2>4, FromDoubleIs
    <2> QED
        BY <1>1, <1>2, <2>5, <2>6
<1> QED
    BY <1>3, <1>4

LEMMA TimeInvInit ==
    ASSUME TimeInit
    PROVE  TimeInv
<1>1. clock \in Nat
    BY TimeConstants DEF TimeInit
<1>2. /\ begin \in TimeValues /\ as_double(begin) = clock /\ begin = Current(clock)
      /\ elapsed = Empty /\ passed = 0 /\ back = 0 /\ forth = 0 /\ outcome = "waiting"
    BY <1>1, CurrentIsClock DEF TimeInit
<1>3. as_double(Empty) = 0 /\ Empty \in TimeValues
    BY TimeConstants DEF Empty, as_double, microseconds, TimeValues
<1>4. ClockMoves
    BY <1>1, <1>2, <1>3 DEF ClockMoves
<1>5. TimerIsRight /\ WaitIsTimely
    BY <1>2, <1>3, TimeConstants DEF TimerIsRight, WaitIsTimely
<1> QED
    BY <1>1, <1>2, <1>4, <1>5 DEF TimeInv

LEMMA TimeInvNext ==
    ASSUME TimeInv, [TimeNext]_timeVars
    PROVE  TimeInv'
<1>1. /\ clock \in Nat /\ begin \in TimeValues /\ elapsed \in TimeValues
      /\ passed \in Nat /\ back \in Nat /\ forth \in Nat
      /\ as_double(begin) \in Int /\ as_double(elapsed) \in Int
      /\ clock = as_double(begin) + passed + forth - back
      /\ as_double(elapsed) <= passed + forth
    BY DistanceIs DEF TimeInv, ClockMoves, TimerIsRight
<1>2. CASE UNCHANGED timeVars
    BY <1>2 DEF timeVars, TimeInv, ClockMoves, TimerIsRight, WaitIsTimely, as_double, microseconds
<1>3. CASE Poll
    <2>1. PICK t \in 0..PollTime : clock' = clock + t /\ passed' = passed + t
        BY <1>3 DEF Poll
    <2>2. t \in Nat
        BY <2>1, TimeConstants
    <2>3. /\ outcome' = "polled"
          /\ UNCHANGED <<back, forth, begin, elapsed>>
          /\ as_double(begin)' = as_double(begin) /\ as_double(elapsed)' = as_double(elapsed)
        BY <1>3 DEF Poll, as_double, microseconds
    <2>4. ClockMoves'
        BY <1>1, <2>1, <2>2, <2>3 DEF ClockMoves
    <2>5. TimerIsRight' /\ WaitIsTimely'
        BY <1>1, <2>1, <2>2, <2>3 DEF TimerIsRight, WaitIsTimely
    <2> QED
        BY <2>3, <2>4, <2>5 DEF TimeInv
<1>4. CASE Look
    <2>1. /\ elapsed' \in Elapsed
          /\ outcome' = IF answered THEN "answer"
                        ELSE IF as_double(elapsed') > Timeout THEN "none" ELSE "waiting"
          /\ UNCHANGED <<clock, passed, back, forth, begin>>
          /\ as_double(begin)' = as_double(begin) /\ as_double(elapsed)' = as_double(elapsed')
        BY <1>4 DEF Look, as_double, microseconds
    <2>2. /\ elapsed' \in TimeValues /\ as_double(elapsed') \in Nat
          /\ as_double(elapsed') <= passed + forth
          /\ as_double(elapsed') >= passed + forth - back - 1
        BY <2>1, ElapsedIs DEF TimeInv
    <2>3. ClockMoves'
        BY <1>1, <2>1, <2>2 DEF ClockMoves
    <2>4. TimerIsRight'
        BY <1>1, <2>1, <2>2 DEF TimerIsRight
    <2>5. WaitIsTimely'
        BY <1>1, <2>1, <2>2, TimeConstants DEF WaitIsTimely
    <2>6. outcome' \in {"waiting", "polled", "answer", "none"}
        BY <2>1
    <2> QED
        BY <2>1, <2>3, <2>4, <2>5, <2>6 DEF TimeInv
<1>5. CASE SetClock
    <2>1. PICK d \in 1..MaxStep :
              \/ clock' = clock + d /\ forth' = forth + d /\ UNCHANGED back
              \/ clock >= d /\ clock' = clock - d /\ back' = back + d /\ UNCHANGED forth
        BY <1>5 DEF SetClock
    <2>2. d \in Nat
        BY <2>1, TimeConstants
    <2>3. /\ outcome \in {"waiting", "polled"} /\ outcome' = outcome
          /\ UNCHANGED <<passed, begin, elapsed>>
          /\ as_double(begin)' = as_double(begin) /\ as_double(elapsed)' = as_double(elapsed)
        BY <1>5 DEF SetClock, as_double, microseconds
    <2>4. ClockMoves'
        BY <1>1, <2>1, <2>2, <2>3 DEF ClockMoves
    <2>5. TimerIsRight'
        BY <1>1, <2>1, <2>2, <2>3 DEF TimerIsRight
    <2>6. outcome = "waiting" => passed <= Timeout + 1 + back
        BY DEF TimeInv, WaitIsTimely
    <2>7. WaitIsTimely'
        BY <1>1, <2>1, <2>2, <2>3, <2>6, TimeConstants DEF WaitIsTimely
    <2> QED
        BY <2>3, <2>4, <2>5, <2>7 DEF TimeInv
<1> QED
    BY <1>2, <1>3, <1>4, <1>5 DEF TimeNext

LEMMA TimeInvAlways == TimeSpec => []TimeInv
<1>1. TimeInit => TimeInv
    BY TimeInvInit
<1>2. TimeInv /\ [TimeNext]_timeVars => TimeInv'
    BY TimeInvNext
<1> QED
    BY <1>1, <1>2, PTL DEF TimeSpec

\* What the timer shows is right, but for what the clock was set and a microsecond
\* (progress_timer.cpp:33-42).
THEOREM TimerAlwaysRight == TimeSpec => []TimerIsRight
<1>1. TimeInv => TimerIsRight
    BY DEF TimeInv
<1> QED
    BY <1>1, TimeInvAlways, PTL

\* A host is neither given up too early nor waited for too long
\* (http_heartbeats_collector.cpp, get_metainfo_from_host).
THEOREM WaitsAreTimely == TimeSpec => []WaitIsTimely
<1>1. TimeInv => WaitIsTimely
    BY DEF TimeInv
<1> QED
    BY <1>1, TimeInvAlways, PTL

\* Adding and subtracting an interval loses at most two microseconds, and gains none
\* (time_value.cpp, operators += and -=).
THEOREM ArithmeticAlwaysClose == TimeSpec => []ArithmeticIsClose
<1>1. TimeInv => ArithmeticIsClose
    <2>1. SUFFICES ASSUME TimeInv, NEW i \in 0..Timeout
                   PROVE  /\ \A v \in Plus(begin, i) : \A w \in Minus(v, i) :
                                ~Later(w, begin) /\ distance(w, begin) <= 2
                          /\ \A w \in Minus(begin, i) : ~Later(w, begin)
        BY DEF ArithmeticIsClose
    <2>2. i \in Nat /\ begin \in TimeValues /\ as_double(begin) \in Nat
        BY <2>1, TimeConstants, CurrentIsClock DEF TimeInv, ClockMoves
    <2>3. as_double(Empty) = 0 /\ Empty \in TimeValues
        BY TimeConstants DEF Empty, as_double, microseconds, TimeValues
    <2>4. ASSUME NEW u \in TimeValues, as_double(u) \in Nat, NEW w \in Minus(u, i)
          PROVE  /\ w \in TimeValues /\ as_double(w) \in Nat
                 /\ as_double(u) >= i => as_double(w) \in {as_double(u) - i, as_double(u) - i - 1}
                 /\ as_double(u) < i => as_double(w) = 0
        <3>1. CASE as_double(u) >= i
            <4>1. w \in FromDouble(as_double(u) - i) /\ as_double(u) - i \in Nat
                BY <2>2, <2>4, <3>1 DEF Minus
            <4> QED
                BY <2>2, <2>4, <3>1, <4>1, FromDoubleIs
        <3>2. CASE ~(as_double(u) >= i)
            <4>1. w = Empty
                BY <2>4, <3>2 DEF Minus
            <4> QED
                BY <2>2, <2>3, <2>4, <3>2, <4>1
        <3> QED
            BY <3>1, <3>2
    <2>5. ASSUME NEW v \in Plus(begin, i), NEW w \in Minus(v, i)
          PROVE  ~Later(w, begin) /\ distance(w, begin) <= 2
        <3>1. v \in TimeValues /\ as_double(v) \in {as_double(begin) + i, as_double(begin) + i - 1} \cap Nat
            BY <2>2, FromDoubleIs DEF Plus
        <3>2. /\ w \in TimeValues /\ as_double(w) \in Nat
              /\ as_double(w) <= as_double(begin) /\ as_double(begin) - as_double(w) <= 2
            BY <2>2, <2>4, <3>1
        <3>3. distance(w, begin) = as_double(begin) - as_double(w)
            BY <2>2, <3>2, DistanceIs
        <3> QED
            BY <2>2, <3>2, <3>3 DEF Later
    <2>6. ASSUME NEW w \in Minus(begin, i)
          PROVE  ~Later(w, begin)
        BY <2>2, <2>4 DEF Later
    <2> QED
        BY <2>5, <2>6
<1> QED
    BY <1>1, TimeInvAlways, PTL
=============================================================================
