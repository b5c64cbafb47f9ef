----------------------------- MODULE TimeValue ------------------------------
(***************************************************************************)
(* Points in time and spans of it (src/library/time_value.cpp), a timer    *)
(* over them (src/library/progress_timer.cpp), and the one thing that      *)
(* measures time with it: the wait of the pinger for the answer of a host  *)
(* (get_metainfo_from_host of src/library/http_heartbeats_collector.cpp).  *)
(*                                                                         *)
(* A time_value is a pair of seconds and microseconds.  A double that      *)
(* stands for a time is its number of microseconds here; the conversion    *)
(* back to a time_value truncates, and may lose one to a double that is a  *)
(* little less than the sum or the quotient it stands for.                 *)
(***************************************************************************)
EXTENDS Integers

CONSTANTS
    Second,       \* microseconds in a second
    Timeout,      \* what a ping waits for an answer: 0.5 seconds
    PollTime,     \* what a poll waits: DEFAULT_SOCKET_POLL_TIMEOUT
    Starts,       \* what the clock may show at first
    MaxStep,      \* bound: what the clock may be set forth or back at once
    MaxSteps      \* bound: times the clock is set

ASSUME TimeConstants ==
    /\ Second \in Nat \ {0} /\ Timeout \in Nat /\ PollTime \in Nat \ {0}
    /\ Starts \subseteq Nat
    /\ MaxStep \in Nat /\ MaxSteps \in Nat

-----------------------------------------------------------------------------
(* time_value *)

TimeValues == [sec : Int, usec : Int]
Empty == [sec |-> 0, usec |-> 0]

microseconds(v) == v.sec * Second + v.usec
as_double(v) == microseconds(v)

\* time_value(double), of a time that is not negative
Truncated(d) == [sec |-> d \div Second, usec |-> d % Second]
FromDouble(d) == {Truncated(x) : x \in {d, d - 1} \cap Nat}

\* get_current_time of a clock
Current(clock) == [sec |-> clock \div Second, usec |-> clock % Second]

Later(v, w) == as_double(v) > as_double(w)

\* the difference of the microseconds, as often as needed borrowed from the seconds
Borrow(diff) ==
    LET debt == IF diff.usec < 0 THEN (Second - 1 - diff.usec) \div Second ELSE 0
    IN [sec |-> diff.sec - debt, usec |-> diff.usec + debt * Second]

\* A bug that could be made in the next one: nothing is borrowed from the seconds.
distance_unborrowed(v, w) ==
    LET diff == [sec |-> w.sec - v.sec, usec |-> w.usec - v.usec]
        d == IF diff.usec < 0 THEN diff.sec * Second - diff.usec ELSE microseconds(diff)
    IN IF d < 0 THEN -d ELSE d

distance(v, w) ==
    LET d == microseconds(Borrow([sec |-> w.sec - v.sec, usec |-> w.usec - v.usec]))
    IN IF d < 0 THEN -d ELSE d

\* += and -= of an interval; nothing goes below zero
Plus(v, interval) == FromDouble(as_double(v) + interval)
\* A bug that could be made in the next one: nothing stops at zero.
Minus_absolute(v, interval) ==
    FromDouble(IF as_double(v) >= interval THEN as_double(v) - interval
                                           ELSE interval - as_double(v))

Minus(v, interval) ==
    IF as_double(v) >= interval THEN FromDouble(as_double(v) - interval) ELSE {Empty}

-----------------------------------------------------------------------------
(* A ping that waits *)

VARIABLES
    clock,     \* external: what gettimeofday shows, in microseconds
    passed,    \* external: the time that has really passed since the timer started
    back,      \* external: what the clock was set back in all
    forth,     \* ... and forth
    steps,
    begin,     \* begin_ of the timer
    elapsed,   \* what elapsed() returned last
    answered,  \* res > 0
    outcome    \* what the wait ended with

timeVars == <<clock, passed, back, forth, steps, begin, elapsed, answered, outcome>>

TimeInit ==
    /\ clock \in Starts
    /\ passed = 0 /\ back = 0 /\ forth = 0 /\ steps = 0
    /\ begin = Current(clock)
    /\ elapsed = Empty
    /\ answered = FALSE
    /\ outcome = "waiting"

\* progress_timer::elapsed
Elapsed ==
    IF Later(begin, Current(clock)) THEN {Empty}
    ELSE FromDouble(distance(Current(clock), begin))

\* zmq_poll: it returns with an answer within its time, or without one at its end
Poll ==
    /\ outcome = "waiting" /\ ~answered
    /\ \E t \in 0..PollTime :
        /\ answered' \in {TRUE} \union (IF t = PollTime THEN {FALSE} ELSE {})
        /\ clock' = clock + t /\ passed' = passed + t
    /\ outcome' = "polled"
    /\ UNCHANGED <<back, forth, steps, begin, elapsed>>

\* A bug that could be made in the next one: the wait ends at the first poll.
LookOnce ==
    /\ outcome = "polled"
    /\ elapsed' \in Elapsed
    /\ outcome' = IF answered THEN "answer" ELSE "none"
    /\ UNCHANGED <<clock, passed, back, forth, steps, begin, answered>>

\* A bug that could be made in the next one: the thread waits on until it has an answer.
LookWithAnswer ==
    /\ outcome = "polled" /\ answered
    /\ elapsed' \in Elapsed
    /\ outcome' = "answer"
    /\ UNCHANGED <<clock, passed, back, forth, steps, begin, answered>>

\* the test of the timer, and of the loop
Look ==
    /\ outcome = "polled"
    /\ elapsed' \in Elapsed
    /\ outcome' = IF answered THEN "answer"
                  ELSE IF as_double(elapsed') > Timeout THEN "none" ELSE "waiting"
    /\ UNCHANGED <<clock, passed, back, forth, steps, begin, answered>>

\* external: somebody sets the clock
SetClock ==
    /\ steps < MaxSteps /\ outcome \in {"waiting", "polled"}
    /\ \E d \in 1..MaxStep :
        \/ clock' = clock + d /\ forth' = forth + d /\ UNCHANGED back
        \/ clock >= d /\ clock' = clock - d /\ back' = back + d /\ UNCHANGED forth
    /\ steps' = steps + 1
    /\ UNCHANGED <<passed, begin, elapsed, answered, outcome>>

TimeNext == Poll \/ Look \/ SetClock
\* the pinger goes on
TimeSpec == TimeInit /\ [][TimeNext]_timeVars /\ WF_timeVars(Poll) /\ WF_timeVars(Look)

-----------------------------------------------------------------------------
(* Properties *)

TimeTypeOK ==
    /\ clock \in Nat /\ passed \in Nat /\ back \in Nat /\ forth \in Nat /\ steps \in 0..MaxSteps
    /\ begin \in TimeValues /\ elapsed \in TimeValues
    /\ 0 <= elapsed.usec /\ elapsed.usec < Second
    /\ answered \in BOOLEAN /\ outcome \in {"waiting", "polled", "answer", "none"}

\* A host is given up only after the timeout, unless the clock was set forth; and it is
\* not waited for longer than the timeout, one poll and what the clock was set back: the
\* collector's mutex is held for that long.
WaitIsTimely ==
    /\ outcome = "none" => passed + forth > Timeout
    /\ outcome = "waiting" => passed <= Timeout + 1 + back

\* What the timer shows is never more than what passed and the clock was set forth, nor
\* more than a microsecond less, but for what it was set back.
TimerIsRight ==
    /\ as_double(elapsed) <= passed + forth
    /\ outcome \in {"answer", "none"} => as_double(elapsed) >= passed - back - 1

\* An interval added and subtracted again loses no more than what two conversions
\* truncate, and neither that nor a subtraction from a time that is too small ever ends
\* after the beginning (src/tests/tests.cpp:57, 69).
ArithmeticIsClose ==
    \A i \in 0..Timeout :
        /\ \A v \in Plus(begin, i) : \A w \in Minus(v, i) :
              ~Later(w, begin) /\ distance(w, begin) <= 2
        /\ \A w \in Minus(begin, i) : ~Later(w, begin)

\* The wait ends, wherever the clock is set.
WaitEnds == <>(outcome \in {"answer", "none"})
=============================================================================
