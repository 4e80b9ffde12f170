------------------------------- MODULE Timers -------------------------------
(***************************************************************************)
(* A timer over the tick counter of the operating system, which wraps.     *)
(* The SDK polls its timers in loops that do not sleep, so polling twice   *)
(* in one tick does.                                                       *)
(***************************************************************************)
EXTENDS Integers

CONSTANTS
    Wrap,        \* 2^32, the range of TickType_t and uint32_t
    Period,      \* portTICK_PERIOD_MS
    MsPerSec,    \* 1000
    Timeouts,    \* arguments of countdown_ms
    Seconds      \* arguments of countdown_sec

ASSUME TimersAssumption ==
    /\ {Wrap, Period, MsPerSec} \subseteq Nat \ {0}
    /\ Timeouts \subseteq 0..(Wrap - 1)
    /\ Seconds \subseteq Nat

VARIABLES
    ticks,       \* xTaskGetTickCount()
    timer,       \* start_ticks, timeout_ticks and last_polled_ticks
    asked,       \* the milliseconds that the timer was last set to
    passed,      \* the ticks since, up to a turn of the counter
    spun         \* polls that were told at once, in this tick, to go on waiting

timerVars == <<ticks, timer, asked, passed, spun>>

Word(n) == n % Wrap

\* countdown_ms: a time-out is cut to whole ticks.
CountdownMs(ms) == [start |-> ticks, timeout |-> ms \div Period, polled |-> 0]

\* countdown_sec: an overflow is logged and happens.
CountdownSec(sec) == CountdownMs(Word(sec * MsPerSec))

\* A mutant of Elapsed: the counter is taken not to wrap.
ElapsedUnwrapped == ticks - timer.start

Elapsed == Word(ticks - timer.start)

HasTimerExpired == Elapsed >= timer.timeout
LeftMs == IF HasTimerExpired THEN 0 ELSE (timer.timeout - Elapsed) * Period

\* init_timer, when the counter stands at zero.
TimerInit ==
    /\ ticks = 0
    /\ timer = [start |-> 0, timeout |-> 0, polled |-> 0]
    /\ asked = 0
    /\ passed = 0
    /\ spun = 0

Set(newTimer, ms) ==
    /\ timer' = newTimer
    /\ asked' = ms
    /\ passed' = 0
    /\ spun' = 0
    /\ UNCHANGED ticks

\* Bound of the model: a timer is watched for one turn of the counter.
Tick ==
    /\ passed < Wrap
    /\ ticks' = Word(ticks + 1)
    /\ passed' = passed + 1
    /\ spun' = 0

\* A mutant of PollTimer: an answer that was given at once is not remembered.
PollTimerForgets ==
    /\ IF ~HasTimerExpired /\ ticks = timer.polled
       THEN Tick
       ELSE /\ spun' = IF HasTimerExpired THEN spun ELSE spun + 1
            /\ UNCHANGED <<ticks, passed>>
    /\ UNCHANGED <<timer, asked>>

\* has_timer_expired: a second poll in the same tick sleeps until the next one.
PollTimer ==
    /\ IF ~HasTimerExpired /\ ticks = timer.polled
       THEN Tick
       ELSE /\ spun' = IF HasTimerExpired THEN spun ELSE spun + 1
            /\ UNCHANGED <<ticks, passed>>
    /\ timer' = [timer EXCEPT !.polled = ticks]
    /\ UNCHANGED asked

TimerNext ==
    \/ \E ms \in Timeouts : Set(CountdownMs(ms), ms)
    \/ \E sec \in Seconds : Set(CountdownSec(sec), sec * MsPerSec)
    \/ Tick /\ UNCHANGED <<timer, asked>>
    \/ PollTimer

TimerSpec == TimerInit /\ [][TimerNext]_timerVars
-----------------------------------------------------------------------------
\* For less than a turn of the tick counter, and a time-out of less than 2^32
\* milliseconds: a timer expires when its time-out, cut to ticks, has gone by,
\* wherever the counter stood when it was set, and until then it says how much
\* is left (has_timer_expired and left_ms).  The polls that wait for an
\* acknowledgement and the reads of the network stop when they should.
TimersExact ==
    passed < Wrap /\ asked < Wrap =>
        /\ HasTimerExpired <=> (passed + 1) * Period > asked
        /\ LeftMs \in 0..asked
        /\ LeftMs > 0 <=> ~HasTimerExpired
        /\ LeftMs > asked - (passed + 1) * Period

\* "If it seems like the caller is polling an unexpired timer in a tight loop
\* then we delay a tick to let things progress elsewhere" (has_timer_expired):
\* whenever the timer was set, whatever the counter and however often it wrapped,
\* a loop is told to go on at most once before it has to sleep.
PollingSleeps == spun <= 1
=============================================================================
