------------------------------- MODULE Clock --------------------------------
(***************************************************************************)
(* The monotonic clock and the timers (hal clock.rs, arch timer.rs, and    *)
(* the sleeping half of irq.rs and sched.rs).  A counter runs at the       *)
(* machine's frequency and is read in nanoseconds; each core has one       *)
(* one-shot timer, armed for the tick period or for a nearer deadline; any *)
(* interrupt wakes every task whose deadline has passed.  An interrupt     *)
(* that is due is taken before the counter moves on.                       *)
(***************************************************************************)
EXTENDS Integers, FiniteSetsExt

CONSTANTS
    TimerCores, Sleepers,
    Freqs,       \* counter frequencies a machine may report, none of them 0
    SECOND,      \* nanoseconds in a second
    TICK_HZ,     \* periodic ticks in a second
    MIN_NANOS,   \* no shorter interval is programmed
    LAST,        \* the largest value of a u64
    Deadlines,   \* deadlines tasks ask for
    MaxCount     \* how far the counter runs

\* A frequency is a u64 and not 0; there is more than one tick in a second.
ASSUME ClockAssumption ==
    /\ Freqs \subseteq 1..LAST /\ Deadlines \subseteq 0..LAST
    /\ SECOND \in Nat \ {0} /\ TICK_HZ \in Nat \ {0, 1} /\ MIN_NANOS \in Nat /\ LAST \in Nat

VARIABLES
    freq, base,   \* what the machine reported, and the counter when the clock started
    counter,      \* CNTPCT
    armed,        \* [at, aim] per core: when it fires, the deadline it is for or -1
    asleep        \* a task's deadline, -1 when it is not sleeping

clockVars == <<freq, base, counter, armed, asleep>>

\* What Euclid's loop answers: the greatest number that divides both.
gcd(x, y) == Max({k \in 1..y : x % k = 0 /\ y % k = 0})
Capped(n) == Min({n, LAST})

\* The scale is kept as a reduced fraction; a reading rounds down, a duration
\* to be waited for rounds up.
from_hz(f) == [num |-> SECOND \div gcd(SECOND, f), den |-> f \div gcd(SECOND, f)]
nanos(t) == LET s == from_hz(freq) IN Capped((t * s.num) \div s.den)
\* Mutant: the duration rounds down too.
ticks_floor(n) == LET s == from_hz(freq) IN Capped((n * s.den) \div s.num)
ticks(n) == LET s == from_hz(freq) IN Capped((n * s.den + s.num - 1) \div s.num)

\* The count is never behind the base, but the subtraction saturates.
monotonic_ns == nanos(Max({counter - base, 0}))
period == freq \div TICK_HZ

arm(n, aim) == [at |-> counter + n, aim |-> aim]

ClockInit ==
    /\ freq \in Freqs /\ base \in 0..1 /\ counter = base
    /\ armed = [c \in TimerCores |-> arm(period, -1)]
    /\ asleep = [t \in Sleepers |-> -1]
-----------------------------------------------------------------------------
\* Fire for deadline d, but not sooner than the floor nor later than a tick.
Aimed(d) ==
    LET t == ticks(Max({d - monotonic_ns, MIN_NANOS}))
    IN arm(Min({t, period}), IF t <= period THEN d ELSE -1)
next_wake == {asleep[t] : t \in Sleepers} \ {-1}
next_interval == IF next_wake = {} THEN arm(period, -1) ELSE Aimed(Min(next_wake))

\* SleepUntil, and any wait with a deadline: one that has passed returns at
\* once; else this core's timer is aimed and the task parks.
sleep_until(c, t, d) ==
    /\ asleep[t] = -1 /\ d > monotonic_ns
    /\ armed' = [armed EXCEPT ![c] = Aimed(d)]
    /\ asleep' = [asleep EXCEPT ![t] = d]
    /\ UNCHANGED <<freq, base, counter>>
\* A peer's signal ends a wait early.
unblock(t) ==
    /\ asleep[t] # -1 /\ asleep' = [asleep EXCEPT ![t] = -1]
    /\ UNCHANGED <<freq, base, counter, armed>>

wake_expired == asleep' = [t \in Sleepers |-> IF asleep[t] <= monotonic_ns THEN -1 ELSE asleep[t]]
\* The timer's interrupt: re-armed from the sleepers as they are, which are
\* then woken in the epilogue.
timer_irq(c) ==
    /\ armed[c].at <= counter
    /\ armed' = [armed EXCEPT ![c] = next_interval] /\ wake_expired
    /\ UNCHANGED <<freq, base, counter>>
\* Any other interrupt.
other_irq == wake_expired /\ UNCHANGED <<freq, base, counter, armed>>

Count ==
    /\ counter < MaxCount /\ \A c \in TimerCores : armed[c].at > counter
    /\ counter' = counter + 1 /\ UNCHANGED <<freq, base, armed, asleep>>

ClockNext ==
    \/ \E c \in TimerCores, t \in Sleepers, d \in Deadlines : sleep_until(c, t, d)
    \/ \E t \in Sleepers : unblock(t)
    \/ \E c \in TimerCores : timer_irq(c)
    \/ other_irq \/ Count
ClockSpec == ClockInit /\ [][ClockNext]_clockVars
-----------------------------------------------------------------------------
\* A timer aimed at a deadline never fires before the clock shows it, whatever
\* the frequency: the handler would find nobody to wake and aim again.
FiresOnTime ==
    \A c \in TimerCores : armed[c].aim # -1 => nanos(armed[c].at - base) >= armed[c].aim

\* Why: the clock runs from its base, sleepers sleep for a deadline, and a timer
\* once aimed stays right, since neither the base nor the frequency changes.
ClockInv ==
    /\ freq \in Freqs /\ base \in Nat /\ counter \in Nat /\ base <= counter
    /\ asleep \in [Sleepers -> Deadlines \cup {-1}]
    /\ DOMAIN armed = TimerCores
    /\ FiresOnTime
=============================================================================
