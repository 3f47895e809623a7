------------------------------- MODULE Policy -------------------------------
(***************************************************************************)
(* The scheduler's picking policy: crates/abi/src/affinity.rs (which slot  *)
(* a core reaches for) and crates/abi/src/class.rs (in which band order).  *)
(* Both are pure functions in the source; the kernel passes its state in   *)
(* as predicates over slots, which are sets of slots here.                 *)
(***************************************************************************)
EXTENDS Integers

CONSTANT FAIRNESS_EVERY   \* class.rs: 8 in the kernel

ASSUME FairnessAssumption == FAIRNESS_EVERY \in Nat \ {0}

\* usize::MAX / Option::None: "no task", "no home", "nothing chosen".
None == -1

\* class.rs, enum Class: the discriminants are the order of urgency.
Latency == 1
Normal  == 2
Bulk    == 3
AllClasses == {Latency, Normal, Bulk}

\* affinity.rs, allows: a mask is the set of cores it names.
allows(mask, cpu) == cpu \in mask

\* affinity.rs, satisfiable
satisfiable(mask, online) == mask \cap online # {}

\* affinity.rs, homed_here: a task that never ran is at home everywhere.
homed_here(last, cpu) == last = cpu \/ last = None

(***************************************************************************)
(* The scans.  First(n, from, S) is the member of S the round-robin order  *)
(* from+1, from+2, ... (mod n) reaches first.                              *)
(***************************************************************************)
First(n, from, S) ==
    CHOOSE i \in S : \A j \in S : (i - from - 1) % n <= (j - from - 1) % n

\* The two passes of affinity::choose: the sticky candidates if there are
\* any, otherwise every candidate.
TwoPass(n, from, pickable, sticky) ==
    LET near == pickable \cap sticky
        pool == IF near # {} THEN near ELSE pickable
    IN  IF pool = {} THEN None ELSE First(n, from, pool)

\* affinity::choose scans the offsets 1..n-1 and so never returns from.
affinity_choose(n, from, pickable, sticky) ==
    TwoPass(n, from, pickable \ {from}, sticky)

\* affinity::choose_first scans 0..n-1, slot 0 included.
affinity_choose_first(n, pickable, sticky) ==
    TwoPass(n, n - 1, pickable, sticky)

\* class.rs, is_fair and bands.  picks counts one core's decisions.
is_fair(picks) == picks % FAIRNESS_EVERY = FAIRNESS_EVERY - 1

\* Mutant: the escape always starts at Bulk.
bands_bottom(picks) == IF is_fair(picks) THEN <<Bulk, Normal, Latency>>
                       ELSE <<Latency, Normal, Bulk>>

bands(picks) ==
    IF ~ is_fair(picks) THEN <<Latency, Normal, Bulk>>
    ELSE IF (picks \div FAIRNESS_EVERY) % 2 = 0
         THEN <<Bulk, Normal, Latency>>
         ELSE <<Normal, Bulk, Latency>>

\* The three-band loop of class::choose and class::choose_first: the first
\* answer that is not None.
FirstFound(a, b, c) == IF a # None THEN a ELSE IF b # None THEN b ELSE c

InBand(pickable, class, band) == {i \in pickable : class[i] = band}

class_choose(n, from, picks, pickable, sticky, class) ==
    LET found(k) == affinity_choose(n, from,
                        InBand(pickable, class, bands(picks)[k]), sticky)
    IN  FirstFound(found(1), found(2), found(3))

class_choose_first(n, picks, pickable, sticky, class) ==
    LET found(k) == affinity_choose_first(n,
                        InBand(pickable, class, bands(picks)[k]), sticky)
    IN  FirstFound(found(1), found(2), found(3))

\* class.rs, should_switch: an involuntary switch never goes down a band,
\* except on a fairness decision.
should_switch(running, candidate, fair) == fair \/ candidate <= running

\* class.rs, outranked: the picker's independent check.
outranked(chosen, pickable, class) == \E i \in pickable : class[i] < chosen

\* Scheduler::advance: the phase moves on with every decision that had a
\* candidate.  Only picks modulo 2*FAIRNESS_EVERY is ever read, and 2^64 is
\* a multiple of it, so the wrapping u64 is kept modulo that.
advance(picks, next) ==
    IF next = None THEN picks ELSE (picks + 1) % (2 * FAIRNESS_EVERY)
=============================================================================
