-------------------------------- MODULE Bands --------------------------------
(***************************************************************************)
(* How long a band can wait: one core's decisions (Scheduler::pick and     *)
(* reschedule, sched.rs) over the policy of module Policy, with a count of *)
(* the decisions each band with a candidate has been passed over.  What is *)
(* runnable changes freely between decisions: tasks block, wake, start and *)
(* exit.                                                                   *)
(***************************************************************************)
EXTENDS Policy

CONSTANT TableSize   \* tasks.len()

ASSUME TableAssumption == TableSize \in Nat

VARIABLES
    picks,     \* Scheduler::picks of this core
    current,   \* Scheduler::current of this core
    class,     \* Task::class
    passed,    \* passed[k]: decisions band k has had a candidate and lost
    above      \* decisions the top band has won from bands below with a candidate

bandVars == <<picks, current, class, passed, above>>
Table == 0..(TableSize - 1)

BandTypeOK ==
    /\ picks \in 0..(2 * FAIRNESS_EVERY - 1)
    /\ current \in Table
    /\ class \in [Table -> AllClasses]
    /\ passed \in [AllClasses -> Nat]
    /\ above \in Nat

BandInit ==
    /\ picks = 0
    /\ current \in Table
    /\ class \in [Table -> AllClasses]
    /\ passed = [k \in AllClasses |-> 0]
    /\ above = 0

\* One decision: pick among the runnable tasks, and keep or hand over the
\* core.  Every task is at home here.
Decide(runnable, honour_class) ==
    LET next == class_choose(TableSize, current, picks, runnable, Table, class)
        stays == honour_class /\ ~ should_switch(class[current], class[next],
                                                 is_fair(picks))
        waiting(k) == InBand(runnable \ {current}, class, k)
        served == IF stays THEN current ELSE next
    IN  /\ next # None
        /\ picks' = advance(picks, next)
        /\ current' = served
        /\ passed' = [k \in AllClasses |->
                         IF k = class[served] \/ waiting(k) = {} THEN 0 ELSE passed[k] + 1]
        /\ above' = IF class[served] # Latency \/ waiting(Normal) \cup waiting(Bulk) = {}
                    THEN 0 ELSE above + 1
        /\ UNCHANGED class

BandNext == \E runnable \in SUBSET Table, honour_class \in BOOLEAN :
            Decide(runnable, honour_class)

BandSpec == BandInit /\ [][BandNext]_bandVars

\* The escape's bound: while a band below the top has a candidate, at least one
\* decision in every FAIRNESS_EVERY goes below the top, and a band that always
\* has one is served within two of those cycles.  FAIRNESS_EVERY's comment
\* promises the bottom band one decision in each cycle; that is so only while
\* the middle band is empty, since the two take the cycles in turn.
LowerBandsWaitBounded ==
    /\ above <= FAIRNESS_EVERY - 1
    /\ \A k \in {Normal, Bulk} : passed[k] <= 2 * FAIRNESS_EVERY - 1
-----------------------------------------------------------------------------
\* What a band can have lost by each phase of the fairness cycle: Bulk's turn
\* ends the first half, Normal's the second, and either ends the top's run.
WaitSoFar ==
    /\ passed[Normal] <= picks
    /\ passed[Bulk] <= IF picks >= FAIRNESS_EVERY THEN picks - FAIRNESS_EVERY ELSE picks + FAIRNESS_EVERY
    /\ above <= IF picks >= FAIRNESS_EVERY THEN picks - FAIRNESS_EVERY ELSE picks

BandInv == BandTypeOK /\ WaitSoFar
=============================================================================
