------------------------------- MODULE MCLive -------------------------------
(***************************************************************************)
(* Instances of Ipc, and of Sched beside it for what must happen in the    *)
(* end.  A behaviour is about one part, chosen in the initial state; the   *)
(* others stand still.  The core's variables carry its name where Ipc has  *)
(* one of the same name.                                                   *)
(***************************************************************************)
EXTENDS Ipc

VARIABLES
    part,
    n, state, core_pending, on_cpu, affinity, class, last_cpu, ttbr0, stack, ctx, resume,
    current, picks, PREV, core_pc, sp, active, dying, live, need_resched

\* Nobody waits for notifications, or only "b" does, through polls.
NoWatch == [t \in Tasks |-> {}]
NoBell == [e \in Endpoints |-> NoNotif]
OneBell == [e \in Endpoints |-> "bell"]
PollsB == {"b"} \X Endpoints

\* One core and three processes that declare a class, spin, sleep and exit;
\* every second pick is a fairness pick.
S == INSTANCE Sched WITH FAIRNESS_EVERY <- 2, Cores <- {0}, Primary <- 0, MaxTasks <- 3, Boot <- 3,
                         Spaces <- {0, 1, 2}, Masks <- {}, Classes <- {1, 2, 3}, Parks <- {"Sleeping"},
                         wake_pending <- core_pending, pc <- core_pc

coreVars == <<n, state, core_pending, on_cpu, affinity, class, last_cpu, ttbr0, stack, ctx, resume,
              current, picks, PREV, core_pc, sp, active, dying, live, need_resched>>

\* polling: "b" polls an endpoint others send to, and nobody's receive has a
\* deadline.  timed: receives with and without a deadline, and no polls.
InPart ==
    /\ part = "polling" => \A t \in Tasks : pc'[t] = "recv_park" => deadline'[t] = "none"
    /\ part = "timed" => UNCHANGED <<notify, pending>> /\ \A t \in Tasks : ids'[t] = {}

\* core: the third process spins, changes its class or exits, and never sleeps.
Restless == state'[2] # "Sleeping"

LiveInit == part \in {"core", "polling", "timed"} /\ Init /\ S!Init

LiveNext ==
    /\ IF part = "core" THEN S!ExitingNext /\ Restless ELSE UNCHANGED coreVars
    /\ IF part = "core" THEN UNCHANGED vars ELSE Next /\ InPart
    /\ UNCHANGED part

\* The fairness of each module, while its part runs.
LiveFairness ==
    /\ WF_coreVars(part = "core" /\ S!Dispatch(0))
    /\ SF_coreVars(part = "core" /\ S!Irq(0))
    /\ SF_coreVars(part = "core" /\ S!WakeExpired(0) /\ need_resched)
    /\ SF_coreVars(part = "core" /\ S!Preempt(0))
    /\ Fairness

\* The endpoints alone, with every operation the constants allow.
CallsInit == part = "calls" /\ Init /\ S!Init

CallsSpec == CallsInit /\ [][Next /\ UNCHANGED <<part, coreVars>>]_<<part, coreVars, vars>>

LiveSpec == LiveInit /\ [][LiveNext]_<<part, coreVars, vars>> /\ LiveFairness
-----------------------------------------------------------------------------
\* The fairness escape: every band that has a runnable task is eventually
\* served, whatever the bands above it do (module Sched).
BandServed ==
    \A k \in S!AllClasses : part = "core" /\ S!BandHas(k, "Ready") ~> S!BandHas(k, "Running")

\* Every exited task's kernel stack is eventually returned to the heap
\* (module Sched).
DeadIsReaped == S!DeadIsReaped
=============================================================================
