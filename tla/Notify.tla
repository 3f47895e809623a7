------------------------------- MODULE Notify -------------------------------
(***************************************************************************)
(* Notifications, crates/kernel/src/notify.rs, over the scheduler's        *)
(* parking (module Parking).  Every action is one critical section of      *)
(* NOTIFY or of SCHED; the gaps between them are where signals race        *)
(* waiters.  Tasks run concurrently, as they do with enough cores.         *)
(*                                                                         *)
(* pc[p] is where process p is: "user", or in wait_any at                  *)
(*   check    the first critical section of a round                        *)
(*   park     registered, on the way into block_until                      *)
(*   awake    back from block_until (or parked in it)                      *)
(*   retry    deregistered with nothing consumed                           *)
(* or in signal, at "wake": the waiter is taken, unblock not yet called.   *)
(*                                                                         *)
(* A deadline is "none", "ahead" or "past".  Pending counts saturate at    *)
(* MaxPending, which stands for u32::MAX.                                  *)
(***************************************************************************)
EXTENDS Parking, FiniteSets

CONSTANTS
    Notifs,      \* notification ids
    Lines,       \* processes that only signal: interrupt handlers
    Watch,       \* Watch[t]: the sets of notifications task t waits for
    MaxPending   \* where a pending count saturates

NoTask == "none"
Procs == Tasks \cup Lines

ASSUME ProcsAssumption == Tasks \cap Lines = {} /\ NoTask \notin Procs
ASSUME WatchAssumption == Watch \in [Tasks -> SUBSET ((SUBSET Notifs) \ {{}})]
\* One driver owns one line: no two tasks watch a notification (the module
\* comment's "Single-waiter by design").
ASSUME SingleWaiter ==
    \A t, u \in Tasks : t # u => (UNION Watch[t]) \cap (UNION Watch[u]) = {}
ASSUME PendingAssumption == MaxPending \in Nat \ {0}

VARIABLES
    pending,     \* Notification::pending
    waiter,      \* Notification::waiter
    pc,          \* where each process is
    ids,         \* wait_any: the sources named by the call
    deadline,    \* wait_any: the deadline of the call
    owed         \* signal: the task taken from the slot, still to be woken

notifyVars == <<pending, waiter, pc, ids, deadline, owed>>
waitVars == <<parkVars, notifyVars>>

NotifyPhases == {"user", "check", "park", "awake", "retry", "wake"}

\* The state's types, for the phases of this module and those a module built
\* on it adds.
NotifyTypes(phases) ==
    /\ ParkTypeOK
    /\ pending \in [Notifs -> 0..MaxPending]
    /\ waiter \in [Notifs -> Tasks \cup {NoTask}]
    /\ pc \in [Procs -> phases]
    /\ ids \in [Tasks -> SUBSET Notifs]
    /\ deadline \in [Tasks -> {"none", "ahead", "past"}]
    /\ owed \in [Procs -> Tasks \cup {NoTask}]

NotifyTypeOK == NotifyTypes(NotifyPhases)

NotifyInit ==
    /\ ParkInit
    /\ pending = [i \in Notifs |-> 0]
    /\ waiter = [i \in Notifs |-> NoTask]
    /\ pc = [p \in Procs |-> "user"]
    /\ ids = [t \in Tasks |-> {}]
    /\ deadline = [t \in Tasks |-> "none"]
    /\ owed = [p \in Procs |-> NoTask]

Goto(p, where) == pc' = [pc EXCEPT ![p] = where]

\* A call returns to user mode with nothing left of it.
Return(t) ==
    /\ Goto(t, "user")
    /\ ids' = [ids EXCEPT ![t] = {}]
    /\ deadline' = [deadline EXCEPT ![t] = "none"]

-----------------------------------------------------------------------------
\* signal, its critical section: count the signal and take the waiter.

saturating_add(n) == IF n < MaxPending THEN n + 1 ELSE n

count_signal(i) ==
    /\ pending' = [pending EXCEPT ![i] = saturating_add(@)]
    /\ waiter' = [waiter EXCEPT ![i] = NoTask]

SignalCount(p, i) ==
    /\ pc[p] = "user"
    /\ count_signal(i)
    /\ owed' = [owed EXCEPT ![p] = waiter[i]]
    /\ Goto(p, IF waiter[i] = NoTask THEN "user" ELSE "wake")
    /\ UNCHANGED <<parkVars, ids, deadline>>

\* signal, outside the lock: wake the waiter it took, if any.
SignalWake(p) ==
    /\ pc[p] = "wake"
    /\ unblock(owed[p])
    /\ owed' = [owed EXCEPT ![p] = NoTask]
    /\ Goto(p, "user")
    /\ UNCHANGED <<pending, waiter, ids, deadline>>

-----------------------------------------------------------------------------
\* The wait_any syscall; the caller's choice of sources and deadline.
WaitAny(t, watch, until) ==
    /\ pc[t] = "user" /\ Up(t)
    /\ ids' = [ids EXCEPT ![t] = watch]
    /\ deadline' = [deadline EXCEPT ![t] = until]
    /\ Goto(t, "check")
    /\ UNCHANGED <<parkVars, pending, waiter, owed>>

\* consume_ready takes one signal of the first ready source.  The order of
\* ids is the caller's, so any ready source may be the first.
ready(t) == {i \in ids[t] : pending[i] > 0}
consume_ready(t) ==
    \E i \in ready(t) : pending' = [pending EXCEPT ![i] = @ - 1]

\* The round's first critical section: consume, give up, or register on
\* every source.
Check(t) ==
    /\ pc[t] = "check"
    /\ \/ /\ consume_ready(t)
          /\ Return(t)
          /\ UNCHANGED waiter
       \/ /\ ready(t) = {} /\ deadline[t] = "past"
          /\ Return(t)
          /\ UNCHANGED <<pending, waiter>>
       \/ /\ ready(t) = {} /\ deadline[t] # "past"
          /\ waiter' = [i \in Notifs |-> IF i \in ids[t] THEN t ELSE waiter[i]]
          /\ Goto(t, "park")
          /\ UNCHANGED <<pending, ids, deadline>>
    /\ UNCHANGED <<parkVars, owed>>

\* block_until returns at once when the deadline has passed.
BlockUntil(t) ==
    /\ pc[t] = "park"
    /\ \/ deadline[t] = "past" /\ UNCHANGED parkVars
       \/ deadline[t] = "ahead" /\ park(t, "Sleeping")
       \/ deadline[t] = "none" /\ park(t, "Blocked")
    /\ Goto(t, "awake")
    /\ UNCHANGED <<pending, waiter, ids, deadline, owed>>

\* Awake: deregister from every source, then consume.

deregistered(t) == [i \in Notifs |-> IF i \in ids[t] /\ waiter[i] = t
                                     THEN NoTask ELSE waiter[i]]

Deregister(t) ==
    /\ pc[t] = "awake" /\ Up(t)
    /\ waiter' = deregistered(t)
    /\ \/ consume_ready(t) /\ Return(t)
       \/ /\ ready(t) = {}
          /\ Goto(t, "retry")
          /\ UNCHANGED <<pending, ids, deadline>>
    /\ UNCHANGED <<parkVars, owed>>

Retry(t) ==
    /\ pc[t] = "retry"
    /\ IF deadline[t] = "past" THEN Return(t)
       ELSE Goto(t, "check") /\ UNCHANGED <<ids, deadline>>
    /\ UNCHANGED <<parkVars, pending, waiter, owed>>

\* The clock reaches a deadline; an interrupt's wake_expired frees every
\* sleeper that is late.
Tick(t) ==
    /\ deadline[t] = "ahead"
    /\ deadline' = [deadline EXCEPT ![t] = "past"]
    /\ UNCHANGED <<parkVars, pending, waiter, pc, ids, owed>>

Expire ==
    /\ wake_expired({t \in Tasks : parked[t] = "Sleeping" /\ deadline[t] = "past"})
    /\ UNCHANGED notifyVars

-----------------------------------------------------------------------------
NotifyNext ==
    \/ \E p \in Procs, i \in Notifs : SignalCount(p, i)
    \/ \E p \in Procs : SignalWake(p)
    \/ \E t \in Tasks, until \in {"none", "ahead", "past"} :
          \E watch \in Watch[t] : WaitAny(t, watch, until)
    \/ \E t \in Tasks : \/ Check(t) \/ BlockUntil(t) \/ Deregister(t)
                        \/ Retry(t) \/ Tick(t)
    \/ Expire

NotifySpec == NotifyInit /\ [][NotifyNext]_waitVars

\* A task inside the kernel is run to the end of its step, the clock moves
\* on, and every tick's interrupt runs wake_expired.
NotifyFairness ==
    /\ \A p \in Procs : WF_waitVars(SignalWake(p))
    /\ \A t \in Tasks : /\ WF_waitVars(Check(t)) /\ WF_waitVars(BlockUntil(t))
                        /\ WF_waitVars(Deregister(t)) /\ WF_waitVars(Retry(t))
                        /\ WF_waitVars(Tick(t))
    /\ WF_waitVars(Expire)

NotifyFairSpec == NotifySpec /\ NotifyFairness

-----------------------------------------------------------------------------
Waiting(t) == pc[t] \in {"check", "park", "awake", "retry"}

\* "Without it we would sleep holding a signal nobody will send again": a
\* task parked in wait_any with a signal counted on one of its sources is
\* about to be woken by the process that took it from the waiter slot.
NoSleepOnSignal ==
    \A t \in Tasks : pc[t] = "awake" /\ ~ Up(t) /\ ready(t) # {}
                        => \E p \in Procs : owed[p] = t

\* "Waking deregisters from every id": a slot names a task only while that
\* task is between registering and deregistering, on a source of its call.
RegisteredWhileWaiting ==
    \A i \in Notifs : waiter[i] # NoTask =>
        pc[waiter[i]] \in {"park", "awake"} /\ i \in ids[waiter[i]]

\* "So no edge is lost": a source with signals counted keeps at least one
\* until some task's wait_any consumes it; a signal never empties it.
SignalsKept ==
    [][\A i \in Notifs : pending[i] > 0 /\ pending'[i] = 0 =>
          \E t \in Tasks : i \in ids[t] /\ pc'[t] = "user"]_waitVars

\* A wait with a signal to take, and a wait with a deadline, both end.
SignalledReturns ==
    \A t \in Tasks : Waiting(t) /\ ready(t) # {} ~> pc[t] = "user"
TimedReturns ==
    \A t \in Tasks : deadline[t] # "none" ~> pc[t] = "user"

(***************************************************************************)
(* The inductive invariant behind NoSleepOnSignal: a task on its way to    *)
(* sleep, or asleep, is still registered on every source and none has a    *)
(* signal, or somebody has taken it from a slot and its wake-up is noted   *)
(* or still to come.                                                       *)
(***************************************************************************)
Owed(t) == \E p \in Procs : owed[p] = t
Untouched(t) == \A i \in ids[t] : waiter[i] = t /\ pending[i] = 0

WatchesItsOwn == \A t \in Tasks : ids[t] \subseteq UNION Watch[t]
ParkedInWait == \A t \in Tasks : ~ Up(t) => pc[t] = "awake"
WakesOwed == \A p \in Procs : owed[p] # NoTask => pc[p] = "wake"
WakeComes ==
    \A t \in Tasks :
        /\ pc[t] = "park" => Untouched(t) \/ wake_pending[t] \/ Owed(t)
        /\ pc[t] = "awake" /\ ~ Up(t) => Untouched(t) \/ Owed(t)

NotifyInv == /\ NotifyTypeOK /\ WatchesItsOwn /\ ParkedInWait /\ WakesOwed
             /\ RegisteredWhileWaiting /\ WakeComes
=============================================================================
