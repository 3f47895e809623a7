-------------------------------- MODULE Sched --------------------------------
(***************************************************************************)
(* The SMP scheduler, crates/kernel/src/sched.rs: one task table under one *)
(* lock, every core picking from it, and a context switch that happens     *)
(* after the lock is dropped.  An action is one critical section of SCHED  *)
(* or one step a core takes outside it.                                    *)
(*                                                                         *)
(* Interrupts are masked from the start of a syscall to its end and across *)
(* every switch, so an interrupt is taken only in user mode ("run") or in  *)
(* the bootstrap loop's idle_wait ("wfi").                                 *)
(*                                                                         *)
(* pc[c] is where core c is:                                               *)
(*   idle     its bootstrap loop (start / run_secondary), about to look    *)
(*   wfi      the same loop, asleep in idle_wait                           *)
(*   run      user mode of its current task                                *)
(*   irq      staros_irq_dispatch done, epilogue not begun                 *)
(*   epi/woke wake_expired done (woke: it made something Ready)            *)
(*   migrate  set_affinity, between two rounds of its loop                 *)
(*   switch   successor claimed, lock dropped, TTBR0 still the old one     *)
(*   ttbr     TTBR0 is the successor's, context_switch not yet done        *)
(*   settle   on the successor's stack, post_switch not yet done           *)
(*   done     start() has returned to kmain (primary only)                 *)
(*                                                                         *)
(* Deadlines are abstracted: any set of Sleeping tasks may have expired.   *)
(* Mailboxes are in module Ipc, notifications in module Notify.            *)
(***************************************************************************)
EXTENDS Policy, FiniteSets

CONSTANTS
    Cores,      \* core indices that came online
    Primary,    \* the core that runs kmain
    MaxTasks,   \* bound on the task table's length
    Boot,       \* tasks kmain spawns before start()
    Spaces,     \* address spaces (their root tables)
    Masks,      \* affinity masks programs ask for
    Classes,    \* classes programs declare
    Parks       \* how programs park: without ("Blocked") or with a deadline

ASSUME CoresAssumption == Cores \subseteq Nat /\ Primary \in Cores
ASSUME SlotsAssumption == MaxTasks \in Nat /\ Boot \in 1..MaxTasks
ASSUME MasksAssumption == \A m \in Masks : m \subseteq Cores /\ m # {}
ASSUME ClassesAssumption == Classes \subseteq AllClasses
ASSUME ParksAssumption == Parks \subseteq {"Blocked", "Sleeping"}
ASSUME SpacesAssumption == Spaces \subseteq Nat /\ 0..(Boot - 1) \subseteq Spaces

VARIABLES
    n,            \* tasks.len()
    state,        \* Task::state
    wake_pending, \* Task::wake_pending
    on_cpu,       \* Task::on_cpu
    affinity,     \* Task::affinity
    class,        \* Task::class
    last_cpu,     \* Task::last_cpu
    ttbr0,        \* Task::ttbr0: the space the task lives in
    stack,        \* Task::stack: its kernel stack is "none", "owned", "freed"
    ctx,          \* Task::ctx holds the whole task ("saved") or not ("stale")
    resume,       \* kernel code the task returns to: "user" or set_affinity
    current,      \* Scheduler::current
    picks,        \* Scheduler::picks
    PREV,         \* PREV
    pc,           \* where the core is
    sp,           \* the task whose kernel stack the core stands on
    active,       \* the core's TTBR0_EL1
    dying,        \* exit(): the space this core is about to destroy
    live,         \* spaces whose frames are allocated
    need_resched  \* NEED_RESCHED, one flag for every core

taskVars == <<n, state, wake_pending, on_cpu, affinity, class, last_cpu,
              ttbr0, stack, ctx, resume>>
coreVars == <<current, picks, PREV, pc, sp, active, dying>>
vars == <<taskVars, coreVars, live, need_resched>>

Slots  == 0..(MaxTasks - 1)
Table  == 0..(n - 1)
States == {"Unborn", "Ready", "Running", "Blocked", "Sleeping", "Dead"}
Phases == {"idle", "wfi", "run", "irq", "epi", "woke", "migrate",
           "switch", "ttbr", "settle", "done"}

TypeOK ==
    /\ n \in 0..MaxTasks
    /\ state \in [Slots -> States]
    /\ wake_pending \in [Slots -> BOOLEAN]
    /\ on_cpu \in [Slots -> BOOLEAN]
    /\ affinity \in [Slots -> SUBSET Cores]
    /\ class \in [Slots -> AllClasses]
    /\ last_cpu \in [Slots -> Cores \cup {None}]
    /\ ttbr0 \in [Slots -> Spaces]
    /\ stack \in [Slots -> {"none", "owned", "freed"}]
    /\ ctx \in [Slots -> {"saved", "stale"}]
    /\ resume \in [Slots -> {"user", "migrate"}]
    /\ current \in [Cores -> Slots \cup {None}]
    /\ picks \in [Cores -> 0..(2 * FAIRNESS_EVERY - 1)]
    /\ PREV \in [Cores -> Slots \cup {None}]
    /\ pc \in [Cores -> Phases]
    /\ sp \in [Cores -> Slots \cup {None}]
    /\ active \in [Cores -> Spaces \cup {None}]
    /\ dying \in [Cores -> Spaces \cup {None}]
    /\ live \subseteq Spaces
    /\ need_resched \in BOOLEAN

\* kmain has spawned Boot processes, each in a space of its own, and every
\* core is in its bootstrap loop.
Init ==
    /\ n = Boot
    /\ state = [t \in Slots |-> IF t < Boot THEN "Ready" ELSE "Unborn"]
    /\ wake_pending = [t \in Slots |-> FALSE]
    /\ on_cpu = [t \in Slots |-> FALSE]
    /\ affinity = [t \in Slots |-> Cores]
    /\ class = [t \in Slots |-> Normal]
    /\ last_cpu = [t \in Slots |-> None]
    /\ ttbr0 = [t \in Slots |-> IF t < Boot THEN t ELSE 0]
    /\ stack = [t \in Slots |-> IF t < Boot THEN "owned" ELSE "none"]
    /\ ctx = [t \in Slots |-> "saved"]
    /\ resume = [t \in Slots |-> "user"]
    /\ current = [c \in Cores |-> None]
    /\ picks = [c \in Cores |-> 0]
    /\ PREV = [c \in Cores |-> None]
    /\ pc = [c \in Cores |-> "idle"]
    /\ sp = [c \in Cores |-> None]
    /\ active = [c \in Cores |-> None]
    /\ dying = [c \in Cores |-> None]
    /\ live = 0..(Boot - 1)
    /\ need_resched = FALSE

-----------------------------------------------------------------------------
\* Mutants of pickable: the on-cpu guard dropped, the mask ignored.
pickable_on_cpu(c) == {t \in Table : /\ state[t] = "Ready"
                                     /\ allows(affinity[t], c)}
pickable_anywhere(c) == {t \in Table : state[t] = "Ready" /\ ~ on_cpu[t]}

\* Scheduler::pickable and Scheduler::sticky, as the sets of slots they admit.
pickable(c) == {t \in Table : /\ state[t] = "Ready"
                              /\ allows(affinity[t], c)
                              /\ ~ on_cpu[t]}
sticky(c) == {t \in Table : homed_here(last_cpu[t], c)}

\* Scheduler::pick and Scheduler::pick_idle
pick(c, from) ==
    class_choose(n, from, picks[c], pickable(c), sticky(c), class)
pick_idle(c) ==
    class_choose_first(n, picks[c], pickable(c), sticky(c), class)

\* Scheduler::any_runnable
any_runnable == \E t \in Table : state[t] \in {"Ready", "Running", "Sleeping"}

\* Mutant of take: the predecessor is released with the claim, not by
\* post_switch.
take_releases(c, prev, left, next) ==
    /\ state' = [t \in Slots |-> IF t = next THEN "Running"
                                 ELSE IF t = prev THEN left ELSE state[t]]
    /\ on_cpu' = [t \in Slots |-> t = next \/ (on_cpu[t] /\ t # prev)]
    /\ last_cpu' = [t \in Slots |-> IF t = next THEN c ELSE last_cpu[t]]
    /\ current' = [current EXCEPT ![c] = next]
    /\ PREV' = [PREV EXCEPT ![c] = prev]
    /\ picks' = [picks EXCEPT ![c] = advance(@, next)]
    /\ pc' = [pc EXCEPT ![c] = "switch"]

\* Scheduler::take, with what every caller does in the same critical section:
\* leave prev in the state left, note it in PREV, make next (None: the
\* bootstrap context) current, and drop the lock on the way to the switch.
take(c, prev, left, next) ==
    /\ state' = [t \in Slots |-> IF t = next THEN "Running"
                                 ELSE IF t = prev THEN left ELSE state[t]]
    /\ on_cpu' = [t \in Slots |-> t = next \/ on_cpu[t]]
    /\ last_cpu' = [t \in Slots |-> IF t = next THEN c ELSE last_cpu[t]]
    /\ current' = [current EXCEPT ![c] = next]
    /\ PREV' = [PREV EXCEPT ![c] = prev]
    /\ picks' = [picks EXCEPT ![c] = advance(@, next)]
    /\ pc' = [pc EXCEPT ![c] = "switch"]

\* What no switch decision touches.
KeepRest == UNCHANGED <<n, wake_pending, affinity, class, ttbr0, stack, ctx,
                        sp, active, live>>

Goto(c, where) == pc' = [pc EXCEPT ![c] = where]
User(c) == pc[c] = "run"

-----------------------------------------------------------------------------
\* start / run_secondary: claim a task from the bootstrap loop.
IdlePick(c) ==
    LET next == pick_idle(c) IN
    /\ pc[c] = "idle"
    /\ next # None
    /\ take(c, None, "Ready", next)
    /\ KeepRest /\ UNCHANGED <<resume, dying, need_resched>>

\* idle_wait: nothing for this core, sleep until an interrupt.
IdleWait(c) ==
    /\ pc[c] = "idle"
    /\ pick_idle(c) = None
    /\ c = Primary => any_runnable
    /\ Goto(c, "wfi")
    /\ UNCHANGED <<taskVars, current, picks, PREV, sp, active, dying, live,
                   need_resched>>

\* start: the primary leaves its loop when nothing is runnable anywhere.
Stop ==
    /\ pc[Primary] = "idle"
    /\ ~ any_runnable
    /\ Goto(Primary, "done")
    /\ UNCHANGED <<taskVars, current, picks, PREV, sp, active, dying, live,
                   need_resched>>

\* reschedule(honour_class) once it has a candidate; a declined preemption
\* advances the phase and changes nothing else.
reschedule(c, honour_class) ==
    LET prev == current[c]
        next == pick(c, prev)
        stay == honour_class /\ ~ should_switch(class[prev], class[next],
                                                is_fair(picks[c]))
    IN  /\ next # None
        /\ \/ /\ stay
              /\ picks' = [picks EXCEPT ![c] = advance(@, next)]
              /\ Goto(c, "run")
              /\ UNCHANGED <<state, on_cpu, last_cpu, current, PREV>>
           \/ ~ stay /\ take(c, prev, "Ready", next)
        /\ KeepRest /\ UNCHANGED <<resume, dying>>

\* yield_now; with no candidate it returns at once.
Yield(c) == User(c) /\ reschedule(c, FALSE) /\ UNCHANGED need_resched

\* staros_irq_dispatch for the timer and the wake SGI: request_resched.
Irq(c) ==
    /\ pc[c] \in {"run", "wfi"}
    /\ Goto(c, "irq")
    /\ need_resched' = TRUE
    /\ UNCHANGED <<taskVars, current, picks, PREV, sp, active, dying, live>>

\* unblock: wake a parked task, or leave a note for one still on its way in.
\* deliver does the same, but does not treat Sleeping as parked.
wake(t, parked) ==
    /\ state' = [state EXCEPT ![t] = IF @ \in parked THEN "Ready" ELSE @]
    /\ wake_pending' = [wake_pending EXCEPT ![t] = @ \/ state[t] \notin parked]

unblock(t) == wake(t, {"Blocked", "Sleeping"})
deliver(t) == wake(t, {"Blocked"})

\* staros_irq_dispatch for a line a driver registered: notify::signal wakes
\* the driver and asks for a reschedule.
DeviceIrq(c, t) ==
    /\ pc[c] \in {"run", "wfi"}
    /\ t \in Table
    /\ unblock(t)
    /\ Goto(c, "irq")
    /\ need_resched' = TRUE
    /\ UNCHANGED <<n, on_cpu, affinity, class, last_cpu, ttbr0, stack, ctx,
                   resume, current, picks, PREV, sp, active, dying, live>>

\* The same when nobody waits on the line, and an interrupt nobody registered:
\* only the epilogue runs.
QuietIrq(c) ==
    /\ pc[c] \in {"run", "wfi"}
    /\ Goto(c, "irq")
    /\ UNCHANGED <<taskVars, current, picks, PREV, sp, active, dying, live,
                   need_resched>>

\* on_irq_epilogue, first half: wake_expired frees the sleepers whose
\* deadline has passed.
WakeExpired(c) ==
    \E late \in SUBSET {t \in Table : state[t] = "Sleeping"} :
        /\ pc[c] = "irq"
        /\ state' = [t \in Slots |-> IF t \in late THEN "Ready" ELSE state[t]]
        /\ Goto(c, IF late = {} THEN "epi" ELSE "woke")
        /\ UNCHANGED <<n, wake_pending, on_cpu, affinity, class, last_cpu,
                       ttbr0, stack, ctx, resume, current, picks, PREV, sp,
                       active, dying, live, need_resched>>

\* on_irq_epilogue, second half: swap the flag and preempt, or return from
\* the interrupt (also when there is no task to leave or nothing to run).
Preempt(c) ==
    /\ pc[c] = "woke" \/ (pc[c] = "epi" /\ need_resched)
    /\ current[c] # None
    /\ need_resched' = FALSE
    /\ reschedule(c, TRUE)

IrqReturn(c) ==
    /\ pc[c] \in {"epi", "woke"}
    /\ \/ current[c] = None
       \/ pc[c] = "epi" /\ ~ need_resched
       \/ pick(c, current[c]) = None
    /\ need_resched' = FALSE
    /\ Goto(c, IF current[c] = None THEN "idle" ELSE "run")
    /\ UNCHANGED <<taskVars, current, picks, PREV, sp, active, dying, live>>

-----------------------------------------------------------------------------
\* Mutant of Park: the wake-up noted is ignored.
Park_regardless(c, parked) ==
    /\ User(c)
    /\ take(c, current[c], parked, pick(c, current[c]))
    /\ KeepRest /\ UNCHANGED <<dying, resume, need_resched>>

\* park_and_switch: a wake-up noted since the caller queued itself is
\* consumed instead of parking.
Park(c, parked) ==
    LET me == current[c] IN
    /\ User(c)
    /\ \/ /\ wake_pending[me]
          /\ wake_pending' = [wake_pending EXCEPT ![me] = FALSE]
          /\ UNCHANGED <<n, state, on_cpu, affinity, class, last_cpu, ttbr0,
                         stack, ctx, coreVars, live>>
       \/ /\ ~ wake_pending[me]
          /\ take(c, me, parked, pick(c, me))
          /\ KeepRest /\ UNCHANGED dying
    /\ UNCHANGED <<resume, need_resched>>

\* A running task wakes another: unblock (a drained ring, or a signal, which
\* also asks for a reschedule) or deliver (a message).  exit announces a
\* death this way before it begins.  wake_others only rings doorbells: Irq.
Unblock(c, t) ==
    /\ User(c)
    /\ t \in Table
    /\ \/ unblock(t) /\ need_resched' \in {need_resched, TRUE}
       \/ deliver(t) /\ UNCHANGED need_resched
    /\ UNCHANGED <<n, on_cpu, affinity, class, last_cpu, ttbr0, stack, ctx,
                   resume, coreVars, live>>

SetClass(c, k) ==
    /\ User(c)
    /\ class' = [class EXCEPT ![current[c]] = k]
    /\ UNCHANGED <<n, state, wake_pending, on_cpu, affinity, last_cpu, ttbr0,
                   stack, ctx, resume, coreVars, live, need_resched>>

\* set_affinity installs the mask (if it names an online core) and enters
\* its loop.
SetAffinity(c, mask) ==
    /\ User(c)
    /\ satisfiable(mask, Cores)
    /\ affinity' = [affinity EXCEPT ![current[c]] = mask]
    /\ resume' = [resume EXCEPT ![current[c]] = "migrate"]
    /\ Goto(c, "migrate")
    /\ UNCHANGED <<n, state, wake_pending, on_cpu, class, last_cpu, ttbr0,
                   stack, ctx, current, picks, PREV, sp, active, dying, live,
                   need_resched>>

\* One round of set_affinity's loop: return on a permitted core, otherwise
\* migrate_off, which leaves the task Ready and always gives up the core.
Migrate(c) ==
    LET me == current[c] IN
    /\ pc[c] = "migrate"
    /\ \/ /\ allows(affinity[me], c)
          /\ resume' = [resume EXCEPT ![me] = "user"]
          /\ Goto(c, "run")
          /\ UNCHANGED <<state, on_cpu, last_cpu, current, PREV, picks>>
       \/ /\ ~ allows(affinity[me], c)
          /\ take(c, me, "Ready", pick(c, me))
          /\ UNCHANGED resume
    /\ KeepRest /\ UNCHANGED <<dying, need_resched>>

\* spawn_user and spawn_thread append a Ready task: a process in the fresh
\* space s, a thread in the creator's.
Born(t, s) ==
    /\ n' = n + 1
    /\ state' = [state EXCEPT ![t] = "Ready"]
    /\ ttbr0' = [ttbr0 EXCEPT ![t] = s]
    /\ stack' = [stack EXCEPT ![t] = "owned"]
    /\ UNCHANGED <<wake_pending, on_cpu, affinity, class, last_cpu, ctx,
                   resume, coreVars, need_resched>>

SpawnUser(c, s) ==
    /\ User(c) /\ n < MaxTasks
    /\ s \notin live
    /\ live' = live \cup {s}
    /\ Born(n, s)

SpawnThread(c) ==
    /\ User(c) /\ n < MaxTasks
    /\ Born(n, ttbr0[current[c]])
    /\ UNCHANGED live

\* Mutant of shared: siblings forgotten.
shared_never(me) == FALSE

\* exit: some other live task names the same space.
shared(me) == \E t \in Table \ {me} : state[t] # "Dead" /\ ttbr0[t] = ttbr0[me]

\* exit, up to the drop of the lock: the task is Dead, its space is this
\* core's to destroy unless it is shared.
Exit(c) ==
    LET me == current[c]
    IN  /\ User(c)
        /\ dying' = [dying EXCEPT ![c] = IF shared(me) THEN None ELSE ttbr0[me]]
        /\ take(c, me, "Dead", pick(c, me))
        /\ KeepRest /\ UNCHANGED <<resume, need_resched>>

-----------------------------------------------------------------------------
\* The rest of every switch path, outside the lock.  mmu::set_ttbr0:
SetTtbr0(c) ==
    /\ pc[c] = "switch"
    /\ active' = [active EXCEPT ![c] = IF current[c] = None THEN None
                                       ELSE ttbr0[current[c]]]
    /\ Goto(c, "ttbr")
    /\ UNCHANGED <<taskVars, current, picks, PREV, sp, dying, live,
                   need_resched>>

\* exit: AddressSpace::destroy returns the frames to the allocator.
DestroySpace(c) ==
    /\ pc[c] = "ttbr"
    /\ dying[c] # None
    /\ live' = live \ {dying[c]}
    /\ dying' = [dying EXCEPT ![c] = None]
    /\ UNCHANGED <<taskVars, current, picks, PREV, pc, sp, active,
                   need_resched>>

\* context_switch: save the old context, stand on the new task's stack.
ContextSwitch(c) ==
    /\ pc[c] = "ttbr"
    /\ dying[c] = None
    /\ ctx' = [t \in Slots |-> IF t = current[c] THEN "stale"
                               ELSE IF t = PREV[c] THEN "saved" ELSE ctx[t]]
    /\ sp' = [sp EXCEPT ![c] = current[c]]
    /\ Goto(c, "settle")
    /\ UNCHANGED <<n, state, wake_pending, on_cpu, affinity, class, last_cpu,
                   ttbr0, stack, resume, current, picks, PREV, active, dying,
                   live, need_resched>>

\* Mutants of reaps: the whole table is swept; the test reads on_cpu before
\* post_switch clears it.
reaps_any(t, prev) == state[t] = "Dead" /\ stack[t] = "owned"
reaps_off_cpu(t, prev) == t = prev /\ reaps_any(t, prev) /\ ~ on_cpu[t]

\* post_switch takes the stack of a predecessor that died.
reaps(t, prev) == t = prev /\ state[t] = "Dead" /\ stack[t] = "owned"

\* post_switch: release the predecessor and reap it if it is Dead.
PostSwitch(c) ==
    LET prev == PREV[c] IN
    /\ pc[c] = "settle"
    /\ PREV' = [PREV EXCEPT ![c] = None]
    /\ on_cpu' = [t \in Slots |-> on_cpu[t] /\ t # prev]
    /\ stack' = [t \in Slots |-> IF reaps(t, prev) THEN "freed" ELSE stack[t]]
    /\ Goto(c, IF current[c] = None THEN "idle"
               ELSE IF resume[current[c]] = "migrate" THEN "migrate"
               ELSE "run")
    /\ UNCHANGED <<n, state, wake_pending, affinity, class, last_cpu, ttbr0,
                   ctx, resume, current, picks, sp, active, dying, live,
                   need_resched>>

-----------------------------------------------------------------------------
\* Steps a core takes of itself, and steps its interrupts or its program take.
Dispatch(c) == \/ IdlePick(c) \/ IdleWait(c) \/ WakeExpired(c)
               \/ Preempt(c) \/ IrqReturn(c) \/ Migrate(c) \/ SetTtbr0(c)
               \/ DestroySpace(c) \/ ContextSwitch(c) \/ PostSwitch(c)

Program(c) == \/ Yield(c) \/ Exit(c) \/ SpawnThread(c)
              \/ \E parked \in Parks : Park(c, parked)
              \/ \E t \in Slots : Unblock(c, t)
              \/ \E k \in Classes : SetClass(c, k)
              \/ \E mask \in Masks : SetAffinity(c, mask)
              \/ \E s \in Spaces : SpawnUser(c, s)

Interrupt(c) == Irq(c) \/ QuietIrq(c) \/ \E t \in Slots : DeviceIrq(c, t)

Next == Stop \/ \E c \in Cores : Dispatch(c) \/ Program(c) \/ Interrupt(c)

Spec == Init /\ [][Next]_vars

(***************************************************************************)
(* Fairness: a core keeps executing; its timer keeps firing and an         *)
(* interrupt that is pending is taken once it is unmasked (so strong       *)
(* fairness); and a core does not lose the race for the one NEED_RESCHED   *)
(* flag for ever.  Nothing is assumed of programs.                         *)
(***************************************************************************)
Fairness == \A c \in Cores : /\ WF_vars(Dispatch(c))
                             /\ SF_vars(Irq(c))
                             /\ SF_vars(WakeExpired(c) /\ need_resched)
                             /\ SF_vars(Preempt(c))

\* Programs that never block, yield or exit: they declare a class or a mask
\* and spin.  Every SpinNext step is a Next step.
SpinNext == \E c \in Cores : \/ Dispatch(c) \/ Irq(c)
                             \/ \E k \in Classes : SetClass(c, k)
                             \/ \E mask \in Masks : SetAffinity(c, mask)

SpinSpec == Init /\ [][SpinNext]_vars /\ Fairness

\* The same programs, which may also block, sleep and exit.
ExitingNext == \/ SpinNext \/ Stop
               \/ \E c \in Cores : Exit(c) \/ \E parked \in Parks : Park(c, parked)

ExitingSpec == Init /\ [][ExitingNext]_vars /\ Fairness

-----------------------------------------------------------------------------
(* Safety *)

\* No task is on two cores: no two cores have it current, and no two cores
\* stand on its kernel stack (the race Task::on_cpu exists for).
NoDoubleRun ==
    \A c, d \in Cores : c # d =>
        /\ current[c] = current[d] => current[c] = None
        /\ sp[c] = sp[d] => sp[c] = None

\* A core about to load a context never loads one that another core has not
\* finished saving (Scheduler::pickable skips on-cpu tasks for this).
NoStaleContext ==
    \A c \in Cores : pc[c] \in {"switch", "ttbr"} /\ current[c] # None
                        => ctx[current[c]] = "saved"

\* No core stands on a kernel stack that post_switch gave back to the heap.
NoFreedStack == \A c \in Cores : sp[c] # None => stack[sp[c]] = "owned"

\* A core in user mode runs in its own task's address space, and no exit of
\* a sibling thread has destroyed that space ("the last one out").
SpaceOfRunner ==
    \A c \in Cores : User(c) => /\ active[c] = ttbr0[current[c]]
                                /\ active[c] \in live

\* set_affinity "returns only once the caller is on a permitted core", and
\* from then on the task is never in user mode on any other.
RunsWherePinned == \A c \in Cores : User(c) => allows(affinity[current[c]], c)

\* Frames are neither lost nor returned twice: a space is allocated exactly
\* while some task that has not died names it or an exiting core is about
\* to destroy it.
SpacesAccounted ==
    live = {ttbr0[t] : t \in {u \in Table : state[u] # "Dead"}}
             \cup {dying[c] : c \in {d \in Cores : dying[d] # None}}

(***************************************************************************)
(* The inductive invariant behind the safety properties: on_cpu is exactly *)
(* the union of what cores run and what they have just left, and no task   *)
(* is in two places of that union.                                         *)
(***************************************************************************)
Switching == {"switch", "ttbr"}
Bootstrap == {"idle", "wfi", "done"}

TableShape ==
    \A t \in Slots : /\ t >= n <=> state[t] = "Unborn"
                     /\ t >= n => /\ stack[t] = "none"
                                  /\ ~ on_cpu[t] /\ ctx[t] = "saved"
                     /\ t < n => stack[t] # "none"

RunningIsCurrent ==
    /\ \A c \in Cores : current[c] # None => state[current[c]] = "Running"
    /\ \A t \in Slots : state[t] = "Running" => \E c \in Cores : current[c] = t

OnCpuIsHeld ==
    \A t \in Slots : on_cpu[t] <=> \E c \in Cores : current[c] = t \/ PREV[c] = t

HeldOnce ==
    \A c, d \in Cores :
        /\ c # d /\ current[c] # None => current[c] # current[d]
        /\ c # d /\ PREV[c] # None => PREV[c] # PREV[d]
        /\ current[c] # None => current[c] # PREV[d]

CoreShape ==
    \A c \in Cores :
        /\ sp[c] = IF pc[c] \in Switching THEN PREV[c] ELSE current[c]
        /\ pc[c] \notin Switching \cup {"settle"} => PREV[c] = None
        /\ pc[c] \in {"run", "migrate"} => current[c] # None
        /\ pc[c] \in Bootstrap => current[c] = None

ContextSaved ==
    \A t \in Slots : ctx[t] = "stale" => \E c \in Cores : sp[c] = t

StackHeld == \A t \in Slots : stack[t] = "freed" => state[t] = "Dead" /\ ~ on_cpu[t]

SpacesInv ==
    /\ \A t \in Table : state[t] # "Dead" => ttbr0[t] \in live
    /\ \A c \in Cores : dying[c] # None =>
          /\ pc[c] \in Switching
          /\ dying[c] \in live
          /\ \A t \in Table : ttbr0[t] = dying[c] => state[t] = "Dead"
          /\ \A d \in Cores \ {c} : dying[d] # dying[c]
    /\ \A c \in Cores : pc[c] \notin Bootstrap \cup {"switch"} /\ current[c] # None
          => active[c] = ttbr0[current[c]]

PinInv ==
    \A c \in Cores : current[c] # None /\ pc[c] # "migrate"
                        => allows(affinity[current[c]], c)

IInv == /\ TypeOK /\ TableShape /\ RunningIsCurrent /\ OnCpuIsHeld /\ HeldOnce
        /\ CoreShape /\ ContextSaved /\ StackHeld /\ SpacesInv /\ PinInv

(* Action properties *)

Claims(c) == pc[c] # "switch" /\ pc'[c] = "switch" /\ current'[c] # None

\* A claim steps over a runnable task of a more urgent band only on a
\* fairness decision (Scheduler::account: inversions never exceed fairness
\* picks).
OrderedUnlessFair ==
    [][\A c \in Cores : Claims(c) =>
          \/ is_fair(picks[c])
          \/ ~ outranked(class[current'[c]], pickable(c) \ {current[c]}, class)
      ]_vars

\* Once Dead, a task never becomes anything else, and its stack is freed at
\* most once (post_switch: "a stray double-reap can never free the same
\* allocation twice").
DeadStaysDead ==
    [][\A t \in Slots : state[t] = "Dead" =>
          /\ state'[t] = "Dead"
          /\ stack[t] = "freed" => stack'[t] = "freed"]_vars

(* Liveness, under Fairness *)

\* Every exited task's kernel stack is eventually returned to the heap.
DeadIsReaped ==
    \A t \in Slots : state[t] = "Dead" ~> stack[t] = "freed"

\* Every runnable task eventually gets a core.
ReadyRuns == \A t \in Slots : state[t] = "Ready" ~> state[t] = "Running"

\* The fairness escape: every band that has a runnable task is eventually
\* served, whatever the bands above it do.
BandHas(k, s) == \E t \in Slots : state[t] = s /\ class[t] = k
BandServed == \A k \in AllClasses : BandHas(k, "Ready") ~> BandHas(k, "Running")

(* Refinement *)

AsParked == [t \in Slots |-> IF state[t] \in {"Blocked", "Sleeping"}
                             THEN state[t] ELSE "no"]
AbstractParking == INSTANCE Parking WITH Tasks <- Slots, parked <- AsParked

\* The scheduler keeps the promise the blocking components rest on: a task
\* parks only with no wake-up noted, one that is parked leaves that state
\* only by a wake-up or its deadline, and a wake-up that finds a task up is
\* noted until that task next tries to park.
KeepsWakeups == AbstractParking!ParkSpec

(* What comments and documentation say that the code does not do *)

\* exit, "SAFETY: this space's TTBR0 is no longer active": no core's TTBR0
\* names a space whose frames have been returned.
NoFreedSpaceActive == \A c \in Cores : active[c] # None => active[c] \in live
=============================================================================
