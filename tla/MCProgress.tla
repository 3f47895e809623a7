----------------------------- MODULE MCProgress -----------------------------
(***************************************************************************)
(* What must happen in the end, where several actors have to play their    *)
(* part: the lock's waiters, the waiters of notifications, the boot core   *)
(* and the ones it starts, threads and who joins them, devices and their   *)
(* drivers, the display server's clients.  A behaviour is about one part,  *)
(* chosen in the initial state; the others stand still.  Names several     *)
(* parts use carry the part's name here.                                   *)
(***************************************************************************)
EXTENDS Notify

VARIABLES
    part,
    next, serving, lock_pc, ticket, masked, daif, trapped,
    boot, boot_next, cores, sec, online, counter, hammered, want, ipis, verdict, late, unheard,
    slots, th, signal, ctrl,
    raised, enabled, target, active, bindings, signals, core, drv,
    input, sent, request, waits, ring, seen, outbox, arrivals, watches, died, windows, focus, turn,
    goodbyes, loop_pc,
    machine, mgr, handover, input_drv, devices, dma, hw, line, out, taken

\* Two cores: at most two contexts inside, and three tickets.
K == INSTANCE SpinLock WITH Cores <- {"c0", "c1"}, Width <- 3, pc <- lock_pc

\* One driver waits for its line or for a request too; a client and an
\* interrupt handler signal.
MCWatch == [t \in {"server"} |-> {{1}, {1, 2}}]

\* One core besides the boot core; MCKernel has two.
B == INSTANCE Bringup WITH Listed <- 2, MAX_CPUS <- 3, next_core <- boot_next, hammer_count <- counter

\* A thread for each parker, and nobody's stray signal but a join's.
T == INSTANCE ThreadLife WITH Threads <- {"main", "t1"}, Main <- "main", MAX_THREADS <- 2, ROUNDS <- 1,
                              MAX_TLS_DTORS <- 1, MaxStray <- 1

G == INSTANCE Interrupts WITH GicCores <- {"c0", "c1"}, GicLines <- {"l0", "l1"}, MaxSignals <- 2

\* One client whose ring and outbox hold one event each.
D == INSTANCE DisplayLoop WITH Clients <- {0}, RING <- 1, OUTBOX_DEPTH <- 1, CLIENTS_EXPECTED <- 1,
                               MaxEvents <- 2, pc <- loop_pc

\* Slots with a key, a pointer, something else or nothing; one buffer per queue,
\* so that every index wraps at once, with room for a whole action.
MCMachines == {<<{"key"}, {}, {"rel"}>>, <<{"rel"}, {"other"}, {"key"}>>}
E == INSTANCE Input WITH Machines <- MCMachines, MAX_DEVICES <- 2, QUEUE_SIZE <- 1, INDEX_MOD <- 2,
                         EVENT_BUF <- 2, RING_CAP <- 1, AXIS_SCALE <- 4, MaxActions <- 2, drv <- input_drv

Parts == {"lock", "notify", "bringup", "life", "lines", "display", "input"}
lockVars == <<next, serving, lock_pc, ticket, masked, daif, trapped>>
bootVars == <<boot, boot_next, cores, sec, online, counter, hammered, want, ipis, verdict, late, unheard>>
lifeVars == <<slots, th, signal, ctrl>>
gicVars == <<raised, enabled, target, active, bindings, signals, core, drv>>
loopVars == <<input, sent, request, waits, ring, seen, outbox, arrivals, watches, died, windows, focus,
              turn, goodbyes, loop_pc>>
inputVars == <<machine, mgr, handover, input_drv, devices, dma, hw, line, out, taken>>
progressVars == <<part, lockVars, waitVars, bootVars, lifeVars, gicVars, loopVars, inputVars>>
-----------------------------------------------------------------------------
ProgressInit ==
    /\ part \in Parts
    /\ E!InputInit /\ (part # "input" => machine = CHOOSE m \in MCMachines : TRUE)
    /\ K!Init /\ NotifyInit /\ B!BootInit /\ T!LifeInit /\ G!GicInit /\ D!LoopInit

\* Traps are left to MCKernel: they change what is masked, not who waits.
ProgressNext ==
    /\ IF part = "lock" THEN K!Next /\ UNCHANGED trapped ELSE UNCHANGED lockVars
    /\ IF part = "notify" THEN NotifyNext ELSE UNCHANGED waitVars
    /\ IF part = "bringup" THEN B!BootNext ELSE UNCHANGED bootVars
    /\ IF part = "life" THEN T!LifeNext ELSE UNCHANGED lifeVars
    /\ IF part = "lines" THEN G!GicNext ELSE UNCHANGED gicVars
    /\ IF part = "display" THEN D!LoopNext ELSE UNCHANGED loopVars
    /\ IF part = "input" THEN E!InputNext ELSE UNCHANGED inputVars
    /\ UNCHANGED part

\* The fairness of each module, while its part runs.
ProgressFairness ==
    /\ \A x \in K!Contexts : WF_lockVars(part = "lock" /\ K!Step(x))
    /\ \A p \in Procs : WF_waitVars(part = "notify" /\ SignalWake(p))
    /\ \A t \in Tasks :
          /\ WF_waitVars(part = "notify" /\ Check(t))
          /\ WF_waitVars(part = "notify" /\ BlockUntil(t))
          /\ WF_waitVars(part = "notify" /\ Deregister(t))
          /\ WF_waitVars(part = "notify" /\ Retry(t))
          /\ WF_waitVars(part = "notify" /\ Tick(t))
    /\ WF_waitVars(part = "notify" /\ Expire)
    /\ WF_bootVars(part = "bringup" /\ B!Primary)
    /\ \A c \in B!Secondaries : WF_bootVars(part = "bringup" /\ B!ksecondary(c))
    /\ \A t \in {"main", "t1"} :
          /\ WF_lifeVars(part = "life" /\ T!Finishing(t))
          /\ WF_lifeVars(part = "life" /\ T!Joining(t))
    /\ \A c \in {"c0", "c1"} : WF_gicVars(part = "lines" /\ G!Handle(c))
    /\ \A l \in {"l0", "l1"} : SF_gicVars(part = "lines" /\ G!Driver(l))
    /\ \A c \in {"c0", "c1"}, l \in {"l0", "l1"} : SF_gicVars(part = "lines" /\ G!acknowledge(c, l))
    /\ WF_loopVars(part = "display" /\ D!Server)
    /\ WF_loopVars(part = "display" /\ D!Reads(0))
    /\ WF_inputVars(part = "input" /\ E!Manager)
    /\ WF_inputVars(part = "input" /\ E!InputDriver)
    /\ WF_inputVars(part = "input" /\ E!Receive)
    /\ \A s \in 1..3 : WF_inputVars(part = "input" /\ s \in E!Slots /\ E!Device(s))

ProgressSpec == ProgressInit /\ [][ProgressNext]_progressVars /\ ProgressFairness
-----------------------------------------------------------------------------
\* What waits for something that has happened or must happen stops waiting: a
\* context for the lock (module SpinLock), a wait with a signal to take or a
\* deadline (module Notify), a join of a thread that ended (module
\* ThreadLife), the boot core for cores that firmware never starts (module
\* Bringup).
WaitsReturn ==
    /\ K!EveryWaiterServed
    /\ SignalledReturns /\ TimedReturns
    /\ T!JoinReturns
    /\ (part = "bringup") ~> (boot = "done")

\* A device that asserts its line is served: masking, IrqAck and the routing
\* leave no line behind, and a masked line is owed an IrqAck (module Interrupts).
InterruptServed == G!InterruptServed /\ [](G!GicTypeOK /\ G!MaskedLineIsOwed)

\* An event the display server holds for a client that reads goes out
\* (module DisplayLoop).
HeldGoesOut == D!HeldGoesOut

\* Everything a driven input device reports is published (module Input).
InputHeard == E!InputHeard
=============================================================================
