----------------------------- MODULE Interrupts -----------------------------
(***************************************************************************)
(* A device's interrupt from the controller (crates/arch-aarch64/src/      *)
(* gic.rs) through the trap (exceptions.rs) and the kernel's forwarding    *)
(* (crates/kernel/src/irq.rs) to a user-space driver, and back by IrqAck.  *)
(* An action is one register write or one critical section; the cores and  *)
(* the drivers interleave.                                                 *)
(*                                                                         *)
(* core[c] is the interrupt core c handles, with what it has left to do:   *)
(*   ack       acknowledged, staros_irq_dispatch about to look it up       *)
(*   mask      bound: about to disable the line                            *)
(*   signal    masked, the notification not yet signalled                  *)
(*   eoi       dispatched, end_of_interrupt still to come                  *)
(* drv[l] is where the driver of line l is: "new" (before IrqRegister),    *)
(* "bound" (in irq::register, before it enables the line), "wait", "serve" *)
(* (a signal consumed), "ack" (the device drained, before IrqAck).         *)
(***************************************************************************)
EXTENDS Integers, FiniteSets

CONSTANTS
    GicCores,     \* the cores
    GicLines,     \* the shared peripheral lines, level triggered
    MaxSignals    \* bound: pending signals counted, as saturating_add does

NoLine == "none"

VARIABLES
    raised,     \* the lines their device asserts
    enabled,    \* GICD_ISENABLER
    target,     \* target[l]: the core the line is routed to, NoLine if none
    active,     \* the lines acknowledged and not yet ended
    bindings,   \* BINDINGS
    signals,    \* signals[l]: pending signals of the line's notification
    core, drv

gicVars == <<raised, enabled, target, active, bindings, signals, core, drv>>

GicTypeOK ==
    /\ raised \subseteq GicLines /\ enabled \subseteq GicLines
    /\ active \subseteq GicLines /\ bindings \subseteq GicLines
    /\ target \in [GicLines -> GicCores \cup {NoLine}]
    /\ signals \in [GicLines -> 0..MaxSignals]
    /\ core \in [GicCores -> [at : {"run", "ack", "mask", "signal", "eoi"},
                              line : GicLines \cup {NoLine}]]
    /\ drv \in [GicLines -> {"new", "bound", "wait", "serve", "ack"}]

Running == [at |-> "run", line |-> NoLine]

\* After gic::init: the distributor is on, no line is enabled or routed.
GicInit ==
    /\ raised = {} /\ enabled = {} /\ active = {} /\ bindings = {}
    /\ target = [l \in GicLines |-> NoLine]
    /\ signals = [l \in GicLines |-> 0]
    /\ core = [c \in GicCores |-> Running]
    /\ drv = [l \in GicLines |-> "new"]

-----------------------------------------------------------------------------
\* InterruptController::enable on core c: route the line here, then enable it.
\* Mutant: the line is enabled and routed nowhere.
enable_only(c, l) == enabled' = enabled \cup {l} /\ UNCHANGED target

enable(c, l) == /\ target' = [target EXCEPT ![l] = c]
                /\ enabled' = enabled \cup {l}

\* disable; on GICv3 it waits for RWP, so it has landed when it returns.
disable(l) == enabled' = enabled \ {l}

\* What acknowledge may return on core c: an enabled line routed to it, with
\* its input high, not already active.
Deliverable(c, l) == l \in raised \cap enabled /\ target[l] = c /\ l \notin active

Raise(l) == /\ raised' = raised \cup {l}
            /\ UNCHANGED <<enabled, target, active, bindings, signals, core, drv>>

\* handle_irq, its first half: acknowledge.
acknowledge(c, l) ==
    /\ core[c] = Running /\ Deliverable(c, l)
    /\ active' = active \cup {l}
    /\ core' = [core EXCEPT ![c] = [at |-> "ack", line |-> l]]
    /\ UNCHANGED <<raised, enabled, target, bindings, signals, drv>>

At(c, here, there) == /\ core[c].at = here
                      /\ core' = [core EXCEPT ![c].at = there]

\* staros_irq_dispatch for a line that is not a timer or an SGI: look the
\* binding up; an unknown line is reported and left as it is.
lookup(c) ==
    /\ At(c, "ack", IF core[c].line \in bindings THEN "mask" ELSE "eoi")
    /\ UNCHANGED <<raised, enabled, target, active, bindings, signals, drv>>

Mask(c) ==
    /\ At(c, "mask", "signal") /\ disable(core[c].line)
    /\ UNCHANGED <<raised, target, active, bindings, signals, drv>>

\* notify::signal; its waiter is the driver.

Signal(c) ==
    /\ At(c, "signal", "eoi")
    /\ signals' = [signals EXCEPT ![core[c].line] = IF @ < MaxSignals THEN @ + 1 ELSE @]
    /\ UNCHANGED <<raised, enabled, target, active, bindings, drv>>

\* handle_irq, its second half; the epilogue is the scheduler's.
end_of_interrupt(c) ==
    /\ core[c].at = "eoi"
    /\ active' = active \ {core[c].line}
    /\ core' = [core EXCEPT ![c] = Running]
    /\ UNCHANGED <<raised, enabled, target, bindings, signals, drv>>
-----------------------------------------------------------------------------
\* The driver's syscalls, on any core that is not in a handler.
Drive(l, here, there) == /\ drv[l] = here
                         /\ drv' = [drv EXCEPT ![l] = there]

\* irq::register: the binding under the lock, the controller after it.
register(l) ==
    /\ Drive(l, "new", "bound")
    /\ bindings' = bindings \cup {l}
    /\ UNCHANGED <<raised, enabled, target, active, signals, core>>

EnableLine(c, l) ==
    /\ core[c] = Running
    /\ Drive(l, "bound", "wait") /\ enable(c, l)
    /\ UNCHANGED <<raised, active, bindings, signals, core>>

\* Wait consumes one signal.
Wait(l) ==
    /\ Drive(l, "wait", "serve") /\ signals[l] > 0
    /\ signals' = [signals EXCEPT ![l] = @ - 1]
    /\ UNCHANGED <<raised, enabled, target, active, bindings, core>>

\* The driver empties its device, which drops the line.
Drain(l) ==
    /\ Drive(l, "serve", "ack")
    /\ raised' = raised \ {l}
    /\ UNCHANGED <<enabled, target, active, bindings, signals, core>>

\* IrqAck: irq::ack enables the line again, on the core the driver runs on.
ack(c, l) ==
    /\ core[c] = Running
    /\ Drive(l, "ack", "wait") /\ enable(c, l)
    /\ UNCHANGED <<raised, active, bindings, signals, core>>

Handle(c) == lookup(c) \/ Mask(c) \/ Signal(c) \/ end_of_interrupt(c)
Driver(l) == register(l) \/ Wait(l) \/ Drain(l) \/ \E c \in GicCores : EnableLine(c, l) \/ ack(c, l)

GicNext == (\E c \in GicCores : Handle(c) \/ \E l \in GicLines : acknowledge(c, l))
           \/ \E l \in GicLines : Driver(l) \/ Raise(l)

\* A core runs its handler to the end and a driver is scheduled.  A core takes
\* what is pending as soon as it unmasks, and the line it has just handled is
\* masked by then: no line is passed over for ever.
GicFairness == /\ \A c \in GicCores : WF_gicVars(Handle(c))
               /\ \A l \in GicLines : SF_gicVars(Driver(l))
               /\ \A c \in GicCores, l \in GicLines : SF_gicVars(acknowledge(c, l))

GicSpec == GicInit /\ [][GicNext]_gicVars /\ GicFairness
-----------------------------------------------------------------------------
\* A registered line that is masked is owed an IrqAck: a handler is on its way
\* to signal it, a signal is pending, or its driver is serving it.  Nobody
\* else would unmask it, and the device would stay silent (irq.rs: the
\* forwarding path masks "on each fire", IrqAck "undoes that mask").
MaskedLineIsOwed ==
    \A l \in GicLines : drv[l] \notin {"new", "bound"} /\ l \notin enabled =>
        \/ signals[l] > 0 \/ drv[l] \in {"serve", "ack"}
        \/ \E c \in GicCores : core[c] = [at |-> "signal", line |-> l]

\* A device that asserts its line is served, whichever cores and drivers its
\* interrupt passes through.
InterruptServed == \A l \in GicLines : l \in raised ~> l \notin raised
=============================================================================
