------------------------------ MODULE SpinLock ------------------------------
(***************************************************************************)
(* One SpinLock of crates/kernel/src/sync.rs, and the interrupts it masks. *)
(* Each core runs a task context and, on top of it, an interrupt handler;  *)
(* both take the lock.  An action is one atomic operation on next, serving *)
(* or the core's mask.                                                     *)
(*                                                                         *)
(* pc[x] is where context x is: "off" (no handler is running), "out" of    *)
(* the lock, or in lock and drop at                                        *)
(*   ticket    interrupts masked, about to take a ticket                   *)
(*   spin      waiting for the ticket to be served                         *)
(*   held      holding the guard                                           *)
(*   restore   the lock released, the mask not yet restored                *)
(***************************************************************************)
EXTENDS Integers, FiniteSets

CONSTANTS
    Cores,
    Width    \* how many values a ticket has: 2^32

ASSUME WidthAssumption == /\ IsFiniteSet(Cores)
                          /\ Width \in Nat /\ Cardinality(Cores) < Width

VARIABLES
    next, serving,   \* SpinLock::next, SpinLock::serving
    pc,
    ticket,          \* ticket[x]: lock's local
    masked,          \* the cores with interrupts masked
    daif,            \* the contexts whose saved mask was set: SpinGuard::daif
    trapped          \* the cores whose task is in the kernel

vars == <<next, serving, pc, ticket, masked, daif, trapped>>

Task(c) == <<c, "task">>
Handler(c) == <<c, "irq">>
Contexts == Cores \X {"task", "irq"}
Tickets == 0..(Width - 1)

TypeOK == /\ next \in Tickets /\ serving \in Tickets
          /\ pc \in [Contexts -> {"off", "out", "ticket", "spin", "held", "restore"}]
          /\ ticket \in [Contexts -> Tickets]
          /\ masked \subseteq Cores /\ daif \subseteq Contexts
          /\ trapped \subseteq Cores

Init == /\ next = 0 /\ serving = 0
        /\ pc = [x \in Contexts |-> IF x[2] = "irq" THEN "off" ELSE "out"]
        /\ ticket = [x \in Contexts |-> 0]
        /\ masked = {} /\ daif = {} /\ trapped = {}

\* A core executes its handler if it is in one.
Executing(x) == x[2] = "irq" \/ pc[Handler(x[1])] = "off"

At(x, here, there) == /\ Executing(x) /\ pc[x] = here
                      /\ pc' = [pc EXCEPT ![x] = there]

\* fetch_add(1) on an AtomicU32
fetch_add(n) == IF n = Width - 1 THEN 0 ELSE n + 1

irq_save(x) == /\ daif' = IF x[1] \in masked THEN daif \cup {x} ELSE daif \ {x}
               /\ masked' = masked \cup {x[1]}

irq_restore(x) == masked' = IF x \in daif THEN masked \cup {x[1]} ELSE masked \ {x[1]}

\* SpinLock::lock, in its three steps.
Mask(x) == /\ At(x, "out", "ticket")
           /\ irq_save(x)
           /\ UNCHANGED <<next, serving, ticket, trapped>>

TakeTicket(x) == /\ At(x, "ticket", "spin")
                 /\ ticket' = [ticket EXCEPT ![x] = next]
                 /\ next' = fetch_add(next)
                 /\ UNCHANGED <<serving, masked, daif, trapped>>

\* Mutant: one ticket early.
Served_early(x) == /\ At(x, "spin", "held")
                   /\ ticket[x] \in {serving, fetch_add(serving)}
                   /\ UNCHANGED <<next, serving, ticket, masked, daif, trapped>>

Served(x) == /\ At(x, "spin", "held")
             /\ serving = ticket[x]
             /\ UNCHANGED <<next, serving, ticket, masked, daif, trapped>>

\* SpinGuard::drop, in its two.
\* Mutant: the lock is passed on twice.
Unlock_twice(x) == /\ At(x, "held", "restore")
                   /\ serving' = fetch_add(fetch_add(serving))
                   /\ UNCHANGED <<next, ticket, masked, daif, trapped>>

Unlock(x) == /\ At(x, "held", "restore")
             /\ serving' = fetch_add(serving)
             /\ UNCHANGED <<next, ticket, masked, daif, trapped>>

Restore(x) == /\ At(x, "restore", "out")
              /\ irq_restore(x)
              /\ UNCHANGED <<next, serving, ticket, daif, trapped>>

\* An exception masks interrupts until the return from it: an interrupt on
\* top of a task, or a task's own trap into the kernel.
Interrupt(c) == /\ c \notin masked
                /\ pc[Handler(c)] = "off"
                /\ pc' = [pc EXCEPT ![Handler(c)] = "out"]
                /\ masked' = masked \cup {c}
                /\ UNCHANGED <<next, serving, ticket, daif, trapped>>

IrqReturn(c) == /\ At(Handler(c), "out", "off")
                /\ masked' = masked \ {c}
                /\ UNCHANGED <<next, serving, ticket, daif, trapped>>

Trap(c) == /\ At(Task(c), "out", "out") /\ c \notin trapped
           /\ trapped' = trapped \cup {c}
           /\ masked' = masked \cup {c}
           /\ UNCHANGED <<next, serving, ticket, daif>>

TrapReturn(c) == /\ At(Task(c), "out", "out") /\ c \in trapped
                 /\ trapped' = trapped \ {c}
                 /\ masked' = masked \ {c}
                 /\ UNCHANGED <<next, serving, ticket, daif>>

\* What a context inside lock or drop does next.
Step(x) == TakeTicket(x) \/ Served(x) \/ Unlock(x) \/ Restore(x)

Next == \/ \E x \in Contexts : Mask(x) \/ Step(x)
        \/ \E c \in Cores : Interrupt(c) \/ IrqReturn(c) \/ Trap(c) \/ TrapReturn(c)

Spec == Init /\ [][Next]_vars

\* A core inside lock or drop keeps executing: nothing preempts it, since its
\* interrupts are masked.
FairSpec == Spec /\ \A x \in Contexts : WF_vars(Step(x))

-----------------------------------------------------------------------------
Inside(x) == pc[x] \in {"ticket", "spin", "held", "restore"}

\* SpinGuard's "no other guard for this lock exists".
OneGuard == \A x, y \in Contexts : pc[x] = "held" /\ pc[y] = "held" => x = y

\* "The core waits for itself forever": a handler never runs on top of a task
\* that is inside the lock.
NeverUnderItself == \A c \in Cores : Inside(Task(c)) => pc[Handler(c)] = "off"

\* A handler and a trap run masked to their end, whatever locks they take and
\* drop on the way.
KernelStaysMasked ==
    \A c \in Cores : c \in trapped \/ pc[Handler(c)] # "off" => c \in masked

\* "Waits its turn": whoever waits for the lock gets it.
EveryWaiterServed == \A x \in Contexts : pc[x] = "spin" ~> pc[x] = "held"

\* How far a ticket is from the one served, around the wrap.
Distance(from, to) == IF to >= from THEN to - from ELSE to - from + Width
Dist(k) == Distance(serving, k)
InLock == {x \in Contexts : pc[x] \in {"spin", "held"}}

Ahead(x) == Cardinality({y \in InLock : Dist(ticket[y]) < Dist(ticket[x])})

\* "Hands the lock over in request order": the lock is a FIFO lock, its queue
\* the contexts in the lock, by how many are ahead.
AsQueue == [k \in 1..Cardinality(InLock) |-> CHOOSE x \in InLock : Ahead(x) = k - 1]
AsGranted == \E x \in Contexts : pc[x] = "held"
Fifo == INSTANCE FifoLock WITH queue <- AsQueue, granted <- AsGranted

InRequestOrder == Fifo!FifoSpec

(***************************************************************************)
(* The inductive invariant: the contexts in the lock hold the tickets from *)
(* serving up to next, one each, and the holder has the one served.        *)
(***************************************************************************)
MaskedInside == \A x \in Contexts : Inside(x) => x[1] \in masked
TrapsUndisturbed == \A c \in trapped : pc[Handler(c)] = "off"
SavedMask == \A x \in Contexts :
    Inside(x) /\ (x[2] = "irq" \/ x[1] \in trapped) => x \in daif

Window ==
    /\ Dist(next) = Cardinality(InLock)
    /\ \A x \in InLock : Dist(ticket[x]) < Cardinality(InLock)
    /\ \A x, y \in InLock : ticket[x] = ticket[y] => x = y
    /\ \A x \in InLock : pc[x] = "held" => ticket[x] = serving

LockInv == /\ TypeOK /\ MaskedInside /\ SavedMask /\ TrapsUndisturbed
           /\ KernelStaysMasked /\ NeverUnderItself /\ Window
=============================================================================
