# StarOS-Aarch64: specifications and proofs

TLA+ models of the StarOS kernel, its user-space C library and its servers, the
TLC configurations that check them, and TLAPS proofs of the properties that
matter most. Paths are relative to the repository root.

## The system and its parts

StarOS is a capability microkernel for AArch64 with a user-space C library and
a few servers. The parts, the state each keeps, what changes it, what makes it
correct, and the modules about it:

| Part | Source | State | Correct when | Modules |
|---|---|---|---|---|
| picking policy | `crates/abi/src/affinity.rs`, `class.rs` | none | urgent bands first, no band and no task forgotten | `Policy`, `Bands` |
| scheduler | `crates/kernel/src/sched.rs` | task table, per-core `current`, `picks`, `PREV`, one `NEED_RESCHED` | a task runs on one core, from a saved context, on a live stack in a live space, where it is pinned; wake-ups are not lost | `Sched`, `Parking` |
| interrupts | `crates/kernel/src/irq.rs`, `crates/arch-aarch64/src/gic.rs`, `exceptions.rs` | line registrations; pending, active, enabled in the controller | an asserted line is served, and no line stays masked with nobody owing the ack | `Interrupts`, `Sched` |
| clocks and timers | `crates/hal/src/clock.rs`, `crates/arch-aarch64/src/timer.rs` | counter, one-shot timer per core, sleepers | nothing fires before its deadline | `Clock` |
| notifications | `crates/kernel/src/notify.rs` | pending count and one waiter each | no signal lost, nobody asleep on one | `Notify` |
| endpoints | `crates/kernel/src/ipc.rs` | ring, queues of receivers and senders, bound notification | FIFO, each message to one receiver, nobody stranded | `Ipc`, `Channel` |
| spin lock | `crates/kernel/src/sync.rs` | ticket and serving counters, the core's mask | one holder, request order, no core waiting for itself | `SpinLock`, `FifoLock` |
| objects, capabilities, shared memory | `crates/kernel/src/obj.rs`, `cap.rs`, `shm.rs`, `syscall.rs` | slot generations, handle tables, frame runs | a revoked reference never resolves, not even after reuse; a run has one owner | `Objects` |
| physical memory, kernel heap | `crates/mm`, `crates/kernel/src/mem.rs`, `heap.rs` | buddy trees, hole list | no overlap, no leak, coalescing is complete | `FramePool`, `KernelHeap` |
| boot | `crates/kernel/src/main.rs`, `crates/fdt`, `crates/mm/src/region.rs` | device tree cursor, free runs | only free memory is handed out; every node is read with its parent's cells | `DeviceTree`, `BootMemory` |
| secondary cores | `crates/kernel/src/smp.rs` | release and arrival words | the boot never hangs on a core that does not come | `Bringup` |
| address spaces | `crates/arch-aarch64/src/addrspace.rs`, `sched.rs`, `syscall.rs` | page tables, heap cursor | a frame is in one place; every frame comes back | `AddressSpaces` |
| program loading | `crates/kernel/src/elf.rs`, `main.rs`, `syscall.rs` | the space being built | a program starts whole or not at all | `Loader` |
| IOMMU | `crates/arch-aarch64/src/smmu.rs`, `crates/kernel/src/iommu.rs`, `crates/iommu` | stream table, stage-2 tables, queues | what an answered call says is what the SMMU holds; faults are read once | `Iommu` |
| C library: threads | `crates/staros-libc/src/thread.rs` | lock words, queues of parked threads, parkers, thread slots | locks exclude, no thread shares a parker, join returns | `Threads`, `ThreadLife` |
| C library: descriptors, files | `fd.rs`, `file.rs`, `stream.rs`, `dir.rs` | fd table, pool, per-stream buffer | what is read is what was written, in order; buffering is invisible | `Descriptors`, `Files`, `Streams`, `Listing` |
| C library: heap, process | `heap.rs`, `stdio.rs`, `cxx.rs`, `lib.rs` | block list; console buffer, atexit table | blocks tile the regions; output in one piece, every handler runs | `Malloc`, `Process` |
| C library: text, time, sorting | `fmt.rs`, `scan.rs`, `string.rs`, `time.rs`, `sort.rs` | none | numbers survive the round trip; the Gregorian calendar; a sorted permutation | `Text`, `Calendar`, `Sorting` |
| file server | `services/fssrv` | open files with generations | a stale handle reads nothing | `Files`, `Listing` |
| display server | `services/displaysrv` | surfaces, damage per buffer, outboxes | no old pixels; events in order and not held for ever | `Compositor`, `DisplayLoop` |
| device manager, input driver | `services/devicemgr`, `services/inputsrv`, `crates/virtio` | virtqueues, decoded action | what a device reports is published, in order | `Input` |

Every kernel structure is a table under its own spin lock. A handler takes one
lock for a decision, drops it, and then calls into another component, so the
hard behaviours live in the gaps between critical sections: a wake-up that
reaches a task on its way to sleep, a context that is Ready before it is saved,
two threads leaving one address space at once, a timeout racing a delivery, an
address chosen under one lock and mapped under another. In user space the same
shape returns: a thread enqueues itself, looks again, and parks; a server looks
at its sources in turn and waits on one notification for all of them.
`PROJECT.json` lists these hazards at their lines with the properties that
cover them.

## How the modules build on one another

```
Policy -- Sched -- MCSched           Parking -- Notify -- Ipc -- MCLive (INSTANCE Sched)
  |         |-- SchedProofs                       |        |-- Channel (abstract)
  |         `-(implements)- Parking               |        `-- IpcProofs -- IpcChannel
  `-- Bands                                       |-- NotifyProofs
                                                  `-- MCProgress

MCKernel      EXTENDS SpinLock, Bands, Bringup, Clock, Objects, KernelHeap, AddressSpaces, Iommu
              INSTANCE FifoLock (abstract), Ipc, FramePool, DeviceTree, BootMemory, Loader
KernelProofs  EXTENDS SpinLock, Bands, Bringup, Clock, KernelHeap, AddressSpaces, Iommu
ObjectsProofs EXTENDS Objects

MCUser        EXTENDS Threads, ThreadLife, Descriptors, Compositor, Process, Files
              INSTANCE Streams, Malloc, Listing, Text, Calendar,
                       Sorting, DisplayLoop, Input
UserProofs    EXTENDS Threads, ThreadLife, Descriptors, Compositor, Process, Files

MCProgress    = Notify + SpinLock, Bringup, ThreadLife, Interrupts, DisplayLoop, Input
```

`MCKernel`, `MCUser`, `MCProgress` and `MCLive` choose one part in the initial state and
leave the others where they are: one run covers the union of their state
spaces, not the product. A part with proofs is extended, not instantiated, so
that the run checks the very definition the theorem is about; a part that is
instantiated has its invariant guarded by the part's name. A composition that
matters is in one module: `Sched` holds the interrupt epilogue, `Ipc` its
notifications and the parking it relies on, `Files` client and server, `Input`
manager, driver, devices and receiver, `Objects` capability tables, object
table and runs, `Loader` headers, segments and frames. `Vm_cursor`, `Malloc_gap`
and `Threads_hang` run a module by itself.

## Scheduling and waiting

**Policy** (`affinity.rs`, `class.rs`). The pure functions of the picker as
operators. `First` is the round-robin scan, `TwoPass` the sticky pass and its
fall-back, `class_choose` the scan of the bands. `advance` keeps the per-core
`u64` modulo `2 * FAIRNESS_EVERY`, which is all that is read of it and divides
2^64. **Bands** is one core's decisions while the set of runnable tasks changes
arbitrarily, with a count of how often each band has been passed over and of
how long the top band has had the core while a lower one had a candidate.

**Sched** (`sched.rs`, and the interrupt path of `irq.rs`, `exceptions.rs`).
One action per critical section of `SCHED`, and one per step a core takes after
it drops the lock: `SetTtbr0`, `DestroySpace`, `ContextSwitch`, `PostSwitch`.
`pc[c]` says where core `c` is; `ctx`, `sp`, `active` and `live` are the
hardware side of a switch (is the context saved, whose stack is the core on,
what is in TTBR0, which spaces still have their frames), and are what the
safety properties are about. Programs are arbitrary: any running task may take
any syscall. Deadlines are abstract (any set of sleepers may expire).

**Parking** is what blocking components may rely on: `park` consumes a
remembered wake-up or parks; `unblock` and `deliver` wake a parked task or
remember the wake-up; `wake_expired` frees sleepers. `deliver` counts only
`Blocked` as parked, as in the source. `Sched!KeepsWakeups` is `Parking`'s
specification under the mapping "Blocked and Sleeping are parked, all else is
up".

**Notify** (`notify.rs`). `SignalCount` and `SignalWake` are the two halves of
`signal`; `Check`, `BlockUntil`, `Deregister`, `Retry` the four stations of
`wait_any`'s loop. Which source `consume_ready` finds first is the caller's
order, so any. `MaxPending` stands for `u32::MAX`.

**Ipc** (`ipc.rs`). `send_inner` and `recv_until` decide under the IPC lock (one
operator per variant of `Action`), then signal the bound notification, then
deliver, wake or park under other locks; every gap is a state of `pc`. Polling
is the loop of `poll_impl` (`crates/staros-libc/src/fd.rs`) and of the display
server. **Channel** is the promise: messages leave in the order they were
accepted, each to one receive.

**SpinLock** (`sync.rs`). Each core has a task context and an interrupt handler
on top of it; both take the same lock. Tickets wrap at `Width` (2^32 in the
kernel). The atomics are sequentially consistent. **FifoLock** is its promise:
granted in the order requested, which `InRequestOrder` states with the queue
read off the tickets that are out.

**Interrupts** (`gic.rs`, `irq.rs`, `exceptions.rs`). One action per register
write or critical section, from assertion through acknowledge, lookup, mask,
signal and end of interrupt to the driver's IrqAck. Cores and drivers
interleave; the controller's enabled, target and active state is modelled as it
answers.

**Clock** (`clock.rs`, `timer.rs`). The conversion between counts and
nanoseconds with its rounding, `arm` for a tick or a nearer deadline, and
interrupts that wake expired sleepers. The greatest common divisor that scales
the conversion is what Euclid's loop in `gcd` answers: the largest number that
divides both.

**Bringup** (`smp.rs`, `boot.rs`, `psci.rs`). The primary's loop over the cores
of the tree, the secondary's stations from firmware to the doorbell, the
contended-counter test and the wake test. Firmware may refuse a core, accept it
and lose it, or start it late. Both of the primary's waits have a limit: it may
give up on a core before it is online, and `race_test` on one that is still
adding, whose batch the total then holds in part.

## What the kernel owns

**Objects** (`obj.rs`, `cap.rs`, `shm.rs`, `syscall.rs`). Revoking
clears a slot and moves its generation on; a capability is a reference with the
generation it was minted for. A syscall is the sequence of its critical sections (create, install, bind), each
of which may fail for want of memory, and calls of several tasks interleave.

**FramePool** (`mm/src/lib.rs`, `pool.rs`, `kernel/src/mem.rs`). The `longest`
tree as the code keeps it, split on the way down and merged on the way up, one
tree per power-of-two piece. **KernelHeap** (`mm/src/heap.rs`): address-ordered
holes, first fit with alignment gaps, coalescing both ways, and the counters.

**BootMemory** and **DeviceTree** (`main.rs`, `region.rs`, `crates/fdt`). The
sweep of each bank around sorted exclusions; the walk over the structure block
with its stack of names and cells, and the iterators that restart inside a
node. A tree may be malformed; firmware writes it token by token.

**AddressSpaces** (`addrspace.rs`, `sched.rs`, `syscall.rs`). Tables and pages
own frames; mapping may fail at any of three table levels; an anonymous mapping
chooses an address under the scheduler's lock and maps it a chunk at a time
later; each thread's copy of the cursor is a variable of its own, as in the
source. **Loader** (`elf.rs`, the two spawn paths): headers, segments with
zero tails and segments whose pages overlap, where the later one gets the page
and the frame of the earlier one is nobody's; a frame count that must come back
when a step fails.

**Iommu** (`smmu.rs`, `iommu.rs`). A bind is nine steps: the table, the two
doublewords of the entry that matter (V first, the table's address later), two
pushes, the doorbell, the answer or the spin's end, and then either BOUND or the
two stores of the unwinding and the freed table. The SMMU fetches, caches,
consumes and logs on its own between any two of them, so it may fetch an entry
that is valid and has no table yet. Command and event queues wrap and fill, and
`push` does not look at the consumer. `SmmuSound` says that once a call has been
answered the SMMU's copy of the entry is the one in memory and names a live
table, that no frame is in two tables or in a table and the pool, and that every
fault is read once and in order. It is said of the streams whose last call the
SMMU answered: `unanswered` are the others, of which a copy may name a freed
table, because the unwinding posts no second CFGI and `unbind_stream` ignores
the answer.

## User space

**Threads** (`thread.rs`). Mutex, condition variable, semaphore and
reader/writer lock; each operation on a lock word, each critical section of a
queue and each syscall on a parker is an action. A queue is a list through the
one link a thread has, walked by `wake_all` after the lock is dropped.
**ThreadLife**: slots of the parker pool, creation, the exit path store by
store, join, detach, once. A thread's destructors are counted: those registered
while it runs or by one another, and those a pthread key's destructor registers
after the list was walked (`late`), which are never run.

**Descriptors** (`fd.rs`): install, dup, close, eventfd, pipe, endpoint
descriptors, and both passes of `poll` with one notification per waitable.
**Files** (`file.rs`, `services/fssrv`): the shared request page under
FILES_LOCK, the server's table with generations, short reads at the page's end.
**Streams** (`stream.rs`): read-ahead, push-back, seeking back over what was
read ahead, end of file and error flags. **Listing** (`crates/cpio`, `dir.rs`,
TAG_LIST): an archive that may be cut short, directories as prefixes.
**Malloc** (`heap.rs`): splitting, coalescing, growth by touching and separate
regions, aligned requests, realloc that moves into a free block or a new region.
A run of the program asks either for sizes alone or for aligned blocks too
(`Programs`); `torn` says that a leading gap was too short for its header. **Process** (`stdio.rs`, `cxx.rs`, `lib.rs`): the console
under OUT_LOCK, atexit handlers called outside the lock, four ways out.
**Text**, **Calendar**, **Sorting**: the formatting and reading of integers, the
civil calendar and heapsort with binary search, each beside a definition that
says what the answer should be.

**Compositor** (`displaysrv`): create, commit, raise, destroy and a dead client's
removal with the rectangles they damage, and the flip between two buffers each with its own
stale rectangle. **DisplayLoop**: deaths, held events, input and requests in
the order of the loop; events sent without blocking and held in an outbox.
**Input** (`devicemgr`, `inputsrv`, `virtio`): classification and handover,
queue set-up, interrupt, draining every device, decoding, publishing.

## Runs

| Run | What is asked | Bounds |
|---|---|---|
| `Sched` | safety of the SMP scheduler; it implements `Parking` | 2 cores; three worlds: 3 threads that block and wake, 2 tasks that also sleep, spawn processes and exit, 2 tasks that also pin themselves |
| `Live` | every band is served again, the dead are reaped; timed receives return; a poller is told of every message | 1 core, 3 tasks that spin, sleep (one never does) and exit, all classes, `FAIRNESS_EVERY` = 2; 2 tasks, one polling or both receiving with deadlines, ring 1, queue 1, 2 sends |
| `Kernel` | each of thirteen kernel parts keeps its promise on every path, failures included; the ticket lock implements `FifoLock`, the endpoint `Channel` | per part, below |
| `User` | each part of user space does; the locks exclude | per part, below |
| `Progress` | what has happened is noticed: waits, joins, interrupts, held events, input, late cores | per part, below |
| `Sched_exit_race` | violation: a space freed under another core's TTBR0 | 2 cores, 2 threads |
| `Sched_pin_starve` | violation: the sticky pass starves a pinned task | 2 cores, 3 tasks, mask {0} |
| `Ipc_panic` | violation: "woken without a message" | 2 tasks, timed and untimed receives, ring 1 |
| `Ipc_stale` | violation: a task that is not receiving is in the queue of receivers | 2 tasks, timed receives, ring 1, 3 sends |
| `Malloc_gap` | violation: a leading gap shorter than a header | one region of 12 units, sizes 1 and 2, alignments 1 and 2 |
| `Threads_hang` | violation: a thread sleeps on a mutex that is free | 2 threads, one mutex, one condition variable |
| `Vm_cursor` | violation: a fresh mapping lands on a sibling's | 3 threads of one process |

Why the bounds are enough. *Scheduler*: its races are between two cores, a task
and its waker or successor; the third task in the trio gives a switching core a
choice while another switches. `FAIRNESS_EVERY` is 1 in `Sched`, where only
ordering and races matter, 2 in `Live`, where ordinary and fair decisions take
turns, and the kernel's 8 in `Bands`, which counts decisions.
*Endpoints*: a ring of 2 and queues of 2 with three tasks and 4 sends (part
`endpoint` of `Kernel`) reach every branch of `send_inner` and `recv_until`,
full queues included; ring 1 reaches them sooner.

*Kernel*, part by part: `lock` 2 cores with tickets of 3 values, so they wrap at
every third acquisition; `bands` 3 tasks in every split over the classes;
`bringup` a tree of 4 cores with stacks for 3; `clock` frequencies 6, 7 and 10
for a second of 20, so that conversions round up, down and not at all;
`objects` 2 processes, 1 frame, a table of 2, so that a slot is reused;
`frames` 7 frames = 4 + 2 + 1, three trees; `heap` 8 units from an odd one on, with
requests of 1 to 3 and alignments to 4; `spaces` 2 threads of one process and 9 frames, too few
for all mappings; `tree` 6 tokens at depth 3; `smmu` one stream in the table and
one beyond it, a command queue of 2, which two binds and two unbinds lap, an
event queue of 1, bindings of one page, two and none;
`memory` one or two banks with more claims than the array of exclusions holds;
`loader` images with segments that share a page, overlap, end in zeros or reach
past the end, and 17 frames; one image has two segments whose pages overlap.

*User*: two threads for each kind of lock (every race of `thread.rs` is between
one that waits and one that releases), `MaxPending` 1, since a second signal to
the same parker only repeats the first; two parker slots for three threads, two
destructors each and one sweep over the keys; two descriptor slots, pipes of two
bytes and two waitables, so that every table is full; two readers with two files and two server slots; streams with a buffer
shorter than the file; two regions of 16 units, with requests of 3, 4 and 8 units or of 2 and 4 at alignments up to 8; two clients, two buffers and a
screen of 3 pixels, with windows that reach past it or lie beside it; integers of 8 bits for 64 and 6 for 32 at their ends, about
0 and about a digit boundary; archives with nested directories and more of them
than `already_seen` remembers; three texts, one longer than a line; 66 days
around four century and leap boundaries; arrays of up to 5 of 3 keys; one
client with a ring and an outbox of two events each, so that held events queue
up behind one another; three slots of which two have a device, queues of two
buffers that each hold half an action, so that a drain takes several used
entries and may end in the middle of one, and indices that wrap after four.

*Progress*: the same parts smaller (Notify: one waiter on one or two of two
notifications, a client and an interrupt that signal; Bringup: one secondary;
ThreadLife: main and one thread), since a temporal property needs the whole
graph.

`CHECK_DEADLOCK FALSE` is stated where the system really stops: every task has
exited, every call of a bounded program is done, a boot is over.

### Fairness

- `Live`/core: a core keeps executing its own kernel path (weak fairness of
  `Dispatch`); its timer keeps firing and a pending interrupt is taken once
  unmasked (strong fairness of `Irq`); a core does not lose the race for the
  single `NEED_RESCHED` flag for ever. Nothing is assumed of programs: they may
  spin for ever.
- `Live`/endpoints and `Progress`/notify: a task inside the kernel is run to the end
  of its step (what the scheduler's runs show, with tasks of one class), the
  clock reaches every deadline, and a tick runs `wake_expired`. No program is
  assumed to send, signal or receive.
- `Progress`/lock: a core inside `lock` or drop keeps executing; its interrupts
  are masked, so nothing preempts it. A holder releases the lock: the kernel's
  critical sections contain no loop that waits.
- bringup: the primary executes, and so does a secondary once it is in
  `ksecondary`; nothing makes firmware start a core, and the primary's poll is
  bounded in the code.
- life: a thread on its way out and one that joins are scheduled. A program
  need not exit.
- lines: a core finishes the handler it is in (weak). A driver's steps and a
  core's acknowledge are strongly fair: each is enabled again and again, and
  preemption or the other core taking the line cannot win for ever.
- display, input: the server, the manager, the driver and the reader of the
  events are scheduled; a client whose property it is reads its endpoint; a
  device that has a buffer and something to say uses it.

## What is proved

TLAPS checks each theorem for every value of the constants that satisfies the
module's `ASSUME`; a hypothesis beyond that is in the theorem's statement and
is named below. The bounds that cut runs short (`MaxSends`, `MaxObjects`,
`MaxEvents`, ...) are constants too, so a theorem holds for all of them.

**SchedProofs.** `Inductive`: `IInv` is an inductive invariant of `Sched`. None
of the safety properties is inductive alone. `IInv` says that `on_cpu` marks
exactly the tasks some core runs or has just left (`OnCpuIsHeld`), that no task
is in two of those places (`HeldOnce`), that a core stands on its predecessor's
stack until the switch and its own afterwards (`CoreShape`), that a context
that is not saved belongs to a stack somebody stands on (`ContextSaved`), that
only a dead task off every core has lost its stack (`StackHeld`), and that a
space to be destroyed is named by dead tasks only and by one core
(`SpacesInv`). The picker enters through lemmas: whatever `pick` returns was
pickable and is not the slot being left. From it: `Typed`, `RunsOnce`,
`ContextsSaved`, `StacksHeld`, `SpacesHeld`, `PinsHeld`, and the action
property `DeadForGood`. `ImplementsParking`: every scheduler step is a step of
`Parking` or leaves parked tasks and wake-ups alone, so what `Notify` and `Ipc`
assume of the scheduler holds for any number of cores.

**NotifyProofs.** `SignalsHeard`, `RegistrationEnds`, `NotifyTyped`, from
`NotifyInv`. Its core is `WakeComes`: a task on its way to sleep is still
registered on every source with nothing pending, or a wake-up for it is
remembered or owed. Assumption: no two tasks watch one notification
(`SingleWaiter`, "Single-waiter by design" in `notify.rs`).

**IpcProofs.** `QueuesNeverMix`: receivers are queued only on an empty ring,
senders only on a full one, deadlines and cancellations included.
`PollersHear`: a task that polls an endpoint through its bound notification is
not asleep on a message it was not told of. The message a poller overlooks
leaves a trace: the signal is counted, or a sender is between the ring and the
signal, or the poller is not yet past its own look at the ring. Hypothesis
`OneBellEach`: the notification bound to a polled endpoint has no other waiter,
as `bind_notify`'s comment says; a second one would consume the signal.

**IpcChannel.** Among tasks that only send and receive, without deadlines,
polls or waits on notifications (`BlockingOnly`): `MailKept`, no delivery
overwrites a message; `NoPanics`, `block_for_message`'s `expect` holds; and
`ImplementsChannel`, the ring, the two queues and the mailboxes are a FIFO
channel. `BlockInv` places every task: in no queue; in one queue, asleep, with
nobody about to wake it; out of the queue, asleep, with exactly one task about
to hand it something; or woken, with its message in the mailbox. Each
part of the hypothesis is needed: run `Ipc_panic` shows what a timed receive
leaves behind, run `Ipc_stale` that with deadlines a task that is not receiving
may be in the queue, and a late signal for a task that has gone on from a poll
or a wait to a receive wakes it with an empty mailbox. The refinement maps the
channel's queue to the ring followed by the messages of the queued senders, and
what a receive holds to the message on its way to it.

**ObjectsProofs.** `AuthorityNeverStale`: a handle that resolves leads to the
object it was minted for, however slots are revoked and reused.
`RunsNeverShared`: the frames of a shared object are no other's, on every
failure path of its creation. `AuthorityHolds` is both. `ObjInv` says that a
reference at its slot's own generation names what the slot holds (`Minted`),
that between `obj::create` and `cap::install` nobody else holds a reference to
the object (`Unshared`, which is what lets the failure path revoke it), and
that a run has one owner, live or in the making (`RunsOwned`).

**KernelProofs**, for the parts that stand by themselves:

- `Bands`: `LowerBandsServed`, while a band below the top has a candidate one
  decision in every `FAIRNESS_EVERY` goes below the top, and a band that always
  has one is passed over at most `2 * FAIRNESS_EVERY - 1` times. `WaitSoFar`
  bounds what each may have lost by each phase of the cycle.
- `Clock`: `TimersNeverEarly`, for any frequency, tick rate and deadline that
  fit the word. It rests on what two roundings in opposite directions leave:
  `ticks` rounds up by at least what `nanos` rounds down, after the division by
  the common divisor.
- `AddressSpaces`: `FramesInOnePlace`, for any number of threads and frames.
  `Apart` says it of one space and the frames beside it and is kept by each of
  the operations a call is made of (a table taken at one of three levels, a
  page mapped, unmapped, torn down); `SpacesApart` carries it to all spaces.
- `SpinLock`: `MutualExclusion`, `NoSelfDeadlock`, `MaskRestored` and
  `HandedOverInOrder`, from `LockInv`: at most one context per core is inside
  the lock, so fewer than `Width` tickets are out, and they are exactly the
  window from `serving` to `next`, one each. The refinement maps that window to
  `FifoLock`'s queue. Assumption: fewer cores than ticket values.
- `Bringup`: `VerdictHonest`, `race_test` says LOST INCREMENTS only when the
  primary had given up on a core: on one that came after all, or, at the limit
  of its own wait, on one that was still adding. `BootInv` counts: the shared
  counter is one for each core that has added. Nothing is assumed of how long a
  limit lasts.
- `KernelHeap`: `HeapIsAlwaysExact`, for a region anywhere and of any size, any
  sizes and any alignments. `HeapInv` adds the order of the list (`InOrder`) and
  says the tiling both ways: a unit is of the region exactly if it is in a hole
  or a block, never in both, and in one block (`Tiled`). Every operation
  replaces a run of the list's nodes (`Relinked`): it keeps the order if the
  nodes put in are apart from what stays, touching at most their neighbours,
  and `dealloc`'s two merges take away exactly the two places where the block it
  links in may touch (`InOrder` is parameterised by those places). That the
  block fits between its neighbours needs the tiling; that `used` never
  saturates needs that it counts what is out.
- `Iommu`: `DevicesReachTheirOwn`, which is `SmmuSound`. `SmmuInv` keeps a
  record of every table with the stream it was made for (by the call under way,
  between the two locks, in `BOUND`, or among those it had no room for), once.
  An entry in memory is whole except between the two stores of the call that
  writes it (`EntriesWritten`); an entry, and the SMMU's copy of one, is on
  record for that very stream or is valid without a table while its bind lasts
  (`Known`). Why an answer can be believed: `lag` counts what the SMMU was told
  and has not consumed; it is the distance between the two registers, wrap bit
  included, until the queue is lapped, and the call's CFGI is two entries behind
  the driver's index (`CommandsQueued`), so while the call waits either two
  commands are outstanding or the copy has been dropped since the entry was
  whole, and what was fetched after that is the entry (`Dropped`). The rings are
  handled by lemmas about indices and sums modulo `2n` (`Indices`, `Moved`,
  `SlotsApart`). There is no assumption on the number of binds: the property is
  said up to the moment the queue is lapped (256 entries in the driver, two per
  call, so 256 calls in a row without an answer), from which on `wait_consumed`
  takes the producer meeting the consumer from behind for an answer.

**UserProofs.** `LocksSafe`: for any finite set of threads, a writer is
alone and never beside a reader, and a mutex has one owner, also where a lock
is given while its owner is still waking others or came out of a condition
wait. `LocksHold`: `LocksInv` is inductive. It adds what the words say of the
threads inside: the mutex word is 1 while somebody owns it or is about to
return with it (`OneOwner`), one thread at a time is between raising the
writer's flag and lowering it (`OneWriter`), `readers` is the number of those
who hold the lock or have counted themselves in and not yet out
(`ReadersCounted`), and an unlock is called by one who holds (`CallFits`, which
is POSIX's rule for programs). The argument: a writer raises its flag and then
looks for readers, a reader counts itself in and then looks at the flag, so the
later of the two sees the other. `ParkersNeverShared` and
`FinishedThreadsClean`, from `LifeInv`: a parker is its thread's until the
thread's own last step or its joiner gives it back, only one of the two does
(a joined thread is not detached), and a thread that says it is finished has run
every destructor registered before its keys were swept.

`WaitersHear`: for any number of threads, descriptors, slots and bytes, no
thread sleeps in `read`, `write` or `poll` on a descriptor that is ready, unless
a signal is pending or the closing thread is about to send it. The invariant
`FdInv` follows a sleeper from its last look on: from the scan of `poll_impl`
(and from the failed try of `read` and `write`) each descriptor it looked at is
not ready, has a signal pending, or is about to get one (`Hearing`); a signal is
counted, so it does not matter that the thread sleeps only later. That a signal
is not taken by another sleeper needs that each notification has one user
(`OneUser`, with `Owned`: two descriptors of a slot are the two ends of one
pipe, whose notifications differ), and that the thread still sleeps on what the
table says (`Current`). `SlotsStayTheirs` is the rest of it: a slot handed out is
named by what is being made of it only (`Making`), one being let go has left the
table and not yet the pool (`Closing`), and the bytes of a pipe not yet read are
in its ring through every wrap (`Stored`; the ring's positions are distinct
because at most `PIPE_CAPACITY` bytes are outstanding). The invariant holds up
to the first `dup`, after which the code itself counts no copies.

`NoOldPixelsShown`: for any number of clients and windows, any screen and one
buffer or two. `ScreenInv` has two halves. Of the buffers it says that what each
is missing lies in its rectangle and the rectangle on the screen; `composite`
then paints, in the back buffer, all it was missing (`Union` covers both
rectangles, and `Uncut` says that clipping the widened rectangle cuts nothing of
it), and adds the damage to what the other is missing. A dead client's windows
are covered by one rectangle, which is one because finitely many numbers have a
greatest (`Bounding`). Of the stack it says that an id is on it once and was
handed out before, so that looking a window up by owner and id finds at most
one, and that closing a gap keeps the others (`ClosesUp`).

`SaidAndDoneOnExit`: for any number of threads, any texts, any room in the line
buffer and in the atexit table. `ProcInv` says where everything said is: on the
console, in the buffer, or still to be printed by the thread that holds
OUT_LOCK, in that order (`InOnePiece`; `push_byte` moves one byte across,
`ByteMoves`); and that every handler known has run or is in the table, not both
and not twice (`EachOnce`, `AllKnown`). What is left when the last thread is out
needs one more thing: while the buffer holds a byte some thread has its flush
before it or left by another way (`SomeoneFlushes`), and so for the table
(`SomeoneRuns`). A thread that printed after another's flush is such a thread.

`EveryReadIsOwn`: for any number of threads, files, descriptors, slots and
generations. `FilesInv` says whose the shared things are. The thread that holds
FILES_LOCK is the one between its request and its reply (`OneAtATime`), and
request and reply are its own (`Asked`, `Answered`): the page holds its path
until the server has looked it up, and the bytes of its file, from where it has
got to, until it has copied them. Two pieces that follow one another are one
(`Continued`). Handles need the other half (`OneHolder`): a slot of the server's
table is one descriptor's, one closing call's or the reply's, never two's, so
`close` empties a slot nobody else reads through and a generation that comes
round again cannot meet an old handle. It also shows that the server never
refuses a read or a close of a program that keeps to its own descriptors.
Assumption, in `close_file`'s guard: a program does not close a descriptor one
of its threads is reading.

### Only model-checked

- Liveness under fairness (`Live`, `Progress`): the prover has no rules for
  fairness or `ENABLED` here.
- What a definition by recursion over data computes for every input: the
  library's induction theorems take an operator as parameter, which none of the
  backends instantiates. This concerns `PoolExact`, `NodesKnowTheirParent`,
  `LibraryAnswers` and `ListsEachOnce`.
- `OnlyFreeMemory`, `StartsWhole`, `ReadsItsOwn` (but for its part about
  descriptors) and `BlocksTile`: no proof has been made.
- The channel with deadlines: `EndpointIsChannel` is checked and proved without
  them, and where the hypothesis fails `Ipc_panic` and `Ipc_stale` show why.
- `InputHeard`, `PublishedInOrder` and `EventsInOrder`.

## Where code and comments disagree

Each is a violation run; `PROJECT.json` quotes the lines.

- `Sched_exit_race`: two threads of a process exit together; the last one out
  frees page tables the other core's TTBR0 still names, for the few instructions
  until that core loads its successor's.
- `Sched_pin_starve`: a task that pins itself to a core it is not homed on can
  be passed over for ever by two tasks that are.
- `Ipc_panic`: a delivery to a sleeping receiver leaves a remembered wake-up
  behind, and the `expect` of a later untimed receive fails.
- `Ipc_stale`: a receive whose deadline passed after a sender had chosen it
  leaves that delivery to the task's next receive, which takes it and returns
  with its own registration still queued; the next sender's message goes there.
- `Malloc_gap`: the gap in front of an aligned payload may be one unit, shorter
  than the header it is to hold, and its size wraps.
- `Threads_hang`: a signal left over from an earlier lock ends a condition wait
  early; the thread is still on the condition's queue, so it cannot join the
  mutex's, and sleeps on a mutex that is free.
- `Vm_cursor`: a thread is created from a copy of the heap cursor which its
  siblings move before it is in the table; when they exit, its next mapping
  lands on theirs.

### Also seen while modelling

No run is kept for these. Definitions kept beside the models that state such an
expectation and do not hold of the code: `Ipc!MailboxKept`,
`DisplayLoop!DeathNoticed`.

Scheduler and IPC. `start` returns while a task is still Blocked
(`sched.rs:608`; its comment says "only once every task has exited"). A message
delivered to a timed receiver wakes it only at its deadline, since `deliver`
does not count `Sleeping` as parked. A stale reply in a mailbox is overwritten
after a timeout (`ipc.rs:363`). `FAIRNESS_EVERY`'s comment says that 'the bottom
band is reached at least once in every eight picks' (`class.rs:113-117`): the
two lower bands take the fairness decisions in turn, so it is once in sixteen
while the middle band has a candidate (`LowerBandsWaitBounded` states both
bounds that hold, and the theorem proves them); within one band the round-robin
position is lost when another is served in between. `arm_for_deadline`
overwrites a nearer deadline. A counter frequency of 0 makes the tick interval
0. A core that comes late, or is still adding when the limit passes, makes
`race_test` report lost increments that were not lost. IrqAck on an unregistered
line enables it.

Memory and objects. Revoked frames are never returned (`obj.rs:198`). A failed
mapping is remembered as mapped; after Unmap of a shared buffer
`map_shared_current` still answers the old address. IrqRegister that fails
leaves its object. `map_dma` always maps at `USER_DMA_VA`. Two threads that
fault on one stack page: the second is killed. A user range checked and then
copied can be unmapped by another thread in between (`usercopy.rs:16-18`).
`spawn_thread` that fails late leaves the stack mapped. Overlapping ELF segments
leak a page (`StartsWhole` counts it in `lost`). Claims past `MAX_EXCLUSIONS`
are dropped (`main.rs:161-167`), and `largest_free` prefers bytes before
alignment. Calls against an SMMU that has stopped overrun the 256-entry queue,
although `push` says it has room (`smmu.rs:432-433`); the unwinding of
`bind_stream_at` is there so that 'we neither leave a half-bound stream nor leak
the table' (`smmu.rs:387-388`), but posts no new CFGI, and `unbind_stream`
ignores `wait_consumed`: in either case the SMMU may keep a copy that names the
freed table. Between the stores of `write_ste` an entry is valid with a table at
address 0; all DMA tables share one VMID without a TLBI.

C library. A thread's placement hint in the table and its creator's can differ
(`sched.rs:957-960`). `dup` keeps no reference counts; `dup3` leaves NONBLOCK
set; two readers on a pipe get one close signal; `set_offset` is a get and a
set; the EMFILE path of `staros_endpoint_fd` frees the slot without
`endpoint_unbind`; a refusal reads as 0 bytes (`file.rs:219-223` calls it an
error); `sendfile` advances its cursor past a short write. `pthread_detach`
racing an exit leaks a parker slot; `try_read_lock` that backs out wakes nobody.
`malloc` near `usize::MAX` wraps. `setenv` and `unsetenv` free memory `putenv`
was given. `puts` takes the console lock twice; `exit` ends only the calling
task and two threads that call it both say goodbye; `fprintf` writes to the
console whatever its stream. `%08.3d` is padded with neither zeros nor blanks,
though programs are said to depend on it (`fmt.rs:325-326`; `Text!ReadsBack`
asks for the width in every other case). A thread_local constructed by a pthread
key's destructor is never destroyed (`__cxa_thread_atexit`: "runs when the
thread ends", `thread.rs:1387-1389`), while the comments at `thread.rs:175` and
`:1358-1362` say that key destructors never run, and `run_thread_exit` runs
them. `%u`, `%x` and `%p` of scanf saturate at `i64::MAX`. `already_seen`
compares 32 bytes of a name; `opendir(".")` lists nothing; a directory that is
also a member is listed twice.

Servers. `fssrv` exits after `MAX_REQUESTS` and its clients wait for ever with
FILES_LOCK held. `displaysrv` serves requests of a client it has reaped, swaps
the buffer before it refuses a bad rectangle, stops after `CLIENTS_EXPECTED`
goodbyes, and its `watch` ignores `_arrivals` (`main.rs:1230-1238`). `devicemgr`
leaves without KIND_END when there is no PL011 or a grant is refused, and the
driver then waits for ever; devices of another kind use up `MAX_INPUT_DEVICES`.
After an IrqRegister that fails `inputsrv` leaves the device running on a slice
of the DMA run which the next device is armed on too (`main.rs:418-428`;
`PublishedInOrder` and `InputHeard` promise nothing to those two). `inputsrv`
tells the device `min(QUEUE_SIZE, max)` and lays out `QUEUE_SIZE` buffers.

## What the models leave out

- Width and wrap where only its order matters: generations (a `u32` wraps after
  2^32 revocations of one slot), message and event numbers. Ticket and virtqueue
  indices do wrap in the models.
- Memory ordering: atomics are sequentially consistent; what Acquire and Release
  add is not modelled.
- Address arithmetic inside a page, descriptor bits, cache maintenance, the TLBs
  of the cores and of the SMMU.
- The capability carried in a message is in `Objects`, its message in `Ipc`.

Not modelled at all: floating point (`math.rs`, `strtod`, `%f`) and the
character functions of `string.rs`; the environment, `mmap` and the stubs of
`proc.rs` (signals, users, terminals); pixel formats, glyphs and the firmware
mailbox (the "display" part: output of one caller, no state to be wrong about);
boot assembly, register layouts and PCI enumeration; the demonstration programs
`fsclient` and `init`, the build scripts and the reports printed at boot.
