------------------------------- MODULE Objects -------------------------------
(***************************************************************************)
(* The object table (crates/kernel/src/obj.rs), the capability tables that *)
(* point into it (cap.rs), the frame runs of shared buffers (shm.rs) and   *)
(* the syscalls that create, delegate, use and revoke objects              *)
(* (syscall.rs).  Each action is one critical section; a syscall is a      *)
(* sequence of them, so calls of several tasks interleave.                 *)
(*                                                                         *)
(* call[t] is the syscall task t is in: its phase "at" is                  *)
(*   idle     in user mode                                                 *)
(*   create   holding what the object is made of, before obj::create       *)
(*   install  the object created, no handle to it yet                      *)
(*   bind     IrqRegister, the handle installed, before irq::register      *)
(* A capability is never taken out of a table, so a syscall that resolved  *)
(* one and then looks its object up finds what the table still holds: the  *)
(* two steps are one here.                                                 *)
(* The heap may refuse any allocation: ok is what try_reserve answered.    *)
(***************************************************************************)
EXTENDS Integers, Sequences, FiniteSets

CONSTANTS
    Tasks,        \* the tasks that make syscalls
    Spaces,       \* their address spaces: threads share one capability table
    SpaceOf,      \* SpaceOf[t]: the space of task t
    Frames,       \* frames in the pool
    MaxPages,     \* largest buffer a task asks for
    Lines,        \* interrupt lines
    MaxBorn,      \* bound: no creation starts once this many were made
    MaxTable      \* bound: the heap lets no table grow past this

\* Line 0 stands for no line.
ASSUME ObjectsAssumption == SpaceOf \in [Tasks -> Spaces] /\ Lines \subseteq Nat \ {0}

Null == [kind |-> "none"]

VARIABLES
    slots,     \* OBJECTS: a sequence of Slot
    caps,      \* caps[s]: the CapTable of space s, without its null handle
    runs,      \* RUNS: the pages of each run, 0 where the slot is empty
    frames,    \* how many frames the pool has left
    bound,     \* BINDINGS: the lines a notification is bound to
    call,      \* the syscall each task is in
    born,      \* how many objects were created: numbers each one apart
    down       \* every task has exited and the sweep has run

objVars == <<slots, caps, runs, frames, bound, call, born, down>>

Kinds == {"shared", "dma", "device", "irq", "notification", "authority"}
Idle == [at |-> "idle"]

\* A reference with the number of the object it was minted for, which the
\* code does not keep: the properties compare it.
Ref(i, gen, b) == [index |-> i, gen |-> gen, born |-> b]
Cap(obj, r) == [kind |-> obj.kind, ref |-> r]

\* At boot the device manager holds the authority to name hardware.
ObjInit ==
    /\ slots = <<[gen |-> 0, object |-> [kind |-> "authority", id |-> 0], born |-> 0]>>
    /\ \E s \in Spaces :
          caps = [x \in Spaces |->
                    IF x = s THEN <<[kind |-> "authority", ref |-> Ref(1, 0, 0)]>> ELSE <<>>]
    /\ runs = <<>> /\ frames = Frames /\ bound = {}
    /\ call = [t \in Tasks |-> Idle]
    /\ born = 0 /\ down = FALSE

ObjTypes ==
    /\ slots \in Seq([gen : Nat, object : [kind : Kinds, id : Nat] \cup {Null}, born : Nat])
    /\ caps \in [Spaces -> Seq([kind : Kinds, ref : [index : Nat, gen : Nat, born : Nat]] \cup {Null})]
    /\ runs \in Seq(0..MaxPages) /\ frames \in 0..Frames /\ bound \subseteq Lines
    /\ DOMAIN call = Tasks /\ born \in Nat /\ down \in BOOLEAN

-----------------------------------------------------------------------------
\* The first of the gaps of table s, or one past its end.
FirstGap(s, gaps) ==
    CHOOSE i \in gaps \cup {Len(s) + 1} : \A j \in gaps : i <= j
EmptyOf(s) == {i \in DOMAIN s : s[i] = Null}

\* Whether a table can take an entry at its gap i: growing it needs the heap.
Fits(s, i, ok) == i <= Len(s) \/ (ok /\ Len(s) < MaxTable)
Put(s, i, x) == IF i > Len(s) THEN Append(s, x) ELSE [s EXCEPT ![i] = x]

\* Slot of the next object.  A reused slot keeps its generation.
FreeSlot == FirstGap(slots, {i \in DOMAIN slots : slots[i].object = Null})
\* Mutant: a reused slot starts its generations over.
restarted_generation(i) == 0
generation(i) == IF i > Len(slots) THEN 0 ELSE slots[i].gen

\* obj::get: what r resolves to.
get(r) ==
    IF r.index \in DOMAIN slots /\ slots[r.index].gen = r.gen
    THEN slots[r.index].object ELSE Null

\* obj::revoke: clear the slot and move its generation on.
revoked(i) == [slots EXCEPT ![i].object = Null, ![i].gen = @ + 1]

\* sched::resolve_cap: handles are 1, 2, ... in each space's table.
resolve_cap(t, h) ==
    LET table == caps[SpaceOf[t]]
    IN IF h \in DOMAIN table THEN table[h] ELSE Null

Handles(t) == DOMAIN caps[SpaceOf[t]]
Idling(t) == call[t] = Idle /\ ~down
Goto(t, c) == call' = [call EXCEPT ![t] = c]
Making(t, obj) == Goto(t, [at |-> "create", obj |-> obj])
-----------------------------------------------------------------------------
\* shm::create: pages frames, one at a time; too few gives back what it took.
FreeRun == FirstGap(runs, {i \in DOMAIN runs : runs[i] = 0})

CreateShared(t, pages, ok) ==
    /\ Idling(t) /\ born < MaxBorn
    /\ IF pages <= frames /\ Fits(runs, FreeRun, ok)
       THEN /\ runs' = Put(runs, FreeRun, pages)
            /\ frames' = frames - pages
            /\ Making(t, [kind |-> "shared", id |-> FreeRun])
       ELSE UNCHANGED <<runs, frames, call>>
    /\ UNCHANGED <<slots, caps, bound, born, down>>

\* create_dma: one contiguous block, of pages rounded up to a power of two.
DmaBlock(pages) == CHOOSE n \in {1, 2, 4, 8} : n >= pages /\ \A m \in {1, 2, 4, 8} : m >= pages => n <= m

CreateDma(t, pages) ==
    /\ Idling(t) /\ born < MaxBorn
    /\ IF DmaBlock(pages) <= frames
       THEN /\ frames' = frames - DmaBlock(pages)
            /\ Making(t, [kind |-> "dma", id |-> pages])
       ELSE UNCHANGED <<frames, call>>
    /\ UNCHANGED <<slots, caps, runs, bound, born, down>>

\* check_authority, then grant: the device manager names a line or a page.
check_authority(t, h) ==
    LET c == resolve_cap(t, h)
    IN c # Null /\ c.kind = "authority" /\ get(c.ref) # Null

Grant(t, h, kind, n) ==
    /\ Idling(t) /\ born < MaxBorn
    /\ check_authority(t, h)
    /\ Making(t, [kind |-> kind, id |-> n])
    /\ UNCHANGED <<slots, caps, runs, frames, bound, born, down>>

\* NotifyCreate: a notification of the caller's own.
NotifyCreate(t) ==
    /\ Idling(t) /\ born < MaxBorn
    /\ Making(t, [kind |-> "notification", id |-> 0])
    /\ UNCHANGED <<slots, caps, runs, frames, bound, born, down>>

\* IrqRegister resolves its line, then mints a notification for it.
resolve_interrupt(t, h) ==
    LET c == resolve_cap(t, h)
    IN IF c # Null /\ c.kind = "irq" /\ get(c.ref) # Null THEN get(c.ref).id ELSE 0

IrqRegister(t, h) ==
    /\ Idling(t) /\ born < MaxBorn
    /\ resolve_interrupt(t, h) \in Lines
    /\ Making(t, [kind |-> "notification", id |-> resolve_interrupt(t, h)])
    /\ UNCHANGED <<slots, caps, runs, frames, bound, born, down>>
-----------------------------------------------------------------------------
\* What a failed syscall gives back: the frames its object was made of.
Unwound(obj) ==
    /\ runs' = IF obj.kind = "shared" THEN [runs EXCEPT ![obj.id] = 0] ELSE runs
    /\ frames' = frames + (CASE obj.kind = "shared" -> runs[obj.id]
                             [] obj.kind = "dma" -> DmaBlock(obj.id)
                             [] OTHER -> 0)

\* obj::create: the lowest empty slot, or a new one.
create(t, ok) ==
    LET obj == call[t].obj
    IN  /\ call[t].at = "create"
        /\ IF Fits(slots, FreeSlot, ok)
           THEN /\ slots' = Put(slots, FreeSlot, [gen |-> generation(FreeSlot),
                                                  object |-> obj, born |-> born + 1])
                /\ born' = born + 1
                /\ Goto(t, [at |-> "install", obj |-> obj,
                            ref |-> Ref(FreeSlot, generation(FreeSlot), born + 1)])
                /\ UNCHANGED <<runs, frames>>
           ELSE /\ Unwound(obj) /\ Goto(t, Idle)
                /\ UNCHANGED <<slots, born>>
        /\ UNCHANGED <<caps, bound, down>>

\* cap::install, the lowest free handle; a refusal takes the object back,
\* except in IrqRegister, which leaves it.
install(t, ok) ==
    LET obj == call[t].obj
        r   == call[t].ref
        s   == SpaceOf[t]
        h   == FirstGap(caps[s], EmptyOf(caps[s]))
        line == obj.kind = "notification" /\ obj.id \in Lines
    IN  /\ call[t].at = "install"
        /\ IF Fits(caps[s], h, ok)
           THEN /\ caps' = [caps EXCEPT ![s] = Put(@, h, Cap(obj, r))]
                /\ Goto(t, IF line THEN [at |-> "bind", id |-> obj.id] ELSE Idle)
                /\ UNCHANGED <<slots, runs, frames>>
           ELSE /\ slots' = IF line THEN slots ELSE revoked(r.index)
                /\ Unwound(obj) /\ Goto(t, Idle)
                /\ UNCHANGED caps
        /\ UNCHANGED <<bound, born, down>>

\* irq::register: a line is bound once.
register(t) ==
    /\ call[t].at = "bind"
    /\ bound' = bound \cup {call[t].id}
    /\ Goto(t, Idle)
    /\ UNCHANGED <<slots, caps, runs, frames, born, down>>
-----------------------------------------------------------------------------
\* Send of a message with a capability, and the Recv that installs it: it is
\* copied, not moved, so where it waits in between does not matter.
Delegate(t, h, u) ==
    LET s == SpaceOf[u]
        i == FirstGap(caps[s], EmptyOf(caps[s]))
    IN  /\ Idling(t) /\ Idling(u) /\ s # SpaceOf[t]
        /\ resolve_cap(t, h) # Null /\ Fits(caps[s], i, TRUE)
        /\ caps' = [caps EXCEPT ![s] = Put(@, i, resolve_cap(t, h))]
        /\ UNCHANGED <<slots, runs, frames, bound, call, born, down>>

\* Revoke: the object, for every holder.  The frames behind it stay taken.
Revoke(t, h) ==
    /\ Idling(t) /\ resolve_cap(t, h) # Null
    /\ LET r == resolve_cap(t, h).ref
       IN slots' = IF get(r) # Null THEN revoked(r.index) ELSE slots
    /\ UNCHANGED <<caps, runs, frames, bound, call, born, down>>

\* free_reclaimable, once every task has exited: the buffers of live objects.
Live(kind) == {i \in DOMAIN slots : slots[i].object # Null /\ slots[i].object.kind = kind}
SumOver(S, f(_)) ==
    LET sum[T \in SUBSET S] == IF T = {} THEN 0
                               ELSE LET x == CHOOSE x \in T : TRUE IN f(x) + sum[T \ {x}]
    IN sum[S]

free_reclaimable ==
    /\ ~down /\ \A t \in Tasks : call[t] = Idle
    /\ LET swept == Live("shared") \cup Live("dma")
           ids   == {slots[i].object.id : i \in Live("shared")}
       IN  /\ slots' = [i \in DOMAIN slots |->
                          IF i \in swept THEN [slots[i] EXCEPT !.object = Null, !.gen = @ + 1]
                          ELSE slots[i]]
           /\ runs' = [i \in DOMAIN runs |-> IF i \in ids THEN 0 ELSE runs[i]]
           /\ frames' = frames + SumOver(ids, LAMBDA i : runs[i])
                         + SumOver(Live("dma"), LAMBDA i : DmaBlock(slots[i].object.id))
    /\ down' = TRUE
    /\ UNCHANGED <<caps, bound, call, born>>

Syscall(t) ==
    \/ \E pages \in 1..MaxPages : CreateDma(t, pages) \/ \E ok \in BOOLEAN : CreateShared(t, pages, ok)
    \/ \E h \in Handles(t) : \/ \E n \in Lines, kind \in {"device", "irq"} : Grant(t, h, kind, n)
                             \/ IrqRegister(t, h)
                             \/ \E u \in Tasks : Delegate(t, h, u)
                             \/ Revoke(t, h)
    \/ NotifyCreate(t) \/ register(t)
    \/ \E ok \in BOOLEAN : create(t, ok) \/ install(t, ok)

ObjNext == (\E t \in Tasks : Syscall(t)) \/ free_reclaimable

ObjSpec == ObjInit /\ [][ObjNext]_objVars
-----------------------------------------------------------------------------
HeldCaps == UNION {{caps[s][h] : h \in DOMAIN caps[s]} : s \in Spaces}

\* A capability resolves to the object it was minted for or to nothing: not
\* to a later object in the same slot, whoever holds the copy and however many
\* revocations and creations lie between (obj.rs create's "Reusing it keeps its
\* generation").
NoStaleAuthority ==
    \A c \in HeldCaps : get(c.ref) # Null =>
        /\ slots[c.ref.index].born = c.ref.born
        /\ get(c.ref).kind = c.kind

\* No run backs two live objects, and none that a live object names is empty:
\* the sweep hands each frame back once, and a mapping never finds it gone.
RunsOwnedOnce ==
    \A i, j \in Live("shared") :
        /\ runs[slots[i].object.id] > 0
        /\ i # j => slots[i].object.id # slots[j].object.id

\* What a capability leads to is what it was minted for, down to the frames.
AuthoritySound == NoStaleAuthority /\ RunsOwnedOnce
=============================================================================
