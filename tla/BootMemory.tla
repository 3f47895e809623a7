----------------------------- MODULE BootMemory -----------------------------
(***************************************************************************)
(* From the device tree's memory map to the kernel's heap and frame pool   *)
(* (kernel main.rs, mm region.rs): collect what is spoken for, sweep each  *)
(* bank for its largest free run, keep the best, shrink it to whole pages, *)
(* and split it.  Firmware's map is any member of Machines.                *)
(***************************************************************************)
EXTENDS Integers, SequencesExt, FiniteSetsExt

CONSTANTS
    Machines,   \* [banks, image, dtb, initrd, rsvmap, carveouts]: maps firmware may leave
    PAGE,       \* bytes in a page
    LAST,       \* the largest address: additions saturate at it
    SLACK,      \* heap for everything that is not the frame tree
    NODE,       \* bytes of a node of the frame tree
    MAX_EXCLUSIONS

VARIABLES machine, phase, free, heap, pool

memVars == <<machine, phase, free, heap, pool>>

Region(start, end) == [start |-> start, end |-> end]
new(start, len) == Region(start, Min({start + len, LAST}))
len(r) == Max({r.end - r.start, 0})
is_empty(r) == r.end <= r.start
Nowhere == Region(0, 0)

MemInit == machine \in Machines /\ phase = "survey" /\ free = Nowhere /\ heap = Nowhere /\ pool = Nowhere
-----------------------------------------------------------------------------
\* The reservation block ends at its first all-zero entry; a carveout without
\* a reg (<<>>) reserves nothing yet.
memory_reservations ==
    LET zero == {i \in DOMAIN machine.rsvmap : machine.rsvmap[i] = <<0, 0>>}
    IN SubSeq(machine.rsvmap, 1, IF zero = {} THEN Len(machine.rsvmap) ELSE Min(zero) - 1)
reserved_memory == SelectSeq(machine.carveouts, LAMBDA c : c # <<>>)

\* The image, the blob, the initrd and both lists of reservations, as many as
\* the array holds; empty ones take no place in it.
Claimed ==
    LET news(s) == [i \in DOMAIN s |-> new(s[i][1], s[i][2])]
    IN SelectSeq(<<machine.image, new(machine.dtb[1], machine.dtb[2]), machine.initrd>>
                   \o news(memory_reservations) \o news(reserved_memory),
                 LAMBDA r : ~is_empty(r))
build_exclusions == SubSeq(Claimed, 1, Min({MAX_EXCLUSIONS, Len(Claimed)}))

\* The exclusion that blocks soonest at or after the cursor, clipped to it.
Ahead(bank, exclusions, cursor) ==
    {i \in DOMAIN exclusions : exclusions[i].end > cursor /\ exclusions[i].start < bank.end}
\* Mutant: the first in the list.
Blocker_first(bank, exclusions, cursor) ==
    LET i == Min(Ahead(bank, exclusions, cursor))
    IN Region(Max({exclusions[i].start, cursor}), exclusions[i].end)
Blocker(bank, exclusions, cursor) ==
    LET start(i) == Max({exclusions[i].start, cursor})
        S == Ahead(bank, exclusions, cursor)
        soonest == Min({i \in S : \A j \in S : start(i) <= start(j)})
    IN Region(start(soonest), exclusions[soonest].end)

\* The sweep: the gaps between blockers, the first of the longest is kept.
largest_free(bank, exclusions) ==
    LET f[cursor \in 0..LAST] ==
          IF cursor >= bank.end THEN Nowhere
          ELSE IF Ahead(bank, exclusions, cursor) = {} THEN Region(cursor, bank.end)
          ELSE LET b == Blocker(bank, exclusions, cursor)
                   later == f[b.end]
                   gap == Region(cursor, b.start)
               IN IF len(later) > len(gap) THEN later ELSE gap
    IN f[bank.start]

down(n) == n - (n % PAGE)
up(n) == down(n + PAGE - 1)
\* Inward: never a byte more than was offered.
page_align_inward(r) ==
    IF down(r.end) <= up(r.start) THEN Nowhere ELSE Region(up(r.start), down(r.end))

survey_memory ==
    LET banks == SelectSeq([i \in DOMAIN machine.banks |-> new(machine.banks[i][1], machine.banks[i][2])],
                           LAMBDA r : ~is_empty(r))
        window(r) == page_align_inward(largest_free(r, build_exclusions))
    IN FoldLeft(LAMBDA best, r : IF len(window(r)) > len(best) THEN window(r) ELSE best, Nowhere, banks)

\* A tree of n leaves has 2n - 1 nodes, one tree per power of two of the run.
metadata_bytes(bytes) ==
    LET piece(n) == Max({2^k : k \in {k \in 0..n : 2^k <= n}})
        f[n \in 0..(bytes \div PAGE)] == IF n = 0 THEN 0 ELSE 2 * piece(n) - 1 + f[n - piece(n)]
    IN NODE * f[bytes \div PAGE]
heap_len == up(metadata_bytes(len(free)) + SLACK)

Survey ==
    /\ phase = "survey" /\ free' = survey_memory
    /\ phase' = IF is_empty(free') THEN "halted" ELSE "split"
    /\ UNCHANGED <<machine, heap, pool>>
\* A window that cannot hold the heap halts; what is left may be empty.
init_memory ==
    /\ phase = "split"
    /\ IF len(free) < heap_len
       THEN phase' = "halted" /\ UNCHANGED <<heap, pool>>
       ELSE /\ phase' = "running"
            /\ heap' = Region(free.start, free.start + heap_len)
            /\ pool' = Region(free.start + heap_len, free.end)
    /\ UNCHANGED <<machine, free>>

MemNext == Survey \/ init_memory
MemSpec == MemInit /\ [][MemNext]_memVars
-----------------------------------------------------------------------------
Bytes(r) == r.start..(r.end - 1)
Spoken == UNION {Bytes(Claimed[i]) : i \in DOMAIN Claimed}
Ram == UNION {Bytes(new(machine.banks[i][1], machine.banks[i][2])) : i \in DOMAIN machine.banks}

\* Nothing that firmware, the image or the initrd occupies is handed out, as
\* long as the array holds every claim; heap and pool are whole pages of RAM
\* that do not overlap; the heap has room for the pool's tree; and no run of
\* free RAM within a bank is longer than the window by more than the two pages
\* alignment can cost.
OnlyFreeMemory ==
    /\ phase = "running" /\ Len(Claimed) <= MAX_EXCLUSIONS =>
         /\ (Bytes(heap) \cup Bytes(pool)) \cap Spoken = {}
         /\ Bytes(heap) \cup Bytes(pool) \subseteq Ram /\ Bytes(heap) \cap Bytes(pool) = {}
         /\ \A a \in {heap.start, heap.end, pool.end} : a % PAGE = 0
         /\ len(heap) >= metadata_bytes(len(pool)) + SLACK
    /\ phase # "survey" /\ Len(Claimed) <= MAX_EXCLUSIONS =>
         \A i \in DOMAIN machine.banks :
           LET usable == Bytes(new(machine.banks[i][1], machine.banks[i][2])) \ Spoken
               over == len(free) + 2 * PAGE - 1
           IN \A s \in usable : ~(s..(s + over - 1) \subseteq usable)
=============================================================================
