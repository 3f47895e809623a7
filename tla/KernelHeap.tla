---------------------------- MODULE KernelHeap -----------------------------
(***************************************************************************)
(* The kernel's heap (crates/mm/src/heap.rs behind the lock of             *)
(* crates/kernel/src/heap.rs): an address-ordered list of holes, first     *)
(* fit, coalescing on release.  The unit of an address is MIN_BLOCK.       *)
(***************************************************************************)
EXTENDS Integers, Sequences, FiniteSets

CONSTANTS
    HeapStart, HeapSize,    \* the region: its first unit, and how many
    Layouts                 \* the layouts asked for: [size, align], in units

ASSUME KernelHeapAssumption ==
    /\ HeapStart \in Nat /\ HeapSize \in Nat \ {0}
    /\ Layouts \subseteq [size : Nat \ {0}, align : Nat \ {0}]

VARIABLES
    holes,          \* the free list: [addr, size], in list order
    lent,           \* the blocks handed out
    used, peak, refused

kheapVars == <<holes, lent, used, peak, refused>>

\* init: one hole spanning the region.
KHeapInit == /\ holes = <<[addr |-> HeapStart, size |-> HeapSize]>>
             /\ lent = {} /\ used = 0 /\ peak = 0 /\ refused = FALSE

align_up(a, align) == ((a + align - 1) \div align) * align
Block(addr, size) == [addr |-> addr, size |-> size]
Beyond(b) == b.addr + b.size
Least(S) == CHOOSE i \in S : \A j \in S : i <= j

\* The list with its nodes i..j replaced.
Relinked(hs, i, j, nodes) == SubSeq(hs, 1, i - 1) \o nodes \o SubSeq(hs, j + 1, Len(hs))

\* What is left of a hole when a block is cut out of it: a front pad and a tail.
Pad(h, b) == IF h.addr < b.addr THEN <<Block(h.addr, b.addr - h.addr)>> ELSE <<>>
TailOf(h, b) == IF Beyond(b) < Beyond(h) THEN <<Block(Beyond(b), Beyond(h) - Beyond(b))>> ELSE <<>>
Remains(h, b) == Pad(h, b) \o TailOf(h, b)

Cut(h, l) == Block(align_up(h.addr, l.align), l.size)
alloc(l) ==
    LET fit == {i \in DOMAIN holes : Beyond(Cut(holes[i], l)) <= Beyond(holes[i])}
        i   == Least(fit)
        b   == Cut(holes[i], l)
    IN IF fit = {} THEN refused' = TRUE /\ UNCHANGED <<holes, lent, used, peak>>
       ELSE /\ holes' = Relinked(holes, i, i, Remains(holes[i], b))
            /\ lent' = lent \cup {b}
            /\ used' = used + l.size
            /\ peak' = IF used + l.size > peak THEN used + l.size ELSE peak
            /\ UNCHANGED refused

\* coalesce: hole i takes in its successor if that is where it ends.
coalesce(hs, i) ==
    IF i \in 1..(Len(hs) - 1) /\ Beyond(hs[i]) = hs[i + 1].addr
    THEN Relinked(hs, i, i + 1, <<Block(hs[i].addr, hs[i].size + hs[i + 1].size)>>)
    ELSE hs

\* dealloc: link the block in before the first hole past it, then merge forward
\* and backward.
\* Mutant: it is merged with what follows and not with what precedes.
merge_forward(hs, i) == coalesce(hs, i)
merge(hs, i) == coalesce(coalesce(hs, i), i - 1)

dealloc(b) ==
    LET i == Least({i \in 1..(Len(holes) + 1) : i <= Len(holes) => holes[i].addr > b.addr})
    IN /\ b \in lent /\ lent' = lent \ {b}
       /\ used' = IF used < b.size THEN 0 ELSE used - b.size
       /\ holes' = merge(Relinked(holes, i, i - 1, <<b>>), i)
       /\ UNCHANGED <<peak, refused>>

KHeapNext == (\E l \in Layouts : alloc(l)) \/ \E b \in lent : dealloc(b)
KHeapSpec == KHeapInit /\ [][KHeapNext]_kheapVars
-----------------------------------------------------------------------------
Region == HeapStart..(HeapStart + HeapSize - 1)
Units(b) == b.addr..(Beyond(b) - 1)
Out == UNION {Units(b) : b \in lent}

\* Every unit of the region is in exactly one block or hole, used counts what
\* is out, and two holes never touch: nothing is lost to padding, and a
\* request is refused only when no run of free units is long enough, whatever
\* the order of the frees.
HeapExact ==
    LET all == lent \cup {holes[i] : i \in DOMAIN holes}
    IN /\ \A u \in Region : \E b \in all : u \in Units(b) /\ \A c \in all \ {b} : u \notin Units(c)
       /\ \A i \in 1..(Len(holes) - 1) : Beyond(holes[i]) < holes[i + 1].addr
       /\ used = Cardinality(Out) /\ used <= peak
-----------------------------------------------------------------------------
\* The inductive invariant: the holes in the order of their addresses and
\* apart, and a unit of the region either in a hole or in one block.
Blocks == [addr : Nat, size : Nat \ {0}]
InHole(hs, u) == \E i \in DOMAIN hs : u \in Units(hs[i])
HeapTypeOK == holes \in Seq(Blocks) /\ lent \subseteq Blocks /\ used \in Nat /\ peak \in Nat
\* Only the nodes in "touching" may end where their successor begins.
InOrder(hs, touching) ==
    \A i, j \in DOMAIN hs : i < j => \/ Beyond(hs[i]) < hs[j].addr
                                     \/ i \in touching /\ j = i + 1 /\ Beyond(hs[i]) = hs[j].addr
Tiled ==
    /\ \A u \in Int : u \in Region <=> InHole(holes, u) \/ u \in Out
    /\ \A u \in Out : ~InHole(holes, u)
    /\ \A b, c \in lent : b # c => Units(b) \cap Units(c) = {}
HeapInv == HeapTypeOK /\ InOrder(holes, {}) /\ Tiled /\ used = Cardinality(Out) /\ used <= peak
=============================================================================
