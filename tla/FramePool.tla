----------------------------- MODULE FramePool -----------------------------
(***************************************************************************)
(* The physical frame pool: buddy trees (crates/mm/src/lib.rs), one per    *)
(* power-of-two piece of the memory given to the pool (pool.rs), behind    *)
(* the kernel's frame lock (crates/kernel/src/mem.rs).  An address is a    *)
(* frame number.  out is what the trees do not record and the properties   *)
(* need: the blocks handed out and not yet returned.                       *)
(***************************************************************************)
EXTENDS Integers, Sequences, FiniteSetsExt

CONSTANTS
    PoolFrames,     \* frames in the run given to FramePool::add
    MaxCount        \* the longest run a caller asks for

VARIABLES
    longest,        \* longest[t][i]: node i of tree t
    out             \* the blocks in use: [base, size]

poolVars == <<longest, out>>

\* Largest power of two <= n, and smallest >= n.
prev_power_of_two(n) == Max({p \in {2^k : k \in 0..n} : p <= n})
next_power_of_two(n) == Min({p \in {2^k : k \in 0..n} : p >= n})

\* FramePool::add: the binary expansion of the run, largest piece first.
Pieces ==
    LET rest[n \in 0..PoolFrames] ==
          IF n = 0 THEN <<>>
          ELSE <<prev_power_of_two(n)>> \o rest[n - prev_power_of_two(n)]
    IN rest[PoolFrames]

Trees == DOMAIN Pieces
Base(t) == FoldFunction(LAMBDA x, y : x + y, 0, [u \in 1..(t - 1) |-> Pieces[u]])
Nodes(t) == 0..(2 * Pieces[t] - 2)

\* The frames under node i of tree t.
NodeSize(t, i) == Pieces[t] \div prev_power_of_two(i + 1)
Offset(t, i) == (i + 1) * NodeSize(t, i) - Pieces[t]
Parent(i) == (i - 1) \div 2
Ancestors(i) ==
    LET up[k \in 0..i] == IF k = 0 THEN {} ELSE {Parent(k)} \cup up[Parent(k)] IN up[i]

\* BuddyFrameAllocator::new: every node as long as itself.
PoolInit == /\ longest = [t \in Trees |-> [i \in Nodes(t) |-> NodeSize(t, i)]]
            /\ out = {}

\* Node i of tree t becomes v, and its ancestors follow from their children.
Propagate(t, i, v, merge(_, _, _)) ==
    LET new[k \in Nodes(t)] ==
          IF k = i THEN v
          ELSE IF k \in Ancestors(i) THEN merge(NodeSize(t, k), new[2 * k + 1], new[2 * k + 2])
          ELSE longest[t][k]
    IN [longest EXCEPT ![t] = new]

Larger(a, b) == IF a < b THEN b ELSE a

\* alloc_pages, the walk down: the tightest child that still fits.

fitting_child(t, i, size) ==
    LET left == longest[t][2 * i + 1]
        right == longest[t][2 * i + 2]
    IN IF left >= size /\ (right < size \/ left <= right) THEN 2 * i + 1 ELSE 2 * i + 2

Found(t, size) ==
    LET walk[i \in Nodes(t)] ==
          IF NodeSize(t, i) <= size THEN i ELSE walk[fitting_child(t, i, size)]
    IN walk[0]

\* FramePool::alloc_pages: the first tree with room, or a refusal.
alloc_pages(count) ==
    LET size == next_power_of_two(count)
        fit  == {t \in Trees : longest[t][0] >= size}
        t    == Min(fit)
        i    == Found(t, size)
    IN  /\ fit # {}
        /\ longest' = Propagate(t, i, 0, LAMBDA n, left, right : Larger(left, right))
        /\ out' = out \cup {[base |-> Base(t) + Offset(t, i), size |-> size]}

\* free_pages: from the leaf up to the node that was handed out; what is not
\* allocated is ignored.
\* Mutant: halves are merged by the longer of the two only.
unmerged(n, left, right) == Larger(left, right)
merged(n, left, right) == IF left + right = n THEN n ELSE Larger(left, right)

Owner(t, leaf) ==
    LET climb[i \in Nodes(t)] ==
          IF longest[t][i] = 0 THEN i ELSE IF i = 0 THEN -1 ELSE climb[Parent(i)]
    IN climb[leaf]

free_pages(frame) ==
    LET t == CHOOSE t \in Trees : frame \in Base(t)..(Base(t) + Pieces[t] - 1)
        i == Owner(t, frame - Base(t) + Pieces[t] - 1)
    IN  /\ longest' = IF i = -1 THEN longest ELSE Propagate(t, i, NodeSize(t, i), merged)
        /\ out' = {b \in out : frame \notin b.base..(b.base + b.size - 1)}

PoolNext == \/ \E count \in 1..MaxCount : alloc_pages(count)
            \/ \E frame \in 0..(PoolFrames - 1) : free_pages(frame)

PoolSpec == PoolInit /\ [][PoolNext]_poolVars
-----------------------------------------------------------------------------
\* The frames in use.
InUse == UNION {b.base..(b.base + b.size - 1) : b \in out}

\* The free blocks of one size a buddy tree can offer: aligned in their tree.
FreeBlocks(size) ==
    {f \in 0..(PoolFrames - 1) : \E t \in Trees :
        /\ f >= Base(t) /\ f + size <= Base(t) + Pieces[t]
        /\ (f - Base(t)) % size = 0
        /\ f..(f + size - 1) \cap InUse = {}}

\* No frame is in two blocks, and a request is refused only when no aligned
\* block of its size is free anywhere: nothing is lost to a split that was not
\* merged back, to the order of frees, to a double free, or to the tail of a
\* run that is not a power of two (pool.rs: "Nothing is rounded away").
PoolExact ==
    /\ \A b, c \in out : b # c => b.base + b.size <= c.base \/ c.base + c.size <= b.base
    /\ \A size \in {next_power_of_two(n) : n \in 1..PoolFrames} :
          (\E t \in Trees : longest[t][0] >= size) <=> FreeBlocks(size) # {}

\* A frame allocated goes back to its tree whole: with nothing in use every
\* tree is one free run (pool.rs coalesced_frames, lib.rs largest_free_run).
AllCoalesced == out = {} => \A t \in Trees : longest[t][0] = Pieces[t]
=============================================================================
