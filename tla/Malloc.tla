------------------------------- MODULE Malloc -------------------------------
(***************************************************************************)
(* The C library's heap (crates/staros-libc/src/heap.rs, under HEAP_LOCK   *)
(* of lib.rs): a list of blocks over regions from MapAnon, first fit with  *)
(* splitting, coalescing of touching neighbours.  The unit is ALIGN; a     *)
(* block of size n at addr is a header of HEADER units and n of payload.   *)
(* Regions are whole pages from a cursor that moves forward: a new one     *)
(* touches the last, or another mapping lies between.                      *)
(***************************************************************************)
EXTENDS Integers, Sequences, SequencesExt, FiniteSets

CONSTANTS
    HEADER,        \* units in front of every payload
    PageUnits,     \* units in a page
    Region,        \* units mapped at a time: GROW_BYTES, enough for any request here
    MaxRegions,    \* regions the kernel grants
    Sizes,         \* units a program without alignments asks for
    AlignedSizes,  \* units a program with alignments asks for,
    Aligns         \* and the alignments, in units

VARIABLES
    blocks,        \* the list: [addr, size, free]
    mapped,        \* the regions' start addresses
    live_bytes, live_blocks,
    program,       \* the program that runs
    torn           \* a block's header was written over another's

\* What one program asks for.
Programs == {[size : Sizes, align : {1}], [size : AlignedSizes, align : Aligns]}

mallocVars == <<blocks, mapped, live_bytes, live_blocks, program, torn>>

MallocInit == /\ blocks = <<>> /\ mapped = {} /\ live_bytes = 0 /\ live_blocks = 0
              /\ program \in Programs /\ torn = FALSE

round_up(a, align) == ((a + align - 1) \div align) * align
payload_of(b) == b.addr + HEADER
End(b) == payload_of(b) + b.size

\* split: block i keeps first units of payload, the rest is a free block.
split(bs, i, first) ==
    LET b == bs[i]
    IN InsertAt([bs EXCEPT ![i].size = first], i + 1,
                [addr |-> payload_of(b) + first, size |-> b.size - first - HEADER, free |-> TRUE])

\* take: split off a remainder that is worth a block.
Taken(bs, i, want) ==
    [(IF bs[i].size >= want + HEADER + 1 THEN split(bs, i, want) ELSE bs) EXCEPT ![i].free = FALSE]

\* Room for the leading gap of an over-aligned request.
Need(r) == r.size + (IF r.align > 1 THEN r.align + HEADER ELSE 0)
find_free(bs, n) == {i \in DOMAIN bs : bs[i].free /\ bs[i].size >= n}
FirstOf(is) == CHOOSE i \in is : \A j \in is : i <= j

\* grow: one more region at the end of the list.
grow(base) == Append(blocks, [addr |-> base, size |-> Region - HEADER, free |-> TRUE])

\* alloc_aligned with the list as it is after any growth: the leading gap of an
\* aligned payload becomes a block, then the payload is cut.  A gap shorter than
\* a header makes `aligned - payload - HEADER` wrap: the new header begins inside
\* the old one, over its next and free, and the list is gone.
Place(bs, r) ==
    LET i   == FirstOf(find_free(bs, Need(r)))
        at  == round_up(payload_of(bs[i]), r.align)
        gap == at - payload_of(bs[i]) - HEADER
    IN IF at = payload_of(bs[i]) THEN [ok |-> TRUE, list |-> Taken(bs, i, r.size), at |-> i]
       ELSE [ok |-> gap >= 0, list |-> IF gap >= 0 THEN Taken(split(bs, i, gap), i + 1, r.size) ELSE bs,
             at |-> i + 1]

\* coalesce block i with its successor, then with its predecessor.
\* Mutant: neighbours in the list are merged whether they touch or not.
touching_any(a, b) == TRUE
adjacent(a, b) == End(a) = b.addr

Join(bs, i) ==
    IF i \in 1..(Len(bs) - 1) /\ bs[i].free /\ bs[i + 1].free /\ adjacent(bs[i], bs[i + 1])
    THEN RemoveAt([bs EXCEPT ![i].size = @ + HEADER + bs[i + 1].size], i + 1) ELSE bs
coalesce(bs, i) == Join(Join(bs, i), i - 1)

Freed(bs, i) == coalesce([bs EXCEPT ![i].free = TRUE], i)

\* The lists a request may find: the one there is if it fits, else one with a
\* new region, touching the last or past another mapping.  With none granted
\* the request gets null, and nothing changes.
Grown == {grow(IF blocks = <<>> THEN 0 ELSE End(Last(blocks)) + d) : d \in {0, PageUnits}}
Lists(r) == IF find_free(blocks, Need(r)) # {} THEN {blocks}
            ELSE IF Cardinality(mapped) = MaxRegions THEN {} ELSE Grown
MapsRegion(bs) == mapped' = mapped \cup (IF bs = blocks THEN {} ELSE {Last(bs).addr})

\* malloc, calloc, aligned_alloc, posix_memalign.
alloc_aligned(r) ==
    \E bs \in Lists(r) :
      LET p == Place(bs, r)
      IN /\ MapsRegion(bs)
         /\ torn' = ~p.ok /\ blocks' = p.list
         /\ live_bytes' = IF p.ok THEN live_bytes + p.list[p.at].size ELSE live_bytes
         /\ live_blocks' = IF p.ok THEN live_blocks + 1 ELSE live_blocks
         /\ UNCHANGED program

Used(bs) == {i \in DOMAIN bs : ~bs[i].free}

free(i) ==
    /\ i \in Used(blocks)
    /\ blocks' = Freed(blocks, i)
    /\ live_bytes' = live_bytes - blocks[i].size /\ live_blocks' = live_blocks - 1
    /\ UNCHANGED <<mapped, program, torn>>

\* realloc that must move: allocate, copy, free; one that fits stays put, and one
\* that gets null leaves the block as it was.
realloc(i, size) ==
    /\ i \in Used(blocks) /\ size > blocks[i].size
    /\ \E bs \in Lists([size |-> size, align |-> 1]) :
         LET p == Place(bs, [size |-> size, align |-> 1])
             j == CHOOSE j \in DOMAIN p.list : p.list[j].addr = blocks[i].addr
         IN /\ MapsRegion(bs)
            /\ blocks' = Freed(p.list, j)
            /\ live_bytes' = live_bytes + p.list[p.at].size - blocks[i].size
    /\ UNCHANGED <<live_blocks, program, torn>>

\* After a torn header the list's links are sizes and halves of addresses: the
\* split's next store goes through one of them, and nothing is modelled from there.
MallocNext == /\ ~torn
              /\ \/ \E r \in program : alloc_aligned(r)
                 \/ \E i \in DOMAIN blocks : free(i) \/ \E r \in program : realloc(i, r.size)
MallocSpec == MallocInit /\ [][MallocNext]_mallocVars
-----------------------------------------------------------------------------
\* The blocks tile the regions: no two overlap, none reaches past its region
\* into memory that was never mapped, nothing between them is lost, and the
\* statistics count what is out, however requests, frees and moves follow one
\* another.  It takes a program that never mixes sizes of an odd number of units
\* with alignments: every payload of the others lies on an even unit, where no
\* gap is shorter than a header.
BlocksTile ==
    LET Units(b) == b.addr..(End(b) - 1)
        Given == UNION {a..(a + Region - 1) : a \in mapped}
    IN /\ ~torn
       /\ UNION {Units(b) : b \in Range(blocks)} = Given
       /\ \A i \in 1..(Len(blocks) - 1) : End(blocks[i]) <= blocks[i + 1].addr
       /\ live_blocks = Cardinality(Used(blocks))
       /\ live_bytes = FoldSeq(LAMBDA b, n : n + (IF b.free THEN 0 ELSE b.size), 0, blocks)

\* alloc_aligned: the leading gap "is at least HEADER + ALIGN bytes because need
\* reserved that much", so a split never has a first part of less than nothing.
GapReserved == ~torn
=============================================================================
