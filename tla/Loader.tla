------------------------------- MODULE Loader -------------------------------
(***************************************************************************)
(* Starting a program (kernel elf.rs, the SpawnImage and Spawn paths of    *)
(* main.rs and syscall.rs, AddressSpace::map_segment_with): the headers    *)
(* are copied in and walked, each segment's pages are filled from the      *)
(* caller's memory, and a step that fails destroys what was built.  A      *)
(* frame is counted, not named; a byte of a page is 0 or the position,     *)
(* from 1, of the file byte it holds.                                      *)
(***************************************************************************)
EXTENDS Integers, FiniteSetsExt, SequencesExt

CONSTANTS
    Images,       \* [sound, segs, len, heads]: ELF files as programs hand them over
    Init_image,   \* the one compiled into the kernel
    Slots,        \* processes there may be
    FRAMES,       \* frames the pool starts with
    BASE,         \* frames a new space costs before its image: tables, data, stack
    PAGE, FAN,    \* bytes of a page; pages a last-level table maps
    IMAGE_END     \* bytes of the region images may use, from address 0

VARIABLES
    free,    \* frames in the pool
    procs,   \* per slot: [live, image, pages, tables]
    lost     \* frames that are neither in the pool nor in any space

loadVars == <<free, procs, lost>>

None == [live |-> FALSE, image |-> Init_image, pages |-> <<>>, tables |-> {}]
\* A space being built: its pages, the tables they need, and whether all went well.
New == [free |-> free - BASE, pages |-> <<>>, tables |-> {}, lost |-> 0, walked |-> TRUE, ok |-> TRUE]
Held(s) == BASE + Cardinality(DOMAIN s.pages) + Cardinality(s.tables)

LoadInit == free = FRAMES /\ procs = [s \in Slots |-> None] /\ lost = 0
-----------------------------------------------------------------------------
\* Install page va; the leaf table it lies in may have to be made first.  A page
\* that was there is overwritten: its frame is nobody's.
map_page(s, va, page) ==
    LET table == (va \div PAGE) \div FAN
        cost == IF table \in s.tables THEN 1 ELSE 2
    IN IF s.free < cost THEN [s EXCEPT !.ok = FALSE]
       ELSE [s EXCEPT !.free = @ - cost, !.tables = @ \cup {table},
                      !.lost = IF va \in DOMAIN s.pages THEN @ + 1 ELSE @,
                      !.pages = [a \in DOMAIN @ \cup {va} |-> IF a = va THEN page ELSE @[a]]]

\* The frame is zeroed; only the part of the file that falls in the page overlays it.
\* Mutant: whole pages are copied.
Filled_whole(seg, i) ==
    [k \in 0..(PAGE - 1) |-> IF i * PAGE < seg.filesz THEN seg.offset + i * PAGE + k + 1 ELSE 0]
Filled(seg, i) ==
    [k \in 0..(PAGE - 1) |-> IF i * PAGE + k < seg.filesz THEN seg.offset + i * PAGE + k + 1 ELSE 0]

\* No page is both written and executed.
Right(flags) == CASE "x" \in flags -> "rx" [] "w" \in flags -> "rw" [] OTHER -> "r"
\* Map the segment page by page; the first page that cannot be mapped ends it.
map_segment_with(s, seg) ==
    IF seg.vaddr % PAGE # 0 \/ seg.filesz > seg.memsz THEN [s EXCEPT !.ok = FALSE]
    ELSE FoldLeft(LAMBDA t, i :
                      CASE ~t.ok -> t
                        [] seg.vaddr + i * PAGE >= IMAGE_END -> [t EXCEPT !.ok = FALSE]
                        [] OTHER -> map_page(t, seg.vaddr + i * PAGE,
                                        [bytes |-> Filled(seg, i), right |-> Right(seg.flags)]),
                  s, [i \in 1..((seg.memsz + PAGE - 1) \div PAGE) |-> i - 1])

\* A header that was not copied in or is inconsistent, or bytes outside the file, end the walk.
Malformed(image, i) ==
    \/ i > image.heads
    \/ image.segs[i].filesz > image.segs[i].memsz
    \/ image.segs[i].offset + image.segs[i].filesz > image.len
\* SpawnImage stops at the first segment that cannot be mapped.
load_segments_streamed(s, image) ==
    FoldLeft(LAMBDA t, i : CASE ~t.ok -> t
                             [] Malformed(image, i) -> [t EXCEPT !.ok = FALSE]
                             [] OTHER -> map_segment_with(t, image.segs[i]),
             s, [i \in DOMAIN image.segs |-> i])
\* Spawn, from the image in the kernel, maps the other segments all the same.
load_segments(s, image) ==
    FoldLeft(LAMBDA t, i : CASE ~t.walked -> t
                             [] Malformed(image, i) -> [t EXCEPT !.walked = FALSE, !.ok = FALSE]
                             [] OTHER -> [map_segment_with([t EXCEPT !.ok = TRUE], image.segs[i])
                                          EXCEPT !.ok = @ /\ t.ok],
             s, [i \in DOMAIN image.segs |-> i])

\* The pool after a space that was never entered is destroyed.
destroy(s) == s.free + Held(s)

\* The space becomes a process, or the capability table or the task cannot be
\* allocated and the space is taken down again.
Enter(slot, image, s) ==
    /\ lost' = lost + s.lost
    /\ \/ free' = destroy(s) /\ UNCHANGED procs
       \/ /\ s.ok
          /\ free' = s.free
          /\ procs' = [procs EXCEPT ![slot] =
                 [live |-> TRUE, image |-> image, pages |-> s.pages, tables |-> s.tables]]

spawn_image(slot, image) ==
    /\ ~procs[slot].live /\ image.sound /\ free >= BASE
    /\ \E s \in {load_segments_streamed(New, image)} : Enter(slot, image, s)
spawn_child(slot) ==
    /\ ~procs[slot].live /\ free >= BASE
    /\ \E s \in {load_segments(New, Init_image)} : Enter(slot, Init_image, s)
exit(slot) ==
    /\ procs[slot].live
    /\ free' = free + Held(procs[slot])
    /\ procs' = [procs EXCEPT ![slot] = None] /\ UNCHANGED lost

LoadNext ==
    \E slot \in Slots :
        \/ \E image \in Images : spawn_image(slot, image)
        \/ spawn_child(slot) \/ exit(slot)
LoadSpec == LoadInit /\ [][LoadNext]_loadVars
-----------------------------------------------------------------------------
Live == {s \in Slots : procs[s].live}
\* What a segment puts at address a.
Linked(seg, a) == IF a - seg.vaddr < seg.filesz THEN seg.offset + (a - seg.vaddr) + 1 ELSE 0
Covers(seg, a) == a \in seg.vaddr..(seg.vaddr + seg.memsz - 1)
ByteAt(p, a) == p.pages[a - (a % PAGE)].bytes[a % PAGE]

\* The last segment with a page at va has it, whatever the ones before put there.
OnPage(seg, va) == va \in seg.vaddr..(seg.vaddr + seg.memsz - 1)
Owner(image, va) == CHOOSE i \in DOMAIN image.segs :
    OnPage(image.segs[i], va) /\ \A j \in DOMAIN image.segs : OnPage(image.segs[j], va) => j <= i

Overlapping(image) ==
    \E i, j \in DOMAIN image.segs : \E va \in 0..(IMAGE_END - 1) :
        i # j /\ va % PAGE = 0 /\ OnPage(image.segs[i], va) /\ OnPage(image.segs[j], va)

\* A program starts whole or not at all: in every process that runs, each address
\* of each segment holds the file byte linked there, with its rights, down to the
\* last byte of the last page, and zero past the segment.  Where the pages of two
\* segments overlap the later one has the page.  No frame is lost wherever a spawn
\* failed, but the ones map_page overwrote: one per page of such an overlap.
StartsWhole ==
    /\ \A s \in Live :
          LET image == procs[s].image
              Seg(va) == image.segs[Owner(image, va)]
          IN /\ \A i \in DOMAIN image.segs : \A a \in 0..(IMAGE_END - 1) :
                    Covers(image.segs[i], a) => a - (a % PAGE) \in DOMAIN procs[s].pages
             /\ \A va \in DOMAIN procs[s].pages :
                    /\ procs[s].pages[va].right = Right(Seg(va).flags)
                    /\ \A k \in 0..(PAGE - 1) :
                          ByteAt(procs[s], va + k) =
                              IF Covers(Seg(va), va + k) THEN Linked(Seg(va), va + k) ELSE 0
    /\ free + MapThenSumSet(LAMBDA s : Held(procs[s]), Live) + lost = FRAMES
    /\ lost # 0 => \E image \in Images : Overlapping(image)
=============================================================================
