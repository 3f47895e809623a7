--------------------------- MODULE AddressSpaces ---------------------------
(***************************************************************************)
(* The user address spaces: the page tables a space owns, the pages mapped *)
(* in it, the anonymous region whose cursor every thread of the space      *)
(* keeps a copy of, and the calls that run in pieces - an address chosen   *)
(* under the scheduler's lock, the pages mapped later under the frame      *)
(* lock, one chunk at a time.                                              *)
(*                                                                         *)
(* An address is a page number; the three levels of tables are the root    *)
(* and the two of Path, so a walk can still fail halfway.  A chunk is one  *)
(* page.  Shared buffers of one page stand for every mapping of frames the *)
(* space does not own: device pages, DMA runs, the device tree.            *)
(***************************************************************************)
EXTENDS Integers, FiniteSets, Sequences

CONSTANTS
  UserTasks,
  AddressSpaceOf,   \* [UserTasks -> spaces]: threads of one process share a space
  PoolFrames,       \* frames of the pool, 1 .. PoolFrames
  HeapPages,        \* pages of the anonymous region
  Objects           \* shared buffers, each one frame outside the pool

UserSpaces == {AddressSpaceOf[t] : t \in UserTasks}
\* The smallest instance: every task a thread of one process.
OneProcess == [t \in UserTasks |-> "p"]
USER_IMAGE == 0
USER_DATA_VA == 1
USER_STACK_LIMIT == 2
USER_STACK_TOP == 4
USER_HEAP_BASE == 4
USER_HEAP_END == USER_HEAP_BASE + HeapPages
Cursors == USER_HEAP_BASE .. USER_HEAP_END
USER_SHARED_VA == USER_HEAP_END
Mappable == USER_IMAGE .. USER_SHARED_VA + Cardinality(Objects) - 1

\* The tables a walk to va passes through below the root, outermost first.
Path(va) == <<"level 1", IF va < USER_HEAP_BASE THEN "low"
                         ELSE IF va < USER_HEAP_END THEN "heap" ELSE "shared">>
Tables == {"root", "level 1", "low", "heap", "shared"}
NoFrame == 0
NoPage == [frame |-> NoFrame, owned |-> FALSE]
Empty == [table |-> [n \in Tables |-> NoFrame], page |-> [va \in Mappable |-> NoPage]]
\* What the kernel is doing for a task: nothing, or one call between two locks.
NoCall == [kind |-> "none", va |-> 0, left |-> 0, arg |-> 0]

ASSUME AddressSpacesAssumption ==
  PoolFrames \in Nat /\ HeapPages \in Nat /\ Objects \subseteq Int /\ IsFiniteSet(Objects)

VARIABLES
  free,       \* the frames of the pool nobody holds
  space,      \* [UserSpaces -> tables and pages]
  heap_next,  \* [UserTasks -> the task's copy of the anonymous cursor]
  shared,     \* [UserTasks -> the buffers the task has placed, in order]
  live,       \* tasks that exist
  op          \* [UserTasks -> the call in progress]

vmVars == <<free, space, heap_next, shared, live, op>>

VmInit ==
  /\ free = 1 .. PoolFrames
  /\ space = [s \in UserSpaces |-> Empty]
  /\ heap_next = [t \in UserTasks |-> USER_HEAP_BASE]
  /\ shared = [t \in UserTasks |-> <<>>]
  /\ live = {}
  /\ op = [t \in UserTasks |-> NoCall]

------------------------------------------------------------------------------
\* The work done under the frame lock, on m = [free, table, page, ok].

Under(s) == [free |-> free, table |-> space[s].table, page |-> space[s].page, ok |-> TRUE]
Lowest(set) == CHOOSE f \in set : \A g \in set : f <= g

\* leaf_table: every missing level takes a frame, in order, until none is left;
\* the levels that got one stay in the tree.
alloc_table(m, name) ==
  IF ~m.ok \/ m.table[name] # NoFrame THEN m
  ELSE IF m.free = {} THEN [m EXCEPT !.ok = FALSE]
  ELSE [m EXCEPT !.table[name] = Lowest(m.free), !.free = @ \ {Lowest(m.free)}]
leaf_table(m, va) == alloc_table(alloc_table(m, Path(va)[1]), Path(va)[2])

map_page(m, va, desc) ==
  LET w == leaf_table(m, va) IN IF w.ok THEN [w EXCEPT !.page[va] = desc] ELSE w

\* A frame that found no table to hang from goes straight back.
map_fresh(m, va) ==
  IF ~m.ok \/ m.free = {} THEN [m EXCEPT !.ok = FALSE]
  ELSE LET f == Lowest(m.free)
           w == map_page([m EXCEPT !.free = @ \ {f}], va, [frame |-> f, owned |-> TRUE])
       IN IF w.ok THEN w ELSE [w EXCEPT !.free = @ \cup {f}]

lookup(m, va) == m.page[va].frame # NoFrame

any_page(m) == {m.page[va].frame : va \in Mappable} \ {NoFrame}
owned(m) == {m.page[va].frame : va \in {v \in Mappable : m.page[v].owned}}
free_table(m) ==
  [free |-> m.free \cup owned(m) \cup ({m.table[n] : n \in Tables} \ {NoFrame}),
   table |-> Empty.table, page |-> Empty.page, ok |-> m.ok]

unmap(m, va) ==
  [m EXCEPT !.page[va] = NoPage,
            !.free = IF m.page[va].owned THEN @ \cup {m.page[va].frame} ELSE @]

grow_stack(m, va) == IF lookup(m, va) THEN m ELSE map_fresh(m, va)

Commit(s, m) ==
  /\ free' = m.free
  /\ space' = [space EXCEPT ![s] = [table |-> m.table, page |-> m.page]]

------------------------------------------------------------------------------
Of(s) == {t \in live : AddressSpaceOf[t] = s}
Reads(t) == t \in live /\ op[t].kind = "none"

\* AddressSpace::new, then the program's one segment; a shortage anywhere gives
\* everything back.
Built(s) ==
  LET r == alloc_table(Under(s), "root")
      d == map_fresh(r, USER_DATA_VA)
      p == map_fresh(d, USER_STACK_TOP - 1)
      g == map_fresh(p, USER_IMAGE)
  IN IF g.ok THEN g ELSE free_table(g)
spawn_image(t) ==
  /\ t \notin live /\ Of(AddressSpaceOf[t]) = {}
  /\ LET m == Built(AddressSpaceOf[t])
     IN Commit(AddressSpaceOf[t], m) /\ live' = IF m.ok THEN live \cup {t} ELSE live
  /\ UNCHANGED <<heap_next, shared, op>>

\* The cursor furthest along of the space's tasks, moved on by `pages` and
\* written back to every one of them.
top(s) == CHOOSE n \in {heap_next[t] : t \in Of(s)} : \A t \in Of(s) : heap_next[t] <= n
reserve_anon_shared(t, pages) ==
  /\ top(AddressSpaceOf[t]) + pages <= USER_HEAP_END
  /\ heap_next' = [u \in UserTasks |-> IF u \in Of(AddressSpaceOf[t])
                                       THEN top(AddressSpaceOf[t]) + pages ELSE heap_next[u]]
\* The next page of a call, or its end.
Onward(t) == IF op[t].left > 1
             THEN [kind |-> op[t].kind, va |-> op[t].va + 1, left |-> op[t].left - 1, arg |-> 0]
             ELSE NoCall

map_anon_current(t, pages) ==
  /\ Reads(t)
  /\ reserve_anon_shared(t, pages)
  /\ op' = [op EXCEPT ![t] = [kind |-> "anon", va |-> top(AddressSpaceOf[t]), left |-> pages, arg |-> 0]]
  /\ UNCHANGED <<free, space, shared, live>>

\* One chunk, and the window in which an interrupt may reschedule the core.  A
\* shortage ends the call; what was mapped stays.
map_anon_at(t) ==
  /\ op[t].kind = "anon"
  /\ LET m == map_fresh(Under(AddressSpaceOf[t]), op[t].va)
     IN /\ Commit(AddressSpaceOf[t], m)
        /\ op' = [op EXCEPT ![t] = IF m.ok THEN Onward(t) ELSE NoCall]
  /\ UNCHANGED <<heap_next, shared, live>>

unmap_current(t, va, pages) ==
  /\ Reads(t) /\ va \in Mappable /\ va + pages - 1 \in Mappable
  /\ op' = [op EXCEPT ![t] = [kind |-> "unmap", va |-> va, left |-> pages, arg |-> 0]]
  /\ UNCHANGED <<free, space, heap_next, shared, live>>

unmap_at(t) ==
  /\ op[t].kind = "unmap"
  /\ Commit(AddressSpaceOf[t], unmap(Under(AddressSpaceOf[t]), op[t].va))
  /\ op' = [op EXCEPT ![t] = Onward(t)]
  /\ UNCHANGED <<heap_next, shared, live>>

\* A translation fault below the stack; a page already there is no growth, and
\* any other outcome ends the task.
grow_stack_current(t, va) ==
  /\ Reads(t) /\ va \in USER_STACK_LIMIT .. USER_STACK_TOP - 1
  /\ ~lookup(Under(AddressSpaceOf[t]), va)
  /\ Commit(AddressSpaceOf[t], grow_stack(Under(AddressSpaceOf[t]), va))
  /\ UNCHANGED <<heap_next, shared, live, op>>

\* spawn_thread: reserve and map the stack, then publish the task with the
\* handle, and the placements, read at the start.
spawn_thread(t, u) ==
  /\ Reads(t) /\ u \notin live /\ AddressSpaceOf[u] = AddressSpaceOf[t]
  /\ \A c \in UserTasks : op[c].kind = "thread" => op[c].arg # u
  /\ reserve_anon_shared(t, 1)
  /\ LET m == map_fresh(Under(AddressSpaceOf[t]), top(AddressSpaceOf[t]))
     IN /\ Commit(AddressSpaceOf[t], m)
        /\ op' = IF m.ok
                 THEN [op EXCEPT ![t] = [kind |-> "thread", va |-> top(AddressSpaceOf[t]),
                                         left |-> 0, arg |-> u]]
                 ELSE op
        /\ shared' = IF m.ok THEN [shared EXCEPT ![u] = shared[t]] ELSE shared
  /\ UNCHANGED live
\* Without kernel memory for the task the call fails, and the stack stays.
spawn_push(t, ok) ==
  /\ op[t].kind = "thread"
  /\ IF ok
     THEN /\ live' = live \cup {op[t].arg}
          /\ heap_next' = [heap_next EXCEPT ![op[t].arg] = op[t].va + 1]
          /\ UNCHANGED shared
     ELSE /\ shared' = [shared EXCEPT ![op[t].arg] = <<>>]
          /\ UNCHANGED <<live, heap_next>>
  /\ op' = [op EXCEPT ![t] = NoCall]
  /\ UNCHANGED <<free, space>>

\* Placements::find and place, under the scheduler's lock: a buffer already
\* placed answers its address at once, a new one takes the next address.
Placed(t) == {shared[t][i] : i \in DOMAIN shared[t]}
map_shared_current(t, b) ==
  /\ Reads(t) /\ b \notin Placed(t)
  /\ shared' = [shared EXCEPT ![t] = Append(@, b)]
  /\ op' = [op EXCEPT ![t] = [kind |-> "shared", va |-> USER_SHARED_VA + Len(shared[t]),
                              left |-> 0, arg |-> b]]
  /\ UNCHANGED <<free, space, heap_next, live>>
map_shared(t) ==
  /\ op[t].kind = "shared"
  /\ Commit(AddressSpaceOf[t], map_page(Under(AddressSpaceOf[t]), op[t].va,
                                 [frame |-> PoolFrames + op[t].arg, owned |-> FALSE]))
  /\ op' = [op EXCEPT ![t] = NoCall]
  /\ UNCHANGED <<heap_next, shared, live>>

\* A pointer argument: every page checked against the caller's tables, the bytes
\* copied afterwards.
user_range_ok(t, va) ==
  /\ Reads(t) /\ lookup(Under(AddressSpaceOf[t]), va)
  /\ op' = [op EXCEPT ![t] = [kind |-> "copy", va |-> va, left |-> 0, arg |-> 0]]
  /\ UNCHANGED <<free, space, heap_next, shared, live>>
copy_from_user(t) ==
  /\ op[t].kind = "copy"
  /\ op' = [op EXCEPT ![t] = NoCall]
  /\ UNCHANGED <<free, space, heap_next, shared, live>>

\* The last task of a space takes the space with it; its handle and its
\* placements go with the task.
exit(t) ==
  /\ Reads(t)
  /\ live' = live \ {t}
  /\ IF Of(AddressSpaceOf[t]) = {t}
     THEN Commit(AddressSpaceOf[t], free_table(Under(AddressSpaceOf[t])))
     ELSE UNCHANGED <<free, space>>
  /\ heap_next' = [heap_next EXCEPT ![t] = USER_HEAP_BASE]
  /\ shared' = [shared EXCEPT ![t] = <<>>]
  /\ UNCHANGED op

\* The addresses a program passes to munmap and points at: memory it was given
\* by a call.
Given == USER_HEAP_BASE .. USER_SHARED_VA + Cardinality(Objects) - 1

VmNext ==
  \E t \in UserTasks :
    \/ spawn_image(t)
    \/ \E pages \in 1 .. 2 : map_anon_current(t, pages)
    \/ map_anon_at(t)
    \/ \E va \in Given, pages \in 1 .. 2 : unmap_current(t, va, pages)
    \/ unmap_at(t)
    \/ \E va \in Mappable : grow_stack_current(t, va)
    \/ \E u \in UserTasks : spawn_thread(t, u)
    \/ \E ok \in BOOLEAN : spawn_push(t, ok)
    \/ \E b \in Objects : map_shared_current(t, b)
    \/ map_shared(t)
    \/ \E va \in Given : user_range_ok(t, va)
    \/ copy_from_user(t)
    \/ exit(t)

VmSpec == VmInit /\ [][VmNext]_vmVars

------------------------------------------------------------------------------
VmTypeOK ==
  /\ free \subseteq 1 .. PoolFrames
  /\ heap_next \in [UserTasks -> Cursors]
  /\ live \subseteq UserTasks

\* A frame of the pool is in one place at most: free, one table of one space, or
\* one page of one space that owns it; and a frame that belongs to a shared
\* buffer is never given to the pool.  A frame in two places is handed to a
\* second owner while the first still maps it (unmap, free_table, map_fresh).
Holders(f) ==
  {h \in UserSpaces \X Tables : space[h[1]].table[h[2]] = f}
    \cup {h \in UserSpaces \X Mappable : LET p == space[h[1]].page[h[2]] IN p.owned /\ p.frame = f}
FramesHeldOnce ==
  /\ VmTypeOK
  /\ \A f \in 1 .. PoolFrames : Cardinality(Holders(f)) + (IF f \in free THEN 1 ELSE 0) <= 1

\* Two runs of the anonymous region never meet: a page about to be mapped for a
\* reservation is not mapped already (reserve_anon_shared keeps every thread's
\* copy of the cursor at the furthest).
HeapFresh ==
  \A t \in live : op[t].kind = "anon" => ~lookup(Under(AddressSpaceOf[t]), op[t].va)
------------------------------------------------------------------------------
\* Why a frame is held once, for a space as the frame lock's holder sees it: of
\* the frames U it may touch, each is free, or one table, or one owned page, or
\* lost.
Pool == 1 .. PoolFrames
Page == [frame : Int, owned : BOOLEAN]
Memory == [free : SUBSET Pool, table : [Tables -> Pool \cup {NoFrame}], page : [Mappable -> Page],
           ok : BOOLEAN]
Apart(m, U) ==
  /\ m \in Memory /\ m.free \subseteq U /\ U \subseteq Pool
  /\ \A n \in Tables : m.table[n] # NoFrame =>
        /\ m.table[n] \in U \ m.free
        /\ \A k \in Tables : k # n => m.table[k] # m.table[n]
        /\ \A v \in Mappable : m.page[v].owned => m.page[v].frame # m.table[n]
  /\ \A v \in Mappable : m.page[v].owned =>
        /\ m.page[v].frame \in U \ m.free
        /\ \A w \in Mappable : w # v /\ m.page[w].owned => m.page[w].frame # m.page[v].frame

\* The spaces side by side: what one holds no other does.
Held(s) == ({space[s].table[n] : n \in Tables} \ {NoFrame}) \cup owned(space[s])
SpacesApart ==
  /\ free \subseteq Pool
  /\ space \in [UserSpaces -> [table : [Tables -> Pool \cup {NoFrame}], page : [Mappable -> Page]]]
  /\ \A s \in UserSpaces : Apart(Under(s), free \cup Held(s))
  /\ \A s, r \in UserSpaces : s # r => Held(s) \cap Held(r) = {}

\* A call that works page by page was asked for pages of the window, and a new
\* thread's cursor is inside the anonymous region.
CallsFit ==
  /\ DOMAIN op = UserTasks
  /\ \A t \in UserTasks :
        /\ op[t].kind = "unmap" => /\ op[t].left \in Nat /\ op[t].va \in Mappable
                                   /\ op[t].va + op[t].left - 1 \in Mappable
        /\ op[t].kind = "shared" => op[t].arg \in Objects
        /\ op[t].kind = "thread" => op[t].arg \in UserTasks /\ op[t].va + 1 \in Cursors
VmInv == VmTypeOK /\ SpacesApart /\ CallsFit
==============================================================================
