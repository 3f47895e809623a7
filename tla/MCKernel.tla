------------------------------ MODULE MCKernel ------------------------------
(***************************************************************************)
(* The kernel's parts besides the scheduler and its notifications: the     *)
(* lock, the bands, endpoints without deadlines, the cores' bring-up and   *)
(* timers, and everything the kernel owns and hands out.  A behaviour is   *)
(* about one part, chosen in the initial state; the others stand still.    *)
(* Names several parts use carry the part's name here.                     *)
(***************************************************************************)
EXTENDS SpinLock, Objects, Bands, Bringup, Clock, KernelHeap, AddressSpaces, Iommu

VARIABLES
    part,
    parked, wake_pending, pending, waiter, call_pc, ids, deadline, owed,
    ring, recv_waiters, send_waiters, notify, mailbox, at, km, peer, call_bound, cont, result, sends,
    longest, out,
    tokens, ready, walk,
    machine, phase, ram, heap, pool,
    load_free, procs, load_lost

\* Two processes of a thread each, and enough objects to reuse a slot twice.
MCSpaceOf == [t \in Tasks |-> t]

\* Three tasks that send and receive without deadlines on one endpoint.
Callers == {"a", "b", "c"}
E == INSTANCE Ipc WITH Tasks <- Callers, Lines <- {}, Notifs <- {}, MaxPending <- 1, Watch <- [t \in Callers |-> {}],
                       Endpoints <- {"ep"}, Bell <- [e \in {"ep"} |-> "unbound"], Polls <- {}, RecvUntil <- {"none"},
                       RING_CAP <- 2, MAX_WAITERS <- 2, MaxSends <- 4, pc <- call_pc, bound <- call_bound

\* 7 = 4 + 2 + 1: three trees.
F == INSTANCE FramePool WITH PoolFrames <- 7, MaxCount <- 4

\* Blocks of one unit to three, and two layouts that ask for alignment.
MCLayouts == [size : 1..3, align : {1}] \cup {[size |-> 1, align |-> 2], [size |-> 2, align |-> 4]}

\* Two threads of one process.
MCThreadsOf == [t \in {1, 2} |-> "p"]

T == INSTANCE DeviceTree WITH Names <- {[base |-> "a", unit |-> ""]},
                              MaxTokens <- 6, MAX_DEPTH <- 3, CELL <- 4

\* One stream in the table and one beyond it; bindings of one page, of two and of none.
MCBindings == {[iova |-> 0, phys |-> 0, pages |-> 1], [iova |-> 1, phys |-> 4, pages |-> 2],
               [iova |-> 0, phys |-> 0, pages |-> 0]}

\* One bank, too small for the heap or not, or two; claims inside, across and
\* outside them, more than the array holds.
MCRegion(start, end) == [start |-> start, end |-> end]
MCMachines ==
    [banks : {<<<<0, 9>>>>, <<<<0, 26>>>>, <<<<14, 30>>, <<1, 12>>>>}, image : {MCRegion(1, 3)},
     dtb : {<<4, 1>>, <<21, 2>>}, initrd : {MCRegion(0, 0), MCRegion(6, 8)},
     rsvmap : {<<>>, <<<<0, 0>>, <<0, 12>>>>} \cup {<<<<x, 1>>>> : x \in {0, 11, 15, 24}},
     carveouts : {<<>>} \cup {<<<<>>, <<x, n>>>> : x \in {2, 7, 13, 18, 25}, n \in {0, 3, 9}}]
M == INSTANCE BootMemory WITH Machines <- MCMachines, PAGE <- 4, LAST <- 31, SLACK <- 4, NODE <- 1,
                              MAX_EXCLUSIONS <- 4, free <- ram

\* Segments that share a page, that end in a page of zeros, that reach past the
\* image's end, that overlap; and a file that is no ELF.
MCSeg(o, v, f, m) ==
    [offset |-> o, vaddr |-> v, filesz |-> f, memsz |-> m, flags |-> IF v = 0 THEN {"x"} ELSE {"w"}]
MCImage(segs, heads) == [sound |-> TRUE, segs |-> segs, len |-> 7, heads |-> heads]
MCInit_image == MCImage(<<MCSeg(2, 0, 4, 4), MCSeg(6, 4, 1, 3)>>, 2)
MCImages == {MCImage(<<MCSeg(2, 0, 5, 7)>>, 1),
             MCImage(<<MCSeg(2, 0, 3, 4), MCSeg(5, 12, 2, 8)>>, 2),
             MCImage(<<MCSeg(2, 0, 3, 3), MCSeg(5, 8, 3, 6)>>, 2),
             MCImage(<<MCSeg(2, 4, 4, 8), MCSeg(0, 14, 0, 5)>>, 2),
             MCImage(<<MCSeg(2, 0, 2, 2), MCSeg(4, 4, 2, 3)>>, 1),
             MCImage(<<MCSeg(2, 0, 3, 8), MCSeg(5, 4, 2, 3)>>, 2),
             MCImage(<<MCSeg(2, 0, 0, 9)>>, 1),
             [MCImage(<<>>, 0) EXCEPT !.sound = FALSE]}
L == INSTANCE Loader WITH Images <- MCImages, Init_image <- MCInit_image, Slots <- 1..3, FRAMES <- 17,
                          BASE <- 3, PAGE <- 4, FAN <- 2, IMAGE_END <- 20, free <- load_free,
                          lost <- load_lost

Parts == {"lock", "bands", "endpoint", "bringup", "clock", "objects", "frames", "heap", "spaces", "tree", "smmu",
          "memory", "loader"}
callVars == <<parked, wake_pending, pending, waiter, call_pc, ids, deadline, owed, ring, recv_waiters, send_waiters,
              notify, mailbox, at, km, peer, call_bound, cont, result, sends>>
poolVars == <<longest, out>>
treeVars == <<tokens, ready, walk>>
memVars == <<machine, phase, ram, heap, pool>>
loadVars == <<load_free, procs, load_lost>>
kernelVars == <<part, vars, bandVars, callVars, bootVars, clockVars, objVars, poolVars, kheapVars,
                vmVars, treeVars, smmuVars, memVars, loadVars>>
-----------------------------------------------------------------------------
\* A part that stands still has one initial state.
KernelInit ==
    /\ part \in Parts
    /\ BandInit /\ (part # "bands" => current = 0 /\ \A t \in Table : class[t] = Normal)
    /\ ClockInit /\ (part # "clock" => freq = 6 /\ base = 0)
    /\ ObjInit /\ (part # "objects" => caps[1] # <<>>)
    /\ M!MemInit /\ (part # "memory" => machine = CHOOSE x \in MCMachines : TRUE)
    /\ Init /\ BootInit /\ E!Init
    /\ F!PoolInit /\ KHeapInit /\ VmInit /\ T!TreeInit /\ SmmuInit /\ L!LoadInit

KernelNext ==
    /\ IF part = "lock" THEN Next ELSE UNCHANGED vars
    /\ IF part = "bands" THEN BandNext ELSE UNCHANGED bandVars
    /\ IF part = "endpoint" THEN E!Next ELSE UNCHANGED callVars
    /\ IF part = "bringup" THEN BootNext ELSE UNCHANGED bootVars
    /\ IF part = "clock" THEN ClockNext ELSE UNCHANGED clockVars
    /\ IF part = "objects" THEN ObjNext ELSE UNCHANGED objVars
    /\ IF part = "frames" THEN F!PoolNext ELSE UNCHANGED poolVars
    /\ IF part = "heap" THEN KHeapNext ELSE UNCHANGED kheapVars
    /\ IF part = "spaces" THEN VmNext ELSE UNCHANGED vmVars
    /\ IF part = "tree" THEN T!TreeNext ELSE UNCHANGED treeVars
    /\ IF part = "smmu" THEN SmmuNext ELSE UNCHANGED smmuVars
    /\ IF part = "memory" THEN M!MemNext ELSE UNCHANGED memVars
    /\ IF part = "loader" THEN L!LoadNext ELSE UNCHANGED loadVars
    /\ UNCHANGED part

KernelSpec == KernelInit /\ [][KernelNext]_kernelVars
-----------------------------------------------------------------------------
\* An endpoint is a FIFO channel, through full rings, blocked senders and
\* messages on their way to a mailbox (module Ipc).
EndpointIsChannel ==
    /\ E!Channels!ChannelInit
    /\ [][part = "endpoint" => E!Channels!ChannelNext]_(E!Channels!channelVars)

\* No frame is in two blocks, a run is refused only when there is none, and
\* with nothing out every tree is whole again (module FramePool).
PoolExact == part = "frames" => F!PoolExact /\ F!AllCoalesced

\* Every node is read with the cells its parent declared, and both readers
\* find the same children (module DeviceTree).
NodesKnowTheirParent == part = "tree" => T!NodesKnowTheirParent /\ T!ChildrenAgree

\* Nothing firmware, the image or the initrd occupies is handed out
\* (module BootMemory).
OnlyFreeMemory == part = "memory" => M!OnlyFreeMemory

\* A program starts whole or not at all, and no frame is lost where a spawn
\* fails (module Loader).
StartsWhole == part = "loader" => L!StartsWhole
=============================================================================
