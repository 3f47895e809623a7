------------------------------- MODULE MCUser -------------------------------
(***************************************************************************)
(* User space in one run: the C library's locks and threads, descriptors,  *)
(* files, streams, heap, console, formatting, calendar and sorting, the    *)
(* archive's directories, the display server's screen and its clients'     *)
(* events, and the input driver with its devices.  A behaviour is about    *)
(* one part, chosen in the initial state; the others stand still.  Names   *)
(* several parts use carry the part's name here.                           *)
(***************************************************************************)
EXTENDS Threads, ThreadLife, Descriptors, Compositor, Process, Files

VARIABLES
    part,
    offset, stream_buf, ungot, eof, error, open, pos,
    blocks, mapped, live_bytes, live_blocks, program, torn,
    text_call, text, read_back,
    members, length, dirs,
    days, leaf, from, tm,
    given, array, start, end, root, found,
    input, sent, loop_request, waits, loop_ring, seen, outbox, arrivals, watches, died, windows, focus, turn,
    goodbyes, loop_pc,
    machine, mgr, handover, drv, devices, dma, hw, line, out, taken

\* The functions two threads call on one mutex and condition variable, on one
\* semaphore and on one reader-writer lock.
MCOps == [monitor   |-> {"lock", "trylock", "unlock", "wait", "timedwait", "signal", "broadcast"},
          semaphore |-> {"sem_wait", "sem_trywait", "sem_post"},
          rwlock    |-> {"rdlock", "tryrd", "wrlock", "trywr", "rwunlock"}]
AllOps == UNION {MCOps[o] : o \in DOMAIN MCOps}

\* A file of two pages and one of one.
MCSizeOf == [f \in {"a", "b"} |-> IF f = "a" THEN 2 ELSE 1]

S == INSTANCE Streams WITH FileSize <- 4, BUFFER <- 2, buf <- stream_buf

\* Sizes that leave a remainder worth a block and ones that do not; alignments
\* whose gap is nothing, a bare header or a block, with sizes of even units.
M == INSTANCE Malloc WITH HEADER <- 2, PageUnits <- 8, Region <- 16, MaxRegions <- 2,
                          Sizes <- {3, 4, 8}, AlignedSizes <- {2, 4}, Aligns <- {1, 4, 8}

\* Integers of 8 bits in the place of 64 and of 6 in the place of 32, at their ends and about 0, 8 and 16.
MCFlags == {{}, {"zero"}, {"left"}, {"plus", "zero"}, {"space"}, {"alt", "zero"}, {"left", "zero", "alt"}}
MCPrecisions == {-1, 0, 3}
MCValues == {-64, -17, -1, 0, 7, 8, 16, 63, 64, 127}
P == INSTANCE Text WITH Long <- 128, Short <- 32, Flags <- MCFlags, Widths <- {0, 5}, Precisions <- MCPrecisions,
                        Values <- MCValues, call <- text_call, back <- read_back

\* Files beside directories, more directories than are remembered, a file named like a directory.
MCFile(name, size) == [name |-> name, size |-> size]
MCArchives ==
    {<<MCFile(<<"d", "x">>, 3), MCFile(<<"a">>, 4), MCFile(<<"d", "y">>, 0), MCFile(<<"d", "g", "z">>, 5)>>,
     <<MCFile(<<"d", "x">>, 1), MCFile(<<"g", "y">>, 2), MCFile(<<"h", "z">>, 1), MCFile(<<"h", "w">>, 6)>>,
     <<MCFile(<<"g">>, 1), MCFile(<<"g", "y">>, 2)>>}
L == INSTANCE Listing WITH Archives <- MCArchives, Paths <- {<<>>, <<"d">>, <<"d", "g">>, <<"q">>},
                           Streams <- {1, 2}, HEADER_LEN <- 6, ALIGN <- 4, SEEN <- 2

\* Texts that fill a line, that hold a newline and that do neither.
MCTexts == {<<"a">>, <<"b", "nl", "c">>, <<"d", "e">>}

\* The last days before 1970, before the year 0 and before a leap day that is and one that is not.
MCDate(n, y, m, d, yd) == [days |-> n, year |-> y, month |-> m, day |-> d, yday |-> yd]
MCStarts == {MCDate(-1, 1969, 12, 31, 364), MCDate(-719529, -1, 12, 31, 364), MCDate(10990, 2000, 2, 3, 33),
             MCDate(47511, 2100, 1, 30, 29), MCDate(-719470, 0, 2, 28, 58)}
C == INSTANCE Calendar WITH Starts <- MCStarts, SPAN <- 66, Steps <- {-400, -1, 45}, DAY <- 10, page <- leaf

\* Every array of up to five of three keys.
Q == INSTANCE Sorting WITH Keys <- 1..3, MaxLength <- 5

\* One client whose ring and outbox hold two events each.
E == INSTANCE DisplayLoop WITH Clients <- {0}, RING <- 2, OUTBOX_DEPTH <- 2, CLIENTS_EXPECTED <- 1, MaxEvents <- 5,
                               request <- loop_request, ring <- loop_ring, pc <- loop_pc

\* Slots with a key, a pointer, both, something else or nothing; two buffers per queue, each of which ends in the
\* middle of an action; the ring indices wrap after four.
MCMachines == {<<{"key"}, {}, {"abs", "key"}>>, <<{"rel"}, {"other"}, {"key"}>>}
I == INSTANCE Input WITH Machines <- MCMachines, MAX_DEVICES <- 2, QUEUE_SIZE <- 2, INDEX_MOD <- 4, EVENT_BUF <- 1,
                         RING_CAP <- 2, AXIS_SCALE <- 4, MaxActions <- 2

Parts == DOMAIN MCOps \cup {"life", "descriptors", "files", "streams", "malloc", "screen", "text", "listing",
                            "process", "calendar", "sorting", "display", "input"}
streamVars == <<offset, stream_buf, ungot, eof, error, open, pos>>
mallocVars == <<blocks, mapped, live_bytes, live_blocks, program, torn>>
textVars == <<text_call, text, read_back>>
listVars == <<members, length, dirs>>
calVars == <<days, leaf, from, tm>>
sortVars == <<given, array, start, end, root, found>>
loopVars == <<input, sent, loop_request, waits, loop_ring, seen, outbox, arrivals, watches, died, windows, focus,
              turn, goodbyes, loop_pc>>
inputVars == <<machine, mgr, handover, drv, devices, dma, hw, line, out, taken>>
userVars == <<part, syncVars, lifeVars, fdVars, fileVars, streamVars, mallocVars, screenVars, textVars, listVars,
              procVars, calVars, sortVars, loopVars, inputVars>>
-----------------------------------------------------------------------------
\* A part that stands still has one initial state.
UserInit ==
    /\ part \in Parts
    /\ L!ListInit /\ (part # "listing" => Len(members) = 2 /\ length = L!Offset[3])
    /\ C!CalInit /\ (part # "calendar" => days = -1)
    /\ Q!SortInit /\ (part # "sorting" => given = <<>>)
    /\ IF part = "text" THEN P!TextInit ELSE text_call = 0 /\ text = <<>> /\ read_back = P!Unread
    /\ SyncInit /\ LifeInit /\ FdInit /\ FilesInit /\ S!StreamInit /\ M!MallocInit /\ ScreenInit
    /\ ProcInit /\ E!LoopInit
    /\ I!InputInit /\ (part # "input" => machine = CHOOSE m \in MCMachines : TRUE)

UserNext ==
    /\ IF part \in DOMAIN MCOps THEN Sync(MCOps[part]) ELSE UNCHANGED syncVars
    /\ IF part = "life" THEN LifeNext ELSE UNCHANGED lifeVars
    /\ IF part = "descriptors" THEN FdNext ELSE UNCHANGED fdVars
    /\ IF part = "files" THEN FilesNext ELSE UNCHANGED fileVars
    /\ IF part = "streams" THEN S!StreamNext ELSE UNCHANGED streamVars
    /\ IF part = "malloc" THEN M!MallocNext ELSE UNCHANGED mallocVars
    /\ IF part = "screen" THEN ScreenNext ELSE UNCHANGED screenVars
    /\ IF part = "text" THEN P!TextNext ELSE UNCHANGED textVars
    /\ IF part = "listing" THEN L!ListNext ELSE UNCHANGED listVars
    /\ IF part = "process" THEN ProcNext ELSE UNCHANGED procVars
    /\ IF part = "calendar" THEN C!CalNext ELSE UNCHANGED calVars
    /\ IF part = "sorting" THEN Q!SortNext ELSE UNCHANGED sortVars
    /\ IF part = "display" THEN E!LoopNext ELSE UNCHANGED loopVars
    /\ IF part = "input" THEN I!InputNext ELSE UNCHANGED inputVars
    /\ UNCHANGED part

UserSpec == UserInit /\ [][UserNext]_userVars
-----------------------------------------------------------------------------
\* A program cannot tell that a stream reads ahead (module Streams); a pipe
\* returns the bytes that were written, in order, from a slot that is its own
\* (module Descriptors); a client reads its events in the order they happened
\* (module DisplayLoop), and what an input device reports is published in order
\* (module Input).
ReadsItsOwn ==
    /\ part = "streams" => S!ReadAheadUnseen
    /\ part = "descriptors" => SlotsKept
    /\ part = "display" => E!LoopTypeOK /\ E!EventsInOrder
    /\ part = "input" => I!PublishedInOrder

\* Blocks tile the regions malloc was given (module Malloc).
BlocksTile == part = "malloc" => M!BlocksTile

\* The library's pure functions give what C defines: what sprintf writes, sscanf
\* and strtoul read back (module Text); localtime and mktime keep the civil
\* calendar day by day (module Calendar); qsort orders and bsearch finds (module
\* Sorting).
LibraryAnswers ==
    /\ part = "text" => P!ReadsBack
    /\ part = "calendar" => C!KeepsTheCalendar
    /\ part = "sorting" => Q!SortsAndFinds

\* A directory is listed completely and each name once (module Listing).
ListsEachOnce == part = "listing" => L!ListsEachOnce
=============================================================================
