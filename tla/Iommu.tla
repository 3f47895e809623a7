------------------------------- MODULE Iommu --------------------------------
(***************************************************************************)
(* The SMMU driver (arch smmu.rs, kernel iommu.rs, the iommu crate): which *)
(* pages a device may reach.  A bind builds a stage-2 table, writes the    *)
(* stream's entry a doubleword at a time, posts CFGI_STE and SYNC, rings   *)
(* the doorbell and waits for the SMMU to consume them, giving up after a  *)
(* bounded spin.  The SMMU works on its own: it fetches and caches entries *)
(* when a device emits a transaction, between any two of those steps,      *)
(* consumes commands when it likes, and logs what it aborts.  Address      *)
(* translations are walked each time: its TLB is not modelled.             *)
(***************************************************************************)
EXTENDS Integers, SequencesExt, FiniteSetsExt

CONSTANTS
    Streams,        \* stream ids callers name
    STRTAB,         \* entries of the stream table
    Bindings,       \* [iova, phys, pages] callers bind
    Pages,          \* addresses a device emits
    FAN,            \* pages under one leaf table
    TableFrames,    \* frames tables are built from
    CMDQ, EVENTQ,   \* entries of the two queues
    MaxBinds, MaxEvents   \* bounds on what is tried and logged

VARIABLES
    ste,       \* stream table in memory: [valid, root] of each entry
    cached,    \* the SMMU's copy of an entry
    tables,    \* [frames, map] of each table in memory, by root
    table_pool,   \* frames no table uses
    cmdq,      \* slots, the driver's index, the producer and consumer registers
    gerror,    \* GERROR differs from GERRORN
    smmu_op,   \* what the holder of the SMMU lock is doing, and which step is next
    stream_bound,   \* BOUND, the binds that have yet to be pushed to it, and those it had no room for
    eventq,    \* slots, the SMMU's producer, the kernel's consumer
    binds,     \* binds so far
    logged, read,  \* what the SMMU recorded and what next_event returned
    unanswered,    \* streams whose last bind or unbind the SMMU did not answer
    lag            \* commands the SMMU was told of and has not consumed, until it is lapped

smmuVars == <<ste, cached, tables, table_pool, cmdq, gerror, smmu_op, stream_bound, eventq, binds,
              logged, read, unanswered, lag>>

ASSUME IommuAssumption ==
    /\ Streams \subseteq Nat /\ STRTAB \in Nat
    /\ IsFiniteSet(TableFrames) /\ TableFrames \subseteq Nat \ {0}
    /\ FAN \in Nat \ {0}
    /\ \A b \in Bindings : b.iova \in Nat /\ b.phys \in Nat /\ b.pages \in Nat
    /\ CMDQ \in Nat \ {0, 1} /\ EVENTQ \in Nat \ {0}
    /\ MaxBinds \in Nat

NoOp == [do |-> "none", at |-> "none", stream |-> 0, root |-> 0]
InTable == {s \in Streams : s < STRTAB}

\* An entry is what its doublewords 0 (V and the configuration) and 3 (S2TTB)
\* say; one that is not valid aborts its stream.  A command is CFGI_STE for a
\* stream, or SYNC.
stage2_ste(root) == [valid |-> TRUE, root |-> root]
abort_ste == [valid |-> FALSE, root |-> 0]
NoCopy == [valid |-> FALSE, root |-> -1]
cmd_cfgi_ste(stream) == stream
cmd_sync == -1
\* init_smmu hands over a zeroed stream table.
Denied == [s \in InTable |-> abort_ste]

\* init: queues empty, every entry zero, which aborts its stream.
SmmuInit ==
    /\ ste = Denied /\ cached = [s \in InTable |-> NoCopy]
    /\ tables = <<>> /\ table_pool = TableFrames
    /\ cmdq = [slots |-> [i \in 0..(CMDQ - 1) |-> cmd_sync], next |-> 0, prod |-> 0, cons |-> 0]
    /\ gerror = FALSE /\ smmu_op = NoOp
    /\ stream_bound = [list |-> <<>>, late |-> {}, lost |-> {}]
    /\ eventq = [slots |-> [i \in 0..(EVENTQ - 1) |-> <<>>], prod |-> 0, cons |-> 0]
    /\ binds = 0 /\ logged = <<>> /\ read = <<>> /\ unanswered = {} /\ lag = 0

eventVars == <<eventq, logged, read>>
tableVars == <<tables, table_pool>>
-----------------------------------------------------------------------------
\* build_stage2_map: a root and one leaf table per FAN input pages, or nothing;
\* which frames is the pool's matter (module FramePool).
Covered(b) == b.iova..(b.iova + b.pages - 1)
Needed(b) == 1 + Cardinality({p \div FAN : p \in Covered(b)})
build_stage2_map(b) ==
    [frames |-> CHOOSE f \in kSubset(Needed(b), table_pool) : TRUE,
     map    |-> [p \in Covered(b) |-> p - b.iova + b.phys]]
free_stage2_table(root) ==
    /\ table_pool' = table_pool \cup tables[root].frames
    /\ tables' = [r \in DOMAIN tables \ {root} |-> tables[r]]

AtStep(do, at) == smmu_op.do \in do /\ smmu_op.at = at
Then(at) == smmu_op' = [smmu_op EXCEPT !.at = at]

\* bind_at up to the stream table.  A stream outside the table, an empty buffer
\* and a pool without room are refused with nothing changed.
bind_stream_at(stream, b) ==
    /\ smmu_op = NoOp /\ binds < MaxBinds /\ binds' = binds + 1
    /\ IF b.pages = 0 \/ stream >= STRTAB \/ Cardinality(table_pool) < Needed(b)
       THEN UNCHANGED <<tableVars, smmu_op>>
       ELSE LET t == build_stage2_map(b)
                root == CHOOSE r \in t.frames : TRUE
            IN /\ tables' = [r \in DOMAIN tables \cup {root} |-> IF r = root THEN t ELSE tables[r]]
               /\ table_pool' = table_pool \ t.frames
               /\ smmu_op' = [do |-> "bind", at |-> "valid", stream |-> stream, root |-> root]
    /\ UNCHANGED <<ste, cached, cmdq, gerror, stream_bound, eventVars, unanswered, lag>>

\* write_ste, from doubleword 0 up: an entry is valid before it has its table,
\* and one that is taken back is not valid before it loses its own.
Entered == IF smmu_op.do = "bind" THEN stage2_ste(smmu_op.root) ELSE abort_ste
write_ste ==
    /\ \/ /\ smmu_op.at = "valid" /\ Then("table")
          /\ ste' = [ste EXCEPT ![smmu_op.stream].valid = Entered.valid]
       \/ /\ smmu_op.at = "table" /\ Then(IF smmu_op.do = "unwind" THEN "free" ELSE "cfgi")
          /\ ste' = [ste EXCEPT ![smmu_op.stream].root = Entered.root]
    /\ UNCHANGED <<cached, tableVars, cmdq, gerror, stream_bound, eventVars, binds, unanswered, lag>>

\* push, twice: it does not look at the consumer's index.
\* Mutant: SYNC alone, and the SMMU keeps its copy.
push_sync ==
    /\ smmu_op.at = "cfgi" /\ Then("ring")
    /\ cmdq' = [cmdq EXCEPT !.slots[cmdq.next % CMDQ] = cmd_sync, !.next = (@ + 1) % (2 * CMDQ)]
    /\ UNCHANGED <<ste, cached, tableVars, gerror, stream_bound, eventVars, binds, unanswered, lag>>
push ==
    /\ \/ /\ smmu_op.at = "cfgi" /\ Then("sync")
          /\ cmdq' = [cmdq EXCEPT !.slots[cmdq.next % CMDQ] = cmd_cfgi_ste(smmu_op.stream),
                                  !.next = (@ + 1) % (2 * CMDQ)]
       \/ /\ smmu_op.at = "sync" /\ Then("ring")
          /\ cmdq' = [cmdq EXCEPT !.slots[cmdq.next % CMDQ] = cmd_sync, !.next = (@ + 1) % (2 * CMDQ)]
    /\ UNCHANGED <<ste, cached, tableVars, gerror, stream_bound, eventVars, binds, unanswered, lag>>
doorbell ==
    /\ smmu_op.at = "ring" /\ Then("wait")
    /\ cmdq' = [cmdq EXCEPT !.prod = cmdq.next]
    /\ lag' = lag + ((cmdq.next - cmdq.prod + 2 * CMDQ) % (2 * CMDQ))
    /\ UNCHANGED <<ste, cached, tableVars, gerror, stream_bound, eventVars, binds, unanswered>>

\* wait_consumed: the consumer's register is where the driver's index is.
Consumed == cmdq.cons = cmdq.next

\* wait_consumed and global_error answer well: the lock is dropped, and the
\* table is remembered later, under the other lock, if the list can grow.
Bound ==
    /\ AtStep({"bind"}, "wait") /\ Consumed /\ ~gerror
    /\ smmu_op' = NoOp
    /\ stream_bound' = [stream_bound EXCEPT !.late = @ \cup {<<smmu_op.stream, smmu_op.root>>}]
    /\ unanswered' = unanswered \ {smmu_op.stream}
    /\ UNCHANGED <<ste, cached, tableVars, cmdq, gerror, eventVars, binds, lag>>
remember ==
    /\ \E b \in stream_bound.late :
          \/ stream_bound' = [stream_bound EXCEPT !.list = Append(@, b), !.late = @ \ {b}]
          \/ stream_bound' = [stream_bound EXCEPT !.lost = @ \cup {b}, !.late = @ \ {b}]
    /\ UNCHANGED <<ste, cached, tableVars, cmdq, gerror, smmu_op, eventVars, binds, unanswered, lag>>

\* They do not, or the spin gives up: the entry is taken back and the table
\* freed, without another invalidation.
unwind ==
    /\ AtStep({"bind"}, "wait") /\ (~Consumed \/ gerror)
    /\ smmu_op' = [smmu_op EXCEPT !.do = "unwind", !.at = "valid"]
    /\ unanswered' = unanswered \cup {smmu_op.stream}
    /\ UNCHANGED <<ste, cached, tableVars, cmdq, gerror, stream_bound, eventVars, binds, lag>>

\* reclaim at shutdown, when every bind has returned: the list is unbound one
\* stream at a time.
unbind_stream ==
    /\ smmu_op = NoOp /\ binds = MaxBinds /\ stream_bound.late = {} /\ stream_bound.list # <<>>
    /\ smmu_op' = [do |-> "unbind", at |-> "valid",
                   stream |-> stream_bound.list[1][1], root |-> stream_bound.list[1][2]]
    /\ stream_bound' = [stream_bound EXCEPT !.list = Tail(@)]
    /\ UNCHANGED <<ste, cached, tableVars, cmdq, gerror, eventVars, binds, unanswered, lag>>

\* The table goes back, at the end of an unwinding and of an unbind; here the
\* answer of wait_consumed is ignored.
give_back ==
    /\ AtStep({"unwind"}, "free") \/ AtStep({"unbind"}, "wait")
    /\ free_stage2_table(smmu_op.root) /\ smmu_op' = NoOp
    /\ unanswered' = IF smmu_op.do = "unbind" /\ Consumed THEN unanswered \ {smmu_op.stream}
                     ELSE unanswered \cup {smmu_op.stream}
    /\ UNCHANGED <<ste, cached, cmdq, gerror, stream_bound, eventVars, binds, lag>>
-----------------------------------------------------------------------------
\* Enough calls without an answer and the driver's index is where the SMMU's
\* was a whole turn ago: wait_consumed takes that for an answer.
Lapped == lag >= 2 * CMDQ

\* The SMMU consumes a command it was told of, or latches an error.
Consume ==
    /\ cmdq.cons # cmdq.prod
    /\ LET c == cmdq.slots[cmdq.cons % CMDQ]
       IN cached' = IF c = cmd_sync THEN cached ELSE [cached EXCEPT ![c] = NoCopy]
    /\ cmdq' = [cmdq EXCEPT !.cons = (@ + 1) % (2 * CMDQ)]
    /\ lag' = IF Lapped THEN lag ELSE lag - 1
    /\ UNCHANGED <<ste, tableVars, gerror, smmu_op, stream_bound, eventVars, binds, unanswered>>
Latch == /\ ~gerror /\ gerror' = TRUE
         /\ UNCHANGED <<ste, cached, tableVars, cmdq, smmu_op, stream_bound, eventVars, binds, unanswered, lag>>

\* A device emits an address: its entry is fetched unless it is cached, and an
\* address the table does not map is aborted and recorded while the queue has
\* room.  An entry that is valid without its table is walked from address 0.
Entry(s) == IF cached[s] = NoCopy THEN ste[s] ELSE cached[s]
QueueFull == (eventq.prod - eventq.cons + 2 * EVENTQ) % (2 * EVENTQ) = EVENTQ
Translates(e, page) == e.valid /\ e.root \in DOMAIN tables /\ page \in DOMAIN tables[e.root].map
Transaction(s, page) ==
    /\ cached' = [cached EXCEPT ![s] = Entry(s)]
    /\ IF Translates(Entry(s), page) \/ QueueFull
       THEN UNCHANGED <<eventq, logged>>
       ELSE /\ Len(logged) < MaxEvents
            /\ logged' = Append(logged, <<s, page>>)
            /\ eventq' = [eventq EXCEPT !.slots[eventq.prod % EVENTQ] = <<s, page>>,
                                        !.prod = (@ + 1) % (2 * EVENTQ)]
    /\ UNCHANGED <<ste, tableVars, cmdq, gerror, smmu_op, stream_bound, binds, read, unanswered, lag>>

\* next_event: nothing when the producer has not moved past the kernel's index,
\* the wrap bit included; else the slot, and the index is published.
\* Mutant: the wrap bit is left out of the comparison.
NoEvent_unwrapped == eventq.prod % EVENTQ = eventq.cons % EVENTQ
NoEvent == eventq.prod = eventq.cons
next_event ==
    /\ smmu_op = NoOp
    /\ \/ /\ ~NoEvent
          /\ read' = Append(read, eventq.slots[eventq.cons % EVENTQ])
          /\ eventq' = [eventq EXCEPT !.cons = (@ + 1) % (2 * EVENTQ)]
       \/ /\ NoEvent  \* None; one that comes too early is kept as <<>>
          /\ read' = IF read = logged THEN read ELSE Append(read, <<>>)
          /\ UNCHANGED eventq
    /\ UNCHANGED <<ste, cached, tableVars, cmdq, gerror, smmu_op, stream_bound, binds, logged, unanswered, lag>>

SmmuNext ==
    \/ \E s \in Streams, b \in Bindings : bind_stream_at(s, b)
    \/ write_ste \/ push \/ doorbell \/ Bound \/ remember \/ unwind \/ unbind_stream \/ give_back
    \/ Consume \/ Latch \/ next_event
    \/ \E s \in InTable, p \in Pages : Transaction(s, p)
SmmuSpec == SmmuInit /\ [][SmmuNext]_smmuVars
-----------------------------------------------------------------------------
\* Every record the SMMU logged is read once and in the order it was logged,
\* and "no more events" is said only when there are none: also when the queue
\* is full and the two indices differ in the wrap bit alone.
FaultsReadInOrder == IsPrefix(read, logged)

Calling(s) == smmu_op # NoOp /\ smmu_op.stream = s
Unentered(s) == smmu_op.do = "bind" /\ smmu_op.stream = s

\* What bind_stream_at and unbind_stream say once the SMMU has answered: its
\* copy of the stream's entry, if it has one, is the entry in memory, whatever
\* it fetched between the stores of write_ste or before the commands reached it.
AnswersHold ==
    \A s \in InTable \ unanswered : ~Calling(s) => cached[s] \in {NoCopy, ste[s]}

\* Who walks what, also while a call is under way: an entry in memory and a copy
\* of one name a table in memory, and no frame is in two tables or in the pool.
\* A valid entry without its table is there only until the bind that writes it
\* is answered.
NamesTable(s, e) == e.valid => e.root \in DOMAIN tables \/ (Unentered(s) /\ e.root = 0)
WalksLiveTables ==
    /\ \A s \in InTable : NamesTable(s, ste[s])
    /\ \A s \in InTable \ unanswered : NamesTable(s, cached[s])
TablesApart ==
    \A r \in DOMAIN tables :
        /\ tables[r].frames \cap table_pool = {}
        /\ \A q \in DOMAIN tables \ {r} : tables[r].frames \cap tables[q].frames = {}

\* A device is confined by every call the SMMU answers, and no fault is lost or
\* read twice.  A stream whose bind or unbind went unanswered is not: its copy
\* may name the table that was freed (bind_stream_at unwinds without another
\* invalidation, unbind_stream frees without looking at the answer).  Nor is
\* any once the command queue has been lapped: push takes room for granted.
SmmuSound == (~Lapped => AnswersHold /\ WalksLiveTables) /\ TablesApart /\ FaultsReadInOrder
-----------------------------------------------------------------------------
\* The invariant behind it.  Every table is on record with the stream it was
\* made for (by the call under way, among the binds yet to be pushed, in BOUND,
\* or among those it had no room for), once; an entry, and the SMMU's copy of
\* one, is a table on record for that very stream; and while a call waits either
\* the SMMU's copy is the entry or the command that drops it is still queued.
StreamTables == InTable \X TableFrames
Entries == [valid : BOOLEAN, root : TableFrames \cup {0}]
Stages ==
    [do : {"bind", "unbind"}, at : {"valid", "table", "cfgi", "sync", "ring", "wait"},
     stream : InTable, root : TableFrames]
    \cup [do : {"unwind"}, at : {"valid", "table", "free"}, stream : InTable, root : TableFrames]
SmmuTypeOK ==
    /\ ste \in [InTable -> Entries] /\ cached \in [InTable -> Entries \cup {NoCopy}]
    /\ DOMAIN tables \subseteq TableFrames /\ table_pool \subseteq TableFrames
    /\ \A r \in DOMAIN tables : tables[r].frames \subseteq TableFrames /\ r \in tables[r].frames
    /\ cmdq \in [slots : [0..(CMDQ - 1) -> InTable \cup {cmd_sync}], next : 0..(2 * CMDQ - 1),
                 prod : 0..(2 * CMDQ - 1), cons : 0..(2 * CMDQ - 1)]
    /\ smmu_op \in Stages \cup {NoOp}
    /\ stream_bound \in [list : Seq(StreamTables), late : SUBSET StreamTables, lost : SUBSET StreamTables]
    /\ eventq \in [slots : [0..(EVENTQ - 1) -> (InTable \X Pages) \cup {<<>>}],
                   prod : 0..(2 * EVENTQ - 1), cons : 0..(2 * EVENTQ - 1)]
    /\ binds \in 0..MaxBinds
    /\ logged \in Seq(InTable \X Pages) /\ read \in Seq(InTable \X Pages)
    /\ unanswered \subseteq InTable /\ lag \in Nat

InBound == {stream_bound.list[i] : i \in DOMAIN stream_bound.list}
Called == IF smmu_op = NoOp THEN {} ELSE {<<smmu_op.stream, smmu_op.root>>}
OnRecord == Called \cup stream_bound.late \cup stream_bound.lost \cup InBound
OneRecord ==
    /\ \A b \in OnRecord : b[2] \in DOMAIN tables
    /\ \A b, c \in OnRecord : b[2] = c[2] => b = c
    /\ \A i, j \in DOMAIN stream_bound.list : stream_bound.list[i] = stream_bound.list[j] => i = j
    /\ Called \cap (stream_bound.late \cup stream_bound.lost \cup InBound) = {}
    /\ stream_bound.late \cap (stream_bound.lost \cup InBound) = {}
    /\ stream_bound.lost \cap InBound = {}

\* An entry on record, or one that is being written.
Known(s, e) == e.valid => <<s, e.root>> \in OnRecord \/ (Unentered(s) /\ e.root = 0)
EntriesOnRecord == \A s \in InTable : Known(s, ste[s])
CachesOnRecord == \A s \in InTable \ unanswered : Known(s, cached[s])

\* What the stores of write_ste have left in memory so far, and no other time.
HalfWay(s) == smmu_op.at = "table" /\ smmu_op.stream = s
EntriesWritten ==
    /\ \A s \in InTable : ~HalfWay(s) => ste[s] = abort_ste \/ (ste[s].valid /\ ste[s].root # 0)
    /\ smmu_op.at = "table" => ste[smmu_op.stream].valid = Entered.valid
    /\ smmu_op.at \in {"cfgi", "sync", "ring", "wait", "free"} => ste[smmu_op.stream] = Entered
    /\ smmu_op.do = "unwind" => smmu_op.stream \in unanswered

\* How far the SMMU is behind what it was told, and the driver's last commands
\* in the queue: what is k entries back from an index.
Back(i, k) == IF i >= k THEN i - k ELSE i - k + 2 * CMDQ
CommandsQueued ==
    /\ ~Lapped => lag = Back(cmdq.prod, cmdq.cons)
    /\ smmu_op.at = "sync" =>
           cmdq.prod = Back(cmdq.next, 1) /\ cmdq.slots[Back(cmdq.next, 1) % CMDQ] = smmu_op.stream
    /\ smmu_op.at = "ring" => cmdq.prod = Back(cmdq.next, 2)
    /\ smmu_op.at \notin {"sync", "ring"} => cmdq.prod = cmdq.next
    /\ smmu_op.at \in {"ring", "wait"} => cmdq.slots[Back(cmdq.next, 2) % CMDQ] = smmu_op.stream

\* The SMMU's copy, once the command that drops it is consumed.
Current(s) == cached[s] \in {NoCopy, ste[s]}
Dropped == smmu_op.at = "wait" => lag >= 2 \/ Current(smmu_op.stream)

\* The event queue holds what was logged and not yet read.
Unread == Len(logged) - Len(read)
Slot(k) == ((eventq.cons + k) % (2 * EVENTQ)) % EVENTQ
EventsKept ==
    /\ Len(read) <= Len(logged) /\ Unread <= EVENTQ
    /\ \A i \in 1..Len(read) : read[i] = logged[i]
    /\ eventq.prod = (eventq.cons + Unread) % (2 * EVENTQ)
    /\ \A k \in 0..(Unread - 1) : eventq.slots[Slot(k)] = logged[Len(read) + 1 + k]

SmmuInv ==
    /\ SmmuTypeOK /\ TablesApart /\ OneRecord /\ EntriesOnRecord /\ EntriesWritten /\ CommandsQueued
    /\ EventsKept /\ (~Lapped => CachesOnRecord /\ AnswersHold /\ Dropped)
=============================================================================
