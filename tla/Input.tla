-------------------------------- MODULE Input --------------------------------
(***************************************************************************)
(* Input devices in user space.  The device manager (devicemgr main.rs)    *)
(* looks at every virtio slot, classifies the input devices and hands each *)
(* one's device and interrupt to the driver; the driver (inputsrv main.rs, *)
(* virtio lib.rs) arms a queue of event buffers per device, waits for any  *)
(* of their interrupts, drains all of them and publishes what it decodes.  *)
(* The devices, the interrupt path and the reader of the events are        *)
(* modelled from how the driver uses them.  Ring indices count modulo      *)
(* INDEX_MOD for the code's 2^16.                                          *)
(***************************************************************************)
EXTENDS Integers, SequencesExt

CONSTANTS
    Machines,      \* what the slots of a machine may report: sequences of sets of classes
    MAX_DEVICES,   \* the devices the manager hands over and the driver takes
    QUEUE_SIZE,    \* event buffers per device
    INDEX_MOD,     \* where a ring index wraps: a multiple of QUEUE_SIZE above it
    EVENT_BUF,     \* events one buffer holds
    RING_CAP,      \* messages the endpoint of the driver holds
    AXIS_SCALE,    \* the scale of a normalised position
    MaxActions     \* physical actions of all the devices, two events each

VARIABLES
    machine,    \* what each slot reports; {} is not an input device
    mgr,        \* how many of the devices found the manager has handed over
    handover,   \* the endpoint from the manager to the driver
    drv,        \* where the driver is
    devices,    \* the driver's Device table
    dma,        \* the slices of the DMA run: rings and buffers
    hw,         \* per slot: the device, its slice and the events not yet in a buffer
    line,       \* per slot: the interrupt line and its notification
    out,        \* every message published, in order
    taken       \* how many of them were received

inputVars == <<machine, mgr, handover, drv, devices, dma, hw, line, out, taken>>

Slots == DOMAIN machine
Ring == 0..(QUEUE_SIZE - 1)
Event(kind, code, value) == [kind |-> kind, code |-> code, value |-> value]
SYN == Event("syn", "none", 0)
Axes == [min |-> 1, max |-> 3]

InputInit ==
    /\ machine \in Machines
    /\ mgr = 0 /\ handover = <<>> /\ devices = <<>> /\ out = <<>> /\ taken = 0
    /\ drv = [at |-> "handover", i |-> 0, used |-> 0, events |-> <<>>]
    /\ dma = [r \in 0..(MAX_DEVICES - 1) |->
                [avail |-> [k \in Ring |-> 0], avail_idx |-> 0,
                 used |-> [k \in Ring |-> 0], used_idx |-> 0, buf |-> [k \in Ring |-> <<>>]]]
    /\ hw = [s \in Slots |-> [live |-> FALSE, region |-> 0, seen |-> 0, used_idx |-> 0, isr |-> FALSE,
                              todo |-> <<>>, made |-> <<>>]]
    /\ line = [s \in Slots |-> [enabled |-> FALSE, signals |-> 0]]
-----------------------------------------------------------------------------
\* classify: absolute axes before relative ones, both before keys.
classify(reports) ==
    CASE "abs" \in reports -> "tablet"
      [] "abs" \notin reports /\ "rel" \in reports -> "mouse"
      [] reports = {"key"} -> "keyboard"
      [] OTHER -> "other"

\* find_virtio_inputs: the first slots that hold an input device, whatever it is.
found == LET inputs == SelectSeq([s \in Slots |-> s], LAMBDA s : machine[s] # {})
         IN SubSeq(inputs, 1, IF Len(inputs) < MAX_DEVICES THEN Len(inputs) ELSE MAX_DEVICES)

\* One found device: its device and its interrupt, or neither when it is of no
\* use or the kernel mints no capability for it.
Delegate(minted) ==
    /\ mgr < Len(found) /\ mgr' = mgr + 1
    /\ LET s    == found[mgr + 1]
           kind == classify(machine[s])
       IN handover' = IF minted /\ kind # "other"
                      THEN handover \o <<[tag |-> kind, cap |-> <<"device", s>>],
                                         [tag |-> kind, cap |-> <<"irq", s>>]>>
                      ELSE handover
    /\ UNCHANGED <<machine, drv, devices, dma, hw, line, out, taken>>

SendEnd == /\ mgr = Len(found) /\ mgr' = mgr + 1
           /\ handover' = Append(handover, [tag |-> "end", cap |-> <<"none", 0>>])
           /\ UNCHANGED <<machine, drv, devices, dma, hw, line, out, taken>>

\* setup: a queue in the slice of the DMA run that the next table entry gets,
\* with every buffer available, and then the interrupt.  A device that is not
\* what it claims is left alone; one whose interrupt does not register is left
\* running on the slice, and the next device gets that slice too.
setup(kind, s, irq, result) ==
    LET r == Len(devices)
    IN  /\ IF result = "refused" THEN UNCHANGED <<dma, hw>>
           ELSE /\ hw' = [hw EXCEPT ![s].live = TRUE, ![s].region = r]
                /\ dma' = [dma EXCEPT ![r].avail = [k \in Ring |-> k], ![r].avail_idx = QUEUE_SIZE % INDEX_MOD]
        /\ IF result # "driven" THEN UNCHANGED <<devices, line>>
           ELSE /\ devices' = Append(devices, [slot |-> s, irq |-> irq, kind |-> kind, region |-> r,
                                               last_used |-> 0, x |-> 0, y |-> 0, moved |-> FALSE])
                /\ line' = [line EXCEPT ![irq].enabled = TRUE]

\* The driver's loop over two messages per device; it ends at the terminator or
\* with the table full, and without a device the driver exits.
recv_caps(result) ==
    /\ drv.at = "handover" /\ Len(devices) < MAX_DEVICES /\ handover # <<>>
    /\ IF Head(handover).tag = "end"
       THEN /\ drv' = [drv EXCEPT !.at = IF devices = <<>> THEN "exited" ELSE "wait"]
            /\ handover' = Tail(handover) /\ UNCHANGED <<devices, dma, hw, line>>
       ELSE /\ Len(handover) > 1
            /\ setup(handover[1].tag, handover[1].cap[2], handover[2].cap[2], result)
            /\ handover' = SubSeq(handover, 3, Len(handover)) /\ UNCHANGED drv
    /\ UNCHANGED <<machine, mgr, out, taken>>

Full == /\ drv.at = "handover" /\ Len(devices) = MAX_DEVICES
        /\ drv' = [drv EXCEPT !.at = "wait"]
        /\ UNCHANGED <<machine, mgr, handover, devices, dma, hw, line, out, taken>>
-----------------------------------------------------------------------------
\* The device: a physical action is a few events that end in SYN, and a buffer
\* is filled with the next of them and announced by an interrupt.
ActionsOf(kind) ==
    CASE kind = "tablet" -> {<<Event("abs", "x", 2), SYN>>, <<Event("abs", "y", 0), SYN>>,
                             <<Event("key", "button", 1), SYN>>}
      [] kind = "keyboard" -> {<<Event("key", "a", 1), SYN>>}
      [] OTHER -> {<<Event("rel", "x", 1), SYN>>}

Act(s) ==
    /\ hw[s].live /\ Len(FlattenSeq([t \in Slots |-> hw[t].made])) < 2 * MaxActions
    /\ \E a \in ActionsOf(classify(machine[s])) :
          hw' = [hw EXCEPT ![s].todo = @ \o a, ![s].made = @ \o a]
    /\ UNCHANGED <<machine, mgr, handover, drv, devices, dma, line, out, taken>>

Fill(s) ==
    LET h  == hw[s]
        d  == dma[h.region]
        id == d.avail[h.seen % QUEUE_SIZE]
        n  == IF Len(h.todo) < EVENT_BUF THEN Len(h.todo) ELSE EVENT_BUF
        to == (h.used_idx + 1) % INDEX_MOD
    IN  /\ h.todo # <<>> /\ h.seen # d.avail_idx
        /\ hw' = [hw EXCEPT ![s] = [h EXCEPT !.seen = (@ + 1) % INDEX_MOD, !.used_idx = to, !.isr = TRUE,
                                             !.todo = SubSeq(@, n + 1, Len(@))]]
        /\ dma' = [dma EXCEPT ![h.region] = [d EXCEPT !.buf[id] = SubSeq(h.todo, 1, n),
                                                     !.used[h.used_idx % QUEUE_SIZE] = id, !.used_idx = to]]
        /\ UNCHANGED <<machine, mgr, handover, drv, devices, line, out, taken>>

\* The kernel: an enabled line that is high is masked and its notification signalled.
irq_dispatch(s) ==
    /\ line[s].enabled /\ hw[s].isr
    /\ line' = [line EXCEPT ![s] = [enabled |-> FALSE, signals |-> @.signals + 1]]
    /\ UNCHANGED <<machine, mgr, handover, drv, devices, dma, hw, out, taken>>
-----------------------------------------------------------------------------
Me == devices[drv.i]
Mine == dma[Me.region]
Rest(d) == [devices EXCEPT ![drv.i] = d]

\* WaitAny consumes one signal of one device; every device is drained.
wait_any ==
    /\ drv.at = "wait"
    /\ \E i \in DOMAIN devices :
          /\ line[devices[i].irq].signals > 0
          /\ \A j \in 1..(i - 1) : line[devices[j].irq].signals = 0
          /\ line' = [line EXCEPT ![devices[i].irq].signals = @ - 1]
    /\ drv' = [drv EXCEPT !.at = "drain", !.i = 1]
    /\ UNCHANGED <<machine, mgr, handover, devices, dma, hw, out, taken>>

\* drain: acknowledge at the transport, then read the used index once.
\* Mutant: the index first.
read_first ==
    /\ \/ /\ drv.at = "drain" /\ drv' = [drv EXCEPT !.at = "read", !.used = Mine.used_idx]
          /\ UNCHANGED hw
       \/ /\ drv.at = "read" /\ drv' = [drv EXCEPT !.at = "loop"]
          /\ hw' = [hw EXCEPT ![Me.slot].isr = FALSE]
    /\ UNCHANGED <<machine, mgr, handover, devices, dma, line, out, taken>>
drain ==
    /\ \/ /\ drv.at = "drain" /\ drv' = [drv EXCEPT !.at = "read"]
          /\ hw' = [hw EXCEPT ![Me.slot].isr = FALSE]
       \/ /\ drv.at = "read" /\ drv' = [drv EXCEPT !.at = "loop", !.used = Mine.used_idx]
          /\ UNCHANGED hw
    /\ UNCHANGED <<machine, mgr, handover, devices, dma, line, out, taken>>

\* The used entries are taken from where the last drain stopped.
\* Mutant: from the newest.
newest_used == (drv.used + INDEX_MOD - 1) % QUEUE_SIZE
next_used == Me.last_used % QUEUE_SIZE

\* handle_buffer: all the events of the buffer are copied before any is handled.
handle_buffer ==
    /\ drv.at = "loop" /\ Me.last_used # drv.used
    /\ drv' = [drv EXCEPT !.at = "events", !.events = Mine.buf[Mine.used[next_used]]]
    /\ UNCHANGED <<machine, mgr, handover, devices, dma, hw, line, out, taken>>

\* AbsInfo::normalise: a fraction of the axis, clamped; the middle without one.
normalise(axis, value) ==
    LET clamped == IF value < axis.min THEN axis.min ELSE IF value > axis.max THEN axis.max ELSE value
    IN IF axis.max <= axis.min THEN AXIS_SCALE \div 2
       ELSE ((clamped - axis.min) * AXIS_SCALE) \div (axis.max - axis.min)

\* handle_event: keys and buttons at once, a position when SYN ends it.  The
\* axis that did not move keeps its place.  publish blocks on a full endpoint.
publish(m) == /\ Len(out) - taken < RING_CAP
              /\ out' = Append(out, [slot |-> Me.slot, msg |-> m])
settled(d) == [d EXCEPT !.moved = FALSE]
handle_event ==
    /\ drv.at = "events" /\ drv.events # <<>>
    /\ LET e == Head(drv.events)
       IN \/ /\ e.kind = "key" /\ publish(<<IF e.code = "button" THEN "button" ELSE "key", e.code, e.value>>)
             /\ UNCHANGED devices
          \/ /\ e.kind = "abs" /\ UNCHANGED out
             /\ devices' = Rest(IF e.code = "x" THEN [Me EXCEPT !.x = normalise(Axes, e.value), !.moved = TRUE]
                                ELSE [Me EXCEPT !.y = normalise(Axes, e.value), !.moved = TRUE])
          \/ /\ e = SYN /\ Me.moved /\ publish(<<"pointer", Me.x, Me.y>>)
             /\ devices' = Rest(settled(Me))
          \/ /\ e.kind = "rel" \/ (e = SYN /\ ~Me.moved)
             /\ UNCHANGED <<out, devices>>
    /\ drv' = [drv EXCEPT !.events = Tail(@)]
    /\ UNCHANGED <<machine, mgr, handover, dma, hw, line, taken>>

\* The buffer goes back in the slot of the used index it came from.
Republish ==
    /\ drv.at = "events" /\ drv.events = <<>>
    /\ LET k == Me.last_used % QUEUE_SIZE
       IN dma' = [dma EXCEPT ![Me.region].avail[k] = Mine.used[k],
                             ![Me.region].avail_idx = (@ + 1) % INDEX_MOD]
    /\ devices' = Rest([Me EXCEPT !.last_used = (@ + 1) % INDEX_MOD])
    /\ drv' = [drv EXCEPT !.at = "loop"]
    /\ UNCHANGED <<machine, mgr, handover, hw, line, out, taken>>

\* QUEUE_NOTIFY and IrqAck, whether or not the ring had moved.
rearm == [line EXCEPT ![Me.irq].enabled = TRUE]
irq_ack ==
    /\ drv.at = "loop" /\ Me.last_used = drv.used
    /\ line' = rearm
    /\ drv' = [drv EXCEPT !.at = IF drv.i < Len(devices) THEN "drain" ELSE "wait",
                          !.i = IF drv.i < Len(devices) THEN @ + 1 ELSE 0, !.used = 0]
    /\ UNCHANGED <<machine, mgr, handover, devices, dma, hw, out, taken>>

Receive == /\ taken < Len(out) /\ taken' = taken + 1
           /\ UNCHANGED <<machine, mgr, handover, drv, devices, dma, hw, line, out>>

Manager == (\E minted \in BOOLEAN : Delegate(minted)) \/ SendEnd
InputDriver == \/ \E result \in {"refused", "unheard", "driven"} : recv_caps(result)
               \/ Full \/ wait_any \/ drain \/ handle_buffer \/ handle_event \/ Republish \/ irq_ack
InputNext == \/ Manager \/ InputDriver \/ Receive
             \/ \E s \in Slots : Act(s) \/ Fill(s) \/ irq_dispatch(s)
Device(s) == Fill(s) \/ irq_dispatch(s)

InputSpec == InputInit /\ [][InputNext]_inputVars
             /\ WF_inputVars(Manager) /\ WF_inputVars(InputDriver) /\ WF_inputVars(Receive)
             /\ \A s \in 1..3 : WF_inputVars(s \in Slots /\ Device(s))
-----------------------------------------------------------------------------
\* What a device's events amount to: each key and button, and at the end of
\* each action that moved, the last value of either axis.
LastOf(made, k, axis) ==
    LET at == {i \in 1..k : made[i].kind = "abs" /\ made[i].code = axis}
    IN IF at = {} THEN 0 ELSE normalise(Axes, made[CHOOSE i \in at : \A j \in at : j <= i].value)
MovedIn(made, k) == \E i \in 1..(k - 1) : made[i].kind = "abs" /\ \A j \in (i + 1)..(k - 1) : made[j] # SYN
Says(made, k) ==
    IF made[k].kind = "key"
    THEN <<<<IF made[k].code = "button" THEN "button" ELSE "key", made[k].code, made[k].value>>>>
    ELSE IF made[k] = SYN /\ MovedIn(made, k)
         THEN <<<<"pointer", LastOf(made, k, "x"), LastOf(made, k, "y")>>>> ELSE <<>>
Report(made) == FlattenSeq([k \in 1..Len(made) |-> Says(made, k)])
Heard(s) == LET mine == SelectSeq(out, LAMBDA m : m.slot = s)
            IN [i \in 1..Len(mine) |-> mine[i].msg]

\* A device with its slice of the DMA run to itself.  One beside which another
\* was left running is not: their events land in the same buffers.
Alone(s) == \A t \in Slots \ {s} : hw[t].live => hw[t].region # hw[s].region

\* Every event is published once, in order and whole: what the driver has said
\* of a device is a prefix of what the device reported, through the wrap of the
\* ring indices, drains of several buffers that end in the middle of an action,
\* and drains that find the other device's ring moving.  It is a promise to a
\* device that has its slice to itself: setup may leave one without.
PublishedInOrder == \A s \in Slots : Alone(s) => IsPrefix(Heard(s), Report(hw[s].made))

\* No event is left in a ring: everything such a device reported is published in
\* the end when it is driven, although one WaitAny answers for both devices and
\* the line is masked from the interrupt to IrqAck.
Driven(s) == Alone(s) /\ \E i \in DOMAIN devices : devices[i].slot = s
InputHeard == \A s \in 1..3 : [](s \in Slots /\ Driven(s) => <>(~Alone(s) \/ Heard(s) = Report(hw[s].made)))
=============================================================================
