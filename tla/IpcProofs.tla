------------------------------ MODULE IpcProofs ------------------------------
(***************************************************************************)
(* An endpoint never queues a message behind room or behind a receiver,    *)
(* and a poller of one never sleeps over a message, in any instance: any   *)
(* number of tasks and endpoints, receives with and without deadlines, and *)
(* notifications.                                                          *)
(***************************************************************************)
EXTENDS Ipc, TLAPS

\* What the proof keeps about the three queues.
QueueInv ==
    /\ ring \in [Endpoints -> Seq(Msgs)]
    /\ send_waiters \in [Endpoints -> Seq(Tasks \X Msgs)]
    /\ recv_waiters = [e \in Endpoints |-> recv_waiters[e]]
    /\ sends \in 0..MaxSends
    /\ \A e \in Endpoints : Len(ring[e]) <= RING_CAP
    /\ QueuesExclude

\* A call of send.
LEMMA SendQueues ==
    ASSUME QueueInv, NEW t \in Tasks, NEW e \in Endpoints, NEW b \in BOOLEAN,
           Send(t, e, b)
    PROVE  QueueInv'
<1> DEFINE m == sends + 1
<1>0. /\ ring \in [Endpoints -> Seq(Msgs)]
      /\ send_waiters \in [Endpoints -> Seq(Tasks \X Msgs)]
      /\ recv_waiters = [f \in Endpoints |-> recv_waiters[f]]
      /\ \A f \in Endpoints : Len(ring[f]) <= RING_CAP
      /\ QueuesExclude /\ RING_CAP \in Nat \ {0}
  BY IpcAssumption DEF QueueInv
<1>1. m \in Msgs /\ sends' \in 0..MaxSends
  BY IpcAssumption DEF QueueInv, Send, Msgs
<1>2. CASE SendDeliver(t, e, m)
  <2>1. /\ recv_waiters[e] # <<>> /\ UNCHANGED <<ring, send_waiters>>
        /\ recv_waiters' = [recv_waiters EXCEPT ![e] = Tail(recv_waiters[e])]
    BY <1>2 DEF SendDeliver, receiver_waits
  <2> QED BY <1>0, <1>1, <2>1 DEF QueueInv, QueuesExclude
<1>3. CASE SendBuffered(t, e, m)
  <2>1. /\ recv_waiters[e] = <<>> /\ Len(ring[e]) < RING_CAP
        /\ ring' = [ring EXCEPT ![e] = Append(ring[e], m)]
        /\ UNCHANGED <<recv_waiters, send_waiters>>
    BY <1>3 DEF SendBuffered, receiver_waits, may_push_msg
  <2>2. ring[e] \in Seq(Msgs) /\ send_waiters[e] = <<>>
    BY <1>0, <2>1 DEF QueuesExclude
  <2>3. Append(ring[e], m) \in Seq(Msgs) /\ Len(Append(ring[e], m)) = Len(ring[e]) + 1
    BY <1>1, <2>2
  <2>4. Len(ring[e]) + 1 <= RING_CAP
    BY <1>0, <2>1, <2>2
  <2> QED BY <1>0, <1>1, <2>1, <2>2, <2>3, <2>4 DEF QueueInv, QueuesExclude
<1>4. CASE SendBlock(t, e, m)
  <2>1. /\ recv_waiters[e] = <<>> /\ ~ (Len(ring[e]) < RING_CAP)
        /\ send_waiters' = [send_waiters EXCEPT ![e] = Append(send_waiters[e], <<t, m>>)]
        /\ UNCHANGED <<ring, recv_waiters>>
    BY <1>4 DEF SendBlock, receiver_waits, may_push_msg
  <2>2. ring[e] \in Seq(Msgs) /\ Len(ring[e]) = RING_CAP
    BY <1>0, <2>1
  <2>3. Append(send_waiters[e], <<t, m>>) \in Seq(Tasks \X Msgs)
    BY <1>0, <1>1
  <2> QED BY <1>0, <1>1, <2>1, <2>2, <2>3 DEF QueueInv, QueuesExclude
<1>5. CASE SendRefused(t, e, b)
  BY <1>0, <1>1, <1>5 DEF SendRefused, QueueInv, QueuesExclude
<1> QED BY <1>2, <1>3, <1>4, <1>5 DEF Send

\* A call of recv_until.
LEMMA RecvQueues ==
    ASSUME QueueInv, NEW t \in Tasks, NEW e \in Endpoints, NEW until, Recv(t, e, until)
    PROVE  QueueInv'
<1>0. /\ ring \in [Endpoints -> Seq(Msgs)]
      /\ send_waiters \in [Endpoints -> Seq(Tasks \X Msgs)]
      /\ recv_waiters = [f \in Endpoints |-> recv_waiters[f]]
      /\ \A f \in Endpoints : Len(ring[f]) <= RING_CAP
      /\ QueuesExclude /\ RING_CAP \in Nat \ {0} /\ sends' \in 0..MaxSends
      /\ ring[e] \in Seq(Msgs) /\ send_waiters[e] \in Seq(Tasks \X Msgs)
  BY IpcAssumption DEF QueueInv, Recv
<1>1. ring[e] # <<>> => /\ Tail(ring[e]) \in Seq(Msgs)
                        /\ Len(Tail(ring[e])) = Len(ring[e]) - 1
                        /\ Len(ring[e]) \in Nat
  BY <1>0
<1>2. CASE RecvGot(t, e)
  <2>1. /\ ring[e] # <<>> /\ send_waiters[e] = <<>>
        /\ ring' = [ring EXCEPT ![e] = Tail(ring[e])]
        /\ UNCHANGED <<recv_waiters, send_waiters>>
    BY <1>2 DEF RecvGot
  <2>2. recv_waiters[e] = <<>> /\ Len(Tail(ring[e])) <= RING_CAP
    BY <1>0, <1>1, <2>1 DEF QueuesExclude
  <2> QED BY <1>0, <1>1, <2>1, <2>2 DEF QueueInv, QueuesExclude
<1>3. CASE RecvWakeSender(t, e)
  <2> DEFINE refilled == Append(Tail(ring[e]), Head(send_waiters[e])[2])
  <2>1. /\ ring[e] # <<>> /\ send_waiters[e] # <<>>
        /\ ring' = [ring EXCEPT ![e] = refilled]
        /\ send_waiters' = [send_waiters EXCEPT ![e] = Tail(send_waiters[e])]
        /\ UNCHANGED recv_waiters
    BY <1>3 DEF RecvWakeSender
  <2>2. /\ Head(send_waiters[e]) \in Tasks \X Msgs
        /\ Tail(send_waiters[e]) \in Seq(Tasks \X Msgs)
    BY <1>0, <2>1
  <2>3. refilled \in Seq(Msgs) /\ Len(refilled) = Len(Tail(ring[e])) + 1
    BY <1>1, <2>1, <2>2
  <2>4. Len(refilled) = RING_CAP /\ recv_waiters[e] = <<>>
    BY <1>0, <1>1, <2>1, <2>3 DEF QueuesExclude
  <2> HIDE DEF refilled
  <2> QED BY <1>0, <2>1, <2>2, <2>3, <2>4 DEF QueueInv, QueuesExclude
<1>4. CASE RecvBlock(t, e, until)
  <2>1. /\ ring[e] = <<>> /\ UNCHANGED <<ring, send_waiters>>
        /\ recv_waiters' = [recv_waiters EXCEPT ![e] = Append(recv_waiters[e], t)]
    BY <1>4 DEF RecvBlock
  <2> QED BY <1>0, <2>1 DEF QueueInv, QueuesExclude
<1>5. CASE RecvFull(t, e)
  BY <1>0, <1>5 DEF RecvFull, QueueInv, QueuesExclude
<1> QED BY <1>2, <1>3, <1>4, <1>5 DEF Recv

\* A receive that timed out leaves the queue of receivers and nothing else.
LEMMA CancelQueues ==
    ASSUME QueueInv, NEW t \in Tasks, Cancel(t)
    PROVE  QueueInv'
<1> DEFINE e == at[t]
           queued == {k \in DOMAIN recv_waiters[e] : recv_waiters[e][k] = t}
           left == IF queued = {} THEN recv_waiters[e]
                   ELSE RemoveAt(recv_waiters[e], Min(queued))
<1>1. /\ recv_waiters' = [recv_waiters EXCEPT ![e] = left]
      /\ UNCHANGED <<ring, send_waiters, sends>>
  BY DEF Cancel, cancel_recv_waiter
<1>2. recv_waiters[e] = <<>> => left = <<>>
  BY DEF left
<1> HIDE DEF left
<1>3. \A f \in Endpoints : recv_waiters[f] = <<>> => recv_waiters'[f] = <<>>
  BY <1>1, <1>2 DEF QueueInv
<1>4. recv_waiters' = [f \in Endpoints |-> recv_waiters'[f]]
  BY <1>1 DEF QueueInv
<1> QED BY <1>1, <1>3, <1>4 DEF QueueInv, QueuesExclude

LEMMA InitQueues == Init => QueueInv
BY IpcAssumption DEF Init, QueueInv, QueuesExclude

LEMMA NextQueues == QueueInv /\ [Next]_vars => QueueInv'
<1> SUFFICES ASSUME QueueInv, [Next]_vars PROVE QueueInv'
  OBVIOUS
<1>1. CASE UNCHANGED <<ring, recv_waiters, send_waiters, sends>>
  BY <1>1 DEF QueueInv, QueuesExclude
<1>2. CASE UNCHANGED vars \/ (NotifyNext /\ UNCHANGED ipcVars)
  BY <1>1, <1>2 DEF vars, ipcVars
<1>3. ASSUME NEW t \in Tasks, NEW e \in Endpoints,
             \/ \E b \in BOOLEAN : Send(t, e, b)
             \/ \E until \in RecvUntil : Recv(t, e, until)
      PROVE  QueueInv'
  BY <1>3, SendQueues, RecvQueues
<1>4. ASSUME NEW t \in Tasks, Continue(t)
      PROVE  QueueInv'
  <2>1. CASE Cancel(t)
    BY <2>1, CancelQueues
  <2>2. CASE Announce(t) \/ SendPark(t) \/ RecvPark(t)
    BY <1>1, <2>2 DEF Announce, SendPark, RecvPark, ipcVars
  <2>3. CASE Announced(t) \/ Deliver(t) \/ SendResumed(t) \/ MakeRoom(t) \/ RecvResumed(t)
    BY <1>1, <2>3 DEF Announced, Deliver, SendResumed, MakeRoom, RecvResumed,
       endpointVars
  <2> QED BY <1>4, <2>1, <2>2, <2>3 DEF Continue
<1>5. CASE \E poll \in Polls : \/ BindNotify(poll[1], poll[2], Bell[poll[2]])
                               \/ BindNotify(poll[1], poll[2], NoNotif)
                               \/ PollEmpty(poll[1], poll[2])
  BY <1>1, <1>5 DEF BindNotify, PollEmpty, endpointVars
<1>6. CASE \E t \in Tasks, until \in {"none", "ahead"} : PollWait(t, until)
  BY <1>1, <1>6 DEF PollWait, endpointVars
<1> QED BY <1>2, <1>3, <1>4, <1>5, <1>6 DEF Next

\* A receiver waits only on an empty ring and a sender only on a full one:
\* what pending's comment relies on when it does not count blocked senders.
THEOREM QueuesNeverMix == Spec => []QueuesExclude
<1>1. QueueInv => QueuesExclude
  BY DEF QueueInv
<1> QED BY <1>1, InitQueues, NextQueues, PTL DEF Spec

-----------------------------------------------------------------------------
(***************************************************************************)
(* Pollers.  Each poller binds a notification of its own, which no other   *)
(* poll shares and nobody waits on otherwise: bind_notify's comment speaks *)
(* of the one task that polls.  A second waiter would consume the signal.  *)
(***************************************************************************)
OneBellEach ==
    /\ NoNotif \notin Notifs
    /\ \A p, q \in Polls : Bell[p[2]] = Bell[q[2]] => p = q \/ Bell[p[2]] = NoNotif
    /\ \A p \in Polls, t \in Tasks : Bell[p[2]] \notin UNION Watch[t]

\* Task t has seen e's ring empty, or waits on the notification bound to e; and
\* the signals of notification i that it will still find.
Listens(t, e) ==
    \/ pc[t] = "poll" /\ at[t] = e
    \/ Waiting(t) /\ notify[e] \in ids[t]
Comes(i) == pending[i] > 0 \/ \E u \in Tasks : pc[u] = "announce" /\ bound[u] = i

\* The inductive invariant: a task that polls, not only one already asleep,
\* has a signal coming for every message it has not seen.
PollShapes ==
    /\ pc = [p \in Procs |-> pc[p]]
    /\ at = [t \in Tasks |-> at[t]] /\ ids = [t \in Tasks |-> ids[t]]
    /\ bound = [t \in Tasks |-> bound[t]]
    /\ cont \in [Tasks -> {"user", "deliver", "make_room"}]
    /\ notify = [e \in Endpoints |-> notify[e]] /\ ring = [e \in Endpoints |-> ring[e]]
    /\ pending \in [Notifs -> Nat]
BellsBound == \A e \in Endpoints : notify[e] \in {Bell[e], NoNotif}
PollsItsOwn ==
    \A t \in Tasks : pc[t] = "poll" => <<t, at[t]>> \in Polls /\ notify[at[t]] # NoNotif
WatchesOrPolls ==
    \A t \in Tasks : \A i \in ids[t] :
        \/ i \in UNION Watch[t]
        \/ \E p \in Polls : p[1] = t /\ i = Bell[p[2]] /\ i # NoNotif
ListenerHears ==
    \A p \in Polls : Listens(p[1], p[2]) /\ notify[p[2]] # NoNotif /\ ring[p[2]] # <<>>
                        => Comes(notify[p[2]])
PollInv == PollShapes /\ BellsBound /\ PollsItsOwn /\ WatchesOrPolls /\ ListenerHears

\* A task the step leaves alone, and the phases of wait_any.
Kept(t) == pc'[t] = pc[t] /\ at'[t] = at[t] /\ ids'[t] = ids[t] /\ bound'[t] = bound[t]
Waits == {"check", "park", "awake", "retry"}

\* What a step of process u may do to a poller.
PollStep(u) ==
    /\ PollShapes' /\ UNCHANGED notify
    /\ \A t \in Tasks : t # u => Kept(t)
    /\ \A e \in Endpoints : ring'[e] # <<>> =>
          ring[e] # <<>> \/ notify[e] = NoNotif \/ (u \in Tasks /\ pc'[u] = "announce" /\ bound'[u] = notify[e])
    /\ \A i \in Notifs : \/ pending'[i] >= pending[i]
                         \/ u \in Tasks /\ i \in ids[u] /\ pc'[u] = "user"
    /\ u \in Tasks /\ pc[u] = "announce" /\ bound[u] \in Notifs => pending'[bound[u]] > 0
    /\ u \in Tasks =>
          \/ pc'[u] \notin Waits \cup {"poll"} /\ ids'[u] \subseteq ids[u]
          \/ pc[u] \in Waits /\ pc'[u] \in Waits /\ ids'[u] = ids[u]
          \/ pc[u] = "poll" /\ pc'[u] \in Waits /\ ids'[u] = {notify[at[u]]}
          \/ pc'[u] \in Waits /\ ids'[u] \subseteq UNION Watch[u]
          \/ /\ pc'[u] = "poll" /\ <<u, at'[u]>> \in Polls /\ ids'[u] = ids[u]
             /\ ring'[at'[u]] = <<>> /\ notify[at'[u]] # NoNotif

\* Such a step keeps the invariant: only the poller itself consumes its bell.
LEMMA PollStepHears ==
    ASSUME PollInv, OneBellEach, NEW u \in Procs, PollStep(u)
    PROVE  PollInv'
<1> USE IpcAssumption
<1>1. BellsBound'
  BY DEF PollInv, PollStep, BellsBound
<1>2. PollsItsOwn'
  BY DEF PollInv, PollStep, PollsItsOwn, Kept, Waits
<1>3. WatchesOrPolls'
  <2> SUFFICES ASSUME NEW t \in Tasks, NEW i \in ids'[t]
               PROVE  \/ i \in UNION Watch[t]
                      \/ \E p \in Polls : p[1] = t /\ i = Bell[p[2]] /\ i # NoNotif
    BY DEF WatchesOrPolls
  <2>1. CASE i \in ids[t]
    BY <2>1 DEF PollInv, WatchesOrPolls
  <2>2. CASE t = u /\ ids'[u] \subseteq UNION Watch[u]
    BY <2>2
  <2>3. CASE t = u /\ pc[u] = "poll" /\ ids'[u] = {notify[at[u]]}
    <3>1. <<t, at[t]>> \in Polls /\ i = notify[at[t]] /\ i # NoNotif /\ at[t] \in Endpoints
      BY <2>3 DEF PollInv, PollsItsOwn
    <3>2. i = Bell[at[t]]
      BY <3>1 DEF PollInv, BellsBound
    <3> QED BY <3>1, <3>2
  <2> QED BY <2>1, <2>2, <2>3 DEF PollStep, Kept
<1>4. ASSUME NEW p \in Polls, Listens(p[1], p[2])', notify'[p[2]] # NoNotif, ring'[p[2]] # <<>>
      PROVE  Comes(notify[p[2]])'
  <2> DEFINE t == p[1]  e == p[2]  i == notify[e]
  <2>1. /\ t \in Tasks /\ e \in Endpoints /\ p = <<t, e>> /\ i = Bell[e] /\ i # NoNotif
        /\ i \in Notifs /\ notify' = notify
    BY <1>4 DEF PollInv, PollStep, BellsBound
  <2>2. \A v \in Tasks : i \in ids[v] => v = t
    <3> SUFFICES ASSUME NEW v \in Tasks, i \in ids[v] PROVE v = t
      OBVIOUS
    <3>1. i \notin UNION Watch[v]
      BY <2>1 DEF OneBellEach
    <3>2. PICK q \in Polls : q[1] = v /\ i = Bell[q[2]]
      BY <3>1 DEF PollInv, WatchesOrPolls
    <3> QED BY <2>1, <3>2 DEF OneBellEach
  <2>3. Listens(t, e) \/ (t = u /\ ring'[e] = <<>>)
    <3>1. CASE t # u
      BY <1>4, <2>1, <3>1 DEF PollStep, Kept, Listens, Waiting
    <3>2. CASE t = u
      <4>1. CASE pc'[u] \in Waits /\ ids'[u] \subseteq UNION Watch[u]
        BY <1>4, <2>1, <3>2, <4>1 DEF Listens, Waiting, Waits, OneBellEach
      <4>2. CASE pc[u] = "poll" /\ pc'[u] \in Waits /\ ids'[u] = {notify[at[u]]}
        <5>1. i = notify[at[u]] /\ <<u, at[u]>> \in Polls /\ notify[at[u]] # NoNotif /\ at[u] \in Endpoints
          BY <1>4, <2>1, <3>2, <4>2 DEF Listens, Waiting, Waits, PollInv, PollsItsOwn
        <5>2. Bell[at[u]] = Bell[e]
          BY <2>1, <5>1 DEF PollInv, BellsBound
        <5>3. at[u] = e
          BY <2>1, <5>1, <5>2 DEF OneBellEach
        <5> QED BY <3>2, <4>2, <5>3 DEF Listens
      <4>3. CASE pc[u] \in Waits /\ pc'[u] \in Waits /\ ids'[u] = ids[u]
        BY <1>4, <2>1, <3>2, <4>3 DEF Listens, Waiting, Waits
      <4>4. CASE pc'[u] \notin Waits \cup {"poll"}
        BY <1>4, <3>2, <4>4 DEF Listens, Waiting, Waits
      <4>5. CASE pc'[u] = "poll" /\ ring'[at'[u]] = <<>>
        BY <1>4, <3>2, <4>5 DEF Listens, Waiting, Waits
      <4> QED BY <2>1, <3>2, <4>1, <4>2, <4>3, <4>4, <4>5 DEF PollStep
    <3> QED BY <3>1, <3>2
  <2>4. Listens(t, e) /\ ~ (t = u /\ pc'[u] = "user")
    BY <1>4, <2>3 DEF Listens, Waiting
  <2>5. CASE ring[e] # <<>>
    <3>1. pending[i] > 0 \/ \E v \in Tasks : pc[v] = "announce" /\ bound[v] = i
      BY <2>1, <2>4, <2>5 DEF PollInv, ListenerHears, Comes
    <3>2. CASE pending[i] > 0
      <4>1. pending[i] \in Nat /\ pending'[i] \in Nat
        BY <2>1 DEF PollInv, PollShapes, PollStep
      <4>2. pending'[i] >= pending[i]
        BY <2>1, <2>2, <2>4 DEF PollStep
      <4>3. pending'[i] > 0
        BY <3>2, <4>1, <4>2
      <4> QED BY <2>1, <4>3 DEF Comes
    <3>3. ASSUME NEW v \in Tasks, pc[v] = "announce", bound[v] = i
          PROVE  Comes(i)'
      BY <2>1, <3>3 DEF PollStep, Comes, Kept
    <3> QED BY <2>1, <3>1, <3>2, <3>3 DEF Comes
  <2>6. CASE ring[e] = <<>>
    BY <1>4, <2>1, <2>6 DEF PollStep, Comes
  <2> QED BY <2>5, <2>6
<1>5. ListenerHears'
  BY <1>4 DEF ListenerHears, PollStep
<1> QED BY <1>1, <1>2, <1>3, <1>5 DEF PollInv, PollStep

\* A step that leaves the counts alone
LEMMA Quiet ==
    ASSUME PollInv, UNCHANGED pending
    PROVE  /\ pending' \in [Notifs -> Nat]
           /\ \A i \in Notifs : pending'[i] >= pending[i]
BY DEF PollInv, PollShapes

\* A signal is counted: no count falls and the signalled one is not zero.
LEMMA Counts ==
    ASSUME NEW p \in [Notifs -> Nat], NEW i, NEW n,
           i \in Notifs => n \in Nat /\ n >= p[i] /\ n > 0
    PROVE  /\ [p EXCEPT ![i] = n] \in [Notifs -> Nat]
           /\ \A j \in Notifs : [p EXCEPT ![i] = n][j] >= p[j]
           /\ i \in Notifs => [p EXCEPT ![i] = n][i] > 0
<1>1. CASE i \in Notifs
  BY <1>1
<1>2. CASE i \notin Notifs
  <2>1. \A j \in Notifs : [p EXCEPT ![i] = n][j] = p[j] /\ p[j] \in Nat /\ p[j] >= p[j]
    BY <1>2
  <2>2. [p EXCEPT ![i] = n] \in [Notifs -> Nat]
    BY <1>2
  <2> QED BY <1>2, <2>1, <2>2
<1> QED BY <1>1, <1>2

\* A task is a process, and no interrupt line.
LEMMA TasksAreProcs == \A t \in Tasks : t \in Procs /\ t \notin Lines
BY ProcsAssumption DEF Procs

\* Task t steps alone, and watches nothing new.
Own(t) ==
    /\ pc' = [p \in Procs |-> pc'[p]]
    /\ at' = [u \in Tasks |-> at'[u]] /\ ids' = [u \in Tasks |-> ids'[u]]
    /\ bound' = [u \in Tasks |-> bound'[u]]
    /\ cont' \in [Tasks -> {"user", "deliver", "make_room"}]
    /\ \A u \in Tasks : u # t => Kept(u)
    /\ ids'[t] \subseteq ids[t]

\* A call that returns.
LEMMA LeavePolls ==
    ASSUME PollShapes, NEW t \in Tasks, Leave(t)
    PROVE  Own(t) /\ pc'[t] = "user"
BY TasksAreProcs DEF Leave, Return, Goto, Carry, PollShapes, Own, Kept

\* What a call that placed a message does to its own task, and to no other.
LEMMA PlacedPolls ==
    ASSUME PollShapes, NEW t \in Tasks, NEW m, NEW other, NEW notif,
           NEW next \in {"user", "deliver", "make_room"}, Placed(t, m, other, notif, next)
    PROVE  /\ Own(t)
           /\ pc'[t] \in {"user", "deliver", "make_room", "announce"}
           /\ notif # NoNotif => pc'[t] = "announce" /\ bound'[t] = notif
<1>0. t \in Procs /\ \A u \in Tasks : u \in Procs
  BY TasksAreProcs
<1>1. CASE notif = NoNotif /\ next = "user" /\ Leave(t)
  BY <1>0, <1>1, LeavePolls
<1>2. CASE notif = NoNotif /\ Goto(t, next) /\ Carry(t, NoEndpoint, m, other, notif, next)
           /\ UNCHANGED <<ids, deadline>>
  BY <1>0, <1>2 DEF PollShapes, Own, Kept, Goto, Carry
<1>3. CASE notif # NoNotif /\ Goto(t, "announce") /\ Carry(t, NoEndpoint, m, other, notif, next)
           /\ UNCHANGED <<ids, deadline>>
  BY <1>0, <1>3 DEF PollShapes, Own, Kept, Goto, Carry
<1> QED BY <1>1, <1>2, <1>3 DEF Placed

\* A step that neither fills a ring nor counts nor consumes, out of a poller's
\* phases.
LEMMA StepsAside ==
    ASSUME PollInv, NEW t \in Tasks, Own(t), UNCHANGED <<pending, notify>>,
           pc[t] # "announce", pc'[t] \notin Waits \cup {"poll"},
           ring' = [f \in Endpoints |-> ring'[f]],
           \A f \in Endpoints : ring'[f] # <<>> => ring[f] # <<>>
    PROVE  PollStep(t)
<1>1. /\ pending' \in [Notifs -> Nat]
      /\ \A i \in Notifs : pending'[i] >= pending[i]
  BY Quiet
<1>2. PollShapes'
  BY <1>1 DEF PollInv, PollShapes, Own
<1> QED BY <1>1, <1>2 DEF PollStep, Own

\* A send.
LEMMA SendPolls ==
    ASSUME PollInv, NEW t \in Tasks, NEW e \in Endpoints, NEW b \in BOOLEAN, Send(t, e, b)
    PROVE  PollStep(t)
<1>0. /\ PollShapes /\ t \in Procs /\ pc[t] = "user" /\ UNCHANGED <<pending, notify>>
      /\ \A u \in Tasks : u \in Procs
  BY TasksAreProcs DEF PollInv, Send
<1>1. ASSUME Own(t), pc'[t] \notin Waits \cup {"poll"}, UNCHANGED ring
      PROVE  PollStep(t)
  BY <1>0, <1>1, StepsAside DEF PollShapes
<1>2. CASE SendDeliver(t, e, sends + 1)
  <2>1. /\ Placed(t, sends + 1, Head(recv_waiters[e]), notify[e], "deliver")
        /\ UNCHANGED ring
    BY <1>2 DEF SendDeliver
  <2>2. Own(t) /\ pc'[t] \in {"user", "deliver", "make_room", "announce"}
    BY <1>0, <2>1, PlacedPolls
  <2> QED BY <1>1, <2>1, <2>2 DEF Waits
<1>3. CASE SendBuffered(t, e, sends + 1)
  <2>1. /\ Placed(t, NoMsg, NoTask, notify[e], "user")
        /\ ring' = [ring EXCEPT ![e] = Append(ring[e], sends + 1)]
    BY <1>3 DEF SendBuffered
  <2>2. /\ Own(t) /\ pc'[t] \in {"user", "deliver", "make_room", "announce"}
        /\ notify[e] # NoNotif => pc'[t] = "announce" /\ bound'[t] = notify[e]
    BY <1>0, <2>1, PlacedPolls
  <2>3. /\ ring' = [f \in Endpoints |-> ring'[f]]
        /\ \A f \in Endpoints : f # e => ring'[f] = ring[f]
    BY <1>0, <2>1 DEF PollShapes
  <2>4. /\ pending' \in [Notifs -> Nat]
        /\ \A i \in Notifs : pending'[i] >= pending[i]
    BY <1>0, Quiet
  <2> QED BY <1>0, <2>2, <2>3, <2>4 DEF PollStep, PollShapes, Waits, Own
<1>4. CASE SendBlock(t, e, sends + 1)
  <2>1. Own(t) /\ pc'[t] = "send_park" /\ UNCHANGED ring
    BY <1>0, <1>4 DEF SendBlock, Goto, callVars, PollShapes, Own, Kept
  <2> QED BY <1>1, <2>1 DEF Waits
<1>5. CASE SendRefused(t, e, b)
  <2>1. Own(t) /\ pc'[t] = "user" /\ UNCHANGED ring
    BY <1>0, <1>5, LeavePolls DEF SendRefused
  <2> QED BY <1>1, <2>1 DEF Waits
<1> QED BY <1>2, <1>3, <1>4, <1>5 DEF Send

\* A receive.
LEMMA RecvPolls ==
    ASSUME PollInv, NEW t \in Tasks, NEW e \in Endpoints, NEW until, Recv(t, e, until)
    PROVE  PollStep(t)
<1>0. /\ PollShapes /\ t \in Procs /\ pc[t] = "user" /\ UNCHANGED <<pending, notify>>
      /\ \A u \in Tasks : u \in Procs
  BY TasksAreProcs DEF PollInv, Recv
<1>1. ASSUME Own(t), pc'[t] \notin Waits \cup {"poll"}, UNCHANGED ring
      PROVE  PollStep(t)
  BY <1>0, <1>1, StepsAside DEF PollShapes
<1>2. ASSUME Own(t), pc'[t] \notin Waits \cup {"poll"}, ring[e] # <<>>,
             NEW q, ring' = [ring EXCEPT ![e] = q]
      PROVE  PollStep(t)
  <2>1. /\ ring' = [f \in Endpoints |-> ring'[f]]
        /\ \A f \in Endpoints : ring'[f] # <<>> => ring[f] # <<>>
    BY <1>0, <1>2 DEF PollShapes
  <2> QED BY <1>0, <1>2, <2>1, StepsAside
<1>3. CASE RecvGot(t, e)
  <2>1. Own(t) /\ pc'[t] = "user"
    BY <1>0, <1>3, LeavePolls DEF RecvGot
  <2> QED BY <1>2, <1>3, <2>1 DEF RecvGot, Waits
<1>4. CASE RecvWakeSender(t, e)
  <2>1. Placed(t, Head(ring[e]), Head(send_waiters[e])[1], notify[e], "make_room")
    BY <1>4 DEF RecvWakeSender
  <2>2. Own(t) /\ pc'[t] \in {"user", "deliver", "make_room", "announce"}
    BY <1>0, <2>1, PlacedPolls
  <2> QED BY <1>2, <1>4, <2>2 DEF RecvWakeSender, Waits
<1>5. CASE RecvBlock(t, e, until)
  <2>1. Own(t) /\ pc'[t] = "recv_park" /\ UNCHANGED ring
    BY <1>0, <1>5 DEF RecvBlock, Goto, PollShapes, Own, Kept
  <2> QED BY <1>1, <2>1 DEF Waits
<1>6. CASE RecvFull(t, e)
  <2>1. Own(t) /\ pc'[t] = "user" /\ UNCHANGED ring
    BY <1>0, <1>6, LeavePolls DEF RecvFull
  <2> QED BY <1>1, <2>1 DEF Waits
<1> QED BY <1>3, <1>4, <1>5, <1>6 DEF Recv

\* The later steps of a call.
LEMMA ContinuePolls ==
    ASSUME PollInv, NEW t \in Tasks, Continue(t)
    PROVE  PollStep(t)
<1>0. /\ PollShapes /\ t \in Procs
      /\ \A u \in Tasks : u \in Procs
  BY TasksAreProcs DEF PollInv
<1>1. ASSUME Own(t), pc[t] # "announce", pc'[t] \notin Waits \cup {"poll"},
             UNCHANGED <<pending, notify, ring>>
      PROVE  PollStep(t)
  BY <1>0, <1>1, StepsAside DEF PollShapes
<1>2. CASE Announce(t)
  <2> DEFINE i == bound[t]
  <2>1. /\ pc[t] = "announce" /\ pc' = [pc EXCEPT ![t] = "announced"]
        /\ pending' = [pending EXCEPT ![i] = saturating_add(pending[i])]
        /\ UNCHANGED <<ids, notify, ring, at, bound, cont>>
    BY <1>2 DEF Announce, count_signal, Goto, ipcVars
  <2>2. /\ pending \in [Notifs -> Nat]
        /\ \A n \in Nat : /\ saturating_add(n) \in Nat /\ saturating_add(n) >= n
                          /\ saturating_add(n) > 0
    BY PendingAssumption DEF PollInv, PollShapes, saturating_add
  <2>3. /\ pending' \in [Notifs -> Nat]
        /\ \A j \in Notifs : pending'[j] >= pending[j]
        /\ i \in Notifs => pending'[i] > 0
    BY <2>1, <2>2, Counts
  <2>4. PollShapes' /\ Own(t) /\ pc'[t] = "announced"
    BY <1>0, <2>1, <2>3 DEF PollShapes, Own, Kept
  <2> QED BY <2>1, <2>3, <2>4 DEF PollStep, Own, Waits
<1>3. CASE Announced(t)
  <2>0. Leave(t) \/ (Goto(t, cont[t]) /\ UNCHANGED <<ids, deadline, callVars>>)
    BY <1>3, Zenon DEF Announced
  <2>1. pc[t] = "announced" /\ UNCHANGED <<pending, notify, ring>>
    BY <1>3 DEF Announced, endpointVars
  <2>2. CASE Goto(t, cont[t]) /\ UNCHANGED <<ids, deadline, callVars>>
    <3>1. pc' = [pc EXCEPT ![t] = cont[t]] /\ cont[t] \in {"user", "deliver", "make_room"}
      BY <1>0, <2>2 DEF Goto, PollShapes
    <3>2. Own(t) /\ pc'[t] \in {"user", "deliver", "make_room"}
      BY <1>0, <2>2, <3>1 DEF callVars, PollShapes, Own, Kept
    <3> QED BY <1>1, <2>1, <3>2 DEF Waits
  <2> QED BY <1>0, <1>1, <2>0, <2>1, <2>2, LeavePolls DEF Waits
<1>4. CASE Deliver(t) \/ SendResumed(t) \/ MakeRoom(t) \/ Cancel(t)
  <2>1. pc[t] # "announce" /\ UNCHANGED <<pending, notify, ring>> /\ Leave(t)
    BY <1>4 DEF Deliver, SendResumed, MakeRoom, Cancel, endpointVars
  <2> QED BY <1>0, <1>1, <2>1, LeavePolls DEF Waits
<1>5. CASE SendPark(t) \/ RecvPark(t)
  <2>1. /\ pc[t] # "announce" /\ UNCHANGED <<pending, notify, ring, ids, at, bound, cont>>
        /\ Goto(t, "send_parked") \/ Goto(t, "recv_parked")
    BY <1>5 DEF SendPark, RecvPark, ipcVars
  <2>2. Own(t) /\ pc'[t] \in {"send_parked", "recv_parked"}
    BY <1>0, <2>1 DEF Goto, PollShapes, Own, Kept
  <2> QED BY <1>1, <2>1, <2>2 DEF Waits
<1>6. CASE RecvResumed(t)
  <2>1. /\ pc[t] # "announce" /\ UNCHANGED <<pending, notify, ring>>
        /\ \/ Leave(t)
           \/ /\ Goto(t, "panic") \/ Goto(t, "cancel")
              /\ UNCHANGED <<ids, deadline, callVars>>
    BY <1>6 DEF RecvResumed, endpointVars
  <2>2. Own(t) /\ pc'[t] \in {"user", "panic", "cancel"}
    BY <1>0, <2>1, LeavePolls DEF Goto, callVars, PollShapes, Own, Kept
  <2> QED BY <1>1, <2>1, <2>2 DEF Waits
<1> QED BY <1>2, <1>3, <1>4, <1>5, <1>6 DEF Continue

\* A step inside a wait: the counts do not fall, the sources stay.
LEMMA NotifyPolls ==
    ASSUME PollInv, NotifyNext, UNCHANGED ipcVars
    PROVE  PollInv' \/ \E u \in Procs : PollStep(u)
<1>0. /\ PollShapes /\ UNCHANGED <<at, bound, cont, notify, ring>>
      /\ \A u \in Tasks : u \in Procs /\ Watch[u] \in SUBSET ((SUBSET Notifs) \ {{}})
      /\ pending \in [Notifs -> Nat]
  BY TasksAreProcs, WatchAssumption DEF PollInv, PollShapes, ipcVars
<1>1. ASSUME NEW u \in Procs, pc' = [p \in Procs |-> pc'[p]], ids' = [t \in Tasks |-> ids'[t]],
             pending' \in [Notifs -> Nat],
             \A t \in Tasks : t # u => pc'[t] = pc[t] /\ ids'[t] = ids[t],
             \A i \in Notifs : \/ pending'[i] >= pending[i]
                               \/ u \in Tasks /\ i \in ids[u] /\ pc'[u] = "user",
             u \in Tasks => pc[u] # "announce",
             u \in Tasks =>
                \/ pc'[u] \notin Waits \cup {"poll"} /\ ids'[u] \subseteq ids[u]
                \/ pc[u] \in Waits /\ pc'[u] \in Waits /\ ids'[u] = ids[u]
                \/ pc'[u] \in Waits /\ ids'[u] \subseteq UNION Watch[u]
      PROVE  PollStep(u)
  <2>1. PollShapes'
    BY <1>0, <1>1 DEF PollShapes
  <2>2. \A t \in Tasks : t # u => Kept(t)
    BY <1>0, <1>1 DEF Kept
  <2> QED BY <1>0, <1>1, <2>1, <2>2 DEF PollStep
<1>2. ASSUME NEW p \in Procs, NEW i \in Notifs, SignalCount(p, i)
      PROVE  PollStep(p)
  <2>1. /\ pc[p] = "user" /\ ids' = ids
        /\ \E where \in {"user", "wake"} : pc' = [pc EXCEPT ![p] = where]
        /\ pending' = [pending EXCEPT ![i] = saturating_add(pending[i])]
    BY <1>2 DEF SignalCount, count_signal, Goto
  <2>2. pending[i] \in Nat /\ saturating_add(pending[i]) \in Nat
        /\ saturating_add(pending[i]) >= pending[i] /\ saturating_add(pending[i]) > 0
    BY <1>0, PendingAssumption DEF saturating_add
  <2>3. /\ pending' \in [Notifs -> Nat]
        /\ \A j \in Notifs : pending'[j] >= pending[j]
    BY <1>0, <2>1, <2>2, Counts
  <2>4. /\ pc' = [q \in Procs |-> pc'[q]] /\ pc'[p] \in {"user", "wake"}
        /\ \A t \in Tasks : t # p => pc'[t] = pc[t]
    BY <1>0, <2>1 DEF PollShapes
  <2> QED BY <1>0, <1>1, <2>1, <2>3, <2>4 DEF PollShapes, Waits
<1>3. ASSUME NEW p \in Procs, SignalWake(p)
      PROVE  PollStep(p)
  <2>1. /\ pc[p] = "wake" /\ ids' = ids /\ pc' = [pc EXCEPT ![p] = "user"] /\ pending' = pending
    BY <1>3 DEF SignalWake, Goto
  <2>2. /\ pending' \in [Notifs -> Nat]
        /\ \A j \in Notifs : pending'[j] >= pending[j]
    BY <2>1, Quiet
  <2>3. /\ pc' = [q \in Procs |-> pc'[q]] /\ pc'[p] = "user"
        /\ \A t \in Tasks : t # p => pc'[t] = pc[t]
    BY <1>0, <2>1 DEF PollShapes
  <2> QED BY <1>0, <1>1, <2>1, <2>2, <2>3 DEF PollShapes, Waits
<1>4. ASSUME NEW t \in Tasks, NEW watch \in Watch[t], NEW until, WaitAny(t, watch, until)
      PROVE  PollStep(t)
  <2>1. /\ pc[t] = "user" /\ pc' = [pc EXCEPT ![t] = "check"] /\ pending' = pending
        /\ ids' = [ids EXCEPT ![t] = watch]
    BY <1>4 DEF WaitAny, Goto
  <2>2. /\ pending' \in [Notifs -> Nat]
        /\ \A j \in Notifs : pending'[j] >= pending[j]
    BY <2>1, Quiet
  <2>3. /\ pc' = [q \in Procs |-> pc'[q]] /\ pc'[t] = "check"
        /\ ids' = [u \in Tasks |-> ids'[u]] /\ ids'[t] \subseteq UNION Watch[t]
        /\ \A u \in Tasks : u # t => pc'[u] = pc[u] /\ ids'[u] = ids[u]
    BY <1>0, <2>1 DEF PollShapes
  <2> QED BY <1>0, <1>1, <2>1, <2>2, <2>3 DEF Waits
<1>5. ASSUME NEW t \in Tasks, consume_ready(t), Return(t), pc[t] \in Waits
      PROVE  PollStep(t)
  <2>1. PICK i \in ready(t) : pending' = [pending EXCEPT ![i] = pending[i] - 1]
    BY <1>5 DEF consume_ready
  <2>2. i \in ids[t] /\ pending[i] > 0 /\ i \in Notifs
    <3>1. i \in ids[t] /\ pending[i] > 0
      BY <2>1 DEF ready
    <3>2. UNION Watch[t] \subseteq Notifs
      BY <1>0
    <3> QED BY <1>5, <3>1, <3>2, IpcAssumption DEF PollInv, WatchesOrPolls
  <2>3. /\ pending' \in [Notifs -> Nat]
        /\ \A j \in Notifs : pending'[j] >= pending[j] \/ j = i
    BY <1>0, <2>1, <2>2
  <2>4. /\ pc' = [q \in Procs |-> pc'[q]] /\ pc'[t] = "user"
        /\ ids' = [u \in Tasks |-> ids'[u]] /\ ids'[t] = {}
        /\ \A u \in Tasks : u # t => pc'[u] = pc[u] /\ ids'[u] = ids[u]
    BY <1>0, <1>5 DEF Return, Goto, PollShapes
  <2> QED BY <1>0, <1>1, <1>5, <2>2, <2>3, <2>4 DEF Waits
<1>6. ASSUME NEW t \in Tasks, UNCHANGED pending, pc[t] \in Waits,
             \/ Return(t)
             \/ \E where \in Waits : Goto(t, where) /\ UNCHANGED ids
      PROVE  PollStep(t)
  <2>1. /\ pending' \in [Notifs -> Nat]
        /\ \A j \in Notifs : pending'[j] >= pending[j]
    BY <1>6, Quiet
  <2>2. CASE Return(t)
    <3>1. /\ pc' = [q \in Procs |-> pc'[q]] /\ pc'[t] = "user"
          /\ ids' = [u \in Tasks |-> ids'[u]] /\ ids'[t] = {}
          /\ \A u \in Tasks : u # t => pc'[u] = pc[u] /\ ids'[u] = ids[u]
      BY <1>0, <2>2 DEF Return, Goto, PollShapes
    <3> QED BY <1>0, <1>1, <1>6, <2>1, <3>1 DEF Waits
  <2>3. ASSUME NEW where \in Waits, Goto(t, where), UNCHANGED ids
        PROVE  PollStep(t)
    <3>1. /\ pc' = [q \in Procs |-> pc'[q]] /\ pc'[t] \in Waits
          /\ ids' = [u \in Tasks |-> ids'[u]] /\ ids'[t] = ids[t]
          /\ \A u \in Tasks : u # t => pc'[u] = pc[u] /\ ids'[u] = ids[u]
      BY <1>0, <2>3 DEF Goto, PollShapes
    <3> QED BY <1>0, <1>1, <1>6, <2>1, <3>1 DEF Waits
  <2> QED BY <1>6, <2>2, <2>3
<1>7. ASSUME NEW t \in Tasks, Check(t) \/ BlockUntil(t) \/ Deregister(t) \/ Retry(t)
      PROVE  PollStep(t)
  <2>1. CASE Check(t)
    <3>1. /\ pc[t] = "check"
          /\ \/ consume_ready(t) /\ Return(t)
             \/ Return(t) /\ UNCHANGED pending
             \/ Goto(t, "park") /\ UNCHANGED <<pending, ids>>
      BY <2>1 DEF Check
    <3>2. pc[t] \in Waits /\ "park" \in Waits
      BY <3>1 DEF Waits
    <3> QED BY <1>5, <1>6, <3>1, <3>2
  <2>2. CASE BlockUntil(t)
    BY <1>6, <2>2 DEF BlockUntil, Waits
  <2>3. CASE Deregister(t)
    BY <1>5, <1>6, <2>3 DEF Deregister, Waits
  <2>4. CASE Retry(t)
    BY <1>6, <2>4 DEF Retry, Waits
  <2> QED BY <1>7, <2>1, <2>2, <2>3, <2>4
<1>8. CASE UNCHANGED <<pc, ids, pending>>
  BY <1>0, <1>8 DEF PollInv, PollShapes, BellsBound, PollsItsOwn, WatchesOrPolls, ListenerHears,
     Listens, Waiting, Comes
<1>9. CASE Expire \/ \E t \in Tasks : Tick(t)
  BY <1>8, <1>9 DEF Expire, Tick, notifyVars
<1> QED BY <1>2, <1>3, <1>4, <1>7, <1>9, TasksAreProcs DEF NotifyNext

\* Binding, and the two steps into a wait on what is bound.
LEMMA BindPolls ==
    ASSUME PollInv, OneBellEach, NEW poll \in Polls, NEW notif \in {Bell[poll[2]], NoNotif},
           BindNotify(poll[1], poll[2], notif)
    PROVE  PollInv'
<1> DEFINE t == poll[1]  e == poll[2]
<1>0. /\ PollShapes /\ t \in Tasks /\ e \in Endpoints /\ poll = <<t, e>> /\ pc[t] = "user"
      /\ notify' = [notify EXCEPT ![e] = notif]
      /\ UNCHANGED <<pc, at, ids, bound, cont, pending, ring>>
  BY IpcAssumption DEF PollInv, BindNotify, waitVars, notifyVars, callVars
<1>1. PollShapes' /\ BellsBound' /\ \A f \in Endpoints : f # e => notify'[f] = notify[f]
  BY <1>0 DEF PollInv, PollShapes, BellsBound
<1>2. \A p \in Polls : p[2] = e /\ (notify[e] # NoNotif \/ notify'[e] # NoNotif) => p = poll
  BY <1>0, <1>1 DEF OneBellEach, PollInv, BellsBound
<1>3. PollsItsOwn'
  <2> SUFFICES ASSUME NEW u \in Tasks, pc[u] = "poll"
               PROVE  <<u, at[u]>> \in Polls /\ notify'[at[u]] # NoNotif
    BY <1>0 DEF PollsItsOwn
  <2>1. <<u, at[u]>> \in Polls /\ notify[at[u]] # NoNotif /\ at[u] \in Endpoints
    BY IpcAssumption DEF PollInv, PollsItsOwn
  <2>2. at[u] # e
    BY <1>0, <1>2, <2>1
  <2> QED BY <1>1, <2>1, <2>2
<1>4. WatchesOrPolls'
  BY <1>0 DEF PollInv, WatchesOrPolls
<1>5. ListenerHears'
  <2> SUFFICES ASSUME NEW p \in Polls, Listens(p[1], p[2])', notify'[p[2]] # NoNotif,
                      ring[p[2]] # <<>>
               PROVE  Comes(notify'[p[2]])
    BY <1>0 DEF ListenerHears, Comes
  <2>0. p[2] \in Endpoints /\ p[1] \in Tasks
    BY IpcAssumption
  <2>1. p[2] # e
    BY <1>0, <1>2, <2>0 DEF Listens, Waiting
  <2>2. notify'[p[2]] = notify[p[2]] /\ Listens(p[1], p[2])
    BY <1>0, <1>1, <2>0, <2>1 DEF Listens, Waiting
  <2> QED BY <2>2 DEF PollInv, ListenerHears
<1> QED BY <1>1, <1>3, <1>4, <1>5 DEF PollInv

\* A poller saw an empty queue.
LEMMA PollPolls ==
    ASSUME PollInv, NEW poll \in Polls, PollEmpty(poll[1], poll[2])
    PROVE  PollStep(poll[1])
<1> DEFINE t == poll[1]  e == poll[2]
<1>0. /\ PollShapes /\ t \in Tasks /\ t \in Procs /\ e \in Endpoints /\ poll = <<t, e>>
      /\ pc[t] = "user" /\ notify[e] # NoNotif /\ ring[e] = <<>>
      /\ pc' = [pc EXCEPT ![t] = "poll"] /\ at' = [at EXCEPT ![t] = e]
      /\ UNCHANGED <<ids, bound, cont, pending, ring, notify>>
      /\ \A u \in Tasks : u \in Procs
  BY IpcAssumption, TasksAreProcs DEF PollInv, PollEmpty, Goto, endpointVars
<1>1. /\ pending' \in [Notifs -> Nat]
      /\ \A j \in Notifs : pending'[j] >= pending[j]
  BY <1>0, Quiet
<1>2. PollShapes' /\ Own(t) /\ pc'[t] = "poll" /\ at'[t] = e
  BY <1>0, <1>1 DEF PollShapes, Own, Kept
<1> QED BY <1>0, <1>1, <1>2 DEF PollStep, Own

\* A poller goes on to wait on the bell it saw bound.
LEMMA PollWaitPolls ==
    ASSUME PollInv, NEW t \in Tasks, NEW until, PollWait(t, until)
    PROVE  PollStep(t)
<1>0. /\ PollShapes /\ t \in Procs /\ pc[t] = "poll"
      /\ pc' = [pc EXCEPT ![t] = "check"] /\ at' = [at EXCEPT ![t] = NoEndpoint]
      /\ ids' = [ids EXCEPT ![t] = {notify[at[t]]}]
      /\ UNCHANGED <<bound, cont, pending, ring, notify>>
      /\ \A u \in Tasks : u \in Procs
  BY TasksAreProcs DEF PollInv, PollWait, Goto, endpointVars
<1>1. /\ pending' \in [Notifs -> Nat]
      /\ \A j \in Notifs : pending'[j] >= pending[j]
  BY <1>0, Quiet
<1>2. /\ PollShapes' /\ pc'[t] \in Waits /\ ids'[t] = {notify[at[t]]}
      /\ \A u \in Tasks : u # t => Kept(u)
  BY <1>0, <1>1 DEF PollShapes, Kept, Waits
<1> QED BY <1>0, <1>1, <1>2 DEF PollStep

\* The invariant holds at first.
LEMMA InitPolls == Init => PollInv
<1> SUFFICES ASSUME Init PROVE PollInv
  OBVIOUS
<1>1. PollShapes /\ BellsBound
  BY DEF Init, NotifyInit, PollShapes, BellsBound
<1>2. \A t \in Tasks : pc[t] = "user" /\ ids[t] = {}
  BY TasksAreProcs DEF Init, NotifyInit
<1>3. PollsItsOwn /\ WatchesOrPolls /\ ListenerHears
  BY <1>2, IpcAssumption DEF PollsItsOwn, WatchesOrPolls, ListenerHears, Listens, Waiting
<1> QED BY <1>1, <1>3 DEF PollInv

\* And every step keeps it.
LEMMA NextPolls == OneBellEach /\ PollInv /\ [Next]_vars => PollInv'
<1> SUFFICES ASSUME OneBellEach, PollInv, [Next]_vars PROVE PollInv'
  OBVIOUS
<1>1. CASE UNCHANGED vars
  BY <1>1 DEF vars, waitVars, notifyVars, ipcVars, PollInv, PollShapes, BellsBound, PollsItsOwn,
     WatchesOrPolls, ListenerHears, Listens, Waiting, Comes
<1>2. CASE \E u \in Procs : PollStep(u)
  BY <1>2, PollStepHears
<1>3. CASE \E t \in Tasks, e \in Endpoints :
              \/ \E b \in BOOLEAN : Send(t, e, b)
              \/ \E until \in RecvUntil : Recv(t, e, until)
  BY <1>2, <1>3, SendPolls, RecvPolls, TasksAreProcs
<1>4. CASE \E t \in Tasks : Continue(t)
  BY <1>2, <1>4, ContinuePolls, TasksAreProcs
<1>5. CASE \E poll \in Polls : \/ BindNotify(poll[1], poll[2], Bell[poll[2]])
                               \/ BindNotify(poll[1], poll[2], NoNotif)
  BY <1>5, BindPolls
<1>6. CASE \E poll \in Polls : PollEmpty(poll[1], poll[2])
  BY <1>2, <1>6, PollPolls, TasksAreProcs, IpcAssumption
<1>7. CASE \E t \in Tasks, until \in {"none", "ahead"} : PollWait(t, until)
  BY <1>2, <1>7, PollWaitPolls, TasksAreProcs
<1>8. CASE NotifyNext /\ UNCHANGED ipcVars
  BY <1>2, <1>8, NotifyPolls
<1> QED BY <1>1, <1>3, <1>4, <1>5, <1>6, <1>7, <1>8 DEF Next

\* The lost wake-up a poll loop invites, for any number of tasks, endpoints
\* and sends: a poller parked on the notification it bound to an endpoint
\* (bind_notify) is never asleep over a message in that endpoint's ring unless
\* a signal is counted or the sender is about to make it.
THEOREM PollersHear == OneBellEach => (Spec => []PollerHears)
<1> SUFFICES ASSUME OneBellEach PROVE Spec => []PollerHears
  OBVIOUS
<1>1. PollInv => PollerHears
  <2> SUFFICES ASSUME PollInv, NEW p \in Polls, pc[p[1]] = "awake", notify[p[2]] \in ids[p[1]],
                      ring[p[2]] # <<>>
               PROVE  Comes(notify[p[2]])
    BY DEF PollerHears, Comes
  <2>1. p[1] \in Tasks /\ p[2] \in Endpoints
    BY IpcAssumption
  <2>2. notify[p[2]] # NoNotif
    <3>1. UNION Watch[p[1]] \subseteq Notifs
      BY <2>1, WatchAssumption
    <3> QED BY <2>1, <3>1 DEF PollInv, WatchesOrPolls, OneBellEach
  <2> QED BY <2>2 DEF PollInv, ListenerHears, Listens, Waiting
<1>2. PollInv /\ [Next]_vars => PollInv'
  BY NextPolls
<1> QED BY <1>1, <1>2, InitPolls, PTL DEF Spec
=============================================================================
