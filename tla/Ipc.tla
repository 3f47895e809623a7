-------------------------------- MODULE Ipc ---------------------------------
(***************************************************************************)
(* Endpoints, crates/kernel/src/ipc.rs, over notifications (Notify) and    *)
(* the scheduler's parking (Parking).  As there, an action is one critical *)
(* section of IPC, NOTIFY or SCHED.                                        *)
(*                                                                         *)
(* A send decides under the IPC lock, then signals the bound notification, *)
(* then delivers or parks; a receive decides, then signals and wakes the   *)
(* sender it made room for, or parks.  The phases are                      *)
(*   announce    about to signal the bound notification                    *)
(*   announced   the signal is counted, its waiter not yet woken           *)
(*   deliver     about to put the message in the receiver's mailbox        *)
(*   make_room   about to wake the sender whose message was deposited      *)
(*   send_park, send_parked      on the way into and in block_current      *)
(*   recv_park, recv_parked      likewise block_for_message, block_until   *)
(*   cancel      timed out, about to leave the queue of receivers          *)
(*   poll        saw an empty queue, about to wait on the notification     *)
(*   panic       an expect failed                                          *)
(***************************************************************************)
EXTENDS Notify, SequencesExt

CONSTANTS
    Endpoints,   \* endpoint ids; allocate hands them out and nothing frees one
    Bell,        \* Bell[e]: the notification a poller binds to e, or NoNotif
    Polls,       \* the <<t, e>> where t polls e
    RecvUntil,   \* the deadlines receives are called with
    RING_CAP, MAX_WAITERS,
    MaxSends     \* bound on the number of sends

NoMsg == 0
Failed == MaxSends + 1   \* a negative KError
NoNotif == "unbound"
Msgs == 1..MaxSends

ASSUME IpcAssumption ==
    /\ Bell \in [Endpoints -> Notifs \cup {NoNotif}]
    /\ Polls \subseteq Tasks \X Endpoints
    /\ RecvUntil \subseteq {"none", "ahead", "past"}
    /\ RING_CAP \in Nat \ {0} /\ MAX_WAITERS \in Nat \ {0} /\ MaxSends \in Nat

VARIABLES
    ring,          \* Endpoint::ring, head and len as a sequence
    recv_waiters,  \* Endpoint::recv_waiters
    send_waiters,  \* Endpoint::send_waiters
    notify,        \* Endpoint::notify
    mailbox,       \* Task::mailbox
    at,            \* the endpoint of the call a task is in
    km,            \* the message a call carries: sent, or received
    peer,          \* the task a call is about to deliver to, or to make room for
    bound,         \* the notification a call read under the IPC lock
    cont,          \* what a call does once it has signalled that notification
    result,        \* what a task's last receive returned
    sends          \* how many sends were made: the next message's identity

ipcVars == <<ring, recv_waiters, send_waiters, notify, mailbox, at, km, peer,
             bound, cont, result, sends>>
endpointVars == <<ring, recv_waiters, send_waiters, notify>>
callVars == <<at, km, peer, bound, cont>>
vars == <<waitVars, ipcVars>>

IpcPhases == {"announce", "announced", "deliver", "make_room", "send_park",
              "send_parked", "recv_park", "recv_parked", "cancel", "poll",
              "panic"}
NoEndpoint == "nowhere"

TypeOK ==
    /\ NotifyTypes(NotifyPhases \cup IpcPhases)
    /\ \A e \in Endpoints : /\ Len(ring[e]) <= RING_CAP
                            /\ ToSet(ring[e]) \subseteq Msgs
                            /\ Len(recv_waiters[e]) <= MAX_WAITERS
                            /\ ToSet(recv_waiters[e]) \subseteq Tasks
                            /\ Len(send_waiters[e]) <= MAX_WAITERS
                            /\ ToSet(send_waiters[e]) \subseteq Tasks \X Msgs
    /\ notify \in [Endpoints -> Notifs \cup {NoNotif}]
    /\ mailbox \in [Tasks -> Msgs \cup {NoMsg}]
    /\ at \in [Tasks -> Endpoints \cup {NoEndpoint}]
    /\ km \in [Tasks -> Msgs \cup {NoMsg}]
    /\ peer \in [Tasks -> Tasks \cup {NoTask}]
    /\ bound \in [Tasks -> Notifs \cup {NoNotif}]
    /\ cont \in [Tasks -> {"user", "deliver", "make_room"}]
    /\ result \in [Tasks -> Msgs \cup {NoMsg, Failed}]
    /\ sends \in 0..MaxSends

Init ==
    /\ NotifyInit
    /\ ring = [e \in Endpoints |-> <<>>]
    /\ recv_waiters = [e \in Endpoints |-> <<>>]
    /\ send_waiters = [e \in Endpoints |-> <<>>]
    /\ notify = [e \in Endpoints |-> NoNotif]
    /\ mailbox = [t \in Tasks |-> NoMsg]
    /\ at = [t \in Tasks |-> NoEndpoint]
    /\ km = [t \in Tasks |-> NoMsg]
    /\ peer = [t \in Tasks |-> NoTask]
    /\ bound = [t \in Tasks |-> NoNotif]
    /\ cont = [t \in Tasks |-> "user"]
    /\ result = [t \in Tasks |-> NoMsg]
    /\ sends = 0

\* What a call keeps for its later steps, and its end.
Carry(t, e, m, other, notif, next) ==
    /\ at' = [at EXCEPT ![t] = e]
    /\ km' = [km EXCEPT ![t] = m]
    /\ peer' = [peer EXCEPT ![t] = other]
    /\ bound' = [bound EXCEPT ![t] = notif]
    /\ cont' = [cont EXCEPT ![t] = next]
Leave(t) == Return(t) /\ Carry(t, NoEndpoint, NoMsg, NoTask, NoNotif, "user")

\* A call that placed a message signals the notification it saw bound, and
\* goes on with next.
Placed(t, m, other, notif, next) ==
    \/ /\ notif = NoNotif /\ next = "user"
       /\ Leave(t)
    \/ /\ notif # NoNotif \/ next # "user"
       /\ Goto(t, IF notif = NoNotif THEN next ELSE "announce")
       /\ Carry(t, NoEndpoint, m, other, notif, next)
       /\ UNCHANGED <<ids, deadline>>

-----------------------------------------------------------------------------
\* Whether the push helpers of impl Endpoint find room.

may_push_msg(e) == Len(ring[e]) < RING_CAP
may_push_recv_waiter(e) == Len(recv_waiters[e]) < MAX_WAITERS
may_push_send_waiter(e) == Len(send_waiters[e]) < MAX_WAITERS

receiver_waits(e) == recv_waiters[e] # <<>>

\* send_inner's critical section is one operator per Action.

SendDeliver(t, e, m) ==
    /\ receiver_waits(e)
    /\ recv_waiters' = [recv_waiters EXCEPT ![e] = Tail(@)]
    /\ Placed(t, m, Head(recv_waiters[e]), notify[e], "deliver")
    /\ UNCHANGED <<ring, send_waiters>>

\* Mutant: only a message handed straight over is announced.
SendBuffered_quiet(t, e, m) ==
    /\ ~ receiver_waits(e) /\ may_push_msg(e)
    /\ ring' = [ring EXCEPT ![e] = Append(@, m)]
    /\ Placed(t, NoMsg, NoTask, NoNotif, "user")
    /\ UNCHANGED <<recv_waiters, send_waiters>>

\* Mutant: the newest message in front.
SendBuffered_lifo(t, e, m) ==
    /\ ~ receiver_waits(e) /\ may_push_msg(e)
    /\ ring' = [ring EXCEPT ![e] = <<m>> \o @]
    /\ Placed(t, NoMsg, NoTask, notify[e], "user")
    /\ UNCHANGED <<recv_waiters, send_waiters>>

SendBuffered(t, e, m) ==
    /\ ~ receiver_waits(e) /\ may_push_msg(e)
    /\ ring' = [ring EXCEPT ![e] = Append(@, m)]
    /\ Placed(t, NoMsg, NoTask, notify[e], "user")
    /\ UNCHANGED <<recv_waiters, send_waiters>>

SendBlock(t, e, m) ==
    /\ ~ receiver_waits(e) /\ ~ may_push_msg(e) /\ may_push_send_waiter(e)
    /\ send_waiters' = [send_waiters EXCEPT ![e] = Append(@, <<t, m>>)]
    /\ Goto(t, "send_park")
    /\ UNCHANGED <<ring, recv_waiters, ids, deadline, callVars>>

\* WouldBlock, and Full: the send is refused.
SendRefused(t, e, may_block) ==
    /\ ~ receiver_waits(e) /\ ~ may_push_msg(e)
    /\ may_block => ~ may_push_send_waiter(e)
    /\ Leave(t)
    /\ UNCHANGED <<ring, recv_waiters, send_waiters>>

Send(t, e, may_block) ==
    /\ pc[t] = "user" /\ sends < MaxSends
    /\ sends' = sends + 1
    /\ \/ SendDeliver(t, e, sends + 1)
       \/ SendBuffered(t, e, sends + 1)
       \/ may_block /\ SendBlock(t, e, sends + 1)
       \/ SendRefused(t, e, may_block)
    /\ UNCHANGED <<parkVars, pending, waiter, owed, notify, mailbox, result>>

-----------------------------------------------------------------------------
\* notify::signal from inside a send or a receive, in its two steps.
Announce(t) ==
    /\ pc[t] = "announce"
    /\ count_signal(bound[t])
    /\ owed' = [owed EXCEPT ![t] = waiter[bound[t]]]
    /\ Goto(t, "announced")
    /\ UNCHANGED <<parkVars, ids, deadline, ipcVars>>

Announced(t) ==
    /\ pc[t] = "announced"
    /\ \/ owed[t] # NoTask /\ unblock(owed[t])
       \/ owed[t] = NoTask /\ UNCHANGED parkVars
    /\ owed' = [owed EXCEPT ![t] = NoTask]
    /\ \/ cont[t] = "user" /\ Leave(t)
       \/ /\ cont[t] # "user"
          /\ Goto(t, cont[t])
          /\ UNCHANGED <<ids, deadline, callVars>>
    /\ UNCHANGED <<pending, waiter, endpointVars, mailbox, result, sends>>

\* sched::deliver
Deliver(t) ==
    /\ pc[t] = "deliver"
    /\ deliver(peer[t])
    /\ mailbox' = [mailbox EXCEPT ![peer[t]] = km[t]]
    /\ Leave(t)
    /\ UNCHANGED <<pending, waiter, owed, endpointVars, result, sends>>

\* sched::block_current, and the return from it.
SendPark(t) ==
    /\ pc[t] = "send_park"
    /\ park(t, "Blocked")
    /\ Goto(t, "send_parked")
    /\ UNCHANGED <<pending, waiter, ids, deadline, owed, ipcVars>>

SendResumed(t) ==
    /\ pc[t] = "send_parked" /\ Up(t)
    /\ Leave(t)
    /\ UNCHANGED <<parkVars, pending, waiter, owed, endpointVars, mailbox,
                   result, sends>>

-----------------------------------------------------------------------------
\* A receive returns r to its caller.
Answer(t, r) == result' = [result EXCEPT ![t] = r]

\* recv_until's critical section, one operator per Action.
RecvGot(t, e) ==
    /\ ring[e] # <<>> /\ send_waiters[e] = <<>>
    /\ ring' = [ring EXCEPT ![e] = Tail(@)]
    /\ Answer(t, Head(ring[e]))
    /\ Leave(t)
    /\ UNCHANGED <<recv_waiters, send_waiters>>

RecvWakeSender(t, e) ==
    /\ ring[e] # <<>> /\ send_waiters[e] # <<>>
    /\ ring' = [ring EXCEPT ![e] = Append(Tail(@), Head(send_waiters[e])[2])]
    /\ send_waiters' = [send_waiters EXCEPT ![e] = Tail(@)]
    /\ Placed(t, Head(ring[e]), Head(send_waiters[e])[1], notify[e], "make_room")
    /\ UNCHANGED <<recv_waiters, result>>

RecvBlock(t, e, until) ==
    /\ ring[e] = <<>> /\ may_push_recv_waiter(e)
    /\ recv_waiters' = [recv_waiters EXCEPT ![e] = Append(@, t)]
    /\ at' = [at EXCEPT ![t] = e]
    /\ deadline' = [deadline EXCEPT ![t] = until]
    /\ Goto(t, "recv_park")
    /\ UNCHANGED <<ring, send_waiters, result, ids, km, peer, bound, cont>>

RecvFull(t, e) ==
    /\ ring[e] = <<>> /\ ~ may_push_recv_waiter(e)
    /\ Answer(t, Failed)
    /\ Leave(t)
    /\ UNCHANGED <<ring, recv_waiters, send_waiters>>

Recv(t, e, until) ==
    /\ pc[t] = "user"
    /\ RecvGot(t, e) \/ RecvWakeSender(t, e) \/ RecvBlock(t, e, until) \/ RecvFull(t, e)
    /\ UNCHANGED <<parkVars, pending, waiter, owed, notify, mailbox, sends>>

MakeRoom(t) ==
    /\ pc[t] = "make_room"
    /\ unblock(peer[t])
    /\ Answer(t, km[t])
    /\ Leave(t)
    /\ UNCHANGED <<pending, waiter, owed, endpointVars, mailbox, sends>>

\* Mutant: the deadline is forgotten.
RecvPark_blocked(t) ==
    /\ pc[t] = "recv_park"
    /\ park(t, "Blocked")
    /\ Goto(t, "recv_parked")
    /\ UNCHANGED <<pending, waiter, ids, deadline, owed, ipcVars>>

\* block_for_message without a deadline, block_until with one.
RecvPark(t) ==
    /\ pc[t] = "recv_park"
    /\ \/ deadline[t] = "past" /\ UNCHANGED parkVars
       \/ deadline[t] = "ahead" /\ park(t, "Sleeping")
       \/ deadline[t] = "none" /\ park(t, "Blocked")
    /\ Goto(t, "recv_parked")
    /\ UNCHANGED <<pending, waiter, ids, deadline, owed, ipcVars>>

\* Resumed: the mailbox says whether a message was delivered.  Without a
\* deadline an empty one fails the expect.
RecvResumed(t) ==
    /\ pc[t] = "recv_parked" /\ Up(t)
    /\ \/ /\ mailbox[t] # NoMsg
          /\ Answer(t, mailbox[t])
          /\ Leave(t)
       \/ /\ mailbox[t] = NoMsg
          /\ Goto(t, IF deadline[t] = "none" THEN "panic" ELSE "cancel")
          /\ UNCHANGED <<result, ids, deadline, callVars>>
    /\ mailbox' = [mailbox EXCEPT ![t] = NoMsg]
    /\ UNCHANGED <<parkVars, pending, waiter, owed, endpointVars, sends>>

cancel_recv_waiter(e, t) ==
    recv_waiters' = [recv_waiters EXCEPT ![e] =
        LET queued == {n \in DOMAIN @ : @[n] = t}
        IN  IF queued = {} THEN @ ELSE RemoveAt(@, Min(queued))]

Cancel(t) ==
    /\ pc[t] = "cancel"
    /\ cancel_recv_waiter(at[t], t)
    /\ Answer(t, Failed)
    /\ Leave(t)
    /\ UNCHANGED <<parkVars, pending, waiter, owed, ring, send_waiters, notify,
                   mailbox, sends>>

-----------------------------------------------------------------------------
\* bind_notify, called by the task that polls the endpoint.
BindNotify(t, e, notif) ==
    /\ pc[t] = "user"
    /\ notify' = [notify EXCEPT ![e] = notif]
    /\ UNCHANGED <<waitVars, ring, recv_waiters, send_waiters, mailbox, callVars,
                   result, sends>>

\* A poll loop: ask pending, and wait on the notification if it says none.
PollEmpty(t, e) ==
    /\ pc[t] = "user" /\ notify[e] # NoNotif
    /\ ring[e] = <<>>
    /\ Goto(t, "poll")
    /\ at' = [at EXCEPT ![t] = e]
    /\ UNCHANGED <<parkVars, pending, waiter, ids, deadline, owed, endpointVars,
                   mailbox, km, peer, bound, cont, result, sends>>

PollWait(t, until) ==
    /\ pc[t] = "poll"
    /\ ids' = [ids EXCEPT ![t] = {notify[at[t]]}]
    /\ deadline' = [deadline EXCEPT ![t] = until]
    /\ at' = [at EXCEPT ![t] = NoEndpoint]
    /\ Goto(t, "check")
    /\ UNCHANGED <<parkVars, pending, waiter, owed, endpointVars, mailbox, km,
                   peer, bound, cont, result, sends>>

-----------------------------------------------------------------------------
\* The steps of a call under way, which nothing but the scheduler delays.
Continue(t) ==
    \/ Announce(t) \/ Announced(t) \/ Deliver(t) \/ SendPark(t) \/ SendResumed(t)
    \/ MakeRoom(t) \/ RecvPark(t) \/ RecvResumed(t) \/ Cancel(t)

Next ==
    \/ \E t \in Tasks, e \in Endpoints :
          \/ \E may_block \in BOOLEAN : Send(t, e, may_block)
          \/ \E until \in RecvUntil : Recv(t, e, until)
    \/ \E t \in Tasks : Continue(t)
    \/ \E poll \in Polls : \/ BindNotify(poll[1], poll[2], Bell[poll[2]])
                           \/ BindNotify(poll[1], poll[2], NoNotif)
                           \/ PollEmpty(poll[1], poll[2])
    \/ \E t \in Tasks, until \in {"none", "ahead"} : PollWait(t, until)
    \/ NotifyNext /\ UNCHANGED ipcVars

Spec == Init /\ [][Next]_vars

Fairness ==
    /\ \A p \in Procs : WF_vars(SignalWake(p) /\ UNCHANGED ipcVars)
    /\ \A t \in Tasks :
          /\ WF_vars(Continue(t))
          /\ WF_vars((Check(t) \/ BlockUntil(t) \/ Deregister(t) \/ Retry(t))
                     /\ UNCHANGED ipcVars)
          /\ WF_vars(Tick(t) /\ UNCHANGED ipcVars)
    /\ WF_vars(Expire /\ UNCHANGED ipcVars)

FairSpec == Spec /\ Fairness

-----------------------------------------------------------------------------
\* pending's comment, "the ring is full whenever a sender is blocked": a
\* message is never queued behind room, nor behind a receiver that waits.
QueuesExclude ==
    \A e \in Endpoints : /\ recv_waiters[e] # <<>> => ring[e] = <<>>
                         /\ send_waiters[e] # <<>> => Len(ring[e]) = RING_CAP

\* block_for_message: "woken without a message" never happens.
NoPanic == \A t \in Tasks : pc[t] # "panic"

\* A task in a queue of receivers is in a receive on that endpoint:
\* cancel_recv_waiter's "a receiver that stopped waiting but stayed in the
\* queue is where the next message goes, and it goes nowhere".  "Only the
\* timeout path needs this", it says, and so only that path calls it; run
\* Ipc_stale has a receive that succeeds and leaves its task behind.
WaiterReceives ==
    \A e \in Endpoints : \A t \in ToSet(recv_waiters[e]) :
        pc[t] \in {"recv_park", "recv_parked", "cancel"} /\ at[t] = e

\* "The message is gone -- taken by nobody": a delivery never overwrites a
\* message its receiver has not taken.
MailboxKept ==
    [][\A t \in Tasks : mailbox[t] # NoMsg => mailbox'[t] \in {mailbox[t], NoMsg}]_vars

\* "A program that sleeps for ever holding a message": a poller parked on the
\* notification of an endpoint with messages has a signal counted or coming.
PollerHears ==
    \A poll \in Polls :
        LET t == poll[1]  e == poll[2]
        IN  pc[t] = "awake" /\ ~ Up(t) /\ notify[e] \in ids[t] /\ ring[e] # <<>>
              => \/ pending[notify[e]] > 0
                 \/ \E u \in Tasks : pc[u] = "announce" /\ bound[u] = notify[e]

\* A receive with a deadline returns.
TimedRecvReturns ==
    \A t \in Tasks : pc[t] = "recv_park" /\ deadline[t] # "none" ~> pc[t] = "user"

\* Endpoints implement channels: the queue is the ring and then the messages
\* of the blocked senders, and a receive holds what is on its way to it.
OnItsWay(t) == {m \in Msgs :
    \/ mailbox[t] = m
    \/ \E u \in Tasks : /\ peer[u] = t /\ cont[u] = "deliver" /\ km[u] = m
    \/ cont[t] = "make_room" /\ km[t] = m}
HeldBy(t) == IF OnItsWay(t) = {} THEN NoMsg ELSE Max(OnItsWay(t))

Behind(q) == [n \in DOMAIN q |-> q[n][2]]
AsQueue == [e \in Endpoints |-> ring[e] \o Behind(send_waiters[e])]
AsHeld == [t \in Tasks |-> HeldBy(t)]

Channels == INSTANCE Channel WITH queue <- AsQueue, held <- AsHeld

IsChannel == Channels!ChannelSpec
=============================================================================
