------------------------------ MODULE Channel -------------------------------
(***************************************************************************)
(* What an endpoint promises its users: messages leave in the order they   *)
(* were accepted, each to one receiver, and the receive it was given to    *)
(* returns that message and no other.  Module Ipc implements it as long as *)
(* receives have no deadline and receivers do not also wait on             *)
(* notifications.                                                          *)
(***************************************************************************)
EXTENDS Sequences, Naturals

CONSTANTS Tasks, Endpoints, Msgs, NoMsg, Failed

VARIABLES
    queue,    \* queue[e]: accepted and not yet given to a receiver
    held,     \* held[t]: given to t's receive, which has not returned yet
    result    \* result[t]: what t's last receive returned

channelVars == <<queue, held, result>>

ChannelInit == /\ queue = [e \in Endpoints |-> <<>>]
               /\ held = [t \in Tasks |-> NoMsg]
               /\ result = [t \in Tasks |-> NoMsg]

\* A message joins the queue, or goes straight to a receive that waits.
Put(e, m) == /\ queue' = [queue EXCEPT ![e] = Append(@, m)]
             /\ UNCHANGED <<held, result>>
Hand(e, m, t) == /\ queue[e] = <<>> /\ held[t] = NoMsg
                 /\ held' = [held EXCEPT ![t] = m]
                 /\ UNCHANGED <<queue, result>>

\* A receive takes the oldest message; it returns it at once, or later.
Take(e, t) == /\ queue[e] # <<>> /\ held[t] = NoMsg
              /\ queue' = [queue EXCEPT ![e] = Tail(@)]
              /\ \/ /\ held' = [held EXCEPT ![t] = Head(queue[e])]
                    /\ UNCHANGED result
                 \/ /\ result' = [result EXCEPT ![t] = Head(queue[e])]
                    /\ UNCHANGED held

GiveBack(t) == /\ held[t] # NoMsg
               /\ result' = [result EXCEPT ![t] = held[t]]
               /\ held' = [held EXCEPT ![t] = NoMsg]
               /\ UNCHANGED queue

\* A receive is refused; it had been given nothing.
Refuse(t) == /\ held[t] = NoMsg
             /\ result' = [result EXCEPT ![t] = Failed]
             /\ UNCHANGED <<queue, held>>

ChannelNext ==
    \/ \E e \in Endpoints, m \in Msgs : Put(e, m) \/ \E t \in Tasks : Hand(e, m, t)
    \/ \E e \in Endpoints, t \in Tasks : Take(e, t)
    \/ \E t \in Tasks : GiveBack(t) \/ Refuse(t)

ChannelSpec == ChannelInit /\ [][ChannelNext]_channelVars
=============================================================================
