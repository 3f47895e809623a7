----------------------------- MODULE DisplayLoop -----------------------------
(***************************************************************************)
(* The display server's loop: deaths, held events, input from the driver   *)
(* and clients' requests are looked at in that order, and one wait on one  *)
(* notification covers what is bound to it.  Events go out without         *)
(* blocking; what does not fit a client's endpoint is held in its outbox.  *)
(*                                                                         *)
(* An event is its number in the order the driver sent them.  Pixels and   *)
(* surfaces are in Compositor; here a client has windows or has not.       *)
(***************************************************************************)
EXTENDS Integers, FiniteSets, Sequences

CONSTANTS
  Clients,            \* clients, 0 .. n - 1
  RING,               \* messages an endpoint holds
  OUTBOX_DEPTH,       \* events held for one client
  CLIENTS_EXPECTED,   \* goodbyes after which only input is served
  MaxEvents           \* events the driver sends, a bound on the model

Kinds == {"create", "focus", "watch", "bye"}
NoClient == -1
NoRequest == "none"

VARIABLES
  input,     \* events at the driver's endpoint
  sent,      \* events the driver has sent
  request,   \* [Clients -> the request at its endpoint]
  waits,     \* [Clients -> the client is waiting for a reply]
  ring,      \* [Clients -> events at its event endpoint]
  seen,      \* [Clients -> the last event it read]
  outbox,    \* [Clients -> events held for it]
  arrivals,  \* the notification the endpoints are bound to is signalled
  watches,   \* [Clients -> the server watches it]
  died,      \* [Clients -> alive, or dead with its notification signalled or read]
  windows,   \* [Clients -> it has windows]
  focus, turn, goodbyes,
  pc         \* where the server's loop is

loopVars == <<input, sent, request, waits, ring, seen, outbox, arrivals, watches,
              died, windows, focus, turn, goodbyes, pc>>
clientVars == <<request, waits>>
serverVars == <<watches, windows, focus, turn, goodbyes>>

LoopInit ==
  /\ input = <<>> /\ sent = 0
  /\ request = [c \in Clients |-> NoRequest]
  /\ waits = [c \in Clients |-> FALSE]
  /\ ring = [c \in Clients |-> <<>>]
  /\ seen = [c \in Clients |-> 0]
  /\ outbox = [c \in Clients |-> <<>>]
  /\ arrivals = FALSE
  /\ watches = [c \in Clients |-> FALSE]
  /\ died = [c \in Clients |-> "alive"]
  /\ windows = [c \in Clients |-> FALSE]
  /\ focus = NoClient /\ turn = 0 /\ goodbyes = 0
  /\ pc = "reap"

------------------------------------------------------------------------------
\* Outside the server: the driver, the clients and their deaths (external).

Driver ==
  /\ sent < MaxEvents /\ Len(input) < RING
  /\ sent' = sent + 1
  /\ input' = Append(input, sent + 1)
  /\ arrivals' = TRUE
  /\ UNCHANGED <<clientVars, ring, seen, outbox, died, serverVars, pc>>

Asks(c, kind) ==
  /\ died[c] = "alive" /\ ~waits[c]
  /\ request' = [request EXCEPT ![c] = kind]
  /\ waits' = [waits EXCEPT ![c] = TRUE]
  /\ arrivals' = TRUE
  /\ UNCHANGED <<input, sent, ring, seen, outbox, died, serverVars, pc>>

Reads(c) ==
  /\ died[c] = "alive" /\ ring[c] # <<>>
  /\ seen' = [seen EXCEPT ![c] = Head(ring[c])]
  /\ ring' = [ring EXCEPT ![c] = Tail(@)]
  /\ UNCHANGED <<input, sent, clientVars, outbox, arrivals, died, serverVars, pc>>

\* The notification registered with the kernel fires; it is not `arrivals`.
Dies(c) ==
  /\ died[c] = "alive" /\ ~waits[c]
  /\ died' = [died EXCEPT ![c] = "signalled"]
  /\ UNCHANGED <<input, sent, clientVars, ring, seen, outbox, arrivals, serverVars, pc>>

------------------------------------------------------------------------------
\* reap, until nobody it watches has died: the windows go, and the keyboard is
\* not left pointing at a process that is gone.
Dead == {c \in Clients : watches[c] /\ died[c] = "signalled"}
reap ==
  /\ pc = "reap"
  /\ died' = [c \in Clients |-> IF c \in Dead THEN "read" ELSE died[c]]
  /\ watches' = [c \in Clients |-> watches[c] /\ c \notin Dead]
  /\ windows' = [c \in Clients |-> windows[c] /\ c \notin Dead]
  /\ focus' = IF focus \in Dead THEN NoClient ELSE focus
  /\ pc' = "flush"
  /\ UNCHANGED <<input, sent, clientVars, ring, seen, outbox, arrivals, turn, goodbyes>>

\* Oldest first, as many as fit.
Room(c) == RING - Len(ring[c])
Fit(c) == IF Len(outbox[c]) < Room(c) THEN Len(outbox[c]) ELSE Room(c)
flush ==
  /\ pc = "flush"
  /\ ring' = [c \in Clients |-> ring[c] \o SubSeq(outbox[c], 1, Fit(c))]
  /\ outbox' = [c \in Clients |-> SubSeq(outbox[c], Fit(c) + 1, Len(outbox[c]))]
  /\ pc' = "pump"
  /\ UNCHANGED <<input, sent, clientVars, seen, arrivals, died, serverVars>>

\* Mutant: an event goes past what is held.
send_past(c, e) ==
  IF Room(c) > 0
  THEN ring' = [ring EXCEPT ![c] = Append(@, e)] /\ UNCHANGED outbox
  ELSE IF Len(outbox[c]) = OUTBOX_DEPTH THEN UNCHANGED <<ring, outbox>>
  ELSE outbox' = [outbox EXCEPT ![c] = Append(@, e)] /\ UNCHANGED ring

\* Outbox::send: now, held behind what is already held, or dropped.
send(c, e) ==
  IF outbox[c] = <<>> /\ Room(c) > 0
  THEN ring' = [ring EXCEPT ![c] = Append(@, e)] /\ UNCHANGED outbox
  ELSE IF Len(outbox[c]) = OUTBOX_DEPTH THEN UNCHANGED <<ring, outbox>>
  ELSE outbox' = [outbox EXCEPT ![c] = Append(@, e)] /\ UNCHANGED ring

\* A key goes to the focus, the pointer to the owner of the window under it; an
\* event with no taker is dropped.
Takers == {c \in Clients : c = focus \/ windows[c]}
pump_input ==
  /\ pc = "pump"
  /\ IF input = <<>>
     THEN pc' = "next" /\ UNCHANGED <<input, ring, outbox>>
     ELSE /\ input' = Tail(input)
          /\ \/ \E c \in Takers : send(c, Head(input))
             \/ UNCHANGED <<ring, outbox>>
          /\ UNCHANGED pc
  /\ UNCHANGED <<sent, clientVars, seen, arrivals, died, serverVars>>

\* next_client: input first, then the clients from `turn` on, then the wait.
\* After the last goodbye the requests are no longer looked at.
Serving == goodbyes < CLIENTS_EXPECTED
Size == Cardinality(Clients)
Order == [k \in 1 .. Size |-> (turn + k - 1) % Size]
Pending == {k \in DOMAIN Order : request[Order[k]] # NoRequest}
Chosen == Order[CHOOSE k \in Pending : \A j \in Pending : k <= j]

served(c, kind) ==
  /\ windows' = IF kind = "create" THEN [windows EXCEPT ![c] = TRUE] ELSE windows
  /\ watches' = IF kind = "watch" THEN [watches EXCEPT ![c] = TRUE] ELSE watches
  /\ focus' = IF kind = "focus" THEN c ELSE focus
  /\ goodbyes' = IF kind = "bye" THEN goodbyes + 1 ELSE goodbyes

next_client ==
  /\ pc = "next" /\ Serving
  /\ IF input # <<>>
     THEN pc' = "reap" /\ UNCHANGED <<request, waits, serverVars>>
     ELSE IF Pending = {}
     THEN pc' = "wait" /\ UNCHANGED <<request, waits, serverVars>>
     ELSE /\ turn' = (Chosen + 1) % Size
          /\ served(Chosen, request[Chosen])
          /\ request' = [request EXCEPT ![Chosen] = NoRequest]
          /\ waits' = [waits EXCEPT ![Chosen] = FALSE]
          /\ pc' = "reap"
  /\ UNCHANGED <<input, sent, ring, seen, outbox, arrivals, died>>

after_tally ==
  /\ pc = "next" /\ ~Serving
  /\ pc' = "wait"
  /\ UNCHANGED <<input, sent, clientVars, ring, seen, outbox, arrivals, died, serverVars>>

\* WaitAny on `arrivals` alone: a signal ends it, and so does the deadline, which
\* there is only while an event is held.
busy == \E c \in Clients : outbox[c] # <<>>
never_busy == FALSE
retry_deadline == busy
wait_any ==
  /\ pc = "wait" /\ (arrivals \/ retry_deadline)
  /\ arrivals' = FALSE
  /\ pc' = IF arrivals /\ Serving THEN "next" ELSE "reap"
  /\ UNCHANGED <<input, sent, clientVars, ring, seen, outbox, died, serverVars>>

Server == reap \/ flush \/ pump_input \/ next_client \/ after_tally \/ wait_any
LoopNext ==
  \/ Driver
  \/ \E c \in Clients : Reads(c) \/ Dies(c) \/ \E kind \in Kinds : Asks(c, kind)
  \/ Server

\* The server runs; a client that reads its events keeps reading them.
LoopFairness == WF_loopVars(Server) /\ \A c \in Clients : WF_loopVars(Reads(c))
LoopSpec == LoopInit /\ [][LoopNext]_loopVars /\ LoopFairness

------------------------------------------------------------------------------
LoopTypeOK ==
  /\ \A c \in Clients : Len(ring[c]) <= RING /\ Len(outbox[c]) <= OUTBOX_DEPTH
  /\ focus \in Clients \cup {NoClient}

\* A client reads its events in the order they happened, whatever was held or
\* dropped between: a release never overtakes its press (Outbox::send, flush).
Rising(s) == \A i \in 1 .. Len(s) - 1 : s[i] < s[i + 1]
EventsInOrder ==
  \A c \in Clients : Rising(<<seen[c]>> \o ring[c] \o outbox[c])

\* An event held for a client that reads is delivered: nothing signals the
\* server that a client made room, so the deadline has to (busy, retry_deadline).
HeldGoesOut ==
  \A c \in Clients : (outbox[c] # <<>>) ~> (outbox[c] = <<>> \/ died[c] # "alive")

\* The windows of a client that asked to be watched are taken down when it dies.
DeathNoticed ==
  \A c \in Clients : (watches[c] /\ windows[c] /\ died[c] = "signalled") ~> ~windows[c]
==============================================================================
