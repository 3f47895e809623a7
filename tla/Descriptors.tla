---------------------------- MODULE Descriptors ----------------------------
(***************************************************************************)
(* The C library's descriptors that can be waited on (crates/staros-libc/  *)
(* src/fd.rs): the table, the pool of waitable objects, eventfd, pipe,     *)
(* endpoint descriptors, dup, close, read, write and poll.  Byte j of a    *)
(* pipe is the number j.  Opener makes, duplicates and closes descriptors;   *)
(* one thread at a time uses a descriptor.                                 *)
(*                                                                         *)
(* op[t].at is where thread t is: "user", "make" (a slot taken, its        *)
(* descriptors not yet installed), "closed" (the entry cleared), "dropped" *)
(* (the object let go, its waiters not yet signalled), "try" (about to     *)
(* look), "wait" (asleep on one notification), "scan" and "collect" (the   *)
(* two passes of poll) and "poll" (asleep in WaitAny).                     *)
(***************************************************************************)
EXTENDS Integers, Sequences, FiniteSetsExt

CONSTANTS
    Callers, Opener,  \* the threads, and the one that opens and closes
    MAX_FDS,          \* descriptors
    MAX_WAITABLES,    \* slots of the pool
    PIPE_CAPACITY,
    MaxBytes,         \* bound: bytes written to one pipe, events counted
    MaxSignals,       \* bound: pending signals that are told apart
    MaxCalls          \* bound: descriptors made, closed, duplicated, set up

ASSUME DescriptorsAssumption ==
    /\ Opener \in Callers
    /\ MAX_FDS \in Nat /\ MAX_WAITABLES \in Nat
    /\ PIPE_CAPACITY \in Nat \ {0} /\ MaxSignals \in Nat \ {0}

\* What a descriptor may name; slot 0 stands for one not yet known.
FreeFd == [kind |-> "free"]
EventFd(semaphore) == [kind |-> "event", semaphore |-> semaphore, slot |-> 0]
PipeFd(write) == [kind |-> "pipe", write |-> write, slot |-> 0]
EndpointFd == [kind |-> "endpoint", slot |-> 0]
InUser == [at |-> "user"]
Fds == 1..MAX_FDS
Slots == 1..MAX_WAITABLES

VARIABLES
    fds,          \* FDS
    nonblock,     \* NONBLOCK, as the set of descriptors
    used,         \* the slots in use
    counter,      \* the eventfd counters
    ring, pipe_head, pipe_tail, ends,
    signals,      \* pending signals of <<slot, "readable" or "writable">>
    mail,         \* messages pending at the endpoint
    bound,        \* the slot whose readable signal the endpoint is bound to, 0
    shared,       \* some descriptor was duplicated
    calls,        \* calls made so far, of the bounded ones
    op

fdVars == <<fds, nonblock, used, counter, ring, pipe_head, pipe_tail, ends, signals, mail, bound, shared, calls, op>>

FdInit ==
    /\ fds = [f \in Fds |-> FreeFd] /\ nonblock = {} /\ used = {}
    /\ counter = [s \in Slots |-> 0]
    /\ ring = [s \in Slots |-> [i \in 0..(PIPE_CAPACITY - 1) |-> 0]]
    /\ pipe_head = [s \in Slots |-> 0] /\ pipe_tail = [s \in Slots |-> 0] /\ ends = [s \in Slots |-> 0]
    /\ signals = [n \in Slots \X {"readable", "writable"} |-> 0]
    /\ mail = 0 /\ bound = 0 /\ shared = FALSE /\ calls = 0
    /\ op = [t \in Callers |-> InUser]

Enter(t) == op[t] = InUser /\ calls < MaxCalls /\ calls' = calls + 1
objects == <<counter, ring, pipe_head, pipe_tail, ends>>
Goto(t, there) == op' = [op EXCEPT ![t] = there]
signalled(sigs, ns) == [n \in DOMAIN sigs |-> IF n \in ns /\ sigs[n] < MaxSignals
                                              THEN sigs[n] + 1 ELSE sigs[n]]
buffered(s) == pipe_tail[s] - pipe_head[s]

\* The descriptors the threads other than t are using.
Busy(t) == {op[u].fd : u \in {u \in Callers \ {t} : op[u].at \in {"try", "wait"}}}
           \cup UNION {op[u].set : u \in {u \in Callers \ {t} : op[u].at \in {"scan", "collect", "poll"}}}

\* The descriptors the program has: pipe2 tells it both ends or neither.
Open == {f \in Fds : fds[f] # FreeFd}
        \ UNION {op[u].got : u \in {u \in Callers : op[u].at = "make"}}
-----------------------------------------------------------------------------
\* install: the lowest free entry, blocking.
Gaps == {f \in Fds : fds[f] = FreeFd}
install(kind) == /\ fds' = [fds EXCEPT ![Min(Gaps)] = kind]
                 /\ nonblock' = nonblock \ {Min(Gaps)}

\* eventfd, pipe2 and staros_endpoint_fd begin with take_waitable: the first
\* unused slot, cleared.
take_waitable(t, kinds, n, events) ==
    /\ Enter(t) /\ used # Slots
    /\ LET s == Min(Slots \ used)
       IN /\ used' = used \cup {s}
          /\ counter' = [counter EXCEPT ![s] = events]
          /\ pipe_head' = [pipe_head EXCEPT ![s] = 0] /\ pipe_tail' = [pipe_tail EXCEPT ![s] = 0]
          /\ ends' = [ends EXCEPT ![s] = n]
          /\ Goto(t, [at |-> "make", slot |-> s, kinds |-> kinds, got |-> {}])
          /\ bound' = IF kinds[1].kind = "endpoint" THEN s ELSE bound
    /\ UNCHANGED <<fds, nonblock, ring, signals, mail, shared>>

eventfd(t) == \E sem \in BOOLEAN :
                 take_waitable(t, <<EventFd(sem)>>, 0, IF sem THEN 1 ELSE 0)
pipe2(t) == take_waitable(t, <<PipeFd(FALSE), PipeFd(TRUE)>>, 2, 0)
staros_endpoint_fd(t) == bound = 0 /\ take_waitable(t, <<EndpointFd>>, 0, 0)

\* One descriptor of the new object; when the table is full the ones already
\* made are released and the slot goes back.  A slot given back on this path
\* stays bound to its endpoint.
Installed(t) ==
    /\ op[t].at = "make"
    /\ LET me == op[t]
           kind == [Head(me.kinds) EXCEPT !.slot = me.slot]
       IN IF Gaps # {}
          THEN /\ install(kind)
               /\ Goto(t, IF Len(me.kinds) = 1 THEN InUser
                        ELSE [me EXCEPT !.kinds = Tail(@), !.got = @ \cup {Min(Gaps)}])
               /\ UNCHANGED <<used, ends, signals>>
          ELSE /\ fds' = [f \in Fds |-> IF f \in me.got THEN FreeFd ELSE fds[f]]
               /\ ends' = [ends EXCEPT ![me.slot] = @ - Cardinality(me.got)]
               /\ signals' = IF me.got = {} THEN signals
                             ELSE signalled(signals, {me.slot} \X {"readable", "writable"})
               /\ used' = used \ {me.slot}
               /\ Goto(t, InUser) /\ UNCHANGED nonblock
    /\ UNCHANGED <<counter, ring, pipe_head, pipe_tail, mail, bound, shared, calls>>

\* fcntl(F_SETFL): set_nonblock.
set_nonblock(t, f, on) ==
    /\ Enter(t) /\ f \in Open
    /\ nonblock' = IF on THEN nonblock \cup {f} ELSE nonblock \ {f}
    /\ UNCHANGED <<fds, used, objects, signals, mail, bound, shared, op>>

\* dup copies the entry; nothing counts the copies.
dup(t, f) ==
    /\ Enter(t) /\ f \in Open /\ Gaps # {} /\ ~shared
    /\ fds' = [fds EXCEPT ![Min(Gaps)] = fds[f]]
    /\ nonblock' = IF f \in nonblock THEN nonblock \cup {Min(Gaps)} ELSE nonblock \ {Min(Gaps)}
    /\ shared' = TRUE
    /\ UNCHANGED <<used, objects, signals, mail, bound, op>>

\* release clears the entry, lets the object go, then wakes both directions
\* of a pipe; dup3 releases the number it replaces and takes it over.
release(t, f, over) ==
    /\ Enter(t) /\ f \in Open \ Busy(t)
    /\ over # FreeFd => ~shared
    /\ fds' = [fds EXCEPT ![f] = over]
    /\ shared' = (shared \/ over # FreeFd)
    /\ Goto(t, [at |-> "closed", was |-> fds[f]])
    /\ UNCHANGED <<nonblock, used, objects, signals, mail, bound>>

close(t, f) == release(t, f, FreeFd)
dup3(t, f, g) == f # g /\ f \in Open /\ release(t, g, fds[f])

Drop(t) ==
    /\ op[t].at = "closed"
    /\ LET k == op[t].was
       IN /\ ends' = IF k.kind = "pipe" THEN [ends EXCEPT ![k.slot] = @ - 1] ELSE ends
          /\ used' = IF k.kind = "pipe" /\ ends[k.slot] > 1 THEN used ELSE used \ {k.slot}
          /\ bound' = IF k.kind = "endpoint" THEN 0 ELSE bound
          /\ Goto(t, IF k.kind = "pipe" THEN [at |-> "dropped", slot |-> k.slot] ELSE InUser)
    /\ UNCHANGED <<fds, nonblock, counter, ring, pipe_head, pipe_tail, signals, mail, shared, calls>>

\* Mutant: a close wakes the readers and not the writers.
wake_readers(t) ==
    /\ op[t].at = "dropped"
    /\ signals' = signalled(signals, {<<op[t].slot, "readable">>})
    /\ Goto(t, InUser)
    /\ UNCHANGED <<fds, nonblock, used, objects, mail, bound, shared, calls>>

WakeBoth(t) ==
    /\ op[t].at = "dropped"
    /\ signals' = signalled(signals, {op[t].slot} \X {"readable", "writable"})
    /\ Goto(t, InUser)
    /\ UNCHANGED <<fds, nonblock, used, objects, mail, bound, shared, calls>>
-----------------------------------------------------------------------------
\* read(2) and write(2) look the descriptor up once and loop on its kind.
Begin(t, f, way, n) ==
    /\ op[t] = InUser /\ f \in Open \ Busy(t)
    /\ way = "write" /\ fds[f].kind # "endpoint" => pipe_tail[fds[f].slot] + n <= MaxBytes
                                                    /\ counter[fds[f].slot] + n <= MaxBytes
    /\ IF fds[f].kind # "pipe" THEN n = 1 ELSE (way = "write") = fds[f].write
    /\ Goto(t, [at |-> "try", fd |-> f, of |-> fds[f], way |-> way, left |-> n,
              patient |-> f \notin nonblock])
    /\ UNCHANGED <<fds, nonblock, used, objects, signals, mail, bound, shared, calls>>

\* Nothing to do yet: EAGAIN (or the part already written), or sleep.
Pause(t) == Goto(t, IF op[t].patient THEN [op[t] EXCEPT !.at = "wait"] ELSE InUser)
Doing(t, kind, way) == op[t].at = "try" /\ op[t].of.kind = kind /\ op[t].way = way

read_event(t) ==
    /\ Doing(t, "event", "read")
    /\ LET s == op[t].of.slot
       IN IF counter[s] > 0
          THEN /\ counter' = [counter EXCEPT ![s] = IF op[t].of.semaphore THEN @ - 1 ELSE 0]
               /\ signals' = signalled(signals, {<<s, "writable">>})
               /\ Goto(t, InUser)
          ELSE Pause(t) /\ UNCHANGED <<counter, signals>>
    /\ UNCHANGED <<fds, nonblock, used, ring, pipe_head, pipe_tail, ends, mail, bound, shared, calls>>

\* fetch_add, then the signal; no reader can miss both.
write_event(t) ==
    /\ Doing(t, "event", "write")
    /\ counter' = [counter EXCEPT ![op[t].of.slot] = @ + 1]
    /\ signals' = signalled(signals, {<<op[t].of.slot, "readable">>})
    /\ Goto(t, InUser)
    /\ UNCHANGED <<fds, nonblock, used, ring, pipe_head, pipe_tail, ends, mail, bound, shared, calls>>

\* Under the ring lock: what is there, end of file, or neither.
read_pipe(t) ==
    /\ Doing(t, "pipe", "read")
    /\ LET s == op[t].of.slot
           n == Min({buffered(s), op[t].left})
       IN IF buffered(s) > 0
          THEN /\ pipe_head' = [pipe_head EXCEPT ![s] = @ + n]
               /\ signals' = signalled(signals, {<<s, "writable">>})
               /\ Goto(t, InUser)
          ELSE /\ IF ends[s] < 2 THEN Goto(t, InUser) ELSE Pause(t)
               /\ UNCHANGED <<pipe_head, signals>>
    /\ UNCHANGED <<fds, nonblock, used, counter, ring, pipe_tail, ends, mail, bound, shared, calls>>

\* Mutant: the ring is allowed one byte more than it has.
room_and_one(s) == PIPE_CAPACITY + 1 - buffered(s)
room(s) == PIPE_CAPACITY - buffered(s)

\* One pass of write's loop: the reader gone, some bytes placed, or a full ring.
write_pipe(t) ==
    /\ Doing(t, "pipe", "write")
    /\ LET s == op[t].of.slot
           n == Min({room(s), op[t].left})
       IN IF ends[s] < 2 \/ op[t].left = 0 THEN Goto(t, InUser) /\ UNCHANGED <<ring, pipe_tail, signals>>
          ELSE IF n > 0
          THEN /\ ring' = [ring EXCEPT ![s] = [i \in DOMAIN @ |->
                    IF \E k \in 0..(n - 1) : (pipe_tail[s] + k) % PIPE_CAPACITY = i
                    THEN Max({j \in pipe_tail[s]..(pipe_tail[s] + n - 1) : j % PIPE_CAPACITY = i}) ELSE @[i]]]
               /\ pipe_tail' = [pipe_tail EXCEPT ![s] = @ + n]
               /\ signals' = signalled(signals, {<<s, "readable">>})
               /\ Goto(t, [op[t] EXCEPT !.left = @ - n])
          ELSE Pause(t) /\ UNCHANGED <<ring, pipe_tail, signals>>
    /\ UNCHANGED <<fds, nonblock, used, counter, pipe_head, ends, mail, bound, shared, calls>>

\* One whole message; the kernel's recv blocks whatever O_NONBLOCK says.
read_endpoint(t) ==
    /\ Doing(t, "endpoint", "read") /\ mail > 0
    /\ mail' = mail - 1 /\ Goto(t, InUser)
    /\ UNCHANGED <<fds, nonblock, used, objects, signals, bound, shared, calls>>

write_endpoint(t) == Doing(t, "endpoint", "write") /\ Goto(t, InUser)
                     /\ UNCHANGED <<fds, nonblock, used, objects, signals, mail, bound, shared, calls>>

\* A message arrives from another task, before the endpoint is wrapped or while
\* it is.
Arrive ==
    /\ mail < 1 /\ (calls = 0 \/ bound # 0) /\ mail' = mail + 1
    /\ signals' = IF bound = 0 THEN signals ELSE signalled(signals, {<<bound, "readable">>})
    /\ UNCHANGED <<fds, nonblock, used, objects, bound, shared, calls, op>>

\* sys::wait: consume a signal and look again.
Note(t) == <<op[t].of.slot, IF op[t].way = "write" THEN "writable" ELSE "readable">>
Wakes(t) ==
    /\ op[t].at = "wait" /\ signals[Note(t)] > 0
    /\ signals' = [signals EXCEPT ![Note(t)] = @ - 1]
    /\ Goto(t, [op[t] EXCEPT !.at = "try"])
    /\ UNCHANGED <<fds, nonblock, used, objects, mail, bound, shared, calls>>
-----------------------------------------------------------------------------
\* readiness of a kind, for the direction it has (an eventfd and an endpoint
\* are polled for reading; they are always writable).
readable(k) == \/ k.kind = "event" /\ counter[k.slot] > 0
               \/ k.kind = "pipe" /\ \/ ends[k.slot] < 2
                                     \/ IF k.write THEN buffered(k.slot) < PIPE_CAPACITY ELSE buffered(k.slot) > 0
               \/ k.kind = "endpoint" /\ mail > 0
               \/ k.kind = "free"     \* POLLNVAL
notification(k) == <<k.slot, IF k.kind = "pipe" /\ k.write THEN "writable" ELSE "readable">>

poll(t, S) ==
    /\ op[t] = InUser /\ (Cardinality(S) = 1 \/ S = Open) /\ S \cap Busy(t) = {}
    /\ Goto(t, [at |-> "scan", set |-> S, on |-> {}])
    /\ UNCHANGED <<fds, nonblock, used, objects, signals, mail, bound, shared, calls>>

\* poll_impl: something ready returns; else collect the sources, then sleep.
Scan(t) ==
    /\ op[t].at = "scan"
    /\ Goto(t, IF \E f \in op[t].set : readable(fds[f]) THEN InUser ELSE [op[t] EXCEPT !.at = "collect"])
    /\ UNCHANGED <<fds, nonblock, used, objects, signals, mail, bound, shared, calls>>

Collect(t) ==
    /\ op[t].at = "collect"
    /\ Goto(t, [op[t] EXCEPT !.at = "poll", !.on = {notification(fds[f]) : f \in op[t].set}])
    /\ UNCHANGED <<fds, nonblock, used, objects, signals, mail, bound, shared, calls>>

WaitAny(t, n) ==
    /\ op[t].at = "poll" /\ n \in op[t].on /\ signals[n] > 0
    /\ signals' = [signals EXCEPT ![n] = @ - 1]
    /\ Goto(t, [op[t] EXCEPT !.at = "scan", !.on = {}])
    /\ UNCHANGED <<fds, nonblock, used, objects, mail, bound, shared, calls>>

\* A poll with a deadline: it passes with nothing signalled.
TimedOut(t) ==
    /\ op[t].at = "poll" /\ \A n \in op[t].on : signals[n] = 0
    /\ Goto(t, InUser)
    /\ UNCHANGED <<fds, nonblock, used, objects, signals, mail, bound, shared, calls>>

Make(t) == eventfd(t) \/ pipe2(t) \/ staros_endpoint_fd(t) \/ Installed(t)
Close(t) == (\E f \in Fds : close(t, f) \/ dup(t, f) \/ \E g \in Fds : dup3(t, f, g))
            \/ Drop(t) \/ WakeBoth(t)
Transfer(t) == \/ \E f \in Fds : Begin(t, f, "read", 1) \/ \E n \in 1..2 : Begin(t, f, "write", n)
               \/ read_event(t) \/ write_event(t) \/ read_pipe(t) \/ write_pipe(t)
               \/ read_endpoint(t) \/ write_endpoint(t) \/ Wakes(t)
Poll(t) == \/ \E S \in SUBSET Open \ {{}} : poll(t, S)
           \/ Scan(t) \/ Collect(t) \/ TimedOut(t) \/ \E n \in DOMAIN signals : WaitAny(t, n)
Control(t) == \E f \in Fds, on \in BOOLEAN : set_nonblock(t, f, on)

FdNext == \/ Arrive \/ Make(Opener) \/ Close(Opener) \/ Control(Opener)
          \/ \E t \in Callers : Transfer(t) \/ Poll(t)
FdSpec == FdInit /\ [][FdNext]_fdVars
-----------------------------------------------------------------------------
\* Bytes a reader has not taken are where the writer put them, through every
\* wrap of the ring, partial write and reuse of the slot; and unless a
\* descriptor was duplicated no slot serves two objects, or is free, while a
\* descriptor names it (release, take_waitable and the failure paths of
\* pipe2 and eventfd agree on who owns it).
SlotsKept ==
    ~shared =>
      /\ \A f \in Open : fds[f].slot \in used
      /\ \A f, g \in Open : f # g /\ fds[f].slot = fds[g].slot =>
            fds[f].kind = "pipe" /\ fds[g].kind = "pipe" /\ fds[f].write # fds[g].write
      /\ \A s \in used : buffered(s) \in 0..PIPE_CAPACITY
                         /\ \A j \in pipe_head[s]..(pipe_tail[s] - 1) : ring[s][j % PIPE_CAPACITY] = j

\* A thread does not sleep through what it waits for: while it sleeps with no
\* signal pending there is nothing to read, no room to write and no end of
\* file, unless the thread that closed the other end is about to signal it.
WaiterHears ==
    ~shared => \A t \in Callers, f \in Open :
      LET n == notification(fds[f])
      IN \/ op[t].at = "wait" /\ op[t].fd = f
         \/ op[t].at = "poll" /\ f \in op[t].set
         => signals[n] > 0 \/ ~readable(fds[f]) \/ op[Opener] = [at |-> "dropped", slot |-> fds[f].slot]
-----------------------------------------------------------------------------
\* The inductive invariant, up to the first duplicate.
Notes == Slots \X {"readable", "writable"}
Kinds == [kind : {"event"}, semaphore : BOOLEAN, slot : Slots]
         \cup [kind : {"pipe"}, write : BOOLEAN, slot : Slots]
         \cup [kind : {"endpoint"}, slot : Slots]
FdTypeOK ==
    /\ fds \in [Fds -> Kinds \cup {FreeFd}] /\ used \subseteq Slots
    /\ counter \in [Slots -> Nat]
    /\ ring \in [Slots -> [0..(PIPE_CAPACITY - 1) -> Nat]]
    /\ pipe_head \in [Slots -> Nat] /\ pipe_tail \in [Slots -> Nat] /\ ends \in [Slots -> Int]
    /\ signals \in [Notes -> Nat] /\ mail \in Nat /\ bound \in 0..MAX_WAITABLES

\* Where a thread is; only Opener is between the steps of a call that makes or closes.
Transfers == [at : {"try", "wait"}, fd : Fds, of : Kinds, way : {"read", "write"}, left : Nat, patient : BOOLEAN]
Polls == [at : {"scan", "collect", "poll"}, set : SUBSET Fds, on : SUBSET Notes]
Closings == [at : {"closed"}, was : Kinds] \cup [at : {"dropped"}, slot : Slots]
Makings == [at : {"make"}, slot : Slots, got : SUBSET Fds,
            kinds : {<<EventFd(TRUE)>>, <<EventFd(FALSE)>>, <<EndpointFd>>,
                     <<PipeFd(FALSE), PipeFd(TRUE)>>, <<PipeFd(TRUE)>>}]
PlacesOK ==
    /\ op \in [Callers -> {InUser} \cup Transfers \cup Polls \cup Closings \cup Makings]
    /\ \A t \in Callers \ {Opener} : op[t] \notin Closings \cup Makings

\* Two descriptors of one slot are the two ends of a pipe that has both.
Apart(k, l) == k.slot = l.slot => k.kind = "pipe" /\ l.kind = "pipe" /\ k.write # l.write /\ ends[k.slot] = 2
Named == {f \in Fds : fds[f] # FreeFd}
Owned ==
    /\ \A f \in Named : fds[f].slot \in used /\ (fds[f].kind = "endpoint" => bound = fds[f].slot)
    /\ \A f, g \in Named : f # g => Apart(fds[f], fds[g])
\* A slot that was taken is named by what was already made of it only, and what
\* is let go has left the table but not the pool.
Making ==
    op[Opener].at = "make" =>
      LET me == op[Opener]
      IN /\ me.slot \in used
         /\ \A f \in Named : fds[f].slot = me.slot <=> f \in me.got
         /\ Head(me.kinds).kind = "endpoint" => bound = me.slot
         /\ Head(me.kinds).kind = "pipe" => ends[me.slot] = 2
         /\ IF me.kinds = <<PipeFd(TRUE)>>
            THEN \E f \in Named : me.got = {f} /\ fds[f].kind = "pipe" /\ ~fds[f].write
            ELSE me.got = {}
Closing ==
    op[Opener].at = "closed" =>
      LET k == op[Opener].was
      IN /\ k.slot \in used /\ (k.kind = "endpoint" => bound = k.slot)
         /\ \A f \in Named : Apart(k, fds[f])

\* The bytes of a pipe are in its ring.
Stored ==
    \A s \in used : /\ buffered(s) \in 0..PIPE_CAPACITY
                    /\ \A j \in pipe_head[s]..(pipe_tail[s] - 1) : ring[s][j % PIPE_CAPACITY] = j

\* A descriptor is used by one thread, which looked it up and found what it still is.
Using(t) == CASE op[t].at \in {"try", "wait"} -> {op[t].fd}
              [] op[t].at \in {"scan", "collect", "poll"} -> op[t].set
              [] OTHER -> {}
OneUser ==
    /\ \A t \in Callers : Using(t) \subseteq Open
    /\ \A t, u \in Callers : t # u => Using(t) \cap Using(u) = {}
LookedUp(t) ==
    /\ op[t].at \in {"try", "wait"} =>
          /\ op[t].of = fds[op[t].fd]
          /\ op[t].of.kind = "pipe" => (op[t].way = "write") = op[t].of.write
    /\ op[t].at = "wait" => Note(t) = notification(op[t].of)
    /\ op[t].at = "poll" => op[t].on = {notification(fds[f]) : f \in op[t].set}
Current == \A t \in Callers : LookedUp(t)

\* From the last look on, a sleeper-to-be has a signal coming.
Heard(f) == \/ signals[notification(fds[f])] > 0 \/ ~readable(fds[f])
            \/ op[Opener] = [at |-> "dropped", slot |-> fds[f].slot]
Hears(t) == op[t].at \in {"wait", "collect", "poll"} => \A f \in Using(t) : Heard(f)
Hearing == \A t \in Callers : Hears(t)

FdInv == ~shared => /\ FdTypeOK /\ PlacesOK /\ Owned /\ Making /\ Closing
                    /\ Stored /\ OneUser /\ Current /\ Hearing
=============================================================================
