------------------------------ MODULE Threads ------------------------------
(***************************************************************************)
(* The C library's locks (crates/staros-libc/src/thread.rs): mutex,        *)
(* condition variable, semaphore and reader/writer lock, over one queue of *)
(* parked threads each and one parker per thread.  An action is one atomic *)
(* operation on a lock word, one critical section of a queue, or one       *)
(* syscall on a parker; threads interleave between them.                   *)
(*                                                                         *)
(* A queue is a list through the one link a thread has.  A thread is on at *)
(* most one: queued makes a second push a no-op.  A parker counts its      *)
(* signals.  pc[t] is the function thread t is in (op), how far it is (at) *)
(* and where it goes once the waking it is doing is over (then).           *)
(***************************************************************************)
EXTENDS Integers, FiniteSets

CONSTANTS
    Workers,       \* the threads
    Ops,           \* the functions they call
    MaxPending     \* bound: signals counted on a parker

Nil == "nil"
ASSUME WorkersAssumption == IsFiniteSet(Workers) /\ Nil \notin Workers /\ MaxPending \in Nat

Queues == {"mutex", "cond", "sem", "rw"}

VARIABLES
    head,                      \* head[q]: Queue::head
    link, queued,              \* Thread::next, Thread::queued
    pending,                   \* the signals counted on each thread's parker
    state,                     \* Mutex::state
    count,                     \* Sem::count
    readers, writer, owner,    \* RwLock
    pc, cur,                   \* cur[t]: the thread t is about to unpark
    has                        \* has[t]: which of the locks t holds

queueVars == <<head, link, queued>>
rwVars == <<readers, writer, owner>>
syncVars == <<queueVars, pending, state, count, rwVars, pc, cur, has>>

User == [op |-> "user", at |-> "user", then |-> "user"]

SyncInit ==
    /\ head = [q \in Queues |-> Nil]
    /\ link = [t \in Workers |-> Nil] /\ queued = [t \in Workers |-> FALSE]
    /\ pending = [t \in Workers |-> 0]
    /\ state = 0 /\ count = 0
    /\ readers = 0 /\ writer = 0 /\ owner = Nil
    /\ pc = [t \in Workers |-> User] /\ cur = [t \in Workers |-> Nil]
    /\ has = [t \in Workers |-> {}]

Steps == {"user", "try", "push", "recheck", "park", "enqueue", "release", "pop", "post", "enter", "confirm", "leave",
          "give", "wake", "wakeone"}
Place == [op : Ops \cup {"user", "lock"}, at : Steps, then : {"user", "locked", "push", "park"}]

\* The lock words, who is where and who holds what; and the queues and parkers.
LocksTypeOK ==
    /\ state \in {0, 1} /\ writer \in {0, 1} /\ readers \in Int /\ owner \in Workers \cup {Nil}
    /\ pc \in [Workers -> Place] /\ has \in [Workers -> SUBSET {"mutex", "read", "write"}]

SyncTypeOK ==
    /\ LocksTypeOK /\ count \in Nat /\ cur \in [Workers -> Workers \cup {Nil}]
    /\ head \in [Queues -> Workers \cup {Nil}] /\ link \in [Workers -> Workers \cup {Nil}]
    /\ queued \in [Workers -> BOOLEAN] /\ pending \in [Workers -> 0..MaxPending]

-----------------------------------------------------------------------------
At(t, ops, at) == pc[t].op \in ops /\ pc[t].at = at
Go(t, at) == pc' = [pc EXCEPT ![t].at = at]
\* The call returns with the locks in gained, or without those in lost.
Return(t, gained, lost) == /\ pc' = [pc EXCEPT ![t] = User]
                           /\ has' = [has EXCEPT ![t] = (@ \cup gained) \ lost]

\* The threads a list starting at h links.
Chain(h) ==
    LET reach[n \in Nat] == IF n = 0 THEN {h} \ {Nil}
                            ELSE reach[n - 1] \cup ({link[t] : t \in reach[n - 1]} \ {Nil})
    IN reach[Cardinality(Workers)]

\* Queue::push, take and pop, each under the queue's spin lock.
push(t, q) ==
    IF queued[t] THEN UNCHANGED queueVars
    ELSE /\ queued' = [queued EXCEPT ![t] = TRUE]
         /\ link' = [link EXCEPT ![t] = head[q]]
         /\ head' = [head EXCEPT ![q] = t]

take(t, q, then) ==
    /\ pc' = [pc EXCEPT ![t].at = "wake", ![t].then = then]
    /\ cur' = [cur EXCEPT ![t] = head[q]]
    /\ queued' = [u \in Workers |-> queued[u] /\ u \notin Chain(head[q])]
    /\ head' = [head EXCEPT ![q] = Nil]
    /\ UNCHANGED link

pop(t, q, then) ==
    LET h == head[q]
    IN  /\ pc' = [pc EXCEPT ![t].at = "wakeone", ![t].then = then]
        /\ cur' = [cur EXCEPT ![t] = h]
        /\ queued' = [u \in Workers |-> queued[u] /\ u # h]
        /\ head' = [head EXCEPT ![q] = IF h = Nil THEN Nil ELSE link[h]]
        /\ UNCHANGED link

\* Queue::wake_all: the link is read when its thread is unparked.
unpark(t) ==
    /\ pc[t].at \in {"wake", "wakeone"} /\ cur[t] # Nil
    /\ pending' = [pending EXCEPT ![cur[t]] = IF @ < MaxPending THEN @ + 1 ELSE @]
    /\ cur' = [cur EXCEPT ![t] = IF pc[t].at = "wake" THEN link[cur[t]] ELSE Nil]
    /\ UNCHANGED <<queueVars, state, count, rwVars, pc, has>>

\* Every waiter is awake: on to what the function does next.
Woken(t) ==
    /\ pc[t].at \in {"wake", "wakeone"} /\ cur[t] = Nil
    /\ CASE pc[t].then = "user"   -> Return(t, {}, {})
         [] pc[t].then = "locked" -> Return(t, {"mutex"}, {})
         [] OTHER                 -> Go(t, pc[t].then) /\ UNCHANGED has
    /\ UNCHANGED <<queueVars, pending, state, count, rwVars, cur>>

\* Thread::park.  A timed wait may also come back by its deadline.
Timed == {"timedwait"}
park(t) ==
    /\ pc[t].at = "park"
    /\ \/ pending[t] > 0 /\ pending' = [pending EXCEPT ![t] = @ - 1]
       \/ pc[t].op \in Timed /\ UNCHANGED pending
    /\ pc' = [pc EXCEPT ![t].at = "try", ![t].op = IF @ \in {"wait", "timedwait"} THEN "lock" ELSE @]
    /\ UNCHANGED <<queueVars, state, count, rwVars, cur, has>>

\* Where each function that enqueues itself pushes, and what it does next.
QueueOf(op) == CASE op = "lock" -> "mutex" [] op = "sem_wait" -> "sem" [] OTHER -> "rw"

Enqueue(t) ==
    /\ pc[t].at = "push" /\ push(t, QueueOf(pc[t].op)) /\ Go(t, "recheck")
    /\ UNCHANGED <<pending, state, count, rwVars, cur, has>>
-----------------------------------------------------------------------------
\* A try comes back refused.  A timed lock is a loop of tries that ends at its
\* deadline: a refusal, then perhaps another call.
TryMutex == {"trylock"}
TryRw == {"tryrd", "trywr"}
TrySem == {"sem_trywait"}
Refused(t) == IF pc[t].op \in TryMutex \cup TryRw \cup TrySem THEN Return(t, {}, {})
              ELSE Go(t, "push") /\ UNCHANGED has

\* Mutex::lock: try, enqueue, try once more, park.
lock(t) ==
    /\ At(t, {"lock"} \cup TryMutex, "try")
    /\ IF state = 0 THEN state' = 1 /\ Return(t, {"mutex"}, {})
       ELSE Refused(t) /\ UNCHANGED state
    /\ UNCHANGED <<queueVars, pending, count, rwVars, cur>>

lock_recheck(t) ==
    /\ At(t, {"lock"}, "recheck")
    /\ IF state = 0 THEN state' = 1 /\ take(t, "mutex", "locked")
       ELSE Go(t, "park") /\ UNCHANGED <<state, queueVars, cur>>
    /\ UNCHANGED <<pending, count, rwVars, has>>

\* Mutex::unlock, alone or from within a wait: release, then wake one.
Releasing == {"unlock", "wait", "timedwait"}
unlock(t) ==
    /\ At(t, Releasing, "release")
    /\ state' = 0 /\ Go(t, "pop")
    /\ has' = [has EXCEPT ![t] = @ \ {"mutex"}]
    /\ UNCHANGED <<queueVars, pending, count, rwVars, cur>>

unlock_pop(t) ==
    /\ At(t, Releasing, "pop")
    /\ pop(t, "mutex", IF pc[t].op = "unlock" THEN "user" ELSE "park")
    /\ UNCHANGED <<pending, state, count, rwVars, has>>

\* pthread_cond_wait and _timedwait: enqueue before the mutex goes.
cond_wait(t) ==
    /\ At(t, {"wait", "timedwait"}, "enqueue")
    /\ push(t, "cond") /\ Go(t, "release")
    /\ UNCHANGED <<pending, state, count, rwVars, cur, has>>

cond_signal(t) ==
    /\ At(t, {"signal", "broadcast"}, "pop")
    /\ IF pc[t].op = "signal" THEN pop(t, "cond", "user") ELSE take(t, "cond", "user")
    /\ UNCHANGED <<pending, state, count, rwVars, has>>
-----------------------------------------------------------------------------
\* sem_wait, sem_trywait and sem_post.
sem_wait(t) ==
    /\ At(t, {"sem_wait"} \cup TrySem, "try")
    /\ IF count > 0 THEN count' = count - 1 /\ Return(t, {}, {})
       ELSE Refused(t) /\ UNCHANGED count
    /\ UNCHANGED <<queueVars, pending, state, rwVars, cur>>

sem_recheck(t) ==
    /\ At(t, {"sem_wait"}, "recheck")
    /\ Go(t, IF count = 0 THEN "park" ELSE "try")
    /\ UNCHANGED <<queueVars, pending, state, count, rwVars, cur, has>>

sem_post(t) ==
    /\ At(t, {"sem_post"}, "post")
    /\ count' = count + 1 /\ Go(t, "pop")
    /\ UNCHANGED <<queueVars, pending, state, rwVars, cur, has>>

sem_pop(t) ==
    /\ At(t, {"sem_post"}, "pop") /\ pop(t, "sem", "user")
    /\ UNCHANGED <<pending, state, count, rwVars, has>>
-----------------------------------------------------------------------------
\* RwLock::read_lock and try_read_lock: look, count oneself in, look again.
Reading == {"rdlock", "tryrd"}

read_lock(t) ==
    /\ At(t, Reading, "try")
    /\ IF writer = 0 THEN Go(t, "enter") /\ UNCHANGED has ELSE Refused(t)
    /\ UNCHANGED <<queueVars, pending, state, count, rwVars, cur>>

read_enter(t) ==
    /\ At(t, Reading, "enter")
    /\ readers' = readers + 1 /\ Go(t, "confirm")
    /\ UNCHANGED <<queueVars, pending, state, count, writer, owner, cur, has>>

\* Mutant: the lock is taken without looking at the writer again.
read_trust(t) ==
    /\ At(t, Reading, "confirm") /\ Return(t, {"read"}, {})
    /\ UNCHANGED <<queueVars, pending, state, count, rwVars, cur>>

read_confirm(t) ==
    /\ At(t, Reading, "confirm")
    /\ IF writer = 0 THEN Return(t, {"read"}, {}) ELSE Go(t, "leave") /\ UNCHANGED has
    /\ UNCHANGED <<queueVars, pending, state, count, rwVars, cur>>

read_leave(t) ==
    /\ At(t, Reading, "leave")
    /\ readers' = readers - 1 /\ Refused(t)
    /\ UNCHANGED <<queueVars, pending, state, count, writer, owner, cur>>

read_recheck(t) ==
    /\ At(t, {"rdlock"}, "recheck")
    /\ Go(t, IF writer # 0 THEN "park" ELSE "try")
    /\ UNCHANGED <<queueVars, pending, state, count, rwVars, cur, has>>

\* write_lock and try_write_lock: claim the flag, then look for readers.
Writing == {"wrlock", "trywr"}
write_lock(t) ==
    /\ At(t, Writing, "try")
    /\ IF writer = 0 THEN writer' = 1 /\ Go(t, "confirm") /\ UNCHANGED has
       ELSE Refused(t) /\ UNCHANGED writer
    /\ UNCHANGED <<queueVars, pending, state, count, readers, owner, cur>>

write_confirm(t) ==
    /\ At(t, Writing, "confirm")
    /\ IF readers = 0 THEN owner' = t /\ Return(t, {"write"}, {}) /\ UNCHANGED writer
       ELSE writer' = 0 /\ Go(t, "give") /\ UNCHANGED <<owner, has>>
    /\ UNCHANGED <<queueVars, pending, state, count, readers, cur>>

write_give(t) ==
    /\ At(t, Writing, "give")
    /\ take(t, "rw", IF pc[t].op = "trywr" THEN "user" ELSE "push")
    /\ UNCHANGED <<pending, state, count, rwVars, has>>

write_recheck(t) ==
    /\ At(t, {"wrlock"}, "recheck")
    /\ Go(t, IF writer # 0 \/ readers # 0 THEN "park" ELSE "try")
    /\ UNCHANGED <<queueVars, pending, state, count, rwVars, cur, has>>

\* RwLock::unlock: the owner is a writer, anybody else a reader.
rw_unlock(t) ==
    /\ At(t, {"rwunlock"}, "release")
    /\ IF owner = t /\ writer = 1 THEN owner' = Nil /\ writer' = 0 /\ UNCHANGED readers
       ELSE readers' = readers - 1 /\ UNCHANGED <<owner, writer>>
    /\ has' = [has EXCEPT ![t] = @ \ {"read", "write"}]
    /\ Go(t, "give")
    /\ UNCHANGED <<queueVars, pending, state, count, cur>>

rw_wake(t) ==
    /\ At(t, {"rwunlock"}, "give") /\ take(t, "rw", "user")
    /\ UNCHANGED <<pending, state, count, rwVars, has>>
-----------------------------------------------------------------------------
\* A program calls what it may: it unlocks and waits with what it holds, and
\* does not take a lock it has.
First(op) == CASE op \in {"unlock", "rwunlock"} -> "release"
               [] op \in {"wait", "timedwait"} -> "enqueue"
               [] op \in {"signal", "broadcast"} -> "pop"
               [] op = "sem_post" -> "post"
               [] OTHER -> "try"

Call(t, op) ==
    /\ pc[t] = User
    /\ CASE op \in {"lock", "trylock"} -> "mutex" \notin has[t]
         [] op \in Releasing -> "mutex" \in has[t]
         [] op \in Reading \cup Writing -> has[t] \cap {"read", "write"} = {}
         [] op = "rwunlock" -> has[t] \cap {"read", "write"} # {}
         [] op = "sem_post" -> count < MaxPending
         [] OTHER -> TRUE
    /\ pc' = [pc EXCEPT ![t] = [op |-> op, at |-> First(op), then |-> "user"]]
    /\ UNCHANGED <<queueVars, pending, state, count, rwVars, cur, has>>

Run(t) ==
    \/ lock(t) \/ lock_recheck(t) \/ unlock(t) \/ unlock_pop(t)
    \/ cond_wait(t) \/ cond_signal(t)
    \/ sem_wait(t) \/ sem_recheck(t) \/ sem_post(t) \/ sem_pop(t)
    \/ read_lock(t) \/ read_enter(t) \/ read_confirm(t) \/ read_leave(t) \/ read_recheck(t)
    \/ write_lock(t) \/ write_confirm(t) \/ write_give(t) \/ write_recheck(t)
    \/ rw_unlock(t) \/ rw_wake(t)
    \/ Enqueue(t) \/ unpark(t) \/ Woken(t) \/ park(t)

Sync(ops) == \E t \in Workers : Run(t) \/ \E op \in ops : Call(t, op)
SyncNext == Sync(Ops)

SyncSpec == SyncInit /\ [][SyncNext]_syncVars
-----------------------------------------------------------------------------
\* A writer is alone and never beside a reader: a reader that saw no writer
\* and a writer that saw no readers cannot both have been right.  A mutex has
\* one owner, also after a condition variable gave it back.
LocksExclude ==
    \A t, u \in Workers : t # u =>
        /\ "write" \in has[t] => has[u] \cap {"read", "write"} = {}
        /\ "mutex" \in has[t] => "mutex" \notin has[u]

\* A thread asleep on a lock that is free has a wake-up on its way: a signal
\* counted, a thread about to unpark somebody, or one that will unlock.  If
\* not, it sleeps on a free lock (Mutex::lock: "an unlock that happens in the
\* window between the check and the park still finds us and signals").
Asleep(t, ops) == At(t, ops, "park") /\ pending[t] = 0
Free(t) == \/ pc[t].op = "lock" /\ state = 0
           \/ pc[t].op = "sem_wait" /\ count > 0
           \/ pc[t].op = "rdlock" /\ writer = 0
           \/ pc[t].op = "wrlock" /\ writer = 0 /\ readers = 0
Quiet == \A t \in Workers : pc[t] = User \/ (pc[t].at = "park" /\ pending[t] = 0)
NoSleepOnFree ==
    Quiet => \A t \in Workers : Asleep(t, {"lock", "sem_wait", "rdlock", "wrlock"}) => ~Free(t)

(***************************************************************************)
(* The inductive invariant behind LocksExclude: what a call in progress    *)
(* needs is held, a lock word says who is inside, and the readers counted  *)
(* are those who hold the lock or have yet to look at the writer again.    *)
(***************************************************************************)
CallFits ==
    \A t \in Workers :
        /\ pc[t].op \in Reading \cup Writing => has[t] \cap {"read", "write"} = {}
        /\ At(t, {"rwunlock"}, "release") => has[t] \cap {"read", "write"} # {}
        /\ pc[t].op \in Releasing /\ pc[t].at \in {"enqueue", "release"} => "mutex" \in has[t]
        /\ ~({"read", "write"} \subseteq has[t])

\* The mutex is t's, or will be once t has woken the others.
Owns(t) == "mutex" \in has[t] \/ (pc[t].at \in {"wake", "wakeone"} /\ pc[t].then = "locked")
OneOwner == \A t \in Workers : Owns(t) => state = 1 /\ \A u \in Workers : Owns(u) => t = u

Claims(t) == "write" \in has[t] \/ At(t, Writing, "confirm")
OneWriter ==
    /\ \A t \in Workers : Claims(t) => writer = 1 /\ \A u \in Workers : Claims(u) => t = u
    /\ \A t \in Workers : "write" \in has[t] <=> owner = t
    /\ \A t, u \in Workers : "write" \in has[t] => "read" \notin has[u]

Counted(t) == "read" \in has[t] \/ At(t, Reading, "confirm") \/ At(t, Reading, "leave")
ReadersCounted == readers = Cardinality({t \in Workers : Counted(t)})

LocksInv == LocksTypeOK /\ CallFits /\ OneOwner /\ OneWriter /\ ReadersCounted
=============================================================================
