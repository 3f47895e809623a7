---------------------------- MODULE ThreadLife ----------------------------
(***************************************************************************)
(* The life of a thread in the C library (crates/staros-libc/src/          *)
(* thread.rs): a parker slot from the pool of init, pthread_create, the    *)
(* exit lists, pthread_join, pthread_detach, and pthread_once.             *)
(*                                                                         *)
(* th[t].at is where thread t is:                                          *)
(*   none, run                                                             *)
(*   dtors, keys   run_thread_exit: thread_locals, then pthread keys       *)
(*   publish, joiner, slot   the end of thread_entry, a store each         *)
(*   check, park   in pthread_join on th[t].on                             *)
(*   once          waiting in pthread_once for another thread's routine    *)
(*   routine       running it                                              *)
(*   gone                                                                  *)
(***************************************************************************)
EXTENDS Integers, FiniteSets

CONSTANTS
    Threads,       \* every thread the program may create, and Main
    Main,
    MAX_THREADS,   \* parkers in the pool
    MAX_TLS_DTORS, \* thread_local destructors a thread may have pending
    ROUNDS,        \* sweeps over the keys at exit
    MaxStray       \* bound: signals other locks left on a parker

NoThread == "none"
ASSUME LifeAssumption == Main \in Threads /\ NoThread \notin Threads /\ MAX_THREADS \in Nat \ {0}
                         /\ MAX_TLS_DTORS \in Nat

VARIABLES
    slots,      \* SLOTS: the parkers taken
    th,         \* the control blocks
    signal,     \* signal[t]: counted on the parker of t
    ctrl        \* the pthread_once_t: 0, 1 running, 2 done; with runs counted

lifeVars == <<slots, th, signal, ctrl>>

Block(at, slot) ==
    [at |-> at, on |-> NoThread, slot |-> slot, finished |-> FALSE, detached |-> FALSE,
     joiner |-> NoThread, joined |-> FALSE, tls |-> 0, late |-> 0, key |-> FALSE, round |-> 0,
     returned |-> FALSE]

\* init: the pool is made and main takes its first parker.
LifeInit ==
    /\ slots = {0}
    /\ th = [t \in Threads |-> IF t = Main THEN Block("run", 0) ELSE Block("none", 0)]
    /\ signal = [t \in Threads |-> 0]
    /\ ctrl = [state |-> 0, runs |-> 0]

Goes(t, here, there) == th[t].at = here /\ th' = [th EXCEPT ![t].at = there]
Signalled(t) == [signal EXCEPT ![t] = IF @ < MaxStray THEN @ + 1 ELSE @]

\* take_slot: the lowest one free.
take_slot == CHOOSE s \in 0..(MAX_THREADS - 1) :
                 s \notin slots /\ \A r \in 0..(s - 1) : r \in slots
-----------------------------------------------------------------------------
\* pthread_create; with no parker, or no thread from the kernel, EAGAIN.
pthread_create(p, t, detached) ==
    /\ th[p].at = "run" /\ th[t].at = "none"
    /\ Cardinality(slots) < MAX_THREADS
    /\ th' = [th EXCEPT ![t] = [Block("run", take_slot) EXCEPT !.detached = detached]]
    /\ slots' = slots \cup {take_slot}
    /\ UNCHANGED <<signal, ctrl>>

\* __cxa_thread_atexit and pthread_setspecific, while a thread runs or from
\* one of its own thread_local destructors; with no room, refused.  tls counts
\* what is pending: which entry that is, the last, nothing here tells apart.
Registering(t) ==
    /\ th[t].at \in {"run", "dtors"} /\ t # Main
    /\ \/ th[t].tls + th[t].late < MAX_TLS_DTORS /\ th' = [th EXCEPT ![t].tls = @ + 1]
       \/ ~th[t].key /\ th' = [th EXCEPT ![t].key = TRUE]
    /\ UNCHANGED <<slots, signal, ctrl>>

\* The start routine returns, or pthread_exit: that one skips the slot.
Ends(t, returned) ==
    /\ th[t].at = "run" /\ t # Main
    /\ th' = [th EXCEPT ![t].at = "dtors", ![t].returned = returned]
    /\ UNCHANGED <<slots, signal, ctrl>>

\* run_thread_exit: destructors until none is registered, whatever each one
\* registers; then sweeps over the keys while one had a destructor.  A key's
\* destructor may set the key again, and construct thread_locals: nothing
\* looks at the list again, and what it registers is late.

\* Mutant: an if in the place of the loop.
run_dtors_once(t) ==
    /\ th[t].at = "dtors"
    /\ th' = [th EXCEPT ![t].at = "keys", ![t].tls = IF @ = 0 THEN 0 ELSE @ - 1]
    /\ UNCHANGED <<slots, signal, ctrl>>

run_dtors(t) ==
    /\ th[t].at = "dtors"
    /\ th' = [th EXCEPT ![t] = IF @.tls = 0 THEN [@ EXCEPT !.at = "keys"]
                                ELSE [@ EXCEPT !.tls = th[t].tls - 1]]
    /\ UNCHANGED <<slots, signal, ctrl>>

run_keys(t, again, registers) ==
    /\ th[t].at = "keys"
    /\ th[t].tls + th[t].late + registers <= MAX_TLS_DTORS
    /\ th' = [th EXCEPT ![t] =
                IF @.key /\ @.round < ROUNDS
                THEN [@ EXCEPT !.key = again, !.round = th[t].round + 1,
                               !.late = th[t].late + registers]
                ELSE [@ EXCEPT !.at = "publish"]]
    /\ UNCHANGED <<slots, signal, ctrl>>

\* thread_entry and pthread_exit: finished, then the joiner, then the slot.
publish(t) ==
    /\ th[t].at = "publish"
    /\ th' = [th EXCEPT ![t].at = "joiner", ![t].finished = TRUE]
    /\ UNCHANGED <<slots, signal, ctrl>>

wake_joiner(t) ==
    /\ Goes(t, "joiner", IF th[t].returned THEN "slot" ELSE "gone")
    /\ signal' = IF th[t].joiner = NoThread THEN signal ELSE Signalled(th[t].joiner)
    /\ UNCHANGED <<slots, ctrl>>

free_slot(t) ==
    /\ Goes(t, "slot", "gone")
    /\ slots' = IF th[t].detached THEN slots \ {th[t].slot} ELSE slots
    /\ UNCHANGED <<signal, ctrl>>
-----------------------------------------------------------------------------
\* pthread_join of a thread nobody joined or detached: register, then look.
pthread_join(p, t) ==
    /\ th[p].at = "run" /\ p # t /\ t # Main
    /\ th[t].at # "none" /\ ~th[t].detached /\ ~th[t].joined
    /\ th' = [th EXCEPT ![p].at = "check", ![p].on = t, ![t].joiner = p, ![t].joined = TRUE]
    /\ UNCHANGED <<slots, signal, ctrl>>

\* Mutant: any wake-up is taken for the thread's end.
join_check_once(p) ==
    LET t == th[p].on
    IN  /\ th[p].at = "check"
        /\ IF th[t].finished \/ signal[p] > 0
           THEN /\ th' = [th EXCEPT ![p].at = "run", ![p].on = NoThread]
                /\ slots' = slots \ {th[t].slot}
           ELSE /\ th' = [th EXCEPT ![p].at = "park"] /\ UNCHANGED slots
        /\ UNCHANGED <<signal, ctrl>>

join_check(p) ==
    LET t == th[p].on
    IN  /\ th[p].at = "check"
        /\ IF th[t].finished
           THEN /\ th' = [th EXCEPT ![p].at = "run", ![p].on = NoThread]
                /\ slots' = slots \ {th[t].slot}
           ELSE /\ th' = [th EXCEPT ![p].at = "park"] /\ UNCHANGED slots
        /\ UNCHANGED <<signal, ctrl>>

join_park(p) ==
    /\ Goes(p, "park", "check") /\ signal[p] > 0
    /\ signal' = [signal EXCEPT ![p] = @ - 1]
    /\ UNCHANGED <<slots, ctrl>>

\* A signal left over from a lock (module Threads).
Stray(p) ==
    /\ signal[p] < MaxStray /\ th[p].at \in {"check", "park"}
    /\ signal' = Signalled(p)
    /\ UNCHANGED <<slots, th, ctrl>>

pthread_detach(p, t) ==
    /\ th[p].at = "run" /\ t # Main /\ th[t].at # "none"
    /\ ~th[t].detached /\ ~th[t].joined
    /\ th' = [th EXCEPT ![t].detached = TRUE]
    /\ UNCHANGED <<slots, signal, ctrl>>
-----------------------------------------------------------------------------
\* pthread_once: the first caller runs the routine, the others yield.
pthread_once(t) ==
    /\ th[t].at = "run" /\ t # Main
    /\ IF ctrl.state = 0
       THEN ctrl' = [state |-> 1, runs |-> ctrl.runs + 1] /\ th' = [th EXCEPT ![t].at = "routine"]
       ELSE UNCHANGED ctrl /\ th' = [th EXCEPT ![t].at = "once"]
    /\ UNCHANGED <<slots, signal>>

once_done(t) ==
    /\ \/ Goes(t, "routine", "run") /\ ctrl' = [ctrl EXCEPT !.state = 2]
       \/ Goes(t, "once", "run") /\ ctrl.state = 2 /\ UNCHANGED ctrl
    /\ UNCHANGED <<slots, signal>>

Finishing(t) == \/ run_dtors(t) \/ publish(t) \/ wake_joiner(t) \/ free_slot(t) \/ once_done(t)
                \/ \E again \in BOOLEAN, n \in 0..MAX_TLS_DTORS : run_keys(t, again, n)
Joining(p) == join_check(p) \/ join_park(p)

LifeNext == \E t \in Threads :
    \/ Finishing(t) \/ Joining(t) \/ Stray(t) \/ Registering(t) \/ pthread_once(t)
    \/ \E r \in BOOLEAN : Ends(t, r)
    \/ \E u \in Threads : \/ pthread_join(t, u) \/ pthread_detach(t, u)
                          \/ \E d \in BOOLEAN : pthread_create(t, u, d)

\* Every thread is scheduled; nothing makes a start routine return.
LifeFairness == \A t \in Threads : WF_lifeVars(Finishing(t)) /\ WF_lifeVars(Joining(t))

LifeSpec == LifeInit /\ [][LifeNext]_lifeVars /\ LifeFairness
-----------------------------------------------------------------------------
\* Threads that may still park have parkers of their own: a wake-up meant for
\* one of them is not taken by the other.
MayPark(t) == th[t].at \notin {"none", "publish", "joiner", "slot", "gone"}
ParkersApart ==
    \A t, u \in Threads : t # u /\ MayPark(t) /\ MayPark(u) => th[t].slot # th[u].slot

\* A thread is seen to have finished only when every thread_local destructor
\* registered by the program or by another of them has run: QThread::wait sleeps
\* on what one of them does (run_thread_exit).  What a key's destructor
\* registers runs nowhere: that part of the registration's promise ("runs when
\* the thread ends", __cxa_thread_atexit) the code does not keep.
FinishedIsClean == \A t \in Threads : th[t].finished => th[t].tls = 0

\* A join of a thread that ends returns, however their steps interleave.
JoinReturns ==
    \A p \in Threads :
        (\E t \in Threads : th[p].on = t /\ th[t].finished) ~> th[p].on = NoThread
-----------------------------------------------------------------------------
\* Why they stay apart: a parker is its thread's until the thread's own last
\* step or its joiner gives it back, and only one of the two does.
Blocks ==
    [at : {"none", "run", "dtors", "keys", "publish", "joiner", "slot", "check", "park", "once", "routine", "gone"},
     on : Threads \cup {NoThread}, slot : 0..(MAX_THREADS - 1), finished : BOOLEAN, detached : BOOLEAN,
     joiner : Threads \cup {NoThread}, joined : BOOLEAN, tls : Nat, late : Nat, key : BOOLEAN, round : Nat,
     returned : BOOLEAN]
LifeTypes == slots \subseteq 0..(MAX_THREADS - 1) /\ th \in [Threads -> Blocks]

GivenBack(t) == \/ th[t].detached /\ th[t].returned /\ th[t].at = "gone"
                \/ th[t].joined /\ \A p \in Threads : th[p].on # t
Holds(t) == th[t].at # "none" /\ ~ GivenBack(t)
SlotsHeld == \A t \in Threads : Holds(t) =>
    /\ th[t].slot \in slots
    /\ \A u \in Threads : u # t /\ Holds(u) => th[u].slot # th[t].slot

\* What a thread's place says of its block.
Fits(b) ==
    /\ b.finished => b.at \in {"joiner", "slot", "gone"}
    /\ b.at \in {"keys", "publish", "joiner", "slot", "gone"} => b.tls = 0
    /\ b.at = "slot" => b.returned
    /\ b.at \in {"check", "park"} <=> b.on # NoThread
    /\ b.joined => ~ b.detached /\ b.at # "none"
InPlace == \A t \in Threads : Fits(th[t])

\* A thread is joined by one other, which is on it until it has finished.
OneJoiner ==
    /\ \A p \in Threads : LET t == th[p].on
                          IN  t # NoThread => t # p /\ th[t].joined /\ th[t].joiner = p
    /\ \A t \in Threads : th[t].joined /\ ~ th[t].finished => \E p \in Threads : th[p].on = t

LifeInv == LifeTypes /\ SlotsHeld /\ InPlace /\ OneJoiner
=============================================================================
