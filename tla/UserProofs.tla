---------------------------- MODULE UserProofs ----------------------------
(***************************************************************************)
(* That the locks of the C library exclude, for any number of threads,     *)
(* with interleaved tries, waits, wake-ups, deadlines and stray signals    *)
(* (module Threads); that the threads' parkers stay apart, however threads *)
(* are created, joined, detached and end (module ThreadLife); that no      *)
(* thread sleeps through what a descriptor has for it (module              *)
(* Descriptors); that the screen shows no old pixel and every client has   *)
(* its own windows (module Compositor); that what a program prints and     *)
(* registers is on the console and done when it has left (module Process); *)
(* and that a read gets the bytes of its own file through the shared page  *)
(* and the file server (module Files).                                     *)
(***************************************************************************)
EXTENDS Threads, ThreadLife, Descriptors, Compositor, Process, Files,
        FiniteSetTheorems, SequenceTheorems, WellFoundedInduction, TLAPS

LEMMA InitFits == SyncInit => LocksInv
<1> SUFFICES ASSUME SyncInit PROVE LocksInv
  OBVIOUS
<1> USE DEF SyncInit
<1>1. LocksTypeOK
  <2>1. User \in Place
    BY DEF User, Place, Steps
  <2> QED
    BY <2>1 DEF LocksTypeOK
<1>2. \A t \in Workers : has[t] = {} /\ pc[t] = User
  OBVIOUS
<1>3. CallFits
  BY <1>2 DEF CallFits, User, At, Reading, Writing, Releasing
<1>4. OneOwner /\ OneWriter
  BY <1>2, WorkersAssumption DEF OneOwner, Owns, OneWriter, Claims, User, At, Writing
<1>5. ReadersCounted
  <2>1. {t \in Workers : Counted(t)} = {}
    BY <1>2 DEF Counted, User, At, Reading
  <2> QED
    BY <2>1, FS_EmptySet DEF ReadersCounted
<1> QED
  BY <1>1, <1>3, <1>4, <1>5 DEF LocksInv

Step(t) == Run(t) \/ \E o \in Ops : Call(t, o)

Placed == pc' \in [Workers -> Place]
Holding == has' \in [Workers -> SUBSET {"mutex", "read", "write"}]

\* Where a call that goes on, returns, is refused or is about to wake others is.
LEMMA Places ==
    ASSUME LocksTypeOK, NEW t \in Workers
    PROVE  /\ \A a \in Steps : Go(t, a) => Placed
           /\ \A g \in SUBSET {"mutex", "read", "write"} : \A l : Return(t, g, l) => Placed /\ Holding
           /\ Refused(t) => Placed /\ Holding
           /\ \A q, k : k \in {"user", "locked", "push", "park"} /\ (take(t, q, k) \/ pop(t, q, k)) => Placed
<1>1. User \in Place
  BY DEF User, Place, Steps
<1>2. /\ pc \in [Workers -> Place] /\ pc[t] \in Place
      /\ has \in [Workers -> SUBSET {"mutex", "read", "write"}]
  BY DEF LocksTypeOK
<1>3. \A a \in Steps : Go(t, a) => Placed
  BY <1>2 DEF Place, Go, Placed
<1>4. \A g \in SUBSET {"mutex", "read", "write"} : \A l : Return(t, g, l) => Placed /\ Holding
  BY <1>1, <1>2, Zenon DEF Return, Placed, Holding
<1>5. Refused(t) => Placed /\ Holding
  <2>1. Go(t, "push") /\ UNCHANGED has => Placed /\ Holding
    BY <1>2, <1>3 DEF Holding, Steps
  <2>2. Return(t, {}, {}) => Placed /\ Holding
    BY <1>4
  <2> QED
    BY <2>1, <2>2 DEF Refused
<1>6. \A q, k : k \in {"user", "locked", "push", "park"} /\ (take(t, q, k) \/ pop(t, q, k)) => Placed
  <2>1. \A a \in Steps, k \in {"user", "locked", "push", "park"} :
            [pc EXCEPT ![t].at = a, ![t].then = k] \in [Workers -> Place]
    BY <1>2, Zenon DEF Place
  <2>2. ASSUME NEW q, NEW k \in {"user", "locked", "push", "park"}, take(t, q, k) PROVE Placed
    <3>1. pc' = [pc EXCEPT ![t].at = "wake", ![t].then = k]
      BY <2>2 DEF take
    <3> QED
      BY <3>1, <2>1, Zenon DEF Placed, Steps
  <2>3. ASSUME NEW q, NEW k \in {"user", "locked", "push", "park"}, pop(t, q, k) PROVE Placed
    <3>1. pc' = [pc EXCEPT ![t].at = "wakeone", ![t].then = k]
      BY <2>3 DEF pop
    <3> QED
      BY <3>1, <2>1, Zenon DEF Placed, Steps
  <2> QED
    BY <2>2, <2>3
<1> QED
  BY <1>3, <1>4, <1>5, <1>6

LEMMA TypeStep == ASSUME LocksTypeOK, NEW t \in Workers, Step(t) PROVE LocksTypeOK'
<1> DEFINE Words == /\ state' \in {0, 1} /\ writer' \in {0, 1} /\ readers' \in Int
                    /\ owner' \in Workers \cup {Nil}
<1>0. /\ state \in {0, 1} /\ writer \in {0, 1} /\ readers \in Int /\ owner \in Workers \cup {Nil}
      /\ pc \in [Workers -> Place] /\ has \in [Workers -> SUBSET {"mutex", "read", "write"}]
  BY DEF LocksTypeOK
<1> SUFFICES Words /\ Placed /\ Holding
  BY DEF LocksTypeOK, Placed, Holding
<1>a. UNCHANGED has => Holding
  BY <1>0 DEF Holding
<1>b. /\ \A o \in Ops \cup {"user", "lock"} : [pc EXCEPT ![t].at = "try", ![t].op = o] \in [Workers -> Place]
      /\ pc[t].op \in Ops \cup {"user", "lock"} /\ pc[t].then \in {"user", "locked", "push", "park"}
  <2>1. pc[t] \in Place /\ "try" \in Steps
    BY <1>0 DEF Steps
  <2>2. pc[t].op \in Ops \cup {"user", "lock"} /\ pc[t].then \in {"user", "locked", "push", "park"}
    BY <2>1 DEF Place
  <2>3. ASSUME NEW o \in Ops \cup {"user", "lock"}
        PROVE  [pc EXCEPT ![t].at = "try", ![t].op = o] \in [Workers -> Place]
    <3>1. \A a \in Steps : [pc EXCEPT ![t].at = a, ![t].op = o] \in [Workers -> Place]
      BY <1>0, <2>1, Zenon DEF Place
    <3> QED
      BY <2>1, <3>1
  <2> QED
    BY <2>2, <2>3
<1> USE <1>0, <1>a, Places DEF rwVars, Steps
<1>1. CASE lock(t)
  BY <1>1 DEF lock
<1>2. CASE lock_recheck(t)
  BY <1>2 DEF lock_recheck
<1>3. CASE unlock(t)
  BY <1>3 DEF unlock, Holding
<1>4. CASE unlock_pop(t)
  BY <1>4 DEF unlock_pop
<1>5. CASE cond_wait(t)
  BY <1>5 DEF cond_wait
<1>6. CASE cond_signal(t)
  BY <1>6 DEF cond_signal
<1>7. CASE sem_wait(t)
  BY <1>7 DEF sem_wait
<1>8. CASE sem_recheck(t)
  BY <1>8 DEF sem_recheck
<1>9. CASE sem_post(t)
  BY <1>9 DEF sem_post
<1>10. CASE sem_pop(t)
  BY <1>10 DEF sem_pop
<1>11. CASE read_lock(t)
  BY <1>11 DEF read_lock
<1>12. CASE read_enter(t)
  BY <1>12 DEF read_enter
<1>13. CASE read_confirm(t)
  BY <1>13 DEF read_confirm
<1>14. CASE read_leave(t)
  BY <1>14 DEF read_leave
<1>15. CASE read_recheck(t)
  BY <1>15 DEF read_recheck
<1>16. CASE write_lock(t)
  BY <1>16 DEF write_lock
<1>17. CASE write_confirm(t)
  BY <1>17 DEF write_confirm
<1>18. CASE write_give(t)
  BY <1>18 DEF write_give
<1>19. CASE write_recheck(t)
  BY <1>19 DEF write_recheck
<1>20. CASE rw_unlock(t)
  BY <1>20 DEF rw_unlock, Holding
<1>21. CASE rw_wake(t)
  BY <1>21 DEF rw_wake
<1>22. CASE Enqueue(t)
  BY <1>22 DEF Enqueue
<1>23. CASE unpark(t)
  BY <1>23 DEF unpark, Placed
<1>24. CASE Woken(t)
  BY <1>24, <1>b, Zenon DEF Woken
<1>25. CASE park(t)
  BY <1>25, <1>b, Zenon DEF park, Placed
<1>26. ASSUME NEW o \in Ops, Call(t, o) PROVE Words /\ Placed /\ Holding
  <2>1. First(o) \in Steps
    BY DEF First
  <2>2. [op |-> o, at |-> First(o), then |-> "user"] \in Place
    BY <2>1 DEF Place
  <2> QED
    BY <1>26, <2>2 DEF Call, Placed
<1> QED
  BY <1>1, <1>2, <1>3, <1>4, <1>5, <1>6, <1>7, <1>8, <1>9, <1>10, <1>11, <1>12, <1>13, <1>14, <1>15, <1>16,
     <1>17, <1>18, <1>19, <1>20, <1>21, <1>22, <1>23, <1>24, <1>25, <1>26 DEF Step, Run

\* What a step says of the one who takes it, and that it says nothing of others.
Moves(t, a) == /\ pc'[t].op = pc[t].op /\ pc'[t].at = a /\ pc'[t].then = pc[t].then
               /\ \A u \in Workers : u # t => pc'[u] = pc[u]
WakesFrom(t, k) == /\ pc'[t].op = pc[t].op /\ pc'[t].at \in {"wake", "wakeone"} /\ pc'[t].then = k
               /\ \A u \in Workers : u # t => pc'[u] = pc[u]
Leaves(t, g, l) == /\ pc'[t].op = "user" /\ pc'[t].at = "user" /\ pc'[t].then = "user"
                   /\ has'[t] = (has[t] \cup g) \ l
                   /\ \A u \in Workers : u # t => pc'[u] = pc[u] /\ has'[u] = has[u]

LEMMA Moved ==
    ASSUME LocksTypeOK, NEW t \in Workers
    PROVE  /\ \A a : Go(t, a) => Moves(t, a)
           /\ \A g, l : Return(t, g, l) => Leaves(t, g, l)
           /\ \A q, k : take(t, q, k) \/ pop(t, q, k) => WakesFrom(t, k)
<1>0. /\ pc \in [Workers -> Place] /\ pc[t] \in Place
      /\ has \in [Workers -> SUBSET {"mutex", "read", "write"}]
  BY DEF LocksTypeOK
<1>1. \A a : Go(t, a) => Moves(t, a)
  BY <1>0 DEF Go, Moves, Place
<1>2. \A g, l : Return(t, g, l) => Leaves(t, g, l)
  BY <1>0 DEF Return, Leaves, User
<1>3. ASSUME NEW q, NEW k, take(t, q, k) PROVE WakesFrom(t, k)
  <2>1. pc' = [pc EXCEPT ![t].at = "wake", ![t].then = k]
    BY <1>3 DEF take
  <2> QED
    BY <1>0, <2>1 DEF WakesFrom, Place
<1>4. ASSUME NEW q, NEW k, pop(t, q, k) PROVE WakesFrom(t, k)
  <2>1. pc' = [pc EXCEPT ![t].at = "wakeone", ![t].then = k]
    BY <1>4 DEF pop
  <2> QED
    BY <1>0, <2>1 DEF WakesFrom, Place
<1> QED
  BY <1>1, <1>2, <1>3, <1>4

\* A mutex is taken when its word is 0, and kept or handed on while it is 1.
LEMMA OneOwnerStep ==
    ASSUME LocksTypeOK, CallFits, OneOwner, NEW t \in Workers, Step(t)
    PROVE  OneOwner'
<1> USE Moved DEF Moves, Leaves, WakesFrom, rwVars, OneOwner, Owns, CallFits, At, Releasing
<1>0. /\ state \in {0, 1} /\ writer \in {0, 1} /\ pc \in [Workers -> Place]
      /\ has \in [Workers -> SUBSET {"mutex", "read", "write"}]
  BY DEF LocksTypeOK
<1>1. CASE lock(t)
  BY <1>0, <1>1 DEF lock, Refused
<1>2. CASE lock_recheck(t)
  BY <1>0, <1>2 DEF lock_recheck
<1>3. CASE unlock(t)
  BY <1>0, <1>3 DEF unlock, Releasing
<1>4. CASE unlock_pop(t)
  BY <1>0, <1>4 DEF unlock_pop
<1>5. CASE cond_wait(t)
  BY <1>0, <1>5 DEF cond_wait
<1>6. CASE cond_signal(t)
  BY <1>0, <1>6 DEF cond_signal
<1>7. CASE sem_wait(t)
  BY <1>0, <1>7 DEF sem_wait, Refused
<1>8. CASE sem_recheck(t)
  BY <1>0, <1>8 DEF sem_recheck
<1>9. CASE sem_post(t)
  BY <1>0, <1>9 DEF sem_post
<1>10. CASE sem_pop(t)
  BY <1>0, <1>10 DEF sem_pop
<1>11. CASE read_lock(t)
  BY <1>0, <1>11 DEF read_lock, Refused
<1>12. CASE read_enter(t)
  BY <1>0, <1>12 DEF read_enter
<1>13. CASE read_confirm(t)
  BY <1>0, <1>13 DEF read_confirm
<1>14. CASE read_leave(t)
  BY <1>0, <1>14 DEF read_leave, Refused
<1>15. CASE read_recheck(t)
  BY <1>0, <1>15 DEF read_recheck
<1>16. CASE write_lock(t)
  BY <1>0, <1>16 DEF write_lock, Refused
<1>17. CASE write_confirm(t)
  BY <1>0, <1>17 DEF write_confirm
<1>18. CASE write_give(t)
  BY <1>0, <1>18 DEF write_give
<1>19. CASE write_recheck(t)
  BY <1>0, <1>19 DEF write_recheck
<1>20. CASE rw_unlock(t)
  BY <1>0, <1>20 DEF rw_unlock
<1>21. CASE rw_wake(t)
  BY <1>0, <1>21 DEF rw_wake
<1>22. CASE Enqueue(t)
  BY <1>0, <1>22 DEF Enqueue
<1>23. CASE unpark(t)
  BY <1>0, <1>23 DEF unpark
<1>24. CASE Woken(t)
  BY <1>0, <1>24 DEF Woken
<1>25. CASE park(t)
  BY <1>0, <1>25 DEF park
<1>26. ASSUME NEW o \in Ops, Call(t, o) PROVE OneOwner'
  BY <1>0, <1>26 DEF Call, First
<1> QED
  BY <1>1, <1>2, <1>3, <1>4, <1>5, <1>6, <1>7, <1>8, <1>9, <1>10, <1>11, <1>12, <1>13, <1>14, <1>15, <1>16,
     <1>17, <1>18, <1>19, <1>20, <1>21, <1>22, <1>23, <1>24, <1>25, <1>26 DEF Step, Run

\* A call holds what it needs until it gives it up.
LEMMA CallFitsStep ==
    ASSUME LocksTypeOK, CallFits, OneWriter, NEW t \in Workers, Step(t)
    PROVE  CallFits'
<1> USE Moved DEF Moves, Leaves, WakesFrom, rwVars, CallFits, OneWriter, Claims, At, Releasing, Reading, Writing
<1>0. /\ state \in {0, 1} /\ writer \in {0, 1} /\ pc \in [Workers -> Place]
      /\ has \in [Workers -> SUBSET {"mutex", "read", "write"}]
  BY DEF LocksTypeOK
<1>1. CASE lock(t)
  BY <1>0, <1>1 DEF lock, Refused
<1>2. CASE lock_recheck(t)
  BY <1>0, <1>2 DEF lock_recheck
<1>3. CASE unlock(t)
  BY <1>0, <1>3 DEF unlock, Releasing
<1>4. CASE unlock_pop(t)
  BY <1>0, <1>4 DEF unlock_pop
<1>5. CASE cond_wait(t)
  BY <1>0, <1>5 DEF cond_wait
<1>6. CASE cond_signal(t)
  BY <1>0, <1>6 DEF cond_signal
<1>7. CASE sem_wait(t)
  BY <1>0, <1>7 DEF sem_wait, Refused
<1>8. CASE sem_recheck(t)
  BY <1>0, <1>8 DEF sem_recheck
<1>9. CASE sem_post(t)
  BY <1>0, <1>9 DEF sem_post
<1>10. CASE sem_pop(t)
  BY <1>0, <1>10 DEF sem_pop
<1>11. CASE read_lock(t)
  BY <1>0, <1>11 DEF read_lock, Refused
<1>12. CASE read_enter(t)
  BY <1>0, <1>12 DEF read_enter
<1>13. CASE read_confirm(t)
  BY <1>0, <1>13 DEF read_confirm
<1>14. CASE read_leave(t)
  BY <1>0, <1>14 DEF read_leave, Refused
<1>15. CASE read_recheck(t)
  BY <1>0, <1>15 DEF read_recheck
<1>16. CASE write_lock(t)
  BY <1>0, <1>16 DEF write_lock, Refused
<1>17. CASE write_confirm(t)
  BY <1>0, <1>17 DEF write_confirm
<1>18. CASE write_give(t)
  BY <1>0, <1>18 DEF write_give
<1>19. CASE write_recheck(t)
  BY <1>0, <1>19 DEF write_recheck
<1>20. CASE rw_unlock(t)
  BY <1>0, <1>20 DEF rw_unlock
<1>21. CASE rw_wake(t)
  BY <1>0, <1>21 DEF rw_wake
<1>22. CASE Enqueue(t)
  BY <1>0, <1>22 DEF Enqueue
<1>23. CASE unpark(t)
  BY <1>0, <1>23 DEF unpark
<1>24. CASE Woken(t)
  <2>1. pc[t].then \in {"user", "locked", "push", "park"}
    BY <1>0 DEF Place
  <2> QED
    BY <1>0, <1>24, <2>1 DEF Woken
<1>25. CASE park(t)
  BY <1>0, <1>25 DEF park
<1>26. ASSUME NEW o \in Ops, Call(t, o) PROVE CallFits'
  BY <1>0, <1>26 DEF Call, First
<1> QED
  BY <1>1, <1>2, <1>3, <1>4, <1>5, <1>6, <1>7, <1>8, <1>9, <1>10, <1>11, <1>12, <1>13, <1>14, <1>15, <1>16,
     <1>17, <1>18, <1>19, <1>20, <1>21, <1>22, <1>23, <1>24, <1>25, <1>26 DEF Step, Run

\* A writer claims the word before it looks for readers, a reader looks for a
\* writer after it has counted itself in.
LEMMA OneWriterStep ==
    ASSUME LocksTypeOK, CallFits, OneWriter, ReadersCounted, NEW t \in Workers, Step(t)
    PROVE  OneWriter'
<1> USE Moved DEF Moves, Leaves, WakesFrom, rwVars, OneWriter, Claims, CallFits, At, Reading, Writing, Nil
<1>0. /\ state \in {0, 1} /\ writer \in {0, 1} /\ pc \in [Workers -> Place]
      /\ has \in [Workers -> SUBSET {"mutex", "read", "write"}]
  BY DEF LocksTypeOK
<1>r. readers = 0 => \A u \in Workers : "read" \notin has[u]
  <2>1. IsFiniteSet({u \in Workers : Counted(u)})
    BY FS_Subset, WorkersAssumption
  <2>2. readers = 0 => {u \in Workers : Counted(u)} = {}
    BY <2>1, FS_EmptySet, Zenon DEF ReadersCounted
  <2> QED
    BY <2>2 DEF Counted
<1>1. CASE lock(t)
  BY <1>0, <1>1 DEF lock, Refused
<1>2. CASE lock_recheck(t)
  BY <1>0, <1>2 DEF lock_recheck
<1>3. CASE unlock(t)
  BY <1>0, <1>3 DEF unlock, Releasing
<1>4. CASE unlock_pop(t)
  BY <1>0, <1>4 DEF unlock_pop
<1>5. CASE cond_wait(t)
  BY <1>0, <1>5 DEF cond_wait
<1>6. CASE cond_signal(t)
  BY <1>0, <1>6 DEF cond_signal
<1>7. CASE sem_wait(t)
  BY <1>0, <1>7 DEF sem_wait, Refused
<1>8. CASE sem_recheck(t)
  BY <1>0, <1>8 DEF sem_recheck
<1>9. CASE sem_post(t)
  BY <1>0, <1>9 DEF sem_post
<1>10. CASE sem_pop(t)
  BY <1>0, <1>10 DEF sem_pop
<1>11. CASE read_lock(t)
  BY <1>0, <1>11 DEF read_lock, Refused
<1>12. CASE read_enter(t)
  BY <1>0, <1>12 DEF read_enter
<1>13. CASE read_confirm(t)
  BY <1>0, <1>13 DEF read_confirm
<1>14. CASE read_leave(t)
  BY <1>0, <1>14 DEF read_leave, Refused
<1>15. CASE read_recheck(t)
  BY <1>0, <1>15 DEF read_recheck
<1>16. CASE write_lock(t)
  BY <1>0, <1>16 DEF write_lock, Refused
<1>17. CASE write_confirm(t)
  BY <1>0, <1>r, <1>17 DEF write_confirm
<1>18. CASE write_give(t)
  BY <1>0, <1>18 DEF write_give
<1>19. CASE write_recheck(t)
  BY <1>0, <1>19 DEF write_recheck
<1>20. CASE rw_unlock(t)
  <2>1. has'[t] = has[t] \ {"read", "write"} /\ \A u \in Workers : u # t => has'[u] = has[u]
    BY <1>0, <1>20 DEF rw_unlock
  <2>2. CASE owner = t
    BY <1>0, <1>20, <2>1, <2>2, WorkersAssumption DEF rw_unlock
  <2>3. CASE owner # t
    BY <1>0, <1>20, <2>1, <2>3 DEF rw_unlock
  <2> QED
    BY <2>2, <2>3
<1>21. CASE rw_wake(t)
  BY <1>0, <1>21 DEF rw_wake
<1>22. CASE Enqueue(t)
  BY <1>0, <1>22 DEF Enqueue
<1>23. CASE unpark(t)
  BY <1>0, <1>23 DEF unpark
<1>24. CASE Woken(t)
  <2>1. pc[t].then \in {"user", "locked", "push", "park"}
    BY <1>0 DEF Place
  <2> QED
    BY <1>0, <1>24, <2>1 DEF Woken
<1>25. CASE park(t)
  BY <1>0, <1>25 DEF park
<1>26. ASSUME NEW o \in Ops, Call(t, o) PROVE OneWriter'
  BY <1>0, <1>26 DEF Call, First
<1> QED
  BY <1>1, <1>2, <1>3, <1>4, <1>5, <1>6, <1>7, <1>8, <1>9, <1>10, <1>11, <1>12, <1>13, <1>14, <1>15, <1>16,
     <1>17, <1>18, <1>19, <1>20, <1>21, <1>22, <1>23, <1>24, <1>25, <1>26 DEF Step, Run
\* A reader counts itself in once and out once.
LEMMA CountStep ==
    ASSUME LocksTypeOK, CallFits, OneWriter, ReadersCounted, NEW t \in Workers, Step(t)
    PROVE  ReadersCounted'
<1> USE Moved DEF Moves, Leaves, WakesFrom, rwVars, OneWriter, Claims, CallFits, Counted, At, Reading, Writing
<1>0. /\ state \in {0, 1} /\ writer \in {0, 1} /\ pc \in [Workers -> Place]
      /\ has \in [Workers -> SUBSET {"mutex", "read", "write"}]
  BY DEF LocksTypeOK
<1> DEFINE Set == {u \in Workers : Counted(u)}
             Next == {u \in Workers : Counted(u)'}
<1>f. IsFiniteSet(Set) /\ readers = Cardinality(Set)
  BY FS_Subset, WorkersAssumption DEF ReadersCounted
<1>s. (readers' = readers /\ \A u \in Workers : Counted(u)' <=> Counted(u)) => ReadersCounted'
  <2>1. (\A u \in Workers : Counted(u)' <=> Counted(u)) => Next = Set
    OBVIOUS
  <2> QED
    BY <2>1, <1>f, Zenon DEF ReadersCounted
<1>a. (readers' = readers + 1 /\ ~Counted(t) /\ Counted(t)' /\ \A u \in Workers \ {t} : Counted(u)' <=> Counted(u))
        => ReadersCounted'
  <2>1. Counted(t)' /\ (\A u \in Workers \ {t} : Counted(u)' <=> Counted(u)) => Next = Set \cup {t}
    OBVIOUS
  <2>2. ~Counted(t) => Cardinality(Set \cup {t}) = Cardinality(Set) + 1
    BY <1>f, FS_AddElement, ZenonT(30)
  <2> QED
    BY <2>1, <2>2, <1>f, Zenon DEF ReadersCounted
<1>b. (readers' = readers - 1 /\ Counted(t) /\ ~Counted(t)' /\ \A u \in Workers \ {t} : Counted(u)' <=> Counted(u))
        => ReadersCounted'
  <2>1. ~Counted(t)' /\ (\A u \in Workers \ {t} : Counted(u)' <=> Counted(u)) => Next = Set \ {t}
    OBVIOUS
  <2>2. t \in Set => Cardinality(Set \ {t}) = Cardinality(Set) - 1
    BY <1>f, FS_RemoveElement, Zenon
  <2>3. Counted(t) => t \in Set
    OBVIOUS
  <2> QED
    BY <2>1, <2>2, <2>3, <1>f, ZenonT(30) DEF ReadersCounted
<1> HIDE DEF Set, Next
<1>1. CASE lock(t)
  BY <1>0, <1>s, <1>1 DEF lock, Refused
<1>2. CASE lock_recheck(t)
  BY <1>0, <1>s, <1>2 DEF lock_recheck
<1>3. CASE unlock(t)
  BY <1>0, <1>s, <1>3 DEF unlock, Releasing
<1>4. CASE unlock_pop(t)
  BY <1>0, <1>s, <1>4 DEF unlock_pop
<1>5. CASE cond_wait(t)
  BY <1>0, <1>s, <1>5 DEF cond_wait
<1>6. CASE cond_signal(t)
  BY <1>0, <1>s, <1>6 DEF cond_signal
<1>7. CASE sem_wait(t)
  BY <1>0, <1>s, <1>7 DEF sem_wait, Refused
<1>8. CASE sem_recheck(t)
  BY <1>0, <1>s, <1>8 DEF sem_recheck
<1>9. CASE sem_post(t)
  BY <1>0, <1>s, <1>9 DEF sem_post
<1>10. CASE sem_pop(t)
  BY <1>0, <1>s, <1>10 DEF sem_pop
<1>11. CASE read_lock(t)
  BY <1>0, <1>s, <1>11 DEF read_lock, Refused
<1>12. CASE read_enter(t)
  BY <1>0, <1>a, <1>12 DEF read_enter
<1>13. CASE read_confirm(t)
  BY <1>0, <1>s, <1>13 DEF read_confirm
<1>14. CASE read_leave(t)
  BY <1>0, <1>b, <1>14 DEF read_leave, Refused
<1>15. CASE read_recheck(t)
  BY <1>0, <1>s, <1>15 DEF read_recheck
<1>16. CASE write_lock(t)
  BY <1>0, <1>s, <1>16 DEF write_lock, Refused
<1>17. CASE write_confirm(t)
  BY <1>0, <1>s, <1>17 DEF write_confirm
<1>18. CASE write_give(t)
  BY <1>0, <1>s, <1>18 DEF write_give
<1>19. CASE write_recheck(t)
  BY <1>0, <1>s, <1>19 DEF write_recheck
<1>20. CASE rw_unlock(t)
  <2>1. has'[t] = has[t] \ {"read", "write"} /\ \A u \in Workers : u # t => has'[u] = has[u]
    BY <1>0, <1>20 DEF rw_unlock
  <2>2. CASE owner = t
    BY <1>0, <1>s, <1>20, <2>1, <2>2 DEF rw_unlock
  <2>3. CASE owner # t
    BY <1>0, <1>b, <1>20, <2>1, <2>3 DEF rw_unlock
  <2> QED
    BY <2>2, <2>3
<1>21. CASE rw_wake(t)
  BY <1>0, <1>s, <1>21 DEF rw_wake
<1>22. CASE Enqueue(t)
  BY <1>0, <1>s, <1>22 DEF Enqueue
<1>23. CASE unpark(t)
  BY <1>0, <1>s, <1>23 DEF unpark
<1>24. CASE Woken(t)
  <2>1. pc[t].then \in {"user", "locked", "push", "park"}
    BY <1>0 DEF Place
  <2> QED
    BY <1>0, <1>s, <1>24, <2>1 DEF Woken
<1>25. CASE park(t)
  BY <1>0, <1>s, <1>25 DEF park
<1>26. ASSUME NEW o \in Ops, Call(t, o) PROVE ReadersCounted'
  <2>1. Counted(t)' <=> Counted(t)
    BY <1>0, <1>26 DEF Call, First, User
  <2>2. readers' = readers /\ \A u \in Workers : u # t => (Counted(u)' <=> Counted(u))
    BY <1>0, <1>26 DEF Call
  <2> QED
    BY <1>s, <2>1, <2>2
<1> QED
  BY <1>1, <1>2, <1>3, <1>4, <1>5, <1>6, <1>7, <1>8, <1>9, <1>10, <1>11, <1>12, <1>13, <1>14, <1>15, <1>16,
     <1>17, <1>18, <1>19, <1>20, <1>21, <1>22, <1>23, <1>24, <1>25, <1>26 DEF Step, Run


LEMMA Inductive == LocksInv /\ [SyncNext]_syncVars => LocksInv'
<1> SUFFICES ASSUME LocksInv, [SyncNext]_syncVars PROVE LocksInv'
  OBVIOUS
<1>0. LocksTypeOK /\ CallFits /\ OneOwner /\ OneWriter /\ ReadersCounted
  BY DEF LocksInv
<1>1. ASSUME NEW t \in Workers, Step(t) PROVE LocksInv'
  BY <1>0, <1>1, TypeStep, CallFitsStep, OneOwnerStep, OneWriterStep, CountStep DEF LocksInv
<1>2. CASE UNCHANGED syncVars
  <2>1. UNCHANGED <<state, readers, writer, owner, pc, has>>
    BY <1>2 DEF syncVars, rwVars
  <2> QED
    BY <1>0, <2>1 DEF LocksInv, LocksTypeOK, CallFits, OneOwner, Owns, OneWriter, Claims, ReadersCounted, Counted, At
<1> QED
  BY <1>1, <1>2 DEF SyncNext, Sync, Step

\* The locks of thread.rs: what each word says of the threads inside holds
\* whatever they call and however their operations interleave.
THEOREM LocksHold == SyncSpec => []LocksInv
<1> QED
  BY InitFits, Inductive, PTL DEF SyncSpec

\* A writer is alone and never beside a reader, a mutex has one owner
\* (Mutex::lock, RwLock::read_lock and write_lock), for any number of threads.
THEOREM LocksSafe == SyncSpec => []LocksExclude
<1>1. LocksInv => LocksExclude
  BY DEF LocksInv, LocksTypeOK, LocksExclude, OneOwner, Owns, OneWriter, Claims
<1> QED
  BY LocksHold, <1>1, PTL
-----------------------------------------------------------------------------
(* Parkers *)

\* Where a thread's parker can be lost to it.
Same(b, c) == b.slot = c.slot /\ b.on = c.on /\ b.detached = c.detached /\ b.joiner = c.joiner /\ b.joined = c.joined

\* A step of a thread's own: it moves on in its life, and leaves its parker,
\* its joiner and what it is joining alone.
LEMMA MovesAlong ==
    ASSUME LifeInv, NEW t \in Threads, NEW b \in Blocks,
           th' = [th EXCEPT ![t] = b], UNCHANGED slots,
           Same(b, th[t]), Fits(b), th[t].at \notin {"none", "gone"}, th[t].finished => b.finished
    PROVE  LifeInv'
<1>1. th \in [Threads -> Blocks] /\ slots \subseteq 0..(MAX_THREADS - 1)
  BY DEF LifeInv, LifeTypes
<1>2. th' \in [Threads -> Blocks] /\ th'[t] = b /\ \A u \in Threads : u # t => th'[u] = th[u]
  BY <1>1
<1>3. LifeTypes'
  BY <1>1, <1>2 DEF LifeTypes
<1>4. \A u \in Threads : Same(th'[u], th[u])
  BY <1>2 DEF Same
<1>5. \A u \in Threads : Holds(u)' => Holds(u)
  BY <1>2, <1>4 DEF Holds, GivenBack, Same
<1>6. SlotsHeld'
  <2>1. SlotsHeld
    BY DEF LifeInv
  <2> QED BY <2>1, <1>4, <1>5 DEF SlotsHeld, Same
<1>7. InPlace'
  BY <1>2 DEF LifeInv, InPlace
<1>8. OneJoiner'
  <2>1. OneJoiner
    BY DEF LifeInv
  <2>2. \A u \in Threads : th[u].finished => th'[u].finished
    BY <1>2
  <2>3. \A p \in Threads : th'[p].on = th[p].on
    BY <1>4 DEF Same
  <2>4. \A u \in Threads : th'[u].joined = th[u].joined /\ th'[u].joiner = th[u].joiner
    BY <1>4 DEF Same
  <2>5. \A p \in Threads : th[p].on \in Threads \cup {NoThread}
    BY <1>1 DEF Blocks
  <2> QED BY <2>1, <2>2, <2>3, <2>4, <2>5 DEF OneJoiner
<1> QED BY <1>3, <1>6, <1>7, <1>8 DEF LifeInv

\* __cxa_thread_atexit and pthread_setspecific.
LEMMA RegisteringKeeps == ASSUME LifeInv, NEW t \in Threads, Registering(t) PROVE LifeInv'
<1>1. th[t] \in Blocks /\ Fits(th[t])
  BY DEF LifeInv, LifeTypes, InPlace
<1>2. CASE th' = [th EXCEPT ![t].tls = @ + 1]
  <2> DEFINE b == [th[t] EXCEPT !.tls = th[t].tls + 1]
  <2>1. b \in Blocks /\ Same(b, th[t]) /\ Fits(b) /\ b.finished = th[t].finished
    BY <1>1 DEF Registering, Blocks, Same, Fits
  <2>2. th' = [th EXCEPT ![t] = b]
    BY <1>2
  <2> HIDE DEF b
  <2> QED BY <2>1, <2>2, MovesAlong, Zenon DEF Registering
<1>3. CASE th' = [th EXCEPT ![t].key = TRUE]
  <2> DEFINE b == [th[t] EXCEPT !.key = TRUE]
  <2>1. b \in Blocks /\ Same(b, th[t]) /\ Fits(b) /\ b.finished = th[t].finished
    BY <1>1, Zenon DEF Registering, Blocks, Same, Fits
  <2>2. th' = [th EXCEPT ![t] = b]
    BY <1>3
  <2> HIDE DEF b
  <2> QED BY <2>1, <2>2, MovesAlong, Zenon DEF Registering
<1> QED BY <1>2, <1>3 DEF Registering

\* The start routine returns, or pthread_exit.
LEMMA EndsKeeps == ASSUME LifeInv, NEW t \in Threads, NEW returned \in BOOLEAN, Ends(t, returned) PROVE LifeInv'
<1> DEFINE b == [th[t] EXCEPT !.at = "dtors", !.returned = returned]
<1>1. th[t] \in Blocks /\ Fits(th[t])
  BY DEF LifeInv, LifeTypes, InPlace
<1>2. b \in Blocks /\ Same(b, th[t]) /\ Fits(b) /\ b.finished = th[t].finished
  BY <1>1, Zenon DEF Ends, Blocks, Same, Fits
<1>3. th' = [th EXCEPT ![t] = b]
  BY Zenon DEF Ends
<1> HIDE DEF b
<1> QED BY <1>2, <1>3, MovesAlong, Zenon DEF Ends

\* run_thread_exit's first half: the thread_locals.
LEMMA RunDtorsKeeps == ASSUME LifeInv, NEW t \in Threads, run_dtors(t) PROVE LifeInv'
<1> DEFINE b == IF th[t].tls = 0 THEN [th[t] EXCEPT !.at = "keys"] ELSE [th[t] EXCEPT !.tls = th[t].tls - 1]
<1>1. th[t] \in Blocks /\ Fits(th[t])
  BY DEF LifeInv, LifeTypes, InPlace
<1>2. b \in Blocks /\ Same(b, th[t]) /\ Fits(b) /\ b.finished = th[t].finished
  BY <1>1 DEF run_dtors, Blocks, Same, Fits
<1>3. th' = [th EXCEPT ![t] = b]
  BY DEF run_dtors
<1> HIDE DEF b
<1> QED BY <1>2, <1>3, MovesAlong, Zenon DEF run_dtors

\* Its second half: the sweeps over the keys.
LEMMA RunKeysKeeps == ASSUME LifeInv, NEW t \in Threads, NEW again \in BOOLEAN, NEW n \in 0..MAX_TLS_DTORS,
                              run_keys(t, again, n)
                       PROVE  LifeInv'
<1>1. th[t] \in Blocks /\ Fits(th[t]) /\ th[t].at = "keys"
  BY DEF LifeInv, LifeTypes, InPlace, run_keys
<1>2. CASE th[t].key /\ th[t].round < ROUNDS
  <2> DEFINE b == [th[t] EXCEPT !.key = again, !.round = th[t].round + 1, !.late = th[t].late + n]
  <2>1. th[t].round + 1 \in Nat /\ th[t].late + n \in Nat
    BY <1>1, LifeAssumption DEF Blocks
  <2>2. b \in Blocks
    BY <1>1, <2>1, Zenon DEF Blocks
  <2>3. Same(b, th[t]) /\ Fits(b) /\ b.finished = th[t].finished
    BY <1>1 DEF Blocks, Same, Fits
  <2>4. th' = [th EXCEPT ![t] = b]
    BY <1>2 DEF run_keys
  <2> HIDE DEF b
  <2> QED BY <1>1, <2>2, <2>3, <2>4, MovesAlong, Zenon DEF run_keys
<1>3. CASE ~ (th[t].key /\ th[t].round < ROUNDS)
  <2> DEFINE b == [th[t] EXCEPT !.at = "publish"]
  <2>1. b \in Blocks
    BY <1>1 DEF Blocks
  <2>2. Same(b, th[t]) /\ Fits(b) /\ b.finished = th[t].finished
    BY <1>1 DEF Blocks, Same, Fits
  <2>3. th' = [th EXCEPT ![t] = b]
    BY <1>3, Zenon DEF run_keys
  <2> HIDE DEF b
  <2> QED BY <1>1, <2>1, <2>2, <2>3, MovesAlong, Zenon DEF run_keys
<1> QED BY <1>2, <1>3

\* The store of finished.
LEMMA PublishKeeps == ASSUME LifeInv, NEW t \in Threads, publish(t) PROVE LifeInv'
<1> DEFINE b == [th[t] EXCEPT !.at = "joiner", !.finished = TRUE]
<1>1. th[t] \in Blocks /\ Fits(th[t]) /\ th[t].at = "publish"
  BY DEF LifeInv, LifeTypes, InPlace, publish
<1>2. b \in Blocks
  BY <1>1, Zenon DEF Blocks
<1>3. Same(b, th[t]) /\ b.finished
  BY <1>1 DEF Blocks, Same
<1>4. Fits(b)
  BY <1>1 DEF Blocks, Fits
<1>5. th' = [th EXCEPT ![t] = b]
  BY Zenon DEF publish
<1> HIDE DEF b
<1> QED BY <1>1, <1>2, <1>3, <1>4, <1>5, MovesAlong, Zenon DEF publish

\* A step that only moves a thread on in the calls it is in.
LEMMA GoesKeeps ==
    ASSUME LifeInv, NEW t \in Threads, NEW here, NEW there, Goes(t, here, there), UNCHANGED slots,
           \/ here = "joiner" /\ there = (IF th[t].returned THEN "slot" ELSE "gone")
           \/ {here, there} \subseteq {"check", "park"}
           \/ {here, there} \subseteq {"run", "routine", "once"}
    PROVE  LifeInv'
<1> DEFINE b == [th[t] EXCEPT !.at = there]
<1>1. th[t] \in Blocks /\ Fits(th[t]) /\ th[t].at = here
  BY DEF LifeInv, LifeTypes, InPlace, Goes
<1>2. b \in Blocks
  BY <1>1 DEF Blocks
<1>3. Same(b, th[t]) /\ Fits(b) /\ b.finished = th[t].finished
  BY <1>1 DEF Blocks, Same, Fits
<1>4. th' = [th EXCEPT ![t] = b]
  BY DEF Goes
<1>5. th[t].at \notin {"none", "gone"}
  BY <1>1
<1> HIDE DEF b
<1> QED BY <1>2, <1>3, <1>4, <1>5, MovesAlong, Zenon

\* The steps that only move a thread on.
LEMMA CallsKeep ==
    ASSUME LifeInv, NEW t \in Threads, wake_joiner(t) \/ join_park(t) \/ once_done(t) \/ pthread_once(t)
    PROVE  LifeInv'
<1>1. CASE wake_joiner(t)
  BY <1>1, GoesKeeps DEF wake_joiner
<1>2. CASE join_park(t)
  BY <1>2, GoesKeeps DEF join_park
<1>3. CASE once_done(t)
  <2>1. UNCHANGED slots /\ (Goes(t, "routine", "run") \/ Goes(t, "once", "run"))
    BY <1>3 DEF once_done
  <2> QED BY <2>1, GoesKeeps
<1>4. CASE pthread_once(t)
  <2>1. UNCHANGED slots /\ (Goes(t, "run", "routine") \/ Goes(t, "run", "once"))
    BY <1>4 DEF pthread_once, Goes
  <2> QED BY <2>1, GoesKeeps
<1> QED BY <1>1, <1>2, <1>3, <1>4

\* What a step may do to the parkers: a thread keeps the one it has, or gets
\* one nobody held, or gives its own back.
LEMMA StillApart ==
    ASSUME LifeInv, NEW S, slots' = S,
           \A t \in Threads : Holds(t)' => Holds(t) /\ th'[t].slot = th[t].slot /\ th[t].slot \in S
    PROVE  SlotsHeld'
<1>1. SlotsHeld
  BY DEF LifeInv
<1>2. \A t \in Threads : Holds(t)' => Holds(t) /\ th'[t].slot = th[t].slot /\ th'[t].slot \in slots'
  OBVIOUS
<1> QED BY <1>1, <1>2 DEF SlotsHeld

\* A detached thread gives its parker back itself: nobody joins it.
LEMMA FreeSlotKeeps == ASSUME LifeInv, NEW t \in Threads, free_slot(t) PROVE LifeInv'
<1> DEFINE b == [th[t] EXCEPT !.at = "gone"]
<1>1. th \in [Threads -> Blocks] /\ Fits(th[t]) /\ th[t].at = "slot" /\ slots \subseteq 0..(MAX_THREADS - 1)
  BY DEF LifeInv, LifeTypes, InPlace, free_slot, Goes
<1>2. b \in Blocks
  BY <1>1 DEF Blocks
<1>3. Same(b, th[t]) /\ b.at = "gone" /\ b.finished = th[t].finished /\ b.returned = th[t].returned
  BY <1>1 DEF Blocks, Same
<1>4. Fits(b)
  BY <1>1 DEF Blocks, Fits
<1>5. th' = [th EXCEPT ![t] = b]
  BY DEF free_slot, Goes
<1> HIDE DEF b
<1>6. th' \in [Threads -> Blocks] /\ th'[t] = b /\ \A u \in Threads : u # t => th'[u] = th[u]
  BY <1>1, <1>2, <1>5
<1>7. CASE ~ th[t].detached
  <2>1. UNCHANGED slots
    BY <1>7 DEF free_slot
  <2> QED BY <1>1, <1>2, <1>3, <1>4, <1>5, <2>1, MovesAlong, Zenon
<1>8. CASE th[t].detached
  <2>1. slots' = slots \ {th[t].slot}
    BY <1>8 DEF free_slot
  <2>2. \A u \in Threads : Same(th'[u], th[u])
    BY <1>3, <1>6 DEF Same
  <2>3. Holds(t)
    BY <1>1, <1>8 DEF Holds, GivenBack, Fits
  <2>4. ~ Holds(t)'
    BY <1>1, <1>3, <1>6, <1>8, <2>2 DEF Holds, GivenBack, Same, Fits
  <2>5. \A u \in Threads : Holds(u)' => Holds(u) /\ u # t
    BY <2>4, <1>6, <2>2 DEF Holds, GivenBack, Same
  <2>6. \A u \in Threads : u # t /\ Holds(u) => th[u].slot \in slots \ {th[t].slot}
    BY <2>3 DEF LifeInv, SlotsHeld
  <2>7. SlotsHeld'
    <3>1. \A u \in Threads : Holds(u)' => /\ Holds(u) /\ th'[u].slot = th[u].slot
                                         /\ th[u].slot \in slots \ {th[t].slot}
      BY <2>2, <2>5, <2>6 DEF Same
    <3> QED BY <2>1, <3>1, StillApart
  <2>8. LifeTypes' /\ InPlace'
    BY <1>1, <1>4, <1>6, <2>1, Zenon DEF LifeTypes, LifeInv, InPlace
  <2>9. OneJoiner'
    <3>1. OneJoiner /\ \A p \in Threads : th[p].on \in Threads \cup {NoThread}
      BY <1>1 DEF LifeInv, Blocks
    <3>2. \A u \in Threads : /\ th'[u].finished = th[u].finished /\ th'[u].on = th[u].on
                            /\ th'[u].joined = th[u].joined /\ th'[u].joiner = th[u].joiner
      BY <1>3, <1>6, <2>2 DEF Same
    <3> QED BY <3>1, <3>2 DEF OneJoiner
  <2> QED BY <2>7, <2>8, <2>9 DEF LifeInv
<1> QED BY <1>7, <1>8

\* pthread_detach of a thread nobody joins.
LEMMA DetachKeeps == ASSUME LifeInv, NEW p \in Threads, NEW t \in Threads, pthread_detach(p, t) PROVE LifeInv'
<1> DEFINE b == [th[t] EXCEPT !.detached = TRUE]
<1>1. th \in [Threads -> Blocks] /\ Fits(th[t]) /\ ~ th[t].joined /\ UNCHANGED slots
  BY DEF LifeInv, LifeTypes, InPlace, pthread_detach
<1>2. b \in Blocks
  BY <1>1, ZenonT(30) DEF Blocks
<1>3. /\ b.at = th[t].at /\ b.on = th[t].on /\ b.slot = th[t].slot /\ b.finished = th[t].finished
      /\ b.joiner = th[t].joiner /\ b.joined = th[t].joined /\ b.returned = th[t].returned /\ b.detached
  BY <1>1 DEF Blocks
<1>4. Fits(b)
  BY <1>1 DEF Blocks, Fits
<1>5. th' = [th EXCEPT ![t] = b]
  BY DEF pthread_detach
<1> HIDE DEF b
<1>6. th' \in [Threads -> Blocks] /\ th'[t] = b /\ \A u \in Threads : u # t => th'[u] = th[u]
  BY <1>1, <1>2, <1>5
<1>7. LifeTypes' /\ InPlace'
  BY <1>1, <1>4, <1>6 DEF LifeInv, LifeTypes, InPlace
<1>8. \A u \in Threads : /\ th'[u].finished = th[u].finished /\ th'[u].on = th[u].on /\ th'[u].slot = th[u].slot
                        /\ th'[u].joined = th[u].joined /\ th'[u].joiner = th[u].joiner /\ th'[u].at = th[u].at
                        /\ th'[u].returned = th[u].returned /\ (th[u].detached => th'[u].detached)
  BY <1>1, <1>3, <1>6
<1>9. SlotsHeld'
  <2>1. \A u \in Threads : Holds(u)' => Holds(u)
    BY <1>8 DEF Holds, GivenBack
  <2>2. \A u \in Threads : Holds(u) => th[u].slot \in slots
    BY DEF LifeInv, SlotsHeld
  <2> QED BY <1>1, <1>8, <2>1, <2>2, StillApart
<1>10. OneJoiner'
  <2>1. OneJoiner /\ \A q \in Threads : th[q].on \in Threads \cup {NoThread}
    BY <1>1 DEF LifeInv, Blocks
  <2> QED BY <2>1, <1>8 DEF OneJoiner
<1> QED BY <1>7, <1>9, <1>10 DEF LifeInv

\* pthread_join takes the thread for its caller alone.
LEMMA JoinKeeps == ASSUME LifeInv, NEW p \in Threads, NEW t \in Threads, pthread_join(p, t) PROVE LifeInv'
<1> DEFINE a == [th[p] EXCEPT !.at = "check", !.on = t]
           b == [th[t] EXCEPT !.joiner = p, !.joined = TRUE]
<1>1. /\ th \in [Threads -> Blocks] /\ \A u \in Threads : Fits(th[u])
      /\ p # t /\ th[p].at = "run" /\ th[t].at # "none" /\ ~ th[t].detached /\ ~ th[t].joined
      /\ UNCHANGED slots /\ slots \subseteq 0..(MAX_THREADS - 1)
  BY DEF LifeInv, LifeTypes, InPlace, pthread_join
<1>2. a \in Blocks /\ b \in Blocks
  <2>1. a \in Blocks
    BY <1>1, ZenonT(30) DEF Blocks
  <2>2. b \in Blocks
    <3>1. th[t] \in Blocks /\ p \in Threads \cup {NoThread}
      BY <1>1
    <3> QED BY <3>1, Zenon DEF Blocks
  <2> QED BY <2>1, <2>2
<1>3. /\ a.at = "check" /\ a.on = t /\ a.slot = th[p].slot /\ a.finished = th[p].finished
      /\ a.joiner = th[p].joiner /\ a.joined = th[p].joined
  BY <1>1 DEF Blocks
<1>4. /\ b.at = th[t].at /\ b.on = th[t].on /\ b.slot = th[t].slot /\ b.finished = th[t].finished
      /\ b.joiner = p /\ b.joined
  BY <1>1 DEF Blocks
<1>5. Fits(a)
  BY <1>1, LifeAssumption DEF Blocks, Fits
<1>6. Fits(b)
  BY <1>1 DEF Blocks, Fits
<1>7. th' = [th EXCEPT ![p] = a, ![t] = b]
  BY <1>1, Zenon DEF pthread_join
<1> HIDE DEF a, b
<1>8. /\ th' \in [Threads -> Blocks] /\ th'[p] = a /\ th'[t] = b
      /\ \A u \in Threads : u # p /\ u # t => th'[u] = th[u]
  BY <1>1, <1>2, <1>7
<1>9. LifeTypes' /\ InPlace'
  BY <1>1, <1>5, <1>6, <1>8 DEF LifeTypes, InPlace
<1>10. /\ \A u \in Threads : th'[u].slot = th[u].slot /\ th'[u].finished = th[u].finished
       /\ \A u \in Threads : u # p => th'[u].on = th[u].on
       /\ \A u \in Threads : u # t => th'[u].joined = th[u].joined /\ th'[u].joiner = th[u].joiner
  BY <1>3, <1>4, <1>8
<1>11. th[p].on = NoThread
  BY <1>1 DEF Fits
<1>12. SlotsHeld'
  <2>1. ASSUME NEW u \in Threads, GivenBack(u) PROVE GivenBack(u)'
    <3>1. CASE th[u].detached /\ th[u].returned /\ th[u].at = "gone"
      <4>1. u # p /\ u # t
        BY <1>1, <3>1
      <4> QED BY <1>8, <3>1, <4>1 DEF GivenBack
    <3>2. CASE th[u].joined /\ \A q \in Threads : th[q].on # u
      <4>1. u # t
        BY <1>1, <3>2
      <4>2. \A q \in Threads : th'[q].on # u
        BY <1>3, <1>8, <1>10, <3>2, <4>1
      <4> QED BY <1>10, <3>2, <4>1, <4>2 DEF GivenBack
    <3> QED BY <2>1, <3>1, <3>2 DEF GivenBack
  <2>2. \A u \in Threads : th'[u].at = "none" <=> th[u].at = "none"
    BY <1>1, <1>3, <1>4, <1>8
  <2>3. \A u \in Threads : Holds(u)' => Holds(u)
    BY <2>1, <2>2 DEF Holds
  <2>4. \A u \in Threads : Holds(u) => th[u].slot \in slots
    BY DEF LifeInv, SlotsHeld
  <2> QED BY <1>1, <1>10, <2>3, <2>4, StillApart
<1>13. OneJoiner'
  <2>1. OneJoiner /\ \A q \in Threads : th[q].on \in Threads \cup {NoThread}
    BY <1>1 DEF LifeInv, Blocks
  <2>2. ASSUME NEW q \in Threads, th'[q].on # NoThread
        PROVE  th'[q].on # q /\ th'[th'[q].on].joined /\ th'[th'[q].on].joiner = q
    <3>1. CASE q = p
      BY <1>1, <1>3, <1>4, <1>8, <3>1
    <3>2. CASE q # p
      <4>1. th[q].on # q /\ th[q].on \in Threads /\ th[th[q].on].joined /\ th[th[q].on].joiner = q
        BY <1>10, <2>1, <2>2, <3>2 DEF OneJoiner
      <4>2. th[q].on # t
        BY <1>1, <4>1
      <4> QED BY <1>10, <3>2, <4>1, <4>2
    <3> QED BY <3>1, <3>2
  <2>3. ASSUME NEW u \in Threads, th'[u].joined, ~ th'[u].finished
        PROVE  \E q \in Threads : th'[q].on = u
    <3>1. CASE u = t
      BY <1>3, <1>8, <3>1
    <3>2. CASE u # t
      <4>1. PICK q \in Threads : th[q].on = u
        BY <1>10, <2>1, <2>3, <3>2 DEF OneJoiner
      <4>2. q # p
        BY <1>11, <4>1, LifeAssumption
      <4> QED BY <1>10, <4>1, <4>2
    <3> QED BY <3>1, <3>2
  <2> QED BY <2>2, <2>3 DEF OneJoiner
<1> QED BY <1>9, <1>12, <1>13 DEF LifeInv

\* A joiner that sees the end gives the parker back, and leaves for good.
LEMMA JoinCheckKeeps == ASSUME LifeInv, NEW p \in Threads, join_check(p) PROVE LifeInv'
<1> DEFINE a == [th[p] EXCEPT !.at = "run", !.on = NoThread]
<1>1. /\ th \in [Threads -> Blocks] /\ \A u \in Threads : Fits(th[u])
      /\ th[p].at = "check" /\ slots \subseteq 0..(MAX_THREADS - 1)
  BY DEF LifeInv, LifeTypes, InPlace, join_check
<1>2. OneJoiner /\ \A q \in Threads : th[q].on \in Threads \cup {NoThread}
  BY <1>1 DEF LifeInv, Blocks
<1>3. PICK t \in Threads : t = th[p].on /\ t # NoThread /\ t # p /\ th[t].joined /\ th[t].joiner = p
  BY <1>1, <1>2, LifeAssumption DEF Fits, OneJoiner
<1>4. CASE ~ th[t].finished
  <2>1. Goes(p, "check", "park") /\ UNCHANGED slots
    BY <1>3, <1>4 DEF join_check, Goes
  <2> QED BY <2>1, GoesKeeps
<1>5. CASE th[t].finished
  <2>1. th' = [th EXCEPT ![p] = a]
    BY <1>3, <1>5, Zenon DEF join_check
  <2>2. slots' = slots \ {th[t].slot}
    BY <1>3, <1>5 DEF join_check
  <2>3. a \in Blocks
    BY <1>1, ZenonT(30) DEF Blocks
  <2>4. /\ a.at = "run" /\ a.on = NoThread /\ a.slot = th[p].slot /\ a.finished = th[p].finished
        /\ a.joiner = th[p].joiner /\ a.joined = th[p].joined
    BY <1>1 DEF Blocks
  <2>5. Fits(a)
    BY <1>1 DEF Blocks, Fits
  <2> HIDE DEF a
  <2>6. th' \in [Threads -> Blocks] /\ th'[p] = a /\ \A u \in Threads : u # p => th'[u] = th[u]
    BY <1>1, <2>1, <2>3
  <2>7. LifeTypes' /\ InPlace'
    BY <1>1, <2>2, <2>5, <2>6, Zenon DEF LifeTypes, InPlace
  <2>8. /\ \A u \in Threads : /\ th'[u].slot = th[u].slot /\ th'[u].finished = th[u].finished
                              /\ th'[u].joined = th[u].joined /\ th'[u].joiner = th[u].joiner
        /\ \A u \in Threads : u # p => th'[u].on = th[u].on
        /\ th'[p].on = NoThread
    BY <2>4, <2>6
  <2>9. SlotsHeld'
    <3>1. Holds(t)
      BY <1>1, <1>3 DEF Holds, GivenBack, Fits
    <3>2. ASSUME NEW u \in Threads, GivenBack(u) PROVE GivenBack(u)'
      <4>1. CASE th[u].detached /\ th[u].returned /\ th[u].at = "gone"
        BY <1>1, <2>6, <4>1 DEF GivenBack
      <4>2. CASE th[u].joined /\ \A q \in Threads : th[q].on # u
        BY <2>8, <4>2, LifeAssumption DEF GivenBack
      <4> QED BY <3>2, <4>1, <4>2 DEF GivenBack
    <3>3. \A u \in Threads : th'[u].at = "none" <=> th[u].at = "none"
      BY <1>1, <2>4, <2>6
    <3>4. GivenBack(t)'
      <4>1. \A q \in Threads : q # p => th[q].on # t
        BY <1>2, <1>3 DEF OneJoiner
      <4>2. \A q \in Threads : th'[q].on # t
        BY <1>3, <2>8, <4>1
      <4> QED BY <1>3, <2>8, <4>2 DEF GivenBack
    <3>5. \A u \in Threads : Holds(u)' => Holds(u) /\ u # t
      BY <3>2, <3>3, <3>4 DEF Holds
    <3>6. \A u \in Threads : Holds(u) /\ u # t => th[u].slot \in slots \ {th[t].slot}
      BY <1>3, <3>1 DEF LifeInv, SlotsHeld
    <3>7. \A u \in Threads : Holds(u)' => /\ Holds(u) /\ th'[u].slot = th[u].slot
                                         /\ th[u].slot \in slots \ {th[t].slot}
      BY <2>8, <3>5, <3>6
    <3> QED BY <2>2, <3>7, StillApart
  <2>10. OneJoiner'
    <3>1. ASSUME NEW q \in Threads, th'[q].on # NoThread
          PROVE  th'[q].on # q /\ th'[th'[q].on].joined /\ th'[th'[q].on].joiner = q
      BY <1>2, <2>8, <3>1 DEF OneJoiner
    <3>2. ASSUME NEW u \in Threads, th'[u].joined, ~ th'[u].finished
          PROVE  \E q \in Threads : th'[q].on = u
      <4>1. PICK q \in Threads : th[q].on = u
        BY <1>2, <2>8, <3>2 DEF OneJoiner
      <4>2. q # p
        BY <1>3, <1>5, <2>8, <3>2, <4>1
      <4> QED BY <2>8, <4>1, <4>2
    <3> QED BY <3>1, <3>2 DEF OneJoiner
  <2> QED BY <2>7, <2>9, <2>10 DEF LifeInv
<1> QED BY <1>4, <1>5

\* Every non-empty set of naturals has a least element.
LEMMA LeastSlot ==
    ASSUME NEW T, T \subseteq Nat, T # {}
    PROVE  \E x \in T : \A y \in T : x <= y
<1> DEFINE R == OpToRel(<, Nat)
<1>1. \A x, y \in Nat : <<y, x>> \in R <=> y < x
  BY DEF OpToRel
<1>2. IsWellFoundedOn(R, Nat)
  BY NatLessThanWellFounded, Zenon
<1> HIDE DEF R
<1>3. PICK x \in T : \A y \in T : ~ (<<y, x>> \in R)
  BY <1>2, WFMin, Zenon
<1>4. ASSUME NEW y \in T PROVE x <= y
  <2>1. x \in Nat /\ y \in Nat
    OBVIOUS
  <2>2. ~ (y < x)
    BY <1>1, <1>3, <2>1, Zenon
  <2> QED BY <2>1, <2>2
<1> QED BY <1>4

\* With fewer parkers taken than there are, take_slot finds one nobody has.
LEMMA SlotFound ==
    ASSUME slots \subseteq 0..(MAX_THREADS - 1), Cardinality(slots) < MAX_THREADS
    PROVE  take_slot \in 0..(MAX_THREADS - 1) /\ take_slot \notin slots
<1> DEFINE All == 0..(MAX_THREADS - 1)
           T == All \ slots
<1>1. IsFiniteSet(All) /\ Cardinality(All) = MAX_THREADS
  <2>1. 0 \in Int /\ MAX_THREADS - 1 \in Int /\ MAX_THREADS \in Nat
    BY LifeAssumption
  <2>2. IsFiniteSet(All) /\ Cardinality(All) = IF 0 > MAX_THREADS - 1 THEN 0 ELSE MAX_THREADS - 1 - 0 + 1
    BY <2>1, FS_Interval
  <2> HIDE DEF All
  <2> QED BY <2>2, LifeAssumption
<1>2. T # {}
  <2>1. CASE slots = All
    <3>1. Cardinality(slots) = MAX_THREADS
      BY <1>1, <2>1
    <3> QED BY <3>1, LifeAssumption
  <2> QED BY <2>1, Zenon
<1>3. T \subseteq Nat
  BY LifeAssumption
<1>4. PICK s \in T : \A y \in T : s <= y
  BY <1>2, <1>3, LeastSlot, Zenon
<1>5. s \in All /\ s \notin slots /\ \A r \in 0..(s - 1) : r \in slots
  <2>1. ASSUME NEW r \in 0..(s - 1), r \notin slots PROVE FALSE
    <3>1. s \in Nat /\ r \in Nat /\ r < s /\ s <= MAX_THREADS - 1
      BY <1>3, <1>4, LifeAssumption
    <3>2. r \in T
      BY <3>1, <2>1, LifeAssumption
    <3> QED BY <1>4, <3>1, <3>2
  <2> QED BY <1>4, <2>1
<1> QED BY <1>5 DEF take_slot

\* pthread_create hands out a parker nobody holds.
LEMMA CreateKeeps ==
    ASSUME LifeInv, NEW p \in Threads, NEW t \in Threads, NEW detached \in BOOLEAN, pthread_create(p, t, detached)
    PROVE  LifeInv'
<1>1. /\ th \in [Threads -> Blocks] /\ (\A u \in Threads : Fits(th[u]))
      /\ slots \subseteq 0..(MAX_THREADS - 1) /\ Cardinality(slots) < MAX_THREADS
      /\ th[t].at = "none"
  BY DEF LifeInv, LifeTypes, InPlace, pthread_create
<1>2. PICK s \in 0..(MAX_THREADS - 1) : s = take_slot /\ s \notin slots
  BY <1>1, SlotFound
<1> DEFINE b == [Block("run", s) EXCEPT !.detached = detached]
<1>3. th' = [th EXCEPT ![t] = b] /\ slots' = slots \cup {s}
  BY <1>2 DEF pthread_create
<1>4. /\ b.at = "run" /\ b.on = NoThread /\ b.slot = s /\ ~ b.finished /\ ~ b.joined /\ b.tls = 0
  BY DEF Block
<1>5. b \in Blocks
  BY Zenon DEF Block, Blocks
<1>6. Fits(b)
  BY <1>4 DEF Fits
<1> HIDE DEF b
<1>7. th' \in [Threads -> Blocks] /\ th'[t] = b /\ \A u \in Threads : u # t => th'[u] = th[u]
  BY <1>1, <1>3, <1>5
<1>8. LifeTypes' /\ InPlace'
  BY <1>1, <1>3, <1>6, <1>7 DEF LifeTypes, InPlace
<1>9. OneJoiner /\ \A q \in Threads : th[q].on \in Threads \cup {NoThread}
  BY <1>1 DEF LifeInv, Blocks
<1>10. th[t].on = NoThread /\ ~ th[t].joined
  BY <1>1 DEF Fits
<1>11. SlotsHeld'
  <2>1. ASSUME NEW u \in Threads, u # t PROVE Holds(u)' => Holds(u)
    <3>1. th'[u] = th[u]
      BY <1>7, <2>1
    <3>2. (\A q \in Threads : th[q].on # u) => \A q \in Threads : th'[q].on # u
      BY <1>4, <1>7, LifeAssumption
    <3> QED BY <3>1, <3>2 DEF Holds, GivenBack
  <2>2. \A u \in Threads : u # t /\ Holds(u)' => th'[u].slot \in slots
    BY <2>1, <1>7 DEF LifeInv, SlotsHeld
  <2>3. \A u, v \in Threads : u # t /\ v # t /\ u # v /\ Holds(u)' /\ Holds(v)' => th'[u].slot # th'[v].slot
    BY <2>1, <1>7 DEF LifeInv, SlotsHeld
  <2>4. th'[t].slot = s
    BY <1>4, <1>7
  <2> QED BY <1>2, <1>3, <2>2, <2>3, <2>4 DEF SlotsHeld
<1>12. OneJoiner'
  <2>1. ASSUME NEW q \in Threads, th'[q].on # NoThread
        PROVE  th'[q].on # q /\ th'[th'[q].on].joined /\ th'[th'[q].on].joiner = q
    <3>1. q # t /\ th'[q] = th[q]
      BY <1>4, <1>7, <2>1
    <3>2. th[q].on # q /\ th[q].on \in Threads /\ th[th[q].on].joined /\ th[th[q].on].joiner = q
      BY <1>9, <2>1, <3>1 DEF OneJoiner
    <3>3. th[q].on # t
      BY <1>10, <3>2
    <3> QED BY <1>7, <3>1, <3>2, <3>3
  <2>2. ASSUME NEW u \in Threads, th'[u].joined, ~ th'[u].finished
        PROVE  \E q \in Threads : th'[q].on = u
    <3>1. u # t
      BY <1>4, <1>7, <2>2
    <3>2. PICK q \in Threads : th[q].on = u
      BY <1>7, <1>9, <2>2, <3>1 DEF OneJoiner
    <3>3. q # t
      BY <1>10, <3>2, LifeAssumption
    <3> QED BY <1>7, <3>2, <3>3
  <2> QED BY <2>1, <2>2 DEF OneJoiner
<1> QED BY <1>8, <1>11, <1>12 DEF LifeInv

\* main alone, with the first parker.
LEMMA LifeInitHolds == LifeInit => LifeInv
<1> SUFFICES ASSUME LifeInit PROVE LifeInv
  OBVIOUS
<1>1. Block("run", 0) \in Blocks /\ Block("none", 0) \in Blocks
  <2>1. 0 \in 0..(MAX_THREADS - 1)
    BY LifeAssumption
  <2> QED BY <2>1 DEF Block, Blocks
<1>2. \A t \in Threads : th[t] = IF t = Main THEN Block("run", 0) ELSE Block("none", 0)
  BY DEF LifeInit
<1>3. LifeTypes
  BY <1>1, LifeAssumption DEF LifeInit, LifeTypes
<1>4. InPlace
  <2>1. Fits(Block("run", 0)) /\ Fits(Block("none", 0))
    BY DEF Fits, Block
  <2> QED BY <1>2, <2>1 DEF InPlace
<1>5. \A t \in Threads : th[t].on = NoThread /\ ~ th[t].joined /\ th[t].slot = 0 /\ (t # Main => th[t].at = "none")
  BY <1>2 DEF Block
<1>6. SlotsHeld /\ OneJoiner
  BY <1>5 DEF SlotsHeld, Holds, OneJoiner, LifeInit
<1> QED BY <1>3, <1>4, <1>6 DEF LifeInv

\* Every step keeps the parkers apart.
LEMMA LifeStepKeeps == LifeInv /\ [LifeNext]_lifeVars => LifeInv'
<1> SUFFICES ASSUME LifeInv, [LifeNext]_lifeVars PROVE LifeInv'
  OBVIOUS
<1>1. ASSUME UNCHANGED <<slots, th>> PROVE LifeInv'
  BY <1>1 DEF LifeInv, LifeTypes, SlotsHeld, Holds, GivenBack, InPlace, OneJoiner
<1>2. CASE UNCHANGED lifeVars
  BY <1>1, <1>2 DEF lifeVars
<1>3. ASSUME NEW t \in Threads, Finishing(t) \/ Joining(t) PROVE LifeInv'
  BY <1>3, RunDtorsKeeps, PublishKeeps, CallsKeep, FreeSlotKeeps, RunKeysKeeps, JoinCheckKeeps DEF Finishing, Joining
<1>4. ASSUME NEW t \in Threads, Stray(t) PROVE LifeInv'
  BY <1>1, <1>4 DEF Stray
<1>5. ASSUME NEW t \in Threads,
             \/ Registering(t) \/ pthread_once(t)
             \/ \E r \in BOOLEAN : Ends(t, r)
             \/ \E u \in Threads : \/ pthread_join(t, u) \/ pthread_detach(t, u)
                                   \/ \E d \in BOOLEAN : pthread_create(t, u, d)
      PROVE  LifeInv'
  BY <1>5, RegisteringKeeps, CallsKeep, EndsKeeps, JoinKeeps, DetachKeeps, CreateKeeps
<1> QED BY <1>2, <1>3, <1>4, <1>5 DEF LifeNext

\* The invariant of every program's threads.
LEMMA LifeInvariant == LifeSpec => []LifeInv
<1> QED BY LifeInitHolds, LifeStepKeeps, PTL DEF LifeSpec

\* For every program, two threads that may still park never share a parker:
\* take_slot hands out a free one, and the thread's end and pthread_join give
\* it back once, after its last use.
THEOREM ParkersNeverShared == LifeSpec => []ParkersApart
<1>1. LifeInv => ParkersApart
  <2> SUFFICES ASSUME LifeInv, NEW t \in Threads, MayPark(t) PROVE Holds(t)
    BY DEF LifeInv, SlotsHeld, ParkersApart
  <2>1. th[t].at # "none" /\ th[t].at # "gone" /\ ~ th[t].finished
    BY DEF LifeInv, InPlace, Fits, MayPark
  <2> QED BY <2>1 DEF LifeInv, OneJoiner, Holds, GivenBack
<1> QED BY <1>1, LifeInvariant, PTL

\* For every program, a thread seen to have finished has run every thread_local
\* destructor registered before it swept its keys, those that destructors
\* registered included (run_thread_exit).  Those a key's destructor registers
\* are not among them: they are never run.
THEOREM FinishedThreadsClean == LifeSpec => []FinishedIsClean
<1>1. LifeInv => FinishedIsClean
  BY DEF LifeInv, InPlace, Fits, FinishedIsClean
<1> QED BY <1>1, LifeInvariant, PTL
-----------------------------------------------------------------------------
FdParts == /\ FdTypeOK /\ PlacesOK /\ Owned /\ Making /\ Closing
         /\ Stored /\ OneUser /\ Current /\ Hearing

LEMMA KindShape ==
    ASSUME NEW k \in Kinds
    PROVE  /\ k.slot \in Slots /\ k.kind \in {"event", "pipe", "endpoint"} /\ k # FreeFd
           /\ k.kind = "pipe" => k.write \in BOOLEAN
           /\ k.kind = "event" => k.semaphore \in BOOLEAN
           /\ notification(k) \in Notes /\ notification(k)[1] = k.slot
           /\ notification(k)[2] = "writable" <=> k.kind = "pipe" /\ k.write
<1>1. /\ k.slot \in Slots /\ k.kind \in {"event", "pipe", "endpoint"}
      /\ k.kind = "pipe" => k.write \in BOOLEAN
      /\ k.kind = "event" => k.semaphore \in BOOLEAN
  BY DEF Kinds
<1>2. k # FreeFd
  BY <1>1 DEF FreeFd
<1> QED
  BY <1>1, <1>2 DEF notification, Notes

LEMMA Shape ==
    ASSUME PlacesOK, NEW t \in Callers
    PROVE  /\ op[t].at \in {"user", "try", "wait", "scan", "collect", "poll", "make", "closed", "dropped"}
           /\ op[t].at = "user" => op[t] = InUser
           /\ op[t].at \in {"try", "wait"} => op[t] \in Transfers
           /\ op[t].at \in {"scan", "collect", "poll"} => op[t] \in Polls
           /\ op[t].at = "make" => op[t] \in Makings /\ t = Opener
           /\ op[t].at = "closed" => op[t] \in [at : {"closed"}, was : Kinds] /\ t = Opener
           /\ op[t].at = "dropped" => op[t] \in [at : {"dropped"}, slot : Slots] /\ t = Opener
<1>1. op[t] \in {InUser} \cup Transfers \cup Polls \cup Closings \cup Makings
  BY DEF PlacesOK
<1>2. CASE op[t] = InUser
  BY <1>2 DEF InUser
<1>3. CASE op[t] \in Transfers
  BY <1>3 DEF Transfers
<1>4. CASE op[t] \in Polls
  BY <1>4 DEF Polls
<1>5. CASE op[t] \in Closings \cup Makings
  <2>1. t = Opener
    BY <1>5 DEF PlacesOK
  <2>2. CASE op[t] \in Makings
    BY <2>1, <2>2, Zenon DEF Makings
  <2>3. CASE op[t] \in Closings
    BY <2>1, <2>3 DEF Closings
  <2> QED
    BY <1>5, <2>2, <2>3
<1> QED
  BY <1>1, <1>2, <1>3, <1>4, <1>5

LEMMA SignalledTypes ==
    ASSUME NEW sigs \in [Notes -> Nat], NEW ns
    PROVE  /\ signalled(sigs, ns) \in [Notes -> Nat]
           /\ \A n \in Notes : /\ sigs[n] > 0 => signalled(sigs, ns)[n] > 0
                               /\ n \in ns => signalled(sigs, ns)[n] > 0
BY DescriptorsAssumption DEF signalled

LEMMA NotesApart ==
    ASSUME FdTypeOK, Owned, NEW f \in Named, NEW g \in Named, f # g
    PROVE  notification(fds[f]) # notification(fds[g])
<1>1. fds[f] \in Kinds /\ fds[g] \in Kinds
  BY DEF FdTypeOK, Named
<1>2. Apart(fds[f], fds[g])
  BY DEF Owned
<1> QED
  BY <1>1, <1>2, KindShape DEF Apart

LEMMA UsingNamed ==
    ASSUME OneUser, NEW t \in Callers, NEW f \in Using(t)
    PROVE  f \in Named /\ f \in Fds
BY DEF OneUser, Open, Named

LEMMA FdInitInv == FdInit => FdInv
<1> SUFFICES ASSUME FdInit PROVE FdInv
  OBVIOUS
<1> USE DEF FdInit
<1>1. FdTypeOK
  BY DescriptorsAssumption DEF FdTypeOK, Notes, Fds, Slots
<1>2. \A t \in Callers : op[t] = InUser /\ op[t].at = "user"
  BY DEF InUser
<1>3. PlacesOK
  <2>1. \A t \in Callers : op[t] \notin Closings \cup Makings
    BY <1>2, Zenon DEF Closings, Makings
  <2> QED
    BY <1>2, <2>1 DEF PlacesOK
<1>4. Named = {}
  BY DEF Named
<1>5. Owned /\ Making /\ Closing /\ Stored
  BY <1>2, <1>4, DescriptorsAssumption DEF Owned, Making, Closing, Stored
<1>6. \A t \in Callers : Using(t) = {}
  BY <1>2 DEF Using
<1>7. OneUser /\ Current /\ Hearing
  BY <1>2, <1>6 DEF OneUser, Current, Hearing, LookedUp, Hears
<1> QED
  BY <1>1, <1>3, <1>5, <1>7 DEF FdInv


Outside == {InUser} \cup Transfers \cup Polls

LEMMA Insides == \A p \in Outside : p.at \notin {"make", "closed", "dropped"} /\ p \notin Closings \cup Makings
<1> SUFFICES ASSUME NEW p \in Outside
             PROVE  p.at \notin {"make", "closed", "dropped"} /\ p \notin Closings \cup Makings
  OBVIOUS
<1>1. p.at \notin {"make", "closed", "dropped"}
  BY DEF Outside, InUser, Transfers, Polls
<1> QED
  BY <1>1, Zenon DEF Closings, Makings

LEMMA BusyUsing ==
    ASSUME NEW t \in Callers, NEW u \in Callers, t # u
    PROVE  Using(u) \subseteq Busy(t)
<1>1. CASE op[u].at \in {"try", "wait"}
  BY <1>1 DEF Using, Busy
<1>2. CASE op[u].at \in {"scan", "collect", "poll"}
  BY <1>2 DEF Using, Busy
<1> QED
  BY <1>1, <1>2 DEF Using

\* A step of a thread that is not between the steps of making or closing.
LEMMA UserControl ==
    ASSUME FdParts, NEW t \in Callers, NEW p \in Outside, op[t] \in Outside, op' = [op EXCEPT ![t] = p],
           UNCHANGED <<fds, used, ends, bound>>
    PROVE  /\ PlacesOK' /\ Owned' /\ Making' /\ Closing' /\ Named' = Named /\ Open' = Open
           /\ op'[t] = p /\ \A u \in Callers \ {t} : op'[u] = op[u] /\ Using(u)' = Using(u)
           /\ \A s : op[Opener] = [at |-> "dropped", slot |-> s] => op'[Opener] = op[Opener]
<1>1. op'[t] = p /\ \A u \in Callers \ {t} : op'[u] = op[u]
  BY DEF FdParts, PlacesOK
<1>2. Named' = Named
  BY DEF Named
<1>3. Opener \in Callers /\ (op'[Opener] = op[Opener] \/ (op[Opener] \in Outside /\ op'[Opener] \in Outside))
  BY <1>1, DescriptorsAssumption
<1>4. PlacesOK'
  <2>1. op' \in [Callers -> {InUser} \cup Transfers \cup Polls \cup Closings \cup Makings]
    BY DEF FdParts, PlacesOK, Outside
  <2> QED
    BY <1>1, <2>1, Insides DEF FdParts, PlacesOK
<1>5. Owned'
  BY <1>2 DEF FdParts, Owned, Apart
<1>6. Making'
  BY <1>2, <1>3, Insides DEF FdParts, Making, PipeFd
<1>7. Closing'
  BY <1>2, <1>3, Insides DEF FdParts, Closing, Apart
<1>8. Open' = Open
  <2>1. \A u \in Callers : op'[u] = op[u] \/ (op[u].at # "make" /\ op'[u].at # "make")
    BY <1>1, Insides
  <2>2. {u \in Callers : op'[u].at = "make"} = {u \in Callers : op[u].at = "make"}
    BY <2>1
  <2>3. \A u \in {v \in Callers : op[v].at = "make"} : op'[u].got = op[u].got
    BY <2>1
  <2>4. UNION {op'[u].got : u \in {v \in Callers : op'[v].at = "make"}}
            = UNION {op[u].got : u \in {v \in Callers : op[v].at = "make"}}
    BY <2>2, <2>3
  <2> QED
    BY <2>4 DEF Open
<1>9. \A s : op[Opener] = [at |-> "dropped", slot |-> s] => op'[Opener] = op[Opener]
  BY <1>3, Insides
<1>10. \A u \in Callers \ {t} : Using(u)' = Using(u)
  BY <1>1 DEF Using
<1> QED
  BY <1>1, <1>2, <1>4, <1>5, <1>6, <1>7, <1>8, <1>9, <1>10

\* What the others sleep on stays signalled, or is not there.
Kept(f) == /\ signals[notification(fds[f])] > 0 => signals'[notification(fds[f])] > 0
           /\ readable(fds[f])' => readable(fds[f]) \/ signals'[notification(fds[f])] > 0

LEMMA UserStep ==
    ASSUME FdParts, NEW t \in Callers, NEW p \in Outside, op[t] \in Outside, op' = [op EXCEPT ![t] = p],
           UNCHANGED <<fds, used, ends, bound>>,
           FdTypeOK', Stored',
           Using(t)' \subseteq Using(t) \/ Using(t)' \subseteq Open \ Busy(t),
           LookedUp(t)', Hears(t)',
           \A f \in Named \ Using(t) : Kept(f)
    PROVE  FdParts'
<1>1. /\ PlacesOK' /\ Owned' /\ Making' /\ Closing' /\ Named' = Named /\ Open' = Open
      /\ op'[t] = p /\ \A u \in Callers \ {t} : op'[u] = op[u] /\ Using(u)' = Using(u)
      /\ \A s : op[Opener] = [at |-> "dropped", slot |-> s] => op'[Opener] = op[Opener]
  BY UserControl, Zenon
<1>2. OneUser'
  <2>1. \A u \in Callers : Using(u)' \subseteq Open'
    BY <1>1 DEF FdParts, OneUser
  <2>2. \A u \in Callers \ {t} : Using(t)' \cap Using(u)' = {}
    BY <1>1, BusyUsing DEF FdParts, OneUser
  <2>3. \A u, v \in Callers \ {t} : u # v => Using(u)' \cap Using(v)' = {}
    BY <1>1 DEF FdParts, OneUser
  <2> QED
    BY <2>1, <2>2, <2>3 DEF OneUser
<1>3. Current'
  BY <1>1 DEF FdParts, Current, LookedUp, Note, notification
<1>4. ASSUME NEW u \in Callers \ {t} PROVE Hears(u)'
  <2>1. SUFFICES ASSUME op[u].at \in {"wait", "collect", "poll"}, NEW f \in Using(u)
                 PROVE  Heard(f)'
    BY <1>1 DEF Hears
  <2>2. Heard(f)
    BY <2>1 DEF FdParts, Hearing, Hears
  <2>3. f \in Named \ Using(t)
    BY <2>1, UsingNamed DEF FdParts, OneUser
  <2>4. notification(fds[f])' = notification(fds[f]) /\ Kept(f)
    BY <2>3 DEF notification
  <2> QED
    BY <1>1, <2>2, <2>4 DEF Heard, Kept
<1>5. Hearing'
  BY <1>4 DEF Hearing
<1> QED
  BY <1>1, <1>2, <1>3, <1>5 DEF FdParts

LEMMA MinOfTwo ==
    ASSUME NEW a \in Int, NEW b \in Int
    PROVE  Min({a, b}) \in {a, b} /\ Min({a, b}) <= a /\ Min({a, b}) <= b
<1>1. \E x \in {a, b} : \A y \in {a, b} : x <= y
  <2>1. CASE a <= b
    BY <2>1
  <2>2. CASE b <= a
    BY <2>2
  <2> QED
    BY <2>1, <2>2
<1> QED
  BY <1>1 DEF Min

\* A thread in a transfer, and what its descriptor is to the others.
LEMMA Trying ==
    ASSUME FdParts, NEW t \in Callers, op[t].at \in {"try", "wait"}
    PROVE  /\ op[t] \in Transfers /\ op[t] \in Outside /\ Using(t) = {op[t].fd}
           /\ op[t].fd \in Named /\ op[t].of = fds[op[t].fd] /\ op[t].of \in Kinds
           /\ op[t].of.slot \in used /\ op[t].of.slot \in Slots
           /\ \A f \in Named \ Using(t) : /\ fds[f] \in Kinds /\ Apart(fds[f], op[t].of)
                                          /\ notification(fds[f]) # notification(op[t].of)
<1>1. op[t] \in Transfers /\ op[t] \in Outside
  BY Shape DEF FdParts, Outside
<1>2. Using(t) = {op[t].fd}
  BY DEF Using
<1>3. op[t].fd \in Named /\ op[t].of = fds[op[t].fd]
  BY <1>2, UsingNamed DEF FdParts, Current, LookedUp
<1>4. \A f \in Named : fds[f] \in Kinds
  BY DEF Named, FdParts, FdTypeOK
<1>5. op[t].of.slot \in used /\ op[t].of.slot \in Slots
  BY <1>3, <1>4, KindShape DEF FdParts, Owned
<1>6. \A f \in Named \ Using(t) : Apart(fds[f], op[t].of)
  BY <1>2, <1>3 DEF FdParts, Owned
<1>7. \A f \in Named \ Using(t) : notification(fds[f]) # notification(op[t].of)
  BY <1>2, <1>3, NotesApart DEF FdParts
<1> QED
  BY <1>1, <1>2, <1>3, <1>4, <1>5, <1>6, <1>7

\* Every non-empty set of naturals has a least element.
LEMMA BeginStep ==
    ASSUME FdParts, NEW t \in Callers, NEW f \in Fds, NEW way \in {"read", "write"}, NEW n \in 1..2, Begin(t, f, way, n)
    PROVE  FdParts'
<1> DEFINE p == [at |-> "try", fd |-> f, of |-> fds[f], way |-> way, left |-> n, patient |-> f \notin nonblock]
<1>1. /\ op[t] = InUser /\ f \in Open \ Busy(t) /\ op' = [op EXCEPT ![t] = p]
      /\ UNCHANGED <<fds, nonblock, used, objects, signals, mail, bound, shared, calls>>
      /\ fds[f].kind = "pipe" => (way = "write") = fds[f].write
  BY DEF Begin, Goto
<1>2. fds[f] \in Kinds
  BY <1>1 DEF Open, FdParts, FdTypeOK
<1>3. p \in Transfers
  BY <1>2 DEF Transfers
<1>4. p \in Outside /\ op[t] \in Outside /\ op'[t] = p
  BY <1>1, <1>3 DEF Outside, FdParts, PlacesOK
<1> HIDE DEF p
<1>5. FdTypeOK' /\ Stored'
  BY <1>1 DEF FdParts, FdTypeOK, Stored, objects, buffered
<1>6. Using(t)' = {f} /\ LookedUp(t)' /\ Hears(t)'
  <2>1. op'[t].at = "try" /\ op'[t].fd = f /\ op'[t].of = fds[f] /\ op'[t].way = way
    BY <1>4 DEF p
  <2> QED
    BY <1>1, <2>1 DEF Using, LookedUp, Hears
<1>7. \A g \in Named : Kept(g)
  BY <1>1 DEF Kept, readable, objects, buffered
<1> QED
  BY <1>1, <1>4, <1>5, <1>6, <1>7, UserStep, Zenon DEF objects


\* A transfer that ends.
LEMMA ReturnStep ==
    ASSUME FdParts, NEW t \in Callers, op[t] \in Outside, Goto(t, InUser),
           UNCHANGED <<fds, used, ends, bound>>, FdTypeOK', Stored',
           \A f \in Named \ Using(t) : Kept(f)
    PROVE  FdParts'
<1>1. op' = [op EXCEPT ![t] = InUser] /\ InUser \in Outside /\ op'[t] = InUser
  BY DEF Goto, Outside, FdParts, PlacesOK
<1>2. op'[t].at = "user"
  BY <1>1 DEF InUser
<1>3. Using(t)' = {} /\ LookedUp(t)' /\ Hears(t)'
  BY <1>2 DEF Using, LookedUp, Hears
<1> QED
  BY <1>1, <1>3, UserStep, Zenon

LEMMA SameStored ==
    ASSUME FdTypeOK, Stored, UNCHANGED <<fds, used, ring, pipe_head, pipe_tail>>
    PROVE  Stored'
BY DEF Stored, buffered

\* A transfer with nothing to do returns, or sleeps having found nothing.
LEMMA PauseStep ==
    ASSUME FdParts, NEW t \in Callers, op[t].at = "try", Pause(t),
           UNCHANGED <<fds, used, objects, signals, mail, bound>>,
           ~readable(op[t].of), Note(t) = notification(op[t].of)
    PROVE  FdParts'
<1>1. FdTypeOK' /\ Stored'
  BY SameStored DEF FdParts, FdTypeOK, objects
<1>2. \A f \in Named : Kept(f)
  BY DEF Kept, readable, objects, buffered
<1>3. op[t] \in Transfers /\ op[t] \in Outside
  BY Trying
<1>4. CASE ~op[t].patient
  BY <1>1, <1>2, <1>3, <1>4, ReturnStep DEF Pause, objects
<1>5. CASE op[t].patient
  <2> DEFINE p == [op[t] EXCEPT !.at = "wait"]
  <2>1. p \in Transfers /\ p \in Outside /\ op' = [op EXCEPT ![t] = p] /\ op'[t] = p
    BY <1>3, <1>5 DEF Transfers, Outside, Pause, Goto, FdParts, PlacesOK
  <2>2. p.at = "wait" /\ p.fd = op[t].fd /\ p.of = op[t].of /\ p.way = op[t].way
    BY <1>3 DEF Transfers
  <2> HIDE DEF p
  <2>3. Using(t)' = {op[t].fd} /\ Using(t) = {op[t].fd}
    BY <2>1, <2>2 DEF Using
  <2>4. LookedUp(t) /\ op[t].of = fds[op[t].fd]
    BY DEF FdParts, Current, LookedUp
  <2>5. Note(t)' = Note(t)
    BY <2>1, <2>2 DEF Note
  <2>6. notification(op[t].of)' = notification(op[t].of) /\ op'[t].of = op[t].of /\ notification(op'[t].of) = notification(op[t].of)
    BY <2>1, <2>2 DEF notification
  <2>7. LookedUp(t)'
    BY <2>1, <2>2, <2>4, <2>5, <2>6 DEF LookedUp
  <2>8. ~readable(fds[op[t].fd])'
    <3>1. op[t].of.kind \in {"event", "pipe", "endpoint"}
      BY KindShape, Trying
    <3> QED
      BY <2>1, <2>2, <2>4, <3>1 DEF readable, objects, buffered
  <2>9. Hears(t)'
    <3>1. fds'[op[t].fd] = fds[op[t].fd]
      OBVIOUS
    <3>2. Heard(op[t].fd)'
      BY <2>1, <2>2, <2>8 DEF Heard
    <3> QED
      BY <2>1, <2>2, <2>3, <3>2 DEF Hears
  <2> QED
    BY <1>1, <1>2, <1>3, <2>1, <2>3, <2>7, <2>9, UserStep, Zenon DEF objects
<1> QED
  BY <1>4, <1>5

\* What a transfer does to one object reaches only the other end of its pipe.
LEMMA OthersKept ==
    ASSUME FdParts, NEW t \in Callers, op[t].at \in {"try", "wait"},
           UNCHANGED <<fds, ends>>, mail' > 0 => mail > 0,
           \A s \in Slots \ {op[t].of.slot} : /\ counter'[s] = counter[s]
                                              /\ pipe_head'[s] = pipe_head[s] /\ pipe_tail'[s] = pipe_tail[s],
           \A n \in Notes : n # notification(op[t].of) /\ signals[n] > 0 => signals'[n] > 0,
           NEW f \in Named \ Using(t),
           fds[f].slot = op[t].of.slot /\ fds[f].kind = "pipe" /\ op[t].of.kind = "pipe" /\ fds[f].write # op[t].of.write
           => signals'[notification(fds[f])] > 0 \/ (readable(fds[f])' => readable(fds[f]))
    PROVE  Kept(f)
<1>1. /\ fds[f] \in Kinds /\ Apart(fds[f], op[t].of)
      /\ notification(fds[f]) # notification(op[t].of)
  BY Trying
<1>2. signals[notification(fds[f])] > 0 => signals'[notification(fds[f])] > 0
  BY <1>1, KindShape
<1>3. CASE fds[f].slot = op[t].of.slot
  BY <1>1, <1>2, <1>3 DEF Apart, Kept
<1>4. CASE fds[f].slot # op[t].of.slot
  <2>1. fds[f].slot \in Slots \ {op[t].of.slot} /\ fds[f].kind \in {"event", "pipe", "endpoint"}
    BY <1>1, <1>4, KindShape
  <2>2. readable(fds[f])' => readable(fds[f])
    <3>1. CASE fds[f].kind = "event"
      BY <2>1, <3>1 DEF readable
    <3>2. CASE fds[f].kind = "pipe"
      BY <2>1, <3>2 DEF readable, buffered
    <3>3. CASE fds[f].kind = "endpoint"
      BY <2>1, <3>3 DEF readable
    <3> QED
      BY <2>1, <3>1, <3>2, <3>3
  <2> QED
    BY <1>2, <2>2 DEF Kept
<1> QED
  BY <1>3, <1>4

LEMMA ReadEventStep ==
    ASSUME FdParts, NEW t \in Callers, read_event(t)
    PROVE  FdParts'
<1> DEFINE s == op[t].of.slot
<1>1. /\ op[t].at = "try" /\ op[t].of.kind = "event" /\ op[t].way = "read"
      /\ UNCHANGED <<fds, nonblock, used, ring, pipe_head, pipe_tail, ends, mail, bound, shared, calls>>
  BY DEF read_event, Doing
<1>2. op[t].of \in Kinds /\ s \in Slots /\ op[t] \in Outside
  BY <1>1, Trying
<1>3. Stored'
  BY <1>1, SameStored DEF FdParts
<1>4. CASE counter[s] > 0
  <2>1. /\ counter' = [counter EXCEPT ![s] = IF op[t].of.semaphore THEN @ - 1 ELSE 0]
        /\ signals' = signalled(signals, {<<s, "writable">>}) /\ Goto(t, InUser)
    BY <1>4 DEF read_event
  <2>2. FdTypeOK'
    <3>1. signals' \in [Notes -> Nat]
      BY <2>1, SignalledTypes, Zenon DEF FdParts, FdTypeOK
    <3>2. counter' \in [Slots -> Nat]
      BY <1>2, <1>4, <2>1 DEF FdParts, FdTypeOK
    <3> QED
      BY <1>1, <3>1, <3>2 DEF FdParts, FdTypeOK
  <2>3. \A n \in Notes : signals[n] > 0 => signals'[n] > 0
    BY <2>1, SignalledTypes, Zenon DEF FdParts, FdTypeOK
  <2>4. \A r \in Slots \ {s} : counter'[r] = counter[r]
    BY <2>1 DEF FdParts, FdTypeOK
  <2>5. \A f \in Named \ Using(t) : Kept(f)
    BY <1>1, <2>3, <2>4, OthersKept
  <2> QED
    BY <1>1, <1>2, <1>3, <2>1, <2>2, <2>5, ReturnStep
<1>5. CASE ~(counter[s] > 0)
  <2>1. Pause(t) /\ UNCHANGED <<counter, signals>>
    BY <1>5 DEF read_event
  <2>2. ~readable(op[t].of) /\ Note(t) = notification(op[t].of)
    BY <1>1, <1>5 DEF readable, Note, notification
  <2> QED
    BY <1>1, <2>1, <2>2, PauseStep DEF objects
<1> QED
  BY <1>4, <1>5

LEMMA WriteEventStep ==
    ASSUME FdParts, NEW t \in Callers, write_event(t)
    PROVE  FdParts'
<1> DEFINE s == op[t].of.slot
<1>1. /\ op[t].at = "try" /\ op[t].of.kind = "event"
      /\ counter' = [counter EXCEPT ![s] = @ + 1]
      /\ signals' = signalled(signals, {<<s, "readable">>}) /\ Goto(t, InUser)
      /\ UNCHANGED <<fds, nonblock, used, ring, pipe_head, pipe_tail, ends, mail, bound, shared, calls>>
  BY DEF write_event, Doing
<1>2. op[t].of \in Kinds /\ s \in Slots /\ op[t] \in Outside
  BY <1>1, Trying
<1>3. Stored'
  BY <1>1, SameStored DEF FdParts
<1>4. FdTypeOK'
  <2>1. signals' \in [Notes -> Nat]
    BY <1>1, SignalledTypes, Zenon DEF FdParts, FdTypeOK
  <2>2. counter' \in [Slots -> Nat]
    BY <1>1, <1>2 DEF FdParts, FdTypeOK
  <2> QED
    BY <1>1, <2>1, <2>2, Zenon DEF FdParts, FdTypeOK
<1>5. \A n \in Notes : signals[n] > 0 => signals'[n] > 0
  BY <1>1, SignalledTypes, Zenon DEF FdParts, FdTypeOK
<1>6. \A r \in Slots \ {s} : counter'[r] = counter[r]
  BY <1>1 DEF FdParts, FdTypeOK
<1>7. \A f \in Named \ Using(t) : Kept(f)
  BY <1>1, <1>5, <1>6, OthersKept, Zenon
<1> QED
  BY <1>1, <1>2, <1>3, <1>4, <1>7, ReturnStep

LEMMA ReadPipeStep ==
    ASSUME FdParts, NEW t \in Callers, read_pipe(t)
    PROVE  FdParts'
<1> DEFINE s == op[t].of.slot
           n == Min({buffered(s), op[t].left})
<1>1. /\ op[t].at = "try" /\ op[t].of.kind = "pipe" /\ op[t].way = "read"
      /\ UNCHANGED <<fds, nonblock, used, counter, ring, pipe_tail, ends, mail, bound, shared, calls>>
  BY DEF read_pipe, Doing
<1>2. op[t].of \in Kinds /\ s \in Slots /\ s \in used /\ op[t] \in Outside /\ op[t] \in Transfers
  BY <1>1, Trying
<1>3. LookedUp(t) /\ ~op[t].of.write
  BY <1>1, <1>2, KindShape DEF FdParts, Current, LookedUp
<1>4. CASE buffered(s) > 0
  <2>1. /\ pipe_head' = [pipe_head EXCEPT ![s] = @ + n]
        /\ signals' = signalled(signals, {<<s, "writable">>}) /\ Goto(t, InUser)
    BY <1>4 DEF read_pipe
  <2>2. pipe_head[s] \in Nat /\ pipe_tail[s] \in Nat /\ op[t].left \in Nat
    BY <1>2 DEF FdParts, FdTypeOK, Transfers
  <2>3. buffered(s) \in Int /\ n \in Nat /\ n <= buffered(s)
    <3>1. buffered(s) \in Int
      BY <2>2 DEF buffered
    <3>2. \A x, y \in Int : Min({x, y}) \in {x, y} /\ Min({x, y}) <= x
      BY MinOfTwo
    <3>3. n \in {buffered(s), op[t].left} /\ n <= buffered(s)
      BY <2>2, <3>1, <3>2
    <3> QED
      BY <1>4, <2>2, <3>1, <3>3
  <2> HIDE DEF n
  <2>4. FdTypeOK'
    <3>1. signals' \in [Notes -> Nat]
      BY <2>1, SignalledTypes, Zenon DEF FdParts, FdTypeOK
    <3>2. pipe_head' \in [Slots -> Nat]
      BY <1>2, <2>1, <2>2, <2>3, SMTT(30) DEF FdParts, FdTypeOK
    <3> QED
      BY <1>1, <3>1, <3>2 DEF FdParts, FdTypeOK
  <2>5. \A r \in Slots : pipe_head'[r] = IF r = s THEN pipe_head[s] + n ELSE pipe_head[r]
    BY <2>1 DEF FdParts, FdTypeOK
  <2>6. Stored'
    <3>1. SUFFICES ASSUME NEW r \in used
                   PROVE  /\ buffered(r)' \in 0..PIPE_CAPACITY
                          /\ \A j \in pipe_head'[r]..(pipe_tail[r] - 1) : ring[r][j % PIPE_CAPACITY] = j
      BY <1>1 DEF Stored
    <3>2. r \in Slots /\ pipe_head[r] \in Nat /\ pipe_tail[r] \in Nat /\ PIPE_CAPACITY \in Nat
      BY DescriptorsAssumption DEF FdParts, FdTypeOK
    <3>3. /\ buffered(r) \in 0..PIPE_CAPACITY
          /\ \A j \in pipe_head[r]..(pipe_tail[r] - 1) : ring[r][j % PIPE_CAPACITY] = j
      BY DEF FdParts, Stored
    <3>4. pipe_head'[r] \in Nat /\ pipe_head[r] <= pipe_head'[r] /\ pipe_head'[r] <= pipe_tail[r]
      BY <2>2, <2>3, <2>5, <3>2, <3>3 DEF buffered
    <3> QED
      BY <1>1, <3>2, <3>3, <3>4 DEF buffered
  <2>7. /\ \A m \in Notes : signals[m] > 0 => signals'[m] > 0
        /\ <<s, "writable">> \in Notes /\ signals'[<<s, "writable">>] > 0
    BY <1>2, <2>1, SignalledTypes DEF FdParts, FdTypeOK, Notes
  <2>8. ASSUME NEW f \in Named \ Using(t) PROVE Kept(f)
    <3>1. ASSUME fds[f].slot = op[t].of.slot, fds[f].kind = "pipe", fds[f].write # op[t].of.write
          PROVE  signals'[notification(fds[f])] > 0
      <4>1. fds[f].write
        BY <1>1, <1>2, <1>3, <3>1, Trying, KindShape
      <4> QED
        BY <2>7, <3>1, <4>1 DEF notification
    <3> QED
      BY <1>1, <2>5, <2>7, <3>1, OthersKept
  <2> QED
    BY <1>1, <1>2, <2>1, <2>4, <2>6, <2>8, ReturnStep
<1>5. CASE ~(buffered(s) > 0)
  <2>1. (IF ends[s] < 2 THEN Goto(t, InUser) ELSE Pause(t)) /\ UNCHANGED <<pipe_head, signals>>
    BY <1>5 DEF read_pipe
  <2>2. CASE ends[s] < 2
    <3>1. FdTypeOK' /\ Stored'
      BY <1>1, <2>1, SameStored DEF FdParts, FdTypeOK
    <3>2. \A f \in Named : Kept(f)
      BY <1>1, <2>1 DEF Kept, readable, buffered
    <3> QED
      BY <1>1, <1>2, <2>1, <2>2, <3>1, <3>2, ReturnStep
  <2>3. CASE ~(ends[s] < 2)
    <3>1. ~readable(op[t].of)
      BY <1>1, <1>3, <1>5, <2>3 DEF readable
    <3>2. Note(t) = notification(op[t].of)
      BY <1>1, <1>3 DEF Note, notification
    <3> QED
      BY <1>1, <2>1, <2>3, <3>1, <3>2, PauseStep DEF objects
  <2> QED
    BY <2>2, <2>3
<1> QED
  BY <1>4, <1>5

\* Two places of a window of the ring are different places of the ring.
LEMMA WindowApart ==
    ASSUME NEW c \in Nat \ {0}, NEW i \in Nat, NEW j \in Nat, i <= j, j - i < c, i % c = j % c
    PROVE  i = j
<1> DEFINE a == i \div c
           b == j \div c
<1>1. i = c * a + (i % c) /\ j = c * b + (j % c)
  OBVIOUS
<1>2. i % c \in 0..(c - 1) /\ j % c \in 0..(c - 1)
  OBVIOUS
<1>3. a \in Int /\ b \in Int
  OBVIOUS
<1> HIDE DEF a, b
<1>4. c * b - c * a = j - i
  BY <1>1, <1>2, <1>3
<1>5. PICK d \in Int : d = b - a
  BY <1>3
<1>6. c * b - c * a = c * d
  BY <1>3, <1>5, Z3
<1>7. CASE d >= 1
  <2>1. c * d >= c
    BY <1>7, <1>5
  <2> QED
    BY <1>4, <1>6, <2>1
<1>8. CASE d < 0
  <2>1. c * d < 0
    BY <1>8, <1>5
  <2> QED
    BY <1>4, <1>6, <2>1
<1>9. CASE d = 0
  BY <1>4, <1>6, <1>9
<1> QED
  BY <1>5, <1>7, <1>8, <1>9

\* Bytes put at their places of a ring that has room are there, and the ones
\* before them still are: m[j] is the place of byte j, e the first byte put.
Windows(m, c) == \A i, j \in Nat : i <= j /\ j - i < c /\ m[i] = m[j] => i = j

Room(c, m, h, e, n, r) ==
    /\ c \in Nat \ {0} /\ m \in [Nat -> 0..(c - 1)] /\ Windows(m, c) /\ h \in Nat /\ e \in Nat /\ n \in Nat \ {0}
    /\ h <= e /\ e - h + n <= c /\ r \in [0..(c - 1) -> Nat]
Put(new, r, m, e, n) ==
    new = [i \in DOMAIN r |-> IF \E k \in 0..(n - 1) : m[e + k] = i
                              THEN Max({j \in e..(e + n - 1) : m[j] = i}) ELSE r[i]]
RingHolds(c, m, h, e, n, r, new) ==
    /\ new \in [0..(c - 1) -> Nat]
    /\ (\A j \in h..(e - 1) : r[m[j]] = j) => \A j \in h..(e + n - 1) : new[m[j]] = j

LEMMA Placing == \A c, m, h, e, n, r, new :
                    Room(c, m, h, e, n, r) /\ Put(new, r, m, e, n) => RingHolds(c, m, h, e, n, r, new)
<1> SUFFICES ASSUME NEW c, NEW m, NEW h, NEW e, NEW n, NEW r, Room(c, m, h, e, n, r)
             PROVE  \A new : Put(new, r, m, e, n) => RingHolds(c, m, h, e, n, r, new)
  BY Zenon
<1>0. /\ c \in Nat \ {0} /\ m \in [Nat -> 0..(c - 1)] /\ Windows(m, c) /\ h \in Nat /\ e \in Nat /\ n \in Nat \ {0}
      /\ h <= e /\ e - h + n <= c /\ r \in [0..(c - 1) -> Nat]
  BY Zenon DEF Room
<1> DEFINE q == [i \in DOMAIN r |-> IF \E k \in 0..(n - 1) : m[e + k] = i
                                    THEN Max({j \in e..(e + n - 1) : m[j] = i}) ELSE r[i]]
<1>1. n <= c
  BY <1>0
<1>2. DOMAIN r = 0..(c - 1)
  BY <1>0
<1>3. ASSUME NEW j \in e..(e + n - 1)
      PROVE  q[m[j]] = j
  <2>1. ASSUME NEW l \in e..(e + n - 1), m[l] = m[j] PROVE l = j
    <3>1. j \in Nat /\ l \in Nat
      BY <1>0
    <3>2. l - j < c
      BY <1>0, <1>1
    <3>3. j - l < c
      BY <1>0, <1>1
    <3>4. l <= j \/ j <= l
      BY <1>0, <3>1
    <3> QED
      BY <1>0, <2>1, <3>1, <3>2, <3>3, <3>4 DEF Windows
  <2>2. {l \in e..(e + n - 1) : m[l] = m[j]} = {j}
    BY <1>0, <2>1, Zenon
  <2>3. j \in Nat /\ j - e \in 0..(n - 1)
    BY <1>0
  <2>4. e + (j - e) = j
    BY <1>0, <2>3
  <2>5. m[j] \in 0..(c - 1)
    BY <1>0, <2>3, Zenon
  <2>6. \E k \in 0..(n - 1) : m[e + k] = m[j]
    BY <1>0, <2>3, <2>4, Zenon
  <2>7. q[m[j]] = Max({j})
    BY <1>0, <1>2, <2>2, <2>5, <2>6, Zenon
  <2> HIDE DEF q
  <2>8. Max({j}) = j
    BY <1>0, <2>3 DEF Max
  <2> QED
    BY <1>0, <2>7, <2>8
<1>4. ASSUME NEW i \in 0..(c - 1), \A j \in e..(e + n - 1) : m[j] # i
      PROVE  q[i] = r[i]
  <2>1. ASSUME NEW k \in 0..(n - 1) PROVE m[e + k] # i
    <3>1. e + k \in e..(e + n - 1)
      BY <1>0
    <3> QED
      BY <1>0, <1>4, <3>1, Zenon
  <2> QED
    BY <1>0, <1>2, <2>1, Zenon
<1>5. q = [i \in 0..(c - 1) |-> q[i]]
  BY <1>0, <1>2
<1> HIDE DEF q
<1>6. ASSUME NEW i \in 0..(c - 1) PROVE q[i] \in Nat
  <2>1. ASSUME NEW j \in e..(e + n - 1), m[j] = i PROVE q[i] \in Nat
    <3>1. q[i] = j
      BY <1>0, <1>3, <2>1, Zenon
    <3> QED
      BY <1>0, <3>1
  <2>2. CASE \A j \in e..(e + n - 1) : m[j] # i
    <3>1. q[i] = r[i]
      BY <1>0, <1>4, <2>2, Zenon
    <3> QED
      BY <1>0, <3>1, Zenon
  <2> QED
    BY <1>0, <2>1, <2>2
<1>7. ASSUME NEW j \in h..(e + n - 1), j \in h..(e - 1) => r[m[j]] = j
      PROVE  q[m[j]] = j
  <2>1. CASE j >= e
    BY <1>0, <1>3, <2>1
  <2>2. CASE j < e
    <3>1. ASSUME NEW l \in e..(e + n - 1), m[l] = m[j] PROVE FALSE
      <4>1. j \in Nat /\ l \in Nat /\ h <= j /\ e <= l /\ l <= e + n - 1
        BY <1>0
      <4>2. j <= l /\ j # l
        BY <1>0, <2>2, <4>1
      <4>3. l - j < c
        BY <1>0, <4>1
      <4> QED
        BY <1>0, <3>1, <4>1, <4>2, <4>3 DEF Windows
    <3>2. j \in Nat
      BY <1>0
    <3>3. m[j] \in 0..(c - 1)
      BY <1>0, <3>2, Zenon
    <3>4. j \in h..(e - 1)
      BY <1>0, <2>2
    <3>5. q[m[j]] = r[m[j]]
      BY <1>0, <1>4, <3>1, <3>3, Zenon
    <3> QED
      BY <1>0, <1>7, <3>4, <3>5
  <2> QED
    BY <1>0, <2>1, <2>2
<1>8. q \in [0..(c - 1) -> Nat]
  BY <1>0, <1>5, <1>6
<1>9. (\A j \in h..(e - 1) : r[m[j]] = j) => \A j \in h..(e + n - 1) : q[m[j]] = j
  BY <1>0, <1>7
<1> QED
  BY <1>0, <1>8, <1>9, Zenon DEF q, Put, RingHolds

LEMMA WritePipeStep ==
    ASSUME FdParts, NEW t \in Callers, write_pipe(t)
    PROVE  FdParts'
<1> DEFINE s == op[t].of.slot
           n == Min({room(s), op[t].left})
<1>1. /\ op[t].at = "try" /\ op[t].of.kind = "pipe" /\ op[t].way = "write"
      /\ UNCHANGED <<fds, nonblock, used, counter, pipe_head, ends, mail, bound, shared, calls>>
  BY DEF write_pipe, Doing
<1>2. op[t].of \in Kinds /\ s \in Slots /\ s \in used /\ op[t] \in Outside /\ op[t] \in Transfers
  BY <1>1, Trying
<1>3. LookedUp(t) /\ op[t].of.write
  BY <1>1, <1>2, KindShape DEF FdParts, Current, LookedUp
<1>4. pipe_head[s] \in Nat /\ pipe_tail[s] \in Nat /\ op[t].left \in Nat /\ PIPE_CAPACITY \in Nat \ {0}
  BY <1>2, DescriptorsAssumption DEF FdParts, FdTypeOK, Transfers
<1>5. buffered(s) \in 0..PIPE_CAPACITY /\ room(s) \in Nat
  BY <1>2, <1>4 DEF FdParts, Stored, room
<1>6. n \in {room(s), op[t].left} /\ n <= room(s) /\ n <= op[t].left
  <2>1. \A x, y \in Int : Min({x, y}) \in {x, y} /\ Min({x, y}) <= x /\ Min({x, y}) <= y
    BY MinOfTwo
  <2>2. room(s) \in Int /\ op[t].left \in Int
    BY <1>4, <1>5
  <2> QED
    BY <2>1, <2>2, Zenon
<1>7. n \in Nat
  BY <1>4, <1>5, <1>6
<1>8. CASE ends[s] < 2 \/ op[t].left = 0
  <2>1. Goto(t, InUser) /\ UNCHANGED <<ring, pipe_tail, signals>>
    BY <1>8 DEF write_pipe
  <2>2. FdTypeOK' /\ Stored'
    BY <1>1, <2>1, SameStored DEF FdParts, FdTypeOK
  <2>3. \A f \in Named : Kept(f)
    BY <1>1, <2>1 DEF Kept, readable, buffered
  <2> QED
    BY <1>1, <1>2, <2>1, <2>2, <2>3, ReturnStep
<1>9. CASE ~(ends[s] < 2 \/ op[t].left = 0) /\ n > 0
  <2>1. /\ ring' = [ring EXCEPT ![s] = [i \in DOMAIN @ |->
              IF \E k \in 0..(n - 1) : (pipe_tail[s] + k) % PIPE_CAPACITY = i
              THEN Max({j \in pipe_tail[s]..(pipe_tail[s] + n - 1) : j % PIPE_CAPACITY = i}) ELSE @[i]]]
        /\ pipe_tail' = [pipe_tail EXCEPT ![s] = @ + n]
        /\ signals' = signalled(signals, {<<s, "readable">>})
        /\ Goto(t, [op[t] EXCEPT !.left = @ - n])
    BY <1>9 DEF write_pipe
  <2> HIDE DEF n
  <2>2. \A r \in Slots : pipe_tail'[r] = IF r = s THEN pipe_tail[s] + n ELSE pipe_tail[r]
    BY <2>1 DEF FdParts, FdTypeOK
  <2>3. pipe_tail' \in [Slots -> Nat]
    BY <1>2, <1>4, <1>7, <2>1 DEF FdParts, FdTypeOK
  <2>4. /\ ring'[s] \in [0..(PIPE_CAPACITY - 1) -> Nat]
        /\ \A j \in pipe_head[s]..(pipe_tail[s] + n - 1) : ring'[s][j % PIPE_CAPACITY] = j
    <3> DEFINE m == [j \in Nat |-> j % PIPE_CAPACITY]
               old == ring[s]
               h == pipe_head[s]
               e == pipe_tail[s]
    <3>1. m \in [Nat -> 0..(PIPE_CAPACITY - 1)]
      BY <1>4
    <3>2. Windows(m, PIPE_CAPACITY)
      BY <1>4, WindowApart, Zenon DEF Windows
    <3>3. h \in Nat /\ e \in Nat /\ h <= e /\ e - h + n <= PIPE_CAPACITY /\ n \in Nat \ {0}
      BY <1>4, <1>5, <1>6, <1>7, <1>9 DEF buffered, room
    <3>4. old \in [0..(PIPE_CAPACITY - 1) -> Nat]
      BY <1>2 DEF FdParts, FdTypeOK
    <3>5. ring'[s] = [i \in DOMAIN old |-> IF \E k \in 0..(n - 1) : (e + k) % PIPE_CAPACITY = i
                                           THEN Max({j \in e..(e + n - 1) : j % PIPE_CAPACITY = i}) ELSE old[i]]
      BY <1>2, <2>1, Zenon DEF FdParts, FdTypeOK
    <3>6. \A k \in 0..(n - 1) : m[e + k] = (e + k) % PIPE_CAPACITY
      BY <3>3
    <3>7. \A j \in e..(e + n - 1) : m[j] = j % PIPE_CAPACITY
      BY <3>3
    <3>8. \A j \in h..(e - 1) : m[j] = j % PIPE_CAPACITY /\ old[j % PIPE_CAPACITY] = j
      BY <1>2, <3>3 DEF FdParts, Stored
    <3>9. \A j \in h..(e + n - 1) : m[j] = j % PIPE_CAPACITY
      BY <3>3
    <3> HIDE DEF m, old, h, e
    <3>10. ring'[s] = [i \in DOMAIN old |-> IF \E k \in 0..(n - 1) : m[e + k] = i
                                            THEN Max({j \in e..(e + n - 1) : m[j] = i}) ELSE old[i]]
      <4>1. \A i : {j \in e..(e + n - 1) : m[j] = i} = {j \in e..(e + n - 1) : j % PIPE_CAPACITY = i}
        BY <3>7
      <4>2. \A i : (\E k \in 0..(n - 1) : m[e + k] = i) <=> (\E k \in 0..(n - 1) : (e + k) % PIPE_CAPACITY = i)
        BY <3>6
      <4>3. \A i : (IF \E k \in 0..(n - 1) : (e + k) % PIPE_CAPACITY = i
                    THEN Max({j \in e..(e + n - 1) : j % PIPE_CAPACITY = i}) ELSE old[i])
                   = (IF \E k \in 0..(n - 1) : m[e + k] = i
                      THEN Max({j \in e..(e + n - 1) : m[j] = i}) ELSE old[i])
        BY <4>1, <4>2, Zenon
      <4> QED
        BY <3>5, <4>3, Zenon
    <3>11. /\ ring'[s] \in [0..(PIPE_CAPACITY - 1) -> Nat]
           /\ (\A j \in h..(e - 1) : old[m[j]] = j) => \A j \in h..(e + n - 1) : ring'[s][m[j]] = j
      <4>1. Room(PIPE_CAPACITY, m, h, e, n, old)
        BY <1>4, <3>1, <3>2, <3>3, <3>4, Zenon DEF Room
      <4>2. Put(ring'[s], old, m, e, n)
        BY <3>10, Zenon DEF Put
      <4>3. RingHolds(PIPE_CAPACITY, m, h, e, n, old, ring'[s])
        BY <4>1, <4>2, Placing, Zenon
      <4> QED
        BY <4>3, Zenon DEF RingHolds
    <3>12. \A j \in h..(e - 1) : old[m[j]] = j
      BY <3>8
    <3> QED
      BY <3>9, <3>11, <3>12 DEF h, e
  <2>5. \A r \in Slots : r # s => ring'[r] = ring[r]
    BY <2>1 DEF FdParts, FdTypeOK
  <2>6. ring' \in [Slots -> [0..(PIPE_CAPACITY - 1) -> Nat]]
    <3>1. DOMAIN ring' = Slots
      BY <2>1 DEF FdParts, FdTypeOK
    <3>2. \A r \in Slots : ring'[r] \in [0..(PIPE_CAPACITY - 1) -> Nat]
      BY <2>4, <2>5, Zenon DEF FdParts, FdTypeOK
    <3>3. ring' = [r \in Slots |-> ring'[r]]
      BY <2>1, <3>1, Zenon DEF FdParts, FdTypeOK
    <3> QED
      BY <3>2, <3>3
  <2>7. FdTypeOK'
    <3>1. signals' \in [Notes -> Nat]
      BY <2>1, SignalledTypes, Zenon DEF FdParts, FdTypeOK
    <3> QED
      BY <1>1, <2>3, <2>6, <3>1 DEF FdParts, FdTypeOK
  <2>8. Stored'
    <3>1. ASSUME NEW r \in used
          PROVE  /\ buffered(r)' \in 0..PIPE_CAPACITY
                 /\ \A j \in pipe_head[r]..(pipe_tail'[r] - 1) : ring'[r][j % PIPE_CAPACITY] = j
      <4>1. CASE r # s
        <5>1. r \in Slots /\ pipe_tail'[r] = pipe_tail[r] /\ ring'[r] = ring[r]
          BY <2>2, <2>5, <4>1 DEF FdParts, FdTypeOK
        <5> QED
          BY <1>1, <5>1 DEF FdParts, Stored, buffered
      <4>2. CASE r = s
        <5>0. pipe_tail'[r] = pipe_tail[s] + n
          BY <1>2, <2>2, <4>2
        <5>1. buffered(r)' = buffered(s) + n
          BY <1>1, <1>4, <1>7, <4>2, <5>0 DEF buffered
        <5>2. buffered(s) + n \in 0..PIPE_CAPACITY
          BY <1>4, <1>5, <1>6, <1>7 DEF room
        <5>3. pipe_head[r]..(pipe_tail'[r] - 1) = pipe_head[s]..(pipe_tail[s] + n - 1)
          <6>1. pipe_tail'[r] - 1 = pipe_tail[s] + n - 1
            BY <1>4, <1>7, <5>0
          <6> QED
            BY <4>2, <6>1, Zenon
        <5>4. \A j \in pipe_head[r]..(pipe_tail'[r] - 1) : ring'[r][j % PIPE_CAPACITY] = j
          BY <2>4, <4>2, <5>3, Zenon
        <5> QED
          BY <5>1, <5>2, <5>4, Zenon
      <4> QED
        BY <4>1, <4>2
    <3> QED
      BY <1>1, <3>1 DEF Stored
  <2>9. /\ \A k \in Notes : signals[k] > 0 => signals'[k] > 0
        /\ <<s, "readable">> \in Notes /\ signals'[<<s, "readable">>] > 0
    BY <1>2, <2>1, SignalledTypes, Zenon DEF FdParts, FdTypeOK, Notes
  <2>10. ASSUME NEW f \in Named \ Using(t) PROVE Kept(f)
    <3>1. ASSUME fds[f].slot = op[t].of.slot, fds[f].kind = "pipe", fds[f].write # op[t].of.write
          PROVE  signals'[notification(fds[f])] > 0
      <4>1. ~fds[f].write
        BY <1>1, <1>2, <1>3, <3>1, Trying, KindShape, Zenon
      <4> QED
        BY <2>9, <3>1, <4>1 DEF notification
    <3> QED
      BY <1>1, <2>2, <2>9, <3>1, OthersKept
  <2>11. PICK p \in Transfers : /\ op' = [op EXCEPT ![t] = p] /\ p.at = "try" /\ p.fd = op[t].fd
                                /\ p.of = op[t].of /\ p.way = op[t].way
    <3> DEFINE p == [op[t] EXCEPT !.left = @ - n]
    <3>1. p \in Transfers /\ p.at = "try" /\ p.fd = op[t].fd /\ p.of = op[t].of /\ p.way = op[t].way
      BY <1>1, <1>2, <1>4, <1>6, <1>7 DEF Transfers
    <3>2. op' = [op EXCEPT ![t] = p]
      BY <2>1 DEF Goto
    <3> QED
      BY <3>1, <3>2, Zenon
  <2>12. p \in Outside /\ op'[t] = p
    BY <2>11 DEF Outside, FdParts, PlacesOK
  <2>13. Using(t)' = Using(t) /\ LookedUp(t)' /\ Hears(t)'
    BY <1>1, <1>3, <2>11, <2>12, ZenonT(30) DEF Using, LookedUp, Hears
  <2> QED
    BY <1>1, <1>2, <2>7, <2>8, <2>10, <2>11, <2>12, <2>13, UserStep, Zenon
<1>10. CASE ~(ends[s] < 2 \/ op[t].left = 0) /\ ~(n > 0)
  <2>1. Pause(t) /\ UNCHANGED <<ring, pipe_tail, signals>>
    BY <1>10 DEF write_pipe
  <2>2. room(s) = 0
    BY <1>4, <1>5, <1>6, <1>10
  <2>3. ~readable(op[t].of)
    BY <1>1, <1>3, <1>4, <1>5, <1>10, <2>2 DEF readable, room
  <2>4. Note(t) = notification(op[t].of)
    BY <1>1, <1>3 DEF Note, notification
  <2> QED
    BY <1>1, <2>1, <2>3, <2>4, PauseStep DEF objects
<1> QED
  BY <1>8, <1>9, <1>10
LEMMA ReadEndpointStep ==
    ASSUME FdParts, NEW t \in Callers, read_endpoint(t)
    PROVE  FdParts'
<1>1. /\ op[t].at = "try" /\ mail > 0 /\ mail' = mail - 1 /\ Goto(t, InUser)
      /\ UNCHANGED <<fds, nonblock, used, objects, signals, bound, shared, calls>>
  BY DEF read_endpoint, Doing
<1>2. op[t] \in Outside
  BY <1>1, Trying
<1>3. mail' \in Nat
  BY <1>1 DEF FdParts, FdTypeOK
<1>4. FdTypeOK' /\ Stored'
  BY <1>1, <1>3, SameStored, Zenon DEF FdParts, FdTypeOK, objects
<1>5. \A f \in Named : Kept(f)
  BY <1>1, <1>3 DEF Kept, readable, objects, buffered
<1> QED
  BY <1>1, <1>2, <1>4, <1>5, ReturnStep DEF objects

LEMMA WriteEndpointStep ==
    ASSUME FdParts, NEW t \in Callers, write_endpoint(t)
    PROVE  FdParts'
<1>1. /\ op[t].at = "try" /\ Goto(t, InUser)
      /\ UNCHANGED <<fds, nonblock, used, objects, signals, mail, bound, shared, calls>>
  BY DEF write_endpoint, Doing
<1>2. op[t] \in Outside
  BY <1>1, Trying
<1>3. FdTypeOK' /\ Stored'
  BY <1>1, SameStored DEF FdParts, FdTypeOK, objects
<1>4. \A f \in Named : Kept(f)
  BY <1>1 DEF Kept, readable, objects, buffered
<1> QED
  BY <1>1, <1>2, <1>3, <1>4, ReturnStep DEF objects

\* A signal taken is not one another thread sleeps on.
LEMMA WakesStep ==
    ASSUME FdParts, NEW t \in Callers, Wakes(t)
    PROVE  FdParts'
<1> DEFINE p == [op[t] EXCEPT !.at = "try"]
<1>1. /\ op[t].at = "wait" /\ signals[Note(t)] > 0
      /\ signals' = [signals EXCEPT ![Note(t)] = @ - 1] /\ op' = [op EXCEPT ![t] = p]
      /\ UNCHANGED <<fds, nonblock, used, objects, mail, bound, shared, calls>>
  BY DEF Wakes, Goto
<1>2. op[t] \in Transfers /\ op[t] \in Outside /\ op[t].of \in Kinds /\ Using(t) = {op[t].fd}
  BY <1>1, Trying
<1>3. p \in Transfers /\ p.at = "try" /\ p.fd = op[t].fd /\ p.of = op[t].of /\ p.way = op[t].way
  BY <1>2 DEF Transfers
<1> HIDE DEF p
<1>4. p \in Outside /\ op'[t] = p
  BY <1>1, <1>3 DEF Outside, FdParts, PlacesOK
<1>5. LookedUp(t) /\ Note(t) = notification(op[t].of) /\ Note(t) \in Notes
  BY <1>1, <1>2, KindShape DEF FdParts, Current, LookedUp
<1>6. signals' \in [Notes -> Nat]
  BY <1>1, <1>5 DEF FdParts, FdTypeOK
<1>7. FdTypeOK' /\ Stored'
  BY <1>1, <1>6, SameStored DEF FdParts, FdTypeOK, objects
<1>8. Using(t)' = Using(t) /\ LookedUp(t)' /\ Hears(t)'
  BY <1>1, <1>2, <1>3, <1>4, <1>5 DEF Using, LookedUp, Hears
<1>9. ASSUME NEW f \in Named \ Using(t) PROVE Kept(f)
  <2>1. notification(fds[f]) # Note(t) /\ notification(fds[f]) \in Notes
    BY <1>1, <1>5, Trying, KindShape
  <2>2. signals'[notification(fds[f])] = signals[notification(fds[f])]
    BY <1>1, <2>1 DEF FdParts, FdTypeOK
  <2> QED
    BY <1>1, <2>2 DEF Kept, readable, objects, buffered
<1> QED
  BY <1>1, <1>2, <1>4, <1>7, <1>8, <1>9, UserStep, Zenon DEF objects

LEMMA Polling ==
    ASSUME FdParts, NEW t \in Callers, op[t].at \in {"scan", "collect", "poll"}
    PROVE  /\ op[t] \in Polls /\ op[t] \in Outside /\ Using(t) = op[t].set /\ op[t].set \subseteq Named
           /\ \A f \in op[t].set : notification(fds[f]) \in Notes
<1>1. op[t] \in Polls /\ op[t] \in Outside
  BY Shape DEF FdParts, Outside
<1>2. Using(t) = op[t].set
  BY DEF Using
<1>3. op[t].set \subseteq Named
  BY <1>2, UsingNamed DEF FdParts
<1>4. \A f \in Named : fds[f] \in Kinds
  BY DEF Named, FdParts, FdTypeOK
<1> QED
  BY <1>1, <1>2, <1>3, <1>4, KindShape

LEMMA PollStep ==
    ASSUME FdParts, NEW t \in Callers, NEW S \in SUBSET Open \ {{}}, poll(t, S)
    PROVE  FdParts'
<1> DEFINE p == [at |-> "scan", set |-> S, on |-> {}]
<1>1. /\ op[t] = InUser /\ S \cap Busy(t) = {} /\ op' = [op EXCEPT ![t] = p]
      /\ UNCHANGED <<fds, nonblock, used, objects, signals, mail, bound, shared, calls>>
  BY DEF poll, Goto
<1>2. p \in Polls
  BY DEF Polls, Open
<1>3. p \in Outside /\ op[t] \in Outside /\ op'[t] = p
  BY <1>1, <1>2 DEF Outside, FdParts, PlacesOK
<1>4. p.at = "scan" /\ p.set = S
  OBVIOUS
<1> HIDE DEF p
<1>5. FdTypeOK' /\ Stored'
  BY <1>1, SameStored DEF FdParts, FdTypeOK, objects
<1>6. Using(t)' = S /\ LookedUp(t)' /\ Hears(t)'
  BY <1>3, <1>4 DEF Using, LookedUp, Hears
<1>7. \A f \in Named : Kept(f)
  BY <1>1 DEF Kept, readable, objects, buffered
<1>8. Using(t)' \subseteq Open \ Busy(t)
  BY <1>1, <1>6
<1> QED
  BY <1>1, <1>3, <1>5, <1>6, <1>7, <1>8, UserStep, Zenon DEF objects

LEMMA ScanStep ==
    ASSUME FdParts, NEW t \in Callers, Scan(t)
    PROVE  FdParts'
<1> DEFINE p == [op[t] EXCEPT !.at = "collect"]
<1>1. /\ op[t].at = "scan"
      /\ UNCHANGED <<fds, nonblock, used, objects, signals, mail, bound, shared, calls>>
  BY DEF Scan
<1>2. op[t] \in Polls /\ op[t] \in Outside /\ Using(t) = op[t].set /\ op[t].set \subseteq Named
  BY <1>1, Polling
<1>3. FdTypeOK' /\ Stored'
  BY <1>1, SameStored DEF FdParts, FdTypeOK, objects
<1>4. \A f \in Named : Kept(f)
  BY <1>1 DEF Kept, readable, objects, buffered
<1>5. CASE \E f \in op[t].set : readable(fds[f])
  <2>1. Goto(t, InUser)
    BY <1>5 DEF Scan
  <2> QED
    BY <1>1, <1>2, <1>3, <1>4, <2>1, ReturnStep DEF objects
<1>6. CASE ~ \E f \in op[t].set : readable(fds[f])
  <2>1. op' = [op EXCEPT ![t] = p]
    BY <1>6 DEF Scan, Goto
  <2>2. p \in Polls /\ p.at = "collect" /\ p.set = op[t].set
    BY <1>2 DEF Polls
  <2> HIDE DEF p
  <2>3. p \in Outside /\ op'[t] = p
    BY <2>1, <2>2 DEF Outside, FdParts, PlacesOK
  <2>4. Using(t)' = Using(t) /\ LookedUp(t)'
    BY <1>2, <2>2, <2>3 DEF Using, LookedUp
  <2>5. \A f \in Using(t) : Heard(f)'
    BY <1>1, <1>2, <1>6 DEF Heard, readable, objects, buffered
  <2>6. Hears(t)'
    BY <2>4, <2>5 DEF Hears
  <2> QED
    BY <1>1, <1>2, <1>3, <1>4, <2>1, <2>3, <2>4, <2>6, UserStep, Zenon DEF objects
<1> QED
  BY <1>5, <1>6

LEMMA CollectStep ==
    ASSUME FdParts, NEW t \in Callers, Collect(t)
    PROVE  FdParts'
<1> DEFINE on == {notification(fds[f]) : f \in op[t].set}
           p == [op[t] EXCEPT !.at = "poll", !.on = on]
<1>1. /\ op[t].at = "collect" /\ op' = [op EXCEPT ![t] = p]
      /\ UNCHANGED <<fds, nonblock, used, objects, signals, mail, bound, shared, calls>>
  BY DEF Collect, Goto
<1>2. /\ op[t] \in Polls /\ op[t] \in Outside /\ Using(t) = op[t].set /\ op[t].set \subseteq Named
      /\ \A f \in op[t].set : notification(fds[f]) \in Notes
  BY <1>1, Polling
<1>3. FdTypeOK' /\ Stored'
  BY <1>1, SameStored DEF FdParts, FdTypeOK, objects
<1>4. \A f \in Named : Kept(f)
  BY <1>1 DEF Kept, readable, objects, buffered
<1>5. on \subseteq Notes
  BY <1>2
<1>6. p.on = {notification(fds[f]) : f \in op[t].set}
  BY <1>2 DEF Polls
<1> HIDE DEF on
<1>7. p \in Polls /\ p.at = "poll" /\ p.set = op[t].set
  BY <1>2, <1>5, Zenon DEF Polls
<1> HIDE DEF p
<1>8. p \in Outside /\ op'[t] = p
  BY <1>1, <1>7 DEF Outside, FdParts, PlacesOK
<1>9. Using(t)' = Using(t)
  BY <1>2, <1>7, <1>8 DEF Using
<1>10. LookedUp(t)'
  BY <1>1, <1>6, <1>7, <1>8 DEF LookedUp, notification
<1>11. Hears(t)'
  <2>1. \A f \in Using(t) : Heard(f)
    BY <1>1 DEF FdParts, Hearing, Hears
  <2>2. \A s : op[Opener] = [at |-> "dropped", slot |-> s] => op'[Opener] = op[Opener]
    BY <1>1, <1>2, <1>8, UserControl DEF objects
  <2>3. \A f \in Using(t) : Heard(f)'
    BY <1>1, <2>1, <2>2 DEF Heard, readable, notification, objects, buffered
  <2> QED
    BY <1>9, <2>3 DEF Hears
<1> QED
  BY <1>1, <1>2, <1>3, <1>4, <1>8, <1>9, <1>10, <1>11, UserStep, Zenon DEF objects

LEMMA WaitAnyStep ==
    ASSUME FdParts, NEW t \in Callers, NEW n \in DOMAIN signals, WaitAny(t, n)
    PROVE  FdParts'
<1> DEFINE p == [op[t] EXCEPT !.at = "scan", !.on = {}]
<1>1. /\ op[t].at = "poll" /\ n \in op[t].on /\ signals[n] > 0
      /\ signals' = [signals EXCEPT ![n] = @ - 1] /\ op' = [op EXCEPT ![t] = p]
      /\ UNCHANGED <<fds, nonblock, used, objects, mail, bound, shared, calls>>
  BY DEF WaitAny, Goto
<1>2. /\ op[t] \in Polls /\ op[t] \in Outside /\ Using(t) = op[t].set /\ op[t].set \subseteq Named
      /\ \A f \in op[t].set : notification(fds[f]) \in Notes
  BY <1>1, Polling
<1>3. p \in Polls /\ p.at = "scan" /\ p.set = op[t].set
  BY <1>2, Zenon DEF Polls
<1> HIDE DEF p
<1>4. p \in Outside /\ op'[t] = p
  BY <1>1, <1>3 DEF Outside, FdParts, PlacesOK
<1>5. PICK g \in op[t].set : n = notification(fds[g])
  BY <1>1 DEF FdParts, Current, LookedUp
<1>6. signals' \in [Notes -> Nat]
  BY <1>1, <1>2, <1>5 DEF FdParts, FdTypeOK
<1>7. FdTypeOK' /\ Stored'
  BY <1>1, <1>6, SameStored, Zenon DEF FdParts, FdTypeOK, objects
<1>8. Using(t)' = Using(t) /\ LookedUp(t)' /\ Hears(t)'
  BY <1>2, <1>3, <1>4 DEF Using, LookedUp, Hears
<1>9. ASSUME NEW f \in Named \ Using(t) PROVE Kept(f)
  <2>1. f # g /\ g \in Named
    BY <1>2, <1>5
  <2>2. notification(fds[f]) # n
    BY <1>5, <2>1, NotesApart DEF FdParts
  <2>3. signals'[notification(fds[f])] = signals[notification(fds[f])]
    <3>1. fds[f] \in Kinds
      BY DEF Named, FdParts, FdTypeOK
    <3>2. notification(fds[f]) \in Notes
      BY <3>1, KindShape
    <3> QED
      BY <1>1, <2>2, <3>2 DEF FdParts, FdTypeOK
  <2> QED
    BY <1>1, <2>3 DEF Kept, readable, objects, buffered
<1> QED
  BY <1>1, <1>2, <1>4, <1>7, <1>8, <1>9, UserStep, Zenon DEF objects

LEMMA TimedOutStep ==
    ASSUME FdParts, NEW t \in Callers, TimedOut(t)
    PROVE  FdParts'
<1>1. /\ op[t].at = "poll" /\ Goto(t, InUser)
      /\ UNCHANGED <<fds, nonblock, used, objects, signals, mail, bound, shared, calls>>
  BY DEF TimedOut
<1>2. op[t] \in Outside
  BY <1>1, Polling
<1>3. FdTypeOK' /\ Stored'
  BY <1>1, SameStored DEF FdParts, FdTypeOK, objects
<1>4. \A f \in Named : Kept(f)
  BY <1>1 DEF Kept, readable, objects, buffered
<1> QED
  BY <1>1, <1>2, <1>3, <1>4, ReturnStep DEF objects

LEMMA ArriveStep == ASSUME FdParts, Arrive PROVE FdParts'
<1>1. /\ mail' = mail + 1 /\ UNCHANGED <<fds, nonblock, used, objects, bound, shared, calls, op>>
      /\ signals' = IF bound = 0 THEN signals ELSE signalled(signals, {<<bound, "readable">>})
  BY DEF Arrive
<1>2. /\ signals' \in [Notes -> Nat]
      /\ \A n \in Notes : signals[n] > 0 \/ (bound # 0 /\ n = <<bound, "readable">>) => signals'[n] > 0
  BY <1>1, SignalledTypes, Zenon DEF FdParts, FdTypeOK
<1>3. mail' \in Nat
  BY <1>1 DEF FdParts, FdTypeOK
<1>4. FdTypeOK' /\ Stored'
  BY <1>1, <1>2, <1>3, SameStored, Zenon DEF FdParts, FdTypeOK, objects
<1>5. Named' = Named /\ Open' = Open /\ \A u \in Callers : Using(u)' = Using(u)
  BY <1>1 DEF Named, Open, Using
<1>6. PlacesOK' /\ Owned' /\ Making' /\ Closing' /\ OneUser' /\ Current'
  <2>1. PlacesOK' /\ Owned'
    BY <1>1, <1>5 DEF FdParts, PlacesOK, Owned, Apart, objects
  <2>2. Making' /\ Closing'
    BY <1>1, <1>5 DEF FdParts, Making, Closing, Apart, objects, PipeFd
  <2>3. OneUser' /\ Current'
    BY <1>1, <1>5 DEF FdParts, OneUser, Current, LookedUp, Note, notification
  <2> QED
    BY <2>1, <2>2, <2>3
<1>7. ASSUME NEW u \in Callers, op[u].at \in {"wait", "collect", "poll"}, NEW f \in Using(u)
      PROVE  Heard(f)'
  <2>1. Heard(f)
    BY <1>7 DEF FdParts, Hearing, Hears
  <2>2. f \in Named /\ fds[f] \in Kinds /\ notification(fds[f]) \in Notes
    BY UsingNamed, KindShape DEF FdParts, FdTypeOK, Named
  <2>3. CASE fds[f].kind = "endpoint"
    <3>1. bound = fds[f].slot /\ bound # 0 /\ notification(fds[f]) = <<bound, "readable">>
      BY <2>2, <2>3, KindShape DEF FdParts, Owned, notification, Slots
    <3> QED
      BY <1>1, <1>2, <2>2, <3>1, Zenon DEF Heard, notification
  <2>4. CASE fds[f].kind # "endpoint"
    BY <1>1, <1>2, <2>1, <2>2, <2>4, Zenon DEF Heard, readable, notification, objects, buffered
  <2> QED
    BY <2>3, <2>4
<1>8. Hearing'
  BY <1>1, <1>5, <1>7 DEF Hearing, Hears
<1> QED
  BY <1>4, <1>6, <1>8 DEF FdParts

LEMMA StillStep ==
    ASSUME FdParts, UNCHANGED <<fds, used, objects, signals, mail, bound, op>>
    PROVE  FdParts'
<1>1. Named' = Named /\ Open' = Open /\ \A u \in Callers : Using(u)' = Using(u)
  BY DEF Named, Open, Using
<1>2. FdTypeOK' /\ Stored'
  BY SameStored DEF FdParts, FdTypeOK, objects
<1>3. PlacesOK' /\ Owned'
  BY <1>1 DEF FdParts, PlacesOK, Owned, Apart, objects
<1>4. Making' /\ Closing'
  BY <1>1 DEF FdParts, Making, Closing, Apart, objects, PipeFd
<1>5. OneUser' /\ Current'
  BY <1>1 DEF FdParts, OneUser, Current, LookedUp, Note, notification
<1>6. Hearing'
  BY <1>1 DEF FdParts, Hearing, Hears, Heard, readable, notification, objects, buffered
<1> QED
  BY <1>2, <1>3, <1>4, <1>5, <1>6 DEF FdParts

\* A step of the thread that makes and closes; the others keep what they use.
LEMMA OpenerStep ==
    ASSUME FdParts, NEW p \in {InUser} \cup Closings \cup Makings, op' = [op EXCEPT ![Opener] = p],
           p.at \in {"user", "make", "closed", "dropped"},
           \A u \in Callers \ {Opener} : \A f \in Using(u) :
              fds'[f] = fds[f] /\ ~(p.at = "make" /\ f \in p.got) /\ (Heard(f) => Heard(f)')
    PROVE  PlacesOK' /\ OneUser' /\ Current' /\ Hearing'
<1>1. Opener \in Callers /\ op'[Opener] = p /\ \A u \in Callers \ {Opener} : op'[u] = op[u]
  BY DescriptorsAssumption DEF FdParts, PlacesOK
<1>2. PlacesOK'
  BY <1>1 DEF FdParts, PlacesOK
<1>3. Using(Opener)' = {} /\ \A u \in Callers \ {Opener} : Using(u)' = Using(u)
  BY <1>1 DEF Using
<1>4. \A u \in Callers \ {Opener} : op[u].at # "make"
  BY Shape DEF FdParts
<1>5. ASSUME NEW u \in Callers \ {Opener}, NEW f \in Using(u) PROVE f \in Open'
  <2>1. f \in Named /\ f \in Fds
    BY UsingNamed DEF FdParts
  <2>2. fds'[f] # FreeFd
    BY <2>1 DEF Named
  <2>3. \A v \in Callers : op'[v].at = "make" => f \notin op'[v].got
    BY <1>1, <1>4
  <2> QED
    BY <2>1, <2>2, <2>3 DEF Open
<1>6. OneUser'
  BY <1>3, <1>5 DEF FdParts, OneUser
<1>7. LookedUp(Opener)' /\ Hears(Opener)'
  BY <1>1 DEF LookedUp, Hears
<1>8. ASSUME NEW u \in Callers \ {Opener} PROVE LookedUp(u)' /\ Hears(u)'
  <2>1. LookedUp(u) /\ Hears(u)
    BY DEF FdParts, Current, Hearing
  <2>2. op'[u] = op[u] /\ \A f \in Using(u) : fds'[f] = fds[f]
    BY <1>1
  <2>3. Hears(u)'
    BY <1>3, <2>1, <2>2 DEF Hears
  <2>4. op[u].at \in {"try", "wait"} => op[u].fd \in Using(u)
    BY DEF Using
  <2>5. op[u].at = "poll" => Using(u) = op[u].set
    BY DEF Using
  <2>6. op[u].at = "poll" => {notification(fds'[f]) : f \in op[u].set} = {notification(fds[f]) : f \in op[u].set}
    BY <2>2, <2>5
  <2>7. LookedUp(u)'
    BY <2>1, <2>2, <2>4, <2>6 DEF LookedUp, Note, notification
  <2> QED
    BY <2>3, <2>7
<1> QED
  BY <1>2, <1>6, <1>7, <1>8 DEF Current, Hearing

\* The lowest of a set of numbered places is one of them.
LEMMA LowestIn ==
    ASSUME NEW n \in Nat, NEW T \in SUBSET (1..n), T # {}
    PROVE  Min(T) \in T
<1>1. T \subseteq Nat
  OBVIOUS
<1>2. PICK x \in T : \A y \in T : x <= y
  BY <1>1, LeastSlot, Zenon
<1> QED
  BY <1>2, Zenon DEF Min

LEMMA TakeStep ==
    ASSUME FdParts, NEW kinds \in {<<EventFd(TRUE)>>, <<EventFd(FALSE)>>, <<EndpointFd>>, <<PipeFd(FALSE), PipeFd(TRUE)>>},
           NEW n \in Nat, NEW events \in Nat, take_waitable(Opener, kinds, n, events),
           kinds[1].kind = "pipe" => n = 2, kinds[1].kind = "endpoint" => bound = 0
    PROVE  FdParts'
<1>0. PICK s \in Slots \ used : s = Min(Slots \ used)
  <2>1. Slots \ used # {} /\ Slots \ used \in SUBSET (1..MAX_WAITABLES) /\ MAX_WAITABLES \in Nat
    BY DescriptorsAssumption, Zenon DEF FdParts, FdTypeOK, Slots, take_waitable
  <2> QED
    BY <2>1, LowestIn, Zenon
<1> DEFINE p == [at |-> "make", slot |-> s, kinds |-> kinds, got |-> {}]
<1>1. /\ op[Opener] = InUser
      /\ used' = used \cup {s} /\ counter' = [counter EXCEPT ![s] = events]
      /\ pipe_head' = [pipe_head EXCEPT ![s] = 0] /\ pipe_tail' = [pipe_tail EXCEPT ![s] = 0]
      /\ ends' = [ends EXCEPT ![s] = n] /\ op' = [op EXCEPT ![Opener] = p]
      /\ bound' = IF kinds[1].kind = "endpoint" THEN s ELSE bound
      /\ UNCHANGED <<fds, nonblock, ring, signals, mail, shared>>
  BY <1>0 DEF take_waitable, Enter, Goto
<1>2. s \in Slots /\ s \notin used
  BY <1>0
<1>3. p \in Makings /\ p.at = "make" /\ p.slot = s /\ p.kinds = kinds /\ p.got = {}
  BY <1>2, Zenon DEF Makings
<1> HIDE DEF p
<1>4. Opener \in Callers /\ op'[Opener] = p
  BY <1>1, DescriptorsAssumption DEF FdParts, PlacesOK
<1>5. \A r \in Slots \ {s} : /\ counter'[r] = counter[r] /\ ends'[r] = ends[r]
                             /\ pipe_head'[r] = pipe_head[r] /\ pipe_tail'[r] = pipe_tail[r]
  BY <1>1 DEF FdParts, FdTypeOK
<1>6. pipe_head'[s] = 0 /\ pipe_tail'[s] = 0 /\ ends'[s] = n
  BY <1>1, <1>2 DEF FdParts, FdTypeOK
<1>7. Named' = Named
  BY <1>1 DEF Named
<1>8. \A f \in Named : fds[f] \in Kinds /\ fds[f].slot \in used /\ fds[f].slot \in Slots \ {s}
  BY <1>2, KindShape DEF FdParts, FdTypeOK, Owned, Named
<1>9. FdTypeOK'
  BY <1>1, <1>2 DEF FdParts, FdTypeOK, Slots
<1>10. Stored'
  <2>1. ASSUME NEW r \in used
        PROVE  /\ buffered(r)' \in 0..PIPE_CAPACITY
               /\ \A j \in pipe_head'[r]..(pipe_tail'[r] - 1) : ring'[r][j % PIPE_CAPACITY] = j
    <3>1. r \in Slots \ {s}
      BY <1>2 DEF FdParts, FdTypeOK
    <3> QED
      BY <1>1, <1>5, <3>1 DEF FdParts, Stored, buffered
  <2>2. buffered(s)' \in 0..PIPE_CAPACITY
    BY <1>6, DescriptorsAssumption DEF buffered
  <2>3. \A j \in pipe_head'[s]..(pipe_tail'[s] - 1) : ring'[s][j % PIPE_CAPACITY] = j
    BY <1>6
  <2> QED
    BY <1>1, <2>1, <2>2, <2>3 DEF Stored
<1>11. Owned'
  <2>1. \A f \in Named : fds[f].slot \in used' /\ (fds[f].kind = "endpoint" => bound' = fds[f].slot)
    <3>1. ASSUME NEW f \in Named, fds[f].kind = "endpoint" PROVE bound' = fds[f].slot
      <4>1. bound = fds[f].slot /\ bound # 0
        BY <1>8, <3>1 DEF FdParts, Owned, Slots
      <4> QED
        BY <1>1, <4>1
    <3> QED
      BY <1>1, <1>8, <3>1
  <2>2. \A f, g \in Named : f # g => Apart(fds[f], fds[g])'
    BY <1>1, <1>5, <1>8 DEF FdParts, Owned, Apart
  <2> QED
    BY <1>1, <1>7, <2>1, <2>2 DEF Owned, Apart
<1>12. Making'
  <2>1. s \in used' /\ \A f \in Named' : fds'[f].slot # s
    BY <1>1, <1>7, <1>8
  <2>2. /\ Head(kinds) = kinds[1] /\ kinds # <<PipeFd(TRUE)>>
        /\ kinds[1].kind = "endpoint" => bound' = s
        /\ kinds[1].kind = "pipe" => ends'[s] = 2
    BY <1>1, <1>6 DEF EventFd, PipeFd, EndpointFd
  <2>3. p.kinds # <<PipeFd(TRUE)>>'
    BY <1>3, <2>2 DEF PipeFd
  <2> QED
    BY <1>3, <1>4, <2>1, <2>2, <2>3, Zenon DEF Making
<1>13. Closing'
  BY <1>3, <1>4 DEF Closing
<1>14. ASSUME NEW u \in Callers \ {Opener}, NEW f \in Using(u)
       PROVE  Heard(f) => Heard(f)'
  <2>1. f \in Named
    BY UsingNamed DEF FdParts
  <2>2. fds[f].slot \in Slots \ {s} /\ op[Opener].at = "user"
    BY <1>1, <1>8, <2>1 DEF InUser
  <2> QED
    BY <1>1, <1>5, <2>2 DEF Heard, readable, notification, buffered
<1>15. PlacesOK' /\ OneUser' /\ Current' /\ Hearing'
  BY <1>1, <1>3, <1>14, OpenerStep, Zenon
<1> QED
  BY <1>9, <1>10, <1>11, <1>12, <1>13, <1>15 DEF FdParts

LEMMA Installs ==
    ASSUME NEW b, NEW s
    PROVE  /\ [EventFd(b) EXCEPT !.slot = s] = [kind |-> "event", semaphore |-> b, slot |-> s]
           /\ [PipeFd(b) EXCEPT !.slot = s] = [kind |-> "pipe", write |-> b, slot |-> s]
BY DEF EventFd, PipeFd

LEMMA TailOfTwo == ASSUME NEW a, NEW b PROVE Tail(<<a, b>>) = <<b>>
OBVIOUS

LEMMA InstalledStep ==
    ASSUME FdParts, Installed(Opener), Gaps # {}
    PROVE  FdParts'
<1> DEFINE me == op[Opener]
           k == [Head(me.kinds) EXCEPT !.slot = me.slot]
<1>0. PICK f \in Gaps : f = Min(Gaps)
  <2>1. Gaps \in SUBSET (1..MAX_FDS) /\ MAX_FDS \in Nat
    BY DescriptorsAssumption DEF Gaps, Fds
  <2> QED
    BY <2>1, LowestIn, Zenon
<1>1. /\ op[Opener].at = "make" /\ fds' = [fds EXCEPT ![f] = k]
      /\ op' = [op EXCEPT ![Opener] = IF Len(me.kinds) = 1 THEN InUser
                        ELSE [me EXCEPT !.kinds = Tail(@), !.got = @ \cup {f}]]
      /\ UNCHANGED <<used, ends, signals, counter, ring, pipe_head, pipe_tail, mail, bound, shared, calls>>
  BY <1>0 DEF Installed, install, Goto
<1>2. Opener \in Callers /\ me \in Makings
  BY <1>1, Shape, DescriptorsAssumption DEF FdParts
<1>3. f \in Fds /\ fds[f] = FreeFd /\ f \notin Named
  BY <1>0 DEF Gaps, Named
<1>4. /\ k \in Kinds /\ k.slot = me.slot /\ k # FreeFd /\ k.kind = Head(me.kinds).kind
      /\ k.kind = "pipe" => (k.write <=> me.kinds = <<PipeFd(TRUE)>>)
      /\ k.kind # "pipe" => Len(me.kinds) = 1
      /\ Len(me.kinds) # 1 => me.kinds = <<PipeFd(FALSE), PipeFd(TRUE)>>
      /\ me.kinds = <<PipeFd(TRUE)>> => Len(me.kinds) = 1
  <2>0. me.slot \in Slots
    BY <1>2, Zenon DEF Makings
  <2>1. CASE me.kinds = <<EventFd(TRUE)>>
    <3>1. Head(me.kinds) = EventFd(TRUE) /\ Len(me.kinds) = 1
      BY <2>1
    <3>2. k = [kind |-> "event", semaphore |-> TRUE, slot |-> me.slot]
      BY <3>1, Installs, Zenon
    <3>3. k \in Kinds
      BY <2>0, <3>2, Zenon DEF Kinds
    <3>4. Head(me.kinds).kind = "event" /\ me.kinds # <<PipeFd(TRUE)>>
      BY <2>1, <3>1 DEF EventFd, PipeFd
    <3> QED
      BY <2>1, <3>1, <3>2, <3>3, <3>4, KindShape, Zenon
  <2>2. CASE me.kinds = <<EventFd(FALSE)>>
    <3>1. Head(me.kinds) = EventFd(FALSE) /\ Len(me.kinds) = 1
      BY <2>2
    <3>2. k = [kind |-> "event", semaphore |-> FALSE, slot |-> me.slot]
      BY <3>1, Installs, Zenon
    <3>3. k \in Kinds
      BY <2>0, <3>2, Zenon DEF Kinds
    <3>4. Head(me.kinds).kind = "event" /\ me.kinds # <<PipeFd(TRUE)>>
      BY <2>2, <3>1 DEF EventFd, PipeFd
    <3> QED
      BY <2>2, <3>1, <3>2, <3>3, <3>4, KindShape, Zenon
  <2>3. CASE me.kinds = <<EndpointFd>>
    <3>1. Head(me.kinds) = EndpointFd /\ Len(me.kinds) = 1
      BY <2>3
    <3>2. k = [kind |-> "endpoint", slot |-> me.slot]
      BY <3>1 DEF EndpointFd
    <3>3. k \in Kinds
      BY <2>0, <3>2 DEF Kinds
    <3>4. Head(me.kinds).kind = "endpoint" /\ me.kinds # <<PipeFd(TRUE)>>
      BY <2>3, <3>1 DEF EndpointFd, PipeFd
    <3> QED
      BY <2>3, <3>1, <3>2, <3>3, <3>4, KindShape, Zenon
  <2>4. CASE me.kinds = <<PipeFd(FALSE), PipeFd(TRUE)>>
    <3>1. Head(me.kinds) = PipeFd(FALSE) /\ Len(me.kinds) = 2
      BY <2>4
    <3>2. k = [kind |-> "pipe", write |-> FALSE, slot |-> me.slot]
      BY <3>1, Installs, Zenon
    <3>3. k \in Kinds
      BY <2>0, <3>2, Zenon DEF Kinds
    <3>4. Head(me.kinds).kind = "pipe" /\ me.kinds # <<PipeFd(TRUE)>>
      BY <2>4, <3>1 DEF PipeFd
    <3> QED
      BY <2>4, <3>1, <3>2, <3>3, <3>4, KindShape, Zenon
  <2>5. CASE me.kinds = <<PipeFd(TRUE)>>
    <3>1. Head(me.kinds) = PipeFd(TRUE) /\ Len(me.kinds) = 1
      BY <2>5
    <3>2. k = [kind |-> "pipe", write |-> TRUE, slot |-> me.slot]
      BY <3>1, Installs, Zenon
    <3>3. k \in Kinds
      BY <2>0, <3>2, Zenon DEF Kinds
    <3>4. Head(me.kinds).kind = "pipe" /\ Len(<<PipeFd(TRUE)>>) = 1
      BY <2>5, <3>1 DEF PipeFd
    <3> QED
      BY <2>5, <3>1, <3>2, <3>3, <3>4, KindShape, Zenon
  <2> QED
    BY <1>2, <2>1, <2>2, <2>3, <2>4, <2>5, Zenon DEF Makings
<1>5. /\ me.slot \in used /\ \A g \in Named : fds[g].slot = me.slot <=> g \in me.got
      /\ Head(me.kinds).kind = "endpoint" => bound = me.slot
      /\ Head(me.kinds).kind = "pipe" => ends[me.slot] = 2
      /\ me.kinds = <<PipeFd(TRUE)>> => \E g \in Named : me.got = {g} /\ fds[g].kind = "pipe" /\ ~fds[g].write
      /\ me.kinds # <<PipeFd(TRUE)>> => me.got = {}
  BY <1>1, Zenon DEF FdParts, Making
<1> HIDE DEF k
<1>6. /\ fds'[f] = k /\ \A g \in Named : fds'[g] = fds[g]
      /\ Named' = Named \cup {f}
  BY <1>1, <1>3, <1>4 DEF FdParts, FdTypeOK, Named
<1>7. FdTypeOK'
  BY <1>1, <1>3, <1>4 DEF FdParts, FdTypeOK
<1>8. Stored'
  BY <1>1 DEF FdParts, Stored, buffered
<1>9. Owned'
  <2>1. \A g \in Named' : fds'[g].slot \in used /\ (fds'[g].kind = "endpoint" => bound = fds'[g].slot)
    BY <1>4, <1>5, <1>6 DEF FdParts, Owned
  <2>2. ASSUME NEW g \in Named PROVE Apart(fds'[g], k) /\ Apart(k, fds'[g])
    <3>1. SUFFICES ASSUME fds[g].slot = me.slot PROVE Apart(fds[g], k) /\ Apart(k, fds[g])
      BY <1>4, <1>6 DEF Apart
    <3>2. me.kinds = <<PipeFd(TRUE)>> /\ fds[g].kind = "pipe" /\ ~fds[g].write
      BY <1>5, <3>1, Zenon
    <3>3. k.kind = "pipe" /\ k.write /\ ends[me.slot] = 2
      BY <1>4, <1>5, <3>2 DEF PipeFd
    <3> QED
      BY <1>4, <3>1, <3>2, <3>3, Zenon DEF Apart
  <2>3. \A g, h \in Named : g # h => Apart(fds'[g], fds'[h])
    BY <1>6 DEF FdParts, Owned
  <2>4. \A g, h \in Named' : g # h => Apart(fds'[g], fds'[h])
    BY <1>6, <2>2, <2>3
  <2> QED
    BY <1>1, <2>1, <2>4 DEF Owned, Apart
<1> DEFINE p == IF Len(me.kinds) = 1 THEN InUser ELSE [me EXCEPT !.kinds = Tail(@), !.got = @ \cup {f}]
<1>10. /\ p \in {InUser} \cup Makings /\ p.at \in {"user", "make"}
       /\ p.at = "make" => /\ p.kinds = <<PipeFd(TRUE)>> /\ p.got = {f} /\ p.slot = me.slot
                           /\ me.kinds = <<PipeFd(FALSE), PipeFd(TRUE)>>
  <2>1. CASE Len(me.kinds) = 1
    BY <2>1 DEF InUser
  <2>2. CASE Len(me.kinds) # 1
    <3>a. me.kinds = <<PipeFd(FALSE), PipeFd(TRUE)>> /\ me.kinds # <<PipeFd(TRUE)>>
      BY <1>4, <2>2, Zenon
    <3>b. Tail(<<PipeFd(FALSE), PipeFd(TRUE)>>) = <<PipeFd(TRUE)>>
      BY TailOfTwo, Zenon
    <3>1. me.kinds = <<PipeFd(FALSE), PipeFd(TRUE)>> /\ Tail(me.kinds) = <<PipeFd(TRUE)>> /\ me.got = {}
      BY <1>5, <3>a, <3>b, Zenon
    <3>2. p = [me EXCEPT !.kinds = <<PipeFd(TRUE)>>, !.got = {f}]
      BY <1>2, <2>2, <3>1 DEF Makings
    <3> QED
      BY <1>2, <1>3, <3>1, <3>2, Zenon DEF Makings
  <2> QED
    BY <2>1, <2>2, Zenon
<1>11. op' = [op EXCEPT ![Opener] = p] /\ op'[Opener] = p
  BY <1>1, <1>2 DEF FdParts, PlacesOK
<1> HIDE DEF p
<1>12. Making'
  <2>1. SUFFICES ASSUME p.at = "make"
                 PROVE  Making'
    BY <1>11, Zenon DEF Making
  <2>2. /\ p.kinds = <<PipeFd(TRUE)>> /\ p.got = {f} /\ p.slot = me.slot
        /\ me.kinds = <<PipeFd(FALSE), PipeFd(TRUE)>>
    BY <1>10, <2>1, Zenon
  <2>3. Head(p.kinds).kind = "pipe" /\ Head(me.kinds).kind = "pipe" /\ me.kinds # <<PipeFd(TRUE)>>
    BY <2>2 DEF PipeFd
  <2>4. k.kind = "pipe" /\ ~k.write
    BY <1>4, <2>3, Zenon
  <2>5. \A g \in Named' : fds'[g].slot = p.slot <=> g \in p.got
    BY <1>3, <1>4, <1>5, <1>6, <2>2, <2>3
  <2>6. \E g \in Named' : p.got = {g} /\ fds'[g].kind = "pipe" /\ ~fds'[g].write
    BY <1>6, <2>2, <2>4
  <2> QED
    BY <1>1, <1>5, <1>11, <2>2, <2>3, <2>5, <2>6, Zenon DEF Making, PipeFd
<1>13. Closing'
  BY <1>10, <1>11 DEF Closing
<1>14. ASSUME NEW u \in Callers \ {Opener}, NEW g \in Using(u)
       PROVE  fds'[g] = fds[g] /\ ~(p.at = "make" /\ g \in p.got) /\ (Heard(g) => Heard(g)')
  <2>1. g \in Named /\ g # f /\ fds'[g] = fds[g]
    BY <1>3, <1>6, UsingNamed DEF FdParts
  <2>2. ~(p.at = "make" /\ g \in p.got)
    BY <1>10, <2>1, Zenon
  <2>3. op[Opener].at # "dropped"
    BY <1>1
  <2>4. Heard(g) => Heard(g)'
    BY <1>1, <2>1, <2>3 DEF Heard, readable, notification, buffered
  <2> QED
    BY <2>1, <2>2, <2>4
<1>15. PlacesOK' /\ OneUser' /\ Current' /\ Hearing'
  BY <1>10, <1>11, <1>14, OpenerStep, Zenon
<1> QED
  BY <1>7, <1>8, <1>9, <1>12, <1>13, <1>15 DEF FdParts

\* A full table: what was made is released, and nobody else had it.
LEMMA FullStep ==
    ASSUME FdParts, Installed(Opener), Gaps = {}
    PROVE  FdParts'
<1> DEFINE me == op[Opener]
<1>1. /\ op[Opener].at = "make" /\ fds' = [f \in Fds |-> IF f \in me.got THEN FreeFd ELSE fds[f]]
      /\ ends' = [ends EXCEPT ![me.slot] = @ - Cardinality(me.got)]
      /\ signals' = IF me.got = {} THEN signals ELSE signalled(signals, {me.slot} \X {"readable", "writable"})
      /\ used' = used \ {me.slot} /\ op' = [op EXCEPT ![Opener] = InUser]
      /\ UNCHANGED <<counter, ring, pipe_head, pipe_tail, mail, bound, shared, calls>>
  BY DEF Installed, Goto
<1>2. Opener \in Callers /\ me \in Makings /\ me.slot \in Slots
  BY <1>1, Shape, DescriptorsAssumption, Zenon DEF FdParts, Makings
<1>3. \A g \in Named : fds[g].slot = me.slot <=> g \in me.got
  BY <1>1 DEF FdParts, Making
<1>4. Cardinality(me.got) \in Int
  <2>1. me.got = {} \/ \E g : me.got = {g}
    BY <1>1, Zenon DEF FdParts, Making
  <2>2. me.got = {} => Cardinality(me.got) = 0
    BY FS_EmptySet
  <2>3. ASSUME NEW g, me.got = {g} PROVE Cardinality(me.got) = 1
    BY <2>3, FS_Singleton, Zenon
  <2> QED
    BY <2>1, <2>2, <2>3
<1>5. Named' = Named \ me.got /\ \A g \in Named' : fds'[g] = fds[g] /\ g \in Named /\ fds[g].slot # me.slot
  BY <1>1, <1>3 DEF Named
<1>6. \A g \in Named : fds[g] \in Kinds /\ fds[g].slot \in Slots /\ fds[g].slot \in used
  BY KindShape DEF Named, FdParts, FdTypeOK, Owned
<1>7. \A r \in Slots : r # me.slot => ends'[r] = ends[r]
  BY <1>1 DEF FdParts, FdTypeOK
<1>8. \A n \in Notes : signals[n] > 0 => signals'[n] > 0
  BY <1>1, SignalledTypes, Zenon DEF FdParts, FdTypeOK
<1>9. FdTypeOK'
  <2>1. signals' \in [Notes -> Nat]
    BY <1>1, SignalledTypes, Zenon DEF FdParts, FdTypeOK
  <2>2. ends' \in [Slots -> Int]
    BY <1>1, <1>2, <1>4 DEF FdParts, FdTypeOK
  <2>3. fds' \in [Fds -> Kinds \cup {FreeFd}]
    BY <1>1 DEF FdParts, FdTypeOK
  <2> QED
    BY <1>1, <2>1, <2>2, <2>3, Zenon DEF FdParts, FdTypeOK
<1>10. Stored'
  BY <1>1 DEF FdParts, Stored, buffered
<1>11. Owned'
  <2>1. \A g \in Named' : fds'[g].slot \in used' /\ (fds'[g].kind = "endpoint" => bound' = fds'[g].slot)
    BY <1>1, <1>5, <1>6 DEF FdParts, Owned
  <2>2. ASSUME NEW g \in Named', NEW h \in Named', g # h
        PROVE  Apart(fds[g], fds[h])'
    <3>1. Apart(fds[g], fds[h]) /\ ends'[fds[g].slot] = ends[fds[g].slot]
      BY <1>5, <1>6, <1>7, <2>2 DEF FdParts, Owned
    <3> QED
      BY <1>5, <3>1 DEF Apart
  <2> QED
    BY <2>1, <2>2 DEF Owned
<1>12. op'[Opener].at = "user"
  BY <1>1, <1>2 DEF FdParts, PlacesOK, InUser
<1>13. Making' /\ Closing'
  BY <1>12 DEF Making, Closing
<1>14. ASSUME NEW u \in Callers \ {Opener}, NEW g \in Using(u)
       PROVE  fds'[g] = fds[g] /\ (Heard(g) => Heard(g)')
  <2>1. g \in Open /\ g \in Fds /\ g \in Named
    BY UsingNamed DEF FdParts, OneUser
  <2>2. g \notin me.got
    BY <1>1, <1>2, <2>1 DEF Open
  <2>3. fds'[g] = fds[g] /\ fds[g].slot \in Slots /\ fds[g].slot # me.slot /\ notification(fds[g]) \in Notes
    BY <1>1, <1>3, <1>6, <2>1, <2>2, KindShape
  <2>4. ends'[fds[g].slot] = ends[fds[g].slot]
    BY <1>7, <2>3
  <2>5. readable(fds[g])' => readable(fds[g])
    BY <1>1, <2>3, <2>4 DEF readable, buffered
  <2>6. op[Opener].at # "dropped" /\ notification(fds[g])' = notification(fds[g])
    BY <1>1, <2>3 DEF notification
  <2>7. Heard(g) => Heard(g)'
    BY <1>8, <2>3, <2>5, <2>6 DEF Heard
  <2> QED
    BY <2>3, <2>7
<1>15. InUser.at = "user"
  BY DEF InUser
<1>16. PlacesOK' /\ OneUser' /\ Current' /\ Hearing'
  BY <1>1, <1>14, <1>15, OpenerStep, Zenon
<1> QED
  BY <1>9, <1>10, <1>11, <1>13, <1>16 DEF FdParts

LEMMA CloseStep ==
    ASSUME FdParts, NEW f \in Fds, close(Opener, f)
    PROVE  FdParts'
<1> DEFINE p == [at |-> "closed", was |-> fds[f]]
<1>1. /\ op[Opener] = InUser /\ f \in Open \ Busy(Opener) /\ fds' = [fds EXCEPT ![f] = FreeFd]
      /\ op' = [op EXCEPT ![Opener] = p]
      /\ UNCHANGED <<nonblock, used, objects, signals, mail, bound>>
  BY DEF close, release, Enter, Goto
<1>2. f \in Named /\ fds[f] \in Kinds /\ Opener \in Callers
  BY <1>1, DescriptorsAssumption DEF Open, Named, FdParts, FdTypeOK
<1>3. p \in Closings /\ p.at = "closed" /\ p.was = fds[f]
  BY <1>2 DEF Closings
<1> HIDE DEF p
<1>4. op'[Opener] = p
  BY <1>1, <1>2 DEF FdParts, PlacesOK
<1>5. Named' = Named \ {f} /\ \A g \in Named' : fds'[g] = fds[g] /\ g \in Named /\ g # f
  BY <1>1, <1>2 DEF Named, FdParts, FdTypeOK
<1>6. FdTypeOK' /\ Stored'
  BY <1>1 DEF FdParts, FdTypeOK, Stored, buffered, objects
<1>7. Owned'
  <2>1. \A g \in Named' : fds'[g].slot \in used' /\ (fds'[g].kind = "endpoint" => bound' = fds'[g].slot)
    BY <1>1, <1>5 DEF FdParts, Owned
  <2>2. \A g, h \in Named' : g # h => Apart(fds[g], fds[h])'
    BY <1>1, <1>5 DEF FdParts, Owned, Apart, objects
  <2> QED
    BY <2>1, <2>2 DEF Owned
<1>8. Making'
  BY <1>3, <1>4 DEF Making
<1>9. Closing'
  <2>1. fds[f].slot \in used /\ (fds[f].kind = "endpoint" => bound = fds[f].slot)
    BY <1>2 DEF FdParts, Owned
  <2>2. \A g \in Named' : Apart(fds[f], fds'[g])
    BY <1>2, <1>5 DEF FdParts, Owned
  <2> QED
    BY <1>1, <1>3, <1>4, <2>1, <2>2 DEF Closing, Apart, objects
<1>10. ASSUME NEW u \in Callers \ {Opener}, NEW g \in Using(u)
       PROVE  fds'[g] = fds[g] /\ (Heard(g) => Heard(g)')
  <2>1. g # f /\ g \in Fds
    BY <1>1, <1>2, BusyUsing, UsingNamed DEF FdParts
  <2>2. fds'[g] = fds[g]
    BY <1>1, <2>1 DEF FdParts, FdTypeOK
  <2>3. op[Opener].at # "dropped"
    BY <1>1 DEF InUser
  <2> QED
    BY <1>1, <2>2, <2>3 DEF Heard, readable, notification, buffered, objects
<1>11. PlacesOK' /\ OneUser' /\ Current' /\ Hearing'
  BY <1>1, <1>3, <1>10, OpenerStep, Zenon
<1> QED
  BY <1>6, <1>7, <1>8, <1>9, <1>11 DEF FdParts

\* What is let go is nobody else's, unless it is a pipe whose other end is still
\* open: then its slot stays, and its readers and writers are signalled next.
LEMMA DropStep ==
    ASSUME FdParts, Drop(Opener)
    PROVE  FdParts'
<1> DEFINE k == op[Opener].was
           p == IF k.kind = "pipe" THEN [at |-> "dropped", slot |-> k.slot] ELSE InUser
<1>1. /\ op[Opener].at = "closed" /\ op' = [op EXCEPT ![Opener] = p]
      /\ ends' = IF k.kind = "pipe" THEN [ends EXCEPT ![k.slot] = @ - 1] ELSE ends
      /\ used' = IF k.kind = "pipe" /\ ends[k.slot] > 1 THEN used ELSE used \ {k.slot}
      /\ bound' = IF k.kind = "endpoint" THEN 0 ELSE bound
      /\ UNCHANGED <<fds, nonblock, counter, ring, pipe_head, pipe_tail, signals, mail, shared, calls>>
  BY DEF Drop, Goto
<1>2. k \in Kinds /\ Opener \in Callers
  BY <1>1, Shape, DescriptorsAssumption DEF FdParts
<1>3. k.slot \in Slots /\ k.kind \in {"event", "pipe", "endpoint"} /\ (k.kind = "pipe" => k.write \in BOOLEAN)
  BY <1>2, KindShape
<1>4. k.slot \in used /\ (k.kind = "endpoint" => bound = k.slot) /\ \A f \in Named : Apart(k, fds[f])
  BY <1>1 DEF FdParts, Closing
<1>5. /\ p \in {InUser} \cup Closings /\ p.at \in {"user", "dropped"}
      /\ k.kind = "pipe" => p = [at |-> "dropped", slot |-> k.slot]
  BY <1>3 DEF Closings, InUser
<1>6. op'[Opener] = p
  BY <1>1, <1>2 DEF FdParts, PlacesOK
<1> HIDE DEF p
<1>7. PICK gone : gone = k
  OBVIOUS
<1>8. Named' = Named /\ \A f \in Named : fds[f] \in Kinds /\ fds[f].slot \in Slots /\ fds[f].slot \in used
  <2>1. Named' = Named
    BY <1>1 DEF Named
  <2> QED
    BY <2>1, KindShape DEF Named, FdParts, FdTypeOK, Owned
<1>9. \A r \in Slots : r # gone.slot => ends'[r] = ends[r]
  BY <1>1, <1>7 DEF FdParts, FdTypeOK
<1> HIDE DEF k
<1>10. FdTypeOK'
  <2>1. ends' \in [Slots -> Int]
    BY <1>1, <1>3 DEF FdParts, FdTypeOK
  <2>2. bound' \in 0..MAX_WAITABLES
    BY <1>1, DescriptorsAssumption DEF FdParts, FdTypeOK
  <2> QED
    BY <1>1, <2>1, <2>2 DEF FdParts, FdTypeOK
<1>11. Stored'
  BY <1>1 DEF FdParts, Stored, buffered
<1>12. Owned'
  <2>1. ASSUME NEW f \in Named
        PROVE  fds[f].slot \in used' /\ (fds[f].kind = "endpoint" => bound' = fds[f].slot)
    <3>1. Apart(k, fds[f]) /\ fds[f].slot \in used /\ (fds[f].kind = "endpoint" => bound = fds[f].slot)
      BY <1>4 DEF FdParts, Owned
    <3>2. CASE fds[f].slot = k.slot
      BY <1>1, <3>1, <3>2 DEF Apart
    <3>3. CASE fds[f].slot # k.slot
      BY <1>1, <1>4, <3>1, <3>3
    <3> QED
      BY <3>2, <3>3
  <2>2. ASSUME NEW f \in Named, NEW g \in Named, f # g
        PROVE  Apart(fds[f], fds[g])'
    <3>1. Apart(fds[f], fds[g]) /\ Apart(k, fds[f]) /\ Apart(k, fds[g])
      BY <1>4, <2>2 DEF FdParts, Owned
    <3>2. SUFFICES ASSUME fds[f].slot = fds[g].slot PROVE Apart(fds[f], fds[g])'
      BY <1>1 DEF Apart
    <3>3. fds[f].write \in BOOLEAN /\ fds[g].write \in BOOLEAN /\ fds[f].write # fds[g].write
      BY <1>8, <3>1, <3>2, KindShape DEF Apart
    <3>4. fds[f].slot # k.slot
      BY <1>3, <3>1, <3>2, <3>3 DEF Apart
    <3>5. ends'[fds[f].slot] = ends[fds[f].slot]
      BY <1>7, <1>8, <1>9, <3>4
    <3> QED
      BY <1>1, <3>1, <3>5 DEF Apart
  <2> QED
    BY <1>1, <1>8, <2>1, <2>2 DEF Owned
<1>13. Making' /\ Closing'
  BY <1>5, <1>6, Zenon DEF Making, Closing
<1>14. ASSUME NEW u \in Callers \ {Opener}, NEW f \in Using(u)
       PROVE  Heard(f) => Heard(f)'
  <2>1. f \in Named /\ fds[f].slot \in Slots
    BY <1>8, UsingNamed DEF FdParts
  <2>2. CASE fds[f].slot = k.slot
    <3>1. k.kind = "pipe"
      BY <1>4, <2>1, <2>2 DEF Apart
    <3> QED
      BY <1>1, <1>5, <1>6, <2>2, <3>1 DEF Heard
  <2>3. CASE fds[f].slot # k.slot
    <3>1. ends'[fds[f].slot] = ends[fds[f].slot]
      BY <1>7, <1>9, <2>1, <2>3
    <3>2. op[Opener].at # "dropped"
      BY <1>1
    <3> QED
      BY <1>1, <3>1, <3>2 DEF Heard, readable, notification, buffered
  <2> QED
    BY <2>2, <2>3
<1>15. PlacesOK' /\ OneUser' /\ Current' /\ Hearing'
  BY <1>1, <1>5, <1>14, OpenerStep, Zenon
<1> QED
  BY <1>10, <1>11, <1>12, <1>13, <1>15 DEF FdParts

LEMMA WakeBothStep ==
    ASSUME FdParts, WakeBoth(Opener)
    PROVE  FdParts'
<1>1. PICK s \in Slots : op[Opener] = [at |-> "dropped", slot |-> s]
  <2>1. op[Opener].at = "dropped" /\ Opener \in Callers
    BY DescriptorsAssumption DEF WakeBoth
  <2> QED
    BY <2>1, Shape DEF FdParts
<1>2. /\ signals' = signalled(signals, {s} \X {"readable", "writable"}) /\ op' = [op EXCEPT ![Opener] = InUser]
      /\ UNCHANGED <<fds, nonblock, used, objects, mail, bound, shared, calls>>
  BY <1>1 DEF WakeBoth, Goto
<1>3. /\ signals' \in [Notes -> Nat]
      /\ \A n \in Notes : signals[n] > 0 \/ n \in {s} \X {"readable", "writable"} => signals'[n] > 0
  BY <1>2, SignalledTypes, Zenon DEF FdParts, FdTypeOK
<1>4. FdTypeOK' /\ Stored'
  BY <1>2, <1>3, SameStored, Zenon DEF FdParts, FdTypeOK, objects
<1>5. op'[Opener] = InUser /\ InUser.at = "user"
  BY <1>2, DescriptorsAssumption DEF FdParts, PlacesOK, InUser
<1>6. Owned' /\ Making' /\ Closing'
  <2>1. Named' = Named
    BY <1>2 DEF Named
  <2>2. Owned'
    BY <1>2, <2>1 DEF FdParts, Owned, Apart, objects
  <2> QED
    BY <1>5, <2>2 DEF Making, Closing
<1>7. ASSUME NEW u \in Callers \ {Opener}, NEW f \in Using(u)
      PROVE  Heard(f) => Heard(f)'
  <2>1. f \in Named /\ fds[f] \in Kinds /\ notification(fds[f]) \in Notes
    BY UsingNamed, KindShape DEF FdParts, FdTypeOK, Named
  <2>2. CASE fds[f].slot = s
    <3>1. notification(fds[f]) \in {s} \X {"readable", "writable"}
      BY <2>2 DEF notification
    <3> QED
      BY <1>2, <1>3, <2>1, <3>1, Zenon DEF Heard, notification
  <2>3. CASE fds[f].slot # s
    <3>1. op[Opener] # [at |-> "dropped", slot |-> fds[f].slot]
      BY <1>1, <2>3
    <3> QED
      BY <1>2, <1>3, <2>1, <3>1, Zenon DEF Heard, readable, notification, buffered, objects
  <2> QED
    BY <2>2, <2>3
<1>8. PlacesOK' /\ OneUser' /\ Current' /\ Hearing'
  BY <1>2, <1>5, <1>7, OpenerStep, Zenon
<1> QED
  BY <1>4, <1>6, <1>8 DEF FdParts

LEMMA FdStep == FdInv /\ [FdNext]_fdVars => FdInv'
<1> SUFFICES ASSUME FdInv, [FdNext]_fdVars, ~shared' PROVE FdParts'
  BY DEF FdInv, FdParts
<1>0. Opener \in Callers
  BY DescriptorsAssumption
<1>1. CASE UNCHANGED fdVars
  <2>1. FdParts
    BY <1>1 DEF FdInv, FdParts, fdVars
  <2> QED
    BY <1>1, <2>1, StillStep DEF fdVars, objects
<1>2. CASE Arrive
  <2>1. FdParts
    BY <1>2 DEF FdInv, FdParts, Arrive
  <2> QED
    BY <1>2, <2>1, ArriveStep
<1>3. CASE Make(Opener)
  <2>1. FdParts
    BY <1>3, Zenon DEF FdInv, FdParts, Make, eventfd, pipe2, staros_endpoint_fd, take_waitable, Installed
  <2>2. CASE eventfd(Opener)
    <3>1. PICK sem \in BOOLEAN : take_waitable(Opener, <<EventFd(sem)>>, 0, IF sem THEN 1 ELSE 0)
      BY <2>2 DEF eventfd
    <3>2. CASE sem
      <4>1. <<EventFd(TRUE)>>[1].kind = "event"
        BY DEF EventFd
      <4>2. take_waitable(Opener, <<EventFd(TRUE)>>, 0, 1)
        BY <3>1, <3>2
      <4> QED
        BY <2>1, <4>1, <4>2, TakeStep, Zenon
    <3>3. CASE ~sem
      <4>1. <<EventFd(FALSE)>>[1].kind = "event"
        BY DEF EventFd
      <4>2. take_waitable(Opener, <<EventFd(FALSE)>>, 0, 0)
        BY <3>1, <3>3, Zenon
      <4> QED
        BY <2>1, <4>1, <4>2, TakeStep, Zenon
    <3> QED
      BY <3>2, <3>3
  <2>3. CASE pipe2(Opener)
    <3>1. <<PipeFd(FALSE), PipeFd(TRUE)>>[1].kind = "pipe"
      BY DEF PipeFd
    <3> QED
      BY <2>1, <2>3, <3>1, TakeStep, Zenon DEF pipe2
  <2>4. CASE staros_endpoint_fd(Opener)
    <3>1. <<EndpointFd>>[1].kind = "endpoint"
      BY DEF EndpointFd
    <3> QED
      BY <2>1, <2>4, <3>1, TakeStep DEF staros_endpoint_fd
  <2>5. CASE Installed(Opener)
    BY <2>1, <2>5, InstalledStep, FullStep
  <2> QED
    BY <1>3, <2>2, <2>3, <2>4, <2>5 DEF Make
<1>4. CASE Close(Opener)
  <2>1. ASSUME NEW f \in Fds, close(Opener, f) PROVE FdParts'
    <3>1. ~shared
      BY <2>1, Zenon DEF close, release
    <3> QED
      BY <2>1, <3>1, CloseStep DEF FdInv, FdParts
  <2>2. ASSUME NEW f \in Fds, dup(Opener, f) PROVE FALSE
    BY <2>2 DEF dup
  <2>3. ASSUME NEW f \in Fds, NEW g \in Fds, dup3(Opener, f, g) PROVE FALSE
    BY <2>3, Zenon DEF dup3, release, Open
  <2>4. CASE Drop(Opener)
    <3>1. ~shared
      BY <2>4 DEF Drop
    <3> QED
      BY <2>4, <3>1, DropStep DEF FdInv, FdParts
  <2>5. CASE WakeBoth(Opener)
    <3>1. ~shared
      BY <2>5 DEF WakeBoth
    <3> QED
      BY <2>5, <3>1, WakeBothStep DEF FdInv, FdParts
  <2> QED
    BY <1>4, <2>1, <2>2, <2>3, <2>4, <2>5 DEF Close
<1>5. CASE Control(Opener)
  <2>1. /\ ~shared
        /\ UNCHANGED <<fds, used, objects, signals, mail, bound, op>>
    BY <1>5 DEF Control, set_nonblock
  <2> QED
    BY <2>1, StillStep DEF FdInv, FdParts
<1>6. ASSUME NEW t \in Callers, Transfer(t) PROVE FdParts'
  <2>1. FdParts
    BY <1>6, Zenon DEF FdInv, FdParts, Transfer, Begin, read_event, write_event, read_pipe, write_pipe,
                read_endpoint, write_endpoint, Wakes
  <2>2. ASSUME NEW f \in Fds, Begin(t, f, "read", 1) \/ \E n \in 1..2 : Begin(t, f, "write", n) PROVE FdParts'
    BY <2>1, <2>2, BeginStep
  <2> QED
    BY <1>6, <2>1, <2>2, ReadEventStep, WriteEventStep, ReadPipeStep, WritePipeStep,
       ReadEndpointStep, WriteEndpointStep, WakesStep DEF Transfer
<1>7. ASSUME NEW t \in Callers, Poll(t) PROVE FdParts'
  <2>1. FdParts
    BY <1>7, Zenon DEF FdInv, FdParts, Poll, poll, Scan, Collect, TimedOut, WaitAny
  <2> QED
    BY <1>7, <2>1, PollStep, ScanStep, CollectStep, TimedOutStep, WaitAnyStep DEF Poll
<1> QED
  BY <1>1, <1>2, <1>3, <1>4, <1>5, <1>6, <1>7 DEF FdNext

\* The invariant of fd.rs, up to the first duplicate: every descriptor has one
\* user, a slot of the pool belongs to what names it, a pipe's bytes are in its
\* ring, and from its last look on a thread about to sleep has a signal coming.
THEOREM DescriptorsInductive == FdSpec => []FdInv
<1> QED
  BY FdInitInv, FdStep, PTL DEF FdSpec

LEMMA HearsThem == FdInv => WaiterHears
<1> SUFFICES ASSUME FdInv, ~shared, NEW t \in Callers, NEW f \in Open,
                    \/ op[t].at = "wait" /\ op[t].fd = f
                    \/ op[t].at = "poll" /\ f \in op[t].set
             PROVE  Heard(f)
  BY DEF WaiterHears, Heard
<1>1. f \in Using(t)
  BY DEF Using
<1> QED
  BY <1>1 DEF FdInv, Hearing, Hears

LEMMA KeepsThem == FdInv => SlotsKept
<1> SUFFICES ASSUME FdInv, ~shared PROVE SlotsKept
  BY DEF SlotsKept
<1>1. Open \subseteq Named
  BY DEF Open, Named
<1> QED
  BY <1>1 DEF FdInv, Owned, Apart, Stored, SlotsKept

\* For any number of threads, descriptors and bytes, no thread sleeps in read,
\* write or poll_impl on a descriptor that is ready with no signal pending,
\* unless release is about to signal it.
THEOREM WaitersHear == FdSpec => []WaiterHears
<1> QED
  BY DescriptorsInductive, HearsThem, PTL

\* A descriptor's slot of the pool stays its object's through every order of
\* take_waitable, install, release and the failure paths of pipe2, and the ring
\* of a pipe holds the bytes not yet read where write_waitable put them.
THEOREM SlotsStayTheirs == FdSpec => []SlotsKept
<1> QED
  BY DescriptorsInductive, KeepsThem, PTL
-----------------------------------------------------------------------------
(* The display server's screen (module Compositor) *)

\* Every non-empty set of naturals has a least element.
LEMMA LeastNat ==
    ASSUME NEW T, T \subseteq Nat, T # {}
    PROVE  \E x \in T : \A y \in T : x <= y
<1> DEFINE R == OpToRel(<, Nat)
<1>1. \A x, y \in Nat : <<y, x>> \in R <=> y < x
  BY DEF OpToRel
<1>2. IsWellFoundedOn(R, Nat)
  BY NatLessThanWellFounded, Zenon
<1> HIDE DEF R
<1>3. PICK x \in T : \A y \in T : ~ (<<y, x>> \in R)
  BY <1>2, WFMin, Zenon
<1>4. ASSUME NEW y \in T PROVE x <= y
  <2>1. x \in Nat /\ y \in Nat
    OBVIOUS
  <2>2. ~ (y < x)
    BY <1>1, <1>3, <2>1, Zenon
  <2> QED BY <2>1, <2>2
<1> QED BY <1>4

\* The positions kept can be listed in order.
Orders(f, K) == /\ f \in [1..Cardinality(K) -> K] /\ {f[i] : i \in DOMAIN f} = K
                /\ \A i, j \in DOMAIN f : i < j => f[i] < f[j]
LEMMA Ordering ==
    ASSUME NEW n \in Nat
    PROVE  \A K \in SUBSET (1..n) : \E f : Orders(f, K)
<1> DEFINE Good(m) == \A K \in SUBSET (1..m) : \E f : Orders(f, K)
           Bad == {m \in Nat : ~ Good(m)}
<1>1. SUFFICES ASSUME Bad # {} PROVE FALSE
  OBVIOUS
<1>2. PICK m \in Bad : \A y \in Bad : m <= y
  <2>1. Bad \subseteq Nat
    OBVIOUS
  <2> HIDE DEF Bad
  <2> QED BY <1>1, <2>1, LeastNat, Zenon
<1>3. m \in Nat /\ \A k \in Nat : k < m => Good(k)
  BY <1>2
<1>4. ASSUME NEW K \in SUBSET (1..m) PROVE \E f : Orders(f, K)
  <2> HIDE DEF Good, Bad
  <2>1. CASE K = {}
    <3>1. Cardinality(K) = 0
      BY <2>1, FS_EmptySet
    <3>2. Orders([i \in 1..0 |-> i], K)
      BY <2>1, <3>1 DEF Orders
    <3> QED BY <3>2
  <2>2. CASE K # {}
    <3>0. m \in Nat \ {0} /\ m - 1 \in Nat
      <4>1. PICK k \in K : TRUE
        BY <2>2, Zenon
      <4>2. k \in 1..m
        OBVIOUS
      <4> QED BY <1>3, <4>2
    <3>1. Good(m - 1)
      BY <1>3, <3>0
    <3>2. CASE m \notin K
      <4>1. K \in SUBSET (1..(m - 1))
        BY <3>0, <3>2
      <4> QED BY <3>1, <4>1 DEF Good
    <3>3. CASE m \in K
      <4> DEFINE L == K \ {m}
      <4>1. L \in SUBSET (1..(m - 1)) /\ K = L \cup {m} /\ m \notin L
        BY <3>0, <3>3
      <4>2. PICK g : Orders(g, L)
        BY <3>1, <4>1 DEF Good
      <4>3. IsFiniteSet(1..(m - 1))
        BY <3>0, FS_Interval
      <4>4. IsFiniteSet(L) /\ Cardinality(L) \in Nat
        BY <4>1, <4>3, FS_Subset, FS_CardinalityType, Zenon
      <4>5. Cardinality(K) = Cardinality(L) + 1
        BY <4>1, <4>4, FS_AddElement, Zenon
      <4> HIDE DEF L
      <4>6. PICK c \in Nat : c = Cardinality(L)
        BY <4>4
      <4>7. /\ g \in [1..c -> L] /\ {g[i] : i \in 1..c} = L
            /\ \A i, j \in 1..c : i < j => g[i] < g[j]
        BY <4>2, <4>6 DEF Orders
      <4> DEFINE f == [i \in 1..(c + 1) |-> IF i = c + 1 THEN m ELSE g[i]]
      <4>8. f \in [1..(c + 1) -> K]
        BY <4>1, <4>7
      <4>9. DOMAIN f = 1..(c + 1) /\ f[c + 1] = m /\ \A i \in 1..c : f[i] = g[i]
        OBVIOUS
      <4> HIDE DEF f
      <4>10. {f[i] : i \in 1..(c + 1)} = K
        <5>1. \A k \in K : \E i \in 1..(c + 1) : f[i] = k
          <6> SUFFICES ASSUME NEW k \in K PROVE \E i \in 1..(c + 1) : f[i] = k
            OBVIOUS
          <6>1. CASE k = m
            BY <6>1, <4>9
          <6>2. CASE k # m
            <7>1. k \in L
              BY <6>2, <4>1
            <7>2. PICK i \in 1..c : g[i] = k
              BY <7>1, <4>7
            <7> QED BY <7>2, <4>9
          <6> QED BY <6>1, <6>2
        <5> QED BY <5>1, <4>8
      <4>11. ASSUME NEW i \in 1..(c + 1), NEW j \in 1..(c + 1), i < j PROVE f[i] < f[j]
        <5>1. i \in 1..c
          BY <4>11
        <5>2. CASE j = c + 1
          <6>1. g[i] \in L
            BY <5>1, <4>7
          <6>2. g[i] \in 1..(m - 1)
            BY <6>1, <4>1, Zenon
          <6>3. g[i] \in Int /\ g[i] < m
            BY <6>2, <3>0
          <6> QED BY <6>3, <5>1, <5>2, <4>9
        <5>3. CASE j # c + 1
          <6>1. j \in 1..c
            BY <5>3
          <6> QED BY <6>1, <5>1, <4>11, <4>7, <4>9
        <5> QED BY <5>2, <5>3
      <4>12. Orders(f, K)
        BY <4>5, <4>6, <4>8, <4>9, <4>10, <4>11 DEF Orders
      <4> QED BY <4>12
    <3> QED BY <3>2, <3>3
  <2> QED BY <2>1, <2>2
<1> QED BY <1>2, <1>4

\* remove: what is kept is on the stack, once, and nothing else is.
LEMMA ClosesUp ==
    ASSUME surfaces \in Seq(Surface), IdsOnce, NEW K, K \subseteq DOMAIN surfaces
    PROVE  /\ Closed(K) \in Seq(Surface)
           /\ \A j \in DOMAIN Closed(K) : \E k \in K : Closed(K)[j] = surfaces[k]
           /\ \A k \in K : \E j \in DOMAIN Closed(K) : Closed(K)[j] = surfaces[k]
           /\ \A i, j \in DOMAIN Closed(K) : Closed(K)[i].id = Closed(K)[j].id => i = j
<1>1. DOMAIN surfaces = 1..Len(surfaces) /\ Len(surfaces) \in Nat
  OBVIOUS
<1>2. IsFiniteSet(K) /\ Cardinality(K) \in Nat
  <2>1. IsFiniteSet(1..Len(surfaces))
    BY <1>1, FS_Interval
  <2> QED BY <2>1, <1>1, FS_Subset, FS_CardinalityType
<1>3. \E f : Orders(f, K)
  BY <1>1, Ordering, Zenon
<1>4. Orders(Ranked(K), K)
  BY <1>3, Zenon DEF Orders, Ranked
<1>5. PICK f : f = Ranked(K)
  OBVIOUS
<1>6. PICK c \in Nat : c = Cardinality(K)
  BY <1>2
<1>7. /\ f \in [1..c -> K] /\ {f[i] : i \in 1..c} = K
      /\ \A i, j \in 1..c : i < j => f[i] < f[j]
  BY <1>4, <1>5, <1>6, Zenon DEF Orders
<1>8. Closed(K) = [i \in 1..c |-> surfaces[f[i]]]
  BY <1>5, <1>6 DEF Closed
<1>9. PICK t : t = Closed(K)
  OBVIOUS
<1>10. DOMAIN t = 1..c /\ \A i \in 1..c : f[i] \in K /\ t[i] = surfaces[f[i]]
  BY <1>7, <1>8, <1>9
<1>11. \A i \in 1..c : t[i] \in Surface
  BY <1>10
<1>12. t \in Seq(Surface)
  BY <1>8, <1>9, <1>10, <1>11
<1>13. \A i, j \in 1..c : t[i].id = t[j].id => i = j
  <2> SUFFICES ASSUME NEW i \in 1..c, NEW j \in 1..c, t[i].id = t[j].id PROVE i = j
    OBVIOUS
  <2>1. f[i] = f[j] /\ f[i] \in Int
    BY <1>1, <1>10 DEF IdsOnce
  <2>2. ~ (i < j) /\ ~ (j < i)
    BY <1>7, <2>1
  <2> QED BY <2>2
<1>14. \A k \in K : \E j \in 1..c : t[j] = surfaces[k]
  <2> SUFFICES ASSUME NEW k \in K PROVE \E j \in 1..c : t[j] = surfaces[k]
    OBVIOUS
  <2>1. PICK j \in 1..c : f[j] = k
    BY <1>7
  <2> QED BY <2>1, <1>10
<1> QED
  BY <1>9, <1>10, <1>12, <1>13, <1>14, ZenonT(40)

-----------------------------------------------------------------------------
Areas == [x : Nat, w : Nat]

\* The pixels of a rectangle.
LEMMA PixelsOf ==
    ASSUME NEW r \in Areas
    PROVE  \A p : p \in Pixels(r) <=> p \in Int /\ r.x <= p /\ p < r.x + r.w
<1>1. r.x \in Nat /\ r.w \in Nat
  BY DEF Areas
<1>2. PICK x \in Nat, w \in Nat : x = r.x /\ w = r.w
  BY <1>1
<1>3. Pixels(r) = x..(x + w - 1)
  BY <1>2 DEF Pixels
<1>4. \A p : p \in x..(x + w - 1) <=> p \in Int /\ x <= p /\ p < x + w
  OBVIOUS
<1> QED BY <1>2, <1>3, <1>4

\* A rectangle made of where it begins and how far it reaches.
LEMMA Recting ==
    ASSUME NEW x \in Nat, NEW w \in Nat
    PROVE  Rect(x, w) \in Areas /\ Rect(x, w).x = x /\ Rect(x, w).w = w
BY DEF Rect, Areas

\* clip cuts a rectangle down to what of it is on the screen.
LEMMA Clipping ==
    ASSUME NEW r \in Areas, clip(r) # None
    PROVE  /\ clip(r) \in OnScreen /\ clip(r).w > 0
           /\ r \in OnScreen => clip(r) = r
<1>1. r.x \in Nat /\ r.w \in Nat /\ Width \in Nat \ {0}
  BY CompositorAssumption DEF Areas
<1>2. ~ (r.x >= Width \/ r.w = 0) /\ clip(r) = Rect(r.x, Lower(r.w, Width - r.x))
  BY DEF clip
<1>3. PICK l : l = Lower(r.w, Width - r.x)
  OBVIOUS
<1>4. l \in Nat /\ l > 0 /\ r.x + l <= Width /\ (r.x + r.w <= Width => l = r.w)
  BY <1>1, <1>2, <1>3 DEF Lower
<1>5. clip(r) = Rect(r.x, l)
  BY <1>2, <1>3
<1>6. clip(r) \in Areas /\ clip(r).x = r.x /\ clip(r).w = l
  BY <1>1, <1>4, <1>5, Recting
<1>7. clip(r) \in OnScreen /\ clip(r).w > 0
  BY <1>4, <1>6 DEF OnScreen, Areas
<1>8. ASSUME r \in OnScreen PROVE clip(r) = r
  <2>1. l = r.w
    BY <1>4, <1>8 DEF OnScreen
  <2>2. r = [x |-> r.x, w |-> r.w]
    BY DEF Areas
  <2> QED BY <1>5, <2>1, <2>2 DEF Rect
<1> QED BY <1>7, <1>8

\* What is on the screen and not empty is not cut.
LEMMA Uncut ==
    ASSUME NEW r \in OnScreen, r.w > 0
    PROVE  clip(r) = r
<1>1. r.x \in Nat /\ r.w \in Nat /\ Width \in Nat /\ r.x + r.w <= Width
  BY CompositorAssumption DEF OnScreen
<1>2. clip(r) = Rect(r.x, Lower(r.w, Width - r.x))
  BY <1>1 DEF clip
<1>3. Lower(r.w, Width - r.x) = r.w
  BY <1>1 DEF Lower
<1>4. r = [x |-> r.x, w |-> r.w]
  BY DEF OnScreen
<1> QED BY <1>2, <1>3, <1>4 DEF Rect

\* union covers both.
LEMMA Union ==
    ASSUME NEW r \in OnScreen, NEW q \in OnScreen
    PROVE  /\ union(r, q) \in OnScreen /\ union(r, q).w >= q.w
           /\ Pixels(r) \subseteq Pixels(union(r, q)) /\ Pixels(q) \subseteq Pixels(union(r, q))
<1>1. /\ r.x \in Nat /\ r.w \in Nat /\ q.x \in Nat /\ q.w \in Nat /\ Width \in Nat
      /\ r.x + r.w <= Width /\ q.x + q.w <= Width
  BY CompositorAssumption DEF OnScreen
<1>2. PICK lo : lo = Lower(r.x, q.x)
  OBVIOUS
<1>3. PICK hi : hi = Upper(r.x + r.w, q.x + q.w)
  OBVIOUS
<1>4. lo \in Nat /\ lo <= r.x /\ lo <= q.x
  BY <1>1, <1>2 DEF Lower
<1>5. hi \in Nat /\ hi >= r.x + r.w /\ hi >= q.x + q.w /\ hi <= Width
  BY <1>1, <1>3 DEF Upper
<1>6. hi - lo \in Nat /\ hi - lo >= q.w /\ lo + (hi - lo) <= Width
  BY <1>1, <1>4, <1>5
<1>7. union(r, q) = Rect(lo, hi - lo)
  BY <1>2, <1>3 DEF union
<1>8. PICK u : u = union(r, q)
  OBVIOUS
<1>9. u \in Areas /\ u.x = lo /\ u.w = hi - lo
  BY <1>4, <1>6, <1>7, <1>8, Recting
<1>10. r \in Areas /\ q \in Areas
  BY DEF Areas, OnScreen
<1>11. u \in OnScreen /\ u.w >= q.w
  BY <1>6, <1>9 DEF OnScreen, Areas
<1>12. \A p : p \in Pixels(u) <=> p \in Int /\ u.x <= p /\ p < u.x + u.w
  BY <1>9, PixelsOf
<1>13. \A p : p \in Pixels(r) <=> p \in Int /\ r.x <= p /\ p < r.x + r.w
  BY <1>10, PixelsOf
<1>14. \A p : p \in Pixels(q) <=> p \in Int /\ q.x <= p /\ p < q.x + q.w
  BY <1>10, PixelsOf
<1>15. u.x + u.w = hi
  BY <1>4, <1>5, <1>9
<1>16. Pixels(r) \subseteq Pixels(u)
  BY <1>1, <1>4, <1>5, <1>9, <1>12, <1>13, <1>15
<1>17. Pixels(q) \subseteq Pixels(u)
  BY <1>1, <1>4, <1>5, <1>9, <1>12, <1>14, <1>15
<1> QED BY <1>8, <1>11, <1>16, <1>17

Tracking ==
    /\ back \in Screens /\ shown \in Screens /\ flipped \in BOOLEAN
    /\ stale \in [Screens -> OnScreen] /\ behind \in [Screens -> SUBSET (0..Width - 1)]
    /\ \A b \in Screens : behind[b] \subseteq Pixels(stale[b])
    /\ flipped => behind[shown] = {}

\* composite: the back buffer is brought up to date, and what the others miss
\* lies in what is recorded for them.
LEMMA CompositeTracks ==
    ASSUME Tracking, NEW r \in Areas, NEW accepted \in BOOLEAN, composite(r, accepted)
    PROVE  Tracking'
<1> USE DEF Tracking
<1>0. None \in OnScreen /\ Pixels(None) = {} /\ None.w = 0
  <2>1. None \in Areas /\ None.x = 0 /\ None.w = 0
    BY Recting DEF None
  <2>2. \A p : p \notin Pixels(None)
    BY <2>1, PixelsOf
  <2> QED BY <2>1, <2>2, CompositorAssumption DEF OnScreen, Areas
<1>1. CASE clip(r) = None
  BY <1>1 DEF composite
<1>2. CASE clip(r) # None
  <2>1. PICK d : d = clip(r)
    OBVIOUS
  <2>2. d \in OnScreen /\ d.w > 0 /\ d \in Areas
    BY <1>2, <2>1, Clipping DEF OnScreen, Areas
  <2>3. PICK painted : painted = Pixels(repaint(d))
    OBVIOUS
  <2>4. /\ stale' = damage(d)
        /\ behind' = [b \in DOMAIN behind |-> IF b = back THEN (behind[b] \cup Pixels(d)) \ painted
                                                          ELSE behind[b] \cup Pixels(d)]
        /\ IF Buffers = 2 /\ accepted THEN shown' = back /\ back' = (back + 1) % Buffers
                                      ELSE UNCHANGED <<shown, back>>
        /\ flipped' = (Buffers = 1 \/ accepted)
    BY <1>2, <2>1, <2>3 DEF composite
  <2>5. Pixels(d) \subseteq 0..Width - 1
    BY <2>2, PixelsOf, CompositorAssumption DEF OnScreen
  <2>6. \A b \in Screens : stale[b] \in OnScreen
    OBVIOUS
  <2>7. behind[back] \cup Pixels(d) \subseteq painted
    <3>1. CASE stale[back] = None
      BY <3>1, <1>0, <2>3 DEF repaint
    <3>2. CASE stale[back] # None
      <4>1. PICK u : u = union(stale[back], d)
        OBVIOUS
      <4>2. u \in OnScreen /\ u.w >= d.w /\ Pixels(stale[back]) \subseteq Pixels(u) /\ Pixels(d) \subseteq Pixels(u)
        BY <4>1, <2>2, <2>6, Union
      <4>3. u.w > 0
        BY <4>2, <2>2 DEF OnScreen
      <4>4. repaint(d) = u
        BY <3>2, <4>1, <4>2, <4>3, Uncut DEF repaint
      <4> QED BY <4>2, <4>4, <2>3
    <3> QED BY <3>1, <3>2
  <2>8. behind' \in [Screens -> SUBSET (0..Width - 1)]
    BY <2>4, <2>5
  <2>9. behind'[back] = {} /\ \A b \in Screens : b # back => behind'[b] = behind[b] \cup Pixels(d)
    BY <2>4, <2>7
  <2>10. stale' \in [Screens -> OnScreen] /\ \A b \in Screens : behind'[b] \subseteq Pixels(stale'[b])
    <3>1. DOMAIN stale = Screens
      OBVIOUS
    <3>2. /\ DOMAIN stale' = Screens
          /\ \A b \in Screens : stale'[b] = IF b = back THEN None
                                            ELSE IF stale[b] = None THEN d ELSE union(stale[b], d)
      BY <2>4, <3>1 DEF damage
    <3>3. ASSUME NEW b \in Screens PROVE stale'[b] \in OnScreen /\ behind'[b] \subseteq Pixels(stale'[b])
      <4>1. CASE b = back
        BY <4>1, <3>2, <2>9, <1>0
      <4>2. CASE b # back /\ stale[b] = None
        BY <4>2, <3>2, <2>9, <1>0, <2>2
      <4>3. CASE b # back /\ stale[b] # None
        <5>1. stale'[b] = union(stale[b], d) /\ behind'[b] = behind[b] \cup Pixels(d)
          BY <4>3, <3>2, <2>9
        <5>2. /\ union(stale[b], d) \in OnScreen
              /\ Pixels(stale[b]) \subseteq Pixels(union(stale[b], d)) /\ Pixels(d) \subseteq Pixels(union(stale[b], d))
          BY <2>2, <2>6, Union
        <5> QED BY <5>1, <5>2
      <4> QED BY <4>1, <4>2, <4>3
    <3>4. stale' = damage(d) /\ stale' = [b \in DOMAIN stale' |-> stale'[b]]
      BY <2>4, Zenon DEF damage
    <3> QED BY <3>2, <3>3, <3>4
  <2>11. back' \in Screens /\ shown' \in Screens
    <3>1. CASE Buffers = 2 /\ accepted
      BY <3>1, <2>4 DEF Screens
    <3>2. CASE ~ (Buffers = 2 /\ accepted)
      BY <3>2, <2>4
    <3> QED BY <3>1, <3>2
  <2>12. flipped' \in BOOLEAN /\ (flipped' => behind'[shown'] = {})
    <3>1. CASE Buffers = 2 /\ accepted
      BY <3>1, <2>4, <2>9
    <3>2. CASE Buffers = 2 /\ ~ accepted
      BY <3>2, <2>4
    <3>3. CASE Buffers = 1
      <4>1. shown' = shown /\ shown = back
        BY <3>3, <2>4 DEF Screens
      <4> QED BY <4>1, <2>4, <2>9
    <3> QED BY <3>1, <3>2, <3>3, CompositorAssumption
  <2> QED
    BY <2>8, <2>10, <2>11, <2>12
<1> QED BY <1>1, <1>2

Listed == surfaces \in Seq(Surface) /\ next_id \in 1..MaxId + 1 /\ live \in [Clients -> SUBSET Nat]
OwnersOnly ==
    \A c \in Clients : \A z : z \in live[c] <=> \E i \in DOMAIN surfaces : surfaces[i].owner = c /\ surfaces[i].id = z

\* The invariant is about the buffers and about the stack.
LEMMA TwoHalves == ScreenInv <=> Tracking /\ Listed /\ IdsOnce /\ OwnersOnly
<1>1. (\A c \in Clients : live[c] = {surfaces[i].id : i \in WindowsOf(c)}) <=> OwnersOnly
  <2>1. \A c : \A z : z \in {surfaces[i].id : i \in WindowsOf(c)}
                        <=> \E i \in DOMAIN surfaces : surfaces[i].owner = c /\ surfaces[i].id = z
    BY DEF WindowsOf
  <2>2. \A c : live[c] = {surfaces[i].id : i \in WindowsOf(c)}
                  <=> \A z : z \in live[c] <=> z \in {surfaces[i].id : i \in WindowsOf(c)}
    <3> SUFFICES ASSUME NEW c, NEW S, S = {surfaces[i].id : i \in WindowsOf(c)},
                        \A z : z \in live[c] <=> z \in S
                 PROVE  live[c] = S
      OBVIOUS
    <3> QED OBVIOUS
  <2>3. ASSUME NEW c
        PROVE  live[c] = {surfaces[i].id : i \in WindowsOf(c)}
                  <=> \A z : z \in live[c] <=> \E i \in DOMAIN surfaces : surfaces[i].owner = c /\ surfaces[i].id = z
    <3>1. \A z : z \in {surfaces[i].id : i \in WindowsOf(c)}
                   <=> \E i \in DOMAIN surfaces : surfaces[i].owner = c /\ surfaces[i].id = z
      BY <2>1, Zenon
    <3>2. live[c] = {surfaces[i].id : i \in WindowsOf(c)}
            <=> \A z : z \in live[c] <=> z \in {surfaces[i].id : i \in WindowsOf(c)}
      BY <2>2, Zenon
    <3> QED BY <3>1, <3>2, Zenon
  <2> QED BY <2>3, Zenon DEF OwnersOnly
<1> QED BY <1>1 DEF ScreenInv, ScreenTypeOK, NoOldPixels, Tracking, Listed

\* A window's rectangle, and what its owner says changed in it.
LEMMA Areal ==
    ASSUME surfaces \in Seq(Surface), NEW i \in DOMAIN surfaces
    PROVE  /\ surfaces[i] \in Surface /\ Area(surfaces[i]) \in Areas
           /\ \A dx, dw \in Nat : dx < surfaces[i].w =>
                Rect(surfaces[i].x + dx, Lower(dw, surfaces[i].w - dx)) \in Areas
<1>1. surfaces[i] \in Surface
  OBVIOUS
<1>2. surfaces[i].x \in Nat /\ surfaces[i].w \in Nat
  BY <1>1 DEF Surface
<1>3. Area(surfaces[i]) \in Areas
  BY <1>2, Recting DEF Area
<1>4. ASSUME NEW dx \in Nat, NEW dw \in Nat, dx < surfaces[i].w
      PROVE  Rect(surfaces[i].x + dx, Lower(dw, surfaces[i].w - dx)) \in Areas
  <2>1. surfaces[i].x + dx \in Nat
    BY <1>2
  <2>2. Lower(dw, surfaces[i].w - dx) \in Nat
    BY <1>2, <1>4 DEF Lower
  <2> QED BY <2>1, <2>2, Recting
<1> QED BY <1>1, <1>3, <1>4, Zenon

\* Finitely many naturals have a greatest.
LEMMA GreatestOf ==
    ASSUME NEW n \in Nat, NEW g, \A i \in 1..n : g[i] \in Nat
    PROVE  \A L \in SUBSET (1..n) : L # {} => \E k \in L : \A i \in L : g[i] <= g[k]
<1> DEFINE Good(m) == m <= n => \A L \in SUBSET (1..m) : L # {} => \E k \in L : \A i \in L : g[i] <= g[k]
           Bad == {m \in Nat : ~ Good(m)}
<1>1. SUFFICES ASSUME Bad # {} PROVE FALSE
  OBVIOUS
<1>2. PICK m \in Bad : \A y \in Bad : m <= y
  <2>1. Bad \subseteq Nat
    OBVIOUS
  <2> HIDE DEF Bad
  <2> QED BY <1>1, <2>1, LeastNat, Zenon
<1>3. m \in Nat /\ \A k \in Nat : k < m => Good(k)
  <2>1. m \in Nat
    OBVIOUS
  <2>2. ASSUME NEW k \in Nat, k < m PROVE Good(k)
    <3>1. k \notin Bad
      <4> HIDE DEF Bad
      <4> QED BY <1>2, <2>1, <2>2
    <3> HIDE DEF Good
    <3> QED BY <3>1
  <2> QED BY <2>1, <2>2, Zenon
<1>4. ASSUME m <= n, NEW L \in SUBSET (1..m), L # {} PROVE \E k \in L : \A i \in L : g[i] <= g[k]
  <2> HIDE DEF Good, Bad
  <2>0. m \in Nat /\ m - 1 \in Nat /\ m - 1 <= n
    <3>1. PICK k \in L : TRUE
      BY <1>4, Zenon
    <3>2. k \in 1..m
      OBVIOUS
    <3> QED BY <1>3, <1>4, <3>2
  <2>1. Good(m - 1)
    BY <1>3, <2>0
  <2>2. \A M \in SUBSET (1..(m - 1)) : M # {} => \E k \in M : \A i \in M : g[i] <= g[k]
    BY <2>0, <2>1 DEF Good
  <2>3. CASE m \notin L
    <3>1. L \in SUBSET (1..(m - 1))
      BY <2>0, <2>3
    <3> QED BY <1>4, <2>2, <3>1
  <2>4. CASE m \in L
    <3> DEFINE M == L \ {m}
    <3>1. M \in SUBSET (1..(m - 1)) /\ \A i \in L : i = m \/ i \in M
      BY <2>0, <2>4
    <3>2. \A i \in L : g[i] \in Nat
      BY <2>0, <1>4
    <3>3. CASE M = {}
      <4>1. \A i \in L : i = m
        BY <3>1, <3>3
      <4> QED BY <2>4, <3>2, <4>1
    <3>4. CASE M # {}
      <4>1. PICK k \in M : \A i \in M : g[i] <= g[k]
        BY <2>2, <3>1, <3>4, Zenon
      <4>2. k \in L /\ g[k] \in Nat /\ g[m] \in Nat
        BY <2>4, <3>2
      <4> HIDE DEF M
      <4>3. CASE g[m] <= g[k]
        BY <4>1, <4>2, <4>3, <3>1
      <4>4. CASE g[k] <= g[m]
        <5>1. ASSUME NEW i \in L PROVE g[i] <= g[m]
          BY <4>1, <4>2, <4>4, <3>1, <3>2
        <5> QED BY <5>1, <2>4
      <4> QED BY <4>2, <4>3, <4>4
    <3> QED BY <3>3, <3>4
  <2> QED BY <2>3, <2>4
<1> QED BY <1>2, <1>4

\* The rectangle that covers a client's windows is one.
LEMMA Bounding ==
    ASSUME surfaces \in Seq(Surface), NEW K, K \subseteq DOMAIN surfaces, K # {}
    PROVE  Bounds(K) \in Areas
<1>0. DOMAIN surfaces = 1..Len(surfaces) /\ Len(surfaces) \in Nat
  OBVIOUS
<1> DEFINE Lefts == {surfaces[i].x : i \in K}
           Rights == {surfaces[i].x + surfaces[i].w : i \in K}
           left == CHOOSE x \in Lefts : \A i \in K : x <= surfaces[i].x
           right == CHOOSE x \in Rights : \A i \in K : surfaces[i].x + surfaces[i].w <= x
<1>9. \A i \in 1..Len(surfaces) : surfaces[i] \in Surface
  BY <1>0
<1>10. \A i \in 1..Len(surfaces) : surfaces[i].x \in Nat /\ surfaces[i].w \in Nat
  BY <1>9, Zenon DEF Surface
<1>1. \A i \in K : surfaces[i].x \in Nat /\ surfaces[i].w \in Nat
  BY <1>0, <1>10
<1>2. Lefts \subseteq Nat /\ Lefts # {} /\ Rights \subseteq Nat /\ Rights # {}
  BY <1>1
<1>3. left \in Lefts /\ \A i \in K : left <= surfaces[i].x
  <2>1. PICK x \in Lefts : \A y \in Lefts : x <= y
    <3> HIDE DEF Lefts
    <3> QED BY <1>2, LeastNat, Zenon
  <2>2. \A i \in K : x <= surfaces[i].x
    BY <2>1
  <2> QED BY <2>1, <2>2, Zenon
<1>4. \E x \in Rights : \A i \in K : surfaces[i].x + surfaces[i].w <= x
  <2> DEFINE g == [i \in 1..Len(surfaces) |-> surfaces[i].x + surfaces[i].w]
  <2>1. \A i \in 1..Len(surfaces) : g[i] \in Nat
    BY <1>10
  <2>2. \A i \in K : g[i] = surfaces[i].x + surfaces[i].w
    BY <1>0
  <2> HIDE DEF g
  <2>3. PICK k \in K : \A i \in K : g[i] <= g[k]
    BY <1>0, <2>1, GreatestOf, Zenon
  <2>4. g[k] \in Rights
    BY <2>2
  <2> HIDE DEF Rights
  <2> QED BY <2>2, <2>3, <2>4
<1>5. right \in Rights /\ \A i \in K : surfaces[i].x + surfaces[i].w <= right
  BY <1>4
<1>6. Bounds(K) = Rect(left, right - left)
  BY DEF Bounds
<1> HIDE DEF left, right
<1>7. left \in Nat /\ right \in Nat /\ left <= right
  <2>1. left \in Nat /\ right \in Nat
    BY <1>2, <1>3, <1>5
  <2>2. PICK k \in K : TRUE
    OBVIOUS
  <2> HIDE DEF Lefts, Rights
  <2>3. left <= surfaces[k].x /\ surfaces[k].x + surfaces[k].w <= right
    BY <1>3, <1>5
  <2> QED BY <2>1, <2>3, <1>1
<1>8. right - left \in Nat
  BY <1>7
<1> QED BY <1>6, <1>7, <1>8, Recting

\* The first frame touches no window.
LEMMA StartKeeps ==
    ASSUME ScreenInv, NEW accepted \in BOOLEAN, Start(accepted)
    PROVE  ScreenInv'
<1>1. Whole \in Areas
  BY CompositorAssumption, Recting DEF Whole
<1>2. Tracking'
  BY <1>1, TwoHalves, CompositeTracks DEF Start
<1>3. Listed' /\ IdsOnce' /\ OwnersOnly'
  BY TwoHalves DEF Start, Listed, IdsOnce, OwnersOnly
<1> QED BY <1>2, <1>3, TwoHalves, PTL

\* create: the id is a new one.
LEMMA CreateLists ==
    ASSUME ScreenInv, NEW c \in Clients, NEW x \in Nat, NEW w \in Nat \ {0}, create(c, x, w)
    PROVE  ScreenInv'
<1>0. Tracking /\ Listed /\ IdsOnce /\ OwnersOnly
  BY TwoHalves
<1>1. Tracking'
  BY <1>0 DEF create, Tracking
<1> DEFINE s == [id |-> next_id, owner |-> c, x |-> x, w |-> w]
<1>2. s \in Surface /\ next_id \in Nat /\ s.id = next_id /\ s.owner = c
  BY <1>0 DEF Listed, Surface
<1>3. surfaces' = Append(surfaces, s) /\ next_id' = next_id + 1 /\ next_id <= MaxId
      /\ live' = [live EXCEPT ![c] = @ \cup {next_id}]
  BY DEF create
<1> HIDE DEF s
<1>4. /\ surfaces \in Seq(Surface) /\ Len(surfaces) \in Nat /\ DOMAIN surfaces = 1..Len(surfaces)
      /\ surfaces' \in Seq(Surface) /\ DOMAIN surfaces' = 1..(Len(surfaces) + 1)
      /\ surfaces'[Len(surfaces) + 1] = s /\ \A i \in DOMAIN surfaces : surfaces'[i] = surfaces[i]
  BY <1>0, <1>2, <1>3 DEF Listed
<1>5. \A i \in DOMAIN surfaces' : i = Len(surfaces) + 1 \/ i \in DOMAIN surfaces
  BY <1>4
<1>6. \A i \in DOMAIN surfaces : surfaces[i].id \in Nat /\ surfaces[i].id < next_id
  <2>1. \A i \in DOMAIN surfaces : surfaces[i] \in Surface
    BY <1>4
  <2> QED BY <2>1, <1>0 DEF IdsOnce, Surface
<1>7. Listed'
  BY <1>0, <1>2, <1>3, <1>4, CompositorAssumption DEF Listed
<1>8. IdsOnce'
  <2>1. ASSUME NEW i \in DOMAIN surfaces' PROVE surfaces'[i].id < next_id'
    BY <1>2, <1>3, <1>4, <1>5, <1>6
  <2>2. ASSUME NEW i \in DOMAIN surfaces', NEW j \in DOMAIN surfaces', surfaces'[i].id = surfaces'[j].id
        PROVE  i = j
    <3>1. CASE i \in DOMAIN surfaces /\ j \in DOMAIN surfaces
      BY <3>1, <2>2, <1>0, <1>4 DEF IdsOnce
    <3>2. CASE i \in DOMAIN surfaces /\ j = Len(surfaces) + 1
      <4>1. surfaces'[i].id < next_id /\ surfaces'[j].id = next_id /\ surfaces'[i].id \in Nat
        BY <3>2, <1>2, <1>4, <1>6
      <4> QED BY <4>1, <2>2, <1>2
    <3>3. CASE j \in DOMAIN surfaces /\ i = Len(surfaces) + 1
      <4>1. surfaces'[j].id < next_id /\ surfaces'[i].id = next_id /\ surfaces'[j].id \in Nat
        BY <3>3, <1>2, <1>4, <1>6
      <4> QED BY <4>1, <2>2, <1>2
    <3> QED BY <3>1, <3>2, <3>3, <1>5
  <2> QED BY <2>1, <2>2 DEF IdsOnce
<1>9. OwnersOnly'
  <2> SUFFICES ASSUME NEW d \in Clients, NEW z
               PROVE  z \in live'[d] <=> \E i \in DOMAIN surfaces' : surfaces'[i].owner = d /\ surfaces'[i].id = z
    BY DEF OwnersOnly
  <2>1. z \in live'[d] <=> z \in live[d] \/ (d = c /\ z = next_id)
    BY <1>0, <1>3 DEF Listed
  <2>2. z \in live[d] <=> \E i \in DOMAIN surfaces : surfaces[i].owner = d /\ surfaces[i].id = z
    BY <1>0 DEF OwnersOnly
  <2>3. Len(surfaces) + 1 \in DOMAIN surfaces' /\ \A i \in DOMAIN surfaces : i \in DOMAIN surfaces'
    BY <1>4
  <2> QED BY <2>1, <2>2, <2>3, <1>2, <1>4, <1>5, Zenon
<1> QED BY <1>1, <1>7, <1>8, <1>9, TwoHalves, PTL

\* commit: what its owner says changed is painted; no window moves.
LEMMA CommitKeeps ==
    ASSUME ScreenInv, NEW c \in Clients, NEW id, NEW dx \in Nat, NEW dw \in Nat, NEW accepted \in BOOLEAN,
           commit(c, id, dx, dw, accepted)
    PROVE  ScreenInv'
<1>0. Tracking /\ Listed /\ IdsOnce /\ OwnersOnly
  BY TwoHalves
<1>1. PICK i \in DOMAIN surfaces :
        /\ dx < surfaces[i].w
        /\ composite(Rect(surfaces[i].x + dx, Lower(dw, surfaces[i].w - dx)), accepted)
  BY DEF commit, index_of
<1>2. Rect(surfaces[i].x + dx, Lower(dw, surfaces[i].w - dx)) \in Areas
  BY <1>0, <1>1, Areal DEF Listed
<1>3. Tracking'
  BY <1>0, <1>1, <1>2, CompositeTracks
<1>4. Listed' /\ IdsOnce' /\ OwnersOnly'
  BY <1>0 DEF commit, Listed, IdsOnce, OwnersOnly
<1> QED BY <1>3, <1>4, TwoHalves, PTL

\* What is left of the stack is listed, each id once.
LEMMA LeftKeeps ==
    ASSUME Listed, IdsOnce, NEW K, K \subseteq DOMAIN surfaces, surfaces' = Closed(K), UNCHANGED next_id
    PROVE  /\ surfaces' \in Seq(Surface) /\ IdsOnce'
           /\ \A d, z : (\E j \in DOMAIN surfaces' : surfaces'[j].owner = d /\ surfaces'[j].id = z)
                          <=> \E k \in K : surfaces[k].owner = d /\ surfaces[k].id = z
<1>1. PICK t : t = Closed(K)
  OBVIOUS
<1>2. /\ t \in Seq(Surface)
      /\ \A j \in DOMAIN t : \E k \in K : t[j] = surfaces[k]
      /\ \A k \in K : \E j \in DOMAIN t : t[j] = surfaces[k]
      /\ \A i, j \in DOMAIN t : t[i].id = t[j].id => i = j
  <2>1. surfaces \in Seq(Surface)
    BY DEF Listed
  <2>2. /\ Closed(K) \in Seq(Surface)
        /\ \A j \in DOMAIN Closed(K) : \E k \in K : Closed(K)[j] = surfaces[k]
        /\ \A k \in K : \E j \in DOMAIN Closed(K) : Closed(K)[j] = surfaces[k]
        /\ \A i, j \in DOMAIN Closed(K) : Closed(K)[i].id = Closed(K)[j].id => i = j
    BY <2>1, ClosesUp, Zenon
  <2> QED BY <2>2, <1>1
<1>3. surfaces' = t /\ next_id' = next_id
  BY <1>1
<1>4. \A j \in DOMAIN t : t[j].id < next_id
  BY <1>2 DEF IdsOnce
<1>5. IdsOnce'
  BY <1>2, <1>3, <1>4 DEF IdsOnce
<1>6. \A d, z : (\E j \in DOMAIN t : t[j].owner = d /\ t[j].id = z)
                  <=> \E k \in K : surfaces[k].owner = d /\ surfaces[k].id = z
  BY <1>2
<1>7. surfaces' \in Seq(Surface)
  BY <1>2, <1>3
<1>8. \A d, z : (\E j \in DOMAIN surfaces' : surfaces'[j].owner = d /\ surfaces'[j].id = z)
                  <=> \E k \in K : surfaces[k].owner = d /\ surfaces[k].id = z
  BY <1>3, <1>6
<1> QED BY <1>5, <1>7, <1>8

\* raise: the window goes on top, and the stack holds what it held.
LEMMA RaiseKeeps ==
    ASSUME ScreenInv, NEW c \in Clients, NEW id, NEW accepted \in BOOLEAN, raise(c, id, accepted)
    PROVE  ScreenInv'
<1>0. Tracking /\ Listed /\ IdsOnce /\ OwnersOnly
  BY TwoHalves
<1>1. PICK i \in DOMAIN surfaces :
        /\ surfaces' = Append(Closed(Others(i)), surfaces[i])
        /\ composite(Area(surfaces[i]), accepted)
  BY DEF raise, index_of
<1>2. surfaces[i] \in Surface /\ Area(surfaces[i]) \in Areas
  BY <1>0, <1>1, Areal DEF Listed
<1>3. Tracking'
  BY <1>0, <1>1, <1>2, CompositeTracks
<1>4. PICK t : t = Closed(Others(i))
  OBVIOUS
<1>5. Others(i) \subseteq DOMAIN surfaces /\ \A k \in DOMAIN surfaces : k = i \/ k \in Others(i)
  BY DEF Others
<1>6. /\ t \in Seq(Surface)
      /\ \A j \in DOMAIN t : \E k \in Others(i) : t[j] = surfaces[k]
      /\ \A k \in Others(i) : \E j \in DOMAIN t : t[j] = surfaces[k]
      /\ \A j, k \in DOMAIN t : t[j].id = t[k].id => j = k
  <2>1. surfaces \in Seq(Surface)
    BY <1>0 DEF Listed
  <2> DEFINE K == Others(i)
  <2>2. K \subseteq DOMAIN surfaces
    BY <1>5
  <2> HIDE DEF K
  <2>3. /\ Closed(K) \in Seq(Surface)
        /\ \A j \in DOMAIN Closed(K) : \E k \in K : Closed(K)[j] = surfaces[k]
        /\ \A k \in K : \E j \in DOMAIN Closed(K) : Closed(K)[j] = surfaces[k]
        /\ \A j, k \in DOMAIN Closed(K) : Closed(K)[j].id = Closed(K)[k].id => j = k
    BY <1>0, <2>1, <2>2, ClosesUp
  <2>4. t = Closed(K)
    BY <1>4 DEF K
  <2>5. /\ t \in Seq(Surface)
        /\ \A j \in DOMAIN t : \E k \in K : t[j] = surfaces[k]
        /\ \A k \in K : \E j \in DOMAIN t : t[j] = surfaces[k]
        /\ \A j, k \in DOMAIN t : t[j].id = t[k].id => j = k
    BY <2>3, <2>4
  <2> QED BY <2>5 DEF K
<1>7. PICK n \in Nat : n = Len(t)
  BY <1>6
<1>8. PICK s \in Surface : s = surfaces[i]
  BY <1>2
<1>9. surfaces' = Append(t, s)
  BY <1>1, <1>4, <1>8
<1>10. /\ surfaces' \in Seq(Surface) /\ DOMAIN surfaces' = 1..(n + 1) /\ DOMAIN t = 1..n
       /\ surfaces'[n + 1] = s /\ \A j \in DOMAIN t : surfaces'[j] = t[j]
  BY <1>6, <1>7, <1>9
<1>11. n + 1 \in DOMAIN surfaces' /\ \A j \in DOMAIN t : j \in DOMAIN surfaces'
  BY <1>10
<1>12. \A j \in DOMAIN surfaces' : j = n + 1 \/ j \in DOMAIN t
  BY <1>10
<1>13. next_id' = next_id /\ live' = live
  BY DEF raise
<1>14. \A j \in DOMAIN t : t[j].id < next_id /\ t[j].id # s.id
  <2> SUFFICES ASSUME NEW j \in DOMAIN t PROVE t[j].id < next_id /\ t[j].id # s.id
    OBVIOUS
  <2>1. PICK k \in Others(i) : t[j] = surfaces[k]
    BY <1>6
  <2>2. k \in DOMAIN surfaces /\ k # i
    BY DEF Others
  <2> QED BY <2>1, <2>2, <1>0, <1>8 DEF IdsOnce
<1>15. IdsOnce'
  <2>1. \A j \in DOMAIN surfaces' : surfaces'[j].id < next_id'
    BY <1>0, <1>8, <1>10, <1>12, <1>13, <1>14 DEF IdsOnce
  <2>2. \A j, k \in DOMAIN surfaces' : surfaces'[j].id = surfaces'[k].id => j = k
    BY <1>6, <1>10, <1>12, <1>14
  <2> QED BY <2>1, <2>2 DEF IdsOnce
<1>16. OwnersOnly'
  <2> SUFFICES ASSUME NEW d \in Clients, NEW z
               PROVE  z \in live'[d] <=> \E j \in DOMAIN surfaces' : surfaces'[j].owner = d /\ surfaces'[j].id = z
    BY DEF OwnersOnly
  <2>1. z \in live[d] <=> \E k \in DOMAIN surfaces : surfaces[k].owner = d /\ surfaces[k].id = z
    BY <1>0 DEF OwnersOnly
  <2>2. ASSUME NEW k \in DOMAIN surfaces, surfaces[k].owner = d, surfaces[k].id = z
        PROVE  \E j \in DOMAIN surfaces' : surfaces'[j].owner = d /\ surfaces'[j].id = z
    <3>1. CASE k = i
      BY <3>1, <2>2, <1>8, <1>10, <1>11
    <3>2. CASE k # i
      <4>1. PICK j \in DOMAIN t : t[j] = surfaces[k]
        BY <3>2, <1>5, <1>6
      <4> QED BY <4>1, <2>2, <1>10, <1>11
    <3> QED BY <3>1, <3>2
  <2>3. ASSUME NEW j \in DOMAIN surfaces', surfaces'[j].owner = d, surfaces'[j].id = z
        PROVE  \E k \in DOMAIN surfaces : surfaces[k].owner = d /\ surfaces[k].id = z
    <3>1. CASE j = n + 1
      BY <3>1, <2>3, <1>1, <1>8, <1>10
    <3>2. CASE j \in DOMAIN t
      <4>1. PICK k \in Others(i) : t[j] = surfaces[k]
        BY <3>2, <1>6
      <4> QED BY <4>1, <3>2, <2>3, <1>5, <1>10
    <3> QED BY <3>1, <3>2, <1>12
  <2> QED BY <2>1, <2>2, <2>3, <1>13
<1>17. Listed'
  BY <1>0, <1>10, <1>13 DEF Listed
<1> QED BY <1>3, <1>15, <1>16, <1>17, TwoHalves, PTL

\* destroy: the id is its owner's and nobody else's.
LEMMA DestroyKeeps ==
    ASSUME ScreenInv, NEW c \in Clients, NEW id, NEW accepted \in BOOLEAN, destroy(c, id, accepted)
    PROVE  ScreenInv'
<1>0. Tracking /\ Listed /\ IdsOnce /\ OwnersOnly
  BY TwoHalves
<1>1. PICK i \in DOMAIN surfaces :
        /\ surfaces[i].id = id /\ surfaces[i].owner = c
        /\ surfaces' = Closed(Others(i))
        /\ composite(Area(surfaces[i]), accepted)
  BY DEF destroy, index_of
<1>2. Area(surfaces[i]) \in Areas
  BY <1>0, <1>1, Areal DEF Listed
<1>3. Tracking'
  BY <1>0, <1>1, <1>2, CompositeTracks
<1>4. next_id' = next_id /\ live' = [live EXCEPT ![c] = @ \ {id}]
  BY DEF destroy
<1>5. Others(i) \subseteq DOMAIN surfaces /\ \A k : k \in Others(i) <=> k \in DOMAIN surfaces /\ k # i
  BY DEF Others
<1>6. /\ surfaces' \in Seq(Surface) /\ IdsOnce'
      /\ \A d, z : (\E j \in DOMAIN surfaces' : surfaces'[j].owner = d /\ surfaces'[j].id = z)
                     <=> \E k \in Others(i) : surfaces[k].owner = d /\ surfaces[k].id = z
  BY <1>0, <1>1, <1>4, <1>5, LeftKeeps
<1>7. OwnersOnly'
  <2> SUFFICES ASSUME NEW d \in Clients, NEW z
               PROVE  z \in live'[d] <=> \E k \in Others(i) : surfaces[k].owner = d /\ surfaces[k].id = z
    BY <1>6 DEF OwnersOnly
  <2>1. z \in live'[d] <=> z \in live[d] /\ ~ (d = c /\ z = id)
    BY <1>0, <1>4 DEF Listed
  <2>2. z \in live[d] <=> \E k \in DOMAIN surfaces : surfaces[k].owner = d /\ surfaces[k].id = z
    BY <1>0 DEF OwnersOnly
  <2>3. \A k \in DOMAIN surfaces : surfaces[k].id = id => k = i
    BY <1>0, <1>1 DEF IdsOnce
  <2> QED BY <2>1, <2>2, <2>3, <1>1, <1>5
<1>8. Listed'
  BY <1>0, <1>4, <1>6 DEF Listed
<1> QED BY <1>3, <1>6, <1>7, <1>8, TwoHalves, PTL

\* remove_owner: all of a client's windows go, and no other.
LEMMA RemovalKeeps ==
    ASSUME ScreenInv, NEW dead \in Clients, NEW accepted \in BOOLEAN, remove_owner(dead, accepted)
    PROVE  ScreenInv'
<1>0. Tracking /\ Listed /\ IdsOnce /\ OwnersOnly
  BY TwoHalves
<1>1. /\ live[dead] # {} /\ surfaces' = Closed(DOMAIN surfaces \ WindowsOf(dead))
      /\ composite(Bounds(WindowsOf(dead)), accepted)
      /\ next_id' = next_id /\ live' = [live EXCEPT ![dead] = {}]
  BY DEF remove_owner
<1>2. WindowsOf(dead) \subseteq DOMAIN surfaces /\ WindowsOf(dead) # {}
  BY <1>0, <1>1 DEF WindowsOf, OwnersOnly
<1>3. Bounds(WindowsOf(dead)) \in Areas
  BY <1>0, <1>2, Bounding DEF Listed
<1>4. Tracking'
  BY <1>0, <1>1, <1>3, CompositeTracks
<1> DEFINE K == DOMAIN surfaces \ WindowsOf(dead)
<1>5. K \subseteq DOMAIN surfaces /\ \A k : k \in K <=> k \in DOMAIN surfaces /\ surfaces[k].owner # dead
  BY DEF WindowsOf
<1>6. surfaces' = Closed(K)
  BY <1>1
<1> HIDE DEF K
<1>7. /\ surfaces' \in Seq(Surface) /\ IdsOnce'
      /\ \A d, z : (\E j \in DOMAIN surfaces' : surfaces'[j].owner = d /\ surfaces'[j].id = z)
                     <=> \E k \in K : surfaces[k].owner = d /\ surfaces[k].id = z
  BY <1>0, <1>1, <1>5, <1>6, LeftKeeps, Zenon
<1>8. OwnersOnly'
  <2> SUFFICES ASSUME NEW d \in Clients, NEW z
               PROVE  z \in live'[d] <=> \E j \in DOMAIN surfaces' : surfaces'[j].owner = d /\ surfaces'[j].id = z
    BY DEF OwnersOnly
  <2>3. (\E j \in DOMAIN surfaces' : surfaces'[j].owner = d /\ surfaces'[j].id = z)
          <=> \E k \in K : surfaces[k].owner = d /\ surfaces[k].id = z
    BY <1>7, Zenon
  <2>1. z \in live'[d] <=> z \in live[d] /\ d # dead
    BY <1>0, <1>1 DEF Listed
  <2>2. z \in live[d] <=> \E k \in DOMAIN surfaces : surfaces[k].owner = d /\ surfaces[k].id = z
    BY <1>0 DEF OwnersOnly
  <2> QED BY <2>1, <2>2, <2>3, <1>5
<1>9. Listed'
  BY <1>0, <1>1, <1>7 DEF Listed
<1> QED BY <1>4, <1>7, <1>8, <1>9, TwoHalves, PTL

\* from_seed: every buffer is wrong everywhere, and there is no window.
LEMMA ScreenStarts == ScreenInit => ScreenInv
<1> SUFFICES ASSUME ScreenInit PROVE ScreenInv
  OBVIOUS
<1>1. Whole \in OnScreen /\ Whole \in Areas /\ Whole.x = 0 /\ Whole.w = Width
  BY CompositorAssumption, Recting DEF Whole, OnScreen, Areas
<1>2. Pixels(Whole) \subseteq 0..Width - 1
  BY <1>1, PixelsOf, CompositorAssumption
<1>3. Tracking
  BY <1>1, <1>2, CompositorAssumption DEF ScreenInit, Tracking, Screens
<1>4. surfaces = <<>> /\ next_id = 1 /\ live = [c \in Clients |-> {}]
  BY DEF ScreenInit
<1>5. Listed /\ IdsOnce /\ OwnersOnly
  BY <1>4, CompositorAssumption DEF Listed, IdsOnce, OwnersOnly
<1> QED BY <1>3, <1>5, TwoHalves

\* The invariant of the screen: the buffers are wrong only where it is recorded,
\* and an id is on the stack once, its owner's (Screen::damage, Compositor).
THEOREM ScreenInductive == ScreenSpec => []ScreenInv
<1>1. ScreenInv /\ [ScreenNext]_screenVars => ScreenInv'
  <2> SUFFICES ASSUME ScreenInv, [ScreenNext]_screenVars PROVE ScreenInv'
    OBVIOUS
  <2>1. CASE ScreenNext
    BY <2>1, StartKeeps, CreateLists, CommitKeeps, RaiseKeeps, DestroyKeeps, RemovalKeeps, CompositorAssumption
       DEF ScreenNext
  <2>2. CASE UNCHANGED screenVars
    BY <2>2 DEF screenVars, ScreenInv, ScreenTypeOK, IdsOnce, NoOldPixels, WindowsOf
  <2> QED BY <2>1, <2>2
<1> QED BY <1>1, ScreenStarts, PTL DEF ScreenSpec

\* For any number of clients and windows, any screen and one buffer or two: no
\* accepted flip shows a pixel older than the last change reported there, and a
\* client's windows are the ones it created and did not destroy (composite,
\* index_of, remove_owner).
THEOREM NoOldPixelsShown == ScreenSpec => []NoOldPixels
<1> QED BY ScreenInductive, PTL DEF ScreenInv
-----------------------------------------------------------------------------
\* A part of a line may be counted with what stands before it or behind it.
Regroups(a, b, c, d) ==
    ((a \o b) \o c) \o d = (a \o b) \o (c \o d) /\ (a \o (b \o c)) \o d = (a \o b) \o (c \o d)
LEMMA Regrouped ==
  ASSUME NEW S, NEW a \in Seq(S), NEW b \in Seq(S), NEW c \in Seq(S), NEW d \in Seq(S)
  PROVE  Regroups(a, b, c, d)
<1> DEFINE e == a \o b
<1>1. e \in Seq(S)
  BY ConcatProperties, Zenon
<1> HIDE DEF e
<1>2. (e \o c) \o d = e \o (c \o d)
  BY <1>1, ConcatAssociative, SMTT(60)
<1>3. (a \o b) \o c = a \o (b \o c)
  BY ConcatAssociative, SMTT(60)
<1> QED BY <1>2, <1>3, Zenon DEF e, Regroups

\* push_byte moves the first byte of what is left to the end of the buffer.
MovesOn(S, a, b, c) ==
    /\ Head(c) \in S /\ Tail(c) \in Seq(S) /\ Append(b, Head(c)) \in Seq(S)
    /\ Len(Append(b, Head(c))) = Len(b) + 1
    /\ (a \o Append(b, Head(c))) \o Tail(c) = (a \o b) \o c
LEMMA ByteMoves ==
  ASSUME NEW S, NEW a \in Seq(S), NEW b \in Seq(S), NEW c \in Seq(S), c # <<>>
  PROVE  MovesOn(S, a, b, c)
<1>1. /\ Head(c) \in S /\ Tail(c) \in Seq(S) /\ Append(b, Head(c)) \in Seq(S)
      /\ Len(Append(b, Head(c))) = Len(b) + 1
  BY HeadTailProperties, AppendProperties
<1>2. <<Head(c)>> \in Seq(S) /\ <<Head(c)>> \o Tail(c) = c /\ Append(b, Head(c)) = b \o <<Head(c)>>
  <2>1. Len(c) \in Nat \ {0} /\ Head(c) = c[1]
    BY EmptySeq
  <2>2. Len(<<Head(c)>> \o Tail(c)) = Len(c) /\ \A i \in 1..Len(c) : (<<Head(c)>> \o Tail(c))[i] = c[i]
    BY <1>1, <2>1, HeadTailProperties
  <2>3. <<Head(c)>> \o Tail(c) = c
    BY <1>1, <2>2, SeqEqual, ConcatProperties
  <2> QED BY <1>1, <2>3, AppendIsConcat
<1>3. Regroups(a, b, <<Head(c)>>, Tail(c))
  BY <1>1, <1>2, Regrouped, Zenon
<1> QED BY <1>1, <1>2, <1>3, Zenon DEF Regroups, MovesOn

LEMMA PutOn ==
  ASSUME NEW S, NEW s \in Seq(S), NEW x \in S
  PROVE  /\ Append(s, x) \in Seq(S) /\ Len(Append(s, x)) = Len(s) + 1
         /\ In(Append(s, x)) = In(s) \cup {x}
         /\ Once(s) /\ x \notin In(s) => Once(Append(s, x))
<1>1. /\ Append(s, x) \in Seq(S) /\ Len(Append(s, x)) = Len(s) + 1
      /\ DOMAIN Append(s, x) = 1..Len(s) + 1 /\ DOMAIN s = 1..Len(s) /\ Len(s) \in Nat
      /\ Append(s, x)[Len(s) + 1] = x /\ \A i \in 1..Len(s) : Append(s, x)[i] = s[i]
  BY AppendProperties, LenProperties
<1>2. In(Append(s, x)) = In(s) \cup {x}
  BY <1>1 DEF In
<1>3. Once(s) /\ x \notin In(s) => Once(Append(s, x))
  BY <1>1 DEF Once, In
<1> QED BY <1>1, <1>2, <1>3

LEMMA TakenOff ==
  ASSUME NEW S, NEW s \in Seq(S), s # <<>>, Once(s)
  PROVE  LET x == s[Len(s)]
             r == SubSeq(s, 1, Len(s) - 1)
         IN /\ x \in S /\ r \in Seq(S) /\ Len(r) = Len(s) - 1
            /\ In(s) = In(r) \cup {x} /\ x \notin In(r) /\ Once(r)
<1> DEFINE x == s[Len(s)]  r == SubSeq(s, 1, Len(s) - 1)
<1>1. Len(s) \in Nat \ {0} /\ DOMAIN s = 1..Len(s) /\ \A i \in 1..Len(s) : s[i] \in S
  BY EmptySeq, LenProperties, ElementOfSeq
<1>2. r \in Seq(S) /\ Len(r) = Len(s) - 1 /\ \A i \in 1..Len(s) - 1 : r[i] = s[i]
  BY <1>1, SubSeqProperties
<1>3. DOMAIN r = 1..Len(s) - 1
  BY <1>2, LenProperties
<1> HIDE DEF r
<1>4. In(s) = In(r) \cup {s[Len(s)]}
  BY <1>1, <1>2, <1>3 DEF In
<1>5. Once(r) /\ s[Len(s)] \notin In(r)
  BY <1>1, <1>2, <1>3 DEF In, Once
<1> QED BY <1>1, <1>2, <1>4, <1>5 DEF r

LEMMA NothingIn == In(<<>>) = {} /\ Once(<<>>)
  BY EmptySeq DEF In, Once

\* What holds once every thread has left follows from what holds on the way.
Parts == ProcTypeOK /\ HolderPrints /\ SomeoneFlushes /\ SomeoneRuns /\ InOnePiece /\ EachOnce /\ AllKnown
LEMMA AtTheEnd == Parts <=> ProcInv
<1>1. ASSUME Parts, \A t \in Speakers : Stands(t, "exited") PROVE buf = <<>> /\ In(ran) = known
  <2>1. \A t \in Speakers : doing[t].at = "exited"
    BY <1>1 DEF Stands
  <2>2. buf = <<>> /\ table = <<>>
    BY <1>1, <2>1 DEF Parts, SomeoneFlushes, SomeoneRuns
  <2> QED BY <1>1, <2>2, NothingIn DEF Parts, AllKnown
<1>2. Parts => SaidAndDone
  BY <1>1 DEF Parts, SaidAndDone
<1> QED BY <1>2 DEF Parts, ProcInv, SaidAndDone

LEMMA NowStands ==
  ASSUME ProcTypeOK, NEW t \in Speakers, NEW at \in Stops, NEW home \in {"run", "newline", "handler"},
         \/ GoesOn(t, at) /\ home = doing[t].back
         \/ doing' = [doing EXCEPT ![t] = [at |-> at, back |-> home]]
  PROVE  /\ doing' \in [Speakers -> [at : Stops, back : {"run", "newline", "handler"}]]
         /\ doing'[t].at = at /\ \A u \in Speakers \ {t} : doing'[u] = doing[u]
<1>1. CASE GoesOn(t, at)
  BY <1>1 DEF ProcTypeOK, GoesOn
<1>2. CASE doing' = [doing EXCEPT ![t] = [at |-> at, back |-> home]]
  BY <1>2 DEF ProcTypeOK
<1> QED BY <1>1, <1>2

LEMMA HandlersStay ==
  ASSUME Parts, UNCHANGED <<table, ran, known>>
  PROVE  EachOnce' /\ AllKnown'
<1>1. In(table)' = In(table) /\ In(ran)' = In(ran) /\ Once(table)' = Once(table) /\ Once(ran)' = Once(ran)
  BY DEF In, Once
<1> QED BY <1>1 DEF Parts, EachOnce, AllKnown

\* A thread goes on, and nothing else changes.
LEMMA GoesOnly ==
  ASSUME Parts, NEW t \in Speakers, NEW at \in Stops, GoesOn(t, at), UNCHANGED <<consoleVars, exitVars>>,
         at # "push", ~Stands(t, "push"),
         at \in {"bye", "exited"} => doing[t].at \in {"bye", "exited"},
         at \in {"flush", "bye", "exited"} => table = <<>> \/ doing[t].at \in {"flush", "bye", "exited"}
  PROVE  Parts'
<1>1. /\ doing' \in [Speakers -> [at : Stops, back : {"run", "newline", "handler"}]]
      /\ doing'[t].at = at /\ \A u \in Speakers \ {t} : doing'[u] = doing[u]
  <2>1. doing[t].back \in {"run", "newline", "handler"}
    BY DEF Parts, ProcTypeOK
  <2> QED BY <2>1, NowStands DEF Parts
<1>2. /\ to_print' = to_print /\ out_lock' = out_lock /\ buf' = buf /\ screen' = screen /\ said' = said
      /\ table' = table /\ ran' = ran /\ known' = known
  BY DEF consoleVars, exitVars
<1>3. ProcTypeOK' /\ HolderPrints'
  BY <1>1, <1>2 DEF Parts, ProcTypeOK, HolderPrints, Stands
<1>4. SomeoneFlushes' /\ SomeoneRuns'
  BY <1>1, <1>2 DEF Parts, SomeoneFlushes, SomeoneRuns
<1>5. InOnePiece' /\ EachOnce' /\ AllKnown'
  BY <1>2, HandlersStay, Zenon DEF Parts, InOnePiece, InProgress
<1> QED BY <1>3, <1>4, <1>5 DEF Parts

\* with_out: the text of a call is in progress and said from the moment its lock is taken.
LEMMA LockTaken ==
  ASSUME Parts, NEW t \in Speakers, NEW text \in Seq(Chars), NEW home \in {"run", "newline", "handler"},
         doing[t].at \in {"run", "newline", "handler"}, with_out(t, text, home)
  PROVE  Parts'
<1>1. /\ doing' \in [Speakers -> [at : Stops, back : {"run", "newline", "handler"}]]
      /\ doing'[t].at = "push" /\ \A u \in Speakers \ {t} : doing'[u] = doing[u]
  <2>1. "push" \in Stops
    BY DEF Stops
  <2> QED BY <2>1, NowStands, Zenon DEF Parts, with_out
<1>2. /\ out_lock = Nobody /\ out_lock' = t /\ to_print' = [to_print EXCEPT ![t] = text] /\ said' = said \o text
      /\ buf' = buf /\ screen' = screen /\ table' = table /\ ran' = ran /\ known' = known
  BY DEF with_out, exitVars
<1>3. t # Nobody
  BY ProcessAssumption
<1>4. ProcTypeOK'
  <2>1. said' \in Seq(Chars)
    BY <1>2, ConcatProperties DEF Parts, ProcTypeOK
  <2> QED BY <1>1, <1>2, <2>1 DEF Parts, ProcTypeOK
<1>5. HolderPrints'
  BY <1>1, <1>2, ProcessAssumption DEF Parts, HolderPrints, Stands
<1>6. SomeoneFlushes' /\ SomeoneRuns'
  BY <1>1 DEF SomeoneFlushes, SomeoneRuns
<1>7. InOnePiece'
  <2>1. screen \o buf \in Seq(Chars) /\ (screen \o buf) \o <<>> = said
    BY <1>2, ConcatProperties DEF Parts, ProcTypeOK, InOnePiece, InProgress
  <2>2. screen \o buf = said
    BY <2>1, ConcatEmptySeq
  <2>3. InProgress' = text
    BY <1>2, <1>3 DEF InProgress, Parts, ProcTypeOK
  <2> QED BY <1>2, <2>2, <2>3 DEF Parts, InOnePiece
<1>8. EachOnce' /\ AllKnown'
  BY <1>2, HandlersStay
<1> QED BY <1>4, <1>5, <1>6, <1>7, <1>8 DEF Parts

\* push_byte: the byte goes into the buffer, and a full line to the console.
LEMMA BytePushed ==
  ASSUME Parts, NEW t \in Speakers, push_byte(t)
  PROVE  Parts'
<1> DEFINE b == Append(buf, Head(to_print[t]))
<1>1. /\ to_print[t] \in Seq(Chars) /\ to_print[t] # <<>> /\ doing' = doing /\ out_lock' = out_lock
      /\ to_print' = [to_print EXCEPT ![t] = Tail(to_print[t])] /\ said' = said /\ doing[t].at = "push"
      /\ table' = table /\ ran' = ran /\ known' = known
  BY DEF push_byte, Parts, ProcTypeOK, exitVars, Stands
<1>2. out_lock = t /\ t # Nobody
  BY <1>1, ProcessAssumption DEF Parts, HolderPrints, Stands
<1>3. /\ Tail(to_print[t]) \in Seq(Chars) /\ b \in Seq(Chars) /\ Len(b) = Len(buf) + 1 /\ Len(buf) \in Nat
      /\ (screen \o b) \o Tail(to_print[t]) = (screen \o buf) \o to_print[t]
  <2>1. screen \in Seq(Chars) /\ buf \in Seq(Chars)
    BY DEF Parts, ProcTypeOK
  <2>2. MovesOn(Chars, screen, buf, to_print[t])
    BY <1>1, <2>1, ByteMoves
  <2> QED BY <2>1, <2>2, LenProperties, Zenon DEF MovesOn
<1>4. \/ buf' = <<>> /\ screen' = screen \o b
      \/ buf' = b /\ screen' = screen /\ Len(b) # LINE
  BY Zenon DEF push_byte
<1> HIDE DEF b
<1>5. /\ buf' \in Seq(Chars) /\ screen' \in Seq(Chars) /\ Len(buf') < LINE /\ screen' \o buf' = screen \o b
  <2>1. screen \o b \in Seq(Chars) /\ (screen \o b) \o <<>> = screen \o b
    BY <1>3, ConcatProperties, ConcatEmptySeq DEF Parts, ProcTypeOK
  <2>2. CASE buf' = <<>> /\ screen' = screen \o b
    BY <2>1, <2>2, EmptySeq, ProcessAssumption
  <2>3. CASE buf' = b /\ screen' = screen /\ Len(b) # LINE
    BY <2>3, <1>3, ProcessAssumption DEF Parts, ProcTypeOK, InOnePiece
  <2> QED BY <1>4, <2>2, <2>3, Zenon
<1>6. ProcTypeOK' /\ HolderPrints'
  BY <1>1, <1>3, <1>5, Zenon DEF Parts, ProcTypeOK, HolderPrints, Stands
<1>7. SomeoneFlushes' /\ SomeoneRuns'
  BY <1>1 DEF SomeoneFlushes, SomeoneRuns
<1>8. InOnePiece'
  <2>1. InProgress = to_print[t] /\ InProgress' = Tail(to_print[t])
    BY <1>1, <1>2 DEF InProgress, Parts, ProcTypeOK
  <2> QED BY <1>1, <1>3, <1>5, <2>1, Zenon DEF Parts, InOnePiece
<1> QED BY <1>1, <1>6, <1>7, <1>8, HandlersStay DEF Parts

\* The end of with_out: nothing of the call is left to print.
LEMMA LockDropped ==
  ASSUME Parts, NEW t \in Speakers, call_returns(t)
  PROVE  Parts'
<1>1. /\ doing[t].at = "push" /\ to_print[t] = <<>> /\ out_lock' = Nobody /\ GoesOn(t, doing[t].back)
      /\ to_print' = to_print /\ buf' = buf /\ screen' = screen /\ said' = said
      /\ table' = table /\ ran' = ran /\ known' = known
  BY DEF call_returns, exitVars, Stands
<1>2. doing[t].back \in {"run", "newline", "handler"} /\ doing[t].back \in Stops
  BY DEF Parts, ProcTypeOK, Stops
<1>3. /\ doing' \in [Speakers -> [at : Stops, back : {"run", "newline", "handler"}]]
      /\ doing'[t].at = doing[t].back /\ \A u \in Speakers \ {t} : doing'[u] = doing[u]
  BY <1>1, <1>2, NowStands DEF Parts
<1>4. out_lock = t /\ t # Nobody
  BY <1>1, ProcessAssumption DEF Parts, HolderPrints, Stands
<1>5. ProcTypeOK' /\ HolderPrints'
  BY <1>1, <1>2, <1>3, <1>4, ProcessAssumption, Zenon DEF Parts, ProcTypeOK, HolderPrints, Stands
<1>6. SomeoneFlushes' /\ SomeoneRuns'
  BY <1>2, <1>3 DEF SomeoneFlushes, SomeoneRuns
<1>7. InOnePiece'
  BY <1>1, <1>4, Zenon DEF Parts, InOnePiece, InProgress
<1> QED BY <1>1, <1>5, <1>6, <1>7, HandlersStay DEF Parts

\* flush: what the buffer held is on the console; the thread stays where it was
\* or goes on to where nothing is left to flush.
LEMMA BufferFlushed ==
  ASSUME Parts, NEW t \in Speakers, Flushed, UNCHANGED exitVars,
         NEW at \in Stops, doing' = doing \/ GoesOn(t, at), at # "push", ~Stands(t, "push"),
         at \in {"flush", "bye", "exited"} => doing[t].at \in {"flush", "bye", "exited"}
  PROVE  Parts'
<1>1. /\ out_lock = Nobody /\ out_lock' = out_lock /\ to_print' = to_print /\ said' = said
      /\ screen' = screen \o buf /\ buf' = <<>> /\ table' = table /\ ran' = ran /\ known' = known
  BY DEF Flushed, exitVars
<1>2. /\ doing' \in [Speakers -> [at : Stops, back : {"run", "newline", "handler"}]]
      /\ doing'[t].at \in {at, doing[t].at} /\ \A u \in Speakers \ {t} : doing'[u] = doing[u]
  <2>1. doing[t].back \in {"run", "newline", "handler"}
    BY DEF Parts, ProcTypeOK
  <2>2. CASE doing' = doing
    BY <2>2 DEF Parts, ProcTypeOK
  <2>3. CASE GoesOn(t, at)
    BY <2>1, <2>3, NowStands DEF Parts
  <2> QED BY <2>2, <2>3
<1>3. screen' \in Seq(Chars) /\ buf' \in Seq(Chars) /\ Len(buf') = 0 /\ screen' \o buf' = screen \o buf
  BY <1>1, ConcatProperties, ConcatEmptySeq, EmptySeq DEF Parts, ProcTypeOK
<1>4. ProcTypeOK' /\ HolderPrints'
  BY <1>1, <1>2, <1>3 DEF Parts, ProcTypeOK, HolderPrints, Stands
<1>5. SomeoneFlushes' /\ SomeoneRuns'
  BY <1>1, <1>2 DEF Parts, SomeoneFlushes, SomeoneRuns
<1>6. InOnePiece'
  BY <1>1, <1>3, ProcessAssumption DEF Parts, InOnePiece, InProgress
<1> QED BY <1>1, <1>4, <1>5, <1>6, HandlersStay DEF Parts

\* __cxa_atexit: a handler that was not known is the newest.
LEMMA HandlerAccepted ==
  ASSUME Parts, NEW t \in Speakers, NEW h \in Handlers, __cxa_atexit(t, h)
  PROVE  Parts'
<1>1. /\ h \notin known /\ Len(table) < MAX_ATEXIT /\ table' = Append(table, h) /\ known' = known \cup {h}
      /\ doing' = doing /\ ran' = ran /\ to_print' = to_print /\ out_lock' = out_lock /\ buf' = buf
      /\ screen' = screen /\ said' = said /\ doing[t].at = "run"
  BY DEF __cxa_atexit, consoleVars, Stands
<1>2. /\ table' \in Seq(Handlers) /\ Len(table') = Len(table) + 1 /\ In(table') = In(table) \cup {h}
      /\ Once(table) /\ h \notin In(table) => Once(table')
  BY <1>1, PutOn DEF Parts, ProcTypeOK
<1>3. ProcTypeOK' /\ HolderPrints' /\ SomeoneFlushes' /\ InOnePiece'
  BY <1>1, <1>2, Zenon DEF Parts, ProcTypeOK, HolderPrints, Stands, SomeoneFlushes, InOnePiece, InProgress
<1>4. SomeoneRuns'
  BY <1>1 DEF SomeoneRuns
<1>5. EachOnce' /\ AllKnown'
  <2>1. Len(table) \in Nat
    BY LenProperties DEF Parts, ProcTypeOK
  <2>2. In(ran') = In(ran) /\ Once(ran') = Once(ran)
    BY <1>1
  <2> QED BY <1>1, <1>2, <2>1, <2>2, ProcessAssumption DEF Parts, EachOnce, AllKnown
<1> QED BY <1>3, <1>4, <1>5 DEF Parts

\* run_atexit: the newest handler runs, and may put a new one in its place.
LEMMA HandlerRuns ==
  ASSUME Parts, NEW t \in Speakers, run_atexit(t)
  PROVE  Parts'
<1> DEFINE h == table[Len(table)]  rest == SubSeq(table, 1, Len(table) - 1)
<1>1. /\ table # <<>> /\ doing[t].at = "atexit" /\ ran' = Append(ran, h) /\ GoesOn(t, "handler")
      /\ \/ h + 1 \in Handlers \ known /\ table' = Append(rest, h + 1) /\ known' = known \cup {h + 1}
         \/ table' = rest /\ known' = known
      /\ to_print' = to_print /\ out_lock' = out_lock /\ buf' = buf /\ screen' = screen /\ said' = said
  BY DEF run_atexit, consoleVars, Stands
<1>2. /\ doing' \in [Speakers -> [at : Stops, back : {"run", "newline", "handler"}]]
      /\ doing'[t].at = "handler" /\ \A u \in Speakers \ {t} : doing'[u] = doing[u]
  <2>1. doing[t].back \in {"run", "newline", "handler"} /\ "handler" \in Stops
    BY DEF Parts, ProcTypeOK, Stops
  <2> QED BY <1>1, <2>1, NowStands DEF Parts
<1>3. /\ h \in Handlers /\ rest \in Seq(Handlers) /\ Len(rest) = Len(table) - 1 /\ Len(table) \in Nat
      /\ In(table) = In(rest) \cup {h} /\ h \notin In(rest) /\ Once(rest)
  BY <1>1, TakenOff, LenProperties DEF Parts, ProcTypeOK, AllKnown
<1> HIDE DEF h, rest
<1>4. ran' \in Seq(Handlers) /\ In(ran') = In(ran) \cup {h} /\ Once(ran')
  BY <1>1, <1>3, PutOn DEF Parts, ProcTypeOK, EachOnce
<1>5. /\ table' \in Seq(Handlers) /\ Len(table') <= Len(table) /\ Once(table')
      /\ \/ In(table') = In(rest) \cup {h + 1} /\ h + 1 \notin known /\ known' = known \cup {h + 1}
         \/ In(table') = In(rest) /\ known' = known
  <2>1. CASE h + 1 \in Handlers \ known /\ table' = Append(rest, h + 1) /\ known' = known \cup {h + 1}
    <3>1. h + 1 \notin In(rest)
      BY <2>1, <1>3 DEF Parts, AllKnown
    <3> QED BY <2>1, <3>1, <1>3, PutOn
  <2>2. CASE table' = rest /\ known' = known
    BY <2>2, <1>3
  <2> QED BY <1>1, <2>1, <2>2
<1>6. ProcTypeOK' /\ HolderPrints'
  BY <1>1, <1>2, <1>4, <1>5, Zenon DEF Parts, ProcTypeOK, HolderPrints, Stands
<1>7. SomeoneFlushes' /\ SomeoneRuns'
  BY <1>2 DEF SomeoneFlushes, SomeoneRuns
<1>8. InOnePiece'
  BY <1>1, Zenon DEF Parts, InOnePiece, InProgress
<1>9. EachOnce' /\ AllKnown'
  <2>1. In(ran) \cap In(table) = {} /\ In(ran) \cup In(table) = known /\ Len(table) <= MAX_ATEXIT
    BY DEF Parts, EachOnce, AllKnown
  <2>2. In(ran') \cap In(table') = {} /\ In(ran') \cup In(table') = known'
    BY <1>3, <1>4, <1>5, <2>1
  <2>3. Len(table') <= MAX_ATEXIT
    BY <1>3, <1>5, <2>1, LenProperties, ProcessAssumption
  <2> QED BY <1>4, <1>5, <2>2, <2>3 DEF EachOnce, AllKnown
<1> QED BY <1>6, <1>7, <1>8, <1>9 DEF Parts

\* What each thread's steps leave of the invariant.
LEMMA SpeakerSteps ==
  ASSUME Parts, ProcNext
  PROVE  Parts'
<1> PICK t \in Speakers :
        \/ \E text \in Texts : printf(t, text) \/ puts(t, text)
        \/ puts_newline(t) \/ push_byte(t) \/ call_returns(t) \/ fflush(t)
        \/ \E h \in Handlers : __cxa_atexit(t, h)
        \/ exit(t) \/ run_atexit(t) \/ handler_returns(t) \/ atexit_done(t) \/ flush(t) \/ shutdown(t)
        \/ quick_exit(t) \/ _exit(t)
  BY DEF ProcNext
<1>1. ASSUME NEW text \in Texts, printf(t, text) \/ puts(t, text) PROVE Parts'
  <2>1. /\ text \in Seq(Chars) /\ "newline" \in {"run", "newline", "handler"}
        /\ doing[t].at \in {"run", "handler"} => doing[t].at \in {"run", "newline", "handler"}
    BY ProcessAssumption
  <2>2. CASE printf(t, text)
    BY <2>1, <2>2, LockTaken DEF printf
  <2>3. CASE puts(t, text)
    BY <2>1, <2>3, LockTaken DEF puts, Stands
  <2> QED BY <1>1, <2>2, <2>3
<1>2. CASE puts_newline(t)
  <2>1. <<NL>> \in Seq(Chars)
    BY ProcessAssumption
  <2> QED BY <1>2, <2>1, LockTaken, Zenon DEF puts_newline, Stands
<1>3. CASE fflush(t)
  BY <1>3, BufferFlushed DEF fflush, Stands, Stops
<1>4. CASE flush(t)
  BY <1>4, BufferFlushed DEF flush, Stands, Stops
<1>5. CASE quick_exit(t)
  BY <1>5, BufferFlushed DEF quick_exit, Stands, Stops
<1>6. CASE exit(t)
  BY <1>6, GoesOnly DEF exit, Stands, Stops
<1>7. CASE handler_returns(t)
  BY <1>7, GoesOnly DEF handler_returns, Stands, Stops
<1>8. CASE atexit_done(t)
  BY <1>8, GoesOnly DEF atexit_done, Stands, Stops
<1>9. CASE shutdown(t)
  BY <1>9, GoesOnly DEF shutdown, Stands, Stops
<1>10. CASE _exit(t)
  BY <1>10, GoesOnly DEF _exit, Stands, Stops
<1> QED BY <1>1, <1>2, <1>3, <1>4, <1>5, <1>6, <1>7, <1>8, <1>9, <1>10,
           BytePushed, LockDropped, HandlerAccepted, HandlerRuns

\* The invariant of a program's console and handlers: what was said is on the
\* console, in the buffer or in progress, and every handler known has run or is
\* in the table (with_out, push_byte, run_atexit).
THEOREM ConsoleInductive == ProcSpec => []ProcInv
<1>1. ProcInit => ProcInv
  <2> SUFFICES ASSUME ProcInit PROVE Parts
    BY AtTheEnd
  <2>1. ProcTypeOK /\ HolderPrints /\ SomeoneFlushes /\ SomeoneRuns
    BY EmptySeq, ProcessAssumption
       DEF ProcInit, ProcTypeOK, HolderPrints, SomeoneFlushes, SomeoneRuns, Stands, Stops
  <2>2. InOnePiece
    BY EmptySeq, ConcatEmptySeq, ProcessAssumption DEF ProcInit, InOnePiece, InProgress
  <2>3. EachOnce /\ AllKnown
    BY EmptySeq, NothingIn, ProcessAssumption DEF ProcInit, EachOnce, AllKnown
  <2> QED BY <2>1, <2>2, <2>3 DEF Parts
<1>2. ProcInv /\ [ProcNext]_procVars => ProcInv'
  <2> SUFFICES ASSUME Parts, [ProcNext]_procVars PROVE Parts'
    BY AtTheEnd, PTL
  <2>1. CASE UNCHANGED procVars
    <3>1. /\ doing' = doing /\ to_print' = to_print /\ out_lock' = out_lock /\ buf' = buf
          /\ screen' = screen /\ said' = said /\ table' = table /\ ran' = ran /\ known' = known
      BY <2>1 DEF procVars
    <3> QED BY <3>1, HandlersStay, Zenon
            DEF Parts, ProcTypeOK, HolderPrints, Stands, SomeoneFlushes, SomeoneRuns, InOnePiece, InProgress
  <2> QED BY <2>1, SpeakerSteps
<1> QED BY <1>1, <1>2, PTL DEF ProcSpec

\* For any number of threads, any texts, any handlers and any room in the line
\* and in the table: what is printed reaches the console once and in one piece,
\* no handler runs twice, and a program every thread of which has left by exit
\* has nothing unsaid and no handler undone (exit_process, run_atexit, with_out).
THEOREM SaidAndDoneOnExit == ProcSpec => []SaidAndDone
<1> QED BY ConsoleInductive, PTL DEF ProcInv

-----------------------------------------------------------------------------
\* What a descriptor, a call, a slot and the endpoints may be.
FdFile == [kind : {"file"}, name : Names, handle : Handles, offset : Nat]
IoCall == [op : {"user", "open", "close", "read"}, at : {"user", "lock", "send", "recv"},
           name : Names \cup {NoName}, fd : 0..FILE_FDS, handle : AnyHandle, want : Nat, start : Nat, got : Seq(Letters)]
LEMMA Shapes ==
  ASSUME FilesTypeOK
  PROVE  /\ \A d \in 1..FILE_FDS : /\ IsFile(d) => file_fds[d] \in FdFile /\ file_fds[d].handle \in Handles
                                   /\ ~IsFile(d) => file_fds[d] = NoFile
         /\ io \in [Accessors -> IoCall] /\ \A t \in Accessors : io[t] \in IoCall
         /\ Idle \in IoCall /\ \A h \in Handles : h.slot \in 1..MAX_OPEN /\ h.gen \in 1..Gens
         /\ NoFile.kind = "none" /\ Silence.kind = "none"
         /\ request # Silence => request.kind \in {"open", "close", "read"}
         /\ reply # Silence => reply.kind \in {"error", "open", "close", "read"}
<1>1. \A d \in 1..FILE_FDS : file_fds[d] \in {NoFile} \cup FdFile
  BY Zenon DEF FilesTypeOK, FdFile
<1>2. \A d \in 1..FILE_FDS : /\ IsFile(d) => file_fds[d] \in FdFile /\ file_fds[d].handle \in Handles
                             /\ ~IsFile(d) => file_fds[d] = NoFile
  BY <1>1 DEF FdFile, NoFile, IsFile
<1>3. io \in [Accessors -> IoCall] /\ \A t \in Accessors : io[t] \in IoCall
  BY DEF FilesTypeOK, IoCall
<1>4. Idle \in IoCall
  BY EmptySeq, FilesAssumption DEF Idle, IoCall, AnyHandle
<1>5. \A h \in Handles : h.slot \in 1..MAX_OPEN /\ h.gen \in 1..Gens
  BY DEF Handles
<1>6. /\ NoFile.kind = "none" /\ Silence.kind = "none"
      /\ request # Silence => request.kind \in {"open", "close", "read"}
      /\ reply # Silence => reply.kind \in {"error", "open", "close", "read"}
  BY DEF FilesTypeOK, NoFile, Silence
<1> QED BY <1>2, <1>3, <1>4, <1>5, <1>6

LEMMA Lookup ==
  ASSUME FilesTypeOK, NEW h \in Handles
  PROVE  /\ lookup(h) \in Names <=> open_files[h.slot] # Empty /\ open_files[h.slot].gen = h.gen
         /\ \A f \in Names : lookup(h) = f <=> open_files[h.slot] = [name |-> f, gen |-> h.gen]
         /\ lookup(h) \in Names \cup {NoName}
<1> DEFINE e == open_files[h.slot]
<1>1. e \in {Empty} \cup [name : Names, gen : 1..Gens]
  BY DEF FilesTypeOK, Handles
<1>2. lookup(h) = IF e # Empty /\ e.gen = h.gen THEN e.name ELSE NoName
  BY DEF lookup
<1> HIDE DEF e
<1>3. e # Empty => e \in [name : Names, gen : 1..Gens] /\ e.name \in Names
  BY <1>1
<1>4. \A f \in Names : [name |-> f, gen |-> h.gen] # Empty
  BY FilesAssumption DEF Empty
<1>5. \A f \in Names : e # Empty /\ e.gen = h.gen /\ e.name = f <=> e = [name |-> f, gen |-> h.gen]
  BY <1>3, <1>4
<1> QED BY <1>2, <1>3, <1>5, FilesAssumption DEF e

\* The bytes of a file, and one piece after another.
LEMMA SomeBytes ==
  ASSUME NEW f \in Names, NEW from \in Nat, NEW n \in Nat
  PROVE  Bytes(f, from, n) \in Seq(Letters) /\ Len(Bytes(f, from, n)) = n
<1>1. Bytes(f, from, n) \in [1..n -> Letters]
  BY DEF Bytes, Letters
<1>2. Bytes(f, from, n) \in Seq(Letters)
  BY <1>1
<1> QED BY <1>1, <1>2

LEMMA Continued ==
  ASSUME NEW f \in Names, NEW from \in Nat, NEW n \in Nat, NEW l \in Nat
  PROVE  Bytes(f, from, n) \o SubSeq(Bytes(f, from + n, l), 1, l) = Bytes(f, from, n + l)
<1> DEFINE a == Bytes(f, from, n)  b == SubSeq(Bytes(f, from + n, l), 1, l)  c == Bytes(f, from, n + l)
<1>1. a \in Seq(Letters) /\ Len(a) = n /\ c \in Seq(Letters) /\ Len(c) = n + l
  BY SomeBytes
<1>2. Bytes(f, from + n, l) \in Seq(Letters) /\ Len(Bytes(f, from + n, l)) = l
  BY SomeBytes
<1>3. b = Bytes(f, from + n, l)
  BY <1>2, SubSeqFull
<1>4. \A i \in 1..n + l : c[i] = <<f, from + i>>
  BY DEF Bytes
<1>5. \A i \in 1..n : a[i] = <<f, from + i>>
  BY DEF Bytes
<1>6. \A i \in 1..l : b[i] = <<f, from + n + i>>
  BY <1>3 DEF Bytes
<1>7. b \in Seq(Letters) /\ Len(b) = l
  BY <1>2, <1>3
<1> HIDE DEF a, b, c
<1>8. /\ a \o b \in Seq(Letters) /\ Len(a \o b) = n + l
      /\ \A i \in 1..n + l : (a \o b)[i] = IF i <= n THEN a[i] ELSE b[i - n]
  BY <1>1, <1>7, ConcatProperties, Zenon
<1>9. \A i \in 1..n + l : (a \o b)[i] = c[i]
  <2> TAKE i \in 1..n + l
  <2>1. CASE i <= n
    <3>1. i \in 1..n
      BY <2>1
    <3> QED BY <2>1, <3>1, <1>4, <1>5, <1>8, Zenon
  <2>2. CASE ~(i <= n)
    <3>1. i - n \in 1..l /\ from + n + (i - n) = from + i
      BY <2>2
    <3>2. b[i - n] = <<f, from + n + (i - n)>>
      BY <3>1, <1>6
    <3> QED BY <2>2, <3>1, <3>2, <1>4, <1>8, Zenon
  <2> QED BY <2>1, <2>2, Zenon
<1>10. a \o b = c
  BY <1>1, <1>8, <1>9, SeqEqual, Zenon
<1> QED BY <1>10 DEF a, b, c

\* Messages are about the call that holds FILES_LOCK.
LEMMA Unanswered ==
  ASSUME FilesInv
  PROVE  /\ files_lock = Nowhere => request = Silence /\ reply = Silence
         /\ \A t \in Accessors : io[t].at = "send" => request = Silence /\ reply = Silence
         /\ \A t \in Accessors : io[t].at \in {"send", "recv"} <=> files_lock = t
         /\ \A t \in Accessors : io[t].op = "user" <=> io[t].at = "user"
<1>1. \A t \in Accessors : io[t].at \in {"send", "recv"} <=> files_lock = t
  BY DEF FilesInv, OneAtATime, InCall
<1>2. request # Silence => \E t \in Accessors : io[t].at = "recv"
  BY DEF FilesInv, Asked, AskedBy
<1>3. reply # Silence => \E t \in Accessors : io[t].at = "recv"
  BY Zenon DEF FilesInv, Answered, AnsweredTo
<1> QED BY <1>1, <1>2, <1>3, FilesAssumption DEF FilesInv, OwnCalls, OwnCall

\* What does not depend on the descriptors when thread t goes from one call that
\* is not in progress to another.
LEMMA Waits ==
  ASSUME FilesInv, NEW t \in Accessors, NEW c \in IoCall, ~InCall(t), c.at \in {"user", "lock"},
         io' = [io EXCEPT ![t] = c],
         UNCHANGED <<files_lock, page, request, reply, open_files, generation, served>>
  PROVE  /\ OneAtATime' /\ Asked' /\ Answered' /\ BytesRead' /\ io' \in [Accessors -> IoCall]
         /\ io'[t] = c /\ \A u \in Accessors \ {t} : io'[u] = io[u]
<1>1. FilesTypeOK
  BY DEF FilesInv
<1>2. io' \in [Accessors -> IoCall] /\ io'[t] = c /\ \A u \in Accessors \ {t} : io'[u] = io[u]
  BY <1>1, Shapes
<1>3. io[t].at \notin {"send", "recv"} /\ io'[t].at \notin {"send", "recv"}
  BY <1>2 DEF InCall
<1>4. OneAtATime'
  BY <1>2, <1>3 DEF FilesInv, OneAtATime, InCall
<1>5. Asked'
  <2> SUFFICES ASSUME request # Silence PROVE Asked'
    BY DEF Asked
  <2>1. PICK u \in Accessors : AskedBy(u)
    BY DEF FilesInv, Asked
  <2>2. u # t /\ io'[u] = io[u]
    BY <2>1, <1>2, <1>3 DEF AskedBy
  <2>3. AskedBy(u)'
    BY <2>1, <2>2 DEF AskedBy, Reached
  <2> QED BY <2>3 DEF Asked
<1>6. Answered'
  <2> SUFFICES ASSUME reply # Silence PROVE Answered'
    BY DEF Answered
  <2>1. PICK u \in Accessors : AnsweredTo(u)
    BY DEF FilesInv, Answered
  <2>2. u # t /\ io'[u] = io[u]
    BY <2>1, <1>2, <1>3 DEF AnsweredTo
  <2>3. AnsweredTo(u)'
    BY <2>1, <2>2 DEF AnsweredTo, Reached, Closes
  <2> QED BY <2>3 DEF Answered
<1>7. BytesRead'
  BY <1>2, <1>3 DEF FilesInv, ReadsItsFile, BytesRead, InCall
<1> QED BY <1>2, <1>4, <1>5, <1>6, <1>7

\* The same thread is inside no call before, and closes nothing.
LEMMA OutsideCalls ==
  ASSUME FilesInv, NEW t \in Accessors, io[t].op = "user"
  PROVE  ~InCall(t) /\ io[t].at = "user" /\ files_lock # t /\ ~Closes(t)
  BY Unanswered DEF InCall, Closes

\* open and read: a call waits, and the descriptors stay.
LEMMA CallBegins ==
  ASSUME FilesInv, NEW t \in Accessors, NEW c \in IoCall, c.at = "lock", Begins(t, c), UNCHANGED file_fds,
         c.got = <<>>, \/ c.op = "open" /\ c.name \in Names
                       \/ c.op = "read" /\ c.fd \in 1..FILE_FDS /\ IsFile(c.fd)
  PROVE  FilesInv'
<1>1. /\ io[t].op = "user" /\ io' = [io EXCEPT ![t] = c] /\ files_lock' = files_lock /\ page' = page
      /\ request' = request /\ reply' = reply /\ open_files' = open_files /\ generation' = generation
      /\ served' = served /\ file_fds' = file_fds
  BY DEF Begins, Does
<1>2. ~InCall(t) /\ io[t].at = "user" /\ files_lock # t /\ ~Closes(t)
  BY <1>1, OutsideCalls
<1>3. /\ OneAtATime' /\ Asked' /\ Answered' /\ BytesRead' /\ io' \in [Accessors -> IoCall]
      /\ io'[t] = c /\ \A u \in Accessors \ {t} : io'[u] = io[u]
  BY <1>1, <1>2, Waits, Zenon
<1>4. FilesTypeOK'
  BY <1>1, <1>3 DEF FilesInv, FilesTypeOK, IoCall
<1>5. OwnCalls'
  <2> SUFFICES ASSUME NEW u \in Accessors PROVE OwnCall(u)'
    BY DEF OwnCalls
  <2>1. CASE u = t
    BY <1>1, <1>3, <2>1, EmptySeq DEF IoCall, OwnCall, OpensOwn, ReadsOwn, ClosesOwn, Closes, IsFile, InCall
  <2>2. CASE u # t
    <3>1. OwnCall(u)
      BY DEF FilesInv, OwnCalls
    <3>2. io'[u] = io[u]
      BY <1>3, <2>2
    <3> QED BY <3>1, <3>2, <1>1 DEF OwnCall, OpensOwn, ReadsOwn, ClosesOwn, Closes, IsFile, InCall, lookup
  <2> QED BY <2>1, <2>2
<1>6. \A u \in Accessors : (Closes(u)' <=> Closes(u)) /\ (Closes(u) => io'[u] = io[u])
  BY <1>2, <1>3 DEF Closes
<1>7. OneHolder'
  BY <1>1, <1>6 DEF FilesInv, OneHolder, IsFile
<1>8. HandlesOpen' /\ NoneLeaks'
  <2>1. HandlesOpen'
    BY <1>1 DEF FilesInv, ReadsItsFile, HandlesOpen, IsFile, lookup
  <2>2. \A s : Held(s) => Held(s)'
    BY <1>1, <1>6 DEF Held, IsFile
  <2> QED BY <1>1, <2>1, <2>2 DEF FilesInv, ReadsItsFile, NoneLeaks
<1> QED BY <1>3, <1>4, <1>5, <1>7, <1>8 DEF FilesInv, ReadsItsFile

\* close: the descriptor goes, and its handle is the closing call's.
LEMMA CloseBegins ==
  ASSUME FilesInv, NEW t \in Accessors, NEW d \in 1..FILE_FDS, close_file(t, d)
  PROVE  FilesInv'
<1> DEFINE h == file_fds[d].handle
           c == [Idle EXCEPT !.op = "close", !.at = "lock", !.handle = h]
<1>1. /\ IsFile(d) /\ ~InUse(d) /\ file_fds' = [file_fds EXCEPT ![d] = NoFile]
      /\ io[t].op = "user" /\ io' = [io EXCEPT ![t] = c] /\ files_lock' = files_lock /\ page' = page
      /\ request' = request /\ reply' = reply /\ open_files' = open_files /\ generation' = generation
      /\ served' = served
  BY DEF close_file, Begins, Does, IsFile
<1>2. ~InCall(t) /\ io[t].at = "user" /\ files_lock # t /\ ~Closes(t)
  BY <1>1, OutsideCalls
<1>3. /\ FilesTypeOK /\ h \in Handles /\ c \in IoCall /\ c.op = "close" /\ c.at = "lock" /\ c.handle = h
      /\ Len(c.got) <= c.want /\ file_fds[d].name \in Names
  <2>1. FilesTypeOK /\ h \in Handles /\ Idle \in IoCall /\ file_fds[d] \in FdFile
    BY <1>1, Shapes DEF FilesInv
  <2>2. file_fds[d].name \in Names
    BY <2>1 DEF FdFile
  <2>3. c.got = <<>> /\ c.want = 0 /\ Len(<<>>) = 0
    BY EmptySeq DEF Idle
  <2> HIDE DEF h
  <2>4. c \in IoCall /\ c.op = "close" /\ c.at = "lock" /\ c.handle = h
    BY <2>1, Zenon DEF IoCall, AnyHandle, Idle
  <2> QED BY <2>1, <2>2, <2>3, <2>4 DEF h
<1>4. lookup(h) \in Names
  BY <1>1, <1>3 DEF FilesInv, ReadsItsFile, HandlesOpen
<1> HIDE DEF c
<1>5. /\ OneAtATime' /\ Asked' /\ Answered' /\ BytesRead' /\ io' \in [Accessors -> IoCall]
      /\ io'[t] = c /\ \A u \in Accessors \ {t} : io'[u] = io[u]
  BY <1>1, <1>2, <1>3, Waits, Zenon
<1>6. /\ file_fds' \in [1..FILE_FDS -> {NoFile} \cup FdFile] /\ ~IsFile(d)'
      /\ \A e \in 1..FILE_FDS \ {d} : file_fds'[e] = file_fds[e] /\ (IsFile(e)' <=> IsFile(e))
      /\ \A e \in 1..FILE_FDS : IsFile(e)' => e # d /\ IsFile(e) /\ file_fds'[e] = file_fds[e]
  BY <1>1, <1>3, Zenon DEF FilesTypeOK, FdFile, IsFile, NoFile
<1>7. FilesTypeOK'
  BY <1>1, <1>5, <1>6, Zenon DEF FilesInv, FilesTypeOK, IoCall, FdFile
<1>8. OwnCalls'
  <2> SUFFICES ASSUME NEW u \in Accessors PROVE OwnCall(u)'
    BY DEF OwnCalls
  <2>1. CASE u = t
    BY <1>1, <1>3, <1>4, <1>5, <2>1 DEF OwnCall, OpensOwn, ReadsOwn, ClosesOwn, Closes, lookup
  <2>2. CASE u # t
    <3>1. OwnCall(u)
      BY DEF FilesInv, OwnCalls
    <3>2. io'[u] = io[u] /\ (io[u].op = "read" => io[u].fd # d)
      BY <1>1, <1>5, <2>2 DEF InUse
    <3>3. ReadsOwn(u)'
      BY <3>1, <3>2, <1>6 DEF OwnCall, ReadsOwn, InCall
    <3> QED BY <3>1, <3>2, <3>3, <1>1 DEF OwnCall, OpensOwn, ClosesOwn, Closes, lookup
  <2> QED BY <2>1, <2>2
<1>9. \A u \in Accessors : /\ Closes(u)' <=> Closes(u) \/ u = t
                           /\ io'[u].handle = IF u = t THEN h ELSE io[u].handle
  BY <1>2, <1>3, <1>5 DEF Closes
<1>10. OneHolder'
  BY <1>1, <1>2, <1>6, <1>9 DEF FilesInv, OneHolder
<1>11. HandlesOpen' /\ NoneLeaks'
  <2>1. HandlesOpen'
    BY <1>1, <1>6 DEF FilesInv, ReadsItsFile, HandlesOpen, lookup
  <2>2. ASSUME NEW s, Held(s) PROVE Held(s)'
    <3>1. CASE \E e \in 1..FILE_FDS : IsFile(e) /\ file_fds[e].handle.slot = s
      BY <3>1, <1>6, <1>9 DEF Held
    <3>2. CASE \E u \in Accessors : Closes(u) /\ io[u].handle.slot = s
      BY <3>2, <1>2, <1>9 DEF Held
    <3>3. CASE reply.kind = "open" /\ reply.handle.slot = s
      BY <3>3, <1>1 DEF Held
    <3> QED BY <2>2, <3>1, <3>2, <3>3 DEF Held
  <2> QED BY <1>1, <2>1, <2>2 DEF FilesInv, ReadsItsFile, NoneLeaks
<1> QED BY <1>5, <1>7, <1>8, <1>10, <1>11 DEF FilesInv, ReadsItsFile

\* lseek moves a cursor, and nothing else.
LEMMA CursorMoves ==
  ASSUME FilesInv, NEW t \in Accessors, NEW d \in 1..FILE_FDS, NEW o \in Nat, seek(t, d, o)
  PROVE  FilesInv'
<1>1. /\ IsFile(d) /\ file_fds' = [file_fds EXCEPT ![d].offset = o] /\ io' = io /\ files_lock' = files_lock
      /\ page' = page /\ request' = request /\ reply' = reply /\ open_files' = open_files
      /\ generation' = generation /\ served' = served
  BY DEF seek, IsFile
<1>2. FilesTypeOK /\ file_fds[d] \in FdFile
  BY <1>1, Shapes DEF FilesInv
<1>3. /\ file_fds' \in [1..FILE_FDS -> {NoFile} \cup FdFile]
      /\ \A e \in 1..FILE_FDS : /\ IsFile(e)' <=> IsFile(e)
                                /\ file_fds'[e].handle = file_fds[e].handle /\ file_fds'[e].name = file_fds[e].name
  BY <1>1, <1>2, Zenon DEF FilesTypeOK, FdFile, IsFile
<1>4. FilesTypeOK'
  BY <1>1, <1>3, Zenon DEF FilesInv, FilesTypeOK, FdFile
<1>5. OneAtATime' /\ Asked' /\ Answered' /\ BytesRead'
  BY <1>1 DEF FilesInv, ReadsItsFile, OneAtATime, Asked, Answered, AskedBy, AnsweredTo, BytesRead, InCall, Reached,
                   Closes
<1>6. OwnCalls'
  <2> SUFFICES ASSUME NEW u \in Accessors PROVE OwnCall(u)'
    BY DEF OwnCalls
  <2>1. OwnCall(u)
    BY DEF FilesInv, OwnCalls
  <2>2. ReadsOwn(u)'
    BY <1>1, <1>3, <2>1 DEF OwnCall, ReadsOwn, InCall
  <2> QED BY <1>1, <2>1, <2>2 DEF OwnCall, OpensOwn, ClosesOwn, Closes, lookup
<1>7. OneHolder'
  BY <1>1, <1>3 DEF FilesInv, OneHolder, Closes
<1>8. HandlesOpen' /\ NoneLeaks'
  <2>1. HandlesOpen'
    BY <1>1, <1>3 DEF FilesInv, ReadsItsFile, HandlesOpen, lookup
  <2>2. \A s : Held(s) => Held(s)'
    BY <1>1, <1>3 DEF Held, Closes
  <2> QED BY <1>1, <2>1, <2>2 DEF FilesInv, ReadsItsFile, NoneLeaks
<1> QED BY <1>4, <1>5, <1>6, <1>7, <1>8 DEF FilesInv, ReadsItsFile

\* acquire: no call is in progress, so the page and the endpoints are nobody's.
LEMMA LockAcquired ==
  ASSUME FilesInv, NEW t \in Accessors, acquire(t)
  PROVE  FilesInv'
<1> DEFINE k == file_fds[io[t].fd]
           c == IF io[t].op = "read"
                THEN [io[t] EXCEPT !.at = "send", !.handle = k.handle, !.start = k.offset, !.name = k.name]
                ELSE [io[t] EXCEPT !.at = "send"]
<1>1. /\ io[t].at = "lock" /\ files_lock = Nowhere /\ files_lock' = t /\ io' = [io EXCEPT ![t] = c]
      /\ page' = (IF io[t].op = "open" THEN io[t].name ELSE page)
      /\ file_fds' = file_fds /\ request' = request /\ reply' = reply /\ open_files' = open_files
      /\ generation' = generation /\ served' = served
  BY DEF acquire, lock_files, Does
<1>2. /\ request = Silence /\ reply = Silence /\ ~InCall(t) /\ \A u \in Accessors : ~InCall(u)
      /\ io[t].op # "user" /\ reply.kind = "none"
  BY <1>1, Unanswered, Shapes, FilesAssumption DEF InCall, FilesInv
<1>3. /\ FilesTypeOK /\ io[t] \in IoCall /\ io[t].got \in Seq(Letters)
      /\ Len(io[t].got) <= io[t].want /\ OpensOwn(t) /\ ReadsOwn(t) /\ ClosesOwn(t)
  <2>1. FilesTypeOK /\ io[t] \in IoCall /\ OwnCall(t)
    BY Shapes DEF FilesInv, OwnCalls
  <2> QED BY <2>1 DEF IoCall, OwnCall
<1>4. /\ c \in IoCall /\ c.op = io[t].op /\ c.at = "send" /\ c.fd = io[t].fd /\ c.got = io[t].got /\ c.want = io[t].want
      /\ (io[t].op = "read" => c.handle = k.handle /\ c.start = k.offset /\ c.name = k.name)
      /\ (io[t].op # "read" => c.handle = io[t].handle /\ c.name = io[t].name)
  <2>1. CASE io[t].op = "read"
    <3>1. k \in FdFile
      BY <1>3, <2>1, Shapes DEF ReadsOwn
    <3>2. k.handle \in AnyHandle /\ k.offset \in Nat /\ k.name \in Names \cup {NoName}
      BY <3>1 DEF FdFile, AnyHandle
    <3> HIDE DEF k
    <3> QED BY <2>1, <1>3, <3>2, Zenon DEF IoCall
  <2>2. CASE io[t].op # "read"
    BY <2>2, <1>3 DEF IoCall
  <2> QED BY <2>1, <2>2
<1> HIDE DEF c
<1>5. /\ io' \in [Accessors -> IoCall] /\ io'[t] = c /\ \A u \in Accessors \ {t} : io'[u] = io[u]
  BY <1>1, <1>3, <1>4, Shapes
<1>6. FilesTypeOK'
  <2>1. page' \in Seq(Letters) \cup Names
    BY <1>1, <1>3 DEF FilesTypeOK, OpensOwn
  <2> QED BY <1>1, <1>3, <1>5, <2>1 DEF FilesTypeOK, IoCall
<1>7. OneAtATime'
  BY <1>1, <1>2, <1>4, <1>5 DEF OneAtATime, InCall
<1>8. Asked' /\ Answered'
  BY <1>1, <1>2 DEF Asked, Answered
<1>9. BytesRead'
  <2> SUFFICES ASSUME NEW u \in Accessors, io'[u].op = "read", InCall(u)'
               PROVE  io'[u].got = Bytes(io'[u].name, io'[u].start, Len(io'[u].got))
    BY DEF BytesRead
  <2>1. u = t
    BY <1>2, <1>5 DEF InCall
  <2>2. c.got = <<>>
    BY <2>1, <1>2, <1>3, <1>4, <1>5 DEF ReadsOwn
  <2>3. <<>> = Bytes(c.name, c.start, 0)
    BY DEF Bytes
  <2> QED BY <2>1, <2>2, <2>3, <1>5, EmptySeq
<1>10. OwnCalls'
  <2> SUFFICES ASSUME NEW u \in Accessors PROVE OwnCall(u)'
    BY DEF OwnCalls
  <2>1. CASE u = t
    <3>1. OpensOwn(t)' /\ (c.op = "user" <=> c.at = "user") /\ Len(c.got) <= c.want
      BY <1>1, <1>2, <1>3, <1>4, <1>5 DEF OpensOwn
    <3>2. ReadsOwn(t)'
      BY <1>1, <1>3, <1>4, <1>5 DEF ReadsOwn, IsFile, InCall
    <3>3. ClosesOwn(t)'
      BY <1>1, <1>2, <1>3, <1>4, <1>5 DEF ClosesOwn, Closes, lookup
    <3> QED BY <2>1, <1>5, <3>1, <3>2, <3>3 DEF OwnCall
  <2>2. CASE u # t
    <3>1. OwnCall(u) /\ ~InCall(u)
      BY <1>2 DEF FilesInv, OwnCalls
    <3>2. io'[u] = io[u]
      BY <1>5, <2>2
    <3> QED BY <3>1, <3>2, <1>1, <1>2 DEF OwnCall, OpensOwn, ReadsOwn, ClosesOwn, Closes, IsFile, InCall, lookup
  <2> QED BY <2>1, <2>2
<1>11. \A u \in Accessors : (Closes(u)' <=> Closes(u)) /\ (Closes(u) => io'[u].handle = io[u].handle)
  BY <1>4, <1>5 DEF Closes
<1>12. OneHolder'
  BY <1>1, <1>11 DEF FilesInv, OneHolder, IsFile
<1>13. HandlesOpen' /\ NoneLeaks'
  <2>1. HandlesOpen'
    BY <1>1 DEF FilesInv, ReadsItsFile, HandlesOpen, IsFile, lookup
  <2>2. \A s : Held(s) => Held(s)'
    BY <1>1, <1>11 DEF Held, IsFile
  <2> QED BY <1>1, <2>1, <2>2 DEF FilesInv, ReadsItsFile, NoneLeaks
<1> QED BY <1>6, <1>7, <1>8, <1>9, <1>10, <1>12, <1>13 DEF FilesInv, ReadsItsFile

\* send: the request is the caller's.
LEMMA RequestSent ==
  ASSUME FilesInv, NEW t \in Accessors, send(t)
  PROVE  FilesInv'
<1> DEFINE n == Len(io[t].got)
           m == [kind |-> io[t].op, handle |-> io[t].handle, offset |-> io[t].start + n,
                 len |-> LowerOf(io[t].want - n, PAGE)]
           c == [io[t] EXCEPT !.at = "recv"]
<1>1. /\ io[t].at = "send" /\ request = Silence /\ request' = m /\ io' = [io EXCEPT ![t] = c]
      /\ files_lock' = files_lock /\ page' = page /\ file_fds' = file_fds /\ reply' = reply
      /\ open_files' = open_files /\ generation' = generation /\ served' = served
  BY DEF send, Does
<1>2. reply = Silence /\ files_lock = t /\ io[t].op # "user" /\ InCall(t)
  BY <1>1, Unanswered DEF InCall
<1>3. /\ FilesTypeOK /\ io[t] \in IoCall /\ OwnCall(t) /\ io[t].want \in Nat /\ n \in Nat /\ n <= io[t].want
      /\ c \in IoCall /\ c = [io[t] EXCEPT !.at = "recv"]
      /\ c.at = "recv" /\ c.op = io[t].op /\ c.handle = io[t].handle /\ c.name = io[t].name /\ c.fd = io[t].fd
      /\ c.want = io[t].want /\ c.start = io[t].start /\ c.got = io[t].got
  <2>1. FilesTypeOK /\ io[t] \in IoCall /\ OwnCall(t)
    BY Shapes DEF FilesInv, OwnCalls
  <2> QED BY <2>1, LenProperties DEF IoCall, OwnCall
<1>4. /\ m.len \in Nat /\ m.len <= io[t].want - n /\ m.offset \in Nat /\ m.handle \in AnyHandle
      /\ m.kind \in {"open", "close", "read"}
  <2>1. m.len \in Nat /\ m.len <= io[t].want - n
    BY <1>3, FilesAssumption, SMTT(30) DEF LowerOf
  <2>2. io[t].start \in Nat /\ io[t].handle \in AnyHandle /\ io[t].op \in {"open", "close", "read"}
    BY <1>2, <1>3 DEF IoCall
  <2> QED BY <2>1, <2>2, <1>3
<1> HIDE DEF c
<1>5. /\ io' \in [Accessors -> IoCall] /\ io'[t] = c /\ \A u \in Accessors \ {t} : io'[u] = io[u]
  BY <1>1, <1>3, Shapes
<1>6. FilesTypeOK'
  BY <1>1, <1>3, <1>4, <1>5, Zenon DEF FilesTypeOK, IoCall
<1>7. OneAtATime'
  BY <1>1, <1>3, <1>5 DEF FilesInv, OneAtATime, InCall
<1>8. Asked' /\ Answered'
  <2>1. AskedBy(t)'
    <3>1. m.kind = "open" => page = io[t].name
      BY <1>1, <1>3 DEF OwnCall, OpensOwn
    <3> QED BY <3>1, <1>1, <1>2, <1>3, <1>4, <1>5 DEF AskedBy, Reached
  <2> QED BY <1>1, <1>2, <2>1 DEF Asked, Answered
<1>9. BytesRead'
  <2> SUFFICES ASSUME NEW u \in Accessors, io'[u].op = "read", InCall(u)'
               PROVE  io'[u].got = Bytes(io'[u].name, io'[u].start, Len(io'[u].got))
    BY DEF BytesRead
  <2>1. /\ io'[u].op = io[u].op /\ InCall(u) /\ io'[u].got = io[u].got /\ io'[u].name = io[u].name
        /\ io'[u].start = io[u].start
    BY <1>2, <1>3, <1>5, ZenonT(40) DEF InCall
  <2> QED BY <2>1 DEF FilesInv, ReadsItsFile, BytesRead
<1>10. OwnCalls'
  <2> SUFFICES ASSUME NEW u \in Accessors PROVE OwnCall(u)'
    BY DEF OwnCalls
  <2>1. CASE u = t
    BY <1>1, <1>2, <1>3, <1>5, <2>1 DEF OwnCall, OpensOwn, ReadsOwn, ClosesOwn, Closes, IsFile, InCall, lookup
  <2>2. CASE u # t
    <3>1. OwnCall(u) /\ io'[u] = io[u]
      BY <1>5, <2>2 DEF FilesInv, OwnCalls
    <3> QED BY <3>1, <1>1 DEF OwnCall, OpensOwn, ReadsOwn, ClosesOwn, Closes, IsFile, InCall, lookup
  <2> QED BY <2>1, <2>2
<1>11. \A u \in Accessors : (Closes(u)' <=> Closes(u)) /\ (Closes(u) => io'[u].handle = io[u].handle)
  BY <1>3, <1>5, ZenonT(30) DEF Closes
<1>12. OneHolder'
  BY <1>1, <1>11 DEF FilesInv, OneHolder, IsFile
<1>13. HandlesOpen' /\ NoneLeaks'
  <2>1. HandlesOpen'
    BY <1>1 DEF FilesInv, ReadsItsFile, HandlesOpen, IsFile, lookup
  <2>2. \A s : Held(s) => Held(s)'
    BY <1>1, <1>11 DEF Held, IsFile
  <2> QED BY <1>1, <2>1, <2>2 DEF FilesInv, ReadsItsFile, NoneLeaks
<1> QED BY <1>6, <1>7, <1>8, <1>9, <1>10, <1>12, <1>13 DEF FilesInv, ReadsItsFile

\* What recv may rely on: the reply is to the thread that waits for it.
LEMMA ReplyIsOwn ==
  ASSUME FilesInv, NEW t \in Accessors, io[t].at = "recv", reply # Silence
  PROVE  /\ AnsweredTo(t) /\ files_lock = t /\ request = Silence /\ \A u \in Accessors \ {t} : ~InCall(u)
         /\ io[t].op # "user" /\ reply.kind \in {"error", "open", "close", "read"}
<1>1. PICK u \in Accessors : AnsweredTo(u)
  BY DEF FilesInv, Answered
<1>2. u = t /\ files_lock = t
  BY <1>1, Unanswered DEF AnsweredTo
<1> QED BY <1>1, <1>2, Unanswered, Shapes DEF AnsweredTo, InCall, FilesInv

\* A call ends: what it has of descriptors and slots is settled by its reply.
LEMMA CallEnds ==
  ASSUME FilesInv, NEW t \in Accessors, io[t].at = "recv", reply # Silence, reply' = Silence, Finish(t),
         UNCHANGED <<page, request, open_files, generation, served>>
  PROVE  /\ OneAtATime' /\ Asked' /\ Answered' /\ BytesRead' /\ io' \in [Accessors -> IoCall] /\ io'[t] = Idle
         /\ \A u \in Accessors \ {t} : io'[u] = io[u] /\ (OwnCall(u) /\ (ReadsOwn(u) => ReadsOwn(u)') => OwnCall(u)')
         /\ OwnCall(t)' /\ files_lock' = Nowhere /\ \A u \in Accessors : Closes(u)' <=> u # t /\ Closes(u)
<1>1. io' = [io EXCEPT ![t] = Idle] /\ files_lock' = Nowhere
  BY DEF Finish, Does
<1>2. /\ files_lock = t /\ request = Silence /\ \A u \in Accessors \ {t} : ~InCall(u)
  BY ReplyIsOwn
<1>3. io' \in [Accessors -> IoCall] /\ io'[t] = Idle /\ \A u \in Accessors \ {t} : io'[u] = io[u]
  BY <1>1, Shapes DEF FilesInv
<1>4. Idle.op = "user" /\ Idle.at = "user" /\ Idle.got = <<>> /\ Idle.want = 0 /\ Len(<<>>) = 0
  BY EmptySeq DEF Idle
<1>5. OneAtATime' /\ Asked' /\ Answered' /\ BytesRead'
  <2>1. \A u \in Accessors : ~InCall(u)'
    BY <1>2, <1>3, <1>4 DEF InCall
  <2> QED BY <1>1, <1>2, <2>1, FilesAssumption DEF OneAtATime, Asked, Answered, BytesRead
<1>6. OwnCall(t)'
  BY <1>3, <1>4 DEF OwnCall, OpensOwn, ReadsOwn, ClosesOwn, Closes
<1>7. ASSUME NEW u \in Accessors \ {t}, OwnCall(u), ReadsOwn(u) => ReadsOwn(u)' PROVE OwnCall(u)'
  BY <1>2, <1>3, <1>7 DEF OwnCall, OpensOwn, ClosesOwn, Closes, lookup
<1>8. \A u \in Accessors : Closes(u)' <=> u # t /\ Closes(u)
  BY <1>3, <1>4 DEF Closes
<1> QED BY <1>1, <1>3, <1>5, <1>6, <1>7, <1>8

\* A call that was refused, closed its handle or has read its bytes: the
\* descriptors are the ones there were.
LEMMA CallEndsAlone ==
  ASSUME FilesInv, NEW t \in Accessors, io[t].at = "recv", reply # Silence, reply' = Silence, Finish(t),
         UNCHANGED <<page, request, open_files, generation, served>>, reply.kind # "open",
         file_fds' \in [1..FILE_FDS -> {NoFile} \cup FdFile],
         \A d \in 1..FILE_FDS : /\ IsFile(d)' <=> IsFile(d)
                               /\ file_fds'[d].handle = file_fds[d].handle /\ file_fds'[d].name = file_fds[d].name
  PROVE  FilesInv'
<1>1. AnsweredTo(t)
  BY ReplyIsOwn
<1>2. /\ OneAtATime' /\ Asked' /\ Answered' /\ BytesRead' /\ io' \in [Accessors -> IoCall] /\ io'[t] = Idle
      /\ \A u \in Accessors \ {t} : io'[u] = io[u] /\ (OwnCall(u) /\ (ReadsOwn(u) => ReadsOwn(u)') => OwnCall(u)')
      /\ OwnCall(t)' /\ files_lock' = Nowhere /\ \A u \in Accessors : Closes(u)' <=> u # t /\ Closes(u)
  BY CallEnds
<1>3. FilesTypeOK'
  BY <1>2, Zenon DEF FilesInv, FilesTypeOK, IoCall, FdFile
<1>4. OwnCalls'
  <2> SUFFICES ASSUME NEW u \in Accessors \ {t} PROVE OwnCall(u)'
    BY <1>2 DEF OwnCalls
  <2>1. OwnCall(u) /\ io'[u] = io[u]
    BY <1>2 DEF FilesInv, OwnCalls
  <2>2. ReadsOwn(u) => ReadsOwn(u)'
    BY <2>1 DEF ReadsOwn, InCall
  <2> QED BY <1>2, <2>1, <2>2
<1>5. reply'.kind = "none"
  BY DEF Silence
<1>6. OneHolder'
  BY <1>2, <1>5 DEF FilesInv, OneHolder
<1>7. HandlesOpen' /\ NoneLeaks'
  <2>1. HandlesOpen'
    BY DEF FilesInv, ReadsItsFile, HandlesOpen, lookup
  <2>2. ASSUME NEW s \in 1..MAX_OPEN, open_files[s] # Empty PROVE Held(s)'
    <3>1. Held(s)
      BY <2>2 DEF FilesInv, ReadsItsFile, NoneLeaks
    <3>2. ~(Closes(t) /\ io[t].handle.slot = s)
      BY <1>1, <2>2 DEF AnsweredTo
    <3> QED BY <1>2, <3>1, <3>2 DEF Held
  <2> QED BY <2>1, <2>2 DEF NoneLeaks
<1> QED BY <1>2, <1>3, <1>4, <1>6, <1>7 DEF FilesInv, ReadsItsFile

\* open has its reply and a descriptor.
LEMMA Opened ==
  ASSUME FilesInv, NEW t \in Accessors, io[t].at = "recv", reply # Silence, reply' = Silence, Finish(t),
         UNCHANGED <<page, request, open_files, generation, served>>, reply.kind = "open",
         NEW d \in FreeFds,
         file_fds' = [file_fds EXCEPT ![d] = [kind |-> "file", name |-> io[t].name, handle |-> reply.handle,
                                              offset |-> 0]]
  PROVE  FilesInv'
<1> DEFINE k == [kind |-> "file", name |-> io[t].name, handle |-> reply.handle, offset |-> 0]
<1>1. AnsweredTo(t) /\ io[t].op = "open" /\ reply.handle \in Handles
      /\ open_files[reply.handle.slot] = [name |-> io[t].name, gen |-> reply.handle.gen]
  BY ReplyIsOwn DEF AnsweredTo
<1>2. /\ OneAtATime' /\ Asked' /\ Answered' /\ BytesRead' /\ io' \in [Accessors -> IoCall] /\ io'[t] = Idle
      /\ \A u \in Accessors \ {t} : io'[u] = io[u] /\ (OwnCall(u) /\ (ReadsOwn(u) => ReadsOwn(u)') => OwnCall(u)')
      /\ OwnCall(t)' /\ files_lock' = Nowhere /\ \A u \in Accessors : Closes(u)' <=> u # t /\ Closes(u)
  BY CallEnds
<1>3. FilesTypeOK /\ OpensOwn(t) /\ io[t].name \in Names /\ d \in 1..FILE_FDS /\ ~IsFile(d) /\ ~Closes(t)
  BY <1>1, Shapes DEF FilesInv, OwnCalls, OwnCall, OpensOwn, FreeFds, IsFile, Closes
<1>4. k \in FdFile
  BY <1>1, <1>3 DEF FdFile
<1> HIDE DEF FdFile
<1>5. /\ file_fds' \in [1..FILE_FDS -> {NoFile} \cup FdFile] /\ file_fds'[d] = k /\ k.kind = "file"
      /\ \A e \in 1..FILE_FDS \ {d} : file_fds'[e] = file_fds[e] /\ (IsFile(e)' <=> IsFile(e))
      /\ IsFile(d)' /\ k.handle = reply.handle /\ k.name = io[t].name
  <2>1. file_fds \in [1..FILE_FDS -> {NoFile} \cup FdFile]
    BY <1>3 DEF FilesTypeOK, FdFile
  <2>2. /\ file_fds' \in [1..FILE_FDS -> {NoFile} \cup FdFile] /\ file_fds'[d] = k
        /\ \A e \in 1..FILE_FDS \ {d} : file_fds'[e] = file_fds[e]
    BY <2>1, <1>3, <1>4
  <2> QED BY <2>2 DEF IsFile
<1> HIDE DEF k
<1>6. FilesTypeOK'
  BY <1>2, <1>3, <1>5, Zenon DEF FilesTypeOK, IoCall, FdFile
<1>7. OwnCalls'
  <2> SUFFICES ASSUME NEW u \in Accessors \ {t} PROVE OwnCall(u)'
    BY <1>2 DEF OwnCalls
  <2>1. OwnCall(u) /\ io'[u] = io[u]
    BY <1>2 DEF FilesInv, OwnCalls
  <2>2. ReadsOwn(u) => ReadsOwn(u)'
    BY <2>1, <1>3, <1>5 DEF ReadsOwn, InCall
  <2> QED BY <1>2, <2>1, <2>2
<1>8. reply'.kind = "none"
  BY DEF Silence
<1>9. OneHolder'
  BY <1>2, <1>3, <1>5, <1>8 DEF FilesInv, OneHolder
<1>10. HandlesOpen'
  <2>1. lookup(reply.handle) = io[t].name
    BY <1>1, <1>3, Lookup
  <2> QED BY <2>1, <1>5 DEF FilesInv, ReadsItsFile, HandlesOpen, lookup
<1>11. NoneLeaks'
  <2> SUFFICES ASSUME NEW s \in 1..MAX_OPEN, open_files[s] # Empty PROVE Held(s)'
    BY DEF NoneLeaks
  <2>1. Held(s)
    BY DEF FilesInv, ReadsItsFile, NoneLeaks
  <2> QED BY <2>1, <1>2, <1>3, <1>5 DEF Held
<1> QED BY <1>2, <1>6, <1>7, <1>9, <1>10, <1>11 DEF FilesInv, ReadsItsFile

\* open has its reply and no descriptor: the same hold of the lock closes the handle.
LEMMA OpenedInVain ==
  ASSUME FilesInv, NEW t \in Accessors, io[t].at = "recv", reply # Silence, reply' = Silence,
         Does(t, [Idle EXCEPT !.op = "close", !.at = "send", !.handle = reply.handle]),
         UNCHANGED <<files_lock, page, file_fds, request, open_files, generation, served>>,
         reply.kind = "open", io[t].op = "open"
  PROVE  FilesInv'
<1> DEFINE h == reply.handle
           c == [Idle EXCEPT !.op = "close", !.at = "send", !.handle = h]
<1>1. /\ AnsweredTo(t) /\ h \in Handles /\ open_files[h.slot] = [name |-> io[t].name, gen |-> h.gen]
      /\ files_lock = t /\ request = Silence /\ \A u \in Accessors \ {t} : ~InCall(u)
  BY ReplyIsOwn DEF AnsweredTo
<1>2. FilesTypeOK /\ io[t].name \in Names /\ ~Closes(t) /\ Idle \in IoCall
  BY Shapes DEF FilesInv, OwnCalls, OwnCall, OpensOwn, Closes
<1>3. lookup(h) \in Names
  BY <1>1, <1>2, Lookup
<1> HIDE DEF h
<1>4. c \in IoCall /\ c.op = "close" /\ c.at = "send" /\ c.handle = h /\ Len(c.got) <= c.want
  <2>1. c.got = <<>> /\ c.want = 0 /\ Len(<<>>) = 0
    BY EmptySeq DEF Idle
  <2>2. c \in IoCall /\ c.op = "close" /\ c.at = "send" /\ c.handle = h
    BY <1>1, <1>2, Zenon DEF IoCall, AnyHandle, Idle
  <2> QED BY <2>1, <2>2
<1>5. io' = [io EXCEPT ![t] = c]
  BY DEF Does, h
<1> HIDE DEF c
<1>6. io' \in [Accessors -> IoCall] /\ io'[t] = c /\ \A u \in Accessors \ {t} : io'[u] = io[u]
  BY <1>2, <1>4, <1>5, Shapes
<1>7. FilesTypeOK'
  BY <1>2, <1>6, Zenon DEF FilesTypeOK, IoCall
<1>8. OneAtATime' /\ Asked' /\ Answered'
  BY <1>1, <1>4, <1>6 DEF FilesInv, OneAtATime, InCall, Asked, Answered
<1>9. BytesRead'
  BY <1>1, <1>4, <1>6 DEF BytesRead, InCall
<1>10. OwnCalls'
  <2> SUFFICES ASSUME NEW u \in Accessors PROVE OwnCall(u)'
    BY DEF OwnCalls
  <2>1. CASE u = t
    BY <1>1, <1>3, <1>4, <1>6, <2>1 DEF OwnCall, OpensOwn, ReadsOwn, ClosesOwn, Closes, lookup
  <2>2. CASE u # t
    <3>1. OwnCall(u) /\ io'[u] = io[u]
      BY <1>6, <2>2 DEF FilesInv, OwnCalls
    <3> QED BY <3>1, <1>1, <2>2 DEF OwnCall, OpensOwn, ReadsOwn, ClosesOwn, Closes, IsFile, InCall, lookup
  <2> QED BY <2>1, <2>2
<1>11. \A u \in Accessors : /\ Closes(u)' <=> Closes(u) \/ u = t
                            /\ io'[u].handle = IF u = t THEN h ELSE io[u].handle
  BY <1>4, <1>6 DEF Closes
<1>12. reply'.kind = "none"
  BY DEF Silence
<1>13. OneHolder'
  BY <1>2, <1>11, <1>12 DEF FilesInv, OneHolder, IsFile, h
<1>14. HandlesOpen' /\ NoneLeaks'
  <2>1. HandlesOpen'
    BY DEF FilesInv, ReadsItsFile, HandlesOpen, IsFile, lookup
  <2>2. ASSUME NEW s, Held(s) PROVE Held(s)'
    <3>1. CASE \E e \in 1..FILE_FDS : IsFile(e) /\ file_fds[e].handle.slot = s
      BY <3>1 DEF Held, IsFile
    <3>2. CASE \E u \in Accessors : Closes(u) /\ io[u].handle.slot = s
      BY <3>2, <1>2, <1>11 DEF Held
    <3>3. CASE reply.kind = "open" /\ reply.handle.slot = s
      BY <3>3, <1>11 DEF Held, h
    <3> QED BY <2>2, <3>1, <3>2, <3>3 DEF Held
  <2> QED BY <2>1, <2>2 DEF FilesInv, ReadsItsFile, NoneLeaks
<1> QED BY <1>7, <1>8, <1>9, <1>10, <1>13, <1>14 DEF FilesInv, ReadsItsFile

\* What a read has got with the bytes of a reply are the file's, from where it started.
LEMMA BytesArrive ==
  ASSUME FilesInv, NEW t \in Accessors, io[t].at = "recv", reply # Silence, io[t].op = "read"
  PROVE  LET got == IF reply.kind = "read" THEN io[t].got \o SubSeq(page, 1, reply.len) ELSE io[t].got
         IN /\ got \in Seq(Letters) /\ Len(got) \in Nat /\ Len(got) <= io[t].want
            /\ got = Bytes(io[t].name, io[t].start, Len(got))
<1>1. AnsweredTo(t) /\ files_lock = t
  BY ReplyIsOwn
<1>2. /\ FilesTypeOK /\ io[t] \in IoCall /\ OwnCall(t) /\ InCall(t)
      /\ io[t].got = Bytes(io[t].name, io[t].start, Len(io[t].got))
  BY Shapes DEF FilesInv, OwnCalls, ReadsItsFile, BytesRead, InCall
<1>3. /\ io[t].name \in Names /\ io[t].start \in Nat /\ io[t].got \in Seq(Letters) /\ Len(io[t].got) \in Nat
      /\ Len(io[t].got) <= io[t].want /\ io[t].want \in Nat
  <2>1. file_fds[io[t].fd] \in FdFile /\ io[t].name = file_fds[io[t].fd].name
    BY <1>2, Shapes DEF OwnCall, ReadsOwn
  <2>2. io[t].name \in Names
    BY <2>1 DEF FdFile
  <2> QED BY <1>2, <2>2, LenProperties DEF IoCall, OwnCall
<1>4. CASE reply.kind # "read"
  BY <1>2, <1>3, <1>4
<1>5. CASE reply.kind = "read"
  <2>1. reply.len \in Nat /\ reply.len <= io[t].want - Len(io[t].got)
    BY <1>1, <1>2, <1>5 DEF AnsweredTo, FilesTypeOK
  <2>2. CASE reply.len = 0
    <3>1. SubSeq(page, 1, 0) = <<>>
      BY SubSeqEmpty
    <3>2. io[t].got \o <<>> = io[t].got
      BY <1>3, ConcatEmptySeq
    <3> QED BY <1>2, <1>3, <1>5, <2>2, <3>1, <3>2
  <2>3. CASE reply.len # 0
    <3> DEFINE n == Len(io[t].got)  l == reply.len  f == io[t].name  from == io[t].start
    <3>1. page = Bytes(f, from + n, l)
      BY <1>1, <1>5, <2>3 DEF AnsweredTo, Reached
    <3>2. Bytes(f, from, n) \o SubSeq(Bytes(f, from + n, l), 1, l) = Bytes(f, from, n + l)
      BY <1>3, <2>1, Continued, ZenonT(30)
    <3>3. Bytes(f, from, n + l) \in Seq(Letters) /\ Len(Bytes(f, from, n + l)) = n + l
      <4>1. f \in Names /\ from \in Nat /\ n + l \in Nat
        BY <1>3, <2>1
      <4> HIDE DEF n, l, f, from
      <4> QED BY <4>1, SomeBytes
    <3>4. io[t].got \o SubSeq(page, 1, l) = Bytes(f, from, n + l)
      BY <1>2, <3>1, <3>2, Zenon
    <3>5. n + l \in Nat /\ n + l <= io[t].want
      BY <1>3, <2>1
    <3> QED BY <1>5, <3>3, <3>4, <3>5, Zenon
  <2> QED BY <2>2, <2>3
<1> QED BY <1>4, <1>5

\* read: there is more to ask for, so the lock is kept.
LEMMA ReadGoesOn ==
  ASSUME FilesInv, NEW t \in Accessors, io[t].at = "recv", reply # Silence, reply' = Silence, io[t].op = "read",
         NEW got \in Seq(Letters), Len(got) <= io[t].want, got = Bytes(io[t].name, io[t].start, Len(got)),
         Does(t, [io[t] EXCEPT !.at = "send", !.got = got]),
         UNCHANGED <<files_lock, page, file_fds, request, open_files, generation, served>>,
         reply.kind # "open"
  PROVE  FilesInv'
<1> DEFINE c == [io[t] EXCEPT !.at = "send", !.got = got]
<1>1. files_lock = t /\ request = Silence /\ \A u \in Accessors \ {t} : ~InCall(u)
  BY ReplyIsOwn
<1>2. FilesTypeOK /\ io[t] \in IoCall /\ OwnCall(t) /\ ~Closes(t) /\ InCall(t)
  BY Shapes DEF FilesInv, OwnCalls, Closes, InCall
<1>3. /\ c \in IoCall /\ c.op = "read" /\ c.at = "send" /\ c.got = got /\ c.want = io[t].want /\ c.name = io[t].name
      /\ c.start = io[t].start /\ c.fd = io[t].fd /\ c.handle = io[t].handle
  BY <1>2, Zenon DEF IoCall
<1>4. io' = [io EXCEPT ![t] = c]
  BY DEF Does
<1> HIDE DEF c
<1>5. io' \in [Accessors -> IoCall] /\ io'[t] = c /\ \A u \in Accessors \ {t} : io'[u] = io[u]
  BY <1>2, <1>3, <1>4, Shapes
<1>6. FilesTypeOK'
  BY <1>2, <1>5, Zenon DEF FilesTypeOK, IoCall
<1>7. OneAtATime' /\ Asked' /\ Answered'
  BY <1>1, <1>3, <1>5 DEF FilesInv, OneAtATime, InCall, Asked, Answered
<1>8. BytesRead'
  BY <1>1, <1>3, <1>5 DEF BytesRead, InCall
<1>9. OwnCalls'
  <2> SUFFICES ASSUME NEW u \in Accessors PROVE OwnCall(u)'
    BY DEF OwnCalls
  <2>1. CASE u = t
    BY <1>2, <1>3, <1>5, <2>1 DEF OwnCall, OpensOwn, ReadsOwn, ClosesOwn, Closes, IsFile, InCall
  <2>2. CASE u # t
    <3>1. OwnCall(u) /\ io'[u] = io[u]
      BY <1>5, <2>2 DEF FilesInv, OwnCalls
    <3> QED BY <3>1, <1>1, <2>2 DEF OwnCall, OpensOwn, ReadsOwn, ClosesOwn, Closes, IsFile, InCall, lookup
  <2> QED BY <2>1, <2>2
<1>10. \A u \in Accessors : (Closes(u)' <=> Closes(u)) /\ (Closes(u) => io'[u].handle = io[u].handle)
  BY <1>2, <1>3, <1>5 DEF Closes
<1>11. reply'.kind = "none"
  BY DEF Silence
<1>12. OneHolder'
  BY <1>10, <1>11 DEF FilesInv, OneHolder, IsFile
<1>13. HandlesOpen' /\ NoneLeaks'
  <2>1. HandlesOpen'
    BY DEF FilesInv, ReadsItsFile, HandlesOpen, IsFile, lookup
  <2>2. \A s : Held(s) => Held(s)'
    BY <1>10 DEF Held, IsFile
  <2> QED BY <2>1, <2>2 DEF FilesInv, ReadsItsFile, NoneLeaks
<1> QED BY <1>6, <1>7, <1>8, <1>9, <1>12, <1>13 DEF FilesInv, ReadsItsFile

LEMMA ReplyTaken ==
  ASSUME FilesInv, NEW t \in Accessors, recv(t)
  PROVE  FilesInv'
<1>1. /\ io[t].at = "recv" /\ reply # Silence /\ reply' = Silence
      /\ open_reply(t) \/ read_reply(t) \/ close_reply(t)
      /\ UNCHANGED <<page, request, open_files, generation, served>>
  BY DEF recv
<1>2. FilesTypeOK /\ AnsweredTo(t) /\ reply.kind \in {"error", "open", "close", "read"}
  BY <1>1, ReplyIsOwn DEF FilesInv
<1>3. file_fds \in [1..FILE_FDS -> {NoFile} \cup FdFile]
  BY <1>2 DEF FilesTypeOK, FdFile
<1>4. CASE open_reply(t)
  <2>1. io[t].op = "open"
    BY <1>4 DEF open_reply
  <2>2. CASE reply.kind = "error"
    BY <1>1, <1>3, <1>4, <2>2, CallEndsAlone DEF open_reply, IsFile
  <2>3. CASE reply.kind # "error" /\ FreeFds = {}
    BY <1>1, <1>2, <1>4, <2>1, <2>3, OpenedInVain DEF open_reply, AnsweredTo
  <2>4. CASE reply.kind # "error" /\ FreeFds # {}
    <3> DEFINE d == CHOOSE d \in FreeFds : \A e \in FreeFds : d <= e
    <3>1. d \in FreeFds
      <4>1. \A x \in FreeFds : x \in Nat
        BY FilesAssumption DEF FreeFds
      <4> QED BY <4>1, <2>4, LeastNat
    <3>2. reply.kind = "open"
      BY <1>2, <2>1, <2>4 DEF AnsweredTo
    <3>3. /\ Finish(t)
          /\ file_fds' = [file_fds EXCEPT ![d] = [kind |-> "file", name |-> io[t].name, handle |-> reply.handle,
                                                  offset |-> 0]]
      BY <1>4, <2>4 DEF open_reply
    <3> HIDE DEF d
    <3> QED BY <1>1, <3>1, <3>2, <3>3, Opened, Zenon
  <2> QED BY <2>2, <2>3, <2>4
<1>5. CASE read_reply(t)
  <2> DEFINE got == IF reply.kind = "read" THEN io[t].got \o SubSeq(page, 1, reply.len) ELSE io[t].got
             o == io[t].start + Len(got)
  <2>1. io[t].op = "read"
    BY <1>5 DEF read_reply
  <2>2. /\ got \in Seq(Letters) /\ Len(got) \in Nat /\ Len(got) <= io[t].want
        /\ got = Bytes(io[t].name, io[t].start, Len(got))
    BY <1>1, <2>1, BytesArrive
  <2>3. \/ file_fds' = [file_fds EXCEPT ![io[t].fd].offset = o] /\ Finish(t)
        \/ Does(t, [io[t] EXCEPT !.at = "send", !.got = got]) /\ UNCHANGED <<file_fds, files_lock>>
    BY <1>5, Zenon DEF read_reply
  <2>4. reply.kind # "open"
    BY <1>2, <2>1 DEF AnsweredTo
  <2>5. io[t].fd \in 1..FILE_FDS /\ IsFile(io[t].fd) /\ file_fds[io[t].fd] \in FdFile /\ io[t].start \in Nat
    <3>1. ReadsOwn(t) /\ io[t] \in IoCall
      BY <1>2, Shapes DEF FilesInv, OwnCalls, OwnCall
    <3> QED BY <3>1, <1>2, <2>1, Shapes DEF ReadsOwn, IoCall
  <2>6. o \in Nat
    BY <2>2, <2>5
  <2> HIDE DEF got, o
  <2>7. CASE file_fds' = [file_fds EXCEPT ![io[t].fd].offset = o] /\ Finish(t)
    <3> DEFINE d == io[t].fd
    <3>1. /\ file_fds' \in [1..FILE_FDS -> {NoFile} \cup FdFile]
          /\ \A e \in 1..FILE_FDS : /\ IsFile(e)' <=> IsFile(e)
                                    /\ file_fds'[e].handle = file_fds[e].handle
                                    /\ file_fds'[e].name = file_fds[e].name
      BY <1>3, <2>5, <2>6, <2>7 DEF FdFile, IsFile
    <3> QED BY <1>1, <2>4, <2>7, <3>1, CallEndsAlone
  <2>8. CASE Does(t, [io[t] EXCEPT !.at = "send", !.got = got]) /\ UNCHANGED <<file_fds, files_lock>>
    BY <1>1, <2>1, <2>2, <2>4, <2>8, ReadGoesOn, Zenon
  <2> QED BY <2>3, <2>7, <2>8
<1>6. CASE close_reply(t)
  <2>1. io[t].op = "close" /\ Finish(t) /\ file_fds' = file_fds
    BY <1>6 DEF close_reply
  <2>2. reply.kind # "open"
    BY <1>2, <2>1 DEF AnsweredTo
  <2> QED BY <1>1, <1>3, <2>1, <2>2, CallEndsAlone DEF IsFile
<1> QED BY <1>1, <1>4, <1>5, <1>6

\* What the server may rely on: a request is that of the thread that holds FILES_LOCK.
LEMMA RequestIsOwn ==
  ASSUME FilesInv, NEW t \in Accessors, AskedBy(t), request # Silence, UNCHANGED <<files_lock, file_fds, io>>,
         request' = Silence
  PROVE  /\ OneAtATime' /\ Asked' /\ BytesRead' /\ (AnsweredTo(t)' => Answered')
         /\ FilesTypeOK /\ files_lock = t /\ io[t] \in IoCall /\ OwnCall(t) /\ reply.kind = "none"
         /\ request.kind = io[t].op /\ request.handle = io[t].handle /\ request.len \in Nat
         /\ \A u \in Accessors : /\ Closes(u) => io[u].handle \in Handles /\ lookup(io[u].handle) \in Names
                                 /\ ClosesOwn(u)' => OwnCall(u)'
<1>1. reply = Silence /\ files_lock = t /\ \A u \in Accessors : io[u].at \in {"send", "recv"} <=> u = t
  BY Unanswered DEF AskedBy
<1>2. /\ FilesTypeOK /\ io[t] \in IoCall /\ OwnCall(t) /\ reply.kind = "none"
      /\ request.kind = io[t].op /\ request.handle = io[t].handle
  BY <1>1, Shapes DEF FilesInv, OwnCalls, AskedBy
<1>3. OneAtATime' /\ Asked' /\ BytesRead'
  BY DEF FilesInv, ReadsItsFile, OneAtATime, Asked, BytesRead, InCall
<1>4. AnsweredTo(t)' => Answered'
  BY DEF Answered
<1>5. ASSUME NEW u \in Accessors
      PROVE  /\ Closes(u) => io[u].handle \in Handles /\ lookup(io[u].handle) \in Names
             /\ ClosesOwn(u)' => OwnCall(u)'
  <2>1. OwnCall(u) /\ io'[u] = io[u]
    BY DEF FilesInv, OwnCalls
  <2>2. io[u].at # "send"
    BY <1>1 DEF AskedBy
  <2> QED BY <1>2, <2>1, <2>2 DEF OwnCall, OpensOwn, ReadsOwn, ClosesOwn, Closes, IsFile, InCall
<1>6. request.len \in Nat
  BY <1>2 DEF FilesTypeOK
<1> QED BY <1>1, <1>2, <1>3, <1>4, <1>5, <1>6

\* An answer that opens and closes nothing: the table stays as it was.
LEMMA AnsweredOnly ==
  ASSUME FilesInv, NEW t \in Accessors, AskedBy(t), request # Silence,
         NEW k \in {"error", "read"}, NEW n \in Nat, Reply(k, NoHandle, n),
         UNCHANGED <<files_lock, file_fds, io, open_files, generation>>,
         ~Closes(t), AnsweredTo(t)', page' \in Seq(Letters) \cup Names
  PROVE  FilesInv'
<1>1. /\ request' = Silence /\ reply' = [Silence EXCEPT !.kind = k, !.handle = NoHandle, !.len = n]
      /\ served' = served + 1
  BY DEF Reply
<1>2. /\ OneAtATime' /\ Asked' /\ BytesRead' /\ Answered' /\ FilesTypeOK /\ reply.kind = "none"
      /\ \A u \in Accessors : /\ Closes(u) => io[u].handle \in Handles /\ lookup(io[u].handle) \in Names
                              /\ ClosesOwn(u)' => OwnCall(u)'
  BY <1>1, RequestIsOwn
<1>3. /\ reply' \in [kind : {"error", "open", "close", "read"}, handle : AnyHandle, offset : {0}, len : Nat]
      /\ reply'.kind = k
  BY <1>1, Zenon DEF Silence, AnyHandle
<1>4. FilesTypeOK'
  <2>1. FilesTypeOK
    BY <1>2
  <2>2. served' \in Nat
    BY <2>1, <1>1, SMTT(30) DEF FilesTypeOK
  <2>3. /\ files_lock' = files_lock /\ file_fds' = file_fds /\ io' = io /\ open_files' = open_files
        /\ generation' = generation /\ request' = Silence
    BY <1>1
  <2> QED BY <2>1, <2>2, <2>3, <1>3, Zenon DEF FilesTypeOK
<1>5. OwnCalls'
  <2>1. \A u \in Accessors : ClosesOwn(u)'
    BY <1>2 DEF ClosesOwn, Closes, lookup
  <2> QED BY <1>2, <2>1 DEF OwnCalls
<1>6. OneHolder'
  BY <1>3 DEF FilesInv, OneHolder, IsFile, Closes
<1>7. HandlesOpen' /\ NoneLeaks'
  <2>1. HandlesOpen'
    BY DEF FilesInv, ReadsItsFile, HandlesOpen, IsFile, lookup
  <2>2. \A s : Held(s) => Held(s)'
    BY <1>2 DEF Held, IsFile, Closes
  <2> QED BY <2>1, <2>2 DEF FilesInv, ReadsItsFile, NoneLeaks
<1> QED BY <1>2, <1>4, <1>5, <1>6, <1>7 DEF FilesInv, ReadsItsFile

\* read: the bytes are the file's, from where the request said.
LEMMA ReadServed ==
  ASSUME FilesInv, NEW t \in Accessors, AskedBy(t), request # Silence, serve_read,
         UNCHANGED <<files_lock, file_fds, io>>
  PROVE  FilesInv'
<1> DEFINE f == lookup(request.handle)
           off == LowerOf(request.offset, SizeOf[f])
           len == LowerOf(LowerOf(request.len, SizeOf[f] - off), PAGE)
<1>1. /\ request.kind = "read" /\ open_files' = open_files /\ generation' = generation
      /\ f \in Names => page' = Bytes(f, off, len) /\ Reply("read", NoHandle, len)
      /\ f \notin Names => Refuse
  BY DEF serve_read
<1>2. request' = Silence
  BY <1>1 DEF Refuse, Reply
<1>3. /\ FilesTypeOK /\ io[t] \in IoCall /\ OwnCall(t) /\ request.kind = io[t].op /\ request.handle = io[t].handle
      /\ request.len \in Nat /\ io[t].at = "recv" /\ request.offset = Reached(t)
      /\ request.len <= io[t].want - Len(io[t].got)
  BY <1>2, RequestIsOwn DEF AskedBy
<1>4. f \in Names /\ f = io[t].name /\ ~Closes(t)
  <2> DEFINE d == io[t].fd
  <2>1. d \in 1..FILE_FDS /\ IsFile(d) /\ io[t].handle = file_fds[d].handle /\ io[t].name = file_fds[d].name
    BY <1>1, <1>3 DEF OwnCall, ReadsOwn, InCall
  <2>2. file_fds[d].name \in Names
    BY <1>3, <2>1, Shapes DEF FdFile
  <2>3. lookup(file_fds[d].handle) = file_fds[d].name
    BY <2>1 DEF FilesInv, ReadsItsFile, HandlesOpen
  <2> QED BY <1>1, <1>3, <2>1, <2>2, <2>3 DEF Closes
<1>5. page' = Bytes(f, off, len) /\ Reply("read", NoHandle, len)
  BY <1>1, <1>4
<1> HIDE DEF f
<1>6. /\ off \in Nat /\ len \in Nat /\ len <= request.len /\ Reached(t) \in Nat /\ SizeOf[f] \in Nat
      /\ len # 0 => off = Reached(t)
  <2>1. io[t].start \in Nat /\ Len(io[t].got) \in Nat
    BY <1>3, LenProperties DEF IoCall
  <2>2. Reached(t) \in Nat /\ SizeOf[f] \in Nat /\ PAGE \in Nat /\ request.len \in Nat /\ request.offset = Reached(t)
    BY <1>3, <1>4, <2>1, FilesAssumption DEF Reached
  <2> HIDE DEF off, len
  <2>3. off = IF Reached(t) < SizeOf[f] THEN Reached(t) ELSE SizeOf[f]
    BY <2>2 DEF off, LowerOf
  <2>4. off \in Nat /\ SizeOf[f] - off \in Nat /\ (off = Reached(t) \/ SizeOf[f] - off = 0)
    BY <2>2, <2>3
  <2>5. len \in Nat /\ len <= request.len /\ len <= SizeOf[f] - off
    BY <2>2, <2>4 DEF len, LowerOf
  <2> QED BY <2>2, <2>4, <2>5
<1> HIDE DEF off, len
<1>7. page' \in Seq(Letters)
  BY <1>4, <1>5, <1>6, SomeBytes
<1>8. AnsweredTo(t)'
  <2>1. reply'.kind = "read" /\ reply'.len = len /\ request' = Silence
    BY <1>5 DEF Reply, Silence
  <2>2. len <= io[t].want - Len(io[t].got)
    <3>1. io[t].want \in Nat /\ Len(io[t].got) \in Nat
      BY <1>3, LenProperties DEF IoCall
    <3> QED BY <1>3, <1>6, <3>1
  <2>3. len # 0 => page' = Bytes(io[t].name, Reached(t), len)
    BY <1>4, <1>5, <1>6
  <2> QED BY <1>1, <1>3, <1>4, <2>1, <2>2, <2>3 DEF AnsweredTo, Reached, Closes
<1> QED BY <1>1, <1>4, <1>5, <1>6, <1>7, <1>8, AnsweredOnly

\* open: the lowest empty slot, which nothing holds, or a refusal.
LEMMA OpenServed ==
  ASSUME FilesInv, NEW t \in Accessors, AskedBy(t), request # Silence, serve_open,
         UNCHANGED <<files_lock, file_fds, io>>
  PROVE  FilesInv'
<1>1. request.kind = "open" /\ page' = page
  BY DEF serve_open
<1>2. request' = Silence
  BY DEF serve_open, Refuse, Reply
<1>3. /\ FilesTypeOK /\ files_lock = t /\ io[t] \in IoCall /\ OwnCall(t) /\ request.kind = io[t].op
      /\ reply.kind = "none" /\ io[t].at = "recv" /\ page = io[t].name
      /\ OneAtATime' /\ Asked' /\ BytesRead' /\ (AnsweredTo(t)' => Answered')
      /\ \A u \in Accessors : /\ Closes(u) => io[u].handle \in Handles /\ lookup(io[u].handle) \in Names
                              /\ ClosesOwn(u)' => OwnCall(u)'
  BY <1>1, <1>2, RequestIsOwn, Zenon DEF AskedBy
<1>4. page \in Names /\ ~Closes(t)
  BY <1>1, <1>3 DEF OwnCall, OpensOwn, Closes
<1>5. CASE FreeSlots = {}
  <2>1. Refuse /\ UNCHANGED <<open_files, generation>>
    BY <1>5 DEF serve_open
  <2>2. reply'.kind = "error" /\ request' = Silence
    BY <2>1 DEF Refuse, Reply, Silence
  <2>3. AnsweredTo(t)'
    BY <1>3, <1>4, <2>2 DEF AnsweredTo, Closes
  <2> QED BY <1>1, <1>3, <1>4, <2>1, <2>3, AnsweredOnly DEF Refuse, FilesTypeOK
<1>6. CASE FreeSlots # {}
  <2> DEFINE s == CHOOSE s \in FreeSlots : \A r \in FreeSlots : s <= r
             h == [slot |-> s, gen |-> generation]
             e == [name |-> page, gen |-> generation]
  <2>1. /\ open_files' = [open_files EXCEPT ![s] = e]
        /\ generation' = (IF generation = Gens THEN 1 ELSE generation + 1) /\ Reply("open", h, 0)
    BY <1>4, <1>6 DEF serve_open, Inserted
  <2>2. s \in FreeSlots
    <3>1. \A x \in FreeSlots : x \in Nat
      BY FilesAssumption DEF FreeSlots
    <3> QED BY <3>1, <1>6, LeastNat
  <2> HIDE DEF s
  <2>3. /\ s \in 1..MAX_OPEN /\ open_files[s] = Empty /\ generation \in 1..Gens /\ h \in Handles
        /\ e \in [name : Names, gen : 1..Gens] /\ e # Empty
    BY <1>3, <1>4, <2>2, FilesAssumption DEF FreeSlots, FilesTypeOK, Handles, Empty
  <2>4. /\ open_files' \in [1..MAX_OPEN -> {Empty} \cup [name : Names, gen : 1..Gens]] /\ open_files'[s] = e
        /\ \A r \in 1..MAX_OPEN \ {s} : open_files'[r] = open_files[r]
    BY <1>3, <2>1, <2>3 DEF FilesTypeOK
  <2>5. generation' \in 1..Gens
    BY <2>1, <2>3, FilesAssumption
  <2>6. /\ reply' \in [kind : {"error", "open", "close", "read"}, handle : AnyHandle, offset : {0}, len : Nat]
        /\ reply'.kind = "open" /\ reply'.handle = h /\ served' = served + 1
    BY <2>1, <2>3, Zenon DEF Reply, Silence, AnyHandle
  <2>7. h.slot = s /\ h.gen = generation
    OBVIOUS
  <2> HIDE DEF h
  <2>8. FilesTypeOK'
    BY <1>1, <1>2, <1>3, <2>4, <2>5, <2>6 DEF FilesTypeOK
  <2>9. Answered'
    <3>1. open_files'[h.slot] = [name |-> io[t].name, gen |-> h.gen]
      BY <1>3, <2>4, <2>7
    <3> QED BY <1>1, <1>2, <1>3, <1>4, <2>3, <2>6, <3>1 DEF AnsweredTo, Closes
  <2> HIDE DEF e
  <2>10. \A g \in Handles : lookup(g) \in Names =>
           g.slot # s /\ g.slot \in 1..MAX_OPEN /\ open_files'[g.slot] = open_files[g.slot]
    BY <1>3, <2>3, <2>4, Lookup DEF Handles
  <2>11. \A d \in 1..FILE_FDS : IsFile(d) =>
           /\ file_fds[d].handle \in Handles /\ lookup(file_fds[d].handle) = file_fds[d].name
           /\ file_fds[d].name \in Names
    <3>1. \A d \in 1..FILE_FDS : IsFile(d) => file_fds[d] \in FdFile /\ file_fds[d].handle \in Handles
      BY <1>3, Shapes
    <3> QED BY <3>1 DEF FilesInv, ReadsItsFile, HandlesOpen, FdFile
  <2>12. OwnCalls'
    <3>1. \A u \in Accessors : ClosesOwn(u)'
      BY <1>3, <2>10 DEF ClosesOwn, Closes, lookup
    <3> QED BY <1>3, <3>1 DEF OwnCalls
  <2>13. OneHolder'
    <3>1. \A d \in 1..FILE_FDS : IsFile(d) => file_fds[d].handle.slot # s
      BY <2>10, <2>11
    <3>2. \A u \in Accessors : Closes(u) => io[u].handle.slot # s
      BY <1>3, <2>10
    <3> QED BY <3>1, <3>2, <2>6, <2>7 DEF FilesInv, OneHolder, IsFile, Closes
  <2>14. HandlesOpen'
    BY <2>10, <2>11 DEF HandlesOpen, IsFile, lookup
  <2>15. NoneLeaks'
    <3> SUFFICES ASSUME NEW r \in 1..MAX_OPEN, open_files'[r] # Empty PROVE Held(r)'
      BY DEF NoneLeaks
    <3>1. CASE r = s
      BY <3>1, <2>6, <2>7 DEF Held
    <3>2. CASE r # s
      <4>1. Held(r)
        BY <3>2, <2>4 DEF FilesInv, ReadsItsFile, NoneLeaks
      <4> QED BY <4>1, <1>3 DEF Held, IsFile, Closes
    <3> QED BY <3>1, <3>2
  <2> QED BY <1>3, <2>8, <2>9, <2>12, <2>13, <2>14, <2>15 DEF FilesInv, ReadsItsFile
<1> QED BY <1>5, <1>6

\* close: the slot is emptied, and only the closing call held it.
LEMMA CloseServed ==
  ASSUME FilesInv, NEW t \in Accessors, AskedBy(t), request # Silence, serve_close,
         UNCHANGED <<files_lock, file_fds, io>>
  PROVE  FilesInv'
<1> DEFINE h == io[t].handle
<1>1. request.kind = "close" /\ page' = page /\ generation' = generation
  BY DEF serve_close
<1>2. request' = Silence
  BY DEF serve_close, Refuse, Reply
<1>3. /\ FilesTypeOK /\ files_lock = t /\ io[t] \in IoCall /\ OwnCall(t) /\ request.kind = io[t].op
      /\ request.handle = h /\ reply.kind = "none" /\ io[t].at = "recv"
      /\ OneAtATime' /\ Asked' /\ BytesRead' /\ (AnsweredTo(t)' => Answered')
      /\ \A u \in Accessors : /\ Closes(u) => io[u].handle \in Handles /\ lookup(io[u].handle) \in Names
                              /\ ClosesOwn(u)' => OwnCall(u)'
  BY <1>1, <1>2, RequestIsOwn, Zenon DEF AskedBy
<1>4. Closes(t) /\ h \in Handles /\ lookup(h) \in Names /\ h.slot \in 1..MAX_OPEN
  BY <1>1, <1>3, Shapes DEF Closes
<1>5. open_files' = [open_files EXCEPT ![h.slot] = Empty] /\ Reply("close", NoHandle, 0)
  BY <1>3, <1>4 DEF serve_close
<1>6. /\ open_files' \in [1..MAX_OPEN -> {Empty} \cup [name : Names, gen : 1..Gens]] /\ open_files'[h.slot] = Empty
      /\ \A r \in 1..MAX_OPEN \ {h.slot} : open_files'[r] = open_files[r]
  BY <1>3, <1>4, <1>5 DEF FilesTypeOK
<1>7. /\ reply' \in [kind : {"error", "open", "close", "read"}, handle : AnyHandle, offset : {0}, len : Nat]
      /\ reply'.kind = "close" /\ served' = served + 1
  BY <1>5, Zenon DEF Reply, Silence, AnyHandle
<1>8. FilesTypeOK'
  BY <1>1, <1>2, <1>3, <1>6, <1>7 DEF FilesTypeOK
<1>9. Answered'
  BY <1>1, <1>2, <1>3, <1>4, <1>6, <1>7 DEF AnsweredTo, Closes
<1>10. /\ \A d \in 1..FILE_FDS : IsFile(d) => file_fds[d].handle.slot # h.slot /\ file_fds[d].handle \in Handles
       /\ \A u \in Accessors \ {t} : Closes(u) => io[u].handle.slot # h.slot /\ io[u].handle \in Handles
  BY <1>3, <1>4, Shapes DEF FilesInv, OneHolder
<1>11. \A g \in Handles : g.slot # h.slot => open_files'[g.slot] = open_files[g.slot]
  BY <1>6 DEF Handles
<1>12. OwnCalls'
  <2> SUFFICES ASSUME NEW u \in Accessors PROVE ClosesOwn(u)'
    BY <1>3 DEF OwnCalls
  <2>1. CASE u = t
    BY <1>3, <1>4, <1>7, <2>1 DEF ClosesOwn, Closes
  <2>2. CASE u # t
    BY <1>3, <1>10, <1>11, <2>2 DEF ClosesOwn, Closes, lookup
  <2> QED BY <2>1, <2>2
<1>13. OneHolder'
  BY <1>7 DEF FilesInv, OneHolder, IsFile, Closes
<1>14. HandlesOpen'
  BY <1>10, <1>11 DEF FilesInv, ReadsItsFile, HandlesOpen, IsFile, lookup
<1>15. NoneLeaks'
  <2> SUFFICES ASSUME NEW r \in 1..MAX_OPEN, open_files'[r] # Empty PROVE Held(r)'
    BY DEF NoneLeaks
  <2>1. r # h.slot
    BY <1>6
  <2>2. Held(r)
    BY <2>1, <1>6 DEF FilesInv, ReadsItsFile, NoneLeaks
  <2> QED BY <2>2, <1>3 DEF Held, IsFile, Closes
<1> QED BY <1>3, <1>8, <1>9, <1>12, <1>13, <1>14, <1>15 DEF FilesInv, ReadsItsFile

LEMMA FilesStart ==
  ASSUME FilesInit
  PROVE  FilesInv
<1>1. /\ files_lock = Nowhere /\ page = <<>> /\ request = Silence /\ reply = Silence
      /\ file_fds = [d \in 1..FILE_FDS |-> NoFile] /\ io = [t \in Accessors |-> Idle]
      /\ open_files = [s \in 1..MAX_OPEN |-> Empty] /\ generation = 1 /\ served = 0
  BY DEF FilesInit
<1>2. Idle.op = "user" /\ Idle.at = "user" /\ Idle.got = <<>> /\ Idle.want = 0 /\ Len(<<>>) = 0
  BY EmptySeq DEF Idle
<1>3. FilesTypeOK
  <2>1. io \in [Accessors -> IoCall]
    BY <1>1, EmptySeq, FilesAssumption DEF Idle, IoCall, AnyHandle
  <2>2. page \in Seq(Letters) /\ 1 \in 1..Gens
    BY <1>1, EmptySeq, FilesAssumption
  <2>3. open_files \in [1..MAX_OPEN -> {Empty} \cup [name : Names, gen : 1..Gens]]
    BY <1>1
  <2> QED BY <1>1, <2>1, <2>2, <2>3 DEF FilesTypeOK, IoCall
<1>4. OneAtATime /\ Asked /\ Answered
  BY <1>1, <1>2, FilesAssumption DEF OneAtATime, InCall, Asked, Answered
<1>5. \A t \in Accessors : io[t] = Idle /\ ~Closes(t)
  BY <1>1, <1>2 DEF Closes
<1>6. \A d \in 1..FILE_FDS : ~IsFile(d)
  BY <1>1 DEF IsFile, NoFile
<1>7. reply.kind # "open"
  BY <1>1 DEF Silence
<1>8. OwnCalls
  BY <1>2, <1>5 DEF OwnCalls, OwnCall, OpensOwn, ReadsOwn, ClosesOwn
<1>9. OneHolder
  BY <1>5, <1>6, <1>7 DEF OneHolder
<1>10. ReadsItsFile
  BY <1>1, <1>2, <1>5, <1>6 DEF ReadsItsFile, BytesRead, HandlesOpen, NoneLeaks
<1> QED BY <1>3, <1>4, <1>8, <1>9, <1>10 DEF FilesInv

LEMMA FilesStep ==
  ASSUME FilesInv, [FilesNext]_fileVars
  PROVE  FilesInv'
<1>1. CASE serve
  <2>1. /\ request # Silence /\ UNCHANGED <<files_lock, file_fds, io>>
        /\ serve_open \/ serve_read \/ serve_close
    BY <1>1 DEF serve
  <2>2. PICK t \in Accessors : AskedBy(t)
    BY <2>1 DEF FilesInv, Asked
  <2> QED BY <2>1, <2>2, OpenServed, ReadServed, CloseServed
<1>2. ASSUME NEW t \in Accessors, acquire(t) \/ send(t) \/ recv(t) PROVE FilesInv'
  BY <1>2, LockAcquired, RequestSent, ReplyTaken
<1>3. ASSUME NEW t \in Accessors, NEW f \in Names, open_file(t, f) PROVE FilesInv'
  <2> DEFINE c == [Idle EXCEPT !.op = "open", !.at = "lock", !.name = f]
  <2>1. c \in IoCall /\ c.at = "lock" /\ c.got = <<>> /\ c.op = "open" /\ c.name = f
    <3>1. Idle \in IoCall
      BY Shapes DEF FilesInv
    <3> QED BY <3>1, Zenon DEF Idle, IoCall
  <2>2. Begins(t, c) /\ UNCHANGED file_fds
    BY <1>3 DEF open_file
  <2> HIDE DEF c
  <2> QED BY <2>1, <2>2, CallBegins
<1>4. ASSUME NEW t \in Accessors, NEW d \in 1..FILE_FDS, NEW n \in Counts, read(t, d, n) PROVE FilesInv'
  <2> DEFINE c == [Idle EXCEPT !.op = "read", !.at = "lock", !.fd = d, !.want = n]
  <2>1. c \in IoCall /\ c.at = "lock" /\ c.got = <<>> /\ c.op = "read" /\ c.fd = d
    <3>1. Idle \in IoCall
      BY Shapes DEF FilesInv
    <3>2. n \in Nat /\ d \in 0..FILE_FDS
      BY FilesAssumption
    <3> QED BY <3>1, <3>2, Zenon DEF Idle, IoCall
  <2>2. Begins(t, c) /\ UNCHANGED file_fds /\ IsFile(d)
    BY <1>4 DEF read, IsFile
  <2> HIDE DEF c
  <2> QED BY <2>1, <2>2, CallBegins
<1>5. ASSUME NEW t \in Accessors, NEW d \in 1..FILE_FDS, close_file(t, d) PROVE FilesInv'
  BY <1>5, CloseBegins
<1>6. ASSUME NEW t \in Accessors, NEW d \in 1..FILE_FDS, NEW o \in Targets, seek(t, d, o) PROVE FilesInv'
  <2>1. o \in Nat
    BY FilesAssumption
  <2> QED BY <1>6, <2>1, CursorMoves
<1>7. CASE UNCHANGED fileVars
  <2>1. /\ UNCHANGED <<files_lock, page, file_fds, io>> /\ UNCHANGED <<request, reply>>
        /\ UNCHANGED <<open_files, generation, served>>
    BY <1>7 DEF fileVars
  <2>2. FilesTypeOK' /\ OneAtATime' /\ Asked' /\ Answered'
    BY <2>1, SMTT(30) DEF FilesInv, FilesTypeOK, OneAtATime, InCall, Asked, AskedBy, Answered, AnsweredTo, Reached, Closes
  <2>3. OwnCalls' /\ OneHolder'
    BY <2>1 DEF FilesInv, OwnCalls, OwnCall, OpensOwn, ReadsOwn, ClosesOwn, Closes, IsFile, InCall, lookup, OneHolder
  <2>4. ReadsItsFile'
    BY <2>1 DEF FilesInv, ReadsItsFile, BytesRead, InCall, HandlesOpen, lookup, NoneLeaks, Held, IsFile, Closes
  <2> QED BY <2>2, <2>3, <2>4 DEF FilesInv
<1> QED BY <1>1, <1>2, <1>3, <1>4, <1>5, <1>6, <1>7 DEF FilesNext

\* The invariant of file access: a request, its reply and the page belong to the
\* thread that holds FILES_LOCK (file.rs), and every slot of the file server's table
\* (fssrv) to one descriptor, closing call or reply.
THEOREM FilesInductive == FilesSpec => []FilesInv
<1>1. FilesInit => FilesInv
  BY FilesStart
<1>2. FilesInv /\ [FilesNext]_fileVars => FilesInv'
  BY FilesStep
<1> QED BY <1>1, <1>2, PTL DEF FilesSpec

\* Every read gets the bytes of the file its descriptor names, every handle names
\* the file it was opened for, and no slot of the server's table leaks, however many
\* threads, files, descriptors, slots and generations there are.
THEOREM EveryReadIsOwn == FilesSpec => []ReadsItsFile
<1>1. FilesInv => ReadsItsFile
  BY DEF FilesInv
<1> QED BY <1>1, FilesInductive, PTL
=============================================================================
