---------------------------- MODULE NotifyProofs ----------------------------
(***************************************************************************)
(* No task sleeps through a signal, for any number of tasks, interrupt     *)
(* lines and notifications, as long as no two tasks watch the same one.    *)
(***************************************************************************)
EXTENDS Notify, TLAPS

USE DEF Up

\* What the invariant gives about the variables' types.
LEMMA TypeFacts ==
    ASSUME NotifyInv
    PROVE  /\ parked \in [Tasks -> {"no", "Blocked", "Sleeping"}]
           /\ wake_pending \in [Tasks -> BOOLEAN]
           /\ pending \in [Notifs -> 0..MaxPending]
           /\ waiter \in [Notifs -> Tasks \cup {NoTask}]
           /\ pc \in [Procs -> NotifyPhases]
           /\ ids \in [Tasks -> SUBSET Notifs]
           /\ deadline \in [Tasks -> {"none", "ahead", "past"}]
           /\ owed \in [Procs -> Tasks \cup {NoTask}]
           /\ NoTask \notin Procs /\ Tasks \subseteq Procs
           /\ MaxPending \in Nat
BY ProcsAssumption, PendingAssumption
   DEF NotifyInv, NotifyTypeOK, NotifyTypes, ParkTypeOK, Procs

\* Two tasks' sources are disjoint.
LEMMA OwnSources ==
    ASSUME NotifyInv, NEW t \in Tasks, NEW u \in Tasks, t # u
    PROVE  ids[t] \cap ids[u] = {}
<1>1. ids[t] \subseteq UNION Watch[t] /\ ids[u] \subseteq UNION Watch[u]
  BY DEF NotifyInv, WatchesItsOwn
<1>2. (UNION Watch[t]) \cap (UNION Watch[u]) = {}
  BY SingleWaiter
<1>3. ASSUME NEW j, j \in ids[t], j \in ids[u] PROVE FALSE
  <2>1. j \in UNION Watch[t] /\ j \in UNION Watch[u]
    BY <1>1, <1>3, Zenon
  <2>2. j \in (UNION Watch[t]) \cap (UNION Watch[u])
    BY <2>1, Zenon
  <2> QED BY <1>2, <2>2
<1> QED BY <1>3

\* signal, counting.
LEMMA SignalCountInv ==
    ASSUME NotifyInv, NEW p \in Procs, NEW i \in Notifs, SignalCount(p, i)
    PROVE  NotifyInv'
<1> USE TypeFacts
<1> DEFINE w == waiter[i]
<1>1. /\ pc[p] = "user" /\ owed[p] = NoTask
      /\ pending' = [pending EXCEPT ![i] = saturating_add(pending[i])]
      /\ waiter' = [waiter EXCEPT ![i] = NoTask]
      /\ owed' = [owed EXCEPT ![p] = w]
      /\ pc' = [pc EXCEPT ![p] = IF w = NoTask THEN "user" ELSE "wake"]
      /\ UNCHANGED <<parked, wake_pending, ids, deadline>>
  BY DEF SignalCount, count_signal, Goto, NotifyInv, WakesOwed, parkVars
<1>2. saturating_add(pending[i]) \in 0..MaxPending
  BY DEF saturating_add
<1>3. NotifyTypeOK'
  BY <1>1, <1>2 DEF NotifyTypeOK, NotifyTypes, ParkTypeOK, NotifyPhases
<1>4. WatchesItsOwn'
  BY <1>1 DEF NotifyInv, WatchesItsOwn
<1>5. ParkedInWait' /\ WakesOwed'
  BY <1>1 DEF NotifyInv, ParkedInWait, WakesOwed
<1>6. RegisteredWhileWaiting'
  BY <1>1 DEF NotifyInv, RegisteredWhileWaiting
<1>7. WakeComes'
  <2> SUFFICES ASSUME NEW t \in Tasks,
                      pc'[t] = "park" \/ (pc'[t] = "awake" /\ ~ Up(t)')
               PROVE  Untouched(t)' \/ Owed(t)' \/ (pc'[t] = "park" /\ wake_pending'[t])
    BY DEF WakeComes
  <2>1. t # p /\ pc[t] = pc'[t]
    BY <1>1
  <2>2. Owed(t) => Owed(t)'
    BY <1>1 DEF Owed
  <2>3. CASE ~ Untouched(t)
    BY <1>1, <2>1, <2>2, <2>3 DEF NotifyInv, WakeComes
  <2>4. CASE Untouched(t) /\ i \in ids[t]
    <3>1. owed'[p] = t
      BY <1>1, <2>4 DEF Untouched
    <3> QED BY <3>1 DEF Owed
  <2>5. CASE Untouched(t) /\ i \notin ids[t]
    <3>1. \A j \in ids[t] : waiter'[j] = waiter[j] /\ pending'[j] = pending[j]
      BY <1>1, <2>5
    <3> QED BY <1>1, <2>5, <3>1 DEF Untouched
  <2> QED BY <2>3, <2>4, <2>5
<1> QED BY <1>3, <1>4, <1>5, <1>6, <1>7 DEF NotifyInv

\* signal, waking.
LEMMA SignalWakeInv ==
    ASSUME NotifyInv, NEW p \in Procs, SignalWake(p)
    PROVE  NotifyInv'
<1> USE TypeFacts
<1> DEFINE w == owed[p]
<1>1. /\ pc[p] = "wake"
      /\ unblock(w)
      /\ owed' = [owed EXCEPT ![p] = NoTask]
      /\ pc' = [pc EXCEPT ![p] = "user"]
      /\ UNCHANGED <<pending, waiter, ids, deadline>>
  BY DEF SignalWake, Goto
<1>2. /\ parked' = [parked EXCEPT ![w] = IF parked[w] \in {"Blocked", "Sleeping"}
                                         THEN "no" ELSE parked[w]]
      /\ wake_pending' = [wake_pending EXCEPT ![w] = wake_pending[w]
                            \/ parked[w] \notin {"Blocked", "Sleeping"}]
  BY <1>1 DEF unblock, wake_if
<1>3. NotifyTypeOK'
  BY <1>1, <1>2 DEF NotifyTypeOK, NotifyTypes, ParkTypeOK, NotifyPhases
<1>4. WatchesItsOwn'
  BY <1>1 DEF NotifyInv, WatchesItsOwn
<1>5. ParkedInWait'
  BY <1>1, <1>2 DEF NotifyInv, ParkedInWait
<1>6. WakesOwed'
  BY <1>1 DEF NotifyInv, WakesOwed
<1>7. RegisteredWhileWaiting'
  BY <1>1 DEF NotifyInv, RegisteredWhileWaiting
<1>8. WakeComes'
  <2> SUFFICES ASSUME NEW t \in Tasks,
                      pc'[t] = "park" \/ (pc'[t] = "awake" /\ ~ Up(t)')
               PROVE  Untouched(t)' \/ Owed(t)' \/ (pc'[t] = "park" /\ wake_pending'[t])
    BY DEF WakeComes
  <2>1. t # p /\ pc[t] = pc'[t] /\ (Untouched(t) => Untouched(t)')
    BY <1>1 DEF Untouched
  <2>2. CASE t = w
    <3>1. Up(t)'
      BY <1>2, <2>2
    <3>2. pc[t] = "park" /\ Up(t)
      BY <2>1, <3>1 DEF NotifyInv, ParkedInWait
    <3> QED BY <1>2, <2>1, <2>2, <3>2
  <2>3. CASE t # w
    <3>1. /\ parked'[t] = parked[t] /\ wake_pending'[t] = wake_pending[t]
          /\ Owed(t) => Owed(t)'
      BY <1>1, <1>2, <2>3 DEF Owed
    <3> QED BY <2>1, <3>1 DEF NotifyInv, WakeComes
  <2> QED BY <2>2, <2>3
<1> QED BY <1>3, <1>4, <1>5, <1>6, <1>7, <1>8 DEF NotifyInv

\* The steps of wait_any, as one shape: task t moves, only its own sources
\* change, and on its way into sleep it is untouched or its wake is noted.
LEMMA OwnStepInv ==
    ASSUME NotifyInv, NEW t \in Tasks, NotifyTypeOK',
           pc[t] # "wake", owed' = owed,
           \A p \in Procs : p # t => pc'[p] = pc[p],
           \A u \in Tasks : u # t => /\ parked'[u] = parked[u]
                                     /\ wake_pending'[u] = wake_pending[u]
                                     /\ ids'[u] = ids[u],
           ids'[t] \subseteq UNION Watch[t],
           \A j \in Notifs : j \notin ids[t] => waiter'[j] = waiter[j] /\ pending'[j] = pending[j],
           \A j \in ids[t] : waiter'[j] \in {t, NoTask}
                                \/ (waiter'[j] = waiter[j]),
           \A j \in Notifs : waiter'[j] = t => pc'[t] \in {"park", "awake"} /\ j \in ids'[t],
           ~ Up(t)' => pc'[t] = "awake",
           pc'[t] = "park" => Untouched(t)' \/ wake_pending'[t] \/ Owed(t),
           pc'[t] = "awake" /\ ~ Up(t)' => Untouched(t)' \/ Owed(t)
    PROVE  NotifyInv'
<1> USE TypeFacts
<1>1. owed[t] = NoTask
  BY DEF NotifyInv, WakesOwed
<1>2. \A u \in Tasks : u # t => ids[u] \cap ids[t] = {}
  BY OwnSources
<1>3. WatchesItsOwn' /\ ParkedInWait' /\ WakesOwed'
  BY <1>1 DEF NotifyInv, WatchesItsOwn, ParkedInWait, WakesOwed
<1>4. RegisteredWhileWaiting'
  <2> SUFFICES ASSUME NEW j \in Notifs, waiter'[j] # NoTask
               PROVE  pc'[waiter'[j]] \in {"park", "awake"} /\ j \in ids'[waiter'[j]]
    BY DEF RegisteredWhileWaiting
  <2>1. CASE waiter'[j] = t
    BY <2>1
  <2>2. CASE waiter'[j] # t
    <3>1. waiter'[j] = waiter[j]
      BY <2>2
    <3>2. waiter[j] \in Tasks /\ pc[waiter[j]] \in {"park", "awake"} /\ j \in ids[waiter[j]]
      BY <3>1 DEF NotifyInv, RegisteredWhileWaiting
    <3> QED BY <2>2, <3>1, <3>2
  <2> QED BY <2>1, <2>2
<1>5. WakeComes'
  <2> SUFFICES ASSUME NEW u \in Tasks
               PROVE  /\ pc'[u] = "park" => Untouched(u)' \/ wake_pending'[u] \/ Owed(u)'
                      /\ pc'[u] = "awake" /\ ~ Up(u)' => Untouched(u)' \/ Owed(u)'
    BY DEF WakeComes
  <2>1. Owed(u)' <=> Owed(u)
    BY DEF Owed
  <2>2. CASE u = t
    BY <2>1, <2>2
  <2>3. CASE u # t
    <3>1. Untouched(u) => Untouched(u)'
      <4>1. \A j \in ids[u] : j \in Notifs /\ j \notin ids[t]
        BY <1>2, <2>3
      <4> QED BY <2>3, <4>1 DEF Untouched
    <3>2. pc'[u] = pc[u] /\ Up(u)' = Up(u) /\ wake_pending'[u] = wake_pending[u]
      BY <2>3
    <3> QED BY <2>1, <3>1, <3>2 DEF NotifyInv, WakeComes
  <2> QED BY <2>2, <2>3
<1> QED BY <1>3, <1>4, <1>5 DEF NotifyInv
\* The rest of wait_any, action by action.
LEMMA WaitInv ==
    ASSUME NotifyInv, NEW t \in Tasks,
           \/ \E watch \in Watch[t], until \in {"none", "ahead", "past"} :
                 WaitAny(t, watch, until)
           \/ Check(t) \/ BlockUntil(t) \/ Deregister(t) \/ Retry(t) \/ Tick(t)
    PROVE  NotifyInv'
<1> USE TypeFacts
<1>0. /\ WatchesItsOwn /\ ParkedInWait /\ WakesOwed /\ RegisteredWhileWaiting
      /\ WakeComes /\ t \in Procs
  BY DEF NotifyInv
<1>r. \A j \in Notifs : waiter[j] = t => pc[t] \in {"park", "awake"} /\ j \in ids[t]
  BY <1>0 DEF RegisteredWhileWaiting
<1>c. ASSUME consume_ready(t)
      PROVE  /\ pending' \in [Notifs -> 0..MaxPending]
             /\ \A j \in Notifs : j \notin ids[t] => pending'[j] = pending[j]
  <2>1. PICK i \in ready(t) : pending' = [pending EXCEPT ![i] = pending[i] - 1]
    BY <1>c DEF consume_ready
  <2>2. i \in ids[t] /\ i \in Notifs /\ pending[i] > 0
    BY <2>1 DEF ready
  <2> QED BY <2>1, <2>2
<1>1. CASE \E watch \in Watch[t], until \in {"none", "ahead", "past"} :
              WaitAny(t, watch, until)
  <2>1. PICK watch \in Watch[t], until \in {"none", "ahead", "past"} :
           /\ pc[t] = "user" /\ parked[t] = "no"
           /\ ids' = [ids EXCEPT ![t] = watch]
           /\ deadline' = [deadline EXCEPT ![t] = until]
           /\ pc' = [pc EXCEPT ![t] = "check"]
           /\ UNCHANGED <<parked, wake_pending, pending, waiter, owed>>
    BY <1>1 DEF WaitAny, Goto, parkVars
  <2>2. watch \subseteq Notifs /\ watch \subseteq UNION Watch[t]
    BY WatchAssumption
  <2>3. NotifyTypeOK'
    BY <2>1, <2>2 DEF NotifyTypeOK, NotifyTypes, ParkTypeOK, NotifyPhases
  <2> QED BY <2>1, <2>2, <2>3, <1>0, <1>r, OwnStepInv
<1>2. CASE Check(t)
  <2>1. /\ pc[t] = "check" /\ parked[t] = "no"
        /\ UNCHANGED <<parked, wake_pending, owed>>
    BY <1>2, <1>0 DEF Check, parkVars, ParkedInWait
  <2>2. CASE /\ waiter' = waiter
             /\ consume_ready(t) \/ pending' = pending
             /\ Return(t)
    <3>1. /\ pc' = [pc EXCEPT ![t] = "user"] /\ ids' = [ids EXCEPT ![t] = {}]
          /\ deadline' = [deadline EXCEPT ![t] = "none"]
          /\ pending' \in [Notifs -> 0..MaxPending]
          /\ \A j \in Notifs : j \notin ids[t] => pending'[j] = pending[j]
      BY <2>2, <1>c DEF Return, Goto
    <3>2. NotifyTypeOK'
      BY <2>1, <2>2, <3>1 DEF NotifyTypeOK, NotifyTypes, ParkTypeOK, NotifyPhases
    <3> QED BY <2>1, <2>2, <3>1, <3>2, <1>r, OwnStepInv
  <2>3. CASE /\ ready(t) = {}
             /\ waiter' = [i \in Notifs |-> IF i \in ids[t] THEN t ELSE waiter[i]]
             /\ pc' = [pc EXCEPT ![t] = "park"]
             /\ UNCHANGED <<pending, ids, deadline>>
    <3>1. NotifyTypeOK'
      BY <2>1, <2>3 DEF NotifyTypeOK, NotifyTypes, ParkTypeOK, NotifyPhases
    <3>2. Untouched(t)'
      BY <2>3 DEF Untouched, ready
    <3> QED BY <2>1, <2>3, <3>1, <3>2, <1>0, <1>r, OwnStepInv DEF WatchesItsOwn
  <2> QED BY <1>2, <2>2, <2>3 DEF Check, Goto
<1>3. CASE BlockUntil(t)
  <2>1. /\ pc[t] = "park" /\ parked[t] = "no"
        /\ pc' = [pc EXCEPT ![t] = "awake"]
        /\ UNCHANGED <<pending, waiter, ids, deadline, owed>>
    BY <1>3, <1>0 DEF BlockUntil, Goto, ParkedInWait
  <2>2. \/ UNCHANGED <<parked, wake_pending>>
        \/ /\ wake_pending' = [wake_pending EXCEPT ![t] = FALSE] /\ parked' = parked
        \/ /\ ~ wake_pending[t] /\ wake_pending' = wake_pending
           /\ \E how \in {"Blocked", "Sleeping"} : parked' = [parked EXCEPT ![t] = how]
    BY <1>3 DEF BlockUntil, park, parkVars
  <2>3. NotifyTypeOK'
    BY <2>1, <2>2 DEF NotifyTypeOK, NotifyTypes, ParkTypeOK, NotifyPhases
  <2>4. ~ Up(t)' => Untouched(t)' \/ Owed(t)
    BY <2>1, <2>2, <1>0 DEF WakeComes, Untouched
  <2> QED BY <2>1, <2>2, <2>3, <2>4, <1>0, <1>r, OwnStepInv DEF WatchesItsOwn
<1>4. CASE Deregister(t)
  <2>1. /\ pc[t] = "awake" /\ parked[t] = "no"
        /\ waiter' = [i \in Notifs |-> IF i \in ids[t] /\ waiter[i] = t
                                       THEN NoTask ELSE waiter[i]]
        /\ UNCHANGED <<parked, wake_pending, owed>>
    BY <1>4 DEF Deregister, deregistered, parkVars
  <2>2. \A j \in Notifs : /\ waiter'[j] # t
                          /\ j \notin ids[t] => waiter'[j] = waiter[j]
    BY <2>1, <1>r
  <2>3. CASE consume_ready(t) /\ Return(t)
    <3>1. /\ pc' = [pc EXCEPT ![t] = "user"] /\ ids' = [ids EXCEPT ![t] = {}]
          /\ deadline' = [deadline EXCEPT ![t] = "none"]
          /\ pending' \in [Notifs -> 0..MaxPending]
          /\ \A j \in Notifs : j \notin ids[t] => pending'[j] = pending[j]
      BY <2>3, <1>c DEF Return, Goto
    <3>2. NotifyTypeOK'
      BY <2>1, <2>3, <3>1 DEF NotifyTypeOK, NotifyTypes, ParkTypeOK, NotifyPhases
    <3> QED BY <2>1, <2>2, <3>1, <3>2, OwnStepInv
  <2>4. CASE pc' = [pc EXCEPT ![t] = "retry"] /\ UNCHANGED <<pending, ids, deadline>>
    <3>1. NotifyTypeOK'
      BY <2>1, <2>4 DEF NotifyTypeOK, NotifyTypes, ParkTypeOK, NotifyPhases
    <3> QED BY <2>1, <2>2, <2>4, <3>1, <1>0, OwnStepInv DEF WatchesItsOwn
  <2> QED BY <1>4, <2>3, <2>4 DEF Deregister, Goto
<1>5. CASE Retry(t)
  <2>1. /\ pc[t] = "retry" /\ parked[t] = "no"
        /\ UNCHANGED <<parked, wake_pending, pending, waiter, owed>>
        /\ \E where \in {"user", "check"} : pc' = [pc EXCEPT ![t] = where]
        /\ \/ ids' = ids /\ deadline' = deadline
           \/ /\ ids' = [ids EXCEPT ![t] = {}]
              /\ deadline' = [deadline EXCEPT ![t] = "none"]
    BY <1>5, <1>0 DEF Retry, Return, Goto, parkVars, ParkedInWait
  <2>2. NotifyTypeOK'
    BY <2>1 DEF NotifyTypeOK, NotifyTypes, ParkTypeOK, NotifyPhases
  <2>3. ids'[t] \subseteq UNION Watch[t] /\ \A u \in Tasks : u # t => ids'[u] = ids[u]
    BY <2>1, <1>0 DEF WatchesItsOwn
  <2> QED BY <2>1, <2>2, <2>3, <1>r, OwnStepInv
<1>6. CASE Tick(t)
  <2>1. /\ deadline' = [deadline EXCEPT ![t] = "past"]
        /\ UNCHANGED <<parked, wake_pending, pending, waiter, pc, ids, owed>>
    BY <1>6 DEF Tick, parkVars
  <2>2. NotifyTypeOK'
    BY <2>1 DEF NotifyTypeOK, NotifyTypes, ParkTypeOK
  <2> QED BY <2>1, <2>2, <1>0 DEF NotifyInv, WatchesItsOwn, ParkedInWait,
          WakesOwed, RegisteredWhileWaiting, WakeComes, Untouched, Owed
<1> QED BY <1>1, <1>2, <1>3, <1>4, <1>5, <1>6

\* The clock frees late sleepers and touches nothing else.
LEMMA ExpireInv == ASSUME NotifyInv, Expire PROVE NotifyInv'
<1> USE TypeFacts
<1>1. /\ UNCHANGED <<wake_pending, pending, waiter, pc, ids, deadline, owed>>
      /\ parked' \in [Tasks -> {"no", "Blocked", "Sleeping"}]
      /\ \A t \in Tasks : ~ Up(t)' => ~ Up(t)
  BY DEF Expire, wake_expired, notifyVars
<1>2. NotifyTypeOK'
  BY <1>1 DEF NotifyTypeOK, NotifyTypes, ParkTypeOK
<1> QED BY <1>1, <1>2 DEF NotifyInv, WatchesItsOwn, ParkedInWait, WakesOwed,
        RegisteredWhileWaiting, WakeComes, Untouched, Owed

LEMMA NotifyInitInv == NotifyInit => NotifyInv
BY ProcsAssumption, PendingAssumption
   DEF NotifyInit, ParkInit, NotifyInv, NotifyTypeOK, NotifyTypes, ParkTypeOK,
       NotifyPhases, Procs, WatchesItsOwn, ParkedInWait, WakesOwed,
       RegisteredWhileWaiting, WakeComes

LEMMA NotifyNextInv == NotifyInv /\ [NotifyNext]_waitVars => NotifyInv'
<1> SUFFICES ASSUME NotifyInv, [NotifyNext]_waitVars PROVE NotifyInv'
  OBVIOUS
<1>1. CASE UNCHANGED waitVars
  BY <1>1 DEF waitVars, notifyVars, parkVars, NotifyInv, NotifyTypeOK,
     NotifyTypes, ParkTypeOK, WatchesItsOwn, ParkedInWait, WakesOwed,
     RegisteredWhileWaiting, WakeComes, Untouched, Owed
<1>2. CASE \E p \in Procs, i \in Notifs : SignalCount(p, i)
  BY <1>2, SignalCountInv
<1>3. CASE \E p \in Procs : SignalWake(p)
  BY <1>3, SignalWakeInv
<1>4. CASE \E t \in Tasks, until \in {"none", "ahead", "past"} :
              \E watch \in Watch[t] : WaitAny(t, watch, until)
  BY <1>4, WaitInv
<1>5. CASE \E t \in Tasks : \/ Check(t) \/ BlockUntil(t) \/ Deregister(t)
                            \/ Retry(t) \/ Tick(t)
  BY <1>5, WaitInv
<1>6. CASE Expire
  BY <1>6, ExpireInv
<1> QED BY <1>1, <1>2, <1>3, <1>4, <1>5, <1>6 DEF NotifyNext

\* The strengthened invariant holds throughout.
THEOREM NotifyInductive == NotifySpec => []NotifyInv
BY NotifyInitInv, NotifyNextInv, PTL DEF NotifySpec

\* Pending counts stay within their width and every slot names a task.
THEOREM NotifyTyped == NotifySpec => []NotifyTypeOK
<1>1. NotifyInv => NotifyTypeOK
  BY DEF NotifyInv
<1> QED BY <1>1, NotifyInductive, PTL

\* A task parked in wait_any with a signal counted on one of its sources is
\* about to be woken: the race between registering and parking loses nothing.
THEOREM SignalsHeard == NotifySpec => []NoSleepOnSignal
<1>1. NotifyInv => NoSleepOnSignal
  <2> SUFFICES ASSUME NotifyInv, NEW t \in Tasks, pc[t] = "awake", ~ Up(t),
                      ready(t) # {}
               PROVE  \E p \in Procs : owed[p] = t
    BY DEF NoSleepOnSignal
  <2>1. ~ Untouched(t)
    BY DEF ready, Untouched
  <2> QED BY <2>1 DEF NotifyInv, WakeComes, Owed
<1> QED BY <1>1, NotifyInductive, PTL

\* A slot names a task only between its registering and its deregistering.
THEOREM RegistrationEnds == NotifySpec => []RegisteredWhileWaiting
<1>1. NotifyInv => RegisteredWhileWaiting
  BY DEF NotifyInv
<1> QED BY <1>1, NotifyInductive, PTL
=============================================================================
