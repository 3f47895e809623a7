----------------------------- MODULE SchedProofs -----------------------------
(***************************************************************************)
(* Proofs about module Sched, for every number of cores, tasks and spaces. *)
(***************************************************************************)
EXTENDS Sched, WellFoundedInduction, TLAPS

-----------------------------------------------------------------------------
(* What the picker returns *)

\* Every non-empty set of naturals has a least element.
LEMMA LeastNat ==
    ASSUME NEW T, T \subseteq Nat, T # {}
    PROVE  \E x \in T : \A y \in T : x <= y
<1> DEFINE R == OpToRel(<, Nat)
<1>1. \A x, y \in Nat : <<y, x>> \in R <=> y < x
  BY DEF OpToRel
<1>2. IsWellFoundedOn(R, Nat)
  BY NatLessThanWellFounded
<1> HIDE DEF R
<1>3. PICK x \in T : \A y \in T : ~ (<<y, x>> \in R)
  BY <1>2, WFMin
<1>4. ASSUME NEW y \in T PROVE x <= y
  <2>1. x \in Nat /\ y \in Nat
    OBVIOUS
  <2>2. ~ (y < x)
    BY <1>1, <1>3, <2>1, Zenon
  <2> QED BY <2>1, <2>2
<1> QED BY <1>4

\* The round-robin scan of affinity::choose finds a member of the set it
\* scans whenever there is one.
LEMMA FirstInSet ==
    ASSUME NEW m \in Nat \ {0}, NEW from \in Int, NEW S, S \subseteq Int, S # {}
    PROVE  First(m, from, S) \in S
<1> DEFINE off(i) == (i - from - 1) % m
           T == {off(i) : i \in S}
<1>1. \A i \in Int : off(i) \in Nat
  OBVIOUS
<1>2. T \subseteq Nat /\ T # {}
  BY <1>1
<1>3. PICK x \in T : \A y \in T : x <= y
  BY <1>2, LeastNat
<1>4. \E i \in S : \A j \in S : off(i) <= off(j)
  BY <1>3
<1> QED BY <1>4 DEF First

\* affinity::choose returns a candidate other than from, or nothing.
LEMMA TwoPassSound ==
    ASSUME NEW m \in Nat, NEW from \in Int, NEW P, P \subseteq 0..(m - 1), NEW near
    PROVE  TwoPass(m, from, P, near) \in P \cup {None}
<1>1. CASE P = {}
  BY <1>1 DEF TwoPass
<1>2. CASE P # {}
  <2>0. PICK p \in P : p \in 0..(m - 1)
    BY <1>2
  <2>1. m \in Nat \ {0} /\ P \subseteq Int
    BY <2>0
  <2>2. CASE P \cap near # {}
    <3>1. First(m, from, P \cap near) \in P \cap near
      <4>1. P \cap near \subseteq Int
        BY <2>1
      <4> QED BY <2>1, <2>2, <4>1, FirstInSet
    <3> QED BY <2>2, <3>1 DEF TwoPass
  <2>3. CASE P \cap near = {}
    <3>1. First(m, from, P) \in P
      BY <2>1, <1>2, FirstInSet
    <3> QED BY <2>3, <1>2, <3>1 DEF TwoPass
  <2> QED BY <2>2, <2>3
<1> QED BY <1>1, <1>2

\* class::choose, whichever band order is in force, returns a pickable slot
\* that is not the one being left, or nothing.
LEMMA PickSound ==
    ASSUME TypeOK, NEW c \in Cores, NEW from \in Int
    PROVE  pick(c, from) \in (pickable(c) \ {from}) \cup {None}
<1> DEFINE band(k) == InBand(pickable(c), class, bands(picks[c])[k])
           found(k) == affinity_choose(n, from, band(k), sticky(c))
<1>1. n \in Nat /\ \A k \in 1..3 : band(k) \ {from} \subseteq 0..(n - 1)
  BY SlotsAssumption DEF TypeOK, InBand, pickable, Table
<1>2. \A k \in 1..3 : found(k) \in (band(k) \ {from}) \cup {None}
  BY <1>1, TwoPassSound DEF affinity_choose
<1>3. \A k \in 1..3 : band(k) \subseteq pickable(c)
  BY DEF InBand
<1>4. pick(c, from) = FirstFound(found(1), found(2), found(3))
  BY DEF pick, class_choose
<1> HIDE DEF found, band
<1> QED BY <1>2, <1>3, <1>4 DEF FirstFound

\* class::choose_first returns a pickable slot or nothing.
LEMMA PickIdleSound ==
    ASSUME TypeOK, NEW c \in Cores
    PROVE  pick_idle(c) \in pickable(c) \cup {None}
<1> DEFINE band(k) == InBand(pickable(c), class, bands(picks[c])[k])
           found(k) == affinity_choose_first(n, band(k), sticky(c))
<1>1. n \in Nat /\ \A k \in 1..3 : band(k) \subseteq 0..(n - 1)
  BY SlotsAssumption DEF TypeOK, InBand, pickable, Table
<1>2. \A k \in 1..3 : found(k) \in band(k) \cup {None}
  BY <1>1, TwoPassSound DEF affinity_choose_first
<1>3. \A k \in 1..3 : band(k) \subseteq pickable(c)
  BY DEF InBand
<1>4. pick_idle(c) = FirstFound(found(1), found(2), found(3))
  BY DEF pick_idle, class_choose_first
<1> HIDE DEF found, band
<1> QED BY <1>2, <1>3, <1>4 DEF FirstFound

\* The fairness phase stays in its range.
LEMMA AdvanceType ==
    ASSUME NEW p \in 0..(2 * FAIRNESS_EVERY - 1), NEW next
    PROVE  advance(p, next) \in 0..(2 * FAIRNESS_EVERY - 1)
<1>1. 2 * FAIRNESS_EVERY \in Nat \ {0} /\ p + 1 \in Nat
  BY FairnessAssumption
<1>2. \A a \in Nat, m \in Nat \ {0} : a % m \in 0..(m - 1)
  OBVIOUS
<1> QED BY <1>1, <1>2 DEF advance

-----------------------------------------------------------------------------
(* Preservation of the inductive invariant *)

\* Slots and spaces are never mistaken for None.
LEMMA NoneIsNothing == None \notin Slots /\ None \notin Spaces /\ None \notin Cores
BY SlotsAssumption, SpacesAssumption, CoresAssumption DEF None, Slots

\* What exit() leaves in dying: nothing, or the space no live task names.
LastOut(c, prev) ==
    \/ dying' = [dying EXCEPT ![c] = None]
    \/ /\ dying' = [dying EXCEPT ![c] = ttbr0[prev]]
       /\ \A t \in Table \ {prev} : ttbr0[t] = ttbr0[prev] => state[t] = "Dead"

\* The critical section every switch path shares: leaving prev in some state
\* and claiming next preserves the inductive invariant.
LEMMA TakeInv ==
    ASSUME IInv, NEW c \in Cores, NEW prev, prev = current[c],
           NEW left \in {"Ready", "Blocked", "Sleeping", "Dead"},
           NEW next \in (pickable(c) \ {prev}) \cup {None},
           pc[c] \notin Switching \cup {"settle"},
           take(c, prev, left, next), KeepRest,
           resume' = resume, need_resched' \in BOOLEAN,
           \/ dying' = dying
           \/ left = "Dead" /\ prev # None /\ LastOut(c, prev)
    PROVE  IInv'
<1> USE NoneIsNothing
<1>0. /\ TypeOK /\ TableShape /\ RunningIsCurrent /\ OnCpuIsHeld /\ HeldOnce
      /\ CoreShape /\ ContextSaved /\ StackHeld /\ SpacesInv /\ PinInv
  BY DEF IInv
<1>n. /\ n' = n /\ Table' = Table /\ n \in Nat /\ Table \subseteq Slots
      /\ wake_pending' = wake_pending /\ affinity' = affinity /\ class' = class
      /\ ttbr0' = ttbr0 /\ stack' = stack /\ ctx' = ctx /\ sp' = sp
      /\ active' = active /\ live' = live
  BY <1>0, SlotsAssumption DEF KeepRest, Table, TypeOK, Slots
<1>p. /\ prev \in Slots \cup {None}
      /\ prev # None => state[prev] = "Running" /\ on_cpu[prev] /\ prev \in Table
      /\ PREV[c] = None
      /\ dying[c] = None
  <2>1. prev \in Slots \cup {None}
    BY <1>0 DEF TypeOK
  <2>2. prev # None => state[prev] = "Running" /\ on_cpu[prev]
    BY <1>0, <2>1 DEF RunningIsCurrent, OnCpuIsHeld
  <2>3. prev # None => prev \in Table
    BY <1>0, <2>1, <2>2, SlotsAssumption DEF TableShape, Table, Slots, TypeOK
  <2>4. PREV[c] = None
    BY <1>0 DEF CoreShape
  <2>5. dying[c] = None
    BY <1>0 DEF SpacesInv
  <2> QED BY <2>1, <2>2, <2>3, <2>4, <2>5
<1>q. /\ next \in Slots \cup {None}
      /\ next # None => next # prev
      /\ next # None => /\ next \in Table /\ state[next] = "Ready"
                        /\ ~ on_cpu[next] /\ allows(affinity[next], c)
  BY <1>n DEF pickable
<1>t. /\ state' = [t \in Slots |-> IF t = next THEN "Running"
                                   ELSE IF t = prev THEN left ELSE state[t]]
      /\ last_cpu' = [t \in Slots |-> IF t = next THEN c ELSE last_cpu[t]]
      /\ current' = [current EXCEPT ![c] = next]
      /\ PREV' = [PREV EXCEPT ![c] = prev]
      /\ picks' = [picks EXCEPT ![c] = advance(@, next)]
      /\ pc' = [pc EXCEPT ![c] = "switch"]
  BY DEF take
<1>o. on_cpu' = [t \in Slots |-> t = next \/ on_cpu[t]]
  BY DEF take
<1>d. /\ dying' \in [Cores -> Spaces \cup {None}]
      /\ \A d \in Cores \ {c} : dying'[d] = dying[d]
      /\ dying'[c] # None =>
            /\ left = "Dead" /\ prev # None /\ dying'[c] = ttbr0[prev]
            /\ \A t \in Table \ {prev} : ttbr0[t] = ttbr0[prev] => state[t] = "Dead"
  <2>1. ttbr0 \in [Slots -> Spaces] /\ dying \in [Cores -> Spaces \cup {None}]
    BY <1>0 DEF TypeOK
  <2> QED BY <2>1, <1>p DEF LastOut
<1>1. TypeOK'
  <2>1. picks' \in [Cores -> 0..(2 * FAIRNESS_EVERY - 1)]
    BY <1>0, <1>t, AdvanceType DEF TypeOK
  <2>2. on_cpu' \in [Slots -> BOOLEAN]
    BY <1>o
  <2>3. state' \in [Slots -> States]
    BY <1>0, <1>t DEF TypeOK, States
  <2>4. pc' \in [Cores -> Phases]
    BY <1>0, <1>t DEF TypeOK, Phases
  <2>5. /\ last_cpu' \in [Slots -> Cores \cup {None}]
        /\ current' \in [Cores -> Slots \cup {None}]
        /\ PREV' \in [Cores -> Slots \cup {None}]
    <3>1. /\ last_cpu \in [Slots -> Cores \cup {None}]
          /\ current \in [Cores -> Slots \cup {None}]
          /\ PREV \in [Cores -> Slots \cup {None}]
      BY <1>0 DEF TypeOK
    <3>2. last_cpu' \in [Slots -> Cores \cup {None}]
      BY <3>1, <1>t
    <3>3. current' \in [Cores -> Slots \cup {None}]
      BY <3>1, <1>t, <1>q
    <3>4. PREV' \in [Cores -> Slots \cup {None}]
      BY <3>1, <1>t, <1>p
    <3> QED BY <3>2, <3>3, <3>4
  <2> QED BY <1>0, <1>n, <1>d, <2>1, <2>2, <2>3, <2>4, <2>5 DEF TypeOK
<1>2. TableShape'
  <2> SUFFICES ASSUME NEW t \in Slots
               PROVE  /\ t >= n <=> state'[t] = "Unborn"
                      /\ t >= n => /\ stack[t] = "none"
                                   /\ ~ on_cpu'[t] /\ ctx[t] = "saved"
                      /\ t < n => stack[t] # "none"
    BY <1>n DEF TableShape
  <2>1. /\ t >= n <=> state[t] = "Unborn"
        /\ t >= n => stack[t] = "none" /\ ~ on_cpu[t] /\ ctx[t] = "saved"
        /\ t < n => stack[t] # "none"
    BY <1>0 DEF TableShape
  <2>2. t \in {prev, next} => ~ (t >= n)
    BY <1>n, <1>p, <1>q DEF Table
  <2>3. state'[t] = "Unborn" <=> state[t] = "Unborn"
    BY <1>t, <2>1, <2>2
  <2>4. t >= n => ~ on_cpu'[t]
    BY <1>o, <2>1, <2>2
  <2> QED BY <2>1, <2>3, <2>4
<1>3. RunningIsCurrent'
  <2>1. current \in [Cores -> Slots \cup {None}]
    BY <1>0 DEF TypeOK
  <2>2. ASSUME NEW d \in Cores, current'[d] # None
        PROVE  state'[current'[d]] = "Running"
    <3>1. CASE d = c
      BY <2>1, <2>2, <3>1, <1>t, <1>q
    <3>2. CASE d # c
      BY <1>0, <2>1, <2>2, <3>2, <1>t, <1>p DEF RunningIsCurrent, HeldOnce
    <3> QED BY <3>1, <3>2
  <2>3. ASSUME NEW t \in Slots, state'[t] = "Running"
        PROVE  \E d \in Cores : current'[d] = t
    <3>1. CASE t = next
      BY <2>1, <3>1, <1>t
    <3>2. CASE t # next
      <4>1. t # prev /\ state[t] = "Running"
        BY <2>3, <3>2, <1>t
      <4>2. PICK d \in Cores : current[d] = t
        BY <1>0, <4>1 DEF RunningIsCurrent
      <4> QED BY <2>1, <4>1, <4>2, <1>t
    <3> QED BY <3>1, <3>2
  <2> QED BY <2>2, <2>3 DEF RunningIsCurrent
<1>4. OnCpuIsHeld'
  <2> SUFFICES ASSUME NEW t \in Slots
               PROVE on_cpu'[t] <=> \E d \in Cores : current'[d] = t \/ PREV'[d] = t
    BY DEF OnCpuIsHeld
  <2>1. on_cpu[t] <=> \E d \in Cores : current[d] = t \/ PREV[d] = t
    BY <1>0 DEF OnCpuIsHeld
  <2>2. current \in [Cores -> Slots \cup {None}] /\ PREV \in [Cores -> Slots \cup {None}]
    BY <1>0 DEF TypeOK
  <2> QED BY <2>1, <2>2, <1>t, <1>o, <1>p, <1>q
<1>5. HeldOnce'
  <2>1. next # None => \A d \in Cores : current[d] # next /\ PREV[d] # next
    BY <1>0, <1>q DEF OnCpuIsHeld
  <2>2. current \in [Cores -> Slots \cup {None}] /\ PREV \in [Cores -> Slots \cup {None}]
    BY <1>0 DEF TypeOK
  <2> QED BY <1>0, <2>1, <2>2, <1>t, <1>p, <1>q DEF HeldOnce
<1>6. CoreShape'
  BY <1>0, <1>n, <1>t, <1>p DEF CoreShape, TypeOK, Switching, Bootstrap
<1>7. ContextSaved'
  BY <1>0, <1>n DEF ContextSaved
<1>8. StackHeld'
  BY <1>0, <1>n, <1>t, <1>o, <1>p, <1>q DEF StackHeld
<1>9. SpacesInv'
  <2>1. \A t \in Table : state'[t] # "Dead" => ttbr0[t] \in live
    BY <1>0, <1>n, <1>t, <1>p, <1>q DEF SpacesInv
  <2>2. ASSUME NEW d \in Cores, dying'[d] # None
        PROVE  /\ pc'[d] \in Switching
               /\ dying'[d] \in live
               /\ \A t \in Table : ttbr0[t] = dying'[d] => state'[t] = "Dead"
               /\ \A e \in Cores \ {d} : dying'[e] # dying'[d]
    <3>1. CASE d = c
      <4>1. dying'[c] \in live
        BY <1>0, <1>d, <1>p, <3>1, <2>2 DEF SpacesInv
      <4>2. \A t \in Table : ttbr0[t] = dying'[c] => state'[t] = "Dead"
        BY <1>d, <1>n, <1>t, <1>q, <3>1, <2>2
      <4>3. \A e \in Cores \ {c} : dying'[e] # dying'[c]
        BY <1>0, <1>d, <1>p, <3>1, <2>2 DEF SpacesInv
      <4>4. pc'[c] \in Switching
        BY <1>0, <1>t DEF TypeOK, Switching
      <4> QED BY <3>1, <4>1, <4>2, <4>3, <4>4
    <3>2. CASE d # c
      <4>1. dying'[d] = dying[d] /\ dying[d] # None
        BY <1>d, <3>2, <2>2
      <4>2. /\ pc[d] \in Switching /\ dying[d] \in live
            /\ \A t \in Table : ttbr0[t] = dying[d] => state[t] = "Dead"
            /\ \A e \in Cores \ {d} : dying[e] # dying[d]
        BY <1>0, <4>1 DEF SpacesInv
      <4>3. pc'[d] = pc[d]
        BY <1>0, <1>t, <3>2 DEF TypeOK
      <4>4. \A t \in Table : ttbr0[t] = dying[d] => state'[t] = "Dead"
        BY <4>2, <1>n, <1>t, <1>p, <1>q
      <4>5. \A e \in Cores \ {d} : dying'[e] # dying'[d]
        BY <4>1, <4>2, <1>d, <1>p
      <4> QED BY <4>1, <4>2, <4>3, <4>4, <4>5
    <3> QED BY <3>1, <3>2
  <2>3. \A d \in Cores : pc'[d] \notin Bootstrap \cup {"switch"} /\ current'[d] # None
                            => active'[d] = ttbr0'[current'[d]]
    BY <1>0, <1>n, <1>t DEF SpacesInv, TypeOK
  <2> QED BY <2>1, <2>2, <2>3, <1>n DEF SpacesInv
<1>10. PinInv'
  BY <1>0, <1>n, <1>t, <1>q DEF PinInv, TypeOK
<1> QED BY <1>1, <1>2, <1>3, <1>4, <1>5, <1>6, <1>7, <1>8, <1>9, <1>10 DEF IInv

\* No task changes state except parked ones becoming Ready.
OnlyWakes ==
    /\ state' \in [Slots -> States]
    /\ \A t \in Slots : \/ state'[t] = state[t]
                         \/ /\ state[t] \in {"Blocked", "Sleeping"}
                            /\ state'[t] = "Ready"

\* Steps that claim nothing: they may wake parked tasks, change a core's
\* phase outside a switch, and change what only the policy reads.
LEMMA QuietInv ==
    ASSUME IInv, NEW c \in Cores, NEW w \in Phases, OnlyWakes,
           pc[c] \notin Switching \cup {"settle"}, w \notin Switching \cup {"settle"},
           w \in {"run", "migrate"} => current[c] # None,
           w \in Bootstrap => current[c] = None,
           affinity' \in [Slots -> SUBSET Cores],
           \A t \in Slots : t # current[c] => affinity'[t] = affinity[t],
           w # "migrate" /\ current[c] # None => allows(affinity'[current[c]], c),
           pc' = [pc EXCEPT ![c] = w],
           wake_pending' \in [Slots -> BOOLEAN], class' \in [Slots -> AllClasses],
           resume' \in [Slots -> {"user", "migrate"}],
           picks' \in [Cores -> 0..(2 * FAIRNESS_EVERY - 1)],
           need_resched' \in BOOLEAN,
           UNCHANGED <<n, on_cpu, last_cpu, ttbr0, stack, ctx, current, PREV,
                       sp, active, dying, live>>
    PROVE  IInv'
<1> USE NoneIsNothing DEF OnlyWakes
<1>0. /\ TypeOK /\ TableShape /\ RunningIsCurrent /\ OnCpuIsHeld /\ HeldOnce
      /\ CoreShape /\ ContextSaved /\ StackHeld /\ SpacesInv /\ PinInv
  BY DEF IInv
<1>n. Table' = Table /\ n \in Nat /\ Table \subseteq Slots
  BY <1>0, SlotsAssumption DEF Table, TypeOK, Slots
<1>c. current \in [Cores -> Slots \cup {None}] /\ pc \in [Cores -> Phases]
  BY <1>0 DEF TypeOK
<1>1. TypeOK'
  <2>1. state' \in [Slots -> States]
    BY <1>0 DEF TypeOK, States
  <2>2. pc' \in [Cores -> Phases]
    BY <1>c
  <2> QED BY <1>0, <2>1, <2>2 DEF TypeOK
<1>2. TableShape'
  BY <1>0 DEF TableShape
<1>3. RunningIsCurrent'
  BY <1>0, <1>c DEF RunningIsCurrent
<1>4. OnCpuIsHeld'
  BY <1>0 DEF OnCpuIsHeld
<1>5. HeldOnce'
  BY <1>0 DEF HeldOnce
<1>6. CoreShape'
  BY <1>0, <1>c DEF CoreShape
<1>7. ContextSaved'
  BY <1>0 DEF ContextSaved
<1>8. StackHeld'
  BY <1>0 DEF StackHeld
<1>9. SpacesInv'
  <2>1. \A t \in Table' : state'[t] # "Dead" => ttbr0'[t] \in live'
    BY <1>0, <1>n DEF SpacesInv
  <2>2. \A d \in Cores : dying'[d] # None =>
            /\ pc'[d] \in Switching
            /\ dying'[d] \in live'
            /\ \A t \in Table' : ttbr0'[t] = dying'[d] => state'[t] = "Dead"
            /\ \A e \in Cores \ {d} : dying'[e] # dying'[d]
    BY <1>0, <1>c, <1>n DEF SpacesInv
  <2>3. \A d \in Cores : pc'[d] \notin Bootstrap \cup {"switch"} /\ current'[d] # None
                            => active'[d] = ttbr0'[current'[d]]
    BY <1>0, <1>c DEF SpacesInv, CoreShape, Switching
  <2> QED BY ONLY <2>1, <2>2, <2>3 DEF SpacesInv
<1>10. PinInv'
  <2> SUFFICES ASSUME NEW d \in Cores, current[d] # None, pc'[d] # "migrate"
               PROVE  allows(affinity'[current[d]], d)
    BY DEF PinInv
  <2>1. CASE d = c
    BY <2>1, <1>c
  <2>2. CASE d # c
    BY <2>2, <1>0, <1>c DEF PinInv, HeldOnce
  <2> QED BY <2>1, <2>2
<1> QED BY <1>1, <1>2, <1>3, <1>4, <1>5, <1>6, <1>7, <1>8, <1>9, <1>10 DEF IInv

\* spawn_user and spawn_thread: the new slot is in nobody's hands.
LEMMA BornInv ==
    ASSUME IInv, n < MaxTasks, NEW s \in Spaces, Born(n, s),
           \/ live' = live /\ \E u \in Table : state[u] # "Dead" /\ ttbr0[u] = s
           \/ live' = live \cup {s} /\ s \notin live
    PROVE  IInv'
<1> USE NoneIsNothing
<1>0. /\ TypeOK /\ TableShape /\ RunningIsCurrent /\ OnCpuIsHeld /\ HeldOnce
      /\ CoreShape /\ ContextSaved /\ StackHeld /\ SpacesInv /\ PinInv
  BY DEF IInv
<1>n. /\ n \in Nat /\ n \in Slots /\ n' = n + 1 /\ Table \subseteq Slots
      /\ Table' = Table \cup {n} /\ n \notin Table
  BY <1>0, SlotsAssumption DEF Table, TypeOK, Slots, Born
<1>b. /\ state' = [state EXCEPT ![n] = "Ready"]
      /\ ttbr0' = [ttbr0 EXCEPT ![n] = s]
      /\ stack' = [stack EXCEPT ![n] = "owned"]
      /\ UNCHANGED <<wake_pending, on_cpu, affinity, class, last_cpu, ctx,
                     resume, current, picks, PREV, pc, sp, active, dying,
                     need_resched>>
  BY DEF Born, coreVars
<1>f. state[n] = "Unborn" /\ ~ on_cpu[n]
  BY <1>0, <1>n DEF TableShape
<1>T. /\ state \in [Slots -> States] /\ ttbr0 \in [Slots -> Spaces]
      /\ stack \in [Slots -> {"none", "owned", "freed"}]
      /\ current \in [Cores -> Slots \cup {None}]
  BY <1>0 DEF TypeOK
<1>1. TypeOK'
  <2>1. state' \in [Slots -> States]
    BY <1>T, <1>b DEF States
  <2>2. n' \in 0..MaxTasks
    BY <1>n, SlotsAssumption
  <2>3. live' \subseteq Spaces
    BY <1>0 DEF TypeOK
  <2> QED BY <1>0, <1>b, <1>T, <2>1, <2>2, <2>3 DEF TypeOK
<1>2. TableShape'
  BY <1>0, <1>n, <1>b, <1>T DEF TableShape, Slots
<1>r. \A c \in Cores : current[c] # n
  BY <1>0, <1>n, <1>f DEF OnCpuIsHeld
<1>3. RunningIsCurrent'
  BY <1>0, <1>b, <1>T, <1>r DEF RunningIsCurrent
<1>4. OnCpuIsHeld'
  BY <1>0, <1>b DEF OnCpuIsHeld
<1>5. HeldOnce'
  BY <1>0, <1>b DEF HeldOnce
<1>6. CoreShape'
  BY <1>0, <1>b DEF CoreShape
<1>7. ContextSaved'
  BY <1>0, <1>b DEF ContextSaved
<1>8. StackHeld'
  BY <1>0, <1>b, <1>T, <1>n DEF StackHeld
<1>9. SpacesInv'
  <2>1. \A t \in Table' : state'[t] # "Dead" => ttbr0'[t] \in live'
    BY <1>0, <1>n, <1>b, <1>T DEF SpacesInv
  <2>2. ASSUME NEW c \in Cores, dying[c] # None
        PROVE  /\ pc[c] \in Switching /\ dying[c] \in live'
               /\ \A t \in Table' : ttbr0'[t] = dying[c] => state'[t] = "Dead"
               /\ \A d \in Cores \ {c} : dying[d] # dying[c]
    <3>1. /\ pc[c] \in Switching /\ dying[c] \in live
          /\ \A t \in Table : ttbr0[t] = dying[c] => state[t] = "Dead"
          /\ \A d \in Cores \ {c} : dying[d] # dying[c]
      BY <1>0, <2>2 DEF SpacesInv
    <3>2. s # dying[c]
      BY <3>1
    <3> QED BY <3>1, <3>2, <1>n, <1>b, <1>T
  <2>3. \A c \in Cores : pc[c] \notin Bootstrap \cup {"switch"} /\ current[c] # None
                            => active[c] = ttbr0'[current[c]]
    BY <1>0, <1>b, <1>T, <1>r DEF SpacesInv
  <2> QED BY <2>1, <2>2, <2>3, <1>b DEF SpacesInv
<1>10. PinInv'
  BY <1>0, <1>b DEF PinInv
<1> QED BY <1>1, <1>2, <1>3, <1>4, <1>5, <1>6, <1>7, <1>8, <1>9, <1>10 DEF IInv

\* mmu::set_ttbr0: the core's translation root becomes its successor's.
LEMMA SetTtbr0Inv ==
    ASSUME IInv, NEW c \in Cores, SetTtbr0(c)
    PROVE  IInv'
<1> USE NoneIsNothing
<1>0. /\ TypeOK /\ TableShape /\ RunningIsCurrent /\ OnCpuIsHeld /\ HeldOnce
      /\ CoreShape /\ ContextSaved /\ StackHeld /\ SpacesInv /\ PinInv
  BY DEF IInv
<1>T. /\ current \in [Cores -> Slots \cup {None}] /\ pc \in [Cores -> Phases]
      /\ PREV \in [Cores -> Slots \cup {None}] /\ sp \in [Cores -> Slots \cup {None}]
      /\ active \in [Cores -> Spaces \cup {None}] /\ ttbr0 \in [Slots -> Spaces]
      /\ dying \in [Cores -> Spaces \cup {None}] /\ live \subseteq Spaces
      /\ ctx \in [Slots -> {"saved", "stale"}]
      /\ stack \in [Slots -> {"none", "owned", "freed"}]
      /\ n \in Nat /\ Table \subseteq Slots
  BY <1>0, SlotsAssumption DEF TypeOK, Table, Slots
<1>s. /\ pc[c] = "switch" /\ pc' = [pc EXCEPT ![c] = "ttbr"]
      /\ active' = [active EXCEPT ![c] = IF current[c] = None THEN None
                                         ELSE ttbr0[current[c]]]
      /\ UNCHANGED <<n, state, wake_pending, on_cpu, affinity, class, last_cpu,
                     ttbr0, stack, ctx, resume, current, picks, PREV, sp, dying,
                     live, need_resched>>
      /\ Table' = Table
  BY DEF SetTtbr0, Goto, taskVars, Table
<1>1. TypeOK'
  <2>1. pc' \in [Cores -> Phases] /\ active' \in [Cores -> Spaces \cup {None}]
    BY <1>s, <1>T DEF Phases
  <2> QED BY <1>0, <1>s, <2>1 DEF TypeOK
<1>2. TableShape'
  BY <1>0, <1>s DEF TableShape
<1>3. RunningIsCurrent'
  BY <1>0, <1>s DEF RunningIsCurrent
<1>4. OnCpuIsHeld'
  BY <1>0, <1>s DEF OnCpuIsHeld
<1>5. HeldOnce'
  BY <1>0, <1>s DEF HeldOnce
<1>6. CoreShape'
  BY <1>0, <1>s, <1>T DEF CoreShape, Switching, Bootstrap
<1>7. ContextSaved'
  BY <1>0, <1>s DEF ContextSaved
<1>8. StackHeld'
  BY <1>0, <1>s DEF StackHeld
<1>9. SpacesInv'
  BY <1>0, <1>s, <1>T DEF SpacesInv, Switching, Bootstrap
<1>10. PinInv'
  BY <1>0, <1>s, <1>T DEF PinInv
<1> QED BY <1>1, <1>2, <1>3, <1>4, <1>5, <1>6, <1>7, <1>8, <1>9, <1>10 DEF IInv

\* AddressSpace::destroy: nobody alive is left in the space it frees.
LEMMA DestroySpaceInv ==
    ASSUME IInv, NEW c \in Cores, DestroySpace(c)
    PROVE  IInv'
<1> USE NoneIsNothing
<1>0. /\ TypeOK /\ TableShape /\ RunningIsCurrent /\ OnCpuIsHeld /\ HeldOnce
      /\ CoreShape /\ ContextSaved /\ StackHeld /\ SpacesInv /\ PinInv
  BY DEF IInv
<1>T. /\ current \in [Cores -> Slots \cup {None}] /\ pc \in [Cores -> Phases]
      /\ PREV \in [Cores -> Slots \cup {None}] /\ sp \in [Cores -> Slots \cup {None}]
      /\ active \in [Cores -> Spaces \cup {None}] /\ ttbr0 \in [Slots -> Spaces]
      /\ dying \in [Cores -> Spaces \cup {None}] /\ live \subseteq Spaces
      /\ ctx \in [Slots -> {"saved", "stale"}]
      /\ stack \in [Slots -> {"none", "owned", "freed"}]
      /\ n \in Nat /\ Table \subseteq Slots
  BY <1>0, SlotsAssumption DEF TypeOK, Table, Slots
<1>s. /\ pc[c] = "ttbr" /\ dying[c] # None
      /\ live' = live \ {dying[c]} /\ dying' = [dying EXCEPT ![c] = None]
      /\ UNCHANGED <<n, state, wake_pending, on_cpu, affinity, class, last_cpu,
                     ttbr0, stack, ctx, resume, current, picks, PREV, pc, sp,
                     active, need_resched>>
      /\ Table' = Table
  BY DEF DestroySpace, taskVars, Table
<1>1. TypeOK'
  <2>1. dying' \in [Cores -> Spaces \cup {None}] /\ live' \subseteq Spaces
    BY <1>s, <1>T
  <2> QED BY <1>0, <1>s, <2>1 DEF TypeOK
<1>2. TableShape'
  BY <1>0, <1>s DEF TableShape
<1>3. RunningIsCurrent'
  BY <1>0, <1>s DEF RunningIsCurrent
<1>4. OnCpuIsHeld'
  BY <1>0, <1>s DEF OnCpuIsHeld
<1>5. HeldOnce'
  BY <1>0, <1>s DEF HeldOnce
<1>6. CoreShape'
  BY <1>0, <1>s DEF CoreShape
<1>7. ContextSaved'
  BY <1>0, <1>s DEF ContextSaved
<1>8. StackHeld'
  BY <1>0, <1>s DEF StackHeld
<1>9. SpacesInv'
  <2>1. \A t \in Table' : state'[t] # "Dead" => ttbr0'[t] \in live'
    BY <1>0, <1>s, <1>T DEF SpacesInv
  <2>2. \A d \in Cores : dying'[d] # None =>
            /\ pc'[d] \in Switching
            /\ dying'[d] \in live'
            /\ \A t \in Table' : ttbr0'[t] = dying'[d] => state'[t] = "Dead"
            /\ \A e \in Cores \ {d} : dying'[e] # dying'[d]
    BY <1>0, <1>s, <1>T DEF SpacesInv
  <2>3. \A d \in Cores : pc'[d] \notin Bootstrap \cup {"switch"} /\ current'[d] # None
                            => active'[d] = ttbr0'[current'[d]]
    BY <1>0, <1>s DEF SpacesInv
  <2> QED BY ONLY <2>1, <2>2, <2>3 DEF SpacesInv
<1>10. PinInv'
  BY <1>0, <1>s DEF PinInv
<1> QED BY <1>1, <1>2, <1>3, <1>4, <1>5, <1>6, <1>7, <1>8, <1>9, <1>10 DEF IInv

\* context_switch: the core steps from its predecessor's stack to its
\* successor's, and the predecessor's context becomes whole.
LEMMA ContextSwitchInv ==
    ASSUME IInv, NEW c \in Cores, ContextSwitch(c)
    PROVE  IInv'
<1> USE NoneIsNothing
<1>0. /\ TypeOK /\ TableShape /\ RunningIsCurrent /\ OnCpuIsHeld /\ HeldOnce
      /\ CoreShape /\ ContextSaved /\ StackHeld /\ SpacesInv /\ PinInv
  BY DEF IInv
<1>T. /\ current \in [Cores -> Slots \cup {None}] /\ pc \in [Cores -> Phases]
      /\ PREV \in [Cores -> Slots \cup {None}] /\ sp \in [Cores -> Slots \cup {None}]
      /\ active \in [Cores -> Spaces \cup {None}] /\ ttbr0 \in [Slots -> Spaces]
      /\ dying \in [Cores -> Spaces \cup {None}] /\ live \subseteq Spaces
      /\ ctx \in [Slots -> {"saved", "stale"}]
      /\ stack \in [Slots -> {"none", "owned", "freed"}]
      /\ n \in Nat /\ Table \subseteq Slots
  BY <1>0, SlotsAssumption DEF TypeOK, Table, Slots
<1>s. /\ pc[c] = "ttbr" /\ dying[c] = None
      /\ ctx' = [t \in Slots |-> IF t = current[c] THEN "stale"
                                 ELSE IF t = PREV[c] THEN "saved" ELSE ctx[t]]
      /\ sp' = [sp EXCEPT ![c] = current[c]]
      /\ pc' = [pc EXCEPT ![c] = "settle"]
      /\ UNCHANGED <<n, state, wake_pending, on_cpu, affinity, class, last_cpu,
                     ttbr0, stack, resume, current, picks, PREV, active, dying,
                     live, need_resched>>
      /\ Table' = Table
  BY DEF ContextSwitch, Goto, Table
<1>1. TypeOK'
  <2>1. /\ pc' \in [Cores -> Phases] /\ sp' \in [Cores -> Slots \cup {None}]
        /\ ctx' \in [Slots -> {"saved", "stale"}]
    BY <1>s, <1>T DEF Phases
  <2> QED BY <1>0, <1>s, <2>1 DEF TypeOK
<1>2. TableShape'
  <2>1. \A t \in Slots : t >= n => t # current[c]
    BY <1>0 DEF TableShape, OnCpuIsHeld
  <2> QED BY <1>0, <1>s, <2>1 DEF TableShape
<1>3. RunningIsCurrent'
  BY <1>0, <1>s DEF RunningIsCurrent
<1>4. OnCpuIsHeld'
  BY <1>0, <1>s DEF OnCpuIsHeld
<1>5. HeldOnce'
  BY <1>0, <1>s DEF HeldOnce
<1>6. CoreShape'
  BY <1>0, <1>s, <1>T DEF CoreShape, Switching, Bootstrap
<1>7. ContextSaved'
  <2> SUFFICES ASSUME NEW t \in Slots, ctx'[t] = "stale"
               PROVE  \E d \in Cores : sp'[d] = t
    BY DEF ContextSaved
  <2>1. CASE t = current[c]
    BY <2>1, <1>s, <1>T
  <2>2. CASE t # current[c]
    <3>1. t # PREV[c] /\ ctx[t] = "stale"
      BY <2>2, <1>s, <1>T
    <3>2. PICK d \in Cores : sp[d] = t
      BY <3>1, <1>0 DEF ContextSaved
    <3>3. sp[c] = PREV[c]
      BY <1>0, <1>s DEF CoreShape, Switching
    <3>4. d # c
      BY <3>1, <3>2, <3>3
    <3> QED BY <3>2, <3>4, <1>s, <1>T
  <2> QED BY <2>1, <2>2
<1>8. StackHeld'
  BY <1>0, <1>s DEF StackHeld
<1>9. SpacesInv'
  <2>1. \A t \in Table' : state'[t] # "Dead" => ttbr0'[t] \in live'
    BY <1>0, <1>s DEF SpacesInv
  <2>2. \A d \in Cores : dying'[d] # None =>
            /\ pc'[d] \in Switching
            /\ dying'[d] \in live'
            /\ \A t \in Table' : ttbr0'[t] = dying'[d] => state'[t] = "Dead"
            /\ \A e \in Cores \ {d} : dying'[e] # dying'[d]
    BY <1>0, <1>s, <1>T DEF SpacesInv
  <2>3. \A d \in Cores : pc'[d] \notin Bootstrap \cup {"switch"} /\ current'[d] # None
                            => active'[d] = ttbr0'[current'[d]]
    BY <1>0, <1>s, <1>T DEF SpacesInv, Bootstrap
  <2> QED BY ONLY <2>1, <2>2, <2>3 DEF SpacesInv
<1>10. PinInv'
  BY <1>0, <1>s, <1>T DEF PinInv
<1> QED BY <1>1, <1>2, <1>3, <1>4, <1>5, <1>6, <1>7, <1>8, <1>9, <1>10 DEF IInv

\* post_switch: the predecessor is in nobody's hands any more, so its on_cpu
\* may be cleared and, if it is Dead, its stack freed.
LEMMA PostSwitchInv ==
    ASSUME IInv, NEW c \in Cores, PostSwitch(c)
    PROVE  IInv'
<1> USE NoneIsNothing
<1>0. /\ TypeOK /\ TableShape /\ RunningIsCurrent /\ OnCpuIsHeld /\ HeldOnce
      /\ CoreShape /\ ContextSaved /\ StackHeld /\ SpacesInv /\ PinInv
  BY DEF IInv
<1>T. /\ current \in [Cores -> Slots \cup {None}] /\ pc \in [Cores -> Phases]
      /\ PREV \in [Cores -> Slots \cup {None}] /\ sp \in [Cores -> Slots \cup {None}]
      /\ active \in [Cores -> Spaces \cup {None}] /\ ttbr0 \in [Slots -> Spaces]
      /\ dying \in [Cores -> Spaces \cup {None}] /\ live \subseteq Spaces
      /\ ctx \in [Slots -> {"saved", "stale"}]
      /\ stack \in [Slots -> {"none", "owned", "freed"}]
      /\ n \in Nat /\ Table \subseteq Slots
  BY <1>0, SlotsAssumption DEF TypeOK, Table, Slots
<1>s. /\ pc[c] = "settle"
      /\ PREV' = [PREV EXCEPT ![c] = None]
      /\ stack' = [t \in Slots |->
                      IF t = PREV[c] /\ state[t] = "Dead" /\ stack[t] = "owned"
                      THEN "freed" ELSE stack[t]]
      /\ pc' = [pc EXCEPT ![c] = IF current[c] = None THEN "idle"
                                 ELSE IF resume[current[c]] = "migrate"
                                 THEN "migrate" ELSE "run"]
      /\ UNCHANGED <<n, state, wake_pending, affinity, class, last_cpu, ttbr0,
                     ctx, resume, current, picks, sp, active, dying, live,
                     need_resched>>
      /\ Table' = Table
  BY DEF PostSwitch, Goto, Table, reaps
<1>o. on_cpu' = [t \in Slots |-> on_cpu[t] /\ t # PREV[c]]
  BY DEF PostSwitch
<1>w. /\ pc'[c] \in {"idle", "migrate", "run"}
      /\ pc'[c] = "idle" <=> current[c] = None
      /\ \A d \in Cores \ {c} : pc'[d] = pc[d]
  BY <1>s, <1>T
<1>1. TypeOK'
  <2>1. /\ pc' \in [Cores -> Phases] /\ PREV' \in [Cores -> Slots \cup {None}]
        /\ stack' \in [Slots -> {"none", "owned", "freed"}]
    BY <1>s, <1>T DEF Phases
  <2>2. on_cpu' \in [Slots -> BOOLEAN]
    BY <1>o
  <2> QED BY <1>0, <1>s, <2>1, <2>2 DEF TypeOK
<1>2. TableShape'
  BY <1>0, <1>s, <1>o DEF TableShape
<1>3. RunningIsCurrent'
  BY <1>0, <1>s DEF RunningIsCurrent
<1>4. OnCpuIsHeld'
  <2> SUFFICES ASSUME NEW t \in Slots
               PROVE on_cpu'[t] <=> \E d \in Cores : current'[d] = t \/ PREV'[d] = t
    BY DEF OnCpuIsHeld
  <2>1. on_cpu[t] <=> \E d \in Cores : current[d] = t \/ PREV[d] = t
    BY <1>0 DEF OnCpuIsHeld
  <2>2. CASE t = PREV[c]
    <3>1. \A d \in Cores : current[d] # t /\ (d # c => PREV[d] # t)
      BY <1>0, <2>2, <1>T DEF HeldOnce
    <3> QED BY <2>2, <3>1, <1>s, <1>o, <1>T
  <2>3. CASE t # PREV[c]
    BY <2>1, <2>3, <1>s, <1>o, <1>T
  <2> QED BY <2>2, <2>3
<1>5. HeldOnce'
  BY <1>0, <1>s, <1>T DEF HeldOnce
<1>6. CoreShape'
  BY <1>0, <1>s, <1>w, <1>T DEF CoreShape, Switching, Bootstrap
<1>7. ContextSaved'
  BY <1>0, <1>s DEF ContextSaved
<1>8. StackHeld'
  BY <1>0, <1>s, <1>o, <1>T DEF StackHeld
<1>9. SpacesInv'
  <2>1. \A t \in Table' : state'[t] # "Dead" => ttbr0'[t] \in live'
    BY <1>0, <1>s DEF SpacesInv
  <2>2. \A d \in Cores : dying'[d] # None =>
            /\ pc'[d] \in Switching
            /\ dying'[d] \in live'
            /\ \A t \in Table' : ttbr0'[t] = dying'[d] => state'[t] = "Dead"
            /\ \A e \in Cores \ {d} : dying'[e] # dying'[d]
    BY <1>0, <1>s, <1>w DEF SpacesInv, Switching
  <2>3. \A d \in Cores : pc'[d] \notin Bootstrap \cup {"switch"} /\ current'[d] # None
                            => active'[d] = ttbr0'[current'[d]]
    BY <1>0, <1>s, <1>w DEF SpacesInv, Bootstrap
  <2> QED BY ONLY <2>1, <2>2, <2>3 DEF SpacesInv
<1>10. PinInv'
  BY <1>0, <1>s, <1>w DEF PinInv
<1> QED BY <1>1, <1>2, <1>3, <1>4, <1>5, <1>6, <1>7, <1>8, <1>9, <1>10 DEF IInv

-----------------------------------------------------------------------------
(* The theorems *)

LEMMA InitInv == Init => IInv
<1> SUFFICES ASSUME Init PROVE IInv
  OBVIOUS
<1> USE NoneIsNothing
<1>1. TypeOK
  <2>1. n \in 0..MaxTasks /\ live \subseteq Spaces
    BY SlotsAssumption, SpacesAssumption DEF Init
  <2>2. ttbr0 \in [Slots -> Spaces]
    BY SlotsAssumption, SpacesAssumption DEF Init, Slots
  <2>3. picks \in [Cores -> 0..(2 * FAIRNESS_EVERY - 1)]
    BY FairnessAssumption DEF Init
  <2> QED BY <2>1, <2>2, <2>3 DEF Init, TypeOK, States, Phases, AllClasses
<1>2. TableShape
  BY SlotsAssumption DEF Init, TableShape, Slots
<1>3. RunningIsCurrent /\ OnCpuIsHeld /\ HeldOnce /\ CoreShape /\ ContextSaved
  BY DEF Init, RunningIsCurrent, OnCpuIsHeld, HeldOnce, CoreShape,
         ContextSaved, Switching, Bootstrap
<1>4. StackHeld /\ PinInv
  BY DEF Init, StackHeld, PinInv
<1>5. SpacesInv
  BY SlotsAssumption DEF Init, SpacesInv, Table, Slots
<1> QED BY <1>1, <1>2, <1>3, <1>4, <1>5 DEF IInv

\* A wake-up is such a step.
LEMMA WakeIsQuiet ==
    ASSUME TypeOK, NEW t \in Table, NEW parked \in SUBSET {"Blocked", "Sleeping"},
           wake(t, parked)
    PROVE  OnlyWakes /\ wake_pending' \in [Slots -> BOOLEAN]
<1>1. /\ t \in Slots /\ state \in [Slots -> States]
      /\ wake_pending \in [Slots -> BOOLEAN]
  BY SlotsAssumption DEF TypeOK, Table, Slots
<1>2. state' = [state EXCEPT ![t] = IF state[t] \in parked THEN "Ready" ELSE state[t]]
  BY DEF wake
<1>3. wake_pending' \in [Slots -> BOOLEAN]
  BY <1>1 DEF wake
<1> QED BY <1>1, <1>2, <1>3 DEF OnlyWakes, States

\* So is one that leaves the table's states alone.
LEMMA SameIsQuiet == ASSUME TypeOK, state' = state PROVE OnlyWakes
BY DEF TypeOK, OnlyWakes

\* reschedule, whether it declines or switches.
LEMMA RescheduleInv ==
    ASSUME IInv, NEW c \in Cores, pc[c] \in {"run", "epi", "woke"},
           current[c] # None, NEW h \in BOOLEAN, reschedule(c, h),
           need_resched' \in BOOLEAN
    PROVE  IInv'
<1> DEFINE next == pick(c, current[c])
<1>0. TypeOK /\ PinInv
  BY DEF IInv
<1>1. next \in (pickable(c) \ {current[c]}) \cup {None}
  <2>1. current[c] \in Int
    BY <1>0, SlotsAssumption DEF TypeOK, Slots, None
  <2> QED BY <1>0, <2>1, PickSound
<1>2. pc[c] \notin Switching \cup {"settle"}
  BY DEF Switching
<1>3. CASE take(c, current[c], "Ready", next)
  <2>1. KeepRest /\ resume' = resume /\ dying' = dying
    BY DEF reschedule
  <2> QED BY <1>1, <1>2, <1>3, <2>1, TakeInv
<1>4. CASE ~ take(c, current[c], "Ready", next)
  <2>1. /\ picks' = [picks EXCEPT ![c] = advance(@, next)]
        /\ pc' = [pc EXCEPT ![c] = "run"]
        /\ UNCHANGED <<state, on_cpu, last_cpu, current, PREV>>
        /\ KeepRest /\ UNCHANGED <<resume, dying>>
    BY <1>4 DEF reschedule, Goto
  <2>2. picks' \in [Cores -> 0..(2 * FAIRNESS_EVERY - 1)]
    BY <2>1, <1>0, AdvanceType DEF TypeOK
  <2>3. OnlyWakes
    BY <2>1, <1>0, SameIsQuiet
  <2>4. allows(affinity[current[c]], c)
    BY <1>0 DEF PinInv
  <2>5. /\ wake_pending' \in [Slots -> BOOLEAN] /\ class' \in [Slots -> AllClasses]
        /\ affinity' \in [Slots -> SUBSET Cores] /\ affinity' = affinity
        /\ resume' \in [Slots -> {"user", "migrate"}]
    BY <2>1, <1>0 DEF KeepRest, TypeOK
  <2>6. UNCHANGED <<n, on_cpu, last_cpu, ttbr0, stack, ctx, current, PREV,
                    sp, active, dying, live>>
    BY <2>1 DEF KeepRest
  <2>7. /\ "run" \in Phases /\ "run" \notin Switching \cup {"settle"}
        /\ "run" \notin Bootstrap
    BY DEF Phases, Switching, Bootstrap
  <2>8. pc' = [pc EXCEPT ![c] = "run"]
    BY <2>1
  <2> HIDE DEF next
  <2> QED BY <1>2, <2>2, <2>3, <2>4, <2>5, <2>6, <2>7, <2>8, QuietInv
<1> QED BY <1>3, <1>4

\* Every step of a core's own that is not the tail of a switch.
LEMMA DispatchInv ==
    ASSUME IInv, NEW c \in Cores,
           \/ IdlePick(c) \/ IdleWait(c) \/ WakeExpired(c) \/ Preempt(c)
           \/ IrqReturn(c) \/ Migrate(c)
    PROVE  IInv'
<1> USE NoneIsNothing
<1>0. TypeOK /\ PinInv /\ CoreShape /\ n \in Nat /\ current[c] \in Int
      /\ need_resched \in BOOLEAN
  BY SlotsAssumption DEF IInv, TypeOK, Slots, None
<1>p. pick(c, current[c]) \in (pickable(c) \ {current[c]}) \cup {None}
  BY <1>0, PickSound
<1>t. /\ wake_pending \in [Slots -> BOOLEAN] /\ class \in [Slots -> AllClasses]
      /\ affinity \in [Slots -> SUBSET Cores]
      /\ resume \in [Slots -> {"user", "migrate"}]
      /\ picks \in [Cores -> 0..(2 * FAIRNESS_EVERY - 1)]
      /\ state \in [Slots -> States]
      /\ current[c] # None => current[c] \in Slots
  BY <1>0 DEF TypeOK
<1>1. CASE IdlePick(c)
  <2>1. current[c] = None /\ pc[c] \notin Switching \cup {"settle"}
    BY <1>0, <1>1 DEF IdlePick, CoreShape, Bootstrap, Switching
  <2>2. pick_idle(c) \in (pickable(c) \ {None}) \cup {None}
    BY <1>0, PickIdleSound
  <2>3. /\ take(c, None, "Ready", pick_idle(c)) /\ KeepRest
        /\ resume' = resume /\ dying' = dying /\ need_resched' \in BOOLEAN
    BY <1>0, <1>1 DEF IdlePick
  <2> QED BY <2>1, <2>2, <2>3, TakeInv
<1>2. CASE IdleWait(c)
  <2>1. /\ current[c] = None /\ pc[c] \notin Switching \cup {"settle"}
        /\ "wfi" \in Phases \ (Switching \cup {"settle"})
    BY <1>0, <1>2 DEF IdleWait, CoreShape, Bootstrap, Switching, Phases
  <2>2. /\ OnlyWakes /\ pc' = [pc EXCEPT ![c] = "wfi"] /\ affinity' = affinity
        /\ UNCHANGED <<wake_pending, class, resume, picks, need_resched>>
        /\ UNCHANGED <<n, on_cpu, last_cpu, ttbr0, stack, ctx, current, PREV,
                       sp, active, dying, live>>
    BY <1>0, <1>2, SameIsQuiet DEF IdleWait, Goto, taskVars
  <2> QED BY <1>0, <1>t, <2>1, <2>2, QuietInv
<1>3. CASE WakeExpired(c)
  <2>1. PICK late \in SUBSET {t \in Table : state[t] = "Sleeping"} :
            /\ pc[c] = "irq"
            /\ state' = [t \in Slots |-> IF t \in late THEN "Ready" ELSE state[t]]
            /\ pc' = [pc EXCEPT ![c] = IF late = {} THEN "epi" ELSE "woke"]
            /\ UNCHANGED <<n, wake_pending, on_cpu, affinity, class, last_cpu,
                           ttbr0, stack, ctx, resume, current, picks, PREV, sp,
                           active, dying, live, need_resched>>
    BY <1>3 DEF WakeExpired, Goto
  <2>2. OnlyWakes
    BY <2>1, <1>t DEF OnlyWakes, States
  <2>3. PICK w \in {"epi", "woke"} : pc' = [pc EXCEPT ![c] = w]
    BY <2>1
  <2>4. /\ w \in Phases /\ w \notin Switching \cup {"settle"} /\ w \notin Bootstrap
        /\ pc[c] \notin Switching \cup {"settle"} /\ w \notin {"run", "migrate"}
    BY <2>1 DEF Phases, Switching, Bootstrap
  <2>5. current[c] # None => allows(affinity'[current[c]], c)
    BY <2>1, <1>0 DEF PinInv
  <2>6. UNCHANGED <<n, on_cpu, last_cpu, ttbr0, stack, ctx, current, PREV,
                    sp, active, dying, live>>
    BY <2>1
  <2>7. /\ affinity' = affinity
        /\ UNCHANGED <<wake_pending, class, resume, picks, need_resched>>
    BY <2>1
  <2> QED BY <1>0, <1>t, <2>2, <2>3, <2>4, <2>5, <2>6, <2>7, QuietInv
<1>4. CASE Preempt(c)
  <2>1. /\ reschedule(c, TRUE) /\ need_resched' \in BOOLEAN
        /\ pc[c] \in {"run", "epi", "woke"} /\ current[c] # None
    BY <1>4 DEF Preempt
  <2> QED BY <2>1, RescheduleInv
<1>5. CASE IrqReturn(c)
  <2>1. PICK w \in {"idle", "run"} : /\ pc' = [pc EXCEPT ![c] = w]
                                     /\ w = "idle" <=> current[c] = None
    BY <1>5 DEF IrqReturn, Goto
  <2>2. /\ w \in Phases /\ w \notin Switching \cup {"settle"} /\ w # "migrate"
        /\ w \in Bootstrap => w = "idle"
        /\ pc[c] \notin Switching \cup {"settle"} /\ pc[c] # "migrate"
    BY <1>5 DEF Phases, Switching, Bootstrap, IrqReturn
  <2>3. /\ OnlyWakes /\ affinity' = affinity /\ need_resched' \in BOOLEAN
        /\ UNCHANGED <<wake_pending, class, resume, picks>>
        /\ UNCHANGED <<n, on_cpu, last_cpu, ttbr0, stack, ctx, current, PREV,
                       sp, active, dying, live>>
    BY <1>0, <1>5, SameIsQuiet DEF IrqReturn, taskVars
  <2>4. current[c] # None => allows(affinity'[current[c]], c)
    BY <2>2, <2>3, <1>0 DEF PinInv
  <2> QED BY <1>t, <2>1, <2>2, <2>3, <2>4, QuietInv
<1>6. CASE Migrate(c)
  <2>1. /\ pc[c] = "migrate" /\ current[c] # None /\ KeepRest
        /\ dying' = dying /\ need_resched' = need_resched
        /\ pc[c] \notin Switching \cup {"settle"}
        /\ "run" \in Phases /\ "run" \notin Switching \cup {"settle"}
        /\ "run" \notin Bootstrap
    BY <1>0, <1>6 DEF Migrate, CoreShape, Switching, Phases, Bootstrap
  <2>2. CASE allows(affinity[current[c]], c)
    <3>1. /\ resume' = [resume EXCEPT ![current[c]] = "user"]
          /\ pc' = [pc EXCEPT ![c] = "run"]
          /\ UNCHANGED <<state, on_cpu, last_cpu, current, PREV, picks>>
      BY <1>6, <2>2 DEF Migrate, Goto
    <3>2. /\ OnlyWakes /\ resume' \in [Slots -> {"user", "migrate"}]
          /\ affinity' = affinity /\ UNCHANGED <<wake_pending, class>>
          /\ UNCHANGED <<n, on_cpu, last_cpu, ttbr0, stack, ctx, current, PREV,
                         sp, active, dying, live>>
      BY <1>0, <1>t, <2>1, <3>1, SameIsQuiet DEF KeepRest
    <3> QED BY <1>0, <1>t, <2>1, <2>2, <3>1, <3>2, QuietInv
  <2>3. CASE ~ allows(affinity[current[c]], c)
    <3>1. take(c, current[c], "Ready", pick(c, current[c])) /\ resume' = resume
      BY <1>6, <2>3 DEF Migrate
    <3> QED BY <1>0, <1>p, <2>1, <3>1, TakeInv
  <2> QED BY <2>2, <2>3
<1> QED BY <1>1, <1>2, <1>3, <1>4, <1>5, <1>6

\* Every step a program in user mode takes.
LEMMA ProgramInv ==
    ASSUME IInv, NEW c \in Cores, Program(c)
    PROVE  IInv'
<1> USE NoneIsNothing
<1>0. TypeOK /\ PinInv /\ CoreShape /\ RunningIsCurrent /\ TableShape /\ SpacesInv
  BY DEF IInv
<1>u. /\ pc[c] = "run" /\ current[c] # None
      /\ pc[c] \notin Switching \cup {"settle"}
      /\ "run" \in Phases /\ "run" \notin Bootstrap
      /\ "migrate" \in Phases \ (Switching \cup {"settle"} \cup Bootstrap)
  <2>1. pc[c] = "run"
    BY DEF Program, Yield, Exit, SpawnThread, Park, Unblock, SetClass,
           SetAffinity, SpawnUser, User
  <2> QED BY <2>1, <1>0 DEF CoreShape, Switching, Bootstrap, Phases
<1>c. /\ current[c] \in Slots /\ current[c] \in Int /\ n \in 0..MaxTasks
      /\ need_resched \in BOOLEAN /\ pc \in [Cores -> Phases]
      /\ ttbr0 \in [Slots -> Spaces]
  BY <1>0, <1>u, SlotsAssumption DEF TypeOK, Slots, None
<1>r. state[current[c]] = "Running" /\ current[c] \in Table
  <2>1. state[current[c]] = "Running"
    BY <1>0, <1>u DEF RunningIsCurrent
  <2> QED BY <2>1, <1>0, <1>c, SlotsAssumption DEF TableShape, Table, Slots
<1>p. pick(c, current[c]) \in (pickable(c) \ {current[c]}) \cup {None}
  BY <1>0, <1>c, PickSound
<1>t. /\ wake_pending \in [Slots -> BOOLEAN] /\ class \in [Slots -> AllClasses]
      /\ affinity \in [Slots -> SUBSET Cores]
      /\ resume \in [Slots -> {"user", "migrate"}]
      /\ picks \in [Cores -> 0..(2 * FAIRNESS_EVERY - 1)]
      /\ state \in [Slots -> States]
  BY <1>0 DEF TypeOK
<1>a. allows(affinity[current[c]], c)
  BY <1>0, <1>u DEF PinInv
<1>s. pc' = pc => pc' = [pc EXCEPT ![c] = "run"]
  BY <1>c, <1>u
<1>1. CASE Yield(c)
  BY <1>1, <1>u, <1>c, RescheduleInv DEF Yield
<1>2. CASE Exit(c)
  <2>1. /\ take(c, current[c], "Dead", pick(c, current[c])) /\ KeepRest
        /\ resume' = resume /\ need_resched' \in BOOLEAN
    BY <1>2, <1>c DEF Exit
  <2>2. LastOut(c, current[c])
    BY <1>2 DEF Exit, LastOut, shared
  <2> QED BY <1>u, <1>p, <2>1, <2>2, TakeInv
<1>3. CASE SpawnThread(c)
  <2>1. /\ n < MaxTasks /\ Born(n, ttbr0[current[c]]) /\ live' = live
        /\ ttbr0[current[c]] \in Spaces
    BY <1>3, <1>c DEF SpawnThread
  <2> QED BY <1>r, <2>1, BornInv
<1>4. CASE \E s \in Spaces : SpawnUser(c, s)
  <2>1. PICK s \in Spaces : SpawnUser(c, s)
    BY <1>4
  <2>2. n < MaxTasks /\ Born(n, s) /\ live' = live \cup {s} /\ s \notin live
    BY <2>1 DEF SpawnUser
  <2> QED BY <2>2, BornInv
<1>5. CASE \E parked \in Parks : Park(c, parked)
  <2>1. PICK parked \in {"Blocked", "Sleeping"} : Park(c, parked)
    BY <1>5, ParksAssumption
  <2>2. CASE wake_pending[current[c]]
    <3>1. /\ wake_pending' = [wake_pending EXCEPT ![current[c]] = FALSE]
          /\ UNCHANGED <<n, state, on_cpu, affinity, class, last_cpu, ttbr0,
                         stack, ctx, coreVars, live, resume, need_resched>>
      BY <2>1, <2>2 DEF Park
    <3>2. /\ OnlyWakes /\ affinity' = affinity
          /\ UNCHANGED <<class, resume, picks, pc, need_resched>>
          /\ UNCHANGED <<n, on_cpu, last_cpu, ttbr0, stack, ctx, current, PREV,
                         sp, active, dying, live>>
          /\ wake_pending' \in [Slots -> BOOLEAN]
      BY <1>0, <1>t, <3>1, SameIsQuiet DEF coreVars
    <3> QED BY <1>u, <1>c, <1>t, <1>a, <1>s, <3>2, QuietInv
  <2>3. CASE ~ wake_pending[current[c]]
    <3>1. /\ take(c, current[c], parked, pick(c, current[c])) /\ KeepRest
          /\ dying' = dying /\ resume' = resume /\ need_resched' \in BOOLEAN
      BY <2>1, <2>3, <1>c DEF Park
    <3> QED BY <1>u, <1>p, <3>1, TakeInv
  <2> QED BY <2>2, <2>3
<1>6. CASE \E t \in Slots : Unblock(c, t)
  <2>1. PICK t \in Slots : Unblock(c, t)
    BY <1>6
  <2>2. t \in Table /\ \E parked \in SUBSET {"Blocked", "Sleeping"} : wake(t, parked)
    BY <2>1 DEF Unblock, unblock, deliver
  <2>3. OnlyWakes /\ wake_pending' \in [Slots -> BOOLEAN]
    BY <1>0, <2>2, WakeIsQuiet
  <2>4. /\ affinity' = affinity /\ need_resched' \in BOOLEAN
        /\ UNCHANGED <<class, resume, picks, pc>>
        /\ UNCHANGED <<n, on_cpu, last_cpu, ttbr0, stack, ctx, current, PREV,
                       sp, active, dying, live>>
    BY <2>1, <1>c DEF Unblock, coreVars
  <2> QED BY <1>u, <1>c, <1>t, <1>a, <1>s, <2>3, <2>4, QuietInv
<1>7. CASE \E k \in Classes : SetClass(c, k)
  <2>1. PICK k \in Classes : SetClass(c, k)
    BY <1>7
  <2>2. class' \in [Slots -> AllClasses]
    BY <2>1, <1>t, ClassesAssumption DEF SetClass
  <2>3. /\ OnlyWakes /\ affinity' = affinity
        /\ UNCHANGED <<wake_pending, resume, picks, pc, need_resched>>
        /\ UNCHANGED <<n, on_cpu, last_cpu, ttbr0, stack, ctx, current, PREV,
                       sp, active, dying, live>>
    BY <1>0, <2>1, SameIsQuiet DEF SetClass, coreVars
  <2> QED BY <1>u, <1>c, <1>t, <1>a, <1>s, <2>2, <2>3, QuietInv
<1>8. CASE \E mask \in Masks : SetAffinity(c, mask)
  <2>1. PICK mask \in Masks : SetAffinity(c, mask)
    BY <1>8
  <2>2. /\ affinity' \in [Slots -> SUBSET Cores]
        /\ resume' \in [Slots -> {"user", "migrate"}]
        /\ \A t \in Slots : t # current[c] => affinity'[t] = affinity[t]
        /\ pc' = [pc EXCEPT ![c] = "migrate"]
    BY <2>1, <1>t, <1>c, MasksAssumption DEF SetAffinity, Goto
  <2>3. /\ OnlyWakes
        /\ UNCHANGED <<wake_pending, class, picks, need_resched>>
        /\ UNCHANGED <<n, on_cpu, last_cpu, ttbr0, stack, ctx, current, PREV,
                       sp, active, dying, live>>
    BY <1>0, <2>1, SameIsQuiet DEF SetAffinity
  <2> QED BY <1>u, <1>c, <1>t, <2>2, <2>3, QuietInv
<1> QED BY <1>1, <1>2, <1>3, <1>4, <1>5, <1>6, <1>7, <1>8 DEF Program

\* Interrupts, and the primary leaving its loop.
LEMMA InterruptInv ==
    ASSUME IInv, NEW c \in Cores, Interrupt(c) \/ Stop
    PROVE  IInv'
<1> USE NoneIsNothing
<1>0. TypeOK /\ PinInv /\ CoreShape
  BY DEF IInv
<1>t. /\ wake_pending \in [Slots -> BOOLEAN] /\ class \in [Slots -> AllClasses]
      /\ affinity \in [Slots -> SUBSET Cores]
      /\ resume \in [Slots -> {"user", "migrate"}]
      /\ picks \in [Cores -> 0..(2 * FAIRNESS_EVERY - 1)]
      /\ need_resched \in BOOLEAN
  BY <1>0 DEF TypeOK
<1>w. /\ {"irq", "done"} \subseteq Phases \ (Switching \cup {"settle"})
      /\ "irq" \notin Bootstrap
  BY DEF Phases, Switching, Bootstrap
<1>1. CASE Interrupt(c)
  <2>1. /\ pc[c] \in {"run", "wfi"} /\ pc' = [pc EXCEPT ![c] = "irq"]
        /\ need_resched' \in BOOLEAN
        /\ affinity' = affinity /\ UNCHANGED <<class, resume, picks>>
        /\ UNCHANGED <<n, on_cpu, last_cpu, ttbr0, stack, ctx, current, PREV,
                       sp, active, dying, live>>
    BY <1>1, <1>t DEF Interrupt, Irq, QuietIrq, DeviceIrq, Goto, taskVars
  <2>2. OnlyWakes /\ wake_pending' \in [Slots -> BOOLEAN]
    <3>1. CASE Irq(c) \/ QuietIrq(c)
      BY <3>1, <1>0, <1>t, SameIsQuiet DEF Irq, QuietIrq, taskVars
    <3>2. CASE \E t \in Slots : DeviceIrq(c, t)
      <4>1. PICK t \in Table : wake(t, {"Blocked", "Sleeping"})
        BY <3>2 DEF DeviceIrq, unblock
      <4> QED BY <4>1, <1>0, WakeIsQuiet
    <3> QED BY <1>1, <3>1, <3>2 DEF Interrupt
  <2>3. current[c] # None => allows(affinity'[current[c]], c)
    BY <1>0, <2>1 DEF PinInv
  <2>4. pc[c] \notin Switching \cup {"settle"}
    BY <2>1 DEF Switching
  <2> QED BY <1>t, <1>w, <2>1, <2>2, <2>3, <2>4, QuietInv
<1>2. CASE Stop
  <2>1. /\ Primary \in Cores /\ current[Primary] = None
        /\ pc[Primary] \notin Switching \cup {"settle"}
    BY <1>0, <1>2, CoresAssumption DEF Stop, CoreShape, Bootstrap, Switching
  <2>2. /\ OnlyWakes /\ pc' = [pc EXCEPT ![Primary] = "done"] /\ affinity' = affinity
        /\ UNCHANGED <<wake_pending, class, resume, picks, need_resched>>
        /\ UNCHANGED <<n, on_cpu, last_cpu, ttbr0, stack, ctx, current, PREV,
                       sp, active, dying, live>>
    BY <1>0, <1>2, SameIsQuiet DEF Stop, Goto, taskVars
  <2> QED BY <1>t, <1>w, <2>1, <2>2, QuietInv
<1> QED BY <1>1, <1>2

\* The invariant is inductive: every step of the scheduler preserves it.
LEMMA NextInv == IInv /\ [Next]_vars => IInv'
<1> SUFFICES ASSUME IInv, [Next]_vars PROVE IInv'
  OBVIOUS
<1>1. CASE UNCHANGED vars
  BY <1>1 DEF vars, taskVars, coreVars, IInv, TypeOK, TableShape,
     RunningIsCurrent, OnCpuIsHeld, HeldOnce, CoreShape, ContextSaved,
     StackHeld, SpacesInv, PinInv, Table
<1>2. CASE Stop
  BY <1>2, InterruptInv, CoresAssumption
<1>3. ASSUME NEW c \in Cores, Dispatch(c) PROVE IInv'
  BY <1>3, DispatchInv, SetTtbr0Inv, DestroySpaceInv, ContextSwitchInv,
     PostSwitchInv DEF Dispatch
<1>4. ASSUME NEW c \in Cores, Program(c) PROVE IInv'
  BY <1>4, ProgramInv
<1>5. ASSUME NEW c \in Cores, Interrupt(c) PROVE IInv'
  BY <1>5, InterruptInv
<1> QED BY <1>1, <1>2, <1>3, <1>4, <1>5 DEF Next

\* The inductive invariant holds in every reachable state.
THEOREM Inductive == Spec => []IInv
BY InitInv, NextInv, PTL DEF Spec

\* Every variable keeps its type; in particular Scheduler::picks never
\* leaves the phase cycle advance() wraps at.
THEOREM Typed == Spec => []TypeOK
<1>1. IInv => TypeOK
  BY DEF IInv
<1> QED BY <1>1, Inductive, PTL

\* No task is ever current on two cores, and no two cores ever stand on the
\* same kernel stack (Task::on_cpu and the scan that respects it).
THEOREM RunsOnce == Spec => []NoDoubleRun
<1>1. IInv => NoDoubleRun
  <2> HAVE IInv
  <2>1. HeldOnce /\ CoreShape
    BY DEF IInv
  <2>2. ASSUME NEW c \in Cores, NEW d \in Cores, c # d
        PROVE  /\ current[c] = current[d] => current[c] = None
               /\ sp[c] = sp[d] => sp[c] = None
    <3>1. /\ sp[c] \in {PREV[c], current[c]} /\ sp[d] \in {PREV[d], current[d]}
      BY <2>1 DEF CoreShape
    <3> QED BY <2>1, <2>2, <3>1 DEF HeldOnce
  <2> QED BY <2>2 DEF NoDoubleRun
<1> QED BY <1>1, Inductive, PTL

\* A core never switches to a context that its previous core is still saving
\* (Scheduler::pickable).
THEOREM ContextsSaved == Spec => []NoStaleContext
<1>1. IInv => NoStaleContext
  <2> HAVE IInv
  <2>1. TypeOK /\ HeldOnce /\ CoreShape /\ ContextSaved
    BY DEF IInv
  <2>2. ASSUME NEW c \in Cores, pc[c] \in {"switch", "ttbr"}, current[c] # None
        PROVE  ctx[current[c]] = "saved"
    <3>1. current[c] \in Slots /\ ctx[current[c]] \in {"saved", "stale"}
      BY <2>1, <2>2 DEF TypeOK
    <3>2. \A d \in Cores : sp[d] # current[c]
      <4> TAKE d \in Cores
      <4>1. sp[d] = IF pc[d] \in Switching THEN PREV[d] ELSE current[d]
        BY <2>1 DEF CoreShape
      <4>2. PREV[d] # current[c] /\ (d # c => current[d] # current[c])
        BY <2>1, <2>2 DEF HeldOnce
      <4>3. pc[c] \in Switching
        BY <2>2 DEF Switching
      <4> QED BY <4>1, <4>2, <4>3
    <3> QED BY <2>1, <3>1, <3>2 DEF ContextSaved
  <2> QED BY <2>2 DEF NoStaleContext
<1> QED BY <1>1, Inductive, PTL

\* No core stands on a kernel stack that post_switch has given back.
THEOREM StacksHeld == Spec => []NoFreedStack
<1>1. IInv => NoFreedStack
  <2> HAVE IInv
  <2>1. TypeOK /\ OnCpuIsHeld /\ CoreShape /\ StackHeld /\ TableShape
    BY DEF IInv
  <2>2. ASSUME NEW c \in Cores, sp[c] # None PROVE stack[sp[c]] = "owned"
    <3>1. /\ sp[c] \in Slots /\ sp[c] \in {PREV[c], current[c]}
          /\ stack[sp[c]] \in {"none", "owned", "freed"} /\ n \in Nat
      BY <2>1, <2>2, SlotsAssumption DEF TypeOK, CoreShape
    <3>2. on_cpu[sp[c]]
      BY <2>1, <3>1 DEF OnCpuIsHeld
    <3>3. stack[sp[c]] # "freed"
      BY <2>1, <3>1, <3>2 DEF StackHeld
    <3>4. stack[sp[c]] # "none"
      BY <2>1, <3>1, <3>2 DEF TableShape, Slots
    <3> QED BY <3>1, <3>3, <3>4
  <2> QED BY <2>2 DEF NoFreedStack
<1> QED BY <1>1, Inductive, PTL

\* A core in user mode is in the live address space of its own task: no exit
\* of a sibling thread takes it away.
THEOREM SpacesHeld == Spec => []SpaceOfRunner
<1>1. IInv => SpaceOfRunner
  <2> HAVE IInv
  <2>1. TypeOK /\ RunningIsCurrent /\ CoreShape /\ SpacesInv /\ TableShape
    BY DEF IInv
  <2>2. ASSUME NEW c \in Cores, User(c)
        PROVE  active[c] = ttbr0[current[c]] /\ active[c] \in live
    <3>1. /\ pc[c] \notin Bootstrap \cup {"switch"} /\ current[c] # None
          /\ current[c] \in Slots /\ state[current[c]] = "Running"
      BY <2>1, <2>2 DEF User, CoreShape, Bootstrap, RunningIsCurrent, TypeOK
    <3>2. current[c] \in Table
      BY <2>1, <3>1, SlotsAssumption DEF TableShape, Table, Slots, TypeOK
    <3> QED BY <2>1, <3>1, <3>2 DEF SpacesInv
  <2> QED BY <2>2 DEF SpaceOfRunner
<1> QED BY <1>1, Inductive, PTL

\* A pinned task is in user mode only on a core its mask allows.
THEOREM PinsHeld == Spec => []RunsWherePinned
<1>1. IInv => RunsWherePinned
  <2> HAVE IInv
  <2>1. CoreShape /\ PinInv
    BY DEF IInv
  <2> QED BY <2>1 DEF RunsWherePinned, User, CoreShape, PinInv
<1> QED BY <1>1, Inductive, PTL

\* A Dead task never becomes anything else and its stack, once freed, is
\* never freed again: wake-ups leave it alone and no picker returns it.
THEOREM DeadForGood == Spec => DeadStaysDead
<1>1. ASSUME IInv, [Next]_vars, NEW t \in Slots, state[t] = "Dead"
      PROVE  state'[t] = "Dead" /\ (stack[t] = "freed" => stack'[t] = "freed")
  <2>0. TypeOK /\ RunningIsCurrent /\ CoreShape /\ TableShape
    BY <1>1 DEF IInv
  <2>1. /\ state \in [Slots -> States] /\ stack \in [Slots -> {"none", "owned", "freed"}]
        /\ t \notin {current[c] : c \in Cores} /\ t # n
        /\ \A c \in Cores : current[c] \in Int /\ t \notin pickable(c)
    <3>1. /\ state \in [Slots -> States] /\ stack \in [Slots -> {"none", "owned", "freed"}]
          /\ \A c \in Cores : current[c] \in Slots \cup {None}
          /\ n \in Nat /\ Slots \subseteq Int /\ None \in Int /\ None \notin Slots
      BY <2>0, SlotsAssumption, NoneIsNothing DEF TypeOK, Slots, None
    <3>2. t # n
      BY <1>1, <2>0, <3>1 DEF TableShape
    <3>3. \A c \in Cores : current[c] # t
      BY <1>1, <2>0, <3>1 DEF RunningIsCurrent
    <3>4. \A c \in Cores : t \notin pickable(c)
      BY <1>1 DEF pickable
    <3> QED BY <3>1, <3>2, <3>3, <3>4
  <2>2. ASSUME NEW c \in Cores, NEW prev, prev = current[c] \/ prev = None,
               NEW left, NEW next \in pickable(c) \cup {None},
               take(c, prev, left, next), stack' = stack
        PROVE  state'[t] = "Dead" /\ stack' = stack
    BY <2>1, <2>2, <1>1, NoneIsNothing DEF take
  <2>3. \A c \in Cores : /\ pick(c, current[c]) \in pickable(c) \cup {None}
                         /\ pick_idle(c) \in pickable(c) \cup {None}
    BY <2>0, <2>1, PickSound, PickIdleSound
  <2>4. CASE state' = state /\ stack' = stack
    BY <2>4, <1>1
  <2>5. CASE OnlyWakes /\ stack' = stack
    BY <2>5, <1>1 DEF OnlyWakes
  <2>6. CASE UNCHANGED vars \/ Stop
    BY <2>4, <2>6 DEF vars, taskVars, Stop
  <2>7. ASSUME NEW c \in Cores, Dispatch(c)
        PROVE  state'[t] = "Dead" /\ (stack[t] = "freed" => stack'[t] = "freed")
    <3>1. CASE IdlePick(c)
      BY <3>1, <2>2, <2>3 DEF IdlePick, KeepRest
    <3>2. CASE IdleWait(c) \/ IrqReturn(c) \/ SetTtbr0(c) \/ DestroySpace(c)
                 \/ ContextSwitch(c)
      BY <3>2, <2>4 DEF IdleWait, IrqReturn, SetTtbr0, DestroySpace,
         ContextSwitch, taskVars
    <3>3. CASE WakeExpired(c)
      BY <3>3, <1>1, <2>1 DEF WakeExpired
    <3>4. CASE Preempt(c)
      <4>1. stack' = stack /\ (state' = state \/ take(c, current[c], "Ready", pick(c, current[c])))
        BY <3>4 DEF Preempt, reschedule, KeepRest
      <4> QED BY <4>1, <2>2, <2>3, <2>4
    <3>5. CASE Migrate(c)
      <4>1. stack' = stack /\ (state' = state \/ take(c, current[c], "Ready", pick(c, current[c])))
        BY <3>5 DEF Migrate, KeepRest
      <4> QED BY <4>1, <2>2, <2>3, <2>4
    <3>6. CASE PostSwitch(c)
      BY <3>6, <1>1, <2>1 DEF PostSwitch, reaps
    <3> QED BY <2>7, <3>1, <3>2, <3>3, <3>4, <3>5, <3>6 DEF Dispatch
  <2>8. ASSUME NEW c \in Cores, Program(c)
        PROVE  state'[t] = "Dead" /\ (stack[t] = "freed" => stack'[t] = "freed")
    <3>1. CASE Yield(c)
      <4>1. stack' = stack /\ (state' = state \/ take(c, current[c], "Ready", pick(c, current[c])))
        BY <3>1 DEF Yield, reschedule, KeepRest
      <4> QED BY <4>1, <2>2, <2>3, <2>4
    <3>2. CASE Exit(c)
      <4>1. stack' = stack /\ take(c, current[c], "Dead", pick(c, current[c]))
        BY <3>2 DEF Exit, KeepRest
      <4> QED BY <4>1, <2>2, <2>3
    <3>3. CASE SpawnThread(c) \/ \E s \in Spaces : SpawnUser(c, s)
      <4>1. /\ state' = [state EXCEPT ![n] = "Ready"]
            /\ stack' = [stack EXCEPT ![n] = "owned"]
        BY <3>3 DEF SpawnThread, SpawnUser, Born
      <4> QED BY <4>1, <1>1, <2>1
    <3>4. CASE \E parked \in Parks : Park(c, parked)
      <4>1. PICK parked \in Parks : Park(c, parked)
        BY <3>4
      <4>2. stack' = stack /\ (state' = state \/ take(c, current[c], parked, pick(c, current[c])))
        BY <4>1 DEF Park, KeepRest
      <4> QED BY <4>2, <2>2, <2>3, <2>4
    <3>5. CASE \E u \in Slots : Unblock(c, u)
      <4>1. /\ stack' = stack
            /\ \E u \in Table, parked \in SUBSET {"Blocked", "Sleeping"} : wake(u, parked)
        BY <3>5 DEF Unblock, unblock, deliver
      <4> QED BY <4>1, <2>0, <2>5, WakeIsQuiet
    <3>6. CASE \E k \in Classes : SetClass(c, k)
      BY <3>6, <2>4 DEF SetClass
    <3>7. CASE \E mask \in Masks : SetAffinity(c, mask)
      BY <3>7, <2>4 DEF SetAffinity
    <3> QED BY <2>8, <3>1, <3>2, <3>3, <3>4, <3>5, <3>6, <3>7 DEF Program
  <2>9. ASSUME NEW c \in Cores, Interrupt(c)
        PROVE  state'[t] = "Dead" /\ (stack[t] = "freed" => stack'[t] = "freed")
    <3>1. CASE Irq(c) \/ QuietIrq(c)
      BY <3>1, <2>4 DEF Irq, QuietIrq, taskVars
    <3>2. CASE \E u \in Slots : DeviceIrq(c, u)
      <4>1. stack' = stack /\ \E u \in Table : wake(u, {"Blocked", "Sleeping"})
        BY <3>2 DEF DeviceIrq, unblock
      <4> QED BY <4>1, <2>0, <2>5, WakeIsQuiet
    <3> QED BY <2>9, <3>1, <3>2 DEF Interrupt
  <2> QED BY <1>1, <2>6, <2>7, <2>8, <2>9 DEF Next
<1>2. IInv /\ [Next]_vars =>
        [\A t \in Slots : state[t] = "Dead" =>
            /\ state'[t] = "Dead"
            /\ stack[t] = "freed" => stack'[t] = "freed"]_vars
  BY <1>1
<1> QED BY <1>2, Inductive, PTL DEF Spec, DeadStaysDead
-----------------------------------------------------------------------------
(* The scheduler implements the parking promise of module Parking.  The    *)
(* refinement rests on the inductive invariant: the task a core parks,     *)
(* preempts or ends is Running, and the one it claims is Ready, so neither *)
(* is parked.                                                              *)

ParkedStates == {"Blocked", "Sleeping"}

\* A switch moves only its two tasks, and only the one it leaves may end up
\* parked.
LEMMA TakeParks ==
    ASSUME IInv, NEW c \in Cores, NEW prev, prev = current[c] \/ prev = None,
           NEW left \in {"Ready", "Blocked", "Sleeping", "Dead"},
           NEW next \in (pickable(c) \ {prev}) \cup {None},
           take(c, prev, left, next)
    PROVE  AsParked' = [t \in Slots |-> IF t = prev /\ left \in ParkedStates
                                        THEN left ELSE AsParked[t]]
<1>1. /\ state \in [Slots -> States] /\ None \notin Slots
      /\ prev \in Slots => state[prev] = "Running"
      /\ next \in Slots => state[next] = "Ready" /\ next # prev
  BY NoneIsNothing DEF IInv, TypeOK, RunningIsCurrent, pickable
<1>2. state' = [t \in Slots |-> IF t = next THEN "Running"
                                ELSE IF t = prev THEN left ELSE state[t]]
  BY DEF take
<1>3. ASSUME NEW t \in Slots
      PROVE  (IF state'[t] \in ParkedStates THEN state'[t] ELSE "no")
              = IF t = prev /\ left \in ParkedStates THEN left ELSE AsParked[t]
  <2>1. CASE t = next
    BY <1>1, <1>2, <2>1 DEF AsParked, ParkedStates
  <2>2. CASE t # next /\ t = prev
    BY <1>1, <1>2, <2>2 DEF AsParked, ParkedStates
  <2>3. CASE t # next /\ t # prev
    BY <1>1, <1>2, <2>3 DEF AsParked, ParkedStates
  <2> QED BY <2>1, <2>2, <2>3
<1> QED BY <1>3 DEF AsParked, ParkedStates

\* A switch that leaves its task Ready or Dead is a stuttering step.
LEMMA TakeStutters ==
    ASSUME IInv, NEW c \in Cores, NEW prev, prev = current[c] \/ prev = None,
           NEW left \in {"Ready", "Dead"},
           NEW next \in (pickable(c) \ {prev}) \cup {None},
           take(c, prev, left, next), wake_pending' = wake_pending
    PROVE  UNCHANGED AbstractParking!parkVars
<1>1. AsParked' = [t \in Slots |-> AsParked[t]]
  BY TakeParks DEF ParkedStates
<1>2. AsParked' = AsParked
  BY <1>1 DEF AsParked
<1> QED BY <1>2 DEF AbstractParking!parkVars

\* unblock and deliver are the promise's wake-ups.
LEMMA WakeWakes ==
    ASSUME TypeOK, NEW t \in Table,
           NEW counted \in {{"Blocked", "Sleeping"}, {"Blocked"}}, wake(t, counted)
    PROVE  AbstractParking!wake_if(t, counted)
<1>1. /\ t \in Slots /\ state \in [Slots -> States]
      /\ wake_pending \in [Slots -> BOOLEAN]
  BY SlotsAssumption DEF TypeOK, Table, Slots
<1>2. /\ state' = [state EXCEPT ![t] = IF state[t] \in counted THEN "Ready" ELSE state[t]]
      /\ wake_pending' = [wake_pending EXCEPT ![t] = wake_pending[t] \/ state[t] \notin counted]
  BY DEF wake
<1>3. AsParked[t] \in counted <=> state[t] \in counted
  BY <1>1 DEF AsParked
<1>4. AsParked' = [AsParked EXCEPT ![t] = IF AsParked[t] \in counted THEN "no" ELSE AsParked[t]]
  BY <1>1, <1>2, <1>3 DEF AsParked
<1>5. wake_pending' = [wake_pending EXCEPT ![t] = wake_pending[t] \/ AsParked[t] \notin counted]
  BY <1>2, <1>3
<1> QED BY <1>4, <1>5 DEF AbstractParking!wake_if

LEMMA SameStutters ==
    ASSUME state' = state, wake_pending' = wake_pending
    PROVE  UNCHANGED AbstractParking!parkVars
BY DEF AbstractParking!parkVars, AsParked

\* The step simulation.
LEMMA StepParks == IInv /\ [Next]_vars => [AbstractParking!ParkNext]_(AbstractParking!parkVars)
<1> SUFFICES ASSUME IInv, [Next]_vars PROVE AbstractParking!ParkNext \/ UNCHANGED AbstractParking!parkVars
  OBVIOUS
<1>0. TypeOK /\ RunningIsCurrent /\ CoreShape /\ TableShape
  BY DEF IInv
<1>t. /\ state \in [Slots -> States] /\ wake_pending \in [Slots -> BOOLEAN]
      /\ n \in Nat /\ Table \subseteq Slots
  BY <1>0, SlotsAssumption DEF TypeOK, Table, Slots
<1>p. \A c \in Cores : /\ current[c] \in Int
                       /\ pick(c, current[c]) \in (pickable(c) \ {current[c]}) \cup {None}
                       /\ pick_idle(c) \in (pickable(c) \ {None}) \cup {None}
  <2>1. \A c \in Cores : current[c] \in Int
    BY <1>0, SlotsAssumption DEF TypeOK, Slots, None
  <2> QED BY <1>0, <2>1, PickSound, PickIdleSound
<1>w. ASSUME NEW t \in Table, unblock(t) \/ deliver(t)
      PROVE  AbstractParking!ParkNext
  <2>1. CASE unblock(t)
    <3>1. AbstractParking!unblock(t)
      BY <1>0, <2>1, WakeWakes DEF unblock, AbstractParking!unblock
    <3> QED BY <3>1, <1>t DEF AbstractParking!ParkNext
  <2>2. CASE deliver(t)
    <3>1. AbstractParking!deliver(t)
      BY <1>0, <2>2, WakeWakes DEF deliver, AbstractParking!deliver
    <3> QED BY <3>1, <1>t DEF AbstractParking!ParkNext
  <2> QED BY <1>w, <2>1, <2>2
<1>1. CASE UNCHANGED vars \/ Stop
  BY <1>1, SameStutters DEF vars, taskVars, Stop
<1>2. ASSUME NEW c \in Cores, Dispatch(c)
      PROVE  AbstractParking!ParkNext \/ UNCHANGED AbstractParking!parkVars
  <2>1. CASE IdlePick(c)
    <3>1. take(c, None, "Ready", pick_idle(c)) /\ wake_pending' = wake_pending
      BY <2>1 DEF IdlePick, KeepRest
    <3> QED BY <3>1, <1>p, TakeStutters
  <2>2. CASE \/ IdleWait(c) \/ IrqReturn(c) \/ SetTtbr0(c) \/ DestroySpace(c)
             \/ ContextSwitch(c) \/ PostSwitch(c)
    BY <2>2, SameStutters DEF IdleWait, IrqReturn, SetTtbr0, DestroySpace,
       ContextSwitch, PostSwitch, taskVars
  <2>3. CASE WakeExpired(c)
    <3>1. PICK late \in SUBSET {t \in Table : state[t] = "Sleeping"} :
             /\ state' = [t \in Slots |-> IF t \in late THEN "Ready" ELSE state[t]]
             /\ wake_pending' = wake_pending
      BY <2>3 DEF WakeExpired
    <3>2. \A t \in late : t \in Slots /\ AsParked[t] = "Sleeping"
      BY <3>1, <1>t DEF AsParked
    <3>3. AsParked' = [t \in Slots |-> IF t \in late THEN "no" ELSE AsParked[t]]
      BY <3>1, <1>t DEF AsParked
    <3>4. AbstractParking!wake_expired(late)
      BY <3>1, <3>2, <3>3 DEF AbstractParking!wake_expired
    <3>5. late \in SUBSET Slots
      BY <3>2
    <3> QED BY <3>4, <3>5 DEF AbstractParking!ParkNext
  <2>4. CASE Preempt(c)
    <3>1. /\ wake_pending' = wake_pending
          /\ state' = state \/ take(c, current[c], "Ready", pick(c, current[c]))
      BY <2>4 DEF Preempt, reschedule, KeepRest
    <3> QED BY <3>1, <1>p, TakeStutters, SameStutters
  <2>5. CASE Migrate(c)
    <3>1. /\ wake_pending' = wake_pending
          /\ state' = state \/ take(c, current[c], "Ready", pick(c, current[c]))
      BY <2>5 DEF Migrate, KeepRest
    <3> QED BY <3>1, <1>p, TakeStutters, SameStutters
  <2> QED BY <1>2, <2>1, <2>2, <2>3, <2>4, <2>5 DEF Dispatch
<1>3. ASSUME NEW c \in Cores, Program(c)
      PROVE  AbstractParking!ParkNext \/ UNCHANGED AbstractParking!parkVars
  <2>1. CASE Yield(c)
    <3>1. /\ wake_pending' = wake_pending
          /\ state' = state \/ take(c, current[c], "Ready", pick(c, current[c]))
      BY <2>1 DEF Yield, reschedule, KeepRest
    <3> QED BY <3>1, <1>p, TakeStutters, SameStutters
  <2>2. CASE Exit(c)
    <3>1. /\ wake_pending' = wake_pending
          /\ take(c, current[c], "Dead", pick(c, current[c]))
      BY <2>2 DEF Exit, KeepRest
    <3> QED BY <3>1, <1>p, TakeStutters
  <2>3. CASE SpawnThread(c) \/ \E s \in Spaces : SpawnUser(c, s)
    <3>1. /\ n < MaxTasks /\ state' = [state EXCEPT ![n] = "Ready"]
          /\ wake_pending' = wake_pending
      BY <2>3 DEF SpawnThread, SpawnUser, Born
    <3>2. n \in Slots /\ state[n] = "Unborn"
      BY <3>1, <1>0, <1>t, SlotsAssumption DEF TableShape, Slots
    <3>3. AsParked' = AsParked
      BY <3>1, <3>2, <1>t DEF AsParked
    <3> QED BY <3>1, <3>3 DEF AbstractParking!parkVars
  <2>4. CASE \E how \in Parks : Park(c, how)
    <3>1. PICK how \in Parks : Park(c, how)
      BY <2>4
    <3> DEFINE me == current[c]
    <3>2. me \in Slots /\ state[me] = "Running" /\ AbstractParking!Up(me)
      BY <3>1, <1>0 DEF Park, User, CoreShape, RunningIsCurrent, TypeOK,
         AsParked, AbstractParking!Up
    <3>3. how \in {"Blocked", "Sleeping"}
      BY ParksAssumption
    <3>4. AbstractParking!park(me, how)
      <4>1. CASE wake_pending[me]
        <5>1. /\ wake_pending' = [wake_pending EXCEPT ![me] = FALSE]
              /\ state' = state
          BY <3>1, <4>1 DEF Park
        <5>2. AsParked' = AsParked
          BY <5>1 DEF AsParked
        <5> QED BY <3>2, <4>1, <5>1, <5>2 DEF AbstractParking!park
      <4>2. CASE ~ wake_pending[me]
        <5>1. take(c, me, how, pick(c, me)) /\ wake_pending' = wake_pending
          BY <3>1, <4>2 DEF Park, KeepRest
        <5>2. AsParked' = [t \in Slots |-> IF t = me /\ how \in ParkedStates
                                           THEN how ELSE AsParked[t]]
          BY <5>1, <3>3, <1>p, TakeParks
        <5>3. AsParked' = [AsParked EXCEPT ![me] = how]
          BY <5>2, <3>3, <3>2 DEF ParkedStates, AsParked
        <5> QED BY <3>2, <4>2, <5>1, <5>3 DEF AbstractParking!park
      <4> QED BY <4>1, <4>2
    <3> QED BY <3>2, <3>3, <3>4 DEF AbstractParking!ParkNext
  <2>5. CASE \E t \in Slots : Unblock(c, t)
    BY <2>5, <1>w DEF Unblock
  <2>6. CASE (\E k \in Classes : SetClass(c, k)) \/ \E mask \in Masks : SetAffinity(c, mask)
    BY <2>6, SameStutters DEF SetClass, SetAffinity
  <2> QED BY <1>3, <2>1, <2>2, <2>3, <2>4, <2>5, <2>6 DEF Program
<1>4. ASSUME NEW c \in Cores, Interrupt(c)
      PROVE  AbstractParking!ParkNext \/ UNCHANGED AbstractParking!parkVars
  <2>1. CASE Irq(c) \/ QuietIrq(c)
    BY <2>1, SameStutters DEF Irq, QuietIrq, taskVars
  <2>2. CASE \E t \in Slots : DeviceIrq(c, t)
    BY <2>2, <1>w DEF DeviceIrq
  <2> QED BY <1>4, <2>1, <2>2 DEF Interrupt
<1> QED BY <1>1, <1>2, <1>3, <1>4 DEF Next

\* No wake-up is lost and none is invented, whatever the cores do: every
\* behaviour of the scheduler is one of Parking, with a task parked when its
\* state is Blocked or Sleeping (park_and_switch, unblock, deliver,
\* wake_expired).
THEOREM ImplementsParking == Spec => KeepsWakeups
<1>1. Init => AbstractParking!ParkInit
  BY DEF Init, AbstractParking!ParkInit, AsParked
<1> QED BY <1>1, StepParks, Inductive, PTL DEF Spec, KeepsWakeups, AbstractParking!ParkSpec
=============================================================================
