---------------------------- MODULE KernelProofs ----------------------------
(***************************************************************************)
(* Proofs about the kernel's parts that stand by themselves (module        *)
(* MCKernel checks them together on small instances), for every value of   *)
(* their constants: how long a band waits (Bands), when a timer fires      *)
(* (Clock), who holds a frame (AddressSpaces), the ticket lock (SpinLock), *)
(* what race_test, the boot's test of that lock, says of it (Bringup),     *)
(* what a device reaches through the SMMU (Iommu), and how the kernel's    *)
(* heap is tiled (KernelHeap).                                             *)
(***************************************************************************)
EXTENDS SpinLock, Bringup, Bands, Clock, KernelHeap, AddressSpaces, Iommu,
        FiniteSetTheorems, WellFoundedInduction, TLAPS

\* Every non-empty set of naturals has a least element.
LEMMA LeastNat ==
    ASSUME NEW T, T \subseteq Nat, T # {}
    PROVE  \E x \in T : \A y \in T : x <= y
<1> DEFINE R == OpToRel(<, Nat)
<1>1. \A x, y \in Nat : <<y, x>> \in R <=> y < x
  BY DEF OpToRel
<1>2. IsWellFoundedOn(R, Nat)
  BY NatLessThanWellFounded
<1> HIDE DEF R
<1>3. PICK x \in T : \A y \in T : ~ (<<y, x>> \in R)
  BY <1>2, WFMin
<1>4. ASSUME NEW y \in T PROVE x <= y
  <2>1. x \in Nat /\ y \in Nat
    OBVIOUS
  <2>2. ~ (y < x)
    BY <1>1, <1>3, <2>1, Zenon
  <2> QED BY <2>1, <2>2
<1> QED BY <1>4

-----------------------------------------------------------------------------
(* The bands (module Bands) *)

\* The phase is the cycle's half and the place in it.
LEMMA Halves ==
    ASSUME NEW m \in Nat \ {0}, NEW p \in 0..(2 * m - 1)
    PROVE  /\ p < m => p % m = p /\ p \div m = 0
           /\ p >= m => p % m = p - m /\ p \div m = 1
<1>1. CASE p < m
  BY <1>1, SMTT(30)
<1>2. CASE p >= m
  <2>1. p = 1 * m + (p - m) /\ p - m \in 0..(m - 1)
    BY <1>2
  <2> QED BY <1>2, <2>1, SMTT(30)
<1> QED BY <1>1, <1>2

\* The round-robin scan answers with a member of what it scans.
LEMMA ScanAnswers ==
    ASSUME NEW m \in Nat \ {0}, NEW from \in Int, NEW P, P \subseteq Int, P # {}
    PROVE  First(m, from, P) \in P
<1> DEFINE off(i) == (i - from - 1) % m
           T == {off(i) : i \in P}
<1>1. \A i \in Int : off(i) \in Nat
  OBVIOUS
<1>2. T \subseteq Nat /\ T # {}
  BY <1>1
<1>3. PICK x \in T : \A y \in T : x <= y
  BY <1>2, LeastNat
<1>4. \E i \in P : \A j \in P : off(i) <= off(j)
  BY <1>3
<1> QED BY <1>4 DEF First

\* One band's scan returns a candidate of the band other than the current
\* task, and nothing only when there is none.
LEMMA BandAnswers ==
    ASSUME BandTypeOK, NEW runnable \in SUBSET Table, NEW k \in AllClasses
    PROVE  LET found == affinity_choose(TableSize, current, InBand(runnable, class, k), Table)
               P == InBand(runnable \ {current}, class, k)
           IN  IF P = {} THEN found = None ELSE found \in P /\ found # None
<1> DEFINE found == affinity_choose(TableSize, current, InBand(runnable, class, k), Table)
           P == InBand(runnable \ {current}, class, k)
<1>1. InBand(runnable, class, k) \ {current} = P /\ P \subseteq Table
  BY DEF InBand
<1>2. Table \subseteq Nat /\ current \in Table
  BY TableAssumption DEF Table, BandTypeOK
<1>3. CASE P = {}
  BY <1>1, <1>3 DEF affinity_choose, TwoPass
<1>4. CASE P # {}
  <2>1. TableSize \in Nat \ {0}
    BY <1>2, TableAssumption DEF Table
  <2>2. P \cap Table = P
    BY <1>1
  <2>3. found = First(TableSize, current, P)
    BY <1>1, <1>4, <2>2 DEF affinity_choose, TwoPass
  <2>4. P \subseteq Int /\ current \in Int
    <3>1. P \subseteq Nat /\ current \in Nat
      BY <1>1, <1>2, Zenon
    <3> HIDE DEF P
    <3> QED BY <3>1
  <2>5. found \in P
    BY <1>4, <2>1, <2>3, <2>4, ScanAnswers
  <2>6. found # None
    BY <1>1, <1>2, <2>5 DEF None
  <2> QED BY <1>4, <2>5, <2>6
<1> QED BY <1>3, <1>4

\* A band that heads the order of a fair decision, and has a candidate, gets
\* the core: should_switch lets a fair decision go down.
LEMMA HeadServed ==
    ASSUME BandTypeOK, NEW runnable \in SUBSET Table, NEW honour_class \in BOOLEAN,
           Decide(runnable, honour_class), is_fair(picks),
           NEW k \in AllClasses, bands(picks)[1] = k
    PROVE  passed'[k] = 0
<1> DEFINE P == InBand(runnable \ {current}, class, k)
           chosen == class_choose(TableSize, current, picks, runnable, Table, class)
           served == IF honour_class /\ ~ should_switch(class[current], class[chosen], is_fair(picks))
                     THEN current ELSE chosen
<1>1. passed' = [b \in AllClasses |->
                   IF b = class[served] \/ InBand(runnable \ {current}, class, b) = {}
                   THEN 0 ELSE passed[b] + 1]
  BY DEF Decide
<1>2. served = chosen
  BY DEF should_switch
<1>3. ASSUME P # {} PROVE class[chosen] = k
  <2> DEFINE found == affinity_choose(TableSize, current, InBand(runnable, class, k), Table)
  <2>1. found \in P /\ found # None
    BY <1>3, BandAnswers
  <2>2. chosen = found
    BY <2>1 DEF class_choose, FirstFound
  <2> QED BY <2>1, <2>2 DEF InBand
<1> QED BY <1>1, <1>2, <1>3

\* A fair decision goes below the top whenever something waits there.
LEMMA LowerServed ==
    ASSUME BandTypeOK, NEW runnable \in SUBSET Table, NEW honour_class \in BOOLEAN,
           Decide(runnable, honour_class), is_fair(picks)
    PROVE  above' = 0
<1> DEFINE P(k) == InBand(runnable \ {current}, class, k)
           found(k) == affinity_choose(TableSize, current, InBand(runnable, class, k), Table)
           chosen == class_choose(TableSize, current, picks, runnable, Table, class)
           served == IF honour_class /\ ~ should_switch(class[current], class[chosen], is_fair(picks))
                     THEN current ELSE chosen
<1>1. above' = IF class[served] # Latency \/ P(Normal) \cup P(Bulk) = {} THEN 0 ELSE above + 1
  BY DEF Decide
<1>2. served = chosen
  BY DEF should_switch
<1>3. PICK a, b : /\ bands(picks) = <<a, b, Latency>>
                  /\ {a, b} = {Normal, Bulk} /\ a \in AllClasses /\ b \in AllClasses
  BY DEF bands, AllClasses
<1>4. chosen = FirstFound(found(a), found(b), found(Latency))
  BY <1>3 DEF class_choose
<1>5. \A k \in {a, b} : IF P(k) = {} THEN found(k) = None
                        ELSE found(k) \in P(k) /\ found(k) # None
  BY <1>3, BandAnswers
<1>6. \A k \in {a, b} : \A i \in P(k) : class[i] # Latency
  BY <1>3 DEF InBand, Normal, Bulk, Latency
<1>7. ASSUME P(Normal) \cup P(Bulk) # {} PROVE class[chosen] # Latency
  <2> HIDE DEF P, found, chosen
  <2>1. P(a) # {} \/ P(b) # {}
    BY <1>3, <1>7
  <2> QED BY <2>1, <1>4, <1>5, <1>6 DEF FirstFound
<1> QED BY <1>1, <1>2, <1>7

\* One decision moves each band at most one place along the cycle, and back
\* to the start at its own turn.
LEMMA DecideBounds ==
    ASSUME BandInv, NEW runnable \in SUBSET Table, NEW honour_class \in BOOLEAN,
           Decide(runnable, honour_class)
    PROVE  BandInv'
<1> DEFINE m == FAIRNESS_EVERY
           chosen == class_choose(TableSize, current, picks, runnable, Table, class)
<1> USE FairnessAssumption
<1>1. picks \in 0..(2 * m - 1) /\ picks \in Nat /\ passed \in [AllClasses -> Nat]
  BY DEF BandInv, BandTypeOK
<1>2. picks' = IF picks = 2 * m - 1 THEN 0 ELSE picks + 1
  <2>1. picks' = (picks + 1) % (2 * m)
    BY DEF Decide, advance
  <2>2. (2 * m) % (2 * m) = 0
    BY SMTT(30)
  <2>3. picks # 2 * m - 1 => (picks + 1) % (2 * m) = picks + 1
    BY <1>1, SMTT(30)
  <2> QED BY <2>1, <2>2, <2>3, <1>1
<1>3. \A k \in AllClasses : passed'[k] \in Nat /\ passed'[k] <= passed[k] + 1
  BY <1>1 DEF Decide
<1>a. above \in Nat /\ above' \in Nat /\ above' <= above + 1
  BY DEF BandInv, BandTypeOK, Decide
<1>4. passed' \in [AllClasses -> Nat]
  <2>1. passed' = [k \in AllClasses |-> passed'[k]]
    BY DEF Decide
  <2> QED BY <1>3, <2>1
<1>5. picks = m - 1 => passed'[Bulk] = 0
  <2>1. picks = m - 1 => is_fair(picks) /\ bands(picks)[1] = Bulk
    BY <1>1, Halves DEF is_fair, bands
  <2> QED BY <2>1, HeadServed DEF BandInv, AllClasses
<1>6. picks = 2 * m - 1 => passed'[Normal] = 0
  <2>1. picks = 2 * m - 1 => is_fair(picks) /\ bands(picks)[1] = Normal
    BY <1>1, Halves DEF is_fair, bands
  <2> QED BY <2>1, HeadServed DEF BandInv, AllClasses
<1>b. picks = m - 1 \/ picks = 2 * m - 1 => above' = 0
  <2>1. picks = m - 1 \/ picks = 2 * m - 1 => is_fair(picks)
    BY <1>1, Halves DEF is_fair
  <2> QED BY <2>1, LowerServed DEF BandInv
<1>7. BandTypeOK'
  <2>1. current' \in Table
    <3> DEFINE found(k) == affinity_choose(TableSize, current, InBand(runnable, class, bands(picks)[k]), Table)
    <3>1. \A k \in 1..3 : bands(picks)[k] \in AllClasses
      BY DEF bands, AllClasses
    <3>2. \A k \in 1..3 : found(k) \in Table \cup {None}
      <4>1. \A b \in AllClasses : InBand(runnable \ {current}, class, b) \subseteq Table
        BY DEF InBand
      <4> QED BY <3>1, <4>1, BandAnswers DEF BandInv
    <3>3. chosen = FirstFound(found(1), found(2), found(3))
      BY DEF class_choose
    <3>4. chosen # None /\ current' \in {current, chosen}
      BY DEF Decide
    <3> HIDE DEF found, chosen
    <3>5. chosen \in Table
      BY <3>2, <3>3, <3>4 DEF FirstFound
    <3>6. current \in Table
      BY DEF BandInv, BandTypeOK
    <3> QED BY <3>4, <3>5, <3>6
  <2>2. class' \in [Table -> AllClasses]
    BY DEF Decide, BandInv, BandTypeOK
  <2> QED BY <1>1, <1>2, <1>a, <1>4, <2>1, <2>2 DEF BandTypeOK
<1>8. WaitSoFar'
  <2>1. passed[Normal] \in Nat /\ passed[Bulk] \in Nat /\ Normal \in AllClasses /\ Bulk \in AllClasses
    BY <1>1 DEF AllClasses
  <2>2. (passed[Normal] <= picks)'
    BY <2>1, <1>1, <1>2, <1>3, <1>6 DEF BandInv, WaitSoFar
  <2>3. (passed[Bulk] <= IF picks >= m THEN picks - m ELSE picks + m)'
    BY <2>1, <1>1, <1>2, <1>3, <1>5 DEF BandInv, WaitSoFar
  <2>4. (above <= IF picks >= m THEN picks - m ELSE picks)'
    BY <1>1, <1>2, <1>a, <1>b DEF BandInv, WaitSoFar
  <2> QED BY <2>2, <2>3, <2>4 DEF WaitSoFar
<1> QED BY <1>7, <1>8 DEF BandInv

\* For every period and every table, one decision in each fairness cycle goes
\* below the top while something waits there, and a band below the top that
\* always has a candidate is served within two (class::bands and its escape).
THEOREM LowerBandsServed == BandSpec => []LowerBandsWaitBounded
<1>1. BandInit => BandInv
  BY FairnessAssumption DEF BandInit, BandInv, BandTypeOK, WaitSoFar, AllClasses, Normal, Bulk
<1>2. BandInv /\ [BandNext]_bandVars => BandInv'
  <2>1. BandInv /\ BandNext => BandInv'
    BY DecideBounds DEF BandNext
  <2>2. BandInv /\ UNCHANGED bandVars => BandInv'
    BY DEF BandInv, BandTypeOK, WaitSoFar, bandVars
  <2> QED BY <2>1, <2>2
<1>3. BandInv => LowerBandsWaitBounded
  BY FairnessAssumption DEF BandInv, BandTypeOK, WaitSoFar, LowerBandsWaitBounded, AllClasses, Normal, Bulk
<1> QED BY <1>1, <1>2, <1>3, PTL DEF BandSpec

-----------------------------------------------------------------------------
(* The timers (module Clock) *)

LEMMA GreatestNat ==
    ASSUME NEW n \in Nat, NEW T, T \subseteq 0..n, T # {}
    PROVE  Max(T) \in T /\ \E x \in T : \A y \in T : x >= y
<1> DEFINE D == {n - x : x \in T}
<1>1. D \subseteq Nat /\ D # {}
  <2>1. \A x \in T : n - x \in Nat
    OBVIOUS
  <2> QED BY <2>1
<1>2. PICK d \in D : \A y \in D : d <= y
  BY <1>1, LeastNat
<1>3. PICK x \in T : d = n - x
  OBVIOUS
<1>4. \A y \in T : x >= y
  <2> SUFFICES ASSUME NEW y \in T PROVE x >= y
    OBVIOUS
  <2>1. n - y \in D
    BY Zenon
  <2> HIDE DEF D
  <2>3. x \in Int /\ y \in Int
    OBVIOUS
  <2>2. n - x <= n - y
    BY <1>2, <1>3, <2>1, Zenon
  <2> QED BY <2>3, <2>2
<1> QED BY <1>4 DEF Max

\* Division, and the products it is between.
LEMMA DivBetween ==
    ASSUME NEW a \in Nat, NEW b \in Nat \ {0}
    PROVE  /\ a \div b \in Nat /\ (a \div b) * b <= a /\ a < (a \div b) * b + b
           /\ a % b \in Nat /\ a = (a \div b) * b + (a % b)
<1>1. a % b \in 0..(b - 1)
  BY SMTT(30)
<1>2. a = b * (a \div b) + (a % b)
  BY SMTT(30)
<1>3. a \div b \in Nat
  BY SMTT(30)
<1>4. b * (a \div b) = (a \div b) * b /\ (a \div b) * b \in Nat
  BY <1>3, SMTT(30)
<1> QED BY <1>1, <1>2, <1>3, <1>4

LEMMA Cancel ==
    ASSUME NEW a \in Nat, NEW b \in Nat, NEW k \in Nat \ {0}, a * k < b * k + k
    PROVE  a <= b
<1> SUFFICES ASSUME a > b PROVE FALSE
  OBVIOUS
<1>1. PICK e \in Nat : a = b + 1 + e
  <2>1. a - b - 1 \in Nat /\ a = b + 1 + (a - b - 1)
    OBVIOUS
  <2> QED BY <2>1
<1>2. a * k = b * k + k + e * k
  BY <1>1, SMTT(30)
<1>3. e * k \in Nat /\ a * k \in Nat /\ b * k \in Nat
  BY SMTT(30)
<1> QED BY <1>2, <1>3

\* The scale's fraction has no zero in it.
LEMMA ScaleFits ==
    ASSUME NEW f \in Freqs
    PROVE  from_hz(f).num \in Nat \ {0} /\ from_hz(f).den \in Nat \ {0}
<1> DEFINE D == {k \in 1..f : SECOND % k = 0 /\ f % k = 0}
<1>1. f \in Nat \ {0} /\ SECOND \in Nat \ {0}
  BY ClockAssumption
<1>2. 1 \in D
  BY <1>1, SMTT(30)
<1>3. D \subseteq 0..f
  BY <1>1
<1>4. gcd(SECOND, f) \in D
  <2> HIDE DEF D
  <2>1. Max(D) \in D
    BY <1>1, <1>2, <1>3, GreatestNat
  <2> QED BY <2>1 DEF gcd, D
<1>5. PICK g \in 1..f : g = gcd(SECOND, f) /\ SECOND % g = 0 /\ f % g = 0
  BY <1>4
<1>6. g \in Nat \ {0}
  BY <1>1, <1>5
<1>7. SECOND \div g # 0 /\ SECOND \div g \in Nat
  <2>1. SECOND \div g \in Nat /\ SECOND = (SECOND \div g) * g + (SECOND % g) /\ (SECOND \div g) * g \in Nat
    <3>1. SECOND \div g \in Nat /\ SECOND = (SECOND \div g) * g + (SECOND % g)
      BY <1>1, <1>6, DivBetween
    <3> QED BY <1>6, <3>1, SMTT(30)
  <2>2. SECOND \div g = 0 => (SECOND \div g) * g = 0
    BY <1>6
  <2>3. SECOND = (SECOND \div g) * g
    BY <1>5, <2>1
  <2> QED BY <1>1, <2>1, <2>2, <2>3
<1>8. f \div g # 0 /\ f \div g \in Nat
  <2>1. f \div g \in Nat /\ f = (f \div g) * g + (f % g) /\ (f \div g) * g \in Nat
    <3>1. f \div g \in Nat /\ f = (f \div g) * g + (f % g)
      BY <1>1, <1>6, DivBetween
    <3> QED BY <1>6, <3>1, SMTT(30)
  <2>2. f \div g = 0 => (f \div g) * g = 0
    BY <1>6
  <2>3. f = (f \div g) * g
    BY <1>5, <2>1
  <2> QED BY <1>1, <2>1, <2>2, <2>3
<1> QED BY <1>5, <1>7, <1>8 DEF from_hz

LEMMA CappedIs == \A n \in Int : Capped(n) = IF n <= LAST THEN n ELSE LAST
<1> SUFFICES ASSUME NEW n \in Int PROVE Capped(n) = IF n <= LAST THEN n ELSE LAST
  OBVIOUS
<1>1. LAST \in Int
  BY ClockAssumption
<1> QED BY <1>1 DEF Capped, Min

LEMMA MaxOfTwo == \A a, b \in Int : Max({a, b}) = IF a >= b THEN a ELSE b
BY DEF Max

LEMMA MinOfTwo == \A a, b \in Int : Min({a, b}) = IF a <= b THEN a ELSE b
BY DEF Min

\* A wait counted in ticks that round up is never short, whatever the fraction.
LEMMA WaitLongEnough ==
    ASSUME NEW num \in Nat \ {0}, NEW den \in Nat \ {0}, NEW past \in Nat, NEW wait \in Nat, NEW d \in Nat,
           d <= (past * num) \div den + wait
    PROVE  LET t == (wait * den + num - 1) \div num IN d <= ((past + t) * num) \div den
<1> DEFINE t == (wait * den + num - 1) \div num
           now == (past * num) \div den
           then == ((past + t) * num) \div den
<1>1. /\ wait * den \in Nat /\ past * num \in Nat
      /\ wait * den + num - 1 \in Nat
  BY SMTT(30)
<1>2. t \in Nat /\ wait * den <= t * num
  <2>1. t \in Nat /\ wait * den + num - 1 < t * num + num
    BY <1>1, DivBetween
  <2> HIDE DEF t
  <2>2. t * num \in Nat
    BY <2>1, SMTT(30)
  <2> QED BY <1>1, <2>1, <2>2
<1>3. now \in Nat /\ now * den <= past * num
  BY <1>1, DivBetween
<1> HIDE DEF t
<1>4. (past + t) * num = past * num + t * num /\ (past + t) * num \in Nat
  BY <1>2, SMTT(30)
<1>5. then \in Nat /\ (past + t) * num < then * den + den
  BY <1>4, DivBetween
<1> HIDE DEF now, then
<1>6. (now + wait) * den = now * den + wait * den
  BY <1>3, SMTT(30)
<1>7. (now + wait) * den < then * den + den
  <2>1. now * den \in Nat /\ then * den \in Nat /\ t * num \in Nat
    BY <1>2, <1>3, <1>5, SMTT(30)
  <2> QED BY <1>1, <1>2, <1>3, <1>4, <1>5, <1>6, <2>1
<1>8. now + wait <= then
  BY <1>3, <1>5, <1>7, Cancel
<1> QED BY <1>3, <1>5, <1>8 DEF now, then, t

\* A timer aimed at a deadline, now or later in the same tick, fires after it.
LEMMA AimedOnTime ==
    ASSUME ClockInv, NEW d \in 0..LAST
    PROVE  Aimed(d).aim # -1 => nanos(Aimed(d).at - base) >= Aimed(d).aim
<1> DEFINE num == from_hz(freq).num
           den == from_hz(freq).den
           past == counter - base
           now == (past * num) \div den
           wait == Max({d - monotonic_ns, MIN_NANOS})
           steps == (wait * den + num - 1) \div num
           t == ticks(wait)
<1>1. freq \in Freqs /\ base \in Nat /\ counter \in Nat /\ past \in Nat
  BY DEF ClockInv
<1>2. num \in Nat \ {0} /\ den \in Nat \ {0}
  BY <1>1, ScaleFits
<1>3. LAST \in Nat /\ MIN_NANOS \in Nat /\ freq \in 1..LAST /\ TICK_HZ \in Nat \ {0, 1}
  BY <1>1, ClockAssumption
<1> HIDE DEF num, den, past
<1>4. now \in Nat
  <2>1. past * num \in Nat
    BY <1>1, <1>2, SMTT(30)
  <2> QED BY <1>2, <2>1, DivBetween
<1>5. monotonic_ns = Capped(now)
  BY <1>1, MaxOfTwo DEF monotonic_ns, nanos, num, den, past
<1>6. monotonic_ns \in Nat /\ monotonic_ns <= now
  BY <1>3, <1>4, <1>5, CappedIs
<1>7. wait \in Nat /\ d <= monotonic_ns + wait
  BY <1>3, <1>6, MaxOfTwo
<1>8. d <= now + wait
  BY <1>4, <1>6, <1>7
<1> HIDE DEF wait, now
<1>9. d <= ((past + steps) * num) \div den
  <2>1. d \in Nat
    BY <1>3
  <2> QED BY <1>1, <1>2, <1>7, <1>8, <2>1, WaitLongEnough DEF now
<1>10. steps \in Nat
  <2>1. wait * den \in Nat
    BY <1>2, <1>7, SMTT(30)
  <2>2. wait * den + num - 1 \in Nat
    BY <1>2, <2>1
  <2> QED BY <1>2, <2>2, DivBetween
<1>11. t = Capped(steps)
  BY DEF ticks, num, den
<1> HIDE DEF steps, t
<1>12. period \in Nat /\ period < LAST
  <2>1. period \in Nat /\ period * TICK_HZ <= freq
    BY <1>3, DivBetween DEF period
  <2>2. period * 2 <= period * TICK_HZ
    BY <1>3, <2>1, SMTT(30)
  <2>3. period * TICK_HZ \in Nat
    BY <1>3, <2>1, SMTT(30)
  <2> QED BY <1>3, <2>1, <2>2, <2>3
<1>13. Aimed(d) = [at |-> counter + Min({t, period}), aim |-> IF t <= period THEN d ELSE -1]
  BY DEF Aimed, arm, wait, t
<1>14. CASE t <= period
  <2>1. t = steps
    BY <1>3, <1>10, <1>11, <1>12, <1>14, CappedIs
  <2>2. Aimed(d).at = counter + t /\ Aimed(d).aim = d
    BY <1>10, <1>12, <1>13, <1>14, <2>1, MinOfTwo
  <2>3. Aimed(d).at - base = past + steps
    BY <1>1, <1>10, <2>1, <2>2 DEF past
  <2>4. nanos(Aimed(d).at - base) = Capped(((past + steps) * num) \div den)
    BY <2>3 DEF nanos, num, den
  <2>5. ((past + steps) * num) \div den \in Nat
    <3>1. (past + steps) * num \in Nat
      BY <1>1, <1>2, <1>10, SMTT(30)
    <3> QED BY <1>2, <3>1, DivBetween
  <2> QED BY <1>3, <1>9, <2>2, <2>4, <2>5, CappedIs
<1>15. CASE ~ (t <= period)
  BY <1>13, <1>15
<1> QED BY <1>14, <1>15

\* Arming one core's timer right leaves all of them right.
LEMMA ArmedRight ==
    ASSUME ClockInv, NEW c, NEW a, a.aim # -1 => nanos(a.at - base) >= a.aim,
           armed' = [armed EXCEPT ![c] = a], freq' = freq, base' = base
    PROVE  DOMAIN armed' = TimerCores /\ FiresOnTime'
<1>1. DOMAIN armed = TimerCores /\ FiresOnTime
  BY DEF ClockInv
<1>2. DOMAIN armed' = TimerCores /\ \A k \in TimerCores : armed'[k] = IF k = c THEN a ELSE armed[k]
  BY <1>1
<1>3. ASSUME NEW k \in TimerCores, armed'[k].aim # -1
      PROVE  nanos(armed'[k].at - base) >= armed'[k].aim
  BY <1>1, <1>2, <1>3 DEF FiresOnTime
<1>4. FiresOnTime'
  BY <1>3 DEF FiresOnTime, nanos
<1> QED BY <1>2, <1>4

LEMMA TickUnaimed == arm(period, -1).aim = -1
BY DEF arm

LEMMA NextOnTime ==
    ASSUME ClockInv
    PROVE  next_interval.aim # -1 => nanos(next_interval.at - base) >= next_interval.aim
<1>1. CASE next_wake = {}
  BY <1>1, TickUnaimed DEF next_interval
<1>2. CASE next_wake # {}
  <2>1. next_wake \subseteq Deadlines /\ Deadlines \subseteq 0..LAST /\ LAST \in Nat
    BY ClockAssumption DEF next_wake, ClockInv
  <2>2. next_wake \subseteq Nat
    BY <2>1
  <2>3. PICK d \in next_wake : \A x \in next_wake : d <= x
    BY <1>2, <2>2, LeastNat
  <2>4. Min(next_wake) \in next_wake
    BY <2>3 DEF Min
  <2>5. PICK e \in 0..LAST : e = Min(next_wake)
    BY <2>1, <2>4
  <2> QED BY <1>2, <2>5, AimedOnTime DEF next_interval
<1> QED BY <1>1, <1>2

\* The rounding is never early: for every frequency and every deadline.
THEOREM TimersNeverEarly == ClockSpec => []FiresOnTime
<1>1. ClockInit => ClockInv
  <2> SUFFICES ASSUME ClockInit PROVE ClockInv
    OBVIOUS
  <2>1. FiresOnTime
    BY TickUnaimed DEF ClockInit, FiresOnTime
  <2> QED BY <2>1 DEF ClockInit, ClockInv
<1>2. ClockInv /\ [ClockNext]_clockVars => ClockInv'
  <2> SUFFICES ASSUME ClockInv, [ClockNext]_clockVars PROVE ClockInv'
    OBVIOUS
  <2>1. ASSUME UNCHANGED <<freq, base, armed>> PROVE DOMAIN armed' = TimerCores /\ FiresOnTime'
    BY <2>1 DEF ClockInv, FiresOnTime, nanos
  <2>2. wake_expired => asleep' \in [Sleepers -> Deadlines \cup {-1}]
    BY DEF wake_expired, ClockInv
  <2>3. ASSUME NEW c \in TimerCores, NEW t \in Sleepers, NEW d \in Deadlines, sleep_until(c, t, d)
        PROVE  ClockInv'
    <3>1. d \in 0..LAST
      BY ClockAssumption
    <3>2. DOMAIN armed' = TimerCores /\ FiresOnTime'
      <4> DEFINE a == Aimed(d)
      <4>1. a.aim # -1 => nanos(a.at - base) >= a.aim
        BY <3>1, AimedOnTime
      <4> HIDE DEF a
      <4>2. armed' = [armed EXCEPT ![c] = a] /\ freq' = freq /\ base' = base
        BY <2>3 DEF sleep_until, a
      <4> QED BY <4>1, <4>2, ArmedRight
    <3>3. asleep' \in [Sleepers -> Deadlines \cup {-1}]
      BY <2>3 DEF sleep_until, ClockInv
    <3> QED BY <2>3, <3>2, <3>3 DEF sleep_until, ClockInv
  <2>4. ASSUME NEW t \in Sleepers, unblock(t) PROVE ClockInv'
    <3>1. asleep' \in [Sleepers -> Deadlines \cup {-1}]
      BY <2>4 DEF unblock, ClockInv
    <3> QED BY <2>1, <2>4, <3>1 DEF unblock, ClockInv
  <2>5. ASSUME NEW c \in TimerCores, timer_irq(c) PROVE ClockInv'
    <3>1. DOMAIN armed' = TimerCores /\ FiresOnTime'
      <4> DEFINE a == next_interval
      <4>1. a.aim # -1 => nanos(a.at - base) >= a.aim
        BY NextOnTime
      <4> HIDE DEF a
      <4>2. armed' = [armed EXCEPT ![c] = a] /\ freq' = freq /\ base' = base
        BY <2>5 DEF timer_irq, a
      <4> QED BY <4>1, <4>2, ArmedRight
    <3> QED BY <2>2, <2>5, <3>1 DEF timer_irq, ClockInv
  <2>6. CASE other_irq
    BY <2>1, <2>2, <2>6 DEF other_irq, ClockInv
  <2>7. CASE Count
    BY <2>1, <2>7 DEF Count, ClockInv
  <2>8. CASE UNCHANGED clockVars
    BY <2>1, <2>8 DEF clockVars, ClockInv
  <2> QED BY <2>3, <2>4, <2>5, <2>6, <2>7, <2>8 DEF ClockNext
<1>3. ClockInv => FiresOnTime
  BY DEF ClockInv
<1> QED BY <1>1, <1>2, <1>3, PTL DEF ClockSpec

-----------------------------------------------------------------------------
(* The frames (module AddressSpaces) *)

\* A frame chosen from the free ones is one of them, and no frame is NoFrame.
LEMMA LowestIsFree == ASSUME NEW S, S \subseteq Pool, S # {} PROVE Lowest(S) \in S
<1>1. S \subseteq Nat
  BY AddressSpacesAssumption DEF Pool
<1>2. \E f \in S : \A g \in S : f <= g
  BY <1>1, LeastNat
<1> QED BY <1>2 DEF Lowest

LEMMA NoFrameIsNone == NoFrame \notin Pool /\ NoFrame \in Int /\ Pool \subseteq Int
BY AddressSpacesAssumption DEF NoFrame, Pool

\* What Apart says, in the form the provers take it.
LEMMA ApartSays ==
    ASSUME NEW m, NEW U, Apart(m, U)
    PROVE  /\ m \in Memory /\ m.free \subseteq U /\ U \subseteq Pool
           /\ m.free \subseteq Pool /\ m.table \in [Tables -> Pool \cup {NoFrame}] /\ m.page \in [Mappable -> Page] /\ m.ok \in BOOLEAN
           /\ \A n \in Tables : m.table[n] # NoFrame => m.table[n] \in U /\ m.table[n] \notin m.free
           /\ \A n, k \in Tables : m.table[n] # NoFrame /\ k # n => m.table[k] # m.table[n]
           /\ \A n \in Tables, v \in Mappable :
                 m.table[n] # NoFrame /\ m.page[v].owned => m.page[v].frame # m.table[n]
           /\ \A v \in Mappable : m.page[v].owned => m.page[v].frame \in U /\ m.page[v].frame \notin m.free
           /\ \A v, x \in Mappable :
                 m.page[v].owned /\ m.page[x].owned /\ x # v => m.page[x].frame # m.page[v].frame
BY DEF Apart, Memory

LEMMA ApartHolds ==
    ASSUME NEW m, NEW U, m \in Memory, m.free \subseteq U, U \subseteq Pool,
           \A n \in Tables : m.table[n] # NoFrame => m.table[n] \in U /\ m.table[n] \notin m.free,
           \A n, k \in Tables : m.table[n] # NoFrame /\ k # n => m.table[k] # m.table[n],
           \A n \in Tables, v \in Mappable :
              m.table[n] # NoFrame /\ m.page[v].owned => m.page[v].frame # m.table[n],
           \A v \in Mappable : m.page[v].owned => m.page[v].frame \in U /\ m.page[v].frame \notin m.free,
           \A v, x \in Mappable :
              m.page[v].owned /\ m.page[x].owned /\ x # v => m.page[x].frame # m.page[v].frame
    PROVE  Apart(m, U)
BY DEF Apart

\* Only the tables and pages matter, and the frames they are taken from.
LEMMA MemoryIs ==
    \A a \in SUBSET Pool, b \in [Tables -> Pool \cup {NoFrame}], c \in [Mappable -> Page], d \in BOOLEAN :
        [free |-> a, table |-> b, page |-> c, ok |-> d] \in Memory
BY DEF Memory

\* A frame between two places: taken, and not yet anywhere.
Loose(m, U, f) ==
    /\ f \in U /\ f \in Pool /\ f \notin m.free
    /\ \A n \in Tables : m.table[n] # f
    /\ \A v \in Mappable : m.page[v].owned => m.page[v].frame # f

LEMMA Taken ==
    ASSUME NEW m, NEW U, Apart(m, U), NEW f \in m.free, NEW w, w \in Memory,
           w.free = m.free \ {f}, w.table = m.table, w.page = m.page
    PROVE  Apart(w, U) /\ Loose(w, U, f)
<1>1. Apart(w, U)
  BY ApartSays, ApartHolds
<1>2. f \in Pool /\ f # NoFrame
  BY ApartSays, NoFrameIsNone
<1>3. \A n \in Tables : m.table[n] # f
  BY <1>2, ApartSays
<1>4. \A v \in Mappable : m.page[v].owned => m.page[v].frame # f
  BY ApartSays
<1> QED BY <1>1, <1>2, <1>3, <1>4, ApartSays DEF Loose

LEMMA GivenBack ==
    ASSUME NEW m, NEW U, Apart(m, U), NEW f, Loose(m, U, f), NEW w, w \in Memory,
           w.free = m.free \cup {f}, w.table = m.table, w.page = m.page
    PROVE  Apart(w, U)
<1>1. \A n \in Tables : m.table[n] # f
  BY DEF Loose
<1>2. \A v \in Mappable : m.page[v].owned => m.page[v].frame # f
  BY DEF Loose
<1>3. f \in U
  BY DEF Loose
<1> QED BY <1>1, <1>2, <1>3, ApartSays, ApartHolds

\* A loose frame becomes a table.
LEMMA Tabled ==
    ASSUME NEW m, NEW U, Apart(m, U), NEW f, Loose(m, U, f), NEW name \in Tables, m.table[name] = NoFrame,
           NEW w, w \in Memory, w.free = m.free, w.page = m.page, w.table = [m.table EXCEPT ![name] = f]
    PROVE  Apart(w, U)
<1>1. w.table[name] = f /\ \A n \in Tables : n # name => w.table[n] = m.table[n]
  BY ApartSays
<1>2. f \in U /\ f # NoFrame /\ f \notin m.free
  BY NoFrameIsNone DEF Loose
<1>3. \A n \in Tables : m.table[n] # f
  BY DEF Loose
<1>4. \A v \in Mappable : m.page[v].owned => m.page[v].frame # f
  BY DEF Loose
<1>5. \A n \in Tables : w.table[n] # NoFrame => w.table[n] \in U /\ w.table[n] \notin w.free
  BY <1>1, <1>2, ApartSays
<1>6. \A n, k \in Tables : w.table[n] # NoFrame /\ k # n => w.table[k] # w.table[n]
  BY <1>1, <1>2, <1>3, ApartSays
<1>7. \A n \in Tables, v \in Mappable :
         w.table[n] # NoFrame /\ w.page[v].owned => w.page[v].frame # w.table[n]
  BY <1>1, <1>4, ApartSays
<1> QED BY <1>5, <1>6, <1>7, ApartSays, ApartHolds

\* A loose frame becomes a page, or a page stops being one.
LEMMA Paged ==
    ASSUME NEW m, NEW U, Apart(m, U), NEW va, NEW d \in Page, d.owned => Loose(m, U, d.frame),
           NEW w, w \in Memory, w.free = m.free, w.table = m.table, w.page = [m.page EXCEPT ![va] = d]
    PROVE  Apart(w, U)
<1>1. \A v \in Mappable : w.page[v] = IF v = va THEN d ELSE m.page[v]
  BY ApartSays
<1>2. \A v \in Mappable : w.page[v].owned =>
         \/ v = va /\ w.page[v] = d /\ Loose(m, U, d.frame)
         \/ v # va /\ w.page[v] = m.page[v] /\ m.page[v].owned
  BY <1>1
<1>3. Loose(m, U, d.frame) =>
         /\ d.frame \in U /\ d.frame \notin m.free
         /\ \A n \in Tables : m.table[n] # d.frame
         /\ \A v \in Mappable : m.page[v].owned => m.page[v].frame # d.frame
  BY DEF Loose
<1>4. \A n \in Tables, v \in Mappable :
         w.table[n] # NoFrame /\ w.page[v].owned => w.page[v].frame # w.table[n]
  BY <1>2, <1>3, ApartSays
<1>5. \A v \in Mappable : w.page[v].owned => w.page[v].frame \in U /\ w.page[v].frame \notin w.free
  BY <1>2, <1>3, ApartSays
<1>6. \A v, x \in Mappable :
         w.page[v].owned /\ w.page[x].owned /\ x # v => w.page[x].frame # w.page[v].frame
  BY <1>2, <1>3, ApartSays
<1> QED BY <1>4, <1>5, <1>6, ApartSays, ApartHolds

\* A step that fails leaves everything where it is.
LEMMA Failed ==
    ASSUME NEW m, NEW U, Apart(m, U)
    PROVE  /\ Apart([m EXCEPT !.ok = FALSE], U)
           /\ [m EXCEPT !.ok = FALSE].free = m.free
           /\ [m EXCEPT !.ok = FALSE].table = m.table
           /\ [m EXCEPT !.ok = FALSE].page = m.page
<1> DEFINE w == [m EXCEPT !.ok = FALSE]
<1>0. m \in Memory
  BY ApartSays
<1>1. w \in Memory /\ w.free = m.free /\ w.table = m.table /\ w.page = m.page
  BY <1>0 DEF Memory
<1> HIDE DEF w
<1>2. Apart(w, U)
  BY <1>1, ApartSays, ApartHolds
<1> QED BY <1>1, <1>2 DEF w

\* alloc_table, with or without a frame to take; a frame in hand stays there.
LEMMA AllocTable ==
    ASSUME NEW m, NEW U, Apart(m, U), NEW name \in Tables
    PROVE  LET w == alloc_table(m, name)
           IN  Apart(w, U) /\ (w.ok => m.ok) /\ \A f : Loose(m, U, f) => Loose(w, U, f)
<1> DEFINE w == alloc_table(m, name)
<1>1. m \in Memory
  BY ApartSays
<1>2. CASE ~ m.ok \/ m.table[name] # NoFrame
  <2>1. w = m
    BY <1>2 DEF alloc_table
  <2> QED BY <2>1
<1>3. CASE m.ok /\ m.table[name] = NoFrame /\ m.free = {}
  <2>1. w = [m EXCEPT !.ok = FALSE]
    BY <1>3 DEF alloc_table
  <2>2. Apart(w, U) /\ w.free = m.free /\ w.table = m.table /\ w.page = m.page
    BY <2>1, Failed
  <2> QED BY <1>3, <2>2 DEF Loose
<1>4. CASE m.ok /\ m.table[name] = NoFrame /\ m.free # {}
  <2>1. PICK f \in m.free : f = Lowest(m.free)
    BY <1>4, ApartSays, LowestIsFree
  <2>2. f \in Pool
    BY ApartSays
  <2> DEFINE tbl == [m.table EXCEPT ![name] = f]
             rest == m.free \ {f}
             x == [m EXCEPT !.free = rest]
             y == [m EXCEPT !.table = tbl, !.free = rest]
  <2>3. w = y
    BY <1>1, <1>4, <2>1 DEF alloc_table, Memory
  <2>4. tbl \in [Tables -> Pool \cup {NoFrame}] /\ rest \in SUBSET Pool
    BY <2>2, ApartSays
  <2>5. /\ x \in Memory /\ x.free = rest /\ x.table = m.table /\ x.page = m.page
        /\ y \in Memory /\ y.free = rest /\ y.table = tbl /\ y.page = m.page /\ y.ok = m.ok
    <3> HIDE DEF tbl, rest
    <3> QED BY <1>1, <2>4 DEF Memory
  <2> HIDE DEF w, x, y
  <2>6. Apart(x, U) /\ Loose(x, U, f)
    BY <2>5, Taken
  <2>7. Apart(y, U)
    BY <1>4, <2>5, <2>6, Tabled
  <2>8. ASSUME NEW g, Loose(m, U, g) PROVE Loose(y, U, g)
    <3>1. g # f
      BY <2>8 DEF Loose
    <3>2. \A n \in Tables : y.table[n] # g
      BY <2>5, <2>8, <3>1, ApartSays DEF Loose
    <3> QED BY <2>5, <2>8, <3>2 DEF Loose
  <2> QED BY <2>3, <2>5, <2>7, <2>8 DEF w
<1> QED BY <1>2, <1>3, <1>4

LEMMA LeafTable ==
    ASSUME NEW m, NEW U, Apart(m, U), NEW va
    PROVE  LET w == leaf_table(m, va)
           IN  Apart(w, U) /\ (w.ok => m.ok) /\ \A f : Loose(m, U, f) => Loose(w, U, f)
<1> DEFINE x == alloc_table(m, Path(va)[1])
           w == alloc_table(x, Path(va)[2])
<1>1. Path(va)[1] \in Tables /\ Path(va)[2] \in Tables
  BY DEF Path, Tables
<1>2. leaf_table(m, va) = w
  BY DEF leaf_table
<1>3. Apart(x, U) /\ (x.ok => m.ok) /\ \A f : Loose(m, U, f) => Loose(x, U, f)
  BY <1>1, AllocTable
<1> HIDE DEF x
<1>4. Apart(w, U) /\ (w.ok => x.ok) /\ \A f : Loose(x, U, f) => Loose(w, U, f)
  BY <1>1, <1>3, AllocTable
<1> QED BY <1>2, <1>3, <1>4

\* map_page, of a frame that is in no other place.
LEMMA MapPage ==
    ASSUME NEW m, NEW U, Apart(m, U), NEW va, NEW d \in Page, d.owned => Loose(m, U, d.frame)
    PROVE  LET w == map_page(m, va, d)
           IN  /\ Apart(w, U)
               /\ w.ok => m.ok
               /\ ~ w.ok => \A f : Loose(m, U, f) => Loose(w, U, f)
<1> DEFINE x == leaf_table(m, va)
           w == map_page(m, va, d)
<1>1. Apart(x, U) /\ (x.ok => m.ok) /\ \A f : Loose(m, U, f) => Loose(x, U, f)
  BY LeafTable
<1>2. CASE ~ x.ok
  <2>1. w = x
    BY <1>2 DEF map_page
  <2> QED BY <1>1, <2>1
<1>3. CASE x.ok
  <2> DEFINE pages == [x.page EXCEPT ![va] = d]
             y == [x EXCEPT !.page = pages]
  <2>0. x \in Memory
    BY <1>1, ApartSays
  <2>1. w = y
    BY <1>3, <2>0 DEF map_page, Memory
  <2>2. pages \in [Mappable -> Page]
    <3> HIDE DEF x
    <3> QED BY <1>1, ApartSays
  <2>3. y \in Memory /\ y.free = x.free /\ y.table = x.table /\ y.page = pages /\ y.ok = x.ok
    <3> HIDE DEF pages, x
    <3> QED BY <2>0, <2>2 DEF Memory
  <2> HIDE DEF x, y, w
  <2>4. Apart(y, U)
    BY <1>1, <2>3, Paged
  <2> QED BY <1>1, <1>3, <2>1, <2>3, <2>4 DEF w
<1> QED BY <1>2, <1>3

\* map_fresh: the frame is a page, or back in the pool.
LEMMA MapFresh ==
    ASSUME NEW m, NEW U, Apart(m, U), NEW va
    PROVE  Apart(map_fresh(m, va), U)
<1>1. m \in Memory
  BY ApartSays
<1>2. CASE ~ m.ok \/ m.free = {}
  <2>1. map_fresh(m, va) = [m EXCEPT !.ok = FALSE]
    BY <1>2 DEF map_fresh
  <2> QED BY <2>1, Failed
<1>3. CASE m.ok /\ m.free # {}
  <2>1. PICK f \in m.free : f = Lowest(m.free)
    BY <1>3, ApartSays, LowestIsFree
  <2> DEFINE rest == m.free \ {f}
             x == [m EXCEPT !.free = rest]
             d == [frame |-> f, owned |-> TRUE]
             w == map_page(x, va, d)
             back == w.free \cup {f}
             y == [w EXCEPT !.free = back]
  <2>2. f \in Pool /\ f \in Int
    BY ApartSays, NoFrameIsNone
  <2>3. x \in Memory /\ x.free = rest /\ x.table = m.table /\ x.page = m.page
    <3>1. rest \in SUBSET Pool
      BY ApartSays
    <3> HIDE DEF rest
    <3> QED BY <1>1, <3>1 DEF Memory
  <2>4. map_fresh(m, va) = IF w.ok THEN w ELSE y
    BY <1>1, <1>3, <2>1 DEF map_fresh, Memory
  <2>5. d \in Page /\ d.owned /\ d.frame = f
    BY <2>2 DEF Page
  <2> HIDE DEF x, d
  <2>6. Apart(x, U) /\ Loose(x, U, f)
    BY <2>3, Taken
  <2>7. Apart(w, U) /\ (~ w.ok => Loose(w, U, f))
    BY <2>5, <2>6, MapPage
  <2>8. ASSUME ~ w.ok PROVE Apart(y, U)
    <3>1. w \in Memory
      BY <2>7, ApartSays
    <3>2. back \in SUBSET Pool
      <4>1. w.free \subseteq Pool
        BY <2>7, ApartSays
      <4> QED BY <2>2, <4>1
    <3>3. y \in Memory /\ y.free = back /\ y.table = w.table /\ y.page = w.page
      <4> HIDE DEF w, back
      <4> QED BY <3>1, <3>2 DEF Memory
    <3> HIDE DEF w, y
    <3> QED BY <2>7, <2>8, <3>3, GivenBack
  <2> QED BY <2>4, <2>7, <2>8
<1> QED BY <1>2, <1>3

\* unmap: an owned frame goes back, and its page with it.
LEMMA Unmapped ==
    ASSUME NEW m, NEW U, Apart(m, U), NEW va \in Mappable
    PROVE  Apart(unmap(m, va), U)
<1> DEFINE pages == [m.page EXCEPT ![va] = NoPage]
           x == [m EXCEPT !.page = pages]
           f == m.page[va].frame
           back == IF m.page[va].owned THEN m.free \cup {f} ELSE m.free
           y == [m EXCEPT !.page = pages, !.free = back]
<1>1. m \in Memory
  BY ApartSays
<1>2. unmap(m, va) = y
  BY <1>1 DEF unmap, Memory
<1>3. NoPage \in Page /\ ~ NoPage.owned
  BY DEF NoPage, Page, NoFrame
<1>4. pages \in [Mappable -> Page]
  BY <1>3, ApartSays
<1>5. m.page[va].owned => f \in U /\ f \in Pool /\ f \notin m.free
  BY ApartSays
<1>6. back \in SUBSET Pool
  BY <1>5, ApartSays
<1>7. /\ x \in Memory /\ x.free = m.free /\ x.table = m.table /\ x.page = pages
      /\ y \in Memory /\ y.free = back /\ y.table = m.table /\ y.page = pages
  <2> HIDE DEF pages, back
  <2> QED BY <1>1, <1>4, <1>6 DEF Memory
<1> HIDE DEF x, y
<1>8. Apart(x, U)
  BY <1>3, <1>7, Paged
<1>9. m.page[va].owned => Loose(x, U, f)
  <2>1. \A v \in Mappable : pages[v] = IF v = va THEN NoPage ELSE m.page[v]
    BY ApartSays
  <2>2. SUFFICES ASSUME m.page[va].owned PROVE Loose(x, U, f)
    OBVIOUS
  <2>3. \A n \in Tables : m.table[n] # f
    BY <1>5, <2>2, NoFrameIsNone, ApartSays
  <2>4. \A v \in Mappable : pages[v].owned => pages[v].frame # f
    BY <1>3, <2>1, <2>2, ApartSays
  <2> QED BY <1>5, <1>7, <2>2, <2>3, <2>4 DEF Loose
<1>10. Apart(y, U)
  <2>1. CASE m.page[va].owned
    BY <1>7, <1>8, <1>9, <2>1, GivenBack
  <2>2. CASE ~ m.page[va].owned
    BY <1>7, <1>8, <2>2, ApartSays, ApartHolds
  <2> QED BY <2>1, <2>2
<1> QED BY <1>2, <1>10

\* free_table gives back frames of U only.
LEMMA FreedTable ==
    ASSUME NEW m, NEW U, Apart(m, U)
    PROVE  Apart(free_table(m), U)
<1> DEFINE back == m.free \cup owned(m) \cup ({m.table[n] : n \in Tables} \ {NoFrame})
           w == [free |-> back, table |-> Empty.table, page |-> Empty.page, ok |-> m.ok]
<1>1. free_table(m) = w
  BY DEF free_table
<1>2. back \subseteq U
  <2>1. owned(m) \subseteq U
    BY ApartSays DEF owned
  <2>2. {m.table[n] : n \in Tables} \ {NoFrame} \subseteq U
    BY ApartSays
  <2> QED BY <2>1, <2>2, ApartSays
<1>3. /\ Empty.table \in [Tables -> Pool \cup {NoFrame}] /\ \A n \in Tables : Empty.table[n] = NoFrame
      /\ Empty.page \in [Mappable -> Page] /\ \A v \in Mappable : ~ Empty.page[v].owned
  BY DEF Empty, NoPage, Page, NoFrame
<1>4. back \in SUBSET Pool /\ m.ok \in BOOLEAN
  BY <1>2, ApartSays
<1>5. w \in Memory /\ w.free = back /\ w.table = Empty.table /\ w.page = Empty.page
  <2> HIDE DEF back
  <2> QED BY <1>3, <1>4, MemoryIs
<1> HIDE DEF w, back
<1>6. Apart(w, U)
  BY <1>2, <1>3, <1>5, ApartSays, ApartHolds
<1> QED BY <1>1, <1>6

LEMMA BuiltApart ==
    ASSUME NEW s, NEW U, Apart(Under(s), U)
    PROVE  Apart(Built(s), U)
<1> DEFINE r == alloc_table(Under(s), "root")
           d == map_fresh(r, USER_DATA_VA)
           p == map_fresh(d, USER_STACK_TOP - 1)
           g == map_fresh(p, USER_IMAGE)
<1>1. Built(s) = IF g.ok THEN g ELSE free_table(g)
  BY DEF Built
<1>2. Apart(r, U)
  BY AllocTable DEF Tables
<1> HIDE DEF r
<1>3. Apart(d, U)
  BY <1>2, MapFresh
<1> HIDE DEF d
<1>4. Apart(p, U)
  BY <1>3, MapFresh
<1> HIDE DEF p
<1>5. Apart(g, U)
  BY <1>4, MapFresh
<1> HIDE DEF g
<1>6. Apart(free_table(g), U)
  BY <1>5, FreedTable
<1> QED BY <1>1, <1>5, <1>6

\* What a space holds, frame by frame.
LEMMA HeldIs ==
    \A s, f : f \in Held(s) <=>
        \/ f # NoFrame /\ \E n \in Tables : space[s].table[n] = f
        \/ \E v \in Mappable : space[s].page[v].owned /\ space[s].page[v].frame = f
BY DEF Held, owned

LEMMA UnderIs ==
    \A s : /\ Under(s).free = free /\ Under(s).table = space[s].table /\ Under(s).page = space[s].page
           /\ Under(s) = [free |-> free, table |-> space[s].table, page |-> space[s].page, ok |-> TRUE]
BY DEF Under

\* What is done to one space under the frame lock leaves the others alone.
LEMMA CommitKeeps ==
    ASSUME SpacesApart, NEW s \in UserSpaces, NEW m, Apart(m, free \cup Held(s)), Commit(s, m)
    PROVE  SpacesApart'
<1> DEFINE Trees == [table : [Tables -> Pool \cup {NoFrame}], page : [Mappable -> Page]]
           tree == [table |-> m.table, page |-> m.page]
<1>1. free \subseteq Pool /\ space \in [UserSpaces -> Trees]
  BY DEF SpacesApart
<1>2. m.free \subseteq Pool /\ m.table \in [Tables -> Pool \cup {NoFrame}] /\ m.page \in [Mappable -> Page]
  BY ApartSays
<1>3. tree \in Trees /\ tree.table = m.table /\ tree.page = m.page
  BY <1>2
<1> HIDE DEF tree
<1>4. free' = m.free /\ space' = [space EXCEPT ![s] = tree]
  BY DEF Commit, tree
<1>5. space'[s] = tree /\ \A r \in UserSpaces : r # s => space'[r] = space[r]
  BY <1>1, <1>4
<1>6. space' \in [UserSpaces -> Trees] /\ free' \subseteq Pool
  BY <1>1, <1>2, <1>3, <1>4
<1>7. \A r \in UserSpaces : r # s => Held(r)' = Held(r)
  BY <1>5 DEF Held, owned
<1>8. \A f : f \in Held(s)' <=>
          \/ f # NoFrame /\ \E n \in Tables : m.table[n] = f
          \/ \E v \in Mappable : m.page[v].owned /\ m.page[v].frame = f
  BY <1>3, <1>5 DEF Held, owned
<1>9. m.free \subseteq free \cup Held(s) /\ Held(s)' \subseteq free \cup Held(s) /\ Held(s)' \cap m.free = {}
  BY <1>8, ApartSays
<1>10. \A r \in UserSpaces : Held(r) \subseteq Pool /\ Held(r) \cap free = {}
  <2> SUFFICES ASSUME NEW r \in UserSpaces PROVE Held(r) \subseteq Pool /\ Held(r) \cap free = {}
    OBVIOUS
  <2>1. Apart(Under(r), free \cup Held(r))
    BY DEF SpacesApart
  <2> QED BY <2>1, UnderIs, HeldIs, ApartSays
<1>11. \A r \in UserSpaces : r # s => Held(r) \cap Held(s) = {}
  BY DEF SpacesApart
<1>12. \A r \in UserSpaces : r # s => Held(r)' \cap free' = {} /\ Held(r)' \cap Held(s)' = {}
  BY <1>4, <1>7, <1>9, <1>10, <1>11
<1>13. \A r, q \in UserSpaces : r # q => Held(r)' \cap Held(q)' = {}
  <2>1. \A r, q \in UserSpaces : r # q => Held(r) \cap Held(q) = {}
    BY DEF SpacesApart
  <2> QED BY <1>7, <1>12, <2>1
<1>14. Apart(Under(s)', free' \cup Held(s)')
  <2> DEFINE x == [free |-> m.free, table |-> m.table, page |-> m.page, ok |-> TRUE]
  <2>1. PICK H : H = Held(s)'
    OBVIOUS
  <2>2. x \in Memory /\ x.free = m.free /\ x.table = m.table /\ x.page = m.page
    BY <1>2, MemoryIs
  <2> HIDE DEF x
  <2>3. m.free \cup H \subseteq Pool
    <3>1. Held(s)' \subseteq Pool
      BY <1>1, <1>9, <1>10
    <3> QED BY <1>2, <2>1, <3>1
  <2>4. \A n \in Tables : m.table[n] # NoFrame => m.table[n] \in m.free \cup H /\ m.table[n] \notin m.free
    BY <1>8, <2>1, ApartSays
  <2>5. \A v \in Mappable : m.page[v].owned => m.page[v].frame \in m.free \cup H /\ m.page[v].frame \notin m.free
    BY <1>8, <2>1, ApartSays
  <2>6. Apart(x, m.free \cup H)
    BY <2>2, <2>3, <2>4, <2>5, ApartSays, ApartHolds
  <2>7. Under(s)' = x
    BY <1>3, <1>4, <1>5 DEF Under, x
  <2> QED BY <1>4, <2>1, <2>6, <2>7
<1>15. ASSUME NEW r \in UserSpaces, r # s
       PROVE  Apart(Under(r)', free' \cup Held(r)')
  <2>1. PICK x, H : x = Under(r) /\ H = Held(r)
    OBVIOUS
  <2> DEFINE y == [free |-> m.free, table |-> x.table, page |-> x.page, ok |-> TRUE]
  <2>2. Apart(x, free \cup H)
    BY <2>1 DEF SpacesApart
  <2>3. y \in Memory /\ y.free = m.free /\ y.table = x.table /\ y.page = x.page
    <3>1. x.table \in [Tables -> Pool \cup {NoFrame}] /\ x.page \in [Mappable -> Page]
      BY <2>2, ApartSays
    <3> QED BY <1>2, <3>1, MemoryIs
  <2> HIDE DEF y
  <2>4. H \subseteq Pool /\ H \cap m.free = {}
    BY <1>4, <1>7, <1>10, <1>12, <1>15, <2>1
  <2>5. \A n \in Tables : x.table[n] # NoFrame => x.table[n] \in H
    BY <2>1, UnderIs, HeldIs
  <2>6. \A v \in Mappable : x.page[v].owned => x.page[v].frame \in H
    BY <2>1, UnderIs, HeldIs
  <2>7. Apart(y, m.free \cup H)
    BY <1>2, <2>2, <2>3, <2>4, <2>5, <2>6, ApartSays, ApartHolds
  <2>8. Under(r)' = y
    BY <1>4, <1>5, <1>15, <2>1, UnderIs DEF Under, y
  <2>9. Held(r)' = H
    BY <1>7, <1>15, <2>1
  <2> QED BY <1>4, <2>7, <2>8, <2>9
<1>16. \A r \in UserSpaces : Apart(Under(r), free \cup Held(r))'
  BY <1>14, <1>15
<1> QED BY <1>6, <1>13, <1>16 DEF SpacesApart

\* The call in progress: what an unmap works on is inside the window.
LEMMA OnwardFits ==
    ASSUME CallsFit, NEW t \in UserTasks, NEW c, op' = [op EXCEPT ![t] = c],
           c.kind = "unmap" => c.left \in Nat /\ c.va \in Mappable /\ c.va + c.left - 1 \in Mappable,
           c.kind = "shared" => c.arg \in Objects,
           c.kind = "thread" => c.arg \in UserTasks /\ c.va + 1 \in Cursors
    PROVE  CallsFit'
<1>1. DOMAIN op' = UserTasks /\ \A u \in UserTasks : op'[u] = IF u = t THEN c ELSE op[u]
  BY DEF CallsFit
<1> QED BY <1>1 DEF CallsFit

LEMMA CallEnds == ASSUME CallsFit, NEW t \in UserTasks, op' = [op EXCEPT ![t] = NoCall] PROVE CallsFit'
<1>1. NoCall.kind = "none"
  BY DEF NoCall
<1> QED BY <1>1, OnwardFits

LEMMA MappableIs == \E hi \in Int : Mappable = 0 .. hi
<1>1. Cardinality(Objects) \in Nat
  BY AddressSpacesAssumption, FS_CardinalityType
<1> QED BY <1>1, AddressSpacesAssumption
        DEF Mappable, USER_IMAGE, USER_SHARED_VA, USER_HEAP_END, USER_HEAP_BASE

LEMMA CallGoesOn == ASSUME CallsFit, NEW t \in UserTasks, op' = [op EXCEPT ![t] = Onward(t)],
                           op[t].kind \in {"anon", "unmap"}
                    PROVE  CallsFit'
<1>1. CASE op[t].left > 1
  <2> DEFINE c == [kind |-> op[t].kind, va |-> op[t].va + 1, left |-> op[t].left - 1, arg |-> 0]
  <2>1. Onward(t) = c
    BY <1>1 DEF Onward
  <2>2. c.kind = "unmap" => c.left \in Nat /\ c.va \in Mappable /\ c.va + c.left - 1 \in Mappable
    <3>1. SUFFICES ASSUME op[t].kind = "unmap"
                   PROVE  /\ op[t].left - 1 \in Nat /\ op[t].va + 1 \in Mappable
                          /\ (op[t].va + 1) + (op[t].left - 1) - 1 \in Mappable
      OBVIOUS
    <3>2. op[t].left \in Nat /\ op[t].va \in Mappable /\ op[t].va + op[t].left - 1 \in Mappable
      BY <3>1 DEF CallsFit
    <3>3. PICK hi \in Int : Mappable = 0 .. hi
      BY MappableIs
    <3>4. PICK n, a : n = op[t].left /\ a = op[t].va
      OBVIOUS
    <3>5. n \in Nat /\ n > 1 /\ a \in 0 .. hi /\ a + n - 1 \in 0 .. hi
      BY <1>1, <3>2, <3>3, <3>4
    <3>6. n - 1 \in Nat /\ a + 1 \in 0 .. hi /\ (a + 1) + (n - 1) - 1 \in 0 .. hi
      BY <3>5
    <3> QED BY <3>3, <3>4, <3>6, Zenon
  <2>3. c.kind # "shared" /\ c.kind # "thread"
    OBVIOUS
  <2> QED BY <2>1, <2>2, <2>3, OnwardFits
<1>2. CASE ~ (op[t].left > 1)
  BY <1>2, CallEnds DEF Onward
<1> QED BY <1>1, <1>2

LEMMA SpaceOfTask == \A t \in UserTasks : AddressSpaceOf[t] \in UserSpaces
BY DEF UserSpaces

LEMMA Quiet == ASSUME VmInv, free' = free, space' = space PROVE SpacesApart'
<1>1. \A s : Under(s)' = Under(s) /\ Held(s)' = Held(s)
  BY DEF Under, Held, owned
<1>2. \A s \in UserSpaces : Apart(Under(s), free \cup Held(s))'
  BY <1>1 DEF VmInv, SpacesApart
<1>3. \A s, r \in UserSpaces : s # r => Held(s)' \cap Held(r)' = {}
  BY <1>1 DEF VmInv, SpacesApart
<1> QED BY <1>2, <1>3 DEF VmInv, SpacesApart

\* The cursor furthest along is one of the cursors, and what is reserved past
\* it is inside the region.
LEMMA Reserved ==
    ASSUME VmTypeOK, NEW t \in live, NEW pages \in Nat, reserve_anon_shared(t, pages)
    PROVE  /\ top(AddressSpaceOf[t]) + pages \in Cursors
           /\ heap_next' \in [UserTasks -> Cursors]
<1> DEFINE s == AddressSpaceOf[t]
           S == {heap_next[u] : u \in Of(s)}
<1>1. Of(s) \subseteq UserTasks /\ t \in Of(s)
  BY DEF Of, VmTypeOK
<1>2. S \subseteq Cursors /\ S # {}
  BY <1>1 DEF VmTypeOK
<1>3. USER_HEAP_BASE \in Nat /\ USER_HEAP_END \in Nat
  BY AddressSpacesAssumption DEF USER_HEAP_BASE, USER_HEAP_END
<1>4. S \subseteq 0..USER_HEAP_END
  BY <1>2, <1>3 DEF Cursors
<1>5. top(s) \in S
  <2>1. PICK n \in S : \A x \in S : n >= x
    <3> HIDE DEF S
    <3> QED BY <1>2, <1>3, <1>4, GreatestNat
  <2>2. \A u \in Of(s) : heap_next[u] \in S
    OBVIOUS
  <2>3. \A u \in Of(s) : heap_next[u] <= n
    <3>1. \A x \in S : x \in Int
      BY <1>3, <1>4
    <3> HIDE DEF S
    <3> QED BY <2>1, <2>2, <3>1
  <2> QED BY <2>3 DEF top
<1>6. top(s) + pages \in Cursors
  <2>1. top(s) \in Cursors
    BY <1>2, <1>5
  <2>2. top(s) + pages <= USER_HEAP_END
    BY DEF reserve_anon_shared
  <2> QED BY <1>3, <2>1, <2>2 DEF Cursors
<1>7. heap_next' = [u \in UserTasks |-> IF u \in Of(s) THEN top(s) + pages ELSE heap_next[u]]
  BY DEF reserve_anon_shared
<1> HIDE DEF s
<1>8. heap_next' \in [UserTasks -> Cursors]
  BY <1>6, <1>7 DEF VmTypeOK
<1> QED BY <1>6, <1>8 DEF s

\* A space as the frame lock's holder finds it.
LEMMA Found == ASSUME VmInv, NEW s \in UserSpaces
               PROVE  /\ SpacesApart /\ CallsFit
                      /\ Apart(Under(s), free \cup Held(s))
BY DEF VmInv, SpacesApart
-----------------------------------------------------------------------------
LEMMA VmInitOK == VmInit => VmInv
<1> SUFFICES ASSUME VmInit PROVE VmInv
  OBVIOUS
<1>1. /\ Empty.table \in [Tables -> Pool \cup {NoFrame}] /\ \A n \in Tables : Empty.table[n] = NoFrame
      /\ Empty.page \in [Mappable -> Page] /\ \A v \in Mappable : ~ Empty.page[v].owned
      /\ Empty = [table |-> Empty.table, page |-> Empty.page]
  BY DEF Empty, NoPage, Page, NoFrame
<1>2. free = Pool /\ \A s \in UserSpaces : space[s] = Empty
  BY DEF VmInit, Pool
<1>3. \A s \in UserSpaces : Held(s) = {}
  BY <1>1, <1>2 DEF Held, owned
<1>4. space \in [UserSpaces -> [table : [Tables -> Pool \cup {NoFrame}], page : [Mappable -> Page]]]
  <2>1. Empty \in [table : [Tables -> Pool \cup {NoFrame}], page : [Mappable -> Page]]
    BY <1>1
  <2> QED BY <2>1 DEF VmInit
<1>5. \A s \in UserSpaces : Apart(Under(s), free \cup Held(s))
  <2> SUFFICES ASSUME NEW s \in UserSpaces PROVE Apart(Under(s), free \cup Held(s))
    OBVIOUS
  <2> DEFINE x == Under(s)
  <2>1. x.free = Pool /\ x.table = Empty.table /\ x.page = Empty.page
    BY <1>2, UnderIs
  <2>2. x \in Memory
    BY <1>1, <1>2, MemoryIs DEF Under
  <2>3. free \cup Held(s) = Pool
    BY <1>2, <1>3
  <2> HIDE DEF x
  <2>4. Apart(x, Pool)
    BY <1>1, <2>1, <2>2, ApartHolds
  <2> QED BY <2>3, <2>4 DEF x
<1>6. SpacesApart
  BY <1>2, <1>3, <1>4, <1>5 DEF SpacesApart
<1>7. VmTypeOK
  BY AddressSpacesAssumption DEF VmInit, VmTypeOK, Cursors, USER_HEAP_BASE, USER_HEAP_END
<1>8. CallsFit
  <2>1. NoCall.kind = "none"
    BY DEF NoCall
  <2> QED BY <2>1 DEF VmInit, CallsFit
<1> QED BY <1>6, <1>7, <1>8 DEF VmInv

LEMMA SpacesStep == ASSUME VmInv, [VmNext]_vmVars PROVE SpacesApart' /\ CallsFit'
<1>0. VmTypeOK /\ SpacesApart /\ CallsFit
  BY DEF VmInv
<1>1. CASE UNCHANGED vmVars
  <2>1. free' = free /\ space' = space /\ op' = op
    BY <1>1 DEF vmVars
  <2> QED BY <1>0, <2>1, Quiet DEF CallsFit
<1>2. CASE VmNext
  <2>1. PICK t \in UserTasks :
          \/ spawn_image(t)
          \/ \E pages \in 1 .. 2 : map_anon_current(t, pages)
          \/ map_anon_at(t)
          \/ \E va \in Given, pages \in 1 .. 2 : unmap_current(t, va, pages)
          \/ unmap_at(t)
          \/ \E va \in Mappable : grow_stack_current(t, va)
          \/ \E u \in UserTasks : spawn_thread(t, u)
          \/ \E ok \in BOOLEAN : spawn_push(t, ok)
          \/ \E b \in Objects : map_shared_current(t, b)
          \/ map_shared(t)
          \/ \E va \in Given : user_range_ok(t, va)
          \/ copy_from_user(t)
          \/ exit(t)
    BY <1>2 DEF VmNext
  <2> DEFINE s == AddressSpaceOf[t]
  <2>2. s \in UserSpaces
    BY SpaceOfTask
  <2>3. CallsFit /\ SpacesApart /\ Apart(Under(s), free \cup Held(s))
    BY <2>2, Found
  <2> HIDE DEF s
  <2>4. \A m : Apart(m, free \cup Held(s)) /\ Commit(s, m) => SpacesApart'
    BY <2>2, <2>3, CommitKeeps
  <2>5. \A va : Apart(map_fresh(Under(s), va), free \cup Held(s))
    BY <2>3, MapFresh
  <2>6. CASE spawn_image(t)
    <3>1. Commit(s, Built(s)) /\ op' = op
      BY <2>6 DEF spawn_image, s
    <3>2. Apart(Built(s), free \cup Held(s))
      BY <2>3, BuiltApart
    <3> QED BY <2>3, <2>4, <3>1, <3>2 DEF CallsFit
  <2>7. CASE \E pages \in 1 .. 2 : map_anon_current(t, pages)
    <3>1. PICK pages \in 1 .. 2 : map_anon_current(t, pages)
      BY <2>7
    <3> DEFINE c == [kind |-> "anon", va |-> top(AddressSpaceOf[t]), left |-> pages, arg |-> 0]
    <3>2. free' = free /\ space' = space /\ op' = [op EXCEPT ![t] = c] /\ c.kind = "anon"
      BY <3>1 DEF map_anon_current
    <3> HIDE DEF c
    <3>3. CallsFit'
      BY <2>3, <3>2, OnwardFits
    <3> QED BY <3>2, <3>3, Quiet
  <2>8. CASE map_anon_at(t)
    <3> DEFINE m == map_fresh(Under(s), op[t].va)
    <3>1. /\ Commit(s, m) /\ op[t].kind = "anon"
          /\ op' = [op EXCEPT ![t] = Onward(t)] \/ op' = [op EXCEPT ![t] = NoCall]
      BY <2>8 DEF map_anon_at, s
    <3>2. Apart(m, free \cup Held(s))
      BY <2>5
    <3> HIDE DEF m
    <3>3. CallsFit'
      BY <2>3, <3>1, CallEnds, CallGoesOn
    <3> QED BY <2>4, <3>1, <3>2, <3>3
  <2>9. CASE \E va \in Given, pages \in 1 .. 2 : unmap_current(t, va, pages)
    <3>1. PICK va \in Given, pages \in 1 .. 2 : unmap_current(t, va, pages)
      BY <2>9
    <3> DEFINE c == [kind |-> "unmap", va |-> va, left |-> pages, arg |-> 0]
    <3>2. /\ free' = free /\ space' = space /\ op' = [op EXCEPT ![t] = c]
          /\ va \in Mappable /\ va + pages - 1 \in Mappable
          /\ c.kind = "unmap" /\ c.va = va /\ c.left = pages /\ pages \in Nat
      BY <3>1 DEF unmap_current
    <3> HIDE DEF c
    <3>3. /\ c.left \in Nat /\ c.va \in Mappable /\ c.va + c.left - 1 \in Mappable
          /\ c.kind # "shared" /\ c.kind # "thread"
      BY <3>2
    <3>4. CallsFit'
      BY <2>3, <3>2, <3>3, OnwardFits
    <3> QED BY <3>2, <3>4, Quiet
  <2>10. CASE unmap_at(t)
    <3>1. /\ Commit(s, unmap(Under(s), op[t].va)) /\ op[t].kind = "unmap"
          /\ op' = [op EXCEPT ![t] = Onward(t)]
      BY <2>10 DEF unmap_at, s
    <3>2. op[t].va \in Mappable
      BY <2>3, <3>1 DEF CallsFit
    <3>3. Apart(unmap(Under(s), op[t].va), free \cup Held(s))
      BY <2>3, <3>2, Unmapped
    <3>4. CallsFit'
      BY <2>3, <3>1, CallGoesOn
    <3> QED BY <2>4, <3>1, <3>3, <3>4
  <2>11. CASE \E va \in Mappable : grow_stack_current(t, va)
    <3>1. PICK va \in Mappable : grow_stack_current(t, va)
      BY <2>11
    <3>2. Commit(s, map_fresh(Under(s), va)) /\ op' = op
      BY <3>1 DEF grow_stack_current, grow_stack, s
    <3> QED BY <2>3, <2>4, <2>5, <3>2 DEF CallsFit
  <2>12. CASE \E u \in UserTasks : spawn_thread(t, u)
    <3>1. PICK u \in UserTasks : spawn_thread(t, u)
      BY <2>12
    <3> DEFINE m == map_fresh(Under(s), top(AddressSpaceOf[t]))
               c == [kind |-> "thread", va |-> top(AddressSpaceOf[t]), left |-> 0, arg |-> u]
    <3>2. Commit(s, m) /\ (op' = [op EXCEPT ![t] = c] \/ op' = op) /\ c.kind = "thread"
      BY <3>1 DEF spawn_thread, s
    <3>3. c.arg \in UserTasks /\ c.va + 1 \in Cursors
      <4>1. t \in live /\ reserve_anon_shared(t, 1)
        BY <3>1 DEF spawn_thread, Reads
      <4> QED BY <1>0, <3>1, <4>1, Reserved
    <3>4. Apart(m, free \cup Held(s))
      BY <2>5
    <3> HIDE DEF m, c
    <3>5. CallsFit'
      <4>1. CASE op' = op
        BY <2>3, <4>1 DEF CallsFit
      <4>2. CASE op' = [op EXCEPT ![t] = c]
        BY <2>3, <3>2, <3>3, <4>2, OnwardFits
      <4> QED BY <3>2, <4>1, <4>2
    <3> QED BY <2>4, <3>2, <3>4, <3>5
  <2>13. CASE \E ok \in BOOLEAN : spawn_push(t, ok)
    <3>1. free' = free /\ space' = space /\ op' = [op EXCEPT ![t] = NoCall]
      BY <2>13 DEF spawn_push
    <3> QED BY <2>3, <3>1, Quiet, CallEnds
  <2>14. CASE \E b \in Objects : map_shared_current(t, b)
    <3>1. PICK b \in Objects : map_shared_current(t, b)
      BY <2>14
    <3> DEFINE c == [kind |-> "shared", va |-> USER_SHARED_VA + Len(shared[t]), left |-> 0, arg |-> b]
    <3>2. free' = free /\ space' = space /\ op' = [op EXCEPT ![t] = c] /\ c.kind = "shared" /\ c.arg = b
      BY <3>1 DEF map_shared_current
    <3> HIDE DEF c
    <3>3. CallsFit'
      BY <2>3, <3>2, OnwardFits
    <3> QED BY <3>2, <3>3, Quiet
  <2>15. CASE map_shared(t)
    <3> DEFINE d == [frame |-> PoolFrames + op[t].arg, owned |-> FALSE]
    <3>1. Commit(s, map_page(Under(s), op[t].va, d)) /\ op[t].kind = "shared" /\ op' = [op EXCEPT ![t] = NoCall]
      BY <2>15 DEF map_shared, s
    <3>2. op[t].arg \in Int /\ PoolFrames \in Int
      <4>1. op[t].arg \in Objects
        BY <2>3, <3>1, Zenon DEF CallsFit
      <4>2. Objects \subseteq Int /\ PoolFrames \in Int
        BY AddressSpacesAssumption
      <4> QED BY <4>1, <4>2, Zenon
    <3>3. d \in Page /\ ~ d.owned
      BY <3>2 DEF Page
    <3> HIDE DEF d
    <3>4. Apart(map_page(Under(s), op[t].va, d), free \cup Held(s))
      BY <2>3, <3>3, MapPage
    <3> QED BY <2>3, <2>4, <3>1, <3>4, CallEnds
  <2>16. CASE \E va \in Given : user_range_ok(t, va)
    <3>1. PICK va \in Given : user_range_ok(t, va)
      BY <2>16
    <3> DEFINE c == [kind |-> "copy", va |-> va, left |-> 0, arg |-> 0]
    <3>2. free' = free /\ space' = space /\ op' = [op EXCEPT ![t] = c] /\ c.kind = "copy"
      BY <3>1 DEF user_range_ok
    <3> HIDE DEF c
    <3>3. CallsFit'
      BY <2>3, <3>2, OnwardFits
    <3> QED BY <3>2, <3>3, Quiet
  <2>17. CASE copy_from_user(t)
    <3>1. free' = free /\ space' = space /\ op' = [op EXCEPT ![t] = NoCall]
      BY <2>17 DEF copy_from_user
    <3> QED BY <2>3, <3>1, Quiet, CallEnds
  <2>18. CASE exit(t)
    <3>1. op' = op /\ (Commit(s, free_table(Under(s))) \/ (free' = free /\ space' = space))
      BY <2>18 DEF exit, s
    <3>2. CallsFit'
      BY <2>3, <3>1 DEF CallsFit
    <3>3. Apart(free_table(Under(s)), free \cup Held(s))
      BY <2>3, FreedTable
    <3> QED BY <2>4, <3>1, <3>2, <3>3, Quiet
  <2> QED BY <2>1, <2>6, <2>7, <2>8, <2>9, <2>10, <2>11, <2>12, <2>13, <2>14, <2>15, <2>16, <2>17, <2>18
<1> QED BY <1>1, <1>2

\* The cursors and the tasks.
LEMMA TypesStep == ASSUME VmInv, [VmNext]_vmVars PROVE heap_next' \in [UserTasks -> Cursors] /\ live' \subseteq UserTasks
<1>0. VmTypeOK /\ CallsFit
  BY DEF VmInv
<1>1. CASE heap_next' = heap_next /\ live' = live
  BY <1>0, <1>1 DEF VmTypeOK
<1>2. CASE UNCHANGED vmVars
  BY <1>1, <1>2 DEF vmVars
<1>3. ASSUME NEW t \in UserTasks, spawn_image(t) PROVE heap_next' = heap_next /\ live' \subseteq UserTasks
  BY <1>0, <1>3 DEF spawn_image, VmTypeOK
<1>4. ASSUME NEW t \in UserTasks, NEW pages \in 1 .. 2, map_anon_current(t, pages)
      PROVE  heap_next' \in [UserTasks -> Cursors] /\ live' = live
  <2>1. t \in live /\ reserve_anon_shared(t, pages) /\ live' = live
    BY <1>4 DEF map_anon_current, Reads
  <2> QED BY <1>0, <2>1, Reserved
<1>5. ASSUME NEW t \in UserTasks, NEW u \in UserTasks, spawn_thread(t, u)
      PROVE  heap_next' \in [UserTasks -> Cursors] /\ live' = live
  <2>1. t \in live /\ reserve_anon_shared(t, 1) /\ live' = live
    BY <1>5 DEF spawn_thread, Reads
  <2> QED BY <1>0, <2>1, Reserved
<1>6. ASSUME NEW t \in UserTasks, NEW ok \in BOOLEAN, spawn_push(t, ok)
      PROVE  heap_next' \in [UserTasks -> Cursors] /\ live' \subseteq UserTasks
  <2>1. op[t].arg \in UserTasks /\ op[t].va + 1 \in Cursors
    BY <1>0, <1>6 DEF CallsFit, spawn_push
  <2> QED BY <1>0, <1>6, <2>1 DEF spawn_push, VmTypeOK
<1>7. ASSUME NEW t \in UserTasks, exit(t)
      PROVE  heap_next' \in [UserTasks -> Cursors] /\ live' \subseteq UserTasks
  <2>1. USER_HEAP_BASE \in Cursors
    BY AddressSpacesAssumption DEF Cursors, USER_HEAP_BASE, USER_HEAP_END
  <2> QED BY <1>0, <1>7, <2>1 DEF exit, VmTypeOK
<1>8. ASSUME NEW t \in UserTasks,
             \/ map_anon_at(t) \/ unmap_at(t) \/ map_shared(t) \/ copy_from_user(t)
             \/ \E va \in Given, pages \in 1 .. 2 : unmap_current(t, va, pages)
             \/ \E va \in Mappable : grow_stack_current(t, va)
             \/ \E b \in Objects : map_shared_current(t, b)
             \/ \E va \in Given : user_range_ok(t, va)
      PROVE  heap_next' = heap_next /\ live' = live
  BY <1>8 DEF map_anon_at, unmap_at, map_shared, copy_from_user, unmap_current, grow_stack_current,
              map_shared_current, user_range_ok
<1>9. CASE VmNext
  BY <1>0, <1>3, <1>4, <1>5, <1>6, <1>7, <1>8, <1>9 DEF VmNext, VmTypeOK
<1> QED BY <1>2, <1>9

LEMMA VmStep == VmInv /\ [VmNext]_vmVars => VmInv'
BY SpacesStep, TypesStep DEF VmInv, VmTypeOK, SpacesApart, Pool

\* Two holders of one frame are the same place, and a free frame has none.
LEMMA OneHolder ==
    ASSUME VmInv, NEW f \in Pool
    PROVE  /\ \A h, k \in Holders(f) : h = k
           /\ f \in free => Holders(f) = {}
<1>1. f # NoFrame
  BY NoFrameIsNone
<1>2. \A h \in Holders(f) : h[1] \in UserSpaces /\ f \in Held(h[1]) /\ h = <<h[1], h[2]>>
  BY <1>1, HeldIs DEF Holders
<1>3. \A h, k \in Holders(f) : h[1] = k[1]
  BY <1>2 DEF VmInv, SpacesApart
<1>4. ASSUME NEW s \in UserSpaces
      PROVE  /\ \A n, k \in Tables : space[s].table[n] = f /\ space[s].table[k] = f => n = k
             /\ \A n \in Tables, v \in Mappable :
                   space[s].table[n] = f => ~ (space[s].page[v].owned /\ space[s].page[v].frame = f)
             /\ \A v, w \in Mappable :
                   /\ space[s].page[v].owned /\ space[s].page[v].frame = f
                   /\ space[s].page[w].owned /\ space[s].page[w].frame = f
                   => v = w
             /\ f \in free => f \notin Held(s)
  <2>1. Apart(Under(s), free \cup Held(s))
    BY Found
  <2> QED BY <1>1, <2>1, UnderIs, HeldIs, ApartSays
<1>5. ASSUME NEW h \in Holders(f), NEW k \in Holders(f) PROVE h[2] = k[2]
  <2>1. PICK s \in UserSpaces : s = h[1] /\ s = k[1]
    BY <1>2, <1>3, <1>5
  <2>2. \/ h[2] \in Tables /\ space[s].table[h[2]] = f
        \/ h[2] \in Mappable /\ space[s].page[h[2]].owned /\ space[s].page[h[2]].frame = f
    BY <1>5, <2>1 DEF Holders
  <2>3. \/ k[2] \in Tables /\ space[s].table[k[2]] = f
        \/ k[2] \in Mappable /\ space[s].page[k[2]].owned /\ space[s].page[k[2]].frame = f
    BY <1>5, <2>1 DEF Holders
  <2> QED BY <1>4, <2>2, <2>3
<1> QED BY <1>2, <1>3, <1>4, <1>5

\* Every frame is in one place at most, in whatever order the threads of a
\* process map, unmap and leave, and wherever a shortage stops them.
THEOREM FramesInOnePlace == VmSpec => []FramesHeldOnce
<1>1. VmInv => FramesHeldOnce
  <2> SUFFICES ASSUME VmInv, NEW f \in Pool
               PROVE  Cardinality(Holders(f)) + (IF f \in free THEN 1 ELSE 0) <= 1
    BY DEF VmInv, FramesHeldOnce, Pool
  <2>1. CASE Holders(f) = {}
    BY <2>1, FS_EmptySet
  <2>2. CASE Holders(f) # {}
    <3>1. PICK h : Holders(f) = {h}
      BY <2>2, OneHolder
    <3>2. Cardinality(Holders(f)) = 1 /\ f \notin free
      BY <2>2, <3>1, OneHolder, FS_Singleton
    <3> QED BY <3>2
  <2> QED BY <2>1, <2>2
<1> QED BY <1>1, VmInitOK, VmStep, PTL DEF VmSpec

-----------------------------------------------------------------------------
(***************************************************************************)
(* The ticket lock (module SpinLock).  LockInv is inductive: at most one   *)
(* context of a core is inside the lock (interrupts are masked there), so  *)
(* at most Cardinality(Cores) tickets are out and the window of tickets    *)
(* never wraps onto itself.                                                *)
(***************************************************************************)
USE WidthAssumption DEF Contexts, Tickets, Task, Handler

(***************************************************************************)
(* Counting: contexts of different cores are at most as many as the cores. *)
(***************************************************************************)

\* A set of contexts with at most one per core is no larger than Cores.
LEMMA OnePerCore ==
    ASSUME NEW S \in SUBSET Contexts, \A x, y \in S : x[1] = y[1] => x = y
    PROVE  IsFiniteSet(S) /\ Cardinality(S) \in Nat /\ Cardinality(S) < Width
<1> DEFINE f == [x \in S |-> x[1]]
<1>1. f \in Injection(S, Cores)
  BY DEF Injection, IsInjective
<1>2. IsFiniteSet(S) /\ Cardinality(S) <= Cardinality(Cores)
  <2> HIDE DEF f
  <2> QED BY <1>1, FS_Injection
<1>3. Cardinality(S) \in Nat /\ Cardinality(Cores) \in Nat
  BY <1>2, FS_CardinalityType
<1> QED BY <1>2, <1>3

\* LockInv leaves at most one context per core in the lock.
LEMMA LockHasRoom ==
    ASSUME TypeOK, NeverUnderItself
    PROVE  IsFiniteSet(InLock) /\ Cardinality(InLock) \in Nat /\ Cardinality(InLock) < Width
<1>1. \A x, y \in InLock : x[1] = y[1] => x = y
  BY DEF TypeOK, NeverUnderItself, InLock, Inside
<1> QED BY <1>1, OnePerCore DEF InLock

-----------------------------------------------------------------------------
(***************************************************************************)
(* The masks: everything of LockInv that does not look at tickets.         *)
(***************************************************************************)
Masks == /\ TypeOK /\ MaskedInside /\ SavedMask /\ TrapsUndisturbed
         /\ KernelStaysMasked /\ NeverUnderItself

\* Nothing is masked and nobody is inside at the start.
LEMMA MasksInit == Init => Masks
<1>1. 0 \in Tickets
  BY FS_CardinalityType
<1> QED BY <1>1 DEF Init, Masks, TypeOK, MaskedInside, SavedMask, TrapsUndisturbed,
       KernelStaysMasked, NeverUnderItself, Inside

\* The steps of lock and drop, by any context.
LEMMA MasksInLock ==
    ASSUME Masks, NEW x \in Contexts, Mask(x) \/ Step(x)
    PROVE  Masks'
<1> USE DEF Masks, TypeOK, MaskedInside, SavedMask, TrapsUndisturbed,
            KernelStaysMasked, NeverUnderItself, Inside, At, Executing
<1>1. CASE Mask(x)         BY <1>1 DEF Mask, irq_save
<1>2. CASE TakeTicket(x)   BY <1>2 DEF TakeTicket, fetch_add
<1>3. CASE Served(x)       BY <1>3 DEF Served
<1>4. CASE Unlock(x)       BY <1>4 DEF Unlock, fetch_add
<1>5. CASE Restore(x)      BY <1>5 DEF Restore, irq_restore
<1> QED BY <1>1, <1>2, <1>3, <1>4, <1>5 DEF Step

\* Exceptions and the returns from them.
LEMMA MasksInExceptions ==
    ASSUME Masks, NEW c \in Cores,
           Interrupt(c) \/ IrqReturn(c) \/ Trap(c) \/ TrapReturn(c)
    PROVE  Masks'
<1> USE DEF Masks, TypeOK, MaskedInside, SavedMask, TrapsUndisturbed,
            KernelStaysMasked, NeverUnderItself, Inside, At, Executing
<1>1. CASE Interrupt(c)
  <2>1. /\ pc' = [pc EXCEPT ![Handler(c)] = "out"] /\ masked' = masked \cup {c}
        /\ UNCHANGED <<next, serving, ticket, daif, trapped>>
        /\ ~ Inside(Task(c)) /\ c \notin trapped
    BY <1>1 DEF Interrupt
  <2>2. TypeOK' /\ NeverUnderItself'
    BY <2>1
  <2>3. MaskedInside' /\ SavedMask'
    BY <2>1
  <2>4. KernelStaysMasked' /\ TrapsUndisturbed'
    BY <2>1
  <2> QED BY <2>2, <2>3, <2>4
<1>2. CASE IrqReturn(c)
  <2>1. /\ pc' = [pc EXCEPT ![Handler(c)] = "off"] /\ masked' = masked \ {c}
        /\ UNCHANGED <<next, serving, ticket, daif, trapped>>
        /\ pc[Handler(c)] = "out"
    BY <1>2 DEF IrqReturn
  <2>2. TypeOK' /\ NeverUnderItself'
    BY <2>1
  <2>3. MaskedInside' /\ SavedMask'
    BY <2>1
  <2>4. KernelStaysMasked' /\ TrapsUndisturbed'
    BY <2>1
  <2> QED BY <2>2, <2>3, <2>4
<1>3. CASE Trap(c)         BY <1>3 DEF Trap
<1>4. CASE TrapReturn(c)   BY <1>4 DEF TrapReturn
<1> QED BY <1>1, <1>2, <1>3, <1>4

-----------------------------------------------------------------------------
(***************************************************************************)
(* The tickets.                                                            *)
(***************************************************************************)

\* One ticket further, at either end.
LEMMA DistanceSteps ==
    ASSUME NEW a \in Tickets, NEW b \in Tickets
    PROVE  /\ Distance(a, b) \in Nat
           /\ Distance(a, b) = 0 <=> a = b
           /\ Distance(a, b) # 0 => Distance(fetch_add(a), b) = Distance(a, b) - 1
           /\ Distance(a, b) + 1 < Width => Distance(a, fetch_add(b)) = Distance(a, b) + 1
BY DEF Distance, fetch_add

\* A step that moves no context into or out of the lock and leaves both
\* counters alone keeps the window.
LEMMA WindowKept ==
    ASSUME Window, InLock' = InLock, UNCHANGED <<next, serving, ticket>>,
           \A x \in InLock : pc'[x] = "held" => pc[x] = "held"
    PROVE  Window'
BY DEF Window, Dist, InLock

\* TakeTicket adds the ticket at the end of the window.
LEMMA WindowTakeTicket ==
    ASSUME LockInv, Masks', NEW x \in Contexts, TakeTicket(x)
    PROVE  Window'
<1> USE DEF LockInv, Masks
<1>1. InLock' = InLock \cup {x} /\ x \notin InLock
  BY DEF TakeTicket, At, InLock, TypeOK
<1>2. /\ IsFiniteSet(InLock) /\ Cardinality(InLock) \in Nat
      /\ Cardinality(InLock)' = Cardinality(InLock) + 1
      /\ Cardinality(InLock)' < Width
  <2>1. IsFiniteSet(InLock) /\ Cardinality(InLock) \in Nat
    BY LockHasRoom
  <2>2. IsFiniteSet(InLock') /\ Cardinality(InLock') < Width
    <3>1. \A y, z \in InLock' : y[1] = z[1] => y = z
      BY DEF TypeOK, NeverUnderItself, InLock, Inside
    <3> QED BY <3>1, OnePerCore DEF InLock
  <2>3. Cardinality(InLock \cup {x}) = Cardinality(InLock) + 1
    BY <1>1, <2>1, FS_AddElement
  <2> QED BY <1>1, <2>1, <2>2, <2>3
<1>3. /\ ticket' = [ticket EXCEPT ![x] = next] /\ next' = fetch_add(next)
      /\ serving' = serving /\ pc' = [pc EXCEPT ![x] = "spin"]
  BY DEF TakeTicket, At
<1> DEFINE k == Cardinality(InLock)
<1>4. k \in Nat /\ k + 1 < Width /\ Dist(next) = k
  BY <1>2 DEF Window
<1>5. Dist(next)' = k + 1
  BY <1>3, <1>4, DistanceSteps DEF Dist, TypeOK
<1>6. ASSUME NEW y \in InLock
      PROVE  /\ y # x /\ ticket'[y] = ticket[y] /\ pc'[y] = pc[y]
             /\ Dist(ticket[y])' \in Nat /\ Dist(ticket[y])' < k
             /\ ticket[y] # next
  <2>1. y \in Contexts /\ y # x /\ ticket[y] \in Tickets
    BY <1>1 DEF InLock, TypeOK
  <2>2. ticket'[y] = ticket[y] /\ pc'[y] = pc[y]
    BY <1>3, <2>1 DEF TypeOK
  <2>3. Dist(ticket[y]) < k /\ Dist(ticket[y]) \in Nat
    BY <2>1, DistanceSteps DEF Window, Dist, TypeOK
  <2> QED BY <1>3, <1>4, <2>1, <2>2, <2>3 DEF Dist
<1>7. Dist(ticket[x])' = k /\ ticket'[x] = next /\ pc'[x] = "spin"
  BY <1>3, <1>4 DEF Dist, TypeOK
<1>8. \A y \in InLock' : Dist(ticket[y])' < k + 1
  <2> SUFFICES ASSUME NEW y \in InLock' PROVE Dist(ticket[y])' < k + 1 OBVIOUS
  <2>1. CASE y = x      BY <2>1, <1>4, <1>7
  <2>2. CASE y \in InLock
    <3> HIDE DEF k
    <3> QED BY <2>2, <1>4, <1>6
  <2> QED BY <1>1, <2>1, <2>2
<1>9. \A y, z \in InLock' : ticket'[y] = ticket'[z] => y = z
  BY <1>1, <1>6, <1>7 DEF Window
<1>10. \A y \in InLock' : pc'[y] = "held" => ticket'[y] = serving'
  BY <1>1, <1>3, <1>6, <1>7 DEF Window
<1> QED BY <1>2, <1>5, <1>8, <1>9, <1>10 DEF Window

\* Served makes the context with the ticket being served the holder.
LEMMA WindowServed ==
    ASSUME LockInv, NEW x \in Contexts, Served(x)
    PROVE  Window'
<1>1. InLock' = InLock
  BY DEF LockInv, Served, At, InLock, TypeOK
<1>2. /\ UNCHANGED <<next, serving, ticket>> /\ ticket[x] = serving
      /\ \A y \in Contexts \ {x} : pc'[y] = pc[y]
  BY DEF LockInv, Served, At, TypeOK
<1>3. \A y \in InLock' : pc'[y] = "held" => ticket'[y] = serving'
  BY <1>1, <1>2 DEF LockInv, Window, InLock
<1> QED BY <1>1, <1>2, <1>3 DEF LockInv, Window, Dist

\* Unlock takes the holder's ticket off the front of the window.
LEMMA WindowUnlock ==
    ASSUME LockInv, NEW x \in Contexts, Unlock(x)
    PROVE  Window'
<1> USE DEF LockInv
<1>1. InLock' = InLock \ {x} /\ x \in InLock
  BY DEF Unlock, At, InLock, TypeOK
<1>2. /\ Cardinality(InLock) \in Nat /\ Cardinality(InLock) < Width
      /\ Cardinality(InLock') = Cardinality(InLock) - 1
  BY <1>1, LockHasRoom, FS_RemoveElement
<1> DEFINE k == Cardinality(InLock)
<1>3. /\ ticket' = ticket /\ next' = next /\ serving' = fetch_add(serving)
      /\ pc' = [pc EXCEPT ![x] = "restore"]
  BY DEF Unlock, At
<1>4. ticket[x] = serving
  BY <1>1 DEF Unlock, At, Window
<1>5. k \in Nat /\ k # 0 /\ k < Width /\ Dist(next) = k
  BY <1>1, <1>2, <1>4, DistanceSteps DEF Window, Dist, TypeOK
<1>6. Dist(next)' = k - 1
  BY <1>3, <1>5, DistanceSteps DEF Dist, TypeOK
<1>7. ASSUME NEW y \in InLock'
      PROVE  y \in InLock /\ pc'[y] # "held" /\ Dist(ticket[y])' < k - 1
  <2>1. y \in InLock /\ y # x /\ y \in Contexts /\ ticket[y] \in Tickets
    BY <1>1 DEF InLock, TypeOK
  <2>2. ticket[y] # serving
    BY <1>1, <1>4, <2>1 DEF Window
  <2>3. Dist(ticket[y]) < k
    BY <2>1 DEF Window
  <2>4. /\ Dist(ticket[y]) \in Nat
        /\ Dist(ticket[y])' = Dist(ticket[y]) - 1
    BY <1>3, <2>1, <2>2, DistanceSteps DEF Dist, TypeOK
  <2>5. Dist(ticket[y])' < k - 1
    <3> HIDE DEF k
    <3> QED BY <1>5, <2>3, <2>4
  <2>6. pc'[y] # "held"
    BY <1>3, <2>1, <2>2 DEF Window, TypeOK
  <2> QED BY <2>1, <2>5, <2>6
<1> QED BY <1>2, <1>3, <1>6, <1>7 DEF Window

\* The rest change neither the counters nor who is in the lock.
LEMMA WindowElsewhere ==
    ASSUME LockInv, NEW x \in Contexts, NEW c \in Cores,
           \/ Mask(x) \/ Restore(x)
           \/ Interrupt(c) \/ IrqReturn(c) \/ Trap(c) \/ TrapReturn(c)
    PROVE  Window'
<1>1. /\ InLock' = InLock /\ UNCHANGED <<next, serving, ticket>>
      /\ \A y \in InLock : pc'[y] = "held" => pc[y] = "held"
  BY DEF LockInv, TypeOK, InLock, At, Mask, Restore, Interrupt, IrqReturn, Trap,
         TrapReturn
<1> QED BY <1>1, WindowKept DEF LockInv

-----------------------------------------------------------------------------
\* LockInv holds initially and every step of lock, drop, an interrupt or a
\* trap preserves it.
THEOREM LockInductive == Spec => []LockInv
<1>1. Init => LockInv
  <2> SUFFICES ASSUME Init PROVE LockInv OBVIOUS
  <2>1. InLock = {}
    BY DEF Init, InLock
  <2>2. Window
    BY <2>1, FS_EmptySet DEF Init, Window, Dist, Distance
  <2> QED BY <2>2, MasksInit DEF Masks, LockInv
<1>2. LockInv /\ [Next]_vars => LockInv'
  <2> SUFFICES ASSUME LockInv, [Next]_vars PROVE LockInv' OBVIOUS
  <2>0. Masks
    BY DEF LockInv, Masks
  <2>1. ASSUME NEW x \in Contexts, Mask(x) \/ Step(x) PROVE LockInv'
    <3>1. Masks'
      BY <2>0, <2>1, MasksInLock
    <3>2. Window'
      <4>1. CASE Mask(x) \/ Restore(x)
        <5> PICK c \in Cores : TRUE OBVIOUS
        <5> QED BY <4>1, WindowElsewhere
      <4> QED BY <2>1, <3>1, <4>1, WindowTakeTicket, WindowServed, WindowUnlock DEF Step
    <3> QED BY <3>1, <3>2 DEF Masks, LockInv
  <2>2. ASSUME NEW c \in Cores,
               Interrupt(c) \/ IrqReturn(c) \/ Trap(c) \/ TrapReturn(c)
        PROVE LockInv'
    <3>1. Masks'
      BY <2>0, <2>2, MasksInExceptions
    <3>2. Window'
      <4>1. Task(c) \in Contexts OBVIOUS
      <4> QED BY <2>2, <4>1, WindowElsewhere
    <3> QED BY <3>1, <3>2 DEF Masks, LockInv
  <2>3. CASE UNCHANGED vars
    BY <2>3 DEF vars, LockInv, TypeOK, MaskedInside, SavedMask, TrapsUndisturbed,
                KernelStaysMasked, NeverUnderItself, Window, Inside, InLock, Dist, Distance
  <2> QED BY <2>1, <2>2, <2>3 DEF Next
<1> QED BY <1>1, <1>2, PTL DEF Spec

\* SpinGuard's promise: for any number of cores below 2^32, at most one guard
\* of a lock exists at a time, across the wrap of the tickets.
THEOREM MutualExclusion == Spec => []OneGuard
<1>1. LockInv => OneGuard
  BY DEF LockInv, Window, OneGuard, InLock
<1> QED BY <1>1, LockInductive, PTL

\* lock's promise to interrupt handlers: a core never waits for itself.
THEOREM NoSelfDeadlock == Spec => []NeverUnderItself
<1>1. LockInv => NeverUnderItself
  BY DEF LockInv
<1> QED BY <1>1, LockInductive, PTL

\* drop restores exactly the mask lock found, so a handler or a trap runs
\* masked to its end.
THEOREM MaskRestored == Spec => []KernelStaysMasked
<1>1. LockInv => KernelStaysMasked
  BY DEF LockInv
<1> QED BY <1>1, LockInductive, PTL

-----------------------------------------------------------------------------
(***************************************************************************)
(* The lock implements FifoLock.  A context's ticket says how many are     *)
(* ahead of it, so the queue lists the contexts in the lock by ticket.     *)
(***************************************************************************)

\* There are n numbers below n.
LEMMA Below ==
    ASSUME NEW n \in Nat
    PROVE  IsFiniteSet(0..(n - 1)) /\ Cardinality(0..(n - 1)) = n
<1>1. PICK b \in Int : b = n - 1
  OBVIOUS
<1>2. 0 \in Int
  OBVIOUS
<1>3. IsFiniteSet(0..b) /\ Cardinality(0..b) = IF 0 > b THEN 0 ELSE b - 0 + 1
  BY <1>2, FS_Interval
<1> QED BY <1>1, <1>3

\* Distinct numbers below the size of a set: each is taken, and as many
\* members are below one as its number says.
LEMMA Ranks ==
    ASSUME NEW S, IsFiniteSet(S), NEW n \in Nat, Cardinality(S) = n,
           NEW d \in [S -> 0..(n - 1)], \A x, y \in S : d[x] = d[y] => x = y
    PROVE  /\ \A k \in 0..(n - 1) : \E x \in S : d[x] = k
           /\ \A x \in S : Cardinality({y \in S : d[y] < d[x]}) = d[x]
<1>1. d \in Injection(S, 0..(n - 1))
  BY DEF Injection, IsInjective
<1>2. IsFiniteSet(0..(n - 1)) /\ Cardinality(0..(n - 1)) = n
  BY Below
<1>3. d \in Surjection(S, 0..(n - 1))
  BY <1>1, <1>2, FS_Injection
<1>4. \A k \in 0..(n - 1) : \E x \in S : d[x] = k
  BY <1>3, Zenon DEF Surjection
<1>5. ASSUME NEW x \in S
      PROVE  Cardinality({y \in S : d[y] < d[x]}) = d[x]
  <2> PICK m \in 0..(n - 1) : m = d[x]
    OBVIOUS
  <2> DEFINE R == {y \in S : d[y] < m}
             e == [y \in R |-> d[y]]
  <2>1. e \in [R -> 0..(m - 1)]
    OBVIOUS
  <2>2. \A y, z \in R : e[y] = e[z] => y = z
    OBVIOUS
  <2>3. e \in Injection(R, 0..(m - 1))
    <3> HIDE DEF e, R
    <3> QED BY <2>1, <2>2 DEF Injection, IsInjective
  <2>4. \A k \in 0..(m - 1) : \E y \in R : e[y] = k
    <3> SUFFICES ASSUME NEW k \in 0..(m - 1) PROVE \E y \in R : e[y] = k
      OBVIOUS
    <3>1. k \in 0..(n - 1) /\ k < m
      OBVIOUS
    <3>2. PICK y \in S : d[y] = k
      BY <1>4, <3>1
    <3> QED BY <3>1, <3>2
  <2>5. IsFiniteSet(0..(m - 1)) /\ Cardinality(0..(m - 1)) = m
    <3>1. m \in Nat
      OBVIOUS
    <3> QED BY <3>1, Below
  <2> HIDE DEF e, R
  <2>6. e \in Surjection(R, 0..(m - 1))
    BY <2>1, <2>4 DEF Surjection
  <2>7. Cardinality(R) = m
    <3>1. Cardinality(R) = Cardinality(0..(m - 1))
      <4>1. PICK T : T = 0..(m - 1)
        OBVIOUS
      <4>2. e \in Injection(R, T) /\ e \in Surjection(R, T) /\ IsFiniteSet(T)
        BY <2>3, <2>5, <2>6, <4>1
      <4>3. Cardinality(R) = Cardinality(T)
        BY <4>2, FS_Injection
      <4> QED BY <4>1, <4>3
    <3> QED BY <2>5, <3>1
  <2> QED BY <2>7 DEF R
<1> QED BY <1>4, <1>5

\* The queue, by tickets.
Queued ==
    /\ IsFiniteSet(InLock) /\ Cardinality(InLock) \in Nat
    /\ AsQueue \in [1..Cardinality(InLock) -> InLock]
    /\ \A x \in InLock : Dist(ticket[x]) \in 0..(Cardinality(InLock) - 1)
    /\ \A x \in InLock : AsQueue[Dist(ticket[x]) + 1] = x
    /\ \A k \in 1..Cardinality(InLock) : Dist(ticket[AsQueue[k]]) = k - 1

LEMMA QueueByTicket == LockInv => Queued
<1> SUFFICES ASSUME LockInv PROVE Queued
  OBVIOUS
<1>1. PICK n \in Nat : n = Cardinality(InLock)
  BY LockHasRoom DEF LockInv
<1>2. PICK S : S = InLock
  OBVIOUS
<1>3. IsFiniteSet(S) /\ Cardinality(S) = n
  BY <1>1, <1>2, LockHasRoom DEF LockInv
<1>4. \A x \in S : ticket[x] \in Tickets /\ serving \in Tickets
  BY <1>2 DEF LockInv, TypeOK, InLock
<1>5. \A x \in S : Dist(ticket[x]) \in 0..(n - 1)
  <2>1. \A x \in S : Dist(ticket[x]) < n
    BY <1>1, <1>2 DEF LockInv, Window
  <2>2. \A x \in S : Dist(ticket[x]) \in Nat
    BY <1>4, DistanceSteps DEF Dist
  <2> QED BY <2>1, <2>2
<1>6. \A x, y \in S : Dist(ticket[x]) = Dist(ticket[y]) => x = y
  <2>1. \A a, b \in Tickets : Dist(a) = Dist(b) => a = b
    BY DEF LockInv, TypeOK, Dist, Distance
  <2>2. \A x, y \in S : ticket[x] = ticket[y] => x = y
    BY <1>2 DEF LockInv, Window
  <2> QED BY <1>4, <2>1, <2>2
<1>7. PICK d \in [S -> 0..(n - 1)] : \A x \in S : d[x] = Dist(ticket[x])
  <2> DEFINE d == [x \in S |-> Dist(ticket[x])]
  <2>1. d \in [S -> 0..(n - 1)] /\ \A x \in S : d[x] = Dist(ticket[x])
    BY <1>5
  <2> QED BY <2>1
<1>8. /\ \A k \in 0..(n - 1) : \E x \in S : d[x] = k
      /\ \A x \in S : Cardinality({y \in S : d[y] < d[x]}) = d[x]
  <2>1. \A x, y \in S : d[x] = d[y] => x = y
    BY <1>6, <1>7
  <2> QED BY <1>3, <2>1, Ranks
<1>9. \A x \in S : Ahead(x) = d[x]
  <2> SUFFICES ASSUME NEW x \in S PROVE Ahead(x) = d[x]
    OBVIOUS
  <2>1. {y \in InLock : Dist(ticket[y]) < Dist(ticket[x])} = {y \in S : d[y] < d[x]}
    BY <1>2, <1>7
  <2> QED BY <1>8, <2>1 DEF Ahead
<1>10. \A k \in 1..n : AsQueue[k] \in S /\ d[AsQueue[k]] = k - 1
  <2> SUFFICES ASSUME NEW k \in 1..n PROVE AsQueue[k] \in S /\ d[AsQueue[k]] = k - 1
    OBVIOUS
  <2>1. AsQueue[k] = CHOOSE x \in S : Ahead(x) = k - 1
    BY <1>1, <1>2 DEF AsQueue
  <2>2. k - 1 \in 0..(n - 1)
    OBVIOUS
  <2>3. \E x \in S : Ahead(x) = k - 1
    BY <1>8, <1>9, <2>2
  <2> QED BY <1>9, <2>1, <2>3
<1>11. \A x \in S : AsQueue[d[x] + 1] = x
  <2> SUFFICES ASSUME NEW x \in S PROVE AsQueue[d[x] + 1] = x
    OBVIOUS
  <2>1. PICK k \in 1..n : k = d[x] + 1
    OBVIOUS
  <2>2. AsQueue[k] \in S /\ d[AsQueue[k]] = d[x]
    BY <1>10, <2>1
  <2> QED BY <1>6, <1>7, <2>1, <2>2
<1>12. AsQueue \in [1..n -> S]
  <2>1. AsQueue = [k \in 1..n |-> AsQueue[k]]
    BY <1>1 DEF AsQueue
  <2> QED BY <1>10, <2>1
<1> QED BY <1>1, <1>2, <1>3, <1>5, <1>7, <1>10, <1>11, <1>12 DEF Queued

LEMMA QueueByTicketNext == LockInv' => Queued'
BY QueueByTicket, PTL

\* Who is in the lock, by tickets that stand still and counted from the same
\* one, is the same queue.
LEMMA QueueStands ==
    ASSUME InLock' = InLock, UNCHANGED <<serving, ticket>>
    PROVE  AsQueue' = AsQueue
BY DEF AsQueue, Ahead, Dist

\* Taking a ticket is asking for the lock.
LEMMA TakeAsks ==
    ASSUME LockInv, LockInv', NEW x \in Contexts, TakeTicket(x)
    PROVE  Fifo!Ask(x)
<1>1. InLock' = InLock \cup {x} /\ x \notin InLock
  BY DEF TakeTicket, At, InLock, LockInv, TypeOK
<1>2. Queued /\ Queued'
  BY QueueByTicket, QueueByTicketNext
<1>3. PICK m \in Nat : m = Cardinality(InLock)
  BY <1>2 DEF Queued
<1>4. Cardinality(InLock') = m + 1
  BY <1>1, <1>2, <1>3, FS_AddElement DEF Queued
<1>5. /\ ticket' = [ticket EXCEPT ![x] = next] /\ serving' = serving
      /\ ticket \in [Contexts -> Tickets] /\ InLock \subseteq Contexts
  BY DEF TakeTicket, LockInv, TypeOK, InLock
<1>6. AsQueue \in [1..m -> InLock] /\ AsQueue' \in [1..(m + 1) -> InLock']
  BY <1>2, <1>3, <1>4 DEF Queued
<1>7. ASSUME NEW k \in 1..m PROVE AsQueue'[k] = AsQueue[k]
  <2>1. PICK y \in InLock : y = AsQueue[k]
    BY <1>6
  <2>2. Dist(ticket[y]) = k - 1
    BY <1>2, <1>3, <2>1 DEF Queued
  <2>3. ticket'[y] = ticket[y] /\ y \in InLock'
    BY <1>1, <1>5
  <2>4. Dist(ticket[y])' = k - 1
    BY <1>5, <2>2, <2>3 DEF Dist
  <2>5. AsQueue'[(Dist(ticket[y]))' + 1] = y
    BY <1>2, <2>3 DEF Queued
  <2> QED BY <2>1, <2>4, <2>5
<1>8. AsQueue'[m + 1] = x
  <2>1. Dist(next) = m
    BY <1>3 DEF LockInv, Window
  <2>2. ticket'[x] = next /\ x \in InLock'
    BY <1>1, <1>5
  <2>3. Dist(ticket[x])' = m
    BY <1>5, <2>1, <2>2 DEF Dist
  <2>4. AsQueue'[(Dist(ticket[x]))' + 1] = x
    BY <1>2, <2>2 DEF Queued
  <2> QED BY <2>3, <2>4
<1>9. AsQueue' = Append(AsQueue, x)
  <2>1. PICK q, r : q = AsQueue /\ r = AsQueue'
    OBVIOUS
  <2>2. PICK S, Z : S = InLock /\ Z = InLock \cup {x}
    OBVIOUS
  <2>3. q \in [1..m -> S] /\ r \in [1..(m + 1) -> Z] /\ x \in Z /\ S \subseteq Z
    BY <1>1, <1>6, <2>1, <2>2
  <2>4. q \in Seq(Z) /\ Len(q) = m
    BY <2>3
  <2>5. \A k \in 1..(m + 1) : r[k] = IF k = m + 1 THEN x ELSE q[k]
    BY <1>7, <1>8, <2>1
  <2>6. r = Append(q, x)
    BY <2>3, <2>4, <2>5
  <2> QED BY <2>1, <2>6
<1>10. \A k \in DOMAIN AsQueue : AsQueue[k] # x
  BY <1>1, <1>6
<1>11. AsGranted' = AsGranted
  BY DEF AsGranted, TakeTicket, At, LockInv, TypeOK
<1> QED BY <1>9, <1>10, <1>11 DEF Fifo!Ask

\* Being served is being granted the lock: the holder's ticket is the one
\* served, so nobody held it.
LEMMA ServedGrants ==
    ASSUME LockInv, NEW x \in Contexts, Served(x)
    PROVE  Fifo!Grant
<1>1. /\ x \in InLock /\ pc[x] = "spin" /\ InLock' = InLock /\ ticket[x] = serving
      /\ pc'[x] = "held" /\ UNCHANGED <<serving, ticket>>
  BY DEF Served, At, InLock, LockInv, TypeOK
<1>2. AsQueue' = AsQueue
  BY <1>1, QueueStands
<1>3. ~ AsGranted
  <2> SUFFICES ASSUME NEW y \in Contexts, pc[y] = "held" PROVE FALSE
    BY DEF AsGranted
  <2>1. y \in InLock /\ ticket[y] = serving
    BY DEF InLock, LockInv, Window
  <2> QED BY <1>1, <2>1 DEF LockInv, Window
<1>4. AsGranted'
  BY <1>1 DEF AsGranted
<1>5. AsQueue # <<>>
  <2>1. Queued
    BY QueueByTicket
  <2>2. Dist(ticket[x]) \in 0..(Cardinality(InLock) - 1) /\ Cardinality(InLock) \in Nat
    BY <1>1, <2>1 DEF Queued
  <2>3. 1 \in 1..Cardinality(InLock)
    BY <2>2
  <2>4. 1 \in DOMAIN AsQueue
    BY <2>1, <2>3 DEF Queued
  <2> QED BY <2>4
<1> QED BY <1>2, <1>3, <1>4, <1>5 DEF Fifo!Grant

\* Unlocking takes the holder off the front.
LEMMA UnlockReleases ==
    ASSUME LockInv, LockInv', NEW x \in Contexts, Unlock(x)
    PROVE  Fifo!Release
<1>1. /\ InLock' = InLock \ {x} /\ x \in InLock /\ pc[x] = "held" /\ ticket' = ticket
      /\ serving' = fetch_add(serving) /\ InLock \subseteq Contexts
      /\ ticket \in [Contexts -> Tickets] /\ serving \in Tickets
  BY DEF Unlock, At, InLock, LockInv, TypeOK
<1>2. Queued /\ Queued'
  BY QueueByTicket, QueueByTicketNext
<1>3. PICK m \in Nat : m = Cardinality(InLock)
  BY <1>2 DEF Queued
<1>4. Cardinality(InLock') = m - 1 /\ m - 1 \in Nat
  <2>1. Cardinality(InLock') = m - 1
    BY <1>1, <1>2, <1>3, FS_RemoveElement DEF Queued
  <2>2. Cardinality(InLock') \in Nat
    BY <1>2 DEF Queued
  <2> QED BY <2>1, <2>2
<1>5. AsQueue \in [1..m -> InLock] /\ AsQueue' \in [1..(m - 1) -> InLock']
  BY <1>2, <1>3, <1>4 DEF Queued
<1>6. ASSUME NEW k \in 1..(m - 1) PROVE AsQueue'[k] = AsQueue[k + 1]
  <2>1. k + 1 \in 1..m
    BY <1>4
  <2>2. PICK y \in InLock : y = AsQueue[k + 1]
    BY <1>5, <2>1
  <2>3. Dist(ticket[y]) = k
    BY <1>2, <1>3, <2>1, <2>2 DEF Queued
  <2>4. ticket[y] # serving
    BY <1>1, <2>3, DistanceSteps DEF Dist
  <2>5. y # x
    BY <1>1, <2>4 DEF LockInv, Window
  <2>6. ticket[y] \in Tickets /\ y \in InLock'
    BY <1>1, <2>5
  <2>7. Dist(ticket[y])' = k - 1
    BY <1>1, <2>3, <2>6, DistanceSteps DEF Dist
  <2>8. AsQueue'[(Dist(ticket[y]))' + 1] = y
    BY <1>2, <2>6 DEF Queued
  <2> QED BY <2>2, <2>7, <2>8
<1>7. AsQueue' = Tail(AsQueue)
  <2>1. PICK q, r : q = AsQueue /\ r = AsQueue'
    OBVIOUS
  <2>2. PICK S, Z : S = InLock /\ Z = InLock'
    OBVIOUS
  <2>3. q \in [1..m -> S] /\ r \in [1..(m - 1) -> Z]
    BY <1>5, <2>1, <2>2
  <2>4. q \in Seq(S) /\ Len(q) = m /\ m # 0
    BY <1>4, <2>3
  <2>5. \A k \in 1..(m - 1) : r[k] = q[k + 1]
    BY <1>6, <2>1
  <2>6. r = Tail(q)
    BY <2>3, <2>4, <2>5
  <2> QED BY <2>1, <2>6
<1>8. AsGranted
  BY <1>1 DEF AsGranted
<1>9. ~ AsGranted'
  <2> SUFFICES ASSUME NEW y \in Contexts, pc'[y] = "held" PROVE FALSE
    BY DEF AsGranted
  <2>1. y # x /\ pc[y] = "held"
    BY DEF Unlock, At, LockInv, TypeOK
  <2>2. ticket[y] = serving /\ ticket[x] = serving /\ y \in InLock
    BY <1>1, <2>1 DEF LockInv, Window, InLock
  <2> QED BY <1>1, <2>1, <2>2 DEF LockInv, Window
<1> QED BY <1>7, <1>8, <1>9 DEF Fifo!Release

\* The other steps are none of the queue's.
LEMMA ElsewhereStands ==
    ASSUME LockInv, InLock' = InLock, UNCHANGED <<serving, ticket>>,
           \A x \in Contexts : pc[x] = "held" <=> pc'[x] = "held"
    PROVE  UNCHANGED Fifo!fifoVars
BY QueueStands DEF Fifo!fifoVars, AsGranted

LEMMA StepIsFifo ==
    ASSUME LockInv, LockInv', [Next]_vars
    PROVE  [Fifo!FifoNext]_(Fifo!fifoVars)
<1>1. ASSUME NEW x \in Contexts, Mask(x) \/ Restore(x)
      PROVE  UNCHANGED Fifo!fifoVars
  <2>1. /\ InLock' = InLock /\ UNCHANGED <<serving, ticket>>
        /\ \A y \in Contexts : pc[y] = "held" <=> pc'[y] = "held"
    BY <1>1 DEF LockInv, TypeOK, InLock, At, Mask, Restore
  <2> QED BY <2>1, ElsewhereStands
<1>2. ASSUME NEW c \in Cores, Interrupt(c) \/ IrqReturn(c) \/ Trap(c) \/ TrapReturn(c)
      PROVE  UNCHANGED Fifo!fifoVars
  <2>1. /\ InLock' = InLock /\ UNCHANGED <<serving, ticket>>
        /\ \A y \in Contexts : pc[y] = "held" <=> pc'[y] = "held"
    BY <1>2 DEF LockInv, TypeOK, InLock, At, Interrupt, IrqReturn, Trap, TrapReturn
  <2> QED BY <2>1, ElsewhereStands
<1>3. CASE UNCHANGED vars
  <2>1. /\ InLock' = InLock /\ UNCHANGED <<serving, ticket>>
        /\ \A y \in Contexts : pc[y] = "held" <=> pc'[y] = "held"
    BY <1>3 DEF InLock, vars
  <2> QED BY <2>1, ElsewhereStands
<1>4. ASSUME NEW x \in Contexts, TakeTicket(x) \/ Served(x) \/ Unlock(x)
      PROVE  Fifo!FifoNext
  BY <1>4, TakeAsks, ServedGrants, UnlockReleases DEF Fifo!FifoNext
<1> QED BY <1>1, <1>2, <1>3, <1>4 DEF Next, Step

\* lock's promise to those who wait: it is handed over in the order it was
\* asked for, for any number of cores and across the wrap of the tickets.
THEOREM HandedOverInOrder == Spec => InRequestOrder
<1>1. Init => Fifo!FifoInit
  <2> SUFFICES ASSUME Init PROVE Fifo!FifoInit
    OBVIOUS
  <2>1. InLock = {} /\ ~ AsGranted
    BY DEF Init, InLock, AsGranted
  <2>2. Cardinality(InLock) = 0
    BY <2>1, FS_EmptySet
  <2>3. AsQueue = <<>>
    BY <2>2 DEF AsQueue
  <2> QED BY <2>1, <2>3 DEF Fifo!FifoInit
<1>2. LockInv /\ LockInv' /\ [Next]_vars => [Fifo!FifoNext]_(Fifo!fifoVars)
  BY StepIsFifo
<1> QED BY <1>1, <1>2, LockInductive, PTL DEF Spec, InRequestOrder, Fifo!FifoSpec
-----------------------------------------------------------------------------
(* The lock test (module Bringup) *)

HIDE WidthAssumption DEF Contexts, Tickets, Task, Handler

\* There are finitely many cores to start.
LEMMA CoresFinite == IsFiniteSet(Secondaries) /\ Secondaries \subseteq Nat /\ Cpus \in Nat \ {0}
<1>1. Cpus \in Nat \ {0}
  BY BringupAssumption DEF Cpus
<1>2. 1 \in Int /\ Cpus - 1 \in Int
  BY <1>1
<1>3. IsFiniteSet(1..(Cpus - 1))
  BY <1>2, FS_Interval
<1> QED BY <1>1, <1>3 DEF Secondaries

\* One more core online, or done adding, is one more in the count.
LEMMA OneMore ==
    ASSUME NEW S, S \subseteq Secondaries, NEW c \in Secondaries \ S
    PROVE  Cardinality(S) \in Nat /\ Cardinality(S \cup {c}) = Cardinality(S) + 1
<1>1. IsFiniteSet(S)
  BY CoresFinite, FS_Subset
<1> QED BY <1>1, FS_AddElement, FS_CardinalityType

\* A core that is online and goes on changes neither tally, unless it adds.
LEMMA GoesOn ==
    ASSUME BootInv, NEW c \in Secondaries, NEW here, NEW there, Moves(c, here, there),
           UNCHANGED <<boot, next_core, cores, online, hammer_count, hammered, want, verdict, late, unheard>>,
           \/ here = "spin" /\ there = "hammer" /\ Go
           \/ {here, there} \subseteq {"vectors", "gic", "timer", "doorbell", "live", "deaf"}
    PROVE  BootInv'
<1>1. sec[c] = here /\ sec \in [Secondaries -> {"off", "accepted", "spin", "hammer", "vectors", "gic", "timer",
                                                "doorbell", "live", "deaf"}]
  BY DEF Moves, BootInv, BootTypes
<1>2. sec' = [sec EXCEPT ![c] = there]
  BY DEF Moves
<1>3. sec'[c] = there /\ \A d \in Secondaries : d # c => sec'[d] = sec[d]
  BY <1>1, <1>2
<1>4. BootTypes'
  BY <1>1, <1>2 DEF BootInv, BootTypes
<1>5. \A d \in Secondaries : (Arrived(d)' <=> Arrived(d)) /\ (Added(d)' <=> Added(d))
  BY <1>1, <1>3 DEF Arrived, Added
<1>6. Go
  BY <1>1 DEF BootInv, Tallied
<1>7. Tallied'
  <2>1. {d \in Secondaries : Arrived(d)}' = {d \in Secondaries : Arrived(d)}
    BY <1>5
  <2>2. {d \in Secondaries : Added(d)}' = {d \in Secondaries : Added(d)}
    BY <1>5
  <2>3. Go' <=> Go
    BY DEF Go
  <2> QED BY <1>6, <2>1, <2>2, <2>3 DEF BootInv, Tallied
<1>8. Accounted'
  <2>1. \A d \in Secondaries : (sec'[d] = "accepted" <=> sec[d] = "accepted") /\ (sec'[d] = "off" <=> sec[d] = "off")
    BY <1>1, <1>3
  <2> QED BY <2>1 DEF BootInv, Accounted, Asking
<1>9. Expected'
  BY DEF BootInv, Expected, Asking, NoneCameLate, online_count, RaceVerdictHonest
<1> QED BY <1>4, <1>7, <1>8, <1>9 DEF BootInv

\* mark_online: a core the primary stopped waiting for is a late one.
LEMMA ArriveKeeps == ASSUME BootInv, NEW c \in Secondaries, Arrive(c) PROVE BootInv'
<1>1. /\ sec[c] = "accepted" /\ sec' = [sec EXCEPT ![c] = "spin"]
      /\ sec \in [Secondaries -> {"off", "accepted", "spin", "hammer", "vectors", "gic", "timer",
                                  "doorbell", "live", "deaf"}]
  BY DEF Arrive, Moves, BootInv, BootTypes
<1>2. online' = online \cup {c} /\ UNCHANGED <<boot, next_core, cores, hammer_count, hammered, want, ipis, verdict, late, unheard>>
  BY DEF Arrive
<1>3. sec'[c] = "spin" /\ \A d \in Secondaries : d # c => sec'[d] = sec[d]
  BY <1>1
<1>4. BootTypes'
  BY <1>1, <1>2 DEF BootInv, BootTypes
<1>5. Tallied'
  <2>1. online' = {d \in Secondaries : Arrived(d)}'
    BY <1>1, <1>2, <1>3 DEF BootInv, Tallied, Arrived
  <2>2. hammered' = {d \in Secondaries : Added(d)}'
    BY <1>1, <1>2, <1>3 DEF BootInv, Tallied, Added
  <2>3. (~ Go => \A d \in Secondaries : sec[d] \in {"off", "accepted", "spin"})'
    BY <1>2, <1>3 DEF BootInv, Tallied, Go
  <2>4. (hammer_count = Cardinality(hammered) + IF Go THEN 1 ELSE 0)'
    BY <1>2 DEF BootInv, Tallied, Go
  <2> QED BY <2>1, <2>2, <2>3, <2>4 DEF Tallied
<1>6. Accounted'
  BY <1>1, <1>2, <1>3 DEF BootInv, Accounted, Asking
<1>7. Expected'
  <2>1. NoneCameLate' => NoneCameLate
    BY <1>2 DEF NoneCameLate
  <2>2. ~ Asking => ~ NoneCameLate'
    <3>1. ~ Asking => c \in late
      BY <1>1 DEF BootInv, Accounted, Asking
    <3> QED BY <1>2, <3>1 DEF NoneCameLate
  <2>3. boot = "drain" => ~ Asking
    BY DEF Asking
  <2>4. RaceVerdictHonest'
    BY <1>2 DEF BootInv, Expected, RaceVerdictHonest
  <2> QED BY <1>2, <2>2, <2>3, <2>4 DEF Expected, Asking, RaceVerdictHonest, NoneCameLate
<1> QED BY <1>4, <1>5, <1>6, <1>7 DEF BootInv

\* A core adds its increments, once, and says so.
LEMMA HammerKeeps == ASSUME BootInv, NEW c \in Secondaries, hammer(c) PROVE BootInv'
<1>1. /\ sec[c] = "hammer" /\ sec' = [sec EXCEPT ![c] = "vectors"]
      /\ sec \in [Secondaries -> {"off", "accepted", "spin", "hammer", "vectors", "gic", "timer",
                                  "doorbell", "live", "deaf"}]
  BY DEF hammer, Moves, BootInv, BootTypes
<1>2. /\ hammer_count' = hammer_count + 1 /\ hammered' = hammered \cup {c}
      /\ UNCHANGED <<boot, next_core, cores, online, want, ipis, verdict, late, unheard>>
  BY DEF hammer
<1>3. sec'[c] = "vectors" /\ \A d \in Secondaries : d # c => sec'[d] = sec[d]
  BY <1>1
<1>4. BootTypes'
  BY <1>1, <1>2 DEF BootInv, BootTypes
<1>5. Go /\ Go'
  BY <1>1, <1>2 DEF BootInv, Tallied, Go
<1>6. Tallied'
  <2>1. online' = {d \in Secondaries : Arrived(d)}'
    BY <1>1, <1>2, <1>3 DEF BootInv, Tallied, Arrived
  <2>2. hammered' = {d \in Secondaries : Added(d)}'
    BY <1>1, <1>2, <1>3 DEF BootInv, Tallied, Added
  <2>3. c \in Secondaries \ hammered /\ hammered \subseteq Secondaries
    BY <1>1 DEF BootInv, Tallied, Added
  <2>4. Cardinality(hammered) \in Nat /\ Cardinality(hammered') = Cardinality(hammered) + 1
    BY <1>2, <2>3, OneMore
  <2>5. hammer_count' = Cardinality(hammered') + 1
    BY <1>2, <1>5, <2>4 DEF BootInv, Tallied
  <2> QED BY <1>5, <2>1, <2>2, <2>5 DEF Tallied
<1>7. Accounted'
  BY <1>1, <1>2, <1>3 DEF BootInv, Accounted, Asking
<1>8. Expected'
  BY <1>2 DEF BootInv, Expected, Asking, NoneCameLate, online_count, RaceVerdictHonest
<1> QED BY <1>4, <1>6, <1>7, <1>8 DEF BootInv

\* start_secondaries asks for the cores in order.
LEMMA StartNextKeeps == ASSUME BootInv, NEW ok \in BOOLEAN, StartNext(ok) PROVE BootInv'
<1>1. /\ boot = "start" /\ next_core \in Secondaries /\ next_core \in Nat /\ Secondaries \subseteq Nat
      /\ sec \in [Secondaries -> {"off", "accepted", "spin", "hammer", "vectors", "gic", "timer",
                                  "doorbell", "live", "deaf"}]
  BY CoresFinite DEF StartNext, BootInv, BootTypes
<1>2. UNCHANGED <<cores, online, hammer_count, hammered, want, ipis, verdict, late, unheard>>
  BY DEF StartNext
<1>3. CASE ok
  <2>1. sec[next_core] = "off" /\ sec' = [sec EXCEPT ![next_core] = "accepted"] /\ boot' = "wait" /\ next_core' = next_core
    BY <1>3 DEF StartNext, Moves
  <2>2. sec'[next_core] = "accepted" /\ \A d \in Secondaries : d # next_core => sec'[d] = sec[d]
    BY <1>1, <2>1
  <2>3. BootTypes'
    BY <1>1, <1>2, <2>1 DEF BootInv, BootTypes
  <2>4. Tallied'
    <3>1. online' = {d \in Secondaries : Arrived(d)}'
      BY <1>1, <1>2, <2>1, <2>2 DEF BootInv, Tallied, Arrived
    <3>2. hammered' = {d \in Secondaries : Added(d)}'
      BY <1>1, <1>2, <2>1, <2>2 DEF BootInv, Tallied, Added
    <3>3. ~ Go /\ ~ Go'
      BY <1>1, <2>1 DEF Go
    <3>4. (\A d \in Secondaries : sec[d] \in {"off", "accepted", "spin"})'
      BY <2>2, <3>3 DEF BootInv, Tallied
    <3> QED BY <1>2, <3>1, <3>2, <3>3, <3>4 DEF BootInv, Tallied
  <2>5. Accounted'
    BY <1>1, <1>2, <2>1, <2>2 DEF BootInv, Accounted, Asking
  <2>6. Expected'
    BY <1>2, <2>1 DEF BootInv, Expected, Asking, NoneCameLate, RaceVerdictHonest
  <2> QED BY <2>3, <2>4, <2>5, <2>6 DEF BootInv
<1>4. CASE ~ ok
  <2>1. next_core' = next_core + 1 /\ UNCHANGED <<boot, sec>>
    BY <1>4 DEF StartNext
  <2>2. BootTypes'
    BY <1>1, <1>2, <2>1 DEF BootInv, BootTypes
  <2>3. Tallied'
    BY <1>2, <2>1 DEF BootInv, Tallied, Go, Arrived, Added
  <2>4. Accounted'
    BY <1>1, <1>2, <2>1 DEF BootInv, Accounted, Asking
  <2>5. Expected'
    BY <1>1, <1>2, <2>1 DEF BootInv, Expected, Asking, NoneCameLate, RaceVerdictHonest
  <2> QED BY <2>2, <2>3, <2>4, <2>5 DEF BootInv
<1> QED BY <1>3, <1>4

\* The poll leaves nobody behind without noting it.
LEMMA PolledKeeps == ASSUME BootInv, Polled PROVE BootInv'
<1>1. /\ boot = "wait" /\ boot' = "start" /\ next_core' = next_core + 1
      /\ late' = IF next_core \in online THEN late ELSE late \cup {next_core}
      /\ UNCHANGED <<cores, sec, online, hammer_count, hammered, want, ipis, verdict, unheard>>
  BY DEF Polled
<1>2. next_core \in Secondaries /\ next_core \in Nat /\ Secondaries \subseteq Nat
  BY <1>1, CoresFinite DEF BootInv, BootTypes, Accounted
<1>3. BootTypes'
  BY <1>1, <1>2 DEF BootInv, BootTypes
<1>4. Tallied'
  BY <1>1 DEF BootInv, Tallied, Go, Arrived, Added
<1>5. late \subseteq late' /\ (next_core \notin online => next_core \in late')
  BY <1>1
<1>6. Accounted'
  <2>1. sec[next_core] = "accepted" => next_core \notin online
    BY DEF BootInv, Tallied, Arrived
  <2>2. \A c \in Secondaries : sec[c] = "accepted" => c \in late'
    BY <1>1, <1>5, <2>1 DEF BootInv, Accounted
  <2>3. \A c \in Secondaries : c >= next_core + 1 => sec[c] = "off"
    BY <1>1, <1>2 DEF BootInv, Accounted, Asking
  <2> QED BY <1>1, <1>2, <2>2, <2>3 DEF Accounted, Asking
<1>7. Expected'
  <2>1. late' \cap online' = late \cap online
    BY <1>1
  <2> QED BY <1>1, <2>1 DEF BootInv, Expected, Asking, NoneCameLate, RaceVerdictHonest
<1> QED BY <1>3, <1>4, <1>6, <1>7 DEF BootInv

\* The primary counts, adds its own share, waits, and judges.
LEMMA TestKeeps == ASSUME BootInv, Counted \/ PrimaryHammer \/ RaceTest \/ IpiTest PROVE BootInv'
<1>1. IsFiniteSet(online) /\ Cardinality(online) \in Nat /\ online \subseteq Secondaries
  <2>1. online \subseteq Secondaries
    BY DEF BootInv, Tallied
  <2> QED BY <2>1, CoresFinite, FS_Subset, FS_CardinalityType
<1>2. CASE Counted
  <2>1. /\ boot = "start" /\ next_core = Cpus /\ cores' = online_count /\ boot' = "hammer"
        /\ UNCHANGED <<next_core, sec, online, hammer_count, hammered, want, ipis, verdict, late, unheard>>
    BY <1>2 DEF Counted
  <2>2. BootTypes'
    BY <1>1, <2>1 DEF BootInv, BootTypes, online_count
  <2>3. Tallied'
    BY <2>1 DEF BootInv, Tallied, Go, Arrived, Added
  <2>4. Accounted'
    <3>1. \A c \in Secondaries : c < Cpus
      BY CoresFinite DEF Secondaries
    <3> QED BY <2>1, <3>1 DEF BootInv, Accounted, Asking
  <2>5. Expected'
    BY <2>1 DEF BootInv, Expected, Asking, NoneCameLate, online_count, RaceVerdictHonest
  <2> QED BY <2>2, <2>3, <2>4, <2>5 DEF BootInv
<1>3. CASE PrimaryHammer
  <2>1. /\ boot = "hammer" /\ boot' = "drain" /\ hammer_count' = hammer_count + 1 /\ want' = online
        /\ UNCHANGED <<next_core, cores, sec, online, hammered, ipis, verdict, late, unheard>>
    BY <1>3 DEF PrimaryHammer, awaited
  <2>2. BootTypes'
    BY <2>1 DEF BootInv, BootTypes
  <2>3. Tallied'
    <3>1. ~ Go /\ Go'
      BY <2>1 DEF Go
    <3>2. hammered = {}
      <4>1. \A c \in Secondaries : ~ Added(c)
        BY <3>1 DEF BootInv, Tallied, Added
      <4> QED BY <4>1 DEF BootInv, Tallied
    <3>3. Cardinality(hammered) = 0
      BY <3>2, FS_EmptySet
    <3> QED BY <2>1, <3>1, <3>3 DEF BootInv, Tallied, Arrived, Added
  <2>4. Accounted'
    BY <2>1 DEF BootInv, Accounted, Asking
  <2>5. Expected'
    BY <2>1 DEF BootInv, Expected, Asking, NoneCameLate, online_count, RaceVerdictHonest
  <2> QED BY <2>2, <2>3, <2>4, <2>5 DEF BootInv
<1>4. CASE RaceTest
  <2>1. /\ boot = "drain" /\ boot' = "ipi" /\ unheard' = want \ hammered
        /\ verdict' = "lost" => Hammering # {} \/ hammer_count # cores
        /\ UNCHANGED <<next_core, cores, sec, online, hammer_count, hammered, ipis, late>>
    BY <1>4 DEF RaceTest, MayLose
  <2>2. BootTypes' /\ Accounted'
    BY <2>1 DEF BootInv, BootTypes, Accounted, Asking
  <2>3. Tallied'
    BY <2>1 DEF BootInv, Tallied, Go, Arrived, Added
  <2>4. Expected'
    <3>1. ASSUME NoneCameLate, want \subseteq hammered
          PROVE  Hammering = {} /\ hammer_count = cores
      <4>1. want = online /\ cores = Cardinality(online) + 1
        BY <2>1, <3>1 DEF BootInv, Expected, Asking, online_count
      <4>2. hammered \subseteq online
        BY DEF BootInv, Tallied, Arrived, Added
      <4>3. hammer_count = Cardinality(hammered) + 1
        BY <2>1 DEF BootInv, Tallied, Go
      <4>4. hammered = online
        BY <3>1, <4>1, <4>2
      <4>5. Hammering = {}
        BY <4>4 DEF BootInv, Tallied, Hammering, Arrived, Added
      <4> QED BY <4>1, <4>3, <4>4, <4>5
    <3>2. NoneCameLate' <=> NoneCameLate
      BY <2>1 DEF NoneCameLate
    <3>3. RaceVerdictHonest'
      BY <2>1, <3>1 DEF RaceVerdictHonest, NoneCameLate
    <3>4. (~ Asking /\ NoneCameLate => cores = online_count)'
      BY <2>1, <3>2 DEF BootInv, Expected, Asking, online_count
    <3> QED BY <2>1, <3>3, <3>4 DEF Expected
  <2> QED BY <2>2, <2>3, <2>4 DEF BootInv
<1>5. CASE IpiTest
  <2>1. /\ boot = "ipi" /\ boot' = "done"
        /\ UNCHANGED <<next_core, cores, sec, online, hammer_count, hammered, want, ipis, verdict, late, unheard>>
    BY <1>5 DEF IpiTest
  <2>2. BootTypes' /\ Accounted'
    BY <2>1 DEF BootInv, BootTypes, Accounted, Asking
  <2>3. Tallied' /\ Expected'
    BY <2>1 DEF BootInv, Tallied, Go, Arrived, Added, Expected, Asking, NoneCameLate, online_count, RaceVerdictHonest
  <2> QED BY <2>2, <2>3 DEF BootInv
<1> QED BY <1>2, <1>3, <1>4, <1>5

\* Power on: the primary alone.
LEMMA BootInitHolds == BootInit => BootInv
<1> SUFFICES ASSUME BootInit PROVE BootInv
  OBVIOUS
<1>1. BootTypes
  BY DEF BootInit, BootTypes
<1>2. \A c \in Secondaries : sec[c] = "off"
  BY DEF BootInit
<1>3. Tallied
  <2>1. Cardinality(hammered) = 0
    BY FS_EmptySet DEF BootInit
  <2> QED BY <1>2, <2>1 DEF BootInit, Tallied, Go, Arrived, Added
<1>4. Accounted /\ Expected
  BY <1>2 DEF BootInit, Accounted, Expected, Asking, RaceVerdictHonest, NoneCameLate
<1> QED BY <1>1, <1>3, <1>4 DEF BootInv

\* Every step of every core keeps the books.
LEMMA BootStepKeeps == BootInv /\ [BootNext]_bootVars => BootInv'
<1> SUFFICES ASSUME BootInv, [BootNext]_bootVars PROVE BootInv'
  OBVIOUS
<1>1. ASSUME UNCHANGED <<boot, next_core, cores, sec, online, hammer_count, hammered, want, verdict, late, unheard>>
      PROVE  BootInv'
  BY <1>1 DEF BootInv, BootTypes, Tallied, Accounted, Expected, Go, Arrived, Added, Asking, NoneCameLate, online_count, RaceVerdictHonest
<1>2. CASE UNCHANGED bootVars
  BY <1>1, <1>2 DEF bootVars
<1>3. CASE Primary
  BY <1>3, StartNextKeeps, PolledKeeps, TestKeeps DEF Primary
<1>4. ASSUME NEW c \in Secondaries, Arrive(c) PROVE BootInv'
  BY <1>4, ArriveKeeps
<1>5. ASSUME NEW c \in Secondaries, ksecondary(c) PROVE BootInv'
  <2>1. CASE SeeGo(c)
    BY <2>1, GoesOn DEF SeeGo
  <2>2. CASE hammer(c)
    BY <2>2, HammerKeeps
  <2>3. ASSUME NEW ok \in BOOLEAN, SetUp(c, ok) PROVE BootInv'
    <3>1. PICK here \in {"vectors", "gic", "timer", "doorbell"}, there \in {"gic", "timer", "deaf", "doorbell", "live"} :
              Moves(c, here, there)
      BY <2>3 DEF SetUp
    <3>2. UNCHANGED <<boot, next_core, cores, online, hammer_count, hammered, want, verdict, late, unheard>>
      BY <2>3 DEF SetUp
    <3> QED BY <3>1, <3>2, GoesOn
  <2> QED BY <1>5, <2>1, <2>2, <2>3 DEF ksecondary
<1>6. ASSUME NEW c \in Secondaries, on_ipi(c) PROVE BootInv'
  BY <1>1, <1>6 DEF on_ipi
<1> QED BY <1>2, <1>3, <1>4, <1>5, <1>6 DEF BootNext

\* However many cores there are, whatever firmware does with them and however
\* they interleave, race_test blames the lock only when the primary had given up
\* on a core: on one that came after all, or on one still adding at the limit.
THEOREM VerdictHonest == BootSpec => []RaceVerdictHonest
<1>1. BootInv => RaceVerdictHonest
  BY DEF BootInv, Expected, NoneCameLate, RaceVerdictHonest
<1> QED BY <1>1, BootInitHolds, BootStepKeeps, PTL DEF BootSpec

-----------------------------------------------------------------------------
(* The SMMU driver (module Iommu) *)

\* A place in a queue of n entries, its index kept with a wrap bit: once
\* around is taken away, and so is the bit.
LEMMA RingSteps ==
    ASSUME NEW n \in Nat \ {0}, NEW i \in 0..(4 * n - 1)
    PROVE  i % (2 * n) = (IF i < 2 * n THEN i ELSE i - 2 * n) /\ i % (2 * n) \in 0..(2 * n - 1)
<1>1. 2 * n \in Nat \ {0} /\ i \in 0..(2 * (2 * n) - 1)
  OBVIOUS
<1>2. /\ i < 2 * n => i % (2 * n) = i
      /\ i >= 2 * n => i % (2 * n) = i - 2 * n
  <2> DEFINE m == 2 * n
  <2> HIDE DEF m
  <2>1. m \in Nat \ {0} /\ i \in 0..(2 * m - 1)
    BY <1>1 DEF m
  <2>2. /\ i < m => i % m = i
        /\ i >= m => i % m = i - m
    BY <2>1, Halves
  <2> QED BY <2>2 DEF m
<1> QED BY <1>1, <1>2

LEMMA RingPlace ==
    ASSUME NEW n \in Nat \ {0}, NEW i \in 0..(2 * n - 1)
    PROVE  i % n = (IF i < n THEN i ELSE i - n) /\ i % n \in 0..(n - 1)
<1>1. /\ i < n => i % n = i
      /\ i >= n => i % n = i - n
  BY Halves
<1> QED BY <1>1

\* The sums the drivers of the two queues form.
LEMMA RingPlus ==
    ASSUME NEW n \in Nat \ {0}, NEW p \in 0..(2 * n - 1), NEW k \in 0..(2 * n)
    PROVE  /\ (p + k) % (2 * n) = (IF p + k < 2 * n THEN p + k ELSE p + k - 2 * n)
           /\ (p + k) % (2 * n) \in 0..(2 * n - 1)
<1> DEFINE q == p + k
           x == q % (2 * n)
<1>1. q \in 0..(4 * n - 1)
  OBVIOUS
<1> HIDE DEF q
<1>2. x = (IF q < 2 * n THEN q ELSE q - 2 * n) /\ x \in 0..(2 * n - 1)
  BY <1>1, RingSteps
<1> HIDE DEF x
<1>3. x = (IF p + k < 2 * n THEN p + k ELSE p + k - 2 * n)
  BY <1>2 DEF q
<1> QED BY <1>2, <1>3 DEF x, q

LEMMA RingMinus ==
    ASSUME NEW n \in Nat \ {0}, NEW p \in 0..(2 * n - 1), NEW c \in 0..(2 * n - 1)
    PROVE  (p - c + 2 * n) % (2 * n) = (IF p >= c THEN p - c ELSE p - c + 2 * n)
<1> DEFINE q == p - c + 2 * n
           x == q % (2 * n)
<1>1. q \in 0..(4 * n - 1)
  OBVIOUS
<1> HIDE DEF q
<1>2. x = (IF q < 2 * n THEN q ELSE q - 2 * n)
  BY <1>1, RingSteps
<1> HIDE DEF x
<1>3. x = (IF p >= c THEN p - c ELSE p - c + 2 * n)
  BY <1>2 DEF q
<1> QED BY <1>3 DEF x, q

LEMMA RingBefore ==
    ASSUME NEW n \in Nat \ {0, 1}, NEW p \in 0..(2 * n - 1)
    PROVE  (p + 2 * n - 2) % (2 * n) = (IF p >= 2 THEN p - 2 ELSE p - 2 + 2 * n)
<1> DEFINE q == p + 2 * n - 2
           x == q % (2 * n)
<1>1. q \in 0..(4 * n - 1)
  OBVIOUS
<1> HIDE DEF q
<1>2. x = (IF q < 2 * n THEN q ELSE q - 2 * n)
  BY <1>1, RingSteps
<1> HIDE DEF x
<1>3. x = (IF p >= 2 THEN p - 2 ELSE p - 2 + 2 * n)
  BY <1>2 DEF q
<1> QED BY <1>3 DEF x, q

LEMMA RingNeighbours ==
    ASSUME NEW n \in Nat \ {0, 1}, NEW p \in 0..(2 * n - 1)
    PROVE  (p + 1) % n \in 0..(n - 1) /\ (p + 1) % n # p % n
<1> DEFINE q == p + 1
           x == q % n
           y == p % n
<1>1. y = (IF p < n THEN p ELSE p - n)
  BY RingPlace
<1>2. q \in 0..(2 * n)
  OBVIOUS
<1>3. x = (IF p + 1 < n THEN p + 1 ELSE IF p + 1 < 2 * n THEN p + 1 - n ELSE 0)
  <2> HIDE DEF q
  <2>1. CASE q < 2 * n
    <3>1. x = (IF q < n THEN q ELSE q - n)
      <4>1. n \in Nat \ {0} /\ q \in 0..(2 * n - 1)
        BY <1>2, <2>1
      <4> QED BY <4>1, RingPlace
    <3> HIDE DEF x
    <3> QED BY <2>1, <3>1 DEF q
  <2>2. CASE q = 2 * n
    <3>1. x = 0
      BY <2>2, SMTT(30)
    <3> HIDE DEF x
    <3> QED BY <2>2, <3>1 DEF q
  <2> QED BY <1>2, <2>1, <2>2
<1> HIDE DEF x, y
<1>4. x \in 0..(n - 1) /\ x # y
  BY <1>1, <1>3
<1> QED BY <1>4 DEF x, y

\* The pool gives any number of frames it has.
LEMMA SubsetOfSize ==
    ASSUME NEW S, IsFiniteSet(S), NEW k \in 0..Cardinality(S)
    PROVE  kSubset(k, S) # {}
<1>1. Cardinality(S) \in Nat /\ ExistsBijection(1..Cardinality(S), S)
  BY FS_CardinalityType
<1>2. PICK g \in Bijection(1..Cardinality(S), S) : TRUE
  BY <1>1 DEF ExistsBijection
<1> DEFINE T == {g[i] : i \in 1..k}
           h == [i \in 1..k |-> g[i]]
<1>3. 1..k \subseteq 1..Cardinality(S)
  BY <1>1
<1>4. g \in [1..Cardinality(S) -> S] /\ \A i, j \in 1..Cardinality(S) : g[i] = g[j] => i = j
  BY <1>2 DEF Bijection, Injection, IsInjective
<1>5. T \in SUBSET S
  BY <1>3, <1>4
<1>6. h \in Bijection(1..k, T)
  BY <1>3, <1>4 DEF Bijection, Injection, Surjection, IsInjective
<1>7. IsFiniteSet(1..k) /\ Cardinality(1..k) = k
  BY FS_Interval, <1>1
<1>8. Cardinality(T) = k
  <2> HIDE DEF T, h
  <2>1. ExistsBijection(1..k, T)
    BY <1>6 DEF ExistsBijection
  <2> QED BY <1>7, <2>1, FS_Bijection
<1> HIDE DEF T
<1> QED BY <1>5, <1>8 DEF kSubset

\* A table's frames come from the pool, and its root is one of them.
LEMMA TableBuilt ==
    ASSUME SmmuTypeOK, NEW b \in Bindings, ~(Cardinality(table_pool) < Needed(b))
    PROVE  LET t == build_stage2_map(b)
           IN  /\ t.frames \in SUBSET table_pool
               /\ (CHOOSE r \in t.frames : TRUE) \in t.frames
<1>1. IsFiniteSet(table_pool) /\ Cardinality(table_pool) \in Nat
  BY IommuAssumption, FS_Subset, FS_CardinalityType DEF SmmuTypeOK
<1> DEFINE I == b.iova..(b.iova + b.pages - 1)
           T == {p \div FAN : p \in Covered(b)}
           f == [p \in I |-> p \div FAN]
<1>2. IsFiniteSet(I)
  BY FS_Interval, IommuAssumption
<1>3. f \in Surjection(I, T)
  BY DEF Surjection, Covered
<1>4. IsFiniteSet(T) /\ Cardinality(T) \in Nat
  <2> HIDE DEF I, T, f
  <2> QED BY <1>2, <1>3, FS_Surjection, FS_CardinalityType
<1>5. Needed(b) = 1 + Cardinality(T)
  BY DEF Needed
<1> DEFINE n == Needed(b)
           F == CHOOSE s \in kSubset(n, table_pool) : TRUE
<1> HIDE DEF T
<1>6. n \in 0..Cardinality(table_pool) /\ n # 0
  BY <1>1, <1>4, <1>5
<1> HIDE DEF n
<1>7. F \in kSubset(n, table_pool)
  BY <1>1, <1>6, SubsetOfSize
<1>8. F \in SUBSET table_pool /\ Cardinality(F) # 0
  BY <1>6, <1>7 DEF kSubset
<1>9. F # {}
  BY <1>8, FS_EmptySet
<1>10. build_stage2_map(b).frames = F
  BY DEF build_stage2_map, n
<1> HIDE DEF F
<1> QED BY <1>8, <1>9, <1>10
-----------------------------------------------------------------------------
\* The command queue.  The place after an index.
Further(i) == IF i + 1 < 2 * CMDQ THEN i + 1 ELSE i + 1 - 2 * CMDQ
Cmdq == [slots : [0..(CMDQ - 1) -> InTable \cup {cmd_sync}], next : 0..(2 * CMDQ - 1),
         prod : 0..(2 * CMDQ - 1), cons : 0..(2 * CMDQ - 1)]

LEMMA Indices ==
    ASSUME SmmuTypeOK
    PROVE  /\ CMDQ \in Nat \ {0, 1} /\ cmdq \in Cmdq /\ lag \in Nat
           /\ cmdq.next \in 0..(2 * CMDQ - 1) /\ cmdq.prod \in 0..(2 * CMDQ - 1) /\ cmdq.cons \in 0..(2 * CMDQ - 1)
BY IommuAssumption DEF SmmuTypeOK, Cmdq

LEMMA Moved ==
    ASSUME NEW n \in 0..(2 * CMDQ - 1), CMDQ \in Nat \ {0, 1}
    PROVE  /\ (n + 1) % (2 * CMDQ) = Further(n) /\ Further(n) \in 0..(2 * CMDQ - 1)
           /\ n % CMDQ \in 0..(CMDQ - 1)
           /\ Back(Further(n), 1) = n /\ Back(Further(n), 2) = Back(n, 1)
           /\ Back(n, 1) % CMDQ # n % CMDQ
<1> DEFINE m == CMDQ
<1>1. m \in Nat \ {0} /\ m >= 2 /\ 1 \in 0..(2 * m)
  OBVIOUS
<1>2. (n + 1) % (2 * CMDQ) = Further(n) /\ Further(n) \in 0..(2 * CMDQ - 1)
  <2>1. (n + 1) % (2 * m) = (IF n + 1 < 2 * m THEN n + 1 ELSE n + 1 - 2 * m)
        /\ (n + 1) % (2 * m) \in 0..(2 * m - 1)
    <3> HIDE DEF m
    <3> QED BY <1>1, RingPlus DEF m
  <2> QED BY <2>1, Zenon DEF Further
<1>3. Back(Further(n), 1) = n /\ Back(Further(n), 2) = Back(n, 1) /\ Back(n, 1) \in 0..(2 * m - 1)
  BY <1>1 DEF Back, Further
<1>4. n % m = (IF n < m THEN n ELSE n - m) /\ n % m \in 0..(m - 1)
  <2> HIDE DEF m
  <2> QED BY <1>1, RingPlace DEF m
<1> DEFINE b == Back(n, 1)
           x == n % m
           y == b % m
<1>5. y = (IF b < m THEN b ELSE b - m)
  <2>1. b \in 0..(2 * m - 1)
    BY <1>3
  <2> HIDE DEF m, b
  <2> QED BY <1>1, <2>1, RingPlace
<1> HIDE DEF x, y
<1>6. x # y
  BY <1>1, <1>4, <1>5 DEF Back, x
<1> QED BY <1>2, <1>3, <1>4, <1>6 DEF x, y

\* A command is pushed: the driver's index moves on, and nothing is told.
LEMMA PushStep ==
    ASSUME SmmuTypeOK, CommandsQueued, push
    PROVE  cmdq' \in Cmdq /\ CommandsQueued'
<1> DEFINE n == cmdq.next
<1>1. /\ CMDQ \in Nat \ {0, 1} /\ cmdq \in Cmdq /\ n \in 0..(2 * CMDQ - 1)
      /\ CommandsQueued /\ lag' = lag
  BY Indices DEF push
<1>2. /\ (n + 1) % (2 * CMDQ) = Further(n) /\ Further(n) \in 0..(2 * CMDQ - 1) /\ n % CMDQ \in 0..(CMDQ - 1)
      /\ Back(Further(n), 1) = n /\ Back(Further(n), 2) = Back(n, 1) /\ Back(n, 1) % CMDQ # n % CMDQ
  BY <1>1, Moved
<1>3. ASSUME NEW x \in InTable \cup {cmd_sync},
             cmdq' = [cmdq EXCEPT !.slots[n % CMDQ] = x, !.next = (n + 1) % (2 * CMDQ)]
      PROVE  /\ cmdq' \in Cmdq /\ cmdq'.next = Further(n) /\ cmdq'.prod = cmdq.prod /\ cmdq'.cons = cmdq.cons
             /\ cmdq'.slots[n % CMDQ] = x
             /\ \A i \in 0..(CMDQ - 1) \ {n % CMDQ} : cmdq'.slots[i] = cmdq.slots[i]
  <2>1. PICK after : after = (n + 1) % (2 * CMDQ)
    OBVIOUS
  <2>2. PICK place : place = n % CMDQ
    OBVIOUS
  <2>3. cmdq' = [cmdq EXCEPT !.slots[place] = x, !.next = after]
    BY <1>3, <2>1, <2>2
  <2>4. after = Further(n) /\ after \in 0..(2 * CMDQ - 1) /\ place \in 0..(CMDQ - 1)
    BY <1>2, <2>1, <2>2
  <2> HIDE DEF n
  <2>5. /\ cmdq' \in Cmdq /\ cmdq'.next = after /\ cmdq'.prod = cmdq.prod /\ cmdq'.cons = cmdq.cons
        /\ cmdq'.slots[place] = x
        /\ \A i \in 0..(CMDQ - 1) \ {place} : cmdq'.slots[i] = cmdq.slots[i]
    BY <1>1, <2>3, <2>4 DEF Cmdq
  <2> QED BY <2>2, <2>4, <2>5
<1>4. CASE smmu_op.at = "cfgi"
  <2>1. /\ smmu_op' = [smmu_op EXCEPT !.at = "sync"]
        /\ cmdq' = [cmdq EXCEPT !.slots[n % CMDQ] = smmu_op.stream, !.next = (n + 1) % (2 * CMDQ)]
    BY <1>4 DEF push, Then, cmd_cfgi_ste
  <2>2. smmu_op'.at = "sync" /\ smmu_op'.stream = smmu_op.stream /\ smmu_op.stream \in InTable
    BY <1>4, <2>1 DEF SmmuTypeOK, Stages, NoOp
  <2>3. /\ cmdq' \in Cmdq /\ cmdq'.next = Further(n) /\ cmdq'.prod = cmdq.prod /\ cmdq'.cons = cmdq.cons
        /\ cmdq'.slots[n % CMDQ] = smmu_op.stream
    BY <1>3, <2>1, <2>2
  <2>4. cmdq.prod = n
    BY <1>1, <1>4 DEF CommandsQueued
  <2> QED BY <1>1, <1>2, <2>2, <2>3, <2>4, Zenon DEF CommandsQueued, Lapped
<1>5. CASE smmu_op.at = "sync"
  <2>1. /\ smmu_op' = [smmu_op EXCEPT !.at = "ring"]
        /\ cmdq' = [cmdq EXCEPT !.slots[n % CMDQ] = cmd_sync, !.next = (n + 1) % (2 * CMDQ)]
    BY <1>5 DEF push, Then
  <2>2. smmu_op'.at = "ring" /\ smmu_op'.stream = smmu_op.stream /\ smmu_op.stream \in InTable
    BY <1>5, <2>1 DEF SmmuTypeOK, Stages, NoOp
  <2>3. /\ cmdq' \in Cmdq /\ cmdq'.next = Further(n) /\ cmdq'.prod = cmdq.prod /\ cmdq'.cons = cmdq.cons
        /\ \A i \in 0..(CMDQ - 1) \ {n % CMDQ} : cmdq'.slots[i] = cmdq.slots[i]
    BY <1>3, <2>1
  <2>4. cmdq.prod = Back(n, 1) /\ cmdq.slots[Back(n, 1) % CMDQ] = smmu_op.stream
    BY <1>1, <1>5 DEF CommandsQueued
  <2>5. Back(n, 1) % CMDQ \in 0..(CMDQ - 1)
    <3>1. Back(n, 1) \in 0..(2 * CMDQ - 1)
      BY <1>1 DEF Back
    <3> QED BY <1>1, <3>1, Moved
  <2>6. cmdq'.slots[Back(n, 1) % CMDQ] = smmu_op.stream
    BY <1>2, <2>3, <2>4, <2>5
  <2> QED BY <1>1, <1>2, <2>2, <2>3, <2>4, <2>6, Zenon DEF CommandsQueued, Lapped
<1> QED BY <1>4, <1>5 DEF push

\* The doorbell: the SMMU is told of the two.
LEMMA DoorbellStep ==
    ASSUME SmmuTypeOK, CommandsQueued, doorbell
    PROVE  cmdq' \in Cmdq /\ CommandsQueued' /\ lag' \in Nat /\ lag' = lag + 2
<1> DEFINE n == cmdq.next
           p == cmdq.prod
           c == cmdq.cons
<1>1. /\ CMDQ \in Nat \ {0, 1} /\ cmdq \in Cmdq /\ CommandsQueued /\ lag \in Nat
      /\ n \in 0..(2 * CMDQ - 1) /\ p \in 0..(2 * CMDQ - 1) /\ c \in 0..(2 * CMDQ - 1)
  BY Indices
<1>2. /\ smmu_op.at = "ring" /\ smmu_op' = [smmu_op EXCEPT !.at = "wait"]
      /\ cmdq' = [cmdq EXCEPT !.prod = n] /\ lag' = lag + ((n - p + 2 * CMDQ) % (2 * CMDQ))
  BY DEF doorbell, Then
<1>3. p = Back(n, 2) /\ cmdq.slots[Back(n, 2) % CMDQ] = smmu_op.stream
  BY <1>1, <1>2 DEF CommandsQueued
<1>4. (n - p + 2 * CMDQ) % (2 * CMDQ) = 2
  <2>1. CMDQ \in Nat \ {0}
    BY <1>1
  <2>2. (n - p + 2 * CMDQ) % (2 * CMDQ) = (IF n >= p THEN n - p ELSE n - p + 2 * CMDQ)
    <3> HIDE DEF n, p
    <3> QED BY <1>1, <2>1, RingMinus
  <2>3. (IF n >= p THEN n - p ELSE n - p + 2 * CMDQ) = 2
    BY <1>1, <1>3 DEF Back
  <2> QED BY <2>2, <2>3
<1>5. lag' \in Nat /\ lag' = lag + 2
  BY <1>1, <1>2, <1>4
<1>6. smmu_op'.at = "wait" /\ smmu_op'.stream = smmu_op.stream
  BY <1>2 DEF SmmuTypeOK, Stages, NoOp
<1>7. /\ cmdq' \in Cmdq /\ cmdq'.next = n /\ cmdq'.prod = n /\ cmdq'.cons = c /\ cmdq'.slots = cmdq.slots
  BY <1>1, <1>2 DEF Cmdq
<1>8. ~(lag + 2 >= 2 * CMDQ) => lag + 2 = Back(n, c)
  <2> SUFFICES ASSUME ~(lag + 2 >= 2 * CMDQ) PROVE lag + 2 = Back(n, c)
    OBVIOUS
  <2>1. lag = Back(p, c)
    BY <1>1 DEF CommandsQueued, Lapped
  <2> HIDE DEF n, p, c
  <2> QED BY <1>1, <1>3, <2>1 DEF Back
<1> QED BY <1>3, <1>5, <1>6, <1>7, <1>8, Zenon DEF CommandsQueued, Lapped

\* A command is consumed: while the queue has not been lapped there is one, and
\* the last but one is the invalidation the call waits for.
LEMMA ConsumeStep ==
    ASSUME SmmuTypeOK, CommandsQueued, Consume
    PROVE  /\ cmdq' \in Cmdq /\ CommandsQueued' /\ lag' \in Nat /\ (Lapped' <=> Lapped)
           /\ ~Lapped => lag' = lag - 1
           /\ smmu_op.at = "wait" /\ lag = 2 /\ ~Lapped => cmdq.slots[cmdq.cons % CMDQ] = smmu_op.stream
<1> DEFINE n == cmdq.next
           p == cmdq.prod
           c == cmdq.cons
<1>1. /\ CMDQ \in Nat \ {0, 1} /\ cmdq \in Cmdq /\ CommandsQueued /\ lag \in Nat
      /\ n \in 0..(2 * CMDQ - 1) /\ p \in 0..(2 * CMDQ - 1) /\ c \in 0..(2 * CMDQ - 1)
  BY Indices
<1>2. /\ c # p /\ cmdq' = [cmdq EXCEPT !.cons = (c + 1) % (2 * CMDQ)] /\ smmu_op' = smmu_op
      /\ lag' = IF Lapped THEN lag ELSE lag - 1
  BY DEF Consume
<1>3. (c + 1) % (2 * CMDQ) = Further(c) /\ Further(c) \in 0..(2 * CMDQ - 1)
  BY <1>1, Moved
<1>4. /\ cmdq' \in Cmdq /\ cmdq'.next = n /\ cmdq'.prod = p /\ cmdq'.cons = Further(c)
      /\ cmdq'.slots = cmdq.slots
  BY <1>1, <1>2, <1>3 DEF Cmdq
<1>5. ~Lapped => lag = Back(p, c) /\ lag # 0 /\ lag - 1 = Back(p, Further(c))
  <2> SUFFICES ASSUME ~Lapped PROVE lag = Back(p, c) /\ lag # 0 /\ lag - 1 = Back(p, Further(c))
    OBVIOUS
  <2>1. lag = Back(p, c)
    BY <1>1 DEF CommandsQueued
  <2> HIDE DEF n, p, c
  <2> QED BY <1>1, <1>2, <2>1 DEF Back, Further
<1>6. lag' \in Nat /\ (Lapped' <=> Lapped)
  BY <1>1, <1>2, <1>5 DEF Lapped
<1>7. CommandsQueued'
  BY <1>1, <1>2, <1>4, <1>5, <1>6 DEF CommandsQueued
<1>8. ASSUME smmu_op.at = "wait", lag = 2, ~Lapped PROVE cmdq.slots[c % CMDQ] = smmu_op.stream
  <2>1. p = n /\ lag = Back(p, c) /\ cmdq.slots[Back(n, 2) % CMDQ] = smmu_op.stream
    BY <1>1, <1>8 DEF CommandsQueued
  <2>2. Back(n, 2) = c
    <3> HIDE DEF n, p, c
    <3> QED BY <1>1, <1>8, <2>1 DEF Back
  <2> QED BY <2>1, <2>2
<1> QED BY <1>2, <1>4, <1>6, <1>7, <1>8

\* An answer, while the queue has not been lapped, is that of every command.
LEMMA Answered ==
    ASSUME SmmuTypeOK, CommandsQueued, smmu_op.at = "wait", Consumed, ~Lapped
    PROVE  lag = 0
<1>1. lag = Back(cmdq.prod, cmdq.cons) /\ cmdq.prod = cmdq.next
  BY Indices DEF CommandsQueued
<1> QED BY <1>1, Indices DEF Consumed, Back
-----------------------------------------------------------------------------
\* A call under way is a bind, its unwinding or an unbind of a stream in the
\* table, at one of its steps.
LEMMA CallShape ==
    ASSUME SmmuTypeOK
    PROVE  /\ smmu_op = NoOp => smmu_op.do = "none" /\ smmu_op.at = "none" /\ Called = {}
           /\ smmu_op # NoOp => /\ smmu_op \in Stages
                                /\ smmu_op.do \in {"bind", "unbind", "unwind"} /\ smmu_op.at # "none"
                                /\ smmu_op.stream \in InTable /\ smmu_op.root \in TableFrames \ {0}
                                /\ Called = {<<smmu_op.stream, smmu_op.root>>}
           /\ smmu_op.do = "unwind" => smmu_op.at \in {"valid", "table", "free"}
           /\ smmu_op.at = "free" => smmu_op.do = "unwind"
<1>1. CASE smmu_op = NoOp
  BY <1>1 DEF NoOp, Called
<1>2. CASE smmu_op # NoOp
  <2>1. smmu_op \in Stages
    BY <1>2 DEF SmmuTypeOK
  <2>2. CASE smmu_op \in [do : {"unwind"}, at : {"valid", "table", "free"}, stream : InTable, root : TableFrames]
    BY <1>2, <2>1, <2>2, IommuAssumption DEF Called
  <2>3. CASE smmu_op \in [do : {"bind", "unbind"}, at : {"valid", "table", "cfgi", "sync", "ring", "wait"},
                          stream : InTable, root : TableFrames]
    BY <1>2, <2>1, <2>3, IommuAssumption DEF Called
  <2> QED BY <2>1, <2>2, <2>3 DEF Stages
<1> QED BY <1>1, <1>2

LEMMA SameSequence ==
    ASSUME NEW S, NEW s \in Seq(S), NEW t \in Seq(S), Len(s) = Len(t), \A i \in 1..Len(s) : s[i] = t[i]
    PROVE  s = t
OBVIOUS

\* The list of BOUND, its first entry, and what is left of it.
LEMMA FirstBound ==
    ASSUME NEW S, NEW l \in Seq(S), l # <<>>
    PROVE  /\ l[1] \in S /\ Tail(l) \in Seq(S) /\ Len(l) \in Nat \ {0} /\ Len(Tail(l)) = Len(l) - 1
           /\ DOMAIN l = 1..Len(l) /\ DOMAIN Tail(l) = 1..(Len(l) - 1)
           /\ \A i \in DOMAIN Tail(l) : Tail(l)[i] = l[i + 1]
OBVIOUS

LEMMA LastBound ==
    ASSUME NEW S, NEW l \in Seq(S), NEW x \in S
    PROVE  /\ Append(l, x) \in Seq(S) /\ Len(l) \in Nat /\ Len(Append(l, x)) = Len(l) + 1
           /\ DOMAIN l = 1..Len(l) /\ DOMAIN Append(l, x) = 1..(Len(l) + 1)
           /\ \A i \in DOMAIN l : Append(l, x)[i] = l[i]
           /\ Append(l, x)[Len(l) + 1] = x
OBVIOUS

\* The tables after a step, and what is on record of them.
Remembered == stream_bound.late \cup stream_bound.lost \cup InBound
Bounds == [list : Seq(StreamTables), late : SUBSET StreamTables, lost : SUBSET StreamTables]
TablesOK ==
    /\ DOMAIN tables \subseteq TableFrames /\ table_pool \subseteq TableFrames
    /\ \A r \in DOMAIN tables : tables[r].frames \subseteq TableFrames /\ r \in tables[r].frames
    /\ TablesApart /\ OneRecord

\* A call goes on to its next step.
LEMMA CallCarriesOn ==
    ASSUME SmmuTypeOK, write_ste \/ push \/ doorbell \/ unwind
    PROVE  /\ smmu_op # NoOp /\ smmu_op' \in Stages
           /\ smmu_op'.stream = smmu_op.stream /\ smmu_op'.root = smmu_op.root
           /\ smmu_op'.do = smmu_op.do \/ unwind
           /\ Called' = Called /\ UNCHANGED <<tables, table_pool, stream_bound>>
<1>1. smmu_op.at # "none"
  BY DEF write_ste, push, doorbell, unwind, AtStep
<1>2. smmu_op # NoOp /\ smmu_op \in Stages
  BY <1>1, CallShape
<1>3. /\ smmu_op.do = "unwind" => smmu_op.at \in {"valid", "table", "free"}
      /\ smmu_op.at = "free" => smmu_op.do = "unwind"
  BY CallShape
<1>4. UNCHANGED <<tables, table_pool, stream_bound>>
  BY DEF write_ste, push, doorbell, unwind, tableVars
<1>5. /\ smmu_op' \in Stages /\ smmu_op'.stream = smmu_op.stream /\ smmu_op'.root = smmu_op.root
      /\ smmu_op'.do = smmu_op.do \/ unwind
  <2>1. CASE write_ste /\ smmu_op.at = "valid"
    <3>1. smmu_op' = [smmu_op EXCEPT !.at = "table"]
      BY <2>1 DEF write_ste, Then
    <3> QED BY <1>2, <3>1 DEF Stages
  <2>2. CASE write_ste /\ smmu_op.at = "table" /\ smmu_op.do = "unwind"
    <3>1. smmu_op' = [smmu_op EXCEPT !.at = "free"]
      BY <2>2 DEF write_ste, Then
    <3> QED BY <1>2, <2>2, <3>1 DEF Stages
  <2>3. CASE write_ste /\ smmu_op.at = "table" /\ smmu_op.do # "unwind"
    <3>1. smmu_op' = [smmu_op EXCEPT !.at = "cfgi"]
      BY <2>3 DEF write_ste, Then
    <3> QED BY <1>2, <2>3, <3>1 DEF Stages
  <2>4. CASE push \/ doorbell
    <3>1. /\ smmu_op.do # "unwind"
          /\ \E a \in {"sync", "ring", "wait"} : smmu_op' = [smmu_op EXCEPT !.at = a]
      BY <1>3, <2>4 DEF push, doorbell, Then
    <3> QED BY <1>2, <3>1 DEF Stages
  <2>5. CASE unwind
    <3>1. smmu_op' = [smmu_op EXCEPT !.do = "unwind", !.at = "valid"]
      BY <2>5 DEF unwind
    <3> QED BY <1>2, <2>5, <3>1 DEF Stages
  <2> QED BY <2>1, <2>2, <2>3, <2>4, <2>5 DEF write_ste
<1>6. Called' = Called
  <2>1. smmu_op' # NoOp
    BY <1>5 DEF Stages, NoOp
  <2> QED BY <1>2, <1>5, <2>1 DEF Called
<1> QED BY <1>2, <1>4, <1>5, <1>6

LEMMA RecordStands ==
    ASSUME SmmuTypeOK, TablesApart, OneRecord, Called' = Called,
           UNCHANGED <<tables, table_pool, stream_bound>>
    PROVE  TablesOK' /\ OnRecord' = OnRecord
<1>1. InBound' = InBound /\ OnRecord' = OnRecord
  BY DEF InBound, OnRecord
<1>2. OneRecord'
  BY <1>1 DEF OneRecord
<1> QED BY <1>1, <1>2 DEF TablesApart, TablesOK, SmmuTypeOK

\* A table is freed: its frames are the pool's, and it is off the record.
LEMMA TableFreed ==
    ASSUME SmmuTypeOK, TablesApart, OneRecord, give_back
    PROVE  /\ TablesOK' /\ smmu_op # NoOp /\ smmu_op' = NoOp /\ stream_bound' = stream_bound
           /\ OnRecord' = OnRecord \ {<<smmu_op.stream, smmu_op.root>>}
<1> DEFINE root == smmu_op.root
           b0 == <<smmu_op.stream, root>>
<1>1. /\ smmu_op # NoOp /\ smmu_op' = NoOp /\ stream_bound' = stream_bound
      /\ free_stage2_table(root) /\ Called = {b0} /\ Called' = {}
  <2>1. smmu_op.at # "none"
    BY DEF give_back, AtStep
  <2> QED BY <2>1, CallShape DEF Called, give_back
<1>2. root \in DOMAIN tables
  <2>1. b0 \in OnRecord /\ b0[2] = root
    BY <1>1 DEF OnRecord
  <2> HIDE DEF b0, root
  <2> QED BY <2>1 DEF OneRecord
<1>3. /\ DOMAIN tables' = DOMAIN tables \ {root}
      /\ \A r \in DOMAIN tables' : tables'[r] = tables[r]
      /\ table_pool' = table_pool \cup tables[root].frames
  BY <1>1 DEF free_stage2_table
<1>4. /\ DOMAIN tables' \subseteq TableFrames /\ table_pool' \subseteq TableFrames
      /\ \A r \in DOMAIN tables' : tables'[r].frames \subseteq TableFrames /\ r \in tables'[r].frames
  BY <1>2, <1>3 DEF SmmuTypeOK
<1>5. TablesApart'
  BY <1>2, <1>3 DEF TablesApart
<1>6. InBound' = InBound /\ Remembered' = Remembered
  BY <1>1 DEF InBound, Remembered
<1>7. OnRecord = {b0} \cup Remembered /\ OnRecord' = Remembered /\ b0 \notin Remembered
  BY <1>1, <1>6 DEF OnRecord, OneRecord, Remembered
<1>8. OneRecord'
  <2>1. \A b \in OnRecord' : b[2] \in DOMAIN tables'
    <3> SUFFICES ASSUME NEW b \in OnRecord' PROVE b[2] \in DOMAIN tables'
      OBVIOUS
    <3>1. b \in OnRecord /\ b # b0 /\ b0 \in OnRecord
      BY <1>7
    <3>2. b[2] \in DOMAIN tables /\ b[2] # b0[2]
      BY <3>1 DEF OneRecord
    <3> QED BY <1>3, <3>2
  <2>2. \A b, c \in OnRecord' : b[2] = c[2] => b = c
    BY <1>7 DEF OneRecord
  <2>3. \A i, j \in DOMAIN stream_bound'.list : stream_bound'.list[i] = stream_bound'.list[j] => i = j
    BY <1>1 DEF OneRecord
  <2>4. /\ Called' \cap (stream_bound'.late \cup stream_bound'.lost \cup InBound') = {}
        /\ stream_bound'.late \cap (stream_bound'.lost \cup InBound') = {}
        /\ stream_bound'.lost \cap InBound' = {}
    BY <1>1, <1>6 DEF OneRecord
  <2> QED BY <2>1, <2>2, <2>3, <2>4 DEF OneRecord
<1> QED BY <1>1, <1>4, <1>5, <1>7, <1>8 DEF TablesOK

\* A bind is refused, or builds a table for its stream.
Builds(s, root) ==
    /\ s \in InTable /\ smmu_op = NoOp /\ root \in TableFrames
    /\ smmu_op' = [do |-> "bind", at |-> "valid", stream |-> s, root |-> root]
    /\ TablesOK' /\ OnRecord' = OnRecord \cup {<<s, root>>}

LEMMA TableMade ==
    ASSUME SmmuTypeOK, TablesApart, OneRecord, smmu_op = NoOp, stream_bound' = stream_bound,
           NEW s \in InTable, NEW t, NEW root, t.frames \in SUBSET table_pool, root \in t.frames,
           tables' = [r \in DOMAIN tables \cup {root} |-> IF r = root THEN t ELSE tables[r]],
           table_pool' = table_pool \ t.frames,
           smmu_op' = [do |-> "bind", at |-> "valid", stream |-> s, root |-> root]
    PROVE  Builds(s, root)
<1> DEFINE b0 == <<s, root>>
<1>1. root \notin DOMAIN tables /\ root \in TableFrames
  BY DEF SmmuTypeOK, TablesApart
<1>2. /\ DOMAIN tables' = DOMAIN tables \cup {root} /\ tables'[root] = t
      /\ \A r \in DOMAIN tables : tables'[r] = tables[r]
  BY <1>1
<1>3. /\ DOMAIN tables' \subseteq TableFrames /\ table_pool' \subseteq TableFrames
      /\ \A r \in DOMAIN tables' : tables'[r].frames \subseteq TableFrames /\ r \in tables'[r].frames
  BY <1>1, <1>2 DEF SmmuTypeOK
<1>4. TablesApart'
  BY <1>1, <1>2 DEF TablesApart, SmmuTypeOK
<1>5. Called = {} /\ Called' = {b0}
  BY CallShape DEF Called, NoOp
<1>6. InBound' = InBound /\ Remembered' = Remembered
  BY DEF InBound, Remembered
<1>7. OnRecord' = OnRecord \cup {b0} /\ OnRecord = Remembered
  BY <1>5, <1>6 DEF OnRecord, Remembered
<1>8. \A b \in OnRecord : b[2] \in DOMAIN tables /\ b[2] # root /\ b # b0
  BY <1>1 DEF OneRecord
<1>9. OneRecord'
  <2>1. \A b \in OnRecord' : b[2] \in DOMAIN tables'
    BY <1>2, <1>7, <1>8
  <2>2. \A b, c \in OnRecord' : b[2] = c[2] => b = c
    BY <1>7, <1>8 DEF OneRecord
  <2>3. \A i, j \in DOMAIN stream_bound'.list : stream_bound'.list[i] = stream_bound'.list[j] => i = j
    BY DEF OneRecord
  <2>4. /\ Called' \cap (stream_bound'.late \cup stream_bound'.lost \cup InBound') = {}
        /\ stream_bound'.late \cap (stream_bound'.lost \cup InBound') = {}
        /\ stream_bound'.lost \cap InBound' = {}
    BY <1>5, <1>6, <1>7, <1>8 DEF OneRecord, Remembered
  <2> QED BY <2>1, <2>2, <2>3, <2>4 DEF OneRecord
<1> QED BY <1>1, <1>3, <1>4, <1>7, <1>9 DEF TablesOK, Builds

LEMMA BindOrRefuse ==
    ASSUME SmmuTypeOK, TablesApart, OneRecord, NEW s \in Streams, NEW b \in Bindings, bind_stream_at(s, b)
    PROVE  /\ stream_bound' = stream_bound
           /\ \/ UNCHANGED <<tables, table_pool, smmu_op>>
              \/ \E root : Builds(s, root)
<1> DEFINE t == build_stage2_map(b)
           root == CHOOSE r \in t.frames : TRUE
<1>1. CASE b.pages = 0 \/ s >= STRTAB \/ Cardinality(table_pool) < Needed(b)
  BY <1>1 DEF bind_stream_at, tableVars
<1>2. CASE ~(b.pages = 0 \/ s >= STRTAB \/ Cardinality(table_pool) < Needed(b))
  <2>1. /\ tables' = [r \in DOMAIN tables \cup {root} |-> IF r = root THEN t ELSE tables[r]]
        /\ table_pool' = table_pool \ t.frames
        /\ smmu_op' = [do |-> "bind", at |-> "valid", stream |-> s, root |-> root]
        /\ stream_bound' = stream_bound /\ smmu_op = NoOp
    BY <1>2 DEF bind_stream_at
  <2>2. s \in InTable
    BY <1>2, IommuAssumption DEF InTable
  <2>3. t.frames \in SUBSET table_pool /\ root \in t.frames
    BY <1>2, TableBuilt
  <2> HIDE DEF t, root
  <2>4. Builds(s, root)
    BY <2>1, <2>2, <2>3, TableMade
  <2> QED BY <2>1, <2>4
<1> QED BY <1>1, <1>2

\* A bind that was answered is remembered, joins the list or finds no room in
\* it, and leaves it when it is unbound: the record only changes its place.
LEMMA RecordMoves ==
    ASSUME SmmuTypeOK, TablesApart, OneRecord, \/ Bound \/ remember \/ unbind_stream
    PROVE  /\ TablesOK' /\ OnRecord' = OnRecord /\ stream_bound' \in Bounds
           /\ smmu_op' \in Stages \cup {NoOp}
<1> DEFINE unpushed == stream_bound.late
           lost == stream_bound.lost
           list == stream_bound.list
<1>1. unpushed \in SUBSET StreamTables /\ lost \in SUBSET StreamTables /\ list \in Seq(StreamTables)
      /\ stream_bound = [list |-> list, late |-> unpushed, lost |-> lost]
  BY DEF SmmuTypeOK
<1>2. UNCHANGED <<tables, table_pool>>
  BY DEF Bound, remember, unbind_stream, tableVars
<1>3. SUFFICES /\ OneRecord' /\ OnRecord' = OnRecord /\ stream_bound' \in Bounds
               /\ smmu_op' \in Stages \cup {NoOp}
  BY <1>2 DEF TablesOK, TablesApart, SmmuTypeOK
<1>4. CASE Bound
  <2> DEFINE b0 == <<smmu_op.stream, smmu_op.root>>
  <2>1. smmu_op # NoOp /\ Called = {b0} /\ Called' = {} /\ b0 \in StreamTables /\ smmu_op' = NoOp
    BY <1>4, CallShape DEF Bound, AtStep, StreamTables, Called
  <2>2. stream_bound' = [list |-> list, late |-> unpushed \cup {b0}, lost |-> lost]
    BY <1>1, <1>4 DEF Bound
  <2>3. InBound' = InBound
    BY <2>2 DEF InBound
  <2> HIDE DEF b0
  <2>4. OnRecord' = OnRecord
    BY <2>1, <2>2, <2>3 DEF OnRecord
  <2>5. \A i, j \in DOMAIN list : list[i] = list[j] => i = j
    BY DEF OneRecord
  <2>6. b0 \notin InBound /\ b0 \notin unpushed /\ b0 \notin lost
        /\ unpushed \cap (lost \cup InBound) = {} /\ lost \cap InBound = {}
    BY <2>1 DEF OneRecord
  <2>7. OneRecord'
    BY <1>2, <2>1, <2>2, <2>3, <2>4, <2>5, <2>6 DEF OneRecord
  <2>8. stream_bound' \in Bounds
    BY <1>1, <2>1, <2>2 DEF Bounds
  <2> QED BY <2>1, <2>4, <2>7, <2>8
<1>5. CASE remember
  <2>1. PICK b \in unpushed :
            \/ stream_bound' = [list |-> Append(list, b), late |-> unpushed \ {b}, lost |-> lost]
            \/ stream_bound' = [list |-> list, late |-> unpushed \ {b}, lost |-> lost \cup {b}]
    <3>1. PICK b \in unpushed :
              \/ stream_bound' = [stream_bound EXCEPT !.list = Append(@, b), !.late = @ \ {b}]
              \/ stream_bound' = [stream_bound EXCEPT !.lost = @ \cup {b}, !.late = @ \ {b}]
      BY <1>5 DEF remember
    <3> QED BY <1>1, <3>1
  <2>2. b \in StreamTables
    BY <1>1
  <2>3. smmu_op' = smmu_op /\ Called' = Called /\ smmu_op' \in Stages \cup {NoOp}
    BY <1>5 DEF remember, Called, SmmuTypeOK
  <2>4. \A i, j \in DOMAIN list : list[i] = list[j] => i = j
    BY DEF OneRecord
  <2>5. /\ Called \cap (unpushed \cup lost \cup InBound) = {} /\ b \notin lost /\ b \notin InBound
        /\ unpushed \cap (lost \cup InBound) = {} /\ lost \cap InBound = {}
    BY DEF OneRecord
  <2>6. CASE stream_bound' = [list |-> list, late |-> unpushed \ {b}, lost |-> lost \cup {b}]
    <3>1. InBound' = InBound
      BY <2>6 DEF InBound
    <3>2. OnRecord' = OnRecord
      BY <2>3, <2>6, <3>1 DEF OnRecord
    <3>3. OneRecord'
      BY <1>2, <2>3, <2>4, <2>5, <2>6, <3>1, <3>2 DEF OneRecord
    <3>4. stream_bound' \in Bounds
      BY <1>1, <2>2, <2>6 DEF Bounds
    <3> QED BY <2>3, <3>2, <3>3, <3>4
  <2>7. CASE stream_bound' = [list |-> Append(list, b), late |-> unpushed \ {b}, lost |-> lost]
    <3> DEFINE l == Append(list, b)
    <3>1. /\ l \in Seq(StreamTables) /\ Len(list) \in Nat
          /\ DOMAIN list = 1..Len(list) /\ DOMAIN l = 1..(Len(list) + 1)
          /\ \A i \in DOMAIN list : l[i] = list[i]
          /\ l[Len(list) + 1] = b
      BY <1>1, <2>2, LastBound
    <3> HIDE DEF l
    <3>2. stream_bound'.list = l /\ stream_bound'.late = unpushed \ {b} /\ stream_bound'.lost = lost
      BY <2>7 DEF l
    <3>3. InBound' = {l[i] : i \in DOMAIN l} /\ InBound = {list[i] : i \in DOMAIN list}
      BY <3>2 DEF InBound
    <3>4. DOMAIN l = DOMAIN list \cup {Len(list) + 1}
      BY <3>1
    <3>5. InBound' = InBound \cup {b}
      BY <3>1, <3>3, <3>4
    <3>6. OnRecord' = OnRecord
      BY <2>3, <3>2, <3>5 DEF OnRecord
    <3>7. \A i, j \in DOMAIN l : l[i] = l[j] => i = j
      <4>1. \A i \in DOMAIN list : l[i] # b
        BY <2>5, <3>1, <3>3
      <4> QED BY <2>4, <3>1, <3>4, <4>1
    <3>8. OneRecord'
      <4>1. /\ Called' \cap (stream_bound'.late \cup stream_bound'.lost \cup InBound') = {}
            /\ stream_bound'.late \cap (stream_bound'.lost \cup InBound') = {}
            /\ stream_bound'.lost \cap InBound' = {}
        BY <2>3, <2>5, <3>2, <3>5
      <4> QED BY <1>2, <3>2, <3>6, <3>7, <4>1 DEF OneRecord
    <3>9. stream_bound' \in Bounds
      <4> DEFINE lt == unpushed \ {b}
      <4>1. stream_bound' = [list |-> l, late |-> lt, lost |-> lost] /\ lt \in SUBSET StreamTables
        BY <1>1, <2>7 DEF l
      <4> HIDE DEF lt
      <4> QED BY <1>1, <3>1, <4>1 DEF Bounds
    <3> QED BY <2>3, <3>6, <3>8, <3>9
  <2> QED BY <2>1, <2>6, <2>7
<1>6. CASE unbind_stream
  <2> DEFINE b0 == list[1]
             l == Tail(list)
  <2>1. smmu_op = NoOp /\ unpushed = {} /\ list # <<>>
    BY <1>6 DEF unbind_stream
  <2>2. /\ b0 \in StreamTables /\ l \in Seq(StreamTables) /\ Len(list) \in Nat \ {0}
        /\ DOMAIN list = 1..Len(list) /\ DOMAIN l = 1..(Len(list) - 1)
        /\ \A i \in DOMAIN l : l[i] = list[i + 1]
    BY <1>1, <2>1, FirstBound
  <2> HIDE DEF l, b0
  <2>3. stream_bound' = [list |-> l, late |-> unpushed, lost |-> lost]
    BY <1>1, <1>6 DEF unbind_stream, l
  <2>4. /\ smmu_op' = [do |-> "unbind", at |-> "valid", stream |-> b0[1], root |-> b0[2]]
        /\ b0[1] \in InTable
        /\ b0[2] \in TableFrames
        /\ b0 = <<b0[1], b0[2]>>
    BY <1>6, <2>2 DEF unbind_stream, StreamTables, b0
  <2>5. Called' = {b0} /\ Called = {} /\ smmu_op' \in Stages
    BY <2>1, <2>4 DEF Called, NoOp, Stages
  <2>6. InBound' = {l[i] : i \in DOMAIN l} /\ InBound = {list[i] : i \in DOMAIN list}
    BY <2>3 DEF InBound
  <2>7. \A i, j \in DOMAIN list : list[i] = list[j] => i = j
    BY DEF OneRecord
  <2>8. InBound = InBound' \cup {b0} /\ b0 \notin InBound'
    <3>1. 1 \in DOMAIN list /\ \A i \in DOMAIN l : i + 1 \in DOMAIN list /\ i + 1 # 1
      BY <2>2
    <3>2. \A j \in DOMAIN list : j = 1 \/ (j - 1 \in DOMAIN l /\ l[j - 1] = list[j])
      BY <2>2
    <3>3. b0 \notin InBound'
      BY <2>2, <2>6, <2>7, <3>1 DEF b0
    <3>4. \A x \in InBound' : x \in InBound
      BY <2>2, <2>6, <3>1
    <3>5. \A x \in InBound : x \in InBound' \/ x = b0
      BY <2>6, <3>2 DEF b0
    <3>6. b0 \in InBound
      BY <2>6, <3>1 DEF b0
    <3> QED BY <3>3, <3>4, <3>5, <3>6
  <2>9. OnRecord' = OnRecord
    BY <2>1, <2>3, <2>5, <2>8 DEF OnRecord
  <2>10. \A i, j \in DOMAIN l : l[i] = l[j] => i = j
    <3> SUFFICES ASSUME NEW i \in DOMAIN l, NEW j \in DOMAIN l, l[i] = l[j] PROVE i = j
      OBVIOUS
    <3>1. i + 1 \in DOMAIN list /\ j + 1 \in DOMAIN list /\ list[i + 1] = list[j + 1]
      BY <2>2
    <3>2. i + 1 = j + 1
      BY <2>7, <3>1
    <3> QED BY <2>2, <3>2
  <2>11. OneRecord'
    <3>1. /\ Called' \cap (stream_bound'.late \cup stream_bound'.lost \cup InBound') = {}
          /\ stream_bound'.late \cap (stream_bound'.lost \cup InBound') = {}
          /\ stream_bound'.lost \cap InBound' = {}
      BY <2>1, <2>3, <2>5, <2>8 DEF OneRecord
    <3> QED BY <1>2, <2>3, <2>9, <2>10, <3>1 DEF OneRecord
  <2>12. stream_bound' \in Bounds
    BY <1>1, <2>2, <2>3 DEF Bounds
  <2> QED BY <2>5, <2>9, <2>11, <2>12
<1> QED BY <1>4, <1>5, <1>6

\* The SMMU's own steps, and the kernel's that leave the calls alone.
Elsewhere ==
    \/ Consume \/ Latch \/ next_event
    \/ \E s \in InTable, p \in Pages : Transaction(s, p)
    \/ UNCHANGED smmuVars

\* Where every table and its record are after a step: one is off the record
\* only when its table has gone back.
LEMMA TablesStep ==
    ASSUME SmmuInv, [SmmuNext]_smmuVars
    PROVE  /\ TablesOK' /\ smmu_op' \in Stages \cup {NoOp} /\ stream_bound' \in Bounds
           /\ \A b \in OnRecord : b \in OnRecord' \/ (give_back /\ b = <<smmu_op.stream, smmu_op.root>>)
<1> USE DEF SmmuInv
<1>1. smmu_op \in Stages \cup {NoOp} /\ stream_bound \in Bounds
  BY DEF SmmuTypeOK, Bounds
<1>2. ASSUME NEW s \in Streams, NEW b \in Bindings, bind_stream_at(s, b)
      PROVE  /\ TablesOK' /\ OnRecord \subseteq OnRecord'
             /\ smmu_op' \in Stages \cup {NoOp} /\ stream_bound' = stream_bound
  <2>1. CASE UNCHANGED <<tables, table_pool, smmu_op>>
    <3>1. Called' = Called
      BY <2>1 DEF Called
    <3> QED BY <1>1, <1>2, <2>1, <3>1, BindOrRefuse, RecordStands
  <2>2. ASSUME NEW root, Builds(s, root)
        PROVE  TablesOK' /\ OnRecord \subseteq OnRecord' /\ smmu_op' \in Stages
    BY <2>2 DEF Builds, Stages
  <2> QED BY <1>2, <2>1, <2>2, BindOrRefuse
<1>3. ASSUME write_ste \/ push \/ doorbell \/ unwind
      PROVE  TablesOK' /\ OnRecord' = OnRecord /\ smmu_op' \in Stages /\ stream_bound' = stream_bound
  BY <1>3, CallCarriesOn, RecordStands
<1>4. ASSUME Elsewhere
      PROVE  TablesOK' /\ OnRecord' = OnRecord /\ smmu_op' = smmu_op /\ stream_bound' = stream_bound
  <2>1. UNCHANGED <<tables, table_pool, smmu_op, stream_bound>>
    BY <1>4 DEF Elsewhere, Consume, Latch, next_event, Transaction, smmuVars, tableVars
  <2>2. Called' = Called
    BY <2>1 DEF Called
  <2> QED BY <2>1, <2>2, RecordStands
<1>5. CASE \E s \in Streams, b \in Bindings : bind_stream_at(s, b)
  BY <1>1, <1>2, <1>5
<1>6. CASE write_ste \/ push \/ doorbell \/ unwind
  BY <1>1, <1>3, <1>6
<1>7. CASE Bound \/ remember \/ unbind_stream
  BY <1>7, RecordMoves
<1>8. CASE give_back
  BY <1>1, <1>8, TableFreed
<1>9. CASE Elsewhere
  BY <1>1, <1>4, <1>9
<1> QED BY <1>5, <1>6, <1>7, <1>8, <1>9 DEF SmmuNext, Elsewhere
-----------------------------------------------------------------------------
\* The entries.  What a store of write_ste leaves, and nothing else touches one.
LEMMA EntryWritten ==
    ASSUME SmmuTypeOK, EntriesWritten, write_ste
    PROVE  /\ ste' \in [InTable -> Entries] /\ smmu_op # NoOp /\ smmu_op.stream \in InTable
           /\ \A x \in InTable \ {smmu_op.stream} : ste'[x] = ste[x]
           /\ \/ /\ smmu_op.at = "valid" /\ smmu_op'.at = "table"
                 /\ ste'[smmu_op.stream] = [ste[smmu_op.stream] EXCEPT !.valid = Entered.valid]
              \/ /\ smmu_op.at = "table" /\ smmu_op'.at \in {"cfgi", "free"}
                 /\ ste'[smmu_op.stream] = Entered
           /\ smmu_op'.do = smmu_op.do /\ Entered' = Entered
<1> DEFINE s == smmu_op.stream
<1>1. /\ smmu_op # NoOp /\ smmu_op \in Stages /\ s \in InTable /\ smmu_op.root \in TableFrames
      /\ ste \in [InTable -> Entries]
  <2>1. smmu_op.at # "none"
    BY DEF write_ste
  <2> QED BY <2>1, CallShape DEF SmmuTypeOK
<1>2. Entered \in Entries
  BY <1>1 DEF Entered, stage2_ste, abort_ste, Entries
<1>3. CASE smmu_op.at = "valid"
  <2>1. smmu_op' = [smmu_op EXCEPT !.at = "table"] /\ ste' = [ste EXCEPT ![s].valid = Entered.valid]
    BY <1>3 DEF write_ste, Then
  <2>2. smmu_op'.at = "table" /\ smmu_op'.do = smmu_op.do /\ smmu_op'.root = smmu_op.root
    BY <1>1, <2>1 DEF Stages
  <2>3. Entered' = Entered
    BY <2>2 DEF Entered
  <2>4. ste' = [ste EXCEPT ![s] = [ste[s] EXCEPT !.valid = Entered.valid]]
    BY <2>1
  <2>5. [ste[s] EXCEPT !.valid = Entered.valid] \in Entries
    BY <1>1, <1>2 DEF Entries
  <2> QED BY <1>1, <1>3, <2>2, <2>3, <2>4, <2>5
<1>4. CASE smmu_op.at = "table"
  <2>1. PICK a \in {"cfgi", "free"} : smmu_op' = [smmu_op EXCEPT !.at = a]
    BY <1>4 DEF write_ste, Then
  <2>2. smmu_op'.at = a /\ smmu_op'.do = smmu_op.do /\ smmu_op'.root = smmu_op.root
    BY <1>1, <2>1 DEF Stages
  <2>3. Entered' = Entered
    BY <2>2 DEF Entered
  <2>4. ste' = [ste EXCEPT ![s] = [ste[s] EXCEPT !.root = Entered.root]]
    BY <1>4 DEF write_ste
  <2>5. ste[s].valid = Entered.valid
    BY <1>4 DEF EntriesWritten
  <2>6. [ste[s] EXCEPT !.root = Entered.root] = Entered
    BY <1>1, <1>2, <2>5 DEF Entries
  <2> QED BY <1>1, <1>2, <1>4, <2>2, <2>3, <2>4, <2>6
<1> QED BY <1>3, <1>4 DEF write_ste

LEMMA EntriesStand ==
    ASSUME [SmmuNext]_smmuVars, ~write_ste
    PROVE  ste' = ste
BY DEF SmmuNext, bind_stream_at, push, doorbell, Bound, remember, unwind, unbind_stream, give_back,
       Consume, Latch, next_event, Transaction, smmuVars

\* What the call under way has done to its entry.
LEMMA WrittenStep ==
    ASSUME SmmuInv, [SmmuNext]_smmuVars
    PROVE  EntriesWritten' /\ ste' \in [InTable -> Entries]
<1> USE DEF SmmuInv
<1>1. ste \in [InTable -> Entries]
  BY DEF SmmuTypeOK
<1>2. CASE write_ste
  <2> DEFINE s == smmu_op.stream
  <2>1. /\ ste' \in [InTable -> Entries] /\ smmu_op # NoOp /\ s \in InTable /\ smmu_op'.stream = s
        /\ \A x \in InTable \ {s} : ste'[x] = ste[x]
        /\ \/ /\ smmu_op.at = "valid" /\ smmu_op'.at = "table"
              /\ ste'[s] = [ste[s] EXCEPT !.valid = Entered.valid]
           \/ /\ smmu_op.at = "table" /\ smmu_op'.at \in {"cfgi", "free"} /\ ste'[s] = Entered
        /\ smmu_op'.do = smmu_op.do /\ Entered' = Entered /\ unanswered' = unanswered
    <3>1. smmu_op'.stream = s /\ unanswered' = unanswered
      BY <1>2, CallCarriesOn DEF write_ste
    <3> QED BY <1>2, <3>1, EntryWritten
  <2>2. Entered = abort_ste \/ (Entered.valid /\ Entered.root # 0)
    <3>1. smmu_op.root # 0
      BY <2>1, CallShape
    <3> QED BY <3>1 DEF Entered, stage2_ste
  <2>3. \A x \in InTable : ~HalfWay(x) => ste[x] = abort_ste \/ (ste[x].valid /\ ste[x].root # 0)
    BY DEF EntriesWritten
  <2>4. \A x \in InTable \ {s} : ~HalfWay(x)
    BY DEF HalfWay
  <2>5. \A x \in InTable : ~HalfWay(x)' => ste'[x] = abort_ste \/ (ste'[x].valid /\ ste'[x].root # 0)
    <3>1. CASE smmu_op'.at = "table"
      BY <2>1, <2>3, <2>4, <3>1 DEF HalfWay
    <3>2. CASE smmu_op'.at # "table"
      BY <2>1, <2>2, <2>3, <2>4, <3>2
    <3> QED BY <3>1, <3>2
  <2>6. /\ smmu_op'.at = "table" => ste'[smmu_op'.stream].valid = Entered'.valid
        /\ smmu_op'.at \in {"cfgi", "sync", "ring", "wait", "free"} => ste'[smmu_op'.stream] = Entered'
    <3>1. Entered.valid \in BOOLEAN /\ ste[s] \in Entries
      BY <1>1, <2>1 DEF Entered, stage2_ste, abort_ste
    <3> QED BY <2>1, <3>1 DEF Entries
  <2>7. smmu_op'.do = "unwind" => smmu_op'.stream \in unanswered'
    BY <2>1 DEF EntriesWritten
  <2> QED BY <2>1, <2>5, <2>6, <2>7, Zenon DEF EntriesWritten, abort_ste
<1>3. CASE ~write_ste
  <2>1. ste' = ste
    BY <1>3, EntriesStand
  <2>2. ASSUME push \/ doorbell PROVE EntriesWritten'
    <3>1. /\ smmu_op'.stream = smmu_op.stream /\ smmu_op'.root = smmu_op.root /\ smmu_op'.do = smmu_op.do
          /\ smmu_op # NoOp /\ unanswered' = unanswered
      <4>1. ~unwind
        BY <2>2 DEF push, doorbell, unwind, AtStep
      <4> QED BY <2>2, <4>1, CallCarriesOn DEF push, doorbell
    <3>2. smmu_op.at \in {"cfgi", "sync", "ring"} /\ smmu_op'.at \in {"sync", "ring", "wait"}
      <4>1. smmu_op \in Stages
        BY <3>1, CallShape
      <4> QED BY <2>2, <4>1 DEF push, doorbell, Then, Stages
    <3>3. Entered' = Entered
      BY <3>1 DEF Entered
    <3> QED BY <2>1, <3>1, <3>2, <3>3 DEF EntriesWritten, HalfWay, abort_ste
  <2>3. ASSUME unwind PROVE EntriesWritten'
    <3>1. /\ smmu_op \in Stages /\ smmu_op' = [smmu_op EXCEPT !.do = "unwind", !.at = "valid"] /\ smmu_op.at = "wait"
          /\ unanswered' = unanswered \cup {smmu_op.stream}
      BY <2>3, CallCarriesOn, CallShape DEF unwind, AtStep
    <3>2. smmu_op'.at = "valid" /\ smmu_op'.stream = smmu_op.stream
      BY <3>1 DEF Stages
    <3> QED BY <2>1, <3>1, <3>2 DEF EntriesWritten, HalfWay, abort_ste
  <2>4. ASSUME smmu_op = NoOp \/ smmu_op.at \in {"wait", "free"}, smmu_op' = NoOp \/ smmu_op'.at = "valid",
               smmu_op'.do # "unwind"
        PROVE  EntriesWritten'
    <3>1. smmu_op.at # "table" /\ smmu_op'.at \in {"none", "valid"}
      BY <2>4 DEF NoOp
    <3> QED BY <2>1, <2>4, <3>1 DEF EntriesWritten, HalfWay, abort_ste
  <2>5. ASSUME smmu_op' = smmu_op, unanswered' = unanswered PROVE EntriesWritten'
    BY <2>1, <2>5 DEF EntriesWritten, HalfWay, abort_ste, Entered, stage2_ste
  <2>6. ASSUME NEW s \in Streams, NEW b \in Bindings, bind_stream_at(s, b) PROVE EntriesWritten'
    <3>1. smmu_op = NoOp /\ unanswered' = unanswered
      BY <2>6 DEF bind_stream_at
    <3>2. smmu_op' = smmu_op \/ (smmu_op'.at = "valid" /\ smmu_op'.do = "bind")
      BY <2>6, BindOrRefuse DEF Builds
    <3> QED BY <2>4, <2>5, <3>1, <3>2
  <2>7. ASSUME Bound \/ give_back PROVE EntriesWritten'
    <3>1. smmu_op' = NoOp /\ smmu_op.at \in {"wait", "free"} /\ smmu_op'.do # "unwind"
      BY <2>7 DEF Bound, give_back, AtStep, NoOp
    <3> QED BY <2>4, <3>1
  <2>8. ASSUME unbind_stream PROVE EntriesWritten'
    <3>1. smmu_op = NoOp /\ smmu_op'.at = "valid" /\ smmu_op'.do = "unbind"
      BY <2>8 DEF unbind_stream
    <3> QED BY <2>4, <3>1
  <2>9. ASSUME remember \/ Elsewhere PROVE EntriesWritten'
    <3>1. smmu_op' = smmu_op /\ unanswered' = unanswered
      BY <2>9 DEF remember, Elsewhere, Consume, Latch, next_event, Transaction, smmuVars
    <3> QED BY <2>5, <3>1
  <2> QED BY <1>1, <1>3, <2>1, <2>2, <2>3, <2>6, <2>7, <2>8, <2>9 DEF SmmuNext, Elsewhere
<1> QED BY <1>2, <1>3

\* A half-written entry belongs to the bind that writes it, also after a step
\* that does not answer that bind.
LEMMA StillUnentered ==
    ASSUME SmmuInv, [SmmuNext]_smmuVars, NEW x \in InTable, Unentered(x)
    PROVE  Unentered(x)' \/ Bound \/ unwind
<1> USE DEF SmmuInv
<1>1. smmu_op # NoOp /\ smmu_op.do = "bind" /\ smmu_op.stream = x
  BY DEF Unentered, NoOp
<1>2. CASE write_ste \/ push \/ doorbell
  BY <1>1, <1>2, CallCarriesOn DEF Unentered
<1>3. CASE remember \/ Elsewhere
  BY <1>1, <1>3 DEF Unentered, remember, Elsewhere, Consume, Latch, next_event, Transaction, smmuVars
<1>4. ~unbind_stream /\ \A s \in Streams, b \in Bindings : ~bind_stream_at(s, b)
  BY <1>1 DEF unbind_stream, bind_stream_at
<1>5. ~give_back
  BY <1>1, CallShape DEF give_back, AtStep
<1> QED BY <1>2, <1>3, <1>4, <1>5 DEF SmmuNext, Elsewhere

LEMMA EntriesStep ==
    ASSUME SmmuInv, [SmmuNext]_smmuVars, NEW x \in InTable, ste'[x].valid
    PROVE  <<x, ste'[x].root>> \in OnRecord' \/ (Unentered(x)' /\ ste'[x].root = 0)
<1> USE DEF SmmuInv
<1>2. ste \in [InTable -> Entries] /\ Known(x, ste[x])
      /\ \A b \in OnRecord : b \in OnRecord' \/ (give_back /\ b = <<smmu_op.stream, smmu_op.root>>)
  BY TablesStep DEF SmmuTypeOK, EntriesOnRecord
<1>3. CASE write_ste
  <2> DEFINE s == smmu_op.stream
  <2>1. /\ \A y \in InTable \ {s} : ste'[y] = ste[y]
        /\ \/ smmu_op.at = "valid" /\ ste'[s] = [ste[s] EXCEPT !.valid = Entered.valid]
           \/ smmu_op.at = "table" /\ ste'[s] = Entered
        /\ smmu_op # NoOp /\ s \in InTable
    BY <1>3, EntryWritten
  <2>2. OnRecord' = OnRecord /\ Called = {<<s, smmu_op.root>>}
    BY <1>3, <2>1, CallCarriesOn, CallShape, RecordStands
  <2>3. smmu_op'.stream = s /\ smmu_op'.do = smmu_op.do
    <3>1. ~unwind
      BY <1>3, <2>1 DEF write_ste, unwind, AtStep
    <3> QED BY <1>3, <3>1, CallCarriesOn
  <2>4. CASE x # s
    <3>1. ste'[x] = ste[x] /\ ~Unentered(x)
      BY <2>1, <2>4 DEF Unentered
    <3> QED BY <1>2, <2>2, <3>1 DEF Known
  <2>5. CASE x = s /\ smmu_op.at = "table"
    <3>1. ste'[s] = Entered
      BY <2>1, <2>5
    <3>2. ste'[s] = stage2_ste(smmu_op.root)
      BY <2>5, <3>1 DEF Entered, abort_ste
    <3> QED BY <2>2, <2>5, <3>2 DEF OnRecord, stage2_ste
  <2>6. CASE x = s /\ smmu_op.at = "valid"
    <3>1. ste'[s] = [ste[s] EXCEPT !.valid = Entered.valid]
      BY <2>1, <2>6
    <3>2. ste[s] \in Entries
      BY <1>2, <2>1
    <3>3. ste'[s].root = ste[s].root /\ ste'[s].valid = Entered.valid
      BY <3>1, <3>2 DEF Entries
    <3>4. smmu_op.do = "bind"
      BY <2>6, <3>3 DEF Entered, abort_ste
    <3>5. ste[s] = abort_ste \/ ste[s].valid
      BY <2>1, <2>6 DEF EntriesWritten, HalfWay
    <3>6. CASE ste[s] = abort_ste
      BY <2>3, <2>6, <3>3, <3>4, <3>6 DEF Unentered, abort_ste
    <3>7. CASE ste[s].valid
      <4>1. <<s, ste[s].root>> \in OnRecord \/ ste[s].root = 0
        BY <1>2, <2>6, <3>7 DEF Known
      <4> QED BY <2>2, <2>3, <2>6, <3>3, <3>4, <4>1 DEF Unentered
    <3> QED BY <3>5, <3>6, <3>7
  <2> QED BY <2>1, <2>4, <2>5, <2>6
<1>4. CASE ~write_ste
  <2>1. ste' = ste
    BY <1>4, EntriesStand
  <2>2. CASE <<x, ste[x].root>> \in OnRecord
    <3>1. ~(give_back /\ x = smmu_op.stream)
      <4> SUFFICES ASSUME give_back, x = smmu_op.stream PROVE FALSE
        OBVIOUS
      <4>1. smmu_op.do # "bind" /\ smmu_op.at \in {"wait", "free"}
        BY CallShape DEF give_back, AtStep
      <4>2. ste[x] = Entered /\ Entered = abort_ste
        BY <4>1 DEF EntriesWritten, Entered
      <4> QED BY <2>1, <4>2 DEF abort_ste
    <3> QED BY <1>2, <2>1, <2>2, <3>1
  <2>3. CASE Unentered(x) /\ ste[x].root = 0
    <3>1. ~(Bound \/ unwind)
      <4> SUFFICES ASSUME Bound \/ unwind PROVE FALSE
        OBVIOUS
      <4>1. smmu_op.at = "wait" /\ smmu_op.do = "bind" /\ smmu_op.stream = x /\ smmu_op # NoOp
        BY <2>3 DEF Bound, unwind, AtStep, Unentered, NoOp
      <4>2. ste[x].root = smmu_op.root /\ smmu_op.root # 0
        BY <4>1, CallShape DEF EntriesWritten, Entered, stage2_ste
      <4> QED BY <2>3, <4>2
    <3> QED BY <2>1, <2>3, <3>1, StillUnentered
  <2> QED BY <1>2, <2>1, <2>2, <2>3 DEF Known
<1> QED BY <1>3, <1>4
\* How far behind the SMMU is: two commands further at the doorbell, one less
\* with each it consumes, and never less than a turn once it has been lapped.
LEMMA LagStep ==
    ASSUME SmmuInv, [SmmuNext]_smmuVars
    PROVE  /\ lag' \in Nat /\ (Lapped => Lapped') /\ cmdq' \in Cmdq /\ CommandsQueued'
           /\ lag' = lag \/ doorbell \/ Consume
<1> USE DEF SmmuInv
<1>1. lag \in Nat /\ cmdq \in Cmdq /\ CMDQ \in Nat
  BY Indices
<1>2. CASE push
  <2>1. lag' = lag
    BY <1>2 DEF push
  <2> QED BY <1>1, <1>2, <2>1, PushStep DEF Lapped
<1>3. CASE doorbell
  <2>1. /\ cmdq' \in Cmdq /\ CommandsQueued' /\ lag' \in Nat /\ lag' = lag + 2
    BY <1>3, DoorbellStep
  <2> QED BY <1>1, <1>3, <2>1 DEF Lapped
<1>4. CASE Consume
  BY <1>4, ConsumeStep
<1>5. CASE ~push /\ ~doorbell /\ ~Consume
  <2>1. cmdq' = cmdq /\ lag' = lag
    BY <1>5 DEF SmmuNext, bind_stream_at, write_ste, Bound, remember, unwind, unbind_stream, give_back,
                Latch, next_event, Transaction, smmuVars
  <2>2. /\ smmu_op'.at \notin {"sync", "ring"}
        /\ smmu_op.at \notin {"sync", "ring"}
        /\ smmu_op'.at # "wait"
        \/ smmu_op' = smmu_op
    <3>1. CASE write_ste
      <4>1. smmu_op'.at \in {"table", "cfgi", "free"} /\ smmu_op.at \in {"valid", "table"}
        BY <3>1, EntryWritten
      <4> QED BY <4>1
    <3>2. CASE \E s \in Streams, b \in Bindings : bind_stream_at(s, b)
      BY <3>2, BindOrRefuse DEF Builds, NoOp
    <3>3. CASE Bound \/ unwind \/ unbind_stream \/ give_back
      <4>1. smmu_op.at \in {"none", "wait", "free"}
        BY <3>3 DEF Bound, unwind, unbind_stream, give_back, AtStep, NoOp
      <4>2. smmu_op'.at \in {"none", "valid"}
        <5>1. CASE unwind
          <6>1. smmu_op \in Stages
            BY <5>1, CallCarriesOn, CallShape
          <6> QED BY <5>1, <6>1 DEF unwind, Stages
        <5>2. CASE Bound \/ unbind_stream \/ give_back
          BY <5>2 DEF Bound, unbind_stream, give_back, NoOp
        <5> QED BY <3>3, <5>1, <5>2
      <4> QED BY <4>1, <4>2
    <3>4. CASE remember \/ Elsewhere
      BY <3>4 DEF remember, Elsewhere, Consume, Latch, next_event, Transaction, smmuVars
    <3> QED BY <1>5, <3>1, <3>2, <3>3, <3>4 DEF SmmuNext, Elsewhere
  <2>3. CommandsQueued'
    BY <2>1, <2>2 DEF CommandsQueued, Lapped, Back
  <2> QED BY <1>1, <2>1, <2>3 DEF Lapped
<1> QED BY <1>2, <1>3, <1>4, <1>5

\* A stream's copy is dropped, or is what it was, or is fetched from the table.
LEMMA CopiesStep ==
    ASSUME SmmuInv, [SmmuNext]_smmuVars
    PROVE  /\ cached' \in [InTable -> Entries \cup {NoCopy}]
           /\ \A x \in InTable : \/ cached'[x] = NoCopy
                                 \/ cached'[x] = cached[x]
                                 \/ cached'[x] = ste[x] /\ ste' = ste
<1> USE DEF SmmuInv
<1>1. /\ cached \in [InTable -> Entries \cup {NoCopy}] /\ ste \in [InTable -> Entries]
  BY DEF SmmuTypeOK
<1>2. CASE Consume
  <2>1. PICK c : cached' = IF c = cmd_sync THEN cached ELSE [cached EXCEPT ![c] = NoCopy]
    BY <1>2 DEF Consume
  <2> QED BY <1>1, <2>1
<1>3. ASSUME NEW s \in InTable, NEW p \in Pages, Transaction(s, p)
      PROVE  /\ cached' \in [InTable -> Entries \cup {NoCopy}]
             /\ \A x \in InTable : \/ cached'[x] = cached[x]
                                   \/ cached'[x] = ste[x] /\ ste' = ste
  <2>1. cached' = [cached EXCEPT ![s] = Entry(s)] /\ ste' = ste /\ Entry(s) \in {cached[s], ste[s]}
    BY <1>3 DEF Transaction, Entry
  <2> QED BY <1>1, <2>1
<1>4. CASE ~Consume /\ \A s \in InTable, p \in Pages : ~Transaction(s, p)
  <2>1. cached' = cached
    BY <1>4 DEF SmmuNext, bind_stream_at, write_ste, push, doorbell, Bound, remember, unwind, unbind_stream,
                give_back, Latch, next_event, smmuVars
  <2> QED BY <1>1, <2>1
<1> QED BY <1>2, <1>3, <1>4

\* While a call waits, the SMMU's copy is the entry, or has yet to be dropped.
LEMMA DroppedStep ==
    ASSUME SmmuInv, [SmmuNext]_smmuVars, ~Lapped'
    PROVE  Dropped'
<1> USE DEF SmmuInv
<1>1. SUFFICES ASSUME smmu_op'.at = "wait" PROVE lag' >= 2 \/ cached'[smmu_op'.stream] \in {NoCopy, ste'[smmu_op'.stream]}
  BY DEF Dropped, Current
<1>2. /\ lag \in Nat /\ ~Lapped
  BY Indices, LagStep
<1>3. CASE doorbell
  BY <1>2, <1>3, DoorbellStep
<1>4. CASE ~doorbell
  <2>1. smmu_op' = smmu_op
    <3>1. CASE write_ste
      BY <1>1, <3>1, EntryWritten
    <3>2. CASE push
      <4>1. smmu_op \in Stages /\ \E a \in {"sync", "ring"} : smmu_op' = [smmu_op EXCEPT !.at = a]
        BY <3>2, CallCarriesOn, CallShape DEF push, Then
      <4> QED BY <1>1, <4>1 DEF Stages
    <3>3. CASE unwind
      <4>1. smmu_op \in Stages
        BY <3>3, CallCarriesOn, CallShape
      <4> QED BY <1>1, <3>3, <4>1 DEF unwind, Stages
    <3>4. CASE \E s \in Streams, b \in Bindings : bind_stream_at(s, b)
      BY <1>1, <3>4, BindOrRefuse DEF Builds
    <3>5. CASE Bound \/ unbind_stream \/ give_back
      BY <1>1, <3>5 DEF Bound, unbind_stream, give_back, NoOp
    <3>6. CASE remember \/ Elsewhere
      BY <3>6 DEF remember, Elsewhere, Consume, Latch, next_event, Transaction, smmuVars
    <3> QED BY <1>4, <3>1, <3>2, <3>3, <3>4, <3>5, <3>6 DEF SmmuNext, Elsewhere
  <2>2. ~write_ste /\ smmu_op.at = "wait"
    BY <1>1, <2>1 DEF write_ste
  <2> DEFINE s == smmu_op.stream
  <2>3. ste' = ste /\ s \in InTable
    <3>1. smmu_op # NoOp
      BY <2>2 DEF NoOp
    <3> QED BY <2>2, <3>1, EntriesStand, CallShape
  <2>4. cached'[s] \in {NoCopy, cached[s], ste[s]}
    BY <2>3, CopiesStep
  <2>5. lag >= 2 \/ cached[s] \in {NoCopy, ste[s]}
    BY <1>2, <2>2 DEF Dropped, Current
  <2>6. CASE Consume /\ lag = 2
    <3>1. cmdq.slots[cmdq.cons % CMDQ] = s
      BY <1>2, <2>2, <2>6, ConsumeStep
    <3>2. cached' = [cached EXCEPT ![s] = NoCopy]
      <4>1. s # cmd_sync
        BY <2>3, IommuAssumption DEF InTable, cmd_sync
      <4> QED BY <2>6, <3>1, <4>1 DEF Consume
    <3>3. cached'[s] = NoCopy
      BY <2>3, <3>2 DEF SmmuTypeOK
    <3> QED BY <2>1, <3>3
  <2>7. CASE Consume /\ lag # 2
    <3>1. lag' = lag - 1
      BY <1>2, <2>7, ConsumeStep
    <3>2. lag' >= 2 \/ cached[s] \in {NoCopy, ste[s]}
      BY <1>2, <2>5, <2>7, <3>1
    <3> QED BY <2>1, <2>3, <2>4, <3>2
  <2>8. CASE ~Consume
    <3>1. lag' = lag
      BY <1>4, <2>8, LagStep
    <3> QED BY <2>1, <2>3, <2>4, <2>5, <3>1
  <2> QED BY <2>6, <2>7, <2>8
<1> QED BY <1>3, <1>4

\* A call that was answered leaves the SMMU no copy but the entry it wrote.
LEMMA AnsweredCall ==
    ASSUME SmmuInv, ~Lapped, smmu_op.at = "wait", Consumed
    PROVE  LET s == smmu_op.stream IN s \in InTable /\ ste[s] = Entered /\ cached[s] \in {NoCopy, Entered}
<1> USE DEF SmmuInv
<1>1. smmu_op # NoOp
  BY DEF NoOp
<1>2. lag = 0
  BY Answered
<1> QED BY <1>1, <1>2, CallShape DEF Dropped, Current, EntriesWritten

LEMMA AnswersStep ==
    ASSUME SmmuInv, [SmmuNext]_smmuVars, ~Lapped'
    PROVE  AnswersHold'
<1> USE DEF SmmuInv
<1>1. SUFFICES ASSUME NEW x \in InTable, x \notin unanswered', ~Calling(x)'
               PROVE  cached'[x] \in {NoCopy, ste'[x]}
  BY DEF AnswersHold
<1>2. ~Lapped
  BY LagStep
<1>3. cached'[x] \in {NoCopy, cached[x]} \/ (cached'[x] = ste[x] /\ ste' = ste)
  BY CopiesStep
<1>4. CASE x \notin unanswered /\ ~Calling(x)
  <2>1. cached[x] \in {NoCopy, ste[x]}
    BY <1>2, <1>4 DEF AnswersHold
  <2>2. ste'[x] = ste[x]
    <3>1. CASE write_ste
      BY <1>4, <3>1, EntryWritten DEF Calling
    <3>2. CASE ~write_ste
      BY <3>2, EntriesStand
    <3> QED BY <3>1, <3>2
  <2> QED BY <1>3, <2>1, <2>2
<1>5. CASE x \in unanswered \/ Calling(x)
  <2>1. x = smmu_op.stream /\ (Bound \/ (give_back /\ smmu_op.do = "unbind" /\ Consumed))
    <3>1. CASE Bound
      <4>1. unanswered' = unanswered \ {smmu_op.stream}
        BY <3>1 DEF Bound
      <4> QED BY <1>1, <1>5, <3>1, <4>1 DEF Calling
    <3>2. CASE give_back
      <4>1. unanswered' = IF smmu_op.do = "unbind" /\ Consumed THEN unanswered \ {smmu_op.stream}
                          ELSE unanswered \cup {smmu_op.stream}
        BY <3>2 DEF give_back
      <4> QED BY <1>1, <1>5, <3>2, <4>1 DEF Calling
    <3>3. CASE write_ste \/ push \/ doorbell \/ unwind
      <4>1. unanswered \subseteq unanswered' /\ Calling(x)' = Calling(x)
        <5>1. unanswered \subseteq unanswered'
          BY <3>3 DEF write_ste, push, doorbell, unwind
        <5>2. smmu_op' # NoOp /\ smmu_op # NoOp /\ smmu_op'.stream = smmu_op.stream
          BY <3>3, CallCarriesOn DEF Stages, NoOp
        <5> QED BY <5>1, <5>2 DEF Calling
      <4> QED BY <1>1, <1>5, <4>1
    <3>4. CASE unbind_stream \/ \E s \in Streams, b \in Bindings : bind_stream_at(s, b)
      <4>1. smmu_op = NoOp /\ unanswered' = unanswered
        BY <3>4 DEF unbind_stream, bind_stream_at
      <4> QED BY <1>1, <1>5, <4>1 DEF Calling
    <3>5. CASE remember \/ Elsewhere
      <4>1. smmu_op' = smmu_op /\ unanswered' = unanswered
        BY <3>5 DEF remember, Elsewhere, Consume, Latch, next_event, Transaction, smmuVars
      <4> QED BY <1>1, <1>5, <4>1 DEF Calling
    <3> QED BY <3>1, <3>2, <3>3, <3>4, <3>5 DEF SmmuNext, Elsewhere
  <2>2. smmu_op.at = "wait" /\ Consumed /\ cached' = cached /\ ~write_ste
    <3>1. smmu_op.at = "wait" /\ Consumed
      BY <2>1 DEF Bound, give_back, AtStep
    <3>2. cached' = cached
      BY <2>1 DEF Bound, give_back
    <3> QED BY <3>1, <3>2 DEF write_ste
  <2> QED BY <1>2, <2>1, <2>2, AnsweredCall, EntriesStand
<1> QED BY <1>4, <1>5

LEMMA CachesStep ==
    ASSUME SmmuInv, [SmmuNext]_smmuVars, ~Lapped'
    PROVE  CachesOnRecord'
<1> USE DEF SmmuInv
<1>1. SUFFICES ASSUME NEW x \in InTable, x \notin unanswered', cached'[x].valid
               PROVE  <<x, cached'[x].root>> \in OnRecord' \/ (Unentered(x)' /\ cached'[x].root = 0)
  BY DEF CachesOnRecord, Known, OnRecord, Called, InBound, Unentered
<1>2. ~Lapped
  BY LagStep
<1>3. CASE cached'[x] = ste'[x]
  BY <1>1, <1>3, EntriesStep
<1>4. CASE cached'[x] # ste'[x]
  <2>1. Calling(x)'
    BY <1>1, <1>4, AnswersStep DEF AnswersHold, NoCopy
  <2>2. cached'[x] = cached[x]
    BY <1>1, <1>4, CopiesStep DEF NoCopy
  <2>3. ~Bound /\ ~give_back /\ ~unwind
    <3>1. ~Bound /\ ~give_back
      BY <2>1 DEF Bound, give_back, Calling
    <3>2. ~unwind
      <4> SUFFICES ASSUME unwind PROVE FALSE
        OBVIOUS
      <4>1. unanswered' = unanswered \cup {smmu_op.stream} /\ smmu_op'.stream = smmu_op.stream
        BY CallCarriesOn DEF unwind
      <4> QED BY <1>1, <2>1, <4>1 DEF Calling
    <3> QED BY <3>1, <3>2
  <2>4. x \notin unanswered
    <3>1. unanswered \subseteq unanswered'
      BY <2>3 DEF SmmuNext, bind_stream_at, write_ste, push, doorbell, remember, unbind_stream,
                  Consume, Latch, next_event, Transaction, smmuVars
    <3> QED BY <1>1, <3>1
  <2>5. <<x, cached[x].root>> \in OnRecord \/ (Unentered(x) /\ cached[x].root = 0)
    BY <1>1, <1>2, <2>2, <2>4 DEF CachesOnRecord, Known
  <2> QED BY <2>2, <2>3, <2>5, TablesStep, StillUnentered
<1> QED BY <1>3, <1>4
-----------------------------------------------------------------------------
\* The event queue.  A slot is its index less some rounds.
LEMMA RingSlot ==
    ASSUME NEW n \in Nat \ {0}, NEW c \in 0..(2 * n - 1), NEW k \in 0..n
    PROVE  /\ ((c + k) % (2 * n)) % n \in 0..(n - 1)
           /\ ((c + k) % (2 * n)) % n \in {c + k, (c + k) - n, (c + k) - 2 * n}
<1> DEFINE q == (c + k) % (2 * n)
           x == q % n
<1>1. q = (IF c + k < 2 * n THEN c + k ELSE c + k - 2 * n) /\ q \in 0..(2 * n - 1)
  <2>1. k \in 0..(2 * n)
    OBVIOUS
  <2> QED BY <2>1, RingPlus
<1> HIDE DEF q
<1>2. x = (IF q < n THEN q ELSE q - n) /\ x \in 0..(n - 1)
  BY <1>1, RingPlace
<1> HIDE DEF x
<1>3. x \in {c + k, (c + k) - n, (c + k) - 2 * n}
  BY <1>1, <1>2
<1> QED BY <1>2, <1>3 DEF x, q

LEMMA SlotsApart ==
    ASSUME SmmuTypeOK, NEW j \in 0..(EVENTQ - 1), NEW k \in 0..EVENTQ, j < k, k - j < EVENTQ
    PROVE  Slot(j) # Slot(k)
<1> DEFINE n == EVENTQ
           c == eventq.cons
           x == ((c + j) % (2 * n)) % n
           y == ((c + k) % (2 * n)) % n
<1>1. n \in Nat \ {0} /\ c \in 0..(2 * n - 1)
  BY IommuAssumption DEF SmmuTypeOK
<1>2. x \in 0..(n - 1) /\ x \in {c + j, (c + j) - n, (c + j) - 2 * n}
  <2>1. j \in 0..n
    BY <1>1
  <2> HIDE DEF n, c
  <2> QED BY <1>1, <2>1, RingSlot
<1>3. y \in 0..(n - 1) /\ y \in {c + k, (c + k) - n, (c + k) - 2 * n}
  BY <1>1, RingSlot
<1>4. Slot(j) = x /\ Slot(k) = y
  BY DEF Slot
<1> HIDE DEF n, c, x, y
<1>5. x # y
  <2>1. /\ n \in Nat
        /\ c \in Int
        /\ x \in Int
        /\ y \in Int
        /\ j \in Int
        /\ k \in Int
        /\ j < k
        /\ k - j < n
    BY <1>1, <1>2, <1>3 DEF n
  <2>2. x = c + j \/ x = (c + j) - n \/ x = (c + j) - 2 * n
    BY <1>2
  <2>3. y = c + k \/ y = (c + k) - n \/ y = (c + k) - 2 * n
    BY <1>3
  <2>4. CASE x = c + j
    BY <2>1, <2>3, <2>4
  <2>5. CASE x = (c + j) - n
    BY <2>1, <2>3, <2>5
  <2>6. CASE x = (c + j) - 2 * n
    BY <2>1, <2>3, <2>6
  <2> QED BY <2>2, <2>4, <2>5, <2>6
<1> QED BY <1>4, <1>5

\* How full the queue is, as each side sees it, and where an event goes.
LEMMA EventsSeen ==
    ASSUME SmmuTypeOK, EventsKept
    PROVE  /\ Unread \in 0..EVENTQ
           /\ QueueFull <=> Unread = EVENTQ
           /\ NoEvent <=> Unread = 0
           /\ eventq.prod % EVENTQ = Slot(Unread)
           /\ eventq.cons % EVENTQ = Slot(0)
           /\ Unread < EVENTQ =>
                  (eventq.prod + 1) % (2 * EVENTQ) = (eventq.cons + (Unread + 1)) % (2 * EVENTQ)
<1> DEFINE n == EVENTQ
           c == eventq.cons
           p == eventq.prod
           u == Unread
<1>1. n \in Nat \ {0} /\ c \in 0..(2 * n - 1) /\ p \in 0..(2 * n - 1)
  BY IommuAssumption DEF SmmuTypeOK
<1>2. u \in 0..n
  <2>1. Len(logged) \in Nat /\ Len(read) \in Nat
    BY DEF SmmuTypeOK
  <2> QED BY <1>1, <2>1 DEF EventsKept, Unread
<1>3. p = (c + u) % (2 * n)
  BY DEF EventsKept
<1> HIDE DEF n, c, p, u
<1>4. p = IF c + u < 2 * n THEN c + u ELSE c + u - 2 * n
  <2>1. u \in 0..(2 * n)
    BY <1>1, <1>2
  <2> QED BY <1>1, <1>3, <2>1, RingPlus
<1>5. (p - c + 2 * n) % (2 * n) = (IF p >= c THEN p - c ELSE p - c + 2 * n)
  BY <1>1, RingMinus
<1>6. (p - c + 2 * n) % (2 * n) = u
  <2>1. (IF p >= c THEN p - c ELSE p - c + 2 * n) = u
    BY <1>1, <1>2, <1>4
  <2> QED BY <1>5, <2>1
<1>7. QueueFull <=> u = n
  BY <1>6 DEF QueueFull, n, c, p
<1>8. NoEvent <=> u = 0
  <2>1. NoEvent <=> p = c
    BY DEF NoEvent, p, c
  <2> QED BY <1>1, <1>2, <1>4, <2>1
<1>9. p % n = Slot(u)
  BY <1>3 DEF Slot, n, c
<1>10. c % n = Slot(0)
  <2>1. 0 \in 0..(2 * n)
    BY <1>1
  <2>2. (c + 0) % (2 * n) = (IF c + 0 < 2 * n THEN c + 0 ELSE c + 0 - 2 * n)
    BY <1>1, <2>1, RingPlus
  <2>3. (IF c + 0 < 2 * n THEN c + 0 ELSE c + 0 - 2 * n) = c
    BY <1>1
  <2>4. Slot(0) = ((c + 0) % (2 * n)) % n
    BY DEF Slot, n, c
  <2> QED BY <2>2, <2>3, <2>4
<1>11. u < n => (p + 1) % (2 * n) = (c + (u + 1)) % (2 * n)
  <2> SUFFICES ASSUME u < n PROVE (p + 1) % (2 * n) = (c + (u + 1)) % (2 * n)
    OBVIOUS
  <2> DEFINE v == u + 1
  <2>1. 1 \in 0..(2 * n) /\ v \in 0..(2 * n) /\ n \in Nat \ {0}
    BY <1>1, <1>2
  <2>2. (p + 1) % (2 * n) = (IF p + 1 < 2 * n THEN p + 1 ELSE p + 1 - 2 * n)
    BY <1>1, <2>1, RingPlus
  <2> HIDE DEF v
  <2>3. (c + v) % (2 * n) = (IF c + v < 2 * n THEN c + v ELSE c + v - 2 * n)
    BY <1>1, <2>1, RingPlus
  <2>4. (IF p + 1 < 2 * n THEN p + 1 ELSE p + 1 - 2 * n) = (IF c + v < 2 * n THEN c + v ELSE c + v - 2 * n)
    BY <1>1, <1>2, <1>4 DEF v
  <2>5. (p + 1) % (2 * n) = (c + v) % (2 * n)
    BY <2>2, <2>3, <2>4
  <2> QED BY <2>5 DEF v
<1> QED BY <1>2, <1>7, <1>8, <1>9, <1>10, <1>11 DEF n, c, p, u

\* One event read: the slots are counted from the next.
LEMMA ReadOn ==
    ASSUME SmmuTypeOK, EventsKept, Unread # 0, eventq'.cons = (eventq.cons + 1) % (2 * EVENTQ)
    PROVE  /\ eventq'.cons \in 0..(2 * EVENTQ - 1)
           /\ eventq.prod = (eventq'.cons + (Unread - 1)) % (2 * EVENTQ)
           /\ \A k \in 0..(Unread - 2) : Slot(k)' = Slot(k + 1)
<1> DEFINE n == EVENTQ
           c == eventq.cons
           c1 == (c + 1) % (2 * n)
           p == eventq.prod
           u == Unread
<1>1. n \in Nat \ {0} /\ c \in 0..(2 * n - 1) /\ p \in 0..(2 * n - 1)
  BY IommuAssumption DEF SmmuTypeOK
<1>2. u \in 1..n
  BY EventsSeen
<1>3. c1 = (IF c + 1 < 2 * n THEN c + 1 ELSE c + 1 - 2 * n) /\ c1 \in 0..(2 * n - 1)
  <2>1. 1 \in 0..(2 * n)
    BY <1>1
  <2> QED BY <1>1, <2>1, RingPlus
<1>4. p = (c + u) % (2 * n)
  BY DEF EventsKept
<1>5. eventq'.cons = c1
  OBVIOUS
<1> HIDE DEF n, c, c1, p, u
<1>6. p = (c1 + (u - 1)) % (2 * n)
  <2> DEFINE v == u - 1
  <2>1. v \in 0..(2 * n) /\ u \in 0..(2 * n) /\ n \in Nat \ {0}
    BY <1>1, <1>2
  <2> HIDE DEF v
  <2>2. p = (IF c + u < 2 * n THEN c + u ELSE c + u - 2 * n)
    BY <1>1, <1>4, <2>1, RingPlus
  <2>3. (c1 + v) % (2 * n) = (IF c1 + v < 2 * n THEN c1 + v ELSE c1 + v - 2 * n)
    BY <1>3, <2>1, RingPlus
  <2>4. (IF c1 + v < 2 * n THEN c1 + v ELSE c1 + v - 2 * n) =
        (IF c + u < 2 * n THEN c + u ELSE c + u - 2 * n)
    BY <1>1, <1>2, <1>3 DEF v
  <2> QED BY <2>2, <2>3, <2>4 DEF v
<1>7. ASSUME NEW k \in 0..(u - 2) PROVE Slot(k)' = Slot(k + 1)
  <2> DEFINE m == k + 1
             x == ((c1 + k) % (2 * n)) % n
             y == ((c + m) % (2 * n)) % n
  <2>1. k \in 0..n /\ m \in 0..n
    BY <1>1, <1>2
  <2> HIDE DEF m
  <2>2. x \in 0..(n - 1) /\ x \in {c1 + k, (c1 + k) - n, (c1 + k) - 2 * n}
    BY <1>1, <1>3, <2>1, RingSlot
  <2>3. y \in 0..(n - 1) /\ y \in {c + m, (c + m) - n, (c + m) - 2 * n}
    BY <1>1, <2>1, RingSlot
  <2> HIDE DEF x, y
  <2>4. x = y
    BY <1>1, <1>3, <2>1, <2>2, <2>3 DEF m
  <2>5. Slot(k)' = x /\ Slot(m) = y
    BY <1>5 DEF Slot, n, c, x, y
  <2> QED BY <2>4, <2>5 DEF m
<1> QED BY <1>3, <1>5, <1>6, <1>7 DEF n, u, p

\* An event logged goes to a slot none of the unread ones is in.
LEMMA LogStep ==
    ASSUME SmmuTypeOK, EventsKept, NEW e \in InTable \X Pages, ~QueueFull, read' = read,
           logged' = Append(logged, e),
           eventq' = [eventq EXCEPT !.slots[eventq.prod % EVENTQ] = e, !.prod = (@ + 1) % (2 * EVENTQ)]
    PROVE  /\ EventsKept' /\ logged' \in Seq(InTable \X Pages)
           /\ eventq' \in [slots : [0..(EVENTQ - 1) -> (InTable \X Pages) \cup {<<>>}],
                           prod : 0..(2 * EVENTQ - 1), cons : 0..(2 * EVENTQ - 1)]
<1> DEFINE E == InTable \X Pages
           n == EVENTQ
<1>1. PICK u : u = Unread
  OBVIOUS
<1>2. /\ n \in Nat \ {0} /\ u \in 0..n /\ u # n
      /\ eventq.prod % n = Slot(u) /\ (eventq.prod + 1) % (2 * n) = (eventq.cons + (u + 1)) % (2 * n)
  BY <1>1, EventsSeen, IommuAssumption
<1>3. PICK a : a = eventq.prod % n
  OBVIOUS
<1>4. PICK b : b = (eventq.prod + 1) % (2 * n)
  OBVIOUS
<1>5. /\ a = Slot(u) /\ b = (eventq.cons + (u + 1)) % (2 * n)
      /\ a \in 0..(n - 1) /\ b \in 0..(2 * n - 1)
  <2>1. n \in Nat \ {0} /\ 1 \in 0..(2 * n)
    BY IommuAssumption
  <2>2. eventq.prod \in 0..(2 * n - 1)
    BY DEF SmmuTypeOK
  <2>3. (eventq.prod + 1) % (2 * n) \in 0..(2 * n - 1)
    BY <2>1, <2>2, RingPlus
  <2>4. eventq.prod % n \in 0..(n - 1)
    BY <2>1, <2>2, RingPlace
  <2> QED BY <1>2, <1>3, <1>4, <2>3, <2>4
<1>6. eventq' = [eventq EXCEPT !.slots[a] = e, !.prod = b]
  BY <1>3, <1>4
<1>7. /\ eventq'.slots = [eventq.slots EXCEPT ![a] = e] /\ eventq'.prod = b /\ eventq'.cons = eventq.cons
      /\ eventq' \in [slots : [0..(n - 1) -> E \cup {<<>>}], prod : 0..(2 * n - 1), cons : 0..(2 * n - 1)]
  <2> DEFINE sl == [eventq.slots EXCEPT ![a] = e]
             Eventq == [slots : [0..(n - 1) -> E \cup {<<>>}], prod : 0..(2 * n - 1), cons : 0..(2 * n - 1)]
  <2>1. eventq \in Eventq
    BY DEF SmmuTypeOK
  <2>2. sl \in [0..(n - 1) -> E \cup {<<>>}]
    <3>1. eventq.slots \in [0..(n - 1) -> E \cup {<<>>}] /\ e \in E
      BY <2>1
    <3> HIDE DEF E, n
    <3> QED BY <3>1
  <2>3. eventq' = [eventq EXCEPT !.slots = sl, !.prod = b]
    BY <1>6
  <2> HIDE DEF sl, n, E
  <2>4. eventq'.slots = sl /\ eventq'.prod = b /\ eventq'.cons = eventq.cons
    BY <2>1, <2>3
  <2>5. eventq' \in Eventq
    BY <1>5, <2>1, <2>2, <2>3
  <2> QED BY <2>4, <2>5 DEF sl
<1> HIDE DEF n
<1>8. /\ logged \in Seq(E) /\ Len(logged) \in Nat /\ Len(read) \in Nat /\ DOMAIN logged = 1..Len(logged)
      /\ u = Len(logged) - Len(read)
  BY <1>1 DEF SmmuTypeOK, Unread
<1>9. /\ logged' \in Seq(E) /\ Len(logged') = Len(logged) + 1 /\ logged'[Len(logged) + 1] = e
      /\ \A i \in 1..Len(logged) : logged'[i] = logged[i]
  BY <1>8
<1>10. Unread' = u + 1
  BY <1>8, <1>9 DEF Unread
<1>11. ASSUME NEW k \in 0..u PROVE eventq'.slots[Slot(k)'] = logged'[Len(read) + 1 + k]
  <2>1. Slot(k)' = Slot(k)
    BY <1>7 DEF Slot
  <2>2. CASE k = u
    <3>1. eventq'.slots[Slot(k)] = e
      BY <1>5, <1>7, <2>2 DEF SmmuTypeOK, n
    <3>2. Len(read) + 1 + k = Len(logged) + 1
      BY <1>8, <2>2
    <3> QED BY <1>9, <2>1, <3>1, <3>2
  <2>3. CASE k # u
    <3>1. k \in 0..(n - 1) /\ u \in 0..n /\ k < u /\ u - k < n /\ k \in 0..(u - 1)
      BY <1>2, <2>3
    <3>2. Slot(k) # a
      BY <1>5, <3>1, SlotsApart DEF n
    <3>3. eventq'.slots[Slot(k)] = eventq.slots[Slot(k)]
      BY <1>7, <3>2 DEF SmmuTypeOK
    <3>4. eventq.slots[Slot(k)] = logged[Len(read) + 1 + k]
      BY <1>1, <3>1 DEF EventsKept
    <3>5. Len(read) + 1 + k \in 1..Len(logged)
      BY <1>8, <3>1
    <3> QED BY <1>9, <2>1, <3>3, <3>4, <3>5
  <2> QED BY <2>2, <2>3
<1>12. Len(read) <= Len(logged') /\ u + 1 <= n /\ \A i \in 1..Len(read) : read[i] = logged'[i]
  <2>1. Len(read) <= Len(logged) /\ \A i \in 1..Len(read) : read[i] = logged[i]
    BY DEF EventsKept
  <2>2. \A i \in 1..Len(read) : i \in 1..Len(logged)
    BY <1>8, <2>1
  <2> QED BY <1>2, <1>8, <1>9, <2>1, <2>2
<1>13. \A k \in 0..((u + 1) - 1) : eventq'.slots[Slot(k)'] = logged'[Len(read) + 1 + k]
  <2>1. 0..((u + 1) - 1) = 0..u
    BY <1>2
  <2> QED BY <1>11, <2>1
<1>14. EventsKept'
  BY <1>5, <1>7, <1>10, <1>12, <1>13 DEF EventsKept, n
<1> QED BY <1>7, <1>9, <1>14 DEF n

\* An event read is the oldest one unread.
LEMMA ReadStep ==
    ASSUME SmmuTypeOK, EventsKept, ~NoEvent, logged' = logged,
           read' = Append(read, eventq.slots[eventq.cons % EVENTQ]),
           eventq' = [eventq EXCEPT !.cons = (@ + 1) % (2 * EVENTQ)]
    PROVE  /\ EventsKept' /\ read' \in Seq(InTable \X Pages)
           /\ eventq' \in [slots : [0..(EVENTQ - 1) -> (InTable \X Pages) \cup {<<>>}],
                           prod : 0..(2 * EVENTQ - 1), cons : 0..(2 * EVENTQ - 1)]
<1> DEFINE E == InTable \X Pages
           n == EVENTQ
<1>1. PICK u : u = Unread
  OBVIOUS
<1>2. n \in Nat \ {0} /\ u \in 1..n /\ eventq.cons % n = Slot(0)
  BY <1>1, EventsSeen, IommuAssumption
<1>3. PICK b : b = (eventq.cons + 1) % (2 * n)
  OBVIOUS
<1>4. eventq' = [eventq EXCEPT !.cons = b]
  BY <1>3
<1>5. eventq'.cons = b /\ eventq'.slots = eventq.slots /\ eventq'.prod = eventq.prod
  BY <1>4 DEF SmmuTypeOK
<1>6. /\ b \in 0..(2 * n - 1) /\ eventq.prod = (b + (u - 1)) % (2 * n)
      /\ \A k \in 0..(u - 2) : Slot(k)' = Slot(k + 1)
  <2>1. Unread # 0 /\ eventq'.cons = (eventq.cons + 1) % (2 * EVENTQ)
    BY <1>1, <1>2, <1>3, <1>5
  <2> QED BY <1>1, <1>5, <2>1, ReadOn
<1>7. eventq' \in [slots : [0..(n - 1) -> E \cup {<<>>}], prod : 0..(2 * n - 1), cons : 0..(2 * n - 1)]
  BY <1>4, <1>6 DEF SmmuTypeOK
<1> HIDE DEF n
<1>8. /\ logged \in Seq(E) /\ read \in Seq(E) /\ Len(logged) \in Nat /\ Len(read) \in Nat
      /\ u = Len(logged) - Len(read)
  BY <1>1 DEF SmmuTypeOK, Unread
<1>9. PICK e : e = logged[Len(read) + 1]
  OBVIOUS
<1>10. e \in E /\ eventq.slots[eventq.cons % EVENTQ] = e
  <2>1. 0 \in 0..(u - 1) /\ Len(read) + 1 \in 1..Len(logged) /\ Len(read) + 1 + 0 = Len(read) + 1
    BY <1>2, <1>8
  <2>2. eventq.slots[Slot(0)] = logged[Len(read) + 1 + 0]
    BY <1>1, <2>1 DEF EventsKept
  <2>3. logged[Len(read) + 1] \in E
    BY <1>8, <2>1
  <2> QED BY <1>2, <1>9, <2>1, <2>2, <2>3 DEF n
<1>11. read' = Append(read, e)
  BY <1>10
<1>12. /\ read' \in Seq(E) /\ Len(read') = Len(read) + 1 /\ read'[Len(read) + 1] = e
       /\ \A i \in 1..Len(read) : read'[i] = read[i]
  BY <1>8, <1>10, <1>11
<1>13. Unread' = u - 1
  BY <1>8, <1>12 DEF Unread
<1>14. \A i \in 1..(Len(read) + 1) : read'[i] = logged[i]
  <2>1. \A i \in 1..Len(read) : read[i] = logged[i]
    BY DEF EventsKept
  <2>2. \A i \in 1..(Len(read) + 1) : i \in 1..Len(read) \/ i = Len(read) + 1
    BY <1>8
  <2> QED BY <1>9, <1>12, <2>1, <2>2
<1>15. ASSUME NEW k \in 0..(u - 2)
       PROVE  eventq'.slots[Slot(k)'] = logged[(Len(read) + 1) + 1 + k]
  <2> DEFINE m == k + 1
  <2>1. m \in 0..(u - 1) /\ Len(read) + 1 + m = (Len(read) + 1) + 1 + k
    <3>1. u \in Nat /\ k \in 0..(u - 2)
      BY <1>2
    <3>2. m \in 0..(u - 1)
      BY <3>1
    <3>3. Len(read) \in Nat /\ k \in Nat
      BY <1>8, <3>1
    <3>4. Len(read) + 1 + m = (Len(read) + 1) + 1 + k
      BY <3>3
    <3> QED BY <3>2, <3>4
  <2>2. Slot(k)' = Slot(m)
    BY <1>6
  <2> HIDE DEF m
  <2>3. eventq.slots[Slot(m)] = logged[Len(read) + 1 + m]
    BY <1>1, <2>1 DEF EventsKept
  <2> QED BY <1>5, <2>1, <2>2, <2>3
<1>16. Len(read) + 1 <= Len(logged) /\ u - 1 <= n /\ 0..((u - 1) - 1) = 0..(u - 2)
  BY <1>2, <1>8
<1>17. EventsKept'
  BY <1>5, <1>6, <1>12, <1>13, <1>14, <1>15, <1>16 DEF EventsKept, n
<1> QED BY <1>7, <1>12, <1>17 DEF n

LEMMA EventsStep ==
    ASSUME SmmuInv, [SmmuNext]_smmuVars
    PROVE  /\ EventsKept' /\ logged' \in Seq(InTable \X Pages) /\ read' \in Seq(InTable \X Pages)
           /\ eventq' \in [slots : [0..(EVENTQ - 1) -> (InTable \X Pages) \cup {<<>>}],
                           prod : 0..(2 * EVENTQ - 1), cons : 0..(2 * EVENTQ - 1)]
<1> USE DEF SmmuInv
<1>1. /\ logged \in Seq(InTable \X Pages) /\ read \in Seq(InTable \X Pages)
      /\ eventq \in [slots : [0..(EVENTQ - 1) -> (InTable \X Pages) \cup {<<>>}],
                     prod : 0..(2 * EVENTQ - 1), cons : 0..(2 * EVENTQ - 1)]
  BY DEF SmmuTypeOK
<1>2. CASE UNCHANGED <<eventq, logged, read>>
  <2>1. Unread' = Unread /\ \A k : Slot(k)' = Slot(k)
    BY <1>2 DEF Unread, Slot
  <2>2. EventsKept'
    BY <1>2, <2>1 DEF EventsKept
  <2> QED BY <1>1, <1>2, <2>2
<1>3. ASSUME NEW s \in InTable, NEW p \in Pages, Transaction(s, p),
             ~UNCHANGED <<eventq, logged, read>>
      PROVE  \E e \in InTable \X Pages :
                 /\ ~QueueFull /\ read' = read /\ logged' = Append(logged, e)
                 /\ eventq' = [eventq EXCEPT !.slots[eventq.prod % EVENTQ] = e,
                                             !.prod = (@ + 1) % (2 * EVENTQ)]
  <2>1. <<s, p>> \in InTable \X Pages
    OBVIOUS
  <2>2. /\ ~QueueFull /\ read' = read /\ logged' = Append(logged, <<s, p>>)
        /\ eventq' = [eventq EXCEPT !.slots[eventq.prod % EVENTQ] = <<s, p>>,
                                    !.prod = (@ + 1) % (2 * EVENTQ)]
    BY <1>3 DEF Transaction
  <2> QED BY <2>1, <2>2
<1>4. CASE next_event /\ ~UNCHANGED <<eventq, logged, read>>
  <2>1. CASE NoEvent
    <3>1. Unread = 0
      BY <2>1, EventsSeen
    <3>2. /\ Len(read) = Len(logged) /\ Len(read) \in Nat
          /\ \A i \in 1..Len(read) : read[i] = logged[i]
      BY <1>1, <3>1 DEF Unread, EventsKept
    <3>3. read = logged
      BY <1>1, <3>2, SameSequence
    <3>4. FALSE
      BY <1>4, <2>1, <3>3 DEF next_event
    <3> QED BY <3>4
  <2>2. CASE ~NoEvent
    <3>1. /\ read' = Append(read, eventq.slots[eventq.cons % EVENTQ]) /\ logged' = logged
          /\ eventq' = [eventq EXCEPT !.cons = (@ + 1) % (2 * EVENTQ)]
      BY <1>4, <2>2 DEF next_event
    <3> QED BY <1>1, <2>2, <3>1, ReadStep
  <2> QED BY <2>1, <2>2
<1>5. CASE ~UNCHANGED <<eventq, logged, read>> /\ \E s \in InTable, p \in Pages : Transaction(s, p)
  <2>1. PICK e \in InTable \X Pages :
            /\ ~QueueFull /\ read' = read /\ logged' = Append(logged, e)
            /\ eventq' = [eventq EXCEPT !.slots[eventq.prod % EVENTQ] = e,
                                        !.prod = (@ + 1) % (2 * EVENTQ)]
    BY <1>3, <1>5
  <2> QED BY <1>1, <2>1, LogStep
<1>6. \/ UNCHANGED <<eventq, logged, read>> \/ next_event
      \/ \E s \in InTable, p \in Pages : Transaction(s, p)
  BY DEF SmmuNext, bind_stream_at, write_ste, push, doorbell, Bound, remember, unwind, unbind_stream, give_back,
         Consume, Latch, smmuVars, eventVars
<1> QED BY <1>2, <1>4, <1>5, <1>6

\* The rest of the types.
\* The rest of the types.
LEMMA TypeStep == SmmuInv /\ [SmmuNext]_smmuVars => SmmuTypeOK'
<1> SUFFICES ASSUME SmmuInv, [SmmuNext]_smmuVars PROVE SmmuTypeOK'
  OBVIOUS
<1> USE DEF SmmuInv
<1>1. binds' \in 0..MaxBinds
  <2>1. binds \in 0..MaxBinds /\ MaxBinds \in Nat
    BY IommuAssumption DEF SmmuTypeOK
  <2>2. binds' = binds \/ (binds < MaxBinds /\ binds' = binds + 1)
    BY DEF SmmuNext, bind_stream_at, write_ste, push, doorbell, Bound, remember, unwind, unbind_stream,
           give_back, Consume, Latch, next_event, Transaction, smmuVars
  <2> QED BY <2>1, <2>2
<1>2. unanswered' \subseteq InTable
  <2>1. unanswered \subseteq InTable
    BY DEF SmmuTypeOK
  <2>2. CASE unwind \/ give_back
    <3>1. smmu_op.stream \in InTable
      <4>1. smmu_op.at # "none"
        BY <2>2 DEF unwind, give_back, AtStep
      <4> QED BY <4>1, CallShape
    <3>2. unanswered' \subseteq unanswered \cup {smmu_op.stream}
      BY <2>2 DEF unwind, give_back
    <3> QED BY <2>1, <3>1, <3>2
  <2>3. CASE ~unwind /\ ~give_back
    <3>1. unanswered' \subseteq unanswered
      BY <2>3 DEF SmmuNext, bind_stream_at, write_ste, push, doorbell, Bound, remember, unbind_stream,
                  Consume, Latch, next_event, Transaction, smmuVars
    <3> QED BY <2>1, <3>1
  <2> QED BY <2>2, <2>3
<1>3. ste' \in [InTable -> Entries]
  BY WrittenStep
<1>4. cached' \in [InTable -> Entries \cup {NoCopy}]
  BY CopiesStep
<1>5. TablesOK' /\ smmu_op' \in Stages \cup {NoOp} /\ stream_bound' \in Bounds
  BY TablesStep
<1>6. cmdq' \in Cmdq /\ lag' \in Nat
  BY LagStep
<1>7. /\ eventq' \in [slots : [0..(EVENTQ - 1) -> (InTable \X Pages) \cup {<<>>}],
                      prod : 0..(2 * EVENTQ - 1), cons : 0..(2 * EVENTQ - 1)]
      /\ logged' \in Seq(InTable \X Pages) /\ read' \in Seq(InTable \X Pages)
  BY EventsStep
<1> QED BY <1>1, <1>2, <1>3, <1>4, <1>5, <1>6, <1>7 DEF SmmuTypeOK, TablesOK, Cmdq, Bounds

-----------------------------------------------------------------------------
LEMMA SmmuStarts == SmmuInit => SmmuInv
<1> SUFFICES ASSUME SmmuInit PROVE SmmuInv
  OBVIOUS
<1>1. /\ ste = [s \in InTable |-> abort_ste] /\ cached = [s \in InTable |-> NoCopy]
      /\ tables = <<>> /\ table_pool = TableFrames /\ smmu_op = NoOp
      /\ cmdq = [slots |-> [i \in 0..(CMDQ - 1) |-> cmd_sync], next |-> 0, prod |-> 0, cons |-> 0]
      /\ stream_bound = [list |-> <<>>, late |-> {}, lost |-> {}]
      /\ eventq = [slots |-> [i \in 0..(EVENTQ - 1) |-> <<>>], prod |-> 0, cons |-> 0]
      /\ binds = 0 /\ logged = <<>> /\ read = <<>> /\ unanswered = {} /\ lag = 0
  BY DEF SmmuInit, Denied
<1>2. CMDQ \in Nat \ {0, 1} /\ EVENTQ \in Nat \ {0} /\ MaxBinds \in Nat
  BY IommuAssumption
<1>3. DOMAIN tables = {} /\ DOMAIN stream_bound.list = {} /\ stream_bound.late = {} /\ stream_bound.lost = {}
      /\ Len(stream_bound.list) = 0 /\ Len(logged) = 0 /\ Len(read) = 0
  BY <1>1
<1>4. Called = {} /\ InBound = {} /\ OnRecord = {}
  BY <1>1, <1>3 DEF Called, InBound, OnRecord
<1>5. SmmuTypeOK
  <2>1. /\ eventq \in [slots : [0..(EVENTQ - 1) -> (InTable \X Pages) \cup {<<>>}],
                       prod : 0..(2 * EVENTQ - 1), cons : 0..(2 * EVENTQ - 1)]
        /\ cmdq \in [slots : [0..(CMDQ - 1) -> InTable \cup {cmd_sync}], next : 0..(2 * CMDQ - 1),
                     prod : 0..(2 * CMDQ - 1), cons : 0..(2 * CMDQ - 1)]
    BY <1>1, <1>2
  <2>2. stream_bound \in [list : Seq(StreamTables), late : SUBSET StreamTables, lost : SUBSET StreamTables]
    BY <1>1
  <2>3. logged \in Seq(InTable \X Pages) /\ read \in Seq(InTable \X Pages)
    BY <1>1
  <2>4. /\ ste \in [InTable -> Entries] /\ cached \in [InTable -> Entries \cup {NoCopy}]
    BY <1>1 DEF abort_ste, Entries
  <2>5. /\ DOMAIN tables \subseteq TableFrames /\ table_pool \subseteq TableFrames
        /\ \A r \in DOMAIN tables : tables[r].frames \subseteq TableFrames /\ r \in tables[r].frames
    BY <1>1, <1>3
  <2>6. smmu_op \in Stages \cup {NoOp} /\ binds \in 0..MaxBinds /\ unanswered \subseteq InTable /\ lag \in Nat
    BY <1>1, <1>2
  <2> QED BY <2>1, <2>2, <2>3, <2>4, <2>5, <2>6 DEF SmmuTypeOK
<1>6. TablesApart /\ OneRecord
  BY <1>3, <1>4 DEF TablesApart, OneRecord
<1>7. /\ \A s \in InTable : ste[s] = abort_ste /\ cached[s] = NoCopy
      /\ abort_ste.valid = FALSE /\ NoCopy.valid = FALSE /\ smmu_op.do = "none" /\ smmu_op.at = "none"
  BY <1>1 DEF abort_ste, NoCopy, NoOp
<1>8. EntriesOnRecord /\ CachesOnRecord /\ EntriesWritten /\ AnswersHold /\ Dropped
  BY <1>7 DEF EntriesOnRecord, CachesOnRecord, Known, EntriesWritten, AnswersHold, Dropped
<1>9. CommandsQueued
  BY <1>1, <1>2, <1>7 DEF CommandsQueued, Back
<1>10. EventsKept
  <2>1. Unread = 0
    BY <1>3 DEF Unread
  <2>2. 0 % (2 * EVENTQ) = 0
    <3>1. 0 \in 0..(4 * EVENTQ - 1)
      BY <1>2
    <3>2. 0 % (2 * EVENTQ) = (IF 0 < 2 * EVENTQ THEN 0 ELSE 0 - 2 * EVENTQ)
      BY <1>2, <3>1, RingSteps
    <3> QED BY <1>2, <3>2
  <2>3. eventq.prod = 0 /\ eventq.cons + Unread = 0
    BY <1>1, <2>1
  <2>4. eventq.prod = (eventq.cons + Unread) % (2 * EVENTQ)
    BY <2>2, <2>3
  <2> QED BY <1>2, <1>3, <2>1, <2>4 DEF EventsKept
<1> QED BY <1>5, <1>6, <1>8, <1>9, <1>10 DEF SmmuInv

LEMMA SmmuHolds == SmmuSpec => []SmmuInv
<1>1. SmmuInit => SmmuInv
  BY SmmuStarts
<1>2. SmmuInv /\ [SmmuNext]_smmuVars => SmmuInv'
  <2> SUFFICES ASSUME SmmuInv, [SmmuNext]_smmuVars PROVE SmmuInv'
    OBVIOUS
  <2>1. TablesApart' /\ OneRecord'
    BY TablesStep DEF TablesOK
  <2>2. SmmuTypeOK' /\ EntriesWritten' /\ CommandsQueued' /\ EventsKept'
    BY TypeStep, WrittenStep, LagStep, EventsStep
  <2>3. EntriesOnRecord'
    BY EntriesStep DEF EntriesOnRecord, Known, Unentered, OnRecord, Called, InBound
  <2>4. ~Lapped' => CachesOnRecord' /\ AnswersHold' /\ Dropped'
    BY CachesStep, AnswersStep, DroppedStep
  <2> QED BY <2>1, <2>2, <2>3, <2>4 DEF SmmuInv
<1> QED BY <1>1, <1>2, PTL DEF SmmuSpec

\* Of every stream whose last bind or unbind the SMMU answered (wait_consumed,
\* global_error), the SMMU holds no copy but the entry bind_stream_at or
\* unbind_stream wrote, whatever it fetched between the stores of write_ste, the
\* pushes and the doorbell, and what it walks for it is in memory, until the
\* command queue has been lapped by calls without an answer; no frame is in two
\* tables or in one and the pool (build_stage2_map, free_stage2_table); and every
\* fault logged is read once, in order (next_event).
THEOREM DevicesReachTheirOwn == SmmuSpec => []SmmuSound
<1>1. SmmuInv => SmmuSound
  <2> SUFFICES ASSUME SmmuInv PROVE SmmuSound
    OBVIOUS
  <2>1. \A b \in OnRecord : b[2] \in DOMAIN tables
    BY DEF SmmuInv, OneRecord
  <2>2. ASSUME NEW s, NEW e, Known(s, e) PROVE NamesTable(s, e)
    <3>1. e.valid => <<s, e.root>>[2] \in DOMAIN tables \/ (Unentered(s) /\ e.root = 0)
      BY <2>1, <2>2 DEF Known
    <3> QED BY <3>1 DEF NamesTable
  <2>3. \A s \in InTable : NamesTable(s, ste[s])
    BY <2>2 DEF SmmuInv, EntriesOnRecord
  <2>4. ~Lapped => \A s \in InTable \ unanswered : NamesTable(s, cached[s])
    BY <2>2 DEF SmmuInv, CachesOnRecord
  <2>5. (~Lapped => AnswersHold /\ WalksLiveTables) /\ TablesApart
    BY <2>3, <2>4 DEF WalksLiveTables, SmmuInv
  <2>6. FaultsReadInOrder
    <3> DEFINE front == SubSeq(logged, 1, Len(read))
    <3>1. /\ logged \in Seq(InTable \X Pages) /\ read \in Seq(InTable \X Pages)
          /\ Len(read) \in Nat /\ Len(logged) \in Nat /\ Len(read) <= Len(logged)
          /\ \A i \in 1..Len(read) : read[i] = logged[i]
      BY DEF SmmuInv, SmmuTypeOK, EventsKept
    <3>2. front \in Seq(InTable \X Pages) /\ Len(front) = Len(read)
          /\ \A i \in 1..Len(read) : front[i] = logged[i]
      BY <3>1
    <3>3. read = front
      <4> HIDE DEF front
      <4> QED BY <3>1, <3>2, SameSequence
    <3> QED BY <3>1, <3>3 DEF FaultsReadInOrder, IsPrefix
  <2> QED BY <2>5, <2>6 DEF SmmuSound
<1> QED BY <1>1, SmmuHolds, PTL
-----------------------------------------------------------------------------
(* The kernel's heap (module KernelHeap) *)

\* Least answers with the least member.
LEMMA LeastIn ==
    ASSUME NEW T, T \subseteq Nat, T # {}
    PROVE  Least(T) \in T /\ \A y \in T : Least(T) <= y
<1>1. PICK x \in T : \A y \in T : x <= y
  BY LeastNat
<1> QED
  BY <1>1 DEF Least

\* The length and the members of a concatenation.
LEMMA Concat ==
    ASSUME NEW S, NEW a \in Seq(S), NEW b \in Seq(S)
    PROVE  /\ a \o b \in Seq(S) /\ Len(a \o b) = Len(a) + Len(b)
           /\ \A k \in 1..Len(a) : (a \o b)[k] = a[k]
           /\ \A k \in 1..Len(b) : (a \o b)[Len(a) + k] = b[k]
<1>1. a \o b \in Seq(S) /\ Len(a \o b) = Len(a) + Len(b)
  OBVIOUS
<1>2. \A k \in 1..Len(a) : (a \o b)[k] = a[k]
  OBVIOUS
<1>3. ASSUME NEW k \in 1..Len(b) PROVE (a \o b)[Len(a) + k] = b[k]
  <2>1. Len(a) + k \in 1..(Len(a) + Len(b)) /\ ~ (Len(a) + k <= Len(a))
    OBVIOUS
  <2> QED
    BY <2>1
<1> QED
  BY <1>1, <1>2, <1>3

\* Where the nodes of a relinked list come from.
LEMMA Relinking ==
    ASSUME NEW hs \in Seq(Blocks), NEW nodes \in Seq(Blocks),
           NEW i \in 1..(Len(hs) + 1), NEW j \in (i - 1)..Len(hs)
    PROVE  LET r == Relinked(hs, i, j, nodes)
           IN /\ r \in Seq(Blocks) /\ Len(r) = (i - 1) + Len(nodes) + (Len(hs) - j)
              /\ \A k \in 1..(i - 1) : r[k] = hs[k]
              /\ \A k \in 1..Len(nodes) : r[i - 1 + k] = nodes[k]
              /\ \A k \in (j + 1)..Len(hs) : r[(i - 1) + Len(nodes) + (k - j)] = hs[k]
<1> DEFINE a == SubSeq(hs, 1, i - 1)
           c == SubSeq(hs, j + 1, Len(hs))
<1>1. a \in Seq(Blocks) /\ Len(a) = i - 1 /\ \A k \in 1..(i - 1) : a[k] = hs[k]
  OBVIOUS
<1>2. c \in Seq(Blocks) /\ Len(c) = Len(hs) - j /\ \A k \in 1..(Len(hs) - j) : c[k] = hs[j + k]
  OBVIOUS
<1> HIDE DEF a, c
<1> DEFINE d == a \o nodes
<1>6. /\ d \in Seq(Blocks) /\ Len(d) = (i - 1) + Len(nodes)
      /\ \A k \in 1..(i - 1) : d[k] = a[k]
      /\ \A k \in 1..Len(nodes) : d[(i - 1) + k] = nodes[k]
  <2>1. d \in Seq(Blocks) /\ Len(d) = Len(a) + Len(nodes)
    BY <1>1, Concat, Zenon
  <2>2. \A k \in 1..Len(a) : d[k] = a[k]
    BY <1>1, Concat
  <2>3. \A k \in 1..Len(nodes) : d[Len(a) + k] = nodes[k]
    BY <1>1, Concat
  <2> HIDE DEF d
  <2> QED
    BY <1>1, <2>1, <2>2, <2>3
<1> HIDE DEF d
<1> DEFINE r == d \o c
<1>7. /\ r \in Seq(Blocks) /\ Len(r) = (i - 1) + Len(nodes) + (Len(hs) - j)
      /\ \A k \in 1..Len(d) : r[k] = d[k]
      /\ \A k \in 1..(Len(hs) - j) : r[Len(d) + k] = c[k]
  <2>1. r \in Seq(Blocks) /\ Len(r) = Len(d) + Len(c)
    BY <1>2, <1>6, Concat, Zenon
  <2>2. \A k \in 1..Len(d) : r[k] = d[k]
    BY <1>2, <1>6, Concat
  <2>3. \A k \in 1..Len(c) : r[Len(d) + k] = c[k]
    BY <1>2, <1>6, Concat
  <2> HIDE DEF r
  <2> QED
    BY <1>2, <1>6, <2>1, <2>2, <2>3
<1> HIDE DEF r
<1>3. /\ \A k \in 1..(i - 1) : r[k] = a[k]
      /\ \A k \in 1..Len(nodes) : r[i - 1 + k] = nodes[k]
      /\ \A k \in 1..(Len(hs) - j) : r[(i - 1) + Len(nodes) + k] = c[k]
  BY <1>6, <1>7
<1>4. r = Relinked(hs, i, j, nodes)
  BY DEF r, d, a, c, Relinked
<1>5. \A k \in (j + 1)..Len(hs) : r[(i - 1) + Len(nodes) + (k - j)] = hs[k]
  <2> TAKE k \in (j + 1)..Len(hs)
  <2>1. k - j \in 1..(Len(hs) - j) /\ j + (k - j) = k
    OBVIOUS
  <2> QED BY <2>1, <1>2, <1>3
<1> QED
  BY <1>1, <1>3, <1>4, <1>5, <1>7

\* Every member of a relinked list comes from before, from the nodes put in, or
\* from behind them.
LEMMA Origins ==
    ASSUME NEW hs \in Seq(Blocks), NEW nodes \in Seq(Blocks),
           NEW i \in 1..(Len(hs) + 1), NEW j \in (i - 1)..Len(hs),
           NEW m \in DOMAIN Relinked(hs, i, j, nodes)
    PROVE  LET r == Relinked(hs, i, j, nodes)
           IN \/ m < i /\ m \in DOMAIN hs /\ r[m] = hs[m]
              \/ \E k \in DOMAIN nodes : m = (i - 1) + k /\ r[m] = nodes[k]
              \/ \E k \in DOMAIN hs : k > j /\ m = (i - 1) + Len(nodes) + (k - j) /\ r[m] = hs[k]
<1> DEFINE r == Relinked(hs, i, j, nodes)
<1>1. /\ r \in Seq(Blocks) /\ Len(r) = (i - 1) + Len(nodes) + (Len(hs) - j)
      /\ \A k \in 1..(i - 1) : r[k] = hs[k]
      /\ \A k \in 1..Len(nodes) : r[i - 1 + k] = nodes[k]
      /\ \A k \in (j + 1)..Len(hs) : r[(i - 1) + Len(nodes) + (k - j)] = hs[k]
  BY Relinking
<1>0. m \in DOMAIN r
  OBVIOUS
<1> HIDE DEF r
<1>2. DOMAIN r = 1..Len(r) /\ DOMAIN hs = 1..Len(hs) /\ DOMAIN nodes = 1..Len(nodes)
      /\ Len(r) \in Nat /\ Len(hs) \in Nat /\ Len(nodes) \in Nat
  BY <1>1
<1>3. m \in Int /\ i \in Int /\ j \in Int /\ m <= (i - 1) + Len(nodes) + (Len(hs) - j) /\ j >= 0 /\ m >= 1
  BY <1>0, <1>1, <1>2
<1>4. CASE m < i
  <2>1. m \in 1..(i - 1) /\ m \in DOMAIN hs
    BY <1>4, <1>3, <1>2
  <2> QED BY <1>4, <2>1, <1>1 DEF r
<1>5. CASE m >= i /\ m <= (i - 1) + Len(nodes)
  <2> DEFINE k == m - (i - 1)
  <2>1. k \in DOMAIN nodes /\ k \in 1..Len(nodes) /\ i - 1 + k = m
    BY <1>5, <1>2, <1>3
  <2> HIDE DEF k
  <2>2. r[m] = nodes[k] /\ m = (i - 1) + k
    BY <2>1, <1>1
  <2> QED BY <2>1, <2>2 DEF r
<1>6. CASE m > (i - 1) + Len(nodes)
  <2> DEFINE k == m - (i - 1) - Len(nodes) + j
  <2>1. k \in DOMAIN hs /\ k \in (j + 1)..Len(hs) /\ k > j
    BY <1>6, <1>3, <1>2
  <2>2. (i - 1) + Len(nodes) + (k - j) = m
    BY <1>3, <1>2
  <2> HIDE DEF k
  <2>3. r[m] = hs[k]
    BY <2>1, <2>2, <1>1
  <2> QED BY <2>1, <2>2, <2>3 DEF r
<1> QED
  BY <1>4, <1>5, <1>6, <1>3, <1>2

\* The units a list of holes has after relinking.
LEMMA RelinkedUnits ==
    ASSUME NEW hs \in Seq(Blocks), NEW nodes \in Seq(Blocks),
           NEW i \in 1..(Len(hs) + 1), NEW j \in (i - 1)..Len(hs), NEW u
    PROVE  InHole(Relinked(hs, i, j, nodes), u)
             <=> InHole(nodes, u) \/ \E k \in DOMAIN hs : (k < i \/ k > j) /\ u \in Units(hs[k])
<1> DEFINE r == Relinked(hs, i, j, nodes)
<1>1. /\ r \in Seq(Blocks) /\ Len(r) = (i - 1) + Len(nodes) + (Len(hs) - j)
      /\ \A k \in 1..(i - 1) : r[k] = hs[k]
      /\ \A k \in 1..Len(nodes) : r[i - 1 + k] = nodes[k]
      /\ \A k \in (j + 1)..Len(hs) : r[(i - 1) + Len(nodes) + (k - j)] = hs[k]
  BY Relinking
<1> HIDE DEF r
<1>2. DOMAIN r = 1..Len(r) /\ DOMAIN hs = 1..Len(hs) /\ DOMAIN nodes = 1..Len(nodes)
      /\ Len(r) \in Nat /\ Len(hs) \in Nat /\ Len(nodes) \in Nat
  BY <1>1
<1>3. ASSUME NEW m \in DOMAIN r, u \in Units(r[m])
      PROVE  InHole(nodes, u) \/ \E k \in DOMAIN hs : (k < i \/ k > j) /\ u \in Units(hs[k])
  <2>1. \/ m < i /\ m \in DOMAIN hs /\ r[m] = hs[m]
        \/ \E k \in DOMAIN nodes : m = (i - 1) + k /\ r[m] = nodes[k]
        \/ \E k \in DOMAIN hs : k > j /\ m = (i - 1) + Len(nodes) + (k - j) /\ r[m] = hs[k]
    BY Origins DEF r
  <2> QED BY <2>1, <1>3 DEF InHole
<1>4. ASSUME NEW k \in DOMAIN nodes, u \in Units(nodes[k]) PROVE InHole(r, u)
  <2> DEFINE m == i - 1 + k
  <2>1. m \in DOMAIN r
    BY <1>1, <1>2
  <2>2. r[m] = nodes[k]
    BY <1>1, <1>2
  <2> HIDE DEF m
  <2> QED BY <1>4, <2>1, <2>2 DEF InHole
<1>5. ASSUME NEW k \in DOMAIN hs, k < i \/ k > j, u \in Units(hs[k]) PROVE InHole(r, u)
  <2> DEFINE m == IF k < i THEN k ELSE (i - 1) + Len(nodes) + (k - j)
  <2>1. m \in DOMAIN r
    BY <1>1, <1>2, <1>5
  <2>2. r[m] = hs[k]
    BY <1>1, <1>2, <1>5
  <2> HIDE DEF m
  <2> QED BY <1>5, <2>1, <2>2 DEF InHole
<1>6. InHole(r, u) => InHole(nodes, u) \/ \E k \in DOMAIN hs : (k < i \/ k > j) /\ u \in Units(hs[k])
  BY <1>3 DEF InHole
<1>7. InHole(nodes, u) => InHole(r, u)
  BY <1>4 DEF InHole
<1>8. (\E k \in DOMAIN hs : (k < i \/ k > j) /\ u \in Units(hs[k])) => InHole(r, u)
  BY <1>5
<1>9. InHole(r, u) <=> InHole(nodes, u) \/ \E k \in DOMAIN hs : (k < i \/ k > j) /\ u \in Units(hs[k])
  BY <1>6, <1>7, <1>8
<1> QED
  BY <1>9 DEF r

\* A block ends past where it begins; its units are those between.
LEMMA Shaped ==
    ASSUME NEW b \in Blocks
    PROVE  /\ b.addr \in Nat /\ b.size \in Nat \ {0} /\ Beyond(b) \in Nat /\ Beyond(b) = b.addr + b.size
           /\ b.addr < Beyond(b)
           /\ \A u : u \in Units(b) <=> u \in Int /\ b.addr <= u /\ u < Beyond(b)
<1>1. b.addr \in Nat /\ b.size \in Nat \ {0}
  BY DEF Blocks
<1>2. Beyond(b) = b.addr + b.size
  BY DEF Beyond
<1> QED
  BY <1>1, <1>2 DEF Units

\* A block of naturals that is not empty is a block.
LEMMA Shaping ==
    ASSUME NEW a \in Nat, NEW s \in Nat \ {0}
    PROVE  Block(a, s) \in Blocks /\ Block(a, s).addr = a /\ Block(a, s).size = s /\ Beyond(Block(a, s)) = a + s
BY DEF Block, Blocks, Beyond

\* What is relinked is in order if what stays is apart and the new nodes lie
\* between, touching at most their neighbours.
Stays(hs, i, j) ==
    \A k, l \in DOMAIN hs : k < l /\ (k < i \/ k > j) /\ (l < i \/ l > j) => Beyond(hs[k]) < hs[l].addr
FrontApart(hs, i, nodes, T) ==
    \A k \in DOMAIN hs, m \in DOMAIN nodes : k < i =>
        \/ Beyond(hs[k]) < nodes[m].addr
        \/ k = i - 1 /\ m = 1 /\ i - 1 \in T /\ Beyond(hs[k]) = nodes[m].addr
BackApart(hs, i, j, nodes, T) ==
    \A k \in DOMAIN hs, m \in DOMAIN nodes : k > j =>
        \/ Beyond(nodes[m]) < hs[k].addr
        \/ k = j + 1 /\ m = Len(nodes) /\ (i - 1) + Len(nodes) \in T /\ Beyond(nodes[m]) = hs[k].addr

\* A relinked list is in order if what stays is, what is put in is, and the
\* two are apart from each other.
LEMMA RelinkedOrder ==
    ASSUME NEW hs \in Seq(Blocks), NEW nodes \in Seq(Blocks),
           NEW i \in 1..(Len(hs) + 1), NEW j \in (i - 1)..Len(hs), NEW T,
           Stays(hs, i, j), InOrder(nodes, {}), FrontApart(hs, i, nodes, T), BackApart(hs, i, j, nodes, T)
    PROVE  InOrder(Relinked(hs, i, j, nodes), T)
<1> DEFINE r == Relinked(hs, i, j, nodes)
           Left(m) == m < i /\ m \in DOMAIN hs /\ r[m] = hs[m]
           Mid(m, k) == k \in DOMAIN nodes /\ m = (i - 1) + k /\ r[m] = nodes[k]
           Right(m, k) == k \in DOMAIN hs /\ k > j /\ m = (i - 1) + Len(nodes) + (k - j) /\ r[m] = hs[k]
           Good(p, q) == \/ Beyond(r[p]) < r[q].addr
                         \/ p \in T /\ q = p + 1 /\ Beyond(r[p]) = r[q].addr
<1>1. \A m \in DOMAIN r : Left(m) \/ (\E k : Mid(m, k)) \/ (\E k : Right(m, k))
  BY Origins
<1> HIDE DEF r
<1>2. DOMAIN hs = 1..Len(hs) /\ DOMAIN nodes = 1..Len(nodes) /\ Len(hs) \in Nat /\ Len(nodes) \in Nat
      /\ i \in Int /\ j \in Int
  OBVIOUS
<1>3. ASSUME NEW p \in DOMAIN r, NEW q \in DOMAIN r, p < q PROVE Good(p, q)
  <2>1. CASE Left(p) /\ Left(q)
    BY <2>1, <1>3 DEF Stays
  <2>2. ASSUME Left(p), NEW l, Mid(q, l) PROVE Good(p, q)
    <3>1. Beyond(hs[p]) < nodes[l].addr
          \/ (p = i - 1 /\ l = 1 /\ i - 1 \in T /\ Beyond(hs[p]) = nodes[l].addr)
      BY <2>2 DEF FrontApart
    <3>2. p = i - 1 /\ l = 1 => q = p + 1
      BY <2>2, <1>2
    <3> QED BY <2>2, <3>1, <3>2
  <2>3. ASSUME Left(p), NEW l, Right(q, l) PROVE Good(p, q)
    <3>1. p < l /\ p \in DOMAIN hs /\ l \in DOMAIN hs
      BY <2>3, <1>2
    <3> QED BY <2>3, <3>1 DEF Stays
  <2>4. ASSUME NEW k, Mid(p, k), NEW l, Mid(q, l) PROVE Good(p, q)
    <3>1. k < l
      BY <2>4, <1>2, <1>3
    <3>2. Beyond(nodes[k]) < nodes[l].addr
      BY <2>4, <3>1 DEF InOrder
    <3> QED BY <2>4, <3>2
  <2>5. ASSUME NEW k, Mid(p, k), NEW l, Right(q, l) PROVE Good(p, q)
    <3>1. Beyond(nodes[k]) < hs[l].addr
          \/ (l = j + 1 /\ k = Len(nodes) /\ (i - 1) + Len(nodes) \in T /\ Beyond(nodes[k]) = hs[l].addr)
      BY <2>5 DEF BackApart
    <3>2. l = j + 1 /\ k = Len(nodes) => q = p + 1 /\ p = (i - 1) + Len(nodes)
      BY <2>5, <1>2
    <3> QED BY <2>5, <3>1, <3>2
  <2>6. ASSUME NEW k, Right(p, k), NEW l, Right(q, l) PROVE Good(p, q)
    <3>1. k < l
      BY <2>6, <1>2, <1>3
    <3> QED BY <2>6, <3>1 DEF Stays
  <2>7. ASSUME NEW k, Mid(p, k) \/ Right(p, k), Left(q) PROVE FALSE
    BY <2>7, <1>2, <1>3
  <2>8. ASSUME NEW k, Right(p, k), NEW l, Mid(q, l) PROVE FALSE
    BY <2>8, <1>2, <1>3
  <2> HIDE DEF Left, Mid, Right, Good
  <2> QED
    BY <2>1, <2>2, <2>3, <2>4, <2>5, <2>6, <2>7, <2>8, <1>1
<1> QED
  BY <1>3 DEF InOrder, r

\* coalesce loses no unit, and node i no longer touches the next.
LEMMA Coalesced ==
    ASSUME NEW hs \in Seq(Blocks), NEW i \in Int, NEW T, T \subseteq {i - 1, i}, InOrder(hs, T)
    PROVE  /\ coalesce(hs, i) \in Seq(Blocks)
           /\ InOrder(coalesce(hs, i), T \ {i})
           /\ \A u : InHole(coalesce(hs, i), u) <=> InHole(hs, u)
<1>0. DOMAIN hs = 1..Len(hs) /\ Len(hs) \in Nat /\ \A k \in DOMAIN hs : hs[k] \in Blocks
  OBVIOUS
<1>1. CASE ~ (i \in 1..(Len(hs) - 1) /\ Beyond(hs[i]) = hs[i + 1].addr)
  <2>1. coalesce(hs, i) = hs
    BY <1>1 DEF coalesce
  <2>2. InOrder(hs, T \ {i})
    <3> SUFFICES ASSUME NEW k \in DOMAIN hs, NEW l \in DOMAIN hs, k < l
                 PROVE  \/ Beyond(hs[k]) < hs[l].addr
                        \/ k \in T \ {i} /\ l = k + 1 /\ Beyond(hs[k]) = hs[l].addr
      BY DEF InOrder
    <3>1. \/ Beyond(hs[k]) < hs[l].addr
          \/ k \in T /\ l = k + 1 /\ Beyond(hs[k]) = hs[l].addr
      BY DEF InOrder
    <3>2. k = i /\ l = k + 1 => i \in 1..(Len(hs) - 1)
      BY <1>0
    <3> QED BY <3>1, <3>2, <1>1
  <2> QED BY <2>1, <2>2
<1>2. CASE i \in 1..(Len(hs) - 1) /\ Beyond(hs[i]) = hs[i + 1].addr
  <2> DEFINE b == Block(hs[i].addr, hs[i].size + hs[i + 1].size)
             nodes == <<b>>
  <2>1. i \in DOMAIN hs /\ i + 1 \in DOMAIN hs /\ i \in 1..(Len(hs) + 1) /\ i + 1 \in (i - 1)..Len(hs)
    BY <1>0, <1>2
  <2>a. /\ hs[i].addr \in Nat /\ hs[i].size \in Nat \ {0} /\ Beyond(hs[i]) = hs[i].addr + hs[i].size
        /\ hs[i + 1].addr \in Nat /\ hs[i + 1].size \in Nat \ {0}
        /\ Beyond(hs[i + 1]) = hs[i + 1].addr + hs[i + 1].size
    BY <2>1, <1>0, Shaped
  <2>2. b \in Blocks /\ b.addr = hs[i].addr /\ Beyond(b) = Beyond(hs[i + 1])
    <3>a. \A x, y \in Nat \ {0} : x + y \in Nat \ {0}
      OBVIOUS
    <3>1. hs[i].addr \in Nat /\ hs[i].size + hs[i + 1].size \in Nat \ {0}
      BY <2>a, <3>a, Zenon
    <3>2. b \in Blocks /\ b.addr = hs[i].addr /\ Beyond(b) = hs[i].addr + (hs[i].size + hs[i + 1].size)
      BY <3>1, Shaping
    <3> HIDE DEF b
    <3> QED BY <3>2, <2>a, <1>2
  <2>3. coalesce(hs, i) = Relinked(hs, i, i + 1, nodes)
    BY <1>2 DEF coalesce
  <2>4. nodes \in Seq(Blocks) /\ Len(nodes) = 1 /\ DOMAIN nodes = {1} /\ nodes[1] = b
    BY <2>2
  <2> HIDE DEF nodes, b
  <2>5. Relinked(hs, i, i + 1, nodes) \in Seq(Blocks)
    BY <2>1, <2>4, Relinking
  <2>6. Stays(hs, i, i + 1)
    <3> SUFFICES ASSUME NEW k \in DOMAIN hs, NEW l \in DOMAIN hs, k < l, k < i \/ k > i + 1, l < i \/ l > i + 1
                 PROVE  Beyond(hs[k]) < hs[l].addr
      BY DEF Stays
    <3>1. \/ Beyond(hs[k]) < hs[l].addr
          \/ k \in T /\ l = k + 1 /\ Beyond(hs[k]) = hs[l].addr
      BY DEF InOrder
    <3>2. k \in {i - 1, i} /\ l = k + 1 => FALSE
      BY <1>0
    <3> QED BY <3>1, <3>2
  <2>7. InOrder(nodes, {})
    BY <2>4 DEF InOrder
  <2>8. FrontApart(hs, i, nodes, T \ {i})
    <3> SUFFICES ASSUME NEW k \in DOMAIN hs, k < i
                 PROVE  \/ Beyond(hs[k]) < b.addr
                        \/ k = i - 1 /\ i - 1 \in T \ {i} /\ Beyond(hs[k]) = b.addr
      BY <2>4 DEF FrontApart
    <3>1. \/ Beyond(hs[k]) < hs[i].addr
          \/ k \in T /\ i = k + 1 /\ Beyond(hs[k]) = hs[i].addr
      BY <2>1 DEF InOrder
    <3>2. i = k + 1 => k = i - 1 /\ k # i
      BY <1>0
    <3> QED BY <3>1, <3>2, <2>2
  <2>9. BackApart(hs, i, i + 1, nodes, T \ {i})
    <3> SUFFICES ASSUME NEW k \in DOMAIN hs, k > i + 1 PROVE Beyond(b) < hs[k].addr
      BY <2>4 DEF BackApart
    <3>1. \/ Beyond(hs[i + 1]) < hs[k].addr
          \/ i + 1 \in T
      BY <2>1 DEF InOrder
    <3>2. i + 1 \notin {i - 1, i}
      OBVIOUS
    <3> QED BY <3>1, <3>2, <2>2
  <2>10. InOrder(Relinked(hs, i, i + 1, nodes), T \ {i})
    BY <2>1, <2>4, <2>6, <2>7, <2>8, <2>9, RelinkedOrder
  <2>11. ASSUME NEW u PROVE InHole(Relinked(hs, i, i + 1, nodes), u) <=> InHole(hs, u)
    <3>1. InHole(Relinked(hs, i, i + 1, nodes), u)
            <=> InHole(nodes, u) \/ \E k \in DOMAIN hs : (k < i \/ k > i + 1) /\ u \in Units(hs[k])
      BY <2>1, <2>4, RelinkedUnits
    <3>2. InHole(nodes, u) <=> u \in Units(b)
      BY <2>4 DEF InHole
    <3>3. u \in Units(b) <=> u \in Units(hs[i]) \/ u \in Units(hs[i + 1])
      <4>1. /\ u \in Units(b) <=> u \in Int /\ hs[i].addr <= u /\ u < Beyond(hs[i + 1])
            /\ u \in Units(hs[i]) <=> u \in Int /\ hs[i].addr <= u /\ u < Beyond(hs[i])
            /\ u \in Units(hs[i + 1]) <=> u \in Int /\ hs[i + 1].addr <= u /\ u < Beyond(hs[i + 1])
        BY <2>1, <2>2, <1>0, Shaped
      <4>2. \A x, y, z \in Nat : x < y /\ y < z =>
                \A w : w \in Int /\ x <= w /\ w < z <=> (w \in Int /\ x <= w /\ w < y) \/ (w \in Int /\ y <= w /\ w < z)
        OBVIOUS
      <4>3. /\ hs[i].addr \in Nat /\ Beyond(hs[i]) \in Nat /\ Beyond(hs[i + 1]) \in Nat
            /\ hs[i].addr < Beyond(hs[i]) /\ hs[i + 1].addr < Beyond(hs[i + 1])
        BY <2>1, <1>0, Shaped
      <4>4. Beyond(hs[i]) = hs[i + 1].addr
        BY <1>2
      <4>5. u \in Units(hs[i + 1]) <=> u \in Int /\ Beyond(hs[i]) <= u /\ u < Beyond(hs[i + 1])
        BY <4>1, <4>4
      <4>6. hs[i].addr < Beyond(hs[i]) /\ Beyond(hs[i]) < Beyond(hs[i + 1])
        BY <4>3, <4>4
      <4> QED BY <4>1, <4>2, <4>3, <4>5, <4>6, Zenon
    <3>4. \A k \in DOMAIN hs : k < i \/ k > i + 1 \/ k = i \/ k = i + 1
      BY <1>0
    <3> QED BY <3>1, <3>2, <3>3, <3>4, <2>1 DEF InHole
  <2> QED
    BY <2>3, <2>5, <2>10, <2>11
<1> QED
  BY <1>1, <1>2

\* align_up never goes down.
LEMMA AlignsUp ==
    ASSUME NEW a \in Nat, NEW n \in Nat \ {0}
    PROVE  align_up(a, n) \in Nat /\ a <= align_up(a, n)
<1> DEFINE c == a + n - 1
<1>1. c \in Nat
  OBVIOUS
<1> HIDE DEF c
<1>2. c \div n \in Nat /\ (c \div n) * n <= c /\ c < (c \div n) * n + n
  BY <1>1, DivBetween
<1>3. (c \div n) * n \in Nat
  BY <1>2
<1> DEFINE d == (c \div n) * n
<1>4. d \in Nat /\ c < d + n
  BY <1>2, <1>3
<1> HIDE DEF d
<1>5. a <= d
  BY <1>4 DEF c
<1>6. align_up(a, n) = d
  BY DEF align_up, c, d
<1> QED
  BY <1>4, <1>5, <1>6

\* A hole and the one that begins where it ends make one hole of both's units.
LEMMA Joined ==
    ASSUME NEW x \in Blocks, NEW y \in Blocks
    PROVE  /\ <<x>> \o <<y>> = <<x, y>> /\ <<x>> \o <<>> = <<x>> /\ <<>> \o <<y>> = <<y>> /\ <<>> \o <<>> = <<>>
<1>1. <<x>> \o <<y>> = <<x, y>>
  <2> DEFINE s == <<x>> \o <<y>>
  <2>1. /\ s \in Seq(Blocks) /\ Len(s) = Len(<<x>>) + Len(<<y>>)
        /\ \A k \in 1..Len(<<x>>) : s[k] = <<x>>[k]
        /\ \A k \in 1..Len(<<y>>) : s[Len(<<x>>) + k] = <<y>>[k]
    <3>1. <<x>> \in Seq(Blocks) /\ <<y>> \in Seq(Blocks)
      OBVIOUS
    <3> QED BY <3>1, Concat
  <2> HIDE DEF s
  <2>2. Len(<<x>>) = 1 /\ Len(<<y>>) = 1 /\ <<x>>[1] = x /\ <<y>>[1] = y
    OBVIOUS
  <2>3. Len(s) = 2
    BY <2>1, <2>2
  <2>4. s[1] = x
    <3>1. 1 \in 1..Len(<<x>>)
      BY <2>2
    <3>2. s[1] = <<x>>[1]
      BY <2>1, <3>1, Zenon
    <3> QED BY <2>2, <3>2
  <2>5. s[2] = y
    BY <2>1, <2>2
  <2>6. s = <<x, y>>
    BY <2>1, <2>3, <2>4, <2>5
  <2> QED BY <2>6 DEF s
<1>2. <<x>> \o <<>> = <<x>>
  OBVIOUS
<1>3. <<>> \o <<y>> = <<y>>
  OBVIOUS
<1>4. <<>> \o <<>> = <<>>
  OBVIOUS
<1> QED
  BY <1>1, <1>2, <1>3, <1>4

\* The front pad and the tail are what the block leaves of its hole.
LEMMA Remaining ==
    ASSUME NEW h \in Blocks, NEW b \in Blocks, h.addr <= b.addr, Beyond(b) <= Beyond(h)
    PROVE  /\ Remains(h, b) \in Seq(Blocks) /\ InOrder(Remains(h, b), {})
           /\ \A m \in DOMAIN Remains(h, b) : h.addr <= Remains(h, b)[m].addr /\ Beyond(Remains(h, b)[m]) <= Beyond(h)
           /\ \A u : InHole(Remains(h, b), u) <=> u \in Units(h) /\ u \notin Units(b)
<1> DEFINE p == Block(h.addr, b.addr - h.addr)
           t == Block(Beyond(b), Beyond(h) - Beyond(b))
           r == Remains(h, b)
<1>1. /\ h.addr \in Nat /\ b.addr \in Nat /\ Beyond(h) \in Nat /\ Beyond(b) \in Nat
      /\ h.addr < Beyond(h) /\ b.addr < Beyond(b)
      /\ \A u : u \in Units(h) <=> u \in Int /\ h.addr <= u /\ u < Beyond(h)
      /\ \A u : u \in Units(b) <=> u \in Int /\ b.addr <= u /\ u < Beyond(b)
  BY Shaped
<1>2. h.addr < b.addr => /\ p \in Blocks /\ p.addr = h.addr /\ Beyond(p) = b.addr
                         /\ \A u : u \in Units(p) <=> u \in Int /\ h.addr <= u /\ u < b.addr
  <2> SUFFICES ASSUME h.addr < b.addr
               PROVE  /\ p \in Blocks /\ p.addr = h.addr /\ Beyond(p) = b.addr
                      /\ \A u : u \in Units(p) <=> u \in Int /\ h.addr <= u /\ u < b.addr
    OBVIOUS
  <2>1. \A x, y \in Nat : x < y => y - x \in Nat \ {0} /\ x + (y - x) = y
    OBVIOUS
  <2>2. b.addr - h.addr \in Nat \ {0} /\ h.addr + (b.addr - h.addr) = b.addr
    BY <1>1, <2>1, Zenon
  <2>3. p \in Blocks /\ p.addr = h.addr /\ Beyond(p) = b.addr
    BY <1>1, <2>2, Shaping
  <2> HIDE DEF p
  <2>4. \A u : u \in Units(p) <=> u \in Int /\ p.addr <= u /\ u < Beyond(p)
    BY <2>3, Shaped
  <2> QED BY <2>3, <2>4
<1>3. Beyond(b) < Beyond(h) => /\ t \in Blocks /\ t.addr = Beyond(b) /\ Beyond(t) = Beyond(h)
                               /\ \A u : u \in Units(t) <=> u \in Int /\ Beyond(b) <= u /\ u < Beyond(h)
  <2> SUFFICES ASSUME Beyond(b) < Beyond(h)
               PROVE  /\ t \in Blocks /\ t.addr = Beyond(b) /\ Beyond(t) = Beyond(h)
                      /\ \A u : u \in Units(t) <=> u \in Int /\ Beyond(b) <= u /\ u < Beyond(h)
    OBVIOUS
  <2>1. \A x, y \in Nat : x < y => y - x \in Nat \ {0} /\ x + (y - x) = y
    OBVIOUS
  <2>2. Beyond(h) - Beyond(b) \in Nat \ {0} /\ Beyond(b) + (Beyond(h) - Beyond(b)) = Beyond(h)
    BY <1>1, <2>1, Zenon
  <2>3. t \in Blocks /\ t.addr = Beyond(b) /\ Beyond(t) = Beyond(h)
    BY <1>1, <2>2, Shaping
  <2> HIDE DEF t
  <2>4. \A u : u \in Units(t) <=> u \in Int /\ t.addr <= u /\ u < Beyond(t)
    BY <2>3, Shaped
  <2> QED BY <2>3, <2>4
<1> DEFINE Shape == /\ r \in Seq(Blocks) /\ InOrder(r, {})
                    /\ \A m \in DOMAIN r : h.addr <= r[m].addr /\ Beyond(r[m]) <= Beyond(h)
                    /\ \A u : InHole(r, u) <=> u \in Units(h) /\ u \notin Units(b)
<1> SUFFICES Shape
  OBVIOUS
<1>4. r = (IF h.addr < b.addr THEN <<p>> ELSE <<>>) \o (IF Beyond(b) < Beyond(h) THEN <<t>> ELSE <<>>)
  BY DEF Remains, Pad, TailOf
<1>a. p \in Blocks /\ t \in Blocks => <<p>> \o <<t>> = <<p, t>>
  BY Joined
<1>b. (p \in Blocks => <<p>> \o <<>> = <<p>>) /\ (t \in Blocks => <<>> \o <<t>> = <<t>>) /\ <<>> \o <<>> = <<>>
  BY Joined
<1> HIDE DEF p, t, r
<1>5. \A u : /\ u \in Int /\ h.addr <= u /\ u < Beyond(h)
             /\ ~ (u \in Int /\ b.addr <= u /\ u < Beyond(b))
             <=> (u \in Int /\ h.addr <= u /\ u < b.addr) \/ (u \in Int /\ Beyond(b) <= u /\ u < Beyond(h))
  BY <1>1
<1>6. CASE h.addr < b.addr /\ Beyond(b) < Beyond(h)
  <2>1. r = <<p, t>> /\ p \in Blocks /\ t \in Blocks
    BY <1>2, <1>3, <1>4, <1>6, <1>a
  <2>2. r \in Seq(Blocks) /\ DOMAIN r = {1, 2} /\ r[1] = p /\ r[2] = t
    BY <2>1
  <2>3. InOrder(r, {})
    BY <2>2, <1>1, <1>2, <1>3, <1>6 DEF InOrder
  <2>4. \A m \in DOMAIN r : h.addr <= r[m].addr /\ Beyond(r[m]) <= Beyond(h)
    BY <2>2, <1>1, <1>2, <1>3, <1>6
  <2>5. \A u : InHole(r, u) <=> u \in Units(p) \/ u \in Units(t)
    BY <2>2 DEF InHole
  <2>6. \A u : InHole(r, u) <=> u \in Units(h) /\ u \notin Units(b)
    BY <2>5, <1>1, <1>2, <1>3, <1>6, <1>5
  <2> QED BY <2>2, <2>3, <2>4, <2>6
<1>7. CASE h.addr < b.addr /\ ~ (Beyond(b) < Beyond(h))
  <2>1. r = <<p>> /\ p \in Blocks
    BY <1>2, <1>4, <1>7, <1>b
  <2>2. r \in Seq(Blocks) /\ DOMAIN r = {1} /\ r[1] = p
    BY <2>1
  <2>3. InOrder(r, {})
    BY <2>2 DEF InOrder
  <2>4. \A m \in DOMAIN r : h.addr <= r[m].addr /\ Beyond(r[m]) <= Beyond(h)
    BY <2>2, <1>1, <1>2, <1>7
  <2>5. \A u : InHole(r, u) <=> u \in Units(p)
    BY <2>2 DEF InHole
  <2>6. \A u : InHole(r, u) <=> u \in Units(h) /\ u \notin Units(b)
    BY <2>5, <1>1, <1>2, <1>7, <1>5
  <2> QED BY <2>2, <2>3, <2>4, <2>6
<1>8. CASE ~ (h.addr < b.addr) /\ Beyond(b) < Beyond(h)
  <2>1. r = <<t>> /\ t \in Blocks
    BY <1>3, <1>4, <1>8, <1>b
  <2>2. r \in Seq(Blocks) /\ DOMAIN r = {1} /\ r[1] = t
    BY <2>1
  <2>3. InOrder(r, {})
    BY <2>2 DEF InOrder
  <2>4. \A m \in DOMAIN r : h.addr <= r[m].addr /\ Beyond(r[m]) <= Beyond(h)
    BY <2>2, <1>1, <1>3, <1>8
  <2>5. \A u : InHole(r, u) <=> u \in Units(t)
    BY <2>2 DEF InHole
  <2>6. \A u : InHole(r, u) <=> u \in Units(h) /\ u \notin Units(b)
    BY <2>5, <1>1, <1>3, <1>8, <1>5
  <2> QED BY <2>2, <2>3, <2>4, <2>6
<1>9. CASE ~ (h.addr < b.addr) /\ ~ (Beyond(b) < Beyond(h))
  <2>1. r = <<>>
    BY <1>4, <1>9, <1>b
  <2>2. r \in Seq(Blocks) /\ DOMAIN r = {}
    BY <2>1
  <2>3. \A u : ~ InHole(r, u)
    BY <2>2 DEF InHole
  <2>4. \A u : ~ (u \in Units(h) /\ u \notin Units(b))
    BY <1>1, <1>9
  <2> QED BY <2>2, <2>3, <2>4 DEF InOrder
<1> QED
  BY <1>6, <1>7, <1>8, <1>9

\* Holes in order and apart share no unit.
LEMMA HolesApart ==
    ASSUME NEW hs \in Seq(Blocks), InOrder(hs, {}), NEW k \in DOMAIN hs, NEW l \in DOMAIN hs, k # l, NEW u
    PROVE  ~ (u \in Units(hs[k]) /\ u \in Units(hs[l]))
<1>1. k \in Int /\ l \in Int /\ hs[k] \in Blocks /\ hs[l] \in Blocks
  OBVIOUS
<1>2. /\ hs[k].addr \in Nat /\ Beyond(hs[k]) \in Nat /\ hs[l].addr \in Nat /\ Beyond(hs[l]) \in Nat
      /\ u \in Units(hs[k]) <=> u \in Int /\ hs[k].addr <= u /\ u < Beyond(hs[k])
      /\ u \in Units(hs[l]) <=> u \in Int /\ hs[l].addr <= u /\ u < Beyond(hs[l])
  BY <1>1, Shaped
<1>3. Beyond(hs[k]) < hs[l].addr \/ Beyond(hs[l]) < hs[k].addr
  BY <1>1 DEF InOrder
<1> QED
  BY <1>2, <1>3

\* What is out is finite: it lies in the region.
LEMMA OutFinite ==
    ASSUME HeapTypeOK, Tiled
    PROVE  IsFiniteSet(Out) /\ Cardinality(Out) \in Nat
<1>1. Out \subseteq Region
  <2>1. ASSUME NEW u \in Out PROVE u \in Region
    <3>1. u \in Int
      BY DEF Out, Units, HeapTypeOK, Blocks
    <3> QED BY <3>1 DEF Tiled
  <2> QED BY <2>1
<1>2. IsFiniteSet(Region)
  BY KernelHeapAssumption, FS_Interval DEF Region
<1> QED
  BY <1>1, <1>2, FS_Subset, FS_CardinalityType

\* A block has as many units as its size says.
LEMMA UnitsCounted ==
    ASSUME NEW b \in Blocks
    PROVE  IsFiniteSet(Units(b)) /\ Cardinality(Units(b)) = b.size
<1>1. b.addr \in Nat /\ b.size \in Nat \ {0} /\ Beyond(b) = b.addr + b.size
  BY Shaped
<1> DEFINE x == b.addr
           y == Beyond(b) - 1
<1>2. x \in Int /\ y \in Int /\ x <= y /\ y - x + 1 = b.size
  BY <1>1
<1>3. Units(b) = x..y
  BY DEF Units
<1> HIDE DEF x, y
<1>4. IsFiniteSet(x..y) /\ Cardinality(x..y) = IF x > y THEN 0 ELSE y - x + 1
  BY <1>2, FS_Interval
<1>5. Cardinality(x..y) = y - x + 1
  BY <1>2, <1>4
<1> QED BY <1>2, <1>3, <1>4, <1>5

\* alloc keeps the holes in order and the region tiled.
LEMMA AllocKeeps ==
    ASSUME HeapInv, NEW l \in Layouts, alloc(l)
    PROVE  HeapInv'
<1> USE DEF HeapInv, HeapTypeOK
<1>0. l.size \in Nat \ {0} /\ l.align \in Nat \ {0}
  BY KernelHeapAssumption
<1> DEFINE fit == {i \in DOMAIN holes : Beyond(Cut(holes[i], l)) <= Beyond(holes[i])}
<1>1. CASE fit = {}
  <2>1. UNCHANGED <<holes, lent, used, peak>>
    BY <1>1 DEF alloc
  <2> QED BY <2>1 DEF Tiled, Out, InHole, InOrder
<1>2. CASE fit # {}
  <2>1. PICK i : /\ i \in fit
                 /\ holes' = Relinked(holes, i, i, Remains(holes[i], Cut(holes[i], l)))
                 /\ lent' = lent \cup {Cut(holes[i], l)}
                 /\ used' = used + l.size
                 /\ peak' = IF used + l.size > peak THEN used + l.size ELSE peak
    <3>1. fit \subseteq Nat
      OBVIOUS
    <3>2. Least(fit) \in fit
      BY <1>2, <3>1, LeastIn
    <3> QED BY <1>2, <3>2 DEF alloc
  <2>2. i \in DOMAIN holes /\ i \in 1..(Len(holes) + 1) /\ i \in (i - 1)..Len(holes) /\ holes[i] \in Blocks
        /\ i \in Int
    BY <2>1
  <2>3. Beyond(Cut(holes[i], l)) <= Beyond(holes[i])
    BY <2>1
  <2>4. PICK h : h = holes[i]
    OBVIOUS
  <2>5. PICK b : b = Cut(h, l)
    OBVIOUS
  <2> HIDE DEF fit
  <2>6. b \in Blocks /\ b.size = l.size /\ h.addr <= b.addr /\ Beyond(b) <= Beyond(h) /\ h \in Blocks
    <3>1. h.addr \in Nat
      BY <2>2, <2>4, Shaped
    <3>2. align_up(h.addr, l.align) \in Nat /\ h.addr <= align_up(h.addr, l.align)
      BY <3>1, <1>0, AlignsUp
    <3> QED BY <3>2, <1>0, <2>2, <2>3, <2>4, <2>5, Shaping DEF Cut
  <2>7. PICK nodes : nodes = Remains(h, b)
    OBVIOUS
  <2>8. /\ nodes \in Seq(Blocks) /\ InOrder(nodes, {})
        /\ \A m \in DOMAIN nodes : h.addr <= nodes[m].addr /\ Beyond(nodes[m]) <= Beyond(h)
        /\ \A u : InHole(nodes, u) <=> u \in Units(h) /\ u \notin Units(b)
    BY <2>6, <2>7, Remaining
  <2>9. holes' = Relinked(holes, i, i, nodes) /\ lent' = lent \cup {b} /\ used' = used + l.size
    BY <2>1, <2>4, <2>5, <2>7
  <2>10. holes' \in Seq(Blocks)
    BY <2>2, <2>8, <2>9, Relinking
  <2>11. InOrder(holes', {})
    <3>1. Stays(holes, i, i)
      <4> SUFFICES ASSUME NEW k \in DOMAIN holes, NEW m \in DOMAIN holes, k < m PROVE Beyond(holes[k]) < holes[m].addr
        BY DEF Stays
      <4> QED BY DEF InOrder
    <3>2. ASSUME NEW k \in DOMAIN nodes
          PROVE  nodes[k].addr \in Nat /\ Beyond(nodes[k]) \in Nat
      BY <2>8, Shaped
    <3>a. ASSUME NEW k \in DOMAIN holes
          PROVE  holes[k].addr \in Nat /\ Beyond(holes[k]) \in Nat
      BY Shaped
    <3>3. FrontApart(holes, i, nodes, {})
      <4> SUFFICES ASSUME NEW k \in DOMAIN holes, NEW m \in DOMAIN nodes, k < i PROVE Beyond(holes[k]) < nodes[m].addr
        BY DEF FrontApart
      <4>1. Beyond(holes[k]) < h.addr
        BY <2>2, <2>4 DEF InOrder
      <4>2. h.addr <= nodes[m].addr /\ h.addr \in Nat
        BY <2>2, <2>4, <2>8, <3>a
      <4> QED BY <4>1, <4>2, <3>2, <3>a
    <3>4. BackApart(holes, i, i, nodes, {})
      <4> SUFFICES ASSUME NEW k \in DOMAIN holes, NEW m \in DOMAIN nodes, k > i PROVE Beyond(nodes[m]) < holes[k].addr
        BY DEF BackApart
      <4>1. Beyond(h) < holes[k].addr
        BY <2>2, <2>4 DEF InOrder
      <4>2. Beyond(nodes[m]) <= Beyond(h) /\ Beyond(h) \in Nat
        BY <2>2, <2>4, <2>8, <3>a
      <4> QED BY <4>1, <4>2, <3>2, <3>a
    <3>5. InOrder(Relinked(holes, i, i, nodes), {})
      BY <2>2, <2>8, <3>1, <3>3, <3>4, RelinkedOrder
    <3> QED BY <3>5, <2>9
  <2>12. ASSUME NEW u PROVE InHole(holes', u) <=> InHole(holes, u) /\ u \notin Units(b)
    <3>1. InHole(holes', u) <=> InHole(nodes, u) \/ \E k \in DOMAIN holes : (k < i \/ k > i) /\ u \in Units(holes[k])
      BY <2>2, <2>8, <2>9, RelinkedUnits
    <3>2. \A k \in DOMAIN holes : k # i => k < i \/ k > i
      BY <2>2
    <3>3. u \in Units(b) => u \in Units(h)
      BY <2>6, Shaped
    <3>4. \A k \in DOMAIN holes : k # i => ~ (u \in Units(holes[k]) /\ u \in Units(h))
      BY <2>2, <2>4, HolesApart
    <3>5. InHole(holes, u) <=> u \in Units(h) \/ \E k \in DOMAIN holes : k # i /\ u \in Units(holes[k])
      BY <2>2, <2>4 DEF InHole
    <3>6. (\E k \in DOMAIN holes : (k < i \/ k > i) /\ u \in Units(holes[k]))
            <=> \E k \in DOMAIN holes : k # i /\ u \in Units(holes[k])
      BY <3>2, <2>2
    <3> QED BY <3>1, <3>3, <3>4, <3>5, <3>6, <2>8
  <2>13. Out' = Out \cup Units(b)
    BY <2>9 DEF Out
  <2>14. \A u \in Units(b) : InHole(holes, u)
    <3> TAKE u \in Units(b)
    <3>1. u \in Units(h)
      BY <2>6, Shaped
    <3> QED BY <3>1, <2>2, <2>4 DEF InHole
  <2>15. Tiled'
    <3>1. \A u \in Int : u \in Region <=> InHole(holes', u) \/ u \in Out'
      BY <2>12, <2>13, <2>14 DEF Tiled
    <3>2. \A u \in Out' : ~ InHole(holes', u)
      BY <2>12, <2>13, <2>14 DEF Tiled
    <3>3. \A u \in Units(b) : u \notin Out
      BY <2>14 DEF Tiled
    <3>4. \A c \in lent : Units(c) \subseteq Out
      BY DEF Out
    <3>5. \A c, d \in lent' : c # d => Units(c) \cap Units(d) = {}
      BY <2>9, <3>3, <3>4 DEF Tiled
    <3> QED BY <3>1, <3>2, <3>5 DEF Tiled
  <2>16. lent' \subseteq Blocks /\ used' \in Nat /\ peak' \in Nat /\ used' <= peak'
    BY <2>1, <2>6, <2>9, <1>0
  <2>17. used' = Cardinality(Out')
    <3>1. IsFiniteSet(Out) /\ Cardinality(Out) \in Nat /\ IsFiniteSet(Units(b)) /\ Cardinality(Units(b)) = l.size
      BY <2>6, OutFinite, UnitsCounted
    <3>2. Out \cap Units(b) = {}
      BY <2>14 DEF Tiled
    <3>3. Cardinality(Out \cup Units(b)) = Cardinality(Out) + Cardinality(Units(b)) - Cardinality(Out \cap Units(b))
      BY <3>1, FS_Union
    <3>4. Cardinality(Out \cap Units(b)) = 0
      BY <3>2, FS_EmptySet
    <3> QED BY <3>1, <3>3, <3>4, <2>9, <2>13, <1>0
  <2> QED
    BY <2>10, <2>11, <2>15, <2>16, <2>17
<1> QED
  BY <1>1, <1>2

\* dealloc keeps them too: the block goes back between its neighbours, and what
\* touches is merged on both sides.
LEMMA DeallocKeeps ==
    ASSUME HeapInv, NEW b \in lent, dealloc(b)
    PROVE  HeapInv'
<1> USE DEF HeapInv, HeapTypeOK
<1> DEFINE after == {k \in 1..(Len(holes) + 1) : k <= Len(holes) => holes[k].addr > b.addr}
<1>0. b \in Blocks /\ Len(holes) \in Nat /\ DOMAIN holes = 1..Len(holes)
  OBVIOUS
<1>1. PICK i : /\ i \in after /\ \A k \in after : i <= k
               /\ holes' = merge(Relinked(holes, i, i - 1, <<b>>), i)
               /\ lent' = lent \ {b} /\ peak' = peak
               /\ used' = IF used < b.size THEN 0 ELSE used - b.size
  <2>1. after \subseteq Nat /\ Len(holes) + 1 \in after
    BY <1>0
  <2>2. Least(after) \in after /\ \A k \in after : Least(after) <= k
    BY <2>1, LeastIn
  <2> QED BY <2>2 DEF dealloc
<1>2. i \in 1..(Len(holes) + 1) /\ i \in Int /\ i - 1 \in (i - 1)..Len(holes)
  BY <1>0, <1>1
<1>3. ASSUME NEW k \in DOMAIN holes, k < i PROVE holes[k].addr <= b.addr
  <2>1. k \notin after /\ k \in 1..(Len(holes) + 1)
    BY <1>0, <1>1, <1>2, <1>3
  <2>2. k <= Len(holes) /\ ~ (holes[k].addr > b.addr)
    BY <2>1
  <2>3. holes[k].addr \in Nat /\ b.addr \in Nat
    BY <1>0, Shaped
  <2> QED BY <2>2, <2>3
<1>4. ASSUME NEW k \in DOMAIN holes, k >= i PROVE b.addr < holes[k].addr
  <2>1. i \in DOMAIN holes /\ b.addr < holes[i].addr
    BY <1>0, <1>1, <1>2, <1>4
  <2>2. k = i \/ Beyond(holes[i]) < holes[k].addr
    BY <2>1, <1>4, <1>2 DEF InOrder
  <2>3. holes[k].addr \in Nat /\ holes[i].addr \in Nat /\ holes[i].addr < Beyond(holes[i]) /\ Beyond(holes[i]) \in Nat
        /\ b.addr \in Nat
    BY <2>1, <1>0, Shaped
  <2> QED BY <2>1, <2>2, <2>3
<1> HIDE DEF after
<1>5. ASSUME NEW k \in DOMAIN holes
      PROVE  /\ holes[k].addr \in Nat /\ Beyond(holes[k]) \in Nat /\ holes[k].addr < Beyond(holes[k])
             /\ b.addr \in Nat /\ Beyond(b) \in Nat /\ b.addr < Beyond(b)
             /\ Beyond(holes[k]) <= b.addr \/ Beyond(b) <= holes[k].addr
  <2>1. /\ holes[k].addr \in Nat /\ Beyond(holes[k]) \in Nat /\ holes[k].addr < Beyond(holes[k])
        /\ b.addr \in Nat /\ Beyond(b) \in Nat /\ b.addr < Beyond(b)
        /\ \A u : u \in Units(holes[k]) <=> u \in Int /\ holes[k].addr <= u /\ u < Beyond(holes[k])
        /\ \A u : u \in Units(b) <=> u \in Int /\ b.addr <= u /\ u < Beyond(b)
    BY <1>0, Shaped
  <2>2. \A u : ~ (u \in Units(holes[k]) /\ u \in Units(b))
    BY DEF Tiled, InHole, Out
  <2>3. \A u : ~ (u \in Int /\ holes[k].addr <= u /\ u < Beyond(holes[k]) /\ b.addr <= u /\ u < Beyond(b))
    BY <2>1, <2>2
  <2>4. \A x, y, z, w \in Nat : x < y /\ z < w /\ (\A u : ~ (u \in Int /\ x <= u /\ u < y /\ z <= u /\ u < w))
            => y <= z \/ w <= x
    <3> TAKE x, y, z, w \in Nat
    <3> SUFFICES ASSUME x < y, z < w, \A u : ~ (u \in Int /\ x <= u /\ u < y /\ z <= u /\ u < w), z < y, x < w
                 PROVE  FALSE
      OBVIOUS
    <3>1. CASE x <= z
      <4>1. z \in Int /\ x <= z /\ z < y /\ z <= z /\ z < w
        BY <3>1
      <4> QED BY <4>1, Zenon
    <3>2. CASE z <= x
      <4>1. x \in Int /\ x <= x /\ x < y /\ z <= x /\ x < w
        BY <3>2
      <4> QED BY <4>1, Zenon
    <3> QED BY <3>1, <3>2
  <2>5. Beyond(holes[k]) <= b.addr \/ Beyond(b) <= holes[k].addr
    BY <2>1, <2>3, <2>4
  <2> QED BY <2>1, <2>5
<1>6. PICK nodes : nodes = <<b>>
  OBVIOUS
<1>7. nodes \in Seq(Blocks) /\ DOMAIN nodes = {1} /\ Len(nodes) = 1 /\ nodes[1] = b
  BY <1>0, <1>6
<1>8. PICK hs : hs = Relinked(holes, i, i - 1, nodes)
  OBVIOUS
<1>9. hs \in Seq(Blocks) /\ holes' = merge(hs, i)
  BY <1>1, <1>2, <1>6, <1>7, <1>8, Relinking
<1>10. InOrder(hs, {i - 1, i})
  <2>1. Stays(holes, i, i - 1)
    BY DEF Stays, InOrder
  <2>2. InOrder(nodes, {})
    BY <1>7 DEF InOrder
  <2>3. FrontApart(holes, i, nodes, {i - 1, i})
    <3> SUFFICES ASSUME NEW k \in DOMAIN holes, k < i
                 PROVE  Beyond(holes[k]) < b.addr \/ (k = i - 1 /\ Beyond(holes[k]) = b.addr)
      BY <1>7 DEF FrontApart
    <3>1. Beyond(holes[k]) <= b.addr
      BY <1>3, <1>5
    <3>2. CASE k = i - 1
      BY <3>1, <3>2, <1>5
    <3>3. CASE k # i - 1
      <4>1. i - 1 \in DOMAIN holes /\ k < i - 1 /\ i - 1 < i
        BY <3>3, <1>0, <1>2
      <4>2. Beyond(holes[k]) < holes[i - 1].addr
        BY <4>1 DEF InOrder
      <4>3. holes[i - 1].addr <= b.addr
        BY <4>1, <1>3
      <4> QED BY <4>1, <4>2, <4>3, <1>5
    <3> QED BY <3>2, <3>3
  <2>4. BackApart(holes, i, i - 1, nodes, {i - 1, i})
    <3> SUFFICES ASSUME NEW k \in DOMAIN holes, k > i - 1
                 PROVE  Beyond(b) < holes[k].addr \/ (k = i /\ Beyond(b) = holes[k].addr)
      BY <1>2, <1>7 DEF BackApart
    <3>0. k >= i
      BY <1>0, <1>2
    <3>1. Beyond(b) <= holes[k].addr
      BY <3>0, <1>4, <1>5
    <3>2. CASE k = i
      BY <3>1, <3>2, <1>5
    <3>3. CASE k # i
      <4>1. i \in DOMAIN holes /\ i < k /\ i >= i
        BY <3>0, <3>3, <1>0, <1>2
      <4>2. Beyond(holes[i]) < holes[k].addr
        BY <4>1 DEF InOrder
      <4>3. Beyond(b) <= holes[i].addr
        <5>1. b.addr < holes[i].addr
          BY <4>1, <1>4
        <5>2. /\ holes[i].addr \in Nat /\ Beyond(holes[i]) \in Nat /\ holes[i].addr < Beyond(holes[i])
              /\ b.addr \in Nat /\ Beyond(b) \in Nat
              /\ Beyond(holes[i]) <= b.addr \/ Beyond(b) <= holes[i].addr
          BY <4>1, <1>5, Zenon
        <5> HIDE DEF HeapInv, HeapTypeOK
        <5> QED BY <5>1, <5>2
      <4>4. holes[k].addr \in Nat /\ holes[i].addr \in Nat /\ Beyond(holes[i]) \in Nat /\ Beyond(b) \in Nat
            /\ holes[i].addr < Beyond(holes[i])
        BY <4>1, <1>5, Zenon
      <4> HIDE DEF HeapInv, HeapTypeOK
      <4> QED BY <4>2, <4>3, <4>4
    <3> QED BY <3>2, <3>3
  <2>5. InOrder(Relinked(holes, i, i - 1, nodes), {i - 1, i})
    BY <1>2, <1>7, <2>1, <2>2, <2>3, <2>4, RelinkedOrder
  <2> QED BY <2>5, <1>8
<1>11. ASSUME NEW u PROVE InHole(hs, u) <=> InHole(holes, u) \/ u \in Units(b)
  <2>1. InHole(hs, u) <=> InHole(nodes, u) \/ \E k \in DOMAIN holes : (k < i \/ k > i - 1) /\ u \in Units(holes[k])
    BY <1>2, <1>7, <1>8, RelinkedUnits
  <2>2. \A k \in DOMAIN holes : k < i \/ k > i - 1
    BY <1>0, <1>2
  <2> QED BY <2>1, <2>2, <1>7 DEF InHole
<1>12. PICK gs : gs = coalesce(hs, i)
  OBVIOUS
<1>13. gs \in Seq(Blocks) /\ InOrder(gs, {i - 1}) /\ \A u : InHole(gs, u) <=> InHole(hs, u)
  <2>1. {i - 1, i} \ {i} = {i - 1}
    BY <1>2
  <2>2. {i - 1, i} \subseteq {i - 1, i} /\ i \in Int
    BY <1>2
  <2>3. /\ coalesce(hs, i) \in Seq(Blocks) /\ InOrder(coalesce(hs, i), {i - 1, i} \ {i})
        /\ \A u : InHole(coalesce(hs, i), u) <=> InHole(hs, u)
    BY <1>9, <1>10, <2>2, Coalesced, Zenon
  <2> QED BY <1>12, <2>1, <2>3, Zenon
<1>14. holes' = coalesce(gs, i - 1)
  BY <1>9, <1>12 DEF merge
<1>15. holes' \in Seq(Blocks) /\ InOrder(holes', {}) /\ \A u : InHole(holes', u) <=> InHole(gs, u)
  <2>1. i - 1 \in Int /\ {i - 1} \subseteq {(i - 1) - 1, i - 1} /\ {i - 1} \ {i - 1} = {}
    BY <1>2
  <2>2. /\ coalesce(gs, i - 1) \in Seq(Blocks) /\ InOrder(coalesce(gs, i - 1), {i - 1} \ {i - 1})
        /\ \A u : InHole(coalesce(gs, i - 1), u) <=> InHole(gs, u)
    BY <1>13, <2>1, Coalesced, Zenon
  <2> QED BY <1>14, <2>1, <2>2, Zenon
<1>16. \A u : InHole(holes', u) <=> InHole(holes, u) \/ u \in Units(b)
  BY <1>11, <1>13, <1>15
<1>17. Out' = Out \ Units(b) /\ Units(b) \subseteq Out
  <2>1. \A c \in lent : c # b => Units(c) \cap Units(b) = {}
    BY DEF Tiled
  <2> QED BY <2>1, <1>1 DEF Out
<1>18. Tiled'
  <2>1. \A u \in Int : u \in Region <=> InHole(holes', u) \/ u \in Out'
    BY <1>16, <1>17 DEF Tiled
  <2>2. \A u \in Out' : ~ InHole(holes', u)
    BY <1>16, <1>17 DEF Tiled
  <2>3. \A c, d \in lent' : c # d => Units(c) \cap Units(d) = {}
    BY <1>1 DEF Tiled
  <2> QED BY <2>1, <2>2, <2>3 DEF Tiled
<1>19. used' = Cardinality(Out') /\ used' \in Nat /\ used' <= peak'
  <2>1. IsFiniteSet(Out) /\ Cardinality(Out) \in Nat /\ IsFiniteSet(Units(b)) /\ Cardinality(Units(b)) = b.size
    BY <1>0, OutFinite, UnitsCounted
  <2>2. Cardinality(Out \ Units(b)) = Cardinality(Out) - Cardinality(Out \cap Units(b))
    BY <2>1, FS_Difference
  <2>3. Out \cap Units(b) = Units(b)
    BY <1>17
  <2>4. Cardinality(Out \ Units(b)) \in Nat
    BY <2>1, FS_Difference, FS_CardinalityType
  <2>5. b.size \in Nat \ {0}
    BY <1>0, Shaped
  <2>6. Cardinality(Out') = used - b.size /\ Cardinality(Out') \in Nat
    BY <2>1, <2>2, <2>3, <2>4, <1>17
  <2>7. ~ (used < b.size)
    BY <2>5, <2>6
  <2>8. used' = used - b.size /\ used' \in Nat
    BY <2>6, <2>7, <1>1
  <2>9. used' <= peak'
    BY <2>5, <2>8, <1>1
  <2> QED BY <2>6, <2>8, <2>9
<1> QED
  BY <1>1, <1>15, <1>18, <1>19

\* init: one hole that is the region.
LEMMA HeapStarts == KHeapInit => HeapInv
<1> SUFFICES ASSUME KHeapInit PROVE HeapInv
  OBVIOUS
<1> DEFINE whole == [addr |-> HeapStart, size |-> HeapSize]
<1>1. whole \in Blocks /\ whole.addr = HeapStart /\ Beyond(whole) = HeapStart + HeapSize
  BY KernelHeapAssumption DEF Blocks, Beyond
<1>2. \A u : u \in Units(whole) <=> u \in Region
  <2> HIDE DEF whole
  <2>1. Units(whole) = whole.addr..(Beyond(whole) - 1)
    BY DEF Units
  <2>2. Units(whole) = HeapStart..(HeapStart + HeapSize - 1)
    BY <1>1, <2>1, KernelHeapAssumption
  <2> QED BY <2>2 DEF Region
<1>3. holes = <<whole>> /\ lent = {} /\ used = 0 /\ peak = 0
  BY DEF KHeapInit
<1> HIDE DEF whole
<1>4. holes \in Seq(Blocks) /\ DOMAIN holes = {1} /\ holes[1] = whole
  BY <1>1, <1>3
<1>5. \A u : InHole(holes, u) <=> u \in Region
  BY <1>2, <1>4 DEF InHole
<1>6. Out = {}
  BY <1>3 DEF Out
<1>7. InOrder(holes, {})
  BY <1>4 DEF InOrder
<1>8. Tiled
  BY <1>3, <1>5, <1>6 DEF Tiled
<1>9. used = Cardinality(Out) /\ used <= peak
  BY <1>3, <1>6, FS_EmptySet
<1> QED
  BY <1>3, <1>4, <1>7, <1>8, <1>9 DEF HeapInv, HeapTypeOK

\* The invariant of the kernel's heap: the free list is in address order, no
\* two holes touch (alloc, dealloc and coalesce), and every unit of the region is
\* in one hole or one block handed out.
THEOREM HeapTiled == KHeapSpec => []HeapInv
<1>1. HeapInv /\ [KHeapNext]_kheapVars => HeapInv'
  <2> SUFFICES ASSUME HeapInv, [KHeapNext]_kheapVars PROVE HeapInv'
    OBVIOUS
  <2>1. CASE UNCHANGED kheapVars
    BY <2>1 DEF HeapInv, HeapTypeOK, kheapVars, Tiled, Out, InHole, InOrder
  <2> QED
    BY <2>1, AllocKeeps, DeallocKeeps DEF KHeapNext
<1> QED
  BY HeapStarts, <1>1, PTL DEF KHeapSpec

\* The region tiled and the holes in order is what HeapExact says.
LEMMA HeapIsExact == HeapInv => HeapExact
<1> SUFFICES ASSUME HeapInv PROVE HeapExact
  OBVIOUS
<1> USE DEF HeapInv, HeapTypeOK
<1> DEFINE all == lent \cup {holes[i] : i \in DOMAIN holes}
<1>1. ASSUME NEW u \in Region
      PROVE  \E b \in all : u \in Units(b) /\ \A c \in all \ {b} : u \notin Units(c)
  <2>1. CASE u \in Out
    <3>1. PICK b \in lent : u \in Units(b)
      BY <2>1 DEF Out
    <3>2. \A c \in lent : c # b => u \notin Units(c)
      BY <3>1 DEF Tiled
    <3>3. \A i \in DOMAIN holes : u \notin Units(holes[i])
      BY <2>1 DEF Tiled, InHole
    <3> QED BY <3>1, <3>2, <3>3
  <2>2. CASE u \notin Out
    <3>1. InHole(holes, u)
      <4>1. u \in Int
        BY DEF Region
      <4> QED BY <4>1, <2>2 DEF Tiled
    <3>2. PICK i \in DOMAIN holes : u \in Units(holes[i])
      BY <3>1 DEF InHole
    <3>3. \A c \in lent : u \notin Units(c)
      BY <2>2 DEF Out
    <3>4. \A k \in DOMAIN holes : k # i => u \notin Units(holes[k])
      BY <3>2, HolesApart
    <3> QED BY <3>2, <3>3, <3>4
  <2> QED BY <2>1, <2>2
<1>2. \A i \in 1..(Len(holes) - 1) : Beyond(holes[i]) < holes[i + 1].addr
  <2> TAKE i \in 1..(Len(holes) - 1)
  <2>1. i \in DOMAIN holes /\ i + 1 \in DOMAIN holes /\ i < i + 1
    OBVIOUS
  <2> QED BY <2>1 DEF InOrder
<1> QED
  BY <1>1, <1>2 DEF HeapExact

\* For a region anywhere and of any size, and any layouts: every unit is in exactly one block
\* or hole, no two holes touch, and the statistics count what is out
\* (FreeListAllocator::alloc and dealloc).
THEOREM HeapIsAlwaysExact == KHeapSpec => []HeapExact
<1> QED
  BY HeapTiled, HeapIsExact, PTL
=============================================================================
