---------------------------- MODULE ObjectsProofs ----------------------------
(***************************************************************************)
(* Proofs about module Objects, for every number of tasks, spaces, lines   *)
(* and frames and without its bounds: whatever is created, delegated and   *)
(* revoked in whatever order.                                              *)
(***************************************************************************)
EXTENDS Objects, WellFoundedInduction, TLAPS

Things == [kind : Kinds, id : Nat]
Refs == [index : Nat, gen : Nat, born : Nat]
Contents == Things \cup {Null}
Slot == [gen : Nat, object : Contents, born : Nat]
Held == [kind : Kinds, ref : Refs]
Calls == {Idle} \cup [at : {"create"}, obj : Things]
                \cup [at : {"install"}, obj : Things, ref : Refs]
                \cup [at : {"bind"}, id : Nat]

Types ==
    /\ slots \in Seq(Slot) /\ caps \in [Spaces -> Seq(Held)]
    /\ runs \in Seq(Nat) /\ call \in [Tasks -> Calls] /\ born \in Nat

\* A reference names a slot that exists, at a generation the slot has reached;
\* at the slot's own generation, it names what the slot holds.
Genuine(k, r) ==
    /\ r.index \in DOMAIN slots /\ r.gen <= slots[r.index].gen /\ r.born <= born
    /\ r.gen = slots[r.index].gen => /\ slots[r.index].object # Null
                                     /\ slots[r.index].object.kind = k
                                     /\ slots[r.index].born = r.born
Minted == \A s \in Spaces : \A h \in DOMAIN caps[s] : Genuine(caps[s][h].kind, caps[s][h].ref)

\* Between obj::create and cap::install the object is in its slot, and nobody
\* else has a reference to it.
Creating == {t \in Tasks : call[t].at = "create"}
Installing == {t \in Tasks : call[t].at = "install"}
Unshared ==
    \A t \in Installing :
        /\ call[t].ref.index \in DOMAIN slots /\ call[t].ref.born <= born
        /\ slots[call[t].ref.index].gen = call[t].ref.gen
        /\ slots[call[t].ref.index].object = call[t].obj
        /\ slots[call[t].ref.index].born = call[t].ref.born
        /\ \A s \in Spaces : \A h \in DOMAIN caps[s] : caps[s][h].ref.born # call[t].ref.born
        /\ \A u \in Installing : u # t => call[u].ref.born # call[t].ref.born

\* A run belongs to one live object, or to one that is about to be created.
MakingShared == {t \in Creating : call[t].obj.kind = "shared"}
RunsOwned ==
    /\ \A i \in Live("shared") : slots[i].object.id \in DOMAIN runs /\ runs[slots[i].object.id] > 0
    /\ \A i, j \in Live("shared") : i # j => slots[i].object.id # slots[j].object.id
    /\ \A t \in MakingShared :
        /\ call[t].obj.id \in DOMAIN runs /\ runs[call[t].obj.id] > 0
        /\ \A i \in Live("shared") : slots[i].object.id # call[t].obj.id
        /\ \A u \in MakingShared : u # t => call[u].obj.id # call[t].obj.id

ObjInv == Types /\ Minted /\ Unshared /\ RunsOwned
-----------------------------------------------------------------------------
(* Tables *)

\* Every non-empty set of naturals has a least element.
LEMMA LeastGap ==
    ASSUME NEW T, T \subseteq Nat, T # {}
    PROVE  \E x \in T : \A y \in T : x <= y
<1> DEFINE R == OpToRel(<, Nat)
<1>1. \A x, y \in Nat : <<y, x>> \in R <=> y < x
  BY DEF OpToRel
<1>2. IsWellFoundedOn(R, Nat)
  BY NatLessThanWellFounded
<1> HIDE DEF R
<1>3. PICK x \in T : \A y \in T : ~ (<<y, x>> \in R)
  BY <1>2, WFMin
<1>4. ASSUME NEW y \in T PROVE x <= y
  <2>1. x \in Nat /\ y \in Nat
    OBVIOUS
  <2>2. ~ (y < x)
    BY <1>1, <1>3, <2>1, Zenon
  <2> QED BY <2>1, <2>2
<1> QED BY <1>4

\* A new entry goes into a gap of its table or one past its end.
LEMMA GapFound ==
    ASSUME NEW s, Len(s) \in Nat, NEW gaps, gaps \subseteq 1..Len(s)
    PROVE  FirstGap(s, gaps) \in gaps \cup {Len(s) + 1}
<1>1. \E i \in gaps \cup {Len(s) + 1} : \A j \in gaps : i <= j
  <2>1. CASE gaps = {}
    BY <2>1
  <2>2. CASE gaps # {}
    <3>1. gaps \subseteq Nat
      OBVIOUS
    <3> QED BY <3>1, <2>2, LeastGap
  <2> QED BY <2>1, <2>2
<1> QED BY <1>1 DEF FirstGap

\* What Put makes of each table.
LEMMA PutSlot ==
    ASSUME NEW s \in Seq(Slot), NEW i \in 1..(Len(s) + 1), NEW x \in Slot
    PROVE  /\ Put(s, i, x) \in Seq(Slot)
           /\ DOMAIN Put(s, i, x) = DOMAIN s \cup {i}
           /\ Put(s, i, x)[i] = x
           /\ \A j \in DOMAIN s : j # i => Put(s, i, x)[j] = s[j]
<1>1. CASE i > Len(s)
  BY <1>1 DEF Put
<1>2. CASE i <= Len(s)
  BY <1>2 DEF Put
<1> QED BY <1>1, <1>2

LEMMA PutHeld ==
    ASSUME NEW s \in Seq(Held), NEW i \in 1..(Len(s) + 1), NEW x \in Held
    PROVE  /\ Put(s, i, x) \in Seq(Held)
           /\ DOMAIN Put(s, i, x) = DOMAIN s \cup {i}
           /\ Put(s, i, x)[i] = x
           /\ \A j \in DOMAIN s : j # i => Put(s, i, x)[j] = s[j]
<1>1. CASE i > Len(s)
  BY <1>1 DEF Put
<1>2. CASE i <= Len(s)
  BY <1>2 DEF Put
<1> QED BY <1>1, <1>2

LEMMA PutRun ==
    ASSUME NEW s \in Seq(Nat), NEW i \in 1..(Len(s) + 1), NEW x \in Nat
    PROVE  /\ Put(s, i, x) \in Seq(Nat)
           /\ DOMAIN Put(s, i, x) = DOMAIN s \cup {i}
           /\ Put(s, i, x)[i] = x
           /\ \A j \in DOMAIN s : j # i => Put(s, i, x)[j] = s[j]
<1>1. CASE i > Len(s)
  BY <1>1 DEF Put
<1>2. CASE i <= Len(s)
  BY <1>2 DEF Put
<1> QED BY <1>1, <1>2

\* The slots of the object table, one by one.
LEMMA SlotShape ==
    /\ \A x \in Slot : x.gen \in Nat /\ x.object \in Contents /\ x.born \in Nat
    /\ \A g, b \in Nat : \A o \in Contents : [gen |-> g, object |-> o, born |-> b] \in Slot
BY DEF Slot

LEMMA SlotsAreSlots ==
    ASSUME Types
    PROVE  /\ Len(slots) \in Nat /\ DOMAIN slots = 1..Len(slots)
           /\ \A i \in DOMAIN slots : slots[i] \in Slot
<1>1. slots \in Seq(Slot)
  BY DEF Types
<1> QED BY <1>1

\* Nothing is not a thing and not a capability.
LEMMA NullIsNothing == Null \notin Things /\ Null \notin Held
<1>1. \A x \in Things \cup Held : x.kind \in Kinds
  BY DEF Things, Held
<1>2. Null.kind \notin Kinds
  BY DEF Null, Kinds
<1> QED BY <1>1, <1>2

\* Where a new object and a new run go.
LEMMA FreeSlotFound ==
    ASSUME Types
    PROVE  /\ FreeSlot \in 1..(Len(slots) + 1)
           /\ FreeSlot \in DOMAIN slots => slots[FreeSlot].object = Null
           /\ generation(FreeSlot) \in Nat
<1> DEFINE gaps == {i \in DOMAIN slots : slots[i].object = Null}
<1>1. slots \in Seq(Slot) /\ Len(slots) \in Nat /\ DOMAIN slots = 1..Len(slots)
  BY DEF Types
<1>2. FreeSlot \in gaps \cup {Len(slots) + 1}
  <2>1. gaps \subseteq 1..Len(slots) /\ FreeSlot = FirstGap(slots, gaps)
    BY <1>1 DEF FreeSlot
  <2> HIDE DEF gaps
  <2> QED BY <1>1, <2>1, GapFound
<1>3. \A i \in DOMAIN slots : slots[i].gen \in Nat
  BY SlotsAreSlots, SlotShape
<1>4. FreeSlot \in 1..(Len(slots) + 1) /\ (FreeSlot \in DOMAIN slots => slots[FreeSlot].object = Null)
  BY <1>1, <1>2
<1>5. generation(FreeSlot) \in Nat
  BY <1>1, <1>3, <1>4 DEF generation
<1> QED BY <1>4, <1>5

LEMMA FreeRunFound ==
    ASSUME Types
    PROVE  /\ FreeRun \in 1..(Len(runs) + 1)
           /\ FreeRun \in DOMAIN runs => runs[FreeRun] = 0
<1> DEFINE gaps == {i \in DOMAIN runs : runs[i] = 0}
<1>1. runs \in Seq(Nat) /\ Len(runs) \in Nat /\ DOMAIN runs = 1..Len(runs)
  BY DEF Types
<1>2. FreeRun \in gaps \cup {Len(runs) + 1}
  BY <1>1, GapFound DEF FreeRun
<1> QED BY <1>1, <1>2

\* A capability table has no gaps, so a new handle is one past its end.
LEMMA FreeHandleFound ==
    ASSUME Types, NEW s \in Spaces
    PROVE  /\ caps[s] \in Seq(Held)
           /\ FirstGap(caps[s], EmptyOf(caps[s])) = Len(caps[s]) + 1
<1>1. caps[s] \in Seq(Held) /\ Len(caps[s]) \in Nat /\ DOMAIN caps[s] = 1..Len(caps[s])
  BY DEF Types
<1>2. \A h \in DOMAIN caps[s] : caps[s][h] \in Held
  BY <1>1
<1>3. EmptyOf(caps[s]) = {}
  BY <1>2, NullIsNothing DEF EmptyOf
<1> QED BY <1>1, <1>3, GapFound

LEMMA EmptiedSlot ==
    ASSUME NEW y \in Slot
    PROVE  LET x == [y EXCEPT !.object = Null, !.gen = @ + 1]
           IN x \in Slot /\ x.object = Null /\ x.gen = y.gen + 1
<1>1. Null \in Contents
  BY DEF Contents
<1>2. y.gen + 1 \in Nat
  BY SlotShape
<1> QED BY <1>1, <1>2 DEF Slot

\* What a revocation leaves.
LEMMA RevokedSlots ==
    ASSUME Types, NEW i \in DOMAIN slots
    PROVE  /\ revoked(i) \in Seq(Slot) /\ DOMAIN revoked(i) = DOMAIN slots
           /\ \A j \in DOMAIN slots : j # i => revoked(i)[j] = slots[j]
           /\ revoked(i)[i].object = Null /\ revoked(i)[i].gen = slots[i].gen + 1
<1>1. slots \in Seq(Slot) /\ slots[i] \in Slot /\ DOMAIN slots = 1..Len(slots) /\ Len(slots) \in Nat
  BY SlotsAreSlots DEF Types
<1> DEFINE x == [slots[i] EXCEPT !.object = Null, !.gen = @ + 1]
<1>2. x \in Slot /\ x.object = Null /\ x.gen = slots[i].gen + 1
  BY <1>1, EmptiedSlot
<1>3. revoked(i) = [slots EXCEPT ![i] = x]
  BY <1>1, Zenon DEF revoked
<1> HIDE DEF x
<1> QED BY <1>1, <1>2, <1>3
-----------------------------------------------------------------------------
(* What each part of the invariant survives *)

\* A slot changes by holding something where it held nothing, or by moving its
\* generation on: either way a reference stays genuine.
Ages ==
    /\ born' >= born
    /\ \A i \in DOMAIN slots :
        /\ i \in DOMAIN slots'
        /\ \/ slots'[i] = slots[i]
           \/ slots'[i].gen > slots[i].gen
           \/ slots[i].object = Null /\ slots'[i].gen = slots[i].gen

LEMMA GenuineStays ==
    ASSUME Types, Types', Ages, NEW k, NEW r \in Refs, Genuine(k, r)
    PROVE  Genuine(k, r)'
<1>1. /\ r.index \in DOMAIN slots /\ r.index \in DOMAIN slots'
      /\ slots[r.index].gen \in Nat /\ slots'[r.index].gen \in Nat
      /\ r.gen \in Nat /\ r.born \in Nat /\ born \in Nat /\ born' \in Nat
  <2>1. r.index \in DOMAIN slots /\ r.index \in DOMAIN slots'
    BY DEF Genuine, Ages
  <2>2. slots[r.index] \in Slot /\ slots'[r.index] \in Slot
    BY <2>1 DEF Types
  <2> QED BY <2>1, <2>2 DEF Types, Slot, Refs
<1>2. CASE slots'[r.index] = slots[r.index]
  BY <1>1, <1>2 DEF Genuine, Ages
<1>3. CASE slots'[r.index].gen > slots[r.index].gen
  BY <1>1, <1>3 DEF Genuine, Ages
<1>4. CASE slots[r.index].object = Null /\ slots'[r.index].gen = slots[r.index].gen
  BY <1>1, <1>4 DEF Genuine, Ages
<1> QED BY <1>1, <1>2, <1>3, <1>4 DEF Ages

LEMMA HeldIsHeld ==
    ASSUME Types, NEW s \in Spaces, NEW h \in DOMAIN caps[s]
    PROVE  caps[s][h] \in Held /\ caps[s][h].ref \in Refs /\ caps[s][h].kind \in Kinds
<1>1. caps[s] \in Seq(Held)
  BY DEF Types
<1>2. caps[s][h] \in Held
  BY <1>1
<1> QED BY <1>2 DEF Held

LEMMA MintedStays ==
    ASSUME Types, Types', Ages, Minted, caps' = caps
    PROVE  Minted'
<1>1. ASSUME NEW s \in Spaces, NEW h \in DOMAIN caps[s]
      PROVE  Genuine(caps[s][h].kind, caps[s][h].ref)'
  BY <1>1, HeldIsHeld, GenuineStays DEF Minted
<1> QED BY <1>1 DEF Minted

\* The syscall a task is in.
LEMMA CallShape ==
    /\ Idle \in Calls /\ Idle.at = "idle"
    /\ \A o \in Things : LET c == [at |-> "create", obj |-> o]
                         IN c \in Calls /\ c.at = "create" /\ c.obj = o
    /\ \A o \in Things, r \in Refs : LET c == [at |-> "install", obj |-> o, ref |-> r]
                                     IN c \in Calls /\ c.at = "install" /\ c.obj = o /\ c.ref = r
    /\ \A n \in Nat : LET c == [at |-> "bind", id |-> n] IN c \in Calls /\ c.at = "bind"
BY DEF Calls, Idle

LEMMA CallsAreCalls ==
    ASSUME NEW c \in Calls
    PROVE  /\ c.at \in {"idle", "create", "install", "bind"}
           /\ c.at = "create" => c.obj \in Things
           /\ c.at = "install" => c.obj \in Things /\ c.ref \in Refs
           /\ c.at = "bind" => c.id \in Nat
BY DEF Calls, Idle

\* While the tables stand still and no object waits for its handle that did
\* not before, references stay genuine and unshared.
LEMMA QuietCall ==
    ASSUME Types, Types', Minted, Unshared,
           slots' = slots, caps' = caps, born' = born,
           \A t \in Tasks : call'[t].at = "install" => call'[t] = call[t]
    PROVE  Minted' /\ Unshared'
<1>1. Minted'
  BY DEF Minted, Genuine
<1>2. \A t \in Installing' : t \in Installing /\ call'[t] = call[t]
  BY DEF Installing
<1>3. Unshared'
  BY <1>2 DEF Unshared
<1> QED BY <1>1, <1>3

\* Runs stay owned where objects and creations only go away, each with its run.
LEMMA FewerOwners ==
    ASSUME RunsOwned,
           \A i \in Live("shared")' : /\ i \in Live("shared") /\ slots'[i].object = slots[i].object
                                      /\ slots[i].object.id \in DOMAIN runs'
                                      /\ runs'[slots[i].object.id] = runs[slots[i].object.id],
           \A t \in MakingShared' : /\ t \in MakingShared /\ call'[t].obj = call[t].obj
                                    /\ call[t].obj.id \in DOMAIN runs'
                                    /\ runs'[call[t].obj.id] = runs[call[t].obj.id]
    PROVE  RunsOwned'
BY DEF RunsOwned

\* Steps that only move a syscall on.
LEMMA MovesOn ==
    ASSUME ObjInv, NEW t \in Tasks, NEW c \in Calls, Goto(t, c),
           call[t].at \in {"idle", "bind"}, c.at # "install",
           c.at = "create" => c.obj.kind # "shared",
           UNCHANGED <<slots, caps, runs, born>>
    PROVE  ObjInv'
<1>1. call' = [call EXCEPT ![t] = c] /\ call \in [Tasks -> Calls]
  BY DEF Goto, ObjInv, Types
<1>2. Types'
  BY <1>1 DEF ObjInv, Types
<1>3. \A u \in Tasks : call'[u] = IF u = t THEN c ELSE call[u]
  BY <1>1
<1>4. Minted' /\ Unshared'
  BY <1>2, <1>3, QuietCall DEF ObjInv
<1>5. \A u \in MakingShared' : u \in MakingShared /\ call'[u] = call[u]
  BY <1>3 DEF MakingShared, Creating
<1>6. Live("shared")' = Live("shared")
  BY DEF Live
<1>7. RunsOwned'
  BY <1>5, <1>6, FewerOwners DEF ObjInv, RunsOwned
<1> QED BY <1>2, <1>4, <1>7 DEF ObjInv

\* Nothing of the invariant is about the other variables.
LEMMA Elsewhere ==
    ASSUME ObjInv, UNCHANGED <<slots, caps, runs, call, born>>
    PROVE  ObjInv'
<1>1. Types'
  BY DEF ObjInv, Types
<1>2. Minted' /\ Unshared'
  BY <1>1, QuietCall DEF ObjInv
<1>3. Live("shared")' = Live("shared") /\ MakingShared' = MakingShared
  BY DEF Live, MakingShared, Creating
<1>4. RunsOwned'
  BY <1>3, FewerOwners DEF ObjInv, RunsOwned
<1> QED BY <1>1, <1>2, <1>4 DEF ObjInv
-----------------------------------------------------------------------------
(* The syscalls *)

LEMMA CreateSharedKeeps ==
    ASSUME ObjInv, NEW t \in Tasks, NEW pages \in Nat \ {0}, NEW ok, CreateShared(t, pages, ok)
    PROVE  ObjInv'
<1> DEFINE thing == [kind |-> "shared", id |-> FreeRun]
<1>0. Types /\ runs \in Seq(Nat) /\ Len(runs) \in Nat /\ DOMAIN runs = 1..Len(runs)
  BY DEF ObjInv, Types
<1>1. CASE UNCHANGED <<runs, frames, call>>
  BY <1>1, Elsewhere DEF CreateShared
<1>2. CASE /\ runs' = Put(runs, FreeRun, pages)
           /\ Making(t, thing)
  <2>1. /\ FreeRun \in 1..(Len(runs) + 1) /\ FreeRun \in Nat
        /\ FreeRun \in DOMAIN runs => runs[FreeRun] = 0
    BY <1>0, FreeRunFound
  <2>2. /\ runs' \in Seq(Nat) /\ DOMAIN runs' = DOMAIN runs \cup {FreeRun}
        /\ runs'[FreeRun] = pages
        /\ \A j \in DOMAIN runs : j # FreeRun => runs'[j] = runs[j]
    <3>1. PICK i \in 1..(Len(runs) + 1) : i = FreeRun
      BY <2>1
    <3>2. pages \in Nat /\ runs \in Seq(Nat)
      BY <1>0
    <3>3. /\ Put(runs, i, pages) \in Seq(Nat)
          /\ DOMAIN Put(runs, i, pages) = DOMAIN runs \cup {i}
          /\ Put(runs, i, pages)[i] = pages
          /\ \A j \in DOMAIN runs : j # i => Put(runs, i, pages)[j] = runs[j]
      BY <3>1, <3>2, PutRun, Zenon
    <3> QED BY <1>2, <3>1, <3>3, Zenon
  <2>3. thing \in Things /\ thing.kind = "shared" /\ thing.id = FreeRun
    BY <2>1 DEF Things, Kinds
  <2> DEFINE c == [at |-> "create", obj |-> thing]
  <2>4. c \in Calls /\ c.at = "create" /\ c.obj = thing
    BY <2>3, CallShape
  <2>5. call' = [call EXCEPT ![t] = c] /\ call \in [Tasks -> Calls] /\ call[t] = Idle
    BY <1>0, <1>2 DEF Making, Goto, Types, CreateShared, Idling
  <2>6. slots' = slots /\ caps' = caps /\ born' = born
    BY DEF CreateShared
  <2>7. call[t].at = "idle"
    BY <2>5, CallShape
  <2> HIDE DEF thing, c
  <2>8. \A u \in Tasks : call'[u] = IF u = t THEN c ELSE call[u]
    BY <2>5
  <2>9. Types'
    BY <1>0, <2>2, <2>4, <2>5, <2>6 DEF Types
  <2>10. Minted' /\ Unshared'
    BY <2>4, <2>6, <2>8, <2>9, QuietCall DEF ObjInv
  <2>11. Live("shared")' = Live("shared") /\ FreeRun \notin {slots[i].object.id : i \in Live("shared")}
    BY <2>1, <2>6 DEF Live, ObjInv, RunsOwned
  <2>12. /\ MakingShared' = MakingShared \cup {t} /\ t \notin MakingShared
         /\ call'[t].obj.id = FreeRun
         /\ \A u \in MakingShared : call'[u] = call[u] /\ call[u].obj.id # FreeRun
    <3>1. MakingShared' = MakingShared \cup {t} /\ t \notin MakingShared
      BY <2>3, <2>4, <2>7, <2>8 DEF MakingShared, Creating
    <3>2. \A u \in MakingShared : call[u].obj.id # FreeRun
      BY <2>1 DEF ObjInv, RunsOwned
    <3> QED BY <3>1, <3>2, <2>3, <2>4, <2>8 DEF MakingShared, Creating
  <2>13. RunsOwned'
    <3>1. \A i \in Live("shared") : /\ slots'[i] = slots[i] /\ slots[i].object.id # FreeRun
                                    /\ slots[i].object.id \in DOMAIN runs'
                                    /\ runs'[slots[i].object.id] > 0
      BY <2>2, <2>6, <2>11 DEF ObjInv, RunsOwned
    <3>2. \A u \in MakingShared' : call'[u].obj.id \in DOMAIN runs' /\ runs'[call'[u].obj.id] > 0
      BY <2>2, <2>12 DEF ObjInv, RunsOwned
    <3>3. \A u \in MakingShared', i \in Live("shared") : slots[i].object.id # call'[u].obj.id
      BY <2>12, <3>1 DEF ObjInv, RunsOwned
    <3>4. \A u, v \in MakingShared' : u # v => call'[u].obj.id # call'[v].obj.id
      BY <2>12 DEF ObjInv, RunsOwned
    <3>5. \A i, j \in Live("shared") : i # j => slots[i].object.id # slots[j].object.id
      BY DEF ObjInv, RunsOwned
    <3> QED BY <2>6, <2>11, <3>1, <3>2, <3>3, <3>4, <3>5 DEF RunsOwned
  <2> QED BY <2>9, <2>10, <2>13 DEF ObjInv
<1> QED BY <1>1, <1>2 DEF CreateShared

\* The other calls that start a creation.
LEMMA StartKeeps ==
    ASSUME ObjInv, NEW t \in Tasks, Idling(t), NEW kind \in Kinds \ {"shared"}, NEW n \in Nat,
           Making(t, [kind |-> kind, id |-> n]), UNCHANGED <<slots, caps, runs, born>>
    PROVE  ObjInv'
<1> DEFINE thing == [kind |-> kind, id |-> n]
           c == [at |-> "create", obj |-> thing]
<1>1. thing \in Things /\ thing.kind = kind
  BY DEF Things
<1>2. c \in Calls /\ c.at = "create" /\ c.obj = thing
  BY <1>1, CallShape
<1>3. Goto(t, c) /\ call[t].at = "idle"
  BY CallShape DEF Making, Idling
<1> HIDE DEF thing, c
<1> QED BY <1>1, <1>2, <1>3, MovesOn

LEMMA CreateDmaKeeps ==
    ASSUME ObjInv, NEW t \in Tasks, NEW pages \in Nat \ {0}, CreateDma(t, pages)
    PROVE  ObjInv'
<1>1. UNCHANGED <<slots, caps, runs, born>> /\ Idling(t)
  BY DEF CreateDma
<1>2. call' = call \/ Making(t, [kind |-> "dma", id |-> pages])
  BY DEF CreateDma
<1>3. pages \in Nat /\ "dma" \in Kinds \ {"shared"}
  BY DEF Kinds
<1> QED BY <1>1, <1>2, <1>3, StartKeeps, Elsewhere

LEMMA GrantKeeps ==
    ASSUME ObjInv, NEW t \in Tasks, NEW h, NEW kind \in {"device", "irq"}, NEW n \in Lines,
           Grant(t, h, kind, n)
    PROVE  ObjInv'
<1>1. UNCHANGED <<slots, caps, runs, born>> /\ Idling(t) /\ Making(t, [kind |-> kind, id |-> n])
  BY DEF Grant
<1>2. n \in Nat /\ kind \in Kinds \ {"shared"}
  BY ObjectsAssumption DEF Kinds
<1> QED BY <1>1, <1>2, StartKeeps

LEMMA NotifyKeeps ==
    ASSUME ObjInv, NEW t \in Tasks, NotifyCreate(t) \/ \E h \in Handles(t) : IrqRegister(t, h)
    PROVE  ObjInv'
<1>1. UNCHANGED <<slots, caps, runs, born>> /\ Idling(t)
  BY DEF NotifyCreate, IrqRegister
<1>2. \E n \in Lines \cup {0} : Making(t, [kind |-> "notification", id |-> n])
  BY DEF NotifyCreate, IrqRegister
<1>3. PICK n \in Nat : Making(t, [kind |-> "notification", id |-> n])
  BY <1>2, ObjectsAssumption
<1>4. "notification" \in Kinds \ {"shared"}
  BY DEF Kinds
<1> QED BY <1>1, <1>3, <1>4, StartKeeps

LEMMA RegisterKeeps ==
    ASSUME ObjInv, NEW t \in Tasks, register(t)
    PROVE  ObjInv'
<1>1. UNCHANGED <<slots, caps, runs, born>> /\ call[t].at = "bind" /\ Goto(t, Idle)
  BY DEF register
<1> QED BY <1>1, CallShape, MovesOn

\* A failed creation zeroes the run it took, and no other.
LEMMA UnwoundRuns ==
    ASSUME Types, NEW obj \in Things, Unwound(obj)
    PROVE  /\ runs' \in Seq(Nat) /\ DOMAIN runs' = DOMAIN runs
           /\ \A i \in DOMAIN runs : obj.kind # "shared" \/ i # obj.id => runs'[i] = runs[i]
<1>1. runs' = IF obj.kind = "shared" THEN [runs EXCEPT ![obj.id] = 0] ELSE runs
  BY DEF Unwound
<1>2. runs \in Seq(Nat) /\ Len(runs) \in Nat /\ DOMAIN runs = 1..Len(runs)
  BY DEF Types
<1>3. CASE obj.kind = "shared"
  <2>1. PICK n \in Nat : n = obj.id
    BY DEF Things
  <2>2. runs' = [runs EXCEPT ![n] = 0]
    BY <1>1, <1>3, <2>1
  <2>3. DOMAIN runs' = 1..Len(runs) /\ \A j \in 1..Len(runs) : runs'[j] = IF j = n THEN 0 ELSE runs[j]
    BY <1>2, <2>2
  <2>4. \A j \in 1..Len(runs) : runs'[j] \in Nat
    BY <1>2, <2>3
  <2>5. runs' \in Seq(Nat)
    <3>1. runs' \in [1..Len(runs) -> Nat]
      BY <2>2, <2>3, <2>4
    <3> QED BY <1>2, <3>1
  <2>6. \A j \in DOMAIN runs : j # n => runs'[j] = runs[j]
    BY <1>2, <2>3
  <2>7. DOMAIN runs' = DOMAIN runs
    BY <1>2, <2>3
  <2> QED BY <1>3, <2>1, <2>5, <2>6, <2>7, Zenon
<1>4. CASE obj.kind # "shared"
  BY <1>1, <1>2, <1>4
<1> QED BY <1>3, <1>4

LEMMA CreateKeeps ==
    ASSUME ObjInv, NEW t \in Tasks, NEW ok, create(t, ok)
    PROVE  ObjInv'
<1> DEFINE obj == call[t].obj
           i == FreeSlot
           b == born + 1
<1>0. Types /\ Minted /\ Unshared /\ RunsOwned
  BY DEF ObjInv
<1>1. /\ call[t].at = "create" /\ call[t] \in Calls /\ obj \in Things
      /\ call \in [Tasks -> Calls] /\ caps' = caps /\ born \in Nat
  BY <1>0, CallsAreCalls DEF create, Types
<1>2. CASE Unwound(obj) /\ Goto(t, Idle) /\ UNCHANGED <<slots, born>>
  <2>1. /\ runs' \in Seq(Nat) /\ DOMAIN runs' = DOMAIN runs
        /\ \A j \in DOMAIN runs : obj.kind # "shared" \/ j # obj.id => runs'[j] = runs[j]
    BY <1>0, <1>1, <1>2, UnwoundRuns
  <2>2. \A u \in Tasks : call'[u] = IF u = t THEN Idle ELSE call[u]
    BY <1>1, <1>2 DEF Goto
  <2>3. Types'
    BY <1>0, <1>1, <1>2, <2>1, CallShape DEF Types, Goto
  <2>4. Minted' /\ Unshared'
    BY <1>0, <1>1, <1>2, <2>2, <2>3, CallShape, QuietCall
  <2>5. Live("shared")' = Live("shared") /\ slots' = slots
    BY <1>2 DEF Live
  <2>6. \A u \in MakingShared' : u \in MakingShared /\ u # t /\ call'[u] = call[u]
    BY <2>2, CallShape DEF MakingShared, Creating
  <2>7. \A j \in Live("shared") : /\ slots[j].object.id \in DOMAIN runs'
                                  /\ runs'[slots[j].object.id] = runs[slots[j].object.id]
    <3>1. obj.kind = "shared" => t \in MakingShared
      BY <1>1 DEF MakingShared, Creating
    <3> QED BY <1>0, <2>1, <3>1 DEF RunsOwned
  <2>8. \A u \in MakingShared' : /\ call[u].obj.id \in DOMAIN runs'
                                 /\ runs'[call[u].obj.id] = runs[call[u].obj.id]
    <3>1. obj.kind = "shared" => t \in MakingShared
      BY <1>1 DEF MakingShared, Creating
    <3> QED BY <1>0, <2>1, <2>6, <3>1 DEF RunsOwned
  <2>9. RunsOwned'
    BY <1>0, <2>5, <2>6, <2>7, <2>8, FewerOwners
  <2> QED BY <2>3, <2>4, <2>9 DEF ObjInv
<1>3. CASE /\ slots' = Put(slots, i, [gen |-> generation(i), object |-> obj, born |-> b])
           /\ born' = b /\ runs' = runs
           /\ Goto(t, [at |-> "install", obj |-> obj, ref |-> Ref(i, generation(i), b)])
  <2>1. PICK k \in 1..(Len(slots) + 1), g \in Nat, o \in Things, n \in Nat :
          k = i /\ g = generation(i) /\ o = obj /\ n = b
    BY <1>0, <1>1, FreeSlotFound
  <2> DEFINE x == [gen |-> g, object |-> o, born |-> n]
             r == Ref(k, g, n)
             c == [at |-> "install", obj |-> o, ref |-> r]
  <2>2. slots' = Put(slots, k, x) /\ born' = n /\ n = born + 1 /\ runs' = runs /\ Goto(t, c)
    BY <1>3, <2>1
  <2>3. x \in Slot /\ x.gen = g /\ x.object = o /\ x.born = n
    BY SlotShape DEF Contents
  <2>4. r \in Refs /\ r.index = k /\ r.gen = g /\ r.born = n
    BY SlotsAreSlots, <1>0 DEF Ref, Refs
  <2>5. c \in Calls /\ c.at = "install" /\ c.obj = o /\ c.ref = r
    BY <2>4, CallShape
  <2>6. \A j \in DOMAIN slots : slots[j] \in Slot /\ slots[j].object \in Contents
    BY <1>0, SlotsAreSlots, SlotShape
  <2>7. k \in DOMAIN slots => slots[k].object = Null /\ slots[k].gen = g
    <3>1. k \in DOMAIN slots => slots[k].object = Null
      BY <1>0, <2>1, FreeSlotFound
    <3>2. k \in DOMAIN slots => k <= Len(slots) /\ Len(slots) \in Nat
      BY <1>0, SlotsAreSlots
    <3> QED BY <2>1, <3>1, <3>2 DEF generation
  <2> HIDE DEF x, r, c, i, obj, b
  <2>8. /\ slots' \in Seq(Slot) /\ DOMAIN slots' = DOMAIN slots \cup {k}
        /\ slots'[k] = x
        /\ \A j \in DOMAIN slots : j # k => slots'[j] = slots[j]
    <3>1. slots \in Seq(Slot)
      BY <1>0 DEF Types
    <3> QED BY <2>2, <2>3, <3>1, PutSlot
  <2>9. \A u \in Tasks : call'[u] = IF u = t THEN c ELSE call[u]
    BY <1>1, <2>2 DEF Goto
  <2>10. Types'
    <3>1. call' \in [Tasks -> Calls]
      BY <1>1, <2>2, <2>5 DEF Goto
    <3> QED BY <1>0, <1>1, <2>2, <2>8, <3>1 DEF Types
  <2>11. Ages
    BY <1>1, <2>2, <2>3, <2>7, <2>8 DEF Ages
  <2>12. Minted'
    BY <1>0, <1>1, <2>10, <2>11, MintedStays
  <2>13. \A s \in Spaces : \A h \in DOMAIN caps[s] : caps[s][h].ref.born <= born /\ caps[s][h].ref.born \in Nat
    <3>1. \A s \in Spaces : \A h \in DOMAIN caps[s] : caps[s][h].ref.born <= born
      BY <1>0 DEF Minted, Genuine
    <3>2. \A s \in Spaces : \A h \in DOMAIN caps[s] : caps[s][h].ref \in Refs
      BY <1>0, HeldIsHeld
    <3> QED BY <3>1, <3>2 DEF Refs
  <2>14. /\ Installing' = Installing \cup {t} /\ t \notin Installing
         /\ \A u \in Installing : /\ call'[u] = call[u] /\ call[u].obj \in Things
                                  /\ call[u].ref.born \in Nat
    <3>1. \A u \in Installing : call[u].obj \in Things /\ call[u].ref \in Refs
      BY <1>1, CallsAreCalls DEF Installing
    <3>2. \A u \in Installing : call[u].ref.born \in Nat
      BY <3>1 DEF Refs
    <3> QED BY <1>1, <2>5, <2>9, <3>1, <3>2 DEF Installing
  <2>15. Unshared'
    <3>1. /\ call'[t].ref = r /\ call'[t].obj = o /\ r.index \in DOMAIN slots' /\ r.born <= born'
          /\ slots'[r.index] = x
      BY <2>2, <2>4, <2>5, <2>8, <2>9
    <3>2. \A u \in Installing : /\ call[u].ref.index \in DOMAIN slots'
                                /\ slots'[call[u].ref.index] = slots[call[u].ref.index]
                                /\ call[u].ref.born <= born' /\ call[u].ref.born # n
      <4>1. \A u \in Installing : call[u].ref.index # k
        BY <1>0, <2>7, <2>14, NullIsNothing DEF Unshared
      <4>2. \A u \in Installing : call[u].ref.index \in DOMAIN slots /\ call[u].ref.born <= born
        BY <1>0 DEF Unshared
      <4> QED BY <1>1, <2>2, <2>8, <2>14, <4>1, <4>2
    <3>3. \A s \in Spaces : \A h \in DOMAIN caps[s] : caps[s][h].ref.born # n
      BY <1>1, <2>2, <2>13
    <3>4. ASSUME NEW u \in Installing'
          PROVE  /\ call'[u].ref.index \in DOMAIN slots' /\ call'[u].ref.born <= born'
                 /\ slots'[call'[u].ref.index].gen = call'[u].ref.gen
                 /\ slots'[call'[u].ref.index].object = call'[u].obj
                 /\ slots'[call'[u].ref.index].born = call'[u].ref.born
                 /\ \A s \in Spaces : \A h \in DOMAIN caps'[s] : caps'[s][h].ref.born # call'[u].ref.born
                 /\ \A v \in Installing' : v # u => call'[v].ref.born # call'[u].ref.born
      <4>1. CASE u = t
        BY <1>1, <2>3, <2>4, <2>14, <3>1, <3>2, <3>3, <4>1
      <4>2. CASE u \in Installing
        <5>1. call'[u] = call[u] /\ u # t
          BY <2>14, <4>2
        <5>2. /\ call[u].ref.index \in DOMAIN slots' /\ call[u].ref.born <= born'
              /\ slots'[call[u].ref.index] = slots[call[u].ref.index]
          BY <3>2, <4>2
        <5>3. /\ slots[call[u].ref.index].gen = call[u].ref.gen
              /\ slots[call[u].ref.index].object = call[u].obj
              /\ slots[call[u].ref.index].born = call[u].ref.born
              /\ \A s \in Spaces : \A h \in DOMAIN caps[s] : caps[s][h].ref.born # call[u].ref.born
          BY <1>0, <4>2 DEF Unshared
        <5>4. \A v \in Installing : v # u => call[v].ref.born # call[u].ref.born
          BY <1>0, <4>2 DEF Unshared
        <5>5. call'[t].ref.born # call[u].ref.born
          BY <2>4, <3>1, <3>2, <4>2
        <5>6. ASSUME NEW v \in Installing', v # u
              PROVE  call'[v].ref.born # call'[u].ref.born
          <6>1. CASE v = t
            BY <5>1, <5>5, <6>1
          <6>2. CASE v \in Installing
            <7>1. call'[v] = call[v]
              BY <2>14, <6>2
            <7> QED BY <5>1, <5>4, <5>6, <6>2, <7>1
          <6> QED BY <2>14, <5>6, <6>1, <6>2
        <5>7. caps' = caps
          BY <1>1
        <5> QED BY <5>1, <5>2, <5>3, <5>6, <5>7
      <4> QED BY <2>14, <4>1, <4>2
    <3> QED BY <3>4 DEF Unshared
  <2>16. /\ Live("shared")' = Live("shared") \cup (IF o.kind = "shared" THEN {k} ELSE {})
         /\ k \notin Live("shared")
    BY <2>3, <2>7, <2>8, NullIsNothing DEF Live
  <2>17. /\ \A u \in MakingShared' : u \in MakingShared /\ u # t /\ call'[u] = call[u]
         /\ o.kind = "shared" => t \in MakingShared
         /\ o = call[t].obj
    BY <1>1, <2>1, <2>5, <2>9 DEF MakingShared, Creating, obj
  <2>18. \A j \in Live("shared") : slots'[j] = slots[j]
    BY <2>8, <2>16 DEF Live
  <2>19. o.kind = "shared" => slots'[k].object = o
    BY <2>3, <2>8
  <2>20. RunsOwned'
    BY <1>0, <2>2, <2>16, <2>17, <2>18, <2>19 DEF RunsOwned
  <2> QED BY <2>10, <2>12, <2>15, <2>20 DEF ObjInv
<1> QED BY <1>2, <1>3 DEF create

\* A capability is added to a table, and the others stay where they are.
LEMMA CapAdded ==
    ASSUME Types, NEW s \in Spaces, NEW x \in Held,
           caps' = [caps EXCEPT ![s] = Put(@, FirstGap(caps[s], EmptyOf(caps[s])), x)]
    PROVE  /\ caps' \in [Spaces -> Seq(Held)]
           /\ \A z \in Spaces : \A h \in DOMAIN caps'[z] :
                \/ h \in DOMAIN caps[z] /\ caps'[z][h] = caps[z][h]
                \/ caps'[z][h] = x
<1>1. PICK q \in Seq(Held) : q = caps[s]
  BY FreeHandleFound
<1>2. PICK i \in 1..(Len(q) + 1) : i = FirstGap(caps[s], EmptyOf(caps[s]))
  BY <1>1, FreeHandleFound
<1>3. caps \in [Spaces -> Seq(Held)]
  BY DEF Types
<1>4. Put(q, i, x) \in Seq(Held)
  BY PutHeld
<1>5. DOMAIN Put(q, i, x) = DOMAIN q \cup {i}
  BY PutHeld
<1>6. Put(q, i, x)[i] = x
  BY PutHeld
<1>7. \A j \in DOMAIN q : j # i => Put(q, i, x)[j] = q[j]
  BY PutHeld
<1>8. caps' = [caps EXCEPT ![s] = Put(q, i, x)]
  BY <1>1, <1>2
<1> DEFINE p == Put(q, i, x)
<1> HIDE DEF p
<1>9. caps' \in [Spaces -> Seq(Held)] /\ caps'[s] = p /\ \A z \in Spaces : z # s => caps'[z] = caps[z]
  BY <1>3, <1>4, <1>8 DEF p
<1>10. \A h \in DOMAIN p : (h \in DOMAIN q /\ p[h] = q[h]) \/ p[h] = x
  BY <1>5, <1>6, <1>7 DEF p
<1> QED BY <1>1, <1>9, <1>10

\* A table grows by a capability that is genuine and not in the making.
LEMMA AddedKeeps ==
    ASSUME ObjInv, NEW s \in Spaces, NEW x \in Held,
           caps' = [caps EXCEPT ![s] = Put(@, FirstGap(caps[s], EmptyOf(caps[s])), x)],
           Genuine(x.kind, x.ref), UNCHANGED <<slots, runs, born>>, call' \in [Tasks -> Calls],
           \A t \in Tasks : call'[t].at \in {"create", "install"} => call'[t] = call[t],
           \A t \in Installing' : call[t].ref.born # x.ref.born
    PROVE  ObjInv'
<1>0. Types /\ Minted /\ Unshared /\ RunsOwned
  BY DEF ObjInv
<1>1. /\ caps' \in [Spaces -> Seq(Held)]
      /\ \A z \in Spaces : \A h \in DOMAIN caps'[z] :
            \/ h \in DOMAIN caps[z] /\ caps'[z][h] = caps[z][h]
            \/ caps'[z][h] = x
  BY <1>0, CapAdded
<1>2. Types'
  BY <1>0, <1>1 DEF Types
<1>3. Minted'
  <2>1. \A k, r : Genuine(k, r) => Genuine(k, r)'
    BY DEF Genuine
  <2>2. ASSUME NEW z \in Spaces, NEW h \in DOMAIN caps'[z]
        PROVE  Genuine(caps'[z][h].kind, caps'[z][h].ref)
    BY <1>0, <1>1, <2>2 DEF Minted
  <2> QED BY <2>1, <2>2 DEF Minted
<1>4. \A t \in Installing' : t \in Installing /\ call'[t] = call[t]
  BY DEF Installing
<1>5. Unshared'
  <2>1. \A t \in Installing' : \A z \in Spaces : \A h \in DOMAIN caps'[z] :
            caps'[z][h].ref.born # call[t].ref.born
    BY <1>0, <1>1, <1>4 DEF Unshared
  <2> QED BY <1>0, <1>4, <2>1 DEF Unshared
<1>6. RunsOwned'
  <2>1. Live("shared")' = Live("shared")
    BY DEF Live
  <2>2. \A t \in MakingShared' : t \in MakingShared /\ call'[t] = call[t]
    BY DEF MakingShared, Creating
  <2> QED BY <1>0, <2>1, <2>2, FewerOwners DEF RunsOwned
<1> QED BY <1>2, <1>3, <1>5, <1>6 DEF ObjInv

LEMMA DelegateKeeps ==
    ASSUME ObjInv, NEW t \in Tasks, NEW u \in Tasks, NEW h \in Handles(t), Delegate(t, h, u)
    PROVE  ObjInv'
<1>1. SpaceOf[t] \in Spaces /\ SpaceOf[u] \in Spaces
  BY ObjectsAssumption
<1>2. PICK x : x = caps[SpaceOf[t]][h]
  OBVIOUS
<1>3. h \in DOMAIN caps[SpaceOf[t]] /\ resolve_cap(t, h) = x
  BY <1>2 DEF Handles, resolve_cap
<1>4. x \in Held
  BY <1>1, <1>2, <1>3, HeldIsHeld DEF ObjInv
<1>5. Genuine(x.kind, x.ref)
  BY <1>1, <1>2, <1>3 DEF ObjInv, Minted
<1>6. /\ caps' = [caps EXCEPT ![SpaceOf[u]] =
                     Put(@, FirstGap(caps[SpaceOf[u]], EmptyOf(caps[SpaceOf[u]])), x)]
      /\ UNCHANGED <<slots, runs, born, call>>
  BY <1>3 DEF Delegate
<1>7. \A v \in Installing' : call[v].ref.born # x.ref.born
  BY <1>1, <1>2, <1>3, <1>6 DEF ObjInv, Unshared, Installing
<1>8. call' \in [Tasks -> Calls]
  BY <1>6 DEF ObjInv, Types
<1> QED BY <1>1, <1>4, <1>5, <1>6, <1>7, <1>8, AddedKeeps

\* A slot is emptied that no object in the making is in.
LEMMA EmptiedKeeps ==
    ASSUME ObjInv, Types', NEW i \in DOMAIN slots, slots' = revoked(i), caps' = caps, born' = born,
           \A t \in Installing' : /\ t \in Installing /\ call'[t] = call[t]
                                  /\ call[t].ref.index # i
    PROVE  /\ Minted' /\ Unshared'
           /\ \A j \in Live("shared")' : j \in Live("shared") /\ j # i /\ slots'[j] = slots[j]
<1>0. Types /\ Minted /\ Unshared
  BY DEF ObjInv
<1>1. /\ DOMAIN slots' = DOMAIN slots
      /\ \A j \in DOMAIN slots : j # i => slots'[j] = slots[j]
      /\ slots'[i].object = Null /\ slots'[i].gen = slots[i].gen + 1
  BY <1>0, RevokedSlots
<1>2. slots[i].gen \in Nat /\ born \in Nat
  BY <1>0, SlotsAreSlots, SlotShape DEF Types
<1>3. Ages
  BY <1>1, <1>2 DEF Ages
<1>4. Minted'
  BY <1>0, <1>3, MintedStays
<1>5. Unshared'
  BY <1>0, <1>1 DEF Unshared
<1>6. \A j \in Live("shared")' : j \in Live("shared") /\ j # i /\ slots'[j] = slots[j]
  BY <1>1 DEF Live
<1> QED BY <1>4, <1>5, <1>6

\* An object in the making is in a slot no held reference resolves to, and no
\* other in the making is.
LEMMA InItsOwnSlot ==
    ASSUME ObjInv, NEW t \in Installing
    PROVE  /\ \A u \in Installing : u # t => call[u].ref.index # call[t].ref.index
           /\ \A s \in Spaces : \A h \in DOMAIN caps[s] :
                 get(caps[s][h].ref) # Null => caps[s][h].ref.index # call[t].ref.index
<1>1. \A u \in Installing : u # t => call[u].ref.index # call[t].ref.index
  BY DEF ObjInv, Unshared
<1>2. ASSUME NEW s \in Spaces, NEW h \in DOMAIN caps[s], get(caps[s][h].ref) # Null
      PROVE  caps[s][h].ref.index # call[t].ref.index
  <2>1. caps[s][h].ref.gen = slots[caps[s][h].ref.index].gen
    BY <1>2 DEF get
  <2>2. slots[caps[s][h].ref.index].born = caps[s][h].ref.born
    BY <2>1 DEF ObjInv, Minted, Genuine
  <2>3. caps[s][h].ref.born # call[t].ref.born /\ slots[call[t].ref.index].born = call[t].ref.born
    BY DEF ObjInv, Unshared
  <2> QED BY <2>2, <2>3
<1> QED BY <1>1, <1>2

LEMMA RevokeKeeps ==
    ASSUME ObjInv, NEW t \in Tasks, NEW h \in Handles(t), Revoke(t, h)
    PROVE  ObjInv'
<1> DEFINE r == caps[SpaceOf[t]][h].ref
<1>0. Types /\ RunsOwned
  BY DEF ObjInv
<1>1. SpaceOf[t] \in Spaces /\ h \in DOMAIN caps[SpaceOf[t]]
  BY ObjectsAssumption DEF Handles
<1>2. /\ slots' = IF get(r) # Null THEN revoked(r.index) ELSE slots
      /\ UNCHANGED <<caps, runs, call, born>>
  BY <1>1 DEF Revoke, resolve_cap
<1>3. CASE get(r) = Null
  <2>1. slots' = slots
    BY <1>2, <1>3
  <2> QED BY <1>2, <2>1, Elsewhere
<1>4. CASE get(r) # Null
  <2>1. PICK i \in DOMAIN slots : i = r.index
    BY <1>4 DEF get
  <2>2. slots' = revoked(i)
    BY <1>2, <1>4, <2>1
  <2>3. Types'
    <3>1. slots' \in Seq(Slot)
      BY <1>0, <2>2, RevokedSlots
    <3> QED BY <1>0, <1>2, <3>1 DEF Types
  <2>4. \A u \in Installing' : u \in Installing /\ call'[u] = call[u] /\ call[u].ref.index # i
    <3>1. Installing' = Installing
      BY <1>2 DEF Installing
    <3> QED BY <1>1, <1>2, <1>4, <2>1, <3>1, InItsOwnSlot
  <2>5. /\ Minted' /\ Unshared'
        /\ \A j \in Live("shared")' : j \in Live("shared") /\ j # i /\ slots'[j] = slots[j]
    BY <1>2, <2>2, <2>3, <2>4, EmptiedKeeps
  <2>6. MakingShared' = MakingShared
    BY <1>2 DEF MakingShared, Creating
  <2>7. RunsOwned'
    BY <1>0, <1>2, <2>5, <2>6, FewerOwners DEF RunsOwned
  <2> QED BY <2>3, <2>5, <2>7 DEF ObjInv
<1> QED BY <1>3, <1>4

\* cap::install, and what a refusal takes back.
LEMMA InstallKeeps ==
    ASSUME ObjInv, NEW t \in Tasks, NEW ok, install(t, ok)
    PROVE  ObjInv'
<1> DEFINE s == SpaceOf[t]
           line == call[t].obj.kind = "notification" /\ call[t].obj.id \in Lines
<1>0. Types /\ Minted /\ Unshared /\ RunsOwned
  BY DEF ObjInv
<1>1. /\ s \in Spaces /\ t \in Installing /\ call \in [Tasks -> Calls] /\ born' = born
      /\ call[t].obj \in Things /\ call[t].ref \in Refs
  BY <1>0, ObjectsAssumption, CallsAreCalls DEF install, Types, Installing
<1>2. PICK o \in Things, r \in Refs : o = call[t].obj /\ r = call[t].ref
  BY <1>1
<1>3. /\ r.index \in DOMAIN slots /\ r.born <= born
      /\ slots[r.index].gen = r.gen /\ slots[r.index].object = o /\ slots[r.index].born = r.born
  BY <1>0, <1>1, <1>2 DEF Unshared
<1>4. o # Null /\ o.kind \in Kinds /\ o.id \in Nat
  BY NullIsNothing DEF Things
<1>5. CASE /\ caps' = [caps EXCEPT ![s] = Put(@, FirstGap(caps[s], EmptyOf(caps[s])), Cap(o, r))]
           /\ Goto(t, IF line THEN [at |-> "bind", id |-> o.id] ELSE Idle)
           /\ UNCHANGED <<slots, runs, frames>>
  <2>1. PICK x \in Held : x = Cap(o, r) /\ x.kind = o.kind /\ x.ref = r
    <3>1. Cap(o, r) \in Held /\ Cap(o, r).kind = o.kind /\ Cap(o, r).ref = r
      BY <1>4 DEF Cap, Held
    <3> QED BY <3>1
  <2>2. PICK c \in Calls : Goto(t, c) /\ c.at \in {"bind", "idle"}
    BY <1>4, <1>5, CallShape
  <2>3. Genuine(x.kind, x.ref)
    <3>1. slots[r.index].gen \in Nat
      BY <1>0, <1>3, SlotsAreSlots, SlotShape
    <3> QED BY <1>3, <1>4, <2>1, <3>1 DEF Genuine
  <2>4. call' \in [Tasks -> Calls] /\ \A u \in Tasks : call'[u] = IF u = t THEN c ELSE call[u]
    BY <1>1, <2>2 DEF Goto
  <2>5. \A u \in Installing' : u \in Installing /\ u # t /\ call[u].ref.born # x.ref.born
    <3>1. \A u \in Installing' : u \in Installing /\ u # t
      BY <2>2, <2>4 DEF Installing
    <3> QED BY <1>0, <1>1, <1>2, <2>1, <3>1 DEF Unshared
  <2>6. \A u \in Tasks : call'[u].at \in {"create", "install"} => call'[u] = call[u]
    BY <2>2, <2>4
  <2>7. caps' = [caps EXCEPT ![s] = Put(@, FirstGap(caps[s], EmptyOf(caps[s])), x)]
    BY <1>5, <2>1
  <2> HIDE DEF s, line
  <2> QED BY <1>1, <1>5, <2>3, <2>4, <2>5, <2>6, <2>7, AddedKeeps
<1>6. CASE /\ slots' = IF line THEN slots ELSE revoked(r.index)
           /\ Unwound(o) /\ Goto(t, Idle) /\ caps' = caps
  <2>1. /\ runs' \in Seq(Nat) /\ DOMAIN runs' = DOMAIN runs
        /\ \A i \in DOMAIN runs : o.kind # "shared" \/ i # o.id => runs'[i] = runs[i]
    BY <1>0, <1>6, UnwoundRuns
  <2>2. \A u \in Tasks : call'[u] = IF u = t THEN Idle ELSE call[u]
    BY <1>1, <1>6 DEF Goto
  <2>3. call' \in [Tasks -> Calls]
    BY <1>1, <1>6, CallShape DEF Goto
  <2>4. \A u \in Installing' : u \in Installing /\ u # t /\ call'[u] = call[u]
    BY <2>2, CallShape DEF Installing
  <2>5. \A u \in MakingShared' : u \in MakingShared /\ call'[u] = call[u]
    BY <2>2, CallShape DEF MakingShared, Creating
  <2>6. CASE line
    <3>1. slots' = slots /\ o.kind = "notification"
      BY <1>2, <1>6, <2>6
    <3>2. Types'
      BY <1>0, <1>1, <1>6, <2>1, <2>3, <3>1 DEF Types
    <3>3. \A u \in Tasks : call'[u].at = "install" => call'[u] = call[u]
      BY <2>2, CallShape
    <3>4. Minted' /\ Unshared'
      BY <1>0, <1>1, <1>6, <3>1, <3>2, <3>3, QuietCall
    <3>5. Live("shared")' = Live("shared")
      BY <3>1 DEF Live
    <3>6. RunsOwned'
      BY <1>0, <2>1, <2>5, <3>1, <3>5, FewerOwners DEF RunsOwned
    <3> QED BY <3>2, <3>4, <3>6 DEF ObjInv
  <2>7. CASE ~ line
    <3>1. PICK i \in DOMAIN slots : i = r.index
      BY <1>3
    <3>2. slots' = revoked(i)
      BY <1>6, <2>7, <3>1
    <3>3. Types'
      <4>1. slots' \in Seq(Slot)
        BY <1>0, <3>2, RevokedSlots
      <4> QED BY <1>0, <1>1, <1>6, <2>1, <2>3, <4>1 DEF Types
    <3>4. \A u \in Installing' : u \in Installing /\ call'[u] = call[u] /\ call[u].ref.index # i
      BY <1>1, <1>2, <2>4, <3>1, InItsOwnSlot
    <3>5. /\ Minted' /\ Unshared'
          /\ \A j \in Live("shared")' : j \in Live("shared") /\ j # i /\ slots'[j] = slots[j]
      BY <1>1, <1>6, <3>2, <3>3, <3>4, EmptiedKeeps
    <3>6. o.kind = "shared" => i \in Live("shared") /\ slots[i].object = o
      BY <1>3, <1>4, <3>1 DEF Live
    <3>7. \A j \in Live("shared")' : /\ slots[j].object.id \in DOMAIN runs'
                                     /\ runs'[slots[j].object.id] = runs[slots[j].object.id]
      BY <1>0, <2>1, <3>5, <3>6 DEF RunsOwned
    <3>8. \A u \in MakingShared' : /\ call[u].obj.id \in DOMAIN runs'
                                   /\ runs'[call[u].obj.id] = runs[call[u].obj.id]
      BY <1>0, <2>1, <2>5, <3>6 DEF RunsOwned
    <3>9. RunsOwned'
      BY <1>0, <2>5, <3>5, <3>7, <3>8, FewerOwners
    <3> QED BY <3>3, <3>5, <3>9 DEF ObjInv
  <2> QED BY <2>6, <2>7
<1> QED BY <1>2, <1>5, <1>6 DEF install

\* The sweep empties every slot that holds a buffer.
LEMMA SweepKeeps ==
    ASSUME ObjInv, free_reclaimable
    PROVE  ObjInv'
<1> DEFINE swept == Live("shared") \cup Live("dma")
           ids == {slots[i].object.id : i \in Live("shared")}
           emptied(i) == [slots[i] EXCEPT !.object = Null, !.gen = @ + 1]
<1>0. Types /\ Minted /\ slots \in Seq(Slot) /\ runs \in Seq(Nat)
  BY DEF ObjInv, Types
<1>1. /\ slots' = [i \in DOMAIN slots |-> IF i \in swept THEN emptied(i) ELSE slots[i]]
      /\ runs' = [i \in DOMAIN runs |-> IF i \in ids THEN 0 ELSE runs[i]]
  BY DEF free_reclaimable
<1>2. UNCHANGED <<caps, call, born>> /\ \A t \in Tasks : call[t] = Idle
  BY DEF free_reclaimable
<1>3. \A i \in DOMAIN slots : /\ slots[i] \in Slot /\ slots[i].gen \in Nat
                              /\ emptied(i) \in Slot /\ emptied(i).object = Null
                              /\ emptied(i).gen = slots[i].gen + 1
  BY <1>0, SlotsAreSlots, SlotShape, EmptiedSlot
<1> HIDE DEF swept, ids, emptied
<1>4. /\ DOMAIN slots' = DOMAIN slots
      /\ \A i \in DOMAIN slots : slots'[i] = IF i \in swept THEN emptied(i) ELSE slots[i]
  BY <1>1
<1>5. slots' \in Seq(Slot)
  <2>1. PICK n \in Nat : n = Len(slots) /\ DOMAIN slots = 1..n
    BY <1>0, SlotsAreSlots
  <2>2. slots' \in [1..n -> Slot]
    BY <1>1, <1>3, <2>1
  <2> QED BY <2>2
<1>6. runs' \in Seq(Nat)
  <2>1. PICK n \in Nat : DOMAIN runs = 1..n /\ \A i \in 1..n : runs[i] \in Nat
    BY <1>0
  <2>2. runs' \in [1..n -> Nat]
    BY <1>1, <2>1
  <2> QED BY <2>2
<1>7. Types'
  BY <1>0, <1>2, <1>5, <1>6 DEF Types
<1>8. Ages
  <2>1. born \in Nat
    BY <1>0 DEF Types
  <2> QED BY <1>2, <1>3, <1>4, <2>1 DEF Ages
<1>9. Minted'
  BY <1>0, <1>2, <1>7, <1>8, MintedStays
<1>10. Installing' = {} /\ MakingShared' = {}
  BY <1>2, CallShape DEF Installing, MakingShared, Creating
<1>11. Live("shared")' = {}
  BY <1>3, <1>4 DEF Live, swept
<1>12. Unshared' /\ RunsOwned'
  BY <1>10, <1>11 DEF Unshared, RunsOwned
<1> QED BY <1>7, <1>9, <1>12 DEF ObjInv
-----------------------------------------------------------------------------
(* The theorems *)

LEMMA ObjInitHolds == ObjInit => ObjInv
<1> SUFFICES ASSUME ObjInit PROVE ObjInv
  OBVIOUS
<1> DEFINE thing == [kind |-> "authority", id |-> 0]
           x == [gen |-> 0, object |-> thing, born |-> 0]
           r == Ref(1, 0, 0)
           c == [kind |-> "authority", ref |-> r]
<1>1. PICK s \in Spaces : caps = [z \in Spaces |-> IF z = s THEN <<c>> ELSE <<>>]
  BY DEF ObjInit
<1>2. slots = <<x>> /\ runs = <<>> /\ call = [t \in Tasks |-> Idle] /\ born = 0
  BY DEF ObjInit
<1>3. thing \in Things /\ thing.kind = "authority"
  BY DEF Things, Kinds
<1>4. x \in Slot /\ x.gen = 0 /\ x.object = thing /\ x.born = 0
  BY <1>3, SlotShape DEF Contents
<1>5. r \in Refs /\ r.index = 1 /\ r.gen = 0 /\ r.born = 0
  BY DEF Ref, Refs
<1>6. c \in Held /\ c.kind = "authority" /\ c.ref = r
  BY <1>5 DEF Held, Kinds
<1> HIDE DEF thing, x, r, c
<1>7. /\ slots \in Seq(Slot) /\ DOMAIN slots = {1} /\ slots[1] = x
      /\ \A z \in Spaces : /\ caps[z] \in Seq(Held)
                           /\ \A h \in DOMAIN caps[z] : caps[z][h] = c
  BY <1>1, <1>2, <1>4, <1>6
<1>8. Types
  BY <1>1, <1>2, <1>7, CallShape DEF Types
<1>9. Genuine(c.kind, c.ref)
  BY <1>2, <1>3, <1>4, <1>5, <1>6, <1>7, NullIsNothing DEF Genuine
<1>10. Minted
  BY <1>7, <1>9 DEF Minted
<1>11. Installing = {} /\ MakingShared = {}
  BY <1>2, CallShape DEF Installing, MakingShared, Creating
<1>12. Live("shared") = {}
  BY <1>3, <1>4, <1>7 DEF Live
<1> QED BY <1>8, <1>10, <1>11, <1>12 DEF ObjInv, Unshared, RunsOwned

LEMMA ObjStepKeeps == ObjInv /\ [ObjNext]_objVars => ObjInv'
<1> SUFFICES ASSUME ObjInv, [ObjNext]_objVars PROVE ObjInv'
  OBVIOUS
<1>1. CASE UNCHANGED objVars
  BY <1>1, Elsewhere DEF objVars
<1>2. CASE free_reclaimable
  BY <1>2, SweepKeeps
<1>3. ASSUME NEW t \in Tasks, Syscall(t) PROVE ObjInv'
  <2>1. CASE \E pages \in 1..MaxPages : CreateDma(t, pages) \/ \E ok \in BOOLEAN : CreateShared(t, pages, ok)
    <3>1. PICK pages \in 1..MaxPages : CreateDma(t, pages) \/ \E ok \in BOOLEAN : CreateShared(t, pages, ok)
      BY <2>1
    <3>2. pages \in Nat \ {0}
      BY <3>1
    <3> QED BY <3>1, <3>2, CreateDmaKeeps, CreateSharedKeeps
  <2>2. ASSUME NEW h \in Handles(t), \E n \in Lines, kind \in {"device", "irq"} : Grant(t, h, kind, n)
        PROVE  ObjInv'
    BY <2>2, GrantKeeps
  <2>3. CASE NotifyCreate(t) \/ \E h \in Handles(t) : IrqRegister(t, h)
    BY <2>3, NotifyKeeps
  <2>4. ASSUME NEW h \in Handles(t), \/ \E u \in Tasks : Delegate(t, h, u)
                                     \/ Revoke(t, h)
        PROVE  ObjInv'
    BY <2>4, DelegateKeeps, RevokeKeeps
  <2>5. CASE register(t) \/ \E ok \in BOOLEAN : create(t, ok) \/ install(t, ok)
    BY <2>5, RegisterKeeps, CreateKeeps, InstallKeeps
  <2> QED BY <1>3, <2>1, <2>2, <2>3, <2>4, <2>5 DEF Syscall
<1> QED BY <1>1, <1>2, <1>3 DEF ObjNext

LEMMA ObjInvariant == ObjSpec => []ObjInv
BY ObjInitHolds, ObjStepKeeps, PTL DEF ObjSpec

\* A capability resolves to the object it was minted for or to nothing, for
\* any number of tasks and however many objects its slot has held since
\* (obj::create keeps the slot's generation, obj::revoke moves it on).
THEOREM AuthorityNeverStale == ObjSpec => []NoStaleAuthority
<1>1. ObjInv => NoStaleAuthority
  <2> SUFFICES ASSUME ObjInv, NEW s \in Spaces, NEW h \in DOMAIN caps[s], get(caps[s][h].ref) # Null
               PROVE  /\ slots[caps[s][h].ref.index].born = caps[s][h].ref.born
                      /\ get(caps[s][h].ref).kind = caps[s][h].kind
    BY DEF NoStaleAuthority, HeldCaps
  <2> QED BY DEF get, ObjInv, Minted, Genuine
<1> QED BY <1>1, ObjInvariant, PTL

\* No run of frames backs two live shared objects and none that one names is
\* empty, whichever creation failed half way, in whichever task
\* (syscall::create_shared, obj::create, cap::install, shm::destroy).
THEOREM RunsNeverShared == ObjSpec => []RunsOwnedOnce
<1>1. ObjInv => RunsOwnedOnce
  BY DEF ObjInv, RunsOwned, RunsOwnedOnce
<1> QED BY <1>1, ObjInvariant, PTL

\* Both: a capability leads to its own object, and that to its own frames
\* (cap::get, shm::translate).
THEOREM AuthorityHolds == ObjSpec => []AuthoritySound
BY AuthorityNeverStale, RunsNeverShared, PTL DEF AuthoritySound
=============================================================================
