----------------------------- MODULE Compositor -----------------------------
(***************************************************************************)
(* The display server's stack of surfaces and its double-buffered screen.  *)
(* Only what changed is repainted, and with two buffers the one drawn into *)
(* is a frame behind the one on show, so each buffer carries the rectangle *)
(* in which it may be wrong.                                               *)
(*                                                                         *)
(* The screen is one row of pixels: a rectangle is an interval [x, w].     *)
(* What a pixel shows is abstracted to whether it is older than the last   *)
(* change reported there: behind[b] is the set of such pixels of buffer b. *)
(***************************************************************************)
EXTENDS Integers, FiniteSets, Sequences

CONSTANTS
  Clients,        \* clients of the server
  Width,          \* pixels of the screen
  MAX_SURFACES,
  MaxId,          \* surface ids handed out, a bound on the model
  Buffers,        \* buffers the kernel mapped, of which two are used
  Spots, Extents  \* where windows and their damage begin, and how far they reach

ASSUME CompositorAssumption ==
  /\ Width \in Nat \ {0} /\ MAX_SURFACES \in Nat /\ MaxId \in Nat /\ Buffers \in {1, 2}
  /\ Spots \subseteq Nat /\ Extents \subseteq Nat \ {0}

VARIABLES
  surfaces,   \* the stack, bottom first: [id, owner, x, w]
  next_id,
  back,       \* the buffer drawn into
  shown,      \* the buffer the display scans out
  stale,      \* [buffers -> the rectangle where it may be wrong]
  behind,     \* [buffers -> pixels that are wrong]
  flipped,    \* the last flip was accepted, or none was needed
  live        \* [Clients -> ids the client created and has not destroyed]

screenVars == <<surfaces, next_id, back, shown, stale, behind, flipped, live>>

Rect(x, w) == [x |-> x, w |-> w]
None == Rect(0, 0)
Whole == Rect(0, Width)
Pixels(r) == r.x .. r.x + r.w - 1
Lower(i, j) == IF i < j THEN i ELSE j
Upper(i, j) == IF i < j THEN j ELSE i

Screens == 0 .. Buffers - 1

\* The smallest rectangle covering both.
union(r, q) ==
  LET x == Lower(r.x, q.x) IN Rect(x, Upper(r.x + r.w, q.x + q.w) - x)

clip(r) ==
  IF r.x >= Width \/ r.w = 0 THEN None ELSE Rect(r.x, Lower(r.w, Width - r.x))

\* from_seed: the first frame goes to the buffer not on show, and every buffer
\* starts wrong everywhere.
ScreenInit ==
  /\ surfaces = <<>>
  /\ next_id = 1
  /\ back = Buffers - 1
  /\ shown = 0
  /\ stale = [b \in Screens |-> Whole]
  /\ behind = [b \in Screens |-> Pixels(Whole)]
  /\ flipped = FALSE
  /\ live = [c \in Clients |-> {}]

\* Every buffer falls behind by the damage; the back one is repainted over all
\* it was missing.
damage_back(r) ==
  [b \in DOMAIN stale |-> IF b = back THEN None ELSE stale[b]]
damage(r) ==
  [b \in DOMAIN stale |-> IF b = back THEN None
                          ELSE IF stale[b] = None THEN r ELSE union(stale[b], r)]
repaint(r) == IF stale[back] = None THEN r ELSE clip(union(stale[back], r))

\* composite: widen, paint the back buffer, flip.  A refused flip leaves the
\* back buffer where it is.
composite(r, accepted) ==
  IF clip(r) = None
  THEN UNCHANGED <<back, shown, stale, behind, flipped>>
  ELSE LET d == clip(r)
           painted == Pixels(repaint(d))
       IN /\ stale' = damage(d)
          /\ behind' = [b \in DOMAIN behind |->
                          IF b = back THEN (behind[b] \cup Pixels(d)) \ painted
                                      ELSE behind[b] \cup Pixels(d)]
          /\ IF Buffers = 2 /\ accepted
             THEN shown' = back /\ back' = (back + 1) % Buffers
             ELSE UNCHANGED <<shown, back>>
          /\ flipped' = (Buffers = 1 \/ accepted)

------------------------------------------------------------------------------
\* Mutant: the owner is not looked at.
index_any(owner, id) == {i \in DOMAIN surfaces : surfaces[i].id = id}
index_of(owner, id) == {i \in DOMAIN surfaces : surfaces[i].id = id /\ surfaces[i].owner = owner}
Area(s) == Rect(s.x, s.w)

\* The first frame, before any client is served.
Started == \E b \in DOMAIN behind : behind[b] = {}
Start(accepted) ==
  /\ ~Started
  /\ composite(Whole, accepted)
  /\ UNCHANGED <<surfaces, next_id, live>>

\* create: nothing is painted until the first commit.  A buffer too small for
\* the size claimed (accept_buffer), or a full stack, is refused.
create(owner, x, w) ==
  /\ Started /\ next_id <= MaxId /\ Len(surfaces) < MAX_SURFACES
  /\ surfaces' = Append(surfaces, [id |-> next_id, owner |-> owner, x |-> x, w |-> w])
  /\ next_id' = next_id + 1
  /\ live' = [live EXCEPT ![owner] = @ \cup {next_id}]
  /\ UNCHANGED <<back, shown, stale, behind, flipped>>

commit(owner, id, dx, dw, accepted) ==
  /\ \E i \in index_of(owner, id) :
       /\ dx < surfaces[i].w
       /\ composite(Rect(surfaces[i].x + dx, Lower(dw, surfaces[i].w - dx)), accepted)
  /\ UNCHANGED <<surfaces, next_id, live>>

\* remove closes the gap: what is kept stays in order.
Ranked(K) == CHOOSE f \in [1 .. Cardinality(K) -> K] :
               {f[i] : i \in DOMAIN f} = K /\ \A i, j \in DOMAIN f : i < j => f[i] < f[j]
Closed(K) == LET f == Ranked(K) IN [i \in 1 .. Cardinality(K) |-> surfaces[f[i]]]
Others(i) == DOMAIN surfaces \ {i}

raise(owner, id, accepted) ==
  /\ \E i \in index_of(owner, id) :
       /\ surfaces' = Append(Closed(Others(i)), surfaces[i])
       /\ composite(Area(surfaces[i]), accepted)
  /\ UNCHANGED <<next_id, live>>

destroy(owner, id, accepted) ==
  /\ \E i \in index_of(owner, id) :
       /\ surfaces' = Closed(Others(i))
       /\ composite(Area(surfaces[i]), accepted)
  /\ live' = [live EXCEPT ![owner] = @ \ {id}]
  /\ UNCHANGED next_id

\* A dead client's windows, covered by one bounding rectangle.
WindowsOf(owner) == {i \in DOMAIN surfaces : surfaces[i].owner = owner}
Bounds(K) ==
  LET left == CHOOSE x \in {surfaces[i].x : i \in K} : \A i \in K : x <= surfaces[i].x
      right == CHOOSE x \in {surfaces[i].x + surfaces[i].w : i \in K} :
                 \A i \in K : surfaces[i].x + surfaces[i].w <= x
  IN Rect(left, right - left)
remove_owner(dead, accepted) ==
  /\ live[dead] # {}
  /\ surfaces' = Closed(DOMAIN surfaces \ WindowsOf(dead))
  /\ composite(Bounds(WindowsOf(dead)), accepted)
  /\ live' = [live EXCEPT ![dead] = {}]
  /\ UNCHANGED next_id

ScreenNext ==
  \E accepted \in BOOLEAN :
    \/ Start(accepted)
    \/ \E c \in Clients :
         \/ accepted /\ \E x \in Spots, w \in Extents : create(c, x, w)
         \/ \E id \in 1 .. MaxId :
              \/ \E dx \in Spots, dw \in Extents : commit(c, id, dx, dw, accepted)
              \/ raise(c, id, accepted)
              \/ destroy(c, id, accepted)
         \/ remove_owner(c, accepted)

ScreenSpec == ScreenInit /\ [][ScreenNext]_screenVars

------------------------------------------------------------------------------
\* Double buffering never shows an old frame: a buffer is wrong only inside the
\* rectangle recorded for it, and after a flip the display accepted nothing on
\* show is older than the last change reported there (Screen::damage, present).
\* And no client takes down or loses a window by another client's request: the
\* stack holds exactly the surfaces their owners created and did not destroy
\* (index_of looks the owner up with the id).
NoOldPixels ==
  /\ \A b \in Screens : behind[b] \subseteq Pixels(stale[b])
  /\ flipped => behind[shown] = {}
  /\ \A c \in Clients : live[c] = {surfaces[i].id : i \in WindowsOf(c)}

------------------------------------------------------------------------------
\* The inductive invariant adds that what a buffer is said to miss is on the
\* screen, and that an id is on the stack once and was handed out.
Surface == [id : Nat, owner : Clients, x : Nat, w : Nat \ {0}]
OnScreen == {r \in [x : Nat, w : Nat] : r.x + r.w <= Width}
ScreenTypeOK ==
  /\ surfaces \in Seq(Surface) /\ next_id \in 1 .. MaxId + 1
  /\ back \in Screens /\ shown \in Screens /\ flipped \in BOOLEAN
  /\ stale \in [Screens -> OnScreen] /\ behind \in [Screens -> SUBSET (0 .. Width - 1)]
  /\ live \in [Clients -> SUBSET Nat]
IdsOnce ==
  /\ \A i \in DOMAIN surfaces : surfaces[i].id < next_id
  /\ \A i, j \in DOMAIN surfaces : surfaces[i].id = surfaces[j].id => i = j
ScreenInv == ScreenTypeOK /\ IdsOnce /\ NoOldPixels
==============================================================================
