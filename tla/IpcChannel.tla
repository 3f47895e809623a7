----------------------------- MODULE IpcChannel -----------------------------
(***************************************************************************)
(* Endpoints implement channels (module Channel), for any number of tasks, *)
(* endpoints and sends and any ring and queue sizes, as long as receives   *)
(* block without a deadline and nobody polls or waits on notifications.    *)
(* The conditions are needed: a receive that timed out can be given a      *)
(* message after it gave up, and a late wake-up from a signal fails        *)
(* block_for_message's expect.                                             *)
(*                                                                         *)
(* The invariant places every task: outside every queue; in one queue,     *)
(* asleep, with nobody about to wake it; out of it, asleep, with exactly   *)
(* one task about to hand it a message or room; or woken, a receiver with  *)
(* the message in its mailbox.                                             *)
(***************************************************************************)
EXTENDS IpcProofs, SequenceTheorems

\* No receive has a deadline, and no task polls or waits on a notification.
BlockingOnly == RecvUntil \subseteq {"none"} /\ Polls = {} /\ \A t \in Tasks : Watch[t] = {}

\* The phases of a call, by what it does.
Receiving == {"recv_park", "recv_parked"}
Sending == {"send_park", "send_parked"}
Handing == {"deliver", "make_room"}
Parked == {"recv_parked", "send_parked"}

\* The tasks in a queue, each once: of receivers, and of senders with their
\* messages.
Members(q) == {q[k] : k \in 1..Len(q)}
Distinct(q) == \A j, k \in 1..Len(q) : q[j] = q[k] => j = k
Firsts(q) == {q[k][1] : k \in 1..Len(q)}
DistinctFirsts(q) == \A j, k \in 1..Len(q) : q[j][1] = q[k][1] => j = k

\* Taking the head off a queue, and joining its end.
LEMMA TailMembers ==
    ASSUME NEW S, NEW q \in Seq(S), q # <<>>
    PROVE  /\ Tail(q) \in Seq(S) /\ Len(q) \in Nat /\ Len(Tail(q)) = Len(q) - 1
           /\ 1 \in 1..Len(q) /\ Head(q) = q[1] /\ Head(q) \in S
           /\ \A k \in 1..Len(Tail(q)) : k + 1 \in 1..Len(q) /\ Tail(q)[k] = q[k + 1]
           /\ \A k \in 1..Len(q) : k # 1 => k - 1 \in 1..Len(Tail(q)) /\ Tail(q)[k - 1] = q[k]
OBVIOUS

\* And joining its end.
LEMMA AppendMembers ==
    ASSUME NEW S, NEW q \in Seq(S), NEW x \in S
    PROVE  /\ Append(q, x) \in Seq(S) /\ Len(q) \in Nat /\ Len(Append(q, x)) = Len(q) + 1
           /\ Append(q, x)[Len(q) + 1] = x
           /\ \A k \in 1..Len(q) : k \in 1..Len(Append(q, x)) /\ Append(q, x)[k] = q[k]
           /\ \A k \in 1..Len(Append(q, x)) : k \in 1..Len(q) \/ k = Len(q) + 1
OBVIOUS

\* The receivers left when the first is served.
LEMMA Dequeued ==
    ASSUME NEW S, NEW q \in Seq(S), q # <<>>, Distinct(q)
    PROVE  /\ Head(q) \in Members(q) /\ Members(Tail(q)) = Members(q) \ {Head(q)}
           /\ Distinct(Tail(q))
<1>1. /\ Len(q) \in Nat
      /\ 1 \in 1..Len(q) /\ Head(q) = q[1]
      /\ \A k \in 1..Len(Tail(q)) : k + 1 \in 1..Len(q) /\ Tail(q)[k] = q[k + 1]
      /\ \A k \in 1..Len(q) : k # 1 => k - 1 \in 1..Len(Tail(q)) /\ Tail(q)[k - 1] = q[k]
  BY TailMembers
<1> DEFINE r == Tail(q)
<1> HIDE DEF r
<1>2. Distinct(r)
  <2> SUFFICES ASSUME NEW j \in 1..Len(r), NEW k \in 1..Len(r), r[j] = r[k] PROVE j = k
    BY DEF Distinct
  <2> QED BY <1>1 DEF Distinct, r
<1>3. \A k \in 1..Len(r) : r[k] # q[1]
  BY <1>1 DEF Distinct, r
<1>4. Members(r) = Members(q) \ {q[1]}
  <2>1. ASSUME NEW k \in 1..Len(r) PROVE r[k] \in Members(q) \ {q[1]}
    BY <1>1, <1>3 DEF Members, r
  <2>2. ASSUME NEW k \in 1..Len(q), q[k] # q[1] PROVE q[k] \in Members(r)
    <3>1. k - 1 \in 1..Len(r) /\ r[k - 1] = q[k]
      BY <1>1, <2>2 DEF r
    <3> QED BY <3>1 DEF Members
  <2> QED BY <2>1, <2>2 DEF Members
<1> QED BY <1>1, <1>2, <1>4 DEF Members, r

\* The receivers once one has joined.
LEMMA Enqueued ==
    ASSUME NEW S, NEW q \in Seq(S), NEW x \in S
    PROVE  /\ Members(Append(q, x)) = Members(q) \cup {x}
           /\ Distinct(q) /\ x \notin Members(q) => Distinct(Append(q, x))
<1> DEFINE r == Append(q, x)
<1>1. /\ Len(q) \in Nat /\ Len(r) = Len(q) + 1 /\ r[Len(q) + 1] = x
      /\ \A k \in 1..Len(q) : k \in 1..Len(r) /\ r[k] = q[k]
      /\ \A k \in 1..Len(r) : k \in 1..Len(q) \/ k = Len(q) + 1
  BY AppendMembers
<1> HIDE DEF r
<1>2. Len(q) + 1 \in 1..Len(r)
  BY <1>1
<1>3. Members(r) = Members(q) \cup {x}
  BY <1>1, <1>2 DEF Members
<1>4. ASSUME Distinct(q), x \notin Members(q) PROVE Distinct(r)
  BY <1>1, <1>4 DEF Distinct, Members
<1> QED BY <1>3, <1>4 DEF r

\* The same for the blocked senders, each queued with its message.
LEMMA DequeuedFirst ==
    ASSUME NEW S, NEW q \in Seq(S), q # <<>>, DistinctFirsts(q)
    PROVE  /\ Head(q)[1] \in Firsts(q) /\ Firsts(Tail(q)) = Firsts(q) \ {Head(q)[1]}
           /\ DistinctFirsts(Tail(q))
<1>1. /\ Len(q) \in Nat
      /\ 1 \in 1..Len(q) /\ Head(q) = q[1]
      /\ \A k \in 1..Len(Tail(q)) : k + 1 \in 1..Len(q) /\ Tail(q)[k] = q[k + 1]
      /\ \A k \in 1..Len(q) : k # 1 => k - 1 \in 1..Len(Tail(q)) /\ Tail(q)[k - 1] = q[k]
  BY TailMembers
<1> DEFINE r == Tail(q)
<1> HIDE DEF r
<1>2. DistinctFirsts(r)
  <2> SUFFICES ASSUME NEW j \in 1..Len(r), NEW k \in 1..Len(r), r[j][1] = r[k][1] PROVE j = k
    BY DEF DistinctFirsts
  <2> QED BY <1>1 DEF DistinctFirsts, r
<1>3. \A k \in 1..Len(r) : r[k][1] # q[1][1]
  BY <1>1 DEF DistinctFirsts, r
<1>4. Firsts(r) = Firsts(q) \ {q[1][1]}
  <2>1. ASSUME NEW k \in 1..Len(r) PROVE r[k][1] \in Firsts(q) \ {q[1][1]}
    BY <1>1, <1>3 DEF Firsts, r
  <2>2. ASSUME NEW k \in 1..Len(q), q[k][1] # q[1][1] PROVE q[k][1] \in Firsts(r)
    <3>1. k - 1 \in 1..Len(r) /\ r[k - 1] = q[k]
      BY <1>1, <2>2 DEF r
    <3> QED BY <3>1 DEF Firsts
  <2> QED BY <2>1, <2>2 DEF Firsts
<1> QED BY <1>1, <1>2, <1>4 DEF Firsts, r

\* And for a sender that joins.
LEMMA EnqueuedFirst ==
    ASSUME NEW S, NEW q \in Seq(S), NEW x \in S
    PROVE  /\ Firsts(Append(q, x)) = Firsts(q) \cup {x[1]}
           /\ DistinctFirsts(q) /\ x[1] \notin Firsts(q) => DistinctFirsts(Append(q, x))
<1> DEFINE r == Append(q, x)
<1>1. /\ Len(q) \in Nat /\ Len(r) = Len(q) + 1 /\ r[Len(q) + 1] = x
      /\ \A k \in 1..Len(q) : k \in 1..Len(r) /\ r[k] = q[k]
      /\ \A k \in 1..Len(r) : k \in 1..Len(q) \/ k = Len(q) + 1
  BY AppendMembers
<1> HIDE DEF r
<1>2. Len(q) + 1 \in 1..Len(r)
  BY <1>1
<1>3. Firsts(r) = Firsts(q) \cup {x[1]}
  BY <1>1, <1>2 DEF Firsts
<1>4. ASSUME DistinctFirsts(q), x[1] \notin Firsts(q) PROVE DistinctFirsts(r)
  BY <1>1, <1>4 DEF DistinctFirsts, Firsts
<1> QED BY <1>3, <1>4 DEF r

\* A function on 1..n is a sequence of length n.
LEMMA IsSeq ==
    ASSUME NEW n \in Nat, NEW f \in [1..n -> Msgs]
    PROVE  f \in Seq(Msgs) /\ Len(f) = n
OBVIOUS

\* What a concatenation is made of.
LEMMA Joined ==
    ASSUME NEW r \in Seq(Msgs), NEW b \in Seq(Msgs)
    PROVE  /\ r \o b \in Seq(Msgs) /\ Len(r \o b) = Len(r) + Len(b)
           /\ \A i \in 1..Len(r) + Len(b) : (r \o b)[i] = IF i <= Len(r) THEN r[i] ELSE b[i - Len(r)]
OBVIOUS

\* Sequences with the same elements are equal.
LEMMA SameSeq ==
    ASSUME NEW r \in Seq(Msgs), NEW b \in Seq(Msgs), Len(r) = Len(b),
           \A i \in 1..Len(r) : r[i] = b[i]
    PROVE  r = b
OBVIOUS

\* The messages of the blocked senders, as a sequence.
LEMMA BehindProps ==
    ASSUME NEW q \in Seq(Tasks \X Msgs)
    PROVE  /\ Behind(q) \in Seq(Msgs) /\ Len(Behind(q)) = Len(q) /\ Len(q) \in Nat
           /\ \A k \in 1..Len(q) : Behind(q)[k] = q[k][2]
<1>1. Len(q) \in Nat /\ DOMAIN q = 1..Len(q) /\ \A k \in 1..Len(q) : q[k] \in Tasks \X Msgs
  OBVIOUS
<1>2. \A k \in 1..Len(q) : q[k][2] \in Msgs
  BY <1>1
<1>3. Behind(q) \in [1..Len(q) -> Msgs]
  BY <1>1, <1>2 DEF Behind
<1>4. Behind(q) \in Seq(Msgs) /\ Len(Behind(q)) = Len(q)
  BY <1>1, <1>3, IsSeq
<1> QED BY <1>1, <1>4 DEF Behind

\* A sender that blocks puts its message last.
LEMMA BehindAppend ==
    ASSUME NEW r \in Seq(Msgs), NEW q \in Seq(Tasks \X Msgs), NEW t \in Tasks, NEW m \in Msgs
    PROVE  r \o Behind(Append(q, <<t, m>>)) = Append(r \o Behind(q), m)
<1> DEFINE p == Append(q, <<t, m>>)
           b == Behind(q)
           c == Behind(p)
           left == r \o c
           whole == r \o b
           right == Append(whole, m)
<1>1. /\ p \in Seq(Tasks \X Msgs) /\ Len(p) = Len(q) + 1 /\ Len(q) \in Nat /\ Len(r) \in Nat
      /\ p[Len(q) + 1][2] = m /\ \A k \in 1..Len(q) : p[k] = q[k]
  OBVIOUS
<1> HIDE DEF p
<1>0. PICK nr \in Nat, nq \in Nat : nr = Len(r) /\ nq = Len(q)
  BY <1>1
<1>01. p[nq + 1][2] = m /\ \A k \in 1..nq : p[k] = q[k]
  BY <1>0, <1>1
<1>2. b \in Seq(Msgs) /\ Len(b) = nq /\ \A k \in 1..nq : b[k] = q[k][2]
  BY <1>0, BehindProps
<1>3. c \in Seq(Msgs) /\ Len(c) = nq + 1 /\ \A k \in 1..nq + 1 : c[k] = p[k][2]
  BY <1>0, <1>1, BehindProps
<1> HIDE DEF b, c
<1>4. /\ left \in Seq(Msgs) /\ Len(left) = nr + nq + 1
      /\ \A i \in 1..Len(left) : left[i] = IF i <= nr THEN r[i] ELSE c[i - nr]
  <2>1. /\ left \in Seq(Msgs) /\ Len(left) = nr + Len(c)
        /\ \A i \in 1..nr + Len(c) : left[i] = IF i <= nr THEN r[i] ELSE c[i - nr]
    BY <1>0, <1>3, Joined
  <2> QED BY <1>3, <2>1
<1>5. /\ whole \in Seq(Msgs) /\ Len(whole) = nr + nq
      /\ \A i \in 1..Len(whole) : whole[i] = IF i <= nr THEN r[i] ELSE b[i - nr]
  <2>1. /\ whole \in Seq(Msgs) /\ Len(whole) = nr + Len(b)
        /\ \A i \in 1..nr + Len(b) : whole[i] = IF i <= nr THEN r[i] ELSE b[i - nr]
    BY <1>0, <1>2, Joined
  <2> QED BY <1>2, <2>1
<1> HIDE DEF left, whole
<1>6. /\ right \in Seq(Msgs) /\ Len(right) = Len(whole) + 1 /\ right[Len(whole) + 1] = m
      /\ \A i \in 1..Len(whole) : right[i] = whole[i]
  BY <1>5, AppendMembers
<1> HIDE DEF right
<1>7. ASSUME NEW i \in 1..Len(left) PROVE left[i] = right[i]
  <2>0. i \in Nat /\ i > 0
    BY <1>01, <1>4
  <2>1. CASE i <= nr
    <3>1. i \in 1..Len(whole)
      BY <1>01, <1>5, <2>0, <2>1
    <3>2. left[i] = r[i] /\ whole[i] = r[i] /\ right[i] = whole[i]
      BY <1>4, <1>5, <1>6, <2>1, <3>1
    <3> QED BY <3>2
  <2>2. CASE ~ (i <= nr) /\ i <= nr + nq
    <3>0. PICK k \in 1..nq : k = i - nr
      BY <1>01, <2>0, <2>2
    <3>1. i \in 1..Len(whole) /\ k \in 1..nq + 1
      BY <1>01, <1>5, <2>0, <2>2, <3>0
    <3>2. left[i] = c[k] /\ c[k] = p[k][2] /\ p[k] = q[k]
      BY <1>01, <1>3, <1>4, <2>2, <3>0, <3>1
    <3>3. right[i] = whole[i] /\ whole[i] = b[k] /\ b[k] = q[k][2]
      BY <1>2, <1>5, <1>6, <2>2, <3>0, <3>1
    <3> QED BY <3>2, <3>3
  <2>3. CASE i = nr + nq + 1
    <3>1. nq + 1 \in 1..nq + 1 /\ i - nr = nq + 1 /\ ~ (i <= nr) /\ i = Len(whole) + 1
      BY <1>01, <1>5, <2>3
    <3>2. left[i] = c[nq + 1] /\ c[nq + 1] = m
      BY <1>01, <1>3, <1>4, <3>1
    <3> QED BY <1>6, <3>1, <3>2
  <2> QED BY <1>01, <1>4, <2>0, <2>1, <2>2, <2>3
<1>8. Len(left) = Len(right)
  BY <1>4, <1>5, <1>6
<1>9. left = right
  BY <1>4, <1>6, <1>7, <1>8, SameSeq
<1> QED BY <1>9 DEF left, right, whole, b, c, p

\* Room is made: the oldest message leaves, and the first sender's moves up.
LEMMA BehindTail ==
    ASSUME NEW r \in Seq(Msgs), NEW q \in Seq(Tasks \X Msgs), r # <<>>, q # <<>>
    PROVE  Append(Tail(r), Head(q)[2]) \o Behind(Tail(q)) = Tail(r \o Behind(q))
<1> DEFINE p == Tail(q)
           s == Append(Tail(r), Head(q)[2])
           b == Behind(q)
           c == Behind(p)
           left == s \o c
           whole == r \o b
           right == Tail(whole)
<1>1. /\ p \in Seq(Tasks \X Msgs) /\ Len(p) = Len(q) - 1 /\ Len(q) \in Nat /\ Len(q) > 0
      /\ Head(q) \in Tasks \X Msgs /\ Head(q) = q[1] /\ \A k \in 1..Len(q) - 1 : p[k] = q[k + 1]
  OBVIOUS
<1>2. /\ Tail(r) \in Seq(Msgs) /\ Len(Tail(r)) = Len(r) - 1 /\ Len(r) \in Nat /\ Len(r) > 0
      /\ \A k \in 1..Len(r) - 1 : Tail(r)[k] = r[k + 1]
  OBVIOUS
<1>0. PICK nr \in Nat, nq \in Nat : nr = Len(r) /\ nq = Len(q) /\ nr > 0 /\ nq > 0
  BY <1>1, <1>2
<1>01. \A k \in 1..nq - 1 : p[k] = q[k + 1]
  BY <1>0, <1>1
<1>3. /\ s \in Seq(Msgs) /\ Len(s) = nr /\ s[nr] = q[1][2]
      /\ \A k \in 1..nr - 1 : s[k] = r[k + 1]
  BY <1>0, <1>1, <1>2
<1> HIDE DEF p, s
<1>4. b \in Seq(Msgs) /\ Len(b) = nq /\ \A k \in 1..nq : b[k] = q[k][2]
  BY <1>0, BehindProps
<1>5. c \in Seq(Msgs) /\ Len(c) = nq - 1 /\ \A k \in 1..nq - 1 : c[k] = p[k][2]
  BY <1>0, <1>1, BehindProps
<1> HIDE DEF b, c
<1>6. /\ left \in Seq(Msgs) /\ Len(left) = nr + nq - 1
      /\ \A i \in 1..Len(left) : left[i] = IF i <= nr THEN s[i] ELSE c[i - nr]
  <2>1. /\ left \in Seq(Msgs) /\ Len(left) = nr + Len(c)
        /\ \A i \in 1..nr + Len(c) : left[i] = IF i <= nr THEN s[i] ELSE c[i - nr]
    <3>1. /\ left \in Seq(Msgs) /\ Len(left) = Len(s) + Len(c)
          /\ \A i \in 1..Len(s) + Len(c) : left[i] = IF i <= Len(s) THEN s[i] ELSE c[i - Len(s)]
      BY <1>3, <1>5, Joined
    <3> QED BY <1>3, <3>1
  <2> QED BY <1>0, <1>5, <2>1
<1>7. /\ whole \in Seq(Msgs) /\ Len(whole) = nr + nq
      /\ \A i \in 1..Len(whole) : whole[i] = IF i <= nr THEN r[i] ELSE b[i - nr]
  <2>1. /\ whole \in Seq(Msgs) /\ Len(whole) = nr + Len(b)
        /\ \A i \in 1..nr + Len(b) : whole[i] = IF i <= nr THEN r[i] ELSE b[i - nr]
    BY <1>0, <1>4, Joined
  <2> QED BY <1>4, <2>1
<1> HIDE DEF left, whole
<1>8. whole # <<>>
  BY <1>0, <1>01, <1>7
<1>9. /\ right \in Seq(Msgs) /\ Len(right) = Len(whole) - 1
      /\ \A i \in 1..Len(right) : right[i] = whole[i + 1]
  BY <1>7, <1>8, TailMembers
<1> HIDE DEF right
<1>10. Len(left) = Len(right)
  BY <1>0, <1>01, <1>6, <1>7, <1>9
<1>11. ASSUME NEW i \in 1..Len(left) PROVE left[i] = right[i]
  <2>0. i \in Nat /\ i > 0 /\ i <= nr + nq - 1 /\ right[i] = whole[i + 1] /\ i + 1 \in 1..Len(whole)
    BY <1>0, <1>01, <1>6, <1>7, <1>9, <1>10
  <2>1. CASE i <= nr - 1
    <3>1. i \in 1..nr - 1 /\ i <= nr /\ i + 1 <= nr
      BY <1>0, <2>0, <2>1
    <3>2. left[i] = s[i] /\ s[i] = r[i + 1] /\ whole[i + 1] = r[i + 1]
      BY <1>3, <1>6, <1>7, <2>0, <3>1
    <3> QED BY <2>0, <3>2
  <2>2. CASE i = nr
    <3>1. i <= nr /\ ~ (i + 1 <= nr) /\ i + 1 - nr = 1 /\ 1 \in 1..nq
      BY <1>0, <1>01, <2>2
    <3>2. left[i] = s[i] /\ s[i] = q[1][2]
      BY <1>3, <1>6, <2>2, <3>1
    <3>3. whole[i + 1] = b[i + 1 - nr]
      BY <1>7, <2>0, <3>1
    <3>4. b[1] = q[1][2]
      BY <1>4, <3>1
    <3> QED BY <2>0, <3>1, <3>2, <3>3, <3>4
  <2>3. CASE ~ (i <= nr)
    <3>0. PICK k \in 1..nq - 1 : k = i - nr
      BY <2>0, <2>3
    <3>1. k + 1 \in 1..nq /\ i + 1 - nr = k + 1 /\ ~ (i + 1 <= nr)
      BY <1>0, <1>01, <2>0, <2>3, <3>0
    <3>2. left[i] = c[k] /\ c[k] = p[k][2] /\ p[k] = q[k + 1]
      BY <1>0, <1>01, <1>5, <1>6, <2>3, <3>0
    <3>3. whole[i + 1] = b[i + 1 - nr]
      BY <1>7, <2>0, <3>1
    <3>4. b[k + 1] = q[k + 1][2]
      BY <1>4, <3>1
    <3> QED BY <2>0, <3>1, <3>2, <3>3, <3>4
  <2> QED BY <1>0, <2>0, <2>1, <2>2, <2>3
<1>12. left = right
  BY <1>6, <1>9, <1>10, <1>11, SameSeq
<1> QED BY <1>12 DEF left, right, whole, b, c, p, s

\* The channel's queue when nobody is blocked, and its head.
LEMMA BehindOther ==
    ASSUME NEW r \in Seq(Msgs), NEW q \in Seq(Tasks \X Msgs)
    PROVE  /\ q = <<>> => r \o Behind(q) = r
           /\ r # <<>> => r \o Behind(q) # <<>> /\ Head(r \o Behind(q)) = Head(r)
<1>1. Behind(q) \in Seq(Msgs) /\ Len(Behind(q)) = Len(q) /\ Len(q) \in Nat
  BY BehindProps
<1> DEFINE b == Behind(q)
           w == r \o b
<1> HIDE DEF b
<1>2. ASSUME q = <<>> PROVE r \o b = r
  <2>1. b = <<>>
    BY <1>1, <1>2, EmptySeq DEF b
  <2> QED BY <2>1, ConcatEmptySeq
<1>3. ASSUME r # <<>> PROVE w # <<>> /\ Head(w) = Head(r)
  <2>1. /\ w \in Seq(Msgs) /\ Len(w) = Len(r) + Len(b)
        /\ \A i \in 1..Len(r) + Len(b) : w[i] = IF i <= Len(r) THEN r[i] ELSE b[i - Len(r)]
    BY <1>1, Joined DEF b
  <2> HIDE DEF w
  <2>2. Len(r) \in Nat \ {0} /\ Len(b) \in Nat
    BY <1>1, <1>3, EmptySeq DEF b
  <2>3. w[1] = r[1] /\ w # <<>>
    BY <2>1, <2>2
  <2> QED BY <1>3, <2>1, <2>3
<1> QED BY <1>2, <1>3 DEF b, w

\* The largest of one.
LEMMA MaxOfOne == ASSUME NEW m \in Nat PROVE Max({m}) = m
BY DEF Max

\* The invariant.  Its types, with what the hypothesis leaves of them.
BlockTypes ==
    /\ pc = [p \in Procs |-> pc[p]] /\ \A p \in Lines : pc[p] = "user"
    /\ \A t \in Tasks : /\ pc[t] \in {"user"} \cup Receiving \cup Sending \cup Handing
                        /\ cont[t] = IF pc[t] \in Handing THEN pc[t] ELSE "user"
    /\ parked \in [Tasks -> {"no", "Blocked"}] /\ wake_pending \in [Tasks -> BOOLEAN]
    /\ mailbox \in [Tasks -> Msgs \cup {NoMsg}] /\ km \in [Tasks -> Msgs \cup {NoMsg}]
    /\ at = [t \in Tasks |-> at[t]] /\ peer = [t \in Tasks |-> peer[t]]
    /\ cont = [t \in Tasks |-> cont[t]]
    /\ recv_waiters \in [Endpoints -> Seq(Tasks)]
    /\ send_waiters \in [Endpoints -> Seq(Tasks \X Msgs)]
\* No notification has a waiter, none is bound, and no deadline runs.
NoSignals ==
    /\ waiter = [i \in Notifs |-> NoTask] /\ owed = [p \in Procs |-> NoTask]
    /\ notify = [e \in Endpoints |-> NoNotif] /\ deadline = [t \in Tasks |-> "none"]
NoneTwice == \A e \in Endpoints : Distinct(recv_waiters[e]) /\ DistinctFirsts(send_waiters[e])

\* The tasks in e's two queues, and the task u is about to hand to or wake.
RQ(e) == Members(recv_waiters[e])
SQ(e) == Firsts(send_waiters[e])
Targets(u, x) == pc[u] \in Handing /\ peer[u] = x

\* A task nobody has woken yet, and one that nobody is about to wake either.
Asleep(x) == /\ mailbox[x] = NoMsg /\ ~ wake_pending[x]
             /\ pc[x] \in Parked => parked[x] = "Blocked"
InLine(x) == Asleep(x) /\ \A u \in Tasks : ~ Targets(u, x)

\* Where task x may be: queued once, or handed to once, or holding a message.
Lined(x) ==
    /\ \A e \in Endpoints : x \in RQ(e) => pc[x] \in Receiving /\ at[x] = e /\ InLine(x)
    /\ \A e \in Endpoints : x \in SQ(e) =>
          pc[x] \in Sending /\ InLine(x) /\ \A f \in Endpoints : x \in SQ(f) => f = e
Hands(u) ==
    pc[u] \in Handing =>
        /\ peer[u] \in Tasks /\ km[u] \in Msgs
        /\ pc[u] = "deliver" => pc[peer[u]] \in Receiving
        /\ pc[u] = "make_room" => pc[peer[u]] \in Sending
        /\ Asleep(peer[u])
        /\ \A v \in Tasks : Targets(v, peer[u]) => v = u
\* A message in a mailbox: its receiver is awake, or will not park.  And the
\* promise behind the expect: a receive in progress has its message, is
\* queued, or is about to be handed one.
Delivered(x) ==
    mailbox[x] # NoMsg => /\ pc[x] \in Receiving
                          /\ pc[x] = "recv_park" => wake_pending[x]
                          /\ pc[x] = "recv_parked" => Up(x)
MailComes(x) ==
    pc[x] \in Receiving => \/ mailbox[x] # NoMsg
                           \/ \E e \in Endpoints : x \in RQ(e)
                           \/ \E u \in Tasks : Targets(u, x)
\* A task is parked only in a call, and a wake-up is remembered only until it parks.
Upright(x) == /\ pc[x] \notin Parked => Up(x)
              /\ wake_pending[x] => pc[x] \in {"recv_park", "send_park"}
Placedness(x) == Lined(x) /\ Hands(x) /\ Delivered(x) /\ MailComes(x) /\ Upright(x)

BlockInv == BlockTypes /\ NoSignals /\ NoneTwice /\ \A x \in Tasks : Placedness(x)

\* Where a task can be.
Phases == Receiving \cup Sending \cup Handing \cup {"user"}

\* What the types say of each variable.
LEMMA Typed ==
    ASSUME BlockTypes
    PROVE  /\ pc = [p \in Procs |-> pc[p]]
           /\ \A t \in Tasks : t \in Procs
           /\ \A t \in Tasks : pc[t] \in Phases
           /\ parked \in [Tasks -> {"no", "Blocked"}] /\ wake_pending \in [Tasks -> BOOLEAN]
           /\ mailbox \in [Tasks -> Msgs \cup {NoMsg}] /\ km \in [Tasks -> Msgs \cup {NoMsg}]
           /\ at = [t \in Tasks |-> at[t]] /\ peer = [t \in Tasks |-> peer[t]]
           /\ cont = [t \in Tasks |-> cont[t]]
           /\ recv_waiters \in [Endpoints -> Seq(Tasks)]
           /\ send_waiters \in [Endpoints -> Seq(Tasks \X Msgs)]
BY ProcsAssumption DEF BlockTypes, Phases, Procs

\* Only tasks are queued.
LEMMA QueuesTyped ==
    ASSUME BlockTypes, NEW e \in Endpoints
    PROVE  RQ(e) \subseteq Tasks /\ SQ(e) \subseteq Tasks
<1>1. recv_waiters[e] \in Seq(Tasks) /\ send_waiters[e] \in Seq(Tasks \X Msgs)
  BY Typed
<1>2. /\ \A k \in 1..Len(recv_waiters[e]) : recv_waiters[e][k] \in Tasks
      /\ \A k \in 1..Len(send_waiters[e]) : send_waiters[e][k] \in Tasks \X Msgs
  BY <1>1
<1> QED BY <1>2 DEF RQ, SQ, Members, Firsts

\* A task the step leaves alone.
Still(y) ==
    /\ pc'[y] = pc[y] /\ at'[y] = at[y] /\ km'[y] = km[y] /\ peer'[y] = peer[y]
    /\ parked'[y] = parked[y] /\ wake_pending'[y] = wake_pending[y] /\ mailbox'[y] = mailbox[y]
    /\ \A e \in Endpoints : (y \in RQ(e)' <=> y \in RQ(e)) /\ (y \in SQ(e)' <=> y \in SQ(e))

\* A step that touches the tasks of A alone, and moves what they are about to
\* wake within A, keeps every other task in its place.
LEMMA OthersKept ==
    ASSUME \A x \in Tasks : Placedness(x), NEW A \in SUBSET Tasks,
           \A y \in Tasks \ A : Still(y),
           \A u \in A, y \in Tasks \ A : Targets(u, y)' <=> Targets(u, y),
           \A z \in A, u \in Tasks \ A : Targets(u, z) =>
              /\ pc[z] \in Receiving => pc'[z] \in Receiving
              /\ pc[z] \in Sending => pc'[z] \in Sending
              /\ Asleep(z)'
              /\ \A v \in A : ~ Targets(v, z)'
    PROVE  \A y \in Tasks \ A : Placedness(y)'
<1> SUFFICES ASSUME NEW y \in Tasks \ A PROVE Placedness(y)'
  OBVIOUS
<1>1. Placedness(y) /\ Still(y)
  OBVIOUS
<1>2. \A u \in Tasks, z \in Tasks \ A : Targets(u, z)' <=> Targets(u, z)
  BY DEF Still, Targets
<1>3. \A z \in Tasks \ A : (Asleep(z)' <=> Asleep(z)) /\ (InLine(z)' <=> InLine(z))
  BY <1>2 DEF Still, Asleep, InLine
<1>4. Lined(y)'
  BY <1>1, <1>3 DEF Placedness, Lined, Still
<1>5. ASSUME pc'[y] \in Handing PROVE Hands(y)'
  <2>1. PICK z \in Tasks : z = peer[y] /\ Asleep(z) /\ \A v \in Tasks : Targets(v, z) => v = y
    BY <1>1, <1>5 DEF Placedness, Still, Hands
  <2>2. /\ pc[y] \in Handing /\ peer'[y] = z /\ km'[y] \in Msgs /\ pc'[y] = pc[y] /\ Targets(y, z)
        /\ pc[y] = "deliver" => pc[z] \in Receiving
        /\ pc[y] = "make_room" => pc[z] \in Sending
    BY <1>1, <1>5, <2>1 DEF Placedness, Still, Hands, Targets
  <2>3. /\ pc[z] \in Receiving => pc'[z] \in Receiving
        /\ pc[z] \in Sending => pc'[z] \in Sending
        /\ Asleep(z)'
        /\ \A v \in Tasks : Targets(v, z)' => v = y
    <3>1. CASE z \in A
      <4>1. \A v \in Tasks \ A : Targets(v, z)' => Targets(v, z)
        BY DEF Still, Targets
      <4> QED BY <2>1, <2>2, <3>1, <4>1
    <3>2. CASE z \notin A
      <4>1. Still(z)
        BY <2>1, <3>2
      <4> QED BY <1>2, <1>3, <2>1, <3>2, <4>1 DEF Still
    <3> QED BY <3>1, <3>2
  <2> QED BY <2>1, <2>2, <2>3 DEF Hands, Asleep, Targets
<1>6. Delivered(y)' /\ Upright(y)'
  BY <1>1 DEF Placedness, Still, Delivered, Upright, Up
<1>7. MailComes(y)'
  BY <1>1, <1>2 DEF Placedness, Still, MailComes
<1>8. Hands(y)'
  BY <1>5 DEF Hands
<1> QED BY <1>4, <1>6, <1>7, <1>8 DEF Placedness

\* The same, for a step of t that concerns x, when no other task is about to
\* wake either.
LEMMA TwoMove ==
    ASSUME \A y \in Tasks : Placedness(y), NEW t \in Tasks, NEW x \in Tasks,
           \A y \in Tasks \ {t, x} : /\ Still(y) /\ ~ Targets(y, t) /\ ~ Targets(y, x)
                                     /\ ~ Targets(t, y) /\ ~ Targets(t, y)'
                                     /\ ~ Targets(x, y) /\ ~ Targets(x, y)'
    PROVE  \A y \in Tasks \ {t, x} : Placedness(y)'
<1> DEFINE A == {t, x}
<1>1. /\ A \in SUBSET Tasks /\ \A y \in Tasks \ A : Still(y)
      /\ \A u \in A, y \in Tasks \ A : Targets(u, y)' <=> Targets(u, y)
      /\ \A z \in A, u \in Tasks \ A : ~ Targets(u, z)
  OBVIOUS
<1> HIDE DEF A
<1>2. \A y \in Tasks \ A : Placedness(y)'
  BY <1>1, OthersKept
<1> QED BY <1>2 DEF A

\* Task t goes on, with what it now carries, and no other moves.
Moves(t, where, e, m, other) ==
    /\ pc' = [pc EXCEPT ![t] = where] /\ at' = [at EXCEPT ![t] = e]
    /\ km' = [km EXCEPT ![t] = m] /\ peer' = [peer EXCEPT ![t] = other]
    /\ cont' = [cont EXCEPT ![t] = IF where \in Handing THEN where ELSE "user"]
    /\ UNCHANGED <<deadline, waiter, owed, notify>>

\* What such a step makes of the call's variables.
LEMMA MovesAlone ==
    ASSUME BlockTypes, NoSignals, NEW t \in Tasks, NEW where \in Phases, NEW e,
           NEW m \in Msgs \cup {NoMsg}, NEW other, Moves(t, where, e, m, other)
    PROVE  /\ pc'[t] = where /\ at'[t] = e /\ km'[t] = m /\ peer'[t] = other
           /\ \A y \in Tasks \ {t} : /\ pc'[y] = pc[y] /\ at'[y] = at[y]
                                     /\ km'[y] = km[y] /\ peer'[y] = peer[y]
           /\ /\ parked' \in [Tasks -> {"no", "Blocked"}]
              /\ wake_pending' \in [Tasks -> BOOLEAN]
              /\ mailbox' \in [Tasks -> Msgs \cup {NoMsg}]
              /\ recv_waiters' \in [Endpoints -> Seq(Tasks)]
              /\ send_waiters' \in [Endpoints -> Seq(Tasks \X Msgs)]
              => BlockTypes'
           /\ NoSignals'
<1>1. /\ pc'[t] = where /\ at'[t] = e /\ km'[t] = m /\ peer'[t] = other
      /\ cont'[t] = IF where \in Handing THEN where ELSE "user"
      /\ \A y \in Tasks \ {t} : /\ pc'[y] = pc[y] /\ at'[y] = at[y] /\ cont'[y] = cont[y]
                                /\ km'[y] = km[y] /\ peer'[y] = peer[y]
  BY Typed DEF Moves
<1>2. pc' = [p \in Procs |-> pc'[p]] /\ \A p \in Lines : pc'[p] = "user"
  BY ProcsAssumption, Typed DEF BlockTypes, Moves, Procs
<1>3. /\ km' \in [Tasks -> Msgs \cup {NoMsg}]
      /\ at' = [u \in Tasks |-> at'[u]] /\ peer' = [u \in Tasks |-> peer'[u]]
      /\ cont' = [u \in Tasks |-> cont'[u]]
  BY Typed DEF Moves
<1>4. \A u \in Tasks : /\ pc'[u] \in Phases
                       /\ cont'[u] = IF pc'[u] \in Handing THEN pc'[u] ELSE "user"
  BY <1>1, Typed DEF BlockTypes
<1>5. NoSignals'
  BY DEF NoSignals, Moves
<1> QED BY <1>1, <1>2, <1>3, <1>4, <1>5 DEF BlockTypes, Phases

\* A call that returns to its caller.
LEMMA LeaveMoves ==
    ASSUME NoSignals, NEW t \in Tasks, Leave(t), UNCHANGED <<waiter, owed, notify>>
    PROVE  Moves(t, "user", NoEndpoint, NoMsg, NoTask)
<1>1. deadline' = deadline
  BY DEF NoSignals, Leave, Return
<1> QED BY <1>1 DEF Leave, Return, Goto, Carry, Moves, Handing

\* Nothing is about to wake a task that is not parked and not going to be.
LEMMA NobodyTargets ==
    ASSUME \A x \in Tasks : Placedness(x), NEW t \in Tasks, pc[t] \in {"user"} \cup Handing
    PROVE  /\ \A u \in Tasks : ~ Targets(u, t)
           /\ \A e \in Endpoints : t \notin RQ(e) /\ t \notin SQ(e)
           /\ mailbox[t] = NoMsg /\ Up(t) /\ ~ wake_pending[t]
BY DEF Placedness, Lined, Hands, Delivered, Upright, Targets, Receiving, Sending, Handing, Parked

\* A task that is outside every queue, at rest, is in its place.
LEMMA AtRest ==
    ASSUME NEW t \in Tasks, pc'[t] = "user", mailbox'[t] = NoMsg, parked'[t] = "no",
           ~ wake_pending'[t], \A e \in Endpoints : t \notin RQ(e)' /\ t \notin SQ(e)'
    PROVE  Placedness(t)'
BY DEF Placedness, Lined, Hands, Delivered, MailComes, Upright, Up, Receiving, Handing

\* A call that ends where it began: refused, or served on the spot.
LEMMA ServedBlocks ==
    ASSUME BlockInv, NEW t \in Tasks, pc[t] = "user", Moves(t, "user", NoEndpoint, NoMsg, NoTask),
           UNCHANGED <<parked, wake_pending, mailbox, recv_waiters, send_waiters>>
    PROVE  BlockInv'
<1>0. BlockTypes /\ NoSignals /\ NoneTwice /\ \A x \in Tasks : Placedness(x)
  BY DEF BlockInv
<1>1. /\ pc'[t] = "user"
      /\ \A y \in Tasks \ {t} : /\ pc'[y] = pc[y] /\ at'[y] = at[y]
                                /\ km'[y] = km[y] /\ peer'[y] = peer[y]
      /\ BlockTypes' /\ NoSignals'
  BY <1>0, MovesAlone, Typed DEF Phases
<1>2. \A e \in Endpoints : RQ(e)' = RQ(e) /\ SQ(e)' = SQ(e)
  BY DEF RQ, SQ
<1>3. /\ \A u \in Tasks : ~ Targets(u, t)
      /\ \A e \in Endpoints : t \notin RQ(e) /\ t \notin SQ(e)
      /\ mailbox[t] = NoMsg /\ Up(t) /\ ~ wake_pending[t]
  BY <1>0, NobodyTargets
<1>4. \A y \in Tasks : ~ Targets(t, y) /\ ~ Targets(t, y)'
  BY <1>1 DEF Targets, Handing
<1>5. \A y \in Tasks \ {t} : Still(y)
  BY <1>1, <1>2 DEF Still
<1>6. \A y \in Tasks \ {t} : Placedness(y)'
  BY <1>0, <1>3, <1>4, <1>5, OthersKept
<1>7. Placedness(t)'
  BY <1>1, <1>2, <1>3, AtRest DEF Up
<1> QED BY <1>0, <1>1, <1>6, <1>7 DEF BlockInv, NoneTwice

\* A send takes the first receiver off its queue, to hand it the message.
LEMMA SendDeliverBlocks ==
    ASSUME BlockInv, NEW t \in Tasks, NEW e \in Endpoints, pc[t] = "user", NEW m \in Msgs,
           NEW x, x = Head(recv_waiters[e]), recv_waiters[e] # <<>>,
           Moves(t, "deliver", NoEndpoint, m, x),
           recv_waiters' = [recv_waiters EXCEPT ![e] = Tail(recv_waiters[e])],
           UNCHANGED <<parked, wake_pending, mailbox, send_waiters>>
    PROVE  BlockInv'
<1>0. BlockTypes /\ NoSignals /\ NoneTwice /\ \A y \in Tasks : Placedness(y)
  BY DEF BlockInv
<1>1. /\ x \in RQ(e) /\ RQ(e)' = RQ(e) \ {x} /\ x \in Tasks
      /\ \A f \in Endpoints : f # e => RQ(f)' = RQ(f)
      /\ \A f \in Endpoints : SQ(f)' = SQ(f)
      /\ recv_waiters' \in [Endpoints -> Seq(Tasks)] /\ NoneTwice'
  <2> DEFINE q == recv_waiters[e]
  <2>0. q \in Seq(Tasks) /\ Distinct(q)
    BY <1>0, Typed DEF NoneTwice
  <2>1. x \in Members(q) /\ Members(Tail(q)) = Members(q) \ {x} /\ Distinct(Tail(q))
    BY <2>0, Dequeued
  <2>2. recv_waiters'[e] = Tail(q) /\ \A f \in Endpoints : f # e => recv_waiters'[f] = recv_waiters[f]
    BY <1>0, Typed
  <2>3. Tail(q) \in Seq(Tasks) /\ x \in Tasks
    BY <2>0
  <2>4. recv_waiters' \in [Endpoints -> Seq(Tasks)]
    BY <1>0, <2>3, Typed
  <2> QED BY <1>0, <2>1, <2>2, <2>3, <2>4 DEF RQ, SQ, NoneTwice
<1>2. /\ pc'[t] = "deliver" /\ km'[t] = m /\ peer'[t] = x
      /\ \A y \in Tasks \ {t} : /\ pc'[y] = pc[y] /\ at'[y] = at[y]
                                /\ km'[y] = km[y] /\ peer'[y] = peer[y]
      /\ BlockTypes' /\ NoSignals'
  <2>1. "deliver" \in Phases /\ m \in Msgs \cup {NoMsg}
    BY DEF Phases, Handing
  <2> QED BY <1>0, <1>1, <2>1, MovesAlone, Typed
<1>3. /\ \A u \in Tasks : ~ Targets(u, t)
      /\ \A f \in Endpoints : t \notin RQ(f) /\ t \notin SQ(f)
      /\ mailbox[t] = NoMsg /\ Up(t) /\ ~ wake_pending[t]
  BY <1>0, NobodyTargets
<1>4. /\ pc[x] \in Receiving /\ InLine(x) /\ x # t /\ Delivered(x) /\ Upright(x)
      /\ \A f \in Endpoints : (x \in RQ(f) => f = e) /\ x \notin SQ(f)
  BY <1>0, <1>1 DEF Placedness, Lined, Receiving, Sending
<1>5. /\ \A y \in Tasks : ~ Targets(t, y) /\ ~ Targets(x, y) /\ ~ Targets(x, y)'
      /\ \A y \in Tasks : Targets(t, y)' <=> y = x
      /\ \A u \in Tasks \ {t} : ~ Targets(u, x)'
  BY <1>1, <1>2, <1>4 DEF Targets, InLine, Handing, Receiving
<1>6. \A y \in Tasks \ {t, x} : Still(y)
  BY <1>1, <1>2 DEF Still
<1>7. \A y \in Tasks \ {t, x} : Placedness(y)'
  <2>1. \A u \in Tasks \ {t, x} : ~ Targets(u, t) /\ ~ Targets(u, x)
    BY <1>3, <1>4 DEF InLine
  <2> QED BY <1>0, <1>1, <1>5, <1>6, <2>1, TwoMove
<1>8. Placedness(x)'
  <2>1. Asleep(x)' /\ pc'[x] \in Receiving
    BY <1>1, <1>2, <1>4 DEF Asleep, InLine
  <2>2. \A f \in Endpoints : x \notin RQ(f)' /\ x \notin SQ(f)'
    BY <1>1, <1>4
  <2> QED BY <1>1, <1>2, <1>4, <1>5, <2>1, <2>2
          DEF Placedness, Lined, Hands, Delivered, MailComes, Upright, Up, Receiving, Handing
<1>9. Placedness(t)'
  <2>1. Asleep(x)' /\ pc'[x] \in Receiving
    BY <1>1, <1>2, <1>4 DEF Asleep, InLine
  <2>2. Hands(t)'
    BY <1>1, <1>2, <1>5, <2>1 DEF Hands, Asleep, Targets, Handing
  <2>3. Lined(t)'
    BY <1>1, <1>3 DEF Lined
  <2> QED BY <1>2, <1>3, <2>2, <2>3 DEF Placedness, Delivered, MailComes, Upright, Up, Parked, Receiving
<1> QED BY <1>1, <1>2, <1>7, <1>8, <1>9 DEF BlockInv

\* A receive takes the first blocked sender off its queue, to wake it.
LEMMA WakeSenderBlocks ==
    ASSUME BlockInv, NEW t \in Tasks, NEW e \in Endpoints, pc[t] = "user", NEW m \in Msgs,
           NEW x, x = Head(send_waiters[e])[1], send_waiters[e] # <<>>,
           Moves(t, "make_room", NoEndpoint, m, x),
           send_waiters' = [send_waiters EXCEPT ![e] = Tail(send_waiters[e])],
           UNCHANGED <<parked, wake_pending, mailbox, recv_waiters>>
    PROVE  BlockInv'
<1>0. BlockTypes /\ NoSignals /\ NoneTwice /\ \A y \in Tasks : Placedness(y)
  BY DEF BlockInv
<1>1. /\ x \in SQ(e) /\ SQ(e)' = SQ(e) \ {x} /\ x \in Tasks
      /\ \A f \in Endpoints : f # e => SQ(f)' = SQ(f)
      /\ \A f \in Endpoints : RQ(f)' = RQ(f)
      /\ send_waiters' \in [Endpoints -> Seq(Tasks \X Msgs)] /\ NoneTwice'
  <2> DEFINE q == send_waiters[e]
  <2>0. q \in Seq(Tasks \X Msgs) /\ DistinctFirsts(q)
    BY <1>0, Typed DEF NoneTwice
  <2>1. x \in Firsts(q) /\ Firsts(Tail(q)) = Firsts(q) \ {x} /\ DistinctFirsts(Tail(q))
    BY <2>0, DequeuedFirst
  <2>2. send_waiters'[e] = Tail(q) /\ \A f \in Endpoints : f # e => send_waiters'[f] = send_waiters[f]
    BY <1>0, Typed
  <2>3. Tail(q) \in Seq(Tasks \X Msgs) /\ Head(q) \in Tasks \X Msgs
    BY <2>0
  <2>4. send_waiters' \in [Endpoints -> Seq(Tasks \X Msgs)]
    BY <1>0, <2>3, Typed
  <2> QED BY <1>0, <2>1, <2>2, <2>3, <2>4 DEF RQ, SQ, NoneTwice
<1>2. /\ pc'[t] = "make_room" /\ km'[t] = m /\ peer'[t] = x
      /\ \A y \in Tasks \ {t} : /\ pc'[y] = pc[y] /\ at'[y] = at[y]
                                /\ km'[y] = km[y] /\ peer'[y] = peer[y]
      /\ BlockTypes' /\ NoSignals'
  <2>1. "make_room" \in Phases /\ m \in Msgs \cup {NoMsg}
    BY DEF Phases, Handing
  <2>2. /\ parked' \in [Tasks -> {"no", "Blocked"}] /\ wake_pending' \in [Tasks -> BOOLEAN]
        /\ mailbox' \in [Tasks -> Msgs \cup {NoMsg}]
        /\ recv_waiters' \in [Endpoints -> Seq(Tasks)]
        /\ send_waiters' \in [Endpoints -> Seq(Tasks \X Msgs)]
    BY <1>0, <1>1, Typed
  <2>3. BlockTypes /\ NoSignals /\ t \in Tasks /\ Moves(t, "make_room", NoEndpoint, m, x)
    BY <1>0
  <2>4. /\ pc'[t] = "make_room" /\ km'[t] = m /\ peer'[t] = x
        /\ \A y \in Tasks \ {t} : /\ pc'[y] = pc[y] /\ at'[y] = at[y]
                                  /\ km'[y] = km[y] /\ peer'[y] = peer[y]
    BY <2>1, <2>3, MovesAlone
  <2>5. BlockTypes' /\ NoSignals'
    BY <2>1, <2>2, <2>3, MovesAlone, Zenon
  <2> QED BY <2>4, <2>5
<1>3. /\ \A u \in Tasks : ~ Targets(u, t)
      /\ \A f \in Endpoints : t \notin RQ(f) /\ t \notin SQ(f)
      /\ mailbox[t] = NoMsg /\ Up(t) /\ ~ wake_pending[t]
  BY <1>0, NobodyTargets
<1>4. /\ pc[x] \in Sending /\ InLine(x) /\ x # t /\ Delivered(x) /\ Upright(x)
      /\ \A f \in Endpoints : (x \in SQ(f) => f = e) /\ x \notin RQ(f)
  BY <1>0, <1>1 DEF Placedness, Lined, Receiving, Sending
<1>5. /\ \A y \in Tasks : ~ Targets(t, y) /\ ~ Targets(x, y) /\ ~ Targets(x, y)'
      /\ \A y \in Tasks : Targets(t, y)' <=> y = x
      /\ \A u \in Tasks \ {t} : ~ Targets(u, x)'
  BY <1>1, <1>2, <1>4 DEF Targets, InLine, Handing, Sending
<1>6. \A y \in Tasks \ {t, x} : Still(y)
  BY <1>1, <1>2 DEF Still
<1>7. \A y \in Tasks \ {t, x} : Placedness(y)'
  <2>1. \A u \in Tasks \ {t, x} : ~ Targets(u, t) /\ ~ Targets(u, x)
    BY <1>3, <1>4 DEF InLine
  <2> QED BY <1>0, <1>1, <1>5, <1>6, <2>1, TwoMove
<1>8. Placedness(x)'
  <2>1. Asleep(x)' /\ pc'[x] \in Sending
    BY <1>1, <1>2, <1>4 DEF Asleep, InLine
  <2>2. \A f \in Endpoints : x \notin RQ(f)' /\ x \notin SQ(f)'
    BY <1>1, <1>4
  <2> QED BY <1>1, <1>2, <1>4, <1>5, <2>1, <2>2
          DEF Placedness, Lined, Hands, Delivered, MailComes, Upright, Up, Receiving, Sending, Handing
<1>9. Placedness(t)'
  <2>1. Asleep(x)' /\ pc'[x] \in Sending
    BY <1>1, <1>2, <1>4 DEF Asleep, InLine
  <2>2. Hands(t)'
    BY <1>1, <1>2, <1>5, <2>1 DEF Hands, Asleep, Targets, Handing
  <2>3. Lined(t)'
    BY <1>1, <1>3 DEF Lined
  <2> QED BY <1>2, <1>3, <2>2, <2>3 DEF Placedness, Delivered, MailComes, Upright, Up, Parked, Receiving
<1> QED BY <1>1, <1>2, <1>7, <1>8, <1>9 DEF BlockInv

\* A task joins the end of a queue: a receiver's, or a sender's.
LEMMA QueuesUp ==
    ASSUME BlockInv, NEW t \in Tasks, NEW e \in Endpoints, pc[t] = "user",
           NEW where \in {"recv_park", "send_park"},
           NEW place, place = e \/ where = "send_park", Moves(t, where, place, km[t], peer[t]),
           where = "recv_park" =>
              /\ recv_waiters' = [recv_waiters EXCEPT ![e] = Append(recv_waiters[e], t)]
              /\ UNCHANGED send_waiters,
           where = "send_park" =>
              /\ \E m \in Msgs : send_waiters' =
                    [send_waiters EXCEPT ![e] = Append(send_waiters[e], <<t, m>>)]
              /\ UNCHANGED recv_waiters,
           UNCHANGED <<parked, wake_pending, mailbox>>
    PROVE  BlockInv'
<1>0. BlockTypes /\ NoSignals /\ NoneTwice /\ \A y \in Tasks : Placedness(y)
  BY DEF BlockInv
<1>1. /\ \A u \in Tasks : ~ Targets(u, t)
      /\ \A f \in Endpoints : t \notin RQ(f) /\ t \notin SQ(f)
      /\ mailbox[t] = NoMsg /\ Up(t) /\ ~ wake_pending[t]
  BY <1>0, NobodyTargets
<1>2. /\ RQ(e)' = (IF where = "recv_park" THEN RQ(e) \cup {t} ELSE RQ(e))
      /\ SQ(e)' = (IF where = "send_park" THEN SQ(e) \cup {t} ELSE SQ(e))
      /\ \A f \in Endpoints : f # e => RQ(f)' = RQ(f) /\ SQ(f)' = SQ(f)
      /\ recv_waiters' \in [Endpoints -> Seq(Tasks)]
      /\ send_waiters' \in [Endpoints -> Seq(Tasks \X Msgs)]
      /\ NoneTwice'
  <2>0. /\ recv_waiters[e] \in Seq(Tasks) /\ Distinct(recv_waiters[e])
        /\ send_waiters[e] \in Seq(Tasks \X Msgs) /\ DistinctFirsts(send_waiters[e])
    BY <1>0, Typed DEF NoneTwice
  <2>1. CASE where = "recv_park"
    <3>1. /\ Members(Append(recv_waiters[e], t)) = Members(recv_waiters[e]) \cup {t}
          /\ Distinct(Append(recv_waiters[e], t)) /\ Append(recv_waiters[e], t) \in Seq(Tasks)
      BY <1>1, <2>0, Enqueued DEF RQ
    <3>2. /\ recv_waiters'[e] = Append(recv_waiters[e], t)
          /\ \A f \in Endpoints : f # e => recv_waiters'[f] = recv_waiters[f]
          /\ recv_waiters' \in [Endpoints -> Seq(Tasks)] /\ send_waiters' = send_waiters
      BY <1>0, <2>1, <3>1, Typed
    <3> QED BY <1>0, <2>1, <3>1, <3>2, Typed DEF RQ, SQ, NoneTwice
  <2>2. CASE where = "send_park"
    <3>0. PICK m \in Msgs : send_waiters' =
                  [send_waiters EXCEPT ![e] = Append(send_waiters[e], <<t, m>>)]
      BY <2>2
    <3>1. /\ Firsts(Append(send_waiters[e], <<t, m>>)) = Firsts(send_waiters[e]) \cup {t}
          /\ DistinctFirsts(Append(send_waiters[e], <<t, m>>))
          /\ Append(send_waiters[e], <<t, m>>) \in Seq(Tasks \X Msgs)
      <4>1. <<t, m>> \in Tasks \X Msgs /\ <<t, m>>[1] = t
        OBVIOUS
      <4> QED BY <1>1, <2>0, <4>1, EnqueuedFirst DEF SQ
    <3>2. /\ send_waiters'[e] = Append(send_waiters[e], <<t, m>>)
          /\ \A f \in Endpoints : f # e => send_waiters'[f] = send_waiters[f]
          /\ send_waiters' \in [Endpoints -> Seq(Tasks \X Msgs)] /\ recv_waiters' = recv_waiters
      BY <1>0, <2>2, <3>0, <3>1, Typed
    <3> QED BY <1>0, <2>2, <3>1, <3>2, Typed DEF RQ, SQ, NoneTwice
  <2> QED BY <2>1, <2>2
<1>3. /\ pc'[t] = where /\ at'[t] = place
      /\ \A y \in Tasks \ {t} : /\ pc'[y] = pc[y] /\ at'[y] = at[y]
                                /\ km'[y] = km[y] /\ peer'[y] = peer[y]
      /\ BlockTypes' /\ NoSignals'
  <2>1. km[t] \in Msgs \cup {NoMsg} /\ where \in Phases
    BY <1>0, Typed DEF Phases, Receiving, Sending
  <2>2. /\ parked' \in [Tasks -> {"no", "Blocked"}] /\ wake_pending' \in [Tasks -> BOOLEAN]
        /\ mailbox' \in [Tasks -> Msgs \cup {NoMsg}]
    BY <1>0, Typed
  <2>3. BlockTypes' /\ NoSignals'
    BY <1>0, <1>2, <2>1, <2>2, MovesAlone, Zenon
  <2>4. /\ pc'[t] = where /\ at'[t] = place
        /\ \A y \in Tasks \ {t} : /\ pc'[y] = pc[y] /\ at'[y] = at[y]
                                  /\ km'[y] = km[y] /\ peer'[y] = peer[y]
    BY <1>0, <2>1, MovesAlone
  <2> QED BY <2>3, <2>4
<1>4. \A y \in Tasks : ~ Targets(t, y) /\ ~ Targets(t, y)'
  BY <1>3 DEF Targets, Handing
<1>5. \A y \in Tasks \ {t} : Still(y)
  BY <1>2, <1>3 DEF Still
<1>6. \A y \in Tasks \ {t} : Placedness(y)'
  BY <1>0, <1>1, <1>4, <1>5, TwoMove
<1>7. Placedness(t)'
  <2>1. InLine(t)'
    <3>1. \A u \in Tasks : ~ Targets(u, t)'
      BY <1>1, <1>3, <1>4 DEF Targets
    <3> QED BY <1>1, <1>3, <3>1 DEF InLine, Asleep, Parked
  <2>2. Lined(t)'
    <3>1. \A f \in Endpoints : t \in RQ(f)' => f = e /\ where = "recv_park"
      BY <1>1, <1>2
    <3>2. \A f \in Endpoints : t \in SQ(f)' => f = e /\ where = "send_park"
      BY <1>1, <1>2
    <3> QED BY <1>3, <2>1, <3>1, <3>2 DEF Lined, Receiving, Sending
  <2>3. MailComes(t)'
    BY <1>2, <1>3 DEF MailComes, Receiving
  <2> QED BY <1>1, <1>3, <2>2, <2>3 DEF Placedness, Hands, Delivered, Upright, Up, Handing
<1> QED BY <1>2, <1>3, <1>6, <1>7 DEF BlockInv

\* The queues stay as they are.
LEMMA SameQueues ==
    ASSUME UNCHANGED <<recv_waiters, send_waiters>>
    PROVE  /\ \A e \in Endpoints : RQ(e)' = RQ(e) /\ SQ(e)' = SQ(e)
           /\ NoneTwice => NoneTwice'
BY DEF RQ, SQ, NoneTwice

\* Task t wakes the task it was to hand to, with a message or with room.
LEMMA WakesBlocks ==
    ASSUME BlockInv, NEW t \in Tasks, pc[t] \in Handing, NEW x, x = peer[t],
           Moves(t, "user", NoEndpoint, NoMsg, NoTask),
           NEW counted, "Blocked" \in counted, "no" \notin counted, wake_if(x, counted),
           pc[t] = "deliver" => mailbox' = [mailbox EXCEPT ![x] = km[t]],
           pc[t] = "make_room" => mailbox' = mailbox,
           UNCHANGED <<recv_waiters, send_waiters>>
    PROVE  BlockInv'
<1>0. BlockTypes /\ NoSignals /\ NoneTwice /\ \A y \in Tasks : Placedness(y)
  BY DEF BlockInv
<1>1. /\ x \in Tasks /\ km[t] \in Msgs /\ Asleep(x) /\ \A v \in Tasks : Targets(v, x) <=> v = t
      /\ pc[t] = "deliver" => pc[x] \in Receiving
      /\ pc[t] = "make_room" => pc[x] \in Sending
      /\ Upright(x) /\ Lined(x)
  BY <1>0 DEF Placedness, Hands, Targets
<1>2. /\ x # t /\ pc[x] \notin Handing
      /\ \A e \in Endpoints : x \notin RQ(e) /\ x \notin SQ(e)
  BY <1>1 DEF Lined, InLine, Receiving, Sending, Handing
<1>3. /\ parked'[x] = "no" /\ parked' \in [Tasks -> {"no", "Blocked"}]
      /\ \A y \in Tasks \ {x} : parked'[y] = parked[y] /\ wake_pending'[y] = wake_pending[y]
  BY <1>0, <1>1, Typed DEF wake_if
<1>4. /\ wake_pending' \in [Tasks -> BOOLEAN]
      /\ wake_pending'[x] <=> pc[x] \notin Parked
  <2>1. parked[x] \in counted <=> pc[x] \in Parked
    BY <1>1 DEF Upright, Up, Asleep
  <2>2. ~ wake_pending[x]
    BY <1>1 DEF Asleep
  <2> QED BY <1>0, <1>1, <2>1, <2>2, Typed DEF wake_if
<1>5. /\ mailbox' \in [Tasks -> Msgs \cup {NoMsg}]
      /\ mailbox'[x] = IF pc[t] = "deliver" THEN km[t] ELSE NoMsg
      /\ \A y \in Tasks \ {x} : mailbox'[y] = mailbox[y]
  BY <1>0, <1>1, Typed DEF Handing, Asleep
<1>6. /\ pc'[t] = "user"
      /\ \A y \in Tasks \ {t} : /\ pc'[y] = pc[y] /\ at'[y] = at[y]
                                /\ km'[y] = km[y] /\ peer'[y] = peer[y]
      /\ BlockTypes' /\ NoSignals'
  <2>1. "user" \in Phases /\ NoMsg \in Msgs \cup {NoMsg}
    BY DEF Phases
  <2>2. /\ recv_waiters' \in [Endpoints -> Seq(Tasks)]
        /\ send_waiters' \in [Endpoints -> Seq(Tasks \X Msgs)]
    BY <1>0, Typed
  <2> QED BY <1>0, <1>3, <1>4, <1>5, <2>1, <2>2, MovesAlone
<1>7. /\ \A e \in Endpoints : RQ(e)' = RQ(e) /\ SQ(e)' = SQ(e)
      /\ NoneTwice'
  BY <1>0, SameQueues
<1>8. \A y \in Tasks \ {t, x} : Still(y)
  BY <1>3, <1>4, <1>5, <1>6, <1>7 DEF Still
<1>9. /\ \A u \in Tasks : ~ Targets(u, t)
      /\ \A e \in Endpoints : t \notin RQ(e) /\ t \notin SQ(e)
      /\ mailbox[t] = NoMsg /\ Up(t) /\ ~ wake_pending[t]
  BY <1>0, NobodyTargets
<1>10. \A y \in Tasks \ {t, x} : Placedness(y)'
  <2>1. \A y \in Tasks \ {t, x} : /\ ~ Targets(y, t) /\ ~ Targets(y, x)
                                  /\ ~ Targets(t, y) /\ ~ Targets(t, y)'
                                  /\ ~ Targets(x, y) /\ ~ Targets(x, y)'
    BY <1>1, <1>2, <1>6, <1>9 DEF Targets, Handing
  <2> QED BY <1>0, <1>1, <1>8, <2>1, TwoMove
<1>11. Placedness(t)'
  BY <1>2, <1>3, <1>4, <1>5, <1>6, <1>7, <1>9, AtRest DEF Up
<1>12. Placedness(x)'
  <2>1. pc'[x] = pc[x] /\ \A e \in Endpoints : x \notin RQ(e)' /\ x \notin SQ(e)'
    BY <1>1, <1>2, <1>6, <1>7
  <2>2. Lined(x)' /\ Hands(x)'
    BY <1>2, <2>1 DEF Lined, Hands
  <2>3. Upright(x)' /\ Delivered(x)'
    BY <1>1, <1>3, <1>4, <1>5, <2>1
       DEF Upright, Up, Delivered, Receiving, Sending, Parked, Handing
  <2>4. MailComes(x)'
    <3>1. km[t] # NoMsg
      BY <1>1, IpcAssumption DEF Msgs, NoMsg
    <3> QED BY <1>1, <1>5, <2>1, <3>1 DEF MailComes, Handing, Receiving, Sending
  <2> QED BY <2>2, <2>3, <2>4 DEF Placedness
<1> QED BY <1>6, <1>7, <1>10, <1>11, <1>12 DEF BlockInv

\* Task t parks, unless it has been woken already.
LEMMA ParksBlocks ==
    ASSUME BlockInv, NEW t \in Tasks,
           \/ pc[t] = "recv_park" /\ Goto(t, "recv_parked")
           \/ pc[t] = "send_park" /\ Goto(t, "send_parked"),
           park(t, "Blocked"),
           UNCHANGED <<at, km, peer, cont, deadline, waiter, owed, notify,
                       mailbox, recv_waiters, send_waiters>>
    PROVE  BlockInv'
<1>0. BlockTypes /\ NoSignals /\ NoneTwice /\ \A y \in Tasks : Placedness(y)
  BY DEF BlockInv
<1>1. PICK where \in Parked : /\ Goto(t, where)
                              /\ pc[t] \in Receiving <=> where \in Receiving
                              /\ pc[t] \in Sending <=> where \in Sending
  BY DEF Parked, Receiving, Sending
<1>2. pc[t] \in {"recv_park", "send_park"}
  OBVIOUS
<1>3. Moves(t, where, at[t], km[t], peer[t])
  <2>1. /\ at' = [at EXCEPT ![t] = at[t]] /\ km' = [km EXCEPT ![t] = km[t]]
        /\ peer' = [peer EXCEPT ![t] = peer[t]]
    BY <1>0, Typed
  <2>2. where \notin Handing /\ cont[t] = "user"
    BY <1>0, <1>2 DEF BlockTypes, Parked, Handing
  <2>3. cont' = [cont EXCEPT ![t] = "user"]
    BY <1>0, <2>2, Typed
  <2> QED BY <1>1, <2>1, <2>2, <2>3 DEF Moves, Goto
<1>4. /\ parked' \in [Tasks -> {"no", "Blocked"}] /\ wake_pending' \in [Tasks -> BOOLEAN]
      /\ ~ wake_pending'[t]
      /\ wake_pending[t] => parked'[t] = "no"
      /\ ~ wake_pending[t] => parked'[t] = "Blocked"
      /\ \A y \in Tasks \ {t} : parked'[y] = parked[y] /\ wake_pending'[y] = wake_pending[y]
  BY <1>0, Typed DEF park, Up
<1>5. /\ pc'[t] = where /\ at'[t] = at[t]
      /\ \A y \in Tasks \ {t} : /\ pc'[y] = pc[y] /\ at'[y] = at[y]
                                /\ km'[y] = km[y] /\ peer'[y] = peer[y]
      /\ BlockTypes' /\ NoSignals'
  <2>1. where \in Phases /\ km[t] \in Msgs \cup {NoMsg}
    BY <1>0, Typed DEF Phases, Parked, Receiving, Sending
  <2>2. /\ recv_waiters' \in [Endpoints -> Seq(Tasks)] /\ mailbox' \in [Tasks -> Msgs \cup {NoMsg}]
        /\ send_waiters' \in [Endpoints -> Seq(Tasks \X Msgs)]
    BY <1>0, Typed
  <2> QED BY <1>0, <1>3, <1>4, <2>1, <2>2, MovesAlone
<1>6. /\ \A e \in Endpoints : RQ(e)' = RQ(e) /\ SQ(e)' = SQ(e)
      /\ NoneTwice'
  BY <1>0, SameQueues
<1>7. \A y \in Tasks \ {t} : Still(y)
  BY <1>4, <1>5, <1>6 DEF Still
<1>8. Asleep(t) => Asleep(t)'
  BY <1>4, <1>5 DEF Asleep
<1>9. /\ \A y \in Tasks : ~ Targets(t, y) /\ ~ Targets(t, y)'
      /\ \A u \in Tasks : Targets(u, t)' <=> Targets(u, t)
  <2>1. where \notin Handing /\ pc[t] \notin Handing
    BY <1>2 DEF Parked, Handing
  <2> QED BY <1>5, <2>1 DEF Targets
<1>10. \A u \in Tasks : Targets(u, t) => Asleep(t)
  BY <1>0 DEF Placedness, Hands, Targets
<1>11. \A y \in Tasks \ {t} : Placedness(y)'
  <2> DEFINE A == {t}
  <2>1. /\ A \in SUBSET Tasks /\ \A y \in Tasks \ A : Still(y)
        /\ \A u \in A, y \in Tasks \ A : Targets(u, y)' <=> Targets(u, y)
    BY <1>7, <1>9
  <2>2. \A z \in A, u \in Tasks \ A : Targets(u, z) =>
              /\ pc[z] \in Receiving => pc'[z] \in Receiving
              /\ pc[z] \in Sending => pc'[z] \in Sending
              /\ Asleep(z)'
              /\ \A v \in A : ~ Targets(v, z)'
    BY <1>1, <1>5, <1>8, <1>9, <1>10
  <2> HIDE DEF A
  <2>3. \A y \in Tasks \ A : Placedness(y)'
    BY <1>0, <2>1, <2>2, OthersKept
  <2> QED BY <2>3 DEF A
<1>12. Placedness(t)'
  <2>0. Placedness(t)
    BY <1>0
  <2>1. InLine(t) => InLine(t)'
    BY <1>8, <1>9 DEF InLine
  <2>2. Lined(t)'
    BY <1>1, <1>5, <1>6, <2>0, <2>1 DEF Placedness, Lined
  <2>3. Hands(t)'
    BY <1>5, <1>2 DEF Hands, Parked, Handing
  <2>4. Delivered(t)'
    BY <1>1, <1>2, <1>4, <1>5, <2>0 DEF Placedness, Delivered, Up, Receiving, Parked
  <2>5. MailComes(t)'
    BY <1>1, <1>5, <1>6, <1>9, <2>0 DEF Placedness, MailComes
  <2>6. Upright(t)'
    BY <1>4, <1>5 DEF Upright
  <2> QED BY <2>2, <2>3, <2>4, <2>5, <2>6 DEF Placedness
<1> QED BY <1>5, <1>6, <1>11, <1>12 DEF BlockInv

\* Task t is back from its park, and returns with what its mailbox held.
LEMMA ResumesBlocks ==
    ASSUME BlockInv, NEW t \in Tasks, pc[t] \in Parked, Up(t),
           Moves(t, "user", NoEndpoint, NoMsg, NoTask),
           mailbox' = [mailbox EXCEPT ![t] = NoMsg],
           UNCHANGED <<parked, wake_pending, recv_waiters, send_waiters>>
    PROVE  BlockInv'
<1>0. BlockTypes /\ NoSignals /\ NoneTwice /\ \A y \in Tasks : Placedness(y)
  BY DEF BlockInv
<1>1. /\ ~ Asleep(t) /\ \A u \in Tasks : ~ Targets(u, t)
      /\ \A e \in Endpoints : t \notin RQ(e) /\ t \notin SQ(e)
      /\ ~ wake_pending[t]
  <2>1. ~ Asleep(t)
    BY DEF Asleep, Up
  <2> QED BY <1>0, <2>1 DEF Placedness, Lined, InLine, Hands, Targets, Upright, Parked
<1>2. /\ mailbox' \in [Tasks -> Msgs \cup {NoMsg}] /\ mailbox'[t] = NoMsg
      /\ \A y \in Tasks \ {t} : mailbox'[y] = mailbox[y]
  BY <1>0, Typed
<1>3. /\ pc'[t] = "user"
      /\ \A y \in Tasks \ {t} : /\ pc'[y] = pc[y] /\ at'[y] = at[y]
                                /\ km'[y] = km[y] /\ peer'[y] = peer[y]
      /\ BlockTypes' /\ NoSignals'
  <2>1. "user" \in Phases /\ NoMsg \in Msgs \cup {NoMsg}
    BY DEF Phases
  <2>2. /\ recv_waiters' \in [Endpoints -> Seq(Tasks)]
        /\ send_waiters' \in [Endpoints -> Seq(Tasks \X Msgs)]
        /\ parked' \in [Tasks -> {"no", "Blocked"}] /\ wake_pending' \in [Tasks -> BOOLEAN]
    BY <1>0, Typed
  <2> QED BY <1>0, <1>2, <2>1, <2>2, MovesAlone
<1>4. /\ \A e \in Endpoints : RQ(e)' = RQ(e) /\ SQ(e)' = SQ(e)
      /\ NoneTwice'
  BY <1>0, SameQueues
<1>5. \A y \in Tasks \ {t} : Still(y)
  BY <1>2, <1>3, <1>4 DEF Still
<1>6. \A y \in Tasks : ~ Targets(t, y) /\ ~ Targets(t, y)'
  BY <1>3 DEF Targets, Handing, Parked
<1>7. \A y \in Tasks \ {t} : Placedness(y)'
  BY <1>0, <1>1, <1>5, <1>6, TwoMove
<1>8. Placedness(t)'
  BY <1>1, <1>2, <1>3, <1>4, AtRest DEF Up
<1> QED BY <1>3, <1>4, <1>7, <1>8 DEF BlockInv

\* With no notification bound, a call that placed a message goes straight on.
LEMMA PlacedMoves ==
    ASSUME NoSignals, NEW t \in Tasks, NEW e \in Endpoints, NEW m, NEW other,
           NEW next \in Handing \cup {"user"}, Placed(t, m, other, notify[e], next),
           UNCHANGED <<waiter, owed, notify>>
    PROVE  /\ next = "user" => Moves(t, "user", NoEndpoint, NoMsg, NoTask)
           /\ next # "user" => Moves(t, next, NoEndpoint, m, other)
<1>1. notify[e] = NoNotif
  BY DEF NoSignals
<1>2. CASE next = "user"
  <2>1. Leave(t)
    BY <1>1, <1>2 DEF Placed
  <2> QED BY <1>2, <2>1, LeaveMoves
<1>3. CASE next # "user"
  <2>1. Goto(t, next) /\ Carry(t, NoEndpoint, m, other, notify[e], next) /\ UNCHANGED deadline
    BY <1>1, <1>3 DEF Placed
  <2>2. next \in Handing
    BY <1>3
  <2> QED BY <1>3, <2>1, <2>2 DEF Goto, Carry, Moves
<1> QED BY <1>2, <1>3

\* What a send and a receive do when no notification is bound: hand over,
\* buffer, queue up, or end at once.
Ends(t) == Moves(t, "user", NoEndpoint, NoMsg, NoTask)
HandsOver(t, e, m) ==
    /\ recv_waiters[e] # <<>> /\ Moves(t, "deliver", NoEndpoint, m, Head(recv_waiters[e]))
    /\ recv_waiters' = [recv_waiters EXCEPT ![e] = Tail(recv_waiters[e])]
    /\ UNCHANGED <<ring, send_waiters>>
Buffers(t, e, m) ==
    /\ recv_waiters[e] = <<>> /\ Len(ring[e]) < RING_CAP /\ Ends(t)
    /\ ring' = [ring EXCEPT ![e] = Append(ring[e], m)]
    /\ UNCHANGED <<recv_waiters, send_waiters>>
SendsLater(t, e, m) ==
    /\ Moves(t, "send_park", at[t], km[t], peer[t])
    /\ send_waiters' = [send_waiters EXCEPT ![e] = Append(send_waiters[e], <<t, m>>)]
    /\ UNCHANGED <<ring, recv_waiters>>
Takes(t, e) ==
    /\ ring[e] # <<>> /\ send_waiters[e] = <<>> /\ Ends(t)
    /\ ring' = [ring EXCEPT ![e] = Tail(ring[e])]
    /\ result' = [result EXCEPT ![t] = Head(ring[e])]
    /\ UNCHANGED <<recv_waiters, send_waiters>>
TakesAndWakes(t, e) ==
    /\ ring[e] # <<>> /\ send_waiters[e] # <<>> /\ Head(ring[e]) \in Msgs
    /\ Moves(t, "make_room", NoEndpoint, Head(ring[e]), Head(send_waiters[e])[1])
    /\ ring' = [ring EXCEPT ![e] = Append(Tail(ring[e]), Head(send_waiters[e])[2])]
    /\ send_waiters' = [send_waiters EXCEPT ![e] = Tail(send_waiters[e])]
    /\ UNCHANGED <<recv_waiters, result>>
ReceivesLater(t, e) ==
    /\ Moves(t, "recv_park", e, km[t], peer[t])
    /\ recv_waiters' = [recv_waiters EXCEPT ![e] = Append(recv_waiters[e], t)]
    /\ UNCHANGED <<ring, send_waiters, result>>
TurnedAway(t) ==
    /\ Ends(t) /\ result' = [result EXCEPT ![t] = Failed]
    /\ UNCHANGED <<ring, recv_waiters, send_waiters>>

\* A send is one of those steps.
LEMMA SendSteps ==
    ASSUME BlockInv, QueueInv, NEW t \in Tasks, NEW e \in Endpoints, NEW b \in BOOLEAN,
           Send(t, e, b)
    PROVE  /\ pc[t] = "user" /\ UNCHANGED <<parked, wake_pending, mailbox, result>>
           /\ \E m \in Msgs :
                 \/ HandsOver(t, e, m) \/ Buffers(t, e, m) \/ SendsLater(t, e, m)
                 \/ Ends(t) /\ UNCHANGED <<ring, recv_waiters, send_waiters>>
<1> DEFINE m == sends + 1
<1>0. /\ BlockTypes /\ NoSignals /\ pc[t] = "user"
      /\ UNCHANGED <<parked, wake_pending, waiter, owed, notify, mailbox, result>>
  BY DEF BlockInv, Send, parkVars
<1>1. m \in Msgs
  BY IpcAssumption DEF QueueInv, Send, Msgs
<1> HIDE DEF m
<1>2. CASE SendDeliver(t, e, m)
  <2>1. /\ recv_waiters[e] # <<>> /\ UNCHANGED <<ring, send_waiters>>
        /\ recv_waiters' = [recv_waiters EXCEPT ![e] = Tail(recv_waiters[e])]
        /\ Placed(t, m, Head(recv_waiters[e]), notify[e], "deliver")
    BY <1>2 DEF SendDeliver, receiver_waits
  <2>2. "deliver" \in Handing \cup {"user"} /\ "deliver" # "user"
    BY DEF Handing
  <2>3. Moves(t, "deliver", NoEndpoint, m, Head(recv_waiters[e]))
    BY <1>0, <2>1, <2>2, PlacedMoves
  <2> QED BY <1>0, <1>1, <2>1, <2>3 DEF HandsOver
<1>3. CASE SendRefused(t, e, b)
  BY <1>0, <1>1, <1>3, LeaveMoves DEF SendRefused, Ends
<1>4. CASE SendBuffered(t, e, m)
  <2>1. /\ Placed(t, NoMsg, NoTask, notify[e], "user") /\ "user" \in Handing \cup {"user"}
        /\ recv_waiters[e] = <<>> /\ Len(ring[e]) < RING_CAP
        /\ ring' = [ring EXCEPT ![e] = Append(ring[e], m)]
        /\ UNCHANGED <<recv_waiters, send_waiters>>
    BY <1>4 DEF SendBuffered, receiver_waits, may_push_msg
  <2>2. Ends(t)
    BY <1>0, <2>1, PlacedMoves DEF Ends
  <2> QED BY <1>0, <1>1, <2>1, <2>2 DEF Buffers
<1>5. CASE SendBlock(t, e, m)
  <2>1. /\ send_waiters' = [send_waiters EXCEPT ![e] = Append(send_waiters[e], <<t, m>>)]
        /\ Goto(t, "send_park") /\ UNCHANGED <<ring, recv_waiters, deadline, at, km, peer, cont>>
    BY <1>5 DEF SendBlock, callVars
  <2>2. Moves(t, "send_park", at[t], km[t], peer[t])
    <3>1. /\ at' = [at EXCEPT ![t] = at[t]] /\ km' = [km EXCEPT ![t] = km[t]]
          /\ peer' = [peer EXCEPT ![t] = peer[t]]
      BY <1>0, <2>1, Typed
    <3>2. "send_park" \notin Handing /\ cont[t] = "user"
      BY <1>0 DEF BlockTypes, Handing
    <3>3. cont' = [cont EXCEPT ![t] = "user"]
      BY <1>0, <2>1, <3>2, Typed
    <3> QED BY <1>0, <2>1, <3>1, <3>2, <3>3 DEF Moves, Goto
  <2> QED BY <1>0, <1>1, <2>1, <2>2 DEF SendsLater
<1> QED BY <1>2, <1>3, <1>4, <1>5 DEF Send, m

\* And so is a receive.
LEMMA RecvSteps ==
    ASSUME BlockInv, QueueInv, NEW t \in Tasks, NEW e \in Endpoints, Recv(t, e, "none")
    PROVE  /\ pc[t] = "user" /\ UNCHANGED <<parked, wake_pending, mailbox>>
           /\ Takes(t, e) \/ TakesAndWakes(t, e) \/ ReceivesLater(t, e) \/ TurnedAway(t)
<1>0. /\ BlockTypes /\ NoSignals /\ pc[t] = "user"
      /\ UNCHANGED <<parked, wake_pending, waiter, owed, notify, mailbox>>
  BY DEF BlockInv, Recv, parkVars
<1>1. CASE RecvGot(t, e)
  <2>1. Leave(t)
    BY <1>1 DEF RecvGot
  <2>2. Ends(t)
    BY <1>0, <2>1, LeaveMoves DEF Ends
  <2> QED BY <1>0, <1>1, <2>2 DEF RecvGot, Answer, Takes
<1>2. CASE RecvWakeSender(t, e)
  <2>1. /\ ring[e] # <<>> /\ send_waiters[e] # <<>> /\ UNCHANGED <<recv_waiters, result>>
        /\ ring' = [ring EXCEPT ![e] = Append(Tail(ring[e]), Head(send_waiters[e])[2])]
        /\ send_waiters' = [send_waiters EXCEPT ![e] = Tail(send_waiters[e])]
        /\ Placed(t, Head(ring[e]), Head(send_waiters[e])[1], notify[e], "make_room")
    BY <1>2 DEF RecvWakeSender
  <2>2. "make_room" \in Handing \cup {"user"} /\ "make_room" # "user"
    BY DEF Handing
  <2>3. Moves(t, "make_room", NoEndpoint, Head(ring[e]), Head(send_waiters[e])[1])
    BY <1>0, <2>1, <2>2, PlacedMoves
  <2>4. Head(ring[e]) \in Msgs
    BY <2>1 DEF QueueInv
  <2> QED BY <1>0, <2>1, <2>3, <2>4 DEF TakesAndWakes
<1>3. CASE RecvBlock(t, e, "none")
  <2>1. /\ recv_waiters' = [recv_waiters EXCEPT ![e] = Append(recv_waiters[e], t)]
        /\ at' = [at EXCEPT ![t] = e] /\ deadline' = [deadline EXCEPT ![t] = "none"]
        /\ Goto(t, "recv_park") /\ UNCHANGED <<ring, send_waiters, result, km, peer, cont>>
    BY <1>3 DEF RecvBlock
  <2>2. Moves(t, "recv_park", e, km[t], peer[t])
    <3>1. km' = [km EXCEPT ![t] = km[t]] /\ peer' = [peer EXCEPT ![t] = peer[t]]
      BY <1>0, <2>1, Typed
    <3>2. "recv_park" \notin Handing /\ cont[t] = "user"
      BY <1>0 DEF BlockTypes, Handing
    <3>3. cont' = [cont EXCEPT ![t] = "user"]
      BY <1>0, <2>1, <3>2, Typed
    <3>4. deadline' = deadline
      BY <1>0, <2>1 DEF NoSignals
    <3> QED BY <1>0, <2>1, <3>1, <3>2, <3>3, <3>4 DEF Moves, Goto
  <2> QED BY <1>0, <2>1, <2>2 DEF ReceivesLater
<1>4. CASE RecvFull(t, e)
  <2>1. Leave(t)
    BY <1>4 DEF RecvFull
  <2>2. Ends(t)
    BY <1>0, <2>1, LeaveMoves DEF Ends
  <2> QED BY <1>0, <1>4, <2>2 DEF RecvFull, Answer, TurnedAway
<1> QED BY <1>1, <1>2, <1>3, <1>4 DEF Recv

\* A send keeps the invariant.
LEMMA SendBlocks ==
    ASSUME BlockInv, QueueInv, NEW t \in Tasks, NEW e \in Endpoints, NEW b \in BOOLEAN,
           Send(t, e, b)
    PROVE  BlockInv'
<1>0. pc[t] = "user" /\ UNCHANGED <<parked, wake_pending, mailbox>>
  BY SendSteps
<1>1. PICK m \in Msgs : \/ HandsOver(t, e, m) \/ Buffers(t, e, m) \/ SendsLater(t, e, m)
                        \/ Ends(t) /\ UNCHANGED <<ring, recv_waiters, send_waiters>>
  BY SendSteps
<1>2. CASE HandsOver(t, e, m)
  BY <1>0, <1>2, SendDeliverBlocks DEF HandsOver
<1>3. CASE Ends(t) /\ UNCHANGED <<recv_waiters, send_waiters>>
  BY <1>0, <1>3, ServedBlocks DEF Ends
<1>4. CASE SendsLater(t, e, m)
  BY <1>0, <1>4, QueuesUp DEF SendsLater
<1> QED BY <1>1, <1>2, <1>3, <1>4 DEF Buffers

\* A receive keeps the invariant.
LEMMA RecvBlocks ==
    ASSUME BlockInv, QueueInv, NEW t \in Tasks, NEW e \in Endpoints, Recv(t, e, "none")
    PROVE  BlockInv'
<1>0. /\ pc[t] = "user" /\ UNCHANGED <<parked, wake_pending, mailbox>>
      /\ Takes(t, e) \/ TakesAndWakes(t, e) \/ ReceivesLater(t, e) \/ TurnedAway(t)
  BY RecvSteps
<1>1. CASE Takes(t, e) \/ TurnedAway(t)
  BY <1>0, <1>1, ServedBlocks DEF Takes, TurnedAway, Ends
<1>2. CASE TakesAndWakes(t, e)
  BY <1>0, <1>2, WakeSenderBlocks DEF TakesAndWakes
<1>3. CASE ReceivesLater(t, e)
  BY <1>0, <1>3, QueuesUp DEF ReceivesLater
<1> QED BY <1>0, <1>1, <1>2, <1>3

\* A call that parked, or is to wake another.
LEMMA ContinueBlocks ==
    ASSUME BlockInv, NEW t \in Tasks,
           \/ Deliver(t) \/ SendPark(t) \/ SendResumed(t)
           \/ MakeRoom(t) \/ RecvPark(t) \/ RecvResumed(t)
    PROVE  BlockInv'
<1>0. BlockTypes /\ NoSignals /\ \A x \in Tasks : Placedness(x)
  BY DEF BlockInv
<1>1. CASE Deliver(t)
  <2>1. /\ pc[t] = "deliver" /\ wake_if(peer[t], {"Blocked"})
        /\ mailbox' = [mailbox EXCEPT ![peer[t]] = km[t]]
        /\ Leave(t) /\ UNCHANGED <<waiter, owed, notify, recv_waiters, send_waiters>>
    BY <1>1 DEF Deliver, deliver, endpointVars
  <2>2. Moves(t, "user", NoEndpoint, NoMsg, NoTask)
    BY <1>0, <2>1, LeaveMoves
  <2>3. pc[t] \in Handing /\ pc[t] # "make_room" /\ "Blocked" \in {"Blocked"} /\ "no" \notin {"Blocked"}
    BY <2>1 DEF Handing
  <2> QED BY <2>1, <2>2, <2>3, WakesBlocks
<1>2. CASE MakeRoom(t)
  <2>1. /\ pc[t] = "make_room" /\ wake_if(peer[t], {"Blocked", "Sleeping"})
        /\ Leave(t) /\ UNCHANGED <<waiter, owed, notify, mailbox, recv_waiters, send_waiters>>
    BY <1>2 DEF MakeRoom, unblock, endpointVars
  <2>2. Moves(t, "user", NoEndpoint, NoMsg, NoTask)
    BY <1>0, <2>1, LeaveMoves
  <2>3. /\ pc[t] \in Handing /\ pc[t] # "deliver"
        /\ "Blocked" \in {"Blocked", "Sleeping"} /\ "no" \notin {"Blocked", "Sleeping"}
    BY <2>1 DEF Handing
  <2> QED BY <2>1, <2>2, <2>3, WakesBlocks
<1>3. CASE SendPark(t)
  BY <1>3, ParksBlocks DEF SendPark, ipcVars
<1>4. CASE RecvPark(t)
  <2>1. deadline[t] = "none"
    BY <1>0 DEF NoSignals
  <2> QED BY <1>4, <2>1, ParksBlocks DEF RecvPark, ipcVars
<1>5. CASE SendResumed(t)
  <2>1. /\ pc[t] = "send_parked" /\ Up(t) /\ Leave(t)
        /\ UNCHANGED <<parked, wake_pending, waiter, owed, notify, mailbox, recv_waiters, send_waiters>>
    BY <1>5 DEF SendResumed, endpointVars, parkVars
  <2>2. Moves(t, "user", NoEndpoint, NoMsg, NoTask)
    BY <1>0, <2>1, LeaveMoves
  <2>3. mailbox[t] = NoMsg
    BY <1>0, <2>1 DEF Placedness, Delivered, Receiving
  <2>4. mailbox' = [mailbox EXCEPT ![t] = NoMsg]
    BY <1>0, <2>1, <2>3, Typed
  <2>5. pc[t] \in Parked
    BY <2>1 DEF Parked
  <2> QED BY <2>1, <2>2, <2>4, <2>5, ResumesBlocks
<1>6. CASE RecvResumed(t)
  <2>1. /\ pc[t] = "recv_parked" /\ Up(t) /\ mailbox' = [mailbox EXCEPT ![t] = NoMsg]
        /\ UNCHANGED <<parked, wake_pending, waiter, owed, notify, recv_waiters, send_waiters>>
    BY <1>6 DEF RecvResumed, endpointVars, parkVars
  <2>2. ~ Asleep(t) /\ pc[t] \in Receiving /\ pc[t] \in Parked
    BY <2>1 DEF Asleep, Up, Parked, Receiving
  <2>3. mailbox[t] # NoMsg
    BY <1>0, <2>2 DEF Placedness, MailComes, Lined, InLine, Hands, Targets
  <2>4. Leave(t)
    BY <1>6, <2>3 DEF RecvResumed
  <2>5. Moves(t, "user", NoEndpoint, NoMsg, NoTask)
    BY <1>0, <2>1, <2>4, LeaveMoves
  <2> QED BY <2>1, <2>2, <2>5, ResumesBlocks
<1> QED BY <1>1, <1>2, <1>3, <1>4, <1>5, <1>6

\* What is left of Next when no receive has a deadline and nobody waits on a
\* notification: a signal only counts.
OnlyCounts == UNCHANGED <<parked, wake_pending, pc, deadline, waiter, owed, ipcVars>>

\* No process waits, so a signal finds no waiter and no deadline passes.
LEMMA SignalsOnlyCount ==
    ASSUME BlockingOnly, BlockInv, NotifyNext, UNCHANGED ipcVars
    PROVE  OnlyCounts
<1>0. BlockTypes /\ NoSignals
  BY DEF BlockInv
<1>1. \A p \in Procs : pc[p] \in Phases
  BY <1>0 DEF BlockTypes, Phases, Procs
<1>2. ASSUME NEW p \in Procs, NEW i \in Notifs, SignalCount(p, i) PROVE OnlyCounts
  <2>1. pc[p] = "user" /\ waiter[i] = NoTask
    BY <1>0, <1>2 DEF SignalCount, NoSignals
  <2>2. pc' = pc
    BY <1>0, <1>2, <2>1, Typed DEF SignalCount, Goto
  <2>3. waiter' = waiter /\ owed' = owed
    BY <1>0, <1>2, <2>1 DEF SignalCount, count_signal, NoSignals
  <2> QED BY <1>2, <2>2, <2>3 DEF SignalCount, OnlyCounts, parkVars
<1>3. ASSUME NEW p \in Procs PROVE ~ SignalWake(p)
  BY <1>1 DEF SignalWake, Phases, Receiving, Sending, Handing
<1>4. ASSUME NEW t \in Tasks PROVE ~ (Check(t) \/ BlockUntil(t) \/ Deregister(t) \/ Retry(t))
  BY <1>1 DEF Procs, Check, BlockUntil, Deregister, Retry, Phases, Receiving, Sending, Handing
<1>5. ASSUME NEW t \in Tasks PROVE ~ Tick(t)
  BY <1>0 DEF Tick, NoSignals
<1>6. CASE Expire
  <2>1. {t \in Tasks : parked[t] = "Sleeping" /\ deadline[t] = "past"} = {}
    BY <1>0 DEF NoSignals
  <2>2. parked' = [t \in Tasks |-> parked[t]]
    BY <1>6, <2>1 DEF Expire, wake_expired
  <2>3. parked' = parked
    BY <1>0, <2>2, Typed
  <2> QED BY <1>6, <2>3 DEF Expire, wake_expired, notifyVars, OnlyCounts
<1> QED BY <1>2, <1>3, <1>4, <1>5, <1>6 DEF NotifyNext, BlockingOnly

\* The steps that remain.
LEMMA BlockingSteps ==
    ASSUME BlockingOnly, BlockInv, [Next]_vars
    PROVE  \/ \E t \in Tasks, e \in Endpoints : \/ \E b \in BOOLEAN : Send(t, e, b)
                                                \/ Recv(t, e, "none")
           \/ \E t \in Tasks : \/ Deliver(t) \/ SendPark(t) \/ SendResumed(t)
                               \/ MakeRoom(t) \/ RecvPark(t) \/ RecvResumed(t)
           \/ OnlyCounts
<1>1. \A t \in Tasks : pc[t] \in Phases
  BY Typed DEF BlockInv
<1>2. \A t \in Tasks : ~ Announce(t) /\ ~ Announced(t) /\ ~ Cancel(t)
  BY <1>1 DEF Announce, Announced, Cancel, Phases, Receiving, Sending, Handing
<1>3. \A t \in Tasks : \A until : ~ PollWait(t, until)
  BY <1>1 DEF PollWait, Phases, Receiving, Sending, Handing
<1>4. UNCHANGED vars => OnlyCounts
  BY DEF vars, waitVars, parkVars, notifyVars, OnlyCounts
<1>5. NotifyNext /\ UNCHANGED ipcVars => OnlyCounts
  BY SignalsOnlyCount
<1>6. \A t \in Tasks : Continue(t) =>
            \/ Deliver(t) \/ SendPark(t) \/ SendResumed(t)
            \/ MakeRoom(t) \/ RecvPark(t) \/ RecvResumed(t)
  BY <1>2 DEF Continue
<1>7. \A t \in Tasks, e \in Endpoints :
        (\E until \in RecvUntil : Recv(t, e, until)) => Recv(t, e, "none")
  BY DEF BlockingOnly
<1>8. Polls = {}
  BY DEF BlockingOnly
<1> QED BY <1>3, <1>4, <1>5, <1>6, <1>7, <1>8 DEF Next

\* The invariant holds at first.
LEMMA InitBlocks == Init => BlockInv
<1> SUFFICES ASSUME Init PROVE BlockInv
  OBVIOUS
<1>1. BlockTypes /\ NoSignals
  BY ProcsAssumption DEF Init, NotifyInit, ParkInit, BlockTypes, NoSignals, Procs, Handing
<1>2. NoneTwice /\ \A e \in Endpoints : RQ(e) = {} /\ SQ(e) = {}
  BY DEF Init, NoneTwice, Distinct, DistinctFirsts, RQ, SQ, Members, Firsts
<1>3. \A x \in Tasks : pc[x] = "user" /\ mailbox[x] = NoMsg /\ Up(x) /\ ~ wake_pending[x]
  BY DEF Init, NotifyInit, ParkInit, Up, Procs
<1>4. ASSUME NEW x \in Tasks PROVE Placedness(x)
  BY <1>2, <1>3 DEF Placedness, Lined, Hands, Delivered, MailComes, Upright, Receiving, Handing
<1> QED BY <1>1, <1>2, <1>4 DEF BlockInv

\* And every step keeps it.
LEMMA NextBlocks == BlockingOnly /\ BlockInv /\ QueueInv /\ [Next]_vars => BlockInv'
<1> SUFFICES ASSUME BlockingOnly, BlockInv, QueueInv, [Next]_vars PROVE BlockInv'
  OBVIOUS
<1>1. CASE OnlyCounts
  <2>1. UNCHANGED <<parked, wake_pending, pc, deadline, waiter, owed, recv_waiters, send_waiters,
                    notify, mailbox, at, km, peer, cont>>
    BY <1>1 DEF OnlyCounts, ipcVars
  <2>2. BlockTypes' /\ NoSignals' /\ \A e \in Endpoints : RQ(e)' = RQ(e) /\ SQ(e)' = SQ(e)
    BY <2>1, SameQueues DEF BlockInv, BlockTypes, NoSignals
  <2>3. NoneTwice' /\ \A x \in Tasks : Placedness(x)
    BY <2>1, SameQueues DEF BlockInv
  <2>4. \A y \in Tasks \ {} : Still(y)
    BY <2>1, <2>2 DEF Still
  <2>5. \A y \in Tasks \ {} : Placedness(y)'
    BY <2>3, <2>4, OthersKept
  <2> QED BY <2>2, <2>3, <2>5 DEF BlockInv
<1> QED BY <1>1, BlockingSteps, SendBlocks, RecvBlocks, ContinueBlocks

\* The invariant's reading.
LEMMA BlockInvSafe ==
    ASSUME BlockInv
    PROVE  NoPanic
<1>1. BlockTypes
  BY DEF BlockInv
<1> QED BY <1>1, Typed DEF NoPanic, Phases, Receiving, Sending, Handing

\* block_for_message's expect, "woken without a message", does not fail as long
\* as no receive has a deadline and no task polls or waits on a notification.
\* Each of the three is needed: a message delivered to a timed receive that its
\* clock has woken, and a signal that comes late to a poll or a wait, both leave
\* a wake-up behind that ends the next receive empty-handed.
THEOREM NoPanics == BlockingOnly => (Spec => []NoPanic)
<1>1. BlockInv /\ QueueInv => NoPanic
  BY BlockInvSafe
<1>2. Init => BlockInv /\ QueueInv
  BY InitBlocks, InitQueues
<1>3. BlockingOnly /\ BlockInv /\ QueueInv /\ [Next]_vars => (BlockInv /\ QueueInv)'
  BY NextBlocks, NextQueues
<1>4. ASSUME BlockingOnly PROVE Spec => []NoPanic
  <2>1. BlockInv /\ QueueInv /\ [Next]_vars => (BlockInv /\ QueueInv)'
    BY <1>3, <1>4
  <2> QED BY <1>1, <1>2, <2>1, PTL DEF Spec
<1> QED BY <1>4

\* Only deliver writes a mailbox, and the receiver it delivers to is asleep
\* with an empty one.
LEMMA KeepsMail ==
    ASSUME BlockingOnly, BlockInv, QueueInv, [Next]_vars
    PROVE  \A t \in Tasks : mailbox[t] # NoMsg => mailbox'[t] \in {mailbox[t], NoMsg}
<1>0. BlockTypes /\ \A x \in Tasks : Placedness(x)
  BY DEF BlockInv
<1>1. CASE mailbox' = mailbox
  BY <1>1
<1>2. CASE \E t \in Tasks, e \in Endpoints : \/ \E b \in BOOLEAN : Send(t, e, b)
                                             \/ Recv(t, e, "none")
  BY <1>1, <1>2 DEF Send, Recv
<1>3. CASE \E t \in Tasks : SendPark(t) \/ SendResumed(t) \/ MakeRoom(t) \/ RecvPark(t)
  BY <1>1, <1>3 DEF SendPark, SendResumed, MakeRoom, RecvPark, ipcVars
<1>4. ASSUME NEW t \in Tasks, Deliver(t)
      PROVE  \A y \in Tasks : mailbox[y] # NoMsg => mailbox'[y] \in {mailbox[y], NoMsg}
  <2>1. pc[t] \in Handing /\ mailbox' = [mailbox EXCEPT ![peer[t]] = km[t]]
    BY <1>4 DEF Deliver, Handing
  <2>2. peer[t] \in Tasks /\ mailbox[peer[t]] = NoMsg
    BY <1>0, <2>1 DEF Placedness, Hands, Asleep
  <2> QED BY <1>0, <2>1, <2>2, Typed
<1>5. ASSUME NEW t \in Tasks, RecvResumed(t)
      PROVE  \A y \in Tasks : mailbox[y] # NoMsg => mailbox'[y] \in {mailbox[y], NoMsg}
  BY <1>0, <1>5, Typed DEF RecvResumed
<1>6. CASE OnlyCounts
  BY <1>1, <1>6 DEF OnlyCounts, ipcVars
<1> QED BY <1>2, <1>3, <1>4, <1>5, <1>6, BlockingSteps

\* And deliver never overwrites a message its receiver has not taken.
THEOREM MailKept == BlockingOnly => (Spec => MailboxKept)
<1>2. Init => BlockInv /\ QueueInv
  BY InitBlocks, InitQueues
<1>3. BlockingOnly /\ BlockInv /\ QueueInv /\ [Next]_vars => (BlockInv /\ QueueInv)'
  BY NextBlocks, NextQueues
<1>4. ASSUME BlockingOnly PROVE Spec => MailboxKept
  <2>1. BlockInv /\ QueueInv /\ [Next]_vars => (BlockInv /\ QueueInv)'
    BY <1>3, <1>4
  <2>2. BlockInv /\ QueueInv /\ [Next]_vars =>
          [\A t \in Tasks : mailbox[t] # NoMsg => mailbox'[t] \in {mailbox[t], NoMsg}]_vars
    BY <1>4, KeepsMail
  <2> QED BY <1>2, <2>1, <2>2, PTL DEF Spec, MailboxKept
<1> QED BY <1>4

-----------------------------------------------------------------------------
\* m is on its way to task t.
Way(t, m) == \/ mailbox[t] = m
             \/ \E u \in Tasks : pc[u] = "deliver" /\ peer[u] = t /\ km[u] = m
             \/ pc[t] = "make_room" /\ km[t] = m

\* The refinement mapping's set, by phase.
LEMMA WayIs == BlockTypes => \A t \in Tasks : OnItsWay(t) = {m \in Msgs : Way(t, m)}
<1> SUFFICES ASSUME BlockTypes PROVE \A t \in Tasks : OnItsWay(t) = {m \in Msgs : Way(t, m)}
  OBVIOUS
<1>1. \A u \in Tasks : /\ cont[u] = "deliver" <=> pc[u] = "deliver"
                       /\ cont[u] = "make_room" <=> pc[u] = "make_room"
  BY DEF BlockTypes, Handing, Receiving, Sending
<1> QED BY <1>1 DEF OnItsWay, Way

\* What a task holds when one message is on its way to it.
LEMMA HeldIs ==
    BlockTypes => \A t \in Tasks, m \in Msgs : (\A n \in Msgs : Way(t, n) <=> n = m) => HeldBy(t) = m
<1> SUFFICES ASSUME BlockTypes, NEW t \in Tasks, NEW m \in Msgs, \A n \in Msgs : Way(t, n) <=> n = m
             PROVE  HeldBy(t) = m
  OBVIOUS
<1>1. OnItsWay(t) = {m}
  BY WayIs
<1>2. m \in Nat
  BY IpcAssumption DEF Msgs
<1> QED BY <1>1, <1>2, MaxOfOne DEF HeldBy

\* And when none is.
LEMMA HeldNone ==
    BlockTypes => \A t \in Tasks : (\A n \in Msgs : ~ Way(t, n)) => HeldBy(t) = NoMsg
<1> SUFFICES ASSUME BlockTypes, NEW t \in Tasks, \A n \in Msgs : ~ Way(t, n)
             PROVE  HeldBy(t) = NoMsg
  OBVIOUS
<1>1. OnItsWay(t) = {}
  BY WayIs
<1> QED BY <1>1 DEF HeldBy

\* The same three facts after the step.
LEMMA HeldAfter ==
    ASSUME BlockTypes, BlockTypes'
    PROVE  /\ \A t \in Tasks, m \in Msgs : (\A n \in Msgs : Way(t, n)' <=> n = m) => HeldBy(t)' = m
           /\ \A t \in Tasks : (\A n \in Msgs : ~ Way(t, n)') => HeldBy(t)' = NoMsg
           /\ \A t \in Tasks : (\A n \in Msgs : Way(t, n)' <=> Way(t, n)) => HeldBy(t)' = HeldBy(t)
<1>1. BlockTypes' => (\A t \in Tasks, m \in Msgs : (\A n \in Msgs : Way(t, n) <=> n = m) => HeldBy(t) = m)'
  BY HeldIs, PTL
<1>2. BlockTypes' => (\A t \in Tasks : (\A n \in Msgs : ~ Way(t, n)) => HeldBy(t) = NoMsg)'
  BY HeldNone, PTL
<1>3. BlockTypes' => (\A t \in Tasks : OnItsWay(t) = {m \in Msgs : Way(t, m)})'
  BY WayIs, PTL
<1>4. \A t \in Tasks : OnItsWay(t) = {m \in Msgs : Way(t, m)}
  BY WayIs
<1>5. \A t \in Tasks : OnItsWay(t)' = OnItsWay(t) => HeldBy(t)' = HeldBy(t)
  BY DEF HeldBy
<1>6. ASSUME NEW t \in Tasks, \A n \in Msgs : Way(t, n)' <=> Way(t, n) PROVE HeldBy(t)' = HeldBy(t)
  BY <1>3, <1>4, <1>5, <1>6
<1> QED BY <1>1, <1>2, <1>6

\* What the step leaves every task but t and x: what it holds.
LEMMA OthersHold ==
    ASSUME BlockTypes, BlockTypes', NEW t \in Tasks, NEW y \in Tasks \ {t}, mailbox'[y] = mailbox[y],
           \A z \in Tasks \ {t} : pc'[z] = pc[z] /\ km'[z] = km[z] /\ peer'[z] = peer[z],
           ~ (pc[t] = "deliver" /\ peer[t] = y), ~ (pc'[t] = "deliver" /\ peer'[t] = y)
    PROVE  HeldBy(y)' = HeldBy(y)
<1>1. \A n \in Msgs : Way(y, n)' <=> Way(y, n)
  BY DEF Way
<1> QED BY <1>1, HeldAfter

\* A task in user mode is given nothing.
LEMMA UserHoldsNone ==
    ASSUME BlockTypes, \A x \in Tasks : Placedness(x), NEW t \in Tasks, pc[t] = "user"
    PROVE  HeldBy(t) = NoMsg
<1>1. /\ \A u \in Tasks : ~ Targets(u, t)
      /\ mailbox[t] = NoMsg
  BY NobodyTargets
<1>2. \A n \in Msgs : n # NoMsg
  BY IpcAssumption DEF Msgs, NoMsg
<1>3. \A n \in Msgs : ~ Way(t, n)
  BY <1>1, <1>2 DEF Way, Targets, Handing
<1> QED BY <1>3, HeldNone

\* The same, for every task.
LEMMA UsersHoldNone == BlockInv => \A u \in Tasks : pc[u] = "user" => HeldBy(u) = NoMsg
BY UserHoldsNone DEF BlockInv

\* And after the step.
LEMMA UserHoldsNoneAfter ==
    ASSUME BlockInv', NEW t \in Tasks, pc'[t] = "user"
    PROVE  HeldBy(t)' = NoMsg
<1>1. BlockInv' => (\A u \in Tasks : pc[u] = "user" => HeldBy(u) = NoMsg)'
  BY UsersHoldNone, PTL
<1> QED BY <1>1

\* A call that begins and neither takes nor hands over a message.
LEMMA NothingHeld ==
    ASSUME BlockInv, BlockInv', NEW t \in Tasks, pc[t] = "user", NEW where \in Phases \ Handing,
           NEW e, NEW m \in Msgs \cup {NoMsg}, NEW other, Moves(t, where, e, m, other),
           UNCHANGED mailbox
    PROVE  AsHeld' = AsHeld
<1>0. BlockTypes /\ BlockTypes' /\ NoSignals /\ \A x \in Tasks : Placedness(x)
  BY DEF BlockInv
<1>1. /\ pc'[t] = where /\ \A z \in Tasks \ {t} : pc'[z] = pc[z] /\ km'[z] = km[z] /\ peer'[z] = peer[z]
      /\ where # "deliver" /\ where # "make_room"
  BY <1>0, MovesAlone DEF Handing
<1>2. \A y \in Tasks \ {t} : HeldBy(y)' = HeldBy(y)
  BY <1>0, <1>1, OthersHold
<1>3. \A u \in Tasks : ~ Targets(u, t)
  BY <1>0, NobodyTargets
<1>4. \A n \in Msgs : Way(t, n)' <=> Way(t, n)
  BY <1>1, <1>3 DEF Way, Targets, Handing
<1>5. HeldBy(t)' = HeldBy(t)
  BY <1>0, <1>4, HeldAfter
<1> QED BY <1>2, <1>5 DEF AsHeld

\* The queues' types, and what the channel's queue is when nobody is blocked.
LEMMA QueueFacts ==
    ASSUME QueueInv
    PROVE  /\ \A f \in Endpoints : ring[f] \in Seq(Msgs) /\ send_waiters[f] \in Seq(Tasks \X Msgs)
           /\ \A f \in Endpoints : Len(ring[f]) < RING_CAP => send_waiters[f] = <<>>
           /\ \A f \in Endpoints : recv_waiters[f] # <<>> => AsQueue[f] = <<>>
           /\ \A f \in Endpoints : AsQueue[f] = ring[f] \o Behind(send_waiters[f])
<1>1. \A f \in Endpoints : /\ ring[f] \in Seq(Msgs) /\ send_waiters[f] \in Seq(Tasks \X Msgs)
                           /\ Len(ring[f]) \in Nat
  BY DEF QueueInv
<1>2. \A f \in Endpoints : Len(ring[f]) < RING_CAP => send_waiters[f] = <<>>
  BY <1>1, IpcAssumption DEF QueueInv, QueuesExclude
<1>3. ASSUME NEW f \in Endpoints, recv_waiters[f] # <<>> PROVE AsQueue[f] = <<>>
  <2>1. ring[f] = <<>> /\ Len(ring[f]) < RING_CAP
    BY <1>3, IpcAssumption DEF QueueInv, QueuesExclude
  <2>2. send_waiters[f] = <<>>
    BY <1>2, <2>1
  <2> QED BY <1>1, <2>1, <2>2, BehindOther DEF AsQueue
<1> QED BY <1>1, <1>2, <1>3 DEF AsQueue

\* A send, on the channel.
LEMMA SendChannel ==
    ASSUME BlockInv, BlockInv', QueueInv, NEW t \in Tasks, NEW e \in Endpoints, NEW b \in BOOLEAN,
           Send(t, e, b)
    PROVE  Channels!ChannelNext \/ UNCHANGED Channels!channelVars
<1>0. /\ BlockTypes /\ BlockTypes' /\ NoSignals /\ NoneTwice /\ \A x \in Tasks : Placedness(x)
      /\ pc[t] = "user" /\ UNCHANGED <<mailbox, result>>
  BY SendSteps DEF BlockInv
<1>1. PICK m \in Msgs : \/ HandsOver(t, e, m) \/ Buffers(t, e, m) \/ SendsLater(t, e, m)
                        \/ Ends(t) /\ UNCHANGED <<ring, recv_waiters, send_waiters>>
  BY SendSteps
<1>2. /\ "user" \in Phases \ Handing /\ "send_park" \in Phases \ Handing
      /\ NoMsg \in Msgs \cup {NoMsg} /\ km[t] \in Msgs \cup {NoMsg}
  BY <1>0, Typed DEF Phases, Handing, Receiving, Sending
<1>3. CASE HandsOver(t, e, m)
  <2>1. PICK x : x = Head(recv_waiters[e])
    OBVIOUS
  <2>2. x \in Tasks /\ x \in RQ(e) /\ Moves(t, "deliver", NoEndpoint, m, x)
    <3>1. recv_waiters[e] \in Seq(Tasks) /\ Distinct(recv_waiters[e]) /\ recv_waiters[e] # <<>>
      BY <1>0, <1>3, Typed DEF NoneTwice, HandsOver
    <3>2. x \in Members(recv_waiters[e]) /\ x \in Tasks
      BY <2>1, <3>1, Dequeued
    <3> QED BY <1>3, <2>1, <3>2 DEF RQ, HandsOver
  <2>3. /\ pc[x] \in Receiving /\ mailbox[x] = NoMsg /\ x # t
        /\ \A u \in Tasks : ~ Targets(u, x)
    BY <1>0, <2>2 DEF Placedness, Lined, InLine, Asleep, Receiving
  <2>4. /\ pc'[t] = "deliver" /\ km'[t] = m /\ peer'[t] = x
        /\ \A z \in Tasks \ {t} : pc'[z] = pc[z] /\ km'[z] = km[z] /\ peer'[z] = peer[z]
    <3>1. "deliver" \in Phases /\ m \in Msgs \cup {NoMsg}
      BY DEF Phases, Handing
    <3> QED BY <1>0, <2>2, <3>1, MovesAlone
  <2>5. \A n \in Msgs : n # NoMsg
    BY IpcAssumption DEF Msgs, NoMsg
  <2>6. HeldBy(x) = NoMsg
    <3>1. \A n \in Msgs : ~ Way(x, n)
      BY <2>3, <2>5 DEF Way, Targets, Handing, Receiving
    <3> QED BY <1>0, <2>2, <3>1, HeldNone
  <2>7. HeldBy(x)' = m
    <3>1. \A n \in Msgs : Way(x, n)' <=> n = m
      BY <1>0, <2>2, <2>3, <2>4, <2>5 DEF Way, Targets, Handing, Receiving
    <3> QED BY <1>0, <2>2, <3>1, HeldAfter
  <2>8. \A y \in Tasks \ {t, x} : HeldBy(y)' = HeldBy(y)
    <3> SUFFICES ASSUME NEW y \in Tasks \ {t, x} PROVE HeldBy(y)' = HeldBy(y)
      OBVIOUS
    <3>1. y \in Tasks \ {t} /\ mailbox'[y] = mailbox[y] /\ pc[t] # "deliver" /\ peer'[t] # y
      BY <1>0, <2>4
    <3> QED BY <1>0, <2>4, <3>1, OthersHold
  <2>9. HeldBy(t)' = HeldBy(t)
    <3>1. \A u \in Tasks : ~ Targets(u, t)
      BY <1>0, NobodyTargets
    <3>2. \A n \in Msgs : Way(t, n)' <=> Way(t, n)
      BY <1>0, <2>3, <2>4, <3>1 DEF Way, Targets, Handing
    <3> QED BY <1>0, <3>2, HeldAfter
  <2>10. AsHeld' = [AsHeld EXCEPT ![x] = m] /\ AsHeld[x] = NoMsg
    BY <2>2, <2>6, <2>7, <2>8, <2>9 DEF AsHeld
  <2>11. AsQueue[e] = <<>> /\ AsQueue' = AsQueue
    BY <1>3, QueueFacts DEF HandsOver, AsQueue
  <2>12. Channels!Hand(e, m, x)
    BY <1>0, <2>10, <2>11 DEF Channels!Hand
  <2> QED BY <2>2, <2>12 DEF Channels!ChannelNext
<1>4. CASE Buffers(t, e, m)
  <2>1. AsHeld' = AsHeld
    BY <1>0, <1>2, <1>4, NothingHeld DEF Buffers, Ends
  <2>2. /\ ring' = [ring EXCEPT ![e] = Append(ring[e], m)] /\ send_waiters' = send_waiters
        /\ send_waiters[e] = <<>> /\ ring = [f \in Endpoints |-> ring[f]]
    BY <1>4, QueueFacts DEF Buffers, QueueInv
  <2>3. ring[e] \in Seq(Msgs) /\ Append(ring[e], m) \in Seq(Msgs) /\ send_waiters[e] \in Seq(Tasks \X Msgs)
    BY QueueFacts
  <2>4. AsQueue[e] = ring[e] /\ Append(ring[e], m) \o Behind(send_waiters[e]) = Append(ring[e], m)
    BY <2>2, <2>3, BehindOther DEF AsQueue
  <2>5. AsQueue' = [AsQueue EXCEPT ![e] = Append(AsQueue[e], m)]
    BY <2>2, <2>4 DEF AsQueue
  <2> QED BY <1>0, <2>1, <2>5 DEF Channels!Put, Channels!ChannelNext
<1>5. CASE SendsLater(t, e, m)
  <2>1. AsHeld' = AsHeld
    BY <1>0, <1>2, <1>5, NothingHeld DEF SendsLater
  <2>2. /\ send_waiters' = [send_waiters EXCEPT ![e] = Append(send_waiters[e], <<t, m>>)] /\ ring' = ring
        /\ send_waiters = [f \in Endpoints |-> send_waiters[f]]
    BY <1>5 DEF SendsLater, QueueInv
  <2>3. ring[e] \in Seq(Msgs) /\ send_waiters[e] \in Seq(Tasks \X Msgs)
    BY QueueFacts
  <2>4. ring[e] \o Behind(Append(send_waiters[e], <<t, m>>)) = Append(ring[e] \o Behind(send_waiters[e]), m)
    BY <2>3, BehindAppend
  <2>5. AsQueue' = [AsQueue EXCEPT ![e] = Append(AsQueue[e], m)]
    BY <2>2, <2>4 DEF AsQueue
  <2> QED BY <1>0, <2>1, <2>5 DEF Channels!Put, Channels!ChannelNext
<1>6. CASE Ends(t) /\ UNCHANGED <<ring, recv_waiters, send_waiters>>
  <2>1. AsHeld' = AsHeld
    BY <1>0, <1>2, <1>6, NothingHeld DEF Ends
  <2>2. AsQueue' = AsQueue
    BY <1>6 DEF AsQueue
  <2> QED BY <1>0, <2>1, <2>2 DEF Channels!channelVars
<1> QED BY <1>1, <1>3, <1>4, <1>5, <1>6

\* A receive, on the channel.
LEMMA RecvChannel ==
    ASSUME BlockInv, BlockInv', QueueInv, NEW t \in Tasks, NEW e \in Endpoints, Recv(t, e, "none")
    PROVE  Channels!ChannelNext \/ UNCHANGED Channels!channelVars
<1>0. /\ BlockTypes /\ BlockTypes' /\ NoSignals /\ \A x \in Tasks : Placedness(x)
      /\ pc[t] = "user" /\ UNCHANGED mailbox
      /\ Takes(t, e) \/ TakesAndWakes(t, e) \/ ReceivesLater(t, e) \/ TurnedAway(t)
  BY RecvSteps DEF BlockInv
<1>1. AsHeld[t] = NoMsg
  BY <1>0, UserHoldsNone DEF AsHeld
<1>2. /\ "user" \in Phases \ Handing /\ "recv_park" \in Phases \ Handing
      /\ NoMsg \in Msgs \cup {NoMsg} /\ km[t] \in Msgs \cup {NoMsg}
  BY <1>0, Typed DEF Phases, Handing, Receiving, Sending
<1>3. ring[e] \in Seq(Msgs) /\ send_waiters[e] \in Seq(Tasks \X Msgs)
  BY QueueFacts
<1>4. ring[e] # <<>> => AsQueue[e] # <<>> /\ Head(AsQueue[e]) = Head(ring[e])
  BY <1>3, BehindOther, QueueFacts
<1>5. ring = [f \in Endpoints |-> ring[f]] /\ send_waiters = [f \in Endpoints |-> send_waiters[f]]
  BY DEF QueueInv
<1>6. CASE Takes(t, e)
  <2>1. AsHeld' = AsHeld
    BY <1>0, <1>2, <1>6, NothingHeld DEF Takes, Ends
  <2>2. /\ ring[e] # <<>> /\ ring' = [ring EXCEPT ![e] = Tail(ring[e])] /\ send_waiters' = send_waiters
        /\ send_waiters[e] = <<>> /\ result' = [result EXCEPT ![t] = Head(ring[e])]
    BY <1>6 DEF Takes
  <2>3. Tail(ring[e]) \in Seq(Msgs)
    BY <1>3, <2>2
  <2>4. AsQueue[e] = ring[e] /\ Tail(ring[e]) \o Behind(send_waiters[e]) = Tail(ring[e])
    BY <1>3, <2>2, <2>3, BehindOther DEF AsQueue
  <2>5. AsQueue' = [AsQueue EXCEPT ![e] = Tail(AsQueue[e])]
    BY <1>5, <2>2, <2>4 DEF AsQueue
  <2>6. Channels!Take(e, t)
    BY <1>1, <1>4, <2>1, <2>2, <2>5 DEF Channels!Take
  <2> QED BY <2>6 DEF Channels!ChannelNext
<1>7. CASE TakesAndWakes(t, e)
  <2>0. Head(ring[e]) \in Msgs /\ Moves(t, "make_room", NoEndpoint, Head(ring[e]), Head(send_waiters[e])[1])
    BY <1>7 DEF TakesAndWakes
  <2>x. PICK x : x = Head(send_waiters[e])[1]
    OBVIOUS
  <2>1. PICK m \in Msgs : m = Head(ring[e]) /\ Moves(t, "make_room", NoEndpoint, m, x)
    BY <2>0, <2>x
  <2>2. /\ ring[e] # <<>> /\ send_waiters[e] # <<>> /\ UNCHANGED result
        /\ ring' = [ring EXCEPT ![e] = Append(Tail(ring[e]), Head(send_waiters[e])[2])]
        /\ send_waiters' = [send_waiters EXCEPT ![e] = Tail(send_waiters[e])]
    BY <1>7 DEF TakesAndWakes
  <2>3. /\ pc'[t] = "make_room" /\ km'[t] = m
        /\ \A z \in Tasks \ {t} : pc'[z] = pc[z] /\ km'[z] = km[z] /\ peer'[z] = peer[z]
    <3>1. "make_room" \in Phases /\ m \in Msgs \cup {NoMsg}
      BY DEF Phases, Handing
    <3> QED BY <1>0, <2>1, <3>1, MovesAlone
  <2>4. \A y \in Tasks \ {t} : HeldBy(y)' = HeldBy(y)
    BY <1>0, <2>3, OthersHold
  <2>5. HeldBy(t)' = m
    <3>1. (\A u \in Tasks : ~ Targets(u, t)) /\ mailbox[t] = NoMsg
      BY <1>0, NobodyTargets
    <3>2. \A n \in Msgs : n # NoMsg
      BY IpcAssumption DEF Msgs, NoMsg
    <3>3. \A n \in Msgs : Way(t, n)' <=> n = m
      BY <1>0, <2>3, <3>1, <3>2 DEF Way, Targets, Handing
    <3> QED BY <1>0, <3>3, HeldAfter
  <2>6. AsHeld' = [AsHeld EXCEPT ![t] = Head(AsQueue[e])]
    BY <1>4, <2>1, <2>2, <2>4, <2>5 DEF AsHeld
  <2>7. AsQueue' = [AsQueue EXCEPT ![e] = Tail(AsQueue[e])]
    <3>1. Append(Tail(ring[e]), Head(send_waiters[e])[2]) \o Behind(Tail(send_waiters[e]))
            = Tail(ring[e] \o Behind(send_waiters[e]))
      BY <1>3, <2>2, BehindTail
    <3> QED BY <1>5, <2>2, <3>1 DEF AsQueue
  <2>8. Channels!Take(e, t)
    BY <1>1, <1>4, <2>2, <2>6, <2>7 DEF Channels!Take
  <2> QED BY <2>8 DEF Channels!ChannelNext
<1>8. CASE ReceivesLater(t, e)
  <2>1. AsHeld' = AsHeld
    BY <1>0, <1>2, <1>8, NothingHeld DEF ReceivesLater
  <2>2. AsQueue' = AsQueue /\ result' = result
    BY <1>8 DEF ReceivesLater, AsQueue
  <2> QED BY <2>1, <2>2 DEF Channels!channelVars
<1>9. CASE TurnedAway(t)
  <2>1. AsHeld' = AsHeld
    BY <1>0, <1>2, <1>9, NothingHeld DEF TurnedAway, Ends
  <2>2. AsQueue' = AsQueue /\ result' = [result EXCEPT ![t] = Failed]
    BY <1>9 DEF TurnedAway, AsQueue
  <2> QED BY <1>1, <2>1, <2>2 DEF Channels!Refuse, Channels!ChannelNext
<1> QED BY <1>0, <1>6, <1>7, <1>8, <1>9

\* A task that returns with what was given to it.
LEMMA GivesBack ==
    ASSUME BlockInv, BlockInv', NEW t \in Tasks, Ends(t), NEW m \in Msgs, HeldBy(t) = m,
           result' = [result EXCEPT ![t] = m], UNCHANGED <<ring, send_waiters>>,
           \A y \in Tasks \ {t} : mailbox'[y] = mailbox[y],
           pc[t] # "deliver"
    PROVE  Channels!ChannelNext
<1>0. /\ BlockTypes /\ BlockTypes' /\ NoSignals /\ "user" \in Phases /\ NoMsg \in Msgs \cup {NoMsg}
      /\ m # NoMsg
  BY IpcAssumption DEF BlockInv, Phases, Msgs, NoMsg
<1>1. /\ pc'[t] = "user"
      /\ \A z \in Tasks \ {t} : pc'[z] = pc[z] /\ km'[z] = km[z] /\ peer'[z] = peer[z]
  BY <1>0, MovesAlone DEF Ends
<1>2. \A y \in Tasks \ {t} : HeldBy(y)' = HeldBy(y)
  BY <1>0, <1>1, OthersHold
<1>3. HeldBy(t)' = NoMsg
  BY <1>1, UserHoldsNoneAfter
<1>4. AsHeld' = [AsHeld EXCEPT ![t] = NoMsg] /\ AsHeld[t] = m
  BY <1>2, <1>3 DEF AsHeld
<1>5. AsQueue' = AsQueue
  BY DEF AsQueue
<1> QED BY <1>0, <1>4, <1>5 DEF Channels!GiveBack, Channels!ChannelNext

\* The other steps, on the channel.
LEMMA ContinueChannel ==
    ASSUME BlockInv, BlockInv', NEW t \in Tasks,
           \/ Deliver(t) \/ SendPark(t) \/ SendResumed(t)
           \/ MakeRoom(t) \/ RecvPark(t) \/ RecvResumed(t)
    PROVE  Channels!ChannelNext \/ UNCHANGED Channels!channelVars
<1>0. BlockTypes /\ BlockTypes' /\ NoSignals /\ \A x \in Tasks : Placedness(x)
  BY DEF BlockInv
<1>1. \A n \in Msgs : n # NoMsg
  BY IpcAssumption DEF Msgs, NoMsg
<1>2. "user" \in Phases /\ NoMsg \in Msgs \cup {NoMsg}
  BY DEF Phases
<1>3. CASE Deliver(t)
  <2>1. /\ pc[t] = "deliver" /\ Leave(t) /\ mailbox' = [mailbox EXCEPT ![peer[t]] = km[t]]
        /\ UNCHANGED <<waiter, owed, notify, ring, send_waiters, result>>
    BY <1>3 DEF Deliver, endpointVars
  <2>2. PICK x \in Tasks, m \in Msgs :
           /\ x = peer[t] /\ m = km[t] /\ mailbox[x] = NoMsg /\ pc[x] \in Receiving
           /\ \A v \in Tasks : Targets(v, x) => v = t
    BY <1>0, <2>1 DEF Placedness, Hands, Asleep, Handing
  <2>3. Moves(t, "user", NoEndpoint, NoMsg, NoTask)
    BY <1>0, <2>1, LeaveMoves
  <2>4. /\ pc'[t] = "user"
        /\ \A z \in Tasks \ {t} : pc'[z] = pc[z] /\ km'[z] = km[z] /\ peer'[z] = peer[z]
    BY <1>0, <1>2, <2>3, MovesAlone
  <2>5. x # t /\ mailbox'[x] = m /\ \A y \in Tasks \ {x} : mailbox'[y] = mailbox[y]
    BY <1>0, <2>1, <2>2, Typed DEF Receiving
  <2>6. \A y \in Tasks \ {t, x} : HeldBy(y)' = HeldBy(y)
    <3> SUFFICES ASSUME NEW y \in Tasks \ {t, x} PROVE HeldBy(y)' = HeldBy(y)
      OBVIOUS
    <3>1. y \in Tasks \ {t} /\ mailbox'[y] = mailbox[y] /\ peer[t] # y /\ pc'[t] # "deliver"
      BY <2>2, <2>4, <2>5
    <3> QED BY <1>0, <2>4, <3>1, OthersHold
  <2>7. HeldBy(t)' = HeldBy(t)
    <3>1. HeldBy(t)' = NoMsg
      BY <2>4, UserHoldsNoneAfter
    <3>2. (\A u \in Tasks : ~ Targets(u, t)) /\ mailbox[t] = NoMsg
      BY <1>0, <2>1, NobodyTargets DEF Handing
    <3>3. \A n \in Msgs : ~ Way(t, n)
      BY <1>1, <2>1, <3>2 DEF Way, Targets, Handing
    <3> QED BY <1>0, <3>1, <3>3, HeldNone
  <2>8. HeldBy(x) = m
    <3>1. \A n \in Msgs : Way(x, n) <=> n = m
      BY <1>1, <2>1, <2>2 DEF Way, Targets, Handing, Receiving
    <3> QED BY <1>0, <2>2, <3>1, HeldIs
  <2>9. HeldBy(x)' = m
    <3>1. \A v \in Tasks : ~ (pc'[v] = "deliver" /\ peer'[v] = x)
      BY <2>2, <2>4 DEF Targets, Handing
    <3>2. pc'[x] # "make_room"
      BY <2>2, <2>4, <2>5 DEF Receiving
    <3>3. \A n \in Msgs : Way(x, n)' <=> n = m
      BY <2>5, <3>1, <3>2 DEF Way
    <3> QED BY <1>0, <2>2, <3>3, HeldAfter
  <2>10. AsHeld' = AsHeld
    BY <2>6, <2>7, <2>8, <2>9 DEF AsHeld
  <2>11. AsQueue' = AsQueue /\ result' = result
    BY <2>1 DEF AsQueue
  <2> QED BY <2>10, <2>11 DEF Channels!channelVars
<1>4. CASE MakeRoom(t)
  <2>1. /\ pc[t] = "make_room" /\ Leave(t) /\ result' = [result EXCEPT ![t] = km[t]]
        /\ UNCHANGED <<waiter, owed, notify, mailbox, ring, send_waiters>>
    BY <1>4 DEF MakeRoom, Answer, endpointVars
  <2>2. Ends(t)
    BY <1>0, <2>1, LeaveMoves DEF Ends
  <2>3. km[t] \in Msgs /\ mailbox[t] = NoMsg /\ \A u \in Tasks : ~ Targets(u, t)
    BY <1>0, <2>1, NobodyTargets DEF Placedness, Hands, Handing
  <2>4. HeldBy(t) = km[t]
    <3>1. \A n \in Msgs : Way(t, n) <=> n = km[t]
      BY <1>1, <2>1, <2>3 DEF Way, Targets, Handing
    <3> QED BY <1>0, <2>3, <3>1, HeldIs
  <2> QED BY <2>1, <2>2, <2>3, <2>4, GivesBack
<1>5. CASE RecvResumed(t)
  <2>1. /\ pc[t] = "recv_parked" /\ Up(t) /\ mailbox' = [mailbox EXCEPT ![t] = NoMsg]
        /\ UNCHANGED <<waiter, owed, notify, ring, send_waiters>>
    BY <1>5 DEF RecvResumed, endpointVars
  <2>2. ~ Asleep(t) /\ pc[t] \in Receiving /\ pc[t] \in Parked
    BY <2>1 DEF Asleep, Up, Parked, Receiving
  <2>3. mailbox[t] # NoMsg /\ \A u \in Tasks : ~ Targets(u, t)
    BY <1>0, <2>2 DEF Placedness, MailComes, Lined, InLine, Hands, Targets
  <2>4. Leave(t) /\ result' = [result EXCEPT ![t] = mailbox[t]] /\ mailbox[t] \in Msgs
    BY <1>0, <1>5, <2>3, Typed DEF RecvResumed, Answer
  <2>5. Ends(t)
    BY <1>0, <2>1, <2>4, LeaveMoves DEF Ends
  <2>6. HeldBy(t) = mailbox[t]
    <3>1. \A n \in Msgs : Way(t, n) <=> n = mailbox[t]
      BY <2>1, <2>3 DEF Way, Targets, Handing
    <3> QED BY <1>0, <2>4, <3>1, HeldIs
  <2>7. \A y \in Tasks \ {t} : mailbox'[y] = mailbox[y]
    BY <1>0, <2>1, Typed
  <2> QED BY <2>1, <2>4, <2>5, <2>6, <2>7, GivesBack
<1>6. CASE SendPark(t) \/ RecvPark(t)
  <2>1. PICK where \in Parked : pc' = [pc EXCEPT ![t] = where] /\ pc[t] \notin Handing
    BY <1>6 DEF SendPark, RecvPark, Goto, Parked, Handing
  <2>2. UNCHANGED <<ring, send_waiters, mailbox, km, peer, cont, result>>
    BY <1>6 DEF SendPark, RecvPark, ipcVars
  <2>3. AsHeld' = AsHeld /\ AsQueue' = AsQueue
    BY <2>2 DEF AsHeld, HeldBy, OnItsWay, AsQueue
  <2> QED BY <2>2, <2>3 DEF Channels!channelVars
<1>7. CASE SendResumed(t)
  <2>1. /\ pc[t] = "send_parked" /\ Up(t) /\ Leave(t)
        /\ UNCHANGED <<waiter, owed, notify, mailbox, ring, send_waiters, result>>
    BY <1>7 DEF SendResumed, endpointVars
  <2>2. Moves(t, "user", NoEndpoint, NoMsg, NoTask)
    BY <1>0, <2>1, LeaveMoves
  <2>3. /\ pc'[t] = "user"
        /\ \A z \in Tasks \ {t} : pc'[z] = pc[z] /\ km'[z] = km[z] /\ peer'[z] = peer[z]
    BY <1>0, <1>2, <2>2, MovesAlone
  <2>4. \A y \in Tasks \ {t} : HeldBy(y)' = HeldBy(y)
    BY <1>0, <2>1, <2>3, OthersHold
  <2>5. HeldBy(t)' = HeldBy(t)
    <3>1. HeldBy(t)' = NoMsg
      BY <2>3, UserHoldsNoneAfter
    <3>2. ~ Asleep(t) /\ pc[t] \in Parked /\ pc[t] \notin Receiving
      BY <2>1 DEF Asleep, Up, Parked, Receiving
    <3>3. (\A u \in Tasks : ~ Targets(u, t)) /\ mailbox[t] = NoMsg
      BY <1>0, <3>2 DEF Placedness, Hands, Targets, Delivered
    <3>4. \A n \in Msgs : ~ Way(t, n)
      BY <1>1, <2>1, <3>3 DEF Way, Targets, Handing
    <3> QED BY <1>0, <3>1, <3>4, HeldNone
  <2>6. AsHeld' = AsHeld /\ AsQueue' = AsQueue
    BY <2>1, <2>4, <2>5 DEF AsHeld, AsQueue
  <2> QED BY <2>1, <2>6 DEF Channels!channelVars
<1> QED BY <1>3, <1>4, <1>5, <1>6, <1>7

\* Every step is a step of the channel or leaves it alone.
LEMMA NextChannel ==
    ASSUME BlockingOnly, BlockInv, BlockInv', QueueInv, [Next]_vars
    PROVE  [Channels!ChannelNext]_Channels!channelVars
<1>1. CASE OnlyCounts
  <2>1. UNCHANGED <<ring, send_waiters, mailbox, km, peer, cont, result>>
    BY <1>1 DEF OnlyCounts, ipcVars
  <2>2. AsHeld' = AsHeld /\ AsQueue' = AsQueue
    BY <2>1 DEF AsHeld, HeldBy, OnItsWay, AsQueue
  <2> QED BY <2>1, <2>2 DEF Channels!channelVars
<1> QED BY <1>1, BlockingSteps, SendChannel, RecvChannel, ContinueChannel

\* The channel starts empty.
LEMMA InitChannel == Init => Channels!ChannelInit
<1> SUFFICES ASSUME Init PROVE Channels!ChannelInit
  OBVIOUS
<1>1. BlockTypes /\ (\A x \in Tasks : Placedness(x)) /\ \A t \in Tasks : pc[t] = "user"
  BY InitBlocks DEF BlockInv, Init, NotifyInit, Procs
<1>2. AsHeld = [t \in Tasks |-> NoMsg]
  BY <1>1, UserHoldsNone DEF AsHeld
<1>3. \A e \in Endpoints : ring[e] = <<>> /\ send_waiters[e] = <<>>
  BY DEF Init
<1>4. AsQueue = [e \in Endpoints |-> <<>>]
  <2>1. \A e \in Endpoints : ring[e] \o Behind(send_waiters[e]) = <<>>
    BY <1>3, InitQueues, BehindOther DEF QueueInv
  <2> QED BY <2>1 DEF AsQueue
<1> QED BY <1>2, <1>4 DEF Init, Channels!ChannelInit

\* Endpoints implement channels: messages leave in the order they were
\* accepted, each is given to one receive, and that receive returns it.
THEOREM ImplementsChannel == BlockingOnly => (Spec => IsChannel)
<1>1. Init => BlockInv /\ QueueInv /\ Channels!ChannelInit
  BY InitBlocks, InitQueues, InitChannel
<1>2. ASSUME BlockingOnly PROVE Spec => IsChannel
  <2>1. BlockInv /\ QueueInv /\ [Next]_vars => (BlockInv /\ QueueInv)'
    BY <1>2, NextBlocks, NextQueues
  <2>2. BlockInv /\ BlockInv' /\ QueueInv /\ [Next]_vars => [Channels!ChannelNext]_Channels!channelVars
    BY <1>2, NextChannel
  <2> QED BY <1>1, <2>1, <2>2, PTL DEF Spec, IsChannel, Channels!ChannelSpec
<1> QED BY <1>2
=============================================================================
