-------------------------- MODULE Messages_proofs --------------------------
(***************************************************************************)
(* The messages on their way in and out, for any radio and any text: what  *)
(* is thrown away at a start, the recent-message windows (Reception) and   *)
(* the packets a text becomes (Packetize).                                 *)
(***************************************************************************)
EXTENDS Reception, Packetize, FiniteSetTheorems, SequenceTheorems, WellFoundedInduction, TLAPS

-----------------------------------------------------------------------------
(* Induction on the natural numbers, for sets. *)

\* A set of numbers has a smallest one.
LEMMA SmallestNat ==
    ASSUME NEW T \in SUBSET Nat, T # {}
    PROVE  \E x \in T : \A y \in T : x <= y
<1> DEFINE R == OpToRel(<, Nat)
<1>0. IsWellFoundedOn(R, Nat)
  BY NatLessThanWellFounded
<1>1. \A x, y \in Nat : y < x => <<y, x>> \in R
  BY DEF OpToRel
<1> HIDE DEF R
<1>2. PICK x \in T : \A y \in T : ~(<<y, x>> \in R)
  BY <1>0, WFMin
<1>3. ASSUME NEW y \in T PROVE x <= y
  <2>1. x \in Nat /\ y \in Nat
    OBVIOUS
  <2>2. ~(y < x)
    BY <1>1, <1>2, <2>1
  <2> QED  BY <2>1, <2>2
<1> QED BY <1>3

\* A set that has 0 and every successor has all numbers.
LEMMA SetInduction ==
    ASSUME NEW S \in SUBSET Nat, 0 \in S, \A n \in S : n + 1 \in S
    PROVE  S = Nat
<1> SUFFICES ASSUME Nat \ S # {} PROVE FALSE
  OBVIOUS
<1>1. PICK x \in Nat \ S : \A y \in Nat \ S : x <= y
  <2>1. Nat \ S \in SUBSET Nat
    OBVIOUS
  <2> QED  BY <2>1, SmallestNat
<1>2. x # 0
  OBVIOUS
<1>3. x - 1 \in Nat /\ ~(x <= x - 1)
  BY <1>2
<1>4. x - 1 \in S
  BY <1>1, <1>3
<1>5. (x - 1) + 1 = x
  OBVIOUS
<1> QED  BY <1>4, <1>5

-----------------------------------------------------------------------------
(* Reception: the flush. *)

Queued == [peer : Peers \cup {NoContact, Elsewhere}, old : BOOLEAN]

\* OldNotAnswered with the types it needs.
FlushInv ==
    /\ phase \in {"off", "flush", "live", "stopping"}
    /\ backlog \in Seq(Queued)
    /\ OldNotAnswered

\* Nothing is queued at first.
LEMMA FlushInvInit == ReceptionInit => FlushInv
BY DEF ReceptionInit, FlushInv, OldNotAnswered

\* What arrives while the handlers listen is not old.
LEMMA ArriveFlushInv ==
    ASSUME FlushInv, NEW p \in Peers \cup {NoContact, Elsewhere}, Arrive(p)
    PROVE  FlushInv'
<1> DEFINE e == [peer |-> p, old |-> phase = "off"]
<1>1. e \in Queued
  BY DEF Queued
<1>2. backlog' = Append(backlog, e) /\ backlog \in Seq(Queued) /\ phase' = phase /\ cut' = cut
  BY DEF Arrive, FlushInv
<1>3. phase \in {"live", "stopping"} => ~e.old
  OBVIOUS
<1> HIDE DEF e
<1>4. backlog' \in Seq(Queued)
  BY <1>1, <1>2
<1>5. ASSUME phase \in {"live", "stopping"}, cut = "no", NEW i \in DOMAIN (backlog')
      PROVE  ~backlog'[i].old
  <2>1. \A j \in DOMAIN backlog : ~backlog[j].old
    BY <1>5 DEF FlushInv, OldNotAnswered
  <2>2. i \in DOMAIN backlog \/ i = Len(backlog) + 1
    BY <1>2
  <2>3. CASE i \in DOMAIN backlog
    <3>1. backlog'[i] = backlog[i]
      BY <1>2, <2>3
    <3> QED  BY <2>1, <2>3, <3>1
  <2>4. CASE i = Len(backlog) + 1
    <3>1. backlog'[i] = e
      BY <1>2, <2>4
    <3> QED  BY <1>3, <1>5, <3>1
  <2> QED  BY <2>2, <2>3, <2>4
<1> QED  BY <1>2, <1>4, <1>5 DEF FlushInv, OldNotAnswered

\* A message that is taken off the queue.
LEMMA TailFlushInv ==
    ASSUME FlushInv, backlog # <<>>, backlog' = Tail(backlog), phase' = phase, cut' = cut
    PROVE  FlushInv'
<1>1. backlog \in Seq(Queued)
  BY DEF FlushInv
<1>2. /\ backlog' \in Seq(Queued)
      /\ \A i \in DOMAIN (backlog') : i + 1 \in DOMAIN backlog /\ backlog'[i] = backlog[i + 1]
  BY <1>1
<1> QED  BY <1>2 DEF FlushInv, OldNotAnswered

\* "a restart makes the bot answer commands sent hours ago" does not happen.
THEOREM ReceptionOldNotAnswered == ReceptionSpec => []OldNotAnswered
<1>1. FlushInv /\ [ReceptionNext]_receptionVars => FlushInv'
  <2> SUFFICES ASSUME FlushInv, [ReceptionNext]_receptionVars PROVE FlushInv'
    OBVIOUS
  <2>1. CASE \E p \in Peers \cup {NoContact, Elsewhere} : Arrive(p)
    BY <2>1, ArriveFlushInv
  <2>2. CASE Start \/ UnsubscribeAll
    BY <2>2 DEF Start, UnsubscribeAll, FlushInv, OldNotAnswered
  <2>3. CASE FlushGet
    BY <2>3, TailFlushInv DEF FlushGet
  <2>4. CASE FlushEnd
    <3>1. CASE cut' = "no"
      <4>1. backlog = <<>>
        BY <2>4, <3>1 DEF FlushEnd
      <4> QED  BY <2>4, <4>1 DEF FlushEnd, FlushInv, OldNotAnswered
    <3>2. CASE cut' # "no"
      BY <2>4, <3>2 DEF FlushEnd, FlushInv, OldNotAnswered
    <3> QED  BY <3>1, <3>2
  <2>5. CASE Fetch
    BY <2>5, TailFlushInv DEF Fetch
  <2>6. CASE \E p \in Peers : Sent(p)
    BY <2>6 DEF Sent, FlushInv, OldNotAnswered
  <2>7. CASE Gone
    <3>1. backlog' \in Seq(Queued)
      <4>1. backlog \in Seq(Queued)
        BY DEF FlushInv
      <4>2. \A i \in 1..Len(backlog) : [backlog[i] EXCEPT !.old = TRUE] \in Queued
        <5>1. \A e \in Queued : [e EXCEPT !.old = TRUE] \in Queued
          <6> DEFINE P == Peers \cup {NoContact, Elsewhere}
          <6>1. \A e \in [peer : P, old : BOOLEAN] : [e EXCEPT !.old = TRUE] \in [peer : P, old : BOOLEAN]
            <7> HIDE DEF P
            <7> QED  OBVIOUS
          <6> QED  BY <6>1 DEF Queued
        <5> QED  BY <4>1, <5>1
      <4>3. DOMAIN backlog = 1..Len(backlog) /\ Len(backlog) \in Nat
        BY <4>1
      <4> QED  BY <2>7, <4>2, <4>3, IsASeq DEF Gone
    <3> QED  BY <2>7, <3>1 DEF Gone, FlushInv, OldNotAnswered
  <2>8. CASE UNCHANGED receptionVars
    BY <2>8 DEF receptionVars, FlushInv, OldNotAnswered
  <2> QED  BY <2>1, <2>2, <2>3, <2>4, <2>5, <2>6, <2>7, <2>8 DEF ReceptionNext
<1>2. FlushInv => OldNotAnswered
  BY DEF FlushInv
<1> QED  BY FlushInvInit, <1>1, <1>2, PTL DEF ReceptionSpec

-----------------------------------------------------------------------------
(* A ring holds the last Window places of a set of places. *)

Back(P, x) == {y \in P : y >= x}

\* The place at i has as many at or behind it as the ring has from i on, and no
\* place that belongs in the ring is missing.
IsRing(r, P) ==
    /\ r \in Seq(Nat)
    /\ Len(r) <= Window
    /\ \A i \in 1..Len(r) : r[i] \in P /\ Cardinality(Back(P, r[i])) = Len(r) - i + 1
    /\ \A x \in P : Cardinality(Back(P, x)) <= Window => \E i \in 1..Len(r) : r[i] = x

\* An empty ring holds no places.
LEMMA EmptyRing == IsRing(<<>>, {})
BY ReceptionAssumption DEF IsRing

\* A later place.
LEMMA BackNext ==
    ASSUME NEW n \in Nat, NEW P \in SUBSET (1..n)
    PROVE  /\ Back(P \cup {n + 1}, n + 1) = {n + 1}
           /\ Cardinality(Back(P \cup {n + 1}, n + 1)) = 1
           /\ \A x \in P : /\ Cardinality(Back(P, x)) \in Nat
                           /\ Cardinality(Back(P \cup {n + 1}, x)) = Cardinality(Back(P, x)) + 1
<1>1. Back(P \cup {n + 1}, n + 1) = {n + 1}
  <2>1. \A y \in P : ~(y >= n + 1)
    OBVIOUS
  <2>2. n + 1 >= n + 1
    OBVIOUS
  <2> QED  BY <2>1, <2>2, Zenon DEF Back
<1>2. ASSUME NEW x \in P
      PROVE  /\ Cardinality(Back(P, x)) \in Nat
             /\ Cardinality(Back(P \cup {n + 1}, x)) = Cardinality(Back(P, x)) + 1
  <2>1. Back(P \cup {n + 1}, x) = Back(P, x) \cup {n + 1}
    BY DEF Back
  <2>2. n + 1 \notin Back(P, x)
    BY DEF Back
  <2>3. IsFiniteSet(Back(P, x))
    <3>1. IsFiniteSet(1..n)
      BY FS_Interval
    <3>2. Back(P, x) \in SUBSET (1..n)
      BY DEF Back
    <3> QED  BY <3>1, <3>2, FS_Subset
  <2> QED  BY <2>1, <2>2, <2>3, FS_AddElement, FS_CardinalityType
<1> QED  BY <1>1, <1>2, FS_Singleton

\* deque.append keeps the ring a ring.
LEMMA PushedRing ==
    ASSUME NEW n \in Nat, NEW P \in SUBSET (1..n), NEW r, IsRing(r, P), Window # 0
    PROVE  IsRing(Pushed(r, n + 1), P \cup {n + 1})
<1> DEFINE m == Len(r)
           Q == P \cup {n + 1}
           s == Append(r, n + 1)
<1>0. Window \in Nat /\ Window >= 1 /\ m \in Nat /\ m <= Window /\ r \in Seq(Nat)
  BY ReceptionAssumption DEF IsRing
<1>1. s \in Seq(Nat) /\ Len(s) = m + 1 /\ s[m + 1] = n + 1 /\ \A i \in 1..m : s[i] = r[i]
  BY <1>0
<1>2. /\ \A i \in 1..m : r[i] \in P /\ Cardinality(Back(P, r[i])) = m - i + 1
      /\ \A x \in P : Cardinality(Back(P, x)) <= Window => \E i \in 1..m : r[i] = x
  BY DEF IsRing
<1>3. /\ Cardinality(Back(Q, n + 1)) = 1
      /\ \A x \in P : /\ Cardinality(Back(P, x)) \in Nat
                      /\ Cardinality(Back(Q, x)) = Cardinality(Back(P, x)) + 1
  BY BackNext
<1> HIDE DEF m, s
<1>4. ASSUME NEW i \in 1..(m + 1) PROVE s[i] \in Q /\ Cardinality(Back(Q, s[i])) = (m + 1) - i + 1
  <2>1. CASE i = m + 1
    BY <1>0, <1>1, <1>3, <2>1
  <2>2. CASE i # m + 1
    <3>1. i \in 1..m
      BY <1>0, <2>2
    <3>2. /\ s[i] = r[i] /\ r[i] \in P /\ Cardinality(Back(P, r[i])) = m - i + 1
          /\ Cardinality(Back(Q, r[i])) = Cardinality(Back(P, r[i])) + 1
      BY <1>1, <1>2, <1>3, <3>1
    <3>3. (m - i + 1) + 1 = (m + 1) - i + 1
      BY <1>0, <3>1
    <3> QED  BY <3>2, <3>3
  <2> QED  BY <2>1, <2>2
<1>5. ASSUME NEW x \in Q, Cardinality(Back(Q, x)) <= Window
      PROVE  x = n + 1 \/ \E i \in 1..m : r[i] = x /\ Cardinality(Back(P, x)) + 1 <= Window
  <2>1. CASE x = n + 1
    BY <2>1
  <2>2. CASE x # n + 1
    <3>1. x \in P
      BY <2>2
    <3>2. Cardinality(Back(P, x)) + 1 <= Window /\ Cardinality(Back(P, x)) \in Nat
      BY <1>3, <1>5, <3>1
    <3>3. Cardinality(Back(P, x)) <= Window
      BY <1>0, <3>2
    <3> QED  BY <1>2, <3>1, <3>2, <3>3
  <2> QED  BY <2>1, <2>2
<1>6. CASE m + 1 <= Window
  <2>1. Pushed(r, n + 1) = s
    BY <1>0, <1>1, <1>6 DEF Pushed, s
  <2>2. ASSUME NEW x \in Q, Cardinality(Back(Q, x)) <= Window PROVE \E i \in 1..(m + 1) : s[i] = x
    <3>1. m + 1 \in 1..(m + 1) /\ \A i \in 1..m : i \in 1..(m + 1)
      BY <1>0
    <3> QED  BY <1>1, <1>5, <2>2, <3>1
  <2> QED  BY <1>1, <1>4, <1>6, <2>1, <2>2 DEF IsRing
<1>7. CASE ~(m + 1 <= Window)
  <2> DEFINE v == Tail(s)
  <2>1. m = Window /\ m >= 1
    BY <1>0, <1>7
  <2>2. Pushed(r, n + 1) = v
    BY <1>0, <1>1, <1>7 DEF Pushed, s
  <2>3. v \in Seq(Nat) /\ Len(v) = m /\ \A i \in 1..m : v[i] = s[i + 1]
    BY <1>0, <1>1
  <2> HIDE DEF v
  <2>4. ASSUME NEW i \in 1..m PROVE v[i] \in Q /\ Cardinality(Back(Q, v[i])) = m - i + 1
    <3>1. i + 1 \in 1..(m + 1) /\ (m + 1) - (i + 1) + 1 = m - i + 1
      BY <1>0
    <3> QED  BY <1>4, <2>3, <3>1
  <2>5. ASSUME NEW x \in Q, Cardinality(Back(Q, x)) <= Window PROVE \E i \in 1..m : v[i] = x
    <3>1. CASE x = n + 1
      <4>1. m \in 1..m /\ v[m] = s[m + 1]
        BY <2>1, <1>0, <2>3
      <4> QED  BY <1>1, <3>1, <4>1
    <3>2. CASE x # n + 1
      <4>1. PICK i \in 1..m : r[i] = x /\ Cardinality(Back(P, x)) + 1 <= Window
        BY <1>5, <2>5, <3>2
      <4>2. Cardinality(Back(P, x)) = m - i + 1
        BY <1>2, <4>1
      <4>3. (m - i + 1) + 1 <= m
        BY <2>1, <4>1, <4>2
      <4>4. i - 1 \in 1..m /\ (i - 1) + 1 = i
        BY <1>0, <4>3
      <4>5. v[i - 1] = x
        BY <1>1, <2>3, <4>1, <4>4
      <4> QED  BY <4>4, <4>5
    <3> QED  BY <3>1, <3>2
  <2> QED  BY <1>0, <2>1, <2>2, <2>3, <2>4, <2>5 DEF IsRing
<1> QED  BY <1>6, <1>7

\* A ring is what the property says it is.
LEMMA RingIsLatest ==
    ASSUME NEW r, NEW P, IsRing(r, P)
    PROVE  ToSet(r) = Latest(P, Window)
<1>0. Window \in Nat /\ r \in Seq(Nat) /\ Len(r) \in Nat /\ DOMAIN r = 1..Len(r) /\ Len(r) <= Window
  BY ReceptionAssumption DEF IsRing
<1>1. ToSet(r) = {r[i] : i \in 1..Len(r)}
  BY <1>0 DEF ToSet
<1>2. Latest(P, Window) = {x \in P : Cardinality(Back(P, x)) <= Window}
  BY DEF Latest, Back
<1>3. ASSUME NEW i \in 1..Len(r) PROVE r[i] \in P /\ Cardinality(Back(P, r[i])) <= Window
  <2>1. r[i] \in P /\ Cardinality(Back(P, r[i])) = Len(r) - i + 1
    BY DEF IsRing
  <2>2. Len(r) - i + 1 <= Window
    BY <1>0
  <2> QED  BY <2>1, <2>2
<1>4. ASSUME NEW x \in P, Cardinality(Back(P, x)) <= Window PROVE \E i \in 1..Len(r) : r[i] = x
  BY <1>4 DEF IsRing
<1> QED  BY <1>1, <1>2, <1>3, <1>4

-----------------------------------------------------------------------------
(* Who was heard when: P gives the places of each contact. *)

IsPlaces(P, n) == P \in [Contacts -> SUBSET (1..n)]

HeardIn(P) == {q \in Contacts : P[q] # {}}
MeanwhileIn(P, p, m, n) == {q \in Contacts \ {p} : \E z \in P[q] : m < z /\ z < n}
SinceIn(P, p) == {q \in Contacts \ {p} : \E z \in P[q] : \A x \in P[p] : x < z}

\* The places x and y of p follow each other.
Follows(P, p, x, y) == x < y /\ \A z \in P[p] : z <= x \/ y <= z

KeptIn(P, p) ==
    {n \in P[p] : \A x, y \in P[p] :
        n <= x /\ Follows(P, p, x, y) => Cardinality(MeanwhileIn(P, p, x, y)) < MaxContacts}

\* p is heard at the next place.
HeardAgain(P, p, n) == [P EXCEPT ![p] = @ \cup {n + 1}]

\* What changes: the places of p only, and its new one is the latest of all.
LEMMA AgainPlaces ==
    ASSUME NEW n \in Nat, NEW P, IsPlaces(P, n), NEW p \in Contacts
    PROVE  /\ IsPlaces(HeardAgain(P, p, n), n + 1)
           /\ HeardAgain(P, p, n)[p] = P[p] \cup {n + 1}
           /\ \A q \in Contacts \ {p} : HeardAgain(P, p, n)[q] = P[q]
           /\ \A q \in Contacts : \A x \in P[q] : x \in Nat /\ x < n + 1 /\ ~(n + 1 <= x) /\ x # n + 1
<1> DEFINE G == HeardAgain(P, p, n)
<1>1. DOMAIN P = Contacts /\ \A q \in Contacts : P[q] \in SUBSET (1..n)
  BY DEF IsPlaces
<1>2. G[p] = P[p] \cup {n + 1} /\ DOMAIN G = Contacts /\ \A q \in Contacts \ {p} : G[q] = P[q]
  BY <1>1 DEF HeardAgain
<1>3. \A x \in 1..n : x \in Nat /\ x < n + 1 /\ ~(n + 1 <= x) /\ x # n + 1 /\ x \in 1..(n + 1)
  OBVIOUS
<1>4. n + 1 \in 1..(n + 1)
  OBVIOUS
<1>5. IsPlaces(G, n + 1)
  <2>1. \A q \in Contacts : G[q] \in SUBSET (1..(n + 1))
    BY <1>1, <1>2, <1>3, <1>4, Zenon
  <2>2. G = [q \in Contacts |-> G[q]]
    BY <1>2 DEF HeardAgain
  <2> QED  BY <2>1, <2>2 DEF IsPlaces
<1> QED  BY <1>1, <1>2, <1>3, <1>5

\* Only p is more heard than before.
LEMMA AgainHeard ==
    ASSUME NEW n \in Nat, NEW P, IsPlaces(P, n), NEW p \in Contacts
    PROVE  HeardIn(HeardAgain(P, p, n)) = HeardIn(P) \cup {p}
<1>1. /\ HeardAgain(P, p, n)[p] # {}
      /\ \A q \in Contacts \ {p} : HeardAgain(P, p, n)[q] = P[q]
  <2>1. /\ HeardAgain(P, p, n)[p] = P[p] \cup {n + 1}
        /\ \A q \in Contacts \ {p} : HeardAgain(P, p, n)[q] = P[q]
    BY AgainPlaces
  <2> QED  BY <2>1
<1> QED  BY <1>1 DEF HeardIn

\* Nobody was heard since p, and p since everybody.
LEMMA AgainSince ==
    ASSUME NEW n \in Nat, NEW P, IsPlaces(P, n), NEW p \in Contacts
    PROVE  /\ SinceIn(HeardAgain(P, p, n), p) = {}
           /\ \A q \in Contacts \ {p} : SinceIn(HeardAgain(P, p, n), q) = SinceIn(P, q) \cup {p}
<1> DEFINE G == HeardAgain(P, p, n)
<1>1. /\ G[p] = P[p] \cup {n + 1}
      /\ \A q \in Contacts \ {p} : G[q] = P[q]
      /\ \A q \in Contacts : \A x \in P[q] : x \in Nat /\ x < n + 1 /\ ~(n + 1 <= x) /\ x # n + 1
  BY AgainPlaces
<1> HIDE DEF G
<1>2. SinceIn(G, p) = {}
  <2>1. \A x \in Nat : x < n + 1 => ~(n + 1 < x)
    OBVIOUS
  <2> QED  BY <1>1, <2>1 DEF SinceIn
<1>3. ASSUME NEW q \in Contacts \ {p} PROVE SinceIn(G, q) = SinceIn(P, q) \cup {p}
  <2>1. ASSUME NEW r \in SinceIn(G, q), r # p PROVE r \in SinceIn(P, q)
    BY <1>1, <2>1, Zenon DEF SinceIn
  <2>2. ASSUME NEW r \in SinceIn(P, q) PROVE r \in SinceIn(G, q)
    <3>1. PICK z \in P[r] : \A x \in P[q] : x < z
      BY <2>2 DEF SinceIn
    <3>2. r \in Contacts \ {q} /\ r \in Contacts /\ G[q] = P[q]
      BY <1>1, <2>2 DEF SinceIn
    <3>2a. z \in G[r]
      BY <1>1, <3>1, <3>2
    <3> QED  BY <3>1, <3>2, <3>2a DEF SinceIn
  <2>3. p \in SinceIn(G, q)
    <3>1. n + 1 \in G[p] /\ G[q] = P[q] /\ \A x \in P[q] : x < n + 1
      BY <1>1
    <3> QED  BY <3>1 DEF SinceIn
  <2> QED  BY <2>1, <2>2, <2>3
<1> QED  BY <1>2, <1>3 DEF G

\* What another contact keeps does not change.
LEMMA AgainOtherKept ==
    ASSUME NEW n \in Nat, NEW P, IsPlaces(P, n), NEW p \in Contacts, NEW q \in Contacts, q # p
    PROVE  KeptIn(HeardAgain(P, p, n), q) = KeptIn(P, q)
<1> DEFINE G == HeardAgain(P, p, n)
<1>1. /\ G[p] = P[p] \cup {n + 1} /\ G[q] = P[q]
      /\ \A r \in Contacts \ {p} : G[r] = P[r]
      /\ \A r \in Contacts : \A x \in P[r] : x \in Nat /\ x < n + 1 /\ ~(n + 1 <= x) /\ x # n + 1
  BY AgainPlaces
<1> HIDE DEF G
<1>2. ASSUME NEW x \in P[q], NEW y \in P[q]
      PROVE  MeanwhileIn(G, q, x, y) = MeanwhileIn(P, q, x, y)
  <2>1. ~(n + 1 < y)
    <3>1. y \in Nat /\ y < n + 1
      BY <1>1
    <3> QED  BY <3>1
  <2>2. ASSUME NEW r \in Contacts \ {q}
        PROVE  (\E z \in G[r] : x < z /\ z < y) <=> (\E z \in P[r] : x < z /\ z < y)
    <3>1. CASE r = p
      BY <1>1, <2>1, <3>1
    <3>2. CASE r # p
      BY <1>1, <3>2
    <3> QED  BY <3>1, <3>2
  <2> QED  BY <2>2 DEF MeanwhileIn
<1>3. ASSUME NEW x, NEW y PROVE Follows(G, q, x, y) <=> Follows(P, q, x, y)
  BY <1>1 DEF Follows
<1> QED  BY <1>1, <1>2, <1>3 DEF KeptIn, G

\* A set of places has a last one.
LEMMA LastPlace ==
    ASSUME NEW n \in Nat, NEW S \in SUBSET (1..n), S # {}
    PROVE  \E m \in S : \A x \in S : x <= m
<1> DEFINE B == {k \in Nat : \A x \in S : x <= k}
<1>0. \A x \in S : x \in Nat /\ x >= 1 /\ x <= n
  OBVIOUS
<1>1. PICK m \in B : \A k \in B : m <= k
  <2>1. B \in SUBSET Nat /\ n \in B
    BY <1>0
  <2> HIDE DEF B
  <2> QED  BY <2>1, SmallestNat
<1>2. m \in Nat /\ \A x \in S : x <= m
  OBVIOUS
<1>3. ASSUME m \notin S PROVE FALSE
  <2>1. \A x \in S : x <= m - 1
    BY <1>0, <1>2, <1>3
  <2>2. m - 1 \in Nat
    <3>1. PICK x \in S : TRUE
      OBVIOUS
    <3> QED  BY <1>0, <1>2, <3>1
  <2>3. m - 1 \in B
    BY <2>1, <2>2
  <2>4. ~(m <= m - 1)
    BY <1>2
  <2> QED  BY <1>1, <2>3, <2>4
<1> QED  BY <1>2, <1>3

\* The window of p goes on if p was still among the last contacts, and starts
\* again if it was not.
LEMMA AgainKept ==
    ASSUME NEW n \in Nat, NEW P, IsPlaces(P, n), NEW p \in Contacts
    PROVE  KeptIn(HeardAgain(P, p, n), p)
              = IF P[p] # {} /\ Cardinality(SinceIn(P, p)) < MaxContacts
                THEN KeptIn(P, p) \cup {n + 1} ELSE {n + 1}
<1> DEFINE G == HeardAgain(P, p, n)
           N == n + 1
           Stays(x, y) == Cardinality(MeanwhileIn(P, p, x, y)) < MaxContacts
<1>1. /\ G[p] = P[p] \cup {N}
      /\ \A r \in Contacts \ {p} : G[r] = P[r]
      /\ \A r \in Contacts : \A x \in P[r] : x \in Nat /\ x < N /\ ~(N <= x) /\ x # N
  BY AgainPlaces
<1>2. P[p] \in SUBSET (1..n)
  BY DEF IsPlaces
<1>2a. N \in Nat /\ \A x \in Nat : x < N => ~(N < x) /\ x <= N
  OBVIOUS
<1> HIDE DEF G, N
<1>3. \A x, y : MeanwhileIn(G, p, x, y) = MeanwhileIn(P, p, x, y)
  BY <1>1 DEF MeanwhileIn
<1>4. \A x, y \in P[p] : Follows(G, p, x, y) <=> Follows(P, p, x, y)
  BY <1>1, <1>2a DEF Follows
<1>5. \A y \in G[p] : ~Follows(G, p, N, y)
  <2>1. ~(N < N)
    BY <1>2a
  <2> QED  BY <1>1, <1>2a, <2>1 DEF Follows
<1>6. KeptIn(G, p) = {k \in G[p] : \A x, y \in G[p] : k <= x /\ Follows(G, p, x, y) => Stays(x, y)}
  BY <1>3 DEF KeptIn
<1>7. KeptIn(P, p) = {k \in P[p] : \A x, y \in P[p] : k <= x /\ Follows(P, p, x, y) => Stays(x, y)}
  BY DEF KeptIn
<1> HIDE DEF Stays
<1>8. N \in KeptIn(G, p)
  <2>1. ASSUME NEW x \in G[p], NEW y \in G[p], N <= x PROVE ~Follows(G, p, x, y)
    <3>1. x = N
      BY <1>1, <2>1
    <3> QED  BY <1>5, <3>1
  <2> QED  BY <1>1, <1>6, <2>1
<1>9. CASE P[p] = {}
  <2>1. G[p] = {N} /\ KeptIn(G, p) \subseteq G[p]
    BY <1>1, <1>6, <1>9
  <2> QED  BY <1>8, <1>9, <2>1 DEF G, N
<1>10. CASE P[p] # {}
  <2>1. PICK m \in P[p] : \A x \in P[p] : x <= m
    BY <1>2, <1>10, LastPlace
  <2>2. \A x \in P[p] : x \in Nat
    BY <1>2
  <2>3. MeanwhileIn(P, p, m, N) = SinceIn(P, p)
    <3>1. ASSUME NEW q \in Contacts \ {p}, NEW z \in P[q]
          PROVE  (m < z /\ z < N) <=> \A x \in P[p] : x < z
      <4>1. z \in Nat /\ z < N
        BY <1>1
      <4>2. \A x, y, w \in Nat : x <= y /\ y < w => x < w
        OBVIOUS
      <4> QED  BY <2>1, <2>2, <4>1, <4>2
    <3> QED  BY <3>1 DEF MeanwhileIn, SinceIn
  <2>4. Follows(G, p, m, N)
    BY <1>1, <1>2a, <2>1, <2>2 DEF Follows
  <2>5. \A x \in P[p] : Follows(G, p, x, N) => x = m
    <3>1. \A x, y \in Nat : x <= y /\ y <= x => x = y
      OBVIOUS
    <3> QED  BY <1>1, <2>1, <2>2, <3>1 DEF Follows
  <2>6. CASE Stays(m, N)
    <3>1. ASSUME NEW k \in P[p] PROVE k \in KeptIn(G, p) <=> k \in KeptIn(P, p)
      <4>1. ASSUME k \in KeptIn(G, p) PROVE k \in KeptIn(P, p)
        BY <1>1, <1>4, <1>6, <1>7, <4>1
      <4>2. ASSUME k \in KeptIn(P, p), NEW x \in G[p], NEW y \in G[p], k <= x, Follows(G, p, x, y)
            PROVE  Stays(x, y)
        <5>1. x # N
          BY <1>5, <4>2
        <5>2. x \in P[p]
          BY <1>1, <5>1
        <5>3. CASE y = N
          BY <2>5, <2>6, <4>2, <5>2, <5>3
        <5>4. CASE y # N
          <6>1. y \in P[p]
            BY <1>1, <5>4
          <6> QED  BY <1>4, <1>7, <4>2, <5>2, <6>1
        <5> QED  BY <5>3, <5>4
      <4> QED  BY <1>1, <1>6, <4>1, <4>2
    <3>2. KeptIn(G, p) = KeptIn(P, p) \cup {N}
      <4>1. KeptIn(G, p) \subseteq P[p] \cup {N} /\ KeptIn(P, p) \subseteq P[p]
        BY <1>1, <1>6, <1>7
      <4> QED  BY <1>8, <3>1, <4>1
    <3>3. Cardinality(SinceIn(P, p)) < MaxContacts
      BY <2>3, <2>6 DEF Stays
    <3> QED  BY <1>10, <3>2, <3>3 DEF G, N
  <2>7. CASE ~Stays(m, N)
    <3>1. ASSUME NEW k \in KeptIn(G, p), k # N PROVE FALSE
      <4>1. k \in P[p] /\ m \in G[p] /\ N \in G[p]
        BY <1>1, <1>6, <3>1
      <4>2. k <= m
        BY <2>1, <4>1
      <4> QED  BY <1>6, <2>4, <2>7, <4>1, <4>2
    <3>2. KeptIn(G, p) = {N}
      BY <1>8, <3>1
    <3>3. ~(Cardinality(SinceIn(P, p)) < MaxContacts)
      BY <2>3, <2>7 DEF Stays
    <3> QED  BY <3>2, <3>3 DEF G, N
  <2> QED  BY <2>6, <2>7
<1> QED  BY <1>9, <1>10

-----------------------------------------------------------------------------
(* The contacts' windows, least recently active first. *)

Held == [peer : Contacts, ring : Seq(Nat)]
PeerOf(c, i) == c[i].peer
RingOf(c, i) == c[i].ring
Members(c) == {PeerOf(c, j) : j \in 1..Len(c)}
Behind(c, i) == {PeerOf(c, j) : j \in (i + 1)..Len(c)}

\* Behind a contact stand the ones heard since; who was heard and has no window
\* was followed by as many others as there are windows.
IsLru(c, P) ==
    /\ c \in Seq(Held)
    /\ Len(c) <= MaxContacts
    /\ IsFiniteSet(HeardIn(P))
    /\ \A i \in 1..Len(c) : /\ PeerOf(c, i) \in HeardIn(P)
                            /\ SinceIn(P, PeerOf(c, i)) = Behind(c, i)
                            /\ IsRing(RingOf(c, i), KeptIn(P, PeerOf(c, i)))
    /\ \A q \in HeardIn(P) \ Members(c) : Len(c) = MaxContacts /\ Members(c) \subseteq SinceIn(P, q)

\* What a held window is, and that no contact has two.
LEMMA LruEntries ==
    ASSUME NEW c, NEW P, IsLru(c, P)
    PROVE  /\ Len(c) \in Nat /\ DOMAIN c = 1..Len(c)
           /\ \A i \in 1..Len(c) : /\ PeerOf(c, i) \in Contacts /\ RingOf(c, i) \in Seq(Nat)
                                   /\ c[i] = [peer |-> PeerOf(c, i), ring |-> RingOf(c, i)]
           /\ \A i, j \in 1..Len(c) : PeerOf(c, i) = PeerOf(c, j) => i = j
<1>1. c \in Seq(Held) /\ Len(c) \in Nat /\ DOMAIN c = 1..Len(c) /\ \A i \in 1..Len(c) : c[i] \in Held
  BY DEF IsLru
<1>2. \A i \in 1..Len(c) : /\ PeerOf(c, i) \in Contacts /\ RingOf(c, i) \in Seq(Nat)
                           /\ c[i] = [peer |-> PeerOf(c, i), ring |-> RingOf(c, i)]
  BY <1>1 DEF Held, PeerOf, RingOf
<1>3. ASSUME NEW i \in 1..Len(c), NEW j \in 1..Len(c), i < j PROVE PeerOf(c, i) # PeerOf(c, j)
  <2>1. j \in (i + 1)..Len(c)
    BY <1>1, <1>3
  <2>2. PeerOf(c, j) \in SinceIn(P, PeerOf(c, i))
    BY <2>1 DEF IsLru, Behind
  <2> QED  BY <2>2 DEF SinceIn
<1>4. \A i, j \in 1..Len(c) : i < j \/ j < i \/ i = j
  BY <1>1
<1> QED  BY <1>1, <1>2, <1>3, <1>4

\* The contacts that have a window are the ones most recently active.
LEMMA LruMembers ==
    ASSUME NEW c, NEW P, IsLru(c, P)
    PROVE  Members(c) = {p \in HeardIn(P) : Cardinality(SinceIn(P, p)) < MaxContacts}
<1>1. /\ Len(c) \in Nat /\ MaxContacts \in Nat /\ Len(c) <= MaxContacts
      /\ \A i, j \in 1..Len(c) : PeerOf(c, i) = PeerOf(c, j) => i = j
  BY LruEntries, ReceptionAssumption DEF IsLru
<1>2. ASSUME NEW p \in HeardIn(P)
      PROVE  IsFiniteSet(SinceIn(P, p)) /\ Cardinality(SinceIn(P, p)) \in Nat
  <2>1. SinceIn(P, p) \in SUBSET HeardIn(P)
    BY DEF SinceIn, HeardIn
  <2>2. IsFiniteSet(HeardIn(P))
    BY DEF IsLru
  <2> QED  BY <2>1, <2>2, FS_Subset, FS_CardinalityType
<1>3. ASSUME NEW i \in 1..Len(c)
      PROVE  PeerOf(c, i) \in HeardIn(P) /\ Cardinality(SinceIn(P, PeerOf(c, i))) < MaxContacts
  <2> DEFINE f == [j \in (i + 1)..Len(c) |-> PeerOf(c, j)]
  <2>1. PeerOf(c, i) \in HeardIn(P) /\ SinceIn(P, PeerOf(c, i)) = Behind(c, i)
    BY DEF IsLru
  <2>2. f \in Surjection((i + 1)..Len(c), Behind(c, i))
    BY DEF Surjection, Behind
  <2>3. i + 1 \in Int /\ Len(c) \in Int
    BY <1>1
  <2>4. /\ IsFiniteSet((i + 1)..Len(c))
        /\ Cardinality((i + 1)..Len(c))
             = IF i + 1 > Len(c) THEN 0 ELSE Len(c) - (i + 1) + 1
    BY <2>3, FS_Interval
  <2> HIDE DEF f
  <2>5. Cardinality(Behind(c, i)) <= Cardinality((i + 1)..Len(c))
    BY <2>2, <2>4, FS_Surjection
  <2>6. Cardinality(Behind(c, i)) \in Nat
    BY <1>2, <2>1
  <2>7. Cardinality((i + 1)..Len(c)) \in Nat /\ Cardinality((i + 1)..Len(c)) < Len(c)
    BY <1>1, <2>4
  <2>8. \A x, y \in Nat : x <= y /\ y < Len(c) => x < MaxContacts
    BY <1>1
  <2> QED  BY <2>1, <2>5, <2>6, <2>7, <2>8
<1>4. ASSUME NEW p \in HeardIn(P), p \notin Members(c)
      PROVE  ~(Cardinality(SinceIn(P, p)) < MaxContacts)
  <2> DEFINE g == [j \in 1..Len(c) |-> PeerOf(c, j)]
  <2>1. Len(c) = MaxContacts /\ Members(c) \subseteq SinceIn(P, p)
    BY <1>4 DEF IsLru
  <2>2. g \in Injection(1..Len(c), SinceIn(P, p))
    BY <1>1, <2>1 DEF Injection, IsInjective, Members
  <2> HIDE DEF g
  <2>3. Cardinality(1..Len(c)) <= Cardinality(SinceIn(P, p))
    BY <1>2, <2>2, FS_Injection
  <2>4. Cardinality(1..Len(c)) = MaxContacts
    BY <1>1, <2>1, FS_Interval
  <2> QED  BY <1>1, <1>2, <2>3, <2>4
<1> QED  BY <1>3, <1>4 DEF Members

\* p comes to the end of d; before it stand contacts of c in their order, the
\* ones from some place of c on but for p.
LEMMA LruStep ==
    ASSUME NEW n \in Nat, NEW P, IsPlaces(P, n), NEW p \in Contacts, NEW c, IsLru(c, P),
           NEW d \in Seq(Held), NEW m \in Nat, Len(d) = m + 1, m + 1 <= MaxContacts,
           PeerOf(d, m + 1) = p, IsRing(RingOf(d, m + 1), KeptIn(HeardAgain(P, p, n), p)),
           NEW s \in [1..m -> 1..Len(c)],
           \A i \in 1..m : /\ PeerOf(d, i) = PeerOf(c, s[i]) /\ RingOf(d, i) = RingOf(c, s[i])
                           /\ PeerOf(c, s[i]) # p,
           \A i, j \in 1..m : i < j => s[i] < s[j],
           \A k \in 1..Len(c) : \A i \in 1..m :
              s[i] < k /\ PeerOf(c, k) # p => \E j \in 1..m : i < j /\ s[j] = k,
           \A q \in HeardIn(P) \ Members(d) : q # p =>
              m + 1 = MaxContacts /\ \A i \in 1..m : PeerOf(c, s[i]) \in SinceIn(P, q)
    PROVE  IsLru(d, HeardAgain(P, p, n))
<1> DEFINE G == HeardAgain(P, p, n)
<1>1. /\ HeardIn(G) = HeardIn(P) \cup {p}
      /\ SinceIn(G, p) = {}
      /\ \A q \in Contacts \ {p} : SinceIn(G, q) = SinceIn(P, q) \cup {p} /\ KeptIn(G, q) = KeptIn(P, q)
  <2>1. \A q \in Contacts \ {p} : KeptIn(G, q) = KeptIn(P, q)
    BY AgainOtherKept
  <2> QED  BY <2>1, AgainHeard, AgainSince
<1>2. Len(c) \in Nat /\ \A i \in 1..Len(c) : PeerOf(c, i) \in Contacts
  BY LruEntries
<1>3. IsRing(RingOf(d, m + 1), KeptIn(G, p))
  OBVIOUS
<1> HIDE DEF G
<1>4. IsFiniteSet(HeardIn(G))
  <2>1. IsFiniteSet(HeardIn(P))
    BY DEF IsLru
  <2>2. IsFiniteSet(HeardIn(P) \cup {p})
    BY <2>1, FS_AddElement
  <2> QED  BY <1>1, <2>2
<1>5. ASSUME NEW i \in 1..m
      PROVE  /\ PeerOf(d, i) \in HeardIn(G)
             /\ SinceIn(G, PeerOf(d, i)) = Behind(d, i)
             /\ IsRing(RingOf(d, i), KeptIn(G, PeerOf(d, i)))
  <2>1. /\ s[i] \in 1..Len(c) /\ PeerOf(d, i) = PeerOf(c, s[i]) /\ RingOf(d, i) = RingOf(c, s[i])
        /\ PeerOf(c, s[i]) \in Contacts \ {p}
    BY <1>2
  <2>2. /\ PeerOf(c, s[i]) \in HeardIn(P) /\ SinceIn(P, PeerOf(c, s[i])) = Behind(c, s[i])
        /\ IsRing(RingOf(c, s[i]), KeptIn(P, PeerOf(c, s[i])))
    BY <2>1 DEF IsLru
  <2>3. Behind(c, s[i]) \cup {p} = Behind(d, i)
    <3>1. ASSUME NEW q \in Behind(c, s[i]), q # p PROVE q \in Behind(d, i)
      <4>1. PICK k \in (s[i] + 1)..Len(c) : q = PeerOf(c, k)
        BY DEF Behind
      <4>2. k \in 1..Len(c) /\ s[i] < k
        BY <1>2, <2>1
      <4>3. PICK j \in 1..m : i < j /\ s[j] = k
        BY <3>1, <4>1, <4>2
      <4>4. j \in (i + 1)..Len(d)
        BY <4>3
      <4>5. PeerOf(d, j) = q
        BY <4>1, <4>3
      <4> QED  BY <4>4, <4>5 DEF Behind
    <3>2. p \in Behind(d, i)
      <4>1. m + 1 \in (i + 1)..Len(d)
        OBVIOUS
      <4> QED  BY <4>1 DEF Behind
    <3>3. ASSUME NEW q \in Behind(d, i), q # p PROVE q \in Behind(c, s[i])
      <4>1. PICK j \in (i + 1)..Len(d) : q = PeerOf(d, j)
        BY DEF Behind
      <4>2. j # m + 1
        BY <3>3, <4>1
      <4>3. j \in 1..m /\ i < j
        BY <4>1, <4>2
      <4>4. s[i] < s[j] /\ s[j] \in 1..Len(c) /\ PeerOf(d, j) = PeerOf(c, s[j])
        BY <4>3
      <4>5. s[j] \in (s[i] + 1)..Len(c)
        BY <1>2, <2>1, <4>4
      <4> QED  BY <4>1, <4>4, <4>5 DEF Behind
    <3> QED  BY <3>1, <3>2, <3>3
  <2> QED  BY <1>1, <2>1, <2>2, <2>3
<1>6. /\ PeerOf(d, m + 1) \in HeardIn(G)
      /\ SinceIn(G, PeerOf(d, m + 1)) = Behind(d, m + 1)
      /\ IsRing(RingOf(d, m + 1), KeptIn(G, PeerOf(d, m + 1)))
  <2>1. (m + 1 + 1)..Len(d) = {}
    OBVIOUS
  <2>2. Behind(d, m + 1) = {}
    BY <2>1 DEF Behind
  <2> QED  BY <1>1, <1>3, <2>2
<1>7. \A i \in 1..Len(d) : /\ PeerOf(d, i) \in HeardIn(G)
                           /\ SinceIn(G, PeerOf(d, i)) = Behind(d, i)
                           /\ IsRing(RingOf(d, i), KeptIn(G, PeerOf(d, i)))
  <2>1. \A i \in 1..Len(d) : i \in 1..m \/ i = m + 1
    OBVIOUS
  <2> QED  BY <1>5, <1>6, <2>1
<1>8. ASSUME NEW q \in HeardIn(G) \ Members(d)
      PROVE  Len(d) = MaxContacts /\ Members(d) \subseteq SinceIn(G, q)
  <2>1. p \in Members(d)
    <3>1. m + 1 \in 1..Len(d)
      OBVIOUS
    <3> QED  BY <3>1 DEF Members
  <2>2. q # p /\ q \in HeardIn(P) \ Members(d) /\ q \in Contacts \ {p}
    BY <1>1, <2>1 DEF HeardIn
  <2>3. /\ m + 1 = MaxContacts /\ \A i \in 1..m : PeerOf(c, s[i]) \in SinceIn(P, q)
        /\ SinceIn(G, q) = SinceIn(P, q) \cup {p}
    BY <1>1, <2>2
  <2>4. ASSUME NEW r \in Members(d) PROVE r \in SinceIn(G, q)
    <3>1. PICK j \in 1..Len(d) : r = PeerOf(d, j)
      BY DEF Members
    <3>2. j \in 1..m \/ j = m + 1
      OBVIOUS
    <3> QED  BY <2>3, <3>1, <3>2
  <2> QED  BY <2>3, <2>4
<1> QED  BY <1>4, <1>7, <1>8 DEF IsLru, G

\* What RemoveAt leaves.
LEMMA RemovedAt ==
    ASSUME NEW S, NEW c \in Seq(S), NEW a \in 1..Len(c)
    PROVE  /\ RemoveAt(c, a) \in Seq(S) /\ Len(RemoveAt(c, a)) = Len(c) - 1
           /\ \A i \in 1..(Len(c) - 1) : RemoveAt(c, a)[i] = IF i < a THEN c[i] ELSE c[i + 1]
<1> DEFINE u == SubSeq(c, 1, a - 1)
           v == SubSeq(c, a + 1, Len(c))
<1>0. Len(c) \in Nat /\ a \in Nat /\ 1 <= a /\ a <= Len(c)
  OBVIOUS
<1>1. u \in Seq(S) /\ Len(u) = a - 1 /\ \A i \in 1..(a - 1) : u[i] = c[i]
  BY <1>0
<1>2. v \in Seq(S) /\ Len(v) = Len(c) - a /\ \A i \in 1..(Len(c) - a) : v[i] = c[a + i]
  BY <1>0
<1>3. RemoveAt(c, a) = u \o v
  BY DEF RemoveAt
<1> HIDE DEF u, v
<1>4. /\ u \o v \in Seq(S) /\ Len(u \o v) = Len(c) - 1
      /\ \A i \in 1..(a - 1) : (u \o v)[i] = u[i]
      /\ \A i \in a..(Len(c) - 1) : (u \o v)[i] = v[i - (a - 1)]
  BY <1>0, <1>1, <1>2
<1>5. ASSUME NEW i \in 1..(Len(c) - 1) PROVE (u \o v)[i] = IF i < a THEN c[i] ELSE c[i + 1]
  <2>1. CASE i < a
    <3>1. i \in 1..(a - 1)
      BY <1>0, <2>1
    <3> QED  BY <1>1, <1>4, <2>1, <3>1
  <2>2. CASE ~(i < a)
    <3>1. i \in a..(Len(c) - 1) /\ i - (a - 1) \in 1..(Len(c) - a) /\ a + (i - (a - 1)) = i + 1
      BY <1>0, <2>2
    <3> QED  BY <1>2, <1>4, <2>2, <3>1
  <2> QED  BY <2>1, <2>2
<1> QED  BY <1>3, <1>4, <1>5

\* p, without a window so far, gets one, as long as there are windows left.
LEMMA AdmitLru ==
    ASSUME NEW n \in Nat, NEW P, IsPlaces(P, n), NEW p \in Contacts, NEW c, IsLru(c, P),
           p \notin Members(c), NEW r \in Seq(Nat), IsRing(r, KeptIn(HeardAgain(P, p, n), p)),
           Len(c) + 1 <= MaxContacts
    PROVE  IsLru(Append(c, [peer |-> p, ring |-> r]), HeardAgain(P, p, n))
<1> DEFINE m == Len(c)
           e == [peer |-> p, ring |-> r]
           d == Append(c, e)
           s == [i \in 1..m |-> i]
<1>1. m \in Nat /\ m = Len(c) /\ c \in Seq(Held) /\ MaxContacts \in Nat
  BY LruEntries, ReceptionAssumption DEF IsLru
<1>2. e \in Held /\ e.peer = p /\ e.ring = r
  BY DEF Held
<1> HIDE DEF e
<1>3. d \in Seq(Held) /\ Len(d) = m + 1 /\ d[m + 1] = e /\ \A i \in 1..m : d[i] = c[i]
  BY <1>1, <1>2
<1>4. /\ PeerOf(d, m + 1) = p /\ RingOf(d, m + 1) = r
      /\ \A i \in 1..m : PeerOf(d, i) = PeerOf(c, i) /\ RingOf(d, i) = RingOf(c, i)
  BY <1>2, <1>3 DEF PeerOf, RingOf
<1>5. \A i \in 1..m : PeerOf(c, i) # p
  BY DEF Members
<1>6. s \in [1..m -> 1..Len(c)] /\ \A i \in 1..m : s[i] = i
  OBVIOUS
<1>7. ASSUME NEW q \in HeardIn(P) \ Members(d), q # p PROVE FALSE
  <2>1. q \notin Members(c)
    <3>1. \A i \in 1..m : i \in 1..Len(d)
      BY <1>1, <1>3
    <3> QED  BY <1>4, <1>7, <3>1 DEF Members
  <2>2. Len(c) = MaxContacts
    BY <1>7, <2>1 DEF IsLru
  <2> QED  BY <1>1, <2>2
<1> HIDE DEF d, s, m
<1>8. IsLru(d, HeardAgain(P, p, n))
  <2>1. m + 1 <= MaxContacts /\ IsRing(RingOf(d, m + 1), KeptIn(HeardAgain(P, p, n), p))
    BY <1>1, <1>4
  <2>2. \A i \in 1..m : /\ PeerOf(d, i) = PeerOf(c, s[i]) /\ RingOf(d, i) = RingOf(c, s[i])
                        /\ PeerOf(c, s[i]) # p
    BY <1>4, <1>5, <1>6
  <2>3. /\ \A i, j \in 1..m : i < j => s[i] < s[j]
        /\ \A k \in 1..Len(c) : \A i \in 1..m :
              s[i] < k /\ PeerOf(c, k) # p => \E j \in 1..m : i < j /\ s[j] = k
    BY <1>1, <1>6
  <2>4. \A q \in HeardIn(P) \ Members(d) : q # p =>
           m + 1 = MaxContacts /\ \A i \in 1..m : PeerOf(c, s[i]) \in SinceIn(P, q)
    BY <1>7
  <2>5. m \in Nat /\ d \in Seq(Held) /\ Len(d) = m + 1
    BY <1>1, <1>3
  <2> QED  BY <1>4, <1>6, <2>1, <2>2, <2>3, <2>4, <2>5, LruStep
<1> QED  BY <1>8 DEF d, e

\* With every window taken the least recently active contact loses its own.
LEMMA EvictLru ==
    ASSUME NEW n \in Nat, NEW P, IsPlaces(P, n), NEW p \in Contacts, NEW c, IsLru(c, P),
           p \notin Members(c), NEW r \in Seq(Nat), IsRing(r, KeptIn(HeardAgain(P, p, n), p)),
           ~(Len(c) + 1 <= MaxContacts)
    PROVE  IsLru(Tail(Append(c, [peer |-> p, ring |-> r])), HeardAgain(P, p, n))
<1> DEFINE e == [peer |-> p, ring |-> r]
           m == Len(c) - 1
           d == Tail(Append(c, e))
           s == [i \in 1..m |-> i + 1]
<1>1. Len(c) = MaxContacts /\ m \in Nat /\ Len(c) = m + 1 /\ c \in Seq(Held) /\ Len(c) \in Nat
  <2>1. /\ Len(c) \in Nat /\ c \in Seq(Held) /\ MaxContacts \in Nat /\ MaxContacts # 0
        /\ Len(c) <= MaxContacts
    BY LruEntries, ReceptionAssumption DEF IsLru
  <2> QED  BY <2>1
<1>2. e \in Held /\ e.peer = p /\ e.ring = r
  BY DEF Held
<1> HIDE DEF e
<1>3. d \in Seq(Held) /\ Len(d) = m + 1 /\ d[m + 1] = e /\ \A i \in 1..m : d[i] = c[i + 1]
  BY <1>1, <1>2
<1>4. /\ PeerOf(d, m + 1) = p /\ RingOf(d, m + 1) = r
      /\ \A i \in 1..m : PeerOf(d, i) = PeerOf(c, i + 1) /\ RingOf(d, i) = RingOf(c, i + 1)
  BY <1>2, <1>3 DEF PeerOf, RingOf
<1>5. \A i \in 1..Len(c) : PeerOf(c, i) # p
  BY DEF Members
<1>6. s \in [1..m -> 1..Len(c)] /\ \A i \in 1..m : s[i] = i + 1
  BY <1>1
<1>7. ASSUME NEW q \in HeardIn(P) \ Members(d), q # p, NEW i \in 1..m PROVE PeerOf(c, s[i]) \in SinceIn(P, q)
  <2>1. CASE q \in Members(c)
    <3>1. PICK k \in 1..Len(c) : q = PeerOf(c, k)
      BY <2>1 DEF Members
    <3>2. ASSUME k # 1 PROVE FALSE
      <4>1. k - 1 \in 1..m /\ k - 1 \in 1..Len(d) /\ (k - 1) + 1 = k
        BY <1>1, <1>3, <3>2
      <4>2. PeerOf(d, k - 1) = q
        BY <1>4, <3>1, <4>1
      <4> QED  BY <1>7, <4>1, <4>2 DEF Members
    <3>3. SinceIn(P, q) = Behind(c, 1)
      BY <3>1, <3>2 DEF IsLru
    <3>4. s[i] \in (1 + 1)..Len(c)
      BY <1>1, <1>6
    <3> QED  BY <3>3, <3>4 DEF Behind
  <2>2. CASE q \notin Members(c)
    <3>1. Members(c) \subseteq SinceIn(P, q)
      BY <1>7, <2>2 DEF IsLru
    <3> QED  BY <1>6, <3>1 DEF Members
  <2> QED  BY <2>1, <2>2
<1> HIDE DEF d, s, m
<1>8. IsLru(d, HeardAgain(P, p, n))
  <2>1. m + 1 = MaxContacts /\ m + 1 <= MaxContacts /\ IsRing(RingOf(d, m + 1), KeptIn(HeardAgain(P, p, n), p))
    BY <1>1, <1>4
  <2>2. \A i \in 1..m : /\ PeerOf(d, i) = PeerOf(c, s[i]) /\ RingOf(d, i) = RingOf(c, s[i])
                        /\ PeerOf(c, s[i]) # p
    BY <1>4, <1>5, <1>6
  <2>3. \A i, j \in 1..m : i < j => s[i] < s[j]
    BY <1>6
  <2>4. ASSUME NEW k \in 1..Len(c), NEW i \in 1..m, s[i] < k PROVE \E j \in 1..m : i < j /\ s[j] = k
    <3>1. k - 1 \in 1..m /\ i < k - 1 /\ (k - 1) + 1 = k
      BY <1>1, <1>6, <2>4
    <3> QED  BY <1>6, <3>1
  <2>5. \A k \in 1..Len(c) : \A i \in 1..m :
           s[i] < k /\ PeerOf(c, k) # p => \E j \in 1..m : i < j /\ s[j] = k
    BY <2>4
  <2>6. \A q \in HeardIn(P) \ Members(d) : q # p =>
           m + 1 = MaxContacts /\ \A i \in 1..m : PeerOf(c, s[i]) \in SinceIn(P, q)
    BY <1>7, <2>1
  <2> QED  BY <1>1, <1>3, <1>4, <1>6, <2>1, <2>2, <2>3, <2>5, <2>6, LruStep
<1> QED  BY <1>8 DEF d, e

\* p goes from where it stands to the end (move_to_end).
LEMMA MoveLru ==
    ASSUME NEW n \in Nat, NEW P, IsPlaces(P, n), NEW p \in Contacts, NEW c, IsLru(c, P),
           NEW a \in 1..Len(c), PeerOf(c, a) = p,
           NEW r \in Seq(Nat), IsRing(r, KeptIn(HeardAgain(P, p, n), p))
    PROVE  /\ IsLru(Append(RemoveAt(c, a), [peer |-> p, ring |-> r]), HeardAgain(P, p, n))
           /\ Len(Append(RemoveAt(c, a), [peer |-> p, ring |-> r])) <= MaxContacts
<1> DEFINE e == [peer |-> p, ring |-> r]
           b == RemoveAt(c, a)
           m == Len(c) - 1
           d == Append(b, e)
           s == [i \in 1..m |-> IF i < a THEN i ELSE i + 1]
<1>1. /\ m \in Nat /\ Len(c) = m + 1 /\ c \in Seq(Held) /\ Len(c) \in Nat /\ a \in Nat
      /\ 1 <= a /\ a <= m + 1 /\ Len(c) <= MaxContacts
      /\ \A i, j \in 1..Len(c) : PeerOf(c, i) = PeerOf(c, j) => i = j
  <2>1. /\ Len(c) \in Nat /\ c \in Seq(Held) /\ Len(c) <= MaxContacts
        /\ \A i, j \in 1..Len(c) : PeerOf(c, i) = PeerOf(c, j) => i = j
    BY LruEntries DEF IsLru
  <2> QED  BY <2>1
<1>2. e \in Held /\ e.peer = p /\ e.ring = r
  BY DEF Held
<1>3. b \in Seq(Held) /\ Len(b) = m /\ \A i \in 1..m : b[i] = IF i < a THEN c[i] ELSE c[i + 1]
  BY <1>1, RemovedAt
<1>4. s \in [1..m -> 1..Len(c)] /\ \A i \in 1..m : s[i] = IF i < a THEN i ELSE i + 1
  BY <1>1
<1> HIDE DEF e, b, s, m
<1>5. d \in Seq(Held) /\ Len(d) = m + 1 /\ d[m + 1] = e /\ \A i \in 1..m : d[i] = b[i]
  BY <1>1, <1>2, <1>3
<1>6. /\ PeerOf(d, m + 1) = p /\ RingOf(d, m + 1) = r
      /\ \A i \in 1..m : PeerOf(d, i) = PeerOf(c, s[i]) /\ RingOf(d, i) = RingOf(c, s[i])
  BY <1>2, <1>3, <1>4, <1>5 DEF PeerOf, RingOf
<1>7. \A i \in 1..m : s[i] \in 1..Len(c) /\ s[i] # a
  BY <1>1, <1>4
<1>8. \A i \in 1..m : PeerOf(c, s[i]) # p
  BY <1>1, <1>7
<1> HIDE DEF d
<1>9. \A i, j \in 1..m : i < j => s[i] < s[j]
  BY <1>1, <1>4
<1>10. ASSUME NEW k \in 1..Len(c), NEW i \in 1..m, s[i] < k, k # a PROVE \E j \in 1..m : i < j /\ s[j] = k
  <2> DEFINE j == IF k < a THEN k ELSE k - 1
  <2>0. k \in 1..(m + 1) /\ (IF i < a THEN i ELSE i + 1) < k
    BY <1>1, <1>4, <1>10
  <2>1. j \in 1..m /\ i < j /\ (IF j < a THEN j ELSE j + 1) = k
    <3>1. CASE k < a
      BY <1>1, <2>0, <3>1
    <3>2. CASE ~(k < a)
      BY <1>1, <1>10, <2>0, <3>2
    <3> QED  BY <3>1, <3>2
  <2> HIDE DEF j
  <2> QED  BY <1>4, <2>1
<1>11. ASSUME NEW q \in HeardIn(P) \ Members(d), q # p
       PROVE  m + 1 = MaxContacts /\ \A i \in 1..m : PeerOf(c, s[i]) \in SinceIn(P, q)
  <2>1. ASSUME q \in Members(c) PROVE FALSE
    <3>1. PICK k \in 1..Len(c) : q = PeerOf(c, k)
      BY <2>1 DEF Members
    <3>2. k # a
      BY <1>11, <3>1
    <3> DEFINE j == IF k < a THEN k ELSE k - 1
    <3>3. j \in 1..m /\ j \in 1..Len(d) /\ (IF j < a THEN j ELSE j + 1) = k
      <4>1. CASE k < a
        BY <1>1, <1>5, <4>1
      <4>2. CASE ~(k < a)
        BY <1>1, <1>5, <3>2, <4>2
      <4> QED  BY <4>1, <4>2
    <3> HIDE DEF j
    <3>4. PeerOf(d, j) = q
      BY <1>4, <1>6, <3>1, <3>3
    <3> QED  BY <1>11, <3>3, <3>4 DEF Members
  <2>2. Len(c) = MaxContacts /\ Members(c) \subseteq SinceIn(P, q)
    BY <1>11, <2>1 DEF IsLru
  <2> QED  BY <1>1, <1>7, <2>2 DEF Members
<1>12. IsLru(d, HeardAgain(P, p, n))
  <2>1. m + 1 <= MaxContacts /\ IsRing(RingOf(d, m + 1), KeptIn(HeardAgain(P, p, n), p))
    BY <1>1, <1>6
  <2>2. \A i \in 1..m : /\ PeerOf(d, i) = PeerOf(c, s[i]) /\ RingOf(d, i) = RingOf(c, s[i])
                        /\ PeerOf(c, s[i]) # p
    BY <1>6, <1>8
  <2>3. \A k \in 1..Len(c) : \A i \in 1..m :
           s[i] < k /\ PeerOf(c, k) # p => \E j \in 1..m : i < j /\ s[j] = k
    BY <1>10
  <2> QED  BY <1>1, <1>4, <1>5, <1>6, <1>9, <1>11, <2>1, <2>2, <2>3, LruStep
<1>13. Len(d) <= MaxContacts
  BY <1>1, <1>5
<1> QED  BY <1>12, <1>13 DEF d, e, b

-----------------------------------------------------------------------------
(* The windows of the program. *)

PlacesNow == [q \in Contacts |-> Places(q)]

WindowsInv ==
    /\ history \in Seq(Peers)
    /\ rings \in [Channels -> Seq(Nat)]
    /\ \A c \in Channels : IsRing(rings[c], Places(c))
    /\ IsLru(contacts, PlacesNow)

\* The places are places in the history.
LEMMA PlacesTypes ==
    ASSUME history \in Seq(Peers)
    PROVE  /\ Len(history) \in Nat
           /\ \A q : Places(q) \in SUBSET (1..Len(history))
           /\ IsPlaces(PlacesNow, Len(history))
           /\ \A q \in Contacts : PlacesNow[q] = Places(q)
<1>1. Len(history) \in Nat /\ DOMAIN history = 1..Len(history)
  OBVIOUS
<1>2. \A q : Places(q) \in SUBSET (1..Len(history))
  BY <1>1 DEF Places
<1> QED  BY <1>1, <1>2 DEF IsPlaces, PlacesNow

\* The peer of a recorded message has one place more.
LEMMA PlacesAppended ==
    ASSUME history \in Seq(Peers), NEW p \in Peers, history' = Append(history, p)
    PROVE  /\ Places(p)' = Places(p) \cup {Len(history) + 1}
           /\ \A q : q # p => Places(q)' = Places(q)
<1> DEFINE n == Len(history)
<1>1. /\ n \in Nat /\ DOMAIN history = 1..n /\ DOMAIN (history') = 1..(n + 1)
      /\ history'[n + 1] = p /\ \A i \in 1..n : history'[i] = history[i]
  OBVIOUS
<1>2. 1..(n + 1) = (1..n) \cup {n + 1} /\ n + 1 \notin 1..n
  BY <1>1
<1>3. \A q : /\ Places(q) = {i \in 1..n : history[i] = q}
             /\ Places(q)' = {i \in (1..n) \cup {n + 1} : history'[i] = q}
  BY <1>1, <1>2 DEF Places
<1> HIDE DEF n
<1>4. Places(p)' = Places(p) \cup {n + 1}
  BY <1>1, <1>3
<1>5. \A q : q # p => Places(q)' = Places(q)
  BY <1>1, <1>3
<1> QED  BY <1>4, <1>5 DEF n

\* _contact_window and the append: the windows are again the most recent ones.
LEMMA ContactWindowLru ==
    ASSUME WindowsInv, NEW p \in Contacts, Window # 0
    PROVE  IsLru(ContactWindow(p, Len(history) + 1), HeardAgain(PlacesNow, p, Len(history)))
<1> DEFINE n == Len(history)
           P == PlacesNow
           G == HeardAgain(P, p, n)
           held == {i \in DOMAIN contacts : contacts[i].peer = p}
           at == CHOOSE i \in held : TRUE
           ring == IF held = {} THEN <<>> ELSE contacts[at].ring
           rest == IF held = {} THEN contacts ELSE RemoveAt(contacts, at)
           more == Append(rest, [peer |-> p, ring |-> Pushed(ring, n + 1)])
<1>1. n \in Nat /\ IsPlaces(P, n) /\ IsLru(contacts, P)
  BY PlacesTypes DEF WindowsInv
<1>2. ContactWindow(p, n + 1) = IF Len(more) > MaxContacts THEN Tail(more) ELSE more
  BY DEF ContactWindow
<1>3. /\ Len(contacts) \in Nat /\ DOMAIN contacts = 1..Len(contacts) /\ contacts \in Seq(Held)
      /\ \A i \in 1..Len(contacts) : /\ RingOf(contacts, i) = contacts[i].ring
                                      /\ PeerOf(contacts, i) = contacts[i].peer
  BY <1>1, LruEntries DEF IsLru, PeerOf, RingOf
<1>4. held = {i \in 1..Len(contacts) : PeerOf(contacts, i) = p}
  BY <1>3
<1>5. /\ KeptIn(G, p) = IF P[p] # {} /\ Cardinality(SinceIn(P, p)) < MaxContacts
                        THEN KeptIn(P, p) \cup {n + 1} ELSE {n + 1}
      /\ Members(contacts) = {q \in HeardIn(P) : Cardinality(SinceIn(P, q)) < MaxContacts}
  BY <1>1, AgainKept, LruMembers
<1>6. MaxContacts \in Nat
  BY ReceptionAssumption
<1> HIDE DEF n, P, G, held, at, ring, rest, more
<1>7. CASE held = {}
  <2> DEFINE r == Pushed(<<>>, n + 1)
  <2>1. p \notin Members(contacts)
    BY <1>4, <1>7 DEF Members
  <2>2. KeptIn(G, p) = {} \cup {n + 1}
    BY <1>5, <2>1 DEF HeardIn
  <2>3. IsRing(r, KeptIn(G, p))
    <3>1. {} \in SUBSET (1..n)
      OBVIOUS
    <3> QED  BY <1>1, <2>2, <3>1, EmptyRing, PushedRing
  <2>4. r \in Seq(Nat)
    BY <2>3 DEF IsRing
  <2> HIDE DEF r
  <2>5. more = Append(contacts, [peer |-> p, ring |-> r])
    BY <1>7 DEF more, rest, ring, r
  <2>6. Len(more) = Len(contacts) + 1
    BY <1>3, <2>5
  <2>7. CASE Len(contacts) + 1 <= MaxContacts
    <3>1. ContactWindow(p, n + 1) = more
      BY <1>2, <1>3, <1>6, <2>6, <2>7
    <3> QED  BY <1>1, <2>1, <2>3, <2>4, <2>5, <2>7, <3>1, AdmitLru DEF G, n, P
  <2>8. CASE ~(Len(contacts) + 1 <= MaxContacts)
    <3>0. Len(more) > MaxContacts
      BY <1>3, <1>6, <2>6, <2>8
    <3>1. ContactWindow(p, n + 1) = Tail(more)
      BY <1>2, <3>0
    <3> QED  BY <1>1, <2>1, <2>3, <2>4, <2>5, <2>8, <3>1, EvictLru DEF G, n, P
  <2> QED  BY <2>7, <2>8
<1>8. CASE held # {}
  <2> DEFINE r == Pushed(contacts[at].ring, n + 1)
  <2>1. at \in 1..Len(contacts) /\ PeerOf(contacts, at) = p /\ contacts[at].ring = RingOf(contacts, at)
    <3>1. at \in held
      BY <1>8 DEF at
    <3> QED  BY <1>3, <1>4, <3>1
  <2>2. p \in Members(contacts) /\ P[p] # {}
    <3>1. p \in Members(contacts)
      BY <2>1 DEF Members
    <3> QED  BY <1>5, <3>1 DEF HeardIn
  <2>3. KeptIn(G, p) = KeptIn(P, p) \cup {n + 1}
    BY <1>5, <2>2
  <2>4. IsRing(contacts[at].ring, KeptIn(P, p))
    BY <1>1, <2>1 DEF IsLru
  <2>5. KeptIn(P, p) \in SUBSET (1..n)
    BY <1>1 DEF KeptIn, IsPlaces
  <2>6. IsRing(r, KeptIn(G, p))
    BY <1>1, <2>3, <2>4, <2>5, PushedRing
  <2>7. r \in Seq(Nat)
    BY <2>6 DEF IsRing
  <2> HIDE DEF r
  <2>8. more = Append(RemoveAt(contacts, at), [peer |-> p, ring |-> r])
    BY <1>8 DEF more, rest, ring, r
  <2>9. IsLru(more, G) /\ Len(more) <= MaxContacts
    BY <1>1, <2>1, <2>6, <2>7, <2>8, MoveLru DEF G
  <2>10. ~(Len(more) > MaxContacts)
    BY <1>6, <2>9, LruEntries
  <2> QED  BY <1>2, <2>9, <2>10 DEF G, n, P
<1> QED  BY <1>7, <1>8

\* A recorded message.
LEMMA RecordWindowsInv ==
    ASSUME WindowsInv, NEW p \in Peers, RecordMessage(p)
    PROVE  WindowsInv'
<1>1. CASE p \notin Peers \/ Window = 0
  BY <1>1 DEF RecordMessage, windowVars, WindowsInv, PlacesNow, Places
<1>2. CASE Window # 0
  <2> DEFINE n == Len(history)
  <2>1. /\ history' = Append(history, p)
        /\ rings' = IF p \in Channels THEN [rings EXCEPT ![p] = Pushed(@, n + 1)] ELSE rings
        /\ contacts' = IF p \in Contacts THEN ContactWindow(p, n + 1) ELSE contacts
    BY <1>2 DEF RecordMessage
  <2>2. /\ history \in Seq(Peers) /\ rings \in [Channels -> Seq(Nat)] /\ n \in Nat
        /\ \A q : Places(q) \in SUBSET (1..n)
        /\ \A c \in Channels : IsRing(rings[c], Places(c))
    BY PlacesTypes DEF WindowsInv
  <2>3. /\ Places(p)' = Places(p) \cup {n + 1}
        /\ \A q : q # p => Places(q)' = Places(q)
    BY <2>1, <2>2, PlacesAppended
  <2>4. history' \in Seq(Peers)
    BY <2>1, <2>2
  <2> HIDE DEF n
  <2>5. Channels \cap Contacts = {} /\ Peers = Channels \cup Contacts
    BY ReceptionAssumption DEF Peers
  <2>6. CASE p \in Channels
    <3>1. /\ DOMAIN (rings') = Channels /\ rings'[p] = Pushed(rings[p], n + 1)
          /\ rings' = [c \in Channels |-> rings'[c]]
          /\ \A c \in Channels : c # p => rings'[c] = rings[c]
      BY <2>1, <2>2, <2>6
    <3>2. ASSUME NEW c \in Channels PROVE IsRing(rings'[c], Places(c)')
      <4>1. CASE c = p
        <5>1. IsRing(Pushed(rings[p], n + 1), Places(p) \cup {n + 1})
          BY <1>2, <2>2, <2>6, PushedRing
        <5> QED  BY <2>3, <3>1, <4>1, <5>1
      <4>2. CASE c # p
        BY <2>2, <2>3, <3>1, <4>2
      <4> QED  BY <4>1, <4>2
    <3>3. rings' \in [Channels -> Seq(Nat)]
      BY <3>1, <3>2 DEF IsRing
    <3>4. PlacesNow' = PlacesNow /\ contacts' = contacts
      BY <2>1, <2>3, <2>5, <2>6 DEF PlacesNow
    <3>5. IsLru(contacts', PlacesNow')
      BY <3>4 DEF WindowsInv
    <3> QED  BY <2>4, <3>2, <3>3, <3>5 DEF WindowsInv
  <2>7. CASE p \in Contacts
    <3>1. p \notin Channels /\ rings' = rings /\ contacts' = ContactWindow(p, n + 1)
      BY <2>1, <2>5, <2>7
    <3>2. \A c \in Channels : IsRing(rings'[c], Places(c)')
      BY <2>2, <2>3, <2>5, <2>7, <3>1
    <3>3. PlacesNow' = HeardAgain(PlacesNow, p, n)
      BY <2>3, <2>7 DEF PlacesNow, HeardAgain
    <3>4. IsLru(contacts', PlacesNow')
      BY <1>2, <2>7, <3>1, <3>3, ContactWindowLru DEF n
    <3> QED  BY <2>2, <2>4, <3>1, <3>2, <3>4 DEF WindowsInv
  <2> QED  BY <2>5, <2>6, <2>7
<1> QED  BY <1>1, <1>2

NoneRecorded == history = <<>> /\ contacts = <<>> /\ rings = [c \in Channels |-> <<>>]

\* No message is recorded at first, and none after the process is gone.
LEMMA NoWindows == NoneRecorded => WindowsInv
<1> SUFFICES ASSUME history = <<>>, contacts = <<>>, rings = [c \in Channels |-> <<>>]
             PROVE  WindowsInv
  BY DEF NoneRecorded
<1>1. \A q : Places(q) = {}
  BY DEF Places
<1>2. HeardIn(PlacesNow) = {}
  BY <1>1 DEF HeardIn, PlacesNow
<1>3. IsLru(contacts, PlacesNow)
  BY <1>2, ReceptionAssumption, FS_EmptySet DEF IsLru
<1> QED  BY <1>1, <1>3, EmptyRing DEF WindowsInv

\* What the invariant says is what the property says.
LEMMA WindowsInvSuffices == WindowsInv => WindowsRecent
<1> SUFFICES ASSUME WindowsInv PROVE WindowsRecent
  OBVIOUS
<1>1. /\ IsLru(contacts, PlacesNow)
      /\ \A q \in Contacts : PlacesNow[q] = Places(q)
  BY PlacesTypes DEF WindowsInv
<1>2. /\ Len(contacts) \in Nat /\ DOMAIN contacts = 1..Len(contacts)
      /\ \A i \in 1..Len(contacts) : PeerOf(contacts, i) \in Contacts
  BY <1>1, LruEntries
<1>3. \A p \in Contacts : SinceIn(PlacesNow, p) = Since(p)
  BY <1>1 DEF SinceIn, Since
<1>4. ASSUME NEW p \in Contacts PROVE KeptIn(PlacesNow, p) = Kept(p)
  <2>1. \A x, y : MeanwhileIn(PlacesNow, p, x, y) = Meanwhile(p, x, y)
    BY <1>1 DEF MeanwhileIn, Meanwhile
  <2> QED  BY <1>1, <2>1 DEF KeptIn, Kept, Follows
<1>5. \A c \in Channels : ToSet(rings[c]) = Latest(Places(c), Window)
  BY RingIsLatest DEF WindowsInv
<1>6. {contacts[i].peer : i \in DOMAIN contacts}
         = {p \in Contacts : Places(p) # {} /\ Cardinality(Since(p)) < MaxContacts}
  <2>1. {contacts[i].peer : i \in DOMAIN contacts} = Members(contacts)
    BY <1>2 DEF Members, PeerOf
  <2>2. Members(contacts) = {p \in HeardIn(PlacesNow) : Cardinality(SinceIn(PlacesNow, p)) < MaxContacts}
    BY <1>1, LruMembers
  <2> QED  BY <1>1, <1>3, <2>1, <2>2 DEF HeardIn
<1>7. ASSUME NEW i \in DOMAIN contacts
      PROVE  ToSet(contacts[i].ring) = Latest(Kept(contacts[i].peer), Window)
  <2>1. PeerOf(contacts, i) \in Contacts /\ IsRing(RingOf(contacts, i), KeptIn(PlacesNow, PeerOf(contacts, i)))
    BY <1>1, <1>2 DEF IsLru
  <2> QED  BY <1>4, <2>1, RingIsLatest DEF PeerOf, RingOf
<1> QED  BY <1>5, <1>6, <1>7 DEF WindowsRecent

\* MessageWindows, "LRU by last activity": over every run of receptions, sends,
\* stops and crashes a channel's window is its last messages, the contacts with
\* a window are the ones most recently active, and each holds its last messages
\* since it got it.
THEOREM ReceptionWindowsRecent == ReceptionSpec => []WindowsRecent
<1>1. ReceptionInit => WindowsInv
  BY NoWindows DEF ReceptionInit, NoneRecorded
<1>2. ASSUME WindowsInv, [ReceptionNext]_receptionVars PROVE WindowsInv'
  <2>1. ASSUME UNCHANGED windowVars PROVE WindowsInv'
    BY <1>2, <2>1 DEF windowVars, WindowsInv, PlacesNow, Places
  <2>2. ASSUME NEW p \in Peers \cup {NoContact, Elsewhere}, RecordMessage(p) PROVE WindowsInv'
    <3>1. CASE p \in Peers
      BY <1>2, <2>2, <3>1, RecordWindowsInv
    <3>2. CASE p \notin Peers
      BY <2>1, <2>2, <3>2 DEF RecordMessage
    <3> QED  BY <3>1, <3>2
  <2>3. CASE Fetch
    <3>1. UNCHANGED windowVars \/ \E p \in Peers \cup {NoContact, Elsewhere} : RecordMessage(p)
      BY <2>3 DEF Fetch, OnChannelMsg, OnDmMsg, ObserveRx, Peers
    <3> QED  BY <2>1, <2>2, <3>1
  <2>4. CASE Gone
    <3>1. NoneRecorded'
      BY <2>4 DEF Gone, NoneRecorded
    <3> QED  BY <3>1, NoWindows, PTL
  <2>5. CASE \E p \in Peers : Sent(p)
    <3>1. PICK p \in Peers : RecordMessage(p)
      BY <2>5 DEF Sent
    <3> QED  BY <2>2, <3>1
  <2>6. CASE \/ \E p \in Peers \cup {NoContact, Elsewhere} : Arrive(p)
             \/ Start \/ FlushGet \/ FlushEnd \/ UnsubscribeAll
    <3>1. UNCHANGED windowVars
      BY <2>6 DEF Arrive, Start, FlushGet, FlushEnd, UnsubscribeAll
    <3> QED  BY <2>1, <3>1
  <2>7. CASE UNCHANGED receptionVars
    BY <2>1, <2>7 DEF receptionVars, windowVars
  <2> QED  BY <1>2, <2>3, <2>4, <2>5, <2>6, <2>7 DEF ReceptionNext
<1> QED  BY <1>1, <1>2, WindowsInvSuffices, PTL DEF ReceptionSpec

-----------------------------------------------------------------------------
(* Packetize. *)

(* Packings as such: what _pack_words makes of a text. *)

\* The length of the first k words of t, each with one joining character.
IsSums(t, W, m) ==
    /\ W \in [0..m -> Nat]
    /\ W[0] = 0
    /\ \A k \in 1..m : W[k] = W[k - 1] + t[k] + 1

Sums(t) == CHOOSE W : IsSums(t, W, Len(t))
Upto(t, k) == Sums(t)[k]
WordLen(t, k) == t[k]

\* The sums exist.
LEMMA SumsExist ==
    ASSUME NEW t \in Seq(Nat \ {0})
    PROVE  IsSums(t, Sums(t), Len(t))
<1> DEFINE S == {m \in Nat : m <= Len(t) => \E W : IsSums(t, W, m)}
<1>0. Len(t) \in Nat /\ \A k \in 1..Len(t) : t[k] \in Nat
  OBVIOUS
<1>1. 0 \in S
  <2>1. IsSums(t, [k \in 0..0 |-> 0], 0)
    BY DEF IsSums
  <2> QED  BY <2>1
<1>2. ASSUME NEW m \in S PROVE m + 1 \in S
  <2>0. m \in Nat
    OBVIOUS
  <2> SUFFICES ASSUME m + 1 <= Len(t) PROVE \E W : IsSums(t, W, m + 1)
    BY <2>0
  <2>1. PICK W : IsSums(t, W, m)
    BY <1>0, <2>0
  <2> DEFINE V == [k \in 0..(m + 1) |-> IF k = m + 1 THEN W[m] + t[m + 1] + 1 ELSE W[k]]
  <2>2. m + 1 \in 1..Len(t) /\ m \in 0..m
    BY <1>0, <2>0
  <2>3. t[m + 1] \in Nat /\ W[m] \in Nat
    BY <1>0, <2>1, <2>2 DEF IsSums
  <2>4. V \in [0..(m + 1) -> Nat] /\ V[0] = 0
    BY <2>0, <2>1, <2>3 DEF IsSums
  <2>5. ASSUME NEW k \in 1..(m + 1) PROVE V[k] = V[k - 1] + t[k] + 1
    <3>1. k \in 0..(m + 1) /\ k - 1 \in 0..(m + 1) /\ k - 1 # m + 1 /\ k - 1 \in 0..m
      BY <2>0
    <3>2. V[k - 1] = W[k - 1]
      BY <3>1
    <3>3. CASE k = m + 1
      <4>1. V[k] = W[m] + t[m + 1] + 1 /\ k - 1 = m
        BY <2>0, <3>1, <3>3
      <4> HIDE DEF V
      <4> QED  BY <3>2, <3>3, <4>1
    <3>4. CASE k # m + 1
      <4>1. V[k] = W[k] /\ k \in 1..m
        BY <2>0, <3>1, <3>4
      <4>2. W[k] = W[k - 1] + t[k] + 1
        BY <2>1, <4>1 DEF IsSums
      <4> HIDE DEF V
      <4> QED  BY <3>2, <4>1, <4>2
    <3> QED  BY <3>3, <3>4
  <2>6. IsSums(t, V, m + 1)
    BY <2>4, <2>5 DEF IsSums
  <2> QED  BY <2>6
<1>3. S = Nat
  <2> HIDE DEF S
  <2>1. S \in SUBSET Nat
    BY DEF S
  <2> QED  BY <1>1, <1>2, <2>1, SetInduction
<1>4. \E W : IsSums(t, W, Len(t))
  BY <1>0, <1>3
<1> QED  BY <1>4 DEF Sums

\* One word more.
LEMMA UptoNext ==
    ASSUME NEW t \in Seq(Nat \ {0})
    PROVE  /\ Len(t) \in Nat
           /\ Upto(t, 0) = 0
           /\ \A k \in 0..Len(t) : Upto(t, k) \in Nat
           /\ \A k \in 1..Len(t) : /\ WordLen(t, k) \in Nat /\ WordLen(t, k) >= 1
                                   /\ Upto(t, k) = Upto(t, k - 1) + WordLen(t, k) + 1
<1>1. IsSums(t, Sums(t), Len(t))
  BY SumsExist
<1>2. Len(t) \in Nat
  OBVIOUS
<1>3. Upto(t, 0) = 0 /\ \A k \in 0..Len(t) : Upto(t, k) \in Nat
  BY <1>1 DEF IsSums, Upto
<1>4. \A k \in 1..Len(t) : Upto(t, k) = Upto(t, k - 1) + WordLen(t, k) + 1
  BY <1>1 DEF IsSums, Upto, WordLen
<1>5. \A k \in 1..Len(t) : WordLen(t, k) \in Nat /\ WordLen(t, k) >= 1
  BY DEF WordLen
<1> QED  BY <1>2, <1>3, <1>4, <1>5

\* They grow by at least two with every word.
LEMMA UptoGrows ==
    ASSUME NEW t \in Seq(Nat \ {0}), NEW a \in 0..Len(t), NEW b \in 0..Len(t), a <= b
    PROVE  Upto(t, b) >= Upto(t, a) + (b - a) + (b - a)
<1> DEFINE S == {m \in Nat : a + m <= Len(t) => Upto(t, a + m) >= Upto(t, a) + m + m}
<1>0. Len(t) \in Nat /\ a \in Nat /\ Upto(t, a) \in Nat
  BY UptoNext
<1>1. 0 \in S
  BY <1>0
<1>2. ASSUME NEW m \in S PROVE m + 1 \in S
  <2>0. m \in Nat /\ a \in Nat
    OBVIOUS
  <2> SUFFICES ASSUME a + (m + 1) <= Len(t) PROVE Upto(t, a + (m + 1)) >= Upto(t, a) + (m + 1) + (m + 1)
    BY <2>0
  <2>1. /\ a + (m + 1) \in 1..Len(t) /\ (a + (m + 1)) - 1 = a + m /\ a + m \in 0..Len(t)
        /\ a + m <= Len(t)
    BY <1>0, <2>0
  <2>2. Upto(t, a + m) >= Upto(t, a) + m + m
    BY <2>1
  <2>3. /\ Upto(t, a + (m + 1)) = Upto(t, a + m) + WordLen(t, a + (m + 1)) + 1
        /\ WordLen(t, a + (m + 1)) \in Nat /\ WordLen(t, a + (m + 1)) >= 1
    BY <2>1, UptoNext
  <2>4. Upto(t, a) \in Nat /\ Upto(t, a + m) \in Nat
    BY <1>0, <2>1, UptoNext
  <2> QED  BY <2>0, <2>2, <2>3, <2>4
<1>3. S = Nat
  <2> HIDE DEF S
  <2>1. S \in SUBSET Nat
    BY DEF S
  <2> QED  BY <1>1, <1>2, <2>1, SetInduction
<1>4. b - a \in Nat /\ a + (b - a) = b /\ b <= Len(t)
  BY <1>0
<1>5. b - a \in S
  BY <1>3, <1>4
<1> QED  BY <1>4, <1>5

Chunk == [len : Nat, from : Nat, to : Nat]
From(c, i) == c[i].from
To(c, i) == c[i].to
Size(c, i) == c[i].len

\* c holds the first k words of t in order, packet by packet; a packet fits
\* into r or is one word; and the word after it did not fit.
IsPacking(t, c, r, k) ==
    /\ c \in Seq(Chunk)
    /\ Len(c) <= k
    /\ k > 0 => Len(c) > 0 /\ From(c, 1) = 1 /\ To(c, Len(c)) = k
    /\ \A i \in 1..Len(c) : i > 1 => From(c, i) = To(c, i - 1) + 1
    /\ \A i \in 1..Len(c) :
          /\ 1 <= From(c, i) /\ From(c, i) <= To(c, i) /\ To(c, i) <= k
          /\ Size(c, i) = Upto(t, To(c, i)) - Upto(t, From(c, i) - 1) - 1
          /\ Size(c, i) <= r \/ From(c, i) = To(c, i)
    /\ \A i \in 1..Len(c) : i < Len(c) => Size(c, i) + 1 + WordLen(t, To(c, i) + 1) > r

\* Chunks have a first and a last word and a length.
LEMMA PackingTypes ==
    ASSUME NEW c \in Seq(Chunk)
    PROVE  /\ Len(c) \in Nat
           /\ \A i \in 1..Len(c) : From(c, i) \in Nat /\ To(c, i) \in Nat /\ Size(c, i) \in Nat
<1>1. \A i \in 1..Len(c) : c[i] \in Chunk
  OBVIOUS
<1> QED  BY <1>1 DEF From, To, Size, Chunk

\* One packet with more room reaches at least as far, if it starts as far.
LEMMA OneReachesFurther ==
    ASSUME NEW t \in Seq(Nat \ {0}), NEW k \in 0..Len(t), NEW c, NEW d, NEW r \in Int, NEW q \in Int,
           r <= q, IsPacking(t, c, r, k), IsPacking(t, d, q, k),
           NEW i \in Nat, i >= 1, i <= Len(c), i <= Len(d), From(c, i) <= From(d, i)
    PROVE  To(c, i) <= To(d, i)
<1>0. /\ Len(t) \in Nat /\ Len(c) \in Nat /\ Len(d) \in Nat /\ k \in Nat /\ k <= Len(t)
      /\ i \in 1..Len(c) /\ i \in 1..Len(d)
  BY PackingTypes DEF IsPacking
<1>1. /\ From(c, i) \in Nat /\ To(c, i) \in Nat /\ Size(c, i) \in Nat
      /\ From(d, i) \in Nat /\ To(d, i) \in Nat /\ Size(d, i) \in Nat
  BY <1>0, PackingTypes DEF IsPacking
<1>2. /\ 1 <= From(d, i) /\ From(d, i) <= To(d, i) /\ 1 <= From(c, i) /\ To(c, i) <= k
      /\ Size(c, i) = Upto(t, To(c, i)) - Upto(t, From(c, i) - 1) - 1
      /\ Size(d, i) = Upto(t, To(d, i)) - Upto(t, From(d, i) - 1) - 1
      /\ Size(c, i) <= r \/ From(c, i) = To(c, i)
  BY <1>0 DEF IsPacking
<1> SUFFICES ASSUME To(d, i) < To(c, i) PROVE FALSE
  BY <1>1
<1>3. i < Len(d)
  <2>1. i = Len(d) => To(d, i) = k
    BY <1>0, <1>1, <1>2 DEF IsPacking
  <2>2. \A x, y, z \in Nat : x < y /\ y <= z => x # z
    OBVIOUS
  <2>3. To(d, i) # k
    BY <1>0, <1>1, <1>2, <2>2
  <2>4. \A x, y \in Nat : x <= y /\ x # y => x < y
    OBVIOUS
  <2> QED  BY <1>0, <2>1, <2>3, <2>4
<1>4. Size(d, i) + 1 + WordLen(t, To(d, i) + 1) > q
  BY <1>0, <1>3 DEF IsPacking
<1> DEFINE e == To(d, i) + 1
           f == From(d, i) - 1
           g == From(c, i) - 1
           h == To(c, i)
<1>4a. e \in Nat /\ e >= 1 /\ e - 1 = To(d, i) /\ e <= h /\ h \in Nat /\ h <= k
  <2>1. \A x, y \in Nat : x < y => x + 1 \in Nat /\ x + 1 >= 1 /\ (x + 1) - 1 = x /\ x + 1 <= y
    OBVIOUS
  <2> QED  BY <1>1, <1>2, <2>1
<1>4b. f \in Nat /\ g \in Nat /\ g <= f /\ f <= To(d, i)
  <2>1. \A x, y, z \in Nat : 1 <= x /\ x <= y /\ y <= z =>
          /\ x - 1 \in Nat /\ y - 1 \in Nat /\ x - 1 <= y - 1 /\ y - 1 <= z
    OBVIOUS
  <2> QED  BY <1>1, <1>2, <2>1
<1>5. e - 1 = To(d, i) /\ g <= f /\ e <= h
  BY <1>4a, <1>4b
<1>5a. /\ e \in 1..Len(t) /\ e \in 0..Len(t) /\ h \in 0..Len(t) /\ e - 1 \in 0..Len(t)
       /\ g \in 0..Len(t) /\ f \in 0..Len(t)
  <2> HIDE DEF e, f, g, h
  <2>1. h <= Len(t) /\ e <= Len(t) /\ f <= e /\ g <= e /\ e - 1 \in Nat
    BY <1>0, <1>1, <1>4a, <1>4b
  <2>2. f <= Len(t) /\ g <= Len(t) /\ e - 1 <= Len(t)
    BY <1>0, <1>4a, <1>4b, <2>1
  <2> QED  BY <1>0, <1>4a, <1>4b, <2>1, <2>2
<1>6. /\ Size(c, i) = Upto(t, h) - Upto(t, g) - 1
      /\ Size(d, i) = Upto(t, e - 1) - Upto(t, f) - 1
      /\ Size(d, i) + 1 + WordLen(t, e) > q
  BY <1>2, <1>4, <1>5
<1> HIDE DEF e, f, g, h
<1>7. /\ Upto(t, h) >= Upto(t, e) + (h - e) + (h - e)
      /\ Upto(t, f) >= Upto(t, g) + (f - g) + (f - g)
  BY <1>5, <1>5a, UptoGrows
<1>8. /\ Upto(t, h) \in Nat /\ Upto(t, e) \in Nat /\ Upto(t, f) \in Nat /\ Upto(t, g) \in Nat
      /\ WordLen(t, e) \in Nat /\ Upto(t, e) = Upto(t, e - 1) + WordLen(t, e) + 1
      /\ Upto(t, e - 1) \in Nat
  BY <1>5a, UptoNext
<1>9. Upto(t, h) >= Upto(t, e) /\ Upto(t, f) >= Upto(t, g)
  <2>1. h - e \in Nat /\ f - g \in Nat
    BY <1>4a, <1>4b
  <2>2. \A x, y, z \in Nat : x >= y + z + z => x >= y
    OBVIOUS
  <2> QED  BY <1>7, <1>8, <2>1, <2>2
<1>10. Size(c, i) > r
  <2>1. \A uh, ue, uf, ug, ul, w, sc, sd \in Nat :
          /\ uh >= ue /\ uf >= ug /\ ue = ul + w + 1 /\ sc = uh - ug - 1 /\ sd = ul - uf - 1
          /\ sd + 1 + w > q
          => sc > r
    OBVIOUS
  <2> QED  BY <1>1, <1>6, <1>8, <1>9, <2>1
<1>11. From(c, i) = To(c, i)
  <2>1. \A x \in Nat : ~(x > r /\ x <= r)
    OBVIOUS
  <2> QED  BY <1>1, <1>2, <1>10, <2>1
<1>12. \A x, y, z \in Nat : x <= y /\ y <= z => ~(z < x)
  OBVIOUS
<1> QED  BY <1>1, <1>2, <1>11, <1>12

\* With more room every packet reaches at least as far.
LEMMA ReachesFurther ==
    ASSUME NEW t \in Seq(Nat \ {0}), NEW k \in 0..Len(t), NEW c, NEW d, NEW r \in Int, NEW q \in Int,
           r <= q, IsPacking(t, c, r, k), IsPacking(t, d, q, k)
    PROVE  \A i \in Nat : i >= 1 /\ i <= Len(c) /\ i <= Len(d) => To(c, i) <= To(d, i)
<1> DEFINE S == {n \in Nat : n + 1 <= Len(c) /\ n + 1 <= Len(d) => To(c, n + 1) <= To(d, n + 1)}
<1>1. Len(c) \in Nat /\ Len(d) \in Nat /\ k \in Nat /\ Len(c) <= k
  BY PackingTypes DEF IsPacking
<1>3. 0 \in S
  <2> SUFFICES ASSUME 1 <= Len(c), 1 <= Len(d) PROVE To(c, 1) <= To(d, 1)
    OBVIOUS
  <2>1. k > 0
    BY <1>1
  <2>2. From(c, 1) = 1 /\ From(d, 1) = 1
    BY <2>1 DEF IsPacking
  <2> QED  BY <2>2, OneReachesFurther
<1>4. ASSUME NEW n \in S PROVE n + 1 \in S
  <2>0. n \in Nat
    OBVIOUS
  <2> SUFFICES ASSUME (n + 1) + 1 <= Len(c), (n + 1) + 1 <= Len(d)
               PROVE  To(c, (n + 1) + 1) <= To(d, (n + 1) + 1)
    BY <2>0
  <2> DEFINE i == (n + 1) + 1
  <2>1. /\ i \in Nat /\ i > 1 /\ i - 1 = n + 1 /\ i - 1 \in 1..Len(c) /\ i - 1 \in 1..Len(d)
        /\ n + 1 <= Len(c) /\ n + 1 <= Len(d) /\ i \in 1..Len(c) /\ i \in 1..Len(d)
    BY <1>1, <2>0
  <2>2. To(c, i - 1) <= To(d, i - 1)
    BY <2>1
  <2> HIDE DEF i
  <2>3. From(c, i) = To(c, i - 1) + 1 /\ From(d, i) = To(d, i - 1) + 1
    BY <2>1 DEF IsPacking
  <2>4. To(c, i - 1) \in Nat /\ To(d, i - 1) \in Nat
    BY <2>1, PackingTypes DEF IsPacking
  <2>5. From(c, i) <= From(d, i)
    BY <2>2, <2>3, <2>4
  <2>6. i >= 1 /\ i <= Len(c) /\ i <= Len(d)
    BY <1>1, <2>1
  <2>7. To(c, i) <= To(d, i)
    BY <2>1, <2>5, <2>6, OneReachesFurther
  <2> QED  BY <2>7 DEF i
<1>5. S = Nat
  <2> HIDE DEF S
  <2>1. S \in SUBSET Nat
    BY DEF S
  <2> QED  BY <1>3, <1>4, <2>1, SetInduction
<1> SUFFICES ASSUME NEW i \in Nat, i >= 1, i <= Len(c), i <= Len(d) PROVE To(c, i) <= To(d, i)
  OBVIOUS
<1>6. i - 1 \in Nat /\ (i - 1) + 1 = i
  OBVIOUS
<1>7. i - 1 \in S
  <2> HIDE DEF S
  <2> QED  BY <1>5, <1>6
<1> QED  BY <1>6, <1>7

\* ... so more room never makes more packets.
LEMMA MoreRoomFewerPackets ==
    ASSUME NEW t \in Seq(Nat \ {0}), NEW k \in 0..Len(t), NEW c, NEW d, NEW r \in Int, NEW q \in Int,
           r <= q, IsPacking(t, c, r, k), IsPacking(t, d, q, k)
    PROVE  Len(d) <= Len(c)
<1>1. Len(c) \in Nat /\ Len(d) \in Nat /\ k \in Nat /\ Len(c) <= k /\ Len(d) <= k
  BY PackingTypes DEF IsPacking
<1> SUFFICES ASSUME Len(c) < Len(d) PROVE FALSE
  BY <1>1
<1> DEFINE m == Len(c)
<1>2. k > 0
  BY <1>1
<1>3. m > 0 /\ To(c, m) = k
  BY <1>2 DEF IsPacking
<1>4. To(c, m) <= To(d, m)
  BY <1>1, <1>3, ReachesFurther
<1>5. m + 1 > 1 /\ (m + 1) - 1 = m /\ m \in 1..Len(d) /\ m + 1 \in 1..Len(d)
  BY <1>1, <1>3
<1>6. /\ From(d, m + 1) = To(d, m) + 1 /\ From(d, m + 1) <= To(d, m + 1) /\ To(d, m + 1) <= k
  BY <1>5 DEF IsPacking
<1>7. To(d, m) \in Nat /\ To(d, m + 1) \in Nat
  BY <1>5, PackingTypes DEF IsPacking
<1> HIDE DEF m
<1> QED  BY <1>1, <1>3, <1>4, <1>6, <1>7

\* One more word packed.
LEMMA PackingExtended ==
    ASSUME NEW t \in Seq(Nat \ {0}), NEW k \in Nat, k + 1 <= Len(t), NEW c, NEW r \in Int,
           IsPacking(t, c, r, k), Len(c) > 0, Size(c, Len(c)) + 1 + WordLen(t, k + 1) <= r,
           NEW d, d = [c EXCEPT ![Len(c)] = [len |-> @.len + 1 + t[k + 1], from |-> @.from, to |-> k + 1]]
    PROVE  IsPacking(t, d, r, k + 1)
<1> DEFINE n == Len(c)
           w == WordLen(t, k + 1)
<1>0. Len(t) \in Nat /\ n \in Nat /\ c \in Seq(Chunk) /\ n <= k /\ n \in 1..Len(c) /\ k + 1 \in 1..Len(t)
  BY PackingTypes DEF IsPacking
<1>1. w \in Nat /\ w >= 1 /\ Upto(t, k + 1) = Upto(t, k) + w + 1 /\ Upto(t, k) \in Nat
  <2>1. (k + 1) - 1 = k /\ k \in 0..Len(t)
    BY <1>0
  <2> QED  BY <1>0, <2>1, UptoNext
<1>2. c[n] \in Chunk /\ t[k + 1] \in Nat
  BY <1>0, <1>1 DEF WordLen
<1>3. d \in Seq(Chunk) /\ Len(d) = n
  <2>1. [len |-> c[n].len + 1 + t[k + 1], from |-> c[n].from, to |-> k + 1] \in Chunk
    <3>1. \A x, y, z \in Nat : [len |-> x + 1 + y, from |-> z, to |-> k + 1] \in Chunk
      BY DEF Chunk
    <3>2. c[n].len \in Nat /\ c[n].from \in Nat
      BY <1>2 DEF Chunk
    <3> QED  BY <1>2, <3>1, <3>2
  <2> QED  BY <1>0, <2>1
<1>4. d[n] = [len |-> c[n].len + 1 + t[k + 1], from |-> c[n].from, to |-> k + 1]
  BY <1>0
<1>5. From(d, n) = From(c, n) /\ To(d, n) = k + 1 /\ Size(d, n) = Size(c, n) + 1 + w
  BY <1>2, <1>4 DEF From, To, Size, WordLen, Chunk
<1>6. \A i \in 1..n : i # n => From(d, i) = From(c, i) /\ To(d, i) = To(c, i) /\ Size(d, i) = Size(c, i)
  <2>1. \A i \in 1..n : i # n => d[i] = c[i]
    BY <1>0
  <2> QED  BY <2>1 DEF From, To, Size
<1>7. /\ k > 0 /\ From(c, 1) = 1 /\ To(c, n) = k
      /\ 1 <= From(c, n) /\ From(c, n) <= k
      /\ Size(c, n) = Upto(t, k) - Upto(t, From(c, n) - 1) - 1
      /\ From(c, n) \in Nat /\ Size(c, n) \in Nat
  <2>1. k > 0
    BY <1>0
  <2> QED  BY <1>0, <2>1, PackingTypes DEF IsPacking
<1>8. Upto(t, From(c, n) - 1) \in Nat
  <2>1. From(c, n) - 1 \in 0..Len(t)
    BY <1>0, <1>7
  <2> QED  BY <2>1, UptoNext
<1> HIDE DEF n, w
<1>9. Len(d) <= k + 1 /\ Len(d) > 0
  BY <1>0, <1>3 DEF n
<1>10. From(d, 1) = 1 /\ To(d, Len(d)) = k + 1
  <2>1. CASE n = 1
    BY <1>3, <1>5, <1>7, <2>1
  <2>2. CASE n # 1
    <3>1. 1 \in 1..n
      BY <1>0 DEF n
    <3> QED  BY <1>3, <1>5, <1>6, <1>7, <2>2, <3>1
  <2> QED  BY <2>1, <2>2
<1>11. ASSUME NEW i \in 1..Len(d), i > 1 PROVE From(d, i) = To(d, i - 1) + 1
  <2>1. i \in 1..n /\ i - 1 \in 1..n /\ i - 1 # n /\ i \in 1..Len(c)
    BY <1>0, <1>3, <1>11 DEF n
  <2>2. From(c, i) = To(c, i - 1) + 1
    BY <1>11, <2>1 DEF IsPacking
  <2>3. From(d, i) = From(c, i)
    BY <1>5, <1>6, <2>1
  <2> QED  BY <1>6, <2>1, <2>2, <2>3
<1>12. ASSUME NEW i \in 1..Len(d)
       PROVE  /\ 1 <= From(d, i) /\ From(d, i) <= To(d, i) /\ To(d, i) <= k + 1
              /\ Size(d, i) = Upto(t, To(d, i)) - Upto(t, From(d, i) - 1) - 1
              /\ Size(d, i) <= r \/ From(d, i) = To(d, i)
  <2>1. CASE i = n
    <3>2. Size(c, n) + 1 + w = Upto(t, k + 1) - Upto(t, From(c, n) - 1) - 1
      <4> DEFINE f == Upto(t, From(c, n) - 1)
                 x == Size(c, n)
      <4>1. f \in Nat /\ x \in Nat /\ x = Upto(t, k) - f - 1
        BY <1>7, <1>8
      <4> HIDE DEF f, x
      <4>2. x + 1 + w = Upto(t, k + 1) - f - 1
        BY <1>1, <4>1
      <4> QED  BY <4>2 DEF f, x
    <3>3. From(c, n) <= k + 1 /\ k + 1 <= k + 1
      BY <1>7
    <3>4. Size(d, n) <= r
      BY <1>5 DEF n, w
    <3> QED  BY <1>5, <1>7, <2>1, <3>2, <3>3, <3>4
  <2>2. CASE i # n
    <3>1. i \in 1..n /\ i \in 1..Len(c)
      BY <1>3 DEF n
    <3>2. /\ 1 <= From(c, i) /\ From(c, i) <= To(c, i) /\ To(c, i) <= k
          /\ Size(c, i) = Upto(t, To(c, i)) - Upto(t, From(c, i) - 1) - 1
          /\ Size(c, i) <= r \/ From(c, i) = To(c, i)
      BY <3>1 DEF IsPacking
    <3>3. To(c, i) \in Nat
      BY <1>0, <3>1, PackingTypes
    <3>4. To(c, i) <= k + 1
      BY <3>2, <3>3
    <3> QED  BY <1>6, <2>2, <3>1, <3>2, <3>4
  <2> QED  BY <2>1, <2>2
<1>13. ASSUME NEW i \in 1..Len(d), i < Len(d) PROVE Size(d, i) + 1 + WordLen(t, To(d, i) + 1) > r
  <2>1. i \in 1..n /\ i \in 1..Len(c) /\ i # n /\ i < Len(c)
    BY <1>0, <1>3, <1>13 DEF n
  <2>2. Size(c, i) + 1 + WordLen(t, To(c, i) + 1) > r
    BY <2>1 DEF IsPacking
  <2> QED  BY <1>6, <2>1, <2>2
<1> QED  BY <1>3, <1>9, <1>10, <1>11, <1>12, <1>13 DEF IsPacking

\* A word that starts a packet of its own.
LEMMA PackingStarted ==
    ASSUME NEW t \in Seq(Nat \ {0}), NEW k \in Nat, k + 1 <= Len(t), NEW c, NEW r \in Int,
           IsPacking(t, c, r, k), Len(c) > 0 => Size(c, Len(c)) + 1 + WordLen(t, k + 1) > r,
           NEW d, d = Append(c, [len |-> t[k + 1], from |-> k + 1, to |-> k + 1])
    PROVE  IsPacking(t, d, r, k + 1)
<1> DEFINE n == Len(c)
           w == WordLen(t, k + 1)
<1>0. Len(t) \in Nat /\ n \in Nat /\ c \in Seq(Chunk) /\ n <= k /\ k + 1 \in 1..Len(t)
  BY PackingTypes DEF IsPacking
<1>1. w \in Nat /\ Upto(t, k + 1) = Upto(t, k) + w + 1 /\ Upto(t, k) \in Nat /\ (k + 1) - 1 = k
  <2>1. (k + 1) - 1 = k /\ k \in 0..Len(t)
    BY <1>0
  <2> QED  BY <1>0, <2>1, UptoNext
<1>2. d \in Seq(Chunk) /\ Len(d) = n + 1
  <2>1. [len |-> t[k + 1], from |-> k + 1, to |-> k + 1] \in Chunk
    BY <1>1 DEF Chunk, WordLen
  <2> QED  BY <1>0, <2>1
<1>3. From(d, n + 1) = k + 1 /\ To(d, n + 1) = k + 1 /\ Size(d, n + 1) = w
  <2>1. d[n + 1] = [len |-> t[k + 1], from |-> k + 1, to |-> k + 1]
    BY <1>0
  <2> QED  BY <2>1 DEF From, To, Size, WordLen
<1>4. \A i \in 1..n : From(d, i) = From(c, i) /\ To(d, i) = To(c, i) /\ Size(d, i) = Size(c, i)
  <2>1. \A i \in 1..n : d[i] = c[i]
    BY <1>0
  <2> QED  BY <2>1 DEF From, To, Size
<1>5. k > 0 => n > 0 /\ From(c, 1) = 1 /\ To(c, n) = k
  BY DEF IsPacking
<1>6. n > 0 => Size(c, n) + 1 + w > r
  OBVIOUS
<1>7. \A i \in 1..n : i \in 1..Len(c)
  OBVIOUS
<1> HIDE DEF n, w
<1>9. Len(d) <= k + 1 /\ Len(d) > 0
  BY <1>0, <1>2
<1>10. From(d, 1) = 1 /\ To(d, Len(d)) = k + 1
  <2>1. CASE n = 0
    <3>1. k = 0
      BY <1>5, <2>1
    <3> QED  BY <1>2, <1>3, <2>1, <3>1
  <2>2. CASE n # 0
    <3>1. 1 \in 1..n /\ k > 0
      BY <1>0, <2>2
    <3> QED  BY <1>2, <1>3, <1>4, <1>5, <3>1
  <2> QED  BY <2>1, <2>2
<1>11. ASSUME NEW i \in 1..Len(d), i > 1 PROVE From(d, i) = To(d, i - 1) + 1
  <2>1. CASE i = n + 1
    <3>1. n \in 1..n /\ i - 1 = n /\ k > 0
      BY <1>0, <1>11, <2>1
    <3> QED  BY <1>3, <1>4, <1>5, <2>1, <3>1
  <2>2. CASE i # n + 1
    <3>1. i \in 1..n /\ i - 1 \in 1..n
      BY <1>0, <1>2, <1>11, <2>2
    <3>2. From(c, i) = To(c, i - 1) + 1
      BY <1>7, <1>11, <3>1 DEF IsPacking
    <3> QED  BY <1>4, <3>1, <3>2
  <2> QED  BY <2>1, <2>2
<1>12. ASSUME NEW i \in 1..Len(d)
       PROVE  /\ 1 <= From(d, i) /\ From(d, i) <= To(d, i) /\ To(d, i) <= k + 1
              /\ Size(d, i) = Upto(t, To(d, i)) - Upto(t, From(d, i) - 1) - 1
              /\ Size(d, i) <= r \/ From(d, i) = To(d, i)
  <2>1. CASE i = n + 1
    <3>1. \A y, u, v \in Nat : u = y + v + 1 => v = u - y - 1
      OBVIOUS
    <3>2. w = Upto(t, k + 1) - Upto(t, k) - 1
      <4>1. Upto(t, k + 1) \in Nat
        BY <1>1
      <4> QED  BY <1>1, <3>1, <4>1
    <3>3. 1 <= k + 1 /\ k + 1 <= k + 1
      OBVIOUS
    <3> QED  BY <1>1, <1>3, <2>1, <3>2, <3>3
  <2>2. CASE i # n + 1
    <3>1. i \in 1..n
      BY <1>0, <1>2, <2>2
    <3>2. /\ 1 <= From(c, i) /\ From(c, i) <= To(c, i) /\ To(c, i) <= k
          /\ Size(c, i) = Upto(t, To(c, i)) - Upto(t, From(c, i) - 1) - 1
          /\ Size(c, i) <= r \/ From(c, i) = To(c, i)
      BY <1>7, <3>1 DEF IsPacking
    <3>3. To(c, i) \in Nat
      BY <1>0, <1>7, <3>1, PackingTypes
    <3>4. To(c, i) <= k + 1
      BY <3>2, <3>3
    <3> QED  BY <1>4, <3>1, <3>2, <3>4
  <2> QED  BY <2>1, <2>2
<1>13. ASSUME NEW i \in 1..Len(d), i < Len(d) PROVE Size(d, i) + 1 + WordLen(t, To(d, i) + 1) > r
  <2>1. i \in 1..n
    BY <1>0, <1>2, <1>13
  <2>2. CASE i = n
    <3>1. n > 0 /\ k > 0
      BY <1>0, <2>1
    <3> QED  BY <1>4, <1>5, <1>6, <2>1, <2>2, <3>1 DEF w
  <2>3. CASE i # n
    <3>1. i < Len(c)
      BY <1>0, <2>1, <2>3 DEF n
    <3>2. Size(c, i) + 1 + WordLen(t, To(c, i) + 1) > r
      BY <1>7, <2>1, <3>1 DEF IsPacking
    <3> QED  BY <1>4, <2>1, <3>2
  <2> QED  BY <2>2, <2>3
<1> QED  BY <1>2, <1>9, <1>10, <1>11, <1>12, <1>13 DEF IsPacking

\* Nothing packed is a packing of no words.
LEMMA NothingPacked ==
    ASSUME NEW t, NEW r
    PROVE  IsPacking(t, <<>>, r, 0)
BY DEF IsPacking

\* A packet of more than one word has at least three characters.
LEMMA TwoWordsAreLong ==
    ASSUME NEW t \in Seq(Nat \ {0}), NEW k \in 0..Len(t), NEW c, NEW r \in Int,
           IsPacking(t, c, r, k), NEW i \in 1..Len(c), From(c, i) # To(c, i)
    PROVE  Size(c, i) >= 3
<1>0. Len(t) \in Nat /\ k \in Nat /\ k <= Len(t)
  OBVIOUS
<1>1. From(c, i) \in Nat /\ To(c, i) \in Nat /\ Size(c, i) \in Nat
  BY PackingTypes DEF IsPacking
<1>2. /\ 1 <= From(c, i) /\ From(c, i) <= To(c, i) /\ To(c, i) <= k
      /\ Size(c, i) = Upto(t, To(c, i)) - Upto(t, From(c, i) - 1) - 1
  BY DEF IsPacking
<1> DEFINE a == From(c, i) - 1
           b == To(c, i)
<1>3. a \in Nat /\ b \in Nat /\ a + 2 <= b /\ b <= k
  <2>1. \A x, y \in Nat : 1 <= x /\ x <= y /\ x # y => x - 1 \in Nat /\ (x - 1) + 2 <= y
    OBVIOUS
  <2> QED  BY <1>1, <1>2, <2>1
<1>4. Size(c, i) = Upto(t, b) - Upto(t, a) - 1
  BY <1>2
<1> HIDE DEF a, b
<1>5. a \in 0..Len(t) /\ b \in 0..Len(t) /\ a <= b
  BY <1>0, <1>3
<1>6. Upto(t, a) \in Nat /\ Upto(t, b) \in Nat /\ Upto(t, b) >= Upto(t, a) + (b - a) + (b - a)
  BY <1>5, UptoNext, UptoGrows
<1>7. b - a \in Nat /\ b - a >= 2
  BY <1>3
<1>8. \A x, y, z, v \in Nat : y >= x + z + z /\ z >= 2 /\ v = y - x - 1 => v >= 3
  OBVIOUS
<1> QED  BY <1>1, <1>4, <1>6, <1>7, <1>8

-----------------------------------------------------------------------------
(* The rounds. *)

\* The room of a packing numbered for n packets, within the limit l.
RoomFor(l, n) == AtLeastOne(l - SequencePrefixLen(n))

\* The room of a packet by the digits of the count.
LEMMA Rooms ==
    ASSUME NEW l \in Int, NEW n \in Nat
    PROVE  /\ RoomFor(l, n) \in Int /\ RoomFor(l, n) >= 1
           /\ n < 10 => RoomFor(l, n) = AtLeastOne(l - 6)
           /\ n >= 10 /\ n < 100 => RoomFor(l, n) = AtLeastOne(l - 8)
           /\ n >= 100 => RoomFor(l, n) = AtLeastOne(l - 10)
           /\ AtLeastOne(l - 10) <= AtLeastOne(l - 8) /\ AtLeastOne(l - 8) <= AtLeastOne(l - 6)
BY DEF RoomFor, AtLeastOne, SequencePrefixLen, PrefixLen, Digits

\* Packings of the whole text with the same room have equally many packets.
LEMMA SameRoomSameNumber ==
    ASSUME NEW t \in Seq(Nat \ {0}), NEW c, NEW d, NEW r \in Int,
           IsPacking(t, c, r, Len(t)), IsPacking(t, d, r, Len(t))
    PROVE  Len(c) = Len(d)
<1>1. Len(t) \in 0..Len(t) /\ r <= r
  OBVIOUS
<1>2. Len(c) \in Nat /\ Len(d) \in Nat
  BY PackingTypes DEF IsPacking
<1>3. Len(c) <= Len(d) /\ Len(d) <= Len(c)
  BY <1>1, MoreRoomFewerPackets
<1> QED  BY <1>2, <1>3

\* The packing after the packing for the first one's number has the number of
\* the one before: the loop ends there.
LEMMA NoThirdRound ==
    ASSUME NEW t \in Seq(Nat \ {0}), NEW l \in Int, NEW c, NEW d, NEW e,
           IsPacking(t, c, RoomFor(l, 99), Len(t)),
           IsPacking(t, d, RoomFor(l, Len(c)), Len(t)),
           IsPacking(t, e, RoomFor(l, Len(d)), Len(t))
    PROVE  Len(e) = Len(d)
<1>0. Len(c) \in Nat /\ Len(d) \in Nat /\ Len(t) \in 0..Len(t)
  BY PackingTypes DEF IsPacking
<1>1. RoomFor(l, 99) \in Int /\ RoomFor(l, Len(c)) \in Int /\ RoomFor(l, Len(d)) \in Int
  BY <1>0, Rooms
<1>2. ASSUME RoomFor(l, Len(c)) = RoomFor(l, Len(d)) PROVE Len(e) = Len(d)
  BY <1>1, <1>2, SameRoomSameNumber
<1>3. CASE Len(c) < 10
  <2>1. RoomFor(l, 99) <= RoomFor(l, Len(c))
    BY <1>0, <1>3, Rooms
  <2>2. Len(d) <= Len(c)
    BY <1>0, <1>1, <2>1, MoreRoomFewerPackets
  <2>3. Len(d) < 10
    BY <1>0, <1>3, <2>2
  <2> QED  BY <1>0, <1>2, <1>3, <2>3, Rooms
<1>4. CASE Len(c) >= 10 /\ Len(c) < 100
  <2>1. RoomFor(l, Len(c)) = RoomFor(l, 99)
    BY <1>0, <1>4, Rooms
  <2>2. Len(d) = Len(c)
    BY <1>1, <2>1, SameRoomSameNumber
  <2> QED  BY <1>2, <2>2
<1>5. CASE Len(c) >= 100
  <2>1. RoomFor(l, Len(c)) <= RoomFor(l, 99)
    BY <1>0, <1>5, Rooms
  <2>2. Len(c) <= Len(d)
    BY <1>0, <1>1, <2>1, MoreRoomFewerPackets
  <2>3. Len(d) >= 100
    BY <1>0, <1>5, <2>2
  <2> QED  BY <1>0, <1>2, <1>5, <2>3, Rooms
<1> QED  BY <1>0, <1>3, <1>4, <1>5

-----------------------------------------------------------------------------
(* The loop. *)

PackTypeOK ==
    /\ text \in Seq(Nat \ {0})
    /\ lead \in Nat /\ mention \in Nat /\ mention <= lead
    /\ mode \in {"prose", "plain", "lines"}
    /\ mode = "lines" => lead = 0 /\ Len(text) < 99
    /\ room \in Int
    /\ word \in Nat /\ word >= 1 /\ word <= Len(text) + 1
    /\ total \in Nat
    /\ stage \in {"start", "pack", "done", "raised"}

\* Where the loop stands: how often the whole text was packed before, and for
\* which number of packets the room now is.
FirstPacking(c) == IsPacking(text, c, RoomFor(Limit, 99), Len(text))

Settling ==
    \/ rounds = 0 /\ total = 0 /\ room = RoomFor(Limit, 99)
    \/ /\ rounds = 1 /\ total > 0 /\ room = RoomFor(Limit, total)
       /\ \E c : FirstPacking(c) /\ Len(c) = total
    \/ /\ rounds = 2 /\ total > 0 /\ room = RoomFor(Limit, total)
       /\ \E c : /\ FirstPacking(c)
                 /\ \E d : /\ IsPacking(text, d, RoomFor(Limit, Len(c)), Len(text))
                           /\ Len(d) = total

Standing ==
    /\ mode = "plain" => rounds = 0 /\ room = AtLeastOne(Limit)
    /\ mode = "lines" => rounds = 0 /\ room = Limit - 8
    /\ mode = "prose" => Settling

PackInv ==
    /\ PackTypeOK
    /\ IsPacking(text, chunks, room, word - 1)
    /\ stage \in {"start", "raised"} => rounds = 0 /\ total = 0 /\ word = 1 /\ chunks = <<>>
    /\ stage \in {"pack", "done"} => Standing
    /\ stage = "pack" => text # <<>> /\ Limit > 0
    /\ stage = "done" =>
          /\ word = Len(text) + 1
          /\ text # <<>> => Limit > 0
          /\ mode = "prose" => Len(chunks) <= 1 \/ (Len(chunks) = total /\ total > 0)

\* Before the first round nothing is packed.
LEMMA PackInitInv == PackInit => PackInv
<1> SUFFICES ASSUME PackInit PROVE PackInv
  OBVIOUS
<1>1. text \in Seq(Nat \ {0}) /\ lead \in Nat /\ mention \in Nat
  BY PacketizeAssumption DEF PackInit
<1>2. Len(text) \in Nat
  BY <1>1
<1>3. PackTypeOK
  BY <1>1, <1>2 DEF PackInit, PackTypeOK
<1>4. IsPacking(text, chunks, room, word - 1)
  <2>1. word - 1 = 0 /\ chunks = <<>>
    BY DEF PackInit
  <2> QED  BY <2>1, NothingPacked
<1> QED  BY <1>3, <1>4 DEF PackInit, PackInv

\* What a step that leaves text, lead, mention and mode alone need not prove.
LEMMA PackLimit ==
    ASSUME PackTypeOK
    PROVE  Limit \in Int /\ Len(text) \in Nat
BY PacketizeAssumption DEF PackTypeOK, Limit

\* A round starts with no chunk.
LEMMA PackBeginInv ==
    ASSUME PackInv, PackBegin
    PROVE  PackInv'
<1>0. Limit \in Int /\ Len(text) \in Nat
  BY PackLimit DEF PackInv
<1>1. /\ text' = text /\ lead' = lead /\ mention' = mention /\ mode' = mode /\ word' = word /\ chunks' = chunks
      /\ total' = total /\ rounds' = rounds /\ stage = "start"
  BY DEF PackBegin
<1>2. rounds = 0 /\ total = 0 /\ word = 1 /\ chunks = <<>>
  BY <1>1 DEF PackInv
<1>3. /\ mode = "plain" => room' = AtLeastOne(Limit)
      /\ mode = "lines" => room' = Limit - 8
      /\ mode = "prose" => room' = RoomFor(Limit, 99)
  <2>1. SequencePrefixLen(99) = 8
    BY DEF SequencePrefixLen, PrefixLen, Digits
  <2>2. Limit - 0 = Limit
    BY <1>0
  <2> QED  BY <2>1, <2>2 DEF PackBegin, RoomFor
<1>4. room' \in Int
  <2>1. AtLeastOne(Limit) \in Int /\ Limit - 8 \in Int /\ RoomFor(Limit, 99) \in Int
    BY <1>0, Rooms DEF AtLeastOne
  <2> QED  BY <1>3, <2>1 DEF PackInv, PackTypeOK
<1>5. Limit' = Limit
  BY <1>1 DEF Limit
<1>6. stage' \in {"pack", "done", "raised"}
  BY DEF PackBegin
<1>7. PackTypeOK'
  BY <1>1, <1>4, <1>6 DEF PackInv, PackTypeOK
<1>8. IsPacking(text, chunks, room, word - 1)'
  <2>1. (word - 1)' = 0 /\ chunks' = <<>>
    BY <1>1, <1>2
  <2> QED  BY <2>1, NothingPacked
<1>9. Standing'
  BY <1>1, <1>2, <1>3, <1>5 DEF Standing, Settling
<1>10. /\ stage' = "pack" => text # <<>> /\ Limit > 0
       /\ stage' = "done" => text = <<>>
  BY <1>0 DEF PackBegin
<1>11. text = <<>> => word = Len(text) + 1 /\ Len(chunks) <= 1
  BY <1>2
<1> QED  BY <1>1, <1>2, <1>5, <1>6, <1>7, <1>8, <1>9, <1>10, <1>11 DEF PackInv

\* A word joins the last chunk or starts one.
LEMMA PackWordInv ==
    ASSUME PackInv, PackWord
    PROVE  PackInv'
<1>0. Limit \in Int /\ Len(text) \in Nat /\ PackTypeOK /\ word \in Nat /\ room \in Int
      /\ text \in Seq(Nat \ {0})
  BY PackLimit DEF PackInv, PackTypeOK
<1>1. /\ text' = text /\ lead' = lead /\ mention' = mention /\ mode' = mode /\ room' = room /\ word' = word + 1
      /\ total' = total /\ rounds' = rounds /\ stage' = stage /\ stage = "pack" /\ word <= Len(text)
  BY DEF PackWord
<1>2. Limit' = Limit
  BY <1>1 DEF Limit
<1>3. PackTypeOK'
  BY <1>0, <1>1 DEF PackTypeOK
<1>4. Standing'
  <2>1. Standing
    BY <1>1 DEF PackInv
  <2> QED  BY <1>1, <1>2, <2>1 DEF Standing, Settling, FirstPacking
<1>5. IsPacking(text, chunks, room, word - 1)'
  <2> DEFINE k == word - 1
  <2>1. k \in Nat /\ k + 1 = word /\ word' - 1 = k + 1 /\ k + 1 <= Len(text)
    BY <1>0, <1>1 DEF PackTypeOK
  <2>2. IsPacking(text, chunks, room, k)
    BY DEF PackInv
  <2> HIDE DEF k
  <2>3. Len(chunks) \in Nat
    BY <2>2, PackingTypes DEF IsPacking
  <2>4. CASE Len(chunks) > 0 /\ chunks[Len(chunks)].len + 1 + text[word] <= room
    <3>1. chunks' = [chunks EXCEPT ![Len(chunks)] =
                        [len |-> @.len + 1 + text[k + 1], from |-> @.from, to |-> k + 1]]
      BY <2>1, <2>4 DEF PackWord
    <3>2. Size(chunks, Len(chunks)) + 1 + WordLen(text, k + 1) <= room
      BY <2>1, <2>4 DEF Size, WordLen
    <3>3. IsPacking(text, chunks', room, k + 1)
      BY <1>0, <2>1, <2>2, <2>4, <3>1, <3>2, PackingExtended
    <3> QED  BY <1>1, <2>1, <3>3
  <2>5. CASE ~(Len(chunks) > 0 /\ chunks[Len(chunks)].len + 1 + text[word] <= room)
    <3>1. chunks' = Append(chunks, [len |-> text[k + 1], from |-> k + 1, to |-> k + 1])
      BY <2>1, <2>5 DEF PackWord
    <3>2. Len(chunks) > 0 => Size(chunks, Len(chunks)) + 1 + WordLen(text, k + 1) > room
      <4> SUFFICES ASSUME Len(chunks) > 0
                   PROVE  Size(chunks, Len(chunks)) + 1 + WordLen(text, k + 1) > room
        OBVIOUS
      <4>1. ~(Size(chunks, Len(chunks)) + 1 + WordLen(text, k + 1) <= room)
        BY <2>1, <2>5 DEF Size, WordLen
      <4>2. Size(chunks, Len(chunks)) \in Nat
        <5>1. Len(chunks) \in 1..Len(chunks)
          BY <2>3
        <5> QED  BY <2>2, <5>1, PackingTypes DEF IsPacking
      <4>3. WordLen(text, k + 1) \in Nat
        <5>1. k + 1 \in 1..Len(text)
          BY <1>0, <2>1
        <5> QED  BY <1>0, <5>1, UptoNext
      <4>4. \A x, y \in Nat : ~(x + 1 + y <= room) => x + 1 + y > room
        BY <1>0
      <4> QED  BY <4>1, <4>2, <4>3, <4>4
    <3>3. IsPacking(text, chunks', room, k + 1)
      BY <1>0, <2>1, <2>2, <3>1, <3>2, PackingStarted
    <3> QED  BY <1>1, <2>1, <3>3
  <2> QED  BY <2>4, <2>5
<1>6. text # <<>> /\ Limit > 0
  BY <1>1 DEF PackInv
<1> QED  BY <1>1, <1>2, <1>3, <1>4, <1>5, <1>6 DEF PackInv

\* The end of a round: another one, or the packets.
LEMMA PackEndInv ==
    ASSUME PackInv, PackEnd
    PROVE  PackInv'
<1> DEFINE n == Len(chunks)
<1>0. Limit \in Int /\ Len(text) \in Nat /\ PackTypeOK /\ word \in Nat /\ room \in Int
      /\ text \in Seq(Nat \ {0}) /\ total \in Nat
  BY PackLimit DEF PackInv, PackTypeOK
<1>1. /\ text' = text /\ lead' = lead /\ mention' = mention /\ mode' = mode /\ stage = "pack" /\ word > Len(text)
  BY DEF PackEnd
<1>2. Limit' = Limit
  BY <1>1 DEF Limit
<1>3. word = Len(text) + 1 /\ word - 1 = Len(text)
  BY <1>0, <1>1 DEF PackTypeOK
<1>4. IsPacking(text, chunks, room, Len(text)) /\ Standing /\ text # <<>> /\ Limit > 0
  BY <1>1, <1>3 DEF PackInv
<1>5. n \in Nat /\ n > 0
  <2>1. Len(text) > 0
    BY <1>0, <1>4
  <2> QED  BY <1>4, <2>1, PackingTypes DEF IsPacking
<1>6. CASE mode # "prose" \/ (total = 0 /\ n <= 1) \/ n = total
  <2>1. UNCHANGED <<room, word, chunks, total, rounds>> /\ stage' = "done"
    BY <1>6 DEF PackEnd
  <2>2. PackTypeOK'
    BY <1>0, <1>1, <2>1 DEF PackTypeOK
  <2>3. Standing'
    BY <1>1, <1>2, <1>4, <2>1 DEF Standing, Settling, FirstPacking
  <2>4. IsPacking(text, chunks, room, word - 1)'
    BY <1>1, <2>1 DEF PackInv
  <2>5. mode = "prose" => n <= 1 \/ (n = total /\ total > 0)
    BY <1>5, <1>6
  <2> QED  BY <1>1, <1>2, <1>3, <1>4, <2>1, <2>2, <2>3, <2>4, <2>5 DEF PackInv
<1>7. CASE ~(mode # "prose" \/ (total = 0 /\ n <= 1) \/ n = total)
  <2>1. /\ room' = RoomFor(Limit, n) /\ total' = n /\ rounds' = rounds + 1
        /\ chunks' = <<>> /\ word' = 1 /\ stage' = stage
    BY <1>7 DEF PackEnd, RoomFor
  <2>2. mode = "prose" /\ n # total
    BY <1>7
  <2>3. PackTypeOK'
    <3>1. RoomFor(Limit, n) \in Int
      BY <1>0, <1>5, Rooms
    <3> HIDE DEF n
    <3> QED  BY <1>0, <1>1, <1>5, <2>1, <3>1 DEF PackTypeOK
  <2>4. IsPacking(text, chunks, room, word - 1)'
    <3>1. (word - 1)' = 0
      BY <2>1
    <3> QED  BY <2>1, <3>1, NothingPacked
  <2>5. Settling
    BY <1>4, <2>2 DEF Standing
  <2>6. CASE rounds = 0 /\ total = 0 /\ room = RoomFor(Limit, 99)
    <3>1. FirstPacking(chunks)
      BY <1>4, <2>6 DEF FirstPacking
    <3>2. rounds' = 1 /\ total' > 0 /\ room' = RoomFor(Limit', total')
      BY <1>2, <1>5, <2>1, <2>6
    <3>3. \E c : FirstPacking(c)' /\ Len(c) = total'
      BY <1>1, <1>2, <2>1, <3>1 DEF FirstPacking
    <3>4. Settling'
      BY <3>2, <3>3 DEF Settling, FirstPacking
    <3>5. Standing'
      BY <1>1, <2>2, <3>4 DEF Standing
    <3> QED  BY <1>1, <1>2, <1>4, <2>1, <2>3, <2>4, <3>5 DEF PackInv
  <2>7. CASE /\ rounds = 1 /\ total > 0 /\ room = RoomFor(Limit, total)
             /\ \E c : FirstPacking(c) /\ Len(c) = total
    <3>1. PICK c : FirstPacking(c) /\ Len(c) = total
      BY <2>7
    <3>2. IsPacking(text, chunks, RoomFor(Limit, Len(c)), Len(text))
      BY <1>4, <2>7, <3>1
    <3>3. rounds' = 2 /\ total' > 0 /\ room' = RoomFor(Limit', total')
      BY <1>2, <1>5, <2>1, <2>7
    <3>4. /\ FirstPacking(c)'
          /\ (IsPacking(text, chunks, RoomFor(Limit, Len(c)), Len(text)) /\ Len(chunks) = total')
      BY <1>1, <1>2, <2>1, <3>1, <3>2 DEF FirstPacking
    <3>5. Settling'
      BY <1>1, <1>2, <3>3, <3>4 DEF Settling, FirstPacking
    <3>6. Standing'
      BY <1>1, <2>2, <3>5 DEF Standing
    <3> QED  BY <1>1, <1>2, <1>4, <2>1, <2>3, <2>4, <3>6 DEF PackInv
  <2>8. CASE /\ rounds = 2 /\ total > 0 /\ room = RoomFor(Limit, total)
             /\ \E c : /\ FirstPacking(c)
                       /\ \E d : /\ IsPacking(text, d, RoomFor(Limit, Len(c)), Len(text))
                                 /\ Len(d) = total
    <3>1. PICK c : /\ FirstPacking(c)
                   /\ \E d : /\ IsPacking(text, d, RoomFor(Limit, Len(c)), Len(text))
                             /\ Len(d) = total
      BY <2>8
    <3>2. PICK d : IsPacking(text, d, RoomFor(Limit, Len(c)), Len(text)) /\ Len(d) = total
      BY <3>1
    <3>3. IsPacking(text, chunks, RoomFor(Limit, Len(d)), Len(text))
      BY <1>4, <2>8, <3>2
    <3>4. Len(chunks) = Len(d)
      BY <1>0, <3>1, <3>2, <3>3, NoThirdRound DEF FirstPacking
    <3> QED  BY <2>2, <3>2, <3>4
  <2> QED  BY <2>5, <2>6, <2>7, <2>8 DEF Settling
<1> QED  BY <1>6, <1>7

\* PackInv implies the property.
LEMMA PackInvSuffices == PackInv => PackedWell
<1> SUFFICES ASSUME PackInv PROVE PackedWell
  OBVIOUS
<1>0. Limit \in Int /\ Len(text) \in Nat /\ PackTypeOK /\ text \in Seq(Nat \ {0}) /\ total \in Nat
      /\ lead \in Nat /\ mention \in Nat /\ mention <= lead /\ room \in Int /\ MaxChars = Limit + lead /\ MaxChars \in Nat
  <2>1. MaxChars \in Nat /\ lead \in Nat /\ mention \in Nat /\ mention <= lead
    BY PacketizeAssumption DEF PackInv, PackTypeOK
  <2>2. MaxChars = Limit + lead
    BY <2>1 DEF Limit
  <2> QED  BY <2>1, <2>2, PackLimit DEF PackInv, PackTypeOK
<1>1. rounds <= 2
  <2>1. rounds = 0 \/ rounds = 1 \/ rounds = 2
    BY <1>0 DEF PackInv, PackTypeOK, Standing, Settling
  <2> QED  BY <2>1
<1> SUFFICES ASSUME stage = "done"
             PROVE  /\ text # <<>> => chunks[1].from = 1 /\ chunks[Len(chunks)].to = Len(text)
                    /\ \A i \in 2..Len(chunks) : chunks[i].from = chunks[i - 1].to + 1
                    /\ \A i \in DOMAIN chunks :
                          PacketLen(i) <= MaxChars \/ chunks[i].from = chunks[i].to
  BY <1>1 DEF PackedWell
<1>2. IsPacking(text, chunks, room, Len(text))
  <2>1. word - 1 = Len(text)
    BY <1>0 DEF PackInv
  <2> QED  BY <2>1 DEF PackInv
<1>3. chunks \in Seq(Chunk) /\ Len(chunks) \in Nat /\ DOMAIN chunks = 1..Len(chunks)
      /\ Len(chunks) <= Len(text)
  BY <1>2 DEF IsPacking
<1>4. text # <<>> => chunks[1].from = 1 /\ chunks[Len(chunks)].to = Len(text)
  <2>1. text # <<>> => Len(text) > 0
    BY <1>0
  <2> QED  BY <1>2, <2>1 DEF IsPacking, From, To
<1>5. ASSUME NEW i \in 2..Len(chunks) PROVE chunks[i].from = chunks[i - 1].to + 1
  <2>1. i \in 1..Len(chunks) /\ i > 1
    BY <1>3
  <2> QED  BY <1>2, <2>1 DEF IsPacking, From, To
<1>6. ASSUME NEW i \in DOMAIN chunks PROVE PacketLen(i) <= MaxChars \/ chunks[i].from = chunks[i].to
  <2> SUFFICES ASSUME From(chunks, i) # To(chunks, i) PROVE PacketLen(i) <= MaxChars
    BY DEF From, To
  <2> DEFINE n == Len(chunks)
             s == Size(chunks, i)
             p == IF mode = "plain" \/ Numbered <= 1 THEN 0 ELSE PrefixLen(i + Numbered - n, Numbered)
             a == IF i = 1 THEN lead ELSE mention
  <2>1. i \in 1..n /\ i \in Nat /\ 1 <= i /\ i <= n /\ n \in Nat /\ n <= Len(text)
    BY <1>3
  <2>2. s \in Nat /\ s >= 3 /\ s <= room
    <3>1. Len(text) \in 0..Len(text) /\ i \in 1..Len(chunks)
      BY <1>0, <2>1
    <3>2. s \in Nat /\ s >= 3
      BY <1>0, <1>2, <1>3, <3>1, TwoWordsAreLong, PackingTypes
    <3> QED  BY <1>2, <3>1, <3>2 DEF IsPacking
  <2>3. PacketLen(i) = s + a + p
    BY DEF PacketLen, Size
  <2>4. a \in Nat /\ a <= lead
    BY <1>0
  <2>5. Limit > 0 /\ Standing /\ (mode = "prose" => n <= 1 \/ (n = total /\ total > 0))
    <3>1. text # <<>>
      BY <1>0, <2>1
    <3> QED  BY <3>1 DEF PackInv
  <2>6. p \in Nat /\ s + p <= Limit
    <3>1. CASE mode = "plain"
      <4>1. p = 0 /\ room = Limit
        BY <1>0, <2>5, <3>1 DEF Standing, AtLeastOne
      <4> HIDE DEF p, s
      <4> QED  BY <1>0, <2>2, <4>1
    <3>2. CASE mode = "lines"
      <4>1. room = Limit - 8 /\ n + 1 < 100 /\ Numbered = n + 1
        BY <1>0, <2>1, <2>5, <3>2 DEF Standing, PackTypeOK, Numbered
      <4>2. i + Numbered - n = i + 1 /\ i + 1 < 100 /\ i + 1 \in Nat
        BY <2>1, <4>1
      <4>3. p \in Nat /\ p <= 8
        <5>1. p = PrefixLen(i + 1, n + 1)
          BY <2>1, <3>2, <4>1, <4>2
        <5> QED  BY <2>1, <4>1, <4>2, <5>1 DEF PrefixLen, Digits
      <4> HIDE DEF p, s
      <4> QED  BY <1>0, <2>2, <4>1, <4>3
    <3>3. CASE mode = "prose"
      <4>1. Numbered = n /\ i + Numbered - n = i
        BY <2>1, <3>3 DEF Numbered
      <4>2. CASE n <= 1
        <5>1. p = 0
          BY <2>1, <4>1, <4>2
        <5>2. room <= Limit
          <6>1. room = RoomFor(Limit, 99) \/ room = RoomFor(Limit, total)
            BY <2>5, <3>3 DEF Standing, Settling
          <6>1a. \E x \in {6, 8, 10} : room = AtLeastOne(Limit - x)
            <7>1. \A x \in Nat : x < 10 \/ (x >= 10 /\ x < 100) \/ x >= 100
              OBVIOUS
            <7> QED  BY <1>0, <6>1, <7>1, Rooms
          <6>2. /\ AtLeastOne(Limit - 6) <= Limit /\ AtLeastOne(Limit - 8) <= Limit
                /\ AtLeastOne(Limit - 10) <= Limit
            BY <1>0, <2>5 DEF AtLeastOne
          <6> QED  BY <6>1a, <6>2
        <5> HIDE DEF p, s
        <5> QED  BY <1>0, <2>2, <5>1, <5>2
      <4>3. CASE n > 1
        <5>1. n = total /\ total > 0
          BY <2>1, <2>5, <3>3, <4>3
        <5>2. room = RoomFor(Limit, n)
          BY <2>5, <3>3, <5>1 DEF Standing, Settling
        <5>3. p = PrefixLen(i, n)
          BY <2>1, <3>3, <4>1, <4>3
        <5>4. p \in Nat /\ p <= SequencePrefixLen(n) /\ SequencePrefixLen(n) \in Nat
          BY <2>1, <5>3 DEF PrefixLen, SequencePrefixLen, Digits
        <5>5. room = 1 \/ room = Limit - SequencePrefixLen(n)
          BY <5>2 DEF RoomFor, AtLeastOne
        <5> HIDE DEF p, s
        <5>6. room = Limit - SequencePrefixLen(n)
          BY <1>0, <2>2, <5>5
        <5> QED  BY <1>0, <2>2, <5>4, <5>6
      <4> QED  BY <2>1, <4>2, <4>3
    <3> QED  BY <1>0, <3>1, <3>2, <3>3 DEF PackTypeOK
  <2> HIDE DEF p, s, a, n
  <2> QED  BY <1>0, <2>2, <2>3, <2>4, <2>6
<1> QED  BY <1>4, <1>5, <1>6

\* The packetizer's loop ends after at most two further rounds, loses no word,
\* and respects the limit: PackedWell, for every text of fewer than a thousand
\* words, every lead and every packet_max_chars.
THEOREM PacketizerPacksWell == PackSpec => []PackedWell
<1>1. PackInv /\ [PackNext]_packVars => PackInv'
  <2> SUFFICES ASSUME PackInv, [PackNext]_packVars PROVE PackInv'
    OBVIOUS
  <2>1. CASE PackBegin
    BY <2>1, PackBeginInv
  <2>2. CASE PackWord
    BY <2>2, PackWordInv
  <2>3. CASE PackEnd
    BY <2>3, PackEndInv
  <2>4. CASE UNCHANGED packVars
    BY <2>4 DEF PackInv, packVars, PackTypeOK, Standing, Settling, FirstPacking, Limit
  <2> QED  BY <2>1, <2>2, <2>3, <2>4 DEF PackNext
<1> QED  BY PackInitInv, PackInvSuffices, <1>1, PTL DEF PackSpec
=============================================================================
