---------------------------- MODULE Buses_proofs ----------------------------
(***************************************************************************)
(* The admin console's live streams, for any number of sessions, streams,  *)
(* threads and records and any sizes of queues and buffers: places are     *)
(* counted exactly and no stream of an ended session is left without its   *)
(* end (SessionBus); a log tail misses no record that it is not told of    *)
(* (LogBus).                                                               *)
(***************************************************************************)
EXTENDS SessionBus, LogBus, FiniteSetTheorems, SequenceTheorems, WellFoundedInduction, TLAPS

-----------------------------------------------------------------------------
(* Induction on the natural numbers, for sets. *)

\* A set of numbers has a smallest one.
LEMMA SmallestNat ==
    ASSUME NEW T \in SUBSET Nat, T # {}
    PROVE  \E x \in T : \A y \in T : x <= y
<1> DEFINE R == OpToRel(<, Nat)
<1>0. IsWellFoundedOn(R, Nat)
  BY NatLessThanWellFounded
<1>1. \A x, y \in Nat : y < x => <<y, x>> \in R
  BY DEF OpToRel
<1> HIDE DEF R
<1>2. PICK x \in T : \A y \in T : ~(<<y, x>> \in R)
  BY <1>0, WFMin
<1>3. ASSUME NEW y \in T PROVE x <= y
  <2>1. x \in Nat /\ y \in Nat
    OBVIOUS
  <2>2. ~(y < x)
    BY <1>1, <1>2, <2>1
  <2> QED  BY <2>1, <2>2
<1> QED BY <1>3

\* A set that has 0 and every successor has all numbers.
LEMMA SetInduction ==
    ASSUME NEW S \in SUBSET Nat, 0 \in S, \A n \in S : n + 1 \in S
    PROVE  S = Nat
<1> SUFFICES ASSUME Nat \ S # {} PROVE FALSE
  OBVIOUS
<1>1. PICK x \in Nat \ S : \A y \in Nat \ S : x <= y
  <2>1. Nat \ S \in SUBSET Nat
    OBVIOUS
  <2> QED  BY <2>1, SmallestNat
<1>2. x # 0
  OBVIOUS
<1>3. x - 1 \in Nat /\ ~(x <= x - 1)
  BY <1>2
<1>4. x - 1 \in S
  BY <1>1, <1>3
<1>5. (x - 1) + 1 = x
  OBVIOUS
<1> QED  BY <1>4, <1>5

-----------------------------------------------------------------------------
(* SessionBus. *)

Items == {"item", "end"}

BusType ==
    /\ active \subseteq Numbers /\ over \subseteq Numbers
    /\ subscribers \in [Numbers -> SUBSET Streams]
    /\ inbox \in [Streams -> Seq(Items)]
    /\ watches \in [Streams -> Numbers \cup {NoNumber}]
    /\ overflow \subseteq Streams

\* Until its session ends an open stream is a subscriber; what it watches has
\* been in the registry; and a number ends once.
StreamsKnown ==
    /\ active \cap over = {}
    /\ \A s \in Opened : watches[s] \in active \cup over
    /\ \A s \in Opened : watches[s] \in active => s \in subscribers[watches[s]]

BusInv == BusType /\ StreamsKnown /\ EndStillToCome

\* Something that is put into a queue leaves what is there.
LEMMA PutKeeps ==
    ASSUME BusType, NEW n \in Numbers, NEW item \in Items, Put(n, item)
    PROVE  /\ inbox' \in [Streams -> Seq(Items)] /\ overflow' \subseteq Streams
           /\ overflow \subseteq overflow'
           /\ \A s \in Streams : (\E i \in DOMAIN inbox[s] : inbox[s][i] = "end")
                                     => \E i \in DOMAIN inbox'[s] : inbox'[s][i] = "end"
           /\ \A s \in subscribers[n] :
                 s \in overflow' \/ \E i \in DOMAIN inbox'[s] : inbox'[s][i] = item
<1>1. overflow' = overflow \cup (subscribers[n] \cap Full) /\ subscribers[n] \subseteq Streams
  BY DEF Put, BusType
<1>2. ASSUME NEW s \in Streams
      PROVE  /\ inbox'[s] \in Seq(Items)
             /\ (\E i \in DOMAIN inbox[s] : inbox[s][i] = "end")
                    => \E i \in DOMAIN inbox'[s] : inbox'[s][i] = "end"
             /\ s \in subscribers[n] \ Full => \E i \in DOMAIN inbox'[s] : inbox'[s][i] = item
  <2>1. inbox[s] \in Seq(Items)
    BY DEF BusType
  <2>2. CASE s \in subscribers[n] \ Full
    <3> DEFINE q == inbox[s]
    <3>1. inbox'[s] = Append(q, item)
      BY <2>2 DEF Put
    <3>2. /\ Len(q) \in Nat /\ DOMAIN q = 1..Len(q) /\ Append(q, item) \in Seq(Items)
          /\ DOMAIN Append(q, item) = 1..(Len(q) + 1) /\ Append(q, item)[Len(q) + 1] = item
          /\ \A i \in 1..Len(q) : i \in 1..(Len(q) + 1) /\ Append(q, item)[i] = q[i]
      BY <2>1
    <3>3. Len(q) + 1 \in 1..(Len(q) + 1)
      BY <3>2
    <3> HIDE DEF q
    <3>4. \E i \in DOMAIN inbox'[s] : inbox'[s][i] = item
      BY <3>1, <3>2, <3>3
    <3>5. (\E i \in DOMAIN q : q[i] = "end") => \E i \in DOMAIN inbox'[s] : inbox'[s][i] = "end"
      BY <3>1, <3>2
    <3> QED  BY <3>1, <3>2, <3>4, <3>5 DEF q
  <2>3. CASE s \notin subscribers[n] \ Full
    <3>1. inbox'[s] = inbox[s]
      BY <2>3 DEF Put
    <3> QED  BY <2>1, <2>3, <3>1
  <2> QED  BY <2>2, <2>3
<1>3. inbox' \in [Streams -> Seq(Items)]
  <2>1. inbox' = [s \in Streams |-> inbox'[s]]
    BY DEF Put
  <2> QED  BY <1>2, <2>1
<1>4. overflow' \subseteq Streams
  BY <1>1 DEF BusType
<1> QED  BY <1>1, <1>2, <1>3, <1>4

\* A stream is closed, by its end or by its client.
LEMMA UnsubscribeInv ==
    ASSUME BusInv, NEW s \in Opened, Unsubscribe(s)
    PROVE  BusInv'
<1>1. s \in Streams /\ watches[s] \in Numbers
  BY DEF Opened, BusInv, BusType
<1>2. /\ active' = active /\ over' = over /\ overflow' = overflow
      /\ subscribers' = [subscribers EXCEPT ![watches[s]] = @ \ {s}]
      /\ watches' = [watches EXCEPT ![s] = NoNumber]
      /\ inbox' = [inbox EXCEPT ![s] = <<>>]
  BY DEF Unsubscribe
<1>3. BusType'
  BY <1>1, <1>2 DEF BusInv, BusType
<1>4. Opened' = Opened \ {s} /\ \A t \in Opened' : watches'[t] = watches[t] /\ inbox'[t] = inbox[t]
  BY <1>1, <1>2 DEF BusInv, BusType, Opened
<1>5. \A t \in Opened', n \in Numbers : t \in subscribers[n] => t \in subscribers'[n]
  BY <1>1, <1>2, <1>4 DEF BusInv, BusType
<1>6. StreamsKnown'
  BY <1>2, <1>3, <1>4, <1>5 DEF BusInv, StreamsKnown, BusType, Opened
<1>7. EndStillToCome'
  BY <1>2, <1>4 DEF BusInv, EndStillToCome
<1> QED  BY <1>3, <1>6, <1>7 DEF BusInv

\* Every step of the bus keeps the invariant.
LEMMA BusStep == BusInv /\ [BusNext]_busVars => BusInv'
<1> SUFFICES ASSUME BusInv, [BusNext]_busVars PROVE BusInv'
  OBVIOUS
<1>0. BusType /\ StreamsKnown /\ EndStillToCome
  BY DEF BusInv
<1>1. ASSUME NEW n \in Numbers, Registered(n) PROVE BusInv'
  <2>1. BusType' /\ Opened' = Opened /\ watches' = watches
    BY <1>0, <1>1 DEF Registered, BusType, Opened
  <2>2. StreamsKnown'
    BY <1>0, <1>1, <2>1 DEF Registered, StreamsKnown
  <2> QED  BY <1>0, <1>1, <2>1, <2>2 DEF Registered, EndStillToCome, BusInv
<1>2. ASSUME NEW n \in Numbers, PublishItem(n) PROVE BusInv'
  <2>1. Put(n, "item") /\ "item" \in Items
    BY <1>2 DEF PublishItem, Items
  <2>2. /\ inbox' \in [Streams -> Seq(Items)] /\ overflow' \subseteq Streams /\ overflow \subseteq overflow'
        /\ \A s \in Streams : (\E i \in DOMAIN inbox[s] : inbox[s][i] = "end")
                                  => \E i \in DOMAIN inbox'[s] : inbox'[s][i] = "end"
    BY <1>0, <2>1, PutKeeps
  <2>3. /\ active' = active /\ over' = over /\ subscribers' = subscribers /\ watches' = watches
        /\ Opened' = Opened
    BY <1>2 DEF PublishItem, Opened
  <2>4. BusType'
    BY <1>0, <2>2, <2>3 DEF BusType
  <2>5. StreamsKnown'
    BY <1>0, <2>3 DEF StreamsKnown
  <2>6. EndStillToCome'
    BY <1>0, <2>2, <2>3 DEF EndStillToCome, Opened
  <2> QED  BY <2>4, <2>5, <2>6 DEF BusInv
<1>3. ASSUME NEW n \in Numbers, PublishEnd(n) PROVE BusInv'
  <2>1. Put(n, "end") /\ "end" \in Items
    BY <1>3 DEF PublishEnd, Items
  <2>2. /\ inbox' \in [Streams -> Seq(Items)] /\ overflow' \subseteq Streams /\ overflow \subseteq overflow'
        /\ \A s \in Streams : (\E i \in DOMAIN inbox[s] : inbox[s][i] = "end")
                                  => \E i \in DOMAIN inbox'[s] : inbox'[s][i] = "end"
        /\ \A s \in subscribers[n] :
              s \in overflow' \/ \E i \in DOMAIN inbox'[s] : inbox'[s][i] = "end"
    BY <1>0, <2>1, PutKeeps
  <2>3. /\ n \in active /\ active' = active \ {n} /\ over' = over \cup {n} /\ watches' = watches
        /\ subscribers' = [subscribers EXCEPT ![n] = {}] /\ Opened' = Opened
    BY <1>3 DEF PublishEnd, Opened
  <2>4. BusType'
    BY <1>0, <2>2, <2>3 DEF BusType
  <2>5. StreamsKnown'
    BY <1>0, <2>3 DEF StreamsKnown, BusType
  <2>6. EndStillToCome'
    <3> SUFFICES ASSUME NEW s \in Opened, watches[s] \in over \cup {n}
                 PROVE  (\E i \in DOMAIN inbox'[s] : inbox'[s][i] = "end") \/ s \in overflow'
      BY <2>3 DEF EndStillToCome
    <3>1. CASE watches[s] \in over
      BY <1>0, <2>2, <3>1 DEF EndStillToCome, Opened
    <3>2. CASE watches[s] = n
      BY <1>0, <2>2, <2>3, <3>2 DEF StreamsKnown
    <3> QED  BY <3>1, <3>2
  <2> QED  BY <2>4, <2>5, <2>6 DEF BusInv
<1>4. ASSUME NEW s \in Streams, NEW n \in Numbers, StreamOpen(s, n) PROVE BusInv'
  <2>1. /\ watches[s] = NoNumber /\ n \in active /\ active' = active /\ over' = over /\ inbox' = inbox
        /\ watches' = [watches EXCEPT ![s] = n] /\ overflow' = overflow \ {s}
        /\ subscribers' = [subscribers EXCEPT ![n] = @ \cup {s}]
    BY <1>4 DEF StreamOpen
  <2>2. BusType'
    BY <1>0, <2>1 DEF BusType
  <2>3. /\ Opened' = Opened \cup {s} /\ s \notin Opened /\ watches'[s] = n
        /\ \A t \in Opened : watches'[t] = watches[t]
    BY <1>0, <2>1, BusAssumption DEF BusType, Opened
  <2>4. s \in subscribers'[n] /\ \A m \in Numbers : subscribers[m] \subseteq subscribers'[m]
    BY <1>0, <2>1 DEF BusType
  <2>5. StreamsKnown'
    BY <1>0, <2>1, <2>2, <2>3, <2>4 DEF StreamsKnown, BusType
  <2>6. EndStillToCome'
    BY <1>0, <2>1, <2>3 DEF EndStillToCome, StreamsKnown
  <2> QED  BY <2>2, <2>5, <2>6 DEF BusInv
<1>5. ASSUME NEW s \in Streams, StreamSend(s) PROVE BusInv'
  <2>1. s \in Opened /\ inbox[s] # <<>> /\ inbox[s] \in Seq(Items)
    BY <1>0, <1>5 DEF StreamSend, BusType
  <2>2. CASE Head(inbox[s]) = "end"
    BY <1>5, <2>1, <2>2, UnsubscribeInv DEF StreamSend
  <2>3. CASE Head(inbox[s]) # "end"
    <3>1. /\ inbox' = [inbox EXCEPT ![s] = Tail(@)]
          /\ UNCHANGED <<active, over, channels, subscribers, watches, streamCount, abandoned, overflow>>
      BY <1>5, <2>3 DEF StreamSend
    <3>2. Opened' = Opened
      BY <3>1 DEF Opened
    <3>3. Tail(inbox[s]) \in Seq(Items)
      BY <2>1, HeadTailProperties
    <3>4. BusType'
      BY <1>0, <3>1, <3>3 DEF BusType
    <3>5. StreamsKnown'
      BY <1>0, <3>1, <3>2 DEF StreamsKnown
    <3>6. ASSUME NEW i \in DOMAIN inbox[s], inbox[s][i] = "end"
          PROVE  \E j \in DOMAIN inbox'[s] : inbox'[s][j] = "end"
      <4>1. i # 1
        BY <2>1, <2>3, <3>6
      <4>2. i - 1 \in DOMAIN Tail(inbox[s]) /\ Tail(inbox[s])[i - 1] = "end"
        BY <2>1, <3>6, <4>1
      <4>3. inbox'[s] = Tail(inbox[s])
        BY <1>0, <3>1 DEF BusType
      <4> QED  BY <4>2, <4>3
    <3>7. \A t \in Streams \ {s} : inbox'[t] = inbox[t]
      BY <1>0, <3>1 DEF BusType
    <3>8. EndStillToCome'
      BY <1>0, <3>1, <3>2, <3>6, <3>7 DEF EndStillToCome, Opened
    <3> QED  BY <3>4, <3>5, <3>8 DEF BusInv
  <2> QED  BY <2>2, <2>3
<1>6. ASSUME NEW s \in Streams, StreamLeft(s) PROVE BusInv'
  BY <1>6, UnsubscribeInv DEF StreamLeft
<1>7. CASE UNCHANGED busVars
  BY <1>0, <1>7 DEF busVars, BusInv, BusType, StreamsKnown, EndStillToCome, Opened
<1> QED  BY <1>1, <1>2, <1>3, <1>4, <1>5, <1>6, <1>7 DEF BusNext

\* The bus starts in BusInv and never leaves it.
THEOREM BusInvariant == BusSpec => []BusInv
<1>1. BusInit => BusInv
  BY DEF BusInit, BusInv, BusType, StreamsKnown, EndStillToCome, Opened, Items
<1> QED  BY <1>1, BusStep, PTL DEF BusSpec

\* A stream of an ended session is still to read session_end, or missed
\* something because its queue was full (session_ended: publish, then drop
\* the channel).
THEOREM BusEndStillToCome == BusSpec => []EndStillToCome
<1>1. BusInv => EndStillToCome
  BY DEF BusInv
<1> QED  BY <1>1, BusInvariant, PTL

\* subscribe and unsubscribe count the open streams.
LEMMA CountStep == BusInv /\ StreamCountExact /\ [BusNext]_busVars => StreamCountExact'
<1> SUFFICES ASSUME BusInv, StreamCountExact, [BusNext]_busVars PROVE StreamCountExact'
  OBVIOUS
<1>1. IsFiniteSet(Opened) /\ Cardinality(Opened) \in Nat
  <2>1. Opened \subseteq Streams
    BY DEF Opened
  <2> QED  BY <2>1, BusAssumption, FS_Subset, FS_CardinalityType
<1>2. ASSUME UNCHANGED <<watches, streamCount>> PROVE StreamCountExact'
  BY <1>2 DEF StreamCountExact, Opened
<1>3. ASSUME NEW s \in Opened, Unsubscribe(s) PROVE StreamCountExact'
  <2>1. Opened' = Opened \ {s}
    BY <1>3 DEF Unsubscribe, Opened, BusInv, BusType
  <2>2. Cardinality(Opened') = Cardinality(Opened) - 1 /\ Cardinality(Opened') \in Nat
    <3>1. IsFiniteSet(Opened')
      BY <1>1, <2>1, FS_RemoveElement
    <3> QED  BY <1>1, <1>3, <2>1, <3>1, FS_RemoveElement, FS_CardinalityType
  <2>3. streamCount' = IF streamCount > 0 THEN streamCount - 1 ELSE 0
    BY <1>3 DEF Unsubscribe
  <2> QED  BY <1>1, <2>2, <2>3, BusAssumption DEF StreamCountExact
<1>4. ASSUME NEW s \in Streams, NEW n \in Numbers, StreamOpen(s, n) PROVE StreamCountExact'
  <2>1. Opened' = Opened \cup {s} /\ s \notin Opened
    BY <1>4, BusAssumption DEF StreamOpen, Opened, BusInv, BusType
  <2>2. Cardinality(Opened') = Cardinality(Opened) + 1
    BY <1>1, <2>1, FS_AddElement
  <2>3. streamCount < MaxStreams /\ streamCount' = streamCount + 1
    BY <1>4 DEF StreamOpen
  <2> QED  BY <1>1, <2>2, <2>3, BusAssumption DEF StreamCountExact
<1>5. ASSUME NEW n \in Numbers, Registered(n) \/ PublishItem(n) \/ PublishEnd(n) PROVE StreamCountExact'
  BY <1>2, <1>5 DEF Registered, PublishItem, PublishEnd
<1>6. ASSUME NEW s \in Streams, StreamSend(s) \/ StreamLeft(s) PROVE StreamCountExact'
  BY <1>2, <1>3, <1>6 DEF StreamSend, StreamLeft
<1>7. CASE UNCHANGED busVars
  BY <1>2, <1>7 DEF busVars
<1> QED  BY <1>4, <1>5, <1>6, <1>7 DEF BusNext

\* max_live_streams counts exactly the streams that were opened and have not
\* ended, also when the session and its channel are gone, and the abandoned ones
\* for good (subscribe, unsubscribe).
THEOREM BusStreamCountExact == BusSpec => []StreamCountExact
<1>1. BusInit => StreamCountExact
  <2> SUFFICES ASSUME BusInit PROVE StreamCountExact
    OBVIOUS
  <2>1. Opened = {} /\ streamCount = 0
    BY DEF BusInit, Opened
  <2> QED  BY <2>1, FS_EmptySet, BusAssumption DEF StreamCountExact
<1> QED  BY <1>1, CountStep, BusInvariant, PTL DEF BusSpec

-----------------------------------------------------------------------------
(* LogBus: the replay of the buffer. *)

IsReplay(q, l, m) ==
    q = [k \in 0..m |-> IF k = 0 THEN <<>>
                        ELSE IF Replayed(k, l) THEN Append(q[k - 1], k)
                        ELSE q[k - 1]]

Replay(l) == CHOOSE q : IsReplay(q, l, Seq_)

\* subscribe replays what the recursion over the sequence numbers collects.
LEMMA BacklogIsReplay == \A l : Backlog(l) = Replay(l)[Seq_]
BY DEF Backlog, Replay, IsReplay

\* That recursion has a solution.
LEMMA ReplayExists ==
    ASSUME NEW l, level \in Seq(1..2)
    PROVE  IsReplay(Replay(l), l, Seq_)
<1> DEFINE S == {m \in Nat : \E q : IsReplay(q, l, m)}
<1>0. Seq_ \in Nat
  BY DEF Seq_
<1>1. 0 \in S
  <2>1. IsReplay([k \in 0..0 |-> <<>>], l, 0)
    BY DEF IsReplay
  <2> QED  BY <2>1
<1>2. ASSUME NEW m \in S PROVE m + 1 \in S
  <2>0. m \in Nat
    OBVIOUS
  <2>1. PICK q : IsReplay(q, l, m)
    OBVIOUS
  <2> DEFINE r == [k \in 0..(m + 1) |->
                      IF k = m + 1 THEN IF Replayed(k, l) THEN Append(q[m], k) ELSE q[m] ELSE q[k]]
             z == [k \in 0..(m + 1) |-> IF k = 0 THEN <<>>
                                        ELSE IF Replayed(k, l) THEN Append(r[k - 1], k)
                                        ELSE r[k - 1]]
  <2>2. ASSUME NEW k \in 0..(m + 1) PROVE r[k] = z[k]
    <3>1. CASE k = 0
      <4>1. r[0] = q[0] /\ z[0] = <<>> /\ 0 \in 0..m
        BY <2>0
      <4> QED  BY <2>1, <3>1, <4>1 DEF IsReplay
    <3>2. CASE k = m + 1
      <4>1. r[k - 1] = q[m] /\ k # 0
        BY <2>0, <3>2
      <4>2. r[k] = IF Replayed(k, l) THEN Append(q[m], k) ELSE q[m]
        BY <3>2
      <4>3. z[k] = IF Replayed(k, l) THEN Append(r[k - 1], k) ELSE r[k - 1]
        BY <4>1
      <4> HIDE DEF r, z
      <4> QED  BY <4>1, <4>2, <4>3
    <3>3. CASE k # 0 /\ k # m + 1
      <4>1. k \in 0..m /\ k - 1 \in 0..(m + 1) /\ k - 1 # m + 1
        BY <2>0, <3>3
      <4>2. r[k] = q[k] /\ r[k - 1] = q[k - 1]
        BY <3>3, <4>1
      <4>3. z[k] = IF Replayed(k, l) THEN Append(r[k - 1], k) ELSE r[k - 1]
        BY <3>3
      <4>4. q[k] = IF Replayed(k, l) THEN Append(q[k - 1], k) ELSE q[k - 1]
        BY <2>1, <3>3, <4>1 DEF IsReplay
      <4> HIDE DEF r, z
      <4> QED  BY <4>2, <4>3, <4>4
    <3> QED  BY <3>1, <3>2, <3>3
  <2>3. r = z
    <3>1. /\ DOMAIN r = 0..(m + 1) /\ DOMAIN z = 0..(m + 1)
          /\ r = [k \in DOMAIN r |-> r[k]] /\ z = [k \in DOMAIN z |-> z[k]]
      OBVIOUS
    <3> HIDE DEF r, z
    <3> QED  BY <2>2, <3>1
  <2>4. IsReplay(r, l, m + 1)
    BY <2>3 DEF IsReplay
  <2> QED  BY <2>0, <2>4
<1>3. S = Nat
  <2> HIDE DEF S
  <2>1. S \in SUBSET Nat
    BY DEF S
  <2> QED  BY <1>1, <1>2, <2>1, SetInduction
<1>4. \E q : IsReplay(q, l, Seq_)
  BY <1>0, <1>3
<1> QED  BY <1>4 DEF Replay

\* What the replay of the first m records is: increasing, and all that are wanted.
GoodReplay(q, l, m) ==
    /\ q \in Seq(Nat)
    /\ \A i \in 1..Len(q) : q[i] >= 1 /\ q[i] <= m /\ Replayed(q[i], l)
    /\ \A i, j \in 1..Len(q) : i < j => q[i] < q[j]
    /\ \A k \in 1..m : Replayed(k, l) => \E i \in 1..Len(q) : q[i] = k

\* The next record of the buffer joins the replay.
LEMMA GoodReplayNext ==
    ASSUME NEW l, NEW m \in Nat, NEW q, GoodReplay(q, l, m), Replayed(m + 1, l)
    PROVE  GoodReplay(Append(q, m + 1), l, m + 1)
<1> DEFINE n == Len(q)
           r == Append(q, m + 1)
<1>1. /\ n \in Nat /\ Len(r) = n + 1 /\ r \in Seq(Nat) /\ r[n + 1] = m + 1
      /\ \A i \in 1..n : r[i] = q[i] /\ q[i] \in Nat
  BY DEF GoodReplay
<1>2. /\ \A i \in 1..n : q[i] >= 1 /\ q[i] <= m /\ Replayed(q[i], l)
      /\ \A i, j \in 1..n : i < j => q[i] < q[j]
      /\ \A k \in 1..m : Replayed(k, l) => \E i \in 1..n : q[i] = k
  BY DEF GoodReplay
<1> HIDE DEF n, r
<1>3. ASSUME NEW i \in 1..(n + 1) PROVE r[i] >= 1 /\ r[i] <= m + 1 /\ Replayed(r[i], l)
  <2>1. CASE i = n + 1
    BY <1>1, <2>1
  <2>2. CASE i # n + 1
    <3>1. i \in 1..n
      BY <1>1, <2>2
    <3>2. q[i] \in Nat /\ q[i] <= m /\ q[i] >= 1 /\ Replayed(q[i], l) /\ r[i] = q[i]
      BY <1>1, <1>2, <3>1
    <3>3. \A x \in Nat : x <= m => x <= m + 1
      OBVIOUS
    <3> QED  BY <3>2, <3>3
  <2> QED  BY <2>1, <2>2
<1>4. ASSUME NEW i \in 1..(n + 1), NEW j \in 1..(n + 1), i < j PROVE r[i] < r[j]
  <2>1. i \in 1..n
    BY <1>1, <1>4
  <2>2. CASE j = n + 1
    <3>1. q[i] \in Nat /\ q[i] <= m /\ r[i] = q[i] /\ r[j] = m + 1
      BY <1>1, <1>2, <2>1, <2>2
    <3>2. \A x \in Nat : x <= m => x < m + 1
      OBVIOUS
    <3> QED  BY <3>1, <3>2
  <2>3. CASE j # n + 1
    <3>1. j \in 1..n
      BY <1>1, <2>3
    <3> QED  BY <1>1, <1>2, <1>4, <2>1, <3>1
  <2> QED  BY <2>2, <2>3
<1>5. ASSUME NEW k \in 1..(m + 1), Replayed(k, l) PROVE \E i \in 1..(n + 1) : r[i] = k
  <2>1. CASE k = m + 1
    <3>1. n + 1 \in 1..(n + 1)
      BY <1>1
    <3> QED  BY <1>1, <2>1, <3>1
  <2>2. CASE k # m + 1
    <3>1. k \in 1..m
      BY <2>2
    <3>2. PICK i \in 1..n : q[i] = k
      BY <1>2, <1>5, <3>1
    <3>3. i \in 1..(n + 1) /\ r[i] = k
      BY <1>1, <3>2
    <3> QED  BY <3>3
  <2> QED  BY <2>1, <2>2
<1>6. GoodReplay(r, l, m + 1)
  BY <1>1, <1>3, <1>4, <1>5 DEF GoodReplay
<1> QED  BY <1>6 DEF r

\* Backlog is the wanted records of the buffer, in order.
LEMMA BacklogGood ==
    ASSUME NEW l, level \in Seq(1..2)
    PROVE  GoodReplay(Backlog(l), l, Seq_)
<1> DEFINE Q == Replay(l)
           S == {m \in Nat : m <= Seq_ => GoodReplay(Q[m], l, m)}
<1>0. Seq_ \in Nat
  BY DEF Seq_
<1>a. Q = [k \in 0..Seq_ |-> IF k = 0 THEN <<>>
                        ELSE IF Replayed(k, l) THEN Append(Q[k - 1], k)
                        ELSE Q[k - 1]]
  BY ReplayExists DEF IsReplay
<1> HIDE DEF Q
<1>1. 0 \in S
  <2>1. Q[0] = <<>>
    BY <1>0, <1>a
  <2>2. GoodReplay(<<>>, l, 0)
    BY DEF GoodReplay
  <2> QED  BY <2>1, <2>2
<1>2. ASSUME NEW m \in S PROVE m + 1 \in S
  <2>0. m \in Nat
    OBVIOUS
  <2> SUFFICES ASSUME m + 1 <= Seq_ PROVE GoodReplay(Q[m + 1], l, m + 1)
    BY <2>0
  <2>1. m + 1 \in 0..Seq_ /\ m + 1 # 0 /\ (m + 1) - 1 = m /\ m <= Seq_
    BY <1>0, <2>0
  <2>2. GoodReplay(Q[m], l, m)
    BY <2>1
  <2>3. Q[m + 1] = IF Replayed(m + 1, l) THEN Append(Q[m], m + 1) ELSE Q[m]
    BY <1>a, <2>1
  <2>4. CASE Replayed(m + 1, l)
    BY <2>0, <2>2, <2>3, <2>4, GoodReplayNext
  <2>5. CASE ~Replayed(m + 1, l)
    <3>1. Q[m + 1] = Q[m]
      BY <2>3, <2>5
    <3>2. \A x \in Nat : x <= m => x <= m + 1
      BY <2>0
    <3>3. \A k \in 1..(m + 1) : k \in 1..m \/ k = m + 1
      BY <2>0
    <3>4. \A i \in 1..Len(Q[m]) : Q[m][i] \in Nat
      BY <2>2 DEF GoodReplay
    <3> QED  BY <2>2, <2>5, <3>1, <3>2, <3>3, <3>4 DEF GoodReplay
  <2> QED  BY <2>4, <2>5
<1>3. S = Nat
  <2> HIDE DEF S
  <2>1. S \in SUBSET Nat
    BY DEF S
  <2> QED  BY <1>1, <1>2, <2>1, SetInduction
<1>4. GoodReplay(Q[Seq_], l, Seq_)
  BY <1>0, <1>3
<1> QED  BY <1>4, BacklogIsReplay DEF Q

-----------------------------------------------------------------------------
(* What a subscriber was given, as a relation of plain values: its records   *)
(* out, the drops not yet announced, the levels of all records, the level it *)
(* asked for, the last record b before it joined and the last one d that is  *)
(* done with.                                                                *)

ItemOf(q, i) == q[i].item
BeforeOf(q, i) == q[i].before
AtLevel(lv, ml, X) == {k \in X : lv[k] >= ml}
Between(lv, ml, x, y) == AtLevel(lv, ml, (x + 1)..y)
Given == [item : Nat, before : Nat]

IsGiven(out, drops, lv, ml, b, d) ==
    /\ out \in Seq(Given)
    /\ \A i \in 1..Len(out) : ItemOf(out, i) >= 1 /\ ItemOf(out, i) <= d
    /\ \A i \in 1..Len(out) : i < Len(out) =>
          /\ ItemOf(out, i) < ItemOf(out, i + 1)
          /\ Cardinality(Between(lv, ml, ItemOf(out, i), ItemOf(out, i + 1) - 1)) = BeforeOf(out, i + 1)
    /\ Len(out) > 0 =>
          /\ Between(lv, ml, ItemOf(out, Len(out)), b) = {}
          /\ Cardinality(Between(lv, ml, ItemOf(out, Len(out)), d)) = drops

\* What is given to a tail: places and counts.
LEMMA GivenTypes ==
    ASSUME NEW out \in Seq(Given)
    PROVE  Len(out) \in Nat /\ \A i \in 1..Len(out) : ItemOf(out, i) \in Nat /\ BeforeOf(out, i) \in Nat
<1>1. \A i \in 1..Len(out) : out[i] \in Given
  OBVIOUS
<1> QED  BY <1>1 DEF ItemOf, BeforeOf, Given

\* More records change nothing of it.
LEMMA GivenLonger ==
    ASSUME NEW out, NEW drops, NEW lv \in Seq(1..2), NEW ml, NEW b \in Nat, NEW d \in Nat,
           b <= d, d <= Len(lv), NEW x \in 1..2, IsGiven(out, drops, lv, ml, b, d)
    PROVE  IsGiven(out, drops, Append(lv, x), ml, b, d)
<1> DEFINE lw == Append(lv, x)
<1>1. ASSUME NEW u \in Nat, NEW v \in Int, v <= d PROVE Between(lw, ml, u, v) = Between(lv, ml, u, v)
  <2>1. \A k \in (u + 1)..v : k \in 1..Len(lv)
    BY <1>1
  <2>2. \A k \in 1..Len(lv) : lw[k] = lv[k]
    OBVIOUS
  <2> HIDE DEF lw
  <2> QED  BY <2>1, <2>2 DEF Between, AtLevel
<1> HIDE DEF lw
<1>2. Len(out) \in Nat /\ \A i \in 1..Len(out) : ItemOf(out, i) \in Nat /\ BeforeOf(out, i) \in Nat
  BY GivenTypes DEF IsGiven
<1>3. ASSUME NEW i \in 1..Len(out), i < Len(out)
      PROVE  Between(lw, ml, ItemOf(out, i), ItemOf(out, i + 1) - 1)
                = Between(lv, ml, ItemOf(out, i), ItemOf(out, i + 1) - 1)
  <2>1. i + 1 \in 1..Len(out)
    BY <1>2, <1>3
  <2>2. ItemOf(out, i) \in Nat /\ ItemOf(out, i + 1) \in Nat /\ ItemOf(out, i + 1) <= d
    BY <1>2, <2>1 DEF IsGiven
  <2>3. ItemOf(out, i + 1) - 1 \in Int /\ ItemOf(out, i + 1) - 1 <= d
    BY <2>2
  <2> QED  BY <1>1, <2>2, <2>3
<1>4. ASSUME Len(out) > 0
      PROVE  /\ Between(lw, ml, ItemOf(out, Len(out)), b) = Between(lv, ml, ItemOf(out, Len(out)), b)
             /\ Between(lw, ml, ItemOf(out, Len(out)), d) = Between(lv, ml, ItemOf(out, Len(out)), d)
  <2>1. Len(out) \in 1..Len(out)
    BY <1>2, <1>4
  <2>2. b \in Int /\ d \in Int /\ d <= d
    OBVIOUS
  <2> QED  BY <1>1, <1>2, <2>1, <2>2
<1>5. IsGiven(out, drops, lw, ml, b, d)
  BY <1>3, <1>4 DEF IsGiven
<1> QED  BY <1>5 DEF lw

\* The records up to one more.
LEMMA BetweenNext ==
    ASSUME NEW lv, NEW ml, NEW u \in Nat, NEW d \in Nat, u <= d
    PROVE  Between(lv, ml, u, d + 1)
              = IF lv[d + 1] >= ml THEN Between(lv, ml, u, d) \cup {d + 1} ELSE Between(lv, ml, u, d)
<1>1. (u + 1)..(d + 1) = ((u + 1)..d) \cup {d + 1}
  OBVIOUS
<1> QED  BY <1>1 DEF Between, AtLevel

\* Finitely many records lie between two.
LEMMA BetweenFinite ==
    ASSUME NEW lv, NEW ml, NEW u \in Int, NEW d \in Int
    PROVE  IsFiniteSet(Between(lv, ml, u, d))
<1>1. u + 1 \in Int /\ Between(lv, ml, u, d) \subseteq (u + 1)..d
  BY DEF Between, AtLevel
<1> QED  BY <1>1, FS_Interval, FS_Subset

\* None lies between a record and an earlier one.
LEMMA BetweenEmpty ==
    ASSUME NEW lv, NEW ml, NEW u \in Nat, NEW d \in Nat, d <= u
    PROVE  Between(lv, ml, u, d) = {} /\ Cardinality(Between(lv, ml, u, d)) = 0
<1>1. (u + 1)..d = {}
  OBVIOUS
<1>2. Between(lv, ml, u, d) = {}
  BY <1>1 DEF Between, AtLevel
<1> QED  BY <1>2, FS_EmptySet

\* A record is delivered ...
LEMMA GivenAppended ==
    ASSUME NEW out, NEW drops \in Nat, NEW lv, NEW ml, NEW b \in Nat, NEW d \in Nat,
           b <= d, IsGiven(out, drops, lv, ml, b, d)
    PROVE  IsGiven(Append(out, [item |-> d + 1, before |-> drops]), 0, lv, ml, b, d + 1)
<1> DEFINE n == Len(out)
           e == [item |-> d + 1, before |-> drops]
           r == Append(out, e)
<1>0. n \in Nat /\ \A i \in 1..n : ItemOf(out, i) \in Nat /\ BeforeOf(out, i) \in Nat
  BY GivenTypes DEF IsGiven
<1>1. e \in Given /\ e.item = d + 1 /\ e.before = drops
  BY DEF Given
<1> HIDE DEF e
<1>2. r \in Seq(Given) /\ Len(r) = n + 1 /\ r[n + 1] = e /\ \A i \in 1..n : r[i] = out[i]
  BY <1>1 DEF IsGiven
<1>3. /\ ItemOf(r, n + 1) = d + 1 /\ BeforeOf(r, n + 1) = drops
      /\ \A i \in 1..n : ItemOf(r, i) = ItemOf(out, i) /\ BeforeOf(r, i) = BeforeOf(out, i)
  BY <1>1, <1>2 DEF ItemOf, BeforeOf
<1>4. /\ \A i \in 1..n : ItemOf(out, i) >= 1 /\ ItemOf(out, i) <= d
      /\ \A i \in 1..n : i < n =>
          /\ ItemOf(out, i) < ItemOf(out, i + 1)
          /\ Cardinality(Between(lv, ml, ItemOf(out, i), ItemOf(out, i + 1) - 1)) = BeforeOf(out, i + 1)
      /\ n > 0 => Cardinality(Between(lv, ml, ItemOf(out, n), d)) = drops
  BY DEF IsGiven
<1> HIDE DEF n, r
<1>5. ASSUME NEW i \in 1..(n + 1) PROVE ItemOf(r, i) >= 1 /\ ItemOf(r, i) <= d + 1
  <2>1. CASE i = n + 1
    BY <1>3, <2>1
  <2>2. CASE i # n + 1
    <3>1. i \in 1..n
      BY <1>0, <2>2
    <3>2. ItemOf(out, i) \in Nat /\ ItemOf(out, i) >= 1 /\ ItemOf(out, i) <= d /\ ItemOf(r, i) = ItemOf(out, i)
      BY <1>0, <1>3, <1>4, <3>1
    <3>3. \A x \in Nat : x <= d => x <= d + 1
      OBVIOUS
    <3> QED  BY <3>2, <3>3
  <2> QED  BY <2>1, <2>2
<1>6. ASSUME NEW i \in 1..(n + 1), i < n + 1
      PROVE  /\ ItemOf(r, i) < ItemOf(r, i + 1)
             /\ Cardinality(Between(lv, ml, ItemOf(r, i), ItemOf(r, i + 1) - 1)) = BeforeOf(r, i + 1)
  <2>1. i \in 1..n
    BY <1>0, <1>6
  <2>2. CASE i = n
    <3>1. n > 0 /\ (d + 1) - 1 = d /\ i + 1 = n + 1
      BY <1>0, <2>1, <2>2
    <3>2. ItemOf(r, i + 1) = d + 1 /\ BeforeOf(r, i + 1) = drops /\ ItemOf(r, i) = ItemOf(out, n)
      BY <1>3, <2>1, <2>2, <3>1
    <3>3. ItemOf(out, n) < d + 1
      <4>1. ItemOf(out, n) \in Nat /\ ItemOf(out, n) <= d
        BY <1>0, <1>4, <2>1, <2>2
      <4> QED  BY <4>1
    <3> QED  BY <1>4, <3>1, <3>2, <3>3
  <2>3. CASE i # n
    <3>1. i < n /\ i + 1 \in 1..n
      BY <1>0, <2>1, <2>3
    <3> QED  BY <1>3, <1>4, <2>1, <3>1
  <2> QED  BY <2>2, <2>3
<1>7. /\ Between(lv, ml, ItemOf(r, n + 1), b) = {}
      /\ Cardinality(Between(lv, ml, ItemOf(r, n + 1), d + 1)) = 0
  <2>1. b <= d + 1 /\ d + 1 <= d + 1
    OBVIOUS
  <2> QED  BY <1>3, <2>1, BetweenEmpty
<1>8. IsGiven(r, 0, lv, ml, b, d + 1)
  BY <1>2, <1>5, <1>6, <1>7 DEF IsGiven
<1> QED  BY <1>8 DEF r, e

\* ... or dropped, or not wanted.
LEMMA GivenPassed ==
    ASSUME NEW out, NEW drops \in Nat, NEW lv, NEW ml, NEW b \in Nat, NEW d \in Nat,
           b <= d, IsGiven(out, drops, lv, ml, b, d)
    PROVE  IsGiven(out, IF lv[d + 1] >= ml THEN drops + 1 ELSE drops, lv, ml, b, d + 1)
<1> DEFINE n == Len(out)
           more == IF lv[d + 1] >= ml THEN drops + 1 ELSE drops
<1>0. n \in Nat /\ \A i \in 1..n : ItemOf(out, i) \in Nat /\ BeforeOf(out, i) \in Nat
  BY GivenTypes DEF IsGiven
<1>1. ASSUME NEW i \in 1..n PROVE ItemOf(out, i) >= 1 /\ ItemOf(out, i) <= d /\ ItemOf(out, i) <= d + 1
  <2>1. ItemOf(out, i) \in Nat /\ ItemOf(out, i) >= 1 /\ ItemOf(out, i) <= d
    BY <1>0 DEF IsGiven
  <2> QED  BY <2>1
<1>2. ASSUME n > 0 PROVE Cardinality(Between(lv, ml, ItemOf(out, n), d + 1)) = more
  <2>1. n \in 1..n
    BY <1>0, <1>2
  <2> DEFINE u == ItemOf(out, n)
             X == Between(lv, ml, u, d)
  <2>2. u \in Nat /\ u <= d
    BY <1>0, <1>1, <2>1
  <2>3. Cardinality(X) = drops
    BY <1>2 DEF IsGiven
  <2> HIDE DEF u
  <2>4. IsFiniteSet(X)
    BY <2>2, BetweenFinite
  <2>5. d + 1 \notin X
    BY DEF Between, AtLevel
  <2>6. Between(lv, ml, u, d + 1) = IF lv[d + 1] >= ml THEN X \cup {d + 1} ELSE X
    BY <2>2, BetweenNext
  <2> HIDE DEF X
  <2>7. Cardinality(X \cup {d + 1}) = drops + 1
    BY <2>3, <2>4, <2>5, FS_AddElement
  <2> QED  BY <2>3, <2>6, <2>7 DEF u
<1> HIDE DEF more
<1>3. IsGiven(out, more, lv, ml, b, d + 1)
  BY <1>1, <1>2 DEF IsGiven
<1> QED  BY <1>3 DEF more

\* The replay gives a new subscriber all it can be given.
LEMMA GivenReplay ==
    ASSUME NEW l, level \in Seq(1..2), NEW out,
           out = [i \in 1..Len(Backlog(l)) |-> Entry(Backlog(l)[i], 0)]
    PROVE  IsGiven(out, 0, level, l, Seq_, Seq_)
<1> DEFINE q == Backlog(l)
           n == Len(q)
<1>0. Seq_ \in Nat /\ GoodReplay(q, l, Seq_)
  BY BacklogGood DEF Seq_
<1> HIDE DEF q
<1>1. q \in Seq(Nat) /\ n \in Nat /\ \A i \in 1..n : q[i] \in Nat
  BY <1>0 DEF GoodReplay
<1>2. /\ \A i \in 1..n : q[i] >= 1 /\ q[i] <= Seq_ /\ Replayed(q[i], l)
      /\ \A i, j \in 1..n : i < j => q[i] < q[j]
      /\ \A k \in 1..Seq_ : Replayed(k, l) => \E i \in 1..n : q[i] = k
  BY <1>0 DEF GoodReplay
<1> HIDE DEF n
<1>3. out \in Seq(Given) /\ Len(out) = n
  <2>1. out = [i \in 1..n |-> Entry(q[i], 0)]
    BY DEF n, q
  <2>2. \A i \in 1..n : Entry(q[i], 0) \in Given
    BY <1>1 DEF Entry, Given
  <2> QED  BY <1>1, <2>1, <2>2, IsASeq
<1>4. \A i \in 1..n : ItemOf(out, i) = q[i] /\ BeforeOf(out, i) = 0
  BY DEF ItemOf, BeforeOf, Entry, n, q
\* Nothing wanted lies behind a replayed record except what is replayed.
<1>5. ASSUME NEW i \in 1..n, NEW k \in Nat, q[i] < k, k <= Seq_, level[k] >= l
      PROVE  \E j \in 1..n : q[j] = k
  <2>1. k \in 1..Seq_
    BY <1>0, <1>1, <1>5
  <2>2. Replayed(k, l)
    <3>1. q[i] + BufferSize > Seq_ /\ q[i] \in Nat
      BY <1>1, <1>2 DEF Replayed
    <3>2. k + BufferSize > Seq_
      BY <1>0, <1>5, <3>1, LogBusAssumption
    <3> QED  BY <1>5, <3>2 DEF Replayed
  <2> QED  BY <1>2, <2>1, <2>2
<1>6. ASSUME NEW i \in 1..n, i < n
      PROVE  q[i] < q[i + 1] /\ Between(level, l, q[i], q[i + 1] - 1) = {}
  <2>1. i + 1 \in 1..n /\ i < i + 1
    BY <1>1, <1>6
  <2>2. q[i] < q[i + 1]
    BY <1>2, <2>1
  <2>3. ASSUME NEW k \in Between(level, l, q[i], q[i + 1] - 1) PROVE FALSE
    <3>0. q[i] \in Nat /\ q[i + 1] \in Nat /\ q[i + 1] <= Seq_
      BY <1>1, <1>2, <2>1
    <3>1. k \in (q[i] + 1)..(q[i + 1] - 1) /\ level[k] >= l
      BY DEF Between, AtLevel
    <3>2. k \in Nat /\ q[i] < k /\ k < q[i + 1] /\ k <= Seq_
      <4>1. \A x, y \in Nat : \A z \in (x + 1)..(y - 1) : y <= Seq_ => z \in Nat /\ x < z /\ z < y /\ z <= Seq_
        BY <1>0
      <4> QED  BY <3>0, <3>1, <4>1
    <3>3. PICK j \in 1..n : q[j] = k
      BY <1>5, <3>1, <3>2
    <3>4. j <= i \/ j >= i + 1
      BY <1>1
    <3>5. CASE j <= i
      <4>1. q[j] <= q[i]
        <5>1. CASE j = i
          BY <3>0, <5>1
        <5>2. CASE j # i
          <6>1. j < i
            BY <3>5, <5>2
          <6>2. q[j] < q[i] /\ q[j] \in Nat
            BY <1>1, <1>2, <6>1
          <6> QED  BY <3>0, <6>2
        <5> QED  BY <5>1, <5>2
      <4> QED  BY <3>0, <3>2, <3>3, <4>1
    <3>6. CASE j >= i + 1
      <4>1. q[j] >= q[i + 1]
        <5>1. CASE j = i + 1
          BY <3>0, <5>1
        <5>2. CASE j # i + 1
          <6>1. i + 1 < j
            BY <3>6, <5>2
          <6>2. q[i + 1] < q[j] /\ q[j] \in Nat
            BY <1>1, <1>2, <2>1, <6>1
          <6> QED  BY <3>0, <6>2
        <5> QED  BY <5>1, <5>2
      <4> QED  BY <3>0, <3>2, <3>3, <4>1
    <3> QED  BY <3>4, <3>5, <3>6
  <2> QED  BY <2>2, <2>3
<1>7. ASSUME n > 0 PROVE Between(level, l, q[n], Seq_) = {}
  <2>0. n \in 1..n
    BY <1>1, <1>7
  <2>1. ASSUME NEW k \in Between(level, l, q[n], Seq_) PROVE FALSE
    <3>1. k \in (q[n] + 1)..Seq_ /\ level[k] >= l /\ q[n] \in Nat
      BY <1>1, <2>0 DEF Between, AtLevel
    <3>2. k \in Nat /\ q[n] < k /\ k <= Seq_
      <4>1. \A x \in Nat : \A z \in (x + 1)..Seq_ : z \in Nat /\ x < z /\ z <= Seq_
        BY <1>0
      <4> QED  BY <3>1, <4>1
    <3>3. PICK j \in 1..n : q[j] = k
      BY <1>5, <2>0, <3>1, <3>2
    <3>4. j = n \/ j < n
      BY <1>1
    <3>5. CASE j = n
      BY <3>1, <3>2, <3>3, <3>5
    <3>6. CASE j < n
      <4>1. q[j] < q[n]
        BY <1>2, <2>0, <3>6
      <4> QED  BY <3>1, <3>2, <3>3, <4>1
    <3> QED  BY <3>4, <3>5, <3>6
  <2> QED  BY <2>1
<1>8. ASSUME NEW i \in 1..n, i < n
      PROVE  /\ ItemOf(out, i) < ItemOf(out, i + 1)
             /\ Cardinality(Between(level, l, ItemOf(out, i), ItemOf(out, i + 1) - 1)) = BeforeOf(out, i + 1)
  <2>1. i + 1 \in 1..n
    BY <1>1, <1>8
  <2>2. ItemOf(out, i) = q[i] /\ ItemOf(out, i + 1) = q[i + 1] /\ BeforeOf(out, i + 1) = 0
    BY <1>4, <2>1
  <2> QED  BY <1>6, <1>8, <2>2, FS_EmptySet
<1>9. ASSUME n > 0
      PROVE  /\ Between(level, l, ItemOf(out, n), Seq_) = {}
             /\ Cardinality(Between(level, l, ItemOf(out, n), Seq_)) = 0
  <2>1. ItemOf(out, n) = q[n]
    <3>1. n \in 1..n
      BY <1>1, <1>9
    <3> QED  BY <1>4, <3>1
  <2> QED  BY <1>7, <1>9, <2>1, FS_EmptySet
<1> QED  BY <1>2, <1>3, <1>4, <1>8, <1>9 DEF IsGiven

-----------------------------------------------------------------------------
(* The callbacks on their way, again as plain values: h the callbacks, busy  *)
(* whether a thread is inside emit with the record n, snap the subscribers   *)
(* it saw.                                                                   *)

SubsOf(h, i) == h[i].subs

\* In order, and behind the record that is being emitted.
InOrder(h, busy, n) ==
    /\ \A i \in 1..Len(h) : ItemOf(h, i) >= 1 /\ ItemOf(h, i) <= n /\ (busy => ItemOf(h, i) < n)
    /\ \A i, j \in 1..Len(h) : i < j => ItemOf(h, i) < ItemOf(h, j)

\* s joined after record b and was given its chance at the records up to d:
\* what is still on its way for it is all that came after d.
Joined(h, busy, snap, n, s, b, d) ==
    /\ b <= d /\ d <= n
    /\ \A i \in 1..Len(h) : s \in SubsOf(h, i) <=> ItemOf(h, i) > b
    /\ \A i \in 1..Len(h) : ItemOf(h, i) > b => ItemOf(h, i) > d
    /\ \A k \in Nat : k > d /\ k <= n =>
          (busy /\ k = n) \/ \E i \in 1..Len(h) : ItemOf(h, i) = k
    /\ busy => (s \in snap <=> n > b)
    /\ busy /\ n > b => n > d

Callback == [item : Nat, subs : SUBSET Tails]

\* What is scheduled on the loop: places and subscribers.
LEMMA CallbackTypes ==
    ASSUME NEW h \in Seq(Callback)
    PROVE  Len(h) \in Nat /\ \A i \in 1..Len(h) : ItemOf(h, i) \in Nat /\ SubsOf(h, i) \subseteq Tails
<1>1. \A i \in 1..Len(h) : h[i] \in Callback
  OBVIOUS
<1> QED  BY <1>1 DEF ItemOf, SubsOf, Callback

\* emit numbers a record.
LEMMA JoinedEmit ==
    ASSUME NEW h \in Seq(Callback), NEW n \in Nat, NEW s, NEW b \in Nat, NEW d \in Nat,
           NEW old, NEW snap, s \in snap, Joined(h, FALSE, old, n, s, b, d)
    PROVE  Joined(h, TRUE, snap, n + 1, s, b, d)
<1>1. \A k \in Nat : k <= n + 1 => k <= n \/ k = n + 1
  OBVIOUS
<1>2. b <= d /\ d <= n
  BY DEF Joined
<1>3. d <= n + 1 /\ n + 1 > b /\ n + 1 > d
  BY <1>2
<1> QED  BY <1>1, <1>2, <1>3 DEF Joined

\* The hand-over adds the record if anybody was there to see it.
LEMMA JoinedHandOff ==
    ASSUME NEW h \in Seq(Callback), NEW n \in Nat, NEW s, NEW b \in Nat, NEW d \in Nat,
           NEW snap \in SUBSET Tails, Joined(h, TRUE, snap, n, s, b, d), NEW other,
           NEW g, g = IF snap = {} THEN h ELSE Append(h, [item |-> n, subs |-> snap])
    PROVE  Joined(g, FALSE, other, n, s, b, d)
<1>0. b <= d /\ d <= n /\ (s \in snap <=> n > b) /\ (n > b => n > d)
  BY DEF Joined
<1>1. CASE snap = {}
  <2>1. g = h /\ ~(n > b)
    BY <1>0, <1>1
  <2>2. \A k \in Nat : ~(k > d /\ k <= n)
    BY <1>0, <2>1
  <2> QED  BY <1>0, <2>1, <2>2 DEF Joined
<1>2. CASE snap # {}
  <2> DEFINE m == Len(h)
             e == [item |-> n, subs |-> snap]
  <2>1. g = Append(h, e) /\ e \in Callback /\ e.item = n /\ e.subs = snap
    BY <1>2 DEF Callback
  <2> HIDE DEF e
  <2>2. m \in Nat /\ Len(g) = m + 1 /\ g[m + 1] = e /\ \A i \in 1..m : g[i] = h[i]
    BY <2>1
  <2>3. /\ ItemOf(g, m + 1) = n /\ SubsOf(g, m + 1) = snap
        /\ \A i \in 1..m : ItemOf(g, i) = ItemOf(h, i) /\ SubsOf(g, i) = SubsOf(h, i)
    BY <2>1, <2>2 DEF ItemOf, SubsOf
  <2>4. \A i \in 1..(m + 1) : i \in 1..m \/ i = m + 1
    BY <2>2
  <2>5. /\ \A i \in 1..m : s \in SubsOf(h, i) <=> ItemOf(h, i) > b
        /\ \A i \in 1..m : ItemOf(h, i) > b => ItemOf(h, i) > d
        /\ \A k \in Nat : k > d /\ k <= n => k = n \/ \E i \in 1..m : ItemOf(h, i) = k
    BY DEF Joined
  <2> HIDE DEF m
  <2>6. \A i \in 1..(m + 1) : s \in SubsOf(g, i) <=> ItemOf(g, i) > b
    BY <1>0, <2>3, <2>4, <2>5
  <2>7. \A i \in 1..(m + 1) : ItemOf(g, i) > b => ItemOf(g, i) > d
    BY <1>0, <2>3, <2>4, <2>5
  <2>8. ASSUME NEW k \in Nat, k > d, k <= n PROVE \E i \in 1..(m + 1) : ItemOf(g, i) = k
    <3>1. m + 1 \in 1..(m + 1) /\ \A i \in 1..m : i \in 1..(m + 1)
      BY <2>2
    <3>2. CASE k = n
      BY <2>3, <3>1, <3>2
    <3>3. CASE k # n
      <4>1. PICK i \in 1..m : ItemOf(h, i) = k
        BY <2>5, <2>8, <3>3
      <4> QED  BY <2>3, <3>1, <4>1
    <3> QED  BY <3>2, <3>3
  <2> QED  BY <1>0, <2>2, <2>6, <2>7, <2>8 DEF Joined
<1> QED  BY <1>1, <1>2

\* The first callback runs: it is the next record for s, or one from before s.
LEMMA JoinedDeliver ==
    ASSUME NEW h \in Seq(Callback), h # <<>>, NEW busy \in BOOLEAN, NEW snap, NEW n \in Nat, NEW s,
           NEW b \in Nat, NEW d \in Nat, Joined(h, busy, snap, n, s, b, d), InOrder(h, busy, n)
    PROVE  /\ s \in SubsOf(h, 1) => ItemOf(h, 1) = d + 1 /\ Joined(Tail(h), busy, snap, n, s, b, d + 1)
           /\ s \notin SubsOf(h, 1) => Joined(Tail(h), busy, snap, n, s, b, d)
<1> DEFINE m == Len(h)
           g == Tail(h)
<1>0. m \in Nat /\ m >= 1 /\ 1 \in 1..m /\ \A i \in 1..m : ItemOf(h, i) \in Nat
  BY CallbackTypes
<1>1. Len(g) = m - 1 /\ \A i \in 1..(m - 1) : ItemOf(g, i) = ItemOf(h, i + 1) /\ SubsOf(g, i) = SubsOf(h, i + 1)
  BY DEF ItemOf, SubsOf
<1>2. /\ b <= d /\ d <= n
      /\ \A i \in 1..m : s \in SubsOf(h, i) <=> ItemOf(h, i) > b
      /\ \A i \in 1..m : ItemOf(h, i) > b => ItemOf(h, i) > d
      /\ \A k \in Nat : k > d /\ k <= n => (busy /\ k = n) \/ \E i \in 1..m : ItemOf(h, i) = k
      /\ busy => (s \in snap <=> n > b)
      /\ busy /\ n > b => n > d
  BY DEF Joined
<1>3. /\ \A i \in 1..m : ItemOf(h, i) <= n /\ (busy => ItemOf(h, i) < n)
      /\ \A i, j \in 1..m : i < j => ItemOf(h, i) < ItemOf(h, j)
  BY DEF InOrder
<1> HIDE DEF m, g
<1>4. \A i \in 1..(m - 1) : i + 1 \in 1..m /\ 1 < i + 1
  BY <1>0
<1>5. \A i \in 1..m : i # 1 => i - 1 \in 1..(m - 1) /\ (i - 1) + 1 = i
  BY <1>0
\* The callbacks that are left, for any d that the first one does not touch.
<1>6. ASSUME NEW c \in Nat, b <= c, c <= n,
             \A i \in 1..m : i > 1 /\ ItemOf(h, i) > b => ItemOf(h, i) > c,
             c >= d, ItemOf(h, 1) <= c, busy /\ n > b => n > c
      PROVE  Joined(g, busy, snap, n, s, b, c)
  <2>1. \A i \in 1..(m - 1) : s \in SubsOf(g, i) <=> ItemOf(g, i) > b
    BY <1>1, <1>2, <1>4
  <2>2. \A i \in 1..(m - 1) : ItemOf(g, i) > b => ItemOf(g, i) > c
    BY <1>1, <1>4, <1>6
  <2>3. ASSUME NEW k \in Nat, k > c, k <= n, ~(busy /\ k = n)
        PROVE  \E i \in 1..(m - 1) : ItemOf(g, i) = k
    <3>1. k > d
      BY <1>6, <2>3
    <3>2. PICK i \in 1..m : ItemOf(h, i) = k
      BY <1>2, <2>3, <3>1
    <3>3. i # 1
      <4>1. ~(k <= c)
        BY <2>3
      <4> QED  BY <1>6, <3>2, <4>1
    <3>4. i - 1 \in 1..(m - 1) /\ ItemOf(g, i - 1) = k
      BY <1>1, <1>5, <3>2, <3>3
    <3> QED  BY <3>4
  <2> QED  BY <1>1, <1>2, <1>6, <2>1, <2>2, <2>3 DEF Joined
<1>7. ASSUME s \in SubsOf(h, 1)
      PROVE  ItemOf(h, 1) = d + 1 /\ Joined(g, busy, snap, n, s, b, d + 1)
  <2>1. ItemOf(h, 1) \in Nat /\ ItemOf(h, 1) > d /\ ItemOf(h, 1) <= n /\ (busy => ItemOf(h, 1) < n)
    BY <1>0, <1>2, <1>3, <1>7
  <2>2. d + 1 \in Nat /\ d + 1 > d /\ d + 1 <= n /\ (busy => d + 1 # n /\ n > d + 1)
    BY <2>1
  <2>3. PICK i \in 1..m : ItemOf(h, i) = d + 1
    BY <1>2, <2>2
  <2>4. ItemOf(h, 1) <= d + 1
    <3>1. CASE i = 1
      BY <2>1, <2>3, <3>1
    <3>2. CASE i # 1
      <4>1. 1 < i
        BY <1>0, <3>2
      <4>2. ItemOf(h, 1) < d + 1
        BY <1>0, <1>3, <2>3, <4>1
      <4> QED  BY <2>1, <4>2
    <3> QED  BY <3>1, <3>2
  <2>5. ItemOf(h, 1) = d + 1
    BY <2>1, <2>4
  <2>6. \A j \in 1..m : j > 1 /\ ItemOf(h, j) > b => ItemOf(h, j) > d + 1
    BY <1>0, <1>3, <2>5
  <2>7. b <= d + 1 /\ d + 1 >= d /\ ItemOf(h, 1) <= d + 1
    BY <1>2, <2>5
  <2> QED  BY <1>6, <2>2, <2>5, <2>6, <2>7
<1>8. ASSUME s \notin SubsOf(h, 1) PROVE Joined(g, busy, snap, n, s, b, d)
  <2>1. ItemOf(h, 1) \in Nat /\ ~(ItemOf(h, 1) > b)
    BY <1>0, <1>2, <1>8
  <2>2. ItemOf(h, 1) <= d /\ d >= d
    BY <1>2, <2>1
  <2> QED  BY <1>2, <1>6, <2>2
<1> QED  BY <1>7, <1>8 DEF g

\* emit: the numbered record comes after all that were handed over.
LEMMA InOrderEmit ==
    ASSUME NEW h \in Seq(Callback), NEW n \in Nat, InOrder(h, FALSE, n)
    PROVE  InOrder(h, TRUE, n + 1)
<1>1. \A i \in 1..Len(h) : ItemOf(h, i) \in Nat
  BY CallbackTypes
<1>2. \A x \in Nat : x <= n => x <= n + 1 /\ x < n + 1
  OBVIOUS
<1> QED  BY <1>1, <1>2 DEF InOrder

\* The handed-over record is the last on the loop.
LEMMA InOrderHandOff ==
    ASSUME NEW h \in Seq(Callback), NEW n \in Nat, n >= 1, InOrder(h, TRUE, n),
           NEW snap \in SUBSET Tails,
           NEW g, g = IF snap = {} THEN h ELSE Append(h, [item |-> n, subs |-> snap])
    PROVE  InOrder(g, FALSE, n) /\ g \in Seq(Callback)
<1>1. CASE snap = {}
  BY <1>1 DEF InOrder
<1>2. CASE snap # {}
  <2> DEFINE m == Len(h)
             e == [item |-> n, subs |-> snap]
  <2>1. g = Append(h, e) /\ e \in Callback /\ e.item = n
    BY <1>2 DEF Callback
  <2> HIDE DEF e
  <2>2. m \in Nat /\ Len(g) = m + 1 /\ g[m + 1] = e /\ (\A i \in 1..m : g[i] = h[i]) /\ g \in Seq(Callback)
    BY <2>1
  <2>3. ItemOf(g, m + 1) = n /\ \A i \in 1..m : ItemOf(g, i) = ItemOf(h, i)
    BY <2>1, <2>2 DEF ItemOf
  <2>4. /\ \A i \in 1..m : ItemOf(h, i) >= 1 /\ ItemOf(h, i) <= n /\ ItemOf(h, i) < n
        /\ \A i, j \in 1..m : i < j => ItemOf(h, i) < ItemOf(h, j)
    BY DEF InOrder
  <2> HIDE DEF m
  <2>5. \A i \in 1..(m + 1) : i \in 1..m \/ i = m + 1
    BY <2>2
  <2>6. \A i \in 1..(m + 1) : ItemOf(g, i) >= 1 /\ ItemOf(g, i) <= n
    BY <2>3, <2>4, <2>5
  <2>7. ASSUME NEW i \in 1..(m + 1), NEW j \in 1..(m + 1), i < j PROVE ItemOf(g, i) < ItemOf(g, j)
    <3>1. i \in 1..m
      BY <2>2, <2>7
    <3> QED  BY <2>3, <2>4, <2>5, <2>7, <3>1
  <2> QED  BY <2>2, <2>6, <2>7 DEF InOrder
<1> QED  BY <1>1, <1>2

\* The loop takes the first.
LEMMA InOrderDeliver ==
    ASSUME NEW h \in Seq(Callback), h # <<>>, NEW busy, NEW n \in Nat, InOrder(h, busy, n)
    PROVE  InOrder(Tail(h), busy, n) /\ Tail(h) \in Seq(Callback)
<1> DEFINE m == Len(h)
           g == Tail(h)
<1>1. /\ m \in Nat /\ m >= 1 /\ g \in Seq(Callback) /\ Len(g) = m - 1
      /\ \A i \in 1..(m - 1) : ItemOf(g, i) = ItemOf(h, i + 1)
  BY DEF ItemOf
<1>2. \A i \in 1..(m - 1) : i + 1 \in 1..m
  BY <1>1
<1>3. \A i, j \in 1..(m - 1) : i < j => i + 1 < j + 1
  BY <1>1
<1> HIDE DEF g
<1>4. InOrder(g, busy, n)
  BY <1>1, <1>2, <1>3 DEF InOrder
<1> QED  BY <1>1, <1>4 DEF g

-----------------------------------------------------------------------------
(* The invariant of the log bus. *)

Busy == emitting # NoThread

LogType ==
    /\ level \in Seq(1..2)
    /\ emitting \in Loggers \cup {NoThread}
    /\ addressed \in SUBSET Tails
    /\ handoff \in Seq(Callback)
    /\ tail \in [Tails -> {"new", "on", "off"}]
    /\ minLevel \in [Tails -> 1..2]
    /\ sent \in [Tails -> Seq(Given)]
    /\ dropped \in [Tails -> Nat]

NotYet(s) ==
    /\ s \notin addressed /\ dropped[s] = 0
    /\ \A i \in 1..Len(handoff) : s \notin SubsOf(handoff, i)

Served(s) ==
    \E b \in Nat : \E d \in Nat :
        /\ Joined(handoff, Busy, addressed, Seq_, s, b, d)
        /\ IsGiven(sent[s], dropped[s], level, minLevel[s], b, d)

LogInv ==
    /\ LogType
    /\ InOrder(handoff, Busy, Seq_)
    /\ Busy => Seq_ >= 1
    /\ \A s \in Tails : tail[s] = "new" => NotYet(s)
    /\ \A s \in Tails : tail[s] = "on" => Served(s)

\* No record and no tail at first.
LEMMA LogInitInv == LogBusInit => LogInv
<1> SUFFICES ASSUME LogBusInit PROVE LogInv
  OBVIOUS
<1>1. LogType
  BY DEF LogBusInit, LogType
<1>2. handoff = <<>> /\ ~Busy /\ addressed = {}
  BY DEF LogBusInit, Busy
<1>3. InOrder(handoff, Busy, Seq_)
  BY <1>2 DEF InOrder
<1>4. ASSUME NEW s \in Tails PROVE tail[s] = "new" /\ NotYet(s)
  BY <1>2 DEF LogBusInit, NotYet
<1> QED  BY <1>1, <1>2, <1>3, <1>4 DEF LogInv

\* emit, under the handler's lock: one more record, one more to come for every tail.
LEMMA EmitLogInv ==
    ASSUME LogInv, NEW t \in Loggers, NEW l \in 1..2, Emit(t, l)
    PROVE  LogInv'
<1>0. LogType /\ Seq_ \in Nat /\ level \in Seq(1..2) /\ handoff \in Seq(Callback)
  BY DEF LogInv, LogType, Seq_
<1>1. /\ level' = Append(level, l) /\ emitting = NoThread /\ emitting' = t /\ addressed' = Subscribed
      /\ handoff' = handoff /\ tail' = tail /\ minLevel' = minLevel /\ sent' = sent /\ dropped' = dropped
  BY DEF Emit
<1>2. LogType'
  BY <1>0, <1>1 DEF LogType, Subscribed
<1>3. Seq_' = Seq_ + 1 /\ Busy = FALSE /\ Busy' = TRUE
  BY <1>0, <1>1, LogBusAssumption DEF Seq_, Busy
<1>4. InOrder(handoff, Busy, Seq_)'
  BY <1>0, <1>1, <1>3, InOrderEmit DEF LogInv
<1>5. ASSUME NEW s \in Tails, tail'[s] = "new" PROVE NotYet(s)'
  BY <1>1, <1>5 DEF LogInv, NotYet, Subscribed
<1>6. ASSUME NEW s \in Tails, tail'[s] = "on" PROVE Served(s)'
  <2>1. PICK b \in Nat : \E d \in Nat :
            /\ Joined(handoff, Busy, addressed, Seq_, s, b, d)
            /\ IsGiven(sent[s], dropped[s], level, minLevel[s], b, d)
    BY <1>1, <1>6 DEF LogInv, Served
  <2>2. PICK d \in Nat :
            /\ Joined(handoff, Busy, addressed, Seq_, s, b, d)
            /\ IsGiven(sent[s], dropped[s], level, minLevel[s], b, d)
    BY <2>1
  <2>3. s \in addressed'
    BY <1>1, <1>6 DEF Subscribed
  <2>4. Joined(handoff, TRUE, addressed', Seq_ + 1, s, b, d)
    BY <1>0, <1>3, <2>2, <2>3, JoinedEmit
  <2>5. IsGiven(sent[s], dropped[s], Append(level, l), minLevel[s], b, d)
    <3>1. b <= d /\ d <= Len(level)
      BY <2>2 DEF Joined, Seq_
    <3> QED  BY <1>0, <2>2, <3>1, GivenLonger
  <2> QED  BY <1>1, <1>3, <2>4, <2>5 DEF Served
<1>7. (Busy => Seq_ >= 1)'
  BY <1>0, <1>3
<1> QED  BY <1>2, <1>4, <1>5, <1>6, <1>7 DEF LogInv

\* call_soon_threadsafe: what emit saw goes on the loop.
LEMMA HandOffLogInv ==
    ASSUME LogInv, NEW t \in Loggers, HandOff(t)
    PROVE  LogInv'
<1>0. LogType /\ Seq_ \in Nat /\ handoff \in Seq(Callback) /\ addressed \in SUBSET Tails
  BY DEF LogInv, LogType, Seq_
<1>1. /\ emitting = t /\ emitting' = NoThread
      /\ handoff' = (IF addressed = {} THEN handoff ELSE Append(handoff, [item |-> Seq_, subs |-> addressed]))
      /\ addressed' = {} /\ level' = level /\ tail' = tail /\ minLevel' = minLevel /\ sent' = sent
      /\ dropped' = dropped
  BY DEF HandOff
<1>2. Busy = TRUE /\ Busy' = FALSE /\ Seq_' = Seq_
  BY <1>1, LogBusAssumption DEF Busy, Seq_
<1>3. InOrder(handoff', FALSE, Seq_) /\ handoff' \in Seq(Callback)
  <2>1. Seq_ >= 1 /\ InOrder(handoff, TRUE, Seq_)
    BY <1>2 DEF LogInv
  <2> QED  BY <1>0, <1>1, <2>1, InOrderHandOff
<1>4. LogType'
  BY <1>0, <1>1, <1>3 DEF LogType
<1>5. ASSUME NEW s \in Tails, tail'[s] = "new" PROVE NotYet(s)'
  <2>1. NotYet(s)
    BY <1>1, <1>5 DEF LogInv
  <2>2. \A i \in 1..Len(handoff') : s \notin SubsOf(handoff', i)
    <3>1. CASE addressed = {}
      BY <1>1, <2>1, <3>1 DEF NotYet
    <3>2. CASE addressed # {}
      <4> DEFINE e == [item |-> Seq_, subs |-> addressed]
      <4>1. handoff' = Append(handoff, e) /\ e.subs = addressed
        BY <1>1, <3>2
      <4> HIDE DEF e
      <4>2. \A i \in 1..Len(handoff') :
               handoff'[i] = e \/ (i \in 1..Len(handoff) /\ handoff'[i] = handoff[i])
        BY <1>0, <4>1
      <4> QED  BY <2>1, <4>1, <4>2 DEF NotYet, SubsOf
    <3> QED  BY <3>1, <3>2
  <2> QED  BY <1>1, <2>1, <2>2 DEF NotYet
<1>6. ASSUME NEW s \in Tails, tail'[s] = "on" PROVE Served(s)'
  <2>1. PICK b \in Nat : \E d \in Nat :
            /\ Joined(handoff, Busy, addressed, Seq_, s, b, d)
            /\ IsGiven(sent[s], dropped[s], level, minLevel[s], b, d)
    BY <1>1, <1>6 DEF LogInv, Served
  <2>2. PICK d \in Nat :
            /\ Joined(handoff, Busy, addressed, Seq_, s, b, d)
            /\ IsGiven(sent[s], dropped[s], level, minLevel[s], b, d)
    BY <2>1
  <2>3. Joined(handoff', FALSE, addressed', Seq_, s, b, d)
    BY <1>0, <1>1, <1>2, <2>2, JoinedHandOff
  <2> QED  BY <1>1, <1>2, <2>2, <2>3 DEF Served
<1> QED  BY <1>2, <1>3, <1>4, <1>5, <1>6 DEF LogInv

\* _dispatch: a tail takes the record, drops it, or does not want it.
LEMMA DeliverLogInv ==
    ASSUME LogInv, Deliver
    PROVE  LogInv'
<1> DEFINE k == Head(handoff).item
           to == {s \in Head(handoff).subs : level[k] >= minLevel[s]}
           room == {s \in to : unread[s] < TailQueue}
<1>0. LogType /\ Seq_ \in Nat /\ handoff \in Seq(Callback) /\ handoff # <<>>
      /\ sent \in [Tails -> Seq(Given)] /\ dropped \in [Tails -> Nat] /\ minLevel \in [Tails -> 1..2]
  BY DEF LogInv, LogType, Seq_, Deliver
<1>1. /\ handoff' = Tail(handoff) /\ level' = level /\ emitting' = emitting /\ addressed' = addressed
      /\ tail' = tail /\ minLevel' = minLevel
      /\ sent' = [s \in Tails |-> IF s \in room THEN Append(sent[s], Marked(s, k)) ELSE sent[s]]
      /\ dropped' = [s \in Tails |-> IF s \in room THEN 0
                                     ELSE IF s \in to THEN dropped[s] + 1 ELSE dropped[s]]
  BY DEF Deliver
<1>2. k = ItemOf(handoff, 1) /\ Head(handoff).subs = SubsOf(handoff, 1) /\ k \in Nat
  <2>1. Head(handoff) = handoff[1] /\ 1 \in 1..Len(handoff)
    BY <1>0
  <2>2. ItemOf(handoff, 1) \in Nat
    BY <1>0, <2>1, CallbackTypes
  <2> QED  BY <2>1, <2>2 DEF ItemOf, SubsOf
<1>3. room \subseteq to /\ to = {s \in SubsOf(handoff, 1) : level[k] >= minLevel[s]}
  BY <1>2
<1> HIDE DEF k, to, room
<1>4. InOrder(handoff', Busy, Seq_) /\ handoff' \in Seq(Callback) /\ Busy' = Busy /\ Seq_' = Seq_
  BY <1>0, <1>1, InOrderDeliver DEF LogInv, Busy, Seq_
<1>5. LogType'
  <2>1. \A s \in Tails : Marked(s, k) \in Given
    BY <1>0, <1>2 DEF Marked, Entry, Given
  <2>2. \A s \in Tails : Append(sent[s], Marked(s, k)) \in Seq(Given)
    BY <1>0, <2>1
  <2>3. sent' \in [Tails -> Seq(Given)]
    BY <1>0, <1>1, <2>2
  <2>4. dropped' \in [Tails -> Nat]
    BY <1>0, <1>1
  <2> QED  BY <1>0, <1>1, <1>4, <2>3, <2>4 DEF LogType
<1>6. ASSUME NEW s \in Tails, tail'[s] = "new" PROVE NotYet(s)'
  <2>1. NotYet(s)
    BY <1>1, <1>6 DEF LogInv
  <2>2. 1 \in 1..Len(handoff)
    BY <1>0
  <2>3. s \notin to
    BY <1>3, <2>1, <2>2 DEF NotYet
  <2>4. dropped'[s] = 0
    BY <1>1, <1>3, <2>1, <2>3 DEF NotYet
  <2>5. \A i \in 1..Len(handoff') : i + 1 \in 1..Len(handoff) /\ handoff'[i] = handoff[i + 1]
    BY <1>0, <1>1
  <2> QED  BY <1>1, <2>1, <2>4, <2>5 DEF NotYet, SubsOf
<1>7. ASSUME NEW s \in Tails, tail'[s] = "on" PROVE Served(s)'
  <2>1. PICK b \in Nat : \E d \in Nat :
            /\ Joined(handoff, Busy, addressed, Seq_, s, b, d)
            /\ IsGiven(sent[s], dropped[s], level, minLevel[s], b, d)
    BY <1>1, <1>7 DEF LogInv, Served
  <2>2. PICK d \in Nat :
            /\ Joined(handoff, Busy, addressed, Seq_, s, b, d)
            /\ IsGiven(sent[s], dropped[s], level, minLevel[s], b, d)
    BY <2>1
  <2>3. b <= d /\ dropped[s] \in Nat /\ Busy \in BOOLEAN
    BY <1>0, <2>2 DEF Joined, Busy
  <2>4. /\ s \in SubsOf(handoff, 1) => k = d + 1 /\ Joined(handoff', Busy, addressed, Seq_, s, b, d + 1)
        /\ s \notin SubsOf(handoff, 1) => Joined(handoff', Busy, addressed, Seq_, s, b, d)
    <3>1. InOrder(handoff, Busy, Seq_)
      BY DEF LogInv
    <3> QED  BY <1>0, <1>1, <1>2, <2>2, <2>3, <3>1, JoinedDeliver
  <2>5. CASE s \notin SubsOf(handoff, 1)
    <3>1. s \notin to /\ s \notin room
      BY <1>3, <2>5
    <3>2. sent'[s] = sent[s] /\ dropped'[s] = dropped[s]
      BY <1>1, <3>1
    <3> QED  BY <1>1, <1>4, <2>2, <2>4, <2>5, <3>2 DEF Served
  <2>6. CASE s \in SubsOf(handoff, 1)
    <3>0. k = d + 1 /\ d + 1 \in Nat /\ Joined(handoff', Busy, addressed, Seq_, s, b, d + 1)
      BY <2>4, <2>6
    <3>1. IsGiven(sent'[s], dropped'[s], level, minLevel[s], b, d + 1)
      <4>1. CASE s \in room
        <5>1. sent'[s] = Append(sent[s], [item |-> d + 1, before |-> dropped[s]]) /\ dropped'[s] = 0
          BY <1>1, <3>0, <4>1 DEF Marked, Entry
        <5> QED  BY <2>2, <2>3, <5>1, GivenAppended
      <4>2. CASE s \notin room
        <5>1. sent'[s] = sent[s]
          BY <1>1, <4>2
        <5>2. dropped'[s] = IF level[d + 1] >= minLevel[s] THEN dropped[s] + 1 ELSE dropped[s]
          BY <1>1, <1>3, <2>6, <3>0, <4>2
        <5> QED  BY <2>2, <2>3, <5>1, <5>2, GivenPassed
      <4> QED  BY <4>1, <4>2
    <3> QED  BY <1>1, <1>4, <3>0, <3>1 DEF Served
  <2> QED  BY <2>5, <2>6
<1>8. Busy' => Seq_' >= 1
  BY <1>4 DEF LogInv
<1> QED  BY <1>4, <1>5, <1>6, <1>7, <1>8 DEF LogInv

\* subscribe: the new tail starts from the replayed buffer.
LEMMA SubscribeLogInv ==
    ASSUME LogInv, NEW u \in Tails, NEW l \in 1..2, Subscribe(u, l)
    PROVE  LogInv'
<1>0. LogType /\ Seq_ \in Nat /\ handoff \in Seq(Callback) /\ level \in Seq(1..2)
  BY DEF LogInv, LogType, Seq_
<1> DEFINE out == [i \in 1..Len(Backlog(l)) |-> Entry(Backlog(l)[i], 0)]
<1>1. /\ tail[u] = "new" /\ tail' = [tail EXCEPT ![u] = "on"] /\ minLevel' = [minLevel EXCEPT ![u] = l]
      /\ sent' = [sent EXCEPT ![u] = out] /\ level' = level /\ emitting' = emitting
      /\ addressed' = addressed /\ handoff' = handoff /\ dropped' = dropped
  BY DEF Subscribe
<1>2. Seq_' = Seq_ /\ Busy' = Busy
  BY <1>1 DEF Seq_, Busy
<1>3. IsGiven(out, 0, level, l, Seq_, Seq_)
  BY <1>0, GivenReplay
<1> HIDE DEF out
<1>4. LogType'
  <2>1. out \in Seq(Given)
    BY <1>3 DEF IsGiven
  <2> QED  BY <1>0, <1>1, <2>1 DEF LogType
<1>5. ASSUME NEW s \in Tails, tail'[s] = "new" PROVE NotYet(s)'
  <2>1. tail[s] = "new"
    BY <1>0, <1>1, <1>5 DEF LogType
  <2> QED  BY <1>1, <2>1 DEF LogInv, NotYet
<1>6. ASSUME NEW s \in Tails, tail'[s] = "on" PROVE Served(s)'
  <2>1. CASE s = u
    <3>1. NotYet(u)
      BY <1>1 DEF LogInv
    <3>2. sent'[u] = out /\ dropped'[u] = 0 /\ minLevel'[u] = l
      BY <1>0, <1>1, <3>1 DEF LogType, NotYet
    <3>3. Joined(handoff, Busy, addressed, Seq_, u, Seq_, Seq_)
      <4>1. \A i \in 1..Len(handoff) : ~(ItemOf(handoff, i) > Seq_)
        <5>1. \A i \in 1..Len(handoff) : ItemOf(handoff, i) \in Nat /\ ItemOf(handoff, i) <= Seq_
          BY <1>0, CallbackTypes DEF LogInv, InOrder
        <5> QED  BY <1>0, <5>1
      <4>2. ~(Seq_ > Seq_) /\ Seq_ <= Seq_ /\ \A k \in Nat : ~(k > Seq_ /\ k <= Seq_)
        BY <1>0
      <4> QED  BY <3>1, <4>1, <4>2 DEF Joined, NotYet
    <3> QED  BY <1>0, <1>1, <1>2, <1>3, <2>1, <3>2, <3>3 DEF Served
  <2>2. CASE s # u
    <3>1. tail[s] = "on" /\ sent'[s] = sent[s] /\ minLevel'[s] = minLevel[s]
      BY <1>0, <1>1, <1>6, <2>2 DEF LogType
    <3> QED  BY <1>1, <1>2, <3>1 DEF LogInv, Served
  <2> QED  BY <2>1, <2>2
<1>7. InOrder(handoff, Busy, Seq_)' /\ (Busy => Seq_ >= 1)'
  BY <1>1, <1>2 DEF LogInv
<1> QED  BY <1>4, <1>5, <1>6, <1>7 DEF LogInv

\* Steps that only make somebody leave, or read.
LEMMA LeaveLogInv ==
    ASSUME LogInv, UNCHANGED <<level, emitting, addressed, handoff, minLevel, sent, dropped>>,
           tail' \in [Tails -> {"new", "on", "off"}],
           \A s \in Tails : tail'[s] = tail[s] \/ tail'[s] = "off"
    PROVE  LogInv'
<1>1. Seq_' = Seq_ /\ Busy' = Busy
  BY DEF Seq_, Busy
<1>2. LogType'
  BY DEF LogInv, LogType
<1>3. ASSUME NEW s \in Tails, tail'[s] = "new" PROVE NotYet(s)'
  BY <1>3 DEF LogInv, NotYet
<1>4. ASSUME NEW s \in Tails, tail'[s] = "on" PROVE Served(s)'
  BY <1>1, <1>4 DEF LogInv, Served
<1>5. InOrder(handoff, Busy, Seq_)' /\ (Busy => Seq_ >= 1)'
  BY <1>1 DEF LogInv
<1> QED  BY <1>2, <1>3, <1>4, <1>5 DEF LogInv

\* What is handled after the last given record is what s passed over.
LEMMA HandledSince ==
    ASSUME LogInv, NEW s \in Tails, NEW b \in Nat, NEW d \in Nat, NEW x \in Nat,
           Joined(handoff, Busy, addressed, Seq_, s, b, d), Between(level, minLevel[s], x, b) = {}
    PROVE  Wanted(s, {k \in Handled : k > x}) = Between(level, minLevel[s], x, d)
<1>0. Seq_ \in Nat /\ handoff \in Seq(Callback) /\ DOMAIN handoff = 1..Len(handoff)
  BY DEF LogInv, LogType, Seq_
<1>1. /\ b <= d /\ d <= Seq_
      /\ \A i \in 1..Len(handoff) : ItemOf(handoff, i) > b => ItemOf(handoff, i) > d
      /\ \A k \in Nat : k > d /\ k <= Seq_ =>
            (Busy /\ k = Seq_) \/ \E i \in 1..Len(handoff) : ItemOf(handoff, i) = k
      /\ Busy /\ Seq_ > b => Seq_ > d
  BY DEF Joined
<1>2. Handled = {k \in 1..Seq_ : (\A i \in 1..Len(handoff) : ItemOf(handoff, i) # k) /\ (Busy => k # Seq_)}
  BY <1>0 DEF Handled, ItemOf, Busy
<1>3. ASSUME NEW k \in Nat, k > x, level[k] >= minLevel[s] PROVE k > b
  <2> SUFFICES ASSUME k <= b PROVE FALSE
    OBVIOUS
  <2>1. k \in (x + 1)..b
    BY <1>3
  <2> QED  BY <1>3, <2>1 DEF Between, AtLevel
<1>4. ASSUME NEW k \in Wanted(s, {j \in Handled : j > x}) PROVE k \in Between(level, minLevel[s], x, d)
  <2>1. k \in Handled /\ k > x /\ level[k] >= minLevel[s]
    BY DEF Wanted
  <2>2. k \in 1..Seq_ /\ k \in Nat /\ k <= Seq_
    BY <1>0, <1>2, <2>1
  <2>3. ~(k > d)
    BY <1>1, <1>2, <2>1, <2>2
  <2>4. k \in (x + 1)..d
    BY <2>1, <2>2, <2>3
  <2> QED  BY <2>1, <2>4 DEF Between, AtLevel
<1>5. ASSUME NEW k \in Between(level, minLevel[s], x, d) PROVE k \in Wanted(s, {j \in Handled : j > x})
  <2>1. k \in (x + 1)..d /\ level[k] >= minLevel[s]
    BY DEF Between, AtLevel
  <2>2. k \in Nat /\ k > x /\ k <= d /\ k \in 1..Seq_
    BY <1>0, <1>1, <2>1
  <2>3. k > b /\ ~(k > d)
    BY <1>3, <2>1, <2>2
  <2>4. \A i \in 1..Len(handoff) : ItemOf(handoff, i) # k
    BY <1>1, <2>3
  <2>5. Busy => k # Seq_
    BY <1>1, <2>3
  <2> QED  BY <1>2, <2>1, <2>2, <2>4, <2>5 DEF Wanted
<1> QED  BY <1>4, <1>5

\* The inductive invariant has TailComplete in it.
LEMMA LogInvSuffices == LogInv => TailComplete
<1> SUFFICES ASSUME LogInv, NEW s \in Tails, tail[s] = "on"
             PROVE  /\ \A i \in 1..(Len(sent[s]) - 1) :
                          /\ sent[s][i].item < sent[s][i + 1].item
                          /\ Cardinality(Wanted(s, (sent[s][i].item + 1)..(sent[s][i + 1].item - 1)))
                                = sent[s][i + 1].before
                    /\ sent[s] # <<>> =>
                          Cardinality(Wanted(s, {k \in Handled : k > sent[s][Len(sent[s])].item})) = dropped[s]
  BY DEF TailComplete, Subscribed
<1>1. PICK b \in Nat : \E d \in Nat :
          /\ Joined(handoff, Busy, addressed, Seq_, s, b, d)
          /\ IsGiven(sent[s], dropped[s], level, minLevel[s], b, d)
  BY DEF LogInv, Served
<1>2. PICK d \in Nat :
          /\ Joined(handoff, Busy, addressed, Seq_, s, b, d)
          /\ IsGiven(sent[s], dropped[s], level, minLevel[s], b, d)
  BY <1>1
<1> DEFINE out == sent[s]
<1>3. Len(out) \in Nat /\ out \in Seq(Given)
  BY <1>2 DEF IsGiven
<1>4. ASSUME NEW i \in 1..(Len(out) - 1)
      PROVE  /\ out[i].item < out[i + 1].item
             /\ Cardinality(Wanted(s, (out[i].item + 1)..(out[i + 1].item - 1))) = out[i + 1].before
  <2>1. i \in 1..Len(out) /\ i < Len(out)
    BY <1>3
  <2>2. /\ ItemOf(out, i) < ItemOf(out, i + 1)
        /\ Cardinality(Between(level, minLevel[s], ItemOf(out, i), ItemOf(out, i + 1) - 1))
              = BeforeOf(out, i + 1)
    BY <1>2, <2>1 DEF IsGiven
  <2>3. \A x, y : Wanted(s, (x + 1)..y) = Between(level, minLevel[s], x, y)
    BY DEF Wanted, Between, AtLevel
  <2> QED  BY <2>2, <2>3 DEF ItemOf, BeforeOf
<1>5. ASSUME out # <<>>
      PROVE  Cardinality(Wanted(s, {k \in Handled : k > out[Len(out)].item})) = dropped[s]
  <2>1. Len(out) > 0 /\ Len(out) \in 1..Len(out)
    BY <1>3, <1>5
  <2>2. /\ Between(level, minLevel[s], ItemOf(out, Len(out)), b) = {}
        /\ Cardinality(Between(level, minLevel[s], ItemOf(out, Len(out)), d)) = dropped[s]
    BY <1>2, <2>1 DEF IsGiven
  <2>3. ItemOf(out, Len(out)) \in Nat
    BY <1>3, <2>1, GivenTypes
  <2>4. Wanted(s, {k \in Handled : k > ItemOf(out, Len(out))})
           = Between(level, minLevel[s], ItemOf(out, Len(out)), d)
    BY <1>2, <2>2, <2>3, HandledSince
  <2> QED  BY <2>2, <2>4 DEF ItemOf
<1> QED  BY <1>4, <1>5

\* What a subscriber of the log sees is in order, without repetition and with
\* every gap announced, for any number of threads, subscribers and records and
\* any sizes of buffer and queue.
THEOREM LogTailComplete == LogBusSpec => []TailComplete
<1>1. LogInv /\ [LogBusNext]_logBusVars => LogInv'
  <2> SUFFICES ASSUME LogInv, [LogBusNext]_logBusVars PROVE LogInv'
    OBVIOUS
  <2>0. tail \in [Tails -> {"new", "on", "off"}]
    BY DEF LogInv, LogType
  <2>1. ASSUME NEW t \in Loggers, HandOff(t) PROVE LogInv'
    BY <2>1, HandOffLogInv
  <2>2. ASSUME NEW t \in Loggers, NEW l \in 1..2, Emit(t, l) PROVE LogInv'
    BY <2>2, EmitLogInv
  <2>3. CASE Deliver
    BY <2>3, DeliverLogInv
  <2>4. CASE Detach
    <3>1. UNCHANGED <<level, emitting, addressed, handoff, minLevel, sent, dropped>>
      BY <2>4 DEF Detach
    <3>2. tail' = [s \in Tails |-> IF tail[s] = "on" THEN "off" ELSE tail[s]]
      BY <2>4 DEF Detach
    <3>3. tail' \in [Tails -> {"new", "on", "off"}] /\ \A s \in Tails : tail'[s] = tail[s] \/ tail'[s] = "off"
      BY <2>0, <3>2
    <3> QED  BY <3>1, <3>3, LeaveLogInv
  <2>5. ASSUME NEW s \in Tails, Read(s) \/ Unsubscribed(s) PROVE LogInv'
    <3>1. UNCHANGED <<level, emitting, addressed, handoff, minLevel, sent, dropped>>
      BY <2>5 DEF Read, Unsubscribed
    <3>2. tail' = tail \/ tail' = [tail EXCEPT ![s] = "off"]
      BY <2>5 DEF Read, Unsubscribed
    <3>3. tail' \in [Tails -> {"new", "on", "off"}] /\ \A t \in Tails : tail'[t] = tail[t] \/ tail'[t] = "off"
      BY <2>0, <3>2
    <3> QED  BY <3>1, <3>3, LeaveLogInv
  <2>6. ASSUME NEW s \in Tails, NEW l \in 1..2, Subscribe(s, l) PROVE LogInv'
    BY <2>6, SubscribeLogInv
  <2>7. CASE UNCHANGED logBusVars
    <3>1. UNCHANGED <<level, emitting, addressed, handoff, minLevel, sent, dropped>> /\ tail' = tail
      BY <2>7 DEF logBusVars
    <3> QED  BY <2>0, <3>1, LeaveLogInv
  <2> QED  BY <2>1, <2>2, <2>3, <2>4, <2>5, <2>6, <2>7 DEF LogBusNext
<1> QED  BY LogInitInv, LogInvSuffices, <1>1, PTL DEF LogBusSpec
=============================================================================
