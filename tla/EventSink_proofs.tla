-------------------------- MODULE EventSink_proofs --------------------------
(***************************************************************************)
(* Proofs about the event sink, for any players, any sizes of its queue and *)
(* its batches, any number of statements and any database faults: it       *)
(* implements EventLog, and no foreign key rolls back a batch by itself.   *)
(***************************************************************************)
EXTENDS EventSink, FiniteSetTheorems, TLAPS

Closing == life \in {"stopping", "closed"}

\* The places a statement can be in; it is in at most one.
PlacesDisjoint ==
    /\ queue \cap (batch \cup orphan \cup flush \cup rows) = {}
    /\ batch \cap (orphan \cup flush \cup rows) = {}
    /\ orphan \cap (flush \cup rows) = {}
    /\ flush \cap rows = {}

\* Which places are in use before the sink is stopped, and which after.
PhaseOK ==
    /\ writer \in {"idle", "collect", "write", "gone"}
    /\ life \in {"run", "halted", "stopping", "closed"}
    /\ writer = "gone" <=> Closing
    /\ ~Closing => orphan = {} /\ flush = {}
    /\ Closing => batch = {}
    /\ life = "closed" => flush = {}

\* The row a sessions row refers to.
Covers(d, e) == stmt[d].op = "player" /\ stmt[d].p = stmt[e].p

\* As long as the database has refused nothing, the player's statement of a
\* waiting session statement is written, or waits in front of it.
SessionsCovered ==
    ~fault /\ ~Closing =>
        \A e \in queue \cup batch : stmt[e].op = "session" =>
            \/ stmt[e].p \in known
            \/ \E d \in rows \cup {x \in queue \cup batch : x < e} : Covers(d, e)

\* The inductive invariant.
SinkInv ==
    /\ next \in 1..(MaxEvents + 1)
    /\ Pending \cup rows \subseteq Born
    /\ fault \in BOOLEAN
    /\ PlacesDisjoint
    /\ PhaseOK
    /\ \A x \in batch, y \in queue : x < y
    /\ SessionsCovered

-----------------------------------------------------------------------------
(* The initial states. *)

\* The sink starts empty, as the log does.
LEMMA SinkInitInv == SinkInit => SinkInv /\ Log!LogInit
<1>. SUFFICES ASSUME SinkInit PROVE SinkInv /\ Log!LogInit
  OBVIOUS
<1>1. SinkInv
  <2>1. next \in 1..(MaxEvents + 1) /\ Pending \cup rows \subseteq Born
    BY SinkAssumption DEF SinkInit, Pending
  <2>2. PlacesDisjoint /\ (\A x \in batch, y \in queue : x < y) /\ SessionsCovered
    BY DEF SinkInit, PlacesDisjoint, SessionsCovered
  <2>3. PhaseOK
    BY DEF SinkInit, PhaseOK, Closing
  <2>4. fault \in BOOLEAN
    BY DEF SinkInit
  <2>. QED
    BY <2>1, <2>2, <2>3, <2>4 DEF SinkInv
<1>2. Log!LogInit
  BY DEF SinkInit, Log!LogInit, Log!LogEvents, Events, Fate
<1>. QED
  BY <1>1, <1>2

-----------------------------------------------------------------------------
(* Recording. *)

\* How many are queued is a number.
LEMMA QueueCount ==
    ASSUME SinkInv
    PROVE  Cardinality(queue) \in Nat
<1>1. queue \subseteq 1..(next - 1) /\ next - 1 \in Int
  BY SinkAssumption DEF SinkInv, Pending, Born
<1>2. IsFiniteSet(1..(next - 1))
  BY <1>1, FS_Interval
<1>. QED
  BY <1>1, <1>2, FS_Subset, FS_CardinalityType

\* What Record does to the places: it appends a first part of the new
\* statements to the queue.
LEMMA RecordFacts ==
    ASSUME SinkInv, NEW n \in Nat, NEW new, Record(n, new)
    PROVE  /\ next' = next + n /\ next' \in 1..(MaxEvents + 1)
           /\ queue \subseteq queue' /\ queue' \subseteq queue \cup next..(next + n - 1)
           /\ \A e \in next..(next + n - 1), d \in next..(next + n - 1) :
                 e \in queue' /\ d < e => d \in queue'
           /\ \A e \in Born : stmt'[e] = stmt[e]
           /\ \A e \in next..(next + n - 1) : stmt'[e] = new[e]
<1>0. next \in 1..(MaxEvents + 1) /\ MaxEvents \in Nat
  BY SinkAssumption DEF SinkInv
<1>1. next' = next + n /\ next' \in 1..(MaxEvents + 1)
  BY <1>0 DEF Record
<1>2. Cardinality(queue) \in Nat /\ QueueSize \in Nat
  BY QueueCount, SinkAssumption
<1>3. queue' = queue \cup {e \in next..(next + n - 1) :
                             e - next < QueueSize - Cardinality(queue)}
  BY DEF Record, Enqueue
<1>4. \A e \in next..(next + n - 1), d \in next..(next + n - 1) :
         e \in queue' /\ d < e => d \in queue'
  <2>. SUFFICES ASSUME NEW e \in next..(next + n - 1), NEW d \in next..(next + n - 1),
                       e \in queue', d < e
                PROVE  d \in queue'
    OBVIOUS
  <2>1. e \notin queue
    BY <1>0 DEF SinkInv, Pending, Born
  <2>2. e - next < QueueSize - Cardinality(queue)
    BY <1>3, <2>1
  <2>3. d - next < QueueSize - Cardinality(queue)
    BY <1>0, <1>2, <2>2
  <2>. QED
    BY <1>3, <2>3
<1>5. \A e \in Born : e \in Events /\ e \notin next..(next + n - 1)
  BY <1>0 DEF Born, Events
<1>6. next..(next + n - 1) \subseteq Events
  BY <1>0, <1>1 DEF Events
<1>. QED
  BY <1>1, <1>3, <1>4, <1>5, <1>6 DEF Record

\* Recording is an offer to the log and keeps the invariant, when a new session
\* statement comes right behind its player's.
LEMMA RecordStep ==
    ASSUME SinkInv, NEW n \in Nat, NEW new, Record(n, new),
           life' = life \/ (life = "run" /\ life' = "halted"),
           \A e \in next..(next + n - 1) : new[e].op = "session" =>
               /\ e - 1 \in next..(next + n - 1)
               /\ new[e - 1].op = "player" /\ new[e - 1].p = new[e].p
    PROVE  SinkInv' /\ Log!LogOffer
<1>. DEFINE N == next..(next + n - 1)
<1>0. next \in 1..(MaxEvents + 1) /\ MaxEvents \in Nat
  BY SinkAssumption DEF SinkInv
<1>1. /\ next' = next + n /\ next' \in 1..(MaxEvents + 1)
      /\ queue \subseteq queue' /\ queue' \subseteq queue \cup N
      /\ \A e \in N, d \in N : e \in queue' /\ d < e => d \in queue'
      /\ \A e \in Born : stmt'[e] = stmt[e]
      /\ \A e \in N : stmt'[e] = new[e]
  BY RecordFacts
<1>2. UNCHANGED <<batch, writer, orphan, flush, rows, known, open, fault>>
  BY DEF Record
<1>3. Closing' = Closing /\ batch \cup queue \cup orphan \cup flush \cup rows \subseteq Born
  BY DEF SinkInv, PhaseOK, Closing, Pending
<1>4. Born' = Born \cup N /\ Born \cap N = {} /\ \A x \in Born, y \in N : x < y
  BY <1>0, <1>1 DEF Born
<1>5. SinkInv'
  <2>1. (Pending \cup rows \subseteq Born)'
    BY <1>1, <1>2, <1>3, <1>4 DEF Pending
  <2>2. PlacesDisjoint'
    BY <1>1, <1>2, <1>3, <1>4 DEF SinkInv, PlacesDisjoint
  <2>3. PhaseOK'
    BY <1>2, <1>3 DEF SinkInv, PhaseOK, Closing
  <2>4. \A x \in batch', y \in queue' : x < y
    BY <1>1, <1>2, <1>3, <1>4 DEF SinkInv
  <2>5. SessionsCovered'
    <3>. SUFFICES ASSUME ~fault', ~Closing', NEW e \in queue' \cup batch', stmt'[e].op = "session"
                  PROVE  \/ stmt'[e].p \in known'
                         \/ \E d \in rows' \cup {x \in queue' \cup batch' : x < e} : Covers(d, e)'
      BY DEF SessionsCovered
    <3>1. CASE e \in queue \cup batch
      <4>1. stmt'[e] = stmt[e]
        BY <1>1, <1>3, <3>1
      <4>2. CASE stmt[e].p \in known
        BY <1>2, <4>1, <4>2
      <4>3. CASE stmt[e].p \notin known
        <5>1. PICK d \in rows \cup {x \in queue \cup batch : x < e} : Covers(d, e)
          BY <1>2, <1>3, <3>1, <4>1, <4>3 DEF SinkInv, SessionsCovered
        <5>2. stmt'[d] = stmt[d]
          BY <1>1, <1>3, <5>1
        <5>. QED
          BY <1>1, <1>2, <4>1, <5>1, <5>2 DEF Covers
      <4>. QED
        BY <4>2, <4>3
    <3>2. CASE e \notin queue \cup batch
      <4>1. e \in N /\ e \in queue'
        BY <1>1, <1>2, <3>2
      <4>2. e - 1 \in N /\ new[e - 1].op = "player" /\ new[e - 1].p = new[e].p
        BY <1>1, <4>1
      <4>3. e - 1 \in queue' /\ e - 1 < e
        BY <1>0, <1>1, <4>1, <4>2
      <4>. QED
        BY <1>1, <4>1, <4>2, <4>3 DEF Covers
    <3>. QED
      BY <3>1, <3>2
  <2>. QED
    BY <1>1, <1>2, <2>1, <2>2, <2>3, <2>4, <2>5 DEF SinkInv
<1>6. Log!LogOffer
  <2>. DEFINE fate == [e \in Events |-> Fate(e)]
              P == queue' \ queue
  <2>1. Log!Having("unborn") = {e \in Events : e >= next}
    BY <1>0 DEF Log!Having, Log!LogEvents, Events, Fate
  <2>2. N \in SUBSET Log!Having("unborn") /\ Log!Oldest(N, Log!Having("unborn"))
    BY <1>0, <1>1, <2>1 DEF Log!Oldest, Events
  <2>3. P \in SUBSET N
    BY <1>1
  <2>4. ASSUME NEW e \in Events
        PROVE  Fate(e)' = IF e \in P THEN "pending" ELSE IF e \in N THEN "lost" ELSE Fate(e)
    <3>1. e \in Pending' <=> e \in Pending \/ e \in P
      BY <1>1, <1>2 DEF Pending
    <3>2. e \in N => e \notin Pending /\ e \notin rows' /\ ~(e >= next')
      BY <1>0, <1>1, <1>2, <1>3, <1>4 DEF Pending
    <3>3. e \notin N => (e >= next' <=> e >= next)
      BY <1>0, <1>1 DEF Events
    <3>. QED
      BY <1>1, <1>2, <2>3, <3>1, <3>2, <3>3 DEF Fate
  <2>5. fate' = [e \in Log!LogEvents |-> IF e \in P THEN "pending"
                                        ELSE IF e \in N THEN "lost" ELSE fate[e]]
    BY <2>4 DEF Log!LogEvents, Events
  <2>6. (life \in {"stopping", "closed"})' = (life \in {"stopping", "closed"})
    BY <1>3 DEF Closing
  <2>. HIDE DEF N, P, fate
  <2>. QED
    BY <2>2, <2>3, <2>5, <2>6, Zenon DEF Log!LogOffer, fate
<1>. QED
  BY <1>5, <1>6

\* The calls that record one statement which is no session's first.
LEMMA RecordOneStep ==
    ASSUME SinkInv,
           \/ RecordOther
           \/ \E p \in Players : player_seen(p)
           \/ \E s \in Live : session_ended(s)
    PROVE  SinkInv' /\ Log!LogOffer
<1>1. PICK new : Record(1, new) /\ \A e \in Events : new[e].op # "session"
  BY DEF RecordOther, player_seen, session_ended, NoStmt
<1>2. life' = life
  BY DEF RecordOther, player_seen, session_ended
<1>3. next..(next + 1 - 1) \subseteq Events
  BY <1>1, SinkAssumption DEF SinkInv, Record, Events
<1>. QED
  BY <1>1, <1>2, <1>3, RecordStep

\* session_started records the player's statement first.
LEMMA SessionStartedStep ==
    ASSUME SinkInv, NEW p \in Players, session_started(p)
    PROVE  SinkInv' /\ Log!LogOffer
<1>. DEFINE new == [e \in Events |-> IF e = next THEN [op |-> "player", p |-> p, s |-> 0]
                                     ELSE [op |-> "session", p |-> p, s |-> 0]]
<1>1. Record(2, new) /\ life = "run" /\ life' = "run"
  BY DEF session_started
<1>2. next \in Events /\ next + 1 \in Events /\ next..(next + 2 - 1) = {next, next + 1}
      /\ next + 1 # next /\ next + 1 - 1 = next
  BY <1>1, SinkAssumption DEF SinkInv, Record, Events
<1>3. \A e \in next..(next + 2 - 1) : new[e].op = "session" =>
         e = next + 1 /\ new[e - 1].op = "player" /\ new[e - 1].p = new[e].p
  BY <1>2
<1>. HIDE DEF new
<1>. QED
  BY <1>1, <1>2, <1>3, RecordStep

\* Halt records the end of every session.
LEMMA HaltStep ==
    ASSUME SinkInv, Halt
    PROVE  SinkInv' /\ Log!LogOffer
<1>1. PICK order, new :
         /\ Record(Cardinality(Live), new)
         /\ new = [e \in Events |-> [op |-> "ended", p |-> NoPlayer,
                                     s |-> IF e - next + 1 \in DOMAIN order
                                           THEN order[e - next + 1] ELSE 0]]
  BY DEF Halt
<1>2. life = "run" /\ life' = "halted"
  BY DEF Halt
<1>3. Cardinality(Live) \in Nat
  <2>1. Live \subseteq 1..(next - 1) /\ next - 1 \in Int
    BY SinkAssumption DEF SinkInv, Live, Born
  <2>2. IsFiniteSet(1..(next - 1))
    BY <2>1, FS_Interval
  <2>. QED
    BY <2>1, <2>2, FS_Subset, FS_CardinalityType
<1>4. next..(next + Cardinality(Live) - 1) \subseteq Events
  BY <1>1, <1>3, SinkAssumption DEF SinkInv, Record, Events
<1>5. \A e \in Events : new[e].op # "session"
  BY <1>1
<1>. QED
  BY <1>1, <1>2, <1>3, <1>4, <1>5, RecordStep

-----------------------------------------------------------------------------
(* Writing. *)

\* Steps that move statements between places, and no fate, stutter.
LEMMA FateStutter ==
    ASSUME UNCHANGED <<next, rows, Pending>>,
           (life \in {"stopping", "closed"})' = (life \in {"stopping", "closed"})
    PROVE  UNCHANGED Log!logVars
<1>1. \A e \in Events : Fate(e)' = Fate(e)
  BY DEF Fate
<1>. QED
  BY <1>1 DEF Log!logVars

\* A batch that leaves its place, kept or lost as a whole, is settled.
LEMMA SettleStep ==
    ASSUME SinkInv, NEW B, B \subseteq Pending, Closing \/ \A x \in B, y \in Pending \ B : x < y,
           Pending' = Pending \ B, rows' = rows \/ rows' = rows \cup B, next' = next,
           (life \in {"stopping", "closed"})' = (life \in {"stopping", "closed"})
    PROVE  Log!LogSettle
<1>. DEFINE fate == [e \in Events |-> Fate(e)]
            f == IF rows' = rows THEN "lost" ELSE "kept"
<1>1. Pending \subseteq Events /\ Pending \cap rows = {} /\ \A e \in Pending : ~(e >= next)
  BY SinkAssumption DEF SinkInv, Pending, Born, Events, PlacesDisjoint
<1>2. Log!Having("pending") = Pending
  BY <1>1 DEF Log!Having, Log!LogEvents, Fate, Events
<1>3. B \in SUBSET Log!Having("pending") /\ f \in {"kept", "lost"}
  BY <1>2
<1>4. life \in {"stopping", "closed"} \/ Log!Oldest(B, Log!Having("pending"))
  BY <1>2 DEF Log!Oldest, Closing
<1>5. \A e \in Events : Fate(e)' = IF e \in B THEN f ELSE Fate(e)
  BY <1>1 DEF Fate
<1>6. fate' = [e \in Log!LogEvents |-> IF e \in B THEN f ELSE fate[e]]
  BY <1>5 DEF Log!LogEvents, Events
<1>. HIDE DEF f, fate
<1>. QED
  BY <1>3, <1>4, <1>6, Zenon DEF Log!LogSettle, fate

\* A batch of the writer's finds its players.
LEMMA BatchCovered ==
    ASSUME SinkInv, ~fault, ~Closing
    PROVE  CanCommit(batch)
<1>. SUFFICES ASSUME NEW e \in batch, stmt[e].op = "session", stmt[e].p \notin known
              PROVE  \E d \in rows \cup {x \in batch : x < e} : Covers(d, e)
  BY DEF CanCommit, Covers
<1>1. PICK d \in rows \cup {x \in queue \cup batch : x < e} : Covers(d, e)
  BY DEF SinkInv, SessionsCovered
<1>2. d \notin queue \/ d \in rows
  <2>. SUFFICES ASSUME d \in queue, d < e PROVE FALSE
    BY <1>1
  <2>1. e < d /\ e \in Nat /\ d \in Nat
    BY SinkAssumption DEF SinkInv, Pending, Born
  <2>. QED
    BY <2>1
<1>. QED
  BY <1>1, <1>2

\* The writer takes the oldest from the queue.
LEMMA WriterTakeStep ==
    ASSUME SinkInv, WriterTake
    PROVE  SinkInv' /\ UNCHANGED Log!logVars
<1>1. PICK B \in Heads : /\ batch' = batch \cup B /\ queue' = queue \ B
                        /\ writer' \in {"collect", "write"}
  BY DEF WriterTake
<1>2. UNCHANGED <<next, stmt, orphan, flush, rows, known, open, life, fault>> /\ ~Closing
  BY DEF WriterTake, SinkInv, PhaseOK
<1>3. B \subseteq queue /\ \A x \in B, y \in queue \ B : x < y
  BY <1>1 DEF Heads
<1>4. batch' \cup queue' = batch \cup queue /\ Pending' = Pending
  BY <1>1, <1>2, <1>3 DEF Pending
<1>5. PlacesDisjoint'
  BY <1>1, <1>2, <1>3 DEF SinkInv, PlacesDisjoint
<1>6. PhaseOK'
  BY <1>1, <1>2 DEF SinkInv, PhaseOK, Closing
<1>7. \A x \in batch', y \in queue' : x < y
  BY <1>1, <1>3 DEF SinkInv
<1>8. SessionsCovered'
  BY <1>2, <1>4 DEF SinkInv, SessionsCovered, Covers, Closing
<1>9. SinkInv'
  BY <1>2, <1>4, <1>5, <1>6, <1>7, <1>8 DEF SinkInv, Born
<1>. QED
  BY <1>2, <1>4, <1>9, FateStutter

\* The deadline of a batch passes.
LEMMA WriterDeadlineStep ==
    ASSUME SinkInv, WriterDeadline
    PROVE  SinkInv' /\ UNCHANGED Log!logVars
<1>1. UNCHANGED <<next, stmt, queue, batch, orphan, flush, rows, known, open, life, fault>>
      /\ writer = "collect" /\ writer' = "write"
  BY DEF WriterDeadline
<1>2. Pending' = Pending
  BY <1>1 DEF Pending
<1>3. PhaseOK' /\ PlacesDisjoint' /\ SessionsCovered'
  BY <1>1 DEF SinkInv, PhaseOK, PlacesDisjoint, SessionsCovered, Covers, Closing
<1>4. SinkInv'
  BY <1>1, <1>2, <1>3 DEF SinkInv, Born
<1>. QED
  BY <1>1, <1>2, <1>4, FateStutter

\* The writer's batch is committed or rolled back.
LEMMA WriterWroteStep ==
    ASSUME SinkInv, WriterWrote
    PROVE  SinkInv' /\ Log!LogSettle
<1>1. /\ UNCHANGED <<next, stmt, queue, orphan, flush, known, life>>
      /\ batch' = {} /\ writer = "write" /\ writer' = "idle"
      /\ rows' = rows \/ rows' = rows \cup batch
      /\ fault' \in BOOLEAN
      /\ ~fault' => ~fault /\ rows' = rows \cup batch
  <2>1. CASE Commit(batch)
    BY <2>1 DEF WriterWrote, Commit, SinkInv
  <2>2. CASE Rollback(batch)
    <3>1. ~fault => CanCommit(batch)
      BY BatchCovered DEF WriterWrote, SinkInv, PhaseOK
    <3>. QED
      BY <2>2, <3>1 DEF WriterWrote, Rollback, SinkInv
  <2>. QED
    BY <2>1, <2>2 DEF WriterWrote
<1>2. ~Closing /\ ~Closing' /\ orphan = {} /\ flush = {} /\ Pending = queue \cup batch
      /\ Pending' = queue
  BY <1>1 DEF SinkInv, PhaseOK, Closing, Pending
<1>3. batch \cap queue = {} /\ Pending' = Pending \ batch
  BY <1>2 DEF SinkInv, PlacesDisjoint
<1>4. PlacesDisjoint'
  BY <1>1 DEF SinkInv, PlacesDisjoint
<1>5. PhaseOK'
  BY <1>1, <1>2 DEF SinkInv, PhaseOK, Closing
<1>6. SessionsCovered'
  BY <1>1, <1>2 DEF SinkInv, SessionsCovered, Covers
<1>7. SinkInv'
  BY <1>1, <1>2, <1>4, <1>5, <1>6 DEF SinkInv, Born
<1>8. batch \subseteq Pending /\ \A x \in batch, y \in Pending \ batch : x < y
  BY <1>2 DEF SinkInv
<1>. QED
  BY <1>1, <1>2, <1>3, <1>7, <1>8, SettleStep DEF Closing

-----------------------------------------------------------------------------
(* Shutdown. *)

\* The writer is cancelled: what it was still collecting is lost.
LEMMA SinkStopStep ==
    ASSUME SinkInv, SinkStop
    PROVE  SinkInv' /\ Log!LogClose
<1>. DEFINE fate == [e \in Events |-> Fate(e)]
            B == batch \ orphan'
<1>1. /\ UNCHANGED <<next, stmt, rows, known, open, fault>> /\ life' = "stopping"
      /\ writer' = "gone" /\ batch' = {} /\ queue' = {} /\ flush' = queue
      /\ orphan' = batch \/ orphan' = {}
      /\ ~Closing /\ orphan = {} /\ flush = {}
  BY DEF SinkStop, SinkInv, PhaseOK, Closing
<1>2. Pending = queue \cup batch /\ Pending' = Pending \ B /\ B \subseteq Pending
  BY <1>1 DEF Pending, SinkInv, PlacesDisjoint
<1>3. PlacesDisjoint' /\ PhaseOK' /\ SessionsCovered'
  BY <1>1 DEF SinkInv, PlacesDisjoint, PhaseOK, SessionsCovered, Closing
<1>4. SinkInv'
  BY <1>1, <1>2, <1>3 DEF SinkInv, Born
<1>5. Pending \subseteq Events /\ Pending \cap rows = {} /\ \A e \in Pending : ~(e >= next)
  BY SinkAssumption DEF SinkInv, Pending, Born, Events, PlacesDisjoint
<1>6. Log!Having("pending") = Pending
  BY <1>5 DEF Log!Having, Log!LogEvents, Fate, Events
<1>7. \A e \in Events : Fate(e)' = IF e \in B THEN "lost" ELSE Fate(e)
  BY <1>1, <1>2, <1>5 DEF Fate
<1>8. fate' = [e \in Log!LogEvents |-> IF e \in B THEN "lost" ELSE fate[e]]
  BY <1>7 DEF Log!LogEvents, Events
<1>9. (life \in {"stopping", "closed"})' = TRUE
  BY <1>1
<1>10. B \in SUBSET Log!Having("pending")
  BY <1>2, <1>6
<1>. HIDE DEF B, fate
<1>. QED
  BY <1>4, <1>8, <1>9, <1>10, Zenon DEF Log!LogClose, fate

\* What was drained is committed or rolled back.
LEMMA FlushDoneStep ==
    ASSUME SinkInv, FlushDone
    PROVE  SinkInv' /\ Log!LogSettle
<1>1. /\ UNCHANGED <<next, stmt, queue, batch, writer, orphan, known, life>> /\ flush' = {}
      /\ rows' = rows \/ rows' = rows \cup flush
      /\ fault' \in BOOLEAN /\ Closing
  BY DEF FlushDone, Commit, Rollback, SinkInv, PhaseOK
<1>2. flush \subseteq Pending /\ Pending' = Pending \ flush
  BY <1>1 DEF Pending, SinkInv, PlacesDisjoint
<1>3. PlacesDisjoint' /\ PhaseOK' /\ SessionsCovered'
  BY <1>1 DEF SinkInv, PlacesDisjoint, PhaseOK, SessionsCovered, Closing
<1>4. (Pending \cup rows \subseteq Born)'
  BY <1>1, <1>2 DEF SinkInv, Born
<1>5. SinkInv'
  BY <1>1, <1>3, <1>4 DEF SinkInv
<1>. QED
  BY <1>1, <1>2, <1>5, SettleStep

\* The write that the writer left behind ends, before or after the store is
\* closed.
LEMMA OrphanDoneStep ==
    ASSUME SinkInv, OrphanDone
    PROVE  SinkInv' /\ Log!LogSettle
<1>1. /\ UNCHANGED <<next, stmt, queue, batch, writer, flush, known, life>> /\ orphan' = {}
      /\ rows' = rows \/ rows' = rows \cup orphan
      /\ fault' \in BOOLEAN /\ Closing
  BY DEF OrphanDone, Commit, Rollback, SinkInv, PhaseOK
<1>2. orphan \subseteq Pending /\ Pending' = Pending \ orphan
  BY <1>1 DEF Pending, SinkInv, PlacesDisjoint
<1>3. PlacesDisjoint' /\ PhaseOK' /\ SessionsCovered'
  BY <1>1 DEF SinkInv, PlacesDisjoint, PhaseOK, SessionsCovered, Closing
<1>4. (Pending \cup rows \subseteq Born)'
  BY <1>1, <1>2 DEF SinkInv, Born
<1>5. SinkInv'
  BY <1>1, <1>3, <1>4 DEF SinkInv
<1>. QED
  BY <1>1, <1>2, <1>5, SettleStep

\* The store is closed.
LEMMA StoreCloseStep ==
    ASSUME SinkInv, StoreClose
    PROVE  SinkInv' /\ UNCHANGED Log!logVars
<1>1. /\ UNCHANGED <<next, stmt, queue, batch, writer, orphan, flush, rows, known, open, fault>>
      /\ life = "stopping" /\ life' = "closed" /\ flush = {}
  BY DEF StoreClose
<1>2. Pending' = Pending
  BY <1>1 DEF Pending
<1>3. PhaseOK' /\ PlacesDisjoint' /\ SessionsCovered'
  BY <1>1 DEF SinkInv, PhaseOK, PlacesDisjoint, SessionsCovered, Closing
<1>4. SinkInv'
  BY <1>1, <1>2, <1>3 DEF SinkInv, Born
<1>. QED
  BY <1>1, <1>2, <1>4, FateStutter

-----------------------------------------------------------------------------
(* The theorems. *)

\* Every step keeps the invariant and is a step of the log, or none.
LEMMA SinkStep == SinkInv /\ [SinkNext]_sinkVars => SinkInv' /\ [Log!LogNext]_Log!logVars
<1>. SUFFICES ASSUME SinkInv, [SinkNext]_sinkVars
              PROVE  SinkInv' /\ (Log!LogNext \/ UNCHANGED Log!logVars)
  OBVIOUS
<1>1. CASE UNCHANGED sinkVars
  <2>1. Pending' = Pending
    BY <1>1 DEF sinkVars, Pending
  <2>2. PhaseOK' /\ PlacesDisjoint' /\ SessionsCovered'
    BY <1>1 DEF SinkInv, PhaseOK, PlacesDisjoint, SessionsCovered, Covers, Closing, sinkVars
  <2>3. SinkInv'
    BY <1>1, <2>1, <2>2 DEF SinkInv, Born, sinkVars
  <2>. QED
    BY <1>1, <2>1, <2>3, FateStutter DEF sinkVars
<1>2. CASE SinkNext
  <2>1. CASE RecordOther \/ (\E p \in Players : player_seen(p)) \/ (\E s \in Live : session_ended(s))
    BY <2>1, RecordOneStep DEF Log!LogNext
  <2>2. CASE Halt \/ \E p \in Players : session_started(p)
    BY <2>2, HaltStep, SessionStartedStep DEF Log!LogNext
  <2>3. CASE Writer
    BY <2>3, WriterTakeStep, WriterDeadlineStep, WriterWroteStep DEF Writer, Log!LogNext
  <2>4. CASE SinkStop \/ FlushDone \/ OrphanDone \/ StoreClose
    BY <2>4, SinkStopStep, FlushDoneStep, OrphanDoneStep, StoreCloseStep DEF Log!LogNext
  <2>. QED
    BY <1>2, <2>1, <2>2, <2>3, <2>4 DEF SinkNext
<1>. QED
  BY <1>1, <1>2

\* The invariant holds through overflows, faults and the shutdown.
THEOREM SinkInvariant == SinkSpec => []SinkInv
<1>. QED
  BY SinkInitInv, SinkStep, PTL DEF SinkSpec

\* The sink and its store implement the event log: no statement is written
\* twice, batches are settled whole and in order until the sink is stopped
\* (events.py, _writer_loop and stop).
THEOREM SinkImplementsLog == SinkSpec => EventLogSpec
<1>. QED
  BY SinkInitInv, SinkStep, SinkInvariant, PTL DEF SinkSpec, EventLogSpec, Log!LogSpec

\* As long as the database refuses nothing, every batch of the writer's can be
\* committed: no overflow and no batch boundary separates a sessions row from
\* its players row (events.py, session_started; store.py, the foreign key).
THEOREM SinkRollbackNeedsFault == SinkSpec => []RollbackNeedsFault
<1>1. SinkInv => RollbackNeedsFault
  BY BatchCovered DEF RollbackNeedsFault, SinkInv, PhaseOK
<1>. QED
  BY <1>1, SinkInvariant, PTL
=============================================================================
