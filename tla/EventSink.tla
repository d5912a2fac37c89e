----------------------------- MODULE EventSink -----------------------------
(***************************************************************************)
(* The admin side's event log: SqliteEventSink (admin/events.py), its      *)
(* bounded queue and its batching writer task, the store's transactions on *)
(* worker threads (admin/store.py), and the shutdown of both               *)
(* (admin/__init__.py, bot.py).                                            *)
(*                                                                         *)
(* An event is one SQL statement and is named by its number, so a FIFO     *)
(* queue is a set of numbers, oldest first.  A session is named by the     *)
(* number of the statement that inserts its row.  Statements that neither  *)
(* depend on a row nor are depended on (messages, commands, watcher peaks) *)
(* are "other".                                                            *)
(***************************************************************************)
EXTENDS Naturals, FiniteSets

CONSTANTS
    Players,
    NoPlayer,
    MaxEvents,   \* bound: statements offered to the sink
    QueueSize,   \* event_queue_size
    BatchSize,   \* batch_size
    Faulty       \* whether the database may refuse a transaction

ASSUME SinkAssumption ==
    /\ MaxEvents \in Nat /\ QueueSize \in Nat /\ BatchSize \in Nat \ {0}
    /\ Faulty \in BOOLEAN
    /\ NoPlayer \notin Players

Events == 1..MaxEvents

VARIABLES
    next,     \* number of the next statement
    stmt,     \* the statements: what they do, for whom, to which session
    queue,    \* SqliteEventSink._queue
    batch,    \* the writer's batch
    writer,   \* "idle", "collect", "write", or "gone" when cancelled
    orphan,   \* a batch whose write goes on in its thread without the writer
    flush,    \* the batch of _drain_remaining
    rows,     \* the statements that were committed
    known,    \* players rows from earlier runs of the bot
    open,     \* sessions rows with ended_at NULL
    life,     \* "run", "halted" (bot.stop), "stopping" (sink.stop), "closed"
    fault     \* history: the database has refused a transaction

sinkVars == <<next, stmt, queue, batch, writer, orphan, flush, rows, known, open, life, fault>>

NoStmt == [op |-> "none", p |-> NoPlayer, s |-> 0]

SinkInit ==
    /\ next = 1
    /\ stmt = [e \in Events |-> NoStmt]
    /\ queue = {} /\ batch = {} /\ orphan = {} /\ flush = {} /\ rows = {} /\ open = {}
    /\ known \in SUBSET Players
    /\ writer = "idle"
    /\ life = "run"
    /\ fault = FALSE

Born == 1..(next - 1)
Live == {s \in Born : stmt[s].op = "session"
                      /\ \A e \in Born : stmt[e].op = "ended" => stmt[e].s # s}

-----------------------------------------------------------------------------
(* Recording: every call only enqueues, and drops what does not fit. *)

\* Bug: a full queue makes room by forgetting its oldest statement.
EnqueueEvicting(n) ==
    queue' = {e \in queue \cup next..(next + n - 1) : e + QueueSize > next + n - 1}

\* _enqueue, for the n statements that follow.
Enqueue(n) ==
    queue' = queue \cup {e \in next..(next + n - 1) :
                            e - next < QueueSize - Cardinality(queue)}

Record(n, new) ==
    /\ next + n <= MaxEvents + 1
    /\ next' = next + n
    /\ stmt' = [e \in Events |-> IF e \in next..(next + n - 1) THEN new[e] ELSE stmt[e]]
    /\ Enqueue(n)
    /\ UNCHANGED <<batch, writer, orphan, flush, rows, known, open, fault>>

\* message_rx, message_tx, command, watchers_changed.  A handler or a send that
\* is under way records also after bot.stop, and after sink.stop into a queue
\* that nobody reads any more.
RecordOther ==
    /\ Record(1, [e \in Events |-> [NoStmt EXCEPT !.op = "other"]])
    /\ UNCHANGED life

player_seen(p) ==
    /\ Record(1, [e \in Events |-> [op |-> "player", p |-> p, s |-> 0]])
    /\ UNCHANGED life

\* Upserts the player's row too, for the foreign key of sessions.
session_started(p) ==
    /\ life = "run"
    /\ Record(2, [e \in Events |-> IF e = next THEN [op |-> "player", p |-> p, s |-> 0]
                                   ELSE [op |-> "session", p |-> p, s |-> 0]])
    /\ UNCHANGED life

session_ended(s) ==
    /\ life = "run"
    /\ s \in Live
    /\ Record(1, [e \in Events |-> [op |-> "ended", p |-> NoPlayer, s |-> s]])
    /\ UNCHANGED life

\* ZorkBot.stop: every session ends, reason "shutdown", and none starts after it.
Halt ==
    /\ life = "run"
    /\ life' = "halted"
    /\ \E order \in [1..Cardinality(Live) -> Live] :
          /\ \A i, j \in 1..Cardinality(Live) : i < j => order[i] < order[j]
          /\ Record(Cardinality(Live),
                    [e \in Events |-> [op |-> "ended", p |-> NoPlayer,
                                       s |-> IF e - next + 1 \in DOMAIN order
                                             THEN order[e - next + 1] ELSE 0]])

-----------------------------------------------------------------------------
(* The store: a batch is one transaction. *)

\* Every sessions row finds its players row.
CanCommit(B) ==
    \A e \in B : stmt[e].op = "session" =>
        \/ stmt[e].p \in known
        \/ \E d \in rows \cup {x \in B : x < e} :
              stmt[d].op = "player" /\ stmt[d].p = stmt[e].p

\* _execute_many_in_txn: an UPDATE of a row that is not there does nothing.
Commit(B) ==
    /\ CanCommit(B)
    /\ rows' = rows \cup B
    /\ open' = (open \cup {e \in B : stmt[e].op = "session"})
                 \ {stmt[e].s : e \in {x \in B : stmt[x].op = "ended"}}
    /\ UNCHANGED fault

\* An exception, of the database or of a foreign key, rolls all of it back.
Rollback(B) ==
    /\ ~CanCommit(B) \/ Faulty
    /\ fault' = (fault \/ CanCommit(B))
    /\ UNCHANGED <<rows, open>>

-----------------------------------------------------------------------------
(* The writer task. *)

\* Bug: the writer takes the newest statements first.
HeadsNewest == {B \in SUBSET queue : B # {} /\ \A x \in B, y \in queue \ B : x > y}

Heads == {B \in SUBSET queue : B # {} /\ \A x \in B, y \in queue \ B : x < y}

\* What is queued is taken without a suspension, until the batch is full or
\* its deadline has passed; with an empty queue the writer waits for more.
WriterTake ==
    /\ writer \in {"idle", "collect"}
    /\ \E B \in Heads :
          /\ Cardinality(batch \cup B) <= BatchSize
          /\ batch' = batch \cup B
          /\ queue' = queue \ B
          /\ writer' = IF B = queue /\ Cardinality(batch \cup B) < BatchSize
                       THEN "collect" ELSE "write"
    /\ UNCHANGED <<next, stmt, orphan, flush, rows, known, open, life, fault>>

WriterDeadline ==
    /\ writer = "collect"
    /\ writer' = "write"
    /\ UNCHANGED <<next, stmt, queue, batch, orphan, flush, rows, known, open, life, fault>>

\* Bug: an exception of the store ends the writer.
WriterWroteOnce ==
    /\ writer = "write"
    /\ \/ Commit(batch) /\ writer' = "idle"
       \/ Rollback(batch) /\ writer' = "gone"
    /\ batch' = {}
    /\ UNCHANGED <<next, stmt, queue, orphan, flush, known, life>>

\* run_many returns, or raises and the batch is logged and forgotten.
WriterWrote ==
    /\ writer = "write"
    /\ Commit(batch) \/ Rollback(batch)
    /\ batch' = {}
    /\ writer' = "idle"
    /\ UNCHANGED <<next, stmt, queue, orphan, flush, known, life>>

-----------------------------------------------------------------------------
(* Shutdown *)

\* SqliteEventSink.stop: the writer is cancelled, with its batch in hand; the
\* thread of a write under way is not.  Then _drain_remaining empties the
\* queue.
SinkStop ==
    /\ life = "halted"
    /\ life' = "stopping"
    /\ writer' = "gone"
    /\ orphan' = IF writer = "write" THEN batch ELSE {}
    /\ batch' = {}
    /\ flush' = queue
    /\ queue' = {}
    /\ UNCHANGED <<next, stmt, rows, known, open, fault>>

FlushDone ==
    /\ flush # {}
    /\ Commit(flush) \/ Rollback(flush)
    /\ flush' = {}
    /\ UNCHANGED <<next, stmt, queue, batch, writer, orphan, known, life>>

\* The cancelled write ends; on a closed connection it fails.
OrphanDone ==
    /\ orphan # {}
    /\ \/ life = "stopping" /\ (Commit(orphan) \/ Rollback(orphan))
       \/ life = "closed" /\ UNCHANGED <<rows, open, fault>>
    /\ orphan' = {}
    /\ UNCHANGED <<next, stmt, queue, batch, writer, flush, known, life>>

\* Store.close, right after sink.stop.
StoreClose ==
    /\ life = "stopping"
    /\ flush = {}
    /\ life' = "closed"
    /\ UNCHANGED <<next, stmt, queue, batch, writer, orphan, flush, rows, known, open, fault>>

Writer == WriterTake \/ WriterDeadline \/ WriterWrote

SinkNext ==
    \/ RecordOther \/ Halt
    \/ \E p \in Players : player_seen(p) \/ session_started(p)
    \/ \E s \in Live : session_ended(s)
    \/ Writer
    \/ SinkStop \/ FlushDone \/ OrphanDone \/ StoreClose

SinkSpec == SinkInit /\ [][SinkNext]_sinkVars

\* asyncio runs the writer when it is ready, and SQLite answers or gives up.
SinkFairness == WF_sinkVars(Writer) /\ WF_sinkVars(FlushDone) /\ WF_sinkVars(OrphanDone)

-----------------------------------------------------------------------------
(* Properties. *)

Pending == queue \cup batch \cup orphan \cup flush

Fate(e) == IF e >= next THEN "unborn"
           ELSE IF e \in Pending THEN "pending"
           ELSE IF e \in rows THEN "kept" ELSE "lost"

\* The sink and its store implement the event log: nothing is written twice,
\* batches are written whole and in order, whatever overflows, fails or is
\* cancelled.
Log == INSTANCE EventLog
          WITH fate <- [e \in Events |-> Fate(e)],
               closing <- life \in {"stopping", "closed"}

EventLogSpec == Log!LogSpec

\* "both enqueue calls land in the same batch": they need not, but as long as
\* the database has refused nothing, a foreign key never rolls back a batch,
\* neither after an overflow nor across a batch boundary.
RollbackNeedsFault ==
    writer = "write" /\ ~fault => CanCommit(batch)

\* Every statement that got into the queue before sink.stop is settled, also
\* when the database refuses some and through the shutdown.
EventsSettled ==
    \A e \in Events : e \in queue /\ life \in {"run", "halted"} ~> e \notin Pending

-----------------------------------------------------------------------------
(* What the repository's text says and the code does not keep. *)

\* ZorkBot.stop: "Close out session-history rows so they don't read as
\* still-active forever".  Once all is closed, no session row is open.
ShutdownClosesRows == life = "closed" /\ orphan = {} => open = {}
=============================================================================
