------------------------------- MODULE LogBus -------------------------------
(***************************************************************************)
(* The admin console's log tail: LogBus (admin/logbus.py), a logging       *)
(* handler that any thread may call, its ring buffer, and the subscribers  *)
(* that the stream handler (admin/routes/logs.py) reads from on the event  *)
(* loop.  A record is its sequence number; its level is 1 or 2.            *)
(***************************************************************************)
EXTENDS Naturals, FiniteSets, Sequences

CONSTANTS
    Loggers,      \* threads that log
    NoThread,
    Tails,        \* subscribers, one per request to /logs/stream
    MaxRecords,   \* bound: records logged
    BufferSize,   \* log_buffer_lines
    MaxTails,     \* max_log_streams
    TailQueue     \* maxsize of a subscriber's queue

ASSUME LogBusAssumption ==
    /\ MaxRecords \in Nat /\ BufferSize \in Nat /\ MaxTails \in Nat
    /\ TailQueue \in Nat \ {0}
    /\ NoThread \notin Loggers

VARIABLES
    attached,  \* whether the handler is installed on the root logger
    level,     \* the levels of the records so far: their number is the sequence number
    emitting,  \* the thread inside emit: logging.Handler.handle locks the handler
    addressed, \* the subscribers it saw
    handoff,   \* callbacks scheduled on the loop: [item, subs]
    tail,      \* "new", "on" or "off"
    minLevel,  \* what each subscriber asked for
    sent,      \* what each was given, replay first: [item, before], before
               \* being the announced drops (dropped_before)
    unread,    \* how much of it is still in its queue
    dropped    \* _Subscriber.dropped

logBusVars == <<attached, level, emitting, addressed, handoff, tail, minLevel, sent,
                unread, dropped>>

Seq_ == Len(level)
Subscribed == {s \in Tails : tail[s] = "on"}
Entry(k, d) == [item |-> k, before |-> d]

\* The records among ks that s asked for.
Wanted(s, ks) == {k \in ks : level[k] >= minLevel[s]}

LogBusInit ==
    /\ attached = TRUE
    /\ level = <<>> /\ handoff = <<>>
    /\ emitting = NoThread
    /\ addressed = {}
    /\ tail = [s \in Tails |-> "new"]
    /\ minLevel = [s \in Tails |-> 1]
    /\ sent = [s \in Tails |-> <<>>]
    /\ unread = [s \in Tails |-> 0]
    /\ dropped = [s \in Tails |-> 0]

\* emit, under _lock: number the record, buffer it, look at the subscribers.
\* The ring buffer is the last BufferSize records.
Emit(t, l) ==
    /\ attached
    /\ emitting = NoThread
    /\ Seq_ < MaxRecords
    /\ level' = Append(level, l)
    /\ emitting' = t
    /\ addressed' = Subscribed
    /\ UNCHANGED <<attached, handoff, tail, minLevel, sent, unread, dropped>>

\* emit after _lock: call_soon_threadsafe, with the handler's lock still held.
HandOff(t) ==
    /\ emitting = t
    /\ emitting' = NoThread
    /\ handoff' = IF addressed = {} THEN handoff
                  ELSE Append(handoff, [item |-> Seq_, subs |-> addressed])
    /\ addressed' = {}
    /\ UNCHANGED <<attached, level, tail, minLevel, sent, unread, dropped>>

\* Bug: the marker is left out of the record that follows a drop.
MarkedPlain(s, k) == Entry(k, 0)

\* The record with the drops before it announced.
Marked(s, k) == Entry(k, dropped[s])

\* _deliver, run by the loop.
Deliver ==
    /\ handoff # <<>>
    /\ LET k == Head(handoff).item
           to == {s \in Head(handoff).subs : level[k] >= minLevel[s]}
           room == {s \in to : unread[s] < TailQueue} IN
       /\ sent' = [s \in Tails |-> IF s \in room THEN Append(sent[s], Marked(s, k)) ELSE sent[s]]
       /\ unread' = [s \in Tails |-> IF s \in room THEN unread[s] + 1 ELSE unread[s]]
       /\ dropped' = [s \in Tails |-> IF s \in room THEN 0
                                      ELSE IF s \in to THEN dropped[s] + 1 ELSE dropped[s]]
    /\ handoff' = Tail(handoff)
    /\ UNCHANGED <<attached, level, emitting, addressed, tail, minLevel>>

\* A record in the ring buffer that a subscriber at level l wants.
Replayed(k, l) == k + BufferSize > Seq_ /\ level[k] >= l

\* All of them, oldest first.
Backlog(l) ==
    LET upto[k \in 0..Seq_] == IF k = 0 THEN <<>>
                               ELSE IF Replayed(k, l) THEN Append(upto[k - 1], k)
                               ELSE upto[k - 1]
    IN upto[Seq_]

\* stream_logs: the limit, the queue and the replay, without an await.
Subscribe(s, l) ==
    /\ tail[s] = "new"
    /\ Cardinality(Subscribed) < MaxTails
    /\ tail' = [tail EXCEPT ![s] = "on"]
    /\ minLevel' = [minLevel EXCEPT ![s] = l]
    /\ sent' = [sent EXCEPT ![s] = [i \in 1..Len(Backlog(l)) |-> Entry(Backlog(l)[i], 0)]]
    /\ UNCHANGED <<attached, level, emitting, addressed, handoff, unread, dropped>>

\* The generator takes a record off its queue.
Read(s) ==
    /\ tail[s] = "on"
    /\ unread[s] > 0
    /\ unread' = [unread EXCEPT ![s] = @ - 1]
    /\ UNCHANGED <<attached, level, emitting, addressed, handoff, tail, minLevel, sent, dropped>>

\* The client leaves.  Records already handed over still reach the queue.
Unsubscribed(s) ==
    /\ tail[s] = "on"
    /\ tail' = [tail EXCEPT ![s] = "off"]
    /\ UNCHANGED <<attached, level, emitting, addressed, handoff, minLevel, sent, unread, dropped>>

\* detach, at shutdown: no more records, no more subscribers.
Detach ==
    /\ attached
    /\ attached' = FALSE
    /\ tail' = [s \in Tails |-> IF tail[s] = "on" THEN "off" ELSE tail[s]]
    /\ UNCHANGED <<level, emitting, addressed, handoff, minLevel, sent, unread, dropped>>

LogBusNext ==
    \/ \E t \in Loggers : HandOff(t) \/ \E l \in 1..2 : Emit(t, l)
    \/ Deliver \/ Detach
    \/ \E s \in Tails : Read(s) \/ Unsubscribed(s) \/ \E l \in 1..2 : Subscribe(s, l)

LogBusSpec == LogBusInit /\ [][LogBusNext]_logBusVars

-----------------------------------------------------------------------------
(* Properties. *)

\* Records that no callback is still to deliver.
Handled == {k \in 1..Seq_ : /\ \A i \in DOMAIN handoff : handoff[i].item # k
                            /\ emitting # NoThread => k # Seq_}

\* "records keep the order they were logged in regardless of which thread
\* produced them" and "a slow client sees an explicit gap marker": what a
\* subscriber was given, replay and live together, is in order and without
\* repetition, and every record it asked for that is missing in between, or at
\* the end so far, is in a marker or in the count for the next one.
TailComplete ==
    \A s \in Subscribed :
        LET out == sent[s] IN
        /\ \A i \in 1..(Len(out) - 1) :
              /\ out[i].item < out[i + 1].item
              /\ Cardinality(Wanted(s, (out[i].item + 1)..(out[i + 1].item - 1)))
                    = out[i + 1].before
        /\ out # <<>> =>
              Cardinality(Wanted(s, {k \in Handled : k > out[Len(out)].item})) = dropped[s]
=============================================================================
