----------------------------- MODULE SessionBus -----------------------------
(***************************************************************************)
(* Live transcripts for the admin console: SessionBus (admin/bus.py), the  *)
(* stream handler that reads it (admin/routes/sessions.py) and the calls   *)
(* that feed it (admin/events.py).  Replayed and live items other than     *)
(* session_end are all "item"; the replay buffer, which only repeats them, *)
(* is left out.                                                            *)
(***************************************************************************)
EXTENDS Naturals, FiniteSets, Sequences

CONSTANTS
    Numbers,      \* session numbers; one is never used twice
    NoNumber,
    Streams,      \* open requests to /sessions/{num}/stream, each its own queue
    MaxStreams,   \* max_live_streams
    StreamQueue   \* maxsize of a subscriber's queue

ASSUME BusAssumption ==
    /\ MaxStreams \in Nat /\ StreamQueue \in Nat \ {0}
    /\ NoNumber \notin Numbers
    /\ IsFiniteSet(Streams)

VARIABLES
    active,       \* sessions in the registry
    over,         \* sessions that have ended
    channels,     \* SessionBus._channels: the numbers that have a channel
    subscribers,  \* the streams subscribed to each channel
    inbox,        \* each stream's queue
    watches,      \* the session of each open stream
    streamCount,  \* SessionBus._stream_count
    abandoned,    \* the open streams whose generator never runs
    overflow      \* history: streams whose queue was full when something came

busVars == <<active, over, channels, subscribers, inbox, watches, streamCount, abandoned,
             overflow>>

BusInit ==
    /\ active = {} /\ over = {} /\ channels = {} /\ abandoned = {} /\ overflow = {}
    /\ subscribers = [n \in Numbers |-> {}]
    /\ inbox = [s \in Streams |-> <<>>]
    /\ watches = [s \in Streams |-> NoNumber]
    /\ streamCount = 0

Opened == {s \in Streams : watches[s] # NoNumber}
Full == {s \in Streams : Len(inbox[s]) >= StreamQueue}

Registered(n) ==
    /\ n \notin active \cup over
    /\ active' = active \cup {n}
    /\ UNCHANGED <<over, channels, subscribers, inbox, watches, streamCount, abandoned, overflow>>

\* publish: a full queue misses the item, silently.
Put(n, item) ==
    /\ inbox' = [s \in Streams |-> IF s \in subscribers[n] \ Full
                                   THEN Append(inbox[s], item) ELSE inbox[s]]
    /\ overflow' = overflow \cup (subscribers[n] \cap Full)

\* transcript and watchers_changed.  A reply that was under way when its
\* session ended is published too, on a channel made anew.
PublishItem(n) ==
    /\ n \in active \cup over
    /\ Put(n, "item")
    /\ channels' = channels \cup {n}
    /\ UNCHANGED <<active, over, subscribers, watches, streamCount, abandoned>>

\* Bug: the channel is dropped before its subscribers are told.
PublishEndTooLate(n) ==
    /\ n \in active
    /\ active' = active \ {n}
    /\ over' = over \cup {n}
    /\ channels' = channels \ {n}
    /\ subscribers' = [subscribers EXCEPT ![n] = {}]
    /\ UNCHANGED <<inbox, watches, streamCount, abandoned, overflow>>

\* session_ended: the session leaves the registry, its subscribers are told
\* and its channel is dropped, with no await in between.
PublishEnd(n) ==
    /\ n \in active
    /\ active' = active \ {n}
    /\ over' = over \cup {n}
    /\ Put(n, "end")
    /\ channels' = channels \ {n}
    /\ subscribers' = [subscribers EXCEPT ![n] = {}]
    /\ UNCHANGED <<watches, streamCount, abandoned>>

\* stream_session: registry, limit and subscribe without an await.  The response
\* starts the generator; a client that goes before that, which is foretold here,
\* leaves one that never runs and so never reaches its finally.
StreamOpen(s, n) ==
    /\ watches[s] = NoNumber /\ inbox[s] = <<>>
    /\ n \in active
    /\ streamCount < MaxStreams
    /\ watches' = [watches EXCEPT ![s] = n]
    /\ channels' = channels \cup {n}
    /\ subscribers' = [subscribers EXCEPT ![n] = @ \cup {s}]
    /\ streamCount' = streamCount + 1
    /\ abandoned' \in {abandoned, abandoned \cup {s}}
    /\ overflow' = overflow \ {s}
    /\ UNCHANGED <<active, over, inbox>>

\* Bug: a stream whose channel is gone does not give its place back.
UnsubscribeLeaking(s) ==
    LET n == watches[s] IN
    /\ subscribers' = [subscribers EXCEPT ![n] = @ \ {s}]
    /\ streamCount' = IF n \in channels THEN streamCount - 1 ELSE streamCount
    /\ watches' = [watches EXCEPT ![s] = NoNumber]
    /\ inbox' = [inbox EXCEPT ![s] = <<>>]
    /\ UNCHANGED <<active, over, channels, abandoned, overflow>>

\* unsubscribe, in the generator's finally: the channel may be gone by then.
Unsubscribe(s) ==
    LET n == watches[s] IN
    /\ subscribers' = [subscribers EXCEPT ![n] = @ \ {s}]
    /\ streamCount' = IF streamCount > 0 THEN streamCount - 1 ELSE 0
    /\ watches' = [watches EXCEPT ![s] = NoNumber]
    /\ inbox' = [inbox EXCEPT ![s] = <<>>]
    /\ UNCHANGED <<active, over, channels, abandoned, overflow>>

\* The generator sends one item, and returns after session_end.
StreamSend(s) ==
    /\ s \in Opened \ abandoned
    /\ inbox[s] # <<>>
    /\ IF Head(inbox[s]) = "end"
       THEN Unsubscribe(s)
       ELSE /\ inbox' = [inbox EXCEPT ![s] = Tail(@)]
            /\ UNCHANGED <<active, over, channels, subscribers, watches, streamCount, abandoned,
                          overflow>>

\* The client goes away while the generator is running.
StreamLeft(s) == s \in Opened \ abandoned /\ Unsubscribe(s)

BusNext ==
    \/ \E n \in Numbers : Registered(n) \/ PublishItem(n) \/ PublishEnd(n)
    \/ \E s \in Streams, n \in Numbers : StreamOpen(s, n)
    \/ \E s \in Streams : StreamSend(s) \/ StreamLeft(s)

BusSpec == BusInit /\ [][BusNext]_busVars

-----------------------------------------------------------------------------
(* Properties. *)

\* The limit counts exactly the streams that were opened and have not ended,
\* also the ones whose session and channel are gone: a generator that ran gives
\* its place back once.  Among them are, for good, the abandoned ones, whose
\* generator never ran.
StreamCountExact ==
    /\ streamCount = Cardinality(Opened)
    /\ streamCount <= MaxStreams

\* "Let subscribers drain the end event, then drop the channel": a stream of
\* an ended session is still to read session_end, or missed something because
\* its queue was full, and is never left waiting on a channel made anew.
EndStillToCome ==
    \A s \in Opened : watches[s] \in over =>
        \/ \E i \in DOMAIN inbox[s] : inbox[s][i] = "end"
        \/ s \in overflow
=============================================================================
