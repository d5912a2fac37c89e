----------------------------- MODULE Reception -----------------------------
(***************************************************************************)
(* How received messages reach the bot: the radio queues them, the runner  *)
(* (runner.py) throws away at start what was queued while it was offline,  *)
(* then subscribes its handlers and lets the library fetch; the handlers   *)
(* and the senders keep the recent-message windows (message_window.py).    *)
(*                                                                         *)
(* A message is its peer: a served channel, a contact (a DM), NoContact (a *)
(* DM without a key prefix) or Elsewhere (a channel the bot does not       *)
(* serve).  A recorded message is named by its place in the history.       *)
(***************************************************************************)
EXTENDS Naturals, FiniteSets, Sequences, SequencesExt

CONSTANTS
    Channels, Contacts, NoContact, Elsewhere,
    RadioRoom,    \* bound: messages the radio can hold
    FlushCap,     \* _MAX_FLUSH_MESSAGES
    Window,       \* radio_message_window
    MaxContacts,  \* radio_message_contacts
    MaxRecorded   \* bound: messages recorded in one run

ASSUME ReceptionAssumption ==
    /\ {FlushCap, Window, MaxRecorded, RadioRoom} \subseteq Nat
    /\ MaxContacts \in Nat \ {0}
    /\ Channels \cap Contacts = {}
    /\ {NoContact, Elsewhere} \cap (Channels \cup Contacts) = {}

Peers == Channels \cup Contacts

VARIABLES
    phase,     \* "off", "flush", "live", or "stopping" (no handler subscribed)
    backlog,   \* the radio's queue: [peer, old], old: from before this run
    flushed,   \* messages thrown away at this start
    cut,       \* why the flush ended: "no", "error" or "cap"
    rings,     \* MessageWindows._channels: the ring of each served channel
    contacts,  \* MessageWindows._contacts, least recently active first: [peer, ring]
    history    \* history: the peers of the messages recorded in this run

receptionVars == <<phase, backlog, flushed, cut, rings, contacts, history>>
windowVars == <<rings, contacts, history>>

ReceptionInit ==
    /\ phase = "off"
    /\ backlog = <<>>
    /\ flushed = 0
    /\ cut = "no"
    /\ rings = [c \in Channels |-> <<>>]
    /\ contacts = <<>>
    /\ history = <<>>

-----------------------------------------------------------------------------
(* The windows. *)

\* deque(maxlen=window).append
Pushed(ring, n) == LET r == Append(ring, n) IN
                   IF Len(r) > Window THEN Tail(r) ELSE r

\* Bug: a contact is not moved to the end when it is heard again.
ContactWindowFifo(p, n) ==
    LET held == {i \in DOMAIN contacts : contacts[i].peer = p}
        more == Append(contacts, [peer |-> p, ring |-> Pushed(<<>>, n)]) IN
    IF held # {} THEN [i \in DOMAIN contacts |->
                          IF i \in held THEN [contacts[i] EXCEPT !.ring = Pushed(@, n)]
                          ELSE contacts[i]]
    ELSE IF Len(more) > MaxContacts THEN Tail(more) ELSE more

\* _contact_window and the append to it: admit, evict the least recently
\* active, move to the end.
ContactWindow(p, n) ==
    LET held == {i \in DOMAIN contacts : contacts[i].peer = p}
        at == CHOOSE i \in held : TRUE
        rest == IF held = {} THEN contacts ELSE RemoveAt(contacts, at)
        ring == IF held = {} THEN <<>> ELSE contacts[at].ring
        more == Append(rest, [peer |-> p, ring |-> Pushed(ring, n)])
    IN IF Len(more) > MaxContacts THEN Tail(more) ELSE more

\* record_rx and record_tx, through _append.
RecordMessage(p) ==
    LET n == Len(history) + 1 IN
    IF p \notin Peers \/ Window = 0 THEN UNCHANGED windowVars
    ELSE /\ n <= MaxRecorded
         /\ history' = Append(history, p)
         /\ rings' = IF p \in Channels THEN [rings EXCEPT ![p] = Pushed(@, n)]
                        ELSE rings
         /\ contacts' = IF p \in Contacts THEN ContactWindow(p, n) ELSE contacts

-----------------------------------------------------------------------------
(* The radio and the runner. *)

\* The radio hears a message, and keeps it if it has room.
Arrive(p) ==
    /\ Len(backlog) < RadioRoom
    /\ backlog' = Append(backlog, [peer |-> p, old |-> phase = "off"])
    /\ UNCHANGED <<phase, flushed, cut, windowVars>>

\* Bug: the handlers are subscribed without a flush.
StartUnflushed ==
    /\ phase = "off"
    /\ phase' = "live"
    /\ UNCHANGED <<backlog, flushed, cut, windowVars>>

\* MeshCoreRunner.start up to flush_pending_messages.
Start ==
    /\ phase = "off"
    /\ phase' = "flush"
    /\ UNCHANGED <<backlog, flushed, cut, windowVars>>

\* Bug: the loop has no cap.
FlushGetUncapped ==
    /\ phase = "flush"
    /\ backlog # <<>>
    /\ backlog' = Tail(backlog)
    /\ UNCHANGED <<phase, flushed, cut, windowVars>>

\* get_msg hands a message to no handler.
FlushGet ==
    /\ phase = "flush"
    /\ flushed < FlushCap
    /\ backlog # <<>>
    /\ backlog' = Tail(backlog)
    /\ flushed' = flushed + 1
    /\ UNCHANGED <<phase, cut, windowVars>>

\* The loop ends; start subscribes the handlers before it awaits again.
FlushEnd ==
    /\ phase = "flush"
    /\ \/ cut' = "cap" /\ flushed = FlushCap
       \/ cut' = "no" /\ flushed < FlushCap /\ backlog = <<>>
       \/ cut' = "error" /\ flushed < FlushCap
    /\ phase' = "live"
    /\ UNCHANGED <<backlog, flushed, windowVars>>

\* _observe_rx
ObserveRx(p) == RecordMessage(p)

\* The handlers: they note the message and dispatch it to the bot.
OnChannelMsg(p) == p \in Channels /\ ObserveRx(p)
OnDmMsg(p) == p \in Contacts \cup {NoContact} /\ ObserveRx(p)

\* The library fetches a message and calls its handler, if there is one.
Fetch ==
    LET p == Head(backlog).peer
        handled == phase = "live" /\ p # Elsewhere IN
    /\ phase \in {"live", "stopping"}
    /\ backlog # <<>>
    /\ backlog' = Tail(backlog)
    /\ IF handled THEN OnChannelMsg(p) \/ OnDmMsg(p) ELSE UNCHANGED windowVars
    /\ UNCHANGED <<phase, flushed, cut>>

\* A message went out (_send_with_spacing).
Sent(p) ==
    /\ phase \in {"live", "stopping"}
    /\ RecordMessage(p)
    /\ UNCHANGED <<phase, backlog, flushed, cut>>

\* stop unsubscribes, then stops the fetching.
UnsubscribeAll ==
    /\ phase = "live"
    /\ phase' = "stopping"
    /\ UNCHANGED <<backlog, flushed, cut, windowVars>>

\* The process is gone, by stop or by a crash, and its memory with it; the
\* radio keeps its queue.
Gone ==
    /\ phase # "off"
    /\ backlog' = [i \in DOMAIN backlog |-> [backlog[i] EXCEPT !.old = TRUE]]
    /\ phase' = "off" /\ flushed' = 0 /\ cut' = "no"
    /\ rings' = [c \in Channels |-> <<>>]
    /\ contacts' = <<>> /\ history' = <<>>

ReceptionNext ==
    \/ \E p \in Peers \cup {NoContact, Elsewhere} : Arrive(p)
    \/ Start \/ FlushGet \/ FlushEnd \/ Fetch \/ UnsubscribeAll \/ Gone
    \/ \E p \in Peers : Sent(p)

ReceptionSpec == ReceptionInit /\ [][ReceptionNext]_receptionVars

\* Every get_msg is answered or times out.
ReceptionFairness == WF_receptionVars(FlushGet \/ FlushEnd)

-----------------------------------------------------------------------------
(* Properties. *)

\* "a restart makes the bot answer commands sent hours ago": once the handlers
\* listen, nothing that was queued before this run is left to be handled, also
\* after a stop or a crash with messages unfetched, unless the flush was cut
\* short by an error or by its cap.
OldNotAnswered ==
    phase \in {"live", "stopping"} /\ cut = "no"
        => \A i \in DOMAIN backlog : ~backlog[i].old

\* "The cap keeps startup bounded if ... the mesh is busy enough that new
\* traffic arrives as fast as it is pulled".
StartupEnds == phase = "flush" ~> phase # "flush"

\* The places of p in the history, and the last of a set of them.
Places(p) == {n \in DOMAIN history : history[n] = p}
Latest(S, k) == {n \in S : Cardinality({x \in S : x >= n}) <= k}

\* The other contacts heard between two places of p, and since its last one.
Meanwhile(p, m, n) == {q \in Contacts \ {p} : \E z \in Places(q) : m < z /\ z < n}
Since(p) == {q \in Contacts \ {p} : \E z \in Places(q) : \A x \in Places(p) : x < z}

\* The messages of p since it last got a window: between two of them that
\* follow each other it was not pushed out.
Kept(p) ==
    {n \in Places(p) :
        \A x, y \in Places(p) :
            n <= x /\ x < y /\ (\A z \in Places(p) : z <= x \/ y <= z)
                => Cardinality(Meanwhile(p, x, y)) < MaxContacts}

\* "LRU by last activity": a channel's window is its last messages however busy
\* anything else is; the contacts that have a window are the ones most recently
\* active, in either direction, and each holds its last messages since it got
\* one.
WindowsRecent ==
    /\ \A c \in Channels : ToSet(rings[c]) = Latest(Places(c), Window)
    /\ {contacts[i].peer : i \in DOMAIN contacts}
          = {p \in Contacts : Places(p) # {} /\ Cardinality(Since(p)) < MaxContacts}
    /\ \A i \in DOMAIN contacts :
          ToSet(contacts[i].ring) = Latest(Kept(contacts[i].peer), Window)
=============================================================================
