----------------------------- MODULE RadioState -----------------------------
(***************************************************************************)
(* The admin console's view of the radio's channel slots: RadioState       *)
(* (radio_state.py), a cache filled by serial round trips under one lock,  *)
(* and the handlers that read and write slots through it                   *)
(* (admin/routes/radio.py).                                                *)
(*                                                                         *)
(* A slot holds a channel, a name with a key, or is Blank: nameless, under *)
(* a key that nobody knows.  The cache keeps a hash in place of the key.   *)
(* (The key of a "#" name is derived from it: one key among the others.)   *)
(* Only the holder of the lock talks to the radio, so a sweep of the slots *)
(* is one step; a write and its read-back are two, and time may pass       *)
(* between them.  Ages count up to the limit they are compared with.       *)
(***************************************************************************)
EXTENDS Naturals

CONSTANTS
    Slots, Names, Keys, Blank,
    Hash,          \* channel_hash of a key
    Served,        \* slots of the channels the bot serves
    Clients,       \* requests to the console, of any number of tabs
    NoClient,
    CacheSeconds,  \* radio_cache_seconds
    WriteGap,      \* radio_write_min_interval_seconds
    LinkFaults     \* what the serial link may do: "raise", "silent", "unread", "refuse"

ASSUME RadioAssumption ==
    /\ Blank \notin Names \cup [name : Names, key : Keys]
    /\ \A n \in Names, k \in Keys : Blank # [name |-> n, hash |-> Hash[k]]
    /\ NoClient \notin Clients
    /\ Slots # {} /\ Served \subseteq Slots
    /\ CacheSeconds \in Nat /\ WriteGap \in Nat
    /\ LinkFaults \subseteq {"raise", "silent", "unread", "refuse"}

Holdings == [name : Names, key : Keys] \cup {Blank}
Contents == [Slots -> Holdings]

\* What _sweep_channels keeps of a slot: field by field, never the key.
Shown(h) == IF h = Blank THEN Blank ELSE [name |-> h.name, hash |-> Hash[h.key]]
Views == {Shown(h) : h \in Holdings}
NameIn(h) == IF h = Blank THEN Blank ELSE h.name

ApiRequests == [op : {"get", "put", "delete"}, slot : Slots, want : Holdings, replace : BOOLEAN]
NoRequest == CHOOSE r \in ApiRequests : r.op = "get" /\ r.want = Blank /\ ~r.replace
Replies == {"none", "ok", "unavailable", "served", "occupied", "too_soon", "failed"}

VARIABLES
    device,    \* what the radio's slots hold
    cached,    \* RadioState._channels, by slot
    loaded,    \* _device: "none", or whether it reported max_channels: "bound", "unbound"
    cacheAge,  \* age of _fetched_at
    stale,     \* _stale_since is set
    writeAge,  \* age of _last_write_at
    lock,      \* who is between a write and its read-back
    await,     \* the await each request is at
    req,       \* what it asks for
    answer,    \* how the last step answered it
    blind,     \* history: slots the last sweep did not get to read
    excused    \* history: requests whose look at their slot does not count
               \* any more, or never did

radioVars == <<device, cached, loaded, cacheAge, stale, writeAge, lock, await, req, answer,
               blind, excused>>
cacheVars == <<cached, loaded, cacheAge, stale, blind>>

\* What a request can be: only an add names a channel and can replace one.
Askable(r) == /\ r.op = "put" <=> r.want # Blank
              /\ r.replace => r.op = "put"
              /\ r.op = "get" => r = NoRequest

Unanswered == [c \in Clients |-> "none"]

RadioInit ==
    /\ device \in Contents
    /\ cached = [i \in Slots |-> Blank]
    /\ loaded = "none"
    /\ cacheAge = 0
    /\ stale = FALSE
    /\ writeAge = WriteGap
    /\ lock = NoClient
    /\ await = [c \in Clients |-> "idle"]
    /\ req = [c \in Clients |-> NoRequest]
    /\ answer = Unanswered
    /\ blind = {}
    /\ excused = {}

-----------------------------------------------------------------------------
(* The cache. *)

Fresh == loaded # "none" /\ cacheAge < CacheSeconds

\* A sweep that ends: slots it could not read look unconfigured, and so do all
\* when the device query came back without max_channels.
Swept(U, l) ==
    /\ cached' = [i \in Slots |-> IF i \in U THEN Blank ELSE Shown(device[i])]
    /\ blind' = U
    /\ loaded' = l
    /\ cacheAge' = 0
    /\ stale' = FALSE

\* Bug: a sweep that raised leaves no mark.
SweepRaisedQuietly == "raise" \in LinkFaults /\ UNCHANGED <<cached, loaded, cacheAge, stale, blind>>

\* Stale-on-error: the last values are served.
SweepRaised ==
    /\ "raise" \in LinkFaults
    /\ stale' = TRUE
    /\ UNCHANGED <<cached, loaded, cacheAge, blind>>

\* _refresh_locked past its test.
Sweep ==
    \/ Swept({}, "bound")
    \/ "unread" \in LinkFaults /\ \E U \in SUBSET Slots : Swept(U, "bound")
    \/ "silent" \in LinkFaults /\ Swept(Slots, "unbound")

\* refresh: single flight, under the lock.
Refresh ==
    /\ lock = NoClient
    /\ IF Fresh THEN UNCHANGED cacheVars ELSE Sweep \/ SweepRaised

-----------------------------------------------------------------------------
(* The handlers. *)

Await(c, l) == await' = [await EXCEPT ![c] = l] /\ answer' = Unanswered /\ UNCHANGED req

Reply(c, a) ==
    /\ await' = [await EXCEPT ![c] = "idle"]
    /\ req' = [req EXCEPT ![c] = NoRequest]
    /\ answer' = [Unanswered EXCEPT ![c] = a]

Submit(c, r) ==
    /\ await[c] = "idle"
    /\ Askable(r)
    /\ req' = [req EXCEPT ![c] = r]
    /\ excused' = excused \ {c}
    /\ await' = [await EXCEPT ![c] = "bound"]
    /\ answer' = Unanswered
    /\ UNCHANGED <<device, cacheVars, writeAge, lock>>

\* snapshot, or the first half of _writable_slot: max_channels, then the role.
AskBound(c) ==
    /\ await[c] = "bound"
    /\ Refresh
    /\ IF req[c].op = "get" THEN Reply(c, "ok")
       ELSE IF loaded' # "bound" THEN Reply(c, "unavailable")
       ELSE IF req[c].slot \in Served THEN Reply(c, "served")
       ELSE Await(c, "list")
    /\ UNCHANGED <<device, writeAge, lock, excused>>

\* Bug: an add does not look whether the slot is taken.
AskListUnchecked(c) ==
    /\ await[c] = "list"
    /\ Refresh
    /\ excused' = IF stale' \/ req[c].slot \in blind' THEN excused \cup {c} ELSE excused
    /\ Await(c, "write")
    /\ UNCHANGED <<device, writeAge, lock>>

\* The second half, and what the handler makes of it.
AskList(c) ==
    LET i == req[c].slot IN
    /\ await[c] = "list"
    /\ Refresh
    /\ excused' = IF stale' \/ i \in blind' THEN excused \cup {c} ELSE excused
    /\ IF req[c].op = "put" /\ cached'[i] # Blank /\ ~req[c].replace THEN Reply(c, "occupied")
       ELSE IF req[c].op = "delete" /\ cached'[i] = Blank THEN Reply(c, "ok")
       ELSE Await(c, "write")
    /\ UNCHANGED <<device, writeAge, lock>>

\* _write_channel up to the end of the command: the interval counts from here,
\* and the write may land or not whatever the link says.
WriteBegin(c) ==
    LET i == req[c].slot IN
    /\ await[c] = "write"
    /\ lock = NoClient
    /\ IF writeAge < WriteGap
       THEN Reply(c, "too_soon") /\ UNCHANGED <<device, writeAge, lock, excused>>
       ELSE /\ lock' = c
            /\ writeAge' = 0
            /\ \/ device' = [device EXCEPT ![i] = req[c].want]
               \/ "refuse" \in LinkFaults /\ UNCHANGED device
            /\ excused' = excused \cup {d \in Clients \ {c} : req[d].slot = i}
            /\ Await(c, "verify")
    /\ UNCHANGED cacheVars

\* Bug: the acknowledgement is believed and nothing is read back.
WriteEndUnread(c) ==
    /\ await[c] = "verify"
    /\ lock' = NoClient
    /\ Reply(c, "ok")
    /\ UNCHANGED <<device, cacheVars, writeAge, excused>>

\* The read-back, forced, with the lock still held: names are compared.
WriteEnd(c) ==
    LET got == NameIn(cached'[req[c].slot]) IN
    /\ await[c] = "verify"
    /\ lock' = NoClient
    /\ \/ Sweep /\ Reply(c, IF got = NameIn(req[c].want) THEN "ok" ELSE "failed")
       \/ SweepRaised /\ Reply(c, "failed")
    /\ UNCHANGED <<device, writeAge, excused>>

RadioTick ==
    /\ cacheAge' = IF cacheAge < CacheSeconds THEN cacheAge + 1 ELSE cacheAge
    /\ writeAge' = IF writeAge < WriteGap THEN writeAge + 1 ELSE writeAge
    /\ answer' = Unanswered
    /\ UNCHANGED <<device, cached, loaded, stale, lock, await, req, blind, excused>>

RadioNext ==
    \/ \E c \in Clients : \/ \E r \in ApiRequests : Submit(c, r)
                          \/ AskBound(c) \/ AskList(c) \/ WriteBegin(c) \/ WriteEnd(c)
    \/ RadioTick

RadioSpec == RadioInit /\ [][RadioNext]_radioVars

-----------------------------------------------------------------------------
(* Properties. *)

RadioTypeOK ==
    /\ device \in Contents /\ cached \in [Slots -> Views]
    /\ loaded \in {"none", "bound", "unbound"}
    /\ cacheAge \in 0..CacheSeconds /\ writeAge \in 0..WriteGap
    /\ stale \in BOOLEAN
    /\ lock \in Clients \cup {NoClient}
    /\ await \in [Clients -> {"idle", "bound", "list", "write", "verify"}]
    /\ req \in [Clients -> ApiRequests]
    /\ answer \in [Clients -> Replies]
    /\ blind \subseteq Slots /\ excused \subseteq Clients

\* "The re-sweep also leaves the cache correct, rather than stale for up to
\* cache_seconds after every change": outside a write, a cache that is not
\* reported stale is what the radio holds, name and hash of the key, in every
\* slot the sweep could read.
CacheIsTrue ==
    lock = NoClient /\ loaded # "none" /\ ~stale
        => \A i \in Slots \ blind : cached[i] = Shown(device[i])

\* What a write's success says, also when the acknowledgement was lost: an add
\* of a channel to a slot that it found blank is on the radio, with its name and
\* its key.  Of a replacement, or of an add whose look does not count, it says
\* that the radio has a channel of that name there, under this key or another
\* (RejectionReadsAsFailure); and of a clear, that the slot is blank unless the
\* read-back missed it.
OkIsRadios ==
    [][\A c \in Clients : await[c] = "verify" /\ answer'[c] = "ok" =>
          LET h == device[req[c].slot] IN
          \/ h = req[c].want
          \/ (req[c].replace \/ c \in excused) /\ NameIn(h) = NameIn(req[c].want)
          \/ req[c].op = "delete" /\ req[c].slot \in blind']_radioVars

\* An add without replace that is about to write finds the slot blank.  Three
\* ways to clobber a channel are left, which the code does not close: the look
\* was at a slot the sweep could not read, or at a cache that was reported
\* stale, or another console wrote the slot after the look.
AddFindsBlank ==
    \A c \in Clients :
        await[c] = "write" /\ req[c].op = "put" /\ ~req[c].replace /\ c \notin excused
            => device[req[c].slot] = Blank

\* The console never changes a slot of the bot's own channels.
ServedUntouched == [][\A i \in Served : device'[i] = device[i]]_radioVars

-----------------------------------------------------------------------------
(* What the repository's text says and the code does not keep. *)

\* "a device rejection reads as failure" (docs/specs/admin-radio-edit.md): a
\* write is reported as done only if the slot then holds what was asked for.
\* The read-back compares names, so a new key that the radio refused for a
\* channel of the same name is reported as set.
RejectionReadsAsFailure ==
    [][\A c \in Clients : await[c] = "verify" /\ answer'[c] = "ok"
          => device[req[c].slot] = req[c].want]_radioVars
=============================================================================
