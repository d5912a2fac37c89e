-------------------------- MODULE RadioState_proofs --------------------------
(***************************************************************************)
(* Proofs about the console's view of the radio, for any slots, names and  *)
(* requests, and any faults of the serial link.                            *)
(***************************************************************************)
EXTENDS RadioState, TLAPS

Writing == {"list", "write", "verify"}

\* Only the request that is between its write and its read-back has the lock.
LockOwned == \A c \in Clients : await[c] = "verify" <=> lock = c

\* What a request has been let through with.
RequestsVetted ==
    \A c \in Clients :
        /\ await[c] # "idle" => Askable(req[c]) /\ answer[c] = "none"
        /\ await[c] \in Writing => /\ req[c].op # "get"
                                /\ req[c].slot \notin Served
                                /\ loaded # "none"

\* An add that was let through has been written, or the slot is still blank.
AddLanded ==
    \A c \in Clients :
        await[c] = "verify" /\ req[c].op = "put" /\ ~req[c].replace /\ c \notin excused
            => device[req[c].slot] \in {Blank, req[c].want}

\* The inductive invariant.  An add is written on what the cache showed a step
\* earlier, so AddFindsBlank needs CacheIsTrue, and both need to know who holds
\* the lock and that a request past its first test has seen a cache.
RadioInv == RadioTypeOK /\ LockOwned /\ RequestsVetted /\ CacheIsTrue /\ AddFindsBlank /\ AddLanded

-----------------------------------------------------------------------------

\* The request that is no request exists: it asks for nothing.
LEMMA NoRequestFact ==
    NoRequest \in ApiRequests /\ NoRequest.op = "get" /\ Askable(NoRequest)
<1>1. PICK i \in Slots : TRUE
  BY RadioAssumption
<1>2. [op |-> "get", slot |-> i, want |-> Blank, replace |-> FALSE] \in ApiRequests
  BY DEF ApiRequests, Holdings
<1>3. \E r \in ApiRequests : r.op = "get" /\ r.want = Blank /\ ~r.replace
  BY <1>2
<1>. QED
  BY <1>3 DEF NoRequest, Askable

\* A blank slot is shown as one, and only a blank slot is.
LEMMA BlankViewed ==
    /\ Blank \in Views
    /\ \A h \in Holdings : Shown(h) = Blank <=> h = Blank
    /\ \A h \in Holdings : NameIn(Shown(h)) = NameIn(h)
    /\ \A h \in Holdings : NameIn(h) = Blank <=> h = Blank
BY RadioAssumption DEF Views, Holdings, Shown, NameIn

\* What a finished sweep, and one that raised, leave behind: the cache has its
\* type, was loaded, and is true where the sweep could read.
LEMMA SweepFacts ==
    ASSUME RadioTypeOK, Sweep \/ SweepRaised
    PROVE  /\ cached' \in [Slots -> Views] /\ loaded' \in {"none", "bound", "unbound"}
           /\ cacheAge' \in 0..CacheSeconds /\ stale' \in BOOLEAN /\ blind' \subseteq Slots
           /\ loaded # "none" => loaded' # "none"
           /\ Sweep => loaded' # "none" /\ \A i \in Slots \ blind' : cached'[i] = Shown(device[i])
           /\ Sweep => \A i \in blind' : cached'[i] = Blank
           /\ ~stale' => Sweep
<1>1. CASE Sweep
  <2>1. PICK U \in SUBSET Slots, l \in {"bound", "unbound"} : Swept(U, l)
    BY <1>1 DEF Sweep
  <2>2. 0 \in 0..CacheSeconds
    BY RadioAssumption
  <2>3. cached' \in [Slots -> Views]
    <3>1. \A i \in Slots : Shown(device[i]) \in Views
      BY DEF RadioTypeOK, Contents, Views
    <3>. QED
      BY <2>1, <3>1, BlankViewed DEF Swept
  <2>. QED
    BY <1>1, <2>1, <2>2, <2>3 DEF Swept, RadioTypeOK
<1>2. CASE SweepRaised /\ ~Sweep
  BY <1>2 DEF SweepRaised, RadioTypeOK
<1>. QED
  BY <1>1, <1>2

\* A refresh keeps the cache's type, and what it was true of.
LEMMA RefreshFacts ==
    ASSUME RadioTypeOK, CacheIsTrue, Refresh, UNCHANGED device
    PROVE  /\ cached' \in [Slots -> Views] /\ loaded' \in {"none", "bound", "unbound"}
           /\ cacheAge' \in 0..CacheSeconds /\ stale' \in BOOLEAN /\ blind' \subseteq Slots
           /\ loaded # "none" => loaded' # "none"
           /\ lock = NoClient
           /\ loaded' # "none" /\ ~stale' => \A i \in Slots \ blind' : cached'[i] = Shown(device'[i])
<1>1. CASE Fresh
  BY <1>1 DEF Refresh, RadioTypeOK, CacheIsTrue, cacheVars
<1>2. CASE ~Fresh
  BY <1>2, SweepFacts DEF Refresh
<1>. QED
  BY <1>1, <1>2

-----------------------------------------------------------------------------
(* The inductive step, one lemma per action. *)

\* The radio starts before anything was read or written.
LEMMA RadioInitInv == RadioInit => RadioInv
<1>. SUFFICES ASSUME RadioInit PROVE RadioInv
  OBVIOUS
<1>1. RadioTypeOK
  <2>1. device \in Contents /\ cached \in [Slots -> Views]
    BY BlankViewed DEF RadioInit
  <2>2. req \in [Clients -> ApiRequests]
    BY NoRequestFact DEF RadioInit
  <2>3. answer \in [Clients -> Replies]
    BY DEF RadioInit, Replies, Unanswered
  <2>4. cacheAge \in 0..CacheSeconds /\ writeAge \in 0..WriteGap
    BY RadioAssumption DEF RadioInit
  <2>5. stale \in BOOLEAN
    BY DEF RadioInit
  <2>. QED
    BY <2>1, <2>2, <2>3, <2>4, <2>5 DEF RadioInit, RadioTypeOK
<1>2. LockOwned
  BY RadioAssumption DEF RadioInit, LockOwned
<1>3. RequestsVetted /\ AddFindsBlank /\ AddLanded
  BY DEF RadioInit, RequestsVetted, Writing, AddFindsBlank, AddLanded
<1>4. CacheIsTrue
  BY DEF RadioInit, CacheIsTrue
<1>. QED
  BY <1>1, <1>2, <1>3, <1>4 DEF RadioInv

\* A request comes in.
LEMMA SubmitInv ==
    ASSUME RadioInv, NEW c \in Clients, NEW r \in ApiRequests, Submit(c, r)
    PROVE  RadioInv'
<1>1. RadioTypeOK'
  BY DEF RadioInv, RadioTypeOK, Submit, cacheVars, Replies, Unanswered
<1>2. LockOwned'
  BY DEF RadioInv, RadioTypeOK, LockOwned, Submit
<1>3. RequestsVetted'
  BY DEF RadioInv, RadioTypeOK, RequestsVetted, Writing, Submit, cacheVars, Unanswered
<1>4. CacheIsTrue'
  BY DEF RadioInv, CacheIsTrue, Submit, cacheVars
<1>5. AddFindsBlank' /\ AddLanded'
  BY DEF RadioInv, RadioTypeOK, AddFindsBlank, AddLanded, Submit
<1>. QED
  BY <1>1, <1>2, <1>3, <1>4, <1>5 DEF RadioInv

\* The first await: max_channels and the slot's role.
LEMMA AskBoundInv ==
    ASSUME RadioInv, NEW c \in Clients, AskBound(c)
    PROVE  RadioInv'
<1>. USE DEF RadioInv
<1>1. Refresh /\ UNCHANGED <<device, writeAge, lock, excused>> /\ await[c] = "bound"
  BY DEF AskBound
<1>2. \/ Await(c, "list") /\ loaded' = "bound" /\ req[c].slot \notin Served /\ req[c].op # "get"
      \/ \E a \in Replies : Reply(c, a)
  BY DEF AskBound, Replies
<1>3. RadioTypeOK'
  BY <1>1, <1>2, RefreshFacts, NoRequestFact DEF RadioTypeOK, Await, Reply, Unanswered, Replies
<1>4. LockOwned'
  BY <1>1, <1>2 DEF RadioTypeOK, LockOwned, Await, Reply, Unanswered
<1>5. RequestsVetted'
  BY <1>1, <1>2, RefreshFacts DEF RadioTypeOK, RequestsVetted, Writing, Await, Reply, Unanswered
<1>6. CacheIsTrue'
  BY <1>1, RefreshFacts DEF CacheIsTrue
<1>7. AddFindsBlank' /\ AddLanded'
  BY <1>1, <1>2 DEF RadioTypeOK, AddFindsBlank, AddLanded, Await, Reply
<1>. QED
  BY <1>3, <1>4, <1>5, <1>6, <1>7

\* The second await: what the slot holds.
LEMMA AskListInv ==
    ASSUME RadioInv, NEW c \in Clients, AskList(c)
    PROVE  RadioInv'
<1>. DEFINE i == req[c].slot
<1>1. Refresh /\ UNCHANGED <<device, writeAge, lock>> /\ await[c] = "list"
  BY DEF AskList
<1>2. \/ Await(c, "write") /\ ~(req[c].op = "put" /\ cached'[i] # Blank /\ ~req[c].replace)
      \/ \E a \in Replies : Reply(c, a)
  BY DEF AskList, Replies
<1>3. /\ excused' = excused \/ excused' = excused \cup {c}
      /\ c \notin excused' => ~stale' /\ i \notin blind'
  BY DEF AskList
<1>4. RadioTypeOK'
  BY <1>1, <1>2, <1>3, RefreshFacts, NoRequestFact
     DEF RadioInv, RadioTypeOK, Await, Reply, Unanswered, Replies
<1>5. LockOwned'
  BY <1>1, <1>2 DEF RadioInv, RadioTypeOK, LockOwned, Await, Reply, Unanswered
<1>6. RequestsVetted'
  BY <1>1, <1>2, RefreshFacts
     DEF RadioInv, RadioTypeOK, RequestsVetted, Writing, Await, Reply, Unanswered
<1>7. CacheIsTrue'
  BY <1>1, RefreshFacts DEF RadioInv, CacheIsTrue
<1>8. AddFindsBlank'
  <2>. SUFFICES ASSUME NEW d \in Clients, await'[d] = "write", req'[d].op = "put",
                       ~req'[d].replace, d \notin excused'
                PROVE  device'[req'[d].slot] = Blank
    BY DEF AddFindsBlank
  <2>1. CASE d = c
    <3>1. Await(c, "write") /\ req' = req /\ cached'[i] = Blank
      BY <1>1, <1>2, <2>1 DEF RadioInv, RadioTypeOK, Await, Reply, Unanswered
    <3>2. i \in Slots /\ loaded' # "none"
      BY <1>1, RefreshFacts DEF RadioInv, RadioTypeOK, ApiRequests, RequestsVetted, Writing
    <3>3. cached'[i] = Shown(device'[i])
      BY <1>1, <1>3, <2>1, <3>2, RefreshFacts DEF RadioInv
    <3>. QED
      BY <2>1, <3>1, <3>2, <3>3, <1>1, BlankViewed DEF RadioInv, RadioTypeOK, Contents
  <2>2. CASE d # c
    BY <1>1, <1>2, <1>3, <2>2 DEF RadioInv, RadioTypeOK, AddFindsBlank, Await, Reply, Unanswered
  <2>. QED
    BY <2>1, <2>2
<1>9. AddLanded'
  BY <1>1, <1>2, <1>3 DEF RadioInv, RadioTypeOK, AddLanded, Await, Reply
<1>. QED
  BY <1>4, <1>5, <1>6, <1>7, <1>8, <1>9 DEF RadioInv

\* A write, or its refusal because it comes too soon.
LEMMA WriteBeginInv ==
    ASSUME RadioInv, NEW c \in Clients, WriteBegin(c)
    PROVE  RadioInv'
<1>. USE DEF RadioInv
<1>0. c # NoClient /\ await[c] = "write" /\ lock = NoClient /\ UNCHANGED cacheVars
  BY RadioAssumption DEF WriteBegin
<1>1. CASE Reply(c, "too_soon") /\ UNCHANGED <<device, writeAge, lock, excused>>
  <2>1. RadioTypeOK'
    BY <1>0, <1>1, NoRequestFact DEF RadioTypeOK, Reply, Unanswered, cacheVars, Replies
  <2>2. LockOwned' /\ RequestsVetted' /\ CacheIsTrue' /\ AddFindsBlank' /\ AddLanded'
    BY <1>0, <1>1
       DEF RadioTypeOK, LockOwned, RequestsVetted, Writing, CacheIsTrue, AddFindsBlank,
           AddLanded, Reply, Unanswered, cacheVars
  <2>. QED
    BY <2>1, <2>2
<1>2. CASE /\ lock' = c /\ writeAge' = 0 /\ Await(c, "verify")
           /\ device' = [device EXCEPT ![req[c].slot] = req[c].want] \/ UNCHANGED device
           /\ excused' = excused \cup {d \in Clients \ {c} : req[d].slot = req[c].slot}
  <2>1. device' \in Contents
    BY <1>2 DEF RadioTypeOK, ApiRequests, Contents
  <2>2. RadioTypeOK'
    BY <1>0, <1>2, <2>1, RadioAssumption DEF RadioTypeOK, Await, Unanswered, Replies, cacheVars
  <2>3. LockOwned'
    BY <1>0, <1>2, RadioAssumption DEF RadioTypeOK, LockOwned, Await
  <2>4. RequestsVetted'
    BY <1>0, <1>2 DEF RadioTypeOK, RequestsVetted, Writing, Await, Unanswered, cacheVars
  <2>5. CacheIsTrue'
    BY <1>0, <1>2 DEF CacheIsTrue
  <2>6. AddFindsBlank'
    BY <1>0, <1>2 DEF RadioTypeOK, Contents, ApiRequests, AddFindsBlank, Await
  <2>7. AddLanded'
    <3>. SUFFICES ASSUME NEW d \in Clients, await'[d] = "verify", req'[d].op = "put",
                         ~req'[d].replace, d \notin excused'
                  PROVE  device'[req'[d].slot] \in {Blank, req'[d].want}
      BY DEF AddLanded
    <3>1. d = c
      BY <1>0, <1>2, RadioAssumption DEF RadioTypeOK, LockOwned, Await
    <3>2. req' = req /\ c \notin excused /\ device[req[c].slot] = Blank /\ req[c].slot \in Slots
      BY <1>0, <1>2, <3>1 DEF AddFindsBlank, Await, RadioTypeOK, ApiRequests
    <3>. QED
      BY <1>2, <3>1, <3>2 DEF RadioTypeOK, Contents
  <2>. QED
    BY <2>2, <2>3, <2>4, <2>5, <2>6, <2>7
<1>. QED
  BY <1>1, <1>2 DEF WriteBegin

\* The read-back.
LEMMA WriteEndInv ==
    ASSUME RadioInv, NEW c \in Clients, WriteEnd(c)
    PROVE  RadioInv'
<1>. USE DEF RadioInv
<1>1. /\ Sweep \/ SweepRaised
      /\ \E a \in Replies : Reply(c, a)
      /\ await[c] = "verify" /\ lock' = NoClient /\ UNCHANGED <<device, writeAge, excused>>
  BY DEF WriteEnd, Replies
<1>2. c # NoClient /\ lock = c
  BY <1>1, RadioAssumption DEF LockOwned
<1>3. RadioTypeOK'
  BY <1>1, SweepFacts, NoRequestFact DEF RadioTypeOK, Reply, Unanswered, Replies
<1>4. LockOwned'
  BY <1>1, <1>2, RadioAssumption DEF RadioTypeOK, LockOwned, Reply
<1>5. RequestsVetted'
  BY <1>1, SweepFacts DEF RadioTypeOK, RequestsVetted, Writing, Reply, Unanswered
<1>6. CacheIsTrue'
  BY <1>1, SweepFacts DEF CacheIsTrue
<1>7. AddFindsBlank' /\ AddLanded'
  BY <1>1 DEF RadioTypeOK, AddFindsBlank, AddLanded, Reply
<1>. QED
  BY <1>3, <1>4, <1>5, <1>6, <1>7

\* Time passes.
LEMMA RadioTickInv == RadioInv /\ RadioTick => RadioInv'
<1>. SUFFICES ASSUME RadioInv, RadioTick PROVE RadioInv'
  OBVIOUS
<1>1. RadioTypeOK'
  BY RadioAssumption DEF RadioInv, RadioTypeOK, RadioTick, Unanswered, Replies
<1>. QED
  BY <1>1 DEF RadioInv, LockOwned, RequestsVetted, CacheIsTrue, AddFindsBlank, AddLanded,
              RadioTick, Unanswered

\* Every step of the radio's view keeps the invariant.
LEMMA RadioNextInv == RadioInv /\ [RadioNext]_radioVars => RadioInv'
<1>. SUFFICES ASSUME RadioInv, [RadioNext]_radioVars PROVE RadioInv'
  OBVIOUS
<1>1. CASE UNCHANGED radioVars
  BY <1>1 DEF RadioInv, RadioTypeOK, LockOwned, RequestsVetted, CacheIsTrue, AddFindsBlank,
              AddLanded, radioVars
<1>2. CASE RadioNext
  BY <1>2, SubmitInv, AskBoundInv, AskListInv, WriteBeginInv, WriteEndInv, RadioTickInv
     DEF RadioNext
<1>. QED
  BY <1>1, <1>2

-----------------------------------------------------------------------------
(* The theorems. *)

\* The invariant holds whatever the consoles ask and the serial link does.
THEOREM RadioInvariant == RadioSpec => []RadioInv
<1>. QED
  BY RadioInitInv, RadioNextInv, PTL DEF RadioSpec

\* Outside a write, a cache that is not reported stale shows what the radio
\* holds (radio_state.py, _refresh_locked and _write_channel).
THEOREM RadioCacheIsTrue == RadioSpec => []CacheIsTrue
<1>1. RadioInv => CacheIsTrue
  BY DEF RadioInv
<1>. QED
  BY <1>1, RadioInvariant, PTL

\* An add without replace writes on a slot that was, and is, blank, but for the
\* excuses that the property names (routes/radio.py, put_channel).
THEOREM RadioAddFindsBlank == RadioSpec => []AddFindsBlank
<1>1. RadioInv => AddFindsBlank
  BY DEF RadioInv
<1>. QED
  BY <1>1, RadioInvariant, PTL

\* What success of a write says (_write_channel's read-back): the channel is on
\* the radio with name and key, for an add that found its slot blank; a channel
\* of that name is, for the others; and a clear has cleared the slot or could
\* not read it.
THEOREM RadioOkIsRadios == RadioSpec => OkIsRadios
<1>1. RadioInv /\ [RadioNext]_radioVars =>
        [\A c \in Clients : await[c] = "verify" /\ answer'[c] = "ok" =>
            LET h == device[req[c].slot] IN
            \/ h = req[c].want
            \/ (req[c].replace \/ c \in excused) /\ NameIn(h) = NameIn(req[c].want)
            \/ req[c].op = "delete" /\ req[c].slot \in blind']_radioVars
  <2>. SUFFICES ASSUME RadioInv, RadioNext, NEW c \in Clients,
                       await[c] = "verify", answer'[c] = "ok",
                       device[req[c].slot] # req[c].want,
                       ~(req[c].op = "delete" /\ req[c].slot \in blind')
                PROVE  /\ req[c].replace \/ c \in excused
                       /\ NameIn(device[req[c].slot]) = NameIn(req[c].want)
    BY DEF radioVars
  <2>1. /\ answer[c] = "none" /\ Askable(req[c]) /\ req[c].op # "get"
        /\ req[c].slot \in Slots /\ req[c].want \in Holdings
        /\ req[c].op \in {"get", "put", "delete"} /\ device[req[c].slot] \in Holdings
    BY DEF RadioInv, RequestsVetted, Writing, RadioTypeOK, ApiRequests, Contents
  <2>2. WriteEnd(c)
    BY <2>1 DEF RadioNext, RadioInv, RadioTypeOK, Submit, AskBound, AskList, WriteBegin,
                WriteEnd, Await, Reply, Unanswered, RadioTick
  <2>3. Sweep /\ NameIn(cached'[req[c].slot]) = NameIn(req[c].want)
    BY <2>2 DEF WriteEnd, Reply, Unanswered, RadioInv, RadioTypeOK
  <2>4. req[c].slot \notin blind'
    <3>1. CASE req[c].op = "put" /\ req[c].slot \in blind'
      <4>1. cached'[req[c].slot] = Blank
        BY <2>3, <3>1, SweepFacts DEF RadioInv
      <4>2. NameIn(req[c].want) # Blank
        BY <2>1, <3>1, BlankViewed DEF Askable
      <4>. QED
        BY <2>3, <4>1, <4>2 DEF NameIn
    <3>. QED
      BY <2>1, <3>1
  <2>5. NameIn(device[req[c].slot]) = NameIn(req[c].want)
    BY <2>1, <2>3, <2>4, SweepFacts, BlankViewed DEF RadioInv
  <2>6. req[c].replace \/ c \in excused
    <3>1. SUFFICES ASSUME ~req[c].replace, c \notin excused PROVE FALSE
      OBVIOUS
    <3>2. req[c].op = "put"
      BY <2>1, <2>5, BlankViewed DEF Askable
    <3>3. device[req[c].slot] = Blank
      BY <3>1, <3>2 DEF RadioInv, AddLanded
    <3>. QED
      BY <2>1, <2>5, <3>2, <3>3, BlankViewed DEF Askable
  <2>. QED
    BY <2>5, <2>6
<1>. QED
  BY <1>1, RadioInvariant, PTL DEF RadioSpec, OkIsRadios

\* The console never changes a slot of the bot's own channels: _writable_slot
\* answers with a conflict first (routes/radio.py).
THEOREM RadioServedUntouched == RadioSpec => ServedUntouched
<1>1. RadioInv /\ [RadioNext]_radioVars =>
        [\A i \in Served : device'[i] = device[i]]_radioVars
  <2>. SUFFICES ASSUME RadioInv, RadioNext, NEW i \in Served
                PROVE  device'[i] = device[i]
    BY DEF radioVars
  <2>1. CASE \E c \in Clients : WriteBegin(c)
    <3>1. PICK c \in Clients : WriteBegin(c)
      BY <2>1
    <3>2. req[c].slot # i /\ i \in Slots
      BY <3>1, RadioAssumption DEF WriteBegin, RadioInv, RequestsVetted, Writing
    <3>. QED
      BY <3>1, <3>2 DEF WriteBegin, RadioInv, RadioTypeOK, Contents
  <2>2. CASE ~\E c \in Clients : WriteBegin(c)
    BY <2>2 DEF RadioNext, Submit, AskBound, AskList, WriteEnd, RadioTick
  <2>. QED
    BY <2>1, <2>2
<1>. QED
  BY <1>1, RadioInvariant, PTL DEF RadioSpec, ServedUntouched
=============================================================================
