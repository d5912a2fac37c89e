---------------------------- MODULE SessionState ----------------------------
(***************************************************************************)
(* The bot's in-memory registry of playing sessions and watchers,          *)
(* zorkbot/session_state.py.                                               *)
(*                                                                         *)
(* A SessionRecord is identified by its number: records are heap objects   *)
(* that handlers and queued fan-out coroutines keep using after the        *)
(* registry has dropped them, so `watchers' is kept for every number ever  *)
(* assigned, while `sessions', `numToPlayer' and `watching' are the three  *)
(* dictionaries.  0 and NoPlayer stand for a missing key.                  *)
(***************************************************************************)
EXTENDS Naturals, FiniteSets

CONSTANTS
    Players,      \* pubkey prefixes
    NoPlayer,     \* absent entry of _num_to_player
    MaxWatchers,  \* max_watchers_per_session
    MaxNum        \* bound: session numbers a behaviour may assign

ASSUME RegistryAssumption ==
    /\ IsFiniteSet(Players)
    /\ NoPlayer \notin Players
    /\ MaxWatchers \in Nat
    /\ MaxNum \in Nat

VARIABLES
    sessions,     \* _sessions: player -> number of its record, 0 if none
    numToPlayer,  \* _num_to_player: number -> player, NoPlayer if none
    watching,     \* _watching: player -> number watched, 0 if none
    watchers,     \* SessionRecord.watchers, by record number
    nextNum       \* _next_num

regVars == <<sessions, numToPlayer, watching, watchers, nextNum>>

None == 0
Nums == 1..MaxNum

-----------------------------------------------------------------------------
(* State queries. *)

\* get_session_by_num: the record a number leads to through the reverse index.
get_session_by_num(n) ==
    IF n \notin Nums \/ numToPlayer[n] = NoPlayer
    THEN None
    ELSE sessions[numToPlayer[n]]

active_state(p) ==
    IF sessions[p] # None THEN "playing"
    ELSE IF watching[p] # None THEN "watching"
    ELSE "none"

-----------------------------------------------------------------------------
(* Operations. *)

RegInit ==
    /\ sessions = [p \in Players |-> None]
    /\ numToPlayer = [n \in Nums |-> NoPlayer]
    /\ watching = [p \in Players |-> None]
    /\ watchers = [n \in Nums |-> {}]
    /\ nextNum = 1

\* Bug: the number is taken from the count of sessions, not from a counter.
add_sessionCounting(p) ==
    LET n == Cardinality({q \in Players : sessions[q] # None}) + 1 IN
    /\ nextNum <= MaxNum
    /\ n <= MaxNum
    /\ nextNum' = nextNum + 1
    /\ sessions' = [sessions EXCEPT ![p] = n]
    /\ numToPlayer' = [numToPlayer EXCEPT ![n] = p]
    /\ watchers' = [watchers EXCEPT ![n] = {}]
    /\ UNCHANGED watching

add_session(p) ==
    /\ nextNum <= MaxNum
    /\ nextNum' = nextNum + 1
    /\ sessions' = [sessions EXCEPT ![p] = nextNum]
    /\ numToPlayer' = [numToPlayer EXCEPT ![nextNum] = p]
    /\ watchers' = [watchers EXCEPT ![nextNum] = {}]
    /\ UNCHANGED watching

\* Bug: remove_session forgets the reverse index.
remove_sessionsKeepingIndex(S) ==
    LET gone == {sessions[p] : p \in S} \ {None} IN
    /\ sessions' = [p \in Players |-> IF p \in S THEN None ELSE sessions[p]]
    /\ watching' = [w \in Players |->
                      IF \E n \in gone : w \in watchers[n] THEN None ELSE watching[w]]
    /\ UNCHANGED <<numToPlayer, watchers, nextNum>>

\* Bug: remove_session leaves its watchers "watching".
remove_sessionsKeepingWatchers(S) ==
    LET gone == {sessions[p] : p \in S} \ {None} IN
    /\ sessions' = [p \in Players |-> IF p \in S THEN None ELSE sessions[p]]
    /\ numToPlayer' = [n \in Nums |-> IF n \in gone THEN NoPlayer ELSE numToPlayer[n]]
    /\ UNCHANGED <<watching, watchers, nextNum>>

\* remove_session, called in one event-loop turn for every player of S (one
\* player in a handler, all stale ones in the poller, everyone at shutdown).
\* The dropped record keeps its watcher set.
remove_sessions(S) ==
    LET gone == {sessions[p] : p \in S} \ {None} IN
    /\ sessions' = [p \in Players |-> IF p \in S THEN None ELSE sessions[p]]
    /\ numToPlayer' = [n \in Nums |-> IF n \in gone THEN NoPlayer ELSE numToPlayer[n]]
    /\ watching' = [w \in Players |->
                      IF \E n \in gone : w \in watchers[n] THEN None ELSE watching[w]]
    /\ UNCHANGED <<watchers, nextNum>>

\* add_watcher's two refusals.
CanAddWatcher(n) ==
    /\ get_session_by_num(n) # None
    /\ Cardinality(watchers[get_session_by_num(n)]) < MaxWatchers

add_watcher(w, n) ==
    /\ CanAddWatcher(n)
    /\ watchers' = [watchers EXCEPT ![get_session_by_num(n)] = @ \cup {w}]
    /\ watching' = [watching EXCEPT ![w] = n]
    /\ UNCHANGED <<sessions, numToPlayer, nextNum>>

remove_watcher(w) ==
    LET r == get_session_by_num(watching[w]) IN
    /\ watching' = [watching EXCEPT ![w] = None]
    /\ watchers' = IF r = None THEN watchers
                   ELSE [watchers EXCEPT ![r] = @ \ {w}]
    /\ UNCHANGED <<sessions, numToPlayer, nextNum>>

-----------------------------------------------------------------------------
(* What the registry promises to callers that keep its contract: a player   *)
(* without a session may be given one, a player without any active state    *)
(* may become a watcher.                                                    *)

RegNext ==
    \/ \E p \in Players : sessions[p] = None /\ add_session(p)
    \/ \E S \in SUBSET Players : remove_sessions(S)
    \/ \E w \in Players, n \in Nums : active_state(w) = "none" /\ add_watcher(w, n)
    \/ \E w \in Players : watching[w] # None /\ remove_watcher(w)

RegSpec == RegInit /\ [][RegNext]_regVars

-----------------------------------------------------------------------------
(* Properties. *)

RegTypeOK ==
    /\ sessions \in [Players -> Nums \cup {None}]
    /\ numToPlayer \in [Nums -> Players \cup {NoPlayer}]
    /\ watching \in [Players -> Nums \cup {None}]
    /\ watchers \in [Nums -> SUBSET Players]
    /\ nextNum \in 1..(MaxNum + 1)

\* _num_to_player is exactly the inverse of _sessions: whatever sequence of
\* starts, ends, resets and server-side removals has run, !watch N and
\* !end N reach the record of the player who owns N and no other.
IndexInverse ==
    \A p \in Players, n \in Nums : sessions[p] = n <=> numToPlayer[n] = p

\* _watching and the watcher sets of the live records describe the same
\* relation, so that nobody is stuck "watching" a session that is gone and
\* nobody keeps receiving a session they are not recorded as watching.
WatchConsistent ==
    \A w \in Players, n \in Nums :
        watching[w] = n <=> numToPlayer[n] # NoPlayer /\ w \in watchers[n]

\* max_watchers_per_session is never exceeded, for live and dropped records.
WatchersBounded == \A n \in Nums : Cardinality(watchers[n]) <= MaxWatchers

\* A player never watches their own session (the check handle_watch makes
\* after active_state; add_session and reset must not undo it).
NoSelfWatch == \A n \in Nums : numToPlayer[n] \notin watchers[n]

\* Numbers from nextNum on have never been used.
NumbersFresh ==
    \A n \in Nums : n >= nextNum => numToPlayer[n] = NoPlayer /\ watchers[n] = {}

\* "Session numbers ... are not reused within a process lifetime": once a
\* number has been assigned and dropped it never leads to a session again.
NumbersNotReused ==
    [][\A n \in Nums : n < nextNum /\ numToPlayer[n] = NoPlayer
                          => numToPlayer'[n] = NoPlayer]_regVars

\* The class's rule "Playing and watching are mutually exclusive".
PlayingXorWatching ==
    \A p \in Players : ~(sessions[p] # None /\ watching[p] # None)
=============================================================================
