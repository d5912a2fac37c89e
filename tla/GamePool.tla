------------------------------ MODULE GamePool ------------------------------
(***************************************************************************)
(* The game service's session pool, game/internal/pty (pool.go and the     *)
(* Manager of session.go), with its goroutines: HTTP requests and the      *)
(* idle-start and inactivity timers.                                       *)
(*                                                                         *)
(* An action is one critical section, or one slow call made unlocked; a    *)
(* restart, which bootstraps under Manager.mu, is one section.  Pool.mu is *)
(* never held across a slow call.  A pool entry is identified              *)
(* with its Manager, which also stands for its session number: both are    *)
(* made once and never reused.  A game position is the number of moves     *)
(* made since a fresh start; the save file holds one, 0 is no file.        *)
(***************************************************************************)
EXTENDS Naturals, FiniteSets

CONSTANTS
    Players,
    NoPlayer,    \* for a goroutine that serves nobody
    Requests,    \* goroutines of HTTP requests
    MaxActive,   \* MaxActiveSessions
    GiveUp,      \* whether the bot's HTTP client may give up a request (60 s)
                 \* that its goroutine goes on serving (90 s and more)
    MaxMgr,      \* bound: managers a behaviour may create
    MaxMoves     \* bound: moves in one game

ASSUME PoolAssumption ==
    /\ GiveUp \in BOOLEAN
    /\ MaxActive \in Nat \ {0} /\ MaxMgr \in Nat /\ MaxMoves \in Nat
    /\ IsFiniteSet(Players) /\ NoPlayer \notin Players
    /\ Requests \cap (1..MaxMgr) = {}

NoMgr == 0
Mgrs == 1..MaxMgr

\* The timer goroutine of a manager carries the manager's name.
Threads == Requests \cup Mgrs

VARIABLES
    entries,   \* Pool.entries: player -> manager, NoMgr if none
    nextMgr,   \* the next manager to be made
    proc,      \* Manager.session: "none", "live", or "dead", its process gone
    moves,     \* position of that game
    busy,      \* Manager.busy
    timer,     \* whether the entry's current timer is armed
    dir,       \* whether the player's save directory exists
    save,      \* position in the save file, 0 if none
    at,        \* where each goroutine is
    op,        \* what it is doing: "start", "command", "end", "auto", "reset"
    player,    \* ... for whom
    mgr,       \* ... with which manager
    closed,    \* history: managers that Manager.Close has been called on
    disturbed  \* history: a player's requests have overlapped, or a restart has
               \* made a save directory anew

poolVars == <<entries, nextMgr, timer>>
mgrVars == <<proc, moves, busy, closed>>
diskVars == <<dir, save>>
threadVars == <<at, op, player, mgr>>
vars == <<poolVars, mgrVars, diskVars, threadVars, disturbed>>

Ops == {"none", "start", "command", "end", "auto", "reset"}
Locations == {"idle", "check", "open", "insert", "lookup", "enter", "run",
              "stale", "restart", "leave", "expire", "drop", "close", "discard", "wipe"}

\* Where a goroutine uses the manager it holds.
Using == {"insert", "enter", "run", "stale", "restart", "leave", "close", "discard"}

Init ==
    /\ entries = [p \in Players |-> NoMgr]
    /\ nextMgr = 1
    /\ proc = [m \in Mgrs |-> "none"]
    /\ moves = [m \in Mgrs |-> 0]
    /\ busy = [m \in Mgrs |-> FALSE]
    /\ timer = [m \in Mgrs |-> FALSE]
    /\ dir = [p \in Players |-> FALSE]
    /\ save = [p \in Players |-> 0]
    /\ at = [t \in Threads |-> "idle"]
    /\ op = [t \in Threads |-> "none"]
    /\ player = [t \in Threads |-> NoPlayer]
    /\ mgr = [t \in Threads |-> NoMgr]
    /\ closed = {}
    /\ disturbed = FALSE

Active == {p \in Players : entries[p] # NoMgr}

Goto(t, l) == at' = [at EXCEPT ![t] = l]

Return(t) ==
    /\ Goto(t, "idle")
    /\ op' = [op EXCEPT ![t] = "none"]
    /\ player' = [player EXCEPT ![t] = NoPlayer]
    /\ mgr' = [mgr EXCEPT ![t] = NoMgr]

Local == UNCHANGED <<op, player, mgr>>

-----------------------------------------------------------------------------
(* Requests.  The bot has one worker per player, so a player's own start,   *)
(* command and reset requests come one at a time, unless its client gave up *)
(* the one before; an end may also come from an admin's worker, beside any. *)

OwnRequests(p) == {t \in Requests : at[t] # "idle" /\ player[t] = p /\ op[t] # "end"}

\* Bound: no start or reset beyond the last manager.
Starting == {t \in Requests : op[t] \in {"start", "reset"} /\ mgr[t] = NoMgr}

Enters == [start |-> "check", command |-> "lookup", end |-> "drop", reset |-> "drop"]

Overlapping(p, o) == o # "end" /\ OwnRequests(p) # {}

Request(t, p, o) ==
    /\ at[t] = "idle"
    /\ Overlapping(p, o) => GiveUp
    /\ disturbed' = (disturbed \/ Overlapping(p, o))
    /\ o \in {"start", "reset"} => nextMgr + Cardinality(Starting) <= MaxMgr
    /\ Goto(t, Enters[o])
    /\ op' = [op EXCEPT ![t] = o]
    /\ player' = [player EXCEPT ![t] = p]
    /\ UNCHANGED <<poolVars, mgrVars, diskVars, mgr>>

-----------------------------------------------------------------------------
(* Pool.Start *)

\* First check, under the lock.
StartCheck(t) ==
    LET p == player[t] IN
    /\ at[t] = "check"
    /\ IF entries[p] # NoMgr \/ Cardinality(Active) >= MaxActive
       THEN Return(t)
       ELSE Goto(t, "open") /\ Local
    /\ UNCHANGED <<poolVars, mgrVars, diskVars>>

\* dirHasSaveFile, NewManager and Manager.Start: the look at the directory
\* comes before newSession creates it.  The bootstrap may fail.
StartOpen(t) ==
    LET p == player[t] IN
    /\ at[t] = "open"
    /\ nextMgr <= MaxMgr
    /\ dir' = [dir EXCEPT ![p] = TRUE]
    /\ nextMgr' = nextMgr + 1
    /\ \/ /\ proc' = [proc EXCEPT ![nextMgr] = "live"]
          /\ mgr' = [mgr EXCEPT ![t] = nextMgr]
          /\ Goto(t, IF save[p] # 0 THEN "enter" ELSE "insert")
          /\ UNCHANGED <<op, player>>
       \/ Return(t) /\ UNCHANGED proc
    /\ UNCHANGED <<entries, timer, moves, busy, closed, save>>

\* Bug: the second check does not look at the cap again.
FitsUncapped(p) == entries[p] = NoMgr

\* Second check, under the lock: insert the entry and arm its idle timer, or
\* give the manager up.
Fits(p) == entries[p] = NoMgr /\ Cardinality(Active) < MaxActive

\* Bug: whoever loses the race does not close its manager.
StartInsertLeaking(t) ==
    LET p == player[t] IN
    /\ at[t] = "insert"
    /\ IF Fits(p)
       THEN /\ entries' = [entries EXCEPT ![p] = mgr[t]]
            /\ timer' = [timer EXCEPT ![mgr[t]] = TRUE]
       ELSE UNCHANGED <<entries, timer>>
    /\ Return(t)
    /\ UNCHANGED <<nextMgr, mgrVars, diskVars>>

StartInsert(t) ==
    LET p == player[t] IN
    /\ at[t] = "insert"
    /\ IF Fits(p)
       THEN /\ entries' = [entries EXCEPT ![p] = mgr[t]]
            /\ timer' = [timer EXCEPT ![mgr[t]] = TRUE]
            /\ Return(t)
       ELSE /\ Goto(t, "discard")
            /\ Local
            /\ UNCHANGED <<entries, timer>>
    /\ UNCHANGED <<nextMgr, mgrVars, diskVars>>

-----------------------------------------------------------------------------
(* Pool.Command, up to its use of the manager: the timers start over. *)

CommandLookup(t) ==
    LET m == entries[player[t]] IN
    /\ at[t] = "lookup"
    /\ IF m = NoMgr
       THEN Return(t) /\ UNCHANGED timer
       ELSE /\ timer' = [timer EXCEPT ![m] = TRUE]
            /\ mgr' = [mgr EXCEPT ![t] = m]
            /\ Goto(t, "enter")
            /\ UNCHANGED <<op, player>>
    /\ UNCHANGED <<entries, nextMgr, mgrVars, diskVars>>

-----------------------------------------------------------------------------
(* Manager.Command, used for a move, for the save of an ending session and   *)
(* for the restore of a starting one.                                        *)

\* Where the caller goes on.
After(t) == CASE op[t] = "command" -> "idle"
              [] op[t] \in {"end", "auto"} -> "close"
              [] op[t] \in {"start", "reset"} -> "insert"

Continue(t) == IF After(t) = "idle" THEN Return(t) ELSE Goto(t, After(t)) /\ Local

\* ErrBusy, and ErrNotAlive for a closed manager, leave at once.  A dead
\* process is not noticed here: ProcessState is only set by a Wait on the Cmd.
ManagerEnter(t) ==
    LET m == mgr[t] IN
    /\ at[t] = "enter"
    /\ IF busy[m] \/ proc[m] = "none"
       THEN Continue(t) /\ UNCHANGED busy
       ELSE busy' = [busy EXCEPT ![m] = TRUE] /\ Goto(t, "run") /\ Local
    /\ UNCHANGED <<poolVars, diskVars, proc, moves, closed>>

\* Session.Command did what it was asked to.
RunOk(t) ==
    LET m == mgr[t]
        p == player[t] IN
    /\ at[t] = "run"
    /\ proc[m] = "live"
    /\ CASE op[t] = "command" ->
              /\ moves' = [moves EXCEPT ![m] = IF @ < MaxMoves THEN @ + 1 ELSE @]
              /\ UNCHANGED save
         [] op[t] \in {"end", "auto"} ->
              /\ save' = [save EXCEPT ![p] = IF dir[p] THEN moves[m] ELSE @]
              /\ UNCHANGED moves
         [] op[t] \in {"start", "reset"} ->
              /\ moves' = [moves EXCEPT ![m] = save[p]]
              /\ UNCHANGED save
    /\ Goto(t, "leave")
    /\ Local
    /\ UNCHANGED <<poolVars, proc, busy, closed, dir>>

\* It failed: the client went away, the process turned out to be gone, or
\* nothing came until ErrTimeout.  A goroutine whose Session was replaced
\* under it only finds a closed file.
RunFail(t) ==
    LET m == mgr[t] IN
    /\ \/ at[t] \in {"run", "stale"} /\ Goto(t, "leave") /\ UNCHANGED proc
       \/ /\ at[t] = "run"
          /\ Goto(t, "leave")
          /\ proc' = [proc EXCEPT ![m] = IF @ = "live" THEN "dead" ELSE @]
       \/ at[t] = "run" /\ Goto(t, "restart") /\ UNCHANGED proc
    /\ Local
    /\ UNCHANGED <<poolVars, diskVars, moves, busy, closed>>

\* restartAfterFailure: a fresh game under the manager's lock, whatever has
\* happened to the manager since.  When the new one does not come up the old
\* Session stays, closed.
ManagerRestart(t) ==
    LET m == mgr[t] IN
    /\ at[t] = "restart"
    /\ \/ /\ proc' = [proc EXCEPT ![m] = "live"]
          /\ moves' = [moves EXCEPT ![m] = 0]
          /\ busy' = [busy EXCEPT ![m] = FALSE]
       \/ /\ proc' = [proc EXCEPT ![m] = IF @ = "live" THEN "dead" ELSE @]
          /\ UNCHANGED <<moves, busy>>
    /\ dir' = [dir EXCEPT ![player[t]] = TRUE]
    /\ disturbed' = (disturbed \/ ~dir[player[t]])
    /\ at' = [u \in Threads |-> IF u = t THEN "leave"
                               ELSE IF at[u] = "run" /\ mgr[u] = m THEN "stale"
                               ELSE at[u]]
    /\ Local
    /\ UNCHANGED <<poolVars, save, closed>>

\* Bug: busy is not cleared on the way out.
ManagerLeaveBusy(t) ==
    /\ at[t] = "leave"
    /\ Continue(t)
    /\ UNCHANGED <<poolVars, mgrVars, diskVars>>

\* The deferred busy = false.
ManagerLeave(t) ==
    /\ at[t] = "leave"
    /\ busy' = [busy EXCEPT ![mgr[t]] = FALSE]
    /\ Continue(t)
    /\ UNCHANGED <<poolVars, diskVars, proc, moves, closed>>

-----------------------------------------------------------------------------
(* Pool.autoEnd, endInternal, Reset *)

\* A timer fires and starts its goroutine.  Stopping a timer does not stop a
\* goroutine it has already started.
TimerFires(m) ==
    /\ timer[m]
    /\ at[m] = "idle"
    /\ timer' = [timer EXCEPT ![m] = FALSE]
    /\ Goto(m, "expire")
    /\ op' = [op EXCEPT ![m] = "auto"]
    /\ \E p \in Players : entries[p] = m /\ player' = [player EXCEPT ![m] = p]
    /\ UNCHANGED <<entries, nextMgr, mgrVars, diskVars, mgr>>

\* autoEnd's own check, and the unlock before endInternal locks again.
AutoEndCheck(m) ==
    /\ at[m] = "expire"
    /\ IF entries[player[m]] = m THEN Goto(m, "drop") /\ Local ELSE Return(m)
    /\ UNCHANGED <<poolVars, mgrVars, diskVars>>

\* Bug: the entry stays listed while the session is saved and closed.
EndDropKeeping(t) ==
    LET p == player[t]
        m == entries[p] IN
    /\ at[t] = "drop"
    /\ IF m = NoMgr
       THEN /\ IF op[t] = "reset" THEN Goto(t, "wipe") /\ Local ELSE Return(t)
            /\ UNCHANGED timer
       ELSE /\ timer' = [timer EXCEPT ![m] = FALSE]
            /\ mgr' = [mgr EXCEPT ![t] = m]
            /\ Goto(t, IF op[t] = "reset" THEN "close" ELSE "enter")
            /\ UNCHANGED <<op, player>>
    /\ UNCHANGED <<entries, nextMgr, mgrVars, diskVars>>

\* Bug: the entry is used without the test that there is one.
EndDropUnchecked(t) ==
    LET p == player[t] IN
    /\ at[t] = "drop"
    /\ entries' = [entries EXCEPT ![p] = NoMgr]
    /\ timer' = [m \in Mgrs |-> m # entries[p] /\ timer[m]]
    /\ mgr' = [mgr EXCEPT ![t] = entries[p]]
    /\ Goto(t, IF op[t] = "reset" THEN "close" ELSE "enter")
    /\ UNCHANGED <<nextMgr, mgrVars, diskVars, op, player>>

\* endInternal's critical section: the entry is deleted before the save.
EndDrop(t) ==
    LET p == player[t]
        m == entries[p] IN
    /\ at[t] = "drop"
    /\ IF m = NoMgr
       THEN /\ IF op[t] = "reset" THEN Goto(t, "wipe") /\ Local ELSE Return(t)
            /\ UNCHANGED <<entries, timer>>
       ELSE /\ entries' = [entries EXCEPT ![p] = NoMgr]
            /\ timer' = [timer EXCEPT ![m] = FALSE]
            /\ mgr' = [mgr EXCEPT ![t] = m]
            /\ Goto(t, IF op[t] = "reset" THEN "close" ELSE "enter")
            /\ UNCHANGED <<op, player>>
    /\ UNCHANGED <<nextMgr, mgrVars, diskVars>>

\* Manager.Close, by an ending goroutine or one that gives its manager up.
ManagerClose(t) ==
    /\ at[t] \in {"close", "discard"}
    /\ proc' = [proc EXCEPT ![mgr[t]] = "none"]
    /\ closed' = closed \cup {mgr[t]}
    /\ IF at[t] = "close" /\ op[t] = "reset" THEN Goto(t, "wipe") /\ Local ELSE Return(t)
    /\ UNCHANGED <<poolVars, diskVars, moves, busy>>

\* Bug: only the save file is removed, not its directory.
ResetWipeFile(t) ==
    /\ at[t] = "wipe"
    /\ save' = [save EXCEPT ![player[t]] = 0]
    /\ Goto(t, "check")
    /\ Local
    /\ UNCHANGED <<poolVars, mgrVars, dir>>

\* Reset's RemoveAll, after which it goes on as Start.
ResetWipe(t) ==
    /\ at[t] = "wipe"
    /\ dir' = [dir EXCEPT ![player[t]] = FALSE]
    /\ save' = [save EXCEPT ![player[t]] = 0]
    /\ Goto(t, "check")
    /\ Local
    /\ UNCHANGED <<poolVars, mgrVars>>

\* RemoveAll gave up, with the save gone already or not: no game is started.
ResetWipeFails(t) ==
    /\ at[t] = "wipe"
    /\ \/ UNCHANGED save
       \/ save' = [save EXCEPT ![player[t]] = 0]
    /\ Return(t)
    /\ UNCHANGED <<poolVars, mgrVars, dir>>

Step(t) ==
    \/ StartCheck(t) \/ StartOpen(t) \/ StartInsert(t)
    \/ CommandLookup(t)
    \/ ManagerEnter(t) \/ RunOk(t) \/ RunFail(t) \/ ManagerLeave(t)
    \/ EndDrop(t) \/ ManagerClose(t) \/ ResetWipe(t) \/ ResetWipeFails(t)

Next ==
    \/ \E t \in Requests, p \in Players, o \in DOMAIN Enters : Request(t, p, o)
    \/ \E t \in Threads : ManagerRestart(t) \/ (Step(t) /\ UNCHANGED disturbed)
    \/ \E m \in Mgrs : (TimerFires(m) \/ AutoEndCheck(m)) /\ UNCHANGED disturbed

Spec == Init /\ [][Next]_vars

-----------------------------------------------------------------------------
(* Properties. *)

TypeOK ==
    /\ entries \in [Players -> Mgrs \cup {NoMgr}]
    /\ nextMgr \in 1..(MaxMgr + 1)
    /\ proc \in [Mgrs -> {"none", "live", "dead"}]
    /\ moves \in [Mgrs -> 0..MaxMoves]
    /\ busy \in [Mgrs -> BOOLEAN]
    /\ timer \in [Mgrs -> BOOLEAN]
    /\ dir \in [Players -> BOOLEAN]
    /\ save \in [Players -> 0..MaxMoves]
    /\ at \in [Threads -> Locations]
    /\ op \in [Threads -> Ops]
    /\ player \in [Threads -> Players \cup {NoPlayer}]
    /\ mgr \in [Threads -> Mgrs \cup {NoMgr}]
    /\ \A t \in Threads : at[t] \in Using => mgr[t] \in Mgrs
    /\ closed \subseteq Mgrs
    /\ disturbed \in BOOLEAN

Working(m) == {t \in Threads : at[t] # "idle" /\ mgr[t] = m}

\* MaxActiveSessions holds although starts check it, work unlocked for up to
\* a minute and insert later.
PoolBound == Cardinality(Active) <= MaxActive

\* A listed session is never closed under its player: managers are closed
\* only after their entry is gone, whichever goroutine closes them.
EntryNotClosed == \A p \in Players : entries[p] \notin closed

\* No game process is forgotten: whoever lost a race closes its own manager,
\* and a process that was never closed belongs to an entry or to a goroutine
\* still at work.
ProcessOwned ==
    \A m \in Mgrs : proc[m] # "none" /\ m \notin closed =>
        (\E p \in Players : entries[p] = m) \/ Working(m) # {}

\* !reset starts from nothing: even when a timer's goroutine is saving the old
\* game at the same time, the new one is not restored from that save, because
\* the wiped directory only comes back after Start has looked for a save.  That
\* is as long as the bot has not given up a request which is still being served,
\* and no restart of a third game brings the directory back in between.
ResetStartsFresh ==
    \A t \in Threads :
        op[t] = "reset" /\ at[t] = "insert" /\ ~disturbed => moves[mgr[t]] = 0

\* A manager is not left busy: somebody is still using it and will clear the
\* flag, so a session cannot answer "busy" for ever.
BusyIsTemporary ==
    \A m \in Mgrs : busy[m] => \E t \in Working(m) : at[t] \in {"run", "stale", "restart", "leave"}

-----------------------------------------------------------------------------
(* What the repository's text says and the code does not keep. *)

\* endInternal: "saves (if save=true) and closes the session".  When it
\* closes a manager whose game is running, what was played is in the save.
EndedIsSaved ==
    [][\A t \in Threads :
          /\ at[t] = "close" /\ at'[t] # "close"
          /\ op[t] \in {"end", "auto"}
          /\ proc[mgr[t]] = "live"
          => save[player[t]] = moves[mgr[t]]]_vars
=============================================================================
