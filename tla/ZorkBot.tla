------------------------------ MODULE ZorkBot -------------------------------
(***************************************************************************)
(* The bot's core, zorkbot/bot.py with the handlers in zorkbot/commands/:  *)
(* the per-player worker and its pending-command gate, every handler that  *)
(* touches session state, the poller that reconciles with the game         *)
(* service, shutdown, and the game service as its HTTP clients see it.     *)
(*                                                                         *)
(* asyncio runs one task at a time and switches only at an await, so an    *)
(* action is everything a task does from one await to the next.  A handler *)
(* is a program counter pc[p] naming the await it is suspended at, with    *)
(* the record number it captured (held) and the player its HTTP request is *)
(* about (who).  An HTTP request is three steps: the handler sends it, the *)
(* service serves it, the handler resumes with the answer.                 *)
(***************************************************************************)
EXTENDS FanOut

CONSTANTS
    Admins,      \* players in admin_pubkeys
    Ops,         \* operations in use: what players send, and "stop", shutdown
    MaxBacklog,  \* bound: queued fan-out behind which a player sends no more
    MaxActive,   \* MaxActiveSessions of the game service
    PollOn       \* whether session_poll_seconds > 0

ASSUME BotAssumption ==
    /\ Admins \subseteq Players
    /\ Ops \subseteq {"start", "end", "adminEnd", "watch", "reset", "game",
                      "info", "stop"}
    /\ MaxBacklog \in Nat
    /\ MaxActive \in Nat
    /\ PollOn \in BOOLEAN

VARIABLES
    queue,     \* _queues[p], at most QueueMax commands
    pc,        \* where the worker task of p is; "idle" when there is none or it is done
    held,      \* the SessionRecord the handler of p captured, by number
    who,       \* the player the handler's request is about
    rpc,       \* the handler's HTTP request: "none", "sent", "half" or an answer
    game,      \* players with a session on the game service
    late,      \* players whose start or reset the client gave up and the service still serves
    poll,      \* the poller: "off", "sleep", "sent", "answered"
    snapshot,  \* the answer of list_sessions the poller holds
    stopped    \* bot.stop has run

taskVars == <<queue, pc, held, who, rpc>>
pollVars == <<poll, snapshot>>
gameVars == <<game, late>>
vars == <<regVars, fanVars, taskVars, gameVars, pollVars, stopped>>

QueueMax == 1
Interrupts == {"end", "adminEnd"}   \* "!end" and "!end N" are one command

Command(op, arg) == [op |-> op, arg |-> arg]

\* The messages players may send: !watch and !end N name any number.
Messages ==
    {Command(op, None) : op \in Ops \ {"watch", "adminEnd", "stop"}}
        \cup {Command(op, n) : op \in Ops \cap {"watch", "adminEnd"}, n \in Nums}

Awaits == {"reply", "advert", "start", "intro", "look", "end", "endReply",
           "reset", "game", "gameReply"}
RpcAwaits == {"start", "look", "end", "reset", "game"}
Locations == {"idle", "ready"} \cup Awaits
Answers == {"ok", "full", "missing", "error"}

Init ==
    /\ RegInit
    /\ FanInit
    /\ queue = [p \in Players |-> <<>>]
    /\ pc = [p \in Players |-> "idle"]
    /\ held = [p \in Players |-> None]
    /\ who = [p \in Players |-> NoPlayer]
    /\ rpc = [p \in Players |-> "none"]
    /\ game = {}
    /\ late = {}
    /\ poll = IF PollOn THEN "sleep" ELSE "off"
    /\ snapshot = {}
    /\ stopped = FALSE

-----------------------------------------------------------------------------
(* Dispatch: the pending-command gate. *)

\* Bound: a start or reset is only sent while a session number is left for it.
NumbersLeft ==
    nextNum + Cardinality({p \in Players :
                 \/ pc[p] \in {"advert", "start", "reset"}
                 \/ \E i \in DOMAIN queue[p] : queue[p][i].op \in {"start", "reset"}})
        <= MaxNum

\* Bound: a game command is only sent while the fan-out backlog is short.
BacklogShort(p) == sessions[p] # None => Len(fanQueue[sessions[p]]) < MaxBacklog

\* _enqueue's first test: the worker is busy and this is no interrupt.
ResponsePending(p, c) == pc[p] # "idle" /\ c.op \notin Interrupts

\* Bug: the queue has no maxsize.
DispatchUnbounded(p, c) ==
    /\ ~stopped
    /\ c.op \in {"start", "reset"} => NumbersLeft
    /\ c.op = "game" => BacklogShort(p)
    /\ ~ResponsePending(p, c)
    /\ queue' = [queue EXCEPT ![p] = Append(@, c)]
    /\ pc' = [pc EXCEPT ![p] = IF @ = "idle" THEN "ready" ELSE @]
    /\ UNCHANGED <<regVars, fanVars, held, who, rpc, gameVars, pollVars, stopped>>

\* dispatch_dm / dispatch_channel -> _enqueue, for a command that is not
\* dropped.  A drop ("response_pending", "queue_full") changes nothing.
Dispatch(p, c) ==
    /\ ~stopped
    /\ c.op \in {"start", "reset"} => NumbersLeft
    /\ c.op = "game" => BacklogShort(p)
    /\ ~ResponsePending(p, c)
    /\ Len(queue[p]) < QueueMax
    /\ queue' = [queue EXCEPT ![p] = Append(@, c)]
    /\ pc' = [pc EXCEPT ![p] = IF @ = "idle" THEN "ready" ELSE @]
    /\ UNCHANGED <<regVars, fanVars, held, who, rpc, gameVars, pollVars, stopped>>

-----------------------------------------------------------------------------
(* Handlers.  Begin(p, op) is _run_worker taking the next command; Finish(p) *)
(* is a handler returning (or raising) into its loop; Goto(p, l) suspends at *)
(* the await l; Call(p, l, q) sends the request about q and awaits it at l.  *)

Begin(p, op) ==
    /\ pc[p] = "ready"
    /\ queue[p] # <<>>
    /\ Head(queue[p]).op = op
    /\ queue' = [queue EXCEPT ![p] = Tail(@)]

Arg(p) == Head(queue[p]).arg

\* Bug: the worker answers one command and returns.
FinishOnce(p) ==
    /\ pc' = [pc EXCEPT ![p] = "idle"]
    /\ held' = [held EXCEPT ![p] = None]
    /\ who' = [who EXCEPT ![p] = NoPlayer]
    /\ rpc' = [rpc EXCEPT ![p] = "none"]

\* Leave the handler with nothing captured; the loop ends when no interrupt
\* waits.  As in _run_worker, an exception leaves by the same way.
Finish(p) ==
    /\ pc' = [pc EXCEPT ![p] = IF queue[p] = <<>> THEN "idle" ELSE "ready"]
    /\ held' = [held EXCEPT ![p] = None]
    /\ who' = [who EXCEPT ![p] = NoPlayer]
    /\ rpc' = [rpc EXCEPT ![p] = "none"]

Goto(p, l) ==
    /\ pc' = [pc EXCEPT ![p] = l]
    /\ rpc' = [rpc EXCEPT ![p] = "none"]
    /\ UNCHANGED <<held, who>>

Call(p, l, q, n) ==
    /\ pc' = [pc EXCEPT ![p] = l]
    /\ held' = [held EXCEPT ![p] = n]
    /\ who' = [who EXCEPT ![p] = q]
    /\ rpc' = [rpc EXCEPT ![p] = "sent"]

Elsewhere == UNCHANGED <<gameVars, pollVars, stopped>>

\* remove_session for the players of S, with the reason its row gets.
RemoveAs(S, reason) ==
    /\ remove_sessions(S)
    /\ endReason' = [n \in Nums |-> IF n \in {sessions[p] : p \in S}
                                    THEN reason ELSE endReason[n]]

FanQueueUnchanged == UNCHANGED <<fanQueue, fanReg, fanTask, fanDone, fanItem, fanTodo, told>>

\* add_session, noting the row session_started opens.
AddAs(p) ==
    /\ add_session(p)
    /\ endReason' = [endReason EXCEPT ![nextNum] = "live"]
    /\ FanQueueUnchanged

\* help, author, uptime, rules, list, watchers, unknown: a reply and no change.
BeginInfo(p) ==
    /\ Begin(p, "info")
    /\ Goto(p, "reply")
    /\ Elsewhere
    /\ UNCHANGED <<regVars, fanVars>>

\* Bug: handle_start does not look at active_state.
BeginStartUnchecked(p) ==
    /\ Begin(p, "start")
    /\ Goto(p, "reply") \/ Goto(p, "advert")
    /\ Elsewhere
    /\ UNCHANGED <<regVars, fanVars>>

\* handle_start: refused while playing or watching, or on the channel without
\* a contact to answer; else the advert goes out first.
BeginStart(p) ==
    /\ Begin(p, "start")
    /\ \/ Goto(p, "reply")
       \/ active_state(p) = "none" /\ Goto(p, "advert")
    /\ Elsewhere
    /\ UNCHANGED <<regVars, fanVars>>

\* ... then the game service is asked, without looking at the state again.
AdvertSent(p) ==
    /\ pc[p] = "advert"
    /\ Call(p, "start", p, None)
    /\ Elsewhere
    /\ UNCHANGED <<regVars, fanVars, queue>>

StartReturns(p) ==
    /\ pc[p] = "start"
    /\ \/ rpc[p] = "ok" /\ AddAs(p) /\ Goto(p, "intro")
       \/ /\ rpc[p] \in {"full", "error"}
          /\ Goto(p, "reply")
          /\ UNCHANGED <<regVars, fanVars>>
    /\ Elsewhere
    /\ UNCHANGED queue

\* The confirmation of !start or !reset was sent: look around, unless it was
\* not delivered and dm_ack_abandon_response says to give up.
IntroSent(p) ==
    /\ pc[p] = "intro"
    /\ Finish(p) \/ Call(p, "look", p, None)
    /\ Elsewhere
    /\ UNCHANGED <<regVars, fanVars, queue>>

\* send_initial_look: any refusal is only logged; an empty output sends nothing.
LookReturns(p) ==
    /\ pc[p] = "look"
    /\ rpc[p] \in Answers
    /\ \/ rpc[p] = "ok" /\ Goto(p, "reply")
       \/ Finish(p)
    /\ Elsewhere
    /\ UNCHANGED <<regVars, fanVars, queue>>

\* handle_end without a number: a watcher leaves, a player's session is
\* removed before the service is asked to end it, anyone else is told off.
BeginEnd(p) ==
    /\ Begin(p, "end")
    /\ \/ /\ active_state(p) = "watching"
          /\ remove_watcher(p)
          /\ Goto(p, "reply")
          /\ UNCHANGED fanVars
       \/ /\ active_state(p) = "playing"
          /\ RemoveAs({p}, "player_end")
          /\ Call(p, "end", p, sessions[p])
          /\ FanQueueUnchanged
       \/ /\ active_state(p) = "none"
          /\ Goto(p, "reply")
          /\ UNCHANGED <<regVars, fanVars>>
    /\ Elsewhere

\* _handle_admin_end: an admin ends the session with that number.
BeginAdminEnd(p) ==
    LET r == get_session_by_num(Arg(p)) IN
    /\ Begin(p, "adminEnd")
    /\ \/ /\ p \in Admins
          /\ r # None
          /\ RemoveAs({numToPlayer[r]}, "admin_end")
          /\ Call(p, "end", numToPlayer[r], r)
          /\ FanQueueUnchanged
       \/ /\ p \notin Admins \/ r = None
          /\ Goto(p, "reply")
          /\ UNCHANGED <<regVars, fanVars>>
    /\ Elsewhere

\* end_session's answer, whatever it is, is followed by the confirmation.
EndReturns(p) ==
    /\ pc[p] = "end"
    /\ rpc[p] \in Answers
    /\ Goto(p, "endReply")
    /\ Elsewhere
    /\ UNCHANGED <<regVars, fanVars, queue>>

\* Bug: the notice goes to the record the registry has under that number now.
EndReplySentByLookup(p) ==
    /\ pc[p] = "endReply"
    /\ IF get_session_by_num(held[p]) # None
       THEN Fanout(held[p], "ended")
       ELSE FanQueueUnchanged
    /\ Finish(p)
    /\ Elsewhere
    /\ UNCHANGED <<regVars, endReason, queue>>

\* The end notice is queued for the captured record's watchers.
EndReplySent(p) ==
    /\ pc[p] = "endReply"
    /\ Fanout(held[p], "ended")
    /\ Finish(p)
    /\ Elsewhere
    /\ UNCHANGED <<regVars, endReason, queue>>

\* Bug: handle_watch does not look at active_state.
BeginWatchUnchecked(p) ==
    /\ Begin(p, "watch")
    /\ \/ add_watcher(p, Arg(p))
       \/ ~CanAddWatcher(Arg(p)) /\ UNCHANGED regVars
    /\ Goto(p, "reply")
    /\ Elsewhere
    /\ UNCHANGED fanVars

\* handle_watch: refused while playing or watching, for a number that leads to
\* no session, and for a session with its watchers complete.
BeginWatch(p) ==
    /\ Begin(p, "watch")
    /\ \/ active_state(p) = "none" /\ add_watcher(p, Arg(p))
       \/ /\ ~(active_state(p) = "none" /\ CanAddWatcher(Arg(p)))
          /\ UNCHANGED regVars
    /\ Goto(p, "reply")
    /\ Elsewhere
    /\ UNCHANGED fanVars

\* Bug: handle_reset leaves the old session to the service.
BeginResetKeeping(p) ==
    /\ Begin(p, "reset")
    /\ Call(p, "reset", p, None)
    /\ Elsewhere
    /\ UNCHANGED <<regVars, fanVars>>

\* handle_reset: the registry forgets the player's own session, if any, and
\* nothing else is checked.
BeginReset(p) ==
    /\ Begin(p, "reset")
    /\ RemoveAs({p}, "reset")
    /\ Call(p, "reset", p, None)
    /\ Elsewhere
    /\ FanQueueUnchanged

ResetReturns(p) ==
    /\ pc[p] = "reset"
    /\ \/ rpc[p] = "ok" /\ AddAs(p) /\ Goto(p, "intro")
       \/ /\ rpc[p] = "error"
          /\ Goto(p, "reply")
          /\ UNCHANGED <<regVars, fanVars>>
    /\ Elsewhere
    /\ UNCHANGED queue

\* handle_game_command: no session, or text that validate refuses, is
\* answered at once.
BeginGame(p) ==
    /\ Begin(p, "game")
    /\ \/ Goto(p, "reply")
       \/ sessions[p] # None /\ Call(p, "game", p, sessions[p])
    /\ Elsewhere
    /\ UNCHANGED <<regVars, fanVars>>

\* 404 removes whatever session the player has now; an error is reported; an
\* output goes to the player first (no packets: nothing at all is sent).
GameReturns(p) ==
    /\ pc[p] = "game"
    /\ \/ /\ rpc[p] = "missing"
          /\ RemoveAs({p}, "not_found")
          /\ Goto(p, "reply")
          /\ FanQueueUnchanged
       \/ /\ rpc[p] = "error"
          /\ Goto(p, "reply")
          /\ UNCHANGED <<regVars, fanVars>>
       \/ /\ rpc[p] = "ok"
          /\ Goto(p, "gameReply") \/ Finish(p)
          /\ UNCHANGED <<regVars, fanVars>>
    /\ Elsewhere
    /\ UNCHANGED queue

\* ... and then to the watchers of the record captured before the request.
GameReplySent(p) ==
    /\ pc[p] = "gameReply"
    /\ IF watchers[held[p]] # {}
       THEN Fanout(held[p], "output") /\ UNCHANGED endReason
       ELSE UNCHANGED fanVars
    /\ Finish(p)
    /\ Elsewhere
    /\ UNCHANGED <<regVars, queue>>

ReplySent(p) ==
    /\ pc[p] = "reply"
    /\ Finish(p)
    /\ Elsewhere
    /\ UNCHANGED <<regVars, fanVars, queue>>

\* An await raises something the handler does not catch (httpx timeouts and
\* connection errors, radio errors): _run_worker logs it and goes on.  An end
\* notice that was still owed is then lost; a request that is given up may be
\* served all the same.
HandlerRaises(p) ==
    /\ pc[p] \in Awaits
    /\ endReason' = [n \in Nums |-> IF n = held[p] /\ pc[p] \in {"end", "endReply"}
                                    THEN "lost" ELSE endReason[n]]
    /\ \/ /\ IF pc[p] \in RpcAwaits THEN "http" \in Faults ELSE "radio" \in Faults
          /\ UNCHANGED late
       \/ /\ "slow" \in Faults
          /\ pc[p] \in {"start", "reset"} /\ rpc[p] \in {"sent", "half"}
          /\ late' = late \cup {who[p]}
    /\ Finish(p)
    /\ FanQueueUnchanged
    /\ UNCHANGED <<regVars, queue, game, pollVars, stopped>>

Handler(p) ==
    \/ BeginInfo(p)     \/ ReplySent(p)    \/ HandlerRaises(p)
    \/ BeginStart(p)    \/ AdvertSent(p)   \/ StartReturns(p)
    \/ IntroSent(p)     \/ LookReturns(p)
    \/ BeginEnd(p)      \/ BeginAdminEnd(p) \/ EndReturns(p) \/ EndReplySent(p)
    \/ BeginWatch(p)
    \/ BeginReset(p)    \/ ResetReturns(p)
    \/ BeginGame(p)     \/ GameReturns(p)  \/ GameReplySent(p)

-----------------------------------------------------------------------------
(* The game service behind the HTTP client (game/internal/api, pty.Pool). *)

Answer(p, a, g) ==
    /\ rpc' = [rpc EXCEPT ![p] = a]
    /\ game' = g
    /\ UNCHANGED <<regVars, fanVars, queue, pc, held, who, late, pollVars, stopped>>

\* POST /sessions: idempotent, refused when the pool is full.
ServeStart(p) ==
    /\ pc[p] = "start" /\ rpc[p] = "sent"
    /\ \/ who[p] \in game /\ Answer(p, "ok", game)
       \/ /\ who[p] \notin game
          /\ \/ Cardinality(game) >= MaxActive /\ Answer(p, "full", game)
             \/ Cardinality(game) < MaxActive /\ Answer(p, "ok", game \cup {who[p]})
             \/ Answer(p, "error", game)

\* DELETE /sessions/{id}
ServeEnd(p) ==
    /\ pc[p] = "end" /\ rpc[p] = "sent"
    /\ IF who[p] \in game THEN Answer(p, "ok", game \ {who[p]})
                          ELSE Answer(p, "missing", game)

\* DELETE /sessions/{id}/save: end, wipe, then start; a full pool is a 500 here.
ServeReset(p) ==
    /\ pc[p] = "reset"
    /\ \/ rpc[p] = "sent" /\ Answer(p, "half", game \ {who[p]})
       \/ /\ rpc[p] = "half"
          /\ \/ Answer(p, "error", game)
             \/ Cardinality(game) < MaxActive /\ Answer(p, "ok", game \cup {who[p]})

\* POST /sessions/{id}/command
ServeCommand(p) ==
    /\ pc[p] \in {"game", "look"} /\ rpc[p] = "sent"
    /\ \/ who[p] \notin game /\ Answer(p, "missing", game)
       \/ who[p] \in game /\ \E a \in {"ok", "error"} : Answer(p, a, game)

Serve(p) == ServeStart(p) \/ ServeEnd(p) \/ ServeReset(p) \/ ServeCommand(p)

\* A start or reset that the client gave up comes to its end, either way.
ServeLate(p) ==
    /\ p \in late
    /\ late' = late \ {p}
    /\ \/ UNCHANGED game
       \/ Cardinality(game) < MaxActive /\ game' = game \cup {p}
    /\ UNCHANGED <<regVars, fanVars, taskVars, pollVars, stopped>>

\* Idle-start and inactivity timers (and requests given up) end a session on
\* the service's side.
ServiceEnds(p) ==
    /\ p \in game
    /\ game' = game \ {p}
    /\ UNCHANGED <<regVars, fanVars, taskVars, late, pollVars, stopped>>

-----------------------------------------------------------------------------
(* The session poller. *)

PollSends ==
    /\ poll = "sleep"
    /\ poll' = "sent"
    /\ UNCHANGED <<regVars, fanVars, taskVars, gameVars, snapshot, stopped>>

ServeList ==
    /\ poll = "sent"
    /\ poll' = "answered"
    /\ snapshot' = game
    /\ UNCHANGED <<regVars, fanVars, taskVars, gameVars, stopped>>

PollFails ==
    /\ "http" \in Faults
    /\ poll \in {"sent", "answered"}
    /\ poll' = "sleep"
    /\ snapshot' = {}
    /\ UNCHANGED <<regVars, fanVars, taskVars, gameVars, stopped>>

\* Bug: sessions nobody watches are not reconciled.
StaleWatched ==
    {p \in Players : /\ sessions[p] # None
                     /\ p \notin snapshot
                     /\ watchers[sessions[p]] # {}}

\* _reconcile_sessions after its await: every local session the snapshot
\* does not show is removed and its watchers' notice queued, in one turn.
Stale == {p \in Players : sessions[p] # None /\ p \notin snapshot}

\* Bug: the poller removes without notifying.
PollReturnsSilently ==
    /\ poll = "answered"
    /\ poll' = "sleep"
    /\ snapshot' = {}
    /\ RemoveAs(Stale, "polled")
    /\ FanQueueUnchanged
    /\ UNCHANGED <<taskVars, gameVars, stopped>>

PollReturns ==
    /\ poll = "answered"
    /\ poll' = "sleep"
    /\ snapshot' = {}
    /\ RemoveAs(Stale, "polled")
    /\ FanoutAll({sessions[p] : p \in Stale}, "ended")
    /\ UNCHANGED <<taskVars, gameVars, stopped>>

-----------------------------------------------------------------------------
\* stop: close every session, cancel every task, drop queued fan-out.  The
\* runner has unsubscribed before.  The players' queues are left as they are.
Stop ==
    /\ "stop" \in Ops
    /\ ~stopped
    /\ stopped' = TRUE
    /\ RemoveAs({p \in Players : sessions[p] # None}, "shutdown")
    /\ pc' = [p \in Players |-> "idle"]
    /\ held' = [p \in Players |-> None]
    /\ who' = [p \in Players |-> NoPlayer]
    /\ rpc' = [p \in Players |-> "none"]
    /\ poll' = "off"
    /\ snapshot' = {}
    /\ fanQueue' = [n \in Nums |-> <<>>]
    /\ fanReg' = [n \in Nums |-> FALSE]
    /\ fanTask' = [n \in Nums |-> "none"]
    /\ fanDone' = [n \in Nums |-> {}]
    /\ fanItem' = [n \in Nums |-> "none"]
    /\ fanTodo' = [n \in Nums |-> {}]
    /\ UNCHANGED <<queue, told, gameVars>>

FanOutStep ==
    /\ \E n \in Nums : FanStep(n)
    /\ UNCHANGED <<regVars, taskVars, gameVars, pollVars, stopped>>

Next ==
    \/ \E p \in Players : \E c \in Messages : Dispatch(p, c)
    \/ \E p \in Players : Handler(p) \/ Serve(p) \/ ServeLate(p) \/ ServiceEnds(p)
    \/ FanOutStep
    \/ PollSends \/ ServeList \/ PollFails \/ PollReturns
    \/ Stop

Spec == Init /\ [][Next]_vars

\* Every task that is not suspended on a player's or radio's whim runs, every
\* send and request completes, and the poller keeps polling: asyncio schedules
\* its ready tasks in FIFO order, the radio's sends and httpx's requests are
\* bounded by timeouts.  Players, the service's timers, faults and shutdown
\* are under no obligation.
Fairness ==
    /\ \A p \in Players : WF_vars(Handler(p)) /\ WF_vars(Serve(p))
    /\ \A n \in Nums :
         WF_vars(FanStep(n) /\ UNCHANGED <<regVars, taskVars, gameVars, pollVars, stopped>>)
    /\ WF_vars(PollSends) /\ WF_vars(ServeList) /\ WF_vars(PollReturns)

FairSpec == Spec /\ Fairness

-----------------------------------------------------------------------------
(* Properties. *)

TypeOK ==
    /\ RegTypeOK
    /\ FanTypeOK
    /\ queue \in [Players -> Seq([op : Ops, arg : Nums \cup {None}])]
    /\ \A p \in Players : Len(queue[p]) <= QueueMax
    /\ pc \in [Players -> Locations]
    /\ held \in [Players -> Nums \cup {None}]
    /\ who \in [Players -> Players \cup {NoPlayer}]
    /\ rpc \in [Players -> {"none", "sent", "half"} \cup Answers]
    /\ game \subseteq Players /\ late \subseteq Players
    /\ poll \in {"off", "sleep", "sent", "answered"}
    /\ snapshot \subseteq Players
    /\ stopped \in BOOLEAN

\* No lost wake-up in the pending-command gate: an accepted command always
\* has a live worker that will take it, and a worker holds a command behind
\* its own only if that is an interrupt.
WorkerServesQueue ==
    \A p \in Players :
        ~stopped => /\ queue[p] # <<>> => pc[p] # "idle"
                    /\ queue[p] # <<>> /\ pc[p] \in Awaits => Head(queue[p]).op \in Interrupts

\* Between handle_start's check of active_state (or handle_reset's removal)
\* and add_session lie two awaits; through all of them the player still has
\* no session, which is add_session's precondition.
StartingHasNoSession ==
    \A p \in Players : pc[p] \in {"advert", "start", "reset"} => sessions[p] = None

\* The handlers that captured a record use its number after their awaits.
HeldIsRecord ==
    \A p \in Players :
        pc[p] \in {"end", "endReply", "game", "gameReply"} => held[p] \in 1..(nextNum - 1)

\* The watchers of a session that ended by !end, by !end N or by the poller
\* are owed exactly what the docs promise: until each of them was sent the
\* notice, a handler is on its way to queue it, it is queued, or it is being
\* sent to them.  Nothing any other player does in between takes it away;
\* only a shutdown does.
NoticeOwed ==
    ~stopped => \A n \in Nums : endReason[n] \in {"player_end", "admin_end", "polled"} =>
        \A w \in watchers[n] :
            \/ w \in told[n]
            \/ \E p \in Players : held[p] = n /\ pc[p] \in {"end", "endReply"}
            \/ \E i \in DOMAIN fanQueue[n] : fanQueue[n][i] = "ended"
            \/ fanTask[n] = "sending" /\ fanItem[n] = "ended" /\ w \in fanTodo[n]

\* Every accepted command is taken and every handler comes back, also for a
\* player whose interrupts keep the worker from ever being idle: the gate
\* cannot lock anyone out.
CommandsAnswered ==
    \A p \in Players :
        /\ queue[p] # <<>> ~> queue[p] = <<>>
        /\ pc[p] \in Awaits ~> pc[p] \notin Awaits

\* A session the service ended without telling the bot does not stay in the
\* registry: the poller (or the player's next command) removes it.
StaleReconciled ==
    \A p \in Players :
        sessions[p] # None /\ p \notin game ~> sessions[p] = None \/ p \in game

\* ... and its watchers hear of every ordinary end.
WatchersHear ==
    \A n \in Nums, w \in Players :
        endReason[n] \in {"player_end", "admin_end", "polled"} /\ w \in watchers[n]
            ~> w \in told[n]

-----------------------------------------------------------------------------
(* What the repository's text says and the code does not keep. *)

\* docs/specs/dm-sessions.md: "When a watched session ends ... every watcher of
\* that session gets a DM", the ends the service made included, however the
\* bot learns of them.
EveryEndNotifies ==
    \A n \in Nums : endReason[n] \in {"player_end", "admin_end", "polled", "not_found"} =>
        \A w \in watchers[n] :
            \/ w \in told[n]
            \/ \E p \in Players : held[p] = n /\ pc[p] \in {"end", "endReply"}
            \/ \E i \in DOMAIN fanQueue[n] : fanQueue[n][i] = "ended"
            \/ fanTask[n] = "sending" /\ fanItem[n] = "ended" /\ w \in fanTodo[n]

\* handle_end: "so no watcher is told the session ended and then sent more
\* of it".
NothingAfterNotice ==
    \A n \in Nums : \A w \in told[n] :
        ~(fanTask[n] = "sending" /\ fanItem[n] = "output" /\ w \in fanTodo[n])
=============================================================================
