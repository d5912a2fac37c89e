------------------------------- MODULE FanOut -------------------------------
(***************************************************************************)
(* Watcher fan-out, the _fanout* half of zorkbot/bot.py: one queue of      *)
(* coroutines per session with one consumer task, so that a session's      *)
(* watchers see its output in order without the player's worker waiting.   *)
(*                                                                         *)
(* The event loop runs one task at a time, so an action is what a task     *)
(* does between two awaits.  Each coroutine is "output" (one reply, copied *)
(* to the watchers) or "ended" (notify_watchers_session_ended); a send to  *)
(* one watcher is one await, whatever its number of packets.               *)
(***************************************************************************)
EXTENDS SessionState, Sequences

\* What may go wrong: HTTP requests raise, sends raise, the service goes on
\* serving a request whose client gave it up.
CONSTANT Faults

ASSUME FaultsAssumption == Faults \subseteq {"http", "radio", "slow"}

VARIABLES
    fanQueue,   \* _fanout_queues[n], <<>> also when there is no entry
    fanReg,     \* whether n is a key of _fanout_workers
    fanTask,    \* its newest task: "none" (none or done), "ready", "sending"
    fanDone,    \* done callbacks not run yet: of the registered task ("cur")
                \* or of one that was replaced ("old")
    fanItem,    \* the coroutine the task is awaiting, "none" between two
    fanTodo,    \* list(record.watchers) minus those already sent to
    told,       \* history: watchers of n that were sent its end notice
    endReason   \* history: why n was removed (end_reason of its row)

fanVars == <<fanQueue, fanReg, fanTask, fanDone, fanItem, fanTodo, told, endReason>>

Reasons == {"none", "live", "player_end", "admin_end", "polled", "not_found",
            "reset", "shutdown", "lost"}

FanInit ==
    /\ fanQueue = [n \in Nums |-> <<>>]
    /\ fanReg = [n \in Nums |-> FALSE]
    /\ fanTask = [n \in Nums |-> "none"]
    /\ fanDone = [n \in Nums |-> {}]
    /\ fanItem = [n \in Nums |-> "none"]
    /\ fanTodo = [n \in Nums |-> {}]
    /\ told = [n \in Nums |-> {}]
    /\ endReason = [n \in Nums |-> "none"]

\* Bug: a registered consumer is taken to be running, without asking done().
FanoutAllToRegistered(N, item) ==
    LET fresh == {n \in N : ~fanReg[n]} IN
    /\ fanQueue' = [n \in Nums |-> IF n \in N THEN Append(fanQueue[n], item)
                                   ELSE fanQueue[n]]
    /\ fanReg' = [n \in Nums |-> n \in fresh \/ fanReg[n]]
    /\ fanTask' = [n \in Nums |-> IF n \in fresh THEN "ready" ELSE fanTask[n]]
    /\ UNCHANGED <<fanDone, fanItem, fanTodo, told>>

\* _fanout(n, item) for every n of N in one turn: append, and start a
\* consumer where none is running.  A replaced task's callback becomes "old".
\* Leaves endReason to the caller.
FanoutAll(N, item) ==
    LET fresh == {n \in N : ~fanReg[n] \/ fanTask[n] = "none"} IN
    /\ fanQueue' = [n \in Nums |-> IF n \in N THEN Append(fanQueue[n], item)
                                   ELSE fanQueue[n]]
    /\ fanReg' = [n \in Nums |-> n \in fresh \/ fanReg[n]]
    /\ fanTask' = [n \in Nums |-> IF n \in fresh THEN "ready" ELSE fanTask[n]]
    /\ fanDone' = [n \in Nums |-> IF n \in fresh /\ "cur" \in fanDone[n]
                                  THEN {"old"} ELSE fanDone[n]]
    /\ UNCHANGED <<fanItem, fanTodo, told>>

Fanout(n, item) == FanoutAll({n}, item)

\* _run_fanout takes the next coroutine, which reads record.watchers now, not
\* when it was queued.  With no watchers it finishes without an await.
FanTake(n) ==
    /\ fanTask[n] = "ready"
    /\ fanQueue[n] # <<>>
    /\ fanQueue' = [fanQueue EXCEPT ![n] = Tail(@)]
    /\ fanTodo' = [fanTodo EXCEPT ![n] = watchers[n]]
    /\ IF watchers[n] = {}
       THEN UNCHANGED <<fanTask, fanItem>>
       ELSE /\ fanTask' = [fanTask EXCEPT ![n] = "sending"]
            /\ fanItem' = [fanItem EXCEPT ![n] = Head(fanQueue[n])]
    /\ UNCHANGED <<fanReg, fanDone, told, endReason>>

\* One watcher's send completes (transmitted, or dropped by the send gate).
FanSend(n, w) ==
    /\ fanTask[n] = "sending"
    /\ w \in fanTodo[n]
    /\ fanTodo' = [fanTodo EXCEPT ![n] = @ \ {w}]
    /\ told' = [told EXCEPT ![n] = IF fanItem[n] = "ended" THEN @ \cup {w} ELSE @]
    /\ IF fanTodo[n] = {w}
       THEN /\ fanTask' = [fanTask EXCEPT ![n] = "ready"]
            /\ fanItem' = [fanItem EXCEPT ![n] = "none"]
       ELSE UNCHANGED <<fanTask, fanItem>>
    /\ UNCHANGED <<fanQueue, fanReg, fanDone, endReason>>

\* A send raises: _run_fanout logs it and drops the rest of the coroutine.
FanRaise(n) ==
    /\ "radio" \in Faults
    /\ fanTask[n] = "sending"
    /\ fanTodo' = [fanTodo EXCEPT ![n] = {}]
    /\ fanTask' = [fanTask EXCEPT ![n] = "ready"]
    /\ fanItem' = [fanItem EXCEPT ![n] = "none"]
    /\ endReason' = [endReason EXCEPT ![n] = IF fanItem[n] = "ended" THEN "lost" ELSE @]
    /\ UNCHANGED <<fanQueue, fanReg, fanDone, told>>

\* _run_fanout finds its queue empty and returns; its callback is scheduled.
FanExit(n) ==
    /\ fanTask[n] = "ready"
    /\ fanQueue[n] = <<>>
    /\ fanTask' = [fanTask EXCEPT ![n] = "none"]
    /\ fanDone' = [fanDone EXCEPT ![n] = @ \cup {"cur"}]
    /\ UNCHANGED <<fanQueue, fanReg, fanItem, fanTodo, told, endReason>>

\* Whether _on_fanout_done drops the session's entries: only for the task
\* still registered, and only when nothing arrived behind it.
DropsEntry(n, k) == k = "cur" /\ fanQueue[n] = <<>>

\* _on_fanout_done.
FanCallback(n, k) ==
    /\ k \in fanDone[n]
    /\ fanDone' = [fanDone EXCEPT ![n] = @ \ {k}]
    /\ fanReg' = [fanReg EXCEPT ![n] = IF DropsEntry(n, k) THEN FALSE ELSE @]
    /\ UNCHANGED <<fanQueue, fanTask, fanItem, fanTodo, told, endReason>>

FanStep(n) ==
    \/ FanTake(n)
    \/ \E w \in Players : FanSend(n, w)
    \/ FanRaise(n)
    \/ FanExit(n)
    \/ \E k \in {"cur", "old"} : FanCallback(n, k)

-----------------------------------------------------------------------------
(* Properties. *)

FanTypeOK ==
    /\ fanQueue \in [Nums -> Seq({"output", "ended"})]
    /\ fanReg \in [Nums -> BOOLEAN]
    /\ fanTask \in [Nums -> {"none", "ready", "sending"}]
    /\ fanDone \in [Nums -> SUBSET {"cur", "old"}]
    /\ fanItem \in [Nums -> {"none", "output", "ended"}]
    /\ fanTodo \in [Nums -> SUBSET Players]
    /\ told \in [Nums -> SUBSET Players]
    /\ endReason \in [Nums -> Reasons]

\* "one queue and one consumer per session": fan-out that is queued has a
\* task that will send it, and a running task is always the registered one,
\* so that _fanout can never start a second consumer beside it.
OneConsumer ==
    \A n \in Nums :
        /\ fanQueue[n] # <<>> => fanTask[n] # "none"
        /\ fanTask[n] # "none" => fanReg[n]

\* What makes OneConsumer inductive: the registered task's callback is
\* pending exactly from its return to its callback.
CallbackPending ==
    \A n \in Nums :
        /\ fanTask[n] # "none" => "cur" \notin fanDone[n]
        /\ fanReg[n] /\ fanTask[n] = "none" => "cur" \in fanDone[n]
=============================================================================
