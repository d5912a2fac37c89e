--------------------------- MODULE ZorkBot_proofs ---------------------------
(***************************************************************************)
(* The bot keeps the registry's contract and the fan-out's, for every set  *)
(* of players, every bound and every fault: Spec implements RegSpec, so    *)
(* all that SessionState_proofs shows of the registry holds in the bot; a  *)
(* session never has two fan-out consumers or an unserved queue; every     *)
(* accepted command has its worker; every variable keeps its type; and the *)
(* watchers of an ended session are told or their notice is on its way.    *)
(***************************************************************************)
EXTENDS ZorkBot, SessionState_proofs, SequenceTheorems, TLAPS

-----------------------------------------------------------------------------
(* The fan-out: one consumer per session, whatever step it takes. *)

\* The variables OneConsumer is about.
fanCore == <<fanQueue, fanReg, fanTask, fanDone>>

FanShape ==
    /\ fanQueue \in [Nums -> Seq({"output", "ended"})]
    /\ fanReg \in [Nums -> BOOLEAN]
    /\ fanTask \in [Nums -> {"none", "ready", "sending"}]
    /\ fanDone \in [Nums -> SUBSET {"cur", "old"}]

\* CallbackPending is needed because _on_fanout_done drops the entry of a
\* task it identifies: it must be sure that no other task has taken over.
FanInv == FanShape /\ OneConsumer /\ CallbackPending

\* Nothing is queued and nobody runs at the start (and after a shutdown).
LEMMA FanInitInv ==
    ASSUME fanQueue = [n \in Nums |-> <<>>], fanReg = [n \in Nums |-> FALSE],
           fanTask = [n \in Nums |-> "none"], fanDone = [n \in Nums |-> {}]
    PROVE  FanInv
BY DEF FanInv, FanShape, OneConsumer, CallbackPending

\* _fanout keeps the invariant, for any set of sessions.
LEMMA FanoutAllInv ==
    ASSUME FanInv, NEW N, NEW item \in {"output", "ended"}, FanoutAll(N, item)
    PROVE  FanInv'
<1> DEFINE fresh == {n \in N : ~fanReg[n] \/ fanTask[n] = "none"}
<1>1. /\ fanQueue' = [n \in Nums |-> IF n \in N THEN Append(fanQueue[n], item)
                                     ELSE fanQueue[n]]
      /\ fanReg' = [n \in Nums |-> n \in fresh \/ fanReg[n]]
      /\ fanTask' = [n \in Nums |-> IF n \in fresh THEN "ready" ELSE fanTask[n]]
      /\ fanDone' = [n \in Nums |-> IF n \in fresh /\ "cur" \in fanDone[n]
                                    THEN {"old"} ELSE fanDone[n]]
  BY DEF FanoutAll
<1>2. FanShape'
  <2>1. fanQueue' \in [Nums -> Seq({"output", "ended"})]
    BY <1>1 DEF FanInv, FanShape
  <2>2. fanReg' \in [Nums -> BOOLEAN]
    BY <1>1, Zenon DEF FanInv, FanShape
  <2>3. fanTask' \in [Nums -> {"none", "ready", "sending"}]
    BY <1>1 DEF FanInv, FanShape
  <2>4. fanDone' \in [Nums -> SUBSET {"cur", "old"}]
    BY <1>1 DEF FanInv, FanShape
  <2> QED  BY <2>1, <2>2, <2>3, <2>4 DEF FanShape
<1>3. ASSUME NEW n \in Nums
      PROVE  /\ fanTask'[n] # "none" => fanReg'[n]
             /\ fanQueue'[n] # <<>> => fanTask'[n] # "none"
             /\ fanTask'[n] # "none" => "cur" \notin fanDone'[n]
             /\ fanReg'[n] /\ fanTask'[n] = "none" => "cur" \in fanDone'[n]
  <2>1. CASE n \in fresh
    <3>1. fanTask'[n] = "ready" /\ fanReg'[n]
      BY <1>1, <2>1
    <3>2. "cur" \notin fanDone'[n]
      BY <1>1, <2>1
    <3> QED  BY <3>1, <3>2
  <2>2. CASE n \notin fresh
    <3>1. /\ fanTask'[n] = fanTask[n] /\ fanDone'[n] = fanDone[n]
          /\ fanReg'[n] = fanReg[n]
      BY <1>1, <2>2 DEF FanInv, FanShape
    <3>2. CASE n \in N
      <4>1. fanReg[n] /\ fanTask[n] # "none"
        BY <2>2, <3>2
      <4> QED  BY <3>1, <4>1 DEF FanInv, CallbackPending
    <3>3. CASE n \notin N
      <4>1. fanQueue'[n] = fanQueue[n]
        BY <1>1, <3>3
      <4> QED  BY <3>1, <4>1 DEF FanInv, OneConsumer, CallbackPending
    <3> QED  BY <3>2, <3>3
  <2> QED  BY <2>1, <2>2
<1> HIDE DEF fresh
<1> QED  BY <1>2, <1>3 DEF FanInv, OneConsumer, CallbackPending

\* A consumer's steps and its done callbacks keep the invariant.
LEMMA FanStepInv ==
    ASSUME FanInv, NEW n \in Nums, FanStep(n)
    PROVE  FanInv'
<1> USE DEF FanInv, FanShape, OneConsumer, CallbackPending
<1>1. CASE FanTake(n)
  <2>1. Tail(fanQueue[n]) \in Seq({"output", "ended"})
    BY <1>1 DEF FanTake
  <2>2. fanTask' = [fanTask EXCEPT ![n] = "sending"] \/ fanTask' = fanTask
    BY <1>1 DEF FanTake
  <2>3. fanTask'[n] # "none"
    BY <1>1, <2>2 DEF FanTake
  <2> QED  BY <1>1, <2>1, <2>2, <2>3 DEF FanTake
<1>2. ASSUME NEW w \in Players, FanSend(n, w) PROVE FanInv'
  <2>1. fanTask' = [fanTask EXCEPT ![n] = "ready"] \/ fanTask' = fanTask
    BY <1>2 DEF FanSend
  <2> QED  BY <1>2, <2>1 DEF FanSend
<1>3. CASE FanRaise(n)
  BY <1>3 DEF FanRaise
<1>4. CASE FanExit(n)
  BY <1>4 DEF FanExit
<1>5. ASSUME NEW k \in {"cur", "old"}, FanCallback(n, k) PROVE FanInv'
  <2>1. CASE k = "cur"
    <3>1. fanTask[n] = "none" /\ fanQueue[n] = <<>>
      BY <1>5, <2>1 DEF FanCallback
    <3>2. fanReg' = [fanReg EXCEPT ![n] = FALSE]
      BY <1>5, <2>1, <3>1 DEF FanCallback, DropsEntry
    <3> QED  BY <1>5, <2>1, <3>1, <3>2 DEF FanCallback
  <2>2. CASE k = "old"
    <3>1. fanReg' = fanReg
      BY <1>5, <2>2 DEF FanCallback, DropsEntry
    <3> QED  BY <1>5, <2>2, <3>1 DEF FanCallback
  <2> QED  BY <2>1, <2>2
<1> QED  BY <1>1, <1>2, <1>3, <1>4, <1>5 DEF FanStep

-----------------------------------------------------------------------------
(* The registry's contract. *)

\* Type of the worker's program counters.
PcType == pc \in [Players -> Locations]

\* StartingHasNoSession is what lets add_session run two awaits after
\* handle_start looked; the registry's own invariant is needed beside it to
\* know that the player an admin's number leads to is a player.
BotInv == RegInv /\ PcType /\ StartingHasNoSession

\* A registry step, or none.
RegStep == [RegNext]_regVars

\* What each action has to show.
Keeps == RegStep /\ PcType' /\ StartingHasNoSession'

\* An action that leaves the registry alone and moves p anywhere but into
\* the awaits before add_session.
LEMMA QuietStep ==
    ASSUME BotInv, NEW p \in Players, NEW l \in Locations \ {"advert", "start", "reset"},
           UNCHANGED regVars, pc' = [pc EXCEPT ![p] = l]
    PROVE  Keeps
BY DEF BotInv, Keeps, RegStep, PcType, StartingHasNoSession, regVars

\* An action that leaves registry and program counters alone.
LEMMA IdleStep ==
    ASSUME BotInv, UNCHANGED regVars, UNCHANGED pc
    PROVE  Keeps
BY DEF BotInv, Keeps, RegStep, PcType, StartingHasNoSession, regVars

\* An action that removes sessions and moves p anywhere but into the awaits
\* of handle_start.
LEMMA RemovingStep ==
    ASSUME BotInv, NEW S \in SUBSET Players, remove_sessions(S),
           NEW p \in Players, NEW l \in Locations \ {"advert", "start"},
           l = "reset" => p \in S, pc' = [pc EXCEPT ![p] = l]
    PROVE  Keeps
<1>1. RegStep
  BY DEF RegStep, RegNext
<1>2. \A q \in Players : sessions'[q] = IF q \in S THEN None ELSE sessions[q]
  BY DEF remove_sessions
<1> QED  BY <1>1, <1>2 DEF BotInv, Keeps, PcType, StartingHasNoSession

\* The add_session of handle_start and handle_reset.
LEMMA AddingStep ==
    ASSUME BotInv, NEW p \in Players, pc[p] \in {"start", "reset"}, AddAs(p), Goto(p, "intro")
    PROVE  Keeps
<1>1. sessions[p] = None
  BY DEF BotInv, StartingHasNoSession
<1>2. add_session(p)
  BY DEF AddAs
<1>3. RegStep
  BY <1>1, <1>2 DEF RegStep, RegNext
<1>4. pc' = [pc EXCEPT ![p] = "intro"]
  BY DEF Goto
<1>5. \A q \in Players \ {p} : sessions'[q] = sessions[q]
  BY <1>2 DEF add_session, BotInv, RegInv, RegTypeOK
<1> QED  BY <1>3, <1>4, <1>5 DEF BotInv, Keeps, PcType, StartingHasNoSession, Locations, Awaits

\* The end of a handler is one of the quiet moves.
LEMMA FinishMoves ==
    ASSUME NEW p \in Players, Finish(p)
    PROVE  \E l \in Locations \ {"advert", "start", "reset"} : pc' = [pc EXCEPT ![p] = l]
<1>1. CASE queue[p] = <<>>
  <2>1. pc' = [pc EXCEPT ![p] = "idle"]
    BY <1>1 DEF Finish
  <2> QED  BY <2>1 DEF Locations
<1>2. CASE queue[p] # <<>>
  <2>1. pc' = [pc EXCEPT ![p] = "ready"]
    BY <1>2 DEF Finish
  <2> QED  BY <2>1 DEF Locations
<1> QED  BY <1>1, <1>2

\* A handler that returns without touching the registry.
LEMMA FinishStep ==
    ASSUME BotInv, NEW p \in Players, Finish(p), UNCHANGED regVars
    PROVE  Keeps
BY FinishMoves, QuietStep

\* The handlers of !start, !reset and the commands that only reply.
LEMMA StartKeeps ==
    ASSUME BotInv, NEW p \in Players,
           \/ BeginInfo(p) \/ ReplySent(p) \/ HandlerRaises(p)
           \/ BeginStart(p) \/ AdvertSent(p) \/ StartReturns(p)
           \/ IntroSent(p) \/ LookReturns(p) \/ BeginReset(p) \/ ResetReturns(p)
    PROVE  Keeps
<1> USE DEF Goto, Call
<1>1. CASE BeginInfo(p)
  BY <1>1, QuietStep DEF BeginInfo, Locations, Awaits
<1>2. CASE ReplySent(p)
  BY <1>2, FinishStep DEF ReplySent
<1>3. CASE HandlerRaises(p)
  BY <1>3, FinishStep DEF HandlerRaises
<1>4. CASE BeginStart(p)
  <2>1. CASE Goto(p, "reply")
    BY <1>4, <2>1, QuietStep DEF BeginStart, Locations, Awaits
  <2>2. CASE active_state(p) = "none" /\ Goto(p, "advert")
    <3>1. sessions[p] = None /\ UNCHANGED regVars
      BY <1>4, <2>2 DEF BeginStart, active_state
    <3>2. pc' = [pc EXCEPT ![p] = "advert"]
      BY <2>2
    <3> QED  BY <3>1, <3>2 DEF BotInv, Keeps, RegStep, PcType, StartingHasNoSession,
                               regVars, Locations, Awaits
  <2> QED  BY <1>4, <2>1, <2>2 DEF BeginStart
<1>5. CASE AdvertSent(p)
  <2>1. pc[p] = "advert" /\ UNCHANGED regVars /\ pc' = [pc EXCEPT ![p] = "start"]
    BY <1>5 DEF AdvertSent
  <2> QED  BY <2>1 DEF BotInv, Keeps, RegStep, PcType, StartingHasNoSession,
                       regVars, Locations, Awaits
<1>6. CASE StartReturns(p)
  <2>1. CASE AddAs(p) /\ Goto(p, "intro")
    BY <1>6, <2>1, AddingStep DEF StartReturns
  <2>2. CASE Goto(p, "reply") /\ UNCHANGED regVars
    BY <2>2, QuietStep DEF Locations, Awaits
  <2> QED  BY <1>6, <2>1, <2>2 DEF StartReturns
<1>7. CASE IntroSent(p)
  <2>1. UNCHANGED regVars
    BY <1>7 DEF IntroSent
  <2>2. CASE Finish(p)
    BY <2>1, <2>2, FinishStep
  <2>3. CASE Call(p, "look", p, None)
    BY <2>1, <2>3, QuietStep DEF Locations, Awaits
  <2> QED  BY <1>7, <2>2, <2>3 DEF IntroSent
<1>8. CASE LookReturns(p)
  <2>1. UNCHANGED regVars
    BY <1>8 DEF LookReturns
  <2>2. CASE Finish(p)
    BY <2>1, <2>2, FinishStep
  <2>3. CASE Goto(p, "reply")
    BY <2>1, <2>3, QuietStep DEF Locations, Awaits
  <2> QED  BY <1>8, <2>2, <2>3 DEF LookReturns
<1>9. CASE BeginReset(p)
  <2>1. remove_sessions({p}) /\ pc' = [pc EXCEPT ![p] = "reset"]
    BY <1>9 DEF BeginReset, RemoveAs
  <2> QED  BY <2>1, RemovingStep DEF Locations, Awaits
<1>10. CASE ResetReturns(p)
  <2>1. CASE AddAs(p) /\ Goto(p, "intro")
    BY <1>10, <2>1, AddingStep DEF ResetReturns
  <2>2. CASE Goto(p, "reply") /\ UNCHANGED regVars
    BY <2>2, QuietStep DEF Locations, Awaits
  <2> QED  BY <1>10, <2>1, <2>2 DEF ResetReturns
<1> QED  BY <1>1, <1>2, <1>3, <1>4, <1>5, <1>6, <1>7, <1>8, <1>9, <1>10

\* The handlers of !end, !end N, !watch and bare game commands.
LEMMA EndKeeps ==
    ASSUME BotInv, NEW p \in Players,
           \/ BeginEnd(p) \/ BeginAdminEnd(p) \/ EndReturns(p) \/ EndReplySent(p)
           \/ BeginWatch(p)
           \/ BeginGame(p) \/ GameReturns(p) \/ GameReplySent(p)
    PROVE  Keeps
<1> USE DEF Goto, Call
<1>1. CASE BeginEnd(p)
  <2>1. CASE active_state(p) = "watching" /\ remove_watcher(p) /\ Goto(p, "reply")
    <3>1. watching[p] # None
      BY <2>1 DEF active_state
    <3>2. RegStep
      BY <2>1, <3>1 DEF RegStep, RegNext
    <3>3. sessions' = sessions /\ pc' = [pc EXCEPT ![p] = "reply"]
      BY <2>1 DEF remove_watcher
    <3> QED  BY <3>2, <3>3 DEF BotInv, Keeps, PcType, StartingHasNoSession, Locations, Awaits
  <2>2. CASE RemoveAs({p}, "player_end") /\ Call(p, "end", p, sessions[p])
    <3>1. remove_sessions({p}) /\ pc' = [pc EXCEPT ![p] = "end"]
      BY <2>2 DEF RemoveAs
    <3> QED  BY <3>1, RemovingStep DEF Locations, Awaits
  <2>3. CASE Goto(p, "reply") /\ UNCHANGED regVars
    BY <2>3, QuietStep DEF Locations, Awaits
  <2> QED  BY <1>1, <2>1, <2>2, <2>3 DEF BeginEnd
<1>2. CASE BeginAdminEnd(p)
  <2> DEFINE r == get_session_by_num(Arg(p))
  <2>1. CASE r # None /\ RemoveAs({numToPlayer[r]}, "admin_end")
             /\ Call(p, "end", numToPlayer[r], r)
    <3>1. numToPlayer[r] \in Players
      BY <2>1, RegistryAssumption DEF BotInv, RegInv, RegTypeOK, IndexInverse,
                                      get_session_by_num, Nums, None
    <3>2. remove_sessions({numToPlayer[r]}) /\ pc' = [pc EXCEPT ![p] = "end"]
      BY <2>1 DEF RemoveAs
    <3> HIDE DEF r
    <3> QED  BY <3>1, <3>2, RemovingStep DEF Locations, Awaits
  <2>2. CASE Goto(p, "reply") /\ UNCHANGED regVars
    BY <2>2, QuietStep DEF Locations, Awaits
  <2> QED  BY <1>2, <2>1, <2>2 DEF BeginAdminEnd
<1>3. CASE EndReturns(p)
  BY <1>3, QuietStep DEF EndReturns, Locations, Awaits
<1>4. CASE EndReplySent(p)
  BY <1>4, FinishStep DEF EndReplySent
<1>5. CASE BeginWatch(p)
  <2>1. pc' = [pc EXCEPT ![p] = "reply"]
    BY <1>5 DEF BeginWatch
  <2>2. CASE active_state(p) = "none" /\ add_watcher(p, Arg(p))
    <3>1. Arg(p) \in Nums
      BY <2>2 DEF add_watcher, CanAddWatcher, get_session_by_num
    <3>2. RegStep
      BY <2>2, <3>1 DEF RegStep, RegNext
    <3>3. sessions' = sessions
      BY <2>2 DEF add_watcher
    <3> QED  BY <2>1, <3>2, <3>3 DEF BotInv, Keeps, PcType, StartingHasNoSession,
                                     Locations, Awaits
  <2>3. CASE UNCHANGED regVars
    BY <2>1, <2>3, QuietStep DEF Locations, Awaits
  <2> QED  BY <1>5, <2>2, <2>3 DEF BeginWatch
<1>6. CASE BeginGame(p)
  <2>1. UNCHANGED regVars
    BY <1>6 DEF BeginGame
  <2>2. CASE Goto(p, "reply")
    BY <2>1, <2>2, QuietStep DEF Locations, Awaits
  <2>3. CASE Call(p, "game", p, sessions[p])
    BY <2>1, <2>3, QuietStep DEF Locations, Awaits
  <2> QED  BY <1>6, <2>2, <2>3 DEF BeginGame
<1>7. CASE GameReturns(p)
  <2>1. CASE RemoveAs({p}, "not_found") /\ Goto(p, "reply")
    <3>1. remove_sessions({p}) /\ pc' = [pc EXCEPT ![p] = "reply"]
      BY <2>1 DEF RemoveAs
    <3> QED  BY <3>1, RemovingStep DEF Locations, Awaits
  <2>2. CASE Goto(p, "reply") /\ UNCHANGED regVars
    BY <2>2, QuietStep DEF Locations, Awaits
  <2>3. CASE Goto(p, "gameReply") /\ UNCHANGED regVars
    BY <2>3, QuietStep DEF Locations, Awaits
  <2>4. CASE Finish(p) /\ UNCHANGED regVars
    BY <2>4, FinishStep
  <2> QED  BY <1>7, <2>1, <2>2, <2>3, <2>4 DEF GameReturns
<1>8. CASE GameReplySent(p)
  BY <1>8, FinishStep DEF GameReplySent
<1> QED  BY <1>1, <1>2, <1>3, <1>4, <1>5, <1>6, <1>7, <1>8

\* Dispatch only ever wakes a worker.
LEMMA DispatchKeeps ==
    ASSUME BotInv, NEW p \in Players, NEW c \in Messages, Dispatch(p, c)
    PROVE  Keeps
<1>1. UNCHANGED regVars
  BY DEF Dispatch
<1>2. CASE pc[p] = "idle"
  <2>1. pc' = [pc EXCEPT ![p] = "ready"]
    BY <1>2 DEF Dispatch
  <2> QED  BY <1>1, <2>1, QuietStep DEF Locations
<1>3. CASE pc[p] # "idle"
  <2>1. pc' = pc
    BY <1>3 DEF Dispatch, BotInv, PcType
  <2> QED  BY <1>1, <2>1, IdleStep
<1> QED  BY <1>2, <1>3

\* The game service touches neither the registry nor the workers' counters.
LEMMA ServeKeeps ==
    ASSUME BotInv, NEW p \in Players, Serve(p) \/ ServeLate(p) \/ ServiceEnds(p)
    PROVE  Keeps
<1>1. ASSUME NEW a, NEW g, Answer(p, a, g) PROVE Keeps
  BY <1>1, IdleStep DEF Answer
<1>2. CASE Serve(p)
  BY <1>1, <1>2 DEF Serve, ServeStart, ServeEnd, ServeReset, ServeCommand
<1>3. CASE ServeLate(p) \/ ServiceEnds(p)
  BY <1>3, IdleStep DEF ServeLate, ServiceEnds, taskVars
<1> QED  BY <1>2, <1>3

\* The poller and shutdown remove sessions; nobody is then left in the awaits
\* before add_session who was not there before.
LEMMA PollKeeps ==
    ASSUME BotInv, PollSends \/ ServeList \/ PollFails \/ PollReturns \/ Stop \/ FanOutStep
    PROVE  Keeps
<1>1. CASE PollSends \/ ServeList \/ PollFails \/ FanOutStep
  BY <1>1, IdleStep DEF PollSends, ServeList, PollFails, FanOutStep, taskVars
<1>2. ASSUME NEW S \in SUBSET Players, remove_sessions(S),
             pc' = pc \/ pc' = [p \in Players |-> "idle"]
      PROVE  Keeps
  <2>1. RegStep
    BY <1>2 DEF RegStep, RegNext
  <2>2. \A q \in Players : sessions'[q] = IF q \in S THEN None ELSE sessions[q]
    BY <1>2 DEF remove_sessions
  <2> QED  BY <1>2, <2>1, <2>2 DEF BotInv, Keeps, PcType, StartingHasNoSession, Locations
<1>3. CASE PollReturns
  BY <1>2, <1>3 DEF PollReturns, RemoveAs, Stale, taskVars
<1>4. CASE Stop
  BY <1>2, <1>4 DEF Stop, RemoveAs
<1> QED  BY <1>1, <1>2, <1>3, <1>4

\* Every step of the bot is a registry step or none, and keeps BotInv.
LEMMA BotStep == BotInv /\ [Next]_vars => RegStep /\ BotInv'
<1> SUFFICES ASSUME BotInv, [Next]_vars PROVE Keeps
  BY RegNextInv DEF Keeps, RegStep, BotInv
<1>1. CASE \E p \in Players : \E c \in Messages : Dispatch(p, c)
  BY <1>1, DispatchKeeps
<1>2. ASSUME NEW p \in Players, Handler(p) PROVE Keeps
  BY <1>2, StartKeeps, EndKeeps DEF Handler
<1>3. ASSUME NEW p \in Players, Serve(p) \/ ServeLate(p) \/ ServiceEnds(p) PROVE Keeps
  BY <1>3, ServeKeeps
<1>4. CASE FanOutStep \/ PollSends \/ ServeList \/ PollFails \/ PollReturns \/ Stop
  BY <1>4, PollKeeps
<1>5. CASE UNCHANGED vars
  BY <1>5, IdleStep DEF vars, taskVars
<1> QED  BY <1>1, <1>2, <1>3, <1>4, <1>5 DEF Next

\* The bot starts in BotInv and never leaves it.
THEOREM BotInvariant == Spec => []BotInv
<1>1. Init => BotInv
  BY RegInitInv DEF Init, BotInv, PcType, StartingHasNoSession, Locations
<1>2. BotInv /\ [Next]_vars => BotInv'
  BY BotStep
<1> QED  BY <1>1, <1>2, PTL DEF Spec

\* No handler, in no interleaving with other players, admins, the poller,
\* failing requests and shutdown, uses the registry outside its contract.
THEOREM BotImplementsRegistry == Spec => RegSpec
<1>1. Init => RegInit
  BY DEF Init
<1>2. BotInv /\ [Next]_vars => [RegNext]_regVars
  BY BotStep DEF RegStep
<1> QED  BY <1>1, <1>2, BotInvariant, PTL DEF Spec, RegSpec

\* The two awaits between handle_start's check and add_session never let a
\* session in: the player still has none when add_session runs.
THEOREM StartIsSafe == Spec => []StartingHasNoSession
<1>1. BotInv => StartingHasNoSession
  BY DEF BotInv
<1> QED  BY <1>1, BotInvariant, PTL

\* In the running bot the reverse index is the inverse of the sessions.
THEOREM BotIndexInverse == Spec => []IndexInverse
<1>1. BotInv => IndexInverse
  BY DEF BotInv, RegInv
<1> QED  BY <1>1, BotInvariant, PTL

\* In the running bot nobody is stuck watching a session that is gone, and
\* nobody receives a session they are not recorded as watching.
THEOREM BotWatchConsistent == Spec => []WatchConsistent
<1>1. BotInv => WatchConsistent
  BY DEF BotInv, RegInv
<1> QED  BY <1>1, BotInvariant, PTL

\* In the running bot nobody watches their own session.
THEOREM BotNoSelfWatch == Spec => []NoSelfWatch
<1>1. BotInv => NoSelfWatch
  BY DEF BotInv, RegInv
<1> QED  BY <1>1, BotInvariant, PTL

\* In the running bot max_watchers_per_session holds for every record.
THEOREM BotWatchersBounded == Spec => []WatchersBounded
<1>1. BotInv => WatchersBounded
  BY DEF BotInv, RegInv
<1> QED  BY <1>1, BotInvariant, PTL

\* In the running bot a session number is never reused.
THEOREM BotNumbersNotReused == Spec => NumbersNotReused
BY BotImplementsRegistry, NumbersNeverReused, PTL

-----------------------------------------------------------------------------
(* The fan-out inside the bot. *)

\* Steps that do not touch the queues, tasks and callbacks.
LEMMA FanIdleInv ==
    ASSUME FanInv, UNCHANGED fanCore
    PROVE  FanInv'
BY DEF fanCore, FanInv, FanShape, OneConsumer, CallbackPending

\* Every handler leaves the fan-out alone or hands one coroutine to _fanout.
LEMMA HandlerFanInv ==
    ASSUME FanInv, NEW p \in Players, Handler(p)
    PROVE  FanInv'
<1> USE DEF fanCore, fanVars, FanQueueUnchanged
<1>1. CASE \/ BeginInfo(p) \/ ReplySent(p) \/ HandlerRaises(p)
           \/ BeginStart(p) \/ AdvertSent(p) \/ IntroSent(p) \/ LookReturns(p)
           \/ BeginWatch(p) \/ BeginReset(p) \/ BeginGame(p) \/ EndReturns(p)
  BY <1>1, FanIdleInv DEF BeginInfo, ReplySent, HandlerRaises, BeginStart, AdvertSent,
                          IntroSent, LookReturns, BeginWatch, BeginReset, BeginGame, EndReturns
<1>2. CASE StartReturns(p) \/ ResetReturns(p)
  BY <1>2, FanIdleInv DEF StartReturns, ResetReturns, AddAs
<1>3. CASE BeginEnd(p) \/ BeginAdminEnd(p) \/ GameReturns(p)
  BY <1>3, FanIdleInv DEF BeginEnd, BeginAdminEnd, GameReturns
<1>4. CASE EndReplySent(p)
  BY <1>4, FanoutAllInv DEF EndReplySent, Fanout
<1>5. CASE GameReplySent(p)
  <2>1. CASE Fanout(held[p], "output")
    BY <2>1, FanoutAllInv DEF Fanout
  <2>2. CASE UNCHANGED fanVars
    BY <2>2, FanIdleInv
  <2> QED  BY <1>5, <2>1, <2>2 DEF GameReplySent
<1> QED  BY <1>1, <1>2, <1>3, <1>4, <1>5 DEF Handler

\* Dispatch and the game service have no part in it.
LEMMA ServeFanInv ==
    ASSUME FanInv, NEW p \in Players,
           \/ \E c \in Messages : Dispatch(p, c)
           \/ Serve(p) \/ ServeLate(p) \/ ServiceEnds(p)
    PROVE  FanInv'
<1> USE DEF fanCore, fanVars
<1>1. ASSUME NEW a, NEW g, Answer(p, a, g) PROVE FanInv'
  BY <1>1, FanIdleInv DEF Answer
<1>2. CASE Serve(p)
  BY <1>1, <1>2 DEF Serve, ServeStart, ServeEnd, ServeReset, ServeCommand
<1>3. CASE ServeLate(p) \/ ServiceEnds(p)
  BY <1>3, FanIdleInv DEF ServeLate, ServiceEnds
<1>4. CASE \E c \in Messages : Dispatch(p, c)
  BY <1>4, FanIdleInv DEF Dispatch
<1> QED  BY <1>2, <1>3, <1>4

\* Shutdown empties every queue and leaves no task.
LEMMA StopFanInv ==
    ASSUME FanInv, Stop
    PROVE  FanInv'
BY DEF Stop, FanInv, FanShape, OneConsumer, CallbackPending

\* Every step of the bot keeps the fan-out's invariant.
LEMMA BotFanStep == FanInv /\ [Next]_vars => FanInv'
<1> SUFFICES ASSUME FanInv, [Next]_vars PROVE FanInv'
  OBVIOUS
<1>1. CASE \E p \in Players : \E c \in Messages : Dispatch(p, c)
  BY <1>1, ServeFanInv
<1>2. CASE \E p \in Players : Handler(p) \/ Serve(p) \/ ServeLate(p) \/ ServiceEnds(p)
  BY <1>2, HandlerFanInv, ServeFanInv
<1>3. CASE FanOutStep
  BY <1>3, FanStepInv DEF FanOutStep
<1>4. CASE PollSends \/ ServeList \/ PollFails
  BY <1>4, FanIdleInv DEF PollSends, ServeList, PollFails, fanVars, fanCore
<1>5. CASE PollReturns
  BY <1>5, FanoutAllInv DEF PollReturns
<1>6. CASE Stop
  BY <1>6, StopFanInv
<1>7. CASE UNCHANGED vars
  BY <1>7, FanIdleInv DEF vars, fanVars, fanCore
<1> QED  BY <1>1, <1>2, <1>3, <1>4, <1>5, <1>6, <1>7 DEF Next

\* One consumer per session: queued fan-out always has a registered, running
\* task, however handlers, the poller, returning tasks and their late done
\* callbacks interleave.
THEOREM BotOneConsumer == Spec => []OneConsumer
<1>1. Init => FanInv
  BY FanInitInv DEF Init, FanInit
<1>2. FanInv /\ [Next]_vars => FanInv'
  BY BotFanStep
<1>3. FanInv => OneConsumer
  BY DEF FanInv
<1> QED  BY <1>1, <1>2, <1>3, PTL DEF Spec
-----------------------------------------------------------------------------
(* The workers. *)

\* A queue holds commands, at most one.
QueueType ==
    /\ queue \in [Players -> Seq([op : Ops, arg : Nums \cup {None}])]
    /\ \A p \in Players : Len(queue[p]) <= QueueMax

WorkInv == PcType /\ QueueType /\ WorkerServesQueue

\* What a player sends is a command.
LEMMA MessageType == Messages \subseteq [op : Ops, arg : Nums \cup {None}]
BY DEF Messages, Command

\* The gate lets a command in if the worker is idle, or if it is an interrupt
\* and the queue is empty.
LEMMA DispatchWork ==
    ASSUME WorkInv, NEW p \in Players, NEW c \in Messages, Dispatch(p, c)
    PROVE  WorkInv'
<1> USE DEF WorkInv, PcType, QueueType
<1> DEFINE S == [op : Ops, arg : Nums \cup {None}]
<1>0. queue[p] \in Seq(S) /\ Len(queue[p]) < 1 /\ queue' = [queue EXCEPT ![p] = Append(@, c)]
  BY DEF Dispatch, QueueMax
<1>1. /\ ~stopped /\ stopped' = stopped /\ queue[p] = <<>> /\ queue' = [queue EXCEPT ![p] = <<c>>]
  <2>1. queue[p] = <<>>
    <3>1. Len(queue[p]) \notin Nat \ {0}
      BY <1>0
    <3> HIDE DEF S
    <3> QED  BY <1>0, <3>1, EmptySeq
  <2> QED  BY <1>0, <2>1 DEF Dispatch
<1>2. c \in [op : Ops, arg : Nums \cup {None}]
  BY MessageType
<1>3. QueueType'
  <2>1. <<c>> \in Seq(S) /\ Len(<<c>>) = 1
    BY <1>2
  <2>2. queue' \in [Players -> Seq(S)]
    BY <1>1, <2>1
  <2>3. \A q \in Players : Len(queue'[q]) <= QueueMax
    BY <1>1, <2>1 DEF QueueMax
  <2> QED  BY <2>2, <2>3 DEF QueueMax
<1>4. /\ PcType' /\ pc'[p] = (IF pc[p] = "idle" THEN "ready" ELSE pc[p])
      /\ \A q \in Players \ {p} : pc'[q] = pc[q]
  BY DEF Dispatch, Locations
<1>5. pc[p] # "idle" => c.op \in Interrupts
  BY DEF Dispatch, ResponsePending
<1>6. queue'[p] = <<c>> /\ \A q \in Players \ {p} : queue'[q] = queue[q]
  BY <1>1
<1>7. WorkerServesQueue'
  BY <1>1, <1>4, <1>5, <1>6 DEF WorkerServesQueue, Awaits
<1> QED  BY <1>3, <1>4, <1>7

\* A handler starts, which empties the queue; goes on to its next await; or
\* ends.
HandlerMoves(p) ==
    \/ \E op \in Ops, l \in Awaits : Begin(p, op) /\ pc' = [pc EXCEPT ![p] = l]
    \/ /\ pc[p] \in Awaits /\ queue' = queue
       /\ Finish(p) \/ \E l \in Awaits : pc' = [pc EXCEPT ![p] = l]

\* All handlers are of that form.
LEMMA HandlerForm ==
    ASSUME QueueType, NEW p \in Players, Handler(p)
    PROVE  HandlerMoves(p) /\ stopped' = stopped
<1> USE DEF Goto, Call, Elsewhere
<1>1. stopped' = stopped
  BY DEF Handler, BeginInfo, ReplySent, HandlerRaises, BeginStart, AdvertSent, StartReturns, IntroSent,
         LookReturns, BeginEnd, BeginAdminEnd, EndReturns, EndReplySent, BeginWatch, BeginReset,
         ResetReturns, BeginGame, GameReturns, GameReplySent
<1>2. ASSUME NEW op, NEW l \in Awaits, Begin(p, op), pc' = [pc EXCEPT ![p] = l]
      PROVE  HandlerMoves(p)
  <2>0. queue[p] \in Seq([op : Ops, arg : Nums \cup {None}]) /\ queue[p] # <<>> /\ Head(queue[p]).op = op
    BY <1>2 DEF Begin, QueueType
  <2>1. op \in Ops
    <3> HIDE DEF Goto, Call, Elsewhere
    <3>1. Head(queue[p]) \in [op : Ops, arg : Nums \cup {None}]
      BY <2>0, HeadTailProperties
    <3> QED  BY <2>0, <3>1
  <2> QED  BY <1>2, <2>1 DEF HandlerMoves
<1>3. CASE BeginInfo(p) \/ BeginStart(p) \/ BeginEnd(p) \/ BeginAdminEnd(p) \/ BeginWatch(p)
           \/ BeginReset(p) \/ BeginGame(p)
  BY <1>2, <1>3 DEF BeginInfo, BeginStart, BeginEnd, BeginAdminEnd, BeginWatch, BeginReset, BeginGame,
                    Awaits
<1>4. CASE ReplySent(p) \/ HandlerRaises(p) \/ AdvertSent(p) \/ StartReturns(p) \/ IntroSent(p)
           \/ LookReturns(p) \/ EndReturns(p) \/ EndReplySent(p) \/ ResetReturns(p)
           \/ GameReturns(p) \/ GameReplySent(p)
  BY <1>4 DEF ReplySent, HandlerRaises, AdvertSent, StartReturns, IntroSent, LookReturns, EndReturns,
              EndReplySent, ResetReturns, GameReturns, GameReplySent, Awaits, HandlerMoves
<1> QED  BY <1>1, <1>3, <1>4 DEF Handler

\* A handler never leaves a command behind: at its end the worker goes on if
\* something waits.
LEMMA HandlerWork ==
    ASSUME WorkInv, NEW p \in Players, Handler(p)
    PROVE  WorkInv'
<1> USE DEF WorkInv, PcType, QueueType
<1>1. HandlerMoves(p) /\ stopped' = stopped
  BY HandlerForm
<1>2. ASSUME NEW op \in Ops, NEW l \in Awaits, Begin(p, op), pc' = [pc EXCEPT ![p] = l]
      PROVE  WorkInv'
  <2> DEFINE S == [op : Ops, arg : Nums \cup {None}]
  <2>0. /\ queue[p] \in Seq(S) /\ queue[p] # <<>> /\ Len(queue[p]) <= 1
        /\ queue' = [queue EXCEPT ![p] = Tail(@)]
    BY <1>2 DEF Begin, QueueMax
  <2>1. Tail(queue[p]) = <<>> /\ queue' = [queue EXCEPT ![p] = <<>>]
    <3> HIDE DEF S
    <3>1. Tail(queue[p]) \in Seq(S) /\ Len(Tail(queue[p])) = Len(queue[p]) - 1 /\ Len(queue[p]) \in Nat
      BY <2>0, HeadTailProperties, LenProperties
    <3>2. Len(Tail(queue[p])) \notin Nat \ {0}
      BY <2>0, <3>1
    <3>3. Tail(queue[p]) = <<>>
      BY <3>1, <3>2, EmptySeq
    <3> QED  BY <2>0, <3>3
  <2>2. QueueType' /\ queue'[p] = <<>> /\ \A q \in Players \ {p} : queue'[q] = queue[q]
    <3>1. <<>> \in Seq(S) /\ Len(<<>>) = 0
      BY EmptySeq
    <3>2. queue' \in [Players -> Seq(S)] /\ queue'[p] = <<>> /\ \A q \in Players \ {p} : queue'[q] = queue[q]
      BY <2>1, <3>1
    <3>3. ASSUME NEW q \in Players PROVE Len(queue'[q]) <= QueueMax
      <4>1. CASE q = p
        BY <3>1, <3>2, <4>1 DEF QueueMax
      <4>2. CASE q # p
        BY <3>2, <4>2
      <4> QED  BY <4>1, <4>2
    <3> QED  BY <3>2, <3>3 DEF QueueMax
  <2>3. PcType' /\ \A q \in Players \ {p} : pc'[q] = pc[q]
    BY <1>2 DEF Locations
  <2> QED  BY <1>1, <2>2, <2>3 DEF WorkerServesQueue
<1>3. ASSUME pc[p] \in Awaits, queue' = queue, NEW l \in Awaits, pc' = [pc EXCEPT ![p] = l]
      PROVE  WorkInv'
  BY <1>1, <1>3 DEF WorkerServesQueue, Locations, Awaits
<1>4. ASSUME pc[p] \in Awaits, queue' = queue, Finish(p) PROVE WorkInv'
  <2>1. /\ pc' = [pc EXCEPT ![p] = IF queue[p] = <<>> THEN "idle" ELSE "ready"]
    BY <1>4 DEF Finish
  <2>2. /\ PcType' /\ pc'[p] = IF queue[p] = <<>> THEN "idle" ELSE "ready"
        /\ \A q \in Players \ {p} : pc'[q] = pc[q]
    BY <2>1 DEF Locations
  <2> QED  BY <1>1, <1>4, <2>2 DEF WorkerServesQueue, Awaits
<1> QED  BY <1>1, <1>2, <1>3, <1>4 DEF HandlerMoves

\* Every step of the bot keeps the workers' invariant.
LEMMA BotWorkStep == WorkInv /\ [Next]_vars => WorkInv'
<1> SUFFICES ASSUME WorkInv, [Next]_vars PROVE WorkInv'
  OBVIOUS
<1>1. ASSUME UNCHANGED <<queue, pc, stopped>> PROVE WorkInv'
  BY <1>1 DEF WorkInv, PcType, QueueType, WorkerServesQueue
<1>2. ASSUME NEW p \in Players, Serve(p) PROVE WorkInv'
  BY <1>1, <1>2 DEF Serve, ServeStart, ServeEnd, ServeReset, ServeCommand, Answer
<1>3. ASSUME NEW p \in Players, ServeLate(p) \/ ServiceEnds(p) PROVE WorkInv'
  BY <1>1, <1>3 DEF ServeLate, ServiceEnds, taskVars
<1>4. CASE FanOutStep \/ PollSends \/ ServeList \/ PollFails \/ PollReturns \/ UNCHANGED vars
  BY <1>1, <1>4 DEF FanOutStep, PollSends, ServeList, PollFails, PollReturns, vars, taskVars
<1>5. CASE Stop
  <2>1. stopped' = TRUE
    BY <1>5 DEF Stop
  <2>2. queue' = queue /\ PcType'
    BY <1>5 DEF Stop, PcType, Locations
  <2>3. WorkerServesQueue'
    BY <2>1 DEF WorkerServesQueue
  <2> QED  BY <2>2, <2>3 DEF WorkInv, QueueType
<1> QED  BY <1>2, <1>3, <1>4, <1>5, DispatchWork, HandlerWork DEF Next

\* An accepted command always has a live worker, and waits behind another only
\* if it is an interrupt (_enqueue and _run_worker), for any players and any
\* interleaving with handlers that return, raise or await.
THEOREM BotWorkerServesQueue == Spec => []WorkerServesQueue
<1>1. Init => WorkInv
  BY DEF Init, WorkInv, PcType, QueueType, WorkerServesQueue, Locations, QueueMax
<1>2. WorkInv /\ [Next]_vars => WorkInv'
  BY BotWorkStep
<1>3. WorkInv => WorkerServesQueue
  BY DEF WorkInv
<1> QED  BY <1>1, <1>2, <1>3, PTL DEF Spec
-----------------------------------------------------------------------------
(* Types. *)

\* What the handlers carry across their awaits; a start or reset, which the
\* service may serve when its client is gone, is about a player.
TaskType ==
    /\ held \in [Players -> Nums \cup {None}]
    /\ who \in [Players -> Players \cup {NoPlayer}]
    /\ rpc \in [Players -> {"none", "sent", "half"} \cup Answers]
    /\ \A p \in Players : pc[p] \in {"start", "reset"} => who[p] \in Players

\* What the fan-out is doing, and the history.
SendType ==
    /\ fanItem \in [Nums -> {"none", "output", "ended"}]
    /\ fanTodo \in [Nums -> SUBSET Players]
    /\ told \in [Nums -> SUBSET Players]
    /\ endReason \in [Nums -> Reasons]

\* The service, the poller and shutdown.
RestType ==
    /\ game \subseteq Players /\ late \subseteq Players
    /\ poll \in {"off", "sleep", "sent", "answered"}
    /\ snapshot \subseteq Players
    /\ stopped \in BOOLEAN

TypeParts == TaskType /\ SendType /\ RestType

\* A handler suspends, calls or ends.
LEMMA TaskMoves ==
    ASSUME PcType, TaskType, NEW p \in Players,
           \/ Finish(p)
           \/ \E l : l \notin {"start", "reset"} /\ Goto(p, l)
           \/ \E l, q, n : q \in Players /\ n \in Nums \cup {None} /\ Call(p, l, q, n)
    PROVE  TaskType'
<1> USE DEF PcType, TaskType, Answers
<1>1. CASE Finish(p)
  <2>1. pc'[p] \in {"idle", "ready"} /\ \A q \in Players \ {p} : pc'[q] = pc[q] /\ who'[q] = who[q]
    BY <1>1 DEF Finish
  <2> QED  BY <1>1, <2>1 DEF Finish
<1>2. ASSUME NEW l, l \notin {"start", "reset"}, Goto(p, l) PROVE TaskType'
  BY <1>2 DEF Goto
<1>3. ASSUME NEW l, NEW q \in Players, NEW n \in Nums \cup {None}, Call(p, l, q, n) PROVE TaskType'
  BY <1>3 DEF Call
<1> QED  BY <1>1, <1>2, <1>3

\* The player a live number leads to is a player, and the record is that
\* number's.
LEMMA NumberLeads ==
    ASSUME RegInv, NEW n, get_session_by_num(n) # None
    PROVE  /\ n \in Nums /\ get_session_by_num(n) = n
           /\ numToPlayer[n] \in Players /\ sessions[numToPlayer[n]] = n
<1>1. n \in Nums /\ numToPlayer[n] # NoPlayer
  BY DEF get_session_by_num
<1>2. numToPlayer[n] \in Players
  BY <1>1 DEF RegInv, RegTypeOK
<1>3. sessions[numToPlayer[n]] = n
  BY <1>1, <1>2 DEF RegInv, IndexInverse
<1> QED  BY <1>1, <1>2, <1>3 DEF get_session_by_num

\* Every handler keeps the types of what it captured.
LEMMA HandlerTaskType ==
    ASSUME RegInv, PcType, TaskType, NEW p \in Players, Handler(p)
    PROVE  TaskType'
<1>1. sessions[p] \in Nums \cup {None}
  BY DEF RegInv, RegTypeOK
<1>2. CASE BeginAdminEnd(p)
  <2> DEFINE r == get_session_by_num(Arg(p))
  <2>1. CASE r # None /\ Call(p, "end", numToPlayer[r], r)
    <3>1. r \in Nums /\ numToPlayer[r] \in Players
      BY <2>1, NumberLeads
    <3> HIDE DEF r
    <3> QED  BY <2>1, <3>1, TaskMoves
  <2>2. CASE Goto(p, "reply")
    BY <2>2, TaskMoves
  <2> QED  BY <1>2, <2>1, <2>2 DEF BeginAdminEnd
<1>3. CASE \/ BeginInfo(p) \/ ReplySent(p) \/ HandlerRaises(p) \/ BeginStart(p) \/ LookReturns(p)
           \/ StartReturns(p) \/ EndReturns(p) \/ EndReplySent(p) \/ BeginWatch(p) \/ ResetReturns(p)
           \/ GameReturns(p) \/ GameReplySent(p)
  <2>1. Finish(p) \/ \E l : l \notin {"start", "reset"} /\ Goto(p, l)
    BY <1>3 DEF BeginInfo, ReplySent, HandlerRaises, BeginStart, LookReturns, StartReturns, EndReturns,
                EndReplySent, BeginWatch, ResetReturns, GameReturns, GameReplySent
  <2> QED  BY <2>1, TaskMoves
<1>4. CASE AdvertSent(p) \/ IntroSent(p) \/ BeginEnd(p) \/ BeginReset(p) \/ BeginGame(p)
  <2>1. \/ Finish(p) \/ \E l : l \notin {"start", "reset"} /\ Goto(p, l)
        \/ \E l, n : n \in {None, sessions[p]} /\ Call(p, l, p, n)
    BY <1>4 DEF AdvertSent, IntroSent, BeginEnd, BeginReset, BeginGame
  <2> QED  BY <1>1, <2>1, TaskMoves
<1> QED  BY <1>2, <1>3, <1>4 DEF Handler

\* The reason of a removal is one of the reasons.
LEMMA RemoveAsType ==
    ASSUME SendType, NEW S, NEW reason \in Reasons, RemoveAs(S, reason),
           UNCHANGED <<fanItem, fanTodo, told>>
    PROVE  SendType'
BY DEF SendType, RemoveAs

\* Every handler keeps the fan-out's types.
LEMMA HandlerSendType ==
    ASSUME SendType, NEW p \in Players, Handler(p)
    PROVE  SendType'
<1> USE DEF fanVars, FanQueueUnchanged
<1>1. CASE \/ BeginInfo(p) \/ ReplySent(p) \/ BeginStart(p) \/ AdvertSent(p) \/ IntroSent(p)
           \/ LookReturns(p) \/ BeginWatch(p) \/ BeginGame(p) \/ EndReturns(p)
  BY <1>1 DEF BeginInfo, ReplySent, BeginStart, AdvertSent, IntroSent, LookReturns, BeginWatch,
              BeginGame, EndReturns, SendType
<1>2. CASE HandlerRaises(p)
  BY <1>2 DEF HandlerRaises, SendType, Reasons
<1>3. CASE StartReturns(p) \/ ResetReturns(p)
  <2>1. UNCHANGED fanVars \/ AddAs(p)
    BY <1>3 DEF StartReturns, ResetReturns
  <2> QED  BY <2>1 DEF AddAs, SendType, Reasons
<1>4. CASE BeginEnd(p) \/ BeginAdminEnd(p) \/ GameReturns(p) \/ BeginReset(p)
  <2>1. \/ UNCHANGED fanVars
        \/ \E S, reason : reason \in Reasons /\ RemoveAs(S, reason) /\ FanQueueUnchanged
    BY <1>4 DEF BeginEnd, BeginAdminEnd, GameReturns, BeginReset, Reasons
  <2>2. CASE UNCHANGED fanVars
    BY <2>2 DEF SendType
  <2> QED  BY <2>1, <2>2, RemoveAsType
<1>5. CASE EndReplySent(p) \/ GameReplySent(p)
  <2>1. UNCHANGED <<fanItem, fanTodo, told, endReason>>
    BY <1>5 DEF EndReplySent, GameReplySent, Fanout, FanoutAll
  <2> QED  BY <2>1 DEF SendType
<1> QED  BY <1>1, <1>2, <1>3, <1>4, <1>5 DEF Handler

\* The consumer's steps keep the fan-out's types.
LEMMA FanSendType ==
    ASSUME RegTypeOK, FanShape, SendType, NEW n \in Nums, FanStep(n)
    PROVE  SendType'
<1> USE DEF SendType
<1>1. CASE FanTake(n)
  <2>1. watchers[n] \in SUBSET Players
    BY DEF RegTypeOK
  <2>2. Head(fanQueue[n]) \in {"output", "ended"}
    <3>1. fanQueue[n] \in Seq({"output", "ended"}) /\ fanQueue[n] # <<>>
      BY <1>1 DEF FanTake, FanShape
    <3> QED  BY <3>1, HeadTailProperties
  <2> QED  BY <1>1, <2>1, <2>2 DEF FanTake
<1>2. ASSUME NEW w \in Players, FanSend(n, w) PROVE SendType'
  <2>1. fanItem' = [fanItem EXCEPT ![n] = "none"] \/ fanItem' = fanItem
    BY <1>2 DEF FanSend
  <2>2. fanTodo' \in [Nums -> SUBSET Players] /\ endReason' = endReason
    BY <1>2 DEF FanSend
  <2>3. told' = [told EXCEPT ![n] = @ \cup {w}] \/ told' = told
    BY <1>2 DEF FanSend
  <2> QED  BY <2>1, <2>2, <2>3
<1>3. CASE FanRaise(n)
  BY <1>3 DEF FanRaise, Reasons
<1>4. CASE FanExit(n) \/ \E k \in {"cur", "old"} : FanCallback(n, k)
  BY <1>4 DEF FanExit, FanCallback
<1> QED  BY <1>1, <1>2, <1>3, <1>4 DEF FanStep

\* Every step of the bot keeps the parts of its type.
LEMMA BotTypeStep ==
    ASSUME BotInv, FanInv, TypeParts, [Next]_vars
    PROVE  TypeParts'
<1> USE DEF TypeParts
<1>1. ASSUME UNCHANGED <<fanItem, fanTodo, told, endReason>> PROVE SendType'
  BY <1>1 DEF SendType
<1>2. ASSUME UNCHANGED <<held, who, rpc>>,
             \A q \in Players : pc'[q] \in {"start", "reset"} => pc[q] \in {"start", "reset"}
      PROVE  TaskType'
  BY <1>2 DEF TaskType
<1>3. ASSUME UNCHANGED <<gameVars, pollVars, stopped>> PROVE RestType'
  BY <1>3 DEF RestType, gameVars, pollVars
<1>4. ASSUME NEW p \in Players, NEW c \in Messages, Dispatch(p, c) PROVE TypeParts'
  <2>1. \A q \in Players : pc'[q] \in {"start", "reset"} => pc[q] \in {"start", "reset"}
    BY <1>4 DEF Dispatch, BotInv, PcType
  <2> QED  BY <1>1, <1>2, <1>3, <1>4, <2>1 DEF Dispatch, fanVars
<1>5. ASSUME NEW p \in Players, Handler(p) PROVE TypeParts'
  <2>1. CASE HandlerRaises(p)
    <3>1. RestType'
      <4>1. late' = late \/ (pc[p] \in {"start", "reset"} /\ late' = late \cup {who[p]})
        BY <2>1 DEF HandlerRaises
      <4>2. late' \subseteq Players
        BY <4>1 DEF RestType, TaskType
      <4> QED  BY <2>1, <4>2 DEF HandlerRaises, RestType, pollVars
    <3> QED  BY <1>5, <3>1, HandlerTaskType, HandlerSendType DEF BotInv
  <2>2. CASE ~HandlerRaises(p)
    <3>1. Elsewhere
      BY <1>5, <2>2 DEF Handler, BeginInfo, ReplySent, BeginStart, AdvertSent, StartReturns, IntroSent,
                        LookReturns, BeginEnd, BeginAdminEnd, EndReturns, EndReplySent, BeginWatch,
                        BeginReset, ResetReturns, BeginGame, GameReturns, GameReplySent
    <3> QED  BY <1>3, <1>5, <3>1, HandlerTaskType, HandlerSendType DEF BotInv, Elsewhere
  <2> QED  BY <2>1, <2>2
<1>6. ASSUME NEW p \in Players, Serve(p) PROVE TypeParts'
  <2>1. \E a \in {"half"} \cup Answers, g \in SUBSET Players : Answer(p, a, g)
    <3> USE DEF TaskType, RestType, Answers
    <3>1. CASE ServeStart(p)
      <4>1. game \in SUBSET Players /\ game \cup {who[p]} \in SUBSET Players
        BY <3>1 DEF ServeStart
      <4> QED  BY <3>1, <4>1 DEF ServeStart
    <3>2. CASE ServeEnd(p)
      <4>1. game \in SUBSET Players /\ game \ {who[p]} \in SUBSET Players
        OBVIOUS
      <4> QED  BY <3>2, <4>1 DEF ServeEnd
    <3>3. CASE ServeReset(p)
      <4>1. /\ game \in SUBSET Players /\ game \ {who[p]} \in SUBSET Players
            /\ game \cup {who[p]} \in SUBSET Players
        BY <3>3 DEF ServeReset
      <4> QED  BY <3>3, <4>1 DEF ServeReset
    <3>4. CASE ServeCommand(p)
      BY <3>4 DEF ServeCommand
    <3> QED  BY <1>6, <3>1, <3>2, <3>3, <3>4 DEF Serve
  <2>2. PICK a \in {"half"} \cup Answers, g \in SUBSET Players : Answer(p, a, g)
    BY <2>1
  <2>3. TaskType'
    BY <2>2 DEF Answer, TaskType
  <2>4. RestType'
    BY <2>2 DEF Answer, RestType, pollVars
  <2> QED  BY <1>1, <2>2, <2>3, <2>4 DEF Answer, fanVars
<1>7. ASSUME NEW p \in Players, ServeLate(p) \/ ServiceEnds(p) PROVE TypeParts'
  <2>1. RestType'
    BY <1>7 DEF ServeLate, ServiceEnds, RestType, pollVars
  <2> QED  BY <1>1, <1>2, <1>7, <2>1 DEF ServeLate, ServiceEnds, fanVars, taskVars
<1>8. CASE FanOutStep
  <2>1. SendType'
    BY <1>8, FanSendType DEF FanOutStep, BotInv, RegInv, FanInv
  <2> QED  BY <1>2, <1>3, <1>8, <2>1 DEF FanOutStep, taskVars
<1>9. CASE PollSends \/ ServeList \/ PollFails \/ PollReturns
  <2>1. RestType'
    BY <1>9 DEF PollSends, ServeList, PollFails, PollReturns, RestType, gameVars
  <2>2. SendType'
    <3>1. CASE PollReturns
      BY <3>1, RemoveAsType DEF PollReturns, FanoutAll, Reasons
    <3> QED  BY <1>1, <1>9, <3>1 DEF PollSends, ServeList, PollFails, fanVars
  <2> QED  BY <1>2, <1>9, <2>1, <2>2 DEF PollSends, ServeList, PollFails, PollReturns, taskVars
<1>10. CASE Stop
  <2>1. TaskType' /\ RestType'
    BY <1>10 DEF Stop, TaskType, RestType, gameVars
  <2>2. endReason' \in [Nums -> Reasons]
    BY <1>10 DEF Stop, RemoveAs, SendType, Reasons
  <2>3. SendType'
    BY <1>10, <2>2 DEF Stop, SendType
  <2> QED  BY <2>1, <2>3
<1>11. CASE UNCHANGED vars
  BY <1>1, <1>2, <1>3, <1>11 DEF vars, fanVars, taskVars
<1> QED  BY <1>4, <1>5, <1>6, <1>7, <1>8, <1>9, <1>10, <1>11 DEF Next

\* Everything the bot's invariants rest on.
TypeInv == BotInv /\ FanInv /\ WorkInv /\ TypeParts

\* The bot starts in TypeInv and never leaves it.
LEMMA BotTypeInvariant == Spec => []TypeInv
<1>1. Init => TypeInv
  <2> SUFFICES ASSUME Init PROVE TypeInv
    OBVIOUS
  <2>1. BotInv
    BY RegInitInv DEF Init, BotInv, PcType, StartingHasNoSession, Locations
  <2>2. FanInv
    BY FanInitInv DEF Init, FanInit
  <2>3. WorkInv
    BY <2>1 DEF Init, WorkInv, BotInv, QueueType, WorkerServesQueue, QueueMax
  <2>4. TypeParts
    BY DEF Init, FanInit, TypeParts, TaskType, SendType, RestType, Reasons
  <2> QED  BY <2>1, <2>2, <2>3, <2>4 DEF TypeInv
<1>2. TypeInv /\ [Next]_vars => TypeInv'
  BY BotStep, BotFanStep, BotWorkStep, BotTypeStep DEF TypeInv
<1> QED  BY <1>1, <1>2, PTL DEF Spec

\* Every variable of the bot keeps its type.
THEOREM BotTypeOK == Spec => []TypeOK
<1>1. TypeInv => TypeOK
  BY DEF TypeInv, BotInv, RegInv, FanInv, FanShape, WorkInv, PcType, QueueType, TypeParts, TaskType,
         SendType, RestType, TypeOK, FanTypeOK
<1> QED  BY <1>1, BotTypeInvariant, PTL
-----------------------------------------------------------------------------
(* The notice watchers are owed. *)

Owed == {"player_end", "admin_end", "polled"}

\* The three places a notice about n can be, apart from the told watchers.
OnItsWay(n) == \E p \in Players : held[p] = n /\ pc[p] \in {"end", "endReply"}
Queued(n) == \E i \in DOMAIN fanQueue[n] : fanQueue[n][i] = "ended"
BeingSent(n, w) == fanTask[n] = "sending" /\ fanItem[n] = "ended" /\ w \in fanTodo[n]
Covered(n, w) == w \in told[n] \/ OnItsWay(n) \/ Queued(n) \/ BeingSent(n, w)

\* A session whose watchers are owed a notice has left the registry, so that
\* nobody can become its watcher any more.
OwedGone == \A n \in Nums : endReason[n] \in Owed => numToPlayer[n] = NoPlayer

OwedInv == TypeInv /\ OwedGone /\ NoticeOwed

\* What every step has to show of each number.
OwedKept(n) ==
    endReason'[n] \in Owed =>
        /\ numToPlayer'[n] = NoPlayer
        /\ stopped' \/ \A w \in watchers'[n] : Covered(n, w)'

\* NoticeOwed in these words.
LEMMA NoticeCovered ==
    /\ NoticeOwed <=> (~stopped => \A n \in Nums : endReason[n] \in Owed =>
                                      \A w \in watchers[n] : Covered(n, w))
    /\ NoticeOwed' <=> (~stopped' => \A n \in Nums : endReason'[n] \in Owed =>
                                        \A w \in watchers'[n] : Covered(n, w)')
BY DEF NoticeOwed, Owed, Covered, OnItsWay, Queued, BeingSent

\* That is enough.
LEMMA OwedKeptInv ==
    ASSUME OwedInv, TypeInv', \A n \in Nums : OwedKept(n)
    PROVE  OwedInv'
<1>1. OwedGone'
  BY DEF OwedKept, OwedGone
<1>2. NoticeOwed'
  BY NoticeCovered DEF OwedKept
<1> QED  BY <1>1, <1>2 DEF OwedInv

\* What is owed stays covered when no place loses its notice.
LEMMA StillCovered ==
    ASSUME OwedInv, NEW n \in Nums, endReason[n] \in Owed, numToPlayer'[n] = NoPlayer,
           stopped' = stopped, watchers'[n] \subseteq watchers[n], told[n] \subseteq told'[n],
           OnItsWay(n) => OnItsWay(n)' \/ Queued(n)', Queued(n) => Queued(n)',
           fanTask[n] = "sending" => fanTask'[n] = "sending",
           fanItem'[n] = fanItem[n], fanTodo'[n] = fanTodo[n]
    PROVE  OwedKept(n)
<1> SUFFICES ASSUME ~stopped, NEW w \in watchers'[n] PROVE Covered(n, w)'
  BY DEF OwedKept
<1>1. Covered(n, w)
  BY NoticeCovered DEF OwedInv
<1>2. BeingSent(n, w) => BeingSent(n, w)'
  BY DEF BeingSent
<1> QED  BY <1>1, <1>2 DEF Covered

\* A handler that was not on its way to the notice of n takes none away.
LEMMA OtherWay ==
    ASSUME TypeInv, NEW p \in Players, NEW n \in Nums,
           \A q \in Players \ {p} : pc'[q] = pc[q] /\ held'[q] = held[q],
           pc[p] \in {"end", "endReply"} => held[p] # n
    PROVE  OnItsWay(n) => OnItsWay(n)'
BY DEF OnItsWay

\* _fanout appends, and does not disturb what is being sent: a running task
\* is the registered one.
LEMMA FanoutKeepsNotices ==
    ASSUME TypeInv, NEW N, NEW item \in {"output", "ended"}, FanoutAll(N, item), NEW n \in Nums
    PROVE  /\ told' = told /\ fanItem' = fanItem /\ fanTodo' = fanTodo
           /\ Queued(n) => Queued(n)'
           /\ n \in N /\ item = "ended" => Queued(n)'
           /\ fanTask[n] = "sending" => fanTask'[n] = "sending"
<1>1. told' = told /\ fanItem' = fanItem /\ fanTodo' = fanTodo
  BY DEF FanoutAll
<1>2. fanQueue[n] \in Seq({"output", "ended"})
  BY DEF TypeInv, FanInv, FanShape
<1>3. fanQueue'[n] = IF n \in N THEN Append(fanQueue[n], item) ELSE fanQueue[n]
  BY DEF FanoutAll
<1>4. fanTask[n] = "sending" => fanTask'[n] = "sending"
  <2>1. fanTask[n] = "sending" => fanReg[n]
    BY DEF TypeInv, FanInv, OneConsumer
  <2> QED  BY <2>1 DEF FanoutAll
<1>5. CASE n \in N
  <2> DEFINE s == fanQueue[n]
  <2>1. /\ fanQueue'[n] = Append(s, item) /\ Len(s) \in Nat /\ DOMAIN s = 1..Len(s)
        /\ DOMAIN Append(s, item) = 1..(Len(s) + 1)
        /\ Append(s, item)[Len(s) + 1] = item /\ \A i \in 1..Len(s) : Append(s, item)[i] = s[i]
    BY <1>2, <1>3, <1>5
  <2>2. Len(s) + 1 \in 1..(Len(s) + 1) /\ \A i \in 1..Len(s) : i \in 1..(Len(s) + 1)
    BY <2>1
  <2> HIDE DEF s
  <2>3. (\E i \in DOMAIN s : s[i] = "ended") => Queued(n)'
    BY <2>1, <2>2 DEF Queued
  <2>4. item = "ended" => Queued(n)'
    BY <2>1, <2>2 DEF Queued
  <2>5. Queued(n) => Queued(n)'
    BY <2>3 DEF Queued, s
  <2> QED  BY <1>1, <1>4, <2>4, <2>5
<1>6. CASE n \notin N
  BY <1>1, <1>3, <1>4, <1>6 DEF Queued
<1> QED  BY <1>5, <1>6

\* Registry steps other than add_session drop numbers and, from a dropped
\* record, at most watchers.
LEMMA DroppedStays ==
    ASSUME RegInv, NEW n \in Nums, numToPlayer[n] = NoPlayer,
           \/ UNCHANGED regVars
           \/ \E S : remove_sessions(S)
           \/ \E w \in Players : \E m : add_watcher(w, m)
           \/ \E w \in Players : remove_watcher(w)
    PROVE  numToPlayer'[n] = NoPlayer /\ watchers'[n] \subseteq watchers[n]
<1>1. CASE UNCHANGED regVars \/ \E S : remove_sessions(S)
  BY <1>1 DEF regVars, remove_sessions
<1>2. ASSUME NEW w \in Players, NEW m, add_watcher(w, m)
      PROVE  numToPlayer'[n] = NoPlayer /\ watchers'[n] \subseteq watchers[n]
  <2> DEFINE r == get_session_by_num(m)
  <2>1. r # None /\ numToPlayer' = numToPlayer /\ watchers' = [watchers EXCEPT ![r] = @ \cup {w}]
    BY <1>2 DEF add_watcher, CanAddWatcher
  <2>2. r # n
    BY <2>1, NumberLeads, RegistryAssumption
  <2> HIDE DEF r
  <2> QED  BY <2>1, <2>2 DEF RegInv, RegTypeOK
<1>3. ASSUME NEW w \in Players, remove_watcher(w)
      PROVE  numToPlayer'[n] = NoPlayer /\ watchers'[n] \subseteq watchers[n]
  <2> DEFINE r == get_session_by_num(watching[w])
  <2>1. /\ numToPlayer' = numToPlayer
        /\ watchers' = IF r = None THEN watchers ELSE [watchers EXCEPT ![r] = @ \ {w}]
    BY <1>3 DEF remove_watcher
  <2> HIDE DEF r
  <2> QED  BY <2>1 DEF RegInv, RegTypeOK
<1> QED  BY <1>1, <1>2, <1>3

\* A handler only moves itself.
LEMMA OwnMove ==
    ASSUME TypeInv, NEW p \in Players,
           \/ Finish(p)
           \/ \E l : Goto(p, l)
           \/ \E l, q, n : Call(p, l, q, n)
    PROVE  \A q \in Players \ {p} : pc'[q] = pc[q] /\ held'[q] = held[q]
<1> USE DEF TypeInv, BotInv, PcType, TypeParts, TaskType
<1>1. CASE Finish(p)
  BY <1>1 DEF Finish
<1>2. CASE \E l : Goto(p, l)
  BY <1>2 DEF Goto
<1>3. CASE \E l, q, n : Call(p, l, q, n)
  BY <1>3 DEF Call
<1> QED  BY <1>1, <1>2, <1>3

\* What a step may do to the registry without a new session.
NoNewSession ==
    \/ UNCHANGED regVars
    \/ \E S : remove_sessions(S)
    \/ \E w \in Players : \E m : add_watcher(w, m)
    \/ \E w \in Players : remove_watcher(w)

\* A step that has to do with no notice.
LEMMA QuietOwed ==
    ASSUME OwedInv, NEW p \in Players, NEW n \in Nums, stopped' = stopped,
           \A q \in Players \ {p} : pc'[q] = pc[q] /\ held'[q] = held[q],
           pc[p] \in {"end", "endReply"} => held[p] # n,
           NoNewSession, FanQueueUnchanged, endReason'[n] \in Owed => endReason[n] \in Owed
    PROVE  OwedKept(n)
<1> SUFFICES ASSUME endReason[n] \in Owed PROVE OwedKept(n)
  BY DEF OwedKept
<1>1. TypeInv /\ RegInv /\ numToPlayer[n] = NoPlayer
  BY DEF OwedInv, OwedGone, TypeInv, BotInv
<1>2. numToPlayer'[n] = NoPlayer /\ watchers'[n] \subseteq watchers[n]
  BY <1>1, DroppedStays DEF NoNewSession
<1>3. OnItsWay(n) => OnItsWay(n)'
  BY <1>1, OtherWay
<1>4. /\ told'[n] = told[n] /\ fanTask'[n] = fanTask[n] /\ fanItem'[n] = fanItem[n]
      /\ fanTodo'[n] = fanTodo[n] /\ (Queued(n) => Queued(n)')
  BY DEF FanQueueUnchanged, Queued
<1> QED  BY <1>2, <1>3, <1>4, StillCovered

\* A removal for any other reason.
LEMMA DropOwed ==
    ASSUME OwedInv, NEW p \in Players, NEW n \in Nums, stopped' = stopped,
           Goto(p, "reply") \/ Call(p, "reset", p, None),
           pc[p] \notin {"end", "endReply"},
           NEW S, NEW reason, reason \notin Owed, RemoveAs(S, reason), FanQueueUnchanged
    PROVE  OwedKept(n)
<1>1. endReason'[n] \in Owed => endReason[n] \in Owed
  BY DEF RemoveAs
<1>2. NoNewSession
  BY DEF RemoveAs, NoNewSession
<1>3. \A q \in Players \ {p} : pc'[q] = pc[q] /\ held'[q] = held[q]
  BY OwnMove DEF OwedInv
<1> QED  BY <1>1, <1>2, <1>3, QuietOwed

\* handle_end takes the record out and is from then on on its way.
LEMMA EndOwed ==
    ASSUME OwedInv, NEW p \in Players, NEW q \in Players, NEW n \in Nums, stopped' = stopped,
           pc[p] = "ready", NEW reason, RemoveAs({q}, reason),
           Call(p, "end", q, sessions[q]), FanQueueUnchanged
    PROVE  OwedKept(n)
<1>1. \A o \in Players \ {p} : pc'[o] = pc[o] /\ held'[o] = held[o]
  BY OwnMove DEF OwedInv
<1>2. NoNewSession
  BY DEF RemoveAs, NoNewSession
<1>3. CASE n # sessions[q]
  <2>1. endReason'[n] = endReason[n]
    BY <1>3 DEF RemoveAs
  <2> QED  BY <1>1, <1>2, <2>1, QuietOwed
<1>4. CASE n = sessions[q]
  <2>1. n # None
    BY DEF Nums, None
  <2>2. numToPlayer'[n] = NoPlayer
    BY <1>4, <2>1 DEF RemoveAs, remove_sessions
  <2>3. pc'[p] = "end" /\ held'[p] = n
    BY <1>4 DEF Call, OwedInv, TypeInv, BotInv, PcType, TypeParts, TaskType
  <2>4. OnItsWay(n)'
    BY <2>3 DEF OnItsWay
  <2> QED  BY <2>2, <2>4 DEF OwedKept, Covered
<1> QED  BY <1>3, <1>4

\* A new session has a new number, and nobody is owed anything about it.
LEMMA AddOwed ==
    ASSUME OwedInv, NEW p \in Players, NEW n \in Nums, stopped' = stopped,
           pc[p] \in {"start", "reset"}, AddAs(p), Goto(p, "intro")
    PROVE  OwedKept(n)
<1>1. TypeInv /\ RegTypeOK /\ SendType
  BY DEF OwedInv, TypeInv, BotInv, RegInv, TypeParts
<1>2. CASE n = nextNum
  <2>1. endReason'[n] = "live"
    BY <1>1, <1>2 DEF AddAs, SendType
  <2> QED  BY <2>1 DEF OwedKept, Owed
<1>3. CASE n # nextNum
  <2>1. numToPlayer'[n] = numToPlayer[n] /\ watchers'[n] = watchers[n]
    BY <1>1, <1>3 DEF AddAs, add_session, RegTypeOK
  <2>2. endReason'[n] = endReason[n]
    BY <1>1, <1>3 DEF AddAs, SendType
  <2> SUFFICES ASSUME endReason[n] \in Owed PROVE OwedKept(n)
    BY <2>2 DEF OwedKept
  <2>3. OnItsWay(n) => OnItsWay(n)'
    BY <1>1, OwnMove, OtherWay
  <2>4. /\ told'[n] = told[n] /\ fanTask'[n] = fanTask[n] /\ fanItem'[n] = fanItem[n]
        /\ fanTodo'[n] = fanTodo[n] /\ (Queued(n) => Queued(n)')
    BY DEF AddAs, FanQueueUnchanged, Queued
  <2>5. numToPlayer'[n] = NoPlayer
    BY <2>1 DEF OwedInv, OwedGone
  <2> QED  BY <2>1, <2>3, <2>4, <2>5, StillCovered
<1> QED  BY <1>2, <1>3

\* _fanout by a handler at the end of its way: its own notice is queued.
LEMMA FanoutOwed ==
    ASSUME OwedInv, NEW p \in Players, NEW n \in Nums, stopped' = stopped,
           NEW item \in {"output", "ended"}, Fanout(held[p], item), Finish(p),
           pc[p] \in {"end", "endReply"} => item = "ended",
           UNCHANGED <<regVars, endReason>>
    PROVE  OwedKept(n)
<1> SUFFICES ASSUME endReason[n] \in Owed PROVE OwedKept(n)
  BY DEF OwedKept
<1>1. TypeInv /\ numToPlayer'[n] = NoPlayer /\ watchers'[n] = watchers[n]
  BY DEF OwedInv, OwedGone, regVars
<1>2. /\ told' = told /\ fanItem' = fanItem /\ fanTodo' = fanTodo
      /\ Queued(n) => Queued(n)'
      /\ n \in {held[p]} /\ item = "ended" => Queued(n)'
      /\ fanTask[n] = "sending" => fanTask'[n] = "sending"
  BY <1>1, FanoutKeepsNotices DEF Fanout
<1>3. OnItsWay(n) => OnItsWay(n)' \/ Queued(n)'
  <2>1. CASE pc[p] \in {"end", "endReply"} /\ held[p] = n
    BY <1>2, <2>1
  <2>2. CASE ~(pc[p] \in {"end", "endReply"} /\ held[p] = n)
    BY <1>1, <2>2, OwnMove, OtherWay
  <2> QED  BY <2>1, <2>2
<1> QED  BY <1>1, <1>2, <1>3, StillCovered

\* Handlers that reply, ask or watch.
LEMMA ReplyOwed ==
    ASSUME OwedInv, NEW p \in Players, NEW n \in Nums, stopped' = stopped,
           \/ BeginInfo(p) \/ ReplySent(p) \/ BeginStart(p) \/ AdvertSent(p) \/ IntroSent(p)
           \/ LookReturns(p) \/ BeginWatch(p) \/ BeginGame(p)
    PROVE  OwedKept(n)
<1> USE DEF BeginInfo, ReplySent, BeginStart, AdvertSent, IntroSent, LookReturns, BeginWatch, BeginGame
<1>1. Finish(p) \/ (\E l : Goto(p, l)) \/ (\E l, q, m : Call(p, l, q, m))
  OBVIOUS
<1>2. pc[p] \notin {"end", "endReply"}
  BY DEF Begin
<1>3. UNCHANGED fanVars
  OBVIOUS
<1>4. UNCHANGED regVars \/ \E w \in Players : \E m : add_watcher(w, m)
  OBVIOUS
<1>5. /\ \A q \in Players \ {p} : pc'[q] = pc[q] /\ held'[q] = held[q]
      /\ NoNewSession /\ FanQueueUnchanged /\ endReason'[n] = endReason[n]
  BY <1>1, <1>3, <1>4, OwnMove DEF NoNewSession, FanQueueUnchanged, fanVars, OwedInv
<1> QED  BY <1>2, <1>5, QuietOwed

\* A handler's branch that only replies.
LEMMA GotoOwed ==
    ASSUME OwedInv, NEW p \in Players, NEW n \in Nums, stopped' = stopped,
           pc[p] \notin {"end", "endReply"},
           Finish(p) \/ \E l : Goto(p, l), UNCHANGED fanVars,
           UNCHANGED regVars \/ remove_watcher(p)
    PROVE  OwedKept(n)
<1>1. /\ \A q \in Players \ {p} : pc'[q] = pc[q] /\ held'[q] = held[q]
      /\ NoNewSession /\ FanQueueUnchanged /\ endReason'[n] = endReason[n]
  BY OwnMove DEF NoNewSession, FanQueueUnchanged, fanVars, OwedInv
<1> QED  BY <1>1, QuietOwed

\* A handler that raises takes its own notice along, and the history says so.
LEMMA RaiseOwed ==
    ASSUME OwedInv, NEW p \in Players, NEW n \in Nums, stopped' = stopped, HandlerRaises(p)
    PROVE  OwedKept(n)
<1>1. /\ endReason'[n] = IF n = held[p] /\ pc[p] \in {"end", "endReply"} THEN "lost" ELSE endReason[n]
      /\ Finish(p) /\ FanQueueUnchanged /\ UNCHANGED regVars
  BY DEF HandlerRaises
<1>2. CASE n = held[p] /\ pc[p] \in {"end", "endReply"}
  BY <1>1, <1>2 DEF OwedKept, Owed
<1>3. CASE ~(n = held[p] /\ pc[p] \in {"end", "endReply"})
  <2>1. \A q \in Players \ {p} : pc'[q] = pc[q] /\ held'[q] = held[q]
    BY <1>1, OwnMove DEF OwedInv
  <2>2. NoNewSession /\ endReason'[n] = endReason[n]
    BY <1>1, <1>3 DEF NoNewSession
  <2> QED  BY <1>1, <1>3, <2>1, <2>2, QuietOwed
<1> QED  BY <1>2, <1>3

\* end_session's answer keeps the handler on its way.
LEMMA EndReturnsOwed ==
    ASSUME OwedInv, NEW p \in Players, NEW n \in Nums, stopped' = stopped, EndReturns(p)
    PROVE  OwedKept(n)
<1> SUFFICES ASSUME endReason[n] \in Owed PROVE OwedKept(n)
  BY DEF OwedKept, EndReturns, fanVars
<1>1. TypeInv /\ numToPlayer'[n] = NoPlayer /\ watchers'[n] = watchers[n]
  BY DEF OwedInv, OwedGone, EndReturns, regVars
<1>2. OnItsWay(n) => OnItsWay(n)'
  <2>1. held' = held /\ pc' = [pc EXCEPT ![p] = "endReply"] /\ pc \in [Players -> Locations]
    BY <1>1 DEF EndReturns, Goto, TypeInv, BotInv, PcType
  <2>2. \A q \in Players : pc[q] \in {"end", "endReply"} => pc'[q] \in {"end", "endReply"}
    BY <2>1
  <2> QED  BY <2>1, <2>2 DEF OnItsWay
<1>3. /\ told'[n] = told[n] /\ fanTask'[n] = fanTask[n] /\ fanItem'[n] = fanItem[n]
      /\ fanTodo'[n] = fanTodo[n] /\ (Queued(n) => Queued(n)')
  BY DEF EndReturns, fanVars, Queued
<1> QED  BY <1>1, <1>2, <1>3, StillCovered

\* Every handler keeps what is owed.
LEMMA HandlerOwed ==
    ASSUME OwedInv, NEW p \in Players, NEW n \in Nums, Handler(p)
    PROVE  OwedKept(n)
<1>1. stopped' = stopped
  BY HandlerForm DEF OwedInv, TypeInv, WorkInv
<1>2. CASE \/ BeginInfo(p) \/ ReplySent(p) \/ BeginStart(p) \/ AdvertSent(p) \/ IntroSent(p)
           \/ LookReturns(p) \/ BeginWatch(p) \/ BeginGame(p)
  BY <1>1, <1>2, ReplyOwed
<1>3. CASE HandlerRaises(p) \/ EndReturns(p)
  BY <1>1, <1>3, RaiseOwed, EndReturnsOwed
<1>4. CASE StartReturns(p) \/ ResetReturns(p)
  <2>1. pc[p] \in {"start", "reset"}
    BY <1>4 DEF StartReturns, ResetReturns
  <2>2. \/ AddAs(p) /\ Goto(p, "intro")
        \/ Goto(p, "reply") /\ UNCHANGED <<regVars, fanVars>>
    BY <1>4 DEF StartReturns, ResetReturns
  <2> QED  BY <1>1, <2>1, <2>2, AddOwed, GotoOwed
<1>5. CASE BeginReset(p)
  <2>1. /\ RemoveAs({p}, "reset") /\ Call(p, "reset", p, None) /\ FanQueueUnchanged
        /\ pc[p] \notin {"end", "endReply"}
    BY <1>5 DEF BeginReset, Begin
  <2> QED  BY <1>1, <2>1, DropOwed DEF Owed
<1>6. CASE GameReturns(p)
  <2>1. pc[p] \notin {"end", "endReply"}
    BY <1>6 DEF GameReturns
  <2>2. \/ RemoveAs({p}, "not_found") /\ Goto(p, "reply") /\ FanQueueUnchanged
        \/ (Goto(p, "reply") \/ Goto(p, "gameReply") \/ Finish(p)) /\ UNCHANGED <<regVars, fanVars>>
    BY <1>6 DEF GameReturns
  <2>3. CASE RemoveAs({p}, "not_found") /\ Goto(p, "reply") /\ FanQueueUnchanged
    BY <1>1, <2>1, <2>3, DropOwed DEF Owed
  <2>4. CASE (Finish(p) \/ \E l : Goto(p, l)) /\ UNCHANGED <<regVars, fanVars>>
    BY <1>1, <2>1, <2>4, GotoOwed
  <2> QED  BY <2>2, <2>3, <2>4
<1>7. CASE BeginEnd(p)
  <2>1. pc[p] = "ready"
    BY <1>7 DEF BeginEnd, Begin
  <2>2. \/ RemoveAs({p}, "player_end") /\ Call(p, "end", p, sessions[p]) /\ FanQueueUnchanged
        \/ Goto(p, "reply") /\ (UNCHANGED regVars \/ remove_watcher(p)) /\ UNCHANGED fanVars
    BY <1>7 DEF BeginEnd
  <2> QED  BY <1>1, <2>1, <2>2, EndOwed, GotoOwed
<1>8. CASE BeginAdminEnd(p)
  <2> DEFINE r == get_session_by_num(Arg(p))
  <2>1. pc[p] = "ready"
    BY <1>8 DEF BeginAdminEnd, Begin
  <2>2. CASE /\ r # None /\ RemoveAs({numToPlayer[r]}, "admin_end")
             /\ Call(p, "end", numToPlayer[r], r) /\ FanQueueUnchanged
    <3>1. numToPlayer[r] \in Players /\ sessions[numToPlayer[r]] = r
      BY <2>2, NumberLeads DEF OwedInv, TypeInv, BotInv
    <3> HIDE DEF r
    <3> QED  BY <1>1, <2>1, <2>2, <3>1, EndOwed
  <2>3. CASE Goto(p, "reply") /\ UNCHANGED <<regVars, fanVars>>
    BY <1>1, <2>1, <2>3, GotoOwed
  <2> QED  BY <1>8, <2>2, <2>3 DEF BeginAdminEnd
<1>9. CASE EndReplySent(p)
  <2>1. Fanout(held[p], "ended") /\ Finish(p) /\ UNCHANGED <<regVars, endReason>>
    BY <1>9 DEF EndReplySent
  <2> QED  BY <1>1, <2>1, FanoutOwed
<1>10. CASE GameReplySent(p)
  <2>1. pc[p] = "gameReply" /\ Finish(p) /\ UNCHANGED regVars
    BY <1>10 DEF GameReplySent
  <2>2. CASE Fanout(held[p], "output") /\ UNCHANGED endReason
    BY <1>1, <2>1, <2>2, FanoutOwed
  <2>3. CASE UNCHANGED fanVars
    BY <1>1, <2>1, <2>3, GotoOwed
  <2> QED  BY <1>10, <2>2, <2>3 DEF GameReplySent
<1> QED  BY <1>2, <1>3, <1>4, <1>5, <1>6, <1>7, <1>8, <1>9, <1>10 DEF Handler

\* The consumer of m: it takes the notice out of the queue for all watchers
\* the record has then, and each send tells one of them.
LEMMA FanStepOwed ==
    ASSUME OwedInv, NEW m \in Nums, NEW n \in Nums, FanStep(m),
           UNCHANGED <<regVars, taskVars, stopped>>
    PROVE  OwedKept(n)
<1> USE DEF SendType, FanShape
<1>1. TypeInv /\ FanShape /\ SendType
  BY DEF OwedInv, TypeInv, FanInv, TypeParts
<1>2. numToPlayer' = numToPlayer /\ watchers' = watchers /\ held' = held /\ pc' = pc
  BY DEF regVars, taskVars
<1>3. OnItsWay(n) => OnItsWay(n)'
  BY <1>2 DEF OnItsWay
<1>4. endReason'[n] \in Owed => endReason[n] \in Owed
  BY <1>1 DEF FanStep, FanTake, FanSend, FanRaise, FanExit, FanCallback, Owed
<1> SUFFICES ASSUME endReason[n] \in Owed, endReason'[n] \in Owed PROVE OwedKept(n)
  BY <1>4 DEF OwedKept
<1>5. numToPlayer'[n] = NoPlayer
  BY <1>2 DEF OwedInv, OwedGone
<1>6. CASE n # m
  <2>1. /\ told'[n] = told[n] /\ fanTask'[n] = fanTask[n] /\ fanItem'[n] = fanItem[n]
        /\ fanTodo'[n] = fanTodo[n] /\ fanQueue'[n] = fanQueue[n]
    BY <1>1, <1>6 DEF FanStep, FanTake, FanSend, FanRaise, FanExit, FanCallback
  <2>2. Queued(n) => Queued(n)'
    BY <2>1 DEF Queued
  <2> QED  BY <1>2, <1>3, <1>5, <2>1, <2>2, StillCovered
<1>7. CASE n = m
  <2> SUFFICES ASSUME ~stopped, NEW w \in watchers[n] PROVE Covered(n, w)'
    BY <1>2, <1>5 DEF OwedKept
  <2>1. Covered(n, w)
    BY NoticeCovered DEF OwedInv
  <2>2. CASE FanTake(n)
    <3>1. /\ fanTask[n] = "ready" /\ fanQueue[n] # <<>> /\ fanQueue[n] \in Seq({"output", "ended"})
          /\ fanQueue'[n] = Tail(fanQueue[n]) /\ told' = told
      BY <1>1, <2>2 DEF FanTake
    <3>2. fanTask'[n] = "sending" /\ fanItem'[n] = Head(fanQueue[n]) /\ fanTodo'[n] = watchers[n]
      BY <1>1, <2>2 DEF FanTake
    <3>3. ~BeingSent(n, w)
      BY <3>1 DEF BeingSent
    <3>4. Queued(n) => Queued(n)' \/ BeingSent(n, w)'
      <4> SUFFICES ASSUME NEW i \in DOMAIN fanQueue[n], fanQueue[n][i] = "ended"
                   PROVE  Queued(n)' \/ BeingSent(n, w)'
        BY DEF Queued
      <4>1. CASE i = 1
        <5>1. Head(fanQueue[n]) = "ended"
          BY <3>1, <4>1
        <5> QED  BY <3>2, <5>1 DEF BeingSent
      <4>2. CASE i # 1
        <5>1. i - 1 \in DOMAIN Tail(fanQueue[n]) /\ Tail(fanQueue[n])[i - 1] = "ended"
          BY <3>1, <4>2
        <5> QED  BY <3>1, <5>1 DEF Queued
      <4> QED  BY <4>1, <4>2
    <3> QED  BY <1>3, <2>1, <3>1, <3>3, <3>4 DEF Covered
  <2>3. ASSUME NEW v \in Players, FanSend(n, v) PROVE Covered(n, w)'
    <3>1. fanTask[n] = "sending" /\ fanQueue' = fanQueue /\ told[n] \subseteq told'[n]
      BY <1>1, <2>3 DEF FanSend
    <3>2. BeingSent(n, w) => w \in told'[n] \/ BeingSent(n, w)'
      <4>1. CASE w = v
        BY <1>1, <2>3, <4>1 DEF FanSend, BeingSent
      <4>2. CASE w # v
        BY <1>1, <2>3, <4>2 DEF FanSend, BeingSent
      <4> QED  BY <4>1, <4>2
    <3>3. Queued(n) => Queued(n)'
      BY <3>1 DEF Queued
    <3> QED  BY <1>3, <2>1, <3>1, <3>2, <3>3 DEF Covered
  <2>4. CASE FanRaise(n)
    <3>1. fanItem[n] # "ended" /\ told' = told /\ fanQueue' = fanQueue
      BY <1>1, <2>4 DEF FanRaise, Owed
    <3> QED  BY <1>3, <2>1, <3>1 DEF Covered, BeingSent, Queued
  <2>5. CASE FanExit(n)
    <3>1. fanTask[n] = "ready" /\ told' = told /\ fanQueue' = fanQueue
      BY <2>5 DEF FanExit
    <3> QED  BY <1>3, <2>1, <3>1 DEF Covered, BeingSent, Queued
  <2>6. CASE \E k \in {"cur", "old"} : FanCallback(n, k)
    <3>1. UNCHANGED <<told, fanQueue, fanTask, fanItem, fanTodo>>
      BY <2>6 DEF FanCallback
    <3> QED  BY <1>3, <2>1, <3>1 DEF Covered, BeingSent, Queued
  <2> QED  BY <1>7, <2>2, <2>3, <2>4, <2>5, <2>6 DEF FanStep
<1> QED  BY <1>6, <1>7

\* The poller removes and queues in one turn.
LEMMA PollOwed ==
    ASSUME OwedInv, NEW n \in Nums, PollReturns
    PROVE  OwedKept(n)
<1> DEFINE N == {sessions[p] : p \in Stale}
<1>1. TypeInv /\ RegInv
  BY DEF OwedInv, TypeInv, BotInv
<1>2. /\ remove_sessions(Stale) /\ FanoutAll(N, "ended") /\ UNCHANGED <<taskVars, stopped>>
      /\ endReason'[n] = IF n \in N THEN "polled" ELSE endReason[n]
  BY DEF PollReturns, RemoveAs
<1> HIDE DEF N
<1>3. /\ told' = told /\ fanItem' = fanItem /\ fanTodo' = fanTodo
      /\ Queued(n) => Queued(n)'
      /\ n \in N => Queued(n)'
      /\ fanTask[n] = "sending" => fanTask'[n] = "sending"
  BY <1>1, <1>2, FanoutKeepsNotices
<1>4. CASE n \in N
  <2>1. numToPlayer'[n] = NoPlayer
    BY <1>2, <1>4 DEF remove_sessions, N, Nums, None
  <2> QED  BY <1>3, <1>4, <2>1 DEF OwedKept, Covered
<1>5. CASE n \notin N
  <2> SUFFICES ASSUME endReason[n] \in Owed PROVE OwedKept(n)
    BY <1>2, <1>5 DEF OwedKept
  <2>1. numToPlayer[n] = NoPlayer
    BY DEF OwedInv, OwedGone
  <2>2. numToPlayer'[n] = NoPlayer /\ watchers'[n] \subseteq watchers[n]
    BY <1>1, <1>2, <2>1, DroppedStays
  <2>3. OnItsWay(n) => OnItsWay(n)'
    BY <1>2 DEF OnItsWay, taskVars
  <2> QED  BY <1>2, <1>3, <2>2, <2>3, StillCovered
<1> QED  BY <1>4, <1>5

\* Steps that touch neither the registry, the fan-out nor a handler's way.
LEMMA IdleOwed ==
    ASSUME OwedInv, NEW n \in Nums, UNCHANGED <<regVars, fanVars, held, stopped>>,
           \A q \in Players : pc[q] \in {"end", "endReply"} => pc'[q] = pc[q]
    PROVE  OwedKept(n)
<1> SUFFICES ASSUME endReason[n] \in Owed PROVE OwedKept(n)
  BY DEF OwedKept, fanVars
<1>1. OnItsWay(n) => OnItsWay(n)'
  BY DEF OnItsWay
<1>2. /\ told'[n] = told[n] /\ fanTask'[n] = fanTask[n] /\ fanItem'[n] = fanItem[n]
      /\ fanTodo'[n] = fanTodo[n] /\ (Queued(n) => Queued(n)') /\ watchers'[n] = watchers[n]
      /\ numToPlayer'[n] = NoPlayer
  BY DEF fanVars, regVars, Queued, OwedInv, OwedGone
<1> QED  BY <1>1, <1>2, StillCovered

\* Every step of the bot keeps what is owed.
LEMMA BotOwedStep ==
    ASSUME OwedInv, TypeInv', [Next]_vars
    PROVE  OwedInv'
<1> SUFFICES ASSUME NEW n \in Nums PROVE OwedKept(n)
  BY OwedKeptInv
<1>1. ASSUME NEW p \in Players, NEW c \in Messages, Dispatch(p, c) PROVE OwedKept(n)
  <2>1. \A q \in Players : pc[q] \in {"end", "endReply"} => pc'[q] = pc[q]
    BY <1>1 DEF Dispatch, OwedInv, TypeInv, BotInv, PcType
  <2> QED  BY <1>1, <2>1, IdleOwed DEF Dispatch
<1>2. ASSUME NEW p \in Players, Handler(p) PROVE OwedKept(n)
  BY <1>2, HandlerOwed
<1>3. ASSUME NEW p \in Players, Serve(p) \/ ServeLate(p) \/ ServiceEnds(p) PROVE OwedKept(n)
  <2>1. UNCHANGED <<regVars, fanVars, held, stopped, pc>>
    BY <1>3 DEF Serve, ServeStart, ServeEnd, ServeReset, ServeCommand, Answer, ServeLate, ServiceEnds,
                taskVars
  <2> QED  BY <2>1, IdleOwed
<1>4. CASE PollSends \/ ServeList \/ PollFails \/ UNCHANGED vars
  <2>1. UNCHANGED <<regVars, fanVars, held, stopped, pc>>
    BY <1>4 DEF PollSends, ServeList, PollFails, vars, taskVars
  <2> QED  BY <2>1, IdleOwed
<1>5. CASE FanOutStep
  BY <1>5, FanStepOwed DEF FanOutStep
<1>6. CASE PollReturns
  BY <1>6, PollOwed
<1>7. CASE Stop
  <2>1. stopped' /\ (endReason'[n] \in Owed => endReason[n] \in Owed)
    BY <1>7 DEF Stop, RemoveAs, Owed
  <2>2. numToPlayer[n] = NoPlayer => numToPlayer'[n] = NoPlayer
    BY <1>7 DEF Stop, RemoveAs, remove_sessions
  <2> QED  BY <2>1, <2>2 DEF OwedKept, OwedInv, OwedGone
<1> QED  BY <1>1, <1>2, <1>3, <1>4, <1>5, <1>6, <1>7 DEF Next

\* The watchers of a session that ended by !end, by !end N or by the poller
\* are told, or the notice is on its way to each of them, whatever the other
\* players, the service and the poller do in between; only a shutdown or a
\* raised exception takes it away.
THEOREM BotNoticeOwed == Spec => []NoticeOwed
<1>1. Init /\ TypeInv => OwedInv
  BY DEF Init, FanInit, OwedInv, OwedGone, NoticeOwed, Owed
<1>2. OwedInv /\ TypeInv' /\ [Next]_vars => OwedInv'
  BY BotOwedStep
<1>3. OwedInv => NoticeOwed
  BY DEF OwedInv
<1> QED  BY <1>1, <1>2, <1>3, BotTypeInvariant, PTL DEF Spec
=============================================================================
