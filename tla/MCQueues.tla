------------------------------ MODULE MCQueues ------------------------------
(* A small instance for TLC of the parts where something waits in a queue   *)
(* that must drain: the event log, the backlog of the radio, and the send   *)
(* gate with the broadcasts.  They share no state, so a behaviour follows   *)
(* one of them, chosen at its start, and the others stay where they have    *)
(* nothing to do: every behaviour of each is checked, and their state       *)
(* spaces add up instead of multiplying.                                    *)
EXTENDS EventSink, Reception, Broadcasts

VARIABLE focus   \* the part this behaviour follows

MCInit ==
    /\ focus \in {"events", "reception", "gate"}
    /\ SinkInit /\ ReceptionInit /\ BroadcastInit
    /\ focus # "events" => known = {}
    /\ focus # "gate" => sinceAdvert = AdvertCooldown

\* The event log and the reception may come to their end; the gate never is
\* without a next step.
Over == focus # "gate" /\ UNCHANGED <<sinkVars, receptionVars, allVars>>

MCNext ==
    /\ UNCHANGED focus
    /\ \/ focus = "events" /\ SinkNext /\ UNCHANGED <<receptionVars, allVars>>
       \/ focus = "reception" /\ ReceptionNext /\ UNCHANGED <<sinkVars, allVars>>
       \/ focus = "gate" /\ BroadcastNext /\ UNCHANGED <<sinkVars, receptionVars>>
       \/ Over

\* The fairness of each part, owed by the one that is followed.
MCFairness ==
    /\ WF_sinkVars(focus = "events" /\ Writer)
    /\ WF_sinkVars(focus = "events" /\ FlushDone)
    /\ WF_sinkVars(focus = "events" /\ OrphanDone)
    /\ WF_receptionVars(focus = "reception" /\ (FlushGet \/ FlushEnd))
    /\ WF_allVars(focus = "gate" /\ Passing)
    /\ \A s \in Senders : WF_allVars(focus = "gate" /\ Progress(s))

MCSpec == MCInit /\ [][MCNext]_<<focus, sinkVars, receptionVars, allVars>> /\ MCFairness
=============================================================================
