------------------------------ MODULE EventLog ------------------------------
(***************************************************************************)
(* What the admin event log promises, whatever its queue, its writer and   *)
(* its database do: an event is offered once and settled at most once, kept *)
(* or lost; events are settled in whole batches, oldest first; and only    *)
(* closing the log may lose what it holds or settle it out of order.       *)
(***************************************************************************)
EXTENDS Naturals

CONSTANT MaxEvents   \* bound: events offered

VARIABLES
    fate,     \* of each event: "unborn", "pending", "kept" or "lost"
    closing   \* whether the log is being closed

logVars == <<fate, closing>>

LogEvents == 1..MaxEvents
Having(f) == {e \in LogEvents : fate[e] = f}

LogInit ==
    /\ fate = [e \in LogEvents |-> "unborn"]
    /\ closing = FALSE

\* S comes before all else in T.
Oldest(S, T) == \A x \in S, y \in T \ S : x < y

\* The next events are offered; a full log loses them at once.
LogOffer ==
    \E S \in SUBSET Having("unborn") :
        /\ Oldest(S, Having("unborn"))
        /\ \E P \in SUBSET S :
              fate' = [e \in LogEvents |-> IF e \in P THEN "pending"
                                           ELSE IF e \in S THEN "lost" ELSE fate[e]]
        /\ UNCHANGED closing

\* A batch is kept or lost as a whole, in order until the log is closing.
LogSettle ==
    \E B \in SUBSET Having("pending"), f \in {"kept", "lost"} :
        /\ closing \/ Oldest(B, Having("pending"))
        /\ fate' = [e \in LogEvents |-> IF e \in B THEN f ELSE fate[e]]
        /\ UNCHANGED closing

\* Closing may lose events that are in hand.
LogClose ==
    \E B \in SUBSET Having("pending") :
        /\ fate' = [e \in LogEvents |-> IF e \in B THEN "lost" ELSE fate[e]]
        /\ closing' = TRUE

LogNext == LogOffer \/ LogSettle \/ LogClose

LogSpec == LogInit /\ [][LogNext]_logVars
=============================================================================
