------------------------------ MODULE MCParts -------------------------------
(* A small instance for TLC of parts that are checked for safety only: the  *)
(* sessions of the bot, the transcript streams and the log tail of the      *)
(* admin console, its channel slots, and the packetizer.  They share no     *)
(* state, so a behaviour follows one of them, chosen at its start, and the  *)
(* others stay as they are: every behaviour of each is checked, and their   *)
(* state spaces add up instead of multiplying.                              *)
EXTENDS ZorkBot, SessionBus, LogBus, RadioState, Packetize, TLC

VARIABLE focus   \* the part this behaviour follows

Words(n, k) == [i \in 1..n |-> k]

\* All short texts, and runs of equal words, with a long one at the end or not,
\* around the numbers of packets at which the prefix grows.
MCTexts ==
    UNION {[1..k -> 1..3] : k \in 0..3}
        \cup {Words(n, k) \o Words(m, 9) :
                 n \in (8..12) \cup (99..101), k \in 2..3, m \in 0..1}

\* channel_hash is one byte: two keys may share it or not.
MCHash == [k \in Keys |-> IF k = CHOOSE j \in Keys : TRUE THEN 0 ELSE 1]

\* The bot's own slots hold channels, the others what they like.
MCDevice == [i \in Slots |-> IF i \in Served THEN CHOOSE h \in Holdings : h # Blank ELSE Blank]

Symmetry == Permutations(Players \ Admins)

consoleVars == <<busVars, logBusVars>>

MCInit ==
    /\ focus \in {"sessions", "streams", "logs", "slots", "packets"}
    /\ Init /\ BusInit /\ LogBusInit /\ RadioInit /\ PackInit
    /\ IF focus = "slots" THEN \A i \in Served : device[i] = MCDevice[i] ELSE device = MCDevice
    /\ IF focus = "packets" THEN mention \in {0, lead}
       ELSE text = <<>> /\ lead = 0 /\ mention = 0 /\ mode = "plain"

\* The streams, the log tail and the packetizer may come to their end; the sessions
\* and the slots are never without a next step.
Over == focus \notin {"sessions", "slots"} /\ UNCHANGED <<vars, consoleVars, radioVars, packVars>>

MCNext ==
    /\ UNCHANGED focus
    /\ \/ focus = "sessions" /\ Next /\ UNCHANGED <<consoleVars, radioVars, packVars>>
       \/ focus = "streams" /\ BusNext /\ UNCHANGED <<vars, logBusVars, radioVars, packVars>>
       \/ focus = "logs" /\ LogBusNext /\ UNCHANGED <<vars, busVars, radioVars, packVars>>
       \/ focus = "slots" /\ RadioNext /\ UNCHANGED <<vars, consoleVars, packVars>>
       \/ focus = "packets" /\ PackNext /\ UNCHANGED <<vars, consoleVars, radioVars>>
       \/ Over

MCSpec == MCInit /\ [][MCNext]_<<focus, vars, consoleVars, radioVars, packVars>>
=============================================================================
