----------------------------- MODULE Broadcasts -----------------------------
(***************************************************************************)
(* What the bot says unasked or to everyone, on top of the send gate: the  *)
(* adverts of Advertiser (advertiser.py), sent by a timer and by every      *)
(* !start that finds the cooldown over; and the replies to !bots            *)
(* (commands/bots.py, bot.dispatch_bots_channel), one for every window of   *)
(* Cooldown (cooldown.py), after a random delay.  Both share the gate with  *)
(* all other packets.                                                       *)
(***************************************************************************)
EXTENDS SendGate

CONSTANTS
    AdvertCooldown,      \* advert_cooldown_seconds
    BotsCooldown,        \* bots_cooldown_seconds
    DelayMin, DelayMax,  \* REPLY_DELAY_BASE_SECONDS, plus the jitter
    Adverters,           \* bound: the timer and the !start commands that advertise
    RollCallers          \* bound: the tasks that answer roll calls

ASSUME BroadcastAssumption ==
    /\ {AdvertCooldown, BotsCooldown, DelayMin, DelayMax} \subseteq Nat
    /\ DelayMin <= DelayMax
    /\ Adverters \subseteq Senders /\ RollCallers \subseteq Senders \ Adverters

VARIABLES
    adverts,      \* the senders inside send_if_due, past its test
    sinceAdvert,  \* age of _last_sent_at
    sinceClaim,   \* age of Cooldown._last_at
    replying,     \* the roll-call tasks that are asleep
    delayLeft,    \* what is left of their sleep
    airAdvert,    \* history: time since the radio last sent an advert
    overlapping,  \* history: adverts that were on their way when it did
    sinceReply    \* history: time since a task last woke and replied

broadcastVars == <<adverts, sinceAdvert, sinceClaim, replying, delayLeft, airAdvert,
                   overlapping, sinceReply>>
allVars == <<vars, broadcastVars>>
rollCallVars == <<sinceClaim, replying, delayLeft, sinceReply>>
advertVars == <<adverts, sinceAdvert, airAdvert, overlapping>>

\* _last_sent_at starts at 0.0 on a clock that counts from the machine's boot.
BroadcastInit ==
    /\ Init
    /\ adverts = {} /\ overlapping = {} /\ replying = {}
    /\ sinceAdvert \in 0..AdvertCooldown
    /\ airAdvert = AdvertCooldown
    /\ sinceClaim = BotsCooldown /\ sinceReply = BotsCooldown
    /\ delayLeft = [s \in Senders |-> 0]

Dropped == depth >= MaxDepth /\ UNCHANGED vars

Idle(s) == pc[s] = "out" /\ s \notin replying

\* send_if_due, called by the timer or by !start, up to its await.  An advert
\* that the gate drops is stamped all the same.
SendIfDue(s) ==
    /\ s \in Adverters
    /\ Idle(s)
    /\ sinceAdvert >= AdvertCooldown
    /\ \/ Dropped /\ sinceAdvert' = 0 /\ UNCHANGED adverts
       \/ Enter(s) /\ adverts' = adverts \cup {s} /\ UNCHANGED sinceAdvert
    /\ UNCHANGED <<airAdvert, overlapping, rollCallVars>>

\* Bug: the advert is not stamped.
AdvertSentUnstamped(s) ==
    /\ s \in adverts
    /\ TxDone(s)
    /\ adverts' = adverts \ {s}
    /\ airAdvert' = 0
    /\ overlapping' = adverts'
    /\ UNCHANGED <<sinceAdvert, rollCallVars>>

\* The radio has sent the advert: _last_sent_at = now, whoever else has passed
\* the test by now.
AdvertSent(s) ==
    /\ s \in adverts
    /\ TxDone(s)
    /\ adverts' = adverts \ {s}
    /\ sinceAdvert' = 0
    /\ airAdvert' = 0
    /\ overlapping' = adverts'
    /\ UNCHANGED rollCallVars

\* The send raised, or was cancelled: there is no stamp.
AdvertRaised(s) ==
    /\ s \in adverts
    /\ TxDone(s)
    /\ adverts' = adverts \ {s}
    /\ overlapping' = overlapping \ {s}
    /\ UNCHANGED <<sinceAdvert, airAdvert, rollCallVars>>

\* Cooldown.claim
CanClaim == sinceClaim >= BotsCooldown

\* dispatch_bots_channel: one request per window draws a reply, after a delay.
Claim(s) ==
    /\ s \in RollCallers
    /\ Idle(s)
    /\ CanClaim
    /\ sinceClaim' = 0
    /\ replying' = replying \cup {s}
    /\ \E d \in DelayMin..DelayMax : delayLeft' = [delayLeft EXCEPT ![s] = d]
    /\ ChannelRx
    /\ UNCHANGED <<advertVars, sinceReply>>

\* handle_bots after its sleep: the reply goes to the gate, and is dropped there
\* when it is full.  How long it stays in the gate is the gate's affair.
RollCallReply(s) ==
    /\ s \in replying
    /\ delayLeft[s] = 0
    /\ Dropped \/ Enter(s)
    /\ replying' = replying \ {s}
    /\ sinceReply' = 0
    /\ UNCHANGED <<advertVars, sinceClaim, delayLeft>>

\* All else goes through the gate as it is.
Message(s) == s \notin Adverters \cup RollCallers /\ Enter(s) /\ UNCHANGED broadcastVars

MessageDone(s) == s \notin adverts /\ TxDone(s) /\ UNCHANGED broadcastVars

Wait(s) == (Acquire(s) \/ SleepOver(s)) /\ UNCHANGED broadcastVars

\* Shutdown cancels a task in the gate.
Cancel(s) ==
    /\ CancelSleep(s) \/ CancelWait(s)
    /\ adverts' = adverts \ {s}
    /\ overlapping' = overlapping \ {s}
    /\ UNCHANGED <<sinceAdvert, airAdvert, rollCallVars>>

Heard == ChannelRx /\ UNCHANGED broadcastVars

\* A sleep that is over is not overslept by a whole unit of time.
Passing ==
    /\ \A s \in replying : delayLeft[s] > 0
    /\ Tick
    /\ sinceAdvert' = Older(sinceAdvert, AdvertCooldown)
    /\ airAdvert' = Older(airAdvert, AdvertCooldown)
    /\ sinceClaim' = Older(sinceClaim, BotsCooldown)
    /\ sinceReply' = Older(sinceReply, BotsCooldown)
    /\ delayLeft' = [s \in Senders |-> Before(delayLeft[s], 1)]
    /\ UNCHANGED <<adverts, overlapping, replying>>

AdvertDone(s) == AdvertSent(s) \/ AdvertRaised(s)

Progress(s) == Wait(s) \/ MessageDone(s) \/ AdvertDone(s) \/ RollCallReply(s)

BroadcastNext ==
    \/ \E s \in Senders : SendIfDue(s) \/ Claim(s) \/ Message(s) \/ Progress(s) \/ Cancel(s)
    \/ Heard
    \/ Passing

\* As in the gate: ready tasks run, transmissions end, time passes.
BroadcastFairness == WF_allVars(Passing) /\ \A s \in Senders : WF_allVars(Progress(s))

BroadcastSpec == BroadcastInit /\ [][BroadcastNext]_allVars /\ BroadcastFairness

-----------------------------------------------------------------------------
(* Properties. *)

\* What the test and the stamp of Advertiser, and the window of Cooldown, hold
\* across the await between them: an advert that goes on the air within the
\* cooldown of the one before was already on its way when that one was sent; and
\* two roll-call replies are handed to the gate at least the cooldown less the
\* jitter apart.  Both are less than the configuration's comments say, "min gap
\* between adverts" and "min gap between !bots roll-call replies".
BroadcastGaps ==
    [][\A s \in Senders :
          /\ s \in adverts' /\ pc[s] # "tx" /\ pc'[s] = "tx" /\ airAdvert < AdvertCooldown
                => s \in overlapping
          /\ s \in replying \ replying'
                => sinceReply + (DelayMax - DelayMin) >= BotsCooldown]_allVars

-----------------------------------------------------------------------------
(* What the repository's text says and the code does not keep. *)

\* "never more than once per advert_cooldown_seconds" (advertiser.py): no advert
\* goes on the air within the cooldown of the one the radio sent before.  The
\* test comes before the await and the stamp after it, so two callers can pass
\* the test together.
AdvertOncePerCooldown ==
    [][\A s \in Senders : s \in adverts' /\ pc[s] # "tx" /\ pc'[s] = "tx"
          => airAdvert >= AdvertCooldown]_allVars
=============================================================================
