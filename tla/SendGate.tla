------------------------------ MODULE SendGate ------------------------------
(***************************************************************************)
(* The runner's single transmit gate, zorkbot/runner.py                    *)
(* (_send_with_spacing, _wait_for_quiet_air): every packet the bot emits,  *)
(* channel or DM, player or watcher or advert, passes through one asyncio  *)
(* lock, waits there for quiet air, and is refused when the queue is full. *)
(*                                                                         *)
(* Time is discrete.  The code only ever compares loop.time() with         *)
(* _last_send_at + spacing and _last_channel_rx_at + guard, so each clock  *)
(* is kept as the age of its stamp, up to the deadline; "never stamped"    *)
(* and "long ago" are the same.                                            *)
(***************************************************************************)
EXTENDS Naturals, FiniteSets

CONSTANTS
    Senders,   \* tasks that send: workers, fan-out consumers, the advertiser
    MaxDepth,  \* max_send_queue_depth
    Spacing,   \* send_spacing_seconds
    Guard,     \* channel_rx_guard_seconds
    MaxRx      \* bound: channel messages received

ASSUME GateAssumption ==
    /\ IsFiniteSet(Senders)
    /\ MaxDepth \in Nat /\ Spacing \in Nat /\ Guard \in Nat /\ MaxRx \in Nat

VARIABLES
    pc,          \* "out", "wait" (for the lock), "sleep" (lock held), "tx"
    ahead,       \* for a waiter: the waiters queued before it
    woken,       \* waiters whose future the lock has resolved
    locked,      \* Lock._locked
    depth,       \* _send_queue_depth
    sinceSend,   \* age of _last_send_at, at most Spacing
    sinceRx,     \* age of _last_channel_rx_at, at most Guard
    sleepLeft,   \* what is left of the holder's asyncio.sleep
    rxLeft,      \* channel messages that may still arrive
    airSend,     \* history: time since the radio last finished a transmission
    airRx        \* history: time since a channel message was last heard

vars == <<pc, ahead, woken, locked, depth, sinceSend, sinceRx, sleepLeft, rxLeft,
          airSend, airRx>>
lockVars == <<ahead, woken, locked>>

Waiters == {s \in Senders : pc[s] = "wait"}
Later(a, b) == IF a >= b THEN a ELSE b
Older(age, limit) == IF age < limit THEN age + 1 ELSE limit
Before(limit, age) == IF limit > age THEN limit - age ELSE 0

Init ==
    /\ pc = [s \in Senders |-> "out"]
    /\ ahead = [s \in Senders |-> {}]
    /\ woken = {}
    /\ locked = FALSE
    /\ depth = 0
    /\ sinceSend = Spacing
    /\ sinceRx = Guard
    /\ sleepLeft = 0
    /\ rxLeft = MaxRx
    /\ airSend = Spacing
    /\ airRx = Guard

-----------------------------------------------------------------------------
(* asyncio.Lock: first come first served, also past cancelled waiters. *)

\* Bug: a lock that is free is taken past the waiters.
CanAcquireBarging == ~locked

\* Lock.acquire for a newcomer: only past an empty queue.
CanAcquire == ~locked /\ Waiters = {}

\* The queue without s.
Leave(s) == [t \in Senders |-> IF t = s THEN {} ELSE ahead[t] \ {s}]

\* _wake_up_first among the waiters other than s.
FirstBut(s) == {t \in Waiters \ {s} : ahead[t] \ {s} = {}}

\* Bug: a release that wakes nobody.
ReleaseSilently(s) ==
    /\ locked' = FALSE
    /\ UNCHANGED <<ahead, woken>>

\* Lock.release, by s.
Release(s) ==
    /\ locked' = FALSE
    /\ woken' = woken \cup FirstBut(s)
    /\ UNCHANGED ahead

-----------------------------------------------------------------------------
(* The gate. *)

\* _wait_for_quiet_air: the later of the two deadlines governs.
Remaining == Later(Before(Spacing, sinceSend), Before(Guard, sinceRx))

\* With the lock held: transmit when the air is quiet, sleep otherwise.
WaitForQuietAir(s) ==
    /\ pc' = [pc EXCEPT ![s] = IF Remaining = 0 THEN "tx" ELSE "sleep"]
    /\ sleepLeft' = Remaining

\* Bug: a fast path sends past the lock when the air is quiet.
EnterFastPath(s) ==
    /\ pc[s] = "out"
    /\ depth < MaxDepth
    /\ depth' = depth + 1
    /\ IF CanAcquire \/ Remaining = 0
       THEN /\ locked' = TRUE
            /\ WaitForQuietAir(s)
            /\ UNCHANGED <<ahead, woken>>
       ELSE /\ pc' = [pc EXCEPT ![s] = "wait"]
            /\ ahead' = [ahead EXCEPT ![s] = Waiters]
            /\ UNCHANGED <<woken, locked, sleepLeft>>
    /\ UNCHANGED <<sinceSend, sinceRx, rxLeft, airSend, airRx>>

\* _send_with_spacing up to its first await.  When the queue is full the
\* packet is dropped and nothing changes.
Enter(s) ==
    /\ pc[s] = "out"
    /\ depth < MaxDepth
    /\ depth' = depth + 1
    /\ IF CanAcquire
       THEN /\ locked' = TRUE
            /\ WaitForQuietAir(s)
            /\ UNCHANGED <<ahead, woken>>
       ELSE /\ pc' = [pc EXCEPT ![s] = "wait"]
            /\ ahead' = [ahead EXCEPT ![s] = Waiters]
            /\ UNCHANGED <<woken, locked, sleepLeft>>
    /\ UNCHANGED <<sinceSend, sinceRx, rxLeft, airSend, airRx>>

\* A waiter resumes with the lock, which it takes without looking at it.
Acquire(s) ==
    /\ pc[s] = "wait"
    /\ s \in woken
    /\ woken' = woken \ {s}
    /\ ahead' = Leave(s)
    /\ locked' = TRUE
    /\ WaitForQuietAir(s)
    /\ UNCHANGED <<depth, sinceSend, sinceRx, rxLeft, airSend, airRx>>

\* Bug: the deadlines are not looked at again after the sleep.
SleepOverUnchecked(s) ==
    /\ pc[s] = "sleep"
    /\ sleepLeft = 0
    /\ pc' = [pc EXCEPT ![s] = "tx"]
    /\ UNCHANGED <<lockVars, depth, sinceSend, sinceRx, sleepLeft, rxLeft, airSend, airRx>>

\* The sleep is over: both deadlines are looked at again.
SleepOver(s) ==
    /\ pc[s] = "sleep"
    /\ sleepLeft = 0
    /\ WaitForQuietAir(s)
    /\ UNCHANGED <<lockVars, depth, sinceSend, sinceRx, rxLeft, airSend, airRx>>

\* Leaving the gate: the depth is given back on every path.
Out(s) ==
    /\ pc' = [pc EXCEPT ![s] = "out"]
    /\ depth' = depth - 1

\* Bug: the depth is given back by both finally clauses.
TxDoneTwice(s) ==
    /\ pc[s] = "tx"
    /\ sinceSend' = 0
    /\ airSend' = 0
    /\ Release(s)
    /\ pc' = [pc EXCEPT ![s] = "out"]
    /\ depth' = depth - 2
    /\ UNCHANGED <<sinceRx, sleepLeft, rxLeft, airRx>>

\* The transmission ends, by an answer, a failure, an exception or a
\* cancellation: _last_send_at is stamped on every one of these paths.
TxDone(s) ==
    /\ pc[s] = "tx"
    /\ sinceSend' = 0
    /\ airSend' = 0
    /\ Release(s)
    /\ Out(s)
    /\ UNCHANGED <<sinceRx, sleepLeft, rxLeft, airRx>>

\* Cancelled (at shutdown) while sleeping with the lock: nothing was sent.
CancelSleep(s) ==
    /\ pc[s] = "sleep"
    /\ sleepLeft' = 0
    /\ Release(s)
    /\ Out(s)
    /\ UNCHANGED <<sinceSend, sinceRx, rxLeft, airSend, airRx>>

\* Bug: the wake-up of a cancelled waiter is lost.
CancelWaitForgetting(s) ==
    /\ pc[s] = "wait"
    /\ woken' = woken \ {s}
    /\ ahead' = Leave(s)
    /\ Out(s)
    /\ UNCHANGED <<locked, sinceSend, sinceRx, sleepLeft, rxLeft, airSend, airRx>>

\* Bug: a cancelled waiter does not give its depth back.
CancelWaitLeaking(s) ==
    /\ pc[s] = "wait"
    /\ woken' = (woken \ {s}) \cup (IF locked THEN {} ELSE FirstBut(s))
    /\ ahead' = Leave(s)
    /\ pc' = [pc EXCEPT ![s] = "out"]
    /\ UNCHANGED <<locked, depth, sinceSend, sinceRx, sleepLeft, rxLeft, airSend, airRx>>

\* Cancelled while waiting: the lock passes a wake-up on to the next waiter.
CancelWait(s) ==
    /\ pc[s] = "wait"
    /\ woken' = (woken \ {s}) \cup (IF locked THEN {} ELSE FirstBut(s))
    /\ ahead' = Leave(s)
    /\ Out(s)
    /\ UNCHANGED <<locked, sinceSend, sinceRx, sleepLeft, rxLeft, airSend, airRx>>

\* _note_channel_rx
ChannelRx ==
    /\ rxLeft > 0
    /\ rxLeft' = rxLeft - 1
    /\ sinceRx' = 0
    /\ airRx' = 0
    /\ UNCHANGED <<pc, lockVars, depth, sinceSend, sleepLeft, airSend>>

Tick ==
    /\ sinceSend' = Older(sinceSend, Spacing)
    /\ sinceRx' = Older(sinceRx, Guard)
    /\ airSend' = Older(airSend, Spacing)
    /\ airRx' = Older(airRx, Guard)
    /\ sleepLeft' = Before(sleepLeft, 1)
    /\ UNCHANGED <<pc, lockVars, depth, rxLeft>>

Step(s) == Acquire(s) \/ SleepOver(s) \/ TxDone(s)

Next ==
    \/ \E s \in Senders : Enter(s) \/ Step(s) \/ CancelSleep(s) \/ CancelWait(s)
    \/ ChannelRx
    \/ Tick

Spec == Init /\ [][Next]_vars

\* asyncio runs every ready task, a transmission ends (the radio library's
\* calls time out), and time passes.  Nobody has to send, cancel or be heard.
FairSpec == Spec /\ WF_vars(Tick) /\ \A s \in Senders : WF_vars(Step(s))

-----------------------------------------------------------------------------
(* Properties. *)

TypeOK ==
    /\ pc \in [Senders -> {"out", "wait", "sleep", "tx"}]
    /\ ahead \in [Senders -> SUBSET Senders]
    /\ woken \subseteq Senders
    /\ locked \in BOOLEAN
    /\ depth \in Nat
    /\ sinceSend \in 0..Spacing /\ airSend \in 0..Spacing
    /\ sinceRx \in 0..Guard /\ airRx \in 0..Guard
    /\ sleepLeft \in Nat
    /\ rxLeft \in 0..MaxRx

\* "all RF transmissions (channel + DM) serialized here": at most one task is
\* past the lock, although a woken waiter takes it without testing it and
\* waiters may be cancelled at any moment.
Holders == {s \in Senders : pc[s] \in {"sleep", "tx"}}

OneOnAir == \A s, t \in Holders : s = t

\* _send_queue_depth counts exactly the packets inside the gate, on every
\* path out of it, and so never exceeds max_send_queue_depth nor leaks.
DepthExact ==
    /\ depth = Cardinality({s \in Senders : pc[s] # "out"})
    /\ depth <= MaxDepth

\* A free lock with packets waiting has woken the one that is first in line.
NoLostWakeup ==
    ~locked /\ Waiters # {} => \E s \in woken : s \in Waiters /\ ahead[s] = {}

\* A transmission starts no sooner than send_spacing_seconds after the end of
\* the one before and channel_rx_guard_seconds after the last channel message,
\* also one heard while it was already waiting.
QuietAirAtStart ==
    [][\A s \in Senders : pc[s] # "tx" /\ pc'[s] = "tx"
          => airSend = Spacing /\ airRx = Guard]_vars

\* Packets go on the air in the order in which they entered the gate.
FirstComeFirstServed ==
    [][\A s \in Senders : s \notin Holders /\ s \in Holders'
          => \A t \in Waiters \ {s} : s \in ahead[t]]_vars

\* Once the channel is quiet, every packet in the gate leaves it.
EveryPacketLeaves == \A s \in Senders : pc[s] # "out" ~> pc[s] = "out"
=============================================================================
