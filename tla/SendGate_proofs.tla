--------------------------- MODULE SendGate_proofs --------------------------
(***************************************************************************)
(* The transmit gate for any number of senders, any depth, any spacing and *)
(* any guard: one transmission at a time, in order, on quiet air, and a    *)
(* depth counter that is exact; and how close the adverts and roll-call    *)
(* replies that go through it can come to one another.                     *)
(***************************************************************************)
EXTENDS Broadcasts, FiniteSetTheorems, TLAPS

GateType ==
    /\ pc \in [Senders -> {"out", "wait", "sleep", "tx"}]
    /\ ahead \in [Senders -> SUBSET Senders]
    /\ woken \subseteq Senders
    /\ locked \in BOOLEAN
    /\ sinceSend \in 0..Spacing
    /\ sinceRx \in 0..Guard

\* The lock: it is held by the one task past it; at most one waiter is woken,
\* only while the lock is free, and it is first in line.
LockInv ==
    /\ locked <=> Holders # {}
    /\ OneOnAir
    /\ woken \subseteq Waiters
    /\ woken # {} => ~locked
    /\ \A s, t \in woken : s = t
    /\ \A s \in woken : ahead[s] = {}

\* Of two waiters one is ahead of the other, and only waiters are ahead.
QueueInv ==
    /\ \A s, t \in Waiters : s # t => s \in ahead[t] \/ t \in ahead[s]
    /\ \A s \in Waiters : ahead[s] \subseteq Waiters

\* The stamps the code keeps are the true ages.
ClockInv == sinceSend = airSend /\ sinceRx = airRx

GateInv == GateType /\ LockInv /\ QueueInv /\ ClockInv

\* __init__ establishes the invariant.
LEMMA GateInitInv == Init => GateInv
<1> SUFFICES ASSUME Init PROVE GateInv
  OBVIOUS
<1> USE GateAssumption DEF Init, Holders, Waiters
<1>1. GateType /\ ClockInv
  <2>1. locked \in BOOLEAN
    BY Zenon
  <2> QED  BY <2>1 DEF GateType, ClockInv
<1>2. LockInv /\ QueueInv
  BY DEF LockInv, QueueInv, OneOnAir
<1> QED  BY <1>1, <1>2 DEF GateInv

\* Where _wait_for_quiet_air leaves the task that holds the lock.
LEMMA QuietAir ==
    ASSUME GateType, NEW s \in Senders, WaitForQuietAir(s)
    PROVE  /\ \E l \in {"sleep", "tx"} : pc' = [pc EXCEPT ![s] = l]
           /\ pc'[s] = "tx" => sinceSend = Spacing /\ sinceRx = Guard
<1>1. CASE Remaining = 0
  <2>1. sinceSend = Spacing /\ sinceRx = Guard
    BY <1>1, GateAssumption DEF Remaining, Later, Before, GateType
  <2>2. pc' = [pc EXCEPT ![s] = "tx"]
    BY <1>1 DEF WaitForQuietAir
  <2> QED  BY <2>1, <2>2
<1>2. CASE Remaining # 0
  <2>1. pc' = [pc EXCEPT ![s] = "sleep"]
    BY <1>2 DEF WaitForQuietAir
  <2> QED  BY <2>1 DEF GateType
<1> QED  BY <1>1, <1>2

\* A sender enters, past a free lock with no queue or behind the others.
LEMMA EnterInv ==
    ASSUME GateInv, NEW s \in Senders, Enter(s)
    PROVE  GateInv'
<1> USE DEF GateInv, GateType, Holders, Waiters
<1>1. CASE CanAcquire
  <2>1. PICK l \in {"sleep", "tx"} : pc' = [pc EXCEPT ![s] = l]
    BY <1>1, QuietAir DEF Enter
  <2>2. /\ locked' = TRUE /\ woken' = woken /\ ahead' = ahead
        /\ ~locked /\ Waiters = {} /\ woken = {} /\ Holders = {}
    BY <1>1 DEF Enter, CanAcquire, LockInv
  <2>3. GateType' /\ ClockInv'
    BY <2>1, <2>2 DEF Enter, ClockInv
  <2>4. LockInv'
    BY <2>1, <2>2 DEF LockInv, OneOnAir
  <2>5. QueueInv'
    BY <2>1, <2>2 DEF QueueInv
  <2> QED  BY <2>3, <2>4, <2>5
<1>2. CASE ~CanAcquire
  <2>1. /\ pc[s] = "out" /\ pc' = [pc EXCEPT ![s] = "wait"]
        /\ ahead' = [ahead EXCEPT ![s] = Waiters]
        /\ woken' = woken /\ locked' = locked
    BY <1>2 DEF Enter
  <2>2. GateType' /\ ClockInv'
    BY <2>1 DEF Enter, ClockInv
  <2>3. LockInv'
    BY <2>1 DEF LockInv, OneOnAir
  <2>4. QueueInv'
    BY <2>1 DEF QueueInv
  <2> QED  BY <2>2, <2>3, <2>4
<1> QED  BY <1>1, <1>2

\* The woken waiter takes the lock without looking at it, and may: nobody
\* holds it and nobody else was woken.
LEMMA AcquireInv ==
    ASSUME GateInv, NEW s \in Senders, Acquire(s)
    PROVE  GateInv'
<1> USE DEF GateInv, GateType, Holders, Waiters
<1>1. PICK l \in {"sleep", "tx"} : pc' = [pc EXCEPT ![s] = l]
  BY QuietAir DEF Acquire
<1>2. /\ pc[s] = "wait" /\ locked' = TRUE /\ woken' = woken \ {s}
      /\ ahead' = [t \in Senders |-> IF t = s THEN {} ELSE ahead[t] \ {s}]
  BY DEF Acquire, Leave
<1>3. Holders = {} /\ woken' = {}
  BY <1>2 DEF Acquire, LockInv
<1>4. GateType' /\ ClockInv'
  BY <1>1, <1>2, <1>3 DEF Acquire, ClockInv
<1>5. LockInv'
  BY <1>1, <1>2, <1>3 DEF LockInv, OneOnAir
<1>6. QueueInv'
  BY <1>1, <1>2 DEF QueueInv
<1> QED  BY <1>4, <1>5, <1>6

\* A sleep that ends leaves the lock where it is.
LEMMA SleepOverInv ==
    ASSUME GateInv, NEW s \in Senders, SleepOver(s)
    PROVE  GateInv'
<1> USE DEF GateInv, GateType, Holders, Waiters
<1>1. PICK l \in {"sleep", "tx"} : pc' = [pc EXCEPT ![s] = l]
  BY QuietAir DEF SleepOver
<1>2. pc[s] = "sleep" /\ UNCHANGED <<ahead, woken, locked>>
  BY DEF SleepOver, lockVars
<1>3. GateType' /\ ClockInv'
  BY <1>1, <1>2 DEF SleepOver, ClockInv
<1>4. LockInv'
  BY <1>1, <1>2 DEF LockInv, OneOnAir
<1>5. QueueInv'
  BY <1>1, <1>2 DEF QueueInv
<1> QED  BY <1>3, <1>4, <1>5

\* The holder leaves, after its transmission or cancelled in its sleep.
LEMMA ReleaseInv ==
    ASSUME GateInv, NEW s \in Holders, Release(s), pc' = [pc EXCEPT ![s] = "out"]
    PROVE  LockInv' /\ QueueInv'
<1> USE DEF GateInv, GateType, Holders, Waiters
<1>1. /\ locked' = FALSE /\ ahead' = ahead /\ woken = {}
      /\ woken' = {t \in Waiters : ahead[t] \ {s} = {}}
  BY DEF Release, FirstBut, LockInv
<1>2. Waiters' = Waiters /\ Holders' = {}
  BY DEF LockInv, OneOnAir
<1>3. QueueInv'
  BY <1>1, <1>2 DEF QueueInv
<1>4. woken' = {t \in Waiters : ahead[t] = {}}
  BY <1>1 DEF QueueInv
<1>5. \A t, u \in woken' : t = u
  BY <1>4 DEF QueueInv
<1> QED  BY <1>1, <1>2, <1>3, <1>4, <1>5 DEF LockInv, OneOnAir

\* A waiter is cancelled: a wake-up it had is handed on, one it had not is
\* not given twice.
LEMMA CancelWaitInv ==
    ASSUME GateInv, NEW s \in Senders, CancelWait(s)
    PROVE  GateInv'
<1> USE DEF GateInv, GateType, Holders, Waiters
<1>1. /\ pc[s] = "wait" /\ pc' = [pc EXCEPT ![s] = "out"] /\ locked' = locked
      /\ ahead' = [t \in Senders |-> IF t = s THEN {} ELSE ahead[t] \ {s}]
  BY DEF CancelWait, Out, Leave
<1>2. Waiters' = Waiters \ {s} /\ Holders' = Holders
  BY <1>1
<1>3. GateType' /\ ClockInv'
  BY <1>1 DEF CancelWait, ClockInv, FirstBut
<1>4. QueueInv'
  BY <1>1, <1>2 DEF QueueInv
<1>5. LockInv'
  <2>1. CASE locked
    <3>1. woken = {} /\ woken' = {}
      BY <2>1 DEF CancelWait, LockInv
    <3> QED  BY <1>1, <1>2, <2>1, <3>1 DEF LockInv, OneOnAir
  <2>2. CASE ~locked
    <3>1. woken' = (woken \ {s}) \cup FirstBut(s)
      BY <2>2 DEF CancelWait
    <3>2. woken \ {s} \subseteq FirstBut(s)
      BY DEF LockInv, FirstBut
    <3>3. woken' = {t \in Waiters \ {s} : ahead[t] \ {s} = {}}
      BY <3>1, <3>2 DEF FirstBut
    <3>4. woken' = {t \in Waiters' : ahead'[t] = {}}
      BY <1>1, <1>2, <3>3
    <3>5. \A t, u \in woken' : t = u
      BY <1>4, <3>4 DEF QueueInv
    <3> QED  BY <1>1, <1>2, <2>2, <3>4, <3>5 DEF LockInv, OneOnAir
  <2> QED  BY <2>1, <2>2
<1> QED  BY <1>3, <1>4, <1>5

\* The two ways out of the lock.
LEMMA OutInv ==
    ASSUME GateInv, NEW s \in Senders, TxDone(s) \/ CancelSleep(s)
    PROVE  GateInv'
<1> USE DEF GateInv
<1>1. s \in Holders /\ Release(s) /\ pc' = [pc EXCEPT ![s] = "out"]
  BY DEF TxDone, CancelSleep, Out, Holders
<1>2. LockInv' /\ QueueInv'
  BY <1>1, ReleaseInv
<1>3. locked' = FALSE /\ ahead' = ahead /\ woken' \subseteq Senders
  BY <1>1 DEF Release, FirstBut, Waiters, GateType
<1>4. GateType' /\ ClockInv'
  <2>1. locked' \in BOOLEAN
    BY <1>3, Zenon
  <2>2. \/ sinceSend' = 0 /\ airSend' = 0 /\ UNCHANGED <<sinceRx, airRx>>
        \/ UNCHANGED <<sinceSend, sinceRx, airSend, airRx>>
    BY DEF TxDone, CancelSleep
  <2> QED  BY <1>1, <1>3, <2>1, <2>2, GateAssumption DEF GateType, ClockInv
<1> QED  BY <1>2, <1>4

\* Time and the channel touch only the clocks.
LEMMA ClockStepInv ==
    ASSUME GateInv, ChannelRx \/ Tick
    PROVE  GateInv'
<1> USE DEF GateInv
<1>1. UNCHANGED <<pc, ahead, woken, locked>>
  BY DEF ChannelRx, Tick, lockVars
<1>2. LockInv' /\ QueueInv'
  BY <1>1 DEF LockInv, QueueInv, OneOnAir, Holders, Waiters
<1>3. ClockInv' /\ sinceSend' \in 0..Spacing /\ sinceRx' \in 0..Guard
  BY GateAssumption DEF ChannelRx, Tick, ClockInv, GateType, Older
<1> QED  BY <1>1, <1>2, <1>3 DEF GateType

\* One step of the gate, or none.
LEMMA GateNextInv == GateInv /\ [Next]_vars => GateInv'
<1> SUFFICES ASSUME GateInv, [Next]_vars PROVE GateInv'
  OBVIOUS
<1>1. ASSUME NEW s \in Senders, Enter(s) PROVE GateInv'
  BY <1>1, EnterInv
<1>2. ASSUME NEW s \in Senders, Step(s) PROVE GateInv'
  BY <1>2, AcquireInv, SleepOverInv, OutInv DEF Step
<1>3. ASSUME NEW s \in Senders, CancelSleep(s) \/ CancelWait(s) PROVE GateInv'
  BY <1>3, OutInv, CancelWaitInv
<1>4. CASE ChannelRx \/ Tick
  BY <1>4, ClockStepInv
<1>5. CASE UNCHANGED vars
  BY <1>5 DEF vars, GateInv, GateType, LockInv, QueueInv, ClockInv, OneOnAir, Holders, Waiters
<1> QED  BY <1>1, <1>2, <1>3, <1>4, <1>5 DEF Next

\* The gate never leaves its invariant.
THEOREM GateInvariant == Spec => []GateInv
<1>1. Init => GateInv
  BY GateInitInv
<1>2. GateInv /\ [Next]_vars => GateInv'
  BY GateNextInv
<1> QED  BY <1>1, <1>2, PTL DEF Spec

\* At most one task is ever past the send lock, whoever is cancelled when.
THEOREM GateSerializes == Spec => []OneOnAir
<1>1. GateInv => OneOnAir
  BY DEF GateInv, LockInv
<1> QED  BY <1>1, GateInvariant, PTL

\* A step that puts s on the air, and the only ones that let it past the lock.
LEMMA PastTheLock ==
    ASSUME GateInv, Next, NEW s \in Senders, pc[s] # pc'[s], pc'[s] \in {"sleep", "tx"}
    PROVE  /\ WaitForQuietAir(s)
           /\ (Enter(s) /\ CanAcquire) \/ Acquire(s) \/ SleepOver(s)
<1> USE DEF GateInv, GateType
<1>1. ASSUME NEW t \in Senders, NEW l, pc' = [pc EXCEPT ![t] = l] PROVE t = s /\ l = pc'[s]
  BY <1>1
<1>2. ASSUME NEW t \in Senders, Enter(t) PROVE Enter(s) /\ CanAcquire /\ WaitForQuietAir(s)
  <2>1. CASE CanAcquire
    <3>1. WaitForQuietAir(t)
      BY <1>2, <2>1 DEF Enter
    <3>2. t = s
      BY <3>1, <1>1, QuietAir
    <3> QED  BY <1>2, <2>1, <3>1, <3>2
  <2>2. CASE ~CanAcquire
    <3>1. pc' = [pc EXCEPT ![t] = "wait"]
      BY <1>2, <2>2 DEF Enter
    <3> QED  BY <1>1, <3>1
  <2> QED  BY <2>1, <2>2
<1>3. ASSUME NEW t \in Senders, Acquire(t) PROVE Acquire(s) /\ WaitForQuietAir(s)
  <2>1. WaitForQuietAir(t)
    BY <1>3 DEF Acquire
  <2>2. t = s
    BY <2>1, <1>1, QuietAir
  <2> QED  BY <1>3, <2>1, <2>2
<1>4. ASSUME NEW t \in Senders, SleepOver(t) PROVE SleepOver(s) /\ WaitForQuietAir(s)
  <2>1. WaitForQuietAir(t)
    BY <1>4 DEF SleepOver
  <2>2. t = s
    BY <2>1, <1>1, QuietAir
  <2> QED  BY <1>4, <2>1, <2>2
<1>5. ASSUME NEW t \in Senders, TxDone(t) \/ CancelSleep(t) \/ CancelWait(t) PROVE FALSE
  <2>1. pc' = [pc EXCEPT ![t] = "out"]
    BY <1>5 DEF TxDone, CancelSleep, CancelWait, Out
  <2> QED  BY <1>1, <2>1
<1>6. CASE ChannelRx \/ Tick
  BY <1>6 DEF ChannelRx, Tick
<1> QED  BY <1>2, <1>3, <1>4, <1>5, <1>6 DEF Next, Step

\* Every transmission starts on quiet air: send_spacing_seconds after the last
\* one ended and channel_rx_guard_seconds after the channel was last heard.
THEOREM GateWaitsForQuietAir == Spec => QuietAirAtStart
<1>1. GateInv /\ [Next]_vars =>
        [\A s \in Senders : pc[s] # "tx" /\ pc'[s] = "tx"
            => airSend = Spacing /\ airRx = Guard]_vars
  <2> SUFFICES ASSUME GateInv, Next, NEW s \in Senders, pc[s] # "tx", pc'[s] = "tx"
               PROVE  airSend = Spacing /\ airRx = Guard
    BY DEF vars
  <2>1. WaitForQuietAir(s)
    BY PastTheLock
  <2>2. sinceSend = Spacing /\ sinceRx = Guard
    BY <2>1, QuietAir DEF GateInv
  <2> QED  BY <2>2 DEF GateInv, ClockInv
<1> QED  BY <1>1, GateInvariant, PTL DEF Spec, QuietAirAtStart

\* Packets leave in the order in which they entered.
THEOREM GateIsFair == Spec => FirstComeFirstServed
<1>1. GateInv /\ [Next]_vars =>
        [\A s \in Senders : s \notin Holders /\ s \in Holders'
            => \A t \in Waiters \ {s} : s \in ahead[t]]_vars
  <2> SUFFICES ASSUME GateInv, Next, NEW s \in Senders, s \notin Holders, s \in Holders',
                      NEW t \in Waiters \ {s}
               PROVE  s \in ahead[t]
    BY DEF vars
  <2>1. (Enter(s) /\ CanAcquire) \/ Acquire(s) \/ SleepOver(s)
    BY PastTheLock DEF Holders
  <2>2. CASE CanAcquire
    BY <2>2 DEF CanAcquire
  <2>3. CASE Acquire(s)
    <3>1. s \in Waiters /\ ahead[s] = {}
      BY <2>3 DEF Acquire, GateInv, LockInv
    <3> QED  BY <3>1 DEF GateInv, QueueInv
  <2>4. CASE SleepOver(s)
    BY <2>4 DEF SleepOver, Holders
  <2> QED  BY <2>1, <2>2, <2>3, <2>4
<1> QED  BY <1>1, GateInvariant, PTL DEF Spec, FirstComeFirstServed

-----------------------------------------------------------------------------
(* The depth counter. *)

Inside == {s \in Senders : pc[s] # "out"}

\* The packets inside the gate are finitely many.
LEMMA InsideFinite == IsFiniteSet(Inside) /\ Cardinality(Inside) \in Nat
BY GateAssumption, FS_Subset, FS_CardinalityType DEF Inside

\* One sender enters: the counter and the set grow by one.
LEMMA EnterDepth ==
    ASSUME GateInv, DepthExact, NEW s \in Senders, Enter(s)
    PROVE  DepthExact'
<1>1. pc[s] = "out" /\ depth < MaxDepth /\ depth' = depth + 1 /\ depth = Cardinality(Inside)
  BY DEF Enter, DepthExact, Inside
<1>2. \E l \in {"wait", "sleep", "tx"} : pc' = [pc EXCEPT ![s] = l]
  <2>1. CASE CanAcquire
    BY <2>1, QuietAir DEF Enter, GateInv
  <2>2. CASE ~CanAcquire
    BY <2>2 DEF Enter
  <2> QED  BY <2>1, <2>2
<1>3. Inside' = Inside \cup {s} /\ s \notin Inside
  BY <1>1, <1>2 DEF Inside, GateInv, GateType
<1>4. Cardinality(Inside \cup {s}) =
        IF s \in Inside THEN Cardinality(Inside) ELSE Cardinality(Inside) + 1
  BY InsideFinite, FS_AddElement, Zenon
<1>5. Cardinality(Inside') = depth + 1
  BY <1>1, <1>3, <1>4
<1> QED  BY <1>1, <1>5, InsideFinite, GateAssumption DEF DepthExact, Inside

\* One sender leaves, by whatever path: both shrink by one.
LEMMA OutDepth ==
    ASSUME GateInv, DepthExact, NEW s \in Senders, pc[s] # "out", Out(s)
    PROVE  DepthExact'
<1>1. depth' = depth - 1 /\ depth = Cardinality(Inside) /\ depth <= MaxDepth
  BY DEF Out, DepthExact, Inside
<1>2. Inside' = Inside \ {s} /\ s \in Inside
  BY DEF Out, Inside, GateInv, GateType
<1>3. Cardinality(Inside \ {s}) =
        IF s \in Inside THEN Cardinality(Inside) - 1 ELSE Cardinality(Inside)
  BY InsideFinite, FS_RemoveElement, Zenon
<1>4. Cardinality(Inside') = depth - 1
  BY <1>1, <1>2, <1>3
<1> QED  BY <1>1, <1>4, InsideFinite, GateAssumption DEF DepthExact, Inside

\* The other steps leave both alone.
LEMMA SameDepth ==
    ASSUME DepthExact, depth' = depth, Inside' = Inside
    PROVE  DepthExact'
BY DEF DepthExact, Inside

\* _send_queue_depth is exact on every path through the gate, cancellations
\* included, and never exceeds max_send_queue_depth.
THEOREM GateDepthExact == Spec => []DepthExact
<1>1. Init => DepthExact
  <2> SUFFICES ASSUME Init PROVE DepthExact
    OBVIOUS
  <2>1. {s \in Senders : pc[s] # "out"} = {}
    BY DEF Init
  <2> QED  BY <2>1, FS_EmptySet, GateAssumption DEF Init, DepthExact
<1>2. GateInv /\ DepthExact /\ [Next]_vars => DepthExact'
  <2> SUFFICES ASSUME GateInv, DepthExact, [Next]_vars PROVE DepthExact'
    OBVIOUS
  <2>1. ASSUME NEW s \in Senders, Enter(s) PROVE DepthExact'
    BY <2>1, EnterDepth
  <2>2. ASSUME NEW s \in Senders, TxDone(s) \/ CancelSleep(s) \/ CancelWait(s)
        PROVE  DepthExact'
    BY <2>2, OutDepth DEF TxDone, CancelSleep, CancelWait
  <2>3. ASSUME NEW s \in Senders, Acquire(s) \/ SleepOver(s) PROVE DepthExact'
    <3>1. pc[s] # "out" /\ depth' = depth /\ WaitForQuietAir(s)
      BY <2>3 DEF Acquire, SleepOver
    <3>2. PICK l \in {"sleep", "tx"} : pc' = [pc EXCEPT ![s] = l]
      BY <3>1, QuietAir DEF GateInv
    <3>3. Inside' = Inside
      BY <3>1, <3>2 DEF Inside, GateInv, GateType
    <3> QED  BY <3>1, <3>3, SameDepth
  <2>4. CASE ChannelRx \/ Tick \/ UNCHANGED vars
    <3>1. depth' = depth /\ pc' = pc
      BY <2>4 DEF ChannelRx, Tick, vars
    <3> QED  BY <3>1, SameDepth DEF Inside
  <2> QED  BY <2>1, <2>2, <2>3, <2>4 DEF Next, Step
<1> QED  BY <1>1, <1>2, GateInvariant, PTL DEF Spec

-----------------------------------------------------------------------------
(* Wake-ups. *)

\* Any waiters have a first one among them.  Said of all sets of waiters this
\* is inductive, and no counting is needed.
HasFirst == \A S \in SUBSET Waiters : S # {} => \E s \in S : ahead[s] \cap S = {}

WakeInv == HasFirst /\ NoLostWakeup

\* A newcomer queues behind everyone, or finds nobody in the queue.
LEMMA EnterWake ==
    ASSUME GateInv, WakeInv, NEW s \in Senders, Enter(s)
    PROVE  WakeInv'
<1> USE DEF GateInv, GateType, Waiters
<1>1. CASE CanAcquire
  <2>1. PICK l \in {"sleep", "tx"} : pc' = [pc EXCEPT ![s] = l]
    BY <1>1, QuietAir DEF Enter
  <2>2. Waiters' = {}
    BY <1>1, <2>1 DEF CanAcquire
  <2> QED  BY <2>2 DEF WakeInv, HasFirst, NoLostWakeup
<1>2. CASE ~CanAcquire
  <2>1. /\ pc[s] = "out" /\ ahead' = [ahead EXCEPT ![s] = Waiters]
        /\ woken' = woken /\ locked' = locked /\ Waiters' = Waiters \cup {s}
    BY <1>2 DEF Enter
  <2>2. s \notin Waiters /\ \A t \in Waiters : ahead'[t] = ahead[t] /\ s \notin ahead[t]
    BY <2>1 DEF QueueInv
  <2>3. HasFirst'
    <3> SUFFICES ASSUME NEW S \in SUBSET Waiters', S # {}
                 PROVE  \E t \in S : ahead'[t] \cap S = {}
      BY DEF HasFirst
    <3>1. CASE S = {s}
      BY <2>1, <2>2, <3>1
    <3>2. CASE S # {s}
      <4>1. S \ {s} \in SUBSET Waiters /\ S \ {s} # {}
        BY <2>1, <3>2
      <4>2. PICK t \in S \ {s} : ahead[t] \cap (S \ {s}) = {}
        BY <4>1 DEF WakeInv, HasFirst
      <4> QED  BY <2>2, <4>1, <4>2
    <3> QED  BY <3>1, <3>2
  <2>4. NoLostWakeup'
    BY <1>2, <2>1, <2>2 DEF WakeInv, NoLostWakeup, CanAcquire
  <2> QED  BY <2>3, <2>4 DEF WakeInv
<1> QED  BY <1>1, <1>2

\* A holder that leaves wakes the first in line.
LEMMA ReleaseWake ==
    ASSUME GateInv, WakeInv, NEW s \in Senders, TxDone(s) \/ CancelSleep(s)
    PROVE  WakeInv'
<1> USE DEF GateInv, GateType, Waiters
<1>1. /\ Waiters' = Waiters /\ s \notin Waiters /\ ahead' = ahead
      /\ woken' = woken \cup FirstBut(s)
  BY DEF TxDone, CancelSleep, Release, Out
<1>2. HasFirst'
  BY <1>1 DEF WakeInv, HasFirst
<1>3. ASSUME Waiters # {} PROVE \E t \in FirstBut(s) : ahead[t] = {}
  <2>1. PICK t \in Waiters : ahead[t] \cap Waiters = {}
    BY <1>3 DEF WakeInv, HasFirst
  <2>2. ahead[t] = {}
    BY <2>1 DEF QueueInv
  <2> QED  BY <1>1, <2>1, <2>2 DEF FirstBut
<1>4. NoLostWakeup'
  BY <1>1, <1>3 DEF NoLostWakeup, FirstBut
<1> QED  BY <1>2, <1>4 DEF WakeInv

\* A cancelled waiter's wake-up goes to the next.
LEMMA CancelWake ==
    ASSUME GateInv, WakeInv, NEW s \in Senders, CancelWait(s)
    PROVE  WakeInv'
<1> USE DEF GateInv, GateType, Waiters
<1>1. /\ Waiters' = Waiters \ {s} /\ locked' = locked
      /\ \A t \in Waiters' : ahead'[t] = ahead[t] \ {s}
      /\ ~locked => woken' = (woken \ {s}) \cup FirstBut(s)
  BY DEF CancelWait, Out, Leave
<1>2. HasFirst'
  BY <1>1 DEF WakeInv, HasFirst
<1>3. ASSUME Waiters' # {} PROVE \E t \in FirstBut(s) : ahead'[t] = {}
  <2>1. PICK t \in Waiters' : ahead'[t] \cap Waiters' = {}
    BY <1>2, <1>3 DEF HasFirst
  <2>2. ahead'[t] = {}
    BY <1>1, <2>1 DEF QueueInv
  <2> QED  BY <1>1, <2>1, <2>2 DEF FirstBut
<1>4. NoLostWakeup'
  BY <1>1, <1>3 DEF NoLostWakeup, FirstBut
<1> QED  BY <1>2, <1>4 DEF WakeInv

\* asyncio.Lock as the gate uses it never sleeps on a free lock: whenever it is
\* free and packets wait, the first of them has been woken, for any number of
\* tasks and through any cancellations.
THEOREM GateNoLostWakeup == Spec => []NoLostWakeup
<1>1. Init => WakeInv
  BY DEF Init, WakeInv, HasFirst, NoLostWakeup, Waiters
<1>2. GateInv /\ WakeInv /\ [Next]_vars => WakeInv'
  <2> SUFFICES ASSUME GateInv, WakeInv, [Next]_vars PROVE WakeInv'
    OBVIOUS
  <2>1. ASSUME NEW s \in Senders, Acquire(s) PROVE WakeInv'
    <3>1. WaitForQuietAir(s) /\ locked' = TRUE /\ ahead' = Leave(s)
      BY <2>1 DEF Acquire
    <3>2. Waiters' \subseteq Waiters /\ \A t \in Waiters' : ahead'[t] \subseteq ahead[t]
      BY <3>1, QuietAir DEF GateInv, GateType, Leave, Waiters
    <3>3. HasFirst'
      BY <3>2 DEF WakeInv, HasFirst
    <3> QED  BY <3>1, <3>3 DEF WakeInv, NoLostWakeup
  <2>2. ASSUME NEW s \in Senders, SleepOver(s) PROVE WakeInv'
    <3>1. WaitForQuietAir(s) /\ pc[s] = "sleep" /\ UNCHANGED <<ahead, woken, locked>>
      BY <2>2 DEF SleepOver, lockVars
    <3>2. Waiters' = Waiters
      BY <3>1, QuietAir DEF GateInv, GateType, Waiters
    <3> QED  BY <3>1, <3>2 DEF WakeInv, HasFirst, NoLostWakeup
  <2>3. CASE ChannelRx \/ Tick \/ UNCHANGED vars
    BY <2>3 DEF ChannelRx, Tick, vars, lockVars, WakeInv, HasFirst, NoLostWakeup, Waiters
  <2> QED  BY <2>1, <2>2, <2>3, EnterWake, ReleaseWake, CancelWake DEF Next, Step
<1>3. WakeInv => NoLostWakeup
  BY DEF WakeInv
<1> QED  BY <1>1, <1>2, <1>3, GateInvariant, PTL DEF Spec

-----------------------------------------------------------------------------
(* The rest of the type. *)

RestType == sleepLeft \in Nat /\ rxLeft \in 0..MaxRx

\* Every variable of the gate keeps its type; the depth is a natural number
\* because it is exact.
THEOREM GateTypeOK == Spec => []TypeOK
<1>1. Init => RestType
  BY GateAssumption DEF Init, RestType
<1>2. GateInv /\ RestType /\ [Next]_vars => RestType'
  <2> SUFFICES ASSUME GateInv, RestType, [Next]_vars PROVE RestType'
    OBVIOUS
  <2>1. Remaining \in Nat
    BY GateAssumption DEF Remaining, Later, Before, GateInv, GateType
  <2>2. ASSUME NEW s \in Senders, Enter(s) \/ Acquire(s) \/ SleepOver(s) PROVE RestType'
    BY <2>1, <2>2 DEF Enter, Acquire, SleepOver, WaitForQuietAir, RestType
  <2>3. ASSUME NEW s \in Senders, TxDone(s) \/ CancelSleep(s) \/ CancelWait(s) PROVE RestType'
    BY <2>3 DEF TxDone, CancelSleep, CancelWait, RestType
  <2>4. CASE ChannelRx \/ Tick \/ UNCHANGED vars
    BY <2>4, GateAssumption DEF ChannelRx, Tick, vars, RestType, Before
  <2> QED  BY <2>2, <2>3, <2>4 DEF Next, Step
<1>3. GateInv /\ DepthExact /\ RestType => TypeOK
  BY InsideFinite DEF GateInv, GateType, ClockInv, DepthExact, Inside, RestType, TypeOK
<1> QED  BY <1>1, <1>2, <1>3, GateInvariant, GateDepthExact, PTL DEF Spec

-----------------------------------------------------------------------------
(* Adverts and roll-call replies (Broadcasts): what they do to the gate is   *)
(* what the gate allows, so the theorems above hold beneath them.            *)

BroadcastSafety == BroadcastInit /\ [][BroadcastNext]_allVars

\* Every step is a step of the gate or leaves the gate alone.
LEMMA GateStep == [BroadcastNext]_allVars => [Next]_vars
<1> SUFFICES ASSUME [BroadcastNext]_allVars PROVE [Next]_vars
  OBVIOUS
<1>1. ASSUME NEW s \in Senders, SendIfDue(s) \/ Claim(s) \/ Message(s) PROVE [Next]_vars
  BY <1>1 DEF SendIfDue, Claim, Message, Dropped, Next
<1>2. ASSUME NEW s \in Senders, Progress(s) PROVE [Next]_vars
  BY <1>2 DEF Progress, Wait, MessageDone, AdvertDone, AdvertSent, AdvertRaised, RollCallReply,
              Dropped, Next, Step
<1>3. ASSUME NEW s \in Senders, Cancel(s) PROVE [Next]_vars
  BY <1>3 DEF Cancel, Next
<1>4. CASE Heard \/ Passing \/ UNCHANGED allVars
  BY <1>4 DEF Heard, Passing, allVars, Next
<1> QED  BY <1>1, <1>2, <1>3, <1>4 DEF BroadcastNext

\* The broadcasts implement the gate's specification: all that is proved of
\* _send_with_spacing for its senders holds with adverts (Advertiser) and
\* roll-call replies (handle_bots) among them.
THEOREM BroadcastsUseGate == BroadcastSafety => Spec
<1>1. BroadcastInit => Init
  BY DEF BroadcastInit
<1> QED  BY <1>1, GateStep, PTL DEF BroadcastSafety, Spec

-----------------------------------------------------------------------------
(* Adverts. *)

AdvertType ==
    /\ adverts \subseteq Adverters
    /\ sinceAdvert \in 0..AdvertCooldown
    /\ airAdvert \in 0..AdvertCooldown

\* The stamp is no older than the advert on the air, and an advert on its way
\* that was admitted after the last one was sent follows a full cooldown of
\* silence.
AdvertInv ==
    /\ AdvertType
    /\ sinceAdvert <= airAdvert
    /\ \A s \in adverts \ overlapping : airAdvert = AdvertCooldown

\* Every step keeps it.
LEMMA AdvertStep == AdvertInv /\ [BroadcastNext]_allVars => AdvertInv'
<1> SUFFICES ASSUME AdvertInv, [BroadcastNext]_allVars PROVE AdvertInv'
  OBVIOUS
<1> USE BroadcastAssumption DEF AdvertInv, AdvertType
<1>1. ASSUME UNCHANGED advertVars PROVE AdvertInv'
  BY <1>1 DEF advertVars
<1>2. ASSUME NEW s \in Senders, SendIfDue(s) PROVE AdvertInv'
  <2>1. CASE sinceAdvert' = 0 /\ UNCHANGED adverts
    BY <1>2, <2>1 DEF SendIfDue
  <2>2. CASE adverts' = adverts \cup {s} /\ UNCHANGED sinceAdvert
    BY <1>2, <2>2 DEF SendIfDue
  <2> QED  BY <1>2, <2>1, <2>2 DEF SendIfDue
<1>3. ASSUME NEW s \in Senders, AdvertDone(s) PROVE AdvertInv'
  <2>1. CASE AdvertSent(s)
    BY <2>1 DEF AdvertSent
  <2>2. CASE AdvertRaised(s)
    BY <2>2 DEF AdvertRaised
  <2> QED  BY <1>3, <2>1, <2>2 DEF AdvertDone
<1>4. ASSUME NEW s \in Senders, Cancel(s) PROVE AdvertInv'
  BY <1>4 DEF Cancel
<1>5. ASSUME NEW s \in Senders, Claim(s) \/ Message(s) \/ Wait(s) \/ MessageDone(s) \/ RollCallReply(s)
      PROVE  AdvertInv'
  BY <1>1, <1>5 DEF Claim, Message, Wait, MessageDone, RollCallReply, broadcastVars, advertVars
<1>6. CASE Heard \/ UNCHANGED allVars
  BY <1>1, <1>6 DEF Heard, allVars, broadcastVars, advertVars
<1>7. CASE Passing
  BY <1>7 DEF Passing, Older
<1> QED  BY <1>2, <1>3, <1>4, <1>5, <1>6, <1>7 DEF BroadcastNext, Progress

\* Where a step can put an advert on the air.
LEMMA AdvertOnAir ==
    ASSUME BroadcastNext, NEW s \in Senders, s \in adverts'
    PROVE  s \in adverts \/ sinceAdvert >= AdvertCooldown
<1>1. ASSUME NEW t \in Senders, SendIfDue(t) PROVE s \in adverts \/ sinceAdvert >= AdvertCooldown
  BY <1>1 DEF SendIfDue
<1>2. ASSUME NEW t \in Senders,
             Claim(t) \/ Message(t) \/ Progress(t) \/ Cancel(t)
      PROVE  s \in adverts
  BY <1>2 DEF Claim, Message, Progress, Wait, MessageDone, AdvertDone, AdvertSent, AdvertRaised,
              RollCallReply, Cancel, broadcastVars, advertVars
<1>3. CASE Heard \/ Passing
  BY <1>3 DEF Heard, Passing, broadcastVars
<1> QED  BY <1>1, <1>2, <1>3 DEF BroadcastNext

-----------------------------------------------------------------------------
(* Roll calls. *)

Jitter == DelayMax - DelayMin

\* Ages and delays add up: a task's delay started no later than the last claim
\* less its age, a claim follows the last reply by at most the longest delay,
\* and two sleepers, or a sleeper and the last reply, are apart by the cooldown
\* less the jitter.
RollCallInv ==
    /\ sinceClaim \in 0..BotsCooldown /\ sinceReply \in 0..BotsCooldown
    /\ delayLeft \in [Senders -> Nat]
    /\ replying \subseteq Senders
    /\ sinceClaim <= sinceReply + DelayMax
    /\ \A s \in replying :
          /\ sinceClaim + delayLeft[s] <= DelayMax
          /\ sinceReply + delayLeft[s] + Jitter >= BotsCooldown
    /\ \A s, t \in replying : s # t =>
          \/ delayLeft[s] + Jitter >= BotsCooldown + delayLeft[t]
          \/ delayLeft[t] + Jitter >= BotsCooldown + delayLeft[s]

\* Every step keeps it.
LEMMA RollCallStep == RollCallInv /\ [BroadcastNext]_allVars => RollCallInv'
<1> SUFFICES ASSUME RollCallInv, [BroadcastNext]_allVars PROVE RollCallInv'
  OBVIOUS
<1> USE BroadcastAssumption DEF RollCallInv, Jitter
<1>1. ASSUME UNCHANGED rollCallVars PROVE RollCallInv'
  BY <1>1 DEF rollCallVars
<1>2. ASSUME NEW s \in Senders, Claim(s) PROVE RollCallInv'
  <2>1. /\ s \notin replying /\ sinceClaim >= BotsCooldown
        /\ sinceClaim' = 0 /\ replying' = replying \cup {s} /\ sinceReply' = sinceReply
    BY <1>2 DEF Claim, CanClaim, Idle
  <2>2. PICK d \in DelayMin..DelayMax : delayLeft' = [delayLeft EXCEPT ![s] = d]
    BY <1>2 DEF Claim
  <2>3. d \in Nat /\ delayLeft'[s] = d /\ \A t \in replying : delayLeft'[t] = delayLeft[t]
    BY <2>1, <2>2
  <2>4. \A t \in replying : d + Jitter >= BotsCooldown + delayLeft[t]
    BY <2>1, <2>2
  <2> QED  BY <2>1, <2>2, <2>3, <2>4
<1>3. ASSUME NEW s \in Senders, RollCallReply(s) PROVE RollCallInv'
  BY <1>3 DEF RollCallReply
<1>4. ASSUME NEW s \in Senders,
             SendIfDue(s) \/ Message(s) \/ Wait(s) \/ MessageDone(s) \/ AdvertDone(s) \/ Cancel(s)
      PROVE  RollCallInv'
  BY <1>1, <1>4 DEF SendIfDue, Message, Wait, MessageDone, AdvertDone, AdvertSent, AdvertRaised,
                    Cancel, broadcastVars, rollCallVars
<1>5. CASE Heard \/ UNCHANGED allVars
  BY <1>1, <1>5 DEF Heard, allVars, broadcastVars, rollCallVars
<1>6. CASE Passing
  <2>1. \A s \in replying : delayLeft[s] > 0 /\ delayLeft'[s] = delayLeft[s] - 1
    BY <1>6 DEF Passing, Before
  <2>2. delayLeft' \in [Senders -> Nat] /\ replying' = replying
    BY <1>6 DEF Passing, Before
  <2>3. /\ sinceClaim' = IF sinceClaim < BotsCooldown THEN sinceClaim + 1 ELSE BotsCooldown
        /\ sinceReply' = IF sinceReply < BotsCooldown THEN sinceReply + 1 ELSE BotsCooldown
    BY <1>6 DEF Passing, Older
  <2> QED  BY <2>1, <2>2, <2>3
<1> QED  BY <1>2, <1>3, <1>4, <1>5, <1>6 DEF BroadcastNext, Progress

\* An advert goes on the air within the cooldown of the one before only if it
\* was already past the test of send_if_due when that one was sent, and two
\* roll-call replies are handed to the gate at least the cooldown less the
\* jitter apart (Cooldown.claim, with the sleep of handle_bots after it), for
\* every cooldown, delay and number of tasks.  It is what is left of the two
\* cooldowns across those awaits, and not the minimal gap that the
\* configuration names.
THEOREM CloseAdvertsOverlap == BroadcastSafety => BroadcastGaps
<1> USE BroadcastAssumption
<1>1. BroadcastInit => AdvertInv /\ RollCallInv
  BY DEF BroadcastInit, AdvertInv, AdvertType, RollCallInv, Jitter
<1>2. AdvertInv /\ RollCallInv /\ [BroadcastNext]_allVars =>
        [\A s \in Senders :
          /\ s \in adverts' /\ pc[s] # "tx" /\ pc'[s] = "tx" /\ airAdvert < AdvertCooldown
                => s \in overlapping
          /\ s \in replying \ replying'
                => sinceReply + (DelayMax - DelayMin) >= BotsCooldown]_allVars
  <2> SUFFICES ASSUME AdvertInv, RollCallInv, BroadcastNext, NEW s \in Senders
               PROVE  /\ s \in adverts' /\ pc[s] # "tx" /\ pc'[s] = "tx" /\ airAdvert < AdvertCooldown
                            => s \in overlapping
                      /\ s \in replying \ replying'
                            => sinceReply + (DelayMax - DelayMin) >= BotsCooldown
    OBVIOUS
  <2>1. ASSUME s \in adverts', pc[s] # "tx", pc'[s] = "tx", airAdvert < AdvertCooldown
        PROVE  s \in overlapping
    BY <2>1, AdvertOnAir DEF AdvertInv, AdvertType
  <2>2. ASSUME s \in replying \ replying'
        PROVE  sinceReply + (DelayMax - DelayMin) >= BotsCooldown
    <3>1. delayLeft[s] = 0
      BY <2>2 DEF BroadcastNext, SendIfDue, Claim, Message, Progress, Wait, MessageDone, AdvertDone,
                  AdvertSent, AdvertRaised, RollCallReply, Cancel, Heard, Passing, broadcastVars, rollCallVars
    <3> QED  BY <2>2, <3>1 DEF RollCallInv, Jitter
  <2> QED  BY <2>1, <2>2
<1> QED  BY <1>1, <1>2, AdvertStep, RollCallStep, PTL DEF BroadcastSafety, BroadcastGaps
=============================================================================
