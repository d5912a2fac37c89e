--------------------------- MODULE GamePool_proofs ---------------------------
(***************************************************************************)
(* Proofs about the game service's pool, for any players and requests, any *)
(* cap and any number of managers.                                         *)
(***************************************************************************)
EXTENDS GamePool, FiniteSetTheorems, TLAPS

\* Inside Manager.Command.
InManager == {"enter", "run", "stale", "restart", "leave"}

\* t has made its manager and has not listed it yet, or will not.
Holds(t) == at[t] \in {"insert", "discard"} \/ (at[t] \in InManager /\ op[t] \in {"start", "reset"})

\* t has taken its manager off the list and is going to close it.
Ends(t) == at[t] = "close" \/ (at[t] \in InManager /\ op[t] \in {"end", "auto"})

\* What a goroutine is doing, and with which manager, where it is.
Roles ==
    \A t \in Threads :
        /\ at[t] # "idle" => player[t] \in Players
        /\ at[t] \in {"check", "open", "insert", "discard", "wipe"} => op[t] \in {"start", "reset"}
        /\ at[t] = "lookup" => op[t] = "command"
        /\ at[t] = "expire" => op[t] = "auto"
        /\ at[t] \in {"drop", "close"} => op[t] \in {"end", "auto", "reset"}
        /\ at[t] \in InManager => op[t] # "none"
        /\ at[t] \in {"idle", "lookup", "expire", "drop"} => mgr[t] = NoMgr
        /\ at[t] \in {"check", "open", "wipe"} => mgr[t] = NoMgr \/ mgr[t] \in closed

\* Managers are made in order, and a player's is nobody else's.
Made ==
    /\ \A p \in Players : entries[p] < nextMgr
    /\ \A m \in closed : m < nextMgr
    /\ \A t \in Threads : mgr[t] < nextMgr
    /\ \A p, q \in Players : entries[p] = entries[q] => p = q \/ entries[p] = NoMgr

\* Until it is listed, a manager is its maker's alone.
HeldAlone ==
    \A t \in Threads : Holds(t) =>
        /\ mgr[t] \notin closed
        /\ \A p \in Players : entries[p] # mgr[t]
        /\ \A u \in Threads : at[u] \in Using /\ mgr[u] = mgr[t] => u = t

\* Once it is being ended, it is not listed any more.
EndsUnlisted == \A t \in Threads : Ends(t) => \A p \in Players : entries[p] # mgr[t]

Owner(m) ==
    \/ \E p \in Players : entries[p] = m
    \/ \E t \in Threads : mgr[t] = m /\ (Holds(t) \/ Ends(t))

\* A manager that is not closed, and has a process or is about to get one, has
\* an owner: its entry, its maker or whoever ends it.  A goroutine that merely
\* uses it is none.
Owned ==
    \A m \in Mgrs :
        m \notin closed /\ (proc[m] # "none" \/ \E t \in Threads : at[t] \in Using /\ mgr[t] = m)
            => Owner(m)

\* The inductive invariant.
PoolInv ==
    /\ TypeOK /\ Roles /\ Made
    /\ HeldAlone /\ EndsUnlisted /\ EntryNotClosed /\ Owned
    /\ BusyIsTemporary
    /\ PoolBound

\* The conjuncts that say who has which manager.
Custody == HeldAlone /\ EndsUnlisted /\ EntryNotClosed /\ Owned

-----------------------------------------------------------------------------

\* Nothing is a manager's name and a request's at once, and NoMgr is neither.
LEMMA Naming ==
    /\ NoMgr \notin Mgrs /\ Mgrs \subseteq Threads /\ Requests \subseteq Threads
    /\ \A m \in Mgrs : m \in Int
    /\ NoMgr = 0 /\ MaxMgr \in Nat
BY PoolAssumption DEF NoMgr, Mgrs, Threads

\* Managers are named by numbers.
LEMMA Numbers ==
    ASSUME TypeOK
    PROVE  /\ \A p \in Players : entries[p] \in Nat
           /\ \A m \in closed : m \in Nat
           /\ \A t \in Threads : mgr[t] \in Nat
           /\ nextMgr \in Nat \ {0}
BY PoolAssumption DEF TypeOK, Mgrs, NoMgr

\* The pool starts empty.
LEMMA PoolInitInv == Init => PoolInv
<1>. SUFFICES ASSUME Init PROVE PoolInv
  OBVIOUS
<1>1. TypeOK
  <2>1. /\ entries \in [Players -> Mgrs \cup {NoMgr}] /\ nextMgr \in 1..(MaxMgr + 1)
        /\ moves \in [Mgrs -> 0..MaxMoves] /\ save \in [Players -> 0..MaxMoves]
    BY Naming, PoolAssumption DEF Init
  <2>2. /\ busy \in [Mgrs -> BOOLEAN] /\ timer \in [Mgrs -> BOOLEAN]
        /\ dir \in [Players -> BOOLEAN] /\ disturbed \in BOOLEAN
    BY DEF Init
  <2>3. /\ at \in [Threads -> Locations] /\ op \in [Threads -> Ops]
        /\ \A t \in Threads : at[t] \in Using => mgr[t] \in Mgrs
    BY DEF Init, Locations, Ops, Using
  <2>. QED
    BY <2>1, <2>2, <2>3 DEF Init, TypeOK
<1>2. Roles
  BY DEF Init, Roles, InManager
<1>3. Made
  BY Naming DEF Init, Made
<1>4. HeldAlone /\ EndsUnlisted
  BY DEF Init, HeldAlone, EndsUnlisted, Holds, Ends, InManager
<1>5. EntryNotClosed
  BY DEF Init, EntryNotClosed
<1>6. Owned
  BY DEF Init, Owned, Using
<1>7. BusyIsTemporary
  BY DEF Init, BusyIsTemporary
<1>8. PoolBound
  <2>1. Active = {}
    BY DEF Init, Active
  <2>. QED
    BY <2>1, FS_EmptySet, PoolAssumption DEF PoolBound
<1>. QED
  BY <1>1, <1>2, <1>3, <1>4, <1>5, <1>6, <1>7, <1>8 DEF PoolInv

\* The cap only depends on the entries.
LEMMA BoundKept ==
    ASSUME PoolBound, UNCHANGED entries
    PROVE  PoolBound'
BY DEF PoolBound, Active

\* Where the caller of Manager.Command goes on.
LEMMA ContinueFacts ==
    ASSUME PoolInv, NEW t \in Threads, at[t] \in InManager, Continue(t)
    PROVE  \/ op[t] = "command" /\ Return(t)
           \/ op[t] \in {"end", "auto"} /\ Goto(t, "close") /\ Local
           \/ op[t] \in {"start", "reset"} /\ Goto(t, "insert") /\ Local
<1>1. op[t] \in {"start", "command", "end", "auto", "reset"}
  BY DEF PoolInv, Roles, TypeOK, Ops
<1>. QED
  BY <1>1 DEF Continue, After

-----------------------------------------------------------------------------
(* The inductive step, one lemma per action. *)

\* A request comes in.
LEMMA RequestInv ==
    ASSUME PoolInv, NEW t \in Requests, NEW p \in Players, NEW o \in DOMAIN Enters,
           Request(t, p, o)
    PROVE  PoolInv'
<1>. t \in Threads
  BY Naming
<1>1. /\ o \in {"start", "command", "end", "reset"} /\ Enters[o] \in {"check", "lookup", "drop"}
      /\ o = "command" <=> Enters[o] = "lookup"
      /\ o = "start" <=> Enters[o] = "check"
  BY DEF Enters
<1>2. /\ at' = [at EXCEPT ![t] = Enters[o]] /\ op' = [op EXCEPT ![t] = o]
      /\ player' = [player EXCEPT ![t] = p] /\ at[t] = "idle"
      /\ UNCHANGED <<entries, nextMgr, timer, proc, moves, busy, closed, dir, save, mgr>>
  BY DEF Request, Goto, poolVars, mgrVars, diskVars
<1>3. TypeOK'
  <2>1. disturbed' \in BOOLEAN
    BY DEF Request
  <2>. QED
    BY <1>1, <1>2, <2>1 DEF PoolInv, TypeOK, Locations, Ops, Using
<1>4. Roles'
  BY <1>1, <1>2 DEF PoolInv, TypeOK, Roles, InManager
<1>5. Made'
  BY <1>2 DEF PoolInv, Made
<1>6. HeldAlone' /\ EndsUnlisted' /\ EntryNotClosed'
  BY <1>1, <1>2
     DEF PoolInv, TypeOK, HeldAlone, EndsUnlisted, EntryNotClosed, Holds, Ends, InManager, Using
<1>7. Owned'
  BY <1>1, <1>2 DEF PoolInv, TypeOK, Owned, Owner, Holds, Ends, InManager, Using
<1>8. BusyIsTemporary'
  BY <1>1, <1>2 DEF PoolInv, TypeOK, BusyIsTemporary, Working
<1>. QED
  BY <1>2, <1>3, <1>4, <1>5, <1>6, <1>7, <1>8, BoundKept DEF PoolInv

\* Custody is not touched by a goroutine that has no manager to answer for and
\* gets none.
LEMMA CustodyKept ==
    ASSUME PoolInv, NEW t \in Threads, ~Holds(t), ~Ends(t), UNCHANGED <<entries, proc, closed>>,
           at' \in [Threads -> Locations],
           \A u \in Threads : u # t => UNCHANGED <<at[u], op[u], mgr[u]>>,
           at'[t] \notin Using
    PROVE  Custody'
<1>1. ~Holds(t)' /\ ~Ends(t)'
  BY DEF Holds, Ends, InManager, Using
<1>2. \A u \in Threads : u # t => (Holds(u)' <=> Holds(u)) /\ (Ends(u)' <=> Ends(u))
  BY DEF Holds, Ends
<1>3. HeldAlone' /\ EndsUnlisted' /\ EntryNotClosed'
  BY <1>1, <1>2 DEF PoolInv, HeldAlone, EndsUnlisted, EntryNotClosed
<1>4. Owned'
  BY <1>1, <1>2 DEF PoolInv, Owned, Owner
<1>. QED
  BY <1>3, <1>4 DEF Custody

\* The first check of Start.
LEMMA StartCheckInv ==
    ASSUME PoolInv, NEW t \in Threads, StartCheck(t), UNCHANGED disturbed
    PROVE  PoolInv'
<1>1. /\ at[t] = "check"
      /\ UNCHANGED <<entries, nextMgr, timer, proc, moves, busy, closed, dir, save>>
      /\ Return(t) \/ (Goto(t, "open") /\ Local)
  BY DEF StartCheck, poolVars, mgrVars, diskVars
<1>2. TypeOK'
  BY <1>1 DEF PoolInv, TypeOK, Locations, Ops, Using, Return, Goto, Local
<1>3. Roles'
  BY <1>1 DEF PoolInv, TypeOK, Roles, InManager, Return, Goto, Local
<1>4. Made'
  BY <1>1, Naming DEF PoolInv, TypeOK, Made, Return, Local
<1>5. Custody'
  <2>1. ~Holds(t) /\ ~Ends(t) /\ at'[t] \notin Using
    BY <1>1 DEF PoolInv, TypeOK, Holds, Ends, InManager, Using, Return, Goto
  <2>2. \A u \in Threads : u # t => UNCHANGED <<at[u], op[u], mgr[u]>>
    BY <1>1 DEF PoolInv, TypeOK, Return, Goto, Local
  <2>. QED
    BY <1>1, <1>2, <2>1, <2>2, CustodyKept DEF TypeOK
<1>6. BusyIsTemporary'
  BY <1>1 DEF PoolInv, TypeOK, BusyIsTemporary, Working, Return, Goto, Local
<1>. QED
  BY <1>1, <1>2, <1>3, <1>4, <1>5, <1>6, BoundKept DEF PoolInv, Custody

\* Start makes a manager, or fails to.
LEMMA StartOpenInv ==
    ASSUME PoolInv, NEW t \in Threads, StartOpen(t), UNCHANGED disturbed
    PROVE  PoolInv'
<1>1. /\ at[t] = "open" /\ nextMgr \in Mgrs /\ nextMgr' = nextMgr + 1
      /\ nextMgr' \in 1..(MaxMgr + 1) /\ dir' \in [Players -> BOOLEAN]
      /\ UNCHANGED <<entries, timer, moves, busy, closed, save>>
      /\ op[t] \in {"start", "reset"} /\ player[t] \in Players
  BY Naming DEF PoolInv, TypeOK, Roles, StartOpen, Mgrs
<1>2. CASE Return(t) /\ UNCHANGED proc
  <2>1. TypeOK'
    BY <1>1, <1>2 DEF PoolInv, TypeOK, Locations, Ops, Using, Return, Goto
  <2>2. Roles'
    BY <1>1, <1>2 DEF PoolInv, TypeOK, Roles, InManager, Return, Goto
  <2>3. Made'
    <3>1. \A u \in Threads : mgr'[u] = mgr[u] \/ mgr'[u] = 0
      BY <1>2, Naming DEF PoolInv, TypeOK, Return
    <3>. QED
      BY <1>1, <3>1, Numbers DEF PoolInv, Made
  <2>4. Custody'
    <3>1. ~Holds(t) /\ ~Ends(t) /\ at'[t] \notin Using
      BY <1>1, <1>2 DEF PoolInv, TypeOK, Holds, Ends, InManager, Using, Return, Goto
    <3>2. \A u \in Threads : u # t => UNCHANGED <<at[u], op[u], mgr[u]>>
      BY <1>2 DEF PoolInv, TypeOK, Return, Goto
    <3>. QED
      BY <1>1, <1>2, <2>1, <3>1, <3>2, CustodyKept DEF TypeOK
  <2>5. BusyIsTemporary'
    BY <1>1, <1>2 DEF PoolInv, TypeOK, BusyIsTemporary, Working, Return, Goto
  <2>. QED
    BY <1>1, <2>1, <2>2, <2>3, <2>4, <2>5, BoundKept DEF PoolInv, Custody
<1>3. CASE /\ proc' = [proc EXCEPT ![nextMgr] = "live"]
           /\ mgr' = [mgr EXCEPT ![t] = nextMgr]
           /\ Goto(t, IF save[player[t]] # 0 THEN "enter" ELSE "insert")
           /\ UNCHANGED <<op, player>>
  <2>0. at' \in [Threads -> Locations] /\ at'[t] \in {"enter", "insert"}
        /\ \A u \in Threads : u # t => at'[u] = at[u]
    BY <1>3 DEF PoolInv, TypeOK, Goto, Locations
  <2>1. TypeOK'
    BY <1>1, <1>3, <2>0 DEF PoolInv, TypeOK
  <2>2. Roles'
    BY <1>1, <1>3, <2>0 DEF PoolInv, TypeOK, Roles, InManager
  <2>3. Made'
    <3>1. \A u \in Threads : mgr'[u] = mgr[u] \/ mgr'[u] = nextMgr
      BY <1>3 DEF PoolInv, TypeOK
    <3>. QED
      BY <1>1, <3>1, Numbers DEF PoolInv, Made
  <2>4. Holds(t)' /\ ~Ends(t)' /\ ~Holds(t) /\ ~Ends(t) /\ mgr'[t] = nextMgr
        /\ \A u \in Threads : u # t =>
              (Holds(u)' <=> Holds(u)) /\ (Ends(u)' <=> Ends(u)) /\ mgr'[u] = mgr[u]
    BY <1>1, <1>3, <2>0 DEF PoolInv, TypeOK, Holds, Ends, InManager
  <2>5. /\ nextMgr \notin closed /\ \A p \in Players : entries[p] # nextMgr
        /\ \A u \in Threads : mgr[u] # nextMgr
    BY <1>1, Naming DEF PoolInv, Made, TypeOK
  <2>6. HeldAlone' /\ EndsUnlisted' /\ EntryNotClosed'
    BY <1>1, <2>0, <2>4, <2>5 DEF PoolInv, HeldAlone, EndsUnlisted, EntryNotClosed
  <2>7. Owned'
    BY <1>1, <1>3, <2>0, <2>4, <2>5 DEF PoolInv, TypeOK, Owned, Owner
  <2>8. BusyIsTemporary'
    BY <1>1, <1>3, <2>0 DEF PoolInv, TypeOK, BusyIsTemporary, Working
  <2>. QED
    BY <1>1, <2>1, <2>2, <2>3, <2>6, <2>7, <2>8, BoundKept DEF PoolInv
<1>. QED
  BY <1>2, <1>3 DEF StartOpen

\* Start lists its manager, or gives it up.
LEMMA StartInsertInv ==
    ASSUME PoolInv, NEW t \in Threads, StartInsert(t), UNCHANGED disturbed
    PROVE  PoolInv'
<1>. DEFINE p == player[t]
            m == mgr[t]
<1>1. /\ at[t] = "insert" /\ p \in Players /\ m \in Mgrs /\ op[t] \in {"start", "reset"}
      /\ UNCHANGED <<nextMgr, proc, moves, busy, closed, dir, save>> /\ Holds(t)
  BY DEF PoolInv, TypeOK, Roles, StartInsert, mgrVars, diskVars, Using, Holds
<1>2. CASE /\ Fits(p) /\ entries' = [entries EXCEPT ![p] = m]
           /\ timer' = [timer EXCEPT ![m] = TRUE] /\ Return(t)
  <2>1. TypeOK'
    BY <1>1, <1>2 DEF PoolInv, TypeOK, Locations, Ops, Using, Return, Goto
  <2>2. Roles'
    BY <1>1, <1>2 DEF PoolInv, TypeOK, Roles, InManager, Return, Goto
  <2>3. Made'
    BY <1>1, <1>2, Naming DEF PoolInv, TypeOK, Made, HeldAlone, Return, Fits
  <2>4. ~Holds(t)' /\ ~Ends(t)' /\ ~Ends(t) /\ at'[t] \notin Using
        /\ \A u \in Threads : u # t =>
              /\ (Holds(u)' <=> Holds(u)) /\ (Ends(u)' <=> Ends(u))
              /\ mgr'[u] = mgr[u] /\ at'[u] = at[u]
    BY <1>1, <1>2 DEF PoolInv, TypeOK, Holds, Ends, InManager, Using, Return, Goto
  <2>5. \A q \in Players : entries'[q] = IF q = p THEN m ELSE entries[q]
    BY <1>1, <1>2 DEF PoolInv, TypeOK
  <2>6. m \notin closed /\ \A u \in Threads : at[u] \in Using /\ mgr[u] = m => u = t
    BY <1>1 DEF PoolInv, HeldAlone
  <2>7. \A u \in Threads : Holds(u) \/ Ends(u) => at[u] \in Using
    BY DEF Holds, Ends, InManager, Using
  <2>8. HeldAlone' /\ EndsUnlisted' /\ EntryNotClosed'
    BY <1>1, <2>4, <2>5, <2>6, <2>7 DEF PoolInv, HeldAlone, EndsUnlisted, EntryNotClosed
  <2>9. Owned'
    <3>. SUFFICES ASSUME NEW k \in Mgrs, k \notin closed, k # m,
                         proc[k] # "none" \/ \E u \in Threads : at'[u] \in Using /\ mgr'[u] = k
                  PROVE  Owner(k)'
      BY <1>1, <2>5 DEF Owned, Owner
    <3>1. Owner(k) /\ entries[p] # k
      BY <1>1, <1>2, <2>4, Naming DEF PoolInv, Owned, Fits
    <3>. QED
      BY <2>4, <2>5, <3>1 DEF Owner
  <2>10. BusyIsTemporary'
    BY <1>1, <1>2 DEF PoolInv, TypeOK, BusyIsTemporary, Working, Return, Goto
  <2>11. PoolBound'
    <3>1. Active' = Active \cup {p} /\ p \notin Active /\ Active \subseteq Players
      BY <1>1, <1>2, <2>5, Naming DEF Active, Fits
    <3>2. IsFiniteSet(Active)
      BY <3>1, FS_Subset, PoolAssumption
    <3>3. Cardinality(Active') = Cardinality(Active) + 1 /\ Cardinality(Active) \in Nat
      BY <3>1, <3>2, FS_AddElement, FS_CardinalityType
    <3>. QED
      BY <1>2, <3>3, PoolAssumption DEF Fits, PoolBound
  <2>. QED
    BY <2>1, <2>2, <2>3, <2>8, <2>9, <2>10, <2>11 DEF PoolInv
<1>3. CASE Goto(t, "discard") /\ Local /\ UNCHANGED <<entries, timer>>
  <2>0. at' = [at EXCEPT ![t] = "discard"] /\ UNCHANGED <<op, player, mgr>>
    BY <1>3 DEF Goto, Local
  <2>1. TypeOK'
    BY <1>1, <1>3, <2>0 DEF PoolInv, TypeOK, Locations, Using
  <2>2. Roles' /\ Made'
    BY <1>1, <1>3, <2>0 DEF PoolInv, TypeOK, Roles, Made, InManager
  <2>3. \A u \in Threads : (Holds(u)' <=> Holds(u)) /\ (Ends(u)' <=> Ends(u))
                           /\ (at'[u] \in Using <=> at[u] \in Using)
    BY <1>1, <2>0 DEF PoolInv, TypeOK, Holds, Ends, InManager, Using
  <2>4. HeldAlone' /\ EndsUnlisted' /\ EntryNotClosed'
    BY <1>1, <1>3, <2>0, <2>3 DEF PoolInv, HeldAlone, EndsUnlisted, EntryNotClosed
  <2>5. Owned'
    BY <1>1, <1>3, <2>0, <2>3 DEF PoolInv, Owned, Owner
  <2>6. BusyIsTemporary'
    BY <1>1, <2>0 DEF PoolInv, TypeOK, BusyIsTemporary, Working
  <2>. QED
    BY <1>3, <2>1, <2>2, <2>4, <2>5, <2>6, BoundKept DEF PoolInv
<1>. QED
  BY <1>2, <1>3 DEF StartInsert

\* Pool.Command finds its manager.
LEMMA CommandLookupInv ==
    ASSUME PoolInv, NEW t \in Threads, CommandLookup(t), UNCHANGED disturbed
    PROVE  PoolInv'
<1>. DEFINE m == entries[player[t]]
<1>1. /\ at[t] = "lookup" /\ player[t] \in Players /\ op[t] = "command"
      /\ UNCHANGED <<entries, nextMgr, proc, moves, busy, closed, dir, save>>
      /\ ~Holds(t) /\ ~Ends(t)
  BY DEF PoolInv, Roles, CommandLookup, mgrVars, diskVars, Holds, Ends, InManager
<1>2. CASE Return(t) /\ UNCHANGED timer
  <2>1. TypeOK'
    BY <1>1, <1>2 DEF PoolInv, TypeOK, Locations, Ops, Using, Return, Goto
  <2>2. Roles'
    BY <1>1, <1>2 DEF PoolInv, TypeOK, Roles, InManager, Return, Goto
  <2>3. Made'
    BY <1>1, <1>2, Naming DEF PoolInv, TypeOK, Made, Return
  <2>4. Custody'
    <3>1. at'[t] \notin Using /\ \A u \in Threads : u # t => UNCHANGED <<at[u], op[u], mgr[u]>>
      BY <1>2 DEF PoolInv, TypeOK, Using, Return, Goto
    <3>. QED
      BY <1>1, <2>1, <3>1, CustodyKept DEF TypeOK
  <2>5. BusyIsTemporary'
    BY <1>1, <1>2 DEF PoolInv, TypeOK, BusyIsTemporary, Working, Return, Goto
  <2>. QED
    BY <1>1, <2>1, <2>2, <2>3, <2>4, <2>5, BoundKept DEF PoolInv, Custody
<1>3. CASE /\ m # NoMgr /\ timer' = [timer EXCEPT ![m] = TRUE]
           /\ mgr' = [mgr EXCEPT ![t] = m] /\ at' = [at EXCEPT ![t] = "enter"]
           /\ UNCHANGED <<op, player>>
  <2>0. m \in Mgrs
    BY <1>1, <1>3 DEF PoolInv, TypeOK
  <2>1. TypeOK'
    BY <1>1, <1>3, <2>0 DEF PoolInv, TypeOK, Locations
  <2>2. Roles'
    BY <1>1, <1>3 DEF PoolInv, TypeOK, Roles, InManager
  <2>3. Made'
    BY <1>1, <1>3 DEF PoolInv, TypeOK, Made
  <2>4. ~Holds(t)' /\ ~Ends(t)' /\ mgr'[t] = m
        /\ \A u \in Threads : u # t =>
              /\ (Holds(u)' <=> Holds(u)) /\ (Ends(u)' <=> Ends(u))
              /\ mgr'[u] = mgr[u] /\ at'[u] = at[u]
    BY <1>1, <1>3 DEF PoolInv, TypeOK, Holds, Ends, InManager
  <2>5. HeldAlone' /\ EndsUnlisted' /\ EntryNotClosed'
    BY <1>1, <2>4 DEF PoolInv, HeldAlone, EndsUnlisted, EntryNotClosed
  <2>6. Owned'
    BY <1>1, <2>4 DEF PoolInv, Owned, Owner
  <2>7. BusyIsTemporary'
    BY <1>1, <1>3, <2>0 DEF PoolInv, TypeOK, BusyIsTemporary, Working
  <2>. QED
    BY <1>1, <2>1, <2>2, <2>3, <2>5, <2>6, <2>7, BoundKept DEF PoolInv
<1>. QED
  BY <1>2, <1>3 DEF CommandLookup, Goto

\* Steps of goroutines that stay inside Manager.Command: a process may come
\* back to a manager that somebody uses.
LEMMA InsideStep ==
    ASSUME PoolInv, UNCHANGED <<entries, nextMgr, closed, op, player, mgr>>,
           \A u \in Threads : at'[u] = at[u] \/ (at[u] \in InManager /\ at'[u] \in InManager),
           \A m \in Mgrs : proc'[m] # "none" =>
               proc[m] # "none" \/ \E u \in Threads : at[u] \in Using /\ mgr[u] = m
    PROVE  Roles' /\ Made' /\ Custody' /\ PoolBound'
<1>1. \A u \in Threads : /\ (Holds(u)' <=> Holds(u)) /\ (Ends(u)' <=> Ends(u))
                         /\ (at'[u] \in Using <=> at[u] \in Using)
  BY DEF Holds, Ends, InManager, Using
<1>2. Roles'
  BY DEF PoolInv, Roles, InManager
<1>3. Made'
  BY DEF PoolInv, Made
<1>4. HeldAlone' /\ EndsUnlisted' /\ EntryNotClosed'
  BY <1>1 DEF PoolInv, HeldAlone, EndsUnlisted, EntryNotClosed
<1>5. Owned'
  BY <1>1 DEF PoolInv, Owned, Owner
<1>. QED
  BY <1>2, <1>3, <1>4, <1>5, BoundKept DEF PoolInv, Custody

\* A goroutine leaves Manager.Command for where its caller goes on.
LEMMA ContinueStep ==
    ASSUME PoolInv, NEW t \in Threads, at[t] \in InManager, Continue(t),
           UNCHANGED <<entries, nextMgr, closed, proc>>
    PROVE  /\ Roles' /\ Made' /\ Custody' /\ PoolBound'
           /\ at' \in [Threads -> Locations] /\ op' \in [Threads -> Ops]
           /\ player' \in [Threads -> Players \cup {NoPlayer}]
           /\ mgr' \in [Threads -> Mgrs \cup {NoMgr}]
           /\ \A u \in Threads : at'[u] \in Using => mgr'[u] \in Mgrs
<1>0. mgr[t] \in Mgrs /\ at[t] \in Using
  BY DEF PoolInv, TypeOK, InManager, Using
<1>1. CASE op[t] = "command" /\ Return(t)
  <2>1. /\ at' = [at EXCEPT ![t] = "idle"] /\ op' = [op EXCEPT ![t] = "none"]
        /\ player' = [player EXCEPT ![t] = NoPlayer] /\ mgr' = [mgr EXCEPT ![t] = NoMgr]
    BY <1>1 DEF Return, Goto
  <2>2. ~Holds(t) /\ ~Ends(t) /\ at'[t] \notin Using
        /\ \A u \in Threads : u # t => UNCHANGED <<at[u], op[u], mgr[u]>>
    BY <1>1, <2>1 DEF PoolInv, TypeOK, Holds, Ends, InManager, Using
  <2>3. /\ at' \in [Threads -> Locations] /\ op' \in [Threads -> Ops]
        /\ player' \in [Threads -> Players \cup {NoPlayer}]
        /\ mgr' \in [Threads -> Mgrs \cup {NoMgr}]
        /\ \A u \in Threads : at'[u] \in Using => mgr'[u] \in Mgrs
    BY <2>1, <2>2 DEF PoolInv, TypeOK, Locations, Ops
  <2>4. Roles'
    BY <2>1 DEF PoolInv, TypeOK, Roles, InManager
  <2>5. Made'
    BY <2>1, Naming, Numbers DEF PoolInv, TypeOK, Made
  <2>. QED
    BY <2>2, <2>3, <2>4, <2>5, CustodyKept, BoundKept DEF PoolInv
<1>2. ASSUME NEW l \in {"close", "insert"}, at' = [at EXCEPT ![t] = l], Local,
             l = "close" => op[t] \in {"end", "auto"},
             l = "insert" => op[t] \in {"start", "reset"}
      PROVE  /\ Roles' /\ Made' /\ Custody' /\ PoolBound'
             /\ at' \in [Threads -> Locations]
             /\ \A u \in Threads : at'[u] \in Using => mgr'[u] \in Mgrs
  <2>1. UNCHANGED <<op, player, mgr>>
    BY <1>2 DEF Local
  <2>2. \A u \in Threads : /\ (Holds(u)' <=> Holds(u)) /\ (Ends(u)' <=> Ends(u))
                           /\ (at'[u] \in Using <=> at[u] \in Using)
    BY <1>2, <2>1 DEF PoolInv, TypeOK, Holds, Ends, InManager, Using
  <2>3. HeldAlone' /\ EndsUnlisted' /\ EntryNotClosed'
    BY <2>1, <2>2 DEF PoolInv, HeldAlone, EndsUnlisted, EntryNotClosed
  <2>4. Owned'
    BY <2>1, <2>2 DEF PoolInv, Owned, Owner
  <2>5. Roles' /\ Made'
    BY <1>2, <2>1 DEF PoolInv, TypeOK, Roles, Made, InManager
  <2>. QED
    BY <1>2, <2>1, <2>2, <2>3, <2>4, <2>5, BoundKept DEF PoolInv, TypeOK, Custody, Locations
<1>. QED
  BY <1>1, <1>2, ContinueFacts DEF Goto, Local, PoolInv, TypeOK

\* Manager.Command lets a goroutine in, or turns it away.
LEMMA ManagerEnterInv ==
    ASSUME PoolInv, NEW t \in Threads, ManagerEnter(t), UNCHANGED disturbed
    PROVE  PoolInv'
<1>1. /\ at[t] = "enter" /\ at[t] \in InManager /\ mgr[t] \in Mgrs
      /\ UNCHANGED <<entries, nextMgr, timer, proc, moves, closed, dir, save>>
  BY DEF PoolInv, TypeOK, Using, InManager, ManagerEnter, poolVars, diskVars
<1>2. CASE Continue(t) /\ UNCHANGED busy
  <2>1. TypeOK'
    BY <1>1, <1>2, ContinueStep DEF PoolInv, TypeOK
  <2>2. BusyIsTemporary'
    BY <1>1, <1>2, ContinueFacts
       DEF PoolInv, TypeOK, BusyIsTemporary, Working, Return, Goto, Local
  <2>. QED
    BY <1>1, <1>2, <2>1, <2>2, ContinueStep DEF PoolInv, Custody
<1>3. CASE busy' = [busy EXCEPT ![mgr[t]] = TRUE] /\ Goto(t, "run") /\ Local
  <2>0. at' = [at EXCEPT ![t] = "run"] /\ UNCHANGED <<op, player, mgr>>
    BY <1>3 DEF Goto, Local
  <2>1. TypeOK'
    BY <1>1, <1>3, <2>0 DEF PoolInv, TypeOK, Locations
  <2>2. BusyIsTemporary'
    BY <1>1, <1>3, <2>0 DEF PoolInv, TypeOK, BusyIsTemporary, Working
  <2>3. \A u \in Threads : at'[u] = at[u] \/ (at[u] \in InManager /\ at'[u] \in InManager)
    BY <1>1, <2>0 DEF PoolInv, TypeOK, InManager
  <2>. QED
    BY <1>1, <2>0, <2>1, <2>2, <2>3, InsideStep DEF PoolInv, Custody
<1>. QED
  BY <1>2, <1>3 DEF ManagerEnter

\* The game answers.
LEMMA RunOkInv ==
    ASSUME PoolInv, NEW t \in Threads, RunOk(t), UNCHANGED disturbed
    PROVE  PoolInv'
<1>1. /\ at[t] = "run" /\ mgr[t] \in Mgrs /\ player[t] \in Players
      /\ at' = [at EXCEPT ![t] = "leave"]
      /\ UNCHANGED <<entries, nextMgr, timer, proc, busy, closed, dir, op, player, mgr>>
  BY DEF PoolInv, TypeOK, Roles, Using, RunOk, poolVars, Goto, Local
<1>2. op[t] \in {"start", "command", "end", "auto", "reset"}
  BY <1>1 DEF PoolInv, TypeOK, Ops, Roles, InManager
<1>3. moves' \in [Mgrs -> 0..MaxMoves] /\ save' \in [Players -> 0..MaxMoves]
  <2>1. moves \in [Mgrs -> 0..MaxMoves] /\ save \in [Players -> 0..MaxMoves] /\ MaxMoves \in Nat
    BY PoolAssumption DEF PoolInv, TypeOK
  <2>2. CASE op[t] = "command"
    BY <1>1, <2>1, <2>2 DEF RunOk
  <2>3. CASE op[t] \in {"end", "auto"}
    BY <1>1, <2>1, <2>3 DEF RunOk
  <2>4. CASE op[t] \in {"start", "reset"}
    BY <1>1, <2>1, <2>4 DEF RunOk
  <2>. QED
    BY <1>2, <2>2, <2>3, <2>4
<1>4. TypeOK'
  BY <1>1, <1>3 DEF PoolInv, TypeOK, Locations
<1>5. BusyIsTemporary'
  BY <1>1 DEF PoolInv, TypeOK, BusyIsTemporary, Working
<1>6. \A u \in Threads : at'[u] = at[u] \/ (at[u] \in InManager /\ at'[u] \in InManager)
  BY <1>1 DEF PoolInv, TypeOK, InManager
<1>. QED
  BY <1>1, <1>4, <1>5, <1>6, InsideStep DEF PoolInv, Custody

\* The game does not answer.
LEMMA RunFailInv ==
    ASSUME PoolInv, NEW t \in Threads, RunFail(t), UNCHANGED disturbed
    PROVE  PoolInv'
<1>1. /\ at[t] \in {"run", "stale"} /\ mgr[t] \in Mgrs
      /\ at' = [at EXCEPT ![t] = "leave"] \/ at' = [at EXCEPT ![t] = "restart"]
      /\ UNCHANGED <<entries, nextMgr, timer, moves, busy, closed, dir, save, op, player, mgr>>
  BY DEF PoolInv, TypeOK, Using, RunFail, poolVars, diskVars, Goto, Local
<1>2. proc' \in [Mgrs -> {"none", "live", "dead"}]
      /\ \A m \in Mgrs : proc'[m] # "none" => proc[m] # "none"
  BY <1>1 DEF PoolInv, TypeOK, RunFail
<1>3. TypeOK'
  BY <1>1, <1>2 DEF PoolInv, TypeOK, Locations, Using
<1>4. BusyIsTemporary'
  BY <1>1 DEF PoolInv, TypeOK, BusyIsTemporary, Working
<1>5. \A u \in Threads : at'[u] = at[u] \/ (at[u] \in InManager /\ at'[u] \in InManager)
  BY <1>1 DEF PoolInv, TypeOK, InManager
<1>. QED
  BY <1>1, <1>2, <1>3, <1>4, <1>5, InsideStep DEF PoolInv, Custody

\* A restart after a timeout.
LEMMA ManagerRestartInv ==
    ASSUME PoolInv, NEW t \in Threads, ManagerRestart(t)
    PROVE  PoolInv'
<1>1. /\ at[t] = "restart" /\ mgr[t] \in Mgrs /\ player[t] \in Players
      /\ UNCHANGED <<entries, nextMgr, timer, closed, save, op, player, mgr>>
      /\ dir' = [dir EXCEPT ![player[t]] = TRUE]
      /\ disturbed' = (disturbed \/ ~dir[player[t]])
  BY DEF PoolInv, TypeOK, Roles, Using, ManagerRestart, poolVars, Local
<1>2. at' \in [Threads -> Locations] /\ at'[t] = "leave"
      /\ \A u \in Threads : u # t => at'[u] = at[u] \/ (at[u] = "run" /\ at'[u] = "stale")
  BY DEF PoolInv, TypeOK, ManagerRestart, Locations
<1>3. /\ proc' \in [Mgrs -> {"none", "live", "dead"}]
      /\ \A m \in Mgrs : proc'[m] # "none" => proc[m] # "none" \/ m = mgr[t]
      /\ busy' \in [Mgrs -> BOOLEAN] /\ \A m \in Mgrs : busy'[m] => busy[m]
      /\ moves' \in [Mgrs -> 0..MaxMoves]
  <2>1. /\ proc \in [Mgrs -> {"none", "live", "dead"}] /\ busy \in [Mgrs -> BOOLEAN]
        /\ moves \in [Mgrs -> 0..MaxMoves] /\ 0 \in 0..MaxMoves
    BY PoolAssumption DEF PoolInv, TypeOK
  <2>2. CASE /\ proc' = [proc EXCEPT ![mgr[t]] = "live"]
             /\ moves' = [moves EXCEPT ![mgr[t]] = 0]
             /\ busy' = [busy EXCEPT ![mgr[t]] = FALSE]
    BY <1>1, <2>1, <2>2
  <2>3. CASE /\ proc' = [proc EXCEPT ![mgr[t]] = IF @ = "live" THEN "dead" ELSE @]
             /\ UNCHANGED <<moves, busy>>
    BY <1>1, <2>1, <2>3
  <2>. QED
    BY <2>2, <2>3 DEF ManagerRestart
<1>4. dir' \in [Players -> BOOLEAN] /\ disturbed' \in BOOLEAN
  <2>1. dir \in [Players -> BOOLEAN]
    BY DEF PoolInv, TypeOK
  <2>2. dir' \in [Players -> BOOLEAN]
    BY <1>1, <2>1
  <2>3. disturbed' \in BOOLEAN
    BY <1>1, Zenon
  <2>. QED
    BY <2>2, <2>3
<1>5. \A u \in Threads : at'[u] \in Using => mgr'[u] \in Mgrs
  BY <1>1, <1>2 DEF PoolInv, TypeOK, Using
<1>6. TypeOK'
  BY <1>1, <1>2, <1>3, <1>4, <1>5 DEF PoolInv, TypeOK
<1>7. BusyIsTemporary'
  BY <1>1, <1>2, <1>3 DEF PoolInv, BusyIsTemporary, Working
<1>8. \A u \in Threads : at'[u] = at[u] \/ (at[u] \in InManager /\ at'[u] \in InManager)
  BY <1>1, <1>2 DEF InManager
<1>9. \A m \in Mgrs : proc'[m] # "none" =>
         proc[m] # "none" \/ \E u \in Threads : at[u] \in Using /\ mgr[u] = m
  BY <1>1, <1>3 DEF Using
<1>. QED
  BY <1>1, <1>6, <1>7, <1>8, <1>9, InsideStep DEF PoolInv, Custody

\* Manager.Command lets its goroutine go.
LEMMA ManagerLeaveInv ==
    ASSUME PoolInv, NEW t \in Threads, ManagerLeave(t), UNCHANGED disturbed
    PROVE  PoolInv'
<1>1. /\ at[t] = "leave" /\ at[t] \in InManager /\ mgr[t] \in Mgrs
      /\ UNCHANGED <<entries, nextMgr, timer, proc, moves, closed, dir, save>>
      /\ busy' = [busy EXCEPT ![mgr[t]] = FALSE] /\ Continue(t)
  BY DEF PoolInv, TypeOK, Using, InManager, ManagerLeave, poolVars, diskVars
<1>2. busy' \in [Mgrs -> BOOLEAN]
  BY <1>1 DEF PoolInv, TypeOK
<1>3. TypeOK'
  BY <1>1, <1>2, ContinueStep DEF PoolInv, TypeOK
<1>4. \A u \in Threads : u # t => at'[u] = at[u] /\ mgr'[u] = mgr[u]
  BY <1>1, ContinueFacts DEF PoolInv, TypeOK, Return, Goto, Local
<1>5. \A m \in Mgrs : busy'[m] => busy[m] /\ m # mgr[t]
  BY <1>1 DEF PoolInv, TypeOK
<1>6. BusyIsTemporary'
  BY <1>4, <1>5 DEF PoolInv, BusyIsTemporary, Working
<1>. QED
  BY <1>1, <1>3, <1>6, ContinueStep DEF PoolInv, Custody

\* A timer fires.
LEMMA TimerFiresInv ==
    ASSUME PoolInv, NEW m \in Mgrs, TimerFires(m), UNCHANGED disturbed
    PROVE  PoolInv'
<1>. m \in Threads
  BY Naming
<1>1. /\ at[m] = "idle" /\ at' = [at EXCEPT ![m] = "expire"] /\ op' = [op EXCEPT ![m] = "auto"]
      /\ \E p \in Players : player' = [player EXCEPT ![m] = p]
      /\ timer' = [timer EXCEPT ![m] = FALSE]
      /\ UNCHANGED <<entries, nextMgr, proc, moves, busy, closed, dir, save, mgr>>
  BY DEF TimerFires, mgrVars, diskVars, Goto
<1>2. timer' \in [Mgrs -> BOOLEAN]
  BY <1>1 DEF PoolInv, TypeOK
<1>3. TypeOK'
  BY <1>1, <1>2 DEF PoolInv, TypeOK, Locations, Ops, Using
<1>4. Roles'
  BY <1>1 DEF PoolInv, TypeOK, Roles, InManager
<1>5. Made'
  BY <1>1 DEF PoolInv, Made
<1>6. Custody'
  <2>1. ~Holds(m) /\ ~Ends(m) /\ at'[m] \notin Using
    BY <1>1 DEF PoolInv, TypeOK, Holds, Ends, InManager, Using
  <2>2. \A u \in Threads : u # m => UNCHANGED <<at[u], op[u], mgr[u]>>
    BY <1>1 DEF PoolInv, TypeOK
  <2>. QED
    BY <1>1, <1>3, <2>1, <2>2, CustodyKept DEF TypeOK
<1>7. BusyIsTemporary'
  BY <1>1 DEF PoolInv, TypeOK, BusyIsTemporary, Working
<1>. QED
  BY <1>1, <1>3, <1>4, <1>5, <1>6, <1>7, BoundKept DEF PoolInv, Custody

\* The timer's goroutine looks whether its session is still listed.
LEMMA AutoEndCheckInv ==
    ASSUME PoolInv, NEW m \in Mgrs, AutoEndCheck(m), UNCHANGED disturbed
    PROVE  PoolInv'
<1>. m \in Threads
  BY Naming
<1>1. /\ at[m] = "expire"
      /\ Return(m) \/ (Goto(m, "drop") /\ Local)
      /\ UNCHANGED <<entries, nextMgr, timer, proc, moves, busy, closed, dir, save>>
  BY DEF AutoEndCheck, poolVars, mgrVars, diskVars
<1>2. TypeOK'
  BY <1>1 DEF PoolInv, TypeOK, Locations, Ops, Using, Return, Goto, Local
<1>3. Roles'
  BY <1>1 DEF PoolInv, TypeOK, Roles, InManager, Return, Goto, Local
<1>4. Made'
  BY <1>1, Naming DEF PoolInv, TypeOK, Made, Return, Local
<1>5. Custody'
  <2>1. ~Holds(m) /\ ~Ends(m) /\ at'[m] \notin Using
    BY <1>1 DEF PoolInv, TypeOK, Holds, Ends, InManager, Using, Return, Goto
  <2>2. \A u \in Threads : u # m => UNCHANGED <<at[u], op[u], mgr[u]>>
    BY <1>1 DEF PoolInv, TypeOK, Return, Goto, Local
  <2>. QED
    BY <1>1, <1>2, <2>1, <2>2, CustodyKept DEF TypeOK
<1>6. BusyIsTemporary'
  BY <1>1 DEF PoolInv, TypeOK, BusyIsTemporary, Working, Return, Goto, Local
<1>. QED
  BY <1>1, <1>2, <1>3, <1>4, <1>5, <1>6, BoundKept DEF PoolInv, Custody

\* An end takes the session off the list.
LEMMA EndDropInv ==
    ASSUME PoolInv, NEW t \in Threads, EndDrop(t), UNCHANGED disturbed
    PROVE  PoolInv'
<1>. DEFINE p == player[t]
            m == entries[p]
<1>1. /\ at[t] = "drop" /\ p \in Players /\ op[t] \in {"end", "auto", "reset"}
      /\ mgr[t] = NoMgr /\ ~Holds(t) /\ ~Ends(t)
      /\ UNCHANGED <<nextMgr, proc, moves, busy, closed, dir, save>>
  BY DEF PoolInv, Roles, EndDrop, mgrVars, diskVars, Holds, Ends, InManager
<1>2. CASE /\ Return(t) \/ (op[t] = "reset" /\ Goto(t, "wipe") /\ Local)
           /\ UNCHANGED <<entries, timer>>
  <2>1. TypeOK'
    BY <1>1, <1>2 DEF PoolInv, TypeOK, Locations, Ops, Using, Return, Goto, Local
  <2>2. Roles'
    BY <1>1, <1>2 DEF PoolInv, TypeOK, Roles, InManager, Return, Goto, Local
  <2>3. Made'
    BY <1>1, <1>2, Naming DEF PoolInv, TypeOK, Made, Return, Local
  <2>4. Custody'
    <3>1. at'[t] \notin Using /\ \A u \in Threads : u # t => UNCHANGED <<at[u], op[u], mgr[u]>>
      BY <1>2 DEF PoolInv, TypeOK, Using, Return, Goto, Local
    <3>. QED
      BY <1>1, <1>2, <2>1, <3>1, CustodyKept DEF TypeOK
  <2>5. BusyIsTemporary'
    BY <1>1, <1>2 DEF PoolInv, TypeOK, BusyIsTemporary, Working, Return, Goto, Local
  <2>. QED
    BY <1>2, <2>1, <2>2, <2>3, <2>4, <2>5, BoundKept DEF PoolInv, Custody
<1>3. CASE /\ m # NoMgr /\ entries' = [entries EXCEPT ![p] = NoMgr]
           /\ timer' = [timer EXCEPT ![m] = FALSE]
           /\ mgr' = [mgr EXCEPT ![t] = m]
           /\ at' = [at EXCEPT ![t] = IF op[t] = "reset" THEN "close" ELSE "enter"]
           /\ UNCHANGED <<op, player>>
  <2>0. /\ m \in Mgrs /\ at' \in [Threads -> Locations] /\ at'[t] \in {"close", "enter"}
        /\ op[t] = "reset" => at'[t] = "close"
        /\ mgr'[t] = m /\ \A u \in Threads : u # t => at'[u] = at[u] /\ mgr'[u] = mgr[u]
        /\ \A q \in Players : entries'[q] = IF q = p THEN NoMgr ELSE entries[q]
    BY <1>1, <1>3 DEF PoolInv, TypeOK, Locations
  <2>1. TypeOK'
    <3>1. timer' \in [Mgrs -> BOOLEAN]
      BY <1>3, <2>0 DEF PoolInv, TypeOK
    <3>. QED
      BY <1>1, <1>3, <2>0, <3>1 DEF PoolInv, TypeOK
  <2>2. Roles'
    BY <1>1, <1>3, <2>0 DEF PoolInv, TypeOK, Roles, InManager
  <2>3. Made'
    BY <1>1, <1>3, <2>0, Numbers, Naming DEF PoolInv, Made
  <2>4. Ends(t)' /\ ~Holds(t)'
        /\ \A u \in Threads : u # t => (Holds(u)' <=> Holds(u)) /\ (Ends(u)' <=> Ends(u))
    BY <1>1, <1>3, <2>0 DEF Holds, Ends, InManager
  <2>5. HeldAlone' /\ EndsUnlisted' /\ EntryNotClosed'
    <3>1. \A u \in Threads : Holds(u) => mgr[u] # m
      BY <1>1 DEF PoolInv, HeldAlone
    <3>2. \A u \in Threads : Holds(u) \/ Ends(u) => mgr[u] \in Mgrs
      BY DEF PoolInv, TypeOK, Holds, Ends, InManager, Using
    <3>3. HeldAlone'
      BY <1>1, <2>0, <2>4, <3>1, <3>2, Naming DEF PoolInv, HeldAlone
    <3>4. EndsUnlisted'
      BY <1>1, <2>0, <2>4, <3>2, Naming DEF PoolInv, EndsUnlisted, Made
    <3>5. EntryNotClosed'
      BY <1>1, <2>0, Naming DEF PoolInv, TypeOK, EntryNotClosed
    <3>. QED
      BY <3>3, <3>4, <3>5
  <2>6. Owned'
    BY <1>1, <2>0, <2>4 DEF PoolInv, Owned, Owner
  <2>7. BusyIsTemporary'
    BY <1>1, <2>0 DEF PoolInv, BusyIsTemporary, Working
  <2>8. PoolBound'
    <3>1. Active' \subseteq Active /\ Active \subseteq Players
      BY <2>0 DEF Active
    <3>2. IsFiniteSet(Active)
      BY <3>1, FS_Subset, PoolAssumption
    <3>3. /\ Cardinality(Active') <= Cardinality(Active)
          /\ Cardinality(Active) \in Nat /\ Cardinality(Active') \in Nat
      BY <3>1, <3>2, FS_Subset, FS_CardinalityType
    <3>. QED
      BY <3>3, PoolAssumption DEF PoolInv, PoolBound
  <2>. QED
    BY <2>1, <2>2, <2>3, <2>5, <2>6, <2>7, <2>8 DEF PoolInv
<1>. QED
  BY <1>2, <1>3 DEF EndDrop, Goto

\* A manager is closed.
LEMMA ManagerCloseInv ==
    ASSUME PoolInv, NEW t \in Threads, ManagerClose(t), UNCHANGED disturbed
    PROVE  PoolInv'
<1>. DEFINE m == mgr[t]
<1>1. /\ at[t] \in {"close", "discard"} /\ m \in Mgrs
      /\ proc' = [proc EXCEPT ![m] = "none"] /\ closed' = closed \cup {m}
      /\ Return(t) \/ (op[t] = "reset" /\ Goto(t, "wipe") /\ Local)
      /\ UNCHANGED <<entries, nextMgr, timer, moves, busy, dir, save>>
      /\ Holds(t) \/ Ends(t)
  BY DEF PoolInv, TypeOK, Using, ManagerClose, poolVars, diskVars, Holds, Ends
<1>2. TypeOK'
  BY <1>1 DEF PoolInv, TypeOK, Locations, Ops, Using, Return, Goto, Local
<1>3. Roles'
  BY <1>1 DEF PoolInv, TypeOK, Roles, InManager, Return, Goto, Local
<1>4. Made'
  <2>1. \A u \in Threads : mgr'[u] = mgr[u] \/ mgr'[u] = 0
    BY <1>1, Naming DEF PoolInv, TypeOK, Return, Local
  <2>. QED
    BY <1>1, <2>1, Numbers DEF PoolInv, Made
<1>5. at'[t] \notin Using /\ ~Holds(t)' /\ ~Ends(t)'
      /\ \A u \in Threads : u # t =>
            /\ (Holds(u)' <=> Holds(u)) /\ (Ends(u)' <=> Ends(u))
            /\ mgr'[u] = mgr[u] /\ at'[u] = at[u]
  BY <1>1 DEF PoolInv, TypeOK, Holds, Ends, InManager, Using, Return, Goto, Local
<1>6. at[t] \in Using /\ \A p \in Players : entries[p] # m
  BY <1>1 DEF PoolInv, Using, HeldAlone, EndsUnlisted
<1>7. HeldAlone' /\ EndsUnlisted' /\ EntryNotClosed'
  BY <1>1, <1>5, <1>6 DEF PoolInv, HeldAlone, EndsUnlisted, EntryNotClosed
<1>8. Owned'
  <2>1. \A k \in Mgrs : proc'[k] # "none" => proc[k] # "none"
    BY <1>1 DEF PoolInv, TypeOK
  <2>. QED
    BY <1>1, <1>5, <2>1 DEF PoolInv, Owned, Owner
<1>9. BusyIsTemporary'
  BY <1>1, <1>5 DEF PoolInv, BusyIsTemporary, Working
<1>. QED
  BY <1>1, <1>2, <1>3, <1>4, <1>7, <1>8, <1>9, BoundKept DEF PoolInv

\* Reset wipes the save directory.
LEMMA ResetWipeInv ==
    ASSUME PoolInv, NEW t \in Threads, ResetWipe(t), UNCHANGED disturbed
    PROVE  PoolInv'
<1>1. /\ at[t] = "wipe" /\ at' = [at EXCEPT ![t] = "check"]
      /\ UNCHANGED <<entries, nextMgr, timer, proc, moves, busy, closed, op, player, mgr>>
  BY DEF ResetWipe, poolVars, mgrVars, Goto, Local
<1>2. dir' \in [Players -> BOOLEAN] /\ save' \in [Players -> 0..MaxMoves]
  <2>1. /\ dir \in [Players -> BOOLEAN] /\ save \in [Players -> 0..MaxMoves]
        /\ 0 \in 0..MaxMoves
    BY PoolAssumption DEF PoolInv, TypeOK
  <2>2. dir' = [dir EXCEPT ![player[t]] = FALSE] /\ save' = [save EXCEPT ![player[t]] = 0]
    BY DEF ResetWipe
  <2>. QED
    BY <2>1, <2>2
<1>3. TypeOK'
  BY <1>1, <1>2 DEF PoolInv, TypeOK, Locations, Using
<1>4. Roles' /\ Made'
  BY <1>1 DEF PoolInv, TypeOK, Roles, Made, InManager
<1>5. Custody'
  <2>1. ~Holds(t) /\ ~Ends(t) /\ at'[t] \notin Using
    BY <1>1 DEF PoolInv, TypeOK, Holds, Ends, InManager, Using
  <2>2. \A u \in Threads : u # t => UNCHANGED <<at[u], op[u], mgr[u]>>
    BY <1>1 DEF PoolInv, TypeOK
  <2>. QED
    BY <1>1, <1>3, <2>1, <2>2, CustodyKept DEF TypeOK
<1>6. BusyIsTemporary'
  BY <1>1 DEF PoolInv, TypeOK, BusyIsTemporary, Working
<1>. QED
  BY <1>1, <1>3, <1>4, <1>5, <1>6, BoundKept DEF PoolInv, Custody

\* Reset fails to wipe it and returns.
LEMMA ResetWipeFailsInv ==
    ASSUME PoolInv, NEW t \in Threads, ResetWipeFails(t), UNCHANGED disturbed
    PROVE  PoolInv'
<1>1. /\ at[t] = "wipe" /\ Return(t)
      /\ UNCHANGED <<entries, nextMgr, timer, proc, moves, busy, closed, dir>>
  BY DEF ResetWipeFails, poolVars, mgrVars
<1>2. save' \in [Players -> 0..MaxMoves]
  <2>1. save \in [Players -> 0..MaxMoves] /\ 0 \in 0..MaxMoves
    BY PoolAssumption DEF PoolInv, TypeOK
  <2>2. save' = save \/ save' = [save EXCEPT ![player[t]] = 0]
    BY DEF ResetWipeFails
  <2>. QED
    BY <2>1, <2>2
<1>3. TypeOK'
  BY <1>1, <1>2 DEF PoolInv, TypeOK, Locations, Ops, Using, Return, Goto
<1>4. Roles'
  BY <1>1 DEF PoolInv, TypeOK, Roles, InManager, Return, Goto
<1>5. Made'
  <2>1. \A u \in Threads : mgr'[u] = mgr[u] \/ mgr'[u] = 0
    BY <1>1, Naming DEF PoolInv, TypeOK, Return
  <2>. QED
    BY <1>1, <2>1, Numbers DEF PoolInv, Made
<1>6. ~Holds(t) /\ ~Ends(t) /\ at'[t] \notin Using /\ at'[t] = "idle"
      /\ \A u \in Threads : u # t => UNCHANGED <<at[u], op[u], mgr[u]>>
  BY <1>1 DEF PoolInv, TypeOK, Holds, Ends, InManager, Using, Return, Goto
<1>7. Custody'
  BY <1>1, <1>3, <1>6, CustodyKept DEF TypeOK
<1>8. BusyIsTemporary'
  BY <1>1, <1>6 DEF PoolInv, BusyIsTemporary, Working
<1>. QED
  BY <1>1, <1>3, <1>4, <1>5, <1>7, <1>8, BoundKept DEF PoolInv, Custody

\* Every step of the pool keeps the invariant.
LEMMA PoolNextInv == PoolInv /\ [Next]_vars => PoolInv'
<1>. SUFFICES ASSUME PoolInv, [Next]_vars PROVE PoolInv'
  OBVIOUS
<1>1. CASE UNCHANGED vars
  <2>1. TypeOK' /\ Roles' /\ Made'
    BY <1>1 DEF PoolInv, TypeOK, Roles, Made, vars, poolVars, mgrVars, diskVars, threadVars
  <2>2. HeldAlone' /\ EndsUnlisted' /\ EntryNotClosed' /\ Owned'
    BY <1>1 DEF PoolInv, HeldAlone, EndsUnlisted, EntryNotClosed, Owned, Owner, Holds, Ends,
                vars, poolVars, mgrVars, threadVars
  <2>3. BusyIsTemporary' /\ PoolBound'
    BY <1>1, BoundKept DEF PoolInv, BusyIsTemporary, Working, vars, poolVars, mgrVars, threadVars
  <2>. QED
    BY <2>1, <2>2, <2>3 DEF PoolInv
<1>2. CASE \E t \in Requests, p \in Players, o \in DOMAIN Enters : Request(t, p, o)
  BY <1>2, RequestInv
<1>3. CASE \E t \in Threads : Step(t) /\ UNCHANGED disturbed
  BY <1>3, StartCheckInv, StartOpenInv, StartInsertInv, CommandLookupInv, ManagerEnterInv,
     RunOkInv, RunFailInv, ManagerLeaveInv, EndDropInv, ManagerCloseInv, ResetWipeInv,
     ResetWipeFailsInv DEF Step
<1>4. CASE \E t \in Threads : ManagerRestart(t)
  BY <1>4, ManagerRestartInv
<1>5. CASE \E m \in Mgrs : (TimerFires(m) \/ AutoEndCheck(m)) /\ UNCHANGED disturbed
  BY <1>5, TimerFiresInv, AutoEndCheckInv
<1>. QED
  BY <1>1, <1>2, <1>3, <1>4, <1>5 DEF Next

-----------------------------------------------------------------------------
(* The theorems about custody. *)

\* The invariant holds whatever the requests, the timers and the games do.
THEOREM PoolInvariant == Spec => []PoolInv
<1>. QED
  BY PoolInitInv, PoolNextInv, PTL DEF Spec

\* The pool keeps its types: no goroutine uses a manager that it has not got.
THEOREM PoolTypeOK == Spec => []TypeOK
<1>1. PoolInv => TypeOK
  BY DEF PoolInv
<1>. QED
  BY <1>1, PoolInvariant, PTL

\* MaxActiveSessions holds (pool.go, the second check of Start).
THEOREM PoolKeepsItsCap == Spec => []PoolBound
<1>1. PoolInv => PoolBound
  BY DEF PoolInv
<1>. QED
  BY <1>1, PoolInvariant, PTL

\* No listed session is closed (pool.go, endInternal).
THEOREM PoolEntryNotClosed == Spec => []EntryNotClosed
<1>1. PoolInv => EntryNotClosed
  BY DEF PoolInv
<1>. QED
  BY <1>1, PoolInvariant, PTL

\* Every process that was not closed has an entry or a goroutine that will
\* list it or close it (pool.go, Start and endInternal).
THEOREM PoolProcessOwned == Spec => []ProcessOwned
<1>1. PoolInv => ProcessOwned
  BY DEF PoolInv, Owned, Owner, ProcessOwned, Working, Holds, Ends, InManager
<1>. QED
  BY <1>1, PoolInvariant, PTL

\* A busy manager has a goroutine in it that will clear the flag (session.go,
\* Manager.Command and restartAfterFailure).
THEOREM PoolBusyIsTemporary == Spec => []BusyIsTemporary
<1>1. PoolInv => BusyIsTemporary
  BY DEF PoolInv
<1>. QED
  BY <1>1, PoolInvariant, PTL

-----------------------------------------------------------------------------
(* A reset starts from nothing. *)

\* Timers only end sessions.
TimersEnd == \A m \in Mgrs : op[m] \in {"none", "auto"}

\* A manager that is still to be made has no moves.
Unmade == \A m \in Mgrs : m >= nextMgr => moves[m] = 0

\* A player's own requests come one at a time.
OwnAlone ==
    ~disturbed => \A t, u \in Requests :
        /\ at[t] # "idle" /\ op[t] # "end" /\ at[u] # "idle" /\ op[u] # "end"
        /\ player[t] = player[u]
        => t = u

\* Between its wipe and its look for a save, a reset's directory stays away,
\* and what is away cannot be saved into.
Wiped ==
    ~disturbed => \A t \in Threads :
        op[t] = "reset" /\ at[t] \in {"check", "open"} => ~dir[player[t]] /\ save[player[t]] = 0

\* So a reset restores nothing, and the game it holds is fresh.
ResetFresh ==
    ~disturbed => \A t \in Threads : op[t] = "reset" =>
        /\ at[t] \notin InManager
        /\ at[t] \in {"insert", "discard"} => moves[mgr[t]] = 0

ResetInv == TimersEnd /\ Unmade /\ OwnAlone /\ Wiped /\ ResetFresh

\* Steps that leave positions and saves alone, and take no reset any further
\* than it was.
LEMMA QuietStep ==
    ASSUME ResetInv, NEW t \in Threads, UNCHANGED <<nextMgr, moves, dir, save, disturbed>>,
           \A u \in Threads : u # t => UNCHANGED <<at[u], op[u], player[u], mgr[u]>>,
           \/ at'[t] = "idle" /\ op'[t] = "none"
           \/ /\ op'[t] = op[t] /\ player'[t] = player[t] /\ at[t] # "idle"
              /\ op[t] = "reset" => /\ at'[t] \in {"check", "open"} => at[t] \in {"check", "open"}
                                    /\ at'[t] \in InManager => at[t] \in InManager
                                    /\ at'[t] \in {"insert", "discard"} =>
                                          mgr'[t] = mgr[t] /\ at[t] \in {"insert", "discard"} \cup InManager
    PROVE  ResetInv'
<1>1. TimersEnd' /\ Unmade'
  BY Naming DEF ResetInv, TimersEnd, Unmade
<1>2. OwnAlone'
  BY Naming DEF ResetInv, OwnAlone
<1>3. Wiped'
  BY DEF ResetInv, Wiped
<1>4. ResetFresh'
  BY DEF ResetInv, ResetFresh, InManager
<1>. QED
  BY <1>1, <1>2, <1>3, <1>4 DEF ResetInv

\* The pool starts without requests.
LEMMA ResetInitInv == Init => ResetInv
<1>. SUFFICES ASSUME Init PROVE ResetInv
  OBVIOUS
<1>1. TimersEnd /\ Unmade /\ OwnAlone
  BY Naming DEF Init, TimersEnd, Unmade, OwnAlone
<1>2. Wiped /\ ResetFresh
  BY DEF Init, Wiped, ResetFresh
<1>. QED
  BY <1>1, <1>2 DEF ResetInv

\* A request comes in beside others of its player's only if that is noted.
LEMMA RequestReset ==
    ASSUME PoolInv, ResetInv, NEW t \in Requests, NEW p \in Players, NEW o \in DOMAIN Enters,
           Request(t, p, o)
    PROVE  ResetInv'
<1>. t \in Threads /\ t \notin Mgrs
  BY Naming, PoolAssumption DEF Mgrs
<1>1. /\ o = "reset" => Enters[o] = "drop"
      /\ at' = [at EXCEPT ![t] = Enters[o]] /\ op' = [op EXCEPT ![t] = o]
      /\ player' = [player EXCEPT ![t] = p] /\ at[t] = "idle"
      /\ UNCHANGED <<nextMgr, moves, dir, save, mgr>>
      /\ ~disturbed' => ~disturbed /\ (o = "end" \/ OwnRequests(p) = {})
  <2>1. o = "reset" => Enters[o] = "drop"
    BY DEF Enters
  <2>2. /\ at' = [at EXCEPT ![t] = Enters[o]] /\ op' = [op EXCEPT ![t] = o]
        /\ player' = [player EXCEPT ![t] = p] /\ at[t] = "idle"
        /\ UNCHANGED <<nextMgr, moves, dir, save, mgr>>
    BY DEF Request, Goto, poolVars, mgrVars, diskVars
  <2>3. ~disturbed' => ~disturbed /\ ~Overlapping(p, o)
    BY Zenon DEF Request
  <2>. QED
    BY <2>1, <2>2, <2>3 DEF Overlapping
<1>2. /\ op'[t] = o /\ player'[t] = p /\ (o = "reset" => at'[t] = "drop")
      /\ \A u \in Threads : u # t => UNCHANGED <<at[u], op[u], player[u], mgr[u]>>
  BY <1>1 DEF PoolInv, TypeOK
<1>3. TimersEnd' /\ Unmade'
  BY <1>1, <1>2, Naming DEF ResetInv, TimersEnd, Unmade
<1>4. OwnAlone'
  <2>1. ~disturbed' /\ o # "end" =>
          \A u \in Requests : at[u] # "idle" /\ op[u] # "end" => player[u] # p
    BY <1>1 DEF OwnRequests
  <2>. QED
    BY <1>1, <1>2, <2>1, Naming DEF ResetInv, OwnAlone
<1>5. Wiped' /\ ResetFresh'
  BY <1>1, <1>2 DEF ResetInv, Wiped, ResetFresh, InManager
<1>. QED
  BY <1>3, <1>4, <1>5 DEF ResetInv

\* Start looks for a save as it makes the directory.
LEMMA StartOpenReset ==
    ASSUME PoolInv, ResetInv, NEW t \in Threads, StartOpen(t), UNCHANGED disturbed
    PROVE  ResetInv'
<1>. DEFINE p == player[t]
<1>1. /\ at[t] = "open" /\ nextMgr \in Mgrs /\ nextMgr' = nextMgr + 1 /\ nextMgr \in Nat
      /\ dir' = [dir EXCEPT ![p] = TRUE] /\ p \in Players
      /\ UNCHANGED <<moves, save>> /\ op[t] \in {"start", "reset"} /\ t \in Requests
  <2>1. at[t] = "open" /\ op[t] \in {"start", "reset"} /\ p \in Players
    BY DEF StartOpen, PoolInv, Roles
  <2>2. t \in Requests
    BY <2>1 DEF ResetInv, TimersEnd, Threads
  <2>3. nextMgr \in Mgrs /\ nextMgr \in Nat
    BY Naming DEF StartOpen, PoolInv, TypeOK, Mgrs
  <2>. QED
    BY <2>1, <2>2, <2>3 DEF StartOpen
<1>2. /\ \A u \in Threads : u # t => UNCHANGED <<at[u], op[u], player[u], mgr[u]>>
      /\ \/ at'[t] = "idle" /\ op'[t] = "none"
         \/ /\ op'[t] = op[t] /\ player'[t] = p /\ mgr'[t] = nextMgr
            /\ at'[t] = IF save[p] # 0 THEN "enter" ELSE "insert"
  BY <1>1 DEF PoolInv, TypeOK, StartOpen, Return, Goto
<1>3. TimersEnd' /\ Unmade'
  BY <1>1, <1>2, Naming DEF ResetInv, TimersEnd, Unmade
<1>4. OwnAlone'
  BY <1>1, <1>2, Naming DEF ResetInv, OwnAlone
<1>5. Wiped'
  <2>. SUFFICES ASSUME ~disturbed, NEW u \in Threads, op'[u] = "reset", at'[u] \in {"check", "open"}
                PROVE  ~dir'[player'[u]] /\ save'[player'[u]] = 0
    BY DEF Wiped
  <2>1. u # t
    BY <1>2
  <2>2. op[u] = "reset" /\ at[u] \in {"check", "open"} /\ player'[u] = player[u]
    BY <1>2, <2>1
  <2>3. u \in Requests /\ player[u] # p /\ player[u] \in Players
    BY <1>1, <2>1, <2>2 DEF ResetInv, TimersEnd, OwnAlone, Threads, PoolInv, Roles
  <2>. QED
    BY <1>1, <2>2, <2>3 DEF ResetInv, Wiped, PoolInv, TypeOK
<1>6. ResetFresh'
  BY <1>1, <1>2 DEF ResetInv, ResetFresh, Wiped, Unmade, InManager
<1>. QED
  BY <1>3, <1>4, <1>5, <1>6 DEF ResetInv

\* A save finds no directory, and no move is made in a game that is not listed.
LEMMA RunOkReset ==
    ASSUME PoolInv, ResetInv, NEW t \in Threads, RunOk(t), UNCHANGED disturbed
    PROVE  ResetInv'
<1>1. /\ at[t] = "run" /\ mgr[t] \in Mgrs /\ player[t] \in Players /\ mgr[t] < nextMgr
      /\ at' = [at EXCEPT ![t] = "leave"]
      /\ UNCHANGED <<entries, nextMgr, dir, op, player, mgr>>
  BY DEF PoolInv, TypeOK, Roles, Made, Using, RunOk, poolVars, Goto, Local
<1>2. op[t] \in {"start", "command", "end", "auto", "reset"}
  BY <1>1 DEF PoolInv, TypeOK, Ops, Roles, InManager
<1>3. \A m \in Mgrs : m # mgr[t] => moves'[m] = moves[m]
  BY <1>1, <1>2 DEF RunOk, PoolInv, TypeOK
<1>4. \A p \in Players : ~dir[p] => save'[p] = save[p]
  BY <1>1, <1>2 DEF RunOk, PoolInv, TypeOK
<1>5. TimersEnd' /\ OwnAlone'
  BY <1>1, Naming DEF ResetInv, TimersEnd, OwnAlone, PoolInv, TypeOK
<1>6. Unmade'
  BY <1>1, <1>3, Numbers, Naming DEF ResetInv, Unmade, PoolInv
<1>7. Wiped'
  BY <1>1, <1>4 DEF ResetInv, Wiped, PoolInv, TypeOK, Roles
<1>8. ResetFresh'
  <2>1. \A u \in Threads : at[u] \in {"insert", "discard"} => mgr[u] # mgr[t] /\ mgr[u] \in Mgrs
    BY <1>1 DEF PoolInv, TypeOK, HeldAlone, Holds, Using
  <2>. QED
    BY <1>1, <1>3, <2>1 DEF ResetInv, ResetFresh, InManager, PoolInv, TypeOK
<1>. QED
  BY <1>5, <1>6, <1>7, <1>8 DEF ResetInv

\* A restart that makes the directory anew is noted.
LEMMA ManagerRestartReset ==
    ASSUME PoolInv, ResetInv, NEW t \in Threads, ManagerRestart(t)
    PROVE  ResetInv'
<1>1. /\ at[t] = "restart" /\ mgr[t] \in Mgrs /\ player[t] \in Players
      /\ UNCHANGED <<entries, nextMgr, save, op, player, mgr>>
      /\ dir' = [dir EXCEPT ![player[t]] = TRUE]
      /\ ~disturbed' => ~disturbed /\ dir[player[t]]
  BY DEF PoolInv, TypeOK, Roles, Using, ManagerRestart, poolVars, Local
<1>2. at'[t] = "leave"
      /\ \A u \in Threads : u # t => at'[u] = at[u] \/ (at[u] = "run" /\ at'[u] = "stale")
  BY DEF PoolInv, TypeOK, ManagerRestart
<1>3. \A m \in Mgrs : moves'[m] = moves[m] \/ moves'[m] = 0
  BY <1>1 DEF PoolInv, TypeOK, ManagerRestart
<1>4. TimersEnd' /\ Unmade'
  BY <1>1, <1>3 DEF ResetInv, TimersEnd, Unmade
<1>5. OwnAlone'
  BY <1>1, <1>2, Naming DEF ResetInv, OwnAlone
<1>6. Wiped'
  BY <1>1, <1>2 DEF ResetInv, Wiped, PoolInv, TypeOK, Roles
<1>7. ResetFresh'
  <2>1. \A u \in Threads : at[u] \in {"insert", "discard"} => mgr[u] \in Mgrs
    BY DEF PoolInv, TypeOK, Using
  <2>. QED
    BY <1>1, <1>2, <1>3, <2>1 DEF ResetInv, ResetFresh, InManager
<1>. QED
  BY <1>4, <1>5, <1>6, <1>7 DEF ResetInv

\* The wipe itself.
LEMMA ResetWipeReset ==
    ASSUME PoolInv, ResetInv, NEW t \in Threads, ResetWipe(t), UNCHANGED disturbed
    PROVE  ResetInv'
<1>1. /\ at[t] = "wipe" /\ at' = [at EXCEPT ![t] = "check"] /\ player[t] \in Players
      /\ dir' = [dir EXCEPT ![player[t]] = FALSE] /\ save' = [save EXCEPT ![player[t]] = 0]
      /\ UNCHANGED <<nextMgr, moves, op, player, mgr>>
  BY DEF ResetWipe, poolVars, mgrVars, Goto, Local, PoolInv, Roles
<1>2. \A p \in Players : /\ ~dir[p] => ~dir'[p]
                         /\ save[p] = 0 => save'[p] = 0
                         /\ p = player[t] => ~dir'[p] /\ save'[p] = 0
  BY <1>1 DEF PoolInv, TypeOK
<1>3. TimersEnd' /\ Unmade'
  BY <1>1 DEF ResetInv, TimersEnd, Unmade
<1>4. OwnAlone'
  BY <1>1, Naming DEF ResetInv, OwnAlone, PoolInv, TypeOK
<1>5. Wiped'
  BY <1>1, <1>2 DEF ResetInv, Wiped, PoolInv, TypeOK, Roles
<1>6. ResetFresh'
  BY <1>1 DEF ResetInv, ResetFresh, InManager, PoolInv, TypeOK
<1>. QED
  BY <1>3, <1>4, <1>5, <1>6 DEF ResetInv

\* A wipe that fails ends the reset, and makes no save.
LEMMA ResetWipeFailsReset ==
    ASSUME PoolInv, ResetInv, NEW t \in Threads, ResetWipeFails(t), UNCHANGED disturbed
    PROVE  ResetInv'
<1>1. /\ UNCHANGED <<nextMgr, moves, dir>> /\ at'[t] = "idle" /\ op'[t] = "none"
      /\ \A u \in Threads : u # t => UNCHANGED <<at[u], op[u], player[u], mgr[u]>>
  BY DEF ResetWipeFails, poolVars, mgrVars, Return, Goto, PoolInv, TypeOK
<1>2. \A p \in Players : save[p] = 0 => save'[p] = 0
  BY DEF ResetWipeFails, PoolInv, TypeOK
<1>3. TimersEnd' /\ Unmade'
  BY <1>1, Naming DEF ResetInv, TimersEnd, Unmade
<1>4. OwnAlone'
  BY <1>1, Naming DEF ResetInv, OwnAlone
<1>5. Wiped'
  BY <1>1, <1>2 DEF ResetInv, Wiped, PoolInv, Roles
<1>6. ResetFresh'
  BY <1>1 DEF ResetInv, ResetFresh
<1>. QED
  BY <1>3, <1>4, <1>5, <1>6 DEF ResetInv

\* A timer fires.
LEMMA TimerFiresReset ==
    ASSUME PoolInv, ResetInv, NEW m \in Mgrs, TimerFires(m), UNCHANGED disturbed
    PROVE  ResetInv'
<1>. m \in Threads /\ m \notin Requests
  BY Naming, PoolAssumption DEF Mgrs
<1>1. /\ UNCHANGED <<nextMgr, moves, dir, save, mgr>> /\ op'[m] = "auto"
      /\ \A u \in Threads : u # m => UNCHANGED <<at[u], op[u], player[u]>>
  BY DEF TimerFires, mgrVars, diskVars, Goto, PoolInv, TypeOK
<1>2. TimersEnd' /\ Unmade'
  BY <1>1, Naming DEF ResetInv, TimersEnd, Unmade
<1>3. OwnAlone'
  BY <1>1, Naming DEF ResetInv, OwnAlone
<1>4. Wiped' /\ ResetFresh'
  BY <1>1 DEF ResetInv, Wiped, ResetFresh
<1>. QED
  BY <1>2, <1>3, <1>4 DEF ResetInv

\* All other steps are quiet.
LEMMA QuietReset ==
    ASSUME PoolInv, ResetInv, NEW t \in Threads, UNCHANGED disturbed,
           \/ StartCheck(t) \/ StartInsert(t) \/ CommandLookup(t) \/ ManagerEnter(t)
           \/ RunFail(t) \/ ManagerLeave(t) \/ EndDrop(t) \/ ManagerClose(t)
           \/ t \in Mgrs /\ AutoEndCheck(t)
    PROVE  ResetInv'
<1>1. UNCHANGED <<nextMgr, moves, dir, save>>
  BY DEF StartCheck, StartInsert, CommandLookup, ManagerEnter, RunFail, ManagerLeave, EndDrop,
         ManagerClose, AutoEndCheck, poolVars, mgrVars, diskVars
<1>2. ASSUME Return(t)
      PROVE  /\ \A u \in Threads : u # t => UNCHANGED <<at[u], op[u], player[u], mgr[u]>>
             /\ at'[t] = "idle" /\ op'[t] = "none"
  BY <1>2 DEF Return, Goto, PoolInv, TypeOK
<1>3. ASSUME NEW l, Goto(t, l), Local
      PROVE  /\ \A u \in Threads : u # t => UNCHANGED <<at[u], op[u], player[u], mgr[u]>>
             /\ at'[t] = l /\ UNCHANGED <<op[t], player[t], mgr[t]>>
  BY <1>3 DEF Goto, Local, PoolInv, TypeOK
<1>4. ASSUME NEW l, NEW m, Goto(t, l), mgr' = [mgr EXCEPT ![t] = m], UNCHANGED <<op, player>>
      PROVE  /\ \A u \in Threads : u # t => UNCHANGED <<at[u], op[u], player[u], mgr[u]>>
             /\ at'[t] = l /\ UNCHANGED <<op[t], player[t]>>
  BY <1>4 DEF Goto, PoolInv, TypeOK
<1>5. CASE StartCheck(t)
  BY <1>1, <1>2, <1>3, <1>5, QuietStep DEF StartCheck, InManager
<1>6. CASE StartInsert(t)
  BY <1>1, <1>2, <1>3, <1>6, QuietStep DEF StartInsert, InManager
<1>7. CASE CommandLookup(t)
  <2>1. at[t] = "lookup" /\ op[t] = "command"
    BY <1>7 DEF CommandLookup, PoolInv, Roles
  <2>. QED
    BY <1>1, <1>2, <1>4, <1>7, <2>1, QuietStep DEF CommandLookup
<1>8. CASE ManagerEnter(t) \/ ManagerLeave(t) \/ RunFail(t)
  <2>1. at[t] \in InManager
    BY <1>8 DEF ManagerEnter, ManagerLeave, RunFail, InManager
  <2>2. Continue(t) \/ \E l \in InManager : Goto(t, l) /\ Local
    BY <1>8 DEF ManagerEnter, ManagerLeave, RunFail, InManager
  <2>3. Return(t) \/ \E l \in InManager \cup {"close", "insert"} : Goto(t, l) /\ Local
    BY <2>1, <2>2, ContinueFacts
  <2>. QED
    BY <1>1, <1>2, <1>3, <2>1, <2>3, QuietStep DEF InManager
<1>9. CASE EndDrop(t)
  <2>1. at[t] = "drop"
    BY <1>9 DEF EndDrop
  <2>2. \/ Return(t)
        \/ Goto(t, "wipe") /\ Local
        \/ /\ (op[t] = "reset" /\ Goto(t, "close")) \/ (op[t] # "reset" /\ Goto(t, "enter"))
           /\ mgr' = [mgr EXCEPT ![t] = entries[player[t]]] /\ UNCHANGED <<op, player>>
    BY <1>9 DEF EndDrop
  <2>3. CASE Return(t)
    BY <1>1, <1>2, <2>3, QuietStep
  <2>4. CASE Goto(t, "wipe") /\ Local
    BY <1>1, <1>3, <2>1, <2>4, QuietStep DEF InManager
  <2>5. CASE /\ (op[t] = "reset" /\ Goto(t, "close")) \/ (op[t] # "reset" /\ Goto(t, "enter"))
             /\ mgr' = [mgr EXCEPT ![t] = entries[player[t]]] /\ UNCHANGED <<op, player>>
    <3>1. CASE op[t] = "reset" /\ Goto(t, "close")
      <4>1. /\ \A u \in Threads : u # t => UNCHANGED <<at[u], op[u], player[u], mgr[u]>>
            /\ at'[t] = "close" /\ UNCHANGED <<op[t], player[t]>>
        BY <1>4, <2>5, <3>1
      <4>. QED
        BY <1>1, <2>1, <3>1, <4>1, QuietStep DEF InManager
    <3>2. CASE op[t] # "reset" /\ Goto(t, "enter")
      <4>1. /\ \A u \in Threads : u # t => UNCHANGED <<at[u], op[u], player[u], mgr[u]>>
            /\ at'[t] = "enter" /\ UNCHANGED <<op[t], player[t]>>
        BY <1>4, <2>5, <3>2
      <4>. QED
        BY <1>1, <2>1, <3>2, <4>1, QuietStep DEF InManager
    <3>. QED
      BY <2>5, <3>1, <3>2
  <2>. QED
    BY <2>2, <2>3, <2>4, <2>5
<1>10. CASE ManagerClose(t)
  BY <1>1, <1>2, <1>3, <1>10, QuietStep DEF ManagerClose, InManager
<1>11. CASE AutoEndCheck(t)
  BY <1>1, <1>2, <1>3, <1>11, QuietStep DEF AutoEndCheck, InManager
<1>. QED
  BY <1>5, <1>6, <1>7, <1>8, <1>9, <1>10, <1>11

\* Every step keeps what makes a reset fresh.
LEMMA ResetNextInv == PoolInv /\ ResetInv /\ [Next]_vars => ResetInv'
<1>. SUFFICES ASSUME PoolInv, ResetInv, [Next]_vars PROVE ResetInv'
  OBVIOUS
<1>1. CASE UNCHANGED vars
  BY <1>1 DEF ResetInv, TimersEnd, Unmade, OwnAlone, Wiped, ResetFresh, vars, poolVars, mgrVars,
              diskVars, threadVars
<1>2. CASE \E t \in Requests, p \in Players, o \in DOMAIN Enters : Request(t, p, o)
  BY <1>2, RequestReset
<1>3. CASE \E t \in Threads : Step(t) /\ UNCHANGED disturbed
  BY <1>3, StartOpenReset, RunOkReset, ResetWipeReset,
     ResetWipeFailsReset, QuietReset DEF Step
<1>4. CASE \E t \in Threads : ManagerRestart(t)
  BY <1>4, ManagerRestartReset
<1>5. CASE \E m \in Mgrs : (TimerFires(m) \/ AutoEndCheck(m)) /\ UNCHANGED disturbed
  BY <1>5, TimerFiresReset, QuietReset, Naming
<1>. QED
  BY <1>1, <1>2, <1>3, <1>4, <1>5 DEF Next

\* A reset starts from an empty game, for any number of sessions, timers and
\* requests (pool.go, Reset and Start), but for the two cases the property
\* names.
THEOREM PoolResetStartsFresh == Spec => []ResetStartsFresh
<1>1. ResetInv => ResetStartsFresh
  BY DEF ResetInv, ResetFresh, ResetStartsFresh
<1>. QED
  BY <1>1, PoolInvariant, ResetInitInv, ResetNextInv, PTL DEF Spec
=============================================================================
