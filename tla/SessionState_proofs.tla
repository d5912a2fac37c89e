------------------------ MODULE SessionState_proofs -------------------------
(***************************************************************************)
(* The registry's invariants, for every set of players and every bound.    *)
(***************************************************************************)
EXTENDS SessionState, FiniteSetTheorems, TLAPS

\* What the four operations preserve together.  NumbersFresh is what makes
\* add_session safe: the number it takes leads nowhere and has no watchers.
\* IndexInverse and WatchConsistent need each other in remove_session, which
\* clears _watching for the record's watchers without asking what they watch.
RegInv ==
    /\ RegTypeOK
    /\ IndexInverse
    /\ WatchConsistent
    /\ WatchersBounded
    /\ NoSelfWatch
    /\ NumbersFresh

\* A set of players is finite, so its size is a number.
LEMMA WatcherSetSize ==
    ASSUME NEW S \in SUBSET Players
    PROVE  IsFiniteSet(S) /\ Cardinality(S) \in Nat
BY RegistryAssumption, FS_Subset, FS_CardinalityType

\* __init__ establishes the invariant.
LEMMA RegInitInv == RegInit => RegInv
<1> SUFFICES ASSUME RegInit PROVE RegInv
  OBVIOUS
<1> USE RegistryAssumption DEF RegInit, Nums, None
<1>1. RegTypeOK /\ IndexInverse /\ WatchConsistent /\ NoSelfWatch /\ NumbersFresh
  BY DEF RegTypeOK, IndexInverse, WatchConsistent, NoSelfWatch, NumbersFresh
<1>2. WatchersBounded
  BY FS_EmptySet DEF WatchersBounded
<1> QED  BY <1>1, <1>2 DEF RegInv

\* add_session for a player without a session preserves the invariant.
LEMMA AddSessionInv ==
    ASSUME RegInv, NEW p \in Players, sessions[p] = None, add_session(p)
    PROVE  RegInv'
<1> USE RegistryAssumption DEF add_session, Nums, None, RegInv, RegTypeOK
<1>1. nextNum \in Nums /\ numToPlayer[nextNum] = NoPlayer /\ watchers[nextNum] = {}
  BY DEF NumbersFresh
<1>2. RegTypeOK'
  OBVIOUS
<1>3. IndexInverse'
  BY <1>1 DEF IndexInverse
<1>4. WatchConsistent'
  BY <1>1 DEF WatchConsistent
<1>5. WatchersBounded'
  BY <1>1, FS_EmptySet DEF WatchersBounded
<1>6. NoSelfWatch'
  BY <1>1 DEF NoSelfWatch
<1>7. NumbersFresh'
  BY <1>1 DEF NumbersFresh
<1> QED  BY <1>2, <1>3, <1>4, <1>5, <1>6, <1>7

\* remove_session, for any set of players, preserves the invariant.
LEMMA RemoveSessionsInv ==
    ASSUME RegInv, NEW S \in SUBSET Players, remove_sessions(S)
    PROVE  RegInv'
<1> USE RegistryAssumption DEF Nums, None, RegInv, RegTypeOK
<1> DEFINE gone == {sessions[p] : p \in S} \ {0}
<1>1. /\ sessions' = [p \in Players |-> IF p \in S THEN 0 ELSE sessions[p]]
      /\ numToPlayer' = [n \in Nums |-> IF n \in gone THEN NoPlayer ELSE numToPlayer[n]]
      /\ watching' = [w \in Players |->
                        IF \E n \in gone : w \in watchers[n] THEN 0 ELSE watching[w]]
      /\ watchers' = watchers /\ nextNum' = nextNum
  BY DEF remove_sessions
<1>2. gone \subseteq Nums /\ \A n \in gone : \E p \in S : numToPlayer[n] = p /\ p \in Players
  BY DEF IndexInverse
<1>3. \A n \in Nums : n \notin gone => numToPlayer[n] \notin S
  BY DEF IndexInverse
<1>4. RegTypeOK'
  BY <1>1
<1>5. IndexInverse'
  BY <1>1, <1>2, <1>3 DEF IndexInverse
<1>6. WatchConsistent'
  <2> SUFFICES ASSUME NEW w \in Players, NEW n \in Nums
               PROVE  watching'[w] = n <=> numToPlayer'[n] # NoPlayer /\ w \in watchers[n]
    BY <1>1 DEF WatchConsistent
  <2> HIDE DEF gone
  <2>1. CASE n \in gone
    <3>1. numToPlayer'[n] = NoPlayer
      BY <1>1, <2>1
    <3>2. watching'[w] # n
      <4>1. CASE \E k \in gone : w \in watchers[k]
        BY <1>1, <4>1
      <4>2. CASE ~(\E k \in gone : w \in watchers[k])
        <5>1. w \notin watchers[n]
          BY <2>1, <4>2
        <5>2. watching[w] # n
          BY <5>1 DEF WatchConsistent
        <5> QED  BY <1>1, <4>2, <5>2
      <4> QED  BY <4>1, <4>2
    <3> QED  BY <3>1, <3>2
  <2>2. CASE n \notin gone
    <3>1. numToPlayer'[n] = numToPlayer[n]
      BY <1>1, <2>2
    <3>2. CASE \E k \in gone : w \in watchers[k]
      <4>1. PICK k \in gone : w \in watchers[k]
        BY <3>2
      <4>2. k \in Nums /\ numToPlayer[k] # NoPlayer
        BY <1>2, <4>1
      <4>3. watching[w] = k
        BY <4>1, <4>2 DEF WatchConsistent
      <4>4. watching[w] # n
        BY <2>2, <4>1, <4>3
      <4>5. watching'[w] = 0
        BY <1>1, <3>2
      <4> QED  BY <3>1, <4>4, <4>5 DEF WatchConsistent
    <3>3. CASE ~(\E k \in gone : w \in watchers[k])
      <4>1. watching'[w] = watching[w]
        BY <1>1, <3>3
      <4> QED  BY <3>1, <4>1 DEF WatchConsistent
    <3> QED  BY <3>2, <3>3
  <2> QED  BY <2>1, <2>2
<1>7. WatchersBounded'
  BY <1>1 DEF WatchersBounded
<1>8. NoSelfWatch'
  BY <1>1 DEF NoSelfWatch
<1>9. NumbersFresh'
  BY <1>1 DEF NumbersFresh
<1> QED  BY <1>4, <1>5, <1>6, <1>7, <1>8, <1>9

\* add_watcher for a player without an active state preserves the invariant.
LEMMA AddWatcherInv ==
    ASSUME RegInv, NEW w \in Players, NEW n \in Nums,
           active_state(w) = "none", add_watcher(w, n)
    PROVE  RegInv'
<1> USE RegistryAssumption DEF Nums, None, RegInv, RegTypeOK
<1>1. sessions[w] = 0 /\ watching[w] = 0
  BY DEF active_state
<1>2. numToPlayer[n] \in Players /\ get_session_by_num(n) = n
  BY DEF add_watcher, CanAddWatcher, get_session_by_num, IndexInverse
<1>3. /\ watchers' = [watchers EXCEPT ![n] = @ \cup {w}]
      /\ watching' = [watching EXCEPT ![w] = n]
      /\ sessions' = sessions /\ numToPlayer' = numToPlayer /\ nextNum' = nextNum
      /\ Cardinality(watchers[n]) < MaxWatchers
  BY <1>2 DEF add_watcher, CanAddWatcher
<1>4. RegTypeOK' /\ IndexInverse'
  BY <1>3 DEF IndexInverse
<1>5. WatchConsistent'
  BY <1>1, <1>2, <1>3 DEF WatchConsistent
<1>6. WatchersBounded'
  <2>1. IsFiniteSet(watchers[n]) /\ Cardinality(watchers[n]) \in Nat
    BY WatcherSetSize
  <2>2. Cardinality(watchers[n] \cup {w}) =
          IF w \in watchers[n] THEN Cardinality(watchers[n]) ELSE Cardinality(watchers[n]) + 1
    BY <2>1, FS_AddElement, Zenon
  <2>3. Cardinality(watchers[n] \cup {w}) \in Nat
    BY <2>1, <2>2
  <2>4. Cardinality(watchers[n] \cup {w}) <= MaxWatchers
    BY <1>3, <2>1, <2>2, <2>3
  <2> QED  BY <1>3, <2>4 DEF WatchersBounded
<1>7. NoSelfWatch'
  <2>1. numToPlayer[n] # w
    BY <1>1 DEF IndexInverse
  <2> QED  BY <1>3, <2>1 DEF NoSelfWatch
<1>8. NumbersFresh'
  BY <1>2, <1>3 DEF NumbersFresh
<1> QED  BY <1>4, <1>5, <1>6, <1>7, <1>8

\* remove_watcher preserves the invariant.
LEMMA RemoveWatcherInv ==
    ASSUME RegInv, NEW w \in Players, watching[w] # None, remove_watcher(w)
    PROVE  RegInv'
<1> USE RegistryAssumption DEF Nums, None, RegInv, RegTypeOK
<1> DEFINE n == watching[w]
<1>1. n \in Nums /\ numToPlayer[n] \in Players /\ w \in watchers[n]
  BY DEF WatchConsistent
<1>2. get_session_by_num(n) = n
  BY <1>1 DEF get_session_by_num, IndexInverse
<1>3. /\ watching' = [watching EXCEPT ![w] = 0]
      /\ watchers' = [watchers EXCEPT ![n] = @ \ {w}]
      /\ sessions' = sessions /\ numToPlayer' = numToPlayer /\ nextNum' = nextNum
  BY <1>1, <1>2 DEF remove_watcher
<1>4. RegTypeOK' /\ IndexInverse'
  BY <1>3 DEF IndexInverse
<1>5. WatchConsistent'
  BY <1>1, <1>3 DEF WatchConsistent
<1>6. WatchersBounded'
  <2>1. IsFiniteSet(watchers[n]) /\ Cardinality(watchers[n]) \in Nat
    BY <1>1, WatcherSetSize
  <2>2. Cardinality(watchers[n] \ {w}) <= Cardinality(watchers[n])
    BY <2>1, FS_Subset
  <2>3. Cardinality(watchers[n] \ {w}) \in Nat
    BY <1>1, WatcherSetSize
  <2>4. Cardinality(watchers[n] \ {w}) <= MaxWatchers
    BY <1>1, <2>1, <2>2, <2>3 DEF WatchersBounded
  <2> QED  BY <1>1, <1>3, <2>4 DEF WatchersBounded
<1>7. NoSelfWatch'
  BY <1>3 DEF NoSelfWatch
<1>8. NumbersFresh'
  BY <1>1, <1>3 DEF NumbersFresh
<1> QED  BY <1>4, <1>5, <1>6, <1>7, <1>8

\* One registry step, or none.
LEMMA RegNextInv == RegInv /\ [RegNext]_regVars => RegInv'
<1> SUFFICES ASSUME RegInv, [RegNext]_regVars PROVE RegInv'
  OBVIOUS
<1>1. CASE \E p \in Players : sessions[p] = None /\ add_session(p)
  BY <1>1, AddSessionInv
<1>2. CASE \E S \in SUBSET Players : remove_sessions(S)
  BY <1>2, RemoveSessionsInv
<1>3. CASE \E w \in Players, n \in Nums : active_state(w) = "none" /\ add_watcher(w, n)
  BY <1>3, AddWatcherInv
<1>4. CASE \E w \in Players : watching[w] # None /\ remove_watcher(w)
  BY <1>4, RemoveWatcherInv
<1>5. CASE UNCHANGED regVars
  BY <1>5 DEF regVars, RegInv, RegTypeOK, IndexInverse, WatchConsistent,
              WatchersBounded, NoSelfWatch, NumbersFresh
<1> QED  BY <1>1, <1>2, <1>3, <1>4, <1>5 DEF RegNext

\* The registry keeps its invariant whatever sequence of operations its
\* callers make, as long as they keep its contract.
THEOREM RegistryInvariant == RegSpec => []RegInv
<1>1. RegInit => RegInv
  BY RegInitInv
<1>2. RegInv /\ [RegNext]_regVars => RegInv'
  BY RegNextInv
<1> QED  BY <1>1, <1>2, PTL DEF RegSpec

\* A dropped session number never leads to a session again, however long the
\* process runs and whoever is ended in between.
THEOREM NumbersNeverReused == RegSpec => NumbersNotReused
<1>1. RegInv /\ [RegNext]_regVars =>
        [\A n \in Nums : n < nextNum /\ numToPlayer[n] = NoPlayer
            => numToPlayer'[n] = NoPlayer]_regVars
  <2> SUFFICES ASSUME RegInv, RegNext, NEW n \in Nums,
                      n < nextNum, numToPlayer[n] = NoPlayer
               PROVE  numToPlayer'[n] = NoPlayer
    BY DEF regVars
  <2> USE DEF RegInv, RegTypeOK, Nums
  <2>1. CASE \E p \in Players : sessions[p] = None /\ add_session(p)
    BY <2>1 DEF add_session
  <2>2. CASE \E S \in SUBSET Players : remove_sessions(S)
    BY <2>2 DEF remove_sessions
  <2>3. CASE \E w \in Players, k \in Nums : active_state(w) = "none" /\ add_watcher(w, k)
    BY <2>3 DEF add_watcher
  <2>4. CASE \E w \in Players : watching[w] # None /\ remove_watcher(w)
    BY <2>4 DEF remove_watcher
  <2> QED  BY <2>1, <2>2, <2>3, <2>4 DEF RegNext
<1> QED  BY <1>1, RegistryInvariant, PTL DEF RegSpec, NumbersNotReused
=============================================================================
