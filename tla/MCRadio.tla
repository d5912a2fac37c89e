------------------------------ MODULE MCRadio -------------------------------
(* A small instance of RadioState for TLC: one console, two keys, and the   *)
(* bot's own slots hold channels.                                           *)
EXTENDS RadioState

MCHash == [k \in Keys |-> IF k = CHOOSE j \in Keys : TRUE THEN 0 ELSE 1]

MCInit == RadioInit /\ \A i \in Served : device[i] # Blank

MCSpec == MCInit /\ [][RadioNext]_radioVars
=============================================================================
