----------------------------- MODULE MCGamePool -----------------------------
(* A small instance of GamePool for TLC. *)
EXTENDS GamePool, TLC

Symmetry == Permutations(Players) \cup Permutations(Requests)
=============================================================================
