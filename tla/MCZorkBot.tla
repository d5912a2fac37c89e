----------------------------- MODULE MCZorkBot ------------------------------
(* Small instances of ZorkBot for TLC. *)
EXTENDS ZorkBot, TLC

Symmetry == Permutations(Players \ Admins)
=============================================================================
