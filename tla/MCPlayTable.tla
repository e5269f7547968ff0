----------------------------- MODULE MCPlayTable -----------------------------
(* Two tabs and two games. *)
EXTENDS PlayTable, TLC

CONSTANTS t1, t2, g1, g2

Symmetry == Permutations(Tab) \cup Permutations(Game)
=============================================================================
