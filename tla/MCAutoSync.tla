----------------------------- MODULE MCAutoSync -----------------------------
(* Two tabs of one browser. *)
EXTENDS AutoSync, TLC

CONSTANTS t1, t2

Symmetry == Permutations({t1, t2})
=============================================================================
