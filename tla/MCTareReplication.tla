-------------------------- MODULE MCTareReplication --------------------------
EXTENDS TareReplication, TLC
CONSTANTS a1, p1, p2, b1

(* Pairs are interchangeable; for invariants only. *)
Symmetry == Permutations(Pair)
=============================================================================
