------------------------------ MODULE MCHiring ------------------------------
(* Instances of Hiring for TLC. *)
EXTENDS Hiring, TLC

CONSTANTS a1, a2, a3, t1, t2, t3, p1, p2

Symmetry == Permutations(Passes) \union Permutations(Requests)
=============================================================================
