-------------------------- MODULE MCSiaeEvaluations --------------------------
(* Values of the constants of SiaeEvaluations for the runs.                 *)
EXTENDS SiaeEvaluations, TLC

CONSTANTS e1, e2, a1, a2, k1, k2

(* The first hiring may be justified by two criteria.                      *)
KeysOfMC == [a \in Applications |-> IF a = a1 THEN Keys ELSE {k1}]

Symmetry == Permutations(Siaes)
=============================================================================
