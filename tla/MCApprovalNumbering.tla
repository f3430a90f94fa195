------------------------- MODULE MCApprovalNumbering -------------------------
(* Instances of ApprovalNumbering for TLC. *)
EXTENDS ApprovalNumbering, TLC

CONSTANTS t1, t2, t3

(* One approval of France Travail that lasts, one PASS that may be         *)
(* cancelled and comes first, so that the row to lock changes.             *)
OneLasting == {[pk |-> 1, number |-> 1], [pk |-> 2, number |-> -5]}
Second == {2}

Symmetry == Permutations(Transactions)
=============================================================================
