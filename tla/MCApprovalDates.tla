--------------------------- MODULE MCApprovalDates ---------------------------
(* Values of the constants of ApprovalDates for the runs.                   *)
EXTENDS ApprovalDates, TLC

CONSTANTS s1, s2, p1, p2, q1, q2, w1, w2

Symmetry == Permutations(Suspensions) \union Permutations(Prolongations)
            \union Permutations(Requests) \union Permutations(Sessions)

(* A training needs no opinion and is renewed; a disability needs one.     *)
TwoDays == [r \in Reasons |-> 2]
OneDay == [r \in Reasons |-> 1]

(* Bounds of the instance.  After a lost update of the dates, the          *)
(* properties claim nothing; two rows in all.                              *)
Bounded ==
    /\ ~overwritten
    /\ Cardinality(Exist(suspensions)) + Cardinality(Exist(prolongations)) <= 2
=============================================================================
