----------------------------- MODULE PassNumbers -----------------------------
(***************************************************************************)
(* What the numbering of PASS IAE promises: an atomic counter.  A new PASS *)
(* gets the number that follows all the numbers given so far; cancelling a *)
(* PASS keeps its number in the sequence for ever.                         *)
(*                                                                         *)
(* Numbers that France Travail gave before the platform existed are not    *)
(* part of the sequence; they are written as negative numbers.             *)
(***************************************************************************)
EXTENDS Integers

VARIABLES
    valid,      \* numbers of the PASS that are not cancelled
    gone        \* numbers of the cancelled ones

Given == valid \union gone

(* n follows all the numbers of S. *)
Follows(n, S) ==
    /\ n \in Nat \ {0}
    /\ n = 1 \/ n - 1 \in S
    /\ \A m \in S : m < n

Issue == \E n \in {1} \union {m + 1 : m \in Given} :
            /\ Follows(n, Given)
            /\ valid' = valid \union {n}
            /\ gone' = gone

Cancel == \E n \in valid :
            /\ valid' = valid \ {n}
            /\ gone' = gone \union {n}

Init == valid \subseteq Int /\ gone \subseteq Int /\ valid \intersect gone = {}
Next == Issue \/ Cancel
Spec == Init /\ [][Next]_<<valid, gone>>
=============================================================================
