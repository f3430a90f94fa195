---------------------- MODULE MCEmployeeRecordTransfer ----------------------
(* Instances of EmployeeRecordTransfer for TLC. *)
EXTENDS EmployeeRecordTransfer, TLC

CONSTANTS r1, r2, f1, f2, f3, f4, w1, w2

(* File names are only ever compared; so are the records when none of them *)
(* starts as a legacy row.                                                 *)
FileSymmetry == Permutations(FileNames)
Symmetry == Permutations(FileNames) \union Permutations(Records)
=============================================================================
