--------------------------- MODULE EmployeeRecord ---------------------------
(***************************************************************************)
(* One row of the employee record table ("fiche salarie") and the business *)
(* methods of the model class: for each method its guard on the loaded     *)
(* instance and the instance it leaves to be saved.  The ASP is the state  *)
(* agency the records are declared to.                                     *)
(*                                                                         *)
(* A row keeps what the exchange with the ASP depends on: the status, the  *)
(* processing code of the last answer, and the batch file and line under   *)
(* which the record was last transmitted.                                  *)
(***************************************************************************)
EXTENDS Naturals

CONSTANTS
    FileNames,      \* names of batch files, RIAE_FS_<timestamp>.json
    NoFile,         \* the null of asp_batch_file
    RejectionCode   \* the error codes the ASP answers, duplicates excepted

(* "32xx" stands for the error codes unarchive() knows (32.., 33.., 34..   *)
(* but 3436), "other" for the ones it does not.                            *)
ASSUME RecordAssumption ==
    /\ NoFile \notin FileNames
    /\ RejectionCode \subseteq {"32xx", "other"}

(* "ABSENT" is the row that is not in the table. *)
Status == {"ABSENT", "NEW", "READY", "SENT", "REJECTED", "PROCESSED",
           "DISABLED", "ARCHIVED"}

SuccessCode == "0000"
DuplicateCode == "3436"

(* "null" stands for no answer. *)
ProcessingCode == {"null", SuccessCode, DuplicateCode} \union RejectionCode

Row == [status : Status,
        code   : ProcessingCode,
        file   : FileNames \union {NoFile},
        line   : Nat]

NoRow == [status |-> "ABSENT", code |-> "null", file |-> NoFile, line |-> 0]

(***************************************************************************)
(* Guards: the status a method demands of the instance it is called on.    *)
(***************************************************************************)
InTunnel(row) == row.status \in {"NEW", "REJECTED", "DISABLED"}
CanBeDisabled(row) == row.status \in {"NEW", "REJECTED", "PROCESSED"}
CanBeReactivated(row) == row.status = "DISABLED"
IsDuplicate(row) == row.status = "REJECTED" /\ row.code = DuplicateCode

(***************************************************************************)
(* Effects: the instance a method saves.                                   *)
(***************************************************************************)
FromJobApplication == [NoRow EXCEPT !.status = "NEW"]

AsReady(row) == [row EXCEPT !.status = "READY"]

(* Mutant: the arguments of set_asp_batch_information() are swapped. *)
AsSentSwapped(row, f, n) ==
    [row EXCEPT !.status = "SENT", !.code = "null", !.file = n, !.line = f]

(* Mutant: the enumeration of the marks starts one too high. *)
AsSentNextLine(row, f, n) ==
    [row EXCEPT !.status = "SENT", !.code = "null", !.file = f, !.line = n + 1]

(* The batch clears the code of the previous answer before serialising.    *)
AsSent(row, f, n) ==
    [row EXCEPT !.status = "SENT", !.code = "null", !.file = f, !.line = n]

AsProcessed(row, c) == [row EXCEPT !.status = "PROCESSED", !.code = c]
AsRejected(row, c) == [row EXCEPT !.status = "REJECTED", !.code = c]
AsDisabled(row) == [row EXCEPT !.status = "DISABLED"]
AsNew(row) == [row EXCEPT !.status = "NEW"]
AsArchived(row) == [row EXCEPT !.status = "ARCHIVED"]

(* Mutant: a record without an answer is taken for a processed one. *)
UnarchivedProcessed(row) ==
    [row EXCEPT !.status = IF row.code = "32xx" THEN "REJECTED" ELSE "PROCESSED"]

(* An archived record goes back to the status its last answer implies.     *)
Unarchived(row) ==
    [row EXCEPT !.status =
        CASE row.code = "null" -> "NEW"
          [] row.code \in {SuccessCode, DuplicateCode} -> "PROCESSED"
          [] row.code = "32xx" -> "REJECTED"
          [] OTHER -> row.status]
=============================================================================
