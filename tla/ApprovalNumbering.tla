-------------------------- MODULE ApprovalNumbering --------------------------
(***************************************************************************)
(* Numbering of PASS IAE (approvals) by concurrent transactions.           *)
(*                                                                         *)
(* The transaction that saves an approval without a number locks the first *)
(* row of the approvals, reads their last number, does the same with the   *)
(* cancelled approvals, and inserts its row under the next number.  The    *)
(* one that deletes an approval first copies its number to the cancelled   *)
(* approvals.  Isolation is READ COMMITTED: each statement sees what was   *)
(* committed when it began; SELECT ... ORDER BY pk LIMIT 1 FOR UPDATE      *)
(* waits for the first row of its snapshot, and takes the following one    *)
(* when that row was deleted meanwhile; an insertion waits for the         *)
(* uncommitted rows it may conflict with.                                  *)
(***************************************************************************)
EXTENDS Integers

CONSTANTS
    Transactions,
    Stock,          \* the approvals at the beginning
    Past,           \* the cancelled approvals at the beginning
    Lasting,        \* primary keys of approvals nobody deletes
    MaxNumber,      \* greatest number of the format, 9999999 in the code
    MaxFaults       \* bound on the transactions that are rolled back

(* A row of either table.  Numbers without the prefix of the platform, out *)
(* of the sequence, are negative.                                          *)
Row == [pk : Nat \ {0}, number : Int \ {0}]

pks(table) == {row.pk : row \in table}
numbers(table) == {row.number : row \in table}

ASSUME NumberingAssumption ==
    /\ Stock \subseteq Row /\ Past \subseteq Row
    /\ \A T \in {Stock, Past} : \A a, b \in T : a.pk = b.pk \/ a.number = b.number => a = b
    /\ numbers(Stock) \intersect numbers(Past) = {}
    /\ Lasting \subseteq pks(Stock)
    /\ MaxNumber \in Nat
    /\ MaxFaults \in Nat

VARIABLES
    approvals,      \* committed rows
    cancelled,      \* committed rows
    seqApprovals,   \* the sequence its primary keys come from
    seqCancelled,
    tx,             \* the transactions
    faults

vars == <<approvals, cancelled, seqApprovals, seqCancelled, tx, faults>>

NoRow == [pk |-> 0, number |-> 0]

(* get_next_number() and save() go through the steps from "lock" to        *)
(* "created", delete() through the three others.                           *)
Semaphore == {"read", "seek2", "lock2", "read2", "insert", "created"}
Stage == {"idle", "lock", "copy", "delete", "deleted"} \union Semaphore

Transaction == [at    : Stage,
                seek  : SUBSET Nat,     \* rows of the snapshot still to try
                lock  : Nat,            \* locked row of the approvals
                lock2 : Nat,            \* and of the cancelled ones
                last  : Int,            \* last number read, then the next one
                row   : Row \union {NoRow},     \* approval inserted or deleted
                copy  : Row \union {NoRow}]     \* its row in the cancelled ones

Idle == [at |-> "idle", seek |-> {}, lock |-> 0, lock2 |-> 0, last |-> 0,
         row |-> NoRow, copy |-> NoRow]

TypeOK ==
    /\ approvals \in SUBSET Row
    /\ cancelled \in SUBSET Row
    /\ seqApprovals \in Nat /\ seqCancelled \in Nat
    /\ tx \in [Transactions -> Transaction]
    /\ faults \in Nat

Init ==
    /\ approvals = Stock
    /\ cancelled = Past
    /\ \E m \in {0} \union pks(Stock), n \in {0} \union pks(Past) :
         /\ \A p \in pks(Stock) : p <= m
         /\ \A p \in pks(Past) : p <= n
         /\ seqApprovals = m /\ seqCancelled = n
    /\ tx = [t \in Transactions |-> Idle]
    /\ faults = 0

Goes(t, transaction) == tx' = [tx EXCEPT ![t] = transaction]
Free(pk) == \A t \in Transactions : tx[t].lock # pk
Free2(pk) == \A t \in Transactions : tx[t].lock2 # pk

(* Mutant: the last row is locked.                                         *)
IsFirstLast(pk, S) == pk \in S /\ \A p \in S : p <= pk

IsFirst(pk, S) == pk \in S /\ \A p \in S : pk <= p
IsLast(n, S) == n \in S /\ \A m \in S : m <= n

-----------------------------------------------------------------------------
(***************************************************************************)
(* An approval without a number is saved.                                  *)
(***************************************************************************)
Save(t) ==
    /\ tx[t].at = "idle"
    /\ Goes(t, [Idle EXCEPT !.at = "lock", !.seek = pks(approvals)])
    /\ UNCHANGED <<approvals, cancelled, seqApprovals, seqCancelled, faults>>

(* Nothing to lock: the statement returns no row. *)
LockNothing(t) ==
    /\ tx[t].at = "lock" /\ tx[t].seek \intersect pks(approvals) = {}
    /\ Goes(t, [tx[t] EXCEPT !.at = "read", !.seek = {}])
    /\ UNCHANGED <<approvals, cancelled, seqApprovals, seqCancelled, faults>>

Lock(t) ==
    /\ tx[t].at = "lock"
    /\ \E pk \in tx[t].seek :
         /\ IsFirst(pk, tx[t].seek \intersect pks(approvals))
         /\ Free(pk)
         /\ Goes(t, [tx[t] EXCEPT !.at = "read", !.seek = {}, !.lock = pk])
    /\ UNCHANGED <<approvals, cancelled, seqApprovals, seqCancelled, faults>>

(* The numbers have a fixed width: strings are ordered as numbers are.     *)
ReadApprovals(t) ==
    /\ tx[t].at = "read"
    /\ \E n \in {0} \union numbers(approvals) :
         /\ IsLast(n, {0} \union numbers(approvals))
         /\ Goes(t, [tx[t] EXCEPT !.at = "seek2", !.last = n])
    /\ UNCHANGED <<approvals, cancelled, seqApprovals, seqCancelled, faults>>

SeekCancelled(t) ==
    /\ tx[t].at = "seek2"
    /\ Goes(t, [tx[t] EXCEPT !.at = "lock2", !.seek = pks(cancelled)])
    /\ UNCHANGED <<approvals, cancelled, seqApprovals, seqCancelled, faults>>

(* Cancelled approvals are never deleted. *)
LockCancelled(t) ==
    /\ tx[t].at = "lock2"
    /\ \/ tx[t].seek = {} /\ Goes(t, [tx[t] EXCEPT !.at = "read2"])
       \/ \E pk \in tx[t].seek :
            /\ IsFirst(pk, tx[t].seek)
            /\ Free2(pk)
            /\ Goes(t, [tx[t] EXCEPT !.at = "read2", !.seek = {}, !.lock2 = pk])
    /\ UNCHANGED <<approvals, cancelled, seqApprovals, seqCancelled, faults>>

(* Mutant: the cancelled approvals are locked but not read.                *)
ReadCancelledForgotten(t) ==
    /\ tx[t].at = "read2"
    /\ Goes(t, IF tx[t].last + 1 > MaxNumber
               THEN Idle
               ELSE [tx[t] EXCEPT !.at = "insert", !.last = tx[t].last + 1])
    /\ UNCHANGED <<approvals, cancelled, seqApprovals, seqCancelled, faults>>

(* Mutant: the last number is given again.                                 *)
ReadCancelledSame(t) ==
    /\ tx[t].at = "read2"
    /\ LET seen == {tx[t].last} \union numbers(cancelled) IN
       \E n \in seen :
         /\ IsLast(n, seen)
         /\ Goes(t, [tx[t] EXCEPT !.at = "insert", !.last = n])
    /\ UNCHANGED <<approvals, cancelled, seqApprovals, seqCancelled, faults>>

(* max() of the two last numbers, plus one; beyond the format the request  *)
(* fails.                                                                  *)
ReadCancelled(t) ==
    /\ tx[t].at = "read2"
    /\ LET seen == {tx[t].last} \union numbers(cancelled) IN
       \E n \in seen :
         /\ IsLast(n, seen)
         /\ Goes(t, IF n + 1 > MaxNumber
                    THEN Idle
                    ELSE [tx[t] EXCEPT !.at = "insert", !.last = n + 1])
    /\ UNCHANGED <<approvals, cancelled, seqApprovals, seqCancelled, faults>>

(* Numbers are unique in each table: an insertion waits for the            *)
(* transactions that insert or delete a row with this number, and fails    *)
(* when there is a committed one.                                          *)
Insert(t) ==
    /\ tx[t].at = "insert"
    /\ \A u \in Transactions : tx[u].at \in {"created", "deleted"} =>
                                   tx[u].row.number # tx[t].last
    /\ IF tx[t].last \in numbers(approvals)
       THEN /\ Goes(t, Idle)
            /\ seqApprovals' = seqApprovals
       ELSE /\ Goes(t, [tx[t] EXCEPT !.at = "created",
                          !.row = [pk |-> seqApprovals + 1, number |-> tx[t].last]])
            /\ seqApprovals' = seqApprovals + 1
    /\ UNCHANGED <<approvals, cancelled, seqCancelled, faults>>

(* Mutant: the lock outlives the transaction.                              *)
CommitSaveLocked(t) ==
    /\ tx[t].at = "created"
    /\ approvals' = approvals \union {tx[t].row}
    /\ Goes(t, [Idle EXCEPT !.lock = tx[t].lock])
    /\ UNCHANGED <<cancelled, seqApprovals, seqCancelled, faults>>

CommitSave(t) ==
    /\ tx[t].at = "created"
    /\ approvals' = approvals \union {tx[t].row}
    /\ Goes(t, Idle)
    /\ UNCHANGED <<cancelled, seqApprovals, seqCancelled, faults>>

-----------------------------------------------------------------------------
(***************************************************************************)
(* An approval is deleted: a hiring is cancelled.                          *)
(***************************************************************************)
Delete(t) ==
    /\ tx[t].at = "idle"
    /\ \E row \in approvals :
         /\ row.pk \notin Lasting
         /\ Goes(t, [Idle EXCEPT !.at = "copy", !.row = row])
    /\ UNCHANGED <<approvals, cancelled, seqApprovals, seqCancelled, faults>>

CopyNumber(t) ==
    /\ tx[t].at = "copy"
    /\ \A u \in Transactions : tx[u].copy.number # tx[t].row.number
    /\ IF tx[t].row.number \in numbers(cancelled)
       THEN /\ Goes(t, Idle)
            /\ seqCancelled' = seqCancelled
       ELSE /\ Goes(t, [tx[t] EXCEPT !.at = "delete",
                          !.copy = [pk |-> seqCancelled + 1, number |-> tx[t].row.number]])
            /\ seqCancelled' = seqCancelled + 1
    /\ UNCHANGED <<approvals, cancelled, seqApprovals, faults>>

DeleteRow(t) ==
    /\ tx[t].at = "delete"
    /\ Free(tx[t].row.pk)
    /\ Goes(t, [tx[t] EXCEPT !.at = "deleted", !.lock = tx[t].row.pk])
    /\ UNCHANGED <<approvals, cancelled, seqApprovals, seqCancelled, faults>>

(* Mutant: the number is not kept.                                         *)
CommitDeleteForgotten(t) ==
    /\ tx[t].at = "deleted"
    /\ approvals' = {row \in approvals : row.pk # tx[t].row.pk}
    /\ Goes(t, Idle)
    /\ UNCHANGED <<cancelled, seqApprovals, seqCancelled, faults>>

CommitDelete(t) ==
    /\ tx[t].at = "deleted"
    /\ approvals' = {row \in approvals : row.pk # tx[t].row.pk}
    /\ cancelled' = cancelled \union {tx[t].copy}
    /\ Goes(t, Idle)
    /\ UNCHANGED <<seqApprovals, seqCancelled, faults>>

(* Mutant: the copy is written outside of the transaction.                 *)
RollbackButCopy(t) ==
    /\ tx[t].at # "idle"
    /\ faults < MaxFaults
    /\ faults' = faults + 1
    /\ cancelled' = IF tx[t].at = "deleted" THEN cancelled \union {tx[t].copy} ELSE cancelled
    /\ Goes(t, Idle)
    /\ UNCHANGED <<approvals, seqApprovals, seqCancelled>>

(* The rest of a request may fail at any time: everything is rolled back,  *)
(* except the sequences.                                                   *)
Rollback(t) ==
    /\ tx[t].at # "idle"
    /\ faults < MaxFaults
    /\ faults' = faults + 1
    /\ Goes(t, Idle)
    /\ UNCHANGED <<approvals, cancelled, seqApprovals, seqCancelled>>

-----------------------------------------------------------------------------
(* The steps a transaction that has begun takes by itself. *)
Proceed(t) ==
    \/ LockNothing(t) \/ Lock(t) \/ ReadApprovals(t)
    \/ SeekCancelled(t) \/ LockCancelled(t) \/ ReadCancelled(t)
    \/ Insert(t) \/ CommitSave(t)
    \/ CopyNumber(t) \/ DeleteRow(t) \/ CommitDelete(t)

Next == \E t \in Transactions : Save(t) \/ Delete(t) \/ Proceed(t) \/ Rollback(t)

Spec == Init /\ [][Next]_vars

(* The queue of a lock is served in order: who waits gets it some day. *)
FairSpec == Spec /\ \A t \in Transactions : SF_vars(Proceed(t))

-----------------------------------------------------------------------------
(* The lock on the first row is a semaphore: one transaction at a time     *)
(* computes a number, until it commits ("a poor man's semaphore").         *)
Serialised ==
    \A t, u \in Transactions : tx[t].at \in Semaphore /\ tx[u].at \in Semaphore => t = u

(* No number is given twice, the cancelled ones included.                  *)
NoDuplicate ==
    /\ \A a, b \in approvals : a.number = b.number => a = b
    /\ \A a \in approvals, c \in cancelled : a.number # c.number
    /\ \A c, d \in cancelled : c.number = d.number => c = d

(* No number is skipped, whatever is cancelled or rolled back.             *)
Given == numbers(approvals) \union numbers(cancelled)
NoHole == \A n \in Given \ numbers(Stock \union Past) : n > 1 => n - 1 \in Given

(* Whom a step waits for: the conditions on other transactions in the      *)
(* guards above.                                                           *)
WaitsFor(t, u) ==
    \/ /\ tx[t].at = "lock"
       /\ \E pk \in tx[t].seek :
            IsFirst(pk, tx[t].seek \intersect pks(approvals)) /\ tx[u].lock = pk
    \/ /\ tx[t].at = "lock2"
       /\ \E pk \in tx[t].seek : IsFirst(pk, tx[t].seek) /\ tx[u].lock2 = pk
    \/ /\ tx[t].at = "insert"
       /\ tx[u].at \in {"created", "deleted"} /\ tx[u].row.number = tx[t].last
    \/ tx[t].at = "copy" /\ tx[u].copy.number = tx[t].row.number
    \/ tx[t].at = "delete" /\ tx[u].lock = tx[t].row.pk

(* Saving and cancelling take their locks in orders that do not conflict:  *)
(* no transactions wait for each other, nor for one that is over           *)
(* (get_next_number() locks approvals, then cancelled ones; delete()       *)
(* writes the cancelled ones, then the approvals).                         *)
NoDeadlock ==
    \A S \in SUBSET Transactions : S # {} =>
        \E t \in S : \A u \in Transactions : WaitsFor(t, u) => u \notin S /\ tx[u].at # "idle"

(* Saving and cancelling an approval both come to an end.                  *)
TransactionsEnd == \A t \in Transactions : tx[t].at # "idle" ~> tx[t].at = "idle"

(* The tables implement the atomic counter of PassNumbers.                 *)
P == INSTANCE PassNumbers WITH valid <- numbers(approvals), gone <- numbers(cancelled)
Counter == P!Spec
=============================================================================
