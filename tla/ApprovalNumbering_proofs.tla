----------------------- MODULE ApprovalNumbering_proofs -----------------------
(***************************************************************************)
(* Proofs about the numbering of PASS IAE, for any set of transactions and *)
(* any contents of the two tables.                                         *)
(*                                                                         *)
(* A transaction only changes its own record.  For each action a first     *)
(* lemma says what it writes there; the invariants are then proved from    *)
(* these lemmas.                                                           *)
(***************************************************************************)
EXTENDS ApprovalNumbering, TLAPS

(* What every step keeps of the other transactions. *)
Alone(t) ==
    /\ tx' \in [Transactions -> Transaction]
    /\ \A u \in Transactions : u # t => tx'[u] = tx[u]

LEMMA GoesTo ==
  ASSUME tx \in [Transactions -> Transaction], NEW t \in Transactions,
         NEW v \in Transaction, Goes(t, v)
  PROVE  Alone(t) /\ tx'[t] = v
  BY DEF Goes, Alone

LEMMA IdleFields ==
  /\ Idle \in Transaction
  /\ Idle.at = "idle" /\ Idle.seek = {} /\ Idle.lock = 0 /\ Idle.lock2 = 0 /\ Idle.last = 0
  /\ Idle.row = NoRow /\ Idle.copy = NoRow
  BY DEF Idle, Transaction, Stage, NoRow

LEMMA FieldTypes ==
  ASSUME TypeOK, NEW t \in Transactions
  PROVE  /\ tx[t] \in Transaction
         /\ tx[t].at \in Stage /\ tx[t].seek \subseteq Nat /\ tx[t].lock \in Nat
         /\ tx[t].lock2 \in Nat /\ tx[t].last \in Int
         /\ tx[t].row \in Row \union {NoRow} /\ tx[t].copy \in Row \union {NoRow}
         /\ tx[t].row.pk \in Nat /\ tx[t].row.number \in Int
         /\ tx[t].copy.pk \in Nat /\ tx[t].copy.number \in Int
<1>1. tx[t] \in Transaction
  BY DEF TypeOK
<1>2. /\ tx[t].at \in Stage /\ tx[t].seek \subseteq Nat /\ tx[t].lock \in Nat
      /\ tx[t].lock2 \in Nat /\ tx[t].last \in Int
      /\ tx[t].row \in Row \union {NoRow} /\ tx[t].copy \in Row \union {NoRow}
  BY <1>1 DEF Transaction
<1> QED BY <1>1, <1>2 DEF Row, NoRow

LEMMA TableTypes ==
  ASSUME TypeOK
  PROVE  /\ pks(approvals) \subseteq Nat \ {0} /\ pks(cancelled) \subseteq Nat \ {0}
         /\ numbers(approvals) \subseteq Int \ {0} /\ numbers(cancelled) \subseteq Int \ {0}
  BY DEF TypeOK, Row, pks, numbers

-----------------------------------------------------------------------------
(* The effect of each action.                                              *)

LEMMA SaveEffect ==
  ASSUME TypeOK, NEW t \in Transactions, Save(t)
  PROVE  /\ Alone(t)
         /\ tx'[t].at = "lock" /\ tx'[t].seek = pks(approvals) /\ tx'[t].lock = 0
         /\ tx'[t].copy = NoRow /\ tx'[t].row = NoRow /\ tx'[t].last = 0
<1>1. PICK v : v = [Idle EXCEPT !.at = "lock", !.seek = pks(approvals)]
  OBVIOUS
<1>2. v \in Transaction
  BY <1>1, TableTypes, IdleFields DEF Transaction, Stage
<1>3. /\ v.at = "lock" /\ v.seek = pks(approvals) /\ v.lock = 0
      /\ v.copy = NoRow /\ v.row = NoRow /\ v.last = 0
  BY <1>1, IdleFields DEF Transaction
<1>4. Goes(t, v)
  BY <1>1 DEF Save
<1> QED BY <1>2, <1>3, <1>4, GoesTo DEF TypeOK

LEMMA LockNothingEffect ==
  ASSUME TypeOK, NEW t \in Transactions, LockNothing(t)
  PROVE  /\ Alone(t)
         /\ tx'[t].at = "read" /\ tx'[t].seek = {} /\ tx'[t].lock = tx[t].lock
         /\ tx'[t].copy = tx[t].copy /\ tx'[t].row = tx[t].row /\ tx'[t].last = tx[t].last
<1>1. PICK v : v = [tx[t] EXCEPT !.at = "read", !.seek = {}]
  OBVIOUS
<1>2. v \in Transaction
  BY <1>1, FieldTypes DEF Transaction, Stage, Semaphore
<1>3. /\ v.at = "read" /\ v.seek = {} /\ v.lock = tx[t].lock
      /\ v.copy = tx[t].copy /\ v.row = tx[t].row /\ v.last = tx[t].last
  BY <1>1, FieldTypes DEF Transaction
<1>4. Goes(t, v)
  BY <1>1 DEF LockNothing
<1> QED BY <1>2, <1>3, <1>4, GoesTo DEF TypeOK

LEMMA LockEffect ==
  ASSUME TypeOK, NEW t \in Transactions, Lock(t)
  PROVE  \E pk \in tx[t].seek :
         /\ IsFirst(pk, tx[t].seek \intersect pks(approvals)) /\ Free(pk)
         /\ Alone(t)
         /\ tx'[t].at = "read" /\ tx'[t].seek = {} /\ tx'[t].lock = pk
         /\ tx'[t].copy = tx[t].copy /\ tx'[t].row = tx[t].row /\ tx'[t].last = tx[t].last
<1>1. PICK pk \in tx[t].seek : /\ IsFirst(pk, tx[t].seek \intersect pks(approvals))
                               /\ Free(pk)
                               /\ Goes(t, [tx[t] EXCEPT !.at = "read", !.seek = {}, !.lock = pk])
  BY DEF Lock
<1>2. PICK v : v = [tx[t] EXCEPT !.at = "read", !.seek = {}, !.lock = pk]
  OBVIOUS
<1>3. v \in Transaction
  BY <1>2, FieldTypes DEF Transaction, Stage, Semaphore
<1>4. /\ v.at = "read" /\ v.seek = {} /\ v.lock = pk
      /\ v.copy = tx[t].copy /\ v.row = tx[t].row /\ v.last = tx[t].last
  BY <1>2, FieldTypes DEF Transaction
<1> QED BY <1>1, <1>2, <1>3, <1>4, GoesTo DEF TypeOK

LEMMA ReadApprovalsEffect ==
  ASSUME TypeOK, NEW t \in Transactions, ReadApprovals(t)
  PROVE  \E n \in {0} \union numbers(approvals) :
         /\ IsLast(n, {0} \union numbers(approvals))
         /\ Alone(t)
         /\ tx'[t].at = "seek2" /\ tx'[t].seek = tx[t].seek /\ tx'[t].lock = tx[t].lock
         /\ tx'[t].copy = tx[t].copy /\ tx'[t].row = tx[t].row /\ tx'[t].last = n
<1>1. PICK n \in {0} \union numbers(approvals) :
        /\ IsLast(n, {0} \union numbers(approvals))
        /\ Goes(t, [tx[t] EXCEPT !.at = "seek2", !.last = n])
  BY DEF ReadApprovals
<1>2. PICK v : v = [tx[t] EXCEPT !.at = "seek2", !.last = n]
  OBVIOUS
<1>3. n \in Int
  BY TableTypes
<1>4. v \in Transaction
  BY <1>2, <1>3, FieldTypes DEF Transaction, Stage, Semaphore
<1>5. /\ v.at = "seek2" /\ v.seek = tx[t].seek /\ v.lock = tx[t].lock
      /\ v.copy = tx[t].copy /\ v.row = tx[t].row /\ v.last = n
  BY <1>2, FieldTypes DEF Transaction
<1> QED BY <1>1, <1>2, <1>4, <1>5, GoesTo DEF TypeOK

LEMMA SeekCancelledEffect ==
  ASSUME TypeOK, NEW t \in Transactions, SeekCancelled(t)
  PROVE  /\ Alone(t)
         /\ tx'[t].at = "lock2" /\ tx'[t].lock = tx[t].lock
         /\ tx'[t].copy = tx[t].copy /\ tx'[t].row = tx[t].row /\ tx'[t].last = tx[t].last
<1>1. PICK v : v = [tx[t] EXCEPT !.at = "lock2", !.seek = pks(cancelled)]
  OBVIOUS
<1>2. v \in Transaction
  BY <1>1, FieldTypes, TableTypes DEF Transaction, Stage, Semaphore
<1>3. /\ v.at = "lock2" /\ v.lock = tx[t].lock
      /\ v.copy = tx[t].copy /\ v.row = tx[t].row /\ v.last = tx[t].last
  BY <1>1, FieldTypes DEF Transaction
<1>4. Goes(t, v)
  BY <1>1 DEF SeekCancelled
<1> QED BY <1>2, <1>3, <1>4, GoesTo DEF TypeOK

LEMMA LockCancelledEffect ==
  ASSUME TypeOK, NEW t \in Transactions, LockCancelled(t)
  PROVE  /\ Alone(t)
         /\ tx'[t].at = "read2" /\ tx'[t].lock = tx[t].lock
         /\ tx'[t].copy = tx[t].copy /\ tx'[t].row = tx[t].row /\ tx'[t].last = tx[t].last
<1>1. \/ Goes(t, [tx[t] EXCEPT !.at = "read2"])
      \/ \E pk \in tx[t].seek : Goes(t, [tx[t] EXCEPT !.at = "read2", !.seek = {}, !.lock2 = pk])
  BY DEF LockCancelled
<1>2. CASE Goes(t, [tx[t] EXCEPT !.at = "read2"])
  <2>1. PICK v : v = [tx[t] EXCEPT !.at = "read2"]
    OBVIOUS
  <2>2. v \in Transaction
    BY <2>1, FieldTypes DEF Transaction, Stage, Semaphore
  <2>3. /\ v.at = "read2" /\ v.lock = tx[t].lock
        /\ v.copy = tx[t].copy /\ v.row = tx[t].row /\ v.last = tx[t].last
    BY <2>1, FieldTypes DEF Transaction
  <2> QED BY <1>2, <2>1, <2>2, <2>3, GoesTo DEF TypeOK
<1>3. CASE \E pk \in tx[t].seek : Goes(t, [tx[t] EXCEPT !.at = "read2", !.seek = {}, !.lock2 = pk])
  <2>1. PICK pk \in tx[t].seek : Goes(t, [tx[t] EXCEPT !.at = "read2", !.seek = {}, !.lock2 = pk])
    BY <1>3
  <2>2. PICK v : v = [tx[t] EXCEPT !.at = "read2", !.seek = {}, !.lock2 = pk]
    OBVIOUS
  <2>3. v \in Transaction
    BY <2>2, FieldTypes DEF Transaction, Stage, Semaphore
  <2>4. /\ v.at = "read2" /\ v.lock = tx[t].lock
        /\ v.copy = tx[t].copy /\ v.row = tx[t].row /\ v.last = tx[t].last
    BY <2>2, FieldTypes DEF Transaction
  <2> QED BY <2>1, <2>2, <2>3, <2>4, GoesTo DEF TypeOK
<1> QED BY <1>1, <1>2, <1>3

(* Also the effect of a rollback and of a commit on the transaction.       *)
LEMMA EndEffect ==
  ASSUME TypeOK, NEW t \in Transactions, Goes(t, Idle)
  PROVE  /\ Alone(t)
         /\ tx'[t].at = "idle" /\ tx'[t].seek = {} /\ tx'[t].lock = 0
         /\ tx'[t].copy = NoRow /\ tx'[t].row = NoRow /\ tx'[t].last = 0
  BY IdleFields, GoesTo DEF TypeOK

LEMMA ReadCancelledEffect ==
  ASSUME TypeOK, NEW t \in Transactions, ReadCancelled(t)
  PROVE  \/ Goes(t, Idle)
         \/ \E n \in {tx[t].last} \union numbers(cancelled) :
            /\ IsLast(n, {tx[t].last} \union numbers(cancelled))
            /\ Alone(t)
            /\ tx'[t].at = "insert" /\ tx'[t].lock = tx[t].lock
            /\ tx'[t].copy = tx[t].copy /\ tx'[t].row = tx[t].row /\ tx'[t].last = n + 1
<1>1. PICK n \in {tx[t].last} \union numbers(cancelled) :
        /\ IsLast(n, {tx[t].last} \union numbers(cancelled))
        /\ Goes(t, IF n + 1 > MaxNumber THEN Idle
                   ELSE [tx[t] EXCEPT !.at = "insert", !.last = n + 1])
  BY DEF ReadCancelled
<1>2. CASE n + 1 > MaxNumber
  BY <1>1, <1>2
<1>3. CASE ~(n + 1 > MaxNumber)
  <2>1. PICK m \in Int : m = n + 1
    <3>1. n \in Int
      BY FieldTypes, TableTypes
    <3> QED BY <3>1
  <2>2. PICK v : v = [tx[t] EXCEPT !.at = "insert", !.last = m]
    OBVIOUS
  <2>3. v \in Transaction
    BY <2>2, FieldTypes DEF Transaction, Stage, Semaphore
  <2>4. /\ v.at = "insert" /\ v.lock = tx[t].lock
        /\ v.copy = tx[t].copy /\ v.row = tx[t].row /\ v.last = m
    BY <2>2, FieldTypes DEF Transaction
  <2>5. Goes(t, v)
    BY <1>1, <1>3, <2>1, <2>2
  <2> QED BY <1>1, <2>1, <2>3, <2>4, <2>5, GoesTo DEF TypeOK
<1> QED BY <1>2, <1>3

LEMMA DeleteEffect ==
  ASSUME TypeOK, NEW t \in Transactions, Delete(t)
  PROVE  \E row \in approvals :
         /\ row.pk \notin Lasting
         /\ Alone(t)
         /\ tx'[t].at = "copy" /\ tx'[t].lock = 0
         /\ tx'[t].copy = NoRow /\ tx'[t].row = row /\ tx'[t].last = 0
<1>1. PICK row \in approvals : row.pk \notin Lasting /\ Goes(t, [Idle EXCEPT !.at = "copy", !.row = row])
  BY DEF Delete
<1>2. PICK v : v = [Idle EXCEPT !.at = "copy", !.row = row]
  OBVIOUS
<1>3. v \in Transaction
  BY <1>2, IdleFields DEF Transaction, Stage, TypeOK
<1>4. v.at = "copy" /\ v.lock = 0 /\ v.copy = NoRow /\ v.row = row /\ v.last = 0
  BY <1>2, IdleFields DEF Transaction
<1> QED BY <1>1, <1>2, <1>3, <1>4, GoesTo DEF TypeOK

LEMMA DeleteRowEffect ==
  ASSUME TypeOK, NEW t \in Transactions, DeleteRow(t)
  PROVE  /\ Alone(t)
         /\ tx'[t].at = "deleted" /\ tx'[t].lock = tx[t].row.pk
         /\ tx'[t].copy = tx[t].copy /\ tx'[t].row = tx[t].row
<1>1. PICK v : v = [tx[t] EXCEPT !.at = "deleted", !.lock = tx[t].row.pk]
  OBVIOUS
<1>2. v \in Transaction
  BY <1>1, FieldTypes DEF Transaction, Stage
<1>3. v.at = "deleted" /\ v.lock = tx[t].row.pk /\ v.copy = tx[t].copy /\ v.row = tx[t].row
  BY <1>1, FieldTypes DEF Transaction
<1>4. Goes(t, v)
  BY <1>1 DEF DeleteRow
<1> QED BY <1>2, <1>3, <1>4, GoesTo DEF TypeOK
LEMMA InsertEffect ==
  ASSUME TypeOK, NEW t \in Transactions, Insert(t), tx[t].last > 0
  PROVE  \/ Goes(t, Idle) /\ seqApprovals' = seqApprovals
         \/ /\ tx[t].last \notin numbers(approvals)
            /\ seqApprovals' = seqApprovals + 1
            /\ Alone(t)
            /\ tx'[t].at = "created" /\ tx'[t].lock = tx[t].lock /\ tx'[t].copy = tx[t].copy
            /\ tx'[t].row \in Row
            /\ tx'[t].row.pk = seqApprovals + 1 /\ tx'[t].row.number = tx[t].last
<1>1. CASE tx[t].last \in numbers(approvals)
  BY <1>1 DEF Insert
<1>2. CASE tx[t].last \notin numbers(approvals)
  <2>1. PICK row : row = [pk |-> seqApprovals + 1, number |-> tx[t].last]
    OBVIOUS
  <2>2. row \in Row /\ row.pk = seqApprovals + 1 /\ row.number = tx[t].last
    BY <2>1, FieldTypes DEF Row, TypeOK
  <2>3. PICK v : v = [tx[t] EXCEPT !.at = "created", !.row = row]
    OBVIOUS
  <2>4. v \in Transaction
    BY <2>2, <2>3, FieldTypes DEF Transaction, Stage, Semaphore
  <2>5. v.at = "created" /\ v.lock = tx[t].lock /\ v.copy = tx[t].copy /\ v.row = row
    BY <2>3, FieldTypes DEF Transaction
  <2>6. Goes(t, v) /\ seqApprovals' = seqApprovals + 1
    BY <1>2, <2>1, <2>3 DEF Insert
  <2> QED BY <1>2, <2>2, <2>4, <2>5, <2>6, GoesTo DEF TypeOK
<1> QED BY <1>1, <1>2

LEMMA CopyNumberEffect ==
  ASSUME TypeOK, NEW t \in Transactions, CopyNumber(t), tx[t].row \in Row
  PROVE  \/ Goes(t, Idle) /\ seqCancelled' = seqCancelled
         \/ /\ tx[t].row.number \notin numbers(cancelled)
            /\ seqCancelled' = seqCancelled + 1
            /\ Alone(t)
            /\ tx'[t].at = "delete" /\ tx'[t].lock = tx[t].lock /\ tx'[t].row = tx[t].row
            /\ tx'[t].copy \in Row /\ tx'[t].copy.number = tx[t].row.number
<1>1. CASE tx[t].row.number \in numbers(cancelled)
  BY <1>1 DEF CopyNumber
<1>2. CASE tx[t].row.number \notin numbers(cancelled)
  <2>1. PICK row : row = [pk |-> seqCancelled + 1, number |-> tx[t].row.number]
    OBVIOUS
  <2>2. row \in Row /\ row.number = tx[t].row.number
    BY <2>1 DEF Row, TypeOK
  <2>3. PICK v : v = [tx[t] EXCEPT !.at = "delete", !.copy = row]
    OBVIOUS
  <2>4. v \in Transaction
    BY <2>2, <2>3, FieldTypes DEF Transaction, Stage
  <2>5. v.at = "delete" /\ v.lock = tx[t].lock /\ v.row = tx[t].row /\ v.copy = row
    BY <2>3, FieldTypes DEF Transaction
  <2>6. Goes(t, v) /\ seqCancelled' = seqCancelled + 1
    BY <1>2, <2>1, <2>3 DEF CopyNumber
  <2> QED BY <1>2, <2>2, <2>4, <2>5, <2>6, GoesTo DEF TypeOK
<1> QED BY <1>1, <1>2

-----------------------------------------------------------------------------
(* What holds whatever the tables contain.                                 *)

(* Primary keys designate rows. *)
KeysOK ==
    /\ \A a \in approvals : a.pk <= seqApprovals
    /\ \A a, b \in approvals : a.pk = b.pk => a = b
    /\ \A t \in Transactions : tx[t].at = "created" =>
         /\ tx[t].row \in Row
         /\ tx[t].row.pk <= seqApprovals
         /\ tx[t].row.pk \notin pks(approvals)
    /\ \A t, u \in Transactions : tx[t].at = "created" /\ tx[u].at = "created"
                                     /\ tx[t].row.pk = tx[u].row.pk => t = u

(* A transaction that deletes an approval owns its number.                 *)
CopiesOK ==
    /\ \A c, d \in cancelled : c.number = d.number => c = d
    /\ \A t \in Transactions :
         /\ tx[t].at \in {"copy", "delete", "deleted"} => tx[t].row \in Row /\ tx[t].row.pk \notin Lasting
         /\ tx[t].at = "copy" => tx[t].row \in approvals \/ tx[t].row.number \in numbers(cancelled)
         /\ tx[t].at \in {"delete", "deleted"} =>
              /\ tx[t].row \in approvals
              /\ tx[t].copy \in Row
              /\ tx[t].copy.number = tx[t].row.number
              /\ tx[t].copy.number \notin numbers(cancelled)
    /\ \A t, u \in Transactions : tx[t].at \in {"delete", "deleted"} /\ tx[u].at \in {"delete", "deleted"}
                                     /\ tx[t].copy.number = tx[u].copy.number => t = u

(* n follows a number that was given. *)
Following(n) == n \in Nat \ {0} /\ (n = 1 \/ n - 1 \in Given)

NumbersOK ==
    /\ \A t \in Transactions :
         /\ tx[t].at \in {"seek2", "lock2", "read2"} => Following(tx[t].last + 1)
         /\ tx[t].at = "insert" => Following(tx[t].last)
         /\ tx[t].at = "created" => Following(tx[t].row.number)
    /\ NoHole

BaseInv == TypeOK /\ KeysOK /\ CopiesOK /\ NumbersOK

LEMMA BaseInit == Init => BaseInv
<1> SUFFICES ASSUME Init PROVE BaseInv
  OBVIOUS
<1>1. \A t \in Transactions : tx[t] = Idle
  BY DEF Init
<1>2. TypeOK
  BY IdleFields, NumberingAssumption DEF Init, TypeOK, pks, Row
<1>3. KeysOK
  BY <1>1, IdleFields, NumberingAssumption DEF Init, KeysOK, pks
<1>4. CopiesOK
  BY <1>1, IdleFields, NumberingAssumption DEF Init, CopiesOK
<1>5. NumbersOK
  BY <1>1, IdleFields DEF Init, NumbersOK, NoHole, Given, numbers
<1> QED BY <1>2, <1>3, <1>4, <1>5 DEF BaseInv

(* A step of a transaction that leaves the tables alone keeps BaseInv when *)
(* its own record satisfies the conditions of its new stage.               *)
LEMMA QuietStep ==
  ASSUME BaseInv, NEW t \in Transactions, Alone(t), TypeOK',
         UNCHANGED <<approvals, cancelled, seqApprovals>>,
         tx'[t].at # "created",
         tx'[t].at \in {"copy", "delete", "deleted"} => tx'[t].row \in Row /\ tx'[t].row.pk \notin Lasting,
         tx'[t].at = "copy" => tx'[t].row \in approvals \/ tx'[t].row.number \in numbers(cancelled),
         tx'[t].at \in {"delete", "deleted"} =>
            /\ tx'[t].row \in approvals /\ tx'[t].copy \in Row
            /\ tx'[t].copy.number = tx'[t].row.number
            /\ tx'[t].copy.number \notin numbers(cancelled)
            /\ \A u \in Transactions : u # t /\ tx[u].at \in {"delete", "deleted"} =>
                                          tx[u].copy.number # tx'[t].copy.number,
         tx'[t].at \in {"seek2", "lock2", "read2"} => Following(tx'[t].last + 1),
         tx'[t].at = "insert" => Following(tx'[t].last)
  PROVE  BaseInv'
<1>1. KeysOK'
  BY DEF BaseInv, KeysOK, Alone, pks
<1>2. CopiesOK'
  BY DEF BaseInv, CopiesOK, Alone, numbers
<1>3. NumbersOK'
  <2>1. Given' = Given /\ (NoHole => NoHole')
    BY DEF Given, NoHole, numbers
  <2>2. \A n : Following(n) => Following(n)'
    BY <2>1 DEF Following
  <2> QED BY <2>1, <2>2 DEF BaseInv, NumbersOK, Alone, Following
<1> QED BY <1>1, <1>2, <1>3 DEF BaseInv

LEMMA EndStep ==
  ASSUME BaseInv, NEW t \in Transactions, Goes(t, Idle), faults' \in Nat, seqCancelled' \in Nat,
         UNCHANGED <<approvals, cancelled, seqApprovals>>
  PROVE  BaseInv'
<1>1. TypeOK'
  BY EndEffect DEF BaseInv, TypeOK, Alone
<1> QED BY <1>1, EndEffect, QuietStep DEF BaseInv

LEMMA SaveBase ==
  ASSUME BaseInv, NEW t \in Transactions, Save(t) PROVE BaseInv'
<1>1. TypeOK'
  BY SaveEffect DEF BaseInv, TypeOK, Save, Alone
<1> QED BY <1>1, SaveEffect, QuietStep DEF BaseInv, Save

LEMMA LockNothingBase ==
  ASSUME BaseInv, NEW t \in Transactions, LockNothing(t) PROVE BaseInv'
<1>1. TypeOK'
  BY LockNothingEffect DEF BaseInv, TypeOK, LockNothing, Alone
<1> QED BY <1>1, LockNothingEffect, QuietStep DEF BaseInv, LockNothing

LEMMA LockBase ==
  ASSUME BaseInv, NEW t \in Transactions, Lock(t) PROVE BaseInv'
<1>1. TypeOK'
  BY LockEffect DEF BaseInv, TypeOK, Lock, Alone
<1> QED BY <1>1, LockEffect, QuietStep DEF BaseInv, Lock

LEMMA ReadApprovalsBase ==
  ASSUME BaseInv, NEW t \in Transactions, ReadApprovals(t) PROVE BaseInv'
<1>1. TypeOK'
  BY ReadApprovalsEffect DEF BaseInv, TypeOK, ReadApprovals, Alone
<1>2. Following(tx'[t].last + 1)
  BY ReadApprovalsEffect, TableTypes DEF BaseInv, Following, IsLast, Given
<1> QED BY <1>1, <1>2, ReadApprovalsEffect, QuietStep DEF BaseInv, ReadApprovals

LEMMA SeekCancelledBase ==
  ASSUME BaseInv, NEW t \in Transactions, SeekCancelled(t) PROVE BaseInv'
<1>1. TypeOK'
  BY SeekCancelledEffect DEF BaseInv, TypeOK, SeekCancelled, Alone
<1>2. Following(tx'[t].last + 1)
  BY SeekCancelledEffect DEF BaseInv, NumbersOK, SeekCancelled
<1> QED BY <1>1, <1>2, SeekCancelledEffect, QuietStep DEF BaseInv, SeekCancelled

LEMMA LockCancelledBase ==
  ASSUME BaseInv, NEW t \in Transactions, LockCancelled(t) PROVE BaseInv'
<1>1. TypeOK'
  BY LockCancelledEffect DEF BaseInv, TypeOK, LockCancelled, Alone
<1>2. Following(tx'[t].last + 1)
  BY LockCancelledEffect DEF BaseInv, NumbersOK, LockCancelled
<1> QED BY <1>1, <1>2, LockCancelledEffect, QuietStep DEF BaseInv, LockCancelled

LEMMA ReadCancelledBase ==
  ASSUME BaseInv, NEW t \in Transactions, ReadCancelled(t) PROVE BaseInv'
<1>1. CASE Goes(t, Idle)
  BY <1>1, EndStep DEF ReadCancelled, BaseInv, TypeOK
<1>2. CASE ~Goes(t, Idle)
  <2>1. TypeOK'
    BY <1>2, ReadCancelledEffect DEF BaseInv, TypeOK, ReadCancelled, Alone
  <2>2. Following(tx[t].last + 1) /\ tx[t].last \in Int
    BY FieldTypes DEF BaseInv, NumbersOK, ReadCancelled
  <2>3. PICK n \in {tx[t].last} \union numbers(cancelled) :
          IsLast(n, {tx[t].last} \union numbers(cancelled)) /\ tx'[t].last = n + 1
    BY <1>2, ReadCancelledEffect DEF BaseInv
  <2>4. n \in Int /\ n >= tx[t].last
    BY <2>2, <2>3, TableTypes DEF BaseInv, IsLast
  <2>5. n + 1 = 1 \/ n \in Given
    BY <2>2, <2>3, <2>4 DEF Following, Given
  <2>6. Following(tx'[t].last)
    BY <2>2, <2>3, <2>4, <2>5 DEF Following
  <2> QED BY <1>2, <2>1, <2>6, ReadCancelledEffect, QuietStep DEF BaseInv, ReadCancelled
<1> QED BY <1>1, <1>2

LEMMA DeleteBase ==
  ASSUME BaseInv, NEW t \in Transactions, Delete(t) PROVE BaseInv'
<1>1. TypeOK'
  BY DeleteEffect DEF BaseInv, TypeOK, Delete, Alone
<1> QED BY <1>1, DeleteEffect, QuietStep DEF BaseInv, TypeOK, Delete

LEMMA CopyNumberBase ==
  ASSUME BaseInv, NEW t \in Transactions, CopyNumber(t) PROVE BaseInv'
<1>1. tx[t].row \in Row /\ tx[t].row.pk \notin Lasting
  BY DEF BaseInv, CopiesOK, CopyNumber
<1>2. seqCancelled' \in Nat /\ UNCHANGED <<approvals, cancelled, seqApprovals, faults>>
  <2>1. seqCancelled' = seqCancelled \/ seqCancelled' = seqCancelled + 1
    BY <1>1, CopyNumberEffect DEF BaseInv
  <2>2. seqCancelled \in Nat
    BY DEF BaseInv, TypeOK
  <2> QED BY <2>1, <2>2 DEF CopyNumber
<1>3. CASE Goes(t, Idle)
  <2>1. faults' \in Nat
    BY <1>2 DEF BaseInv, TypeOK
  <2> QED BY <1>3, <1>2, <2>1, EndStep
<1>4. CASE ~Goes(t, Idle)
  <2>1. TypeOK'
    <3>1. tx' \in [Transactions -> Transaction]
      BY <1>1, <1>4, CopyNumberEffect DEF BaseInv, Alone
    <3> QED BY <1>2, <3>1 DEF BaseInv, TypeOK
  <2>2. tx[t].row \in approvals
    BY <1>1, <1>4, CopyNumberEffect DEF BaseInv, CopiesOK, CopyNumber
  <2>3. \A u \in Transactions : tx[u].copy.number # tx[t].row.number
    BY DEF CopyNumber
  <2> QED BY <1>1, <1>4, <2>1, <2>2, <2>3, CopyNumberEffect, QuietStep DEF BaseInv, CopyNumber
<1> QED BY <1>3, <1>4

LEMMA DeleteRowBase ==
  ASSUME BaseInv, NEW t \in Transactions, DeleteRow(t) PROVE BaseInv'
<1>1. TypeOK'
  BY DeleteRowEffect DEF BaseInv, TypeOK, DeleteRow, Alone
<1> QED BY <1>1, DeleteRowEffect, QuietStep DEF BaseInv, CopiesOK, DeleteRow

LEMMA InsertBase ==
  ASSUME BaseInv, NEW t \in Transactions, Insert(t) PROVE BaseInv'
<1>1. /\ Following(tx[t].last) /\ tx[t].last > 0
      /\ UNCHANGED <<approvals, cancelled, seqCancelled, faults>>
      /\ tx[t].at = "insert"
  BY DEF BaseInv, NumbersOK, Following, Insert
<1>2. CASE Goes(t, Idle) /\ seqApprovals' = seqApprovals
  BY <1>1, <1>2, EndStep DEF BaseInv, TypeOK
<1>3. CASE /\ seqApprovals' = seqApprovals + 1
           /\ Alone(t)
           /\ tx'[t].at = "created" /\ tx'[t].row \in Row
           /\ tx'[t].row.pk = seqApprovals + 1 /\ tx'[t].row.number = tx[t].last
  <2>1. seqApprovals \in Nat /\ \A a \in approvals : a.pk \in Nat /\ a.pk <= seqApprovals
    BY DEF BaseInv, TypeOK, KeysOK, Row
  <2>2. TypeOK'
    BY <1>1, <1>3, <2>1 DEF BaseInv, TypeOK, Alone
  <2>3. KeysOK'
    <3>1. \A u \in Transactions : tx[u].row.pk \in Nat
      BY FieldTypes DEF BaseInv
    <3>2. tx'[t].row.pk \notin pks(approvals)
      BY <1>3, <2>1 DEF pks
    <3>3. \A u \in Transactions : u # t /\ tx'[u].at = "created" =>
             /\ tx'[u].row \in Row
             /\ tx'[u].row.pk <= seqApprovals
             /\ tx'[u].row.pk \notin pks(approvals)
      BY <1>3 DEF BaseInv, KeysOK, Alone
    <3> QED BY <1>1, <1>3, <2>1, <3>1, <3>2, <3>3 DEF BaseInv, KeysOK, Alone, pks
  <2>4. CopiesOK'
    BY <1>1, <1>3 DEF BaseInv, CopiesOK, Alone, numbers
  <2>5. NumbersOK'
    <3>1. Given' = Given /\ (NoHole => NoHole')
      BY <1>1 DEF Given, NoHole, numbers
    <3>2. \A n : Following(n) => Following(n)'
      BY <3>1 DEF Following
    <3> QED BY <1>1, <1>3, <3>1, <3>2 DEF BaseInv, NumbersOK, Alone, Following
  <2> QED BY <2>2, <2>3, <2>4, <2>5 DEF BaseInv
<1> QED BY <1>1, <1>2, <1>3, InsertEffect DEF BaseInv

LEMMA CommitSaveBase ==
  ASSUME BaseInv, NEW t \in Transactions, CommitSave(t) PROVE BaseInv'
<1>1. /\ tx[t].at = "created" /\ tx[t].row \in Row
      /\ tx[t].row.pk <= seqApprovals /\ tx[t].row.pk \notin pks(approvals)
      /\ Following(tx[t].row.number)
  BY DEF BaseInv, KeysOK, NumbersOK, CommitSave
<1>2. /\ Alone(t) /\ tx'[t].at = "idle" /\ tx'[t].copy = NoRow
      /\ approvals' = approvals \union {tx[t].row}
      /\ UNCHANGED <<cancelled, seqApprovals, seqCancelled, faults>>
  BY EndEffect DEF CommitSave, BaseInv
<1>3. TypeOK'
  BY <1>1, <1>2 DEF BaseInv, TypeOK, Alone
<1>4. KeysOK'
  BY <1>1, <1>2 DEF BaseInv, KeysOK, Alone, pks
<1>5. CopiesOK'
  BY <1>1, <1>2 DEF BaseInv, CopiesOK, Alone, numbers
<1>6. NumbersOK'
  <2>1. Given' = Given \union {tx[t].row.number}
    BY <1>2 DEF Given, numbers
  <2>2. NoHole'
    BY <1>1, <2>1 DEF BaseInv, NumbersOK, NoHole, Following
  <2>3. \A n : Following(n) => Following(n)'
    BY <2>1 DEF Following
  <2> QED BY <1>2, <2>2, <2>3 DEF BaseInv, NumbersOK, Alone
<1> QED BY <1>3, <1>4, <1>5, <1>6 DEF BaseInv

LEMMA CommitDeleteBase ==
  ASSUME BaseInv, NEW t \in Transactions, CommitDelete(t)
  PROVE  BaseInv' /\ approvals' = approvals \ {tx[t].row} /\ Given' = Given
<1>1. /\ tx[t].at = "deleted" /\ tx[t].row \in approvals /\ tx[t].copy \in Row
      /\ tx[t].copy.number = tx[t].row.number
      /\ tx[t].copy.number \notin numbers(cancelled)
  BY DEF BaseInv, CopiesOK, CommitDelete
<1>2. /\ Alone(t) /\ tx'[t].at = "idle" /\ tx'[t].copy = NoRow
      /\ cancelled' = cancelled \union {tx[t].copy}
      /\ UNCHANGED <<seqApprovals, seqCancelled, faults>>
  BY EndEffect DEF CommitDelete, BaseInv
<1>3. approvals' = approvals \ {tx[t].row}
  BY <1>1 DEF BaseInv, KeysOK, CommitDelete
<1>4. TypeOK'
  BY <1>1, <1>2, <1>3 DEF BaseInv, TypeOK, Alone
<1>5. KeysOK'
  BY <1>1, <1>2, <1>3 DEF BaseInv, KeysOK, Alone, pks
<1>6. CopiesOK'
  BY <1>1, <1>2, <1>3 DEF BaseInv, CopiesOK, Alone, numbers
<1>7. Given' = Given
  BY <1>1, <1>2, <1>3 DEF Given, numbers
<1>8. NumbersOK'
  BY <1>2, <1>7 DEF BaseInv, NumbersOK, NoHole, Following, Alone
<1> QED BY <1>3, <1>4, <1>5, <1>6, <1>7, <1>8 DEF BaseInv

LEMMA BaseNext == BaseInv /\ [Next]_vars => BaseInv'
<1> SUFFICES ASSUME BaseInv, [Next]_vars PROVE BaseInv'
  OBVIOUS
<1>1. CASE UNCHANGED vars
  <2>1. UNCHANGED <<approvals, cancelled, seqApprovals, seqCancelled, tx, faults>>
    BY <1>1 DEF vars
  <2> QED BY <2>1 DEF BaseInv, TypeOK, KeysOK, CopiesOK, NumbersOK, NoHole, Given, Following,
                      pks, numbers
<1>2. CASE Next
  <2>1. PICK t \in Transactions : Save(t) \/ Delete(t) \/ Proceed(t) \/ Rollback(t)
    BY <1>2 DEF Next
  <2>2. CASE Save(t) \/ Delete(t)
    BY <2>2, SaveBase, DeleteBase
  <2>3. CASE Proceed(t)
    BY <2>3, LockNothingBase, LockBase, ReadApprovalsBase, SeekCancelledBase, LockCancelledBase,
       ReadCancelledBase, InsertBase, CommitSaveBase, CopyNumberBase, DeleteRowBase,
       CommitDeleteBase DEF Proceed
  <2>4. CASE Rollback(t)
    BY <2>4, EndStep DEF Rollback, BaseInv, TypeOK
  <2> QED BY <2>1, <2>2, <2>3, <2>4
<1> QED BY <1>1, <1>2

THEOREM BaseSafe == Spec => []BaseInv
  BY BaseInit, BaseNext, PTL DEF Spec

(* Every variable keeps its type, in particular every row gets a non-null  *)
(* primary key and number.                                                 *)
THEOREM NumberingTypeCorrect == Spec => []TypeOK
<1>1. BaseInv => TypeOK
  BY DEF BaseInv
<1> QED BY <1>1, BaseSafe, PTL

(* No number is skipped, even without any row to lock: a number that is    *)
(* stale can only be too small, and is then refused by the unique          *)
(* constraint or belongs to a cancelled approval.                          *)
THEOREM NumbersHaveNoHole == Spec => []NoHole
<1>1. BaseInv => NoHole
  BY DEF BaseInv, NumbersOK
<1> QED BY <1>1, BaseSafe, PTL

-----------------------------------------------------------------------------
(* What holds as long as some approval lasts.                              *)

(* The first row can be locked, and is the same for everybody: what a      *)
(* transaction still has to try holds every older row that is left.        *)
SeekOK ==
    /\ Lasting \subseteq pks(approvals)
    /\ \A t \in Transactions : tx[t].at = "lock" =>
         /\ Lasting \subseteq tx[t].seek
         /\ \A q \in tx[t].seek : q <= seqApprovals
         /\ \A p \in pks(approvals), q \in tx[t].seek : p < q => p \in tx[t].seek

(* Who computes a number holds the lock on the first row.                  *)
LockOK ==
    /\ \A t \in Transactions :
         /\ tx[t].at \in Semaphore => IsFirst(tx[t].lock, pks(approvals))
         /\ tx[t].at = "deleted" => tx[t].lock = tx[t].row.pk
    /\ \A t, u \in Transactions : tx[t].lock = tx[u].lock => t = u \/ tx[t].lock = 0

(* A row about to be committed comes last.                                 *)
OrderOK ==
    \A t \in Transactions : tx[t].at = "created" =>
         /\ \A p \in pks(approvals) : p < tx[t].row.pk
         /\ \A u \in Transactions : tx[u].at = "lock" =>
                \A q \in tx[u].seek : q < tx[t].row.pk

(* What has been read is still the last number.                            *)
LastOK ==
    /\ \A t \in Transactions :
         /\ tx[t].at \in {"seek2", "lock2", "read2"} => \A n \in numbers(approvals) : n <= tx[t].last
         /\ tx[t].at = "insert" => \A n \in Given : n < tx[t].last
         /\ tx[t].at = "created" => \A n \in Given : n < tx[t].row.number
    /\ NoDuplicate

LockInv == BaseInv /\ SeekOK /\ LockOK /\ OrderOK /\ LastOK

LEMMA LockInit == Init => LockInv
<1> SUFFICES ASSUME Init PROVE LockInv
  OBVIOUS
<1>1. \A t \in Transactions : tx[t] = Idle
  BY DEF Init
<1>2. SeekOK /\ LockOK /\ OrderOK
  BY <1>1, IdleFields, NumberingAssumption DEF Init, SeekOK, LockOK, OrderOK, Semaphore
<1>3. LastOK
  BY <1>1, IdleFields, NumberingAssumption DEF Init, LastOK, NoDuplicate, numbers
<1> QED BY <1>2, <1>3, BaseInit DEF LockInv

(* Two locks on the first row are the same lock.                           *)
LEMMA OneAtATime == LockInv => Serialised
<1> SUFFICES ASSUME LockInv, NEW t \in Transactions, NEW u \in Transactions,
                    tx[t].at \in Semaphore, tx[u].at \in Semaphore
             PROVE  t = u
  BY DEF Serialised
<1>1. IsFirst(tx[t].lock, pks(approvals)) /\ IsFirst(tx[u].lock, pks(approvals))
  BY DEF LockInv, LockOK
<1>2. pks(approvals) \subseteq Nat \ {0}
  BY TableTypes DEF LockInv, BaseInv
<1>3. tx[t].lock = tx[u].lock /\ tx[t].lock # 0
  BY <1>1, <1>2 DEF IsFirst
<1> QED BY <1>3 DEF LockInv, LockOK

(* A step of a transaction that leaves the tables alone.                   *)
LEMMA QuietLock ==
  ASSUME LockInv, BaseInv', NEW t \in Transactions, Alone(t),
         UNCHANGED <<approvals, cancelled>>,
         seqApprovals' \in Nat, seqApprovals <= seqApprovals',
         tx'[t].at = "lock" =>
            /\ Lasting \subseteq tx'[t].seek
            /\ \A q \in tx'[t].seek : q <= seqApprovals'
            /\ \A p \in pks(approvals), q \in tx'[t].seek : p < q => p \in tx'[t].seek
            /\ \A u \in Transactions : tx[u].at = "created" =>
                  \A q \in tx'[t].seek : q < tx[u].row.pk,
         tx'[t].at \in Semaphore => IsFirst(tx'[t].lock, pks(approvals)),
         tx'[t].at = "deleted" => tx'[t].lock = tx'[t].row.pk,
         \A u \in Transactions : u # t /\ tx[u].lock = tx'[t].lock => tx'[t].lock = 0,
         tx'[t].at = "created" =>
            /\ \A p \in pks(approvals) : p < tx'[t].row.pk
            /\ \A u \in Transactions : u # t /\ tx[u].at = "lock" =>
                  \A q \in tx[u].seek : q < tx'[t].row.pk
            /\ \A n \in Given : n < tx'[t].row.number,
         tx'[t].at \in {"seek2", "lock2", "read2"} => \A n \in numbers(approvals) : n <= tx'[t].last,
         tx'[t].at = "insert" => \A n \in Given : n < tx'[t].last
  PROVE  LockInv'
<1>1. pks(approvals)' = pks(approvals) /\ numbers(approvals)' = numbers(approvals)
      /\ Given' = Given /\ numbers(cancelled)' = numbers(cancelled)
  BY DEF pks, numbers, Given
<1>2. SeekOK'
  <2>1. \A u \in Transactions : tx[u].seek \subseteq Nat
    BY FieldTypes DEF LockInv, BaseInv
  <2>2. seqApprovals \in Nat
    BY DEF LockInv, BaseInv, TypeOK
  <2>3. \A u \in Transactions : u # t /\ tx[u].at = "lock" =>
          /\ Lasting \subseteq tx[u].seek
          /\ \A q \in tx[u].seek : q <= seqApprovals'
          /\ \A p \in pks(approvals), q \in tx[u].seek : p < q => p \in tx[u].seek
    BY <2>1, <2>2 DEF LockInv, SeekOK
  <2> QED BY <1>1, <2>3 DEF LockInv, SeekOK, Alone
<1>3. LockOK'
  BY <1>1 DEF LockInv, LockOK, Alone, IsFirst
<1>4. OrderOK'
  BY <1>1 DEF LockInv, OrderOK, Alone
<1>5. LastOK'
  <2>1. NoDuplicate'
    BY DEF LockInv, LastOK, NoDuplicate
  <2> QED BY <1>1, <2>1 DEF LockInv, LastOK, Alone
<1> QED BY <1>2, <1>3, <1>4, <1>5 DEF LockInv

LEMMA EndLock ==
  ASSUME LockInv, BaseInv', NEW t \in Transactions, Goes(t, Idle),
         UNCHANGED <<approvals, cancelled, seqApprovals>>
  PROVE  LockInv'
<1>1. seqApprovals \in Nat /\ seqApprovals <= seqApprovals' /\ seqApprovals' \in Nat
  BY DEF LockInv, BaseInv, TypeOK
<1>2. TypeOK
  BY DEF LockInv, BaseInv
<1> QED BY <1>1, <1>2, EndEffect, QuietLock DEF Semaphore

LEMMA SaveLock ==
  ASSUME LockInv, NEW t \in Transactions, Save(t) PROVE LockInv'
<1>1. TypeOK /\ BaseInv' /\ seqApprovals \in Nat
  BY SaveBase DEF LockInv, BaseInv, TypeOK
<1>2. \A p \in pks(approvals) : p <= seqApprovals
  BY DEF LockInv, BaseInv, KeysOK, pks
<1>3. UNCHANGED <<approvals, cancelled, seqApprovals>>
  BY DEF Save
<1>4. /\ Alone(t) /\ tx'[t].at = "lock" /\ tx'[t].seek = pks(approvals) /\ tx'[t].lock = 0
  BY <1>1, SaveEffect
<1>5. \A u \in Transactions : tx[u].at = "created" =>
         \A q \in tx'[t].seek : q < tx[u].row.pk
  BY <1>4 DEF LockInv, OrderOK
<1> QED BY <1>1, <1>2, <1>3, <1>4, <1>5, QuietLock DEF LockInv, SeekOK, Semaphore

(* There is always something to lock. *)
LEMMA LockNothingLock ==
  ASSUME LockInv, NEW t \in Transactions, LockNothing(t), Lasting # {} PROVE FALSE
  BY DEF LockInv, SeekOK, LockNothing

LEMMA LockLock ==
  ASSUME LockInv, NEW t \in Transactions, Lock(t) PROVE LockInv'
<1>1. TypeOK /\ BaseInv' /\ seqApprovals \in Nat
  BY LockBase DEF LockInv, BaseInv, TypeOK
<1>2. UNCHANGED <<approvals, cancelled, seqApprovals>> /\ tx[t].at = "lock"
  BY DEF Lock
<1>3. PICK pk \in tx[t].seek :
         /\ IsFirst(pk, tx[t].seek \intersect pks(approvals)) /\ Free(pk)
         /\ Alone(t)
         /\ tx'[t].at = "read" /\ tx'[t].lock = pk
  BY <1>1, LockEffect
<1>4. IsFirst(pk, pks(approvals))
  <2>1. pk \in pks(approvals) /\ \A p \in pks(approvals) : p < pk => p \in tx[t].seek
    BY <1>2, <1>3 DEF LockInv, SeekOK, IsFirst
  <2>2. pks(approvals) \subseteq Nat
    BY <1>1, TableTypes
  <2> QED BY <1>3, <2>1, <2>2 DEF IsFirst
<1> QED BY <1>1, <1>2, <1>3, <1>4, QuietLock DEF Free

LEMMA ReadApprovalsLock ==
  ASSUME LockInv, NEW t \in Transactions, ReadApprovals(t) PROVE LockInv'
<1>1. TypeOK /\ BaseInv' /\ seqApprovals \in Nat
  BY ReadApprovalsBase DEF LockInv, BaseInv, TypeOK
<1>2. UNCHANGED <<approvals, cancelled, seqApprovals>> /\ tx[t].at = "read"
  BY DEF ReadApprovals
<1>3. /\ Alone(t) /\ tx'[t].at = "seek2" /\ tx'[t].lock = tx[t].lock
      /\ \A n \in numbers(approvals) : n <= tx'[t].last
  BY <1>1, ReadApprovalsEffect DEF IsLast
<1> QED BY <1>1, <1>2, <1>3, QuietLock DEF LockInv, LockOK, Semaphore

LEMMA SeekCancelledLock ==
  ASSUME LockInv, NEW t \in Transactions, SeekCancelled(t) PROVE LockInv'
<1>1. TypeOK /\ BaseInv' /\ seqApprovals \in Nat
  BY SeekCancelledBase DEF LockInv, BaseInv, TypeOK
<1>2. UNCHANGED <<approvals, cancelled, seqApprovals>> /\ tx[t].at = "seek2"
  BY DEF SeekCancelled
<1>3. Alone(t) /\ tx'[t].at = "lock2" /\ tx'[t].lock = tx[t].lock /\ tx'[t].last = tx[t].last
  BY <1>1, SeekCancelledEffect
<1> QED BY <1>1, <1>2, <1>3, QuietLock DEF LockInv, LockOK, LastOK, Semaphore

LEMMA LockCancelledLock ==
  ASSUME LockInv, NEW t \in Transactions, LockCancelled(t) PROVE LockInv'
<1>1. TypeOK /\ BaseInv' /\ seqApprovals \in Nat
  BY LockCancelledBase DEF LockInv, BaseInv, TypeOK
<1>2. UNCHANGED <<approvals, cancelled, seqApprovals>> /\ tx[t].at = "lock2"
  BY DEF LockCancelled
<1>3. Alone(t) /\ tx'[t].at = "read2" /\ tx'[t].lock = tx[t].lock /\ tx'[t].last = tx[t].last
  BY <1>1, LockCancelledEffect
<1> QED BY <1>1, <1>2, <1>3, QuietLock DEF LockInv, LockOK, LastOK, Semaphore

LEMMA ReadCancelledLock ==
  ASSUME LockInv, NEW t \in Transactions, ReadCancelled(t) PROVE LockInv'
<1>1. TypeOK /\ BaseInv' /\ seqApprovals \in Nat
  BY ReadCancelledBase DEF LockInv, BaseInv, TypeOK
<1>2. UNCHANGED <<approvals, cancelled, seqApprovals>> /\ tx[t].at = "read2"
  BY DEF ReadCancelled
<1>3. CASE Goes(t, Idle)
  BY <1>1, <1>2, <1>3, EndLock
<1>4. CASE ~Goes(t, Idle)
  <2>1. PICK n \in {tx[t].last} \union numbers(cancelled) :
          /\ IsLast(n, {tx[t].last} \union numbers(cancelled))
          /\ Alone(t)
          /\ tx'[t].at = "insert" /\ tx'[t].lock = tx[t].lock /\ tx'[t].last = n + 1
    BY <1>1, <1>4, ReadCancelledEffect
  <2>2. n \in Int /\ tx[t].last \in Int
    BY <1>1, FieldTypes, TableTypes
  <2>3. \A m \in Given : m \in Int /\ m <= n
    <3>1. tx[t].last <= n /\ \A m \in numbers(cancelled) : m <= n
      BY <2>1 DEF IsLast
    <3>2. \A m \in numbers(approvals) : m <= tx[t].last
      BY <1>2 DEF LockInv, LastOK
    <3>3. numbers(approvals) \subseteq Int /\ numbers(cancelled) \subseteq Int
      BY <1>1, TableTypes
    <3>4. \A m \in numbers(approvals) : m <= n
      BY <2>2, <3>1, <3>2, <3>3
    <3> QED BY <3>1, <3>3, <3>4 DEF Given
  <2>4. \A m \in Given : m < tx'[t].last
    BY <2>1, <2>2, <2>3
  <2> QED BY <1>1, <1>2, <2>1, <2>4, QuietLock DEF LockInv, LockOK, Semaphore
<1> QED BY <1>3, <1>4

LEMMA DeleteLock ==
  ASSUME LockInv, NEW t \in Transactions, Delete(t) PROVE LockInv'
<1>1. TypeOK /\ BaseInv' /\ seqApprovals \in Nat
  BY DeleteBase DEF LockInv, BaseInv, TypeOK
<1>2. UNCHANGED <<approvals, cancelled, seqApprovals>>
  BY DEF Delete
<1>3. Alone(t) /\ tx'[t].at = "copy" /\ tx'[t].lock = 0
  BY <1>1, DeleteEffect
<1> QED BY <1>1, <1>2, <1>3, QuietLock DEF Semaphore

LEMMA CopyNumberLock ==
  ASSUME LockInv, NEW t \in Transactions, CopyNumber(t) PROVE LockInv'
<1>1. TypeOK /\ BaseInv' /\ seqApprovals \in Nat /\ tx[t].row \in Row
  BY CopyNumberBase DEF LockInv, BaseInv, TypeOK, CopiesOK, CopyNumber
<1>2. UNCHANGED <<approvals, cancelled, seqApprovals>> /\ tx[t].at = "copy"
  BY DEF CopyNumber
<1>3. CASE Goes(t, Idle)
  BY <1>1, <1>2, <1>3, EndLock
<1>4. CASE ~Goes(t, Idle)
  <2>1. Alone(t) /\ tx'[t].at = "delete" /\ tx'[t].lock = tx[t].lock
    BY <1>1, <1>4, CopyNumberEffect
  <2> QED BY <1>1, <1>2, <2>1, QuietLock DEF LockInv, LockOK, Semaphore
<1> QED BY <1>3, <1>4

LEMMA DeleteRowLock ==
  ASSUME LockInv, NEW t \in Transactions, DeleteRow(t) PROVE LockInv'
<1>1. TypeOK /\ BaseInv' /\ seqApprovals \in Nat
  BY DeleteRowBase DEF LockInv, BaseInv, TypeOK
<1>2. UNCHANGED <<approvals, cancelled, seqApprovals>> /\ Free(tx[t].row.pk)
  BY DEF DeleteRow
<1>3. Alone(t) /\ tx'[t].at = "deleted" /\ tx'[t].lock = tx[t].row.pk /\ tx'[t].row = tx[t].row
  BY <1>1, DeleteRowEffect
<1> QED BY <1>1, <1>2, <1>3, QuietLock DEF Free, Semaphore

LEMMA InsertLock ==
  ASSUME LockInv, NEW t \in Transactions, Insert(t) PROVE LockInv'
<1>1. TypeOK /\ BaseInv' /\ seqApprovals \in Nat /\ tx[t].last > 0
  <2>1. TypeOK /\ BaseInv' /\ seqApprovals \in Nat
    BY InsertBase DEF LockInv, BaseInv, TypeOK
  <2>2. tx[t].last > 0
    BY DEF LockInv, BaseInv, NumbersOK, Following, Insert
  <2> QED BY <2>1, <2>2
<1>2. UNCHANGED <<approvals, cancelled>> /\ tx[t].at = "insert"
  BY DEF Insert
<1>3. CASE Goes(t, Idle) /\ seqApprovals' = seqApprovals
  BY <1>1, <1>2, <1>3, EndLock
<1>4. CASE ~(Goes(t, Idle) /\ seqApprovals' = seqApprovals)
  <2>1. /\ seqApprovals' = seqApprovals + 1
        /\ Alone(t)
        /\ tx'[t].at = "created" /\ tx'[t].lock = tx[t].lock
        /\ tx'[t].row.pk = seqApprovals + 1 /\ tx'[t].row.number = tx[t].last
    BY <1>1, <1>4, InsertEffect
  <2>2. \A p \in pks(approvals) : p \in Nat /\ p <= seqApprovals
    BY <1>1, TableTypes DEF LockInv, BaseInv, KeysOK, pks
  <2>3. \A u \in Transactions : tx[u].at = "lock" =>
          \A q \in tx[u].seek : q \in Nat /\ q <= seqApprovals
    BY <1>1, FieldTypes DEF LockInv, SeekOK
  <2>4. PICK pk \in Nat : pk = seqApprovals + 1
    BY <1>1
  <2>5. /\ \A p \in pks(approvals) : p < pk
        /\ \A u \in Transactions : tx[u].at = "lock" => \A q \in tx[u].seek : q < pk
        /\ seqApprovals <= pk
    BY <1>1, <2>2, <2>3, <2>4
  <2>6. \A n \in Given : n < tx'[t].row.number
    BY <1>2, <2>1 DEF LockInv, LastOK
  <2>7. IsFirst(tx'[t].lock, pks(approvals))
        /\ \A u \in Transactions : u # t /\ tx[u].lock = tx'[t].lock => tx'[t].lock = 0
    BY <1>2, <2>1 DEF LockInv, LockOK, Semaphore
  <2> QED BY <1>1, <1>2, <2>1, <2>4, <2>5, <2>6, <2>7, QuietLock
<1> QED BY <1>3, <1>4

(* The number and the key of the new row are the greatest; nobody else     *)
(* computes a number.                                                      *)
LEMMA CommitSaveLock ==
  ASSUME LockInv, NEW t \in Transactions, CommitSave(t) PROVE LockInv'
<1>1. TypeOK /\ BaseInv' /\ BaseInv
  BY CommitSaveBase DEF LockInv, BaseInv
<1>2. PICK row \in Row : row = tx[t].row
  BY <1>1 DEF BaseInv, KeysOK, CommitSave
<1>3. /\ tx[t].at = "created"
      /\ approvals' = approvals \union {row}
      /\ UNCHANGED <<cancelled, seqApprovals>>
  BY <1>2 DEF CommitSave
<1>4. /\ Alone(t) /\ tx'[t].at = "idle" /\ tx'[t].lock = 0
  BY <1>1, EndEffect DEF CommitSave
<1>5. /\ \A p \in pks(approvals) : p < row.pk
      /\ \A u \in Transactions : tx[u].at = "lock" => \A q \in tx[u].seek : q < row.pk
      /\ \A n \in Given : n < row.number
      /\ tx[t].lock \in pks(approvals)
      /\ row.pk \in Nat /\ row.number \in Int
  BY <1>2, <1>3 DEF LockInv, OrderOK, LastOK, LockOK, Semaphore, IsFirst, Row
<1>6. \A u \in Transactions : u # t => tx'[u].at \notin Semaphore
  BY <1>3, <1>4, OneAtATime DEF Serialised, Semaphore, Alone
<1>7. /\ pks(approvals)' = pks(approvals) \union {row.pk}
      /\ numbers(approvals)' = numbers(approvals) \union {row.number}
      /\ numbers(cancelled)' = numbers(cancelled)
  BY <1>3 DEF pks, numbers
<1>8. SeekOK'
  <2>1. \A u \in Transactions : tx[u].seek \subseteq Nat
    BY <1>1, FieldTypes
  <2>2. \A u \in Transactions : tx[u].at = "lock" => \A q \in tx[u].seek : ~(row.pk < q)
    BY <1>5, <2>1
  <2>3. \A u \in Transactions : tx'[u].at = "lock" => tx'[u] = tx[u]
    BY <1>4 DEF Alone
  <2>4. Lasting \subseteq pks(approvals)'
    BY <1>7 DEF LockInv, SeekOK
  <2>5. ASSUME NEW u \in Transactions, tx'[u].at = "lock"
        PROVE  /\ Lasting \subseteq tx'[u].seek
               /\ \A q \in tx'[u].seek : q <= seqApprovals'
               /\ \A p \in pks(approvals)', q \in tx'[u].seek : p < q => p \in tx'[u].seek
    <3>1. tx'[u] = tx[u] /\ tx[u].at = "lock"
      BY <2>3, <2>5
    <3>2. /\ Lasting \subseteq tx[u].seek
          /\ \A q \in tx[u].seek : q <= seqApprovals
          /\ \A p \in pks(approvals), q \in tx[u].seek : p < q => p \in tx[u].seek
      BY <3>1 DEF LockInv, SeekOK
    <3> QED BY <1>3, <1>7, <2>2, <3>1, <3>2
  <2> QED BY <2>4, <2>5 DEF SeekOK
<1>9. LockOK'
  BY <1>4, <1>6 DEF LockInv, LockOK, Alone, Semaphore
<1>10. OrderOK'
  BY <1>4, <1>6 DEF OrderOK, Semaphore
<1>11. LastOK'
  <2>1. NoDuplicate'
    <3>1. \A a \in approvals \union cancelled : a.number # row.number
      BY <1>5 DEF Given, numbers
    <3> QED BY <1>3, <3>1 DEF LockInv, LastOK, NoDuplicate
  <2> QED BY <1>4, <1>6, <2>1 DEF LastOK, Semaphore
<1> QED BY <1>1, <1>8, <1>9, <1>10, <1>11 DEF LockInv

(* The first row is not deleted while its lock is held.                    *)
LEMMA CommitDeleteLock ==
  ASSUME LockInv, NEW t \in Transactions, CommitDelete(t) PROVE LockInv'
<1>1. TypeOK /\ BaseInv /\ BaseInv'
  BY CommitDeleteBase DEF LockInv, BaseInv
<1>2. PICK row : row = tx[t].row
  OBVIOUS
<1>3. /\ approvals' = approvals \ {row} /\ Given' = Given
      /\ tx[t].at = "deleted" /\ row \in approvals /\ row \in Row /\ row.pk \notin Lasting
      /\ cancelled' = cancelled \union {tx[t].copy}
      /\ tx[t].copy.number = row.number /\ row.number \notin numbers(cancelled)
      /\ UNCHANGED seqApprovals
  BY <1>1, <1>2, CommitDeleteBase DEF BaseInv, CopiesOK, CommitDelete
<1>4. /\ Alone(t) /\ tx'[t].at = "idle" /\ tx'[t].lock = 0
  BY <1>1, EndEffect DEF CommitDelete
<1>5. pks(approvals)' = pks(approvals) \ {row.pk}
  BY <1>1, <1>3 DEF pks, BaseInv, KeysOK
<1>6. numbers(approvals)' \subseteq numbers(approvals)
  BY <1>3 DEF numbers
<1>7. tx[t].lock = row.pk /\ row.pk # 0
  BY <1>2, <1>3 DEF LockInv, LockOK, Row
<1>8. SeekOK'
  BY <1>3, <1>4, <1>5 DEF LockInv, SeekOK, Alone
<1>9. LockOK'
  <2>1. \A u \in Transactions : u # t /\ tx[u].at \in Semaphore => IsFirst(tx[u].lock, pks(approvals)')
    BY <1>5, <1>7 DEF LockInv, LockOK, IsFirst
  <2> QED BY <1>4, <2>1 DEF LockInv, LockOK, Alone, Semaphore, IsFirst
<1>10. OrderOK'
  BY <1>4, <1>5 DEF LockInv, OrderOK, Alone
<1>11. LastOK'
  <2>1. NoDuplicate'
    <3>1. \A a \in approvals' : a \in approvals /\ a.number # row.number
      BY <1>3 DEF LockInv, LastOK, NoDuplicate
    <3>2. \A c \in cancelled : c.number # row.number
      BY <1>3 DEF numbers
    <3> QED BY <1>3, <3>1, <3>2 DEF LockInv, LastOK, NoDuplicate
  <2> QED BY <1>3, <1>4, <1>6, <2>1 DEF LockInv, LastOK, Alone
<1> QED BY <1>1, <1>8, <1>9, <1>10, <1>11 DEF LockInv

LEMMA LockNext ==
  ASSUME Lasting # {}
  PROVE  LockInv /\ [Next]_vars => LockInv'
<1> SUFFICES ASSUME LockInv, [Next]_vars PROVE LockInv'
  OBVIOUS
<1>0. BaseInv'
  BY BaseNext DEF LockInv
<1>1. CASE UNCHANGED vars
  <2>1. UNCHANGED <<approvals, cancelled, seqApprovals, seqCancelled, tx, faults>>
    BY <1>1 DEF vars
  <2> QED BY <1>0, <2>1 DEF LockInv, SeekOK, LockOK, OrderOK, LastOK, NoDuplicate, Given, IsFirst,
                      pks, numbers
<1>2. CASE Next
  <2>1. PICK t \in Transactions : Save(t) \/ Delete(t) \/ Proceed(t) \/ Rollback(t)
    BY <1>2 DEF Next
  <2>2. CASE Save(t) \/ Delete(t)
    BY <2>2, SaveLock, DeleteLock
  <2>3. CASE Proceed(t)
    BY <2>3, LockNothingLock, LockLock, ReadApprovalsLock, SeekCancelledLock, LockCancelledLock,
       ReadCancelledLock, InsertLock, CommitSaveLock, CopyNumberLock, DeleteRowLock,
       CommitDeleteLock DEF Proceed
  <2>4. CASE Rollback(t)
    BY <1>0, <2>4, EndLock DEF Rollback
  <2> QED BY <2>1, <2>2, <2>3, <2>4
<1> QED BY <1>1, <1>2

THEOREM LockSafe ==
  ASSUME Lasting # {}
  PROVE  Spec => []LockInv
  BY LockInit, LockNext, PTL DEF Spec

(* get_next_number() is a semaphore as soon as some approval is never      *)
(* deleted: from the lock to the commit, one transaction at a time.        *)
THEOREM NumberingSerialised ==
  ASSUME Lasting # {}
  PROVE  Spec => []Serialised
  BY OneAtATime, LockSafe, PTL

(* Then no number is given twice, neither to two approvals nor to an       *)
(* approval and a cancelled one.                                           *)
THEOREM NumbersAreUnique ==
  ASSUME Lasting # {}
  PROVE  Spec => []NoDuplicate
<1>1. LockInv => NoDuplicate
  BY DEF LockInv, LastOK
<1> QED BY <1>1, LockSafe, PTL

-----------------------------------------------------------------------------
(* Deadlocks.  What a transaction holds, it holds at the stages where it   *)
(* waits for less than those who wait for it: no lock needs to last.       *)
HoldsInOrder(v) ==
    /\ v.lock # 0 => v.at \in Semaphore \union {"deleted"}
    /\ v.lock2 # 0 => v.at \in {"read2", "insert", "created"}
    /\ v.copy.number # 0 => v.at \in {"delete", "deleted"}
    /\ v.at = "lock2" => 0 \notin v.seek

OrderInv == BaseInv /\ \A t \in Transactions : HoldsInOrder(tx[t])

(* Who waits has more stages before it than the one it waits for.          *)
Rank(at) ==
    CASE at \in {"lock", "copy"} -> 4
      [] at = "delete" -> 3
      [] at = "lock2" -> 2
      [] at = "insert" -> 1
      [] OTHER -> 0

LEMMA IdleHoldsNothing == HoldsInOrder(Idle)
  BY IdleFields DEF HoldsInOrder, NoRow

LEMMA OrderGoes ==
  ASSUME OrderInv, NEW t \in Transactions, NEW v \in Transaction, Goes(t, v), HoldsInOrder(v)
  PROVE  \A u \in Transactions : HoldsInOrder(tx'[u])
<1>1. Alone(t) /\ tx'[t] = v
  BY GoesTo DEF OrderInv, BaseInv, TypeOK
<1> QED
  BY <1>1 DEF Alone, OrderInv

(* The steps that move on within a transaction.                            *)
LEMMA OrderMoves ==
  ASSUME OrderInv, NEW t \in Transactions,
         LockNothing(t) \/ Lock(t) \/ ReadApprovals(t) \/ SeekCancelled(t) \/ LockCancelled(t)
         \/ ReadCancelled(t)
  PROVE  \E v \in Transaction : Goes(t, v) /\ HoldsInOrder(v)
<1>1. /\ tx[t] \in Transaction /\ HoldsInOrder(tx[t])
      /\ pks(approvals) \subseteq Nat \ {0} /\ pks(cancelled) \subseteq Nat \ {0}
  BY FieldTypes, TableTypes DEF OrderInv, BaseInv
<1>2. CASE LockNothing(t)
  <2>1. PICK v : v = [tx[t] EXCEPT !.at = "read", !.seek = {}]
    OBVIOUS
  <2>2. v \in Transaction /\ HoldsInOrder(v)
    BY <1>1, <1>2, <2>1 DEF LockNothing, Transaction, Stage, Semaphore, HoldsInOrder
  <2> QED  BY <1>2, <2>1, <2>2 DEF LockNothing
<1>3. CASE Lock(t)
  <2>1. PICK pk \in tx[t].seek :
            Goes(t, [tx[t] EXCEPT !.at = "read", !.seek = {}, !.lock = pk])
    BY <1>3 DEF Lock
  <2>2. PICK v : v = [tx[t] EXCEPT !.at = "read", !.seek = {}, !.lock = pk]
    OBVIOUS
  <2>3. v \in Transaction /\ HoldsInOrder(v)
    BY <1>1, <1>3, <2>2 DEF Lock, Transaction, Stage, Semaphore, HoldsInOrder
  <2> QED  BY <2>1, <2>2, <2>3
<1>4. CASE ReadApprovals(t)
  <2>1. PICK n \in {0} \union numbers(approvals) : Goes(t, [tx[t] EXCEPT !.at = "seek2", !.last = n])
    BY <1>4 DEF ReadApprovals
  <2>2. PICK v : v = [tx[t] EXCEPT !.at = "seek2", !.last = n]
    OBVIOUS
  <2>3. n \in Int
    BY TableTypes DEF OrderInv, BaseInv
  <2>4. v \in Transaction /\ HoldsInOrder(v)
    BY <1>1, <1>4, <2>2, <2>3 DEF ReadApprovals, Transaction, Stage, Semaphore, HoldsInOrder
  <2> QED  BY <2>1, <2>2, <2>4
<1>5. CASE SeekCancelled(t)
  <2>1. PICK v : v = [tx[t] EXCEPT !.at = "lock2", !.seek = pks(cancelled)]
    OBVIOUS
  <2>2. v \in Transaction /\ HoldsInOrder(v)
    BY <1>1, <1>5, <2>1 DEF SeekCancelled, Transaction, Stage, Semaphore, HoldsInOrder
  <2> QED  BY <1>5, <2>1, <2>2 DEF SeekCancelled
<1>6. CASE LockCancelled(t)
  <2>1. \/ Goes(t, [tx[t] EXCEPT !.at = "read2"])
        \/ \E pk \in tx[t].seek : Goes(t, [tx[t] EXCEPT !.at = "read2", !.seek = {}, !.lock2 = pk])
    BY <1>6 DEF LockCancelled
  <2>2. CASE Goes(t, [tx[t] EXCEPT !.at = "read2"])
    <3>1. PICK v : v = [tx[t] EXCEPT !.at = "read2"]
      OBVIOUS
    <3>2. v \in Transaction /\ HoldsInOrder(v)
      BY <1>1, <1>6, <3>1 DEF LockCancelled, Transaction, Stage, Semaphore, HoldsInOrder
    <3> QED  BY <2>2, <3>1, <3>2
  <2>3. ASSUME NEW pk \in tx[t].seek,
               Goes(t, [tx[t] EXCEPT !.at = "read2", !.seek = {}, !.lock2 = pk])
        PROVE  \E v \in Transaction : Goes(t, v) /\ HoldsInOrder(v)
    <3>1. PICK v : v = [tx[t] EXCEPT !.at = "read2", !.seek = {}, !.lock2 = pk]
      OBVIOUS
    <3>2. v \in Transaction /\ HoldsInOrder(v)
      BY <1>1, <1>6, <3>1 DEF LockCancelled, Transaction, Stage, Semaphore, HoldsInOrder
    <3> QED  BY <2>3, <3>1, <3>2
  <2> QED  BY <2>1, <2>2, <2>3
<1>7. CASE ReadCancelled(t)
  <2>1. PICK n \in {tx[t].last} \union numbers(cancelled) :
            Goes(t, IF n + 1 > MaxNumber THEN Idle
                    ELSE [tx[t] EXCEPT !.at = "insert", !.last = n + 1])
    BY <1>7 DEF ReadCancelled
  <2>2. PICK v : v = [tx[t] EXCEPT !.at = "insert", !.last = n + 1]
    OBVIOUS
  <2>3. n \in Int
    BY <1>1, TableTypes DEF OrderInv, BaseInv, Transaction
  <2>4. v \in Transaction /\ HoldsInOrder(v)
    <3>1. tx[t].at = "read2"
      BY <1>7 DEF ReadCancelled
    <3>2. n + 1 \in Int
      BY <2>3
    <3> QED  BY <1>1, <2>2, <3>1, <3>2 DEF Transaction, Stage, Semaphore, HoldsInOrder
  <2>5. Goes(t, Idle) \/ Goes(t, v)
    BY <2>1, <2>2
  <2> QED  BY <2>4, <2>5, IdleFields, IdleHoldsNothing
<1> QED
  BY <1>2, <1>3, <1>4, <1>5, <1>6, <1>7

(* The steps that begin, write and end.                                    *)
LEMMA OrderWrites ==
  ASSUME OrderInv, NEW t \in Transactions,
         Save(t) \/ Delete(t) \/ Insert(t) \/ CommitSave(t) \/ CopyNumber(t) \/ DeleteRow(t)
         \/ CommitDelete(t) \/ Rollback(t)
  PROVE  \E v \in Transaction : Goes(t, v) /\ HoldsInOrder(v)
<1>1. /\ tx[t] \in Transaction /\ HoldsInOrder(tx[t])
      /\ pks(approvals) \subseteq Nat \ {0}
      /\ seqApprovals \in Nat /\ seqCancelled \in Nat
  BY FieldTypes, TableTypes DEF OrderInv, BaseInv, TypeOK
<1>2. CASE Save(t)
  <2>1. PICK v : v = [Idle EXCEPT !.at = "lock", !.seek = pks(approvals)]
    OBVIOUS
  <2>2. /\ v.at = "lock" /\ v.lock = 0 /\ v.lock2 = 0 /\ v.copy = NoRow
        /\ v \in Transaction
    BY <1>1, <2>1, IdleFields DEF Idle, Transaction, Stage
  <2>3. HoldsInOrder(v)
    BY <2>2 DEF HoldsInOrder, NoRow
  <2> QED  BY <1>2, <2>1, <2>2, <2>3 DEF Save
<1>3. CASE Delete(t)
  <2>1. PICK row \in approvals : Goes(t, [Idle EXCEPT !.at = "copy", !.row = row])
    BY <1>3 DEF Delete
  <2>2. PICK v : v = [Idle EXCEPT !.at = "copy", !.row = row]
    OBVIOUS
  <2>3. row \in Row
    BY DEF OrderInv, BaseInv, TypeOK
  <2>4. /\ v.at = "copy" /\ v.lock = 0 /\ v.lock2 = 0 /\ v.copy = NoRow
        /\ v \in Transaction
    BY <2>2, <2>3, IdleFields DEF Idle, Transaction, Stage
  <2>5. HoldsInOrder(v)
    BY <2>4 DEF HoldsInOrder, NoRow
  <2> QED  BY <2>1, <2>2, <2>4, <2>5
<1>4. CASE Insert(t) /\ tx[t].last \notin numbers(approvals)
  <2>1. PICK row : row = [pk |-> seqApprovals + 1, number |-> tx[t].last]
    OBVIOUS
  <2>2. PICK v : v = [tx[t] EXCEPT !.at = "created", !.row = row]
    OBVIOUS
  <2>3. row \in Row
    <3>1. tx[t].last \in Int \ {0}
      BY <1>1, <1>4 DEF Insert, OrderInv, BaseInv, NumbersOK, Following, Transaction
    <3> QED  BY <1>1, <2>1, <3>1 DEF Row
  <2>4. v \in Transaction /\ HoldsInOrder(v)
    BY <1>1, <1>4, <2>2, <2>3 DEF Insert, Transaction, Stage, Semaphore, HoldsInOrder
  <2> QED  BY <1>4, <2>1, <2>2, <2>4 DEF Insert
<1>5. CASE CopyNumber(t) /\ tx[t].row.number \notin numbers(cancelled)
  <2>1. PICK row : row = [pk |-> seqCancelled + 1, number |-> tx[t].row.number]
    OBVIOUS
  <2>2. PICK v : v = [tx[t] EXCEPT !.at = "delete", !.copy = row]
    OBVIOUS
  <2>3. row \in Row
    <3>1. tx[t].row \in Row
      BY <1>5 DEF CopyNumber, OrderInv, BaseInv, CopiesOK
    <3> QED  BY <1>1, <2>1, <3>1 DEF Row
  <2>4. v \in Transaction /\ HoldsInOrder(v)
    BY <1>1, <1>5, <2>2, <2>3 DEF CopyNumber, Transaction, Stage, Semaphore, HoldsInOrder
  <2> QED  BY <1>5, <2>1, <2>2, <2>4 DEF CopyNumber
<1>6. CASE DeleteRow(t)
  <2>1. PICK v : v = [tx[t] EXCEPT !.at = "deleted", !.lock = tx[t].row.pk]
    OBVIOUS
  <2>2. v \in Transaction /\ HoldsInOrder(v)
    BY <1>1, <1>6, <2>1, FieldTypes
       DEF DeleteRow, Transaction, Stage, Semaphore, HoldsInOrder, OrderInv, BaseInv
  <2> QED  BY <1>6, <2>1, <2>2 DEF DeleteRow
<1>7. CASE Goes(t, Idle)
  BY <1>7, IdleFields, IdleHoldsNothing
<1> QED
  BY <1>2, <1>3, <1>4, <1>5, <1>6, <1>7 DEF Insert, CommitSave, CopyNumber, CommitDelete, Rollback

LEMMA OrderNext == OrderInv /\ [Next]_vars => OrderInv'
<1> SUFFICES ASSUME OrderInv, [Next]_vars PROVE OrderInv'
  OBVIOUS
<1>1. BaseInv'
  BY BaseNext DEF OrderInv
<1>2. CASE UNCHANGED vars
  BY <1>1, <1>2 DEF vars, OrderInv
<1>3. CASE Next
  <2>1. PICK t \in Transactions : Save(t) \/ Delete(t) \/ Proceed(t) \/ Rollback(t)
    BY <1>3 DEF Next
  <2>2. \E v \in Transaction : Goes(t, v) /\ HoldsInOrder(v)
    BY <2>1, OrderMoves, OrderWrites DEF Proceed
  <2> QED  BY <1>1, <2>2, OrderGoes DEF OrderInv
<1> QED
  BY <1>2, <1>3

LEMMA OrderInit == Init => OrderInv
  BY BaseInit, IdleHoldsNothing DEF Init, OrderInv

(* Whoever is waited for is at work, and closer to its end.                *)
LEMMA WaitingDescends ==
  ASSUME OrderInv, NEW t \in Transactions, NEW u \in Transactions, WaitsFor(t, u)
  PROVE  tx[u].at # "idle" /\ Rank(tx[u].at) < Rank(tx[t].at)
<1>1. HoldsInOrder(tx[t]) /\ HoldsInOrder(tx[u])
  BY DEF OrderInv
<1>2. CASE tx[t].at = "lock"
  <2>1. tx[u].lock # 0
    BY <1>2, TableTypes DEF WaitsFor, IsFirst, OrderInv, BaseInv
  <2> QED  BY <1>1, <1>2, <2>1 DEF HoldsInOrder, Semaphore, Rank
<1>3. CASE tx[t].at = "lock2"
  <2>1. tx[u].lock2 # 0
    BY <1>1, <1>3 DEF WaitsFor, HoldsInOrder
  <2> QED  BY <1>1, <1>3, <2>1 DEF HoldsInOrder, Rank
<1>4. CASE tx[t].at = "insert"
  BY <1>4 DEF WaitsFor, Rank
<1>5. CASE tx[t].at = "copy"
  <2>1. tx[u].copy.number # 0
    BY <1>5 DEF WaitsFor, OrderInv, BaseInv, CopiesOK, Row
  <2> QED  BY <1>1, <1>5, <2>1 DEF HoldsInOrder, Rank
<1>6. CASE tx[t].at = "delete"
  <2>1. tx[u].lock # 0
    BY <1>6 DEF WaitsFor, OrderInv, BaseInv, CopiesOK, Row
  <2> QED  BY <1>1, <1>6, <2>1 DEF HoldsInOrder, Semaphore, Rank
<1> QED
  BY <1>2, <1>3, <1>4, <1>5, <1>6 DEF WaitsFor

LEMMA OrderInvImplies == OrderInv => NoDeadlock
<1> SUFFICES ASSUME OrderInv, NEW S \in SUBSET Transactions, S # {}
             PROVE  \E t \in S : \A u \in Transactions :
                        WaitsFor(t, u) => u \notin S /\ tx[u].at # "idle"
  BY DEF NoDeadlock
<1>1. \A u \in Transactions : Rank(tx[u].at) \in 0 .. 4
  BY DEF Rank
<1>2. PICK t \in S : \A u \in S : Rank(tx[t].at) <= Rank(tx[u].at)
  <2> DEFINE R(u) == Rank(tx[u].at)
  <2>1. \A u \in S : R(u) \in 0 .. 4
    BY <1>1
  <2>2. \E t \in S : \A u \in S : R(t) <= R(u)
    <3> HIDE DEF R
    <3> QED
      BY <2>1
  <2> QED
    BY <2>2
<1>3. ASSUME NEW u \in Transactions, WaitsFor(t, u)
      PROVE  u \notin S /\ tx[u].at # "idle"
  <2>1. t \in Transactions /\ Rank(tx[t].at) \in Int /\ Rank(tx[u].at) \in Int
    BY <1>1
  <2>2. tx[u].at # "idle" /\ Rank(tx[u].at) < Rank(tx[t].at)
    BY <1>3, <2>1, WaitingDescends
  <2> QED
    BY <1>2, <2>1, <2>2
<1> QED
  BY <1>3

(* For any number of transactions and any contents of the tables, without  *)
(* any lock that lasts: no transactions that save and cancel approvals     *)
(* wait for each other (get_next_number() and Approval.delete() take their *)
(* locks in different orders).                                             *)
THEOREM NumberingNeverDeadlocks == Spec => []NoDeadlock
  BY OrderInit, OrderNext, OrderInvImplies, PTL DEF Spec

-----------------------------------------------------------------------------
(* The tables are an atomic counter.                                       *)

LEMMA CounterInit == Init => P!Init
  BY NumberingAssumption DEF Init, P!Init, numbers, Row

LEMMA CounterStutters ==
  ASSUME UNCHANGED <<approvals, cancelled>>
  PROVE  UNCHANGED <<numbers(approvals), numbers(cancelled)>>
  BY DEF numbers

LEMMA CommitIssues ==
  ASSUME LockInv, NEW t \in Transactions, CommitSave(t) PROVE P!Issue
<1>1. PICK n \in Nat \ {0} : n = tx[t].row.number
  BY DEF LockInv, BaseInv, NumbersOK, CommitSave, Following
<1>2. /\ n = 1 \/ n - 1 \in Given
      /\ \A m \in Given : m < n
  BY <1>1 DEF LockInv, LastOK, BaseInv, NumbersOK, CommitSave, Following
<1>3. P!Given = Given
  BY DEF P!Given, Given
<1>4. P!Follows(n, P!Given)
  BY <1>1, <1>2, <1>3 DEF P!Follows
<1>5. numbers(approvals)' = numbers(approvals) \union {n} /\ numbers(cancelled)' = numbers(cancelled)
  BY <1>1 DEF CommitSave, numbers
<1>6. n \in {1} \union {m + 1 : m \in P!Given}
  BY <1>1, <1>2, <1>3
<1> QED BY <1>4, <1>5, <1>6 DEF P!Issue

LEMMA CommitCancels ==
  ASSUME LockInv, NEW t \in Transactions, CommitDelete(t) PROVE P!Cancel
<1>1. PICK row \in approvals : row = tx[t].row
  BY DEF LockInv, BaseInv, CopiesOK, CommitDelete
<1>2. /\ approvals' = approvals \ {row}
      /\ cancelled' = cancelled \union {tx[t].copy}
      /\ tx[t].copy.number = row.number
  BY <1>1, CommitDeleteBase DEF LockInv, BaseInv, CopiesOK, CommitDelete
<1>3. \A a \in approvals : a.number = row.number => a = row
  BY <1>1 DEF LockInv, LastOK, NoDuplicate
<1>4. numbers(approvals)' = numbers(approvals) \ {row.number}
  BY <1>2, <1>3 DEF numbers
<1>5. numbers(cancelled)' = numbers(cancelled) \union {row.number}
  BY <1>2 DEF numbers
<1>6. row.number \in numbers(approvals)
  BY DEF numbers
<1> QED BY <1>4, <1>5, <1>6 DEF P!Cancel

LEMMA CounterNext ==
  ASSUME LockInv, [Next]_vars
  PROVE  [P!Next]_<<numbers(approvals), numbers(cancelled)>>
<1>1. CASE UNCHANGED vars
  BY <1>1, CounterStutters DEF vars
<1>2. CASE Next
  <2>1. PICK t \in Transactions : Save(t) \/ Delete(t) \/ Proceed(t) \/ Rollback(t)
    BY <1>2 DEF Next
  <2>2. CASE CommitSave(t)
    BY <2>2, CommitIssues DEF P!Next
  <2>3. CASE CommitDelete(t)
    BY <2>3, CommitCancels DEF P!Next
  <2>4. CASE ~CommitSave(t) /\ ~CommitDelete(t)
    <3>1. UNCHANGED <<approvals, cancelled>>
      BY <2>1, <2>4 DEF Save, Delete, Proceed, Rollback, LockNothing, Lock, ReadApprovals,
         SeekCancelled, LockCancelled, ReadCancelled, Insert, CopyNumber, DeleteRow
    <3> QED BY <3>1, CounterStutters
  <2> QED BY <2>2, <2>3, <2>4
<1> QED BY <1>1, <1>2

(* The transactions implement the atomic counter of PassNumbers: what a    *)
(* reader of the two tables sees is one number after the other, and        *)
(* cancelled numbers that stay.                                            *)
THEOREM NumberingIsACounter ==
  ASSUME Lasting # {}
  PROVE  Spec => Counter
<1>1. LockInv /\ [Next]_vars => [P!Next]_<<numbers(approvals), numbers(cancelled)>>
  BY CounterNext
<1>2. Spec => Counter
  BY <1>1, CounterInit, LockSafe, PTL DEF Spec, Counter, P!Spec
<1> QED BY <1>2
=============================================================================
