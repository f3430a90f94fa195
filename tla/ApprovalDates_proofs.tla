------------------------ MODULE ApprovalDates_proofs ------------------------
(***************************************************************************)
(* Proofs about ApprovalDates: the types, the answers given to the         *)
(* requests of prolongation, and what postponing an approval may not lose. *)
(***************************************************************************)
EXTENDS ApprovalDates, TLAPS

(* No row looks like the absence of a row.                                 *)
LEMMA AbsentIsNoRow == Absent \notin Period \union Prolongation \union Request
  BY DEF Absent, Period, Prolongation, Request

(* Requests of prolongation are never deleted: what is about to be         *)
(* answered is there.                                                      *)
AnswersExist ==
    \A w \in Sessions :
        session[w].op \in {"grant", "deny"} => session[w].key \in Exist(requests)

(* What a request is about to write, by operation.                         *)
LEMMA SessionFields ==
  ASSUME NEW s \in Session
  PROVE  /\ s.op \in {"suspend", "update"} => s.row \in Period
         /\ s.op \in {"update", "delete"} => s.key \in Suspensions
         /\ s.op = "prolong" => s.row \in Prolongation
         /\ s.op = "request" => s.row \in Request
         /\ s.op \in {"grant", "deny"} => s.key \in Requests
         /\ s.op = "accept" => s \in Accepting
         /\ s.op = "edit" => s \in Editing
         /\ s.op = "idle" => s = Idle
  BY DEF Session, Accepting, Editing, Idle

(* The triggers only move the end of the approval.                         *)
LEMMA WrittenMovesTheEnd ==
  ASSUME NEW dates \in Period,
         NEW old \in Period \union Prolongation \union {Absent},
         NEW new \in Period \union Prolongation \union {Absent}
  PROVE  Written(dates, old, new) \in Period /\ Written(dates, old, new).start = dates.start
<1>1. ASSUME NEW row \in Period \union Prolongation \union {Absent} PROVE DaysOf(row) \in Int
  BY AbsentIsNoRow DEF DaysOf, Duration, Period, Prolongation
<1>2. DaysOf(new) - DaysOf(old) \in Int
  BY <1>1
<1> QED
  BY <1>2 DEF Written, Shifted, Period

LEMMA DefaultDates ==
  ASSUME NEW start \in Int
  PROVE  Dates(start) \in Period
  BY DatesAssumption DEF Dates, DefaultEnd, Period

LEMMA RowsOfSuspensions ==
  ASSUME TypeOK, NEW row \in SuspensionRows
  PROVE  row \in Period
  BY DatesAssumption DEF TypeOK, SuspensionRows, Period
-----------------------------------------------------------------------------
(* A step of a request: every part of the state keeps its type.            *)
LEMMA BeginTypeOK ==
  ASSUME TypeOK, NEW w \in Sessions,
         BeginSuspend(w) \/ BeginUpdate(w) \/ BeginDelete(w) \/ BeginAccept(w)
         \/ BeginEdit(w) \/ BeginProlong(w) \/ BeginAnswer(w)
  PROVE  TypeOK'
<1> SUFFICES ASSUME NEW s \in Session, session' = [session EXCEPT ![w] = s],
                    UNCHANGED <<today, hired, pass, rows, overwritten>>
             PROVE  TypeOK'
  <2>1. CASE BeginSuspend(w)
    <3>1. PICK row \in SuspensionRows :
              session' = [session EXCEPT ![w] = [op |-> "suspend", row |-> row]]
      BY <2>1 DEF BeginSuspend
    <3>2. [op |-> "suspend", row |-> row] \in Session
      BY <3>1, RowsOfSuspensions DEF Session
    <3> QED  BY <2>1, <3>1, <3>2 DEF BeginSuspend
  <2>2. CASE BeginUpdate(w)
    <3>1. PICK s \in SuspensionsInProgress, row \in SuspensionRows :
              session' = [session EXCEPT ![w] = [op |-> "update", key |-> s, row |-> row]]
      BY <2>2 DEF BeginUpdate
    <3>2. s \in Suspensions
      BY <3>1 DEF SuspensionsInProgress, Exist, TypeOK
    <3>3. [op |-> "update", key |-> s, row |-> row] \in Session
      BY <3>2, RowsOfSuspensions DEF Session
    <3> QED  BY <2>2, <3>1, <3>3 DEF BeginUpdate
  <2>3. CASE BeginDelete(w)
    <3>1. PICK s \in SuspensionsInProgress :
              session' = [session EXCEPT ![w] = [op |-> "delete", key |-> s]]
      BY <2>3 DEF BeginDelete
    <3>2. [op |-> "delete", key |-> s] \in Session
      BY <3>1 DEF SuspensionsInProgress, Exist, TypeOK, Session
    <3> QED  BY <2>3, <3>1, <3>2 DEF BeginDelete
  <2>4. CASE BeginAccept(w)
    <3>1. PICK h \in today .. today + MaxPostpone, s \in SuspensionsInProgress \union {NoKey} :
              session' = [session EXCEPT ![w] =
                [op |-> "accept", hired |-> h,
                 moves |-> IF pass.start > h /\ CanPostponeStartDate THEN pass ELSE Absent,
                 lifts |-> s,
                 until |-> IF s = NoKey \/ suspensions[s].start = h THEN Absent
                           ELSE [suspensions[s] EXCEPT !.end = h - 1]]]
      BY <2>4 DEF BeginAccept
    <3> DEFINE moves == IF pass.start > h /\ CanPostponeStartDate THEN pass ELSE Absent
               until == IF s = NoKey \/ suspensions[s].start = h THEN Absent
                        ELSE [suspensions[s] EXCEPT !.end = h - 1]
    <3>2. h \in Int
      BY DatesAssumption DEF TypeOK
    <3>3. moves \in Period \union {Absent}
      BY DEF TypeOK
    <3>4. s \in Suspensions \union {NoKey}
      BY DEF SuspensionsInProgress, Exist, TypeOK
    <3>5. s # NoKey => suspensions[s] \in Period
      BY DEF SuspensionsInProgress, Exist, TypeOK
    <3>6. until \in Period \union {Absent}
      BY <3>2, <3>5 DEF Period
    <3>7. [op |-> "accept", hired |-> h, moves |-> moves, lifts |-> s, until |-> until]
              \in Accepting
      BY <3>2, <3>3, <3>4, <3>6 DEF Accepting
    <3> QED  BY <2>4, <3>1, <3>7 DEF BeginAccept, Session
  <2>5. CASE BeginEdit(w)
    <3>1. PICK h \in today .. today + MaxPostpone :
              session' = [session EXCEPT ![w] =
                [op |-> "edit", hired |-> h,
                 moves |-> IF CanPostponeStartDate THEN pass ELSE Absent]]
      BY <2>5 DEF BeginEdit
    <3>2. h \in Int
      BY DatesAssumption DEF TypeOK
    <3>3. [op |-> "edit", hired |-> h, moves |-> IF CanPostponeStartDate THEN pass ELSE Absent]
              \in Editing
      BY <3>2 DEF Editing, TypeOK
    <3> QED  BY <2>5, <3>1, <3>3 DEF BeginEdit, Session
  <2>6. CASE BeginProlong(w)
    <3>1. PICK reason \in Reasons, n \in 1 .. Horizon :
              session' = [session EXCEPT ![w] =
                IF reason \in Direct
                THEN [op |-> "prolong",
                      row |-> [start |-> pass.end, end |-> pass.end + n, reason |-> reason,
                               request |-> NoKey]]
                ELSE [op |-> "request",
                      row |-> [start |-> pass.end, end |-> pass.end + n, reason |-> reason,
                               status |-> "PENDING", information |-> FALSE]]]
      BY <2>6 DEF BeginProlong
    <3>2. pass.end \in Int /\ pass.end + n \in Int
      BY DatesAssumption DEF TypeOK, Period
    <3>3. [start |-> pass.end, end |-> pass.end + n, reason |-> reason, request |-> NoKey]
              \in Prolongation
      BY <3>2 DEF Prolongation
    <3>4. [start |-> pass.end, end |-> pass.end + n, reason |-> reason,
           status |-> "PENDING", information |-> FALSE] \in Request
      BY <3>2 DEF Request
    <3> QED  BY <2>6, <3>1, <3>3, <3>4 DEF BeginProlong, Session
  <2>7. CASE BeginAnswer(w)
    <3>1. PICK r \in Exist(requests), answer \in {"grant", "deny"} :
              session' = [session EXCEPT ![w] = [op |-> answer, key |-> r]]
      BY <2>7 DEF BeginAnswer
    <3>2. [op |-> answer, key |-> r] \in Session
      BY <3>1 DEF Exist, TypeOK, Session
    <3> QED  BY <2>7, <3>1, <3>2 DEF BeginAnswer
  <2> QED  BY <2>1, <2>2, <2>3, <2>4, <2>5, <2>6, <2>7
<1> QED
  BY DEF TypeOK, rows

(* The dates that an acceptance or a change of contract saves.             *)
LEMMA SavedDatesType ==
  ASSUME TypeOK, NEW tx \in Accepting \union Editing
  PROVE  SavedDates(tx) \in Period
<1>1. tx.hired \in Int
  BY DEF Accepting, Editing
<1> QED
  BY <1>1, DefaultDates DEF SavedDates, TypeOK

(* A suspension that is written, and one that is deleted.                  *)
LEMMA SaveSuspensionType ==
  ASSUME TypeOK, NEW s \in Suspensions, NEW row \in Period, NEW dates \in Period,
         SaveSuspension(s, row, dates)
  PROVE  /\ pass' \in Period /\ pass'.start = dates.start
         /\ suspensions' \in [Suspensions -> Period \union {Absent}]
<1>1. suspensions[s] \in Period \union {Absent}
  BY DEF TypeOK
<1> QED
  BY <1>1, WrittenMovesTheEnd DEF SaveSuspension, TypeOK

LEMMA DropSuspensionType ==
  ASSUME TypeOK, NEW s \in Suspensions, NEW dates \in Period, DropSuspension(s, dates)
  PROVE  /\ pass' \in Period /\ pass'.start = dates.start
         /\ suspensions' \in [Suspensions -> Period \union {Absent}]
<1>1. suspensions[s] \in Period \union {Absent}
  BY DEF TypeOK
<1> QED
  BY <1>1, WrittenMovesTheEnd DEF DropSuspension, TypeOK

LEMMA InsertProlongationType ==
  ASSUME TypeOK, NEW row \in Prolongation, InsertProlongation(row)
  PROVE  /\ pass' \in Period /\ pass'.start = pass.start
         /\ prolongations' \in [Prolongations -> Prolongation \union {Absent}]
<1>1. pass \in Period
  BY DEF TypeOK
<1>2. pass' \in Period /\ pass'.start = pass.start
  BY <1>1, WrittenMovesTheEnd DEF InsertProlongation
<1>3. PICK p \in Prolongations \ Exist(prolongations) :
          prolongations' = [prolongations EXCEPT ![p] = row]
  BY DEF InsertProlongation
<1> QED
  BY <1>2, <1>3 DEF TypeOK

LEMMA FromRequestType ==
  ASSUME TypeOK, NEW r \in Requests, requests[r] \in Request
  PROVE  FromRequest(r) \in Prolongation /\ FromRequest(r).request = r
  BY DEF FromRequest, Request, Prolongation

(* What an acceptance does to the dates and to the suspensions.            *)
LEMMA AcceptType ==
  ASSUME TypeOK, NEW w \in Sessions, CommitAccept(w)
  PROVE  /\ session[w] \in Accepting
         /\ session[w].lifts = NoKey =>
               pass' = SavedDates(session[w]) /\ UNCHANGED suspensions
         /\ pass' \in Period /\ pass'.start = SavedDates(session[w]).start
         /\ suspensions' \in [Suspensions -> Period \union {Absent}]
<1> DEFINE tx == session[w]
<1>1. tx \in Accepting
  BY SessionFields DEF CommitAccept, TypeOK
<1>2. SavedDates(tx) \in Period
  BY <1>1, SavedDatesType
<1>3. CASE tx.lifts = NoKey
  BY <1>1, <1>2, <1>3 DEF CommitAccept, TypeOK
<1>4. CASE tx.lifts # NoKey /\ tx.until = Absent
  <2>1. tx.lifts \in Suspensions /\ DropSuspension(tx.lifts, SavedDates(tx))
    BY <1>1, <1>4 DEF CommitAccept, Accepting
  <2> QED
    BY <1>1, <1>2, <1>4, <2>1, DropSuspensionType
<1>5. CASE tx.lifts # NoKey /\ tx.until # Absent
  <2>1. tx.lifts \in Suspensions /\ tx.until \in Period
    BY <1>1, <1>5 DEF Accepting
  <2>2. SaveSuspension(tx.lifts, tx.until, SavedDates(tx))
    BY <1>5 DEF CommitAccept
  <2> QED
    BY <1>1, <1>2, <1>5, <2>1, <2>2, SaveSuspensionType
<1> QED
  BY <1>3, <1>4, <1>5

LEMMA CommitTypeOK ==
  ASSUME TypeOK, AnswersExist, NEW w \in Sessions,
         CommitSuspend(w) \/ CommitUpdate(w) \/ CommitDelete(w) \/ CommitAccept(w)
         \/ CommitEdit(w) \/ CommitProlong(w) \/ CommitRequest(w) \/ CommitGrant(w)
         \/ CommitDeny(w) \/ Rollback(w)
  PROVE  TypeOK'
<1> USE DEF TypeOK
<1>1. session[w] \in Session
  OBVIOUS
<1>2. session' = [session EXCEPT ![w] = Idle]
  BY DEF CommitSuspend, CommitUpdate, CommitDelete, CommitAccept, CommitEdit, CommitProlong,
         CommitRequest, CommitGrant, CommitDeny, Rollback
<1>3. session' \in [Sessions -> Session]
  BY <1>2 DEF Session
<1>4. CASE CommitSuspend(w)
  <2>1. session[w].row \in Period
    BY <1>1, <1>4, SessionFields DEF CommitSuspend
  <2>2. pass' \in Period
    BY <1>4, <2>1, WrittenMovesTheEnd DEF CommitSuspend
  <2>3. PICK s \in Suspensions : suspensions' = [suspensions EXCEPT ![s] = session[w].row]
    BY <1>4 DEF CommitSuspend
  <2> QED  BY <1>3, <1>4, <2>1, <2>2, <2>3 DEF CommitSuspend
<1>5. CASE CommitUpdate(w)
  <2>1. session[w].row \in Period /\ session[w].key \in Suspensions
    BY <1>1, <1>5, SessionFields DEF CommitUpdate
  <2>2. pass' \in Period /\ suspensions' \in [Suspensions -> Period \union {Absent}]
    BY <1>5, <2>1, SaveSuspensionType DEF CommitUpdate
  <2> QED  BY <1>3, <1>5, <2>2 DEF CommitUpdate
<1>6. CASE CommitDelete(w)
  <2>1. session[w].key \in Suspensions
    BY <1>1, <1>6, SessionFields DEF CommitDelete
  <2>2. pass' \in Period /\ suspensions' \in [Suspensions -> Period \union {Absent}]
    BY <1>6, <2>1, DropSuspensionType DEF CommitDelete
  <2> QED  BY <1>3, <1>6, <2>2 DEF CommitDelete
<1>7. CASE CommitAccept(w)
  <2>1. session[w].hired \in Int
    BY <1>7, AcceptType DEF Accepting
  <2>2. overwritten' \in BOOLEAN /\ hired' \in Int
    BY <1>7, <2>1 DEF CommitAccept
  <2> QED  BY <1>3, <1>7, <2>2, AcceptType DEF CommitAccept
<1>8. CASE CommitEdit(w)
  <2>1. session[w] \in Editing
    BY <1>1, <1>8, SessionFields DEF CommitEdit
  <2>2. pass' \in Period /\ hired' \in Int
    BY <1>8, <2>1, SavedDatesType DEF CommitEdit, Editing
  <2> QED  BY <1>3, <1>8, <2>2 DEF CommitEdit, rows
<1>9. CASE CommitProlong(w)
  <2>1. session[w].row \in Prolongation
    BY <1>1, <1>9, SessionFields DEF CommitProlong
  <2> QED  BY <1>3, <1>9, <2>1, InsertProlongationType DEF CommitProlong
<1>10. CASE CommitRequest(w)
  <2>1. session[w].row \in Request
    BY <1>1, <1>10, SessionFields DEF CommitRequest
  <2>2. PICK r \in Requests : requests' = [requests EXCEPT ![r] = session[w].row]
    BY <1>10 DEF CommitRequest
  <2> QED  BY <1>3, <1>10, <2>1, <2>2 DEF CommitRequest
<1>11. CASE Rollback(w)
  BY <1>3, <1>11 DEF Rollback, rows
<1>12. CASE CommitGrant(w)
  <2> DEFINE r == session[w].key
  <2>1. r \in Requests /\ requests[r] \in Request
    BY <1>1, <1>12 DEF CommitGrant, AnswersExist, Exist
  <2>2. /\ pass' \in Period
        /\ prolongations' \in [Prolongations -> Prolongation \union {Absent}]
    BY <1>12, <2>1, FromRequestType, InsertProlongationType DEF CommitGrant
  <2>3. [requests[r] EXCEPT !.status = "GRANTED"] \in Request
    BY <2>1 DEF Request
  <2>4. requests' = [requests EXCEPT ![r] = [requests[r] EXCEPT !.status = "GRANTED"]]
    BY <1>12 DEF CommitGrant
  <2>5. requests' \in [Requests -> Request \union {Absent}]
    BY <2>1, <2>3, <2>4
  <2> QED  BY <1>3, <1>12, <2>2, <2>5 DEF CommitGrant
<1>13. CASE CommitDeny(w)
  <2> DEFINE r == session[w].key
             row == [requests[r] EXCEPT !.status = "DENIED", !.information = TRUE]
  <2>1. r \in Requests /\ requests[r] \in Request
    BY <1>1, <1>13 DEF CommitDeny, AnswersExist, Exist
  <2>2. row \in Request
    BY <2>1 DEF Request
  <2>3. requests' = [requests EXCEPT ![r] = row]
    BY <1>13, <2>1 DEF CommitDeny, Denied
  <2>4. requests' \in [Requests -> Request \union {Absent}]
    BY <2>1, <2>2, <2>3
  <2> QED  BY <1>3, <1>13, <2>4 DEF CommitDeny
<1> QED
  BY <1>4, <1>5, <1>6, <1>7, <1>8, <1>9, <1>10, <1>11, <1>12, <1>13
-----------------------------------------------------------------------------
(* The steps of the requests, by what they do to the table of the requests *)
(* of prolongation.                                                        *)
Begins(w) ==
    BeginSuspend(w) \/ BeginUpdate(w) \/ BeginDelete(w) \/ BeginAccept(w)
    \/ BeginEdit(w) \/ BeginProlong(w) \/ BeginAnswer(w)
Commits(w) ==
    CommitSuspend(w) \/ CommitUpdate(w) \/ CommitDelete(w) \/ CommitAccept(w)
    \/ CommitEdit(w) \/ CommitProlong(w) \/ CommitRequest(w) \/ CommitGrant(w)
    \/ CommitDeny(w) \/ Rollback(w)

LEMMA Steps ==
  ASSUME Next
  PROVE  Tick \/ \E w \in Sessions : Begins(w) \/ Commits(w)
  BY DEF Next, Begins, Commits

(* A request that commits, or is rolled back, is over.                     *)
LEMMA CommitEnds ==
  ASSUME NEW w \in Sessions, Commits(w)
  PROVE  session' = [session EXCEPT ![w] = Idle] /\ UNCHANGED today
  BY DEF Commits, CommitSuspend, CommitUpdate, CommitDelete, CommitAccept, CommitEdit,
         CommitProlong, CommitRequest, CommitGrant, CommitDeny, Rollback

(* A request that begins changes nothing but what it holds.                *)
LEMMA BeginHolds ==
  ASSUME NEW w \in Sessions, Begins(w)
  PROVE  /\ UNCHANGED <<today, hired, pass, suspensions, prolongations, requests, overwritten>>
         /\ \E s : session' = [session EXCEPT ![w] = s]
  BY DEF Begins, BeginSuspend, BeginUpdate, BeginDelete, BeginAccept, BeginEdit, BeginProlong,
         BeginAnswer, rows

(* A denied or granted request stays in its table.                         *)
LEMMA StillARequest ==
  ASSUME TypeOK, NEW r \in Exist(requests)
  PROVE  /\ r \in Requests
         /\ [requests[r] EXCEPT !.status = "GRANTED"] # Absent
         /\ [requests[r] EXCEPT !.status = "DENIED", !.information = TRUE] # Absent
<1>1. r \in Requests /\ requests[r] \in Request
  BY DEF TypeOK, Exist
<1>2. /\ [requests[r] EXCEPT !.status = "GRANTED"] \in Request
      /\ [requests[r] EXCEPT !.status = "DENIED", !.information = TRUE] \in Request
  BY <1>1 DEF Request
<1> QED
  BY <1>1, <1>2, AbsentIsNoRow

LEMMA RequestsRemain ==
  ASSUME TypeOK, AnswersExist, Next
  PROVE  Exist(requests) \subseteq Exist(requests')
<1> SUFFICES ASSUME NEW r \in Exist(requests) PROVE r \in Exist(requests')
  OBVIOUS
<1>1. r \in Requests /\ requests[r] # Absent /\ requests \in [Requests -> Request \union {Absent}]
  BY DEF TypeOK, Exist
<1>2. CASE UNCHANGED requests
  BY <1>2
<1>3. ASSUME NEW w \in Sessions, CommitRequest(w) PROVE r \in Exist(requests')
  <2>1. PICK q \in Requests \ Exist(requests) :
            requests' = [requests EXCEPT ![q] = session[w].row]
    BY <1>3 DEF CommitRequest
  <2> QED  BY <1>1, <2>1 DEF Exist
<1>4. ASSUME NEW w \in Sessions, CommitGrant(w) PROVE r \in Exist(requests')
  <2>1. requests' = [requests EXCEPT ![session[w].key] =
                        [requests[session[w].key] EXCEPT !.status = "GRANTED"]]
    BY <1>4 DEF CommitGrant
  <2> QED  BY <1>1, <2>1, StillARequest DEF Exist
<1>5. ASSUME NEW w \in Sessions, CommitDeny(w) PROVE r \in Exist(requests')
  <2>1. session[w].key \in Exist(requests)
    BY <1>5 DEF CommitDeny, AnswersExist
  <2>2. requests' = [requests EXCEPT ![session[w].key] =
            [requests[session[w].key] EXCEPT !.status = "DENIED", !.information = TRUE]]
    BY <1>1, <1>5, <2>1 DEF CommitDeny, Denied, Exist
  <2> QED  BY <1>1, <2>2, StillARequest DEF Exist
<1>6. ASSUME NEW w \in Sessions, Begins(w) \/ Commits(w),
             ~CommitRequest(w), ~CommitGrant(w), ~CommitDeny(w)
      PROVE  UNCHANGED requests
  BY <1>6, BeginHolds DEF Commits, CommitSuspend, CommitUpdate, CommitDelete, CommitAccept,
         CommitEdit, CommitProlong, Rollback, rows
<1>7. Tick => UNCHANGED requests
  BY DEF Tick, rows
<1> QED
  BY <1>2, <1>3, <1>4, <1>5, <1>6, <1>7, Steps

(* The types, with the one fact they need about the requests.              *)
TypeInv == TypeOK /\ AnswersExist

LEMMA TypeInvInit ==
  ASSUME Init PROVE TypeInv
<1>1. hired \in Int /\ pass \in Period
  BY DatesAssumption, DefaultDates DEF Init
<1>2. session \in [Sessions -> Session]
  BY DEF Init, Session
<1>3. AnswersExist
  BY DEF Init, AnswersExist, Idle
<1> QED
  BY <1>1, <1>2, <1>3 DEF Init, TypeInv, TypeOK

LEMMA TypeInvNext ==
  ASSUME TypeInv, [Next]_vars PROVE TypeInv'
<1> USE DEF TypeInv
<1>1. CASE UNCHANGED vars
  BY <1>1 DEF vars, TypeOK, AnswersExist
<1>2. CASE Next
  <2>1. TypeOK'
    <3>1. CASE Tick
      BY <3>1 DEF Tick, TypeOK, rows
    <3>2. ASSUME NEW w \in Sessions, Begins(w) \/ Commits(w) PROVE TypeOK'
      BY <3>2, BeginTypeOK, CommitTypeOK DEF Begins, Commits
    <3> QED  BY <1>2, <3>1, <3>2, Steps
  <2>2. SUFFICES ASSUME NEW w \in Sessions, session'[w].op \in {"grant", "deny"}
                 PROVE  session'[w].key \in Exist(requests')
    BY <2>1 DEF AnswersExist
  <2>3. session \in [Sessions -> Session]
    BY DEF TypeOK
  <2>4. CASE session'[w] = session[w]
    BY <1>2, <2>2, <2>4, RequestsRemain DEF AnswersExist
  <2>5. CASE session'[w] # session[w]
    <3>1. ~Tick
      BY <2>5 DEF Tick
    <3>2. PICK v \in Sessions : Begins(v) \/ Commits(v)
      BY <1>2, <3>1, Steps
    <3>3. v = w
      BY <2>3, <2>5, <3>2, BeginHolds, CommitEnds
    <3>4. ~Commits(w)
      BY <2>2, <2>3, CommitEnds DEF Idle
    <3>5. BeginAnswer(w)
      BY <2>2, <2>3, <3>2, <3>3, <3>4 DEF Begins, BeginSuspend, BeginUpdate, BeginDelete,
         BeginAccept, BeginEdit, BeginProlong
    <3>6. PICK r \in Exist(requests), answer \in {"grant", "deny"} :
              session' = [session EXCEPT ![w] = [op |-> answer, key |-> r]]
      BY <3>5 DEF BeginAnswer
    <3> QED  BY <1>2, <2>3, <3>6, RequestsRemain
  <2> QED  BY <2>4, <2>5
<1> QED
  BY <1>1, <1>2

(* Whatever the requests that overlap, every variable keeps its type: no   *)
(* trigger or stale copy leaves a date or a status the tables do not know. *)
THEOREM DatesTypeCorrect == Spec => []TypeOK
<1>1. TypeInv => TypeOK
  BY DEF TypeInv
<1> QED
  BY <1>1, TypeInvInit, TypeInvNext, PTL DEF Spec
-----------------------------------------------------------------------------
(* The answers given to the requests of prolongation.                      *)
Granted(r) == \E p \in Exist(prolongations) : prolongations[p].request = r

Answered(r) ==
    /\ requests[r].status = "GRANTED" => Granted(r)
    /\ requests[r].status = "DENIED" => requests[r].information
    /\ requests[r].status = "PENDING" => ~Granted(r) /\ ~requests[r].information

(* A prolongation comes from a request that is there, or from none.        *)
LinksExist ==
    \A p \in Exist(prolongations) :
        prolongations[p].request # NoKey => prolongations[p].request \in Exist(requests)

(* What is about to be inserted is new: it has been answered by nobody.    *)
InsertsAreNew ==
    \A w \in Sessions :
        /\ session[w].op = "prolong" => session[w].row.request = NoKey
        /\ session[w].op = "request" =>
              session[w].row.status = "PENDING" /\ ~session[w].row.information

AnswersInv ==
    /\ TypeInv
    /\ \A r \in Exist(requests) : Answered(r)
    /\ LinksExist
    /\ InsertsAreNew

LEMMA AnswersInvImpliesDecided ==
  ASSUME AnswersInv PROVE Decided
<1> SUFFICES ASSUME NEW r \in Exist(requests)
             PROVE  CASE requests[r].status = "GRANTED" -> Granted(r)
                      [] requests[r].status = "DENIED" -> requests[r].information
                      [] requests[r].status = "PENDING" ->
                            ~Granted(r) /\ ~requests[r].information
  BY DEF Decided, Granted
<1>1. requests[r] \in Request
  BY DEF AnswersInv, TypeInv, TypeOK, Exist
<1>2. requests[r].status \in {"PENDING", "GRANTED", "DENIED"}
  BY <1>1 DEF Request
<1> QED
  BY <1>2 DEF AnswersInv, Answered

(* A step writes the two tables in four ways: not at all, with a           *)
(* prolongation, with a request, or with an answer.                        *)
LEMMA TablesUntouched ==
  ASSUME AnswersInv, NEW w \in Sessions, Begins(w) \/ Commits(w),
         ~CommitProlong(w), ~CommitRequest(w), ~CommitGrant(w), ~CommitDeny(w)
  PROVE  UNCHANGED <<prolongations, requests>>
  BY BeginHolds DEF Commits, CommitSuspend, CommitUpdate, CommitDelete, CommitAccept,
         CommitEdit, Rollback, rows

LEMMA TablesUnchanged ==
  ASSUME AnswersInv, UNCHANGED <<prolongations, requests>>
  PROVE  LinksExist' /\ \A r \in Exist(requests') : Answered(r)'
  BY DEF AnswersInv, LinksExist, Answered, Granted

(* A prolongation that is inserted.                                        *)
LEMMA InsertedProlongation ==
  ASSUME TypeOK, NEW row \in Prolongation, InsertProlongation(row)
  PROVE  /\ \E p \in Exist(prolongations') : prolongations'[p] = row
         /\ \A p \in Exist(prolongations) :
                p \in Exist(prolongations') /\ prolongations'[p] = prolongations[p]
         /\ \A p \in Exist(prolongations') :
                prolongations'[p] = row
                \/ (p \in Exist(prolongations) /\ prolongations'[p] = prolongations[p])
<1>1. PICK p \in Prolongations \ Exist(prolongations) :
          prolongations' = [prolongations EXCEPT ![p] = row]
  BY DEF InsertProlongation
<1>2. row # Absent
  BY AbsentIsNoRow
<1>3. /\ prolongations \in [Prolongations -> Prolongation \union {Absent}]
      /\ DOMAIN prolongations' = Prolongations
  BY <1>1 DEF TypeOK
<1>4. prolongations'[p] = row /\ p \in Exist(prolongations')
  BY <1>1, <1>2, <1>3 DEF Exist
<1>5. ASSUME NEW k \in Prolongations \ {p} PROVE prolongations'[k] = prolongations[k]
  BY <1>1, <1>3
<1>6. DOMAIN prolongations = Prolongations /\ p \notin Exist(prolongations)
  BY <1>1, <1>3
<1>7. ASSUME NEW k \in Exist(prolongations)
      PROVE  k \in Exist(prolongations') /\ prolongations'[k] = prolongations[k]
  BY <1>3, <1>5, <1>6 DEF Exist
<1>8. ASSUME NEW k \in Exist(prolongations')
      PROVE  prolongations'[k] = row
             \/ (k \in Exist(prolongations) /\ prolongations'[k] = prolongations[k])
  BY <1>3, <1>4, <1>5, <1>6 DEF Exist
<1> QED
  BY <1>4, <1>7, <1>8

LEMMA ProlongAnswers ==
  ASSUME AnswersInv, NEW w \in Sessions, CommitProlong(w)
  PROVE  LinksExist' /\ \A r \in Exist(requests') : Answered(r)'
<1> DEFINE row == session[w].row
<1>1. TypeOK /\ UNCHANGED requests
  BY DEF AnswersInv, TypeInv, CommitProlong
<1>2. row \in Prolongation /\ row.request = NoKey /\ InsertProlongation(row)
  BY <1>1, SessionFields DEF CommitProlong, AnswersInv, InsertsAreNew, TypeOK
<1>3. LinksExist'
  BY <1>1, <1>2, InsertedProlongation DEF AnswersInv, LinksExist
<1>4. ASSUME NEW r \in Exist(requests) PROVE Granted(r)' <=> Granted(r)
  <2>1. r # NoKey
    BY <1>1, DatesAssumption DEF TypeOK, Exist
  <2> QED
    BY <1>1, <1>2, <2>1, InsertedProlongation DEF Granted
<1>5. ASSUME NEW r \in Exist(requests) PROVE Answered(r)'
  BY <1>1, <1>4, <1>5 DEF AnswersInv, Answered
<1> QED
  BY <1>1, <1>3, <1>5

LEMMA RequestAnswers ==
  ASSUME AnswersInv, NEW w \in Sessions, CommitRequest(w)
  PROVE  LinksExist' /\ \A r \in Exist(requests') : Answered(r)'
<1>1. /\ TypeOK /\ UNCHANGED prolongations
      /\ requests \in [Requests -> Request \union {Absent}]
  BY DEF AnswersInv, TypeInv, TypeOK, CommitRequest
<1>2. /\ session[w].row \in Request
      /\ session[w].row.status = "PENDING" /\ ~session[w].row.information
  BY <1>1, SessionFields DEF CommitRequest, AnswersInv, InsertsAreNew, TypeOK
<1>3. PICK q \in Requests \ Exist(requests) :
          requests' = [requests EXCEPT ![q] = session[w].row]
  BY DEF CommitRequest
<1>4. session[w].row # Absent
  BY <1>2, AbsentIsNoRow
<1>5. Exist(requests') = Exist(requests) \union {q}
  BY <1>1, <1>3, <1>4 DEF Exist
<1>6. LinksExist'
  BY <1>1, <1>5 DEF AnswersInv, LinksExist
<1>7. ~Granted(q)'
  <2>1. q # NoKey /\ q \notin Exist(requests)
    BY <1>3, DatesAssumption
  <2> QED
    BY <1>1, <2>1 DEF AnswersInv, LinksExist, Granted
<1>8. requests'[q] = session[w].row
  BY <1>1, <1>3
<1>9. Answered(q)'
  BY <1>2, <1>7, <1>8 DEF Answered
<1>10. ASSUME NEW r \in Exist(requests) PROVE Answered(r)'
  <2>1. requests'[r] = requests[r]
    BY <1>1, <1>3 DEF Exist
  <2> QED
    BY <1>1, <2>1 DEF AnswersInv, Answered, Granted
<1> QED
  BY <1>5, <1>6, <1>9, <1>10

LEMMA GrantAnswers ==
  ASSUME AnswersInv, NEW w \in Sessions, CommitGrant(w)
  PROVE  LinksExist' /\ \A r \in Exist(requests') : Answered(r)'
<1>1. /\ TypeOK /\ AnswersExist
      /\ requests \in [Requests -> Request \union {Absent}]
  BY DEF AnswersInv, TypeInv, TypeOK
<1>2. PICK q \in Exist(requests) :
          q = session[w].key /\ q \in Requests /\ requests[q] \in Request
  BY <1>1 DEF CommitGrant, AnswersExist, Exist
<1>3. InsertProlongation(FromRequest(q)) /\ FromRequest(q) \in Prolongation
  BY <1>1, <1>2, FromRequestType DEF CommitGrant
<1>4. FromRequest(q).request = q
  BY <1>1, <1>2, FromRequestType
<1>5. requests' = [requests EXCEPT ![q] = [requests[q] EXCEPT !.status = "GRANTED"]]
  BY <1>2 DEF CommitGrant
<1>6. /\ requests'[q].status = "GRANTED"
      /\ \A r \in Requests \ {q} : requests'[r] = requests[r]
  BY <1>1, <1>2, <1>5 DEF Request
<1>7. Exist(requests') = Exist(requests)
  BY <1>1, <1>2, <1>5, StillARequest DEF Exist
<1>8. LinksExist'
  BY <1>1, <1>2, <1>3, <1>4, <1>7, InsertedProlongation DEF AnswersInv, LinksExist
<1>9. Granted(q)'
  BY <1>1, <1>3, <1>4, InsertedProlongation DEF Granted
<1>10. Answered(q)'
  BY <1>6, <1>9 DEF Answered
<1>11. ASSUME NEW r \in Exist(requests) \ {q} PROVE Answered(r)'
  <2>1. Granted(r)' <=> Granted(r)
    BY <1>1, <1>3, <1>4, InsertedProlongation DEF Granted
  <2>2. requests'[r] = requests[r]
    BY <1>1, <1>6 DEF Exist
  <2> QED
    BY <2>1, <2>2 DEF AnswersInv, Answered
<1> QED
  BY <1>7, <1>8, <1>10, <1>11

LEMMA DenyAnswers ==
  ASSUME AnswersInv, NEW w \in Sessions, CommitDeny(w)
  PROVE  LinksExist' /\ \A r \in Exist(requests') : Answered(r)'
<1>1. /\ TypeOK /\ AnswersExist /\ UNCHANGED prolongations
      /\ requests \in [Requests -> Request \union {Absent}]
  BY DEF AnswersInv, TypeInv, TypeOK, CommitDeny
<1>2. PICK q \in Exist(requests) :
          q = session[w].key /\ q \in Requests /\ requests[q] \in Request
  BY <1>1 DEF CommitDeny, AnswersExist, Exist
<1> DEFINE row == [requests[q] EXCEPT !.status = "DENIED", !.information = TRUE]
<1>3. requests' = [requests EXCEPT ![q] = row]
  BY <1>1, <1>2 DEF CommitDeny, Denied
<1>4. row.status = "DENIED" /\ row.information = TRUE
  BY <1>2 DEF Request
<1>5. Exist(requests') = Exist(requests)
  BY <1>1, <1>2, <1>3, StillARequest DEF Exist
<1>6. LinksExist'
  BY <1>1, <1>5 DEF AnswersInv, LinksExist
<1>7. Answered(q)'
  BY <1>1, <1>2, <1>3, <1>4 DEF Answered
<1>8. ASSUME NEW r \in Exist(requests) \ {q} PROVE Answered(r)'
  <2>1. requests'[r] = requests[r]
    BY <1>1, <1>3 DEF Exist
  <2> QED
    BY <1>1, <2>1 DEF AnswersInv, Answered, Granted
<1> QED
  BY <1>5, <1>6, <1>7, <1>8

LEMMA InsertsStayNew ==
  ASSUME AnswersInv, [Next]_vars PROVE InsertsAreNew'
<1>1. session \in [Sessions -> Session]
  BY DEF AnswersInv, TypeInv, TypeOK
<1> SUFFICES ASSUME NEW v \in Sessions, session'[v] # session[v]
             PROVE  /\ session'[v].op = "prolong" => session'[v].row.request = NoKey
                    /\ session'[v].op = "request" =>
                        session'[v].row.status = "PENDING" /\ ~session'[v].row.information
  BY DEF AnswersInv, InsertsAreNew
<1>2. ~Tick /\ Next
  BY DEF Tick, vars
<1>3. PICK w \in Sessions : Begins(w) \/ Commits(w)
  BY <1>2, Steps
<1>4. v = w
  BY <1>1, <1>3, BeginHolds, CommitEnds
<1>5. CASE Commits(w)
  BY <1>1, <1>4, <1>5, CommitEnds DEF Idle
<1>6. CASE BeginProlong(w)
  BY <1>1, <1>4, <1>6 DEF BeginProlong
<1>7. CASE Begins(w) /\ ~BeginProlong(w)
  BY <1>1, <1>4, <1>7 DEF Begins, BeginSuspend, BeginUpdate, BeginDelete, BeginAccept,
     BeginEdit, BeginAnswer
<1> QED
  BY <1>3, <1>5, <1>6, <1>7

LEMMA AnswersInvNext ==
  ASSUME AnswersInv, [Next]_vars PROVE AnswersInv'
<1>1. TypeInv'
  BY TypeInvNext DEF AnswersInv
<1>2. LinksExist' /\ \A r \in Exist(requests') : Answered(r)'
  <2>1. CASE UNCHANGED vars \/ Tick
    BY <2>1, TablesUnchanged DEF vars, Tick, rows
  <2>2. ASSUME NEW w \in Sessions, Begins(w) \/ Commits(w)
        PROVE  LinksExist' /\ \A r \in Exist(requests') : Answered(r)'
    BY <2>2, TablesUntouched, TablesUnchanged, ProlongAnswers, RequestAnswers, GrantAnswers,
       DenyAnswers
  <2> QED
    BY <2>1, <2>2, Steps
<1> QED
  BY <1>1, <1>2, InsertsStayNew DEF AnswersInv

LEMMA AnswersInvInit ==
  ASSUME Init PROVE AnswersInv
<1>1. Exist(requests) = {} /\ Exist(prolongations) = {}
  BY DEF Init, Exist
<1>2. InsertsAreNew
  BY DEF Init, InsertsAreNew, Idle
<1> QED
  BY <1>1, <1>2, TypeInvInit DEF AnswersInv, LinksExist

(* However the answers of prescribers overlap, or are given again: a       *)
(* granted request has its prolongation, a denied one its information, and *)
(* a pending one neither (ProlongationRequest.grant and deny).             *)
THEOREM RequestsAreDecided == Spec => []Decided
  BY AnswersInvInit, AnswersInvNext, AnswersInvImpliesDecided, PTL DEF Spec
-----------------------------------------------------------------------------
(* The dates.  What a request has seen when it began still holds when it   *)
(* commits, unless dates have been saved from a stale copy.                *)
Begun == overwritten \/ pass.start <= today

Seen(tx) ==
    /\ tx.op \in {"suspend", "update", "delete", "prolong", "request", "grant", "deny"} => Begun
    /\ tx.op \in {"accept", "edit"} /\ tx.moves # Absent => tx.moves.start > today
    /\ tx.op = "accept" /\ tx.lifts # NoKey => Begun

UnstartedIsDefault == ~Begun => Bare /\ pass.end = DefaultEnd(pass.start)

DatesInv ==
    /\ TypeInv
    /\ UnstartedIsDefault
    /\ \A w \in Sessions : Seen(session[w])

LEMMA DatesInvImplies ==
  ASSUME DatesInv PROVE UnstartedIsBare
  BY DEF DatesInv, TypeInv, TypeOK, Period, UnstartedIsDefault, UnstartedIsBare, Begun

(* A row can only be there once the approval has begun.                    *)
LEMMA RowsMeanBegun ==
  ASSUME DatesInv
  PROVE  /\ SuspensionsInProgress # {} => Begun
         /\ Exist(requests) # {} => Begun
         /\ InProgress(pass) => Begun
         /\ OpenToProlongation => Begun
<1>1. SuspensionsInProgress # {} => Begun
  BY DEF DatesInv, UnstartedIsDefault, Bare, SuspensionsInProgress
<1>2. Exist(requests) # {} => Begun
  BY DEF DatesInv, UnstartedIsDefault, Bare
<1>3. InProgress(pass) => Begun
  BY DEF InProgress, Begun
<1>4. ASSUME OpenToProlongation PROVE Begun
  <2>1. pass.start \in Int /\ pass.end \in Int /\ today \in Nat
    BY DEF DatesInv, TypeInv, TypeOK, Period
  <2>2. pass.end - OpenDays <= today
    BY <1>4 DEF OpenToProlongation
  <2>3. SUFFICES ASSUME ~Begun PROVE FALSE
    OBVIOUS
  <2>4. pass.end = pass.start + DefaultDays - 1
    BY <2>3 DEF DatesInv, UnstartedIsDefault, DefaultEnd
  <2>5. pass.start > today
    BY <2>1, <2>3 DEF Begun
  <2> QED
    BY <2>1, <2>2, <2>4, <2>5, DatesAssumption
<1> QED
  BY <1>1, <1>2, <1>3, <1>4

(* What a request begins with is what it has seen.                         *)
LEMMA BeginSees ==
  ASSUME DatesInv, NEW w \in Sessions, Begins(w)
  PROVE  Seen(session[w])'
<1>1. session \in [Sessions -> Session] /\ UNCHANGED <<today, pass, overwritten>>
  BY BeginHolds DEF DatesInv, TypeInv, TypeOK
<1> SUFFICES Seen(session'[w])
  BY <1>1 DEF Seen, Begun
<1>2. CASE BeginSuspend(w)
  BY <1>1, <1>2, RowsMeanBegun DEF BeginSuspend, CanBeSuspended, Seen
<1>3. CASE BeginUpdate(w)
  BY <1>1, <1>3, RowsMeanBegun DEF BeginUpdate, Seen
<1>4. CASE BeginDelete(w)
  BY <1>1, <1>4, RowsMeanBegun DEF BeginDelete, Seen
<1>5. CASE BeginAccept(w)
  <2>1. PICK h \in today .. today + MaxPostpone, s \in SuspensionsInProgress \union {NoKey} :
            session' = [session EXCEPT ![w] =
              [op |-> "accept", hired |-> h,
               moves |-> IF pass.start > h /\ CanPostponeStartDate THEN pass ELSE Absent,
               lifts |-> s,
               until |-> IF s = NoKey \/ suspensions[s].start = h THEN Absent
                         ELSE [suspensions[s] EXCEPT !.end = h - 1]]]
    BY <1>5 DEF BeginAccept
  <2>2. /\ session'[w].op = "accept" /\ session'[w].lifts = s
        /\ session'[w].moves = IF pass.start > h /\ CanPostponeStartDate THEN pass ELSE Absent
    BY <1>1, <2>1
  <2> QED
    BY <2>2, RowsMeanBegun DEF Seen, CanPostponeStartDate
<1>6. CASE BeginEdit(w)
  <2>1. PICK h \in today .. today + MaxPostpone :
            session' = [session EXCEPT ![w] =
              [op |-> "edit", hired |-> h,
               moves |-> IF CanPostponeStartDate THEN pass ELSE Absent]]
    BY <1>6 DEF BeginEdit
  <2>2. /\ session'[w].op = "edit"
        /\ session'[w].moves = IF CanPostponeStartDate THEN pass ELSE Absent
    BY <1>1, <2>1
  <2> QED
    BY <2>2 DEF Seen, CanPostponeStartDate
<1>7. CASE BeginProlong(w)
  <2>1. Begun
    BY <1>7, RowsMeanBegun DEF BeginProlong, CanBeProlonged
  <2>2. session'[w].op \in {"prolong", "request"}
    BY <1>1, <1>7 DEF BeginProlong
  <2> QED
    BY <2>1, <2>2 DEF Seen
<1>8. CASE BeginAnswer(w)
  BY <1>1, <1>8, RowsMeanBegun DEF BeginAnswer, Seen
<1> QED
  BY <1>2, <1>3, <1>4, <1>5, <1>6, <1>7, <1>8 DEF Begins

(* A hiring that saves the start of the approval saves it from a stale     *)
(* copy, or postpones what has not begun and is bare.                      *)
LEMMA HiringMoves ==
  ASSUME DatesInv, NEW w \in Sessions, CommitAccept(w) \/ CommitEdit(w), ~overwritten'
  PROVE  /\ ~overwritten
         /\ \/ pass'.start = pass.start /\ (Begun \/ UNCHANGED <<pass, suspensions>>)
            \/ ~Begun /\ UNCHANGED suspensions /\ pass'.end = DefaultEnd(pass'.start)
<1> DEFINE tx == session[w]
<1>1. /\ TypeOK /\ session \in [Sessions -> Session] /\ Seen(tx)
      /\ pass \in Period /\ pass.start \in Int /\ today \in Nat
  BY DEF DatesInv, TypeInv, TypeOK, Period
<1>2. ~overwritten /\ ~LostUpdate(tx)
  BY DEF CommitAccept, CommitEdit
<1>3. tx.op \in {"accept", "edit"}
  BY DEF CommitAccept, CommitEdit
<1>4. CASE tx.moves = Absent
  <2>1. SavedDates(tx) = pass
    BY <1>4 DEF SavedDates
  <2>2. CASE CommitEdit(w)
    BY <1>2, <2>1, <2>2 DEF CommitEdit, rows
  <2>3. CASE CommitAccept(w)
    BY <1>1, <1>2, <2>1, <2>3, AcceptType DEF Seen, CommitAccept
  <2> QED  BY <2>2, <2>3
<1>5. CASE tx.moves # Absent
  <2>1. tx.moves = pass
    BY <1>2, <1>5 DEF LostUpdate
  <2>2. ~Begun
    BY <1>1, <1>2, <1>3, <1>5, <2>1 DEF Seen, Begun
  <2>3. SavedDates(tx) = Dates(tx.hired)
    BY <1>5 DEF SavedDates
  <2>4. pass' = Dates(tx.hired) /\ UNCHANGED suspensions
    <3>1. CASE CommitEdit(w)
      BY <2>3, <3>1 DEF CommitEdit, rows
    <3>2. CASE CommitAccept(w)
      BY <1>1, <2>2, <2>3, <3>2, AcceptType DEF Seen, CommitAccept
    <3> QED  BY <3>1, <3>2
  <2> QED
    BY <1>2, <2>2, <2>4 DEF Dates
<1> QED
  BY <1>2, <1>4, <1>5

(* The other statements keep the start, and write only once it has begun.  *)
LEMMA OtherCommits ==
  ASSUME DatesInv, NEW w \in Sessions, Commits(w), ~CommitAccept(w), ~CommitEdit(w)
  PROVE  /\ pass'.start = pass.start /\ UNCHANGED overwritten
         /\ Begun \/ UNCHANGED <<pass, rows>>
<1>1. TypeOK /\ AnswersExist /\ session[w] \in Session /\ Seen(session[w])
  BY DEF DatesInv, TypeInv, TypeOK
<1>2. pass \in Period
  BY <1>1 DEF TypeOK
<1>3. CASE CommitSuspend(w)
  BY <1>1, <1>2, <1>3, SessionFields, WrittenMovesTheEnd DEF CommitSuspend, Seen
<1>4. CASE CommitUpdate(w)
  BY <1>1, <1>2, <1>4, SessionFields, SaveSuspensionType DEF CommitUpdate, Seen
<1>5. CASE CommitDelete(w)
  BY <1>1, <1>2, <1>5, SessionFields, DropSuspensionType DEF CommitDelete, Seen
<1>6. CASE CommitProlong(w)
  BY <1>1, <1>6, SessionFields, InsertProlongationType DEF CommitProlong, Seen
<1>7. CASE CommitRequest(w)
  BY <1>1, <1>7 DEF CommitRequest, Seen
<1>8. CASE CommitGrant(w)
  <2> DEFINE r == session[w].key
  <2>1. r \in Requests /\ requests[r] \in Request
    BY <1>1, <1>8 DEF CommitGrant, AnswersExist, Exist, TypeOK
  <2>2. pass'.start = pass.start
    BY <1>1, <1>8, <2>1, FromRequestType, InsertProlongationType DEF CommitGrant
  <2> QED
    BY <1>1, <1>8, <2>2 DEF CommitGrant, Seen
<1>9. CASE CommitDeny(w)
  BY <1>1, <1>9 DEF CommitDeny, Seen
<1>10. CASE Rollback(w)
  BY <1>10 DEF Rollback
<1> QED
  BY <1>3, <1>4, <1>5, <1>6, <1>7, <1>8, <1>9, <1>10 DEF Commits

(* Once begun, begun for good.                                             *)
LEMMA StaysBegun ==
  ASSUME DatesInv, [Next]_vars, Begun PROVE Begun'
<1>1. pass.start \in Int /\ today \in Nat
  BY DEF DatesInv, TypeInv, TypeOK, Period
<1>2. CASE UNCHANGED vars
  BY <1>2 DEF vars, Begun
<1>3. CASE Tick
  BY <1>1, <1>3 DEF Tick, Begun
<1>4. ASSUME NEW w \in Sessions, Begins(w) PROVE Begun'
  BY <1>4, BeginHolds DEF Begun
<1>5. ASSUME NEW w \in Sessions, Commits(w) PROVE Begun'
  <2>1. UNCHANGED today
    BY <1>5, CommitEnds
  <2>2. CASE CommitAccept(w) \/ CommitEdit(w)
    BY <2>1, <2>2, HiringMoves DEF Begun
  <2>3. CASE ~CommitAccept(w) /\ ~CommitEdit(w)
    BY <1>5, <2>1, <2>3, OtherCommits DEF Begun
  <2> QED  BY <2>2, <2>3
<1> QED
  BY <1>2, <1>3, <1>4, <1>5, Steps

LEMMA DatesInvNext ==
  ASSUME DatesInv, [Next]_vars PROVE DatesInv'
<1>1. /\ TypeInv' /\ TypeInv
      /\ session \in [Sessions -> Session]
      /\ pass.start \in Int /\ today \in Nat
  BY TypeInvNext DEF DatesInv, TypeInv, TypeOK, Period
<1>2. CASE UNCHANGED vars
  BY <1>1, <1>2 DEF vars, DatesInv, UnstartedIsDefault, Seen, Begun, Bare
<1>3. CASE Tick
  <2>1. /\ today' = today + 1
        /\ UNCHANGED <<pass, suspensions, prolongations, requests, overwritten>>
        /\ \A w \in Sessions : session'[w] = Idle
    BY <1>3 DEF Tick, rows
  <2>2. ~Begun' => ~Begun
    BY <1>3, StaysBegun
  <2>3. UnstartedIsDefault'
    BY <2>1, <2>2 DEF DatesInv, UnstartedIsDefault, Bare
  <2>4. \A w \in Sessions : Seen(session[w])'
    BY <2>1 DEF Seen, Idle
  <2> QED
    BY <1>1, <2>3, <2>4 DEF DatesInv
<1>4. ASSUME NEW v \in Sessions, Begins(v) \/ Commits(v)
      PROVE  DatesInv'
  <2>1. UNCHANGED today
    BY <1>4, BeginHolds, CommitEnds
  <2>2. \A w \in Sessions \ {v} : session'[w] = session[w]
    BY <1>1, <1>4, BeginHolds, CommitEnds
  <2>3. Begun => Begun'
    BY <1>4, StaysBegun DEF Begins, Commits, Next
  <2>4. ASSUME NEW w \in Sessions PROVE Seen(session[w])'
    <3>1. CASE w # v
      BY <2>1, <2>2, <2>3, <3>1 DEF DatesInv, Seen
    <3>2. CASE w = v /\ Begins(v)
      BY <3>2, BeginSees
    <3>3. CASE w = v /\ Commits(v)
      BY <1>1, <3>3, CommitEnds DEF Seen, Idle
    <3> QED  BY <1>4, <3>1, <3>2, <3>3
  <2>5. UnstartedIsDefault'
    <3> SUFFICES ASSUME ~Begun' PROVE Bare' /\ pass'.end = DefaultEnd(pass'.start)
      BY DEF UnstartedIsDefault
    <3>1. ~Begun /\ Bare /\ pass.end = DefaultEnd(pass.start) /\ ~overwritten'
      BY <2>3 DEF DatesInv, UnstartedIsDefault, Begun
    <3>2. CASE Begins(v)
      BY <3>1, <3>2, BeginHolds DEF Bare
    <3>3. CASE CommitAccept(v) \/ CommitEdit(v)
      <4>1. UNCHANGED <<prolongations, requests>>
        BY <3>3 DEF CommitAccept, CommitEdit, rows
      <4>2. UNCHANGED suspensions /\ pass'.end = DefaultEnd(pass'.start)
        BY <3>1, <3>3, HiringMoves
      <4> QED
        BY <3>1, <4>1, <4>2 DEF Bare
    <3>4. CASE Commits(v) /\ ~CommitAccept(v) /\ ~CommitEdit(v)
      BY <3>1, <3>4, OtherCommits DEF Bare, rows
    <3> QED  BY <1>4, <3>2, <3>3, <3>4
  <2> QED
    BY <1>1, <2>4, <2>5 DEF DatesInv
<1> QED
  BY <1>2, <1>3, <1>4, Steps

LEMMA DatesInvInit ==
  ASSUME Init PROVE DatesInv
<1>1. Bare /\ pass.end = DefaultEnd(pass.start)
  BY DEF Init, Bare, Exist, Dates
<1>2. \A w \in Sessions : Seen(session[w])
  BY DEF Init, Seen, Idle
<1> QED
  BY <1>1, <1>2, TypeInvInit DEF DatesInv, UnstartedIsDefault

(* For every default duration longer than the days before the end when     *)
(* prolonging opens: an approval that has not begun has no suspension,     *)
(* prolongation or request that postponing it would forget                 *)
(* (Approval.update_start_date).                                           *)
THEOREM UnstartedHasNothing == Spec => []UnstartedIsBare
  BY DatesInvInit, DatesInvNext, DatesInvImplies, PTL DEF Spec

LEMMA StartStays ==
  ASSUME DatesInv, Next, pass.start <= today, ~overwritten'
  PROVE  pass'.start = pass.start
<1>1. Begun
  BY DEF Begun
<1>2. CASE Tick
  BY <1>2 DEF Tick
<1>3. ASSUME NEW w \in Sessions, Begins(w) PROVE pass'.start = pass.start
  BY <1>3, BeginHolds
<1>4. ASSUME NEW w \in Sessions, Commits(w) PROVE pass'.start = pass.start
  BY <1>1, <1>4, HiringMoves, OtherCommits
<1> QED
  BY <1>2, <1>3, <1>4, Steps

(* A hiring never moves the start of an approval that has begun, whatever  *)
(* happened between its check and its save, unless it saves a stale copy   *)
(* of the dates (Approval.can_postpone_start_date).                        *)
THEOREM StartsAreKept == Spec => StartIsKept
<1>1. ASSUME DatesInv, [Next]_vars
      PROVE  [(pass.start <= today /\ ~overwritten') => pass'.start = pass.start]_vars
  BY <1>1, StartStays
<1> QED
  BY <1>1, DatesInvInit, DatesInvNext, PTL DEF Spec, StartIsKept
=============================================================================
