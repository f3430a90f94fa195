------------------------------- MODULE Hiring -------------------------------
(***************************************************************************)
(* The job applications of one job seeker, and the PASS IAE (approvals)    *)
(* their acceptance delivers.                                              *)
(*                                                                         *)
(* A request of an employer loads an application without locking it,       *)
(* checks the transition on this copy, and saves the whole row.  Requests  *)
(* are transactions under READ COMMITTED: a statement sees the committed   *)
(* rows, waits for the row locks of other transactions, and foreign keys   *)
(* are checked at the commit.  A request the view refuses ends without     *)
(* effect and is left out.                                                 *)
(*                                                                         *)
(* The approvals of the model do not expire, no application has an         *)
(* employee record, a transfer leads to a company of the same sort, no     *)
(* hiring by a company subject to eligibility rules goes without approval, *)
(* and the job seeker has an eligibility diagnosis and an identifier that  *)
(* let the approval be delivered automatically.                            *)
(***************************************************************************)
EXTENDS Naturals, FiniteSets

CONSTANTS
    Applications,   \* job applications, sent or to be sent
    Siae,           \* those to companies subject to eligibility rules
    Passes,         \* numbers of approvals
    NoPass,
    Requests,       \* concurrent requests
    Operations      \* the views of this instance

ASSUME HiringAssumption ==
    /\ Siae \subseteq Applications
    /\ NoPass \notin Passes
    /\ Operations \subseteq {"process", "postpone", "refuse", "archive", "transfer",
                             "move_to_prior_to_hire", "cancel_prior_to_hire",
                             "accept", "hire", "cancel"}

VARIABLES
    apps,           \* committed job applications
    passes,         \* committed approvals
    cancelled,      \* committed cancelled approvals
    tx              \* the requests

vars == <<apps, passes, cancelled, tx>>

State == {"new", "processing", "postponed", "prior_to_hire", "accepted", "refused",
          "cancelled", "obsolete"}
Pending == {"new", "processing", "postponed"}
CanBeAccepted == State \ {"new", "accepted"}

NoRow == [state |-> "none", approval |-> NoPass]
Row == [state : State, approval : Passes \union {NoPass}]

(* The states a transition may leave, and the one it reaches.              *)
Sources(op) ==
    CASE op = "process" -> {"new"}
      [] op = "postpone" -> {"processing", "prior_to_hire"}
      [] op = "accept" -> CanBeAccepted
      [] op = "move_to_prior_to_hire" -> {"processing", "postponed", "obsolete", "refused", "cancelled"}
      [] op = "cancel_prior_to_hire" -> {"prior_to_hire"}
      [] op = "refuse" -> {"new", "processing", "prior_to_hire", "postponed"}
      [] op = "cancel" -> {"accepted"}
      [] op = "render_obsolete" -> Pending
      [] op = "transfer" -> State \ {"accepted"}
      [] op = "archive" -> {"refused", "cancelled", "obsolete"}

Target(op, state) ==
    CASE op = "process" -> "processing"
      [] op = "postpone" -> "postponed"
      [] op = "accept" -> "accepted"
      [] op = "move_to_prior_to_hire" -> "prior_to_hire"
      [] op = "cancel_prior_to_hire" -> "processing"
      [] op = "refuse" -> "refused"
      [] op = "cancel" -> "cancelled"
      [] op = "render_obsolete" -> "obsolete"
      [] op = "transfer" -> "new"
      [] op = "archive" -> state

PriorActions == {"move_to_prior_to_hire", "cancel_prior_to_hire"}

Stage == {"lock", "pending", "obsolete", "check", "detach", "remove", "save", "commit"}

Request == [at      : Stage,
            accepts : BOOLEAN,                              \* accept or hire
            partial : BOOLEAN,                              \* only the state is saved
            app     : Applications,
            copy    : Row,                                  \* the row to save
            seen    : Passes \union {NoPass},               \* the valid approval, as cached
            pending : [Applications -> Row \union {NoRow}], \* other applications read
            writes  : [Applications -> Row \union {NoRow}], \* rows written, so locked
            user    : BOOLEAN,                              \* row of the job seeker locked
            born    : Passes \union {NoPass},               \* approval inserted
            gone    : Passes \union {NoPass},               \* approval cancelled
            lock    : Passes \union {NoPass}]               \* row of an approval locked

Idle == [at |-> "idle"]
NoRows == [a \in Applications |-> NoRow]

Begin(stage, op, a, copy, seen) ==
    [at |-> stage, accepts |-> op \in {"accept", "hire"}, partial |-> op = "transfer",
     app |-> a, copy |-> copy, seen |-> seen, pending |-> NoRows, writes |-> NoRows,
     user |-> FALSE, born |-> NoPass, gone |-> NoPass, lock |-> NoPass]

TypeOK ==
    /\ apps \in [Applications -> Row \union {NoRow}]
    /\ passes \subseteq Passes
    /\ cancelled \subseteq Passes
    /\ tx \in [Requests -> Request \union {Idle}]

Init ==
    /\ apps = NoRows
    /\ passes = {}
    /\ cancelled = {}
    /\ tx = [t \in Requests |-> Idle]

Active == {t \in Requests : tx[t] # Idle}
Goes(t, request) == tx' = [tx EXCEPT ![t] = request]
LockedByOther(t, a) == \E u \in Active \ {t} : tx[u].writes[a] # NoRow
PassLockedByOther(t, p) == \E u \in Active \ {t} : tx[u].lock = p
UserLockedByOther(t) == \E u \in Active \ {t} : tx[u].user
Quiet == UNCHANGED <<apps, passes, cancelled>>

-----------------------------------------------------------------------------
(***************************************************************************)
(* The views.                                                              *)
(***************************************************************************)

(* A candidate, a prescriber or an employer sends an application.          *)
Submit(a) ==
    /\ apps[a] = NoRow
    /\ \A t \in Active : tx[t].app # a
    /\ apps' = [apps EXCEPT ![a] = [state |-> "new", approval |-> NoPass]]
    /\ UNCHANGED <<passes, cancelled, tx>>

(* latest_approval is a cached property: the views read it before the      *)
(* transaction takes its first lock.                                       *)
Latest == IF passes = {} THEN {NoPass} ELSE passes

Load(t, a, op) ==
    /\ tx[t] = Idle
    /\ op \in Operations \ {"hire"}
    /\ apps[a] # NoRow /\ apps[a].state \in Sources(op)
    /\ op \in PriorActions => a \notin Siae
    /\ \E seen \in Latest :
         Goes(t, Begin(IF op = "accept" THEN "lock" ELSE IF op = "cancel" THEN "check" ELSE "save",
                       op, a, [apps[a] EXCEPT !.state = Target(op, @)],
                       IF op = "accept" THEN seen ELSE NoPass))
    /\ Quiet

(* An employer hires somebody who has not applied.                         *)
Hire(t, a) ==
    /\ tx[t] = Idle
    /\ "hire" \in Operations
    /\ apps[a] = NoRow
    /\ \A u \in Active : tx[u].app # a
    /\ \E seen \in Latest :
         Goes(t, Begin("lock", "hire", a, [state |-> "accepted", approval |-> NoPass], seen))
    /\ Quiet

-----------------------------------------------------------------------------
(***************************************************************************)
(* Acceptance.                                                             *)
(***************************************************************************)

(* Mutant: nothing holds the row of the job seeker.                        *)
LockUserUnheld(t) ==
    /\ tx[t].at = "lock"
    /\ Goes(t, [tx[t] EXCEPT !.at = "pending"])
    /\ Quiet

(* The forms on the job seeker are saved first: from then on the           *)
(* acceptances by companies subject to eligibility rules go one at a time. *)
LockUser(t) ==
    /\ tx[t].at = "lock"
    /\ tx[t].app \in Siae => ~UserLockedByOther(t)
    /\ Goes(t, [tx[t] EXCEPT !.at = "pending", !.user = tx[t].app \in Siae])
    /\ Quiet

ReadPending(t) ==
    /\ tx[t].at = "pending"
    /\ Goes(t, [tx[t] EXCEPT !.at = "obsolete",
                  !.pending = [b \in Applications |->
                      IF b # tx[t].app /\ apps[b].state \in Pending THEN apps[b] ELSE NoRow]])
    /\ Quiet

RenderObsolete(t, b) ==
    /\ tx[t].at = "obsolete" /\ tx[t].pending[b] # NoRow
    /\ ~LockedByOther(t, b)
    /\ Goes(t, [tx[t] EXCEPT !.pending[b] = NoRow,
                             !.writes[b] = [tx[t].pending[b] EXCEPT !.state = "obsolete"]])
    /\ Quiet

Rendered(t) == tx[t].at = "obsolete" /\ tx[t].pending = NoRows

WithoutPass(t) ==
    /\ Rendered(t) /\ tx[t].app \notin Siae
    /\ Goes(t, [tx[t] EXCEPT !.at = "save"])
    /\ Quiet

ReusePass(t) ==
    /\ Rendered(t) /\ tx[t].app \in Siae /\ tx[t].seen # NoPass
    /\ Goes(t, [tx[t] EXCEPT !.at = "save", !.copy.approval = tx[t].seen])
    /\ Quiet

(* The hiring starts before the approval, which has not started either:    *)
(* its dates are saved, and save() inserts the row when it is not there.   *)
ReuseAndMovePass(t) ==
    /\ Rendered(t) /\ tx[t].app \in Siae /\ tx[t].seen # NoPass
    /\ ~PassLockedByOther(t, tx[t].seen)
    /\ Goes(t, [tx[t] EXCEPT !.at = "save", !.copy.approval = tx[t].seen, !.lock = tx[t].seen,
                  !.born = IF tx[t].seen \in passes THEN NoPass ELSE tx[t].seen])
    /\ Quiet

(* Mutant: the approval seen before the lock is believed.                  *)
IssuePassUnchecked(t) ==
    /\ Rendered(t) /\ tx[t].app \in Siae /\ tx[t].seen = NoPass
    /\ \E p \in Passes \ cancelled :
         Goes(t, [tx[t] EXCEPT !.at = "save", !.copy.approval = p, !.born = p, !.lock = p])
    /\ Quiet

(* clean() reads the approvals again, whatever has been seen, and raises   *)
(* when there is one.                                                      *)
IssuePass(t) ==
    /\ Rendered(t) /\ tx[t].app \in Siae /\ tx[t].seen = NoPass
    /\ IF passes # {}
       THEN Goes(t, Idle)
       ELSE \E p \in Passes \ cancelled :
              Goes(t, [tx[t] EXCEPT !.at = "save", !.copy.approval = p, !.born = p, !.lock = p])
    /\ Quiet

-----------------------------------------------------------------------------
(***************************************************************************)
(* Cancellation: the approval is deleted when exactly one application has  *)
(* it, an accepted one.  The collector detaches the applications first.    *)
(***************************************************************************)
Holders(p) == {b \in Applications : apps[b].approval = p}
CanBeDeleted(p) == \E b \in Applications : Holders(p) = {b} /\ apps[b].state = "accepted"

CheckPass(t) ==
    /\ tx[t].at = "check"
    /\ LET p == tx[t].copy.approval IN
         Goes(t, IF p # NoPass /\ p \notin passes THEN Idle
                 ELSE IF p # NoPass /\ CanBeDeleted(p) THEN [tx[t] EXCEPT !.at = "detach"]
                 ELSE [tx[t] EXCEPT !.at = "save"])
    /\ Quiet

(* The number is copied first, once only: it is unique.                    *)
Detach(t) ==
    /\ tx[t].at = "detach"
    /\ LET p == tx[t].copy.approval IN
         /\ \A u \in Active : tx[u].gone # p
         /\ \A b \in Holders(p) : ~LockedByOther(t, b)
         /\ Goes(t, IF p \in cancelled THEN Idle
                    ELSE [tx[t] EXCEPT !.at = "remove", !.gone = p,
                            !.copy.approval = NoPass,
                            !.writes = [b \in Applications |->
                                IF b \in Holders(p) THEN [apps[b] EXCEPT !.approval = NoPass]
                                ELSE NoRow]])
    /\ Quiet

RemovePass(t) ==
    /\ tx[t].at = "remove"
    /\ ~PassLockedByOther(t, tx[t].gone)
    /\ Goes(t, [tx[t] EXCEPT !.at = "save", !.lock = tx[t].gone])
    /\ Quiet

-----------------------------------------------------------------------------
(***************************************************************************)
(* The end of a request.                                                   *)
(***************************************************************************)
Save(t) ==
    /\ tx[t].at = "save"
    /\ LET a == tx[t].app IN
         /\ ~LockedByOther(t, a)
         /\ Goes(t, [tx[t] EXCEPT !.at = "commit",
                       !.writes[a] = IF tx[t].partial
                                     THEN [apps[a] EXCEPT !.state = tx[t].copy.state]
                                     ELSE tx[t].copy])
    /\ Quiet

Merged(t) == [a \in Applications |-> IF tx[t].writes[a] # NoRow THEN tx[t].writes[a] ELSE apps[a]]

(* Mutant: the absence of an approval is stored as one.                    *)
PassesAfterUnchecked(t) == (passes \union {tx[t].born}) \ {tx[t].gone}

PassesAfter(t) == (passes \union ({tx[t].born} \ {NoPass})) \ {tx[t].gone}

(* The foreign keys that were written, and those to a deleted approval.    *)
ForeignKeysHold(t) ==
    /\ \A a \in Applications : tx[t].writes[a] # NoRow =>
           tx[t].writes[a].approval \in PassesAfter(t) \union {NoPass}
    /\ tx[t].gone # NoPass => \A a \in Applications : Merged(t)[a].approval # tx[t].gone

(* The check of a foreign key waits for who deletes the approval; the last *)
(* statement of an acceptance updates the job seeker.                      *)
CommitWaits(t) ==
    \/ tx[t].accepts /\ UserLockedByOther(t)
    \/ \E a \in Applications, u \in Active \ {t} :
         /\ tx[t].writes[a] # NoRow /\ tx[t].writes[a].approval # NoPass
         /\ tx[u].gone = tx[t].writes[a].approval /\ tx[u].lock = tx[u].gone

Commit(t) ==
    /\ tx[t].at = "commit"
    /\ ~CommitWaits(t)
    /\ IF ForeignKeysHold(t)
       THEN /\ apps' = Merged(t)
            /\ passes' = PassesAfter(t)
            /\ cancelled' = cancelled \union ({tx[t].gone} \ {NoPass})
       ELSE Quiet
    /\ Goes(t, Idle)

(* A request may fail at any statement, one that waits in a circle         *)
(* included: nothing of it remains.                                        *)
Rollback(t) ==
    /\ tx[t] # Idle
    /\ Goes(t, Idle)
    /\ Quiet

-----------------------------------------------------------------------------
Proceed(t) ==
    \/ LockUser(t) \/ ReadPending(t) \/ \E b \in Applications : RenderObsolete(t, b)
    \/ WithoutPass(t) \/ ReusePass(t) \/ ReuseAndMovePass(t) \/ IssuePass(t)
    \/ CheckPass(t) \/ Detach(t) \/ RemovePass(t)
    \/ Save(t) \/ Commit(t)

Next ==
    \/ \E a \in Applications : Submit(a)
    \/ \E t \in Requests :
         \/ \E a \in Applications : Hire(t, a) \/ \E op \in Operations : Load(t, a, op)
         \/ Proceed(t) \/ Rollback(t)

Spec == Init /\ [][Next]_vars

-----------------------------------------------------------------------------
(***************************************************************************)
(* Properties.                                                             *)
(***************************************************************************)

(* A job seeker has at most one approval that was never cancelled: clean() *)
(* raises when there is one already, and reads it once the acceptances of  *)
(* the others are over.  (A cancelled one may come back: an acceptance     *)
(* that read it earlier moves its dates, and save() inserts it again.)     *)
OnePass == \A p, q \in passes \ cancelled : p = q

(* An acceptance by a company subject to eligibility rules never rewrites  *)
(* an application another such company has accepted, though it saves       *)
(* copies of the pending ones that nothing locks while it reads them.      *)
AcceptanceSpares ==
    \A t \in Active : tx[t].accepts /\ tx[t].app \in Siae =>
        \A a \in Siae \ {tx[t].app} :
            tx[t].writes[a] # NoRow => apps[a].state # "accepted"

(* An accepted application leaves this state by its cancellation only: the *)
(* table of transitions of JobApplicationWorkflow lists no other one.      *)
AcceptedOnlyCancelled ==
    [][\A a \in Applications :
         apps[a].state = "accepted" => apps'[a].state \in {"accepted", "cancelled"}]_vars
=============================================================================
