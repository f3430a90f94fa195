------------------------ MODULE HiringInTurn_proofs ------------------------
(***************************************************************************)
(* Proofs about Hiring when the requests on a job seeker are served one    *)
(* after the other.  What a request has read then still stands when it     *)
(* commits (Current), and three promises hold that overlapping requests    *)
(* break: the table of transitions says all that happens to an accepted    *)
(* application, an application accepted by a company subject to            *)
(* eligibility rules has its approval, and what is cancelled stays so.     *)
(***************************************************************************)
EXTENDS Hiring_proofs

InTurn == \A t, u \in Active : t = u

(* What a request has read, and is about to write, agrees with the rows.   *)
Current(r) ==
    /\ r.seen \in passes \union {NoPass}
    /\ r.born # NoPass => r.born \notin cancelled
    /\ r.accepts => ~r.partial
    /\ r.accepts /\ r.app \in Siae /\ r.at \in {"save", "commit"} => r.copy.approval # NoPass
    /\ r.at \in {"check", "detach"} => apps[r.app].approval = r.copy.approval
    /\ r.at = "detach" => CanBeDeleted(r.copy.approval)
    /\ apps[r.app].state = "accepted" => r.copy.state = "cancelled"
    /\ \A a \in Applications :
          /\ r.pending[a] # NoRow => apps[a].state # "accepted"
          /\ r.writes[a] # NoRow /\ apps[a].state = "accepted" => a = r.app
    /\ r.at = "commit" => /\ r.writes[r.app].state = r.copy.state
                          /\ r.accepts => r.writes[r.app].approval = r.copy.approval

(* A cancelled approval does not come back.                                *)
NoneReturns == passes \intersect cancelled = {}

(* Who is hired by a company subject to eligibility rules has an approval. *)
AcceptedHasPass ==
    \A a \in Siae : apps[a].state = "accepted" => apps[a].approval \in passes

Kept == NoneReturns /\ AcceptedHasPass /\ \A t \in Active : Current(tx[t])
TurnInv == HiringInv /\ Kept

LEMMA OnlyOne ==
    ASSUME HiringInv, InTurn', NEW t \in Requests, NEW r \in Request,
           tx' = [tx EXCEPT ![t] = r]
    PROVE  Active' = {t} /\ tx'[t] = r
BY RequestIsNotIdle DEF HiringInv, TypeOK, Active, InTurn

(* A request that moves on, the committed rows staying as they are.        *)
LEMMA TurnMoves ==
    ASSUME TurnInv, InTurn', NEW t \in Requests, NEW r \in Request,
           tx' = [tx EXCEPT ![t] = r], Quiet, Current(r)
    PROVE  Kept'
<1>1. Active' = {t} /\ tx'[t] = r
  BY OnlyOne DEF TurnInv
<1>2. Current(tx[t])'
  BY <1>1 DEF Current, Quiet, CanBeDeleted, Holders
<1> QED BY <1>1, <1>2 DEF TurnInv, Kept, NoneReturns, AcceptedHasPass, Quiet

(* A request that ends leaves nothing to say.                              *)
LEMMA TurnEnds ==
    ASSUME TurnInv, InTurn, NEW t \in Active, Goes(t, Idle)
    PROVE  Active' = {}
BY DEF TurnInv, HiringInv, TypeOK, Active, InTurn, Goes

LEMMA TurnRollsBack ==
    ASSUME TurnInv, InTurn, NEW t \in Active, Goes(t, Idle), Quiet
    PROVE  Kept'
BY TurnEnds DEF TurnInv, Kept, NoneReturns, AcceptedHasPass, Quiet
-----------------------------------------------------------------------------
LEMMA SubmitInTurn ==
    ASSUME TurnInv, NEW a \in Applications, Submit(a)
    PROVE  Kept'
<1>1. /\ UNCHANGED <<passes, cancelled, tx>> /\ Active' = Active
      /\ apps[a] = NoRow /\ apps'[a] = [state |-> "new", approval |-> NoPass]
      /\ \A b \in Applications \ {a} : apps'[b] = apps[b]
      /\ \A t \in Active : tx[t].app # a
  BY DEF TurnInv, HiringInv, TypeOK, Submit, Active
<1>2. \A b \in Applications : /\ apps'[b].state = "accepted" <=> apps[b].state = "accepted"
                              /\ apps'[b].approval = apps[b].approval
  BY <1>1 DEF NoRow
<1>3. AcceptedHasPass' /\ NoneReturns'
  BY <1>1, <1>2, HiringAssumption DEF TurnInv, Kept, NoneReturns, AcceptedHasPass
<1>4. ASSUME NEW t \in Active PROVE Current(tx[t])'
  <2>1. Current(tx[t]) /\ tx[t] \in Request
    BY <1>4 DEF TurnInv, Kept, HiringInv, TypeOK, Active
  <2>2. PICK r : r = tx[t] /\ r = tx'[t]
    BY <1>1
  <2>3. r.app \in Applications
    BY <2>1, <2>2 DEF Request
  <2>4. CanBeDeleted(r.copy.approval)' <=> CanBeDeleted(r.copy.approval)
    <3>1. PICK p : p = r.copy.approval
      OBVIOUS
    <3>2. Holders(p)' = Holders(p)
      BY <1>2 DEF Holders
    <3>3. CanBeDeleted(p)' <=> CanBeDeleted(p)
      BY <3>2, <1>2 DEF CanBeDeleted
    <3> QED BY <3>1, <3>3
  <2>5. Current(r)'
    BY <1>1, <1>2, <2>1, <2>2, <2>3, <2>4 DEF Current
  <2> QED BY <2>2, <2>5
<1> QED BY <1>1, <1>3, <1>4 DEF Kept

(* A request begins with what it has just read.                            *)
LEMMA BeginCurrent ==
    ASSUME HiringInv, NEW a \in Applications, NEW stage \in {"lock", "check", "save"},
           NEW op, NEW copy \in Row, NEW seen \in passes \union {NoPass},
           stage = "lock" <=> op \in {"accept", "hire"},
           stage = "check" => apps[a].approval = copy.approval,
           apps[a].state = "accepted" => copy.state = "cancelled"
    PROVE  LET r == Begin(stage, op, a, copy, seen) IN r \in Request /\ Current(r)
<1> PICK r : r = Begin(stage, op, a, copy, seen)
  OBVIOUS
<1>1. r \in Request
  BY NoRowsTyped DEF Begin, Request, Stage, HiringInv, TypeOK
<1>2. /\ r.at = stage /\ r.accepts = (op \in {"accept", "hire"})
      /\ r.partial = (op = "transfer") /\ r.copy = copy
      /\ r.seen = seen /\ r.app = a /\ r.born = NoPass
      /\ r.pending = NoRows /\ r.writes = NoRows
  BY DEF Begin
<1>3. \A b \in Applications : r.pending[b] = NoRow /\ r.writes[b] = NoRow
  BY <1>2 DEF NoRows
<1>4. Current(r)
  BY <1>2, <1>3 DEF Current
<1> QED BY <1>1, <1>4

LEMMA AcceptedIsCancelled ==
    ASSUME NEW op \in Operations \ {"hire"}, "accepted" \in Sources(op)
    PROVE  op = "cancel" /\ Target(op, "accepted") = "cancelled"
BY HiringAssumption DEF Target, State, Sources, Pending, CanBeAccepted

LEMMA LoadInTurn ==
    ASSUME TurnInv, InTurn', NEW t \in Requests, NEW a \in Applications,
           NEW op \in Operations, Load(t, a, op)
    PROVE  Kept'
<1>1. op \in Operations \ {"hire"} /\ apps[a] \in Row /\ apps[a].state \in State
      /\ apps[a].state \in Sources(op) /\ HiringInv
  BY DEF TurnInv, HiringInv, TypeOK, Load, Row, NoRow
<1>2. PICK copy : copy = [apps[a] EXCEPT !.state = Target(op, @)]
  OBVIOUS
<1>3. copy.state = Target(op, apps[a].state) /\ copy.approval = apps[a].approval /\ copy \in Row
  BY <1>1, <1>2, TargetTyped DEF Row
<1>4. apps[a].state = "accepted" => copy.state = "cancelled"
  BY <1>1, <1>3, AcceptedIsCancelled
<1>5. PICK seen \in Latest :
         Goes(t, Begin(IF op = "accept" THEN "lock" ELSE IF op = "cancel" THEN "check" ELSE "save",
                       op, a, copy, IF op = "accept" THEN seen ELSE NoPass))
  BY <1>2 DEF Load
<1>6. seen \in passes \union {NoPass}
  BY <1>5 DEF Latest
<1>7. PICK stage : stage = IF op = "accept" THEN "lock" ELSE IF op = "cancel" THEN "check" ELSE "save"
  OBVIOUS
<1>8. PICK p : p = IF op = "accept" THEN seen ELSE NoPass
  OBVIOUS
<1>9. PICK r : r = Begin(stage, op, a, copy, p)
  OBVIOUS
<1>10. /\ stage \in {"lock", "check", "save"} /\ (stage = "lock" <=> op \in {"accept", "hire"})
       /\ p \in passes \union {NoPass}
  BY <1>1, <1>6, <1>7, <1>8
<1>11. r \in Request /\ Current(r)
  BY <1>1, <1>3, <1>4, <1>9, <1>10, BeginCurrent
<1>12. tx' = [tx EXCEPT ![t] = r] /\ Quiet
  BY <1>5, <1>7, <1>8, <1>9 DEF Goes, Load
<1> QED BY <1>11, <1>12, TurnMoves

LEMMA HireInTurn ==
    ASSUME TurnInv, InTurn', NEW t \in Requests, NEW a \in Applications, Hire(t, a)
    PROVE  Kept'
<1>1. PICK copy : copy = [state |-> "accepted", approval |-> NoPass]
  OBVIOUS
<1>2. copy \in Row /\ HiringInv
  BY <1>1 DEF Row, State, TurnInv
<1>3. PICK seen \in Latest : Goes(t, Begin("lock", "hire", a, copy, seen))
  BY <1>1 DEF Hire
<1>4. seen \in passes \union {NoPass}
  BY <1>3 DEF Latest
<1>5. apps[a].state # "accepted"
  BY DEF Hire, NoRow
<1>6. PICK r : r = Begin("lock", "hire", a, copy, seen)
  OBVIOUS
<1>7. r \in Request /\ Current(r)
  BY <1>2, <1>4, <1>5, <1>6, BeginCurrent
<1>8. tx' = [tx EXCEPT ![t] = r] /\ Quiet
  BY <1>3, <1>6 DEF Goes, Hire
<1> QED BY <1>7, <1>8, TurnMoves
-----------------------------------------------------------------------------
LEMMA ActiveCurrent ==
    ASSUME TurnInv, NEW t \in Requests, tx[t] # Idle
    PROVE  /\ HiringInv /\ t \in Active /\ tx[t] \in Request
           /\ Current(tx[t]) /\ Sound(tx[t])
BY ActiveRequest DEF TurnInv, Kept, HiringInv

LEMMA LockUserInTurn ==
    ASSUME TurnInv, InTurn', NEW t \in Requests, tx[t] # Idle, LockUser(t)
    PROVE  Kept'
<1>0. PICK held \in BOOLEAN : held = (tx[t].app \in Siae)
  <2>1. (tx[t].app \in Siae) \in BOOLEAN
    OBVIOUS
  <2> QED BY <2>1, Zenon
<1>1. tx[t] \in Request /\ Current(tx[t])
  BY ActiveCurrent
<1>2. PICK r : r = [tx[t] EXCEPT !.at = "pending", !.user = held]
  OBVIOUS
<1>3. r \in Request
  BY <1>1, <1>2 DEF Request, Stage
<1>4. /\ r.at = "pending" /\ r.partial = tx[t].partial
      /\ r.accepts = tx[t].accepts /\ r.app = tx[t].app /\ r.copy = tx[t].copy
      /\ r.seen = tx[t].seen /\ r.born = tx[t].born
      /\ r.pending = tx[t].pending /\ r.writes = tx[t].writes
  BY <1>1, <1>2 DEF Request
<1>5. Current(r)
  BY <1>1, <1>4 DEF Current
<1>6. tx' = [tx EXCEPT ![t] = r] /\ Quiet
  BY <1>0, <1>2 DEF LockUser, Goes
<1> QED BY <1>3, <1>5, <1>6, TurnMoves

LEMMA ReadPendingInTurn ==
    ASSUME TurnInv, InTurn', NEW t \in Requests, tx[t] # Idle, ReadPending(t)
    PROVE  Kept'
<1>1. tx[t] \in Request /\ Current(tx[t]) /\ HiringInv
  BY ActiveCurrent
<1>2. PICK f : f = [b \in Applications |->
                      IF b # tx[t].app /\ apps[b].state \in Pending THEN apps[b] ELSE NoRow]
  OBVIOUS
<1>3. /\ f \in [Applications -> Row \union {NoRow}]
      /\ \A b \in Applications : f[b] # NoRow => apps[b].state # "accepted"
  BY <1>1, <1>2 DEF HiringInv, TypeOK, Pending
<1>4. PICK r : r = [tx[t] EXCEPT !.at = "obsolete", !.pending = f]
  OBVIOUS
<1>5. r \in Request
  BY <1>1, <1>3, <1>4 DEF Request, Stage
<1>6. /\ r.at = "obsolete" /\ r.pending = f /\ r.partial = tx[t].partial
      /\ r.accepts = tx[t].accepts /\ r.app = tx[t].app /\ r.copy = tx[t].copy
      /\ r.seen = tx[t].seen /\ r.born = tx[t].born /\ r.writes = tx[t].writes
  BY <1>1, <1>4 DEF Request
<1>7. Current(r)
  BY <1>1, <1>3, <1>6 DEF Current
<1>8. tx' = [tx EXCEPT ![t] = r] /\ Quiet
  BY <1>2, <1>4 DEF ReadPending, Goes
<1> QED BY <1>5, <1>7, <1>8, TurnMoves

LEMMA RenderObsoleteInTurn ==
    ASSUME TurnInv, InTurn', NEW t \in Requests, tx[t] # Idle, NEW b \in Applications,
           RenderObsolete(t, b)
    PROVE  Kept'
<1>1. /\ tx[t] \in Request /\ Current(tx[t])
      /\ tx[t].at = "obsolete" /\ tx[t].pending[b] # NoRow
  BY ActiveCurrent DEF RenderObsolete
<1>2. tx[t].pending \in [Applications -> Row \union {NoRow}]
      /\ tx[t].writes \in [Applications -> Row \union {NoRow}]
  BY <1>1 DEF Request
<1>3. PICK row : row = [tx[t].pending[b] EXCEPT !.state = "obsolete"]
  OBVIOUS
<1>4. row \in Row
  BY <1>1, <1>2, <1>3 DEF Row, State
<1>5. PICK f : f = [tx[t].pending EXCEPT ![b] = NoRow]
  OBVIOUS
<1>6. PICK g : g = [tx[t].writes EXCEPT ![b] = row]
  OBVIOUS
<1>7. /\ f \in [Applications -> Row \union {NoRow}] /\ g \in [Applications -> Row \union {NoRow}]
      /\ \A a \in Applications \ {b} : f[a] = tx[t].pending[a] /\ g[a] = tx[t].writes[a]
      /\ f[b] = NoRow
  BY <1>2, <1>4, <1>5, <1>6
<1>8. PICK r : r = [tx[t] EXCEPT !.pending = f, !.writes = g]
  OBVIOUS
<1>9. r \in Request
  BY <1>1, <1>7, <1>8 DEF Request
<1>10. /\ r.at = "obsolete" /\ r.pending = f /\ r.writes = g /\ r.partial = tx[t].partial
       /\ r.accepts = tx[t].accepts /\ r.app = tx[t].app /\ r.copy = tx[t].copy
       /\ r.seen = tx[t].seen /\ r.born = tx[t].born
  BY <1>1, <1>8 DEF Request
<1>11. Current(r)
  <2>1. \A a \in Applications :
          /\ r.pending[a] # NoRow => apps[a].state # "accepted"
          /\ r.writes[a] # NoRow /\ apps[a].state = "accepted" => a = r.app
    BY <1>1, <1>7, <1>10 DEF Current
  <2> QED BY <1>1, <1>10, <2>1 DEF Current
<1>12. tx' = [tx EXCEPT ![t] = r] /\ Quiet
  <2>1. r = [tx[t] EXCEPT !.pending[b] = NoRow,
                          !.writes[b] = [tx[t].pending[b] EXCEPT !.state = "obsolete"]]
    BY <1>1, <1>3, <1>5, <1>6, <1>8 DEF Request
  <2> QED BY <2>1 DEF RenderObsolete, Goes
<1> QED BY <1>9, <1>11, <1>12, TurnMoves

(* The steps that choose an approval: for a company subject to eligibility *)
(* rules there is one.                                                     *)
LEMMA ChoosesInTurn ==
    ASSUME TurnInv, InTurn', NEW t \in Requests, tx[t] # Idle,
           NEW r \in Request, r.at = "save", r.accepts = tx[t].accepts, r.app = tx[t].app,
           r.partial = tx[t].partial, r.copy.state = tx[t].copy.state, r.seen = tx[t].seen,
           r.pending = tx[t].pending, r.writes = tx[t].writes,
           r.born \in {NoPass, tx[t].born} \/ r.born \notin cancelled,
           r.app \in Siae => r.copy.approval # NoPass,
           tx' = [tx EXCEPT ![t] = r], Quiet
    PROVE  Kept'
<1>1. Current(tx[t])
  BY ActiveCurrent
<1>2. Current(r)
  BY <1>1 DEF Current
<1> QED BY <1>2, TurnMoves

LEMMA WithoutPassInTurn ==
    ASSUME TurnInv, InTurn', NEW t \in Requests, tx[t] # Idle, WithoutPass(t)
    PROVE  Kept'
<1>1. tx[t] \in Request /\ tx[t].app \notin Siae
  BY ActiveCurrent DEF WithoutPass
<1>2. PICK r : r = [tx[t] EXCEPT !.at = "save"]
  OBVIOUS
<1>3. r \in Request
  BY <1>1, <1>2 DEF Request, Stage
<1>4. /\ r.at = "save" /\ r.partial = tx[t].partial
      /\ r.accepts = tx[t].accepts /\ r.app = tx[t].app /\ r.copy = tx[t].copy
      /\ r.seen = tx[t].seen /\ r.born = tx[t].born
      /\ r.pending = tx[t].pending /\ r.writes = tx[t].writes
  BY <1>1, <1>2 DEF Request
<1>5. tx' = [tx EXCEPT ![t] = r] /\ Quiet
  BY <1>2 DEF WithoutPass, Goes
<1> QED BY <1>1, <1>3, <1>4, <1>5, ChoosesInTurn

LEMMA ReusePassInTurn ==
    ASSUME TurnInv, InTurn', NEW t \in Requests, tx[t] # Idle, ReusePass(t)
    PROVE  Kept'
<1>1. tx[t] \in Request /\ tx[t].seen # NoPass
  BY ActiveCurrent DEF ReusePass
<1>2. PICK r : r = [tx[t] EXCEPT !.at = "save", !.copy.approval = tx[t].seen]
  OBVIOUS
<1>3. r \in Request
  BY <1>1, <1>2 DEF Request, Stage, Row
<1>4. /\ r.at = "save" /\ r.partial = tx[t].partial
      /\ r.accepts = tx[t].accepts /\ r.app = tx[t].app /\ r.copy.state = tx[t].copy.state
      /\ r.copy.approval # NoPass /\ r.seen = tx[t].seen /\ r.born = tx[t].born
      /\ r.pending = tx[t].pending /\ r.writes = tx[t].writes
  BY <1>1, <1>2 DEF Request, Row
<1>5. tx' = [tx EXCEPT ![t] = r] /\ Quiet
  BY <1>2 DEF ReusePass, Goes
<1> QED BY <1>3, <1>4, <1>5, ChoosesInTurn

(* The approval that was read is there: nothing inserts it again.          *)
LEMMA ReuseAndMovePassInTurn ==
    ASSUME TurnInv, InTurn', NEW t \in Requests, tx[t] # Idle, ReuseAndMovePass(t)
    PROVE  Kept'
<1>1. tx[t] \in Request /\ tx[t].seen # NoPass /\ tx[t].seen \in passes
  BY ActiveCurrent DEF ReuseAndMovePass, Current
<1>2. PICK r : r = [tx[t] EXCEPT !.at = "save", !.copy.approval = tx[t].seen,
                                 !.lock = tx[t].seen, !.born = NoPass]
  OBVIOUS
<1>3. r \in Request
  BY <1>1, <1>2 DEF Request, Stage, Row
<1>4. /\ r.at = "save" /\ r.partial = tx[t].partial
      /\ r.accepts = tx[t].accepts /\ r.app = tx[t].app /\ r.copy.state = tx[t].copy.state
      /\ r.copy.approval # NoPass /\ r.seen = tx[t].seen /\ r.born = NoPass
      /\ r.pending = tx[t].pending /\ r.writes = tx[t].writes
  BY <1>1, <1>2 DEF Request, Row
<1>5. tx' = [tx EXCEPT ![t] = r] /\ Quiet
  BY <1>1, <1>2 DEF ReuseAndMovePass, Goes
<1> QED BY <1>3, <1>4, <1>5, ChoosesInTurn

LEMMA IssuePassInTurn ==
    ASSUME TurnInv, InTurn, InTurn', NEW t \in Requests, tx[t] # Idle, IssuePass(t)
    PROVE  Kept'
<1>1. tx[t] \in Request /\ t \in Active
  BY ActiveCurrent
<1>2. CASE passes # {}
  BY <1>1, <1>2, TurnRollsBack DEF IssuePass
<1>3. CASE passes = {}
  <2>1. PICK p \in Passes \ cancelled :
          Goes(t, [tx[t] EXCEPT !.at = "save", !.copy.approval = p, !.born = p, !.lock = p])
    BY <1>3 DEF IssuePass
  <2>2. PICK r : r = [tx[t] EXCEPT !.at = "save", !.copy.approval = p, !.born = p, !.lock = p]
    OBVIOUS
  <2>3. r \in Request
    BY <1>1, <2>2 DEF Request, Stage, Row
  <2>4. /\ r.at = "save" /\ r.partial = tx[t].partial
        /\ r.accepts = tx[t].accepts /\ r.app = tx[t].app /\ r.copy.state = tx[t].copy.state
        /\ r.copy.approval = p /\ r.seen = tx[t].seen /\ r.born = p
        /\ r.pending = tx[t].pending /\ r.writes = tx[t].writes
    BY <1>1, <2>2 DEF Request, Row
  <2>5. tx' = [tx EXCEPT ![t] = r] /\ Quiet /\ p # NoPass
    BY <2>1, <2>2, HiringAssumption DEF IssuePass, Goes
  <2> QED BY <2>1, <2>3, <2>4, <2>5, ChoosesInTurn
<1> QED BY <1>2, <1>3
-----------------------------------------------------------------------------
LEMMA CheckPassInTurn ==
    ASSUME TurnInv, InTurn, InTurn', NEW t \in Requests, tx[t] # Idle, CheckPass(t)
    PROVE  Kept'
<1>1. tx[t] \in Request /\ t \in Active /\ Current(tx[t]) /\ tx[t].accepts = FALSE
      /\ tx[t].at = "check"
  BY ActiveCurrent DEF CheckPass, Request, Sound, Staged
<1>2. CASE Goes(t, Idle)
  BY <1>1, <1>2, TurnRollsBack DEF CheckPass
<1>3. ASSUME NEW stage \in {"detach", "save"}, Goes(t, [tx[t] EXCEPT !.at = stage]),
             stage = "detach" => CanBeDeleted(tx[t].copy.approval)
      PROVE  Kept'
  <2>1. PICK r : r = [tx[t] EXCEPT !.at = stage]
    OBVIOUS
  <2>2. r \in Request
    BY <1>1, <2>1 DEF Request, Stage
  <2>3. /\ r.at = stage /\ r.partial = tx[t].partial
        /\ r.accepts = FALSE /\ r.app = tx[t].app /\ r.copy = tx[t].copy
        /\ r.seen = tx[t].seen /\ r.born = tx[t].born
        /\ r.pending = tx[t].pending /\ r.writes = tx[t].writes
    BY <1>1, <2>1 DEF Request
  <2>4. Current(r)
    BY <1>1, <1>3, <2>3 DEF Current
  <2>5. tx' = [tx EXCEPT ![t] = r] /\ Quiet
    BY <1>3, <2>1 DEF CheckPass, Goes
  <2> QED BY <2>2, <2>4, <2>5, TurnMoves
<1> QED BY <1>2, <1>3 DEF CheckPass

(* The approval is that of the cancelled application, and of no other.     *)
LEMMA DetachInTurn ==
    ASSUME TurnInv, InTurn, InTurn', NEW t \in Requests, tx[t] # Idle, Detach(t)
    PROVE  Kept'
<1>1. tx[t] \in Request /\ t \in Active /\ Current(tx[t]) /\ HiringInv
      /\ tx[t].accepts = FALSE /\ tx[t].at = "detach"
  BY ActiveCurrent DEF Detach, Request, Sound, Staged
<1>2. PICK p : p = tx[t].copy.approval
  OBVIOUS
<1>3. p \in Passes \union {NoPass} /\ tx[t].copy \in Row /\ tx[t].app \in Applications
  BY <1>1, <1>2 DEF Request, Row
<1>4. Holders(p) = {tx[t].app}
  <2>1. tx[t].app \in Holders(p) /\ CanBeDeleted(p)
    BY <1>1, <1>2, <1>3 DEF Current, Holders
  <2> QED BY <2>1 DEF CanBeDeleted
<1>5. CASE p \in cancelled
  BY <1>1, <1>2, <1>5, TurnRollsBack DEF Detach
<1>6. CASE p \notin cancelled
  <2>1. PICK g : g = [b \in Applications |->
                        IF b \in Holders(p) THEN [apps[b] EXCEPT !.approval = NoPass] ELSE NoRow]
    OBVIOUS
  <2>2. \A b \in Applications : g[b] # NoRow => b = tx[t].app
    BY <1>4, <2>1
  <2>3. apps[tx[t].app] \in Row \union {NoRow}
    BY <1>1, <1>3 DEF HiringInv, TypeOK
  <2>4. [apps[tx[t].app] EXCEPT !.approval = NoPass] \in Row \union {NoRow}
    BY <2>3 DEF Row, NoRow
  <2>5. g \in [Applications -> Row \union {NoRow}]
    BY <1>4, <2>1, <2>4
  <2>6. PICK copy : copy = [tx[t].copy EXCEPT !.approval = NoPass]
    OBVIOUS
  <2>7. copy \in Row /\ copy.state = tx[t].copy.state
    BY <1>3, <2>6 DEF Row
  <2>8. PICK r : r = [tx[t] EXCEPT !.at = "remove", !.gone = p, !.copy = copy, !.writes = g]
    OBVIOUS
  <2>9. r \in Request
    BY <1>1, <1>3, <2>5, <2>7, <2>8 DEF Request, Stage
  <2>10. /\ r.at = "remove" /\ r.writes = g /\ r.copy = copy /\ r.partial = tx[t].partial
         /\ r.accepts = FALSE /\ r.app = tx[t].app
         /\ r.seen = tx[t].seen /\ r.born = tx[t].born /\ r.pending = tx[t].pending
    BY <1>1, <2>8 DEF Request
  <2>11. Current(r)
    BY <1>1, <2>2, <2>7, <2>10 DEF Current
  <2>12. tx' = [tx EXCEPT ![t] = r] /\ Quiet
    <3>1. r = [tx[t] EXCEPT !.at = "remove", !.gone = p, !.copy.approval = NoPass, !.writes = g]
      BY <1>1, <2>6, <2>8 DEF Request
    <3> QED BY <1>2, <1>6, <2>1, <3>1 DEF Detach, Goes
  <2> QED BY <2>9, <2>11, <2>12, TurnMoves
<1> QED BY <1>5, <1>6

LEMMA RemovePassInTurn ==
    ASSUME TurnInv, InTurn', NEW t \in Requests, tx[t] # Idle, RemovePass(t)
    PROVE  Kept'
<1>1. tx[t] \in Request /\ Current(tx[t]) /\ tx[t].accepts = FALSE
  BY ActiveCurrent DEF RemovePass, Request, Sound, Staged
<1>2. PICK r : r = [tx[t] EXCEPT !.at = "save", !.lock = tx[t].gone]
  OBVIOUS
<1>3. r \in Request
  BY <1>1, <1>2 DEF Request, Stage
<1>4. /\ r.at = "save" /\ r.partial = tx[t].partial
      /\ r.accepts = FALSE /\ r.app = tx[t].app /\ r.copy = tx[t].copy
      /\ r.seen = tx[t].seen /\ r.born = tx[t].born
      /\ r.pending = tx[t].pending /\ r.writes = tx[t].writes
  BY <1>1, <1>2 DEF Request
<1>5. Current(r)
  BY <1>1, <1>4 DEF Current
<1>6. tx' = [tx EXCEPT ![t] = r] /\ Quiet
  BY <1>2 DEF RemovePass, Goes
<1> QED BY <1>3, <1>5, <1>6, TurnMoves

LEMMA SaveInTurn ==
    ASSUME TurnInv, InTurn', NEW t \in Requests, tx[t] # Idle, Save(t)
    PROVE  Kept'
<1>1. tx[t] \in Request /\ Current(tx[t]) /\ HiringInv /\ tx[t].at = "save"
  BY ActiveCurrent DEF Save
<1>2. PICK a : a = tx[t].app
  OBVIOUS
<1>3. a \in Applications /\ tx[t].copy \in Row
      /\ tx[t].writes \in [Applications -> Row \union {NoRow}]
      /\ apps[a] \in Row \union {NoRow}
  BY <1>1, <1>2 DEF Request, HiringInv, TypeOK
<1>4. PICK row : row = IF tx[t].partial THEN [apps[a] EXCEPT !.state = tx[t].copy.state]
                       ELSE tx[t].copy
  OBVIOUS
<1>5. row \in Row /\ row.state = tx[t].copy.state
  <2>1. tx[t].copy.state \in State
    BY <1>3 DEF Row
  <2>2. CASE tx[t].partial
    <3>1. row = [apps[a] EXCEPT !.state = tx[t].copy.state]
      BY <1>4, <2>2
    <3> QED BY <1>3, <2>1, <3>1 DEF Row, NoRow
  <2>3. CASE ~tx[t].partial
    BY <1>3, <1>4, <2>3
  <2> QED BY <2>2, <2>3
<1>6. tx[t].accepts => row.approval = tx[t].copy.approval
  BY <1>1, <1>4 DEF Current
<1>7. PICK g : g = [tx[t].writes EXCEPT ![a] = row]
  OBVIOUS
<1>8. /\ g \in [Applications -> Row \union {NoRow}] /\ g[a] = row
      /\ \A b \in Applications \ {a} : g[b] = tx[t].writes[b]
  BY <1>3, <1>5, <1>7
<1>9. PICK r : r = [tx[t] EXCEPT !.at = "commit", !.writes = g]
  OBVIOUS
<1>10. r \in Request
  BY <1>1, <1>8, <1>9 DEF Request, Stage
<1>11. /\ r.at = "commit" /\ r.writes = g /\ r.partial = tx[t].partial
       /\ r.accepts = tx[t].accepts /\ r.app = a /\ r.copy = tx[t].copy
       /\ r.seen = tx[t].seen /\ r.born = tx[t].born /\ r.pending = tx[t].pending
  BY <1>1, <1>2, <1>9 DEF Request
<1>12. Current(r)
  <2>1. \A b \in Applications :
          /\ r.pending[b] # NoRow => apps[b].state # "accepted"
          /\ r.writes[b] # NoRow /\ apps[b].state = "accepted" => b = r.app
    BY <1>1, <1>2, <1>8, <1>11 DEF Current
  <2> QED BY <1>1, <1>2, <1>5, <1>6, <1>8, <1>11, <2>1 DEF Current
<1>13. tx' = [tx EXCEPT ![t] = r] /\ Quiet
  <2>1. r = [tx[t] EXCEPT !.at = "commit", !.writes[a] = row]
    BY <1>1, <1>7, <1>9 DEF Request
  <2> QED BY <1>2, <1>4, <2>1 DEF Save, Goes
<1> QED BY <1>10, <1>12, <1>13, TurnMoves
-----------------------------------------------------------------------------
(* The rows after a commit.                                                *)
LEMMA CommitsRows ==
    ASSUME TurnInv, NEW t \in Requests, tx[t] # Idle, Commit(t), ~Quiet, NEW a \in Applications
    PROVE  /\ apps'[a] = IF tx[t].writes[a] # NoRow THEN tx[t].writes[a] ELSE apps[a]
           /\ apps[a].state = "accepted" => apps'[a].state \in {"accepted", "cancelled"}
           /\ apps'[a].state = "accepted" /\ tx[t].writes[a] # NoRow =>
                 tx[t].accepts /\ a = tx[t].app
<1>1. Current(tx[t]) /\ Sound(tx[t]) /\ tx[t].at = "commit"
  BY ActiveCurrent DEF Commit
<1>2. apps'[a] = IF tx[t].writes[a] # NoRow THEN tx[t].writes[a] ELSE apps[a]
  BY DEF Commit, Merged
<1>3. apps[a].state = "accepted" => apps'[a].state \in {"accepted", "cancelled"}
  BY <1>1, <1>2 DEF Current
<1>4. ASSUME apps'[a].state = "accepted", tx[t].writes[a] # NoRow
      PROVE  tx[t].accepts /\ a = tx[t].app
  BY <1>1, <1>2, <1>4 DEF Current, Sound, RowsKnown
<1> QED BY <1>2, <1>3, <1>4

LEMMA CommitInTurn ==
    ASSUME TurnInv, InTurn, NEW t \in Requests, tx[t] # Idle, Commit(t)
    PROVE  Kept'
<1>1. /\ tx[t] \in Request /\ t \in Active /\ Current(tx[t])
      /\ tx[t].at = "commit" /\ Goes(t, Idle)
  BY ActiveCurrent DEF Commit
<1>2. CASE Quiet
  BY <1>1, <1>2, TurnRollsBack
<1>3. CASE ~Quiet
  <2>1. /\ ForeignKeysHold(t) /\ passes' = PassesAfter(t)
        /\ cancelled' = cancelled \union ({tx[t].gone} \ {NoPass})
    BY <1>3 DEF Commit
  <2>2. NoneReturns'
    BY <1>1, <2>1 DEF Current, PassesAfter, TurnInv, Kept, NoneReturns
  <2>3. ASSUME NEW a \in Siae, apps'[a].state = "accepted"
        PROVE  apps'[a].approval \in passes'
    <3>1. a \in Applications
      BY HiringAssumption
    <3>2. CASE tx[t].writes[a] # NoRow
      <4>1. tx[t].accepts /\ a = tx[t].app /\ apps'[a] = tx[t].writes[a]
        BY <1>3, <2>3, <3>1, <3>2, CommitsRows
      <4>2. apps'[a].approval # NoPass
        BY <1>1, <4>1 DEF Current
      <4> QED BY <2>1, <3>1, <3>2, <4>1, <4>2 DEF ForeignKeysHold
    <3>3. CASE tx[t].writes[a] = NoRow
      <4>1. apps'[a] = apps[a] /\ Merged(t)[a] = apps[a]
        BY <1>3, <3>1, <3>3, CommitsRows DEF Merged
      <4>2. apps[a].approval \in passes
        BY <2>3, <4>1 DEF TurnInv, Kept, AcceptedHasPass
      <4>3. apps[a].approval # NoPass
        BY <4>2, HiringAssumption DEF TurnInv, HiringInv, TypeOK
      <4>4. apps[a].approval # tx[t].gone
        BY <2>1, <3>1, <4>1, <4>3 DEF ForeignKeysHold
      <4> QED BY <2>1, <4>1, <4>2, <4>4 DEF PassesAfter
    <3> QED BY <3>2, <3>3
  <2>4. Active' = {}
    BY <1>1, TurnEnds
  <2> QED BY <2>2, <2>3, <2>4 DEF Kept, AcceptedHasPass
<1> QED BY <1>2, <1>3

LEMMA TurnInvInit == Init => TurnInv
<1> SUFFICES ASSUME Init PROVE TurnInv
  OBVIOUS
<1>1. HiringInv
  BY HiringInvInit
<1>2. \A a \in Siae : apps[a].state # "accepted"
  BY HiringAssumption DEF Init, NoRows, NoRow
<1>3. Active = {} /\ NoneReturns
  BY DEF Init, Active, NoneReturns
<1> QED BY <1>1, <1>2, <1>3 DEF TurnInv, Kept, AcceptedHasPass

LEMMA TurnInvNext == TurnInv /\ InTurn /\ InTurn' /\ [Next]_vars => TurnInv'
<1> SUFFICES ASSUME TurnInv, InTurn, InTurn', [Next]_vars PROVE TurnInv'
  OBVIOUS
<1>0. HiringInv'
  BY HiringInvNext DEF TurnInv
<1>1. ASSUME NEW a \in Applications, Submit(a) PROVE Kept'
  BY <1>1, SubmitInTurn
<1>2. ASSUME NEW t \in Requests, NEW a \in Applications, Hire(t, a) PROVE Kept'
  BY <1>2, HireInTurn
<1>3. ASSUME NEW t \in Requests, NEW a \in Applications, NEW op \in Operations, Load(t, a, op)
      PROVE Kept'
  BY <1>3, LoadInTurn
<1>4. ASSUME NEW t \in Requests, Rollback(t) PROVE Kept'
  <2>1. t \in Active
    BY <1>4 DEF Rollback, Active
  <2> QED BY <1>4, <2>1, TurnRollsBack DEF Rollback
<1>5. ASSUME NEW t \in Requests, Proceed(t) PROVE Kept'
  <2>1. tx[t] # Idle
    BY <1>5, IdleStays
  <2>2. CASE LockUser(t)
    BY <2>1, <2>2, LockUserInTurn
  <2>3. CASE ReadPending(t)
    BY <2>1, <2>3, ReadPendingInTurn
  <2>4. CASE \E b \in Applications : RenderObsolete(t, b)
    BY <2>1, <2>4, RenderObsoleteInTurn
  <2>5. CASE WithoutPass(t)
    BY <2>1, <2>5, WithoutPassInTurn
  <2>6. CASE ReusePass(t)
    BY <2>1, <2>6, ReusePassInTurn
  <2>7. CASE ReuseAndMovePass(t)
    BY <2>1, <2>7, ReuseAndMovePassInTurn
  <2>8. CASE IssuePass(t)
    BY <2>1, <2>8, IssuePassInTurn
  <2>9. CASE CheckPass(t)
    BY <2>1, <2>9, CheckPassInTurn
  <2>10. CASE Detach(t)
    BY <2>1, <2>10, DetachInTurn
  <2>11. CASE RemovePass(t)
    BY <2>1, <2>11, RemovePassInTurn
  <2>12. CASE Save(t)
    BY <2>1, <2>12, SaveInTurn
  <2>13. CASE Commit(t)
    BY <2>1, <2>13, CommitInTurn
  <2> QED BY <1>5, <2>2, <2>3, <2>4, <2>5, <2>6, <2>7, <2>8, <2>9, <2>10, <2>11, <2>12, <2>13
          DEF Proceed
<1>6. CASE UNCHANGED vars
  <2>1. apps' = apps /\ passes' = passes /\ cancelled' = cancelled /\ tx' = tx
    BY <1>6 DEF vars
  <2>2. Active' = Active
    BY <2>1 DEF Active
  <2>3. ASSUME NEW t \in Active PROVE Current(tx[t])'
    BY <2>1, <2>3 DEF TurnInv, Kept, Current, CanBeDeleted, Holders
  <2>4. NoneReturns' /\ AcceptedHasPass'
    BY <2>1 DEF TurnInv, Kept, NoneReturns, AcceptedHasPass
  <2> QED BY <1>0, <2>2, <2>3, <2>4 DEF TurnInv, Kept
<1> QED BY <1>0, <1>1, <1>2, <1>3, <1>4, <1>5, <1>6 DEF Next, TurnInv

LEMMA TurnInvariant == Spec /\ []InTurn => []TurnInv
BY TurnInvInit, TurnInvNext, PTL DEF Spec

LEMMA AcceptedIsKept ==
    ASSUME TurnInv, [Next]_vars
    PROVE  [\A a \in Applications :
              apps[a].state = "accepted" => apps'[a].state \in {"accepted", "cancelled"}]_vars
<1> SUFFICES ASSUME Next, NEW a \in Applications, apps[a].state = "accepted"
             PROVE  apps'[a].state \in {"accepted", "cancelled"}
  OBVIOUS
<1>1. CASE UNCHANGED apps
  BY <1>1
<1>2. ASSUME NEW b \in Applications, Submit(b)
      PROVE  apps'[a].state \in {"accepted", "cancelled"}
  BY <1>2 DEF TurnInv, HiringInv, TypeOK, Submit, NoRow
<1>3. ASSUME NEW t \in Requests, Commit(t)
      PROVE  apps'[a].state \in {"accepted", "cancelled"}
  <2>1. tx[t] # Idle
    BY <1>3, IdleStays DEF Proceed
  <2> QED BY <1>3, <2>1, CommitsRows DEF Quiet
<1>4. ASSUME NEW t \in Requests, NEW b \in Applications,
             Hire(t, b) \/ \E op \in Operations : Load(t, b, op)
      PROVE  UNCHANGED apps
  BY <1>4 DEF Hire, Load, Quiet
<1>5. ASSUME NEW t \in Requests, Rollback(t) \/ (Proceed(t) /\ ~Commit(t))
      PROVE  UNCHANGED apps
  BY <1>5 DEF Proceed, Quiet, Rollback, LockUser, ReadPending, RenderObsolete, WithoutPass,
              ReusePass, ReuseAndMovePass, IssuePass, CheckPass, Detach, RemovePass, Save
<1> QED BY <1>1, <1>2, <1>3, <1>4, <1>5 DEF Next

(* While no two requests on a job seeker overlap, an accepted application  *)
(* leaves this state by its cancellation only: it takes a copy loaded      *)
(* before another request commits to break the table of transitions of     *)
(* JobApplicationWorkflow.                                                 *)
THEOREM InTurnAcceptedOnlyCancelled == Spec /\ []InTurn => AcceptedOnlyCancelled
<1>1. TurnInv /\ [Next]_vars =>
        [\A a \in Applications :
           apps[a].state = "accepted" => apps'[a].state \in {"accepted", "cancelled"}]_vars
  BY AcceptedIsKept
<1> QED BY <1>1, TurnInvariant, PTL DEF Spec, AcceptedOnlyCancelled

(* While no two requests on a job seeker overlap, a cancelled approval     *)
(* does not come back, and an application accepted by a company subject    *)
(* to eligibility rules has an approval: cancelling a hiring deletes the   *)
(* approval of nobody else (JobApplicationWorkflow.cancel).                *)
THEOREM InTurnApprovalsStand == Spec /\ []InTurn => [](NoneReturns /\ AcceptedHasPass)
<1>1. TurnInv => NoneReturns /\ AcceptedHasPass
  BY DEF TurnInv, Kept
<1> QED BY <1>1, TurnInvariant, PTL
=============================================================================
