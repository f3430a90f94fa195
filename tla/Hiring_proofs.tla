--------------------------- MODULE Hiring_proofs ---------------------------
(***************************************************************************)
(* Proofs about Hiring, for any applications, companies, approvals,        *)
(* requests and views.                                                     *)
(*                                                                         *)
(* The invariant says of each request what it may do to the committed rows *)
(* (Sound), and of two requests that they hold no lock in common (Apart).  *)
(***************************************************************************)
EXTENDS Hiring, TLAPS

(* What the stage of a request says of it.                                 *)
Staged(r) ==
    /\ r.at \in {"lock", "pending", "obsolete"} => r.accepts
    /\ r.at \in {"check", "detach", "remove"} => ~r.accepts
    /\ r.at = "lock" => /\ r.born = NoPass
                        /\ \A a \in Applications : r.pending[a] = NoRow /\ r.writes[a] = NoRow
    /\ r.accepts /\ r.app \in Siae /\ r.at # "lock" => r.user
    /\ r.copy.state = "accepted" => r.accepts

(* An approval that was read is there or has been cancelled since; one     *)
(* that is inserted is the only one or a cancelled one.                    *)
PassKnown(r) ==
    /\ r.seen # NoPass => r.seen \in passes \union cancelled
    /\ r.born # NoPass => r.user /\ (r.born \in cancelled \/ passes = {})

(* Acceptance is written by who accepts, or where it stands already.       *)
RowsKnown(r) ==
    /\ \A a \in Applications : r.writes[a].state = "accepted" =>
           (r.accepts /\ a = r.app) \/ apps[a].state = "accepted"
    /\ r.accepts /\ r.app \in Siae =>
           \A a \in Siae \ {r.app} :
               r.pending[a] # NoRow \/ r.writes[a] # NoRow => apps[a].state # "accepted"

Sound(r) == Staged(r) /\ PassKnown(r) /\ RowsKnown(r)

Apart(r, s) ==
    /\ ~(r.user /\ s.user)
    /\ \A a \in Applications : r.writes[a] = NoRow \/ s.writes[a] = NoRow

HiringInv ==
    /\ TypeOK
    /\ \A t \in Active : Sound(tx[t])
    /\ \A t, u \in Active : t # u => Apart(tx[t], tx[u])
    /\ OnePass

-----------------------------------------------------------------------------
LEMMA RequestIsNotIdle == Idle \notin Request
BY DEF Idle, Request, Stage

LEMMA ActiveRequest ==
    ASSUME TypeOK, NEW t \in Requests, tx[t] # Idle
    PROVE  tx[t] \in Request /\ t \in Active
BY DEF TypeOK, Active

LEMMA NoRowsTyped == NoRows \in [Applications -> Row \union {NoRow}]
BY DEF NoRows

(* A request that moves on, the committed rows staying as they are.        *)
LEMMA MovesOn ==
    ASSUME HiringInv, NEW t \in Requests, NEW r \in Request,
           tx' = [tx EXCEPT ![t] = r], Quiet, Sound(r),
           \A u \in Active \ {t} : Apart(r, tx[u])
    PROVE  HiringInv'
<1>1. TypeOK'
  BY DEF HiringInv, TypeOK, Quiet
<1>2. /\ tx'[t] = r
      /\ \A u \in Requests \ {t} : tx'[u] = tx[u]
      /\ Active' \subseteq Active \union {t}
  BY DEF HiringInv, TypeOK, Active
<1>3. \A u \in Active' : Sound(tx[u])'
  BY <1>2 DEF HiringInv, Sound, Staged, PassKnown, RowsKnown, Quiet
<1>4. \A u, v \in Active' : u # v => Apart(tx[u], tx[v])'
  <2> SUFFICES ASSUME NEW u \in Active', NEW v \in Active', u # v
               PROVE  Apart(tx'[u], tx'[v])
    BY DEF Apart
  <2>1. CASE u = t
    BY <2>1, <1>2
  <2>2. CASE v = t
    BY <2>2, <1>2 DEF Apart
  <2>3. CASE u # t /\ v # t
    BY <2>3, <1>2 DEF HiringInv, Active
  <2> QED BY <2>1, <2>2, <2>3
<1>5. OnePass'
  BY DEF HiringInv, OnePass, Quiet
<1> QED BY <1>1, <1>3, <1>4, <1>5 DEF HiringInv

(* A request that ends without effect.                                     *)
LEMMA Ends ==
    ASSUME HiringInv, NEW t \in Requests, Goes(t, Idle), Quiet
    PROVE  HiringInv'
<1>1. TypeOK'
  BY DEF HiringInv, TypeOK, Quiet, Goes
<1>2. /\ Active' \subseteq Active
      /\ \A u \in Active' : tx'[u] = tx[u]
  BY DEF HiringInv, TypeOK, Active, Goes
<1>3. \A u \in Active' : Sound(tx[u])'
  BY <1>2 DEF HiringInv, Sound, Staged, PassKnown, RowsKnown, Quiet
<1>4. \A u, v \in Active' : u # v => Apart(tx[u], tx[v])'
  BY <1>2 DEF HiringInv, Apart
<1>5. OnePass'
  BY DEF HiringInv, OnePass, Quiet
<1> QED BY <1>1, <1>3, <1>4, <1>5 DEF HiringInv

-----------------------------------------------------------------------------
LEMMA SubmitKeeps ==
    ASSUME HiringInv, NEW a \in Applications, Submit(a)
    PROVE  HiringInv'
<1>1. TypeOK'
  BY DEF HiringInv, TypeOK, Submit, Row, State
<1>2. Active' = Active /\ tx' = tx
  BY DEF Active, Submit
<1>3. \A b \in Applications : apps'[b].state = "accepted" <=> apps[b].state = "accepted"
  BY DEF HiringInv, TypeOK, Submit, NoRow
<1>4. \A u \in Active : Sound(tx[u])'
  <2> TAKE u \in Active
  <2>1. Sound(tx[u])
    BY DEF HiringInv
  <2>2. RowsKnown(tx[u])'
    BY <2>1, <1>2, <1>3, HiringAssumption DEF Sound, RowsKnown
  <2> QED BY <2>1, <2>2, <1>2 DEF Sound, Staged, PassKnown, Submit
<1>5. OnePass'
  BY DEF HiringInv, OnePass, Submit
<1> QED BY <1>1, <1>2, <1>4, <1>5 DEF HiringInv, Apart

(* A request that begins.                                                  *)
LEMMA BeginSound ==
    ASSUME HiringInv, NEW a \in Applications, NEW stage \in {"lock", "check", "save"}, NEW op,
           NEW copy \in Row, NEW seen \in Passes \union {NoPass},
           seen # NoPass => seen \in passes,
           stage = "lock" <=> op \in {"accept", "hire"},
           copy.state = "accepted" => op \in {"accept", "hire"}
    PROVE  LET r == Begin(stage, op, a, copy, seen)
           IN  r \in Request /\ Sound(r) /\ \A u \in Active : Apart(r, tx[u])
<1> PICK r : r = Begin(stage, op, a, copy, seen)
  OBVIOUS
<1>1. r \in Request
  BY NoRowsTyped DEF Begin, Request, Stage
<1>2. /\ r.at = stage /\ r.accepts = (op \in {"accept", "hire"}) /\ r.copy = copy
      /\ r.seen = seen /\ r.app = a /\ r.user = FALSE /\ r.born = NoPass
      /\ r.pending = NoRows /\ r.writes = NoRows
  BY DEF Begin
<1>3. \A b \in Applications : r.pending[b] = NoRow /\ r.writes[b] = NoRow
  BY <1>2 DEF NoRows
<1>4. NoRow.state # "accepted"
  BY DEF NoRow
<1>5. Staged(r)
  BY <1>2, <1>3 DEF Staged
<1>6. PassKnown(r)
  BY <1>2 DEF PassKnown
<1>7. RowsKnown(r)
  BY <1>3, <1>4, HiringAssumption DEF RowsKnown
<1>8. \A u \in Active : Apart(r, tx[u])
  BY <1>2, <1>3 DEF Apart
<1> QED BY <1>1, <1>5, <1>6, <1>7, <1>8 DEF Sound

LEMMA TargetTyped ==
    ASSUME NEW op \in Operations \ {"hire"}, NEW state \in State, state \in Sources(op)
    PROVE  /\ Target(op, state) \in State
           /\ Target(op, state) = "accepted" => op = "accept"
BY HiringAssumption DEF Target, State, Sources, Pending, CanBeAccepted

LEMMA LoadKeeps ==
    ASSUME HiringInv, NEW t \in Requests, NEW a \in Applications, NEW op \in Operations,
           Load(t, a, op)
    PROVE  HiringInv'
<1>1. op \in Operations \ {"hire"} /\ apps[a] \in Row /\ apps[a].state \in State
      /\ apps[a].state \in Sources(op)
  BY DEF HiringInv, TypeOK, Load, Row, NoRow
<1>2. PICK copy : copy = [apps[a] EXCEPT !.state = Target(op, @)]
  OBVIOUS
<1>3. copy.state = Target(op, apps[a].state) /\ copy \in Row
  BY <1>1, <1>2, TargetTyped DEF Row
<1>4. copy.state = "accepted" => op = "accept"
  BY <1>1, <1>3, TargetTyped
<1>5. PICK seen \in Latest :
         Goes(t, Begin(IF op = "accept" THEN "lock" ELSE IF op = "cancel" THEN "check" ELSE "save",
                       op, a, copy, IF op = "accept" THEN seen ELSE NoPass))
  BY <1>2 DEF Load
<1>6. seen \in Passes \union {NoPass} /\ (seen # NoPass => seen \in passes)
  BY <1>5 DEF Latest, HiringInv, TypeOK
<1>7. PICK stage : stage = IF op = "accept" THEN "lock" ELSE IF op = "cancel" THEN "check" ELSE "save"
  OBVIOUS
<1>8. PICK p : p = IF op = "accept" THEN seen ELSE NoPass
  OBVIOUS
<1>9. PICK r : r = Begin(stage, op, a, copy, p)
  OBVIOUS
<1>10. /\ stage \in {"lock", "check", "save"} /\ (stage = "lock" <=> op \in {"accept", "hire"})
       /\ p \in Passes \union {NoPass} /\ (p # NoPass => p \in passes)
  BY <1>1, <1>6, <1>7, <1>8
<1>11. r \in Request /\ Sound(r) /\ \A u \in Active : Apart(r, tx[u])
  BY <1>3, <1>4, <1>9, <1>10, BeginSound
<1>12. tx' = [tx EXCEPT ![t] = r] /\ Quiet
  BY <1>5, <1>7, <1>8, <1>9 DEF Goes, Load
<1> QED BY <1>11, <1>12, MovesOn

LEMMA HireKeeps ==
    ASSUME HiringInv, NEW t \in Requests, NEW a \in Applications, Hire(t, a)
    PROVE  HiringInv'
<1>1. PICK copy : copy = [state |-> "accepted", approval |-> NoPass]
  OBVIOUS
<1>2. copy \in Row
  BY <1>1 DEF Row, State
<1>3. PICK seen \in Latest : Goes(t, Begin("lock", "hire", a, copy, seen))
  BY <1>1 DEF Hire
<1>4. seen \in Passes \union {NoPass} /\ (seen # NoPass => seen \in passes)
  BY <1>3 DEF Latest, HiringInv, TypeOK
<1>5. PICK r : r = Begin("lock", "hire", a, copy, seen)
  OBVIOUS
<1>6. r \in Request /\ Sound(r) /\ \A u \in Active : Apart(r, tx[u])
  BY <1>2, <1>4, <1>5, BeginSound
<1>7. tx' = [tx EXCEPT ![t] = r] /\ Quiet
  BY <1>3, <1>5 DEF Goes, Hire
<1> QED BY <1>6, <1>7, MovesOn
-----------------------------------------------------------------------------
(* A request that goes on keeping its writes, and its hold on the row of   *)
(* the job seeker, stays apart from the others.                            *)
LEMMA StillApart ==
    ASSUME HiringInv, NEW t \in Active, NEW r, r.user = tx[t].user, r.writes = tx[t].writes
    PROVE  \A u \in Active \ {t} : Apart(r, tx[u])
BY DEF HiringInv, Apart

LEMMA LockUserKeeps ==
    ASSUME HiringInv, NEW t \in Requests, tx[t] # Idle, LockUser(t)
    PROVE  HiringInv'
<1>0. PICK held \in BOOLEAN : held = (tx[t].app \in Siae)
  <2>1. (tx[t].app \in Siae) \in BOOLEAN
    OBVIOUS
  <2> QED BY <2>1, Zenon
<1>1. tx[t] \in Request /\ t \in Active /\ Sound(tx[t]) /\ tx[t].at = "lock"
  BY ActiveRequest DEF HiringInv, LockUser
<1>2. PICK r : r = [tx[t] EXCEPT !.at = "pending", !.user = held]
  OBVIOUS
<1>3. r \in Request
  BY <1>1, <1>2 DEF Request, Stage
<1>4. /\ r.at = "pending" /\ r.user = held
      /\ r.accepts = tx[t].accepts /\ r.app = tx[t].app /\ r.copy = tx[t].copy
      /\ r.seen = tx[t].seen /\ r.born = tx[t].born
      /\ r.pending = tx[t].pending /\ r.writes = tx[t].writes
  BY <1>1, <1>2 DEF Request
<1>5. Sound(r)
  <2>1. Staged(tx[t]) /\ PassKnown(tx[t]) /\ RowsKnown(tx[t])
    BY <1>1 DEF Sound
  <2>2. Staged(r)
    BY <1>0, <1>1, <1>4, <2>1 DEF Staged
  <2>3. PassKnown(r)
    BY <1>1, <1>4, <2>1 DEF Staged, PassKnown
  <2>4. RowsKnown(r)
    BY <1>4, <2>1 DEF RowsKnown
  <2> QED BY <2>2, <2>3, <2>4 DEF Sound
<1>6. \A u \in Active \ {t} : Apart(r, tx[u])
  BY <1>0, <1>1, <1>4 DEF Sound, Staged, Apart, LockUser, UserLockedByOther
<1>7. tx' = [tx EXCEPT ![t] = r] /\ Quiet
  BY <1>0, <1>2 DEF LockUser, Goes
<1> QED BY <1>3, <1>5, <1>6, <1>7, MovesOn

LEMMA ReadPendingKeeps ==
    ASSUME HiringInv, NEW t \in Requests, tx[t] # Idle, ReadPending(t)
    PROVE  HiringInv'
<1>1. tx[t] \in Request /\ t \in Active /\ Sound(tx[t]) /\ tx[t].at = "pending"
  BY ActiveRequest DEF HiringInv, ReadPending
<1>2. PICK f : f = [b \in Applications |->
                      IF b # tx[t].app /\ apps[b].state \in Pending THEN apps[b] ELSE NoRow]
  OBVIOUS
<1>3. /\ f \in [Applications -> Row \union {NoRow}]
      /\ \A b \in Applications : f[b] # NoRow => apps[b].state # "accepted"
  BY <1>2 DEF HiringInv, TypeOK, Pending
<1>4. PICK r : r = [tx[t] EXCEPT !.at = "obsolete", !.pending = f]
  OBVIOUS
<1>5. r \in Request
  BY <1>1, <1>3, <1>4 DEF Request, Stage
<1>6. /\ r.at = "obsolete" /\ r.pending = f /\ r.user = tx[t].user
      /\ r.accepts = tx[t].accepts /\ r.app = tx[t].app /\ r.copy = tx[t].copy
      /\ r.seen = tx[t].seen /\ r.born = tx[t].born /\ r.writes = tx[t].writes
  BY <1>1, <1>4 DEF Request
<1>7. Sound(r)
  BY <1>1, <1>3, <1>6, HiringAssumption DEF Sound, Staged, PassKnown, RowsKnown
<1>8. \A u \in Active \ {t} : Apart(r, tx[u])
  BY <1>1, <1>6, StillApart
<1>9. tx' = [tx EXCEPT ![t] = r] /\ Quiet
  BY <1>2, <1>4 DEF ReadPending, Goes
<1> QED BY <1>5, <1>7, <1>8, <1>9, MovesOn

LEMMA RenderObsoleteKeeps ==
    ASSUME HiringInv, NEW t \in Requests, tx[t] # Idle, NEW b \in Applications,
           RenderObsolete(t, b)
    PROVE  HiringInv'
<1>1. /\ tx[t] \in Request /\ t \in Active /\ Sound(tx[t])
      /\ tx[t].at = "obsolete" /\ tx[t].pending[b] # NoRow
  BY ActiveRequest DEF HiringInv, RenderObsolete
<1>2. tx[t].pending \in [Applications -> Row \union {NoRow}]
      /\ tx[t].writes \in [Applications -> Row \union {NoRow}]
  BY <1>1 DEF Request
<1>3. tx[t].pending[b] \in Row
  BY <1>1, <1>2
<1>4. PICK row : row = [tx[t].pending[b] EXCEPT !.state = "obsolete"]
  OBVIOUS
<1>5. row \in Row /\ row.state = "obsolete"
  BY <1>3, <1>4 DEF Row, State
<1>6. PICK f : f = [tx[t].pending EXCEPT ![b] = NoRow]
  OBVIOUS
<1>7. PICK g : g = [tx[t].writes EXCEPT ![b] = row]
  OBVIOUS
<1>8. /\ f \in [Applications -> Row \union {NoRow}] /\ g \in [Applications -> Row \union {NoRow}]
      /\ \A a \in Applications \ {b} : f[a] = tx[t].pending[a] /\ g[a] = tx[t].writes[a]
      /\ f[b] = NoRow /\ g[b] = row
  BY <1>2, <1>5, <1>6, <1>7
<1>9. PICK r : r = [tx[t] EXCEPT !.pending = f, !.writes = g]
  OBVIOUS
<1>10. r \in Request
  BY <1>1, <1>8, <1>9 DEF Request
<1>11. /\ r.at = "obsolete" /\ r.pending = f /\ r.writes = g /\ r.user = tx[t].user
       /\ r.accepts = tx[t].accepts /\ r.app = tx[t].app /\ r.copy = tx[t].copy
       /\ r.seen = tx[t].seen /\ r.born = tx[t].born
  BY <1>1, <1>9 DEF Request
<1>12. Staged(r) /\ PassKnown(r)
  BY <1>1, <1>11 DEF Sound, Staged, PassKnown
<1>13. RowsKnown(r)
  BY <1>1, <1>5, <1>8, <1>11, HiringAssumption DEF Sound, RowsKnown
<1>14. \A u \in Active \ {t} : Apart(r, tx[u])
  <2> SUFFICES ASSUME NEW u \in Active \ {t} PROVE Apart(r, tx[u])
    OBVIOUS
  <2>1. Apart(tx[t], tx[u]) /\ tx[u].writes[b] = NoRow
    BY <1>1 DEF HiringInv, RenderObsolete, LockedByOther
  <2> QED BY <2>1, <1>8, <1>11 DEF Apart
<1>15. tx' = [tx EXCEPT ![t] = r] /\ Quiet
  <2>1. r = [tx[t] EXCEPT !.pending[b] = NoRow,
                          !.writes[b] = [tx[t].pending[b] EXCEPT !.state = "obsolete"]]
    BY <1>1, <1>4, <1>6, <1>7, <1>9 DEF Request
  <2> QED BY <2>1 DEF RenderObsolete, Goes
<1> QED BY <1>10, <1>12, <1>13, <1>14, <1>15, MovesOn DEF Sound

(* The steps that choose an approval: the request keeps its rows, and goes *)
(* to the stage where it saves its application.                            *)
LEMMA ChoosesPass ==
    ASSUME HiringInv, NEW t \in Requests, tx[t] # Idle, tx[t].at = "obsolete",
           NEW r \in Request, r.at = "save", r.accepts = tx[t].accepts, r.app = tx[t].app,
           r.copy.state = tx[t].copy.state, r.seen = tx[t].seen, r.user = tx[t].user,
           r.pending = tx[t].pending, r.writes = tx[t].writes,
           \/ r.born \in {NoPass, tx[t].born}
           \/ r.app \in Siae /\ (r.born \in cancelled \/ passes = {}),
           tx' = [tx EXCEPT ![t] = r], Quiet
    PROVE  HiringInv'
<1>1. tx[t] \in Request /\ t \in Active /\ Sound(tx[t])
  BY ActiveRequest DEF HiringInv
<1>2. Sound(r)
  BY <1>1 DEF Sound, Staged, PassKnown, RowsKnown
<1>3. \A u \in Active \ {t} : Apart(r, tx[u])
  BY <1>1, StillApart
<1> QED BY <1>2, <1>3, MovesOn

LEMMA WithoutPassKeeps ==
    ASSUME HiringInv, NEW t \in Requests, tx[t] # Idle, WithoutPass(t)
    PROVE  HiringInv'
<1>1. tx[t] \in Request /\ tx[t].at = "obsolete"
  BY ActiveRequest DEF HiringInv, WithoutPass, Rendered
<1>2. PICK r : r = [tx[t] EXCEPT !.at = "save"]
  OBVIOUS
<1>3. r \in Request
  BY <1>1, <1>2 DEF Request, Stage
<1>4. /\ r.at = "save" /\ r.user = tx[t].user
      /\ r.accepts = tx[t].accepts /\ r.app = tx[t].app /\ r.copy = tx[t].copy
      /\ r.seen = tx[t].seen /\ r.born = tx[t].born
      /\ r.pending = tx[t].pending /\ r.writes = tx[t].writes
  BY <1>1, <1>2 DEF Request
<1>5. tx' = [tx EXCEPT ![t] = r] /\ Quiet
  BY <1>2 DEF WithoutPass, Goes
<1> QED BY <1>1, <1>3, <1>4, <1>5, ChoosesPass

LEMMA ReusePassKeeps ==
    ASSUME HiringInv, NEW t \in Requests, tx[t] # Idle, ReusePass(t)
    PROVE  HiringInv'
<1>1. tx[t] \in Request /\ tx[t].at = "obsolete"
  BY ActiveRequest DEF HiringInv, ReusePass, Rendered
<1>2. PICK r : r = [tx[t] EXCEPT !.at = "save", !.copy.approval = tx[t].seen]
  OBVIOUS
<1>3. r \in Request
  BY <1>1, <1>2 DEF Request, Stage, Row
<1>4. /\ r.at = "save" /\ r.user = tx[t].user
      /\ r.accepts = tx[t].accepts /\ r.app = tx[t].app /\ r.copy.state = tx[t].copy.state
      /\ r.seen = tx[t].seen /\ r.born = tx[t].born
      /\ r.pending = tx[t].pending /\ r.writes = tx[t].writes
  BY <1>1, <1>2 DEF Request, Row
<1>5. tx' = [tx EXCEPT ![t] = r] /\ Quiet
  BY <1>2 DEF ReusePass, Goes
<1> QED BY <1>1, <1>3, <1>4, <1>5, ChoosesPass

LEMMA ReuseAndMovePassKeeps ==
    ASSUME HiringInv, NEW t \in Requests, tx[t] # Idle, ReuseAndMovePass(t)
    PROVE  HiringInv'
<1>1. /\ tx[t] \in Request /\ tx[t].at = "obsolete" /\ Sound(tx[t])
      /\ tx[t].app \in Siae /\ tx[t].seen # NoPass
  BY ActiveRequest DEF HiringInv, ReuseAndMovePass, Rendered
<1>2. PICK p : p = IF tx[t].seen \in passes THEN NoPass ELSE tx[t].seen
  OBVIOUS
<1>3. p \in Passes \union {NoPass} /\ (p = NoPass \/ p \in cancelled)
  BY <1>1, <1>2 DEF Request, Sound, PassKnown
<1>4. PICK r : r = [tx[t] EXCEPT !.at = "save", !.copy.approval = tx[t].seen,
                                 !.lock = tx[t].seen, !.born = p]
  OBVIOUS
<1>5. r \in Request
  BY <1>1, <1>3, <1>4 DEF Request, Stage, Row
<1>6. /\ r.at = "save" /\ r.user = tx[t].user
      /\ r.accepts = tx[t].accepts /\ r.app = tx[t].app /\ r.copy.state = tx[t].copy.state
      /\ r.seen = tx[t].seen /\ r.born = p
      /\ r.pending = tx[t].pending /\ r.writes = tx[t].writes
  BY <1>1, <1>4 DEF Request, Row
<1>7. tx' = [tx EXCEPT ![t] = r] /\ Quiet
  BY <1>2, <1>4 DEF ReuseAndMovePass, Goes
<1> QED BY <1>1, <1>3, <1>5, <1>6, <1>7, ChoosesPass
LEMMA IssuePassKeeps ==
    ASSUME HiringInv, NEW t \in Requests, tx[t] # Idle, IssuePass(t)
    PROVE  HiringInv'
<1>1. tx[t] \in Request /\ tx[t].at = "obsolete" /\ tx[t].app \in Siae
  BY ActiveRequest DEF HiringInv, IssuePass, Rendered
<1>2. CASE passes # {}
  BY <1>2, Ends DEF IssuePass
<1>3. CASE passes = {}
  <2>1. PICK p \in Passes \ cancelled :
          Goes(t, [tx[t] EXCEPT !.at = "save", !.copy.approval = p, !.born = p, !.lock = p])
    BY <1>3 DEF IssuePass
  <2>2. PICK r : r = [tx[t] EXCEPT !.at = "save", !.copy.approval = p, !.born = p, !.lock = p]
    OBVIOUS
  <2>3. r \in Request
    BY <1>1, <2>2 DEF Request, Stage, Row
  <2>4. /\ r.at = "save" /\ r.user = tx[t].user
        /\ r.accepts = tx[t].accepts /\ r.app = tx[t].app /\ r.copy.state = tx[t].copy.state
        /\ r.seen = tx[t].seen
        /\ r.pending = tx[t].pending /\ r.writes = tx[t].writes
    BY <1>1, <2>2 DEF Request, Row
  <2>5. tx' = [tx EXCEPT ![t] = r] /\ Quiet
    BY <2>1, <2>2 DEF IssuePass, Goes
  <2> QED BY <1>1, <1>3, <2>3, <2>4, <2>5, ChoosesPass
<1> QED BY <1>2, <1>3

-----------------------------------------------------------------------------
LEMMA CheckPassKeeps ==
    ASSUME HiringInv, NEW t \in Requests, tx[t] # Idle, CheckPass(t)
    PROVE  HiringInv'
<1>1. tx[t] \in Request /\ t \in Active /\ Sound(tx[t]) /\ tx[t].at = "check"
  BY ActiveRequest DEF HiringInv, CheckPass
<1>2. CASE Goes(t, Idle)
  BY <1>2, Ends DEF CheckPass
<1>3. CASE \E stage \in {"detach", "save"} : Goes(t, [tx[t] EXCEPT !.at = stage])
  <2>1. PICK stage \in {"detach", "save"} : Goes(t, [tx[t] EXCEPT !.at = stage])
    BY <1>3
  <2>2. PICK r : r = [tx[t] EXCEPT !.at = stage]
    OBVIOUS
  <2>3. r \in Request
    BY <1>1, <2>2 DEF Request, Stage
  <2>4. /\ r.at \in {"detach", "save"} /\ r.user = tx[t].user
        /\ r.accepts = tx[t].accepts /\ r.app = tx[t].app /\ r.copy = tx[t].copy
        /\ r.seen = tx[t].seen /\ r.born = tx[t].born
        /\ r.pending = tx[t].pending /\ r.writes = tx[t].writes
    BY <1>1, <2>2 DEF Request
  <2>5. Sound(r)
    BY <1>1, <2>4 DEF Sound, Staged, PassKnown, RowsKnown
  <2>6. \A u \in Active \ {t} : Apart(r, tx[u])
    BY <1>1, <2>4, StillApart
  <2>7. tx' = [tx EXCEPT ![t] = r] /\ Quiet
    BY <2>1, <2>2 DEF CheckPass, Goes
  <2> QED BY <2>3, <2>5, <2>6, <2>7, MovesOn
<1> QED BY <1>2, <1>3 DEF CheckPass

LEMMA DetachKeeps ==
    ASSUME HiringInv, NEW t \in Requests, tx[t] # Idle, Detach(t)
    PROVE  HiringInv'
<1>1. tx[t] \in Request /\ t \in Active /\ Sound(tx[t]) /\ tx[t].at = "detach"
  BY ActiveRequest DEF HiringInv, Detach
<1>2. PICK p : p = tx[t].copy.approval
  OBVIOUS
<1>3. p \in Passes \union {NoPass} /\ tx[t].copy \in Row /\ tx[t].accepts = FALSE
  BY <1>1, <1>2 DEF Request, Row, Sound, Staged
<1>4. CASE p \in cancelled
  BY <1>2, <1>4, Ends DEF Detach
<1>5. CASE p \notin cancelled
  <2>1. PICK g : g = [b \in Applications |->
                        IF b \in Holders(p) THEN [apps[b] EXCEPT !.approval = NoPass] ELSE NoRow]
    OBVIOUS
  <2>2. \A b \in Applications :
          /\ apps[b] \in Row => /\ [apps[b] EXCEPT !.approval = NoPass] \in Row
                                /\ [apps[b] EXCEPT !.approval = NoPass].state = apps[b].state
          /\ [NoRow EXCEPT !.approval = NoPass] = NoRow
    BY DEF Row, NoRow
  <2>3. apps \in [Applications -> Row \union {NoRow}]
    BY DEF HiringInv, TypeOK
  <2>4. \A b \in Applications :
          /\ g[b] \in Row \union {NoRow}
          /\ g[b].state = "accepted" => apps[b].state = "accepted"
          /\ g[b] # NoRow => b \in Holders(p)
    <3> SUFFICES ASSUME NEW b \in Applications
                 PROVE  /\ g[b] \in Row \union {NoRow}
                        /\ g[b].state = "accepted" => apps[b].state = "accepted"
                        /\ g[b] # NoRow => b \in Holders(p)
      OBVIOUS
    <3>1. CASE b \in Holders(p) /\ apps[b] \in Row
      <4>1. g[b] = [apps[b] EXCEPT !.approval = NoPass]
        BY <2>1, <3>1
      <4> QED BY <2>2, <3>1, <4>1
    <3>2. CASE b \in Holders(p) /\ apps[b] = NoRow
      <4>1. g[b] = [NoRow EXCEPT !.approval = NoPass]
        BY <2>1, <3>2
      <4>2. g[b] = NoRow
        BY <4>1, <2>2
      <4> QED BY <3>2, <4>2
    <3>3. CASE b \notin Holders(p)
      <4>1. g[b] = NoRow
        BY <2>1, <3>3
      <4> QED BY <4>1 DEF NoRow
    <3> QED BY <2>3, <3>1, <3>2, <3>3
  <2>5. g \in [Applications -> Row \union {NoRow}]
    BY <2>1, <2>4
  <2>6. PICK copy : copy = [tx[t].copy EXCEPT !.approval = NoPass]
    OBVIOUS
  <2>7. copy \in Row /\ copy.state = tx[t].copy.state
    BY <1>3, <2>6 DEF Row
  <2>8. PICK r : r = [tx[t] EXCEPT !.at = "remove", !.gone = p, !.copy = copy, !.writes = g]
    OBVIOUS
  <2>9. r \in Request
    BY <1>1, <1>3, <2>5, <2>7, <2>8 DEF Request, Stage
  <2>10. /\ r.at = "remove" /\ r.writes = g /\ r.copy = copy /\ r.user = tx[t].user
         /\ r.accepts = tx[t].accepts /\ r.app = tx[t].app
         /\ r.seen = tx[t].seen /\ r.born = tx[t].born
    BY <1>1, <2>8 DEF Request
  <2>11. Sound(r)
    BY <1>1, <1>3, <2>4, <2>7, <2>10 DEF Sound, Staged, PassKnown, RowsKnown
  <2>12. \A u \in Active \ {t} : Apart(r, tx[u])
    <3> SUFFICES ASSUME NEW u \in Active \ {t} PROVE Apart(r, tx[u])
      OBVIOUS
    <3>1. Apart(tx[t], tx[u])
      BY <1>1 DEF HiringInv
    <3>2. \A b \in Applications : g[b] # NoRow => tx[u].writes[b] = NoRow
      BY <1>2, <2>4 DEF Detach, LockedByOther
    <3> QED BY <2>10, <3>1, <3>2 DEF Apart
  <2>13. tx' = [tx EXCEPT ![t] = r] /\ Quiet
    <3>1. r = [tx[t] EXCEPT !.at = "remove", !.gone = p, !.copy.approval = NoPass, !.writes = g]
      BY <1>1, <2>6, <2>8 DEF Request
    <3> QED BY <1>2, <1>5, <2>1, <3>1 DEF Detach, Goes
  <2> QED BY <2>9, <2>11, <2>12, <2>13, MovesOn
<1> QED BY <1>4, <1>5

LEMMA RemovePassKeeps ==
    ASSUME HiringInv, NEW t \in Requests, tx[t] # Idle, RemovePass(t)
    PROVE  HiringInv'
<1>1. tx[t] \in Request /\ t \in Active /\ Sound(tx[t]) /\ tx[t].at = "remove"
  BY ActiveRequest DEF HiringInv, RemovePass
<1>2. PICK r : r = [tx[t] EXCEPT !.at = "save", !.lock = tx[t].gone]
  OBVIOUS
<1>3. r \in Request
  BY <1>1, <1>2 DEF Request, Stage
<1>4. /\ r.at = "save" /\ r.user = tx[t].user
      /\ r.accepts = tx[t].accepts /\ r.app = tx[t].app /\ r.copy = tx[t].copy
      /\ r.seen = tx[t].seen /\ r.born = tx[t].born
      /\ r.pending = tx[t].pending /\ r.writes = tx[t].writes
  BY <1>1, <1>2 DEF Request
<1>5. Sound(r)
  BY <1>1, <1>4 DEF Sound, Staged, PassKnown, RowsKnown
<1>6. \A u \in Active \ {t} : Apart(r, tx[u])
  BY <1>1, <1>4, StillApart
<1>7. tx' = [tx EXCEPT ![t] = r] /\ Quiet
  BY <1>2 DEF RemovePass, Goes
<1> QED BY <1>3, <1>5, <1>6, <1>7, MovesOn

LEMMA SaveKeeps ==
    ASSUME HiringInv, NEW t \in Requests, tx[t] # Idle, Save(t)
    PROVE  HiringInv'
<1>1. tx[t] \in Request /\ t \in Active /\ Sound(tx[t]) /\ tx[t].at = "save"
  BY ActiveRequest DEF HiringInv, Save
<1>2. PICK a : a = tx[t].app
  OBVIOUS
<1>3. a \in Applications /\ tx[t].copy \in Row
      /\ tx[t].writes \in [Applications -> Row \union {NoRow}]
      /\ apps[a] \in Row \union {NoRow}
  BY <1>1, <1>2 DEF Request, HiringInv, TypeOK
<1>4. PICK row : row = IF tx[t].partial THEN [apps[a] EXCEPT !.state = tx[t].copy.state]
                       ELSE tx[t].copy
  OBVIOUS
<1>5. row \in Row /\ row.state = tx[t].copy.state
  <2>1. tx[t].copy.state \in State
    BY <1>3 DEF Row
  <2>2. CASE tx[t].partial
    <3>1. row = [apps[a] EXCEPT !.state = tx[t].copy.state]
      BY <1>4, <2>2
    <3> QED BY <1>3, <2>1, <3>1 DEF Row, NoRow
  <2>3. CASE ~tx[t].partial
    BY <1>3, <1>4, <2>3
  <2> QED BY <2>2, <2>3
<1>6. PICK g : g = [tx[t].writes EXCEPT ![a] = row]
  OBVIOUS
<1>7. /\ g \in [Applications -> Row \union {NoRow}] /\ g[a] = row
      /\ \A b \in Applications \ {a} : g[b] = tx[t].writes[b]
  BY <1>3, <1>5, <1>6
<1>8. PICK r : r = [tx[t] EXCEPT !.at = "commit", !.writes = g]
  OBVIOUS
<1>9. r \in Request
  BY <1>1, <1>7, <1>8 DEF Request, Stage
<1>10. /\ r.at = "commit" /\ r.writes = g /\ r.user = tx[t].user
       /\ r.accepts = tx[t].accepts /\ r.app = tx[t].app /\ r.copy = tx[t].copy
       /\ r.seen = tx[t].seen /\ r.born = tx[t].born /\ r.pending = tx[t].pending
  BY <1>1, <1>8 DEF Request
<1>11. Staged(r) /\ PassKnown(r)
  BY <1>1, <1>10 DEF Sound, Staged, PassKnown
<1>12. RowsKnown(r)
  BY <1>1, <1>2, <1>5, <1>7, <1>10, HiringAssumption DEF Sound, Staged, RowsKnown
<1>13. \A u \in Active \ {t} : Apart(r, tx[u])
  <2> SUFFICES ASSUME NEW u \in Active \ {t} PROVE Apart(r, tx[u])
    OBVIOUS
  <2>1. Apart(tx[t], tx[u]) /\ tx[u].writes[a] = NoRow
    BY <1>1, <1>2, <1>3 DEF HiringInv, Save, LockedByOther
  <2> QED BY <2>1, <1>7, <1>10 DEF Apart
<1>14. tx' = [tx EXCEPT ![t] = r] /\ Quiet
  <2>1. r = [tx[t] EXCEPT !.at = "commit", !.writes[a] = row]
    BY <1>1, <1>6, <1>8 DEF Request
  <2> QED BY <1>2, <1>4, <2>1 DEF Save, Goes
<1> QED BY <1>9, <1>11, <1>12, <1>13, <1>14, MovesOn DEF Sound
(* The one step that changes applications and approvals.                   *)
LEMMA CommitKeeps ==
    ASSUME HiringInv, NEW t \in Requests, tx[t] # Idle, Commit(t)
    PROVE  HiringInv'
<1>1. tx[t] \in Request /\ t \in Active /\ Sound(tx[t]) /\ tx[t].at = "commit"
  BY ActiveRequest DEF HiringInv, Commit
<1>2. CASE Quiet
  BY <1>2, Ends DEF Commit
<1>3. CASE /\ apps' = Merged(t)
           /\ passes' = PassesAfter(t)
           /\ cancelled' = cancelled \union ({tx[t].gone} \ {NoPass})
  <2>1. /\ tx[t].born \in Passes \union {NoPass} /\ tx[t].gone \in Passes \union {NoPass}
        /\ tx[t].writes \in [Applications -> Row \union {NoRow}]
    BY <1>1 DEF Request
  <2>2. TypeOK'
    <3>1. apps' \in [Applications -> Row \union {NoRow}]
      BY <1>3, <2>1 DEF Merged, HiringInv, TypeOK
    <3>2. passes' \subseteq Passes /\ cancelled' \subseteq Passes
      BY <1>3, <2>1 DEF PassesAfter, HiringInv, TypeOK
    <3>3. tx' \in [Requests -> Request \union {Idle}]
      BY DEF Commit, Goes, HiringInv, TypeOK
    <3> QED BY <3>1, <3>2, <3>3 DEF TypeOK
  <2>3. /\ Active' \subseteq Active \ {t}
        /\ \A u \in Active' : tx'[u] = tx[u]
    BY DEF HiringInv, TypeOK, Active, Commit, Goes
  <2>4. \A a \in Applications : apps'[a] = IF tx[t].writes[a] # NoRow THEN tx[t].writes[a] ELSE apps[a]
    BY <1>3 DEF Merged
  <2>5. passes \union cancelled \subseteq passes' \union cancelled' /\ cancelled \subseteq cancelled'
    BY <1>3, HiringAssumption DEF PassesAfter, HiringInv, TypeOK
  <2>6. tx[t].born = NoPass => passes' \subseteq passes
    BY <1>3 DEF PassesAfter
  <2>7. passes' \subseteq passes \union ({tx[t].born} \ {NoPass})
    BY <1>3 DEF PassesAfter
  <2>8. \A u \in Active' : Sound(tx[u])'
    <3> SUFFICES ASSUME NEW u \in Active' PROVE Sound(tx[u])'
      OBVIOUS
    <3>1. u \in Active /\ u # t /\ tx'[u] = tx[u] /\ Sound(tx[u]) /\ Apart(tx[t], tx[u])
      BY <1>1, <2>3 DEF HiringInv
    <3>2. Staged(tx[u])'
      BY <3>1 DEF Sound, Staged
    <3>3. PassKnown(tx[u])'
      <4>1. tx[u].born # NoPass /\ passes = {} => passes' = {}
        BY <1>1, <2>6, <3>1 DEF Sound, PassKnown, Apart
      <4> QED BY <2>5, <3>1, <4>1 DEF Sound, PassKnown
    <3>4. ASSUME NEW a \in Applications, tx[u].writes[a].state = "accepted"
          PROVE  (tx[u].accepts /\ a = tx[u].app) \/ apps'[a].state = "accepted"
      <4>1. tx[u].writes[a] # NoRow
        BY <3>4 DEF NoRow
      <4>2. apps'[a] = apps[a]
        BY <2>4, <3>1, <4>1 DEF Apart
      <4> QED BY <3>1, <3>4, <4>2 DEF Sound, RowsKnown
    <3>5. ASSUME tx[u].accepts, tx[u].app \in Siae, NEW a \in Siae \ {tx[u].app},
                 tx[u].pending[a] # NoRow \/ tx[u].writes[a] # NoRow
          PROVE  apps'[a].state # "accepted"
      <4>1. a \in Applications /\ apps[a].state # "accepted"
        BY <3>1, <3>5, HiringAssumption DEF Sound, RowsKnown
      <4>2. tx[u].user
        BY <3>1, <3>5, <4>1 DEF Sound, Staged
      <4>3. ~(tx[t].accepts /\ a = tx[t].app)
        BY <1>1, <3>1, <4>2 DEF Sound, Staged, Apart
      <4>4. tx[t].writes[a].state # "accepted"
        BY <1>1, <4>1, <4>3 DEF Sound, RowsKnown
      <4> QED BY <2>4, <4>1, <4>4
    <3>6. RowsKnown(tx[u])'
      BY <3>1, <3>4, <3>5 DEF RowsKnown
    <3> QED BY <3>2, <3>3, <3>6 DEF Sound
  <2>9. \A u, v \in Active' : u # v => Apart(tx[u], tx[v])'
    BY <2>3 DEF HiringInv, Apart
  <2>10. OnePass'
    BY <1>1, <2>5, <2>7 DEF Sound, PassKnown, HiringInv, OnePass
  <2> QED BY <2>2, <2>8, <2>9, <2>10 DEF HiringInv
<1> QED BY <1>2, <1>3 DEF Commit

-----------------------------------------------------------------------------
LEMMA IdleStays ==
    ASSUME NEW t \in Requests, tx[t] = Idle
    PROVE  ~Proceed(t)
<1>1. Idle.at \notin Stage
  BY DEF Idle, Stage
<1> QED BY <1>1 DEF Proceed, Stage, LockUser, ReadPending, RenderObsolete, Rendered, WithoutPass,
          ReusePass, ReuseAndMovePass, IssuePass, CheckPass, Detach, RemovePass, Save, Commit

LEMMA HiringInvInit == Init => HiringInv
BY DEF Init, HiringInv, TypeOK, NoRows, Active, OnePass

LEMMA HiringInvNext == HiringInv /\ [Next]_vars => HiringInv'
<1> SUFFICES ASSUME HiringInv, [Next]_vars PROVE HiringInv'
  OBVIOUS
<1>1. ASSUME NEW a \in Applications, Submit(a) PROVE HiringInv'
  BY <1>1, SubmitKeeps
<1>2. ASSUME NEW t \in Requests, NEW a \in Applications, Hire(t, a) PROVE HiringInv'
  BY <1>2, HireKeeps
<1>3. ASSUME NEW t \in Requests, NEW a \in Applications, NEW op \in Operations, Load(t, a, op)
      PROVE HiringInv'
  BY <1>3, LoadKeeps
<1>4. ASSUME NEW t \in Requests, Rollback(t) PROVE HiringInv'
  BY <1>4, Ends DEF Rollback
<1>5. ASSUME NEW t \in Requests, Proceed(t) PROVE HiringInv'
  <2>1. tx[t] # Idle
    BY <1>5, IdleStays
  <2>2. CASE LockUser(t)
    BY <2>1, <2>2, LockUserKeeps
  <2>3. CASE ReadPending(t)
    BY <2>1, <2>3, ReadPendingKeeps
  <2>4. CASE \E b \in Applications : RenderObsolete(t, b)
    BY <2>1, <2>4, RenderObsoleteKeeps
  <2>5. CASE WithoutPass(t)
    BY <2>1, <2>5, WithoutPassKeeps
  <2>6. CASE ReusePass(t)
    BY <2>1, <2>6, ReusePassKeeps
  <2>7. CASE ReuseAndMovePass(t)
    BY <2>1, <2>7, ReuseAndMovePassKeeps
  <2>8. CASE IssuePass(t)
    BY <2>1, <2>8, IssuePassKeeps
  <2>9. CASE CheckPass(t)
    BY <2>1, <2>9, CheckPassKeeps
  <2>10. CASE Detach(t)
    BY <2>1, <2>10, DetachKeeps
  <2>11. CASE RemovePass(t)
    BY <2>1, <2>11, RemovePassKeeps
  <2>12. CASE Save(t)
    BY <2>1, <2>12, SaveKeeps
  <2>13. CASE Commit(t)
    BY <2>1, <2>13, CommitKeeps
  <2> QED BY <1>5, <2>2, <2>3, <2>4, <2>5, <2>6, <2>7, <2>8, <2>9, <2>10, <2>11, <2>12, <2>13
          DEF Proceed
<1>6. CASE UNCHANGED vars
  <2>1. apps' = apps /\ passes' = passes /\ cancelled' = cancelled /\ tx' = tx
    BY <1>6 DEF vars
  <2>2. TypeOK' /\ OnePass' /\ Active' = Active
    BY <2>1 DEF HiringInv, TypeOK, OnePass, Active
  <2>3. \A u \in Active' : Sound(tx[u])'
    BY <2>1, <2>2 DEF HiringInv, Sound, Staged, PassKnown, RowsKnown
  <2> QED BY <2>1, <2>2, <2>3 DEF HiringInv, Apart
<1> QED BY <1>1, <1>2, <1>3, <1>4, <1>5, <1>6 DEF Next

LEMMA HiringInvariant == Spec => []HiringInv
BY HiringInvInit, HiringInvNext, PTL DEF Spec

(* The variables of the model keep their types.                            *)
THEOREM HiringTypeCorrect == Spec => []TypeOK
BY HiringInvariant, PTL DEF HiringInv

(* Whatever requests of employers race for a job seeker, two approvals     *)
(* that were never cancelled are one: Approval.clean() under the row lock  *)
(* of the job seeker.                                                      *)
THEOREM OneApprovalPerJobSeeker == Spec => []OnePass
BY HiringInvariant, PTL DEF HiringInv

(* An acceptance by a company subject to eligibility rules never writes    *)
(* over the acceptance of another one.                                     *)
THEOREM AcceptancesAreSpared == Spec => []AcceptanceSpares
<1>1. HiringInv => AcceptanceSpares
  BY HiringAssumption DEF HiringInv, AcceptanceSpares, Sound, RowsKnown
<1> QED BY <1>1, HiringInvariant, PTL
=============================================================================
