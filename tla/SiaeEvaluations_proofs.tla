------------------------ MODULE SiaeEvaluations_proofs ------------------------
(***************************************************************************)
(* Proofs about SiaeEvaluations: the types, and what the stages of a       *)
(* campaign guarantee to the employers.                                    *)
(***************************************************************************)
EXTENDS SiaeEvaluations, FiniteSetTheorems, TLAPS

(* No row looks like the absence of a row.                                 *)
LEMMA AbsentIsNoRow == Absent \notin Siae \union Criterion
  BY DEF Absent, Siae, Criterion

LEMMA SiaeFields ==
  ASSUME TypeOK, NEW e \in Evaluated
  PROVE  /\ e \in Siaes /\ siaes[e] \in Siae
         /\ siaes[e].reviewed \in BOOLEAN /\ siaes[e].frozen \in BOOLEAN
         /\ siaes[e].final \in {"no", "same", "later"}
         /\ siaes[e].notified \in BOOLEAN /\ siaes[e].reason \in BOOLEAN
  BY DEF TypeOK, Evaluated, Siae

LEMMA CriterionFields ==
  ASSUME TypeOK, NEW e \in Siaes, NEW c \in Chosen(e)
  PROVE  /\ c \in Cell /\ criteria[e][c] \in Criterion
         /\ criteria[e][c].proof \in BOOLEAN
         /\ criteria[e][c].submitted \in {"no", "before", "after"}
         /\ criteria[e][c].review \in {"PENDING", "ACCEPTED", "REFUSED", "REFUSED_2"}
         /\ c[1] \in Applications
<1>1. criteria[e] \in [Cell -> Criterion \union {Absent}]
  BY DEF TypeOK
<1>2. c \in Cell /\ criteria[e][c] \in Criterion
  BY <1>1 DEF Chosen
<1> QED
  BY <1>2 DEF Criterion, Cell

LEMMA NewRows ==
  /\ NewSiae \in Siae /\ NewCriterion \in Criterion
  /\ [proof |-> TRUE, submitted |-> "no", review |-> "PENDING"] \in Criterion
  BY DEF NewSiae, NewCriterion, Siae, Criterion

LEMMA ChangedRows ==
  ASSUME NEW row \in Criterion
  PROVE  /\ \A when \in {"no", "before", "after"} :
               LET new == [row EXCEPT !.submitted = when]
               IN  /\ new \in Criterion /\ new.submitted = when
                   /\ new.proof = row.proof /\ new.review = row.review
         /\ \A review \in {"PENDING", "ACCEPTED", "REFUSED", "REFUSED_2"} :
               LET new == [row EXCEPT !.review = review]
               IN  /\ new \in Criterion /\ new.review = review
                   /\ new.proof = row.proof /\ new.submitted = row.submitted
  BY DEF Criterion
-----------------------------------------------------------------------------
(* What the actions do to the criteria of an employer.                     *)
LEMMA SelectEffect ==
  ASSUME TypeOK, NEW e \in Evaluated, NEW a \in applications[e], SiaeSelectCriteria(e, a)
  PROVE  /\ criteria' \in [Siaes -> [Cell -> Criterion \union {Absent}]]
         /\ seen' \in [Siaes -> SUBSET Cell]
         /\ UNCHANGED <<campaign, siaes, applications, picked, told, late>>
         /\ \A f \in Siaes \ {e} : criteria'[f] = criteria[f]
         /\ \A c \in Cell : c[1] # a => criteria'[e][c] = criteria[e][c]
         /\ \A c \in Cell : c[1] = a =>
               \/ criteria'[e][c] \in {Absent, NewCriterion}
               \/ criteria'[e][c] = criteria[e][c]
         /\ \E c \in Cell : c[1] = a /\ criteria'[e][c] # Absent
<1> e \in Siaes /\ a \in Applications
  BY DEF TypeOK, Evaluated
<1>1. PICK keys \in (SUBSET KeysOf[a]) \ {{}} :
          LET removed == {c \in ChosenFor(e, a) : c[2] \notin keys}
              added == {c \in Cell : c[1] = a /\ c[2] \in keys} \ Chosen(e)
          IN  /\ criteria' = [criteria EXCEPT ![e] = [c \in Cell |->
                    IF c \in removed THEN Absent
                    ELSE IF c \in added THEN NewCriterion ELSE criteria[e][c]]]
              /\ seen' = [seen EXCEPT ![e] = seen[e] \ removed]
  BY DEF SiaeSelectCriteria
<1> DEFINE removed == {c \in ChosenFor(e, a) : c[2] \notin keys}
           added == {c \in Cell : c[1] = a /\ c[2] \in keys} \ Chosen(e)
           now == [c \in Cell |-> IF c \in removed THEN Absent
                                  ELSE IF c \in added THEN NewCriterion ELSE criteria[e][c]]
<1>2. criteria' = [criteria EXCEPT ![e] = now] /\ seen' = [seen EXCEPT ![e] = seen[e] \ removed]
  BY <1>1
<1>3. /\ criteria \in [Siaes -> [Cell -> Criterion \union {Absent}]]
      /\ criteria[e] \in [Cell -> Criterion \union {Absent}]
      /\ seen \in [Siaes -> SUBSET Cell]
  BY DEF TypeOK
<1>4. \A c \in removed \union added : c[1] = a
  BY DEF ChosenFor
<1>5. keys \in SUBSET KeysOf[a] /\ keys # {}
  OBVIOUS
<1> PICK k \in keys : k \in KeysOf[a]
  BY <1>5
<1> k \in Keys
  BY EvaluationsAssumption
<1>6. <<a, k>> \in Cell /\ <<a, k>> \notin removed
  BY DEF Cell
<1>7. now[<<a, k>>] # Absent
  <2>1. CASE <<a, k>> \in Chosen(e)
    BY <1>6, <2>1 DEF Chosen
  <2>2. CASE <<a, k>> \notin Chosen(e)
    BY <1>5, <1>6, <2>2, NewRows, AbsentIsNoRow
  <2> QED  BY <2>1, <2>2
<1>8. now \in [Cell -> Criterion \union {Absent}]
  BY <1>3, NewRows
<1>9. /\ \A c \in Cell : c[1] # a => now[c] = criteria[e][c]
      /\ \A c \in Cell : now[c] \in {Absent, NewCriterion} \/ now[c] = criteria[e][c]
  BY <1>4
<1>10. UNCHANGED <<campaign, siaes, applications, picked, told, late>>
  BY DEF SiaeSelectCriteria
<1> HIDE DEF now, removed, added
<1>11. /\ criteria' \in [Siaes -> [Cell -> Criterion \union {Absent}]]
       /\ seen' \in [Siaes -> SUBSET Cell]
       /\ criteria'[e] = now /\ \A f \in Siaes \ {e} : criteria'[f] = criteria[f]
  BY <1>2, <1>3, <1>8
<1>12. \E c \in Cell : c[1] = a /\ now[c] # Absent
  BY <1>6, <1>7
<1> QED
  BY <1>9, <1>10, <1>11, <1>12

LEMMA UploadEffect ==
  ASSUME TypeOK, NEW e \in Evaluated, NEW c \in Chosen(e), SiaeUploadDoc(e, c)
  PROVE  /\ criteria' \in [Siaes -> [Cell -> Criterion \union {Absent}]]
         /\ late' \in BOOLEAN
         /\ UNCHANGED <<campaign, siaes, applications, seen, picked, told>>
         /\ \A f \in Siaes \ {e} : criteria'[f] = criteria[f]
         /\ \A d \in Cell \ {c} : criteria'[e][d] = criteria[e][d]
         /\ criteria'[e][c] = [proof |-> TRUE, submitted |-> "no", review |-> "PENDING"]
         /\ criteria'[e][c] # Absent
<1> e \in Siaes /\ c \in Cell
  BY CriterionFields, SiaeFields
<1> DEFINE row == [proof |-> TRUE, submitted |-> "no", review |-> "PENDING"]
<1>1. criteria \in [Siaes -> [Cell -> Criterion \union {Absent}]] /\ late \in BOOLEAN
  BY DEF TypeOK
<1>2. criteria' = [criteria EXCEPT ![e] = [criteria[e] EXCEPT ![c] = row]]
  BY DEF SiaeUploadDoc
<1>3. row \in Criterion /\ row # Absent
  BY NewRows, AbsentIsNoRow
<1>4. late' \in BOOLEAN /\ UNCHANGED <<campaign, siaes, applications, seen, picked, told>>
  BY <1>1 DEF SiaeUploadDoc
<1> HIDE DEF row
<1>5. /\ criteria' \in [Siaes -> [Cell -> Criterion \union {Absent}]]
      /\ \A f \in Siaes \ {e} : criteria'[f] = criteria[f]
      /\ \A d \in Cell \ {c} : criteria'[e][d] = criteria[e][d]
      /\ criteria'[e][c] = row
  BY <1>1, <1>2, <1>3
<1> QED
  BY <1>3, <1>4, <1>5 DEF row

LEMMA EvaluateEffect ==
  ASSUME TypeOK, NEW e \in Evaluated, NEW c \in Chosen(e), EvaluateCriterion(e, c)
  PROVE  \E action \in {"reinit", "accept", "refuse"} :
         /\ criteria' \in [Siaes -> [Cell -> Criterion \union {Absent}]]
         /\ late' \in BOOLEAN /\ late' = (late \/ ~Offered(e, c, action))
         /\ UNCHANGED <<campaign, siaes, applications, seen, picked, told>>
         /\ \A f \in Siaes \ {e} : criteria'[f] = criteria[f]
         /\ \A d \in Cell \ {c} : criteria'[e][d] = criteria[e][d]
         /\ criteria'[e][c].review = Decision(e, action)
         /\ criteria'[e][c].proof = criteria[e][c].proof
         /\ criteria'[e][c].submitted = criteria[e][c].submitted
         /\ criteria'[e][c] # Absent
<1> e \in Siaes /\ c \in Cell /\ criteria[e][c] \in Criterion
  BY CriterionFields, SiaeFields
<1>1. criteria \in [Siaes -> [Cell -> Criterion \union {Absent}]] /\ late \in BOOLEAN
  BY DEF TypeOK
<1>2. PICK action \in {"reinit", "accept", "refuse"} :
          /\ criteria' = [criteria EXCEPT ![e][c].review = Decision(e, action)]
          /\ late' = (late \/ ~Offered(e, c, action))
  BY DEF EvaluateCriterion
<1> DEFINE row == [criteria[e][c] EXCEPT !.review = Decision(e, action)]
<1>3. criteria' = [criteria EXCEPT ![e] = [criteria[e] EXCEPT ![c] = row]]
  BY <1>2
<1>4. Decision(e, action) \in {"PENDING", "ACCEPTED", "REFUSED", "REFUSED_2"}
  BY DEF Decision
<1>5. /\ row \in Criterion /\ row.review = Decision(e, action)
      /\ row.proof = criteria[e][c].proof /\ row.submitted = criteria[e][c].submitted
  BY <1>4, ChangedRows
<1>6. row # Absent
  BY <1>5, AbsentIsNoRow
<1>7. UNCHANGED <<campaign, siaes, applications, seen, picked, told>>
  BY DEF EvaluateCriterion
<1> HIDE DEF row
<1>8. /\ criteria' \in [Siaes -> [Cell -> Criterion \union {Absent}]]
      /\ \A f \in Siaes \ {e} : criteria'[f] = criteria[f]
      /\ \A d \in Cell \ {c} : criteria'[e][d] = criteria[e][d]
      /\ criteria'[e][c] = row
  BY <1>1, <1>3, <1>5
<1>9. late' \in BOOLEAN
  BY <1>1, <1>2
<1> QED
  BY <1>2, <1>5, <1>6, <1>7, <1>8, <1>9

LEMMA SubmitEffect ==
  ASSUME TypeOK, NEW e \in Evaluated, SiaeSubmitProofs(e)
  PROVE  /\ criteria' \in [Siaes -> [Cell -> Criterion \union {Absent}]]
         /\ UNCHANGED <<campaign, applications, seen, picked, told, late>>
         /\ \A f \in Siaes \ {e} : criteria'[f] = criteria[f]
         /\ \A c \in Cell \ Chosen(e) : criteria'[e][c] = Absent
         /\ \A c \in Chosen(e) :
               /\ criteria'[e][c] # Absent
               /\ criteria'[e][c].proof = criteria[e][c].proof
               /\ criteria'[e][c].review = criteria[e][c].review
               /\ criteria'[e][c].submitted =
                     IF criteria[e][c].review = "PENDING" THEN Now(e)
                     ELSE criteria[e][c].submitted
<1> e \in Siaes
  BY SiaeFields
<1> DEFINE now == [c \in Cell |->
                      IF c \in Chosen(e) /\ criteria[e][c].review = "PENDING"
                      THEN [criteria[e][c] EXCEPT !.submitted = Now(e)] ELSE criteria[e][c]]
<1>1. /\ criteria \in [Siaes -> [Cell -> Criterion \union {Absent}]]
      /\ criteria[e] \in [Cell -> Criterion \union {Absent}]
  BY DEF TypeOK
<1>2. criteria' = [criteria EXCEPT ![e] = now]
  BY DEF SiaeSubmitProofs
<1>3. Now(e) \in {"no", "before", "after"}
  BY DEF Now
<1>4. ASSUME NEW c \in Chosen(e)
      PROVE  /\ now[c] \in Criterion
             /\ now[c].proof = criteria[e][c].proof
             /\ now[c].review = criteria[e][c].review
             /\ now[c].submitted = IF criteria[e][c].review = "PENDING" THEN Now(e)
                                   ELSE criteria[e][c].submitted
  <2>1. c \in Cell /\ criteria[e][c] \in Criterion
    BY CriterionFields
  <2> DEFINE row == [criteria[e][c] EXCEPT !.submitted = Now(e)]
  <2>2. /\ row \in Criterion /\ row.submitted = Now(e)
        /\ row.proof = criteria[e][c].proof /\ row.review = criteria[e][c].review
    BY <1>3, <2>1, ChangedRows
  <2>3. now[c] = IF criteria[e][c].review = "PENDING" THEN row ELSE criteria[e][c]
    BY <2>1
  <2> HIDE DEF row, now
  <2> QED
    BY <2>1, <2>2, <2>3
<1>5. \A c \in Cell \ Chosen(e) : now[c] = Absent
  BY <1>1 DEF Chosen
<1>6. now \in [Cell -> Criterion \union {Absent}]
  BY <1>4, <1>5
<1>7. UNCHANGED <<campaign, applications, seen, picked, told, late>>
  BY DEF SiaeSubmitProofs
<1> HIDE DEF now
<1>8. /\ criteria' \in [Siaes -> [Cell -> Criterion \union {Absent}]]
      /\ \A f \in Siaes \ {e} : criteria'[f] = criteria[f]
      /\ criteria'[e] = now
  BY <1>1, <1>2, <1>6
<1> QED
  BY <1>4, <1>5, <1>7, <1>8, AbsentIsNoRow
-----------------------------------------------------------------------------
(* What the actions do to the employers.                                   *)
LEMMA ChangedSiae ==
  ASSUME NEW row \in Siae
  PROVE  /\ [row EXCEPT !.reviewed = TRUE] \in Siae
         /\ [row EXCEPT !.reason = TRUE] \in Siae
         /\ \A b \in BOOLEAN : [row EXCEPT !.frozen = b] \in Siae
         /\ \A when \in {"no", "before", "after"} : [row EXCEPT !.reminder = when] \in Siae
         /\ \A final \in {"no", "same", "later"} :
               /\ [row EXCEPT !.final = final] \in Siae
               /\ [row EXCEPT !.reviewed = TRUE, !.final = final] \in Siae
         /\ \A sanctions \in SUBSET Sanctions :
               [row EXCEPT !.notified = TRUE, !.sanctions = sanctions] \in Siae
  BY DEF Siae

(* Nobody enters or leaves a campaign whose employers keep their rows.     *)
LEMMA SameEmployers ==
  ASSUME \A e \in Siaes : siaes'[e] = Absent <=> siaes[e] = Absent
  PROVE  Evaluated' = Evaluated
  BY DEF Evaluated

LEMMA NobodyChanges ==
  ASSUME siaes' = siaes
  PROVE  Evaluated' = Evaluated
  BY DEF Evaluated

LEMMA OneChanges ==
  ASSUME TypeOK, NEW e \in Evaluated, NEW row \in Siae, siaes' = [siaes EXCEPT ![e] = row]
  PROVE  /\ siaes' \in [Siaes -> Siae \union {Absent}]
         /\ siaes'[e] = row /\ \A f \in Siaes \ {e} : siaes'[f] = siaes[f]
         /\ Evaluated' = Evaluated
<1>1. siaes \in [Siaes -> Siae \union {Absent}] /\ e \in Siaes /\ siaes[e] # Absent
  BY DEF TypeOK, Evaluated
<1>2. row # Absent
  BY AbsentIsNoRow
<1> QED
  BY <1>1, <1>2 DEF Evaluated

LEMMA ReviewEffect ==
  ASSUME TypeOK, NEW e \in Evaluated, Review(e)
  PROVE  /\ siaes' \in [Siaes -> Siae \union {Absent}] /\ Evaluated' = Evaluated
         /\ siaes'[e] = Reviewed(e) /\ \A f \in Siaes \ {e} : siaes'[f] = siaes[f]
         /\ State(e) \in {"ACCEPTED", "REFUSED", "ADVERSARIAL_STAGE"}
<1>1. siaes[e] \in Siae
  BY SiaeFields
<1>2. State(e) \in {"ACCEPTED", "REFUSED", "ADVERSARIAL_STAGE"}
  BY DEF Review, CanReview
<1> HIDE DEF State
<1>3. Reviewed(e) \in Siae
  BY <1>1, <1>2, ChangedSiae DEF Reviewed
<1>4. siaes' = [siaes EXCEPT ![e] = Reviewed(e)]
  BY DEF Review
<1> HIDE DEF Reviewed
<1> QED
  BY <1>2, <1>3, <1>4, OneChanges

LEMMA SubmitFreezes ==
  ASSUME TypeOK, NEW e \in Evaluated, SiaeSubmitProofs(e)
  PROVE  /\ siaes' \in [Siaes -> Siae \union {Absent}] /\ Evaluated' = Evaluated
         /\ siaes'[e] = [siaes[e] EXCEPT !.frozen = TRUE]
         /\ \A f \in Siaes \ {e} : siaes'[f] = siaes[f]
<1> DEFINE row == [siaes[e] EXCEPT !.frozen = TRUE]
<1>1. row \in Siae
  BY SiaeFields, ChangedSiae
<1>2. siaes' = [siaes EXCEPT ![e] = row]
  BY DEF SiaeSubmitProofs
<1> HIDE DEF row
<1>3. /\ siaes' \in [Siaes -> Siae \union {Absent}] /\ Evaluated' = Evaluated
      /\ siaes'[e] = row /\ \A f \in Siaes \ {e} : siaes'[f] = siaes[f]
  BY <1>1, <1>2, OneChanges
<1> QED
  BY <1>3 DEF row

LEMMA Step1Effect ==
  ASSUME TypeOK, NEW e \in Evaluated, NotifyStep1(e)
  PROVE  /\ siaes' \in [Siaes -> Siae \union {Absent}] /\ Evaluated' = Evaluated
         /\ siaes'[e] = [siaes[e] EXCEPT !.reason = TRUE]
         /\ \A f \in Siaes \ {e} : siaes'[f] = siaes[f]
<1> DEFINE row == [siaes[e] EXCEPT !.reason = TRUE]
<1>1. row \in Siae
  BY SiaeFields, ChangedSiae
<1>2. siaes' = [siaes EXCEPT ![e] = row]
  BY DEF NotifyStep1
<1> HIDE DEF row
<1>3. /\ siaes' \in [Siaes -> Siae \union {Absent}] /\ Evaluated' = Evaluated
      /\ siaes'[e] = row /\ \A f \in Siaes \ {e} : siaes'[f] = siaes[f]
  BY <1>1, <1>2, OneChanges
<1> QED
  BY <1>3 DEF row

LEMMA Step3Effect ==
  ASSUME TypeOK, NEW e \in Evaluated, NotifyStep3(e)
  PROVE  /\ siaes' \in [Siaes -> Siae \union {Absent}] /\ Evaluated' = Evaluated
         /\ siaes'[e] = [siaes[e] EXCEPT !.notified = TRUE, !.sanctions = picked[e]]
         /\ \A f \in Siaes \ {e} : siaes'[f] = siaes[f]
         /\ picked' = [picked EXCEPT ![e] = {}]
         /\ \E result \in {"sanctioned", "not_sanctioned"} : told' = [told EXCEPT ![e] = result]
<1> DEFINE row == [siaes[e] EXCEPT !.notified = TRUE, !.sanctions = picked[e]]
<1>1. row \in Siae
  <2>1. picked[e] \in SUBSET Sanctions
    BY DEF TypeOK, Evaluated
  <2> QED
    BY <2>1, SiaeFields, ChangedSiae
<1>2. siaes' = [siaes EXCEPT ![e] = row]
  <2>1. siaes' = [siaes EXCEPT ![e] = [[siaes[e] EXCEPT !.notified = TRUE]
                                          EXCEPT !.sanctions = picked[e]]]
    BY DEF NotifyStep3, TypeOK, Evaluated, Siae
  <2> QED
    BY <2>1
<1> HIDE DEF row
<1>3. /\ siaes' \in [Siaes -> Siae \union {Absent}] /\ Evaluated' = Evaluated
      /\ siaes'[e] = row /\ \A f \in Siaes \ {e} : siaes'[f] = siaes[f]
  BY <1>1, <1>2, OneChanges
<1>4. picked' = [picked EXCEPT ![e] = {}]
  BY DEF NotifyStep3
<1>5. \E result \in {"sanctioned", "not_sanctioned"} : told' = [told EXCEPT ![e] = result]
  <2>1. CASE picked[e] = {"NO_SANCTIONS"}
    BY <2>1 DEF NotifyStep3
  <2>2. CASE picked[e] # {"NO_SANCTIONS"}
    BY <2>2 DEF NotifyStep3
  <2> QED
    BY <2>1, <2>2
<1> QED
  BY <1>3, <1>4, <1>5 DEF row

LEMMA AllChange ==
  ASSUME TypeOK, NEW row \in [Evaluated -> Siae],
         siaes' = [e \in Siaes |-> IF e \in Evaluated THEN row[e] ELSE Absent]
  PROVE  /\ siaes' \in [Siaes -> Siae \union {Absent}]
         /\ \A e \in Evaluated : siaes'[e] = row[e]
         /\ Evaluated' = Evaluated
<1>1. \A e \in Evaluated : e \in Siaes /\ row[e] # Absent
  BY AbsentIsNoRow DEF Evaluated
<1>2. \A e \in Siaes : siaes'[e] = Absent <=> siaes[e] = Absent
  BY <1>1 DEF Evaluated
<1> QED
  BY <1>1, <1>2, SameEmployers

LEMMA FreezeEffect ==
  ASSUME TypeOK, Freeze
  PROVE  /\ siaes' \in [Siaes -> Siae \union {Absent}] /\ Evaluated' = Evaluated
         /\ \A e \in Evaluated : siaes'[e] = [siaes[e] EXCEPT !.frozen = TRUE]
<1> DEFINE row == [e \in Evaluated |-> [siaes[e] EXCEPT !.frozen = TRUE]]
<1>1. row \in [Evaluated -> Siae]
  BY SiaeFields, ChangedSiae
<1>2. siaes' = [e \in Siaes |-> IF e \in Evaluated THEN row[e] ELSE Absent]
  BY DEF Freeze
<1>3. \A e \in Evaluated : row[e] = [siaes[e] EXCEPT !.frozen = TRUE]
  OBVIOUS
<1> HIDE DEF row
<1>4. /\ siaes' \in [Siaes -> Siae \union {Absent}] /\ Evaluated' = Evaluated
      /\ \A e \in Evaluated : siaes'[e] = row[e]
  BY <1>1, <1>2, AllChange
<1> QED
  BY <1>3, <1>4

LEMMA TransitionEffect ==
  ASSUME TypeOK, TransitionToAdversarialPhase
  PROVE  /\ siaes' \in [Siaes -> Siae \union {Absent}] /\ Evaluated' = Evaluated
         /\ \A e \in Evaluated : siaes'[e] = Transitioned(e)
<1> DEFINE row == [e \in Evaluated |-> Transitioned(e)]
<1>1. ASSUME NEW e \in Evaluated
      PROVE  Transitioned(e) \in Siae
  <2>1. siaes[e] \in Siae /\ siaes[e].final \in {"no", "same", "later"}
    BY SiaeFields
  <2> DEFINE final == IF State(e) \in {"SUBMITTED", "ACCEPTED"} THEN "same" ELSE siaes[e].final
  <2>2. final \in {"no", "same", "later"}
    BY <2>1
  <2>3. CASE siaes[e].reviewed
    BY <2>1, <2>3, ChangedSiae DEF Transitioned
  <2>4. CASE ~siaes[e].reviewed
    <3>1. Transitioned(e) =
             [siaes[e] EXCEPT !.frozen = FALSE, !.reviewed = TRUE, !.final = final]
      <4>1. CASE State(e) \in {"SUBMITTED", "ACCEPTED"}
        BY <2>4, <4>1 DEF Transitioned
      <4>2. CASE State(e) \notin {"SUBMITTED", "ACCEPTED"}
        BY <2>1, <2>4, <4>2 DEF Transitioned, Siae
      <4> QED
        BY <4>1, <4>2
    <3> HIDE DEF final
    <3> QED
      BY <2>1, <2>2, <3>1 DEF Siae
  <2> QED
    BY <2>3, <2>4
<1> HIDE DEF Transitioned
<1>2. row \in [Evaluated -> Siae]
  BY <1>1
<1>3. siaes' = [e \in Siaes |-> IF e \in Evaluated THEN row[e] ELSE Absent]
  BY DEF TransitionToAdversarialPhase
<1>4. \A e \in Evaluated : row[e] = Transitioned(e)
  OBVIOUS
<1> HIDE DEF row
<1>5. /\ siaes' \in [Siaes -> Siae \union {Absent}] /\ Evaluated' = Evaluated
      /\ \A e \in Evaluated : siaes'[e] = row[e]
  BY <1>2, <1>3, AllChange
<1> QED
  BY <1>4, <1>5

LEMMA CloseEffect ==
  ASSUME TypeOK, Close
  PROVE  /\ siaes' \in [Siaes -> Siae \union {Absent}] /\ Evaluated' = Evaluated
         /\ \A e \in Evaluated :
               siaes'[e] = IF ~siaes[e].notified /\ AutoValidated(e)
                           THEN [siaes[e] EXCEPT !.final = "later"] ELSE siaes[e]
         /\ campaign' = [campaign EXCEPT !.ended = TRUE]
<1> DEFINE row == [e \in Evaluated |-> IF ~siaes[e].notified /\ AutoValidated(e)
                                       THEN [siaes[e] EXCEPT !.final = "later"] ELSE siaes[e]]
<1> HIDE DEF AutoValidated
<1>1. row \in [Evaluated -> Siae]
  BY SiaeFields, ChangedSiae
<1>2. siaes' = [e \in Siaes |-> IF e \in Evaluated THEN row[e] ELSE Absent]
  BY DEF Close, Evaluated
<1>3. \A e \in Evaluated : row[e] = IF ~siaes[e].notified /\ AutoValidated(e)
                                    THEN [siaes[e] EXCEPT !.final = "later"] ELSE siaes[e]
  OBVIOUS
<1> HIDE DEF row
<1>4. /\ siaes' \in [Siaes -> Siae \union {Absent}] /\ Evaluated' = Evaluated
      /\ \A e \in Evaluated : siaes'[e] = row[e]
  BY <1>1, <1>2, AllChange
<1> QED
  BY <1>3, <1>4 DEF Close

LEMMA RemindEffect ==
  ASSUME TypeOK, Remind
  PROVE  /\ siaes' \in [Siaes -> Siae \union {Absent}] /\ Evaluated' = Evaluated
         /\ \A e \in Evaluated : \/ siaes'[e] = siaes[e]
                                 \/ siaes'[e] = [siaes[e] EXCEPT !.reminder = Now(e)]
<1>1. PICK due \in {{e \in Evaluated : FirstReminder(e)}, {e \in Evaluated : SecondReminder(e)}} :
         siaes' = [e \in Siaes |->
                      IF e \in due THEN [siaes[e] EXCEPT !.reminder = Now(e)] ELSE siaes[e]]
  BY DEF Remind
<1>2. due \subseteq Evaluated
  OBVIOUS
<1> DEFINE row == [e \in Evaluated |->
                      IF e \in due THEN [siaes[e] EXCEPT !.reminder = Now(e)] ELSE siaes[e]]
<1>3. \A e \in Evaluated : Now(e) \in {"no", "before", "after"}
  BY DEF Now
<1>4. row \in [Evaluated -> Siae]
  BY <1>3, SiaeFields, ChangedSiae
<1>5. siaes' = [e \in Siaes |-> IF e \in Evaluated THEN row[e] ELSE Absent]
  BY <1>1, <1>2 DEF Evaluated
<1>6. \A e \in Evaluated : \/ row[e] = siaes[e]
                           \/ row[e] = [siaes[e] EXCEPT !.reminder = Now(e)]
  OBVIOUS
<1> HIDE DEF row
<1>7. /\ siaes' \in [Siaes -> Siae \union {Absent}] /\ Evaluated' = Evaluated
      /\ \A e \in Evaluated : siaes'[e] = row[e]
  BY <1>4, <1>5, AllChange
<1> QED
  BY <1>6, <1>7

LEMMA PopulateEffect ==
  ASSUME TypeOK, Populate
  PROVE  /\ siaes' \in [Siaes -> Siae \union {Absent}]
         /\ applications' \in [Siaes -> SUBSET Applications]
         /\ \A e \in Siaes : siaes'[e] \in {NewSiae, Absent}
         /\ \A e \in Evaluated' : siaes'[e] = NewSiae /\ applications'[e] # {}
<1>1. PICK drawn \in SUBSET Siaes :
         /\ siaes' = [e \in Siaes |-> IF e \in drawn THEN NewSiae ELSE Absent]
         /\ applications' \in [Siaes -> SUBSET Applications]
         /\ \A e \in drawn : Cardinality(applications'[e]) = SelectMinMax(Cardinality(Applications))
  BY DEF Populate
<1>2. SelectMinMax(Cardinality(Applications)) # 0
  BY EvaluationsAssumption, FS_CardinalityType DEF SelectMinMax
<1>3. ASSUME NEW e \in drawn
      PROVE  applications'[e] # {}
  BY <1>1, <1>2, FS_EmptySet
<1> QED
  BY <1>1, <1>3, NewRows DEF Evaluated
-----------------------------------------------------------------------------
(* What the computed states mean.  The definitions below are about the     *)
(* values kept for one employer, now or after a step: its applications,    *)
(* and the rows of its criteria.                                           *)
Has(rows) == {c \in Cell : rows[c] # Absent}
Justified(apps, rows) == \A a \in apps : \E c \in Has(rows) : c[1] = a
AnySubmitted(rows) == \E c \in Has(rows) : rows[c].submitted # "no"
AnyAfter(rows) == \E c \in Has(rows) : rows[c].submitted = "after"
AnyPending(rows) == \E c \in Has(rows) : rows[c].review = "PENDING"
AllAccepted(rows) == \A c \in Has(rows) : rows[c].review = "ACCEPTED"

(* Every hiring is justified and every proof is uploaded, then submitted.  *)
Submittable(apps, rows) ==
    apps # {} /\ Justified(apps, rows) /\ \A c \in Has(rows) : rows[c].proof
AllSubmitted(apps, rows) ==
    Submittable(apps, rows) /\ \A c \in Has(rows) : rows[c].submitted # "no"

(* What a final evaluation is accepted for.                                *)
Positive(apps, rows) ==
    AllSubmitted(apps, rows) /\ (AnyPending(rows) \/ AllAccepted(rows))

FromApplicationsMeans(e) ==
    LET apps == applications[e]
        rows == criteria[e]
        state == StateFromApplications(e)
    IN  /\ state \in {"PENDING", "SUBMITTABLE", "SUBMITTED", "ACCEPTED", "REFUSED"}
        /\ state = "PENDING" <=> ~Submittable(apps, rows)
        /\ state = "SUBMITTABLE" <=> Submittable(apps, rows) /\ ~AllSubmitted(apps, rows)
        /\ state = "SUBMITTED" <=> AllSubmitted(apps, rows) /\ AnyPending(rows)
        /\ state = "ACCEPTED" <=>
              AllSubmitted(apps, rows) /\ ~AnyPending(rows) /\ AllAccepted(rows)
        /\ state = "REFUSED" <=>
              AllSubmitted(apps, rows) /\ ~AnyPending(rows) /\ ~AllAccepted(rows)

LEMMA FromApplications == \A e \in Siaes : FromApplicationsMeans(e)
<1> SUFFICES ASSUME NEW e \in Siaes
             PROVE  FromApplicationsMeans(e)
  OBVIOUS
<1> DEFINE apps == applications[e]
           rows == criteria[e]
<1>1. /\ Chosen(e) = Has(rows)
      /\ \A a \in apps : ChosenFor(e, a) = {} <=> ~\E c \in Has(rows) : c[1] = a
  BY DEF Chosen, ChosenFor, Has
<1>2. /\ (\E row \in Rows(e) : ~row.proof) <=> \E c \in Has(rows) : ~rows[c].proof
      /\ (\E row \in Rows(e) : row.submitted = "no") <=>
            \E c \in Has(rows) : rows[c].submitted = "no"
      /\ (\E row \in Rows(e) : row.review = "PENDING") <=> AnyPending(rows)
      /\ (\E row \in Rows(e) : row.review # "ACCEPTED") <=> ~AllAccepted(rows)
  BY <1>1 DEF Rows, AnyPending, AllAccepted
<1>3. (apps = {} \/ (\E a \in apps : ChosenFor(e, a) = {}) \/ \E row \in Rows(e) : ~row.proof)
         <=> ~Submittable(apps, rows)
  BY <1>1, <1>2 DEF Submittable, Justified
<1>4. AllSubmitted(apps, rows) <=>
         Submittable(apps, rows) /\ ~\E row \in Rows(e) : row.submitted = "no"
  BY <1>2 DEF AllSubmitted
<1> QED
  BY <1>2, <1>3, <1>4 DEF FromApplicationsMeans, StateFromApplications

IsFinal(k, s) == s.final # "no" \/ k.ended

StateMeans(e) ==
    LET apps == applications[e]
        rows == criteria[e]
        final == IsFinal(campaign, siaes[e])
        state == State(e)
    IN  /\ state \in {"PENDING", "SUBMITTABLE", "SUBMITTED", "ACCEPTED", "REFUSED",
                      "ADVERSARIAL_STAGE"}
        /\ state = "PENDING" <=> ~final /\ ~Submittable(apps, rows)
        /\ state = "SUBMITTABLE" <=>
              ~final /\ Submittable(apps, rows) /\ ~AllSubmitted(apps, rows)
        /\ state = "SUBMITTED" <=> ~final /\ AllSubmitted(apps, rows) /\ AnyPending(rows)
        /\ state = "ADVERSARIAL_STAGE" <=>
              ~final /\ siaes[e].reviewed /\ AllSubmitted(apps, rows) /\ ~AnyPending(rows)
        /\ state = "ACCEPTED" <=>
              \/ final /\ Positive(apps, rows)
              \/ /\ ~final /\ ~siaes[e].reviewed
                 /\ AllSubmitted(apps, rows) /\ ~AnyPending(rows) /\ AllAccepted(rows)
        /\ state = "REFUSED" <=>
              \/ final /\ ~Positive(apps, rows)
              \/ /\ ~final /\ ~siaes[e].reviewed
                 /\ AllSubmitted(apps, rows) /\ ~AnyPending(rows) /\ ~AllAccepted(rows)

LEMMA StateIs == \A e \in Siaes : StateMeans(e)
<1> SUFFICES ASSUME NEW e \in Siaes
             PROVE  StateMeans(e)
  OBVIOUS
<1>1. FromApplicationsMeans(e)
  BY FromApplications
<1>2. EvaluationIsFinal(e) <=> IsFinal(campaign, siaes[e])
  BY DEF EvaluationIsFinal, IsFinal
<1>3. AllSubmitted(applications[e], criteria[e]) => Submittable(applications[e], criteria[e])
  BY DEF AllSubmitted
<1> QED
  BY <1>1, <1>2, <1>3 DEF FromApplicationsMeans, StateMeans, State, Positive

(* The same after a step.                                                  *)
LEMMA StateIsNext == (\A e \in Siaes : StateMeans(e))'
  BY StateIs, PTL
-----------------------------------------------------------------------------
LEMMA NextTypes == TypeOK /\ [Next]_vars => TypeOK'
<1> SUFFICES ASSUME TypeOK, [Next]_vars
             PROVE  TypeOK'
  OBVIOUS
<1> USE DEF TypeOK
<1>1. CASE UNCHANGED vars
  BY <1>1 DEF vars
<1>2. CASE SamplesSelection
  BY <1>2 DEF SamplesSelection, Campaign
<1>3. CASE Populate
  <2>1. campaign' \in Campaign
    BY <1>3 DEF Populate, Campaign
  <2> QED
    BY <1>3, <2>1, PopulateEffect DEF Populate
<1>4. CASE Freeze
  BY <1>4, FreezeEffect DEF Freeze
<1>5. CASE TransitionToAdversarialPhase
  <2>1. campaign' \in Campaign
    BY <1>5 DEF TransitionToAdversarialPhase, Campaign
  <2>2. told' \in [Siaes -> Result]
    <3>1. \A e \in Evaluated : Transition(e) \in Result
      BY StateIs DEF Transition, Result, StateMeans, Evaluated
    <3> HIDE DEF Transition
    <3> QED
      BY <1>5, <3>1 DEF TransitionToAdversarialPhase
  <2> QED
    BY <1>5, <2>1, <2>2, TransitionEffect DEF TransitionToAdversarialPhase
<1>6. CASE Close
  <2>1. campaign' \in Campaign
    BY <1>6 DEF Close, Campaign
  <2>2. told' \in [Siaes -> Result]
    <3>1. \A e \in Siaes : Closing(e) \in Result
      BY DEF Closing, Result
    <3> HIDE DEF Closing
    <3> QED
      BY <1>6, <3>1 DEF Close
  <2> QED
    BY <1>6, <2>1, <2>2, CloseEffect DEF Close
<1>7. CASE Remind
  BY <1>7, RemindEffect DEF Remind
<1>8. ASSUME NEW e \in Evaluated, NEW a \in applications[e],
             SiaeSelectCriteria(e, a) \/ OpenPage(e, a)
      PROVE  TypeOK'
  <2>1. CASE SiaeSelectCriteria(e, a)
    BY <2>1, SelectEffect
  <2>2. CASE OpenPage(e, a)
    <3>1. ChosenFor(e, a) \in SUBSET Cell
      BY DEF ChosenFor, Chosen
    <3> QED
      BY <2>2, <3>1 DEF OpenPage
  <2> QED
    BY <1>8, <2>1, <2>2
<1>9. ASSUME NEW e \in Evaluated, NEW c \in Chosen(e),
             SiaeUploadDoc(e, c) \/ EvaluateCriterion(e, c)
      PROVE  TypeOK'
  <2>1. CASE SiaeUploadDoc(e, c)
    BY <2>1, UploadEffect
  <2>2. CASE EvaluateCriterion(e, c)
    BY <2>2, EvaluateEffect
  <2> QED
    BY <1>9, <2>1, <2>2
<1>10. ASSUME NEW e \in Evaluated, SiaeSubmitProofs(e)
       PROVE  TypeOK'
  BY <1>10, SubmitEffect, SubmitFreezes
<1>11. ASSUME NEW e \in Evaluated, Review(e)
       PROVE  TypeOK'
  BY <1>11, ReviewEffect DEF Review
<1>12. ASSUME NEW e \in Evaluated, NotifyStep1(e)
       PROVE  TypeOK'
  BY <1>12, Step1Effect DEF NotifyStep1
<1>13. ASSUME NEW e \in Evaluated, NotifyStep2(e)
       PROVE  TypeOK'
  BY <1>13 DEF NotifyStep2
<1>14. ASSUME NEW e \in Evaluated, NotifyStep3(e)
       PROVE  TypeOK'
  <2>1. PICK result \in {"sanctioned", "not_sanctioned"} : told' = [told EXCEPT ![e] = result]
    BY <1>14, Step3Effect
  <2>2. told' \in [Siaes -> Result]
    BY <2>1 DEF Result
  <2> QED
    BY <1>14, <2>2, Step3Effect DEF NotifyStep3
<1> QED
  BY <1>1, <1>2, <1>3, <1>4, <1>5, <1>6, <1>7, <1>8, <1>9, <1>10, <1>11, <1>12, <1>13, <1>14
  DEF Next

LEMMA InitTypes == Init => TypeOK
<1> SUFFICES ASSUME Init
             PROVE  TypeOK
  OBVIOUS
<1>1. campaign \in Campaign
  BY EvaluationsAssumption DEF Init, Campaign
<1>2. criteria \in [Siaes -> [Cell -> Criterion \union {Absent}]]
  BY DEF Init
<1>3. told \in [Siaes -> Result]
  BY DEF Init, Result
<1> QED
  BY <1>1, <1>2, <1>3 DEF Init, TypeOK

(* The campaign, the employers it evaluates, what they have chosen and     *)
(* submitted and what they were told always have their types.              *)
THEOREM EvaluationsTypeCorrect == Spec => []TypeOK
  BY InitTypes, NextTypes, PTL DEF Spec
-----------------------------------------------------------------------------
(* What holds of an employer whatever the institution does: k is the       *)
(* campaign, s the row of the employer.                                    *)
Sound(k, s, apps, rows) ==
    /\ apps # {}
    /\ \A c \in Has(rows) :
          /\ c[1] \in apps
          /\ rows[c].submitted # "no" => rows[c].proof
          /\ rows[c].submitted = "after" => s.reviewed
          /\ rows[c].review = "REFUSED" => rows[c].submitted # "after"
    /\ AnySubmitted(rows) => Justified(apps, rows)
    /\ s.final # "no" => s.reviewed
    /\ k.transitioned => s.reviewed

(* Before the adversarial stage.                                           *)
Amicable(k, s, rows) ==
    ~k.transitioned =>
        /\ AnySubmitted(rows) => s.frozen
        /\ s.reviewed => AnySubmitted(rows)
        /\ ~AnyAfter(rows)

(* What holds as long as no decision was late.                             *)
FirstReview(k, s, apps, rows) ==
    /\ ~s.reviewed =>
          \A c \in Has(rows) :
             /\ rows[c].submitted = "no" => rows[c].review = "PENDING"
             /\ AnySubmitted(rows) => rows[c].submitted # "no"
    /\ ~k.transitioned /\ s.reviewed /\ s.final = "no" =>
          /\ AllSubmitted(apps, rows) /\ ~AnyPending(rows)
          /\ \E c \in Has(rows) : rows[c].review = "REFUSED" /\ rows[c].submitted = "before"
    /\ ~k.transitioned /\ ~k.ended => s.final # "later"

SecondReview(s, rows) ==
    /\ \A c \in Has(rows) : rows[c].review = "REFUSED_2" =>
          \E d \in Has(rows) : d[1] = c[1] /\ rows[d].submitted = "after"
    /\ s.reviewed /\ s.final = "no" =>
          \A c \in Has(rows) :
             rows[c].review = "PENDING" /\ rows[c].submitted = "before" => AnyAfter(rows)

Final(s, apps, rows) ==
    /\ s.final # "no" => AllSubmitted(apps, rows)
    /\ s.final = "same" => Positive(apps, rows)

(* p is what the session keeps, t what the employer was told.              *)
Notified(k, s, apps, rows, p, t) ==
    /\ s.reason \/ p # {} \/ s.notified => IsFinal(k, s) /\ ~Positive(apps, rows)
    /\ t \in {"refused", "refused_no_proofs"} => k.ended /\ ~Positive(apps, rows)
    /\ t \in {"sanctioned", "not_sanctioned"} <=> s.notified
    /\ t \in {"accepted", "force_accepted"} => IsFinal(k, s) /\ Positive(apps, rows)
    /\ k.ended /\ ~Positive(apps, rows) =>
          t \in {"refused", "refused_no_proofs", "sanctioned", "not_sanctioned"}

Base(e) ==
    /\ Sound(campaign, siaes[e], applications[e], criteria[e])
    /\ Amicable(campaign, siaes[e], criteria[e])

Good(e) ==
    /\ FirstReview(campaign, siaes[e], applications[e], criteria[e])
    /\ SecondReview(siaes[e], criteria[e])
    /\ Final(siaes[e], applications[e], criteria[e])
    /\ Notified(campaign, siaes[e], applications[e], criteria[e], picked[e], told[e])

(* A step keeps what is final.                                             *)
Kept(e) ==
    /\ criteria'[e] = criteria[e] /\ applications'[e] = applications[e]
    /\ siaes'[e].final = siaes[e].final

(* What a step has to do to one employer.                                  *)
Keeps(e) ==
    /\ Base(e)'
    /\ ~late' => ~late /\ (Good(e) => Good(e)' /\ (siaes[e].final # "no" => Kept(e)))

LEMMA UntouchedKeeps ==
  ASSUME NEW e \in Siaes, Base(e), campaign' = campaign, siaes'[e] = siaes[e],
         applications'[e] = applications[e], criteria'[e] = criteria[e],
         picked'[e] = picked[e], told'[e] = told[e], late => late'
  PROVE  Keeps(e)
<1>1. Base(e)'
  BY DEF Base
<1>2. Good(e) => Good(e)'
  BY DEF Good
<1> QED
  BY <1>1, <1>2 DEF Keeps, Kept

LEMMA SelectKeeps ==
  ASSUME TypeOK, NEW e \in Evaluated, Base(e), NEW a \in applications[e],
         SiaeSelectCriteria(e, a)
  PROVE  Keeps(e)
<1> DEFINE old == criteria[e]
           new == criteria'[e]
           s == siaes[e]
           apps == applications[e]
           k == campaign
<1>1. /\ \A c \in Cell : c[1] # a => new[c] = old[c]
      /\ \A c \in Cell : c[1] = a => new[c] \in {Absent, NewCriterion} \/ new[c] = old[c]
      /\ \E c \in Cell : c[1] = a /\ new[c] # Absent
      /\ UNCHANGED <<campaign, siaes, applications, picked, told, late>>
  BY SelectEffect
<1>2. /\ ~k.ended /\ ~s.frozen
      /\ (\A c \in Has(old) : c[1] # a) \/ ~s.reviewed
  <2>1. ShouldSelectCriteria(e, a) /\ ~campaign.ended
    BY DEF SiaeSelectCriteria
  <2> QED
    BY <2>1 DEF ShouldSelectCriteria, ChosenFor, Chosen, Has
<1>3. Sound(k, s, apps, old) /\ Amicable(k, s, old)
  BY DEF Base
<1>4. /\ NewCriterion.submitted = "no" /\ NewCriterion.review = "PENDING"
      /\ NewCriterion # Absent
  BY NewRows, AbsentIsNoRow DEF NewCriterion
<1>5. k.transitioned \/ (~s.reviewed /\ ~AnySubmitted(old))
  BY <1>2, <1>3 DEF Amicable
<1>6. ASSUME NEW c \in Has(new)
      PROVE  \/ new[c] = NewCriterion /\ c[1] = a
             \/ c \in Has(old) /\ new[c] = old[c]
  BY <1>1 DEF Has
<1>7. \A c \in Has(old) : c[1] # a => c \in Has(new) /\ new[c] = old[c]
  BY <1>1 DEF Has
<1>8. AnySubmitted(new) => AnySubmitted(old)
  BY <1>4, <1>6 DEF AnySubmitted
<1>9. AnyAfter(new) => AnyAfter(old)
  BY <1>4, <1>6 DEF AnyAfter
<1>10. Sound(k, s, apps, new)
  <2>1. Justified(apps, old) => Justified(apps, new)
    BY <1>1, <1>7 DEF Justified, Has
  <2> QED
    BY <1>3, <1>4, <1>6, <1>8, <2>1 DEF Sound
<1>11. Amicable(k, s, new)
  BY <1>3, <1>5, <1>8, <1>9 DEF Amicable
<1>12. Base(e)'
  BY <1>1, <1>10, <1>11 DEF Base
<1>13. ASSUME Good(e)
       PROVE  Good(e)' /\ s.final = "no"
  <2>1. /\ FirstReview(k, s, apps, old) /\ SecondReview(s, old) /\ Final(s, apps, old)
        /\ Notified(k, s, apps, old, picked[e], told[e])
    BY <1>13 DEF Good
  <2>2. s.final = "no"
    BY <1>2, <1>3, <2>1 DEF Final, AllSubmitted, Submittable, Justified, Sound
  <2>3. FirstReview(k, s, apps, new)
    BY <1>3, <1>4, <1>5, <1>6, <1>8, <2>1, <2>2 DEF FirstReview, Sound
  <2>4. SecondReview(s, new)
    <3>1. ASSUME NEW c \in Has(new), new[c].review = "REFUSED_2"
          PROVE  \E d \in Has(new) : d[1] = c[1] /\ new[d].submitted = "after"
      <4>1. c \in Has(old) /\ new[c] = old[c]
        BY <1>4, <1>6, <3>1
      <4>2. PICK d \in Has(old) : d[1] = c[1] /\ old[d].submitted = "after"
        BY <2>1, <3>1, <4>1 DEF SecondReview
      <4>3. d[1] # a
        BY <1>2, <1>3, <4>2 DEF Sound
      <4> QED
        BY <1>7, <4>2, <4>3
    <3>2. ASSUME s.reviewed, NEW c \in Has(new), new[c].review = "PENDING",
                 new[c].submitted = "before"
          PROVE  AnyAfter(new)
      <4>1. c \in Has(old) /\ new[c] = old[c]
        BY <1>4, <1>6, <3>2
      <4>2. AnyAfter(old)
        BY <2>1, <2>2, <3>2, <4>1 DEF SecondReview
      <4> QED
        BY <1>2, <1>7, <3>2, <4>2 DEF AnyAfter
    <3> QED
      BY <3>1, <3>2 DEF SecondReview
  <2>5. Final(s, apps, new)
    BY <2>2 DEF Final
  <2>6. Notified(k, s, apps, new, picked[e], told[e])
    BY <1>2, <2>1, <2>2 DEF Notified, IsFinal
  <2> QED
    BY <1>1, <2>2, <2>3, <2>4, <2>5, <2>6 DEF Good
<1> QED
  BY <1>1, <1>12, <1>13 DEF Keeps

LEMMA UploadKeeps ==
  ASSUME TypeOK, NEW e \in Evaluated, Base(e), NEW c \in Chosen(e), SiaeUploadDoc(e, c)
  PROVE  Keeps(e)
<1> DEFINE old == criteria[e]
           new == criteria'[e]
           s == siaes[e]
           apps == applications[e]
           k == campaign
<1>1. /\ \A d \in Cell \ {c} : new[d] = old[d]
      /\ new[c] = [proof |-> TRUE, submitted |-> "no", review |-> "PENDING"]
      /\ new[c] # Absent
      /\ UNCHANGED <<campaign, siaes, applications, picked, told>>
  BY UploadEffect
<1>2. /\ ~k.ended /\ ~s.frozen /\ late' = (late \/ s.final # "no")
      /\ old[c].submitted = "no" \/ old[c].review = "REFUSED"
  BY DEF SiaeUploadDoc, CanUpload
<1>3. Sound(k, s, apps, old) /\ Amicable(k, s, old)
  BY DEF Base
<1>4. /\ c \in Has(old) /\ Has(new) = Has(old)
      /\ \A d \in Has(old) \ {c} : new[d] = old[d]
      /\ new[c].proof /\ new[c].submitted = "no" /\ new[c].review = "PENDING"
  BY <1>1 DEF Has, Chosen
<1>5. k.transitioned \/ (~s.reviewed /\ ~AnySubmitted(old))
  BY <1>2, <1>3 DEF Amicable
<1>6. AnySubmitted(new) => AnySubmitted(old)
  BY <1>4 DEF AnySubmitted
<1>7. AnyAfter(new) <=> AnyAfter(old)
  <2>1. old[c].submitted # "after"
    BY <1>2, <1>3, <1>4 DEF Sound
  <2> QED
    BY <1>4, <2>1 DEF AnyAfter
<1>8. Sound(k, s, apps, new)
  <2>1. Justified(apps, old) => Justified(apps, new)
    BY <1>4 DEF Justified
  <2> QED
    BY <1>3, <1>4, <1>6, <2>1 DEF Sound
<1>9. Amicable(k, s, new)
  BY <1>3, <1>5, <1>6, <1>7 DEF Amicable
<1>10. Base(e)'
  BY <1>1, <1>8, <1>9 DEF Base
<1>11. ASSUME Good(e), s.final = "no"
       PROVE  Good(e)'
  <2>1. /\ FirstReview(k, s, apps, old) /\ SecondReview(s, old)
        /\ Notified(k, s, apps, old, picked[e], told[e])
    BY <1>11 DEF Good
  <2>2. FirstReview(k, s, apps, new)
    BY <1>3, <1>4, <1>5, <1>6, <1>11, <2>1 DEF FirstReview, Sound
  <2>3. SecondReview(s, new)
    <3>1. ASSUME NEW b \in Has(new), new[b].review = "REFUSED_2"
          PROVE  \E d \in Has(new) : d[1] = b[1] /\ new[d].submitted = "after"
      <4>1. b \in Has(old) /\ old[b].review = "REFUSED_2"
        BY <1>4, <3>1
      <4>2. PICK d \in Has(old) : d[1] = b[1] /\ old[d].submitted = "after"
        BY <2>1, <4>1 DEF SecondReview
      <4>3. d # c
        BY <1>2, <1>3, <4>2 DEF Sound
      <4> QED
        BY <1>4, <4>2, <4>3
    <3> QED
      BY <1>4, <1>7, <1>11, <2>1, <3>1 DEF SecondReview
  <2>4. Final(s, apps, new)
    BY <1>11 DEF Final
  <2>5. Notified(k, s, apps, new, picked[e], told[e])
    BY <1>2, <1>11, <2>1 DEF Notified, IsFinal
  <2> QED
    BY <1>1, <2>2, <2>3, <2>4, <2>5 DEF Good
<1> QED
  BY <1>2, <1>10, <1>11 DEF Keeps

LEMMA EvaluateKeeps ==
  ASSUME TypeOK, NEW e \in Evaluated, Base(e), NEW c \in Chosen(e), EvaluateCriterion(e, c)
  PROVE  Keeps(e)
<1> DEFINE old == criteria[e]
           new == criteria'[e]
           s == siaes[e]
           apps == applications[e]
           k == campaign
<1>1. PICK action \in {"reinit", "accept", "refuse"} :
         /\ \A d \in Cell \ {c} : new[d] = old[d]
         /\ new[c].review = Decision(e, action)
         /\ new[c].proof = old[c].proof /\ new[c].submitted = old[c].submitted
         /\ new[c] # Absent
         /\ late' = (late \/ ~Offered(e, c, action))
         /\ UNCHANGED <<campaign, siaes, applications, picked, told>>
  BY EvaluateEffect
<1>2. /\ new[c].review \in {"PENDING", "ACCEPTED", "REFUSED", "REFUSED_2"}
      /\ new[c].review = "REFUSED" => ~s.reviewed
  BY <1>1 DEF Decision
<1>3. Sound(k, s, apps, old) /\ Amicable(k, s, old)
  BY DEF Base
<1>4. /\ c \in Has(old) /\ Has(new) = Has(old)
      /\ \A d \in Has(old) \ {c} : new[d] = old[d]
      /\ \A d \in Has(old) : new[d].proof = old[d].proof /\ new[d].submitted = old[d].submitted
  BY <1>1 DEF Has, Chosen
<1>5. /\ AnySubmitted(new) <=> AnySubmitted(old)
      /\ AnyAfter(new) <=> AnyAfter(old)
      /\ Justified(apps, new) <=> Justified(apps, old)
  BY <1>4 DEF AnySubmitted, AnyAfter, Justified
<1>6. Sound(k, s, apps, new)
  BY <1>2, <1>3, <1>4, <1>5 DEF Sound
<1>7. Amicable(k, s, new)
  BY <1>3, <1>5 DEF Amicable
<1>8. Base(e)'
  BY <1>1, <1>6, <1>7 DEF Base
<1>9. ASSUME Good(e), Offered(e, c, action)
      PROVE  Good(e)' /\ s.final = "no"
  <2>1. /\ FirstReview(k, s, apps, old) /\ SecondReview(s, old)
        /\ Notified(k, s, apps, old, picked[e], told[e])
    BY <1>9 DEF Good
  <2>2. PICK d \in Has(old) :
           /\ d[1] = c[1]
           /\ IF s.reviewed THEN old[d].submitted = "after" ELSE old[d].submitted # "no"
    BY <1>9 DEF Offered, CanEditProof, ChosenFor, Chosen, Has
  <2>3. s.final = "no" /\ ~k.ended
    BY <1>9 DEF Offered, CanEditProof, EvaluationIsFinal
  <2>4. AnySubmitted(old) /\ (s.reviewed => AnyAfter(old))
    BY <2>2 DEF AnySubmitted, AnyAfter
  <2>5. FirstReview(k, s, apps, new)
    BY <1>3, <1>4, <1>5, <2>1, <2>3, <2>4 DEF FirstReview, Amicable
  <2>6. SecondReview(s, new)
    <3>1. ASSUME NEW b \in Has(new), new[b].review = "REFUSED_2"
          PROVE  \E f \in Has(new) : f[1] = b[1] /\ new[f].submitted = "after"
      <4>1. CASE b = c
        <5>1. s.reviewed
          BY <1>1, <3>1, <4>1 DEF Decision
        <5> QED
          BY <1>4, <2>2, <4>1, <5>1
      <4>2. CASE b # c
        BY <1>4, <2>1, <3>1, <4>2 DEF SecondReview
      <4> QED
        BY <4>1, <4>2
    <3> QED
      BY <1>5, <2>4, <3>1 DEF SecondReview
  <2>7. Final(s, apps, new)
    BY <2>3 DEF Final
  <2>8. Notified(k, s, apps, new, picked[e], told[e])
    BY <2>1, <2>3 DEF Notified, IsFinal
  <2> QED
    BY <1>1, <2>3, <2>5, <2>6, <2>7, <2>8 DEF Good
<1> QED
  BY <1>1, <1>8, <1>9 DEF Keeps

LEMMA SubmitKeeps ==
  ASSUME TypeOK, NEW e \in Evaluated, Base(e), SiaeSubmitProofs(e)
  PROVE  Keeps(e)
<1> DEFINE old == criteria[e]
           new == criteria'[e]
           s == siaes[e]
           t == siaes'[e]
           apps == applications[e]
           k == campaign
<1>0. e \in Siaes /\ s \in Siae
  BY SiaeFields
<1>1. /\ \A c \in Cell \ Chosen(e) : new[c] = Absent
      /\ \A c \in Chosen(e) :
            /\ new[c] # Absent
            /\ new[c].proof = old[c].proof /\ new[c].review = old[c].review
            /\ new[c].submitted = IF old[c].review = "PENDING" THEN Now(e) ELSE old[c].submitted
      /\ UNCHANGED <<campaign, applications, picked, told, late>>
  BY SubmitEffect
<1>2. /\ t.frozen /\ t.reviewed = s.reviewed /\ t.final = s.final
      /\ t.reason = s.reason /\ t.notified = s.notified
  BY <1>0, SubmitFreezes DEF Siae
<1>3. ~s.frozen /\ ~IsFinal(k, s) /\ Submittable(apps, old)
  <2>1. ~s.frozen /\ State(e) = "SUBMITTABLE"
    BY DEF SiaeSubmitProofs, CanSubmit
  <2> QED
    BY <1>0, <2>1, StateIs DEF StateMeans
<1>4. Sound(k, s, apps, old) /\ Amicable(k, s, old)
  BY DEF Base
<1>5. /\ Has(new) = Has(old)
      /\ \A c \in Has(old) :
            /\ new[c].proof = old[c].proof /\ new[c].review = old[c].review
            /\ new[c].submitted = IF old[c].review = "PENDING"
                                  THEN (IF s.reviewed THEN "after" ELSE "before")
                                  ELSE old[c].submitted
  BY <1>1 DEF Has, Chosen, Now
<1>6. k.transitioned \/ (~s.reviewed /\ ~AnySubmitted(old))
  BY <1>3, <1>4 DEF Amicable
<1>7. Justified(apps, new) /\ \A c \in Has(new) : new[c].proof
  BY <1>3, <1>5 DEF Submittable, Justified
<1>8. Sound(k, t, apps, new)
  BY <1>2, <1>4, <1>5, <1>7 DEF Sound
<1>9. Amicable(k, t, new)
  BY <1>2, <1>4, <1>5, <1>6 DEF Amicable, AnyAfter
<1>10. Base(e)'
  BY <1>1, <1>8, <1>9 DEF Base
<1>11. ASSUME Good(e)
       PROVE  Good(e)'
  <2>1. /\ FirstReview(k, s, apps, old) /\ SecondReview(s, old)
        /\ Notified(k, s, apps, old, picked[e], told[e])
    BY <1>11 DEF Good
  <2>2. t.final = "no" /\ ~k.ended
    BY <1>2, <1>3 DEF IsFinal
  <2>3. FirstReview(k, t, apps, new)
    <3>1. ASSUME ~s.reviewed, NEW c \in Has(new)
          PROVE  new[c].submitted # "no"
      BY <1>5, <2>1, <3>1 DEF FirstReview
    <3> QED
      BY <1>2, <1>6, <2>2, <3>1 DEF FirstReview
  <2>4. SecondReview(t, new)
    <3>1. ASSUME NEW c \in Has(new), new[c].review = "REFUSED_2"
          PROVE  \E d \in Has(new) : d[1] = c[1] /\ new[d].submitted = "after"
      <4>1. PICK d \in Has(old) : d[1] = c[1] /\ old[d].submitted = "after"
        BY <1>5, <2>1, <3>1 DEF SecondReview
      <4>2. new[d].submitted = "after"
        BY <1>4, <1>5, <4>1 DEF Sound
      <4> QED
        BY <1>5, <4>1, <4>2
    <3>2. ASSUME s.reviewed, NEW c \in Has(new), new[c].review = "PENDING"
          PROVE  new[c].submitted = "after"
      BY <1>5, <3>2
    <3> QED
      BY <1>2, <3>1, <3>2 DEF SecondReview
  <2>5. Final(t, apps, new)
    BY <2>2 DEF Final
  <2>6. Notified(k, t, apps, new, picked[e], told[e])
    BY <1>2, <2>1, <2>2 DEF Notified, IsFinal
  <2> QED
    BY <1>1, <2>3, <2>4, <2>5, <2>6 DEF Good
<1> QED
  BY <1>1, <1>3, <1>10, <1>11 DEF Keeps, IsFinal

(* The steps below leave the criteria as they are.                         *)
LEMMA ReviewKeeps ==
  ASSUME TypeOK, NEW e \in Evaluated, Base(e), Review(e)
  PROVE  Keeps(e)
<1> DEFINE rows == criteria[e]
           s == siaes[e]
           t == siaes'[e]
           apps == applications[e]
           k == campaign
<1>0. e \in Siaes /\ s \in Siae
  BY SiaeFields
<1>1. UNCHANGED <<campaign, applications, criteria, picked, told, late>> /\ ~k.ended /\ CanReview(e)
  BY DEF Review
<1>2. t = Reviewed(e)
  BY ReviewEffect
<1>3. StateMeans(e)
  BY <1>0, StateIs
<1>4. /\ \/ /\ ~s.reviewed /\ State(e) = "ACCEPTED"
            /\ t.final = "same"
         \/ /\ ~s.reviewed /\ State(e) = "REFUSED"
            /\ t.final = s.final
         \/ /\ s.reviewed /\ s.final = "no" /\ State(e) = "ADVERSARIAL_STAGE"
            /\ ~\E c \in Has(rows) : rows[c].review = "REFUSED" /\ rows[c].submitted = "before"
            /\ t.final = "later"
      /\ t.reviewed /\ t.frozen = s.frozen /\ t.reason = s.reason /\ t.notified = s.notified
  <2>1. CASE ~s.reviewed /\ State(e) = "ACCEPTED"
    BY <1>0, <1>2, <2>1 DEF Reviewed, Siae
  <2>2. CASE ~s.reviewed /\ State(e) = "REFUSED"
    BY <1>0, <1>2, <2>2 DEF Reviewed, Siae
  <2>3. CASE /\ s.reviewed /\ s.final = "no" /\ State(e) = "ADVERSARIAL_STAGE"
             /\ ~\E row \in Rows(e) : row.review = "REFUSED" /\ row.submitted = "before"
    <3>1. ~\E c \in Has(rows) : rows[c].review = "REFUSED" /\ rows[c].submitted = "before"
      BY <2>3 DEF Rows, Chosen, Has
    <3> QED
      BY <1>0, <1>2, <2>3, <3>1 DEF Reviewed, Siae
  <2> QED
    BY <1>1, <2>1, <2>2, <2>3 DEF CanReview
<1> HIDE DEF s, t, k, apps, rows
<1>5. Sound(k, s, apps, rows) /\ Amicable(k, s, rows)
  BY DEF Base, k, s, apps, rows
<1>6. ~IsFinal(k, s) /\ AllSubmitted(apps, rows) /\ ~AnyPending(rows)
  <2>1. s.final = "no"
    BY <1>4, <1>5 DEF Sound
  <2> QED
    BY <1>1, <1>3, <1>4, <2>1 DEF StateMeans, IsFinal, k, s, apps, rows
<1>7. AnySubmitted(rows)
  BY <1>6 DEF AllSubmitted, Submittable, Justified, AnySubmitted
<1>8. /\ State(e) = "ACCEPTED" /\ ~s.reviewed => AllAccepted(rows)
      /\ State(e) = "REFUSED" => ~AllAccepted(rows)
  BY <1>3, <1>6 DEF StateMeans, k, s, apps, rows
<1>9. Sound(k, t, apps, rows)
  BY <1>4, <1>5 DEF Sound
<1>10. Amicable(k, t, rows)
  BY <1>4, <1>5, <1>7 DEF Amicable
<1>11. Base(e)'
  BY <1>1, <1>9, <1>10 DEF Base, k, t, apps, rows
<1>12. ASSUME Good(e)
       PROVE  Good(e)'
  <2>1. /\ FirstReview(k, s, apps, rows) /\ SecondReview(s, rows)
        /\ Notified(k, s, apps, rows, picked[e], told[e])
    BY <1>12 DEF Good, k, s, apps, rows
  <2>2. FirstReview(k, t, apps, rows)
    <3>1. ASSUME ~k.transitioned, t.final = "no"
          PROVE  \E c \in Has(rows) : rows[c].review = "REFUSED" /\ rows[c].submitted = "before"
      <4>1. ~s.reviewed /\ State(e) = "REFUSED"
        BY <1>4, <3>1
      <4>2. PICK c \in Has(rows) : rows[c].review # "ACCEPTED"
        BY <1>8, <4>1 DEF AllAccepted
      <4>3. /\ rows[c].review \in {"PENDING", "ACCEPTED", "REFUSED", "REFUSED_2"}
            /\ rows[c].submitted \in {"no", "before", "after"}
        BY <1>0, CriterionFields DEF Has, Chosen, rows
      <4>4. rows[c].review # "REFUSED_2"
        BY <1>5, <2>1, <4>1 DEF SecondReview, Sound
      <4>5. rows[c].submitted # "no" /\ rows[c].submitted # "after"
        BY <1>5, <1>6, <4>1 DEF AllSubmitted, Sound
      <4> QED
        BY <1>6, <4>2, <4>3, <4>4, <4>5 DEF AnyPending
    <3>2. ~k.transitioned => t.final # "later"
      BY <1>4, <1>5, <2>1 DEF FirstReview, Sound
    <3> QED
      BY <1>4, <1>6, <3>1, <3>2 DEF FirstReview
  <2>3. SecondReview(t, rows)
    BY <1>6, <2>1 DEF SecondReview, AnyPending
  <2>4. Final(t, apps, rows)
    BY <1>4, <1>5, <1>6, <1>8 DEF Final, Positive, Sound
  <2>5. Notified(k, t, apps, rows, picked[e], told[e])
    BY <1>4, <1>6, <2>1 DEF Notified, IsFinal
  <2> QED
    BY <1>1, <2>2, <2>3, <2>4, <2>5 DEF Good, k, t, apps, rows
<1> QED
  BY <1>1, <1>6, <1>11, <1>12 DEF Keeps, IsFinal, k, s

(* A step that only changes what is kept of the notification.              *)
LEMMA NotificationKeeps ==
  ASSUME TypeOK, NEW e \in Evaluated, Base(e),
         UNCHANGED <<campaign, applications, criteria, late>>,
         siaes'[e].reviewed = siaes[e].reviewed, siaes'[e].frozen = siaes[e].frozen,
         siaes'[e].final = siaes[e].final,
         Good(e) => Notified(campaign, siaes'[e], applications[e], criteria[e], picked'[e], told'[e])
  PROVE  Keeps(e)
<1>1. Base(e)'
  BY DEF Base, Sound, Amicable
<1>2. ASSUME Good(e)
      PROVE  Good(e)'
  <2>1. FirstReview(campaign, siaes'[e], applications[e], criteria[e])
    BY <1>2 DEF Good, FirstReview
  <2>2. SecondReview(siaes'[e], criteria[e]) /\ Final(siaes'[e], applications[e], criteria[e])
    BY <1>2 DEF Good, SecondReview, Final
  <2> QED
    BY <1>2, <2>1, <2>2 DEF Good
<1> QED
  BY <1>1, <1>2 DEF Keeps, Kept

LEMMA Step1Keeps ==
  ASSUME TypeOK, NEW e \in Evaluated, Base(e), NotifyStep1(e)
  PROVE  Keeps(e)
<1> DEFINE s == siaes[e]
           t == siaes'[e]
<1>0. e \in Siaes /\ s \in Siae
  BY SiaeFields
<1>1. /\ UNCHANGED <<campaign, applications, criteria, picked, told, late>>
      /\ EvaluationIsFinal(e) /\ State(e) = "REFUSED"
  BY DEF NotifyStep1, MayNotify
<1>2. /\ t.reviewed = s.reviewed /\ t.frozen = s.frozen /\ t.final = s.final
      /\ t.notified = s.notified
  BY <1>0, Step1Effect DEF Siae
<1>3. IsFinal(campaign, s) /\ ~Positive(applications[e], criteria[e])
  <2>1. IsFinal(campaign, s)
    BY <1>1 DEF EvaluationIsFinal, IsFinal
  <2> QED
    BY <1>0, <1>1, <2>1, StateIs DEF StateMeans
<1>4. ASSUME Good(e)
      PROVE  Notified(campaign, t, applications[e], criteria[e], picked'[e], told'[e])
  BY <1>1, <1>2, <1>3, <1>4 DEF Good, Notified, IsFinal
<1> QED
  BY <1>1, <1>2, <1>4, NotificationKeeps

LEMMA Step2Keeps ==
  ASSUME TypeOK, NEW e \in Evaluated, Base(e), NotifyStep2(e)
  PROVE  Keeps(e)
<1>1. UNCHANGED <<campaign, siaes, applications, criteria, told, late>> /\ siaes[e].reason
  BY DEF NotifyStep2
<1>2. ASSUME Good(e)
      PROVE  Notified(campaign, siaes'[e], applications[e], criteria[e], picked'[e], told'[e])
  BY <1>1, <1>2 DEF Good, Notified
<1> QED
  BY <1>1, <1>2, NotificationKeeps

LEMMA Step3Keeps ==
  ASSUME TypeOK, NEW e \in Evaluated, Base(e), NotifyStep3(e)
  PROVE  Keeps(e)
<1> DEFINE s == siaes[e]
           t == siaes'[e]
<1>0. e \in Siaes /\ s \in Siae
  BY SiaeFields
<1>1. /\ UNCHANGED <<campaign, applications, criteria, late>>
      /\ picked[e] # {} /\ EvaluationIsFinal(e) /\ ~s.notified
  BY DEF NotifyStep3, MayNotify
<1>2. /\ t.reviewed = s.reviewed /\ t.frozen = s.frozen /\ t.final = s.final
      /\ t.notified /\ t.reason = s.reason
  <2>1. t = [s EXCEPT !.notified = TRUE, !.sanctions = picked[e]]
    BY Step3Effect
  <2> QED
    BY <1>0, <2>1 DEF Siae
<1>3. told'[e] \in {"sanctioned", "not_sanctioned"}
  <2>1. PICK result \in {"sanctioned", "not_sanctioned"} : told' = [told EXCEPT ![e] = result]
    BY Step3Effect
  <2> QED
    BY <1>0, <2>1 DEF TypeOK
<1>4. ASSUME Good(e)
      PROVE  Notified(campaign, t, applications[e], criteria[e], picked'[e], told'[e])
  BY <1>1, <1>2, <1>3, <1>4 DEF Good, Notified, IsFinal
<1> QED
  BY <1>1, <1>2, <1>4, NotificationKeeps

LEMMA RemindKeeps ==
  ASSUME TypeOK, NEW e \in Evaluated, Base(e), Remind
  PROVE  Keeps(e)
<1> DEFINE s == siaes[e]
           t == siaes'[e]
<1>0. e \in Siaes /\ s \in Siae
  BY SiaeFields
<1>1. UNCHANGED <<campaign, applications, criteria, picked, told, late>>
  BY DEF Remind
<1>2. t = s \/ t = [s EXCEPT !.reminder = Now(e)]
  BY RemindEffect
<1>3. /\ t.reviewed = s.reviewed /\ t.frozen = s.frozen /\ t.final = s.final
      /\ t.notified = s.notified /\ t.reason = s.reason
  BY <1>0, <1>2 DEF Siae
<1>4. ASSUME Good(e)
      PROVE  Notified(campaign, t, applications[e], criteria[e], picked'[e], told'[e])
  BY <1>1, <1>3, <1>4 DEF Good, Notified, IsFinal
<1> QED
  BY <1>1, <1>3, <1>4, NotificationKeeps

LEMMA FreezeKeeps ==
  ASSUME TypeOK, NEW e \in Evaluated, Base(e), Freeze
  PROVE  Keeps(e)
<1> DEFINE s == siaes[e]
           t == siaes'[e]
<1>1. UNCHANGED <<campaign, applications, criteria, picked, told, late>>
  BY DEF Freeze
<1>2. /\ t.frozen /\ t.reviewed = s.reviewed /\ t.final = s.final
      /\ t.notified = s.notified /\ t.reason = s.reason
  <2>1. s \in Siae /\ t = [s EXCEPT !.frozen = TRUE]
    BY SiaeFields, FreezeEffect
  <2> QED
    BY <2>1 DEF Siae
<1>3. Base(e)'
  BY <1>1, <1>2 DEF Base, Sound, Amicable
<1>4. ASSUME Good(e)
      PROVE  Good(e)'
  <2>1. FirstReview(campaign, t, applications[e], criteria[e])
    BY <1>2, <1>4 DEF Good, FirstReview
  <2>2. SecondReview(t, criteria[e]) /\ Final(t, applications[e], criteria[e])
    BY <1>2, <1>4 DEF Good, SecondReview, Final
  <2>3. Notified(campaign, t, applications[e], criteria[e], picked[e], told[e])
    BY <1>2, <1>4 DEF Good, Notified, IsFinal
  <2> QED
    BY <1>1, <2>1, <2>2, <2>3 DEF Good
<1> QED
  BY <1>1, <1>2, <1>3, <1>4 DEF Keeps, Kept

LEMMA TransitionKeeps ==
  ASSUME TypeOK, NEW e \in Evaluated, Base(e), TransitionToAdversarialPhase
  PROVE  Keeps(e)
<1> DEFINE rows == criteria[e]
           s == siaes[e]
           t == siaes'[e]
           apps == applications[e]
           k == campaign
           l == campaign'
<1>0. e \in Siaes /\ s \in Siae /\ s.final \in {"no", "same", "later"}
  BY SiaeFields
<1>1. /\ UNCHANGED <<applications, criteria, picked, late>>
      /\ ~k.ended /\ l.ended = k.ended /\ l.transitioned
      /\ told'[e] = Transition(e)
      /\ s.reviewed => State(e) \in {"ACCEPTED", "ADVERSARIAL_STAGE"}
  BY <1>0 DEF TransitionToAdversarialPhase, TypeOK, Campaign, Unexpected
<1>2. /\ t.reviewed /\ t.reason = s.reason /\ t.notified = s.notified
      /\ s.reviewed => t.final = s.final
      /\ ~s.reviewed =>
            t.final = IF State(e) \in {"SUBMITTED", "ACCEPTED"} THEN "same" ELSE s.final
  <2>1. t = Transitioned(e)
    BY TransitionEffect
  <2>2. CASE s.reviewed
    BY <1>0, <2>1, <2>2 DEF Transitioned, Siae
  <2>3. CASE ~s.reviewed /\ State(e) \in {"SUBMITTED", "ACCEPTED"}
    BY <1>0, <2>1, <2>3 DEF Transitioned, Siae
  <2>4. CASE ~s.reviewed /\ State(e) \notin {"SUBMITTED", "ACCEPTED"}
    BY <1>0, <2>1, <2>4 DEF Transitioned, Siae
  <2> QED
    BY <2>2, <2>3, <2>4
<1>3. /\ StateMeans(e)
      /\ told'[e] = CASE State(e) \in {"PENDING", "SUBMITTABLE"} -> "forced_to_adversarial_stage"
                      [] State(e) = "SUBMITTED" -> "force_accepted"
                      [] State(e) = "ACCEPTED" -> "accepted"
                      [] State(e) \in {"REFUSED", "ADVERSARIAL_STAGE"} -> "adversarial_stage"
  BY <1>0, <1>1, StateIs DEF Transition
<1>4. Sound(k, s, apps, rows)
  BY DEF Base
<1>5. ~s.reviewed => ~IsFinal(k, s)
  BY <1>1, <1>4 DEF Sound, IsFinal
<1>6. Sound(l, t, apps, rows) /\ Amicable(l, t, rows)
  BY <1>1, <1>2, <1>4 DEF Sound, Amicable
<1>7. Base(e)'
  BY <1>1, <1>6 DEF Base
<1>8. ASSUME Good(e)
      PROVE  Good(e)'
  <2>1. /\ FirstReview(k, s, apps, rows) /\ SecondReview(s, rows) /\ Final(s, apps, rows)
        /\ Notified(k, s, apps, rows, picked[e], told[e])
    BY <1>8 DEF Good
  <2>2. FirstReview(l, t, apps, rows)
    BY <1>1, <1>2 DEF FirstReview
  <2>3. SecondReview(t, rows)
    <3>1. ASSUME ~s.reviewed, t.final = "no", NEW c \in Has(rows),
                 rows[c].review = "PENDING", rows[c].submitted = "before"
          PROVE  FALSE
      <4>1. AnySubmitted(rows) /\ AnyPending(rows)
        BY <3>1 DEF AnySubmitted, AnyPending
      <4>2. \A d \in Has(rows) : rows[d].submitted # "no"
        BY <2>1, <3>1, <4>1 DEF FirstReview
      <4>3. AllSubmitted(apps, rows)
        BY <1>4, <4>1, <4>2 DEF Sound, AllSubmitted, Submittable
      <4>4. State(e) = "SUBMITTED"
        BY <1>3, <1>5, <3>1, <4>1, <4>3 DEF StateMeans
      <4> QED
        BY <1>2, <3>1, <4>4
    <3> QED
      BY <1>2, <2>1, <3>1 DEF SecondReview
  <2>4. Final(t, apps, rows)
    <3>1. ASSUME ~s.reviewed, State(e) \in {"SUBMITTED", "ACCEPTED"}
          PROVE  AllSubmitted(apps, rows) /\ Positive(apps, rows)
      BY <1>3, <1>5, <3>1 DEF StateMeans, Positive
    <3>2. ~s.reviewed => s.final = "no"
      BY <1>4 DEF Sound
    <3> QED
      BY <1>2, <2>1, <3>1, <3>2 DEF Final
  <2>5. Notified(l, t, apps, rows, picked[e], told'[e])
    <3>1. CASE s.reviewed /\ State(e) = "ADVERSARIAL_STAGE"
      <4>1. told'[e] = "adversarial_stage"
        BY <1>3, <3>1
      <4>2. ~IsFinal(k, s)
        BY <1>3, <3>1 DEF StateMeans
      <4> QED
        BY <1>1, <1>2, <2>1, <3>1, <4>1, <4>2 DEF Notified, IsFinal
    <3>2. CASE s.reviewed /\ State(e) = "ACCEPTED"
      <4>1. told'[e] = "accepted"
        BY <1>3, <3>2
      <4>2. IsFinal(k, s) /\ Positive(apps, rows)
        BY <1>3, <3>2 DEF StateMeans
      <4> QED
        BY <1>1, <1>2, <2>1, <3>2, <4>1, <4>2 DEF Notified, IsFinal
    <3>3. CASE ~s.reviewed /\ State(e) \in {"SUBMITTED", "ACCEPTED"}
      <4>1. told'[e] \in {"accepted", "force_accepted"}
        BY <1>3, <3>3
      <4>2. t.final = "same" /\ Positive(apps, rows)
        BY <1>2, <1>3, <1>5, <3>3 DEF StateMeans, Positive
      <4> QED
        BY <1>1, <1>2, <1>5, <2>1, <3>3, <4>1, <4>2 DEF Notified, IsFinal
    <3>4. CASE ~s.reviewed /\ State(e) \notin {"SUBMITTED", "ACCEPTED"}
      <4>1. told'[e] \in {"forced_to_adversarial_stage", "adversarial_stage"}
        BY <1>3, <3>4 DEF StateMeans
      <4> QED
        BY <1>1, <1>2, <1>5, <2>1, <3>4, <4>1 DEF Notified, IsFinal
    <3> QED
      BY <1>1, <3>1, <3>2, <3>3, <3>4
  <2> QED
    BY <1>1, <2>2, <2>3, <2>4, <2>5 DEF Good
<1>9. s.final # "no" => t.final = s.final
  BY <1>2, <1>4 DEF Sound
<1> QED
  BY <1>1, <1>7, <1>8, <1>9 DEF Keeps, Kept

LEMMA CloseKeeps ==
  ASSUME TypeOK, NEW e \in Evaluated, Base(e), Close
  PROVE  Keeps(e)
<1> DEFINE rows == criteria[e]
           s == siaes[e]
           t == siaes'[e]
           apps == applications[e]
           k == campaign
           l == campaign'
<1>0. e \in Siaes /\ s \in Siae /\ s.final \in {"no", "same", "later"}
  BY SiaeFields
<1>1. /\ UNCHANGED <<applications, criteria, picked, late>>
      /\ ~k.ended /\ l.ended /\ l.transitioned = k.transitioned
      /\ told'[e] = IF ~s.notified THEN Closing(e) ELSE told[e]
      /\ ~s.notified /\ AutoValidated(e) => s.reviewed
  BY <1>0 DEF Close, TypeOK, Campaign
<1>2. StateMeans(e) /\ FromApplicationsMeans(e)
  BY <1>0, StateIs, FromApplications
<1>3. AutoValidated(e) <=> s.final = "no" /\ AllSubmitted(apps, rows) /\ ~AnyPending(rows)
  BY <1>2 DEF AutoValidated, FromApplicationsMeans
<1>4. /\ t.reviewed = s.reviewed /\ t.frozen = s.frozen
      /\ t.reason = s.reason /\ t.notified = s.notified
      /\ t.final = IF ~s.notified /\ AutoValidated(e) THEN "later" ELSE s.final
  <2>1. CASE ~s.notified /\ AutoValidated(e)
    <3>1. t = [s EXCEPT !.final = "later"]
      BY <2>1, CloseEffect
    <3> QED
      BY <1>0, <2>1, <3>1 DEF Siae
  <2>2. CASE ~(~s.notified /\ AutoValidated(e))
    <3>1. t = s
      BY <2>2, CloseEffect
    <3> QED
      BY <2>2, <3>1
  <2> QED
    BY <2>1, <2>2
<1>5. Sound(k, s, apps, rows) /\ Amicable(k, s, rows)
  BY DEF Base
<1>6. Sound(l, t, apps, rows) /\ Amicable(l, t, rows)
  BY <1>1, <1>4, <1>5 DEF Sound, Amicable
<1>7. Base(e)'
  BY <1>1, <1>6 DEF Base
<1>8. ASSUME Good(e)
      PROVE  Good(e)'
  <2>1. /\ FirstReview(k, s, apps, rows) /\ SecondReview(s, rows) /\ Final(s, apps, rows)
        /\ Notified(k, s, apps, rows, picked[e], told[e])
    BY <1>8 DEF Good
  <2>2. FirstReview(l, t, apps, rows)
    BY <1>1, <1>4, <2>1 DEF FirstReview
  <2>3. SecondReview(t, rows)
    BY <1>4, <2>1 DEF SecondReview
  <2>4. Final(t, apps, rows)
    BY <1>3, <1>4, <2>1 DEF Final
  <2>5. Notified(l, t, apps, rows, picked[e], told'[e])
    <3>1. s.reason \/ picked[e] # {} \/ s.notified => ~Positive(apps, rows)
      BY <2>1 DEF Notified
    <3>2. CASE s.notified
      BY <1>1, <1>4, <2>1, <3>1, <3>2 DEF Notified, IsFinal
    <3>3. CASE ~s.notified
      <4>1. WithoutProofs(e) <=>
               s.final = "no" /\ (Has(rows) = {} \/ \E c \in Has(rows) : rows[c].submitted = "no")
        BY DEF WithoutProofs, Rows, Chosen, Has
      <4>2. CASE WithoutProofs(e)
        <5>1. ~AllSubmitted(apps, rows)
          BY <4>1, <4>2 DEF AllSubmitted, Submittable, Justified
        <5>2. told'[e] = "refused_no_proofs" /\ ~Positive(apps, rows)
          BY <1>1, <1>3, <3>3, <4>1, <4>2, <5>1 DEF Closing, Positive
        <5> QED
          BY <1>1, <1>4, <3>1, <3>3, <5>2 DEF Notified, IsFinal
      <4>3. CASE ~WithoutProofs(e) /\ AutoValidated(e)
        <5>1. CASE AllAccepted(rows)
          <6>1. StateFromApplications(e) = "ACCEPTED" /\ Positive(apps, rows)
            BY <1>2, <1>3, <4>3, <5>1 DEF FromApplicationsMeans, Positive
          <6>2. told'[e] = "accepted"
            BY <1>1, <1>3, <3>3, <4>3, <6>1 DEF Closing
          <6> QED
            BY <1>1, <1>4, <3>1, <3>3, <6>1, <6>2 DEF Notified, IsFinal
        <5>2. CASE ~AllAccepted(rows)
          <6>1. StateFromApplications(e) = "REFUSED" /\ ~Positive(apps, rows)
            BY <1>2, <1>3, <4>3, <5>2 DEF FromApplicationsMeans, Positive
          <6>2. told'[e] = "refused"
            BY <1>1, <1>3, <3>3, <4>3, <6>1 DEF Closing
          <6> QED
            BY <1>1, <1>4, <3>1, <3>3, <6>1, <6>2 DEF Notified, IsFinal
        <5> QED
          BY <5>1, <5>2
      <4>4. CASE ~WithoutProofs(e) /\ ~AutoValidated(e) /\ s.final # "no"
        <5>1. /\ State(e) = "ACCEPTED" <=> Positive(apps, rows)
              /\ State(e) = "REFUSED" <=> ~Positive(apps, rows)
          BY <1>2, <4>4 DEF StateMeans, IsFinal
        <5>2. \/ ~Positive(apps, rows) /\ told'[e] = "refused"
              \/ Positive(apps, rows) /\ told'[e] \in {"accepted", told[e]}
          BY <1>1, <3>3, <4>4, <5>1 DEF Closing
        <5> QED
          BY <1>1, <1>4, <2>1, <3>1, <3>3, <5>2 DEF Notified, IsFinal
      <4>5. CASE ~WithoutProofs(e) /\ ~AutoValidated(e) /\ s.final = "no"
        <5>1. AllSubmitted(apps, rows)
          BY <1>5, <4>1, <4>5 DEF AllSubmitted, Submittable, Sound, AnySubmitted
        <5>2. Positive(apps, rows) /\ told'[e] = told[e]
          BY <1>1, <1>3, <3>3, <4>5, <5>1 DEF Positive, Closing
        <5> QED
          BY <1>1, <1>4, <2>1, <3>1, <3>3, <5>2 DEF Notified, IsFinal
      <4> QED
        BY <4>2, <4>3, <4>4, <4>5
    <3> QED
      BY <3>2, <3>3
  <2> QED
    BY <1>1, <2>2, <2>3, <2>4, <2>5 DEF Good
<1>9. s.final # "no" => t.final = s.final
  BY <1>3, <1>4
<1> QED
  BY <1>1, <1>7, <1>8, <1>9 DEF Keeps, Kept
-----------------------------------------------------------------------------
(* Only one employer is touched.                                           *)
LEMMA OneKeeps ==
  ASSUME TypeOK, \A f \in Evaluated : Base(f), NEW e \in Evaluated, Keeps(e),
         UNCHANGED <<campaign, applications>>, late => late',
         \A f \in Siaes \ {e} : /\ siaes'[f] = siaes[f] /\ criteria'[f] = criteria[f]
                                /\ picked'[f] = picked[f] /\ told'[f] = told[f]
  PROVE  \A f \in Evaluated : Keeps(f)
<1> SUFFICES ASSUME NEW f \in Evaluated, f # e
             PROVE  Keeps(f)
  OBVIOUS
<1>1. f \in Siaes /\ Base(f)
  BY DEF Evaluated
<1> QED
  BY <1>1, UntouchedKeeps

LEMMA StepKeeps ==
  ASSUME TypeOK, \A f \in Evaluated : Base(f), [Next]_vars, ~Populate
  PROVE  Evaluated' = Evaluated /\ \A f \in Evaluated : Keeps(f)
<1>1. CASE UNCHANGED vars
  BY <1>1, UntouchedKeeps, NobodyChanges DEF vars, Evaluated
<1>2. CASE SamplesSelection
  <2>1. /\ UNCHANGED <<siaes, applications, criteria, picked, told, late>>
        /\ campaign'.transitioned = campaign.transitioned /\ campaign'.ended = campaign.ended
    BY <1>2 DEF SamplesSelection, TypeOK, Campaign
  <2>2. ASSUME NEW f \in Evaluated
        PROVE  Keeps(f)
    <3>1. Base(f)'
      BY <2>1 DEF Base, Sound, Amicable
    <3>2. ASSUME Good(f)
          PROVE  Good(f)'
      <4>1. FirstReview(campaign', siaes[f], applications[f], criteria[f])
        BY <2>1, <3>2 DEF Good, FirstReview
      <4>2. Notified(campaign', siaes[f], applications[f], criteria[f], picked[f], told[f])
        BY <2>1, <3>2 DEF Good, Notified, IsFinal
      <4> QED
        BY <2>1, <3>2, <4>1, <4>2 DEF Good
    <3> QED
      BY <2>1, <3>1, <3>2 DEF Keeps, Kept
  <2> QED
    BY <2>1, <2>2, NobodyChanges
<1>3. CASE Freeze
  BY <1>3, FreezeKeeps, FreezeEffect
<1>4. CASE TransitionToAdversarialPhase
  BY <1>4, TransitionKeeps, TransitionEffect
<1>5. CASE Close
  BY <1>5, CloseKeeps, CloseEffect
<1>6. CASE Remind
  BY <1>6, RemindKeeps, RemindEffect
<1>7. ASSUME NEW e \in Evaluated, NEW a \in applications[e], SiaeSelectCriteria(e, a)
      PROVE  Evaluated' = Evaluated /\ \A f \in Evaluated : Keeps(f)
  <2>1. Keeps(e)
    BY <1>7, SelectKeeps
  <2>2. /\ \A f \in Siaes \ {e} : criteria'[f] = criteria[f]
        /\ UNCHANGED <<campaign, siaes, applications, picked, told, late>>
    BY <1>7, SelectEffect
  <2> QED
    BY <2>1, <2>2, OneKeeps, NobodyChanges
<1>8. ASSUME NEW e \in Evaluated, NEW a \in applications[e], OpenPage(e, a)
      PROVE  Evaluated' = Evaluated /\ \A f \in Evaluated : Keeps(f)
  <2>1. UNCHANGED <<campaign, siaes, applications, criteria, picked, told, late>>
    BY <1>8 DEF OpenPage
  <2> QED
    BY <2>1, UntouchedKeeps, NobodyChanges DEF Evaluated
<1>9. ASSUME NEW e \in Evaluated, NEW c \in Chosen(e), SiaeUploadDoc(e, c)
      PROVE  Evaluated' = Evaluated /\ \A f \in Evaluated : Keeps(f)
  <2>1. Keeps(e)
    BY <1>9, UploadKeeps
  <2>2. /\ \A f \in Siaes \ {e} : criteria'[f] = criteria[f]
        /\ UNCHANGED <<campaign, siaes, applications, picked, told>>
    BY <1>9, UploadEffect
  <2>3. late => late'
    BY <1>9 DEF SiaeUploadDoc
  <2> QED
    BY <2>1, <2>2, <2>3, OneKeeps, NobodyChanges
<1>10. ASSUME NEW e \in Evaluated, NEW c \in Chosen(e), EvaluateCriterion(e, c)
       PROVE  Evaluated' = Evaluated /\ \A f \in Evaluated : Keeps(f)
  <2>1. Keeps(e)
    BY <1>10, EvaluateKeeps
  <2>2. /\ \A f \in Siaes \ {e} : criteria'[f] = criteria[f]
        /\ UNCHANGED <<campaign, siaes, applications, picked, told>>
        /\ late => late'
    BY <1>10, EvaluateEffect
  <2> QED
    BY <2>1, <2>2, OneKeeps, NobodyChanges
<1>11. ASSUME NEW e \in Evaluated, SiaeSubmitProofs(e)
       PROVE  Evaluated' = Evaluated /\ \A f \in Evaluated : Keeps(f)
  <2>1. Keeps(e)
    BY <1>11, SubmitKeeps
  <2>2. /\ \A f \in Siaes \ {e} : criteria'[f] = criteria[f] /\ siaes'[f] = siaes[f]
        /\ UNCHANGED <<campaign, applications, picked, told, late>>
        /\ Evaluated' = Evaluated
    BY <1>11, SubmitEffect, SubmitFreezes
  <2> QED
    BY <2>1, <2>2, OneKeeps
<1>12. ASSUME NEW e \in Evaluated, Review(e)
       PROVE  Evaluated' = Evaluated /\ \A f \in Evaluated : Keeps(f)
  <2>1. Keeps(e)
    BY <1>12, ReviewKeeps
  <2>2. UNCHANGED <<campaign, applications, criteria, picked, told, late>>
    BY <1>12 DEF Review
  <2> QED
    BY <1>12, <2>1, <2>2, OneKeeps, ReviewEffect
<1>13. ASSUME NEW e \in Evaluated, NotifyStep1(e)
       PROVE  Evaluated' = Evaluated /\ \A f \in Evaluated : Keeps(f)
  <2>1. Keeps(e)
    BY <1>13, Step1Keeps
  <2>2. UNCHANGED <<campaign, applications, criteria, picked, told, late>>
    BY <1>13 DEF NotifyStep1
  <2> QED
    BY <1>13, <2>1, <2>2, OneKeeps, Step1Effect
<1>14. ASSUME NEW e \in Evaluated, NotifyStep2(e)
       PROVE  Evaluated' = Evaluated /\ \A f \in Evaluated : Keeps(f)
  <2>1. Keeps(e)
    BY <1>14, Step2Keeps
  <2>2. /\ UNCHANGED <<campaign, siaes, applications, criteria, told, late>>
        /\ \A f \in Siaes \ {e} : picked'[f] = picked[f]
    BY <1>14 DEF NotifyStep2, TypeOK
  <2> QED
    BY <2>1, <2>2, OneKeeps, NobodyChanges
<1>15. ASSUME NEW e \in Evaluated, NotifyStep3(e)
       PROVE  Evaluated' = Evaluated /\ \A f \in Evaluated : Keeps(f)
  <2>1. Keeps(e)
    BY <1>15, Step3Keeps
  <2>2. UNCHANGED <<campaign, applications, criteria, late>>
    BY <1>15 DEF NotifyStep3
  <2>3. PICK result \in {"sanctioned", "not_sanctioned"} : told' = [told EXCEPT ![e] = result]
    BY <1>15, Step3Effect
  <2>4. \A f \in Siaes \ {e} : /\ picked'[f] = picked[f] /\ told'[f] = told[f]
                               /\ siaes'[f] = siaes[f]
    <3>1. /\ picked' = [picked EXCEPT ![e] = {}]
          /\ \A f \in Siaes \ {e} : siaes'[f] = siaes[f]
      BY <1>15, Step3Effect
    <3>2. picked \in [Siaes -> SUBSET Sanctions] /\ told \in [Siaes -> Result]
      BY DEF TypeOK
    <3> QED
      BY <2>3, <3>1, <3>2
  <2>5. Evaluated' = Evaluated
    BY <1>15, Step3Effect
  <2> QED
    BY <2>1, <2>2, <2>4, <2>5, OneKeeps
<1> QED
  BY <1>1, <1>2, <1>3, <1>4, <1>5, <1>6, <1>7, <1>8, <1>9, <1>10, <1>11, <1>12, <1>13,
     <1>14, <1>15 DEF Next
-----------------------------------------------------------------------------
(* Before the campaign is populated, nobody has anything.                  *)
NothingYet ==
    ~campaign.asked =>
        /\ Evaluated = {} /\ ~campaign.transitioned /\ ~campaign.ended
        /\ \A e \in Siaes : Has(criteria[e]) = {} /\ picked[e] = {} /\ told[e] = "none"

IInv ==
    /\ TypeOK /\ NothingYet
    /\ \A e \in Evaluated : Base(e) /\ (~late => Good(e))

LEMMA InitInv == Init => IInv
<1> SUFFICES ASSUME Init
             PROVE  IInv
  OBVIOUS
<1>1. TypeOK
  BY InitTypes
<1>2. Evaluated = {} /\ NothingYet
  BY DEF Init, Evaluated, NothingYet, Has
<1> QED
  BY <1>1, <1>2 DEF IInv

LEMMA NextInv == IInv /\ [Next]_vars => IInv'
<1> SUFFICES ASSUME IInv, [Next]_vars
             PROVE  IInv'
  OBVIOUS
<1>1. TypeOK /\ TypeOK'
  BY NextTypes DEF IInv
<1>2. CASE Populate
  <2>1. /\ ~campaign.asked /\ campaign'.asked
        /\ campaign'.transitioned = campaign.transitioned /\ campaign'.ended = campaign.ended
        /\ UNCHANGED <<criteria, picked, told, late>>
    BY <1>1, <1>2 DEF Populate, TypeOK, Campaign
  <2>2. NothingYet'
    BY <2>1 DEF NothingYet
  <2>3. /\ ~campaign'.transitioned /\ ~campaign'.ended
        /\ \A e \in Siaes : Has(criteria[e]) = {} /\ picked[e] = {} /\ told[e] = "none"
    BY <2>1 DEF IInv, NothingYet
  <2>4. ASSUME NEW e \in Evaluated'
        PROVE  Base(e)' /\ Good(e)'
    <3> DEFINE s == siaes'[e]
               apps == applications'[e]
               rows == criteria'[e]
    <3>1. e \in Siaes /\ s = NewSiae /\ apps # {}
      BY <1>1, <1>2, PopulateEffect DEF Evaluated
    <3>2. Has(rows) = {} /\ picked'[e] = {} /\ told'[e] = "none"
      BY <2>1, <2>3, <3>1
    <3>3. ~s.reviewed /\ s.final = "no" /\ ~s.reason /\ ~s.notified
      BY <3>1 DEF NewSiae
    <3>4. ~AnySubmitted(rows) /\ ~AnyAfter(rows)
      BY <3>2 DEF AnySubmitted, AnyAfter
    <3>5. Sound(campaign', s, apps, rows) /\ Amicable(campaign', s, rows)
      BY <2>3, <3>1, <3>2, <3>3, <3>4 DEF Sound, Amicable
    <3>6. FirstReview(campaign', s, apps, rows) /\ SecondReview(s, rows) /\ Final(s, apps, rows)
      BY <2>3, <3>2, <3>3 DEF FirstReview, SecondReview, Final
    <3>7. Notified(campaign', s, apps, rows, picked'[e], told'[e])
      BY <2>3, <3>2, <3>3 DEF Notified
    <3> QED
      BY <3>5, <3>6, <3>7 DEF Base, Good
  <2> QED
    BY <1>1, <2>2, <2>4 DEF IInv
<1>3. CASE ~Populate
  <2>1. Evaluated' = Evaluated /\ \A e \in Evaluated : Keeps(e)
    BY <1>1, <1>3, StepKeeps DEF IInv
  <2>2. \A e \in Evaluated' : Base(e)' /\ (~late' => Good(e)')
    BY <2>1 DEF IInv, Keeps
  <2>3. NothingYet'
    <3>1. CASE campaign.asked
      <4>1. campaign'.asked
        BY <1>1, <1>3, <3>1 DEF Next, vars, SamplesSelection, Freeze, TransitionToAdversarialPhase,
          Close, Remind, SiaeSelectCriteria, OpenPage, SiaeUploadDoc, EvaluateCriterion,
          SiaeSubmitProofs, Review, NotifyStep1, NotifyStep2, NotifyStep3, TypeOK, Campaign
      <4> QED
        BY <4>1 DEF NothingYet
    <3>2. CASE ~campaign.asked
      <4>1. Evaluated = {}
        BY <3>2 DEF IInv, NothingYet
      <4>2. SamplesSelection \/ UNCHANGED vars
        <5>1. ~Freeze /\ ~TransitionToAdversarialPhase /\ ~Close
          BY <3>2, <4>1 DEF Freeze, TransitionToAdversarialPhase, Close
        <5>2. ~Remind
          BY <4>1 DEF Remind
        <5> QED
          BY <1>3, <4>1, <5>1, <5>2 DEF Next
      <4>3. /\ UNCHANGED <<criteria, picked, told>>
            /\ campaign'.asked = campaign.asked /\ campaign'.ended = campaign.ended
            /\ campaign'.transitioned = campaign.transitioned
        BY <1>1, <4>2 DEF SamplesSelection, vars, TypeOK, Campaign
      <4> QED
        BY <2>1, <3>2, <4>1, <4>3 DEF IInv, NothingYet
    <3> QED
      BY <3>1, <3>2
  <2> QED
    BY <1>1, <2>2, <2>3 DEF IInv
<1> QED
  BY <1>2, <1>3

LEMMA Invariance == Spec => []IInv
  BY InitInv, NextInv, PTL DEF Spec
-----------------------------------------------------------------------------
(* Nothing is submitted without a proof.                                   *)
THEOREM SubmissionsAreProved == Spec => []SubmittedHasProof
<1>1. IInv => SubmittedHasProof
  BY DEF IInv, Base, Sound, SubmittedHasProof, Rows, Chosen, Has
<1> QED
  BY <1>1, Invariance, PTL

(* What is submitted stays as it is while the employer is frozen.          *)
THEOREM FrozenAreKept == Spec => FrozenIsKept
<1>1. IInv /\ [Next]_vars =>
         [\A e \in Evaluated :
             siaes[e].frozen /\ siaes'[e].frozen => Documents(e)' = Documents(e)]_vars
  <2> SUFFICES ASSUME IInv, [Next]_vars, NEW e \in Evaluated, siaes[e].frozen
               PROVE  Documents(e)' = Documents(e)
    OBVIOUS
  <2>1. TypeOK
    BY DEF IInv
  <2>2. ASSUME criteria'[e] = criteria[e]
        PROVE  Documents(e)' = Documents(e)
    BY <2>2 DEF Documents, Chosen
  <2>3. CASE \E f \in Evaluated : \E a \in applications[f] : SiaeSelectCriteria(f, a)
    <3>1. PICK f \in Evaluated : \E a \in applications[f] : SiaeSelectCriteria(f, a)
      BY <2>3
    <3>2. PICK a \in applications[f] : SiaeSelectCriteria(f, a)
      BY <3>1
    <3>3. ~siaes[f].frozen
      BY <3>2 DEF SiaeSelectCriteria, ShouldSelectCriteria
    <3>4. \A g \in Siaes \ {f} : criteria'[g] = criteria[g]
      BY <2>1, <3>2, SelectEffect
    <3> QED
      BY <2>2, <3>3, <3>4 DEF Evaluated
  <2>4. CASE \E f \in Evaluated : \E c \in Chosen(f) : SiaeUploadDoc(f, c)
    <3>1. PICK f \in Evaluated : \E c \in Chosen(f) : SiaeUploadDoc(f, c)
      BY <2>4
    <3>2. PICK c \in Chosen(f) : SiaeUploadDoc(f, c)
      BY <3>1
    <3>3. ~siaes[f].frozen
      BY <3>2 DEF SiaeUploadDoc, CanUpload
    <3>4. \A g \in Siaes \ {f} : criteria'[g] = criteria[g]
      BY <2>1, <3>2, UploadEffect
    <3> QED
      BY <2>2, <3>3, <3>4 DEF Evaluated
  <2>5. CASE \E f \in Evaluated : \E c \in Chosen(f) : EvaluateCriterion(f, c)
    <3>1. PICK f \in Evaluated : \E c \in Chosen(f) : EvaluateCriterion(f, c)
      BY <2>5
    <3>2. PICK c \in Chosen(f) : EvaluateCriterion(f, c)
      BY <3>1
    <3>3. /\ \A g \in Siaes \ {f} : criteria'[g] = criteria[g]
          /\ \A d \in Cell \ {c} : criteria'[f][d] = criteria[f][d]
          /\ criteria'[f][c].proof = criteria[f][c].proof
          /\ criteria'[f][c].submitted = criteria[f][c].submitted
          /\ criteria'[f][c] # Absent
      BY <2>1, <3>2, EvaluateEffect
    <3>4. CASE e = f
      <4>1. Chosen(e)' = Chosen(e)
        BY <3>3, <3>4 DEF Chosen
      <4>2. \A d \in Chosen(e) : /\ criteria'[e][d].proof = criteria[e][d].proof
                                 /\ criteria'[e][d].submitted = criteria[e][d].submitted
        BY <3>3, <3>4 DEF Chosen
      <4> QED
        BY <4>1, <4>2 DEF Documents
    <3> QED
      BY <2>2, <3>3, <3>4 DEF Evaluated
  <2>6. CASE \E f \in Evaluated : SiaeSubmitProofs(f)
    <3>1. PICK f \in Evaluated : SiaeSubmitProofs(f)
      BY <2>6
    <3>2. ~siaes[f].frozen
      BY <3>1 DEF SiaeSubmitProofs, CanSubmit
    <3>3. \A g \in Siaes \ {f} : criteria'[g] = criteria[g]
      BY <2>1, <3>1, SubmitEffect
    <3> QED
      BY <2>2, <3>2, <3>3 DEF Evaluated
  <2>7. CASE UNCHANGED criteria
    BY <2>2, <2>7
  <2> QED
    <3>1. CASE UNCHANGED vars
      BY <2>7, <3>1 DEF vars
    <3>2. CASE Next
      BY <2>3, <2>4, <2>5, <2>6, <2>7, <3>2
      DEF Next, SamplesSelection, Populate, Freeze, TransitionToAdversarialPhase, Close, Remind,
          OpenPage, Review, NotifyStep1, NotifyStep2, NotifyStep3
    <3> QED
      BY <3>1, <3>2
<1> QED
  BY <1>1, Invariance, PTL DEF Spec, FrozenIsKept

(* What the state of an employer is, once its types and those of its       *)
(* criteria are known.                                                     *)
LEMMA EmployerMeans ==
  ASSUME IInv, NEW e \in Evaluated
  PROVE  /\ e \in Siaes /\ siaes[e].final \in {"no", "same", "later"} /\ StateMeans(e)
         /\ Base(e) /\ (~late => Good(e))
         /\ EvaluationIsFinal(e) <=> IsFinal(campaign, siaes[e])
  BY SiaeFields, StateIs DEF IInv, EvaluationIsFinal, IsFinal

(* Nobody is refused for good before the adversarial stage, and a second   *)
(* refusal strikes what was submitted in it.                               *)
THEOREM RefusalsAreContested == Spec => []RefusalIsContested
<1>1. IInv => RefusalIsContested
  <2> SUFFICES ASSUME IInv, ~late, NEW e \in Evaluated
               PROVE  /\ siaes[e].final = "same" => State(e) = "ACCEPTED"
                      /\ \A c \in Chosen(e) : criteria[e][c].review = "REFUSED_2" =>
                            \E d \in ChosenFor(e, c[1]) : criteria[e][d].submitted = "after"
    BY DEF RefusalIsContested
  <2>1. StateMeans(e) /\ Good(e)
    BY EmployerMeans
  <2>2. siaes[e].final = "same" => State(e) = "ACCEPTED"
    BY <2>1 DEF Good, Final, StateMeans, IsFinal
  <2>3. \A c \in Chosen(e) : criteria[e][c].review = "REFUSED_2" =>
           \E d \in ChosenFor(e, c[1]) : criteria[e][d].submitted = "after"
    BY <2>1 DEF Good, SecondReview, Has, Chosen, ChosenFor
  <2> QED
    BY <2>2, <2>3
<1> QED
  BY <1>1, Invariance, PTL

(* No employer prevents the campaign from reaching its adversarial stage,  *)
(* nor from being closed after it.                                         *)
THEOREM StagesStayPossible == Spec => []StagesArePossible
<1>1. IInv => StagesArePossible
  <2> SUFFICES ASSUME IInv, NEW e \in Evaluated
               PROVE  /\ ~late /\ ~campaign.transitioned /\ ~campaign.ended => ~Unexpected(e)
                      /\ campaign.transitioned => siaes[e].reviewed
    BY DEF StagesArePossible
  <2>1. StateMeans(e) /\ Base(e) /\ siaes[e].final \in {"no", "same", "later"}
    BY EmployerMeans
  <2>2. ASSUME ~late, ~campaign.transitioned, ~campaign.ended, siaes[e].reviewed
        PROVE  State(e) \in {"ACCEPTED", "ADVERSARIAL_STAGE"}
    <3>1. FirstReview(campaign, siaes[e], applications[e], criteria[e])
          /\ Final(siaes[e], applications[e], criteria[e])
      BY <2>2, EmployerMeans DEF Good
    <3>2. CASE siaes[e].final = "no"
      BY <2>1, <2>2, <3>1, <3>2 DEF FirstReview, StateMeans, IsFinal
    <3>3. CASE siaes[e].final # "no"
      BY <2>1, <2>2, <3>1, <3>3 DEF FirstReview, Final, StateMeans, IsFinal
    <3> QED
      BY <3>2, <3>3
  <2>3. campaign.transitioned => siaes[e].reviewed
    BY <2>1 DEF Base, Sound
  <2> QED
    BY <2>2, <2>3 DEF Unexpected
<1> QED
  BY <1>1, Invariance, PTL

(* As long as an employer may answer, nothing it has to prove is closed.   *)
THEOREM EmployersCanAnswer == Spec => []EmployerCanAnswer
<1>1. IInv => EmployerCanAnswer
  <2> SUFFICES ASSUME IInv, ~late, NEW e \in Evaluated,
                      ~siaes[e].frozen, ~EvaluationIsFinal(e),
                      \A row \in Rows(e) : row.submitted # Now(e)
               PROVE  /\ \A a \in applications[e] : ChosenFor(e, a) = {} => ShouldSelectCriteria(e, a)
                      /\ \A c \in Chosen(e) :
                            CanUpload(e, c) \/ criteria[e][c].review \in {"ACCEPTED", "REFUSED_2"}
    BY DEF EmployerCanAnswer
  <2>1. Base(e) /\ Good(e) /\ e \in Siaes /\ TypeOK
    BY EmployerMeans DEF IInv
  <2>2. \A a \in applications[e] : ChosenFor(e, a) = {} => ShouldSelectCriteria(e, a)
    BY DEF ShouldSelectCriteria
  <2>3. ASSUME NEW c \in Chosen(e), criteria[e][c].review \notin {"ACCEPTED", "REFUSED_2"},
               criteria[e][c].submitted # "no"
        PROVE  criteria[e][c].review = "REFUSED" /\ siaes[e].reviewed
    <3>1. /\ criteria[e][c].review \in {"PENDING", "REFUSED"}
          /\ criteria[e][c].submitted \in {"before", "after"}
      BY <2>1, <2>3, CriterionFields
    <3>2. \A d \in Has(criteria[e]) : criteria[e][d].submitted # Now(e)
      BY DEF Rows, Chosen, Has
    <3>3. c \in Has(criteria[e])
      BY DEF Chosen, Has
    <3>4. siaes[e].reviewed
      BY <2>1, <3>1, <3>2, <3>3 DEF Now, Base, Sound
    <3>5. criteria[e][c].submitted = "before" /\ ~AnyAfter(criteria[e])
      BY <3>1, <3>2, <3>3, <3>4 DEF Now, AnyAfter
    <3>6. siaes[e].final = "no"
      BY DEF EvaluationIsFinal
    <3>7. criteria[e][c].review # "PENDING"
      BY <2>1, <3>3, <3>4, <3>5, <3>6 DEF Good, SecondReview
    <3> QED
      BY <3>1, <3>4, <3>7
  <2> QED
    BY <2>2, <2>3 DEF CanUpload
<1> QED
  BY <1>1, Invariance, PTL

(* When a campaign is over, an employer is refused exactly when the last   *)
(* message it got says so.                                                 *)
THEOREM RefusedAreTold == Spec => []RefusedIsTold
<1>1. IInv => RefusedIsTold
  <2> SUFFICES ASSUME IInv, ~late, campaign.ended, NEW e \in Evaluated
               PROVE  /\ State(e) = "REFUSED" <=>
                            told[e] \in {"refused", "refused_no_proofs", "sanctioned",
                                         "not_sanctioned"}
                      /\ told[e] \in {"accepted", "force_accepted"} => State(e) = "ACCEPTED"
    BY DEF RefusedIsTold
  <2>1. StateMeans(e) /\ Good(e)
    BY EmployerMeans
  <2>2. Notified(campaign, siaes[e], applications[e], criteria[e], picked[e], told[e])
    BY <2>1 DEF Good
  <2>3. /\ State(e) = "ACCEPTED" <=> Positive(applications[e], criteria[e])
        /\ State(e) = "REFUSED" <=> ~Positive(applications[e], criteria[e])
    BY <2>1 DEF StateMeans, IsFinal
  <2> QED
    BY <2>2, <2>3 DEF Notified
<1> QED
  BY <1>1, Invariance, PTL

(* Only those whose control is negative are sanctioned.                    *)
THEOREM SanctionedAreRefused == Spec => []SanctionedIsRefused
<1>1. IInv => SanctionedIsRefused
  BY EmployerMeans DEF SanctionedIsRefused, Good, Notified, StateMeans
<1> QED
  BY <1>1, Invariance, PTL

(* A final review is final, and so is the state that it gave.              *)
THEOREM VerdictsAreFinal == Spec => VerdictIsFinal
<1>1. IInv /\ [Next]_vars =>
         [~late' => \A e \in Evaluated : siaes[e].final # "no" =>
             siaes'[e].final = siaes[e].final /\ State(e)' = State(e)]_vars
  <2> SUFFICES ASSUME IInv, [Next]_vars, ~late', NEW e \in Evaluated, siaes[e].final # "no"
               PROVE  siaes'[e].final = siaes[e].final /\ State(e)' = State(e)
    OBVIOUS
  <2>1. TypeOK /\ (\A f \in Evaluated : Base(f)) /\ ~Populate
    BY DEF IInv, NothingYet, Populate
  <2>2. Keeps(e) /\ e \in Siaes
    BY <2>1, StepKeeps DEF Evaluated
  <2>3. Kept(e)
    BY <2>2, EmployerMeans DEF Keeps
  <2>4. /\ StateMeans(e) /\ StateMeans(e)'
        /\ IsFinal(campaign, siaes[e]) /\ IsFinal(campaign', siaes'[e])
    BY <2>2, <2>3, StateIs, StateIsNext DEF Kept, IsFinal
  <2>5. /\ State(e) = IF Positive(applications[e], criteria[e]) THEN "ACCEPTED" ELSE "REFUSED"
        /\ State(e)' = IF Positive(applications'[e], criteria'[e]) THEN "ACCEPTED" ELSE "REFUSED"
    BY <2>4 DEF StateMeans
  <2> QED
    BY <2>3, <2>5 DEF Kept
<1> QED
  BY <1>1, Invariance, PTL DEF Spec, VerdictIsFinal
=============================================================================
