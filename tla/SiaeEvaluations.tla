--------------------------- MODULE SiaeEvaluations ---------------------------
(***************************************************************************)
(* One campaign of control a posteriori: an institution (DDETS) draws some *)
(* employers (SIAE) among those that approved hirings by themselves, and   *)
(* reviews the proofs they submit, first in the amicable stage, then in    *)
(* the adversarial one.                                                    *)
(*                                                                         *)
(* A web request is one step.  The pages are not: the buttons to accept,   *)
(* refuse or review again a criterion are on a page that may have been     *)
(* loaded long before, and the view behind them does not check what the    *)
(* page did.  From the back office the staff freezes a populated campaign, *)
(* moves it to the adversarial stage and closes it, in any order, but does *)
(* not reopen the adversarial stage of a campaign that is over.            *)
(*                                                                         *)
(* The instants are compared with the first review only: "before" and      *)
(* "after" stand for them.                                                 *)
(***************************************************************************)
EXTENDS Integers, FiniteSets

CONSTANTS
    Siaes,              \* the eligible employers
    Applications,       \* the eligible hirings of each
    Keys,               \* administrative criteria
    KeysOf,             \* those that may justify each hiring
    Percents,           \* shares of the employers an institution may choose
    DefaultPercent,
    Sanctions           \* "TRAINING", "TEMPORARY_SUSPENSION", ...

ASSUME EvaluationsAssumption ==
    /\ IsFiniteSet(Siaes) /\ IsFiniteSet(Applications)
    /\ Cardinality(Applications) >= 2
    /\ KeysOf \in [Applications -> SUBSET Keys]
    /\ Percents \subseteq 20 .. 40 /\ DefaultPercent \in Percents

VARIABLES
    campaign,
    siaes,              \* the evaluated employers
    applications,       \* their evaluated hirings
    criteria,           \* the criteria chosen to justify these
    seen,               \* criteria with buttons on a page that is still open
    picked,             \* sanctions kept in the session of the institution
    told,               \* history: the last result each employer was sent
    late                \* history: a decision was posted from a page that would no longer
                        \* offer it, or a proof uploaded after the final review

vars == <<campaign, siaes, applications, criteria, seen, picked, told, late>>

Absent == [absent |-> TRUE]

Campaign == [percent : Percents, percentSet : BOOLEAN, asked : BOOLEAN, ended : BOOLEAN,
             transitioned : BOOLEAN]    \* history: the adversarial stage has begun
(* final_reviewed_at: the instant of the first review, or a later one.     *)
Siae == [reviewed : BOOLEAN, final : {"no", "same", "later"}, frozen : BOOLEAN,
         reminder : {"no", "before", "after"},
         reason : BOOLEAN, notified : BOOLEAN, sanctions : SUBSET Sanctions]
Criterion == [proof : BOOLEAN, submitted : {"no", "before", "after"},
              review : {"PENDING", "ACCEPTED", "REFUSED", "REFUSED_2"}]
Cell == {c \in Applications \X Keys : c[2] \in KeysOf[c[1]]}
Result == {"none", "accepted", "force_accepted", "adversarial_stage",
           "forced_to_adversarial_stage", "refused", "refused_no_proofs",
           "sanctioned", "not_sanctioned"}

TypeOK ==
    /\ campaign \in Campaign
    /\ siaes \in [Siaes -> Siae \union {Absent}]
    /\ applications \in [Siaes -> SUBSET Applications]
    /\ criteria \in [Siaes -> [Cell -> Criterion \union {Absent}]]
    /\ seen \in [Siaes -> SUBSET Cell]
    /\ picked \in [Siaes -> SUBSET Sanctions]
    /\ told \in [Siaes -> Result]
    /\ late \in BOOLEAN

Init ==
    /\ campaign = [percent |-> DefaultPercent, percentSet |-> FALSE, asked |-> FALSE,
                   ended |-> FALSE, transitioned |-> FALSE]
    /\ siaes = [e \in Siaes |-> Absent]
    /\ applications = [e \in Siaes |-> {}]
    /\ criteria = [e \in Siaes |-> [c \in Cell |-> Absent]]
    /\ seen = [e \in Siaes |-> {}]
    /\ picked = [e \in Siaes |-> {}]
    /\ told = [e \in Siaes |-> "none"]
    /\ late = FALSE

Evaluated == {e \in Siaes : siaes[e] # Absent}
Chosen(e) == {c \in Cell : criteria[e][c] # Absent}
ChosenFor(e, a) == {c \in Chosen(e) : c[1] = a}
Rows(e) == {criteria[e][c] : c \in Chosen(e)}
-----------------------------------------------------------------------------
(* The states are not stored.  Of the criteria of an application, then of  *)
(* the applications of an employer, the least advanced gives its state:    *)
(* together they order all the criteria of the employer.                   *)

StateFromApplications(e) ==
    CASE \/ applications[e] = {}
         \/ \E a \in applications[e] : ChosenFor(e, a) = {}
         \/ \E row \in Rows(e) : ~row.proof
         -> "PENDING"
      [] OTHER ->
    CASE \E row \in Rows(e) : row.submitted = "no" -> "SUBMITTABLE"
      [] OTHER ->
    CASE \E row \in Rows(e) : row.review = "PENDING" -> "SUBMITTED"
      [] OTHER ->
    IF \E row \in Rows(e) : row.review # "ACCEPTED" THEN "REFUSED" ELSE "ACCEPTED"

EvaluationIsFinal(e) == siaes[e].final # "no" \/ campaign.ended

State(e) ==
    LET state == StateFromApplications(e)
    IN  CASE state \in {"PENDING", "SUBMITTABLE"} ->
                IF EvaluationIsFinal(e) THEN "REFUSED" ELSE state
          [] state = "SUBMITTED" ->
                IF EvaluationIsFinal(e) THEN "ACCEPTED" ELSE state
          [] state \in {"ACCEPTED", "REFUSED"} ->
                IF siaes[e].reviewed /\ ~EvaluationIsFinal(e) THEN "ADVERSARIAL_STAGE" ELSE state

(* The instant an event has when it happens now.                           *)
Now(e) == IF siaes[e].reviewed THEN "after" ELSE "before"
-----------------------------------------------------------------------------
(* The campaign is prepared.                                               *)

SamplesSelection ==
    /\ ~campaign.ended
    /\ \E percent \in Percents :
          campaign' = [campaign EXCEPT !.percent = percent, !.percentSet = TRUE]
    /\ UNCHANGED <<siaes, applications, criteria, seen, picked, told, late>>

(* round() goes to the nearest integer, to the even one of two.            *)
RoundPercent(n, percent) ==
    LET q == (n * percent) \div 100
        r == (n * percent) % 100
    IN  IF r > 50 \/ (r = 50 /\ q % 2 = 1) THEN q + 1 ELSE q

NumberOfSiaesToSelect(n, percent) ==
    CASE n = 0 -> 0
      [] RoundPercent(n, percent) = 0 -> 1
      [] OTHER -> RoundPercent(n, percent)

(* 20 % of the hirings, 2 at least and 20 at most.                         *)
SelectMinMax(n) ==
    LET limit == (n * 20) \div 100
    IN  CASE limit < 2 -> 2 [] limit > 20 -> 20 [] OTHER -> limit

NewSiae == [reviewed |-> FALSE, final |-> "no", frozen |-> FALSE, reminder |-> "no",
            reason |-> FALSE, notified |-> FALSE, sanctions |-> {}]

Populate ==
    /\ ~campaign.asked
    /\ campaign' = [campaign EXCEPT !.asked = TRUE, !.percentSet = TRUE]
    /\ \E drawn \in SUBSET Siaes :
          /\ Cardinality(drawn) = NumberOfSiaesToSelect(Cardinality(Siaes), campaign.percent)
          /\ siaes' = [e \in Siaes |-> IF e \in drawn THEN NewSiae ELSE Absent]
          /\ applications' \in [Siaes -> SUBSET Applications]
          /\ \A e \in Siaes :
                IF e \in drawn
                THEN Cardinality(applications'[e]) = SelectMinMax(Cardinality(Applications))
                ELSE applications'[e] = {}
    /\ UNCHANGED <<criteria, seen, picked, told, late>>
-----------------------------------------------------------------------------
(* The employer.                                                           *)

(* should_select_criteria: nothing is chosen yet, or the amicable stage    *)
(* waits for some proof.                                                   *)
ShouldSelectCriteria(e, a) ==
    /\ ~siaes[e].frozen
    /\ \/ ChosenFor(e, a) = {}
       \/ /\ ~siaes[e].reviewed
          /\ \E c \in ChosenFor(e, a) : ~criteria[e][c].proof \/ criteria[e][c].submitted = "no"

NewCriterion == [proof |-> FALSE, submitted |-> "no", review |-> "PENDING"]

SiaeSelectCriteria(e, a) ==
    /\ ~campaign.ended
    /\ ShouldSelectCriteria(e, a)
    /\ \E keys \in (SUBSET KeysOf[a]) \ {{}} :
          LET removed == {c \in ChosenFor(e, a) : c[2] \notin keys}
              added == {c \in Cell : c[1] = a /\ c[2] \in keys} \ Chosen(e)
          IN  /\ criteria' = [criteria EXCEPT ![e] = [c \in Cell |->
                    IF c \in removed THEN Absent ELSE IF c \in added THEN NewCriterion ELSE @[c]]]
              /\ seen' = [seen EXCEPT ![e] = @ \ removed]
    /\ UNCHANGED <<campaign, siaes, applications, picked, told, late>>

(* Mutant: what was refused cannot be uploaded again.                      *)
CanUploadOnce(e, c) == ~siaes[e].frozen /\ criteria[e][c].submitted = "no"

(* Mutant: the freeze is not looked at.                                    *)
CanUploadFrozen(e, c) ==
    \/ criteria[e][c].submitted = "no"
    \/ criteria[e][c].review = "REFUSED" /\ siaes[e].reviewed

CanUpload(e, c) ==
    /\ ~siaes[e].frozen
    /\ \/ criteria[e][c].submitted = "no"
       \/ criteria[e][c].review = "REFUSED" /\ siaes[e].reviewed

SiaeUploadDoc(e, c) ==
    /\ ~campaign.ended
    /\ CanUpload(e, c)
    /\ criteria' = [criteria EXCEPT ![e][c] =
          [proof |-> TRUE, submitted |-> "no", review |-> "PENDING"]]
    /\ late' = (late \/ siaes[e].final # "no")
    /\ UNCHANGED <<campaign, siaes, applications, seen, picked, told>>

(* Mutant: some proof may be missing.                                      *)
CanSubmitIncomplete(e) == ~siaes[e].frozen /\ State(e) \in {"PENDING", "SUBMITTABLE"}

CanSubmit(e) == ~siaes[e].frozen /\ State(e) = "SUBMITTABLE"

SiaeSubmitProofs(e) ==
    /\ campaign.asked /\ ~campaign.ended
    /\ CanSubmit(e)
    /\ criteria' = [criteria EXCEPT ![e] = [c \in Cell |->
          IF c \in Chosen(e) /\ @[c].review = "PENDING"
          THEN [@[c] EXCEPT !.submitted = Now(e)] ELSE @[c]]]
    /\ siaes' = [siaes EXCEPT ![e].frozen = TRUE]
    /\ UNCHANGED <<campaign, applications, seen, picked, told, late>>
-----------------------------------------------------------------------------
(* The institution.                                                        *)

(* Mutant: the stage of the submission is not looked at.                   *)
CanEditProofAnyStage(e, a) ==
    ~EvaluationIsFinal(e) /\ \E c \in ChosenFor(e, a) : criteria[e][c].submitted # "no"

(* can_edit_proof: the buttons of the page of an application are those of  *)
(* all its criteria.                                                       *)
CanEditProof(e, a) ==
    /\ ~EvaluationIsFinal(e)
    /\ \E c \in ChosenFor(e, a) :
          IF siaes[e].reviewed THEN criteria[e][c].submitted = "after"
          ELSE criteria[e][c].submitted # "no"

OpenPage(e, a) ==
    /\ campaign.asked
    /\ CanEditProof(e, a)
    /\ seen' = [seen EXCEPT ![e] = @ \union ChosenFor(e, a)]
    /\ UNCHANGED <<campaign, siaes, applications, criteria, picked, told, late>>

Offered(e, c, action) ==
    /\ CanEditProof(e, c[1])
    /\ criteria[e][c].review = "PENDING" <=> action # "reinit"

(* Mutant: the action in the URL is stored as it is.                       *)
DecisionUntranslated(e, action) == action

Decision(e, action) ==
    CASE action = "reinit" -> "PENDING"
      [] action = "accept" -> "ACCEPTED"
      [] action = "refuse" -> IF siaes[e].reviewed THEN "REFUSED_2" ELSE "REFUSED"

EvaluateCriterion(e, c) ==
    /\ campaign.asked /\ ~campaign.ended
    /\ c \in seen[e]
    /\ \E action \in {"reinit", "accept", "refuse"} :
          /\ criteria' = [criteria EXCEPT ![e][c].review = Decision(e, action)]
          /\ late' = (late \/ ~Offered(e, c, action))
    /\ UNCHANGED <<campaign, siaes, applications, seen, picked, told>>

CanReview(e) ==
    \/ ~siaes[e].reviewed /\ State(e) \in {"ACCEPTED", "REFUSED"}
    \/ /\ siaes[e].reviewed /\ siaes[e].final = "no"
       /\ State(e) = "ADVERSARIAL_STAGE"
       /\ ~\E row \in Rows(e) : row.review = "REFUSED" /\ row.submitted = "before"

(* Mutant: any review is the last one.                                     *)
ReviewedOnce(e) ==
    [siaes[e] EXCEPT !.reviewed = TRUE, !.final = IF siaes[e].reviewed THEN "later" ELSE "same"]

Reviewed(e) ==
    CASE State(e) = "ACCEPTED" -> [siaes[e] EXCEPT !.reviewed = TRUE, !.final = "same"]
      [] State(e) = "REFUSED" -> [siaes[e] EXCEPT !.reviewed = TRUE]
      [] State(e) = "ADVERSARIAL_STAGE" -> [siaes[e] EXCEPT !.final = "later"]

Review(e) ==
    /\ campaign.asked /\ ~campaign.ended
    /\ CanReview(e)
    /\ siaes' = [siaes EXCEPT ![e] = Reviewed(e)]
    /\ UNCHANGED <<campaign, applications, criteria, seen, picked, told, late>>

(* Mutant: the review may still be in progress.                            *)
MayNotifyEarly(e) == ~siaes[e].notified

(* A sanction is notified in three pages: the reason, the kinds of         *)
(* sanction, kept in the session, and their details.  The views do not     *)
(* look at the state of the employer: it is the list of the employers that *)
(* links to the first page for a refused one only, and an institution is   *)
(* taken to come from there.                                               *)
MayNotify(e) == EvaluationIsFinal(e) /\ ~siaes[e].notified

NotifyStep1(e) ==
    /\ MayNotify(e) /\ State(e) = "REFUSED"
    /\ siaes' = [siaes EXCEPT ![e].reason = TRUE]
    /\ UNCHANGED <<campaign, applications, criteria, seen, picked, told, late>>

Compatible(sanctions) ==
    /\ sanctions # {}
    /\ ~({"TEMPORARY_SUSPENSION", "PERMANENT_SUSPENSION"} \subseteq sanctions)
    /\ ~({"SUBSIDY_CUT_PERCENT", "SUBSIDY_CUT_FULL"} \subseteq sanctions)
    /\ "NO_SANCTIONS" \in sanctions => sanctions = {"NO_SANCTIONS"}

NotifyStep2(e) ==
    /\ MayNotify(e) /\ siaes[e].reason
    /\ \E sanctions \in SUBSET Sanctions :
          /\ Compatible(sanctions)
          /\ picked' = [picked EXCEPT ![e] = sanctions]
    /\ UNCHANGED <<campaign, siaes, applications, criteria, seen, told, late>>

NotifyStep3(e) ==
    /\ MayNotify(e)
    /\ picked[e] # {}
    /\ siaes' = [siaes EXCEPT ![e].notified = TRUE, ![e].sanctions = picked[e]]
    /\ picked' = [picked EXCEPT ![e] = {}]
    /\ told' = [told EXCEPT ![e] =
          IF picked[e] = {"NO_SANCTIONS"} THEN "not_sanctioned" ELSE "sanctioned"]
    /\ UNCHANGED <<campaign, applications, criteria, seen, late>>
-----------------------------------------------------------------------------
(* The staff, and the daily command.                                       *)

Freeze ==
    /\ \E e \in Evaluated : ~siaes[e].frozen
    /\ siaes' = [e \in Siaes |-> IF e \in Evaluated THEN [siaes[e] EXCEPT !.frozen = TRUE]
                                ELSE Absent]
    /\ UNCHANGED <<campaign, applications, criteria, seen, picked, told, late>>

(* "This shouldn't happen": the whole campaign stays where it is.          *)
Unexpected(e) == siaes[e].reviewed /\ State(e) \notin {"ACCEPTED", "ADVERSARIAL_STAGE"}

(* The result an employer is sent on the transition.                       *)
Transition(e) ==
    CASE State(e) \in {"PENDING", "SUBMITTABLE"} -> "forced_to_adversarial_stage"
      [] State(e) = "SUBMITTED" -> "force_accepted"
      [] State(e) = "ACCEPTED" -> "accepted"
      [] State(e) \in {"REFUSED", "ADVERSARIAL_STAGE"} -> "adversarial_stage"

(* Mutant: the first reviews that were validated are not set aside.        *)
TransitionedAgain(e) ==
    [siaes[e] EXCEPT !.frozen = FALSE, !.reviewed = TRUE,
                     !.final = IF State(e) = "ACCEPTED" THEN "same" ELSE "no"]

Transitioned(e) ==
    IF siaes[e].reviewed THEN [siaes[e] EXCEPT !.frozen = FALSE]
    ELSE [siaes[e] EXCEPT
             !.frozen = FALSE, !.reviewed = TRUE,
             !.final = IF State(e) \in {"SUBMITTED", "ACCEPTED"} THEN "same" ELSE @]

(* The guard on a campaign that is over is the conduct of the staff, see   *)
(* above: transition_to_adversarial_phase does not look at it.             *)
TransitionToAdversarialPhase ==
    /\ campaign.asked /\ ~campaign.ended
    /\ ~\E e \in Evaluated : Unexpected(e)
    /\ siaes' = [e \in Siaes |-> IF e \in Evaluated THEN Transitioned(e) ELSE Absent]
    /\ told' = [e \in Siaes |-> IF e \in Evaluated THEN Transition(e) ELSE told[e]]
    /\ campaign' = [campaign EXCEPT !.transitioned = TRUE]
    /\ UNCHANGED <<applications, criteria, seen, picked, late>>

(* All the proofs are reviewed, but the review was not validated.          *)
AutoValidated(e) == siaes[e].final = "no" /\ StateFromApplications(e) \in {"ACCEPTED", "REFUSED"}

WithoutProofs(e) ==
    /\ siaes[e].final = "no"
    /\ Chosen(e) = {} \/ \E row \in Rows(e) : row.submitted = "no"

(* Mutant: what is reviewed and not validated is not sent.                 *)
ClosingValidated(e) ==
    CASE WithoutProofs(e) -> "refused_no_proofs"
      [] siaes[e].final # "no" /\ State(e) = "REFUSED" -> "refused"
      [] siaes[e].final = "later" /\ State(e) = "ACCEPTED" -> "accepted"
      [] OTHER -> told[e]

(* close() sets the end of the campaign before it looks at the states.     *)
Closing(e) ==
    CASE WithoutProofs(e) -> "refused_no_proofs"
      [] AutoValidated(e) /\ StateFromApplications(e) = "ACCEPTED" -> "accepted"
      [] AutoValidated(e) /\ StateFromApplications(e) = "REFUSED" -> "refused"
      [] siaes[e].final # "no" /\ State(e) = "REFUSED" -> "refused"
      [] siaes[e].final = "later" /\ State(e) = "ACCEPTED" -> "accepted"
      [] OTHER -> told[e]

(* A final review needs a first one: the constraint rolls everything back. *)
Close ==
    /\ campaign.asked /\ ~campaign.ended
    /\ \A e \in Evaluated : ~siaes[e].notified /\ AutoValidated(e) => siaes[e].reviewed
    /\ campaign' = [campaign EXCEPT !.ended = TRUE]
    /\ siaes' = [e \in Siaes |->
          IF e \in Evaluated /\ ~siaes[e].notified /\ AutoValidated(e)
          THEN [siaes[e] EXCEPT !.final = "later"] ELSE siaes[e]]
    /\ told' = [e \in Siaes |->
          IF e \in Evaluated /\ ~siaes[e].notified THEN Closing(e) ELSE told[e]]
    /\ UNCHANGED <<applications, criteria, seen, picked, late>>

(* The daily command reminds the employers from a month after the          *)
(* beginning to the day of the adversarial stage, then a month after it.   *)
FirstReminder(e) ==
    /\ campaign.asked
    /\ ~\E row \in Rows(e) : row.submitted # "no"
    /\ ~siaes[e].reviewed /\ siaes[e].reminder = "no"

SecondReminder(e) ==
    /\ siaes[e].final = "no"
    /\ ~\E row \in Rows(e) : row.submitted = "after"
    /\ siaes[e].reminder = "no" \/ (siaes[e].reviewed /\ siaes[e].reminder = "before")

Remind ==
    /\ ~campaign.ended
    /\ \E due \in {{e \in Evaluated : FirstReminder(e)}, {e \in Evaluated : SecondReminder(e)}} :
          /\ due # {}
          /\ siaes' = [e \in Siaes |->
                IF e \in due THEN [siaes[e] EXCEPT !.reminder = Now(e)] ELSE siaes[e]]
    /\ UNCHANGED <<campaign, applications, criteria, seen, picked, told, late>>
-----------------------------------------------------------------------------
Next ==
    \/ SamplesSelection \/ Populate
    \/ Freeze \/ TransitionToAdversarialPhase \/ Close \/ Remind
    \/ \E e \in Evaluated :
          \/ \E a \in applications[e] : SiaeSelectCriteria(e, a) \/ OpenPage(e, a)
          \/ \E c \in Chosen(e) : SiaeUploadDoc(e, c) \/ EvaluateCriterion(e, c)
          \/ SiaeSubmitProofs(e)
          \/ Review(e)
          \/ NotifyStep1(e) \/ NotifyStep2(e) \/ NotifyStep3(e)

Spec == Init /\ [][Next]_vars
-----------------------------------------------------------------------------
(* Nothing is submitted without a proof: an employer who chooses other     *)
(* criteria never finds one that is transmitted, hence closed to upload,   *)
(* and empty (should_select_criteria, can_upload, siae_submit_proofs).     *)
SubmittedHasProof ==
    \A e \in Evaluated : \A row \in Rows(e) : row.submitted # "no" => row.proof

(* What is submitted in a stage stays as it is until the next one ("the    *)
(* employers cannot submit new documents"): a freeze that goes on keeps    *)
(* them; the transition, applied again, may lift it.                       *)
Documents(e) == [c \in Chosen(e) |-> <<criteria[e][c].proof, criteria[e][c].submitted>>]
FrozenIsKept ==
    [][\A e \in Evaluated : siaes[e].frozen /\ siaes'[e].frozen => Documents(e)' = Documents(e)]_vars

(* The amicable stage only ends on an acceptance: nobody is refused for    *)
(* good before the adversarial stage, and a second refusal only strikes a  *)
(* hiring some proof of which was submitted in this stage (can_edit_proof, *)
(* the criteria view, review, siae_submit_proofs).                         *)
RefusalIsContested ==
    ~late =>
        \A e \in Evaluated :
            /\ siaes[e].final = "same" => State(e) = "ACCEPTED"
            /\ \A c \in Chosen(e) : criteria[e][c].review = "REFUSED_2" =>
                  \E d \in ChosenFor(e, c[1]) : criteria[e][d].submitted = "after"

(* A final review is final.                                                *)
VerdictIsFinal ==
    [][~late' => \A e \in Evaluated : siaes[e].final # "no" =>
          siaes'[e].final = siaes[e].final /\ State(e)' = State(e)]_vars

(* "This shouldn't happen": no employer is in a state that would prevent   *)
(* the campaign from reaching its adversarial stage; after it, none        *)
(* prevents it from being closed.                                          *)
StagesArePossible ==
    \A e \in Evaluated :
        /\ ~late /\ ~campaign.transitioned /\ ~campaign.ended => ~Unexpected(e)
        /\ campaign.transitioned => siaes[e].reviewed

(* As long as an employer may answer, nothing it has to prove is closed:   *)
(* until it submits in a stage, it may upload each proof that is neither   *)
(* accepted nor refused twice.                                             *)
EmployerCanAnswer ==
    ~late =>
        \A e \in Evaluated :
            /\ ~siaes[e].frozen /\ ~EvaluationIsFinal(e)
            /\ \A row \in Rows(e) : row.submitted # Now(e)
            => /\ \A a \in applications[e] : ChosenFor(e, a) = {} => ShouldSelectCriteria(e, a)
               /\ \A c \in Chosen(e) :
                      CanUpload(e, c) \/ criteria[e][c].review \in {"ACCEPTED", "REFUSED_2"}

(* Nobody is refused without being told, nor told what is not so: when a   *)
(* campaign is over, an employer is refused exactly when the last message  *)
(* it got says so, and none that was told to be accepted is not (close,    *)
(* transition_to_adversarial_phase, the notification of the sanctions).    *)
RefusedIsTold ==
    ~late /\ campaign.ended =>
        \A e \in Evaluated :
            /\ State(e) = "REFUSED" <=>
                  told[e] \in {"refused", "refused_no_proofs", "sanctioned", "not_sanctioned"}
            /\ told[e] \in {"accepted", "force_accepted"} => State(e) = "ACCEPTED"

(* Only those whose control is negative are sanctioned.                    *)
SanctionedIsRefused ==
    ~late => \A e \in Evaluated : siaes[e].notified => State(e) = "REFUSED"
=============================================================================
