--------------------------- MODULE PoleEmploiNotices ---------------------------
(***************************************************************************)
(* What Pole Emploi is told of the passes.  A trigger plans a notification *)
(* whenever the dates of a pass change; a command that starts every five   *)
(* minutes loads a batch of passes, then calls the API for one after the   *)
(* other and writes the answer on the row, then does the same, with what   *)
(* is left of the batch, for the passes that were cancelled.               *)
(*                                                                         *)
(* A pass is loaded when the batch is, told much later, and its row is     *)
(* written without being read again.  Nothing prevents a run from starting *)
(* before the previous one has ended (API_TIMEOUT_SECONDS), and a run may  *)
(* be killed anywhere.  Dates are versions: 1, then one more at each       *)
(* change.                                                                 *)
(*                                                                         *)
(* As long as a pass exists, it has an accepted application and the origin *)
(* it was created with; companies are of a kind that the API knows.        *)
(***************************************************************************)
EXTENDS Integers, Sequences, FiniteSets

CONSTANTS
    Passes,
    Rank,               \* order of their start dates
    Future,             \* those that start later
    Incomplete,         \* those whose job seeker has no NIR yet, for instance
    Runs,               \* processes of the command
    Starts,             \* the passes there are at the beginning, with the
                        \* processes that may run at the same time and the
                        \* part of MaxKills that is spent
    BatchSize,          \* MAX_APPROVALS_PER_RUN
    Changing,           \* those whose dates may change
    MaxVersion,         \* bound on these changes
    MaxKills            \* bound on the runs that are killed

ASSUME NoticesAssumption ==
    /\ IsFiniteSet(Passes)
    /\ Rank \in [Passes -> Int]
    /\ Future \subseteq Passes /\ Incomplete \subseteq Passes /\ Changing \subseteq Passes
    /\ Starts \subseteq [passes : SUBSET Passes, runs : SUBSET Runs, kills : 0 .. MaxKills]
    /\ \A p, q \in Passes : Rank[p] = Rank[q] => p = q
    /\ BatchSize \in Nat \ {0} /\ MaxVersion \in Nat \ {0} /\ MaxKills \in Nat

VARIABLES
    dates,              \* version of the dates of each pass
    started,            \* its start date: not reached, reached in Paris only, reached in UTC too
    complete,           \* its job seeker has a name, a birth date and a NIR
    identified,         \* ... and an identifier at Pole Emploi (pe_obfuscated_nir)
    approvals,          \* rows of Approval
    cancelled,          \* rows of CancelledApproval
    poleEmploi,         \* what Pole Emploi was told last of each pass
    runs,
    kills,
    raced,              \* history: passes whose last change occurred while a run held them
    overlap             \* history: a run has started before another one had ended

vars == <<dates, started, complete, identified, approvals, cancelled, poleEmploi, runs, kills,
          raced, overlap>>

Absent == [absent |-> TRUE]
Untold == 0
Cancelled == MaxVersion + 1

(* An ERROR is stored with its endpoint, which stands for it here.         *)
Endpoint == {"rech_individu", "maj_pass"}
Status == {"PENDING", "READY", "SHOULD_RETRY", "SUCCESS"} \union Endpoint
CancelledRow == [status : Status, complete : BOOLEAN, identified : BOOLEAN]
Item == [pass : Passes, dates : 1 .. Cancelled, identified : BOOLEAN]
Run == [at : {"off", "idle", "ready", "approvals", "cancelled"}, batch : Seq(Item),
        left : 0 .. BatchSize,
        answer : Status \union {"none"}]

TypeOK ==
    /\ dates \in [Passes -> 1 .. MaxVersion]
    /\ started \in [Passes -> {"no", "paris", "utc"}]
    /\ complete \in [Passes -> BOOLEAN]
    /\ identified \in [Passes -> BOOLEAN]
    /\ approvals \in [Passes -> [status : Status] \union {Absent}]
    /\ cancelled \in [Passes -> CancelledRow \union {Absent}]
    /\ poleEmploi \in [Passes -> Untold .. Cancelled]
    /\ runs \in [Runs -> Run]
    /\ kills \in 0 .. MaxKills
    /\ raced \in SUBSET Passes
    /\ overlap \in BOOLEAN

IdleRun == [at |-> "idle", batch |-> <<>>, left |-> 0, answer |-> "none"]

Init ==
    /\ dates = [p \in Passes |-> 1]
    /\ started = [p \in Passes |-> IF p \in Future THEN "no" ELSE "utc"]
    /\ complete = [p \in Passes |-> p \notin Incomplete]
    /\ identified = [p \in Passes |-> FALSE]
    /\ \E start \in Starts :
         /\ approvals = [p \in Passes |->
                            IF p \in start.passes THEN [status |-> "PENDING"] ELSE Absent]
         /\ runs = [r \in Runs |->
                       IF r \in start.runs THEN IdleRun ELSE [IdleRun EXCEPT !.at = "off"]]
         /\ kills = start.kills
    /\ cancelled = [p \in Passes |-> Absent]
    /\ poleEmploi = [p \in Passes |-> Untold]
    /\ raced = {}
    /\ overlap = FALSE

Running(r) == runs[r].at \notin {"off", "idle"}

Existing == {p \in Passes : approvals[p] # Absent}
Gone == {p \in Passes : cancelled[p] # Absent}
-----------------------------------------------------------------------------
(* The rest of the site.                                                   *)

Holds(r, p) ==
    runs[r].at = "approvals" /\ \E i \in DOMAIN runs[r].batch : runs[r].batch[i].pass = p

(* Mutant: the trigger does not look at the dates that changed.            *)
PlannedNever(row) == row

(* plan_pe_notification_on_date_updates.                                   *)
Planned(row) == [row EXCEPT !.status = "PENDING"]

ChangeDates(p) ==
    /\ p \in Existing
    /\ p \in Changing /\ dates[p] < MaxVersion
    /\ dates' = [dates EXCEPT ![p] = @ + 1]
    /\ approvals' = [approvals EXCEPT ![p] = Planned(@)]
    /\ raced' = IF \E r \in Runs : Holds(r, p) THEN raced \union {p} ELSE raced \ {p}
    /\ UNCHANGED <<started, complete, identified, cancelled, poleEmploi, runs, kills, overlap>>

(* A new row is PENDING, with a copy of the data of the job seeker.        *)
Cancel(p) ==
    /\ p \in Existing
    /\ approvals' = [approvals EXCEPT ![p] = Absent]
    /\ cancelled' = [cancelled EXCEPT ![p] =
          [status |-> "PENDING", complete |-> complete[p], identified |-> identified[p]]]
    /\ UNCHANGED <<dates, started, complete, identified, poleEmploi, runs, kills, raced, overlap>>

Complete(p) ==
    /\ p \in Existing /\ ~complete[p]
    /\ complete' = [complete EXCEPT ![p] = TRUE]
    /\ UNCHANGED <<dates, started, identified, approvals, cancelled, poleEmploi, runs, kills,
                   raced, overlap>>

(* pe_certify_users.                                                       *)
Certify(p) ==
    /\ p \in Existing /\ complete[p] /\ ~identified[p]
    /\ identified' = [identified EXCEPT ![p] = TRUE]
    /\ UNCHANGED <<dates, started, complete, approvals, cancelled, poleEmploi, runs, kills,
                   raced, overlap>>

(* Paris is ahead of UTC.                                                  *)
ParisReaches(p) ==
    /\ started[p] = "no"
    /\ started' = [started EXCEPT ![p] = "paris"]
    /\ UNCHANGED <<dates, complete, identified, approvals, cancelled, poleEmploi, runs, kills,
                   raced, overlap>>

UTCReaches(p) ==
    /\ started[p] = "paris"
    /\ started' = [started EXCEPT ![p] = "utc"]
    /\ UNCHANGED <<dates, complete, identified, approvals, cancelled, poleEmploi, runs, kills,
                   raced, overlap>>
-----------------------------------------------------------------------------
(* The command.                                                            *)

(* Mutant: a status that does not exist.                                   *)
HealedRetry(p, row) ==
    IF row.status = "rech_individu" /\ identified[p]
    THEN [row EXCEPT !.status = "RETRY"] ELSE row

(* The errors on an unknown person are tried again once the person is      *)
(* identified.                                                             *)
Healed(p, row) ==
    IF row.status = "rech_individu" /\ identified[p]
    THEN [row EXCEPT !.status = "PENDING"] ELSE row

Ready(p, row, isComplete) ==
    IF row.status = "PENDING" /\ started[p] # "no" /\ isComplete
    THEN [row EXCEPT !.status = "READY"] ELSE row

Start(r) ==
    /\ runs[r].at = "idle"
    /\ runs' = [runs EXCEPT ![r].at = "ready"]
    /\ approvals' = [p \in Passes |->
          IF p \in Existing THEN Ready(p, Healed(p, approvals[p]), complete[p]) ELSE Absent]
    /\ cancelled' = [p \in Passes |->
          IF p \in Gone THEN Ready(p, cancelled[p], cancelled[p].complete) ELSE Absent]
    /\ overlap' = (overlap \/ \E other \in Runs : Running(other))
    /\ UNCHANGED <<dates, started, complete, identified, poleEmploi, kills, raced>>

(* Mutant: those that are not ready are sent too.                          *)
ToSendPending(rows) ==
    {p \in Passes : rows[p] # Absent /\ rows[p].status \in {"PENDING", "READY", "SHOULD_RETRY"}}

(* Mutant: what should be tried again is not.                              *)
ToSendReady(rows) == {p \in Passes : rows[p] # Absent /\ rows[p].status = "READY"}

ToSend(rows) == {p \in Passes : rows[p] # Absent /\ rows[p].status \in {"READY", "SHOULD_RETRY"}}

(* The latest starts first, as many as there is room for.                  *)
Above(p, ps) == {q \in ps : Rank[q] > Rank[p]}
First(ps, room) == {p \in ps : Cardinality(Above(p, ps)) < room}
Batches(ps, room) ==
    LET first == First(ps, room)
    IN  {s \in [1 .. Cardinality(first) -> first] :
            \A i, j \in DOMAIN s : i < j => Rank[s[i]] > Rank[s[j]]}

(* A row stays as it was loaded.                                           *)
Items(s, version, found) ==
    [i \in DOMAIN s |-> [pass |-> s[i], dates |-> version[s[i]], identified |-> found[s[i]]]]

(* The identifier of a job seeker is not on the row of the approval: the   *)
(* profile that has it is loaded at the call.                              *)
NotLoaded == [p \in Passes |-> FALSE]

Load(r) ==
    /\ runs[r].at = "ready"
    /\ \E batch \in Batches(ToSend(approvals), BatchSize) :
          runs' = [runs EXCEPT ![r] = [at |-> "approvals", batch |-> Items(batch, dates, NotLoaded),
                                        left |-> BatchSize - Len(batch), answer |-> "none"]]
    /\ UNCHANGED <<dates, started, complete, identified, approvals, cancelled, poleEmploi, kills,
                   raced, overlap>>

(* Mutant: the end of a cancelled pass is its own.                         *)
CancelledDatesKept == dates

(* get_pe_end_at: a cancelled pass ends when it starts.                    *)
CancelledDates == [p \in Passes |-> Cancelled]

CancelledFound == [p \in Passes |-> p \in Gone /\ cancelled[p].identified]

(* The approvals of the batch are done with.                               *)
LoadCancelled(r) ==
    /\ runs[r].at = "approvals" /\ runs[r].batch = <<>>
    /\ \E batch \in Batches(ToSend(cancelled), runs[r].left) :
          runs' = [runs EXCEPT ![r] =
                     [at |-> "cancelled", batch |-> Items(batch, CancelledDates, CancelledFound),
                      left |-> 0, answer |-> "none"]]
    /\ UNCHANGED <<dates, started, complete, identified, approvals, cancelled, poleEmploi, kills,
                   raced, overlap>>

End(r) ==
    /\ runs[r].at = "cancelled" /\ runs[r].batch = <<>>
    /\ runs' = [runs EXCEPT ![r] = IdleRun]
    /\ UNCHANGED <<dates, started, complete, identified, approvals, cancelled, poleEmploi, kills,
                   raced, overlap>>

(* The preliminary checks: they compare the start with the date in UTC.    *)
Sendable(p, isComplete) == started[p] = "utc" /\ isComplete

(* What recherche_individu ends with when it finds nobody, mise_a_jour_pass *)
(* in any case.                                                            *)
NotFound == {"SHOULD_RETRY", "rech_individu"}
Updated == {"SHOULD_RETRY", "maj_pass", "SUCCESS"}

(* An answer of mise_a_jour_pass may be lost after it has taken the dates. *)
Update(item, answer) ==
    \/ /\ answer \in {"SUCCESS", "SHOULD_RETRY"}
       /\ poleEmploi' = [poleEmploi EXCEPT ![item.pass] = item.dates]
    \/ /\ answer # "SUCCESS"
       /\ UNCHANGED poleEmploi

Calling(r) == runs[r].batch # <<>> /\ runs[r].answer = "none"
Answered(r, answer) == runs' = [runs EXCEPT ![r].answer = answer]

(* notify_pole_emploi of Approval.                                         *)
CallForApproval(r, answer) ==
    /\ Calling(r) /\ runs[r].at = "approvals"
    /\ LET item == Head(runs[r].batch)
           p == item.pass
       IN  \/ /\ ~Sendable(p, complete[p]) /\ answer = "PENDING"
              /\ UNCHANGED <<identified, poleEmploi>>
           \/ /\ Sendable(p, complete[p]) /\ ~identified[p] /\ answer \in NotFound
              /\ UNCHANGED <<identified, poleEmploi>>
           \/ /\ Sendable(p, complete[p]) /\ answer \in Updated
              /\ identified' = [identified EXCEPT ![p] = TRUE]
              /\ Update(item, answer)
    /\ Answered(r, answer)
    /\ UNCHANGED <<dates, started, complete, approvals, cancelled, kills, raced, overlap>>

(* notify_pole_emploi of CancelledApproval.                                *)
CallForCancelled(r, answer) ==
    /\ Calling(r) /\ runs[r].at = "cancelled"
    /\ LET item == Head(runs[r].batch)
           p == item.pass
       IN  \/ /\ ~Sendable(p, cancelled[p].complete) /\ answer = "PENDING"
              /\ UNCHANGED <<cancelled, poleEmploi>>
           \/ /\ Sendable(p, cancelled[p].complete) /\ ~item.identified /\ answer \in NotFound
              /\ UNCHANGED <<cancelled, poleEmploi>>
           \/ /\ Sendable(p, cancelled[p].complete) /\ answer \in Updated
              /\ cancelled' = [cancelled EXCEPT ![p].identified = @ \/ ~item.identified]
              /\ Update(item, answer)
    /\ Answered(r, answer)
    /\ UNCHANGED <<dates, started, complete, identified, approvals, kills, raced, overlap>>

(* _pe_notification_update: empty values are not written.                  *)
Noted(row, answer) == [row EXCEPT !.status = answer]

Note(r) ==
    /\ runs[r].answer # "none"
    /\ LET p == Head(runs[r].batch).pass
       IN  /\ approvals' = IF runs[r].at = "approvals" /\ p \in Existing
                           THEN [approvals EXCEPT ![p] = Noted(@, runs[r].answer)] ELSE approvals
           /\ cancelled' = IF runs[r].at = "cancelled"
                           THEN [cancelled EXCEPT ![p] = Noted(@, runs[r].answer)] ELSE cancelled
    /\ runs' = [runs EXCEPT ![r].answer = "none", ![r].batch = Tail(@)]
    /\ UNCHANGED <<dates, started, complete, identified, poleEmploi, kills, raced, overlap>>

(* It is killed, or ends on an exception that PoleEmploiApiClient does not *)
(* turn into its own (an error status when a token is asked for).          *)
Kill(r) ==
    /\ kills < MaxKills
    /\ Running(r)
    /\ kills' = kills + 1
    /\ runs' = [runs EXCEPT ![r] = IdleRun]
    /\ UNCHANGED <<dates, started, complete, identified, approvals, cancelled, poleEmploi, raced,
                   overlap>>
-----------------------------------------------------------------------------
Answers == Status \ {"READY"}

Call(r, answer) == CallForApproval(r, answer) \/ CallForCancelled(r, answer)

(* An answer that settles the fate of a pass: an error or a success.       *)
Settles(r, p) ==
    /\ Calling(r) /\ Head(runs[r].batch).pass = p
    /\ \E answer \in Answers \ {"PENDING", "SHOULD_RETRY"} : Call(r, answer)

Step(r) ==
    \/ Start(r) \/ Load(r) \/ LoadCancelled(r) \/ End(r) \/ Note(r)
    \/ \E answer \in Answers : Call(r, answer)

Next ==
    \/ \E p \in Passes :
          \/ ChangeDates(p) \/ Cancel(p) \/ Complete(p) \/ Certify(p)
          \/ ParisReaches(p) \/ UTCReaches(p)
    \/ \E r \in Runs : Step(r) \/ Kill(r)

(* The command is started again and again and goes on until it ends, the   *)
(* night ends, and the API does not only answer with failures.             *)
Fairness ==
    /\ \A r \in Runs : WF_vars(Step(r))
    /\ \A p \in Passes : WF_vars(UTCReaches(p))
    /\ \A p \in Passes : SF_vars(\E r \in Runs : Settles(r, p))

Spec == Init /\ [][Next]_vars /\ Fairness
-----------------------------------------------------------------------------
(* A pass is only left alone when Pole Emploi has its dates, unless they   *)
(* changed while a run held the pass.                                      *)
SuccessIsCurrent ==
    \A p \in Existing :
        approvals[p].status = "SUCCESS" /\ p \notin raced => poleEmploi[p] = dates[p]

(* Runs that do not overlap do not tell the dates of a pass after its      *)
(* cancellation.                                                           *)
CancelledIsTold ==
    ~overlap => \A p \in Gone : cancelled[p].status = "SUCCESS" => poleEmploi[p] = Cancelled

(* From some time on, a run has ended when the next one starts.            *)
InTurn == <>[](\A r, other \in Runs : Running(r) /\ Running(other) => r = other)

(* A notification that is due ends up being given an answer, unless the    *)
(* pass is cancelled.  Passes that come before it cannot keep it waiting   *)
(* but when runs overlap for ever, each undoing what the others noted.     *)
Due == {p \in Existing : started[p] # "no" /\ complete[p]}
Settled(rows) == {p \in Passes : rows[p] # Absent /\ rows[p].status \in {"SUCCESS"} \union Endpoint}
DueIsAnswered ==
    \A p \in Passes :
        InTurn \/ <>[](Above(p, ToSend(approvals)) = {}) =>
            (p \in Due ~> p \in Settled(approvals) \union Gone)

(* So does the cancellation of a pass, though it only gets what the        *)
(* approvals to send leave of a batch, after the other cancelled passes.   *)
DueCancelled == {p \in Gone : started[p] # "no" /\ cancelled[p].complete}
CancellationIsAnswered ==
    \A p \in Passes :
        InTurn \/ <>[](ToSend(approvals) \union Above(p, ToSend(cancelled)) = {}) =>
            (p \in DueCancelled ~> p \in Settled(cancelled))
=============================================================================
