# A verification of itou

itou ("les emplois de l'inclusion") is a Django application: employers of the
inclusion sector receive applications of job seekers, accept them, get a PASS
IAE (an *approval*) for the hiring, and declare the employee to a state agency,
the ASP, over SFTP. PostgreSQL keeps everything; requests are transactions
(`ATOMIC_REQUESTS`, `config/settings/base.py:177`) at the default isolation,
READ COMMITTED; management commands run from a crontab in autocommit.

This directory holds TLA+ models of the parts where the order of events
matters, TLC configurations that explore them on small instances, and proofs,
checked by TLAPS, of what holds for every instance.

1. [Inventory](#1-inventory)
2. [Modules](#2-modules)
3. [Runs](#3-runs)
4. [What the code does otherwise](#4-what-the-code-does-otherwise)
5. [Proofs](#5-proofs)
6. [What is not modelled](#6-what-is-not-modelled)
7. [Plan](#7-plan)

## 1. Inventory

| Part | State | Operations | Hard behaviours | What makes it correct |
|---|---|---|---|---|
| Employee records (`itou/employee_record`, `itou/www/employee_record_views`) | one row per hiring: status, last ASP code, batch file and line | the employer creates, edits, sends, disables, reactivates; `transfer_employee_records` uploads and downloads; `sanitize_`, `archive_employee_records` | two systems that exchange files; commands killed between two steps; whole-row saves of stale copies; the same feedback read twice | an answer reaches the record it is about; `PROCESSED` means the ASP has the employee; a sent record is answered |
| Update notifications (`EmployeeRecordUpdateNotification`) | one row per change of dates: status, file, line | a database trigger creates them, a command transfers them | the same exchange, created by a trigger | a change of dates reaches the ASP |
| Job applications (`itou/job_applications`, `itou/www/apply`) | a state per application, the approval it uses | nine transitions, archive, transfer, direct hiring | concurrent requests on unlocked rows; the acceptance of one changes the others; the cancellation deletes the approval | one approval per job seeker; transitions follow the workflow; an acceptance lasts until it is cancelled |
| Approvals (`itou/approvals`) | dates, number, cancelled copies; suspensions, prolongations | number, delete, suspend, prolong, postpone | a lock that makes the numbering sequential; triggers that move the end date | no duplicate, no hole; end date = start + 2 years + suspensions + prolongations |
| Notification of France Travail (`pe_notify`, `send_approvals_to_pe`) | status and time of the last attempt per approval | retries every five minutes, trigger on date changes | API errors, a change of dates during the call | a change is notified some day, and never marked as notified when it was not |
| Eligibility diagnoses (`itou/eligibility`) | author, expiration | create, expire, choose the considered one | an acceptance needs a diagnosis that may expire | an approval is delivered from a valid diagnosis only |
| Controls of employers (`itou/siae_evaluations`) | campaign phase, evaluated employers, their files | phases opened and closed by the institution and commands | deadlines against submissions | an employer is judged on what it has sent in time |
| Companies and conventions (`itou/companies`) | activity of conventions, grace period | weekly ASP import | an import in several steps | an active company has an active convention or is in its grace period |
| Invitations, memberships (`itou/invitations`, `common_apps/organizations`) | pending, accepted, expired | invite, accept, deactivate | an invitation accepted twice, or late | an organization keeps an administrator |
| Antivirus, stored files (`itou/antivirus`, `itou/files`) | scanned files | scan pass | objects created while a pass runs | an object is scanned |
| Users, prescribers, institutions, OpenID logins, APIs, metabase, reference data, views, utilities | see `PROJECT.json` | data entry, read-only copies, plumbing | little of its own | |

How the parts meet. A *job application* that is accepted issues or reuses an
*approval* (call in the same transaction), whose number comes from the
*numbering* (locks shared by every request of the site). An *employee record* is
made from an accepted application and its approval, and is looked up again by
file name and line when the ASP answers. A trigger on approvals makes *update
notifications*; another one queues the *notification of France Travail*. A
cancelled application may delete its approval, which records and notifications
point to.

`PROJECT.json` has every part with its sources, and the hazards of the code, each
at the line where it bites and with the properties that are about it.

## 2. Modules

| Module | Models | Uses |
|---|---|---|
| `EmployeeRecord` | a row, and the methods of the model class: guards and effects | |
| `EmployeeRecordTransfer` | web requests, upload, download, sanitize, archive, the SFTP server and the ASP | `EmployeeRecord` |
| `PassNumbers` | the promise of the numbering: an atomic counter | |
| `ApprovalNumbering` | the statements, locks and snapshots of `Approval.save()` and `delete()` | implements `PassNumbers` |
| `Hiring` | the applications of one job seeker, and the approvals delivered for them | |
| `ApprovalDates` | the dates of an approval, its suspensions, prolongations and prolongation requests | |
| `PoleEmploiNotices` | what the agency is told of the passes: the trigger, the command, the API | |
| `SiaeEvaluations` | a campaign of control: institution, employers, staff | |
| `MC...` | constants, symmetry | the module of that name |
| `..._proofs` | theorems | the module of that name |
| `ApprovalDatesBalance_proofs` | theorems on sums of days, and on requests that do not overlap | `ApprovalDates_proofs` |
| `HiringInTurn_proofs` | theorems on requests that do not overlap | `Hiring_proofs` |

A definition that starts with "Mutant:" in its comment is a plausible bug, kept
to check that a property would notice it. No specification uses one.

### Employee records and their exchange

A record is identified with its application. `rows` is the table. A web request
is two steps, `WebLoad` and `WebSave`, because the views load a row without a
lock and save all its columns; anything may happen in between, and the saved row
is the one of the load. `cmd` is the running command with what it holds in
memory: the chunk in the current file, the loaded instances, its position.
`inbox` and `outbox` are the two directories of the server. A batch file is the
sequence of its records; a feedback file the sequence of the answers. `known`
is the ASP's side: the employees it has accepted; the ASP is external and is
modelled from the answers the code handles: it reads each file once, answers
each line, and answers "duplicate" (3436) for who it already has.

| Action | Code |
|---|---|
| `UploadStart`, `UploadPut`, `UploadPutError`, `UploadMark`, `UploadEnd` | `transfer_employee_records.py` `upload`, `_upload_batch_file`; `common_management.py` `upload_json_file` |
| `DownloadOpen`, `DownloadFind`, `DownloadLine`, `DownloadClose` | `download`, `_parse_feedback_file`, `download_json_file`; every error raises, which is `NextFile`: the file stays |
| `Kill` | the process of an upload or a download ends between two statements in autocommit |
| `HiringChange` | what `clean()` checks changes: the profile, the approval |
| `SanitizeLoad`, `CheckApprovals`, ... | the four checks of `sanitize_employee_records` |

The set `Disruptions` says what may go wrong in an instance, so that a run can ask
what holds under which failures. `MaxFaults` bounds kills and transfer errors.

### Numbering

A transaction of `ApprovalNumbering` goes through the statements of
`get_next_number()`: lock the first approval (`SELECT ... ORDER BY pk LIMIT 1 FOR
UPDATE`), read the last number, the same with the cancelled approvals, insert.
Deletion copies the number, deletes, commits. A lock statement keeps the rows
of its snapshot (`seek`) and falls back to the following one when the row it
waited for has been deleted. `Row` has a key and a number: the order of keys
decides who is first, the order of numbers who is last, and they may differ.
Approvals saved with an explicit number are rows of `Stock` with a negative
number. The guard `n <= MaxNumber` is the code's check against 9999999.

### Hiring

A request loads an application, checks the transition on its copy and saves the
whole row at the end; `tx[t]` holds the copy, the rows written and so locked,
the approval inserted, deleted or locked. `Load` stands for the nine views,
`Hire` for a hiring without application, and the steps of an acceptance follow
`_accept()` and `JobApplication.accept()`: `LockUser` (the forms save the job
seeker first), `ReadPending`, `RenderObsolete` (one save per application),
`ReusePass` or `ReuseAndMovePass` or `IssuePass`, `Save`, `Commit`. A
cancellation is `CheckPass`, `Detach` (the collector sets the foreign keys to
null), `RemovePass`, `Save`, `Commit`. Foreign keys are deferred: `Commit` checks
them, and waits for who is deleting the row. `Rollback` may end a request
anywhere, so a circular wait ends as PostgreSQL ends it.
`Siae` are the applications to companies subject to eligibility rules; the others
(a GEIQ for instance) accept without approval and, having no form on the job
seeker to save, without the lock.

### Dates of an approval

`pass` has the dates of one approval, `suspensions`, `prolongations` and `requests`
are the rows of the three tables that belong to it. A web request is two steps:
`Begin...` loads, checks and validates, `Commit...` writes what it has loaded and
decided; the constraints of the tables are checked again by the second step,
the validation of the forms is not, as in the code. The two triggers
`update_approval_end_at` are `Written`: the end moves by the days of the new row
minus those of the row *as it is in the table*. `Model.save()` inserts a row that
was deleted meanwhile, hence `SaveSuspension` on an absent key. `update_start_date()`
saves the whole approval: what it read and what is there may differ, and the
history variable `overwritten` remembers that. A request does not span midnight;
`Tick` is midnight.

| Action | Code |
|---|---|
| `BeginSuspend` ... `CommitDelete` | `approvals_views/views.py` `suspend`, `suspension_update`, `suspension_update_enddate`, `suspension_delete`; `Suspension.clean` |
| `BeginAccept`, `CommitAccept` | `JobApplication.accept` for an approval that is reused: `update_start_date`, `unsuspend` |
| `BeginEdit`, `CommitEdit` | `edit_contract_start_date` |
| `BeginProlong`, `CommitProlong`, `CommitRequest` | `declare_prolongation`, with or without the opinion of a prescriber |
| `BeginAnswer`, `CommitGrant`, `CommitDeny` | `ProlongationRequest.grant`, `deny` |

### Notices to Pole Emploi

A run of `send_approvals_to_pe` heals, marks what is ready (`Start`), loads a batch
(`Load`), calls the API for each pass (`CallForApproval`) and writes the answer on the
row without reading it again (`Note`), then does the same with what is left of the
batch for cancelled passes (`CallForCancelled`). A call ends in one of three ways: the
preliminary checks say to wait; the search for the person fails, for a moment
(`SHOULD_RETRY`) or for good (`rech_individu`), and leaves no identifier (`NotFound`); or
the person is identified and the update has its own outcome (`Updated`). What the call
knows of the person is the profile at that moment for an approval, the row as it was
loaded with the batch for a cancelled pass (`identified` in an `Item`).
Two runs may overlap; a run may be killed anywhere.
Dates are version numbers, and `poleEmploi` is the version the agency was told
last; the version `Cancelled` stands for dates that end when they start. An answer
`SHOULD_RETRY` may come before or after the agency took the dates. `raced` and
`overlap` are history variables: the passes whose last change of dates happened
while a run held them, and whether two runs ever overlapped.

### Controls of employers

`SiaeEvaluations` is one campaign. States of employers and hirings are computed from
the criteria, as in `compute_state()` and `EvaluatedSiae.state`; the code orders them
in two levels, of which `StateFromApplications` is the composition. Instants are
only ever compared with the first review, so "before" and "after" it stand for
them. A web request is one step, but the page with the buttons to accept or refuse
stays open (`seen`): `EvaluateCriterion` may be posted much later, and its view checks
nothing but that the campaign goes on. Two guards are not in a view but in the conduct of
people: sanctions are notified for a refused employer, since only its line of
`institution_evaluated_siae_list.html` links to the first page (`NotifyStep1`), and the staff does not
apply the transition to a campaign that is over (`TransitionToAdversarialPhase`). `late` is the history of such decisions, and
of uploads after a final review. The staff freezes, moves to the adversarial stage
and closes at any time (`Freeze`, `TransitionToAdversarialPhase`, `Close`), and the daily
command reminds (`Remind`).

## 3. Runs

| Run | Instance | Shows |
|---|---|---|
| `transfer_crash` | 2 records, 1 request, 2 file names, kills, failed transfers, lines without number | `TypeOK`, `IntegratedIsKnown`, `AnswerMeetsItsRecord`, `ExchangeInv`, `SentIsAwaited` |
| `transfer_all` | 1 record, every disruption, two error codes | `IntegratedIsKnown` with sanitize, archive, profile changes and lines without number |
| `transfer_live` | 1 record, 3 file names, kills and failures of uploads | `ReadyIsAnswered`, `FeedbackIsConsumed`, `ProcessedOnlyFromSent` |
| `numbering_semaphore` | 3 transactions, one approval that lasts, one that may go | `Serialised`, `NoDuplicate`, `NoHole`, `NoDeadlock`, the refinement `Counter`, `TransactionsEnd` |
| `numbering_empty` | 3 transactions, empty tables | `TypeOK`, `NoHole` when there is nothing to lock |
| `hiring_acceptance` | 3 applications, one outside the eligibility rules, 2 requests, 2 approvals | `TypeOK`, `OnePass`, `AcceptanceSpares` |
| `dates_all` | 2 suspensions, 2 prolongations, 1 request of prolongation, 2 web requests, 4 days | `TypeOK`, `Balance`, `UnstartedIsBare`, `StartIsKept`, `Decided`, `ProlongedAfterDefault` |
| `notices` | 1 pass, 2 runs that overlap and 1 kill, or 2 passes for a batch of 1; a change of dates | `TypeOK`, `SuccessIsCurrent`, `CancelledIsTold`, `DueIsAnswered`, `CancellationIsAnswered` |
| `evaluations` | 2 employers, one of them drawn, 2 hirings, 3 criteria | nine properties on the stages, the freeze, the refusals, what the employers are told |
| `transfer_lost_answer`, `transfer_stuck_file`, `hiring_overwritten` | | section 4 |

*Bounds.* Two records are enough for an answer to meet the wrong one, a chunk of
two for a kill between two marks, two file names for a file sent twice; a third
one lets a record be rejected, corrected and sent again. Names are timestamps,
so a new file takes a name that no row, request or directory refers to
(`Fresh`); in `transfer_live` three names for one record leave a fresh one
whenever an upload may start, so the bound never hides a stuck record.
Three transactions let one wait for a lock while the
row it waits for is deleted and a third one gets ahead. Two requests let one act
between any two statements of the other; three applications give an acceptance
two others to render obsolete. The theorems of section 5 have none of these
bounds.
In `dates_all` an approval lasts three days, opens to prolongation one day before
its end and a suspension lasts two days at most: over four days it starts, is
suspended, lifted, prolonged with and without a prescriber, and expires. Two rows in
all (`Bounded`) let one overlap, precede or replace the other; after a lost update of
the dates nothing is claimed, and the run does not go further. `notices` has two
beginnings (`Starts`). In one, a pass is told its first dates, a change and its
cancellation by two runs that overlap, one of which may be killed. In the other, two
passes compete for a batch of one: the one that comes first lacks data at the
beginning, the other starts in the night and its dates change, and each of them may be
to retry, in error or cancelled while the other waits, so that the cancellation of
either gets what the approval of the other leaves of the batch. Two passes *and* two
overlapping runs are four times as many states, too many for a run that checks liveness
again and again, and were explored once. In `evaluations` 30 % of
two employers is one, which is drawn; one hiring has two possible criteria and the
other one, so that choosing again may drop or add a criterion.

*Deadlock.* `CHECK_DEADLOCK FALSE` because the modelled system really may stop: every
record is archived, the horizon is reached, the campaign is over, or no file name, number or approval of the instance is left. That the transactions of the numbering do not wait in a circle
is the invariant `NoDeadlock` (any set of them has one that waits for no other of the set,
nor for one that is over) and the liveness property `TransactionsEnd`; in `Hiring` the circle exists (an
acceptance and a stale save may wait for each other's rows) and PostgreSQL
breaks it with a rollback, which is in the model.

*Fairness.* `transfer_live`: `clevercloud/cron.json` starts the upload and the
download again every two hours, hence strong fairness of their start and of the
transfer that may fail; a command that runs goes on; a request ends; the ASP
answers a file it has. Nothing is assumed of employers. Commands are taken to
run one at a time: the crontab spaces the download (minute 25), the upload (55)
and the others, and no command takes that long. `numbering_semaphore`: a
transaction whose step is possible again and again takes it, since PostgreSQL
serves the waiters of a row in order, and the requests around it end.
`notices`: the crontab starts the command every five minutes and a run goes on until
its end, hence weak fairness of each step; midnight comes; and an API that is
called for a pass again and again, by whichever run, does not always fail (strong fairness
of an answer that settles the pass). A kill resets a run, but only `MaxKills` times. The
two liveness properties also suppose that runs end up taking turns (`InTurn`), or that
nothing comes before the pass: with two passes, runs that overlap for ever can keep one
waiting, each writing `SHOULD_RETRY` over what the other has settled for the pass ahead. No fairness is assumed of
`ApprovalDates` and `SiaeEvaluations`: their properties are safety.

## 4. What the code does otherwise

Each of these runs ends with the counterexample it describes.

* `transfer_lost_answer` refutes `RemovedIsApplied`. When `update_as_processed()`
  raises because the profile no longer passes `clean()`, the error is printed and
  not counted (`transfer_employee_records.py:124`), and the feedback file is
  removed: the record stays `SENT` and nothing will ever answer it. The command for
  the update notifications counts the same error.
* `transfer_stuck_file` refutes `FeedbackIsConsumed`. A file read a second time,
  because the download was killed before it removed it, meets a rejected record
  that the employer has disabled meanwhile: `update_as_rejected()` raises at each
  pass and the rest of the file is never applied.
* `hiring_overwritten` refutes `AcceptedOnlyCancelled`. Two requests on the same
  application: the acceptance commits, then the refusal loaded before is saved
  over it. The application is refused, and the approval belongs to nobody. An
  acceptance by a company outside the eligibility rules does the same to an
  application it renders obsolete.

Seen while modelling, without a run of their own:

* A line of feedback without number: the code means to count an error and to go on, but
  gives `stdout.write` the values to print as a style and an ending
  (`transfer_employee_records.py:99`). The call raises a `TypeError`, the rest of the file is not
  applied, and the file stays, to fail at the same line at each pass.
* An upload whose `update_as_sent()` raises in the middle of a file leaves the
  following rows `READY` though the ASP is going to answer them.
* A duplicate answer read a second time forces `PROCESSED` on a record whatever the
  employer did to it since (`ProcessedOnlyFromSent` holds only when no feedback file is
  read twice). Even in a file read once, a request that saves its stale copy between
  `DownloadFind` and `DownloadLine` is overwritten by the answer: a record that it sent
  back to `NEW` or `DISABLED` becomes `PROCESSED`. This is why the property speaks of
  the copy that the download loaded, not of the row it overwrites.
* An acceptance that reuses an approval that has not started yet saves the copy it
  read to move its dates. When the approval was cancelled meanwhile, `save()`
  inserts it again, and its number is in both tables. `OnePass` speaks of approvals
  that were never cancelled for this reason, and `NoDuplicate` of what
  `ApprovalNumbering` contains: saving without a number, and deleting.
* Between `can_be_deleted()` and the deletion another acceptance may reuse the
  approval: the application it accepted loses it.
* With both tables of approvals empty, `select_for_update()` locks nothing and two
  transactions may give the same number; the unique constraint of each table
  refuses the second one, except when the first has been cancelled in between.
  Hence the assumption of the theorems on numbering.
* Dates. A request of prolongation that is granted late keeps the start it was asked
  with: it begins at a former end of the approval, though "`start_at` should begin just
  after the approval" (`approvals_views/forms.py:190`), and the maximum of its reason is
  not computed again. Neither view looks at the status of the request: a granted one
  may be denied, and its prolongation stays; a denied one may be granted.
* Dates. An acceptance ends the suspension in progress the day before the hiring
  even when the hiring is later than its end: it is lengthened, past 36 months if
  need be. A form that saves a suspension deleted meanwhile inserts it again. The
  form that changes a suspension compares its start with an end of the approval that
  this very suspension has pushed back: shortened from its beginning, the suspension starts
  after the end of its approval ("the start of a suspension must be contained in its
  approval boundaries", `models.py:1210`).
* Dates. `can_be_prolonged` says "it is possible to prolong even 3 months after the end"
  (`models.py:822`); `is_open_to_prolongation` stops at the end. `edit_contract_start_date` builds
  `PermissionDenied()` and does not raise it (`edit_views.py:27`): the dates of any application of the
  company may be edited, "if job_application has been accepted" or not.
* Notices. A change of dates while a run holds the pass is lost: the trigger plans
  it, the answer to the former dates is saved over the plan. Overlapping runs may
  tell the dates of a pass after its cancellation. "Since the cron runs every 5
  minutes, it should be fine" (`send_approvals_to_pe.py:14`) counts one second a call,
  `API_TIMEOUT_SECONDS` is 60.
* Notices. A cancelled pass only gets what the passes to send leave of a batch of 140:
  behind 140 that the API always fails for it is never told. A person the API does not
  know for a moment is searched again; one it does not know for good is given up for a
  cancelled pass, and healed for an approval when the person is identified meanwhile.
* Controls. The criteria view checks only that the campaign has not ended
  (`siae_evaluations_views/views.py:463`). From a page of the amicable stage one may refuse "a second time" an
  employer that submitted nothing since; reinitialising a criterion after the
  review makes the transition raise "This shouldn't happen" for the whole campaign.
* Controls. An employer accepted by default may have a refused criterion; the
  transition lifts its freeze, `can_upload` ignores the final review, and an upload turns
  its result negative: `close()` then tells it "refused".
* Controls. An employer that submitted but was not reviewed is accepted by
  `close()` without being told. An employer reviewed but not validated in the
  amicable stage makes `close()` violate `final_reviewed_at_only_after_reviewed_at`.
  Institutions are reminded of the freeze again and again, seven days after seven days,
  where the comment says "on the day" and "7 days after" (`evaluation_campaign_notify.py:66`).
* Update notifications. A change of dates while the record is `SENT` makes none, since
  the trigger looks for `PROCESSED` records (`models.py:570`); a rejected notification is
  never sent again.

## 5. Proofs

`tlapm` checks every step of the eight proof modules. The theorems hold for any
values of the constants that satisfy the assumptions of the modules, so for any
number of records, requests, files, approvals, applications, runs and employers.
Every safety property that a passing run checks is a theorem. Where the code breaks
a promise (section 4), theorems say under which condition it keeps it.

**The exchange** (`EmployeeRecordTransfer_proofs`). `IntegratedIsKnown` alone is not
inductive: a copy that a request loaded earlier may be saved later, and an
answer is applied to the row found by file and line. `ExchangeInv` says it of
every *copy* of a row, in the table, in a request and in the command: a copy that
counts as integrated is of a known employee, and the file and line it remembers,
if still on the server, are its own. With the two facts about the files being
answered and being marked it is inductive under every disruption. `TypeCorrect`
is proved first, `ExchangeSafe` is the invariant, `IntegratedKnown` and
`AnswersMeetRecords` follow.
Two more theorems say which failures matter. `SentAreAwaited` needs only that
profiles stay valid (`"hiring_change" \notin Disruptions`; `transfer_lost_answer` shows
why), whatever is killed, lost, malformed or read twice. Its invariant, `AwaitedInv`,
says that a row which is `SENT` waits at its own line of a file, that a row of the
batch being marked is in a file on the server, that the download leaves nothing `SENT`
behind the line it reads, and that the copy it
holds is `SENT` when the row still is. `RemovedAreApplied` follows: with valid profiles
the promise that `transfer_lost_answer` refutes is kept, so an invalid profile is the one
cause of the answers it loses. `IntegratedFromSent` assumes that only uploads
fail (`OnlyUploadsFail`): then no feedback is read twice, and `OnceInv` says that the
lines still to be read belong to copies that no answer has settled (`Pending`,
`Settled`).

**The numbering** (`ApprovalNumbering_proofs`). `NumbersHaveNoHole` needs no lock:
a transaction that inserts has read a number that was given, and numbers given
stay given. For the others the assumption is that some approval is never deleted
(`Lasting # {}`): there is then a row whose key bounds from above the row a
transaction locks, and whoever is past its lock holds the row with the least
key, which nobody can delete meanwhile. That gives `NumberingSerialised`; then
what a serialised transaction has read is still the maximum when it inserts,
which gives `NumbersAreUnique` and, step by step, the refinement
`NumberingIsACounter`.
`NumberingNeverDeadlocks` needs no such assumption. `WaitsFor` collects the conditions on
other transactions in the guards; `HoldsInOrder` says at which stages a transaction
holds each lock and each number; then a transaction only waits for one that has fewer
stages left (`Rank`), so that in any set of transactions the most advanced one waits for
none of the set. The comment of `get_next_number()` says to "keep an eye on deadlocks":
saving and cancelling take their locks on the two tables in opposite orders, and the
ranks show why this is harmless, a cancellation never waiting for the lock of a cancelled row.

**Hiring** (`Hiring_proofs`). `HiringInv` says of each request that the approval it
has seen is there or was cancelled; that the one it inserts is a cancelled one
or comes when there is none, the row of the job seeker being locked; that the
pending rows it read and the rows it wrote, for other companies subject to the
rules, are still not accepted; and of two requests that they share no row lock.
All the steps but `Commit` keep the committed rows, and one lemma (`MovesOn`)
reduces them to the request that moves. `OneApprovalPerJobSeeker` and
`AcceptancesAreSpared` follow.
`HiringInTurn_proofs` adds the hypothesis `[]InTurn`, at most one request at a time on
the job seeker: `Current` then says that what the request has read still stands, that the
approval it is about to delete is that of its application alone, and that it writes no
other accepted row. `InTurnAcceptedOnlyCancelled` is the promise that `hiring_overwritten`
refutes, and `InTurnApprovalsStand` those that overlapping requests break without a run
of their own (section 4). Together with the runs they place the cause: it is the
missing lock on the row that is loaded, not the table of transitions nor the test
before the deletion.

**Dates** (`ApprovalDates_proofs`). `RequestsAreDecided` is of the requests alone:
`AnswersInv` says that whoever is about to answer read a request that exists, and
`LinksExist` that a link leads to a prolongation that is there. `UnstartedHasNothing`
relates what a request *read* to a row that another may have changed since:
`UnstartedIsDefault` adds that an approval that has not started has its default length,
and `Seen` that an approval which had begun when a request read it still has, unless a
stale copy of the dates was saved. `StartsAreKept` follows from the same `DatesInv`.

**Days** (`ApprovalDatesBalance_proofs`). A table is a function, and the days of its
rows a sum over a finite set, which the library defines as a choice among the functions
that satisfy a recursive equation. The first half of the module shows, by well-founded
minimality in first order (a least counterexample among the subsets, a least one among
the numbers), that there is one such function (`SumExists`), that there is no other
(`SumIsUnique`), hence that a sum is the days of any one row plus those of the others
(`DaysWithout`) and that writing one row changes it by the difference of the days
(`TotalOfChange`). The second half says what a step writes (`WhatIsWritten`): one row of
one table and its days, a new start and default end for an approval that is bare, or
nothing. `EndIsBalanced` has the invariant `Counted` (finitely many rows, and the
equation). `ProlongationsFollowTheDefault` needs three more facts: no row ends
before it starts (`Lasting`), so the end is never before the default one; and what was
proposed, in a request in flight or a row of the table of requests, begins at or after
the default end (`Proposed`), though the end moves back when a suspension is lifted. The
properties are claimed as long as no stale copy of the dates was saved;
`InTurnDatesAreExact` shows that none is while requests do not overlap, and states them
without the proviso.

**Notices** (`PoleEmploiNotices_proofs`). `SuccessInv` says of each run what the answer it
got makes true of the pass it holds unless the pass raced; `CancelledInv` says that
a run does not come back to the dates of a pass after its cancellation (`InOrder`), as long
as runs have not overlapped. A lemma (`CallTells`) gives what a call does to the dates the
agency has, whether the person was found or not. `NoticesTypeCorrect` includes the length of a batch.

**Controls** (`SiaeEvaluations_proofs`). Employers do not share anything but the phase of
the campaign, so the invariant is about the values of one employer. Two parts of
it hold whatever happens (what was submitted has proofs; the amicable stage refuses nobody
for good); the others say what the first and the second review, the final one and the last
message may be, as long as no decision came late. Lemmas give the meaning of each
computed state (`compute_state()` and `EvaluatedSiae.state`). All the properties of
the run are proved, assuming that an employer has two eligible hirings at least, the code's
threshold for being eligible (`EvaluationsAssumption`).

*Only model-checked*: the liveness properties (`ReadyIsAnswered`,
`FeedbackIsConsumed`, `TransactionsEnd`, `DueIsAnswered`, `CancellationIsAnswered`),
which TLAPS cannot prove under fairness.

## 6. What is not modelled

In the modelled parts:

* Employee records: batch file names that collide within a second; feedback that is
  not JSON or has no line list; two commands at the same time; a kill of sanitize
  or archive, which are one transaction per check or per record; the dry run.
  The admin site, where the staff may save any status. The update notifications
  (next module).
* Dates: the back office, which may set any date; the 365 days of retroactivity;
  approvals that are not the last one of their job seeker; the check that an approval ends after it starts,
  which only an overwritten save could break.
* Notices: companies of a kind that the API does not know; several passes of one
  job seeker; the daily `pe_certify_users` beyond its effect.
* Controls: overlapping requests (an employer that submits while it chooses criteria
  in another window may transmit one without proof); the reminder of the
  institutions; percentages and dates of a sanction.
* Numbering: approvals saved with an explicit number while others are numbered.
* Hiring: approvals that expire, and the waiting period; approvals of the former
  agency that are imported at acceptance; the manual delivery by the staff; the
  employee record that forbids a cancellation; the transition log; e-mails. The
  application and the latest approval are read in one step, before the request
  has written anything.

Left out altogether, see `PROJECT.json` for each: views and APIs that only read,
exports to metabase, reference data, the OpenID protocols, e-mail and templates.

## 7. Plan

Done: the exchange of employee records, the numbering of approvals, hiring, the
dates of approvals, the notices to Pole Emploi, the campaigns of control. Next:

1. The update notifications: the trigger that makes them and their transfer,
   composed with the rows of `EmployeeRecord`.
2. Hiring, continued: the employee record created while the hiring is cancelled,
   the manual delivery, and the composition with `ApprovalNumbering` and `ApprovalDates`.
3. The overlap of requests in the campaigns of control.
4. The activity of conventions, invitations and memberships, the diagnoses.
