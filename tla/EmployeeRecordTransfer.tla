----------------------- MODULE EmployeeRecordTransfer -----------------------
(***************************************************************************)
(* The exchange of employee records with the ASP over SFTP.                *)
(*                                                                         *)
(* Three kinds of actors change the table:                                 *)
(*   - web requests of the employers: one transaction that loads a row,    *)
(*     checks it and saves the whole row, with no lock (READ COMMITTED),   *)
(*     so anything may happen between the load and the save;               *)
(*   - the transfer command, in autocommit: upload serialises the READY    *)
(*     rows, puts a file on the server, then marks its rows one by one;    *)
(*     download applies the lines of each feedback file one by one, then   *)
(*     removes the file;                                                   *)
(*   - the maintenance commands that sanitize and archive records.         *)
(* The crontab runs the commands one after the other, so there is one      *)
(* command at a time; it may be killed between any two of its steps.       *)
(*                                                                         *)
(* A record is identified with its job application: a constraint of the    *)
(* table allows one record per hiring company and approval.                *)
(***************************************************************************)
EXTENDS EmployeeRecord, Sequences, FiniteSets

CONSTANTS
    Records,        \* the job applications that may get an employee record
    Workers,        \* concurrent web requests
    Operations,     \* the web requests of this instance
    MaxBatch,       \* EmployeeRecordBatch.MAX_EMPLOYEE_RECORDS
    Legacy,         \* records that may have been rejected as duplicates before
                    \* the download turned duplicates into successes
    Disruptions,    \* what may go wrong in this instance, see below
    MaxFaults       \* bound on the number of kills and transfer errors

ASSUME TransferAssumption ==
    /\ IsFiniteSet(Records)
    /\ MaxBatch \in Nat \ {0}
    /\ MaxFaults \in Nat
    /\ Legacy \subseteq Records
    /\ Operations \subseteq {"create", "edit", "ready", "disable", "reactivate"}
    /\ Disruptions \subseteq {"kill_upload", "kill_download", "put_error",
                              "hiring_change", "malformed", "sanitize", "archive"}

VARIABLES
    rows,       \* the employee record table
    hiring,     \* what clean() finds of the job application and its profile
    web,        \* web requests in flight: the row each one is going to save
    cmd,        \* the management command that is running
    inbox,      \* upload directory: batch files the ASP has not read yet
    outbox,     \* download directory: feedback files not removed yet
    known,      \* ASP: the employees it has accepted a record of
    faults      \* kills and transfer errors so far

vars == <<rows, hiring, web, cmd, inbox, outbox, known, faults>>

-----------------------------------------------------------------------------
(* clean() accepts "ok" only.  Without an approval nothing can be          *)
(* serialised either.                                                      *)
Hiring == {"ok", "unclean", "no_approval"}

NoRequest == [er |-> "none"]
Request == [er : Records, insert : BOOLEAN, save : Row]

Task == {"idle", "upload", "download", "sanitize", "archive"}
Command == [task   : Task,
            todo   : Seq(Records),          \* upload: not yet in a file
            batch  : Seq(Records),          \* in a file, to be marked or answered
            inst   : [Records -> Row],      \* the loaded instances
            valid  : SUBSET Records,        \* those that are going to be saved
            file   : FileNames \union {NoFile},
            pos    : Nat,                   \* line of the file, or step
            files  : SUBSET FileNames]      \* download: listed, not opened

Idle == [task |-> "idle", todo |-> <<>>, batch |-> <<>>,
         inst |-> [r \in Records |-> NoRow], valid |-> {}, file |-> NoFile,
         pos |-> 0, files |-> {}]

(* A line of a feedback file: the employee the ASP read at that line and   *)
(* the code it answers, or "noline" when the line number is missing.       *)
Answer == [er : Records, code : ProcessingCode \union {"noline"}]

TypeOK ==
    /\ rows \in [Records -> Row]
    /\ hiring \in [Records -> Hiring]
    /\ web \in [Workers -> Request \union {NoRequest}]
    /\ cmd \in Command
    /\ inbox \in [FileNames -> Seq(Records)]
    /\ outbox \in [FileNames -> Seq(Answer)]
    /\ known \in SUBSET Records
    /\ faults \in Nat

LegacyRow == [NoRow EXCEPT !.status = "REJECTED", !.code = DuplicateCode]

Init ==
    /\ \E L \in SUBSET Legacy :
         /\ rows = [r \in Records |-> IF r \in L THEN LegacyRow ELSE NoRow]
         /\ known = L
    /\ hiring = [r \in Records |-> "ok"]
    /\ web = [w \in Workers |-> NoRequest]
    /\ cmd = Idle
    /\ inbox = [f \in FileNames |-> <<>>]
    /\ outbox = [f \in FileNames |-> <<>>]
    /\ faults = 0

-----------------------------------------------------------------------------
(***************************************************************************)
(* Web requests of the employer.                                           *)
(***************************************************************************)

(* What each view checks on the instance it has loaded. *)
Allowed(op, r, inst) ==
    CASE op = "create" -> inst.status = "ABSENT" /\ hiring[r] # "no_approval"
      [] op = "edit" -> InTunnel(inst)
      [] op = "ready" -> InTunnel(inst) /\ hiring[r] = "ok"
      [] op = "disable" -> CanBeDisabled(inst)
      [] op = "reactivate" -> CanBeReactivated(inst) /\ hiring[r] # "no_approval"

(* What it saves: every column, from the instance it has loaded. *)
Saved(op, inst) ==
    CASE op = "create" -> FromJobApplication
      [] op = "edit" -> inst
      [] op = "ready" -> AsReady(inst)
      [] op = "disable" -> AsDisabled(inst)
      [] op = "reactivate" -> AsNew(inst)

(* A request the view refuses ends without effect and is left out. *)
WebLoad(w, r, op) ==
    /\ web[w] = NoRequest
    /\ Allowed(op, r, rows[r])
    /\ web' = [web EXCEPT ![w] = [er |-> r, insert |-> op = "create",
                                  save |-> Saved(op, rows[r])]]
    /\ UNCHANGED <<rows, hiring, cmd, inbox, outbox, known, faults>>

(* The unique constraint refuses the insertion of a second record; the     *)
(* update of a row deleted meanwhile inserts it again.                     *)
WebSave(w) ==
    /\ web[w] # NoRequest
    /\ LET q == web[w] IN
         rows' = IF q.insert /\ rows[q.er].status # "ABSENT"
                 THEN rows
                 ELSE [rows EXCEPT ![q.er] = q.save]
    /\ web' = [web EXCEPT ![w] = NoRequest]
    /\ UNCHANGED <<hiring, cmd, inbox, outbox, known, faults>>

(* Other parts of the site edit the applicant's profile, and the staff may *)
(* delete an approval.                                                     *)
HiringChange(r) ==
    /\ "hiring_change" \in Disruptions
    /\ hiring[r] # "no_approval"
    /\ \E h \in Hiring \ {hiring[r]} : hiring' = [hiring EXCEPT ![r] = h]
    /\ UNCHANGED <<rows, web, cmd, inbox, outbox, known, faults>>

-----------------------------------------------------------------------------
(***************************************************************************)
(* transfer_employee_records --upload                                      *)
(***************************************************************************)

(* File names are timestamps: a name is fresh if nothing refers to it.     *)
Fresh ==
    {f \in FileNames : /\ inbox[f] = <<>> /\ outbox[f] = <<>>
                       /\ \A r \in Records : /\ rows[r].file # f
                                             /\ cmd.inst[r].file # f
                       /\ \A w \in Workers : web[w] # NoRequest =>
                                                 web[w].save.file # f}

Ready == {r \in Records : rows[r].status = "READY"}

(* The orders in which a query may return a set of rows. *)
Listings(S) == {s \in [1..Cardinality(S) -> S] : \A r \in S : \E i \in DOMAIN s : s[i] = r}

UploadStart ==
    /\ cmd.task = "idle"
    /\ Ready # {}
    /\ Cardinality(Fresh) * MaxBatch >= Cardinality(Ready)     \* bound of the instance
    /\ \E s \in Listings(Ready) :
         cmd' = [Idle EXCEPT !.task = "upload", !.todo = s,
                   !.inst = [r \in Records |-> IF r \in Ready THEN rows[r] ELSE NoRow]]
    /\ UNCHANGED <<rows, hiring, web, inbox, outbox, known, faults>>

(* The next chunk of the query's result, at most MaxBatch rows. *)
Chunk == SubSeq(cmd.todo, 1, IF Len(cmd.todo) < MaxBatch THEN Len(cmd.todo) ELSE MaxBatch)
Rest == SubSeq(cmd.todo, Len(Chunk) + 1, Len(cmd.todo))
Elements(s) == {s[i] : i \in DOMAIN s}

Uploading == cmd.task = "upload" /\ cmd.batch = <<>> /\ cmd.todo # <<>>
Serialisable == \A r \in Elements(Chunk) : hiring[r] # "no_approval"

(* Serialising loads the hiring data the instances keep from then on. *)
UploadPut ==
    /\ Uploading /\ Serialisable
    /\ \E f \in Fresh :
         /\ inbox' = [inbox EXCEPT ![f] = Chunk]
         /\ cmd' = [cmd EXCEPT !.todo = Rest, !.batch = Chunk, !.file = f, !.pos = 1,
                      !.valid = {r \in Elements(Chunk) : hiring[r] = "ok"}]
    /\ UNCHANGED <<rows, hiring, web, outbox, known, faults>>

(* putfo() raises: the chunk is skipped.  The file may have arrived. *)
UploadPutError ==
    /\ Uploading /\ Serialisable
    /\ "put_error" \in Disruptions /\ faults < MaxFaults
    /\ faults' = faults + 1
    /\ \/ inbox' = inbox
       \/ \E f \in Fresh : inbox' = [inbox EXCEPT ![f] = Chunk]
    /\ cmd' = [cmd EXCEPT !.todo = Rest]
    /\ UNCHANGED <<rows, hiring, web, outbox, known>>

(* An exception that nothing catches ends the command. *)
UploadAbort ==
    /\ \/ Uploading /\ ~Serialisable
       \/ cmd.task = "upload" /\ cmd.batch # <<>> /\ Head(cmd.batch) \notin cmd.valid
    /\ cmd' = Idle
    /\ UNCHANGED <<rows, hiring, web, inbox, outbox, known, faults>>

(* update_as_sent() on the instance loaded when the command started. *)
UploadMark ==
    /\ cmd.task = "upload" /\ cmd.batch # <<>>
    /\ LET r == Head(cmd.batch) IN
         /\ r \in cmd.valid
         /\ rows' = [rows EXCEPT ![r] = AsSent(cmd.inst[r], cmd.file, cmd.pos)]
    /\ cmd' = [cmd EXCEPT !.batch = Tail(cmd.batch), !.pos = cmd.pos + 1]
    /\ UNCHANGED <<hiring, web, inbox, outbox, known, faults>>

UploadEnd ==
    /\ cmd.task = "upload" /\ cmd.batch = <<>> /\ cmd.todo = <<>>
    /\ cmd' = Idle
    /\ UNCHANGED <<rows, hiring, web, inbox, outbox, known, faults>>

-----------------------------------------------------------------------------
(***************************************************************************)
(* The ASP reads a batch file and answers every line.  It accepts an       *)
(* employee or rejects the line; a duplicate is an employee it has already.*)
(***************************************************************************)
AnswerCodes(r) ==
    {SuccessCode} \union RejectionCode
      \union (IF r \in known THEN {DuplicateCode} ELSE {})
      \union (IF "malformed" \in Disruptions THEN {"noline"} ELSE {})

AspAnswer(f) ==
    /\ inbox[f] # <<>>
    /\ \E code \in [DOMAIN inbox[f] -> UNION {AnswerCodes(r) : r \in Elements(inbox[f])}] :
         /\ \A i \in DOMAIN inbox[f] : code[i] \in AnswerCodes(inbox[f][i])
         /\ outbox' = [outbox EXCEPT ![f] =
                [i \in DOMAIN inbox[f] |-> [er |-> inbox[f][i], code |-> code[i]]]]
         /\ known' = known \union {inbox[f][i] : i \in {j \in DOMAIN inbox[f] :
                                                         code[j] = SuccessCode}}
    /\ inbox' = [inbox EXCEPT ![f] = <<>>]
    /\ UNCHANGED <<rows, hiring, web, cmd, faults>>

-----------------------------------------------------------------------------
(***************************************************************************)
(* transfer_employee_records --download                                    *)
(***************************************************************************)
DownloadStart ==
    /\ cmd.task = "idle"
    /\ \E f \in FileNames : outbox[f] # <<>>
    /\ cmd' = [Idle EXCEPT !.task = "download",
                           !.files = {f \in FileNames : outbox[f] # <<>>}]
    /\ UNCHANGED <<rows, hiring, web, inbox, outbox, known, faults>>

DownloadOpen ==
    /\ cmd.task = "download" /\ cmd.file = NoFile
    /\ \E f \in cmd.files :
         cmd' = [cmd EXCEPT !.file = f, !.pos = 1, !.files = cmd.files \ {f}]
    /\ UNCHANGED <<rows, hiring, web, inbox, outbox, known, faults>>

(* Mutant: the last line of a file is not read. *)
ReadingButLast ==
    cmd.task = "download" /\ cmd.file # NoFile /\ cmd.pos + 1 \in DOMAIN outbox[cmd.file]

Reading ==
    cmd.task = "download" /\ cmd.file # NoFile /\ cmd.pos \in DOMAIN outbox[cmd.file]

(* Mutant: the line number alone designates the row. *)
FindByLine(f, n) == {r \in Records : rows[r].status # "ABSENT" /\ rows[r].line = n}

(* find_by_batch(filename, line): at most one row. *)
FindByBatch(f, n) == {r \in Records : /\ rows[r].status # "ABSENT"
                                      /\ rows[r].file = f /\ rows[r].line = n}

(* Mutant: a duplicate is not turned into a success. *)
NeverForces(row, h, c) == c = DuplicateCode /\ row.status = "REJECTED" /\ h = "ok"

(* What one line of feedback does to the row it designates. *)
Accepts(row, h, c) == c = SuccessCode /\ row.status = "SENT" /\ h = "ok"
Forces(row, h, c) == c = DuplicateCode /\ row.status # "PROCESSED" /\ h = "ok"
Rejects(row, h, c) == c \in RejectionCode /\ row.status = "SENT" /\ h = "ok"

(* Mutant: the instance is not set to REJECTED before it is forced. *)
RaisesOnDuplicate(row, h, c) ==
    \/ c = DuplicateCode /\ row.status \notin {"PROCESSED", "REJECTED"}
    \/ c \in RejectionCode /\ row.status \notin {"SENT", "PROCESSED", "REJECTED"}

(* A line whose update raises: of these, the failure to record a success   *)
(* is caught at once and not counted, the others end the file.             *)
Raises(row, h, c) ==
    \/ c = DuplicateCode /\ row.status # "PROCESSED" /\ h # "ok"
    \/ c \in RejectionCode /\ row.status \notin {"PROCESSED", "REJECTED"}
                           /\ (row.status # "SENT" \/ h # "ok")

Answered(row, h, c) ==
    IF Accepts(row, h, c) \/ Forces(row, h, c) THEN AsProcessed(row, c)
    ELSE IF Rejects(row, h, c) THEN AsRejected(row, c) ELSE row

(* An exception ends the reading of a file, which stays on the server.     *)
NextFile == [cmd EXCEPT !.file = NoFile, !.pos = 0, !.batch = <<>>]
NextLine == [cmd EXCEPT !.pos = cmd.pos + 1, !.batch = <<>>]

(* A line with a number is looked up: the instance that is found is the    *)
(* one that will be saved.  For a line without number the code means to    *)
(* count an error and to go on, but passes the values it wants to print to *)
(* stdout.write as the style and the ending: the call raises.              *)
DownloadFind ==
    /\ Reading /\ cmd.batch = <<>>
    /\ LET noline == outbox[cmd.file][cmd.pos].code = "noline"
           hit == FindByBatch(cmd.file, cmd.pos)
       IN \/ noline /\ cmd' = NextFile
          \/ ~noline /\ hit = {} /\ cmd' = NextLine
          \/ /\ ~noline
             /\ \E r \in hit :
                  cmd' = [cmd EXCEPT !.batch = <<r>>, !.inst = [cmd.inst EXCEPT ![r] = rows[r]]]
    /\ UNCHANGED <<rows, hiring, web, inbox, outbox, known, faults>>

DownloadLine ==
    /\ Reading /\ cmd.batch # <<>>
    /\ LET r == Head(cmd.batch)
           row == cmd.inst[r]
           c == outbox[cmd.file][cmd.pos].code
       IN IF Raises(row, hiring[r], c)
          THEN rows' = rows /\ cmd' = NextFile
          ELSE /\ rows' = IF Answered(row, hiring[r], c) = row
                          THEN rows
                          ELSE [rows EXCEPT ![r] = Answered(row, hiring[r], c)]
               /\ cmd' = NextLine
    /\ UNCHANGED <<hiring, web, inbox, outbox, known, faults>>

(* The end of a file: it is removed.  Every error of this model raises, so *)
(* a file that is read to its end has none.                                *)
DownloadClose ==
    /\ cmd.task = "download" /\ cmd.file # NoFile /\ ~Reading
    /\ outbox' = [outbox EXCEPT ![cmd.file] = <<>>]
    /\ cmd' = NextFile
    /\ UNCHANGED <<rows, hiring, web, inbox, known, faults>>

DownloadEnd ==
    /\ cmd.task = "download" /\ cmd.file = NoFile /\ cmd.files = {}
    /\ cmd' = Idle
    /\ UNCHANGED <<rows, hiring, web, inbox, outbox, known, faults>>

Kill ==
    /\ \/ cmd.task = "upload" /\ "kill_upload" \in Disruptions
       \/ cmd.task = "download" /\ "kill_download" \in Disruptions
    /\ faults < MaxFaults
    /\ faults' = faults + 1
    /\ cmd' = Idle
    /\ UNCHANGED <<rows, hiring, web, inbox, outbox, known>>

-----------------------------------------------------------------------------
(***************************************************************************)
(* sanitize_employee_records: four checks in this order, each in a         *)
(* transaction of its own that loads the rows it selects, then saves them. *)
(* Which profiles lack an address, and which approvals of archived records *)
(* were prolonged, is left open.                                           *)
(***************************************************************************)
SanitizeStart ==
    /\ cmd.task = "idle" /\ "sanitize" \in Disruptions
    /\ cmd' = [Idle EXCEPT !.task = "sanitize", !.pos = 1]
    /\ UNCHANGED <<rows, hiring, web, inbox, outbox, known, faults>>

Step(n) == cmd.task = "sanitize" /\ cmd.pos = n
Load(S) == [Idle EXCEPT !.task = "sanitize", !.pos = cmd.pos + 1, !.valid = S,
                        !.inst = [r \in Records |-> IF r \in S THEN rows[r] ELSE NoRow]]
Rewrite(Method(_)) ==
    [r \in Records |-> IF r \in cmd.valid THEN Method(cmd.inst[r]) ELSE rows[r]]

(* One statement, without an instance. *)
CheckApprovals ==
    /\ Step(1)
    /\ rows' = [r \in Records |-> IF hiring[r] = "no_approval" THEN NoRow ELSE rows[r]]
    /\ cmd' = Load({})
    /\ UNCHANGED <<hiring, web, inbox, outbox, known, faults>>

Integrated == {r \in Records : rows[r].status = "PROCESSED"}
AspDuplicates == {r \in Records : IsDuplicate(rows[r])}

SanitizeLoad ==
    /\ \/ Step(2) /\ \E S \in SUBSET Integrated : cmd' = Load(S)
       \/ Step(4) /\ cmd' = Load(AspDuplicates)
       \/ Step(6) /\ \E S \in SUBSET {r \in Records : /\ rows[r].status = "ARCHIVED"
                                                     /\ hiring[r] # "no_approval"} :
                        cmd' = Load(S)
    /\ UNCHANGED <<rows, hiring, web, inbox, outbox, known, faults>>

CheckJobseekerProfiles ==
    /\ Step(3)
    /\ rows' = Rewrite(AsDisabled)
    /\ cmd' = Load({})
    /\ UNCHANGED <<hiring, web, inbox, outbox, known, faults>>

(* One invalid record rolls the whole check back and ends the command. *)
Check3436ErrorCode ==
    /\ Step(5)
    /\ IF \A r \in cmd.valid : IsDuplicate(cmd.inst[r]) /\ hiring[r] = "ok"
       THEN /\ rows' = Rewrite(LAMBDA row : AsProcessed(row, DuplicateCode))
            /\ cmd' = Load({})
       ELSE rows' = rows /\ cmd' = Idle
    /\ UNCHANGED <<hiring, web, inbox, outbox, known, faults>>

(* unarchive() saves the status alone. *)
CheckMissedNotifications ==
    /\ Step(7)
    /\ rows' = [r \in Records |->
                  IF r \in cmd.valid
                  THEN [rows[r] EXCEPT !.status = Unarchived(cmd.inst[r]).status]
                  ELSE rows[r]]
    /\ cmd' = Idle
    /\ UNCHANGED <<hiring, web, inbox, outbox, known, faults>>

(* archive_employee_records: records of expired approvals, one transaction.*)
ArchiveStart ==
    /\ cmd.task = "idle" /\ "archive" \in Disruptions
    /\ \E S \in SUBSET {r \in Records : /\ rows[r].status \notin {"ABSENT", "ARCHIVED"}
                                        /\ hiring[r] # "no_approval"} :
         cmd' = [Load(S) EXCEPT !.task = "archive"]
    /\ UNCHANGED <<rows, hiring, web, inbox, outbox, known, faults>>

Archive ==
    /\ cmd.task = "archive"
    /\ rows' = Rewrite(AsArchived)
    /\ cmd' = Idle
    /\ UNCHANGED <<hiring, web, inbox, outbox, known, faults>>

-----------------------------------------------------------------------------
Web == \E w \in Workers : \/ \E r \in Records, op \in Operations : WebLoad(w, r, op)
                          \/ WebSave(w)
Upload == UploadStart \/ UploadPut \/ UploadPutError \/ UploadAbort \/ UploadMark \/ UploadEnd
Download == DownloadStart \/ DownloadOpen \/ DownloadFind \/ DownloadLine \/ DownloadClose \/ DownloadEnd
Sanitize == \/ SanitizeStart \/ SanitizeLoad \/ CheckApprovals \/ CheckJobseekerProfiles
            \/ Check3436ErrorCode \/ CheckMissedNotifications
Archiving == ArchiveStart \/ Archive

Next ==
    \/ Web
    \/ \E r \in Records : HiringChange(r)
    \/ Upload \/ Download \/ Kill \/ Sanitize \/ Archiving
    \/ \E f \in FileNames : AspAnswer(f)

Spec == Init /\ [][Next]_vars

(***************************************************************************)
(* The crontab starts each command again and again, so a command that can  *)
(* start infinitely often does; a command that runs takes its steps; a web *)
(* request ends; the ASP answers the files it gets.  Nothing is assumed of *)
(* the people who edit, send or disable records.                           *)
(***************************************************************************)
Fairness ==
    /\ SF_vars(UploadStart) /\ SF_vars(DownloadStart)
    /\ SF_vars(UploadPut)
    /\ WF_vars(UploadAbort \/ UploadMark \/ UploadEnd)
    /\ WF_vars(DownloadOpen \/ DownloadFind \/ DownloadLine \/ DownloadClose \/ DownloadEnd)
    /\ WF_vars(Sanitize /\ cmd.task = "sanitize") /\ WF_vars(Archive)
    /\ \A w \in Workers : WF_vars(WebSave(w))
    /\ \A f \in FileNames : WF_vars(AspAnswer(f))

FairSpec == Spec /\ Fairness

-----------------------------------------------------------------------------
(***************************************************************************)
(* Properties.                                                             *)
(***************************************************************************)

(* A record counted as integrated is one the ASP has accepted: whatever    *)
(* the interleaving, no answer is credited to a record it is not about.    *)
IntegratedIsKnown == Integrated \subseteq known

(* The answer at a line of a feedback file still on the server, and the    *)
(* row find_by_batch() gives for that line, are about the same employee.   *)
AnswerMeetsItsRecord ==
    \A f \in FileNames : \A n \in DOMAIN outbox[f] :
        FindByBatch(f, n) \subseteq {outbox[f][n].er}

(* The invariant that makes the two properties above inductive.  A copy of *)
(* a row, in the table, in a web request or in the upload command, counts  *)
(* as integrated only what the ASP knows, and what it remembers of its     *)
(* last transmission agrees with the directories of the server.            *)
Consistent(r, row) ==
    /\ row.status = "PROCESSED" \/ row.code \in {SuccessCode, DuplicateCode} => r \in known
    /\ \A f \in FileNames : row.file = f =>
         /\ row.line \in DOMAIN inbox[f] => inbox[f][row.line] = r
         /\ row.line \in DOMAIN outbox[f] => outbox[f][row.line].er = r

AnswersAreKnown ==
    \A f \in FileNames : \A n \in DOMAIN outbox[f] :
        outbox[f][n].code \in {SuccessCode, DuplicateCode} => outbox[f][n].er \in known

(* The rows still to be marked, and the lines of the file they are at. *)
BatchIsInFile ==
    \A i \in DOMAIN cmd.batch :
        /\ cmd.file \in FileNames
        /\ LET n == cmd.pos + i - 1 IN
             /\ n \in DOMAIN inbox[cmd.file] => inbox[cmd.file][n] = cmd.batch[i]
             /\ n \in DOMAIN outbox[cmd.file] => outbox[cmd.file][n].er = cmd.batch[i]

ExchangeInv ==
    /\ \A r \in Records : Consistent(r, rows[r])
    /\ \A w \in Workers : web[w] # NoRequest => Consistent(web[w].er, web[w].save)
    /\ \A r \in Records : Consistent(r, cmd.inst[r])
    /\ AnswersAreKnown
    /\ BatchIsInFile

(* A SENT record has its file on the server, at the line it remembers,     *)
(* waiting for the ASP or for the download: else nobody would ever answer. *)
SentIsAwaited ==
    \A r \in Records : rows[r].status = "SENT" =>
        LET f == rows[r].file  n == rows[r].line IN
          \/ n \in DOMAIN inbox[f] /\ inbox[f][n] = r
          \/ /\ n \in DOMAIN outbox[f] /\ outbox[f][n].er = r

(* The download removes a feedback file only after it has applied it: no   *)
(* row of the file is left waiting for an answer.                          *)
RemovedIsApplied ==
    [][\A f \in FileNames : outbox[f] # <<>> /\ outbox'[f] = <<>> =>
           \A n \in DOMAIN outbox[f] : \A r \in FindByBatch(f, n) :
               rows'[r].status # "SENT"]_vars

(* An answer of the ASP is credited to a record that was waiting for one   *)
(* when the download loaded it, never to one the employer had withdrawn or *)
(* was correcting, though a duplicate is credited whatever the status.     *)
ProcessedOnlyFromSent ==
    [][\A r \in Integrated' \ Integrated : cmd.inst[r].status = "SENT"]_vars

(* A record sent off gets an answer, or somebody takes it back.            *)
ReadyIsAnswered ==
    \A r \in Records : rows[r].status = "READY" ~> rows[r].status \notin {"READY", "SENT"}

(* A feedback file is applied and removed some day. *)
FeedbackIsConsumed ==
    \A f \in FileNames : outbox[f] # <<>> ~> outbox[f] = <<>>
=============================================================================
