---------------------------- MODULE ApprovalDates ----------------------------
(***************************************************************************)
(* The dates of one PASS IAE (approval): the start an employer may still   *)
(* postpone, the end that suspensions and prolongations push back, and the *)
(* prolongation requests prescribers answer.                               *)
(*                                                                         *)
(* A web request is a transaction under READ COMMITTED: it loads rows      *)
(* without a lock, decides and validates on what it has loaded (Begin...), *)
(* and writes (Commit...).  The triggers of the two tables move the end of *)
(* the approval in the statement that writes their row, with the values    *)
(* the row really had.  A request that a constraint refuses, or that       *)
(* fails, is rolled back.                                                  *)
(*                                                                         *)
(* Days are integers.  A request does not span midnight.  The approval is  *)
(* the last one of its job seeker, the requests come from the company of   *)
(* the last hiring, and the limit of 365 days on retroactive suspensions   *)
(* is beyond the horizon.  The check that an approval ends after it starts *)
(* is left out: only dates saved from a stale copy could break it.  The    *)
(* back office is left out: it may set any date.                           *)
(***************************************************************************)
EXTENDS Integers, FiniteSets, FiniteSetsExt

CONSTANTS
    Suspensions, Prolongations, Requests,   \* primary keys of the three tables
    Sessions,           \* concurrent web requests
    Reasons,            \* reasons of a prolongation
    Direct,             \* those that need no prescriber's opinion
    MaxCumulative,      \* days a reason allows in all
    MaxEach,            \* days a reason allows at a time
    DefaultDays,        \* duration of an approval
    OpenDays,           \* days before the end when prolonging is allowed
    MaxSuspension,      \* days of the longest suspension
    MaxPostpone,        \* days a hiring may be postponed
    Horizon             \* bound: the last day of the instance

NoKey == "none"

ASSUME DatesAssumption ==
    /\ NoKey \notin Suspensions /\ NoKey \notin Requests
    /\ Direct \subseteq Reasons
    /\ MaxCumulative \in [Reasons -> Nat]
    /\ MaxEach \in [Reasons -> Nat]
    /\ OpenDays \in Nat /\ MaxSuspension \in Nat /\ MaxPostpone \in Nat /\ Horizon \in Nat
    /\ DefaultDays \in Nat /\ DefaultDays > OpenDays + 1

VARIABLES
    today,
    hired,          \* start of the last accepted hiring
    pass,           \* dates of the approval
    suspensions,
    prolongations,
    requests,
    session,        \* what each web request is about to write
    overwritten     \* history: the dates were saved from a copy that was not current

vars == <<today, hired, pass, suspensions, prolongations, requests, session, overwritten>>
rows == <<suspensions, prolongations, requests>>

Absent == [absent |-> TRUE]

Period == [start : Int, end : Int]
Prolongation == [start : Int, end : Int, reason : Reasons, request : Requests \union {NoKey}]
Request == [start : Int, end : Int, reason : Reasons,
            status : {"PENDING", "GRANTED", "DENIED"}, information : BOOLEAN]

Exist(table) == {k \in DOMAIN table : table[k] # Absent}
Duration(period) == period.end - period.start

(* end_at is inclusive.                                                    *)
DefaultEnd(start) == start + DefaultDays - 1
Dates(start) == [start |-> start, end |-> DefaultEnd(start)]

InProgress(period) == period.start <= today /\ today <= period.end
SuspensionsInProgress == {s \in Exist(suspensions) : InProgress(suspensions[s])}
PendingRequests == {r \in Exist(requests) : requests[r].status = "PENDING"}

Idle == [op |-> "idle"]
(* A request that moves the start of the approval remembers the dates it   *)
(* has seen: they are what it overwrites.                                  *)
Accepting == [op : {"accept"}, hired : Int, moves : Period \union {Absent},
              lifts : Suspensions \union {NoKey}, until : Period \union {Absent}]
Editing == [op : {"edit"}, hired : Int, moves : Period \union {Absent}]
Session ==
    {Idle} \union Accepting \union Editing
    \union [op : {"suspend"}, row : Period]
    \union [op : {"update"}, key : Suspensions, row : Period]
    \union [op : {"delete"}, key : Suspensions]
    \union [op : {"prolong"}, row : Prolongation]
    \union [op : {"request"}, row : Request]
    \union [op : {"grant", "deny"}, key : Requests]

TypeOK ==
    /\ today \in Nat
    /\ hired \in Int
    /\ pass \in Period
    /\ suspensions \in [Suspensions -> Period \union {Absent}]
    /\ prolongations \in [Prolongations -> Prolongation \union {Absent}]
    /\ requests \in [Requests -> Request \union {Absent}]
    /\ session \in [Sessions -> Session]
    /\ overwritten \in BOOLEAN

(* A first acceptance has delivered the approval.                          *)
Init ==
    /\ today = 0
    /\ hired \in 0 .. MaxPostpone
    /\ pass = Dates(hired)
    /\ suspensions = [s \in Suspensions |-> Absent]
    /\ prolongations = [p \in Prolongations |-> Absent]
    /\ requests = [r \in Requests |-> Absent]
    /\ session = [w \in Sessions |-> Idle]
    /\ overwritten = FALSE
-----------------------------------------------------------------------------
(* The constraints of the tables.                                          *)

Overlaps(p, q) == p.start <= q.end /\ q.start <= p.end
FreeOfSuspension(row, key) ==
    /\ row.start <= row.end
    /\ row.start <= today
    /\ \A s \in Exist(suspensions) \ {key} : ~Overlaps(row, suspensions[s])

(* The upper bound of a prolongation is excluded.                          *)
FreeOfProlongation(row) ==
    /\ row.start <= row.end
    /\ \A p \in Exist(prolongations) :
          /\ row.start < prolongations[p].end => prolongations[p].start >= row.end
          /\ row.request # NoKey => prolongations[p].request # row.request

(* The triggers: update_approval_end_at of the suspensions, then of the    *)
(* prolongations.                                                          *)
Shifted(dates, days) == [dates EXCEPT !.end = @ + days]
DaysOf(row) == IF row = Absent THEN 0 ELSE Duration(row)
(* Mutant: the trigger forgets to take back the days of the former row.    *)
WrittenOnce(dates, old, new) == Shifted(dates, IF new = Absent THEN -DaysOf(old) ELSE DaysOf(new))

Written(dates, old, new) == Shifted(dates, DaysOf(new) - DaysOf(old))
-----------------------------------------------------------------------------
(* Suspensions.                                                            *)

(* The first day a suspension may start: after the last that is over, or   *)
(* with the last hiring.                                                   *)
NextMinStart(key) ==
    LET old == {s \in Exist(suspensions) \ {key} : suspensions[s].end < today}
    IN  IF old = {} THEN hired
        ELSE Max({suspensions[s].end : s \in old}) + 1

(* Suspension.clean() and SuspensionForm.                                  *)
ValidSuspension(row, key) ==
    /\ row.start <= row.end
    /\ row.end <= row.start + MaxSuspension - 1
    /\ pass.start <= row.start /\ row.start <= pass.end
    /\ row.start >= NextMinStart(key)
    /\ FreeOfSuspension(row, key)

CanBeSuspended == InProgress(pass) /\ SuspensionsInProgress = {}

SuspensionRows == {[start |-> i, end |-> i + n] : i \in 0 .. today, n \in 0 .. MaxSuspension}

BeginSuspend(w) ==
    /\ session[w] = Idle
    /\ CanBeSuspended
    /\ \E row \in SuspensionRows :
          /\ ValidSuspension(row, NoKey)
          /\ session' = [session EXCEPT ![w] = [op |-> "suspend", row |-> row]]
    /\ UNCHANGED <<today, hired, pass, rows, overwritten>>

CommitSuspend(w) ==
    /\ session[w].op = "suspend"
    /\ LET row == session[w].row
       IN  /\ FreeOfSuspension(row, NoKey)
           /\ \E s \in Suspensions \ Exist(suspensions) :
                 suspensions' = [suspensions EXCEPT ![s] = row]
           /\ pass' = Written(pass, Absent, row)
    /\ session' = [session EXCEPT ![w] = Idle]
    /\ UNCHANGED <<today, hired, prolongations, requests, overwritten>>

(* Only a suspension in progress can be changed: by its form, or by the    *)
(* form that only asks the first day back to work.                         *)
BeginUpdate(w) ==
    /\ session[w] = Idle
    /\ \E s \in SuspensionsInProgress, row \in SuspensionRows :
          /\ \/ ValidSuspension(row, s)
             \/ /\ row.start = suspensions[s].start
                /\ row.start <= row.end /\ row.end + 1 < suspensions[s].end
          /\ session' = [session EXCEPT ![w] = [op |-> "update", key |-> s, row |-> row]]
    /\ UNCHANGED <<today, hired, pass, rows, overwritten>>

(* Model.save() updates all the columns, and inserts the row again when it *)
(* has been deleted since.                                                 *)
SaveSuspension(s, row, dates) ==
    /\ FreeOfSuspension(row, s)
    /\ suspensions' = [suspensions EXCEPT ![s] = row]
    /\ pass' = Written(dates, suspensions[s], row)

CommitUpdate(w) ==
    /\ session[w].op = "update"
    /\ SaveSuspension(session[w].key, session[w].row, pass)
    /\ session' = [session EXCEPT ![w] = Idle]
    /\ UNCHANGED <<today, hired, prolongations, requests, overwritten>>

BeginDelete(w) ==
    /\ session[w] = Idle
    /\ \E s \in SuspensionsInProgress :
          session' = [session EXCEPT ![w] = [op |-> "delete", key |-> s]]
    /\ UNCHANGED <<today, hired, pass, rows, overwritten>>

(* Deleting a row that is gone does nothing, and calls no trigger.         *)
DropSuspension(s, dates) ==
    /\ suspensions' = [suspensions EXCEPT ![s] = Absent]
    /\ pass' = Written(dates, suspensions[s], Absent)

CommitDelete(w) ==
    /\ session[w].op = "delete"
    /\ DropSuspension(session[w].key, pass)
    /\ session' = [session EXCEPT ![w] = Idle]
    /\ UNCHANGED <<today, hired, prolongations, requests, overwritten>>
-----------------------------------------------------------------------------
(* Hirings.                                                                *)

(* Mutant: the guard of update_start_date() is lost.                       *)
CanAlwaysPostpone == pass.start + DefaultDays > today

CanPostponeStartDate == pass.start > today

IsValid == InProgress(pass) \/ pass.start >= today

(* accept() reuses the valid approval: it brings its start forward to the  *)
(* hiring, and lifts the suspension in progress: all the reasons that can  *)
(* still be chosen allow it.                                               *)
BeginAccept(w) ==
    /\ session[w] = Idle
    /\ IsValid
    /\ \E h \in today .. today + MaxPostpone :
       \E s \in SuspensionsInProgress \union {NoKey} :
          /\ s = NoKey => SuspensionsInProgress = {}
          /\ session' = [session EXCEPT ![w] =
                [op |-> "accept", hired |-> h,
                 moves |-> IF pass.start > h /\ CanPostponeStartDate THEN pass ELSE Absent,
                 lifts |-> s,
                 until |-> IF s = NoKey \/ suspensions[s].start = h THEN Absent
                           ELSE [suspensions[s] EXCEPT !.end = h - 1]]]
    /\ UNCHANGED <<today, hired, pass, rows, overwritten>>

(* update_start_date() saves the whole row, with the default end.          *)
SavedDates(tx) == IF tx.moves # Absent THEN Dates(tx.hired) ELSE pass
LostUpdate(tx) == tx.moves # Absent /\ tx.moves # pass

CommitAccept(w) ==
    /\ session[w].op = "accept"
    /\ LET tx == session[w]
       IN  /\ hired' = tx.hired
           /\ overwritten' = (overwritten \/ LostUpdate(tx))
           /\ \/ /\ tx.lifts = NoKey
                 /\ pass' = SavedDates(tx)
                 /\ UNCHANGED suspensions
              \/ /\ tx.lifts # NoKey /\ tx.until = Absent
                 /\ DropSuspension(tx.lifts, SavedDates(tx))
              \/ /\ tx.lifts # NoKey /\ tx.until # Absent
                 /\ SaveSuspension(tx.lifts, tx.until, SavedDates(tx))
    /\ session' = [session EXCEPT ![w] = Idle]
    /\ UNCHANGED <<today, prolongations, requests>>

(* The employer changes the dates of the contract.                         *)
BeginEdit(w) ==
    /\ session[w] = Idle
    /\ \E h \in today .. today + MaxPostpone :
          /\ CanPostponeStartDate \/ h < pass.end
          /\ session' = [session EXCEPT ![w] =
                [op |-> "edit", hired |-> h,
                 moves |-> IF CanPostponeStartDate THEN pass ELSE Absent]]
    /\ UNCHANGED <<today, hired, pass, rows, overwritten>>

CommitEdit(w) ==
    /\ session[w].op = "edit"
    /\ LET tx == session[w]
       IN  /\ hired' = tx.hired
           /\ pass' = SavedDates(tx)
           /\ overwritten' = (overwritten \/ LostUpdate(tx))
    /\ session' = [session EXCEPT ![w] = Idle]
    /\ UNCHANGED <<today, rows>>
-----------------------------------------------------------------------------
(* Prolongations.                                                          *)

(* Mutant: only the upper bound is checked.                                *)
OpenAnyTime == today <= pass.end

OpenToProlongation == pass.end - OpenDays <= today /\ today <= pass.end

CanBeProlonged ==
    /\ OpenToProlongation
    /\ SuspensionsInProgress = {}
    /\ PendingRequests = {}

Used(reason) ==
    LET same == {p \in Exist(prolongations) : prolongations[p].reason = reason}
    IN  MapThenSumSet(LAMBDA p : Duration(prolongations[p]), same)

(* The form declares a prolongation, or asks for one.                      *)
BeginProlong(w) ==
    /\ session[w] = Idle
    /\ CanBeProlonged
    /\ \E reason \in Reasons, n \in 1 .. Horizon :
          /\ n <= MaxEach[reason]
          /\ n <= MaxCumulative[reason] - Used(reason)
          /\ session' = [session EXCEPT ![w] =
                IF reason \in Direct
                THEN [op |-> "prolong",
                      row |-> [start |-> pass.end, end |-> pass.end + n, reason |-> reason,
                               request |-> NoKey]]
                ELSE [op |-> "request",
                      row |-> [start |-> pass.end, end |-> pass.end + n, reason |-> reason,
                               status |-> "PENDING", information |-> FALSE]]]
    /\ UNCHANGED <<today, hired, pass, rows, overwritten>>

InsertProlongation(row) ==
    /\ FreeOfProlongation(row)
    /\ \E p \in Prolongations \ Exist(prolongations) :
          prolongations' = [prolongations EXCEPT ![p] = row]
    /\ pass' = Written(pass, Absent, row)

CommitProlong(w) ==
    /\ session[w].op = "prolong"
    /\ InsertProlongation(session[w].row)
    /\ session' = [session EXCEPT ![w] = Idle]
    /\ UNCHANGED <<today, hired, suspensions, requests, overwritten>>

(* An approval has one pending request.                                    *)
CommitRequest(w) ==
    /\ session[w].op = "request"
    /\ PendingRequests = {}
    /\ \E r \in Requests \ Exist(requests) :
          requests' = [requests EXCEPT ![r] = session[w].row]
    /\ session' = [session EXCEPT ![w] = Idle]
    /\ UNCHANGED <<today, hired, pass, suspensions, prolongations, overwritten>>

(* Neither view looks at the status of the request.                        *)
BeginAnswer(w) ==
    /\ session[w] = Idle
    /\ \E r \in Exist(requests), answer \in {"grant", "deny"} :
          session' = [session EXCEPT ![w] = [op |-> answer, key |-> r]]
    /\ UNCHANGED <<today, hired, pass, rows, overwritten>>

(* Mutant: the prolongation forgets the request it comes from.             *)
FromRequestUnlinked(r) ==
    [start |-> requests[r].start, end |-> requests[r].end, reason |-> requests[r].reason,
     request |-> NoKey]

FromRequest(r) ==
    [start |-> requests[r].start, end |-> requests[r].end, reason |-> requests[r].reason,
     request |-> r]

CommitGrant(w) ==
    /\ session[w].op = "grant"
    /\ LET r == session[w].key
       IN  /\ InsertProlongation(FromRequest(r))
           /\ requests' = [requests EXCEPT ![r].status = "GRANTED"]
    /\ session' = [session EXCEPT ![w] = Idle]
    /\ UNCHANGED <<today, hired, suspensions, overwritten>>

(* Mutant: a status the table does not know.                               *)
AnsweredUnknown(r) == [requests EXCEPT ![r].status = "REFUSED", ![r].information = TRUE]

Denied(r) == [requests EXCEPT ![r].status = "DENIED", ![r].information = TRUE]

(* The information of a refusal is unique for its request.                 *)
CommitDeny(w) ==
    /\ session[w].op = "deny"
    /\ LET r == session[w].key
       IN  /\ ~requests[r].information
           /\ requests' = Denied(r)
    /\ session' = [session EXCEPT ![w] = Idle]
    /\ UNCHANGED <<today, hired, pass, suspensions, prolongations, overwritten>>
-----------------------------------------------------------------------------
(* A constraint refuses a statement, or the request fails.                 *)
Rollback(w) ==
    /\ session[w] # Idle
    /\ session' = [session EXCEPT ![w] = Idle]
    /\ UNCHANGED <<today, hired, pass, rows, overwritten>>

Tick ==
    /\ today < Horizon
    /\ \A w \in Sessions : session[w] = Idle
    /\ today' = today + 1
    /\ UNCHANGED <<hired, pass, rows, session, overwritten>>

Next ==
    \/ Tick
    \/ \E w \in Sessions :
          \/ BeginSuspend(w) \/ CommitSuspend(w)
          \/ BeginUpdate(w) \/ CommitUpdate(w)
          \/ BeginDelete(w) \/ CommitDelete(w)
          \/ BeginAccept(w) \/ CommitAccept(w)
          \/ BeginEdit(w) \/ CommitEdit(w)
          \/ BeginProlong(w) \/ CommitProlong(w) \/ CommitRequest(w)
          \/ BeginAnswer(w) \/ CommitGrant(w) \/ CommitDeny(w)
          \/ Rollback(w)

Spec == Init /\ [][Next]_vars
-----------------------------------------------------------------------------
Total(table) == MapThenSumSet(LAMBDA k : Duration(table[k]), Exist(table))

(* The end of the approval is the default one, pushed back by what its     *)
(* suspensions and prolongations last: whatever the requests that insert,  *)
(* change, delete or insert again their rows, the triggers leave no day    *)
(* behind (docstrings of Suspension and CommonProlongation).               *)
Balance ==
    ~overwritten =>
        pass.end = DefaultEnd(pass.start) + Total(suspensions) + Total(prolongations)

Bare == Exist(suspensions) = {} /\ Exist(prolongations) = {} /\ Exist(requests) = {}

(* An approval that has not started has nothing that would be lost when    *)
(* postponing it resets its end (update_start_date).                       *)
UnstartedIsBare == (~overwritten /\ pass.start > today) => Bare

(* The start of an approval that has begun does not move ("only approvals  *)
(* which are not started yet can be postponed").                           *)
StartIsKept ==
    [][(pass.start <= today /\ ~overwritten') => pass'.start = pass.start]_vars

(* What was answered is what was written: a granted request has its        *)
(* prolongation, a denied one its information, a pending one neither       *)
(* (ProlongationRequest.grant and deny save two rows each).                *)
Decided ==
    \A r \in Exist(requests) :
        LET granted == \E p \in Exist(prolongations) : prolongations[p].request = r
        IN  CASE requests[r].status = "GRANTED" -> granted
              [] requests[r].status = "DENIED" -> requests[r].information
              [] requests[r].status = "PENDING" -> ~granted /\ ~requests[r].information

(* A prolongation does not eat into the default duration of the approval:  *)
(* it begins at or after its end, however often the suspensions that had   *)
(* pushed the end change while it is decided (CommonProlongation.clean).   *)
ProlongedAfterDefault ==
    ~overwritten =>
        \A p \in Exist(prolongations) : prolongations[p].start >= DefaultEnd(pass.start)
=============================================================================
