----------------------- MODULE PoleEmploiNotices_proofs -----------------------
(***************************************************************************)
(* Proofs about PoleEmploiNotices: the types and the size of the batches,  *)
(* and what a notification that succeeded has told.                        *)
(***************************************************************************)
EXTENDS PoleEmploiNotices, SequenceTheorems, FiniteSetTheorems, TLAPS

(* Of a finite set of passes, the one that starts last.                    *)
LEMMA LastStart ==
  ASSUME NEW ps \in SUBSET Passes, NEW first \in SUBSET ps, first # {}
  PROVE  \E p \in first : \A q \in first \ {p} : Rank[q] > Rank[p]
<1>1. IsFiniteSet(ps)
  BY NoticesAssumption, FS_Subset
<1> DEFINE Rest(p) == ps \ Above(p, ps)
           T == {Rest(p) : p \in first}
<1>2. T \subseteq FiniteSubsetsOf(ps) /\ T # {}
  <2>1. T \subseteq SUBSET ps
    OBVIOUS
  <2>2. PICK p \in first : TRUE
    OBVIOUS
  <2>3. Rest(p) \in T
    BY <2>2
  <2> QED
    BY <1>1, <2>1, <2>3, FS_FiniteSubsetsOfFinite
<1>3. IsWellFoundedOn(StrictSubsetOrdering(ps), FiniteSubsetsOf(ps))
  BY FS_StrictSubsetOrderingWellFounded
<1>4. PICK x \in T : \A y \in T : <<y, x>> \notin StrictSubsetOrdering(ps)
  <2> HIDE DEF T
  <2> QED  BY <1>2, <1>3, WFMin
<1>5. PICK p \in first : x = Rest(p)
  OBVIOUS
<1> SUFFICES ASSUME NEW q \in first \ {p}, ~(Rank[q] > Rank[p]) PROVE FALSE
  OBVIOUS
<1>6. Rank[q] < Rank[p]
  BY NoticesAssumption
<1>7. Rest(q) \subseteq Rest(p)
  BY <1>6, NoticesAssumption DEF Above
<1>8. p \in Rest(p) /\ p \notin Rest(q)
  BY <1>6, NoticesAssumption DEF Above
<1>9. <<Rest(q), Rest(p)>> \in StrictSubsetOrdering(ps)
  BY <1>7, <1>8 DEF StrictSubsetOrdering
<1> QED
  BY <1>4, <1>5, <1>9

(* A batch fits in the room it was given.                                  *)
LEMMA BatchFits ==
  ASSUME NEW ps \in SUBSET Passes, NEW room \in Nat
  PROVE  Cardinality(First(ps, room)) \in 0 .. room
<1> DEFINE first == First(ps, room)
<1>1. IsFiniteSet(ps) /\ IsFiniteSet(first)
  BY NoticesAssumption, FS_Subset DEF First
<1>2. Cardinality(first) \in Nat
  BY <1>1, FS_CardinalityType
<1>3. CASE first = {}
  BY <1>3, FS_EmptySet
<1>4. CASE first # {}
  <2>1. PICK p \in first : \A q \in first \ {p} : Rank[q] > Rank[p]
    BY <1>4, LastStart DEF First
  <2>2. first \ {p} \subseteq Above(p, ps)
    BY <2>1 DEF First, Above
  <2>3. IsFiniteSet(Above(p, ps))
    BY <1>1, FS_Subset DEF Above
  <2>4. Cardinality(first \ {p}) <= Cardinality(Above(p, ps))
    BY <2>2, <2>3, FS_Subset
  <2>5. Cardinality(first \ {p}) = Cardinality(first) - 1
    BY <1>1, <2>1, FS_RemoveElement
  <2>6. Cardinality(Above(p, ps)) < room /\ Cardinality(Above(p, ps)) \in Nat
    BY <2>1, <2>3, FS_CardinalityType DEF First
  <2> QED
    BY <1>2, <2>4, <2>5, <2>6
<1> QED
  BY <1>3, <1>4

(* What a run loads: passes it was to send, with the dates they had.       *)
LEMMA LoadedItems ==
  ASSUME NEW ps \in SUBSET Passes, NEW room \in Nat,
         NEW version \in [Passes -> 1 .. Cancelled], NEW found \in [Passes -> BOOLEAN],
         NEW batch \in Batches(ps, room)
  PROVE  /\ Items(batch, version, found) \in Seq(Item)
         /\ Len(batch) \in 0 .. room
         /\ \A i \in DOMAIN Items(batch, version, found) :
               /\ Items(batch, version, found)[i].pass \in ps
               /\ Items(batch, version, found)[i].dates =
                     version[Items(batch, version, found)[i].pass]
<1> DEFINE n == Cardinality(First(ps, room))
           items == Items(batch, version, found)
           item(i) == [pass |-> batch[i], dates |-> version[batch[i]],
                       identified |-> found[batch[i]]]
<1>1. n \in 0 .. room
  BY BatchFits
<1>2. batch \in [1 .. n -> First(ps, room)] /\ First(ps, room) \subseteq ps
  BY DEF Batches, First
<1>3. batch \in Seq(Passes) /\ Len(batch) = n
  BY <1>1, <1>2
<1>4. items = [i \in 1 .. n |-> item(i)]
  BY <1>2 DEF Items
<1>5. \A i \in 1 .. n : batch[i] \in ps /\ batch[i] \in Passes
  BY <1>2
<1>6. \A i \in 1 .. n : item(i) \in Item
  BY <1>5 DEF Item
<1>7. items \in [1 .. n -> Item]
  BY <1>4, <1>6
<1>8. items \in Seq(Item)
  BY <1>1, <1>7
<1>9. ASSUME NEW i \in DOMAIN items
      PROVE  items[i].pass \in ps /\ items[i].dates = version[items[i].pass]
  BY <1>4, <1>5
<1> QED
  BY <1>1, <1>3, <1>8, <1>9
-----------------------------------------------------------------------------
ApprovalRow == [status : Status]

(* No row looks like the absence of a row.                                 *)
LEMMA AbsentIsNoRow == Absent \notin ApprovalRow \union CancelledRow
  BY DEF Absent, ApprovalRow, CancelledRow

(* What starting a run does to a row: it is never a success by then.       *)
LEMMA ReadyRows ==
  ASSUME NEW p \in Passes, NEW known \in BOOLEAN
  PROVE  /\ \A row \in ApprovalRow :
               /\ Ready(p, Healed(p, row), known) \in ApprovalRow
               /\ Ready(p, Healed(p, row), known).status = "SUCCESS" => row.status = "SUCCESS"
         /\ \A row \in CancelledRow :
               /\ Ready(p, row, known) \in CancelledRow
               /\ Ready(p, row, known).status = "SUCCESS" => row.status = "SUCCESS"
<1>1. ASSUME NEW row \in ApprovalRow
      PROVE  /\ Healed(p, row) \in ApprovalRow
             /\ Healed(p, row).status = "SUCCESS" => row.status = "SUCCESS"
  BY DEF Healed, ApprovalRow, Status
<1>2. ASSUME NEW row \in ApprovalRow
      PROVE  /\ Ready(p, row, known) \in ApprovalRow
             /\ Ready(p, row, known).status = "SUCCESS" => row.status = "SUCCESS"
  BY DEF Ready, ApprovalRow, Status
<1>3. ASSUME NEW row \in CancelledRow
      PROVE  /\ Ready(p, row, known) \in CancelledRow
             /\ Ready(p, row, known).status = "SUCCESS" => row.status = "SUCCESS"
  BY DEF Ready, CancelledRow, Status
<1> QED
  BY <1>1, <1>2, <1>3

LEMMA HeadAndTail ==
  ASSUME NEW S, NEW s \in Seq(S), s # <<>>
  PROVE  /\ Head(s) \in S /\ Tail(s) \in Seq(S)
         /\ 1 \in DOMAIN s /\ Head(s) = s[1]
         /\ \A i \in DOMAIN Tail(s) : \E j \in DOMAIN s : Tail(s)[i] = s[j]
<1>1. Head(s) \in S /\ Tail(s) \in Seq(S)
  BY HeadTailProperties
<1>2. Len(s) \in Nat \ {0} /\ DOMAIN s = 1 .. Len(s)
  BY EmptySeq, LenProperties
<1>3. Head(s) = s[1]
  OBVIOUS
<1>4. Len(Tail(s)) = Len(s) - 1 /\ DOMAIN Tail(s) = 1 .. Len(Tail(s))
  BY <1>1, <1>2, LenProperties
<1>5. ASSUME NEW i \in DOMAIN Tail(s) PROVE i + 1 \in DOMAIN s /\ Tail(s)[i] = s[i + 1]
  BY <1>2, <1>4
<1> QED
  BY <1>1, <1>2, <1>3, <1>5

(* What a run holds: an answer is for the first pass of its batch; the     *)
(* cancelled passes it loaded remain cancelled.                            *)
RunOK(r) ==
    /\ runs[r].answer # "none" =>
          runs[r].batch # <<>> /\ runs[r].at \in {"approvals", "cancelled"}
    /\ runs[r].at = "cancelled" =>
          \A i \in DOMAIN runs[r].batch :
             runs[r].batch[i].pass \in Gone /\ runs[r].batch[i].dates = Cancelled

TypeInv ==
    /\ TypeOK
    /\ \A r \in Runs : RunOK(r)
    /\ Existing \intersect Gone = {}

LEMMA RunFields ==
  ASSUME TypeInv, NEW r \in Runs
  PROVE  /\ runs[r] \in Run
         /\ runs[r].batch \in Seq(Item)
         /\ runs[r].left \in 0 .. BatchSize
         /\ runs[r].answer \in Status \union {"none"}
         /\ runs[r].batch # <<>> =>
               /\ Head(runs[r].batch) \in Item
               /\ Head(runs[r].batch).pass \in Passes
               /\ Head(runs[r].batch).dates \in 1 .. Cancelled
         /\ runs[r].batch # <<>> /\ runs[r].at = "cancelled" =>
               Head(runs[r].batch).pass \in Gone /\ Head(runs[r].batch).dates = Cancelled
<1>1. runs[r] \in Run
  BY DEF TypeInv, TypeOK
<1>2. /\ runs[r].batch \in Seq(Item) /\ runs[r].left \in 0 .. BatchSize
      /\ runs[r].answer \in Status \union {"none"}
  BY <1>1 DEF Run
<1>3. ASSUME runs[r].batch # <<>>
      PROVE  /\ Head(runs[r].batch) \in Item
             /\ 1 \in DOMAIN runs[r].batch /\ Head(runs[r].batch) = runs[r].batch[1]
  BY <1>2, <1>3, HeadAndTail
<1>4. \A item \in Item : item.pass \in Passes /\ item.dates \in 1 .. Cancelled
  BY DEF Item
<1> QED
  BY <1>1, <1>2, <1>3, <1>4 DEF TypeInv, RunOK

(* The rows of the passes.                                                 *)
LEMMA RowFields ==
  ASSUME TypeInv
  PROVE  /\ \A p \in Existing : p \in Passes /\ approvals[p] \in ApprovalRow /\ p \notin Gone
         /\ \A p \in Gone : p \in Passes /\ cancelled[p] \in CancelledRow /\ p \notin Existing
  BY DEF TypeInv, TypeOK, Existing, Gone, ApprovalRow
-----------------------------------------------------------------------------
LEMMA SameRuns ==
  ASSUME TypeInv, UNCHANGED runs, Gone \subseteq Gone'
  PROVE  \A r \in Runs : RunOK(r)'
  BY DEF TypeInv, RunOK

LEMMA OneRun ==
  ASSUME TypeInv, NEW r \in Runs, NEW run \in Run, runs' = [runs EXCEPT ![r] = run],
         Gone \subseteq Gone',
         run.answer # "none" => run.batch # <<>> /\ run.at \in {"approvals", "cancelled"},
         run.at = "cancelled" =>
             \A i \in DOMAIN run.batch :
                run.batch[i].pass \in Gone' /\ run.batch[i].dates = Cancelled
  PROVE  runs' \in [Runs -> Run] /\ \A q \in Runs : RunOK(q)'
<1>1. runs \in [Runs -> Run]
  BY DEF TypeInv, TypeOK
<1>2. ASSUME NEW q \in Runs PROVE RunOK(q)'
  <2>1. CASE q = r
    BY <1>1, <2>1 DEF RunOK
  <2>2. CASE q # r
    BY <1>1, <2>2 DEF TypeInv, RunOK
  <2> QED  BY <2>1, <2>2
<1> QED
  BY <1>1, <1>2

OffRun == [IdleRun EXCEPT !.at = "off"]

LEMMA IdleRunType ==
  /\ IdleRun \in Run /\ IdleRun.answer = "none" /\ IdleRun.at = "idle" /\ IdleRun.batch = <<>>
  /\ OffRun \in Run /\ OffRun.answer = "none" /\ OffRun.at = "off" /\ OffRun.batch = <<>>
<1>1. /\ IdleRun \in Run /\ IdleRun.answer = "none" /\ IdleRun.at = "idle"
      /\ IdleRun.batch = <<>>
  BY NoticesAssumption, EmptySeq DEF IdleRun, Run
<1> QED
  BY <1>1 DEF OffRun, Run

(* At the beginning no run has started.                                    *)
LEMMA InitialRuns ==
  ASSUME Init
  PROVE  /\ runs \in [Runs -> Run] /\ kills \in 0 .. MaxKills
         /\ approvals \in [Passes -> ApprovalRow \union {Absent}]
         /\ \A p \in Existing : approvals[p].status = "PENDING"
         /\ \A r \in Runs : /\ runs[r].at \in {"off", "idle"}
                            /\ runs[r].answer = "none" /\ runs[r].batch = <<>>
<1>1. PICK start \in Starts :
         /\ approvals = [p \in Passes |->
                            IF p \in start.passes THEN [status |-> "PENDING"] ELSE Absent]
         /\ runs = [r \in Runs |-> IF r \in start.runs THEN IdleRun ELSE OffRun]
         /\ kills = start.kills
  BY DEF Init, OffRun
<1>3. kills \in 0 .. MaxKills
  BY <1>1, NoticesAssumption
<1>4. [status |-> "PENDING"] \in ApprovalRow
  BY DEF ApprovalRow, Status
<1> QED
  BY <1>1, <1>3, <1>4, IdleRunType DEF Existing

(* The rest of the site.                                                   *)
LEMMA SiteType ==
  ASSUME TypeInv, NEW p \in Passes,
         ChangeDates(p) \/ Cancel(p) \/ Complete(p) \/ Certify(p)
         \/ ParisReaches(p) \/ UTCReaches(p)
  PROVE  TypeInv'
<1> USE DEF TypeOK
<1>1. TypeOK /\ UNCHANGED runs
  BY DEF TypeInv, ChangeDates, Cancel, Complete, Certify, ParisReaches, UTCReaches
<1>2. CASE ChangeDates(p)
  <2>1. p \in Existing /\ approvals[p] \in ApprovalRow
    BY <1>2, RowFields DEF ChangeDates
  <2>2. Planned(approvals[p]) \in ApprovalRow
    BY <2>1 DEF Planned, ApprovalRow, Status
  <2>3. /\ approvals' = [approvals EXCEPT ![p] = Planned(approvals[p])]
        /\ dates' = [dates EXCEPT ![p] = dates[p] + 1]
        /\ dates[p] < MaxVersion /\ UNCHANGED cancelled
    BY <1>2 DEF ChangeDates
  <2>4. dates' \in [Passes -> 1 .. MaxVersion]
    BY <1>1, <2>3, NoticesAssumption
  <2>5. approvals' \in [Passes -> [status : Status] \union {Absent}]
    BY <1>1, <2>2, <2>3 DEF ApprovalRow
  <2>6. raced' \in SUBSET Passes
    BY <1>1, <1>2 DEF ChangeDates
  <2>7. Existing' = Existing /\ Gone' = Gone
    BY <1>1, <2>1, <2>2, <2>3, AbsentIsNoRow DEF Existing, Gone
  <2> QED
    BY <1>1, <1>2, <2>4, <2>5, <2>6, <2>7, SameRuns DEF ChangeDates, TypeInv
<1>3. CASE Cancel(p)
  <2> DEFINE row == [status |-> "PENDING", complete |-> complete[p], identified |-> identified[p]]
  <2>1. row \in CancelledRow /\ row # Absent
    BY <1>1, AbsentIsNoRow DEF CancelledRow, Status
  <2>2. approvals' = [approvals EXCEPT ![p] = Absent] /\ cancelled' = [cancelled EXCEPT ![p] = row]
    BY <1>3 DEF Cancel
  <2>3. Existing' = Existing \ {p} /\ Gone' = Gone \union {p}
    BY <1>1, <2>1, <2>2 DEF Existing, Gone
  <2>4. /\ approvals' \in [Passes -> [status : Status] \union {Absent}]
        /\ cancelled' \in [Passes -> CancelledRow \union {Absent}]
    BY <1>1, <2>1, <2>2
  <2>5. Existing' \intersect Gone' = {}
    BY <2>3 DEF TypeInv
  <2>6. \A r \in Runs : RunOK(r)'
    BY <1>1, <2>3, SameRuns
  <2> QED
    BY <1>1, <1>3, <2>4, <2>5, <2>6 DEF Cancel, TypeInv
<1>4. CASE Complete(p) \/ Certify(p) \/ ParisReaches(p) \/ UTCReaches(p)
  <2>1. TypeOK' /\ UNCHANGED <<approvals, cancelled>>
    BY <1>1, <1>4 DEF Complete, Certify, ParisReaches, UTCReaches
  <2> QED
    BY <1>1, <2>1, SameRuns DEF TypeInv, Existing, Gone
<1> QED
  BY <1>2, <1>3, <1>4

(* The start of a run, and the loading of its batches.                     *)
LEMMA StartType ==
  ASSUME TypeInv, NEW r \in Runs, Start(r)
  PROVE  /\ TypeInv' /\ Existing' = Existing /\ Gone' = Gone
         /\ \A p \in Existing : approvals'[p].status = "SUCCESS" => approvals[p].status = "SUCCESS"
         /\ \A p \in Gone : cancelled'[p].status = "SUCCESS" => cancelled[p].status = "SUCCESS"
<1>1. TypeOK
  BY DEF TypeInv
<1>2. complete \in [Passes -> BOOLEAN]
  BY <1>1 DEF TypeOK
<1>3. ASSUME NEW p \in Existing
      PROVE  /\ approvals'[p] \in ApprovalRow
             /\ approvals'[p].status = "SUCCESS" => approvals[p].status = "SUCCESS"
  BY <1>2, RowFields, ReadyRows DEF Start
<1>4. ASSUME NEW p \in Gone
      PROVE  /\ cancelled'[p] \in CancelledRow
             /\ cancelled'[p].status = "SUCCESS" => cancelled[p].status = "SUCCESS"
  <2>1. cancelled[p].complete \in BOOLEAN
    BY RowFields DEF CancelledRow
  <2>2. cancelled'[p] = Ready(p, cancelled[p], cancelled[p].complete)
    BY RowFields DEF Start
  <2> QED
    BY <2>1, <2>2, RowFields, ReadyRows
<1>5. /\ \A p \in Passes \ Existing : approvals'[p] = Absent
      /\ \A p \in Passes \ Gone : cancelled'[p] = Absent
      /\ DOMAIN approvals' = Passes /\ DOMAIN cancelled' = Passes
  BY DEF Start
<1>6. /\ approvals' \in [Passes -> ApprovalRow \union {Absent}]
      /\ cancelled' \in [Passes -> CancelledRow \union {Absent}]
  <2>1. /\ approvals' = [p \in Passes |-> approvals'[p]]
        /\ cancelled' = [p \in Passes |-> cancelled'[p]]
    BY DEF Start
  <2> QED
    BY <1>3, <1>4, <1>5, <2>1
<1>7. Existing' = Existing /\ Gone' = Gone
  BY <1>3, <1>4, <1>5, AbsentIsNoRow DEF Existing, Gone
<1> DEFINE run == [runs[r] EXCEPT !.at = "ready"]
<1>8. runs[r].answer = "none"
  BY DEF Start, TypeInv, RunOK
<1>9. run \in Run /\ run.at = "ready" /\ run.answer = "none"
  BY <1>8, RunFields DEF Run
<1>10. runs' = [runs EXCEPT ![r] = run]
  BY DEF Start
<1>11. runs' \in [Runs -> Run] /\ \A q \in Runs : RunOK(q)'
  BY <1>7, <1>9, <1>10, OneRun
<1>12. TypeOK'
  BY <1>1, <1>6, <1>11 DEF TypeOK, Start, ApprovalRow
<1> QED
  BY <1>3, <1>4, <1>7, <1>11, <1>12 DEF TypeInv

LEMMA LoadType ==
  ASSUME TypeInv, NEW r \in Runs, Load(r)
  PROVE  /\ TypeInv'
         /\ \A q \in Runs \ {r} : runs'[q] = runs[q]
         /\ runs'[r].at = "approvals" /\ runs'[r].answer = "none"
         /\ \A i \in DOMAIN runs'[r].batch :
               /\ runs'[r].batch[i].pass \in Existing
               /\ runs'[r].batch[i].dates = dates[runs'[r].batch[i].pass]
<1>1. PICK batch \in Batches(ToSend(approvals), BatchSize) :
          runs' = [runs EXCEPT ![r] =
                     [at |-> "approvals", batch |-> Items(batch, dates, NotLoaded),
                      left |-> BatchSize - Len(batch), answer |-> "none"]]
  BY DEF Load
<1> DEFINE run == [at |-> "approvals", batch |-> Items(batch, dates, NotLoaded),
                   left |-> BatchSize - Len(batch), answer |-> "none"]
<1>2. runs' = [runs EXCEPT ![r] = run]
  BY <1>1
<1>3. ToSend(approvals) \subseteq Existing /\ ToSend(approvals) \in SUBSET Passes
  BY DEF ToSend, Existing
<1>4. /\ dates \in [Passes -> 1 .. Cancelled] /\ NotLoaded \in [Passes -> BOOLEAN]
      /\ runs \in [Runs -> Run] /\ TypeOK /\ BatchSize \in Nat
  BY NoticesAssumption DEF TypeInv, TypeOK, Cancelled, NotLoaded
<1>5. /\ Items(batch, dates, NotLoaded) \in Seq(Item) /\ Len(batch) \in 0 .. BatchSize
      /\ \A i \in DOMAIN Items(batch, dates, NotLoaded) :
            /\ Items(batch, dates, NotLoaded)[i].pass \in ToSend(approvals)
            /\ Items(batch, dates, NotLoaded)[i].dates =
                  dates[Items(batch, dates, NotLoaded)[i].pass]
  BY <1>3, <1>4, LoadedItems
<1>6. run \in Run
  BY <1>5, NoticesAssumption DEF Run
<1>7. Gone' = Gone /\ Existing' = Existing
  BY DEF Load, Gone, Existing
<1>8. runs' \in [Runs -> Run] /\ \A q \in Runs : RunOK(q)'
  BY <1>2, <1>6, <1>7, OneRun
<1>9. TypeOK'
  BY <1>4, <1>8 DEF Load, TypeOK
<1>10. runs'[r] = run /\ \A q \in Runs \ {r} : runs'[q] = runs[q]
  BY <1>2, <1>4
<1> QED
  BY <1>3, <1>5, <1>7, <1>8, <1>9, <1>10 DEF TypeInv

LEMMA LoadCancelledType ==
  ASSUME TypeInv, NEW r \in Runs, LoadCancelled(r)
  PROVE  /\ TypeInv'
         /\ \A q \in Runs \ {r} : runs'[q] = runs[q]
         /\ runs'[r].at = "cancelled" /\ runs'[r].answer = "none"
<1>1. PICK batch \in Batches(ToSend(cancelled), runs[r].left) :
          runs' = [runs EXCEPT ![r] =
                     [at |-> "cancelled", batch |-> Items(batch, CancelledDates, CancelledFound),
                      left |-> 0, answer |-> "none"]]
  BY DEF LoadCancelled
<1> DEFINE run == [at |-> "cancelled", batch |-> Items(batch, CancelledDates, CancelledFound),
                   left |-> 0, answer |-> "none"]
<1>2. runs' = [runs EXCEPT ![r] = run]
  BY <1>1
<1>3. ToSend(cancelled) \subseteq Gone /\ ToSend(cancelled) \in SUBSET Passes
  BY DEF ToSend, Gone
<1>3a. CancelledFound \in [Passes -> BOOLEAN]
  BY RowFields DEF CancelledFound, CancelledRow
<1>4. /\ CancelledDates \in [Passes -> 1 .. Cancelled]
      /\ runs \in [Runs -> Run] /\ TypeOK /\ runs[r].left \in Nat
  BY NoticesAssumption, RunFields DEF TypeInv, TypeOK, Cancelled, CancelledDates
<1>5. /\ Items(batch, CancelledDates, CancelledFound) \in Seq(Item)
      /\ \A i \in DOMAIN Items(batch, CancelledDates, CancelledFound) :
            /\ Items(batch, CancelledDates, CancelledFound)[i].pass \in ToSend(cancelled)
            /\ Items(batch, CancelledDates, CancelledFound)[i].dates =
                  CancelledDates[Items(batch, CancelledDates, CancelledFound)[i].pass]
  BY <1>1, <1>3, <1>3a, <1>4, LoadedItems
<1>6. run \in Run
  BY <1>5, NoticesAssumption DEF Run
<1>7. Gone' = Gone /\ Existing' = Existing
  BY DEF LoadCancelled, Gone, Existing
<1>8. \A i \in DOMAIN run.batch : run.batch[i].pass \in Gone /\ run.batch[i].dates = Cancelled
  BY <1>3, <1>5 DEF CancelledDates
<1>9. runs' \in [Runs -> Run] /\ \A q \in Runs : RunOK(q)'
  <2> HIDE DEF run
  <2>1. run.answer = "none"
    BY DEF run
  <2> QED  BY <1>2, <1>6, <1>7, <1>8, <2>1, OneRun
<1>10. TypeOK'
  BY <1>4, <1>9 DEF LoadCancelled, TypeOK
<1>11. runs'[r] = run /\ \A q \in Runs \ {r} : runs'[q] = runs[q]
  BY <1>2, <1>4
<1> QED
  BY <1>7, <1>9, <1>10, <1>11 DEF TypeInv
-----------------------------------------------------------------------------
(* What a call does to the run and to what Pole Emploi was told.           *)
Told(r, answer) ==
    LET item == Head(runs[r].batch)
    IN  /\ runs' = [runs EXCEPT ![r].answer = answer]
        /\ UNCHANGED poleEmploi \/ poleEmploi' = [poleEmploi EXCEPT ![item.pass] = item.dates]
        /\ answer = "SUCCESS" => poleEmploi' = [poleEmploi EXCEPT ![item.pass] = item.dates]

LEMMA CallTells ==
  ASSUME NEW r, NEW answer, Call(r, answer)
  PROVE  Told(r, answer)
<1>1. CASE CallForApproval(r, answer)
  BY <1>1 DEF CallForApproval, Update, NotFound, Answered, Told
<1>2. CASE CallForCancelled(r, answer)
  BY <1>2 DEF CallForCancelled, Update, NotFound, Answered, Told
<1> QED
  BY <1>1, <1>2 DEF Call

(* It tells the dates that the run holds, or nothing.                      *)
LEMMA AnswerEffect ==
  ASSUME TypeInv, NEW r \in Runs, NEW answer \in Answers, runs[r].batch # <<>>,
         Told(r, answer)
  PROVE  /\ poleEmploi' \in [Passes -> Untold .. Cancelled]
         /\ \A p \in Passes :
               \/ poleEmploi'[p] = poleEmploi[p]
               \/ p = Head(runs[r].batch).pass /\ poleEmploi'[p] = Head(runs[r].batch).dates
         /\ answer = "SUCCESS" =>
               poleEmploi'[Head(runs[r].batch).pass] = Head(runs[r].batch).dates
         /\ runs' = [runs EXCEPT ![r] = [runs[r] EXCEPT !.answer = answer]]
<1> DEFINE item == Head(runs[r].batch)
<1>1. /\ poleEmploi \in [Passes -> Untold .. Cancelled]
      /\ item.pass \in Passes /\ item.dates \in Untold .. Cancelled
  BY RunFields, NoticesAssumption DEF TypeInv, TypeOK, Untold, Cancelled
<1>2. /\ UNCHANGED poleEmploi \/ poleEmploi' = [poleEmploi EXCEPT ![item.pass] = item.dates]
      /\ answer = "SUCCESS" => poleEmploi' = [poleEmploi EXCEPT ![item.pass] = item.dates]
  BY DEF Told
<1>3. runs' = [runs EXCEPT ![r] = [runs[r] EXCEPT !.answer = answer]]
  BY DEF Told
<1> HIDE DEF item
<1>4. poleEmploi' \in [Passes -> Untold .. Cancelled]
  BY <1>1, <1>2
<1>5. ASSUME NEW p \in Passes
      PROVE  poleEmploi'[p] = poleEmploi[p] \/ (p = item.pass /\ poleEmploi'[p] = item.dates)
  BY <1>1, <1>2
<1>6. answer = "SUCCESS" => poleEmploi'[item.pass] = item.dates
  BY <1>1, <1>2
<1> QED
  BY <1>3, <1>4, <1>5, <1>6 DEF item

LEMMA CallType ==
  ASSUME TypeInv, NEW r \in Runs, NEW answer \in Answers, Call(r, answer)
  PROVE  /\ TypeInv' /\ Existing' = Existing /\ Gone' = Gone
         /\ runs[r].batch # <<>> /\ runs[r].at \in {"approvals", "cancelled"}
         /\ Told(r, answer)
         /\ UNCHANGED <<dates, approvals, raced, overlap>>
         /\ \A p \in Gone : cancelled'[p].status = cancelled[p].status
         /\ \A q \in Runs \ {r} : runs'[q] = runs[q]
         /\ /\ runs'[r].at = runs[r].at /\ runs'[r].batch = runs[r].batch
            /\ runs'[r].answer = answer
<1> DEFINE p == Head(runs[r].batch).pass
           run == [runs[r] EXCEPT !.answer = answer]
<1>1. /\ runs[r].batch # <<>> /\ runs[r].at \in {"approvals", "cancelled"}
      /\ Told(r, answer)
      /\ UNCHANGED <<dates, started, complete, approvals, kills, raced, overlap>>
  BY CallTells DEF Call, CallForApproval, CallForCancelled, Calling
<1>2. runs' = [runs EXCEPT ![r] = run] /\ poleEmploi' \in [Passes -> Untold .. Cancelled]
  BY <1>1, AnswerEffect
<1>3. /\ p \in Passes /\ runs[r] \in Run /\ runs \in [Runs -> Run] /\ TypeOK
      /\ runs[r].at = "cancelled" => p \in Gone
      /\ answer \in Status
  BY <1>1, RunFields DEF TypeInv, TypeOK, Answers
<1>4. run \in Run /\ run.at = runs[r].at /\ run.batch = runs[r].batch /\ run.answer = answer
  BY <1>3 DEF Run
<1>5. /\ cancelled' \in [Passes -> CancelledRow \union {Absent}]
      /\ Gone' = Gone /\ Existing' = Existing
      /\ \A k \in Gone : cancelled'[k].status = cancelled[k].status
      /\ identified' \in [Passes -> BOOLEAN]
  <2>1. CASE CallForApproval(r, answer)
    <3>1. UNCHANGED cancelled
      BY <2>1 DEF CallForApproval
    <3>2. UNCHANGED identified \/ identified' = [identified EXCEPT ![p] = TRUE]
      BY <2>1 DEF CallForApproval
    <3> QED
      BY <1>1, <1>3, <3>1, <3>2 DEF TypeOK, Gone, Existing
  <2>2. CASE CallForCancelled(r, answer)
    <3> DEFINE row == [cancelled[p] EXCEPT !.identified =
                              @ \/ ~Head(runs[r].batch).identified]
    <3>1. UNCHANGED identified /\ p \in Gone
      BY <1>3, <2>2 DEF CallForCancelled
    <3>2. cancelled[p] \in CancelledRow
      BY <3>1, RowFields
    <3>3. row \in CancelledRow /\ row.status = cancelled[p].status /\ row # Absent
      BY <3>2, AbsentIsNoRow DEF CancelledRow
    <3>4. UNCHANGED cancelled \/ cancelled' = [cancelled EXCEPT ![p] = row]
      BY <2>2 DEF CallForCancelled
    <3>5. cancelled \in [Passes -> CancelledRow \union {Absent}]
      BY <1>3 DEF TypeOK
    <3> HIDE DEF row, p
    <3>6. cancelled' \in [Passes -> CancelledRow \union {Absent}] /\ Gone' = Gone
      BY <1>3, <3>1, <3>3, <3>4, <3>5 DEF Gone
    <3>7. \A k \in Gone : cancelled'[k].status = cancelled[k].status
      BY <3>1, <3>3, <3>4, <3>5 DEF Gone
    <3> QED
      BY <1>1, <1>3, <3>1, <3>6, <3>7 DEF TypeOK, Existing
  <2> QED  BY <2>1, <2>2 DEF Call
<1>6. runs' \in [Runs -> Run] /\ \A q \in Runs : RunOK(q)'
  <2> HIDE DEF run
  <2>1. run.at = "cancelled" => \A i \in DOMAIN run.batch :
            run.batch[i].pass \in Gone' /\ run.batch[i].dates = Cancelled
    BY <1>4, <1>5 DEF TypeInv, RunOK
  <2> QED
    BY <1>1, <1>2, <1>4, <1>5, <2>1, OneRun
<1>7. TypeOK'
  BY <1>1, <1>2, <1>3, <1>5, <1>6 DEF TypeOK
<1>8. runs'[r] = run /\ \A q \in Runs \ {r} : runs'[q] = runs[q]
  BY <1>2, <1>3
<1> QED
  BY <1>1, <1>4, <1>5, <1>6, <1>7, <1>8 DEF TypeInv

(* The answer is written on the row of the pass it is about.               *)
LEMMA NoteType ==
  ASSUME TypeInv, NEW r \in Runs, Note(r)
  PROVE  /\ TypeInv' /\ Existing' = Existing /\ Gone' = Gone
         /\ UNCHANGED <<dates, poleEmploi, raced, overlap>>
         /\ runs[r].batch # <<>>
         /\ \A p \in Existing :
               \/ approvals'[p].status = approvals[p].status
               \/ /\ runs[r].at = "approvals" /\ p = Head(runs[r].batch).pass
                  /\ approvals'[p].status = runs[r].answer
         /\ \A p \in Gone :
               \/ cancelled'[p].status = cancelled[p].status
               \/ /\ runs[r].at = "cancelled" /\ p = Head(runs[r].batch).pass
                  /\ cancelled'[p].status = runs[r].answer
         /\ \A q \in Runs \ {r} : runs'[q] = runs[q]
         /\ /\ runs'[r].at = runs[r].at /\ runs'[r].batch = Tail(runs[r].batch)
            /\ runs'[r].answer = "none"
<1> DEFINE p == Head(runs[r].batch).pass
           run == [runs[r] EXCEPT !.answer = "none", !.batch = Tail(runs[r].batch)]
<1>1. runs[r].batch # <<>> /\ runs[r].at \in {"approvals", "cancelled"}
  BY DEF Note, TypeInv, RunOK
<1>2. /\ p \in Passes /\ runs[r] \in Run /\ runs \in [Runs -> Run] /\ TypeOK
      /\ runs[r].at = "cancelled" => p \in Gone
      /\ runs[r].answer \in Status
  BY <1>1, RunFields DEF TypeInv, TypeOK, Note
<1>3. /\ Tail(runs[r].batch) \in Seq(Item)
      /\ \A i \in DOMAIN Tail(runs[r].batch) :
            \E j \in DOMAIN runs[r].batch : Tail(runs[r].batch)[i] = runs[r].batch[j]
  BY <1>1, RunFields, HeadAndTail
<1>4. /\ run \in Run /\ run.at = runs[r].at /\ run.batch = Tail(runs[r].batch)
      /\ run.answer = "none"
  BY <1>2, <1>3 DEF Run
<1>5. runs' = [runs EXCEPT ![r] = run]
  BY DEF Note
<1>6. /\ approvals' = IF runs[r].at = "approvals" /\ p \in Existing
                      THEN [approvals EXCEPT ![p] = Noted(approvals[p], runs[r].answer)]
                      ELSE approvals
      /\ cancelled' = IF runs[r].at = "cancelled"
                      THEN [cancelled EXCEPT ![p] = Noted(cancelled[p], runs[r].answer)]
                      ELSE cancelled
      /\ UNCHANGED <<dates, started, complete, identified, poleEmploi, kills, raced, overlap>>
  BY DEF Note
<1>7. /\ \A row \in ApprovalRow : /\ Noted(row, runs[r].answer) \in ApprovalRow
                                  /\ Noted(row, runs[r].answer).status = runs[r].answer
      /\ \A row \in CancelledRow : /\ Noted(row, runs[r].answer) \in CancelledRow
                                   /\ Noted(row, runs[r].answer).status = runs[r].answer
  BY <1>2 DEF Noted, ApprovalRow, CancelledRow
<1>8. /\ approvals \in [Passes -> ApprovalRow \union {Absent}]
      /\ cancelled \in [Passes -> CancelledRow \union {Absent}]
  BY <1>2 DEF TypeOK, ApprovalRow
<1>9. /\ approvals' \in [Passes -> ApprovalRow \union {Absent}] /\ Existing' = Existing
      /\ \A k \in Existing :
            \/ approvals'[k].status = approvals[k].status
            \/ runs[r].at = "approvals" /\ k = p /\ approvals'[k].status = runs[r].answer
  <2>1. CASE runs[r].at = "approvals" /\ p \in Existing
    <3> DEFINE row == Noted(approvals[p], runs[r].answer)
    <3>1. row \in ApprovalRow /\ row.status = runs[r].answer /\ row # Absent
      BY <1>7, <2>1, RowFields, AbsentIsNoRow
    <3>2. approvals' = [approvals EXCEPT ![p] = row]
      BY <1>6, <2>1
    <3> HIDE DEF row, p
    <3> QED
      BY <1>2, <1>8, <2>1, <3>1, <3>2 DEF Existing
  <2>2. CASE ~(runs[r].at = "approvals" /\ p \in Existing)
    <3>1. UNCHANGED approvals
      BY <1>6, <2>2
    <3> QED
      BY <1>8, <3>1 DEF Existing
  <2> QED  BY <2>1, <2>2
<1>10. /\ cancelled' \in [Passes -> CancelledRow \union {Absent}] /\ Gone' = Gone
       /\ \A k \in Gone :
            \/ cancelled'[k].status = cancelled[k].status
            \/ runs[r].at = "cancelled" /\ k = p /\ cancelled'[k].status = runs[r].answer
  <2>1. CASE runs[r].at = "cancelled"
    <3> DEFINE row == Noted(cancelled[p], runs[r].answer)
    <3>1. row \in CancelledRow /\ row.status = runs[r].answer /\ row # Absent /\ p \in Gone
      BY <1>2, <1>7, <2>1, RowFields, AbsentIsNoRow
    <3>2. cancelled' = [cancelled EXCEPT ![p] = row]
      BY <1>6, <2>1
    <3> HIDE DEF row, p
    <3> QED
      BY <1>2, <1>8, <2>1, <3>1, <3>2 DEF Gone
  <2>2. CASE runs[r].at # "cancelled"
    <3>1. UNCHANGED cancelled
      BY <1>6, <2>2
    <3> QED
      BY <1>8, <3>1 DEF Gone
  <2> QED  BY <2>1, <2>2
<1>11. runs' \in [Runs -> Run] /\ \A q \in Runs : RunOK(q)'
  <2> HIDE DEF run
  <2>1. run.at = "cancelled" => \A i \in DOMAIN run.batch :
            run.batch[i].pass \in Gone' /\ run.batch[i].dates = Cancelled
    <3> SUFFICES ASSUME run.at = "cancelled", NEW i \in DOMAIN run.batch
                 PROVE  run.batch[i].pass \in Gone' /\ run.batch[i].dates = Cancelled
      OBVIOUS
    <3>1. PICK j \in DOMAIN runs[r].batch : run.batch[i] = runs[r].batch[j]
      BY <1>3, <1>4
    <3> QED
      BY <1>4, <1>10, <3>1 DEF TypeInv, RunOK
  <2> QED
    BY <1>4, <1>5, <1>10, <2>1, OneRun
<1>12. TypeOK'
  BY <1>2, <1>6, <1>9, <1>10, <1>11 DEF TypeOK, ApprovalRow
<1>13. runs'[r] = run /\ \A q \in Runs \ {r} : runs'[q] = runs[q]
  BY <1>2, <1>5
<1> QED
  BY <1>1, <1>4, <1>6, <1>9, <1>10, <1>11, <1>12, <1>13 DEF TypeInv

(* A run that ends, or is killed.                                          *)
LEMMA StopType ==
  ASSUME TypeInv, NEW r \in Runs, End(r) \/ Kill(r)
  PROVE  /\ TypeInv' /\ Existing' = Existing /\ Gone' = Gone
         /\ UNCHANGED <<dates, approvals, cancelled, poleEmploi, raced, overlap>>
         /\ runs' = [runs EXCEPT ![r] = IdleRun]
<1>1. /\ runs' = [runs EXCEPT ![r] = IdleRun] /\ kills' \in 0 .. MaxKills
      /\ UNCHANGED <<dates, started, complete, identified, approvals, cancelled, poleEmploi,
                     raced, overlap>>
  BY NoticesAssumption DEF End, Kill, TypeInv, TypeOK
<1>2. Existing' = Existing /\ Gone' = Gone
  BY <1>1 DEF Existing, Gone
<1>3. runs' \in [Runs -> Run] /\ \A q \in Runs : RunOK(q)'
  BY <1>1, <1>2, IdleRunType, OneRun
<1> QED
  BY <1>1, <1>2, <1>3 DEF TypeInv, TypeOK

LEMMA TypeInvInit ==
  ASSUME Init PROVE TypeInv
<1>1. Gone = {}
  BY DEF Init, Gone
<1>3. /\ dates \in [Passes -> 1 .. MaxVersion]
      /\ poleEmploi \in [Passes -> Untold .. Cancelled]
  BY NoticesAssumption DEF Init, Untold, Cancelled
<1>4. /\ started \in [Passes -> {"no", "paris", "utc"}]
      /\ complete \in [Passes -> BOOLEAN] /\ identified \in [Passes -> BOOLEAN]
      /\ cancelled \in [Passes -> CancelledRow \union {Absent}]
      /\ raced \in SUBSET Passes /\ overlap \in BOOLEAN
  BY DEF Init
<1>6. TypeOK
  BY <1>3, <1>4, InitialRuns DEF TypeOK, ApprovalRow
<1> QED
  BY <1>1, <1>6, InitialRuns DEF TypeInv, RunOK

LEMMA Steps ==
  ASSUME Next
  PROVE  \/ \E p \in Passes : ChangeDates(p) \/ Cancel(p) \/ Complete(p) \/ Certify(p)
                              \/ ParisReaches(p) \/ UTCReaches(p)
         \/ \E r \in Runs : Start(r) \/ Load(r) \/ LoadCancelled(r) \/ Note(r)
                            \/ (End(r) \/ Kill(r)) \/ \E answer \in Answers : Call(r, answer)
  BY DEF Next, Step

LEMMA TypeInvNext ==
  ASSUME TypeInv, [Next]_vars PROVE TypeInv'
<1>1. CASE UNCHANGED vars
  BY <1>1 DEF vars, TypeInv, TypeOK, RunOK, Existing, Gone
<1>2. CASE Next
  BY <1>2, Steps, SiteType, StartType, LoadType, LoadCancelledType, CallType, NoteType, StopType
<1> QED
  BY <1>1, <1>2

(* Whatever the runs that overlap or are killed, every variable keeps its  *)
(* type: in particular a run never holds more than a batch, and the row of *)
(* a cancelled pass is still there when its answer is written.             *)
THEOREM NoticesTypeCorrect == Spec => []TypeOK
<1>1. TypeInv => TypeOK
  BY DEF TypeInv
<1> QED
  BY <1>1, TypeInvInit, TypeInvNext, PTL DEF Spec
-----------------------------------------------------------------------------
(* What a run holds of a pass is current, unless the dates of the pass     *)
(* have changed since a run loaded it.                                     *)
Current(r) ==
    runs[r].at = "approvals" =>
        /\ \A i \in DOMAIN runs[r].batch :
              runs[r].batch[i].pass \in Existing \ raced =>
                  runs[r].batch[i].dates = dates[runs[r].batch[i].pass]
        /\ runs[r].answer = "SUCCESS" /\ Head(runs[r].batch).pass \in Existing \ raced =>
              poleEmploi[Head(runs[r].batch).pass] = dates[Head(runs[r].batch).pass]

SuccessInv == TypeInv /\ SuccessIsCurrent /\ \A r \in Runs : Current(r)

LEMMA HeadIsHeld ==
  ASSUME TypeInv, NEW r \in Runs, runs[r].batch # <<>>
  PROVE  1 \in DOMAIN runs[r].batch /\ Head(runs[r].batch) = runs[r].batch[1]
  BY RunFields, HeadAndTail

LEMMA ChangeDatesEffect ==
  ASSUME TypeInv, NEW p \in Passes, ChangeDates(p)
  PROVE  /\ UNCHANGED <<poleEmploi, runs>> /\ Existing' = Existing
         /\ approvals'[p].status = "PENDING"
         /\ p \in raced' \/ \A r \in Runs : ~Holds(r, p)
         /\ \A k \in Passes \ {p} : /\ dates'[k] = dates[k] /\ approvals'[k] = approvals[k]
                                    /\ k \in raced' => k \in raced
                                    /\ k \in raced => k \in raced'
<1>1. /\ dates \in [Passes -> 1 .. MaxVersion]
      /\ approvals \in [Passes -> ApprovalRow \union {Absent}]
      /\ p \in Existing /\ approvals[p] \in ApprovalRow
  BY RowFields DEF TypeInv, TypeOK, ChangeDates, ApprovalRow
<1>2. Planned(approvals[p]) # Absent /\ Planned(approvals[p]).status = "PENDING"
  <2>1. Planned(approvals[p]) \in ApprovalRow
    BY <1>1 DEF Planned, ApprovalRow, Status
  <2> QED
    BY <1>1, <2>1, AbsentIsNoRow DEF Planned, ApprovalRow
<1>3. /\ approvals' = [approvals EXCEPT ![p] = Planned(approvals[p])]
      /\ dates' = [dates EXCEPT ![p] = dates[p] + 1]
      /\ UNCHANGED <<poleEmploi, runs>>
  BY DEF ChangeDates
<1>4. Existing' = Existing
  BY <1>1, <1>2, <1>3 DEF Existing
<1>5. raced' = IF \E r \in Runs : Holds(r, p) THEN raced \union {p} ELSE raced \ {p}
  BY DEF ChangeDates
<1> QED
  BY <1>1, <1>2, <1>3, <1>4, <1>5

LEMMA SiteCurrent ==
  ASSUME SuccessInv, NEW p \in Passes,
         ChangeDates(p) \/ Cancel(p) \/ Complete(p) \/ Certify(p)
         \/ ParisReaches(p) \/ UTCReaches(p)
  PROVE  SuccessIsCurrent' /\ \A r \in Runs : Current(r)'
<1>1. TypeInv
  BY DEF SuccessInv
<1>2. CASE ChangeDates(p)
  <2>1. SuccessIsCurrent'
    BY <1>1, <1>2, ChangeDatesEffect, RowFields DEF SuccessInv, SuccessIsCurrent
  <2>2. ASSUME NEW r \in Runs, runs[r].at = "approvals", NEW i \in DOMAIN runs[r].batch,
               runs[r].batch[i].pass \in Existing \ raced'
        PROVE  /\ runs[r].batch[i].pass # p /\ runs[r].batch[i].pass \in Existing \ raced
               /\ dates'[runs[r].batch[i].pass] = dates[runs[r].batch[i].pass]
    <3>1. runs[r].batch[i].pass # p
      BY <1>1, <1>2, <2>2, ChangeDatesEffect DEF Holds
    <3> QED
      BY <1>1, <1>2, <2>2, <3>1, ChangeDatesEffect, RowFields
  <2>3. ASSUME NEW r \in Runs PROVE Current(r)'
    <3> SUFFICES ASSUME runs[r].at = "approvals"
                 PROVE  Current(r)'
      BY <1>1, <1>2, ChangeDatesEffect DEF Current
    <3>1. \A i \in DOMAIN runs[r].batch :
              runs[r].batch[i].pass \in Existing \ raced' =>
                  runs[r].batch[i].dates = dates'[runs[r].batch[i].pass]
      BY <2>2 DEF SuccessInv, Current
    <3>2. ASSUME runs[r].answer = "SUCCESS", Head(runs[r].batch).pass \in Existing \ raced'
          PROVE  poleEmploi[Head(runs[r].batch).pass] = dates'[Head(runs[r].batch).pass]
      <4>1. runs[r].batch # <<>>
        BY <1>1, <3>2 DEF TypeInv, RunOK
      <4> QED
        BY <1>1, <2>2, <3>2, <4>1, HeadIsHeld DEF SuccessInv, Current
    <3> QED
      BY <1>1, <1>2, <3>1, <3>2, ChangeDatesEffect DEF Current
  <2> QED  BY <2>1, <2>3
<1>3. CASE Cancel(p)
  <2>1. /\ UNCHANGED <<dates, poleEmploi, runs, raced>>
        /\ \A k \in Existing' : k \in Existing /\ approvals'[k] = approvals[k]
    BY <1>1, <1>3 DEF Cancel, Existing, TypeInv, TypeOK
  <2> QED
    BY <2>1 DEF SuccessInv, SuccessIsCurrent, Current
<1>4. CASE Complete(p) \/ Certify(p) \/ ParisReaches(p) \/ UTCReaches(p)
  <2>1. UNCHANGED <<dates, approvals, poleEmploi, runs, raced>>
    BY <1>4 DEF Complete, Certify, ParisReaches, UTCReaches
  <2> QED
    BY <2>1 DEF SuccessInv, SuccessIsCurrent, Current, Existing
<1> QED
  BY <1>2, <1>3, <1>4

LEMMA CallCurrent ==
  ASSUME SuccessInv, NEW r \in Runs, NEW answer \in Answers, Call(r, answer)
  PROVE  SuccessIsCurrent' /\ \A q \in Runs : Current(q)'
<1> DEFINE item == Head(runs[r].batch)
<1>1. TypeInv
  BY DEF SuccessInv
<1>2. /\ Existing' = Existing /\ UNCHANGED <<dates, approvals, raced>>
      /\ runs[r].batch # <<>> /\ runs[r].at \in {"approvals", "cancelled"}
      /\ Told(r, answer)
      /\ \A q \in Runs \ {r} : runs'[q] = runs[q]
      /\ /\ runs'[r].at = runs[r].at /\ runs'[r].batch = runs[r].batch
         /\ runs'[r].answer = answer
  BY <1>1, CallType
<1>3. /\ \A k \in Passes : poleEmploi'[k] = poleEmploi[k]
                           \/ (k = item.pass /\ poleEmploi'[k] = item.dates)
      /\ answer = "SUCCESS" => poleEmploi'[item.pass] = item.dates
  BY <1>1, <1>2, AnswerEffect
<1>4. ASSUME NEW k \in Existing \ raced, k = item.pass
      PROVE  item.dates = dates[k] /\ runs[r].at = "approvals"
  <2>1. runs[r].at = "approvals"
    BY <1>1, <1>2, <1>4, RunFields, RowFields
  <2> QED
    BY <1>1, <1>2, <1>4, <2>1, HeadIsHeld DEF SuccessInv, Current
<1>5. ASSUME NEW k \in Existing \ raced, poleEmploi[k] = dates[k]
      PROVE  poleEmploi'[k] = dates[k]
  <2>1. k \in Passes
    BY <1>1, <1>5, RowFields
  <2> QED
    BY <1>3, <1>4, <1>5, <2>1
<1>6. SuccessIsCurrent'
  BY <1>2, <1>5 DEF SuccessInv, SuccessIsCurrent
<1>7. ASSUME NEW q \in Runs \ {r} PROVE Current(q)'
  BY <1>2, <1>5, <1>7 DEF SuccessInv, Current
<1>8. Current(r)'
  <2>1. ASSUME answer = "SUCCESS", item.pass \in Existing \ raced
        PROVE  poleEmploi'[item.pass] = dates[item.pass]
    BY <1>3, <1>4, <2>1
  <2> QED
    BY <1>2, <2>1 DEF SuccessInv, Current
<1> QED
  BY <1>6, <1>7, <1>8

LEMMA NoteCurrent ==
  ASSUME SuccessInv, NEW r \in Runs, Note(r)
  PROVE  SuccessIsCurrent' /\ \A q \in Runs : Current(q)'
<1>1. TypeInv
  BY DEF SuccessInv
<1>2. /\ Existing' = Existing /\ UNCHANGED <<dates, poleEmploi, raced>>
      /\ runs[r].batch # <<>>
      /\ \A p \in Existing :
            \/ approvals'[p].status = approvals[p].status
            \/ /\ runs[r].at = "approvals" /\ p = Head(runs[r].batch).pass
               /\ approvals'[p].status = runs[r].answer
      /\ \A q \in Runs \ {r} : runs'[q] = runs[q]
      /\ /\ runs'[r].at = runs[r].at /\ runs'[r].batch = Tail(runs[r].batch)
         /\ runs'[r].answer = "none"
  BY <1>1, NoteType
<1>3. SuccessIsCurrent'
  BY <1>2 DEF SuccessInv, SuccessIsCurrent, Current
<1>4. ASSUME NEW q \in Runs \ {r} PROVE Current(q)'
  BY <1>2, <1>4 DEF SuccessInv, Current
<1>5. Current(r)'
  <2> SUFFICES ASSUME runs[r].at = "approvals", NEW i \in DOMAIN runs'[r].batch,
                      runs'[r].batch[i].pass \in Existing \ raced
               PROVE  runs'[r].batch[i].dates = dates[runs'[r].batch[i].pass]
    BY <1>2 DEF Current
  <2>1. PICK j \in DOMAIN runs[r].batch : runs'[r].batch[i] = runs[r].batch[j]
    BY <1>1, <1>2, RunFields, HeadAndTail
  <2> QED
    BY <2>1 DEF SuccessInv, Current
<1> QED
  BY <1>3, <1>4, <1>5

LEMMA SuccessInvNext ==
  ASSUME SuccessInv, [Next]_vars PROVE SuccessInv'
<1>1. TypeInv' /\ TypeInv
  BY TypeInvNext DEF SuccessInv
<1>2. runs \in [Runs -> Run]
  BY <1>1 DEF TypeInv, TypeOK
<1>3. CASE UNCHANGED vars
  BY <1>1, <1>3 DEF vars, SuccessInv, SuccessIsCurrent, Current, Existing
<1>4. ASSUME NEW r \in Runs, Start(r)
      PROVE  SuccessIsCurrent' /\ \A q \in Runs : Current(q)'
  <2>1. /\ UNCHANGED <<dates, poleEmploi, raced>>
        /\ \A q \in Runs : q # r => runs'[q] = runs[q]
        /\ runs'[r].at = "ready"
    BY <1>2, <1>4 DEF Start
  <2>2. /\ Existing' = Existing
        /\ \A p \in Existing : approvals'[p].status = "SUCCESS" => approvals[p].status = "SUCCESS"
    BY <1>1, <1>4, StartType
  <2> QED
    BY <2>1, <2>2 DEF SuccessInv, SuccessIsCurrent, Current
<1>5. ASSUME NEW r \in Runs, Load(r)
      PROVE  SuccessIsCurrent' /\ \A q \in Runs : Current(q)'
  <2>1. UNCHANGED <<dates, approvals, poleEmploi, raced>> /\ Existing' = Existing
    BY <1>5 DEF Load, Existing
  <2> QED
    BY <1>1, <1>5, <2>1, LoadType DEF SuccessInv, SuccessIsCurrent, Current
<1>6. ASSUME NEW r \in Runs, LoadCancelled(r) \/ (End(r) \/ Kill(r))
      PROVE  SuccessIsCurrent' /\ \A q \in Runs : Current(q)'
  <2>1. UNCHANGED <<dates, approvals, poleEmploi, raced>> /\ Existing' = Existing
    BY <1>6 DEF LoadCancelled, End, Kill, Existing
  <2>2. (\A q \in Runs \ {r} : runs'[q] = runs[q]) /\ runs'[r].at # "approvals"
    BY <1>1, <1>2, <1>6, LoadCancelledType, StopType, IdleRunType
  <2> QED
    BY <2>1, <2>2 DEF SuccessInv, SuccessIsCurrent, Current
<1>7. CASE Next
  BY <1>7, <1>1, <1>4, <1>5, <1>6, Steps, SiteCurrent, CallCurrent, NoteCurrent DEF SuccessInv
<1> QED
  BY <1>3, <1>7

LEMMA SuccessInvInit ==
  ASSUME Init PROVE SuccessInv
<1>2. \A r \in Runs : Current(r)
  BY InitialRuns DEF Current
<1> QED
  BY <1>2, InitialRuns, TypeInvInit DEF SuccessInv, SuccessIsCurrent

(* A pass is only left alone when Pole Emploi has its dates, for any       *)
(* number of passes, runs and deaths of runs: the only excuse is a change  *)
(* of its dates while a run held it (the queryset of the command is        *)
(* evaluated once, and the update of the row looks at nothing).            *)
THEOREM SuccessesAreCurrent == Spec => []SuccessIsCurrent
<1>1. SuccessInv => SuccessIsCurrent
  BY DEF SuccessInv
<1> QED
  BY <1>1, SuccessInvInit, SuccessInvNext, PTL DEF Spec
-----------------------------------------------------------------------------
(* Without overlap, a run is alone: a pass that it holds as an approval    *)
(* has not been told to be cancelled yet.                                  *)
Alone == \A r, q \in Runs : Running(r) /\ Running(q) => r = q

ToldCancelled == \A p \in Gone : cancelled[p].status = "SUCCESS" => poleEmploi[p] = Cancelled

HoldsInOrder(r) ==
    /\ runs[r].at = "approvals" =>
          \A i \in DOMAIN runs[r].batch :
             runs[r].batch[i].pass \in Gone =>
                 cancelled[runs[r].batch[i].pass].status # "SUCCESS"
    /\ runs[r].at = "cancelled" /\ runs[r].answer = "SUCCESS" =>
          poleEmploi[Head(runs[r].batch).pass] = Cancelled

InOrder == Alone /\ ToldCancelled /\ \A r \in Runs : HoldsInOrder(r)

CancelledInv == TypeInv /\ (~overlap => InOrder)

LEMMA OneRunAlone ==
  ASSUME TypeInv, Alone, NEW r \in Runs, Running(r),
         \A q \in Runs \ {r} : runs'[q] = runs[q]
  PROVE  Alone'
  BY DEF Alone, Running

LEMMA SiteInOrder ==
  ASSUME TypeInv, InOrder, NEW p \in Passes,
         ChangeDates(p) \/ Cancel(p) \/ Complete(p) \/ Certify(p)
         \/ ParisReaches(p) \/ UTCReaches(p)
  PROVE  InOrder'
<1>1. UNCHANGED <<runs, poleEmploi>>
  BY DEF ChangeDates, Cancel, Complete, Certify, ParisReaches, UTCReaches
<1>2. CASE Cancel(p)
  <2> DEFINE row == [status |-> "PENDING", complete |-> complete[p], identified |-> identified[p]]
  <2>1. cancelled' = [cancelled EXCEPT ![p] = row] /\ row.status = "PENDING"
    BY <1>2 DEF Cancel
  <2>2. cancelled \in [Passes -> CancelledRow \union {Absent}]
    BY DEF TypeInv, TypeOK
  <2>3. \A k \in Gone' : cancelled'[k].status = "SUCCESS" =>
            k \in Gone /\ cancelled'[k] = cancelled[k]
    <3> HIDE DEF row
    <3> QED  BY <2>1, <2>2 DEF Gone
  <2> QED
    BY <1>1, <2>3 DEF InOrder, Alone, Running, ToldCancelled, HoldsInOrder
<1>3. CASE ~Cancel(p)
  <2>1. UNCHANGED cancelled
    BY <1>3 DEF ChangeDates, Complete, Certify, ParisReaches, UTCReaches
  <2> QED
    BY <1>1, <2>1 DEF InOrder, Alone, Running, ToldCancelled, HoldsInOrder, Gone
<1> QED
  BY <1>2, <1>3

LEMMA StartInOrder ==
  ASSUME TypeInv, NEW r \in Runs, Start(r), ~overlap', InOrder
  PROVE  InOrder'
<1>1. /\ runs \in [Runs -> Run] /\ UNCHANGED poleEmploi
      /\ \A q \in Runs : ~Running(q)
  BY DEF TypeInv, TypeOK, Start
<1>2. (\A q \in Runs : q # r => runs'[q] = runs[q]) /\ runs'[r].at = "ready"
  BY <1>1 DEF Start
<1>3. Alone' /\ \A q \in Runs : HoldsInOrder(q)'
  BY <1>1, <1>2 DEF Alone, Running, HoldsInOrder
<1>4. ToldCancelled'
  BY <1>1, StartType DEF InOrder, ToldCancelled
<1> QED
  BY <1>3, <1>4 DEF InOrder

(* The runs other than the one that acts are idle.                         *)
LEMMA OthersAreIdle ==
  ASSUME Alone, NEW r \in Runs, Running(r), NEW q \in Runs \ {r}
  PROVE  runs[q].at \in {"off", "idle"}
  BY DEF Alone, Running

LEMMA CallInOrder ==
  ASSUME TypeInv, InOrder, NEW r \in Runs, NEW answer \in Answers, Call(r, answer)
  PROVE  InOrder'
<1> DEFINE item == Head(runs[r].batch)
<1>1. /\ Gone' = Gone
      /\ runs[r].batch # <<>> /\ runs[r].at \in {"approvals", "cancelled"}
      /\ Told(r, answer)
      /\ \A p \in Gone : cancelled'[p].status = cancelled[p].status
      /\ \A q \in Runs \ {r} : runs'[q] = runs[q]
      /\ /\ runs'[r].at = runs[r].at /\ runs'[r].batch = runs[r].batch
         /\ runs'[r].answer = answer
  BY CallType
<1>2. /\ \A k \in Passes : poleEmploi'[k] = poleEmploi[k]
                           \/ (k = item.pass /\ poleEmploi'[k] = item.dates)
      /\ answer = "SUCCESS" => poleEmploi'[item.pass] = item.dates
  BY <1>1, AnswerEffect
<1>3. (runs[r].at = "cancelled" => item.dates = Cancelled) /\ Running(r)
  BY <1>1, RunFields DEF Running
<1>4. runs[r].at = "approvals" =>
          (item.pass \in Gone => cancelled[item.pass].status # "SUCCESS")
  BY <1>1, HeadIsHeld DEF InOrder, HoldsInOrder
<1>5. ToldCancelled'
  BY <1>1, <1>2, <1>3, <1>4, RowFields DEF InOrder, ToldCancelled
<1>6. Alone'
  BY <1>1, <1>3, OneRunAlone DEF InOrder
<1>7. ASSUME NEW q \in Runs \ {r} PROVE HoldsInOrder(q)'
  BY <1>1, <1>3, <1>7, OthersAreIdle DEF InOrder, HoldsInOrder
<1>8. HoldsInOrder(r)'
  BY <1>1, <1>2, <1>3 DEF InOrder, HoldsInOrder
<1> QED
  BY <1>5, <1>6, <1>7, <1>8 DEF InOrder

LEMMA NoteInOrder ==
  ASSUME TypeInv, InOrder, NEW r \in Runs, Note(r)
  PROVE  InOrder'
<1>1. /\ Gone' = Gone /\ UNCHANGED poleEmploi
      /\ runs[r].batch # <<>>
      /\ \A p \in Gone :
            \/ cancelled'[p].status = cancelled[p].status
            \/ /\ runs[r].at = "cancelled" /\ p = Head(runs[r].batch).pass
               /\ cancelled'[p].status = runs[r].answer
      /\ \A q \in Runs \ {r} : runs'[q] = runs[q]
      /\ /\ runs'[r].at = runs[r].at /\ runs'[r].batch = Tail(runs[r].batch)
         /\ runs'[r].answer = "none"
  BY NoteType
<1>2. Running(r)
  BY DEF Note, TypeInv, RunOK, Running
<1>3. ToldCancelled'
  BY <1>1 DEF InOrder, ToldCancelled, HoldsInOrder
<1>4. Alone'
  BY <1>1, <1>2, OneRunAlone DEF InOrder
<1>5. ASSUME NEW q \in Runs \ {r} PROVE HoldsInOrder(q)'
  BY <1>1, <1>2, <1>5, OthersAreIdle DEF InOrder, HoldsInOrder
<1>6. HoldsInOrder(r)'
  <2> SUFFICES ASSUME runs[r].at = "approvals", NEW i \in DOMAIN runs'[r].batch,
                      runs'[r].batch[i].pass \in Gone
               PROVE  cancelled'[runs'[r].batch[i].pass].status # "SUCCESS"
    BY <1>1 DEF HoldsInOrder
  <2>1. PICK j \in DOMAIN runs[r].batch : runs'[r].batch[i] = runs[r].batch[j]
    BY <1>1, RunFields, HeadAndTail
  <2> QED
    BY <1>1, <2>1 DEF InOrder, HoldsInOrder
<1> QED
  BY <1>3, <1>4, <1>5, <1>6 DEF InOrder

LEMMA CancelledInvNext ==
  ASSUME CancelledInv, [Next]_vars PROVE CancelledInv'
<1>1. TypeInv' /\ TypeInv
  BY TypeInvNext DEF CancelledInv
<1>2. runs \in [Runs -> Run]
  BY <1>1 DEF TypeInv, TypeOK
<1>3. CASE UNCHANGED vars
  BY <1>1, <1>3 DEF vars, CancelledInv, InOrder, Alone, Running, ToldCancelled, HoldsInOrder, Gone
<1> SUFFICES ASSUME Next, ~overlap' PROVE InOrder'
  BY <1>1, <1>3 DEF CancelledInv
<1>4. ~overlap
  <2>1. ASSUME NEW p \in Passes,
               ChangeDates(p) \/ Cancel(p) \/ Complete(p) \/ Certify(p)
                 \/ ParisReaches(p) \/ UTCReaches(p)
        PROVE  overlap' = overlap
    BY <2>1 DEF ChangeDates, Cancel, Complete, Certify, ParisReaches, UTCReaches
  <2>2. ASSUME NEW r \in Runs, Start(r) PROVE overlap => overlap'
    BY <2>2 DEF Start
  <2>3. ASSUME NEW r \in Runs, Load(r) \/ LoadCancelled(r) \/ Note(r) \/ End(r) \/ Kill(r)
        PROVE  overlap' = overlap
    BY <2>3 DEF Load, LoadCancelled, Note, End, Kill
  <2>4. ASSUME NEW r \in Runs, NEW answer \in Answers, Call(r, answer)
        PROVE  overlap' = overlap
    BY <2>4 DEF Call, CallForApproval, CallForCancelled
  <2> QED
    BY <2>1, <2>2, <2>3, <2>4, Steps
<1>5. InOrder
  BY <1>4 DEF CancelledInv
<1>6. ASSUME NEW r \in Runs, Load(r) PROVE InOrder'
  <2>1. /\ UNCHANGED <<cancelled, poleEmploi>> /\ Gone' = Gone /\ Running(r)
    BY <1>6 DEF Load, Gone, Running
  <2>2. /\ \A q \in Runs \ {r} : runs'[q] = runs[q]
        /\ runs'[r].at = "approvals"
        /\ \A i \in DOMAIN runs'[r].batch : runs'[r].batch[i].pass \notin Gone
    BY <1>1, <1>6, LoadType, RowFields
  <2>3. Alone'
    BY <1>1, <1>5, <2>1, <2>2, OneRunAlone DEF InOrder
  <2> QED
    BY <1>5, <2>1, <2>2, <2>3 DEF InOrder, ToldCancelled, HoldsInOrder
<1>7. ASSUME NEW r \in Runs, LoadCancelled(r) \/ (End(r) \/ Kill(r)) PROVE InOrder'
  <2>1. /\ UNCHANGED <<cancelled, poleEmploi>> /\ Gone' = Gone /\ Running(r)
    BY <1>7 DEF LoadCancelled, End, Kill, Gone, Running
  <2>2. /\ \A q \in Runs \ {r} : runs'[q] = runs[q]
        /\ runs'[r].at # "approvals" /\ runs'[r].answer = "none"
    BY <1>1, <1>2, <1>7, LoadCancelledType, StopType, IdleRunType
  <2>3. Alone'
    BY <1>1, <1>5, <2>1, <2>2, OneRunAlone DEF InOrder
  <2> QED
    BY <1>5, <2>1, <2>2, <2>3 DEF InOrder, ToldCancelled, HoldsInOrder
<1> QED
  BY <1>1, <1>5, <1>6, <1>7, Steps, SiteInOrder, StartInOrder, CallInOrder, NoteInOrder

LEMMA CancelledInvInit ==
  ASSUME Init PROVE CancelledInv
<1>1. Gone = {}
  BY DEF Init, Gone
<1> QED
  BY <1>1, TypeInvInit, InitialRuns
     DEF CancelledInv, InOrder, Alone, Running, ToldCancelled, HoldsInOrder

(* As long as no run starts before the previous one has ended, the last    *)
(* word Pole Emploi gets of a pass whose cancellation succeeded is its     *)
(* cancellation: the dates loaded before are told before (the order of the *)
(* two loops of the command).                                              *)
THEOREM CancellationsAreTold == Spec => []CancelledIsTold
<1>1. CancelledInv => CancelledIsTold
  BY DEF CancelledInv, InOrder, ToldCancelled, CancelledIsTold
<1> QED
  BY <1>1, CancelledInvInit, CancelledInvNext, PTL DEF Spec
=============================================================================
