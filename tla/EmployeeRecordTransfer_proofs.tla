-------------------- MODULE EmployeeRecordTransfer_proofs --------------------
(***************************************************************************)
(* Proofs about the exchange of employee records, for any set of records,  *)
(* of web requests and of file names, and any of the disruptions.          *)
(***************************************************************************)
EXTENDS EmployeeRecordTransfer, FiniteSetTheorems, SequenceTheorems, TLAPS

-----------------------------------------------------------------------------
(***************************************************************************)
(* The methods of a record return a record.                                *)
(***************************************************************************)

LEMMA RowTypes ==
    /\ NoRow \in Row /\ LegacyRow \in Row /\ FromJobApplication \in Row
    /\ \A row \in Row :
         /\ AsReady(row) \in Row /\ AsDisabled(row) \in Row /\ AsNew(row) \in Row
         /\ AsArchived(row) \in Row /\ Unarchived(row) \in Row
         /\ \A c \in ProcessingCode : AsProcessed(row, c) \in Row /\ AsRejected(row, c) \in Row
         /\ \A f \in FileNames, n \in Nat : AsSent(row, f, n) \in Row
<1>1. NoRow \in Row /\ LegacyRow \in Row /\ FromJobApplication \in Row
  BY DEF NoRow, LegacyRow, FromJobApplication, Row, Status, ProcessingCode, SuccessCode,
         DuplicateCode
<1>2. ASSUME NEW row \in Row
      PROVE  /\ AsReady(row) \in Row /\ AsDisabled(row) \in Row /\ AsNew(row) \in Row
             /\ AsArchived(row) \in Row /\ Unarchived(row) \in Row
  BY DEF AsReady, AsDisabled, AsNew, AsArchived, Unarchived, Row, Status
<1>3. ASSUME NEW row \in Row, NEW c \in ProcessingCode
      PROVE  AsProcessed(row, c) \in Row /\ AsRejected(row, c) \in Row
  BY DEF AsProcessed, AsRejected, Row, Status
<1>4. ASSUME NEW row \in Row, NEW f \in FileNames, NEW n \in Nat
      PROVE  AsSent(row, f, n) \in Row
  BY DEF AsSent, Row, Status, ProcessingCode
<1> QED
  BY <1>1, <1>2, <1>3, <1>4

LEMMA SavedType ==
    ASSUME NEW op \in Operations, NEW row \in Row
    PROVE  Saved(op, row) \in Row
<1>1. op \in {"create", "edit", "ready", "disable", "reactivate"}
  BY TransferAssumption
<1> QED
  BY <1>1, RowTypes DEF Saved

LEMMA IdleType == Idle \in Command
<1>1. <<>> \in Seq(Records)
  BY EmptySeq
<1>2. [r \in Records |-> NoRow] \in [Records -> Row]
  BY RowTypes
<1> QED
  BY <1>1, <1>2 DEF Idle, Command, Task

LEMMA ListingType ==
    ASSUME NEW S \in SUBSET Records, NEW s \in Listings(S)
    PROVE  s \in Seq(Records)
<1>1. IsFiniteSet(S) /\ Cardinality(S) \in Nat
  BY TransferAssumption, FS_Subset, FS_CardinalityType
<1>2. s \in [1..Cardinality(S) -> Records]
  BY DEF Listings
<1> QED
  BY <1>1, <1>2 DEF Seq

-----------------------------------------------------------------------------
(***************************************************************************)
(* Typing.                                                                 *)
(***************************************************************************)

(* The columns of a command have the types Command gives them. *)
LEMMA CommandFields ==
    ASSUME TypeOK
    PROVE  /\ cmd.todo \in Seq(Records) /\ cmd.batch \in Seq(Records)
           /\ cmd.inst \in [Records -> Row] /\ cmd.valid \in SUBSET Records
           /\ cmd.file \in FileNames \union {NoFile} /\ cmd.pos \in Nat
           /\ cmd.files \in SUBSET FileNames
BY DEF TypeOK, Command

LEMMA ChunkType ==
    ASSUME TypeOK
    PROVE  /\ Chunk \in Seq(Records) /\ Rest \in Seq(Records)
           /\ Len(Chunk) <= Len(cmd.todo)
           /\ \A i \in 1..Len(Chunk) : Chunk[i] = cmd.todo[i]
           /\ \A i \in 1..Len(Rest) : Rest[i] = cmd.todo[Len(Chunk) + i]
<1>1. cmd.todo \in Seq(Records) /\ Len(cmd.todo) \in Nat
  BY CommandFields, LenProperties
<1>2. PICK k \in Nat : /\ k = IF Len(cmd.todo) < MaxBatch THEN Len(cmd.todo) ELSE MaxBatch
                       /\ k <= Len(cmd.todo)
  BY <1>1, TransferAssumption
<1>3. \A i \in 1..Len(cmd.todo) : cmd.todo[i] \in Records
  BY <1>1, ElementOfSeq
<1>4. /\ Chunk \in Seq(Records) /\ Len(Chunk) = k
      /\ \A i \in 1..k : Chunk[i] = cmd.todo[i]
  <2>1. \A i \in 1..k : cmd.todo[i] \in Records
    BY <1>1, <1>2, <1>3
  <2>2. /\ SubSeq(cmd.todo, 1, k) \in Seq(Records)
        /\ Len(SubSeq(cmd.todo, 1, k)) = IF 1 <= k THEN k - 1 + 1 ELSE 0
        /\ \A i \in 1..(k - 1 + 1) : SubSeq(cmd.todo, 1, k)[i] = cmd.todo[1 + i - 1]
    BY <2>1, <1>2, SubSeqProperties
  <2>3. Chunk = SubSeq(cmd.todo, 1, k)
    BY <1>2 DEF Chunk
  <2> QED
    BY <2>2, <2>3, <1>2
<1>5. /\ Rest \in Seq(Records)
      /\ \A i \in 1..Len(Rest) : Rest[i] = cmd.todo[k + i]
  <2>1. \A i \in (k + 1)..Len(cmd.todo) : cmd.todo[i] \in Records
    BY <1>1, <1>2, <1>3
  <2>2. /\ SubSeq(cmd.todo, k + 1, Len(cmd.todo)) \in Seq(Records)
        /\ Len(SubSeq(cmd.todo, k + 1, Len(cmd.todo)))
             = IF k + 1 <= Len(cmd.todo) THEN Len(cmd.todo) - (k + 1) + 1 ELSE 0
        /\ \A i \in 1..(Len(cmd.todo) - (k + 1) + 1) :
              SubSeq(cmd.todo, k + 1, Len(cmd.todo))[i] = cmd.todo[(k + 1) + i - 1]
    BY <2>1, <1>1, <1>2, SubSeqProperties
  <2>3. Rest = SubSeq(cmd.todo, k + 1, Len(cmd.todo))
    BY <1>4 DEF Rest
  <2>4. Len(Rest) = Len(cmd.todo) - k
    BY <2>2, <2>3, <1>1, <1>2
  <2>5. ASSUME NEW i \in 1..Len(Rest) PROVE Rest[i] = cmd.todo[k + i]
    <3>1. i \in 1..(Len(cmd.todo) - (k + 1) + 1) /\ (k + 1) + i - 1 = k + i
      BY <2>4, <1>1, <1>2
    <3> QED
      BY <2>2, <2>3, <3>1
  <2> QED
    BY <2>2, <2>3, <2>5
<1> QED
  BY <1>2, <1>4, <1>5

LEMMA InitType == Init => TypeOK
<1> SUFFICES ASSUME Init PROVE TypeOK
  OBVIOUS
<1>1. <<>> \in Seq(Records) /\ <<>> \in Seq(Answer)
  BY EmptySeq
<1>2. PICK L \in SUBSET Legacy :
        rows = [r \in Records |-> IF r \in L THEN LegacyRow ELSE NoRow] /\ known = L
  BY DEF Init
<1>3. rows \in [Records -> Row] /\ known \in SUBSET Records
  BY <1>2, RowTypes, TransferAssumption
<1> QED
  BY <1>1, <1>3, IdleType DEF Init, TypeOK, Hiring

LEMMA WebType == TypeOK /\ Web => TypeOK'
<1> SUFFICES ASSUME TypeOK, NEW w \in Workers,
                    \/ \E r \in Records, op \in Operations : WebLoad(w, r, op)
                    \/ WebSave(w)
             PROVE  TypeOK'
  BY DEF Web
<1>1. CASE \E r \in Records, op \in Operations : WebLoad(w, r, op)
  <2>1. PICK r \in Records, op \in Operations : WebLoad(w, r, op)
    BY <1>1
  <2>2. Saved(op, rows[r]) \in Row
    BY SavedType DEF TypeOK
  <2>3. [er |-> r, insert |-> op = "create", save |-> Saved(op, rows[r])] \in Request
    BY <2>2 DEF Request
  <2> QED
    BY <2>1, <2>3 DEF WebLoad, TypeOK
<1>2. CASE WebSave(w)
  <2>1. web[w] \in Request
    BY <1>2 DEF WebSave, TypeOK
  <2>2. rows' \in [Records -> Row]
    BY <1>2, <2>1 DEF WebSave, TypeOK, Request
  <2> QED
    BY <1>2, <2>2 DEF WebSave, TypeOK
<1> QED
  BY <1>1, <1>2

LEMMA UploadType == TypeOK /\ Upload => TypeOK'
<1> SUFFICES ASSUME TypeOK, Upload PROVE TypeOK'
  OBVIOUS
<1>0. <<>> \in Seq(Records)
  BY EmptySeq
<1>1. CASE UploadStart
  <2>1. PICK s \in Listings(Ready) :
          cmd' = [Idle EXCEPT !.task = "upload", !.todo = s,
                    !.inst = [r \in Records |-> IF r \in Ready THEN rows[r] ELSE NoRow]]
    BY <1>1 DEF UploadStart
  <2>2. s \in Seq(Records)
    BY ListingType DEF Ready
  <2>3. [r \in Records |-> IF r \in Ready THEN rows[r] ELSE NoRow] \in [Records -> Row]
    BY RowTypes DEF TypeOK
  <2>4. cmd' \in Command
    BY <2>1, <2>2, <2>3, IdleType DEF Command, Task
  <2> QED
    BY <1>1, <2>4 DEF UploadStart, TypeOK
<1>2. CASE UploadPut
  <2>1. PICK f \in Fresh :
          /\ inbox' = [inbox EXCEPT ![f] = Chunk]
          /\ cmd' = [cmd EXCEPT !.todo = Rest, !.batch = Chunk, !.file = f, !.pos = 1,
                       !.valid = {r \in Elements(Chunk) : hiring[r] = "ok"}]
    BY <1>2 DEF UploadPut
  <2>2. Elements(Chunk) \subseteq Records
    BY ChunkType, LenProperties DEF Elements
  <2>3. cmd' \in Command
    BY <2>1, <2>2, ChunkType DEF Command, TypeOK, Fresh
  <2>4. inbox' \in [FileNames -> Seq(Records)]
    BY <2>1, ChunkType DEF TypeOK
  <2> QED
    BY <1>2, <2>3, <2>4 DEF UploadPut, TypeOK
<1>3. CASE UploadPutError
  <2>1. cmd' \in Command
    BY <1>3, ChunkType DEF UploadPutError, Command, TypeOK
  <2>2. inbox' \in [FileNames -> Seq(Records)]
    BY <1>3, ChunkType DEF UploadPutError, TypeOK
  <2> QED
    BY <1>3, <2>1, <2>2 DEF UploadPutError, TypeOK
<1>4. CASE UploadAbort
  BY <1>4, IdleType DEF UploadAbort, TypeOK
<1>5. CASE UploadMark
  <2>1. /\ cmd.batch \in Seq(Records) /\ cmd.batch # <<>>
        /\ Head(cmd.batch) \in Records /\ Tail(cmd.batch) \in Seq(Records)
    BY <1>5, CommandFields, HeadTailProperties DEF UploadMark
  <2>2. cmd' \in Command
    <3>1. cmd' = [cmd EXCEPT !.batch = Tail(cmd.batch), !.pos = cmd.pos + 1]
      BY <1>5 DEF UploadMark
    <3>2. cmd \in Command /\ cmd.pos + 1 \in Nat
      BY CommandFields DEF TypeOK
    <3> QED
      BY <2>1, <3>1, <3>2 DEF Command
  <2>3. AsSent(cmd.inst[Head(cmd.batch)], cmd.file, cmd.pos) \in Row
    BY <2>1, CommandFields DEF AsSent, Row, Status, ProcessingCode
  <2>4. rows' \in [Records -> Row]
    BY <1>5, <2>1, <2>3 DEF UploadMark, TypeOK
  <2> QED
    BY <1>5, <2>2, <2>4 DEF UploadMark, TypeOK
<1>6. CASE UploadEnd
  BY <1>6, IdleType DEF UploadEnd, TypeOK
<1> QED
  BY <1>1, <1>2, <1>3, <1>4, <1>5, <1>6 DEF Upload

LEMMA AspType == ASSUME TypeOK, NEW f \in FileNames, AspAnswer(f) PROVE TypeOK'
<1>1. inbox[f] \in Seq(Records) /\ <<>> \in Seq(Records)
  BY EmptySeq DEF TypeOK
<1>2. /\ DOMAIN inbox[f] = 1..Len(inbox[f]) /\ Len(inbox[f]) \in Nat
      /\ \A i \in DOMAIN inbox[f] : inbox[f][i] \in Records
  BY <1>1, LenProperties
<1>3. PICK code \in [DOMAIN inbox[f] -> UNION {AnswerCodes(r) : r \in Elements(inbox[f])}] :
        /\ \A i \in DOMAIN inbox[f] : code[i] \in AnswerCodes(inbox[f][i])
        /\ outbox' = [outbox EXCEPT ![f] =
               [i \in DOMAIN inbox[f] |-> [er |-> inbox[f][i], code |-> code[i]]]]
        /\ known' = known \union {inbox[f][i] : i \in {j \in DOMAIN inbox[f] :
                                                        code[j] = SuccessCode}}
  BY DEF AspAnswer
<1>4. [i \in DOMAIN inbox[f] |-> [er |-> inbox[f][i], code |-> code[i]]] \in Seq(Answer)
  <2>1. \A i \in DOMAIN inbox[f] : code[i] \in ProcessingCode \union {"noline"}
    BY <1>3 DEF AnswerCodes, ProcessingCode
  <2>2. \A i \in DOMAIN inbox[f] : [er |-> inbox[f][i], code |-> code[i]] \in Answer
    BY <1>2, <2>1 DEF Answer
  <2> QED
    BY <1>2, <2>2 DEF Seq
<1>5. outbox' \in [FileNames -> Seq(Answer)]
  BY <1>3, <1>4 DEF TypeOK
<1>6. known' \in SUBSET Records
  BY <1>2, <1>3 DEF TypeOK
<1>7. inbox' \in [FileNames -> Seq(Records)]
  BY <1>1 DEF AspAnswer, TypeOK
<1> QED
  BY <1>5, <1>6, <1>7 DEF AspAnswer, TypeOK

LEMMA AnsweredType ==
    ASSUME NEW row \in Row, NEW h, NEW c \in ProcessingCode \union {"noline"}
    PROVE  Answered(row, h, c) \in Row
<1>1. Accepts(row, h, c) \/ Forces(row, h, c) \/ Rejects(row, h, c) => c \in ProcessingCode
  BY DEF Accepts, Forces, Rejects, ProcessingCode
<1> QED
  BY <1>1, RowTypes DEF Answered

LEMMA MovesType == TypeOK => NextFile \in Command /\ NextLine \in Command
<1> SUFFICES ASSUME TypeOK PROVE NextFile \in Command /\ NextLine \in Command
  OBVIOUS
<1>1. cmd \in Command /\ cmd.pos + 1 \in Nat /\ <<>> \in Seq(Records)
  BY CommandFields, EmptySeq DEF TypeOK
<1> QED
  BY <1>1 DEF NextFile, NextLine, Command

LEMMA DownloadType == TypeOK /\ Download => TypeOK'
<1> SUFFICES ASSUME TypeOK, Download PROVE TypeOK'
  OBVIOUS
<1>1. CASE DownloadStart
  <2>1. cmd' \in Command
    BY <1>1, IdleType DEF DownloadStart, Command, Task
  <2> QED
    BY <1>1, <2>1 DEF DownloadStart, TypeOK
<1>2. CASE DownloadOpen
  <2>1. PICK f \in cmd.files : cmd' = [cmd EXCEPT !.file = f, !.pos = 1, !.files = cmd.files \ {f}]
    BY <1>2 DEF DownloadOpen
  <2>2. cmd \in Command /\ f \in FileNames /\ cmd.files \ {f} \in SUBSET FileNames
    BY CommandFields DEF TypeOK
  <2>3. cmd' \in Command
    BY <2>1, <2>2 DEF Command
  <2> QED
    BY <1>2, <2>3 DEF DownloadOpen, TypeOK
<1>3. CASE DownloadFind
  <2>1. /\ cmd \in Command /\ cmd.inst \in [Records -> Row]
        /\ NextFile \in Command /\ NextLine \in Command
    BY CommandFields, MovesType DEF TypeOK
  <2>2. \/ cmd' \in {NextFile, NextLine}
        \/ \E r \in FindByBatch(cmd.file, cmd.pos) :
             cmd' = [cmd EXCEPT !.batch = <<r>>, !.inst = [cmd.inst EXCEPT ![r] = rows[r]]]
    BY <1>3 DEF DownloadFind
  <2>3. ASSUME NEW r \in FindByBatch(cmd.file, cmd.pos)
        PROVE  <<r>> \in Seq(Records) /\ [cmd.inst EXCEPT ![r] = rows[r]] \in [Records -> Row]
    BY <2>1 DEF FindByBatch, TypeOK
  <2>4. ASSUME NEW r \in FindByBatch(cmd.file, cmd.pos)
        PROVE  [cmd EXCEPT !.batch = <<r>>, !.inst = [cmd.inst EXCEPT ![r] = rows[r]]] \in Command
    <3>1. ASSUME NEW batch \in Seq(Records), NEW inst \in [Records -> Row]
          PROVE  [cmd EXCEPT !.batch = batch, !.inst = inst] \in Command
      BY <2>1 DEF Command
    <3> QED
      BY <2>3, <3>1
  <2>5. cmd' \in Command
    BY <2>1, <2>2, <2>4
  <2> QED
    BY <1>3, <2>5 DEF DownloadFind, TypeOK
<1>6. CASE DownloadLine
  <2>1. PICK r \in Records : r = Head(cmd.batch)
    BY <1>6, CommandFields, HeadTailProperties DEF DownloadLine
  <2>2. NextFile \in Command /\ NextLine \in Command
    BY MovesType
  <2>3. PICK c \in ProcessingCode \union {"noline"} : c = outbox[cmd.file][cmd.pos].code
    <3>1. cmd.file # NoFile /\ cmd.pos \in DOMAIN outbox[cmd.file]
      BY <1>6 DEF DownloadLine, Reading
    <3>2. cmd.file \in FileNames /\ outbox[cmd.file] \in Seq(Answer)
      BY <3>1, CommandFields DEF TypeOK
    <3>3. outbox[cmd.file][cmd.pos] \in Answer
      BY <3>1, <3>2, LenProperties, ElementOfSeq
    <3> QED
      BY <3>3 DEF Answer
  <2>4. Answered(cmd.inst[r], hiring[r], c) \in Row
    BY CommandFields, AnsweredType
  <2>5. /\ cmd' \in {NextFile, NextLine}
        /\ \/ rows' = rows
           \/ rows' = [rows EXCEPT ![r] = Answered(cmd.inst[r], hiring[r], c)]
    BY <1>6, <2>1, <2>3 DEF DownloadLine
  <2>6. rows' \in [Records -> Row]
    BY <2>4, <2>5 DEF TypeOK
  <2> QED
    BY <1>6, <2>2, <2>5, <2>6 DEF DownloadLine, TypeOK
<1>4. CASE DownloadClose
  <2>0. <<>> \in Seq(Records)
    BY EmptySeq
  <2>1. cmd' \in Command
    BY <1>4, <2>0 DEF DownloadClose, NextFile, Command, TypeOK
  <2>2. outbox' \in [FileNames -> Seq(Answer)]
    BY <1>4, EmptySeq DEF DownloadClose, TypeOK
  <2> QED
    BY <1>4, <2>1, <2>2 DEF DownloadClose, TypeOK
<1>5. CASE DownloadEnd
  BY <1>5, IdleType DEF DownloadEnd, TypeOK
<1> QED
  BY <1>1, <1>2, <1>3, <1>4, <1>5, <1>6 DEF Download

LEMMA LoadType ==
    ASSUME TypeOK, NEW S \in SUBSET Records
    PROVE  Load(S) \in Command /\ [Load(S) EXCEPT !.task = "archive"] \in Command
<1>1. [r \in Records |-> IF r \in S THEN rows[r] ELSE NoRow] \in [Records -> Row]
  BY RowTypes DEF TypeOK
<1>2. cmd.pos + 1 \in Nat
  BY CommandFields
<1>3. Load(S) \in Command
  BY <1>1, <1>2, IdleType DEF Load, Command, Task
<1> QED
  BY <1>3 DEF Command, Task

LEMMA SanitizeType == TypeOK /\ Sanitize => TypeOK'
<1> SUFFICES ASSUME TypeOK, Sanitize PROVE TypeOK'
  OBVIOUS
<1>1. Load({}) \in Command /\ cmd.inst \in [Records -> Row]
  BY LoadType, CommandFields
<1>2. [Idle EXCEPT !.task = "sanitize", !.pos = 1] \in Command
  BY IdleType DEF Command, Task
<1>3. DuplicateCode \in ProcessingCode
  BY DEF ProcessingCode
<1>4. CASE SanitizeStart
  BY <1>2, <1>4 DEF SanitizeStart, TypeOK
<1>5. CASE CheckApprovals
  BY <1>1, <1>5, RowTypes DEF CheckApprovals, TypeOK
<1>6. CASE CheckJobseekerProfiles
  <2>1. rows' \in [Records -> Row]
    BY <1>1, <1>6, RowTypes DEF CheckJobseekerProfiles, Rewrite, TypeOK
  <2> QED
    BY <1>1, <1>6, <2>1 DEF CheckJobseekerProfiles, TypeOK
<1>7. CASE Check3436ErrorCode
  <2>0. \A row \in Row : AsProcessed(row, DuplicateCode) \in Row
    BY <1>3, RowTypes
  <2>a. \/ rows' = rows
        \/ rows' = [r \in Records |-> IF r \in cmd.valid
                                      THEN AsProcessed(cmd.inst[r], DuplicateCode) ELSE rows[r]]
    BY <1>7 DEF Check3436ErrorCode, Rewrite
  <2>1. rows' \in [Records -> Row]
    BY <1>1, <2>0, <2>a DEF TypeOK
  <2>2. cmd' \in Command
    BY <1>1, <1>7, IdleType DEF Check3436ErrorCode
  <2> QED
    BY <1>7, <2>1, <2>2 DEF Check3436ErrorCode, TypeOK
<1>8. CASE CheckMissedNotifications
  <2>0. \A r \in Records : Unarchived(cmd.inst[r]).status \in Status
    BY <1>1, RowTypes DEF Row
  <2>1. rows' \in [Records -> Row]
    BY <1>8, <2>0 DEF CheckMissedNotifications, TypeOK, Row
  <2> QED
    BY <1>8, <2>1, IdleType DEF CheckMissedNotifications, TypeOK
<1>9. CASE SanitizeLoad
  <2>1. \E S \in SUBSET Records : cmd' = Load(S)
    BY <1>9 DEF SanitizeLoad, Integrated, AspDuplicates
  <2>2. cmd' \in Command
    BY <2>1, LoadType
  <2> QED
    BY <1>9, <2>2 DEF SanitizeLoad, TypeOK
<1> QED
  BY <1>4, <1>5, <1>6, <1>7, <1>8, <1>9 DEF Sanitize

LEMMA ArchivingType == TypeOK /\ Archiving => TypeOK'
<1> SUFFICES ASSUME TypeOK, Archiving PROVE TypeOK'
  OBVIOUS
<1>1. CASE ArchiveStart
  <2>1. \E S \in SUBSET Records : cmd' = [Load(S) EXCEPT !.task = "archive"]
    BY <1>1 DEF ArchiveStart
  <2>2. cmd' \in Command
    BY <2>1, LoadType
  <2> QED
    BY <1>1, <2>2 DEF ArchiveStart, TypeOK
<1>2. CASE Archive
  <2>1. rows' \in [Records -> Row]
    BY <1>2, CommandFields, RowTypes DEF Archive, Rewrite, TypeOK
  <2> QED
    BY <1>2, <2>1, IdleType DEF Archive, TypeOK
<1> QED
  BY <1>1, <1>2 DEF Archiving

LEMMA NextType == TypeOK /\ [Next]_vars => TypeOK'
<1> SUFFICES ASSUME TypeOK, [Next]_vars PROVE TypeOK'
  OBVIOUS
<1>1. CASE \E r \in Records : HiringChange(r)
  BY <1>1 DEF HiringChange, TypeOK
<1>2. CASE Kill
  BY <1>2, IdleType DEF Kill, TypeOK
<1>4. CASE \E f \in FileNames : AspAnswer(f)
  BY <1>4, AspType
<1>5. CASE UNCHANGED vars
  BY <1>5 DEF vars, TypeOK
<1> QED
  BY <1>1, <1>2, <1>4, <1>5, WebType, UploadType, DownloadType, SanitizeType, ArchivingType
     DEF Next

(* Every variable of the exchange keeps the type the table, the commands   *)
(* and the directories give it.                                            *)
THEOREM TypeCorrect == Spec => []TypeOK
<1> QED
  BY InitType, NextType, PTL DEF Spec

-----------------------------------------------------------------------------
(***************************************************************************)
(* No answer is credited to another record.                                *)
(***************************************************************************)

(* The methods of a record keep it consistent.  Only three of them touch   *)
(* what the exchange depends on.                                           *)
LEMMA MethodsConsistent ==
    ASSUME NEW r \in Records, NEW row \in Row, Consistent(r, row)
    PROVE  /\ Consistent(r, NoRow) /\ Consistent(r, FromJobApplication)
           /\ Consistent(r, AsReady(row)) /\ Consistent(r, AsDisabled(row))
           /\ Consistent(r, AsNew(row)) /\ Consistent(r, AsArchived(row))
           /\ Consistent(r, Unarchived(row))
           /\ \A c \in RejectionCode : Consistent(r, AsRejected(row, c))
           /\ \A c : r \in known => Consistent(r, AsProcessed(row, c))
<1>1. NoFile \notin FileNames /\ RejectionCode \subseteq {"32xx", "other"}
  BY RecordAssumption
<1>2. Consistent(r, NoRow) /\ Consistent(r, FromJobApplication)
  BY <1>1 DEF Consistent, NoRow, FromJobApplication, SuccessCode, DuplicateCode
<1>3. /\ Consistent(r, AsReady(row)) /\ Consistent(r, AsDisabled(row))
      /\ Consistent(r, AsNew(row)) /\ Consistent(r, AsArchived(row))
  BY DEF Consistent, AsReady, AsDisabled, AsNew, AsArchived, Row
<1>4. Consistent(r, Unarchived(row))
  BY DEF Consistent, Unarchived, Row, SuccessCode, DuplicateCode
<1>5. ASSUME NEW c \in RejectionCode PROVE Consistent(r, AsRejected(row, c))
  BY <1>1 DEF Consistent, AsRejected, Row, SuccessCode, DuplicateCode
<1>6. ASSUME NEW c, r \in known PROVE Consistent(r, AsProcessed(row, c))
  BY <1>6 DEF Consistent, AsProcessed, Row
<1> QED
  BY <1>2, <1>3, <1>4, <1>5, <1>6

(* A step that leaves the server and the ASP alone keeps rows consistent.  *)
LEMMA StableConsistent ==
    ASSUME UNCHANGED <<inbox, outbox, known>>
    PROVE  /\ \A r, row : Consistent(r, row) => Consistent(r, row)'
           /\ AnswersAreKnown => AnswersAreKnown'
BY DEF Consistent, AnswersAreKnown

LEMMA InitExchange == Init => ExchangeInv
<1> SUFFICES ASSUME Init PROVE ExchangeInv
  OBVIOUS
<1>1. PICK L \in SUBSET Legacy :
        rows = [r \in Records |-> IF r \in L THEN LegacyRow ELSE NoRow] /\ known = L
  BY DEF Init
<1>2. \A r \in Records : Consistent(r, NoRow)
  BY RecordAssumption DEF Consistent, NoRow, SuccessCode, DuplicateCode
<1>3. \A r \in L : Consistent(r, LegacyRow)
  BY <1>1, RecordAssumption DEF Consistent, LegacyRow, NoRow
<1>4. \A r \in Records : Consistent(r, rows[r])
  BY <1>1, <1>2, <1>3
<1>5. AnswersAreKnown
  BY DEF Init, AnswersAreKnown
<1>6. \A r \in Records : Consistent(r, cmd.inst[r])
  BY <1>2 DEF Init, Idle
<1>7. BatchIsInFile
  BY DEF Init, Idle, BatchIsInFile
<1> QED
  BY <1>4, <1>5, <1>6, <1>7 DEF Init, ExchangeInv

LEMMA WebExchange == TypeOK /\ ExchangeInv /\ Web => ExchangeInv'
<1> SUFFICES ASSUME TypeOK, ExchangeInv, NEW w \in Workers,
                    \/ \E r \in Records, op \in Operations : WebLoad(w, r, op)
                    \/ WebSave(w)
             PROVE  ExchangeInv'
  BY DEF Web
<1>1. UNCHANGED <<cmd, inbox, outbox, known>>
  BY DEF WebLoad, WebSave
<1>2. /\ \A r, row : Consistent(r, row) => Consistent(r, row)'
      /\ AnswersAreKnown' /\ BatchIsInFile'
      /\ \A r \in Records : Consistent(r, cmd.inst[r])'
  BY <1>1, StableConsistent DEF ExchangeInv, BatchIsInFile
<1>3. CASE \E r \in Records, op \in Operations : WebLoad(w, r, op)
  <2>1. PICK r \in Records, op \in Operations : WebLoad(w, r, op)
    BY <1>3
  <2>2. Consistent(r, Saved(op, rows[r]))
    <3>1. op \in {"create", "edit", "ready", "disable", "reactivate"}
      BY TransferAssumption
    <3>2. rows[r] \in Row /\ Consistent(r, rows[r])
      BY DEF TypeOK, ExchangeInv
    <3> QED
      BY <3>1, <3>2, MethodsConsistent DEF Saved
  <2>3. /\ rows' = rows
        /\ web' = [web EXCEPT ![w] = [er |-> r, insert |-> op = "create",
                                      save |-> Saved(op, rows[r])]]
    BY <2>1 DEF WebLoad
  <2>4. \A r1 \in Records : Consistent(r1, rows[r1])'
    BY <1>2, <2>3 DEF ExchangeInv
  <2>5. ASSUME NEW v \in Workers, web'[v] # NoRequest
        PROVE  Consistent(web[v].er, web[v].save)'
    <3>1. CASE v = w
      <4>1. web'[v].er = r /\ web'[v].save = Saved(op, rows[r])
        BY <2>3, <3>1 DEF TypeOK
      <4> QED
        BY <1>2, <2>2, <4>1
    <3>2. CASE v # w
      BY <1>2, <2>3, <2>5, <3>2 DEF ExchangeInv, TypeOK
    <3> QED
      BY <3>1, <3>2
  <2> QED
    BY <1>2, <2>4, <2>5 DEF ExchangeInv
<1>4. CASE WebSave(w)
  <2>1. web[w] \in Request /\ Consistent(web[w].er, web[w].save)
    BY <1>4 DEF WebSave, TypeOK, ExchangeInv
  <2>2. \A r \in Records : Consistent(r, rows[r])'
    BY <1>2, <1>4, <2>1 DEF WebSave, ExchangeInv, TypeOK, Request
  <2>3. \A v \in Workers : web'[v] # NoRequest => Consistent(web[v].er, web[v].save)'
    BY <1>2, <1>4 DEF WebSave, ExchangeInv, TypeOK
  <2> QED
    BY <1>2, <2>2, <2>3 DEF ExchangeInv
<1> QED
  BY <1>3, <1>4

(* Most steps keep no row in hand and leave the server alone: it is then   *)
(* enough that the rows and the instances they write are consistent.       *)
LEMMA LocalExchange ==
    ASSUME ExchangeInv, UNCHANGED <<web, inbox, outbox, known>>,
           cmd'.batch = <<>>,
           \A r \in Records : Consistent(r, rows'[r]) /\ Consistent(r, cmd'.inst[r])
    PROVE  ExchangeInv'
<1>1. /\ \A r, row : Consistent(r, row) => Consistent(r, row)'
      /\ AnswersAreKnown'
  BY StableConsistent DEF ExchangeInv
<1>2. \A r \in Records : Consistent(r, rows[r])' /\ Consistent(r, cmd.inst[r])'
  BY <1>1
<1>3. \A w \in Workers : web'[w] # NoRequest => Consistent(web[w].er, web[w].save)'
  BY <1>1 DEF ExchangeInv
<1>4. BatchIsInFile'
  BY DEF BatchIsInFile
<1> QED
  BY <1>1, <1>2, <1>3, <1>4 DEF ExchangeInv

LEMMA IdleExchange ==
    ASSUME ExchangeInv, UNCHANGED <<web, inbox, outbox, known>>, cmd' = Idle,
           \A r \in Records : Consistent(r, rows'[r])
    PROVE  ExchangeInv'
<1>1. \A r \in Records : Consistent(r, NoRow)
  BY RecordAssumption DEF Consistent, NoRow, SuccessCode, DuplicateCode
<1>2. cmd'.batch = <<>> /\ \A r \in Records : Consistent(r, cmd'.inst[r])
  BY <1>1 DEF Idle
<1> QED
  BY <1>2, LocalExchange

LEMMA ConsistentNoRow == \A r \in Records : Consistent(r, NoRow)
BY RecordAssumption DEF Consistent, NoRow, SuccessCode, DuplicateCode

(* The chunk goes to a name nothing refers to, and becomes the batch.      *)
LEMMA PutExchange == TypeOK /\ ExchangeInv /\ UploadPut => ExchangeInv'
<1> SUFFICES ASSUME TypeOK, ExchangeInv, UploadPut PROVE ExchangeInv'
  OBVIOUS
<1>1. PICK f \in Fresh :
        /\ inbox' = [inbox EXCEPT ![f] = Chunk]
        /\ cmd' = [cmd EXCEPT !.todo = Rest, !.batch = Chunk, !.file = f, !.pos = 1,
                     !.valid = {r \in Elements(Chunk) : hiring[r] = "ok"}]
  BY DEF UploadPut
<1>2. UNCHANGED <<rows, web, outbox, known>>
  BY DEF UploadPut
<1>3. cmd'.batch = Chunk /\ cmd'.file = f /\ cmd'.pos = 1 /\ cmd'.inst = cmd.inst
  BY <1>1 DEF TypeOK, Command
<1>4. \A r, row : Consistent(r, row) /\ row.file # f => Consistent(r, row)'
  BY <1>1, <1>2 DEF Consistent, TypeOK
<1>5. \A r \in Records : Consistent(r, rows[r])' /\ Consistent(r, cmd.inst[r])'
  BY <1>2, <1>3, <1>4 DEF ExchangeInv, Fresh
<1>6. \A w \in Workers : web'[w] # NoRequest => Consistent(web[w].er, web[w].save)'
  BY <1>2, <1>4 DEF ExchangeInv, Fresh
<1>7. AnswersAreKnown'
  BY <1>2 DEF AnswersAreKnown, ExchangeInv
<1>8. BatchIsInFile'
  <2>1. f \in FileNames /\ inbox'[f] = Chunk /\ outbox'[f] = <<>>
    BY <1>1, <1>2 DEF Fresh, TypeOK
  <2>2. Chunk \in Seq(Records)
    BY ChunkType
  <2>3. \A i \in DOMAIN Chunk : 1 + i - 1 = i
    BY <2>2, LenProperties
  <2> QED
    BY <1>3, <2>1, <2>2, <2>3 DEF BatchIsInFile
<1> QED
  BY <1>5, <1>6, <1>7, <1>8 DEF ExchangeInv

(* The file may have arrived, and no row will ever refer to it.            *)
LEMMA PutErrorExchange == TypeOK /\ ExchangeInv /\ UploadPutError => ExchangeInv'
<1> SUFFICES ASSUME TypeOK, ExchangeInv, UploadPutError PROVE ExchangeInv'
  OBVIOUS
<1>1. /\ UNCHANGED <<rows, web, outbox, known>>
      /\ cmd' = [cmd EXCEPT !.todo = Rest]
      /\ cmd.batch = <<>>
  BY DEF UploadPutError, Uploading
<1>2. cmd'.batch = <<>> /\ cmd'.inst = cmd.inst
  BY <1>1 DEF TypeOK, Command
<1>3. CASE inbox' = inbox
  BY <1>1, <1>2, <1>3, LocalExchange DEF ExchangeInv
<1>4. CASE \E f \in Fresh : inbox' = [inbox EXCEPT ![f] = Chunk]
  <2>1. PICK f \in Fresh : inbox' = [inbox EXCEPT ![f] = Chunk]
    BY <1>4
  <2>2. \A r, row : Consistent(r, row) /\ row.file # f => Consistent(r, row)'
    BY <1>1, <2>1 DEF Consistent, TypeOK
  <2>3. \A r \in Records : Consistent(r, rows[r])' /\ Consistent(r, cmd.inst[r])'
    BY <1>1, <1>2, <2>2 DEF ExchangeInv, Fresh
  <2>4. \A w \in Workers : web'[w] # NoRequest => Consistent(web[w].er, web[w].save)'
    BY <1>1, <2>2 DEF ExchangeInv, Fresh
  <2>5. AnswersAreKnown' /\ BatchIsInFile'
    BY <1>1, <1>2 DEF AnswersAreKnown, BatchIsInFile, ExchangeInv
  <2> QED
    BY <2>3, <2>4, <2>5 DEF ExchangeInv
<1> QED
  BY <1>3, <1>4 DEF UploadPutError

(* The first row of the batch is the one at the current line of the file.  *)
LEMMA MarkExchange == TypeOK /\ ExchangeInv /\ UploadMark => ExchangeInv'
<1> SUFFICES ASSUME TypeOK, ExchangeInv, UploadMark PROVE ExchangeInv'
  OBVIOUS
<1>1. /\ cmd.batch \in Seq(Records) /\ cmd.batch # <<>> /\ cmd.pos \in Nat
      /\ cmd.inst \in [Records -> Row]
  BY CommandFields DEF UploadMark
<1>2. PICK r \in Records : r = Head(cmd.batch)
  BY <1>1, HeadTailProperties
<1>3. /\ rows' = [rows EXCEPT ![r] = AsSent(cmd.inst[r], cmd.file, cmd.pos)]
      /\ cmd' = [cmd EXCEPT !.batch = Tail(cmd.batch), !.pos = cmd.pos + 1]
      /\ UNCHANGED <<web, inbox, outbox, known>>
  BY <1>2 DEF UploadMark
<1>4. /\ cmd'.batch = Tail(cmd.batch) /\ cmd'.pos = cmd.pos + 1
      /\ cmd'.file = cmd.file /\ cmd'.inst = cmd.inst
  BY <1>3 DEF TypeOK, Command
<1>5. /\ \A q, row : Consistent(q, row) => Consistent(q, row)'
      /\ AnswersAreKnown'
  BY <1>3, StableConsistent DEF ExchangeInv
<1>6. /\ 1 \in DOMAIN cmd.batch /\ cmd.batch[1] = r /\ cmd.pos + 1 - 1 = cmd.pos
  BY <1>1, <1>2, LenProperties, EmptySeq
<1>7. Consistent(r, AsSent(cmd.inst[r], cmd.file, cmd.pos))
  <2>1. /\ cmd.file \in FileNames
        /\ cmd.pos \in DOMAIN inbox[cmd.file] => inbox[cmd.file][cmd.pos] = r
        /\ cmd.pos \in DOMAIN outbox[cmd.file] => outbox[cmd.file][cmd.pos].er = r
    BY <1>6 DEF ExchangeInv, BatchIsInFile
  <2>2. /\ AsSent(cmd.inst[r], cmd.file, cmd.pos).status = "SENT"
        /\ AsSent(cmd.inst[r], cmd.file, cmd.pos).code = "null"
        /\ AsSent(cmd.inst[r], cmd.file, cmd.pos).file = cmd.file
        /\ AsSent(cmd.inst[r], cmd.file, cmd.pos).line = cmd.pos
    BY <1>1 DEF AsSent, Row
  <2> QED
    BY <2>1, <2>2 DEF Consistent, SuccessCode, DuplicateCode
<1>8. \A q \in Records : Consistent(q, rows[q])' /\ Consistent(q, cmd.inst[q])'
  BY <1>3, <1>4, <1>5, <1>7 DEF ExchangeInv, TypeOK
<1>9. \A w \in Workers : web'[w] # NoRequest => Consistent(web[w].er, web[w].save)'
  BY <1>3, <1>5 DEF ExchangeInv
<1>10. BatchIsInFile'
  <2> SUFFICES ASSUME NEW i \in DOMAIN Tail(cmd.batch)
               PROVE  /\ cmd.file \in FileNames
                      /\ cmd.pos + 1 + i - 1 \in DOMAIN inbox[cmd.file] =>
                           inbox[cmd.file][cmd.pos + 1 + i - 1] = Tail(cmd.batch)[i]
                      /\ cmd.pos + 1 + i - 1 \in DOMAIN outbox[cmd.file] =>
                           outbox[cmd.file][cmd.pos + 1 + i - 1].er = Tail(cmd.batch)[i]
    BY <1>3, <1>4 DEF BatchIsInFile
  <2>1. /\ i \in Nat /\ i + 1 \in DOMAIN cmd.batch
        /\ Tail(cmd.batch)[i] = cmd.batch[i + 1]
    BY <1>1, HeadTailProperties, LenProperties
  <2>2. cmd.pos + (i + 1) - 1 = cmd.pos + 1 + i - 1
    BY <1>1, <2>1
  <2> QED
    BY <2>1, <2>2 DEF ExchangeInv, BatchIsInFile
<1> QED
  BY <1>5, <1>8, <1>9, <1>10 DEF ExchangeInv

LEMMA UploadExchange == TypeOK /\ ExchangeInv /\ Upload => ExchangeInv'
<1> SUFFICES ASSUME TypeOK, ExchangeInv, Upload PROVE ExchangeInv'
  OBVIOUS
<1>1. CASE UploadStart
  <2>1. PICK s : cmd' = [Idle EXCEPT !.task = "upload", !.todo = s,
                   !.inst = [r \in Records |-> IF r \in Ready THEN rows[r] ELSE NoRow]]
    BY <1>1 DEF UploadStart
  <2>2. cmd'.batch = <<>>
    BY <2>1 DEF Idle
  <2>3. cmd'.inst = [r \in Records |-> IF r \in Ready THEN rows[r] ELSE NoRow]
    BY <2>1 DEF Idle
  <2>4. \A r \in Records : Consistent(r, rows'[r]) /\ Consistent(r, cmd'.inst[r])
    BY <1>1, <2>3, ConsistentNoRow DEF UploadStart, ExchangeInv
  <2> QED
    BY <1>1, <2>2, <2>4, LocalExchange DEF UploadStart
<1>2. CASE UploadAbort \/ UploadEnd
  BY <1>2, IdleExchange DEF UploadAbort, UploadEnd, ExchangeInv
<1> QED
  BY <1>1, <1>2, PutExchange, PutErrorExchange, MarkExchange DEF Upload

(* The answer keeps the lines of the batch, and a success is known.        *)
LEMMA AspExchange ==
    ASSUME TypeOK, ExchangeInv, NEW f \in FileNames, AspAnswer(f)
    PROVE  ExchangeInv'
<1>1. PICK code \in [DOMAIN inbox[f] -> UNION {AnswerCodes(r) : r \in Elements(inbox[f])}] :
        /\ \A i \in DOMAIN inbox[f] : code[i] \in AnswerCodes(inbox[f][i])
        /\ outbox' = [outbox EXCEPT ![f] =
               [i \in DOMAIN inbox[f] |-> [er |-> inbox[f][i], code |-> code[i]]]]
        /\ known' = known \union {inbox[f][i] : i \in {j \in DOMAIN inbox[f] :
                                                        code[j] = SuccessCode}}
  BY DEF AspAnswer
<1>2. inbox' = [inbox EXCEPT ![f] = <<>>] /\ UNCHANGED <<rows, web, cmd>>
  BY DEF AspAnswer
<1>3. /\ DOMAIN outbox'[f] = DOMAIN inbox[f]
      /\ \A i \in DOMAIN inbox[f] : /\ outbox'[f][i].er = inbox[f][i]
                                   /\ outbox'[f][i].code = code[i]
      /\ inbox'[f] = <<>> /\ known \subseteq known'
      /\ \A g \in FileNames \ {f} : inbox'[g] = inbox[g] /\ outbox'[g] = outbox[g]
  BY <1>1, <1>2 DEF TypeOK
<1>4. \A n : n \notin DOMAIN inbox'[f]
  BY <1>3, EmptySeq
<1>5. ASSUME NEW r, NEW row, Consistent(r, row) PROVE Consistent(r, row)'
  <2>1. row.status = "PROCESSED" \/ row.code \in {SuccessCode, DuplicateCode} => r \in known'
    BY <1>3, <1>5 DEF Consistent
  <2>2. ASSUME NEW g \in FileNames, row.file = g
        PROVE  /\ row.line \in DOMAIN inbox'[g] => inbox'[g][row.line] = r
               /\ row.line \in DOMAIN outbox'[g] => outbox'[g][row.line].er = r
    <3>1. /\ row.line \in DOMAIN inbox[g] => inbox[g][row.line] = r
          /\ row.line \in DOMAIN outbox[g] => outbox[g][row.line].er = r
      BY <1>5, <2>2 DEF Consistent
    <3>2. CASE g # f
      BY <1>3, <3>1, <3>2
    <3>3. CASE g = f
      BY <1>3, <1>4, <3>1, <3>3
    <3> QED
      BY <3>2, <3>3
  <2> QED
    BY <2>1, <2>2 DEF Consistent
<1>6. AnswersAreKnown'
  <2> SUFFICES ASSUME NEW g \in FileNames, NEW n \in DOMAIN outbox'[g],
                      outbox'[g][n].code \in {SuccessCode, DuplicateCode}
               PROVE  outbox'[g][n].er \in known'
    BY DEF AnswersAreKnown
  <2>1. CASE g # f
    BY <1>3, <2>1 DEF ExchangeInv, AnswersAreKnown
  <2>2. CASE g = f
    <3>1. /\ n \in DOMAIN inbox[f] /\ outbox'[f][n].er = inbox[f][n]
          /\ code[n] \in {SuccessCode, DuplicateCode}
      BY <1>3, <2>2
    <3>2. CASE code[n] = SuccessCode
      <4>1. n \in {j \in DOMAIN inbox[f] : code[j] = SuccessCode}
        BY <3>1, <3>2
      <4>2. inbox[f][n] \in known'
        BY <1>1, <4>1
      <4> QED
        BY <2>2, <3>1, <4>2
    <3>3. CASE code[n] = DuplicateCode
      <4>1. inbox[f][n] \in known
        BY <1>1, <3>1, <3>3, RecordAssumption DEF AnswerCodes, SuccessCode, DuplicateCode
      <4> QED
        BY <1>3, <2>2, <3>1, <4>1
    <3> QED
      BY <3>1, <3>2, <3>3
  <2> QED
    BY <2>1, <2>2
<1>7. BatchIsInFile'
  <2> SUFFICES ASSUME NEW i \in DOMAIN cmd.batch, NEW n, n = cmd.pos + i - 1
               PROVE  /\ cmd.file \in FileNames
                      /\ n \in DOMAIN inbox'[cmd.file] => inbox'[cmd.file][n] = cmd.batch[i]
                      /\ n \in DOMAIN outbox'[cmd.file] =>
                           outbox'[cmd.file][n].er = cmd.batch[i]
    BY <1>2 DEF BatchIsInFile
  <2>1. /\ cmd.file \in FileNames
        /\ n \in DOMAIN inbox[cmd.file] => inbox[cmd.file][n] = cmd.batch[i]
        /\ n \in DOMAIN outbox[cmd.file] => outbox[cmd.file][n].er = cmd.batch[i]
    BY DEF ExchangeInv, BatchIsInFile
  <2>2. CASE cmd.file # f
    BY <1>3, <2>1, <2>2
  <2>3. CASE cmd.file = f
    BY <1>3, <1>4, <2>1, <2>3
  <2> QED
    BY <2>2, <2>3
<1> QED
  BY <1>2, <1>5, <1>6, <1>7 DEF ExchangeInv

(* The row that is found has the employee of the line: the row the answer  *)
(* is about is the one in hand when it is applied.                         *)
LEMMA FindExchange == TypeOK /\ ExchangeInv /\ DownloadFind => ExchangeInv'
<1> SUFFICES ASSUME TypeOK, ExchangeInv, DownloadFind PROVE ExchangeInv'
  OBVIOUS
<1>1. UNCHANGED <<rows, web, inbox, outbox, known>> /\ cmd.batch = <<>>
  BY DEF DownloadFind
<1>2. /\ cmd \in Command /\ cmd.pos \in Nat /\ cmd.inst \in [Records -> Row]
      /\ cmd.pos + 1 - 1 = cmd.pos
  BY CommandFields DEF TypeOK
<1>3. \/ cmd'.batch = <<>> /\ cmd'.inst = cmd.inst
      \/ \E r \in FindByBatch(cmd.file, cmd.pos) :
           cmd' = [cmd EXCEPT !.batch = <<r>>, !.inst = [cmd.inst EXCEPT ![r] = rows[r]]]
  BY <1>1, <1>2 DEF DownloadFind, NextFile, NextLine, Command
<1>4. CASE cmd'.batch = <<>> /\ cmd'.inst = cmd.inst
  BY <1>1, <1>4, LocalExchange DEF ExchangeInv
<1>5. CASE \E r \in FindByBatch(cmd.file, cmd.pos) :
             cmd' = [cmd EXCEPT !.batch = <<r>>, !.inst = [cmd.inst EXCEPT ![r] = rows[r]]]
  <2>1. PICK r \in FindByBatch(cmd.file, cmd.pos) :
          cmd' = [cmd EXCEPT !.batch = <<r>>, !.inst = [cmd.inst EXCEPT ![r] = rows[r]]]
    BY <1>5
  <2>2. /\ cmd'.batch = <<r>> /\ cmd'.inst = [cmd.inst EXCEPT ![r] = rows[r]]
        /\ cmd'.file = cmd.file /\ cmd'.pos = cmd.pos
    BY <1>2, <2>1 DEF Command
  <2>3. r \in Records /\ rows[r].file = cmd.file /\ rows[r].line = cmd.pos
    BY DEF FindByBatch
  <2>4. /\ \A q, row : Consistent(q, row) => Consistent(q, row)'
        /\ AnswersAreKnown'
    BY <1>1, StableConsistent DEF ExchangeInv
  <2>5. \A q \in Records : Consistent(q, rows[q])' /\ Consistent(q, cmd.inst[q])'
    BY <1>1, <1>2, <2>2, <2>3, <2>4 DEF ExchangeInv
  <2>6. \A w \in Workers : web'[w] # NoRequest => Consistent(web[w].er, web[w].save)'
    BY <1>1, <2>4 DEF ExchangeInv
  <2>7. /\ cmd.file \in FileNames
        /\ cmd.pos \in DOMAIN inbox[cmd.file] => inbox[cmd.file][cmd.pos] = r
        /\ cmd.pos \in DOMAIN outbox[cmd.file] => outbox[cmd.file][cmd.pos].er = r
    <3>1. cmd.file \in FileNames
      BY <1>2, CommandFields DEF DownloadFind, Reading
    <3> QED
      BY <2>3, <3>1 DEF ExchangeInv, Consistent
  <2>8. DOMAIN <<r>> = {1} /\ <<r>>[1] = r
    OBVIOUS
  <2>9. BatchIsInFile'
    BY <1>1, <1>2, <2>2, <2>7, <2>8 DEF BatchIsInFile
  <2> QED
    BY <2>4, <2>5, <2>6, <2>9 DEF ExchangeInv
<1> QED
  BY <1>3, <1>4, <1>5

LEMMA LineExchange == TypeOK /\ ExchangeInv /\ DownloadLine => ExchangeInv'
<1> SUFFICES ASSUME TypeOK, ExchangeInv, DownloadLine PROVE ExchangeInv'
  OBVIOUS
<1>1. /\ cmd.batch \in Seq(Records) /\ cmd.batch # <<>> /\ cmd.pos \in Nat
      /\ cmd.inst \in [Records -> Row]
  BY CommandFields DEF DownloadLine
<1>2. PICK r \in Records : r = Head(cmd.batch)
  BY <1>1, HeadTailProperties
<1>3. PICK c : c = outbox[cmd.file][cmd.pos].code
  OBVIOUS
<1>4. /\ cmd' \in {NextFile, NextLine}
      /\ \/ rows' = rows
         \/ rows' = [rows EXCEPT ![r] = Answered(cmd.inst[r], hiring[r], c)]
      /\ UNCHANGED <<web, inbox, outbox, known>>
  BY <1>2, <1>3 DEF DownloadLine
<1>5. cmd'.batch = <<>> /\ cmd'.inst = cmd.inst
  BY <1>4 DEF NextFile, NextLine, TypeOK, Command
<1>6. c \in {SuccessCode, DuplicateCode} => r \in known
  <2>1. 1 \in DOMAIN cmd.batch /\ cmd.batch[1] = r /\ cmd.pos + 1 - 1 = cmd.pos
    BY <1>1, <1>2, LenProperties, EmptySeq
  <2>2. cmd.file \in FileNames /\ cmd.pos \in DOMAIN outbox[cmd.file]
    BY CommandFields DEF DownloadLine, Reading
  <2>3. outbox[cmd.file][cmd.pos].er = r
    BY <2>1, <2>2 DEF ExchangeInv, BatchIsInFile
  <2> QED
    BY <1>3, <2>2, <2>3 DEF ExchangeInv, AnswersAreKnown
<1>7. Consistent(r, Answered(cmd.inst[r], hiring[r], c))
  <2>1. cmd.inst[r] \in Row /\ Consistent(r, cmd.inst[r])
    BY <1>1 DEF ExchangeInv
  <2>2. CASE Accepts(cmd.inst[r], hiring[r], c) \/ Forces(cmd.inst[r], hiring[r], c)
    <3>1. r \in known
      BY <1>6, <2>2 DEF Accepts, Forces
    <3> QED
      BY <2>1, <2>2, <3>1, MethodsConsistent DEF Answered
  <2>3. CASE /\ ~ (Accepts(cmd.inst[r], hiring[r], c) \/ Forces(cmd.inst[r], hiring[r], c))
             /\ Rejects(cmd.inst[r], hiring[r], c)
    <3>1. c \in RejectionCode
      BY <2>3 DEF Rejects
    <3> QED
      BY <2>1, <2>3, <3>1, MethodsConsistent DEF Answered
  <2> QED
    BY <2>1, <2>2, <2>3 DEF Answered
<1>8. \A q \in Records : Consistent(q, rows'[q]) /\ Consistent(q, cmd'.inst[q])
  BY <1>4, <1>5, <1>7 DEF ExchangeInv, TypeOK
<1> QED
  BY <1>4, <1>5, <1>8, LocalExchange

(* Between two files the download holds no line.                           *)
LEMMA NoFileNoBatch ==
    ASSUME TypeOK, ExchangeInv, cmd.file = NoFile
    PROVE  cmd.batch = <<>>
<1>1. \A i : i \notin DOMAIN cmd.batch
  BY RecordAssumption DEF ExchangeInv, BatchIsInFile
<1>2. /\ Len(cmd.batch) \in Nat /\ DOMAIN cmd.batch = 1..Len(cmd.batch)
      /\ cmd.batch # <<>> => Len(cmd.batch) \in Nat \ {0}
  BY CommandFields, LenProperties, EmptySeq
<1> QED
  BY <1>1, <1>2

LEMMA DownloadExchange == TypeOK /\ ExchangeInv /\ Download => ExchangeInv'
<1> SUFFICES ASSUME TypeOK, ExchangeInv, Download PROVE ExchangeInv'
  OBVIOUS
<1>1. CASE DownloadStart
  <2>1. cmd'.batch = <<>> /\ cmd'.inst = [r \in Records |-> NoRow]
    BY <1>1 DEF DownloadStart, Idle
  <2>2. \A r \in Records : Consistent(r, rows'[r]) /\ Consistent(r, cmd'.inst[r])
    BY <1>1, <2>1, ConsistentNoRow DEF DownloadStart, ExchangeInv
  <2> QED
    BY <1>1, <2>1, <2>2, LocalExchange DEF DownloadStart
<1>2. CASE DownloadOpen
  <2>1. cmd.batch = <<>>
    BY <1>2, NoFileNoBatch DEF DownloadOpen
  <2>2. cmd'.batch = <<>> /\ cmd'.inst = cmd.inst
    BY <1>2, <2>1 DEF DownloadOpen, TypeOK, Command
  <2> QED
    BY <1>2, <2>2, LocalExchange DEF DownloadOpen, ExchangeInv
<1>3. CASE DownloadClose
  <2>1. cmd'.batch = <<>> /\ cmd'.inst = cmd.inst /\ UNCHANGED <<rows, web, inbox, known>>
    BY <1>3 DEF DownloadClose, NextFile, TypeOK, Command
  <2>2. \A f \in FileNames : outbox'[f] = outbox[f] \/ outbox'[f] = <<>>
    BY <1>3 DEF DownloadClose, TypeOK
  <2>3. \A n : n \notin DOMAIN <<>>
    BY EmptySeq
  <2>4. \A r, row : Consistent(r, row) => Consistent(r, row)'
    BY <2>1, <2>2, <2>3 DEF Consistent
  <2>5. AnswersAreKnown' /\ BatchIsInFile'
    BY <2>1, <2>2, <2>3 DEF AnswersAreKnown, BatchIsInFile, ExchangeInv
  <2> QED
    BY <2>1, <2>4, <2>5 DEF ExchangeInv
<1>4. CASE DownloadEnd
  BY <1>4, IdleExchange DEF DownloadEnd, ExchangeInv
<1> QED
  BY <1>1, <1>2, <1>3, <1>4, FindExchange, LineExchange DEF Download

(* A command that loads rows and saves them changed, or not.               *)
LEMMA LoadExchange ==
    ASSUME TypeOK, ExchangeInv, NEW S \in SUBSET Records,
           UNCHANGED <<web, inbox, outbox, known>>,
           cmd' \in {Load(S), [Load(S) EXCEPT !.task = "archive"]},
           \A r \in Records : Consistent(r, rows'[r])
    PROVE  ExchangeInv'
<1>1. /\ cmd'.batch = <<>>
      /\ cmd'.inst = [r \in Records |-> IF r \in S THEN rows[r] ELSE NoRow]
  BY DEF Load, Idle
<1>2. \A r \in Records : Consistent(r, cmd'.inst[r])
  BY <1>1, ConsistentNoRow DEF ExchangeInv
<1> QED
  BY <1>1, <1>2, LocalExchange

LEMMA SanitizeExchange == TypeOK /\ ExchangeInv /\ Sanitize => ExchangeInv'
<1> SUFFICES ASSUME TypeOK, ExchangeInv, Sanitize PROVE ExchangeInv'
  OBVIOUS
<1>0. \A r \in Records : /\ rows[r] \in Row /\ Consistent(r, rows[r])
                         /\ cmd.inst[r] \in Row /\ Consistent(r, cmd.inst[r])
  BY CommandFields DEF TypeOK, ExchangeInv
<1>1. CASE SanitizeStart
  <2>1. cmd'.batch = <<>> /\ cmd'.inst = [r \in Records |-> NoRow]
    BY <1>1 DEF SanitizeStart, Idle
  <2>2. \A r \in Records : Consistent(r, rows'[r]) /\ Consistent(r, cmd'.inst[r])
    BY <1>0, <1>1, <2>1, ConsistentNoRow DEF SanitizeStart
  <2> QED
    BY <1>1, <2>1, <2>2, LocalExchange DEF SanitizeStart
<1>2. CASE SanitizeLoad
  <2>1. \E S \in SUBSET Records : cmd' = Load(S)
    BY <1>2 DEF SanitizeLoad, Integrated, AspDuplicates
  <2> QED
    BY <1>0, <1>2, <2>1, LoadExchange DEF SanitizeLoad
<1>3. CASE CheckApprovals
  <2>1. \A r \in Records : Consistent(r, rows'[r])
    BY <1>0, <1>3, ConsistentNoRow DEF CheckApprovals
  <2> QED
    BY <1>3, <2>1, LoadExchange DEF CheckApprovals
<1>4. CASE CheckJobseekerProfiles
  <2>1. \A r \in Records : Consistent(r, AsDisabled(cmd.inst[r]))
    BY <1>0, MethodsConsistent
  <2>2. \A r \in Records : Consistent(r, rows'[r])
    BY <1>0, <1>4, <2>1 DEF CheckJobseekerProfiles, Rewrite
  <2> QED
    BY <1>4, <2>2, LoadExchange DEF CheckJobseekerProfiles
<1>5. CASE Check3436ErrorCode
  <2>1. CASE rows' = rows /\ cmd' = Idle
    BY <1>0, <1>5, <2>1, IdleExchange DEF Check3436ErrorCode
  <2>2. CASE /\ \A r \in cmd.valid : IsDuplicate(cmd.inst[r])
             /\ rows' = [r \in Records |-> IF r \in cmd.valid
                                           THEN AsProcessed(cmd.inst[r], DuplicateCode)
                                           ELSE rows[r]]
             /\ cmd' = Load({})
    <3>1. \A r \in Records : r \in cmd.valid => Consistent(r, AsProcessed(cmd.inst[r], DuplicateCode))
      BY <1>0, <2>2, MethodsConsistent DEF Consistent, IsDuplicate
    <3>2. \A r \in Records : Consistent(r, rows'[r])
      BY <1>0, <2>2, <3>1
    <3>3. UNCHANGED <<web, inbox, outbox, known>>
      BY <1>5 DEF Check3436ErrorCode
    <3> QED
      BY <2>2, <3>2, <3>3, LoadExchange
  <2> QED
    BY <1>5, <2>1, <2>2 DEF Check3436ErrorCode, Rewrite
<1>6. CASE CheckMissedNotifications
  <2>1. \A r \in Records : Consistent(r, Unarchived(cmd.inst[r]))
    BY <1>0, MethodsConsistent
  <2>2. ASSUME NEW r \in Records, Unarchived(cmd.inst[r]).status = "PROCESSED" PROVE r \in known
    BY <2>1, <2>2 DEF Consistent
  <2>3. ASSUME NEW r \in Records
        PROVE  Consistent(r, [rows[r] EXCEPT !.status = Unarchived(cmd.inst[r]).status])
    BY <1>0, <2>2 DEF Consistent, Row
  <2>4. \A r \in Records : Consistent(r, rows'[r])
    BY <1>0, <1>6, <2>3 DEF CheckMissedNotifications
  <2> QED
    BY <1>6, <2>4, IdleExchange DEF CheckMissedNotifications
<1> QED
  BY <1>1, <1>2, <1>3, <1>4, <1>5, <1>6 DEF Sanitize

LEMMA ArchivingExchange == TypeOK /\ ExchangeInv /\ Archiving => ExchangeInv'
<1> SUFFICES ASSUME TypeOK, ExchangeInv, Archiving PROVE ExchangeInv'
  OBVIOUS
<1>0. \A r \in Records : /\ rows[r] \in Row /\ Consistent(r, rows[r])
                         /\ cmd.inst[r] \in Row /\ Consistent(r, cmd.inst[r])
  BY CommandFields DEF TypeOK, ExchangeInv
<1>1. CASE ArchiveStart
  <2>1. \E S \in SUBSET Records : cmd' = [Load(S) EXCEPT !.task = "archive"]
    BY <1>1 DEF ArchiveStart
  <2> QED
    BY <1>0, <1>1, <2>1, LoadExchange DEF ArchiveStart
<1>2. CASE Archive
  <2>1. \A r \in Records : Consistent(r, AsArchived(cmd.inst[r]))
    BY <1>0, MethodsConsistent
  <2>2. \A r \in Records : Consistent(r, rows'[r])
    BY <1>0, <1>2, <2>1 DEF Archive, Rewrite
  <2> QED
    BY <1>2, <2>2, IdleExchange DEF Archive
<1> QED
  BY <1>1, <1>2 DEF Archiving

LEMMA NextExchange == TypeOK /\ ExchangeInv /\ [Next]_vars => ExchangeInv'
<1> SUFFICES ASSUME TypeOK, ExchangeInv, [Next]_vars PROVE ExchangeInv'
  OBVIOUS
<1>1. CASE \E r \in Records : HiringChange(r)
  <2>1. UNCHANGED <<rows, web, cmd, inbox, outbox, known>>
    BY <1>1 DEF HiringChange
  <2> QED
    BY <2>1, StableConsistent DEF ExchangeInv, BatchIsInFile
<1>2. CASE Kill
  BY <1>2, IdleExchange DEF Kill, ExchangeInv
<1>3. CASE UNCHANGED vars
  BY <1>3, StableConsistent DEF vars, ExchangeInv, BatchIsInFile
<1> QED
  BY <1>1, <1>2, <1>3, WebExchange, UploadExchange, DownloadExchange, SanitizeExchange,
     ArchivingExchange, AspExchange DEF Next

(* No copy of a row, in the table, in a request or in a command, ever      *)
(* credits a record with an answer that is not its own.                    *)
THEOREM ExchangeSafe == Spec => []ExchangeInv
<1>1. Init => TypeOK /\ ExchangeInv
  BY InitType, InitExchange
<1>2. TypeOK /\ ExchangeInv /\ [Next]_vars => (TypeOK /\ ExchangeInv)'
  BY NextType, NextExchange
<1> QED
  BY <1>1, <1>2, PTL DEF Spec

(* A record counted as integrated is one the ASP has accepted.             *)
THEOREM IntegratedKnown == Spec => []IntegratedIsKnown
<1>1. ExchangeInv => IntegratedIsKnown
  BY DEF ExchangeInv, Consistent, IntegratedIsKnown, Integrated
<1> QED
  BY <1>1, ExchangeSafe, PTL

(* find_by_batch() designates the employee the answer is about.            *)
THEOREM AnswersMeetRecords == Spec => []AnswerMeetsItsRecord
<1>1. ExchangeInv => AnswerMeetsItsRecord
  BY DEF ExchangeInv, Consistent, AnswerMeetsItsRecord, FindByBatch
<1> QED
  BY <1>1, ExchangeSafe, PTL
-----------------------------------------------------------------------------
(***************************************************************************)
(* What holds while the profiles stay valid.  A profile that no longer     *)
(* passes clean() makes the download drop an answer, and nothing below     *)
(* holds with "hiring_change".                                             *)
(***************************************************************************)

Codes ==
    {SuccessCode, DuplicateCode} \union RejectionCode
      \union (IF "malformed" \in Disruptions THEN {"noline"} ELSE {})

(* A file is in one directory; the lines it answers have a code the        *)
(* download knows; no request is about to save a status of the exchange.   *)
Regular ==
    /\ \A r \in Records : hiring[r] = "ok"
    /\ \A f \in FileNames : inbox[f] = <<>> \/ outbox[f] = <<>>
    /\ \A f \in FileNames : \A n \in DOMAIN outbox[f] : outbox[f][n].code \in Codes
    /\ \A w \in Workers : web[w] # NoRequest =>
                              web[w].save.status \notin {"SENT", "PROCESSED"}

(* What every view saves is out of the hands of the ASP.                   *)
LEMMA SavedStatus ==
    ASSUME NEW op \in Operations, NEW r, NEW row \in Row, Allowed(op, r, row)
    PROVE  Saved(op, row).status \notin {"SENT", "PROCESSED"}
<1>1. op \in {"create", "edit", "ready", "disable", "reactivate"}
  BY TransferAssumption
<1>2. CASE op = "create"
  BY <1>2 DEF Saved, FromJobApplication, NoRow
<1>3. CASE op = "edit"
  BY <1>3 DEF Saved, Allowed, InTunnel
<1>4. CASE op \in {"ready", "disable", "reactivate"}
  BY <1>4 DEF Saved, AsReady, AsDisabled, AsNew, Row
<1> QED
  BY <1>1, <1>2, <1>3, <1>4

LEMMA InitRegular == Init => Regular
<1> SUFFICES ASSUME Init PROVE Regular
  OBVIOUS
<1>1. \A n : n \notin DOMAIN <<>>
  BY EmptySeq
<1> QED
  BY <1>1 DEF Init, Regular

LEMMA WebRegular == TypeOK /\ Regular /\ Web => Regular'
<1> SUFFICES ASSUME TypeOK, Regular, NEW w \in Workers,
                    \/ \E r \in Records, op \in Operations : WebLoad(w, r, op)
                    \/ WebSave(w)
             PROVE  Regular'
  BY DEF Web
<1>1. CASE \E r \in Records, op \in Operations : WebLoad(w, r, op)
  <2>1. PICK r \in Records, op \in Operations : WebLoad(w, r, op)
    BY <1>1
  <2>2. Saved(op, rows[r]).status \notin {"SENT", "PROCESSED"}
    BY <2>1, SavedStatus DEF WebLoad, TypeOK
  <2>3. \A v \in Workers : web'[v] # NoRequest =>
            web'[v].save.status \notin {"SENT", "PROCESSED"}
    BY <2>1, <2>2 DEF WebLoad, TypeOK, Regular
  <2> QED
    BY <2>1, <2>3 DEF WebLoad, Regular
<1>2. CASE WebSave(w)
  BY <1>2 DEF WebSave, TypeOK, Regular
<1> QED
  BY <1>1, <1>2

(* A new file takes a name that is in neither directory.                   *)
LEMMA UploadRegular == TypeOK /\ Regular /\ Upload => Regular'
<1> SUFFICES ASSUME TypeOK, Regular, Upload PROVE Regular'
  OBVIOUS
<1>1. UNCHANGED <<hiring, web, outbox>>
  BY DEF Upload, UploadStart, UploadPut, UploadPutError, UploadAbort, UploadMark, UploadEnd
<1>2. \/ inbox' = inbox
      \/ \E f \in Fresh : inbox' = [inbox EXCEPT ![f] = Chunk]
  BY DEF Upload, UploadStart, UploadPut, UploadPutError, UploadAbort, UploadMark, UploadEnd
<1>3. \A f \in FileNames : inbox'[f] = <<>> \/ outbox'[f] = <<>>
  BY <1>1, <1>2 DEF Regular, Fresh, TypeOK
<1> QED
  BY <1>1, <1>3 DEF Regular

LEMMA AspRegular == ASSUME TypeOK, Regular, NEW f \in FileNames, AspAnswer(f) PROVE Regular'
<1>1. PICK code \in [DOMAIN inbox[f] -> UNION {AnswerCodes(r) : r \in Elements(inbox[f])}] :
        /\ \A i \in DOMAIN inbox[f] : code[i] \in AnswerCodes(inbox[f][i])
        /\ outbox' = [outbox EXCEPT ![f] =
               [i \in DOMAIN inbox[f] |-> [er |-> inbox[f][i], code |-> code[i]]]]
  BY DEF AspAnswer
<1>2. inbox' = [inbox EXCEPT ![f] = <<>>] /\ UNCHANGED <<hiring, web>>
  BY DEF AspAnswer
<1>3. \A g \in FileNames : inbox'[g] = <<>> \/ outbox'[g] = <<>>
  BY <1>1, <1>2 DEF Regular, TypeOK
<1>4. ASSUME NEW g \in FileNames, NEW n \in DOMAIN outbox'[g]
      PROVE  outbox'[g][n].code \in Codes
  <2>1. CASE g # f
    BY <1>1, <2>1 DEF Regular, TypeOK
  <2>2. CASE g = f
    <3>1. n \in DOMAIN inbox[f] /\ outbox'[g][n].code = code[n]
      BY <1>1, <1>4, <2>2 DEF TypeOK
    <3>2. code[n] \in AnswerCodes(inbox[f][n])
      BY <1>1, <3>1
    <3> QED
      BY <3>1, <3>2 DEF AnswerCodes, Codes
  <2> QED
    BY <2>1, <2>2
<1> QED
  BY <1>2, <1>3, <1>4 DEF Regular

LEMMA DownloadRegular == TypeOK /\ Regular /\ Download => Regular'
<1> SUFFICES ASSUME TypeOK, Regular, Download PROVE Regular'
  OBVIOUS
<1>1. UNCHANGED <<hiring, web, inbox>>
  BY DEF Download, DownloadStart, DownloadOpen, DownloadFind, DownloadLine, DownloadClose,
         DownloadEnd
<1>2. \/ outbox' = outbox
      \/ \E f \in FileNames : outbox' = [outbox EXCEPT ![f] = <<>>]
  BY CommandFields DEF Download, DownloadStart, DownloadOpen, DownloadFind, DownloadLine,
     DownloadClose, DownloadEnd
<1>3. \A f \in FileNames : outbox'[f] = outbox[f] \/ outbox'[f] = <<>>
  BY <1>2 DEF TypeOK
<1>4. \A n : n \notin DOMAIN <<>>
  BY EmptySeq
<1> QED
  BY <1>1, <1>3, <1>4 DEF Regular

LEMMA NextRegular ==
    ASSUME "hiring_change" \notin Disruptions, TypeOK, Regular, [Next]_vars
    PROVE  Regular'
<1>1. CASE Kill \/ Sanitize \/ Archiving \/ UNCHANGED vars
  <2>1. UNCHANGED <<hiring, web, inbox, outbox>>
    BY <1>1 DEF Kill, Sanitize, SanitizeStart, SanitizeLoad, CheckApprovals,
       CheckJobseekerProfiles, Check3436ErrorCode, CheckMissedNotifications, Archiving,
       ArchiveStart, Archive, vars
  <2> QED
    BY <2>1 DEF Regular
<1>2. \A r \in Records : ~HiringChange(r)
  BY DEF HiringChange
<1> QED
  BY <1>1, <1>2, WebRegular, UploadRegular, AspRegular, DownloadRegular DEF Next

-----------------------------------------------------------------------------
(***************************************************************************)
(* A record that was sent is awaited.                                      *)
(***************************************************************************)

AwaitedAt(r, f, n) ==
    /\ f \in FileNames
    /\ \/ n \in DOMAIN inbox[f] /\ inbox[f][n] = r
       \/ n \in DOMAIN outbox[f] /\ outbox[f][n].er = r

RowsAwaited ==
    \A r \in Records : rows[r].status = "SENT" => AwaitedAt(r, rows[r].file, rows[r].line)

(* The rows still to be marked are on the server when they get SENT.       *)
BatchAwaited ==
    cmd.task = "upload" =>
        \A i \in DOMAIN cmd.batch : AwaitedAt(cmd.batch[i], cmd.file, cmd.pos + i - 1)

(* The download has left nothing SENT behind the line it is at.            *)
ReadIsApplied ==
    cmd.task = "download" /\ cmd.file # NoFile =>
        /\ cmd.pos >= 1
        /\ \A r \in Records :
             rows[r].status = "SENT" /\ rows[r].file = cmd.file => rows[r].line >= cmd.pos

Holding == cmd.task = "download" /\ cmd.batch # <<>>

(* A row that is still SENT was SENT when the download loaded it.          *)
Held ==
    Holding =>
        LET r == Head(cmd.batch) IN
        /\ cmd.file \in FileNames /\ cmd.pos \in DOMAIN outbox[cmd.file]
        /\ outbox[cmd.file][cmd.pos].code # "noline"
        /\ rows[r].status = "SENT" => cmd.inst[r].status = "SENT"

(* The checks of sanitize save no record that waits for an answer.         *)
Sanitized ==
    cmd.task = "sanitize" => \A r \in cmd.valid : cmd.inst[r].status # "SENT"

AwaitedInv == RowsAwaited /\ BatchAwaited /\ ReadIsApplied /\ Held /\ Sanitized

LEMMA InitAwaited == Init => AwaitedInv
<1> SUFFICES ASSUME Init PROVE AwaitedInv
  OBVIOUS
<1>1. \A r \in Records : rows[r].status # "SENT"
  BY DEF Init, LegacyRow, NoRow
<1>2. cmd.task = "idle"
  BY DEF Init, Idle
<1> QED
  BY <1>1, <1>2 DEF AwaitedInv, RowsAwaited, BatchAwaited, ReadIsApplied, Holding, Held, Sanitized

(* Only a mark of the upload makes a record SENT.                          *)
Marks(r) == rows'[r].status = "SENT" => rows'[r] = rows[r]

LEMMA AnsweredStatus ==
    ASSUME NEW row \in Row, NEW h, NEW c
    PROVE  Answered(row, h, c) = row \/ Answered(row, h, c).status \in {"PROCESSED", "REJECTED"}
BY DEF Answered, AsProcessed, AsRejected, Row

LEMMA StepMarks ==
    ASSUME TypeOK, Regular, Sanitized, [Next]_vars, ~UploadMark, NEW r \in Records
    PROVE  Marks(r)
<1>0. rows[r] \in Row /\ cmd.inst[r] \in Row
  BY CommandFields DEF TypeOK
<1>1. CASE Web
  <2>1. PICK w \in Workers : WebSave(w) \/ UNCHANGED rows
    BY <1>1 DEF Web, WebLoad
  <2>2. CASE WebSave(w)
    <3>1. web[w].save.status # "SENT"
      BY <2>2 DEF WebSave, Regular
    <3>2. rows'[r] = rows[r] \/ rows'[r] = web[w].save
      BY <2>2 DEF WebSave, TypeOK
    <3> QED
      BY <3>1, <3>2 DEF Marks
  <2> QED
    BY <2>1, <2>2 DEF Marks
<1>2. CASE Download
  <2>1. CASE DownloadLine
    <3>1. PICK q : q = Head(cmd.batch)
      OBVIOUS
    <3>2. PICK c : c = outbox[cmd.file][cmd.pos].code
      OBVIOUS
    <3>3. \/ rows' = rows
          \/ /\ Answered(cmd.inst[q], hiring[q], c) # cmd.inst[q]
             /\ rows' = [rows EXCEPT ![q] = Answered(cmd.inst[q], hiring[q], c)]
      BY <2>1, <3>1, <3>2 DEF DownloadLine
    <3>4. CASE rows' = rows \/ q # r
      BY <3>3, <3>4 DEF Marks, TypeOK
    <3>5. CASE /\ q = r
               /\ Answered(cmd.inst[q], hiring[q], c) # cmd.inst[q]
               /\ rows' = [rows EXCEPT ![q] = Answered(cmd.inst[q], hiring[q], c)]
      <4>1. Answered(cmd.inst[r], hiring[r], c).status \in {"PROCESSED", "REJECTED"}
        BY <1>0, <3>5, AnsweredStatus
      <4> QED
        BY <3>5, <4>1 DEF Marks, TypeOK
    <3> QED
      BY <3>3, <3>4, <3>5
  <2>2. CASE ~DownloadLine
    BY <1>2, <2>2 DEF Download, DownloadStart, DownloadOpen, DownloadFind, DownloadClose,
       DownloadEnd, Marks
  <2> QED
    BY <2>1, <2>2
<1>3. CASE Sanitize
  <2>1. CASE SanitizeStart \/ SanitizeLoad
    BY <2>1 DEF SanitizeStart, SanitizeLoad, Marks
  <2>2. CASE CheckApprovals
    BY <2>2 DEF CheckApprovals, NoRow, Marks
  <2>3. CASE CheckJobseekerProfiles
    BY <1>0, <2>3 DEF CheckJobseekerProfiles, Rewrite, AsDisabled, Row, Marks
  <2>4. CASE Check3436ErrorCode
    BY <1>0, <2>4 DEF Check3436ErrorCode, Rewrite, AsProcessed, Row, Marks
  <2>5. CASE CheckMissedNotifications
    <3>1. r \in cmd.valid => cmd.inst[r].status # "SENT"
      BY <2>5 DEF CheckMissedNotifications, Step, Sanitized
    <3>2. r \in cmd.valid => Unarchived(cmd.inst[r]).status # "SENT"
      BY <1>0, <3>1 DEF Unarchived, Row
    <3>3. rows'[r] = IF r \in cmd.valid
                     THEN [rows[r] EXCEPT !.status = Unarchived(cmd.inst[r]).status]
                     ELSE rows[r]
      BY <2>5 DEF CheckMissedNotifications
    <3> QED
      BY <1>0, <3>2, <3>3 DEF Row, Marks
  <2> QED
    BY <1>3, <2>1, <2>2, <2>3, <2>4, <2>5 DEF Sanitize
<1>4. CASE Archiving
  BY <1>0, <1>4 DEF Archiving, ArchiveStart, Archive, Rewrite, AsArchived, Row, Marks
<1>5. CASE Upload
  BY <1>5 DEF Upload, UploadStart, UploadPut, UploadPutError, UploadAbort, UploadEnd, Marks
<1>6. CASE \/ \E q \in Records : HiringChange(q)
           \/ Kill
           \/ \E f \in FileNames : AspAnswer(f)
           \/ UNCHANGED vars
  BY <1>6 DEF HiringChange, Kill, AspAnswer, vars, Marks
<1> QED
  BY <1>1, <1>2, <1>3, <1>4, <1>5, <1>6 DEF Next

(* A file stays on the server until the download removes it.               *)
Stays == \A r, f, n : AwaitedAt(r, f, n) => AwaitedAt(r, f, n)'

LEMMA StepStays == ASSUME TypeOK, Regular, [Next]_vars, ~DownloadClose PROVE Stays
<1>1. CASE \E f \in FileNames : AspAnswer(f)
  <2>1. PICK f \in FileNames : AspAnswer(f)
    BY <1>1
  <2>2. PICK code : outbox' = [outbox EXCEPT ![f] =
               [i \in DOMAIN inbox[f] |-> [er |-> inbox[f][i], code |-> code[i]]]]
    BY <2>1 DEF AspAnswer
  <2>3. /\ DOMAIN outbox'[f] = DOMAIN inbox[f]
        /\ \A i \in DOMAIN inbox[f] : outbox'[f][i].er = inbox[f][i]
        /\ \A g \in FileNames \ {f} : inbox'[g] = inbox[g] /\ outbox'[g] = outbox[g]
    BY <2>1, <2>2 DEF AspAnswer, TypeOK
  <2>4. outbox[f] = <<>>
    BY <2>1 DEF AspAnswer, Regular
  <2>5. \A n : n \notin DOMAIN outbox[f]
    BY <2>4, EmptySeq
  <2> QED
    BY <2>3, <2>5 DEF Stays, AwaitedAt
<1>2. CASE Upload
  <2>1. /\ outbox' = outbox
        /\ \/ inbox' = inbox
           \/ \E f \in Fresh : inbox' = [inbox EXCEPT ![f] = Chunk]
    BY <1>2 DEF Upload, UploadStart, UploadPut, UploadPutError, UploadAbort, UploadMark, UploadEnd
  <2>2. ASSUME NEW f \in Fresh, inbox' = [inbox EXCEPT ![f] = Chunk] PROVE Stays
    <3>1. \A n : n \notin DOMAIN inbox[f]
      BY EmptySeq DEF Fresh
    <3>2. \A g \in FileNames \ {f} : inbox'[g] = inbox[g]
      BY <2>2 DEF TypeOK
    <3> QED
      BY <2>1, <3>1, <3>2 DEF Stays, AwaitedAt
  <2> QED
    BY <2>1, <2>2 DEF Stays, AwaitedAt
<1>3. CASE \/ Web \/ Download \/ Kill \/ Sanitize \/ Archiving
           \/ \E r \in Records : HiringChange(r)
           \/ UNCHANGED vars
  <2>1. UNCHANGED <<inbox, outbox>>
    BY <1>3 DEF Web, WebLoad, WebSave, Download, DownloadStart, DownloadOpen, DownloadFind,
       DownloadLine, DownloadEnd, Kill, Sanitize, SanitizeStart, SanitizeLoad, CheckApprovals,
       CheckJobseekerProfiles, Check3436ErrorCode, CheckMissedNotifications, Archiving,
       ArchiveStart, Archive, HiringChange, vars
  <2> QED
    BY <2>1 DEF Stays, AwaitedAt
<1> QED
  BY <1>1, <1>2, <1>3 DEF Next

LEMMA RowsStay ==
    ASSUME TypeOK, RowsAwaited, Stays, \A r \in Records : Marks(r)
    PROVE  RowsAwaited'
<1> SUFFICES ASSUME NEW r \in Records, rows'[r].status = "SENT"
             PROVE  AwaitedAt(r, rows[r].file, rows[r].line)'
  BY DEF RowsAwaited
<1>1. rows'[r] = rows[r]
  BY DEF Marks
<1>2. PICK f, n : f = rows[r].file /\ n = rows[r].line
  OBVIOUS
<1>3. AwaitedAt(r, f, n)'
  BY <1>1, <1>2 DEF RowsAwaited, Stays
<1> QED
  BY <1>1, <1>2, <1>3 DEF AwaitedAt

LEMMA SameCommandAwaited ==
    ASSUME TypeOK, AwaitedInv, Stays, \A r \in Records : Marks(r), UNCHANGED cmd,
           \A f \in FileNames : outbox[f] # <<>> => outbox'[f] = outbox[f]
    PROVE  AwaitedInv'
<1>1. RowsAwaited'
  BY RowsStay DEF AwaitedInv
<1>2. BatchAwaited'
  <2> SUFFICES ASSUME cmd.task = "upload", NEW i \in DOMAIN cmd.batch
               PROVE  AwaitedAt(cmd.batch[i], cmd.file, cmd.pos + i - 1)'
    BY DEF BatchAwaited
  <2>1. PICK r, f, n : r = cmd.batch[i] /\ f = cmd.file /\ n = cmd.pos + i - 1
    OBVIOUS
  <2>2. AwaitedAt(r, f, n)'
    BY <2>1 DEF AwaitedInv, BatchAwaited, Stays
  <2> QED
    BY <2>1, <2>2 DEF AwaitedAt
<1>3. ReadIsApplied'
  BY DEF AwaitedInv, ReadIsApplied, Marks
<1>4. Held'
  <2> SUFFICES ASSUME Holding, NEW r \in Records, r = Head(cmd.batch)
               PROVE  /\ cmd.file \in FileNames /\ cmd.pos \in DOMAIN outbox'[cmd.file]
                      /\ outbox'[cmd.file][cmd.pos].code # "noline"
                      /\ rows'[r].status = "SENT" => cmd.inst[r].status = "SENT"
    <3>1. Holding => Head(cmd.batch) \in Records
      BY CommandFields, HeadTailProperties DEF Holding
    <3> QED
      BY <3>1 DEF Held, Holding
  <2>1. /\ cmd.file \in FileNames /\ cmd.pos \in DOMAIN outbox[cmd.file]
        /\ outbox[cmd.file][cmd.pos].code # "noline"
        /\ rows[r].status = "SENT" => cmd.inst[r].status = "SENT"
    BY DEF AwaitedInv, Held
  <2>2. outbox'[cmd.file] = outbox[cmd.file]
    BY <2>1, EmptySeq
  <2> QED
    BY <2>1, <2>2 DEF Marks
<1>5. Sanitized'
  BY DEF AwaitedInv, Sanitized
<1> QED
  BY <1>1, <1>2, <1>3, <1>4, <1>5 DEF AwaitedInv

(* A command that ends, or is neither an upload nor a download.            *)
LEMMA OtherCommandAwaited ==
    ASSUME TypeOK, AwaitedInv, Stays, \A r \in Records : Marks(r),
           cmd'.task \notin {"upload", "download"}, Sanitized'
    PROVE  AwaitedInv'
<1>1. RowsAwaited'
  BY RowsStay DEF AwaitedInv
<1> QED
  BY <1>1 DEF AwaitedInv, BatchAwaited, ReadIsApplied, Holding, Held

LEMMA LoadFields ==
    /\ Idle.task = "idle" /\ Idle.valid = {}
    /\ \A S : /\ Load(S).task = "sanitize" /\ Load(S).valid = S
             /\ Load(S).inst = [r \in Records |-> IF r \in S THEN rows[r] ELSE NoRow]
             /\ [Load(S) EXCEPT !.task = "archive"].task = "archive"
<1>1. Idle.task = "idle" /\ Idle.valid = {}
  BY DEF Idle
<1>2. ASSUME NEW S
      PROVE  /\ Load(S).task = "sanitize" /\ Load(S).valid = S
             /\ Load(S).inst = [r \in Records |-> IF r \in S THEN rows[r] ELSE NoRow]
             /\ [Load(S) EXCEPT !.task = "archive"].task = "archive"
  BY DEF Load, Idle
<1> QED
  BY <1>1, <1>2

LEMMA SanitizeAwaited ==
    ASSUME TypeOK, AwaitedInv, Stays, \A r \in Records : Marks(r), Sanitize \/ Archiving
    PROVE  AwaitedInv'
<1>1. cmd'.task \in {"idle", "sanitize", "archive"}
  <2>1. CASE SanitizeStart
    BY <2>1 DEF SanitizeStart, Idle
  <2>2. CASE SanitizeLoad
    <3>1. \E S : cmd' = Load(S)
      BY <2>2 DEF SanitizeLoad
    <3> QED
      BY <3>1, LoadFields
  <2>3. CASE CheckApprovals \/ CheckJobseekerProfiles \/ Check3436ErrorCode
    <3>1. cmd' = Load({}) \/ cmd' = Idle
      BY <2>3 DEF CheckApprovals, CheckJobseekerProfiles, Check3436ErrorCode
    <3> QED
      BY <3>1, LoadFields
  <2>4. CASE CheckMissedNotifications \/ Archive
    BY <2>4, LoadFields DEF CheckMissedNotifications, Archive
  <2>5. CASE ArchiveStart
    <3>1. \E S : cmd' = [Load(S) EXCEPT !.task = "archive"]
      BY <2>5 DEF ArchiveStart
    <3> QED
      BY <3>1, LoadFields
  <2> QED
    BY <2>1, <2>2, <2>3, <2>4, <2>5 DEF Sanitize, Archiving
<1>2. Sanitized'
  <2> SUFFICES ASSUME cmd'.task = "sanitize", NEW r \in cmd'.valid
               PROVE  cmd'.inst[r].status # "SENT"
    BY DEF Sanitized
  <2>1. CASE SanitizeStart
    BY <2>1 DEF SanitizeStart, Idle
  <2>2. CASE SanitizeLoad
    <3>1. PICK S \in SUBSET Records :
            /\ cmd' = Load(S)
            /\ \A q \in S : rows[q].status \in {"PROCESSED", "REJECTED", "ARCHIVED"}
      BY <2>2 DEF SanitizeLoad, Integrated, AspDuplicates, IsDuplicate
    <3>2. /\ cmd'.valid = S
          /\ cmd'.inst = [q \in Records |-> IF q \in S THEN rows[q] ELSE NoRow]
      BY <3>1, LoadFields
    <3> QED
      BY <3>1, <3>2
  <2>3. CASE CheckApprovals \/ CheckJobseekerProfiles \/ Check3436ErrorCode
    <3>1. cmd' = Load({}) \/ cmd' = Idle
      BY <2>3 DEF CheckApprovals, CheckJobseekerProfiles, Check3436ErrorCode
    <3> QED
      BY <3>1, LoadFields
  <2>4. CASE CheckMissedNotifications \/ Archive
    BY <2>4, LoadFields DEF CheckMissedNotifications, Archive
  <2>5. CASE ArchiveStart
    BY <1>1, <2>5, LoadFields DEF ArchiveStart
  <2> QED
    BY <2>1, <2>2, <2>3, <2>4, <2>5 DEF Sanitize, Archiving
<1> QED
  BY <1>1, <1>2, OtherCommandAwaited

(* The upload: what it marks is in the file it has put.                    *)
LEMMA MarkAwaited == TypeOK /\ AwaitedInv /\ UploadMark => AwaitedInv'
<1> SUFFICES ASSUME TypeOK, AwaitedInv, UploadMark PROVE AwaitedInv'
  OBVIOUS
<1>1. /\ cmd.batch \in Seq(Records) /\ cmd.batch # <<>> /\ cmd.pos \in Nat
      /\ cmd.inst \in [Records -> Row] /\ cmd.task = "upload"
  BY CommandFields DEF UploadMark
<1>2. PICK r \in Records : r = Head(cmd.batch)
  BY <1>1, HeadTailProperties
<1>3. /\ rows' = [rows EXCEPT ![r] = AsSent(cmd.inst[r], cmd.file, cmd.pos)]
      /\ cmd' = [cmd EXCEPT !.batch = Tail(cmd.batch), !.pos = cmd.pos + 1]
      /\ UNCHANGED <<inbox, outbox>>
  BY <1>2 DEF UploadMark
<1>4. /\ cmd'.batch = Tail(cmd.batch) /\ cmd'.pos = cmd.pos + 1
      /\ cmd'.file = cmd.file /\ cmd'.task = "upload"
  BY <1>1, <1>3 DEF TypeOK, Command
<1>5. \A q, f, n : AwaitedAt(q, f, n) => AwaitedAt(q, f, n)'
  BY <1>3 DEF AwaitedAt
<1>6. /\ 1 \in DOMAIN cmd.batch /\ cmd.batch[1] = r /\ cmd.pos + 1 - 1 = cmd.pos
  BY <1>1, <1>2, LenProperties, EmptySeq
<1>7. AwaitedAt(r, cmd.file, cmd.pos)
  BY <1>1, <1>6 DEF AwaitedInv, BatchAwaited
<1>8. RowsAwaited'
  <2> SUFFICES ASSUME NEW q \in Records, rows'[q].status = "SENT"
               PROVE  AwaitedAt(q, rows[q].file, rows[q].line)'
    BY DEF RowsAwaited
  <2>1. PICK f, n : f = rows'[q].file /\ n = rows'[q].line
    OBVIOUS
  <2>2. AwaitedAt(q, f, n)
    <3>1. CASE q # r
      <4>1. rows'[q] = rows[q]
        BY <1>3, <3>1 DEF TypeOK
      <4> QED
        BY <2>1, <4>1 DEF AwaitedInv, RowsAwaited
    <3>2. CASE q = r
      <4>1. rows'[q] = AsSent(cmd.inst[r], cmd.file, cmd.pos)
        BY <1>3, <3>2 DEF TypeOK
      <4>2. rows'[q].file = cmd.file /\ rows'[q].line = cmd.pos
        BY <1>1, <4>1 DEF AsSent, Row
      <4> QED
        BY <1>7, <2>1, <3>2, <4>2
    <3> QED
      BY <3>1, <3>2
  <2>3. AwaitedAt(q, f, n)'
    BY <1>5, <2>2
  <2> QED
    BY <2>1, <2>3 DEF AwaitedAt
<1>9. BatchAwaited'
  <2> SUFFICES ASSUME NEW i \in DOMAIN cmd'.batch
               PROVE  AwaitedAt(cmd.batch[i], cmd.file, cmd.pos + i - 1)'
    BY DEF BatchAwaited
  <2>1. /\ i \in Nat /\ i + 1 \in DOMAIN cmd.batch
        /\ Tail(cmd.batch)[i] = cmd.batch[i + 1]
    <3>1. i \in DOMAIN Tail(cmd.batch)
      BY <1>4
    <3> QED
      BY <1>1, <3>1, HeadTailProperties, LenProperties
  <2>2. cmd.pos + (i + 1) - 1 = cmd.pos + 1 + i - 1
    <3>1. cmd.pos \in Nat /\ i \in Nat
      BY <1>1, <2>1
    <3>2. \A a, b \in Nat : a + (b + 1) - 1 = a + 1 + b - 1
      OBVIOUS
    <3> QED
      BY <3>1, <3>2
  <2>3. PICK q, f, n : q = Tail(cmd.batch)[i] /\ f = cmd.file /\ n = cmd.pos + 1 + i - 1
    OBVIOUS
  <2>4. AwaitedAt(q, f, n)
    BY <1>1, <2>1, <2>2, <2>3 DEF AwaitedInv, BatchAwaited
  <2>5. AwaitedAt(q, f, n)'
    BY <1>5, <2>4
  <2> QED
    BY <1>4, <2>3, <2>5 DEF AwaitedAt
<1> QED
  BY <1>4, <1>8, <1>9 DEF AwaitedInv, ReadIsApplied, Holding, Held, Sanitized

LEMMA UploadAwaited ==
    ASSUME TypeOK, AwaitedInv, Stays, Upload, UploadMark \/ \A r \in Records : Marks(r)
    PROVE  AwaitedInv'
<1>1. CASE UploadMark
  BY <1>1, MarkAwaited
<1>2. CASE (UploadAbort \/ UploadEnd) /\ \A r \in Records : Marks(r)
  <2>1. cmd' = Idle
    BY <1>2 DEF UploadAbort, UploadEnd
  <2> QED
    BY <1>2, <2>1, OtherCommandAwaited DEF Idle, Sanitized
<1>3. CASE (UploadStart \/ UploadPutError) /\ \A r \in Records : Marks(r)
  <2>1. cmd'.task = "upload" /\ cmd'.batch = <<>>
    BY <1>3 DEF UploadStart, UploadPutError, Uploading, Idle, TypeOK, Command
  <2>2. \A i : i \notin DOMAIN cmd'.batch
    BY <2>1, EmptySeq
  <2>3. RowsAwaited'
    BY <1>3, RowsStay DEF AwaitedInv
  <2> QED
    BY <2>1, <2>2, <2>3 DEF AwaitedInv, BatchAwaited, ReadIsApplied, Holding, Held, Sanitized
<1>4. CASE UploadPut /\ \A r \in Records : Marks(r)
  <2>1. PICK f \in Fresh :
          /\ inbox' = [inbox EXCEPT ![f] = Chunk]
          /\ cmd' = [cmd EXCEPT !.todo = Rest, !.batch = Chunk, !.file = f, !.pos = 1,
                       !.valid = {r \in Elements(Chunk) : hiring[r] = "ok"}]
    BY <1>4 DEF UploadPut
  <2>2. /\ cmd'.task = "upload" /\ cmd'.batch = Chunk /\ cmd'.file = f /\ cmd'.pos = 1
    BY <1>4, <2>1 DEF UploadPut, Uploading, TypeOK, Command
  <2>3. f \in FileNames /\ inbox'[f] = Chunk
    BY <2>1 DEF Fresh, TypeOK
  <2>4. Chunk \in Seq(Records)
    BY ChunkType
  <2>5. \A i \in DOMAIN Chunk : 1 + i - 1 = i
    BY <2>4, LenProperties
  <2>6. BatchAwaited'
    BY <2>2, <2>3, <2>5 DEF BatchAwaited, AwaitedAt
  <2>7. RowsAwaited'
    BY <1>4, RowsStay DEF AwaitedInv
  <2> QED
    BY <2>2, <2>6, <2>7 DEF AwaitedInv, ReadIsApplied, Holding, Held, Sanitized
<1> QED
  BY <1>1, <1>2, <1>3, <1>4 DEF Upload

(* The download: a line leaves nothing SENT behind it.                     *)
LEMMA FindAwaited ==
    ASSUME TypeOK, AwaitedInv, Stays, \A r \in Records : Marks(r), DownloadFind
    PROVE  AwaitedInv'
<1>1. /\ cmd \in Command /\ cmd.pos \in Nat /\ cmd.inst \in [Records -> Row]
      /\ cmd.file \in FileNames /\ cmd.task = "download" /\ cmd.batch = <<>>
      /\ cmd.pos \in DOMAIN outbox[cmd.file] /\ UNCHANGED <<rows, outbox>>
  BY CommandFields DEF DownloadFind, Reading, TypeOK
<1>2. RowsAwaited'
  BY RowsStay DEF AwaitedInv
<1>3. PICK noline \in BOOLEAN : noline = (outbox[cmd.file][cmd.pos].code = "noline")
  OBVIOUS
<1>0. CASE cmd' = NextFile
  <2>1. cmd'.task = "download" /\ cmd'.batch = <<>> /\ cmd'.file = NoFile
    BY <1>0, <1>1 DEF NextFile, Command
  <2> QED
    BY <1>2, <2>1 DEF AwaitedInv, BatchAwaited, ReadIsApplied, Holding, Held, Sanitized
<1>4. CASE FindByBatch(cmd.file, cmd.pos) = {} /\ cmd' = NextLine
  <2>1. /\ cmd'.task = "download" /\ cmd'.batch = <<>> /\ cmd'.file = cmd.file
        /\ cmd'.pos = cmd.pos + 1
    BY <1>1, <1>4 DEF NextLine, Command
  <2>2. ASSUME NEW r \in Records, rows[r].status = "SENT", rows[r].file = cmd.file
        PROVE  rows[r].line >= cmd.pos + 1
    <3>1. rows[r].line # cmd.pos
      BY <1>4, <2>2 DEF FindByBatch
    <3>2. rows[r].line \in Nat /\ rows[r].line >= cmd.pos
      BY <1>1, <2>2, RecordAssumption DEF AwaitedInv, ReadIsApplied, TypeOK, Row
    <3> QED
      BY <1>1, <3>1, <3>2
  <2>3. ReadIsApplied'
    BY <1>1, <2>1, <2>2 DEF ReadIsApplied
  <2> QED
    BY <1>2, <2>1, <2>3 DEF AwaitedInv, BatchAwaited, Holding, Held, Sanitized
<1>5. CASE /\ ~noline
           /\ \E r \in FindByBatch(cmd.file, cmd.pos) :
                cmd' = [cmd EXCEPT !.batch = <<r>>, !.inst = [cmd.inst EXCEPT ![r] = rows[r]]]
  <2>1. PICK r \in FindByBatch(cmd.file, cmd.pos) :
          cmd' = [cmd EXCEPT !.batch = <<r>>, !.inst = [cmd.inst EXCEPT ![r] = rows[r]]]
    BY <1>5
  <2>2. /\ cmd'.task = "download" /\ cmd'.batch = <<r>> /\ cmd'.file = cmd.file
        /\ cmd'.pos = cmd.pos
        /\ cmd'.inst = [cmd.inst EXCEPT ![r] = rows[r]]
    BY <1>1, <2>1 DEF Command
  <2>3. r \in Records /\ Head(<<r>>) = r
    BY DEF FindByBatch
  <2>4. cmd'.inst[r] = rows[r]
    BY <1>1, <2>2, <2>3
  <2>5. Held'
    <3>1. outbox[cmd.file][cmd.pos].code # "noline"
      BY <1>3, <1>5
    <3>2. Head(cmd'.batch) = r
      BY <2>2, <2>3
    <3>3. /\ cmd'.file \in FileNames /\ cmd'.pos \in DOMAIN outbox'[cmd'.file]
          /\ outbox'[cmd'.file][cmd'.pos].code # "noline"
          /\ rows'[r].status = "SENT" => cmd'.inst[r].status = "SENT"
      BY <1>1, <2>2, <2>4, <3>1
    <3> QED
      BY <3>2, <3>3 DEF Held
  <2>6. ReadIsApplied'
    BY <1>1, <2>2 DEF AwaitedInv, ReadIsApplied
  <2> QED
    BY <1>2, <2>2, <2>5, <2>6 DEF AwaitedInv, BatchAwaited, Sanitized
<1>6. \/ cmd' = NextFile
      \/ FindByBatch(cmd.file, cmd.pos) = {} /\ cmd' = NextLine
      \/ /\ ~noline
         /\ \E r \in FindByBatch(cmd.file, cmd.pos) :
              cmd' = [cmd EXCEPT !.batch = <<r>>, !.inst = [cmd.inst EXCEPT ![r] = rows[r]]]
  BY <1>3 DEF DownloadFind
<1> QED
  BY <1>0, <1>4, <1>5, <1>6

(* An answer applied to a copy that is SENT, with a valid profile, settles *)
(* the record.                                                             *)
LEMMA AnswerSettles ==
    ASSUME NEW row \in Row, NEW c \in Codes, c # "noline", row.status = "SENT"
    PROVE  /\ ~Raises(row, "ok", c)
           /\ Answered(row, "ok", c) # row
           /\ Answered(row, "ok", c).status \in {"PROCESSED", "REJECTED"}
<1>1. c \in {SuccessCode, DuplicateCode} \union RejectionCode
  BY DEF Codes
<1>2. c \notin RejectionCode \/ c \notin {SuccessCode, DuplicateCode}
  BY RecordAssumption DEF SuccessCode, DuplicateCode
<1>3. ~Raises(row, "ok", c)
  BY DEF Raises
<1>4. Accepts(row, "ok", c) \/ Forces(row, "ok", c) \/ Rejects(row, "ok", c)
  BY <1>1 DEF Accepts, Forces, Rejects
<1>5. Answered(row, "ok", c).status \in {"PROCESSED", "REJECTED"}
  BY <1>4 DEF Answered, AsProcessed, AsRejected, Row
<1> QED
  BY <1>3, <1>5

LEMMA LineAwaited ==
    ASSUME TypeOK, ExchangeInv, Regular, AwaitedInv, Stays, \A r \in Records : Marks(r),
           DownloadLine
    PROVE  AwaitedInv'
<1>1. /\ cmd \in Command /\ cmd.pos \in Nat /\ cmd.inst \in [Records -> Row]
      /\ cmd.batch \in Seq(Records) /\ cmd.batch # <<>>
      /\ cmd.file \in FileNames /\ cmd.task = "download"
      /\ cmd.pos \in DOMAIN outbox[cmd.file]
  BY CommandFields DEF DownloadLine, Reading, TypeOK
<1>2. PICK r \in Records : r = Head(cmd.batch)
  BY <1>1, HeadTailProperties
<1>3. PICK c : c = outbox[cmd.file][cmd.pos].code
  OBVIOUS
<1>4. RowsAwaited'
  BY RowsStay DEF AwaitedInv
<1>5. IF Raises(cmd.inst[r], hiring[r], c)
      THEN cmd' = NextFile
      ELSE /\ cmd' = NextLine
           /\ Answered(cmd.inst[r], hiring[r], c) # cmd.inst[r] =>
                rows' = [rows EXCEPT ![r] = Answered(cmd.inst[r], hiring[r], c)]
  BY <1>2, <1>3 DEF DownloadLine
<1>6. CASE cmd' = NextFile
  <2>1. cmd'.task = "download" /\ cmd'.batch = <<>> /\ cmd'.file = NoFile
    BY <1>1, <1>6 DEF NextFile, Command
  <2> QED
    BY <1>4, <2>1 DEF AwaitedInv, BatchAwaited, ReadIsApplied, Holding, Held, Sanitized
<1>7. CASE /\ ~Raises(cmd.inst[r], hiring[r], c)
           /\ cmd' = NextLine
           /\ Answered(cmd.inst[r], hiring[r], c) # cmd.inst[r] =>
                rows' = [rows EXCEPT ![r] = Answered(cmd.inst[r], hiring[r], c)]
  <2>1. /\ cmd'.task = "download" /\ cmd'.batch = <<>> /\ cmd'.file = cmd.file
        /\ cmd'.pos = cmd.pos + 1
    BY <1>1, <1>7 DEF NextLine, Command
  <2>2. ASSUME NEW q \in Records, rows'[q].status = "SENT", rows'[q].file = cmd.file
        PROVE  rows'[q].line >= cmd.pos + 1
    <3>1. rows'[q] = rows[q]
      BY <2>2 DEF Marks
    <3>2. rows[q].line \in Nat /\ rows[q].line >= cmd.pos
      BY <1>1, <2>2, <3>1, RecordAssumption DEF AwaitedInv, ReadIsApplied, TypeOK, Row
    <3>3. ASSUME rows[q].line = cmd.pos PROVE FALSE
      <4>1. inbox[cmd.file] = <<>>
        BY <1>1, EmptySeq DEF Regular
      <4>2. outbox[cmd.file][cmd.pos].er = q
        BY <2>2, <3>1, <3>3, <4>1, EmptySeq DEF AwaitedInv, RowsAwaited, AwaitedAt
      <4>3. 1 \in DOMAIN cmd.batch /\ cmd.batch[1] = r /\ cmd.pos + 1 - 1 = cmd.pos
        BY <1>1, <1>2, LenProperties, EmptySeq
      <4>4. outbox[cmd.file][cmd.pos].er = r
        BY <1>1, <4>3 DEF ExchangeInv, BatchIsInFile
      <4>5. q = r
        BY <4>2, <4>4
      <4>6. cmd.inst[r].status = "SENT" /\ c # "noline"
        BY <1>1, <1>2, <1>3, <2>2, <3>1, <4>5 DEF AwaitedInv, Held, Holding
      <4>7. c \in Codes /\ hiring[r] = "ok" /\ cmd.inst[r] \in Row
        BY <1>1, <1>3 DEF Regular
      <4>8. /\ Answered(cmd.inst[r], hiring[r], c) # cmd.inst[r]
            /\ Answered(cmd.inst[r], hiring[r], c).status \in {"PROCESSED", "REJECTED"}
        BY <4>6, <4>7, AnswerSettles
      <4>9. rows'[r] = Answered(cmd.inst[r], hiring[r], c)
        BY <1>7, <4>8 DEF TypeOK
      <4> QED
        BY <2>2, <4>5, <4>8, <4>9
    <3> QED
      BY <1>1, <3>1, <3>2, <3>3
  <2>3. ReadIsApplied'
    BY <1>1, <2>1, <2>2 DEF ReadIsApplied
  <2> QED
    BY <1>4, <2>1, <2>3 DEF AwaitedInv, BatchAwaited, Holding, Held, Sanitized
<1> QED
  BY <1>5, <1>6, <1>7

(* Every line of the file that is removed has been applied.                *)
LEMMA CloseAwaited ==
    ASSUME TypeOK, AwaitedInv, DownloadClose
    PROVE  AwaitedInv'
<1>1. /\ cmd \in Command /\ cmd.pos \in Nat /\ cmd.file \in FileNames
      /\ cmd.task = "download" /\ cmd.pos \notin DOMAIN outbox[cmd.file]
      /\ UNCHANGED <<rows, inbox>>
      /\ outbox' = [outbox EXCEPT ![cmd.file] = <<>>]
  BY CommandFields DEF DownloadClose, Reading, TypeOK
<1>2. cmd'.task = "download" /\ cmd'.batch = <<>> /\ cmd'.file = NoFile
  BY <1>1 DEF DownloadClose, NextFile, Command
<1>3. RowsAwaited'
  <2> SUFFICES ASSUME NEW r \in Records, rows[r].status = "SENT"
               PROVE  AwaitedAt(r, rows[r].file, rows[r].line)'
    BY <1>1 DEF RowsAwaited
  <2>1. PICK f, n : f = rows[r].file /\ n = rows[r].line
    OBVIOUS
  <2>2. AwaitedAt(r, f, n)
    BY <2>1 DEF AwaitedInv, RowsAwaited
  <2>3. CASE f # cmd.file
    <3>1. outbox'[f] = outbox[f]
      BY <1>1, <2>2, <2>3 DEF TypeOK, AwaitedAt
    <3> QED
      BY <1>1, <2>1, <2>2, <3>1 DEF AwaitedAt
  <2>4. CASE f = cmd.file
    <3>1. cmd.pos >= 1 /\ n >= cmd.pos /\ n \in Nat
      BY <1>1, <2>1, <2>4, RecordAssumption DEF AwaitedInv, ReadIsApplied, TypeOK, Row
    <3>2. DOMAIN outbox[f] = 1..Len(outbox[f]) /\ Len(outbox[f]) \in Nat
      BY <1>1, <2>4, LenProperties DEF TypeOK
    <3>3. n \notin DOMAIN outbox[f]
      BY <1>1, <2>4, <3>1, <3>2
    <3> QED
      BY <1>1, <2>1, <2>2, <3>3 DEF AwaitedAt
  <2> QED
    BY <2>3, <2>4
<1> QED
  BY <1>2, <1>3 DEF AwaitedInv, BatchAwaited, ReadIsApplied, Holding, Held, Sanitized

LEMMA DownloadAwaited ==
    ASSUME TypeOK, ExchangeInv, Regular, AwaitedInv, DownloadClose \/ Stays,
           \A r \in Records : Marks(r), Download
    PROVE  AwaitedInv'
<1>1. CASE DownloadStart /\ Stays
  <2>1. cmd'.task = "download" /\ cmd'.batch = <<>> /\ cmd'.file = NoFile
    BY <1>1 DEF DownloadStart, Idle
  <2>2. RowsAwaited'
    BY <1>1, RowsStay DEF AwaitedInv
  <2> QED
    BY <2>1, <2>2 DEF AwaitedInv, BatchAwaited, ReadIsApplied, Holding, Held, Sanitized
<1>2. CASE DownloadOpen /\ Stays
  <2>1. PICK f \in cmd.files : cmd' = [cmd EXCEPT !.file = f, !.pos = 1, !.files = cmd.files \ {f}]
    BY <1>2 DEF DownloadOpen
  <2>2. /\ cmd'.task = "download" /\ cmd'.batch = <<>> /\ cmd'.file = f
        /\ cmd'.pos = 1 /\ UNCHANGED rows
    BY <1>2, <2>1, NoFileNoBatch DEF DownloadOpen, TypeOK, Command
  <2>3. ASSUME NEW r \in Records, rows[r].status = "SENT" PROVE rows[r].line >= 1
    <3>1. PICK g, n : g = rows[r].file /\ n = rows[r].line
      OBVIOUS
    <3>2. g \in FileNames /\ (n \in DOMAIN inbox[g] \/ n \in DOMAIN outbox[g])
      BY <2>3, <3>1 DEF AwaitedInv, RowsAwaited, AwaitedAt
    <3>3. /\ DOMAIN inbox[g] = 1..Len(inbox[g]) /\ DOMAIN outbox[g] = 1..Len(outbox[g])
      BY <3>2, LenProperties DEF TypeOK
    <3>4. n \in Nat
      BY <3>1 DEF TypeOK, Row
    <3> QED
      BY <3>1, <3>2, <3>3, <3>4
  <2>4. RowsAwaited'
    BY <1>2, RowsStay DEF AwaitedInv
  <2>5. ReadIsApplied'
    BY <2>2, <2>3 DEF ReadIsApplied
  <2> QED
    BY <2>2, <2>4, <2>5 DEF AwaitedInv, BatchAwaited, Holding, Held, Sanitized
<1>3. CASE DownloadEnd /\ Stays
  <2>1. cmd' = Idle
    BY <1>3 DEF DownloadEnd
  <2> QED
    BY <1>3, <2>1, OtherCommandAwaited DEF Idle, Sanitized
<1> QED
  BY <1>1, <1>2, <1>3, FindAwaited, LineAwaited, CloseAwaited DEF Download

LEMMA NextAwaited ==
    ASSUME TypeOK, ExchangeInv, Regular, AwaitedInv, [Next]_vars
    PROVE  AwaitedInv'
<1>1. UploadMark \/ \A r \in Records : Marks(r)
  BY StepMarks DEF AwaitedInv
<1>2. DownloadClose \/ Stays
  BY StepStays
<1>3. UploadMark => Upload /\ ~DownloadClose
  BY DEF Upload, UploadMark, DownloadClose
<1>4. DownloadClose => Download /\ ~UploadMark
  BY <1>3 DEF Download
<1>5. CASE UploadMark \/ DownloadClose
  BY <1>1, <1>2, <1>3, <1>4, <1>5, UploadAwaited, DownloadAwaited
<1>6. CASE (\A r \in Records : Marks(r)) /\ Stays
  <2>1. CASE Upload
    BY <1>6, <2>1, UploadAwaited
  <2>2. CASE Download
    BY <1>6, <2>2, DownloadAwaited
  <2>3. CASE Sanitize \/ Archiving
    BY <1>6, <2>3, SanitizeAwaited
  <2>4. CASE Kill
    <3>1. cmd' = Idle
      BY <2>4 DEF Kill
    <3> QED
      BY <1>6, <3>1, OtherCommandAwaited DEF Idle, Sanitized
  <2>5. CASE \E f \in FileNames : AspAnswer(f)
    <3>1. PICK f \in FileNames : AspAnswer(f)
      BY <2>5
    <3>2. outbox[f] = <<>>
      BY <3>1 DEF AspAnswer, Regular
    <3>3. cmd' = cmd /\ \A g \in FileNames : outbox[g] # <<>> => outbox'[g] = outbox[g]
      BY <3>1, <3>2 DEF AspAnswer, TypeOK
    <3> QED
      BY <1>6, <3>3, SameCommandAwaited
  <2>6. CASE Web \/ (\E r \in Records : HiringChange(r)) \/ UNCHANGED vars
    <3>1. UNCHANGED <<cmd, outbox>>
      BY <2>6 DEF Web, WebLoad, WebSave, HiringChange, vars
    <3> QED
      BY <1>6, <3>1, SameCommandAwaited
  <2> QED
    BY <2>1, <2>2, <2>3, <2>4, <2>5, <2>6 DEF Next
<1> QED
  BY <1>1, <1>2, <1>5, <1>6

(* While the profiles stay valid, a record that was sent keeps its file on *)
(* the server, at the line it remembers, until its answer is applied:      *)
(* whatever commands are killed, transfers fail, requests save stale       *)
(* copies, answers lack their line, records are sanitized or archived.     *)
THEOREM SentAreAwaited == "hiring_change" \notin Disruptions => (Spec => []SentIsAwaited)
<1> SUFFICES ASSUME "hiring_change" \notin Disruptions PROVE Spec => []SentIsAwaited
  OBVIOUS
<1> DEFINE Inv == TypeOK /\ ExchangeInv /\ Regular /\ AwaitedInv
<1>1. Init => Inv
  BY InitType, InitExchange, InitRegular, InitAwaited
<1>2. Inv /\ [Next]_vars => Inv'
  BY NextType, NextExchange, NextRegular, NextAwaited
<1>3. Inv => SentIsAwaited
  BY DEF AwaitedInv, RowsAwaited, AwaitedAt, SentIsAwaited
<1> QED
  BY <1>1, <1>2, <1>3, PTL DEF Spec

(* Only the download empties a feedback file, and it changes no row then.  *)
LEMMA EmptiedByDownload ==
    ASSUME TypeOK, Regular, [Next]_vars, NEW f \in FileNames,
           outbox[f] # <<>>, outbox'[f] = <<>>
    PROVE  UNCHANGED <<rows, inbox>>
<1>1. CASE DownloadClose
  BY <1>1 DEF DownloadClose
<1>2. CASE (Download /\ ~DownloadClose) \/ Web \/ Upload \/ Kill \/ Sanitize \/ Archiving
           \/ (\E r \in Records : HiringChange(r)) \/ UNCHANGED vars
  <2>1. outbox' = outbox
    BY <1>2 DEF Download, DownloadStart, DownloadOpen, DownloadFind, DownloadLine, DownloadEnd,
       Web, WebLoad, WebSave, Upload, UploadStart, UploadPut, UploadPutError, UploadAbort,
       UploadMark, UploadEnd, Kill, Sanitize, SanitizeStart, SanitizeLoad, CheckApprovals,
       CheckJobseekerProfiles, Check3436ErrorCode, CheckMissedNotifications, Archiving,
       ArchiveStart, Archive, HiringChange, vars
  <2> QED
    BY <2>1
<1>3. ASSUME NEW g \in FileNames, AspAnswer(g) PROVE FALSE
  <2>1. outbox[g] = <<>>
    BY <1>3 DEF AspAnswer, Regular
  <2>2. g # f
    BY <2>1
  <2>3. outbox'[f] = outbox[f]
    BY <1>3, <2>2 DEF AspAnswer, TypeOK
  <2> QED
    BY <2>3
<1> QED
  BY <1>1, <1>2, <1>3 DEF Next

(* While the profiles stay valid, the download removes a feedback file     *)
(* only once none of its rows waits for an answer: what loses an answer is *)
(* a profile that clean() refuses since the upload, whatever else fails    *)
(* (the command removes the file when no line of it was in error).         *)
THEOREM RemovedAreApplied == "hiring_change" \notin Disruptions => (Spec => RemovedIsApplied)
<1> SUFFICES ASSUME "hiring_change" \notin Disruptions PROVE Spec => RemovedIsApplied
  OBVIOUS
<1> DEFINE Inv == TypeOK /\ ExchangeInv /\ Regular /\ AwaitedInv
<1> DEFINE Step1 == \A f \in FileNames : outbox[f] # <<>> /\ outbox'[f] = <<>> =>
                        \A n \in DOMAIN outbox[f] : \A r \in FindByBatch(f, n) :
                            rows'[r].status # "SENT"
<1>1. Init => Inv
  BY InitType, InitExchange, InitRegular, InitAwaited
<1>2. Inv /\ [Next]_vars => Inv'
  BY NextType, NextExchange, NextRegular, NextAwaited
<1>3. Inv /\ [Next]_vars => [Step1]_vars
  <2> SUFFICES ASSUME Inv, [Next]_vars, NEW f \in FileNames,
                      outbox[f] # <<>>, outbox'[f] = <<>>,
                      NEW n \in DOMAIN outbox[f], NEW r \in FindByBatch(f, n),
                      rows'[r].status = "SENT"
               PROVE  FALSE
    OBVIOUS
  <2>1. UNCHANGED <<rows, inbox>> /\ inbox[f] = <<>>
    BY EmptiedByDownload DEF Regular
  <2>2. r \in Records /\ rows'[r].file = f
    BY <2>1 DEF FindByBatch
  <2>3. RowsAwaited'
    BY <1>2 DEF AwaitedInv
  <2>4. \E k : k \in DOMAIN inbox'[f] \/ k \in DOMAIN outbox'[f]
    BY <2>2, <2>3 DEF RowsAwaited, AwaitedAt
  <2> QED
    BY <2>1, <2>4, EmptySeq
<1> QED
  BY <1>1, <1>2, <1>3, PTL DEF Spec, RemovedIsApplied

-----------------------------------------------------------------------------
(***************************************************************************)
(* An answer integrates a record that is waiting for it, when no feedback  *)
(* file is read twice and no other command changes the records.            *)
(***************************************************************************)

OnlyUploadsFail == Disruptions \subseteq {"kill_upload", "put_error"}

(* The line is going to be read.                                           *)
Pending(f, n) ==
    \/ n \in DOMAIN inbox[f]
    \/ n \in DOMAIN outbox[f] /\ ~(cmd.task = "download" /\ cmd.file = f /\ n < cmd.pos)

(* A copy of a row that does not wait for an answer will not get one.      *)
Settled(row) ==
    row.status # "SENT" =>
        \A f \in FileNames, n \in Nat : row.file = f /\ row.line = n => ~Pending(f, n)

HeldSent ==
    Holding =>
        LET row == cmd.inst[Head(cmd.batch)] IN
        /\ cmd.file \in FileNames /\ cmd.pos \in DOMAIN outbox[cmd.file]
        /\ row.status = "SENT" /\ row.file = cmd.file /\ row.line = cmd.pos

OnceInv ==
    /\ cmd.task \in {"idle", "upload", "download"}
    /\ \A r \in Records : Settled(rows[r])
    /\ \A w \in Workers : web[w] # NoRequest => Settled(web[w].save)
    /\ HeldSent

Shrinks == \A f \in FileNames, n \in Nat : Pending(f, n)' => Pending(f, n)

LEMMA SettledStable == ASSUME Shrinks, NEW row, Settled(row) PROVE Settled(row)'
BY DEF Shrinks, Settled

LEMMA InitOnce == Init => OnceInv
<1> SUFFICES ASSUME Init PROVE OnceInv
  OBVIOUS
<1>1. cmd.task = "idle"
  BY DEF Init, Idle
<1>2. \A n : n \notin DOMAIN <<>>
  BY EmptySeq
<1>3. \A f \in FileNames, n \in Nat : ~Pending(f, n)
  BY <1>2 DEF Init, Pending
<1>4. \A row : Settled(row)
  BY <1>3 DEF Settled
<1>5. \A w \in Workers : web[w] = NoRequest
  BY DEF Init
<1> QED
  BY <1>1, <1>4, <1>5 DEF OnceInv, HeldSent, Holding

(* The table and the requests are as they were.                            *)
LEMMA QuietOnce ==
    ASSUME OnceInv, Shrinks, UNCHANGED <<rows, web>>,
           cmd'.task \in {"idle", "upload", "download"},
           HeldSent'
    PROVE  OnceInv'
<1>1. \A row : Settled(row) => Settled(row)'
  BY SettledStable
<1>2. \A r \in Records : Settled(rows[r])'
  BY <1>1 DEF OnceInv
<1>3. \A w \in Workers : web'[w] # NoRequest => Settled(web[w].save)'
  BY <1>1 DEF OnceInv
<1> QED
  BY <1>2, <1>3 DEF OnceInv

LEMMA SavedSettled ==
    ASSUME NEW op \in Operations, NEW r, NEW row \in Row, Allowed(op, r, row), Settled(row)
    PROVE  Settled(Saved(op, row))
<1>1. op \in {"create", "edit", "ready", "disable", "reactivate"}
  BY TransferAssumption
<1>2. CASE op = "create"
  BY <1>2, RecordAssumption DEF Saved, FromJobApplication, NoRow, Settled
<1>3. CASE op # "create"
  <2>1. row.status # "SENT"
    BY <1>1, <1>3 DEF Allowed, InTunnel, CanBeDisabled, CanBeReactivated
  <2>2. Saved(op, row).file = row.file /\ Saved(op, row).line = row.line
    BY <1>1, <1>3 DEF Saved, AsReady, AsDisabled, AsNew, Row
  <2> QED
    BY <2>1, <2>2 DEF Settled
<1> QED
  BY <1>2, <1>3

LEMMA WebOnce == TypeOK /\ OnceInv /\ Web => OnceInv'
<1> SUFFICES ASSUME TypeOK, OnceInv, NEW w \in Workers,
                    \/ \E r \in Records, op \in Operations : WebLoad(w, r, op)
                    \/ WebSave(w)
             PROVE  OnceInv'
  BY DEF Web
<1>1. UNCHANGED <<cmd, inbox, outbox>>
  BY DEF WebLoad, WebSave
<1>2. Shrinks
  BY <1>1 DEF Shrinks, Pending
<1>3. \A row : Settled(row) => Settled(row)'
  BY <1>2, SettledStable
<1>4. HeldSent'
  BY <1>1 DEF OnceInv, HeldSent, Holding
<1>5. CASE \E r \in Records, op \in Operations : WebLoad(w, r, op)
  <2>1. PICK r \in Records, op \in Operations : WebLoad(w, r, op)
    BY <1>5
  <2>2. Settled(Saved(op, rows[r]))'
    <3>1. rows[r] \in Row /\ Settled(rows[r]) /\ Allowed(op, r, rows[r])
      BY <2>1 DEF WebLoad, TypeOK, OnceInv
    <3>2. PICK row : row = Saved(op, rows[r]) /\ UNCHANGED rows
      BY <2>1 DEF WebLoad
    <3>3. Settled(row)
      BY <3>1, <3>2, SavedSettled
    <3>4. Settled(row)'
      BY <1>3, <3>3
    <3> QED
      BY <3>2, <3>4 DEF Settled
  <2>3. \A v \in Workers : web'[v] # NoRequest => Settled(web[v].save)'
    <3> SUFFICES ASSUME NEW v \in Workers, web'[v] # NoRequest
                 PROVE  Settled(web[v].save)'
      OBVIOUS
    <3>1. CASE v = w
      <4>1. web'[v].save = Saved(op, rows[r]) /\ UNCHANGED rows
        BY <2>1, <3>1 DEF WebLoad, TypeOK
      <4> QED
        BY <2>2, <4>1 DEF Settled
    <3>2. CASE v # w
      <4>1. web'[v] = web[v]
        BY <2>1, <3>2 DEF WebLoad, TypeOK
      <4> QED
        BY <1>3, <4>1 DEF OnceInv
    <3> QED
      BY <3>1, <3>2
  <2>4. \A q \in Records : Settled(rows[q])'
    BY <1>3, <2>1 DEF WebLoad, OnceInv
  <2> QED
    BY <1>1, <1>4, <2>3, <2>4 DEF OnceInv
<1>6. CASE WebSave(w)
  <2>1. ASSUME NEW q \in Records PROVE Settled(rows[q])'
    <3>1. rows'[q] = rows[q] \/ (web[w] # NoRequest /\ rows'[q] = web[w].save)
      BY <1>6 DEF WebSave, TypeOK
    <3>2. PICK row : row = rows'[q] /\ Settled(row)
      BY <3>1 DEF OnceInv
    <3>3. Settled(row)'
      BY <1>3, <3>2
    <3> QED
      BY <3>2, <3>3 DEF Settled
  <2>2. \A v \in Workers : web'[v] # NoRequest => Settled(web[v].save)'
    <3> SUFFICES ASSUME NEW v \in Workers, web'[v] # NoRequest
                 PROVE  Settled(web[v].save)'
      OBVIOUS
    <3>1. web'[v] = web[v]
      BY <1>6 DEF WebSave, TypeOK
    <3> QED
      BY <1>3, <3>1 DEF OnceInv
  <2> QED
    BY <1>1, <1>4, <2>1, <2>2 DEF OnceInv
<1> QED
  BY <1>5, <1>6

(* A file takes a name that no copy of a row remembers.                    *)
LEMMA PutOnce ==
    ASSUME TypeOK, OnceInv, NEW f \in Fresh, inbox' = [inbox EXCEPT ![f] = Chunk],
           UNCHANGED <<rows, web, outbox>>, cmd.task = "upload", cmd'.task = "upload"
    PROVE  OnceInv'
<1>1. ASSUME NEW row, row.file # f, Settled(row) PROVE Settled(row)'
  <2>1. \A g \in FileNames \ {f} : inbox'[g] = inbox[g]
    BY DEF TypeOK
  <2>2. \A g \in FileNames \ {f}, n \in Nat : Pending(g, n)' => Pending(g, n)
    BY <2>1 DEF Pending
  <2> QED
    BY <1>1, <2>2 DEF Settled
<1>2. \A r \in Records : Settled(rows[r])'
  BY <1>1 DEF OnceInv, Fresh
<1>3. \A w \in Workers : web'[w] # NoRequest => Settled(web[w].save)'
  BY <1>1 DEF OnceInv, Fresh
<1> QED
  BY <1>2, <1>3 DEF OnceInv, HeldSent, Holding

LEMMA UploadOnce == TypeOK /\ OnceInv /\ Upload => OnceInv'
<1> SUFFICES ASSUME TypeOK, OnceInv, Upload PROVE OnceInv'
  OBVIOUS
<1>1. CASE UploadStart \/ UploadAbort \/ UploadEnd
  <2>1. /\ cmd.task # "download" /\ cmd'.task \in {"idle", "upload"}
        /\ UNCHANGED <<rows, web, inbox, outbox>>
    <3>1. cmd.task # "download" /\ UNCHANGED <<rows, web, inbox, outbox>>
      BY <1>1 DEF UploadStart, UploadAbort, Uploading, UploadEnd
    <3>2. CASE UploadStart
      <4>1. PICK s, inst : cmd' = [Idle EXCEPT !.task = "upload", !.todo = s, !.inst = inst]
        BY <3>2 DEF UploadStart
      <4>2. cmd'.task = "upload"
        BY <4>1 DEF Idle
      <4> QED
        BY <3>1, <4>2
    <3>3. CASE UploadAbort \/ UploadEnd
      BY <3>1, <3>3 DEF UploadAbort, UploadEnd, Idle
    <3> QED
      BY <1>1, <3>2, <3>3
  <2>2. Shrinks
    BY <2>1 DEF Shrinks, Pending
  <2> QED
    BY <2>1, <2>2, QuietOnce DEF HeldSent, Holding
<1>2. CASE UploadPut \/ UploadPutError
  <2>1. /\ cmd.task = "upload" /\ cmd'.task = "upload" /\ UNCHANGED <<rows, web, outbox>>
        /\ inbox' = inbox \/ \E f \in Fresh : inbox' = [inbox EXCEPT ![f] = Chunk]
    BY <1>2 DEF UploadPut, UploadPutError, Uploading, TypeOK, Command
  <2>2. CASE inbox' = inbox
    <3>1. Shrinks
      BY <2>1, <2>2 DEF Shrinks, Pending
    <3> QED
      BY <2>1, <3>1, QuietOnce DEF HeldSent, Holding
  <2> QED
    BY <2>1, <2>2, PutOnce
<1>3. CASE UploadMark
  <2>1. /\ cmd.task = "upload" /\ cmd'.task = "upload" /\ UNCHANGED <<web, inbox, outbox>>
        /\ cmd.batch \in Seq(Records) /\ cmd.batch # <<>> /\ cmd.inst \in [Records -> Row]
        /\ Head(cmd.batch) \in Records
    BY <1>3, CommandFields, HeadTailProperties DEF UploadMark, TypeOK, Command
  <2>2. Shrinks
    BY <2>1 DEF Shrinks, Pending
  <2>3. ASSUME NEW q \in Records PROVE Settled(rows[q])'
    <3>1. CASE q = Head(cmd.batch)
      <4>1. rows'[q] = AsSent(cmd.inst[q], cmd.file, cmd.pos)
        BY <1>3, <2>1, <3>1 DEF UploadMark, TypeOK
      <4>2. rows'[q].status = "SENT"
        BY <2>1, <4>1 DEF AsSent, Row
      <4> QED
        BY <4>2 DEF Settled
    <3>2. CASE q # Head(cmd.batch)
      <4>1. rows'[q] = rows[q]
        BY <1>3, <3>2 DEF UploadMark, TypeOK
      <4> QED
        BY <2>2, <4>1, SettledStable DEF OnceInv
    <3> QED
      BY <3>1, <3>2
  <2>4. \A w \in Workers : web'[w] # NoRequest => Settled(web[w].save)'
    BY <2>1, <2>2, SettledStable DEF OnceInv
  <2> QED
    BY <2>1, <2>3, <2>4 DEF OnceInv, HeldSent, Holding
<1> QED
  BY <1>1, <1>2, <1>3 DEF Upload

LEMMA AspOnce ==
    ASSUME TypeOK, Regular, OnceInv, NEW f \in FileNames, AspAnswer(f)
    PROVE  OnceInv'
<1>1. PICK code : outbox' = [outbox EXCEPT ![f] =
             [i \in DOMAIN inbox[f] |-> [er |-> inbox[f][i], code |-> code[i]]]]
  BY DEF AspAnswer
<1>2. /\ DOMAIN outbox'[f] = DOMAIN inbox[f] /\ inbox'[f] = <<>>
      /\ \A g \in FileNames \ {f} : inbox'[g] = inbox[g] /\ outbox'[g] = outbox[g]
      /\ UNCHANGED <<rows, web, cmd>> /\ inbox[f] # <<>>
  BY <1>1 DEF AspAnswer, TypeOK
<1>3. \A n : n \notin DOMAIN inbox'[f]
  BY <1>2, EmptySeq
<1>4. Shrinks
  <2> SUFFICES ASSUME NEW g \in FileNames, NEW n \in Nat, Pending(g, n)'
               PROVE  Pending(g, n)
    BY DEF Shrinks
  <2>1. CASE g = f
    BY <1>2, <1>3, <2>1 DEF Pending
  <2>2. CASE g # f
    BY <1>2, <2>2 DEF Pending
  <2> QED
    BY <2>1, <2>2
<1>5. HeldSent'
  <2>1. outbox[f] = <<>>
    BY <1>2 DEF Regular
  <2>2. Holding => cmd.file # f
    BY <2>1, EmptySeq DEF OnceInv, HeldSent
  <2> QED
    BY <1>2, <2>2 DEF OnceInv, HeldSent, Holding
<1> QED
  BY <1>2, <1>4, <1>5, QuietOnce DEF OnceInv

LEMMA NoNoline == OnlyUploadsFail => "noline" \notin Codes
<1> SUFFICES ASSUME OnlyUploadsFail PROVE "noline" \notin Codes
  OBVIOUS
<1>1. "malformed" \notin Disruptions
  BY DEF OnlyUploadsFail
<1>2. "noline" \notin {SuccessCode, DuplicateCode} \union RejectionCode
  BY RecordAssumption DEF SuccessCode, DuplicateCode
<1> QED
  BY <1>1, <1>2 DEF Codes

LEMMA FindOnce ==
    ASSUME OnlyUploadsFail, TypeOK, Regular, OnceInv, DownloadFind
    PROVE  OnceInv'
<1>1. /\ cmd \in Command /\ cmd.pos \in Nat /\ cmd.inst \in [Records -> Row]
      /\ cmd.file \in FileNames /\ cmd.task = "download"
      /\ cmd.pos \in DOMAIN outbox[cmd.file] /\ UNCHANGED <<rows, web, inbox, outbox>>
  BY CommandFields DEF DownloadFind, Reading, TypeOK
<1>2. outbox[cmd.file][cmd.pos].code # "noline"
  BY <1>1, NoNoline DEF Regular
<1>3. CASE cmd' = NextLine
  <2>1. /\ cmd'.task = "download" /\ cmd'.batch = <<>> /\ cmd'.file = cmd.file
        /\ cmd'.pos = cmd.pos + 1
    BY <1>1, <1>3 DEF NextLine, Command
  <2>2. \A n \in Nat : n < cmd.pos => n < cmd'.pos
    BY <1>1, <2>1
  <2>3. Shrinks
    BY <1>1, <2>1, <2>2 DEF Shrinks, Pending
  <2>4. ~Holding'
    BY <2>1 DEF Holding
  <2> QED
    BY <1>1, <2>1, <2>3, <2>4, QuietOnce DEF HeldSent
<1>4. CASE \E r \in FindByBatch(cmd.file, cmd.pos) :
             cmd' = [cmd EXCEPT !.batch = <<r>>, !.inst = [cmd.inst EXCEPT ![r] = rows[r]]]
  <2>1. PICK r \in FindByBatch(cmd.file, cmd.pos) :
          cmd' = [cmd EXCEPT !.batch = <<r>>, !.inst = [cmd.inst EXCEPT ![r] = rows[r]]]
    BY <1>4
  <2>2. /\ cmd'.task = "download" /\ cmd'.batch = <<r>> /\ cmd'.file = cmd.file
        /\ cmd'.pos = cmd.pos
        /\ cmd'.inst = [cmd.inst EXCEPT ![r] = rows[r]]
    BY <1>1, <2>1 DEF Command
  <2>3. /\ r \in Records /\ Head(<<r>>) = r
        /\ rows[r].file = cmd.file /\ rows[r].line = cmd.pos
    BY DEF FindByBatch
  <2>4. rows[r].status = "SENT"
    <3>1. Pending(cmd.file, cmd.pos)
      BY <1>1 DEF Pending
    <3> QED
      BY <1>1, <2>3, <3>1 DEF OnceInv, Settled
  <2>5. cmd'.inst[Head(cmd'.batch)] = rows[r]
    BY <1>1, <2>2, <2>3
  <2>6. HeldSent'
    BY <1>1, <2>2, <2>3, <2>4, <2>5 DEF HeldSent
  <2>7. Shrinks
    BY <1>1, <2>2 DEF Shrinks, Pending
  <2> QED
    BY <1>1, <2>2, <2>6, <2>7, QuietOnce DEF OnceInv
<1> QED
  BY <1>2, <1>3, <1>4 DEF DownloadFind

(* What the download holds is decided, and its line will not be read again.*)
LEMMA LineOnce ==
    ASSUME TypeOK, Regular, OnceInv, DownloadLine, "noline" \notin Codes
    PROVE  /\ OnceInv'
           /\ \A r \in Integrated' \ Integrated : cmd.inst[r].status = "SENT"
<1>1. /\ cmd \in Command /\ cmd.pos \in Nat /\ cmd.inst \in [Records -> Row]
      /\ cmd.batch \in Seq(Records) /\ cmd.batch # <<>>
      /\ cmd.file \in FileNames /\ cmd.task = "download"
      /\ cmd.pos \in DOMAIN outbox[cmd.file] /\ UNCHANGED <<web, inbox, outbox>>
  BY CommandFields DEF DownloadLine, Reading, TypeOK
<1>2. PICK r \in Records : r = Head(cmd.batch)
  BY <1>1, HeadTailProperties
<1>3. PICK row \in Row : row = cmd.inst[r]
  BY <1>1
<1>4. PICK c \in Codes : c = outbox[cmd.file][cmd.pos].code
  BY <1>1 DEF Regular
<1>5. row.status = "SENT" /\ row.file = cmd.file /\ row.line = cmd.pos
  BY <1>1, <1>2, <1>3 DEF OnceInv, HeldSent, Holding
<1>6. hiring[r] = "ok" /\ c # "noline"
  BY DEF Regular
<1>7. /\ ~Raises(row, hiring[r], c)
      /\ Answered(row, hiring[r], c) # row
  BY <1>4, <1>5, <1>6, AnswerSettles
<1>8. /\ rows' = [rows EXCEPT ![r] = Answered(row, hiring[r], c)]
      /\ cmd' = NextLine
  BY <1>2, <1>3, <1>4, <1>7 DEF DownloadLine
<1>9. Answered(row, hiring[r], c).file = cmd.file /\ Answered(row, hiring[r], c).line = cmd.pos
  BY <1>5 DEF Answered, AsProcessed, AsRejected, Row
<1>10. /\ cmd'.task = "download" /\ cmd'.batch = <<>> /\ cmd'.file = cmd.file
       /\ cmd'.pos = cmd.pos + 1
  BY <1>1, <1>8 DEF NextLine, Command
<1>11. Shrinks
  <2>1. \A n \in Nat : n < cmd.pos => n < cmd'.pos
    BY <1>1, <1>10
  <2> QED
    BY <1>1, <1>10, <2>1 DEF Shrinks, Pending
<1>12. ASSUME NEW q \in Records PROVE Settled(rows[q])'
  <2>1. CASE q # r
    <3>1. rows'[q] = rows[q]
      BY <1>8, <2>1 DEF TypeOK
    <3> QED
      BY <1>11, <3>1, SettledStable DEF OnceInv
  <2>2. CASE q = r
    <3>1. rows'[q].file = cmd.file /\ rows'[q].line = cmd.pos
      BY <1>8, <1>9, <2>2 DEF TypeOK
    <3>2. inbox[cmd.file] = <<>>
      BY <1>1, EmptySeq DEF Regular
    <3>3. cmd.pos < cmd'.pos /\ \A n : n \notin DOMAIN inbox[cmd.file]
      BY <1>1, <1>10, <3>2, EmptySeq
    <3>4. ASSUME NEW f \in FileNames, NEW n \in Nat, rows'[q].file = f, rows'[q].line = n
          PROVE  ~Pending(f, n)'
      <4>1. f = cmd.file /\ n = cmd.pos
        BY <3>1, <3>4
      <4> QED
        BY <1>1, <1>10, <3>3, <4>1 DEF Pending
    <3> QED
      BY <3>4 DEF Settled
  <2> QED
    BY <2>1, <2>2
<1>13. \A w \in Workers : web'[w] # NoRequest => Settled(web[w].save)'
  BY <1>1, <1>11, SettledStable DEF OnceInv
<1>14. OnceInv'
  BY <1>1, <1>10, <1>12, <1>13 DEF OnceInv, HeldSent, Holding
<1>15. ASSUME NEW q \in Integrated' \ Integrated PROVE cmd.inst[q].status = "SENT"
  <2>1. q \in Records /\ rows'[q] # rows[q]
    BY DEF Integrated
  <2>2. q = r
    BY <1>8, <2>1 DEF TypeOK
  <2> QED
    BY <1>3, <1>5, <2>2
<1> QED
  BY <1>14, <1>15

LEMMA DownloadOnce ==
    ASSUME OnlyUploadsFail, TypeOK, ExchangeInv, Regular, OnceInv, Download
    PROVE  OnceInv'
<1>1. CASE DownloadStart
  <2>1. PICK files : cmd' = [Idle EXCEPT !.task = "download", !.files = files]
    BY <1>1 DEF DownloadStart
  <2>2. /\ cmd'.task = "download" /\ cmd'.batch = <<>>
        /\ cmd.task = "idle" /\ UNCHANGED <<rows, web, inbox, outbox>>
    BY <1>1, <2>1 DEF DownloadStart, Idle
  <2>3. Shrinks
    BY <2>2 DEF Shrinks, Pending
  <2> QED
    BY <2>2, <2>3, QuietOnce DEF HeldSent, Holding
<1>2. CASE DownloadOpen
  <2>1. PICK f \in cmd.files : cmd' = [cmd EXCEPT !.file = f, !.pos = 1, !.files = cmd.files \ {f}]
    BY <1>2 DEF DownloadOpen
  <2>2. /\ cmd'.task = "download" /\ cmd'.batch = <<>> /\ cmd'.file = f
        /\ cmd'.pos = 1
        /\ cmd.file = NoFile /\ UNCHANGED <<rows, web, inbox, outbox>>
    BY <1>2, <2>1, NoFileNoBatch DEF DownloadOpen, TypeOK, Command
  <2>3. Shrinks
    BY <2>2, RecordAssumption DEF Shrinks, Pending
  <2> QED
    BY <2>2, <2>3, QuietOnce DEF HeldSent, Holding
<1>3. CASE DownloadClose
  <2>1. /\ cmd \in Command /\ cmd.pos \in Nat /\ cmd.file \in FileNames
        /\ cmd.task = "download" /\ UNCHANGED <<rows, web, inbox>>
        /\ outbox' = [outbox EXCEPT ![cmd.file] = <<>>]
    BY <1>3, CommandFields DEF DownloadClose, TypeOK, OnceInv
  <2>2. /\ cmd'.task = "download" /\ cmd'.batch = <<>> /\ cmd'.file = NoFile
    BY <1>3, <2>1 DEF DownloadClose, NextFile, Command
  <2>3. \A n : n \notin DOMAIN outbox'[cmd.file]
    BY <2>1, EmptySeq DEF TypeOK
  <2>4. \A g \in FileNames \ {cmd.file} : outbox'[g] = outbox[g]
    BY <2>1 DEF TypeOK
  <2>5. Shrinks
    <3> SUFFICES ASSUME NEW f \in FileNames, NEW n \in Nat, Pending(f, n)'
                 PROVE  Pending(f, n)
      BY DEF Shrinks
    <3>1. CASE f = cmd.file
      BY <2>1, <2>3, <3>1 DEF Pending
    <3>2. CASE f # cmd.file
      BY <2>1, <2>4, <3>2 DEF Pending
    <3> QED
      BY <3>1, <3>2
  <2> QED
    BY <2>1, <2>2, <2>5, QuietOnce DEF HeldSent, Holding
<1>4. CASE DownloadEnd
  <2>1. /\ cmd'.task = "idle" /\ cmd.file = NoFile /\ UNCHANGED <<rows, web, inbox, outbox>>
    BY <1>4 DEF DownloadEnd, Idle
  <2>2. Shrinks
    BY <2>1, RecordAssumption DEF Shrinks, Pending
  <2> QED
    BY <2>1, <2>2, QuietOnce DEF HeldSent, Holding
<1>5. CASE DownloadLine
  BY <1>5, NoNoline, LineOnce
<1> QED
  BY <1>1, <1>2, <1>3, <1>4, <1>5, FindOnce DEF Download

LEMMA NextOnce ==
    ASSUME OnlyUploadsFail, TypeOK, ExchangeInv, Regular, OnceInv, [Next]_vars
    PROVE  OnceInv'
<1>1. CASE Kill
  <2>1. /\ cmd'.task = "idle" /\ cmd.task = "upload"
        /\ UNCHANGED <<rows, web, inbox, outbox>>
    BY <1>1 DEF Kill, OnlyUploadsFail, Idle
  <2>2. Shrinks
    BY <2>1 DEF Shrinks, Pending
  <2> QED
    BY <2>1, <2>2, QuietOnce DEF HeldSent, Holding
<1>2. CASE (\E r \in Records : HiringChange(r)) \/ UNCHANGED vars
  <2>1. UNCHANGED <<rows, web, cmd, inbox, outbox>>
    BY <1>2 DEF HiringChange, vars
  <2>2. Shrinks
    BY <2>1 DEF Shrinks, Pending
  <2>3. HeldSent'
    BY <2>1 DEF OnceInv, HeldSent, Holding
  <2> QED
    BY <2>1, <2>2, <2>3, QuietOnce DEF OnceInv
<1>3. ~Sanitize /\ ~Archiving
  BY DEF OnlyUploadsFail, OnceInv, Sanitize, SanitizeStart, SanitizeLoad, CheckApprovals,
     CheckJobseekerProfiles, Check3436ErrorCode, CheckMissedNotifications, Step, Archiving,
     ArchiveStart, Archive
<1> QED
  BY <1>1, <1>2, <1>3, WebOnce, UploadOnce, DownloadOnce, AspOnce DEF Next

(* Only an answer integrates a record.                                     *)
LEMMA StepIntegrates ==
    ASSUME OnlyUploadsFail, TypeOK, Regular, OnceInv, [Next]_vars, ~DownloadLine
    PROVE  Integrated' \subseteq Integrated
<1> SUFFICES ASSUME NEW r \in Records, rows'[r].status = "PROCESSED"
             PROVE  rows[r].status = "PROCESSED"
  BY DEF Integrated
<1>1. ~Sanitize /\ ~Archiving
  BY DEF OnlyUploadsFail, OnceInv, Sanitize, SanitizeStart, SanitizeLoad, CheckApprovals,
     CheckJobseekerProfiles, Check3436ErrorCode, CheckMissedNotifications, Step, Archiving,
     ArchiveStart, Archive
<1>2. CASE Web
  <2>1. PICK w \in Workers : WebSave(w) \/ UNCHANGED rows
    BY <1>2 DEF Web, WebLoad
  <2>2. CASE WebSave(w)
    BY <2>2 DEF WebSave, Regular, TypeOK
  <2> QED
    BY <2>1, <2>2
<1>3. CASE UploadMark
  <2>1. /\ rows' = [rows EXCEPT ![Head(cmd.batch)] =
                      AsSent(cmd.inst[Head(cmd.batch)], cmd.file, cmd.pos)]
        /\ Head(cmd.batch) \in Records /\ cmd.inst \in [Records -> Row]
    BY <1>3, CommandFields, HeadTailProperties DEF UploadMark
  <2> QED
    BY <2>1 DEF AsSent, Row, TypeOK
<1>4. CASE \/ Upload /\ ~UploadMark
           \/ Download \/ Kill
           \/ \E q \in Records : HiringChange(q)
           \/ \E f \in FileNames : AspAnswer(f)
           \/ UNCHANGED vars
  BY <1>4 DEF Upload, UploadStart, UploadPut, UploadPutError, UploadAbort, UploadEnd, Download,
     DownloadStart, DownloadOpen, DownloadFind, DownloadClose, DownloadEnd, Kill, HiringChange,
     AspAnswer, vars
<1> QED
  BY <1>1, <1>2, <1>3, <1>4 DEF Next

(* When nothing but uploads fails, the download integrates a record only   *)
(* from a copy that was waiting for an answer, for any number of requests  *)
(* that save stale copies around it: a duplicate is never credited to a    *)
(* record withdrawn or under correction when it was loaded.                *)
THEOREM IntegratedFromSent == OnlyUploadsFail => (Spec => ProcessedOnlyFromSent)
<1> SUFFICES ASSUME OnlyUploadsFail PROVE Spec => ProcessedOnlyFromSent
  OBVIOUS
<1> DEFINE Inv == TypeOK /\ ExchangeInv /\ Regular /\ OnceInv
<1> DEFINE Step1 == \A r \in Integrated' \ Integrated : cmd.inst[r].status = "SENT"
<1>1. Init => Inv
  BY InitType, InitExchange, InitRegular, InitOnce
<1>2. Inv /\ [Next]_vars => Inv'
  <2>1. "hiring_change" \notin Disruptions
    BY DEF OnlyUploadsFail
  <2> QED
    BY <2>1, NextType, NextExchange, NextRegular, NextOnce
<1>3. Inv /\ [Next]_vars => [Step1]_vars
  <2> SUFFICES ASSUME Inv, [Next]_vars PROVE Step1
    OBVIOUS
  <2>1. CASE DownloadLine
    BY <2>1, NoNoline, LineOnce
  <2>2. CASE ~DownloadLine
    BY <2>2, StepIntegrates
  <2> QED
    BY <2>1, <2>2
<1> QED
  BY <1>1, <1>2, <1>3, PTL DEF Spec, ProcessedOnlyFromSent

=============================================================================
