--------------------------- MODULE AttachmentsProofs ---------------------------
(***************************************************************************)
(* Proofs about Attachments, for any files, tasks and requests: rows have   *)
(* files and tasks, every file on disk is accounted for, and the quota is   *)
(* kept, whatever fails and whoever is dropped.                             *)
(***************************************************************************)
EXTENDS Attachments, FoldTheorems, TLAPS

Uploading(r) == op[r].kind = "upload"
Writing == {"rename", "insert", "commit"}

(* The files an upload made and has not let go of. *)
Made(r) == temps[r] \cup inserted[r] \cup IF Uploading(r) THEN paths[r] ELSE {}

(* What a request has at hand, at each point of its handler. *)
LocalOf(p, o, T, P, I) ==
    /\ p \in {"fields", "streaming", "lock", "check", "cleanup"} \cup Writing <=> o.kind = "upload"
    /\ o.kind # "upload" => T = {} /\ I = {}
    /\ p = "idle" => o = NoOp /\ P = {}
    /\ p \in {"capture", "delete"} => o.kind = "delete_task"
    /\ p = "delete_row" => o.kind = "delete_attachment" /\ P = {o.file}
    /\ p \in {"fields", "streaming", "lock", "check", "capture"} => P = {}
    /\ p = "streaming" => o.field \in T
    /\ p \in {"rename", "commit"} => P = I
    /\ p = "insert" => o.field \in P /\ P = I \cup {o.field}
    /\ p = "commit" => T = {}
    /\ p \notin Writing => I = {}

Local == \A r \in Requests : LocalOf(pc[r], op[r], temps[r], paths[r], inserted[r])

(* Files that are written or may still be renamed are nobody else's, and have   *)
(* no row yet; the server loses track of one only after its upload has ended.  *)
Owned ==
    /\ \A r, q \in Requests : r # q => Made(r) \cap Made(q) = {}
    /\ \A r, q \in Requests : \A f \in Made(r) : fate[f] = "known" /\ r # q => f \notin paths[q]
    /\ \A r \in Requests : \A f \in Made(r) :
        /\ fate[f] # "unanswered" => home[f] = None
        /\ pc[r] # "cleanup" => fate[f] = "known"
    /\ \A r \in Requests : \A f \in temps[r] \cup inserted[r] : fate[f] = "known"

(* A deletion removes files only of rows that are gone. *)
RowsGone == \A r \in Requests : \A f \in paths[r] :
    /\ pc[r] = "remove" => home[f] = None
    /\ pc[r] = "delete" => home[f] \in {None, op[r].task}

(* Files on disk. *)
OnDisk ==
    /\ \A f \in temp : f \notin disk /\ home[f] = None
    /\ \A r \in Requests : pc[r] \in Writing => paths[r] \subseteq disk

TasksLive == \A r \in Requests : inserted[r] # {} => op[r].task \in alive

(* Only the holder of the workspace's lock checks the quota and writes, and    *)
(* what it has yet to commit fits beside every row there is.                   *)
Reserved ==
    /\ \A r \in Requests : pc[r] \in {"check"} \cup Writing => lock = r
    /\ \A r \in Requests : pc[r] \in Writing => Bytes(Stored \cup temps[r] \cup paths[r]) <= Limit

Inv == /\ TypeOK /\ Local /\ Owned /\ RowsGone /\ OnDisk /\ TasksLive /\ Reserved
       /\ RowsHaveFiles /\ RowsHaveTasks /\ FilesAccountedFor /\ QuotaHolds

-----------------------------------------------------------------------------
Step(r) == Begin(r) \/ Upload(r) \/ Delete(r) \/ Drop(r)

(* What an upload asks for, and the field it is at. *)
LEMMA UploadOp ==
    ASSUME TypeOK, NEW r \in Requests, Uploading(r), NEW f \in Files \cup {None}
    PROVE  /\ op[r].task \in TaskIds /\ op[r].field \in Files \cup {None}
           /\ [op[r] EXCEPT !.field = f] \in Ops
           /\ [op[r] EXCEPT !.field = f].kind = "upload"
           /\ [op[r] EXCEPT !.field = f].task = op[r].task
           /\ [op[r] EXCEPT !.field = f].field = f
<1>1. op[r] \in [kind : {"upload"}, task : TaskIds, field : Files \cup {None}]
  BY DEF TypeOK, Uploading, Ops, NoOp
<1> QED BY <1>1 DEF Ops

(* What a deletion asks for. *)
LEMMA DeleteOp ==
    ASSUME TypeOK, NEW r \in Requests
    PROVE  /\ op[r].kind = "delete_task" => op[r].task \in TaskIds
           /\ op[r].kind = "delete_attachment" => op[r].file \in Files
BY DEF TypeOK, Ops, NoOp

(* A step is one request's; the others stay where they are. *)
LEMMA OthersStay ==
    ASSUME TypeOK, NEW r \in Requests, Step(r)
    PROVE  \A q \in Requests \ {r} :
             /\ pc'[q] = pc[q] /\ op'[q] = op[q] /\ temps'[q] = temps[q]
             /\ paths'[q] = paths[q] /\ inserted'[q] = inserted[q]
<1>1. CASE Begin(r)
  BY <1>1 DEF Begin, BeginUpload, BeginDeleteTask, BeginDeleteAttachment, Goto, TypeOK
<1>2. CASE Upload(r)
  <2>1. \A q \in Requests \ {r} : pc'[q] = pc[q]
    BY <1>2 DEF Upload, CreateTemp, FinishField, RejectField, NoFields, EndOfBody, LockWorkspace,
          CheckQuota, QuotaExceeded, Rename, InsertRow, TaskGone, Commit, CommitUnanswered,
          UploadFails, CleanTemp, CleanWritten, Cleaned, RemoveFails, Return, Goto, TypeOK
  <2>2. \A q \in Requests \ {r} : op'[q] = op[q]
    BY <1>2 DEF Upload, CreateTemp, FinishField, RejectField, NoFields, EndOfBody, LockWorkspace,
          CheckQuota, QuotaExceeded, Rename, InsertRow, TaskGone, Commit, CommitUnanswered,
          UploadFails, CleanTemp, CleanWritten, Cleaned, RemoveFails, Return, TypeOK
  <2>3. \A q \in Requests \ {r} : temps'[q] = temps[q]
    BY <1>2 DEF Upload, CreateTemp, FinishField, RejectField, NoFields, EndOfBody, LockWorkspace,
          CheckQuota, QuotaExceeded, Rename, InsertRow, TaskGone, Commit, CommitUnanswered,
          UploadFails, CleanTemp, CleanWritten, Cleaned, RemoveFails, Return, TypeOK
  <2>4. \A q \in Requests \ {r} : paths'[q] = paths[q]
    BY <1>2 DEF Upload, CreateTemp, FinishField, RejectField, NoFields, EndOfBody, LockWorkspace,
          CheckQuota, QuotaExceeded, Rename, InsertRow, TaskGone, Commit, CommitUnanswered,
          UploadFails, CleanTemp, CleanWritten, Cleaned, RemoveFails, Return, TypeOK
  <2>5. \A q \in Requests \ {r} : inserted'[q] = inserted[q]
    BY <1>2 DEF Upload, CreateTemp, FinishField, RejectField, NoFields, EndOfBody, LockWorkspace,
          CheckQuota, QuotaExceeded, Rename, InsertRow, TaskGone, Commit, CommitUnanswered,
          UploadFails, CleanTemp, CleanWritten, Cleaned, RemoveFails, Rollback, TypeOK
  <2> QED BY <2>1, <2>2, <2>3, <2>4, <2>5
<1>3. CASE Delete(r)
  BY <1>3 DEF Delete, DeleteRow, CapturePaths, DeleteTask, DeletionFails, RemoveFile, Return,
        Goto, TypeOK
<1>4. CASE Drop(r)
  BY <1>4 DEF Drop, Rollback, Return, Goto, TypeOK
<1> QED BY <1>1, <1>2, <1>3, <1>4 DEF Step

(* The bytes of some files: a sum of natural numbers. *)
LEMMA BytesOf ==
    /\ Bytes({}) = 0
    /\ \A S \in SUBSET Files : Bytes(S) \in Nat
    /\ \A S, T \in SUBSET Files : Bytes(S \cup T) <= Bytes(S) + Bytes(T)
    /\ \A S, T \in SUBSET Files : S \subseteq T => Bytes(S) <= Bytes(T)
<1>1. \A S : Bytes(S) = SumOf(Size, S)
  BY DEF Bytes, SumOf
<1>2. ASSUME NEW S \in SUBSET Files
      PROVE  IsFiniteSet(S) /\ \A f \in S : Size[f] \in Nat
  BY FS_Subset, AttachmentsAssumption
<1>3. Bytes({}) = 0 /\ \A S \in SUBSET Files : Bytes(S) \in Nat
  BY <1>1, <1>2, SumNat
<1>4. ASSUME NEW S \in SUBSET Files, NEW T \in SUBSET Files
      PROVE  Bytes(S \cup T) <= Bytes(S) + Bytes(T)
  <2>1. \A f \in S \cup T : Size[f] \in Nat
    BY <1>2
  <2> QED BY <1>1, <1>2, <2>1, SumUnion
<1>5. ASSUME NEW S \in SUBSET Files, NEW T \in SUBSET Files, S \subseteq T
      PROVE  Bytes(S) <= Bytes(T)
  BY <1>1, <1>2, <1>5, SumMonotone
<1> QED BY <1>3, <1>4, <1>5

-----------------------------------------------------------------------------
(* Types and what a request has at hand. *)
LEMMA InitInv == Init => Inv
<1> SUFFICES ASSUME Init PROVE Inv
  OBVIOUS
<1> USE AttachmentsAssumption
<1>1. TypeOK
  BY DEF Init, TypeOK, PCs, Fates
<1>2. Local
  BY DEF Init, Local, LocalOf, NoOp, Writing
<1>3. Owned /\ RowsGone /\ OnDisk /\ TasksLive
  BY DEF Init, Owned, Made, Uploading, RowsGone, OnDisk, TasksLive, NoOp, Writing
<1>4. RowsHaveFiles /\ RowsHaveTasks /\ FilesAccountedFor
  BY DEF Init, RowsHaveFiles, RowsHaveTasks, FilesAccountedFor, Stored
<1>5. Reserved /\ QuotaHolds
  <2>1. Stored = {}
    BY DEF Init, Stored
  <2> QED BY <2>1, BytesOf DEF Init, Reserved, QuotaHolds, Writing
<1> QED BY <1>1, <1>2, <1>3, <1>4, <1>5 DEF Inv

(* Every step keeps the types. *)
LEMMA TypeStep == TypeOK /\ Local /\ [Next]_vars => TypeOK'
<1> SUFFICES ASSUME TypeOK, Local, [Next]_vars PROVE TypeOK'
  OBVIOUS
<1>1. ASSUME NEW r \in Requests, Begin(r) PROVE TypeOK'
  <2>1. /\ \A t \in TaskIds : [kind |-> "upload", task |-> t, field |-> None] \in Ops
        /\ \A t \in TaskIds : [kind |-> "delete_task", task |-> t] \in Ops
        /\ \A f \in Files : [kind |-> "delete_attachment", file |-> f] \in Ops
    BY DEF Ops
  <2>2. ASSUME NEW t \in TaskIds, BeginUpload(r, t) PROVE TypeOK'
    <3>1. op' = [op EXCEPT ![r] = [kind |-> "upload", task |-> t, field |-> None]]
      BY <2>2 DEF BeginUpload
    <3>2. op' \in [Requests -> Ops \cup {NoOp}]
      BY <2>1, <3>1 DEF TypeOK
    <3> QED BY <2>2, <3>2 DEF BeginUpload, Goto, TypeOK, PCs
  <2>3. ASSUME NEW t \in TaskIds, BeginDeleteTask(r, t) PROVE TypeOK'
    <3>1. op' = [op EXCEPT ![r] = [kind |-> "delete_task", task |-> t]]
      BY <2>3 DEF BeginDeleteTask
    <3>2. op' \in [Requests -> Ops \cup {NoOp}]
      BY <2>1, <3>1 DEF TypeOK
    <3> QED BY <2>3, <3>2 DEF BeginDeleteTask, Goto, TypeOK, PCs
  <2>4. ASSUME NEW f \in Files, BeginDeleteAttachment(r, f) PROVE TypeOK'
    <3>1. op' = [op EXCEPT ![r] = [kind |-> "delete_attachment", file |-> f]]
      BY <2>4 DEF BeginDeleteAttachment
    <3>2. op' \in [Requests -> Ops \cup {NoOp}]
      BY <2>1, <3>1 DEF TypeOK
    <3> QED BY <2>4, <3>2 DEF BeginDeleteAttachment, Goto, TypeOK, PCs
  <2> QED BY <1>1, <2>2, <2>3, <2>4 DEF Begin
<1>2. ASSUME NEW r \in Requests, NEW f \in Files, CreateTemp(r, f) PROVE TypeOK'
  <2>1. Uploading(r)
    BY <1>2 DEF CreateTemp, Local, LocalOf, Uploading
  <2> QED BY <1>2, <2>1, UploadOp DEF CreateTemp, Goto, TypeOK, PCs
<1>3. ASSUME NEW r \in Requests, FinishField(r) \/ Rename(r) \/ InsertRow(r) PROVE TypeOK'
  <2>1. Uploading(r)
    BY <1>3 DEF FinishField, Rename, InsertRow, Local, LocalOf, Uploading, Writing
  <2>2. \A f \in Files \cup {None} : [op[r] EXCEPT !.field = f] \in Ops
    BY <2>1, UploadOp
  <2>3. op[r].field \in Files \cup {None}
    BY <2>1, UploadOp
  <2>4. CASE FinishField(r)
    BY <2>2, <2>4 DEF FinishField, Goto, TypeOK, PCs
  <2>5. CASE Rename(r)
    <3>1. PICK f \in Files : Rename(r)!2!(f)
      BY <2>5 DEF Rename, TypeOK
    <3>2. op' \in [Requests -> Ops \cup {NoOp}]
      BY <2>2, <3>1 DEF TypeOK
    <3> QED BY <2>5, <3>1, <3>2 DEF Rename, Goto, TypeOK, PCs
  <2>6. CASE InsertRow(r)
    <3>1. op[r].field \in Files
      BY <2>6 DEF InsertRow, Local, LocalOf, TypeOK
    <3> QED BY <2>2, <2>6, <3>1 DEF InsertRow, Goto, TypeOK, PCs
  <2> QED BY <1>3, <2>4, <2>5, <2>6
<1>4. ASSUME NEW r \in Requests,
             \/ RejectField(r) \/ NoFields(r) \/ EndOfBody(r) \/ LockWorkspace(r)
             \/ CheckQuota(r) \/ QuotaExceeded(r) \/ TaskGone(r) \/ UploadFails(r)
             \/ CleanTemp(r) \/ CleanWritten(r) \/ Cleaned(r)
      PROVE  TypeOK'
  BY <1>4 DEF RejectField, NoFields, EndOfBody, LockWorkspace, CheckQuota, QuotaExceeded,
        TaskGone, UploadFails, CleanTemp, CleanWritten, Cleaned, Rollback, Return, Goto,
        TypeOK, PCs
<1>5. ASSUME NEW r \in Requests, Commit(r) \/ CommitUnanswered(r) PROVE TypeOK'
  <2>1. op[r].task \in TaskIds
    BY <1>5, UploadOp DEF Commit, CommitUnanswered, Local, LocalOf, Uploading, Writing
  <2>2. home' \in [Files -> TaskIds \cup {None}]
    BY <1>5, <2>1 DEF Commit, CommitUnanswered, Committed, TypeOK
  <2> QED BY <1>5, <2>2 DEF Commit, CommitUnanswered, Rollback, Return, Goto, TypeOK, PCs, Fates
<1>6. ASSUME NEW r \in Requests, RemoveFails(r) PROVE TypeOK'
  BY <1>6 DEF RemoveFails, TypeOK, Fates
<1>7. ASSUME NEW r \in Requests, Delete(r) PROVE TypeOK'
  BY <1>7 DEF Delete, DeleteRow, CapturePaths, RowsOf, DeleteTask, DeletionFails, RemoveFile,
        Return, Goto, TypeOK, PCs, Fates
<1>8. ASSUME NEW r \in Requests, Drop(r) PROVE TypeOK'
  BY <1>8 DEF Drop, Rollback, Return, Goto, TypeOK, PCs, Fates
<1>9. CASE UNCHANGED vars
  BY <1>9 DEF vars, TypeOK
<1> QED BY <1>1, <1>2, <1>3, <1>4, <1>5, <1>6, <1>7, <1>8, <1>9 DEF Next, Upload

(* Every step of a handler leaves it with what its next statement needs. *)
LEMMA LocalStep == TypeOK /\ Local /\ [Next]_vars => Local'
<1> SUFFICES ASSUME TypeOK, Local, NEW r \in Requests, Step(r) PROVE Local'
  BY DEF Next, Step, Local, vars
<1>0. LocalOf(pc[r], op[r], temps[r], paths[r], inserted[r])
  BY DEF Local
<1> DEFINE L == LocalOf(pc'[r], op'[r], temps'[r], paths'[r], inserted'[r])
<1> SUFFICES L
  BY OthersStay DEF Local
<1>1. CASE Begin(r)
  BY <1>0, <1>1 DEF Begin, BeginUpload, BeginDeleteTask, BeginDeleteAttachment, Goto, LocalOf,
        TypeOK, NoOp, Writing
<1>2. CASE \E f \in Files : CreateTemp(r, f)
  BY <1>0, <1>2, UploadOp DEF CreateTemp, Goto, LocalOf, TypeOK, Writing, Uploading, NoOp
<1>3. CASE FinishField(r)
  BY <1>0, <1>3, UploadOp DEF FinishField, Goto, LocalOf, TypeOK, Writing, Uploading, NoOp
<1>4. CASE Rename(r)
  BY <1>0, <1>4, UploadOp DEF Rename, Goto, LocalOf, TypeOK, Writing, Uploading, NoOp
<1>5. CASE InsertRow(r)
  BY <1>0, <1>5, UploadOp DEF InsertRow, Goto, LocalOf, TypeOK, Writing, Uploading, NoOp
<1>6. CASE RejectField(r) \/ EndOfBody(r) \/ LockWorkspace(r) \/ CheckQuota(r)
  BY <1>0, <1>6 DEF RejectField, EndOfBody, LockWorkspace, CheckQuota, Goto, LocalOf, TypeOK,
        Writing, NoOp
<1>7. CASE QuotaExceeded(r) \/ TaskGone(r) \/ UploadFails(r) \/ CommitUnanswered(r)
  BY <1>0, <1>7 DEF QuotaExceeded, TaskGone, UploadFails, CommitUnanswered, Rollback, Goto,
        LocalOf, TypeOK, Writing, NoOp
<1>8. CASE NoFields(r) \/ Cleaned(r) \/ DeletionFails(r)
  BY <1>0, <1>8 DEF NoFields, Cleaned, DeletionFails, Return, Goto, LocalOf, TypeOK, Writing, NoOp
<1>9. CASE Commit(r) \/ Drop(r)
  BY <1>0, <1>9 DEF Commit, Drop, Rollback, Return, Goto, LocalOf, TypeOK, Writing, NoOp
<1>10. CASE CleanTemp(r) \/ CleanWritten(r) \/ RemoveFails(r) \/ RemoveFile(r)
  BY <1>0, <1>10 DEF CleanTemp, CleanWritten, RemoveFails, RemoveFile, LocalOf, TypeOK, Writing,
        NoOp
<1>11. CASE DeleteRow(r) \/ CapturePaths(r) \/ DeleteTask(r)
  BY <1>0, <1>11 DEF DeleteRow, CapturePaths, DeleteTask, Goto, LocalOf, TypeOK, Writing, NoOp
<1> QED BY <1>1, <1>2, <1>3, <1>4, <1>5, <1>6, <1>7, <1>8, <1>9, <1>10, <1>11
        DEF Step, Upload, Delete

-----------------------------------------------------------------------------
(* What a step of r does to each file. *)

(* Rows come with a commit; what is lost track of has no row, or was r's own. *)
LEMMA Rows ==
    ASSUME TypeOK, Local, RowsGone, NEW r \in Requests, Step(r), NEW f \in Files
    PROVE  /\ \/ home'[f] \in {home[f], None}
              \/ f \in inserted[r] /\ home'[f] = op[r].task /\ pc[r] = "commit"
           /\ \/ fate'[f] = fate[f]
              \/ f \in Made(r)
              \/ /\ home'[f] = None /\ fate'[f] \in {"left", "missed"}
                 /\ home[f] # None \/ f \in paths[r]
           /\ fate'[f] = "known" => fate[f] = "known"
           /\ fate[f] \in {"left", "missed"} =>
                fate'[f] \in {"left", "missed"} \/ f \in inserted[r]
           /\ fate[f] = "unanswered" /\ fate'[f] # "unanswered" =>
                \/ home'[f] = None
                \/ f \in temp \cup disk /\ disk' = disk /\ home' = home
           /\ home[f] # None /\ home'[f] = None =>
                \/ f \in paths'[r] /\ pc'[r] = "remove"
                \/ fate'[f] = "missed"
                \/ f \notin disk
<1>0. LocalOf(pc[r], op[r], temps[r], paths[r], inserted[r])
  BY DEF Local
<1>1. CASE UNCHANGED <<home, fate>>
  BY <1>1 DEF TypeOK
<1>2. CASE Commit(r) \/ CommitUnanswered(r)
  <2>1. op[r].task \in TaskIds /\ op[r].task # None /\ pc[r] = "commit"
    BY <1>0, <1>2, UploadOp, AttachmentsAssumption
       DEF Commit, CommitUnanswered, LocalOf, Uploading, Writing
  <2>2. home'[f] = IF f \in inserted[r] THEN op[r].task ELSE home[f]
    BY <1>2 DEF Commit, CommitUnanswered, Committed
  <2>3. fate'[f] = fate[f] \/ (fate'[f] = "unanswered" /\ f \in inserted[r])
    BY <1>2 DEF Commit, CommitUnanswered
  <2> QED BY <2>1, <2>2, <2>3 DEF Made
<1>3. CASE RemoveFails(r)
  <2>1. PICK g \in temps[r] \cup paths[r] :
                 fate' = [fate EXCEPT ![g] = IF g \in temp \cup disk THEN "left" ELSE @]
    BY <1>3 DEF RemoveFails
  <2>2. g \in Made(r) \/ home[g] = None
    BY <1>0, <1>3 DEF RemoveFails, Made, LocalOf, RowsGone, Uploading, Writing
  <2>3. f # g => fate'[f] = fate[f]
    BY <2>1 DEF TypeOK
  <2>4. g \in Files /\ fate'[g] = IF g \in temp \cup disk THEN "left" ELSE fate[g]
    BY <2>1 DEF TypeOK
  <2>5. UNCHANGED <<home, disk>>
    BY <1>3 DEF RemoveFails
  <2>6. CASE f # g
    BY <2>3, <2>5, <2>6
  <2>7. CASE f = g
    BY <2>1, <2>2, <2>4, <2>5, <2>7 DEF Made
  <2> QED BY <2>6, <2>7
<1>4. CASE DeleteRow(r)
  BY <1>0, <1>4, DeleteOp DEF DeleteRow, Goto, TypeOK, LocalOf
<1>5. CASE DeleteTask(r)
  BY <1>0, <1>5, DeleteOp, AttachmentsAssumption
     DEF DeleteTask, Missed, RowsOf, Goto, TypeOK, LocalOf
<1>6. CASE Drop(r)
  BY <1>0, <1>6 DEF Drop, OnlyKnownTo, TypeOK, LocalOf, RowsGone, Made, Uploading, Writing
<1> QED BY <1>1, <1>2, <1>3, <1>4, <1>5, <1>6
        DEF Step, Begin, BeginUpload, BeginDeleteTask, BeginDeleteAttachment, Upload, CreateTemp,
            FinishField, RejectField, NoFields, EndOfBody, LockWorkspace, CheckQuota,
            QuotaExceeded, Rename, InsertRow, TaskGone, UploadFails, CleanTemp, CleanWritten,
            Cleaned, Delete, CapturePaths, DeletionFails, RemoveFile

(* An upload makes files nobody refers to, and gives them up in one go or one by *)
(* one.                                                                           *)
LEMMA Hands ==
    ASSUME TypeOK, Local, NEW r \in Requests, Step(r), NEW f \in Files
    PROVE  /\ f \in Made(r)' =>
                /\ f \in Fresh \/ (f \in Made(r) /\ (pc'[r] # "cleanup" => pc[r] # "cleanup"))
                /\ \/ fate'[f] = fate[f] /\ home'[f] = home[f]
                   \/ /\ fate'[f] = "unanswered" /\ pc'[r] = "cleanup"
                      /\ f \notin temps'[r] \cup inserted'[r]
           /\ f \in temps'[r] \cup inserted'[r] =>
                \/ f \in temps[r] \cup inserted[r] \cup Fresh
                \/ f \in Made(r) /\ pc[r] # "cleanup"
           /\ f \in paths'[r] => f \in paths[r] \cup Made(r) \/ home[f] # None
<1>0. LocalOf(pc[r], op[r], temps[r], paths[r], inserted[r])
  BY DEF Local
<1>1. CASE Begin(r)
  BY <1>0, <1>1 DEF Begin, BeginUpload, BeginDeleteTask, BeginDeleteAttachment, Goto, LocalOf,
        TypeOK, NoOp, Writing, Made, Uploading
<1>2. CASE \E g \in Files : CreateTemp(r, g)
  BY <1>0, <1>2, UploadOp DEF CreateTemp, Goto, LocalOf, TypeOK, Writing, Uploading, Made
<1>3. CASE FinishField(r)
  BY <1>0, <1>3, UploadOp DEF FinishField, Goto, LocalOf, TypeOK, Writing, Uploading, Made
<1>4. CASE Rename(r)
  BY <1>0, <1>4, UploadOp DEF Rename, Goto, LocalOf, TypeOK, Writing, Uploading, Made
<1>5. CASE InsertRow(r)
  BY <1>0, <1>5, UploadOp DEF InsertRow, Goto, LocalOf, TypeOK, Writing, Uploading, Made
<1>6. CASE RejectField(r) \/ EndOfBody(r) \/ LockWorkspace(r) \/ CheckQuota(r)
  BY <1>0, <1>6 DEF RejectField, EndOfBody, LockWorkspace, CheckQuota, Goto, LocalOf, TypeOK,
        Writing, Made, Uploading
<1>7. CASE QuotaExceeded(r) \/ TaskGone(r) \/ UploadFails(r) \/ CommitUnanswered(r)
  BY <1>0, <1>7 DEF QuotaExceeded, TaskGone, UploadFails, CommitUnanswered, Committed, Rollback,
        Goto, LocalOf, TypeOK, Writing, Made, Uploading
<1>8. CASE NoFields(r) \/ Cleaned(r) \/ DeletionFails(r)
  BY <1>0, <1>8 DEF NoFields, Cleaned, DeletionFails, Return, Goto, LocalOf, TypeOK, Writing,
        NoOp, Made, Uploading
<1>9. CASE Commit(r) \/ Drop(r)
  BY <1>0, <1>9 DEF Commit, Drop, Rollback, Return, Goto, LocalOf, TypeOK, Writing, NoOp, Made,
        Uploading
<1>10. CASE CleanTemp(r) \/ CleanWritten(r) \/ RemoveFails(r) \/ RemoveFile(r)
  BY <1>0, <1>10 DEF CleanTemp, CleanWritten, RemoveFails, RemoveFile, LocalOf, TypeOK, Writing,
        Made, Uploading
<1>11. CASE DeleteRow(r) \/ CapturePaths(r) \/ DeleteTask(r)
  BY <1>0, <1>11, DeleteOp, AttachmentsAssumption
     DEF DeleteRow, CapturePaths, RowsOf, DeleteTask, Goto, LocalOf, TypeOK, Writing, Made,
         Uploading
<1> QED BY <1>1, <1>2, <1>3, <1>4, <1>5, <1>6, <1>7, <1>8, <1>9, <1>10, <1>11
        DEF Step, Upload, Delete

(* On disk, a file comes with a rename and goes at a cleanup or a deletion. *)
LEMMA OnDiskChanges ==
    ASSUME TypeOK, Local, NEW r \in Requests, Step(r), NEW f \in Files
    PROVE  /\ f \in temp' => \/ f \in temp
                             \/ f \in Fresh /\ home' = home /\ disk' = disk
           /\ f \in disk' => f \in disk \/ (f \in temps[r] /\ f \notin temp')
           /\ f \in temp /\ f \notin temp' => f \in temps[r]
           /\ f \in disk /\ f \notin disk' => f \in paths[r] /\ pc[r] \in {"cleanup", "remove"}
           /\ pc'[r] \in Writing /\ f \in paths'[r] =>
                f \in disk' \/ (pc[r] \in Writing /\ f \in paths[r])
<1>0. LocalOf(pc[r], op[r], temps[r], paths[r], inserted[r])
  BY DEF Local
<1>1. CASE UNCHANGED <<temp, disk, paths>> /\ (pc'[r] \in Writing => pc[r] \in Writing)
  BY <1>1
<1>2. CASE Begin(r)
  BY <1>0, <1>2 DEF Begin, BeginUpload, BeginDeleteTask, BeginDeleteAttachment, Goto, LocalOf,
        TypeOK, Writing
<1>3. CASE \E g \in Files : CreateTemp(r, g)
  BY <1>0, <1>3 DEF CreateTemp, Goto, TypeOK, Writing
<1>4. CASE FinishField(r)
  BY <1>0, <1>4 DEF FinishField, Goto, LocalOf, TypeOK, Writing
<1>5. CASE Rename(r)
  BY <1>0, <1>5 DEF Rename, Goto, LocalOf, TypeOK, Writing
<1>6. CASE RejectField(r) \/ EndOfBody(r) \/ LockWorkspace(r) \/ CheckQuota(r)
  BY <1>0, <1>6 DEF RejectField, EndOfBody, LockWorkspace, CheckQuota, Goto, LocalOf, TypeOK,
        Writing
<1>7. CASE QuotaExceeded(r) \/ TaskGone(r) \/ UploadFails(r) \/ CommitUnanswered(r)
           \/ InsertRow(r)
  BY <1>0, <1>7 DEF QuotaExceeded, TaskGone, UploadFails, CommitUnanswered, InsertRow, Goto,
        LocalOf, TypeOK, Writing
<1>8. CASE NoFields(r) \/ Cleaned(r) \/ DeletionFails(r) \/ Commit(r) \/ Drop(r)
  BY <1>8 DEF NoFields, Cleaned, DeletionFails, Commit, Drop, Return, Goto, TypeOK, Writing
<1>9. CASE CleanTemp(r) \/ CleanWritten(r) \/ RemoveFails(r) \/ RemoveFile(r)
  BY <1>0, <1>9 DEF CleanTemp, CleanWritten, RemoveFails, RemoveFile, TypeOK, Writing
<1>10. CASE DeleteRow(r) \/ CapturePaths(r) \/ DeleteTask(r)
  BY <1>0, <1>10 DEF DeleteRow, CapturePaths, DeleteTask, Goto, TypeOK, Writing
<1> QED BY <1>1, <1>2, <1>3, <1>4, <1>5, <1>6, <1>7, <1>8, <1>9, <1>10
        DEF Step, Upload, Delete

(* A task is deleted when no upload has inserted a row for it. *)
LEMMA TaskChanges ==
    ASSUME TypeOK, Local, NEW r \in Requests, Step(r)
    PROVE  /\ \/ alive' = alive
              \/ \E t \in TaskIds :
                   /\ alive' = alive \ {t}
                   /\ \A f \in Files : home'[f] # t
                   /\ \A q \in Requests : inserted[q] # {} => op[q].task # t
                   /\ UNCHANGED <<op, inserted>>
           /\ inserted'[r] # {} =>
                \/ inserted[r] # {} /\ op'[r].task = op[r].task
                \/ op'[r].task \in alive'
<1>0. LocalOf(pc[r], op[r], temps[r], paths[r], inserted[r])
  BY DEF Local
<1>1. CASE Begin(r)
  BY <1>0, <1>1 DEF Begin, BeginUpload, BeginDeleteTask, BeginDeleteAttachment, LocalOf, Writing
<1>2. CASE \E g \in Files : CreateTemp(r, g)
  BY <1>0, <1>2 DEF CreateTemp, LocalOf, Writing
<1>3. CASE FinishField(r) \/ RejectField(r) \/ EndOfBody(r)
  BY <1>0, <1>3 DEF FinishField, RejectField, EndOfBody, LocalOf, Writing
<1>4. CASE Rename(r) \/ InsertRow(r)
  <2>1. \A f \in Files \cup {None} : [op[r] EXCEPT !.field = f].task = op[r].task
    BY <1>0, <1>4, UploadOp DEF Rename, InsertRow, LocalOf, Uploading, Writing
  <2>2. op'[r].task = op[r].task
    <3>1. PICK f \in Files \cup {None} : op' = [op EXCEPT ![r] = [op[r] EXCEPT !.field = f]]
      BY <1>4 DEF Rename, InsertRow, TypeOK
    <3> QED BY <2>1, <3>1 DEF TypeOK
  <2> QED BY <1>4, <2>2 DEF Rename, InsertRow
<1>5. CASE LockWorkspace(r) \/ CheckQuota(r) \/ CleanTemp(r) \/ CleanWritten(r)
           \/ RemoveFails(r) \/ RemoveFile(r) \/ DeleteRow(r) \/ CapturePaths(r)
  BY <1>5 DEF LockWorkspace, CheckQuota, CleanTemp, CleanWritten, RemoveFails, RemoveFile,
        DeleteRow, CapturePaths
<1>6. CASE NoFields(r) \/ Cleaned(r) \/ DeletionFails(r)
  BY <1>0, <1>6 DEF NoFields, Cleaned, DeletionFails, LocalOf, Writing
<1>7. CASE QuotaExceeded(r) \/ TaskGone(r) \/ UploadFails(r) \/ CommitUnanswered(r)
           \/ Commit(r) \/ Drop(r)
  BY <1>7 DEF QuotaExceeded, TaskGone, UploadFails, CommitUnanswered, Commit, Drop, Rollback,
        TypeOK
<1>8. CASE DeleteTask(r)
  <2>1. op[r].task \in TaskIds /\ op[r].task # None
    BY <1>0, <1>8, DeleteOp, AttachmentsAssumption DEF DeleteTask, LocalOf
  <2>2. /\ alive' = alive \ {op[r].task} /\ UNCHANGED <<op, inserted>>
        /\ \A q \in Requests : inserted[q] # {} => op[q].task # op[r].task
        /\ home' = [f \in Files |-> IF home[f] = op[r].task THEN None ELSE home[f]]
    BY <1>8 DEF DeleteTask
  <2> QED BY <2>1, <2>2
<1> QED BY <1>1, <1>2, <1>3, <1>4, <1>5, <1>6, <1>7, <1>8 DEF Step, Upload, Delete

(* What a request may remove. *)
LEMMA RemovedRows ==
    ASSUME TypeOK, Local, RowsGone, NEW r \in Requests, Step(r), NEW f \in paths'[r]
    PROVE  /\ pc'[r] = "remove" => home'[f] = None
           /\ pc'[r] = "delete" => home'[f] \in {None, op'[r].task}
<1>0. /\ LocalOf(pc[r], op[r], temps[r], paths[r], inserted[r])
      /\ \A g \in paths[r] : /\ pc[r] = "remove" => home[g] = None
                             /\ pc[r] = "delete" => home[g] \in {None, op[r].task}
  BY DEF Local, RowsGone
<1>1. CASE Begin(r)
  BY <1>1 DEF Begin, BeginUpload, BeginDeleteTask, BeginDeleteAttachment, Goto, TypeOK
<1>2. CASE RemoveFile(r) \/ RemoveFails(r) \/ CleanTemp(r) \/ CleanWritten(r)
  BY <1>0, <1>2 DEF RemoveFile, RemoveFails, CleanTemp, CleanWritten, TypeOK
<1>3. CASE DeleteRow(r)
  BY <1>0, <1>3, DeleteOp DEF DeleteRow, Goto, LocalOf, TypeOK
<1>4. CASE CapturePaths(r)
  BY <1>4 DEF CapturePaths, RowsOf, Goto, TypeOK
<1>5. CASE DeleteTask(r)
  <2>1. /\ pc' = [pc EXCEPT ![r] = "remove"] /\ paths' = paths /\ pc[r] = "delete"
        /\ home' = [g \in Files |-> IF home[g] = op[r].task THEN None ELSE home[g]]
    BY <1>5 DEF DeleteTask, Goto
  <2> QED BY <1>0, <2>1 DEF TypeOK
<1>6. CASE DeletionFails(r) \/ Drop(r)
  BY <1>6 DEF DeletionFails, Drop, Return, Goto, TypeOK
<1>7. CASE Upload(r) /\ ~RemoveFails(r) /\ ~CleanTemp(r) /\ ~CleanWritten(r)
  BY <1>7 DEF Upload, CreateTemp, FinishField, RejectField, NoFields, EndOfBody, LockWorkspace,
        CheckQuota, QuotaExceeded, Rename, InsertRow, TaskGone, Commit, CommitUnanswered,
        UploadFails, Cleaned, Return, Goto, TypeOK
<1> QED BY <1>1, <1>2, <1>3, <1>4, <1>5, <1>6, <1>7 DEF Step, Delete

-----------------------------------------------------------------------------
(* Others keep what they made. *)
LEMMA OthersMade ==
    ASSUME TypeOK, NEW r \in Requests, Step(r), NEW q \in Requests \ {r}
    PROVE  Made(q)' = Made(q)
BY OthersStay DEF Made, Uploading

(* A file of an upload under way is at hand to nobody else. *)
LEMMA Apart ==
    ASSUME Owned, NEW r \in Requests, NEW q \in Requests \ {r}, NEW f \in Made(r)
    PROVE  /\ f \notin Made(q)
           /\ fate[f] = "known" => f \notin paths[q] /\ home[f] = None
           /\ fate[f] # "unanswered" => home[f] = None
           /\ pc[r] # "cleanup" => fate[f] = "known"
           /\ f \in temps[r] \cup inserted[r] => fate[f] = "known"
BY DEF Owned

(* What an upload made are files. *)
LEMMA MadeAreFiles ==
    ASSUME TypeOK, NEW r \in Requests
    PROVE  Made(r) \subseteq Files
BY DEF TypeOK, Made

(* No step shares a file an upload made. *)
LEMMA OwnedStep == TypeOK /\ TypeOK' /\ Local /\ Owned /\ RowsGone /\ [Next]_vars => Owned'
<1> SUFFICES ASSUME TypeOK, TypeOK', Local, Owned, RowsGone, [Next]_vars PROVE Owned'
  OBVIOUS
<1>1. CASE UNCHANGED vars
  BY <1>1 DEF vars, Owned, Made, Uploading
<1>2. ASSUME NEW r \in Requests, Step(r) PROVE Owned'
  <2> USE <1>2
  <2>f. \A f \in Files : f \in Fresh =>
          /\ home[f] = None /\ fate[f] = "known"
          /\ \A q \in Requests : f \notin Made(q) \cup paths[q]
    BY DEF Fresh, Made
  <2>i. inserted[r] \subseteq Made(r)
    BY DEF Made
  <2>1. ASSUME NEW q \in Requests \ {r}, NEW f \in Made(q)
        PROVE  /\ f \notin Made(r)'
               /\ fate'[f] = "known" => f \notin paths'[r]
               /\ \A p \in Requests \ {q, r} : fate'[f] = "known" => f \notin paths[p]
               /\ fate'[f] # "unanswered" => home'[f] = None
               /\ pc[q] # "cleanup" => fate'[f] = "known"
               /\ f \in temps[q] \cup inserted[q] => fate'[f] = "known"
    <3>0. f \in Files
      BY <2>1, MadeAreFiles
    <3>1. f \notin Made(r) /\ f \notin Fresh /\ f \notin inserted[r]
      BY <2>1, <2>f, <2>i, <3>0, Apart
    <3>2. f \notin Made(r)'
      BY <3>0, <3>1, Hands
    <3>3. /\ fate[f] = "known" => f \notin paths[r] /\ home[f] = None
          /\ fate[f] # "unanswered" => home[f] = None
          /\ pc[q] # "cleanup" => fate[f] = "known"
          /\ f \in temps[q] \cup inserted[q] => fate[f] = "known"
      BY <2>1, Apart
    <3>4. /\ home'[f] \in {home[f], None}
          /\ fate'[f] = fate[f] \/
             (home'[f] = None /\ fate'[f] \in {"left", "missed"}
              /\ (home[f] # None \/ f \in paths[r]))
          /\ fate'[f] = "known" => fate[f] = "known"
      BY <3>0, <3>1, Rows
    <3>5. f \in paths'[r] => f \in paths[r] \/ home[f] # None
      BY <3>0, <3>1, Hands
    <3>6. \A p \in Requests \ {q, r} : fate[f] = "known" => f \notin paths[p]
      BY <2>1, Apart
    <3> QED BY <3>2, <3>3, <3>4, <3>5, <3>6
  <2>2. ASSUME NEW f \in Made(r)'
        PROVE  /\ \A q \in Requests \ {r} : f \notin Made(q)
               /\ \A q \in Requests \ {r} : fate'[f] = "known" => f \notin paths[q]
               /\ fate'[f] # "unanswered" => home'[f] = None
               /\ pc'[r] # "cleanup" => fate'[f] = "known"
               /\ f \in temps'[r] \cup inserted'[r] => fate'[f] = "known"
    <3>0. f \in Files
      BY <2>2 DEF TypeOK, Made
    <3>1. /\ f \in Fresh \/ (f \in Made(r) /\ (pc'[r] # "cleanup" => pc[r] # "cleanup"))
          /\ \/ fate'[f] = fate[f] /\ home'[f] = home[f]
             \/ /\ fate'[f] = "unanswered" /\ pc'[r] = "cleanup"
                /\ f \notin temps'[r] \cup inserted'[r]
          /\ f \in temps'[r] \cup inserted'[r] =>
               f \in temps[r] \cup inserted[r] \cup Fresh \/ (f \in Made(r) /\ pc[r] # "cleanup")
      BY <2>2, <3>0, Hands
    <3>2. CASE f \in Fresh
      BY <2>f, <3>0, <3>1, <3>2
    <3>3. CASE f \in Made(r) /\ f \notin Fresh
      <4>1. /\ \A q \in Requests \ {r} : f \notin Made(q)
            /\ \A q \in Requests \ {r} : fate[f] = "known" => f \notin paths[q]
            /\ fate[f] # "unanswered" => home[f] = None
            /\ pc[r] # "cleanup" => fate[f] = "known"
            /\ f \in temps[r] \cup inserted[r] => fate[f] = "known"
        BY <3>3 DEF Owned
      <4> QED BY <3>1, <3>3, <4>1
    <3> QED BY <3>1, <3>2, <3>3
  <2>3. \A q \in Requests \ {r} : Made(q)' = Made(q)
    BY OthersMade
  <2>4. \A q \in Requests \ {r} :
          /\ pc'[q] = pc[q] /\ temps'[q] = temps[q]
          /\ paths'[q] = paths[q] /\ inserted'[q] = inserted[q]
    BY OthersStay
  <2>5. \A p, q \in Requests : p # q => Made(p)' \cap Made(q)' = {}
    <3> SUFFICES ASSUME NEW p \in Requests, NEW q \in Requests, p # q,
                        NEW f \in Made(p)', f \in Made(q)'
                 PROVE  FALSE
      OBVIOUS
    <3>1. CASE p = r
      BY <2>2, <2>3, <3>1
    <3>2. CASE p # r /\ q = r
      BY <2>2, <2>3, <3>2
    <3>3. CASE p # r /\ q # r
      BY <2>3, <3>3, Apart
    <3> QED BY <3>1, <3>2, <3>3
  <2>6. \A p, q \in Requests : \A f \in Made(p)' : fate'[f] = "known" /\ p # q => f \notin paths'[q]
    <3> SUFFICES ASSUME NEW p \in Requests, NEW q \in Requests, p # q,
                        NEW f \in Made(p)', fate'[f] = "known"
                 PROVE  f \notin paths'[q]
      OBVIOUS
    <3>1. CASE p = r
      BY <2>2, <2>4, <3>1
    <3>2. CASE p # r /\ q = r
      BY <2>1, <2>3, <3>2
    <3>3. CASE p # r /\ q # r
      BY <2>1, <2>3, <2>4, <3>3
    <3> QED BY <3>1, <3>2, <3>3
  <2>7. \A p \in Requests : \A f \in Made(p)' :
          /\ fate'[f] # "unanswered" => home'[f] = None
          /\ pc'[p] # "cleanup" => fate'[f] = "known"
          /\ f \in temps'[p] \cup inserted'[p] => fate'[f] = "known"
    <3> TAKE p \in Requests
    <3>1. CASE p = r
      BY <2>2, <3>1
    <3>2. CASE p # r
      BY <2>1, <2>3, <2>4, <3>2
    <3> QED BY <3>1, <3>2
  <2>8. \A p \in Requests : temps'[p] \cup inserted'[p] \subseteq Made(p)'
    BY DEF Made
  <2> QED BY <2>5, <2>6, <2>7, <2>8 DEF Owned
<1> QED BY <1>1, <1>2 DEF Next, Step

(* No step gives a row to a file a deletion removes. *)
LEMMA RowsGoneStep ==
    TypeOK /\ Local /\ Owned /\ RowsGone /\ [Next]_vars => RowsGone'
<1> SUFFICES ASSUME TypeOK, Local, Owned, RowsGone, [Next]_vars PROVE RowsGone'
  OBVIOUS
<1>1. CASE UNCHANGED vars
  BY <1>1 DEF vars, RowsGone
<1>2. ASSUME NEW r \in Requests, Step(r) PROVE RowsGone'
  <2>1. ASSUME NEW q \in Requests \ {r}, NEW f \in paths[q]
        PROVE  home'[f] \in {home[f], None}
    <3>1. f \in inserted[r] => FALSE
      BY <2>1, Apart DEF Made
    <3>2. f \in Files
      BY <2>1 DEF TypeOK
    <3> QED BY <1>2, <3>1, <3>2, Rows
  <2>2. \A q \in Requests \ {r} : pc'[q] = pc[q] /\ op'[q] = op[q] /\ paths'[q] = paths[q]
    BY <1>2, OthersStay
  <2>3. \A f \in paths'[r] : /\ pc'[r] = "remove" => home'[f] = None
                             /\ pc'[r] = "delete" => home'[f] \in {None, op'[r].task}
    BY <1>2, RemovedRows
  <2> SUFFICES ASSUME NEW q \in Requests, NEW f \in paths'[q]
               PROVE  /\ pc'[q] = "remove" => home'[f] = None
                      /\ pc'[q] = "delete" => home'[f] \in {None, op'[q].task}
    BY DEF RowsGone
  <2>4. CASE q = r
    BY <2>3, <2>4
  <2>5. CASE q # r
    BY <2>1, <2>2, <2>5 DEF RowsGone
  <2> QED BY <2>4, <2>5
<1> QED BY <1>1, <1>2 DEF Next, Step

(* No step writes a file twice, or loses one that is being written. *)
LEMMA OnDiskStep ==
    TypeOK /\ TypeOK' /\ Local /\ Owned /\ RowsGone /\ OnDisk /\ [Next]_vars => OnDisk'
<1> SUFFICES ASSUME TypeOK, TypeOK', Local, Owned, RowsGone, OnDisk, [Next]_vars PROVE OnDisk'
  OBVIOUS
<1>1. CASE UNCHANGED vars
  BY <1>1 DEF vars, OnDisk
<1>2. ASSUME NEW r \in Requests, Step(r) PROVE OnDisk'
  <2> USE <1>2
  <2>0. LocalOf(pc[r], op[r], temps[r], paths[r], inserted[r])
    BY DEF Local
  <2>1. ASSUME NEW f \in temp' PROVE f \notin disk' /\ home'[f] = None
    <3>0. f \in Files
      BY <2>1 DEF TypeOK
    <3>1. CASE f \in temp
      <4>1. f \notin disk /\ home[f] = None
        BY <3>1 DEF OnDisk
      <4>2. f \in inserted[r] => pc[r] # "commit"
        BY <2>0, <4>1 DEF LocalOf, OnDisk, Writing
      <4> QED BY <2>1, <3>0, <4>1, <4>2, Rows, OnDiskChanges
    <3>2. CASE f \notin temp
      BY <2>1, <3>0, <3>2, OnDiskChanges DEF Fresh
    <3> QED BY <3>1, <3>2
  <2>2. ASSUME NEW q \in Requests, pc'[q] \in Writing, NEW f \in paths'[q] PROVE f \in disk'
    <3>0. f \in Files
      BY <2>2 DEF TypeOK
    <3>1. CASE q = r
      <4>1. f \in disk' \/ (f \in disk /\ pc[r] \in Writing)
        BY <2>2, <3>0, <3>1, OnDiskChanges DEF OnDisk
      <4> QED BY <3>0, <4>1, OnDiskChanges DEF Writing
    <3>2. CASE q # r
      <4>1. pc[q] \in Writing /\ f \in paths[q]
        BY <2>2, <3>2, OthersStay
      <4>2. f \in disk /\ f \in Made(q) /\ pc[q] # "cleanup"
        BY <4>1 DEF OnDisk, Local, LocalOf, Made, Uploading, Writing
      <4>3. f \notin paths[r]
        BY <3>2, <4>2, Apart
      <4> QED BY <3>0, <4>2, <4>3, OnDiskChanges
    <3> QED BY <3>1, <3>2
  <2> QED BY <2>1, <2>2 DEF OnDisk
<1> QED BY <1>1, <1>2 DEF Next, Step

-----------------------------------------------------------------------------
(* No step leaves a row, committed or not, without its task. *)
LEMMA TasksStep ==
    /\ TypeOK /\ TypeOK' /\ Local /\ RowsGone /\ TasksLive /\ RowsHaveTasks /\ [Next]_vars
    => TasksLive' /\ RowsHaveTasks'
<1> SUFFICES ASSUME TypeOK, TypeOK', Local, RowsGone, TasksLive, RowsHaveTasks, [Next]_vars
             PROVE  TasksLive' /\ RowsHaveTasks'
  OBVIOUS
<1>1. CASE UNCHANGED vars
  BY <1>1 DEF vars, TasksLive, RowsHaveTasks, Stored
<1>2. ASSUME NEW r \in Requests, Step(r) PROVE TasksLive' /\ RowsHaveTasks'
  <2> USE <1>2
  <2>1. ASSUME NEW q \in Requests, inserted'[q] # {} PROVE op'[q].task \in alive'
    <3>1. CASE q # r
      <4>1. op'[q] = op[q] /\ inserted'[q] = inserted[q] /\ op[q].task \in alive
        BY <2>1, <3>1, OthersStay DEF TasksLive
      <4> QED BY <2>1, <4>1, TaskChanges
    <3>2. CASE q = r
      <4>1. CASE op'[r].task \in alive'
        BY <3>2, <4>1
      <4>2. CASE inserted[r] # {} /\ op'[r].task = op[r].task
        BY <3>2, <4>2, TaskChanges DEF TasksLive
      <4> QED BY <2>1, <3>2, <4>1, <4>2, TaskChanges
    <3> QED BY <3>1, <3>2
  <2>2. ASSUME NEW f \in Files, home'[f] # None PROVE home'[f] \in alive'
    <3>1. home'[f] \in alive
      <4>1. CASE home'[f] = home[f]
        BY <2>2, <4>1 DEF RowsHaveTasks, Stored
      <4>2. CASE f \in inserted[r] /\ home'[f] = op[r].task
        BY <4>2 DEF TasksLive
      <4> QED BY <2>2, <4>1, <4>2, Rows
    <3> QED BY <3>1, TaskChanges
  <2> QED BY <2>1, <2>2 DEF TasksLive, RowsHaveTasks, Stored
<1> QED BY <1>1, <1>2 DEF Next, Step

(* No step takes the file of a row. *)
LEMMA RowsHaveFilesStep ==
    TypeOK /\ Local /\ Owned /\ RowsGone /\ OnDisk /\ RowsHaveFiles /\ [Next]_vars => RowsHaveFiles'
<1> SUFFICES ASSUME TypeOK, Local, Owned, RowsGone, OnDisk, RowsHaveFiles, [Next]_vars
             PROVE  RowsHaveFiles'
  OBVIOUS
<1>1. CASE UNCHANGED vars
  BY <1>1 DEF vars, RowsHaveFiles, Stored
<1>2. ASSUME NEW r \in Requests, Step(r) PROVE RowsHaveFiles'
  <2> SUFFICES ASSUME NEW f \in Files, home'[f] # None, fate'[f] # "unanswered"
               PROVE  f \in disk'
    BY DEF RowsHaveFiles, Stored
  <2> USE <1>2
  <2>0. LocalOf(pc[r], op[r], temps[r], paths[r], inserted[r])
    BY DEF Local
  <2>1. CASE f \in inserted[r] /\ pc[r] = "commit"
    <3>1. f \in disk
      BY <2>0, <2>1 DEF LocalOf, OnDisk, Writing
    <3> QED BY <2>1, <3>1, OnDiskChanges
  <2>2. CASE home'[f] = home[f] /\ fate[f] # "unanswered"
    <3>1. f \in disk
      BY <2>2 DEF RowsHaveFiles, Stored
    <3>2. f \in paths[r] => pc[r] \notin {"cleanup", "remove"}
      <4>1. pc[r] = "cleanup" /\ f \in paths[r] => f \in Made(r)
        BY <2>0 DEF LocalOf, Made, Uploading
      <4>2. f \in Made(r) => home[f] = None
        BY <2>2 DEF Owned
      <4> QED BY <2>2, <4>1, <4>2 DEF RowsGone
    <3> QED BY <3>1, <3>2, OnDiskChanges
  <2>3. CASE home'[f] = home[f] /\ fate[f] = "unanswered"
    <3>1. f \in temp \cup disk /\ disk' = disk
      BY <2>3, Rows
    <3> QED BY <2>3, <3>1 DEF OnDisk
  <2> QED BY <2>1, <2>2, <2>3, Rows
<1> QED BY <1>1, <1>2 DEF Next, Step

(* What only r knows of stays so, or is noted, or becomes a row's. *)
LEMMA Known ==
    ASSUME TypeOK, Local, Owned, OnDisk, NEW r \in Requests, Step(r),
           NEW f \in OnlyKnownTo(r), f \in temp' \cup disk'
    PROVE  \/ f \in OnlyKnownTo(r)'
           \/ fate'[f] \in {"left", "missed"}
           \/ f \in disk' /\ home'[f] # None
<1>0. /\ LocalOf(pc[r], op[r], temps[r], paths[r], inserted[r])
      /\ f \in Files /\ home[f] = None /\ pc[r] \notin {"capture", "delete", "delete_row"}
      /\ f \in temps[r] \cap temp \/ f \in paths[r] \cap disk
      /\ f \in temp => f \notin disk
  BY DEF Local, OnlyKnownTo, OnDisk, TypeOK
<1>1. CASE Begin(r)
  BY <1>0, <1>1 DEF Begin, BeginUpload, BeginDeleteTask, BeginDeleteAttachment, LocalOf, Writing,
        NoOp
<1>2. CASE \E g \in Files : CreateTemp(r, g)
  BY <1>0, <1>2 DEF CreateTemp, Goto, OnlyKnownTo, TypeOK
<1>3. CASE FinishField(r)
  BY <1>0, <1>3 DEF FinishField, Goto, OnlyKnownTo, TypeOK
<1>4. CASE Rename(r)
  BY <1>0, <1>4 DEF Rename, Goto, OnlyKnownTo, TypeOK
<1>5. CASE RejectField(r) \/ EndOfBody(r) \/ LockWorkspace(r) \/ CheckQuota(r) \/ InsertRow(r)
  BY <1>0, <1>5 DEF RejectField, EndOfBody, LockWorkspace, CheckQuota, InsertRow, Goto,
        OnlyKnownTo, TypeOK
<1>6. CASE QuotaExceeded(r) \/ TaskGone(r) \/ UploadFails(r)
  BY <1>0, <1>6 DEF QuotaExceeded, TaskGone, UploadFails, Goto, OnlyKnownTo, TypeOK
<1>7. CASE NoFields(r) \/ Cleaned(r) \/ DeletionFails(r)
  BY <1>0, <1>7 DEF NoFields, Cleaned, DeletionFails, LocalOf
<1>8. CASE Commit(r) \/ CommitUnanswered(r)
  <2>1. f \in inserted[r] /\ f \in disk
    BY <1>0, <1>8 DEF Commit, CommitUnanswered, LocalOf, Writing
  <2>2. op[r].task # None
    BY <1>0, <1>8, UploadOp, AttachmentsAssumption
       DEF Commit, CommitUnanswered, LocalOf, Uploading, Writing
  <2> QED BY <1>0, <1>8, <2>1, <2>2 DEF Commit, CommitUnanswered, Committed
<1>9. CASE CleanTemp(r) \/ CleanWritten(r) \/ RemoveFile(r)
  BY <1>0, <1>9 DEF CleanTemp, CleanWritten, RemoveFile, OnlyKnownTo, TypeOK
<1>10. CASE RemoveFails(r)
  BY <1>0, <1>10 DEF RemoveFails, OnlyKnownTo, TypeOK
<1>11. CASE DeleteRow(r) \/ CapturePaths(r) \/ DeleteTask(r)
  BY <1>0, <1>11 DEF DeleteRow, CapturePaths, DeleteTask
<1>12. CASE Drop(r)
  BY <1>0, <1>12 DEF Drop
<1> QED BY <1>1, <1>2, <1>3, <1>4, <1>5, <1>6, <1>7, <1>8, <1>9, <1>10, <1>11, <1>12
        DEF Step, Upload, Delete

(* A file that is new to the disk is r's. *)
LEMMA NewKnown ==
    ASSUME TypeOK, Local, Owned, NEW r \in Requests, Step(r), NEW f \in temp' \cup disk',
           f \notin temp \cup disk
    PROVE  f \in OnlyKnownTo(r)'
<1>1. CASE \E g \in Files : CreateTemp(r, g)
  BY <1>1 DEF CreateTemp, Fresh, Goto, OnlyKnownTo, TypeOK
<1>2. CASE Rename(r)
  <2>1. f \in temps[r] /\ f \in disk' /\ f \in paths'[r] /\ home' = home /\ pc'[r] = "insert"
    BY <1>2 DEF Rename, Goto, TypeOK
  <2>2. home[f] = None /\ f \in Files
    BY <2>1 DEF Owned, Made, TypeOK
  <2> QED BY <2>1, <2>2 DEF OnlyKnownTo
<1>3. CASE ~Rename(r) /\ ~\E g \in Files : CreateTemp(r, g)
  BY <1>3 DEF Step, Begin, BeginUpload, BeginDeleteTask, BeginDeleteAttachment, Upload,
        FinishField, RejectField, NoFields, EndOfBody, LockWorkspace, CheckQuota, QuotaExceeded,
        InsertRow, TaskGone, Commit, CommitUnanswered, UploadFails, CleanTemp, CleanWritten,
        Cleaned, RemoveFails, Delete, DeleteRow, CapturePaths, DeleteTask, DeletionFails,
        RemoveFile, Drop
<1> QED BY <1>1, <1>2, <1>3

(* No step leaves a file unaccounted for. *)
LEMMA FilesStep ==
    /\ TypeOK /\ TypeOK' /\ Local /\ Owned /\ RowsGone /\ OnDisk
    /\ FilesAccountedFor /\ [Next]_vars
    => FilesAccountedFor'
<1> SUFFICES ASSUME TypeOK, TypeOK', Local, Owned, RowsGone, OnDisk, FilesAccountedFor,
                    [Next]_vars
             PROVE  FilesAccountedFor'
  OBVIOUS
<1>1. CASE UNCHANGED vars
  BY <1>1 DEF vars, FilesAccountedFor, Stored, OnlyKnownTo
<1>2. ASSUME NEW r \in Requests, Step(r) PROVE FilesAccountedFor'
  <2> USE <1>2
  <2> SUFFICES ASSUME NEW f \in temp' \cup disk'
               PROVE  \/ f \in disk' /\ home'[f] # None
                      \/ \E q \in Requests : f \in OnlyKnownTo(q)'
                      \/ fate'[f] \in {"left", "missed"}
    BY DEF FilesAccountedFor, Stored, TypeOK
  <2>0. f \in Files /\ (f \in inserted[r] => fate[f] = "known" /\ home[f] = None)
    BY DEF TypeOK, Owned, Made
  <2>1. CASE f \notin temp \cup disk
    BY <2>1, NewKnown
  <2>2. CASE f \in disk /\ home[f] # None
    <3>1. f \in disk' /\ f \notin temp'
      <4>1. f \notin temp
        BY <2>2 DEF OnDisk
      <4>2. f \notin temp'
        BY <2>0, <2>2, <4>1, OnDiskChanges DEF Fresh
      <4> QED BY <4>2
    <3>2. CASE home'[f] # None
      BY <3>1, <3>2
    <3>3. CASE home'[f] = None
      <4>1. (f \in paths'[r] /\ pc'[r] = "remove") \/ fate'[f] = "missed"
        BY <2>0, <2>2, <3>3, Rows
      <4>2. f \in paths'[r] /\ pc'[r] = "remove" => f \in OnlyKnownTo(r)'
        BY <2>0, <3>1, <3>3 DEF OnlyKnownTo
      <4> QED BY <4>1, <4>2
    <3> QED BY <3>2, <3>3
  <2>3. CASE f \in OnlyKnownTo(r)
    BY <2>3, Known
  <2>4. ASSUME NEW q \in Requests \ {r}, f \in OnlyKnownTo(q)
        PROVE  f \in OnlyKnownTo(q)' \/ (f \in disk' /\ home'[f] # None)
    <3>1. /\ pc'[q] = pc[q] /\ temps'[q] = temps[q] /\ paths'[q] = paths[q]
          /\ pc[q] \notin {"capture", "delete", "delete_row"} /\ home[f] = None
          /\ f \in temps[q] \cap temp \/ f \in paths[q] \cap disk
      BY <2>4, OthersStay DEF OnlyKnownTo
    <3>2. CASE f \in temps[q] \cap temp
      <4>1. f \in Made(q) /\ f \notin Made(r)
        BY <3>2, Apart DEF Made
      <4>2. f \notin temps[r] \cup inserted[r]
        BY <4>1 DEF Made
      <4>3. f \in temp' /\ home'[f] = None
        BY <2>0, <3>1, <3>2, <4>2, OnDiskChanges, Rows
      <4> QED BY <2>0, <3>1, <3>2, <4>3 DEF OnlyKnownTo
    <3>3. CASE f \in paths[q] \cap disk
      <4>1. f \in disk'
        <5>1. f \notin temp
          BY <3>3 DEF OnDisk
        <5> QED BY <2>0, <3>3, <5>1, OnDiskChanges DEF Fresh
      <4> QED BY <2>0, <3>1, <3>3, <4>1 DEF OnlyKnownTo
    <3> QED BY <3>1, <3>2, <3>3
  <2>5. CASE fate[f] \in {"left", "missed"}
    BY <2>0, <2>5, Rows
  <2>6. f \in temp \cup disk => \/ f \in disk /\ home[f] # None
                                \/ \E q \in Requests : f \in OnlyKnownTo(q)
                                \/ fate[f] \in {"left", "missed"}
    BY DEF FilesAccountedFor, Stored
  <2> QED BY <2>1, <2>2, <2>3, <2>4, <2>5, <2>6
<1> QED BY <1>1, <1>2 DEF Next, Step

-----------------------------------------------------------------------------
(* What is checked against the quota is what will be committed. *)
LEMMA Checked ==
    ASSUME TypeOK, Local, NEW r \in Requests, Step(r)
    PROVE  /\ lock' \in {lock, None} \/ (lock = None /\ lock' = r)
           /\ lock' # lock => lock = None \/ lock = r
           /\ pc'[r] \in {"check"} \cup Writing =>
                lock' = r \/ (pc[r] \in {"check"} \cup Writing /\ lock' = lock)
           /\ pc'[r] \in Writing =>
                /\ home' = home /\ temps'[r] \cup paths'[r] = temps[r] \cup paths[r]
                /\ pc[r] \in Writing \/ (pc[r] = "check" /\ Bytes(temps[r]) <= Remaining)
<1>0. LocalOf(pc[r], op[r], temps[r], paths[r], inserted[r])
  BY DEF Local
<1>1. CASE Begin(r)
  BY <1>0, <1>1 DEF Begin, BeginUpload, BeginDeleteTask, BeginDeleteAttachment, Goto, TypeOK,
        Writing
<1>2. CASE \E g \in Files : CreateTemp(r, g)
  BY <1>2 DEF CreateTemp, Goto, TypeOK, Writing
<1>3. CASE FinishField(r) \/ RejectField(r) \/ EndOfBody(r) \/ LockWorkspace(r) \/ CheckQuota(r)
  BY <1>3 DEF FinishField, RejectField, EndOfBody, LockWorkspace, CheckQuota, Goto, TypeOK,
        Writing
<1>4. CASE QuotaExceeded(r) \/ TaskGone(r) \/ UploadFails(r) \/ CommitUnanswered(r)
  BY <1>4 DEF QuotaExceeded, TaskGone, UploadFails, CommitUnanswered, Rollback, Goto, TypeOK,
        Writing
<1>5. CASE Rename(r)
  BY <1>5 DEF Rename, Goto, TypeOK, Writing
<1>6. CASE InsertRow(r)
  BY <1>6 DEF InsertRow, Goto, TypeOK, Writing
<1>7. CASE NoFields(r) \/ Cleaned(r) \/ DeletionFails(r)
  BY <1>7 DEF NoFields, Cleaned, DeletionFails, Return, Goto, TypeOK, Writing
<1>8. CASE Commit(r) \/ Drop(r)
  BY <1>8 DEF Commit, Drop, Rollback, Return, Goto, TypeOK, Writing
<1>9. CASE CleanTemp(r) \/ CleanWritten(r) \/ RemoveFails(r) \/ RemoveFile(r)
  BY <1>9 DEF CleanTemp, CleanWritten, RemoveFails, RemoveFile, TypeOK, Writing
<1>10. CASE DeleteRow(r) \/ CapturePaths(r) \/ DeleteTask(r)
  BY <1>10 DEF DeleteRow, CapturePaths, DeleteTask, Goto, TypeOK, Writing
<1> QED BY <1>1, <1>2, <1>3, <1>4, <1>5, <1>6, <1>7, <1>8, <1>9, <1>10 DEF Step, Upload, Delete

(* An upload that passes the check fits beside every row there is. *)
LEMMA Fits ==
    ASSUME TypeOK, QuotaHolds, NEW r \in Requests, Bytes(temps[r]) <= Remaining
    PROVE  Bytes(Stored \cup temps[r]) <= Limit
<1>1. Stored \in SUBSET Files /\ temps[r] \in SUBSET Files
  BY DEF Stored, TypeOK
<1>2. /\ Bytes(Stored) \in Nat /\ Bytes(temps[r]) \in Nat /\ Bytes(Stored \cup temps[r]) \in Nat
      /\ Bytes(Stored \cup temps[r]) <= Bytes(Stored) + Bytes(temps[r])
  BY <1>1, BytesOf
<1>3. Bytes(Stored) <= Limit /\ Limit \in Nat
  BY AttachmentsAssumption DEF QuotaHolds
<1>4. Remaining = Limit - Bytes(Stored)
  <2> DEFINE left == Limit - Bytes(Stored)
             S == {left, 0}
  <2>1. left \in S /\ \A y \in S : left >= y
    BY <1>2, <1>3
  <2>2. \A x \in S : (\A y \in S : x >= y) => x = left
    BY <1>2, <1>3
  <2>3. Max(S) = left
    BY <2>1, <2>2 DEF Max
  <2> QED BY <2>3 DEF Remaining
<1> QED BY <1>2, <1>3, <1>4

(* No step exceeds the quota, or lets go of what was checked. *)
LEMMA QuotaStep ==
    TypeOK /\ TypeOK' /\ Local /\ RowsGone /\ Reserved /\ QuotaHolds /\ [Next]_vars
    => Reserved' /\ QuotaHolds'
<1> SUFFICES ASSUME TypeOK, TypeOK', Local, RowsGone, Reserved, QuotaHolds, [Next]_vars
             PROVE  Reserved' /\ QuotaHolds'
  OBVIOUS
<1>1. CASE UNCHANGED vars
  <2>1. Stored' = Stored
    BY <1>1 DEF vars, Stored
  <2> QED BY <1>1, <2>1 DEF vars, Reserved, QuotaHolds
<1>2. ASSUME NEW r \in Requests, Step(r) PROVE Reserved' /\ QuotaHolds'
  <2> USE <1>2
  <2>0. LocalOf(pc[r], op[r], temps[r], paths[r], inserted[r])
    BY DEF Local
  <2>s. /\ Limit \in Nat
        /\ Stored \in SUBSET Files /\ Stored' \in SUBSET Files
        /\ \A q \in Requests : temps[q] \in SUBSET Files /\ paths[q] \in SUBSET Files
    BY AttachmentsAssumption DEF Stored, TypeOK
  <2>1. \A q \in Requests \ {r} : pc'[q] = pc[q] /\ temps'[q] = temps[q] /\ paths'[q] = paths[q]
    BY OthersStay
  <2>2. ASSUME NEW f \in Stored' PROVE f \in Stored \/ (f \in paths[r] /\ pc[r] = "commit")
    <3>1. f \in Files /\ home'[f] # None
      BY <2>2 DEF Stored
    <3>2. home[f] # None \/ (f \in inserted[r] /\ pc[r] = "commit")
      BY <3>1, Rows
    <3> QED BY <2>0, <3>1, <3>2 DEF LocalOf, Stored
  <2>3. QuotaHolds'
    <3>1. CASE pc[r] = "commit"
      <4>1. Bytes(Stored \cup temps[r] \cup paths[r]) <= Limit
        BY <3>1 DEF Reserved, Writing
      <4>2. Stored' \subseteq Stored \cup temps[r] \cup paths[r]
        BY <2>2
      <4>3. /\ Bytes(Stored') <= Bytes(Stored \cup temps[r] \cup paths[r])
            /\ Bytes(Stored') \in Nat /\ Bytes(Stored \cup temps[r] \cup paths[r]) \in Nat
        BY <2>s, <4>2, BytesOf
      <4>4. Bytes(Stored') <= Limit
        BY <2>s, <4>1, <4>3
      <4> QED BY <4>4 DEF QuotaHolds
    <3>2. CASE pc[r] # "commit"
      <4>1. Stored' \subseteq Stored
        BY <2>2, <3>2
      <4>2. Bytes(Stored') <= Bytes(Stored) /\ Bytes(Stored') \in Nat /\ Bytes(Stored) \in Nat
        BY <2>s, <4>1, BytesOf
      <4>3. Bytes(Stored') <= Limit
        BY <2>s, <4>2 DEF QuotaHolds
      <4> QED BY <4>3 DEF QuotaHolds
    <3> QED BY <3>1, <3>2
  <2>4. ASSUME NEW q \in Requests, pc'[q] \in {"check"} \cup Writing PROVE lock' = q
    <3>1. CASE q = r
      BY <2>4, <3>1, Checked DEF Reserved
    <3>2. CASE q # r
      <4>1. lock = q
        BY <2>1, <2>4, <3>2 DEF Reserved
      <4> QED BY <3>2, <4>1, Checked, AttachmentsAssumption
    <3> QED BY <3>1, <3>2
  <2>5. ASSUME NEW q \in Requests, pc'[q] \in Writing
        PROVE  Bytes(Stored' \cup temps'[q] \cup paths'[q]) <= Limit
    <3>1. CASE q = r
      <4>1. /\ Stored' \cup temps'[q] \cup paths'[q] = Stored \cup temps[r] \cup paths[r]
            /\ pc[r] \in Writing \/ (pc[r] = "check" /\ Bytes(temps[r]) <= Remaining)
        BY <2>5, <3>1, Checked DEF Stored
      <4>2. CASE pc[r] \in Writing
        BY <4>1, <4>2 DEF Reserved
      <4>3. CASE pc[r] = "check" /\ Bytes(temps[r]) <= Remaining
        <5>1. Stored \cup temps[r] \cup paths[r] = Stored \cup temps[r]
          BY <2>0, <4>3 DEF LocalOf
        <5> QED BY <4>1, <4>3, <5>1, Fits
      <4> QED BY <4>1, <4>2, <4>3
    <3>2. CASE q # r
      <4>1. pc[q] \in Writing /\ temps'[q] = temps[q] /\ paths'[q] = paths[q]
        BY <2>1, <2>5, <3>2
      <4>2. Bytes(Stored \cup temps[q] \cup paths[q]) <= Limit
        BY <4>1 DEF Reserved
      <4>3. pc[r] # "commit"
        BY <3>2, <4>1 DEF Reserved, Writing
      <4>4. Stored' \cup temps[q] \cup paths[q] \subseteq Stored \cup temps[q] \cup paths[q]
        BY <2>2, <4>3
      <4> DEFINE A == Stored' \cup temps[q] \cup paths[q]
                 B == Stored \cup temps[q] \cup paths[q]
      <4>5. A \in SUBSET Files /\ B \in SUBSET Files /\ A \subseteq B
        BY <2>s, <4>4
      <4> HIDE DEF A, B
      <4>6. Bytes(A) <= Bytes(B) /\ Bytes(A) \in Nat /\ Bytes(B) \in Nat
        BY <4>5, BytesOf
      <4>7. Bytes(A) <= Limit
        BY <2>s, <4>2, <4>6 DEF B
      <4> QED BY <4>1, <4>7 DEF A
    <3> QED BY <3>1, <3>2
  <2>6. Reserved'
    <3>1. ASSUME NEW q \in Requests, pc'[q] \in Writing
          PROVE  Bytes(Stored \cup temps[q] \cup paths[q])' <= Limit
      BY <2>5, <3>1
    <3> QED BY <2>4, <3>1 DEF Reserved
  <2> QED BY <2>3, <2>6
<1> QED BY <1>1, <1>2 DEF Next, Step

-----------------------------------------------------------------------------
(* Inv is inductive. *)
THEOREM InvHolds == Spec => []Inv
<1>1. Inv /\ [Next]_vars => Inv'
  <2> SUFFICES ASSUME Inv, [Next]_vars PROVE Inv'
    OBVIOUS
  <2>1. TypeOK' /\ Local'
    BY TypeStep, LocalStep DEF Inv
  <2>2. Owned' /\ RowsGone' /\ OnDisk'
    BY <2>1, OwnedStep, RowsGoneStep, OnDiskStep DEF Inv
  <2>3. TasksLive' /\ RowsHaveTasks' /\ RowsHaveFiles' /\ FilesAccountedFor'
    BY <2>1, TasksStep, RowsHaveFilesStep, FilesStep DEF Inv
  <2>4. Reserved' /\ QuotaHolds'
    BY <2>1, QuotaStep DEF Inv
  <2> QED BY <2>1, <2>2, <2>3, <2>4 DEF Inv
<1> QED BY InitInv, <1>1, PTL DEF Spec

(* Every variable keeps its type. *)
THEOREM AttachmentsTypeOK == Spec => []TypeOK
<1>1. Inv => TypeOK
  BY DEF Inv
<1> QED BY <1>1, InvHolds, PTL

(* attachments.rs: the file of a committed row is on disk, whatever uploads fail  *)
(* and whatever is deleted at the same time, unless the COMMIT went unanswered.   *)
THEOREM FilesOfRows == Spec => []RowsHaveFiles
<1>1. Inv => RowsHaveFiles
  BY DEF Inv
<1> QED BY <1>1, InvHolds, PTL

(* attachments.rs: no row is committed for a task that is gone, and none stays. *)
THEOREM TasksOfRows == Spec => []RowsHaveTasks
<1>1. Inv => RowsHaveTasks
  BY DEF Inv
<1> QED BY <1>1, InvHolds, PTL

(* attachments.rs:13: every file on disk is a row's, or in the hands of a running *)
(* request, or was left by a dropped request, a failed removal or a missed path.   *)
THEOREM NoFileUnaccounted == Spec => []FilesAccountedFor
<1>1. Inv => FilesAccountedFor
  BY DEF Inv
<1> QED BY <1>1, InvHolds, PTL

(* finalize_attachments: the bytes of the committed rows never exceed the quota,  *)
(* however many uploads check it and commit at the same time.                     *)
THEOREM QuotaKept == Spec => []QuotaHolds
<1>1. Inv => QuotaHolds
  BY DEF Inv
<1> QED BY <1>1, InvHolds, PTL
=============================================================================
