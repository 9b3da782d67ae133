------------------------------ MODULE Attachments ------------------------------
(***************************************************************************)
(* The attachments of one workspace: rows in PostgreSQL and files in the   *)
(* upload directory, which no transaction spans.  upload_attachment and    *)
(* delete_attachment (attachments.rs) and delete_task (tasks.rs).          *)
(*                                                                         *)
(* A handler is a future: it ends at an await when its client goes away or *)
(* the process stops (Drop), PostgreSQL then rolls its transaction back    *)
(* and its cleanup code does not run.  A file stands for its attachment    *)
(* id, a fresh UUID: an id nothing refers to any more is taken again.      *)
(***************************************************************************)
EXTENDS Integers, FiniteSets, FiniteSetsExt

CONSTANTS
    Files,    \* attachment ids, each the name of a temporary and of a stored file
    Size,     \* the bytes of each file
    Limit,    \* max_workspace_storage_bytes
    TaskIds,  \* the tasks of the workspace
    Requests, \* slots for requests being served at the same time
    None      \* no task

ASSUME AttachmentsAssumption ==
    /\ IsFiniteSet(Files)
    /\ Size \in [Files -> Nat]
    /\ Limit \in Nat
    /\ None \notin TaskIds \cup Files
    /\ None \notin Requests

VARIABLES
    alive,    \* the tasks that exist
    home,     \* the committed rows: the task of each attachment, or None
    temp,     \* the temporary files on disk
    disk,     \* the stored files on disk
    lock,     \* the holder of the workspace's advisory lock, or None
    pc,       \* what each request does next
    op,       \* what each request asks for
    temps,    \* temporary files a request has to rename or remove
    paths,    \* written_paths of an upload, captured storage paths of a deletion
    inserted, \* rows an upload has inserted and not committed
    fate      \* history: how the server lost track of a file, or of its row's file

vars == <<alive, home, temp, disk, lock, pc, op, temps, paths, inserted, fate>>

NoOp == [kind |-> "none"]
Ops == [kind : {"upload"}, task : TaskIds, field : Files \cup {None}]
       \cup [kind : {"delete_task"}, task : TaskIds]
       \cup [kind : {"delete_attachment"}, file : Files]

PCs == {"idle", "fields", "streaming", "lock", "check", "rename", "insert", "commit",
        "cleanup", "capture", "delete", "delete_row", "remove"}

Fates == {"known",       \* nothing went wrong
          "left",        \* its request ended without cleanup, or remove_file failed
          "missed",      \* its row went with the task, its path was not captured
          "unanswered"}  \* the row was committed, but the upload saw an error

Stored == {f \in Files : home[f] # None}

Bytes(S) == MapThenSumSet(LAMBDA f : Size[f], S)

(* The attachment ids nothing refers to. *)
Fresh == {f \in Files :
            /\ home[f] = None
            /\ f \notin temp \cup disk
            /\ fate[f] = "known"
            /\ \A r \in Requests :
                /\ f \notin temps[r] \cup paths[r] \cup inserted[r]
                /\ op[r].kind = "delete_attachment" => op[r].file # f}

Goto(r, label) == pc' = [pc EXCEPT ![r] = label]

(* The transaction of r ends without a commit. *)
Rollback(r) ==
    /\ lock' = IF lock = r THEN None ELSE lock
    /\ inserted' = [inserted EXCEPT ![r] = {}]

(* The handler returns. *)
Return(r) ==
    /\ Goto(r, "idle")
    /\ op' = [op EXCEPT ![r] = NoOp]
    /\ temps' = [temps EXCEPT ![r] = {}]
    /\ paths' = [paths EXCEPT ![r] = {}]

Init ==
    /\ alive = TaskIds
    /\ home = [f \in Files |-> None]
    /\ temp = {}
    /\ disk = {}
    /\ lock = None
    /\ pc = [r \in Requests |-> "idle"]
    /\ op = [r \in Requests |-> NoOp]
    /\ temps = [r \in Requests |-> {}]
    /\ paths = [r \in Requests |-> {}]
    /\ inserted = [r \in Requests |-> {}]
    /\ fate = [f \in Files |-> "known"]

-----------------------------------------------------------------------------
(* upload_attachment: the fields of the body are streamed to temporary files *)

BeginUpload(r, t) ==
    /\ pc[r] = "idle"
    /\ t \in alive
    /\ op' = [op EXCEPT ![r] = [kind |-> "upload", task |-> t, field |-> None]]
    /\ Goto(r, "fields")
    /\ UNCHANGED <<alive, home, temp, disk, lock, temps, paths, inserted, fate>>

CreateTemp(r, f) ==
    /\ pc[r] = "fields"
    /\ f \in Fresh
    /\ temp' = temp \cup {f}
    /\ temps' = [temps EXCEPT ![r] = @ \cup {f}]
    /\ op' = [op EXCEPT ![r].field = f]
    /\ Goto(r, "streaming")
    /\ UNCHANGED <<alive, home, disk, lock, paths, inserted, fate>>

(* A field without bytes leaves no file. *)
FinishField(r) ==
    LET f == op[r].field
        gone == IF Size[f] = 0 THEN {f} ELSE {} IN
    /\ pc[r] = "streaming"
    /\ temp' = temp \ gone
    /\ temps' = [temps EXCEPT ![r] = @ \ gone]
    /\ op' = [op EXCEPT ![r].field = None]
    /\ Goto(r, "fields")
    /\ UNCHANGED <<alive, home, disk, lock, paths, inserted, fate>>

(* A broken body, a refused type, a full disk: every temporary file goes. *)
RejectField(r) ==
    /\ pc[r] \in {"fields", "streaming"}
    /\ Goto(r, "cleanup")
    /\ UNCHANGED <<alive, home, temp, disk, lock, op, temps, paths, inserted, fate>>

NoFields(r) ==
    /\ pc[r] = "fields"
    /\ temps[r] = {}
    /\ Return(r)
    /\ UNCHANGED <<alive, home, temp, disk, lock, inserted, fate>>

EndOfBody(r) ==
    /\ pc[r] = "fields"
    /\ temps[r] # {}
    /\ Goto(r, "lock")
    /\ UNCHANGED <<alive, home, temp, disk, lock, op, temps, paths, inserted, fate>>

-----------------------------------------------------------------------------
(* finalize_attachments: one transaction around the renames *)

(* Variant: no advisory lock.  (Each "Variant" is a change of the definition   *)
(* after it that a property of this module must reject.)                       *)
SkipLock(r) ==
    /\ pc[r] = "lock"
    /\ Goto(r, "check")
    /\ UNCHANGED <<alive, home, temp, disk, lock, op, temps, paths, inserted, fate>>

LockWorkspace(r) ==
    /\ pc[r] = "lock"
    /\ lock = None
    /\ lock' = r
    /\ Goto(r, "check")
    /\ UNCHANGED <<alive, home, temp, disk, op, temps, paths, inserted, fate>>

Remaining == Max({Limit - Bytes(Stored), 0})

CheckQuota(r) ==
    /\ pc[r] = "check"
    /\ Bytes(temps[r]) <= Remaining
    /\ Goto(r, "rename")
    /\ UNCHANGED <<alive, home, temp, disk, lock, op, temps, paths, inserted, fate>>

QuotaExceeded(r) ==
    /\ pc[r] = "check"
    /\ Bytes(temps[r]) > Remaining
    /\ Goto(r, "cleanup")
    /\ Rollback(r)
    /\ UNCHANGED <<alive, home, temp, disk, op, temps, paths, fate>>

(* Variant: written_paths is filled after the insertion only. *)
RenameUnrecorded(r) ==
    /\ pc[r] = "rename"
    /\ \E f \in temps[r] :
        /\ temp' = temp \ {f}
        /\ disk' = disk \cup {f}
        /\ temps' = [temps EXCEPT ![r] = @ \ {f}]
        /\ op' = [op EXCEPT ![r].field = f]
    /\ Goto(r, "insert")
    /\ UNCHANGED <<alive, home, lock, paths, inserted, fate>>

Rename(r) ==
    /\ pc[r] = "rename"
    /\ \E f \in temps[r] :
        /\ temp' = temp \ {f}
        /\ disk' = disk \cup {f}
        /\ temps' = [temps EXCEPT ![r] = @ \ {f}]
        /\ paths' = [paths EXCEPT ![r] = @ \cup {f}]
        /\ op' = [op EXCEPT ![r].field = f]
    /\ Goto(r, "insert")
    /\ UNCHANGED <<alive, home, lock, inserted, fate>>

(* INSERT INTO attachments: its foreign key needs the task, and shares the *)
(* task's row until the transaction ends.                                  *)
InsertRow(r) ==
    /\ pc[r] = "insert"
    /\ op[r].task \in alive
    /\ inserted' = [inserted EXCEPT ![r] = @ \cup {op[r].field}]
    /\ op' = [op EXCEPT ![r].field = None]
    /\ Goto(r, IF temps[r] = {} THEN "commit" ELSE "rename")
    /\ UNCHANGED <<alive, home, temp, disk, lock, temps, paths, fate>>

TaskGone(r) ==
    /\ pc[r] = "insert"
    /\ op[r].task \notin alive
    /\ Goto(r, "cleanup")
    /\ Rollback(r)
    /\ UNCHANGED <<alive, home, temp, disk, op, temps, paths, fate>>

(* Variant: the identifiers of the row are bound in the wrong order. *)
CommittedSwapped(r) == [f \in Files |-> IF f \in inserted[r] THEN f ELSE home[f]]

Committed(r) == [f \in Files |-> IF f \in inserted[r] THEN op[r].task ELSE home[f]]

Commit(r) ==
    /\ pc[r] = "commit"
    /\ home' = Committed(r)
    /\ Rollback(r)
    /\ Return(r)
    /\ UNCHANGED <<alive, temp, disk, fate>>

(* The connection fails while COMMIT is under way: the rows are committed, *)
(* and the upload takes it for an error.                                   *)
CommitUnanswered(r) ==
    /\ pc[r] = "commit"
    /\ home' = Committed(r)
    /\ fate' = [f \in Files |-> IF f \in inserted[r] THEN "unanswered" ELSE fate[f]]
    /\ Rollback(r)
    /\ Goto(r, "cleanup")
    /\ UNCHANGED <<alive, temp, disk, op, temps, paths>>

(* Any other error of a rename or a statement, an aborted deadlock included. *)
UploadFails(r) ==
    /\ pc[r] \in {"lock", "check", "rename", "insert", "commit"}
    /\ Goto(r, "cleanup")
    /\ Rollback(r)
    /\ UNCHANGED <<alive, home, temp, disk, op, temps, paths, fate>>

(* The error path: pending temporary files first, then written_paths. *)
CleanTemp(r) ==
    /\ pc[r] = "cleanup"
    /\ \E f \in temps[r] :
        /\ temp' = temp \ {f}
        /\ temps' = [temps EXCEPT ![r] = @ \ {f}]
    /\ UNCHANGED <<alive, home, disk, lock, pc, op, paths, inserted, fate>>

CleanWritten(r) ==
    /\ pc[r] = "cleanup"
    /\ temps[r] = {}
    /\ \E f \in paths[r] :
        /\ disk' = disk \ {f}
        /\ paths' = [paths EXCEPT ![r] = @ \ {f}]
    /\ UNCHANGED <<alive, home, temp, lock, pc, op, temps, inserted, fate>>

(* Also the end of a deletion, whose paths have been removed. *)
Cleaned(r) ==
    /\ pc[r] \in {"cleanup", "remove"}
    /\ temps[r] \cup paths[r] = {}
    /\ Return(r)
    /\ UNCHANGED <<alive, home, temp, disk, lock, inserted, fate>>

-----------------------------------------------------------------------------
(* delete_attachment and delete_task: the rows first, then the files *)

BeginDeleteAttachment(r, f) ==
    /\ pc[r] = "idle"
    /\ home[f] # None
    /\ op' = [op EXCEPT ![r] = [kind |-> "delete_attachment", file |-> f]]
    /\ paths' = [paths EXCEPT ![r] = {f}]
    /\ Goto(r, "delete_row")
    /\ UNCHANGED <<alive, home, temp, disk, lock, temps, inserted, fate>>

DeleteRow(r) ==
    /\ pc[r] = "delete_row"
    /\ home' = [home EXCEPT ![op[r].file] = None]
    /\ Goto(r, "remove")
    /\ UNCHANGED <<alive, temp, disk, lock, op, temps, paths, inserted, fate>>

BeginDeleteTask(r, t) ==
    /\ pc[r] = "idle"
    /\ t \in alive
    /\ op' = [op EXCEPT ![r] = [kind |-> "delete_task", task |-> t]]
    /\ Goto(r, "capture")
    /\ UNCHANGED <<alive, home, temp, disk, lock, temps, paths, inserted, fate>>

RowsOf(t) == {f \in Files : home[f] = t}

(* SELECT storage_path FROM attachments WHERE task_id = .. *)
CapturePaths(r) ==
    /\ pc[r] = "capture"
    /\ paths' = [paths EXCEPT ![r] = RowsOf(op[r].task)]
    /\ Goto(r, "delete")
    /\ UNCHANGED <<alive, home, temp, disk, lock, op, temps, inserted, fate>>

Missed(r) == (RowsOf(op[r].task) \ paths[r]) \cap disk

(* Variant: uploads under way are not waited for: a foreign key without a lock. *)
DeleteTaskAtOnce(r) ==
    LET t == op[r].task IN
    /\ pc[r] = "delete"
    /\ alive' = alive \ {t}
    /\ home' = [f \in Files |-> IF home[f] = t THEN None ELSE home[f]]
    /\ fate' = [f \in Files |-> IF f \in Missed(r) THEN "missed" ELSE fate[f]]
    /\ Goto(r, "remove")
    /\ UNCHANGED <<temp, disk, lock, op, temps, paths, inserted>>

(* DELETE FROM tasks, which waits for the uploads that share the task's row, *)
(* and cascades; COMMIT.  A task already gone is deleted again, in vain.     *)
DeleteTask(r) ==
    LET t == op[r].task IN
    /\ pc[r] = "delete"
    /\ \A q \in Requests : inserted[q] # {} => op[q].task # t
    /\ alive' = alive \ {t}
    /\ home' = [f \in Files |-> IF home[f] = t THEN None ELSE home[f]]
    /\ fate' = [f \in Files |-> IF f \in Missed(r) THEN "missed" ELSE fate[f]]
    /\ Goto(r, "remove")
    /\ UNCHANGED <<temp, disk, lock, op, temps, paths, inserted>>

(* Variant: the files are removed whether or not the transaction committed. *)
DeletionFailsRemoving(r) ==
    /\ pc[r] \in {"capture", "delete", "delete_row"}
    /\ Goto(r, "remove")
    /\ UNCHANGED <<alive, home, temp, disk, lock, op, temps, paths, inserted, fate>>

(* A statement fails: nothing is committed, and the files stay.  (A COMMIT  *)
(* that goes unanswered leaves what Drop leaves before the first removal.)   *)
DeletionFails(r) ==
    /\ pc[r] \in {"capture", "delete", "delete_row"}
    /\ Return(r)
    /\ UNCHANGED <<alive, home, temp, disk, lock, inserted, fate>>

RemoveFile(r) ==
    /\ pc[r] = "remove"
    /\ \E f \in paths[r] :
        /\ disk' = disk \ {f}
        /\ paths' = [paths EXCEPT ![r] = @ \ {f}]
    /\ UNCHANGED <<alive, home, temp, lock, pc, op, temps, inserted, fate>>

(* The error of remove_file is logged ("could not remove") or ignored. *)
RemoveFails(r) ==
    /\ pc[r] \in {"cleanup", "remove"}
    /\ \E f \in IF temps[r] # {} THEN temps[r] ELSE paths[r] :
        /\ temps' = [temps EXCEPT ![r] = @ \ {f}]
        /\ paths' = [paths EXCEPT ![r] = @ \ {f}]
        /\ fate' = [fate EXCEPT ![f] = IF f \in temp \cup disk THEN "left" ELSE @]
    /\ UNCHANGED <<alive, home, temp, disk, lock, pc, op, inserted>>

-----------------------------------------------------------------------------
(* The files only r would still have renamed, committed or removed. *)
OnlyKnownTo(r) ==
    IF pc[r] \in {"capture", "delete", "delete_row"} THEN {}
    ELSE {f \in (temps[r] \cap temp) \cup (paths[r] \cap disk) : home[f] = None}

Drop(r) ==
    /\ pc[r] # "idle"
    /\ fate' = [f \in Files |-> IF f \in OnlyKnownTo(r) THEN "left" ELSE fate[f]]
    /\ Rollback(r)
    /\ Return(r)
    /\ UNCHANGED <<alive, home, temp, disk>>

Begin(r) ==
    \/ \E t \in TaskIds : BeginUpload(r, t) \/ BeginDeleteTask(r, t)
    \/ \E f \in Files : BeginDeleteAttachment(r, f)

Upload(r) ==
    \/ \E f \in Files : CreateTemp(r, f)
    \/ FinishField(r) \/ RejectField(r) \/ NoFields(r) \/ EndOfBody(r)
    \/ LockWorkspace(r) \/ CheckQuota(r) \/ QuotaExceeded(r)
    \/ Rename(r) \/ InsertRow(r) \/ TaskGone(r)
    \/ Commit(r) \/ CommitUnanswered(r) \/ UploadFails(r)
    \/ CleanTemp(r) \/ CleanWritten(r) \/ Cleaned(r) \/ RemoveFails(r)

Delete(r) ==
    \/ DeleteRow(r) \/ CapturePaths(r) \/ DeleteTask(r) \/ DeletionFails(r)
    \/ RemoveFile(r)

Next == \E r \in Requests : Begin(r) \/ Upload(r) \/ Delete(r) \/ Drop(r)

Spec == Init /\ [][Next]_vars

-----------------------------------------------------------------------------
(* Properties *)

(* Every variable keeps its type (attachments table, upload directory, requests). *)
TypeOK ==
    /\ alive \in SUBSET TaskIds
    /\ home \in [Files -> TaskIds \cup {None}]
    /\ temp \in SUBSET Files
    /\ disk \in SUBSET Files
    /\ lock \in Requests \cup {None}
    /\ pc \in [Requests -> PCs]
    /\ op \in [Requests -> Ops \cup {NoOp}]
    /\ temps \in [Requests -> SUBSET Files]
    /\ paths \in [Requests -> SUBSET Files]
    /\ inserted \in [Requests -> SUBSET Files]
    /\ fate \in [Files -> Fates]

(* finalize_attachments: concurrent uploads never exceed the workspace's quota. *)
QuotaHolds == Bytes(Stored) <= Limit

(* A committed attachment can be downloaded: its file is on disk, whatever     *)
(* uploads failed and whatever is deleted at the same time, unless the answer  *)
(* to its COMMIT was lost.                                                     *)
RowsHaveFiles == \A f \in Stored : fate[f] # "unanswered" => f \in disk

(* A row is a task's: an upload never outlives the task it is for.              *)
RowsHaveTasks == \A f \in Stored : home[f] \in alive

(* attachments.rs:13: a failed upload leaves no file behind.  Every file is a  *)
(* committed attachment's, or a running request's to rename or remove, or was  *)
(* left by a dropped request or a failed remove_file, or missed by a deletion;  *)
(* no error path adds to these.                                                *)
FilesAccountedFor ==
    \A f \in temp \cup disk :
        \/ f \in disk \cap Stored
        \/ \E r \in Requests : f \in OnlyKnownTo(r)
        \/ fate[f] \in {"left", "missed"}

(* tasks.rs:304: the files of a deleted task are captured before the cascade   *)
(* deletes their rows, so that they do not leak storage for ever.              *)
DeletionsMissNoFile == \A f \in disk : fate[f] # "missed"

=============================================================================
