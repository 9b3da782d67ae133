--------------------------------- MODULE Tasks ---------------------------------
(***************************************************************************)
(* The tasks of one project: create_task, update_task, move_task and       *)
(* delete_task (tasks.rs), the follow-up of a recurring task               *)
(* (recurrence.rs) and the writers of subtasks (subtasks.rs), as           *)
(* PostgreSQL transactions at READ COMMITTED.                              *)
(*                                                                         *)
(* Locks: the advisory lock of key generation, the advisory lock of a      *)
(* task's subtask positions, the row lock of a task (writers), its KEY     *)
(* SHARE lock (taken by the foreign keys of an inserted subtask and of an  *)
(* inserted assignee; only a deletion conflicts with it), the row lock of  *)
(* a subtask and those of the assignees of a task.  Which of the assignees *)
(* two requests both write is left open: a statement that writes them may  *)
(* or may not meet a row that another request has written (Membership      *)
(* follows them row by row, with the removals of members).  A key is its   *)
(* number, a subtask its position, a status whether it is done; every      *)
(* project has an open status, as insert_default_statuses makes them and   *)
(* nothing removes one.                                                    *)
(***************************************************************************)
EXTENDS Integers, FiniteSets, FiniteSetsExt

CONSTANTS
    TaskIds,     \* ids of tasks: bounds the tasks there are at a time
    Requests,    \* slots for requests being served at the same time
    MaxKey,      \* bound on the numbers of keys
    MaxPosition, \* bound on subtask positions
    Drafts,      \* the sets of subtask positions tasks are created with
    MaxGrants,   \* bound on how often users set a recurrence
    Patches,     \* bound on what a PATCH names: <<status, recurrence, assignees>>
    Free         \* the holder of a lock nobody has

ASSUME TasksAssumption ==
    /\ IsFiniteSet(TaskIds)
    /\ MaxKey \in Nat
    /\ MaxPosition \in Nat
    /\ MaxGrants \in Nat
    /\ Drafts \subseteq SUBSET Nat
    /\ \A positions \in Drafts : IsFiniteSet(positions)
    /\ Free \notin Requests

VARIABLES
    task,    \* the committed row of each task id, or NoTask
    subs,    \* the positions of the committed subtasks of each task
    granted, \* how often a user has put a recurrence on a task
    keyLock, \* the holder of the project's key lock
    posLock, \* the holder of each task's subtask position lock
    writer,  \* the transaction that has locked each task's row to write it
    pc,      \* the statement each request runs next
    op,      \* what each request asks for
    wasDone, \* task_status_is_done, as read before the row was written
    row,     \* the row a request has written and not committed
    num,     \* the key number or position a request has read
    wrote,   \* what a request has done to the assignees of its task
    behind   \* the request whose rows of assignees a statement waits for

vars == <<task, subs, granted, keyLock, posLock, writer, pc, op, wasDone, row, num, wrote,
          behind>>
data == <<task, subs, granted>>
locks == <<keyLock, posLock, writer>>
assigning == <<wrote, behind>>
local == <<wasDone, row, num, wrote, behind>>

NoTask == [key |-> 0, done |-> FALSE, marked |-> FALSE]
Rows == [key : Nat, done : BOOLEAN, marked : BOOLEAN]

Ops == [kind : {"create"}, done : BOOLEAN, marked : BOOLEAN]
       \cup [kind : {"patch"}, task : TaskIds, status : {"keep", "open", "done"},
             marker : {"keep", "set", "clear"}, assignees : {"keep", "set", "only"}]
       \cup [kind : {"delete", "add_subtask"}, task : TaskIds]
       \cup [kind : {"edit_subtask", "delete_subtask"}, task : TaskIds, position : Nat]
NoOp == [kind |-> "none"]

Present(t) == task[t] # NoTask

(* The id of a task to be inserted: no row has it and no request names it. *)
Unused == {t \in TaskIds :
            /\ ~Present(t)
            /\ \A r \in Requests : op[r].kind \notin {"none", "create"} => op[r].task # t}

(* COALESCE(MAX(number), 100) + 1 over the committed keys. *)
NextKey == Max({100} \cup {task[t].key : t \in {u \in TaskIds : Present(u)}}) + 1

(* Variant: an off-by-one.  (Each "Variant" is a change of the definition after *)
(* it that a property of this module must reject.)                              *)
NextPositionOff(t) == Max({-1} \cup subs[t])

(* COALESCE(MAX(position), -1) + 1 over the committed subtasks. *)
NextPosition(t) == Max({-1} \cup subs[t]) + 1

(* fields_changed: a PATCH that names more than the assignees. *)
Fields(o) == o.assignees # "only"

(* A PATCH that gives the task new assignees. *)
Replaces(o) == o.kind = "patch" /\ o.assignees # "keep"

Goto(r, label) == pc' = [pc EXCEPT ![r] = label]

(* The transaction has deleted the row and not committed. *)
Deleting(r, t) == pc[r] = "cascade" /\ op[r].task = t

(* COMMIT or ROLLBACK. *)
End(r) ==
    /\ pc' = [pc EXCEPT ![r] = "idle"]
    /\ op' = [op EXCEPT ![r] = NoOp]
    /\ wasDone' = [wasDone EXCEPT ![r] = FALSE]
    /\ row' = [row EXCEPT ![r] = NoTask]
    /\ num' = [num EXCEPT ![r] = 0]
    /\ wrote' = [wrote EXCEPT ![r] = "nothing"]
    /\ behind' = [q \in Requests |-> IF q = r \/ behind[q] = r THEN Free ELSE behind[q]]
    /\ keyLock' = IF keyLock = r THEN Free ELSE keyLock
    /\ posLock' = [t \in TaskIds |-> IF posLock[t] = r THEN Free ELSE posLock[t]]
    /\ writer' = [t \in TaskIds |-> IF writer[t] = r THEN Free ELSE writer[t]]

Init ==
    /\ task = [t \in TaskIds |-> NoTask]
    /\ subs = [t \in TaskIds |-> {}]
    /\ granted = 0
    /\ keyLock = Free
    /\ posLock = [t \in TaskIds |-> Free]
    /\ writer = [t \in TaskIds |-> Free]
    /\ pc = [r \in Requests |-> "idle"]
    /\ op = [r \in Requests |-> NoOp]
    /\ wasDone = [r \in Requests |-> FALSE]
    /\ row = [r \in Requests |-> NoTask]
    /\ num = [r \in Requests |-> 0]
    /\ wrote = [r \in Requests |-> "nothing"]
    /\ behind = [r \in Requests |-> Free]

(* assert_task_edit finds the task before the transaction begins. *)
Begin(r, o, label) ==
    /\ pc[r] = "idle"
    /\ op' = [op EXCEPT ![r] = o]
    /\ Goto(r, label)
    /\ UNCHANGED <<data, locks, local>>

-----------------------------------------------------------------------------
(* create_task *)

(* Bound: how often users set a recurrence. *)
CanGrant == granted + Cardinality({r \in Requests :
                \/ op[r].kind = "create" /\ op[r].marked
                \/ op[r].kind = "patch" /\ op[r].marker = "set"}) < MaxGrants

BeginCreate(r, done, marked) ==
    /\ marked => CanGrant
    /\ Begin(r, [kind |-> "create", done |-> done, marked |-> marked], "key_lock")

(* Variant: the number is read without the advisory lock. *)
SkipKeyLock(r) ==
    /\ pc[r] = "key_lock"
    /\ Goto(r, "read_key")
    /\ UNCHANGED <<data, locks, op, local>>

(* next_task_key, of create_task and of a follow-up alike. *)
LockKeys(r) ==
    /\ pc[r] = "key_lock"
    /\ keyLock = Free
    /\ keyLock' = r
    /\ Goto(r, "read_key")
    /\ UNCHANGED <<data, posLock, writer, op, local>>

ReadKey(r) ==
    /\ pc[r] = "read_key"
    /\ NextKey <= MaxKey  \* bound
    /\ num' = [num EXCEPT ![r] = NextKey]
    /\ Goto(r, IF op[r].kind = "create" THEN "insert" ELSE "insert_follow_up")
    /\ UNCHANGED <<data, locks, op, wasDone, row, assigning>>

(* The assignees a new task is given are rows that no other request knows of. *)
InsertTask(r) ==
    /\ pc[r] = "insert"
    /\ \E t \in Unused, positions \in Drafts :
        /\ task' = [task EXCEPT ![t] = [key |-> num[r], done |-> op[r].done,
                                        marked |-> op[r].marked]]
        /\ subs' = [subs EXCEPT ![t] = positions]
    /\ granted' = IF op[r].marked THEN granted + 1 ELSE granted
    /\ End(r)

-----------------------------------------------------------------------------
(* update_task and move_task: a patch that keeps what it does not name; one    *)
(* that names no status and no recurrence names a title, or only the assignees *)

BeginPatch(r, t, status, marker, assignees) ==
    /\ Present(t)
    /\ <<status, marker, assignees>> \in Patches  \* bound
    /\ assignees = "only" => status = "keep" /\ marker = "keep"
    /\ marker = "set" => CanGrant
    /\ LET o == [kind |-> "patch", task |-> t, status |-> status, marker |-> marker,
                 assignees |-> assignees]
       IN Begin(r, o, IF status # "keep" THEN "read_done"
                      ELSE IF Fields(o) THEN "write" ELSE "replace")

(* The status check and task_status_is_done, which lock nothing. *)
ReadDone(r) ==
    /\ pc[r] = "read_done"
    /\ Present(op[r].task)
    /\ wasDone' = [wasDone EXCEPT ![r] = task[op[r].task].done]
    /\ Goto(r, "write")
    /\ UNCHANGED <<data, locks, op, row, num, assigning>>

Patched(t, o) ==
    [task[t] EXCEPT !.done = IF o.status = "keep" THEN @ ELSE o.status = "done",
                    !.marked = IF o.marker = "keep" THEN @ ELSE o.marker = "set"]

(* UPDATE tasks ..: waits for the row's writer, then works on its newest version. *)
WriteRow(r) ==
    LET t == op[r].task IN
    /\ pc[r] = "write"
    /\ Present(t)
    /\ writer[t] = Free
    /\ writer' = [writer EXCEPT ![t] = r]
    /\ row' = [row EXCEPT ![r] = Patched(t, op[r])]
    /\ Goto(r, IF Replaces(op[r]) THEN "replace" ELSE "written")
    /\ UNCHANGED <<data, keyLock, posLock, op, wasDone, num, assigning>>

(* replace_assignees: the statement comes upon a row that another request has *)
(* deleted or inserted, and keeps what it has written before it.              *)
AssigneesBlock(r) ==
    /\ pc[r] \in {"replace", "replaced"}
    /\ behind[r] = Free
    /\ \E q \in Requests \ {r} :
        /\ op[q].kind = "patch" /\ op[q].task = op[r].task
        /\ wrote[q] # "nothing"
        /\ behind' = [behind EXCEPT ![r] = q]
    /\ \/ UNCHANGED wrote
       \/ wrote' = [wrote EXCEPT ![r] = IF pc[r] = "replace" THEN "cleared" ELSE "set"]
    /\ UNCHANGED <<data, locks, pc, op, wasDone, row, num>>

(* DELETE FROM task_assignees, of which a waiting one goes on when it may. *)
ClearAssignees(r) ==
    /\ pc[r] = "replace"
    /\ behind[r] = Free
    /\ wrote' = [wrote EXCEPT ![r] = "cleared"]
    /\ Goto(r, "replaced")
    /\ UNCHANGED <<data, locks, op, wasDone, row, num, behind>>

(* Unless the PATCH names nobody, INSERT INTO task_assignees: its foreign key *)
(* shares the task's row.  A row that UPDATE has locked needs no touch_task.  *)
InsertAssignees(r) ==
    /\ pc[r] = "replaced"
    /\ behind[r] = Free
    /\ \/ UNCHANGED wrote
       \/ /\ Present(op[r].task)
          /\ \A q \in Requests : ~Deleting(q, op[r].task)
          /\ wrote' = [wrote EXCEPT ![r] = "set"]
    /\ Goto(r, IF Fields(op[r]) THEN "written" ELSE "touch")
    /\ UNCHANGED <<data, locks, op, wasDone, row, num, behind>>

(* An assignee is no active member, or the row to be inserted is there, or the *)
(* task is gone.                                                               *)
RefuseAssignees(r) ==
    /\ pc[r] \in {"replace", "replaced"}
    /\ behind[r] = Free
    /\ End(r)
    /\ UNCHANGED data

(* spawn_recurrence_if_completed: the row just written, was it done before? *)
Completed(r) ==
    /\ op[r].status # "keep"
    /\ ~wasDone[r]
    /\ row[r].marked
    /\ row[r].done

GrantOf(r) == IF op[r].marker = "set" THEN granted + 1 ELSE granted

CommitPatch(r) ==
    /\ pc[r] = "written"
    /\ ~Completed(r)
    /\ task' = [task EXCEPT ![op[r].task] = row[r]]
    /\ granted' = GrantOf(r)
    /\ End(r)
    /\ UNCHANGED subs

(* Variant: the follow-up first locks the positions of the subtasks it copies. *)
FollowUpLocksPositions(r) ==
    /\ pc[r] = "written"
    /\ Completed(r)
    /\ Goto(r, "position_lock")
    /\ UNCHANGED <<data, locks, op, local>>

FollowUp(r) ==
    /\ pc[r] = "written"
    /\ Completed(r)
    /\ Goto(r, "key_lock")
    /\ UNCHANGED <<data, locks, op, local>>

(* Variant: the completed task keeps its marker. *)
InsertCopy(r) ==
    LET t == op[r].task IN
    /\ pc[r] = "insert_follow_up"
    /\ \E n \in Unused :
        /\ task' = [task EXCEPT ![n] = [key |-> num[r], done |-> FALSE, marked |-> row[r].marked],
                                ![t] = row[r]]
        /\ subs' = [subs EXCEPT ![n] = subs[t]]
    /\ granted' = GrantOf(r)
    /\ End(r)

(* The follow-up takes the marker and a copy of the subtasks; COMMIT. *)
InsertFollowUp(r) ==
    LET t == op[r].task IN
    /\ pc[r] = "insert_follow_up"
    /\ \E n \in Unused :
        /\ task' = [task EXCEPT ![n] = [key |-> num[r], done |-> FALSE, marked |-> row[r].marked],
                                ![t] = [row[r] EXCEPT !.marked = FALSE]]
        /\ subs' = [subs EXCEPT ![n] = subs[t]]
    /\ granted' = GrantOf(r)
    /\ End(r)

(* The task is gone: fetch_one or fetch_task finds nothing. *)
PatchMissing(r) ==
    /\ pc[r] \in {"read_done", "write"}
    /\ ~Present(op[r].task)
    /\ End(r)
    /\ UNCHANGED data

-----------------------------------------------------------------------------
(* create_subtask, update_subtask, delete_subtask *)

BeginAddSubtask(r, t) ==
    /\ Present(t)
    /\ Begin(r, [kind |-> "add_subtask", task |-> t], "position_lock")

(* update_subtask finds the row before its transaction begins, delete_subtask *)
(* asks for one a response has named.                                         *)
BeginWriteSubtask(r, kind, t, p) ==
    /\ p \in subs[t]
    /\ Begin(r, [kind |-> kind, task |-> t, position |-> p], "write_subtask")

Writes(r, t, p) ==
    /\ op[r].kind \in {"edit_subtask", "delete_subtask"}
    /\ op[r].task = t
    /\ op[r].position = p

(* Variant: the position is read without the advisory lock. *)
SkipPositionLock(r) ==
    /\ pc[r] = "position_lock"
    /\ Goto(r, "read_position")
    /\ UNCHANGED <<data, locks, op, local>>

LockPositions(r) ==
    /\ pc[r] = "position_lock"
    /\ posLock[op[r].task] = Free
    /\ posLock' = [posLock EXCEPT ![op[r].task] = r]
    /\ Goto(r, "read_position")
    /\ UNCHANGED <<data, keyLock, writer, op, local>>

ReadPosition(r) ==
    /\ pc[r] = "read_position"
    /\ LET p == NextPosition(op[r].task) IN
        /\ p <= MaxPosition  \* bound
        /\ \A q \in Requests : ~Writes(q, op[r].task, p)  \* bound: positions stand for ids
        /\ num' = [num EXCEPT ![r] = p]
    /\ Goto(r, "insert_subtask")
    /\ UNCHANGED <<data, locks, op, wasDone, row, assigning>>

(* Variant: no foreign key makes the insertion wait for a deletion. *)
InsertUnchecked(r) ==
    /\ pc[r] = "insert_subtask"
    /\ Present(op[r].task)
    /\ Goto(r, "touch")
    /\ UNCHANGED <<data, locks, op, local>>

(* INSERT INTO subtasks: its foreign key needs the task, which a deletion     *)
(* under way makes it wait for, and shares the task's row until COMMIT.       *)
InsertSubtask(r) ==
    /\ pc[r] = "insert_subtask"
    /\ Present(op[r].task)
    /\ \A q \in Requests : ~Deleting(q, op[r].task)
    /\ Goto(r, "touch")
    /\ UNCHANGED <<data, locks, op, local>>

SubtaskOrphan(r) ==
    /\ pc[r] = "insert_subtask"
    /\ ~Present(op[r].task)
    /\ End(r)
    /\ UNCHANGED data

(* The subtask row a request has locked; an edit may have found it gone. *)
HoldsSubtask(r, t, p) == Writes(r, t, p) /\ pc[r] = "touch" /\ p \in subs[t]

WriteSubtask(r) ==
    LET t == op[r].task IN
    /\ pc[r] = "write_subtask"
    /\ op[r].position \in subs[t]
    /\ \A q \in Requests : ~HoldsSubtask(q, t, op[r].position)
    /\ Goto(r, "touch")
    /\ UNCHANGED <<data, locks, op, local>>

(* The row is gone: update_subtask goes on, delete_subtask does not. *)
SubtaskMissing(r) ==
    /\ pc[r] = "write_subtask"
    /\ op[r].position \notin subs[op[r].task]
    /\ \/ op[r].kind = "edit_subtask" /\ Goto(r, "touch") /\ UNCHANGED <<locks, op, local>>
       \/ op[r].kind = "delete_subtask" /\ End(r)
    /\ UNCHANGED data

(* touch_task: UPDATE tasks SET updated_at; COMMIT. *)
TouchTask(r) ==
    LET t == op[r].task IN
    /\ pc[r] = "touch"
    /\ writer[t] = Free
    /\ \/ op[r].kind = "add_subtask" /\ subs' = [subs EXCEPT ![t] = @ \cup {num[r]}]
       \/ op[r].kind \in {"edit_subtask", "patch"} /\ UNCHANGED subs
       \/ op[r].kind = "delete_subtask" /\ subs' = [subs EXCEPT ![t] = @ \ {op[r].position}]
    /\ End(r)
    /\ UNCHANGED <<task, granted>>

-----------------------------------------------------------------------------
(* delete_task *)

BeginDelete(r, t) ==
    /\ Present(t)
    /\ Begin(r, [kind |-> "delete", task |-> t], "delete")

(* Requests whose inserted subtask or assignees share the row of t. *)
Sharers(t) ==
    {q \in Requests : /\ op[q].kind \in {"add_subtask", "patch"}
                      /\ op[q].task = t
                      /\ op[q].kind = "add_subtask" => pc[q] = "touch"
                      /\ op[q].kind = "patch" => wrote[q] = "set"}

DeleteRow(r) ==
    LET t == op[r].task IN
    /\ pc[r] = "delete"
    /\ Present(t)
    /\ writer[t] = Free
    /\ Sharers(t) = {}
    /\ writer' = [writer EXCEPT ![t] = r]
    /\ Goto(r, "cascade")
    /\ UNCHANGED <<data, keyLock, posLock, op, local>>

(* The cascade comes upon an assignee that a PATCH has deleted. *)
CascadeBlocks(r) ==
    /\ pc[r] = "cascade"
    /\ behind[r] = Free
    /\ \E q \in Requests :
        /\ op[q].kind = "patch" /\ op[q].task = op[r].task
        /\ wrote[q] # "nothing"
        /\ behind' = [behind EXCEPT ![r] = q]
    /\ UNCHANGED <<data, locks, pc, op, wasDone, row, num, wrote>>

(* ON DELETE CASCADE waits for the writers of subtasks and assignees; COMMIT. *)
Cascade(r) ==
    LET t == op[r].task IN
    /\ pc[r] = "cascade"
    /\ behind[r] = Free
    /\ \A q \in Requests, p \in subs[t] : ~HoldsSubtask(q, t, p)
    /\ task' = [task EXCEPT ![t] = NoTask]
    /\ subs' = [subs EXCEPT ![t] = {}]
    /\ End(r)
    /\ UNCHANGED granted

DeleteMissing(r) ==
    /\ pc[r] = "delete"
    /\ ~Present(op[r].task)
    /\ End(r)
    /\ UNCHANGED data

-----------------------------------------------------------------------------
(* Locks that wait for each other, and requests that are dropped *)

WaitsFor(r, q) ==
    LET t == op[r].task IN
    \/ pc[r] = "key_lock" /\ keyLock = q
    \/ pc[r] = "position_lock" /\ posLock[t] = q
    \/ pc[r] \in {"write", "touch", "delete"} /\ writer[t] = q
    \/ pc[r] = "delete" /\ q \in Sharers(t)
    \/ pc[r] \in {"insert_subtask", "replaced"} /\ behind[r] = Free /\ Deleting(q, t)
    \/ behind[r] = q
    \/ pc[r] = "write_subtask" /\ HoldsSubtask(q, t, op[r].position)
    \/ pc[r] = "cascade" /\ \E p \in subs[t] : HoldsSubtask(q, t, p)

(* The requests in C wait for one another. *)
Cycle(C) == \A p \in C : \E q \in C : WaitsFor(p, q)

InDeadlock(r) == \E C \in SUBSET Requests : r \in C /\ Cycle(C)

DeadlockAbort(r) ==
    /\ InDeadlock(r)
    /\ End(r)
    /\ UNCHANGED data

Abandon(r) ==
    /\ pc[r] # "idle"
    /\ End(r)
    /\ UNCHANGED data

BeginAny(r) ==
    \/ \E done, marked \in BOOLEAN : BeginCreate(r, done, marked)
    \/ \E t \in TaskIds :
        \/ \E status \in {"keep", "open", "done"}, marker \in {"keep", "set", "clear"},
              assignees \in {"keep", "set", "only"} : BeginPatch(r, t, status, marker, assignees)
        \/ BeginAddSubtask(r, t)
        \/ \E kind \in {"edit_subtask", "delete_subtask"}, p \in 0 .. MaxPosition :
            BeginWriteSubtask(r, kind, t, p)
        \/ BeginDelete(r, t)

Serve(r) ==
    \/ LockKeys(r) \/ ReadKey(r) \/ InsertTask(r)
    \/ ReadDone(r) \/ WriteRow(r) \/ CommitPatch(r) \/ FollowUp(r) \/ InsertFollowUp(r)
    \/ AssigneesBlock(r) \/ ClearAssignees(r) \/ InsertAssignees(r) \/ RefuseAssignees(r)
    \/ PatchMissing(r)
    \/ LockPositions(r) \/ ReadPosition(r) \/ InsertSubtask(r) \/ SubtaskOrphan(r)
    \/ WriteSubtask(r) \/ SubtaskMissing(r) \/ TouchTask(r)
    \/ DeleteRow(r) \/ CascadeBlocks(r) \/ Cascade(r) \/ DeleteMissing(r)

Next == \E r \in Requests : BeginAny(r) \/ Serve(r) \/ Abandon(r) \/ DeadlockAbort(r)

Spec == Init /\ [][Next]_vars

-----------------------------------------------------------------------------
(* Properties *)

PCs == {"idle", "key_lock", "read_key", "insert", "insert_follow_up", "read_done", "write",
        "written", "position_lock", "read_position", "insert_subtask", "write_subtask",
        "touch", "delete", "cascade", "replace", "replaced"}

(* Every variable keeps its type (tasks and subtasks tables, locks, requests). *)
TypeOK ==
    /\ task \in [TaskIds -> Rows]
    /\ subs \in [TaskIds -> SUBSET Nat]
    /\ granted \in Nat
    /\ keyLock \in Requests \cup {Free}
    /\ posLock \in [TaskIds -> Requests \cup {Free}]
    /\ writer \in [TaskIds -> Requests \cup {Free}]
    /\ pc \in [Requests -> PCs]
    /\ op \in [Requests -> Ops \cup {NoOp}]
    /\ wasDone \in [Requests -> BOOLEAN]
    /\ row \in [Requests -> Rows]
    /\ num \in [Requests -> Nat]
    /\ wrote \in [Requests -> {"nothing", "cleared", "set"}]
    /\ behind \in [Requests -> Requests \cup {Free}]

Inserting(r) == pc[r] \in {"insert", "insert_follow_up"}

(* tasks.rs:335, recurrence.rs:64: concurrent creates and follow-ups never    *)
(* insert a key the project has, so UNIQUE (project_id, key) never fires.      *)
KeysNeverCollide ==
    /\ \A t, u \in TaskIds : Present(t) /\ Present(u) /\ t # u => task[t].key # task[u].key
    /\ \A r \in Requests : Inserting(r) =>
        \A t \in TaskIds : Present(t) => task[t].key < num[r]

(* subtasks.rs:14: concurrent creates never take a position twice, so         *)
(* UNIQUE (task_id, position) never fires.                                     *)
PositionsNeverCollide ==
    \A r \in Requests :
        op[r].kind = "add_subtask" /\ pc[r] \in {"insert_subtask", "touch"}
            => num[r] \notin subs[op[r].task]

(* Follow-ups carry the recurrence on, they never multiply it: there are no    *)
(* more recurring tasks than users have asked for, whatever completes twice.   *)
MarkersNeverMultiply ==
    Cardinality({t \in TaskIds : task[t].marked}) <= granted

(* A subtask or the marker of a deleted task is never left behind.             *)
NothingWithoutTask == \A t \in TaskIds : ~Present(t) => subs[t] = {}

(* Creates, moves, completions and new subtasks take their locks in one order. *)
(* Two that do not: a deletion, whose cascade comes after the task's row, and  *)
(* replace_assignees, which touches the task after its assignees              *)
(* (access.rs:251-262) though update_task may have locked it before           *)
(* (tasks.rs:183-219).  So a deadlock has a deletion in it, or two PATCHes     *)
(* that replace the assignees of one task.                                     *)
DeadlocksNeedRewrite ==
    \A C \in SUBSET Requests :
        C # {} /\ Cycle(C) =>
            \/ \E r \in C : op[r].kind = "delete"
            \/ \E r, q \in C : /\ r # q /\ Replaces(op[r]) /\ Replaces(op[q])
                              /\ op[r].task = op[q].task

(* recurrence.rs:21: a recurring task that turns from open to done is followed *)
(* up: it hands the recurrence on in the step that commits the change.         *)
CompletionHandsOn ==
    [][\A t \in TaskIds :
        /\ Present(t) /\ ~task[t].done
        /\ Present(t)' /\ task'[t].done
        => ~task'[t].marked]_vars

=============================================================================
