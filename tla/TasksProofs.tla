------------------------------ MODULE TasksProofs ------------------------------
(***************************************************************************)
(* Proofs about Tasks, for any tasks and requests: keys and positions never *)
(* collide, no subtask is left without its task, follow-ups multiply no     *)
(* recurrence, and a deadlock has a deletion or two replacements of the     *)
(* assignees of one task in it.  Then about Schedule, for any dates:        *)
(* follow-ups are as long as what they follow, the calendar of the client   *)
(* is that of the server, and charts show what they should.                 *)
(***************************************************************************)
EXTENDS Schedule, FoldTheorems

(* Requests that have locked their task's row to write it. *)
Holds(r) ==
    \/ pc[r] \in {"written", "insert_follow_up", "cascade"}
    \/ op[r].kind = "patch" /\ pc[r] \in {"key_lock", "read_key"}
    \/ pc[r] \in {"replace", "replaced"} /\ Fields(op[r])

(* Which kinds of request get to a statement. *)
KindOf(p, o) ==
    /\ p = "idle" => o = NoOp
    /\ p \in {"key_lock", "read_key"} => o.kind \in {"create", "patch"}
    /\ p = "insert" => o.kind = "create"
    /\ p \in {"read_done", "write", "written", "insert_follow_up"} => o.kind = "patch"
    /\ p \in {"read_done", "write"} => Fields(o)
    /\ p \in {"replace", "replaced"} => Replaces(o)
    /\ p \in {"position_lock", "read_position", "insert_subtask"} => o.kind = "add_subtask"
    /\ p = "write_subtask" => o.kind \in {"edit_subtask", "delete_subtask"}
    /\ p = "touch" => o.kind \in {"add_subtask", "edit_subtask", "delete_subtask", "patch"}
    /\ p \in {"delete", "cascade"} => o.kind = "delete"

Kinds == \A r \in Requests : KindOf(pc[r], op[r])

(* Locks are held from the statement that takes them to the end. *)
LocksHeld == \A r \in Requests :
    /\ pc[r] \in {"read_key", "insert", "insert_follow_up"} => keyLock = r
    /\ op[r].kind = "add_subtask" /\ pc[r] \in {"read_position", "insert_subtask", "touch"}
         => posLock[op[r].task] = r
    /\ Holds(r) => writer[op[r].task] = r

(* A lock is only held by a request that is between those statements. *)
LocksOwned == \A r \in Requests :
    /\ keyLock = r => pc[r] \in {"read_key", "insert", "insert_follow_up"}
    /\ \A t \in TaskIds :
        /\ posLock[t] = r => /\ op[r].kind = "add_subtask" /\ op[r].task = t
                             /\ pc[r] \in {"read_position", "insert_subtask", "touch"}
        /\ writer[t] = r => Holds(r) /\ op[r].task = t

(* A row that is held is still there, and still what the patch was made from. *)
RowsKept == \A r \in Requests :
    Holds(r) => /\ Present(op[r].task)
                /\ op[r].kind = "patch" => row[r] = Patched(op[r].task, op[r])

(* The foreign key of an inserted subtask keeps its task. *)
Shared == \A r \in Requests :
    op[r].kind = "add_subtask" /\ pc[r] = "touch" =>
        Present(op[r].task) /\ \A q \in Requests : ~Deleting(q, op[r].task)

(* A request is only behind one that replaces the assignees of its task, and it *)
(* replaces them too or deletes the task.                                        *)
Behind == \A r \in Requests :
    /\ wrote[r] # "nothing" => Replaces(op[r])
    /\ behind[r] # Free =>
         /\ pc[r] \in {"replace", "replaced", "cascade"}
         /\ behind[r] # r
         /\ Replaces(op[behind[r]])
         /\ op[behind[r]].task = op[r].task

(* Keys start at 101; a task has finitely many subtasks. *)
KeysAndSubs ==
    /\ \A t \in TaskIds : (Present(t) => task[t].key > 100) /\ IsFiniteSet(subs[t])
    /\ \A r \in Requests : Inserting(r) => num[r] > 100

Inv == /\ TypeOK /\ Kinds /\ LocksHeld /\ LocksOwned /\ RowsKept /\ Shared /\ Behind /\ KeysAndSubs
       /\ KeysNeverCollide /\ PositionsNeverCollide /\ NothingWithoutTask /\ MarkersNeverMultiply

-----------------------------------------------------------------------------
(* A finite set has an element where f is largest: the one with fewest above. *)
LEMMA SomeLargest ==
    ASSUME NEW S, IsFiniteSet(S), S # {}, NEW f \in [S -> Int]
    PROVE  \E x \in S : \A y \in S : f[y] <= f[x]
<1> DEFINE Above(x) == {y \in S : f[y] > f[x]}
           T == {Above(x) : x \in S}
<1>1. IsWellFoundedOn(StrictSubsetOrdering(S), SUBSET S)
  <2>1. FiniteSubsetsOf(S) = SUBSET S
    BY FS_FiniteSubsetsOfFinite
  <2>2. IsWellFoundedOn(StrictSubsetOrdering(S), FiniteSubsetsOf(S))
    BY FS_StrictSubsetOrderingWellFounded
  <2> QED BY <2>1, <2>2
<1>2. T \subseteq SUBSET S /\ T # {}
  <2>1. \A x \in S : Above(x) \in SUBSET S
    OBVIOUS
  <2>2. \A x \in S : Above(x) \in T
    OBVIOUS
  <2> HIDE DEF Above
  <2> QED BY <2>1, <2>2
<1>3. PICK A \in T : \A B \in T : ~(<<B, A>> \in StrictSubsetOrdering(S))
  <2> HIDE DEF T
  <2> QED BY <1>1, <1>2, WFMin
<1>4. PICK x \in S : A = Above(x)
  OBVIOUS
<1>5. \A y \in S : f[y] <= f[x]
  <2> SUFFICES ASSUME NEW y \in S, f[y] > f[x] PROVE FALSE
    OBVIOUS
  <2>1. Above(y) \subseteq Above(x) /\ y \in Above(x) /\ y \notin Above(y)
    OBVIOUS
  <2>2. Above(y) \in T /\ Above(y) # Above(x)
    BY <2>1
  <2>3. <<Above(y), Above(x)>> \in StrictSubsetOrdering(S)
    BY <2>1, <2>2 DEF StrictSubsetOrdering
  <2> QED BY <1>3, <1>4, <2>2, <2>3
<1> QED BY <1>5

(* The largest number is the one Max chooses. *)
LEMMA MaxOfSet ==
    ASSUME NEW S, S \subseteq Int, NEW m \in S, \A y \in S : y <= m
    PROVE  Max(S) = m
<1>1. m \in S /\ \A y \in S : m >= y
  OBVIOUS
<1>2. \A x \in S : (\A y \in S : x >= y) => x = m
  BY <1>1
<1> QED BY <1>1, <1>2 DEF Max

(* next_task_key computes a number above every key. *)
LEMMA NextKeyIsLarger ==
    ASSUME TypeOK
    PROVE  /\ NextKey \in Nat /\ NextKey > 100
           /\ \A t \in TaskIds : Present(t) => task[t].key < NextKey
<1> DEFINE P == {u \in TaskIds : Present(u)}
           K == {100} \cup {task[t].key : t \in P}
<1>1. IsFiniteSet(P) /\ \A t \in P : task[t].key \in Nat
  <2>1. IsFiniteSet(TaskIds) /\ P \in SUBSET TaskIds
    BY TasksAssumption
  <2> QED BY <2>1, FS_Subset DEF TypeOK, Rows
<1>2. NextKey = Max(K) + 1
  BY DEF NextKey
<1>3. \E m \in K : \A k \in K : k <= m
  <2>1. CASE P = {}
    BY <2>1
  <2>2. CASE P # {}
    <3> DEFINE f == [t \in P |-> task[t].key]
    <3>1. f \in [P -> Int]
      BY <1>1
    <3>2. PICK x \in P : \A y \in P : f[y] <= f[x]
      <4> HIDE DEF f, P
      <4> QED BY <1>1, <2>2, <3>1, SomeLargest
    <3>3. \A y \in P : task[y].key <= task[x].key
      BY <3>2
    <3> QED BY <1>1, <3>3
  <2> QED BY <2>1, <2>2
<1>4. PICK m \in K : \A k \in K : k <= m
  BY <1>3
<1>5. K \subseteq Int /\ 100 \in K /\ m \in Int
  BY <1>1
<1>6. Max(K) = m
  <2> HIDE DEF K
  <2> QED BY <1>4, <1>5, MaxOfSet
<1>7. m \in Nat /\ m >= 100 /\ \A t \in P : task[t].key <= m
  BY <1>1, <1>4, <1>5
<1> QED BY <1>1, <1>2, <1>6, <1>7

(* NextPosition is above every position. *)
LEMMA NextPositionIsLarger ==
    ASSUME TypeOK, NEW t \in TaskIds, IsFiniteSet(subs[t])
    PROVE  NextPosition(t) \in Nat /\ NextPosition(t) \notin subs[t]
<1> DEFINE K == {-1} \cup subs[t]
<1>1. K \subseteq Int /\ \A k \in subs[t] : k \in Nat
  BY DEF TypeOK
<1>2. \E m \in K : \A k \in K : k <= m
  <2>1. CASE subs[t] = {}
    BY <2>1
  <2>2. CASE subs[t] # {}
    <3> DEFINE f == [k \in subs[t] |-> k]
    <3>1. f \in [subs[t] -> Int]
      BY <1>1
    <3>2. PICK x \in subs[t] : \A y \in subs[t] : f[y] <= f[x]
      <4> HIDE DEF f
      <4> QED BY <2>2, <3>1, SomeLargest
    <3>3. \A y \in subs[t] : y <= x
      BY <3>2
    <3> QED BY <1>1, <3>3
  <2> QED BY <2>1, <2>2
<1>3. PICK m \in K : \A k \in K : k <= m
  BY <1>2
<1>4. Max(K) = m
  <2> HIDE DEF K
  <2> QED BY <1>1, <1>3, MaxOfSet
<1>5. m \in Int /\ m >= -1
  BY <1>1, <1>3
<1> QED BY <1>1, <1>3, <1>4, <1>5 DEF NextPosition

-----------------------------------------------------------------------------
(* What a request asks for. *)
LEMMA OpFields ==
    ASSUME TypeOK, NEW r \in Requests
    PROVE  /\ op[r] # NoOp => op[r].kind # "none"
           /\ op[r].kind \in {"none", "create", "patch", "delete", "add_subtask",
                              "edit_subtask", "delete_subtask"}
           /\ op[r].kind \notin {"none", "create"} => op[r].task \in TaskIds
           /\ op[r].kind = "create" => op[r].done \in BOOLEAN /\ op[r].marked \in BOOLEAN
           /\ op[r].kind = "patch" => /\ op[r].status \in {"keep", "open", "done"}
                                      /\ op[r].marker \in {"keep", "set", "clear"}
                                      /\ op[r].assignees \in {"keep", "set", "only"}
<1>1. op[r] \in Ops \cup {NoOp}
  BY DEF TypeOK
<1>2. CASE op[r] = NoOp
  BY <1>2 DEF NoOp
<1>3. CASE op[r] \in [kind : {"create"}, done : BOOLEAN, marked : BOOLEAN]
  BY <1>3
<1>4. CASE op[r] \in [kind : {"patch"}, task : TaskIds, status : {"keep", "open", "done"},
                      marker : {"keep", "set", "clear"}, assignees : {"keep", "set", "only"}]
  BY <1>4
<1>5. CASE op[r] \in [kind : {"delete", "add_subtask"}, task : TaskIds]
  BY <1>5
<1>6. CASE op[r] \in [kind : {"edit_subtask", "delete_subtask"}, task : TaskIds, position : Nat]
  BY <1>6
<1> QED BY <1>1, <1>2, <1>3, <1>4, <1>5, <1>6 DEF Ops

(* A patched row keeps its key. *)
LEMMA PatchedRow ==
    ASSUME TypeOK, NEW r \in Requests, op[r].kind = "patch"
    PROVE  /\ Patched(op[r].task, op[r]) \in Rows
           /\ Patched(op[r].task, op[r]).key = task[op[r].task].key
           /\ Patched(op[r].task, op[r]).marked =
                IF op[r].marker = "keep" THEN task[op[r].task].marked ELSE op[r].marker = "set"
<1>1. task[op[r].task] \in [key : Nat, done : BOOLEAN, marked : BOOLEAN]
  BY OpFields DEF TypeOK, Rows
<1> QED BY <1>1, OpFields DEF Patched, Rows

(* A transaction that ends without effect, and one that has locked a subtask. *)
Fails(r) == End(r) /\ UNCHANGED data
GoesOn(r) ==
    /\ pc[r] = "write_subtask"
    /\ Goto(r, "touch")
    /\ UNCHANGED <<data, locks, op, local>>

Step(r) ==
    \/ BeginAny(r) \/ Fails(r) \/ GoesOn(r)
    \/ LockKeys(r) \/ ReadKey(r) \/ InsertTask(r)
    \/ ReadDone(r) \/ WriteRow(r) \/ CommitPatch(r) \/ FollowUp(r) \/ InsertFollowUp(r)
    \/ AssigneesBlock(r) \/ ClearAssignees(r) \/ InsertAssignees(r) \/ CascadeBlocks(r)
    \/ LockPositions(r) \/ ReadPosition(r) \/ InsertSubtask(r) \/ TouchTask(r)
    \/ DeleteRow(r) \/ Cascade(r)

(* An operation a request may begin with is at its first statement. *)
LEMMA Begins ==
    ASSUME NEW r \in Requests, BeginAny(r)
    PROVE  \E o \in Ops, label \in {"key_lock", "read_done", "write", "position_lock",
                                    "write_subtask", "delete", "replace"} :
             /\ Begin(r, o, label)
             /\ KindOf(label, o) /\ ~(o.kind = "patch" /\ label = "key_lock")
             /\ label = "replace" => ~Fields(o)
<1>1. CASE \E done, marked \in BOOLEAN : BeginCreate(r, done, marked)
  <2>1. PICK done \in BOOLEAN, marked \in BOOLEAN : BeginCreate(r, done, marked)
    BY <1>1
  <2> DEFINE o == [kind |-> "create", done |-> done, marked |-> marked]
  <2>2. o \in Ops /\ Begin(r, o, "key_lock")
    BY <2>1 DEF BeginCreate, Ops
  <2>3. KindOf("key_lock", o) /\ o.kind = "create"
    BY DEF KindOf
  <2> QED BY <2>2, <2>3
<1>2. ASSUME NEW t \in TaskIds, NEW status \in {"keep", "open", "done"},
             NEW marker \in {"keep", "set", "clear"}, NEW assignees \in {"keep", "set", "only"},
             BeginPatch(r, t, status, marker, assignees)
      PROVE  \E o \in Ops, label \in {"read_done", "write", "replace"} :
               /\ Begin(r, o, label) /\ o.kind = "patch"
               /\ label = "replace" <=> ~Fields(o)
  <2> DEFINE o == [kind |-> "patch", task |-> t, status |-> status, marker |-> marker,
                   assignees |-> assignees]
  <2>1. o \in Ops /\ o.kind = "patch"
    BY DEF Ops
  <2>2. Begin(r, o, IF status # "keep" THEN "read_done"
                    ELSE IF Fields(o) THEN "write" ELSE "replace")
    BY <1>2 DEF BeginPatch
  <2>3. status # "keep" => Fields(o)
    BY <1>2 DEF BeginPatch, Fields
  <2> QED BY <2>1, <2>2, <2>3
<1>3. ASSUME NEW t \in TaskIds, BeginAddSubtask(r, t)
      PROVE  \E o \in Ops : Begin(r, o, "position_lock") /\ o.kind = "add_subtask"
  <2>1. [kind |-> "add_subtask", task |-> t] \in Ops
    BY DEF Ops
  <2> QED BY <1>3, <2>1 DEF BeginAddSubtask
<1>4. ASSUME NEW t \in TaskIds, NEW kind \in {"edit_subtask", "delete_subtask"},
             NEW p \in 0..MaxPosition, BeginWriteSubtask(r, kind, t, p)
      PROVE  \E o \in Ops : Begin(r, o, "write_subtask") /\ o.kind = kind
  <2>1. [kind |-> kind, task |-> t, position |-> p] \in Ops
    BY TasksAssumption DEF Ops
  <2> QED BY <1>4, <2>1 DEF BeginWriteSubtask
<1>5. ASSUME NEW t \in TaskIds, BeginDelete(r, t)
      PROVE  \E o \in Ops : Begin(r, o, "delete") /\ o.kind = "delete"
  <2>1. [kind |-> "delete", task |-> t] \in Ops
    BY DEF Ops
  <2> QED BY <1>5, <2>1 DEF BeginDelete
<1> QED BY <1>1, <1>2, <1>3, <1>4, <1>5 DEF BeginAny, KindOf, Replaces, Fields

(* A step is one of a request, or changes nothing. *)
LEMMA Steps == TypeOK /\ [Next]_vars => UNCHANGED vars \/ \E r \in Requests : Step(r)
<1> SUFFICES ASSUME NEW r \in Requests, Serve(r) \/ Abandon(r) \/ DeadlockAbort(r) PROVE Step(r)
  BY DEF Next, Step
<1>1. CASE PatchMissing(r) \/ SubtaskOrphan(r) \/ DeleteMissing(r) \/ Abandon(r)
           \/ DeadlockAbort(r) \/ RefuseAssignees(r)
  BY <1>1 DEF RefuseAssignees, PatchMissing, SubtaskOrphan, DeleteMissing, Abandon, DeadlockAbort,
        Step, Fails
<1>2. CASE WriteSubtask(r) \/ SubtaskMissing(r)
  BY <1>2 DEF WriteSubtask, SubtaskMissing, Step, Fails, GoesOn, data
<1> QED BY <1>1, <1>2 DEF Serve, Step

(* A step is one request's. *)
LEMMA OthersStay ==
    ASSUME TypeOK, NEW r \in Requests, Step(r)
    PROVE  /\ \A q \in Requests \ {r} :
                /\ pc'[q] = pc[q] /\ op'[q] = op[q] /\ wasDone'[q] = wasDone[q]
                /\ row'[q] = row[q] /\ num'[q] = num[q] /\ wrote'[q] = wrote[q]
                /\ behind'[q] = behind[q] \/ behind'[q] = Free
           /\ \A q \in Requests \ {r} : keyLock = q => keyLock' = q
           /\ \A q \in Requests \ {r}, t \in TaskIds :
                /\ posLock[t] = q => posLock'[t] = q
                /\ writer[t] = q => writer'[t] = q
<1>1. CASE BeginAny(r)
  BY <1>1, Begins DEF Begin, Goto, TypeOK, locks, local
<1>2. CASE End(r)
  BY <1>2 DEF End, TypeOK
<1>3. CASE GoesOn(r) \/ FollowUp(r) \/ InsertSubtask(r)
  BY <1>3 DEF GoesOn, FollowUp, InsertSubtask, Goto, TypeOK, locks, local
<1>4. CASE LockKeys(r) \/ ReadKey(r) \/ ReadDone(r)
  BY <1>4, TasksAssumption DEF LockKeys, ReadKey, ReadDone, Goto, TypeOK, locks, local, assigning
<1>5. CASE WriteRow(r) \/ DeleteRow(r)
  BY <1>5, TasksAssumption DEF WriteRow, DeleteRow, Goto, TypeOK, locks, local, assigning
<1>6. CASE LockPositions(r) \/ ReadPosition(r)
  BY <1>6, TasksAssumption DEF LockPositions, ReadPosition, Goto, TypeOK, locks, local, assigning
<1>7. CASE AssigneesBlock(r) \/ ClearAssignees(r) \/ InsertAssignees(r) \/ CascadeBlocks(r)
  BY <1>7 DEF AssigneesBlock, ClearAssignees, InsertAssignees, CascadeBlocks, Goto, TypeOK, locks
<1> QED BY <1>1, <1>2, <1>3, <1>4, <1>5, <1>6, <1>7
        DEF Step, Fails, InsertTask, CommitPatch, InsertFollowUp, TouchTask, Cascade

-----------------------------------------------------------------------------
(* The invariant holds before anything is asked. *)
LEMMA InitInv == Init => Inv
<1> SUFFICES ASSUME Init PROVE Inv
  OBVIOUS
<1>1. TypeOK
  BY DEF Init, TypeOK, NoTask, Rows, PCs
<1>2. Kinds
  BY DEF Init, Kinds, KindOf
<1>3. LocksHeld /\ LocksOwned /\ RowsKept /\ Shared /\ Behind
  BY TasksAssumption
     DEF Init, LocksHeld, LocksOwned, RowsKept, Shared, Behind, Holds, NoOp
<1>4. KeysAndSubs /\ KeysNeverCollide /\ PositionsNeverCollide /\ NothingWithoutTask
  BY FS_EmptySet DEF Init, KeysAndSubs, KeysNeverCollide, PositionsNeverCollide,
     NothingWithoutTask, Present, Inserting, NoOp
<1>5. MarkersNeverMultiply
  <2>1. {t \in TaskIds : task[t].marked} = {}
    BY DEF Init, NoTask
  <2>2. granted = 0
    BY DEF Init
  <2> QED BY <2>1, <2>2, FS_EmptySet DEF MarkersNeverMultiply
<1> QED BY <1>1, <1>2, <1>3, <1>4, <1>5 DEF Inv

(* The variables of a transaction that ends. *)
LEMMA EndTypes ==
    ASSUME TypeOK, NEW r \in Requests, End(r)
    PROVE  /\ keyLock' \in Requests \cup {Free}
           /\ posLock' \in [TaskIds -> Requests \cup {Free}]
           /\ writer' \in [TaskIds -> Requests \cup {Free}]
           /\ pc' \in [Requests -> PCs]
           /\ op' \in [Requests -> Ops \cup {NoOp}]
           /\ wasDone' \in [Requests -> BOOLEAN]
           /\ row' \in [Requests -> Rows]
           /\ num' \in [Requests -> Nat]
           /\ wrote' \in [Requests -> {"nothing", "cleared", "set"}]
           /\ behind' \in [Requests -> Requests \cup {Free}]
BY DEF End, TypeOK, PCs, NoTask, Rows

(* Every step keeps the types. *)
LEMMA TypeStep == TypeOK /\ Kinds /\ KeysAndSubs /\ [Next]_vars => TypeOK'
<1> SUFFICES ASSUME TypeOK, Kinds, KeysAndSubs, [Next]_vars PROVE TypeOK'
  OBVIOUS
<1>1. CASE UNCHANGED vars
  BY <1>1 DEF vars, TypeOK
<1>2. ASSUME NEW r \in Requests, Step(r) PROVE TypeOK'
  <2>k. KindOf(pc[r], op[r])
    BY DEF Kinds
  <2>g. granted + 1 \in Nat /\ granted \in Nat
    BY DEF TypeOK
  <2>1. CASE BeginAny(r)
    <3>1. PICK o \in Ops, label \in {"key_lock", "read_done", "write", "position_lock",
                                     "write_subtask", "delete", "replace"} :
                    Begin(r, o, label)
      BY <2>1, Begins
    <3> QED BY <3>1 DEF Begin, Goto, TypeOK, PCs, data, locks, local
  <2>2. CASE Fails(r)
    BY <2>2, EndTypes DEF Fails, data, TypeOK
  <2>3. CASE GoesOn(r) \/ FollowUp(r) \/ InsertSubtask(r)
    BY <2>3 DEF GoesOn, FollowUp, InsertSubtask, Goto, TypeOK, PCs, data, locks, local
  <2>4. CASE LockKeys(r) \/ LockPositions(r) \/ DeleteRow(r)
    BY <2>4 DEF LockKeys, LockPositions, DeleteRow, Goto, TypeOK, PCs, data, locks, local
  <2>a. CASE AssigneesBlock(r) \/ ClearAssignees(r) \/ InsertAssignees(r) \/ CascadeBlocks(r)
    BY <2>a DEF AssigneesBlock, ClearAssignees, InsertAssignees, CascadeBlocks, Goto,
          TypeOK, PCs, data, locks
  <2>d. CASE ReadDone(r)
    <3>1. task[op[r].task].done \in BOOLEAN
      BY <2>d, <2>k, OpFields DEF ReadDone, KindOf, TypeOK, Rows
    <3> QED BY <2>d, <3>1 DEF ReadDone, Goto, TypeOK, PCs, data, locks, assigning
  <2>5. CASE ReadKey(r)
    BY <2>5, NextKeyIsLarger DEF ReadKey, Goto, TypeOK, PCs, data, locks, assigning
  <2>6. CASE ReadPosition(r)
    <3>1. NextPosition(op[r].task) \in Nat
      BY <2>6, <2>k, OpFields, NextPositionIsLarger DEF ReadPosition, KindOf, KeysAndSubs
    <3> QED BY <2>6, <3>1 DEF ReadPosition, Goto, TypeOK, PCs, data, locks, assigning
  <2>7. CASE WriteRow(r)
    <3>1. Patched(op[r].task, op[r]) \in Rows
      BY <2>7, <2>k, PatchedRow DEF WriteRow, KindOf
    <3> QED BY <2>7, <3>1 DEF WriteRow, Goto, TypeOK, PCs, data, locks, assigning
  <2>8. CASE InsertTask(r)
    <3>1. op[r].done \in BOOLEAN /\ op[r].marked \in BOOLEAN
      BY <2>8, <2>k, OpFields DEF InsertTask, KindOf
    <3>2. PICK t \in Unused, positions \in Drafts :
            /\ task' = [task EXCEPT ![t] = [key |-> num[r], done |-> op[r].done,
                                            marked |-> op[r].marked]]
            /\ subs' = [subs EXCEPT ![t] = positions]
      BY <2>8 DEF InsertTask
    <3>3. [key |-> num[r], done |-> op[r].done, marked |-> op[r].marked] \in Rows
      BY <3>1 DEF TypeOK, Rows
    <3>4. task' \in [TaskIds -> Rows]
      BY <3>2, <3>3 DEF TypeOK, Unused
    <3>5. subs' \in [TaskIds -> SUBSET Nat]
      BY <3>2, TasksAssumption DEF TypeOK, Unused
    <3> QED BY <2>8, <2>g, <3>4, <3>5, EndTypes DEF InsertTask, TypeOK
  <2>9. CASE CommitPatch(r)
    <3>1. op[r].task \in TaskIds /\ row[r] \in Rows
      BY <2>9, <2>k, OpFields DEF CommitPatch, KindOf, TypeOK
    <3>2. task' \in [TaskIds -> Rows] /\ subs' = subs /\ granted' \in Nat
      BY <2>9, <2>g, <3>1 DEF CommitPatch, TypeOK, GrantOf
    <3> QED BY <2>9, <3>2, EndTypes DEF CommitPatch, TypeOK
  <2>10. CASE InsertFollowUp(r)
    <3> DEFINE t == op[r].task
    <3>1. t \in TaskIds /\ row[r] \in Rows /\ row[r].marked \in BOOLEAN
      BY <2>10, <2>k, OpFields DEF InsertFollowUp, KindOf, TypeOK, Rows
    <3>2. PICK n \in Unused :
            /\ task' = [task EXCEPT ![n] = [key |-> num[r], done |-> FALSE,
                                            marked |-> row[r].marked],
                                    ![t] = [row[r] EXCEPT !.marked = FALSE]]
            /\ subs' = [subs EXCEPT ![n] = subs[t]]
      BY <2>10 DEF InsertFollowUp
    <3>3. /\ [key |-> num[r], done |-> FALSE, marked |-> row[r].marked] \in Rows
          /\ [row[r] EXCEPT !.marked = FALSE] \in Rows
      BY <3>1 DEF TypeOK, Rows
    <3>4. task' \in [TaskIds -> Rows]
      BY <3>2, <3>3 DEF TypeOK
    <3>5. subs' \in [TaskIds -> SUBSET Nat]
      BY <3>1, <3>2 DEF TypeOK
    <3>6. granted' \in Nat
      BY <2>10, <2>g DEF InsertFollowUp, GrantOf
    <3> QED BY <2>10, <3>4, <3>5, <3>6, EndTypes DEF InsertFollowUp, TypeOK
  <2>11. CASE TouchTask(r)
    <3>1. subs' \in [TaskIds -> SUBSET Nat]
      BY <2>11 DEF TouchTask, TypeOK
    <3> QED BY <2>11, <3>1, EndTypes DEF TouchTask, TypeOK
  <2>12. CASE Cascade(r)
    <3>1. task' \in [TaskIds -> Rows] /\ subs' \in [TaskIds -> SUBSET Nat]
      BY <2>12 DEF Cascade, TypeOK, NoTask, Rows
    <3> QED BY <2>12, <3>1, EndTypes DEF Cascade, TypeOK
  <2> QED BY <1>2, <2>1, <2>2, <2>3, <2>4, <2>5, <2>6, <2>7, <2>8, <2>9, <2>10, <2>11, <2>12,
             <2>a, <2>d
          DEF Step
<1> QED BY <1>1, <1>2, Steps

(* Every request stays at a statement of what it asks for. *)
LEMMA KindsStep == TypeOK /\ Kinds /\ [Next]_vars => Kinds'
<1> SUFFICES ASSUME TypeOK, Kinds, [Next]_vars PROVE Kinds'
  OBVIOUS
<1>1. CASE UNCHANGED vars
  BY <1>1 DEF vars, Kinds
<1>2. ASSUME NEW r \in Requests, Step(r) PROVE Kinds'
  <2>k. KindOf(pc[r], op[r])
    BY DEF Kinds
  <2> SUFFICES KindOf(pc'[r], op'[r])
    BY <1>2, OthersStay DEF Kinds
  <2>1. CASE BeginAny(r)
    BY <2>1, Begins DEF Begin, Goto, TypeOK
  <2>2. CASE End(r)
    BY <2>2 DEF End, TypeOK, KindOf
  <2>3. CASE GoesOn(r) \/ FollowUp(r) \/ InsertSubtask(r)
    BY <2>k, <2>3 DEF GoesOn, FollowUp, InsertSubtask, Goto, TypeOK, KindOf
  <2>4. CASE LockKeys(r) \/ LockPositions(r) \/ DeleteRow(r) \/ ReadDone(r)
    BY <2>k, <2>4 DEF LockKeys, LockPositions, DeleteRow, ReadDone, Goto, TypeOK, KindOf
  <2>5. CASE ReadKey(r) \/ ReadPosition(r) \/ WriteRow(r)
    BY <2>k, <2>5 DEF ReadKey, ReadPosition, WriteRow, Goto, TypeOK, KindOf
  <2>6. CASE AssigneesBlock(r) \/ ClearAssignees(r) \/ InsertAssignees(r) \/ CascadeBlocks(r)
    BY <2>k, <2>6 DEF AssigneesBlock, ClearAssignees, InsertAssignees, CascadeBlocks, Goto, TypeOK,
          KindOf, Replaces
  <2> QED BY <1>2, <2>1, <2>2, <2>3, <2>4, <2>5, <2>6
          DEF Step, Fails, InsertTask, CommitPatch, InsertFollowUp, TouchTask, Cascade
<1> QED BY <1>1, <1>2, Steps

(* Every step keeps the locks its request needs. *)
LEMMA LocksStep == TypeOK /\ Kinds /\ LocksHeld /\ [Next]_vars => LocksHeld'
<1> SUFFICES ASSUME TypeOK, Kinds, LocksHeld, [Next]_vars PROVE LocksHeld'
  OBVIOUS
<1>1. CASE UNCHANGED vars
  BY <1>1 DEF vars, LocksHeld, Holds
<1>2. ASSUME NEW r \in Requests, Step(r) PROVE LocksHeld'
  <2>k. KindOf(pc[r], op[r])
    BY DEF Kinds
  <2>l. /\ pc[r] \in {"read_key", "insert", "insert_follow_up"} => keyLock = r
        /\ op[r].kind = "add_subtask" /\ pc[r] \in {"read_position", "insert_subtask", "touch"}
             => posLock[op[r].task] = r
        /\ Holds(r) => writer[op[r].task] = r
    BY DEF LocksHeld
  <2> DEFINE L(q) ==
        /\ pc'[q] \in {"read_key", "insert", "insert_follow_up"} => keyLock' = q
        /\ op'[q].kind = "add_subtask" /\ pc'[q] \in {"read_position", "insert_subtask", "touch"}
             => posLock'[op'[q].task] = q
        /\ Holds(q)' => writer'[op'[q].task] = q
  <2>o. ASSUME NEW q \in Requests \ {r} PROVE L(q)
    <3>1. pc'[q] = pc[q] /\ op'[q] = op[q] /\ (Holds(q)' <=> Holds(q))
      BY <1>2, OthersStay DEF Holds
    <3>2. /\ pc[q] \in {"read_key", "insert", "insert_follow_up"} => keyLock = q
          /\ op[q].kind = "add_subtask" /\ pc[q] \in {"read_position", "insert_subtask", "touch"}
               => posLock[op[q].task] = q
          /\ Holds(q) => writer[op[q].task] = q
      BY DEF LocksHeld
    <3>3. op[q].kind = "add_subtask" \/ Holds(q) => op[q].task \in TaskIds
      <4>1. KindOf(pc[q], op[q])
        BY DEF Kinds
      <4> QED BY <4>1, OpFields DEF Holds, KindOf, Replaces
    <3> QED BY <1>2, <3>1, <3>2, <3>3, OthersStay
  <2>r. L(r)
    <3>1. CASE BeginAny(r)
      <4>1. PICK o \in Ops, label \in {"key_lock", "read_done", "write", "position_lock",
                                       "write_subtask", "delete", "replace"} :
              /\ Begin(r, o, label)
              /\ KindOf(label, o) /\ ~(o.kind = "patch" /\ label = "key_lock")
              /\ label = "replace" => ~Fields(o)
        BY <3>1, Begins
      <4>2. pc'[r] = label /\ op'[r] = o
        BY <4>1 DEF Begin, Goto, TypeOK
      <4> QED BY <4>1, <4>2 DEF Holds
    <3>2. CASE End(r)
      <4>1. pc'[r] = "idle" /\ op'[r] = NoOp
        BY <3>2 DEF End, TypeOK
      <4> QED BY <4>1 DEF Holds, NoOp
    <3>3. CASE GoesOn(r) \/ FollowUp(r) \/ InsertSubtask(r)
      <4>1. UNCHANGED <<op, keyLock, posLock, writer>>
        BY <3>3 DEF GoesOn, FollowUp, InsertSubtask, locks
      <4>2. \/ pc[r] = "written" /\ pc'[r] = "key_lock"
            \/ pc[r] \in {"insert_subtask", "write_subtask"} /\ pc'[r] = "touch"
        BY <3>3 DEF GoesOn, FollowUp, InsertSubtask, Goto, TypeOK
      <4> QED BY <2>k, <2>l, <4>1, <4>2 DEF Holds, KindOf
    <3>4. CASE LockKeys(r) \/ ReadKey(r) \/ ReadDone(r)
      BY <2>k, <2>l, <3>4 DEF LockKeys, ReadKey, ReadDone, Goto, TypeOK, Holds, KindOf, locks
    <3>5. CASE LockPositions(r) \/ ReadPosition(r)
      BY <2>k, <2>l, <3>5, OpFields
         DEF LockPositions, ReadPosition, Goto, TypeOK, Holds, KindOf, locks
    <3>6. CASE WriteRow(r) \/ DeleteRow(r)
      BY <2>k, <2>l, <3>6, OpFields
         DEF WriteRow, DeleteRow, Goto, TypeOK, Holds, KindOf, Replaces, locks
    <3>7. CASE AssigneesBlock(r) \/ ClearAssignees(r) \/ InsertAssignees(r) \/ CascadeBlocks(r)
      BY <2>k, <2>l, <3>7 DEF AssigneesBlock, ClearAssignees, InsertAssignees, CascadeBlocks, Goto,
            TypeOK, Holds, KindOf, Replaces, locks
    <3> QED BY <1>2, <3>1, <3>2, <3>3, <3>4, <3>5, <3>6, <3>7
            DEF Step, Fails, InsertTask, CommitPatch, InsertFollowUp, TouchTask, Cascade
  <2> QED BY <2>o, <2>r DEF LocksHeld
<1> QED BY <1>1, <1>2, Steps

(* A lock is some running request's. *)
LEMMA OwnersStep == TypeOK /\ Kinds /\ LocksOwned /\ [Next]_vars => LocksOwned'
<1> SUFFICES ASSUME TypeOK, Kinds, LocksOwned, [Next]_vars PROVE LocksOwned'
  OBVIOUS
<1>1. CASE UNCHANGED vars
  BY <1>1 DEF vars, LocksOwned, Holds
<1>2. ASSUME NEW r \in Requests, Step(r) PROVE LocksOwned'
  <2>k. KindOf(pc[r], op[r])
    BY DEF Kinds
  <2>l. /\ keyLock = r => pc[r] \in {"read_key", "insert", "insert_follow_up"}
        /\ \A t \in TaskIds :
            /\ posLock[t] = r => /\ op[r].kind = "add_subtask" /\ op[r].task = t
                                 /\ pc[r] \in {"read_position", "insert_subtask", "touch"}
            /\ writer[t] = r => Holds(r) /\ op[r].task = t
    BY DEF LocksOwned
  <2> DEFINE Owner(q) ==
        /\ keyLock' = q => pc'[q] \in {"read_key", "insert", "insert_follow_up"}
        /\ \A t \in TaskIds :
            /\ posLock'[t] = q => /\ op'[q].kind = "add_subtask" /\ op'[q].task = t
                                  /\ pc'[q] \in {"read_position", "insert_subtask", "touch"}
            /\ writer'[t] = q => Holds(q)' /\ op'[q].task = t
  <2>o. ASSUME NEW q \in Requests \ {r} PROVE Owner(q)
    <3>1. pc'[q] = pc[q] /\ op'[q] = op[q] /\ (Holds(q)' <=> Holds(q))
      BY <1>2, OthersStay DEF Holds
    <3>2. /\ keyLock' = q => keyLock = q
          /\ \A t \in TaskIds :
              /\ posLock'[t] = q => posLock[t] = q
              /\ writer'[t] = q => writer[t] = q
      <4>1. CASE BeginAny(r)
        BY <4>1, Begins DEF Begin, locks
      <4>2. CASE End(r)
        BY <4>2, TasksAssumption DEF End
      <4>3. CASE \/ GoesOn(r) \/ FollowUp(r) \/ InsertSubtask(r) \/ ReadKey(r) \/ ReadDone(r)
                 \/ ReadPosition(r) \/ AssigneesBlock(r) \/ ClearAssignees(r)
                 \/ InsertAssignees(r) \/ CascadeBlocks(r)
        BY <4>3 DEF GoesOn, FollowUp, InsertSubtask, ReadKey, ReadDone, ReadPosition,
              AssigneesBlock, ClearAssignees, InsertAssignees, CascadeBlocks, locks
      <4>4. CASE LockKeys(r) \/ LockPositions(r) \/ WriteRow(r) \/ DeleteRow(r)
        BY <4>4 DEF LockKeys, LockPositions, WriteRow, DeleteRow, TypeOK
      <4> QED BY <1>2, <4>1, <4>2, <4>3, <4>4
              DEF Step, Fails, InsertTask, CommitPatch, InsertFollowUp, TouchTask, Cascade
    <3>3. /\ keyLock = q => pc[q] \in {"read_key", "insert", "insert_follow_up"}
          /\ \A t \in TaskIds :
              /\ posLock[t] = q => /\ op[q].kind = "add_subtask" /\ op[q].task = t
                                   /\ pc[q] \in {"read_position", "insert_subtask", "touch"}
              /\ writer[t] = q => Holds(q) /\ op[q].task = t
      BY DEF LocksOwned
    <3>4. keyLock' = q => pc'[q] \in {"read_key", "insert", "insert_follow_up"}
      BY <3>1, <3>2, <3>3
    <3>5. ASSUME NEW t \in TaskIds, posLock'[t] = q
          PROVE  /\ op'[q].kind = "add_subtask" /\ op'[q].task = t
                 /\ pc'[q] \in {"read_position", "insert_subtask", "touch"}
      BY <3>1, <3>2, <3>3, <3>5
    <3>6. ASSUME NEW t \in TaskIds, writer'[t] = q PROVE Holds(q)' /\ op'[q].task = t
      BY <3>1, <3>2, <3>3, <3>6
    <3> QED BY <3>4, <3>5, <3>6
  <2>r. Owner(r)
    <3>1. CASE BeginAny(r)
      <4>1. pc[r] = "idle" /\ UNCHANGED locks
        BY <3>1, Begins DEF Begin
      <4>2. op[r].kind = "none"
        BY <2>k, <4>1 DEF KindOf, NoOp
      <4> QED BY <2>l, <4>1, <4>2 DEF Holds, locks
    <3>2. CASE End(r)
      BY <3>2, TasksAssumption DEF End
    <3>3. CASE GoesOn(r) \/ FollowUp(r) \/ InsertSubtask(r)
      <4>1. UNCHANGED <<op, keyLock, posLock, writer>>
        BY <3>3 DEF GoesOn, FollowUp, InsertSubtask, locks
      <4>2. \/ pc[r] = "written" /\ pc'[r] = "key_lock"
            \/ pc[r] \in {"insert_subtask", "write_subtask"} /\ pc'[r] = "touch"
        BY <3>3 DEF GoesOn, FollowUp, InsertSubtask, Goto, TypeOK
      <4> QED BY <2>k, <2>l, <4>1, <4>2 DEF Holds, KindOf
    <3>4. CASE LockKeys(r) \/ ReadKey(r) \/ ReadDone(r)
      BY <2>k, <2>l, <3>4 DEF LockKeys, ReadKey, ReadDone, Goto, TypeOK, Holds, KindOf, locks
    <3>5. CASE LockPositions(r) \/ ReadPosition(r)
      BY <2>k, <2>l, <3>5, OpFields
         DEF LockPositions, ReadPosition, Goto, TypeOK, Holds, KindOf, locks
    <3>6. CASE WriteRow(r) \/ DeleteRow(r)
      BY <2>k, <2>l, <3>6, OpFields
         DEF WriteRow, DeleteRow, Goto, TypeOK, Holds, KindOf, Replaces, locks
    <3>7. CASE AssigneesBlock(r) \/ ClearAssignees(r) \/ InsertAssignees(r) \/ CascadeBlocks(r)
      BY <2>k, <2>l, <3>7 DEF AssigneesBlock, ClearAssignees, InsertAssignees, CascadeBlocks, Goto,
            TypeOK, Holds, KindOf, Replaces, locks
    <3> QED BY <1>2, <3>1, <3>2, <3>3, <3>4, <3>5, <3>6, <3>7
            DEF Step, Fails, InsertTask, CommitPatch, InsertFollowUp, TouchTask, Cascade
  <2> QED BY <2>o, <2>r DEF LocksOwned
<1> QED BY <1>1, <1>2, Steps

-----------------------------------------------------------------------------
(* What a step of r does to the rows. *)
Keeps(r, t) == task'[t] = task[t] /\ subs'[t] = subs[t]
Inserts(r, t) ==
    /\ t \in Unused /\ Inserting(r)
    /\ task'[t] # NoTask /\ task'[t].key = num[r] /\ IsFiniteSet(subs'[t])
Rewrites(r, t) ==
    /\ t = op[r].task /\ op[r].kind = "patch" /\ Holds(r)
    /\ task'[t] # NoTask /\ task'[t].key = task[t].key /\ subs'[t] = subs[t]
Deletes(r, t) == t = op[r].task /\ pc[r] = "cascade" /\ task'[t] = NoTask /\ subs'[t] = {}
Touches(r, t) ==
    /\ t = op[r].task /\ pc[r] = "touch" /\ task'[t] = task[t]
    /\ \/ op[r].kind = "add_subtask" /\ subs'[t] = subs[t] \cup {num[r]}
       \/ subs'[t] \subseteq subs[t]

(* A row that was keyed is a row. *)
LEMMA KeyedRow ==
    ASSUME NEW x, x.key > 100
    PROVE  x # NoTask
BY DEF NoTask

(* What a step does to the row of a task. *)
LEMMA RowChanges ==
    ASSUME TypeOK, Kinds, RowsKept, KeysAndSubs, NEW r \in Requests, Step(r)
    PROVE  \E n : \A t \in TaskIds :
             \/ Keeps(r, t) \/ Rewrites(r, t) \/ Deletes(r, t) \/ Touches(r, t)
             \/ t = n /\ Inserts(r, t)
<1>k. KindOf(pc[r], op[r])
  BY DEF Kinds
<1>p. \A t \in TaskIds : (Present(t) => task[t].key > 100) /\ IsFiniteSet(subs[t])
  BY DEF KeysAndSubs
<1>n. Inserting(r) => num[r] > 100
  BY DEF KeysAndSubs
<1>1. CASE UNCHANGED <<task, subs>>
  BY <1>1 DEF Keeps
<1>2. CASE InsertTask(r)
  <2>1. PICK t \in Unused, positions \in Drafts :
          /\ task' = [task EXCEPT ![t] = [key |-> num[r], done |-> op[r].done,
                                          marked |-> op[r].marked]]
          /\ subs' = [subs EXCEPT ![t] = positions]
    BY <1>2 DEF InsertTask
  <2>2. \A u \in TaskIds : u # t => Keeps(r, u)
    BY <2>1 DEF Keeps, TypeOK
  <2>3. Inserting(r) /\ t \in TaskIds
    BY <1>2, <2>1 DEF InsertTask, Inserting, Unused
  <2>4. task'[t].key = num[r] /\ task'[t] # NoTask
    <3>1. task'[t] = [key |-> num[r], done |-> op[r].done, marked |-> op[r].marked]
      BY <2>1, <2>3 DEF TypeOK
    <3>2. task'[t].key = num[r]
      BY <3>1
    <3> QED BY <1>n, <2>3, <3>2, KeyedRow
  <2>5. IsFiniteSet(subs'[t])
    BY <2>1, <2>3, TasksAssumption DEF TypeOK
  <2> QED BY <2>1, <2>2, <2>3, <2>4, <2>5 DEF Inserts
<1>3. CASE CommitPatch(r)
  <2> DEFINE t == op[r].task
  <2>1. t \in TaskIds /\ op[r].kind = "patch" /\ Holds(r)
    BY <1>k, <1>3, OpFields DEF CommitPatch, KindOf, Holds
  <2>2. row[r] = Patched(t, op[r]) /\ Present(t)
    BY <2>1 DEF RowsKept
  <2>3. row[r].key = task[t].key /\ row[r].key > 100
    BY <1>p, <2>1, <2>2, PatchedRow
  <2>4. task' = [task EXCEPT ![t] = row[r]] /\ subs' = subs
    BY <1>3 DEF CommitPatch
  <2>5. Rewrites(r, t)
    BY <2>1, <2>3, <2>4, KeyedRow DEF Rewrites, TypeOK
  <2>6. \A u \in TaskIds : u # t => Keeps(r, u)
    BY <2>4 DEF Keeps, TypeOK
  <2> QED BY <2>5, <2>6
<1>4. CASE InsertFollowUp(r)
  <2> DEFINE t == op[r].task
  <2>1. t \in TaskIds /\ op[r].kind = "patch" /\ Holds(r) /\ Inserting(r)
    BY <1>k, <1>4, OpFields DEF InsertFollowUp, KindOf, Holds, Inserting
  <2>2. row[r] = Patched(t, op[r]) /\ Present(t)
    BY <2>1 DEF RowsKept
  <2>3. row[r].key = task[t].key /\ row[r].key > 100 /\ row[r] \in Rows
    BY <1>p, <2>1, <2>2, PatchedRow
  <2>4. PICK n \in Unused :
          /\ task' = [task EXCEPT ![n] = [key |-> num[r], done |-> FALSE,
                                          marked |-> row[r].marked],
                                  ![t] = [row[r] EXCEPT !.marked = FALSE]]
          /\ subs' = [subs EXCEPT ![n] = subs[t]]
    BY <1>4 DEF InsertFollowUp
  <2>5. n \in TaskIds /\ n # t
    BY <2>1, <2>2, <2>4 DEF Unused
  <2>6. Inserts(r, n)
    <3>1. task'[n] = [key |-> num[r], done |-> FALSE, marked |-> row[r].marked]
      BY <2>1, <2>4, <2>5 DEF TypeOK
    <3>2. task'[n].key = num[r] /\ task'[n] # NoTask
      <4>1. task'[n].key = num[r]
        BY <3>1
      <4> QED BY <1>n, <2>1, <4>1, KeyedRow
    <3>3. IsFiniteSet(subs'[n])
      BY <1>p, <2>1, <2>4, <2>5 DEF TypeOK
    <3> QED BY <2>1, <2>4, <3>2, <3>3 DEF Inserts
  <2>7. Rewrites(r, t)
    <3>1. task'[t] = [row[r] EXCEPT !.marked = FALSE] /\ subs'[t] = subs[t]
      BY <2>1, <2>4, <2>5 DEF TypeOK
    <3>2. task'[t].key = row[r].key
      BY <2>3, <3>1 DEF Rows
    <3> QED BY <2>1, <2>3, <3>1, <3>2, KeyedRow DEF Rewrites
  <2>8. \A u \in TaskIds : u # t /\ u # n => Keeps(r, u)
    BY <2>4 DEF Keeps, TypeOK
  <2> QED BY <2>5, <2>6, <2>7, <2>8
<1>5. CASE TouchTask(r)
  <2> DEFINE t == op[r].task
  <2>1. t \in TaskIds /\ pc[r] = "touch" /\ task' = task
    BY <1>k, <1>5, OpFields DEF TouchTask, KindOf
  <2>2. \A u \in TaskIds : u # t => subs'[u] = subs[u]
    BY <1>5 DEF TouchTask, TypeOK
  <2>3. \/ op[r].kind = "add_subtask" /\ subs'[t] = subs[t] \cup {num[r]}
        \/ subs'[t] \subseteq subs[t]
    BY <1>5, <2>1 DEF TouchTask, TypeOK
  <2> QED BY <2>1, <2>2, <2>3 DEF Touches, Keeps
<1>6. CASE Cascade(r)
  <2> DEFINE t == op[r].task
  <2>1. t \in TaskIds /\ pc[r] = "cascade"
    BY <1>k, <1>6, OpFields DEF Cascade, KindOf
  <2>2. task' = [task EXCEPT ![t] = NoTask] /\ subs' = [subs EXCEPT ![t] = {}]
    BY <1>6 DEF Cascade
  <2> QED BY <2>1, <2>2 DEF Deletes, Keeps, TypeOK
<1> QED BY <1>1, <1>2, <1>3, <1>4, <1>5, <1>6, Begins
        DEF Step, Fails, GoesOn, Begin, LockKeys, ReadKey, ReadDone, WriteRow, FollowUp,
            AssigneesBlock, ClearAssignees, InsertAssignees, CascadeBlocks,
            LockPositions, ReadPosition, InsertSubtask, DeleteRow, data

-----------------------------------------------------------------------------
(* The task of a request that names one, and what another's step does to it. *)
LEMMA NamedTask ==
    ASSUME TypeOK, Kinds, NEW r \in Requests,
           pc[r] \notin {"idle", "key_lock", "read_key", "insert"} \/ op[r].kind = "patch"
    PROVE  op[r].kind \notin {"none", "create"} /\ op[r].task \in TaskIds
<1>1. KindOf(pc[r], op[r]) /\ pc[r] \in PCs
  BY DEF Kinds, TypeOK
<1> QED BY <1>1, OpFields DEF KindOf, PCs, Replaces

(* What the step of another request may do to the task of a request. *)
LEMMA OthersRow ==
    ASSUME TypeOK, Kinds, RowsKept, KeysAndSubs, NEW r \in Requests, Step(r),
           NEW q \in Requests \ {r}, op[q].kind \notin {"none", "create"}, op[q].task \in TaskIds
    PROVE  LET t == op[q].task IN
           Keeps(r, t) \/ Rewrites(r, t) \/ Deletes(r, t) \/ Touches(r, t)
<1>1. op[q].task \notin Unused
  BY DEF Unused
<1> QED BY <1>1, RowChanges DEF Inserts

(* No step changes the row another request has locked. *)
LEMMA RowsKeptStep ==
    TypeOK /\ Kinds /\ LocksHeld /\ RowsKept /\ KeysAndSubs /\ [Next]_vars => RowsKept'
<1> SUFFICES ASSUME TypeOK, Kinds, LocksHeld, RowsKept, KeysAndSubs, [Next]_vars PROVE RowsKept'
  OBVIOUS
<1>1. CASE UNCHANGED vars
  BY <1>1 DEF vars, RowsKept, Holds, Present, Patched
<1>2. ASSUME NEW r \in Requests, Step(r) PROVE RowsKept'
  <2>k. KindOf(pc[r], op[r])
    BY DEF Kinds
  <2> DEFINE R(q) == Holds(q)' => /\ Present(op[q].task)'
                                  /\ op'[q].kind = "patch" =>
                                       row'[q] = Patched(op[q].task, op[q])'
  <2>o. ASSUME NEW q \in Requests \ {r}, Holds(q)' PROVE R(q)
    <3>1. op'[q] = op[q] /\ row'[q] = row[q] /\ Holds(q)
      BY <1>2, <2>o, OthersStay DEF Holds
    <3>2. op[q].kind \notin {"none", "create"} /\ op[q].task \in TaskIds
      BY <3>1, NamedTask DEF Holds
    <3>3. writer[op[q].task] = q
      BY <3>1 DEF LocksHeld
    <3>4. Holds(r) => op[r].task # op[q].task
      BY <3>3 DEF LocksHeld
    <3>5. task'[op[q].task] = task[op[q].task]
      BY <1>2, <3>2, <3>4, OthersRow DEF Keeps, Rewrites, Deletes, Touches, Holds
    <3>6. /\ Present(op[q].task)
          /\ op[q].kind = "patch" => row[q] = Patched(op[q].task, op[q])
      BY <3>1 DEF RowsKept
    <3>7. Present(op[q].task)' /\ (Patched(op[q].task, op[q]))' = Patched(op[q].task, op[q])
      BY <3>1, <3>5, <3>6 DEF Present, Patched
    <3> QED BY <3>1, <3>6, <3>7
  <2>r. ASSUME Holds(r)' PROVE R(r)
    <3>1. CASE End(r)
      BY <2>r, <3>1 DEF End, TypeOK, Holds, NoOp
    <3>2. CASE BeginAny(r)
      BY <2>r, <3>2, Begins DEF Begin, Goto, TypeOK, Holds
    <3>3. CASE /\ UNCHANGED <<task, op, row>>
               /\ \/ FollowUp(r) \/ LockKeys(r) \/ ReadKey(r) \/ AssigneesBlock(r)
                  \/ ClearAssignees(r) \/ InsertAssignees(r) \/ CascadeBlocks(r)
      <4>1. Holds(r)
        BY <2>k, <2>r, <3>3
           DEF FollowUp, LockKeys, ReadKey, AssigneesBlock, ClearAssignees, InsertAssignees,
               CascadeBlocks, Goto, TypeOK, Holds, KindOf, Replaces
      <4> QED BY <3>3, <4>1 DEF RowsKept, Present, Patched
    <3>4. CASE WriteRow(r)
      <4>1. /\ UNCHANGED <<task, op>> /\ Present(op[r].task)
            /\ row'[r] = Patched(op[r].task, op[r])
        BY <3>4 DEF WriteRow, data, TypeOK
      <4> QED BY <4>1 DEF Present, Patched
    <3>5. CASE DeleteRow(r)
      BY <2>k, <3>5 DEF DeleteRow, data, KindOf, Present
    <3>6. CASE ReadDone(r) \/ LockPositions(r) \/ ReadPosition(r) \/ InsertSubtask(r) \/ GoesOn(r)
      BY <2>k, <2>r, <3>6 DEF ReadDone, LockPositions, ReadPosition, InsertSubtask, GoesOn, Goto,
            TypeOK, Holds, KindOf
    <3> QED BY <1>2, <3>1, <3>2, <3>3, <3>4, <3>5, <3>6
            DEF Step, Fails, InsertTask, CommitPatch, InsertFollowUp, TouchTask, Cascade,
                FollowUp, LockKeys, ReadKey, AssigneesBlock, ClearAssignees, InsertAssignees,
                CascadeBlocks, data, local, assigning
  <2> QED BY <2>o, <2>r DEF RowsKept
<1> QED BY <1>1, <1>2, Steps

(* No step takes the task of a subtask that was inserted. *)
LEMMA SharedStep ==
    TypeOK /\ Kinds /\ RowsKept /\ KeysAndSubs /\ Shared /\ [Next]_vars => Shared'
<1> SUFFICES ASSUME TypeOK, Kinds, RowsKept, KeysAndSubs, Shared, [Next]_vars PROVE Shared'
  OBVIOUS
<1>1. CASE UNCHANGED vars
  BY <1>1 DEF vars, Shared, Present, Deleting
<1>2. ASSUME NEW r \in Requests, Step(r) PROVE Shared'
  <2>k. KindOf(pc[r], op[r])
    BY DEF Kinds
  <2> SUFFICES ASSUME NEW q \in Requests, op'[q].kind = "add_subtask", pc'[q] = "touch"
               PROVE  /\ Present(op[q].task)'
                      /\ \A p \in Requests : ~Deleting(p, op[q].task)'
    BY DEF Shared
  <2>1. CASE q # r
    <3>1. op'[q] = op[q] /\ op[q].kind = "add_subtask" /\ pc[q] = "touch"
      BY <1>2, <2>1, OthersStay
    <3> DEFINE t == op[q].task
    <3>2. Present(t) /\ \A p \in Requests : ~Deleting(p, t)
      BY <3>1 DEF Shared
    <3>3. t \in TaskIds /\ op[q].kind \notin {"none", "create"}
      BY <3>1, OpFields
    <3>4. task'[t] # NoTask
      BY <1>2, <2>1, <3>2, <3>3, OthersRow
         DEF Keeps, Rewrites, Deletes, Touches, Deleting, Present
    <3>5. \A p \in Requests \ {r} : ~Deleting(p, op[q].task)'
      BY <1>2, <3>1, <3>2, OthersStay DEF Deleting
    <3>6. ~(pc'[r] = "cascade" /\ op'[r].task = t)
      <4>1. CASE End(r)
        BY <4>1 DEF End, TypeOK
      <4>2. CASE BeginAny(r)
        BY <4>2, Begins DEF Begin, Goto, TypeOK
      <4>3. CASE DeleteRow(r)
        BY <3>1, <4>3 DEF DeleteRow, Sharers
      <4>4. CASE GoesOn(r) \/ LockKeys(r) \/ ReadKey(r) \/ ReadDone(r) \/ WriteRow(r)
                 \/ FollowUp(r) \/ LockPositions(r) \/ ReadPosition(r) \/ InsertSubtask(r)
        BY <4>4 DEF GoesOn, LockKeys, ReadKey, ReadDone, WriteRow, FollowUp, LockPositions,
              ReadPosition, InsertSubtask, Goto, TypeOK
      <4>5. CASE AssigneesBlock(r) \/ ClearAssignees(r) \/ InsertAssignees(r)
        BY <2>k, <4>5 DEF AssigneesBlock, ClearAssignees, InsertAssignees, Goto, TypeOK
      <4>6. CASE CascadeBlocks(r)
        BY <3>2, <4>6 DEF CascadeBlocks, Deleting
      <4> QED BY <1>2, <4>1, <4>2, <4>3, <4>4, <4>5, <4>6
              DEF Step, Fails, InsertTask, CommitPatch, InsertFollowUp, TouchTask, Cascade
    <3> QED BY <3>1, <3>4, <3>5, <3>6 DEF Present, Deleting
  <2>2. CASE q = r
    <3>1. CASE End(r)
      BY <2>2, <3>1 DEF End, TypeOK
    <3>2. CASE BeginAny(r)
      BY <2>2, <3>2, Begins DEF Begin, Goto, TypeOK
    <3>3. CASE InsertSubtask(r)
      <4>1. /\ UNCHANGED <<task, op>> /\ Present(op[r].task)
            /\ \A p \in Requests : ~Deleting(p, op[r].task)
            /\ \A p \in Requests \ {r} : pc'[p] = pc[p]
        BY <1>2, <3>3, OthersStay DEF InsertSubtask, data
      <4> QED BY <2>2, <4>1 DEF Present, Deleting
    <3>4. CASE GoesOn(r)
      BY <2>k, <2>2, <3>4 DEF GoesOn, KindOf
    <3>5. CASE LockKeys(r) \/ ReadKey(r) \/ ReadDone(r) \/ WriteRow(r) \/ FollowUp(r)
               \/ LockPositions(r) \/ ReadPosition(r) \/ DeleteRow(r)
      BY <2>2, <3>5 DEF LockKeys, ReadKey, ReadDone, WriteRow, FollowUp, LockPositions,
            ReadPosition, DeleteRow, Goto, TypeOK
    <3>6. CASE AssigneesBlock(r) \/ ClearAssignees(r) \/ InsertAssignees(r) \/ CascadeBlocks(r)
      BY <2>k, <2>2, <3>6 DEF AssigneesBlock, ClearAssignees, InsertAssignees, CascadeBlocks, Goto,
            TypeOK, KindOf, Replaces
    <3> QED BY <1>2, <3>1, <3>2, <3>3, <3>4, <3>5, <3>6
            DEF Step, Fails, InsertTask, CommitPatch, InsertFollowUp, TouchTask, Cascade
  <2> QED BY <2>1, <2>2
<1> QED BY <1>1, <1>2, Steps

(* A wait for rows of assignees ends with the request that has written them. *)
LEMMA BehindStep == TypeOK /\ Kinds /\ Behind /\ [Next]_vars => Behind'
<1> SUFFICES ASSUME TypeOK, Kinds, Behind, [Next]_vars PROVE Behind'
  OBVIOUS
<1>1. CASE UNCHANGED vars
  BY <1>1 DEF vars, Behind
<1>2. ASSUME NEW r \in Requests, Step(r) PROVE Behind'
  <2>k. KindOf(pc[r], op[r])
    BY DEF Kinds
  <2>b. \A q \in Requests :
          /\ wrote[q] # "nothing" => Replaces(op[q])
          /\ behind[q] # Free =>
               /\ pc[q] \in {"replace", "replaced", "cascade"} /\ behind[q] # q
               /\ Replaces(op[behind[q]]) /\ op[behind[q]].task = op[q].task
    BY DEF Behind
  <2>t. \A q \in Requests : behind[q] \in Requests \cup {Free}
    BY DEF TypeOK
  <2>1. CASE /\ UNCHANGED <<op, behind, wrote>>
             /\ \A q \in Requests : behind[q] # Free => pc'[q] = pc[q]
    BY <2>b, <2>1 DEF Behind
  <2>2. CASE End(r)
    <3>1. /\ \A q \in Requests \ {r} : /\ pc'[q] = pc[q] /\ op'[q] = op[q]
                                      /\ wrote'[q] = wrote[q]
          /\ wrote'[r] = "nothing"
          /\ \A q \in Requests : behind'[q] # Free => behind'[q] = behind[q] /\ q # r
                                                     /\ behind[q] # r
      BY <2>2 DEF End, TypeOK
    <3> QED BY <2>b, <2>t, <3>1 DEF Behind
  <2>3. CASE BeginAny(r)
    <3>1. /\ UNCHANGED <<wrote, behind>> /\ pc[r] = "idle"
          /\ \A q \in Requests \ {r} : pc'[q] = pc[q] /\ op'[q] = op[q]
      BY <2>3, Begins DEF Begin, Goto, TypeOK, local
    <3>2. op[r] = NoOp /\ ~Replaces(op[r]) /\ behind[r] = Free /\ wrote[r] = "nothing"
      BY <2>b, <2>k, <3>1 DEF KindOf, NoOp, Replaces
    <3>3. \A q \in Requests : behind[q] # r
      BY <2>b, <3>2, TasksAssumption
    <3> QED BY <2>b, <2>t, <3>1, <3>2, <3>3 DEF Behind
  <2>4. CASE AssigneesBlock(r) \/ CascadeBlocks(r)
    <3>1. PICK q \in Requests :
            /\ op[q].kind = "patch" /\ op[q].task = op[r].task
            /\ wrote[q] # "nothing" /\ behind' = [behind EXCEPT ![r] = q]
            /\ pc[r] = "cascade" \/ q # r
      BY <2>4 DEF AssigneesBlock, CascadeBlocks
    <3>2. UNCHANGED <<pc, op>> /\ pc[r] \in {"replace", "replaced", "cascade"}
      BY <2>4 DEF AssigneesBlock, CascadeBlocks
    <3>3. Replaces(op[q])
      BY <2>b, <3>1 DEF Replaces
    <3>4. q # r
      BY <2>k, <3>1 DEF KindOf
    <3>5. \A p \in Requests : wrote'[p] # "nothing" => Replaces(op[p])
      BY <2>b, <2>k, <2>4 DEF AssigneesBlock, CascadeBlocks, KindOf, TypeOK
    <3>6. ASSUME NEW p \in Requests, behind'[p] # Free
          PROVE  /\ pc[p] \in {"replace", "replaced", "cascade"} /\ behind'[p] # p
                 /\ Replaces(op[behind'[p]]) /\ op[behind'[p]].task = op[p].task
      <4>1. CASE p = r
        <5>1. behind'[r] = q
          BY <3>1 DEF TypeOK
        <5> QED BY <3>1, <3>2, <3>3, <3>4, <4>1, <5>1 DEF Replaces
      <4>2. CASE p # r
        <5>1. behind'[p] = behind[p]
          BY <3>1, <4>2 DEF TypeOK
        <5> QED BY <2>b, <3>6, <5>1 DEF Replaces
      <4> QED BY <4>1, <4>2
    <3> QED BY <3>2, <3>5, <3>6 DEF Behind, Replaces
  <2>5. CASE ClearAssignees(r) \/ InsertAssignees(r)
    <3>1. /\ UNCHANGED <<op, behind>> /\ behind[r] = Free /\ Replaces(op[r])
          /\ \A q \in Requests \ {r} : pc'[q] = pc[q] /\ wrote'[q] = wrote[q]
      BY <2>k, <2>5 DEF ClearAssignees, InsertAssignees, KindOf, Goto, TypeOK
    <3> QED BY <2>b, <3>1 DEF Behind
  <2>6. CASE GoesOn(r) \/ LockKeys(r) \/ ReadKey(r) \/ ReadDone(r) \/ WriteRow(r) \/ FollowUp(r)
             \/ LockPositions(r) \/ ReadPosition(r) \/ InsertSubtask(r) \/ DeleteRow(r)
    <3>1. UNCHANGED <<op, behind, wrote>> /\ pc[r] \notin {"replace", "replaced", "cascade"}
      BY <2>6 DEF GoesOn, LockKeys, ReadKey, ReadDone, WriteRow, FollowUp, LockPositions,
            ReadPosition, InsertSubtask, DeleteRow, local, assigning
    <3>2. behind[r] = Free
      BY <2>b, <3>1
    <3> QED BY <1>2, <2>1, <3>1, <3>2, OthersStay
  <2> QED BY <1>2, <2>2, <2>3, <2>4, <2>5, <2>6
          DEF Step, Fails, InsertTask, CommitPatch, InsertFollowUp, TouchTask, Cascade
<1> QED BY <1>1, <1>2, Steps

(* A number is read while the lock is held, and above all there are. *)
LEMMA NumberRead ==
    ASSUME TypeOK, Kinds, KeysAndSubs, NEW r \in Requests, Step(r)
    PROVE  /\ Inserting(r)' => /\ num'[r] > 100 /\ task' = task
                               /\ \A t \in TaskIds : Present(t) => task[t].key < num'[r]
           /\ op'[r].kind = "add_subtask" /\ pc'[r] \in {"insert_subtask", "touch"} =>
                /\ subs' = subs /\ op'[r] = op[r]
                /\ \/ num'[r] \notin subs[op[r].task]
                   \/ pc[r] = "insert_subtask" /\ num'[r] = num[r]
<1>k. KindOf(pc[r], op[r])
  BY DEF Kinds
<1>1. CASE End(r)
  BY <1>1 DEF End, TypeOK, Inserting
<1>2. CASE BeginAny(r)
  BY <1>2, Begins DEF Begin, Goto, TypeOK, Inserting
<1>3. CASE ReadKey(r)
  <2>1. /\ pc'[r] \in {"insert", "insert_follow_up"} /\ task' = task /\ num'[r] = NextKey
    BY <1>3 DEF ReadKey, Goto, TypeOK, data
  <2> QED BY <2>1, NextKeyIsLarger
<1>4. CASE ReadPosition(r)
  <2>1. op[r].task \in TaskIds /\ IsFiniteSet(subs[op[r].task])
    BY <1>k, <1>4, OpFields DEF ReadPosition, KindOf, KeysAndSubs
  <2>2. /\ pc'[r] = "insert_subtask" /\ UNCHANGED <<subs, op>>
        /\ num'[r] = NextPosition(op[r].task)
    BY <1>4 DEF ReadPosition, Goto, TypeOK, data
  <2> QED BY <2>1, <2>2, NextPositionIsLarger DEF Inserting
<1>5. CASE InsertSubtask(r)
  BY <1>5 DEF InsertSubtask, Goto, TypeOK, data, local, Inserting
<1>6. CASE GoesOn(r)
  BY <1>k, <1>6 DEF GoesOn, Goto, TypeOK, KindOf, Inserting
<1>7. CASE LockKeys(r) \/ ReadDone(r) \/ WriteRow(r) \/ FollowUp(r) \/ LockPositions(r)
           \/ DeleteRow(r)
  BY <1>7 DEF LockKeys, ReadDone, WriteRow, FollowUp, LockPositions, DeleteRow, Goto, TypeOK,
        Inserting
<1>8. CASE AssigneesBlock(r) \/ ClearAssignees(r) \/ InsertAssignees(r) \/ CascadeBlocks(r)
  BY <1>k, <1>8 DEF AssigneesBlock, ClearAssignees, InsertAssignees, CascadeBlocks, Goto, TypeOK,
        KindOf, Replaces, Inserting
<1> QED BY <1>1, <1>2, <1>3, <1>4, <1>5, <1>6, <1>7, <1>8
        DEF Step, Fails, InsertTask, CommitPatch, InsertFollowUp, TouchTask, Cascade

(* No step makes two tasks of one key. *)
LEMMA KeysStep ==
    /\ TypeOK /\ Kinds /\ LocksHeld /\ RowsKept /\ KeysAndSubs /\ KeysNeverCollide /\ [Next]_vars
    => KeysAndSubs' /\ KeysNeverCollide'
<1> SUFFICES ASSUME TypeOK, Kinds, LocksHeld, RowsKept, KeysAndSubs, KeysNeverCollide,
                    [Next]_vars
             PROVE  KeysAndSubs' /\ KeysNeverCollide'
  OBVIOUS
<1>1. CASE UNCHANGED vars
  BY <1>1 DEF vars, KeysAndSubs, KeysNeverCollide, Present, Inserting
<1>2. ASSUME NEW r \in Requests, Step(r) PROVE KeysAndSubs' /\ KeysNeverCollide'
  <2>1. PICK n : \A t \in TaskIds :
          \/ Keeps(r, t) \/ Rewrites(r, t) \/ Deletes(r, t) \/ Touches(r, t)
          \/ t = n /\ Inserts(r, t)
    BY <1>2, RowChanges
  <2>2. \A t \in TaskIds : Rewrites(r, t) => Present(t)
    BY DEF Rewrites, RowsKept
  <2>3. ASSUME NEW t \in TaskIds, task'[t] # NoTask
        PROVE  \/ Present(t) /\ task'[t].key = task[t].key
               \/ t = n /\ Inserting(r) /\ task'[t].key = num[r] /\ t \in Unused
    BY <2>1, <2>2, <2>3 DEF Keeps, Rewrites, Deletes, Touches, Inserts, Present
  <2>4. \A t \in TaskIds : Present(t)' => task'[t].key > 100
    BY <2>3 DEF KeysAndSubs, Present
  <2>5. ASSUME NEW t \in TaskIds PROVE IsFiniteSet(subs'[t])
    <3>1. IsFiniteSet(subs[t])
      BY DEF KeysAndSubs
    <3>2. CASE Touches(r, t)
      BY <3>1, <3>2, FS_AddElement, FS_Subset DEF Touches
    <3> QED BY <2>1, <3>1, <3>2, FS_EmptySet DEF Keeps, Rewrites, Deletes, Inserts
  <2>6. \A t, u \in TaskIds : Present(t)' /\ Present(u)' /\ t # u => task'[t].key # task'[u].key
    <3> SUFFICES ASSUME NEW t \in TaskIds, NEW u \in TaskIds, t # u,
                        task'[t] # NoTask, task'[u] # NoTask
                 PROVE  task'[t].key # task'[u].key
      BY DEF Present
    <3>1. Inserting(r) => \A v \in TaskIds : Present(v) => task[v].key < num[r]
      BY DEF KeysNeverCollide
    <3>2. \A v \in TaskIds : task[v].key \in Nat
      BY DEF TypeOK, Rows
    <3>3. num[r] \in Nat
      BY DEF TypeOK
    <3> QED BY <2>3, <3>1, <3>2, <3>3 DEF KeysNeverCollide
  <2>7. ASSUME NEW q \in Requests, Inserting(q)'
        PROVE  num'[q] > 100 /\ \A t \in TaskIds : Present(t)' => task'[t].key < num'[q]
    <3>1. CASE q = r
      BY <1>2, <2>7, <3>1, NumberRead DEF Present
    <3>2. CASE q # r
      <4>1. num'[q] = num[q] /\ Inserting(q)
        BY <1>2, <2>7, <3>2, OthersStay DEF Inserting
      <4>2. ~Inserting(r)
        BY <3>2, <4>1 DEF LocksHeld, Inserting, KindOf, Kinds
      <4> QED BY <2>3, <4>1, <4>2 DEF KeysNeverCollide, KeysAndSubs, Present
    <3> QED BY <3>1, <3>2
  <2> QED BY <2>4, <2>5, <2>6, <2>7 DEF KeysAndSubs, KeysNeverCollide
<1> QED BY <1>1, <1>2, Steps

(* No step makes two subtasks of one position. *)
LEMMA PositionsStep ==
    /\ TypeOK /\ Kinds /\ LocksHeld /\ RowsKept /\ KeysAndSubs /\ PositionsNeverCollide
    /\ [Next]_vars
    => PositionsNeverCollide'
<1> SUFFICES ASSUME TypeOK, Kinds, LocksHeld, RowsKept, KeysAndSubs, PositionsNeverCollide,
                    [Next]_vars
             PROVE  PositionsNeverCollide'
  OBVIOUS
<1>1. CASE UNCHANGED vars
  BY <1>1 DEF vars, PositionsNeverCollide
<1>2. ASSUME NEW r \in Requests, Step(r) PROVE PositionsNeverCollide'
  <2> SUFFICES ASSUME NEW q \in Requests, op'[q].kind = "add_subtask",
                      pc'[q] \in {"insert_subtask", "touch"}
               PROVE  num'[q] \notin subs'[op'[q].task]
    BY DEF PositionsNeverCollide
  <2>1. CASE q = r
    BY <1>2, <2>1, NumberRead DEF PositionsNeverCollide
  <2>2. CASE q # r
    <3> DEFINE t == op[q].task
    <3>1. /\ op'[q] = op[q] /\ num'[q] = num[q] /\ op[q].kind = "add_subtask"
          /\ pc[q] \in {"insert_subtask", "touch"}
      BY <1>2, <2>2, OthersStay
    <3>2. num[q] \notin subs[t] /\ posLock[t] = q
      BY <3>1 DEF PositionsNeverCollide, LocksHeld
    <3>3. t \in TaskIds /\ op[q].kind \notin {"none", "create"}
      BY <3>1, OpFields
    <3>4. ~(op[r].kind = "add_subtask" /\ pc[r] = "touch" /\ op[r].task = t)
      BY <2>2, <3>2 DEF LocksHeld
    <3>5. subs'[t] \subseteq subs[t]
      BY <1>2, <2>2, <3>3, <3>4, OthersRow DEF Keeps, Rewrites, Deletes, Touches
    <3> QED BY <3>1, <3>2, <3>5
  <2> QED BY <2>1, <2>2
<1> QED BY <1>1, <1>2, Steps

(* No step leaves a subtask without its task. *)
LEMMA NothingStep ==
    TypeOK /\ Kinds /\ RowsKept /\ Shared /\ KeysAndSubs /\ NothingWithoutTask /\ [Next]_vars
    => NothingWithoutTask'
<1> SUFFICES ASSUME TypeOK, Kinds, RowsKept, Shared, KeysAndSubs, NothingWithoutTask, [Next]_vars
             PROVE  NothingWithoutTask'
  OBVIOUS
<1>1. CASE UNCHANGED vars
  BY <1>1 DEF vars, NothingWithoutTask, Present
<1>2. ASSUME NEW r \in Requests, Step(r), NEW t \in TaskIds, task'[t] = NoTask
      PROVE  subs'[t] = {}
  <2>1. CASE Keeps(r, t)
    BY <1>2, <2>1 DEF Keeps, NothingWithoutTask, Present
  <2>2. CASE Touches(r, t)
    <3>1. ~Present(t) /\ subs[t] = {}
      BY <1>2, <2>2 DEF Touches, NothingWithoutTask, Present
    <3>2. op[r].kind # "add_subtask"
      BY <2>2, <3>1 DEF Touches, Shared
    <3> QED BY <2>2, <3>1, <3>2 DEF Touches
  <2> QED BY <1>2, <2>1, <2>2, RowChanges DEF Rewrites, Deletes, Inserts
<1> QED BY <1>1, <1>2, Steps DEF NothingWithoutTask, Present

-----------------------------------------------------------------------------
(* The recurring tasks. *)
Recurring == {t \in TaskIds : task[t].marked}

(* Finitely many tasks recur. *)
LEMMA RecurringIsFinite ==
    ASSUME TypeOK
    PROVE  IsFiniteSet(Recurring) /\ Cardinality(Recurring) \in Nat
<1>1. IsFiniteSet(TaskIds) /\ Recurring \in SUBSET TaskIds
  BY TasksAssumption DEF Recurring
<1> QED BY <1>1, FS_Subset, FS_CardinalityType

(* No step makes recurrence markers multiply. *)
LEMMA MarkersStep ==
    TypeOK /\ Kinds /\ RowsKept /\ KeysAndSubs /\ MarkersNeverMultiply /\ [Next]_vars
    => MarkersNeverMultiply'
<1> SUFFICES ASSUME TypeOK, Kinds, RowsKept, KeysAndSubs, MarkersNeverMultiply, [Next]_vars
             PROVE  MarkersNeverMultiply'
  OBVIOUS
<1> DEFINE N == Cardinality(Recurring)
<1>0. N \in Nat /\ granted \in Nat /\ N <= granted /\ IsFiniteSet(Recurring)
  BY RecurringIsFinite DEF MarkersNeverMultiply, Recurring, TypeOK
<1> SUFFICES Cardinality(Recurring') <= granted'
  BY DEF MarkersNeverMultiply, Recurring
<1>a. \A t : /\ IsFiniteSet(Recurring \cup {t}) /\ IsFiniteSet(Recurring \ {t})
             /\ Cardinality(Recurring \cup {t}) = IF t \in Recurring THEN N ELSE N + 1
             /\ Cardinality(Recurring \ {t}) = IF t \in Recurring THEN N - 1 ELSE N
  BY <1>0, FS_AddElement, FS_RemoveElement
<1>1. CASE UNCHANGED <<task, granted>>
  BY <1>0, <1>1 DEF Recurring
<1>2. ASSUME NEW r \in Requests, InsertTask(r) PROVE Cardinality(Recurring') <= granted'
  <2>1. PICK t \in Unused :
          task' = [task EXCEPT ![t] = [key |-> num[r], done |-> op[r].done,
                                       marked |-> op[r].marked]]
    BY <1>2 DEF InsertTask
  <2>2. t \in TaskIds /\ t \notin Recurring
    BY <2>1 DEF Unused, Present, NoTask, Recurring
  <2>3. task'[t].marked = op[r].marked /\ \A u \in TaskIds \ {t} : task'[u] = task[u]
    BY <2>1, <2>2 DEF TypeOK
  <2>4. Recurring' = IF op[r].marked THEN Recurring \cup {t} ELSE Recurring
    BY <2>2, <2>3 DEF Recurring
  <2>5. granted' = IF op[r].marked THEN granted + 1 ELSE granted
    BY <1>2 DEF InsertTask
  <2> QED BY <1>0, <1>a, <2>2, <2>4, <2>5
<1>3. ASSUME NEW r \in Requests, CommitPatch(r) \/ InsertFollowUp(r)
      PROVE  Cardinality(Recurring') <= granted'
  <2> DEFINE t == op[r].task
  <2>1. op[r].kind = "patch" /\ Holds(r) /\ t \in TaskIds
    <3>1. KindOf(pc[r], op[r])
      BY DEF Kinds
    <3> QED BY <1>3, <3>1, OpFields DEF CommitPatch, InsertFollowUp, KindOf, Holds
  <2>2. row[r] = Patched(t, op[r]) /\ Present(t)
    BY <2>1 DEF RowsKept
  <2>3. /\ row[r].marked = IF op[r].marker = "keep" THEN task[t].marked ELSE op[r].marker = "set"
        /\ row[r] \in Rows
    BY <2>1, <2>2, PatchedRow
  <2>4. granted' = IF op[r].marker = "set" THEN granted + 1 ELSE granted
    BY <1>3 DEF CommitPatch, InsertFollowUp, GrantOf
  <2>5. row[r].marked => t \in Recurring \/ op[r].marker = "set"
    BY <2>1, <2>3 DEF Recurring
  <2>6. CASE CommitPatch(r)
    <3>1. task'[t].marked = row[r].marked /\ \A u \in TaskIds \ {t} : task'[u] = task[u]
      BY <2>1, <2>6 DEF CommitPatch, TypeOK
    <3>2. Recurring' = IF row[r].marked THEN Recurring \cup {t} ELSE Recurring \ {t}
      BY <2>1, <3>1 DEF Recurring
    <3> QED BY <1>0, <1>a, <2>4, <2>5, <3>2
  <2>7. CASE InsertFollowUp(r)
    <3>1. PICK n \in Unused :
            task' = [task EXCEPT ![n] = [key |-> num[r], done |-> FALSE,
                                         marked |-> row[r].marked],
                                 ![t] = [row[r] EXCEPT !.marked = FALSE]]
      BY <2>7 DEF InsertFollowUp
    <3>2. n \in TaskIds /\ n # t /\ n \notin Recurring
      BY <2>2, <3>1 DEF Unused, Present, NoTask, Recurring
    <3>3. /\ task'[n] = [key |-> num[r], done |-> FALSE, marked |-> row[r].marked]
          /\ task'[t] = [row[r] EXCEPT !.marked = FALSE]
          /\ \A u \in TaskIds \ {t, n} : task'[u] = task[u]
      BY <2>1, <3>1, <3>2 DEF TypeOK
    <3>4. task'[n].marked = row[r].marked /\ ~task'[t].marked
      BY <2>3, <3>3 DEF Rows
    <3>5. Recurring' = IF row[r].marked THEN (Recurring \ {t}) \cup {n} ELSE Recurring \ {t}
      BY <2>1, <3>2, <3>3, <3>4 DEF Recurring
    <3>6. Cardinality((Recurring \ {t}) \cup {n}) = Cardinality(Recurring \ {t}) + 1
      BY <1>a, <3>2, FS_AddElement
    <3> QED BY <1>0, <1>a, <2>4, <2>5, <3>5, <3>6
  <2> QED BY <1>3, <2>6, <2>7
<1>4. ASSUME NEW r \in Requests, Cascade(r) PROVE Cardinality(Recurring') <= granted'
  <2>1. Recurring' = Recurring \ {op[r].task} /\ granted' = granted
    BY <1>4 DEF Cascade, Recurring, TypeOK, NoTask
  <2> QED BY <1>0, <1>a, <2>1
<1>5. ASSUME NEW r \in Requests, Step(r),
             ~(InsertTask(r) \/ CommitPatch(r) \/ InsertFollowUp(r) \/ Cascade(r))
      PROVE  UNCHANGED <<task, granted>>
  BY <1>5, Begins DEF Step, Fails, GoesOn, Begin, LockKeys, ReadKey, ReadDone, WriteRow,
     FollowUp, AssigneesBlock, ClearAssignees, InsertAssignees, CascadeBlocks, LockPositions,
     ReadPosition, InsertSubtask, TouchTask, DeleteRow, data
<1> QED BY <1>1, <1>2, <1>3, <1>4, <1>5, Steps DEF vars

-----------------------------------------------------------------------------
(* Inv is inductive. *)
THEOREM InvHolds == Spec => []Inv
<1>1. Inv /\ [Next]_vars => Inv'
  <2> SUFFICES ASSUME Inv, [Next]_vars PROVE Inv'
    OBVIOUS
  <2>1. TypeOK' /\ Kinds' /\ LocksHeld' /\ LocksOwned'
    BY TypeStep, KindsStep, LocksStep, OwnersStep DEF Inv
  <2>2. RowsKept' /\ Shared' /\ Behind'
    BY RowsKeptStep, SharedStep, BehindStep DEF Inv
  <2>3. KeysAndSubs' /\ KeysNeverCollide' /\ PositionsNeverCollide'
    BY KeysStep, PositionsStep DEF Inv
  <2>4. NothingWithoutTask' /\ MarkersNeverMultiply'
    BY NothingStep, MarkersStep DEF Inv
  <2> QED BY <2>1, <2>2, <2>3, <2>4 DEF Inv
<1> QED BY InitInv, <1>1, PTL DEF Spec

(* Every variable keeps its type. *)
THEOREM TasksTypeOK == Spec => []TypeOK
<1>1. Inv => TypeOK
  BY DEF Inv
<1> QED BY <1>1, InvHolds, PTL

(* tasks.rs:335: creates and follow-ups never insert a key the project has. *)
THEOREM KeysUnique == Spec => []KeysNeverCollide
<1>1. Inv => KeysNeverCollide
  BY DEF Inv
<1> QED BY <1>1, InvHolds, PTL

(* subtasks.rs:14: concurrent creates never take a position twice. *)
THEOREM PositionsUnique == Spec => []PositionsNeverCollide
<1>1. Inv => PositionsNeverCollide
  BY DEF Inv
<1> QED BY <1>1, InvHolds, PTL

(* recurrence.rs: follow-ups carry recurrences on and never multiply them, *)
(* whatever completes twice or is dropped.                                  *)
THEOREM MarkersCarriedOn == Spec => []MarkersNeverMultiply
<1>1. Inv => MarkersNeverMultiply
  BY DEF Inv
<1> QED BY <1>1, InvHolds, PTL

(* tasks.rs: the cascade of a deletion leaves no subtask, nor does a subtask *)
(* that is created or edited meanwhile.                                       *)
THEOREM NoOrphans == Spec => []NothingWithoutTask
<1>1. Inv => NothingWithoutTask
  BY DEF Inv
<1> QED BY <1>1, InvHolds, PTL

(* Every wait leads, without a deletion and two requests that replace the        *)
(* assignees of one task, to a request that waits for none: from a subtask row or  *)
(* a position lock to a task row, from there to the key lock, and its holder only *)
(* inserts and commits.                                                            *)
LEMMA NoCycle == Inv => DeadlocksNeedRewrite
<1> SUFFICES ASSUME Inv, NEW C \in SUBSET Requests, C # {}, Cycle(C),
                    \A r \in C : op[r].kind # "delete",
                    \A r, q \in C : Replaces(op[r]) /\ Replaces(op[q]) /\ op[r].task = op[q].task
                                     => r = q
             PROVE  FALSE
  BY DEF DeadlocksNeedRewrite
<1>k. \A r \in C : KindOf(pc[r], op[r]) /\ (op[r].kind \notin {"none", "create"} =>
                                              op[r].task \in TaskIds)
  BY OpFields DEF Inv, Kinds
<1>c. \A p \in C : \E q \in C : WaitsFor(p, q)
  BY DEF Cycle
<1>o. \A q \in C :
        /\ keyLock = q => pc[q] \in {"read_key", "insert", "insert_follow_up"}
        /\ \A t \in TaskIds :
            /\ posLock[t] = q => /\ op[q].kind = "add_subtask"
                                 /\ pc[q] \in {"read_position", "insert_subtask", "touch"}
            /\ writer[t] = q => Holds(q)
  BY DEF Inv, LocksOwned
<1>b. \A p, q \in C : behind[p] # q
  <2> SUFFICES ASSUME NEW p \in C, NEW q \in C, behind[p] = q PROVE FALSE
    OBVIOUS
  <2>1. q # Free
    BY TasksAssumption
  <2>2. /\ pc[p] \in {"replace", "replaced", "cascade"} /\ q # p
        /\ Replaces(op[q]) /\ op[q].task = op[p].task
    BY <2>1 DEF Inv, Behind
  <2>3. Replaces(op[p])
    BY <1>k, <2>2 DEF KindOf
  <2> QED BY <2>2, <2>3
<1>r. \A p \in C : pc[p] \notin {"replace", "replaced"}
  BY <1>b, <1>c, <1>k DEF WaitsFor, Deleting, KindOf
<1>1. \A p \in C : pc[p] # "key_lock"
  BY <1>b, <1>c, <1>o DEF WaitsFor
<1>2. \A p \in C : pc[p] \notin {"write", "touch"}
  <2> SUFFICES ASSUME NEW p \in C, pc[p] \in {"write", "touch"} PROVE FALSE
    OBVIOUS
  <2>1. PICK q \in C : WaitsFor(p, q)
    BY <1>c
  <2>2. op[p].task \in TaskIds /\ writer[op[p].task] = q
    BY <1>b, <1>k, <2>1 DEF WaitsFor, KindOf
  <2>3. Holds(q) /\ pc[q] # "key_lock" /\ KindOf(pc[q], op[q])
    BY <1>k, <1>o, <1>1, <2>2
  <2>4. pc[q] \in {"written", "insert_follow_up", "read_key"}
    BY <1>r, <2>3 DEF Holds, KindOf
  <2>5. \E x \in C : WaitsFor(q, x)
    BY <1>c
  <2> QED BY <1>b, <2>4, <2>5 DEF WaitsFor
<1>3. \A p \in C : pc[p] \notin {"insert_subtask", "write_subtask", "delete", "cascade"}
  <2>1. \A q \in C, t \in TaskIds : ~Deleting(q, t)
    BY <1>k DEF Deleting, KindOf
  <2>2. \A q \in C : \A t, n : ~HoldsSubtask(q, t, n)
    BY <1>2 DEF HoldsSubtask
  <2> QED BY <1>b, <1>c, <1>k, <2>1, <2>2 DEF WaitsFor, KindOf
<1>4. \A p \in C : pc[p] # "position_lock"
  <2> SUFFICES ASSUME NEW p \in C, pc[p] = "position_lock" PROVE FALSE
    OBVIOUS
  <2>1. PICK q \in C : WaitsFor(p, q)
    BY <1>c
  <2>2. op[p].task \in TaskIds /\ posLock[op[p].task] = q
    BY <1>b, <1>k, <2>1 DEF WaitsFor, KindOf
  <2>3. pc[q] = "read_position"
    BY <1>2, <1>3, <1>o, <2>2
  <2> QED BY <1>b, <1>c, <2>3 DEF WaitsFor
<1> QED BY <1>b, <1>c, <1>r, <1>1, <1>2, <1>3, <1>4 DEF WaitsFor

(* tasks.rs, access.rs, recurrence.rs, subtasks.rs: requests take their locks in  *)
(* one order, except the cascade of a deletion and replace_assignees: a deadlock  *)
(* has a deletion in it or two PATCHes that replace the assignees of one task.    *)
THEOREM DeadlocksRewrite == Spec => []DeadlocksNeedRewrite
BY InvHolds, NoCycle, PTL

-----------------------------------------------------------------------------
(* The dates of tasks: the calendar of the server *)

Months == 1..12

(* The length of February counted from 28. *)
LeapDay(y) == MonthLength(y, 2) - 28

IsLeap(y) == (y % 4 = 0 /\ y % 100 # 0) \/ y % 400 = 0

(* The years follow one another, leap years by the three rules. *)
LEMMA LeapDays ==
    ASSUME NEW y \in Int
    PROVE  /\ YearStart(y) \in Int
           /\ LeapDay(y) = IF IsLeap(y) THEN 1 ELSE 0
           /\ YearStart(y + 1) = YearStart(y) + 365 + LeapDay(y)
<1>1. YearStart(y) \in Int /\ YearStart(y + 1) \in Int
  BY DEF YearStart, LeapYearsBefore
<1>2. YearStart(y + 1) - YearStart(y) =
        IF IsLeap(y) THEN 366 ELSE 365
  BY DEF YearStart, LeapYearsBefore, IsLeap
<1>3. LeapDay(y) = YearStart(y + 1) - YearStart(y) - 365
  BY <1>1 DEF LeapDay, MonthLength
<1> QED BY <1>1, <1>2, <1>3

(* Server and client agree on the length of a month. *)
LEMMA MonthLengths ==
    ASSUME NEW y \in Int, NEW m \in Months
    PROVE  /\ DaysInMonth(y, m) = MonthLength(y, m)
           /\ MonthLength(y, m) =
                IF m = 2 THEN 28 + LeapDay(y) ELSE IF m \in {4, 6, 9, 11} THEN 30 ELSE 31
           /\ LeapDay(y) \in 0..1
<1>1. LeapDay(y) = IF IsLeap(y) THEN 1 ELSE 0
  BY LeapDays
<1>2. m = 2 => MonthLength(y, m) = 28 + LeapDay(y)
  <2>1. MonthLength(y, 2) = 28 + LeapDay(y)
    <3>1. MonthLength(y, 2) \in Int
      BY LeapDays DEF MonthLength
    <3> QED BY <3>1 DEF LeapDay
  <2> QED BY <2>1
<1>3. m # 2 => MonthLength(y, m) = IF m \in {4, 6, 9, 11} THEN 30 ELSE 31
  BY DEF MonthLength
<1>4. m # 2 => DaysInMonth(y, m) = IF m \in {4, 6, 9, 11} THEN 30 ELSE 31
  BY DEF DaysInMonth
<1>5. m = 2 => DaysInMonth(y, m) = IF IsLeap(y) THEN 29 ELSE 28
  BY DEF DaysInMonth, IsLeap
<1> HIDE DEF Months
<1> QED BY <1>1, <1>2, <1>3, <1>4, <1>5

(* The days before a month, by the client's formula for the months from March on. *)
DaysBefore(m) == IF m <= 2 THEN 31 * (m - 1) ELSE 59 + (153 * (m - 3) + 2) \div 5

(* Where the months of a year begin. *)
LEMMA MonthStarts ==
    ASSUME NEW y \in Int, NEW m \in Months
    PROVE  MonthStart(y, m) = YearStart(y) + (IF m > 2 THEN LeapDay(y) ELSE 0) + DaysBefore(m)
<1> DEFINE days == <<0, 31, 59, 90, 120, 151, 181, 212, 243, 273, 304, 334>>
<1>1. /\ days[1] = 0 /\ days[2] = 31 /\ days[3] = 59 /\ days[4] = 90
      /\ days[5] = 120 /\ days[6] = 151 /\ days[7] = 181 /\ days[8] = 212
      /\ days[9] = 243 /\ days[10] = 273 /\ days[11] = 304 /\ days[12] = 334
  OBVIOUS
<1>2. MonthStart(y, m) = YearStart(y) + (IF m > 2 THEN LeapDay(y) ELSE 0) + days[m]
  BY Zenon DEF MonthStart, LeapDay
<1> HIDE DEF days
<1>3. days[m] = DaysBefore(m)
  <2>1. m \in {1, 2, 3, 4, 5, 6, 7, 8, 9, 10, 11, 12}
    BY DEF Months
  <2> QED BY <1>1, <2>1 DEF DaysBefore
<1> QED BY <1>2, <1>3

(* The months of a year fill it, one after another. *)
LEMMA MonthsFollow ==
    ASSUME NEW y \in Int, NEW m \in Months
    PROVE  /\ MonthStart(y, m) \in Int /\ MonthLength(y, m) \in 28..31
           /\ m < 12 => MonthStart(y, m + 1) = MonthStart(y, m) + MonthLength(y, m)
           /\ m = 12 => YearStart(y + 1) = MonthStart(y, m) + MonthLength(y, m)
           /\ m = 1 => MonthStart(y, m) = YearStart(y)
           /\ YearStart(y) <= MonthStart(y, m)
           /\ MonthStart(y, m) + MonthLength(y, m) <= YearStart(y + 1)
<1>1. /\ YearStart(y) \in Int /\ LeapDay(y) \in 0..1
      /\ YearStart(y + 1) = YearStart(y) + 365 + LeapDay(y)
      /\ MonthLength(y, m) =
           IF m = 2 THEN 28 + LeapDay(y) ELSE IF m \in {4, 6, 9, 11} THEN 30 ELSE 31
  BY LeapDays, MonthLengths
<1>2. MonthStart(y, m) = YearStart(y) + (IF m > 2 THEN LeapDay(y) ELSE 0) + DaysBefore(m)
  BY MonthStarts
<1>3. m < 12 => MonthStart(y, m + 1) =
        YearStart(y) + (IF m + 1 > 2 THEN LeapDay(y) ELSE 0) + DaysBefore(m + 1)
  BY MonthStarts DEF Months
<1>4. /\ DaysBefore(m) \in Nat
      /\ m < 12 => DaysBefore(m + 1) = DaysBefore(m)
                     + IF m = 2 THEN 28 ELSE IF m \in {4, 6, 9, 11} THEN 30 ELSE 31
      /\ m = 12 => DaysBefore(m) = 334
      /\ m = 1 => DaysBefore(m) = 0
      /\ DaysBefore(m) + (IF m = 2 THEN 28 ELSE IF m \in {4, 6, 9, 11} THEN 30 ELSE 31) <= 365
  BY DEF DaysBefore, Months
<1> DEFINE long == MonthLength(y, m)
           first == MonthStart(y, m)
           next == MonthStart(y, m + 1)
           before == DaysBefore(m)
           after == DaysBefore(m + 1)
           leap == LeapDay(y)
           year == YearStart(y)
           following == YearStart(y + 1)
<1>5. m \in Int /\ m >= 1 /\ m <= 12
  BY DEF Months
<1> HIDE DEF long, first, next, before, after, leap, year, following
<1> SUFFICES /\ first \in Int /\ long \in 28..31
             /\ m < 12 => next = first + long
             /\ m = 12 => following = first + long
             /\ m = 1 => first = year
             /\ year <= first
             /\ first + long <= following
  BY DEF long, first, next, before, after, leap, year, following
<1> QED BY <1>1, <1>2, <1>3, <1>4, <1>5 DEF long, first, next, before, after, leap, year, following

(* The years follow one another. *)
LEMMA YearsGrow ==
    ASSUME NEW y \in Int, NEW z \in Int, y < z
    PROVE  YearStart(y + 1) <= YearStart(z)
<1>1. LeapYearsBefore(y + 1) <= LeapYearsBefore(z)
  <2> DEFINE a == y
             b == z - 1
  <2>1. a \div 4 - a \div 100 <= b \div 4 - b \div 100
    OBVIOUS
  <2>2. a \div 400 <= b \div 400
    OBVIOUS
  <2> QED BY <2>1, <2>2 DEF LeapYearsBefore
<1> QED BY <1>1 DEF YearStart, LeapYearsBefore

(* Every day is in one year, near the one a year of 365 or 366 days gives. *)
LEMMA YearOfDay ==
    ASSUME NEW n \in Int
    PROVE  \E y \in YearsNear(n) : y \in Int /\ YearStart(y) <= n /\ n < YearStart(y + 1)
<1> DEFINE k == 1970 + (400 * n) \div 146097
<1>1. k \in Int
  OBVIOUS
<1>2. YearStart(k - 1) <= n
  BY DEF YearStart, LeapYearsBefore
<1>3. n < YearStart(k + 2)
  BY DEF YearStart, LeapYearsBefore
<1> HIDE DEF k
<1>4. YearStart(k) \in Int /\ YearStart(k + 1) \in Int /\ YearStart(k - 1) \in Int
  BY <1>1, LeapDays
<1>5. PICK y \in Int : YearStart(y) <= n /\ n < YearStart(y + 1)
  <2>1. (k - 1) + 1 = k /\ (k + 1) + 1 = k + 2
    BY <1>1
  <2>2. CASE n < YearStart(k)
    BY <1>1, <1>2, <2>1, <2>2
  <2>3. CASE YearStart(k) <= n /\ n < YearStart(k + 1)
    BY <1>1, <2>3
  <2>4. CASE YearStart(k + 1) <= n
    BY <1>1, <1>3, <2>1, <2>4
  <2> QED BY <1>4, <2>2, <2>3, <2>4
<1>6. y \in YearsNear(n)
  <2>1. CASE y >= 1970
    <3>1. 365 * (y - 1970) <= YearStart(y)
      BY <2>1 DEF YearStart, LeapYearsBefore
    <3>2. YearStart(y + 1) <= 366 * (y + 1 - 1970)
      BY <2>1 DEF YearStart, LeapYearsBefore
    <3>3. n < 366 * (y + 1 - 1970) /\ 365 * (y - 1970) <= n
      BY <1>5, <3>1, <3>2, LeapDays
    <3> QED BY <3>3 DEF YearsNear
  <2>2. CASE y < 1970
    <3>1. 366 * (y - 1970) <= YearStart(y)
      BY <2>2 DEF YearStart, LeapYearsBefore
    <3>2. YearStart(y + 1) <= 365 * (y + 1 - 1970)
      BY <2>2 DEF YearStart, LeapYearsBefore
    <3>3. n < 365 * (y + 1 - 1970) /\ 366 * (y - 1970) <= n
      BY <1>5, <3>1, <3>2, LeapDays
    <3> QED BY <3>3 DEF YearsNear
  <2> QED BY <2>1, <2>2
<1> QED BY <1>5, <1>6

(* A day of the calendar, of any year. *)
IsDate(date) ==
    \E y \in Int, m \in Months : \E d \in 1..MonthLength(y, m) : date = <<y, m, d>>

(* One whose ISO string the client can read. *)
Spelled(date) == IsDate(date) /\ date[1] >= 0

(* Day n of the calendar is the d-th of month m of year y. *)
IsDay(n, y, m, d) ==
    /\ y \in Int /\ m \in Months /\ d \in 1..MonthLength(y, m)
    /\ n = MonthStart(y, m) + d - 1

(* A day is in one year only. *)
LEMMA OneYear ==
    ASSUME NEW n \in Int, NEW y \in Int, NEW z \in Int,
           YearStart(y) <= n, n < YearStart(y + 1), YearStart(z) <= n, n < YearStart(z + 1)
    PROVE  y = z
<1>1. YearStart(y) \in Int /\ YearStart(z) \in Int
      /\ YearStart(y + 1) \in Int /\ YearStart(z + 1) \in Int
  BY LeapDays
<1>2. ~(y < z)
  <2> SUFFICES ASSUME y < z PROVE FALSE
    OBVIOUS
  <2>1. YearStart(y + 1) <= YearStart(z)
    BY YearsGrow
  <2> QED BY <1>1, <2>1
<1>3. ~(z < y)
  <2> SUFFICES ASSUME z < y PROVE FALSE
    OBVIOUS
  <2>1. YearStart(z + 1) <= YearStart(y)
    BY YearsGrow
  <2> QED BY <1>1, <2>1
<1> QED BY <1>2, <1>3

(* The months of a year do not overlap. *)
LEMMA MonthsGrow ==
    ASSUME NEW y \in Int, NEW m \in Months, NEW k \in Months, m < k
    PROVE  MonthStart(y, m) + MonthLength(y, m) <= MonthStart(y, k)
<1> DEFINE D == {j \in Nat : j \in Months /\ m < j
                             /\ ~(MonthStart(y, m) + MonthLength(y, m) <= MonthStart(y, j))}
<1> SUFFICES ASSUME D # {} PROVE FALSE
  BY DEF Months
<1>1. PICK j \in D : \A i \in D : j <= i
  <2>1. D \subseteq Nat
    OBVIOUS
  <2> HIDE DEF D
  <2> QED BY <2>1, LeastNumber
<1>2. j \in Months /\ m < j
  OBVIOUS
<1>3. /\ MonthStart(y, m) \in Int /\ MonthLength(y, m) \in 28..31
      /\ MonthStart(y, m + 1) = MonthStart(y, m) + MonthLength(y, m)
  <2>1. m < 12
    BY <1>2 DEF Months
  <2> QED BY <2>1, MonthsFollow
<1>4. j # m + 1
  <2> SUFFICES ASSUME j = m + 1 PROVE FALSE
    OBVIOUS
  <2> DEFINE first == MonthStart(y, m) + MonthLength(y, m)
  <2>1. first \in Int
    BY <1>3
  <2> HIDE DEF first
  <2>2. MonthStart(y, j) = first
    BY <1>3 DEF first
  <2>3. ~(first <= MonthStart(y, j))
    BY <1>1 DEF first
  <2> QED BY <2>1, <2>2, <2>3
<1>5. j - 1 \in Months /\ m < j - 1 /\ j - 1 \in Nat
  BY <1>2, <1>4 DEF Months
<1>6. j - 1 \notin D
  BY <1>1, <1>5
<1>7. MonthStart(y, m) + MonthLength(y, m) <= MonthStart(y, j - 1)
  BY <1>5, <1>6
<1>8. /\ MonthStart(y, j - 1) \in Int /\ MonthLength(y, j - 1) \in 28..31
      /\ MonthStart(y, (j - 1) + 1) = MonthStart(y, j - 1) + MonthLength(y, j - 1)
  <2>1. j - 1 < 12
    BY <1>5 DEF Months
  <2> QED BY <1>5, <2>1, MonthsFollow
<1>9. (j - 1) + 1 = j
  BY <1>5
<1>10. ~(MonthStart(y, m) + MonthLength(y, m) <= MonthStart(y, j))
  BY <1>1
<1> HIDE DEF D
<1> QED BY <1>3, <1>7, <1>8, <1>9, <1>10

(* Every day of a year is in one of its months. *)
LEMMA MonthOfDay ==
    ASSUME NEW n \in Int, NEW y \in Int, YearStart(y) <= n, n < YearStart(y + 1)
    PROVE  \E m \in Months : MonthStart(y, m) <= n /\ n < MonthStart(y, m) + MonthLength(y, m)
<1> DEFINE D == {j \in Nat : j \in Months /\ n < MonthStart(y, j) + MonthLength(y, j)}
<1>1. 12 \in D
  <2>1. 12 \in Months
    BY DEF Months
  <2>2. YearStart(y + 1) = MonthStart(y, 12) + MonthLength(y, 12)
    BY <2>1, MonthsFollow
  <2> QED BY <2>1, <2>2
<1>2. PICK j \in D : \A i \in D : j <= i
  <2>1. D \subseteq Nat
    OBVIOUS
  <2> HIDE DEF D
  <2> QED BY <1>1, <2>1, LeastNumber
<1>3. j \in Months /\ n < MonthStart(y, j) + MonthLength(y, j)
  OBVIOUS
<1>4. MonthStart(y, j) \in Int /\ (j = 1 => MonthStart(y, j) = YearStart(y))
  BY <1>3, MonthsFollow
<1>5. MonthStart(y, j) <= n
  <2>1. CASE j = 1
    BY <1>4, <2>1
  <2>2. CASE j # 1
    <3>1. j - 1 \in Months /\ j - 1 \in Nat /\ j - 1 < 12 /\ (j - 1) + 1 = j /\ ~(j <= j - 1)
      BY <1>3, <2>2 DEF Months
    <3>2. ~(n < MonthStart(y, j - 1) + MonthLength(y, j - 1))
      BY <1>2, <3>1
    <3>3. /\ MonthStart(y, j) = MonthStart(y, j - 1) + MonthLength(y, j - 1)
          /\ MonthStart(y, j - 1) \in Int /\ MonthLength(y, j - 1) \in 28..31
      BY <3>1, MonthsFollow
    <3> HIDE DEF D
    <3> QED BY <3>2, <3>3, <1>4
  <2> QED BY <2>1, <2>2
<1> HIDE DEF D
<1> QED BY <1>3, <1>5

(* A day is in one month of its year only. *)
LEMMA OneMonth ==
    ASSUME NEW n \in Int, NEW y \in Int, NEW m \in Months, NEW k \in Months,
           MonthStart(y, m) <= n, n < MonthStart(y, m) + MonthLength(y, m),
           MonthStart(y, k) <= n, n < MonthStart(y, k) + MonthLength(y, k)
    PROVE  m = k
<1>1. /\ MonthStart(y, m) \in Int /\ MonthStart(y, k) \in Int
      /\ MonthLength(y, m) \in Int /\ MonthLength(y, k) \in Int
  BY MonthsFollow
<1>2. ~(m < k)
  <2> SUFFICES ASSUME m < k PROVE FALSE
    OBVIOUS
  <2>1. MonthStart(y, m) + MonthLength(y, m) <= MonthStart(y, k)
    BY MonthsGrow
  <2> QED BY <1>1, <2>1
<1>3. ~(k < m)
  <2> SUFFICES ASSUME k < m PROVE FALSE
    OBVIOUS
  <2>1. MonthStart(y, k) + MonthLength(y, k) <= MonthStart(y, m)
    BY MonthsGrow
  <2> QED BY <1>1, <2>1
<1> QED BY <1>2, <1>3 DEF Months

(* A day of a month lies in its year. *)
LEMMA DayInYear ==
    ASSUME NEW n, NEW y, NEW m, NEW d, IsDay(n, y, m, d)
    PROVE  /\ n \in Int /\ YearStart(y) <= n /\ n < YearStart(y + 1)
           /\ MonthStart(y, m) <= n /\ n < MonthStart(y, m) + MonthLength(y, m)
           /\ d \in Int /\ MonthStart(y, m) \in Int
<1>1. y \in Int /\ m \in Months /\ d \in 1..MonthLength(y, m)
      /\ n = MonthStart(y, m) + d - 1
  BY DEF IsDay
<1>2. /\ YearStart(y) \in Int /\ YearStart(y + 1) \in Int
      /\ MonthStart(y, m) \in Int /\ MonthLength(y, m) \in 28..31
      /\ YearStart(y) <= MonthStart(y, m)
      /\ MonthStart(y, m) + MonthLength(y, m) <= YearStart(y + 1)
  BY <1>1, LeapDays, MonthsFollow
<1> QED BY <1>1, <1>2

(* The date of a day is the one with that day. *)
LEMMA DateIs ==
    ASSUME NEW n, NEW y, NEW m, NEW d, IsDay(n, y, m, d)
    PROVE  DateOf(n) = <<y, m, d>>
<1>1. /\ n \in Int /\ YearStart(y) <= n /\ n < YearStart(y + 1)
      /\ MonthStart(y, m) <= n /\ n < MonthStart(y, m) + MonthLength(y, m)
      /\ d \in Int /\ MonthStart(y, m) \in Int
  BY DayInYear
<1>2. y \in Int /\ m \in Months /\ d \in 1..MonthLength(y, m)
      /\ n = MonthStart(y, m) + d - 1
  BY DEF IsDay
<1> DEFINE year == CHOOSE k \in YearsNear(n) : YearStart(k) <= n /\ n < YearStart(k + 1)
           month == CHOOSE k \in Months :
                       MonthStart(y, k) <= n /\ n < MonthStart(y, k) + MonthLength(y, k)
<1>3. year = y
  <2>1. year \in YearsNear(n) /\ YearStart(year) <= n /\ n < YearStart(year + 1)
    <3>1. \E k \in YearsNear(n) : YearStart(k) <= n /\ n < YearStart(k + 1)
      BY <1>1, YearOfDay
    <3> QED BY <3>1
  <2> HIDE DEF year
  <2>2. year \in Int
    BY <1>1, <2>1 DEF YearsNear
  <2> QED BY <1>1, <1>2, <2>1, <2>2, OneYear
<1>4. month = m
  <2>1. month \in Months /\ MonthStart(y, month) <= n
        /\ n < MonthStart(y, month) + MonthLength(y, month)
    BY <1>1, <1>2
  <2> HIDE DEF month
  <2> QED BY <1>1, <1>2, <2>1, OneMonth
<1>5. n - MonthStart(y, m) + 1 = d
  BY <1>1, <1>2
<1>6. DateOf(n) = <<y, m, n - MonthStart(y, m) + 1>>
  <2>1. DateOf(n) = LET k == CHOOSE k \in Months :
                          MonthStart(year, k) <= n /\ n < MonthStart(year, k) + MonthLength(year, k)
                    IN <<year, k, n - MonthStart(year, k) + 1>>
    BY Zenon DEF DateOf, Months
  <2> HIDE DEF year
  <2>2. DateOf(n) = <<y, month, n - MonthStart(y, month) + 1>>
    BY <1>3, <2>1, Zenon
  <2> HIDE DEF month
  <2> QED BY <1>4, <2>2
<1> QED BY <1>5, <1>6

(* Every day has a date. *)
LEMMA DayExists ==
    ASSUME NEW n \in Int
    PROVE  \E y, m, d : IsDay(n, y, m, d)
<1>1. PICK y \in Int : YearStart(y) <= n /\ n < YearStart(y + 1)
  BY YearOfDay
<1>2. PICK m \in Months : MonthStart(y, m) <= n /\ n < MonthStart(y, m) + MonthLength(y, m)
  BY <1>1, MonthOfDay
<1> DEFINE d == n - MonthStart(y, m) + 1
<1>3. MonthStart(y, m) \in Int /\ MonthLength(y, m) \in Int
  BY MonthsFollow
<1>4. d \in 1..MonthLength(y, m) /\ n = MonthStart(y, m) + d - 1
  BY <1>2, <1>3
<1> HIDE DEF d
<1>5. IsDay(n, y, m, d)
  BY <1>4 DEF IsDay
<1> QED BY <1>5

(* Days and dates are the same, both ways. *)
LEMMA DatesAreDays ==
    /\ \A n \in Int : IsDate(DateOf(n)) /\ DayNumber(DateOf(n)) = n
    /\ \A date : IsDate(date) => DayNumber(date) \in Int /\ DateOf(DayNumber(date)) = date
<1>1. ASSUME NEW n \in Int PROVE IsDate(DateOf(n)) /\ DayNumber(DateOf(n)) = n
  <2>1. PICK y, m, d : IsDay(n, y, m, d)
    BY DayExists
  <2>2. DateOf(n) = <<y, m, d>>
    BY <2>1, DateIs
  <2>3. y \in Int /\ m \in Months /\ d \in 1..MonthLength(y, m)
        /\ n = MonthStart(y, m) + d - 1
    BY <2>1 DEF IsDay
  <2>4. DayNumber(<<y, m, d>>) = MonthStart(y, m) + d - 1
    BY DEF DayNumber
  <2> QED BY <2>2, <2>3, <2>4 DEF IsDate
<1>2. ASSUME NEW date, IsDate(date)
      PROVE  DayNumber(date) \in Int /\ DateOf(DayNumber(date)) = date
  <2>1. PICK y \in Int, m \in Months : \E d \in 1..MonthLength(y, m) : date = <<y, m, d>>
    BY <1>2 DEF IsDate
  <2>2. PICK d \in 1..MonthLength(y, m) : date = <<y, m, d>>
    BY <2>1
  <2> DEFINE n == DayNumber(date)
  <2>3. n = MonthStart(y, m) + d - 1
    BY <2>2 DEF DayNumber
  <2> HIDE DEF n
  <2>4. IsDay(n, y, m, d)
    BY <2>3 DEF IsDay
  <2>5. n \in Int /\ DateOf(n) = date
    BY <2>2, <2>4, DateIs, DayInYear
  <2> QED BY <2>5 DEF n
<1> QED BY <1>1, <1>2

-----------------------------------------------------------------------------
(* The client's arithmetic *)

(* The eras are those of a division that rounds down. *)
LEMMA Eras ==
    ASSUME NEW a \in Int
    PROVE  Era(a, 400) = a \div 400 /\ Era(a, 146097) = a \div 146097
<1>1. CASE a >= 0
  BY <1>1 DEF Era, Quotient
<1>2. CASE ~(a >= 0)
  <2>1. /\ -((-(a - 399)) \div 400) = a \div 400
        /\ -((-(a - 146096)) \div 146097) = a \div 146097
    BY <1>2
  <2>2. /\ Era(a, 400) = -((-(a - 399)) \div 400)
        /\ Era(a, 146097) = -((-(a - 146096)) \div 146097)
    BY <1>2 DEF Era, Quotient
  <2> QED BY <2>1, <2>2
<1> QED BY <1>1, <1>2

(* The year that begins in March, and the days of it before a day. *)
MarchYear(y, m) == y - (IF m <= 2 THEN 1 ELSE 0)
MarchDays(m, d) == (153 * ((m + 9) % 12) + 2) \div 5 + d - 1

(* The day a March year begins. *)
MarchStart(a) == 365 * a + a \div 4 - a \div 100 + a \div 400 - 719468

(* The client's count, without its eras. *)
LEMMA CountSimple ==
    ASSUME NEW y \in Int, NEW m \in Months, NEW d \in Int
    PROVE  DaysFromCivil(<<y, m, d>>) = MarchStart(MarchYear(y, m)) + MarchDays(m, d)
<1>1. PICK a \in Int : a = MarchYear(y, m)
  BY DEF MarchYear, Months
<1>2. PICK days \in Int : days = MarchDays(m, d)
  BY DEF MarchDays, Months
<1>3. PICK era \in Int : era = a \div 400
  BY <1>1
<1>4. PICK q \in Int : q = a - era * 400
  BY <1>1, <1>3
<1>5. Era(a, 400) = era
  BY <1>1, <1>3, Eras
<1>6. DaysFromCivil(<<y, m, d>>) =
        era * 146097 + (q * 365 + q \div 4 - q \div 100 + days) - 719468
  <2>1. days = (153 * ((m + 9) % 12) + 2) \div 5 + d - 1
    BY <1>2 DEF MarchDays
  <2>2. a = y - (IF m <= 2 THEN 1 ELSE 0)
    BY <1>1 DEF MarchYear
  <2> DEFINE Count(e) == e * 146097 + ((a - e * 400) * 365 + (a - e * 400) \div 4
                                         - (a - e * 400) \div 100 + days) - 719468
  <2>3. DaysFromCivil(<<y, m, d>>) = Count(Era(a, 400))
    BY <2>1, <2>2 DEF DaysFromCivil
  <2>4. Count(era) = era * 146097 + (q * 365 + q \div 4 - q \div 100 + days) - 719468
    BY <1>4
  <2> HIDE DEF Count
  <2> QED BY <1>5, <2>3, <2>4
<1>7. era * 146097 + (q * 365 + q \div 4 - q \div 100) - 719468 = MarchStart(a)
  BY <1>3, <1>4 DEF MarchStart
<1>8. MarchStart(a) = DaysFromCivil(<<y, m, d>>) - days
  BY <1>6, <1>7
<1>9. DaysFromCivil(<<y, m, d>>) \in Int
  BY <1>6
<1>10. DaysFromCivil(<<y, m, d>>) = MarchStart(a) + days
  BY <1>8, <1>9
<1> QED BY <1>1, <1>2, <1>10

(* The client's count of days is the server's. *)
LEMMA CountsAgree ==
    ASSUME NEW y \in Int, NEW m \in Months, NEW d \in Int
    PROVE  DaysFromCivil(<<y, m, d>>) = DayNumber(<<y, m, d>>)
<1>1. DayNumber(<<y, m, d>>) = MonthStart(y, m) + d - 1
  BY DEF DayNumber
<1>2. MonthStart(y, m) = YearStart(y) + (IF m > 2 THEN LeapDay(y) ELSE 0) + DaysBefore(m)
  BY MonthStarts
<1>3. MarchStart(y - 1) = YearStart(y) - 306 /\ MarchStart(y) = YearStart(y + 1) - 306
  BY DEF MarchStart, YearStart, LeapYearsBefore
<1>4. YearStart(y + 1) = YearStart(y) + 365 + LeapDay(y) /\ YearStart(y) \in Int
      /\ LeapDay(y) \in Int
  BY LeapDays, MonthLengths
<1>5. MarchDays(m, d) = DaysBefore(m) + d - 1 + (IF m <= 2 THEN 306 ELSE -59)
  BY DEF MarchDays, DaysBefore, Months
<1>6. MarchYear(y, m) = IF m <= 2 THEN y - 1 ELSE y
  BY DEF MarchYear, Months
<1>7. DaysBefore(m) \in Int /\ m \in Int
  BY DEF DaysBefore, Months
<1>8. DaysFromCivil(<<y, m, d>>) = MarchStart(MarchYear(y, m)) + MarchDays(m, d)
  BY CountSimple
<1> DEFINE year == YearStart(y)
           before == DaysBefore(m)
           leap == LeapDay(y)
<1>9. CASE m <= 2
  <2>1. MarchStart(MarchYear(y, m)) = year - 306
    BY <1>3, <1>6, <1>9
  <2>2. MarchDays(m, d) = before + d - 1 + 306
    BY <1>5, <1>9
  <2>3. MonthStart(y, m) = year + 0 + before
    BY <1>2, <1>7, <1>9
  <2> HIDE DEF year, before
  <2>4. year \in Int /\ before \in Int
    BY <1>4, <1>7 DEF year, before
  <2> QED BY <1>1, <1>8, <2>1, <2>2, <2>3, <2>4
<1>10. CASE m > 2
  <2>1. MarchStart(MarchYear(y, m)) = year + 365 + leap - 306
    <3>1. MarchYear(y, m) = y
      BY <1>6, <1>7, <1>10
    <3> QED BY <1>3, <1>4, <3>1
  <2>2. MarchDays(m, d) = before + d - 1 - 59
    <3>1. ~(m <= 2)
      BY <1>7, <1>10
    <3> QED BY <1>5, <1>7, <3>1
  <2>3. MonthStart(y, m) = year + leap + before
    BY <1>2, <1>10
  <2> HIDE DEF year, before, leap
  <2>4. year \in Int /\ before \in Int /\ leap \in Int
    BY <1>4, <1>7 DEF year, before, leap
  <2> QED BY <1>1, <1>8, <2>1, <2>2, <2>3, <2>4
<1> QED BY <1>7, <1>9, <1>10

(* The client's year of a day of an era. *)
EraYear(doe) == (doe - doe \div 1460 + doe \div 36524 - doe \div 146096) \div 365

(* A day of an era, by the centuries, the leap years and the years before it: the *)
(* last day of a year is its 366th only in the fourth of four years, and in the    *)
(* last of a century only in the fourth century.                                   *)
InEra(c, k, r, days, doe) ==
    /\ c \in Int /\ k \in Int /\ r \in Int /\ days \in Int /\ doe \in Int
    /\ 0 <= c /\ c <= 3 /\ 0 <= k /\ k <= 24 /\ 0 <= r /\ r <= 3
    /\ 0 <= days /\ days <= 365
    /\ days = 365 => r = 3 /\ (k = 24 => c = 3)
    /\ doe = 36524 * c + 1461 * k + 365 * r + days

(* The client finds the year of such a day. *)
LEMMA DayOfEra ==
    ASSUME NEW c, NEW k, NEW r, NEW days, NEW doe, InEra(c, k, r, days, doe)
    PROVE  0 <= doe /\ doe <= 146096 /\ EraYear(doe) = 100 * c + 4 * k + r
<1> USE DEF InEra
<1>1. 0 <= doe /\ doe <= 146096
  OBVIOUS
<1>2. EraYear(doe) = 100 * c + 4 * k + r
  BY DEF EraYear
<1> QED BY <1>1, <1>2

(* A day of an era, by the years before it. *)
InEraYear(q, days, doe) ==
    /\ q \in Int /\ days \in Int /\ doe \in Int
    /\ 0 <= q /\ q <= 399 /\ 0 <= days /\ days <= 365
    /\ days = 365 => IsLeap(q + 1)
    /\ doe = q * 365 + q \div 4 - q \div 100 + days

(* The client finds the year of an era a day is in. *)
LEMMA YearOfEra ==
    ASSUME NEW q, NEW days, NEW doe, InEraYear(q, days, doe)
    PROVE  0 <= doe /\ doe <= 146096 /\ EraYear(doe) = q
<1>0. q \in Int /\ 0 <= q /\ q <= 399
  BY DEF InEraYear
<1>1. PICK c \in Int, k \in Int, r \in Int :
        /\ 0 <= c /\ c <= 3 /\ 0 <= k /\ k <= 24 /\ 0 <= r /\ r <= 3
        /\ q = 100 * c + 4 * k + r
  <2> DEFINE c == q \div 100
             k == (q % 100) \div 4
             r == q % 4
  <2>1. /\ c \in Int /\ k \in Int /\ r \in Int
        /\ 0 <= c /\ c <= 3 /\ 0 <= k /\ k <= 24 /\ 0 <= r /\ r <= 3
        /\ q = 100 * c + 4 * k + r
    BY <1>0
  <2> HIDE DEF c, k, r
  <2> QED BY <2>1
<1>2. q \div 100 = c /\ q \div 4 = 25 * c + k
  BY <1>1
<1>3. days = 365 => r = 3 /\ (k = 24 => c = 3)
  BY <1>1 DEF IsLeap, InEraYear
<1>4. doe = 36524 * c + 1461 * k + 365 * r + days
  BY <1>1, <1>2 DEF InEraYear
<1>5. InEra(c, k, r, days, doe)
  BY <1>1, <1>3, <1>4 DEF InEra, InEraYear
<1> QED BY <1>1, <1>5, DayOfEra

(* The client's count of whole months since the first of March, and the days in them. *)
MarchMonth(days) == (5 * days + 2) \div 153
MonthsDays(mp) == (153 * mp + 2) \div 5

(* The longest a month may be, counted from March. *)
MarchLength(mp) == IF mp \in {1, 3, 6, 8} THEN 30 ELSE IF mp = 11 THEN 29 ELSE 31

InMarchMonth(mp, d) == mp \in 0..11 /\ d \in Int /\ d >= 1 /\ d <= MarchLength(mp)

(* Months of 31 and 30 days by turns, the last one of 29, are found by their days. *)
LEMMA MonthOfMarchDay ==
    ASSUME NEW mp, NEW d, InMarchMonth(mp, d)
    PROVE  /\ MonthsDays(mp) + d - 1 \in 0..365
           /\ MonthsDays(mp) + d - 1 = 365 => mp = 11
           /\ MarchMonth(MonthsDays(mp) + d - 1) = mp
<1> USE DEF InMarchMonth
<1> DEFINE b == (153 * mp + 2) \div 5
<1>1. /\ mp = 0 => b = 0
      /\ mp = 1 => b = 31
      /\ mp = 2 => b = 61
      /\ mp = 3 => b = 92
      /\ mp = 4 => b = 122
      /\ mp = 5 => b = 153
      /\ mp = 6 => b = 184
      /\ mp = 7 => b = 214
      /\ mp = 8 => b = 245
      /\ mp = 9 => b = 275
      /\ mp = 10 => b = 306
      /\ mp = 11 => b = 337
  OBVIOUS
<1> HIDE DEF b
<1>0. d <= IF mp \in {1, 3, 6, 8} THEN 30 ELSE IF mp = 11 THEN 29 ELSE 31
  BY DEF MarchLength
<1>2. b \in Int /\ 153 * mp <= 5 * (b + d - 1) + 2 /\ 5 * (b + d - 1) + 2 <= 153 * mp + 152
  BY <1>0, <1>1
<1>3. PICK x \in Int : x = 5 * (b + d - 1) + 2
  BY <1>2
<1>4. x \div 153 = mp
  BY <1>2, <1>3
<1>5. MarchMonth(b + d - 1) = mp
  BY <1>3, <1>4 DEF MarchMonth
<1>6. b + d - 1 \in 0..365 /\ (b + d - 1 = 365 => mp = 11)
  BY <1>0, <1>1
<1>7. MonthsDays(mp) = b
  BY DEF MonthsDays, b
<1> QED BY <1>5, <1>6, <1>7

(* The days of a March year, and which of them is in which month. *)
LEMMA MarchDay ==
    ASSUME NEW n, NEW y, NEW m, NEW d, IsDay(n, y, m, d)
    PROVE  /\ MarchYear(y, m) \in Int /\ MarchDays(m, d) \in 0..365
           /\ MarchDays(m, d) = 365 => IsLeap(MarchYear(y, m) + 1)
           /\ MarchMonth(MarchDays(m, d)) = (m + 9) % 12
<1>1. y \in Int /\ m \in Months /\ d \in 1..MonthLength(y, m)
  BY DEF IsDay
<1>2. /\ MonthLength(y, m) =
           IF m = 2 THEN 28 + LeapDay(y) ELSE IF m \in {4, 6, 9, 11} THEN 30 ELSE 31
      /\ LeapDay(y) = IF IsLeap(y) THEN 1 ELSE 0
  BY <1>1, LeapDays, MonthLengths
<1>3. d \in Int /\ d >= 1 /\ d <= 31
      /\ (m \in {4, 6, 9, 11} => d <= 30)
      /\ (m = 2 => d <= 29 /\ (d = 29 => IsLeap(y)))
  <2>1. CASE m = 2
    BY <1>1, <1>2, <2>1
  <2>2. CASE m # 2
    <3>1. MonthLength(y, m) = IF m \in {4, 6, 9, 11} THEN 30 ELSE 31
      BY <1>2, <2>2
    <3> QED BY <1>1, <2>2, <3>1
  <2> QED BY <2>1, <2>2
<1>4. MarchYear(y, m) \in Int /\ (m = 2 => MarchYear(y, m) + 1 = y)
  BY <1>1 DEF MarchYear, Months
<1>5. PICK mp \in 0..11 : mp = (m + 9) % 12
  BY <1>1 DEF Months
<1>6. d <= MarchLength(mp) /\ (mp = 11 => m = 2)
  <2>1. d <= IF mp \in {1, 3, 6, 8} THEN 30 ELSE IF mp = 11 THEN 29 ELSE 31
    BY <1>1, <1>3, <1>5 DEF Months
  <2>2. mp = 11 => m = 2
    BY <1>1, <1>5 DEF Months
  <2> QED BY <2>1, <2>2 DEF MarchLength
<1>7. MarchDays(m, d) = MonthsDays(mp) + d - 1
  BY <1>5 DEF MarchDays, MonthsDays
<1>8. /\ MarchDays(m, d) \in 0..365
      /\ MarchDays(m, d) = 365 => mp = 11
      /\ MarchMonth(MarchDays(m, d)) = mp
  <2>1. InMarchMonth(mp, d)
    BY <1>3, <1>5, <1>6 DEF InMarchMonth
  <2> QED BY <1>7, <2>1, MonthOfMarchDay
<1>9. MarchDays(m, d) = 365 => d = 29
  <2>1. MonthsDays(11) = 337
    BY DEF MonthsDays
  <2> QED BY <1>3, <1>7, <1>8, <2>1
<1>10. ASSUME MarchDays(m, d) = 365 PROVE IsLeap(MarchYear(y, m) + 1)
  <2>1. m = 2 /\ d = 29
    BY <1>6, <1>8, <1>9, <1>10
  <2> QED BY <1>3, <1>4, <2>1
<1> QED BY <1>4, <1>5, <1>8, <1>10, Zenon

(* The client gives every day the date it has. *)
LEMMA CivilIs ==
    ASSUME NEW n, NEW y, NEW m, NEW d, IsDay(n, y, m, d)
    PROVE  CivilFromDays(n) = <<y, m, d>>
<1>1. y \in Int /\ m \in Months /\ d \in Int /\ n \in Int /\ n = DayNumber(<<y, m, d>>)
  BY DayInYear DEF IsDay, DayNumber
<1>2. PICK a \in Int : a = MarchYear(y, m)
  BY MarchDay
<1>3. PICK days \in 0..365 : days = MarchDays(m, d)
  BY MarchDay
<1>4. (days = 365 => IsLeap(a + 1)) /\ MarchMonth(days) = (m + 9) % 12
  BY <1>2, <1>3, MarchDay
<1>5. n + 719468 = 365 * a + a \div 4 - a \div 100 + a \div 400 + days
  <2>1. n = MarchStart(a) + days
    BY <1>1, <1>2, <1>3, CountSimple, CountsAgree
  <2> QED BY <1>1, <1>2, <1>3, <2>1 DEF MarchStart
<1>6. PICK e \in Int, q \in 0..399 : a = 400 * e + q
  <2>1. a = 400 * (a \div 400) + (a % 400) /\ a % 400 \in 0..399 /\ a \div 400 \in Int
    OBVIOUS
  <2> QED BY <2>1
<1>7. PICK doe \in Int : doe = q * 365 + q \div 4 - q \div 100 + days
  OBVIOUS
<1>8. IsLeap(a + 1) => IsLeap(q + 1)
  BY <1>6 DEF IsLeap
<1>9. 0 <= doe /\ doe <= 146096 /\ EraYear(doe) = q
  <2>1. 0 <= q /\ q <= 399 /\ 0 <= days /\ days <= 365 /\ q \in Int /\ days \in Int
    BY <1>3, <1>6
  <2>2. InEraYear(q, days, doe)
    BY <1>4, <1>7, <1>8, <2>1 DEF InEraYear
  <2> QED BY <2>2, YearOfEra
<1>10. n + 719468 = 146097 * e + doe
  BY <1>5, <1>6, <1>7
<1>11. Era(n + 719468, 146097) = e
  <2>1. (146097 * e + doe) \div 146097 = e
    BY <1>9
  <2>2. PICK z \in Int : z = n + 719468
    BY <1>1
  <2>3. z \div 146097 = e
    BY <1>10, <2>1, <2>2
  <2>4. Era(z, 146097) = e
    BY <2>2, <2>3, Eras
  <2> QED BY <2>2, <2>4
<1>12. PICK mp \in 0..11 : mp = (m + 9) % 12
  BY <1>1 DEF Months
<1>13. m = IF mp < 10 THEN mp + 3 ELSE mp - 9
  BY <1>1, <1>12 DEF Months
<1>14. y = q + e * 400 + (IF m <= 2 THEN 1 ELSE 0)
  BY <1>1, <1>2, <1>6 DEF MarchYear, Months
<1>15. d = days - (153 * mp + 2) \div 5 + 1
  BY <1>1, <1>3, <1>12 DEF MarchDays, Months
<1> DEFINE Rest(x) == x - (365 * EraYear(x) + EraYear(x) \div 4 - EraYear(x) \div 100)
           M(x) == IF MarchMonth(Rest(x)) < 10 THEN MarchMonth(Rest(x)) + 3
                   ELSE MarchMonth(Rest(x)) - 9
           Date(x, k) == <<EraYear(x) + k * 400 + (IF M(x) <= 2 THEN 1 ELSE 0), M(x),
                           Rest(x) - (153 * MarchMonth(Rest(x)) + 2) \div 5 + 1>>
<1>16. CivilFromDays(n) = Date((n + 719468) - Era(n + 719468, 146097) * 146097,
                               Era(n + 719468, 146097))
  BY DEF CivilFromDays, EraYear, MarchMonth
<1>17. CivilFromDays(n) = Date(doe, e)
  <2>1. (n + 719468) - e * 146097 = doe
    BY <1>9, <1>10
  <2> HIDE DEF Date
  <2> QED BY <1>11, <1>16, <2>1
<1>19. Rest(doe) = days
  BY <1>7, <1>9
<1> HIDE DEF Rest
<1>20. MarchMonth(Rest(doe)) = mp
  BY <1>4, <1>12, <1>19
<1>21. M(doe) = m
  BY <1>13, <1>20
<1> HIDE DEF M
<1>22. Date(doe, e) = <<y, m, d>>
  BY <1>9, <1>14, <1>15, <1>19, <1>20, <1>21
<1> QED BY <1>17, <1>22

(* The client reads every date of the calendar as the day it is, and back; from *)
(* a string, it reads those that are no earlier than the year 0.                *)
LEMMA ClientAgrees ==
    /\ \A n \in Int : CivilFromDays(n) = DateOf(n) /\ DaysFromCivil(DateOf(n)) = n
    /\ \A date : IsDate(date) => /\ date # NoDate
                                 /\ DaysFromCivil(date) = DayNumber(date)
    /\ \A date : Spelled(date) => IsoDayNumber(date) = {DayNumber(date)}
<1>1. ASSUME NEW n \in Int PROVE CivilFromDays(n) = DateOf(n)
  <2>1. PICK y, m, d : IsDay(n, y, m, d)
    BY DayExists
  <2> QED BY <2>1, DateIs, CivilIs
<1>2. ASSUME NEW date, IsDate(date)
      PROVE  /\ date # NoDate
             /\ DaysFromCivil(date) = DayNumber(date)
             /\ date[1] >= 0 => IsoDayNumber(date) = {DayNumber(date)}
  <2>1. PICK y \in Int, m \in Months : \E d \in 1..MonthLength(y, m) : date = <<y, m, d>>
    BY <1>2 DEF IsDate
  <2>2. PICK d \in 1..MonthLength(y, m) : date = <<y, m, d>>
    BY <2>1
  <2>3. d \in 1..DaysInMonth(y, m) /\ d \in Int
    BY MonthLengths
  <2>4. date[1] = y /\ date[2] = m /\ date[3] = d /\ date # NoDate
    BY <2>2 DEF NoDate
  <2>5. date[1] >= 0 => ParseIso(date) = date
    BY <2>3, <2>4 DEF ParseIso, Months
  <2>6. DaysFromCivil(date) = DayNumber(date)
    BY <2>2, <2>3, CountsAgree
  <2> QED BY <2>4, <2>5, <2>6 DEF IsoDayNumber
<1>3. ASSUME NEW n \in Int PROVE DaysFromCivil(DateOf(n)) = n
  BY <1>2, DatesAreDays
<1> QED BY <1>1, <1>2, <1>3 DEF Spelled

-----------------------------------------------------------------------------
(* Follow-ups *)

(* No later day is in a year before 0. *)
LEMMA LaterYears ==
    ASSUME NEW a, Spelled(a), NEW b, IsDate(b), DayNumber(b) >= DayNumber(a)
    PROVE  Spelled(b)
<1>1. PICK y \in Int, m \in Months : \E d \in 1..MonthLength(y, m) : a = <<y, m, d>>
  BY DEF Spelled, IsDate
<1>2. PICK d \in 1..MonthLength(y, m) : a = <<y, m, d>>
  BY <1>1
<1>3. PICK z \in Int, k \in Months : \E e \in 1..MonthLength(z, k) : b = <<z, k, e>>
  BY DEF IsDate
<1>4. PICK e \in 1..MonthLength(z, k) : b = <<z, k, e>>
  BY <1>3
<1>5. IsDay(DayNumber(a), y, m, d) /\ IsDay(DayNumber(b), z, k, e)
  BY <1>2, <1>4 DEF IsDay, DayNumber
<1>6. /\ DayNumber(a) \in Int /\ YearStart(y) <= DayNumber(a)
      /\ DayNumber(b) \in Int /\ DayNumber(b) < YearStart(z + 1)
  BY <1>5, DayInYear
<1>7. y >= 0
  BY <1>2 DEF Spelled
<1>8. ~(z < 0)
  <2> SUFFICES ASSUME z < 0 PROVE FALSE
    OBVIOUS
  <2>1. z < y
    BY <1>7
  <2>2. YearStart(z + 1) <= YearStart(y) /\ YearStart(z + 1) \in Int /\ YearStart(y) \in Int
    BY <2>1, YearsGrow, LeapDays
  <2> QED BY <1>6, <2>2
<1> QED BY <1>4, <1>8 DEF Spelled

(* Days added to a date. *)
LEMMA AddedDays ==
    ASSUME NEW date, IsDate(date), NEW n \in Int
    PROVE  IsDate(AddDays(date, n)) /\ DayNumber(AddDays(date, n)) = DayNumber(date) + n
<1>1. DayNumber(date) \in Int
  BY DatesAreDays
<1>2. DayNumber(date) + n \in Int
  BY <1>1
<1> QED BY <1>2, DatesAreDays DEF AddDays

(* The same day of the next month, or its last. *)
LEMMA AddedMonth ==
    ASSUME NEW date, IsDate(date)
    PROVE  /\ IsDate(AddMonth(date))
           /\ DayNumber(AddMonth(date)) - DayNumber(date) \in 28..31
<1>1. PICK y \in Int, m \in Months : \E d \in 1..MonthLength(y, m) : date = <<y, m, d>>
  BY DEF IsDate
<1>2. PICK d \in 1..MonthLength(y, m) : date = <<y, m, d>>
  BY <1>1
<1>3. PICK z \in Int : z = IF m = 12 THEN y + 1 ELSE y
  OBVIOUS
<1>4. PICK k \in Months : k = IF m = 12 THEN 1 ELSE m + 1
  BY DEF Months
<1>5. /\ MonthStart(y, m) \in Int /\ MonthLength(y, m) \in 28..31
      /\ MonthStart(z, k) \in Int /\ MonthLength(z, k) \in 28..31
  BY MonthsFollow
<1>6. MonthStart(z, k) = MonthStart(y, m) + MonthLength(y, m)
  <2>1. CASE m = 12
    <3>1. z = y + 1 /\ k = 1
      BY <1>3, <1>4, <2>1
    <3>2. YearStart(y + 1) = MonthStart(y, m) + MonthLength(y, m)
      BY <2>1, MonthsFollow
    <3>3. MonthStart(z, k) = YearStart(z)
      BY <3>1, MonthsFollow
    <3> QED BY <3>1, <3>2, <3>3
  <2>2. CASE m # 12
    <3>1. z = y /\ k = m + 1 /\ m < 12
      BY <1>3, <1>4, <2>2 DEF Months
    <3> QED BY <3>1, MonthsFollow
  <2> QED BY <2>1, <2>2
<1>7. m = 12 => MonthLength(y, m) = 31
  BY MonthLengths
<1>8. MonthLength(y, m) > MonthLength(z, k) \/ MonthLength(z, k) >= MonthLength(y, m)
  BY <1>5
<1>9. PICK e \in Int : e = IF d <= MonthLength(z, k) THEN d ELSE MonthLength(z, k)
  BY <1>5
<1>10. Min({d, MonthLength(z, k)}) = e
  <2>1. e \in {d, MonthLength(z, k)} /\ \A x \in {d, MonthLength(z, k)} : e <= x
    BY <1>5, <1>9
  <2>2. \A x \in {d, MonthLength(z, k)} :
          (\A x2 \in {d, MonthLength(z, k)} : x <= x2) => x = e
    BY <1>5, <1>9
  <2> HIDE DEF Months
  <2> QED BY <2>1, <2>2 DEF Min
<1>11. AddMonth(date) = <<z, k, e>>
  BY <1>2, <1>3, <1>4, <1>10 DEF AddMonth
<1>12. e \in 1..MonthLength(z, k)
  BY <1>5, <1>9
<1>13. IsDate(AddMonth(date))
  BY <1>11, <1>12 DEF IsDate
<1>14. /\ DayNumber(date) = MonthStart(y, m) + d - 1
       /\ DayNumber(AddMonth(date)) = MonthStart(z, k) + e - 1
  BY <1>2, <1>11 DEF DayNumber
<1>15. e - d + MonthLength(y, m) \in 28..31
  BY <1>5, <1>9
<1>16. DayNumber(AddMonth(date)) - DayNumber(date) = e - d + MonthLength(y, m)
  BY <1>5, <1>6, <1>9, <1>14
<1> QED BY <1>13, <1>15, <1>16

(* A date moves one step on. *)
LEMMA DateMoves ==
    ASSUME NEW date, Spelled(date), NEW rec \in Recurrences
    PROVE  /\ Spelled(ShiftDate(date, rec))
           /\ MovedOn(date, ShiftDate(date, rec), rec)
<1> DEFINE new == ShiftDate(date, rec)
<1>1. DayNumber(date) \in Int /\ IsDate(date)
  BY DatesAreDays DEF Spelled
<1>2. IsDate(new) /\ DayNumber(new) - DayNumber(date) \in StepDays(rec)
  <2>1. CASE rec = "monthly"
    <3>1. new = AddMonth(date)
      BY <2>1 DEF ShiftDate
    <3>2. StepDays(rec) = 28..31
      BY <2>1 DEF StepDays
    <3> HIDE DEF new
    <3> QED BY <1>1, <3>1, <3>2, AddedMonth
  <2>2. CASE rec # "monthly"
    <3>1. PICK days \in Int : days = [daily |-> 1, weekly |-> 7, biweekly |-> 14][rec]
      BY <2>2 DEF Recurrences
    <3>2. new = AddDays(date, days) /\ StepDays(rec) = {days}
      BY <2>2, <3>1 DEF ShiftDate, StepDays
    <3> HIDE DEF new
    <3>3. IsDate(new) /\ DayNumber(new) = DayNumber(date) + days
      BY <1>1, <3>2, AddedDays
    <3> QED BY <1>1, <3>2, <3>3
  <2> QED BY <2>1, <2>2
<1>3. Spelled(new) /\ IsoDayNumber(new) = {DayNumber(new)}
  <2> HIDE DEF new
  <2>1. DayNumber(new) \in Int
    BY <1>2, DatesAreDays
  <2>2. \A i \in StepDays(rec) : i \in Int /\ i >= 0
    BY DEF StepDays, Recurrences
  <2>3. DayNumber(new) >= DayNumber(date)
    BY <1>1, <1>2, <2>1, <2>2
  <2>4. Spelled(new)
    BY <1>2, <2>3, LaterYears
  <2> QED BY <2>4, ClientAgrees
<1> QED BY <1>2, <1>3 DEF MovedOn

(* The dates of a task, if it has any (from the year 0 on), give a follow-up that *)
(* is as long, one step later.                                                     *)
THEOREM FollowUpAsLong ==
    ASSUME NEW start, start = NoDate \/ Spelled(start),
           NEW due, due = NoDate \/ Spelled(due), NEW rec \in Recurrences
    PROVE  FollowUpKept(start, due, rec)
<1> DEFINE s == ShiftedStartDate(start, rec)
           d == ShiftedDueDate(start, due, rec)
<1>1. \A date : Spelled(date) => /\ IsDate(date) /\ date # NoDate
                                 /\ DayNumber(date) \in Int
                                 /\ IsoDayNumber(date) = {DayNumber(date)}
  BY ClientAgrees, DatesAreDays DEF Spelled
<1>2. start = NoDate => s = NoDate
  BY DEF ShiftedStartDate
<1>3. start # NoDate => /\ s = ShiftDate(start, rec) /\ Spelled(s) /\ s # NoDate
                        /\ MovedOn(start, s, rec)
  <2>1. start # NoDate => s = ShiftDate(start, rec) /\ Spelled(start)
    BY DEF ShiftedStartDate
  <2> HIDE DEF s
  <2> QED BY <1>1, <2>1, DateMoves
<1>4. due = NoDate => d = NoDate
  BY DEF ShiftedDueDate
<1>5. due # NoDate /\ (start = NoDate \/ rec # "monthly") =>
        d = ShiftDate(due, rec) /\ Spelled(d) /\ d # NoDate /\ MovedOn(due, d, rec)
  <2>1. due # NoDate /\ (start = NoDate \/ rec # "monthly") =>
          d = ShiftDate(due, rec) /\ Spelled(due)
    BY DEF ShiftedDueDate
  <2> HIDE DEF d
  <2> QED BY <1>1, <2>1, DateMoves
<1>6. ASSUME start # NoDate, due # NoDate
      PROVE  /\ Spelled(d) /\ d # NoDate
             /\ DayNumber(d) - DayNumber(s) = DayNumber(due) - DayNumber(start)
  <2>1. /\ DayNumber(start) \in Int /\ DayNumber(due) \in Int
        /\ Spelled(start) /\ Spelled(due)
    BY <1>1, <1>6
  <2>2. CASE rec = "monthly"
    <3>1. d = AddDays(s, DayNumber(due) - DayNumber(start))
      BY <1>3, <1>6, <2>2 DEF ShiftedDueDate
    <3>2. PICK span \in Int : span = DayNumber(due) - DayNumber(start)
      BY <2>1
    <3> HIDE DEF s, d
    <3>3. IsDate(s) /\ DayNumber(s) \in Int
      BY <1>1, <1>3, <1>6
    <3>4. IsDate(d) /\ DayNumber(d) = DayNumber(s) + span
      BY <3>1, <3>2, <3>3, AddedDays
    <3>5. DayNumber(s) >= DayNumber(start)
      <4>1. DayNumber(s) - DayNumber(start) \in 28..31
        BY <1>3, <1>6, <2>2 DEF MovedOn, StepDays
      <4> QED BY <2>1, <3>3, <4>1
    <3>6. Spelled(d)
      <4>1. DayNumber(d) \in Int /\ DayNumber(d) >= DayNumber(due)
        BY <2>1, <3>2, <3>3, <3>4, <3>5
      <4> QED BY <2>1, <3>4, <4>1, LaterYears
    <3> QED BY <1>1, <2>1, <3>2, <3>3, <3>4, <3>6
  <2>3. CASE rec # "monthly"
    <3>1. PICK days \in Int : days = [daily |-> 1, weekly |-> 7, biweekly |-> 14][rec]
      BY <2>3 DEF Recurrences
    <3>2. StepDays(rec) = {days}
      BY <2>3, <3>1 DEF StepDays
    <3> HIDE DEF s, d
    <3>3. DayNumber(s) - DayNumber(start) = days /\ DayNumber(d) - DayNumber(due) = days
      BY <1>3, <1>5, <1>6, <2>3, <3>2 DEF MovedOn
    <3>4. Spelled(d) /\ Spelled(s) /\ DayNumber(d) \in Int /\ DayNumber(s) \in Int
      BY <1>1, <1>3, <1>5, <1>6, <2>3
    <3> QED BY <1>1, <2>1, <3>3, <3>4
  <2> QED BY <2>2, <2>3
<1>7. start # NoDate /\ due # NoDate => IsoDayNumber(d) = {DayNumber(d)}
  BY <1>1, <1>6
<1> HIDE DEF s, d
<1>8. /\ (s = NoDate) = (start = NoDate)
      /\ (d = NoDate) = (due = NoDate)
      /\ start # NoDate => MovedOn(start, s, rec)
      /\ start = NoDate /\ due # NoDate => MovedOn(due, d, rec)
      /\ start # NoDate /\ due # NoDate =>
          /\ DayNumber(d) - DayNumber(s) = DayNumber(due) - DayNumber(start)
          /\ IsoDayNumber(d) = {DayNumber(d)}
  BY <1>2, <1>3, <1>4, <1>5, <1>6, <1>7
<1> QED BY <1>8 DEF FollowUpKept, s, d

(* Every follow-up that is inserted has the dates it should have. *)
THEOREM FollowUpsOnTheirDates == Spec => []FollowUpDates
<1>1. AllFollowUpsKept
  <2> SUFFICES ASSUME NEW n \in SampleStarts, NEW span \in SampleSpans, NEW rec \in Recurrences
               PROVE  /\ FollowUpKept(DateOf(n), DateOf(n + span), rec)
                      /\ FollowUpKept(DateOf(n), NoDate, rec)
                      /\ FollowUpKept(NoDate, DateOf(n), rec)
    BY DEF AllFollowUpsKept
  <2>1. n \in Int /\ n + span \in Int
    BY ScheduleAssumption
  <2>2. Spelled(DateOf(n)) /\ Spelled(DateOf(n + span))
    <3>1. \A date \in {DateOf(n), DateOf(n + span)} : ParseIso(date) = date
      BY ScheduleAssumption
    <3>2. ASSUME NEW date, IsDate(date), ParseIso(date) = date
          PROVE  Spelled(date)
      BY <3>2, ClientAgrees DEF ParseIso, Spelled
    <3> QED BY <2>1, <3>1, <3>2, DatesAreDays
  <2> QED BY <2>2, FollowUpAsLong
<1>2. FollowUpDates
  BY <1>1 DEF FollowUpDates
<1> QED BY <1>2, PTL

-----------------------------------------------------------------------------
(* The month view *)

(* A minimum of two numbers. *)
LEMMA MinOfTwo ==
    ASSUME NEW a \in Int, NEW b \in Int
    PROVE  Min({a, b}) = IF a <= b THEN a ELSE b
<1> DEFINE e == IF a <= b THEN a ELSE b
<1>1. e \in {a, b} /\ \A x \in {a, b} : e <= x
  OBVIOUS
<1>2. \A x \in {a, b} : (\A z \in {a, b} : x <= z) => x = e
  OBVIOUS
<1> HIDE DEF e
<1>3. Min({a, b}) = e
  BY <1>1, <1>2 DEF Min
<1> QED BY <1>3 DEF e

(* The Monday the weekdays are counted from. *)
LEMMA MondayIs == Monday = 19723
<1>1. LeapDay(2024) \in 0..1 /\ YearStart(2024) = 19723
  BY LeapDays, MonthLengths DEF YearStart, LeapYearsBefore, Months
<1>2. MonthStart(2024, 1) = YearStart(2024)
  BY MonthsFollow DEF Months
<1> QED BY <1>1, <1>2 DEF Monday, DayNumber

(* The cells of a month: so many blank ones as the first day is from Monday, then *)
(* one for each day.                                                               *)
LEMMA GridCells ==
    ASSUME NEW y \in Int, NEW m \in Months
    PROVE  LET c == <<y, m>>
               off == MonthOffset(c)
               first == MonthStart(y, m)
               grid == CalendarGrid(c)
           IN
           /\ off = (first + 3) % 7
           /\ Len(grid) = off + MonthLength(y, m)
           /\ DOMAIN grid = 1..(off + MonthLength(y, m))
           /\ \A i \in 1..off : grid[i] = Blank
           /\ \A i \in (off + 1)..(off + MonthLength(y, m)) :
                grid[i] = <<y, m, i - off>> /\ grid[i] # Blank
                /\ DayNumber(grid[i]) = first + (i - off) - 1
<1> DEFINE c == <<y, m>>
           off == MonthOffset(c)
           first == MonthStart(y, m)
           grid == CalendarGrid(c)
           len == MonthLength(y, m)
           blanks == [i \in 1..off |-> Blank]
           days == [d \in 1..len |-> <<y, m, d>>]
<1>1. first \in Int /\ len \in 28..31 /\ DaysInMonth(y, m) = len
  BY MonthsFollow, MonthLengths
<1>2. off = (first + 3) % 7
  <2>1. DaysFromCivil(<<y, m, 1>>) = DayNumber(<<y, m, 1>>)
    BY CountsAgree
  <2>2. DayNumber(<<y, m, 1>>) = first + 1 - 1
    BY DEF DayNumber
  <2>3. off = (DaysFromCivil(<<y, m, 1>>) + 3) % 7
    BY DEF MonthOffset, WeekdayIndex
  <2> HIDE DEF off, first
  <2> QED BY <1>1, <2>1, <2>2, <2>3
<1>3. off \in 0..6
  <2> HIDE DEF off, first
  <2> QED BY <1>1, <1>2
<1>4. grid = blanks \o days
  BY <1>1 DEF CalendarGrid
<1> HIDE DEF off, first, len, grid
<1> DEFINE S == {Blank} \cup {<<y, m, d>> : d \in 1..len}
<1>5. blanks \in Seq(S) /\ Len(blanks) = off
  BY <1>3
<1>6. days \in Seq(S) /\ Len(days) = len
  BY <1>1
<1>7. /\ Len(grid) = off + len /\ DOMAIN grid = 1..(off + len)
      /\ \A i \in 1..(off + len) :
           grid[i] = IF i <= off THEN blanks[i] ELSE days[i - off]
  <2> HIDE DEF blanks, days, S
  <2>1. blanks \o days \in Seq(S) /\ Len(blanks \o days) = Len(blanks) + Len(days)
    BY <1>5, <1>6
  <2>2. DOMAIN (blanks \o days) = 1..(Len(blanks) + Len(days))
    BY <2>1
  <2>3. \A i \in 1..(Len(blanks) + Len(days)) :
          (blanks \o days)[i] = IF i <= Len(blanks) THEN blanks[i] ELSE days[i - Len(blanks)]
    BY <1>5, <1>6
  <2> QED BY <1>4, <1>5, <1>6, <2>1, <2>2, <2>3
<1>8. ASSUME NEW i \in 1..off PROVE grid[i] = Blank
  <2>1. i \in 1..(off + len) /\ i <= off
    BY <1>1, <1>3
  <2>2. blanks[i] = Blank
    OBVIOUS
  <2> QED BY <1>7, <2>1, <2>2
<1>9. ASSUME NEW i \in (off + 1)..(off + len)
      PROVE  /\ grid[i] = <<y, m, i - off>> /\ grid[i] # Blank
             /\ DayNumber(grid[i]) = first + (i - off) - 1
  <2>1. i \in 1..(off + len) /\ ~(i <= off) /\ i - off \in 1..len
    BY <1>1, <1>3
  <2>2. grid[i] = <<y, m, i - off>>
    BY <1>7, <2>1
  <2>3. DayNumber(<<y, m, i - off>>) = first + (i - off) - 1
    BY DEF DayNumber, first
  <2>4. <<y, m, i - off>> # Blank
    BY DEF Blank
  <2> QED BY <2>2, <2>3, <2>4
<1> QED BY <1>2, <1>7, <1>8, <1>9 DEF off, first, len, grid

(* A month has each of its days once, under its weekday, and the next one goes on. *)
LEMMA GridIsRight ==
    ASSUME NEW y \in Int, NEW m \in Months
    PROVE  GridRight(<<y, m>>)
<1> DEFINE c == <<y, m>>
           off == MonthOffset(c)
           first == MonthStart(y, m)
           grid == CalendarGrid(c)
           len == MonthLength(y, m)
           cells == {i \in DOMAIN grid : grid[i] # Blank}
<1>1. first \in Int /\ len \in 28..31
  BY MonthsFollow
<1>2. /\ off = (first + 3) % 7
      /\ Len(grid) = off + len
      /\ DOMAIN grid = 1..(off + len)
      /\ \A i \in 1..off : grid[i] = Blank
      /\ \A i \in (off + 1)..(off + len) :
           grid[i] # Blank /\ DayNumber(grid[i]) = first + (i - off) - 1
  <2> HIDE DEF off, first, grid, len
  <2> QED BY GridCells DEF off, first, grid, len
<1>3. /\ PrevMonth(NextMonth(c)) = c /\ NextMonth(PrevMonth(c)) = c
      /\ NextMonth(c) = IF m = 12 THEN <<y + 1, 1>> ELSE <<y, m + 1>>
  BY DEF PrevMonth, NextMonth, Months
<1>4. MonthLength(c[1], c[2]) = len
  OBVIOUS
<1>5. MonthOffset(NextMonth(c)) = (first + len + 3) % 7
  <2>1. CASE m = 12
    <3>1. MonthStart(y + 1, 1) = first + len
      <4>1. YearStart(y + 1) = first + len
        BY <2>1, MonthsFollow
      <4>2. MonthStart(y + 1, 1) = YearStart(y + 1)
        BY MonthsFollow DEF Months
      <4> QED BY <4>1, <4>2
    <3>2. NextMonth(c) = <<y + 1, 1>>
      BY <1>3, <2>1
    <3>3. MonthOffset(<<y + 1, 1>>) = (MonthStart(y + 1, 1) + 3) % 7
      <4>1. y + 1 \in Int /\ 1 \in Months
        BY DEF Months
      <4> QED BY <4>1, GridCells
    <3> HIDE DEF first, len, c
    <3> QED BY <3>1, <3>2, <3>3
  <2>2. CASE m # 12
    <3>1. m + 1 \in Months /\ m < 12
      BY <2>2 DEF Months
    <3>2. MonthStart(y, m + 1) = first + len
      BY <3>1, MonthsFollow
    <3>3. NextMonth(c) = <<y, m + 1>>
      BY <1>3, <2>2
    <3>4. MonthOffset(<<y, m + 1>>) = (MonthStart(y, m + 1) + 3) % 7
      BY <3>1, GridCells
    <3> HIDE DEF first, len, c
    <3> QED BY <3>2, <3>3, <3>4
  <2> QED BY <2>1, <2>2
<1> HIDE DEF off, first, grid, len, c
<1>6. off \in 0..6
  BY <1>1, <1>2
<1>7. cells = (off + 1)..(off + len)
  BY <1>1, <1>2, <1>6
<1>8. Cardinality(cells) = len
  <2>1. off + 1 \in Int /\ off + len \in Int /\ off + 1 <= off + len
    BY <1>1, <1>6
  <2>2. Cardinality((off + 1)..(off + len)) = (off + len) - (off + 1) + 1
    BY <2>1, FS_Interval
  <2>3. (off + len) - (off + 1) + 1 = len
    BY <1>1, <1>6
  <2> HIDE DEF cells
  <2> QED BY <1>7, <2>2, <2>3
<1>9. ASSUME NEW i \in cells
      PROVE  /\ (i - 1) % 7 = (DayNumber(grid[i]) - Monday) % 7
             /\ IsWeekend(DayNumber(grid[i])) <=> (i - 1) % 7 \in {5, 6}
  <2>1. i \in Int /\ DayNumber(grid[i]) = first + (i - off) - 1
    BY <1>1, <1>2, <1>6, <1>7
  <2>2. PICK n \in Int : n = DayNumber(grid[i])
    BY <1>1, <1>6, <2>1
  <2>3. (i - 1) % 7 = (n + 3) % 7
    BY <1>1, <1>2, <1>6, <2>1, <2>2
  <2>4. (n - 19723) % 7 = (n + 3) % 7
    BY <2>2
  <2>5. IsWeekend(n) <=> (i - 1) % 7 \in {5, 6}
    <3>1. (n + 3) % 7 \in 0..6
      BY <2>2
    <3> QED BY <2>3, <3>1 DEF IsWeekend, WeekdayIndex
  <2> HIDE DEF cells
  <2> QED BY <2>2, <2>3, <2>4, <2>5, MondayIs
<1>10. MonthOffset(NextMonth(c)) = Len(grid) % 7
  BY <1>1, <1>2, <1>5, <1>6
<1>11. /\ PrevMonth(NextMonth(c)) = c /\ NextMonth(PrevMonth(c)) = c
       /\ Cardinality(cells) = MonthLength(c[1], c[2])
       /\ \A i \in cells : (i - 1) % 7 = (DayNumber(grid[i]) - Monday) % 7
       /\ \A i \in cells : IsWeekend(DayNumber(grid[i])) <=> (i - 1) % 7 \in {5, 6}
       /\ MonthOffset(NextMonth(c)) = Len(grid) % 7
  <2> HIDE DEF cells
  <2> QED BY <1>3, <1>4, <1>8, <1>9, <1>10
<1> QED BY <1>11 DEF GridRight, grid, c

(* What a cell of the month does not show of its day is what its button counts. *)
LEMMA CellsCount ==
    ASSUME NEW total \in Nat
    PROVE  LET shows == CellShows(total, FALSE)
           IN  shows.chips + shows.more = total /\ CellShows(total, TRUE).chips = total
<1>1. /\ CellShows(total, FALSE).chips = Min({total, 4})
      /\ CellShows(total, FALSE).more = IF total <= 4 THEN 0 ELSE total - 4
      /\ CellShows(total, TRUE).chips = Min({total, total})
  BY DEF CellShows, VisibleItems
<1>2. Min({total, 4}) = IF total <= 4 THEN total ELSE 4
  BY MinOfTwo
<1>3. Min({total, total}) = total
  BY MinOfTwo
<1>4. CellShows(total, FALSE).chips + CellShows(total, FALSE).more = total
  <2>1. PICK chips \in Int, more \in Int :
          chips = Min({total, 4}) /\ more = IF total <= 4 THEN 0 ELSE total - 4
    BY <1>2
  <2>2. CellShows(total, FALSE).chips = chips /\ CellShows(total, FALSE).more = more
    BY <1>1, <2>1
  <2>3. chips + more = total
    BY <1>2, <2>1
  <2> QED BY <2>2, <2>3
<1>5. CellShows(total, TRUE).chips = total
  BY <1>1, <1>3
<1> QED BY <1>4, <1>5

(* The calendar of every year is right. *)
THEOREM CalendarIsRight == CalendarRight
<1>1. ASSUME NEW y \in SampleYears
      PROVE  /\ \A n \in YearStart(y)..(YearStart(y + 1) - 1) :
                  DaysFromCivil(DateOf(n)) = n /\ CivilFromDays(n) = DateOf(n)
             /\ \A m \in 1..12 : GridRight(<<y, m>>)
  <2>1. y \in Int /\ YearStart(y) \in Int /\ YearStart(y + 1) \in Int
    BY ScheduleAssumption, LeapDays
  <2>2. \A m \in 1..12 : GridRight(<<y, m>>)
    BY <2>1, GridIsRight DEF Months
  <2> QED BY <2>1, <2>2, ClientAgrees
<1>2. \A total \in 0..(2 * VisibleItems) :
        LET shows == CellShows(total, FALSE) IN
        shows.chips + shows.more = total /\ CellShows(total, TRUE).chips = total
  <2> SUFFICES ASSUME NEW total \in 0..(2 * VisibleItems)
               PROVE  LET shows == CellShows(total, FALSE) IN
                      shows.chips + shows.more = total /\ CellShows(total, TRUE).chips = total
    OBVIOUS
  <2>1. total \in Nat
    BY DEF VisibleItems
  <2> QED BY <2>1, CellsCount
<1> QED BY <1>1, <1>2 DEF CalendarRight

(* Tasks are shown on their days. *)
THEOREM TasksShownOnTheirDay == Spec => []TasksOnTheirDay
<1>1. TasksOnTheirDay
  BY CalendarIsRight DEF TasksOnTheirDay
<1> QED BY <1>1, PTL

-----------------------------------------------------------------------------
(* The chart *)

(* Some days, finitely many. *)
SomeDays(S) == S \subseteq Int /\ IsFiniteSet(S) /\ S # {}

(* They have a first and a last one. *)
LEMMA FirstAndLast ==
    ASSUME NEW S, SomeDays(S)
    PROVE  /\ Min(S) \in S /\ \A x \in S : Min(S) <= x
           /\ Max(S) \in S /\ \A x \in S : x <= Max(S)
<1>0. IsFiniteSet(S)
  BY DEF SomeDays
<1>1. \E a \in S : \A x \in S : a <= x
  <2> DEFINE D == {T \in SUBSET S : T # {} /\ ~\E a \in T : \A x \in T : a <= x}
  <2> SUFFICES ASSUME D # {} PROVE FALSE
    BY DEF SomeDays
  <2>1. PICK T \in D : \A U \in D : U \subseteq T => U = T
    <3>1. D \subseteq SUBSET S
      OBVIOUS
    <3> HIDE DEF D
    <3> QED BY <1>0, <3>1, SmallestSubset
  <2>2. PICK b \in T : TRUE
    OBVIOUS
  <2>3. T \ {b} \notin D
    BY <2>1, <2>2
  <2>4. CASE T \ {b} = {}
    <3>1. \A x \in T : b <= x
      BY <2>2, <2>4 DEF SomeDays
    <3> QED BY <2>2, <3>1 DEF SomeDays
  <2>5. CASE T \ {b} # {}
    <3>1. PICK a \in T \ {b} : \A x \in T \ {b} : a <= x
      BY <2>3, <2>5
    <3>2. a \in Int /\ b \in Int /\ a \in T
      BY <2>2, <3>1 DEF SomeDays
    <3>3. CASE a <= b
      <4>1. \A x \in T : a <= x
        BY <3>1, <3>3
      <4> QED BY <3>2, <4>1
    <3>4. CASE ~(a <= b)
      <4>1. \A x \in T : b <= x
        BY <3>1, <3>2, <3>4
      <4> QED BY <2>2, <4>1
    <3> QED BY <3>3, <3>4
  <2> QED BY <2>4, <2>5
<1>2. \E a \in S : \A x \in S : x <= a
  <2> DEFINE D == {T \in SUBSET S : T # {} /\ ~\E a \in T : \A x \in T : x <= a}
  <2> SUFFICES ASSUME D # {} PROVE FALSE
    BY DEF SomeDays
  <2>1. PICK T \in D : \A U \in D : U \subseteq T => U = T
    <3>1. D \subseteq SUBSET S
      OBVIOUS
    <3> HIDE DEF D
    <3> QED BY <1>0, <3>1, SmallestSubset
  <2>2. PICK b \in T : TRUE
    OBVIOUS
  <2>3. T \ {b} \notin D
    BY <2>1, <2>2
  <2>4. CASE T \ {b} = {}
    <3>1. \A x \in T : x <= b
      BY <2>2, <2>4 DEF SomeDays
    <3> QED BY <2>2, <3>1 DEF SomeDays
  <2>5. CASE T \ {b} # {}
    <3>1. PICK a \in T \ {b} : \A x \in T \ {b} : x <= a
      BY <2>3, <2>5
    <3>2. a \in Int /\ b \in Int /\ a \in T
      BY <2>2, <3>1 DEF SomeDays
    <3>3. CASE b <= a
      <4>1. \A x \in T : x <= a
        BY <3>1, <3>3
      <4> QED BY <3>2, <4>1
    <3>4. CASE ~(b <= a)
      <4>1. \A x \in T : x <= b
        BY <3>1, <3>2, <3>4
      <4> QED BY <2>2, <4>1
    <3> QED BY <3>3, <3>4
  <2> QED BY <2>4, <2>5
<1> QED BY <1>1, <1>2 DEF Min, Max

(* How many of the days S are not after n. *)
UpTo(S, n) == {k \in S : k <= n}

(* The i-th of the days S. *)
Ith(S, i) == CHOOSE n \in S : Cardinality(UpTo(S, n)) = i

(* Days are ranked by how many are not after them. *)
LEMMA Ranks ==
    ASSUME NEW S, S \subseteq Int, IsFiniteSet(S)
    PROVE  /\ Cardinality(S) \in Nat
           /\ \A n \in S : Cardinality(UpTo(S, n)) \in 1..Cardinality(S)
           /\ \A n, k \in S : n < k => Cardinality(UpTo(S, n)) < Cardinality(UpTo(S, k))
<1>1. ASSUME NEW n \in S
      PROVE  /\ IsFiniteSet(UpTo(S, n)) /\ Cardinality(UpTo(S, n)) \in 1..Cardinality(S)
  <2>1. UpTo(S, n) \subseteq S
    BY DEF UpTo
  <2>2. IsFiniteSet(UpTo(S, n)) /\ Cardinality(UpTo(S, n)) <= Cardinality(S)
    BY <2>1, FS_Subset
  <2>3. n \in UpTo(S, n)
    BY DEF UpTo
  <2>4. UpTo(S, n) # {}
    BY <2>3
  <2>5. Cardinality(UpTo(S, n)) \in Nat /\ Cardinality(UpTo(S, n)) # 0
    BY <2>2, <2>4, FS_CardinalityType, FS_EmptySet
  <2> QED BY <2>2, <2>5, FS_CardinalityType
<1>2. ASSUME NEW n \in S, NEW k \in S, n < k
      PROVE  Cardinality(UpTo(S, n)) < Cardinality(UpTo(S, k))
  <2>1. UpTo(S, n) \subseteq UpTo(S, k) \ {k}
    <3>1. n \in Int /\ k \in Int
      OBVIOUS
    <3>2. ASSUME NEW x \in S, x <= n PROVE x <= k /\ x # k
      <4>1. x \in Int
        OBVIOUS
      <4> QED BY <1>2, <3>1, <3>2, <4>1
    <3> QED BY <3>2 DEF UpTo
  <2>2. k \in UpTo(S, k)
    BY DEF UpTo
  <2>3. IsFiniteSet(UpTo(S, k) \ {k})
        /\ Cardinality(UpTo(S, k) \ {k}) = Cardinality(UpTo(S, k)) - 1
    BY <1>1, <2>2, FS_RemoveElement
  <2>4. Cardinality(UpTo(S, n)) <= Cardinality(UpTo(S, k)) - 1
    BY <2>1, <2>3, FS_Subset
  <2>5. Cardinality(UpTo(S, n)) \in Int /\ Cardinality(UpTo(S, k)) \in Int
    BY <1>1
  <2> QED BY <2>4, <2>5
<1> QED BY <1>1, <1>2, FS_CardinalityType

(* There is a day of each rank, and none between it and the next. *)
LEMMA IthDays ==
    ASSUME NEW S, S \subseteq Int, IsFiniteSet(S), NEW i \in 1..Cardinality(S)
    PROVE  /\ Ith(S, i) \in S /\ Cardinality(UpTo(S, Ith(S, i))) = i
           /\ \A k \in S : Ith(S, i) < k /\ i + 1 \in 1..Cardinality(S) => Ith(S, i + 1) <= k
           /\ i = Cardinality(S) => \A k \in S : k <= Ith(S, i)
<1> DEFINE Rank(n) == Cardinality(UpTo(S, n))
           N == Cardinality(S)
<1>1. /\ N \in Nat /\ \A n \in S : Rank(n) \in 1..N
      /\ \A n, k \in S : n < k => Rank(n) < Rank(k)
  BY Ranks
<1>2. ASSUME NEW j \in 1..N PROVE \E n \in S : Rank(n) = j
  <2> DEFINE Late == {n \in S : Rank(n) >= j}
  <2>1. S # {}
    BY <1>1, FS_EmptySet
  <2>2. Rank(Max(S)) = N /\ Max(S) \in S
    <3>1. Max(S) \in S /\ \A x \in S : x <= Max(S)
      BY <2>1, FirstAndLast DEF SomeDays
    <3>2. UpTo(S, Max(S)) = S
      BY <3>1 DEF UpTo
    <3> QED BY <3>1, <3>2
  <2>3. Late # {} /\ Late \subseteq Int /\ IsFiniteSet(Late)
    <3>1. Max(S) \in Late
      BY <1>1, <2>2
    <3>2. Late \subseteq S
      OBVIOUS
    <3> HIDE DEF Late
    <3> QED BY <3>1, <3>2, FS_Subset
  <2>4. PICK n \in Late : \A x \in Late : n <= x
    <3> HIDE DEF Late
    <3> QED BY <2>3, FirstAndLast DEF SomeDays
  <2>5. CASE Rank(n) = j
    BY <2>5
  <2>6. CASE Rank(n) # j
    <3> DEFINE Before == UpTo(S, n) \ {n}
    <3>1. n \in S /\ Rank(n) \in Nat /\ Rank(n) > j /\ n \in UpTo(S, n) /\ UpTo(S, n) \subseteq S
      BY <1>1, <2>4, <2>6 DEF UpTo
    <3>2. IsFiniteSet(Before) /\ Cardinality(Before) = Rank(n) - 1
      <4>1. IsFiniteSet(UpTo(S, n))
        BY <3>1, FS_Subset
      <4> QED BY <3>1, <4>1, FS_RemoveElement
    <3>3. Before # {} /\ Before \subseteq Int
      <4>1. Cardinality(Before) # 0
        BY <3>1, <3>2
      <4>2. Cardinality({}) = 0
        BY FS_EmptySet
      <4> QED BY <3>1, <4>1, <4>2
    <3>4. PICK p \in Before : \A x \in Before : x <= p
      <4> HIDE DEF Before
      <4> QED BY <3>2, <3>3, FirstAndLast DEF SomeDays
    <3>5. p \in S /\ p < n
      BY <3>1, <3>4 DEF UpTo
    <3>6. UpTo(S, p) = Before
      <4>1. n \in Int /\ p \in Int
        BY <3>1, <3>5
      <4>2. ASSUME NEW x \in S PROVE x <= p <=> x <= n /\ x # n
        <5>1. x \in Int
          OBVIOUS
        <5>2. x <= n /\ x # n => x <= p
          BY <3>4 DEF UpTo
        <5> QED BY <3>5, <4>1, <5>1, <5>2
      <4> QED BY <4>2 DEF UpTo
    <3>7. Rank(p) >= j
      BY <3>1, <3>2, <3>6
    <3> QED BY <2>4, <3>1, <3>5, <3>7
  <2> QED BY <2>5, <2>6
<1>3. \A j \in 1..N : Ith(S, j) \in S /\ Rank(Ith(S, j)) = j
  BY <1>2 DEF Ith
<1> HIDE DEF Rank, N
<1>4. ASSUME NEW k \in S, Ith(S, i) < k, i + 1 \in 1..N PROVE Ith(S, i + 1) <= k
  <2>1. i \in 1..N /\ i \in Int
    BY DEF N
  <2>2. Rank(k) > i /\ Rank(k) \in Int
    <3>1. Ith(S, i) \in S /\ Rank(Ith(S, i)) = i
      BY <1>3, <2>1
    <3>2. Rank(Ith(S, i)) < Rank(k) /\ Rank(k) \in 1..N
      BY <1>1, <1>4, <3>1
    <3> QED BY <2>1, <3>1, <3>2
  <2>4. ~(k < Ith(S, i + 1))
    <3>1. Rank(Ith(S, i + 1)) = i + 1 /\ Ith(S, i + 1) \in S
      BY <1>3, <1>4
    <3>2. k < Ith(S, i + 1) => Rank(k) < i + 1
      BY <1>1, <3>1
    <3> QED BY <2>1, <2>2, <3>2
  <2>3. Ith(S, i + 1) \in Int /\ k \in Int
    BY <1>3, <1>4
  <2> QED BY <2>3, <2>4
<1>5. ASSUME i = N, NEW k \in S PROVE k <= Ith(S, i)
  <2>1. Ith(S, i) \in S /\ Rank(Ith(S, i)) = N
    BY <1>3, <1>5 DEF N
  <2>2. Rank(k) \in 1..N
    BY <1>1
  <2>3. ~(Ith(S, i) < k)
    <3>1. Ith(S, i) < k => N < Rank(k)
      BY <1>1, <2>1
    <3> QED BY <1>1, <2>2, <3>1
  <2>4. k \in Int /\ Ith(S, i) \in Int
    BY <2>1
  <2> QED BY <2>3, <2>4
<1> QED BY <1>3, <1>4, <1>5 DEF Rank, N

-----------------------------------------------------------------------------
(* The month headings *)

(* What the headings are computed from: the days that open one, from the first on. *)
IsHeaded(S, first, after) ==
    /\ S \subseteq Int /\ IsFiniteSet(S)
    /\ first \in S /\ after \in Int /\ \A k \in S : first <= k /\ k < after

(* The first day of heading i, and of the one after it. *)
Opens(S, after, i) == IF i = Cardinality(S) + 1 THEN after ELSE Ith(S, i)

(* The headings begin with the first day, one after the other. *)
LEMMA HeadingsInOrder ==
    ASSUME NEW S, NEW first, NEW after, IsHeaded(S, first, after)
    PROVE  /\ Cardinality(S) \in Nat /\ Cardinality(S) >= 1
           /\ Opens(S, after, 1) = first
           /\ \A i \in 1..(Cardinality(S) + 1) : Opens(S, after, i) \in Int
           /\ \A i \in 1..Cardinality(S) : Opens(S, after, i) \in S
           /\ \A i \in 1..Cardinality(S) : \A k \in S :
                Opens(S, after, i) < k => Opens(S, after, i + 1) <= k
<1> DEFINE N == Cardinality(S)
<1>1. S \subseteq Int /\ IsFiniteSet(S) /\ first \in S /\ after \in Int
      /\ \A k \in S : first <= k /\ k < after
  BY DEF IsHeaded
<1>2. N \in Nat /\ N >= 1
  BY <1>1, FS_CardinalityType, FS_EmptySet
<1> HIDE DEF N
<1>3. \A i \in 1..N : /\ Ith(S, i) \in S /\ Cardinality(UpTo(S, Ith(S, i))) = i
                      /\ \A k \in S : Ith(S, i) < k /\ i + 1 \in 1..N => Ith(S, i + 1) <= k
                      /\ i = N => \A k \in S : k <= Ith(S, i)
  BY <1>1, IthDays DEF N
<1>4. \A i \in 1..N : Opens(S, after, i) = Ith(S, i)
  BY <1>2 DEF Opens, N
<1>5. Opens(S, after, N + 1) = after
  BY DEF Opens, N
<1>6. Ith(S, 1) = first
  <2>1. 1 \in 1..N
    BY <1>2
  <2>2. Ith(S, 1) \in S /\ Cardinality(UpTo(S, Ith(S, 1))) = 1
    BY <1>3, <2>1
  <2>3. ~(first < Ith(S, 1))
    <3>1. first < Ith(S, 1) =>
            Cardinality(UpTo(S, first)) < Cardinality(UpTo(S, Ith(S, 1)))
      BY <1>1, <2>2, Ranks
    <3>2. Cardinality(UpTo(S, first)) \in 1..Cardinality(S)
      BY <1>1, Ranks
    <3>3. Cardinality(UpTo(S, first)) \in Int /\ Cardinality(UpTo(S, first)) >= 1
      BY <1>2, <3>2 DEF N
    <3> QED BY <2>2, <3>1, <3>3
  <2>4. first <= Ith(S, 1) /\ first \in Int /\ Ith(S, 1) \in Int
    BY <1>1, <2>2
  <2> QED BY <2>3, <2>4
<1>7. ASSUME NEW i \in 1..(N + 1) PROVE Opens(S, after, i) \in Int
  <2>1. CASE i = N + 1
    BY <1>1, <1>5, <2>1
  <2>2. CASE i # N + 1
    <3>1. i \in 1..N
      BY <1>2, <2>2
    <3> QED BY <1>1, <1>3, <1>4, <3>1
  <2> QED BY <2>1, <2>2
<1>8. ASSUME NEW i \in 1..N, NEW k \in S, Opens(S, after, i) < k
      PROVE  Opens(S, after, i + 1) <= k
  <2>1. Ith(S, i) < k
    BY <1>4, <1>8
  <2>2. CASE i = N
    <3>1. k <= Ith(S, i) /\ k \in Int /\ Ith(S, i) \in Int
      BY <1>1, <1>3, <2>2
    <3> QED BY <2>1, <3>1
  <2>3. CASE i # N
    <3>1. i + 1 \in 1..N
      BY <1>2, <2>3
    <3>2. Ith(S, i + 1) <= k
      BY <1>3, <2>1, <3>1
    <3> QED BY <1>4, <3>1, <3>2
  <2> QED BY <2>2, <2>3
<1>9. 1 \in 1..N
  BY <1>2
<1>10. Opens(S, after, 1) = first
  BY <1>4, <1>6, <1>9
<1>11. \A i \in 1..N : Opens(S, after, i) \in S
  BY <1>3, <1>4
<1> QED BY <1>2, <1>7, <1>8, <1>10, <1>11 DEF N

(* The headings that MonthSegments computes. *)
LEMMA Segments ==
    ASSUME NEW S, NEW first, NEW after, IsHeaded(S, first, after)
    PROVE  LET segments == MonthSegments(S, after) IN
           /\ Len(segments) = Cardinality(S) /\ DOMAIN segments = 1..Cardinality(S)
           /\ \A i \in 1..Cardinality(S) :
                /\ segments[i].month = Front(CivilFromDays(Opens(S, after, i)))
                /\ segments[i].days = Opens(S, after, i + 1) - Opens(S, after, i)
<1> DEFINE start(i) == CHOOSE n \in S : Cardinality({k \in S : k <= n}) = i
           end(i) == IF i = Cardinality(S) THEN after ELSE start(i + 1)
           segments == [i \in 1..Cardinality(S) |->
               [month |-> Front(CivilFromDays(start(i))), days |-> end(i) - start(i)]]
<1>1. MonthSegments(S, after) = segments
  BY DEF MonthSegments
<1>2. \A i \in 1..Cardinality(S) :
        start(i) = Ith(S, i) /\ end(i) = IF i = Cardinality(S) THEN after ELSE Ith(S, i + 1)
  BY DEF Ith, UpTo
<1> HIDE DEF start, end
<1>3. Cardinality(S) \in Nat /\ Cardinality(S) >= 1
  BY HeadingsInOrder
<1>4. \A i \in 1..Cardinality(S) :
        start(i) = Opens(S, after, i) /\ end(i) = Opens(S, after, i + 1)
  <2> SUFFICES ASSUME NEW i \in 1..Cardinality(S)
               PROVE  start(i) = Opens(S, after, i) /\ end(i) = Opens(S, after, i + 1)
    OBVIOUS
  <2>1. i # Cardinality(S) + 1 /\ (i + 1 = Cardinality(S) + 1 <=> i = Cardinality(S))
    BY <1>3
  <2>2. Opens(S, after, i) = Ith(S, i)
    BY <2>1 DEF Opens
  <2>3. Opens(S, after, i + 1) = IF i = Cardinality(S) THEN after ELSE Ith(S, i + 1)
    BY <2>1 DEF Opens
  <2> QED BY <1>2, <2>2, <2>3
<1>5. Len(segments) = Cardinality(S) /\ DOMAIN segments = 1..Cardinality(S)
  BY <1>3
<1>6. \A i \in 1..Cardinality(S) :
        /\ segments[i].month = Front(CivilFromDays(Opens(S, after, i)))
        /\ segments[i].days = Opens(S, after, i + 1) - Opens(S, after, i)
  BY <1>4
<1> HIDE DEF segments
<1> QED BY <1>1, <1>5, <1>6

(* A heading ends where the next one opens. *)
LEMMA HeadingsEnd ==
    ASSUME NEW S, NEW first, NEW after, IsHeaded(S, first, after), NEW i \in 0..Cardinality(S)
    PROVE  HeadingEnd(first, MonthSegments(S, after), i) = Opens(S, after, i + 1)
<1> DEFINE segments == MonthSegments(S, after)
           Ends(f) == f = [k \in 0..i |-> IF k = 0 THEN first ELSE f[k - 1] + segments[k].days]
           end == CHOOSE f : Ends(f)
           it == [k \in 0..i |-> Opens(S, after, k + 1)]
<1>1. Cardinality(S) \in Nat
  BY HeadingsInOrder
<1>2. HeadingEnd(first, segments, i) = end[i]
  BY DEF HeadingEnd
<1>3. ASSUME NEW k \in 0..i, k # 0
      PROVE  /\ k - 1 \in 0..i /\ k \in 1..Cardinality(S)
             /\ Opens(S, after, (k - 1) + 1) + segments[k].days = Opens(S, after, k + 1)
  <2>1. k - 1 \in 0..i /\ k \in 1..Cardinality(S) /\ (k - 1) + 1 = k
        /\ k \in 1..(Cardinality(S) + 1) /\ k + 1 \in 1..(Cardinality(S) + 1)
    BY <1>1, <1>3
  <2>2. Opens(S, after, k) \in Int /\ Opens(S, after, k + 1) \in Int
    BY <2>1, HeadingsInOrder
  <2>3. segments[k].days = Opens(S, after, k + 1) - Opens(S, after, k)
    BY <2>1, Segments
  <2> HIDE DEF segments
  <2> QED BY <2>1, <2>2, <2>3
<1> HIDE DEF segments
<1>4. Opens(S, after, 0 + 1) = first
  BY HeadingsInOrder
<1>5. Ends(it)
  <2>1. ASSUME NEW k \in 0..i
        PROVE  it[k] = IF k = 0 THEN first ELSE it[k - 1] + segments[k].days
    <3>1. CASE k = 0
      BY <1>4, <3>1
    <3>2. CASE k # 0
      <4>1. k - 1 \in 0..i /\ it[k - 1] = Opens(S, after, (k - 1) + 1)
        BY <1>3, <3>2
      <4>2. it[k] = Opens(S, after, k + 1)
        OBVIOUS
      <4> HIDE DEF it
      <4> QED BY <1>3, <3>2, <4>1, <4>2
    <3> QED BY <3>1, <3>2
  <2> QED BY <2>1
<1>6. Ends(end)
  <2> HIDE DEF Ends, it
  <2> QED BY <1>5
<1> HIDE DEF end
<1>7. \A k \in 0..i : end[k] = IF k = 0 THEN first ELSE end[k - 1] + segments[k].days
  BY <1>6
<1> DEFINE D == {k \in Nat : k \in 0..i /\ end[k] # Opens(S, after, k + 1)}
<1>8. D = {}
  <2> SUFFICES ASSUME D # {} PROVE FALSE
    OBVIOUS
  <2>1. PICK k \in D : \A j \in D : k <= j
    <3>1. D \subseteq Nat
      OBVIOUS
    <3> HIDE DEF D
    <3> QED BY <3>1, LeastNumber
  <2>2. k \in 0..i /\ end[k] # Opens(S, after, k + 1)
    OBVIOUS
  <2>3. k # 0
    BY <1>4, <1>7, <2>2
  <2>4. k - 1 \in 0..i /\ k - 1 \in Nat /\ ~(k <= k - 1)
    BY <2>2, <2>3
  <2>5. end[k - 1] = Opens(S, after, (k - 1) + 1)
    BY <2>1, <2>4
  <2>6. end[k] = end[k - 1] + segments[k].days
    BY <1>7, <2>2, <2>3
  <2> QED BY <1>3, <2>2, <2>3, <2>5, <2>6
<1>9. end[i] = Opens(S, after, i + 1)
  <2>1. i \in 0..i /\ i \in Nat
    BY <1>1
  <2> QED BY <1>8, <2>1
<1> QED BY <1>2, <1>9 DEF segments

(* The headings cover the days of the chart, each day under its month. *)
LEMMA HeadingsCover ==
    ASSUME NEW first \in Int, NEW range \in Nat, range >= 1
    PROVE  HeadingsFit(first, first + range,
                       MonthSegments(SegmentStarts(first, range), first + range))
<1> DEFINE S == SegmentStarts(first, range)
           after == first + range
           segments == MonthSegments(S, after)
           N == Cardinality(S)
           Month(n) == Front(CivilFromDays(n))
<1>1. IsHeaded(S, first, after)
  <2>1. S \subseteq first..(first + range - 1) /\ first \in S
    BY DEF SegmentStarts
  <2>2. IsFiniteSet(first..(first + range - 1))
    BY FS_Interval
  <2>3. IsFiniteSet(S)
    <3> HIDE DEF S
    <3> QED BY <2>1, <2>2, FS_Subset
  <2> HIDE DEF S
  <2>4. \A k \in S : first <= k /\ k < first + range
    BY <2>1
  <2>5. S \subseteq Int
    BY <2>1
  <2> QED BY <2>1, <2>3, <2>4, <2>5 DEF IsHeaded
<1>2. \A n \in first..(after - 1) : n \notin S => n # first /\ Month(n) = Month(n - 1)
  BY DEF SegmentStarts
<1> HIDE DEF S, Month
<1>3. after \in Int /\ \A k \in S : first <= k /\ k < after
  BY <1>1 DEF IsHeaded
<1> HIDE DEF after
<1>4. /\ N \in Nat /\ N >= 1
      /\ Opens(S, after, 1) = first
      /\ \A i \in 1..(N + 1) : Opens(S, after, i) \in Int
      /\ \A i \in 1..N : Opens(S, after, i) \in S
      /\ \A i \in 1..N : \A k \in S : Opens(S, after, i) < k => Opens(S, after, i + 1) <= k
  BY <1>1, HeadingsInOrder
<1>5. /\ Len(segments) = N /\ DOMAIN segments = 1..N
      /\ \A i \in 1..N : segments[i].month = Front(CivilFromDays(Opens(S, after, i)))
  BY <1>1, Segments
<1>6. \A i \in 0..N : HeadingEnd(first, segments, i) = Opens(S, after, i + 1)
  BY <1>1, HeadingsEnd
<1>7. Opens(S, after, N + 1) = after
  BY DEF Opens
<1> HIDE DEF segments, N
<1>8. ASSUME NEW i \in 1..N, NEW n \in Int, Opens(S, after, i) <= n, n < Opens(S, after, i + 1)
      PROVE  Month(n) = Month(Opens(S, after, i))
  <2> DEFINE D == {j \in Nat : /\ Opens(S, after, i) + j < Opens(S, after, i + 1)
                               /\ Month(Opens(S, after, i) + j) # Month(Opens(S, after, i))}
  <2>1. PICK o \in Int : o = Opens(S, after, i)
    <3>1. i \in 1..(N + 1)
      BY <1>4
    <3> QED BY <1>4, <3>1
  <2>2. PICK e \in Int : e = Opens(S, after, i + 1) /\ e <= after
    <3>1. i + 1 \in 1..(N + 1) /\ (i + 1 \in 1..N \/ i = N)
      BY <1>4
    <3>2. Opens(S, after, i + 1) \in Int
      BY <1>4, <3>1
    <3>3. Opens(S, after, i + 1) <= after
      <4>1. CASE i + 1 \in 1..N
        <5>1. Opens(S, after, i + 1) < after
          BY <1>3, <1>4, <4>1
        <5> QED BY <1>3, <3>2, <5>1
      <4>2. CASE i = N
        BY <1>3, <1>7, <4>2
      <4> QED BY <3>1, <4>1, <4>2
    <3> QED BY <3>2, <3>3
  <2>3. D = {}
    <3> SUFFICES ASSUME D # {} PROVE FALSE
      OBVIOUS
    <3>1. PICK j \in D : \A k \in D : j <= k
      <4>1. D \subseteq Nat
        OBVIOUS
      <4> HIDE DEF D
      <4> QED BY <4>1, LeastNumber
    <3>2. j \in Nat /\ o + j < e /\ Month(o + j) # Month(o)
      BY <2>1, <2>2
    <3>3. j # 0
      <4>1. o + 0 = o
        OBVIOUS
      <4> HIDE DEF D
      <4> QED BY <3>2, <4>1
    <3>4. j - 1 \in Nat /\ ~(j <= j - 1) /\ o + (j - 1) < e
      BY <3>2, <3>3
    <3>5. Month(o + (j - 1)) = Month(o)
      BY <2>1, <2>2, <3>1, <3>4
    <3> HIDE DEF D
    <3>6. o + j \notin S
      <4> SUFFICES ASSUME o + j \in S PROVE FALSE
        OBVIOUS
      <4>1. o < o + j
        BY <3>2, <3>3
      <4>2. e <= o + j
        BY <1>4, <2>1, <2>2, <4>1
      <4> QED BY <3>2, <4>2
    <3>7. first <= o /\ first \in Int
      BY <1>3, <1>4, <2>1
    <3>8. o + j \in first..(after - 1)
      BY <1>3, <2>2, <3>2, <3>7
    <3>9. Month(o + j) = Month((o + j) - 1)
      BY <1>2, <3>6, <3>8
    <3>10. (o + j) - 1 = o + (j - 1)
      BY <3>2
    <3> QED BY <3>2, <3>5, <3>9, <3>10
  <2>4. n - o \in Nat /\ o + (n - o) = n
    BY <1>8, <2>1
  <2>5. n - o \notin D
    BY <2>3
  <2> QED BY <1>8, <2>1, <2>4, <2>5
<1>9. ASSUME NEW i \in 1..N,
             NEW n \in HeadingEnd(first, segments, i - 1)..(HeadingEnd(first, segments, i) - 1)
      PROVE  Front(DateOf(n)) = segments[i].month
  <2>1. i - 1 \in 0..N /\ i \in 0..N /\ (i - 1) + 1 = i
        /\ i \in 1..(N + 1) /\ i + 1 \in 1..(N + 1)
    BY <1>4
  <2>2. /\ HeadingEnd(first, segments, i - 1) = Opens(S, after, i)
        /\ HeadingEnd(first, segments, i) = Opens(S, after, i + 1)
    BY <1>6, <2>1
  <2>3. Opens(S, after, i) \in Int /\ Opens(S, after, i + 1) \in Int
    BY <1>4, <2>1
  <2>4. n \in Int /\ Opens(S, after, i) <= n /\ n < Opens(S, after, i + 1)
    BY <2>2, <2>3
  <2>5. Month(n) = Month(Opens(S, after, i))
    BY <1>8, <2>4
  <2>6. CivilFromDays(n) = DateOf(n)
    BY <2>4, ClientAgrees
  <2> QED BY <1>5, <2>5, <2>6 DEF Month
<1>10. HeadingEnd(first, segments, Len(segments)) = after
  <2>1. N \in 0..N
    BY <1>4
  <2> QED BY <1>5, <1>6, <1>7, <2>1
<1>11. HeadingsFit(first, after, segments)
  BY <1>5, <1>9, <1>10 DEF HeadingsFit
<1> QED BY <1>11 DEF S, after, segments

-----------------------------------------------------------------------------
(* Bars and marks *)

(* A maximum of two numbers. *)
LEMMA MaxOfTwo ==
    ASSUME NEW a \in Int, NEW b \in Int
    PROVE  Max({a, b}) = IF a >= b THEN a ELSE b
<1> DEFINE e == IF a >= b THEN a ELSE b
<1>1. e \in {a, b} /\ \A x \in {a, b} : e >= x
  OBVIOUS
<1>2. \A x \in {a, b} : (\A z \in {a, b} : x >= z) => x = e
  OBVIOUS
<1> HIDE DEF e
<1>3. Max({a, b}) = e
  BY <1>1, <1>2 DEF Max
<1> QED BY <1>3 DEF e

(* A bar of at least one day. *)
IsBar(b) == \E lo \in Int, hi \in Int : lo <= hi /\ b = <<lo, hi>>

Lefts(bars) == {b[1] : b \in bars}
Rights(bars) == {b[2] : b \in bars}

(* All that is charted is within the bounds of the chart. *)
LEMMA WithinBounds ==
    ASSUME NEW bars, \A b \in bars : IsBar(b), NEW days, days \subseteq Int,
           SomeDays(Lefts(bars) \cup days), SomeDays(Rights(bars) \cup days)
    PROVE  \E first \in Int, last \in Int :
             /\ TimelineBounds(bars, days) = <<first, last>>
             /\ first <= last
             /\ \A b \in bars : b[1] \in Int /\ b[2] \in Int
                                /\ first <= b[1] /\ b[1] <= b[2] /\ b[2] <= last
             /\ \A d \in days : first <= d /\ d <= last
<1> DEFINE Ls == Lefts(bars) \cup days
           Rs == Rights(bars) \cup days
           first == Min(Ls)
           last == Max(Rs)
<1>1. first \in Ls /\ \A x \in Ls : first <= x
  BY FirstAndLast
<1>2. last \in Rs /\ \A x \in Rs : x <= last
  BY FirstAndLast
<1>3. TimelineBounds(bars, days) = <<first, last>>
  BY DEF TimelineBounds, Lefts, Rights
<1> HIDE DEF first, last
<1>4. first \in Int /\ last \in Int
  BY <1>1, <1>2 DEF SomeDays
<1>5. ASSUME NEW b \in bars
      PROVE  /\ b[1] \in Int /\ b[2] \in Int
             /\ first <= b[1] /\ b[1] <= b[2] /\ b[2] <= last
  <2>1. b[1] \in Int /\ b[2] \in Int /\ b[1] <= b[2]
    BY DEF IsBar
  <2>2. b[1] \in Ls /\ b[2] \in Rs
    BY DEF Lefts, Rights
  <2> QED BY <1>1, <1>2, <2>1, <2>2
<1>6. ASSUME NEW d \in days PROVE first <= d /\ d <= last
  BY <1>1, <1>2
<1>7. first <= last
  <2>1. CASE first \in days
    BY <1>6, <2>1
  <2>2. CASE first \notin days
    <3>1. PICK b \in bars : first = b[1]
      BY <1>1, <2>2 DEF Lefts
    <3> QED BY <1>4, <1>5, <3>1
  <2> QED BY <2>1, <2>2
<1> QED BY <1>3, <1>4, <1>5, <1>6, <1>7

(* Where bars, milestones and today are on the chart. *)
LEMMA OnTheChart ==
    ASSUME NEW first \in Int, NEW last \in Int, first <= last
    PROVE  /\ TimelineRange(<<first, last>>) = last - first + 1
           /\ \A n \in Int : first <= n => SpanLeft(n, first) = n - first
                                           /\ DayCenter(n, first) = 2 * (n - first) + 1
           /\ \A lo, hi \in Int : lo <= hi => SpanWidth(lo, hi) = hi - lo + 1
<1>1. TimelineRange(<<first, last>>) = last - first + 1
  <2>1. Max({last - first + 1, 1}) = last - first + 1
    <3>1. PICK a \in Int : a = last - first + 1 /\ a >= 1
      OBVIOUS
    <3>2. Max({a, 1}) = a
      BY <3>1, MaxOfTwo
    <3> QED BY <3>1, <3>2
  <2> QED BY <2>1 DEF TimelineRange
<1>2. ASSUME NEW n \in Int, first <= n
      PROVE  SpanLeft(n, first) = n - first /\ DayCenter(n, first) = 2 * (n - first) + 1
  <2>1. Max({n - first, 0}) = n - first
    <3>1. PICK a \in Int : a = n - first /\ a >= 0
      BY <1>2
    <3>2. Max({a, 0}) = a
      BY <3>1, MaxOfTwo
    <3> QED BY <3>1, <3>2
  <2> QED BY <2>1 DEF SpanLeft, DayCenter
<1>3. ASSUME NEW lo \in Int, NEW hi \in Int, lo <= hi
      PROVE  SpanWidth(lo, hi) = hi - lo + 1
  <2>1. PICK a \in Int : a = hi - lo + 1 /\ a >= 1
    BY <1>3
  <2>2. Max({a, 1}) = a
    BY <2>1, MaxOfTwo
  <2> QED BY <2>1, <2>2 DEF SpanWidth
<1> QED BY <1>1, <1>2, <1>3

(* The dates of a task, in whichever order. *)
IsSpan(span) ==
    /\ span = <<span[1], span[2]>>
    /\ span[1] = NoDate \/ Spelled(span[1])
    /\ span[2] = NoDate \/ Spelled(span[2])

(* The bar of a task goes from its first day to its last. *)
LEMMA BarOfTask ==
    ASSUME NEW span, IsSpan(span)
    PROVE  /\ DaysOf(span) = {} => ScheduledTaskDays(span) = <<>>
           /\ DaysOf(span) # {} =>
                \E lo \in Int, hi \in Int :
                    /\ ScheduledTaskDays(span) = <<lo, hi>> /\ lo <= hi
                    /\ \A day \in DaysOf(span) : day \in Int /\ lo <= day /\ day <= hi
<1> DEFINE days == IsoDayNumber(span[1]) \cup IsoDayNumber(span[2])
<1>1. IsoDayNumber(NoDate) = {}
  BY DEF IsoDayNumber, ParseIso
<1>2. \A d : Spelled(d) => d # NoDate /\ IsoDayNumber(d) = {DayNumber(d)} /\ DayNumber(d) \in Int
  BY ClientAgrees, DatesAreDays DEF Spelled
<1>3. /\ IsoDayNumber(span[1]) = IF span[1] = NoDate THEN {} ELSE {DayNumber(span[1])}
      /\ IsoDayNumber(span[2]) = IF span[2] = NoDate THEN {} ELSE {DayNumber(span[2])}
      /\ span[1] # NoDate => DayNumber(span[1]) \in Int
      /\ span[2] # NoDate => DayNumber(span[2]) \in Int
  BY <1>1, <1>2 DEF IsSpan
<1>4. DaysOf(span) = days
  BY <1>3 DEF DaysOf
<1>5. days \subseteq Int
  BY <1>3
<1>6. IsFiniteSet(days)
  <2>1. IsFiniteSet(IsoDayNumber(span[1])) /\ IsFiniteSet(IsoDayNumber(span[2]))
    BY <1>3, FS_EmptySet, FS_Singleton
  <2> QED BY <2>1, FS_Union
<1>7. ScheduledTaskDays(span) = IF days = {} THEN <<>> ELSE <<Min(days), Max(days)>>
  BY DEF ScheduledTaskDays
<1> HIDE DEF days
<1>8. CASE days # {}
  <2>1. SomeDays(days)
    BY <1>5, <1>6, <1>8 DEF SomeDays
  <2>2. /\ Min(days) \in days /\ \A x \in days : Min(days) <= x
        /\ Max(days) \in days /\ \A x \in days : x <= Max(days)
    BY <2>1, FirstAndLast
  <2>3. Min(days) \in Int /\ Max(days) \in Int /\ Min(days) <= Max(days)
    BY <1>5, <2>2
  <2>4. ScheduledTaskDays(span) = <<Min(days), Max(days)>>
    BY <1>7, <1>8
  <2> QED BY <1>4, <1>5, <1>8, <2>2, <2>3, <2>4
<1> QED BY <1>4, <1>7, <1>8

(* The chart of two tasks and a milestone. *)
LEMMA ChartOfDates ==
    ASSUME NEW s, IsSpan(s), NEW t, IsSpan(t), NEW m, m = NoDate \/ Spelled(m),
           DaysOf(s) # {} \/ DaysOf(t) # {} \/ m # NoDate
    PROVE  ChartFits(GanttView({s, t}, {m}, Monday), {s, t})
<1> DEFINE bars == {ScheduledTaskDays(x) : x \in {s, t}} \ {<<>>}
           days == UNION {IsoDayNumber(x) : x \in {m}}
           chart == GanttView({s, t}, {m}, Monday)
<1>1. \A x \in {s, t} : IsSpan(x)
  OBVIOUS
<1>2. ASSUME NEW b \in bars PROVE IsBar(b)
  <2>1. PICK x \in {s, t} : b = ScheduledTaskDays(x) /\ b # <<>>
    OBVIOUS
  <2>2. DaysOf(x) # {}
    BY <1>1, <2>1, BarOfTask
  <2> QED BY <1>1, <2>1, <2>2, BarOfTask DEF IsBar
<1>3. ASSUME NEW x \in {s, t}, DaysOf(x) # {}
      PROVE  \E lo \in Int, hi \in Int :
               /\ <<lo, hi>> \in bars /\ lo <= hi
               /\ \A day \in DaysOf(x) : day \in Int /\ lo <= day /\ day <= hi
  <2>1. PICK lo \in Int, hi \in Int :
          /\ ScheduledTaskDays(x) = <<lo, hi>> /\ lo <= hi
          /\ \A day \in DaysOf(x) : day \in Int /\ lo <= day /\ day <= hi
    BY <1>1, <1>3, BarOfTask
  <2>2. <<lo, hi>> \in bars
    BY <2>1
  <2> QED BY <2>1, <2>2
<1>4. days = (IF m = NoDate THEN {} ELSE {DayNumber(m)}) /\ (m # NoDate => DayNumber(m) \in Int)
  <2>1. days = IsoDayNumber(m)
    OBVIOUS
  <2>2. IsoDayNumber(NoDate) = {}
    BY DEF IsoDayNumber, ParseIso
  <2>3. m # NoDate => IsoDayNumber(m) = {DayNumber(m)} /\ DayNumber(m) \in Int
    BY ClientAgrees, DatesAreDays DEF Spelled
  <2> QED BY <2>1, <2>2, <2>3
<1>5. SomeDays(Lefts(bars) \cup days) /\ SomeDays(Rights(bars) \cup days)
  <2> DEFINE bs == ScheduledTaskDays(s)
             bt == ScheduledTaskDays(t)
  <2>1. Lefts(bars) \subseteq {bs[1], bt[1]} /\ Rights(bars) \subseteq {bs[2], bt[2]}
    BY DEF Lefts, Rights
  <2>2. IsFiniteSet({bs[1], bt[1]}) /\ IsFiniteSet({bs[2], bt[2]})
    <3>1. ASSUME NEW a, NEW b PROVE IsFiniteSet({a, b})
      <4>1. IsFiniteSet({a}) /\ IsFiniteSet({b})
        BY FS_Singleton
      <4>2. IsFiniteSet({a} \cup {b})
        BY <4>1, FS_Union
      <4>3. {a, b} = {a} \cup {b}
        OBVIOUS
      <4> QED BY <4>2, <4>3
    <3> QED BY <3>1
  <2>3. IsFiniteSet(Lefts(bars)) /\ IsFiniteSet(Rights(bars))
    BY <2>1, <2>2, FS_Subset
  <2>4. IsFiniteSet(days) /\ days \subseteq Int
    BY <1>4, FS_EmptySet, FS_Singleton
  <2> HIDE DEF bars, days
  <2>5. IsFiniteSet(Lefts(bars) \cup days) /\ IsFiniteSet(Rights(bars) \cup days)
    BY <2>3, <2>4, FS_Union
  <2>6. Lefts(bars) \subseteq Int /\ Rights(bars) \subseteq Int
    BY <1>2 DEF Lefts, Rights, IsBar
  <2>7. Lefts(bars) \cup days # {} /\ Rights(bars) \cup days # {}
    <3>1. CASE m # NoDate
      <4>1. days # {}
        BY <1>4, <3>1
      <4> QED BY <4>1
    <3>2. CASE m = NoDate
      <4>1. PICK b : b \in bars
        BY <1>3, <3>2
      <4>2. b[1] \in Lefts(bars) /\ b[2] \in Rights(bars)
        BY <4>1 DEF Lefts, Rights
      <4> QED BY <4>2
    <3> QED BY <3>1, <3>2
  <2> QED BY <2>4, <2>5, <2>6, <2>7 DEF SomeDays
<1>6. days \subseteq Int
  BY <1>4
<1>7. chart = Chart(bars, days, TimelineBounds(bars, days), Monday)
  BY DEF GanttView
<1> HIDE DEF bars, days, chart
<1>8. PICK first \in Int, last \in Int :
        /\ TimelineBounds(bars, days) = <<first, last>>
        /\ first <= last
        /\ \A b \in bars : b[1] \in Int /\ b[2] \in Int
                           /\ first <= b[1] /\ b[1] <= b[2] /\ b[2] <= last
        /\ \A d \in days : first <= d /\ d <= last
  BY <1>2, <1>5, <1>6, WithinBounds
<1>9. PICK range \in Nat : range = last - first + 1 /\ range >= 1
  BY <1>8
<1>10. /\ TimelineRange(<<first, last>>) = range
       /\ \A n \in Int : first <= n => SpanLeft(n, first) = n - first
                                       /\ DayCenter(n, first) = 2 * (n - first) + 1
       /\ \A lo, hi \in Int : lo <= hi => SpanWidth(lo, hi) = hi - lo + 1
  BY <1>8, <1>9, OnTheChart
<1>11. /\ chart.first = first /\ chart.range = range
       /\ chart.segments = MonthSegments(SegmentStarts(first, range), first + range)
       /\ chart.bars = {<<SpanLeft(b[1], first), SpanWidth(b[1], b[2])>> : b \in bars}
       /\ chart.marks = {DayCenter(d, first) : d \in days}
       /\ chart.today = IF Monday \in first..last THEN {SpanLeft(Monday, first)} ELSE {}
  BY <1>7, <1>8, <1>10 DEF Chart
<1> HIDE DEF chart
<1>12. ASSUME NEW b \in chart.bars PROVE b[1] + b[2] <= chart.range
  <2>1. PICK x \in bars : b = <<SpanLeft(x[1], first), SpanWidth(x[1], x[2])>>
    BY <1>11
  <2>2. /\ x[1] \in Int /\ x[2] \in Int
        /\ first <= x[1] /\ x[1] <= x[2] /\ x[2] <= last
    BY <1>8
  <2>3. b[1] = x[1] - first /\ b[2] = x[2] - x[1] + 1
    BY <1>10, <2>1, <2>2
  <2> QED BY <1>9, <1>11, <2>2, <2>3
<1>13. ASSUME NEW mark \in chart.marks PROVE mark < 2 * chart.range
  <2>1. PICK d \in days : mark = DayCenter(d, first)
    BY <1>11
  <2>2. d \in Int /\ first <= d /\ d <= last
    BY <1>6, <1>8
  <2>3. mark = 2 * (d - first) + 1
    BY <1>10, <2>1, <2>2
  <2> QED BY <1>9, <1>11, <2>2, <2>3
<1>14. ASSUME NEW left \in chart.today PROVE left < chart.range
  <2>1. Monday \in first..last /\ left = SpanLeft(Monday, first)
    BY <1>11
  <2>2. left = Monday - first
    BY <1>10, <2>1
  <2> QED BY <1>9, <1>11, <2>1, <2>2
<1>15. HeadingsFit(chart.first, chart.first + chart.range, chart.segments)
  <2>1. HeadingsFit(first, first + range,
                    MonthSegments(SegmentStarts(first, range), first + range))
    BY <1>9, HeadingsCover
  <2> QED BY <1>11, <2>1
<1>16. ASSUME NEW x \in {s, t}, DaysOf(x) # {}
       PROVE  \E b \in chart.bars : \A day \in DaysOf(x) :
                day - chart.first \in b[1]..(b[1] + b[2] - 1)
  <2>1. PICK lo \in Int, hi \in Int :
          /\ <<lo, hi>> \in bars /\ lo <= hi
          /\ \A day \in DaysOf(x) : day \in Int /\ lo <= day /\ day <= hi
    BY <1>3, <1>16
  <2> DEFINE b == <<SpanLeft(lo, first), SpanWidth(lo, hi)>>
  <2>2. b \in chart.bars
    <3>1. PICK y \in bars : y = <<lo, hi>>
      BY <2>1
    <3>2. y[1] = lo /\ y[2] = hi
      BY <3>1
    <3> QED BY <1>11, <3>2
  <2>3. first <= lo
    <3>1. PICK y \in bars : y = <<lo, hi>>
      BY <2>1
    <3>2. y[1] = lo
      BY <3>1
    <3> QED BY <1>8, <3>2
  <2>4. b[1] = lo - first /\ b[2] = hi - lo + 1
    BY <1>10, <2>1, <2>3
  <2> HIDE DEF b
  <2>5. \A day \in DaysOf(x) : day - chart.first \in b[1]..(b[1] + b[2] - 1)
    BY <1>11, <2>1, <2>4
  <2> QED BY <2>2, <2>5
<1>17. ChartFits(chart, {s, t})
  BY <1>12, <1>13, <1>14, <1>15, <1>16 DEF ChartFits
<1> QED BY <1>17 DEF chart

(* Whatever the dates of two tasks and a milestone, the chart shows them. *)
THEOREM ChartsFit == AllChartsFit
<1> SUFFICES ASSUME NEW s \in ChartDates \X ChartDates, NEW t \in ChartDates \X ChartDates,
                    NEW m \in ChartDates, {s[1], s[2], t[1], t[2], m} # {NoDate}
             PROVE  ChartFits(GanttView({s, t}, {m}, Monday), {s, t})
  BY DEF AllChartsFit
<1>1. \A d \in ChartDates : d = NoDate \/ Spelled(d)
  <2> SUFFICES ASSUME NEW d \in ChartDates, d # NoDate PROVE Spelled(d)
    OBVIOUS
  <2>1. d \in Int \X Int \X Int /\ ParseIso(d) = d
    BY ScheduleAssumption
  <2>2. d[2] \in 1..12 /\ d[3] \in 1..DaysInMonth(d[1], d[2]) /\ d = <<d[1], d[2], d[3]>>
        /\ d[1] \in Int /\ d[1] >= 0
    BY <2>1 DEF ParseIso
  <2>3. DaysInMonth(d[1], d[2]) = MonthLength(d[1], d[2])
    BY <2>2, MonthLengths DEF Months
  <2> QED BY <2>2, <2>3 DEF IsDate, Spelled, Months
<1>2. IsSpan(s) /\ IsSpan(t)
  BY <1>1 DEF IsSpan
<1>3. s[1] # NoDate \/ s[2] # NoDate \/ t[1] # NoDate \/ t[2] # NoDate \/ m # NoDate
  OBVIOUS
<1>4. DaysOf(s) # {} \/ DaysOf(t) # {} \/ m # NoDate
  <2>1. \A x : x[1] # NoDate \/ x[2] # NoDate => DaysOf(x) # {}
    BY DEF DaysOf
  <2> QED BY <1>3, <2>1
<1> QED BY <1>1, <1>2, <1>4, ChartOfDates

(* All bars, marks and headings are on the chart, under the days they name. *)
THEOREM BarsAreOnTheChart == Spec => []BarsOnTheChart
<1>1. BarsOnTheChart
  BY ChartsFit DEF BarsOnTheChart
<1> QED BY <1>1, PTL
=============================================================================
