--------------------------- MODULE MembershipProofs ---------------------------
(***************************************************************************)
(* Proofs about Membership: for any accounts, membership ids, items and    *)
(* number of concurrent requests, the workspace keeps an owner, no account *)
(* joins twice, and the memberships change as Roster's atomic operations.  *)
(*                                                                         *)
(* LastOwner is not inductive: a demotion is safe because the transaction  *)
(* still holds, locked, another row that is an owner row.  Inv says so.    *)
(***************************************************************************)
EXTENDS Membership, FiniteSetTheorems, TLAPS

(* Where an assignment of a task has locked its row, if it has. *)
Assigning == {"check_assignees", "snapshot", "replace_assigned", "insert_assigned"}

(* The kind of request that runs each statement. *)
KindOK ==
    \A r \in Requests :
        /\ pc[r] \in Holding \cup {"lock_target"} => op[r].kind \in {"update", "remove"}
        /\ pc[r] = "clear_assigned" => op[r].kind = "remove"
        /\ pc[r] \in {"invite_check", "insert_member"} => op[r].kind = "invite"
        /\ pc[r] \in Assigning \cup {"write_task"} => op[r].kind = "assign"

(* A transaction past its first statement holds its target row. *)
TargetLocked ==
    \A r \in Requests : pc[r] \in Holding => lockedBy[op[r].target] = r

(* The rows a scan has returned are owner rows, and the transaction's. *)
ScannedRows ==
    \A r \in Requests : \A i \in owners[r] :
        lockedBy[i] = r /\ role[i] = "owner"

(* Past the last-owner check another owner row is held. *)
AnotherOwnerHeld ==
    \A r \in Requests :
        pc[r] \in {"write", "clear_assigned"} /\ TakesOwner(r)
            => \E j \in owners[r] : j # op[r].target

(* What requests know of the rows. *)
Control == KindOK /\ TargetLocked /\ TargetStable /\ ScannedRows /\ AnotherOwnerHeld

(* BeginInvite lets no request invite an owner. *)
InvitesNoOwner ==
    \A r \in Requests : op[r].kind = "invite" => op[r].newRole # "owner"

(* Only a transaction past its first statement holds row locks. *)
LocksHeld ==
    \A r \in Requests, i \in MemberIds : lockedBy[i] = r => pc[r] \in Holding

(* Authorize sends nobody else to the owner scan. *)
ScansTakeOwner ==
    \A r \in Requests : pc[r] \in {"owner_scan", "scan", "wait"} => TakesOwner(r)

(* Only an assignment past its UPDATE holds a task's row. *)
TasksWritten ==
    \A r \in Requests, x \in Items : writer[x] = r => pc[r] \in Assigning

(* Only writers of assignees hold assignments, and a removal those of its target. *)
RowsWritten ==
    \A r \in Requests :
        /\ cleared[r] # {} => pc[r] \in Deleting \cup {"insert_assigned"}
        /\ at[r] # {} => pc[r] \in Deleting
        /\ at[r] \subseteq rest[r]
        /\ pc[r] = "clear_assigned" =>
              \A p \in rest[r] \cup cleared[r] : p[2] = UserOf[op[r].target]

(* Who holds what other requests wait for. *)
Holders == LocksHeld /\ ScansTakeOwner /\ TasksWritten /\ RowsWritten

Inv == TypeOK /\ Control /\ InvitesNoOwner /\ LastOwner /\ OneRowPerUser /\ Holders

USE DEF Roles, Absent, Assigning, Deleting

-----------------------------------------------------------------------------
(* The fields a request of each kind has. *)
LEMMA OpFields ==
    ASSUME TypeOK, NEW r \in Requests
    PROVE  /\ op[r].kind \in {"update", "invite"} =>
                op[r] \in [kind : {"update", "invite"}, actor : Users,
                           target : MemberIds, newRole : Roles]
           /\ op[r].kind = "remove" =>
                op[r] \in [kind : {"remove"}, actor : Users, target : MemberIds]
           /\ op[r].kind = "assign" =>
                op[r] \in [kind : {"assign"}, item : Items, users : SUBSET Users,
                           fields : BOOLEAN]
BY DEF TypeOK, Ops, NoOp

(* The type invariant is kept when a request ends and its data keeps its type. *)
LEMMA FinishType ==
    ASSUME TypeOK, NEW r \in Requests, NEW gone, Finish(r, gone),
           role' \in [MemberIds -> Roles \cup {Absent}],
           used' \in SUBSET MemberIds,
           assigned' \in SUBSET (Items \X Users)
    PROVE  TypeOK'
BY MembershipAssumption DEF TypeOK, Finish, PCs, Ops, NoOp

(* The workspace starts well typed. *)
LEMMA InitType == Init => TypeOK
BY MembershipAssumption DEF Init, TypeOK, PCs, NoScan, Ops, NoOp

(* A request that begins keeps the type invariant. *)
LEMMA BeginType ==
    ASSUME TypeOK, NEW r \in Requests, Begin(r)
    PROVE  TypeOK'
<1>1. ASSUME NEW u \in Users, NEW i \in MemberIds, BeginRemove(r, u, i) PROVE TypeOK'
  BY <1>1 DEF BeginRemove, TypeOK, Goto, PCs, Ops, data, locks, scan, rows
<1>2. ASSUME NEW u \in Users, NEW i \in MemberIds, NEW ro \in Roles, BeginUpdate(r, u, i, ro)
      PROVE TypeOK'
  BY <1>2 DEF BeginUpdate, TypeOK, Goto, PCs, Ops, data, locks, scan, rows
<1>3. ASSUME NEW u \in Users, NEW i \in MemberIds, NEW ro \in Roles, BeginInvite(r, u, i, ro)
      PROVE TypeOK'
  BY <1>3 DEF BeginInvite, TypeOK, Goto, PCs, Ops, data, locks, scan, rows
<1>4. ASSUME NEW u \in Users, NEW x \in Items, NEW S \in SUBSET Users,
             NEW f \in BOOLEAN, BeginAssign(r, u, x, S, f)
      PROVE TypeOK'
  BY <1>4 DEF BeginAssign, TypeOK, Goto, PCs, Ops, data, locks, scan, rows
<1> QED BY <1>1, <1>2, <1>3, <1>4, MembershipAssumption DEF Begin

(* A row lock of the owner scan keeps the type invariant. *)
LEMMA LockOwnerType ==
    ASSUME TypeOK, NEW r \in Requests, NEW i \in MemberIds, LockOwner(r, i)
    PROVE  TypeOK'
BY DEF TypeOK, LockOwner, Goto, PCs, data, locks, rows

(* Every step keeps the type invariant. *)
LEMMA NextType == TypeOK /\ KindOK /\ [Next]_vars => TypeOK'
<1> SUFFICES ASSUME TypeOK, KindOK, [Next]_vars PROVE TypeOK'
  OBVIOUS
<1>1. CASE UNCHANGED vars
  BY <1>1 DEF vars, TypeOK
<1>2. ASSUME NEW r \in Requests, Begin(r) \/ Serve(r) \/ Abandon(r) \/ DeadlockAbort(r)
      PROVE  TypeOK'
  <2>1. CASE Begin(r)
    BY <2>1, BeginType
  <2>2. CASE TargetMissing(r) \/ Forbid(r) \/ RefuseLastOwner(r) \/ RefuseInvite(r)
             \/ RefuseAssignees(r) \/ DuplicateKey(r) \/ Abandon(r) \/ DeadlockAbort(r)
    <3>1. Finish(r, {}) /\ UNCHANGED data
      BY <2>2 DEF TargetMissing, Forbid, RefuseLastOwner, RefuseInvite,
                  RefuseAssignees, DuplicateKey, Abandon, DeadlockAbort, End
    <3> QED BY <3>1, FinishType DEF data, TypeOK
  <2>3. CASE LockTarget(r)
    <3>1. op[r].target \in MemberIds
      BY <2>3, OpFields DEF LockTarget, KindOK
    <3> QED BY <2>3, <3>1 DEF LockTarget, TypeOK, Goto, PCs, data, locks, scan, rows
  <2>4. CASE Authorize(r) \/ ScanDone(r) \/ CheckInvite(r) \/ CheckAssignees(r)
    BY <2>4 DEF Authorize, ScanDone, CheckInvite, CheckAssignees, TypeOK, Goto,
                PCs, data, locks, scan, rows
  <2>5. CASE OwnerScan(r)
    BY <2>5 DEF OwnerScan, OwnerIds, TypeOK, Goto, PCs, data, locks, rows
  <2>6. CASE ScanRow(r)
    BY <2>6, LockOwnerType DEF ScanRow, TypeOK
  <2>7. CASE ScanBlocks(r)
    BY <2>7 DEF ScanBlocks, TypeOK, Goto, PCs, data, locks, rows
  <2>8. CASE ScanWakes(r)
    BY <2>8, LockOwnerType DEF ScanWakes, TypeOK
  <2>9. CASE UpdateRole(r)
    <3>1. op[r].newRole \in Roles
      BY <2>9, OpFields DEF UpdateRole
    <3> QED BY <2>9, <3>1, FinishType DEF UpdateRole, End, TypeOK
  <2>10. CASE StartClearing(r) \/ StartReplacing(r) \/ DeleteRow(r) \/ DeleteBlocks(r)
    BY <2>10 DEF StartClearing, StartReplacing, DeleteRow, DeleteBlocks, TypeOK, Goto,
                 PCs, data, locks, scan
  <2>11. CASE RemoveMember(r)
    BY <2>11, FinishType DEF RemoveMember, TypeOK
  <2>12. CASE InsertMember(r)
    <3>1. op[r].newRole \in Roles
      BY <2>12, OpFields DEF InsertMember, KindOK
    <3> QED BY <2>12, <3>1, FinishType DEF InsertMember, End, TypeOK
  <2>13. CASE StartInserting(r) \/ InsertRow(r) \/ TouchTask(r)
    <3>1. op[r].item \in Items /\ op[r].users \in SUBSET Users
      BY <2>13, OpFields DEF StartInserting, InsertRow, Insertable, TouchTask, KindOK
    <3>2. Asked(r) \in SUBSET (Items \X Users)
      BY <3>1 DEF Asked
    <3>3. CASE StartInserting(r) \/ InsertRow(r)
      BY <3>2, <3>3 DEF StartInserting, InsertRow, TypeOK, Goto, PCs, data, locks, scan
    <3>4. CASE TouchTask(r)
      BY <3>2, <3>4, FinishType DEF TouchTask, TypeOK
    <3> QED BY <2>13, <3>3, <3>4
  <2>14. CASE WriteTask(r)
    <3>1. op[r].item \in Items
      BY <2>14, OpFields DEF WriteTask, KindOK
    <3> QED BY <2>14, <3>1 DEF WriteTask, TypeOK, Goto, PCs, data, locks, scan, rows
  <2> QED BY <1>2, <2>1, <2>2, <2>3, <2>4, <2>5, <2>6, <2>7, <2>8, <2>9,
             <2>10, <2>11, <2>12, <2>13, <2>14 DEF Serve
<1> QED BY <1>1, <1>2 DEF Next

-----------------------------------------------------------------------------
(* Ending a request frees exactly its rows and empties its scan. *)
LEMMA FinishEffect ==
    ASSUME TypeOK, NEW r \in Requests, NEW gone, Finish(r, gone)
    PROVE  /\ pc'[r] = "idle" /\ owners'[r] = {}
           /\ \A q \in Requests \ {r} :
                /\ pc'[q] = pc[q] /\ op'[q] = op[q] /\ seen'[q] = seen[q]
                /\ owners'[q] = owners[q]
           /\ \A q \in Requests \ {r}, i \in MemberIds :
                lockedBy[i] = q => lockedBy'[i] = q
BY DEF TypeOK, Finish

(* What a request knows of the rows survives another request's end, as long  *)
(* as the rows it holds keep their roles.                                     *)
LEMMA FinishControl ==
    ASSUME TypeOK, Control, NEW r \in Requests, NEW gone, Finish(r, gone),
           \A i \in MemberIds :
                lockedBy[i] \in Requests \ {r} /\ role[i] # Absent => role'[i] = role[i]
    PROVE  Control'
<1> USE FinishEffect
<1>1. KindOK'
  BY DEF Control, KindOK, Holding
<1>0. \A q \in Requests : pc[q] \in Holding => op[q].target \in MemberIds
  BY OpFields DEF Control, KindOK, Ops
<1>2. TargetLocked'
  BY <1>0 DEF Control, TargetLocked, Holding
<1>3. TargetStable'
  BY <1>0 DEF Control, TargetStable, TargetLocked, Holding
<1>4. ScannedRows'
  BY DEF Control, ScannedRows, TypeOK
<1>5. AnotherOwnerHeld'
  BY DEF Control, AnotherOwnerHeld, TakesOwner
<1> QED BY <1>1, <1>2, <1>3, <1>4, <1>5 DEF Control

(* A request that begins, and the steps that only move a request on, keep   *)
(* what requests know.                                                       *)
LEMMA BeginControl ==
    ASSUME TypeOK, Control, NEW r \in Requests, Begin(r)
    PROVE  Control' /\ role' = role
<1>1. /\ pc[r] = "idle"
      /\ pc' \in [Requests -> PCs] /\ op' \in [Requests -> Ops \cup {NoOp}]
      /\ \A q \in Requests \ {r} : pc'[q] = pc[q] /\ op'[q] = op[q]
      /\ UNCHANGED <<role, lockedBy, seen, owners>>
      /\ \/ pc'[r] = "lock_target" /\ op'[r].kind \in {"update", "remove"}
         \/ pc'[r] = "invite_check" /\ op'[r].kind = "invite"
         \/ pc'[r] \in {"write_task", "check_assignees"} /\ op'[r].kind = "assign"
  <2>1. TypeOK'
    BY BeginType
  <2> QED BY <2>1 DEF Begin, BeginRemove, BeginUpdate, BeginInvite, BeginAssign,
                      Goto, data, locks, scan, TypeOK
<1>2. KindOK'
  BY <1>1 DEF Control, KindOK, Holding
<1>3. TargetLocked'
  BY <1>1 DEF Control, TargetLocked, Holding
<1>4. TargetStable'
  BY <1>1 DEF Control, TargetStable, Holding
<1>5. ScannedRows'
  BY <1>1 DEF Control, ScannedRows
<1>6. AnotherOwnerHeld'
  BY <1>1 DEF Control, AnotherOwnerHeld, TakesOwner
<1> QED BY <1>1, <1>2, <1>3, <1>4, <1>5, <1>6 DEF Control

(* The owner scan takes rows nobody else holds. *)
LEMMA LockOwnerControl ==
    ASSUME TypeOK, Control, NEW r \in Requests, NEW i \in MemberIds,
           pc[r] \in {"scan", "wait"}, LockOwner(r, i)
    PROVE  Control' /\ role' = role
<1>1. role' = role /\ op' = op /\ seen' = seen
  BY DEF LockOwner, data
<1>2. \A q \in Requests : (pc'[q] \in Holding <=> pc[q] \in Holding)
        /\ (q # r => pc'[q] = pc[q]) /\ pc'[r] = "scan"
  BY DEF LockOwner, Goto, TypeOK, Holding
<1>3. \A q \in Requests, j \in MemberIds : lockedBy[j] = q => lockedBy'[j] = q
  BY MembershipAssumption DEF LockOwner, TypeOK
<1>0. \A q \in Requests : pc[q] \in Holding => op[q].target \in MemberIds
  BY OpFields DEF Control, KindOK
<1>4. KindOK'
  BY <1>1, <1>2 DEF Control, KindOK, Holding
<1>5. TargetLocked'
  BY <1>0, <1>1, <1>2, <1>3 DEF Control, TargetLocked
<1>6. TargetStable'
  BY <1>1, <1>2 DEF Control, TargetStable
<1>7. ScannedRows'
  <2> SUFFICES ASSUME NEW q \in Requests, NEW j \in owners'[q]
               PROVE  lockedBy'[j] = q /\ role'[j] = "owner"
    BY DEF ScannedRows
  <2>0. TypeOK'
    BY LockOwnerType
  <2>1. CASE j \in owners[q]
    BY <2>1, <1>1, <1>3, <2>0 DEF Control, ScannedRows, TypeOK
  <2>2. CASE j \notin owners[q]
    BY <2>2, <1>1 DEF LockOwner, TypeOK
  <2> QED BY <2>1, <2>2
<1>8. AnotherOwnerHeld'
  BY <1>1, <1>2 DEF Control, AnotherOwnerHeld, TakesOwner, LockOwner, TypeOK
<1> QED BY <1>1, <1>4, <1>5, <1>6, <1>7, <1>8 DEF Control

(* Two locked owner rows leave one beside the target. *)
LEMMA EnoughMeansAnother ==
    ASSUME TypeOK, NEW r \in Requests, EnoughOwners(r), NEW t
    PROVE  \E j \in owners[r] : j # t
<1> SUFFICES ASSUME owners[r] \subseteq {t} PROVE FALSE
  OBVIOUS
<1>1. owners[r] = {} \/ owners[r] = {t}
  OBVIOUS
<1>2. Cardinality(owners[r]) \in {0, 1}
  BY <1>1, FS_EmptySet, FS_Singleton
<1> QED BY <1>2 DEF EnoughOwners

-----------------------------------------------------------------------------
(* Roster's operations keep an owner and one row per account. *)
LEMMA RosterKeeps ==
    ASSUME role \in [MemberIds -> Roles \cup {Absent}],
           LastOwner, OneRowPerUser, R!Next
    PROVE  LastOwner' /\ OneRowPerUser'
<1>1. ASSUME NEW i \in MemberIds, R!Leave(i) PROVE LastOwner' /\ OneRowPerUser'
  BY <1>1 DEF R!Leave, R!AnotherOwner, R!Absent, LastOwner, OwnerIds, OneRowPerUser
<1>2. ASSUME NEW i \in MemberIds, NEW ro \in Roles, R!Join(i, ro)
      PROVE  LastOwner' /\ OneRowPerUser'
  BY <1>2 DEF R!Join, R!Absent, LastOwner, OwnerIds, OneRowPerUser
<1>3. ASSUME NEW i \in MemberIds, NEW ro \in Roles, R!ChangeRole(i, ro)
      PROVE  LastOwner' /\ OneRowPerUser'
  BY <1>3 DEF R!ChangeRole, R!AnotherOwner, R!Absent, LastOwner, OwnerIds, OneRowPerUser
<1> QED BY <1>1, <1>2, <1>3 DEF R!Next

(* An account without a committed membership has no row at all. *)
LEMMA NotMember ==
    ASSUME TypeOK, NEW i \in MemberIds, ~IsMember(UserOf[i])
    PROVE  \A j \in MemberIds : UserOf[j] = UserOf[i] => role[j] = Absent
BY DEF TypeOK, IsMember, HasRole

(* A role change is Roster's ChangeRole: the locked row still has the role     *)
(* read, and another owner row is held when it matters.                       *)
LEMMA UpdateIsRoster ==
    ASSUME TypeOK, Control, NEW r \in Requests, UpdateRole(r)
    PROVE  role' = role \/ \E i \in MemberIds, ro \in Roles : R!ChangeRole(i, ro)
<1> DEFINE i == op[r].target
           ro == op[r].newRole
<1>1. i \in MemberIds /\ ro \in Roles
  BY OpFields DEF UpdateRole
<1>2. role[i] = seen[r] /\ seen[r] # Absent
  BY DEF UpdateRole, Control, TargetStable, Holding
<1>3. role[i] = "owner" /\ ro # "owner" => R!AnotherOwner(i)
  <2> SUFFICES ASSUME role[i] = "owner", ro # "owner" PROVE R!AnotherOwner(i)
    OBVIOUS
  <2>1. TakesOwner(r)
    BY <1>2 DEF UpdateRole, TakesOwner
  <2>2. PICK j \in owners[r] : j # i
    BY <2>1 DEF UpdateRole, Control, AnotherOwnerHeld
  <2>3. j \in MemberIds /\ role[j] = "owner"
    BY DEF Control, ScannedRows, TypeOK
  <2> QED BY <2>2, <2>3 DEF R!AnotherOwner
<1>4. CASE DemotesSelf(r)
  BY <1>4 DEF UpdateRole
<1>5. CASE ~DemotesSelf(r)
  <2>1. R!ChangeRole(i, ro)
    BY <1>2, <1>3, <1>5 DEF UpdateRole, R!ChangeRole, R!Absent
  <2> QED BY <2>1, <1>1
<1> QED BY <1>4, <1>5

(* A removal is Roster's Leave. *)
LEMMA RemoveIsRoster ==
    ASSUME TypeOK, Control, NEW r \in Requests, RemoveMember(r)
    PROVE  \E i \in MemberIds : R!Leave(i)
<1> DEFINE i == op[r].target
<1>1. op[r].kind = "remove" /\ i \in MemberIds
  BY OpFields DEF RemoveMember, Control, KindOK
<1>2. role[i] = seen[r] /\ seen[r] # Absent
  BY DEF RemoveMember, Control, TargetStable, Holding
<1>3. role[i] = "owner" => R!AnotherOwner(i)
  <2> SUFFICES ASSUME role[i] = "owner" PROVE R!AnotherOwner(i)
    OBVIOUS
  <2>1. TakesOwner(r)
    BY <1>1, <1>2 DEF TakesOwner
  <2>2. PICK j \in owners[r] : j # i
    BY <2>1 DEF RemoveMember, Control, AnotherOwnerHeld
  <2>3. j \in MemberIds /\ role[j] = "owner"
    BY DEF Control, ScannedRows, TypeOK
  <2> QED BY <2>2, <2>3 DEF R!AnotherOwner
<1>4. R!Leave(i)
  BY <1>2, <1>3 DEF RemoveMember, R!Leave, R!Absent
<1> QED BY <1>1, <1>4

(* A joining account has no row: Roster's Join. *)
LEMMA InsertIsRoster ==
    ASSUME TypeOK, Control, InvitesNoOwner, NEW r \in Requests, InsertMember(r)
    PROVE  role' = role \/ \E i \in MemberIds, ro \in Roles : R!Join(i, ro)
<1> DEFINE i == op[r].target
           ro == op[r].newRole
<1>1. op[r].kind = "invite" /\ i \in MemberIds /\ ro \in Roles
  BY OpFields DEF InsertMember, Control, KindOK
<1>2. CASE IsMember(UserOf[i])
  BY <1>2 DEF InsertMember
<1>3. CASE ~IsMember(UserOf[i])
  <2>1. R!Join(i, ro)
    BY <1>1, <1>3, NotMember DEF InsertMember, R!Join, R!Absent, InvitesNoOwner
  <2> QED BY <2>1, <1>1
<1> QED BY <1>2, <1>3

(* No step makes a request invite an owner. *)
LEMMA InvitesStep ==
    TypeOK /\ Control /\ InvitesNoOwner /\ [Next]_vars => InvitesNoOwner'
<1> SUFFICES ASSUME TypeOK, Control, InvitesNoOwner, [Next]_vars PROVE InvitesNoOwner'
  OBVIOUS
<1>1. CASE UNCHANGED vars
  BY <1>1 DEF vars, InvitesNoOwner
<1>2. ASSUME NEW r \in Requests, Begin(r) \/ Serve(r) \/ Abandon(r) \/ DeadlockAbort(r)
      PROVE  InvitesNoOwner'
  <2>1. CASE Begin(r)
    BY <2>1 DEF Begin, BeginRemove, BeginUpdate, BeginInvite, BeginAssign,
                InvitesNoOwner, TypeOK
  <2>2. CASE ~Begin(r)
    <3>1. (\E gone \in SUBSET (Items \X Users) : Finish(r, gone)) \/ UNCHANGED op
      BY <1>2, <2>2 DEF Serve, TargetMissing, LockTarget, Authorize, Forbid, OwnerScan,
          ScanRow, ScanBlocks, ScanWakes, LockOwner, ScanDone, RefuseLastOwner, UpdateRole,
          StartClearing, DeleteRow, DeleteBlocks, RemoveMember, CheckInvite, RefuseInvite,
          InsertMember,
          WriteTask, CheckAssignees, RefuseAssignees, StartReplacing,
          StartInserting, InsertRow, DuplicateKey, TouchTask, Abandon,
          DeadlockAbort, End, TypeOK
    <3> QED BY <3>1 DEF Finish, InvitesNoOwner, TypeOK, NoOp
  <2> QED BY <2>1, <2>2
<1> QED BY <1>1, <1>2 DEF Next

-----------------------------------------------------------------------------
(* Every step keeps what requests know and is a step of Roster, or none. *)
LEMMA NextControl ==
    TypeOK /\ Control /\ InvitesNoOwner /\ [Next]_vars => Control' /\ [R!Next]_role
<1> SUFFICES ASSUME TypeOK, Control, InvitesNoOwner, [Next]_vars
             PROVE  Control' /\ [R!Next]_role
  OBVIOUS
<1>1. CASE UNCHANGED vars
  BY <1>1 DEF vars, Control, KindOK, TargetLocked, TargetStable, ScannedRows,
              AnotherOwnerHeld, TakesOwner
<1>2. ASSUME NEW r \in Requests, Begin(r) \/ Serve(r) \/ Abandon(r) \/ DeadlockAbort(r)
      PROVE  Control' /\ [R!Next]_role
  <2>1. CASE Begin(r)
    BY <2>1, BeginControl
  <2>2. CASE TargetMissing(r) \/ Forbid(r) \/ RefuseLastOwner(r) \/ RefuseInvite(r)
             \/ RefuseAssignees(r) \/ DuplicateKey(r) \/ Abandon(r) \/ DeadlockAbort(r)
             \/ TouchTask(r)
    <3>1. role' = role /\ \E gone \in SUBSET (Items \X Users) : Finish(r, gone)
      BY <2>2 DEF TargetMissing, Forbid, RefuseLastOwner, RefuseInvite, RefuseAssignees,
                  DuplicateKey, Abandon, DeadlockAbort, TouchTask, End, data, TypeOK
    <3> QED BY <3>1, FinishControl
  <2>3. CASE LockTarget(r)
    <3>1. op[r].target \in MemberIds
      BY <2>3, OpFields DEF LockTarget, Control, KindOK
    <3>2. \A q \in Requests, i \in MemberIds : lockedBy[i] = q => lockedBy'[i] = q
      BY <2>3, MembershipAssumption DEF LockTarget, TypeOK
    <3>3. \A q \in Requests : pc[q] \in Holding => op[q].target \in MemberIds
      BY OpFields DEF Control, KindOK
    <3>4. KindOK'
      BY <2>3 DEF LockTarget, Goto, Control, KindOK, Holding, TypeOK
    <3>5. TargetLocked'
      BY <2>3, <3>1, <3>2, <3>3 DEF LockTarget, Goto, Control, TargetLocked, Holding, TypeOK
    <3>6. TargetStable'
      BY <2>3, <3>1 DEF LockTarget, Goto, Control, TargetStable, Holding, TypeOK, data
    <3>7. ScannedRows'
      BY <2>3, <3>2 DEF LockTarget, Control, ScannedRows, TypeOK, data, scan
    <3>8. AnotherOwnerHeld'
      BY <2>3 DEF LockTarget, Goto, Control, AnotherOwnerHeld, TakesOwner, TypeOK, scan
    <3> QED BY <2>3, <3>4, <3>5, <3>6, <3>7, <3>8 DEF Control, LockTarget, data
  <2>4. CASE Authorize(r) \/ OwnerScan(r) \/ ScanBlocks(r) \/ ScanDone(r) \/ StartClearing(r)
             \/ DeleteRow(r) \/ DeleteBlocks(r) \/ CheckInvite(r) \/ CheckAssignees(r)
             \/ StartReplacing(r) \/ StartInserting(r) \/ InsertRow(r) \/ WriteTask(r)
    <3>1. UNCHANGED <<role, lockedBy, op, seen, owners>>
      BY <2>4 DEF Authorize, OwnerScan, ScanBlocks, ScanDone, StartClearing, DeleteRow,
                  DeleteBlocks, StartReplacing, StartInserting, InsertRow, WriteTask, CheckInvite,
                  CheckAssignees, data, locks, scan
    <3>2. KindOK' /\ (\A q \in Requests : pc'[q] \in Holding <=> pc[q] \in Holding)
      BY <2>4, <3>1 DEF Authorize, OwnerScan, ScanBlocks, ScanDone, StartClearing, DeleteRow,
                  DeleteBlocks, StartReplacing, StartInserting, InsertRow, WriteTask, CheckInvite,
                  CheckAssignees, Goto, Control, KindOK, Holding,
                  TypeOK
    <3>3. TargetLocked' /\ TargetStable' /\ ScannedRows'
      BY <3>1, <3>2 DEF Control, TargetLocked, TargetStable, ScannedRows
    <3>4. AnotherOwnerHeld'
      <4>1. \A q \in Requests : TakesOwner(q)' <=> TakesOwner(q)
        BY <3>1 DEF TakesOwner
      <4>2. \A q \in Requests \ {r} : pc'[q] = pc[q]
        BY <2>4 DEF Authorize, OwnerScan, ScanBlocks, ScanDone, StartClearing, DeleteRow,
                  DeleteBlocks, StartReplacing, StartInserting, InsertRow, WriteTask, CheckInvite,
                  CheckAssignees, Goto, TypeOK
      <4>3. ASSUME pc'[r] \in {"write", "clear_assigned"}, TakesOwner(r)
            PROVE  \E j \in owners[r] : j # op[r].target
        <5>1. CASE ScanDone(r)
          BY <5>1, EnoughMeansAnother DEF ScanDone
        <5>2. CASE ~ScanDone(r)
          BY <2>4, <4>3, <5>2 DEF Authorize, OwnerScan, ScanBlocks, StartClearing, DeleteRow,
                  DeleteBlocks, StartReplacing, StartInserting, InsertRow, WriteTask, CheckInvite,
                  CheckAssignees, Goto, TypeOK, Control, AnotherOwnerHeld
        <5> QED BY <5>1, <5>2
      <4> QED BY <3>1, <4>1, <4>2, <4>3 DEF Control, AnotherOwnerHeld
    <3> QED BY <3>1, <3>2, <3>3, <3>4 DEF Control
  <2>5. CASE ScanRow(r)
    BY <2>5, LockOwnerControl DEF ScanRow, TypeOK
  <2>6. CASE ScanWakes(r)
    BY <2>6, LockOwnerControl DEF ScanWakes, TypeOK
  <2>7. CASE UpdateRole(r)
    <3>1. lockedBy[op[r].target] = r
      BY <2>7 DEF UpdateRole, Control, TargetLocked, Holding
    <3>2. Control'
      BY <2>7, <3>1, FinishControl DEF UpdateRole, End, TypeOK
    <3> QED BY <3>2, <2>7, UpdateIsRoster DEF R!Next
  <2>8. CASE RemoveMember(r)
    <3>1. lockedBy[op[r].target] = r
      BY <2>8 DEF RemoveMember, Control, TargetLocked, Holding
    <3>2. Control'
      BY <2>8, <3>1, FinishControl DEF RemoveMember, TypeOK
    <3> QED BY <3>2, <2>8, RemoveIsRoster DEF R!Next
  <2>9. CASE InsertMember(r)
    <3>1. CASE IsMember(UserOf[op[r].target])
      BY <2>9, <3>1, FinishControl DEF InsertMember, End
    <3>2. CASE ~IsMember(UserOf[op[r].target])
      <4>1. op[r].target \in MemberIds
        BY <2>9, OpFields DEF InsertMember, Control, KindOK
      <4>2. role[op[r].target] = Absent
        BY <3>2, <4>1, NotMember
      <4>3. Control'
        BY <2>9, <4>2, FinishControl DEF InsertMember, End, TypeOK
      <4> QED BY <4>3, <2>9, InsertIsRoster DEF R!Next
    <3> QED BY <3>1, <3>2
  <2> QED BY <1>2, <2>1, <2>2, <2>3, <2>4, <2>5, <2>6, <2>7, <2>8, <2>9 DEF Serve
<1> QED BY <1>1, <1>2 DEF Next

-----------------------------------------------------------------------------
(* Who waits for whom. *)

(* The end of a request lets go of what it held, and of nothing else. *)
LEMMA FinishHolders ==
    ASSUME TypeOK, Control, Holders, NEW r \in Requests, NEW gone, Finish(r, gone)
    PROVE  Holders'
<1>1. /\ \A q \in Requests \ {r} :
            /\ pc'[q] = pc[q] /\ op'[q] = op[q] /\ seen'[q] = seen[q]
            /\ rest'[q] \subseteq rest[q] /\ at'[q] = at[q] \ gone /\ cleared'[q] = cleared[q]
            /\ pc[q] \in Deleting => rest'[q] = rest[q] \ gone
      /\ pc'[r] = "idle" /\ rest'[r] = {} /\ at'[r] = {} /\ cleared'[r] = {}
  BY DEF TypeOK, Finish
<1>2. LocksHeld'
  BY <1>1, MembershipAssumption DEF Finish, Holders, LocksHeld, TypeOK
<1>3. ScansTakeOwner'
  BY <1>1 DEF Holders, ScansTakeOwner, TakesOwner
<1>4. TasksWritten'
  BY <1>1, MembershipAssumption DEF Finish, Holders, TasksWritten, TypeOK
<1>5. RowsWritten'
  <2>1. \A q \in Requests \ {r} : at'[q] \subseteq rest'[q]
    BY <1>1 DEF Holders, RowsWritten
  <2> QED BY <1>1, <2>1 DEF Holders, RowsWritten
<1> QED BY <1>2, <1>3, <1>4, <1>5 DEF Holders

(* The steps that neither write nor lock anything, nor enter a scan. *)
LEMMA QuietHolders ==
    ASSUME TypeOK, Holders, NEW r \in Requests, NEW label, Goto(r, label),
           label \in {"lock_target", "invite_check", "write_task", "check_assignees", "snapshot",
                      "insert_member", "write", "scan", "wait"},
           label \in {"scan", "wait"} => pc[r] \in {"owner_scan", "scan"},
           pc[r] \in Holding => label \in Holding,
           pc[r] \in Assigning => label \in Assigning,
           pc[r] \notin Deleting \cup {"insert_assigned"},
           \A q \in Requests \ {r} : op'[q] = op[q],
           label \in {"scan", "wait"} => op' = op,
           UNCHANGED <<lockedBy, writer, seen, rest, at, cleared>>
    PROVE  Holders'
<1>1. /\ \A q \in Requests \ {r} : pc'[q] = pc[q]
      /\ pc'[r] = label
  BY DEF TypeOK, Goto
<1>2. LocksHeld'
  BY <1>1 DEF Holders, LocksHeld
<1>3. ScansTakeOwner'
  BY <1>1 DEF Holders, ScansTakeOwner, TakesOwner
<1>4. TasksWritten'
  BY <1>1 DEF Holders, TasksWritten
<1>5. RowsWritten'
  BY <1>1 DEF Holders, RowsWritten
<1> QED BY <1>2, <1>3, <1>4, <1>5 DEF Holders

(* A lock that was free, taken by a transaction that goes on holding. *)
LEMMA LockingHolders ==
    ASSUME TypeOK, Holders, NEW r \in Requests, NEW label, Goto(r, label),
           label \in {"authorize", "scan"},
           label = "scan" => pc[r] \in {"scan", "wait"} /\ seen' = seen,
           pc[r] \in {"lock_target", "scan", "wait"},
           \A q \in Requests \ {r} : seen'[q] = seen[q],
           \A i \in MemberIds : lockedBy'[i] \in {lockedBy[i], r},
           UNCHANGED <<op, writer, rest, at, cleared>>
    PROVE  Holders'
<1>1. /\ \A q \in Requests \ {r} : pc'[q] = pc[q]
      /\ pc'[r] = label
  BY DEF TypeOK, Goto
<1>2. LocksHeld'
  BY <1>1 DEF Holders, LocksHeld, Holding
<1>3. ScansTakeOwner'
  BY <1>1 DEF Holders, ScansTakeOwner, TakesOwner
<1>4. TasksWritten'
  BY <1>1 DEF Holders, TasksWritten
<1>5. RowsWritten'
  BY <1>1 DEF Holders, RowsWritten
<1> QED BY <1>2, <1>3, <1>4, <1>5 DEF Holders

(* The statements that write assignments, and the UPDATE of a task. *)
LEMMA WritingHolders ==
    ASSUME TypeOK, Control, Holders, NEW r \in Requests,
           StartClearing(r) \/ StartReplacing(r) \/ StartInserting(r) \/ DeleteRow(r)
             \/ DeleteBlocks(r) \/ InsertRow(r) \/ WriteTask(r)
    PROVE  Holders'
<1> USE DEF StartClearing, StartReplacing, StartInserting, DeleteRow, DeleteBlocks, InsertRow,
            Insertable, WriteTask
<1>1. /\ \A q \in Requests \ {r} :
            pc'[q] = pc[q] /\ rest'[q] = rest[q] /\ at'[q] = at[q] /\ cleared'[q] = cleared[q]
      /\ UNCHANGED <<lockedBy, op, seen>>
  BY DEF TypeOK, Goto, data, locks, rows
<1>2. /\ pc[r] \in Holding <=> pc'[r] \in Holding
      /\ pc[r] \in Assigning => pc'[r] \in Assigning
      /\ pc'[r] \notin {"owner_scan", "scan", "wait"}
  BY DEF TypeOK, Goto, Holding
<1>3. LocksHeld'
  BY <1>1, <1>2 DEF Holders, LocksHeld
<1>4. ScansTakeOwner'
  BY <1>1, <1>2 DEF Holders, ScansTakeOwner, TakesOwner
<1>5. TasksWritten'
  <2>1. CASE WriteTask(r)
    <3>1. pc'[r] = "check_assignees"
      BY <2>1 DEF Goto, TypeOK
    <3> QED BY <1>1, <2>1, <3>1 DEF Holders, TasksWritten, TypeOK
  <2>2. CASE writer' = writer
    BY <1>1, <1>2, <2>2 DEF Holders, TasksWritten
  <2> QED BY <2>1, <2>2 DEF locks
<1>6. RowsWritten'
  <2> SUFFICES /\ cleared'[r] # {} => pc'[r] \in Deleting \cup {"insert_assigned"}
               /\ at'[r] # {} => pc'[r] \in Deleting
               /\ at'[r] \subseteq rest'[r]
               /\ pc'[r] = "clear_assigned" =>
                     \A p \in rest'[r] \cup cleared'[r] : p[2] = UserOf[op[r].target]
    BY <1>1 DEF Holders, RowsWritten
  <2>1. CASE StartClearing(r)
    BY <2>1 DEF Goto, TypeOK, Holders, RowsWritten
  <2>2. CASE StartReplacing(r)
    BY <2>2 DEF Goto, TypeOK, Holders, RowsWritten
  <2>3. CASE StartInserting(r)
    BY <2>3 DEF Goto, TypeOK, Holders, RowsWritten
  <2>4. CASE DeleteRow(r)
    BY <2>4 DEF TypeOK, Holders, RowsWritten
  <2>5. CASE DeleteBlocks(r)
    BY <2>5 DEF TypeOK, Holders, RowsWritten
  <2>6. CASE InsertRow(r)
    BY <2>6 DEF TypeOK, Holders, RowsWritten
  <2>7. CASE WriteTask(r)
    BY <2>7 DEF Goto, TypeOK, Holders, RowsWritten, rows
  <2> QED BY <2>1, <2>2, <2>3, <2>4, <2>5, <2>6, <2>7
<1> QED BY <1>3, <1>4, <1>5, <1>6 DEF Holders

(* Every step keeps who holds what. *)
LEMMA NextHolders == TypeOK /\ Control /\ Holders /\ [Next]_vars => Holders'
<1> SUFFICES ASSUME TypeOK, Control, Holders, [Next]_vars PROVE Holders'
  OBVIOUS
<1>1. CASE UNCHANGED vars
  BY <1>1 DEF vars, Holders, LocksHeld, ScansTakeOwner, TakesOwner, TasksWritten, RowsWritten
<1>2. ASSUME NEW r \in Requests, Begin(r) \/ Serve(r) \/ Abandon(r) \/ DeadlockAbort(r)
      PROVE  Holders'
  <2>1. CASE Begin(r)
    <3>1. PICK label \in {"lock_target", "invite_check", "write_task", "check_assignees"} :
            Goto(r, label)
      BY <2>1 DEF Begin, BeginRemove, BeginUpdate, BeginInvite, BeginAssign
    <3>2. /\ pc[r] = "idle" /\ UNCHANGED <<lockedBy, writer, seen, rest, at, cleared>>
          /\ \A q \in Requests \ {r} : op'[q] = op[q]
      BY <2>1 DEF Begin, BeginRemove, BeginUpdate, BeginInvite, BeginAssign, data, locks, rows,
                  TypeOK
    <3> QED BY <3>1, <3>2, QuietHolders DEF Holding
  <2>2. CASE TargetMissing(r) \/ Forbid(r) \/ RefuseLastOwner(r) \/ RefuseInvite(r)
             \/ RefuseAssignees(r) \/ DuplicateKey(r) \/ Abandon(r) \/ DeadlockAbort(r)
             \/ UpdateRole(r) \/ InsertMember(r)
    <3>1. Finish(r, {})
      BY <2>2 DEF TargetMissing, Forbid, RefuseLastOwner, RefuseInvite, RefuseAssignees,
                  DuplicateKey, Abandon, DeadlockAbort, UpdateRole, InsertMember, End
    <3> QED BY <3>1, FinishHolders
  <2>3. CASE RemoveMember(r)
    BY <2>3, FinishHolders DEF RemoveMember
  <2>4. CASE TouchTask(r)
    BY <2>4, FinishHolders DEF TouchTask
  <2>5. CASE StartClearing(r) \/ StartReplacing(r) \/ StartInserting(r) \/ DeleteRow(r)
             \/ DeleteBlocks(r) \/ InsertRow(r) \/ WriteTask(r)
    BY <2>5, WritingHolders
  <2>6. CASE LockTarget(r)
    BY <2>6, LockingHolders DEF LockTarget, TypeOK, data, rows
  <2>7. CASE ScanRow(r)
    <3>1. PICK i \in MemberIds : LockOwner(r, i)
      BY <2>7 DEF ScanRow, TypeOK
    <3> QED BY <3>1, <2>7, LockingHolders DEF ScanRow, LockOwner, TypeOK, data, rows
  <2>8. CASE ScanWakes(r)
    <3>1. want[r] \in MemberIds
      BY DEF TypeOK
    <3> QED BY <2>8, <3>1, LockingHolders DEF ScanWakes, LockOwner, TypeOK, data, rows
  <2>9. CASE OwnerScan(r) \/ ScanBlocks(r)
    BY <2>9, QuietHolders DEF OwnerScan, ScanBlocks, data, locks, rows, Holding
  <2>10. CASE ScanDone(r) \/ CheckInvite(r) \/ CheckAssignees(r)
    BY <2>10, QuietHolders DEF ScanDone, CheckInvite, CheckAssignees, data, locks, rows, Holding
  <2>11. CASE Authorize(r)
    <3>1. CASE ~TakesOwner(r)
      BY <2>11, <3>1, QuietHolders DEF Authorize, data, locks, rows, Holding
    <3>2. CASE TakesOwner(r)
      <4>1. /\ \A q \in Requests \ {r} : pc'[q] = pc[q]
            /\ pc[r] = "authorize" /\ pc'[r] = "owner_scan"
            /\ UNCHANGED <<lockedBy, writer, op, seen, rest, at, cleared>>
        BY <2>11, <3>2 DEF Authorize, Goto, TypeOK, data, locks, rows
      <4>2. LocksHeld' /\ ScansTakeOwner'
        BY <3>2, <4>1 DEF Holders, LocksHeld, Holding, ScansTakeOwner, TakesOwner
      <4>3. TasksWritten' /\ RowsWritten'
        BY <4>1 DEF Holders, TasksWritten, RowsWritten
      <4> QED BY <4>2, <4>3 DEF Holders
    <3> QED BY <3>1, <3>2
  <2> QED BY <1>2, <2>1, <2>2, <2>3, <2>4, <2>5, <2>6, <2>7, <2>8, <2>9, <2>10, <2>11
          DEF Serve
<1> QED BY <1>1, <1>2 DEF Next

(* In a smallest set of requests that wait for one another each is waited for. *)
LEMMA AllWaitedFor ==
    ASSUME NEW C \in SUBSET Requests, Deadlock(C), NEW p \in C
    PROVE  \E q \in C : WaitsFor(q, p)
<1> DEFINE D == {d \in C : \E q \in C : WaitsFor(q, d)}
<1>1. Cycle(D)
  BY DEF Deadlock, Cycle
<1>2. D = C
  BY <1>1 DEF Deadlock
<1> QED BY <1>2

(* What a writer of assignees waits for, a writer of assignees holds. *)
LEMMA WritersWaitForWriters ==
    ASSUME TypeOK, Control, Holders, NEW r \in Requests, NEW q \in Requests, WaitsFor(r, q),
           pc[r] \in Deleting \cup {"insert_assigned", "write_task"}
    PROVE  pc[q] \in Deleting \cup Assigning
<1>1. CASE at[r] \cap cleared[q] # {} \/ \E p \in rest[r] : p \in Written(q)
  BY <1>1 DEF Holders, RowsWritten, Written
<1>2. CASE writer[op[r].item] = q /\ pc[r] \in {"insert_assigned", "write_task"}
  <2>1. op[r].item \in Items
    BY <1>2, OpFields DEF Control, KindOK
  <2> QED BY <1>2, <2>1 DEF Holders, TasksWritten
<1> QED BY <1>1, <1>2 DEF WaitsFor

(* What a change of memberships waits for, such a change holds. *)
LEMMA ScansWaitForHolders ==
    ASSUME TypeOK, Control, Holders, NEW r \in Requests, NEW q \in Requests, WaitsFor(r, q),
           pc[r] \in {"wait", "lock_target"}
    PROVE  pc[q] \in Holding
<1>1. CASE pc[r] = "wait"
  BY <1>1 DEF WaitsFor, Holders, LocksHeld, TypeOK
<1>2. CASE pc[r] = "lock_target"
  <2>1. op[r].target \in MemberIds
    BY <1>2, OpFields DEF Control, KindOK
  <2> QED BY <1>2, <2>1 DEF WaitsFor, Holders, LocksHeld
<1> QED BY <1>1, <1>2

(* Two removals delete the assignments of two accounts: their targets are two rows, *)
(* as each is locked, and an account has one.                                        *)
LEMMA RemovalsDisjoint ==
    ASSUME TypeOK, Control, Holders, OneRowPerUser, NEW r \in Requests, NEW q \in Requests,
           pc[r] = "clear_assigned", pc[q] = "clear_assigned"
    PROVE  ~WaitsFor(r, q)
<1> SUFFICES ASSUME WaitsFor(r, q) PROVE FALSE
  OBVIOUS
<1>1. q # r /\ at[r] \cap cleared[q] # {}
  BY DEF WaitsFor
<1>2. PICK p \in at[r] : p \in cleared[q]
  BY <1>1
<1>3. p[2] = UserOf[op[r].target] /\ p[2] = UserOf[op[q].target]
  BY <1>2 DEF Holders, RowsWritten
<1>4. /\ op[r].target \in MemberIds /\ op[q].target \in MemberIds
      /\ role[op[r].target] # Absent /\ role[op[q].target] # Absent
  BY OpFields DEF Control, KindOK, TargetStable, Holding
<1>5. op[r].target = op[q].target
  BY <1>3, <1>4 DEF OneRowPerUser
<1> QED BY <1>1, <1>5 DEF Control, TargetLocked, Holding

(* Writers of assignees hold nothing that a change of memberships in a deadlock   *)
(* waits for, and it nothing that they wait for.                                   *)
LEMMA NoMixedDeadlock == Inv => DeadlocksStayApart
<1> SUFFICES ASSUME Inv, NEW C \in SUBSET Requests, Deadlock(C)
             PROVE  \/ \A r \in C : pc[r] = "wait" /\ TakesOwner(r)
                    \/ /\ \A r \in C : pc[r] \in Deleting \cup {"insert_assigned"}
                       /\ \E r \in C : op[r].kind = "assign"
  BY DEF DeadlocksStayApart
<1> DEFINE Writers == {r \in C : pc[r] \in Deleting \cup {"insert_assigned"}}
<1> USE DEF Inv
<1>1. ASSUME NEW r \in C
      PROVE  pc[r] \in {"wait", "lock_target", "write_task", "insert_assigned"} \cup Deleting
  BY DEF Deadlock, Cycle, WaitsFor
<1>2. ASSUME NEW r \in C PROVE pc[r] \in Deleting \cup {"wait", "insert_assigned"}
  <2>1. PICK q \in C : WaitsFor(q, r)
    BY AllWaitedFor
  <2>2. pc[r] \in Holding \cup Deleting \cup Assigning
    BY <1>1, <2>1, WritersWaitForWriters, ScansWaitForHolders
  <2> QED BY <1>1, <2>2 DEF Holding
<1>3. CASE Writers = {}
  <2>1. \A r \in C : pc[r] = "wait"
    BY <1>2, <1>3
  <2> QED BY <2>1 DEF Holders, ScansTakeOwner
<1>4. CASE Writers # {}
  <2>1. ASSUME NEW r \in Writers PROVE \E q \in Writers : WaitsFor(r, q)
    <3>1. PICK q \in C : WaitsFor(r, q)
      BY DEF Deadlock, Cycle
    <3>2. pc[q] \in Deleting \cup Assigning
      BY <3>1, WritersWaitForWriters
    <3>3. q \in Writers
      BY <3>2, <1>2
    <3> QED BY <3>1, <3>3
  <2>2. Writers = C
    <3>1. Cycle(Writers)
      BY <1>4, <2>1 DEF Cycle
    <3> QED BY <3>1 DEF Deadlock
  <2>3. \E r \in C : op[r].kind = "assign"
    <3> SUFFICES ASSUME \A r \in C : op[r].kind # "assign" PROVE FALSE
      OBVIOUS
    <3>1. \A r \in C : pc[r] = "clear_assigned"
      BY <2>2 DEF Control, KindOK
    <3>2. PICK r \in C : TRUE
      BY DEF Deadlock, Cycle
    <3>3. PICK q \in C : WaitsFor(r, q)
      BY DEF Deadlock, Cycle
    <3> QED BY <3>1, <3>3, RemovalsDisjoint
  <2> QED BY <2>2, <2>3
<1> QED BY <1>3, <1>4

-----------------------------------------------------------------------------
(* The workspace starts in the inductive invariant. *)
LEMMA InitInv == Init => Inv
<1> SUFFICES ASSUME Init PROVE Inv
  OBVIOUS
<1>1. Control /\ InvitesNoOwner
  BY DEF Init, Control, KindOK, TargetLocked, TargetStable, ScannedRows, AnotherOwnerHeld,
         InvitesNoOwner, Holding, NoScan, NoOp
<1>2. LastOwner /\ OneRowPerUser
  BY MembershipAssumption DEF Init, LastOwner, OwnerIds, OneRowPerUser
<1>3. Holders
  BY MembershipAssumption DEF Init, Holders, LocksHeld, ScansTakeOwner, TasksWritten,
                              RowsWritten, NoScan
<1> QED BY <1>1, <1>2, <1>3, InitType DEF Inv

(* Every step keeps the inductive invariant. *)
LEMMA NextInv == Inv /\ [Next]_vars => Inv'
<1> SUFFICES ASSUME Inv, [Next]_vars PROVE Inv'
  OBVIOUS
<1>1. TypeOK'
  BY NextType DEF Inv, Control
<1>2. Control' /\ [R!Next]_role
  BY NextControl DEF Inv
<1>3. InvitesNoOwner'
  BY InvitesStep DEF Inv
<1>4. LastOwner' /\ OneRowPerUser'
  <2>1. CASE R!Next
    BY <2>1, RosterKeeps DEF Inv, TypeOK
  <2>2. CASE role' = role
    BY <2>2 DEF Inv, LastOwner, OwnerIds, OneRowPerUser
  <2> QED BY <1>2, <2>1, <2>2
<1>5. Holders'
  BY NextHolders DEF Inv
<1> QED BY <1>1, <1>2, <1>3, <1>4, <1>5 DEF Inv

(* Inv is inductive, so it holds for ever. *)
THEOREM Invariance == Spec => []Inv
BY InitInv, NextInv, PTL DEF Spec

(* Every reachable state is well typed. *)
THEOREM TypeCorrect == Spec => []TypeOK
BY Invariance, PTL DEF Inv

(* update_membership, remove_membership: the workspace never loses its last *)
(* owner, for any number of accounts and of concurrent requests.            *)
THEOREM KeepsLastOwner == Spec => []LastOwner
BY Invariance, PTL DEF Inv

(* invite_member: an account has at most one membership of the workspace. *)
THEOREM KeepsOneRowPerUser == Spec => []OneRowPerUser
BY Invariance, PTL DEF Inv

(* SELECT .. FOR UPDATE: a request acts on the role it read of its target. *)
THEOREM KeepsTargetStable == Spec => []TargetStable
BY Invariance, PTL DEF Inv, Control

(* Whoever deadlocks, in however large a circle, takes the owner role from someone *)
(* or writes assignees, and the two never in one circle; grants and invitations     *)
(* are in none, and removals alone deadlock only over the owner rows.                *)
THEOREM DeadlocksApart == Spec => []DeadlocksStayApart
BY Invariance, NoMixedDeadlock, PTL

(* The transactions implement Roster's one-step operations. *)
THEOREM Implements == Spec => ImplementsRoster
<1>1. Init => R!Init
  BY DEF Init, R!Init, R!Absent
<1>2. Inv /\ [Next]_vars => [R!Next]_role
  BY NextControl DEF Inv
<1> QED BY <1>1, <1>2, Invariance, PTL DEF Spec, ImplementsRoster, R!Spec

=============================================================================
