------------------------------ MODULE Membership ------------------------------
(***************************************************************************)
(* The memberships of one workspace and the requests that change them.     *)
(*                                                                         *)
(* update_membership, remove_membership, the existing-user branch of       *)
(* invite_member (workspace.rs) and the writers of assignees               *)
(* (access.rs replace_assignees, tickets.rs) run as PostgreSQL             *)
(* transactions at READ COMMITTED: every statement sees what is committed  *)
(* when it starts, SELECT .. FOR UPDATE waits for the row's holder and then *)
(* re-evaluates its WHERE on the newest version, and all locks fall at     *)
(* commit or rollback.  An action is one statement (or a run of statements *)
(* between which no other transaction's step can make a difference).       *)
(*                                                                         *)
(* Every membership row the code inserts has status 'active', so the       *)
(* column is not kept.  A row's id is a fresh UUID: an id is used once.    *)
(***************************************************************************)
EXTENDS Naturals, FiniteSets

CONSTANTS
    Users,      \* the accounts, by id: of a UUID only the order matters
    MemberIds,  \* ids of membership rows; bounds how many rows are ever made
    UserOf,     \* the account a membership id is made for
    Founder,    \* the id of the owner row the workspace is created with
    Granted,    \* the roles requests ask for: all four, or fewer to bound a run
    Items,      \* tasks of the workspace
    Teams,      \* the sets of assignees requests ask for: any, or some to bound a run
    Requests,   \* slots for requests being served at the same time
    Free        \* the holder of a row nobody has locked

ASSUME MembershipAssumption ==
    /\ IsFiniteSet(MemberIds)
    /\ Users \subseteq Nat
    /\ UserOf \in [MemberIds -> Users]
    /\ Founder \in MemberIds
    /\ Teams \subseteq SUBSET Users
    /\ Granted \subseteq {"owner", "admin", "member", "viewer"}
    /\ Free \notin Requests

Roles == {"owner", "admin", "member", "viewer"}
Admins == {"owner", "admin"}
Editors == {"owner", "admin", "member"}
Absent == "absent"  \* what `role` holds for an id without a row

VARIABLES
    role,      \* the committed rows: the role of each membership id, or Absent
    used,      \* the membership ids generated so far
    assigned,  \* the committed rows <<item, user>> of task_assignees
    lockedBy,  \* the transaction holding each membership row FOR UPDATE
    writer,    \* the transaction that has locked each task's row to write it
    pc,        \* the statement each request runs next
    op,        \* what each request asks for
    seen,      \* the role of the target row as the transaction locked it
    todo,      \* owner rows the FOR UPDATE scan has still to lock
    owners,    \* owner rows the scan has locked and returned
    want,      \* the row a scan waits for
    rest,      \* the assignments a statement has still to delete or to insert
    at,        \* the one of them a DELETE waits for: a set of at most one
    cleared    \* the assignments a request has deleted and not yet committed

vars == <<role, used, assigned, lockedBy, writer, pc, op, seen, todo, owners, want,
          rest, at, cleared>>
data == <<role, used, assigned>>
locks == <<lockedBy, writer>>
scan == <<todo, owners, want>>
rows == <<rest, at, cleared>>

PCs == {"idle", "lock_target", "authorize", "owner_scan", "scan", "wait", "write",
        "clear_assigned", "invite_check", "insert_member", "write_task", "check_assignees",
        "snapshot", "replace_assigned", "insert_assigned"}

Ops == [kind : {"update", "invite"}, actor : Users, target : MemberIds, newRole : Roles]
       \cup [kind : {"remove"}, actor : Users, target : MemberIds]
       \cup [kind : {"assign"}, item : Items, users : SUBSET Users, fields : BOOLEAN]
NoOp == [kind |-> "none"]

NoScan == [r \in Requests |-> {}]

(* The role query of workspace_role: a committed row of u with a role in S. *)
HasRole(u, S) == \E i \in MemberIds : UserOf[i] = u /\ role[i] \in S

IsMember(u) == HasRole(u, Roles)

OwnerIds == {i \in MemberIds : role[i] = "owner"}

TakesOwner(r) ==  \* the request takes the owner role away from its target
    /\ seen[r] = "owner"
    /\ op[r].kind = "update" => op[r].newRole # "owner"

TouchesOwner(r) ==
    seen[r] = "owner" \/ (op[r].kind = "update" /\ op[r].newRole = "owner")

Deleting == {"clear_assigned", "replace_assigned"}

(* The request ends, by COMMIT or ROLLBACK: its locks fall.  A statement of   *)
(* another request that was to delete a row of gone finds it deleted; an equal *)
(* row inserted since is a new row, which its snapshot does not hold.          *)
Finish(r, gone) ==
    /\ pc' = [pc EXCEPT ![r] = "idle"]
    /\ lockedBy' = [i \in MemberIds |-> IF lockedBy[i] = r THEN Free ELSE lockedBy[i]]
    /\ writer' = [x \in Items |-> IF writer[x] = r THEN Free ELSE writer[x]]
    /\ todo' = [todo EXCEPT ![r] = {}]
    /\ owners' = [owners EXCEPT ![r] = {}]
    /\ want' = [want EXCEPT ![r] = Founder]
    /\ rest' = [q \in Requests |-> IF q = r THEN {}
                                   ELSE IF pc[q] \in Deleting THEN rest[q] \ gone ELSE rest[q]]
    /\ at' = [q \in Requests |-> IF q = r THEN {} ELSE at[q] \ gone]
    /\ cleared' = [cleared EXCEPT ![r] = {}]
    /\ seen' = [seen EXCEPT ![r] = Absent]
    /\ op' = [op EXCEPT ![r] = NoOp]

End(r) == Finish(r, {})

Goto(r, label) == pc' = [pc EXCEPT ![r] = label]

Init ==  \* create_workspace_for_user: the founder's row is the only one
    /\ role = [i \in MemberIds |-> IF i = Founder THEN "owner" ELSE Absent]
    /\ used = {Founder}
    /\ assigned = {}
    /\ lockedBy = [i \in MemberIds |-> Free]
    /\ writer = [x \in Items |-> Free]
    /\ pc = [r \in Requests |-> "idle"]
    /\ op = [r \in Requests |-> NoOp]
    /\ seen = [r \in Requests |-> Absent]
    /\ todo = NoScan
    /\ owners = NoScan
    /\ want = [r \in Requests |-> Founder]
    /\ rest = NoScan
    /\ at = NoScan
    /\ cleared = NoScan

-----------------------------------------------------------------------------
(* update_membership and remove_membership *)

(* Either handler, asked for a row whose id a response once held. *)
BeginUpdate(r, u, i, ro) ==
    /\ pc[r] = "idle"
    /\ i \in used
    /\ op' = [op EXCEPT ![r] = [kind |-> "update", actor |-> u, target |-> i, newRole |-> ro]]
    /\ Goto(r, "lock_target")
    /\ UNCHANGED <<data, locks, seen, scan, rows>>

BeginRemove(r, u, i) ==
    /\ pc[r] = "idle"
    /\ i \in used
    /\ op' = [op EXCEPT ![r] = [kind |-> "remove", actor |-> u, target |-> i]]
    /\ Goto(r, "lock_target")
    /\ UNCHANGED <<data, locks, seen, scan, rows>>

(* The target row is gone when its lock is granted: NotFound. *)
TargetMissing(r) ==
    /\ pc[r] = "lock_target"
    /\ role[op[r].target] = Absent
    /\ End(r)
    /\ UNCHANGED data

(* Variant: a plain SELECT.  (Each "Variant" is a change of the definition     *)
(* after it that a property of this module must reject.)                       *)
ReadTarget(r) ==
    LET i == op[r].target IN
    /\ pc[r] = "lock_target"
    /\ role[i] # Absent
    /\ lockedBy[i] = Free
    /\ seen' = [seen EXCEPT ![r] = role[i]]
    /\ Goto(r, "authorize")
    /\ UNCHANGED <<data, locks, op, scan, rows>>

LockTarget(r) ==
    LET i == op[r].target IN
    /\ pc[r] = "lock_target"
    /\ role[i] # Absent
    /\ lockedBy[i] = Free
    /\ lockedBy' = [lockedBy EXCEPT ![i] = r]
    /\ seen' = [seen EXCEPT ![r] = role[i]]
    /\ Goto(r, "authorize")
    /\ UNCHANGED <<data, writer, op, scan, rows>>

(* The actor's role is read without a lock. *)
MayChange(r) ==
    /\ HasRole(op[r].actor, Admins)
    /\ TouchesOwner(r) => HasRole(op[r].actor, {"owner"})
    /\ op[r].kind = "remove" => UserOf[op[r].target] # op[r].actor

(* Variant: every change of an owner locks the owner rows. *)
AuthorizeAndScan(r) ==
    /\ pc[r] = "authorize"
    /\ MayChange(r)
    /\ Goto(r, IF seen[r] = "owner" THEN "owner_scan" ELSE "write")
    /\ UNCHANGED <<data, locks, op, seen, scan, rows>>

Authorize(r) ==
    /\ pc[r] = "authorize"
    /\ MayChange(r)
    /\ Goto(r, IF TakesOwner(r) THEN "owner_scan" ELSE "write")
    /\ UNCHANGED <<data, locks, op, seen, scan, rows>>

(* Variant: the error path leaves the transaction open. *)
ForbidKeepsLock(r) ==
    /\ pc[r] = "authorize"
    /\ ~MayChange(r)
    /\ Goto(r, "idle")
    /\ op' = [op EXCEPT ![r] = NoOp]
    /\ UNCHANGED <<data, locks, seen, scan, rows>>

Forbid(r) ==
    /\ pc[r] = "authorize"
    /\ ~MayChange(r)
    /\ End(r)
    /\ UNCHANGED data

(* SELECT id .. role = 'owner' .. FOR UPDATE: the snapshot of the statement *)
(* fixes the rows to lock; they are locked one by one in no fixed order.    *)
OwnerScan(r) ==
    /\ pc[r] = "owner_scan"
    /\ todo' = [todo EXCEPT ![r] = OwnerIds]
    /\ Goto(r, "scan")
    /\ UNCHANGED <<data, locks, op, seen, owners, want, rows>>

(* Row i is free, or r's own: it is locked, and returned when it is still an *)
(* owner row.                                                                 *)
LockOwner(r, i) ==
    /\ lockedBy[i] \in {Free, r}
    /\ todo' = [todo EXCEPT ![r] = @ \ {i}]
    /\ lockedBy' = IF role[i] = Absent THEN lockedBy ELSE [lockedBy EXCEPT ![i] = r]
    /\ owners' = IF role[i] = "owner" THEN [owners EXCEPT ![r] = @ \cup {i}] ELSE owners
    /\ Goto(r, "scan")
    /\ UNCHANGED <<data, writer, op, seen, want, rows>>

ScanRow(r) ==
    /\ pc[r] = "scan"
    /\ \E i \in todo[r] : LockOwner(r, i)

ScanBlocks(r) ==
    /\ pc[r] = "scan"
    /\ \E i \in todo[r] :
        /\ lockedBy[i] \notin {Free, r}
        /\ want' = [want EXCEPT ![r] = i]
    /\ Goto(r, "wait")
    /\ UNCHANGED <<data, locks, op, seen, todo, owners, rows>>

ScanWakes(r) ==
    /\ pc[r] = "wait"
    /\ LockOwner(r, want[r])

(* Variant: an off-by-one. *)
AnyOwner(r) == ~(Cardinality(owners[r]) < 1)

EnoughOwners(r) == ~(Cardinality(owners[r]) <= 1)

ScanDone(r) ==
    /\ pc[r] = "scan"
    /\ todo[r] = {}
    /\ EnoughOwners(r)
    /\ Goto(r, "write")
    /\ UNCHANGED <<data, locks, op, seen, scan, rows>>

RefuseLastOwner(r) ==
    /\ pc[r] = "scan"
    /\ todo[r] = {}
    /\ ~EnoughOwners(r)
    /\ End(r)
    /\ UNCHANGED data

DemotesSelf(r) == UserOf[op[r].target] = op[r].actor /\ op[r].newRole = "viewer"

(* UPDATE memberships .. ; COMMIT, unless the actor would become a viewer. *)
UpdateRole(r) ==
    /\ pc[r] = "write"
    /\ op[r].kind = "update"
    /\ role' = IF DemotesSelf(r) THEN role
               ELSE [role EXCEPT ![op[r].target] = op[r].newRole]
    /\ End(r)
    /\ UNCHANGED <<used, assigned>>

(* DELETE FROM task_assignees .. (and UPDATE tickets SET assignee_id = NULL ..): *)
(* the statement acts on the assignments committed as it starts.                  *)
StartClearing(r) ==
    /\ pc[r] = "write"
    /\ op[r].kind = "remove"
    /\ rest' = [rest EXCEPT ![r] = {p \in assigned : p[2] = UserOf[op[r].target]}]
    /\ Goto(r, "clear_assigned")
    /\ UNCHANGED <<data, locks, op, seen, scan, at, cleared>>

(* It deletes them row by row, in no order a program could rely on.  A row that  *)
(* another transaction has deleted makes it wait, and it keeps what it has.       *)
DeleteRow(r) ==
    /\ pc[r] \in Deleting
    /\ \E p \in IF at[r] = {} THEN rest[r] ELSE at[r] :
        /\ \A q \in Requests \ {r} : p \notin cleared[q]
        /\ rest' = [rest EXCEPT ![r] = @ \ {p}]
        /\ cleared' = [cleared EXCEPT ![r] = @ \cup {p}]
    /\ at' = [at EXCEPT ![r] = {}]
    /\ UNCHANGED <<data, locks, pc, op, seen, scan>>

DeleteBlocks(r) ==
    /\ pc[r] \in Deleting
    /\ at[r] = {}
    /\ \E p \in rest[r] :
        /\ \E q \in Requests \ {r} : p \in cleared[q]
        /\ at' = [at EXCEPT ![r] = {p}]
    /\ UNCHANGED <<data, locks, pc, op, seen, scan, rest, cleared>>

(* Variant: the row stays and is marked as removed. *)
MarkRemoved(r) ==
    /\ pc[r] = "clear_assigned"
    /\ rest[r] = {}
    /\ role' = [role EXCEPT ![op[r].target] = "removed"]
    /\ End(r)
    /\ UNCHANGED <<used, assigned>>

(* DELETE FROM memberships ..; COMMIT. *)
RemoveMember(r) ==
    /\ pc[r] = "clear_assigned"
    /\ rest[r] = {}
    /\ role' = [role EXCEPT ![op[r].target] = Absent]
    /\ assigned' = assigned \ cleared[r]
    /\ Finish(r, cleared[r])
    /\ UNCHANGED used

-----------------------------------------------------------------------------
(* invite_member, for an e-mail address that already has an account *)

(* Variant: an admin may invite an owner. *)
BeginAnyInvite(r, u, i, ro) ==
    /\ pc[r] = "idle"
    /\ i \notin used
    /\ used' = used \cup {i}
    /\ op' = [op EXCEPT ![r] = [kind |-> "invite", actor |-> u, target |-> i, newRole |-> ro]]
    /\ Goto(r, "invite_check")
    /\ UNCHANGED <<role, assigned, locks, seen, scan, rows>>

BeginInvite(r, u, i, ro) ==
    /\ pc[r] = "idle"
    /\ i \notin used
    /\ ro # "owner"
    /\ used' = used \cup {i}
    /\ op' = [op EXCEPT ![r] = [kind |-> "invite", actor |-> u, target |-> i, newRole |-> ro]]
    /\ Goto(r, "invite_check")
    /\ UNCHANGED <<role, assigned, locks, seen, scan, rows>>

(* assert_workspace_admin and the already-a-member query, outside a transaction. *)
MayInvite(r) ==
    HasRole(op[r].actor, Admins) /\ ~IsMember(UserOf[op[r].target])

CheckInvite(r) ==
    /\ pc[r] = "invite_check"
    /\ MayInvite(r)
    /\ Goto(r, "insert_member")
    /\ UNCHANGED <<data, locks, op, seen, scan, rows>>

RefuseInvite(r) ==
    /\ pc[r] = "invite_check"
    /\ ~MayInvite(r)
    /\ End(r)
    /\ UNCHANGED data

(* Variant: the insertion has no ON CONFLICT, the table no such constraint. *)
InsertAnyway(r) ==
    /\ pc[r] = "insert_member"
    /\ role' = [role EXCEPT ![op[r].target] = op[r].newRole]
    /\ End(r)
    /\ UNCHANGED <<used, assigned>>

(* INSERT .. ON CONFLICT (workspace_id, user_id) DO NOTHING; COMMIT. *)
InsertMember(r) ==
    /\ pc[r] = "insert_member"
    /\ role' = IF IsMember(UserOf[op[r].target]) THEN role
               ELSE [role EXCEPT ![op[r].target] = op[r].newRole]
    /\ End(r)
    /\ UNCHANGED <<used, assigned>>

-----------------------------------------------------------------------------
(* update_task with assignees: replace_assignees.  (create_task's is of a row  *)
(* nobody else knows.  A ticket has one assignee and is written by one UPDATE;  *)
(* its check is CheckAssignees too.)                                            *)

(* The actor's edit right is checked before the transaction begins. *)
BeginAssign(r, u, x, S, f) ==
    /\ pc[r] = "idle"
    /\ HasRole(u, Editors)
    /\ op' = [op EXCEPT ![r] = [kind |-> "assign", item |-> x, users |-> S, fields |-> f]]
    /\ Goto(r, IF f THEN "write_task" ELSE "check_assignees")
    /\ UNCHANGED <<data, locks, seen, scan, rows>>

(* UPDATE tasks .., of a PATCH that has fields beside the assignees. *)
WriteTask(r) ==
    /\ pc[r] = "write_task"
    /\ writer[op[r].item] = Free
    /\ writer' = [writer EXCEPT ![op[r].item] = r]
    /\ Goto(r, "check_assignees")
    /\ UNCHANGED <<data, lockedBy, op, seen, scan, rows>>

(* The count of the memberships. *)
CheckAssignees(r) ==
    /\ pc[r] = "check_assignees"
    /\ \A u \in op[r].users : IsMember(u)
    /\ Goto(r, "snapshot")
    /\ UNCHANGED <<data, locks, op, seen, scan, rows>>

RefuseAssignees(r) ==
    /\ pc[r] = "check_assignees"
    /\ \E u \in op[r].users : ~IsMember(u)
    /\ End(r)
    /\ UNCHANGED data

(* DELETE FROM task_assignees WHERE task_id = ..: DeleteRow and DeleteBlocks follow. *)
StartReplacing(r) ==
    /\ pc[r] = "snapshot"
    /\ rest' = [rest EXCEPT ![r] = {p \in assigned : p[1] = op[r].item}]
    /\ Goto(r, "replace_assigned")
    /\ UNCHANGED <<data, locks, op, seen, scan, at, cleared>>

Asked(r) == {op[r].item} \X op[r].users

(* INSERT INTO task_assignees .. unnest(..), of no row when none is asked for. *)
StartInserting(r) ==
    /\ pc[r] = "replace_assigned"
    /\ rest[r] = {}
    /\ rest' = [rest EXCEPT ![r] = Asked(r)]
    /\ Goto(r, "insert_assigned")
    /\ UNCHANGED <<data, locks, op, seen, scan, at, cleared>>

(* What a request has deleted, or inserted so far, and not yet committed. *)
Written(r) ==
    cleared[r] \cup IF pc[r] = "insert_assigned" THEN Asked(r) \ rest[r] ELSE {}

(* The ids are sorted: the INSERT comes to the rows in their order.  The primary *)
(* key makes it wait for whoever has written an equal row.                        *)
Insertable(r, p) ==
    /\ pc[r] = "insert_assigned"
    /\ \A o \in rest[r] : p[2] <= o[2]
    /\ \A q \in Requests \ {r} : p \notin Written(q)

InsertRow(r) ==
    /\ \E p \in rest[r] :
        /\ Insertable(r, p)
        /\ p \notin assigned \ cleared[r]
        /\ rest' = [rest EXCEPT ![r] = @ \ {p}]
    /\ UNCHANGED <<data, locks, pc, op, seen, scan, at, cleared>>

(* An equal row has been committed since the DELETE. *)
DuplicateKey(r) ==
    /\ \E p \in rest[r] : Insertable(r, p) /\ p \in assigned \ cleared[r]
    /\ End(r)
    /\ UNCHANGED data

(* touch_task: UPDATE tasks SET updated_at ..; COMMIT. *)
TouchTask(r) ==
    /\ pc[r] = "insert_assigned"
    /\ rest[r] = {}
    /\ writer[op[r].item] \in {Free, r}
    /\ assigned' = (assigned \ cleared[r]) \cup Asked(r)
    /\ Finish(r, cleared[r])
    /\ UNCHANGED <<role, used>>

-----------------------------------------------------------------------------
(* The rollback of a request whose client has gone, whose connection failed *)
(* or whose process stopped.                                                *)
Abandon(r) ==
    /\ pc[r] # "idle"
    /\ End(r)
    /\ UNCHANGED data

WaitsFor(r, q) ==
    /\ q # r
    /\ \/ pc[r] = "wait" /\ lockedBy[want[r]] = q
       \/ pc[r] = "lock_target" /\ lockedBy[op[r].target] = q
       \/ pc[r] \in Deleting /\ at[r] \cap cleared[q] # {}
       \/ pc[r] = "insert_assigned" /\ \E p \in rest[r] :
            p \in Written(q) /\ \A o \in rest[r] : p[2] <= o[2]
       \/ pc[r] = "insert_assigned" /\ rest[r] = {} /\ writer[op[r].item] = q
       \/ pc[r] = "write_task" /\ writer[op[r].item] = q

(* The requests in C wait for one another; each waits for one holder at a time, *)
(* so a smallest such set is a circle.                                           *)
Cycle(C) == C # {} /\ \A p \in C : \E q \in C : WaitsFor(p, q)

Deadlock(C) == Cycle(C) /\ \A D \in SUBSET C : Cycle(D) => D = C

InDeadlock(r) == \E C \in SUBSET Requests : r \in C /\ Deadlock(C)

(* PostgreSQL's deadlock detector aborts one transaction of a cycle. *)
DeadlockAbort(r) ==
    /\ InDeadlock(r)
    /\ End(r)
    /\ UNCHANGED data

Begin(r) ==
    \/ \E u \in Users, i \in MemberIds : BeginRemove(r, u, i)
    \/ \E u \in Users, i \in MemberIds, ro \in Granted :
        BeginUpdate(r, u, i, ro) \/ BeginInvite(r, u, i, ro)
    \/ \E u \in Users, x \in Items, S \in Teams, f \in BOOLEAN : BeginAssign(r, u, x, S, f)

Serve(r) ==
    \/ TargetMissing(r) \/ LockTarget(r) \/ Authorize(r) \/ Forbid(r)
    \/ OwnerScan(r) \/ ScanRow(r) \/ ScanBlocks(r) \/ ScanWakes(r)
    \/ ScanDone(r) \/ RefuseLastOwner(r) \/ UpdateRole(r)
    \/ StartClearing(r) \/ DeleteRow(r) \/ DeleteBlocks(r) \/ RemoveMember(r)
    \/ CheckInvite(r) \/ RefuseInvite(r) \/ InsertMember(r)
    \/ WriteTask(r) \/ CheckAssignees(r) \/ RefuseAssignees(r) \/ StartReplacing(r)
    \/ StartInserting(r) \/ InsertRow(r) \/ DuplicateKey(r) \/ TouchTask(r)

Next == \E r \in Requests : Begin(r) \/ Serve(r) \/ Abandon(r) \/ DeadlockAbort(r)

Spec == Init /\ [][Next]_vars

(* A request that can go on does: handlers run to their end unless dropped, *)
(* PostgreSQL queues the waiters of a row, so none is passed over for ever,  *)
(* and its deadlock detector runs.  Nothing makes a client ask or go away.   *)
FairSpec ==
    /\ Spec
    /\ \A r \in Requests : SF_vars(Serve(r)) /\ WF_vars(DeadlockAbort(r))

-----------------------------------------------------------------------------
(* Properties *)

(* Every variable keeps its type (memberships table, locks, request state). *)
TypeOK ==
    /\ role \in [MemberIds -> Roles \cup {Absent}]
    /\ used \in SUBSET MemberIds
    /\ assigned \in SUBSET (Items \X Users)
    /\ lockedBy \in [MemberIds -> Requests \cup {Free}]
    /\ writer \in [Items -> Requests \cup {Free}]
    /\ pc \in [Requests -> PCs]
    /\ op \in [Requests -> Ops \cup {NoOp}]
    /\ seen \in [Requests -> Roles \cup {Absent}]
    /\ todo \in [Requests -> SUBSET MemberIds]
    /\ owners \in [Requests -> SUBSET MemberIds]
    /\ want \in [Requests -> MemberIds]
    /\ rest \in [Requests -> SUBSET (Items \X Users)]
    /\ at \in [Requests -> SUBSET (Items \X Users)]
    /\ cleared \in [Requests -> SUBSET (Items \X Users)]

(* The workspace always has an owner, however demotions and removals of    *)
(* different owners interleave (the owner scans of update_membership and   *)
(* remove_membership).                                                     *)
LastOwner == OwnerIds # {}

(* No account has two memberships, though invite_member's already-a-member *)
(* query is not in the transaction that inserts the row.                   *)
OneRowPerUser ==
    \A i, j \in MemberIds :
        role[i] # Absent /\ role[j] # Absent /\ UserOf[i] = UserOf[j] => i = j

Holding == {"authorize", "owner_scan", "scan", "wait", "write", "clear_assigned"}

(* What a request read from its target row is still what the row holds when *)
(* the request acts on it: FOR UPDATE serializes role changes of a row.     *)
TargetStable ==
    \A r \in Requests :
        pc[r] \in Holding => role[op[r].target] = seen[r] /\ seen[r] # Absent

(* Requests that change memberships deadlock only while they take the owner role *)
(* from someone (workspace.rs:212, :284: the target is locked, then every owner).  *)
(* Writers of assignees do among themselves (access.rs:251-262: assignments, then   *)
(* the task's row, which a PATCH with fields has locked before), but not removals    *)
(* alone, and never in a circle with a role change.  A grant or an invitation is in  *)
(* no deadlock.                                                                      *)
DeadlocksStayApart ==
    \A C \in SUBSET Requests : Deadlock(C) =>
        \/ \A r \in C : pc[r] = "wait" /\ TakesOwner(r)
        \/ /\ \A r \in C : pc[r] \in Deleting \cup {"insert_assigned"}
           /\ \E r \in C : op[r].kind = "assign"

(* Every request that was begun ends, by its own steps or by the deadlock   *)
(* detector: role changes do not wait on each other for ever.               *)
RequestsFinish == \A r \in Requests : pc[r] # "idle" ~> pc[r] = "idle"

(* Whatever the interleaving, the memberships change as the one-step        *)
(* operations of Roster do.                                                 *)
R == INSTANCE Roster WITH MemberIds <- MemberIds, UserOf <- UserOf,
                          Founder <- Founder, role <- role
ImplementsRoster == R!Spec

(* workspace.rs:195 and :263: the actor's role is read under the target's   *)
(* lock so that it cannot drift before the change commits, i.e. whoever     *)
(* changes a membership still administers the workspace when it changes.    *)
AuthorityDoesNotDrift ==
    [][\A r \in Requests :
        (UpdateRole(r) \/ RemoveMember(r)) /\ role' # role
            => HasRole(op[r].actor, Admins)]_vars

(* access.rs:242: an assignee is an active workspace member, also after a   *)
(* member is removed.                                                       *)
AssigneesAreMembers == \A p \in assigned : IsMember(p[2])

=============================================================================
