-------------------------------- MODULE Content --------------------------------
(***************************************************************************)
(* What the members of a workspace write to each other: comments on a task *)
(* with mentions and notifications (subtasks.rs, ws.rs), tickets           *)
(* (tickets.rs) and milestones (milestones.rs).                            *)
(*                                                                         *)
(* One task, its row locked and counted as PostgreSQL does it.  An action  *)
(* is one statement, or the last statements of a transaction with its      *)
(* COMMIT, when nothing they read can change in between.  Removals of      *)
(* members, assignments and the deletion of the task are one action here:  *)
(* Membership and Tasks have their statements.                             *)
(***************************************************************************)
EXTENDS Integers, Sequences, FiniteSetsExt, Folds

CONSTANTS
    Users,        \* the first members of the workspace
    Editors,      \* those whose role can_edit; the others are viewers
    Name,         \* the name of each user, a sequence of characters
    Bodies,       \* the texts that are commented
    Assignees,    \* the users tickets are assigned to
    Teams,        \* the sets of users the task is assigned to
    TicketIds,
    MilestoneIds,
    Requests,     \* slots for requests being served at the same time
    MaxBegun,     \* bound on how many requests are begun
    MaxComments,  \* bound on comments, written or under way
    MaxKey,       \* bound on ticket numbers
    None          \* nobody, no ticket, no holder

ASSUME ContentAssumption ==
    /\ Editors \cup Assignees \cup UNION Teams \subseteq Users
    /\ IsFiniteSet(Users)
    /\ \A u \in Users : Len(Name[u]) \in Nat
    /\ MilestoneIds \cap 1..MaxComments = {}  \* ids of different tables
    /\ IsFiniteSet(Requests)                  \* the connections of the pool
    /\ {MaxBegun, MaxComments, MaxKey} \subseteq Nat
    /\ None \notin Users \cup Requests

VARIABLES
    active,     \* the users with an active membership
    assigned,   \* the assignees of the task
    reassigned, \* whether they have been replaced
    stored,     \* whether the task is there
    comments,   \* its comments, in the order in which they were committed
    count,      \* its comments_count
    inbox,      \* how many notifications of each kind and occasion each user has
    ticket,     \* the rows of tickets
    milestones, \* the rows of milestones
    begun,      \* how many requests have been begun
    pc,         \* the statement each request runs next
    op,         \* what each request asks for
    num,        \* the number a request has computed or read
    seen,       \* the members a comment has read
    rowLock,    \* the comment that has updated the row of the task
    keyLock     \* the holder of the advisory lock of ticket keys

people == <<active, assigned, reassigned>>
talk == <<stored, comments, count, rowLock>>
desk == <<ticket, keyLock>>
vars == <<people, talk, desk, inbox, milestones, begun, pc, op, num, seen>>

NoTicket == [key |-> 0, assignee |-> None]
NoOp == [kind |-> "none"]
Keep == "keep"  \* a PATCH without assignee_id

Kinds == {"mention", "comment", "milestone"}
Notes == [kind : Kinds, about : (1..MaxComments) \cup MilestoneIds]

Ops == [kind : {"comment"}, user : Users, body : Bodies]
       \cup [kind : {"detail"}]
       \cup [kind : {"ticket"}, assignee : Assignees \cup {None}]
       \cup [kind : {"patch"}, id : TicketIds, assignee : Assignees \cup {None, Keep}]
       \cup [kind : {"drop"}, id : TicketIds]
       \cup [kind : {"milestone"}, user : Users]
       \cup [kind : {"unmilestone"}, id : MilestoneIds]

PCs == {"idle", "insert_comment", "count", "members", "notify", "read_row", "read_comments",
        "check_assignee", "lock_key", "read_key", "insert_ticket", "update_ticket",
        "delete_ticket", "insert_milestone", "delete_milestone"}

TypeOK ==
    /\ active \subseteq Users
    /\ assigned \subseteq Users
    /\ reassigned \in BOOLEAN /\ stored \in BOOLEAN
    /\ comments \in Seq([author : Users, body : Bodies]) /\ Len(comments) <= MaxComments
    /\ count \in 0..MaxComments
    /\ inbox \in [Users -> [Notes -> Nat]]
    /\ ticket \in [TicketIds -> [key : 1..MaxKey, assignee : Assignees \cup {None}] \cup {NoTicket}]
    /\ milestones \subseteq MilestoneIds
    /\ begun \in 0..MaxBegun
    /\ pc \in [Requests -> PCs]
    /\ op \in [Requests -> Ops \cup {NoOp}]
    /\ num \in [Requests -> 0..(MaxComments + MaxKey)]
    /\ seen \in [Requests -> SUBSET Users]
    /\ rowLock \in Requests \cup {None} /\ keyLock \in Requests \cup {None}

Init ==
    /\ active = Users
    /\ assigned \in Teams
    /\ reassigned = FALSE
    /\ stored = TRUE
    /\ comments = <<>>
    /\ count = 0
    /\ inbox = [u \in Users |-> [n \in Notes |-> 0]]
    /\ ticket = [t \in TicketIds |-> NoTicket]
    /\ milestones = {}
    /\ begun = 0
    /\ pc = [r \in Requests |-> "idle"]
    /\ op = [r \in Requests |-> NoOp]
    /\ num = [r \in Requests |-> 0]
    /\ seen = [r \in Requests |-> {}]
    /\ rowLock = None
    /\ keyLock = None

-----------------------------------------------------------------------------
(* The texts: mentioned_user_ids *)

IsAlphanumeric(c) == c \notin {"@", " "}

Pattern(u) == <<"@">> \o Name[u]

(* Where the name of u follows an "@", with no letter before or behind. *)
Matches(u, body) ==
    {s \in DOMAIN body :
        LET end == s + Len(Pattern(u)) IN
        /\ end <= Len(body) + 1
        /\ SubSeq(body, s, end - 1) = Pattern(u)
        /\ s > 1 => ~IsAlphanumeric(body[s - 1])
        /\ end <= Len(body) => ~IsAlphanumeric(body[end])}

Places(u, s) == s..(s + Len(Name[u]))

(* Of the names that are left the shortest comes last. *)
Shortest(members) ==
    CHOOSE u \in members : \A v \in members : Len(Name[u]) <= Len(Name[v])

(* u is mentioned where no longer name has claimed a part of the text. *)
Claim(body, u, acc) ==
    LET hits == {s \in Matches(u, body) : Places(u, s) \cap acc.claimed = {}} IN
    [claimed |-> acc.claimed \cup UNION {Places(u, s) : s \in hits},
     out |-> IF hits = {} THEN acc.out ELSE acc.out \cup {u}]

MentionedUserIds(body, members) ==
    MapThenFoldSet(LAMBDA u, acc : Claim(body, u, acc), [claimed |-> {}, out |-> {}],
                   LAMBDA u : u, Shortest, members).out

-----------------------------------------------------------------------------
(* The access checks: one SELECT joins the row, its workspace and the membership. *)

Present(t) == ticket[t] # NoTicket

MayReadTask(u) == stored /\ u \in active
MayEditProject(u) == u \in active \cap Editors
MayEditTicket(t) == Present(t) /\ active \cap Editors # {}
MayEditMilestone(m) == m \in milestones /\ active \cap Editors # {}

Goto(r, label) == pc' = [pc EXCEPT ![r] = label]

(* The handler returns or is dropped; a transaction under way is rolled back. *)
End(r) ==
    /\ pc' = [pc EXCEPT ![r] = "idle"]
    /\ op' = [op EXCEPT ![r] = NoOp]
    /\ num' = [num EXCEPT ![r] = 0]
    /\ seen' = [seen EXCEPT ![r] = {}]

Release(lock, r) == IF lock = r THEN None ELSE lock

Begin(r, o, label) ==
    /\ pc[r] = "idle"
    /\ begun < MaxBegun  \* bound
    /\ begun' = begun + 1
    /\ op' = [op EXCEPT ![r] = o]
    /\ Goto(r, label)
    /\ UNCHANGED <<people, talk, desk, inbox, milestones, num, seen>>

-----------------------------------------------------------------------------
(* create_comment *)

Commenting == {r \in Requests : pc[r] \in {"insert_comment", "count", "members", "notify"}}

(* Viewers comment as well: read access is enough. *)
BeginComment(r, u, body) ==
    /\ MayReadTask(u)
    /\ Len(comments) + Cardinality(Commenting) < MaxComments  \* bound
    /\ Begin(r, [kind |-> "comment", user |-> u, body |-> body], "insert_comment")

(* INSERT INTO comments: its foreign key keeps the task from being deleted. *)
InsertComment(r) ==
    /\ pc[r] = "insert_comment"
    /\ stored
    /\ Goto(r, "count")
    /\ UNCHANGED <<people, talk, desk, inbox, milestones, op, num, seen, begun>>

TaskGone(r) ==  \* 500, or 404 from fetch_task
    /\ pc[r] \in {"insert_comment", "read_row"}
    /\ ~stored
    /\ End(r)
    /\ UNCHANGED <<people, talk, desk, inbox, milestones, begun>>

(* Variant: the count is read, and written when it has been added to. (Each  *)
(* "Variant" is a change of the definition after it that a property rejects.) *)
CountInProgram(r) ==
    /\ pc[r] = "count"
    /\ num' = [num EXCEPT ![r] = count + 1]
    /\ Goto(r, "members")
    /\ UNCHANGED <<people, talk, desk, inbox, milestones, op, seen, begun>>

(* UPDATE tasks SET comments_count = comments_count + 1: waits for the row. *)
CountComment(r) ==
    /\ pc[r] = "count"
    /\ rowLock = None
    /\ rowLock' = r
    /\ num' = [num EXCEPT ![r] = count + 1]
    /\ Goto(r, "members")
    /\ UNCHANGED <<people, stored, comments, count, desk, inbox, milestones, op, seen, begun>>

ReadMembers(r) ==
    /\ pc[r] = "members"
    /\ seen' = [seen EXCEPT ![r] = active]
    /\ Goto(r, "notify")
    /\ UNCHANGED <<people, talk, desk, inbox, milestones, op, num, begun>>

Mentioned(r) == MentionedUserIds(op[r].body, seen[r])

MentionTargets(r) == Mentioned(r) \ {op[r].user}

Participants == assigned \cup {comments[i].author : i \in DOMAIN comments}

(* Variant: mentioned participants are told of the comment as well. *)
AllParticipants(r) == (Participants \cap seen[r]) \ {op[r].user}

CommentTargets(r) == ((Participants \cap seen[r]) \ {op[r].user}) \ Mentioned(r)

(* Each of the targets gets one more notification. *)
Notified(box, targets, kind, about) ==
    [u \in Users |-> IF u \in targets
                     THEN [box[u] EXCEPT ![[kind |-> kind, about |-> about]] = @ + 1]
                     ELSE box[u]]

(* The participants are read, everybody's notification is inserted; COMMIT. *)
NotifyAndCommit(r) ==
    LET n == Len(comments) + 1 IN
    /\ pc[r] = "notify"
    /\ inbox' = Notified(Notified(inbox, MentionTargets(r), "mention", n),
                         CommentTargets(r), "comment", n)
    /\ comments' = Append(comments, [author |-> op[r].user, body |-> op[r].body])
    /\ count' = num[r]
    /\ rowLock' = Release(rowLock, r)
    /\ Goto(r, "read_row")
    /\ UNCHANGED <<people, stored, desk, milestones, op, num, seen, begun>>

-----------------------------------------------------------------------------
(* fetch_task: the detail of a task, asked for or the answer to a comment *)

BeginDetail(r) ==
    /\ \E u \in Users : MayReadTask(u)
    /\ Begin(r, [kind |-> "detail"], "read_row")

ReadRow(r) ==
    /\ pc[r] = "read_row"
    /\ stored
    /\ num' = [num EXCEPT ![r] = count]
    /\ Goto(r, "read_comments")
    /\ UNCHANGED <<people, talk, desk, inbox, milestones, op, seen, begun>>

(* assemble_tasks: the children of the row, each kind in a statement of its own. *)
ReadComments(r) ==
    /\ pc[r] = "read_comments"
    /\ End(r)
    /\ UNCHANGED <<people, talk, desk, inbox, milestones, begun>>

-----------------------------------------------------------------------------
(* Tickets *)

Keys == {ticket[t].key : t \in {k \in TicketIds : Present(k)}}

(* Variant: numbers start at 0. *)
NextTicketKeyOff(keys) == IF keys = {} THEN 0 ELSE Max(keys) + 1

NextTicketKey(keys) == Max(keys \cup {0}) + 1

AfterCheck(o) == IF o.kind = "ticket" THEN "lock_key" ELSE "update_ticket"

(* An assignee, if the request names one, is checked first. *)
BeginAssignable(r, o) ==
    Begin(r, o, IF o.assignee \in Users THEN "check_assignee" ELSE AfterCheck(o))

BeginCreateTicket(r) ==
    /\ \E u \in Users : MayEditProject(u)
    /\ \E a \in Assignees \cup {None} :
        BeginAssignable(r, [kind |-> "ticket", assignee |-> a])

BeginUpdateTicket(r, t) ==
    /\ MayEditTicket(t)
    /\ \E a \in Assignees \cup {None, Keep} :
        BeginAssignable(r, [kind |-> "patch", id |-> t, assignee |-> a])

BeginDeleteTicket(r, t) ==
    /\ MayEditTicket(t)
    /\ Begin(r, [kind |-> "drop", id |-> t], "delete_ticket")

(* assert_user_in_project: reads the membership, locks nothing. *)
CheckAssignee(r) ==
    /\ pc[r] = "check_assignee"
    /\ op[r].assignee \in active
    /\ op[r].kind = "patch" => Present(op[r].id)
    /\ Goto(r, AfterCheck(op[r]))
    /\ UNCHANGED <<people, talk, desk, inbox, milestones, op, num, seen, begun>>

RefuseAssignee(r) ==
    /\ pc[r] = "check_assignee"
    /\ \/ op[r].assignee \notin active
       \/ op[r].kind = "patch" /\ ~Present(op[r].id)
    /\ End(r)
    /\ UNCHANGED <<people, talk, desk, inbox, milestones, begun>>

(* Variant: without the advisory lock. *)
SkipTicketLock(r) ==
    /\ pc[r] = "lock_key"
    /\ Goto(r, "read_key")
    /\ UNCHANGED <<people, talk, desk, inbox, milestones, op, num, seen, begun>>

LockTicketKeys(r) ==
    /\ pc[r] = "lock_key"
    /\ keyLock = None
    /\ keyLock' = r
    /\ Goto(r, "read_key")
    /\ UNCHANGED <<people, talk, ticket, inbox, milestones, op, num, seen, begun>>

ReadTicketKey(r) ==
    /\ pc[r] = "read_key"
    /\ num' = [num EXCEPT ![r] = NextTicketKey(Keys)]
    /\ num'[r] <= MaxKey  \* bound
    /\ Goto(r, "insert_ticket")
    /\ UNCHANGED <<people, talk, desk, inbox, milestones, op, seen, begun>>

(* INSERT INTO tickets, the audit event; COMMIT. *)
InsertTicket(r) ==
    /\ pc[r] = "insert_ticket"
    /\ \E t \in TicketIds :
        /\ ~Present(t)
        /\ ticket' = [ticket EXCEPT ![t] = [key |-> num[r], assignee |-> op[r].assignee]]
    /\ keyLock' = Release(keyLock, r)
    /\ End(r)
    /\ UNCHANGED <<people, talk, inbox, milestones, begun>>

(* One UPDATE writes the fields the PATCH has; no row when the ticket is gone. *)
UpdateTicket(r) ==
    LET t == op[r].id  a == op[r].assignee IN
    /\ pc[r] = "update_ticket"
    /\ ticket' = IF Present(t) /\ a # Keep THEN [ticket EXCEPT ![t].assignee = a] ELSE ticket
    /\ End(r)
    /\ UNCHANGED <<people, talk, keyLock, inbox, milestones, begun>>

DeleteTicket(r) ==
    /\ pc[r] = "delete_ticket"
    /\ ticket' = [ticket EXCEPT ![op[r].id] = NoTicket]
    /\ End(r)
    /\ UNCHANGED <<people, talk, keyLock, inbox, milestones, begun>>

-----------------------------------------------------------------------------
(* Milestones *)

BeginMilestone(r, u) ==
    /\ MayEditProject(u)
    /\ Begin(r, [kind |-> "milestone", user |-> u], "insert_milestone")

(* The row, a notification for each other active member, the audit event; COMMIT. *)
InsertMilestone(r) ==
    /\ pc[r] = "insert_milestone"
    /\ \E m \in MilestoneIds \ milestones :
        /\ milestones' = milestones \cup {m}
        /\ inbox' = Notified(inbox, active \ {op[r].user}, "milestone", m)
    /\ End(r)
    /\ UNCHANGED <<people, talk, desk, begun>>

BeginUnmilestone(r, m) ==
    /\ MayEditMilestone(m)
    /\ Begin(r, [kind |-> "unmilestone", id |-> m], "delete_milestone")

(* Its notifications go with it. *)
Forget(box, about) ==
    [u \in Users |-> [n \in Notes |-> IF n.about \in about THEN 0 ELSE box[u][n]]]

DeleteMilestone(r) ==
    /\ pc[r] = "delete_milestone"
    /\ milestones' = milestones \ {op[r].id}
    /\ inbox' = Forget(inbox, {op[r].id})
    /\ End(r)
    /\ UNCHANGED <<people, talk, desk, begun>>

-----------------------------------------------------------------------------
(* What others do meanwhile, in one step each *)

(* remove_membership: assignments and tickets let go of the user. *)
RemoveMember(u) ==
    /\ u \in active
    /\ active' = active \ {u}
    /\ assigned' = assigned \ {u}
    /\ ticket' = [t \in TicketIds |-> IF ticket[t].assignee = u
                                      THEN [ticket[t] EXCEPT !.assignee = None] ELSE ticket[t]]
    /\ UNCHANGED <<reassigned, talk, keyLock, inbox, milestones, pc, op, num, seen, begun>>

(* replace_assignees *)
Reassign(set) ==
    /\ stored
    /\ ~reassigned  \* bound
    /\ set \subseteq active
    /\ assigned' = set
    /\ reassigned' = TRUE
    /\ UNCHANGED <<active, talk, desk, inbox, milestones, pc, op, num, seen, begun>>

(* delete_task waits for comments under way; what refers to the task goes too. *)
DeleteTask ==
    /\ stored
    /\ \A r \in Commenting : pc[r] = "insert_comment"
    /\ stored' = FALSE
    /\ assigned' = {}
    /\ comments' = <<>>
    /\ count' = 0
    /\ inbox' = Forget(inbox, 1..MaxComments)
    /\ UNCHANGED <<active, reassigned, rowLock, desk, milestones, pc, op, num, seen, begun>>

(* A client that has gone, a connection or a statement that failed. *)
Abandon(r) ==
    /\ pc[r] # "idle"
    /\ End(r)
    /\ rowLock' = Release(rowLock, r)
    /\ keyLock' = Release(keyLock, r)
    /\ UNCHANGED <<people, stored, comments, count, ticket, inbox, milestones, begun>>

-----------------------------------------------------------------------------
BeginAny(r) ==
    \/ \E u \in Users, body \in Bodies : BeginComment(r, u, body)
    \/ BeginDetail(r)
    \/ BeginCreateTicket(r)
    \/ \E t \in TicketIds : BeginUpdateTicket(r, t) \/ BeginDeleteTicket(r, t)
    \/ \E u \in Users : BeginMilestone(r, u)
    \/ \E m \in MilestoneIds : BeginUnmilestone(r, m)

Serve(r) ==
    \/ InsertComment(r) \/ TaskGone(r) \/ CountComment(r) \/ ReadMembers(r) \/ NotifyAndCommit(r)
    \/ ReadRow(r) \/ ReadComments(r)
    \/ CheckAssignee(r) \/ RefuseAssignee(r) \/ LockTicketKeys(r) \/ ReadTicketKey(r)
    \/ InsertTicket(r) \/ UpdateTicket(r) \/ DeleteTicket(r)
    \/ InsertMilestone(r) \/ DeleteMilestone(r)

Next ==
    \/ \E r \in Requests : BeginAny(r) \/ Serve(r) \/ Abandon(r)
    \/ \E u \in Users : RemoveMember(u)
    \/ \E set \in Teams : Reassign(set)
    \/ DeleteTask

Spec == Init /\ [][Next]_vars

-----------------------------------------------------------------------------
(* Properties *)

About(u, kind, n) == inbox[u][[kind |-> kind, about |-> n]]

(* "@Name" stands in the text, and no part of it in an "@" of a name as long. *)
ClearlyMentioned(u, body) ==
    \E s \in Matches(u, body) :
        \A v \in Users \ {u} : Len(Name[v]) >= Len(Name[u]) =>
            \A q \in Matches(v, body) : Places(u, s) \cap Places(v, q) = {}

(* subtasks.rs:168: whatever is written, assigned and removed at the same time,  *)
(* a committed comment has told every member it names, and every other assignee   *)
(* and earlier commenter, once and in one of the two ways, and never its author.  *)
(* (Where an address ends is for Matches to say: no property judges that.)        *)
CommentsReachParticipants ==
    \A n \in DOMAIN comments : \A u \in active :
        LET author == comments[n].author
            mentions == About(u, "mention", n)
            others == About(u, "comment", n)
        IN
        /\ mentions + others <= 1
        /\ u = author => mentions + others = 0
        /\ Matches(u, comments[n].body) = {} => mentions = 0
        /\ u # author /\ ClearlyMentioned(u, comments[n].body) => mentions = 1
        /\ u # author /\ (\E i \in 1..(n - 1) : comments[i].author = u) => mentions + others = 1
        /\ u # author /\ ~reassigned /\ u \in assigned => mentions + others = 1

(* subtasks.rs:156 and assemble.rs: the counter of a task counts its comments,   *)
(* and no answer about a task that is still there lists fewer comments than the   *)
(* counter it shows, though the counter is read some time before the comments.    *)
CommentsCounted ==
    /\ count = Len(comments)
    /\ \A r \in Requests : pc[r] = "read_comments" /\ stored => num[r] <= Len(comments)

(* tickets.rs:205: a ticket that is about to be inserted has a number nobody else *)
(* has, or will have: the UNIQUE constraint never turns a create into an error.   *)
TicketKeysNeverCollide ==
    /\ \A r \in Requests : pc[r] = "insert_ticket" => num[r] \notin Keys
    /\ \A t, k \in TicketIds : t # k /\ Present(t) => ticket[t].key # ticket[k].key
=============================================================================
