# Milestep: specifications, model checking and proofs

Milestep is a team planner: an Axum/SQLx backend on PostgreSQL
(`crates/backend`), a Leptos client compiled to WebAssembly
(`crates/frontend`) and the data transfer objects both share
(`crates/shared`). This directory specifies how its concurrent parts behave,
checks the specifications with TLC on small instances, and proves the central
facts with TLAPS for instances of any size. Paths below are relative to the
repository (`src/` in `PROJECT.json`).

## 1. The system

### Components

| Component (source) | State | Operations | Correct when |
|---|---|---|---|
| Workspace memberships (`workspace.rs`, `access.rs`) | rows of `memberships`, `task_assignees` | invite, change role, remove, replace assignees | an owner always remains, nobody joins twice, a change acts on the role it has read |
| Tasks, recurrence, subtasks (`tasks.rs`, `recurrence.rs`, `subtasks.rs`) | rows of `tasks`, `subtasks`; two families of advisory locks | create, patch, move, delete; write subtasks; follow-ups | keys and positions are unique, one follow-up per completion, nothing is left of a deleted task |
| Attachments (`attachments.rs`, `tasks.rs` delete) | rows of `attachments`, files in the upload directory | upload, delete, cascade | the quota holds, a row has its file, a file has a row or somebody who will remove it |
| Accounts and sessions (`auth.rs`, `session.rs`) | rows of `users`, `sessions`, `workspace_invites` | register, login, authenticate, logout, logout everywhere | sessions slide up to a hard cap, a logout is final, one first user, invites work once |
| Realtime server (`ws.rs`) | broadcast channel, sockets, `ws_conns` | handshake, ping, event, lag | slots agree with sockets, revoked access closes sockets, no event is lost without a resync |
| Notifications, comments, mentions (`ws.rs`, `subtasks.rs`, `access.rs`) | rows of `comments`, `notifications`; `comments_count` | comment, mark read | a comment tells everybody concerned once and its author never; the counter is right |
| Tickets (`tickets.rs`), milestones (`milestones.rs`) | rows of `tickets`, `milestones` | create, update, delete | numbers unique, never turned into an error; a milestone is announced once |
| Bootstrap (`queries.rs`, `assemble.rs`, `convert.rs`, `rows.rs`) | none | read a whole workspace with eleven concurrent reads | the parts fit together |
| Middleware (`middleware.rs`) | a map of counters | same-origin check, per-address limit, headers | the limit holds for every address; a client outside `trusted_proxies` cannot choose whose entry it is counted in |
| Configuration, startup, routing, seed (`config.rs`, `startup.rs`, `router.rs`, `error.rs`, `seed*.rs`) | environment, seeded rows | run once | the server can be started again, wherever it stopped |
| Client (`frontend`: `realtime.rs`, `actions.rs`, `main.rs`, `api.rs`) | `data`, realtime loops and epochs, `REFETCH_PENDING` | bootstrap, refetch, optimistic changes, login, logout | what is on screen follows what is stored |
| Views (`views_*.rs`, `i18n.rs` and others of `frontend`) | signals of a view | calendar, timeline, rendering | a task is on its day and its bar under its dates |
| Deployment (`deploy`, `Dockerfile`) | | | |

### How they interact

Every request passes the middleware, is authenticated by `require_auth` (one
read of `sessions`, sometimes an update) and authorized by a read of
`memberships`; it then runs one transaction, commits, and calls
`notify_workspace`, which puts an event into an in-process broadcast channel.
Each open WebSocket has a receiver of the channel and sends the events of its
workspace to the client, except the echo of the client's own change. The
client answers an event with a full bootstrap request. Handlers share nothing
else in memory but two mutexes (`ws_conns`, the rate limiter) and a semaphore
(password hashes): the database and the upload directory are the shared state.

### What is hard

* **READ COMMITTED.** Each statement sees what is committed when it starts. A
  role, a status or a list of paths read by one statement may be stale for the
  next; only what is locked `FOR UPDATE`, or under an advisory lock, stays.
* **Lock order.** Owner scans, deletions with their cascades, foreign keys and
  `replace_assignees` (assignments first, then the row of the task, which the
  same PATCH may have locked before) take locks in orders that can cross;
  PostgreSQL's deadlock detector ends it.
* **Files beside rows.** No transaction spans the upload directory.
* **Dropped futures.** A handler ends at any `.await` when its client goes
  away: its transaction is rolled back and its cleanup code does not run.
* **A client that is behind.** Events, bootstrap answers, answers to the
  client's own changes, logins and logouts arrive in any order.
* **Time.** Sliding expiry with a cap; sockets that outlive their session.
* **Stops in the middle.** The demo seed is a run of statements without a
  transaction, and a server may stop between any two of them.
* **Dates.** Server and client compute with two different calendars; recurring
  tasks cross the ends of short months.

`PROJECT.json` lists these hazards one by one, at their lines, with the
properties that cover them.

## 2. Modules

| Module | Models | Checked by runs |
|---|---|---|
| `Roster` | abstract: what a workspace promises about its members | refined by `Membership` |
| `Membership` | `workspace.rs`, `access.rs`: role changes, removals, invitations of existing users, assignees | `membership`, `authority_drift`, `stray_assignee` |
| `MembershipProofs` | theorems about `Membership` | TLAPS |
| `Tasks` | `tasks.rs`, `recurrence.rs`, `subtasks.rs` | `tasks`, `lost_follow_up` |
| `TasksProofs` | theorems about `Tasks` and about the dates of `Schedule` | TLAPS |
| `Dates` | the dates of follow-ups (`recurrence.rs`) and the client's calendar (`i18n.rs`, `views_timeline.rs`), as pure operators | through `Schedule` |
| `Timeline` | the geometry of the timeline chart (`views_gantt.rs`), as pure operators | through `Schedule` |
| `Schedule` | composes `Tasks` with `Timeline` and `Dates`: the properties about dates | `tasks`, `lost_follow_up` |
| `Accounts` | `startup.rs` and `seed.rs`; the limiter of `middleware.rs`; `register` and `login` of `auth.rs`; invites of `workspace.rs` | `accounts` |
| `AccountsProofs` | theorems about `Accounts` | TLAPS |
| `Content` | comments and mentions of `subtasks.rs`, notifications of `access.rs`, `tickets.rs`, `milestones.rs`, the detail read of `queries.rs` and `assemble.rs` | `content` |
| `ContentProofs` | theorems about `Content` | TLAPS |
| `Attachments` | `attachments.rs`, `delete_task` | `attachments`, `leaked_file` |
| `AttachmentsProofs` | theorems about `Attachments` | TLAPS |
| `Live` | broadcast and socket loop of `ws.rs`; `realtime.rs`, `actions.rs`, `main.rs` of the client | `live_updates`, `own_change_lost` |
| `LiveProofs` | theorems about `Live` | TLAPS |
| `Sessions` | `session.rs`, login and logouts of `auth.rs`, handshake and pings of `ws.rs` | `sessions` |
| `SessionsProofs` | theorems about `Sessions` | TLAPS |
| `FoldTheorems` | lemmas: what a fold over a set, and a sum, computes | TLAPS |
| `MC*` | the instances for TLC: functions, symmetry sets | |

Each module has one action per SQL statement, file operation or step of a
loop (or per run of them that no other process can observe in between), with
the locks that statement takes. A request is a slot with a program counter
`pc` and what it asks for, `op`. Every `PROJECT.json` "map" row gives the lines
a definition stands for. Definitions whose comment starts with *Variant* are
plausible mistakes in the definition after them: they are unused by the
specification and serve to confirm that each property would notice.

### Membership and Roster

`role` is the committed `memberships` table (status is always 'active'),
`lockedBy` the row locks. `update_membership` and `remove_membership` are
`LockTarget`, `Authorize`, then, if an owner is to be demoted or removed,
`OwnerScan`: `SELECT .. FOR UPDATE` over the owner rows is modelled row by
row (`LockOwner`, `ScanRow`, `ScanBlocks`, `ScanWakes`), since it waits in the
middle and re-evaluates its `WHERE` afterwards. `UpdateRole` or
`StartClearing`, `DeleteRow`, `DeleteBlocks` and `RemoveMember` follow, and
`End` drops the locks. `invite_member` is `CheckInvite` outside and
`InsertMember` inside its transaction.

`replace_assignees` is `CheckAssignees`, `StartReplacing`, the same
`DeleteRow` and `DeleteBlocks`, `StartInserting`, `InsertRow` or
`DuplicateKey`, and `TouchTask`; a PATCH with other fields has locked the row
of the task before (`WriteTask`, `writer`). A DELETE of assignments sees the
rows committed when it starts (`rest`) and takes them one by one: it waits for
one (`at`) and keeps those it has deleted (`cleared`), as PostgreSQL does. The
INSERT takes its rows in the order of the users and waits for whoever has
written an equal one. `DeadlockAbort` is PostgreSQL's detector: it aborts one
member of a cycle of waiting transactions.

`Roster` is the promise: members join, change roles and leave in one step,
and never the last owner. `Membership` implements it under the identity on
`role` (`ImplementsRoster`).

### Tasks

A task is its key number, whether its status is a done one, and whether it
carries the recurrence marker; a subtask is its position. `create_task` takes
the project's key lock, reads the largest key, inserts. `update_task` and
`move_task` read the old status by a plain SELECT (`ReadDone`), write the row
(`WriteRow`: the row lock), replace the assignees if the PATCH names them, and,
if the task was completed, hand the marker to a follow-up (`Completed`,
`FollowUp`, `InsertFollowUp`) in the same transaction; a PATCH of nothing but
the assignees skips `WriteRow` and ends with `TouchTask`. `delete_task` locks
the row and cascades. Subtask writers take the position lock, the `KEY SHARE`
lock of the foreign key, and touch the task.

Assignees are there for their locks: `wrote` is what a PATCH has done to those
of its task (`ClearAssignees`, `InsertAssignees`, the latter sharing the row of
the task), and whether two statements meet in a row is left open
(`AssigneesBlock`, `CascadeBlocks`; the one that waits is `behind` the other).
`RefuseAssignees` is every way the replacement can fail. `Membership` follows
the rows themselves, together with removals of members.

### Dates, Timeline, Schedule

A date is `<<year, month, day>>`, as its ISO text spells it; `NoDate` is a
missing one. What `chrono` does (`DayNumber`, `DateOf`, `AddDays`, `AddMonth`)
is defined from the rule for leap years and counted from the beginning of the
year, while the client's `DaysFromCivil` and `CivilFromDays` are translated
statement by statement with their integer division, eras and years that begin
in March: two computations that share nothing, and `TasksOnTheirDay` says that
they agree, on every day of the sampled years, and that the month grid puts
each day under its weekday. `Blank` is a cell of that grid without a day.
`ShiftDate`, `ShiftedStartDate` and `ShiftedDueDate` are `recurrence.rs`.
`GanttView` and `Chart` are `gantt_view`: range, bars, milestone marks, today's
line and month headings, in days instead of percent. `ParseIso` finds no date
in the text of a year before 0, whose minus it takes for a separator.
`Schedule` extends `Tasks`: the dates of a follow-up are computed at
`InsertFollowUp`, and a board shows the tasks that are there. The dates
themselves are not part of a state; the properties quantify over samples.

### Accounts

`Start` is `prepare_database`, `SeedStatement` one statement of the seed with
its fixed ids and foreign keys (`SeedFits`), `Crash` a stop at any point: rows
stay, transactions and memory go. `Attempt` is a request to `register` or
`login` at the limiter: `Connections` are the ways it arrives (directly with
any `X-Real-IP` or none, or by a proxy that sets the header), `ClientIp` is the
address the middleware takes (the header's only with `trust_proxy`, from within
`trusted_proxies`, and if it parses), then `Entry` (after `retain`), `Counted`
and `Exceeded`. `Origin` is whose attempt it was: the peer's, or the client's
a trusted peer speaks for, known to the model and not to the code; `admitted`
counts by it. Who connects from within `trusted_proxies`, which by default is
every private address, can name any address (`ChoosesEntry`), and `LimiterHolds`
promises nothing for it. `register` is `Check` (outside any transaction), the
permit of its hash, `BeginTx`, where `now()` is fixed (`fresh`),
`LockRegistration` and `Recount` when registration is closed, `InsertUser`
(which waits for a transaction that inserts the same address), `ClaimInvite`
(`DELETE .. RETURNING`) and `CommitRegistration`. `invite_member` is
`FindInvitee`, then `AddMember`, or `MintInvite` (the upsert that writes only
over an expired row) and `Answer`. Between the last two the audit row may fail:
`Abandon` there leaves an invite whose token nobody has seen. `handed`,
`admitted` and `offer` are history variables.

### Content

One task with its comments, counter and assignees; tickets and milestones
beside it. `create_comment` is `InsertComment` (whose foreign key keeps the task
from being deleted), `CountComment` (the row lock), `ReadMembers` and
`NotifyAndCommit`; texts are sequences of characters, for `MentionedUserIds`
is about which name begins where: longer names are matched first and what they
`Claim` is no mention of a shorter one. A notification is a kind and what it is
about, and `inbox` counts how many of each a user has: order and wording are
nothing a property tells apart. The answer to a comment, like the detail
of a task, is two statements with a snapshot each (`ReadRow`, `ReadComments`).
`LockTicketKeys`, `ReadTicketKey` and `InsertTicket` are `create_ticket`.
`RemoveMember`, `Reassign` and `DeleteTask` are what others do meanwhile, one
step each, since `Membership` and `Tasks` have their statements; nobody joins.

### Attachments

`home` is the committed table, `temp` and `disk` are the two kinds of files,
`paths` is `written_paths` of an upload or the list captured by a deletion.
Fields are streamed to temporary files first; one transaction then takes the
workspace's advisory lock, checks the quota, and renames and inserts file by
file. Error paths remove temporary files and written paths. `Drop` ends a
request anywhere without cleanup; `CommitUnanswered` is a COMMIT whose answer
is lost; `RemoveFails` a failing `remove_file`. `fate` is a history variable:
why nobody accounts for a file.

### Live

One tab against everybody else. The server keeps a queue per socket with the
channel's capacity, drops the oldest event of a receiver that lags and sends a
resync instead, and skips the tab's own echo. The tab runs realtime loops
(`running`, `epoch`), schedules at most one refetch (`pending`) but may have
several requests under way, applies answers in any order, logs out and in, and
moves tasks optimistically. Timers, open editors and backoff only delay a step
and are nondeterministic delays here. `owed` and `acked` are history variables.

### Sessions

Time moves in steps; `TTL`, `Threshold` and `Cap` keep the order of 14, 7 and
30 days. `CreateSession` ends a login and deletes the rows that are `Expired`.
`Authenticate` is the SELECT of `require_auth`, `Refresh` its UPDATE; logouts
and the deletion of expired rows come in between. `born` and `used` are history
variables: when a session was made, and when a request was last accepted whose
refresh, if one was due, has found the row. Connections reserve a slot,
upgrade, send pings and events; the loop waits in `send`, where it looks at
nothing else.

## 3. Runs

TLC finishes each passing run in about three minutes or less on two cores.

| Run | Instance | What it shows |
|---|---|---|
| `membership` | 2 accounts, 3 ids (one account may come back), 3 roles, one task that both are assigned to, 2 requests, fairness | `LastOwner`, `TargetStable`, `OneRowPerUser`; deadlocks only among requests that take the owner role away, or only among writers of assignees that are not all removals (`DeadlocksStayApart`); `ImplementsRoster`; every request ends (`RequestsFinish`) |
| `authority_drift` | 3 accounts with one id each, 4 roles | *violation*: `AuthorityDoesNotDrift` |
| `stray_assignee` | 2 accounts, one task | *violation*: `AssigneesAreMembers` |
| `tasks` | 2 task ids (reused), keys 101-102, positions 0-1, 7 kinds of PATCH, 2 requests | keys and positions never collide, markers never multiply, nothing without its task; a deadlock has a deletion in it or two PATCHes of one task's assignees (`DeadlocksNeedRewrite`); `FollowUpDates`, `TasksOnTheirDay`, `BarsOnTheChart` |
| `lost_follow_up` | as `tasks` | *violation*: `CompletionHandsOn` |
| `accounts` | 2 addresses, one of them the seed's, 2 tokens, 2 requests, one permit, one crash; three addresses of which one is a proxy and one trusted without being one, two attempts per window of 2, with and without `trust_proxy` | `OnlyFirstUser`, `HandedTokensStayGood`, `RegistrationsComplete`, `LimiterHolds`, `StartsAgain` |
| `content` | 2 editors and a viewer, 2 texts, 2 comments, 2 tickets, one milestone, 2 slots and 3 requests | `CommentsReachParticipants`, `CommentsCounted`, `TicketKeysNeverCollide` |
| `attachments` | 4 files of 0, 1, 1 and 2 bytes, quota 2, 2 tasks, 2 requests | `QuotaHolds`, `RowsHaveFiles`, `RowsHaveTasks`, `FilesAccountedFor` |
| `leaked_file` | as `attachments` | *violation*: `DeletionsMissNoFile` |
| `live_updates` | queue of 2, 2 loops, 2 requests under way, 3 epochs | `OneLoopPerLogin`, `NoUpdateLost` |
| `own_change_lost` | as `live_updates` | *violation*: `OwnChangesStay` |
| `sessions` | 2 sessions, 2 requests, 2 sockets and one slot, 6 days, TTL 3, threshold 2, cap 4, fairness | `HardCap`, `ActiveUsersStay`, `RevokedForGood`, `SlotsMatchSockets`, `RevokedSocketsClose` |

### Bounds, and why they are enough

* *Two requests.* All conflicts of this code are between pairs: one lock and
  its holder, one read and one write in between. Two owners are enough for a
  cycle of two owner scans, two rows for a DELETE that keeps one and waits for
  the other.
* *Reuse.* Ids of tasks, files, loops and request slots are taken again once
  nothing refers to them, so runs of any length are covered; only membership
  ids, tokens, epochs, days, crashes, the recurrences set by users and the
  requests of `Content` are bounded, by `MemberIds`, `Tokens`, `MaxEpoch`,
  `MaxTime`, `MaxCrashes`, `MaxGrants` and `MaxBegun` with `MaxComments`.
* *Members.* The `membership` run has two accounts and leaves the role
  `member` out, which differs from `admin` and `viewer` only in the guards
  that both take part in; `authority_drift` explores three accounts and all
  roles, and the theorems hold for any of them.
  `Teams` is the one set of both accounts: two requests then meet in two rows,
  and the first has one of them when the second waits.
* *Patches.* `SomePatches` name a status, a recurrence or the assignees alone,
  or complete a task and set its recurrence or its assignees at once; the
  theorems hold for all combinations.
* *Accounts.* Two addresses are enough for "another account" everywhere in
  its properties; two tokens make one invite replace another.
* *Limiter.* Its windows are fixed, so two budgets meet where one ends: with
  `MaxAttempts = 2`, `Window = 2` and `MaxTime = 3` the bound of
  `LimiterHolds`, `2 * MaxAttempts - 1 = 3` in a stretch of a window's length,
  is reached. (`README.md:126` of the repository speaks of ten a minute; the
  comment at `middleware.rs:45` says what is built, a fixed window.) The
  limiter and the rows of the server share nothing, so the run explores them
  one at a time: the constraint `LimiterOrRows` keeps the states in which time
  passes and several addresses try on a server that does nothing else
  (`LimiterAlone`), and those in which everything else happens and one client
  tries (`OneClient`). `AccountsProofs` needs no such bound.
* *Texts.* One name begins another and ends before a space, one text has an
  address and a mention: the boundary checks and the order of the names all
  decide something.
* *Dates.* The years are leap years by all three rules and their neighbours;
  every day of two winters, with and without a 29th of February, starts a
  task, which is due up to two months later or before its start.
* *Keys and positions.* `MaxKey` and `MaxPosition` stop a create at the bound;
  two tasks alive at a time need two keys, and deletions make both collide
  if a lock is missing.
* *Sizes.* Two files fit the quota and three do not; the empty file is the one
  an upload skips; two files of one upload make its partial failures.
* *Queue.* Two events distinguish an echo behind a foreign event and a lag.

Deadlock checking is off in all runs: an idle server waits for requests, and
bounded histories end. Deadlocks of the database are modelled explicitly.

### Fairness

* `membership`: strong fairness of each request's own steps (the lock
  queue of PostgreSQL grants a lock that is free again and again) and weak
  fairness of the deadlock detector. Clients are not fair: no request has to
  begin.
* `sessions`: strong fairness of `Ping` (the interval ticks for ever and
  `tokio::select!` picks among ready branches at random), and nothing else.
  Nothing is assumed of clients: `sink.send` has no timeout, so one that stays
  connected and takes nothing keeps its loop in `send`, with its socket and its
  slot, for ever. `RevokedSocketsClose` excepts exactly that and an upgrade that
  never ends; the hazard at `ws.rs:246` stays without a property.
* The others state no liveness: whether a refetch comes depends on users
  closing their editors, whether an upload ends on a client, and a registration
  or a comment on nothing but the locks that `RequestsFinish` is about.

### Disagreements between code and comments

Five runs violate what a comment or message in the code says; each is an entry
of "findings" in `PROJECT.json` with the quoted line.

1. `authority_drift`: the actor's role is read unlocked and can change before
   the decision commits; the comment speaks of one consistent snapshot.
2. `stray_assignee`: an assignment checked before and committed after its
   user's removal stays.
3. `lost_follow_up`: a task reopened between `ReadDone` and `WriteRow` of a
   completion is completed without a follow-up, and the chain stops.
4. `leaked_file`: an upload committed between the captured paths and the
   deletion of the task leaves its file on disk.
5. `own_change_lost`: a refetch read before the tab's own move and applied
   after its answer undoes it on screen, and the echo that would correct it is
   suppressed.

## 4. Proofs

`MembershipProofs` proves, for any accounts, ids, tasks, teams and any number
of requests (the only assumption is `MembershipAssumption`: finitely many ids,
each made for one account, a founder, and a value `Free` that is no request):

| Theorem | Statement |
|---|---|
| `TypeCorrect` | `Spec => []TypeOK` |
| `Invariance` | `Spec => []Inv` |
| `KeepsLastOwner` | `Spec => []LastOwner` |
| `KeepsOneRowPerUser` | `Spec => []OneRowPerUser` |
| `KeepsTargetStable` | `Spec => []TargetStable` |
| `DeadlocksApart` | `Spec => []DeadlocksStayApart` |
| `Implements` | `Spec => ImplementsRoster` |

`LastOwner` is not inductive: a demotion is safe because its transaction, by
then, holds another row that it has found to be an owner row, and rows that are
held do not change. `Inv` says this: `KindOK` ties the program counter to the
kind of request, `TargetLocked` says that a transaction past its first
statement holds its target, `TargetStable` that the role it has read is still
the row's, `ScannedRows` that every row its scan returned is held and still an
owner row, and `AnotherOwnerHeld` that past the check one of these is not the
target. Each action then either changes no role, or is one of `Roster`'s
operations with its guard (`UpdateIsRoster`, `RemoveIsRoster`,
`InsertIsRoster`), which keeps `LastOwner` and `OneRowPerUser` (`RosterKeeps`)
and gives the refinement step.

`Holders` is what a deadlock is refuted with: only a transaction past its first
statement holds memberships, and only one that changes a role or removes a
member (`LocksHeld`); only a request that takes the owner role away scans
(`ScansTakeOwner`); the row of a task is held by a PATCH of it (`TasksWritten`);
and a request has deleted, or waits for, nothing but assignments it is
about (`RowsWritten`). In a smallest circle everybody is waited for
(`AllWaitedFor`). A writer of assignments waits for another one
(`WritersWaitForWriters`), a scan for whoever holds a membership and waits, which
is another scan (`ScansWaitForHolders`), so the two kinds never mix; and
removals alone form no circle, since each has its target locked and so deletes
the assignments of another user (`RemovalsDisjoint`). A deadlock of two PATCHes of one task is
possible, and TLC finds it: one has deleted an assignment and goes on to touch
the task, the other has written the task and comes to the assignment.

`TasksProofs` proves, for any tasks and any number of requests, with failures
and drops at every await (the assumption is `TasksAssumption`: finitely many
task ids, finite sets of positions to create a task with, and a value `Free`
that is no request):

| Theorem | Statement |
|---|---|
| `TasksTypeOK` | `Spec => []TypeOK` |
| `InvHolds` | `Spec => []Inv` |
| `KeysUnique` | `Spec => []KeysNeverCollide` |
| `PositionsUnique` | `Spec => []PositionsNeverCollide` |
| `MarkersCarriedOn` | `Spec => []MarkersNeverMultiply` |
| `NoOrphans` | `Spec => []NothingWithoutTask` |
| `DeadlocksRewrite` | `Spec => []DeadlocksNeedRewrite` |
| `FollowUpsOnTheirDates` | `Spec => []FollowUpDates` |
| `FollowUpAsLong` | the same, for any two dates and every recurrence |
| `DatesAreDays` | every day has one date and every date one day |
| `ClientAgrees` | the client's day arithmetic is the server's, both ways |
| `TasksShownOnTheirDay` | `Spec => []TasksOnTheirDay` |
| `HeadingsCover` | month headings cover a chart of any length |
| `BarsAreOnTheChart` | `Spec => []BarsOnTheChart` |

`Inv` adds to the properties `Kinds` (which requests get to a statement),
`LocksHeld` (the lock a statement takes is kept to the end of the transaction),
`RowsKept` (a row that is held is present and still the one the patch was
computed from), `Shared` (the foreign key of an inserted subtask keeps its
task) and `KeysAndSubs` (keys start at 101, a task has finitely many subtasks).
`RowChanges` says what a step does to any one task: it keeps, inserts,
rewrites, deletes or touches it. A number that is read is larger than all
committed ones (`NextKeyIsLarger`, `NextPositionIsLarger`: a finite set has a
largest element, by the well-foundedness of the strict subset relation) and
stays so, as whoever could commit a larger one needs the lock. `MarkersStep`
counts: a follow-up clears the marker of the task it holds in the step that
inserts the marked one. TLC has checked `Inv` on the instance of the run
`tasks` before.

`DeadlocksNeedRewrite` follows from `LocksHeld` and its converse, `LocksOwned`
(a lock is only held between the statement that takes it and the end), and from
`Behind` (who waits for a row of assignees replaces those of the same task, or
deletes it, and so does whoever it waits for). Other waits lead one way: from the
position lock or a subtask's row to the row of the task, from there to the key
lock, and whoever has the key lock waits for nothing but a commit. `NoCycle`
says so: what leads back is the cascade of a deletion, which has the row of the
task and goes on to its subtasks and assignees, or a PATCH that has the row and
waits for assignees another PATCH has written.

The theorems about dates leave the samples of a run open (`ScheduleAssumption`:
years and days are any integers, charted dates any that exist), so they hold of
every date; where the client reads one from its text, of every date whose text
it can read, which begin with the year 0 (`Spelled`; a follow-up's dates are
later ones, `LaterYears`). They rest on one calendar, the server's: the years
follow one another by 365 or 366 days (`LeapDays`, `YearsGrow`), the months of
a year fill it (`MonthsFollow`), so every day is in one month of one year
(`YearOfDay`, `MonthOfDay`, `OneYear`, `OneMonth`) and `DateOf` and `DayNumber`
are inverse (`DatesAreDays`). The client's arithmetic is brought to that
calendar in steps: its eras are divisions that round down (`Eras`), its count
of days is linear in the year that begins in March (`CountSimple`,
`CountsAgree`), and the division that finds the year of an era and the one that
finds the month are checked against the longest year and month there are
(`DayOfEra`, `MonthOfMarchDay`). A monthly step clamps to 28 to 31 days
(`AddedMonth`). A chart's headings are the days ranked by how many are not
after them (`Ranks`, `IthDays`); that `HeadingEnd` adds up to where the next
one opens is `HeadingsEnd`, and that no month begins inside a heading is
`HeadingsCover`, each by the least day where it would fail. The proofs needed
one correction: `DateOf` looked for the year of a day before 1970 among none
(`YearsNear`).

`AccountsProofs` proves, for any addresses, tokens, clients and any number of
requests and crashes (the assumption is `AccountsAssumption`: finitely many
requests, the seed's owner is an address, invites offer no ownership, positive
limits, and `None` is nothing else; who is a client, a proxy or trusted is left
open):

| Theorem | Statement |
|---|---|
| `AccountsTypeOK` | `Spec => []TypeOK` |
| `InvHolds` | `Spec => []Inv` |
| `OneFirstUser` | `Spec => []OnlyFirstUser` |
| `TokensStayGood` | `Spec => []HandedTokensStayGood` |
| `Registrations` | `Spec => []RegistrationsComplete` |
| `SeedNeverStuck` | `Spec => []StartsAgain` |
| `LimiterKept` | `Spec => []LimiterHolds` |

None of the first four properties is inductive. `Inv` adds what a request may
rely on while others run, `Control`: `LockedSinceCount` (the advisory lock is
held from the second count of the users to the end of the transaction, and
whoever is past the count has found nobody; until then only invited people
join), `Inserted` (the address of an inserted user row is nobody else's until
the commit) and `ClaimHolds` (the row of a claimed invite stays until the
commit, since `MintInvite` waits for it, `InviteFree`). `SeedInOrder` says that
the tables filled are those of the statements before `step`, and that a seed
that has begun has made its owner's account, so that no later start runs it
again. `Minted` says that an invite, an account and a token handed out refer to
a token minted for exactly that, and `MintedStayGood` strengthens
`HandedTokensStayGood` to every token minted. Four kinds of step write rows
(`RowWriters`): the seed, which runs before there is a token, a registration
that commits (`CommitRows`), an invite that is minted (`MintRows`) and one that
adds a member (`AddMemberRows`). TLC has checked `Inv` on the instance of the
run `accounts` before.

`LimiterHolds` is about sums: of the attempts let through in a stretch of time.
`EntryOK` relates an entry of the limiter to them: since its window began no
more attempts of the address have been let through than it has counted, nor
than the limit, and in the window's length before it fewer than the limit, for
the window before began with an attempt as well. That may have been somebody
else's, who named the address (`OthersFirst`); it is then one off the budget.
An address that does not choose its entry is counted in its own (`OwnEntry`,
`AttemptSeen`); what others add to that entry only refuses more. An attempt in
a running window adds one to both sides (`FurtherAttempt`) or is refused
(`RefusedAttempt`); one after it starts the entry anew (`FirstAttempt`), and
what the old window let through lies before the new one (`WindowOver`). A
stretch as long as a window that ends in this window has begun less than a
window before it. Since `MapThenSumSet` is a `CHOOSE`n recursive function, not
a defined one, the facts about sums (it exists, one more of an element is one
more of the sum, a sum over less is no larger) are proved once, in
`FoldTheorems`: induction over data is out of the prover's reach, and a
smallest set that violates the fact (`SmallestSubset`, from the
well-foundedness of the strict subset relation) takes its place.

`SessionsProofs` proves, for any sessions, requests and sockets, any lifetimes
and any bound on time (the assumption is `SessionsAssumption`: the constants
are numbers, finitely many sockets):

| Theorem | Statement |
|---|---|
| `SessionsTypeOK` | `Spec => []TypeOK` |
| `InvHolds` | `Spec => []Inv` |
| `CapHolds` | `Spec => []HardCap` |
| `ActiveStay` | `Spec => []ActiveUsersStay` |
| `LogoutIsFinal` | `Spec => []RevokedForGood` |
| `SlotsAreSockets` | `Spec => []SlotsMatchSockets` |

`RevokedForGood` needs `UsedOnce`: a session that is stored, was logged out or
is in the hands of a request has been used, so that no login makes it again,
and a refresh that comes after the logout finds no row. `HardCap` and
`ActiveUsersStay` (together `Lifetimes`) are what one row promises at one time,
for when its session was made and last used (`RowKept`): a row that is there
lasts for the threshold from its last use, or up to the cap, and one that is
gone without a logout is later than that. `AllKept` says it of every session
and is kept by every step (`KeptStep`): a request either finds that the row
lasts for the threshold from now, or slides it (`SlidRow`), and counts as a use
only then; a login deletes what has expired, and what has expired is due
(`DueTime`, `RowsKept`). The type of the count of connections is itself a
consequence of `SlotsMatchSockets`: only because each release belongs to a
socket that was counted does it never fall below zero.

`LiveProofs` proves, for any items, loops and requests and any capacity of the
broadcast channel (the assumption is `LiveAssumption`):

| Theorem | Statement |
|---|---|
| `LiveTypeOK` | `Spec => []TypeOK` |
| `InvHolds` | `Spec => []Inv` |
| `OneLoop` | `Spec => []OneLoopPerLogin` |
| `UpdatesArrive` | `Spec => []NoUpdateLost` |

Behind `OneLoopPerLogin` is `OwnLoop`: the running flag is up exactly while the
tab shows data, a loop that is not free has an epoch no later than the tab's,
an earlier one once the tab has logged out, and no two have the present one.
So a late loop, which compares its epoch before it lowers the flag, cannot
lower it for its successor. `NoUpdateLost` is kept because an event that
matters is either in the queue of the current loop or has been replaced by the
mark that it lags (`PushNotes`), and what is taken from either is noted in
`pending` (`Delivered`); the hard cases are a loop that stops, which is then no
current one, and an answer that is shown, which leaves `pending` up when an
event came after the read.

`AttachmentsProofs` proves, for any files, sizes, quota, tasks and requests,
with failures and drops at every await (the assumption is
`AttachmentsAssumption`):

| Theorem | Statement |
|---|---|
| `AttachmentsTypeOK` | `Spec => []TypeOK` |
| `InvHolds` | `Spec => []Inv` |
| `FilesOfRows` | `Spec => []RowsHaveFiles` |
| `TasksOfRows` | `Spec => []RowsHaveTasks` |
| `NoFileUnaccounted` | `Spec => []FilesAccountedFor` |
| `QuotaKept` | `Spec => []QuotaHolds` |

`Inv` adds to the three properties `Local` (what a request has at hand at each
point of its handler: while it writes, `written_paths` are its inserted rows
and the field it is at), `Owned` (a file an upload has made is at hand to no
other request and has no row, as long as nothing has gone wrong with it),
`RowsGone` (the paths a deletion removes belong to rows that are gone),
`OnDisk` and `TasksLive` (the foreign key keeps the task while rows are
inserted). The lemmas `Rows`, `Hands`, `OnDiskChanges` and `TaskChanges` say
once what a step of a request does to any one file or task; the invariants
follow from these and `OthersStay` without another look at the actions. TLC has
checked `Inv` on the instance of the run `attachments` and on one with three
requests before. For `QuotaHolds`, `Reserved` says that an upload past its check
has the workspace's lock and that the committed files and all the files it has
written or has yet to write fit together: no row is inserted by anybody else
until it commits, deletions only make room (`QuotaStep`), and the sums of
`FoldTheorems` do the arithmetic.

`ContentProofs` proves, for any users, names, texts, teams, tickets and any
number of requests (the assumption is `ContentAssumption`: finitely many users
and requests, names have a length, editors and assignees are users, milestones
have ids of their own, `None` is nobody):

| Theorem | Statement |
|---|---|
| `ContentTypeOK` | `Spec => []TypeOK` |
| `InvHolds` | `Spec => []Inv` |
| `EverybodyIsTold` | `Spec => []CommentsReachParticipants` |
| `CommentsAreCounted` | `Spec => []CommentsCounted` |
| `TicketKeysUnique` | `Spec => []TicketKeysNeverCollide` |

`Inv` adds `KindsOK` (which kinds of request get to a statement), `RoomLeft` (the
bound on comments leaves room for those under way), `RowHeld` (a comment that
has been counted holds the row of the task, so its number stays the next one,
and every member left when it commits is among those it has read), `KeyHeld`
(the advisory lock, from the read of the highest number to the commit) and
`Unannounced` (nobody has been told of a comment that is not there yet).
`CommitReaches` is the step that matters; `StillReached` says why no other step
undoes it: members only leave, and whoever is assigned later is excepted.
What is said about texts holds for every text: `MentionsTaken` gives the
function that `MentionedUserIds` folds with, `MentionsStand` says that only
names which stand in the text are mentioned, and `ClearMentionsFound` that a name
is found if no part of it lies in a name as long, both by the smallest set of
members where it would fail.

Only model-checked: liveness (`RequestsFinish`, `RevokedSocketsClose`), which
the prover does not reach. Every invariant the passing runs check is a theorem,
and so is the refinement of `Roster`.

## 5. Plan

1. *Done*: `Membership` and `Roster`, `Tasks`, `Accounts`, `Sessions`, `Live`,
   `Attachments` and `Content` with their proofs; `Dates`, `Timeline` and
   `Schedule`.
2. *Done*: theorems for all invariants of the runs.
3. Theorems that say when the five disagreements of section 3 cannot occur (a
   completion nobody reopens hands its recurrence on, for example).

## 6. Not modelled

Rendering, texts, styles, editors, drag and drop, deployment and the reading
of the configuration; HTML and header escaping, cookies' signatures and Argon2
(a session stands for its cookie); the wording of audit rows (they are written
inside the transactions and read by nothing else); migrations and clock skew
between the application and the database. `download_attachment` and the other
reads change no state. A request's parsing and validation is left out where it
only refuses a request before anything has been read or written.
`update_workspace`, `read_notification` and `read_all_notifications` write
attributes that no other statement reads. `toggle_subtask` and the detail
request of the client are left out of `Live`.

Some behaviour is part of the models, or known from modelling, without a
property, because nothing in the repository says what should hold:

* The eleven reads of a bootstrap have a snapshot each, so a task may name a
  milestone that the same answer does not contain (`queries.rs:129`).
* A change committed after the bootstrap and before the socket subscribes is
  announced to nobody (`ws.rs:191`); a connection that breaks within five
  seconds, or a refetch that fails, is not made up for (`realtime.rs:144`); a
  refetch answered before a logout and applied after it shows the workspace
  again (`actions.rs:223`).
* Two PATCHes that replace only assignees of a task may leave those of both
  (`access.rs:251`); a ticket may be assigned to somebody who is being removed
  (`tickets.rs:45`), as `stray_assignee` shows it for tasks.
* The key of a deleted task is given out again if it was the highest
  (`tasks.rs:345`). Advisory locks of different names may share a hash, which
  only adds waiting (`tasks.rs:336`).
* A COMMIT whose answer is lost leaves rows whose files the handler removes
  (`attachments.rs:240`), or a change that notifies nobody (`tasks.rs:286`).
* The permit of a password hash is released with the request while its thread
  goes on (`session.rs:152`).
* After the demo users are deleted by hand, as the warning of `startup.rs:57`
  suggests, the seed meets its own fixed ids and the server does not start
  (`seed.rs:38`).
* Of two members of exactly the same name, one is never told of a mention
  (`subtasks.rs:263`).
* Whether a name in a text is a mention (`subtasks.rs:246`: it ends at a
  boundary, and an address is none) is `Matches` in the model; the properties
  take it from there and so cannot judge it.
* A client that takes nothing keeps its loop in `sink.send`, and its slot, after
  its session has ended (`ws.rs:246`).
* The rest of a seed that was interrupted is never added: `StartsAgain` promises
  the start of the server, not the whole demo.
* The answer of a refetch that was read earlier may be applied later:
  `NoUpdateLost` says that an event has been, or will be, followed by a request,
  not that the newest answer stays (`actions.rs:223`, as `own_change_lost`
  shows it).
