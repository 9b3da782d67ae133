---------------------------- MODULE AccountsProofs ----------------------------
(***************************************************************************)
(* Proofs about Accounts, for any addresses, tokens, clients and number of *)
(* requests: while registration is closed one first user gets in, a token  *)
(* stays good until it expires or is redeemed, a registration leaves what   *)
(* it should, the server can be started again wherever it stopped, and no   *)
(* client gets more attempts in a window than the limiter promises.         *)
(***************************************************************************)
EXTENDS Accounts, SequenceTheorems, FoldTheorems, TLAPS

(* The kind of request that runs each statement. *)
KindOK ==
    \A r \in Requests :
        /\ pc[r] \in {"check", "begin", "lock", "recount", "insert_user", "claim", "commit"}
            => op[r].kind = "register"
        /\ pc[r] = "claim" => op[r].token # None
        /\ pc[r] = "find_user" => op[r].kind = "login"
        /\ pc[r] \in {"find_invitee", "insert_member", "mint"} => op[r].kind = "invite"
        /\ pc[r] = "answer" => op[r].kind = "invited"

(* Requests run while the server serves. *)
ServingOnly == boot # "serving" => \A r \in Requests : pc[r] = "idle"

(* The tables that the statements before number i of the seed fill. *)
Filled(i) == {SeedPlan[j].table : j \in 1..(i - 1)}

(* The seed runs in order, from its beginning, before anybody registers; once *)
(* it has begun, its owner has an account and it never runs again.             *)
SeedInOrder ==
    /\ boot = "seeding" => seeded = Filled(step)
    /\ boot = "seeding" => \A e \in Emails : account[e].via \in {"none", "seed"}
    /\ seeded # {} => account[Demo] # NoAccount

(* The lock is held from the second count to the end, and whoever is past that *)
(* count has found nobody; until they commit, only invited people join.         *)
LockedSinceCount ==
    \A r \in Requests :
        /\ pc[r] \in {"recount", "insert_user", "commit"} => (Closed(r) => regLock = r)
        /\ pc[r] \in {"insert_user", "commit"} =>
            (Closed(r) => \A e \in Emails : account[e].via \in {"none", "invite"})

(* The address of a user that is inserted is nobody's until the COMMIT. *)
Inserted ==
    \A r \in Requests : pc[r] \in {"claim", "commit"} =>
        newUser[op[r].email] = r /\ account[op[r].email] = NoAccount

(* The row of an invite that is redeemed stays until the COMMIT. *)
ClaimHolds ==
    \A r \in Requests :
        pc[r] = "commit" /\ op[r].token # None =>
            /\ claimed[r] \in Workspaces
            /\ invite[<<claimed[r], op[r].email>>] = op[r].token

(* What requests hold, see and wait for. *)
Control == KindOK /\ ServingOnly /\ LockedSinceCount /\ Inserted /\ ClaimHolds

(* The token of an invite, of an account and of an answer was minted, and the *)
(* invite is what it was minted for.                                          *)
Minted ==
    /\ \A w \in Workspaces, e \in Emails :
        invite[<<w, e>>] # None =>
            /\ offer[invite[<<w, e>>]] \in Offers
            /\ offer[invite[<<w, e>>]].workspace = w
            /\ offer[invite[<<w, e>>]].email = e
    /\ \A e \in Emails : account[e].token # None => offer[account[e].token] \in Offers
    /\ \A k \in handed : offer[k] \in Offers
    /\ \A r \in Requests : pc[r] = "answer" => offer[op[r].token] \in Offers

(* Every token that was minted, answered or not, is good until it expires or is redeemed. *)
MintedStayGood ==
    \A k \in Tokens \ expired : offer[k] \in Offers =>
        \/ invite[<<offer[k].workspace, offer[k].email>>] = k
        \/ \E e \in Emails : account[e].token = k

TokenRows == Minted /\ MintedStayGood /\ RegistrationsComplete

(* The attempts of an address let through since a time, and between two. *)
Since(f, from) == SumOf(f, {u \in 0..MaxTime : u >= from})
Between(f, from, to) == SumOf(f, {u \in 0..MaxTime : u >= from /\ u < to})

(* The entry of an address at time n, f being its attempts let through: they are  *)
(* all counted, and none came after the window.  The window begins with one of     *)
(* them, or with one that somebody else had counted here and that was taken off    *)
(* the budget; so fewer than MaxAttempts came in the Window before it.             *)
EntryOK(f, start, count, n) ==
    /\ start <= n
    /\ count = 0 => start = 0
    /\ \A u \in 0..MaxTime : u > n \/ u >= start + Window \/ count = 0 => f[u] = 0
    /\ Since(f, start) <= count /\ Since(f, start) <= MaxAttempts
    /\ count > 0 /\ f[start] = 0 => Since(f, start) < count /\ Since(f, start) < MaxAttempts
    /\ Between(f, start - Window + 1, start) < MaxAttempts

EntriesOK ==
    \A a \in Addresses : ~ChoosesEntry(a) =>
        EntryOK(admitted[a], window[a].start, window[a].count, clock)

Inv ==
    /\ TypeOK /\ Control
    /\ SeedInOrder /\ StartsAgain /\ OnlyFirstUser
    /\ TokenRows
    /\ EntriesOK /\ LimiterHolds

USE DEF Workspaces, Roles, Absent

-----------------------------------------------------------------------------
(* The statements of the seed. *)
LEMMA Plan ==
    /\ Len(SeedPlan) = 14
    /\ SeedPlan[1] = Fills("users", {})
    /\ SeedPlan[2] = Fills("workspaces", {})
    /\ SeedPlan[3] = Fills("projects", {"workspaces"})
    /\ SeedPlan[4] = Fills("memberships", {"workspaces", "users"})
    /\ SeedPlan[5] = Fills("project_statuses", {"projects"})
    /\ SeedPlan[6] = Fills("tasks", {"projects", "project_statuses", "users"})
    /\ SeedPlan[7] = Fills("task_assignees", {"tasks", "users"})
    /\ SeedPlan[8] = Fills("subtasks", {"tasks"})
    /\ SeedPlan[9] = Fills("task_dependencies", {"tasks"})
    /\ SeedPlan[10] = Fills("comments", {"tasks", "users"})
    /\ SeedPlan[11] = Fills("attachments", {"tasks"})
    /\ SeedPlan[12] = Fills("milestones", {"projects"})
    /\ SeedPlan[13] = Fills("notifications", {"workspaces", "users", "tasks"})
    /\ SeedPlan[14] = Fills("audit_events", {"workspaces", "users"})
<1>1. /\ Len(SeedPlan) = 14
      /\ SeedPlan[1] = PeoplePlan[1] /\ SeedPlan[2] = PeoplePlan[2]
      /\ SeedPlan[3] = PeoplePlan[3] /\ SeedPlan[4] = PeoplePlan[4]
  BY DEF SeedPlan, PeoplePlan, WorkPlan, ActivityPlan
<1>2. /\ SeedPlan[5] = WorkPlan[1] /\ SeedPlan[6] = WorkPlan[2] /\ SeedPlan[7] = WorkPlan[3]
      /\ SeedPlan[8] = WorkPlan[4] /\ SeedPlan[9] = WorkPlan[5]
  BY DEF SeedPlan, PeoplePlan, WorkPlan, ActivityPlan
<1>3. /\ SeedPlan[10] = ActivityPlan[1] /\ SeedPlan[11] = ActivityPlan[2]
      /\ SeedPlan[12] = ActivityPlan[3] /\ SeedPlan[13] = ActivityPlan[4]
      /\ SeedPlan[14] = ActivityPlan[5]
  BY DEF SeedPlan, PeoplePlan, WorkPlan, ActivityPlan
<1> QED BY <1>1, <1>2, <1>3 DEF PeoplePlan, WorkPlan, ActivityPlan

(* Run in order, each statement fits what the ones before it have filled. *)
LEMMA PlanFits ==
    ASSUME NEW i \in 1..14, seeded = Filled(i)
    PROVE  /\ SeedFits(SeedPlan[i])
           /\ Filled(i + 1) = Filled(i) \cup {SeedPlan[i].table}
<1>1. \A k \in 1..14 : i # k => SeedPlan[i].table # SeedPlan[k].table
  BY Plan DEF Fills
<1>2. SeedPlan[i].table \notin Filled(i)
  BY <1>1 DEF Filled
<1>3. i > 1 => "users" \in Filled(i)
  BY Plan DEF Filled, Fills
<1>4. i > 2 => "workspaces" \in Filled(i)
  BY Plan DEF Filled, Fills
<1>5. i > 3 => "projects" \in Filled(i)
  BY Plan DEF Filled, Fills
<1>6. i > 5 => "project_statuses" \in Filled(i)
  BY Plan DEF Filled, Fills
<1>7. i > 6 => "tasks" \in Filled(i)
  BY Plan DEF Filled, Fills
<1>8. SeedPlan[i].refs \subseteq Filled(i)
  BY <1>3, <1>4, <1>5, <1>6, <1>7, Plan DEF Fills
<1> QED BY <1>2, <1>8 DEF SeedFits, Filled

(* The fields a request of each kind has. *)
LEMMA OpFields ==
    ASSUME TypeOK, NEW r \in Requests
    PROVE  /\ op[r].kind = "register" =>
                op[r] \in [kind : {"register"}, email : Emails, token : Tokens \cup {None}]
           /\ op[r].kind = "login" => op[r] \in [kind : {"login"}, email : Emails]
           /\ op[r].kind = "invite" =>
                op[r] \in [kind : {"invite"}, email : Emails, workspace : Emails, role : Offered]
           /\ op[r].kind = "invited" => op[r] \in [kind : {"invited"}, token : Tokens]
BY DEF TypeOK, Ops, NoOp

(* Ending a request keeps the types of what it holds. *)
LEMMA EndType ==
    ASSUME TypeOK, NEW r \in Requests, End(r), UNCHANGED <<server, limiter>>,
           account' \in [Emails -> AccountRows],
           member' \in [Workspaces \X Emails -> Roles \cup {Absent}],
           invite' \in [Workspaces \X Emails -> Tokens \cup {None}],
           offer' \in [Tokens -> Offers \cup {None}],
           expired' \subseteq Tokens, handed' \subseteq Tokens
    PROVE  TypeOK'
BY DEF TypeOK, End, PCs, Ops, NoOp, server, limiter

(* A request that does not end, and writes no row, keeps the types. *)
LEMMA GotoType ==
    ASSUME TypeOK, NEW r \in Requests, NEW label \in PCs, Goto(r, label),
           UNCHANGED <<server, rows, limiter>>,
           op' \in [Requests -> Ops \cup {NoOp}],
           regLock' \in Requests \cup {None},
           newUser' \in [Emails -> Requests \cup {None}],
           claimed' \in [Requests -> Workspaces \cup {None}],
           fresh' \in [Requests -> SUBSET Tokens]
    PROVE  TypeOK'
BY DEF TypeOK, Goto, server, rows, limiter

(* The server starts well typed. *)
LEMMA InitType == Init => TypeOK
BY AccountsAssumption, Plan DEF Init, TypeOK, NoAccount, AccountRows, NoEntries, NoEntry,
   NobodyAdmitted, PCs, Ops, NoOp

(* The life of the server keeps the types. *)
LEMMA ServerType ==
    ASSUME TypeOK, Start \/ SeedStatement \/ Crash \/ Tick
    PROVE  TypeOK'
<1>1. CASE Start
  BY <1>1, Plan DEF Start, TypeOK, rows, limiter, local
<1>2. CASE SeedStatement
  <2> DEFINE s == SeedPlan[step]
  <2>1. step \in 1..14 /\ s.table \in {SeedPlan[i].table : i \in 1..Len(SeedPlan)}
    BY Plan DEF TypeOK
  <2>2. seeded' \subseteq {SeedPlan[i].table : i \in 1..Len(SeedPlan)}
    BY <1>2, <2>1 DEF SeedStatement, TypeOK
  <2>3. step' \in 1..Len(SeedPlan) /\ boot' \in {"seeding", "serving", "failed"}
    BY <1>2, <2>1, Plan DEF SeedStatement
  <2>4. account' \in [Emails -> AccountRows]
    <3>1. [via |-> "seed", token |-> None] \in AccountRows
      BY DEF AccountRows
    <3> QED BY <1>2, <3>1 DEF SeedStatement, TypeOK
  <2>5. member' \in [Workspaces \X Emails -> Roles \cup {Absent}]
    BY <1>2 DEF SeedStatement, TypeOK
  <2> QED BY <1>2, <2>2, <2>3, <2>4, <2>5 DEF SeedStatement, TypeOK, limiter, local
<1>3. CASE Crash
  BY <1>3, AccountsAssumption DEF Crash, TypeOK, rows, NoEntries, NoEntry, NobodyAdmitted,
     PCs, Ops, NoOp
<1>4. CASE Tick
  BY <1>4, AccountsAssumption DEF Tick, TypeOK, server, rows, local
<1> QED BY <1>1, <1>2, <1>3, <1>4

(* An attempt is counted by an address, and is an address's. *)
LEMMA Counting ==
    ASSUME NEW via \in Connections
    PROVE  ClientIp(via.peer, via.header) \in Addresses /\ Origin(via) \in Addresses
BY DEF Connections, ClientIp, Origin, Addresses

(* A request that begins keeps the types. *)
LEMMA BeginType ==
    ASSUME TypeOK, NEW r \in Requests, Begin(r)
    PROVE  TypeOK'
<1>1. ASSUME NEW w \in Workspaces, NEW e \in Emails, NEW ro \in Offered,
             BeginInvite(r, w, e, ro)
      PROVE  TypeOK'
  <2>1. op' \in [Requests -> Ops \cup {NoOp}]
    BY <1>1 DEF BeginInvite, TypeOK, Ops
  <2> QED BY <1>1, <2>1, GotoType DEF BeginInvite, PCs, local, TypeOK
<1>2. ASSUME NEW via \in Connections, NEW o \in Ops, o.kind \in {"login", "register"},
             Attempt(r, via, o)
      PROVE  TypeOK'
  <2> DEFINE ip == ClientIp(via.peer, via.header)
             who == Origin(via)
  <2>1. ip \in Addresses /\ who \in Addresses
    BY Counting
  <2>2. Entry(ip) \in [start : 0..MaxTime, count : Nat]
    BY <2>1, AccountsAssumption DEF Entry, NoEntry, TypeOK
  <2>3. Counted(ip) \in [start : 0..MaxTime, count : 0..MaxAttempts + 1]
    <3>1. Counted(ip) \in [start : 0..MaxTime, count : Nat]
      <4>1. [start |-> clock, count |-> 1] \in [start : 0..MaxTime, count : Nat]
        BY DEF TypeOK
      <4>2. [Entry(ip) EXCEPT !.count = @ + 1] \in [start : 0..MaxTime, count : Nat]
        BY <2>2
      <4> QED BY <4>1, <4>2 DEF Counted
    <3> QED BY <1>2, <3>1, AccountsAssumption DEF Attempt
  <2>6. window' \in [Addresses -> [start : 0..MaxTime, count : 0..MaxAttempts + 1]]
    BY <1>2, <2>1, <2>3 DEF Attempt, TypeOK
  <2>4. admitted' \in [Addresses -> [0..MaxTime -> Nat]]
    <3> DEFINE f == [admitted[who] EXCEPT ![clock] = @ + 1]
    <3>1. f \in [0..MaxTime -> Nat]
      <4>1. admitted[who] \in [0..MaxTime -> Nat]
        BY <2>1 DEF TypeOK
      <4>2. ASSUME NEW g \in [0..MaxTime -> Nat]
            PROVE  [g EXCEPT ![clock] = @ + 1] \in [0..MaxTime -> Nat]
        <5>1. \A t \in 0..MaxTime : g[t] + 1 \in Nat
          OBVIOUS
        <5>2. \A t \in 0..MaxTime : [g EXCEPT ![clock] = @ + 1][t] \in Nat
          BY <5>1
        <5> QED BY <5>2
      <4> QED BY <4>1, <4>2
    <3>2. admitted' = admitted \/ admitted' = [admitted EXCEPT ![who][clock] = @ + 1]
      BY <1>2 DEF Attempt
    <3>3. [admitted EXCEPT ![who][clock] = @ + 1] = [admitted EXCEPT ![who] = f]
      BY <2>1 DEF TypeOK
    <3> QED BY <2>1, <3>1, <3>2, <3>3 DEF TypeOK
  <2>5. pc' \in [Requests -> PCs] /\ op' \in [Requests -> Ops \cup {NoOp}]
    BY <1>2 DEF Attempt, TypeOK, Goto, PCs
  <2> QED BY <1>2, <2>4, <2>5, <2>6 DEF Attempt, TypeOK, server, rows, local
<1>3. \A e \in Emails : [kind |-> "login", email |-> e] \in Ops
  BY DEF Ops
<1>4. \A e \in Emails, k \in handed \cup {None} :
        [kind |-> "register", email |-> e, token |-> k] \in Ops
  BY DEF Ops, TypeOK
<1> QED BY <1>1, <1>2, <1>3, <1>4 DEF Begin

(* A token that is minted gets its offer. *)
LEMMA MintedOffer ==
    ASSUME TypeOK, KindOK, NEW r \in Requests, MintInvite(r)
    PROVE  offer' # offer
<1>1. PICK k \in Tokens : offer[k] = None /\
        offer' = [offer EXCEPT ![k] = [workspace |-> op[r].workspace, email |-> op[r].email,
                                       role |-> op[r].role]]
  BY DEF MintInvite
<1>2. op[r].kind = "invite"
  BY DEF MintInvite, KindOK
<1>3. offer'[k] \in Offers
  BY <1>1, <1>2, OpFields DEF TypeOK, Offers
<1> QED BY <1>1, <1>3, AccountsAssumption

(* A step of a request that writes no row keeps the types. *)
LEMMA ServeType ==
    ASSUME TypeOK, KindOK, NEW r \in Requests,
           Serve(r) \/ Abandon(r), UNCHANGED rows
    PROVE  TypeOK'
<1>1. CASE Refuse(r) \/ EmailTaken(r) \/ InviteGone(r) \/ Unauthorized(r) \/ Verified(r)
          \/ AlreadyInvited(r) \/ Abandon(r)
  <2>1. End(r) /\ UNCHANGED <<server, rows, limiter>>
    BY <1>1 DEF Refuse, EmailTaken, InviteGone, Unauthorized, Verified, AlreadyInvited, Abandon
  <2> QED BY <2>1, EndType DEF rows, TypeOK
<1>2. CASE Check(r) \/ TakePermit(r) \/ Hashed(r) \/ FindInvitee(r)
  <2>1. UNCHANGED <<server, rows, limiter, op, local>> /\ \E label \in PCs : Goto(r, label)
    BY <1>2 DEF Check, TakePermit, Hashed, FindInvitee, PCs
  <2> QED BY <2>1, GotoType DEF local, TypeOK
<1>3. CASE BeginTx(r)
  <2>1. \E label \in PCs : Goto(r, label)
    BY <1>3 DEF BeginTx, PCs
  <2> QED BY <1>3, <2>1, GotoType DEF BeginTx, TypeOK
<1>4. CASE LockRegistration(r)
  <2>1. Goto(r, "recount") /\ "recount" \in PCs
    BY <1>4 DEF LockRegistration, PCs
  <2> QED BY <1>4, <2>1, GotoType DEF LockRegistration, TypeOK
<1>5. CASE Recount(r)
  <2>1. CASE Registered = {}
    <3>1. Goto(r, "insert_user") /\ "insert_user" \in PCs
      BY <1>5, <2>1 DEF Recount, PCs
    <3> QED BY <1>5, <2>1, <3>1, GotoType DEF Recount, TypeOK, local
  <2>2. CASE Registered # {}
    BY <1>5, <2>2, EndType DEF Recount, rows, TypeOK
  <2> QED BY <2>1, <2>2
<1>6. CASE InsertUser(r)
  <2>1. op[r].email \in Emails
    BY <1>6, OpFields DEF InsertUser, KindOK
  <2>2. \E label \in PCs : Goto(r, label)
    BY <1>6 DEF InsertUser, PCs
  <2>3. newUser' \in [Emails -> Requests \cup {None}]
    BY <1>6, <2>1 DEF InsertUser, TypeOK
  <2> QED BY <1>6, <2>2, <2>3, GotoType DEF InsertUser, TypeOK
<1>7. CASE ClaimInvite(r)
  <2>1. Goto(r, "commit") /\ "commit" \in PCs
    BY <1>7 DEF ClaimInvite, PCs
  <2>2. claimed' \in [Requests -> Workspaces \cup {None}]
    BY <1>7 DEF ClaimInvite, Claimable, TypeOK
  <2> QED BY <1>7, <2>1, <2>2, GotoType DEF ClaimInvite, TypeOK
<1>8. CASE FindUser(r)
  <2>1. Goto(r, "hash") /\ "hash" \in PCs
    BY <1>8 DEF FindUser, PCs
  <2>2. op' \in [Requests -> Ops \cup {NoOp}]
    BY <1>8 DEF FindUser, TypeOK, Ops
  <2> QED BY <1>8, <2>1, <2>2, GotoType DEF FindUser, TypeOK, local
<1>9. CASE CommitRegistration(r) \/ AddMember(r) \/ Answer(r)
  <2>1. End(r) /\ UNCHANGED <<server, limiter>>
    BY <1>9 DEF CommitRegistration, AddMember, Answer
  <2> QED BY <2>1, EndType DEF rows, TypeOK
<1>10. CASE MintInvite(r)
  BY <1>10, MintedOffer DEF rows
<1> QED BY <1>1, <1>2, <1>3, <1>4, <1>5, <1>6, <1>7, <1>8, <1>9, <1>10 DEF Serve

-----------------------------------------------------------------------------
(* A request that ends disturbs no other one. *)
LEMMA EndControl ==
    ASSUME TypeOK, Control, NEW r \in Requests, End(r), UNCHANGED <<server, account, invite>>
    PROVE  Control'
<1>1. KindOK' /\ ServingOnly'
  BY DEF Control, End, TypeOK, KindOK, ServingOnly, server
<1>2. LockedSinceCount'
  BY DEF Control, End, TypeOK, LockedSinceCount, Closed, server
<1>3. Inserted'
  <2> SUFFICES ASSUME NEW q \in Requests, pc'[q] \in {"claim", "commit"}
               PROVE  newUser'[op'[q].email] = q /\ account'[op'[q].email] = NoAccount
    BY DEF Inserted
  <2>1. q # r /\ pc[q] = pc'[q] /\ op'[q] = op[q]
    BY DEF End, TypeOK
  <2>2. op[q].email \in Emails
    BY <2>1, OpFields DEF Control, KindOK
  <2> QED BY <2>1, <2>2 DEF Control, Inserted, End
<1>4. ClaimHolds'
  BY DEF Control, End, TypeOK, ClaimHolds
<1> QED BY <1>1, <1>2, <1>3, <1>4 DEF Control

(* A step that only moves a request to a statement of its kind, and not past a *)
(* count or an insertion, disturbs nothing.                                     *)
LEMMA GotoControl ==
    ASSUME TypeOK, Control, NEW r \in Requests, NEW label \in PCs, Goto(r, label),
           boot = "serving", UNCHANGED <<server, account, invite, regLock, newUser, claimed>>,
           \A q \in Requests \ {r} : op'[q] = op[q],
           label \notin {"recount", "insert_user", "claim", "commit"},
           label \in {"check", "begin", "lock"} => op'[r].kind = "register",
           label = "find_user" => op'[r].kind = "login",
           label \in {"find_invitee", "insert_member", "mint"} => op'[r].kind = "invite",
           label = "answer" => op'[r].kind = "invited"
    PROVE  Control'
<1> USE DEF Control
<1>1. /\ pc'[r] = label
      /\ \A q \in Requests \ {r} : pc'[q] = pc[q]
  BY DEF Goto, TypeOK
<1>2. KindOK'
  BY <1>1 DEF KindOK
<1>3. ServingOnly'
  BY DEF ServingOnly, server
<1>4. LockedSinceCount'
  BY <1>1 DEF LockedSinceCount, Closed, server
<1>5. Inserted'
  BY <1>1 DEF Inserted
<1>6. ClaimHolds'
  BY <1>1 DEF ClaimHolds
<1> QED BY <1>2, <1>3, <1>4, <1>5, <1>6

(* A request at a statement is served. *)
LEMMA Serving ==
    ASSUME TypeOK, Control, NEW r \in Requests, pc[r] # "idle"
    PROVE  boot = "serving"
BY DEF Control, ServingOnly

(* Steps of a request that write no row keep what the others rely on. *)
LEMMA ServeControl ==
    ASSUME TypeOK, Control, NEW r \in Requests, Serve(r) \/ Abandon(r), UNCHANGED rows
    PROVE  Control'
<1> USE DEF Control
<1>0. UNCHANGED <<account, invite>>
  BY DEF rows
<1>1. CASE Refuse(r) \/ EmailTaken(r) \/ InviteGone(r) \/ Unauthorized(r) \/ Verified(r)
          \/ AlreadyInvited(r) \/ Abandon(r) \/ AddMember(r) \/ Answer(r)
          \/ CommitRegistration(r)
  <2>1. End(r) /\ UNCHANGED server
    BY <1>1 DEF Refuse, EmailTaken, InviteGone, Unauthorized, Verified, AlreadyInvited, Abandon,
                AddMember, Answer, CommitRegistration
  <2> QED BY <2>1, <1>0, EndControl
<1>2. CASE Check(r) \/ TakePermit(r) \/ Hashed(r) \/ FindInvitee(r)
  <2>1. pc[r] # "idle" /\ UNCHANGED <<server, op, local>>
    BY <1>2 DEF Check, TakePermit, Hashed, FindInvitee
  <2>2. PICK label \in {"hash", "hashing", "begin", "insert_member", "mint"} :
          /\ Goto(r, label)
          /\ label = "begin" => op[r].kind = "register"
          /\ label \in {"insert_member", "mint"} => op[r].kind = "invite"
    BY <1>2 DEF Check, TakePermit, Hashed, FindInvitee, KindOK
  <2>3. label \in PCs
    BY DEF PCs
  <2> QED BY <2>1, <2>2, <2>3, <1>0, Serving, GotoControl DEF local
<1>3. CASE FindUser(r)
  <2>1. pc[r] # "idle" /\ Goto(r, "hash") /\ UNCHANGED <<server, local>> /\ "hash" \in PCs
    BY <1>3 DEF FindUser, PCs
  <2>2. \A q \in Requests \ {r} : op'[q] = op[q]
    BY <1>3 DEF FindUser, TypeOK
  <2> QED BY <2>1, <2>2, <1>0, Serving, GotoControl DEF local
<1>4. CASE BeginTx(r)
  <2>1. CASE Closed(r)
    <3>1. pc[r] # "idle" /\ Goto(r, "lock") /\ op[r].kind = "register" /\ "lock" \in PCs
      BY <1>4, <2>1 DEF BeginTx, PCs, KindOK
    <3> QED BY <3>1, <1>4, <1>0, Serving, GotoControl DEF BeginTx
  <2>2. CASE ~Closed(r)
    <3>1. KindOK' /\ ServingOnly'
      BY <1>4, <2>2, Serving DEF BeginTx, Goto, TypeOK, KindOK, ServingOnly, server
    <3>2. LockedSinceCount'
      BY <1>4, <1>0, <2>2 DEF BeginTx, Goto, TypeOK, LockedSinceCount, Closed, server
    <3>3. Inserted' /\ ClaimHolds'
      BY <1>4, <1>0, <2>2 DEF BeginTx, Goto, TypeOK, Inserted, ClaimHolds
    <3> QED BY <3>1, <3>2, <3>3
  <2> QED BY <2>1, <2>2
<1>5. CASE LockRegistration(r)
  BY <1>5, <1>0, Serving, AccountsAssumption DEF LockRegistration, Goto, TypeOK, KindOK,
     ServingOnly, LockedSinceCount, Closed, Inserted, ClaimHolds, server
<1>6. CASE Recount(r)
  <2>1. CASE Registered = {}
    BY <1>6, <2>1, <1>0, Serving DEF Recount, Registered, Goto, TypeOK, KindOK, ServingOnly,
       LockedSinceCount, Closed, Inserted, ClaimHolds, server, local, NoAccount
  <2>2. CASE Registered # {}
    BY <1>6, <2>2, <1>0, EndControl DEF Recount
  <2> QED BY <2>1, <2>2
<1>7. CASE InsertUser(r)
  <2>1. op[r].kind = "register" /\ op[r].email \in Emails
    BY <1>7, OpFields DEF InsertUser, KindOK
  <2>2. KindOK' /\ ServingOnly'
    BY <1>7, <2>1, Serving DEF InsertUser, Goto, TypeOK, KindOK, ServingOnly, server
  <2>3. LockedSinceCount'
    BY <1>7, <1>0 DEF InsertUser, Goto, TypeOK, LockedSinceCount, Closed, server
  <2>4. Inserted'
    <3> SUFFICES ASSUME NEW q \in Requests, pc'[q] \in {"claim", "commit"}
                 PROVE  newUser'[op'[q].email] = q /\ account'[op'[q].email] = NoAccount
      BY DEF Inserted
    <3>1. CASE q = r
      BY <1>7, <1>0, <2>1, <3>1 DEF InsertUser, TypeOK
    <3>2. CASE q # r
      <4>1. pc[q] = pc'[q] /\ op'[q] = op[q]
        BY <1>7, <3>2 DEF InsertUser, Goto, TypeOK
      <4>2. newUser[op[q].email] = q /\ account[op[q].email] = NoAccount
        BY <4>1 DEF Inserted
      <4>3. op[q].email # op[r].email
        BY <1>7, <4>2, AccountsAssumption DEF InsertUser
      <4> QED BY <1>7, <1>0, <4>1, <4>2, <4>3 DEF InsertUser, TypeOK
    <3> QED BY <3>1, <3>2
  <2>5. ClaimHolds'
    BY <1>7, <1>0, AccountsAssumption DEF InsertUser, Goto, TypeOK, ClaimHolds
  <2> QED BY <2>2, <2>3, <2>4, <2>5
<1>8. CASE ClaimInvite(r)
  <2>1. KindOK' /\ ServingOnly'
    BY <1>8, Serving DEF ClaimInvite, Goto, TypeOK, KindOK, ServingOnly, server
  <2>2. LockedSinceCount'
    BY <1>8, <1>0 DEF ClaimInvite, Goto, TypeOK, KindOK, LockedSinceCount, Closed, server
  <2>3. Inserted'
    BY <1>8, <1>0 DEF ClaimInvite, Goto, TypeOK, Inserted
  <2>4. ClaimHolds'
    BY <1>8, <1>0 DEF ClaimInvite, Claimable, Goto, TypeOK, ClaimHolds
  <2> QED BY <2>1, <2>2, <2>3, <2>4
<1>9. CASE MintInvite(r)
  BY <1>9, MintedOffer DEF rows
<1> QED BY <1>1, <1>2, <1>3, <1>4, <1>5, <1>6, <1>7, <1>8, <1>9 DEF Serve

(* So does a request that begins, *)
LEMMA BeginControl ==
    ASSUME TypeOK, Control, NEW r \in Requests, Begin(r)
    PROVE  Control'
<1>1. ASSUME NEW w \in Workspaces, NEW e \in Emails, NEW ro \in Offered,
             BeginInvite(r, w, e, ro)
      PROVE  Control'
  <2>1. /\ boot = "serving" /\ Goto(r, "find_invitee") /\ "find_invitee" \in PCs
        /\ op'[r].kind = "invite" /\ \A q \in Requests \ {r} : op'[q] = op[q]
        /\ UNCHANGED <<server, rows, local>>
    BY <1>1 DEF BeginInvite, TypeOK, PCs
  <2> QED BY <2>1, GotoControl DEF rows, local
<1>2. ASSUME NEW via \in Connections, NEW o \in Ops, o.kind \in {"login", "register"},
             Attempt(r, via, o)
      PROVE  Control'
  <2>1. boot = "serving" /\ UNCHANGED <<server, rows, local>>
    BY <1>2 DEF Attempt
  <2>2. CASE UNCHANGED <<pc, op>>
    BY <2>1, <2>2 DEF Control, KindOK, ServingOnly, LockedSinceCount, Closed, Inserted, ClaimHolds,
       server, rows, local
  <2>3. CASE ~UNCHANGED <<pc, op>>
    <3>1. op' = [op EXCEPT ![r] = o]
          /\ Goto(r, IF o.kind = "login" THEN "find_user" ELSE "check")
      BY <1>2, <2>3 DEF Attempt
    <3>2. op'[r] = o /\ \A q \in Requests \ {r} : op'[q] = op[q]
      BY <3>1 DEF TypeOK
    <3>3. "find_user" \in PCs /\ "check" \in PCs
      BY DEF PCs
    <3>4. CASE o.kind = "login"
      BY <2>1, <3>1, <3>2, <3>3, <3>4, GotoControl DEF rows, local
    <3>5. CASE o.kind = "register"
      BY <2>1, <3>1, <3>2, <3>3, <3>5, GotoControl DEF rows, local
    <3> QED BY <1>2, <3>4, <3>5
  <2> QED BY <2>2, <2>3
<1>3. \A e \in Emails : [kind |-> "login", email |-> e] \in Ops
  BY DEF Ops
<1>4. \A e \in Emails, k \in handed \cup {None} :
        [kind |-> "register", email |-> e, token |-> k] \in Ops
  BY DEF Ops, TypeOK
<1> QED BY <1>1, <1>2, <1>3, <1>4 DEF Begin

(* and the life of the server. *)
LEMMA ServerControl ==
    ASSUME TypeOK, Control, Start \/ SeedStatement \/ Crash \/ Tick
    PROVE  Control'
<1> USE DEF Control
<1>1. CASE Start \/ SeedStatement
  <2>1. boot # "serving" /\ UNCHANGED <<cfg, pc, op, local>>
    BY <1>1 DEF Start, SeedStatement
  <2>2. \A r \in Requests : pc[r] = "idle"
    BY <2>1 DEF ServingOnly
  <2> QED BY <2>1, <2>2 DEF KindOK, ServingOnly, LockedSinceCount, Inserted, ClaimHolds
<1>2. CASE Crash
  BY <1>2 DEF Crash, KindOK, ServingOnly, LockedSinceCount, Inserted, ClaimHolds
<1>3. CASE Tick
  BY <1>3 DEF Tick, KindOK, ServingOnly, LockedSinceCount, Closed, Inserted, ClaimHolds,
     server, rows, local
<1> QED BY <1>1, <1>2, <1>3

(* What CommitRegistration writes. *)
LEMMA Committed ==
    ASSUME TypeOK, Control, NEW r \in Requests, CommitRegistration(r)
    PROVE  LET e == op[r].email  k == op[r].token  w == claimed[r] IN
           /\ op[r].kind = "register" /\ e \in Emails /\ k \in Tokens \cup {None}
           /\ newUser[e] = r /\ account[e] = NoAccount
           /\ account' = [account EXCEPT ![e] =
                 IF k = None THEN [via |-> "open", token |-> None]
                          ELSE [via |-> "invite", token |-> k]]
           /\ k # None => w \in Workspaces /\ invite[<<w, e>>] = k
           /\ k = None => UNCHANGED invite
           /\ k # None => invite' = [invite EXCEPT ![<<w, e>>] = None]
           /\ \A q \in Requests \ {r} : pc[q] \in {"claim", "commit"} => op[q].email # e
<1>1. op[r].kind = "register" /\ pc[r] = "commit"
  BY DEF CommitRegistration, Control, KindOK
<1>2. op[r].email \in Emails /\ op[r].token \in Tokens \cup {None}
  BY <1>1, OpFields
<1>3. newUser[op[r].email] = r /\ account[op[r].email] = NoAccount
  BY <1>1 DEF Control, Inserted
<1>4. op[r].token # None => /\ claimed[r] \in Workspaces
                            /\ invite[<<claimed[r], op[r].email>>] = op[r].token
  BY <1>1 DEF Control, ClaimHolds
<1>5. \A q \in Requests \ {r} : pc[q] \in {"claim", "commit"} => op[q].email # op[r].email
  BY <1>3 DEF Control, Inserted
<1> QED BY <1>1, <1>2, <1>3, <1>4, <1>5 DEF CommitRegistration

(* A registration that commits keeps what the others rely on. *)
LEMMA CommitControl ==
    ASSUME TypeOK, Control, NEW r \in Requests, CommitRegistration(r)
    PROVE  Control'
<1> DEFINE e == op[r].email  k == op[r].token  w == claimed[r]
<1>0. /\ e \in Emails
      /\ account' = [account EXCEPT ![e] =
            IF k = None THEN [via |-> "open", token |-> None] ELSE [via |-> "invite", token |-> k]]
      /\ k # None => w \in Workspaces
      /\ k = None => UNCHANGED invite
      /\ k # None => invite' = [invite EXCEPT ![<<w, e>>] = None]
      /\ \A q \in Requests \ {r} : pc[q] \in {"claim", "commit"} => op[q].email # e
  BY Committed
<1>1. End(r) /\ UNCHANGED server
  BY DEF CommitRegistration
<1>2. KindOK' /\ ServingOnly'
  BY <1>1 DEF Control, End, TypeOK, KindOK, ServingOnly, server
<1>3. LockedSinceCount'
  <2> SUFFICES ASSUME NEW q \in Requests, pc'[q] \in {"recount", "insert_user", "commit"},
                      Closed(q)'
               PROVE  /\ regLock' = q
                      /\ pc'[q] \in {"insert_user", "commit"} =>
                            \A f \in Emails : account'[f].via \in {"none", "invite"}
    BY DEF LockedSinceCount
  <2>1. q # r /\ pc[q] = pc'[q] /\ op'[q] = op[q] /\ Closed(q)
    BY <1>1 DEF End, TypeOK, Closed, server
  <2>2. regLock = q
    BY <2>1 DEF Control, LockedSinceCount
  <2>3. pc[r] = "commit" /\ ~Closed(r)
    BY <2>1, <2>2 DEF CommitRegistration, Control, LockedSinceCount
  <2>4. op[r].token # None
    BY <2>1, <2>3 DEF Closed
  <2> QED BY <1>0, <1>1, <2>1, <2>2, <2>4 DEF Control, LockedSinceCount, End, TypeOK
<1>4. Inserted'
  <2> SUFFICES ASSUME NEW q \in Requests, pc'[q] \in {"claim", "commit"}
               PROVE  newUser'[op'[q].email] = q /\ account'[op'[q].email] = NoAccount
    BY DEF Inserted
  <2>1. q # r /\ pc[q] = pc'[q] /\ op'[q] = op[q]
    BY <1>1 DEF End, TypeOK
  <2>2. op[q].email \in Emails /\ op[q].email # e
    BY <1>0, <2>1, OpFields DEF Control, KindOK
  <2>3. newUser[op[q].email] = q /\ account[op[q].email] = NoAccount
    BY <2>1 DEF Control, Inserted
  <2> QED BY <1>0, <1>1, <2>1, <2>2, <2>3 DEF End, TypeOK
<1>5. ClaimHolds'
  <2> SUFFICES ASSUME NEW q \in Requests, pc'[q] = "commit", op'[q].token # None
               PROVE  /\ claimed'[q] \in Workspaces
                      /\ invite'[<<claimed'[q], op'[q].email>>] = op'[q].token
    BY DEF ClaimHolds
  <2>1. q # r /\ pc[q] = pc'[q] /\ op'[q] = op[q] /\ claimed'[q] = claimed[q]
    BY <1>1 DEF End, TypeOK
  <2>2. op[q].email \in Emails /\ op[q].email # e
    BY <1>0, <2>1, OpFields DEF Control, KindOK
  <2>3. claimed[q] \in Workspaces /\ invite[<<claimed[q], op[q].email>>] = op[q].token
    BY <2>1 DEF Control, ClaimHolds
  <2> QED BY <1>0, <2>1, <2>2, <2>3 DEF TypeOK
<1> QED BY <1>2, <1>3, <1>4, <1>5 DEF Control

(* What MintInvite writes. *)
LEMMA MintFacts ==
    ASSUME TypeOK, Control, NEW r \in Requests, MintInvite(r)
    PROVE  LET w == op[r].workspace  e == op[r].email IN
           /\ op[r].kind = "invite" /\ w \in Workspaces /\ e \in Emails
           /\ InviteFree(<<w, e>>) /\ Mintable(<<w, e>>)
           /\ \E k \in Tokens :
                /\ offer[k] = None
                /\ invite' = [invite EXCEPT ![<<w, e>>] = k]
                /\ offer' = [offer EXCEPT ![k] =
                              [workspace |-> w, email |-> e, role |-> op[r].role]]
                /\ [workspace |-> w, email |-> e, role |-> op[r].role] \in Offers
                /\ op' = [op EXCEPT ![r] = [kind |-> "invited", token |-> k]]
<1>1. op[r].kind = "invite" /\ pc[r] = "mint"
  BY DEF MintInvite, Control, KindOK
<1>2. op[r] \in [kind : {"invite"}, email : Emails, workspace : Emails, role : Offered]
  BY <1>1, OpFields
<1>3. [workspace |-> op[r].workspace, email |-> op[r].email, role |-> op[r].role] \in Offers
  BY <1>2 DEF Offers
<1> QED BY <1>1, <1>2, <1>3 DEF MintInvite

(* A token that is minted replaces none that is being redeemed. *)
LEMMA MintControl ==
    ASSUME TypeOK, Control, NEW r \in Requests, MintInvite(r)
    PROVE  Control'
<1> DEFINE w == op[r].workspace  e == op[r].email
<1>1. PICK k \in Tokens : /\ offer[k] = None
                           /\ invite' = [invite EXCEPT ![<<w, e>>] = k]
                           /\ op' = [op EXCEPT ![r] = [kind |-> "invited", token |-> k]]
  BY MintFacts
<1>2. /\ Goto(r, "answer") /\ pc[r] = "mint"
      /\ UNCHANGED <<server, account, local>>
  BY DEF MintInvite
<1>3. KindOK' /\ ServingOnly'
  BY <1>1, <1>2 DEF Control, Goto, TypeOK, KindOK, ServingOnly, server
<1>4. LockedSinceCount' /\ Inserted'
  BY <1>1, <1>2 DEF Control, Goto, TypeOK, LockedSinceCount, Closed, Inserted, server, local
<1>5. ClaimHolds'
  <2> SUFFICES ASSUME NEW q \in Requests, pc'[q] = "commit", op'[q].token # None
               PROVE  /\ claimed'[q] \in Workspaces
                      /\ invite'[<<claimed'[q], op'[q].email>>] = op'[q].token
    BY DEF ClaimHolds
  <2>1. q # r /\ pc[q] = pc'[q] /\ op'[q] = op[q] /\ claimed'[q] = claimed[q]
    BY <1>1, <1>2 DEF Goto, TypeOK, local
  <2>2. claimed[q] \in Workspaces /\ invite[<<claimed[q], op[q].email>>] = op[q].token
    BY <2>1 DEF Control, ClaimHolds
  <2>3. op[q].email \in Emails
    BY <2>1, OpFields DEF Control, KindOK
  <2>4. <<claimed[q], op[q].email>> # <<w, e>>
    BY MintFacts DEF InviteFree
  <2> QED BY <1>1, <2>1, <2>2, <2>3, <2>4 DEF TypeOK
<1> QED BY <1>3, <1>4, <1>5 DEF Control

(* Which statements of a request write rows. *)
LEMMA RequestRows ==
    ASSUME NEW r \in Requests, Serve(r) \/ Abandon(r)
    PROVE  UNCHANGED rows \/ CommitRegistration(r) \/ MintInvite(r) \/ AddMember(r) \/ Answer(r)
BY DEF Serve, Abandon, Check, Refuse, TakePermit, Hashed, BeginTx, LockRegistration,
   Recount, InsertUser, EmailTaken, ClaimInvite, InviteGone, FindUser, Unauthorized,
   Verified, FindInvitee, AlreadyInvited

(* Every step keeps it. *)
LEMMA NextControl == TypeOK /\ Control /\ [Next]_vars => Control'
<1> SUFFICES ASSUME TypeOK, Control, [Next]_vars PROVE Control'
  OBVIOUS
<1>1. CASE UNCHANGED vars
  BY <1>1 DEF vars, server, rows, limiter, local, Control, KindOK, ServingOnly, LockedSinceCount,
     Closed, Inserted, ClaimHolds
<1>2. CASE Start \/ SeedStatement \/ Crash \/ Tick
  BY <1>2, ServerControl
<1>3. ASSUME NEW k \in Tokens, Expire(k) PROVE Control'
  BY <1>3 DEF Expire, server, limiter, local, Control, KindOK, ServingOnly, LockedSinceCount,
     Closed, Inserted, ClaimHolds
<1>4. ASSUME NEW r \in Requests, Begin(r) PROVE Control'
  BY <1>4, BeginControl
<1>5. ASSUME NEW r \in Requests, Serve(r) \/ Abandon(r) PROVE Control'
  <2>1. CASE UNCHANGED rows
    BY <1>5, <2>1, ServeControl
  <2>2. CASE CommitRegistration(r)
    BY <2>2, CommitControl
  <2>3. CASE MintInvite(r)
    BY <2>3, MintControl
  <2>4. CASE AddMember(r) \/ Answer(r)
    <3>1. End(r) /\ UNCHANGED <<server, account, invite>>
      BY <2>4 DEF AddMember, Answer
    <3> QED BY <3>1, EndControl
  <2>5. UNCHANGED rows \/ CommitRegistration(r) \/ MintInvite(r) \/ AddMember(r) \/ Answer(r)
    BY <1>5, RequestRows
  <2> QED BY <2>1, <2>2, <2>3, <2>4, <2>5
<1> QED BY <1>1, <1>2, <1>3, <1>4, <1>5 DEF Next

(* Which steps write rows: the others keep what is only about rows. *)
LEMMA RowWriters ==
    ASSUME Next
    PROVE  \/ UNCHANGED rows
           \/ SeedStatement
           \/ \E k \in Tokens : Expire(k)
           \/ \E r \in Requests :
                CommitRegistration(r) \/ MintInvite(r) \/ AddMember(r) \/ Answer(r)
<1>1. CASE Start \/ Crash \/ Tick
  BY <1>1 DEF Start, Crash, Tick
<1>2. ASSUME NEW r \in Requests, Begin(r) PROVE UNCHANGED rows
  BY <1>2 DEF Begin, BeginInvite, Attempt
<1> QED BY <1>1, <1>2, RequestRows DEF Next

-----------------------------------------------------------------------------
(* Every step keeps the types. *)
LEMMA NextType == TypeOK /\ Control /\ Minted /\ [Next]_vars => TypeOK'
<1> SUFFICES ASSUME TypeOK, Control, Minted, [Next]_vars PROVE TypeOK'
  OBVIOUS
<1>0. KindOK
  BY DEF Control
<1>1. CASE UNCHANGED vars
  BY <1>1 DEF vars, server, rows, limiter, local, TypeOK
<1>2. CASE Start \/ SeedStatement \/ Crash \/ Tick
  BY <1>2, ServerType
<1>3. ASSUME NEW k \in Tokens, Expire(k) PROVE TypeOK'
  BY <1>3 DEF Expire, server, limiter, local, TypeOK
<1>4. ASSUME NEW r \in Requests, Begin(r) PROVE TypeOK'
  BY <1>4, BeginType
<1>5. ASSUME NEW r \in Requests, Serve(r) \/ Abandon(r) PROVE TypeOK'
  <2>1. CASE UNCHANGED rows
    BY <1>0, <1>5, <2>1, ServeType
  <2>2. CASE CommitRegistration(r)
    <3> DEFINE e == op[r].email  k == op[r].token  w == claimed[r]
    <3>1. account' \in [Emails -> AccountRows]
      <4>1. /\ k \in Tokens \cup {None}
            /\ account' = [account EXCEPT ![e] = IF k = None THEN [via |-> "open", token |-> None]
                                      ELSE [via |-> "invite", token |-> k]]
        BY <2>2, Committed
      <4>2. (IF k = None THEN [via |-> "open", token |-> None]
             ELSE [via |-> "invite", token |-> k]) \in AccountRows
        BY <4>1 DEF AccountRows
      <4> QED BY <4>1, <4>2 DEF TypeOK
    <3>2. invite' \in [Workspaces \X Emails -> Tokens \cup {None}]
      BY <2>2 DEF CommitRegistration, TypeOK
    <3>3. member' \in [Workspaces \X Emails -> Roles \cup {Absent}]
      <4>1. CASE k = None
        BY <2>2, <4>1 DEF CommitRegistration, Found, TypeOK
      <4>2. CASE k # None
        <5>1. w \in Workspaces /\ e \in Emails /\ invite[<<w, e>>] = k /\ k \in Tokens
          BY <2>2, <4>2, Committed
        <5>2. offer[k] \in Offers
          BY <5>1, <4>2, AccountsAssumption DEF Minted
        <5>3. offer[k].role \in Roles
          BY <5>2, AccountsAssumption DEF Offers
        <5> QED BY <2>2, <4>2, <5>3 DEF CommitRegistration, TypeOK
      <4> QED BY <4>1, <4>2
    <3>4. End(r) /\ UNCHANGED <<server, limiter, expired, offer, handed>>
      BY <2>2 DEF CommitRegistration
    <3> QED BY <3>1, <3>2, <3>3, <3>4, EndType DEF TypeOK
  <2>3. CASE MintInvite(r)
    <3>1. PICK k \in Tokens :
            /\ invite' = [invite EXCEPT ![<<op[r].workspace, op[r].email>>] = k]
            /\ offer' = [offer EXCEPT ![k] = [workspace |-> op[r].workspace,
                                             email |-> op[r].email, role |-> op[r].role]]
            /\ [workspace |-> op[r].workspace, email |-> op[r].email, role |-> op[r].role]
                     \in Offers
            /\ op' = [op EXCEPT ![r] = [kind |-> "invited", token |-> k]]
      BY <2>3, MintFacts
    <3>2. invite' \in [Workspaces \X Emails -> Tokens \cup {None}]
      BY <3>1 DEF TypeOK
    <3>3. offer' \in [Tokens -> Offers \cup {None}]
      BY <3>1 DEF TypeOK
    <3>4. op' \in [Requests -> Ops \cup {NoOp}]
      BY <3>1 DEF TypeOK, Ops
    <3>5. pc' \in [Requests -> PCs]
      BY <2>3 DEF MintInvite, Goto, TypeOK, PCs
    <3> QED BY <2>3, <3>2, <3>3, <3>4, <3>5 DEF MintInvite, TypeOK, server, limiter, local
  <2>4. CASE AddMember(r)
    <3>1. op[r].kind = "invite"
      BY <2>4, <1>0 DEF AddMember, KindOK
    <3>2. op[r].role \in Roles
      BY <3>1, OpFields, AccountsAssumption
    <3>3. member' \in [Workspaces \X Emails -> Roles \cup {Absent}]
      BY <2>4, <3>2 DEF AddMember, TypeOK
    <3> QED BY <2>4, <3>3, EndType DEF AddMember, TypeOK
  <2>5. CASE Answer(r)
    <3>1. op[r].token \in Tokens
      BY <2>5, <1>0, OpFields DEF Answer, KindOK
    <3> QED BY <2>5, <3>1, EndType DEF Answer, TypeOK
  <2> QED BY <1>5, <2>1, <2>2, <2>3, <2>4, <2>5, RequestRows
<1> QED BY <1>1, <1>2, <1>3, <1>4, <1>5 DEF Next

-----------------------------------------------------------------------------
(* Only the life of the server changes what it is doing; and only the seed and a *)
(* registration that commits, while it serves, make accounts.                    *)
LEMMA ServerAndAccounts ==
    ASSUME TypeOK, Control, [Next]_vars
    PROVE  \/ Start \/ SeedStatement
           \/ /\ UNCHANGED <<cfg, step, seeded>>
              /\ boot' \in {boot, "down"}
              /\ \/ UNCHANGED account
                 \/ \E r \in Requests : CommitRegistration(r) /\ boot = "serving"
<1>1. CASE UNCHANGED vars \/ Crash \/ Tick
  BY <1>1 DEF vars, Crash, Tick, server, rows
<1>2. ASSUME NEW k \in Tokens, Expire(k)
      PROVE  UNCHANGED <<cfg, step, seeded, boot, account>>
  BY <1>2 DEF Expire, server
<1>3. ASSUME NEW r \in Requests, Begin(r)
      PROVE  UNCHANGED <<cfg, step, seeded, boot, account>>
  BY <1>3 DEF Begin, BeginInvite, Attempt, server, rows
<1>4. ASSUME NEW r \in Requests, Serve(r) \/ Abandon(r)
      PROVE  /\ UNCHANGED <<cfg, step, seeded, boot>>
             /\ UNCHANGED account \/ (CommitRegistration(r) /\ boot = "serving")
  <2>1. UNCHANGED server
    BY <1>4 DEF Serve, Abandon, Check, Refuse, TakePermit, Hashed, BeginTx, LockRegistration,
       Recount, InsertUser, EmailTaken, ClaimInvite, InviteGone, FindUser, Unauthorized, Verified,
       FindInvitee, AlreadyInvited, CommitRegistration, AddMember, MintInvite, Answer
  <2>2. UNCHANGED account \/ CommitRegistration(r)
    BY <1>4, RequestRows DEF rows, MintInvite, AddMember, Answer
  <2>3. CommitRegistration(r) => boot = "serving"
    BY DEF CommitRegistration, Control, ServingOnly
  <2>4. UNCHANGED <<cfg, step, seeded, boot>>
    BY <2>1 DEF server
  <2> QED BY <2>2, <2>3, <2>4
<1> QED BY <1>1, <1>2, <1>3, <1>4 DEF Next

(* An account is never taken away. *)
LEMMA CommitKeepsAccounts ==
    ASSUME TypeOK, Control, NEW r \in Requests, CommitRegistration(r)
    PROVE  \A e \in Emails : account[e] # NoAccount => account'[e] = account[e]
BY Committed DEF TypeOK

(* The seed stays in order, so that no statement of it can fail. *)
LEMMA SeedStep ==
    TypeOK /\ Control /\ SeedInOrder /\ StartsAgain /\ [Next]_vars => SeedInOrder' /\ StartsAgain'
<1> SUFFICES ASSUME TypeOK, Control, SeedInOrder, StartsAgain, [Next]_vars
             PROVE  SeedInOrder' /\ StartsAgain'
  OBVIOUS
<1>1. CASE Start
  <2>1. CASE NeedsSeed
    <3>1. \A e \in Emails : account[e] = NoAccount
      BY <2>1 DEF NeedsSeed, Registered
    <3>2. seeded = {}
      BY <3>1, AccountsAssumption DEF SeedInOrder
    <3>3. Filled(1) = {}
      BY DEF Filled
    <3>4. seeded' = {} /\ step' = 1 /\ boot' = "seeding" /\ account' = account
      BY <1>1, <2>1, <3>2 DEF Start, rows
    <3> QED BY <3>1, <3>3, <3>4 DEF SeedInOrder, StartsAgain, NoAccount
  <2>2. CASE ~NeedsSeed
    BY <1>1, <2>2 DEF Start, rows, SeedInOrder, StartsAgain
  <2> QED BY <2>1, <2>2
<1>2. CASE SeedStatement
  <2> DEFINE s == SeedPlan[step]
  <2>1. step \in 1..14 /\ boot = "seeding" /\ seeded = Filled(step)
    BY <1>2, Plan DEF SeedStatement, TypeOK, SeedInOrder
  <2>2. SeedFits(s) /\ Filled(step + 1) = Filled(step) \cup {s.table}
    BY <2>1, PlanFits
  <2>3. /\ seeded' = Filled(step + 1)
        /\ account' = IF s.table # "users" THEN account
                      ELSE [account EXCEPT ![Demo] = [via |-> "seed", token |-> None]]
        /\ boot' = "serving" \/ (boot' = "seeding" /\ step' = step + 1)
    <3>1. boot' = IF step = Len(SeedPlan) THEN "serving" ELSE boot
      BY <1>2, <2>2 DEF SeedStatement
    <3>2. step' = IF step = Len(SeedPlan) THEN step ELSE step + 1
      BY <1>2, <2>2 DEF SeedStatement
    <3>3. /\ seeded' = seeded \cup {s.table}
          /\ account' = IF s.table # "users" THEN account
                        ELSE [account EXCEPT ![Demo] = [via |-> "seed", token |-> None]]
      BY <1>2, <2>2 DEF SeedStatement
    <3> QED BY <2>1, <2>2, <3>1, <3>2, <3>3
  <2>4. account'[Demo] # NoAccount
    <3>1. CASE step = 1
      BY <2>3, <3>1, Plan, AccountsAssumption DEF Fills, NoAccount, TypeOK
    <3>2. CASE step # 1
      <4>1. SeedPlan[1].table \in seeded
        BY <2>1, <3>2 DEF Filled
      <4>2. account[Demo] # NoAccount
        BY <4>1 DEF SeedInOrder
      <4> QED BY <2>3, <4>2, AccountsAssumption DEF NoAccount, TypeOK
    <3> QED BY <3>1, <3>2
  <2>5. \A e \in Emails : account'[e].via \in {"none", "seed"}
    BY <2>1, <2>3 DEF SeedInOrder, TypeOK
  <2> QED BY <2>3, <2>4, <2>5 DEF SeedInOrder, StartsAgain
<1>3. CASE ~Start /\ ~SeedStatement
  <2>1. /\ UNCHANGED <<step, seeded>> /\ boot' \in {boot, "down"}
        /\ UNCHANGED account \/ (\E r \in Requests : CommitRegistration(r) /\ boot = "serving")
    BY <1>3, ServerAndAccounts
  <2>2. account[Demo] # NoAccount => account'[Demo] # NoAccount
    BY <2>1, CommitKeepsAccounts, AccountsAssumption
  <2> QED BY <2>1, <2>2 DEF SeedInOrder, StartsAgain, Filled
<1> QED BY <1>1, <1>2, <1>3

(* The rows of accounts by how they were made. *)
LEMMA AccountFacts ==
    ASSUME TypeOK, NEW e \in Emails
    PROVE  /\ account[e].via = "none" <=> account[e] = NoAccount
           /\ account[e].via # "invite" => account[e].token = None
           /\ account[e].via = "invite" => account[e].token \in Tokens
           /\ account[e].via \in {"none", "seed", "open", "invite"}
BY DEF TypeOK, AccountRows, NoAccount

(* However first registrations race, one of them gets in. *)
LEMMA FirstUserStep ==
    TypeOK /\ Control /\ SeedInOrder /\ OnlyFirstUser /\ [Next]_vars => OnlyFirstUser'
<1> SUFFICES ASSUME TypeOK, Control, SeedInOrder, OnlyFirstUser, [Next]_vars,
                    ~cfg'.open, NEW e \in Emails, NEW f \in Emails,
                    account'[e].via = "open", account'[f] # NoAccount, f # e
             PROVE  account'[f].via = "invite"
  BY DEF OnlyFirstUser, Registered
<1>1. CASE SeedStatement
  <2>1. account'[e].via \in {"none", "seed"}
    <3>1. account[e].via \in {"none", "seed"}
      BY <1>1 DEF SeedStatement, SeedInOrder
    <3>2. \/ account' = account
          \/ account' = [account EXCEPT ![Demo] = [via |-> "seed", token |-> None]]
      BY <1>1 DEF SeedStatement
    <3>3. DOMAIN account = Emails
      BY DEF TypeOK
    <3> QED BY <3>1, <3>2, <3>3
  <2> QED BY <2>1
<1>2. ASSUME NEW r \in Requests, CommitRegistration(r), UNCHANGED cfg
      PROVE  account'[f].via = "invite"
  <2> DEFINE d == op[r].email  k == op[r].token
  <2>1. /\ d \in Emails /\ k \in Tokens \cup {None} /\ account[d] = NoAccount
        /\ account' = [account EXCEPT ![d] =
              IF k = None THEN [via |-> "open", token |-> None]
                       ELSE [via |-> "invite", token |-> k]]
    BY <1>2, Committed
  <2>2. CASE k # None
    <3>1. e # d /\ account'[e] = account[e]
      BY <2>1, <2>2 DEF TypeOK
    <3> QED BY <1>2, <2>1, <2>2, <3>1, AccountFacts DEF OnlyFirstUser, Registered, TypeOK
  <2>3. CASE k = None
    <3>1. Closed(r) /\ pc[r] = "commit"
      BY <1>2, <2>3 DEF Closed, CommitRegistration
    <3>2. \A g \in Emails : account[g].via \in {"none", "invite"}
      BY <3>1 DEF Control, LockedSinceCount
    <3>3. e = d /\ f # d /\ account'[f] = account[f]
      BY <2>1, <2>3, <3>2 DEF TypeOK
    <3> QED BY <3>2, <3>3, AccountFacts
  <2> QED BY <2>2, <2>3
<1>3. CASE UNCHANGED <<cfg, account>>
  BY <1>3 DEF OnlyFirstUser, Registered, NoAccount
<1>4. Start => UNCHANGED <<cfg, account>>
  BY DEF Start, rows
<1> QED BY <1>1, <1>2, <1>3, <1>4, ServerAndAccounts

-----------------------------------------------------------------------------
(* A request that is about to answer has been since it minted the token. *)
LEMMA AnswerSteps ==
    ASSUME TypeOK, Control, [Next]_vars,
           \A r \in Requests : ~MintInvite(r),
           NEW q \in Requests, pc'[q] = "answer"
    PROVE  pc[q] = "answer" /\ op'[q] = op[q]
<1>1. CASE UNCHANGED vars \/ Start \/ SeedStatement \/ Crash \/ Tick
  BY <1>1 DEF vars, Start, SeedStatement, Crash, Tick
<1>2. ASSUME NEW k \in Tokens, Expire(k)
      PROVE  UNCHANGED <<pc, op>>
  BY <1>2 DEF Expire
<1>3. ASSUME NEW r \in Requests, NEW label, Goto(r, label), label # "answer",
             \A p \in Requests \ {r} : op'[p] = op[p]
      PROVE  pc[q] = "answer" /\ op'[q] = op[q]
  BY <1>3 DEF Goto, TypeOK
<1>4. ASSUME NEW r \in Requests, End(r)
      PROVE  pc[q] = "answer" /\ op'[q] = op[q]
  BY <1>4 DEF End, TypeOK
<1>5. ASSUME NEW r \in Requests, Begin(r)
      PROVE  pc[q] = "answer" /\ op'[q] = op[q]
  <2>1. UNCHANGED <<pc, op>> \/ \E o, label :
          op' = [op EXCEPT ![r] = o] /\ Goto(r, label) /\ label # "answer"
    BY <1>5 DEF Begin, BeginInvite, Attempt
  <2> QED BY <2>1, <1>3 DEF TypeOK
<1>6. ASSUME NEW r \in Requests, Serve(r) \/ Abandon(r)
      PROVE  pc[q] = "answer" /\ op'[q] = op[q]
  <2>1. CASE Check(r) \/ TakePermit(r) \/ Hashed(r) \/ BeginTx(r) \/ LockRegistration(r)
            \/ InsertUser(r) \/ ClaimInvite(r) \/ FindInvitee(r)
    <3>1. UNCHANGED op /\ \E label : Goto(r, label) /\ label # "answer"
      BY <2>1 DEF Check, TakePermit, Hashed, BeginTx, LockRegistration, InsertUser, ClaimInvite,
         FindInvitee
    <3> QED BY <3>1, <1>3
  <2>2. CASE Refuse(r) \/ EmailTaken(r) \/ InviteGone(r) \/ CommitRegistration(r)
            \/ Unauthorized(r) \/ Verified(r) \/ AddMember(r) \/ AlreadyInvited(r) \/ Answer(r)
            \/ Abandon(r)
    <3>1. End(r)
      BY <2>2 DEF Refuse, EmailTaken, InviteGone, CommitRegistration, Unauthorized, Verified,
         AddMember, AlreadyInvited, Answer, Abandon
    <3> QED BY <3>1, <1>4
  <2>3. CASE Recount(r)
    <3>1. End(r) \/ (UNCHANGED op /\ Goto(r, "insert_user"))
      BY <2>3 DEF Recount
    <3> QED BY <3>1, <1>3, <1>4
  <2>4. CASE FindUser(r)
    <3>1. Goto(r, "hash") /\ \A p \in Requests \ {r} : op'[p] = op[p]
      BY <2>4 DEF FindUser, TypeOK
    <3> QED BY <3>1, <1>3
  <2> QED BY <1>6, <2>1, <2>2, <2>3, <2>4 DEF Serve
<1> QED BY <1>1, <1>2, <1>5, <1>6 DEF Next

(* Minted holds of the new state if it holds of the rows, and no token is minted *)
(* by the step.                                                                  *)
LEMMA MintedAnswers ==
    ASSUME TypeOK, Control, Minted, [Next]_vars, \A r \in Requests : ~MintInvite(r),
           UNCHANGED offer, NEW q \in Requests, pc'[q] = "answer"
    PROVE  offer'[op'[q].token] \in Offers
BY AnswerSteps DEF Minted

(* A registration that commits redeems its invite, and nothing else. *)
LEMMA CommitRows ==
    ASSUME TypeOK, Control, TokenRows, [Next]_vars, NEW r \in Requests, CommitRegistration(r)
    PROVE  TokenRows'
<1> DEFINE e == op[r].email  k == op[r].token  w == claimed[r]
<1>1. /\ e \in Emails /\ k \in Tokens \cup {None} /\ account[e] = NoAccount
      /\ account' = [account EXCEPT ![e] =
            IF k = None THEN [via |-> "open", token |-> None] ELSE [via |-> "invite", token |-> k]]
      /\ k # None => w \in Workspaces /\ invite[<<w, e>>] = k
      /\ k = None => UNCHANGED invite
      /\ k # None => invite' = [invite EXCEPT ![<<w, e>>] = None]
  BY Committed
<1>2. /\ member' = IF k = None THEN [member EXCEPT ![<<e, e>>] = "owner"]
                   ELSE [member EXCEPT ![<<w, e>>] = offer[k].role]
      /\ UNCHANGED <<expired, offer, handed>> /\ End(r)
  BY DEF CommitRegistration, Found
<1>3. k # None => offer[k] \in Offers /\ offer[k].workspace = w /\ offer[k].email = e
  BY <1>1 DEF TokenRows, Minted
<1>4. \A f \in Emails : account[f].token = k => k = None
  <2> SUFFICES ASSUME NEW f \in Emails, account[f].token = k, k # None PROVE FALSE
    OBVIOUS
  <2>1. account[f].via = "invite"
    BY AccountFacts
  <2>2. \A p \in DOMAIN invite : invite[p] # account[f].token
    BY <2>1 DEF TokenRows, RegistrationsComplete
  <2>3. <<w, e>> \in DOMAIN invite
    BY <1>1 DEF TypeOK
  <2> QED BY <1>1, <2>2, <2>3
<1>5. \A f \in Emails \ {e} : account'[f] = account[f]
  BY <1>1 DEF TypeOK
<1>6. account'[e].token = k /\ account'[e].via = IF k = None THEN "open" ELSE "invite"
  BY <1>1 DEF TypeOK
<1>7. \A v \in Workspaces, f \in Emails :
        invite'[<<v, f>>] \in {invite[<<v, f>>], None}
  BY <1>1 DEF TypeOK
<1>8. Minted'
  <2>1. \A q \in Requests : pc'[q] = "answer" => offer'[op'[q].token] \in Offers
    <3>1. \A q \in Requests : ~MintInvite(q)
      BY <1>1, <1>2, AccountsAssumption, MintedOffer DEF Control
    <3> QED BY <1>2, <3>1, MintedAnswers DEF TokenRows
  <2>2. \A f \in Emails : account'[f].token # None => offer'[account'[f].token] \in Offers
    BY <1>2, <1>3, <1>5, <1>6 DEF TokenRows, Minted
  <2>3. \A v \in Workspaces, f \in Emails :
          invite'[<<v, f>>] # None =>
            /\ offer'[invite'[<<v, f>>]] \in Offers
            /\ offer'[invite'[<<v, f>>]].workspace = v
            /\ offer'[invite'[<<v, f>>]].email = f
    BY <1>2, <1>7 DEF TokenRows, Minted
  <2> QED BY <1>2, <2>1, <2>2, <2>3 DEF TokenRows, Minted
<1>9. MintedStayGood'
  <2> SUFFICES ASSUME NEW t \in Tokens \ expired, offer[t] \in Offers,
                      invite'[<<offer[t].workspace, offer[t].email>>] # t
               PROVE  \E f \in Emails : account'[f].token = t
    BY <1>2 DEF MintedStayGood
  <2>1. CASE t = k
    BY <1>1, <1>6, <2>1
  <2>2. CASE t # k
    <3>1. invite[<<offer[t].workspace, offer[t].email>>] # t
      BY <1>1, <2>2 DEF TypeOK, Offers
    <3>2. PICK f \in Emails : account[f].token = t
      BY <3>1 DEF TokenRows, MintedStayGood
    <3>3. f # e
      BY <1>1, <3>2, AccountsAssumption DEF NoAccount
    <3> QED BY <1>5, <3>2, <3>3
  <2> QED BY <2>1, <2>2
<1>10. RegistrationsComplete'
  <2> SUFFICES ASSUME NEW f \in Emails
      PROVE /\ account'[f].via = "open" => member'[<<f, f>>] = "owner"
            /\ account'[f].via = "invite" =>
                /\ offer[account'[f].token].email = f
                /\ member'[<<offer[account'[f].token].workspace, f>>]
                         = offer[account'[f].token].role
                /\ \A g \in Emails \ {f} : account'[g].token # account'[f].token
                /\ \A p \in DOMAIN invite' : invite'[p] # account'[f].token
    BY <1>2 DEF RegistrationsComplete
  <2>1. CASE f = e /\ k = None
    BY <1>1, <1>2, <1>6, <2>1 DEF TypeOK
  <2>2. CASE f = e /\ k # None
    <3>1. account'[f].via = "invite" /\ account'[f].token = k
      BY <1>6, <2>2
    <3>2. member'[<<w, e>>] = offer[k].role
      BY <1>1, <1>2, <2>2 DEF TypeOK
    <3>3. \A g \in Emails \ {e} : account'[g].token # k
      BY <1>4, <1>5, <2>2
    <3>4. \A p \in DOMAIN invite' : invite'[p] # k
      <4> SUFFICES ASSUME NEW v \in Workspaces, NEW g \in Emails, invite'[<<v, g>>] = k
                   PROVE  FALSE
        BY <1>1, <2>2 DEF TypeOK
      <4>1. <<v, g>> # <<w, e>>
        BY <1>1, <2>2 DEF TypeOK
      <4>2. invite[<<v, g>>] = k
        BY <1>1, <2>2, <4>1 DEF TypeOK
      <4>3. offer[k].workspace = v /\ offer[k].email = g
        BY <2>2, <4>2 DEF TokenRows, Minted
      <4> QED BY <1>3, <2>2, <4>1, <4>3
    <3> QED BY <1>3, <2>2, <3>1, <3>2, <3>3, <3>4
  <2>3. CASE f # e
    <3>1. account'[f] = account[f]
      BY <1>5, <2>3
    <3>2. \A v \in Workspaces : member'[<<v, f>>] = member[<<v, f>>]
      BY <1>1, <1>2, <2>3 DEF TypeOK
    <3>3. account[f].via = "open" => member'[<<f, f>>] = "owner"
      BY <3>2 DEF TokenRows, RegistrationsComplete
    <3>4. ASSUME account[f].via = "invite"
          PROVE  /\ offer[account[f].token].email = f
                 /\ member'[<<offer[account[f].token].workspace, f>>] = offer[account[f].token].role
                 /\ \A g \in Emails \ {f} : account'[g].token # account[f].token
                 /\ \A p \in DOMAIN invite' : invite'[p] # account[f].token
      <4> DEFINE t == account[f].token
      <4>1. t \in Tokens /\ t # None /\ t # k
        BY <1>4, <3>4, AccountFacts, AccountsAssumption
      <4>2. offer[t] \in Offers
        BY <4>1 DEF TokenRows, Minted
      <4>3. offer[t].workspace \in Workspaces
        BY <4>2 DEF Offers
      <4>4. offer[t].email = f /\ member[<<offer[t].workspace, f>>] = offer[t].role
        BY <3>4 DEF TokenRows, RegistrationsComplete
      <4>5. \A g \in Emails \ {f} : account'[g].token # t
        <5>1. \A g \in Emails \ {f} : account[g].token # t
          BY <3>4 DEF TokenRows, RegistrationsComplete
        <5>2. account'[e].token # t
          BY <1>6, <4>1
        <5> QED BY <1>5, <5>1, <5>2
      <4>6. \A p \in DOMAIN invite' : invite'[p] # t
        <5>1. \A p \in DOMAIN invite : invite[p] # t
          BY <3>4 DEF TokenRows, RegistrationsComplete
        <5> QED BY <1>1, <4>1, <5>1 DEF TypeOK
      <4> QED BY <3>2, <4>3, <4>4, <4>5, <4>6
    <3> QED BY <3>1, <3>3, <3>4
  <2> QED BY <2>1, <2>2, <2>3
<1> QED BY <1>8, <1>9, <1>10 DEF TokenRows

(* A token that is minted is new, and takes the place of none that is good. *)
LEMMA MintRows ==
    ASSUME TypeOK, Control, TokenRows, NEW r \in Requests, MintInvite(r)
    PROVE  TokenRows'
<1> DEFINE w == op[r].workspace  e == op[r].email
           o == [workspace |-> w, email |-> e, role |-> op[r].role]
<1>1. w \in Workspaces /\ e \in Emails /\ Mintable(<<w, e>>)
  BY MintFacts
<1>2. PICK k \in Tokens :
        /\ offer[k] = None
        /\ invite' = [invite EXCEPT ![<<w, e>>] = k]
        /\ offer' = [offer EXCEPT ![k] = o]
        /\ o \in Offers
        /\ op' = [op EXCEPT ![r] = [kind |-> "invited", token |-> k]]
  BY MintFacts
<1>3. UNCHANGED <<account, member, expired, handed>> /\ Goto(r, "answer")
  BY DEF MintInvite
<1>4. \A t \in Tokens : offer[t] \in Offers => t # k /\ offer'[t] = offer[t]
  BY <1>2, AccountsAssumption DEF TypeOK
<1>5. offer'[k] = o /\ k # None
  BY <1>2, AccountsAssumption DEF TypeOK
<1>6. \A f \in Emails : account[f].token # None =>
        /\ account[f].token \in Tokens
        /\ offer[account[f].token] \in Offers
  BY AccountFacts DEF TokenRows, Minted
<1>7. Minted'
  <2>1. ASSUME NEW v \in Workspaces, NEW f \in Emails, invite'[<<v, f>>] # None
        PROVE  /\ offer'[invite'[<<v, f>>]] \in Offers
               /\ offer'[invite'[<<v, f>>]].workspace = v
               /\ offer'[invite'[<<v, f>>]].email = f
    <3>1. CASE <<v, f>> = <<w, e>>
      <4>1. invite'[<<v, f>>] = k /\ v = w /\ f = e
        BY <1>1, <1>2, <3>1 DEF TypeOK
      <4> QED BY <1>2, <1>5, <4>1
    <3>2. CASE <<v, f>> # <<w, e>>
      <4>1. invite'[<<v, f>>] = invite[<<v, f>>]
        BY <1>2, <3>2 DEF TypeOK
      <4>2. invite[<<v, f>>] \in Tokens
        BY <2>1, <4>1 DEF TypeOK
      <4> QED BY <1>4, <2>1, <4>1, <4>2 DEF TokenRows, Minted
    <3> QED BY <3>1, <3>2
  <2>2. \A f \in Emails : account'[f].token # None => offer'[account'[f].token] \in Offers
    BY <1>3, <1>4, <1>6
  <2>3. \A t \in handed' : offer'[t] \in Offers
    BY <1>3, <1>4 DEF TokenRows, Minted, TypeOK
  <2>4. ASSUME NEW q \in Requests, pc'[q] = "answer"
        PROVE  offer'[op'[q].token] \in Offers
    <3>1. CASE q = r
      BY <1>2, <1>5, <3>1 DEF TypeOK
    <3>2. CASE q # r
      <4>1. pc[q] = "answer" /\ op'[q] = op[q]
        BY <1>2, <1>3, <2>4, <3>2 DEF Goto, TypeOK
      <4>2. op[q].token \in Tokens
        BY <4>1, OpFields DEF Control, KindOK
      <4> QED BY <1>4, <4>1, <4>2 DEF TokenRows, Minted
    <3> QED BY <3>1, <3>2
  <2> QED BY <2>1, <2>2, <2>3, <2>4 DEF Minted
<1>8. MintedStayGood'
  <2> SUFFICES ASSUME NEW t \in Tokens \ expired, offer'[t] \in Offers,
                      ~ \E f \in Emails : account[f].token = t
               PROVE  invite'[<<offer'[t].workspace, offer'[t].email>>] = t
    BY <1>3 DEF MintedStayGood
  <2>1. CASE t = k
    BY <1>1, <1>2, <1>5, <2>1 DEF TypeOK
  <2>2. CASE t # k
    <3>1. offer'[t] = offer[t]
      BY <1>2, <2>2 DEF TypeOK
    <3>2. invite[<<offer[t].workspace, offer[t].email>>] = t
      BY <3>1 DEF TokenRows, MintedStayGood
    <3>3. t # None
      BY AccountsAssumption
    <3>4. <<offer[t].workspace, offer[t].email>> # <<w, e>>
      BY <1>1, <3>2, <3>3 DEF Mintable
    <3>5. offer[t].workspace \in Workspaces /\ offer[t].email \in Emails
      BY <3>1 DEF Offers
    <3> QED BY <1>2, <3>1, <3>2, <3>4, <3>5 DEF TypeOK
  <2> QED BY <2>1, <2>2
<1>9. RegistrationsComplete'
  <2> SUFFICES ASSUME NEW f \in Emails
      PROVE /\ account[f].via = "open" => member[<<f, f>>] = "owner"
            /\ account[f].via = "invite" =>
                /\ offer'[account[f].token].email = f
                /\ member[<<offer'[account[f].token].workspace, f>>] = offer'[account[f].token].role
                /\ \A g \in Emails \ {f} : account[g].token # account[f].token
                /\ \A p \in DOMAIN invite' : invite'[p] # account[f].token
    BY <1>3 DEF RegistrationsComplete
  <2>1. account[f].via = "open" => member[<<f, f>>] = "owner"
    BY DEF TokenRows, RegistrationsComplete
  <2>2. ASSUME account[f].via = "invite"
        PROVE  /\ offer'[account[f].token].email = f
               /\ member[<<offer'[account[f].token].workspace, f>>] = offer'[account[f].token].role
               /\ \A g \in Emails \ {f} : account[g].token # account[f].token
               /\ \A p \in DOMAIN invite' : invite'[p] # account[f].token
    <3> DEFINE t == account[f].token
    <3>1. t \in Tokens /\ t # None
      BY <2>2, AccountFacts, AccountsAssumption
    <3>2. offer'[t] = offer[t] /\ t # k
      BY <1>4, <1>6, <3>1
    <3>3. /\ offer[t].email = f
          /\ member[<<offer[t].workspace, f>>] = offer[t].role
          /\ \A g \in Emails \ {f} : account[g].token # t
          /\ \A p \in DOMAIN invite : invite[p] # t
      BY <2>2 DEF TokenRows, RegistrationsComplete
    <3>4. \A p \in DOMAIN invite' : invite'[p] # t
      BY <1>2, <3>2, <3>3 DEF TypeOK
    <3> QED BY <3>2, <3>3, <3>4
  <2> QED BY <2>1, <2>2
<1> QED BY <1>7, <1>8, <1>9 DEF TokenRows

(* Adding a registered person changes no role somebody has. *)
LEMMA AddMemberRows ==
    ASSUME TypeOK, Control, TokenRows, [Next]_vars, NEW r \in Requests, AddMember(r)
    PROVE  TokenRows'
<1> DEFINE p == <<op[r].workspace, op[r].email>>
<1>1. /\ UNCHANGED <<account, invite, expired, offer, handed>>
      /\ \A q \in Workspaces \X Emails : member[q] # Absent => member'[q] = member[q]
  BY DEF AddMember, TypeOK
<1>2. Minted'
  <2>1. \A q \in Requests : ~MintInvite(q)
    BY <1>1, MintedOffer DEF Control
  <2>2. \A q \in Requests : pc'[q] = "answer" => offer'[op'[q].token] \in Offers
    BY <1>1, <2>1, MintedAnswers DEF TokenRows
  <2> QED BY <1>1, <2>2 DEF TokenRows, Minted
<1>3. MintedStayGood'
  BY <1>1 DEF TokenRows, MintedStayGood
<1>4. RegistrationsComplete'
  <2>1. \A f \in Emails : account[f].via = "open" => member'[<<f, f>>] = "owner"
    BY <1>1 DEF TokenRows, RegistrationsComplete
  <2>2. ASSUME NEW f \in Emails, account[f].via = "invite"
        PROVE  member'[<<offer[account[f].token].workspace, f>>] = offer[account[f].token].role
    <3> DEFINE o == offer[account[f].token]
    <3>1. account[f].token \in Tokens /\ account[f].token # None
      BY <2>2, AccountFacts, AccountsAssumption
    <3>2. o \in Offers
      BY <3>1 DEF TokenRows, Minted
    <3>3. o.workspace \in Workspaces /\ o.role # Absent
      BY <3>2, AccountsAssumption DEF Offers
    <3>4. member[<<o.workspace, f>>] = o.role
      BY <2>2 DEF TokenRows, RegistrationsComplete
    <3> QED BY <1>1, <3>3, <3>4
  <2> QED BY <1>1, <2>1, <2>2 DEF TokenRows, RegistrationsComplete
<1> QED BY <1>2, <1>3, <1>4 DEF TokenRows

(* The seed runs before there is a token; so no step undoes what tokens promise. *)
LEMMA TokenStep ==
    TypeOK /\ Control /\ SeedInOrder /\ TokenRows /\ [Next]_vars => TokenRows'
<1> SUFFICES ASSUME TypeOK, Control, SeedInOrder, TokenRows, [Next]_vars PROVE TokenRows'
  OBVIOUS
<1> USE DEF TokenRows
<1>1. CASE UNCHANGED rows
  <2>1. \A q \in Requests : ~MintInvite(q)
    BY <1>1, MintedOffer DEF Control, rows
  <2>2. \A q \in Requests : pc'[q] = "answer" => offer'[op'[q].token] \in Offers
    BY <1>1, <2>1, MintedAnswers DEF rows
  <2> QED BY <1>1, <2>2 DEF rows, Minted, MintedStayGood, RegistrationsComplete
<1>2. CASE SeedStatement
  <2>1. /\ UNCHANGED <<invite, expired, offer, handed, pc, op>>
        /\ \/ account' = account
           \/ account' = [account EXCEPT ![Demo] = [via |-> "seed", token |-> None]]
    BY <1>2 DEF SeedStatement, local
  <2>2. \A e \in Emails : account[e].via \in {"none", "seed"} /\ account[e].token = None
    BY <1>2, AccountFacts DEF SeedStatement, SeedInOrder
  <2>3. \A e \in Emails : account'[e].via \in {"none", "seed"} /\ account'[e].token = None
    <3> SUFFICES ASSUME NEW e \in Emails
                 PROVE  account'[e].via \in {"none", "seed"} /\ account'[e].token = None
      OBVIOUS
    <3>1. CASE account' = account
      BY <2>2, <3>1
    <3>2. CASE account' = [account EXCEPT ![Demo] = [via |-> "seed", token |-> None]]
      <4>1. account'[e] \in {account[e], [via |-> "seed", token |-> None]}
        BY <3>2 DEF TypeOK
      <4> QED BY <2>2, <4>1
    <3> QED BY <2>1, <3>1, <3>2
  <2>4. RegistrationsComplete'
    BY <2>3 DEF RegistrationsComplete
  <2>5. Minted'
    BY <2>1, <2>3 DEF Minted
  <2>6. MintedStayGood'
    BY <2>1, <2>2, AccountsAssumption DEF MintedStayGood
  <2> QED BY <2>4, <2>5, <2>6
<1>3. ASSUME NEW k \in Tokens, Expire(k) PROVE TokenRows'
  BY <1>3 DEF Expire, Minted, MintedStayGood, RegistrationsComplete
<1>4. ASSUME NEW r \in Requests, Answer(r) PROVE TokenRows'
  <2>1. /\ UNCHANGED <<account, member, invite, expired, offer>>
        /\ handed' = handed \cup {op[r].token} /\ pc[r] = "answer"
    BY <1>4 DEF Answer
  <2>2. \A q \in Requests : ~MintInvite(q)
    BY <2>1, MintedOffer DEF Control
  <2>3. \A q \in Requests : pc'[q] = "answer" => offer'[op'[q].token] \in Offers
    BY <2>1, <2>2, MintedAnswers
  <2> QED BY <2>1, <2>3 DEF Minted, MintedStayGood, RegistrationsComplete
<1>5. CASE UNCHANGED vars
  BY <1>1, <1>5 DEF vars, rows
<1> QED BY <1>1, <1>2, <1>3, <1>4, <1>5, RowWriters, CommitRows, MintRows, AddMemberRows

-----------------------------------------------------------------------------
(* The limiter: what is let through in a stretch of time. *)

(* The limiter's constants. *)
LEMMA Limits ==
    /\ MaxAttempts \in Nat /\ MaxAttempts > 0
    /\ Window \in Nat /\ Window > 0
    /\ MaxTime \in Nat
BY AccountsAssumption

(* Sums of attempts. *)
LEMMA Attempts ==
    ASSUME NEW f \in [0..MaxTime -> Nat]
    PROVE  /\ \A a \in Int : Since(f, a) \in Nat
           /\ \A a, b \in Int : Between(f, a, b) \in Nat
           /\ \A a, b \in Int, s \in Int : a >= s => Between(f, a, b) <= Since(f, s)
           /\ \A a, b, a2, b2 \in Int : a2 <= a /\ b <= b2 => Between(f, a, b) <= Between(f, a2, b2)
           /\ \A a, b, s \in Int : Between(f, a, b) <= Between(f, a, s) + Since(f, s)
<1> DEFINE From(a) == {u \in 0..MaxTime : u >= a}
           Part(a, b) == {u \in 0..MaxTime : u >= a /\ u < b}
<1>1. \A T \in SUBSET (0..MaxTime) : IsFiniteSet(T) /\ \A u \in T : f[u] \in Nat
  <2>1. IsFiniteSet(0..MaxTime)
    BY Limits, FS_Interval
  <2> QED BY <2>1, FS_Subset
<1>2. \A T \in SUBSET (0..MaxTime) : SumOf(f, T) \in Nat
  BY <1>1, SumNat
<1>3. \A T \in SUBSET (0..MaxTime), U \in SUBSET (0..MaxTime) :
        T \subseteq U => SumOf(f, T) <= SumOf(f, U)
  BY <1>1, SumMonotone
<1>4. \A T \in SUBSET (0..MaxTime), U \in SUBSET (0..MaxTime) :
        SumOf(f, T \cup U) <= SumOf(f, T) + SumOf(f, U)
  <2> SUFFICES ASSUME NEW T \in SUBSET (0..MaxTime), NEW U \in SUBSET (0..MaxTime)
               PROVE  SumOf(f, T \cup U) <= SumOf(f, T) + SumOf(f, U)
    OBVIOUS
  <2>1. \A u \in T \cup U : f[u] \in Nat
    OBVIOUS
  <2> QED BY <1>1, <2>1, SumUnion
<1>5. /\ \A a \in Int : From(a) \in SUBSET (0..MaxTime)
      /\ \A a, b \in Int : Part(a, b) \in SUBSET (0..MaxTime)
  OBVIOUS
<1>6. \A a, b \in Int, s \in Int : a >= s => Part(a, b) \subseteq From(s)
  OBVIOUS
<1>7. \A a, b, a2, b2 \in Int : a2 <= a /\ b <= b2 => Part(a, b) \subseteq Part(a2, b2)
  OBVIOUS
<1>8. \A a, b, s \in Int : Part(a, b) \subseteq Part(a, s) \cup From(s)
  OBVIOUS
<1>9. /\ \A a : Since(f, a) = SumOf(f, From(a))
      /\ \A a, b : Between(f, a, b) = SumOf(f, Part(a, b))
  BY DEF Since, Between
<1> HIDE DEF From, Part
<1>10. \A a, b, s \in Int : Between(f, a, b) <= Between(f, a, s) + Since(f, s)
  <2> SUFFICES ASSUME NEW a \in Int, NEW b \in Int, NEW s \in Int
               PROVE  Between(f, a, b) <= Between(f, a, s) + Since(f, s)
    OBVIOUS
  <2> DEFINE T == Part(a, s)  U == From(s)  B == Part(a, b)
  <2>1. T \in SUBSET (0..MaxTime) /\ U \in SUBSET (0..MaxTime) /\ B \in SUBSET (0..MaxTime)
        /\ B \subseteq T \cup U
    BY <1>5, <1>8
  <2>2. /\ Between(f, a, b) = SumOf(f, B) /\ Between(f, a, s) = SumOf(f, T)
        /\ Since(f, s) = SumOf(f, U)
    BY <1>9
  <2> HIDE DEF T, U, B
  <2>3. T \cup U \in SUBSET (0..MaxTime)
    BY <2>1
  <2>4. SumOf(f, B) <= SumOf(f, T \cup U) /\ SumOf(f, T \cup U) <= SumOf(f, T) + SumOf(f, U)
    BY <1>3, <1>4, <2>1, <2>3
  <2>5. SumOf(f, B) \in Nat /\ SumOf(f, T) \in Nat /\ SumOf(f, U) \in Nat
        /\ SumOf(f, T \cup U) \in Nat
    BY <1>2, <2>1, <2>3
  <2> QED BY <2>2, <2>4, <2>5
<1>11. /\ \A a \in Int : Since(f, a) \in Nat
       /\ \A a, b \in Int : Between(f, a, b) \in Nat
  BY <1>2, <1>5, <1>9
<1>12. \A a, b \in Int, s \in Int : a >= s => Between(f, a, b) <= Since(f, s)
  BY <1>3, <1>5, <1>6, <1>9
<1>13. \A a, b, a2, b2 \in Int : a2 <= a /\ b <= b2 => Between(f, a, b) <= Between(f, a2, b2)
  BY <1>3, <1>5, <1>7, <1>9
<1> QED BY <1>10, <1>11, <1>12, <1>13

(* These sums are natural numbers. *)
LEMMA SinceNat ==
    ASSUME NEW f \in [0..MaxTime -> Nat], NEW a \in Int
    PROVE  Since(f, a) \in Nat
BY Attempts

(* Between two times too. *)
LEMMA BetweenNat ==
    ASSUME NEW f \in [0..MaxTime -> Nat], NEW a \in Int, NEW b \in Int
    PROVE  Between(f, a, b) \in Nat
BY Attempts

(* One more attempt at time n is one more since every time before it, and *)
(* changes nothing in a stretch without n.                                 *)
LEMMA OneAttempt ==
    ASSUME NEW f \in [0..MaxTime -> Nat], NEW n \in 0..MaxTime, NEW g, OneMore(f, g, n, 0..MaxTime),
           NEW T \in SUBSET (0..MaxTime)
    PROVE  SumOf(g, T) = IF n \in T THEN SumOf(f, T) + 1 ELSE SumOf(f, T)
<1>1. IsFiniteSet(0..MaxTime)
  BY Limits, FS_Interval
<1>2. IsFiniteSet(T) /\ OneMore(f, g, n, T)
  BY <1>1, FS_Subset DEF OneMore
<1> QED BY <1>2, SumOneMore

(* An attempt at time n counts since every time up to n. *)
LEMMA OneMoreSince ==
    ASSUME NEW f \in [0..MaxTime -> Nat], NEW n \in 0..MaxTime, NEW g, OneMore(f, g, n, 0..MaxTime),
           NEW a \in Int, a <= n
    PROVE  Since(g, a) = Since(f, a) + 1
<1> DEFINE T == {u \in 0..MaxTime : u >= a}
<1>1. T \in SUBSET (0..MaxTime) /\ n \in T
  BY Limits
<1> HIDE DEF T
<1>2. SumOf(g, T) = SumOf(f, T) + 1
  BY <1>1, OneAttempt
<1> QED BY <1>2 DEF Since, T

(* It does not count in a stretch without n. *)
LEMMA SameBetween ==
    ASSUME NEW f \in [0..MaxTime -> Nat], NEW n \in 0..MaxTime, NEW g, OneMore(f, g, n, 0..MaxTime),
           NEW a \in Int, NEW b \in Int, n < a \/ n >= b
    PROVE  Between(g, a, b) = Between(f, a, b)
<1> DEFINE T == {u \in 0..MaxTime : u >= a /\ u < b}
<1>1. T \in SUBSET (0..MaxTime) /\ n \notin T
  BY Limits
<1> HIDE DEF T
<1>2. SumOf(g, T) = SumOf(f, T)
  BY <1>1, OneAttempt
<1> QED BY <1>2 DEF Between, T

(* Where no attempt was let through, none is counted. *)
LEMMA NoAttempt ==
    ASSUME NEW f \in [0..MaxTime -> Nat], NEW a \in Int, \A u \in 0..MaxTime : u >= a => f[u] = 0
    PROVE  Since(f, a) = 0
<1> DEFINE T == {u \in 0..MaxTime : u >= a}
<1>1. IsFiniteSet(T) /\ \A u \in T : f[u] = 0
  <2>1. IsFiniteSet(0..MaxTime) /\ T \subseteq 0..MaxTime
    BY Limits, FS_Interval
  <2> QED BY <2>1, FS_Subset
<1> HIDE DEF T
<1>2. SumOf(f, T) = 0
  BY <1>1, SumZero
<1> QED BY <1>2 DEF Since, T

(* An attempt after the window of an entry sees fewer than MaxAttempts in its own. *)
LEMMA WindowOver ==
    ASSUME NEW f \in [0..MaxTime -> Nat], NEW s \in 0..MaxTime, NEW k \in Nat,
           NEW n \in 0..MaxTime, EntryOK(f, s, k, n), n - s >= Window \/ k = 0
    PROVE  Since(f, n) = 0 /\ Between(f, n - Window + 1, n) < MaxAttempts
<1> USE Limits
<1>1. \A u \in 0..MaxTime : u >= n => f[u] = 0
  BY DEF EntryOK
<1>2. Since(f, n) = 0
  BY <1>1, NoAttempt
<1>3. CASE k = 0
  <2>1. \A u \in 0..MaxTime : u >= 0 => f[u] = 0
    BY <1>3 DEF EntryOK
  <2>2. Since(f, 0) = 0
    BY <2>1, NoAttempt
  <2>3. Between(f, n - Window + 1, n) <= Between(f, n - Window + 1, 0) + Since(f, 0)
    BY Attempts
  <2>4. Between(f, n - Window + 1, 0) = 0
    <3>1. {u \in 0..MaxTime : u >= n - Window + 1 /\ u < 0} = {}
      OBVIOUS
    <3>2. SumOf(f, {}) = 0
      BY SumZero, FS_EmptySet
    <3> QED BY <3>1, <3>2 DEF Between
  <2>5. Between(f, n - Window + 1, n) \in Nat
    BY BetweenNat
  <2> QED BY <1>2, <2>2, <2>3, <2>4, <2>5
<1>4. CASE k > 0 /\ n - s >= Window
  <2> DEFINE All == {u \in 0..MaxTime : u >= s}
             T == {u \in 0..MaxTime : u >= n - Window + 1 /\ u < n}
  <2>1. /\ All \in SUBSET (0..MaxTime) /\ s \in All /\ T \subseteq All \ {s}
        /\ IsFiniteSet(All) /\ IsFiniteSet(All \ {s})
        /\ \A u \in All : f[u] \in Nat
    <3>1. s \in 0..MaxTime /\ All \in SUBSET (0..MaxTime) /\ s \in All
      OBVIOUS
    <3>2. T \subseteq All \ {s}
      BY <1>4
    <3>3. IsFiniteSet(0..MaxTime)
      BY FS_Interval
    <3> QED BY <3>1, <3>2, <3>3, FS_Subset
  <2>2. /\ Since(f, s) <= MaxAttempts
        /\ f[s] > 0 \/ (f[s] = 0 /\ Since(f, s) < MaxAttempts)
    BY <1>4 DEF EntryOK
  <2>3. Since(f, s) = SumOf(f, All) /\ Between(f, n - Window + 1, n) = SumOf(f, T)
    BY DEF Since, Between
  <2> HIDE DEF All, T
  <2>4. SumOf(f, All) = f[s] + SumOf(f, All \ {s})
    BY <2>1, SumRemove
  <2>5. SumOf(f, T) <= SumOf(f, All \ {s})
    BY <2>1, SumMonotone
  <2>6. f[s] \in Nat /\ SumOf(f, All \ {s}) \in Nat /\ SumOf(f, T) \in Nat
    <3>1. IsFiniteSet(T) /\ \A u \in T : f[u] \in Nat
      BY <2>1, FS_Subset
    <3> QED BY <2>1, <3>1, SumNat
  <2> QED BY <1>2, <2>2, <2>3, <2>4, <2>5, <2>6
<1> QED BY <1>3, <1>4

(* Somebody else's first attempt of a window leaves the address's own as they are. *)
LEMMA OthersFirst ==
    ASSUME NEW f \in [0..MaxTime -> Nat], NEW s \in 0..MaxTime, NEW k \in Nat,
           NEW n \in 0..MaxTime, EntryOK(f, s, k, n), n - s >= Window \/ k = 0
    PROVE  EntryOK(f, n, 1, n)
<1>1. Since(f, n) = 0 /\ Between(f, n - Window + 1, n) < MaxAttempts
  BY WindowOver
<1>2. \A u \in 0..MaxTime : u > n => f[u] = 0
  BY DEF EntryOK
<1> QED BY <1>1, <1>2, Limits DEF EntryOK

(* The first attempt of a window is let through. *)
LEMMA FirstAttempt ==
    ASSUME NEW f \in [0..MaxTime -> Nat], NEW s \in 0..MaxTime, NEW k \in Nat,
           NEW n \in 0..MaxTime, EntryOK(f, s, k, n), n - s >= Window \/ k = 0,
           NEW g \in [0..MaxTime -> Nat], OneMore(f, g, n, 0..MaxTime)
    PROVE  EntryOK(g, n, 1, n)
<1>0. n \in Int /\ n <= n /\ n - Window + 1 \in Int
  BY Limits
<1>1. Since(f, n) = 0 /\ Between(f, n - Window + 1, n) < MaxAttempts
  BY WindowOver
<1>2. Since(g, n) = 1
  <2>1. Since(g, n) = Since(f, n) + 1
    BY <1>0, OneMoreSince
  <2> QED BY <1>1, <2>1
<1>3. Between(g, n - Window + 1, n) = Between(f, n - Window + 1, n)
  BY <1>0, SameBetween
<1>4. \A u \in 0..MaxTime : u > n => g[u] = 0
  BY <1>0 DEF EntryOK, OneMore
<1>5. g[n] > 0
  BY DEF OneMore
<1> QED BY <1>0, <1>1, <1>2, <1>3, <1>4, <1>5, Limits DEF EntryOK

(* A further one is, while it is within the limit. *)
LEMMA FurtherAttempt ==
    ASSUME NEW f \in [0..MaxTime -> Nat], NEW s \in 0..MaxTime, NEW k \in Nat,
           NEW n \in 0..MaxTime, EntryOK(f, s, k, n), n - s < Window, k > 0, k + 1 <= MaxAttempts,
           NEW g \in [0..MaxTime -> Nat], OneMore(f, g, n, 0..MaxTime)
    PROVE  EntryOK(g, s, k + 1, n)
<1>0. s \in Int /\ n \in Int /\ s - Window + 1 \in Int
  BY Limits
<1>1. /\ s <= n /\ Since(f, s) <= k /\ Between(f, s - Window + 1, s) < MaxAttempts
      /\ f[s] = 0 => Since(f, s) < k
  BY DEF EntryOK
<1>2. Since(g, s) = Since(f, s) + 1
  BY <1>0, <1>1, OneMoreSince
<1>3. Between(g, s - Window + 1, s) = Between(f, s - Window + 1, s)
  BY <1>0, <1>1, SameBetween
<1>4. Since(f, s) \in Nat
  BY <1>0, SinceNat
<1>5. \A u \in 0..MaxTime : u > n \/ u >= s + Window => g[u] = 0
  BY <1>0, Limits DEF EntryOK, OneMore
<1>6. g[s] = 0 => Since(f, s) < k
  BY <1>1 DEF OneMore
<1> QED BY <1>0, Limits, <1>1, <1>2, <1>3, <1>4, <1>5, <1>6 DEF EntryOK

(* One beyond the limit is counted, and so is somebody else's. *)
LEMMA RefusedAttempt ==
    ASSUME NEW f \in [0..MaxTime -> Nat], NEW s \in 0..MaxTime, NEW k \in Nat,
           NEW n \in 0..MaxTime, EntryOK(f, s, k, n), k > 0
    PROVE  EntryOK(f, s, k + 1, n)
<1>1. Since(f, s) \in Nat
  BY Limits, SinceNat
<1> QED BY <1>1 DEF EntryOK

(* A stretch that reaches into the window of an entry: fewer than MaxAttempts  *)
(* before the window begins, at most MaxAttempts from then on.                 *)
LEMMA Recent ==
    ASSUME NEW f \in [0..MaxTime -> Nat], NEW s \in 0..MaxTime, NEW k \in Nat,
           NEW n \in 0..MaxTime, EntryOK(f, s, k, n), NEW t \in 0..MaxTime, t + Window > s
    PROVE  Between(f, t, t + Window) <= 2 * MaxAttempts - 1
<1> USE Limits
<1>1. Since(f, s) <= MaxAttempts /\ Between(f, s - Window + 1, s) < MaxAttempts
  BY DEF EntryOK
<1>2. Between(f, t, t + Window) <= Between(f, t, s) + Since(f, s)
  BY Attempts
<1>3. Between(f, t, s) <= Between(f, s - Window + 1, s)
  BY Attempts
<1>i. s \in Int /\ t \in Int /\ t + Window \in Int /\ s - Window + 1 \in Int
  OBVIOUS
<1>4. /\ Between(f, t, t + Window) \in Nat /\ Between(f, t, s) \in Nat
      /\ Between(f, s - Window + 1, s) \in Nat /\ Since(f, s) \in Nat
  BY <1>i, SinceNat, BetweenNat
<1> QED BY <1>1, <1>2, <1>3, <1>4

(* LimiterHolds in these terms. *)
LEMMA LimiterAsSum ==
    LimiterHolds <=>
      \A a \in Addresses, t \in 0..MaxTime : ~ChoosesEntry(a) =>
        Between(admitted[a], t, t + Window) <= 2 * MaxAttempts - 1
BY DEF LimiterHolds, Between, SumOf

(* The same in the next state. *)
LEMMA LimiterThen ==
    ASSUME cfg' = cfg
    PROVE  LimiterHolds' <=>
             \A a \in Addresses, t \in 0..MaxTime : ~ChoosesEntry(a) =>
               Between(admitted'[a], t, t + Window) <= 2 * MaxAttempts - 1
<1>1. LimiterHolds' <=>
        (\A a \in Addresses, t \in 0..MaxTime : ~ChoosesEntry(a) =>
           Between(admitted[a], t, t + Window) <= 2 * MaxAttempts - 1)'
  BY LimiterAsSum, PTL
<1>2. \A a : ChoosesEntry(a)' <=> ChoosesEntry(a)
  BY DEF ChoosesEntry
<1> QED BY <1>1, <1>2

(* Before anybody has tried. *)
LEMMA NobodyYet ==
    ASSUME NEW c \in Addresses
    PROVE  /\ EntryOK(NobodyAdmitted[c], NoEntries[c].start, NoEntries[c].count, 0)
           /\ \A t \in 0..MaxTime :
                Between(NobodyAdmitted[c], t, t + Window) <= 2 * MaxAttempts - 1
<1> USE Limits
<1> DEFINE f == NobodyAdmitted[c]
<1>1. f \in [0..MaxTime -> Nat] /\ (\A u \in 0..MaxTime : f[u] = 0) /\ NoEntries[c] = NoEntry
  BY DEF NobodyAdmitted, NoEntries
<1> HIDE DEF f
<1>2. Since(f, 0) = 0
  BY <1>1, NoAttempt
<1>3. ASSUME NEW a \in Int PROVE Between(f, a, 0) = 0
  <2>1. {u \in 0..MaxTime : u >= a /\ u < 0} = {}
    OBVIOUS
  <2>2. SumOf(f, {}) = 0
    BY SumZero, FS_EmptySet
  <2> QED BY <2>1, <2>2 DEF Between
<1>4. ASSUME NEW t \in 0..MaxTime PROVE Between(f, t, t + Window) <= 2 * MaxAttempts - 1
  <2>1. Between(f, t, t + Window) <= Between(f, t, 0) + Since(f, 0)
    BY <1>1, Attempts
  <2>2. Between(f, t, t + Window) \in Nat
    BY <1>1, BetweenNat
  <2> QED BY <1>2, <1>3, <2>1, <2>2
<1>5. EntryOK(f, NoEntry.start, NoEntry.count, 0)
  <2>1. NoEntry.start = 0 /\ NoEntry.count = 0 /\ Between(f, 0 - Window + 1, 0) = 0
    BY <1>3 DEF NoEntry
  <2> QED BY <1>1, <1>2, <2>1 DEF EntryOK
<1> QED BY <1>1, <1>4, <1>5 DEF f

(* Only an attempt, the clock and a stop touch the limiter; nothing changes cfg. *)
LEMMA LimiterSteps ==
    ASSUME [Next]_vars
    PROVE  /\ cfg' = cfg
           /\ \/ UNCHANGED limiter
              \/ Tick \/ Crash
              \/ \E r \in Requests, via \in Connections : \E o : Attempt(r, via, o)
<1>1. CASE UNCHANGED vars
  BY <1>1 DEF vars, server
<1>2. CASE Start \/ SeedStatement \/ Crash \/ Tick \/ \E k \in Tokens : Expire(k)
  BY <1>2 DEF Start, SeedStatement, Expire, Crash, Tick, server
<1>3. ASSUME NEW r \in Requests, Serve(r) \/ Abandon(r)
      PROVE  cfg' = cfg /\ UNCHANGED limiter
  BY <1>3 DEF Serve, Abandon, Check, Refuse, TakePermit, Hashed, BeginTx, LockRegistration, Recount,
     InsertUser, EmailTaken, ClaimInvite, InviteGone, CommitRegistration, FindUser, Unauthorized,
     Verified, FindInvitee, AddMember, MintInvite, AlreadyInvited, Answer, server
<1>4. ASSUME NEW r \in Requests, Begin(r)
      PROVE  /\ cfg' = cfg
             /\ UNCHANGED limiter \/ \E via \in Connections : \E o : Attempt(r, via, o)
  BY <1>4 DEF Begin, BeginInvite, Attempt, server
<1> QED BY <1>1, <1>2, <1>3, <1>4 DEF Next

(* An attempt, as one address sees it: counted there or not, its own or not.    *)
(* f and g are the address's attempts before and after, <<s, k>> its entry.       *)
CountedOnce(f, g, s, k, e, n) ==
    /\ \/ e.start = n /\ e.count = 1 /\ (n - s >= Window \/ k = 0)
       \/ e.start = s /\ e.count = k + 1 /\ n - s < Window /\ k > 0
    /\ g = f \/ (e.count <= MaxAttempts /\ OneMore(f, g, n, 0..MaxTime))

(* It leaves the entry of that address as it should be, and its attempts few. *)
LEMMA AttemptKeeps ==
    ASSUME NEW f \in [0..MaxTime -> Nat], NEW g \in [0..MaxTime -> Nat],
           NEW s \in 0..MaxTime, NEW k \in Nat, NEW n \in 0..MaxTime, NEW e,
           EntryOK(f, s, k, n), CountedOnce(f, g, s, k, e, n),
           \A t \in 0..MaxTime : Between(f, t, t + Window) <= 2 * MaxAttempts - 1
    PROVE  /\ EntryOK(g, e.start, e.count, n)
           /\ \A t \in 0..MaxTime : Between(g, t, t + Window) <= 2 * MaxAttempts - 1
<1>1. EntryOK(g, e.start, e.count, n) /\ e.start \in 0..MaxTime /\ e.count \in Nat
  <2>1. CASE e.start = n /\ e.count = 1 /\ (n - s >= Window \/ k = 0)
    <3>1. CASE g = f
      BY <2>1, <3>1, OthersFirst
    <3>2. CASE OneMore(f, g, n, 0..MaxTime)
      BY <2>1, <3>2, FirstAttempt
    <3> QED BY <3>1, <3>2 DEF CountedOnce
  <2>2. CASE e.start = s /\ e.count = k + 1 /\ n - s < Window /\ k > 0
    <3>1. CASE g = f
      BY <2>2, <3>1, RefusedAttempt
    <3>2. CASE e.count <= MaxAttempts /\ OneMore(f, g, n, 0..MaxTime)
      BY <2>2, <3>2, FurtherAttempt
    <3> QED BY <3>1, <3>2 DEF CountedOnce
  <2> QED BY <2>1, <2>2 DEF CountedOnce
<1>2. ASSUME NEW t \in 0..MaxTime PROVE Between(g, t, t + Window) <= 2 * MaxAttempts - 1
  <2>1. Between(f, t, t + Window) <= 2 * MaxAttempts - 1
    OBVIOUS
  <2>2. e.start <= n
    BY <1>1 DEF EntryOK
  <2>3. CASE t + Window > e.start
    BY <1>1, <2>3, Recent
  <2>4. CASE t + Window <= e.start
    <3>1. n >= t + Window /\ t \in Int /\ t + Window \in Int
      BY <1>1, <2>2, <2>4, Limits
    <3>2. CASE g = f
      BY <2>1, <3>2
    <3>3. CASE OneMore(f, g, n, 0..MaxTime)
      BY <2>1, <3>1, <3>3, SameBetween
    <3> QED BY <3>2, <3>3 DEF CountedOnce
  <2> QED BY <1>1, <2>3, <2>4, Limits
<1> QED BY <1>1, <1>2

(* The entry of the address an attempt is counted by. *)
LEMMA CountedEntry ==
    ASSUME TypeOK, NEW a \in Addresses, window[a].count = 0 => window[a].start = 0
    PROVE  LET e == Counted(a)  s == window[a].start  k == window[a].count IN
           \/ e.start = clock /\ e.count = 1 /\ (clock - s >= Window \/ k = 0)
           \/ e.start = s /\ e.count = k + 1 /\ clock - s < Window /\ k > 0
<1> DEFINE s == window[a].start
           k == window[a].count
<1>1. window[a] \in [start : 0..MaxTime, count : 0..MaxAttempts + 1]
  BY DEF TypeOK
<1>2. s \in Nat /\ k \in Nat /\ clock \in Nat
  BY <1>1, Limits DEF TypeOK
<1>3. CASE clock - s >= Window
  BY <1>3 DEF Counted, Entry
<1>4. CASE clock - s < Window /\ k = 0
  <2>1. window[a] = NoEntry
    BY <1>1, <1>4 DEF NoEntry
  <2> QED BY <1>4, <2>1 DEF Counted, Entry
<1>5. CASE clock - s < Window /\ k > 0
  <2>1. window[a] # NoEntry
    BY <1>5 DEF NoEntry
  <2>2. Entry(a) = window[a]
    BY <1>2, <1>5, Limits DEF Entry
  <2>3. Counted(a) = [window[a] EXCEPT !.count = @ + 1]
    BY <2>1, <2>2 DEF Counted
  <2> QED BY <1>1, <1>5, <2>3
<1> QED BY <1>2, <1>3, <1>4, <1>5, Limits

(* An attempt of an address that does not choose its entry is counted there. *)
LEMMA OwnEntry ==
    ASSUME NEW via \in Connections, ~ChoosesEntry(Origin(via))
    PROVE  ClientIp(via.peer, via.header) = Origin(via)
BY AccountsAssumption DEF Connections, ChoosesEntry, Origin, ClientIp, Addresses

(* What an attempt does to the entry and the attempts of each address. *)
LEMMA AttemptSeen ==
    ASSUME TypeOK, TypeOK', EntriesOK, NEW r, NEW via \in Connections, NEW o, Attempt(r, via, o),
           NEW a \in Addresses, ~ChoosesEntry(a)
    PROVE  \/ admitted'[a] = admitted[a] /\ window'[a] = window[a]
           \/ CountedOnce(admitted[a], admitted'[a], window[a].start, window[a].count,
                          window'[a], clock)
<1> DEFINE ip == ClientIp(via.peer, via.header)
           who == Origin(via)
           e == Counted(ip)
<1>1. ip \in Addresses /\ who \in Addresses /\ (who = a => ip = a)
  BY Counting, OwnEntry
<1>2. window' = [window EXCEPT ![ip] = e]
  BY DEF Attempt
<1>3. \/ admitted' = admitted
      \/ e.count <= MaxAttempts /\ admitted' = [admitted EXCEPT ![who][clock] = @ + 1]
  <2>1. CASE Exceeded(e.count)
    BY <2>1 DEF Attempt
  <2>2. CASE ~Exceeded(e.count)
    <3>1. e.count \in Nat
      <4>1. window'[ip] = e
        BY <1>1, <1>2 DEF TypeOK
      <4>2. window'[ip] \in [start : 0..MaxTime, count : 0..MaxAttempts + 1]
        BY <1>1 DEF TypeOK
      <4>3. e.count \in 0..MaxAttempts + 1
        BY <4>1, <4>2
      <4> QED BY <4>3, Limits
    <3> QED BY <2>2, <3>1, Limits DEF Attempt, Exceeded
  <2> QED BY <2>1, <2>2
<1> HIDE DEF ip, who, e
<1>4. CASE ip # a
  <2>1. window'[a] = window[a]
    BY <1>2, <1>4 DEF TypeOK
  <2>2. admitted'[a] = admitted[a]
    BY <1>1, <1>3, <1>4 DEF TypeOK
  <2> QED BY <2>1, <2>2
<1>5. CASE ip = a
  <2>1. window'[a] = e
    BY <1>1, <1>2, <1>5 DEF TypeOK
  <2>2. window[a].count = 0 => window[a].start = 0
    BY DEF EntriesOK, EntryOK
  <2>3. \/ e.start = clock /\ e.count = 1
           /\ (clock - window[a].start >= Window \/ window[a].count = 0)
        \/ e.start = window[a].start /\ e.count = window[a].count + 1
           /\ clock - window[a].start < Window /\ window[a].count > 0
    BY <1>5, <2>2, CountedEntry DEF e
  <2>4. \/ admitted'[a] = admitted[a]
        \/ e.count <= MaxAttempts /\ OneMore(admitted[a], admitted'[a], clock, 0..MaxTime)
    <3>1. CASE admitted' = admitted \/ who # a
      BY <1>3, <3>1 DEF TypeOK
    <3>2. CASE e.count <= MaxAttempts /\ who = a
               /\ admitted' = [admitted EXCEPT ![who][clock] = @ + 1]
      <4>1. admitted[a] \in [0..MaxTime -> Nat] /\ clock \in 0..MaxTime
        BY DEF TypeOK
      <4>2. admitted'[a] = [admitted[a] EXCEPT ![clock] = @ + 1]
        BY <3>2 DEF TypeOK
      <4> QED BY <3>2, <4>1, <4>2 DEF OneMore
    <3> QED BY <1>3, <3>1, <3>2
  <2> QED BY <2>1, <2>3, <2>4 DEF CountedOnce
<1> QED BY <1>4, <1>5

(* No step lets an address through more often than the limiter promises. *)
LEMMA LimiterStep ==
    TypeOK /\ TypeOK' /\ EntriesOK /\ LimiterHolds /\ [Next]_vars => EntriesOK' /\ LimiterHolds'
<1> SUFFICES ASSUME TypeOK, TypeOK', EntriesOK, LimiterHolds, [Next]_vars
             PROVE  EntriesOK' /\ LimiterHolds'
  OBVIOUS
<1>0. cfg' = cfg /\ \A a \in Addresses : ChoosesEntry(a)' <=> ChoosesEntry(a)
  BY LimiterSteps DEF ChoosesEntry
<1>1. CASE UNCHANGED limiter
  <2>1. clock' = clock /\ window' = window /\ admitted' = admitted
    BY <1>1 DEF limiter
  <2>2. LimiterHolds'
    BY <1>0, <2>1, LimiterAsSum, LimiterThen
  <2> QED BY <1>0, <2>1, <2>2 DEF EntriesOK
<1>2. CASE Tick
  <2>1. window' = window /\ admitted' = admitted /\ clock' = clock + 1 /\ clock \in Nat
    BY <1>2 DEF Tick, TypeOK
  <2>2. LimiterHolds'
    BY <1>0, <2>1, LimiterAsSum, LimiterThen
  <2>3. ASSUME NEW a \in Addresses, ~ChoosesEntry(a)
        PROVE  EntryOK(admitted[a], window[a].start, window[a].count, clock + 1)
    <3>1. EntryOK(admitted[a], window[a].start, window[a].count, clock)
      BY <2>3 DEF EntriesOK
    <3>2. window[a].start \in Nat
      BY DEF TypeOK
    <3> QED BY <2>1, <3>1, <3>2 DEF EntryOK
  <2> QED BY <1>0, <2>1, <2>2, <2>3 DEF EntriesOK
<1>3. CASE Crash
  <2>1. clock' = 0 /\ window' = NoEntries /\ admitted' = NobodyAdmitted
    BY <1>3 DEF Crash
  <2>2. \A a \in Addresses : EntryOK(admitted'[a], window'[a].start, window'[a].count, clock')
    BY <2>1, NobodyYet
  <2>3. \A a \in Addresses, t \in 0..MaxTime :
          Between(admitted'[a], t, t + Window) <= 2 * MaxAttempts - 1
    BY <2>1, NobodyYet
  <2> QED BY <1>0, <2>2, <2>3, LimiterThen DEF EntriesOK
<1>4. ASSUME NEW r \in Requests, NEW via \in Connections, NEW o, Attempt(r, via, o)
      PROVE  EntriesOK' /\ LimiterHolds'
  <2>1. ASSUME NEW a \in Addresses, ~ChoosesEntry(a)
        PROVE  /\ EntryOK(admitted'[a], window'[a].start, window'[a].count, clock')
               /\ \A t \in 0..MaxTime :
                    Between(admitted'[a], t, t + Window) <= 2 * MaxAttempts - 1
    <3>1. EntryOK(admitted[a], window[a].start, window[a].count, clock)
      BY <2>1 DEF EntriesOK
    <3>2. \A t \in 0..MaxTime : Between(admitted[a], t, t + Window) <= 2 * MaxAttempts - 1
      BY <2>1, LimiterAsSum
    <3>3. /\ admitted[a] \in [0..MaxTime -> Nat] /\ admitted'[a] \in [0..MaxTime -> Nat]
          /\ clock \in 0..MaxTime /\ clock' = clock
      BY <1>4 DEF TypeOK, Attempt
    <3>4. window[a].start \in 0..MaxTime /\ window[a].count \in Nat
      <4>1. window[a] \in [start : 0..MaxTime, count : 0..MaxAttempts + 1]
        BY DEF TypeOK
      <4> QED BY <4>1, Limits
    <3>5. CASE admitted'[a] = admitted[a] /\ window'[a] = window[a]
      BY <3>1, <3>2, <3>3, <3>5
    <3>6. CASE CountedOnce(admitted[a], admitted'[a], window[a].start, window[a].count,
                           window'[a], clock)
      BY <3>1, <3>2, <3>3, <3>4, <3>6, AttemptKeeps
    <3> QED BY <1>4, <2>1, <3>5, <3>6, AttemptSeen
  <2>2. EntriesOK'
    BY <1>0, <2>1 DEF EntriesOK
  <2>3. LimiterHolds'
    BY <1>0, <2>1, LimiterThen
  <2> QED BY <2>2, <2>3
<1> QED BY <1>1, <1>2, <1>3, <1>4, LimiterSteps

-----------------------------------------------------------------------------
(* Before the first start nothing is stored and nobody is served. *)
LEMMA InitInv == Init => Inv
<1> SUFFICES ASSUME Init PROVE Inv
  OBVIOUS
<1>1. TypeOK
  BY InitType
<1>2. Control
  BY DEF Init, Control, KindOK, ServingOnly, LockedSinceCount, Inserted, ClaimHolds
<1>3. SeedInOrder /\ StartsAgain /\ OnlyFirstUser
  BY DEF Init, SeedInOrder, StartsAgain, OnlyFirstUser, Registered
<1>4. Minted
  BY DEF Init, Minted, NoAccount
<1>5. MintedStayGood
  BY AccountsAssumption DEF Init, MintedStayGood
<1>6. RegistrationsComplete
  BY DEF Init, RegistrationsComplete, NoAccount
<1>7. EntriesOK /\ LimiterHolds
  <2>1. clock = 0 /\ window = NoEntries /\ admitted = NobodyAdmitted
    BY DEF Init
  <2>2. /\ \A a \in Addresses : EntryOK(admitted[a], window[a].start, window[a].count, clock)
        /\ \A a \in Addresses, t \in 0..MaxTime :
             Between(admitted[a], t, t + Window) <= 2 * MaxAttempts - 1
    BY <2>1, NobodyYet
  <2> QED BY <2>2, LimiterAsSum DEF EntriesOK
<1> QED BY <1>1, <1>2, <1>3, <1>4, <1>5, <1>6, <1>7 DEF Inv, TokenRows

(* Inv is inductive. *)
LEMMA NextInv == Inv /\ [Next]_vars => Inv'
BY NextType, NextControl, SeedStep, FirstUserStep, TokenStep, LimiterStep DEF Inv, TokenRows

(* It holds in every reachable state. *)
THEOREM InvHolds == Spec => []Inv
BY InitInv, NextInv, PTL DEF Spec

(* Every variable keeps its type, for any addresses, tokens and requests. *)
THEOREM AccountsTypeOK == Spec => []TypeOK
<1>1. Inv => TypeOK
  BY DEF Inv
<1> QED BY <1>1, InvHolds, PTL

(* auth.rs:64: while registration is closed, however many first registrations  *)
(* race, nobody registers without an invite once there is any account.         *)
THEOREM OneFirstUser == Spec => []OnlyFirstUser
<1>1. Inv => OnlyFirstUser
  BY DEF Inv
<1> QED BY <1>1, InvHolds, PTL

(* workspace.rs:122: a token an admin was given stays redeemable until it       *)
(* expires or is redeemed, whatever invites and registrations run meanwhile.    *)
THEOREM TokensStayGood == Spec => []HandedTokensStayGood
<1>1. Inv => HandedTokensStayGood
  BY DEF Inv, TokenRows, Minted, MintedStayGood, HandedTokensStayGood, TypeOK
<1> QED BY <1>1, InvHolds, PTL

(* auth.rs:49: a registration leaves an owner of a new workspace, or a member    *)
(* with the offered role and an invite that is used up, and used once.           *)
THEOREM Registrations == Spec => []RegistrationsComplete
<1>1. Inv => RegistrationsComplete
  BY DEF Inv, TokenRows
<1> QED BY <1>1, InvHolds, PTL

(* seed.rs:38: wherever the server stopped in the seed, its next start does not  *)
(* fail on the rows it left.                                                     *)
THEOREM SeedNeverStuck == Spec => []StartsAgain
<1>1. Inv => StartsAgain
  BY DEF Inv
<1> QED BY <1>1, InvHolds, PTL

(* middleware.rs:45: no stretch of time as long as the window lets a client make   *)
(* more than 2 * MaxAttempts - 1 attempts, whatever header it sends and by which    *)
(* trusted proxy, unless its own address is within trusted_proxies; a server that   *)
(* trusts no proxy keeps every peer to that.  No proxy is assumed to be trusted.    *)
THEOREM LimiterKept == Spec => []LimiterHolds
<1>1. Inv => LimiterHolds
  BY DEF Inv
<1> QED BY <1>1, InvHolds, PTL
=============================================================================
