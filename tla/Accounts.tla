------------------------------- MODULE Accounts -------------------------------
(***************************************************************************)
(* How people get an account and a workspace: the demo seed of the first   *)
(* start (startup.rs, seed.rs), the limiter in front of the login          *)
(* endpoints (middleware.rs), register and login (auth.rs) and             *)
(* invite_member (workspace.rs).                                           *)
(*                                                                         *)
(* An account is named by its e-mail address, a workspace by the address   *)
(* of the account it was made for.  An action is one SQL statement, or a   *)
(* run of statements between which no other request makes a difference.    *)
(* A transaction's rows are applied when it commits; until then            *)
(* `newUser` and `claimed` hold the unique keys and rows it has taken.     *)
(* now() is the time a transaction began: a token is judged by `fresh`.    *)
(***************************************************************************)
EXTENDS Naturals, FiniteSets, FiniteSetsExt, Sequences

CONSTANTS
    Emails,      \* e-mail addresses, lower-cased and trimmed
    Demo,        \* the address of the seed's owner
    Tokens,      \* invite tokens: bounds how many invites are ever minted
    Offered,     \* the roles invites offer
    Requests,    \* slots for requests being served at the same time
    Clients,     \* the addresses of the people who try
    Proxies,     \* the addresses of the proxies, which put the client's in X-Real-IP
    Trusted,     \* trusted_proxies: the addresses whose X-Real-IP is believed
    MaxHashes,   \* MAX_CONCURRENT_PASSWORD_HASHES
    MaxAttempts, \* AUTH_RATE_LIMIT_MAX_ATTEMPTS
    Window,      \* AUTH_RATE_LIMIT_WINDOW
    MaxTime,     \* bound on the clock of a server's life
    MaxCrashes,  \* bound on how often the server stops
    None         \* no token, no workspace, no holder, no X-Real-IP that parses

(* What an invite offers: a role in a workspace to an address. *)
Offers == [workspace : Emails, email : Emails, role : Offered]

ASSUME AccountsAssumption ==
    /\ IsFiniteSet(Requests)
    /\ Demo \in Emails
    /\ Offered \subseteq {"admin", "member", "viewer"}
    /\ {MaxHashes, MaxAttempts, Window, MaxTime, MaxCrashes} \subseteq Nat
    /\ MaxHashes > 0 /\ MaxAttempts > 0 /\ Window > 0
    /\ None \notin Emails \cup Tokens \cup Requests \cup Clients \cup Proxies
    /\ None \notin Offers

VARIABLES
    cfg,      \* seed_demo, registration_enabled and trust_proxy
    boot,     \* whether the server is down, seeding, serving, or could not start
    step,     \* the seed statement that runs next
    seeded,   \* the tables the seed has filled
    crashes,  \* how often the server has stopped
    account,  \* the committed users: how each address got its account
    member,   \* the committed memberships: a role for each workspace and address
    invite,   \* the committed workspace_invites: the token of each workspace and address
    expired,  \* the tokens whose expires_at has passed
    offer,    \* what each token was minted for
    handed,   \* the tokens an answer has given to an admin
    clock,    \* time since the server started
    window,   \* the limiter's entry of each address
    admitted, \* the attempts let through, by whose they were and time
    pc,       \* the statement each request runs next
    op,       \* what each request asks for
    regLock,  \* the holder of the advisory lock of registration
    newUser,  \* the transaction that has inserted each address and not committed
    claimed,  \* the workspace whose invite a transaction has deleted
    fresh     \* the tokens not expired when a transaction began

server == <<cfg, boot, step, seeded, crashes>>
rows == <<account, member, invite, expired, offer, handed>>
limiter == <<clock, window, admitted>>
local == <<regLock, newUser, claimed, fresh>>
vars == <<server, rows, limiter, pc, op, local>>

Workspaces == Emails
Addresses == Clients \cup Proxies
Roles == {"owner", "admin", "member", "viewer"}
Admins == {"owner", "admin"}
Absent == "absent"

NoAccount == [via |-> "none", token |-> None]
AccountRows == {NoAccount} \cup [via : {"seed", "open"}, token : {None}]
               \cup [via : {"invite"}, token : Tokens]

Ops == [kind : {"register"}, email : Emails, token : Tokens \cup {None}]
       \cup [kind : {"login"}, email : Emails] \cup [kind : {"unknown"}]
       \cup [kind : {"invite"}, email : Emails, workspace : Workspaces, role : Offered]
       \cup [kind : {"invited"}, token : Tokens]
NoOp == [kind |-> "none"]

PCs == {"idle", "check", "hash", "hashing", "begin", "lock", "recount", "insert_user",
        "claim", "commit", "find_user", "find_invitee", "insert_member",
        "mint", "answer"}

Registered == {e \in Emails : account[e] # NoAccount}

(* Registration without an invite on a server that does not offer it. *)
Closed(r) == op[r].token = None /\ ~cfg.open

Goto(r, label) == pc' = [pc EXCEPT ![r] = label]

(* The handler returns, or is dropped: a transaction is rolled back or, by the *)
(* actions that also write rows, committed.                                    *)
End(r) ==
    /\ pc' = [pc EXCEPT ![r] = "idle"]
    /\ op' = [op EXCEPT ![r] = NoOp]
    /\ regLock' = IF regLock = r THEN None ELSE regLock
    /\ newUser' = [e \in Emails |-> IF newUser[e] = r THEN None ELSE newUser[e]]
    /\ claimed' = [claimed EXCEPT ![r] = None]
    /\ fresh' = [fresh EXCEPT ![r] = {}]

NoEntry == [start |-> 0, count |-> 0]
NoEntries == [a \in Addresses |-> NoEntry]
NobodyAdmitted == [a \in Addresses |-> [t \in 0..MaxTime |-> 0]]

Init ==
    /\ cfg \in [seed : BOOLEAN, open : BOOLEAN, trust : BOOLEAN]
    /\ boot = "down"
    /\ step = 1
    /\ seeded = {}
    /\ crashes = 0
    /\ account = [e \in Emails |-> NoAccount]
    /\ member = [p \in Workspaces \X Emails |-> Absent]
    /\ invite = [p \in Workspaces \X Emails |-> None]
    /\ expired = {}
    /\ offer = [k \in Tokens |-> None]
    /\ handed = {}
    /\ clock = 0
    /\ window = NoEntries
    /\ admitted = NobodyAdmitted
    /\ pc = [r \in Requests |-> "idle"]
    /\ op = [r \in Requests |-> NoOp]
    /\ regLock = None
    /\ newUser = [e \in Emails |-> None]
    /\ claimed = [r \in Requests |-> None]
    /\ fresh = [r \in Requests |-> {}]

-----------------------------------------------------------------------------
(* prepare_database and seed_demo *)

Fills(table, refs) == [table |-> table, refs |-> refs]

(* The statements of the seed: the table each fills, the tables its rows refer *)
(* to.  Ids of users, workspaces, projects, statuses and tasks are fixed.      *)
PeoplePlan ==
    << Fills("users", {}), Fills("workspaces", {}), Fills("projects", {"workspaces"}),
       Fills("memberships", {"workspaces", "users"}) >>

WorkPlan ==
    << Fills("project_statuses", {"projects"}),
       Fills("tasks", {"projects", "project_statuses", "users"}),
       Fills("task_assignees", {"tasks", "users"}), Fills("subtasks", {"tasks"}),
       Fills("task_dependencies", {"tasks"}) >>

ActivityPlan ==
    << Fills("comments", {"tasks", "users"}), Fills("attachments", {"tasks"}),
       Fills("milestones", {"projects"}), Fills("notifications", {"workspaces", "users", "tasks"}),
       Fills("audit_events", {"workspaces", "users"}) >>

SeedPlan == PeoplePlan \o WorkPlan \o ActivityPlan

(* Variant: the seed runs unless it has run to its end before.  (Each "Variant" *)
(* is a change of the definition after it that a property must reject.)         *)
ResumeSeed == cfg.seed /\ "audit_events" \notin seeded

(* seed_demo returns at once when there is a user. *)
NeedsSeed == cfg.seed /\ Registered = {}

Start ==
    /\ boot \in {"down", "failed"}
    /\ boot' = IF NeedsSeed THEN "seeding" ELSE "serving"
    /\ step' = 1
    /\ UNCHANGED <<cfg, seeded, crashes, rows, limiter, pc, op, local>>

(* Each statement commits by itself.  One whose foreign keys or fixed ids do not *)
(* fit what is stored fails, and the server does not start.                      *)
SeedFits(s) == s.refs \subseteq seeded /\ s.table \notin seeded

SeedStatement ==
    LET s == SeedPlan[step]
        done == step = Len(SeedPlan)
    IN
    /\ boot = "seeding"
    /\ IF SeedFits(s)
       THEN /\ seeded' = seeded \cup {s.table}
            /\ account' = IF s.table # "users" THEN account
                          ELSE [account EXCEPT ![Demo] = [via |-> "seed", token |-> None]]
            /\ member' = IF s.table # "memberships" THEN member
                         ELSE [member EXCEPT ![<<Demo, Demo>>] = "owner"]
            /\ boot' = IF done THEN "serving" ELSE boot
            /\ step' = IF done THEN step ELSE step + 1
       ELSE boot' = "failed" /\ UNCHANGED <<seeded, account, member, step>>
    /\ UNCHANGED <<cfg, crashes, invite, expired, offer, handed, limiter, pc, op, local>>

(* The process stops: transactions are rolled back, its memory is gone. *)
Crash ==
    /\ boot \in {"seeding", "serving"}
    /\ crashes < MaxCrashes  \* bound
    /\ crashes' = crashes + 1
    /\ boot' = "down"
    /\ clock' = 0
    /\ window' = NoEntries
    /\ admitted' = NobodyAdmitted
    /\ pc' = [r \in Requests |-> "idle"]
    /\ op' = [r \in Requests |-> NoOp]
    /\ regLock' = None
    /\ newUser' = [e \in Emails |-> None]
    /\ claimed' = [r \in Requests |-> None]
    /\ fresh' = [r \in Requests |-> {}]
    /\ UNCHANGED <<cfg, step, seeded, rows>>

-----------------------------------------------------------------------------
(* rate_limit_auth: the way to register and login *)

Tick ==
    /\ boot = "serving"
    /\ clock < MaxTime  \* bound
    /\ clock' = clock + 1
    /\ UNCHANGED <<server, rows, window, admitted, pc, op, local>>

(* How an attempt may reach the server: from the client itself, with whatever  *)
(* header it likes, or by a proxy, which overwrites the header.                *)
Connections ==
    {v \in [client : Clients, peer : Addresses, header : Addresses \cup {None}] :
        v.peer = v.client \/ (v.peer \in Proxies /\ v.header = v.client)}

(* Variant: the header of any peer is believed. *)
AnyHeader(peer, realIp) == IF cfg.trust /\ realIp # None THEN realIp ELSE peer

(* A header that parses is believed if it comes from within trusted_proxies. *)
ClientIp(peer, realIp) ==
    IF cfg.trust /\ peer \in Trusted /\ realIp # None THEN realIp ELSE peer

(* Whose an attempt is, as far as the server is able to know: the client's behind *)
(* a trusted address, else the peer's.                                           *)
Origin(via) == IF cfg.trust /\ via.peer \in Trusted THEN via.client ELSE via.peer

(* The entry of an address after `retain`: none when its window is over. *)
Entry(a) == IF clock - window[a].start >= Window THEN NoEntry ELSE window[a]

Counted(a) ==
    LET e == Entry(a) IN
    IF e = NoEntry THEN [start |-> clock, count |-> 1] ELSE [e EXCEPT !.count = @ + 1]

(* Variant: an off-by-one. *)
OneTooMany(n) == n > MaxAttempts + 1

Exceeded(n) == n > MaxAttempts

Attempt(r, via, o) ==
    LET ip == ClientIp(via.peer, via.header)  e == Counted(ip) IN
    /\ boot = "serving"
    /\ pc[r] = "idle"
    /\ e.count <= MaxAttempts + 1  \* bound on what is counted past the limit
    /\ window' = [window EXCEPT ![ip] = e]
    /\ IF Exceeded(e.count)
       THEN UNCHANGED <<admitted, pc, op>>
       ELSE /\ admitted' = [admitted EXCEPT ![Origin(via)][clock] = @ + 1]
            /\ op' = [op EXCEPT ![r] = o]
            /\ Goto(r, IF o.kind = "login" THEN "find_user" ELSE "check")
    /\ UNCHANGED <<server, rows, clock, local>>

-----------------------------------------------------------------------------
(* register *)

InviteOf(e, k) == {w \in Workspaces : invite[<<w, e>>] = k /\ k \notin expired}

(* The invite is looked up, or the users are counted, before the hash. *)
MayRegister(r) ==
    /\ op[r].token # None => InviteOf(op[r].email, op[r].token) # {}
    /\ Closed(r) => Registered = {}

Check(r) ==
    /\ pc[r] = "check"
    /\ MayRegister(r)
    /\ Goto(r, "hash")
    /\ UNCHANGED <<server, rows, limiter, op, local>>

Refuse(r) ==
    /\ pc[r] = "check"
    /\ ~MayRegister(r)
    /\ End(r)
    /\ UNCHANGED <<server, rows, limiter>>

(* hash_password_async and verify_password_async: a permit for each hash.     *)
(* (The thread of a dropped handler goes on without one; it touches no state.) *)
TakePermit(r) ==
    /\ pc[r] = "hash"
    /\ Cardinality({q \in Requests : pc[q] = "hashing"}) < MaxHashes
    /\ Goto(r, "hashing")
    /\ UNCHANGED <<server, rows, limiter, op, local>>

Hashed(r) ==
    /\ pc[r] = "hashing"
    /\ op[r].kind = "register"
    /\ Goto(r, "begin")
    /\ UNCHANGED <<server, rows, limiter, op, local>>

(* BEGIN: now() is fixed. *)
BeginTx(r) ==
    /\ pc[r] = "begin"
    /\ fresh' = [fresh EXCEPT ![r] = Tokens \ expired]
    /\ Goto(r, IF Closed(r) THEN "lock" ELSE "insert_user")
    /\ UNCHANGED <<server, rows, limiter, op, regLock, newUser, claimed>>

(* Variant: the users are counted without the advisory lock. *)
SkipRegistrationLock(r) ==
    /\ pc[r] = "lock"
    /\ Goto(r, "recount")
    /\ UNCHANGED <<server, rows, limiter, op, local>>

LockRegistration(r) ==
    /\ pc[r] = "lock"
    /\ regLock = None
    /\ regLock' = r
    /\ Goto(r, "recount")
    /\ UNCHANGED <<server, rows, limiter, op, newUser, claimed, fresh>>

Recount(r) ==
    /\ pc[r] = "recount"
    /\ IF Registered = {}
       THEN Goto(r, "insert_user") /\ UNCHANGED <<op, local>>
       ELSE End(r)
    /\ UNCHANGED <<server, rows, limiter>>

(* INSERT INTO users: waits for a transaction that inserts the same address. *)
InsertUser(r) ==
    LET e == op[r].email IN
    /\ pc[r] = "insert_user"
    /\ newUser[e] = None
    /\ account[e] = NoAccount
    /\ newUser' = [newUser EXCEPT ![e] = r]
    /\ Goto(r, IF op[r].token = None THEN "commit" ELSE "claim")
    /\ UNCHANGED <<server, rows, limiter, op, regLock, claimed, fresh>>

EmailTaken(r) ==  \* 409
    /\ pc[r] = "insert_user"
    /\ newUser[op[r].email] = None
    /\ account[op[r].email] # NoAccount
    /\ End(r)
    /\ UNCHANGED <<server, rows, limiter>>

(* The invites DELETE .. RETURNING finds. *)
Claimable(r) ==
    {w \in Workspaces : invite[<<w, op[r].email>>] = op[r].token /\ op[r].token \in fresh[r]}

ClaimInvite(r) ==
    /\ pc[r] = "claim"
    /\ \E w \in Claimable(r) : claimed' = [claimed EXCEPT ![r] = w]
    /\ Goto(r, "commit")
    /\ UNCHANGED <<server, rows, limiter, op, regLock, newUser, fresh>>

InviteGone(r) ==  \* 400
    /\ pc[r] = "claim"
    /\ Claimable(r) = {}
    /\ End(r)
    /\ UNCHANGED <<server, rows, limiter>>

(* create_workspace_for_user: workspace, owner, project and default statuses. *)
Found(e) == [member EXCEPT ![<<e, e>>] = "owner"]

(* Variant: the invite is read, not deleted. *)
CommitKeepsInvite(r) ==
    LET e == op[r].email  k == op[r].token  w == claimed[r] IN
    /\ pc[r] = "commit"
    /\ account' = [account EXCEPT ![e] = IF k = None THEN [via |-> "open", token |-> None]
                                          ELSE [via |-> "invite", token |-> k]]
    /\ member' = IF k = None THEN Found(e) ELSE [member EXCEPT ![<<w, e>>] = offer[k].role]
    /\ End(r)
    /\ UNCHANGED <<server, limiter, invite, expired, offer, handed>>

(* The workspace or the membership, the audit event, the session (Sessions); COMMIT. *)
CommitRegistration(r) ==
    LET e == op[r].email  k == op[r].token  w == claimed[r] IN
    /\ pc[r] = "commit"
    /\ account' = [account EXCEPT ![e] = IF k = None THEN [via |-> "open", token |-> None]
                                          ELSE [via |-> "invite", token |-> k]]
    /\ member' = IF k = None THEN Found(e) ELSE [member EXCEPT ![<<w, e>>] = offer[k].role]
    /\ invite' = IF k = None THEN invite ELSE [invite EXCEPT ![<<w, e>>] = None]
    /\ End(r)
    /\ UNCHANGED <<server, limiter, expired, offer, handed>>

-----------------------------------------------------------------------------
(* login *)

(* An unknown address costs the same hash; it is refused after it. *)
FindUser(r) ==
    /\ pc[r] = "find_user"
    /\ op' = [op EXCEPT ![r] = IF account[@.email] = NoAccount THEN [kind |-> "unknown"] ELSE @]
    /\ Goto(r, "hash")
    /\ UNCHANGED <<server, rows, limiter, local>>

(* The password is wrong, or there is nobody it could be right for. *)
Unauthorized(r) ==
    /\ pc[r] = "hashing"
    /\ op[r].kind # "register"
    /\ End(r)
    /\ UNCHANGED <<server, rows, limiter>>

(* The session it creates is Sessions' concern. *)
Verified(r) ==
    /\ pc[r] = "hashing"
    /\ op[r].kind = "login"
    /\ End(r)
    /\ UNCHANGED <<server, rows, limiter>>

-----------------------------------------------------------------------------
(* invite_member *)

(* The caller administers the workspace and the address is not a member's. *)
BeginInvite(r, w, e, ro) ==
    /\ boot = "serving"
    /\ pc[r] = "idle"
    /\ \E u \in Emails : member[<<w, u>>] \in Admins
    /\ member[<<w, e>>] = Absent
    /\ op' = [op EXCEPT ![r] = [kind |-> "invite", email |-> e, workspace |-> w, role |-> ro]]
    /\ Goto(r, "find_invitee")
    /\ UNCHANGED <<server, rows, limiter, local>>

FindInvitee(r) ==
    /\ pc[r] = "find_invitee"
    /\ Goto(r, IF op[r].email \in Registered THEN "insert_member" ELSE "mint")
    /\ UNCHANGED <<server, rows, limiter, op, local>>

(* Variant: the invited person has no role before accepting. *)
AddPending(r) ==
    LET p == <<op[r].workspace, op[r].email>> IN
    /\ pc[r] = "insert_member"
    /\ member' = [member EXCEPT ![p] = "pending"]
    /\ End(r)
    /\ UNCHANGED <<server, limiter, account, invite, expired, offer, handed>>

(* INSERT .. ON CONFLICT DO NOTHING, the audit event; COMMIT. *)
AddMember(r) ==
    LET p == <<op[r].workspace, op[r].email>> IN
    /\ pc[r] = "insert_member"
    /\ member' = IF member[p] = Absent THEN [member EXCEPT ![p] = op[r].role] ELSE member
    /\ End(r)
    /\ UNCHANGED <<server, limiter, account, invite, expired, offer, handed>>

(* Variant: the conflicting row is refreshed though it is still valid. *)
AlwaysMintable(p) == TRUE

(* The upsert writes: no row, or one whose token has expired. *)
Mintable(p) == invite[p] = None \/ invite[p] \in expired

(* A transaction that deletes the row is waited for. *)
InviteFree(p) == \A q \in Requests : claimed[q] = p[1] => op[q].email # p[2]

MintInvite(r) ==
    LET p == <<op[r].workspace, op[r].email>> IN
    /\ pc[r] = "mint"
    /\ InviteFree(p)
    /\ Mintable(p)
    /\ \E k \in {t \in Tokens : offer[t] = None} :
        /\ invite' = [invite EXCEPT ![p] = k]
        /\ offer' = [offer EXCEPT ![k] = [workspace |-> p[1], email |-> p[2], role |-> op[r].role]]
        /\ op' = [op EXCEPT ![r] = [kind |-> "invited", token |-> k]]
    /\ Goto(r, "answer")
    /\ UNCHANGED <<server, limiter, account, member, expired, handed, local>>

AlreadyInvited(r) ==  \* 409
    LET p == <<op[r].workspace, op[r].email>> IN
    /\ pc[r] = "mint"
    /\ InviteFree(p)
    /\ ~Mintable(p)
    /\ End(r)
    /\ UNCHANGED <<server, rows, limiter>>

(* The audit event is written after the invite and not with it; then the token *)
(* is answered, the only time it is shown.  (Abandon: it is never shown.)      *)
Answer(r) ==
    /\ pc[r] = "answer"
    /\ handed' = handed \cup {op[r].token}
    /\ End(r)
    /\ UNCHANGED <<server, limiter, account, member, invite, expired, offer>>

-----------------------------------------------------------------------------
Expire(k) ==
    /\ offer[k] # None
    /\ k \notin expired
    /\ expired' = expired \cup {k}
    /\ UNCHANGED <<server, account, member, invite, offer, handed, limiter, pc, op, local>>

(* A client that has gone, a connection or a statement that failed. *)
Abandon(r) ==
    /\ pc[r] # "idle"
    /\ End(r)
    /\ UNCHANGED <<server, rows, limiter>>

Begin(r) ==
    \/ \E w \in Workspaces, e \in Emails, ro \in Offered : BeginInvite(r, w, e, ro)
    \/ \E via \in Connections, e \in Emails :
        \/ Attempt(r, via, [kind |-> "login", email |-> e])
        \/ \E k \in handed \cup {None} :
            Attempt(r, via, [kind |-> "register", email |-> e, token |-> k])

Serve(r) ==
    \/ Check(r) \/ Refuse(r) \/ TakePermit(r) \/ Hashed(r) \/ BeginTx(r)
    \/ LockRegistration(r) \/ Recount(r) \/ InsertUser(r) \/ EmailTaken(r)
    \/ ClaimInvite(r) \/ InviteGone(r) \/ CommitRegistration(r)
    \/ FindUser(r) \/ Unauthorized(r) \/ Verified(r)
    \/ FindInvitee(r) \/ AddMember(r) \/ MintInvite(r) \/ AlreadyInvited(r) \/ Answer(r)

Next ==
    \/ Start \/ SeedStatement \/ Crash \/ Tick
    \/ \E k \in Tokens : Expire(k)
    \/ \E r \in Requests : Begin(r) \/ Serve(r) \/ Abandon(r)

Spec == Init /\ [][Next]_vars

-----------------------------------------------------------------------------
(* Properties *)

(* Every variable keeps its type (tables, the limiter, request state). *)
TypeOK ==
    /\ cfg \in [seed : BOOLEAN, open : BOOLEAN, trust : BOOLEAN]
    /\ boot \in {"down", "seeding", "serving", "failed"}
    /\ step \in 1..Len(SeedPlan)
    /\ seeded \subseteq {SeedPlan[i].table : i \in 1..Len(SeedPlan)}
    /\ crashes \in 0..MaxCrashes
    /\ account \in [Emails -> AccountRows]
    /\ member \in [Workspaces \X Emails -> Roles \cup {Absent}]
    /\ invite \in [Workspaces \X Emails -> Tokens \cup {None}]
    /\ expired \subseteq Tokens
    /\ offer \in [Tokens -> Offers \cup {None}]
    /\ handed \subseteq Tokens
    /\ clock \in 0..MaxTime
    /\ window \in [Addresses -> [start : 0..MaxTime, count : 0..MaxAttempts + 1]]
    /\ admitted \in [Addresses -> [0..MaxTime -> Nat]]
    /\ pc \in [Requests -> PCs]
    /\ op \in [Requests -> Ops \cup {NoOp}]
    /\ regLock \in Requests \cup {None}
    /\ newUser \in [Emails -> Requests \cup {None}]
    /\ claimed \in [Requests -> Workspaces \cup {None}]
    /\ fresh \in [Requests -> SUBSET Tokens]

(* auth.rs:64: while registration is closed, nobody registers without an invite *)
(* once there is any account, however first registrations race (the fast check, *)
(* the advisory lock, the second count).                                        *)
OnlyFirstUser ==
    ~cfg.open =>
        \A e, f \in Registered : account[e].via = "open" /\ f # e => account[f].via = "invite"

(* workspace.rs:122: a token an admin was given stays redeemable until it       *)
(* expires or is redeemed: no concurrent invite of the address replaces it.     *)
(* (The row stays, but can no longer be redeemed, once the address has got an    *)
(* account by another way: openly, or by another workspace's invite.)            *)
HandedTokensStayGood ==
    \A k \in handed \ expired :
        \/ invite[<<offer[k].workspace, offer[k].email>>] = k
        \/ \E e \in Emails : account[e].token = k

(* What register leaves behind, whatever it raced: an account made without an   *)
(* invite owns a workspace; one made with an invite is the only one made with   *)
(* it, is for the invited address, has the offered role, and the invite is gone. *)
RegistrationsComplete ==
    \A e \in Emails :
        /\ account[e].via = "open" => member[<<e, e>>] = "owner"
        /\ account[e].via = "invite" =>
            LET o == offer[account[e].token] IN
            /\ o.email = e
            /\ member[<<o.workspace, e>>] = o.role
            /\ \A f \in Emails \ {e} : account[f].token # account[e].token
            /\ \A p \in DOMAIN invite : invite[p] # account[e].token

(* With trust_proxy, whoever connects from within trusted_proxies names the       *)
(* address it is counted by (config.rs:65).                                       *)
ChoosesEntry(a) == cfg.trust /\ a \in Trusted

(* middleware.rs:45: no stretch of time as long as the window lets an address     *)
(* make more than 2 * MaxAttempts - 1 attempts.  With trust_proxy that is a client *)
(* outside trusted_proxies, directly or by a trusted proxy, whatever header it     *)
(* sends and whoever names its address; without it, every peer.                    *)
LimiterHolds ==
    \A a \in Addresses, t \in 0..MaxTime : ~ChoosesEntry(a) =>
        MapThenSumSet(LAMBDA u : admitted[a][u], {u \in 0..MaxTime : u >= t /\ u < t + Window})
            <= 2 * MaxAttempts - 1

(* seed.rs:38: wherever the server stopped in the seed, which is no transaction, *)
(* it can be started again: the statements are never run on rows they conflict    *)
(* with, nor before the rows they refer to.  (The rest of an interrupted seed is  *)
(* never added: only the start is promised, not the whole demo.)                   *)
StartsAgain == boot # "failed"
=============================================================================
