------------------------------- MODULE Sessions -------------------------------
(***************************************************************************)
(* The sessions of one account and the WebSockets opened with them, in one *)
(* workspace: session.rs, login, logout and logout_all (auth.rs), the       *)
(* handshake and the pings of ws.rs.                                        *)
(*                                                                         *)
(* Time passes in steps that stand for days; TTL, Threshold and Cap keep    *)
(* their order (7, 14 and 30 days).  Between two steps of a request any      *)
(* other may run, and time may pass.                                        *)
(***************************************************************************)
EXTENDS Integers, FiniteSets, FiniteSetsExt

CONSTANTS
    SessionIds, \* the sessions that are created
    Requests,   \* slots for authenticated requests under way
    Sockets,    \* slots for WebSocket connections
    TTL,        \* SESSION_TTL_DAYS
    Threshold,  \* SESSION_REFRESH_THRESHOLD_DAYS
    Cap,        \* SESSION_HARD_CAP_DAYS
    MaxSockets, \* MAX_WS_CONNECTIONS_PER_USER
    MaxTime     \* bound: the days that pass

ASSUME SessionsAssumption ==
    /\ IsFiniteSet(Sockets)
    /\ {TTL, Threshold, Cap, MaxSockets, MaxTime} \subseteq Nat
    /\ Threshold <= TTL /\ TTL <= Cap /\ MaxTime > 0

VARIABLES
    now,
    session, \* the rows of the sessions table
    member,  \* the account is an active member of the workspace
    request, \* the requests between two statements
    socket,  \* the connections
    conns,   \* ws_conns of the account
    born,    \* history: when each session was created
    used,    \* history: when each session last authenticated a request
    revoked  \* history: the sessions deleted by a logout

vars == <<now, session, member, request, socket, conns, born, used, revoked>>

NoRow == [created |-> 0, expires |-> 0]
Idle == [pc |-> "idle"]
Closed == [pc |-> "closed"]

Exists(s) == session[s] # NoRow
Valid(s) == session[s].expires > now

(* An account that has never logged in; time 0 is before every login. *)
Init ==
    /\ now = 1
    /\ session = [s \in SessionIds |-> NoRow]
    /\ member = TRUE
    /\ request = [r \in Requests |-> Idle]
    /\ socket = [c \in Sockets |-> Closed]
    /\ conns = 0
    /\ born = [s \in SessionIds |-> 0]
    /\ used = [s \in SessionIds |-> 0]
    /\ revoked = {}

Tick ==
    /\ now < MaxTime
    /\ now' = now + 1
    /\ UNCHANGED <<session, member, request, socket, conns, born, used, revoked>>

-----------------------------------------------------------------------------
(* Variant: the cleanup compares with the threshold.  (Each "Variant" is a change *)
(* of the definition after it that a property must reject.)                       *)
NearlyExpired(s) == session[s].expires < now + Threshold

Expired(s) == session[s].expires < now

(* create_session, the end of login and of register: expired rows are deleted. *)
CreateSession(s) ==
    /\ used[s] = 0
    /\ session' = [t \in SessionIds |->
        IF t = s THEN [created |-> now, expires |-> now + TTL]
        ELSE IF Expired(t) THEN NoRow ELSE session[t]]
    /\ born' = [born EXCEPT ![s] = now]
    /\ used' = [used EXCEPT ![s] = now]
    /\ UNCHANGED <<now, member, request, socket, conns, revoked>>

(* Variant: the session is refreshed only when a day is left. *)
LastDay(s) == session[s].expires - now < 1

LastStretch(s) == session[s].expires - now < Threshold

(* require_auth, for whichever handler; a session that is not found gets a 401. *)
Authenticate(r, s) ==
    /\ request[r] = Idle
    /\ Exists(s) /\ Valid(s)
    /\ request' = [request EXCEPT ![r] =
        [pc |-> IF LastStretch(s) THEN "refresh" ELSE "handle", session |-> s]]
    /\ used' = IF LastStretch(s) THEN used ELSE [used EXCEPT ![s] = now]
    /\ UNCHANGED <<now, session, member, socket, conns, born, revoked>>

(* Variant: the hard cap counts from now. *)
SlidFrom(row) == [row EXCEPT !.expires = Min({now + TTL, now + Cap})]

Slid(row) == [row EXCEPT !.expires = Min({now + TTL, row.created + Cap})]

(* Variant: the refresh is an upsert. *)
RefreshUpserting(r) ==
    LET s == request[r].session IN
    /\ request[r].pc = "refresh"
    /\ session' = [session EXCEPT ![s] = Slid(IF Exists(s) THEN @ ELSE [@ EXCEPT !.created = now])]
    /\ used' = [used EXCEPT ![s] = now]
    /\ request' = [request EXCEPT ![r].pc = "handle"]
    /\ UNCHANGED <<now, member, socket, conns, born, revoked>>

(* The sliding expiry.  The row may be gone by then: logged out, or expired since *)
(* and deleted by a login.  The request goes on, but it has refreshed nothing.     *)
Refresh(r) ==
    LET s == request[r].session IN
    /\ request[r].pc = "refresh"
    /\ session' = IF Exists(s) THEN [session EXCEPT ![s] = Slid(@)] ELSE session
    /\ used' = IF Exists(s) THEN [used EXCEPT ![s] = now] ELSE used
    /\ request' = [request EXCEPT ![r].pc = "handle"]
    /\ UNCHANGED <<now, member, socket, conns, born, revoked>>

Return(r) == request' = [request EXCEPT ![r] = Idle]

(* Any other handler; also one that fails, or whose client goes away. *)
Finish(r) ==
    /\ request[r].pc \in {"refresh", "handle"}
    /\ Return(r)
    /\ UNCHANGED <<now, session, member, socket, conns, born, used, revoked>>

Deleted(S) ==
    /\ session' = [s \in SessionIds |-> IF s \in S THEN NoRow ELSE session[s]]
    /\ revoked' = revoked \cup S

Logout(r) ==
    /\ request[r].pc = "handle"
    /\ Deleted({request[r].session})
    /\ Return(r)
    /\ UNCHANGED <<now, member, socket, conns, born, used>>

(* "Log out everywhere" *)
LogoutAll(r) ==
    /\ request[r].pc = "handle"
    /\ Deleted({s \in SessionIds : Exists(s)})
    /\ Return(r)
    /\ UNCHANGED <<now, member, socket, conns, born, used>>

-----------------------------------------------------------------------------
(* WebSockets *)

(* Variant: the limit is compared with > instead of >=. *)
SlotFreeOrFull == conns <= MaxSockets

SlotFree == conns < MaxSockets

(* ws_handler: a member takes a slot, in one critical section. *)
Reserve(r, c) ==
    /\ request[r].pc = "handle"
    /\ member
    /\ SlotFree
    /\ conns' = conns + 1
    /\ socket[c] = Closed
    /\ socket' = [socket EXCEPT ![c] = [pc |-> "upgrading", session |-> request[r].session]]
    /\ Return(r)
    /\ UNCHANGED <<now, session, member, born, used, revoked>>

Upgrade(c) ==
    /\ socket[c].pc = "upgrading"
    /\ socket' = [socket EXCEPT ![c].pc = "open"]
    /\ UNCHANGED <<now, session, member, request, conns, born, used, revoked>>

(* WsConnGuard::drop *)
Release(c) ==
    /\ socket' = [socket EXCEPT ![c] = Closed]
    /\ conns' = conns - 1

(* Variant: the slot is released by the loop, which a failed upgrade never starts. *)
LeaveReleasing(c) ==
    /\ socket[c].pc # "closed"
    /\ socket' = [socket EXCEPT ![c] = Closed]
    /\ conns' = IF socket[c].pc = "upgrading" THEN conns ELSE conns - 1
    /\ UNCHANGED <<now, session, member, request, born, used, revoked>>

(* The upgrade fails, the client closes or its connection dies. *)
Leave(c) ==
    /\ socket[c].pc # "closed"
    /\ Release(c)
    /\ UNCHANGED <<now, session, member, request, born, used, revoked>>

(* Variant: only the session is looked at. *)
SessionValid(c) == Exists(socket[c].session) /\ Valid(socket[c].session)

(* realtime_access_valid *)
AccessValid(c) == Exists(socket[c].session) /\ Valid(socket[c].session) /\ member

(* The ping revalidates the access first. *)
Ping(c) ==
    /\ socket[c].pc = "open"
    /\ IF AccessValid(c)
       THEN socket' = [socket EXCEPT ![c].pc = "sending"] /\ UNCHANGED conns
       ELSE Release(c)
    /\ UNCHANGED <<now, session, member, request, born, used, revoked>>

(* An event of the workspace, sent without a look at the access. *)
Event(c) ==
    /\ socket[c].pc = "open"
    /\ socket' = [socket EXCEPT ![c].pc = "sending"]
    /\ UNCHANGED <<now, session, member, request, conns, born, used, revoked>>

(* The loop waits in sink.send until the client takes the message. *)
SentMessage(c) ==
    /\ socket[c].pc = "sending"
    /\ socket' = [socket EXCEPT ![c].pc = "open"]
    /\ UNCHANGED <<now, session, member, request, conns, born, used, revoked>>

(* Membership: the account is removed from the workspace, or added again. *)
ChangeMembership ==
    /\ member' = ~member
    /\ UNCHANGED <<now, session, request, socket, conns, born, used, revoked>>

-----------------------------------------------------------------------------
Handle(r) ==
    \/ \E s \in SessionIds : Authenticate(r, s)
    \/ Refresh(r) \/ Finish(r) \/ Logout(r) \/ LogoutAll(r)
    \/ \E c \in Sockets : Reserve(r, c)

Connection(c) == Upgrade(c) \/ Leave(c) \/ Ping(c) \/ Event(c) \/ SentMessage(c)

Next ==
    \/ Tick \/ ChangeMembership
    \/ \E s \in SessionIds : CreateSession(s)
    \/ \E r \in Requests : Handle(r)
    \/ \E c \in Sockets : Connection(c)

(* The interval's ticks come for ever, and select! picks its branch at random: *)
(* a ping that is due again and again is picked.  Nothing is assumed of clients: *)
(* sink.send has no timeout, so that the loop may wait for one for ever.         *)
Fairness == \A c \in Sockets : SF_vars(Ping(c))

Spec == Init /\ [][Next]_vars /\ Fairness

-----------------------------------------------------------------------------
(* Properties *)

Times == 0..(MaxTime + TTL)

(* Every variable keeps its type (sessions table, ws_conns, connections). *)
TypeOK ==
    /\ now \in 1..MaxTime
    /\ session \in [SessionIds -> [created : Times, expires : Times]]
    /\ member \in BOOLEAN
    /\ request \in [Requests -> {Idle} \cup
                     [pc : {"refresh", "handle"}, session : SessionIds]]
    /\ socket \in [Sockets -> {Closed} \cup
                    [pc : {"upgrading", "open", "sending"}, session : SessionIds]]
    /\ conns \in 0..MaxSockets
    /\ born \in [SessionIds -> 0..MaxTime]
    /\ used \in [SessionIds -> 0..MaxTime]
    /\ revoked \in SUBSET SessionIds

(* session.rs:23: however often it is refreshed, a session lives no longer than *)
(* the hard cap, counted from its creation.                                       *)
HardCap == \A s \in SessionIds : Exists(s) => session[s].expires <= session[s].created + Cap

(* How long a session lasts that is not used again, or logged out. *)
Due(s) == Min({used[s] + Threshold, born[s] + Cap})

(* session.rs:23: active users stay logged in.  The row of a session that was   *)
(* used and not logged out is there for the threshold at least, but for the     *)
(* hard cap: no refresh shortens it, and no cleanup of a login takes it before. *)
ActiveUsersStay == \A s \in SessionIds \ revoked : used[s] # 0 =>
    IF Exists(s) THEN session[s].expires >= Due(s) ELSE now > Due(s)

(* auth.rs:203: a session that was logged out is gone for good, also when a    *)
(* request that it had authenticated refreshes it afterwards.                    *)
RevokedForGood == \A s \in revoked : ~Exists(s)

(* ws.rs:124, ws.rs:159: every slot is released on every exit path, and only then. *)
SlotsMatchSockets == conns = Cardinality({c \in Sockets : socket[c] # Closed})

(* What the account is promised: a live session and its membership. *)
Entitled(c) == session[socket[c].session].expires > now /\ member

(* ws.rs:201: logout-all, expiry and removal reach a connection already open: a *)
(* socket whose access has ended for good closes, unless it never gets through   *)
(* the upgrade, or out of a send that its client does not take (ws.rs:212, 246). *)
RevokedSocketsClose == \A c \in Sockets :
    []<>(socket[c] = Closed \/ Entitled(c)) \/ <>[](socket[c].pc # "open")

=============================================================================
