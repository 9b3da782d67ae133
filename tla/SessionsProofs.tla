---------------------------- MODULE SessionsProofs ----------------------------
(***************************************************************************)
(* Proofs about Sessions, for any number of sessions, requests and sockets  *)
(* and any lifetimes: the hard cap, the stay of active users, the finality  *)
(* of a logout, and the count of the sockets.                              *)
(***************************************************************************)
EXTENDS Sessions, FiniteSetTheorems, TLAPS

(* A session that is stored, was logged out or is with a request has been used; *)
(* it is never created again.                                                   *)
UsedOnce ==
    /\ \A s \in SessionIds : Exists(s) => used[s] # 0
    /\ \A s \in revoked : used[s] # 0
    /\ \A r \in Requests : request[r] # Idle => used[request[r].session] # 0

(* What a session promises, for when it was created and last used; gone tells *)
(* whether it was logged out.                                                   *)
RowKept(row, first, last, time, gone) ==
    /\ row # NoRow => /\ row.created = first
                      /\ row.expires <= first + Cap
                      /\ row.expires >= last + Threshold \/ row.expires >= first + Cap
    /\ row = NoRow /\ last # 0 /\ ~gone => time > last + Threshold \/ time > first + Cap

(* Every session does. *)
AllKept == \A s \in SessionIds : RowKept(session[s], born[s], used[s], now, s \in revoked)

OpenSockets == {c \in Sockets : socket[c] # Closed}

Lifetimes == HardCap /\ ActiveUsersStay

Inv == TypeOK /\ UsedOnce /\ RevokedForGood /\ AllKept /\ SlotsMatchSockets

-----------------------------------------------------------------------------
(* The smaller of two numbers, as FiniteSetsExt chooses it. *)
LEMMA MinOfTwo ==
    ASSUME NEW a \in Int, NEW b \in Int
    PROVE  Min({a, b}) = IF a <= b THEN a ELSE b
<1> DEFINE m == IF a <= b THEN a ELSE b
<1>1. m \in {a, b} /\ \A y \in {a, b} : m <= y
  OBVIOUS
<1>2. \A x \in {a, b} : (\A y \in {a, b} : x <= y) => x = m
  OBVIOUS
<1> QED BY <1>1, <1>2 DEF Min

(* A refresh moves the end of a row to TTL from now, or to the hard cap. *)
LEMMA SlidRow ==
    ASSUME TypeOK, NEW s \in SessionIds
    PROVE  Slid(session[s]) =
             [created |-> session[s].created,
              expires |-> IF now + TTL <= session[s].created + Cap THEN now + TTL
                          ELSE session[s].created + Cap]
<1>1. /\ session[s] \in [created : Times, expires : Times]
      /\ now + TTL \in Int /\ session[s].created + Cap \in Int
  BY SessionsAssumption DEF TypeOK, Times
<1>2. Slid(session[s]) =
        [session[s] EXCEPT !.expires = Min({now + TTL, session[s].created + Cap})]
  BY DEF Slid
<1> QED BY <1>1, <1>2, MinOfTwo

(* The record of a request that is under way, and of a connection. *)
LEMMA Fields ==
    ASSUME TypeOK
    PROVE  /\ \A r \in Requests : request[r].pc \in {"refresh", "handle"} =>
                request[r] \in [pc : {"refresh", "handle"}, session : SessionIds]
           /\ \A r \in Requests : request[r].pc \in {"refresh", "handle"} => request[r] # Idle
           /\ \A c \in Sockets : socket[c].pc # "closed" =>
                /\ socket[c] \in [pc : {"upgrading", "open", "sending"}, session : SessionIds]
                /\ socket[c] # Closed
BY DEF TypeOK, Idle, Closed

(* What Refresh stores. *)
LEMMA Refreshed ==
    ASSUME TypeOK, NEW r \in Requests, Refresh(r)
    PROVE  LET s == request[r].session IN
           /\ s \in SessionIds /\ request[r] # Idle
           /\ ~Exists(s) => UNCHANGED session
           /\ Exists(s) => session' = [session EXCEPT ![s] = Slid(session[s])]
           /\ used' = IF Exists(s) THEN [used EXCEPT ![s] = now] ELSE used
<1>1. request[r].pc = "refresh"
  BY DEF Refresh
<1>2. request[r] \in [pc : {"refresh", "handle"}, session : SessionIds] /\ request[r] # Idle
  BY <1>1, Fields
<1> QED BY <1>1, <1>2 DEF Refresh

-----------------------------------------------------------------------------
(* Initially nothing is stored, open or counted. *)
LEMMA InitInv == Init => Inv
<1> SUFFICES ASSUME Init PROVE Inv
  OBVIOUS
<1>1. TypeOK
  BY SessionsAssumption DEF Init, TypeOK, Times, NoRow
<1>2. UsedOnce /\ RevokedForGood /\ AllKept
  BY DEF Init, UsedOnce, RevokedForGood, AllKept, RowKept, Exists
<1>3. OpenSockets = {}
  BY DEF Init, OpenSockets
<1>4. SlotsMatchSockets
  BY <1>3, FS_EmptySet DEF Init, SlotsMatchSockets, OpenSockets
<1> QED BY <1>1, <1>2, <1>4 DEF Inv

(* The open sockets can be counted. *)
LEMMA SocketsFinite == IsFiniteSet(OpenSockets)
BY SessionsAssumption, FS_Subset DEF OpenSockets

(* A slot is taken with a socket, and given back with it. *)
LEMMA SlotStep == TypeOK /\ SlotsMatchSockets /\ [Next]_vars => SlotsMatchSockets'
<1> SUFFICES ASSUME TypeOK, SlotsMatchSockets, [Next]_vars PROVE SlotsMatchSockets'
  OBVIOUS
<1>0. conns = Cardinality(OpenSockets) /\ IsFiniteSet(OpenSockets)
  BY SocketsFinite DEF SlotsMatchSockets, OpenSockets
<1>1. CASE UNCHANGED <<socket, conns>>
  BY <1>1 DEF SlotsMatchSockets
<1>2. ASSUME NEW c \in Sockets, socket[c] # Closed, UNCHANGED conns,
             \E label \in {"open", "sending"} : socket' = [socket EXCEPT ![c].pc = label]
      PROVE  SlotsMatchSockets'
  <2>1. \A d \in Sockets : socket'[d] # Closed <=> socket[d] # Closed
    BY <1>2 DEF TypeOK, Closed
  <2>2. OpenSockets' = OpenSockets
    BY <2>1 DEF OpenSockets
  <2> QED BY <1>0, <1>2, <2>2 DEF SlotsMatchSockets, OpenSockets
<1>3. ASSUME NEW c \in Sockets, socket[c] # Closed, Release(c)
      PROVE  SlotsMatchSockets'
  <2>1. OpenSockets' = OpenSockets \ {c} /\ c \in OpenSockets
    BY <1>3 DEF Release, OpenSockets, TypeOK
  <2>2. conns' = conns - 1
    BY <1>3 DEF Release
  <2> QED BY <1>0, <2>1, <2>2, FS_RemoveElement DEF SlotsMatchSockets, OpenSockets
<1>4. ASSUME NEW r \in Requests, NEW c \in Sockets, Reserve(r, c)
      PROVE  SlotsMatchSockets'
  <2>1. socket[c] = Closed /\ socket'[c] # Closed /\ \A d \in Sockets \ {c} : socket'[d] = socket[d]
    BY <1>4 DEF Reserve, TypeOK, Closed
  <2>2. OpenSockets' = OpenSockets \cup {c} /\ c \notin OpenSockets
    BY <2>1 DEF OpenSockets
  <2>3. conns' = conns + 1
    BY <1>4 DEF Reserve
  <2> QED BY <1>0, <2>2, <2>3, FS_AddElement DEF SlotsMatchSockets, OpenSockets
<1>5. ASSUME NEW c \in Sockets, Connection(c) PROVE SlotsMatchSockets'
  <2>1. socket[c] # Closed
    BY <1>5, Fields DEF Connection, Upgrade, Leave, Ping, Event, SentMessage, Closed
  <2>2. CASE Upgrade(c) \/ Event(c) \/ SentMessage(c)
    BY <1>2, <2>1, <2>2 DEF Upgrade, Event, SentMessage
  <2>3. CASE Leave(c)
    BY <1>3, <2>1, <2>3 DEF Leave
  <2>4. CASE Ping(c)
    BY <1>2, <1>3, <2>1, <2>4 DEF Ping
  <2> QED BY <1>5, <2>2, <2>3, <2>4 DEF Connection
<1>6. ASSUME NEW r \in Requests, Handle(r) PROVE SlotsMatchSockets'
  BY <1>1, <1>4, <1>6 DEF Handle, Authenticate, Refresh, Finish, Logout, LogoutAll
<1>7. CASE UNCHANGED vars \/ Tick \/ ChangeMembership \/ \E s \in SessionIds : CreateSession(s)
  BY <1>1, <1>7 DEF vars, Tick, ChangeMembership, CreateSession
<1> QED BY <1>5, <1>6, <1>7 DEF Next

-----------------------------------------------------------------------------
(* Types, which for conns need the count of the sockets. *)
LEMMA TypeStep == TypeOK /\ SlotsMatchSockets /\ [Next]_vars => TypeOK'
<1> SUFFICES ASSUME TypeOK, SlotsMatchSockets, [Next]_vars PROVE TypeOK'
  OBVIOUS
<1> USE SessionsAssumption
<1>1. CASE UNCHANGED vars \/ Tick \/ ChangeMembership
  <2>1. now' \in 1..MaxTime
    BY <1>1 DEF vars, Tick, ChangeMembership, TypeOK
  <2>2. member' \in BOOLEAN
    BY <1>1 DEF vars, Tick, ChangeMembership, TypeOK
  <2> QED BY <1>1, <2>1, <2>2 DEF vars, Tick, ChangeMembership, TypeOK
<1>2. ASSUME NEW s \in SessionIds, CreateSession(s) PROVE TypeOK'
  <2>1. session' \in [SessionIds -> [created : Times, expires : Times]]
    BY <1>2 DEF CreateSession, TypeOK, Times, NoRow
  <2> QED BY <1>2, <2>1 DEF CreateSession, TypeOK
<1>3. ASSUME NEW r \in Requests, NEW s \in SessionIds, Authenticate(r, s) PROVE TypeOK'
  BY <1>3 DEF Authenticate, TypeOK
<1>4. ASSUME NEW r \in Requests, Refresh(r) PROVE TypeOK'
  <2> DEFINE s == request[r].session
  <2>1. s \in SessionIds /\ used' \in {used, [used EXCEPT ![s] = now]}
    BY <1>4, Refreshed
  <2>2. Slid(session[s]) \in [created : Times, expires : Times]
    BY <2>1, SlidRow DEF TypeOK, Times
  <2>3. session' \in [SessionIds -> [created : Times, expires : Times]]
    BY <1>4, <2>1, <2>2, Refreshed DEF TypeOK
  <2>4. request' \in [Requests -> {Idle} \cup
                        [pc : {"refresh", "handle"}, session : SessionIds]]
    BY <1>4, Fields DEF Refresh, TypeOK
  <2> QED BY <1>4, <2>1, <2>3, <2>4 DEF Refresh, TypeOK
<1>5. ASSUME NEW r \in Requests, Finish(r) PROVE TypeOK'
  BY <1>5 DEF Finish, Return, TypeOK
<1>6. ASSUME NEW r \in Requests, Logout(r) \/ LogoutAll(r) PROVE TypeOK'
  <2>1. PICK S \in SUBSET SessionIds : Deleted(S)
    BY <1>6, Fields DEF Logout, LogoutAll
  <2>2. session' \in [SessionIds -> [created : Times, expires : Times]]
    BY <2>1 DEF Deleted, TypeOK, NoRow, Times
  <2>3. revoked' \in SUBSET SessionIds
    BY <2>1 DEF Deleted, TypeOK
  <2> QED BY <1>6, <2>2, <2>3 DEF Logout, LogoutAll, Return, TypeOK
<1>7. ASSUME NEW r \in Requests, NEW c \in Sockets, Reserve(r, c) PROVE TypeOK'
  <2>1. request[r].session \in SessionIds
    BY <1>7, Fields DEF Reserve
  <2>2. conns' \in 0..MaxSockets
    BY <1>7 DEF Reserve, SlotFree, TypeOK
  <2> QED BY <1>7, <2>1, <2>2 DEF Reserve, Return, TypeOK
<1>8. ASSUME NEW c \in Sockets, Connection(c) PROVE TypeOK'
  <2>1. socket[c].pc # "closed"
    BY <1>8 DEF Connection, Upgrade, Leave, Ping, Event, SentMessage
  <2>2. socket[c] \in [pc : {"upgrading", "open", "sending"}, session : SessionIds]
    BY <2>1, Fields
  <2>3. ASSUME Release(c) PROVE conns' \in 0..MaxSockets
    <3>1. c \in OpenSockets
      BY <2>1, Fields DEF OpenSockets
    <3>2. Cardinality(OpenSockets) # 0
      BY <3>1, SocketsFinite, FS_EmptySet
    <3>3. conns = Cardinality(OpenSockets)
      BY DEF SlotsMatchSockets, OpenSockets
    <3>4. conns' = conns - 1 /\ conns \in 0..MaxSockets /\ MaxSockets \in Nat
      BY <2>3 DEF Release, TypeOK
    <3> QED BY <3>2, <3>3, <3>4
  <2>4. CASE Upgrade(c) \/ Event(c) \/ SentMessage(c)
    BY <2>2, <2>4 DEF Upgrade, Event, SentMessage, TypeOK
  <2>5. CASE Leave(c)
    BY <2>3, <2>5 DEF Leave, Release, TypeOK
  <2>6. CASE Ping(c)
    <3>1. UNCHANGED <<now, session, member, request, born, used, revoked>>
      BY <2>6 DEF Ping
    <3>2. CASE socket' = [socket EXCEPT ![c].pc = "sending"] /\ UNCHANGED conns
      BY <2>2, <3>1, <3>2 DEF TypeOK
    <3>3. CASE Release(c)
      BY <2>3, <3>1, <3>3 DEF Release, TypeOK
    <3> QED BY <2>6, <3>2, <3>3 DEF Ping
  <2> QED BY <1>8, <2>4, <2>5, <2>6 DEF Connection
<1> QED BY <1>1, <1>2, <1>3, <1>4, <1>5, <1>6, <1>7, <1>8 DEF Next, Handle

-----------------------------------------------------------------------------
(* Only these steps touch the sessions, their use, or whom requests are for. *)
LEMMA SessionSteps ==
    ASSUME TypeOK, [Next]_vars
    PROVE  \/ UNCHANGED <<session, born, used, revoked>> /\ now' \in {now, now + 1}
              /\ \A r \in Requests : request'[r] \in {request[r], Idle}
           \/ \E s \in SessionIds : CreateSession(s)
           \/ \E r \in Requests, s \in SessionIds : Authenticate(r, s)
           \/ \E r \in Requests : Refresh(r) \/ Logout(r) \/ LogoutAll(r)
<1>1. CASE UNCHANGED vars \/ Tick \/ ChangeMembership
  BY <1>1 DEF vars, Tick, ChangeMembership
<1>2. ASSUME NEW r \in Requests, Finish(r) \/ \E c \in Sockets : Reserve(r, c)
      PROVE  /\ UNCHANGED <<now, session, born, used, revoked>>
             /\ \A q \in Requests : request'[q] \in {request[q], Idle}
  BY <1>2 DEF Finish, Reserve, Return, TypeOK
<1>3. ASSUME NEW c \in Sockets, Connection(c)
      PROVE  UNCHANGED <<now, session, born, used, revoked, request>>
  BY <1>3 DEF Connection, Upgrade, Leave, Ping, Event, SentMessage
<1> QED BY <1>1, <1>2, <1>3 DEF Next, Handle

(* No session is used before it is made, or made twice. *)
LEMMA UseStep == TypeOK /\ UsedOnce /\ [Next]_vars => UsedOnce'
<1> SUFFICES ASSUME TypeOK, UsedOnce, [Next]_vars PROVE UsedOnce'
  OBVIOUS
<1>1. CASE UNCHANGED <<session, used, revoked>>
           /\ \A r \in Requests : request'[r] \in {request[r], Idle}
  BY <1>1 DEF UsedOnce, Exists
<1>2. ASSUME NEW s \in SessionIds, CreateSession(s) PROVE UsedOnce'
  <2>1. /\ UNCHANGED <<request, revoked>> /\ now # 0
        /\ used' = [used EXCEPT ![s] = now]
        /\ \A t \in SessionIds \ {s} : session'[t] \in {NoRow, session[t]}
    BY <1>2 DEF CreateSession, TypeOK
  <2>2. \A t \in SessionIds : used[t] # 0 => used'[t] # 0
    BY <2>1 DEF TypeOK
  <2>3. used'[s] # 0
    BY <2>1 DEF TypeOK
  <2>4. \A r \in Requests : request[r] # Idle => request[r].session \in SessionIds
    BY DEF TypeOK
  <2>5. revoked \subseteq SessionIds
    BY DEF TypeOK
  <2> QED BY <2>1, <2>2, <2>3, <2>4, <2>5 DEF UsedOnce, Exists
<1>3. ASSUME NEW r \in Requests, NEW s \in SessionIds, Authenticate(r, s) PROVE UsedOnce'
  <2>1. /\ UNCHANGED <<session, revoked>> /\ now # 0 /\ used[s] # 0
        /\ used' = used \/ used' = [used EXCEPT ![s] = now]
        /\ request'[r].session = s /\ \A q \in Requests \ {r} : request'[q] = request[q]
    BY <1>3 DEF Authenticate, TypeOK, UsedOnce
  <2>2. \A t \in SessionIds : used[t] # 0 => used'[t] # 0
    BY <2>1 DEF TypeOK
  <2>3. \A q \in Requests : request[q] # Idle => request[q].session \in SessionIds
    BY DEF TypeOK
  <2>4. revoked \subseteq SessionIds
    BY DEF TypeOK
  <2> QED BY <2>1, <2>2, <2>3, <2>4 DEF UsedOnce, Exists
<1>4. ASSUME NEW r \in Requests, Refresh(r) PROVE UsedOnce'
  <2> DEFINE s == request[r].session
  <2>1. /\ s \in SessionIds /\ request[r] # Idle
        /\ used' \in {used, [used EXCEPT ![s] = now]}
        /\ \A t \in SessionIds \ {s} : session'[t] = session[t]
    BY <1>4, Refreshed DEF TypeOK
  <2>2. /\ UNCHANGED revoked /\ now # 0
        /\ \A q \in Requests : request'[q].session = request[q].session
        /\ \A q \in Requests : request'[q] # Idle => request[q] # Idle
    <3>1. request[r] \in [pc : {"refresh", "handle"}, session : SessionIds]
      BY <1>4, Fields DEF Refresh
    <3>2. request' = [request EXCEPT ![r].pc = "handle"] /\ UNCHANGED revoked /\ now # 0
      BY <1>4 DEF Refresh, TypeOK
    <3>3. request'[r].session = request[r].session
      BY <3>1, <3>2 DEF TypeOK
    <3>4. \A q \in Requests \ {r} : request'[q] = request[q]
      BY <3>2 DEF TypeOK
    <3> QED BY <2>1, <3>2, <3>3, <3>4
  <2>3. \A t \in SessionIds : used[t] # 0 => used'[t] # 0
    BY <2>1, <2>2 DEF TypeOK
  <2>4. used'[s] # 0
    BY <2>1, <2>2 DEF TypeOK, UsedOnce
  <2>5. \A q \in Requests : request[q] # Idle => request[q].session \in SessionIds
    BY DEF TypeOK
  <2>6. revoked \subseteq SessionIds
    BY DEF TypeOK
  <2> QED BY <2>1, <2>2, <2>3, <2>4, <2>5, <2>6 DEF UsedOnce, Exists
<1>5. ASSUME NEW r \in Requests, Logout(r) \/ LogoutAll(r) PROVE UsedOnce'
  <2>1. PICK S \in SUBSET SessionIds : Deleted(S) /\ \A s \in S : used[s] # 0
    <3>1. CASE Logout(r)
      <4>1. request[r].session \in SessionIds /\ used[request[r].session] # 0
        BY <3>1, Fields DEF Logout, UsedOnce
      <4> QED BY <3>1, <4>1 DEF Logout
    <3>2. CASE LogoutAll(r)
      BY <3>2 DEF LogoutAll, UsedOnce
    <3> QED BY <1>5, <3>1, <3>2
  <2>2. UNCHANGED used /\ \A q \in Requests : request'[q] \in {request[q], Idle}
    BY <1>5 DEF Logout, LogoutAll, Return, TypeOK
  <2>3. /\ revoked' = revoked \cup S
        /\ \A s \in SessionIds : session'[s] \in {session[s], NoRow}
    BY <2>1 DEF Deleted
  <2> QED BY <2>1, <2>2, <2>3 DEF UsedOnce, Exists
<1> QED BY <1>1, <1>2, <1>3, <1>4, <1>5, SessionSteps

(* A session that was logged out stays deleted. *)
LEMMA LogoutStep == TypeOK /\ UsedOnce /\ RevokedForGood /\ [Next]_vars => RevokedForGood'
<1> SUFFICES ASSUME TypeOK, UsedOnce, RevokedForGood, [Next]_vars PROVE RevokedForGood'
  OBVIOUS
<1>0. revoked \subseteq SessionIds
  BY DEF TypeOK
<1>1. CASE UNCHANGED <<session, revoked>>
  BY <1>1 DEF RevokedForGood, Exists
<1>2. ASSUME NEW s \in SessionIds, CreateSession(s) PROVE RevokedForGood'
  <2>1. s \notin revoked /\ UNCHANGED revoked
    BY <1>2 DEF CreateSession, UsedOnce
  <2>2. \A t \in SessionIds \ {s} : session'[t] \in {NoRow, session[t]}
    BY <1>2 DEF CreateSession
  <2> QED BY <1>0, <2>1, <2>2 DEF RevokedForGood, Exists
<1>3. ASSUME NEW r \in Requests, Refresh(r) PROVE RevokedForGood'
  <2>1. UNCHANGED revoked
    BY <1>3 DEF Refresh
  <2>2. \A t \in SessionIds : ~Exists(t) => session'[t] = session[t]
    BY <1>3, Refreshed DEF TypeOK
  <2> QED BY <1>0, <2>1, <2>2 DEF RevokedForGood, Exists
<1>4. ASSUME NEW r \in Requests, Logout(r) \/ LogoutAll(r) PROVE RevokedForGood'
  <2>1. PICK S \in SUBSET SessionIds : Deleted(S)
    BY <1>4, Fields DEF Logout, LogoutAll
  <2>2. /\ revoked' = revoked \cup S
        /\ \A s \in SessionIds : session'[s] = IF s \in S THEN NoRow ELSE session[s]
    BY <2>1 DEF Deleted
  <2> QED BY <1>0, <2>2 DEF RevokedForGood, Exists
<1>5. ASSUME NEW r \in Requests, NEW s \in SessionIds, Authenticate(r, s)
      PROVE  UNCHANGED <<session, revoked>>
  BY <1>5 DEF Authenticate
<1> QED BY <1>1, <1>2, <1>3, <1>4, <1>5, SessionSteps

(* How long it lasts, without the smaller of two numbers. *)
LEMMA DueTime ==
    ASSUME TypeOK, NEW s \in SessionIds, NEW x \in Int
    PROVE  /\ x >= Due(s) <=> x >= used[s] + Threshold \/ x >= born[s] + Cap
           /\ x > Due(s) <=> x > used[s] + Threshold \/ x > born[s] + Cap
<1>1. used[s] + Threshold \in Int /\ born[s] + Cap \in Int
  BY SessionsAssumption DEF TypeOK
<1>2. Due(s) = IF used[s] + Threshold <= born[s] + Cap THEN used[s] + Threshold
               ELSE born[s] + Cap
  BY <1>1, MinOfTwo DEF Due
<1> QED BY <1>1, <1>2

(* The two properties of lifetimes, session by session. *)
LEMMA RowsKept == TypeOK /\ UsedOnce /\ RevokedForGood /\ AllKept => Lifetimes
<1> SUFFICES ASSUME TypeOK, UsedOnce, RevokedForGood, AllKept PROVE Lifetimes
  OBVIOUS
<1>0. ASSUME NEW s \in SessionIds
      PROVE  RowKept(session[s], born[s], used[s], now, s \in revoked)
  BY DEF AllKept
<1>1. ASSUME NEW s \in SessionIds, Exists(s)
      PROVE  session[s].expires <= session[s].created + Cap
  BY <1>0, <1>1 DEF RowKept, Exists
<1>2. ASSUME NEW s \in SessionIds \ revoked, used[s] # 0
      PROVE  IF Exists(s) THEN session[s].expires >= Due(s) ELSE now > Due(s)
  <2>1. s \in SessionIds /\ s \notin revoked /\ now \in Int /\ session[s].expires \in Int
    BY SessionsAssumption DEF TypeOK, Times
  <2>2. CASE Exists(s)
    <3>1. session[s].expires >= used[s] + Threshold \/ session[s].expires >= born[s] + Cap
      BY <1>0, <2>1, <2>2 DEF RowKept, Exists
    <3> QED BY <2>1, <2>2, <3>1, DueTime
  <2>3. CASE ~Exists(s)
    <3>1. now > used[s] + Threshold \/ now > born[s] + Cap
      BY <1>0, <1>2, <2>1, <2>3 DEF RowKept, Exists
    <3> QED BY <2>1, <2>3, <3>1, DueTime
  <2> QED BY <2>2, <2>3
<1> QED BY <1>1, <1>2 DEF Lifetimes, HardCap, ActiveUsersStay

(* However requests, refreshes, logins and the clock interleave, sessions keep *)
(* their promise.                                                               *)
LEMMA KeptStep == TypeOK /\ UsedOnce /\ AllKept /\ [Next]_vars => AllKept'
<1> SUFFICES ASSUME TypeOK, UsedOnce, AllKept, [Next]_vars, NEW t \in SessionIds
             PROVE  RowKept(session'[t], born'[t], used'[t], now', t \in revoked')
  BY DEF AllKept
<1> DEFINE Kept == RowKept(session'[t], born'[t], used'[t], now', t \in revoked')
<1>0. RowKept(session[t], born[t], used[t], now, t \in revoked)
  BY DEF AllKept
<1>t. /\ now \in Nat /\ TTL \in Nat /\ Cap \in Nat /\ Threshold \in Nat
      /\ Threshold <= TTL /\ TTL <= Cap
      /\ born[t] \in Nat /\ used[t] \in Nat
      /\ session[t].created \in Nat /\ session[t].expires \in Nat
  BY SessionsAssumption DEF TypeOK, Times
<1>1. CASE UNCHANGED <<session, born, used, revoked>> /\ now' \in {now, now + 1}
  BY <1>0, <1>1, <1>t DEF RowKept
<1>2. ASSUME NEW s \in SessionIds, CreateSession(s) PROVE Kept
  <2>1. CASE t = s
    <3>1. /\ session'[t] = [created |-> now, expires |-> now + TTL]
          /\ used'[t] = now /\ born'[t] = now
      BY <1>2, <2>1 DEF CreateSession, TypeOK
    <3>2. session'[t].created = now /\ session'[t].expires = now + TTL /\ session'[t] # NoRow
      BY <1>t, <3>1, SessionsAssumption DEF NoRow, TypeOK
    <3> QED BY <1>t, <3>1, <3>2 DEF RowKept
  <2>2. CASE t # s
    <3>1. /\ session'[t] = IF Expired(t) THEN NoRow ELSE session[t]
          /\ used'[t] = used[t] /\ born'[t] = born[t] /\ UNCHANGED <<now, revoked>>
      BY <1>2, <2>2 DEF CreateSession, TypeOK
    <3> QED BY <1>0, <1>t, <3>1 DEF RowKept, Expired
  <2> QED BY <2>1, <2>2
<1>3. ASSUME NEW r \in Requests, NEW s \in SessionIds, Authenticate(r, s) PROVE Kept
  <2>1. UNCHANGED <<session, born, now, revoked>> /\ used'[t] \in {used[t], now}
    BY <1>3 DEF Authenticate, TypeOK
  <2>2. CASE used'[t] = used[t]
    BY <1>0, <2>1, <2>2
  <2>3. CASE used'[t] # used[t]
    <3>1. t = s /\ ~LastStretch(s) /\ used'[t] = now /\ session[t] # NoRow
      BY <1>3, <2>1, <2>3 DEF Authenticate, TypeOK, Exists
    <3>2. session[t].expires >= now + Threshold
      BY <1>t, <3>1 DEF LastStretch
    <3> QED BY <1>0, <2>1, <3>1, <3>2 DEF RowKept
  <2> QED BY <2>2, <2>3
<1>4. ASSUME NEW r \in Requests, Refresh(r) PROVE Kept
  <2> DEFINE s == request[r].session
  <2>1. /\ s \in SessionIds
        /\ used' = IF Exists(s) THEN [used EXCEPT ![s] = now] ELSE used
        /\ ~Exists(s) => UNCHANGED session
        /\ Exists(s) => session' = [session EXCEPT ![s] = Slid(session[s])]
        /\ UNCHANGED <<born, now, revoked>>
    BY <1>4, Refreshed DEF Refresh
  <2>2. CASE t # s \/ ~Exists(s)
    BY <1>0, <2>1, <2>2 DEF TypeOK
  <2>4. CASE t = s /\ Exists(s)
    <3>1. session'[t] = Slid(session[t]) /\ used'[t] = now
      BY <2>1, <2>4 DEF TypeOK
    <3>2. session'[t] = [created |-> session[t].created,
                         expires |-> IF now + TTL <= session[t].created + Cap THEN now + TTL
                                     ELSE session[t].created + Cap]
      BY <3>1, SlidRow
    <3>3. session[t].created = born[t] /\ used[t] # 0
      BY <1>0, <2>4 DEF RowKept, Exists, UsedOnce
    <3>4. /\ session'[t].created = born[t]
          /\ session'[t].expires = IF now + TTL <= born[t] + Cap THEN now + TTL ELSE born[t] + Cap
      BY <3>2, <3>3
    <3>5. now > 0
      BY SessionsAssumption DEF TypeOK
    <3> QED BY <1>t, <2>1, <3>1, <3>4, <3>5 DEF RowKept, NoRow
  <2> QED BY <2>2, <2>4
<1>5. ASSUME NEW r \in Requests, Logout(r) \/ LogoutAll(r) PROVE Kept
  <2>1. /\ session'[t] = session[t] \/ (session'[t] = NoRow /\ t \in revoked')
        /\ UNCHANGED <<born, used, now>> /\ revoked \subseteq revoked'
    BY <1>5 DEF Logout, LogoutAll, Deleted
  <2> QED BY <1>0, <2>1 DEF RowKept
<1> QED BY <1>1, <1>2, <1>3, <1>4, <1>5, SessionSteps

-----------------------------------------------------------------------------
(* Inv is inductive. *)
THEOREM InvHolds == Spec => []Inv
<1>1. Inv /\ [Next]_vars => Inv'
  BY TypeStep, UseStep, LogoutStep, KeptStep, SlotStep DEF Inv
<1> QED BY InitInv, <1>1, PTL DEF Spec

(* Every variable keeps its type; so no slot is released that was not taken. *)
THEOREM SessionsTypeOK == Spec => []TypeOK
<1>1. Inv => TypeOK
  BY DEF Inv
<1> QED BY <1>1, InvHolds, PTL

(* session.rs:23: however often it is refreshed, no session outlives the hard cap. *)
THEOREM CapHolds == Spec => []HardCap
<1>1. Inv => HardCap
  BY RowsKept DEF Inv, Lifetimes
<1> QED BY <1>1, InvHolds, PTL

(* session.rs:23: the row of a session that was used and not logged out is there  *)
(* for the threshold, or to the cap, whatever logins clean up meanwhile.          *)
THEOREM ActiveStay == Spec => []ActiveUsersStay
<1>1. Inv => ActiveUsersStay
  BY RowsKept DEF Inv, Lifetimes
<1> QED BY <1>1, InvHolds, PTL

(* auth.rs:203: a logout is final, whatever requests of the session are under way. *)
THEOREM LogoutIsFinal == Spec => []RevokedForGood
<1>1. Inv => RevokedForGood
  BY DEF Inv
<1> QED BY <1>1, InvHolds, PTL

(* ws.rs:124: the count of an account's connections is the number of its sockets. *)
THEOREM SlotsAreSockets == Spec => []SlotsMatchSockets
<1>1. Inv => SlotsMatchSockets
  BY DEF Inv
<1> QED BY <1>1, InvHolds, PTL
=============================================================================
