--------------------------------- MODULE Live ---------------------------------
(***************************************************************************)
(* Live updates of one browser tab: the broadcast channel and the socket   *)
(* loop of the server (ws.rs), and the tab's realtime loops, its background *)
(* refetches, its logins and its own changes (realtime.rs, actions.rs and   *)
(* main.rs of the frontend).                                                *)
(*                                                                         *)
(* Everyone else is the environment: they change tasks of the workspace, or *)
(* of others.  Of what the tab shows only this is kept: of which tasks it    *)
(* lacks the tab's own last change.  Timers (debounce, throttle, open        *)
(* editors, backoff) only delay a step.                                      *)
(***************************************************************************)
EXTENDS Integers, Sequences, FiniteSets

CONSTANTS
    Items,    \* the tasks the tab changes
    Loops,    \* slots for realtime loops of the tab
    Fetches,  \* slots for bootstrap requests under way
    Capacity, \* EVENT_CHANNEL_CAPACITY
    MaxEpoch  \* bound: times the tab loses its data (the epoch is 64 bits wide)

ASSUME LiveAssumption ==
    /\ IsFiniteSet(Loops)
    /\ Capacity \in Nat \ {0}
    /\ MaxEpoch \in Nat

VARIABLES
    session,  \* the tab's cookie names a valid session
    data,     \* the tab shows the workspace: data is Some
    lacks,    \* the tasks of whose last own change the tab shows nothing
    running,  \* realtime_running
    epoch,    \* realtime_epoch
    loop,     \* the realtime loops and the queues of their sockets
    pending,  \* REFETCH_PENDING
    fetch,    \* the bootstrap requests
    change,   \* the tab's own change under way
    owed,     \* history: a change others made has been sent to an open socket, not read yet
    acked     \* history: the tasks whose last own change has been confirmed

vars == <<session, data, lacks, running, epoch, loop, pending, fetch, change, owed, acked>>

FreeLoop == [pc |-> "free", epoch |-> 0, queue |-> <<>>, lagged |-> FALSE]
FreeFetch == [pc |-> "free", kind |-> "refresh", snap |-> {}]
NoChange == [pc |-> "none"]

Origins == {"other",      \* another client's change
            "own",        \* this tab's, with its client id
            "all",        \* notify_workspace_all
            "elsewhere"}  \* a change of another workspace

(* realtime_should_stop *)
ShouldStop(l) == ~data \/ epoch # loop[l].epoch

Init ==
    /\ session = TRUE
    /\ data = FALSE
    /\ lacks = {}
    /\ running = FALSE
    /\ epoch = 0
    /\ loop = [l \in Loops |-> FreeLoop]
    /\ pending = FALSE
    /\ fetch = [f \in Fetches |-> FreeFetch]
    /\ change = NoChange
    /\ owed = FALSE
    /\ acked = {}

-----------------------------------------------------------------------------
(* The effect of main.rs on every new value of data: one realtime loop starts *)
(* with the first data, and the epoch moves on when the data goes.             *)
Show(some) ==
    /\ data' = some
    /\ \/ /\ some /\ ~running
          /\ running' = TRUE
          /\ \E l \in Loops :
                /\ loop[l] = FreeLoop
                /\ loop' = [loop EXCEPT ![l].pc = "waiting", ![l].epoch = epoch]
          /\ UNCHANGED epoch
       \/ /\ ~some /\ running
          /\ epoch < MaxEpoch
          /\ epoch' = epoch + 1
          /\ running' = FALSE
          /\ UNCHANGED loop
       \/ /\ running = some
          /\ UNCHANGED <<running, epoch, loop>>

(* data is set to None: the workspace goes from the screen, and nothing is owed. *)
Clear ==
    /\ Show(FALSE)
    /\ lacks' = {}
    /\ owed' = FALSE
    /\ acked' = {}

-----------------------------------------------------------------------------
(* Events *)

(* Variant: the channel keeps every event.  (Each "Variant" is a change of the *)
(* definition after it that a property of this module must reject.)            *)
PushUnbounded(socket, origin) == [socket EXCEPT !.queue = Append(@, origin)]

(* broadcast::Sender::send: a receiver that is Capacity events behind loses the *)
(* oldest one.                                                                   *)
Push(socket, origin) ==
    IF Len(socket.queue) < Capacity
    THEN [socket EXCEPT !.queue = Append(@, origin)]
    ELSE [socket EXCEPT !.queue = Append(Tail(@), origin), !.lagged = TRUE]

(* Every socket is sent an event. *)
Sent(origin, to) ==
    [l \in Loops |-> IF to[l].pc = "open" THEN Push(to[l], origin) ELSE to[l]]

(* From now on a socket that is open owes the tab a refetch. *)
Owe == owed' = (owed \/ \E l \in Loops : loop[l].pc = "open" /\ ~ShouldStop(l))

(* Another client's handler commits a change and notifies the workspace.  (One *)
(* that is dropped while COMMIT is under way notifies nobody, and owes nothing.) *)
OtherChange ==
    /\ loop' = Sent("other", loop)
    /\ Owe
    /\ UNCHANGED <<session, data, lacks, running, epoch, pending, fetch, change, acked>>

ChangeElsewhere ==
    /\ loop' = Sent("elsewhere", loop)
    /\ UNCHANGED <<session, data, lacks, running, epoch, pending, fetch, change, owed, acked>>

(* Variant: an event is taken to be covered by a request already under way. *)
ScheduledUnlessFetching == pending \/ \A f \in Fetches : fetch[f].pc = "free"

(* schedule_refetch: one is pending, the earlier one or a new one. *)
Scheduled == TRUE

(* Only other clients' changes of this workspace and notify_workspace_all. *)
Concerns(origin) == origin \in {"other", "all"}

(* ws_loop: the next event; a receiver that lagged sends a resync instead. *)
Deliver(l) ==
    /\ loop[l].pc = "open"
    /\ \/ /\ loop[l].lagged
          /\ loop' = [loop EXCEPT ![l].lagged = FALSE]
          /\ pending' = Scheduled
       \/ /\ ~loop[l].lagged
          /\ loop[l].queue # <<>>
          /\ loop' = [loop EXCEPT ![l].queue = Tail(@)]
          /\ pending' = IF Concerns(Head(loop[l].queue)) THEN Scheduled ELSE pending
    /\ UNCHANGED <<session, data, lacks, running, epoch, fetch, change, owed, acked>>

-----------------------------------------------------------------------------
(* start_realtime *)

(* (The URL is made of the page's own location, which a page that the program  *)
(* serves always has: websocket_url is never None.)                             *)
Connect(l) ==
    /\ loop[l].pc = "waiting"
    /\ ~ShouldStop(l)
    /\ loop' = [loop EXCEPT ![l].pc = "connecting"]
    /\ UNCHANGED <<session, data, lacks, running, epoch, pending, fetch, change, owed, acked>>

(* ws_handler has found the session; ws_loop subscribes after the upgrade. *)
Subscribe(l) ==
    /\ loop[l].pc = "connecting"
    /\ session
    /\ loop' = [loop EXCEPT ![l].pc = "open"]
    /\ UNCHANGED <<session, data, lacks, running, epoch, pending, fetch, change, owed, acked>>

(* The connection is refused or breaks; the ping that finds the session revoked *)
(* closes it too.  Only one that has lived for five seconds is made up for.     *)
Disconnect(l) ==
    /\ loop[l].pc \in {"connecting", "open"}
    /\ ~ShouldStop(l)
    /\ loop' = [loop EXCEPT ![l].pc = "waiting", ![l].queue = <<>>, ![l].lagged = FALSE]
    /\ \/ pending' = Scheduled /\ UNCHANGED owed
       \/ owed' = FALSE /\ UNCHANGED pending
    /\ UNCHANGED <<session, data, lacks, running, epoch, fetch, change, acked>>

(* Variant: running is reset although a newer login owns it. *)
StopLoopResetting(l) ==
    /\ loop[l].pc # "free"
    /\ ShouldStop(l)
    /\ loop' = [loop EXCEPT ![l] = FreeLoop]
    /\ running' = FALSE
    /\ UNCHANGED <<session, data, lacks, epoch, pending, fetch, change, owed, acked>>

StopLoop(l) ==
    /\ loop[l].pc # "free"
    /\ ShouldStop(l)
    /\ loop' = [loop EXCEPT ![l] = FreeLoop]
    /\ running' = (running /\ epoch # loop[l].epoch)
    /\ UNCHANGED <<session, data, lacks, epoch, pending, fetch, change, owed, acked>>

-----------------------------------------------------------------------------
(* Bootstrap requests: refresh_bootstrap, and the reload after a login *)

Request(f, kind) == fetch' = [fetch EXCEPT ![f].pc = "sent", ![f].kind = kind]

(* The first load, and the auth screen after a login. *)
Reload(f) ==
    /\ ~data
    /\ \A g \in Fetches : fetch[g].kind # "reload"
    /\ fetch[f].pc = "free"
    /\ Request(f, "reload")
    /\ UNCHANGED <<session, data, lacks, running, epoch, loop, pending, change, owed, acked>>

(* The end of schedule_refetch's waits: the flag is cleared before the request. *)
Refetch(f) ==
    /\ pending
    /\ fetch[f].pc = "free"
    /\ pending' = FALSE
    /\ IF data THEN Request(f, "refresh") ELSE UNCHANGED fetch
    /\ UNCHANGED <<session, data, lacks, running, epoch, loop, change, owed, acked>>

(* update_member_role, add_existing_user_to_workspace and remove_member end with *)
(* a refresh, whatever the tab shows by then.                                      *)
Refresh(f) ==
    /\ fetch[f].pc = "free"
    /\ Request(f, "refresh")
    /\ UNCHANGED <<session, data, lacks, running, epoch, loop, pending, change, owed, acked>>

(* The server reads the workspace, or finds no session. *)
Answer(f) ==
    /\ fetch[f].pc = "sent"
    /\ IF session THEN fetch' = [fetch EXCEPT ![f].pc = "read"] /\ owed' = FALSE
       ELSE fetch' = [fetch EXCEPT ![f].pc = "unauthorized"] /\ UNCHANGED owed
    /\ UNCHANGED <<session, data, lacks, running, epoch, loop, pending, change, acked>>

Done(f) == fetch' = [fetch EXCEPT ![f] = FreeFetch]

(* set_data(Some(next)), whatever the tab shows by then. *)
Apply(f) ==
    /\ fetch[f].pc = "read"
    /\ Done(f)
    /\ Show(TRUE)
    /\ lacks' = fetch[f].snap
    /\ UNCHANGED <<session, pending, change, owed, acked>>

ApplyUnauthorized(f) ==
    /\ fetch[f].pc = "unauthorized"
    /\ Done(f)
    /\ Clear
    /\ UNCHANGED <<session, pending, change>>

(* Any other error: a refetch is given up, a reload clears the screen. *)
FetchFails(f) ==
    /\ fetch[f].pc \in {"sent", "read"}
    /\ Done(f)
    /\ IF fetch[f].kind = "reload" THEN Clear
       ELSE owed' = FALSE /\ UNCHANGED <<data, lacks, running, epoch, loop, acked>>
    /\ UNCHANGED <<session, pending, change>>

-----------------------------------------------------------------------------
(* Sessions *)

(* Logout, logout-all or expiry, here or in another tab with the same cookie. *)
EndSession ==
    /\ session
    /\ session' = FALSE
    /\ UNCHANGED <<data, lacks, running, epoch, loop, pending, fetch, change, owed, acked>>

Login ==
    /\ ~session
    /\ session' = TRUE
    /\ UNCHANGED <<data, lacks, running, epoch, loop, pending, fetch, change, owed, acked>>

(* The answer to this tab's logout, whatever it is. *)
Logout ==
    /\ data
    /\ Clear
    /\ UNCHANGED <<session, pending, fetch, change>>

-----------------------------------------------------------------------------
(* optimistic_move *)

Move(i) ==
    /\ data
    /\ change = NoChange
    /\ change' = [pc |-> "sent", item |-> i, undo |-> i \in lacks]
    /\ UNCHANGED <<session, data, lacks, running, epoch, loop, pending, fetch, owed, acked>>

(* Variant: the follow-up is announced with the originator's client id. *)
OwnClientId == "own"

(* notify_workspace_all carries no client id. *)
NoClientId == "all"

(* What was read before the commit lacks the change. *)
Lacking(i) == [f \in Fetches |->
    IF fetch[f].pc = "read" THEN [fetch[f] EXCEPT !.snap = @ \cup {i}] ELSE fetch[f]]

(* move_task commits and notifies; the originator skips its own event.  If the *)
(* move completed a recurring task, a task was added that this tab lacks too.   *)
CommitMove ==
    /\ change.pc = "sent"
    /\ session
    /\ \/ loop' = Sent("own", loop) /\ UNCHANGED owed
       \/ loop' = Sent(NoClientId, Sent("own", loop)) /\ Owe
    /\ fetch' = Lacking(change.item)
    /\ lacks' = IF data THEN lacks \cup {change.item} ELSE lacks
    /\ acked' = acked \ {change.item}
    /\ change' = [change EXCEPT !.pc = "committed", !.undo = TRUE]
    /\ UNCHANGED <<session, data, running, epoch, pending>>

(* The tab's copy of the changed task is replaced. *)
Replace(old) ==
    lacks' = IF data /\ old THEN lacks \cup {change.item} ELSE lacks \ {change.item}

(* replace_task with the answer of fetch_task, read after the commit. *)
Moved ==
    /\ change.pc = "committed"
    /\ Replace(FALSE)
    /\ acked' = IF data THEN acked \cup {change.item} ELSE acked
    /\ change' = NoChange
    /\ UNCHANGED <<session, data, running, epoch, loop, pending, fetch, owed>>

(* The server refuses, or the request or its answer is lost: the card snaps back. *)
MoveFails ==
    /\ change # NoChange
    /\ Replace(change.undo)
    /\ change' = NoChange
    /\ UNCHANGED <<session, data, running, epoch, loop, pending, fetch, owed, acked>>

-----------------------------------------------------------------------------
Server ==
    \/ OtherChange \/ ChangeElsewhere \/ CommitMove \/ EndSession \/ Login
    \/ \E f \in Fetches : Answer(f)

Tab ==
    \/ \E l \in Loops : Connect(l) \/ Subscribe(l) \/ Deliver(l) \/ Disconnect(l) \/ StopLoop(l)
    \/ \E f \in Fetches : Reload(f) \/ Refetch(f) \/ Refresh(f) \/ Apply(f)
                        \/ ApplyUnauthorized(f) \/ FetchFails(f)
    \/ \E i \in Items : Move(i)
    \/ Moved \/ MoveFails \/ Logout

Next == Server \/ Tab

Spec == Init /\ [][Next]_vars

-----------------------------------------------------------------------------
(* Properties *)

(* Every variable keeps its type (the signals and cells of the tab, the sockets' queues). *)
TypeOK ==
    /\ session \in BOOLEAN
    /\ data \in BOOLEAN
    /\ lacks \in SUBSET Items
    /\ running \in BOOLEAN
    /\ epoch \in 0..MaxEpoch
    /\ loop \in [Loops -> [pc : {"free", "waiting", "connecting", "open"}, epoch : 0..MaxEpoch,
                           queue : UNION {[1..n -> Origins] : n \in 0..Capacity}, lagged : BOOLEAN]]
    /\ pending \in BOOLEAN
    /\ fetch \in [Fetches -> [pc : {"free", "sent", "read", "unauthorized"},
                              kind : {"refresh", "reload"}, snap : SUBSET Items]]
    /\ change \in [pc : {"sent", "committed"}, item : Items, undo : BOOLEAN] \cup {NoChange}
    /\ owed \in BOOLEAN
    /\ acked \in SUBSET Items

Current == {l \in Loops : loop[l].pc # "free" /\ loop[l].epoch = epoch}

(* main.rs:197: one WebSocket connection per login.  A tab that shows data has *)
(* exactly one loop of its epoch, however fast it logs out and in again.        *)
OneLoopPerLogin ==
    /\ Cardinality(Current) <= 1
    /\ data => running /\ Current # {}

(* A bootstrap request that will read the workspace, or find no session. *)
Fetching == pending \/ \E f \in Fetches : fetch[f].pc \in {"sent", "unauthorized"}

Announced == \E l \in Current :
    loop[l].lagged \/ \E k \in 1..Len(loop[l].queue) : Concerns(loop[l].queue[k])

(* realtime.rs:48: bursts of events are coalesced, and none is lost: what others *)
(* changed (or the server added) while the tab's socket was open has been read by *)
(* a bootstrap request of the tab, or is about to be, unless a request failed or  *)
(* a connection broke within its first five seconds.  (Read, not shown for good: a *)
(* late answer of an older request may still be put over it, see OwnChangesStay.)  *)
NoUpdateLost == owed => Announced \/ Fetching

Quiet ==
    /\ ~Announced /\ ~Fetching
    /\ change = NoChange
    /\ \A f \in Fetches : fetch[f].pc = "free"

(* ws.rs:44: the originating tab skips refetching its own mutation, for it is    *)
(* already applied locally: a tab with nothing under way still shows it.          *)
OwnChangesStay == data /\ Quiet => lacks \cap acked = {}

=============================================================================
