------------------------------ MODULE LiveProofs ------------------------------
(***************************************************************************)
(* Proofs about Live, for any tasks, loops, requests and capacity of the    *)
(* channel: a login has one realtime loop, and no update is lost.           *)
(***************************************************************************)
EXTENDS Live, FiniteSetTheorems, SequenceTheorems, TLAPS

Queues == UNION {[1..n -> Origins] : n \in 0..Capacity}
LoopStates == [pc : {"free", "waiting", "connecting", "open"}, epoch : 0..MaxEpoch,
               queue : Queues, lagged : BOOLEAN]

(* The socket will have its loop schedule a refetch. *)
Noted(s) == s.lagged \/ \E k \in 1..Len(s.queue) : Concerns(s.queue[k])

(* The tab shows data while one loop is its own; loops of earlier logins, which *)
(* may not have noticed yet, have earlier epochs.                               *)
OwnLoop ==
    /\ running = data
    /\ \A l \in Loops : loop[l].pc # "free" =>
        /\ loop[l].epoch <= epoch
        /\ ~data => loop[l].epoch < epoch
    /\ \A l, m \in Current : l = m
    /\ data => Current # {}

(* Without data nothing is owed. *)
OwedToData == owed => data

Inv == TypeOK /\ OwnLoop /\ OwedToData /\ NoUpdateLost

-----------------------------------------------------------------------------
(* A queue is a sequence of at most Capacity events. *)
LEMMA QueueIsSeq ==
    ASSUME NEW q
    PROVE  q \in Queues <=> q \in Seq(Origins) /\ Len(q) <= Capacity
<1>1. ASSUME NEW n \in 0..Capacity, q \in [1..n -> Origins]
      PROVE  q \in Seq(Origins) /\ Len(q) <= Capacity
  BY <1>1, LiveAssumption
<1>2. ASSUME q \in Seq(Origins), Len(q) <= Capacity PROVE q \in Queues
  <2>1. Len(q) \in 0..Capacity /\ q \in [1..Len(q) -> Origins]
    BY <1>2, LiveAssumption
  <2> QED BY <2>1 DEF Queues
<1> QED BY <1>1, <1>2 DEF Queues

(* So is an empty one. *)
LEMMA EmptyQueue == <<>> \in Queues
<1>1. <<>> \in Seq(Origins) /\ Len(<<>>) <= Capacity
  BY LiveAssumption
<1> QED BY <1>1, QueueIsSeq

(* An event that is sent to a socket that has to be noted is, and so are those *)
(* before it, be it by lagging.                                                 *)
LEMMA PushNotes ==
    ASSUME NEW s \in LoopStates, NEW o \in Origins
    PROVE  /\ Push(s, o) \in LoopStates
           /\ Push(s, o).pc = s.pc /\ Push(s, o).epoch = s.epoch
           /\ Noted(s) \/ Concerns(o) => Noted(Push(s, o))
<1> DEFINE q == s.queue
<1>0. q \in Seq(Origins) /\ Len(q) <= Capacity /\ Len(q) \in Nat /\ Capacity \in Nat \ {0}
  BY QueueIsSeq, LiveAssumption DEF LoopStates
<1>1. CASE Len(q) < Capacity
  <2>1. Push(s, o) = [s EXCEPT !.queue = Append(q, o)]
    BY <1>1 DEF Push
  <2>2. /\ Append(q, o) \in Seq(Origins) /\ Len(Append(q, o)) = Len(q) + 1
        /\ \A k \in 1..Len(q) : Append(q, o)[k] = q[k]
        /\ Append(q, o)[Len(q) + 1] = o
    BY <1>0, AppendProperties
  <2>3. Append(q, o) \in Queues
    <3>1. Len(Append(q, o)) <= Capacity
      BY <1>0, <1>1, <2>2
    <3> QED BY <2>2, <3>1, QueueIsSeq
  <2>4. /\ Push(s, o).queue = Append(q, o) /\ Push(s, o).lagged = s.lagged
        /\ Push(s, o).pc = s.pc /\ Push(s, o).epoch = s.epoch
    BY <2>1 DEF LoopStates
  <2>5. Push(s, o) \in LoopStates
    BY <2>1, <2>3 DEF LoopStates
  <2>6. Noted(s) \/ Concerns(o) => Noted(Push(s, o))
    BY <1>0, <2>2, <2>4 DEF Noted
  <2> QED BY <2>4, <2>5, <2>6
<1>2. CASE ~(Len(q) < Capacity)
  <2>1. Push(s, o) = [s EXCEPT !.queue = Append(Tail(q), o), !.lagged = TRUE]
    BY <1>2 DEF Push
  <2>2. q # <<>> /\ Tail(q) \in Seq(Origins) /\ Len(Tail(q)) = Len(q) - 1
    BY <1>0, <1>2
  <2>3. Append(Tail(q), o) \in Seq(Origins) /\ Len(Append(Tail(q), o)) = Len(q)
    BY <1>0, <2>2
  <2>4. Append(Tail(q), o) \in Queues
    BY <1>0, <2>3, QueueIsSeq
  <2> QED BY <2>1, <2>4 DEF LoopStates, Noted
<1> QED BY <1>1, <1>2

(* So it is for every socket an event is sent to. *)
LEMMA SentNotes ==
    ASSUME NEW to \in [Loops -> LoopStates], NEW o \in Origins
    PROVE  /\ Sent(o, to) \in [Loops -> LoopStates]
           /\ \A l \in Loops :
                /\ Sent(o, to)[l].pc = to[l].pc /\ Sent(o, to)[l].epoch = to[l].epoch
                /\ Noted(to[l]) => Noted(Sent(o, to)[l])
                /\ to[l].pc = "open" /\ Concerns(o) => Noted(Sent(o, to)[l])
BY PushNotes DEF Sent

(* What is taken from a queue is noted in `pending`. *)
LEMMA Delivered ==
    ASSUME TypeOK, NEW l \in Loops, Deliver(l)
    PROVE  /\ loop' \in [Loops -> LoopStates] /\ pending' \in BOOLEAN
           /\ \A m \in Loops : loop'[m].pc = loop[m].pc /\ loop'[m].epoch = loop[m].epoch
           /\ \A m \in Loops \ {l} : loop'[m] = loop[m]
           /\ Noted(loop[l]) => pending' \/ Noted(loop'[l])
           /\ pending => pending'
<1>0. loop \in [Loops -> LoopStates] /\ pending \in BOOLEAN
  BY DEF TypeOK, LoopStates, Queues
<1>1. CASE loop[l].lagged
  <2>1. loop' = [loop EXCEPT ![l].lagged = FALSE] /\ pending' = TRUE
    BY <1>1 DEF Deliver, Scheduled
  <2> QED BY <1>0, <2>1 DEF LoopStates
<1>2. CASE ~loop[l].lagged
  <2> DEFINE q == loop[l].queue
  <2>1. /\ q # <<>> /\ loop' = [loop EXCEPT ![l].queue = Tail(q)]
        /\ pending' = IF Concerns(Head(q)) THEN TRUE ELSE pending
    BY <1>2 DEF Deliver, Scheduled
  <2>2. q \in Seq(Origins) /\ Len(q) <= Capacity /\ Len(q) \in Nat /\ Len(q) > 0
    BY <1>0, <2>1, QueueIsSeq DEF LoopStates
  <2>3. /\ Tail(q) \in Seq(Origins) /\ Len(Tail(q)) = Len(q) - 1 /\ Head(q) = q[1]
        /\ \A k \in 1..(Len(q) - 1) : Tail(q)[k] = q[k + 1]
    BY <2>1, <2>2, HeadTailProperties
  <2>4. Tail(q) \in Queues
    <3>1. Len(Tail(q)) <= Capacity
      BY <2>2, <2>3, LiveAssumption
    <3> QED BY <2>3, <3>1, QueueIsSeq
  <2>5. ASSUME NEW k \in 1..Len(q), Concerns(q[k]), ~Concerns(Head(q))
        PROVE  \E j \in 1..Len(Tail(q)) : Concerns(Tail(q)[j])
    <3>1. k # 1
      BY <2>3, <2>5
    <3>2. k - 1 \in 1..(Len(q) - 1) /\ (k - 1) + 1 = k
      BY <2>2, <3>1
    <3>3. Tail(q)[k - 1] = q[k]
      BY <2>3, <3>2
    <3> QED BY <2>3, <2>5, <3>2, <3>3
  <2>6. loop'[l].queue = Tail(q) /\ loop' \in [Loops -> LoopStates]
    BY <1>0, <2>1, <2>4 DEF LoopStates
  <2>7. Noted(loop[l]) => pending' \/ Noted(loop'[l])
    BY <1>2, <2>1, <2>5, <2>6 DEF Noted
  <2>8. /\ \A m \in Loops : loop'[m].pc = loop[m].pc /\ loop'[m].epoch = loop[m].epoch
        /\ \A m \in Loops \ {l} : loop'[m] = loop[m]
    BY <1>0, <2>1 DEF LoopStates
  <2> QED BY <1>0, <2>1, <2>6, <2>7, <2>8
<1> QED BY <1>1, <1>2

-----------------------------------------------------------------------------
(* A tab that shows nothing yet has no loop, and owes nothing. *)
LEMMA InitInv == Init => Inv
<1> SUFFICES ASSUME Init PROVE Inv
  OBVIOUS
<1>1. FreeLoop \in LoopStates
  BY EmptyQueue, LiveAssumption DEF FreeLoop, LoopStates
<1>2. loop \in [Loops -> LoopStates]
  BY <1>1 DEF Init
<1>3. TypeOK
  <2>1. FreeFetch \in [pc : {"free", "sent", "read", "unauthorized"},
                       kind : {"refresh", "reload"}, snap : SUBSET Items]
    BY DEF FreeFetch
  <2>2. epoch \in 0..MaxEpoch
    BY LiveAssumption DEF Init
  <2>3. LoopStates = [pc : {"free", "waiting", "connecting", "open"}, epoch : 0..MaxEpoch,
                      queue : UNION {[1..n -> Origins] : n \in 0..Capacity}, lagged : BOOLEAN]
    BY DEF LoopStates, Queues
  <2> QED BY <1>2, <2>1, <2>2, <2>3 DEF Init, TypeOK
<1>4. OwnLoop /\ OwedToData /\ NoUpdateLost
  BY DEF Init, OwnLoop, OwedToData, NoUpdateLost, FreeLoop, Current
<1> QED BY <1>3, <1>4 DEF Inv

(* main.rs keeps the types when the data comes or goes. *)
LEMMA ShowType ==
    ASSUME TypeOK, NEW some \in BOOLEAN, Show(some)
    PROVE  /\ data' \in BOOLEAN /\ running' \in BOOLEAN /\ epoch' \in 0..MaxEpoch
           /\ loop' \in [Loops -> LoopStates]
<1>0. loop \in [Loops -> LoopStates]
  BY DEF TypeOK, LoopStates, Queues
<1>1. data' \in BOOLEAN /\ running' \in BOOLEAN
  BY DEF Show, TypeOK
<1>2. epoch' \in 0..MaxEpoch
  BY LiveAssumption DEF Show, TypeOK
<1>3. loop' \in [Loops -> LoopStates]
  <2>1. ASSUME NEW l \in Loops, loop' = [loop EXCEPT ![l].pc = "waiting", ![l].epoch = epoch]
        PROVE  loop' \in [Loops -> LoopStates]
    <3>1. [loop[l] EXCEPT !.pc = "waiting", !.epoch = epoch] \in LoopStates
      BY <1>0 DEF TypeOK, LoopStates
    <3>2. loop' = [loop EXCEPT ![l] = [loop[l] EXCEPT !.pc = "waiting", !.epoch = epoch]]
      BY <2>1
    <3> QED BY <1>0, <3>1, <3>2
  <2> QED BY <1>0, <2>1 DEF Show
<1> QED BY <1>1, <1>2, <1>3

(* Every step keeps the types. *)
LEMMA TypeStep == TypeOK /\ [Next]_vars => TypeOK'
<1> SUFFICES ASSUME TypeOK, [Next]_vars PROVE TypeOK'
  OBVIOUS
<1> DEFINE Fetched == [pc : {"free", "sent", "read", "unauthorized"},
                       kind : {"refresh", "reload"}, snap : SUBSET Items]
<1>0. loop \in [Loops -> LoopStates] /\ fetch \in [Fetches -> Fetched]
  BY DEF TypeOK, LoopStates, Queues
<1>a. ASSUME loop' \in [Loops -> LoopStates], UNCHANGED <<session, data, lacks, epoch>>,
             running' \in BOOLEAN, pending' \in BOOLEAN, owed' \in BOOLEAN,
             UNCHANGED <<fetch, change, acked>>
      PROVE  TypeOK'
  BY <1>a DEF TypeOK, LoopStates, Queues
<1>b. ASSUME fetch' \in [Fetches -> Fetched], UNCHANGED <<session, data, lacks, running, epoch>>,
             UNCHANGED <<loop, change, acked>>, pending' \in BOOLEAN, owed' \in BOOLEAN
      PROVE  TypeOK'
  BY <1>b DEF TypeOK
<1>c. \A o \in {"other", "own", "all", "elsewhere"} : o \in Origins
  BY DEF Origins
<1>1. CASE OtherChange \/ ChangeElsewhere
  <2>1. loop' \in [Loops -> LoopStates]
    BY <1>0, <1>1, <1>c, SentNotes DEF OtherChange, ChangeElsewhere
  <2>2. owed' \in BOOLEAN
    BY <1>1 DEF OtherChange, ChangeElsewhere, Owe, TypeOK
  <2> QED BY <1>1, <1>a, <2>1, <2>2 DEF OtherChange, ChangeElsewhere, TypeOK
<1>2. CASE CommitMove
  <2>1. Sent("own", loop) \in [Loops -> LoopStates]
    BY <1>0, <1>c, SentNotes
  <2>2. Sent("all", Sent("own", loop)) \in [Loops -> LoopStates]
    BY <2>1, <1>c, SentNotes
  <2>3. loop' \in [Loops -> LoopStates]
    BY <1>2, <2>1, <2>2 DEF CommitMove, NoClientId
  <2>4. owed' \in BOOLEAN
    BY <1>2 DEF CommitMove, Owe, TypeOK
  <2>5. change \in [pc : {"sent", "committed"}, item : Items, undo : BOOLEAN]
    BY <1>2 DEF CommitMove, NoChange, TypeOK
  <2>6. fetch' \in [Fetches -> Fetched]
    BY <1>0, <1>2, <2>5 DEF CommitMove, Lacking
  <2>7. change' \in [pc : {"sent", "committed"}, item : Items, undo : BOOLEAN]
    BY <1>2, <2>5 DEF CommitMove
  <2> QED BY <1>2, <2>3, <2>4, <2>5, <2>6, <2>7 DEF CommitMove, TypeOK, LoopStates, Queues
<1>3. CASE EndSession \/ Login
  BY <1>3 DEF EndSession, Login, TypeOK
<1>4. ASSUME NEW f \in Fetches, Answer(f) \/ Reload(f) \/ Refetch(f) \/ Refresh(f) PROVE TypeOK'
  <2>1. ASSUME NEW kind \in {"refresh", "reload"}, Request(f, kind)
        PROVE  fetch' \in [Fetches -> Fetched]
    <3>1. [fetch[f] EXCEPT !.pc = "sent", !.kind = kind] \in Fetched
      BY <1>0
    <3>2. fetch' = [fetch EXCEPT ![f] = [fetch[f] EXCEPT !.pc = "sent", !.kind = kind]]
      BY <2>1 DEF Request
    <3> QED BY <1>0, <3>1, <3>2
  <2>2. Answer(f) => fetch' \in [Fetches -> Fetched]
    BY <1>0 DEF Answer
  <2>3. fetch' \in [Fetches -> Fetched]
    BY <1>0, <1>4, <2>1, <2>2 DEF Reload, Refetch, Refresh
  <2>4. pending' \in BOOLEAN /\ owed' \in BOOLEAN
    BY <1>4 DEF Answer, Reload, Refetch, Refresh, TypeOK
  <2> QED BY <1>4, <1>b, <2>3, <2>4 DEF Answer, Reload, Refetch, Refresh
<1>5. ASSUME NEW l \in Loops, Connect(l) \/ Subscribe(l) PROVE TypeOK'
  <2>1. loop' \in [Loops -> LoopStates]
    BY <1>0, <1>5 DEF Connect, Subscribe, LoopStates
  <2> QED BY <1>5, <1>a, <2>1 DEF Connect, Subscribe, TypeOK
<1>6. ASSUME NEW l \in Loops, Deliver(l) PROVE TypeOK'
  BY <1>6, <1>a, Delivered DEF Deliver, TypeOK
<1>7. ASSUME NEW l \in Loops, Disconnect(l) PROVE TypeOK'
  <2> DEFINE s == [loop[l] EXCEPT !.pc = "waiting", !.queue = <<>>, !.lagged = FALSE]
  <2>1. s \in LoopStates
    BY <1>0, EmptyQueue DEF LoopStates
  <2>2. loop' = [loop EXCEPT ![l] = s]
    BY <1>7 DEF Disconnect
  <2>3. loop' \in [Loops -> LoopStates]
    BY <1>0, <2>1, <2>2
  <2> QED BY <1>7, <1>a, <2>3 DEF Disconnect, Scheduled, TypeOK
<1>8. ASSUME NEW l \in Loops, StopLoop(l) PROVE TypeOK'
  <2>1. FreeLoop \in LoopStates
    BY EmptyQueue, LiveAssumption DEF FreeLoop, LoopStates
  <2>2. loop' \in [Loops -> LoopStates]
    BY <1>0, <1>8, <2>1 DEF StopLoop
  <2>3. running' \in BOOLEAN
    BY <1>8 DEF StopLoop, TypeOK
  <2> QED BY <1>8, <1>a, <2>2, <2>3 DEF StopLoop, TypeOK
<1>9. ASSUME NEW f \in Fetches, Apply(f) \/ ApplyUnauthorized(f) \/ FetchFails(f) PROVE TypeOK'
  <2>1. fetch' \in [Fetches -> Fetched]
    <3>1. FreeFetch \in Fetched
      BY DEF FreeFetch
    <3>2. Done(f)
      BY <1>9 DEF Apply, ApplyUnauthorized, FetchFails
    <3> QED BY <1>0, <3>1, <3>2 DEF Done
  <2>2. /\ data' \in BOOLEAN /\ running' \in BOOLEAN /\ epoch' \in 0..MaxEpoch
        /\ loop' \in [Loops -> LoopStates]
    BY <1>0, <1>9, ShowType DEF Apply, ApplyUnauthorized, FetchFails, Clear, TypeOK
  <2>3. lacks' \in SUBSET Items /\ owed' \in BOOLEAN /\ acked' \in SUBSET Items
    BY <1>0, <1>9 DEF Apply, ApplyUnauthorized, FetchFails, Clear, TypeOK
  <2>4. UNCHANGED <<session, pending, change>>
    BY <1>9 DEF Apply, ApplyUnauthorized, FetchFails
  <2> QED BY <2>1, <2>2, <2>3, <2>4 DEF TypeOK, LoopStates, Queues
<1>10. CASE Logout
  <2>1. /\ data' \in BOOLEAN /\ running' \in BOOLEAN /\ epoch' \in 0..MaxEpoch
        /\ loop' \in [Loops -> LoopStates]
    BY <1>10, ShowType DEF Logout, Clear
  <2> QED BY <1>10, <2>1 DEF Logout, Clear, TypeOK, LoopStates, Queues
<1>11. ASSUME NEW i \in Items, Move(i) PROVE TypeOK'
  BY <1>11 DEF Move, TypeOK
<1>12. CASE Moved \/ MoveFails
  <2>1. change.item \in Items
    <3>1. Moved => change # NoChange
      BY DEF Moved, NoChange
    <3>2. MoveFails => change # NoChange
      BY DEF MoveFails
    <3> QED BY <1>12, <3>1, <3>2 DEF TypeOK
  <2>2. lacks' \in SUBSET Items /\ acked' \in SUBSET Items
    BY <1>12, <2>1 DEF Moved, MoveFails, Replace, TypeOK
  <2> QED BY <1>12, <2>2 DEF Moved, MoveFails, TypeOK
<1>13. CASE UNCHANGED vars
  BY <1>13 DEF vars, TypeOK
<1> QED BY <1>1, <1>2, <1>3, <1>4, <1>5, <1>6, <1>7, <1>8, <1>9, <1>10, <1>11, <1>12, <1>13
        DEF Next, Server, Tab

-----------------------------------------------------------------------------
(* What the loops of the tab are, apart from the queues of their sockets. *)
SameLoops == \A l \in Loops :
    /\ loop'[l].epoch = loop[l].epoch
    /\ loop'[l].pc = "free" <=> loop[l].pc = "free"

(* Loops begin when the data comes, and end by themselves after it is gone. *)
LEMMA LoopSteps ==
    ASSUME TypeOK, [Next]_vars
    PROVE  \/ UNCHANGED <<data, running, epoch>> /\ SameLoops /\ (owed' => owed \/ data)
           \/ \E l \in Loops : StopLoop(l)
           \/ \E f \in Fetches : Apply(f)
           \/ Clear
<1>0. loop \in [Loops -> LoopStates]
  BY DEF TypeOK, LoopStates, Queues
<1>a. Owe => (owed' => owed \/ data)
  BY DEF Owe, ShouldStop
<1>b. UNCHANGED loop => SameLoops
  BY DEF SameLoops
<1>1. CASE OtherChange \/ ChangeElsewhere
  BY <1>0, <1>1, <1>a, SentNotes DEF OtherChange, ChangeElsewhere, SameLoops, Origins
<1>2. CASE CommitMove
  <2>1. SameLoops
    <3>1. \A o \in {"own", "all"} : o \in Origins
      BY DEF Origins
    <3>2. /\ Sent("own", loop) \in [Loops -> LoopStates]
          /\ \A l \in Loops : Sent("own", loop)[l].pc = loop[l].pc
          /\ \A l \in Loops : Sent("own", loop)[l].epoch = loop[l].epoch
      BY <1>0, <3>1, SentNotes
    <3>3. \A l \in Loops :
            /\ Sent("all", Sent("own", loop))[l].pc = loop[l].pc
            /\ Sent("all", Sent("own", loop))[l].epoch = loop[l].epoch
      BY <3>1, <3>2, SentNotes
    <3> QED BY <1>2, <3>2, <3>3 DEF CommitMove, NoClientId, SameLoops
  <2> QED BY <1>2, <1>a, <2>1 DEF CommitMove
<1>3. CASE EndSession \/ Login \/ Moved \/ MoveFails \/ (\E i \in Items : Move(i)) \/ UNCHANGED vars
  BY <1>3, <1>b DEF EndSession, Login, Moved, MoveFails, Move, vars
<1>4. ASSUME NEW f \in Fetches, Answer(f) \/ Reload(f) \/ Refetch(f) \/ Refresh(f)
      PROVE  UNCHANGED <<data, running, epoch, loop>> /\ (owed' => owed)
  BY <1>4 DEF Answer, Reload, Refetch, Refresh
<1>5. ASSUME NEW l \in Loops, Connect(l) \/ Subscribe(l) \/ Disconnect(l)
      PROVE  UNCHANGED <<data, running, epoch>> /\ SameLoops /\ (owed' => owed)
  BY <1>0, <1>5 DEF Connect, Subscribe, Disconnect, SameLoops, LoopStates
<1>6. ASSUME NEW l \in Loops, Deliver(l)
      PROVE  UNCHANGED <<data, running, epoch, owed>> /\ SameLoops
  BY <1>6, Delivered DEF Deliver, SameLoops
<1>7. ASSUME NEW f \in Fetches, ApplyUnauthorized(f) \/ FetchFails(f)
      PROVE  Clear \/ (UNCHANGED <<data, running, epoch, loop>> /\ ~owed')
  BY <1>7 DEF ApplyUnauthorized, FetchFails
<1>8. Logout => Clear
  BY DEF Logout
<1> QED BY <1>b, <1>1, <1>2, <1>3, <1>4, <1>5, <1>6, <1>7, <1>8 DEF Next, Server, Tab

(* However fast the tab logs out and in, its loops keep apart by their epochs. *)
LEMMA OwnLoopStep == TypeOK /\ OwnLoop /\ [Next]_vars => OwnLoop'
<1> SUFFICES ASSUME TypeOK, OwnLoop, [Next]_vars PROVE OwnLoop'
  OBVIOUS
<1>0. loop \in [Loops -> LoopStates] /\ epoch \in 0..MaxEpoch /\ data \in BOOLEAN
  BY DEF TypeOK, LoopStates, Queues
<1>1. CASE UNCHANGED <<data, running, epoch>> /\ SameLoops
  <2>1. Current' = Current
    BY <1>1 DEF Current, SameLoops
  <2> QED BY <1>1, <2>1 DEF OwnLoop, SameLoops
<1>2. ASSUME NEW l \in Loops, StopLoop(l) PROVE OwnLoop'
  <2>1. /\ UNCHANGED <<data, epoch>> /\ loop' = [loop EXCEPT ![l] = FreeLoop]
        /\ running' = (running /\ epoch # loop[l].epoch) /\ loop[l].pc # "free"
        /\ ~data \/ epoch # loop[l].epoch
    BY <1>2 DEF StopLoop, ShouldStop
  <2>2. epoch # loop[l].epoch
    BY <1>0, <2>1 DEF OwnLoop, LoopStates
  <2>3. running' = running
    BY <2>1, <2>2 DEF OwnLoop, TypeOK
  <2>4. \A m \in Loops \ {l} : loop'[m] = loop[m]
    BY <1>0, <2>1
  <2>5. loop'[l].pc = "free"
    BY <1>0, <2>1 DEF FreeLoop
  <2>6. Current' = Current
    BY <2>1, <2>2, <2>4, <2>5 DEF Current
  <2> QED BY <2>1, <2>3, <2>4, <2>5, <2>6 DEF OwnLoop
<1>3. ASSUME NEW f \in Fetches, Apply(f) PROVE OwnLoop'
  <2>1. CASE ~running
    <3>1. PICK l \in Loops :
            /\ loop[l] = FreeLoop
            /\ loop' = [loop EXCEPT ![l].pc = "waiting", ![l].epoch = epoch]
      BY <1>3, <2>1 DEF Apply, Show
    <3>2. data' = TRUE /\ running' = TRUE /\ epoch' = epoch
      BY <1>3, <2>1 DEF Apply, Show
    <3>3. loop'[l].pc = "waiting" /\ loop'[l].epoch = epoch
      BY <1>0, <3>1
    <3>4. \A m \in Loops \ {l} : loop'[m] = loop[m]
      BY <1>0, <3>1
    <3>5. \A m \in Loops : loop[m].pc # "free" => loop[m].epoch < epoch
      BY <2>1 DEF OwnLoop
    <3>6. Current' = {l}
      BY <1>0, <3>2, <3>3, <3>4, <3>5 DEF Current, LoopStates
    <3> QED BY <1>0, <3>2, <3>3, <3>4, <3>5, <3>6 DEF OwnLoop
  <2>2. CASE running
    <3>1. data' = TRUE /\ UNCHANGED <<running, epoch, loop>>
      BY <1>3, <2>2 DEF Apply, Show
    <3> QED BY <2>2, <3>1 DEF OwnLoop, Current
  <2> QED BY <2>1, <2>2
<1>4. CASE Clear
  <2>1. data' = FALSE
    BY <1>4 DEF Clear, Show
  <2>2. /\ running' = FALSE /\ UNCHANGED loop
        /\ \A l \in Loops : loop[l].pc # "free" => loop[l].epoch < epoch'
    <3>1. CASE running = TRUE
      <4>1. epoch' = epoch + 1 /\ running' = FALSE /\ UNCHANGED loop
        BY <1>4, <3>1 DEF Clear, Show
      <4>2. \A l \in Loops : loop[l].pc # "free" => loop[l].epoch < epoch + 1
        BY <1>0 DEF OwnLoop, LoopStates
      <4> QED BY <4>1, <4>2
    <3>2. CASE running = FALSE
      <4>1. UNCHANGED <<running, epoch, loop>>
        BY <1>4, <3>2 DEF Clear, Show
      <4>2. \A l \in Loops : loop[l].pc # "free" => loop[l].epoch < epoch
        BY <3>2 DEF OwnLoop
      <4> QED BY <3>2, <4>1, <4>2
    <3> QED BY <3>1, <3>2 DEF TypeOK
  <2>3. epoch' \in Int /\ \A l \in Loops : loop[l].epoch \in Int
    <3>1. Show(FALSE) /\ FALSE \in BOOLEAN
      BY <1>4 DEF Clear
    <3>2. epoch' \in 0..MaxEpoch
      BY <3>1, ShowType
    <3>3. \A l \in Loops : loop[l].epoch \in 0..MaxEpoch
      BY <1>0 DEF LoopStates
    <3> QED BY <3>2, <3>3
  <2>4. Current' = {}
    BY <2>2, <2>3 DEF Current
  <2>5. \A l \in Loops : loop'[l].pc # "free" =>
          loop'[l].epoch <= epoch' /\ loop'[l].epoch < epoch'
    BY <2>2, <2>3
  <2> QED BY <2>1, <2>2, <2>4, <2>5 DEF OwnLoop
<1> QED BY <1>1, <1>2, <1>3, <1>4, LoopSteps

(* What is owed is owed to data. *)
LEMMA OwedStep == TypeOK /\ OwedToData /\ [Next]_vars => OwedToData'
<1> SUFFICES ASSUME TypeOK, OwedToData, [Next]_vars PROVE OwedToData'
  OBVIOUS
<1>1. ASSUME NEW l \in Loops, StopLoop(l) PROVE UNCHANGED <<data, owed>>
  BY <1>1 DEF StopLoop
<1>2. ASSUME NEW f \in Fetches, Apply(f) PROVE data'
  BY <1>2 DEF Apply, Show
<1>3. Clear => ~owed'
  BY DEF Clear
<1> QED BY <1>1, <1>2, <1>3, LoopSteps DEF OwedToData

-----------------------------------------------------------------------------
(* An update is on its way to the tab. *)
OnItsWay == Announced \/ Fetching

(* Announced, in terms of what sockets have noted. *)
LEMMA AnnouncedNotes == Announced <=> \E l \in Current : Noted(loop[l])
BY DEF Announced, Noted

(* Events that are sent do not push out the notice of earlier ones. *)
LEMMA SentKeeps ==
    ASSUME NEW to \in [Loops -> LoopStates], NEW o \in Origins,
           NEW l \in Loops, Noted(to[l]) \/ (to[l].pc = "open" /\ Concerns(o))
    PROVE  Noted(Sent(o, to)[l])
BY SentNotes

(* What is owed is announced by a socket of the tab or about to be read, *)
(* however events overtake each other, are dropped or are coalesced.     *)
LEMMA UpdateStep ==
    TypeOK /\ OwnLoop /\ OwedToData /\ NoUpdateLost /\ [Next]_vars => NoUpdateLost'
<1> SUFFICES ASSUME TypeOK, OwnLoop, OwedToData, owed => OnItsWay, [Next]_vars, owed'
             PROVE  OnItsWay'
  BY DEF NoUpdateLost, OnItsWay
<1>0. loop \in [Loops -> LoopStates]
  BY DEF TypeOK, LoopStates, Queues
<1>a. ASSUME OnItsWay, UNCHANGED epoch,
             \A l \in Current : loop'[l].pc # "free" /\ loop'[l].epoch = loop[l].epoch,
             \A l \in Current : Noted(loop[l]) => Noted(loop'[l]) \/ pending',
             pending => pending' \/ \E f \in Fetches : fetch'[f].pc \in {"sent", "unauthorized"},
             \A f \in Fetches : fetch[f].pc \in {"sent", "unauthorized"} =>
                fetch'[f].pc \in {"sent", "unauthorized"}
      PROVE  OnItsWay'
  <2>1. CASE Fetching
    BY <1>a, <2>1 DEF OnItsWay, Fetching
  <2>2. CASE Announced
    <3>1. PICK l \in Current : Noted(loop[l])
      BY <2>2, AnnouncedNotes
    <3>2. l \in Current'
      BY <1>a DEF Current
    <3>3. Noted(loop'[l]) => Announced'
      BY <3>2 DEF Announced, Noted
    <3> QED BY <1>a, <3>1, <3>3 DEF OnItsWay, Fetching
  <2> QED BY <1>a, <2>1, <2>2 DEF OnItsWay
<1>b. ASSUME UNCHANGED epoch,
             \A l \in Current : loop'[l].pc # "free" /\ loop'[l].epoch = loop[l].epoch,
             \E l \in Loops : loop[l].pc = "open" /\ ~ShouldStop(l) /\ Noted(loop'[l])
      PROVE  OnItsWay'
  <2>1. PICK l \in Loops : loop[l].pc = "open" /\ ~ShouldStop(l) /\ Noted(loop'[l])
    BY <1>b
  <2>2. l \in Current'
    BY <1>b, <2>1 DEF Current, ShouldStop
  <2> QED BY <2>1, <2>2 DEF OnItsWay, Announced, Noted
<1>1. CASE OtherChange \/ ChangeElsewhere
  <2>1. PICK o \in Origins :
          loop' = Sent(o, loop) /\ (UNCHANGED owed \/ (Owe /\ Concerns(o)))
    BY <1>1 DEF OtherChange, ChangeElsewhere, Origins, Concerns
  <2>2. \A l \in Loops :
          /\ loop'[l].pc = loop[l].pc /\ loop'[l].epoch = loop[l].epoch
          /\ Noted(loop[l]) => Noted(loop'[l])
          /\ loop[l].pc = "open" /\ Concerns(o) => Noted(loop'[l])
    BY <1>0, <2>1, SentNotes
  <2>3. UNCHANGED <<epoch, pending, fetch>>
    BY <1>1 DEF OtherChange, ChangeElsewhere
  <2>4. \A l \in Current : loop'[l].pc # "free" /\ loop'[l].epoch = loop[l].epoch
    BY <2>2 DEF Current
  <2>5. CASE OnItsWay
    BY <1>a, <2>2, <2>3, <2>4, <2>5 DEF Current
  <2>6. CASE ~OnItsWay
    <3>1. Concerns(o) /\ \E l \in Loops : loop[l].pc = "open" /\ ~ShouldStop(l)
      BY <2>1, <2>6 DEF Owe
    <3> QED BY <1>b, <2>2, <2>3, <2>4, <3>1
  <2> QED BY <2>5, <2>6
<1>2. CASE CommitMove
  <2>1. "own" \in Origins /\ "all" \in Origins /\ Concerns("all")
    BY DEF Origins, Concerns
  <2> DEFINE own == Sent("own", loop)
  <2>2. /\ own \in [Loops -> LoopStates]
        /\ \A l \in Loops : own[l].pc = loop[l].pc /\ own[l].epoch = loop[l].epoch
        /\ \A l \in Loops : Noted(loop[l]) => Noted(own[l])
    BY <1>0, <2>1, SentNotes
  <2> HIDE DEF own
  <2>3. \A l \in Loops :
          /\ Sent("all", own)[l].pc = own[l].pc /\ Sent("all", own)[l].epoch = own[l].epoch
          /\ Noted(own[l]) => Noted(Sent("all", own)[l])
          /\ own[l].pc = "open" => Noted(Sent("all", own)[l])
    BY <2>1, <2>2, SentNotes
  <2>4. \/ loop' = own /\ UNCHANGED owed
        \/ loop' = Sent("all", own) /\ Owe
    BY <1>2 DEF CommitMove, NoClientId, own
  <2>5. /\ UNCHANGED <<epoch, pending>>
        /\ \A f \in Fetches : fetch'[f].pc = fetch[f].pc
    BY <1>2 DEF CommitMove, Lacking, TypeOK
  <2>6. /\ \A l \in Current : loop'[l].pc # "free" /\ loop'[l].epoch = loop[l].epoch
        /\ \A l \in Loops : Noted(loop[l]) => Noted(loop'[l])
    BY <2>2, <2>3, <2>4 DEF Current
  <2>7. CASE OnItsWay
    BY <1>a, <2>5, <2>6, <2>7 DEF Current
  <2>8. CASE ~OnItsWay
    <3>1. loop' = Sent("all", own) /\ \E l \in Loops : loop[l].pc = "open" /\ ~ShouldStop(l)
      BY <2>4, <2>8 DEF Owe
    <3> QED BY <1>b, <2>2, <2>3, <2>5, <2>6, <3>1
  <2> QED BY <2>7, <2>8
<1>3. CASE EndSession \/ Login \/ Moved \/ MoveFails \/ (\E i \in Items : Move(i)) \/ UNCHANGED vars
  <2>1. UNCHANGED <<epoch, loop, pending, fetch, owed>>
    BY <1>3 DEF EndSession, Login, Moved, MoveFails, Move, vars
  <2> QED BY <2>1 DEF OnItsWay, Announced, Fetching, Current
<1>4. ASSUME NEW f \in Fetches, Answer(f) PROVE OnItsWay'
  <2>1. fetch'[f].pc = "unauthorized"
    BY <1>4 DEF Answer, TypeOK
  <2> QED BY <2>1 DEF OnItsWay, Fetching
<1>5. ASSUME NEW f \in Fetches, Reload(f) \/ Refetch(f) \/ Refresh(f) PROVE OnItsWay'
  <2>1. UNCHANGED <<epoch, loop, owed, data>>
    BY <1>5 DEF Reload, Refetch, Refresh
  <2>2. fetch'[f].pc = "sent"
    <3>1. \/ \E kind : Request(f, kind)
          \/ ~data
      BY <1>5 DEF Reload, Refetch, Refresh
    <3>2. data
      BY <2>1 DEF OwedToData
    <3>3. fetch \in [Fetches -> [pc : {"free", "sent", "read", "unauthorized"},
                                 kind : {"refresh", "reload"}, snap : SUBSET Items]]
      BY DEF TypeOK
    <3> QED BY <3>1, <3>2, <3>3 DEF Request
  <2> QED BY <2>2 DEF OnItsWay, Fetching
<1>6. ASSUME NEW l \in Loops, Connect(l) \/ Subscribe(l) PROVE OnItsWay'
  <2>1. UNCHANGED <<epoch, pending, fetch, owed>>
    BY <1>6 DEF Connect, Subscribe
  <2>2. \A m \in Loops : loop'[m].epoch = loop[m].epoch /\ (Noted(loop[m]) => Noted(loop'[m]))
    <3>1. PICK label : loop' = [loop EXCEPT ![l] = [loop[l] EXCEPT !.pc = label]]
      BY <1>6 DEF Connect, Subscribe
    <3>2. \A m \in Loops \ {l} : loop'[m] = loop[m]
      BY <1>0, <3>1
    <3>3. loop'[l] = [loop[l] EXCEPT !.pc = label] /\ loop[l] \in LoopStates
      BY <1>0, <3>1
    <3>4. /\ loop'[l].epoch = loop[l].epoch /\ loop'[l].queue = loop[l].queue
          /\ loop'[l].lagged = loop[l].lagged
      BY <3>3 DEF LoopStates
    <3> QED BY <3>2, <3>4 DEF Noted
  <2>3. \A m \in Current : loop'[m].pc # "free"
    BY <1>0, <1>6 DEF Connect, Subscribe, LoopStates, Current
  <2> QED BY <1>a, <2>1, <2>2, <2>3 DEF Current
<1>7. ASSUME NEW l \in Loops, Deliver(l) PROVE OnItsWay'
  <2>1. UNCHANGED <<epoch, fetch, owed>>
    BY <1>7 DEF Deliver
  <2>2. /\ \A m \in Loops : loop'[m].pc = loop[m].pc /\ loop'[m].epoch = loop[m].epoch
        /\ \A m \in Loops : Noted(loop[m]) => Noted(loop'[m]) \/ pending'
        /\ pending => pending'
    BY <1>7, Delivered
  <2> QED BY <1>a, <2>1, <2>2 DEF Current
<1>8. ASSUME NEW l \in Loops, Disconnect(l) PROVE OnItsWay'
  BY <1>8 DEF Disconnect, Scheduled, OnItsWay, Fetching
<1>9. ASSUME NEW l \in Loops, StopLoop(l) PROVE OnItsWay'
  <2>1. /\ UNCHANGED <<data, epoch, pending, fetch, owed>>
        /\ ~data \/ epoch # loop[l].epoch
        /\ loop' = [loop EXCEPT ![l] = FreeLoop]
    BY <1>9 DEF StopLoop, ShouldStop
  <2>2. data
    BY <2>1 DEF OwedToData
  <2>3. l \notin Current
    BY <2>1, <2>2 DEF Current
  <2>4. \A m \in Current : loop'[m] = loop[m]
    BY <1>0, <2>1, <2>3 DEF Current
  <2> QED BY <1>a, <2>1, <2>4 DEF Current
<1>10. ASSUME NEW f \in Fetches, Apply(f) PROVE OnItsWay'
  <2>1. running /\ UNCHANGED <<epoch, loop, pending, owed>>
    <3>1. owed /\ running = TRUE
      BY <1>10 DEF Apply, OwedToData, OwnLoop, TypeOK
    <3> QED BY <1>10, <3>1 DEF Apply, Show
  <2>2. fetch[f].pc = "read" /\ \A g \in Fetches \ {f} : fetch'[g] = fetch[g]
    BY <1>10 DEF Apply, Done, TypeOK
  <2> QED BY <1>a, <2>1, <2>2 DEF Current
<1>11. ASSUME NEW f \in Fetches, ApplyUnauthorized(f) \/ FetchFails(f) PROVE FALSE
  BY <1>11 DEF ApplyUnauthorized, FetchFails, Clear
<1>12. ~Logout
  BY DEF Logout, Clear
<1> QED BY <1>1, <1>2, <1>3, <1>4, <1>5, <1>6, <1>7, <1>8, <1>9, <1>10, <1>11, <1>12
        DEF Next, Server, Tab

-----------------------------------------------------------------------------
(* Inv is inductive. *)
THEOREM InvHolds == Spec => []Inv
<1>1. Inv /\ [Next]_vars => Inv'
  BY TypeStep, OwnLoopStep, OwedStep, UpdateStep DEF Inv
<1> QED BY InitInv, <1>1, PTL DEF Spec

(* Every variable keeps its type; no queue outgrows the channel. *)
THEOREM LiveTypeOK == Spec => []TypeOK
<1>1. Inv => TypeOK
  BY DEF Inv
<1> QED BY <1>1, InvHolds, PTL

(* main.rs:197: a tab that shows data has one loop of its login, however fast it *)
(* logs out and in and however late earlier loops notice.                        *)
THEOREM OneLoop == Spec => []OneLoopPerLogin
<1>1. OwnLoop => OneLoopPerLogin
  <2> SUFFICES ASSUME OwnLoop PROVE OneLoopPerLogin
    OBVIOUS
  <2>1. Current = {} \/ \E l : Current = {l}
    BY DEF OwnLoop
  <2>2. Cardinality(Current) <= 1
    <3>1. CASE Current = {}
      BY <3>1, FS_EmptySet
    <3>2. CASE \E l : Current = {l}
      <4>1. Cardinality(Current) = 1
        BY <3>2, FS_Singleton
      <4> QED BY <4>1
    <3> QED BY <2>1, <3>1, <3>2
  <2> QED BY <2>2 DEF OwnLoop, OneLoopPerLogin
<1> QED BY <1>1, InvHolds, PTL DEF Inv

(* realtime.rs:48: an update that was sent to the tab's open socket has been read *)
(* or is about to be, for any capacity of the channel and number of requests.     *)
THEOREM UpdatesArrive == Spec => []NoUpdateLost
<1>1. Inv => NoUpdateLost
  BY DEF Inv
<1> QED BY <1>1, InvHolds, PTL
=============================================================================
