----------------------------- MODULE ContentProofs -----------------------------
(***************************************************************************)
(* Proofs about Content, for any users, names, texts and requests: a       *)
(* comment tells everybody it concerns once, its task counts it, and no    *)
(* two tickets get the same number.                                        *)
(***************************************************************************)
EXTENDS Content, FoldTheorems

(* Which kinds of request get to a statement. *)
KindOf(p, o) ==
    /\ p = "idle" => o = NoOp
    /\ p \in {"insert_comment", "count", "members", "notify"} => o.kind = "comment"
    /\ p \in {"read_row", "read_comments"} => o.kind \in {"comment", "detail"}
    /\ p = "check_assignee" => o.kind \in {"ticket", "patch"}
    /\ p \in {"lock_key", "read_key", "insert_ticket"} => o.kind = "ticket"
    /\ p = "update_ticket" => o.kind = "patch"
    /\ p = "delete_ticket" => o.kind = "drop"
    /\ p = "insert_milestone" => o.kind = "milestone"
    /\ p = "delete_milestone" => o.kind = "unmilestone"

KindsOK == \A r \in Requests : KindOf(pc[r], op[r])

(* There is room for the comments under way. *)
RoomLeft == Len(comments) + Cardinality(Commenting) <= MaxComments

(* A comment that has updated the row of the task holds it: nobody else commits *)
(* one before it, and its number stays the next.  Whoever may still be told was  *)
(* a member when the members were read.                                          *)
RowHeld == \A r \in Requests :
    /\ pc[r] \in {"count", "members", "notify"} => stored
    /\ pc[r] \in {"members", "notify"} => rowLock = r /\ num[r] = Len(comments) + 1
    /\ pc[r] = "notify" => active \subseteq seen[r]

(* A ticket's number is read and used under the advisory lock. *)
KeyHeld == \A r \in Requests :
    /\ pc[r] \in {"read_key", "insert_ticket"} => keyLock = r
    /\ pc[r] = "insert_ticket" => num[r] \in 1..MaxKey

(* Nobody has been told of a comment that is not there. *)
Unannounced ==
    \A u \in Users, n \in 1..MaxComments : n > Len(comments) =>
        About(u, "mention", n) = 0 /\ About(u, "comment", n) = 0

Inv == /\ TypeOK /\ KindsOK /\ RoomLeft /\ RowHeld /\ KeyHeld /\ Unannounced
       /\ CommentsCounted /\ TicketKeysNeverCollide /\ CommentsReachParticipants

-----------------------------------------------------------------------------
(* The texts: what taking the names in order comes to. *)

Everything(body) == UNION {Places(u, s) : u \in Users, s \in DOMAIN body}

(* What has been found when the names of a set have been looked for. *)
Found(members, body) ==
    [claimed : SUBSET Everything(body), out : SUBSET members]

(* Where u is mentioned, and what is found after u. *)
Hits(body, u, acc) == {s \in Matches(u, body) : Places(u, s) \cap acc.claimed = {}}

Taken(body, u, acc, then) ==
    /\ then.claimed = acc.claimed \cup UNION {Places(u, s) : s \in Hits(body, u, acc)}
    /\ then.out = IF Hits(body, u, acc) = {} THEN acc.out ELSE acc.out \cup {u}

(* The recursive function behind MentionedUserIds. *)
Takes(members, body, g) ==
    /\ g \in [SUBSET members -> Found(members, body)]
    /\ g[{}].claimed = {} /\ g[{}].out = {}
    /\ \A T \in SUBSET members : T # {} => Taken(body, Shortest(T), g[T \ {Shortest(T)}], g[T])

(* Some name is the shortest. *)
LEMMA ShortestIn ==
    ASSUME NEW T \in SUBSET Users, T # {}
    PROVE  Shortest(T) \in T /\ \A v \in T : Len(Name[Shortest(T)]) <= Len(Name[v])
<1> DEFINE D == {Len(Name[u]) : u \in T}
<1>1. D \subseteq Nat /\ D # {}
  BY ContentAssumption
<1>2. PICK n \in D : \A m \in D : n <= m
  <2> HIDE DEF D
  <2> QED BY <1>1, LeastNumber
<1>3. PICK u \in T : Len(Name[u]) = n
  OBVIOUS
<1>4. \A v \in T : Len(Name[u]) <= Len(Name[v])
  BY <1>2, <1>3
<1> QED BY <1>4 DEF Shortest

(* The two fields of a claim. *)
LEMMA ClaimFields ==
    ASSUME NEW body, NEW u, NEW acc
    PROVE  Taken(body, u, acc, Claim(body, u, acc))
<1>1. Claim(body, u, acc) =
        [claimed |-> acc.claimed \cup UNION {Places(u, s) : s \in Hits(body, u, acc)},
         out |-> IF Hits(body, u, acc) = {} THEN acc.out ELSE acc.out \cup {u}]
  BY DEF Claim, Hits
<1> QED BY <1>1 DEF Taken

(* Claiming stays among the places of the text. *)
LEMMA ClaimType ==
    ASSUME NEW body, NEW members \in SUBSET Users, NEW u \in members,
           NEW acc \in Found(members, body)
    PROVE  Claim(body, u, acc) \in Found(members, body)
<1> DEFINE hits == {s \in Matches(u, body) : Places(u, s) \cap acc.claimed = {}}
<1>1. hits \subseteq DOMAIN body
  BY DEF Matches
<1>2. UNION {Places(u, s) : s \in hits} \subseteq Everything(body)
  BY <1>1 DEF Everything
<1>3. acc.claimed \subseteq Everything(body) /\ acc.out \subseteq members
  BY DEF Found
<1>4. Claim(body, u, acc) = [claimed |-> acc.claimed \cup UNION {Places(u, s) : s \in hits},
                             out |-> IF hits = {} THEN acc.out ELSE acc.out \cup {u}]
  BY DEF Claim
<1> HIDE DEF hits
<1> QED BY <1>2, <1>3, <1>4 DEF Found

(* There is such a function, and MentionedUserIds is its value. *)
LEMMA MentionsTaken ==
    ASSUME NEW body, NEW members \in SUBSET Users
    PROVE  \E g : Takes(members, body, g) /\ MentionedUserIds(body, members) = g[members].out
<1> DEFINE base == [claimed |-> {}, out |-> {}]
           pick == [T \in SUBSET members |-> Shortest(T)]
           V == Found(members, body)
           step == [p \in members \X V |-> Claim(body, p[1], p[2])]
           Solves(g) == g = [T \in SUBSET members |-> IF T = {} THEN base
                               ELSE Claim(body, Shortest(T), g[T \ {Shortest(T)}])]
<1>0. \A T \in SUBSET members : T # {} => Shortest(T) \in T
  BY ShortestIn
<1>1. \E g : IsFold(g, members, V, base, pick, step)
  <2>1. \A T \in SUBSET members : T # {} => pick[T] \in T
    BY <1>0
  <2>2. base \in V
    BY DEF Found
  <2>3. step \in [members \X V -> V]
    <3>1. \A p \in members \X V : Claim(body, p[1], p[2]) \in V
      BY ClaimType
    <3> QED BY <3>1
  <2>4. IsFiniteSet(members)
    BY ContentAssumption, FS_Subset
  <2> HIDE DEF pick, step, V, base
  <2> QED BY <2>1, <2>2, <2>3, <2>4, FoldExists
<1>2. PICK g \in [SUBSET members -> V] : \A T \in SUBSET members :
        g[T] = IF T = {} THEN base ELSE step[<<pick[T], g[T \ {pick[T]}]>>]
  BY <1>1 DEF IsFold
<1>3. ASSUME NEW T \in SUBSET members
      PROVE  g[T] = IF T = {} THEN base ELSE Claim(body, Shortest(T), g[T \ {Shortest(T)}])
  <2>1. T # {} => Shortest(T) \in members /\ g[T \ {Shortest(T)}] \in V
    BY <1>0
  <2> QED BY <1>2, <2>1
<1>4. Solves(g)
  BY <1>3
<1>5. DEFINE it == CHOOSE it : Solves(it)
<1>6. Solves(it)
  <2> HIDE DEF Solves
  <2> QED BY <1>4
<1>7. MentionedUserIds(body, members) = it[members].out
  BY DEF MentionedUserIds, MapThenFoldSet
<1> HIDE DEF it
<1>8. \A T \in SUBSET members :
        it[T] = IF T = {} THEN base ELSE Claim(body, Shortest(T), it[T \ {Shortest(T)}])
  BY <1>6
<1>9. \A T \in SUBSET members : it[T] = g[T]
  <2> DEFINE D == {T \in SUBSET members : it[T] # g[T]}
  <2> SUFFICES ASSUME D # {} PROVE FALSE
    OBVIOUS
  <2>1. PICK T \in D : \A U \in D : U \subseteq T => U = T
    <3>1. D \subseteq SUBSET members /\ IsFiniteSet(members)
      BY ContentAssumption, FS_Subset
    <3> HIDE DEF D
    <3> QED BY <3>1, SmallestSubset
  <2>2. T # {} /\ Shortest(T) \in T
    BY <1>0, <1>3, <1>8
  <2>3. it[T \ {Shortest(T)}] = g[T \ {Shortest(T)}]
    BY <2>1, <2>2
  <2> QED BY <1>3, <1>8, <2>2, <2>3
<1>10. Takes(members, body, it)
  <2>1. it \in [SUBSET members -> V]
    BY <1>6, <1>9
  <2>2. it[{}].claimed = {} /\ it[{}].out = {}
    <3>1. it[{}] = base
      BY <1>8
    <3> QED BY <3>1
  <2>3. ASSUME NEW T \in SUBSET members, T # {}
        PROVE  Taken(body, Shortest(T), it[T \ {Shortest(T)}], it[T])
    <3>1. it[T] = Claim(body, Shortest(T), it[T \ {Shortest(T)}])
      BY <1>8, <2>3
    <3> QED BY <3>1, ClaimFields
  <2> QED BY <2>1, <2>2, <2>3 DEF Takes
<1> QED BY <1>7, <1>10

(* Only members whose "@Name" stands in the text are mentioned. *)
LEMMA MentionsStand ==
    ASSUME NEW body, NEW members \in SUBSET Users
    PROVE  /\ MentionedUserIds(body, members) \subseteq members
           /\ \A u \in MentionedUserIds(body, members) : Matches(u, body) # {}
<1>1. PICK g : Takes(members, body, g) /\ MentionedUserIds(body, members) = g[members].out
  BY MentionsTaken
<1> DEFINE Stands(T) == \A u \in g[T].out : Matches(u, body) # {}
           D == {T \in SUBSET members : ~Stands(T)}
<1>2. D = {}
  <2> SUFFICES ASSUME D # {} PROVE FALSE
    OBVIOUS
  <2>1. PICK T \in D : \A U \in D : U \subseteq T => U = T
    <3>1. D \subseteq SUBSET members /\ IsFiniteSet(members)
      BY ContentAssumption, FS_Subset
    <3> HIDE DEF D
    <3> QED BY <3>1, SmallestSubset
  <2>2. T # {}
    BY <1>1, <2>1 DEF Takes
  <2> DEFINE x == Shortest(T)
             rest == g[T \ {x}]
             hits == Hits(body, x, rest)
  <2>3. x \in T
    BY <2>2, ShortestIn
  <2>4. Stands(T \ {x})
    BY <2>1, <2>3
  <2>5. g[T].out = IF hits = {} THEN rest.out ELSE rest.out \cup {x}
    BY <1>1, <2>2 DEF Takes, Taken
  <2>6. hits # {} => Matches(x, body) # {}
    BY DEF Hits
  <2> HIDE DEF x, hits, rest
  <2>7. Stands(T)
    BY <2>4, <2>5, <2>6 DEF rest
  <2> QED BY <2>1, <2>7
<1>3. g[members].out \subseteq members
  BY <1>1 DEF Takes, Found
<1> QED BY <1>1, <1>2, <1>3

(* Whoever is clearly mentioned is among them: what longer names claim is elsewhere. *)
LEMMA ClearMentionsFound ==
    ASSUME NEW body, NEW members \in SUBSET Users, NEW u \in members, ClearlyMentioned(u, body)
    PROVE  u \in MentionedUserIds(body, members)
<1>1. PICK g : Takes(members, body, g) /\ MentionedUserIds(body, members) = g[members].out
  BY MentionsTaken
<1>2. PICK s \in Matches(u, body) :
        \A v \in Users \ {u} : Len(Name[v]) >= Len(Name[u]) =>
            \A q \in Matches(v, body) : Places(u, s) \cap Places(v, q) = {}
  BY DEF ClearlyMentioned
<1>f. IsFiniteSet(members)
  BY ContentAssumption, FS_Subset
<1> DEFINE Longer(T) == u \notin T /\ \A v \in T : Len(Name[v]) >= Len(Name[u])
           Free(T) == Longer(T) => g[T].claimed \cap Places(u, s) = {}
           D == {T \in SUBSET members : ~Free(T)}
           E == {T \in SUBSET members : u \in T /\ u \notin g[T].out}
<1>t. ASSUME NEW T \in SUBSET members, T # {}
      PROVE  /\ Shortest(T) \in T /\ \A v \in T : Len(Name[Shortest(T)]) <= Len(Name[v])
             /\ T \ {Shortest(T)} \in SUBSET members
             /\ Taken(body, Shortest(T), g[T \ {Shortest(T)}], g[T])
  BY <1>1, <1>t, ShortestIn DEF Takes
<1>3. D = {}
  <2> SUFFICES ASSUME D # {} PROVE FALSE
    OBVIOUS
  <2>1. PICK T \in D : \A U \in D : U \subseteq T => U = T
    <3>1. D \subseteq SUBSET members
      OBVIOUS
    <3> HIDE DEF D
    <3> QED BY <1>f, <3>1, SmallestSubset
  <2>2. T # {} /\ Longer(T) /\ ~(g[T].claimed \cap Places(u, s) = {})
    BY <1>1, <2>1 DEF Takes
  <2> DEFINE x == Shortest(T)
             rest == g[T \ {x}]
             hits == Hits(body, x, rest)
  <2>3. x \in T /\ g[T].claimed = rest.claimed \cup UNION {Places(x, q) : q \in hits}
    BY <1>t, <2>2 DEF Taken
  <2>4. rest.claimed \cap Places(u, s) = {}
    <3>1. T \ {x} \in SUBSET members /\ T \ {x} # T /\ Longer(T \ {x})
      BY <2>2, <2>3
    <3>2. T \ {x} \notin D
      BY <2>1, <3>1
    <3> QED BY <3>1, <3>2
  <2>5. \A q \in hits : Places(u, s) \cap Places(x, q) = {}
    <3>1. x \in Users \ {u} /\ Len(Name[x]) >= Len(Name[u])
      BY <2>2, <2>3
    <3>2. hits \subseteq Matches(x, body)
      BY DEF Hits
    <3> HIDE DEF x, hits
    <3> QED BY <1>2, <3>1, <3>2
  <2> HIDE DEF x, hits, rest
  <2> QED BY <2>2, <2>3, <2>4, <2>5
<1>4. E = {}
  <2> SUFFICES ASSUME E # {} PROVE FALSE
    OBVIOUS
  <2>1. PICK T \in E : \A U \in E : U \subseteq T => U = T
    <3>1. E \subseteq SUBSET members
      OBVIOUS
    <3> HIDE DEF E
    <3> QED BY <1>f, <3>1, SmallestSubset
  <2>2. T \in SUBSET members /\ u \in T /\ u \notin g[T].out
    OBVIOUS
  <2> DEFINE x == Shortest(T)
             rest == g[T \ {x}]
             hits == Hits(body, x, rest)
  <2>3. x \in T /\ g[T].out = IF hits = {} THEN rest.out ELSE rest.out \cup {x}
    BY <1>t, <2>2 DEF Taken
  <2>4. CASE x = u
    <3>1. Longer(T \ {x}) /\ T \ {x} \in SUBSET members
      <4>1. \A v \in T : /\ Len(Name[x]) <= Len(Name[v])
                        /\ Len(Name[x]) \in Nat /\ Len(Name[v]) \in Nat
        BY <1>t, <2>2, ContentAssumption
      <4> HIDE DEF x
      <4> QED BY <2>2, <2>4, <4>1
    <3>2. rest.claimed \cap Places(u, s) = {}
      BY <1>3, <3>1
    <3>3. s \in hits
      BY <2>4, <3>2 DEF Hits
    <3> HIDE DEF x, hits, rest
    <3> QED BY <2>2, <2>3, <2>4, <3>3
  <2>5. CASE x # u
    <3>1. u \in rest.out
      BY <2>1, <2>2, <2>3, <2>5
    <3> HIDE DEF x, hits, rest
    <3> QED BY <2>2, <2>3, <3>1
  <2> QED BY <2>4, <2>5
<1> QED BY <1>1, <1>4

-----------------------------------------------------------------------------
(* Requests and steps *)

(* What a request asks for. *)
LEMMA OpFields ==
    ASSUME TypeOK, NEW r \in Requests
    PROVE  /\ op[r].kind = "comment" => op[r].user \in Users /\ op[r].body \in Bodies
           /\ op[r].kind = "ticket" => op[r].assignee \in Assignees \cup {None}
           /\ op[r].kind = "patch" => op[r].assignee \in Assignees \cup {None, Keep}
           /\ op[r].kind = "unmilestone" => op[r].id \in MilestoneIds
<1>1. op[r] \in Ops \cup {NoOp}
  BY DEF TypeOK
<1>2. CASE op[r] = NoOp
  BY <1>2 DEF NoOp
<1>3. CASE op[r] \in [kind : {"comment"}, user : Users, body : Bodies]
  BY <1>3
<1>4. CASE op[r] \in [kind : {"detail"}]
  BY <1>4
<1>5. CASE op[r] \in [kind : {"ticket"}, assignee : Assignees \cup {None}]
  BY <1>5
<1>6. CASE op[r] \in [kind : {"patch"}, id : TicketIds, assignee : Assignees \cup {None, Keep}]
  BY <1>6
<1>7. CASE op[r] \in [kind : {"drop"}, id : TicketIds]
  BY <1>7
<1>8. CASE op[r] \in [kind : {"milestone"}, user : Users]
  BY <1>8
<1>9. CASE op[r] \in [kind : {"unmilestone"}, id : MilestoneIds]
  BY <1>9
<1> QED BY <1>1, <1>2, <1>3, <1>4, <1>5, <1>6, <1>7, <1>8, <1>9 DEF Ops

FirstStatements == {"insert_comment", "read_row", "check_assignee", "lock_key", "update_ticket",
                    "delete_ticket", "insert_milestone", "delete_milestone"}

(* A request begins at a first statement of what it asks for, a comment with room. *)
LEMMA Begins ==
    ASSUME NEW r \in Requests, BeginAny(r)
    PROVE  \E o \in Ops : \E label \in FirstStatements :
             /\ Begin(r, o, label)
             /\ KindOf(label, o)
             /\ label = "insert_comment" => Len(comments) + Cardinality(Commenting) < MaxComments
<1>1. ASSUME NEW u \in Users, NEW body \in Bodies, BeginComment(r, u, body)
      PROVE  \E o \in Ops : /\ Begin(r, o, "insert_comment") /\ o.kind = "comment"
                            /\ Len(comments) + Cardinality(Commenting) < MaxComments
  <2>1. [kind |-> "comment", user |-> u, body |-> body] \in Ops
    BY DEF Ops
  <2> QED BY <1>1, <2>1 DEF BeginComment
<1>2. CASE BeginDetail(r)
  <2>1. [kind |-> "detail"] \in Ops
    BY DEF Ops
  <2> QED BY <1>2, <2>1 DEF BeginDetail, FirstStatements, KindOf
<1>3. CASE BeginCreateTicket(r)
  <2>1. PICK a \in Assignees \cup {None} : BeginAssignable(r, [kind |-> "ticket", assignee |-> a])
    BY <1>3 DEF BeginCreateTicket
  <2> DEFINE o == [kind |-> "ticket", assignee |-> a]
  <2>2. o \in Ops /\ o.kind = "ticket"
    BY DEF Ops
  <2>3. Begin(r, o, "check_assignee") \/ Begin(r, o, "lock_key")
    BY <2>1 DEF BeginAssignable, AfterCheck
  <2> HIDE DEF o
  <2> QED BY <2>2, <2>3 DEF FirstStatements, KindOf
<1>4. ASSUME NEW t \in TicketIds, BeginUpdateTicket(r, t)
      PROVE  \E o \in Ops : /\ o.kind = "patch"
                            /\ Begin(r, o, "check_assignee") \/ Begin(r, o, "update_ticket")
  <2>1. PICK a \in Assignees \cup {None, Keep} :
          BeginAssignable(r, [kind |-> "patch", id |-> t, assignee |-> a])
    BY <1>4 DEF BeginUpdateTicket
  <2> DEFINE o == [kind |-> "patch", id |-> t, assignee |-> a]
  <2>2. o \in Ops /\ o.kind = "patch"
    BY DEF Ops
  <2>3. Begin(r, o, "check_assignee") \/ Begin(r, o, "update_ticket")
    BY <2>1 DEF BeginAssignable, AfterCheck
  <2> HIDE DEF o
  <2> QED BY <2>2, <2>3
<1>5. ASSUME NEW t \in TicketIds, BeginDeleteTicket(r, t)
      PROVE  \E o \in Ops : Begin(r, o, "delete_ticket") /\ o.kind = "drop"
  <2>1. [kind |-> "drop", id |-> t] \in Ops
    BY DEF Ops
  <2> QED BY <1>5, <2>1 DEF BeginDeleteTicket
<1>6. ASSUME NEW u \in Users, BeginMilestone(r, u)
      PROVE  \E o \in Ops : Begin(r, o, "insert_milestone") /\ o.kind = "milestone"
  <2>1. [kind |-> "milestone", user |-> u] \in Ops
    BY DEF Ops
  <2> QED BY <1>6, <2>1 DEF BeginMilestone
<1>7. ASSUME NEW m \in MilestoneIds, BeginUnmilestone(r, m)
      PROVE  \E o \in Ops : Begin(r, o, "delete_milestone") /\ o.kind = "unmilestone"
  <2>1. [kind |-> "unmilestone", id |-> m] \in Ops
    BY DEF Ops
  <2> QED BY <1>7, <2>1 DEF BeginUnmilestone
<1>8. CASE \E t \in TicketIds : BeginUpdateTicket(r, t)
  BY <1>4, <1>8 DEF FirstStatements, KindOf
<1> QED BY <1>1, <1>2, <1>3, <1>5, <1>6, <1>7, <1>8 DEF BeginAny, FirstStatements, KindOf

(* A step of a request, and one of the people and the task. *)
Step(r) == BeginAny(r) \/ Serve(r) \/ Abandon(r)

Elsewhere ==
    \/ \E u \in Users : RemoveMember(u)
    \/ \E set \in Teams : Reassign(set)
    \/ DeleteTask

(* A step is one of these, or changes nothing. *)
LEMMA Steps == [Next]_vars => UNCHANGED vars \/ (\E r \in Requests : Step(r)) \/ Elsewhere
BY DEF Next, Step, Elsewhere

(* A step is one request's. *)
LEMMA OthersStay ==
    ASSUME TypeOK, NEW r \in Requests, Step(r)
    PROVE  \A q \in Requests \ {r} :
             /\ pc'[q] = pc[q] /\ op'[q] = op[q] /\ num'[q] = num[q] /\ seen'[q] = seen[q]
             /\ rowLock = q => rowLock' = q
             /\ keyLock = q => keyLock' = q
<1> USE DEF TypeOK, Goto, talk, desk
<1>0. None \notin Requests
  BY ContentAssumption
<1>1. CASE BeginAny(r)
  BY <1>1, Begins DEF Begin
<1>2. CASE End(r) /\ UNCHANGED <<rowLock, keyLock>>
  BY <1>2 DEF End
<1>3. CASE InsertComment(r) \/ CountComment(r) \/ ReadMembers(r) \/ ReadRow(r)
  BY <1>0, <1>3 DEF InsertComment, CountComment, ReadMembers, ReadRow
<1>4. CASE NotifyAndCommit(r)
  BY <1>4 DEF NotifyAndCommit, Release
<1>5. CASE CheckAssignee(r) \/ LockTicketKeys(r) \/ ReadTicketKey(r)
  BY <1>0, <1>5 DEF CheckAssignee, LockTicketKeys, ReadTicketKey
<1>6. CASE InsertTicket(r)
  BY <1>6 DEF InsertTicket, Release, End
<1>7. CASE Abandon(r)
  BY <1>7 DEF Abandon, Release, End
<1> QED BY <1>1, <1>2, <1>3, <1>4, <1>5, <1>6, <1>7
        DEF Step, Serve, TaskGone, ReadComments, RefuseAssignee, UpdateTicket, DeleteTicket,
            InsertMilestone, DeleteMilestone

(* What happens elsewhere: members only leave, the task is only deleted. *)
LEMMA ElsewhereKeeps ==
    ASSUME Elsewhere
    PROVE  /\ UNCHANGED <<milestones, pc, op, num, seen, begun, rowLock, keyLock>>
           /\ active' \subseteq active
           /\ DeleteTask \/ UNCHANGED <<stored, comments, count, inbox>>
           /\ assigned' \subseteq assigned \/ reassigned'
           /\ reassigned => reassigned'
BY DEF Elsewhere, RemoveMember, Reassign, DeleteTask, talk, desk

(* The comments and their number are written by a commit or a deletion. *)
LEMMA TalkKept ==
    ASSUME NEW r \in Requests, Step(r), ~NotifyAndCommit(r)
    PROVE  UNCHANGED <<people, stored, comments, count>>
<1> USE DEF talk, people
<1>1. CASE BeginAny(r)
  BY <1>1, Begins DEF Begin
<1>2. CASE InsertComment(r) \/ TaskGone(r) \/ CountComment(r) \/ ReadMembers(r) \/ ReadRow(r)
           \/ ReadComments(r) \/ CheckAssignee(r) \/ RefuseAssignee(r)
  BY <1>2 DEF InsertComment, TaskGone, CountComment, ReadMembers, ReadRow, ReadComments,
     CheckAssignee, RefuseAssignee
<1>3. CASE LockTicketKeys(r) \/ ReadTicketKey(r) \/ InsertTicket(r) \/ UpdateTicket(r)
           \/ DeleteTicket(r) \/ InsertMilestone(r) \/ DeleteMilestone(r) \/ Abandon(r)
  BY <1>3 DEF LockTicketKeys, ReadTicketKey, InsertTicket, UpdateTicket, DeleteTicket,
     InsertMilestone, DeleteMilestone, Abandon
<1> QED BY <1>1, <1>2, <1>3 DEF Step, Serve

-----------------------------------------------------------------------------
(* Notifications *)

Occasions == (1..MaxComments) \cup MilestoneIds
Note(kind, about) == [kind |-> kind, about |-> about]

(* then is box with one notification more for each target, of this kind about this. *)
OneMoreFor(box, then, targets, kind, about) ==
    \A u \in Users, k \in Kinds, n \in Occasions :
        then[u][Note(k, n)] = IF u \in targets /\ k = kind /\ n = about
                              THEN box[u][Note(k, n)] + 1 ELSE box[u][Note(k, n)]

(* Each target is notified once. *)
LEMMA NotifiedBox ==
    ASSUME NEW box \in [Users -> [Notes -> Nat]], NEW targets, NEW kind \in Kinds,
           NEW about \in Occasions
    PROVE  /\ Notified(box, targets, kind, about) \in [Users -> [Notes -> Nat]]
           /\ OneMoreFor(box, Notified(box, targets, kind, about), targets, kind, about)
<1> DEFINE one == Note(kind, about)
<1>1. one \in Notes
  BY DEF Notes, Occasions, Note
<1>2. \A k \in Kinds, n \in Occasions :
        Note(k, n) \in Notes /\ (Note(k, n) = one <=> k = kind /\ n = about)
  BY DEF Notes, Occasions, Note
<1>3. Notified(box, targets, kind, about) =
        [u \in Users |-> IF u \in targets THEN [box[u] EXCEPT ![one] = @ + 1] ELSE box[u]]
  BY DEF Notified, Note
<1> HIDE DEF one
<1> QED BY <1>1, <1>2, <1>3 DEF OneMoreFor

(* The notifications about some occasions are gone, the others stay. *)
LEMMA ForgottenBox ==
    ASSUME NEW box \in [Users -> [Notes -> Nat]], NEW gone
    PROVE  /\ Forget(box, gone) \in [Users -> [Notes -> Nat]]
           /\ \A u \in Users, k \in Kinds, n \in Occasions :
                Forget(box, gone)[u][Note(k, n)] =
                  IF n \in gone THEN 0 ELSE box[u][Note(k, n)]
<1>1. \A k \in Kinds, n \in Occasions : Note(k, n) \in Notes /\ Note(k, n).about = n
  BY DEF Notes, Occasions, Note
<1> QED BY <1>1 DEF Forget

(* Numbers of comments and milestones are different occasions. *)
LEMMA OtherOccasions ==
    /\ \A n \in 1..MaxComments : n \in Occasions /\ n \notin MilestoneIds
    /\ \A m \in MilestoneIds : m \in Occasions
    /\ "mention" \in Kinds /\ "comment" \in Kinds /\ "milestone" \in Kinds
BY ContentAssumption DEF Occasions, Kinds

(* What is told of comments is written by a commit or a deletion. *)
LEMMA NotesKept ==
    ASSUME TypeOK, KindsOK, NEW r \in Requests, Step(r), ~NotifyAndCommit(r)
    PROVE  /\ inbox' \in [Users -> [Notes -> Nat]]
           /\ \A u \in Users, kind \in {"mention", "comment"}, n \in 1..MaxComments :
                About(u, kind, n)' = About(u, kind, n)
<1>b. inbox \in [Users -> [Notes -> Nat]]
  BY DEF TypeOK
<1>1. CASE UNCHANGED inbox
  BY <1>b, <1>1 DEF About
<1>2. CASE InsertMilestone(r)
  <2>1. PICK m \in MilestoneIds : inbox' = Notified(inbox, active \ {op[r].user}, "milestone", m)
    BY <1>2 DEF InsertMilestone
  <2> DEFINE box == Notified(inbox, active \ {op[r].user}, "milestone", m)
  <2>2. m \in Occasions /\ "milestone" \in Kinds
    BY OtherOccasions
  <2>3. /\ box \in [Users -> [Notes -> Nat]]
        /\ OneMoreFor(inbox, box, active \ {op[r].user}, "milestone", m)
    BY <1>b, <2>2, NotifiedBox
  <2> HIDE DEF box
  <2>4. \A u \in Users, kind \in {"mention", "comment"}, n \in 1..MaxComments :
          box[u][Note(kind, n)] = inbox[u][Note(kind, n)]
    BY <2>3, OtherOccasions DEF OneMoreFor
  <2>5. inbox' = box
    BY <2>1 DEF box
  <2> QED BY <2>3, <2>4, <2>5 DEF About, Note
<1>3. CASE DeleteMilestone(r)
  <2>1. op[r].id \in MilestoneIds
    BY <1>3, OpFields DEF DeleteMilestone, KindsOK, KindOf
  <2>2. inbox' = Forget(inbox, {op[r].id})
    BY <1>3 DEF DeleteMilestone
  <2> DEFINE box == Forget(inbox, {op[r].id})
  <2>3. /\ box \in [Users -> [Notes -> Nat]]
        /\ \A u \in Users, k \in Kinds, n \in Occasions :
             n # op[r].id => box[u][Note(k, n)] = inbox[u][Note(k, n)]
    BY <1>b, ForgottenBox
  <2> HIDE DEF box
  <2>4. \A u \in Users, kind \in {"mention", "comment"}, n \in 1..MaxComments :
          box[u][Note(kind, n)] = inbox[u][Note(kind, n)]
    BY <2>1, <2>3, OtherOccasions
  <2>5. inbox' = box
    BY <2>2 DEF box
  <2> QED BY <2>3, <2>4, <2>5 DEF About, Note
<1>4. CASE BeginAny(r)
  BY <1>1, <1>4, Begins DEF Begin
<1> QED BY <1>1, <1>2, <1>3, <1>4
        DEF Step, Serve, InsertComment, TaskGone, CountComment, ReadMembers, ReadRow, ReadComments,
            CheckAssignee, RefuseAssignee, LockTicketKeys, ReadTicketKey, InsertTicket,
            UpdateTicket, DeleteTicket, Abandon

(* A commit tells its targets of the comment it appends, one of them in one way. *)
LEMMA Told ==
    ASSUME TypeOK, NEW r \in Requests, NotifyAndCommit(r), Len(comments) < MaxComments
    PROVE  /\ inbox' \in [Users -> [Notes -> Nat]]
           /\ \A u \in Users, n \in 1..MaxComments :
                /\ About(u, "mention", n)' =
                     IF n = Len(comments) + 1 /\ u \in MentionTargets(r)
                     THEN About(u, "mention", n) + 1 ELSE About(u, "mention", n)
                /\ About(u, "comment", n)' =
                     IF n = Len(comments) + 1 /\ u \in CommentTargets(r)
                     THEN About(u, "comment", n) + 1 ELSE About(u, "comment", n)
<1> DEFINE new == Len(comments) + 1
           box == Notified(inbox, MentionTargets(r), "mention", new)
<1>b. inbox \in [Users -> [Notes -> Nat]]
  BY DEF TypeOK
<1>1. new \in 1..MaxComments /\ new \in Occasions
  <2>1. Len(comments) \in Nat /\ MaxComments \in Nat
    BY ContentAssumption DEF TypeOK
  <2> QED BY <2>1, OtherOccasions
<1>2. inbox' = Notified(box, CommentTargets(r), "comment", new)
  BY DEF NotifyAndCommit
<1> HIDE DEF new
<1>3. box \in [Users -> [Notes -> Nat]]
  BY <1>b, <1>1, OtherOccasions, NotifiedBox
<1>4. OneMoreFor(inbox, box, MentionTargets(r), "mention", new)
  BY <1>b, <1>1, OtherOccasions, NotifiedBox
<1> HIDE DEF box
<1>5. inbox' \in [Users -> [Notes -> Nat]]
  BY <1>1, <1>2, <1>3, OtherOccasions, NotifiedBox
<1>6. OneMoreFor(box, inbox', CommentTargets(r), "comment", new)
  BY <1>1, <1>2, <1>3, OtherOccasions, NotifiedBox
<1>7. ASSUME NEW u \in Users, NEW n \in 1..MaxComments
      PROVE  /\ inbox'[u][Note("mention", n)] = IF u \in MentionTargets(r) /\ n = new
                  THEN inbox[u][Note("mention", n)] + 1 ELSE inbox[u][Note("mention", n)]
             /\ inbox'[u][Note("comment", n)] = IF u \in CommentTargets(r) /\ n = new
                  THEN inbox[u][Note("comment", n)] + 1 ELSE inbox[u][Note("comment", n)]
  <2>1. n \in Occasions /\ "mention" \in Kinds /\ "comment" \in Kinds
    BY OtherOccasions
  <2> QED BY <1>4, <1>6, <2>1 DEF OneMoreFor
<1> QED BY <1>5, <1>7 DEF About, Note, new

-----------------------------------------------------------------------------
(* Ticket numbers *)

Rows == [key : 1..MaxKey, assignee : Assignees \cup {None}] \cup {NoTicket}

(* A ticket that is there has a number. *)
LEMMA RowFields ==
    ASSUME NEW row \in Rows
    PROVE  /\ row # NoTicket => row.key \in 1..MaxKey
           /\ row = NoTicket => row.key = 0
           /\ row.assignee \in Assignees \cup {None}
BY DEF Rows, NoTicket

(* The largest number is the one Max chooses. *)
LEMMA MaxOfSet ==
    ASSUME NEW S, S \subseteq Int, NEW m \in S, \A y \in S : y <= m
    PROVE  Max(S) = m
<1>1. m \in S /\ \A y \in S : m >= y
  OBVIOUS
<1>2. \A x \in S : (\A y \in S : x >= y) => x = m
  BY <1>1
<1> QED BY <1>1, <1>2 DEF Max

(* next_ticket_key computes a number above every key. *)
LEMMA NextKeyIsLarger ==
    ASSUME TypeOK
    PROVE  NextTicketKey(Keys) \in Nat \ {0} /\ \A k \in Keys : k < NextTicketKey(Keys)
<1> DEFINE K == Keys \cup {0}
           Below == {MaxKey - k : k \in K}
<1>1. MaxKey \in Nat /\ K \subseteq 0..MaxKey /\ 0 \in K
  <2>1. \A t \in TicketIds : Present(t) => ticket[t].key \in 1..MaxKey
    BY RowFields DEF TypeOK, Present, Rows
  <2> QED BY <2>1, ContentAssumption DEF Keys
<1> HIDE DEF K
<1>2. Below \subseteq Nat /\ Below # {}
  BY <1>1
<1>3. PICK b \in Below : \A c \in Below : b <= c
  <2> HIDE DEF Below
  <2> QED BY <1>2, LeastNumber
<1>4. PICK m \in K : b = MaxKey - m
  BY <1>3
<1>5. \A k \in K : k <= m
  <2>1. \A k \in K : MaxKey - m <= MaxKey - k
    BY <1>3, <1>4
  <2> QED BY <1>1, <2>1
<1>6. Max(K) = m
  <2>1. K \subseteq Int
    BY <1>1
  <2> QED BY <1>5, <2>1, MaxOfSet
<1>7. NextTicketKey(Keys) = m + 1
  BY <1>6 DEF NextTicketKey, K
<1> QED BY <1>1, <1>4, <1>5, <1>7 DEF K

(* Who is left of a ticket's assignee. *)
LEMMA LetGo ==
    ASSUME TypeOK, NEW u \in Users, NEW t \in TicketIds, RemoveMember(u)
    PROVE  /\ ticket'[t] \in Rows
           /\ ticket[t] = NoTicket => ticket'[t] = NoTicket
           /\ ticket[t] # NoTicket => ticket'[t].key = ticket[t].key
<1>1. ticket[t] \in Rows
  BY DEF TypeOK, Rows
<1>2. ticket'[t] = IF ticket[t].assignee = u THEN [ticket[t] EXCEPT !.assignee = None]
                   ELSE ticket[t]
  BY DEF RemoveMember
<1>3. u # None
  BY ContentAssumption
<1>4. CASE ticket[t] = NoTicket
  BY <1>1, <1>2, <1>3, <1>4 DEF NoTicket
<1>5. CASE ticket[t] # NoTicket
  <2>1. ticket[t] \in [key : 1..MaxKey, assignee : Assignees \cup {None}]
    BY <1>1, <1>5 DEF Rows
  <2> QED BY <1>2, <1>5, <2>1 DEF Rows
<1> QED BY <1>4, <1>5

(* Tickets keep their numbers, and only an insert makes one. *)
LEMMA RowsKept ==
    ASSUME TypeOK, KindsOK, [Next]_vars, \A r \in Requests : ~InsertTicket(r)
    PROVE  /\ ticket' \in [TicketIds -> Rows]
           /\ \A t \in TicketIds : ticket'[t] # NoTicket =>
                ticket[t] # NoTicket /\ ticket'[t].key = ticket[t].key
<1>t. ticket \in [TicketIds -> Rows]
  BY DEF TypeOK, Rows
<1>1. CASE UNCHANGED ticket
  BY <1>t, <1>1
<1>2. ASSUME NEW u \in Users, RemoveMember(u)
      PROVE  /\ ticket' \in [TicketIds -> Rows]
             /\ \A t \in TicketIds : ticket'[t] # NoTicket =>
                  ticket[t] # NoTicket /\ ticket'[t].key = ticket[t].key
  <2>1. ticket' = [t \in TicketIds |-> ticket'[t]]
    BY <1>2 DEF RemoveMember
  <2>2. \A t \in TicketIds : /\ ticket'[t] \in Rows
                             /\ ticket[t] = NoTicket => ticket'[t] = NoTicket
                             /\ ticket[t] # NoTicket => ticket'[t].key = ticket[t].key
    BY <1>2, LetGo
  <2> QED BY <2>1, <2>2
<1>3. ASSUME NEW r \in Requests, UpdateTicket(r)
      PROVE  /\ ticket' \in [TicketIds -> Rows]
             /\ \A t \in TicketIds : ticket'[t] # NoTicket =>
                  ticket[t] # NoTicket /\ ticket'[t].key = ticket[t].key
  <2> DEFINE id == op[r].id
             a == op[r].assignee
  <2>1. op[r].kind = "patch"
    BY <1>3 DEF UpdateTicket, KindsOK, KindOf
  <2>2. a \in Assignees \cup {None, Keep}
    BY <2>1, OpFields
  <2>3. ticket' = IF ticket[id] # NoTicket /\ a # Keep THEN [ticket EXCEPT ![id].assignee = a]
                  ELSE ticket
    BY <1>3 DEF UpdateTicket, Present
  <2> HIDE DEF id, a
  <2>4. CASE ticket[id] # NoTicket /\ a # Keep /\ id \in TicketIds
    <3>1. ticket[id] \in [key : 1..MaxKey, assignee : Assignees \cup {None}]
      BY <1>t, <2>4 DEF Rows
    <3>2. ticket' = [ticket EXCEPT ![id] = [ticket[id] EXCEPT !.assignee = a]]
      BY <2>3, <2>4
    <3>3. /\ [ticket[id] EXCEPT !.assignee = a] \in Rows
          /\ [ticket[id] EXCEPT !.assignee = a].key = ticket[id].key
      BY <2>2, <2>4, <3>1 DEF Rows
    <3> DEFINE row == [ticket[id] EXCEPT !.assignee = a]
    <3>4. row \in Rows /\ row.key = ticket[id].key /\ ticket' = [ticket EXCEPT ![id] = row]
      BY <3>2, <3>3
    <3> HIDE DEF row
    <3> QED BY <1>t, <2>4, <3>4
  <2>5. CASE ~(ticket[id] # NoTicket /\ a # Keep /\ id \in TicketIds)
    <3>1. ticket' = ticket
      BY <1>t, <2>3, <2>5
    <3> QED BY <1>t, <3>1
  <2> QED BY <2>4, <2>5
<1>4. ASSUME NEW r \in Requests, DeleteTicket(r)
      PROVE  /\ ticket' \in [TicketIds -> Rows]
             /\ \A t \in TicketIds : ticket'[t] # NoTicket =>
                  ticket[t] # NoTicket /\ ticket'[t].key = ticket[t].key
  BY <1>4, <1>t DEF DeleteTicket, Rows
<1>5. ASSUME NEW r \in Requests, Step(r), ~UpdateTicket(r), ~DeleteTicket(r)
      PROVE  UNCHANGED ticket
  <2>1. CASE BeginAny(r)
    BY <2>1, Begins DEF Begin, desk
  <2> QED BY <1>5, <2>1
          DEF Step, Serve, InsertComment, TaskGone, CountComment, ReadMembers, NotifyAndCommit,
              ReadRow, ReadComments, CheckAssignee, RefuseAssignee, LockTicketKeys, ReadTicketKey,
              InsertMilestone, DeleteMilestone, Abandon, desk
<1>6. ASSUME Elsewhere, \A u \in Users : ~RemoveMember(u) PROVE UNCHANGED ticket
  BY <1>6 DEF Elsewhere, Reassign, DeleteTask, desk
<1> QED BY <1>1, <1>2, <1>3, <1>4, <1>5, <1>6, Steps DEF vars, desk

-----------------------------------------------------------------------------
(* The invariant holds before anything is asked. *)
LEMMA InitInv == Init => Inv
<1> SUFFICES ASSUME Init PROVE Inv
  OBVIOUS
<1>a. /\ {MaxBegun, MaxComments, MaxKey} \subseteq Nat
      /\ \A S \in Teams : S \subseteq Users
  BY ContentAssumption
<1>c. comments = <<>> /\ Len(comments) = 0 /\ comments \in Seq([author : Users, body : Bodies])
  BY DEF Init
<1>1. TypeOK
  <2>1. /\ active \subseteq Users /\ assigned \subseteq Users
        /\ reassigned \in BOOLEAN /\ stored \in BOOLEAN /\ milestones \subseteq MilestoneIds
        /\ ticket \in [TicketIds -> [key : 1..MaxKey, assignee : Assignees \cup {None}]
                                   \cup {NoTicket}]
    BY <1>a DEF Init
  <2>2. /\ Len(comments) <= MaxComments /\ count \in 0..MaxComments /\ begun \in 0..MaxBegun
        /\ 0 \in 0..(MaxComments + MaxKey)
    BY <1>a, <1>c DEF Init
  <2>3. inbox \in [Users -> [Notes -> Nat]]
    BY DEF Init
  <2>4. /\ pc \in [Requests -> PCs] /\ op \in [Requests -> Ops \cup {NoOp}]
        /\ num \in [Requests -> 0..(MaxComments + MaxKey)] /\ seen \in [Requests -> SUBSET Users]
        /\ rowLock \in Requests \cup {None} /\ keyLock \in Requests \cup {None}
    BY <2>2 DEF Init, PCs
  <2> QED BY <1>c, <2>1, <2>2, <2>3, <2>4 DEF TypeOK
<1>2. KindsOK
  BY DEF Init, KindsOK, KindOf
<1>3. RoomLeft
  <2>1. Commenting = {}
    BY DEF Init, Commenting
  <2> QED BY <1>a, <1>c, <2>1, FS_EmptySet DEF RoomLeft
<1>4. RowHeld /\ KeyHeld
  BY DEF Init, RowHeld, KeyHeld
<1>5. Unannounced
  BY OtherOccasions DEF Init, Unannounced, About, Notes, Occasions
<1>6. CommentsCounted /\ CommentsReachParticipants
  BY <1>c DEF Init, CommentsCounted, CommentsReachParticipants
<1>7. TicketKeysNeverCollide
  BY DEF Init, TicketKeysNeverCollide, Present
<1> QED BY <1>1, <1>2, <1>3, <1>4, <1>5, <1>6, <1>7 DEF Inv

(* The variables of a request that ends. *)
LEMMA EndTypes ==
    ASSUME TypeOK, NEW r \in Requests, End(r)
    PROVE  /\ pc' \in [Requests -> PCs]
           /\ op' \in [Requests -> Ops \cup {NoOp}]
           /\ num' \in [Requests -> 0..(MaxComments + MaxKey)]
           /\ seen' \in [Requests -> SUBSET Users]
<1>1. 0 \in 0..(MaxComments + MaxKey)
  BY ContentAssumption
<1> QED BY <1>1 DEF End, TypeOK, PCs

(* A lock that is released is free. *)
LEMMA Released ==
    ASSUME NEW lock \in Requests \cup {None}, NEW r
    PROVE  Release(lock, r) \in Requests \cup {None}
BY DEF Release

(* A comment under way has room. *)
LEMMA RoomForOne ==
    ASSUME TypeOK, RoomLeft, NEW r \in Commenting
    PROVE  Len(comments) < MaxComments /\ Len(comments) \in Nat
<1>1. IsFiniteSet(Commenting)
  BY ContentAssumption, FS_Subset DEF Commenting
<1>2. Cardinality(Commenting) \in Nat /\ Cardinality(Commenting) # 0
  BY <1>1, FS_CardinalityType, FS_EmptySet
<1>3. Len(comments) \in Nat /\ MaxComments \in Nat
  BY ContentAssumption DEF TypeOK
<1> QED BY <1>2, <1>3 DEF RoomLeft

(* A request's own variables keep their types. *)
LEMMA RequestTypes ==
    ASSUME TypeOK, RoomLeft, KindsOK, CommentsCounted, NEW r \in Requests, Step(r)
    PROVE  /\ pc' \in [Requests -> PCs]
           /\ op' \in [Requests -> Ops \cup {NoOp}]
           /\ num' \in [Requests -> 0..(MaxComments + MaxKey)]
           /\ seen' \in [Requests -> SUBSET Users]
           /\ rowLock' \in Requests \cup {None} /\ keyLock' \in Requests \cup {None}
           /\ begun' \in 0..MaxBegun
<1> USE DEF TypeOK
<1>a. MaxBegun \in Nat /\ MaxComments \in Nat /\ MaxKey \in Nat
  BY ContentAssumption
<1>k. KindOf(pc[r], op[r])
  BY DEF KindsOK
<1>1. CASE BeginAny(r)
  <2>1. PICK o \in Ops, label \in FirstStatements : Begin(r, o, label)
    BY <1>1, Begins
  <2> QED BY <1>a, <2>1 DEF Begin, Goto, PCs, FirstStatements, talk, desk
<1>2. CASE End(r) /\ UNCHANGED <<rowLock, keyLock, begun>>
  BY <1>2, EndTypes
<1>3. CASE InsertComment(r) \/ ReadMembers(r)
  BY <1>3 DEF InsertComment, ReadMembers, Goto, PCs, talk, desk
<1>4. CASE CountComment(r)
  <2>1. count + 1 \in 0..(MaxComments + MaxKey)
    <3>1. r \in Commenting
      BY <1>4 DEF CountComment, Commenting
    <3> QED BY <1>a, <3>1, RoomForOne DEF CommentsCounted
  <2> QED BY <1>4, <2>1 DEF CountComment, Goto, PCs, desk
<1>5. CASE NotifyAndCommit(r)
  BY <1>5, Released DEF NotifyAndCommit, Goto, PCs, desk
<1>6. CASE ReadRow(r)
  BY <1>a, <1>6 DEF ReadRow, Goto, PCs, talk, desk
<1>7. CASE CheckAssignee(r) \/ LockTicketKeys(r)
  BY <1>7 DEF CheckAssignee, LockTicketKeys, AfterCheck, Goto, PCs, talk, desk
<1>8. CASE ReadTicketKey(r)
  <2>1. NextTicketKey(Keys) \in Nat /\ NextTicketKey(Keys) <= MaxKey
    BY <1>8, NextKeyIsLarger DEF ReadTicketKey
  <2>2. NextTicketKey(Keys) \in 0..(MaxComments + MaxKey)
    BY <1>a, <2>1
  <2> QED BY <1>8, <2>2 DEF ReadTicketKey, Goto, PCs, talk, desk
<1>9. CASE InsertTicket(r) \/ Abandon(r)
  BY <1>9, EndTypes, Released DEF InsertTicket, Abandon, talk
<1> QED BY <1>1, <1>2, <1>3, <1>4, <1>5, <1>6, <1>7, <1>8, <1>9
        DEF Step, Serve, TaskGone, ReadComments, RefuseAssignee, UpdateTicket, DeleteTicket,
            InsertMilestone, DeleteMilestone, talk, desk

(* Every step keeps the types. *)
LEMMA TypeStep ==
    TypeOK /\ KindsOK /\ RoomLeft /\ RowHeld /\ KeyHeld /\ CommentsCounted /\ [Next]_vars => TypeOK'
<1> SUFFICES ASSUME TypeOK, KindsOK, RoomLeft, RowHeld, KeyHeld, CommentsCounted, [Next]_vars
             PROVE  TypeOK'
  OBVIOUS
<1>a. MaxComments \in Nat /\ MaxKey \in Nat /\ \A S \in Teams : S \subseteq Users
  BY ContentAssumption
<1>1. CASE UNCHANGED vars
  BY <1>1 DEF vars, TypeOK, people, talk, desk
<1>t. ticket' \in [TicketIds -> Rows]
  <2>1. ASSUME NEW r \in Requests, InsertTicket(r) PROVE ticket' \in [TicketIds -> Rows]
    <3>1. num[r] \in 1..MaxKey /\ op[r].assignee \in Assignees \cup {None}
      BY <2>1, OpFields DEF InsertTicket, KeyHeld, KindsOK, KindOf
    <3>2. [key |-> num[r], assignee |-> op[r].assignee] \in Rows
      BY <3>1 DEF Rows
    <3>3. ticket \in [TicketIds -> Rows]
      BY DEF TypeOK, Rows
    <3> QED BY <2>1, <3>2, <3>3 DEF InsertTicket
  <2> QED BY <2>1, RowsKept
<1>2. ASSUME NEW r \in Requests, Step(r) PROVE TypeOK'
  <2>1. /\ active' = active /\ assigned' = assigned /\ reassigned' = reassigned
        /\ stored' = stored
    <3>1. CASE NotifyAndCommit(r)
      BY <3>1 DEF NotifyAndCommit, people
    <3> QED BY <1>2, <3>1, TalkKept DEF people
  <2>2. /\ comments' \in Seq([author : Users, body : Bodies]) /\ Len(comments') <= MaxComments
        /\ count' \in 0..MaxComments
        /\ inbox' \in [Users -> [Notes -> Nat]]
    <3>1. CASE NotifyAndCommit(r)
      <4>1. r \in Commenting /\ op[r].user \in Users /\ op[r].body \in Bodies
        BY <3>1, OpFields DEF NotifyAndCommit, Commenting, KindsOK, KindOf
      <4>2. Len(comments) < MaxComments /\ Len(comments) \in Nat
        BY <4>1, RoomForOne
      <4>3. count' = Len(comments) + 1
        BY <3>1 DEF NotifyAndCommit, RowHeld
      <4>4. [author |-> op[r].user, body |-> op[r].body] \in [author : Users, body : Bodies]
        BY <4>1
      <4>5. /\ comments' \in Seq([author : Users, body : Bodies])
            /\ Len(comments') = Len(comments) + 1
        BY <3>1, <4>4 DEF NotifyAndCommit, TypeOK
      <4> QED BY <1>a, <3>1, <4>2, <4>3, <4>5, Told
    <3>2. CASE ~NotifyAndCommit(r)
      BY <1>2, <3>2, TalkKept, NotesKept DEF TypeOK
    <3> QED BY <3>1, <3>2
  <2>3. milestones' \subseteq MilestoneIds
    <3>1. CASE BeginAny(r)
      BY <3>1, Begins DEF Begin, TypeOK
    <3> QED BY <1>2, <3>1
            DEF Step, Serve, InsertComment, TaskGone, CountComment, ReadMembers, NotifyAndCommit,
                ReadRow, ReadComments, CheckAssignee, RefuseAssignee, LockTicketKeys,
                ReadTicketKey, InsertTicket, UpdateTicket, DeleteTicket, InsertMilestone,
                DeleteMilestone, Abandon, TypeOK
  <2> QED BY <1>2, <1>t, <2>1, <2>2, <2>3, RequestTypes DEF TypeOK, Rows
<1>3. CASE Elsewhere
  <2>1. /\ active' \subseteq Users /\ assigned' \subseteq Users
        /\ reassigned' \in BOOLEAN /\ stored' \in BOOLEAN
    BY <1>3, <1>a DEF Elsewhere, RemoveMember, Reassign, DeleteTask, TypeOK, talk
  <2>2. /\ comments' \in Seq([author : Users, body : Bodies]) /\ Len(comments') <= MaxComments
        /\ count' \in 0..MaxComments
        /\ inbox' \in [Users -> [Notes -> Nat]]
    <3>1. CASE DeleteTask
      <4>1. comments' = <<>> /\ count' = 0 /\ inbox' = Forget(inbox, 1..MaxComments)
        BY <3>1 DEF DeleteTask
      <4> QED BY <1>a, <4>1, ForgottenBox DEF TypeOK
    <3> QED BY <1>3, <3>1, ElsewhereKeeps DEF TypeOK
  <2> QED BY <1>3, <1>t, <2>1, <2>2, ElsewhereKeeps DEF TypeOK, Rows
<1> QED BY <1>1, <1>2, <1>3, Steps

(* Where a request goes that neither begins nor ends. *)
LEMMA KindsStep == TypeOK /\ KindsOK /\ [Next]_vars => KindsOK'
<1> SUFFICES ASSUME TypeOK, KindsOK, [Next]_vars PROVE KindsOK'
  OBVIOUS
<1>1. CASE UNCHANGED vars
  BY <1>1 DEF vars, KindsOK
<1>2. ASSUME NEW r \in Requests, Step(r) PROVE KindsOK'
  <2>k. KindOf(pc[r], op[r])
    BY DEF KindsOK
  <2> SUFFICES KindOf(pc'[r], op'[r])
    BY <1>2, OthersStay DEF KindsOK
  <2>1. CASE BeginAny(r)
    BY <2>1, Begins DEF Begin, Goto, TypeOK
  <2>2. CASE End(r)
    BY <2>2 DEF End, TypeOK, KindOf
  <2>3. CASE InsertComment(r) \/ CountComment(r) \/ ReadMembers(r) \/ NotifyAndCommit(r)
    BY <2>k, <2>3 DEF InsertComment, CountComment, ReadMembers, NotifyAndCommit, Goto, TypeOK,
       KindOf
  <2>4. CASE ReadRow(r) \/ LockTicketKeys(r) \/ ReadTicketKey(r)
    BY <2>k, <2>4 DEF ReadRow, LockTicketKeys, ReadTicketKey, Goto, TypeOK, KindOf
  <2>5. CASE CheckAssignee(r)
    BY <2>k, <2>5 DEF CheckAssignee, AfterCheck, Goto, TypeOK, KindOf
  <2> QED BY <1>2, <2>1, <2>2, <2>3, <2>4, <2>5
          DEF Step, Serve, TaskGone, ReadComments, RefuseAssignee, InsertTicket, UpdateTicket,
              DeleteTicket, InsertMilestone, DeleteMilestone, Abandon
<1>3. CASE Elsewhere
  BY <1>3, ElsewhereKeeps DEF KindsOK
<1> QED BY <1>1, <1>2, <1>3, Steps

(* A comment begins with room for it and leaves it to the row it becomes. *)
LEMMA RoomStep == TypeOK /\ RoomLeft /\ RowHeld /\ [Next]_vars => RoomLeft'
<1> SUFFICES ASSUME TypeOK, RoomLeft, RowHeld, [Next]_vars PROVE RoomLeft'
  OBVIOUS
<1>f. /\ IsFiniteSet(Commenting) /\ Cardinality(Commenting) \in Nat
      /\ Len(comments) \in Nat /\ MaxComments \in Nat
  <2>1. IsFiniteSet(Commenting)
    BY ContentAssumption, FS_Subset DEF Commenting
  <2> QED BY <2>1, ContentAssumption, FS_CardinalityType DEF TypeOK
<1>s. ASSUME Commenting' \subseteq Commenting, Len(comments') \in Nat,
             Len(comments') <= Len(comments)
      PROVE  RoomLeft'
  <2>1. Cardinality(Commenting') \in Nat /\ Cardinality(Commenting') <= Cardinality(Commenting)
    BY <1>f, <1>s, FS_Subset, FS_CardinalityType
  <2> QED BY <1>f, <1>s, <2>1 DEF RoomLeft
<1>1. CASE UNCHANGED vars
  <2>1. Commenting' = Commenting /\ comments' = comments
    BY <1>1 DEF vars, Commenting, talk
  <2> QED BY <2>1 DEF RoomLeft
<1>2. ASSUME NEW r \in Requests, Step(r) PROVE RoomLeft'
  <2>1. Commenting' \subseteq Commenting \cup {r}
    BY <1>2, OthersStay DEF Commenting
  <2>2. CASE BeginAny(r)
    <3>1. PICK o \in Ops, label \in FirstStatements :
            /\ Begin(r, o, label)
            /\ label = "insert_comment" => Len(comments) + Cardinality(Commenting) < MaxComments
      BY <2>2, Begins
    <3>2. pc'[r] = label /\ pc[r] = "idle" /\ comments' = comments
      BY <3>1 DEF Begin, Goto, TypeOK, talk
    <3>3. CASE label = "insert_comment"
      <4>1. Commenting' = Commenting \cup {r} /\ r \notin Commenting
        BY <1>2, <3>2, <3>3, OthersStay DEF Commenting
      <4>2. Cardinality(Commenting') = Cardinality(Commenting) + 1
        BY <1>f, <4>1, FS_AddElement
      <4> QED BY <1>f, <3>1, <3>2, <3>3, <4>2 DEF RoomLeft
    <3>4. CASE label # "insert_comment"
      <4>1. r \notin Commenting'
        BY <3>2, <3>4 DEF Commenting, FirstStatements
      <4>2. Commenting' \subseteq Commenting /\ Len(comments') = Len(comments)
        BY <2>1, <3>2, <4>1
      <4> QED BY <1>f, <1>s, <4>2
    <3> QED BY <3>3, <3>4
  <2>3. CASE NotifyAndCommit(r)
    <3>1. r \in Commenting /\ r \notin Commenting' /\ Len(comments') = Len(comments) + 1
      BY <2>3 DEF NotifyAndCommit, Commenting, Goto, TypeOK
    <3>2. Commenting' = Commenting \ {r}
      BY <1>2, <3>1, OthersStay DEF Commenting
    <3>3. Cardinality(Commenting') = Cardinality(Commenting) - 1
      BY <1>f, <3>1, <3>2, FS_RemoveElement
    <3> QED BY <1>f, <3>1, <3>3 DEF RoomLeft
  <2>4. CASE ~BeginAny(r) /\ ~NotifyAndCommit(r)
    <3>1. Len(comments') = Len(comments)
      BY <1>2, <2>4, TalkKept
    <3>2. r \in Commenting' => r \in Commenting
      <4>1. CASE End(r)
        BY <4>1 DEF End, Commenting, TypeOK
      <4>2. CASE InsertComment(r) \/ CountComment(r) \/ ReadMembers(r)
        BY <4>2 DEF InsertComment, CountComment, ReadMembers, Commenting
      <4>3. CASE ReadRow(r) \/ LockTicketKeys(r) \/ ReadTicketKey(r) \/ CheckAssignee(r)
        BY <4>3 DEF ReadRow, LockTicketKeys, ReadTicketKey, CheckAssignee, AfterCheck, Goto,
           Commenting, TypeOK
      <4> QED BY <1>2, <2>4, <4>1, <4>2, <4>3
              DEF Step, Serve, TaskGone, ReadComments, RefuseAssignee, InsertTicket, UpdateTicket,
                  DeleteTicket, InsertMilestone, DeleteMilestone, Abandon
    <3>3. Commenting' \subseteq Commenting
      BY <2>1, <3>2
    <3> QED BY <1>f, <1>s, <3>1, <3>3
  <2> QED BY <2>2, <2>3, <2>4
<1>3. CASE Elsewhere
  <2>1. Commenting' = Commenting /\ (comments' = comments \/ comments' = <<>>)
    BY <1>3, ElsewhereKeeps DEF Commenting, DeleteTask
  <2>2. Len(comments') \in Nat /\ Len(comments') <= Len(comments)
    BY <1>f, <2>1
  <2> QED BY <1>s, <2>1, <2>2
<1> QED BY <1>1, <1>2, <1>3, Steps

(* Whoever has counted a comment holds the row until it is committed. *)
LEMMA RowStep == TypeOK /\ RowHeld /\ CommentsCounted /\ [Next]_vars => RowHeld'
<1> SUFFICES ASSUME TypeOK, RowHeld, CommentsCounted, [Next]_vars PROVE RowHeld'
  OBVIOUS
<1>1. CASE UNCHANGED vars
  BY <1>1 DEF vars, RowHeld, people, talk
<1>2. ASSUME NEW r \in Requests, Step(r) PROVE RowHeld'
  <2>1. active' = active /\ stored' = stored
    <3>1. CASE NotifyAndCommit(r)
      BY <3>1 DEF NotifyAndCommit, people
    <3> QED BY <1>2, <3>1, TalkKept DEF people
  <2>2. ASSUME NEW q \in Requests \ {r}, pc[q] \in {"members", "notify"}
        PROVE  comments' = comments
    <3>1. ~NotifyAndCommit(r)
      BY <2>2 DEF RowHeld, NotifyAndCommit
    <3> QED BY <1>2, <3>1, TalkKept
  <2>3. ASSUME NEW q \in Requests \ {r}
        PROVE  /\ pc'[q] \in {"count", "members", "notify"} => stored'
               /\ pc'[q] \in {"members", "notify"} => rowLock' = q /\ num'[q] = Len(comments') + 1
               /\ pc'[q] = "notify" => active' \subseteq seen'[q]
    BY <1>2, <2>1, <2>2, OthersStay DEF RowHeld
  <2>4. /\ pc'[r] \in {"count", "members", "notify"} => stored'
        /\ pc'[r] \in {"members", "notify"} => rowLock' = r /\ num'[r] = Len(comments') + 1
        /\ pc'[r] = "notify" => active' \subseteq seen'[r]
    <3>1. CASE BeginAny(r)
      BY <3>1, Begins DEF Begin, Goto, TypeOK, FirstStatements
    <3>2. CASE End(r)
      BY <3>2 DEF End, TypeOK
    <3>3. CASE InsertComment(r)
      BY <3>3 DEF InsertComment, Goto, TypeOK, talk
    <3>4. CASE CountComment(r)
      BY <3>4 DEF CountComment, Goto, TypeOK, RowHeld, CommentsCounted
    <3>5. CASE ReadMembers(r)
      BY <3>5 DEF ReadMembers, Goto, TypeOK, RowHeld, talk, people
    <3>6. CASE NotifyAndCommit(r) \/ ReadRow(r) \/ LockTicketKeys(r) \/ ReadTicketKey(r)
               \/ CheckAssignee(r)
      BY <3>6 DEF NotifyAndCommit, ReadRow, LockTicketKeys, ReadTicketKey, CheckAssignee,
         AfterCheck, Goto, TypeOK
    <3> QED BY <1>2, <3>1, <3>2, <3>3, <3>4, <3>5, <3>6
            DEF Step, Serve, TaskGone, ReadComments, RefuseAssignee, InsertTicket, UpdateTicket,
                DeleteTicket, InsertMilestone, DeleteMilestone, Abandon
  <2> QED BY <2>3, <2>4 DEF RowHeld
<1>3. CASE Elsewhere
  <2>1. CASE DeleteTask
    BY <2>1, ElsewhereKeeps DEF DeleteTask, Elsewhere, Commenting, RowHeld
  <2>2. CASE ~DeleteTask
    BY <1>3, <2>2, ElsewhereKeeps DEF RowHeld
  <2> QED BY <2>1, <2>2
<1> QED BY <1>1, <1>2, <1>3, Steps

(* Whoever has the advisory lock keeps it, and the number read with it. *)
LEMMA KeyStep == TypeOK /\ KeyHeld /\ [Next]_vars => KeyHeld'
<1> SUFFICES ASSUME TypeOK, KeyHeld, [Next]_vars PROVE KeyHeld'
  OBVIOUS
<1>1. CASE UNCHANGED vars
  BY <1>1 DEF vars, KeyHeld, desk
<1>2. ASSUME NEW r \in Requests, Step(r) PROVE KeyHeld'
  <2>1. ASSUME NEW q \in Requests \ {r}
        PROVE  /\ pc'[q] \in {"read_key", "insert_ticket"} => keyLock' = q
               /\ pc'[q] = "insert_ticket" => num'[q] \in 1..MaxKey
    BY <1>2, OthersStay DEF KeyHeld
  <2>2. /\ pc'[r] \in {"read_key", "insert_ticket"} => keyLock' = r
        /\ pc'[r] = "insert_ticket" => num'[r] \in 1..MaxKey
    <3>1. CASE BeginAny(r)
      BY <3>1, Begins DEF Begin, Goto, TypeOK, FirstStatements
    <3>2. CASE End(r)
      BY <3>2 DEF End, TypeOK
    <3>3. CASE InsertComment(r) \/ CountComment(r) \/ ReadMembers(r) \/ NotifyAndCommit(r)
               \/ ReadRow(r) \/ CheckAssignee(r)
      BY <3>3 DEF InsertComment, CountComment, ReadMembers, NotifyAndCommit, ReadRow,
         CheckAssignee, AfterCheck, Goto, TypeOK
    <3>4. CASE LockTicketKeys(r)
      BY <3>4 DEF LockTicketKeys, Goto, TypeOK
    <3>5. CASE ReadTicketKey(r)
      <4>1. NextTicketKey(Keys) \in 1..MaxKey
        <5>1. /\ NextTicketKey(Keys) \in Nat \ {0} /\ NextTicketKey(Keys) <= MaxKey
              /\ MaxKey \in Nat
          BY <3>5, NextKeyIsLarger, ContentAssumption DEF ReadTicketKey, TypeOK
        <5> QED BY <5>1
      <4> QED BY <3>5, <4>1 DEF ReadTicketKey, KeyHeld, Goto, TypeOK, desk
    <3> QED BY <1>2, <3>1, <3>2, <3>3, <3>4, <3>5
            DEF Step, Serve, TaskGone, ReadComments, RefuseAssignee, InsertTicket, UpdateTicket,
                DeleteTicket, InsertMilestone, DeleteMilestone, Abandon
  <2> QED BY <2>1, <2>2 DEF KeyHeld
<1>3. CASE Elsewhere
  BY <1>3, ElsewhereKeeps DEF KeyHeld
<1> QED BY <1>1, <1>2, <1>3, Steps

-----------------------------------------------------------------------------
(* The properties *)

(* Whatever a comment's number will be, nobody has been told of it yet. *)
LEMMA UnannouncedStep ==
    TypeOK /\ KindsOK /\ RoomLeft /\ Unannounced /\ [Next]_vars => Unannounced'
<1> SUFFICES ASSUME TypeOK, KindsOK, RoomLeft, Unannounced, [Next]_vars PROVE Unannounced'
  OBVIOUS
<1>1. CASE UNCHANGED vars
  BY <1>1 DEF vars, Unannounced, About, talk
<1>2. ASSUME NEW r \in Requests, Step(r) PROVE Unannounced'
  <2>1. CASE NotifyAndCommit(r)
    <3>1. Len(comments) < MaxComments /\ Len(comments) \in Nat
      <4>1. r \in Commenting
        BY <2>1 DEF NotifyAndCommit, Commenting
      <4> QED BY <4>1, RoomForOne
    <3>2. Len(comments') = Len(comments) + 1
      BY <2>1 DEF NotifyAndCommit, TypeOK
    <3>3. ASSUME NEW u \in Users, NEW n \in 1..MaxComments, n > Len(comments')
          PROVE  About(u, "mention", n)' = 0 /\ About(u, "comment", n)' = 0
      <4>1. n # Len(comments) + 1 /\ n > Len(comments)
        BY <3>1, <3>2, <3>3
      <4> QED BY <2>1, <3>1, <4>1, Told DEF Unannounced
    <3> QED BY <3>3 DEF Unannounced
  <2>2. CASE ~NotifyAndCommit(r)
    <3>1. comments' = comments
      BY <1>2, <2>2, TalkKept
    <3>2. \A u \in Users, kind \in {"mention", "comment"}, n \in 1..MaxComments :
            About(u, kind, n)' = About(u, kind, n)
      BY <1>2, <2>2, NotesKept
    <3> QED BY <3>1, <3>2 DEF Unannounced
  <2> QED BY <2>1, <2>2
<1>3. CASE Elsewhere
  <2>1. CASE DeleteTask
    <3>1. inbox \in [Users -> [Notes -> Nat]] /\ inbox' = Forget(inbox, 1..MaxComments)
      BY <2>1 DEF DeleteTask, TypeOK
    <3>2. \A u \in Users, k \in Kinds, n \in Occasions :
            n \in 1..MaxComments => inbox'[u][Note(k, n)] = 0
      <4> DEFINE gone == 1..MaxComments
      <4> HIDE DEF gone
      <4>1. \A u \in Users, k \in Kinds, n \in Occasions :
              n \in gone => Forget(inbox, gone)[u][Note(k, n)] = 0
        BY <3>1, ForgottenBox
      <4> QED BY <3>1, <4>1 DEF gone
    <3> QED BY <3>2, OtherOccasions DEF Unannounced, About, Note
  <2>2. CASE ~DeleteTask
    BY <1>3, <2>2, ElsewhereKeeps DEF Unannounced, About
  <2> QED BY <2>1, <2>2
<1> QED BY <1>1, <1>2, <1>3, Steps

(* The counter follows the rows, and what a reader has read of it does not lead. *)
LEMMA CountedStep == TypeOK /\ RowHeld /\ CommentsCounted /\ [Next]_vars => CommentsCounted'
<1> SUFFICES ASSUME TypeOK, RowHeld, CommentsCounted, [Next]_vars PROVE CommentsCounted'
  OBVIOUS
<1>0. Len(comments) \in Nat
  BY DEF TypeOK
<1>1. CASE UNCHANGED vars
  BY <1>1 DEF vars, CommentsCounted, talk
<1>2. ASSUME NEW r \in Requests, Step(r) PROVE CommentsCounted'
  <2>1. /\ stored' = stored /\ count' = Len(comments') /\ Len(comments') >= Len(comments)
        /\ Len(comments') \in Nat
    <3>1. CASE NotifyAndCommit(r)
      <4>1. count' = Len(comments) + 1 /\ stored' = stored
        BY <3>1 DEF NotifyAndCommit, RowHeld
      <4>2. Len(comments') = Len(comments) + 1
        BY <3>1 DEF NotifyAndCommit, TypeOK
      <4> QED BY <1>0, <4>1, <4>2
    <3> QED BY <1>0, <1>2, <3>1, TalkKept DEF CommentsCounted
  <2>2. ASSUME NEW q \in Requests, pc'[q] = "read_comments", stored PROVE num'[q] <= Len(comments')
    <3>1. CASE q # r
      <4>1. pc[q] = "read_comments" /\ num'[q] = num[q] /\ num[q] \in Int
        BY <1>2, <2>2, <3>1, OthersStay DEF TypeOK
      <4>2. num[q] <= Len(comments)
        BY <2>2, <4>1 DEF CommentsCounted
      <4> QED BY <1>0, <2>1, <4>1, <4>2
    <3>2. CASE q = r
      <4>1. CASE BeginAny(r)
        BY <2>2, <3>2, <4>1, Begins DEF Begin, Goto, TypeOK, FirstStatements
      <4>2. CASE End(r)
        BY <2>2, <3>2, <4>2 DEF End, TypeOK
      <4>3. CASE InsertComment(r) \/ CountComment(r) \/ ReadMembers(r) \/ NotifyAndCommit(r)
                 \/ LockTicketKeys(r) \/ ReadTicketKey(r) \/ CheckAssignee(r)
        BY <2>2, <3>2, <4>3 DEF InsertComment, CountComment, ReadMembers, NotifyAndCommit,
           LockTicketKeys, ReadTicketKey, CheckAssignee, AfterCheck, Goto, TypeOK
      <4>4. CASE ReadRow(r)
        <5>1. num'[r] = count /\ Len(comments') = Len(comments)
          BY <4>4 DEF ReadRow, TypeOK, talk
        <5> QED BY <1>0, <3>2, <5>1 DEF CommentsCounted
      <4> QED BY <1>2, <4>1, <4>2, <4>3, <4>4
              DEF Step, Serve, TaskGone, ReadComments, RefuseAssignee, InsertTicket,
                  UpdateTicket, DeleteTicket, InsertMilestone, DeleteMilestone, Abandon
    <3> QED BY <3>1, <3>2
  <2> QED BY <2>1, <2>2 DEF CommentsCounted
<1>3. CASE Elsewhere
  <2>1. CASE DeleteTask
    BY <2>1 DEF DeleteTask, CommentsCounted
  <2>2. CASE ~DeleteTask
    BY <1>3, <2>2, ElsewhereKeeps DEF CommentsCounted
  <2> QED BY <2>1, <2>2
<1> QED BY <1>1, <1>2, <1>3, Steps

(* A number that is read under the lock is new, and stays it until it is used. *)
LEMMA TicketsStep ==
    TypeOK /\ KindsOK /\ KeyHeld /\ TicketKeysNeverCollide /\ [Next]_vars
        => TicketKeysNeverCollide'
<1> SUFFICES ASSUME TypeOK, KindsOK, KeyHeld, TicketKeysNeverCollide, [Next]_vars
             PROVE  TicketKeysNeverCollide'
  OBVIOUS
<1>k. \A t \in TicketIds : ticket[t] # NoTicket => ticket[t].key \in Keys
  BY DEF Keys, Present
<1>1. CASE UNCHANGED vars
  BY <1>1 DEF vars, TicketKeysNeverCollide, Keys, Present, desk
<1>2. ASSUME NEW r \in Requests, InsertTicket(r) PROVE TicketKeysNeverCollide'
  <2>1. PICK t \in TicketIds :
          /\ ticket[t] = NoTicket
          /\ ticket' = [ticket EXCEPT ![t] = [key |-> num[r], assignee |-> op[r].assignee]]
    BY <1>2 DEF InsertTicket, Present
  <2>2. num[r] \notin Keys
    BY <1>2 DEF InsertTicket, TicketKeysNeverCollide
  <2>3. \A q \in Requests : pc'[q] # "insert_ticket"
    <3>1. ASSUME NEW q \in Requests, pc[q] = "insert_ticket" PROVE q = r
      BY <1>2, <3>1 DEF InsertTicket, KeyHeld
    <3> QED BY <1>2, <3>1 DEF InsertTicket, End, TypeOK
  <2>4. ASSUME NEW i \in TicketIds, NEW j \in TicketIds, i # j, ticket'[i] # NoTicket
        PROVE  ticket'[i].key # ticket'[j].key
    <3>1. ticket'[t].key = num[r] /\ \A k \in TicketIds \ {t} : ticket'[k] = ticket[k]
      BY <2>1 DEF TypeOK
    <3>2. num[r] \in 1..MaxKey
      BY <1>2 DEF InsertTicket, KeyHeld
    <3>3. \A k \in TicketIds : ticket[k].key # num[r]
      <4>1. \A k \in TicketIds : ticket[k] \in Rows
        BY DEF TypeOK, Rows
      <4>2. \A k \in TicketIds : ticket[k] = NoTicket => ticket[k].key = 0
        BY RowFields, <4>1
      <4> QED BY <1>k, <2>2, <3>2, <4>2
    <3>4. CASE i = t
      BY <2>4, <3>1, <3>3, <3>4
    <3>5. CASE i # t
      BY <2>4, <3>1, <3>3, <3>5 DEF TicketKeysNeverCollide, Present
    <3> QED BY <3>4, <3>5
  <2> QED BY <2>3, <2>4 DEF TicketKeysNeverCollide, Present
<1>3. ASSUME \A r \in Requests : ~InsertTicket(r), ~UNCHANGED vars PROVE TicketKeysNeverCollide'
  <2>1. \A t \in TicketIds : ticket'[t] # NoTicket =>
          ticket[t] # NoTicket /\ ticket'[t].key = ticket[t].key
    BY <1>3, RowsKept
  <2>2. Keys' \subseteq Keys
    BY <2>1 DEF Keys, Present
  <2>3. \A t, k \in TicketIds : t # k /\ ticket'[t] # NoTicket => ticket'[t].key # ticket'[k].key
    <3> SUFFICES ASSUME NEW t \in TicketIds, NEW k \in TicketIds, t # k, ticket'[t] # NoTicket
                 PROVE  ticket'[t].key # ticket'[k].key
      OBVIOUS
    <3>1. ticket'[t].key = ticket[t].key /\ ticket[t] # NoTicket
      BY <2>1
    <3>2. CASE ticket'[k] # NoTicket
      BY <2>1, <3>1, <3>2 DEF TicketKeysNeverCollide, Present
    <3>3. CASE ticket'[k] = NoTicket
      <4>1. ticket'[k].key = 0
        BY <3>3 DEF NoTicket
      <4>2. ticket[t].key \in 1..MaxKey
        BY <3>1, RowFields DEF TypeOK, Rows
      <4> QED BY <3>1, <4>1, <4>2
    <3> QED BY <3>2, <3>3
  <2>4. ASSUME NEW q \in Requests, pc'[q] = "insert_ticket" PROVE num'[q] \notin Keys
    <3>1. ASSUME NEW r \in Requests, Step(r), q # r PROVE num'[q] \notin Keys
      BY <2>4, <3>1, OthersStay DEF TicketKeysNeverCollide
    <3>2. CASE Step(q)
      <4>1. CASE BeginAny(q)
        BY <2>4, <4>1, Begins DEF Begin, Goto, TypeOK, FirstStatements
      <4>2. CASE End(q)
        BY <2>4, <4>2 DEF End, TypeOK
      <4>3. CASE InsertComment(q) \/ CountComment(q) \/ ReadMembers(q) \/ NotifyAndCommit(q)
                 \/ ReadRow(q) \/ LockTicketKeys(q) \/ CheckAssignee(q)
        BY <2>4, <4>3 DEF InsertComment, CountComment, ReadMembers, NotifyAndCommit, ReadRow,
           LockTicketKeys, CheckAssignee, AfterCheck, Goto, TypeOK
      <4>4. CASE ReadTicketKey(q)
        <5>1. num'[q] = NextTicketKey(Keys)
          BY <4>4 DEF ReadTicketKey, TypeOK
        <5>2. \A k \in Keys : k < NextTicketKey(Keys)
          BY NextKeyIsLarger
        <5>3. NextTicketKey(Keys) \in Nat
          BY NextKeyIsLarger
        <5> QED BY <5>1, <5>2, <5>3
      <4> QED BY <3>2, <4>1, <4>2, <4>3, <4>4
              DEF Step, Serve, TaskGone, ReadComments, RefuseAssignee, InsertTicket,
                  UpdateTicket, DeleteTicket, InsertMilestone, DeleteMilestone, Abandon
    <3>3. CASE Elsewhere
      BY <2>4, <3>3, ElsewhereKeeps DEF TicketKeysNeverCollide
    <3> QED BY <1>3, <3>1, <3>2, <3>3, Steps
  <2> QED BY <2>2, <2>3, <2>4 DEF TicketKeysNeverCollide, Present
<1> QED BY <1>1, <1>2, <1>3

(* What comment n has told u. *)
Reached(n, u) ==
    LET author == comments[n].author
        mentions == About(u, "mention", n)
        others == About(u, "comment", n)
    IN
    /\ mentions + others <= 1
    /\ u = author => mentions + others = 0
    /\ Matches(u, comments[n].body) = {} => mentions = 0
    /\ u # author /\ ClearlyMentioned(u, comments[n].body) => mentions = 1
    /\ u # author /\ (\E i \in 1..(n - 1) : comments[i].author = u) => mentions + others = 1
    /\ u # author /\ ~reassigned /\ u \in assigned => mentions + others = 1

(* The property, comment by comment. *)
LEMMA ReachedAll ==
    CommentsReachParticipants <=> \A n \in DOMAIN comments : \A u \in active : Reached(n, u)
BY DEF CommentsReachParticipants, Reached

(* A comment told once whom it concerned; who has left or has been assigned later *)
(* is none of them.                                                               *)
LEMMA StillReached ==
    ASSUME NEW n, NEW u, Reached(n, u),
           comments'[n] = comments[n], \A i \in 1..(n - 1) : comments'[i] = comments[i],
           About(u, "mention", n)' = About(u, "mention", n),
           About(u, "comment", n)' = About(u, "comment", n),
           ~reassigned' /\ u \in assigned' => ~reassigned /\ u \in assigned
    PROVE  Reached(n, u)'
BY DEF Reached

(* A commit reaches everybody its comment concerns. *)
LEMMA CommitReaches ==
    ASSUME TypeOK, KindsOK, RoomLeft, RowHeld, Unannounced, NEW r \in Requests,
           NotifyAndCommit(r), NEW u \in active, NEW n, n = Len(comments) + 1
    PROVE  Reached(n, u)'
<1> DEFINE body == op[r].body
           author == op[r].user
           targets == MentionTargets(r)
           others == CommentTargets(r)
<1>1. Len(comments) < MaxComments /\ Len(comments) \in Nat
  <2>1. r \in Commenting
    BY DEF NotifyAndCommit, Commenting
  <2> QED BY <2>1, RoomForOne
<1>2. n \in 1..MaxComments
  BY <1>1, ContentAssumption
<1>3. /\ comments'[n] = [author |-> author, body |-> body]
      /\ \A i \in 1..(n - 1) : comments'[i] = comments[i]
      /\ assigned' = assigned
  BY DEF NotifyAndCommit, TypeOK, people
<1>4. u \in Users /\ u \in seen[r] /\ seen[r] \in SUBSET Users
  BY DEF TypeOK, RowHeld, NotifyAndCommit
<1>5. About(u, "mention", n) = 0 /\ About(u, "comment", n) = 0
  BY <1>1, <1>2, <1>4 DEF Unannounced
<1>6. /\ About(u, "mention", n)' = IF u \in targets THEN 1 ELSE 0
      /\ About(u, "comment", n)' = IF u \in others THEN 1 ELSE 0
  BY <1>1, <1>2, <1>4, <1>5, Told
<1>7. /\ u \in targets <=> u \in Mentioned(r) /\ u # author
      /\ u \in others <=> u \in Participants /\ u # author /\ u \notin Mentioned(r)
  BY <1>4 DEF MentionTargets, CommentTargets
<1>8. /\ u \in Mentioned(r) => Matches(u, body) # {}
      /\ ClearlyMentioned(u, body) => u \in Mentioned(r)
  BY <1>4, MentionsStand, ClearMentionsFound DEF Mentioned
<1>9. /\ u \in assigned => u \in Participants
      /\ (\E i \in 1..(n - 1) : comments[i].author = u) => u \in Participants
  <2>1. 1..(n - 1) = DOMAIN comments
    BY <1>1 DEF TypeOK
  <2> QED BY <2>1 DEF Participants
<1>10. /\ comments'[n].author = author /\ comments'[n].body = body
       /\ \A i \in 1..(n - 1) : comments'[i].author = comments[i].author
  BY <1>3
<1> HIDE DEF body, author, targets, others
<1> QED BY <1>3, <1>6, <1>7, <1>8, <1>9, <1>10 DEF Reached

(* Every step keeps every comment's promise. *)
LEMMA ReachStep ==
    /\ TypeOK /\ KindsOK /\ RoomLeft /\ RowHeld /\ Unannounced /\ CommentsReachParticipants
    /\ [Next]_vars
    => CommentsReachParticipants'
<1> SUFFICES ASSUME TypeOK, KindsOK, RoomLeft, RowHeld, Unannounced, CommentsReachParticipants,
                    [Next]_vars
             PROVE  CommentsReachParticipants'
  OBVIOUS
<1>r. \A n \in DOMAIN comments : \A u \in active : Reached(n, u)
  BY ReachedAll
<1>d. DOMAIN comments = 1..Len(comments) /\ Len(comments) \in Nat /\ Len(comments) <= MaxComments
      /\ MaxComments \in Nat /\ active \subseteq Users
  BY ContentAssumption DEF TypeOK
<1> SUFFICES \A n \in DOMAIN comments' : \A u \in active' : Reached(n, u)'
  <2>1. CommentsReachParticipants' <=>
          (\A n \in DOMAIN comments : \A u \in active : Reached(n, u))'
    BY ReachedAll, PTL
  <2> QED BY <2>1
<1>1. CASE UNCHANGED vars
  BY <1>1, <1>r DEF vars, people, talk, Reached, About
<1>2. ASSUME NEW r \in Requests, Step(r), NEW n \in DOMAIN comments', NEW u \in active'
      PROVE  Reached(n, u)'
  <2>1. CASE NotifyAndCommit(r)
    <3>1. active' = active /\ assigned' = assigned /\ reassigned' = reassigned
      BY <2>1 DEF NotifyAndCommit, people
    <3>2. CASE n = Len(comments) + 1
      BY <2>1, <3>1, <3>2, CommitReaches
    <3>3. CASE n # Len(comments) + 1
      <4>1. n \in 1..Len(comments) /\ \A i \in 1..Len(comments) : comments'[i] = comments[i]
        <5>1. DOMAIN comments' = 1..(Len(comments) + 1)
              /\ \A i \in 1..Len(comments) : comments'[i] = comments[i]
          BY <2>1 DEF NotifyAndCommit, TypeOK
        <5> QED BY <1>d, <3>3, <5>1
      <4>2. Len(comments) < MaxComments
        <5>1. r \in Commenting
          BY <2>1 DEF NotifyAndCommit, Commenting
        <5> QED BY <5>1, RoomForOne
      <4>3. n \in 1..MaxComments /\ u \in Users
        BY <1>d, <3>1, <4>1
      <4>4. About(u, "mention", n)' = About(u, "mention", n)
            /\ About(u, "comment", n)' = About(u, "comment", n)
        BY <2>1, <3>3, <4>2, <4>3, Told
      <4>5. \A i \in 1..(n - 1) : comments'[i] = comments[i]
        BY <1>d, <4>1
      <4>6. Reached(n, u)
        BY <1>r, <1>d, <3>1, <4>1
      <4> QED BY <3>1, <4>1, <4>4, <4>5, <4>6, StillReached
    <3> QED BY <3>2, <3>3
  <2>2. CASE ~NotifyAndCommit(r)
    <3>1. comments' = comments /\ active' = active /\ assigned' = assigned
          /\ reassigned' = reassigned
      BY <1>2, <2>2, TalkKept DEF people
    <3>2. Reached(n, u) /\ n \in 1..MaxComments /\ u \in Users
      BY <1>r, <1>d, <3>1
    <3>3. About(u, "mention", n)' = About(u, "mention", n)
          /\ About(u, "comment", n)' = About(u, "comment", n)
      BY <1>2, <2>2, <3>2, NotesKept
    <3> QED BY <3>1, <3>2, <3>3, StillReached
  <2> QED BY <2>1, <2>2
<1>3. ASSUME Elsewhere, NEW n \in DOMAIN comments', NEW u \in active'
      PROVE  Reached(n, u)'
  <2>1. CASE DeleteTask
    <3>1. DOMAIN comments' = {}
      BY <2>1 DEF DeleteTask
    <3> QED BY <1>3, <3>1
  <2>2. CASE ~DeleteTask
    <3>1. comments' = comments /\ inbox' = inbox /\ u \in active
      BY <1>3, <2>2, ElsewhereKeeps
    <3>2. ~reassigned' /\ u \in assigned' => ~reassigned /\ u \in assigned
      BY <1>3, ElsewhereKeeps
    <3>3. Reached(n, u)
      BY <1>3, <1>r, <3>1
    <3>4. About(u, "mention", n)' = About(u, "mention", n)
          /\ About(u, "comment", n)' = About(u, "comment", n)
      BY <3>1 DEF About
    <3> QED BY <3>1, <3>2, <3>3, <3>4, StillReached
  <2> QED BY <2>1, <2>2
<1> QED BY <1>1, <1>2, <1>3, Steps

-----------------------------------------------------------------------------
(* Inv is inductive: what Content guarantees, whatever the requests do. *)
THEOREM InvHolds == Spec => []Inv
<1>1. Inv /\ [Next]_vars => Inv'
  <2> SUFFICES ASSUME Inv, [Next]_vars PROVE Inv'
    OBVIOUS
  <2>1. TypeOK' /\ KindsOK' /\ RoomLeft' /\ RowHeld' /\ KeyHeld'
    BY TypeStep, KindsStep, RoomStep, RowStep, KeyStep DEF Inv
  <2>2. Unannounced' /\ CommentsCounted'
    BY UnannouncedStep, CountedStep DEF Inv
  <2>3. TicketKeysNeverCollide' /\ CommentsReachParticipants'
    BY TicketsStep, ReachStep DEF Inv
  <2> QED BY <2>1, <2>2, <2>3 DEF Inv
<1> QED BY InitInv, <1>1, PTL DEF Spec

(* Every variable keeps its type. *)
THEOREM ContentTypeOK == Spec => []TypeOK
<1>1. Inv => TypeOK
  BY DEF Inv
<1> QED BY <1>1, InvHolds, PTL

(* create_comment: a comment tells every member it names and everybody who takes *)
(* part once and in one way, and never its author.                               *)
THEOREM EverybodyIsTold == Spec => []CommentsReachParticipants
<1>1. Inv => CommentsReachParticipants
  BY DEF Inv
<1> QED BY <1>1, InvHolds, PTL

(* comments_count is the number of comments, and no answer shows fewer than it says. *)
THEOREM CommentsAreCounted == Spec => []CommentsCounted
<1>1. Inv => CommentsCounted
  BY DEF Inv
<1> QED BY <1>1, InvHolds, PTL

(* next_ticket_key: no two tickets get the same number. *)
THEOREM TicketKeysUnique == Spec => []TicketKeysNeverCollide
<1>1. Inv => TicketKeysNeverCollide
  BY DEF Inv
<1> QED BY <1>1, InvHolds, PTL
=============================================================================
