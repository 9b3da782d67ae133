-------------------------------- MODULE Roster --------------------------------
(***************************************************************************)
(* What a workspace promises about its members: accounts join once, and    *)
(* roles change and members leave one at a time, never the last owner.     *)
(***************************************************************************)
CONSTANTS MemberIds, UserOf, Founder

VARIABLE role

Absent == "absent"

Init == role = [i \in MemberIds |-> IF i = Founder THEN "owner" ELSE Absent]

AnotherOwner(i) == \E j \in MemberIds \ {i} : role[j] = "owner"

Join(i, ro) ==
    /\ \A j \in MemberIds : UserOf[j] = UserOf[i] => role[j] = Absent
    /\ ro # "owner"  \* nobody is invited as an owner
    /\ role' = [role EXCEPT ![i] = ro]

ChangeRole(i, ro) ==
    /\ role[i] # Absent
    /\ role[i] = "owner" /\ ro # "owner" => AnotherOwner(i)
    /\ role' = [role EXCEPT ![i] = ro]

Leave(i) ==
    /\ role[i] # Absent
    /\ role[i] = "owner" => AnotherOwner(i)
    /\ role' = [role EXCEPT ![i] = Absent]

Next ==
    \E i \in MemberIds :
        \/ Leave(i)
        \/ \E ro \in {"owner", "admin", "member", "viewer"} :
            Join(i, ro) \/ ChangeRole(i, ro)

Spec == Init /\ [][Next]_role
=============================================================================
