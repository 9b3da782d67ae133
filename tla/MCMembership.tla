---------------------------- MODULE MCMembership ----------------------------
(* TLC's instances of Membership.                                            *)
EXTENDS Membership, TLC

CONSTANTS a, b, c, m1, m2, m3

ThreeUsers == (m1 :> a) @@ (m2 :> b) @@ (m3 :> c)

(* b can be removed and invited again. *)
Rejoining == (m1 :> a) @@ (m2 :> b) @@ (m3 :> b)
=============================================================================
