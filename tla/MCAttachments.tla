---------------------------- MODULE MCAttachments ----------------------------
(* TLC's instances of Attachments. *)
EXTENDS Attachments, TLC

CONSTANTS f1, f2, f3, f4

(* An empty file, and two that fill the quota together but not with a third. *)
Sizes == (f1 :> 0) @@ (f2 :> 1) @@ (f3 :> 1) @@ (f4 :> 2)

TaskSymmetry == Permutations(TaskIds) \cup Permutations(Requests)
=============================================================================
