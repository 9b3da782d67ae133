-------------------------------- MODULE MCLive --------------------------------
(* TLC's instances of Live. *)
EXTENDS Live, TLC

LiveSymmetry == Permutations(Items) \cup Permutations(Loops) \cup Permutations(Fetches)
=============================================================================
