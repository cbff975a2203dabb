------------------------- MODULE MCAutopayCollection -------------------------
(* Instances of AutopayCollection for TLC. *)
EXTENDS AutopayCollection, TLC

RunSymmetry == Permutations(Runs)
=============================================================================
