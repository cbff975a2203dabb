-------------------------- MODULE MCPostingEffects --------------------------
(* Instances of PostingEffects for TLC. *)
EXTENDS PostingEffects, TLC

WorkerSymmetry == Permutations(Workers)
=============================================================================
