-------------------------- MODULE MCDunningLetters --------------------------
EXTENDS DunningLetters, TLC

(* Email worker executions are interchangeable. *)
ProcessorSymmetry == Permutations(Processors)
=============================================================================
