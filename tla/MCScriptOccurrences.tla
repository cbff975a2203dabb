------------------------- MODULE MCScriptOccurrences -------------------------
EXTENDS ScriptOccurrences, TLC

(* Scheduler processes are interchangeable, and so are worker executions. *)
ProcessSymmetry == Permutations(Scanners) \cup Permutations(Workers)
=============================================================================
