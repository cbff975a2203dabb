-------------------------- MODULE MCSchedulerOutbox --------------------------
EXTENDS SchedulerOutbox, TLC

(* The two schedulers are interchangeable. *)
PassSymmetry == Permutations(Passes)
=============================================================================
