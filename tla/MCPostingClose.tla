--------------------------- MODULE MCPostingClose ---------------------------
(* An instance of PostingClose for TLC. *)
EXTENDS PostingClose, TLC

RequestSymmetry == Permutations(Requests)

(* A view of the state that keeps what a later step can read: no step and   *)
(* no property reads an ended request, or the scope of a posting whose      *)
(* effects have succeeded.                                                  *)
Distinguished ==
  <<lock, job, effect,
    [r \in Requests |-> IF request[r].status \in Ended THEN "ended" ELSE request[r]],
    [d \in Docs |-> IF effect[d] = "succeeded" THEN "settled" ELSE posting[d]]>>
=============================================================================
