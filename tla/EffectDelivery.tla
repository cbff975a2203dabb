--------------------------- MODULE EffectDelivery ---------------------------
(***************************************************************************)
(* What the posting-effects outbox promises, without leases, attempts,     *)
(* clocks or drainers: the effects of a posted document are owed until     *)
(* they are delivered in full or given up in the open, giving up leaves    *)
(* evidence and can be undone by an operator, and delivery is for good.    *)
(***************************************************************************)
EXTENDS Naturals

CONSTANTS
  Documents,  \* documents that may be posted
  AllSteps    \* number of downstream steps of a full delivery

VARIABLES
  debt,       \* per document: "none", "owed", "delivered" or "abandoned"
  done,       \* per document: downstream steps that have taken effect
  evidence    \* per document: [terminal, replay] counts of audit rows

dvars == <<debt, done, evidence>>

DInit ==
  /\ debt = [d \in Documents |-> "none"]
  /\ done = [d \in Documents |-> 0]
  /\ evidence = [d \in Documents |-> [terminal |-> 0, replay |-> 0]]

(* The document's journal commits. *)
Owe(d) ==
  /\ debt[d] = "none"
  /\ debt' = [debt EXCEPT ![d] = "owed"]
  /\ UNCHANGED <<done, evidence>>

(* Some drainer makes progress, in order and at most once per step; a late  *)
(* drainer may still be at it after the effects were delivered or given up. *)
Progress(d) ==
  /\ debt[d] # "none"
  /\ done[d] < AllSteps
  /\ done' = [done EXCEPT ![d] = @ + 1]
  /\ UNCHANGED <<debt, evidence>>

Deliver(d) ==
  /\ debt[d] = "owed"
  /\ done[d] = AllSteps
  /\ debt' = [debt EXCEPT ![d] = "delivered"]
  /\ UNCHANGED <<done, evidence>>

(* One recovery transaction may give up several documents at once. *)
Abandon(D) ==
  /\ D # {}
  /\ \A d \in D : debt[d] = "owed"
  /\ debt' = [d \in Documents |-> IF d \in D THEN "abandoned" ELSE debt[d]]
  /\ evidence' = [d \in Documents |->
       IF d \in D THEN [evidence[d] EXCEPT !.terminal = @ + 1] ELSE evidence[d]]
  /\ UNCHANGED done

Resume(d) ==
  /\ debt[d] = "abandoned"
  /\ debt' = [debt EXCEPT ![d] = "owed"]
  /\ evidence' = [evidence EXCEPT ![d].replay = @ + 1]
  /\ UNCHANGED done

DNext ==
  \/ \E d \in Documents : Owe(d) \/ Progress(d) \/ Deliver(d) \/ Resume(d)
  \/ \E D \in SUBSET Documents : Abandon(D)

DSpec == DInit /\ [][DNext]_dvars

=============================================================================
