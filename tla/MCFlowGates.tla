----------------------------- MODULE MCFlowGates -----------------------------
EXTENDS FlowGates

CONSTANTS ann, bob, cy

(* Two Flows: a manager gate in front of the CFO's, and the legal gate. *)
MCFlowOf == [manager |-> "amount", cfo |-> "amount", legal |-> "contract"]
MCRoots == [amount |-> {"manager"}, contract |-> {"legal"}]
MCThen == [manager |-> {"cfo"}, cfo |-> {}, legal |-> {}]
MCAssignees == [manager |-> {ann, bob}, cfo |-> {cy}, legal |-> {ann, cy}]
MCEscalateTo == [manager |-> {cy}, cfo |-> {}, legal |-> {bob}]

(* One Flow whose trigger reaches two gates at once *)
ParallelFlowOf == [manager |-> "amount", legal |-> "amount"]
ParallelRoots == [amount |-> {"manager", "legal"}]
ParallelThen == [manager |-> {}, legal |-> {}]
ParallelAssignees == [manager |-> {ann}, legal |-> {bob}]
ParallelEscalateTo == [manager |-> {}, legal |-> {}]
=============================================================================
