------------------------------ MODULE FlowGates ------------------------------
(***************************************************************************)
(* Approval of one document through tenant Flows, engine/src/flows.        *)
(*                                                                         *)
(* Submitting the document starts one run for each Flow that matches it.   *)
(* A run opens gates, one row per assignee, and waits.  A decision flips a *)
(* row; when the quorum of its gate is met, the approve branch resumes on  *)
(* the same run: further gates, or the actions that end the branch.  The   *)
(* document is released when no gate of any run is open, and the actions   *)
(* of a terminal branch wait for that release, parked on their run.  A     *)
(* rejection, a withdrawal and a return to draft close everything.         *)
(*                                                                         *)
(* Each command is one transaction under the advisory lock of the document *)
(* (lockApprovalSubject), with its checks repeated under the lock, so each *)
(* is one step.  A command that fails rolls back, and is no step.          *)
(***************************************************************************)
EXTENDS Integers, FiniteSets

CONSTANTS
  Flows,          \* enabled Flows of the document's kind
  Nodes,          \* gate nodes of their graphs
  Users,          \* people who may decide
  NoUser,
  FlowOf,         \* the Flow of each node
  Roots,          \* the gates of each Flow that its trigger reaches
  Then,           \* the gates on the approve branch of each node
  Acts,           \* nodes whose approve branch has actions
  AllOf,          \* nodes with quorum 'all'; the others have 'any'
  Assignees,      \* the assignees each gate resolves to
  EscalateTo,     \* the recipients of each gate's escalation
  MaxSubmissions  \* bound on the submissions of the document

NoNode == "none"   \* nothing parked

ASSUME FlowAssumption ==
  /\ IsFiniteSet(Users) /\ NoUser \notin Users /\ NoNode \notin Nodes
  /\ Acts \subseteq Nodes /\ AllOf \subseteq Nodes
  /\ FlowOf \in [Nodes -> Flows] /\ Roots \in [Flows -> (SUBSET Nodes) \ {{}}]
  /\ Then \in [Nodes -> SUBSET Nodes]
  /\ Assignees \in [Nodes -> (SUBSET Users) \ {{}}] /\ EscalateTo \in [Nodes -> SUBSET Users]
  /\ MaxSubmissions \in Nat \ {0}

(* Branches stay in the graph of their Flow, and the trigger of a Flow      *)
(* leads to each of its gates over approve branches.                        *)
ASSUME GraphAssumption ==
  /\ \A f \in Flows : \A g \in Roots[f] : FlowOf[g] = f
  /\ \A g \in Nodes : \A h \in Then[g] : FlowOf[h] = FlowOf[g]
  /\ \A f \in Flows : \A S \in SUBSET Nodes :
       (Roots[f] \subseteq S /\ \A g \in S : Then[g] \subseteq S)
         => \A g \in Nodes : FlowOf[g] = f => g \in S

Submissions == 1..MaxSubmissions

VARIABLES
  doc,         \* documents.status
  submission,  \* flow_submissions: the newest one
  run,         \* flow_runs, one per submission and matching Flow
  gate,        \* flow_gates, unique per run, node and assignee
  ran          \* flow_run_effects: approve branches of it whose actions ran

vars == <<doc, submission, run, gate, ran>>

(* parked: the node of the run's approvalContinuation *)
Run == [status : {"none", "waiting", "completed", "cancelled"}, parked : Nodes \cup {NoNode}]

(* from: whose escalated row this one replaces.  due: escalate_at is set.   *)
Row == [status : {"none", "pending", "approved", "rejected", "cancelled", "escalated"},
        from : Users \cup {NoUser}, due : BOOLEAN]

NoRun == [status |-> "none", parked |-> NoNode]

Rows == Submissions \X Nodes \X Users

NoRow == [status |-> "none", from |-> NoUser, due |-> FALSE]

Init ==
  /\ doc = "draft" /\ submission = 0
  /\ run = [r \in Submissions \X Flows |-> NoRun]
  /\ gate = [k \in Rows |-> NoRow]
  /\ ran = {}

-----------------------------------------------------------------------------
(* Rows of the table rows that still ask for a decision *)
IsOpen(row) == row.status \in {"pending", "escalated"}

Open(rows) == {k \in Rows : IsOpen(rows[k])}

OpenIn(rows, n, f) == {k \in Open(rows) : k[1] = n /\ FlowOf[k[2]] = f}

(* liveApprovalRunSql: a waiting run of the newest submission *)
Live(n, f) == n = submission /\ run[<<n, f>>].status = "waiting"

CancelledRow(row) == [row EXCEPT !.status = "cancelled"]

(* Mutant: open rows are left behind. *)
CancelPending(rows, K) ==
  [k \in Rows |-> IF k \in K /\ rows[k].status = "pending" THEN CancelledRow(rows[k]) ELSE rows[k]]

Cancel(rows, K) ==
  [k \in Rows |-> IF k \in K /\ IsOpen(rows[k]) THEN CancelledRow(rows[k]) ELSE rows[k]]

CancelRuns(R) ==
  [r \in DOMAIN run |-> IF r \in R /\ run[r].status = "waiting"
                          THEN [run[r] EXCEPT !.status = "cancelled"] ELSE run[r]]

(* createGate for the nodes G, each at most once in a run *)
CreateGates(rows, n, G) ==
  LET new == {g \in G : \A u \in Users : rows[<<n, g, u>>].status = "none"} IN
  [k \in Rows |-> IF k[1] = n /\ k[2] \in new /\ k[3] \in Assignees[k[2]]
                    THEN [status |-> "pending", from |-> NoUser, due |-> EscalateTo[k[2]] # {}]
                    ELSE rows[k]]

-----------------------------------------------------------------------------
(* submitAndReleaseIfUngated: the Flows M match the draft as it is now.     *)
(* Without a gate the document is released at once.  Nothing reads the      *)
(* closed rows of earlier submissions, so the model forgets them here.      *)
Submit(M) ==
  LET n == submission + 1
      kept == [k \in Rows |-> IF IsOpen(gate[k]) THEN gate[k] ELSE NoRow] IN
  /\ doc = "draft" /\ n \in Submissions
  /\ submission' = n
  /\ run' = [r \in DOMAIN run |-> IF r[1] = n /\ r[2] \in M THEN [NoRun EXCEPT !.status = "waiting"]
                                  ELSE IF run[r].status = "waiting" THEN run[r] ELSE NoRun]
  /\ gate' = CreateGates(kept, n, UNION {Roots[f] : f \in M})
  /\ doc' = IF M = {} THEN "approved" ELSE "pending"
  /\ ran' = {}

(* withdrawDocumentSubmission and returnDocumentToDraft: the live runs and  *)
(* their open gates are cancelled.                                          *)
BackToDraft(from) ==
  LET R == {r \in DOMAIN run : run[r].status = "waiting"} IN
  /\ doc = from /\ doc' = "draft"
  /\ run' = CancelRuns(R)
  /\ gate' = Cancel(gate, {k \in Rows : <<k[1], FlowOf[k[2]]>> \in R})
  /\ UNCHANGED <<submission, ran>>

WithdrawSubmission == BackToDraft("pending")

ReturnToDraft == BackToDraft("approved")

-----------------------------------------------------------------------------
(* resolveQuorumOutcome over the rows of node g, the decision included *)
Group(n, g) == {n} \X {g} \X Users

(* Mutant: an escalated row blocks its group. *)
WaitingOpen(rows, n, g) == \E k \in Group(n, g) : IsOpen(rows[k])

Waiting(rows, n, g) == \E k \in Group(n, g) : rows[k].status = "pending"

(* Some row is neither approved nor replaced by an approved one. *)
Unresolved(rows, n, g) ==
  \E k \in Group(n, g) :
    /\ rows[k].status \notin {"none", "approved"}
    /\ ~\E m \in Group(n, g) : rows[m].status = "approved" /\ rows[m].from = k[3]

(* Mutant: the first approval is enough for every gate. *)
QuorumFirst(rows, n, g, decision) == {decision}

(* What a decision resumes: "wait" for the others, or a branch.  No outcome *)
(* is a refusal.                                                            *)
Quorum(rows, n, g, decision) ==
  IF g \notin AllOf \/ decision = "rejected" THEN {decision}
  ELSE IF Waiting(rows, n, g) THEN {"wait"}
  ELSE IF \E k \in Group(n, g) : rows[k].status = "rejected" THEN {"rejected"}
  ELSE IF Unresolved(rows, n, g) THEN {} ELSE {"approved"}

(* Mutant: a terminal branch runs while other gates are open. *)
ParksNever(rows, g) == FALSE

(* A terminal branch with actions is parked while any gate is open. *)
Parks(rows, g) == Then[g] = {} /\ g \in Acts /\ Open(rows) # {}

(* Mutant: nothing parked is picked up. *)
ContinuationsNone(n, f) == {}

(* completeSubjectApprovalContinuations: the parked branches of other runs *)
Continuations(n, f) ==
  {r \in DOMAIN run : r # <<n, f>> /\ run[r].status = "waiting" /\ run[r].parked # NoNode}

(* The actions of node g's approve branch, once per run *)
Effects(n, g) == IF g \in Acts THEN {<<n, g>>} ELSE {}

Reject(rows, n, f) ==
  /\ gate' = Cancel(rows, Rows)
  /\ run' = [CancelRuns(DOMAIN run \ {<<n, f>>}) EXCEPT ![<<n, f>>].status = "completed"]
  /\ doc' = IF doc = "pending" THEN "draft" ELSE doc
  /\ UNCHANGED ran

Park(rows, n, f, g) ==
  /\ gate' = rows
  /\ run' = [run EXCEPT ![<<n, f>>].parked = g]
  /\ UNCHANGED <<doc, ran>>

(* finalizeRunStatus *)
RunStatus(rows, n, f) == IF OpenIn(rows, n, f) = {} THEN "completed" ELSE "waiting"

(* The branch runs; with no gate left open the document is released, and    *)
(* the branches parked on the other runs follow.                            *)
ResumeApproved(rows, n, f, g) ==
  LET next == CreateGates(rows, n, Then[g])
      released == Open(next) = {}
      follow == IF released THEN Continuations(n, f) ELSE {} IN
  /\ \A r \in follow : Live(r[1], r[2])
  /\ gate' = next
  /\ run' = [r \in DOMAIN run |->
       IF r = <<n, f>> THEN [run[r] EXCEPT !.status = RunStatus(next, n, f)]
       ELSE IF r \in follow THEN [status |-> "completed", parked |-> NoNode]
       ELSE run[r]]
  /\ ran' = ran \cup Effects(n, g) \cup {<<r[1], run[r].parked>> : r \in follow}
  /\ doc' = IF released /\ doc = "pending" THEN "approved" ELSE doc

(* decideGate *)
Decide(n, g, u, decision) ==
  LET f == FlowOf[g]
      rows == [gate EXCEPT ![<<n, g, u>>].status = decision]
      closed == Cancel(rows, Group(n, g)) IN
  /\ gate[<<n, g, u>>].status = "pending" /\ Live(n, f)
  /\ \E outcome \in Quorum(rows, n, g, decision) :
       \/ outcome = "wait" /\ gate' = rows /\ UNCHANGED <<run, doc, ran>>
       \/ outcome = "rejected" /\ Reject(rows, n, f)
       \/ outcome = "approved" /\ Parks(closed, g) /\ Park(closed, n, f, g)
       \/ outcome = "approved" /\ ~Parks(closed, g) /\ ResumeApproved(closed, n, f, g)
  /\ UNCHANGED submission

-----------------------------------------------------------------------------
(* delegateGate: the row changes hands, unless the target holds one. *)
Delegate(n, g, u, to) ==
  /\ gate[<<n, g, u>>].status = "pending" /\ Live(n, FlowOf[g])
  /\ gate[<<n, g, to>>].status = "none"
  /\ gate' = [gate EXCEPT ![<<n, g, to>>] = gate[<<n, g, u>>], ![<<n, g, u>>] = NoRow]
  /\ UNCHANGED <<doc, submission, run, ran>>

(* escalateGate: S are the recipients with authority at this moment who     *)
(* hold no row of the gate.  Without one the row stays as it is.            *)
Escalate(n, g, u, S) ==
  /\ gate[<<n, g, u>>].status = "pending" /\ gate[<<n, g, u>>].due /\ Live(n, FlowOf[g])
  /\ \A v \in S : gate[<<n, g, v>>].status = "none"
  /\ gate' = [k \in Rows |->
       IF k = <<n, g, u>>
         THEN IF S = {} THEN [gate[k] EXCEPT !.due = FALSE]
                        ELSE [gate[k] EXCEPT !.status = "escalated"]
       ELSE IF k \in {n} \X {g} \X S THEN [status |-> "pending", from |-> u, due |-> FALSE]
       ELSE gate[k]]
  /\ UNCHANGED <<doc, submission, run, ran>>

Decisions == {"approved", "rejected"}

DecideSome == \E n \in Submissions, g \in Nodes, u \in Users, decision \in Decisions :
                Decide(n, g, u, decision)

Next ==
  \/ \E M \in SUBSET Flows : Submit(M)
  \/ WithdrawSubmission \/ ReturnToDraft
  \/ DecideSome
  \/ \E n \in Submissions, g \in Nodes, u \in Users :
       \/ \E to \in Users : Delegate(n, g, u, to)
       \/ \E S \in SUBSET EscalateTo[g] : Escalate(n, g, u, S)

Spec == Init /\ [][Next]_vars

(* Somebody who is asked answers; which of them is up to them. *)
FairSpec == Spec /\ WF_vars(DecideSome)

-----------------------------------------------------------------------------
(* Every status, row and run has its type. *)
FlowTypeOK ==
  /\ doc \in {"draft", "pending", "approved"} /\ submission \in 0..MaxSubmissions
  /\ run \in [Submissions \X Flows -> Run]
  /\ gate \in [Rows -> Row]
  /\ ran \subseteq Submissions \X Nodes

Matched(n, f) == run[<<n, f>>].status # "none"

(* Every seat of the gate approved, itself or through its replacement; for  *)
(* quorum 'any', one of them.                                               *)
Approved(n, k) ==
  \/ gate[k].status = "approved"
  \/ \E m \in Group(n, k[2]) : gate[m].status = "approved" /\ gate[m].from = k[3]

Satisfied(n, g) ==
  LET seats == {k \in Group(n, g) : gate[k].status # "none" /\ gate[k].from = NoUser} IN
  /\ Cardinality(seats) = Cardinality(Assignees[g])
  /\ IF g \in AllOf THEN \A k \in seats : Approved(n, k)
                     ELSE \E k \in Group(n, g) : gate[k].status = "approved"

(* An approved document was approved by every gate of every Flow that       *)
(* matched its newest submission, whatever was delegated, escalated,        *)
(* rejected or withdrawn on the way: "approve releases only once no gate    *)
(* remains open across ALL runs".                                           *)
ReleasedMeansApproved ==
  doc = "approved" =>
    \A g \in Nodes : Matched(submission, FlowOf[g]) => Satisfied(submission, g)

(* "so nothing dangling can later re-release the record": a document that   *)
(* does not wait for approval has no open gate and no waiting run, of this  *)
(* submission or an earlier one.                                            *)
NothingDangling ==
  doc # "pending" => Open(gate) = {} /\ \A r \in DOMAIN run : run[r].status # "waiting"

(* "Finish terminal branches after every governing Flow has released the    *)
(* subject": once released, the actions of every approved branch have run.  *)
EveryBranchRuns ==
  doc = "approved" =>
    \A g \in Acts : Matched(submission, FlowOf[g]) => <<submission, g>> \in ran

(* "a terminal authored post_document action consumes an APPROVED record":  *)
(* the actions that end a branch run on a released document.                *)
ActionsAfterRelease ==
  [][\A x \in ran' \ ran : Then[x[2]] = {} => doc' = "approved"]_vars

(* No submission waits forever while the people who are asked answer: no    *)
(* quorum, escalation or delegation leaves a run that nobody can move.      *)
EveryRequestIsDecided == (doc = "pending") ~> (doc # "pending")

=============================================================================
