---------------------------- MODULE FlowGatesProofs ----------------------------
(***************************************************************************)
(* What FlowGates promises for every set of Flows, graph of gates, number  *)
(* of people and number of submissions.                                    *)
(*                                                                         *)
(* NothingDangling is kept together with two facts about runs: an open row *)
(* belongs to a waiting run (OpenHasRun), and a waiting run that parked no *)
(* branch has an open row (WaitsForSomeone); without the second a release  *)
(* could leave a run waiting.  ReleasedMeansApproved follows a document    *)
(* through its graph: every decided gate is satisfied and has opened the   *)
(* gates behind it, so when nothing is open any more the decided gates are *)
(* closed under approve branches, and they are all of them.                *)
(* EveryBranchRuns adds, for graphs whose gates follow one another, that a *)
(* run waits at one gate at a time and that the actions behind a decided   *)
(* gate ran or are parked on a run that waits at none.                     *)
(***************************************************************************)
EXTENDS FlowGates, FiniteSetTheorems, TLAPS

Tables == [Rows -> Row]

LEMMA RowKeys ==
  /\ \A n \in Submissions, g \in Nodes, u \in Users : <<n, g, u>> \in Rows
  /\ \A k \in Rows : /\ k = <<k[1], k[2], k[3]>>
                     /\ k[1] \in Submissions /\ k[2] \in Nodes /\ k[3] \in Users
BY DEF Rows

LEMMA NoRowFacts == NoRow \in Row /\ NoRow.status = "none" /\ ~IsOpen(NoRow)
BY DEF NoRow, Row, IsOpen

LEMMA NoRunFacts ==
  /\ NoRun \in Run /\ NoRun.status = "none" /\ NoRun.parked = NoNode
  /\ [NoRun EXCEPT !.status = "waiting"] \in Run
  /\ [NoRun EXCEPT !.status = "waiting"].status = "waiting"
BY DEF NoRun, Run

(* A Flow has a first gate, and a gate asks somebody. *)
LEMMA SomeoneAsked ==
  /\ \A f \in Flows : \E g \in Nodes : g \in Roots[f]
  /\ \A g \in Nodes : Assignees[g] \subseteq Users /\ \E u \in Users : u \in Assignees[g]
<1>1. \A f \in Flows : Roots[f] \in (SUBSET Nodes) \ {{}}  BY FlowAssumption
<1>2. \A g \in Nodes : Assignees[g] \in (SUBSET Users) \ {{}}  BY FlowAssumption
<1>3. QED  BY <1>1, <1>2

(* A table has no open row. *)
LEMMA NothingOpen ==
  ASSUME NEW rows
  PROVE  Open(rows) = {} <=>
           \A n \in Submissions, g \in Nodes, u \in Users : ~IsOpen(rows[<<n, g, u>>])
<1>1. ASSUME Open(rows) = {}, NEW n \in Submissions, NEW g \in Nodes, NEW u \in Users
      PROVE  ~IsOpen(rows[<<n, g, u>>])
  <2>1. <<n, g, u>> \in Rows  BY RowKeys
  <2>2. QED  BY <1>1, <2>1 DEF Open
<1>2. ASSUME \A n \in Submissions, g \in Nodes, u \in Users : ~IsOpen(rows[<<n, g, u>>])
      PROVE  Open(rows) = {}
  <2> SUFFICES ASSUME NEW k \in Rows, IsOpen(rows[k]) PROVE FALSE
    BY DEF Open
  <2>1. PICK n \in Submissions, g \in Nodes, u \in Users : k = <<n, g, u>>  BY RowKeys
  <2>2. QED  BY <1>2, <2>1
<1>3. QED  BY <1>1, <1>2

-----------------------------------------------------------------------------
(* Writing rows *)
LEMMA SetRow ==
  ASSUME NEW row \in Row, NEW status \in {"approved", "rejected", "cancelled", "escalated"}
  PROVE  /\ [row EXCEPT !.status = status] \in Row
         /\ [row EXCEPT !.status = status].status = status
         /\ [row EXCEPT !.status = status].from = row.from
BY DEF Row

LEMMA CancelReads ==
  ASSUME NEW rows \in Tables, NEW K \in SUBSET Rows
  PROVE  /\ Cancel(rows, K) \in Tables
         /\ \A k \in Rows :
              /\ Cancel(rows, K)[k].from = rows[k].from
              /\ Cancel(rows, K)[k].status =
                   IF k \in K /\ IsOpen(rows[k]) THEN "cancelled" ELSE rows[k].status
              /\ k \notin K => Cancel(rows, K)[k] = rows[k]
<1>1. \A k \in Rows : /\ rows[k] \in Row /\ CancelledRow(rows[k]) \in Row
                      /\ CancelledRow(rows[k]).status = "cancelled"
                      /\ CancelledRow(rows[k]).from = rows[k].from
  BY SetRow DEF Tables, CancelledRow
<1>2. QED  BY <1>1 DEF Cancel, Tables

NewRow(g) == [status |-> "pending", from |-> NoUser, due |-> EscalateTo[g] # {}]

Unopened(rows, n, g) == \A u \in Users : rows[<<n, g, u>>].status = "none"

LEMMA NewRowFacts ==
  ASSUME NEW g
  PROVE  NewRow(g) \in Row /\ NewRow(g).status = "pending" /\ NewRow(g).from = NoUser /\ IsOpen(NewRow(g))
BY DEF NewRow, Row, IsOpen

LEMMA CreateReads ==
  ASSUME NEW rows \in Tables, NEW n \in Submissions, NEW G \in SUBSET Nodes
  PROVE  /\ CreateGates(rows, n, G) \in Tables
         /\ \A m \in Submissions, g \in Nodes, u \in Users :
              CreateGates(rows, n, G)[<<m, g, u>>] =
                IF m = n /\ g \in G /\ Unopened(rows, n, g) /\ u \in Assignees[g]
                  THEN NewRow(g) ELSE rows[<<m, g, u>>]
<1> DEFINE new == {g \in G : Unopened(rows, n, g)}
           T == [k \in Rows |-> IF k[1] = n /\ k[2] \in new /\ k[3] \in Assignees[k[2]]
                                  THEN NewRow(k[2]) ELSE rows[k]]
<1>1. CreateGates(rows, n, G) = T  BY DEF CreateGates, NewRow, Unopened
<1>2. T \in Tables
  <2>1. \A k \in Rows : rows[k] \in Row /\ NewRow(k[2]) \in Row  BY NewRowFacts DEF Tables
  <2>2. QED  BY <2>1 DEF Tables
<1>3. ASSUME NEW m \in Submissions, NEW g \in Nodes, NEW u \in Users
      PROVE  T[<<m, g, u>>] =
               IF m = n /\ g \in G /\ Unopened(rows, n, g) /\ u \in Assignees[g]
                 THEN NewRow(g) ELSE rows[<<m, g, u>>]
  <2>1. <<m, g, u>> \in Rows  BY RowKeys
  <2>2. QED  BY <2>1
<1>4. QED  BY <1>1, <1>2, <1>3
-----------------------------------------------------------------------------
(* What a decision does, by its outcome *)

(* The rows of the gate g when u's approval meets its quorum: none is open, *)
(* and for quorum 'all' each is approved or replaced by an approved one.    *)
Closes(rows, n, g, u) ==
  /\ rows \in Tables
  /\ \A m \in Submissions, h \in Nodes, v \in Users :
       (m # n \/ h # g) => rows[<<m, h, v>>] = gate[<<m, h, v>>]
  /\ \A v \in Users :
       /\ ~IsOpen(rows[<<n, g, v>>])
       /\ rows[<<n, g, v>>].from = gate[<<n, g, v>>].from
       /\ rows[<<n, g, v>>].status = "none" <=> gate[<<n, g, v>>].status = "none"
  /\ rows[<<n, g, u>>].status = "approved"
  /\ g \in AllOf =>
       \A v \in Users :
         \/ rows[<<n, g, v>>].status \in {"none", "approved"}
         \/ \E w \in Users : rows[<<n, g, w>>].status = "approved" /\ rows[<<n, g, w>>].from = v

(* The gate waits for others. *)
KeepsWaiting(n, g, u) ==
  /\ gate' \in Tables
  /\ \A m \in Submissions, h \in Nodes, v \in Users :
       (m # n \/ h # g \/ v # u) => gate'[<<m, h, v>>] = gate[<<m, h, v>>]
  /\ gate'[<<n, g, u>>].status = "approved" /\ gate'[<<n, g, u>>].from = gate[<<n, g, u>>].from
  /\ \E v \in Users : IsOpen(gate'[<<n, g, v>>])
  /\ UNCHANGED <<run, doc, ran>>

RejectsAll(n, f) ==
  /\ gate' \in Tables
  /\ \A m \in Submissions, h \in Nodes, v \in Users : ~IsOpen(gate'[<<m, h, v>>])
  /\ run' = [CancelRuns(DOMAIN run \ {<<n, f>>}) EXCEPT ![<<n, f>>].status = "completed"]
  /\ doc' = IF doc = "pending" THEN "draft" ELSE doc
  /\ UNCHANGED ran

LEMMA DecideShape ==
  ASSUME FlowTypeOK, NEW n \in Submissions, NEW g \in Nodes, NEW u \in Users,
         NEW decision \in Decisions, Decide(n, g, u, decision)
  PROVE  /\ gate[<<n, g, u>>].status = "pending" /\ Live(n, FlowOf[g]) /\ submission' = submission
         /\ \/ KeepsWaiting(n, g, u)
            \/ RejectsAll(n, FlowOf[g])
            \/ \E rows \in Tables :
                 /\ Closes(rows, n, g, u)
                 /\ \/ Parks(rows, g) /\ Park(rows, n, FlowOf[g], g)
                    \/ ~Parks(rows, g) /\ ResumeApproved(rows, n, FlowOf[g], g)
<1> DEFINE f == FlowOf[g]
           D == [gate EXCEPT ![<<n, g, u>>].status = decision]
           C == Cancel(D, Group(n, g))
<1>1. gate \in Tables /\ <<n, g, u>> \in Rows  BY RowKeys DEF FlowTypeOK, Tables
<1>2. /\ gate[<<n, g, u>>].status = "pending" /\ Live(n, f) /\ submission' = submission
      /\ \E outcome \in Quorum(D, n, g, decision) :
           \/ outcome = "wait" /\ gate' = D /\ UNCHANGED <<run, doc, ran>>
           \/ outcome = "rejected" /\ Reject(D, n, f)
           \/ outcome = "approved" /\ Parks(C, g) /\ Park(C, n, f, g)
           \/ outcome = "approved" /\ ~Parks(C, g) /\ ResumeApproved(C, n, f, g)
  BY DEF Decide
<1>3. /\ D \in Tables
      /\ D[<<n, g, u>>].status = decision /\ D[<<n, g, u>>].from = gate[<<n, g, u>>].from
      /\ \A k \in Rows \ {<<n, g, u>>} : D[k] = gate[k]
  <2>0. gate[<<n, g, u>>] \in Row /\ decision \in {"approved", "rejected", "cancelled", "escalated"}
    BY <1>1 DEF Tables, Decisions
  <2>1. PICK row \in Row : row = [gate[<<n, g, u>>] EXCEPT !.status = decision]
                           /\ row.status = decision /\ row.from = gate[<<n, g, u>>].from
    <3>1. PICK old \in Row : old = gate[<<n, g, u>>]  BY <2>0
    <3>2. /\ [old EXCEPT !.status = decision] \in Row
          /\ [old EXCEPT !.status = decision].status = decision
          /\ [old EXCEPT !.status = decision].from = old.from
      BY <2>0, SetRow
    <3>3. QED  BY <3>1, <3>2
  <2>2. D = [gate EXCEPT ![<<n, g, u>>] = row]  BY <2>1
  <2> HIDE DEF D
  <2>3. QED  BY <1>1, <2>1, <2>2 DEF Tables
<1> HIDE DEF D
<1>4. \A m \in Submissions, h \in Nodes, v \in Users :
        (m # n \/ h # g \/ v # u) => D[<<m, h, v>>] = gate[<<m, h, v>>]
  <2> SUFFICES ASSUME NEW m \in Submissions, NEW h \in Nodes, NEW v \in Users,
                      m # n \/ h # g \/ v # u
               PROVE  D[<<m, h, v>>] = gate[<<m, h, v>>]
    OBVIOUS
  <2>1. <<m, h, v>> \in Rows \ {<<n, g, u>>}  BY RowKeys
  <2>2. QED  BY <1>3, <2>1
<1>5. /\ Group(n, g) \in SUBSET Rows
      /\ \A m \in Submissions, h \in Nodes, v \in Users :
           <<m, h, v>> \in Group(n, g) <=> (m = n /\ h = g)
  BY DEF Group, Rows
<1>6. /\ C \in Tables
      /\ \A k \in Rows :
              /\ C[k].from = D[k].from
              /\ C[k].status = IF k \in Group(n, g) /\ IsOpen(D[k]) THEN "cancelled" ELSE D[k].status
              /\ k \notin Group(n, g) => C[k] = D[k]
  BY <1>3, <1>5, CancelReads
<1> HIDE DEF C
<1>7. ASSUME "wait" \in Quorum(D, n, g, decision), gate' = D, UNCHANGED <<run, doc, ran>>
      PROVE  KeepsWaiting(n, g, u)
  <2>1. decision = "approved" /\ Waiting(D, n, g)
    BY <1>7 DEF Quorum, Decisions
  <2>2. PICK k \in Group(n, g) : D[k].status = "pending"  BY <2>1 DEF Waiting
  <2>3. PICK v \in Users : k = <<n, g, v>>  BY DEF Group
  <2>4. IsOpen(D[<<n, g, v>>])  BY <2>2, <2>3 DEF IsOpen
  <2>5. QED  BY <1>3, <1>4, <1>7, <2>1, <2>4 DEF KeepsWaiting
<1>8. ASSUME Reject(D, n, f) PROVE RejectsAll(n, f)
  <2>1. gate' = Cancel(D, Rows)  BY <1>8 DEF Reject
  <2>2. Rows \in SUBSET Rows  OBVIOUS
  <2>3. /\ gate' \in Tables
        /\ \A k \in Rows : gate'[k].status = IF IsOpen(D[k]) THEN "cancelled" ELSE D[k].status
    BY <1>3, <2>1, <2>2, CancelReads
  <2>4. \A k \in Rows : ~IsOpen(gate'[k])  BY <2>3 DEF IsOpen
  <2>5. QED  BY <1>8, <2>3, <2>4, RowKeys DEF Reject, RejectsAll
<1>9. ASSUME "approved" \in Quorum(D, n, g, decision)
      PROVE  Closes(C, n, g, u)
  <2>1. decision = "approved" /\ (g \in AllOf => ~Unresolved(D, n, g))
    BY <1>9 DEF Quorum, Decisions
  <2>2. \A m \in Submissions, h \in Nodes, v \in Users :
          (m # n \/ h # g) => C[<<m, h, v>>] = gate[<<m, h, v>>]
    BY <1>4, <1>5, <1>6, RowKeys
  <2>3. \A v \in Users :
          /\ <<n, g, v>> \in Rows /\ <<n, g, v>> \in Group(n, g)
          /\ C[<<n, g, v>>].from = D[<<n, g, v>>].from
          /\ C[<<n, g, v>>].status = IF IsOpen(D[<<n, g, v>>]) THEN "cancelled" ELSE D[<<n, g, v>>].status
    BY <1>5, <1>6, RowKeys
  <2>4. C[<<n, g, u>>].status = "approved"  BY <1>3, <2>1, <2>3 DEF IsOpen
  <2>5. ASSUME NEW v \in Users
        PROVE  /\ ~IsOpen(C[<<n, g, v>>])
               /\ C[<<n, g, v>>].from = gate[<<n, g, v>>].from
               /\ C[<<n, g, v>>].status = "none" <=> gate[<<n, g, v>>].status = "none"
    <3>1. CASE v = u  BY <1>2, <1>3, <2>3, <2>4, <3>1 DEF IsOpen
    <3>2. CASE v # u
      <4>1. D[<<n, g, v>>] = gate[<<n, g, v>>]  BY <1>4, <3>2
      <4>2. QED  BY <2>3, <4>1 DEF IsOpen
    <3>3. QED  BY <3>1, <3>2
  <2>6. ASSUME g \in AllOf, NEW v \in Users, C[<<n, g, v>>].status \notin {"none", "approved"}
        PROVE  \E w \in Users : C[<<n, g, w>>].status = "approved" /\ C[<<n, g, w>>].from = v
    <3>1. D[<<n, g, v>>].status \notin {"none", "approved"}  BY <2>3, <2>6 DEF IsOpen
    <3>2. PICK k \in Group(n, g) : D[k].status = "approved" /\ D[k].from = <<n, g, v>>[3]
      BY <2>1, <2>3, <2>6, <3>1 DEF Unresolved
    <3>3. PICK w \in Users : k = <<n, g, w>>  BY DEF Group
    <3>4. C[<<n, g, w>>].status = "approved" /\ C[<<n, g, w>>].from = v
      BY <2>3, <3>2, <3>3 DEF IsOpen
    <3>5. QED  BY <3>4
  <2>7. QED  BY <1>6, <2>2, <2>4, <2>5, <2>6 DEF Closes
<1>10. QED
  <2>1. CASE \E outcome \in Quorum(D, n, g, decision) : outcome = "wait" /\ gate' = D /\ UNCHANGED <<run, doc, ran>>
    BY <1>2, <1>7, <2>1
  <2>2. CASE Reject(D, n, f)  BY <1>2, <1>8, <2>2
  <2>3. CASE \E outcome \in Quorum(D, n, g, decision) :
               /\ outcome = "approved"
               /\ \/ Parks(C, g) /\ Park(C, n, f, g)
                  \/ ~Parks(C, g) /\ ResumeApproved(C, n, f, g)
    <3>1. Closes(C, n, g, u)  BY <1>9, <2>3
    <3>2. QED  BY <1>2, <1>6, <2>3, <3>1
  <2>4. QED  BY <1>2, <2>1, <2>2, <2>3
-----------------------------------------------------------------------------
(* A waiting gate changes hands, is escalated, or collects one of several   *)
(* approvals: the rows of other gates stay, and the gate stays open.        *)
GroupMove(n, g) ==
  /\ gate' \in Tables
  /\ \A m \in Submissions, h \in Nodes, v \in Users :
       (m # n \/ h # g) => gate'[<<m, h, v>>] = gate[<<m, h, v>>]
  /\ \E v \in Users : IsOpen(gate'[<<n, g, v>>])
  /\ Live(n, FlowOf[g])
  /\ UNCHANGED <<doc, submission, run, ran>>

LEMMA DelegateReads ==
  ASSUME FlowTypeOK, NEW n \in Submissions, NEW g \in Nodes, NEW u \in Users, NEW to \in Users,
         Delegate(n, g, u, to)
  PROVE  /\ GroupMove(n, g) /\ to # u
         /\ gate[<<n, g, u>>].status = "pending" /\ gate[<<n, g, to>>].status = "none"
         /\ gate'[<<n, g, to>>] = gate[<<n, g, u>>] /\ gate'[<<n, g, u>>] = NoRow
         /\ \A v \in Users \ {u, to} : gate'[<<n, g, v>>] = gate[<<n, g, v>>]
<1>1. gate \in Tables /\ gate[<<n, g, u>>] \in Row /\ NoRow \in Row
  BY RowKeys, NoRowFacts DEF FlowTypeOK, Tables
<1>2. to # u /\ gate[<<n, g, u>>].status = "pending" /\ gate[<<n, g, to>>].status = "none"
      /\ gate' = [gate EXCEPT ![<<n, g, to>>] = gate[<<n, g, u>>], ![<<n, g, u>>] = NoRow]
  BY DEF Delegate
<1>3. <<n, g, u>> \in Rows /\ <<n, g, to>> \in Rows /\ <<n, g, u>> # <<n, g, to>>
  BY <1>2, RowKeys
<1>4. /\ gate' \in Tables
      /\ gate'[<<n, g, to>>] = gate[<<n, g, u>>] /\ gate'[<<n, g, u>>] = NoRow
      /\ \A k \in Rows \ {<<n, g, u>>, <<n, g, to>>} : gate'[k] = gate[k]
  BY <1>1, <1>2, <1>3 DEF Tables
<1>5. ASSUME NEW m \in Submissions, NEW h \in Nodes, NEW v \in Users,
             m # n \/ h # g \/ v \notin {u, to}
      PROVE  gate'[<<m, h, v>>] = gate[<<m, h, v>>]
  <2>1. <<m, h, v>> \in Rows \ {<<n, g, u>>, <<n, g, to>>}  BY <1>5, RowKeys
  <2>2. QED  BY <1>4, <2>1
<1>6. IsOpen(gate'[<<n, g, to>>])  BY <1>2, <1>4 DEF IsOpen
<1>7. GroupMove(n, g)  BY <1>4, <1>5, <1>6 DEF GroupMove, Delegate
<1>8. QED  BY <1>2, <1>4, <1>5, <1>7

LEMMA EscalateReads ==
  ASSUME FlowTypeOK, NEW n \in Submissions, NEW g \in Nodes, NEW u \in Users,
         NEW S \in SUBSET EscalateTo[g], Escalate(n, g, u, S)
  PROVE  /\ GroupMove(n, g)
         /\ gate[<<n, g, u>>].status = "pending"
         /\ gate'[<<n, g, u>>].status \in {"pending", "escalated"}
         /\ gate'[<<n, g, u>>].from = gate[<<n, g, u>>].from
         /\ \A v \in Users \ {u} :
              \/ gate'[<<n, g, v>>] = gate[<<n, g, v>>]
              \/ gate[<<n, g, v>>].status = "none" /\ gate'[<<n, g, v>>].from = u
<1>1. gate \in Tables /\ gate[<<n, g, u>>] \in Row /\ gate[<<n, g, u>>].status = "pending"
  BY RowKeys DEF FlowTypeOK, Tables, Escalate
<1>2. PICK new \in Row : new = [status |-> "pending", from |-> u, due |-> FALSE]  BY DEF Row
<1>3. PICK old \in Row :
        /\ old = IF S = {} THEN [gate[<<n, g, u>>] EXCEPT !.due = FALSE]
                           ELSE [gate[<<n, g, u>>] EXCEPT !.status = "escalated"]
        /\ old.status \in {"pending", "escalated"} /\ old.from = gate[<<n, g, u>>].from
  <2>1. PICK row \in Row : row = gate[<<n, g, u>>] /\ row.status = "pending"  BY <1>1
  <2>2. /\ [row EXCEPT !.due = FALSE] \in Row /\ [row EXCEPT !.status = "escalated"] \in Row
        /\ [row EXCEPT !.due = FALSE].status = "pending"
        /\ [row EXCEPT !.status = "escalated"].status = "escalated"
        /\ [row EXCEPT !.due = FALSE].from = row.from
        /\ [row EXCEPT !.status = "escalated"].from = row.from
    BY <2>1 DEF Row
  <2>3. CASE S = {}  BY <2>1, <2>2, <2>3
  <2>4. CASE S # {}  BY <2>1, <2>2, <2>4
  <2>5. QED  BY <2>3, <2>4
<1>4. S \subseteq Users /\ \A v \in S : gate[<<n, g, v>>].status = "none"
  BY FlowAssumption DEF Escalate
<1>5. gate' = [k \in Rows |-> IF k = <<n, g, u>> THEN old
                              ELSE IF k \in {n} \X {g} \X S THEN new ELSE gate[k]]
  BY <1>2, <1>3 DEF Escalate
<1>6. gate' \in Tables  BY <1>1, <1>5 DEF Tables
<1>7. gate'[<<n, g, u>>] = old  BY <1>5, RowKeys
<1>8. ASSUME NEW m \in Submissions, NEW h \in Nodes, NEW v \in Users, m # n \/ h # g
      PROVE  gate'[<<m, h, v>>] = gate[<<m, h, v>>]
  <2>1. <<m, h, v>> \in Rows /\ <<m, h, v>> # <<n, g, u>> /\ <<m, h, v>> \notin {n} \X {g} \X S
    BY <1>8, RowKeys
  <2>2. QED  BY <1>5, <2>1
<1>9. ASSUME NEW v \in Users \ {u}
      PROVE  \/ gate'[<<n, g, v>>] = gate[<<n, g, v>>]
             \/ gate[<<n, g, v>>].status = "none" /\ gate'[<<n, g, v>>].from = u
  <2>1. <<n, g, v>> \in Rows /\ <<n, g, v>> # <<n, g, u>>
        /\ (<<n, g, v>> \in {n} \X {g} \X S <=> v \in S)
    BY RowKeys
  <2>2. gate'[<<n, g, v>>] = IF v \in S THEN new ELSE gate[<<n, g, v>>]  BY <1>5, <2>1
  <2>3. QED  BY <1>2, <1>4, <2>2
<1>10. GroupMove(n, g)  BY <1>3, <1>6, <1>7, <1>8 DEF GroupMove, Escalate, IsOpen
<1>11. QED  BY <1>1, <1>3, <1>7, <1>9, <1>10

LEMMA WaitingIsMove ==
  ASSUME NEW n \in Submissions, NEW g \in Nodes, NEW u \in Users, KeepsWaiting(n, g, u),
         Live(n, FlowOf[g]), submission' = submission
  PROVE  GroupMove(n, g)
BY DEF KeepsWaiting, GroupMove

-----------------------------------------------------------------------------
(* Writing runs *)
LEMMA CancelRunsReads ==
  ASSUME FlowTypeOK, NEW R
  PROVE  /\ CancelRuns(R) \in [Submissions \X Flows -> Run]
         /\ \A r \in Submissions \X Flows :
              CancelRuns(R)[r].status =
                IF r \in R /\ run[r].status = "waiting" THEN "cancelled" ELSE run[r].status
<1>1. run \in [Submissions \X Flows -> Run]  BY DEF FlowTypeOK
<1>2. ASSUME NEW r \in Submissions \X Flows
      PROVE  /\ run[r] \in Run /\ [run[r] EXCEPT !.status = "cancelled"] \in Run
             /\ [run[r] EXCEPT !.status = "cancelled"].status = "cancelled"
  <2>1. run[r] \in Run  BY <1>1
  <2>2. QED  BY <2>1 DEF Run
<1>3. QED  BY <1>1, <1>2 DEF CancelRuns

LEMMA OneRunWritten ==
  ASSUME FlowTypeOK, NEW r \in Submissions \X Flows,
         NEW status \in {"waiting", "completed"}
  PROVE  /\ [run[r] EXCEPT !.status = status] \in Run
         /\ [run[r] EXCEPT !.status = status].status = status
         /\ [run[r] EXCEPT !.status = status].parked = run[r].parked
<1>1. run[r] \in Run  BY DEF FlowTypeOK
<1>2. QED  BY <1>1 DEF Run

LEMMA NothingOpenIn ==
  ASSUME NEW rows, NEW n \in Submissions, NEW f \in Flows
  PROVE  OpenIn(rows, n, f) = {} <=>
           \A g \in Nodes, u \in Users : FlowOf[g] = f => ~IsOpen(rows[<<n, g, u>>])
<1>1. ASSUME OpenIn(rows, n, f) = {}, NEW g \in Nodes, NEW u \in Users, FlowOf[g] = f
      PROVE  ~IsOpen(rows[<<n, g, u>>])
  <2>1. <<n, g, u>> \in Rows  BY RowKeys
  <2>2. QED  BY <1>1, <2>1 DEF OpenIn, Open
<1>2. ASSUME \A g \in Nodes, u \in Users : FlowOf[g] = f => ~IsOpen(rows[<<n, g, u>>])
      PROVE  OpenIn(rows, n, f) = {}
  <2> SUFFICES ASSUME NEW k \in Rows, IsOpen(rows[k]), k[1] = n, FlowOf[k[2]] = f PROVE FALSE
    BY DEF OpenIn, Open
  <2>1. PICK m \in Submissions, g \in Nodes, u \in Users : k = <<m, g, u>>  BY RowKeys
  <2>2. QED  BY <1>2, <2>1
<1>3. QED  BY <1>1, <1>2

-----------------------------------------------------------------------------
(* The transactions, row by row and run by run *)
RunKeys == Submissions \X Flows

LEMMA RunKeyFacts ==
  /\ \A n \in Submissions, f \in Flows : <<n, f>> \in RunKeys
  /\ \A r \in RunKeys : r = <<r[1], r[2]>> /\ r[1] \in Submissions /\ r[2] \in Flows
BY DEF RunKeys

LEMMA SubmitReads ==
  ASSUME FlowTypeOK, NEW M \in SUBSET Flows, Submit(M), Open(gate) = {},
         \A r \in RunKeys : run[r].status # "waiting"
  PROVE  /\ doc = "draft" /\ submission' = submission + 1 /\ submission' \in Submissions
         /\ doc' = IF M = {} THEN "approved" ELSE "pending"
         /\ ran' = {}
         /\ run' \in [RunKeys -> Run] /\ gate' \in Tables
         /\ \A n \in Submissions, f \in Flows :
              run'[<<n, f>>] = IF n = submission' /\ f \in M THEN [NoRun EXCEPT !.status = "waiting"]
                                                            ELSE NoRun
         /\ \A n \in Submissions, g \in Nodes, u \in Users :
              gate'[<<n, g, u>>] =
                IF n = submission' /\ (\E f \in M : g \in Roots[f]) /\ u \in Assignees[g]
                  THEN NewRow(g) ELSE NoRow
<1> DEFINE G == UNION {Roots[f] : f \in M}
           kept == [k \in Rows |-> IF IsOpen(gate[k]) THEN gate[k] ELSE NoRow]
<1>1. PICK n : n = submission + 1  OBVIOUS
<1>2. /\ doc = "draft" /\ n \in Submissions /\ submission' = n
      /\ doc' = (IF M = {} THEN "approved" ELSE "pending") /\ ran' = {}
      /\ gate' = CreateGates(kept, n, G)
      /\ run' = [r \in DOMAIN run |-> IF r[1] = n /\ r[2] \in M THEN [NoRun EXCEPT !.status = "waiting"]
                                  ELSE IF run[r].status = "waiting" THEN run[r] ELSE NoRun]
  BY <1>1 DEF Submit
<1>3. /\ kept \in Tables /\ \A k \in Rows : kept[k] = NoRow
  <2>1. \A k \in Rows : ~IsOpen(gate[k])  BY DEF Open
  <2>2. QED  BY <2>1, NoRowFacts DEF Tables
<1>4. G \in SUBSET Nodes /\ \A g \in Nodes : g \in G <=> \E f \in M : g \in Roots[f]
  BY FlowAssumption
<1> HIDE DEF G, kept
<1>5. /\ gate' \in Tables
      /\ \A m \in Submissions, g \in Nodes, u \in Users :
              gate'[<<m, g, u>>] =
                IF m = n /\ g \in G /\ Unopened(kept, n, g) /\ u \in Assignees[g]
                  THEN NewRow(g) ELSE kept[<<m, g, u>>]
  BY <1>2, <1>3, <1>4, CreateReads
<1>6. /\ \A g \in Nodes : Unopened(kept, n, g)
      /\ \A m \in Submissions, g \in Nodes, u \in Users : kept[<<m, g, u>>] = NoRow
  BY <1>2, <1>3, RowKeys, NoRowFacts DEF Unopened
<1>7. \A m \in Submissions, g \in Nodes, u \in Users :
         gate'[<<m, g, u>>] =
           IF m = n /\ (\E f \in M : g \in Roots[f]) /\ u \in Assignees[g] THEN NewRow(g) ELSE NoRow
  <2> SUFFICES ASSUME NEW m \in Submissions, NEW g \in Nodes, NEW u \in Users
               PROVE  gate'[<<m, g, u>>] =
                        IF m = n /\ (\E f \in M : g \in Roots[f]) /\ u \in Assignees[g]
                          THEN NewRow(g) ELSE NoRow
    OBVIOUS
  <2>1. g \in G <=> \E f \in M : g \in Roots[f]  BY <1>4
  <2>2. gate'[<<m, g, u>>] = IF m = n /\ g \in G /\ u \in Assignees[g] THEN NewRow(g) ELSE NoRow
    BY <1>5, <1>6
  <2>3. CASE \E f \in M : g \in Roots[f]  BY <2>1, <2>2, <2>3
  <2>4. CASE ~\E f \in M : g \in Roots[f]  BY <2>1, <2>2, <2>4
  <2>5. QED  BY <2>3, <2>4
<1>8. run' = [r \in RunKeys |-> IF r[1] = n /\ r[2] \in M THEN [NoRun EXCEPT !.status = "waiting"] ELSE NoRun]
  <2>1. DOMAIN run = RunKeys  BY DEF FlowTypeOK, RunKeys
  <2>2. QED  BY <1>2, <2>1
<1>9. /\ run' \in [RunKeys -> Run]
      /\ \A m \in Submissions, f \in Flows :
              run'[<<m, f>>] = IF m = n /\ f \in M THEN [NoRun EXCEPT !.status = "waiting"] ELSE NoRun
  BY <1>8, NoRunFacts, RunKeyFacts
<1>10. QED  BY <1>1, <1>2, <1>5, <1>7, <1>9

LEMMA BackToDraftReads ==
  ASSUME FlowTypeOK, NEW from, BackToDraft(from)
  PROVE  /\ doc' = "draft" /\ UNCHANGED <<submission, ran>>
         /\ run' \in [RunKeys -> Run] /\ gate' \in Tables
         /\ \A r \in RunKeys : run'[r].status # "waiting"
         /\ \A n \in Submissions, g \in Nodes, u \in Users :
              IsOpen(gate'[<<n, g, u>>]) =>
                IsOpen(gate[<<n, g, u>>]) /\ run[<<n, FlowOf[g]>>].status # "waiting"
<1> DEFINE R == {r \in DOMAIN run : run[r].status = "waiting"}
           K == {k \in Rows : <<k[1], FlowOf[k[2]]>> \in R}
<1>1. /\ doc' = "draft" /\ UNCHANGED <<submission, ran>>
      /\ run' = CancelRuns(R) /\ gate' = Cancel(gate, K)
  BY DEF BackToDraft
<1>2. DOMAIN run = RunKeys /\ gate \in Tables  BY DEF FlowTypeOK, RunKeys, Tables
<1>3. \A r \in RunKeys : r \in R <=> run[r].status = "waiting"  BY <1>2
<1>4. /\ K \in SUBSET Rows
      /\ \A n \in Submissions, g \in Nodes, u \in Users :
           <<n, g, u>> \in K <=> run[<<n, FlowOf[g]>>].status = "waiting"
  BY <1>3, RowKeys, RunKeyFacts, FlowAssumption
<1> HIDE DEF R, K
<1>5. /\ run' \in [RunKeys -> Run]
      /\ \A r \in RunKeys :
              run'[r].status = IF r \in R /\ run[r].status = "waiting" THEN "cancelled" ELSE run[r].status
  BY <1>1, CancelRunsReads DEF RunKeys
<1>6. /\ gate' \in Tables
      /\ \A k \in Rows :
           gate'[k].status = IF k \in K /\ IsOpen(gate[k]) THEN "cancelled" ELSE gate[k].status
  BY <1>1, <1>2, <1>4, CancelReads
<1>7. ASSUME NEW n \in Submissions, NEW g \in Nodes, NEW u \in Users, IsOpen(gate'[<<n, g, u>>])
      PROVE  IsOpen(gate[<<n, g, u>>]) /\ run[<<n, FlowOf[g]>>].status # "waiting"
  <2>1. <<n, g, u>> \in Rows  BY RowKeys
  <2>2. QED  BY <1>4, <1>6, <1>7, <2>1 DEF IsOpen
<1>8. QED  BY <1>1, <1>3, <1>5, <1>6, <1>7

LEMMA RejectReads ==
  ASSUME FlowTypeOK, NEW n \in Submissions, NEW f \in Flows, RejectsAll(n, f)
  PROVE  /\ run' \in [RunKeys -> Run] /\ gate' \in Tables
         /\ Open(gate') = {}
         /\ \A r \in RunKeys : run'[r].status # "waiting"
<1>1. gate' \in Tables /\ Open(gate') = {}  BY NothingOpen DEF RejectsAll
<1>2. PICK other \in [RunKeys -> Run] :
        /\ other = CancelRuns(DOMAIN run \ {<<n, f>>})
        /\ \A r \in RunKeys : r # <<n, f>> => other[r].status # "waiting"
  <2>1. DOMAIN run = RunKeys  BY DEF FlowTypeOK, RunKeys
  <2>2. /\ CancelRuns(RunKeys \ {<<n, f>>}) \in [RunKeys -> Run]
        /\ \A r \in RunKeys :
              CancelRuns(RunKeys \ {<<n, f>>})[r].status =
                IF r \in RunKeys \ {<<n, f>>} /\ run[r].status = "waiting" THEN "cancelled" ELSE run[r].status
    BY CancelRunsReads DEF RunKeys
  <2>3. \A r \in RunKeys : r # <<n, f>> => CancelRuns(RunKeys \ {<<n, f>>})[r].status # "waiting"
    BY <2>2
  <2>4. QED  BY <2>1, <2>2, <2>3
<1>3. <<n, f>> \in RunKeys  BY RunKeyFacts
<1>4. PICK new \in Run : new = [other[<<n, f>>] EXCEPT !.status = "completed"] /\ new.status = "completed"
  <2>1. PICK old \in Run : old = other[<<n, f>>]  BY <1>2, <1>3
  <2>2. [old EXCEPT !.status = "completed"] \in Run /\ [old EXCEPT !.status = "completed"].status = "completed"
    BY DEF Run
  <2>3. QED  BY <2>1, <2>2
<1>5. run' = [other EXCEPT ![<<n, f>>] = new]  BY <1>2, <1>4 DEF RejectsAll
<1>6. QED  BY <1>1, <1>2, <1>3, <1>4, <1>5

LEMMA ParkReads ==
  ASSUME FlowTypeOK, NEW n \in Submissions, NEW g \in Nodes, NEW f \in Flows, NEW rows, Park(rows, n, f, g)
  PROVE  /\ gate' = rows /\ UNCHANGED <<doc, ran>>
         /\ run' \in [RunKeys -> Run]
         /\ run'[<<n, f>>].parked = g
         /\ \A r \in RunKeys : /\ run'[r].status = run[r].status
                               /\ r # <<n, f>> => run'[r] = run[r]
<1>1. run \in [RunKeys -> Run] /\ <<n, f>> \in RunKeys  BY RunKeyFacts DEF FlowTypeOK, RunKeys
<1>2. PICK new \in Run : new = [run[<<n, f>>] EXCEPT !.parked = g] /\ new.parked = g
                         /\ new.status = run[<<n, f>>].status
  <2>1. PICK old \in Run : old = run[<<n, f>>]  BY <1>1
  <2>2. /\ [old EXCEPT !.parked = g] \in Run /\ [old EXCEPT !.parked = g].parked = g
        /\ [old EXCEPT !.parked = g].status = old.status
    BY DEF Run
  <2>3. QED  BY <2>1, <2>2
<1>3. run' = [run EXCEPT ![<<n, f>>] = new]  BY <1>2 DEF Park
<1>4. QED  BY <1>1, <1>2, <1>3 DEF Park

LEMMA ResumeReads ==
  ASSUME FlowTypeOK, NEW n \in Submissions, NEW g \in Nodes, NEW rows \in Tables,
         ResumeApproved(rows, n, FlowOf[g], g)
  PROVE  /\ run' \in [RunKeys -> Run] /\ gate' \in Tables
         /\ \A m \in Submissions, h \in Nodes, u \in Users :
              gate'[<<m, h, u>>] =
                IF m = n /\ h \in Then[g] /\ Unopened(rows, n, h) /\ u \in Assignees[h]
                  THEN NewRow(h) ELSE rows[<<m, h, u>>]
         /\ run'[<<n, FlowOf[g]>>].status = RunStatus(gate', n, FlowOf[g])
         /\ run'[<<n, FlowOf[g]>>].parked = run[<<n, FlowOf[g]>>].parked
         /\ \A r \in RunKeys : r # <<n, FlowOf[g]>> =>
              IF Open(gate') = {} /\ run[r].status = "waiting" /\ run[r].parked # NoNode
                THEN run'[r].status = "completed" ELSE run'[r] = run[r]
         /\ doc' = IF Open(gate') = {} /\ doc = "pending" THEN "approved" ELSE doc
         /\ ran' \subseteq Submissions \X Nodes
         /\ Open(gate') # {} => ran' = ran \cup Effects(n, g)
<1> DEFINE f == FlowOf[g]
           follow == IF Open(gate') = {} THEN Continuations(n, f) ELSE {}
<1>1. /\ gate' = CreateGates(rows, n, Then[g])
      /\ run' = [r \in DOMAIN run |->
           IF r = <<n, f>> THEN [run[r] EXCEPT !.status = RunStatus(gate', n, f)]
           ELSE IF r \in follow THEN [status |-> "completed", parked |-> NoNode]
           ELSE run[r]]
      /\ ran' = ran \cup Effects(n, g) \cup {<<r[1], run[r].parked>> : r \in follow}
      /\ doc' = IF Open(gate') = {} /\ doc = "pending" THEN "approved" ELSE doc
  BY DEF ResumeApproved
<1>2. f \in Flows /\ <<n, f>> \in RunKeys /\ Then[g] \in SUBSET Nodes /\ run \in [RunKeys -> Run]
  BY RunKeyFacts, FlowAssumption DEF FlowTypeOK, RunKeys
<1>3. \A r \in RunKeys : r # <<n, f>> =>
        (r \in follow <=> Open(gate') = {} /\ run[r].status = "waiting" /\ run[r].parked # NoNode)
  BY <1>2 DEF Continuations
<1>4. follow \subseteq RunKeys /\ \A r \in follow : run[r].parked # NoNode  BY <1>2 DEF Continuations
<1>5. PICK new \in Run : new = [run[<<n, f>>] EXCEPT !.status = RunStatus(gate', n, f)]
         /\ new.status = RunStatus(gate', n, f) /\ new.parked = run[<<n, f>>].parked
  <2>1. RunStatus(gate', n, f) \in {"waiting", "completed"}  BY DEF RunStatus
  <2>2. QED  BY <1>2, <2>1, OneRunWritten DEF RunKeys
<1>6. PICK done \in Run : done = [status |-> "completed", parked |-> NoNode] /\ done.status = "completed"
  <2>1. [status |-> "completed", parked |-> NoNode] \in Run  BY DEF Run
  <2>2. QED  BY <2>1
<1>7. run' = [r \in RunKeys |-> IF r = <<n, f>> THEN new ELSE IF r \in follow THEN done ELSE run[r]]
  BY <1>1, <1>2, <1>5, <1>6
<1>8. ran' \subseteq Submissions \X Nodes
  <2>1. Effects(n, g) \subseteq Submissions \X Nodes  BY DEF Effects
  <2>2. \A r \in follow : <<r[1], run[r].parked>> \in Submissions \X Nodes
    <3> SUFFICES ASSUME NEW r \in follow PROVE <<r[1], run[r].parked>> \in Submissions \X Nodes
      OBVIOUS
    <3>1. r \in RunKeys /\ run[r] \in Run /\ run[r].parked # NoNode  BY <1>2, <1>4
    <3>2. QED  BY <3>1, RunKeyFacts DEF Run
  <2>3. QED  BY <1>1, <2>1, <2>2 DEF FlowTypeOK
<1>9. Open(gate') # {} => ran' = ran \cup Effects(n, g)  BY <1>1
<1> HIDE DEF follow
<1>10. /\ gate' \in Tables
       /\ \A m \in Submissions, h \in Nodes, u \in Users :
              gate'[<<m, h, u>>] =
                IF m = n /\ h \in Then[g] /\ Unopened(rows, n, h) /\ u \in Assignees[h]
                  THEN NewRow(h) ELSE rows[<<m, h, u>>]
  BY <1>1, <1>2, CreateReads
<1>11. run' \in [RunKeys -> Run] /\ run'[<<n, f>>] = new
  BY <1>2, <1>7
<1>12. \A r \in RunKeys : r # <<n, f>> =>
              IF Open(gate') = {} /\ run[r].status = "waiting" /\ run[r].parked # NoNode
                THEN run'[r].status = "completed" ELSE run'[r] = run[r]
  BY <1>3, <1>6, <1>7
<1>13. QED  BY <1>1, <1>5, <1>8, <1>9, <1>10, <1>11, <1>12

-----------------------------------------------------------------------------
(* Nothing dangles *)

(* An open row belongs to a waiting run. *)
OpenHasRun ==
  \A n \in Submissions, g \in Nodes, u \in Users :
    IsOpen(gate[<<n, g, u>>]) => run[<<n, FlowOf[g]>>].status = "waiting"

(* A waiting run that parked no branch has an open row. *)
WaitsForSomeone ==
  \A n \in Submissions, f \in Flows :
    (run[<<n, f>>].status = "waiting" /\ run[<<n, f>>].parked = NoNode) =>
      \E g \in Nodes, u \in Users : FlowOf[g] = f /\ IsOpen(gate[<<n, g, u>>])

DanglingInv == FlowTypeOK /\ OpenHasRun /\ WaitsForSomeone /\ NothingDangling

LEMMA LiveIsPending ==
  ASSUME DanglingInv, NEW n \in Submissions, NEW f \in Flows, Live(n, f)
  PROVE  doc = "pending" /\ n = submission
BY RunKeyFacts DEF DanglingInv, NothingDangling, FlowTypeOK, RunKeys, Live

LEMMA QuietAfter ==
  ASSUME DanglingInv, run' \in [RunKeys -> Run], gate' \in Tables, Open(gate') = {},
         \A r \in RunKeys : run'[r].status # "waiting",
         doc' \in {"draft", "pending", "approved"}, submission' \in 0..MaxSubmissions,
         ran' \subseteq Submissions \X Nodes
  PROVE  DanglingInv'
<1>1. FlowTypeOK'  BY DEF FlowTypeOK, RunKeys, Tables
<1>2. OpenHasRun'  BY NothingOpen DEF OpenHasRun
<1>3. WaitsForSomeone'  BY RunKeyFacts DEF WaitsForSomeone
<1>4. DOMAIN run' = RunKeys  OBVIOUS
<1>5. NothingDangling'  BY <1>4 DEF NothingDangling
<1>6. QED  BY <1>1, <1>2, <1>3, <1>5 DEF DanglingInv

LEMMA SubmitKeepsDangling ==
  ASSUME DanglingInv, NEW M \in SUBSET Flows, Submit(M)
  PROVE  DanglingInv'
<1>1. FlowTypeOK /\ Open(gate) = {} /\ (\A r \in RunKeys : run[r].status # "waiting")
  BY DEF DanglingInv, NothingDangling, Submit, FlowTypeOK, RunKeys
<1>2. /\ submission' \in Submissions /\ doc' = (IF M = {} THEN "approved" ELSE "pending") /\ ran' = {}
      /\ run' \in [RunKeys -> Run] /\ gate' \in Tables
      /\ \A n \in Submissions, f \in Flows :
              run'[<<n, f>>] = IF n = submission' /\ f \in M THEN [NoRun EXCEPT !.status = "waiting"]
                                                            ELSE NoRun
      /\ \A n \in Submissions, g \in Nodes, u \in Users :
              gate'[<<n, g, u>>] =
                IF n = submission' /\ (\E f \in M : g \in Roots[f]) /\ u \in Assignees[g]
                  THEN NewRow(g) ELSE NoRow
  BY <1>1, SubmitReads
<1>3. FlowTypeOK'
  <2>1. submission' \in 0..MaxSubmissions  BY <1>2 DEF Submissions
  <2>2. QED  BY <1>2, <2>1 DEF FlowTypeOK, RunKeys, Tables
<1>4. OpenHasRun'
  <2> SUFFICES ASSUME NEW n \in Submissions, NEW g \in Nodes, NEW u \in Users, IsOpen(gate'[<<n, g, u>>])
               PROVE  run'[<<n, FlowOf[g]>>].status = "waiting"
    BY DEF OpenHasRun
  <2>1. n = submission' /\ \E f \in M : g \in Roots[f]  BY <1>2, NoRowFacts
  <2>2. PICK f \in M : g \in Roots[f]  BY <2>1
  <2>3. f \in Flows /\ FlowOf[g] = f  BY <2>2, GraphAssumption
  <2>4. QED  BY <1>2, <2>1, <2>3, NoRunFacts
<1>5. WaitsForSomeone'
  <2> SUFFICES ASSUME NEW n \in Submissions, NEW f \in Flows, run'[<<n, f>>].status = "waiting"
               PROVE  \E g \in Nodes, u \in Users : FlowOf[g] = f /\ IsOpen(gate'[<<n, g, u>>])
    BY DEF WaitsForSomeone
  <2>1. n = submission' /\ f \in M  BY <1>2, NoRunFacts
  <2>2. PICK g \in Nodes : g \in Roots[f]  BY SomeoneAsked
  <2>3. PICK u \in Users : u \in Assignees[g]  BY SomeoneAsked
  <2>4. gate'[<<n, g, u>>] = NewRow(g)  BY <1>2, <2>1, <2>2, <2>3
  <2>5. IsOpen(gate'[<<n, g, u>>])  BY <2>4, NewRowFacts
  <2>6. QED  BY <2>2, <2>5, GraphAssumption
<1>6. NothingDangling'
  <2> SUFFICES ASSUME M = {} PROVE Open(gate') = {} /\ \A r \in DOMAIN run' : run'[r].status # "waiting"
    BY <1>2 DEF NothingDangling
  <2>1. Open(gate') = {}  BY <1>2, NoRowFacts, NothingOpen
  <2>2. \A r \in RunKeys : run'[r].status # "waiting"  BY <1>2, NoRunFacts, RunKeyFacts
  <2>3. QED  BY <1>2, <2>1, <2>2
<1>7. QED  BY <1>3, <1>4, <1>5, <1>6 DEF DanglingInv

LEMMA BackToDraftKeepsDangling ==
  ASSUME DanglingInv, NEW from, BackToDraft(from)
  PROVE  DanglingInv'
<1>1. /\ doc' = "draft" /\ UNCHANGED <<submission, ran>>
      /\ run' \in [RunKeys -> Run] /\ gate' \in Tables
      /\ \A r \in RunKeys : run'[r].status # "waiting"
      /\ \A n \in Submissions, g \in Nodes, u \in Users :
              IsOpen(gate'[<<n, g, u>>]) =>
                IsOpen(gate[<<n, g, u>>]) /\ run[<<n, FlowOf[g]>>].status # "waiting"
  BY BackToDraftReads DEF DanglingInv
<1>2. Open(gate') = {}
  <2>1. \A n \in Submissions, g \in Nodes, u \in Users : ~IsOpen(gate'[<<n, g, u>>])
    BY <1>1 DEF DanglingInv, OpenHasRun
  <2>2. QED  BY <2>1, NothingOpen
<1>3. QED  BY <1>1, <1>2, QuietAfter DEF DanglingInv, FlowTypeOK

LEMMA GroupMoveKeepsDangling ==
  ASSUME DanglingInv, NEW n \in Submissions, NEW g \in Nodes, GroupMove(n, g)
  PROVE  DanglingInv'
<1>1. /\ gate' \in Tables
      /\ \A m \in Submissions, h \in Nodes, v \in Users :
           (m # n \/ h # g) => gate'[<<m, h, v>>] = gate[<<m, h, v>>]
      /\ \E v \in Users : IsOpen(gate'[<<n, g, v>>])
      /\ run[<<n, FlowOf[g]>>].status = "waiting"
      /\ UNCHANGED <<doc, submission, run, ran>>
  BY DEF GroupMove, Live
<1>2. FlowTypeOK'  BY <1>1 DEF DanglingInv, FlowTypeOK, Tables
<1>3. OpenHasRun'
  <2> SUFFICES ASSUME NEW m \in Submissions, NEW h \in Nodes, NEW u \in Users, IsOpen(gate'[<<m, h, u>>])
               PROVE  run[<<m, FlowOf[h]>>].status = "waiting"
    BY <1>1 DEF OpenHasRun
  <2>1. CASE m = n /\ h = g  BY <1>1, <2>1
  <2>2. CASE m # n \/ h # g  BY <1>1, <2>2 DEF DanglingInv, OpenHasRun
  <2>3. QED  BY <2>1, <2>2
<1>4. WaitsForSomeone'
  <2> SUFFICES ASSUME NEW m \in Submissions, NEW f \in Flows, run[<<m, f>>].status = "waiting",
                      run[<<m, f>>].parked = NoNode
               PROVE  \E h \in Nodes, u \in Users : FlowOf[h] = f /\ IsOpen(gate'[<<m, h, u>>])
    BY <1>1 DEF WaitsForSomeone
  <2>1. PICK h \in Nodes, u \in Users : FlowOf[h] = f /\ IsOpen(gate[<<m, h, u>>])
    BY DEF DanglingInv, WaitsForSomeone
  <2>2. CASE m = n /\ h = g  BY <1>1, <2>1, <2>2
  <2>3. CASE m # n \/ h # g
    <3>1. gate'[<<m, h, u>>] = gate[<<m, h, u>>]  BY <1>1, <2>3
    <3>2. QED  BY <2>1, <3>1
  <2>4. QED  BY <2>2, <2>3
<1>5. doc = "pending"
  <2>1. FlowOf[g] \in Flows  BY FlowAssumption
  <2>2. QED  BY <2>1, LiveIsPending DEF GroupMove
<1>6. NothingDangling'  BY <1>1, <1>5 DEF NothingDangling
<1>7. QED  BY <1>2, <1>3, <1>4, <1>6 DEF DanglingInv

LEMMA ParkKeepsDangling ==
  ASSUME DanglingInv, NEW n \in Submissions, NEW g \in Nodes, NEW u \in Users, NEW rows \in Tables,
         Closes(rows, n, g, u), Live(n, FlowOf[g]), Park(rows, n, FlowOf[g], g), submission' = submission
  PROVE  DanglingInv'
<1> DEFINE f == FlowOf[g]
<1>1. f \in Flows /\ doc = "pending"  BY LiveIsPending, FlowAssumption
<1>2. /\ gate' = rows /\ UNCHANGED <<doc, ran>> /\ run' \in [RunKeys -> Run]
      /\ run'[<<n, f>>].parked = g
      /\ \A r \in RunKeys : /\ run'[r].status = run[r].status
                            /\ r # <<n, f>> => run'[r] = run[r]
  BY <1>1, ParkReads DEF DanglingInv
<1>3. \A m \in Submissions, h \in Nodes, v \in Users :
        /\ (m # n \/ h # g) => gate'[<<m, h, v>>] = gate[<<m, h, v>>]
        /\ ~IsOpen(gate'[<<n, g, v>>])
  <2>1. \A m \in Submissions, h \in Nodes, v \in Users :
          (m # n \/ h # g) => rows[<<m, h, v>>] = gate[<<m, h, v>>]
    BY DEF Closes
  <2>2. \A v \in Users : ~IsOpen(rows[<<n, g, v>>])  BY DEF Closes
  <2>3. QED  BY <1>2, <2>1, <2>2
<1>4. FlowTypeOK'  BY <1>2 DEF DanglingInv, FlowTypeOK, Tables, RunKeys
<1>5. OpenHasRun'
  <2> SUFFICES ASSUME NEW m \in Submissions, NEW h \in Nodes, NEW v \in Users, IsOpen(gate'[<<m, h, v>>])
               PROVE  run'[<<m, FlowOf[h]>>].status = "waiting"
    BY DEF OpenHasRun
  <2>1. IsOpen(gate[<<m, h, v>>])  BY <1>3
  <2>2. <<m, FlowOf[h]>> \in RunKeys  BY FlowAssumption, RunKeyFacts
  <2>3. QED  BY <1>2, <2>1, <2>2 DEF DanglingInv, OpenHasRun
<1>6. WaitsForSomeone'
  <2> SUFFICES ASSUME NEW m \in Submissions, NEW e \in Flows, run'[<<m, e>>].status = "waiting",
                      run'[<<m, e>>].parked = NoNode
               PROVE  \E h \in Nodes, v \in Users : FlowOf[h] = e /\ IsOpen(gate'[<<m, h, v>>])
    BY DEF WaitsForSomeone
  <2>1. <<m, e>> \in RunKeys /\ <<m, e>> # <<n, f>>  BY <1>2, RunKeyFacts, FlowAssumption
  <2>2. PICK h \in Nodes, v \in Users : FlowOf[h] = e /\ IsOpen(gate[<<m, h, v>>])
    BY <1>2, <2>1 DEF DanglingInv, WaitsForSomeone
  <2>3. m # n \/ h # g  BY <2>1, <2>2
  <2>4. gate'[<<m, h, v>>] = gate[<<m, h, v>>]  BY <1>3, <2>3
  <2>5. QED  BY <2>2, <2>4
<1>7. NothingDangling'  BY <1>1, <1>2 DEF NothingDangling
<1>8. QED  BY <1>4, <1>5, <1>6, <1>7 DEF DanglingInv

LEMMA ResumeKeepsDangling ==
  ASSUME DanglingInv, NEW n \in Submissions, NEW g \in Nodes, NEW u \in Users, NEW rows \in Tables,
         Closes(rows, n, g, u), Live(n, FlowOf[g]), ResumeApproved(rows, n, FlowOf[g], g),
         submission' = submission
  PROVE  DanglingInv'
<1> DEFINE f == FlowOf[g]
<1>1. f \in Flows /\ doc = "pending" /\ <<n, f>> \in RunKeys  BY LiveIsPending, FlowAssumption, RunKeyFacts
<1>2. /\ run' \in [RunKeys -> Run] /\ gate' \in Tables
      /\ \A m \in Submissions, h \in Nodes, v \in Users :
           gate'[<<m, h, v>>] =
             IF m = n /\ h \in Then[g] /\ Unopened(rows, n, h) /\ v \in Assignees[h]
               THEN NewRow(h) ELSE rows[<<m, h, v>>]
      /\ run'[<<n, f>>].status = RunStatus(gate', n, f)
      /\ \A r \in RunKeys : r # <<n, f>> =>
           IF Open(gate') = {} /\ run[r].status = "waiting" /\ run[r].parked # NoNode
             THEN run'[r].status = "completed" ELSE run'[r] = run[r]
      /\ doc' = IF Open(gate') = {} /\ doc = "pending" THEN "approved" ELSE doc
      /\ ran' \subseteq Submissions \X Nodes
  BY ResumeReads DEF DanglingInv
<1>3. FlowTypeOK'  BY <1>2 DEF DanglingInv, FlowTypeOK, Tables, RunKeys
<1>4. \A m \in Submissions, h \in Nodes, v \in Users :
        (m # n \/ FlowOf[h] # f) => gate'[<<m, h, v>>] = gate[<<m, h, v>>]
  <2> SUFFICES ASSUME NEW m \in Submissions, NEW h \in Nodes, NEW v \in Users, m # n \/ FlowOf[h] # f
               PROVE  gate'[<<m, h, v>>] = gate[<<m, h, v>>]
    OBVIOUS
  <2>1. ~(m = n /\ h \in Then[g])  BY GraphAssumption
  <2>2. gate'[<<m, h, v>>] = rows[<<m, h, v>>]  BY <1>2, <2>1
  <2>3. m # n \/ h # g  OBVIOUS
  <2>4. QED  BY <2>2, <2>3 DEF Closes
<1>5. run'[<<n, f>>].status =
        IF \E h \in Nodes, v \in Users : FlowOf[h] = f /\ IsOpen(gate'[<<n, h, v>>])
          THEN "waiting" ELSE "completed"
  <2>1. OpenIn(gate', n, f) = {} <=>
           \A h \in Nodes, v \in Users : FlowOf[h] = f => ~IsOpen(gate'[<<n, h, v>>])
    BY <1>1, NothingOpenIn
  <2>2. run'[<<n, f>>].status = IF OpenIn(gate', n, f) = {} THEN "completed" ELSE "waiting"
    BY <1>2 DEF RunStatus
  <2>3. CASE OpenIn(gate', n, f) = {}  BY <2>1, <2>2, <2>3
  <2>4. CASE OpenIn(gate', n, f) # {}  BY <2>1, <2>2, <2>4
  <2>5. QED  BY <2>3, <2>4
(* With nothing open any more, every other waiting run had parked its branch. *)
<1>6. ASSUME Open(gate') = {}, NEW r \in RunKeys PROVE run'[r].status # "waiting"
  <2>0. \A m \in Submissions, h \in Nodes, v \in Users : ~IsOpen(gate'[<<m, h, v>>])
    BY <1>6, NothingOpen
  <2>1. CASE r = <<n, f>>  BY <1>5, <2>0, <2>1
  <2>2. CASE r # <<n, f>>
    <3> SUFFICES ASSUME run[r].status = "waiting", run[r].parked = NoNode PROVE FALSE
      BY <1>2, <1>6, <2>2
    <3>1. PICK m \in Submissions, e \in Flows : r = <<m, e>>  BY RunKeyFacts
    <3>2. PICK h \in Nodes, v \in Users : FlowOf[h] = e /\ IsOpen(gate[<<m, h, v>>])
      BY <3>1 DEF DanglingInv, WaitsForSomeone
    <3>3. m # n \/ FlowOf[h] # f  BY <2>2, <3>1, <3>2
    <3>4. gate'[<<m, h, v>>] = gate[<<m, h, v>>]  BY <1>4, <3>3
    <3>5. QED  BY <2>0, <3>2, <3>4
  <2>3. QED  BY <2>1, <2>2
<1>7. CASE Open(gate') = {}
  <2>1. doc' \in {"draft", "pending", "approved"} /\ submission' \in 0..MaxSubmissions
    BY <1>3 DEF FlowTypeOK
  <2>2. QED  BY <1>2, <1>6, <1>7, <2>1, QuietAfter
<1>8. CASE Open(gate') # {}
  <2>1. \A r \in RunKeys : r # <<n, f>> => run'[r] = run[r]  BY <1>2, <1>8
  <2>2. OpenHasRun'
    <3> SUFFICES ASSUME NEW m \in Submissions, NEW h \in Nodes, NEW v \in Users, IsOpen(gate'[<<m, h, v>>])
                 PROVE  run'[<<m, FlowOf[h]>>].status = "waiting"
      BY DEF OpenHasRun
    <3>1. CASE m = n /\ FlowOf[h] = f  BY <1>5, <3>1
    <3>2. CASE m # n \/ FlowOf[h] # f
      <4>1. IsOpen(gate[<<m, h, v>>])  BY <1>4, <3>2
      <4>2. <<m, FlowOf[h]>> \in RunKeys /\ <<m, FlowOf[h]>> # <<n, f>>
        BY <3>2, FlowAssumption, RunKeyFacts
      <4>3. QED  BY <2>1, <4>1, <4>2 DEF DanglingInv, OpenHasRun
    <3>3. QED  BY <3>1, <3>2
  <2>3. WaitsForSomeone'
    <3> SUFFICES ASSUME NEW m \in Submissions, NEW e \in Flows, run'[<<m, e>>].status = "waiting",
                        run'[<<m, e>>].parked = NoNode
                 PROVE  \E h \in Nodes, v \in Users : FlowOf[h] = e /\ IsOpen(gate'[<<m, h, v>>])
      BY DEF WaitsForSomeone
    <3>1. CASE m = n /\ e = f  BY <1>5, <3>1
    <3>2. CASE m # n \/ e # f
      <4>1. <<m, e>> \in RunKeys /\ <<m, e>> # <<n, f>>  BY <3>2, RunKeyFacts
      <4>2. PICK h \in Nodes, v \in Users : FlowOf[h] = e /\ IsOpen(gate[<<m, h, v>>])
        BY <2>1, <4>1 DEF DanglingInv, WaitsForSomeone
      <4>3. gate'[<<m, h, v>>] = gate[<<m, h, v>>]  BY <1>4, <3>2, <4>2
      <4>4. QED  BY <4>2, <4>3
    <3>3. QED  BY <3>1, <3>2
  <2>4. NothingDangling'  BY <1>1, <1>2, <1>8 DEF NothingDangling
  <2>5. QED  BY <1>3, <2>2, <2>3, <2>4 DEF DanglingInv
<1>9. QED  BY <1>7, <1>8

LEMMA DecideKeepsDangling ==
  ASSUME DanglingInv, NEW n \in Submissions, NEW g \in Nodes, NEW u \in Users,
         NEW decision \in Decisions, Decide(n, g, u, decision)
  PROVE  DanglingInv'
<1>1. /\ Live(n, FlowOf[g]) /\ submission' = submission
      /\ \/ KeepsWaiting(n, g, u)
         \/ RejectsAll(n, FlowOf[g])
         \/ \E rows \in Tables :
              /\ Closes(rows, n, g, u)
              /\ \/ Parks(rows, g) /\ Park(rows, n, FlowOf[g], g)
                 \/ ~Parks(rows, g) /\ ResumeApproved(rows, n, FlowOf[g], g)
  BY DecideShape DEF DanglingInv
<1>2. CASE KeepsWaiting(n, g, u)  BY <1>1, <1>2, WaitingIsMove, GroupMoveKeepsDangling
<1>3. CASE RejectsAll(n, FlowOf[g])
  <2>1. FlowOf[g] \in Flows  BY FlowAssumption
  <2>2. /\ run' \in [RunKeys -> Run] /\ gate' \in Tables /\ Open(gate') = {}
        /\ \A r \in RunKeys : run'[r].status # "waiting"
    BY <1>3, <2>1, RejectReads DEF DanglingInv
  <2>3. doc' \in {"draft", "pending", "approved"} /\ submission' \in 0..MaxSubmissions
        /\ ran' \subseteq Submissions \X Nodes
    BY <1>1, <1>3 DEF DanglingInv, FlowTypeOK, RejectsAll
  <2>4. QED  BY <2>2, <2>3, QuietAfter
<1>4. CASE \E rows \in Tables :
              /\ Closes(rows, n, g, u)
              /\ \/ Parks(rows, g) /\ Park(rows, n, FlowOf[g], g)
                 \/ ~Parks(rows, g) /\ ResumeApproved(rows, n, FlowOf[g], g)
  BY <1>1, <1>4, ParkKeepsDangling, ResumeKeepsDangling
<1>5. QED  BY <1>1, <1>2, <1>3, <1>4

LEMMA DanglingStarts == Init => DanglingInv
<1> SUFFICES ASSUME Init PROVE DanglingInv  OBVIOUS
<1>1. /\ doc = "draft" /\ submission = 0 /\ ran = {}
      /\ run = [r \in RunKeys |-> NoRun] /\ gate = [k \in Rows |-> NoRow]
  BY DEF Init, RunKeys
<1>2. FlowTypeOK  BY <1>1, NoRunFacts, NoRowFacts, FlowAssumption DEF FlowTypeOK, RunKeys
<1>3. \A k \in Rows : ~IsOpen(gate[k])  BY <1>1, NoRowFacts
<1>4. Open(gate) = {}  BY <1>3 DEF Open
<1>5. OpenHasRun  BY <1>3, RowKeys DEF OpenHasRun
<1>6. \A r \in RunKeys : run[r].status # "waiting"  BY <1>1, NoRunFacts
<1>7. WaitsForSomeone  BY <1>6, RunKeyFacts DEF WaitsForSomeone
<1>8. NothingDangling  BY <1>1, <1>4, <1>6 DEF NothingDangling
<1>9. QED  BY <1>2, <1>5, <1>7, <1>8 DEF DanglingInv

LEMMA DanglingKept == DanglingInv /\ [Next]_vars => DanglingInv'
<1> SUFFICES ASSUME DanglingInv, [Next]_vars PROVE DanglingInv'  OBVIOUS
<1>0. FlowTypeOK  BY DEF DanglingInv
<1>1. CASE \E M \in SUBSET Flows : Submit(M)  BY <1>1, SubmitKeepsDangling
<1>2. CASE WithdrawSubmission \/ ReturnToDraft
  BY <1>2, BackToDraftKeepsDangling DEF WithdrawSubmission, ReturnToDraft
<1>3. CASE DecideSome  BY <1>3, DecideKeepsDangling DEF DecideSome
<1>4. CASE \E n \in Submissions, g \in Nodes, u \in Users : \E to \in Users : Delegate(n, g, u, to)
  BY <1>0, <1>4, DelegateReads, GroupMoveKeepsDangling
<1>5. CASE \E n \in Submissions, g \in Nodes, u \in Users :
             \E S \in SUBSET EscalateTo[g] : Escalate(n, g, u, S)
  BY <1>0, <1>5, EscalateReads, GroupMoveKeepsDangling
<1>6. CASE UNCHANGED vars
  BY <1>6 DEF vars, DanglingInv, FlowTypeOK, OpenHasRun, WaitsForSomeone, NothingDangling, Open
<1>7. QED  BY <1>1, <1>2, <1>3, <1>4, <1>5, <1>6 DEF Next

(* Every status, row, run and effect of the approval keeps its type. *)
THEOREM TypeCorrect == Spec => []FlowTypeOK
<1>1. DanglingInv => FlowTypeOK  BY DEF DanglingInv
<1>2. QED  BY <1>1, DanglingStarts, DanglingKept, PTL DEF Spec

(* A document that does not wait for approval has no open gate and no       *)
(* waiting run, whatever was decided, withdrawn or returned before: nothing *)
(* left behind can release it again.                                        *)
THEOREM NothingDangles == Spec => []NothingDangling
<1>1. DanglingInv => NothingDangling  BY DEF DanglingInv
<1>2. QED  BY <1>1, DanglingStarts, DanglingKept, PTL DEF Spec

-----------------------------------------------------------------------------
(* Actions that end a branch *)
LEMMA ResumeActsAfterRelease ==
  ASSUME DanglingInv, NEW n \in Submissions, NEW g \in Nodes, NEW rows \in Tables,
         Live(n, FlowOf[g]), ~Parks(rows, g), ResumeApproved(rows, n, FlowOf[g], g)
  PROVE  \A x \in ran' \ ran : Then[x[2]] = {} => doc' = "approved"
<1>1. FlowOf[g] \in Flows /\ doc = "pending"  BY LiveIsPending, FlowAssumption
<1>2. /\ \A m \in Submissions, h \in Nodes, v \in Users :
           gate'[<<m, h, v>>] =
             IF m = n /\ h \in Then[g] /\ Unopened(rows, n, h) /\ v \in Assignees[h]
               THEN NewRow(h) ELSE rows[<<m, h, v>>]
      /\ doc' = IF Open(gate') = {} /\ doc = "pending" THEN "approved" ELSE doc
      /\ Open(gate') # {} => ran' = ran \cup Effects(n, g)
  <2>1. FlowTypeOK  BY DEF DanglingInv
  <2>2. QED  BY <2>1, ResumeReads
<1> SUFFICES ASSUME NEW x \in ran' \ ran, Then[x[2]] = {} PROVE doc' = "approved"  OBVIOUS
<1>3. CASE Open(gate') = {}  BY <1>1, <1>2, <1>3
<1>4. CASE Open(gate') # {}
  <2>1. x \in Effects(n, g)  BY <1>2, <1>4
  <2>2. g \in Acts /\ x = <<n, g>> /\ Then[g] = {}  BY <2>1 DEF Effects
  <2>3. Open(rows) = {}  BY <2>2 DEF Parks
  <2>4. \A m \in Submissions, h \in Nodes, v \in Users : gate'[<<m, h, v>>] = rows[<<m, h, v>>]
    BY <1>2, <2>2
  <2>5. Open(gate') = {}  BY <2>3, <2>4, NothingOpen
  <2>6. QED  BY <1>4, <2>5
<1>5. QED  BY <1>3, <1>4

LEMMA StepActsAfterRelease ==
  ASSUME DanglingInv, [Next]_vars
  PROVE  \A x \in ran' \ ran : Then[x[2]] = {} => doc' = "approved"
<1>0. FlowTypeOK  BY DEF DanglingInv
<1>1. CASE \E M \in SUBSET Flows : Submit(M)  BY <1>1 DEF Submit
<1>2. CASE WithdrawSubmission \/ ReturnToDraft
  BY <1>2 DEF WithdrawSubmission, ReturnToDraft, BackToDraft
<1>3. CASE DecideSome
  <2>1. PICK n \in Submissions, g \in Nodes, u \in Users, decision \in Decisions :
          Decide(n, g, u, decision)
    BY <1>3 DEF DecideSome
  <2>2. /\ Live(n, FlowOf[g])
        /\ \/ KeepsWaiting(n, g, u)
           \/ RejectsAll(n, FlowOf[g])
           \/ \E rows \in Tables :
                \/ Park(rows, n, FlowOf[g], g)
                \/ ~Parks(rows, g) /\ ResumeApproved(rows, n, FlowOf[g], g)
    BY <1>0, <2>1, DecideShape
  <2>3. CASE KeepsWaiting(n, g, u) \/ RejectsAll(n, FlowOf[g])
    BY <2>3 DEF KeepsWaiting, RejectsAll
  <2>4. CASE \E rows \in Tables : Park(rows, n, FlowOf[g], g)
    BY <2>4 DEF Park
  <2>5. CASE \E rows \in Tables : ~Parks(rows, g) /\ ResumeApproved(rows, n, FlowOf[g], g)
    BY <2>2, <2>5, ResumeActsAfterRelease
  <2>6. QED  BY <2>2, <2>3, <2>4, <2>5
<1>4. CASE \E n \in Submissions, g \in Nodes, u \in Users :
             \/ \E to \in Users : Delegate(n, g, u, to)
             \/ \E S \in SUBSET EscalateTo[g] : Escalate(n, g, u, S)
  BY <1>4 DEF Delegate, Escalate
<1>5. CASE UNCHANGED vars  BY <1>5 DEF vars
<1>6. QED  BY <1>1, <1>2, <1>3, <1>4, <1>5 DEF Next

(* The actions that end an approve branch, such as an authored posting, run *)
(* only in a step that leaves the document approved: while any gate of any  *)
(* Flow is open they wait, parked.                                          *)
THEOREM TerminalActionsAfterRelease == Spec => ActionsAfterRelease
<1>1. DanglingInv /\ [Next]_vars =>
        [\A x \in ran' \ ran : Then[x[2]] = {} => doc' = "approved"]_vars
  BY StepActsAfterRelease
<1>2. QED  BY <1>1, DanglingStarts, DanglingKept, PTL DEF Spec, ActionsAfterRelease

-----------------------------------------------------------------------------
(* What a release stands on *)
Created(rows, n, g) == \E u \in Users : rows[<<n, g, u>>].status # "none"

Decided(rows, n, g) == \A u \in Users : ~IsOpen(rows[<<n, g, u>>])

(* Who sits for an assignee of the gate, by delegation or from the start *)
Holders(rows, n, g) ==
  {u \in Users : rows[<<n, g, u>>].status # "none" /\ rows[<<n, g, u>>].from = NoUser}

Agreed(rows, n, g) ==
  IF g \in AllOf
    THEN \A v \in Users :
           \/ rows[<<n, g, v>>].status \in {"none", "approved"}
           \/ \E w \in Users : rows[<<n, g, w>>].status = "approved" /\ rows[<<n, g, w>>].from = v
    ELSE \E v \in Users : rows[<<n, g, v>>].status = "approved"

(* A created gate keeps its seats; once decided it is agreed, and the gates *)
(* behind it are created.                                                   *)
GateFollows(rows, n, g) ==
  Created(rows, n, g) =>
    /\ Cardinality(Holders(rows, n, g)) = Cardinality(Assignees[g])
    /\ Decided(rows, n, g) => /\ Agreed(rows, n, g)
                              /\ \A h \in Then[g] : Created(rows, n, h)

RootsCreated == \A f \in Flows : Matched(submission, f) => \A g \in Roots[f] : Created(gate, submission, g)

BranchesFollow ==
  doc # "draft" => /\ submission \in Submissions
                   /\ RootsCreated
                   /\ \A g \in Nodes : GateFollows(gate, submission, g)

ApprovalInv == DanglingInv /\ BranchesFollow

LEMMA SameGroup ==
  ASSUME NEW rows, NEW rows2, NEW n, NEW g,
         \A u \in Users : rows2[<<n, g, u>>] = rows[<<n, g, u>>]
  PROVE  /\ Created(rows2, n, g) <=> Created(rows, n, g)
         /\ Decided(rows2, n, g) <=> Decided(rows, n, g)
         /\ Holders(rows2, n, g) = Holders(rows, n, g)
         /\ Agreed(rows2, n, g) <=> Agreed(rows, n, g)
<1>1. Created(rows2, n, g) <=> Created(rows, n, g)  BY DEF Created
<1>2. Decided(rows2, n, g) <=> Decided(rows, n, g)  BY DEF Decided
<1>3. Holders(rows2, n, g) = Holders(rows, n, g)  BY DEF Holders
<1>4. Agreed(rows2, n, g) <=> Agreed(rows, n, g)
  <2>1. ASSUME NEW v \in Users
        PROVE  (\E w \in Users : rows2[<<n, g, w>>].status = "approved" /\ rows2[<<n, g, w>>].from = v)
               <=> (\E w \in Users : rows[<<n, g, w>>].status = "approved" /\ rows[<<n, g, w>>].from = v)
    OBVIOUS
  <2>2. CASE g \in AllOf
    <3>1. ASSUME NEW v \in Users
          PROVE  (\/ rows2[<<n, g, v>>].status \in {"none", "approved"}
                  \/ \E w \in Users : rows2[<<n, g, w>>].status = "approved"
                                       /\ rows2[<<n, g, w>>].from = v)
                 <=> (\/ rows[<<n, g, v>>].status \in {"none", "approved"}
                      \/ \E w \in Users : rows[<<n, g, w>>].status = "approved"
                                           /\ rows[<<n, g, w>>].from = v)
      BY <2>1
    <3>2. QED  BY <2>2, <3>1, Zenon DEF Agreed
  <2>3. CASE g \notin AllOf
    <3>1. (\E v \in Users : rows2[<<n, g, v>>].status = "approved")
          <=> (\E v \in Users : rows[<<n, g, v>>].status = "approved")
      OBVIOUS
    <3>2. QED  BY <2>3, <3>1, Zenon DEF Agreed
  <2>4. QED  BY <2>2, <2>3
<1>5. QED  BY <1>1, <1>2, <1>3, <1>4

(* A gate just created waits for its assignees. *)
LEMMA FreshGate ==
  ASSUME NEW rows, NEW n, NEW g \in Nodes,
         \A u \in Users : rows[<<n, g, u>>] = NewRow(g) \/ rows[<<n, g, u>>].status = "none",
         \A u \in Users : u \in Assignees[g] <=> rows[<<n, g, u>>] = NewRow(g)
  PROVE  Created(rows, n, g) /\ GateFollows(rows, n, g)
<1>1. PICK u \in Users : u \in Assignees[g]  BY SomeoneAsked
<1>2. rows[<<n, g, u>>] = NewRow(g)  BY <1>1
<1>3. Created(rows, n, g) /\ ~Decided(rows, n, g)  BY <1>2, NewRowFacts DEF Created, Decided
<1>4. \A v \in Users : v \in Assignees[g] <=> rows[<<n, g, v>>].status # "none" /\ rows[<<n, g, v>>].from = NoUser
  BY NewRowFacts
<1>5. Assignees[g] \subseteq Users  BY SomeoneAsked
<1>6. Holders(rows, n, g) = Assignees[g]  BY <1>4, <1>5 DEF Holders
<1>7. QED  BY <1>3, <1>6 DEF GateFollows

LEMMA SubmitKeepsApproval ==
  ASSUME ApprovalInv, NEW M \in SUBSET Flows, Submit(M)
  PROVE  BranchesFollow'
<1>1. FlowTypeOK /\ Open(gate) = {} /\ (\A r \in RunKeys : run[r].status # "waiting")
  BY DEF ApprovalInv, DanglingInv, NothingDangling, Submit, FlowTypeOK, RunKeys
<1>2. /\ submission' \in Submissions
      /\ \A n \in Submissions, f \in Flows :
              run'[<<n, f>>] = IF n = submission' /\ f \in M THEN [NoRun EXCEPT !.status = "waiting"]
                                                            ELSE NoRun
      /\ \A n \in Submissions, g \in Nodes, u \in Users :
              gate'[<<n, g, u>>] =
                IF n = submission' /\ (\E f \in M : g \in Roots[f]) /\ u \in Assignees[g]
                  THEN NewRow(g) ELSE NoRow
  BY <1>1, SubmitReads
<1>3. PICK n \in Submissions : n = submission'  BY <1>2
<1>4. \A g \in Nodes : NewRow(g) # NoRow  BY NewRowFacts, NoRowFacts
<1>5. ASSUME NEW g \in Nodes, NEW f \in M, g \in Roots[f]
      PROVE  Created(gate', n, g) /\ GateFollows(gate', n, g)
  <2>1. \A u \in Users : gate'[<<n, g, u>>] = IF u \in Assignees[g] THEN NewRow(g) ELSE NoRow
    BY <1>2, <1>3, <1>5
  <2>2. QED  BY <1>4, <2>1, FreshGate, NoRowFacts
<1>6. ASSUME NEW g \in Nodes, ~\E f \in M : g \in Roots[f]
      PROVE  GateFollows(gate', n, g)
  <2>1. \A u \in Users : gate'[<<n, g, u>>] = NoRow  BY <1>2, <1>3, <1>6
  <2>2. ~Created(gate', n, g)  BY <2>1, NoRowFacts DEF Created
  <2>3. QED  BY <2>2 DEF GateFollows
<1>7. RootsCreated'
  <2> SUFFICES ASSUME NEW f \in Flows, run'[<<n, f>>].status # "none", NEW g \in Roots[f]
               PROVE  Created(gate', n, g)
    BY <1>3 DEF RootsCreated, Matched
  <2>1. f \in M  BY <1>2, <1>3, NoRunFacts
  <2>2. g \in Nodes  BY FlowAssumption
  <2>3. QED  BY <1>5, <2>1, <2>2
<1>8. QED  BY <1>2, <1>3, <1>5, <1>6, <1>7 DEF BranchesFollow

(* The seats of the gate are only handed over. *)
LEMMA GroupMoveKeepsApproval ==
  ASSUME ApprovalInv, NEW n \in Submissions, NEW g \in Nodes, GroupMove(n, g),
         Created(gate, n, g),
         Cardinality(Holders(gate', n, g)) = Cardinality(Holders(gate, n, g))
  PROVE  BranchesFollow'
<1>1. /\ \A m \in Submissions, h \in Nodes, v \in Users :
           (m # n \/ h # g) => gate'[<<m, h, v>>] = gate[<<m, h, v>>]
      /\ UNCHANGED <<doc, submission, run>>
  BY DEF GroupMove
<1>2. doc = "pending" /\ n = submission
  <2>1. FlowOf[g] \in Flows  BY FlowAssumption
  <2>2. QED  BY <2>1, LiveIsPending DEF GroupMove, ApprovalInv
<1>3. RootsCreated /\ \A h \in Nodes : GateFollows(gate, n, h)
  BY <1>2 DEF ApprovalInv, BranchesFollow
<1>4. Created(gate', n, g) /\ ~Decided(gate', n, g)
  <2>1. PICK v \in Users : IsOpen(gate'[<<n, g, v>>])  BY DEF GroupMove
  <2>2. gate'[<<n, g, v>>].status # "none"  BY <2>1 DEF IsOpen
  <2>3. QED  BY <2>1, <2>2 DEF Created, Decided
<1>5. ASSUME NEW h \in Nodes, h # g
      PROVE  /\ Created(gate', n, h) <=> Created(gate, n, h)
             /\ Decided(gate', n, h) <=> Decided(gate, n, h)
             /\ Holders(gate', n, h) = Holders(gate, n, h)
             /\ Agreed(gate', n, h) <=> Agreed(gate, n, h)
  <2>1. \A v \in Users : gate'[<<n, h, v>>] = gate[<<n, h, v>>]  BY <1>1, <1>5
  <2>2. QED  BY <2>1, SameGroup
<1>6. \A h \in Nodes : Created(gate, n, h) => Created(gate', n, h)  BY <1>4, <1>5
<1>7. RootsCreated'
  <2>1. \A f \in Flows : \A h \in Roots[f] : h \in Nodes  BY FlowAssumption
  <2>2. QED  BY <1>1, <1>2, <1>3, <1>6, <2>1 DEF RootsCreated, Matched
<1>8. ASSUME NEW h \in Nodes PROVE GateFollows(gate', n, h)
  <2>1. CASE h = g  BY <1>3, <1>4, <2>1 DEF GateFollows
  <2>2. CASE h # g
    <3>1. \A k \in Then[h] : k \in Nodes  BY FlowAssumption
    <3>2. QED  BY <1>3, <1>5, <1>6, <2>2, <3>1 DEF GateFollows
  <2>3. QED  BY <2>1, <2>2
<1>9. QED  BY <1>1, <1>2, <1>7, <1>8 DEF BranchesFollow

LEMMA WaitKeepsSeats ==
  ASSUME NEW n \in Submissions, NEW g \in Nodes, NEW u \in Users, KeepsWaiting(n, g, u),
         gate[<<n, g, u>>].status = "pending"
  PROVE  Holders(gate', n, g) = Holders(gate, n, g)
<1>1. /\ \A v \in Users : v # u => gate'[<<n, g, v>>] = gate[<<n, g, v>>]
      /\ gate'[<<n, g, u>>].status = "approved" /\ gate'[<<n, g, u>>].from = gate[<<n, g, u>>].from
  BY DEF KeepsWaiting
<1>2. \A v \in Users : v \in Holders(gate', n, g) <=> v \in Holders(gate, n, g)
  BY <1>1 DEF Holders
<1>3. QED  BY <1>2 DEF Holders

LEMMA DelegateKeepsSeats ==
  ASSUME FlowTypeOK, NEW n \in Submissions, NEW g \in Nodes, NEW u \in Users, NEW to \in Users,
         Delegate(n, g, u, to)
  PROVE  Cardinality(Holders(gate', n, g)) = Cardinality(Holders(gate, n, g))
<1> DEFINE H == Holders(gate, n, g)
           H2 == Holders(gate', n, g)
<1>1. /\ to # u /\ gate[<<n, g, u>>].status = "pending" /\ gate[<<n, g, to>>].status = "none"
      /\ gate'[<<n, g, to>>] = gate[<<n, g, u>>] /\ gate'[<<n, g, u>>] = NoRow
      /\ \A v \in Users \ {u, to} : gate'[<<n, g, v>>] = gate[<<n, g, v>>]
  BY DelegateReads
<1>2. IsFiniteSet(H) /\ IsFiniteSet(H \ {u})
  <2>1. H \in SUBSET Users  BY DEF Holders
  <2>2. QED  BY <2>1, FS_Subset, FS_RemoveElement, FlowAssumption
<1>3. to \notin H  BY <1>1 DEF Holders
<1>4. \A v \in Users : v \in H2 <=> IF v = to THEN u \in H ELSE v # u /\ v \in H
  BY <1>1, NoRowFacts DEF Holders
<1>5. H \subseteq Users /\ H2 \subseteq Users  BY DEF Holders
<1> HIDE DEF H, H2
<1>6. CASE u \notin H
  <2>1. H2 = H  BY <1>3, <1>4, <1>5, <1>6
  <2>2. QED  BY <2>1 DEF H, H2
<1>7. CASE u \in H
  <2>1. H2 = (H \ {u}) \cup {to}  BY <1>3, <1>4, <1>5, <1>7
  <2>2. Cardinality(H \ {u}) = Cardinality(H) - 1  BY <1>2, <1>7, FS_RemoveElement
  <2>3. Cardinality((H \ {u}) \cup {to}) = Cardinality(H \ {u}) + 1
    <3>1. to \notin H \ {u}  BY <1>3
    <3>2. QED  BY <1>2, <3>1, FS_AddElement
  <2>4. Cardinality(H) \in Nat  BY <1>2, FS_CardinalityType
  <2>5. Cardinality(H2) = Cardinality(H)  BY <2>1, <2>2, <2>3, <2>4
  <2>6. QED  BY <2>5 DEF H, H2
<1>8. QED  BY <1>6, <1>7

LEMMA EscalateKeepsSeats ==
  ASSUME FlowTypeOK, NEW n \in Submissions, NEW g \in Nodes, NEW u \in Users,
         NEW S \in SUBSET EscalateTo[g], Escalate(n, g, u, S)
  PROVE  Holders(gate', n, g) = Holders(gate, n, g)
<1>1. /\ gate[<<n, g, u>>].status = "pending"
      /\ gate'[<<n, g, u>>].status \in {"pending", "escalated"}
      /\ gate'[<<n, g, u>>].from = gate[<<n, g, u>>].from
      /\ \A v \in Users \ {u} :
           \/ gate'[<<n, g, v>>] = gate[<<n, g, v>>]
           \/ gate[<<n, g, v>>].status = "none" /\ gate'[<<n, g, v>>].from = u
  BY EscalateReads
<1>2. u # NoUser  BY FlowAssumption
<1>3. \A v \in Users : v \in Holders(gate', n, g) <=> v \in Holders(gate, n, g)
  BY <1>1, <1>2 DEF Holders
<1>4. QED  BY <1>3 DEF Holders

(* The gate closes approved, and the gates of its branch are created.       *)
LEMMA AdvanceKeepsApproval ==
  ASSUME ApprovalInv, NEW n \in Submissions, NEW g \in Nodes, NEW u \in Users, NEW rows \in Tables,
         Closes(rows, n, g, u), gate[<<n, g, u>>].status = "pending", Live(n, FlowOf[g]),
         submission' = submission,
         \A m \in Submissions, h \in Nodes, v \in Users :
           gate'[<<m, h, v>>] =
             IF m = n /\ h \in Then[g] /\ Unopened(rows, n, h) /\ v \in Assignees[h]
               THEN NewRow(h) ELSE rows[<<m, h, v>>],
         \A f \in Flows : run'[<<n, f>>].status # "none" => run[<<n, f>>].status # "none"
  PROVE  BranchesFollow'
<1>1. doc = "pending" /\ n = submission
  <2>1. FlowOf[g] \in Flows  BY FlowAssumption
  <2>2. QED  BY <2>1, LiveIsPending DEF ApprovalInv
<1>2. RootsCreated /\ \A h \in Nodes : GateFollows(gate, n, h)
  BY <1>1 DEF ApprovalInv, BranchesFollow
<1>3. /\ \A h \in Nodes, v \in Users : h # g => rows[<<n, h, v>>] = gate[<<n, h, v>>]
      /\ rows[<<n, g, u>>].status = "approved"
  BY DEF Closes
<1>4. ~Unopened(rows, n, g)  BY <1>3 DEF Unopened
<1>5. \A v \in Users : gate'[<<n, g, v>>] = rows[<<n, g, v>>]  BY <1>4
(* g itself *)
<1>6. Created(gate, n, g) /\ Created(gate', n, g)
  BY <1>3, <1>5 DEF Created
<1>7. Holders(gate', n, g) = Holders(gate, n, g)
  <2>1. \A v \in Users : /\ rows[<<n, g, v>>].from = gate[<<n, g, v>>].from
                         /\ rows[<<n, g, v>>].status = "none" <=> gate[<<n, g, v>>].status = "none"
    BY DEF Closes
  <2>2. Holders(rows, n, g) = Holders(gate, n, g)  BY <2>1 DEF Holders
  <2>3. QED  BY <1>5, <2>2, SameGroup
<1>8. Agreed(gate', n, g)
  <2>1. CASE g \in AllOf
    <3>1. \A v \in Users :
           \/ rows[<<n, g, v>>].status \in {"none", "approved"}
           \/ \E w \in Users : rows[<<n, g, w>>].status = "approved" /\ rows[<<n, g, w>>].from = v
      BY <2>1 DEF Closes
    <3>2. Agreed(rows, n, g)  BY <2>1, <3>1 DEF Agreed
    <3>3. QED  BY <1>5, <3>2, SameGroup
  <2>2. CASE g \notin AllOf  BY <1>3, <1>5, <2>2 DEF Agreed
  <2>3. QED  BY <2>1, <2>2
(* The other gates *)
<1>9. ASSUME NEW h \in Nodes, h # g, ~(h \in Then[g] /\ Unopened(rows, n, h))
      PROVE  /\ Created(gate', n, h) <=> Created(gate, n, h)
             /\ Decided(gate', n, h) <=> Decided(gate, n, h)
             /\ Holders(gate', n, h) = Holders(gate, n, h)
             /\ Agreed(gate', n, h) <=> Agreed(gate, n, h)
  <2>1. \A v \in Users : gate'[<<n, h, v>>] = gate[<<n, h, v>>]  BY <1>3, <1>9
  <2>2. QED  BY <2>1, SameGroup
<1>10. ASSUME NEW h \in Nodes, h \in Then[g], Unopened(rows, n, h)
       PROVE  Created(gate', n, h) /\ GateFollows(gate', n, h)
  <2>1. \A v \in Users : gate'[<<n, h, v>>] = IF v \in Assignees[h] THEN NewRow(h) ELSE rows[<<n, h, v>>]
    BY <1>10
  <2>2. \A v \in Users : rows[<<n, h, v>>].status = "none"  BY <1>10 DEF Unopened
  <2>3. QED  BY <2>1, <2>2, FreshGate, NewRowFacts
<1>11. \A h \in Nodes : Created(gate, n, h) => Created(gate', n, h)  BY <1>6, <1>9, <1>10
<1>12. \A h \in Then[g] : Created(gate', n, h)
  <2> SUFFICES ASSUME NEW h \in Then[g] PROVE Created(gate', n, h)  OBVIOUS
  <2>1. h \in Nodes  BY FlowAssumption
  <2>2. CASE Unopened(rows, n, h)  BY <1>10, <2>1, <2>2
  <2>3. CASE ~Unopened(rows, n, h) /\ h # g
    <3>1. Created(gate, n, h)  BY <1>3, <2>1, <2>3 DEF Unopened, Created
    <3>2. QED  BY <1>11, <2>1, <3>1
  <2>4. CASE h = g  BY <1>6, <2>4
  <2>5. QED  BY <2>2, <2>3, <2>4
<1>13. ASSUME NEW h \in Nodes PROVE GateFollows(gate', n, h)
  <2>1. CASE h = g  BY <1>2, <1>6, <1>7, <1>8, <1>12, <2>1 DEF GateFollows
  <2>2. CASE h \in Then[g] /\ Unopened(rows, n, h)  BY <1>10, <2>2
  <2>3. CASE h # g /\ ~(h \in Then[g] /\ Unopened(rows, n, h))
    <3>1. \A k \in Then[h] : k \in Nodes  BY FlowAssumption
    <3>2. QED  BY <1>2, <1>9, <1>11, <2>3, <3>1 DEF GateFollows
  <2>4. QED  BY <2>1, <2>2, <2>3
<1>14. RootsCreated'
  <2>1. \A f \in Flows : \A h \in Roots[f] : h \in Nodes  BY FlowAssumption
  <2>2. \A f \in Flows : run'[<<n, f>>].status # "none" => \A h \in Roots[f] : Created(gate', n, h)
    BY <1>1, <1>2, <1>11, <2>1 DEF RootsCreated, Matched
  <2>3. QED  BY <1>1, <2>2 DEF RootsCreated, Matched
<1>15. QED  BY <1>1, <1>13, <1>14 DEF BranchesFollow

LEMMA DecideKeepsApproval ==
  ASSUME ApprovalInv, NEW n \in Submissions, NEW g \in Nodes, NEW u \in Users,
         NEW decision \in Decisions, Decide(n, g, u, decision)
  PROVE  BranchesFollow'
<1>1. /\ gate[<<n, g, u>>].status = "pending" /\ Live(n, FlowOf[g]) /\ submission' = submission
      /\ \/ KeepsWaiting(n, g, u)
         \/ RejectsAll(n, FlowOf[g])
         \/ \E rows \in Tables :
              /\ Closes(rows, n, g, u)
              /\ \/ Parks(rows, g) /\ Park(rows, n, FlowOf[g], g)
                 \/ ~Parks(rows, g) /\ ResumeApproved(rows, n, FlowOf[g], g)
  BY DecideShape DEF ApprovalInv, DanglingInv
<1>2. FlowOf[g] \in Flows /\ doc = "pending" /\ n = submission /\ FlowTypeOK
  BY <1>1, LiveIsPending, FlowAssumption DEF ApprovalInv, DanglingInv
<1>3. CASE KeepsWaiting(n, g, u)
  <2>1. GroupMove(n, g)  BY <1>1, <1>3, WaitingIsMove
  <2>2. Created(gate, n, g)  BY <1>1 DEF Created
  <2>3. QED  BY <1>1, <1>3, <2>1, <2>2, WaitKeepsSeats, GroupMoveKeepsApproval
<1>4. CASE RejectsAll(n, FlowOf[g])  BY <1>2, <1>4 DEF RejectsAll, BranchesFollow
<1>5. ASSUME NEW rows \in Tables, Closes(rows, n, g, u), Parks(rows, g), Park(rows, n, FlowOf[g], g)
      PROVE  BranchesFollow'
  <2>0. FlowOf[g] \in Flows /\ FlowTypeOK  BY <1>2
  <2>1. /\ gate' = rows /\ UNCHANGED <<doc, ran>> /\ run' \in [RunKeys -> Run]
        /\ run'[<<n, FlowOf[g]>>].parked = g
        /\ \A r \in RunKeys : /\ run'[r].status = run[r].status
                              /\ r # <<n, FlowOf[g]>> => run'[r] = run[r]
    BY <1>5, <2>0, ParkReads
  <2>2. Then[g] = {}  BY <1>5 DEF Parks
  <2>3. \A m \in Submissions, h \in Nodes, v \in Users :
          gate'[<<m, h, v>>] =
             IF m = n /\ h \in Then[g] /\ Unopened(rows, n, h) /\ v \in Assignees[h]
               THEN NewRow(h) ELSE rows[<<m, h, v>>]
    BY <2>1, <2>2
  <2>4. \A f \in Flows : run'[<<n, f>>].status # "none" => run[<<n, f>>].status # "none"
    BY <2>1, RunKeyFacts
  <2>5. QED  BY <1>1, <1>5, <2>3, <2>4, AdvanceKeepsApproval
<1>6. ASSUME NEW rows \in Tables, Closes(rows, n, g, u), ResumeApproved(rows, n, FlowOf[g], g)
      PROVE  BranchesFollow'
  <2>0. FlowTypeOK  BY <1>2
  <2>1. /\ \A m \in Submissions, h \in Nodes, v \in Users :
             gate'[<<m, h, v>>] =
               IF m = n /\ h \in Then[g] /\ Unopened(rows, n, h) /\ v \in Assignees[h]
                 THEN NewRow(h) ELSE rows[<<m, h, v>>]
        /\ \A r \in RunKeys : r # <<n, FlowOf[g]>> =>
              IF Open(gate') = {} /\ run[r].status = "waiting" /\ run[r].parked # NoNode
                THEN run'[r].status = "completed" ELSE run'[r] = run[r]
    BY <1>6, <2>0, ResumeReads
  <2>2. ASSUME NEW f \in Flows, run'[<<n, f>>].status # "none" PROVE run[<<n, f>>].status # "none"
    <3>1. CASE f = FlowOf[g]  BY <1>1, <3>1 DEF Live
    <3>2. CASE f # FlowOf[g]
      <4>1. <<n, f>> \in RunKeys /\ <<n, f>> # <<n, FlowOf[g]>>  BY <3>2, RunKeyFacts
      <4>2. QED  BY <2>1, <2>2, <4>1
    <3>3. QED  BY <3>1, <3>2
  <2>3. QED  BY <1>1, <1>6, <2>1, <2>2, AdvanceKeepsApproval
<1>7. QED  BY <1>1, <1>3, <1>4, <1>5, <1>6

LEMMA ApprovalKept == ApprovalInv /\ [Next]_vars => ApprovalInv'
<1> SUFFICES ASSUME ApprovalInv, [Next]_vars PROVE BranchesFollow'
  BY DanglingKept DEF ApprovalInv
<1>0. FlowTypeOK  BY DEF ApprovalInv, DanglingInv
<1>1. CASE \E M \in SUBSET Flows : Submit(M)  BY <1>1, SubmitKeepsApproval
<1>2. CASE WithdrawSubmission \/ ReturnToDraft
  BY <1>2 DEF WithdrawSubmission, ReturnToDraft, BackToDraft, BranchesFollow
<1>3. CASE DecideSome  BY <1>3, DecideKeepsApproval DEF DecideSome
<1>4. ASSUME NEW n \in Submissions, NEW g \in Nodes, NEW u \in Users, NEW to \in Users,
             Delegate(n, g, u, to)
      PROVE  BranchesFollow'
  <2>1. GroupMove(n, g) /\ gate[<<n, g, u>>].status = "pending"  BY <1>0, <1>4, DelegateReads
  <2>2. Created(gate, n, g)  BY <2>1 DEF Created
  <2>3. QED  BY <1>0, <1>4, <2>1, <2>2, DelegateKeepsSeats, GroupMoveKeepsApproval
<1>5. ASSUME NEW n \in Submissions, NEW g \in Nodes, NEW u \in Users,
             NEW S \in SUBSET EscalateTo[g], Escalate(n, g, u, S)
      PROVE  BranchesFollow'
  <2>1. GroupMove(n, g) /\ gate[<<n, g, u>>].status = "pending"  BY <1>0, <1>5, EscalateReads
  <2>2. Created(gate, n, g)  BY <2>1 DEF Created
  <2>3. QED  BY <1>0, <1>5, <2>1, <2>2, EscalateKeepsSeats, GroupMoveKeepsApproval
<1>6. CASE UNCHANGED vars
  BY <1>6 DEF vars, ApprovalInv, BranchesFollow, RootsCreated, Matched
<1>7. QED  BY <1>1, <1>2, <1>3, <1>4, <1>5, <1>6 DEF Next

(* Seats, the keys of Satisfied, are counted by the people who hold them.   *)
LEMMA SeatsAreHolders ==
  ASSUME NEW n \in Submissions, NEW g \in Nodes
  PROVE  Cardinality({k \in Group(n, g) : gate[k].status # "none" /\ gate[k].from = NoUser})
           = Cardinality(Holders(gate, n, g))
<1> DEFINE K == {k \in Group(n, g) : gate[k].status # "none" /\ gate[k].from = NoUser}
           H == Holders(gate, n, g)
           F == [u \in H |-> <<n, g, u>>]
<1>1. IsFiniteSet(H)
  <2>1. H \in SUBSET Users  BY DEF Holders
  <2>2. QED  BY <2>1, FS_Subset, FlowAssumption
<1>2. \A k : k \in K <=> \E u \in H : k = <<n, g, u>>
  <2>1. \A k : k \in Group(n, g) <=> \E u \in Users : k = <<n, g, u>>  BY DEF Group
  <2>2. QED  BY <2>1 DEF Holders
<1>3. F \in Bijection(H, K)
  <2> HIDE DEF H, K
  <2>1. F \in [H -> K]  BY <1>2
  <2>2. \A u, v \in H : F[u] = F[v] => u = v  OBVIOUS
  <2>3. \A k \in K : \E u \in H : F[u] = k  BY <1>2
  <2>4. QED  BY <2>1, <2>2, <2>3 DEF Bijection, Injection, Surjection, IsInjective
<1>4. QED
  <2> HIDE DEF H, K, F
  <2>1. ExistsBijection(H, K)  BY <1>3 DEF ExistsBijection
  <2>2. Cardinality(K) = Cardinality(H)  BY <1>1, <2>1, FS_Bijection
  <2>3. QED  BY <2>2 DEF H, K

(* The approved document opened and decided every gate of its Flows. *)
LEMMA ReleaseReachesAll ==
  ASSUME ApprovalInv, doc = "approved", NEW n \in Submissions, n = submission,
         NEW g \in Nodes, Matched(n, FlowOf[g])
  PROVE  Created(gate, n, g) /\ Decided(gate, n, g)
<1>1. RootsCreated /\ \A h \in Nodes : GateFollows(gate, n, h)
  BY DEF ApprovalInv, BranchesFollow
<1>2. \A h \in Nodes : Decided(gate, n, h)
  BY NothingOpen DEF ApprovalInv, DanglingInv, NothingDangling, Decided
<1> DEFINE S == {h \in Nodes : Created(gate, n, h)}
<1>3. Roots[FlowOf[g]] \subseteq S
  <2>1. FlowOf[g] \in Flows /\ Roots[FlowOf[g]] \subseteq Nodes  BY FlowAssumption
  <2>2. QED  BY <1>1, <2>1 DEF RootsCreated
<1>4. \A h \in S : Then[h] \subseteq S
  <2>1. \A h \in Nodes : Then[h] \subseteq Nodes  BY FlowAssumption
  <2>2. QED  BY <1>1, <1>2, <2>1 DEF GateFollows
<1>5. g \in S
  <2>1. FlowOf[g] \in Flows /\ S \in SUBSET Nodes  BY FlowAssumption
  <2> HIDE DEF S
  <2>2. QED  BY <1>3, <1>4, <2>1, GraphAssumption
<1>6. QED  BY <1>2, <1>5

LEMMA ApprovalCounts == ApprovalInv => ReleasedMeansApproved
<1> SUFFICES ASSUME ApprovalInv, doc = "approved", NEW g \in Nodes, Matched(submission, FlowOf[g])
             PROVE  Satisfied(submission, g)
  BY DEF ReleasedMeansApproved
<1>1. PICK n \in Submissions : n = submission
  BY DEF ApprovalInv, BranchesFollow
<1>2. Created(gate, n, g) /\ Decided(gate, n, g)  BY <1>1, ReleaseReachesAll
<1>3. GateFollows(gate, n, g)  BY <1>1 DEF ApprovalInv, BranchesFollow
<1>4. Cardinality(Holders(gate, n, g)) = Cardinality(Assignees[g]) /\ Agreed(gate, n, g)
  BY <1>2, <1>3 DEF GateFollows
<1> DEFINE K == {k \in Group(n, g) : gate[k].status # "none" /\ gate[k].from = NoUser}
<1>5. Cardinality(K) = Cardinality(Assignees[g])  BY <1>4, SeatsAreHolders
<1>6. ASSUME g \in AllOf, NEW k \in K PROVE Approved(n, k)
  <2>1. PICK v \in Users : k = <<n, g, v>> /\ gate[<<n, g, v>>].status # "none"  BY DEF Group
  <2>2. CASE gate[<<n, g, v>>].status = "approved"  BY <2>1, <2>2 DEF Approved
  <2>3. CASE gate[<<n, g, v>>].status # "approved"
    <3>1. PICK w \in Users : gate[<<n, g, w>>].status = "approved" /\ gate[<<n, g, w>>].from = v
      BY <1>4, <1>6, <2>1, <2>3 DEF Agreed
    <3>2. k[2] = g /\ k[3] = v  BY <2>1
    <3>3. <<n, g, w>> \in Group(n, k[2])  BY <3>2 DEF Group
    <3>4. QED  BY <3>1, <3>2, <3>3 DEF Approved
  <2>4. QED  BY <2>2, <2>3
<1>7. ASSUME g \notin AllOf PROVE \E k \in Group(n, g) : gate[k].status = "approved"
  <2>1. PICK v \in Users : gate[<<n, g, v>>].status = "approved"  BY <1>4, <1>7 DEF Agreed
  <2>2. <<n, g, v>> \in Group(n, g)  BY DEF Group
  <2>3. QED  BY <2>1, <2>2
<1>8. QED  BY <1>1, <1>5, <1>6, <1>7 DEF Satisfied

(* An approved document was approved by every gate of every Flow that       *)
(* matched its newest submission: each seat of a gate with quorum 'all',    *)
(* itself or through the person its escalated row went to, and one person   *)
(* of any other gate.                                                       *)
THEOREM ReleaseNeedsEveryGate == Spec => []ReleasedMeansApproved
<1>1. Init => ApprovalInv  BY DanglingStarts DEF ApprovalInv, BranchesFollow, Init
<1>2. QED  BY <1>1, ApprovalKept, ApprovalCounts, PTL DEF Spec

-----------------------------------------------------------------------------
(* Every branch runs, in graphs whose gates follow one another *)

(* A trigger reaches one gate, and an approve branch leads to at most one.  *)
(* Otherwise a run can wait at one gate with the branch of another parked,  *)
(* and the decision that releases the document picks up the parked branches *)
(* of the other runs only.                                                  *)
NoForks ==
  /\ \A f \in Flows : \A g, h \in Roots[f] : g = h
  /\ \A g \in Nodes : \A h, k \in Then[g] : h = k

(* A run waits at one gate at a time. *)
OneGateOpen(rows, n) ==
  \A g, h \in Nodes :
    (FlowOf[g] = FlowOf[h] /\ ~Decided(rows, n, g) /\ ~Decided(rows, n, h)) => g = h

(* A run that parked its branch waits at no gate. *)
ParkedIsLast(runs, rows, n) ==
  \A f \in Flows : runs[<<n, f>>].parked # NoNode =>
    \A g \in Nodes : FlowOf[g] = f => Decided(rows, n, g)

(* The actions behind a decided gate ran, or are parked. *)
ActedOrParked(runs, rows, done, n) ==
  \A g \in Acts : (Created(rows, n, g) /\ Decided(rows, n, g)) =>
    \/ <<n, g>> \in done
    \/ runs[<<n, FlowOf[g]>>].status = "waiting" /\ runs[<<n, FlowOf[g]>>].parked = g

BranchesAct ==
  doc # "draft" => /\ OneGateOpen(gate, submission)
                   /\ ParkedIsLast(run, gate, submission)
                   /\ ActedOrParked(run, gate, ran, submission)

BranchInv == ApprovalInv /\ BranchesAct

LEMMA BranchFacts ==
  ASSUME BranchInv, NEW n \in Submissions, NEW g \in Nodes, NEW u \in Users,
         Live(n, FlowOf[g]), gate[<<n, g, u>>].status = "pending"
  PROVE  /\ doc = "pending" /\ n = submission /\ FlowOf[g] \in Flows
         /\ Created(gate, n, g) /\ ~Decided(gate, n, g)
         /\ OneGateOpen(gate, n) /\ ParkedIsLast(run, gate, n) /\ ActedOrParked(run, gate, ran, n)
         /\ run[<<n, FlowOf[g]>>].parked = NoNode
<1>1. doc = "pending" /\ n = submission /\ FlowOf[g] \in Flows
  BY LiveIsPending, FlowAssumption DEF BranchInv, ApprovalInv
<1>2. Created(gate, n, g) /\ ~Decided(gate, n, g)  BY DEF Created, Decided, IsOpen
<1>3. OneGateOpen(gate, n) /\ ParkedIsLast(run, gate, n) /\ ActedOrParked(run, gate, ran, n)
  BY <1>1 DEF BranchInv, BranchesAct
<1>4. QED  BY <1>1, <1>2, <1>3 DEF ParkedIsLast

LEMMA SubmitKeepsBranches ==
  ASSUME NoForks, BranchInv, NEW M \in SUBSET Flows, Submit(M)
  PROVE  BranchesAct'
<1>1. FlowTypeOK /\ Open(gate) = {} /\ (\A r \in RunKeys : run[r].status # "waiting")
  BY DEF BranchInv, ApprovalInv, DanglingInv, NothingDangling, Submit, FlowTypeOK, RunKeys
<1>2. /\ submission' \in Submissions
      /\ \A n \in Submissions, f \in Flows :
              run'[<<n, f>>] = IF n = submission' /\ f \in M THEN [NoRun EXCEPT !.status = "waiting"]
                                                            ELSE NoRun
      /\ \A n \in Submissions, g \in Nodes, u \in Users :
              gate'[<<n, g, u>>] =
                IF n = submission' /\ (\E f \in M : g \in Roots[f]) /\ u \in Assignees[g]
                  THEN NewRow(g) ELSE NoRow
  BY <1>1, SubmitReads
<1>3. PICK n \in Submissions : n = submission'  BY <1>2
<1>4. [NoRun EXCEPT !.status = "waiting"].parked = NoNode  BY DEF NoRun
<1>5. \A f \in Flows : run'[<<n, f>>].parked = NoNode  BY <1>2, <1>4, NoRunFacts
<1>6. ASSUME NEW g \in Nodes, Created(gate', n, g)
      PROVE  ~Decided(gate', n, g) /\ \E f \in M : g \in Roots[f]
  <2>1. PICK u \in Users : gate'[<<n, g, u>>].status # "none"  BY <1>6 DEF Created
  <2>2. (\E f \in M : g \in Roots[f]) /\ gate'[<<n, g, u>>] = NewRow(g)
    BY <1>2, <1>3, <2>1, NoRowFacts
  <2>3. QED  BY <2>2, NewRowFacts DEF Decided
<1>7. \A g \in Nodes : ~Decided(gate', n, g) => Created(gate', n, g)
  BY DEF Decided, Created, IsOpen
<1>8. OneGateOpen(gate', n)
  <2> SUFFICES ASSUME NEW g \in Nodes, NEW h \in Nodes, FlowOf[g] = FlowOf[h],
                      ~Decided(gate', n, g), ~Decided(gate', n, h)
               PROVE  g = h
    BY DEF OneGateOpen
  <2>1. PICK e \in M : g \in Roots[e]  BY <1>6, <1>7
  <2>2. PICK f \in M : h \in Roots[f]  BY <1>6, <1>7
  <2>3. e = f  BY <2>1, <2>2, GraphAssumption
  <2>4. QED  BY <2>1, <2>2, <2>3 DEF NoForks
<1>9. ParkedIsLast(run', gate', n)  BY <1>5 DEF ParkedIsLast
<1>10. ActedOrParked(run', gate', ran', n)
  <2>1. Acts \subseteq Nodes  BY FlowAssumption
  <2>2. QED  BY <1>6, <2>1 DEF ActedOrParked
<1>11. QED  BY <1>3, <1>8, <1>9, <1>10 DEF BranchesAct

LEMMA GroupMoveKeepsBranches ==
  ASSUME BranchInv, NEW n \in Submissions, NEW g \in Nodes, NEW u \in Users, GroupMove(n, g),
         gate[<<n, g, u>>].status = "pending"
  PROVE  BranchesAct'
<1>1. /\ \A m \in Submissions, h \in Nodes, v \in Users :
           (m # n \/ h # g) => gate'[<<m, h, v>>] = gate[<<m, h, v>>]
      /\ UNCHANGED <<doc, submission, run, ran>> /\ Live(n, FlowOf[g])
  BY DEF GroupMove
<1>2. /\ doc = "pending" /\ n = submission /\ FlowOf[g] \in Flows
      /\ ~Decided(gate, n, g)
      /\ OneGateOpen(gate, n) /\ ParkedIsLast(run, gate, n) /\ ActedOrParked(run, gate, ran, n)
      /\ run[<<n, FlowOf[g]>>].parked = NoNode
  BY <1>1, BranchFacts
<1>3. ~Decided(gate', n, g)
  <2>1. PICK v \in Users : IsOpen(gate'[<<n, g, v>>])  BY DEF GroupMove
  <2>2. QED  BY <2>1 DEF Decided
<1>4. ASSUME NEW h \in Nodes, h # g
      PROVE  /\ Created(gate', n, h) <=> Created(gate, n, h)
             /\ Decided(gate', n, h) <=> Decided(gate, n, h)
  <2>1. \A v \in Users : gate'[<<n, h, v>>] = gate[<<n, h, v>>]  BY <1>1, <1>4
  <2>2. QED  BY <2>1, SameGroup
<1>5. \A h \in Nodes : Decided(gate', n, h) <=> Decided(gate, n, h)  BY <1>2, <1>3, <1>4
<1>6. OneGateOpen(gate', n)  BY <1>2, <1>5 DEF OneGateOpen
<1>7. ParkedIsLast(run', gate', n)  BY <1>1, <1>2, <1>5 DEF ParkedIsLast
<1>8. ActedOrParked(run', gate', ran', n)
  <2>1. Acts \subseteq Nodes  BY FlowAssumption
  <2>2. QED  BY <1>1, <1>2, <1>3, <1>4, <2>1 DEF ActedOrParked
<1>9. QED  BY <1>1, <1>2, <1>6, <1>7, <1>8 DEF BranchesAct

(* A release picks up the branch that each other run has parked. *)
LEMMA ResumeRuns ==
  ASSUME FlowTypeOK, NEW n \in Submissions, NEW g \in Nodes, NEW rows,
         ResumeApproved(rows, n, FlowOf[g], g)
  PROVE  /\ ran \subseteq ran' /\ Effects(n, g) \subseteq ran'
         /\ \A f \in Flows :
              (f # FlowOf[g] /\ Open(gate') = {} /\ run[<<n, f>>].status = "waiting"
                 /\ run[<<n, f>>].parked # NoNode)
                => <<n, run[<<n, f>>].parked>> \in ran'
<1> DEFINE follow == IF Open(gate') = {} THEN Continuations(n, FlowOf[g]) ELSE {}
<1>1. ran' = ran \cup Effects(n, g) \cup {<<r[1], run[r].parked>> : r \in follow}
  BY DEF ResumeApproved
<1>2. ASSUME NEW f \in Flows, f # FlowOf[g], Open(gate') = {}, run[<<n, f>>].status = "waiting",
             run[<<n, f>>].parked # NoNode
      PROVE  <<n, run[<<n, f>>].parked>> \in ran'
  <2>1. <<n, f>> \in DOMAIN run  BY RunKeyFacts DEF FlowTypeOK, RunKeys
  <2>2. <<n, f>> \in follow  BY <1>2, <2>1 DEF Continuations
  <2>3. PICK r \in follow : r = <<n, f>>  BY <2>2
  <2>4. <<r[1], run[r].parked>> \in ran'  BY <1>1
  <2>5. QED  BY <2>3, <2>4
<1>3. QED  BY <1>1, <1>2

(* The gate closes; the gate behind it, if there is one, is the next the    *)
(* run waits at.                                                            *)
LEMMA AdvanceKeepsOneOpen ==
  ASSUME NoForks, BranchInv, NEW n \in Submissions, NEW g \in Nodes, NEW u \in Users, NEW rows \in Tables,
         Closes(rows, n, g, u), gate[<<n, g, u>>].status = "pending", Live(n, FlowOf[g]),
         \A m \in Submissions, h \in Nodes, v \in Users :
           gate'[<<m, h, v>>] =
             IF m = n /\ h \in Then[g] /\ Unopened(rows, n, h) /\ v \in Assignees[h]
               THEN NewRow(h) ELSE rows[<<m, h, v>>]
  PROVE  /\ Decided(gate', n, g) /\ OneGateOpen(gate', n)
         /\ \A h \in Nodes : FlowOf[h] # FlowOf[g] =>
              /\ Created(gate', n, h) <=> Created(gate, n, h)
              /\ Decided(gate', n, h) <=> Decided(gate, n, h)
         /\ \A h \in Nodes : (h # g /\ Created(gate', n, h) /\ Decided(gate', n, h)) =>
              Created(gate, n, h) /\ Decided(gate, n, h)
         /\ Then[g] = {} => \A h \in Nodes : FlowOf[h] = FlowOf[g] => Decided(gate', n, h)
<1>1. ~Decided(gate, n, g) /\ OneGateOpen(gate, n)  BY BranchFacts
<1>2. /\ \A h \in Nodes, v \in Users : h # g => rows[<<n, h, v>>] = gate[<<n, h, v>>]
      /\ \A v \in Users : ~IsOpen(rows[<<n, g, v>>])
      /\ rows[<<n, g, u>>].status = "approved"
  BY DEF Closes
<1>3. Decided(gate', n, g)
  <2>1. ~Unopened(rows, n, g)  BY <1>2 DEF Unopened
  <2>2. \A v \in Users : gate'[<<n, g, v>>] = rows[<<n, g, v>>]  BY <2>1
  <2>3. QED  BY <1>2, <2>2 DEF Decided
<1>4. ASSUME NEW h \in Nodes, h # g, ~(h \in Then[g] /\ Unopened(rows, n, h))
      PROVE  /\ Created(gate', n, h) <=> Created(gate, n, h)
             /\ Decided(gate', n, h) <=> Decided(gate, n, h)
  <2>1. \A v \in Users : gate'[<<n, h, v>>] = gate[<<n, h, v>>]  BY <1>2, <1>4
  <2>2. QED  BY <2>1, SameGroup
<1>5. ASSUME NEW h \in Nodes, h \in Then[g], Unopened(rows, n, h)
      PROVE  ~Decided(gate', n, h) /\ FlowOf[h] = FlowOf[g]
  <2>1. PICK v \in Users : v \in Assignees[h]  BY SomeoneAsked
  <2>2. gate'[<<n, h, v>>] = NewRow(h)  BY <1>5, <2>1
  <2>3. IsOpen(gate'[<<n, h, v>>])  BY <2>2, NewRowFacts
  <2>4. QED  BY <1>5, <2>3, GraphAssumption DEF Decided
(* Whatever the run waits at now is the gate behind g. *)
<1>6. ASSUME NEW h \in Nodes, FlowOf[h] = FlowOf[g], ~Decided(gate', n, h)
      PROVE  h \in Then[g]
  <2>1. h # g  BY <1>3, <1>6
  <2>2. Decided(gate, n, h)  BY <1>1, <1>6, <2>1 DEF OneGateOpen
  <2>3. QED  BY <1>4, <1>6, <2>1, <2>2
<1>7. OneGateOpen(gate', n)
  <2> SUFFICES ASSUME NEW h \in Nodes, NEW k \in Nodes, FlowOf[h] = FlowOf[k],
                      ~Decided(gate', n, h), ~Decided(gate', n, k)
               PROVE  h = k
    BY DEF OneGateOpen
  <2>1. CASE FlowOf[h] = FlowOf[g]
    <3>1. h \in Then[g] /\ k \in Then[g]  BY <1>6, <2>1
    <3>2. QED  BY <3>1 DEF NoForks
  <2>2. CASE FlowOf[h] # FlowOf[g]
    <3>1. ~Decided(gate, n, h) /\ ~Decided(gate, n, k)  BY <1>4, <1>5, <2>2
    <3>2. QED  BY <1>1, <3>1 DEF OneGateOpen
  <2>3. QED  BY <2>1, <2>2
<1>8. \A h \in Nodes : FlowOf[h] # FlowOf[g] =>
        /\ Created(gate', n, h) <=> Created(gate, n, h)
        /\ Decided(gate', n, h) <=> Decided(gate, n, h)
  BY <1>4, <1>5
<1>9. \A h \in Nodes : (h # g /\ Created(gate', n, h) /\ Decided(gate', n, h)) =>
        Created(gate, n, h) /\ Decided(gate, n, h)
  BY <1>4, <1>5
<1>10. Then[g] = {} => \A h \in Nodes : FlowOf[h] = FlowOf[g] => Decided(gate', n, h)
  BY <1>6
<1>11. QED  BY <1>3, <1>7, <1>8, <1>9, <1>10

LEMMA ParkKeepsBranches ==
  ASSUME NoForks, BranchInv, NEW n \in Submissions, NEW g \in Nodes, NEW u \in Users, NEW rows \in Tables,
         Closes(rows, n, g, u), gate[<<n, g, u>>].status = "pending", Live(n, FlowOf[g]),
         submission' = submission, Parks(rows, g), Park(rows, n, FlowOf[g], g)
  PROVE  BranchesAct'
<1>1. /\ n = submission /\ FlowOf[g] \in Flows /\ FlowTypeOK
      /\ ParkedIsLast(run, gate, n) /\ ActedOrParked(run, gate, ran, n)
      /\ run[<<n, FlowOf[g]>>].parked = NoNode
  BY BranchFacts DEF BranchInv, ApprovalInv, DanglingInv
<1>2. /\ gate' = rows /\ UNCHANGED <<doc, ran>> /\ run'[<<n, FlowOf[g]>>].parked = g
      /\ \A r \in RunKeys : /\ run'[r].status = run[r].status
                            /\ r # <<n, FlowOf[g]>> => run'[r] = run[r]
  BY <1>1, ParkReads
<1>3. Then[g] = {}  BY DEF Parks
<1>4. \A m \in Submissions, h \in Nodes, v \in Users :
        gate'[<<m, h, v>>] =
          IF m = n /\ h \in Then[g] /\ Unopened(rows, n, h) /\ v \in Assignees[h]
            THEN NewRow(h) ELSE rows[<<m, h, v>>]
  BY <1>2, <1>3
<1>5. /\ OneGateOpen(gate', n)
      /\ \A h \in Nodes : FlowOf[h] # FlowOf[g] =>
           /\ Created(gate', n, h) <=> Created(gate, n, h)
           /\ Decided(gate', n, h) <=> Decided(gate, n, h)
      /\ \A h \in Nodes : (h # g /\ Created(gate', n, h) /\ Decided(gate', n, h)) =>
           Created(gate, n, h) /\ Decided(gate, n, h)
      /\ \A h \in Nodes : FlowOf[h] = FlowOf[g] => Decided(gate', n, h)
  BY <1>3, <1>4, AdvanceKeepsOneOpen
<1>6. \A f \in Flows : f # FlowOf[g] => run'[<<n, f>>] = run[<<n, f>>]
  <2> SUFFICES ASSUME NEW f \in Flows, f # FlowOf[g] PROVE run'[<<n, f>>] = run[<<n, f>>]  OBVIOUS
  <2>1. <<n, f>> \in RunKeys /\ <<n, f>> # <<n, FlowOf[g]>>  BY RunKeyFacts
  <2>2. QED  BY <1>2, <2>1
<1>7. ParkedIsLast(run', gate', n)
  <2> SUFFICES ASSUME NEW f \in Flows, run'[<<n, f>>].parked # NoNode,
                      NEW h \in Nodes, FlowOf[h] = f
               PROVE  Decided(gate', n, h)
    BY DEF ParkedIsLast
  <2>1. CASE f = FlowOf[g]  BY <1>5, <2>1
  <2>2. CASE f # FlowOf[g]
    <3>1. Decided(gate, n, h)  BY <1>1, <1>6, <2>2 DEF ParkedIsLast
    <3>2. QED  BY <1>5, <2>2, <3>1
  <2>3. QED  BY <2>1, <2>2
<1>8. ActedOrParked(run', gate', ran', n)
  <2> SUFFICES ASSUME NEW h \in Acts, Created(gate', n, h), Decided(gate', n, h)
               PROVE  \/ <<n, h>> \in ran'
                      \/ run'[<<n, FlowOf[h]>>].status = "waiting" /\ run'[<<n, FlowOf[h]>>].parked = h
    BY DEF ActedOrParked
  <2>0. h \in Nodes /\ FlowOf[h] \in Flows  BY FlowAssumption
  <2>1. CASE h = g
    <3>1. <<n, FlowOf[g]>> \in RunKeys  BY <1>1, RunKeyFacts
    <3>2. QED  BY <1>2, <2>1, <3>1 DEF Live
  <2>2. CASE h # g
    <3>1. \/ <<n, h>> \in ran
          \/ run[<<n, FlowOf[h]>>].status = "waiting" /\ run[<<n, FlowOf[h]>>].parked = h
      BY <1>1, <1>5, <2>0, <2>2 DEF ActedOrParked
    <3>2. h # NoNode  BY <2>0, FlowAssumption
    <3>3. CASE FlowOf[h] = FlowOf[g]  BY <1>1, <1>2, <3>1, <3>2, <3>3
    <3>4. CASE FlowOf[h] # FlowOf[g]  BY <1>2, <1>6, <2>0, <3>1, <3>4
    <3>5. QED  BY <3>3, <3>4
  <2>3. QED  BY <2>1, <2>2
<1>9. QED  BY <1>1, <1>5, <1>7, <1>8 DEF BranchesAct

LEMMA ResumeKeepsBranches ==
  ASSUME NoForks, BranchInv, NEW n \in Submissions, NEW g \in Nodes, NEW u \in Users, NEW rows \in Tables,
         Closes(rows, n, g, u), gate[<<n, g, u>>].status = "pending", Live(n, FlowOf[g]),
         submission' = submission, ResumeApproved(rows, n, FlowOf[g], g)
  PROVE  BranchesAct'
<1>1. /\ n = submission /\ FlowOf[g] \in Flows /\ FlowTypeOK
      /\ ParkedIsLast(run, gate, n) /\ ActedOrParked(run, gate, ran, n)
      /\ run[<<n, FlowOf[g]>>].parked = NoNode
  BY BranchFacts DEF BranchInv, ApprovalInv, DanglingInv
<1>2. /\ \A m \in Submissions, h \in Nodes, v \in Users :
           gate'[<<m, h, v>>] =
             IF m = n /\ h \in Then[g] /\ Unopened(rows, n, h) /\ v \in Assignees[h]
               THEN NewRow(h) ELSE rows[<<m, h, v>>]
      /\ run'[<<n, FlowOf[g]>>].parked = run[<<n, FlowOf[g]>>].parked
      /\ \A r \in RunKeys : r # <<n, FlowOf[g]>> =>
           IF Open(gate') = {} /\ run[r].status = "waiting" /\ run[r].parked # NoNode
             THEN run'[r].status = "completed" ELSE run'[r] = run[r]
  <2>1. FlowTypeOK  BY <1>1
  <2>2. QED  BY <2>1, ResumeReads
<1>3. /\ ran \subseteq ran' /\ Effects(n, g) \subseteq ran'
      /\ \A f \in Flows :
           (f # FlowOf[g] /\ Open(gate') = {} /\ run[<<n, f>>].status = "waiting"
              /\ run[<<n, f>>].parked # NoNode)
             => <<n, run[<<n, f>>].parked>> \in ran'
  <2>1. FlowTypeOK  BY <1>1
  <2>2. QED  BY <2>1, ResumeRuns
<1>4. /\ OneGateOpen(gate', n)
      /\ \A h \in Nodes : FlowOf[h] # FlowOf[g] =>
           /\ Created(gate', n, h) <=> Created(gate, n, h)
           /\ Decided(gate', n, h) <=> Decided(gate, n, h)
      /\ \A h \in Nodes : (h # g /\ Created(gate', n, h) /\ Decided(gate', n, h)) =>
           Created(gate, n, h) /\ Decided(gate, n, h)
  BY <1>2, AdvanceKeepsOneOpen
<1>5. \A f \in Flows : f # FlowOf[g] =>
        IF Open(gate') = {} /\ run[<<n, f>>].status = "waiting" /\ run[<<n, f>>].parked # NoNode
          THEN <<n, run[<<n, f>>].parked>> \in ran' ELSE run'[<<n, f>>] = run[<<n, f>>]
  <2> SUFFICES ASSUME NEW f \in Flows, f # FlowOf[g]
               PROVE  IF Open(gate') = {} /\ run[<<n, f>>].status = "waiting" /\ run[<<n, f>>].parked # NoNode
                        THEN <<n, run[<<n, f>>].parked>> \in ran' ELSE run'[<<n, f>>] = run[<<n, f>>]
    OBVIOUS
  <2>1. <<n, f>> \in RunKeys /\ <<n, f>> # <<n, FlowOf[g]>>  BY RunKeyFacts
  <2>2. QED  BY <1>2, <1>3, <2>1
<1>6. ParkedIsLast(run', gate', n)
  <2> SUFFICES ASSUME NEW f \in Flows, run'[<<n, f>>].parked # NoNode,
                      NEW h \in Nodes, FlowOf[h] = f
               PROVE  Decided(gate', n, h)
    BY DEF ParkedIsLast
  <2>1. f # FlowOf[g]  BY <1>1, <1>2
  <2>2. CASE Open(gate') = {}  BY <2>2, NothingOpen DEF Decided
  <2>3. CASE Open(gate') # {}
    <3>1. run'[<<n, f>>] = run[<<n, f>>]  BY <1>5, <2>1, <2>3
    <3>2. Decided(gate, n, h)  BY <1>1, <3>1 DEF ParkedIsLast
    <3>3. QED  BY <1>4, <2>1, <3>2
  <2>4. QED  BY <2>2, <2>3
<1>7. ActedOrParked(run', gate', ran', n)
  <2> SUFFICES ASSUME NEW h \in Acts, Created(gate', n, h), Decided(gate', n, h)
               PROVE  \/ <<n, h>> \in ran'
                      \/ run'[<<n, FlowOf[h]>>].status = "waiting" /\ run'[<<n, FlowOf[h]>>].parked = h
    BY DEF ActedOrParked
  <2>0. h \in Nodes /\ FlowOf[h] \in Flows /\ h # NoNode  BY FlowAssumption
  <2>1. CASE h = g  BY <1>3, <2>1 DEF Effects
  <2>2. CASE h # g
    <3>1. \/ <<n, h>> \in ran
          \/ run[<<n, FlowOf[h]>>].status = "waiting" /\ run[<<n, FlowOf[h]>>].parked = h
      BY <1>1, <1>4, <2>0, <2>2 DEF ActedOrParked
    <3>2. CASE <<n, h>> \in ran  BY <1>3, <3>2
    <3>3. CASE run[<<n, FlowOf[h]>>].status = "waiting" /\ run[<<n, FlowOf[h]>>].parked = h
      <4>1. FlowOf[h] # FlowOf[g]  BY <1>1, <2>0, <3>3
      <4>2. QED  BY <1>5, <2>0, <3>3, <4>1
    <3>4. QED  BY <3>1, <3>2, <3>3
  <2>3. QED  BY <2>1, <2>2
<1>8. QED  BY <1>1, <1>4, <1>6, <1>7 DEF BranchesAct

LEMMA DecideKeepsBranches ==
  ASSUME NoForks, BranchInv, NEW n \in Submissions, NEW g \in Nodes, NEW u \in Users,
         NEW decision \in Decisions, Decide(n, g, u, decision)
  PROVE  BranchesAct'
<1>1. /\ gate[<<n, g, u>>].status = "pending" /\ Live(n, FlowOf[g]) /\ submission' = submission
      /\ \/ KeepsWaiting(n, g, u)
         \/ RejectsAll(n, FlowOf[g])
         \/ \E rows \in Tables :
              /\ Closes(rows, n, g, u)
              /\ \/ Parks(rows, g) /\ Park(rows, n, FlowOf[g], g)
                 \/ ~Parks(rows, g) /\ ResumeApproved(rows, n, FlowOf[g], g)
  BY DecideShape DEF BranchInv, ApprovalInv, DanglingInv
<1>2. doc = "pending"  BY <1>1, BranchFacts
<1>3. CASE KeepsWaiting(n, g, u)  BY <1>1, <1>3, WaitingIsMove, GroupMoveKeepsBranches
<1>4. CASE RejectsAll(n, FlowOf[g])  BY <1>2, <1>4 DEF RejectsAll, BranchesAct
<1>5. CASE \E rows \in Tables :
              /\ Closes(rows, n, g, u)
              /\ \/ Parks(rows, g) /\ Park(rows, n, FlowOf[g], g)
                 \/ ~Parks(rows, g) /\ ResumeApproved(rows, n, FlowOf[g], g)
  BY <1>1, <1>5, ParkKeepsBranches, ResumeKeepsBranches
<1>6. QED  BY <1>1, <1>3, <1>4, <1>5

LEMMA BranchKept == ASSUME NoForks PROVE BranchInv /\ [Next]_vars => BranchInv'
<1> SUFFICES ASSUME BranchInv, [Next]_vars PROVE BranchesAct'
  BY ApprovalKept DEF BranchInv
<1>0. FlowTypeOK  BY DEF BranchInv, ApprovalInv, DanglingInv
<1>1. CASE \E M \in SUBSET Flows : Submit(M)  BY <1>1, SubmitKeepsBranches
<1>2. CASE WithdrawSubmission \/ ReturnToDraft
  BY <1>2 DEF WithdrawSubmission, ReturnToDraft, BackToDraft, BranchesAct
<1>3. CASE DecideSome  BY <1>3, DecideKeepsBranches DEF DecideSome
<1>4. ASSUME NEW n \in Submissions, NEW g \in Nodes, NEW u \in Users, NEW to \in Users,
             Delegate(n, g, u, to)
      PROVE  BranchesAct'
  <2>1. GroupMove(n, g) /\ gate[<<n, g, u>>].status = "pending"  BY <1>0, <1>4, DelegateReads
  <2>2. QED  BY <2>1, GroupMoveKeepsBranches
<1>5. ASSUME NEW n \in Submissions, NEW g \in Nodes, NEW u \in Users,
             NEW S \in SUBSET EscalateTo[g], Escalate(n, g, u, S)
      PROVE  BranchesAct'
  <2>1. GroupMove(n, g) /\ gate[<<n, g, u>>].status = "pending"  BY <1>0, <1>5, EscalateReads
  <2>2. QED  BY <2>1, GroupMoveKeepsBranches
<1>6. CASE UNCHANGED vars  BY <1>6 DEF vars, BranchInv, BranchesAct
<1>7. QED  BY <1>1, <1>2, <1>3, <1>4, <1>5, <1>6 DEF Next

LEMMA BranchesRan == BranchInv => EveryBranchRuns
<1> SUFFICES ASSUME BranchInv, doc = "approved", NEW g \in Acts, Matched(submission, FlowOf[g])
             PROVE  <<submission, g>> \in ran
  BY DEF EveryBranchRuns
<1>1. PICK n \in Submissions : n = submission
  BY DEF BranchInv, ApprovalInv, BranchesFollow
<1>2. g \in Nodes /\ FlowOf[g] \in Flows  BY FlowAssumption
<1>3. Created(gate, n, g) /\ Decided(gate, n, g)
  BY <1>1, <1>2, ReleaseReachesAll DEF BranchInv
<1>4. run[<<n, FlowOf[g]>>].status # "waiting"
  BY <1>2, RunKeyFacts DEF BranchInv, ApprovalInv, DanglingInv, NothingDangling, FlowTypeOK, RunKeys
<1>5. QED  BY <1>1, <1>3, <1>4 DEF BranchInv, BranchesAct, ActedOrParked

(* Where gates follow one another, the actions of every branch of every     *)
(* matching Flow have run once the document is approved, whichever of the   *)
(* Flows finishes last: what decideGate parked on another run is picked up  *)
(* by completeSubjectApprovalContinuations in the release.  Without NoForks *)
(* this is false: that call leaves out the run of the last decision, whose  *)
(* own parked branch is lost.                                               *)
THEOREM BranchesRunWithoutForks ==
  ASSUME NoForks
  PROVE  Spec => []EveryBranchRuns
<1>1. Init => BranchInv
  BY DanglingStarts DEF BranchInv, BranchesAct, ApprovalInv, BranchesFollow, Init
<1>2. BranchInv /\ [Next]_vars => BranchInv'  BY BranchKept
<1>3. QED  BY <1>1, <1>2, BranchesRan, PTL DEF Spec
=============================================================================
