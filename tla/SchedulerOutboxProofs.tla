------------------------- MODULE SchedulerOutboxProofs -------------------------
(***************************************************************************)
(* What SchedulerOutbox promises for every number of rows, processes,      *)
(* attempts and replays: its type invariant, that the terminal flag and    *)
(* its evidence go together, and that a delivered task stays delivered.    *)
(*                                                                         *)
(* EvidencePaired is not inductive: a count does not say which generation  *)
(* the next failure takes.  The invariant kept here is that generations    *)
(* are numbered without a gap (Numbered), and that only a failed row is    *)
(* terminal (TerminalFailed), so that no row that still runs is evidenced. *)
(***************************************************************************)
EXTENDS SchedulerOutbox, FiniteSetTheorems, TLAPS

(* The generations replayed and failed so far: 0, 1, ... without a gap, the *)
(* newest failure of a terminal row not replayed yet.                       *)
NumberedRow(old, a) ==
  \E k \in 0..MaxReplays :
    /\ a.replays = 0..(k - 1)
    /\ a.failures = 0..(IF old.terminal THEN k ELSE k - 1)

Numbered == \A r \in Rows : NumberedRow(row[r], audit[r])

TerminalFailed == \A r \in Rows : row[r].terminal => row[r].status = "failed"

EvidenceInv == OutboxTypeOK /\ Numbered /\ TerminalFailed

-----------------------------------------------------------------------------
(* A process between two passes has its type. *)
LEMMA IdleType == Idle \in Pass
<1>1. (CHOOSE r \in Rows : TRUE) \in Rows  BY OutboxAssumption DEF Rows
<1>2. QED  BY <1>1, OutboxAssumption DEF Idle, Pass, Outcomes

(* A process on its way to the next row of its snapshot has its type. *)
LEMMA ProceedType ==
  ASSUME NEW p \in Passes, pass \in [Passes -> Pass], Proceed(p)
  PROVE  pass' \in [Passes -> Pass]
<1>1. [Idle EXCEPT !.pc = "claim", !.todo = pass[p].todo] \in Pass  BY IdleType DEF Pass
<1>2. QED  BY <1>1 DEF Proceed

(* The greatest of 0, ..., k - 1, as Generation chooses it *)
LEMMA LastOf ==
  ASSUME NEW k \in Nat, k > 0
  PROVE  (CHOOSE g \in 0..(k - 1) : \A h \in 0..(k - 1) : h <= g) = k - 1
<1>1. k - 1 \in 0..(k - 1) /\ \A h \in 0..(k - 1) : h <= k - 1  OBVIOUS
<1>2. ASSUME NEW g \in 0..(k - 1), \A h \in 0..(k - 1) : h <= g
      PROVE  g = k - 1
  <2>1. k - 1 <= g  BY <1>1, <1>2
  <2>2. QED  BY <2>1
<1>3. QED  BY <1>1, <1>2

(* While a row is not terminal its next generation is the number of its     *)
(* replays, which has not been taken.                                       *)
LEMMA GenerationFree ==
  ASSUME NEW r \in Rows, NumberedRow(row[r], audit[r]), ~row[r].terminal
  PROVE  \E k \in 0..MaxReplays :
           /\ audit[r].replays = 0..(k - 1) /\ audit[r].failures = 0..(k - 1)
           /\ Generation(r) = k
<1>1. PICK k \in 0..MaxReplays : audit[r].replays = 0..(k - 1) /\ audit[r].failures = 0..(k - 1)
  BY DEF NumberedRow
<1>2. k \in Nat  BY OutboxAssumption
<1>3. CASE k = 0
  BY <1>1, <1>3 DEF Generation
<1>4. CASE k > 0
  <2>1. 0 \in audit[r].replays  BY <1>1, <1>2, <1>4
  <2>2. Generation(r) = 1 + (k - 1)  BY <2>1, <1>1, <1>2, <1>4, LastOf DEF Generation
  <2>3. QED  BY <2>2, <1>1, <1>2
<1>5. QED  BY <1>2, <1>3, <1>4

(* Evidence for rows that were not terminal and are now keeps the           *)
(* numbering, whatever else the step writes on the other rows' status.      *)
LEMMA EvidencedStep ==
  ASSUME NEW S \in SUBSET Rows, Evidenced(S),
         audit \in [Rows -> Audit], Numbered,
         \A r \in S : ~row[r].terminal /\ row'[r].terminal,
         \A r \in Rows \ S : row'[r].terminal = row[r].terminal
  PROVE  audit' \in [Rows -> Audit] /\ Numbered'
<1>1. ASSUME NEW r \in S
      PROVE  audit'[r] \in Audit /\ NumberedRow(row'[r], audit'[r])
  <2>1. PICK k \in 0..MaxReplays :
          /\ audit[r].replays = 0..(k - 1) /\ audit[r].failures = 0..(k - 1)
          /\ Generation(r) = k
    BY GenerationFree DEF Numbered
  <2>2. audit'[r] = [audit[r] EXCEPT !.failures = (0..(k - 1)) \cup {k}]
    BY <2>1 DEF Evidenced
  <2>3. (0..(k - 1)) \cup {k} = 0..k  BY <2>1, OutboxAssumption
  <2>4. r \in Rows /\ audit[r] \in Audit  OBVIOUS
  <2>5. audit'[r] = [failures |-> 0..k, replays |-> 0..(k - 1)]
    BY <2>1, <2>2, <2>3, <2>4 DEF Audit
  <2>6. 0..k \in SUBSET (0..MaxReplays) /\ 0..(k - 1) \in SUBSET (0..MaxReplays)
    BY <2>1, OutboxAssumption
  <2>7. audit'[r] \in Audit  BY <2>5, <2>6 DEF Audit
  <2>8. NumberedRow(row'[r], audit'[r])
    <3>1. row'[r].terminal  OBVIOUS
    <3>2. audit'[r].replays = 0..(k - 1) /\ audit'[r].failures = 0..k  BY <2>5
    <3>3. QED  BY <3>1, <3>2 DEF NumberedRow
  <2>9. QED  BY <2>7, <2>8
<1>2. ASSUME NEW r \in Rows \ S
      PROVE  audit'[r] \in Audit /\ NumberedRow(row'[r], audit'[r])
  BY DEF Evidenced, Numbered, NumberedRow
<1>3. audit' = [r \in Rows |-> audit'[r]]  BY DEF Evidenced
<1>4. QED  BY <1>1, <1>2, <1>3 DEF Numbered

(* A step that writes no terminal flag and no evidence keeps the numbering. *)
LEMMA NumberedKept ==
  ASSUME Numbered, audit' = audit, \A r \in Rows : row'[r].terminal = row[r].terminal
  PROVE  Numbered'
BY DEF Numbered, NumberedRow

LEMMA RecoverKeeps ==
  ASSUME EvidenceInv, NEW p \in Passes, Recover(p)
  PROVE  EvidenceInv'
<1> USE DEF EvidenceInv, OutboxTypeOK
<1> DEFINE S == {r \in Rows : Orphaned(r) /\ Ceiling(row[r].attempts)}
<1>1. ASSUME NEW r \in Rows
      PROVE  /\ row'[r] \in Row
             /\ row'[r].terminal => row'[r].status = "failed"
             /\ r \in S => ~row[r].terminal /\ row'[r].terminal
             /\ r \notin S => row'[r].terminal = row[r].terminal
  <2>1. row[r] \in Row  OBVIOUS
  <2>2. CASE ~Orphaned(r)
    BY <2>1, <2>2 DEF Recover, TerminalFailed
  <2>3. CASE Orphaned(r)
    <3>1. row[r].status = "running" /\ ~row[r].terminal  BY <2>3 DEF Orphaned, TerminalFailed
    <3>2. row'[r] = [row[r] EXCEPT !.status = "failed", !.lease = None, !.stale = FALSE, !.due = TRUE,
                           !.terminal = row[r].terminal \/ Ceiling(row[r].attempts)]
      BY <2>3 DEF Recover
    <3>3. QED  BY <2>1, <2>3, <3>1, <3>2, OutboxAssumption DEF Row, Ceiling
  <2>4. QED  BY <2>2, <2>3
<1>2. row' \in [Rows -> Row] /\ TerminalFailed'  BY <1>1 DEF Recover, TerminalFailed
<1>3. audit' \in [Rows -> Audit] /\ Numbered'
  <2>1. S \in SUBSET Rows /\ Evidenced(S)  BY DEF Recover
  <2>2. QED  BY <1>1, <2>1, EvidencedStep
<1>4. pass' \in [Passes -> Pass]  BY DEF Recover, Pass
<1>5. QED  BY <1>2, <1>3, <1>4

LEMMA ClaimKeeps ==
  ASSUME EvidenceInv, NEW p \in Passes, NEW r \in Rows, Claim(p, r)
  PROVE  EvidenceInv'
<1> USE DEF EvidenceInv, OutboxTypeOK
<1>1. row[r] \in Row /\ row[r].attempts + 1 \in 0..MaxAttempts /\ ~row[r].terminal
  BY OutboxAssumption DEF Claim, Claimable, Row
<1>2. row' \in [Rows -> Row] /\ \A t \in Rows : row'[t].terminal = row[t].terminal
  BY <1>1 DEF Claim, Row
<1>3. TerminalFailed'  BY <1>1, <1>2 DEF Claim, TerminalFailed, Row
<1>4. pass' \in [Passes -> Pass]  BY <1>1 DEF Claim, Pass
<1>5. QED  BY <1>2, <1>3, <1>4, NumberedKept DEF Claim

LEMMA MarkSucceededKeeps ==
  ASSUME EvidenceInv, NEW p \in Passes, MarkSucceeded(p)
  PROVE  EvidenceInv'
<1> USE DEF EvidenceInv, OutboxTypeOK
<1> DEFINE r == pass[p].row
<1>1. r \in Rows /\ row[r] \in Row /\ row[r].status = "running" /\ ~row[r].terminal
  BY DEF MarkSucceeded, Owns, Pass, TerminalFailed
<1>2. /\ row'[r] \in Row /\ row'[r].terminal = row[r].terminal
      /\ row' = [row EXCEPT ![r] = row'[r]]
  <2>1. CASE r \in Scans
    <3>1. row' = [row EXCEPT ![r] = ReArmed(row[r])]  BY <2>1 DEF MarkSucceeded
    <3>2. ReArmed(row[r]) \in Row /\ ReArmed(row[r]).terminal = row[r].terminal
      <4>1. 0 \in 0..MaxAttempts  BY OutboxAssumption
      <4>2. QED  BY <1>1, <4>1 DEF ReArmed, Row
    <3>3. QED  BY <1>1, <3>1, <3>2
  <2>2. CASE r \notin Scans
    <3>1. row' = [row EXCEPT ![r] = [row[r] EXCEPT !.status = "succeeded", !.lease = None, !.stale = FALSE]]
      BY <2>2 DEF MarkSucceeded
    <3>2. QED  BY <1>1, <3>1 DEF Row
  <2>3. QED  BY <2>1, <2>2
<1>3. row' \in [Rows -> Row] /\ \A t \in Rows : row'[t].terminal = row[t].terminal
  BY <1>1, <1>2
<1>4. TerminalFailed'  BY <1>1, <1>2, <1>3 DEF TerminalFailed
<1>5. pass' \in [Passes -> Pass]  BY ProceedType DEF MarkSucceeded
<1>6. QED  BY <1>3, <1>4, <1>5, NumberedKept DEF MarkSucceeded

LEMMA MarkFailedKeeps ==
  ASSUME EvidenceInv, NEW p \in Passes, MarkFailed(p)
  PROVE  EvidenceInv'
<1> USE DEF EvidenceInv, OutboxTypeOK
<1> DEFINE r == pass[p].row
           terminal == ~(pass[p].outcome = "tenant") /\ Ceiling(pass[p].attempts)
           S == IF terminal THEN {r} ELSE {}
<1>1. r \in Rows /\ row[r] \in Row /\ pass[p].attempts \in 0..MaxAttempts
      /\ row[r].status = "running" /\ ~row[r].terminal
  BY DEF MarkFailed, Owns, Pass, TerminalFailed
<1>2. row' = [row EXCEPT ![r] = [row[r] EXCEPT !.status = "failed", !.lease = None, !.stale = FALSE,
       !.due = FALSE, !.attempts = IF pass[p].outcome = "tenant" THEN 0 ELSE pass[p].attempts,
       !.terminal = row[r].terminal \/ terminal]]
  BY <1>1 DEF MarkFailed
<1>3. row'[r] \in Row /\ row'[r].status = "failed" /\ row'[r].terminal = terminal
  <2> DEFINE n == IF pass[p].outcome = "tenant" THEN 0 ELSE pass[p].attempts
             b == row[r].terminal \/ terminal
  <2>1. n \in 0..MaxAttempts /\ b \in BOOLEAN /\ b = terminal  BY <1>1, OutboxAssumption
  <2>2. row'[r] = [row[r] EXCEPT !.status = "failed", !.lease = None, !.stale = FALSE,
                                 !.due = FALSE, !.attempts = n, !.terminal = b]
    BY <1>1, <1>2
  <2> HIDE DEF n, b
  <2>3. QED  BY <1>1, <2>1, <2>2 DEF Row
<1>4. row' \in [Rows -> Row] /\ \A t \in Rows \ {r} : row'[t] = row[t]
  BY <1>1, <1>2, <1>3
<1>5. TerminalFailed'  BY <1>3, <1>4 DEF TerminalFailed
<1>6. audit' \in [Rows -> Audit] /\ Numbered'
  <2>1. S \in SUBSET Rows /\ Evidenced(S)  BY <1>1 DEF MarkFailed
  <2>2. \A t \in S : ~row[t].terminal /\ row'[t].terminal  BY <1>1, <1>3
  <2>3. \A t \in Rows \ S : row'[t].terminal = row[t].terminal
    BY <1>1, <1>3, <1>4 DEF Row
  <2>4. QED  BY <2>1, <2>2, <2>3, EvidencedStep
<1>7. pass' \in [Passes -> Pass]  BY ProceedType DEF MarkFailed
<1>8. QED  BY <1>4, <1>5, <1>6, <1>7

LEMMA ReplayKeeps ==
  ASSUME EvidenceInv, NEW r \in Rows, Replay(r)
  PROVE  EvidenceInv'
<1> USE DEF EvidenceInv, OutboxTypeOK
<1>1. row' \in [Rows -> Row] /\ ~row'[r].terminal /\ \A t \in Rows \ {r} : row'[t] = row[t]
  BY OutboxAssumption DEF Replay, Row
<1>2. TerminalFailed'  BY <1>1 DEF TerminalFailed
<1>3. PICK k \in 0..MaxReplays : audit[r].replays = 0..(k - 1) /\ audit[r].failures = 0..k
  BY DEF Replay, Numbered, NumberedRow
<1>4. k \in Nat /\ k < MaxReplays
  <2>1. k \in Nat  BY OutboxAssumption
  <2>2. Cardinality(0..(k - 1)) = k  BY <2>1, FS_Interval
  <2>3. QED  BY <1>3, <2>1, <2>2 DEF Replay
<1>5. PICK g \in audit[r].failures :
        /\ \A h \in audit[r].failures : h <= g
        /\ audit' = [audit EXCEPT ![r].replays = @ \cup {g}]
  BY DEF Replay
<1>6. g = k
  <2>1. k \in audit[r].failures /\ g \in 0..k  BY <1>3, <1>4
  <2>2. k <= g  BY <2>1, <1>5
  <2>3. QED  BY <2>1, <2>2, <1>4
<1>7. (0..(k - 1)) \cup {k} = 0..k  BY <1>4
<1>8. audit'[r] = [failures |-> 0..k, replays |-> 0..k]
      /\ \A t \in Rows \ {r} : audit'[t] = audit[t]
  BY <1>3, <1>5, <1>6, <1>7 DEF Audit
<1>9. audit' \in [Rows -> Audit]
  <2>1. 0..k \in SUBSET (0..MaxReplays)  BY <1>4, OutboxAssumption
  <2>2. audit'[r] \in Audit  BY <1>8, <2>1 DEF Audit
  <2>3. QED  BY <1>5, <1>8, <2>2
<1>10. NumberedRow(row'[r], audit'[r])
  <2>1. k + 1 \in 0..MaxReplays /\ (k + 1) - 1 = k  BY <1>4, OutboxAssumption
  <2>2. audit'[r].replays = 0..((k + 1) - 1) /\ audit'[r].failures = 0..((k + 1) - 1)
    BY <1>8, <2>1
  <2>3. QED  BY <1>1, <2>1, <2>2 DEF NumberedRow
<1>11. Numbered'  BY <1>1, <1>8, <1>10 DEF Numbered
<1>12. QED  BY <1>1, <1>2, <1>9, <1>11 DEF Replay

(* The steps of one process that touch neither rows nor evidence *)
LEMMA InMemoryKeeps ==
  ASSUME EvidenceInv, NEW p \in Passes, UNCHANGED <<row, audit>>, pass' \in [Passes -> Pass]
  PROVE  EvidenceInv'
BY DEF EvidenceInv, OutboxTypeOK, Numbered, NumberedRow, TerminalFailed

LEMMA EvidenceStep == EvidenceInv /\ [Next]_vars => EvidenceInv'
<1> SUFFICES ASSUME EvidenceInv, [Next]_vars PROVE EvidenceInv'
  OBVIOUS
<1>1. ASSUME NEW p \in Passes, SelectDue(p) PROVE EvidenceInv'
  <2>1. {r \in Rows : Claimable(r) /\ row[r].due} \in SUBSET Rows  OBVIOUS
  <2>2. pass' \in [Passes -> Pass]
    BY <1>1, <2>1 DEF SelectDue, EvidenceInv, OutboxTypeOK, Pass
  <2>3. QED  BY <1>1, <2>2, InMemoryKeeps DEF SelectDue
<1>2. ASSUME NEW p \in Passes, NEW r \in Rows, Skip(p, r) PROVE EvidenceInv'
  <2>1. pass' \in [Passes -> Pass]  BY <1>2 DEF Skip, EvidenceInv, OutboxTypeOK, Pass
  <2>2. QED  BY <1>2, <2>1, InMemoryKeeps DEF Skip
<1>3. ASSUME NEW p \in Passes, EndPass(p) \/ Crash(p) PROVE EvidenceInv'
  <2>1. pass' \in [Passes -> Pass]
    BY <1>3, IdleType DEF EndPass, Crash, EvidenceInv, OutboxTypeOK
  <2>2. QED  BY <1>3, <2>1, InMemoryKeeps DEF EndPass, Crash
<1>4. ASSUME NEW p \in Passes, RunWork(p) PROVE EvidenceInv'
  <2>1. PICK o \in Outcomes : pass' = [pass EXCEPT ![p].pc = "mark", ![p].outcome = o]
    BY <1>4 DEF RunWork
  <2>2. pass' \in [Passes -> Pass]  BY <2>1 DEF EvidenceInv, OutboxTypeOK, Pass
  <2>3. QED  BY <1>4, <2>2, InMemoryKeeps DEF RunWork
<1>5. ASSUME NEW p \in Passes, Fenced(p) PROVE EvidenceInv'
  <2>1. pass' \in [Passes -> Pass]
    BY <1>5, ProceedType DEF Fenced, EvidenceInv, OutboxTypeOK
  <2>2. QED  BY <1>5, <2>1, InMemoryKeeps DEF Fenced
<1>6. ASSUME NEW r \in Rows, ComeDue(r) \/ GoStale(r) PROVE EvidenceInv'
  <2> USE DEF EvidenceInv, OutboxTypeOK
  <2>1. row[r] \in Row /\ \E d \in BOOLEAN :
          row' = [row EXCEPT ![r].due = d] \/ row' = [row EXCEPT ![r].stale = d]
    BY <1>6 DEF ComeDue, GoStale
  <2>2. row'[r] \in Row /\ row'[r].terminal = row[r].terminal /\ row'[r].status = row[r].status
    BY <2>1 DEF Row
  <2>3. row' \in [Rows -> Row] /\ \A t \in Rows : row'[t].terminal = row[t].terminal
                               /\ row'[t].status = row[t].status
    BY <2>1, <2>2
  <2>4. audit' = audit /\ pass' = pass  BY <1>6 DEF ComeDue, GoStale
  <2>5. QED  BY <2>3, <2>4, NumberedKept DEF TerminalFailed
<1>7. CASE UNCHANGED vars
  BY <1>7 DEF vars, EvidenceInv, OutboxTypeOK, Numbered, NumberedRow, TerminalFailed
<1>8. QED
  BY <1>1, <1>2, <1>3, <1>4, <1>5, <1>6, <1>7, RecoverKeeps, ClaimKeeps, MarkSucceededKeeps,
     MarkFailedKeeps, ReplayKeeps
     DEF Next, Step

LEMMA EvidenceInit == Init => EvidenceInv
<1> SUFFICES ASSUME Init PROVE EvidenceInv
  OBVIOUS
<1>1. row \in [Rows -> Row] /\ TerminalFailed
  BY OutboxAssumption DEF Init, Row, TerminalFailed
<1>2. audit \in [Rows -> Audit]  BY DEF Init, Audit
<1>3. pass \in [Passes -> Pass]  BY IdleType DEF Init
<1>4. ASSUME NEW r \in Rows PROVE NumberedRow(row[r], audit[r])
  <2>1. 0 \in 0..MaxReplays /\ 0..(0 - 1) = {}  BY OutboxAssumption
  <2>2. audit[r].replays = {} /\ audit[r].failures = {} /\ ~row[r].terminal  BY DEF Init
  <2>3. QED  BY <2>1, <2>2 DEF NumberedRow
<1>5. QED  BY <1>1, <1>2, <1>3, <1>4 DEF EvidenceInv, OutboxTypeOK, Numbered

-----------------------------------------------------------------------------
(* Every row, its evidence and every process keeps its type: attempts stop  *)
(* at the ceiling and generations at the replays.                           *)
THEOREM TypeCorrect == Spec => []OutboxTypeOK
<1>1. EvidenceInv => OutboxTypeOK  BY DEF EvidenceInv
<1>2. QED  BY <1>1, EvidenceInit, EvidenceStep, PTL DEF Spec

(* Terminal and evidenced go together, through crash recovery, replays and  *)
(* second failures (insertTerminalFailureEvidence and                       *)
(* replayTerminalSchedulerOutbox).                                          *)
THEOREM EvidenceIsPaired == Spec => []EvidencePaired
<1>1. EvidenceInv => EvidencePaired
  <2> SUFFICES ASSUME EvidenceInv, NEW r \in Rows
               PROVE  Cardinality(audit[r].failures) =
                        Cardinality(audit[r].replays) + (IF row[r].terminal THEN 1 ELSE 0)
    BY DEF EvidencePaired
  <2>1. PICK k \in 0..MaxReplays :
          /\ audit[r].replays = 0..(k - 1)
          /\ audit[r].failures = 0..(IF row[r].terminal THEN k ELSE k - 1)
    BY DEF EvidenceInv, Numbered, NumberedRow
  <2>2. k \in Nat  BY OutboxAssumption
  <2>3. Cardinality(0..(k - 1)) = k /\ Cardinality(0..k) = k + 1  BY <2>2, FS_Interval
  <2>4. QED  BY <2>1, <2>2, <2>3
<1>2. QED  BY <1>1, EvidenceInit, EvidenceStep, PTL DEF Spec

(* A delivered one-shot task stays delivered: every write of a pass is      *)
(* fenced by the running status or by a status that may be claimed, and a   *)
(* replay needs a terminal row, which a delivered one never is.             *)
THEOREM DeliveredIsFinal == Spec => SucceededIsFinal
<1>1. EvidenceInv /\ [Next]_vars => [\A r \in Rows : row[r].status = "succeeded" => row'[r] = row[r]]_vars
  <2> SUFFICES ASSUME EvidenceInv, Next, NEW r \in Rows, row[r].status = "succeeded"
               PROVE  row'[r] = row[r]
    OBVIOUS
  <2> USE DEF EvidenceInv, OutboxTypeOK
  <2>1. ~row[r].terminal  BY DEF TerminalFailed
  <2>2. ASSUME NEW p \in Passes, Recover(p) PROVE row'[r] = row[r]
    BY <2>2 DEF Recover, Orphaned
  <2>3. ASSUME NEW p \in Passes, NEW t \in Rows, Claim(p, t) PROVE row'[r] = row[r]
    BY <2>3 DEF Claim, Claimable
  <2>4. ASSUME NEW p \in Passes, MarkSucceeded(p) \/ MarkFailed(p) PROVE row'[r] = row[r]
    BY <2>4 DEF MarkSucceeded, MarkFailed, Owns
  <2>5. ASSUME NEW t \in Rows, Replay(t) \/ ComeDue(t) \/ GoStale(t) PROVE row'[r] = row[r]
    BY <2>1, <2>5 DEF Replay, ComeDue, GoStale
  <2>6. ASSUME NEW p \in Passes, NEW t \in Rows,
               SelectDue(p) \/ EndPass(p) \/ RunWork(p) \/ Fenced(p) \/ Skip(p, t) \/ Crash(p)
        PROVE  row'[r] = row[r]
    BY <2>6 DEF SelectDue, EndPass, RunWork, Fenced, Skip, Crash
  <2>7. QED  BY <2>2, <2>3, <2>4, <2>5, <2>6 DEF Next, Step
<1>2. QED  BY <1>1, EvidenceInit, EvidenceStep, PTL DEF Spec, SucceededIsFinal
=============================================================================
