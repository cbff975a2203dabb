------------------------ MODULE ScriptOccurrencesProofs ------------------------
(***************************************************************************)
(* What ScriptOccurrences promises for every number of ticks, scheduler    *)
(* processes and workers, however often a tick lock is lost: its types,    *)
(* that an occurrence is closed only by its own execution or by a Run now  *)
(* after its claim, and that no occurrence is dispatched more than twice.  *)
(*                                                                         *)
(* The dispatch count is not inductive.  What is kept is a budget per row: *)
(* the dispatches made and the ones some process still holds never exceed  *)
(* what the row's status allows, no two processes hold the same dispatch,  *)
(* and the ticks from the cursor on are untouched.                         *)
(***************************************************************************)
EXTENDS ScriptOccurrences, TLAPS

(* s is about to dispatch occurrence t for the a-th time. *)
Holds(s, t, a) == At(s, "dispatch") /\ scanner[s].tick = t /\ scanner[s].attempt = a

InHand(t, a) == IF \E s \in Scanners : Holds(s, t, a) THEN 1 ELSE 0

Allowed(status) == CASE status = "none" -> 0 [] status = "queued" -> 1 [] OTHER -> 2

Budget ==
  \A t \in Ticks : row[t].dispatched + InHand(t, 1) + InHand(t, 2) <= Allowed(row[t].status)

HeldOnce ==
  \A t \in Ticks, a \in Dispatches, s, o \in Scanners : Holds(s, t, a) /\ Holds(o, t, a) => s = o

RetryMarked ==
  \A t \in Ticks, s \in Scanners : Holds(s, t, 2) => row[t].status \notin {"none", "queued"}

Untouched == \A t \in Ticks : t >= cursor => row[t].status = "none"

DispatchInv == OccurrenceTypeOK /\ Budget /\ HeldOnce /\ RetryMarked /\ Untouched

(* Evidence is written after the execution it reports, and a process that   *)
(* is about to close an occurrence has that evidence in hand.               *)
EvidenceInv ==
  /\ OccurrenceTypeOK
  /\ ClosedByRunSince
  /\ \A t \in Ticks : evidence[t] # {} => t \in ran
  /\ \A s \in Scanners :
       /\ At(s, "ran") => scanner[s].tick \in ran
       /\ (At(s, "close") /\ scanner[s].outcome # "lost")
            => scanner[s].outcome \in evidence[scanner[s].tick]
  /\ \A w \in Workers : worker[w].pc = "record" => worker[w].tick \in ran

-----------------------------------------------------------------------------
LEMMA IdleTypes == IdleScanner \in Scanner /\ IdleWorker \in Worker
<1>1. 1 \in Ticks /\ 1 \in 1..(LastTick + 1) /\ 0 \in 0..CatchUp /\ 1 \in Dispatches
  BY OccurrenceAssumption DEF Ticks, Dispatches
<1>2. QED  BY <1>1 DEF IdleScanner, IdleWorker, Scanner, Worker, Outcomes

(* Going back to the loop a dispatch came from keeps the process's type. *)
LEMMA ReturnType ==
  ASSUME NEW s \in Scanners, scanner \in [Scanners -> Scanner], Return(s)
  PROVE  scanner' \in [Scanners -> Scanner]
<1>1. 1 \in Ticks /\ 1 \in Dispatches  BY OccurrenceAssumption DEF Ticks, Dispatches
<1> DEFINE pc == IF scanner[s].attempt = 2 THEN "retry" ELSE "claim"
<1>2. pc \in {"retry", "claim"}  OBVIOUS
<1>3. scanner' = [scanner EXCEPT ![s] =
                    [scanner[s] EXCEPT !.pc = pc, !.tick = 1, !.attempt = 1, !.outcome = "ok"]]
  BY DEF Return
<1> HIDE DEF pc
<1>4. [scanner[s] EXCEPT !.pc = pc, !.tick = 1, !.attempt = 1, !.outcome = "ok"] \in Scanner
  <2>1. scanner[s] \in Scanner  OBVIOUS
  <2>2. QED  BY <1>1, <1>2, <2>1 DEF Scanner, Outcomes
<1>5. QED  BY <1>3, <1>4

(* A process goes to another statement. *)
LEMMA GotoType ==
  ASSUME NEW s \in Scanners, scanner \in [Scanners -> Scanner],
         NEW pc \in {"select", "scan", "inline", "ran"}, Goto(s, pc)
  PROVE  scanner' \in [Scanners -> Scanner]
BY DEF Goto, Scanner

(* The rows a step closes or ages keep their type. *)
LEMMA RowStatusType ==
  ASSUME NEW old \in Row, NEW status \in {"queued", "dispatch_retry", "lost"} \cup Outcomes
  PROVE  [old EXCEPT !.status = status] \in Row
BY DEF Row

(* A job of the queue changes its state. *)
LEMMA JobStateType ==
  ASSUME job \in [Ticks -> [Dispatches -> Job]], NEW t \in Ticks, NEW a \in Dispatches,
         NEW state \in {"none", "waiting", "active", "done"}
  PROVE  [job EXCEPT ![t][a].state = state] \in [Ticks -> [Dispatches -> Job]]
<1>1. job[t] \in [Dispatches -> Job] /\ job[t][a] \in Job  OBVIOUS
<1>2. [job[t][a] EXCEPT !.state = state] \in Job  BY <1>1 DEF Job
<1>3. [job EXCEPT ![t][a].state = state]
        = [job EXCEPT ![t] = [job[t] EXCEPT ![a] = [job[t][a] EXCEPT !.state = state]]]
  OBVIOUS
<1>4. QED  BY <1>1, <1>2, <1>3

LEMMA JobEndedType ==
  ASSUME OccurrenceTypeOK, NEW w \in Workers
  PROVE  Ended(w) \in [Ticks -> [Dispatches -> Job]]
<1>1. worker[w].tick \in Ticks /\ worker[w].attempt \in Dispatches
  BY DEF OccurrenceTypeOK, Worker
<1>2. QED  BY <1>1, JobStateType DEF OccurrenceTypeOK, Ended

LEMMA TypeInit == Init => OccurrenceTypeOK
<1> SUFFICES ASSUME Init PROVE OccurrenceTypeOK
  OBVIOUS
<1>1. [status |-> "none", age |-> 0, dispatched |-> 0, nth |-> 1] \in Row
  BY OccurrenceAssumption DEF Row
<1>2. [state |-> "none", stalled |-> 0] \in Job
  BY OccurrenceAssumption DEF Job
<1>3. QED  BY <1>1, <1>2, IdleTypes, OccurrenceAssumption DEF Init, OccurrenceTypeOK

LEMMA TypeStep == OccurrenceTypeOK /\ [Next]_vars => OccurrenceTypeOK'
<1> SUFFICES ASSUME OccurrenceTypeOK, [Next]_vars PROVE OccurrenceTypeOK'
  OBVIOUS
<1> USE DEF OccurrenceTypeOK
<1>1. ASSUME NEW s \in Scanners, Mirror(s) PROVE OccurrenceTypeOK'
  <2>1. PICK status \in [Ticks -> Outcomes] :
          row' = [t \in Ticks |-> IF Open(t) /\ IsStale(t) /\ ClosedBy(t) # {}
                                    THEN [row[t] EXCEPT !.status = status[t]] ELSE row[t]]
    BY <1>1 DEF Mirror
  <2>2. row' \in [Ticks -> Row]  BY <2>1, RowStatusType
  <2>3. scanner' \in [Scanners -> Scanner]  BY <1>1 DEF Mirror, Scanner
  <2>4. QED  BY <1>1, <2>2, <2>3 DEF Mirror
<1>2. ASSUME NEW s \in Scanners, StampLost(s) PROVE OccurrenceTypeOK'
  <2>1. row' \in [Ticks -> Row]  BY <1>2, RowStatusType DEF StampLost
  <2>2. scanner' \in [Scanners -> Scanner]  BY <1>2, GotoType DEF StampLost
  <2>3. QED  BY <1>2, <2>1, <2>2 DEF StampLost
<1>3. ASSUME NEW s \in Scanners, SelectStale(s) PROVE OccurrenceTypeOK'
  <2>1. {t \in Ticks : row[t].status = "queued" /\ IsStale(t)} \in SUBSET Ticks  OBVIOUS
  <2>2. scanner' \in [Scanners -> Scanner]
    <3>1. PICK late \in SUBSET Ticks :
            scanner' = [scanner EXCEPT ![s] = [scanner[s] EXCEPT !.pc = "retry", !.stale = late]]
      BY <1>3, <2>1 DEF SelectStale
    <3>2. [scanner[s] EXCEPT !.pc = "retry", !.stale = late] \in Scanner  BY DEF Scanner
    <3>3. QED  BY <3>1, <3>2
  <2>3. QED  BY <1>3, <2>2 DEF SelectStale
<1>4. ASSUME NEW s \in Scanners, Retry(s) PROVE OccurrenceTypeOK'
  <2>1. CASE Goto(s, "scan") /\ UNCHANGED row
    BY <1>4, <2>1, GotoType DEF Retry
  <2>2. ASSUME NEW t \in scanner[s].stale,
               scanner' = [scanner EXCEPT ![s] = [scanner[s] EXCEPT !.stale = @ \ {t}]],
               UNCHANGED row
        PROVE  OccurrenceTypeOK'
    <3>1. scanner' \in [Scanners -> Scanner]
      <4>1. [scanner[s] EXCEPT !.stale = @ \ {t}] \in Scanner
        <5>1. scanner[s] \in Scanner /\ scanner[s].stale \ {t} \in SUBSET Ticks  BY DEF Scanner
        <5>2. QED  BY <5>1 DEF Scanner
      <4>2. QED  BY <2>2, <4>1
    <3>2. QED  BY <1>4, <2>2, <3>1 DEF Retry
  <2>3. ASSUME NEW t \in scanner[s].stale,
               row' = [row EXCEPT ![t].status = "dispatch_retry"],
               scanner' = [scanner EXCEPT ![s] = [[scanner[s] EXCEPT !.stale = @ \ {t}]
                             EXCEPT !.pc = "dispatch", !.tick = t, !.attempt = 2]]
        PROVE  OccurrenceTypeOK'
    <3>1. t \in Ticks  BY DEF Scanner
    <3>2. row' \in [Ticks -> Row]  BY <2>3, <3>1, RowStatusType
    <3>3. scanner' \in [Scanners -> Scanner]
      <4> DEFINE late == scanner[s].stale \ {t}
      <4>1. scanner[s] \in Scanner /\ late \in SUBSET Ticks /\ 2 \in Dispatches
        BY DEF Scanner, Dispatches
      <4>2. scanner' = [scanner EXCEPT ![s] =
              [scanner[s] EXCEPT !.stale = late, !.pc = "dispatch", !.tick = t, !.attempt = 2]]
        BY <2>3
      <4> HIDE DEF late
      <4>3. [scanner[s] EXCEPT !.stale = late, !.pc = "dispatch", !.tick = t, !.attempt = 2] \in Scanner
        BY <3>1, <4>1 DEF Scanner
      <4>4. QED  BY <4>2, <4>3
    <3>4. QED  BY <1>4, <3>2, <3>3 DEF Retry
  <2>4. QED  BY <1>4, <2>1, <2>2, <2>3 DEF Retry
<1>5. ASSUME NEW s \in Scanners, ScanDue(s) PROVE OccurrenceTypeOK'
  <2>1. [scanner[s] EXCEPT !.pc = "claim", !.next = cursor, !.left = CatchUp] \in Scanner
    <3>1. scanner[s] \in Scanner /\ cursor \in 1..(LastTick + 1) /\ CatchUp \in 0..CatchUp
      BY OccurrenceAssumption
    <3>2. QED  BY <3>1 DEF Scanner
  <2>2. scanner' \in [Scanners -> Scanner]  BY <1>5, <2>1, IdleTypes DEF ScanDue
  <2>3. QED  BY <1>5, <2>2 DEF ScanDue
<1>6. ASSUME NEW s \in Scanners, ClaimOccurrence(s) PROVE OccurrenceTypeOK'
  <2> DEFINE t == scanner[s].next
  <2>1. CASE /\ scanner[s].left > 0 /\ t <= fired /\ cursor = t /\ cursor' = t + 1
             /\ row' = Inserted(t, CatchUp - scanner[s].left + 1)
             /\ scanner' = [scanner EXCEPT ![s].pc = "dispatch", ![s].tick = t, ![s].attempt = 1,
                                           ![s].next = t + 1, ![s].left = @ - 1]
    <3>1. t \in Ticks /\ t + 1 \in 1..(LastTick + 1) /\ scanner[s].left - 1 \in 0..CatchUp
      BY <2>1, OccurrenceAssumption DEF Scanner, Ticks
    <3>2. row' \in [Ticks -> Row]
      <4>1. PICK nth \in 1..CatchUp : nth = CatchUp - scanner[s].left + 1
        BY <2>1, OccurrenceAssumption DEF Scanner
      <4>2. [row[t] EXCEPT !.status = "queued", !.nth = nth] \in Row  BY <3>1 DEF Row
      <4>3. row' = [row EXCEPT ![t] = [row[t] EXCEPT !.status = "queued", !.nth = nth]]
        BY <2>1, <3>1, <4>1 DEF Inserted
      <4>4. QED  BY <3>1, <4>2, <4>3
    <3>3. scanner' \in [Scanners -> Scanner]  BY <2>1, <3>1 DEF Scanner, Dispatches
    <3>4. QED  BY <1>6, <2>1, <3>1, <3>2, <3>3 DEF ClaimOccurrence
  <2>2. CASE scanner' = [scanner EXCEPT ![s] = IdleScanner] /\ UNCHANGED <<cursor, row>>
    BY <1>6, <2>2, IdleTypes DEF ClaimOccurrence
  <2>3. QED  BY <1>6, <2>1, <2>2 DEF ClaimOccurrence
<1>7. ASSUME NEW s \in Scanners, Dispatch(s) PROVE OccurrenceTypeOK'
  <2> DEFINE t == scanner[s].tick
             a == scanner[s].attempt
             state == IF job[t][a].state = "none" THEN "waiting" ELSE job[t][a].state
             added == [job EXCEPT ![t][a].state = state]
  <2>1. t \in Ticks /\ a \in Dispatches  BY DEF Scanner
  <2>2. row' \in [Ticks -> Row]
    <3>1. row[t].dispatched + 1 \in Nat  BY <2>1 DEF Row
    <3>2. [row[t] EXCEPT !.dispatched = @ + 1] \in Row  BY <2>1, <3>1 DEF Row
    <3>3. QED  BY <1>7, <2>1, <3>2 DEF Dispatch
  <2>3. added \in [Ticks -> [Dispatches -> Job]]
    <3>1. job[t][a] \in Job /\ state \in {"none", "waiting", "active", "done"}
      BY <2>1 DEF Job
    <3> HIDE DEF state
    <3>2. QED  BY <2>1, <3>1 DEF Job
  <2>4. job' = added \/ job' = job  BY <1>7 DEF Dispatch
  <2>5. Return(s) \/ Goto(s, "inline")  BY <1>7 DEF Dispatch
  <2>6. scanner' \in [Scanners -> Scanner]  BY <2>5, ReturnType, GotoType
  <2>7. QED  BY <1>7, <2>2, <2>3, <2>4, <2>6 DEF Dispatch
<1>8. ASSUME NEW s \in Scanners, RunInline(s) PROVE OccurrenceTypeOK'
  <2>1. scanner' \in [Scanners -> Scanner]  BY <1>8, GotoType DEF RunInline
  <2>2. scanner[s].tick \in Ticks  BY DEF Scanner
  <2>3. QED  BY <1>8, <2>1, <2>2 DEF RunInline
<1>9. ASSUME NEW s \in Scanners, RecordInline(s) PROVE OccurrenceTypeOK'
  <2>1. PICK outcome \in Outcomes :
          /\ evidence' = [evidence EXCEPT ![scanner[s].tick] = @ \cup {outcome}]
          /\ scanner' = [scanner EXCEPT ![s].pc = "close", ![s].outcome = outcome]
    BY <1>9 DEF RecordInline
  <2>2. scanner' \in [Scanners -> Scanner]
    <3>1. [scanner[s] EXCEPT !.pc = "close", !.outcome = outcome] \in Scanner  BY DEF Scanner
    <3>2. QED  BY <2>1, <3>1
  <2>3. evidence' \in [Ticks -> SUBSET Outcomes]  BY <2>1
  <2>4. QED  BY <1>9, <2>2, <2>3 DEF RecordInline
<1>10. ASSUME NEW s \in Scanners, InlineFails(s) PROVE OccurrenceTypeOK'
  <2>1. HostFailed(s) \in [Scanners -> Scanner]
    <3>1. [scanner[s] EXCEPT !.pc = "close", !.outcome = "lost"] \in Scanner  BY DEF Scanner
    <3>2. QED  BY <3>1 DEF HostFailed
  <2>2. scanner' \in [Scanners -> Scanner]  BY <1>10, <2>1, ReturnType DEF InlineFails
  <2>3. QED  BY <1>10, <2>2 DEF InlineFails
<1>11. ASSUME NEW s \in Scanners, Finalize(s) PROVE OccurrenceTypeOK'
  <2>1. scanner[s].tick \in Ticks /\ scanner[s].outcome \in Outcomes \cup {"lost"}  BY DEF Scanner
  <2>2. row' \in [Ticks -> Row]  BY <1>11, <2>1, RowStatusType DEF Finalize
  <2>3. scanner' \in [Scanners -> Scanner]  BY <1>11, ReturnType DEF Finalize
  <2>4. QED  BY <1>11, <2>2, <2>3 DEF Finalize
<1>12. ASSUME NEW w \in Workers, NEW t \in Ticks, NEW a \in Dispatches, TakeJob(w, t, a)
       PROVE  OccurrenceTypeOK'
  <2>1. job' \in [Ticks -> [Dispatches -> Job]]  BY <1>12, JobStateType DEF TakeJob
  <2>2. worker' \in [Workers -> Worker]  BY <1>12 DEF TakeJob, Worker
  <2>3. QED  BY <1>12, <2>1, <2>2 DEF TakeJob
<1>13. ASSUME NEW w \in Workers, RunSource(w) PROVE OccurrenceTypeOK'
  <2>1. worker' \in [Workers -> Worker] /\ worker[w].tick \in Ticks  BY <1>13 DEF RunSource, Worker
  <2>2. QED  BY <1>13, <2>1 DEF RunSource
<1>14. ASSUME NEW w \in Workers, RecordRun(w) PROVE OccurrenceTypeOK'
  <2>1. PICK outcome \in Outcomes :
          evidence' = [evidence EXCEPT ![worker[w].tick] = @ \cup {outcome}]
    BY <1>14 DEF RecordRun
  <2>2. evidence' \in [Ticks -> SUBSET Outcomes]  BY <2>1
  <2>3. worker' \in [Workers -> Worker]  BY <1>14, IdleTypes DEF RecordRun
  <2>4. QED  BY <1>14, <2>2, <2>3, JobEndedType DEF RecordRun
<1>15. ASSUME NEW w \in Workers, JobFails(w) PROVE OccurrenceTypeOK'
  <2>1. worker' \in [Workers -> Worker]  BY <1>15, IdleTypes DEF JobFails
  <2>2. QED  BY <1>15, <2>1, JobEndedType DEF JobFails
<1>16. ASSUME NEW w \in Workers, CrashWorker(w) PROVE OccurrenceTypeOK'
  <2> DEFINE t == worker[w].tick
             a == worker[w].attempt
             j == job[t][a]
             next == IF j.stalled < MaxStalled THEN [state |-> "waiting", stalled |-> j.stalled + 1]
                                               ELSE [j EXCEPT !.state = "done"]
  <2>1. t \in Ticks /\ a \in Dispatches  BY DEF Worker
  <2>2. next \in Job
    <3>1. j \in Job  BY <2>1
    <3>2. QED  BY <3>1, OccurrenceAssumption DEF Job
  <2>3. job' = [job EXCEPT ![t][a] = next]  BY <1>16 DEF CrashWorker
  <2> HIDE DEF next
  <2>4. job' \in [Ticks -> [Dispatches -> Job]]  BY <2>1, <2>2, <2>3
  <2>5. worker' \in [Workers -> Worker]  BY <1>16, IdleTypes DEF CrashWorker
  <2>6. QED  BY <1>16, <2>4, <2>5 DEF CrashWorker
<1>17. ASSUME NEW s \in Scanners, LoseLock(s) \/ CrashScanner(s) PROVE OccurrenceTypeOK'
  <2>1. scanner' \in [Scanners -> Scanner]
    <3>1. [scanner[s] EXCEPT !.held = FALSE] \in Scanner  BY DEF Scanner
    <3>2. QED  BY <1>17, <3>1, IdleTypes DEF LoseLock, CrashScanner
  <2>2. QED  BY <1>17, <2>1 DEF LoseLock, CrashScanner
<1>18. CASE PassTime
  <2>1. ASSUME NEW old \in Row PROVE [old EXCEPT !.age = Older(@)] \in Row
    <3>1. Older(old.age) \in 0..(Stale + 1)  BY OccurrenceAssumption DEF Older, Row
    <3>2. QED  BY <3>1 DEF Row
  <2>2. row' \in [Ticks -> Row]  BY <1>18, <2>1 DEF PassTime
  <2>3. fired' \in 0..LastTick  BY <1>18 DEF PassTime
  <2>4. QED  BY <1>18, <2>2, <2>3 DEF PassTime
<1>19. CASE RunNow
  <2>1. cursor' \in 1..(LastTick + 1)  BY <1>19, OccurrenceAssumption DEF RunNow
  <2>2. unlinked' \in [Ticks -> Outcomes \cup {"none"}]  BY <1>19 DEF RunNow
  <2>3. QED  BY <1>19, <2>1, <2>2 DEF RunNow
<1>20. CASE UNCHANGED vars  BY <1>20 DEF vars
<1>21. QED
  BY <1>1, <1>2, <1>3, <1>4, <1>5, <1>6, <1>7, <1>8, <1>9, <1>10, <1>11, <1>12, <1>13, <1>14,
     <1>15, <1>16, <1>17, <1>18, <1>19, <1>20 DEF Next, Scan, Execute

(* Every row, job and process keeps its type. *)
THEOREM TypeCorrect == Spec => []OccurrenceTypeOK
BY TypeInit, TypeStep, PTL DEF Spec
-----------------------------------------------------------------------------
(* A process is where it was, or somewhere it closes nothing. *)
CalmScanner(o) ==
  \/ /\ scanner'[o].pc = scanner[o].pc /\ scanner'[o].tick = scanner[o].tick
     /\ scanner'[o].outcome = scanner[o].outcome
  \/ scanner'[o].pc \notin {"ran", "close"}
  \/ scanner'[o].pc = "close" /\ scanner'[o].outcome = "lost"

CalmWorker(w) == worker'[w] = worker[w] \/ worker'[w].pc # "record"

(* No row is closed with an outcome. *)
CalmRow(t) == row'[t].status \in {row[t].status, "queued", "dispatch_retry", "lost"}

LEMMA EvidenceCalm ==
  ASSUME EvidenceInv, OccurrenceTypeOK', UNCHANGED <<ran, evidence, unlinked>>,
         \A t \in Ticks : CalmRow(t), \A o \in Scanners : CalmScanner(o),
         \A w \in Workers : CalmWorker(w)
  PROVE  EvidenceInv'
<1>1. ClosedByRunSince'
  BY DEF EvidenceInv, ClosedByRunSince, CalmRow, Outcomes
<1>2. \A o \in Scanners :
        /\ At(o, "ran")' => scanner'[o].tick \in ran'
        /\ (At(o, "close")' /\ scanner'[o].outcome # "lost")
             => scanner'[o].outcome \in evidence'[scanner'[o].tick]
  BY DEF EvidenceInv, CalmScanner, At
<1>3. \A w \in Workers : worker'[w].pc = "record" => worker'[w].tick \in ran'
  BY DEF EvidenceInv, CalmWorker
<1>4. QED  BY <1>1, <1>2, <1>3 DEF EvidenceInv

LEMMA EvidenceStep == EvidenceInv /\ [Next]_vars => EvidenceInv'
<1> SUFFICES ASSUME EvidenceInv, [Next]_vars PROVE EvidenceInv'
  OBVIOUS
<1>0. OccurrenceTypeOK /\ OccurrenceTypeOK'  BY TypeStep DEF EvidenceInv
<1>1. ASSUME NEW s \in Scanners, Mirror(s) PROVE EvidenceInv'
  <2>1. PICK status \in [Ticks -> Outcomes] :
          /\ \A t \in Ticks : ClosedBy(t) # {} => status[t] \in ClosedBy(t)
          /\ row' = [t \in Ticks |-> IF Open(t) /\ IsStale(t) /\ ClosedBy(t) # {}
                                    THEN [row[t] EXCEPT !.status = status[t]] ELSE row[t]]
    BY <1>1 DEF Mirror
  <2>2. ASSUME NEW t \in Ticks
        PROVE  \/ row'[t] = row[t]
               \/ row'[t].status \in evidence[t] /\ t \in ran
               \/ row'[t].status = unlinked[t]
    <3>1. row[t] \in Row  BY <1>0 DEF OccurrenceTypeOK
    <3>2. row'[t] = row[t] \/ row'[t].status \in ClosedBy(t)  BY <2>1, <3>1 DEF Row
    <3>3. QED  BY <3>2 DEF EvidenceInv, ClosedBy
  <2>3. UNCHANGED <<ran, evidence, worker, unlinked>>  BY <1>1 DEF Mirror
  <2>4. ClosedByRunSince'  BY <2>2, <2>3 DEF EvidenceInv, ClosedByRunSince
  <2>5. \A o \in Scanners : CalmScanner(o)
    BY <1>0, <1>1 DEF Mirror, CalmScanner, OccurrenceTypeOK, Scanner
  <2>6. QED  BY <1>0, <2>3, <2>4, <2>5 DEF EvidenceInv, CalmScanner, At
<1>2. ASSUME NEW s \in Scanners,
             StampLost(s) \/ SelectStale(s) \/ Retry(s) \/ ScanDue(s) \/ ClaimOccurrence(s)
             \/ Dispatch(s) \/ InlineFails(s) \/ LoseLock(s) \/ CrashScanner(s)
      PROVE  EvidenceInv'
  <2> USE <1>0 DEF OccurrenceTypeOK
  <2>1. UNCHANGED <<ran, evidence, worker, unlinked>>
    BY <1>2 DEF StampLost, SelectStale, Retry, ScanDue, ClaimOccurrence, Dispatch, InlineFails,
                LoseLock, CrashScanner
  <2>2. \A t \in Ticks : CalmRow(t)
    <3> SUFFICES ASSUME NEW t \in Ticks PROVE CalmRow(t)
      OBVIOUS
    <3>0. row[t] \in Row  OBVIOUS
    <3>1. CASE StampLost(s)  BY <3>0, <3>1 DEF StampLost, CalmRow, Row
    <3>2. CASE Retry(s)
      <4>1. UNCHANGED row \/ \E u \in Ticks : row' = [row EXCEPT ![u].status = "dispatch_retry"]
        BY <3>2 DEF Retry, Scanner
      <4>2. CASE UNCHANGED row  BY <4>2 DEF CalmRow
      <4>3. ASSUME NEW u \in Ticks, row' = [row EXCEPT ![u].status = "dispatch_retry"] PROVE CalmRow(t)
        BY <3>0, <4>3 DEF CalmRow, Row
      <4>4. QED  BY <4>1, <4>2, <4>3
    <3>3. CASE ClaimOccurrence(s)
      <4>1. UNCHANGED row \/ \E nth : row' = Inserted(scanner[s].next, nth)
        BY <3>3 DEF ClaimOccurrence
      <4>2. CASE UNCHANGED row  BY <4>2 DEF CalmRow
      <4>3. ASSUME NEW nth, row' = Inserted(scanner[s].next, nth) PROVE CalmRow(t)
        <5>1. row'[t] = row[t] \/ row'[t] = [row[t] EXCEPT !.status = "queued", !.nth = nth]
          BY <4>3 DEF Inserted
        <5>2. QED  BY <3>0, <5>1 DEF CalmRow, Row
      <4>4. QED  BY <4>1, <4>2, <4>3
    <3>4. CASE Dispatch(s)  BY <3>0, <3>4 DEF Dispatch, CalmRow, Row
    <3>5. CASE UNCHANGED row  BY <3>5 DEF CalmRow
    <3>6. QED  BY <1>2, <3>1, <3>2, <3>3, <3>4, <3>5
                  DEF SelectStale, ScanDue, InlineFails, LoseLock, CrashScanner
  <2>3. \A o \in Scanners : CalmScanner(o)
    <3>1. \A o \in Scanners \ {s} : scanner'[o] = scanner[o]
      BY <1>2 DEF StampLost, SelectStale, Retry, ScanDue, ClaimOccurrence, Dispatch, InlineFails,
                  LoseLock, CrashScanner, Goto, Return, HostFailed
    <3>2. CalmScanner(s)
      <4>0. scanner[s] \in Scanner /\ scanner'[s] \in Scanner  OBVIOUS
      <4>1. CASE Return(s)  BY <4>0, <4>1 DEF Return, CalmScanner, Scanner
      <4>2. CASE scanner' = [scanner EXCEPT ![s] = IdleScanner]
        BY <4>2 DEF CalmScanner, IdleScanner
      <4>3. CASE StampLost(s) \/ SelectStale(s)
        BY <4>0, <4>3 DEF StampLost, SelectStale, Goto, CalmScanner, Scanner
      <4>4. CASE Retry(s)
        <5>1. CASE Goto(s, "scan")  BY <4>0, <5>1 DEF Goto, CalmScanner, Scanner
        <5>2. ASSUME NEW t \in scanner[s].stale,
                     scanner' = [scanner EXCEPT ![s] = [[scanner[s] EXCEPT !.stale = @ \ {t}]
                                   EXCEPT !.pc = "dispatch", !.tick = t, !.attempt = 2]]
              PROVE  CalmScanner(s)
          BY <4>0, <5>2 DEF CalmScanner, Scanner
        <5>3. ASSUME NEW t \in scanner[s].stale,
                     scanner' = [scanner EXCEPT ![s] = [scanner[s] EXCEPT !.stale = @ \ {t}]]
              PROVE  CalmScanner(s)
          BY <4>0, <5>3 DEF CalmScanner, Scanner
        <5>4. QED  BY <4>4, <5>1, <5>2, <5>3 DEF Retry
      <4>5. CASE ScanDue(s)
        BY <4>0, <4>5 DEF ScanDue, CalmScanner, IdleScanner, Scanner
      <4>6. CASE ClaimOccurrence(s)
        BY <4>0, <4>2, <4>6 DEF ClaimOccurrence, CalmScanner, Scanner
      <4>7. CASE Dispatch(s)
        BY <4>0, <4>1, <4>7 DEF Dispatch, Goto, CalmScanner, Scanner
      <4>8. CASE InlineFails(s)
        BY <4>0, <4>1, <4>8 DEF InlineFails, HostFailed, CalmScanner, Scanner
      <4>9. CASE LoseLock(s)
        BY <4>0, <4>9 DEF LoseLock, CalmScanner, Scanner
      <4>10. QED  BY <1>2, <4>2, <4>3, <4>4, <4>5, <4>6, <4>7, <4>8, <4>9 DEF CrashScanner
    <3>3. QED  BY <3>1, <3>2 DEF CalmScanner
  <2>4. QED  BY <2>1, <2>2, <2>3, EvidenceCalm DEF CalmWorker
<1>3. ASSUME NEW s \in Scanners, RunInline(s) PROVE EvidenceInv'
  <2> DEFINE t == scanner[s].tick
  <2>1. t \in Ticks /\ scanner[s] \in Scanner  BY <1>0 DEF OccurrenceTypeOK, Scanner
  <2>2. /\ ran' = ran \cup {t} /\ UNCHANGED <<row, evidence, worker, unlinked>>
        /\ scanner' = [scanner EXCEPT ![s].pc = "ran"]
    BY <1>3 DEF RunInline, Goto
  <2>3. scanner'[s].pc = "ran" /\ scanner'[s].tick = t
    BY <1>0, <2>1, <2>2 DEF OccurrenceTypeOK, Scanner
  <2>4. \A o \in Scanners \ {s} : scanner'[o] = scanner[o]  BY <2>2
  <2>5. QED  BY <1>0, <2>1, <2>2, <2>3, <2>4 DEF EvidenceInv, ClosedByRunSince, At
<1>4. ASSUME NEW s \in Scanners, RecordInline(s) PROVE EvidenceInv'
  <2> DEFINE t == scanner[s].tick
  <2>1. t \in Ticks /\ scanner[s] \in Scanner  BY <1>0 DEF OccurrenceTypeOK, Scanner
  <2>2. t \in ran /\ UNCHANGED <<row, ran, worker, unlinked>>  BY <1>4 DEF RecordInline, EvidenceInv
  <2>3. PICK outcome \in Outcomes :
          /\ evidence' = [evidence EXCEPT ![t] = @ \cup {outcome}]
          /\ scanner' = [scanner EXCEPT ![s].pc = "close", ![s].outcome = outcome]
    BY <1>4 DEF RecordInline
  <2>4. /\ scanner'[s].pc = "close" /\ scanner'[s].outcome = outcome /\ scanner'[s].tick = t
        /\ outcome \in evidence'[t]
    BY <1>0, <2>1, <2>3 DEF OccurrenceTypeOK, Scanner
  <2>5. \A o \in Scanners \ {s} : scanner'[o] = scanner[o]
    BY <1>0, <2>3 DEF OccurrenceTypeOK
  <2>6. \A u \in Ticks : evidence[u] \subseteq evidence'[u] /\ (evidence'[u] # {} => u \in ran)
    BY <1>0, <2>1, <2>2, <2>3 DEF OccurrenceTypeOK, EvidenceInv
  <2>7. ClosedByRunSince'  BY <2>2, <2>6 DEF EvidenceInv, ClosedByRunSince
  <2>8. \A o \in Scanners : scanner[o].tick \in Ticks  BY <1>0 DEF OccurrenceTypeOK, Scanner
  <2>9. \A o \in Scanners :
          /\ At(o, "ran")' => scanner'[o].tick \in ran'
          /\ (At(o, "close")' /\ scanner'[o].outcome # "lost")
               => scanner'[o].outcome \in evidence'[scanner'[o].tick]
    BY <2>2, <2>4, <2>5, <2>6, <2>8 DEF EvidenceInv, At
  <2>10. QED  BY <1>0, <2>2, <2>6, <2>7, <2>9 DEF EvidenceInv
<1>5. ASSUME NEW s \in Scanners, Finalize(s) PROVE EvidenceInv'
  <2> DEFINE t == scanner[s].tick
  <2>1. t \in Ticks /\ scanner[s] \in Scanner /\ row[t] \in Row
    BY <1>0 DEF OccurrenceTypeOK, Scanner
  <2>2. UNCHANGED <<ran, evidence, worker, unlinked>> /\ Return(s) /\ At(s, "close")
        /\ row' = IF Open(t) THEN [row EXCEPT ![t].status = scanner[s].outcome] ELSE row
    BY <1>5 DEF Finalize
  <2>3. scanner[s].outcome # "lost" => scanner[s].outcome \in evidence[t] /\ t \in ran
    BY <2>1, <2>2 DEF EvidenceInv
  <2>4. row'[t] = row[t] \/ row'[t].status = scanner[s].outcome
    BY <1>0, <2>1, <2>2 DEF OccurrenceTypeOK, Row
  <2>5. \A u \in Ticks \ {t} : row'[u] = row[u]  BY <1>0, <2>1, <2>2 DEF OccurrenceTypeOK
  <2>6. ClosedByRunSince'
    BY <2>1, <2>2, <2>3, <2>4, <2>5 DEF EvidenceInv, ClosedByRunSince, Outcomes
  <2>7. \A o \in Scanners : scanner'[o] = scanner[o] \/ scanner'[o].pc \notin {"ran", "close"}
    BY <1>0, <2>1, <2>2 DEF Return, OccurrenceTypeOK, Scanner
  <2>8. QED  BY <1>0, <2>2, <2>6, <2>7 DEF EvidenceInv, At
<1>6. ASSUME NEW w \in Workers,
             JobFails(w) \/ CrashWorker(w) \/ \E t \in Ticks, a \in Dispatches : TakeJob(w, t, a)
      PROVE  EvidenceInv'
  <2>1. UNCHANGED <<ran, evidence, scanner, row, unlinked>>  BY <1>6 DEF JobFails, CrashWorker, TakeJob
  <2>2. \A v \in Workers : CalmWorker(v)
    BY <1>0, <1>6 DEF JobFails, CrashWorker, TakeJob, CalmWorker, IdleWorker, OccurrenceTypeOK
  <2>3. QED  BY <1>0, <2>1, <2>2, EvidenceCalm DEF CalmRow, CalmScanner
<1>7. ASSUME NEW w \in Workers, RunSource(w) PROVE EvidenceInv'
  <2> DEFINE t == worker[w].tick
  <2>1. t \in Ticks /\ worker[w] \in Worker  BY <1>0 DEF OccurrenceTypeOK, Worker
  <2>2. /\ ran' = ran \cup {t} /\ UNCHANGED <<row, evidence, scanner, unlinked>>
        /\ worker' = [worker EXCEPT ![w].pc = "record"]
    BY <1>7 DEF RunSource
  <2>3. worker'[w].tick = t /\ \A v \in Workers \ {w} : worker'[v] = worker[v]
    BY <1>0, <2>1, <2>2 DEF OccurrenceTypeOK, Worker
  <2>4. QED  BY <1>0, <2>1, <2>2, <2>3 DEF EvidenceInv, ClosedByRunSince, At
<1>8. ASSUME NEW w \in Workers, RecordRun(w) PROVE EvidenceInv'
  <2> DEFINE t == worker[w].tick
  <2>1. t \in Ticks /\ t \in ran  BY <1>0, <1>8 DEF RecordRun, EvidenceInv, OccurrenceTypeOK, Worker
  <2>2. UNCHANGED <<row, ran, scanner, unlinked>> /\ worker' = [worker EXCEPT ![w] = IdleWorker]
    BY <1>8 DEF RecordRun
  <2>3. PICK outcome \in Outcomes : evidence' = [evidence EXCEPT ![t] = @ \cup {outcome}]
    BY <1>8 DEF RecordRun
  <2>4. \A u \in Ticks : evidence[u] \subseteq evidence'[u] /\ (evidence'[u] # {} => u \in ran)
    BY <1>0, <2>1, <2>2, <2>3 DEF OccurrenceTypeOK, EvidenceInv
  <2>5. ClosedByRunSince'  BY <2>2, <2>4 DEF EvidenceInv, ClosedByRunSince
  <2>6. \A v \in Workers : worker'[v] = worker[v] \/ worker'[v].pc # "record"
    BY <1>0, <2>2 DEF OccurrenceTypeOK, IdleWorker
  <2>7. \A o \in Scanners : scanner[o].tick \in Ticks  BY <1>0 DEF OccurrenceTypeOK, Scanner
  <2>8. QED  BY <1>0, <2>2, <2>4, <2>5, <2>6, <2>7 DEF EvidenceInv, At
<1>9. CASE PassTime
  <2>1. \A t \in Ticks : row'[t].status = row[t].status
    <3> SUFFICES ASSUME NEW t \in Ticks PROVE row'[t].status = row[t].status
      OBVIOUS
    <3>1. row[t] \in Row  BY <1>0 DEF OccurrenceTypeOK
    <3>2. QED  BY <1>9, <3>1 DEF PassTime, Row
  <2>2. UNCHANGED <<ran, evidence, scanner, worker, unlinked>>  BY <1>9 DEF PassTime
  <2>3. QED  BY <1>0, <2>1, <2>2, EvidenceCalm DEF CalmRow, CalmScanner, CalmWorker
<1>10. CASE UNCHANGED vars
  BY <1>0, <1>10, EvidenceCalm DEF vars, CalmRow, CalmScanner, CalmWorker
<1>11. CASE RunNow
  <2>1. UNCHANGED <<row, ran, evidence, scanner, worker>>  BY <1>11 DEF RunNow
  <2>2. \A t \in Ticks : Open(t) \/ unlinked'[t] = unlinked[t]  BY <1>11 DEF RunNow
  <2>3. ClosedByRunSince'  BY <2>1, <2>2 DEF EvidenceInv, ClosedByRunSince, Open, Outcomes
  <2>4. QED  BY <1>0, <2>1, <2>3 DEF EvidenceInv, At
<1>12. QED
  BY <1>1, <1>2, <1>3, <1>4, <1>5, <1>6, <1>7, <1>8, <1>9, <1>10, <1>11 DEF Next, Scan, Execute

(* An occurrence that reads ok or error was executed and a run row linked   *)
(* to it says so, or it carries the outcome of a Run now row written after  *)
(* it was claimed, whichever of Mirror and Finalize wrote the status and    *)
(* whoever ticked at the time.                                              *)
THEOREM OccurrenceClosedByRun == Spec => []ClosedByRunSince
<1>1. Init => EvidenceInv
  BY TypeInit DEF Init, EvidenceInv, ClosedByRunSince, At, IdleScanner, IdleWorker, Outcomes
<1>2. EvidenceInv => ClosedByRunSince  BY DEF EvidenceInv
<1>3. QED  BY <1>1, <1>2, EvidenceStep, PTL DEF Spec
-----------------------------------------------------------------------------
(* A row keeps its status, or a claimed one leaves the first dispatch. *)
Onward(t) ==
  \/ row'[t].status = row[t].status
  \/ row[t].status # "none" /\ row'[t].status \notin {"none", "queued"}

(* Nothing new is in hand: the process is where it was, or not dispatching. *)
NothingNew(o) ==
  \/ /\ scanner'[o].pc = scanner[o].pc /\ scanner'[o].tick = scanner[o].tick
     /\ scanner'[o].attempt = scanner[o].attempt
  \/ scanner'[o].pc # "dispatch"

LEMMA InHandType == ASSUME NEW t, NEW a PROVE InHand(t, a) \in {0, 1} /\ InHand(t, a)' \in {0, 1}
BY DEF InHand

LEMMA AllowedType ==
  ASSUME NEW status
  PROVE  Allowed(status) = IF status = "none" THEN 0 ELSE IF status = "queued" THEN 1 ELSE 2
BY DEF Allowed

(* A step that hands out no dispatch and makes none keeps the budget. *)
LEMMA DispatchCalm ==
  ASSUME DispatchInv, OccurrenceTypeOK', \A t \in Ticks : t >= cursor' => t >= cursor,
         \A t \in Ticks : row'[t].dispatched = row[t].dispatched /\ Onward(t),
         \A o \in Scanners : NothingNew(o)
  PROVE  DispatchInv'
<1>1. \A o \in Scanners : \A t \in Ticks, a \in Dispatches : Holds(o, t, a)' => Holds(o, t, a)
  BY DEF NothingNew, Holds, At
<1>2. HeldOnce'  BY <1>1 DEF DispatchInv, HeldOnce
<1>3. RetryMarked'
  <2> SUFFICES ASSUME NEW t \in Ticks, NEW o \in Scanners, Holds(o, t, 2)'
               PROVE  row'[t].status \notin {"none", "queued"}
    BY DEF RetryMarked
  <2>1. Holds(o, t, 2)  BY <1>1 DEF Dispatches
  <2>2. QED  BY <2>1 DEF DispatchInv, RetryMarked, Onward
<1>4. Untouched'  BY DEF DispatchInv, Untouched, Onward
<1>5. Budget'
  <2> SUFFICES ASSUME NEW t \in Ticks
               PROVE  row'[t].dispatched + InHand(t, 1)' + InHand(t, 2)' <= Allowed(row'[t].status)
    BY DEF Budget
  <2>1. InHand(t, 1)' <= InHand(t, 1) /\ InHand(t, 2)' <= InHand(t, 2)
    BY <1>1 DEF InHand, Dispatches
  <2>2. row[t].dispatched + InHand(t, 1) + InHand(t, 2) <= Allowed(row[t].status)
    BY DEF DispatchInv, Budget
  <2>3. Allowed(row[t].status) <= Allowed(row'[t].status) /\ Allowed(row[t].status) \in Nat
        /\ Allowed(row'[t].status) \in Nat
    BY AllowedType DEF Onward
  <2>4. row[t].dispatched \in Nat /\ row'[t].dispatched = row[t].dispatched
    BY DEF DispatchInv, OccurrenceTypeOK, Row
  <2>5. /\ InHand(t, 1) \in {0, 1} /\ InHand(t, 2) \in {0, 1}
        /\ InHand(t, 1)' \in {0, 1} /\ InHand(t, 2)' \in {0, 1}
    BY InHandType
  <2>6. QED  BY <2>1, <2>2, <2>3, <2>4, <2>5
<1>6. QED  BY <1>2, <1>3, <1>4, <1>5 DEF DispatchInv

(* claimDueScriptOccurrence hands out the first dispatch of an untouched    *)
(* tick.                                                                    *)
LEMMA ClaimKeepsBudget ==
  ASSUME DispatchInv, OccurrenceTypeOK', NEW s \in Scanners, NEW t \in Ticks,
         cursor = t, cursor' = t + 1, ~At(s, "dispatch"),
         NEW nth, row' = Inserted(t, nth),
         scanner' = [scanner EXCEPT ![s].pc = "dispatch", ![s].tick = t, ![s].attempt = 1,
                                    ![s].next = t + 1, ![s].left = @ - 1]
  PROVE  DispatchInv'
<1> USE DEF DispatchInv, OccurrenceTypeOK
<1>1. row[t] \in Row /\ row[t].status = "none"  BY DEF Untouched, Ticks
<1>2. row'[t].status = "queued" /\ row'[t].dispatched = row[t].dispatched
      /\ \A u \in Ticks \ {t} : row'[u] = row[u]
  BY <1>1 DEF Inserted, Row
<1>3. \A o \in Scanners \ {s} : scanner'[o] = scanner[o]  OBVIOUS
<1>4. scanner'[s].pc = "dispatch" /\ scanner'[s].tick = t /\ scanner'[s].attempt = 1
  <2>1. scanner[s] \in Scanner  OBVIOUS
  <2>2. QED  BY <2>1 DEF Scanner
<1>5. row[t].dispatched = 0 /\ \A o \in Scanners, a \in Dispatches : ~Holds(o, t, a)
  <2>1. row[t].dispatched + InHand(t, 1) + InHand(t, 2) <= 0
    BY <1>1, AllowedType DEF Budget
  <2>2. row[t].dispatched \in Nat  BY <1>1 DEF Row
  <2>3. row[t].dispatched = 0 /\ InHand(t, 1) = 0 /\ InHand(t, 2) = 0
    <3>1. InHand(t, 1) \in {0, 1} /\ InHand(t, 2) \in {0, 1}  BY InHandType
    <3>2. QED  BY <2>1, <2>2, <3>1
  <2>4. QED  BY <2>3 DEF InHand, Dispatches
<1>6. \A o \in Scanners, u \in Ticks, a \in Dispatches :
        Holds(o, u, a)' <=> (Holds(o, u, a) \/ (o = s /\ u = t /\ a = 1))
  BY <1>3, <1>4 DEF Holds, At
<1>7. HeldOnce'
  <2> SUFFICES ASSUME NEW u \in Ticks, NEW a \in Dispatches, NEW o \in Scanners, NEW p \in Scanners,
                      Holds(o, u, a)', Holds(p, u, a)'
               PROVE  o = p
    BY DEF HeldOnce
  <2>1. CASE u = t  BY <1>5, <1>6, <2>1
  <2>2. CASE u # t  BY <1>6, <2>2 DEF HeldOnce
  <2>3. QED  BY <2>1, <2>2
<1>8. RetryMarked'
  <2> SUFFICES ASSUME NEW u \in Ticks, NEW o \in Scanners, Holds(o, u, 2)'
               PROVE  row'[u].status \notin {"none", "queued"}
    BY DEF RetryMarked
  <2>1. Holds(o, u, 2)  BY <1>6 DEF Dispatches
  <2>2. u # t  BY <1>5, <2>1 DEF Dispatches
  <2>3. QED  BY <1>2, <2>1, <2>2 DEF RetryMarked
<1>9. Untouched'  BY <1>2 DEF Untouched, Ticks
<1>10. Budget'
  <2> SUFFICES ASSUME NEW u \in Ticks
               PROVE  row'[u].dispatched + InHand(u, 1)' + InHand(u, 2)' <= Allowed(row'[u].status)
    BY DEF Budget
  <2>1. CASE u = t
    <3>1. InHand(u, 2)' = 0  BY <1>5, <1>6, <2>1 DEF InHand, Dispatches
    <3>2. row'[u].dispatched = 0 /\ Allowed(row'[u].status) = 1
      BY <1>2, <1>5, <2>1, AllowedType
    <3>3. InHand(u, 1)' \in {0, 1} /\ InHand(u, 2)' \in {0, 1}  BY InHandType
    <3>4. QED  BY <3>1, <3>2, <3>3
  <2>2. CASE u # t
    <3>1. InHand(u, 1)' = InHand(u, 1) /\ InHand(u, 2)' = InHand(u, 2)
      BY <1>6, <2>2 DEF InHand, Dispatches
    <3>2. QED  BY <1>2, <2>2, <3>1 DEF Budget
  <2>3. QED  BY <2>1, <2>2
<1>11. QED  BY <1>7, <1>8, <1>9, <1>10

(* recoverLostScriptOccurrences hands out the second dispatch of a row that *)
(* is still queued.                                                         *)
LEMMA RetryKeepsBudget ==
  ASSUME DispatchInv, OccurrenceTypeOK', NEW s \in Scanners, NEW t \in Ticks,
         cursor' = cursor, ~At(s, "dispatch"), row[t].status = "queued",
         row' = [row EXCEPT ![t].status = "dispatch_retry"],
         scanner' = [scanner EXCEPT ![s] = [[scanner[s] EXCEPT !.stale = @ \ {t}]
                       EXCEPT !.pc = "dispatch", !.tick = t, !.attempt = 2]]
  PROVE  DispatchInv'
<1> USE DEF DispatchInv, OccurrenceTypeOK
<1>1. row[t] \in Row /\ row[t].dispatched \in Nat  BY DEF Row
<1>2. row'[t].status = "dispatch_retry" /\ row'[t].dispatched = row[t].dispatched
      /\ \A u \in Ticks \ {t} : row'[u] = row[u]
  BY <1>1 DEF Row
<1>3. \A o \in Scanners \ {s} : scanner'[o] = scanner[o]  OBVIOUS
<1>4. scanner'[s].pc = "dispatch" /\ scanner'[s].tick = t /\ scanner'[s].attempt = 2
  <2>1. scanner[s] \in Scanner  OBVIOUS
  <2>2. QED  BY <2>1 DEF Scanner
<1>5. \A o \in Scanners : ~Holds(o, t, 2)  BY DEF RetryMarked
<1>6. \A o \in Scanners, u \in Ticks, a \in Dispatches :
        Holds(o, u, a)' <=> (Holds(o, u, a) \/ (o = s /\ u = t /\ a = 2))
  BY <1>3, <1>4 DEF Holds, At
<1>7. HeldOnce'
  <2> SUFFICES ASSUME NEW u \in Ticks, NEW a \in Dispatches, NEW o \in Scanners, NEW p \in Scanners,
                      Holds(o, u, a)', Holds(p, u, a)'
               PROVE  o = p
    BY DEF HeldOnce
  <2>1. CASE u = t /\ a = 2  BY <1>5, <1>6, <2>1
  <2>2. CASE ~(u = t /\ a = 2)  BY <1>6, <2>2 DEF HeldOnce
  <2>3. QED  BY <2>1, <2>2
<1>8. RetryMarked'
  <2> SUFFICES ASSUME NEW u \in Ticks, NEW o \in Scanners, Holds(o, u, 2)'
               PROVE  row'[u].status \notin {"none", "queued"}
    BY DEF RetryMarked
  <2>1. Holds(o, u, 2) \/ u = t  BY <1>6 DEF Dispatches
  <2>2. QED  BY <1>2, <1>5, <2>1 DEF RetryMarked
<1>9. Untouched'  BY <1>2 DEF Untouched
<1>10. Budget'
  <2> SUFFICES ASSUME NEW u \in Ticks
               PROVE  row'[u].dispatched + InHand(u, 1)' + InHand(u, 2)' <= Allowed(row'[u].status)
    BY DEF Budget
  <2>1. CASE u = t
    <3>1. InHand(u, 1)' = InHand(u, 1) /\ InHand(u, 2) = 0
      BY <1>5, <1>6, <2>1 DEF InHand, Dispatches
    <3>2. row[u].dispatched + InHand(u, 1) + InHand(u, 2) <= 1  BY <2>1, AllowedType DEF Budget
    <3>3. Allowed(row'[u].status) = 2  BY <1>2, <2>1, AllowedType
    <3>4. row'[u].dispatched = row[u].dispatched /\ row[u].dispatched \in Nat
      BY <1>1, <1>2, <2>1
    <3>5. /\ InHand(u, 1) \in {0, 1} /\ InHand(u, 2) \in {0, 1}
          /\ InHand(u, 1)' \in {0, 1} /\ InHand(u, 2)' \in {0, 1}
      BY InHandType
    <3>6. QED  BY <3>1, <3>2, <3>3, <3>4, <3>5
  <2>2. CASE u # t
    <3>1. InHand(u, 1)' = InHand(u, 1) /\ InHand(u, 2)' = InHand(u, 2)
      BY <1>6, <2>2 DEF InHand, Dispatches
    <3>2. QED  BY <1>2, <2>2, <3>1 DEF Budget
  <2>3. QED  BY <2>1, <2>2
<1>11. QED  BY <1>7, <1>8, <1>9, <1>10

(* dispatchScriptOccurrence spends the dispatch the process held. *)
LEMMA DispatchKeepsBudget ==
  ASSUME DispatchInv, OccurrenceTypeOK', NEW s \in Scanners, Dispatch(s)
  PROVE  DispatchInv'
<1> USE DEF DispatchInv, OccurrenceTypeOK
<1>1. PICK t \in Ticks, a \in Dispatches : t = scanner[s].tick /\ a = scanner[s].attempt
  BY DEF Scanner
<1>2. row[t] \in Row /\ row[t].dispatched \in Nat  BY <1>1 DEF Row
<1>3. /\ cursor' = cursor /\ Holds(s, t, a)
      /\ row' = [row EXCEPT ![t].dispatched = @ + 1]
      /\ Return(s) \/ Goto(s, "inline")
  BY <1>1 DEF Dispatch, Holds
<1>4. row'[t].status = row[t].status /\ row'[t].dispatched = row[t].dispatched + 1
      /\ \A u \in Ticks \ {t} : row'[u] = row[u]
  BY <1>1, <1>2, <1>3 DEF Row
<1>5. scanner'[s].pc # "dispatch" /\ \A o \in Scanners \ {s} : scanner'[o] = scanner[o]
  <2>1. scanner[s] \in Scanner  OBVIOUS
  <2>2. QED  BY <1>3, <2>1 DEF Return, Goto, Scanner
<1>6. \A o \in Scanners, u \in Ticks, b \in Dispatches :
        Holds(o, u, b)' <=> (Holds(o, u, b) /\ o # s)
  BY <1>5 DEF Holds, At
<1>7. HeldOnce'  BY <1>6 DEF HeldOnce
<1>8. RetryMarked'
  <2> SUFFICES ASSUME NEW u \in Ticks, NEW o \in Scanners, Holds(o, u, 2)'
               PROVE  row'[u].status \notin {"none", "queued"}
    BY DEF RetryMarked
  <2>1. Holds(o, u, 2)  BY <1>6 DEF Dispatches
  <2>2. QED  BY <1>4, <2>1 DEF RetryMarked
<1>9. Untouched'  BY <1>3, <1>4 DEF Untouched
<1>10. Budget'
  <2> SUFFICES ASSUME NEW u \in Ticks
               PROVE  row'[u].dispatched + InHand(u, 1)' + InHand(u, 2)' <= Allowed(row'[u].status)
    BY DEF Budget
  <2>1. row[u].dispatched + InHand(u, 1) + InHand(u, 2) <= Allowed(row[u].status)
        /\ Allowed(row[u].status) \in Nat /\ row'[u].status = row[u].status
        /\ row[u].dispatched \in Nat
    BY <1>4, AllowedType DEF Budget, Row
  <2>2. InHand(u, 1)' <= InHand(u, 1) /\ InHand(u, 2)' <= InHand(u, 2)
    BY <1>6 DEF InHand, Dispatches
  <2>3. /\ InHand(u, 1) \in {0, 1} /\ InHand(u, 2) \in {0, 1}
        /\ InHand(u, 1)' \in {0, 1} /\ InHand(u, 2)' \in {0, 1}
    BY InHandType
  <2>4. CASE u # t
    <3>1. row'[u].dispatched = row[u].dispatched  BY <1>4, <2>4
    <3>2. QED  BY <2>1, <2>2, <2>3, <3>1
  <2>5. CASE u = t
    <3>1. InHand(t, a) = 1 /\ InHand(t, a)' = 0
      BY <1>1, <1>3, <1>6 DEF InHand, HeldOnce
    <3>2. row'[u].dispatched = row[u].dispatched + 1  BY <1>4, <2>5
    <3>3. CASE a = 1
      <4>1. InHand(u, 1) = 1 /\ InHand(u, 1)' = 0  BY <2>5, <3>1, <3>3
      <4>2. QED  BY <2>1, <2>2, <2>3, <3>2, <4>1
    <3>4. CASE a = 2
      <4>1. InHand(u, 2) = 1 /\ InHand(u, 2)' = 0  BY <2>5, <3>1, <3>4
      <4>2. QED  BY <2>1, <2>2, <2>3, <3>2, <4>1
    <3>5. QED  BY <1>1, <3>3, <3>4 DEF Dispatches
  <2>6. QED  BY <2>4, <2>5
<1>11. QED  BY <1>7, <1>8, <1>9, <1>10

LEMMA DispatchStep == DispatchInv /\ [Next]_vars => DispatchInv'
<1> SUFFICES ASSUME DispatchInv, [Next]_vars PROVE DispatchInv'
  OBVIOUS
<1>0. OccurrenceTypeOK /\ OccurrenceTypeOK'  BY TypeStep DEF DispatchInv
<1>1. ASSUME NEW s \in Scanners,
             Mirror(s) \/ StampLost(s) \/ SelectStale(s) \/ ScanDue(s) \/ RunInline(s)
             \/ RecordInline(s) \/ InlineFails(s) \/ Finalize(s) \/ LoseLock(s) \/ CrashScanner(s)
      PROVE  DispatchInv'
  <2> USE <1>0 DEF OccurrenceTypeOK
  <2>1. cursor' = cursor
    BY <1>1 DEF Mirror, StampLost, SelectStale, ScanDue, RunInline, RecordInline, InlineFails,
                Finalize, LoseLock, CrashScanner
  <2>2. ASSUME NEW t \in Ticks PROVE row'[t].dispatched = row[t].dispatched /\ Onward(t)
    <3>0. row[t] \in Row  OBVIOUS
    <3>1. CASE Mirror(s)
      <4>1. PICK status \in [Ticks -> Outcomes] :
              row' = [u \in Ticks |-> IF Open(u) /\ IsStale(u) /\ ClosedBy(u) # {}
                                        THEN [row[u] EXCEPT !.status = status[u]] ELSE row[u]]
        BY <3>1 DEF Mirror
      <4>2. status[t] \notin {"none", "queued"}  BY DEF Outcomes
      <4>3. QED  BY <3>0, <4>1, <4>2 DEF Onward, Open, Row
    <3>2. CASE StampLost(s)  BY <3>0, <3>2 DEF StampLost, Exhausted, Onward, Row
    <3>3. CASE Finalize(s)
      <4>1. scanner[s].tick \in Ticks /\ scanner[s].outcome \notin {"none", "queued"}
        BY DEF Scanner, Outcomes
      <4>2. QED  BY <3>0, <3>3, <4>1 DEF Finalize, Open, Onward, Row
    <3>4. CASE UNCHANGED row  BY <3>4 DEF Onward
    <3>5. QED  BY <1>1, <3>1, <3>2, <3>3, <3>4
                  DEF SelectStale, ScanDue, RunInline, RecordInline, InlineFails, LoseLock, CrashScanner
  <2>3. \A o \in Scanners \ {s} : scanner'[o] = scanner[o]
    BY <1>1 DEF Mirror, StampLost, SelectStale, ScanDue, RunInline, RecordInline, InlineFails,
                Finalize, LoseLock, CrashScanner, Goto, Return, HostFailed
  <2>4. NothingNew(s)
    <3>0. scanner[s] \in Scanner  OBVIOUS
    <3>1. CASE Return(s)  BY <3>0, <3>1 DEF Return, NothingNew, Scanner
    <3>2. CASE scanner' = [scanner EXCEPT ![s] = IdleScanner]
      BY <3>2 DEF NothingNew, IdleScanner
    <3>3. CASE Mirror(s) \/ StampLost(s) \/ SelectStale(s) \/ RunInline(s)
      BY <3>0, <3>3 DEF Mirror, StampLost, SelectStale, RunInline, Goto, NothingNew, Scanner
    <3>4. CASE ScanDue(s)  BY <3>0, <3>4 DEF ScanDue, IdleScanner, NothingNew, Scanner
    <3>5. CASE RecordInline(s)
      <4>1. PICK outcome \in Outcomes :
              scanner' = [scanner EXCEPT ![s].pc = "close", ![s].outcome = outcome]
        BY <3>5 DEF RecordInline
      <4>2. QED  BY <3>0, <4>1 DEF NothingNew, Scanner
    <3>6. CASE InlineFails(s)  BY <3>0, <3>1, <3>6 DEF InlineFails, HostFailed, NothingNew, Scanner
    <3>7. CASE LoseLock(s)  BY <3>0, <3>7 DEF LoseLock, NothingNew, Scanner
    <3>8. QED  BY <1>1, <3>1, <3>2, <3>3, <3>4, <3>5, <3>6, <3>7 DEF Finalize, CrashScanner
  <2>5. \A o \in Scanners : NothingNew(o)  BY <2>3, <2>4 DEF NothingNew
  <2>6. QED  BY <2>1, <2>2, <2>5, DispatchCalm
<1>2. ASSUME NEW s \in Scanners, Retry(s) PROVE DispatchInv'
  <2>1. ASSUME NEW t \in scanner[s].stale, Retryable(t),
               row' = [row EXCEPT ![t].status = "dispatch_retry"],
               scanner' = [scanner EXCEPT ![s] = [[scanner[s] EXCEPT !.stale = @ \ {t}]
                             EXCEPT !.pc = "dispatch", !.tick = t, !.attempt = 2]]
        PROVE  DispatchInv'
    <3>1. t \in Ticks  BY <1>0 DEF OccurrenceTypeOK, Scanner
    <3>2. cursor' = cursor /\ ~At(s, "dispatch")  BY <1>2 DEF Retry, At
    <3>3. QED  BY <1>0, <2>1, <3>1, <3>2, RetryKeepsBudget DEF Retryable
  <2>2. CASE UNCHANGED row /\ (Goto(s, "scan") \/ \E t \in scanner[s].stale :
               scanner' = [scanner EXCEPT ![s] = [scanner[s] EXCEPT !.stale = @ \ {t}]])
    <3>1. \A o \in Scanners : NothingNew(o)
      <4>1. scanner[s] \in Scanner /\ scanner \in [Scanners -> Scanner]  BY <1>0 DEF OccurrenceTypeOK
      <4>2. CASE Goto(s, "scan")  BY <4>1, <4>2 DEF Goto, NothingNew, Scanner
      <4>3. ASSUME NEW t \in scanner[s].stale,
                   scanner' = [scanner EXCEPT ![s] = [scanner[s] EXCEPT !.stale = @ \ {t}]]
            PROVE  \A o \in Scanners : NothingNew(o)
        BY <4>1, <4>3 DEF NothingNew, Scanner
      <4>4. QED  BY <2>2, <4>2, <4>3
    <3>2. cursor' = cursor  BY <1>2 DEF Retry
    <3>3. QED  BY <1>0, <2>2, <3>1, <3>2, DispatchCalm DEF Onward
  <2>3. QED  BY <1>2, <2>1, <2>2 DEF Retry
<1>3. ASSUME NEW s \in Scanners, ClaimOccurrence(s) PROVE DispatchInv'
  <2> DEFINE t == scanner[s].next
  <2>1. CASE /\ t <= fired /\ cursor = t /\ cursor' = t + 1
             /\ row' = Inserted(t, CatchUp - scanner[s].left + 1)
             /\ scanner' = [scanner EXCEPT ![s].pc = "dispatch", ![s].tick = t, ![s].attempt = 1,
                                           ![s].next = t + 1, ![s].left = @ - 1]
    <3>1. t \in Ticks  BY <1>0, <2>1, OccurrenceAssumption DEF OccurrenceTypeOK, Ticks
    <3>2. ~At(s, "dispatch")  BY <1>3 DEF ClaimOccurrence, At
    <3>3. QED  BY <1>0, <2>1, <3>1, <3>2, ClaimKeepsBudget
  <2>2. CASE scanner' = [scanner EXCEPT ![s] = IdleScanner] /\ UNCHANGED <<cursor, row>>
    <3>1. \A o \in Scanners : NothingNew(o)
      BY <1>0, <2>2 DEF OccurrenceTypeOK, NothingNew, IdleScanner
    <3>2. QED  BY <1>0, <2>2, <3>1, DispatchCalm DEF Onward
  <2>3. QED  BY <1>3, <2>1, <2>2 DEF ClaimOccurrence
<1>4. ASSUME NEW w \in Workers, Execute(w) \/ CrashWorker(w) PROVE DispatchInv'
  <2>1. UNCHANGED <<cursor, row, scanner>>
    BY <1>4 DEF Execute, TakeJob, RunSource, RecordRun, JobFails, CrashWorker
  <2>2. QED  BY <1>0, <2>1, DispatchCalm DEF Onward, NothingNew
<1>5. CASE PassTime
  <2>1. ASSUME NEW t \in Ticks
        PROVE  row'[t].dispatched = row[t].dispatched /\ row'[t].status = row[t].status
    <3>1. row[t] \in Row  BY <1>0 DEF OccurrenceTypeOK
    <3>2. QED  BY <1>5, <3>1 DEF PassTime, Row
  <2>2. UNCHANGED <<cursor, scanner>>  BY <1>5 DEF PassTime
  <2>3. QED  BY <1>0, <2>1, <2>2, DispatchCalm DEF Onward, NothingNew
<1>6. CASE UNCHANGED vars
  BY <1>0, <1>6, DispatchCalm DEF vars, Onward, NothingNew
<1>7. CASE RunNow
  <2>1. UNCHANGED <<row, scanner>>  BY <1>7 DEF RunNow
  <2>2. \A t \in Ticks : t >= cursor' => t >= cursor
    BY <1>0, <1>7, OccurrenceAssumption DEF RunNow, OccurrenceTypeOK, Ticks
  <2>3. QED  BY <1>0, <2>1, <2>2, DispatchCalm DEF Onward, NothingNew
<1>8. QED
  BY <1>0, <1>1, <1>2, <1>3, <1>4, <1>5, <1>6, <1>7, DispatchKeepsBudget DEF Next, Scan

(* "a lost first dispatch is retried exactly once": whoever recovers it,    *)
(* and however many replicas tick after the tick lock's session was lost,   *)
(* no occurrence is handed to a queue or run in process more than twice.    *)
THEOREM AtMostTwoDispatches == Spec => []DispatchedAtMostTwice
<1>1. Init => DispatchInv
  <2> SUFFICES ASSUME Init PROVE DispatchInv
    OBVIOUS
  <2>1. \A s \in Scanners, t \in Ticks, a \in Dispatches : ~Holds(s, t, a)
    BY DEF Init, Holds, At, IdleScanner
  <2>2. HeldOnce /\ RetryMarked /\ Untouched
    BY <2>1 DEF Init, HeldOnce, RetryMarked, Untouched, Dispatches
  <2>3. Budget
    <3> SUFFICES ASSUME NEW t \in Ticks
                 PROVE  row[t].dispatched + InHand(t, 1) + InHand(t, 2) <= Allowed(row[t].status)
      BY DEF Budget
    <3>1. InHand(t, 1) = 0 /\ InHand(t, 2) = 0  BY <2>1 DEF InHand, Dispatches
    <3>2. row[t].dispatched = 0 /\ Allowed(row[t].status) = 0  BY AllowedType DEF Init
    <3>3. QED  BY <3>1, <3>2
  <2>4. QED  BY <2>2, <2>3, TypeInit DEF DispatchInv
<1>2. DispatchInv => DispatchedAtMostTwice
  <2> SUFFICES ASSUME DispatchInv, NEW t \in Ticks PROVE row[t].dispatched <= 2
    BY DEF DispatchedAtMostTwice
  <2>1. row[t].dispatched \in Nat  BY DEF DispatchInv, OccurrenceTypeOK, Row
  <2>2. row[t].dispatched + InHand(t, 1) + InHand(t, 2) <= 2
    BY AllowedType, <2>1, InHandType DEF DispatchInv, Budget
  <2>3. QED  BY <2>1, <2>2, InHandType
<1>3. QED  BY <1>1, <1>2, DispatchStep, PTL DEF Spec
=============================================================================
