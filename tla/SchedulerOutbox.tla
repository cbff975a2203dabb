---------------------------- MODULE SchedulerOutbox ----------------------------
(***************************************************************************)
(* The scheduler's durable work list, scheduling/outbox.ts: singleton scan *)
(* rows that are re-armed after each run, and one-shot tasks (escalations, *)
(* flow emails, allocation occurrences).                                   *)
(*                                                                         *)
(* A pass recovers stale leases, takes a snapshot of the due rows, and     *)
(* claims, runs and marks them one after the other.  The report scheduler  *)
(* and the main scheduler each tick under a lock of their own, so two      *)
(* passes may overlap.                                                     *)
(***************************************************************************)
EXTENDS Integers, FiniteSets

CONSTANTS
  Scans,        \* singleton scan rows
  Tasks,        \* one-shot rows
  Passes,       \* processes that tick
  None,         \* no lease
  MaxAttempts,  \* MAX_SCHEDULER_OUTBOX_ATTEMPTS
  MaxReplays    \* bound on the replays of one row

ASSUME OutboxAssumption ==
  /\ Scans # {} /\ Scans \cap Tasks = {} /\ None \notin Passes
  /\ MaxAttempts \in Nat \ {0} /\ MaxReplays \in Nat

Rows == Scans \cup Tasks

VARIABLES
  row,    \* scheduler_outbox
  audit,  \* scheduler_outbox_terminal_audit, per row
  pass    \* in-memory state of each process

vars == <<row, audit, pass>>

(* due: next_attempt_at is past.  stale: the lease is older than            *)
(* STALE_SCHEDULER_OUTBOX_MS.  lease: the process that holds it (a process  *)
(* runs one row at a time, so its name stands for the token).               *)
Row == [status : {"pending", "running", "failed", "succeeded"}, attempts : 0..MaxAttempts,
        terminal : BOOLEAN, due : BOOLEAN, stale : BOOLEAN, lease : Passes \cup {None}]

(* Evidence rows by failure generation *)
Audit == [failures : SUBSET (0..MaxReplays), replays : SUBSET (0..MaxReplays)]

Outcomes == {"ok", "error", "tenant"}   \* tenant: SchedulerScanOrganizationError
Pass == [pc : {"idle", "select", "claim", "run", "mark"}, todo : SUBSET Rows, row : Rows,
         attempts : 0..MaxAttempts, outcome : Outcomes]

Idle == [pc |-> "idle", todo |-> {}, row |-> CHOOSE r \in Rows : TRUE, attempts |-> 0, outcome |-> "ok"]

Init ==
  /\ row = [r \in Rows |-> [status |-> "pending", attempts |-> 0, terminal |-> FALSE,
                            due |-> TRUE, stale |-> FALSE, lease |-> None]]
  /\ audit = [r \in Rows |-> [failures |-> {}, replays |-> {}]]
  /\ pass = [p \in Passes |-> Idle]

-----------------------------------------------------------------------------
(* A failure follows the last replay. *)
Generation(r) ==
  IF audit[r].replays = {} THEN 0
    ELSE 1 + CHOOSE g \in audit[r].replays : \A h \in audit[r].replays : h <= g

(* Mutant: a second failure of the row is taken for a duplicate. *)
EvidencedOnce(S) ==
  audit' = [r \in Rows |-> IF r \in S /\ audit[r].failures = {}
    THEN [audit[r] EXCEPT !.failures = {0}] ELSE audit[r]]

(* insertTerminalFailureEvidence, for the rows of S.  Storage refuses a     *)
(* second row for one generation, and with it the whole transaction.        *)
Evidenced(S) ==
  /\ \A r \in S : Generation(r) \notin audit[r].failures
  /\ audit' = [r \in Rows |-> IF r \in S
       THEN [audit[r] EXCEPT !.failures = @ \cup {Generation(r)}] ELSE audit[r]]

Ceiling(n) == n >= MaxAttempts

(* Mutant: a lease is never taken back. *)
OrphanedNever(r) == FALSE

Orphaned(r) == row[r].status = "running" /\ row[r].stale

(* recoverStaleSchedulerOutbox *)
Recover(p) ==
  /\ pass[p].pc = "idle"
  /\ row' = [r \in Rows |-> IF ~Orphaned(r) THEN row[r]
       ELSE [row[r] EXCEPT !.status = "failed", !.lease = None, !.stale = FALSE, !.due = TRUE,
                           !.terminal = @ \/ Ceiling(row[r].attempts)]]
  /\ Evidenced({r \in Rows : Orphaned(r) /\ Ceiling(row[r].attempts)})
  /\ pass' = [pass EXCEPT ![p].pc = "select"]

Claimable(r) ==
  row[r].status \in {"pending", "failed"} /\ ~row[r].terminal /\ row[r].attempts < MaxAttempts

SelectDue(p) ==
  /\ pass[p].pc = "select"
  /\ pass' = [pass EXCEPT ![p].pc = "claim", ![p].todo = {r \in Rows : Claimable(r) /\ row[r].due}]
  /\ UNCHANGED <<row, audit>>

(* The claim asks the status and the ceiling again, not the due time. *)
Claim(p, r) ==
  /\ pass[p].pc = "claim" /\ r \in pass[p].todo /\ Claimable(r)
  /\ row' = [row EXCEPT ![r].status = "running", ![r].attempts = @ + 1, ![r].lease = p]
  /\ pass' = [pass EXCEPT ![p].pc = "run", ![p].todo = @ \ {r}, ![p].row = r,
                          ![p].attempts = row[r].attempts + 1]
  /\ UNCHANGED audit

Skip(p, r) ==
  /\ pass[p].pc = "claim" /\ r \in pass[p].todo /\ ~Claimable(r)
  /\ pass' = [pass EXCEPT ![p].todo = @ \ {r}]
  /\ UNCHANGED <<row, audit>>

EndPass(p) ==
  /\ pass[p].pc = "claim" /\ pass[p].todo = {}
  /\ pass' = [pass EXCEPT ![p] = Idle]
  /\ UNCHANGED <<row, audit>>

(* runOutboxWork.  Only a scan over every tenant reports one tenant's       *)
(* failure.                                                                 *)
RunWork(p) ==
  /\ pass[p].pc = "run"
  /\ \E o \in Outcomes :
       /\ o = "tenant" => pass[p].row \in Scans
       /\ pass' = [pass EXCEPT ![p].pc = "mark", ![p].outcome = o]
  /\ UNCHANGED <<row, audit>>

Proceed(p) == pass' = [pass EXCEPT ![p] = [Idle EXCEPT !.pc = "claim", !.todo = pass[p].todo]]

(* Mutant: the row is marked by its id alone. *)
OwnsAny(p) == TRUE

(* The fence of both marks: the row runs under this pass's lease *)
Owns(p) == row[pass[p].row].status = "running" /\ row[pass[p].row].lease = p

(* Mutant: a scan keeps its attempts. *)
ReArmedKept(old) == [old EXCEPT !.status = "pending", !.lease = None, !.stale = FALSE, !.due = FALSE]

(* A scan waits SCAN_REQUEUE_MS for its next run. *)
ReArmed(old) ==
  [old EXCEPT !.status = "pending", !.attempts = 0, !.lease = None, !.stale = FALSE, !.due = FALSE]

MarkSucceeded(p) ==
  LET r == pass[p].row IN
  /\ pass[p].pc = "mark" /\ pass[p].outcome = "ok" /\ Owns(p)
  /\ row' = [row EXCEPT ![r] = IF r \in Scans THEN ReArmed(row[r])
       ELSE [row[r] EXCEPT !.status = "succeeded", !.lease = None, !.stale = FALSE]]
  /\ Proceed(p)
  /\ UNCHANGED audit

(* The failure of one tenant does not spend a scan's attempts. *)
MarkFailed(p) ==
  LET r == pass[p].row
      tenant == pass[p].outcome = "tenant"
      terminal == ~tenant /\ Ceiling(pass[p].attempts) IN
  /\ pass[p].pc = "mark" /\ pass[p].outcome # "ok" /\ Owns(p)
  /\ row' = [row EXCEPT ![r] = [row[r] EXCEPT !.status = "failed", !.lease = None,
       !.stale = FALSE, !.due = FALSE, !.attempts = IF tenant THEN 0 ELSE pass[p].attempts,
       !.terminal = row[r].terminal \/ terminal]]
  /\ Evidenced(IF terminal THEN {r} ELSE {})
  /\ Proceed(p)

(* SchedulerOutboxLeaseFencedError *)
Fenced(p) ==
  /\ pass[p].pc = "mark" /\ ~Owns(p)
  /\ Proceed(p)
  /\ UNCHANGED <<row, audit>>

(* replayTerminalSchedulerOutbox *)
Replay(r) ==
  /\ row[r].terminal /\ Cardinality(audit[r].replays) < MaxReplays
  /\ \E g \in audit[r].failures :
       /\ \A h \in audit[r].failures : h <= g
       /\ g \notin audit[r].replays
       /\ audit' = [audit EXCEPT ![r].replays = @ \cup {g}]
  /\ row' = [row EXCEPT ![r] = [status |-> "pending", attempts |-> 0, terminal |-> FALSE,
                                due |-> TRUE, stale |-> FALSE, lease |-> None]]
  /\ UNCHANGED pass

(* The process dies between two statements. *)
Crash(p) ==
  /\ pass[p].pc # "idle"
  /\ pass' = [pass EXCEPT ![p] = Idle]
  /\ UNCHANGED <<row, audit>>

ComeDue(r) ==
  /\ row[r].status \in {"pending", "failed"} /\ ~row[r].due
  /\ row' = [row EXCEPT ![r].due = TRUE]
  /\ UNCHANGED <<audit, pass>>

GoStale(r) ==
  /\ row[r].status = "running" /\ ~row[r].stale
  /\ row' = [row EXCEPT ![r].stale = TRUE]
  /\ UNCHANGED <<audit, pass>>

Step(p) ==
  \/ Recover(p) \/ SelectDue(p) \/ EndPass(p) \/ RunWork(p) \/ MarkSucceeded(p)
  \/ MarkFailed(p) \/ Fenced(p)
  \/ \E r \in Rows : Claim(p, r) \/ Skip(p, r)

Next ==
  \/ \E p \in Passes : Step(p) \/ Crash(p)
  \/ \E r \in Rows : Replay(r) \/ ComeDue(r) \/ GoStale(r)

Spec == Init /\ [][Next]_vars

(* Both schedulers keep ticking and are not killed at the same statement    *)
(* each time; backoffs end and leases grow old.                             *)
Fairness ==
  /\ WF_vars(\E p \in Passes : Step(p))
  /\ SF_vars(\E p \in Passes : SelectDue(p)) /\ SF_vars(\E p \in Passes : RunWork(p))
  /\ SF_vars(\E p \in Passes : MarkSucceeded(p) \/ MarkFailed(p))
  /\ \A r \in Rows : SF_vars(\E p \in Passes : Claim(p, r))
  /\ \A r \in Rows : WF_vars(ComeDue(r)) /\ WF_vars(GoStale(r))

FairSpec == Spec /\ Fairness

-----------------------------------------------------------------------------
(* Every row, its evidence and every process has its type. *)
OutboxTypeOK ==
  /\ row \in [Rows -> Row] /\ audit \in [Rows -> Audit] /\ pass \in [Passes -> Pass]

(* Terminal and evidenced go together, through crash recovery, replays and  *)
(* second failures: one more failure than replays while a row is terminal,  *)
(* as many otherwise.                                                       *)
EvidencePaired ==
  \A r \in Rows :
    Cardinality(audit[r].failures) =
      Cardinality(audit[r].replays) + (IF row[r].terminal THEN 1 ELSE 0)

(* A delivered one-shot task stays delivered: no pass whose lease was taken *)
(* over writes on it.                                                       *)
SucceededIsFinal == [][\A r \in Rows : row[r].status = "succeeded" => row'[r] = row[r]]_vars

(* Every one-shot task is delivered or visibly terminal. *)
EveryTaskEnds == \A r \in Tasks : <>(row[r].status = "succeeded" \/ row[r].terminal)

(* A scan keeps being run while it is not terminal. *)
ScansKeepRunning == \A r \in Scans : []<>(row[r].status = "running" \/ row[r].terminal)

=============================================================================
