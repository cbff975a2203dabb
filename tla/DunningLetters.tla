--------------------------- MODULE DunningLetters ---------------------------
(***************************************************************************)
(* One collections letter, from the rung that fires it to the provider     *)
(* that accepts it:                                                        *)
(*                                                                         *)
(*   receivables/dunning.ts     opens or re-arms the rung's claim and      *)
(*                              defers a letter under a fresh key          *)
(*   scheduling/outbox.ts       drains the deferred row into the queue     *)
(*   worker/email-worker.ts     sends, with delivery/email-config.ts       *)
(*                              keeping one log row per key and its        *)
(*                              append-only lineage of attempts            *)
(*                                                                         *)
(* Every re-arm is a round of its own: a new outbox row, queue job and log *)
(* row.  All rounds share the claim.  The worker's writes are separate     *)
(* autocommitted statements around a call to the provider, so it can die   *)
(* between any two of them.                                                *)
(***************************************************************************)
EXTENDS Integers, Sequences, FiniteSets

CONSTANTS
  MaxRounds,       \* bound on the letters deferred for the rung
  Processors,      \* jobs the email worker runs at the same time
  OutboxAttempts,  \* MAX_SCHEDULER_OUTBOX_ATTEMPTS
  QueueAttempts,   \* attempts of a queue job
  MaxStalled,      \* redeliveries of a job whose processor was lost
  MaxMishaps       \* bound on the mishaps below

(* outage: the retry horizon passes over a letter still in the outbox, the *)
(*         queue or a worker.                                              *)
(* replay: an operator replays a terminal outbox row.                      *)
(* stall:  a live processor loses its lock on the job.                     *)
(* fault:  a database write fails after the provider accepted.             *)
(* late:   a processor dies after it settled the last rejection and before *)
(*         the queue recorded that the job failed.                         *)
ASSUME LettersAssumption ==
  /\ MaxRounds \in Nat \ {0} /\ OutboxAttempts \in Nat \ {0}
  /\ QueueAttempts \in Nat \ {0} /\ MaxStalled \in Nat /\ MaxMishaps \in Nat

Rounds == 1..MaxRounds

VARIABLES
  claim,      \* the dunning_log row of the rung
  outbox,     \* scheduler_outbox, the flow_email row of each round
  job,        \* the queue job of each round
  log,        \* email_log, the row of each round's delivery key
  processor,  \* email worker executions
  accepted,   \* letters the provider accepted for the customer
  mishaps     \* how many of them happened

vars == <<claim, outbox, job, log, processor, accepted, mishaps>>

(* round is the number of letters deferred so far; old: updated_at is past *)
(* SCHEDULER_OUTBOX_RETRY_HORIZON_MS.                                       *)
ClaimRow == [status : {"none", "staged", "sent", "failed", "suppressed"},
          round : 0..MaxRounds, old : BOOLEAN]

(* queued: still running, the job is in the queue *)
OutboxRow == [status : {"none", "pending", "running", "queued", "succeeded", "terminal"},
              tries : 0..OutboxAttempts]

Job == [state : {"none", "waiting", "active", "done", "failed"},
        made : 0..QueueAttempts, stalled : 0..MaxStalled]

Outcomes == {"sent", "notSent", "uncertain"}

Record == [n : Nat, outcome : Outcomes \cup {"started"}]

Log == [status : {"none", "queued", "sent", "failed", "uncertain", "suppressed"},
        lineage : Seq(Record)]

Phases == {"idle", "send", "transmit", "append", "mark", "settle", "ack", "throw"}

(* holds: the processor has its lock on the job *)
Processor == [pc : Phases, round : Rounds, n : Nat,
              outcome : Outcomes \cup {"confirmed", "none"}, holds : BOOLEAN]

Idle == [pc |-> "idle", round |-> 1, n |-> 0, outcome |-> "none", holds |-> FALSE]

Init ==
  /\ claim = [status |-> "none", round |-> 0, old |-> FALSE]
  /\ outbox = [r \in Rounds |-> [status |-> "none", tries |-> 0]]
  /\ job = [r \in Rounds |-> [state |-> "none", made |-> 0, stalled |-> 0]]
  /\ log = [r \in Rounds |-> [status |-> "none", lineage |-> << >>]]
  /\ processor = [p \in Processors |-> Idle]
  /\ accepted = 0 /\ mishaps = 0

Mishap == mishaps < MaxMishaps /\ mishaps' = mishaps + 1

-----------------------------------------------------------------------------
(* What a lineage says.  An attempt that started and recorded no outcome    *)
(* may have been accepted.                                                  *)
Records(r) == {log[r].lineage[i] : i \in DOMAIN log[r].lineage}

Saw(r, outcome) == \E x \in Records(r) : x.outcome = outcome

Dangling(r) ==
  {x \in Records(r) : /\ x.outcome = "started"
                      /\ ~\E y \in Records(r) : y.n = x.n /\ y.outcome \in Outcomes}

(* normalizeAttempts: the decided records and the dangling starts *)
NormalizedAttempts(r) ==
  Cardinality({i \in DOMAIN log[r].lineage : log[r].lineage[i].outcome \in Outcomes})
    + Cardinality(Dangling(r))

Unresolved(r) == log[r].status = "uncertain" \/ Saw(r, "uncertain") \/ Dangling(r) # {}

(* readDunningDeliveryVerdict reads the rows of every round of the claim;   *)
(* the last record of an attempt decides it.                                *)
Decided(r, outcome) ==
  \E i \in DOMAIN log[r].lineage :
    /\ log[r].lineage[i].outcome = outcome
    /\ \A j \in DOMAIN log[r].lineage :
         j > i /\ log[r].lineage[j].n = log[r].lineage[i].n
           => log[r].lineage[j].outcome \notin Outcomes

Accepted == \E r \in Rounds : log[r].status = "sent" \/ Decided(r, "sent")

Uncertain ==
  \E r \in Rounds : log[r].status = "uncertain" \/ Decided(r, "uncertain") \/ Dangling(r) # {}

-----------------------------------------------------------------------------
(* runOneOrgDunning for the rung: one transaction under its advisory lock.  *)
(* input says what this tick can do with the letter: defer it, find no      *)
(* billing email, or have the deferral refused.                             *)
Inputs == {"defer", "no_email", "refused"}

Defer(input) ==
  LET r == claim.round + 1 IN
  \/ /\ input = "defer" /\ r \in Rounds
     /\ claim' = [status |-> "staged", round |-> r, old |-> FALSE]
     /\ outbox' = [outbox EXCEPT ![r].status = "pending"]
  \/ /\ input \in {"no_email", "refused"}
     /\ claim' = [claim EXCEPT !.old = FALSE,
                    !.status = IF input = "no_email" THEN "suppressed" ELSE "failed"]
     /\ UNCHANGED outbox

OpenClaim(input) ==
  /\ claim.status = "none"
  /\ Defer(input)
  /\ UNCHANGED <<job, log, processor, accepted, mishaps>>

(* Mutant: a staged claim is left to the worker, however old. *)
ReArmSettled(input) ==
  /\ claim.status \in {"failed", "suppressed"}
  /\ ~Accepted /\ ~Uncertain
  /\ Defer(input)
  /\ UNCHANGED <<job, log, processor, accepted, mishaps>>

(* A failed or suppressed claim, or a staged one past the horizon, whose    *)
(* deliveries all failed: re-armed under a fresh key.                       *)
ReArm(input) ==
  /\ claim.status \in {"failed", "suppressed"} \/ (claim.status = "staged" /\ claim.old)
  /\ ~Accepted /\ ~Uncertain
  /\ Defer(input)
  /\ UNCHANGED <<job, log, processor, accepted, mishaps>>

(* The delivery evidence of an abandoned claim settles it, or holds it *)
Reconcile ==
  /\ claim.status = "staged" /\ claim.old
  /\ \/ Accepted /\ claim' = [claim EXCEPT !.status = "sent", !.old = FALSE]
     \/ ~Accepted /\ Uncertain /\ claim' = [claim EXCEPT !.old = FALSE]
  /\ UNCHANGED <<outbox, job, log, processor, accepted, mishaps>>

-----------------------------------------------------------------------------
(* processDueSchedulerOutbox and deliverFlowEmail for the row of round r *)
DrainClaim(r) ==
  /\ outbox[r].status = "pending" /\ outbox[r].tries < OutboxAttempts
  /\ outbox' = [outbox EXCEPT ![r].status = "running", ![r].tries = @ + 1]
  /\ UNCHANGED <<claim, job, log, processor, accepted, mishaps>>

(* The job id is the row's: a second add finds the job and changes nothing. *)
Enqueue(r) ==
  /\ outbox[r].status = "running"
  /\ outbox' = [outbox EXCEPT ![r].status = "queued"]
  /\ job' = [job EXCEPT ![r].state = IF @ = "none" THEN "waiting" ELSE @]
  /\ UNCHANGED <<claim, log, processor, accepted, mishaps>>

MarkSucceeded(r) ==
  /\ outbox[r].status = "queued"
  /\ outbox' = [outbox EXCEPT ![r].status = "succeeded"]
  /\ UNCHANGED <<claim, job, log, processor, accepted, mishaps>>

(* The add throws, its reply is lost and the probe fails too, or the        *)
(* process dies and the stale row is recovered.                             *)
DrainFails(r) ==
  /\ outbox[r].status \in {"running", "queued"}
  /\ outbox' = [outbox EXCEPT ![r].status =
       IF outbox[r].tries = OutboxAttempts THEN "terminal" ELSE "pending"]
  /\ UNCHANGED <<claim, job, log, processor, accepted, mishaps>>

Replay(r) ==
  /\ outbox[r].status = "terminal"
  /\ Mishap
  /\ outbox' = [outbox EXCEPT ![r] = [status |-> "pending", tries |-> 0]]
  /\ UNCHANGED <<claim, job, log, processor, accepted>>

-----------------------------------------------------------------------------
(* The email worker takes the job, claims the log row of the delivery key   *)
(* and lets the lineage decide: complete, stand down, suppress, or send.    *)
Begin(p, r, pc, n, outcome) ==
  processor' = [processor EXCEPT ![p] =
    [pc |-> pc, round |-> r, n |-> n, outcome |-> outcome, holds |-> TRUE]]

Take(p, r, transport) ==
  LET claimed == IF log[r].status = "none" THEN "queued" ELSE log[r].status
      n == NormalizedAttempts(r) + 1 IN
  /\ processor[p].pc = "idle" /\ job[r].state = "waiting"
  /\ job' = [job EXCEPT ![r].state = "active"]
  /\ \/ /\ log[r].status # "uncertain" /\ Saw(r, "sent")
        /\ Begin(p, r, "mark", n, "confirmed") /\ UNCHANGED log
     \/ /\ Unresolved(r) /\ (log[r].status = "uncertain" \/ ~Saw(r, "sent"))
        /\ Begin(p, r, "throw", n, "none") /\ UNCHANGED log
     \/ /\ ~Unresolved(r) /\ ~Saw(r, "sent")
        /\ \/ /\ transport = "unconfigured"
              /\ log' = [log EXCEPT ![r].status = "suppressed"]
              /\ Begin(p, r, "ack", n, "none")
           \/ /\ transport = "unusable"
              /\ log' = [log EXCEPT ![r].status = claimed]
              /\ Begin(p, r, "append", n, "notSent")
           \/ /\ transport = "ready"
              /\ log' = [log EXCEPT ![r].status = claimed]
              /\ Begin(p, r, "send", n, "none")
  /\ UNCHANGED <<claim, outbox, accepted, mishaps>>

At(p, pc) == processor[p].pc = pc

Goto(p, pc) == processor' = [processor EXCEPT ![p].pc = pc]

Append1(p, outcome) ==
  log' = [log EXCEPT ![processor[p].round].lineage =
            Append(@, [n |-> processor[p].n, outcome |-> outcome])]

Start(p) ==
  /\ At(p, "send")
  /\ Append1(p, "started") /\ Goto(p, "transmit")
  /\ UNCHANGED <<claim, outbox, job, accepted, mishaps>>

(* sendVia: the provider accepts or not, and the answer may be lost. *)
Transmit(p) ==
  /\ At(p, "transmit")
  /\ \E took \in {0, 1}, outcome \in Outcomes :
       /\ outcome = "sent" => took = 1
       /\ outcome = "notSent" => took = 0
       /\ accepted' = accepted + took
       /\ processor' = [processor EXCEPT ![p].pc = "append", ![p].outcome = outcome]
  /\ UNCHANGED <<claim, outbox, job, log, mishaps>>

RecordOutcome(p) ==
  /\ At(p, "append")
  /\ Append1(p, processor[p].outcome) /\ Goto(p, "mark")
  /\ UNCHANGED <<claim, outbox, job, accepted, mishaps>>

(* markEmailSent writes any row; the other marks are guarded. *)
MarkEmail(p) ==
  LET r == processor[p].round
      outcome == processor[p].outcome
      open == log[r].status \in {"queued", "failed"}
      status == CASE outcome = "sent" -> "sent"
                  [] outcome = "confirmed" -> IF log[r].status = "suppressed" THEN "suppressed" ELSE "sent"
                  [] outcome = "notSent" -> IF open THEN "failed" ELSE log[r].status
                  [] outcome = "uncertain" -> IF open THEN "uncertain" ELSE log[r].status IN
  /\ At(p, "mark")
  /\ log' = [log EXCEPT ![r].status = status]
  /\ Goto(p, "settle")
  /\ UNCHANGED <<claim, outbox, job, accepted, mishaps>>

(* A write of an accepted outcome fails, or the removal of the staged       *)
(* attachments after it: the send-failure handler records the attempt as    *)
(* not sent.                                                                *)
WriteFault(p) ==
  /\ Mishap
  /\ processor[p].pc \in {"append", "mark", "settle"} /\ processor[p].outcome = "sent"
  /\ processor' = [processor EXCEPT ![p].pc = "append", ![p].outcome = "notSent"]
  /\ UNCHANGED <<claim, outbox, job, log, accepted>>

Exhausted(r) == job[r].made + 1 >= QueueAttempts

(* Mutants: a rejection settles the claim while the queue still retries;    *)
(* an unresolved answer counts as acceptance.                               *)
VerdictEarly(p) ==
  CASE processor[p].outcome \in {"sent", "confirmed"} -> "sent"
    [] processor[p].outcome = "notSent" -> "failed"
    [] OTHER -> claim.status

VerdictOptimistic(p) ==
  CASE processor[p].outcome \in {"sent", "confirmed", "uncertain"} -> "sent"
    [] processor[p].outcome = "notSent" /\ Exhausted(processor[p].round) -> "failed"
    [] OTHER -> claim.status

(* settleDunningClaim: acceptance, or the rejection of the last attempt *)
Verdict(p) ==
  CASE processor[p].outcome \in {"sent", "confirmed"} -> "sent"
    [] processor[p].outcome = "notSent" /\ Exhausted(processor[p].round) -> "failed"
    [] OTHER -> claim.status

SettleClaim(p) ==
  /\ At(p, "settle")
  /\ claim' = IF claim.status = "staged" /\ Verdict(p) # "staged"
                THEN [claim EXCEPT !.status = Verdict(p), !.old = FALSE] ELSE claim
  /\ Goto(p, IF processor[p].outcome \in {"sent", "confirmed"} THEN "ack" ELSE "throw")
  /\ UNCHANGED <<outbox, job, log, accepted, mishaps>>

(* PostAcceptanceBookkeepingError: the job is retried, nothing is marked. *)
BookkeepingFault(p) ==
  /\ At(p, "settle") /\ processor[p].outcome \in {"sent", "confirmed"}
  /\ Goto(p, "throw")
  /\ UNCHANGED <<claim, outbox, job, log, accepted, mishaps>>

(* The end of a job: only its lock holder moves it. *)
Finish(p) ==
  LET r == processor[p].round IN
  /\ processor[p].pc \in {"ack", "throw"}
  /\ processor' = [processor EXCEPT ![p] = Idle]
  /\ job' = IF ~processor[p].holds THEN job
            ELSE IF processor[p].pc = "ack" THEN [job EXCEPT ![r].state = "done"]
            ELSE [job EXCEPT ![r].made = @ + 1,
                             ![r].state = IF Exhausted(r) THEN "failed" ELSE "waiting"]
  /\ UNCHANGED <<claim, outbox, log, accepted, mishaps>>

(* The queue gives a lost job to another processor, up to MaxStalled times. *)
Redelivered(r) ==
  IF job[r].stalled < MaxStalled
    THEN [job EXCEPT ![r].state = "waiting", ![r].stalled = @ + 1]
    ELSE [job EXCEPT ![r].state = "failed"]

(* The claim has the verdict of a job the queue still believes active. *)
Rejected(p) ==
  At(p, "throw") /\ processor[p].outcome = "notSent" /\ Exhausted(processor[p].round)

Crash(p) ==
  /\ ~At(p, "idle")
  /\ IF Rejected(p) THEN Mishap ELSE UNCHANGED mishaps
  /\ processor' = [processor EXCEPT ![p] = Idle]
  /\ job' = IF processor[p].holds THEN Redelivered(processor[p].round) ELSE job
  /\ UNCHANGED <<claim, outbox, log, accepted>>

Stall(p) ==
  /\ ~At(p, "idle") /\ processor[p].holds
  /\ Mishap
  /\ processor' = [processor EXCEPT ![p].holds = FALSE]
  /\ job' = Redelivered(processor[p].round)
  /\ UNCHANGED <<claim, outbox, log, accepted>>

(* A delivery that may still move *)
Live(r) == \/ outbox[r].status \in {"pending", "running", "queued"}
           \/ job[r].state \in {"waiting", "active"}
           \/ \E p \in Processors : ~At(p, "idle") /\ processor[p].round = r

(* The retry horizon passes over a staged claim.  Without an outage every  *)
(* delivery has ended by then.                                             *)
PassHorizon ==
  /\ claim.status = "staged" /\ ~claim.old
  /\ IF \E r \in Rounds : Live(r) THEN Mishap ELSE UNCHANGED mishaps
  /\ claim' = [claim EXCEPT !.old = TRUE]
  /\ UNCHANGED <<outbox, job, log, processor, accepted>>

Transports == {"ready", "unusable", "unconfigured"}

RunDunning == Reconcile \/ \E input \in Inputs : OpenClaim(input) \/ ReArm(input)

Drain(r) == DrainClaim(r) \/ Enqueue(r) \/ MarkSucceeded(r)

Work(p) == \/ \E r \in Rounds, transport \in Transports : Take(p, r, transport)
           \/ Start(p) \/ Transmit(p) \/ RecordOutcome(p) \/ MarkEmail(p)
           \/ SettleClaim(p) \/ Finish(p)

Next ==
  \/ RunDunning
  \/ \E r \in Rounds : Drain(r) \/ DrainFails(r) \/ Replay(r)
  \/ \E p \in Processors : Work(p) \/ BookkeepingFault(p) \/ WriteFault(p) \/ Crash(p) \/ Stall(p)
  \/ PassHorizon

Spec == Init /\ [][Next]_vars

(* The scheduler ticks, the drain and the workers run, and time passes. *)
Fairness ==
  /\ WF_vars(Reconcile) /\ SF_vars(ReArm("defer")) /\ WF_vars(PassHorizon)
  /\ \A r \in Rounds : WF_vars(Drain(r))
  /\ \A p \in Processors : WF_vars(Work(p))

FairSpec == Spec /\ Fairness

-----------------------------------------------------------------------------
(* Every row and every processor has its type. *)
LettersTypeOK ==
  /\ claim \in ClaimRow
  /\ outbox \in [Rounds -> OutboxRow]
  /\ job \in [Rounds -> Job]
  /\ log \in [Rounds -> Log]
  /\ processor \in [Processors -> Processor]
  /\ accepted \in Nat /\ mishaps \in 0..MaxMishaps

(* The customer gets one letter for one rung: across re-arms, retries,     *)
(* lost provider answers and processors that die between two writes.  A    *)
(* second one takes one of the five mishaps.                               *)
LetterSentOnce == mishaps = 0 => accepted <= 1

(* No unsent letter reads as delivered: a claim marked sent, and a log row  *)
(* marked sent, were accepted by the provider.                              *)
SentIsEvidence ==
  claim.status = "sent" \/ (\E r \in Rounds : log[r].status = "sent") => accepted >= 1

(* A staged claim never blocks its rung forever: it is settled, is held for *)
(* reconciliation, or the rung used its rounds.                             *)
RungIsResolved ==
  (claim.status = "staged") ~>
     (claim.status # "staged" \/ Uncertain \/ claim.round = MaxRounds)

=============================================================================
