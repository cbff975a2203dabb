--------------------------- MODULE PostingEffects ---------------------------
(***************************************************************************)
(* The durable posting-effects outbox of engine/src/ledger.                *)
(*                                                                         *)
(* Posting a document inserts one posting_effects row in the posting       *)
(* transaction.  The row is drained after the commit, either at once by    *)
(* the request that posted the document (runPostDocumentEffects) or later  *)
(* by a scheduler tick (processDuePostingEffects).  A drain claims the row *)
(* under a fresh lease token, runs the downstream steps outside any        *)
(* transaction, and then completes the row under that token.  A drainer    *)
(* may crash, or may be so slow that another tick recovers its lease.      *)
(*                                                                         *)
(* One time unit is one minute.  Time is a sliding window of length        *)
(* Horizon: when the clock has reached its end, every stored stamp ages    *)
(* by one instead, and stamps older than the window rest at 0.             *)
(***************************************************************************)
EXTENDS Integers

CONSTANTS
  Docs,          \* documents that may be posted
  NoDoc,         \* the absence of a document
  Workers,       \* scheduler ticks: one per process that can hold the tick
  Requests,      \* synchronous callers of runPostDocumentEffects
  Steps,         \* number of downstream steps of one run
  MaxAttempts,   \* MAX_POSTING_EFFECTS_ATTEMPTS (8)
  Stale,         \* STALE_POSTING_EFFECTS_MS, in minutes (15)
  BackoffCap,    \* ceiling of the backoff, in minutes (60)
  Batch,         \* rows one tick drains at most (50)
  Horizon,       \* bound: length of the time window
  MaxReplays     \* bound: authorized replays of one document's effects

ASSUME ConstantsAssumption ==
  /\ NoDoc \notin Docs
  /\ Workers \cap Requests = {}
  /\ Steps \in Nat /\ Steps >= 1
  /\ MaxAttempts \in Nat /\ MaxAttempts >= 1
  /\ Stale \in Nat /\ BackoffCap \in Nat
  /\ Batch \in Nat /\ Batch >= 1
  /\ Horizon \in Nat /\ Horizon > Stale
  /\ MaxReplays \in Nat

VARIABLES
  clock,     \* wall clock of the processes
  document,  \* documents.status, as far as the outbox tells it apart
  effect,    \* the posting_effects row of each document
  claims,    \* claims ever made of a row; a claim's number is its lease token
  runner,    \* the in-memory state of each drainer
  applied,   \* the downstream steps of a document that have taken effect
  audit      \* append-only audit_log rows about a document's effects

vars == <<clock, document, effect, claims, runner, applied, audit>>

Runners == Workers \cup Requests

None == -1   \* SQL null in a timestamp or a lease_token column

Statuses == {"absent", "pending", "running", "succeeded", "failed", "terminal_failed"}

Row == [status : Statuses, attempts : 0..MaxAttempts, nextAt : Nat,
        lockedAt : Nat \cup {None}, lease : Nat \cup {None},
        terminalAt : Nat \cup {None}]

NoRow == [status |-> "absent", attempts |-> 0, nextAt |-> 0,
          lockedAt |-> None, lease |-> None, terminalAt |-> None]

(* A drainer: where it stands, the `now` its batch captured, the row it     *)
(* claimed (document, token, attempt_count as returned by the claim), the   *)
(* next downstream step and how many rows its batch may still claim.        *)
Phases == {"idle", "claim", "load", "run", "complete", "fail"}

Drainer == [pc : Phases, now : Nat, doc : Docs \cup {NoDoc}, token : Nat,
            attempt : 0..MaxAttempts, step : 1..(Steps + 1), left : 0..Batch]

Idle == [pc |-> "idle", now |-> 0, doc |-> NoDoc, token |-> 0,
         attempt |-> 0, step |-> 1, left |-> 0]

(* A drainer that owns a claimed row in memory. *)
Holding(r) == runner[r].pc \in {"load", "run", "complete", "fail"}

(* postingEffectsBackoffMs: min(cap, 2^(n-1)) minutes. *)
Backoff(n) ==
  LET b == 2 ^ (IF n > 1 THEN n - 1 ELSE 0)
  IN  IF b \in 0..BackoffCap THEN b ELSE BackoffCap

Init ==
  /\ clock = 0
  /\ document = [d \in Docs |-> "approved"]
  /\ effect = [d \in Docs |-> NoRow]
  /\ claims = [d \in Docs |-> 0]
  /\ runner = [r \in Runners |-> Idle]
  /\ applied = [d \in Docs |-> 0]
  /\ audit = [d \in Docs |-> [terminal |-> 0, replay |-> 0]]

-----------------------------------------------------------------------------
(* Posting: the status flip and the outbox row are one transaction; an      *)
(* existing row of the document keeps its state.                            *)
EnqueuePostingEffects(d) ==
  IF effect[d].status = "absent"
    THEN [NoRow EXCEPT !.status = "pending", !.nextAt = clock]
    ELSE effect[d]

PostDocument(d) ==
  /\ document[d] = "approved"
  /\ document' = [document EXCEPT ![d] = "posted"]
  /\ effect' = [effect EXCEPT ![d] = EnqueuePostingEffects(d)]
  /\ UNCHANGED <<clock, claims, runner, applied, audit>>

(* Mutant: a void that only waits for work in progress. *)
VoidDocumentUnsettled(d) ==
  /\ document[d] \in {"approved", "posted"}
  /\ effect[d].status \notin {"pending", "running"}
  /\ document' = [document EXCEPT ![d] = "voided"]
  /\ UNCHANGED <<clock, effect, claims, runner, applied, audit>>

(* completeRequestedVoid re-checks the outbox row in its own transaction:   *)
(* an issued document has none, a posted one must have succeeded.           *)
VoidDocument(d) ==
  /\ document[d] \in {"approved", "posted"}
  /\ effect[d].status \in {"absent", "succeeded"}
  /\ document' = [document EXCEPT ![d] = "voided"]
  /\ UNCHANGED <<clock, effect, claims, runner, applied, audit>>

-----------------------------------------------------------------------------
(* The two updates every failure path shares: the row after a failed        *)
(* attempt, and the audit row written in the same transaction exactly when  *)
(* this statement recorded the terminal evidence ("becameTerminal").        *)
Released(row, terminal, now, nextAt) ==
  [row EXCEPT !.status = IF terminal THEN "terminal_failed" ELSE "failed",
              !.lockedAt = None, !.lease = None, !.nextAt = nextAt,
              !.terminalAt = IF terminal /\ @ = None THEN now ELSE @]

(* Mutant: the terminal transition without its audit row. *)
AuditTerminalDropped(entry, row, terminal, now) == entry

AuditTerminal(entry, row, terminal, now) ==
  IF terminal /\ row.terminalAt \in {None, now}
    THEN [entry EXCEPT !.terminal = @ + 1]
    ELSE entry

Claimed(row, token, now) ==
  [row EXCEPT !.status = "running", !.attempts = @ + 1,
              !.lockedAt = now, !.lease = token]

Claimable(d) ==
  /\ effect[d].status \in {"pending", "failed"}
  /\ effect[d].attempts < MaxAttempts

(* What a claim puts in the drainer's memory. *)
Holder(d, now, left) ==
  [pc |-> "load", now |-> now, doc |-> d, token |-> claims[d] + 1,
   attempt |-> effect[d].attempts + 1, step |-> 1, left |-> left]

(* Mutant: the attempt number serves as the lease token. *)
ClaimByAttempt(r, d, now, left) ==
  /\ Claimable(d)
  /\ effect' = [effect EXCEPT ![d] = Claimed(@, effect[d].attempts + 1, now)]
  /\ claims' = [claims EXCEPT ![d] = @ + 1]
  /\ runner' = [runner EXCEPT ![r] = [Holder(d, now, left) EXCEPT !.token = effect[d].attempts + 1]]
  /\ UNCHANGED <<clock, document, applied, audit>>

Claim(r, d, now, left) ==
  /\ Claimable(d)
  /\ effect' = [effect EXCEPT ![d] = Claimed(@, claims[d] + 1, now)]
  /\ claims' = [claims EXCEPT ![d] = @ + 1]
  /\ runner' = [runner EXCEPT ![r] = Holder(d, now, left)]
  /\ UNCHANGED <<clock, document, applied, audit>>

-----------------------------------------------------------------------------
(* Mutant: recovery overlooks a claim that has used its last attempt. *)
IsStaleRetryable(d, now) ==
  /\ effect[d].status = "running"
  /\ effect[d].attempts < MaxAttempts
  /\ effect[d].lockedAt < now - Stale

(* Mutant: the ceiling is off by one. *)
AtCeilingLate(row) == row.attempts > MaxAttempts

(* recoverStalePostingEffects: one statement over every row whose lease is  *)
(* older than the bound, and the audit rows in the same transaction.        *)
IsStale(d, now) ==
  /\ effect[d].status = "running"
  /\ effect[d].lockedAt # None
  /\ effect[d].lockedAt < now - Stale

AtCeiling(row) == row.attempts >= MaxAttempts

RecoverStale(now) ==
  /\ effect' = [d \in Docs |->
       IF IsStale(d, now) THEN Released(effect[d], AtCeiling(effect[d]), now, now)
                          ELSE effect[d]]
  /\ audit' = [d \in Docs |->
       IF IsStale(d, now)
         THEN AuditTerminal(audit[d], effect[d], AtCeiling(effect[d]), now)
         ELSE audit[d]]

(* processDuePostingEffects.  `now` is read once, when the tick begins; the *)
(* recovery is its first statement, and every claim and completion of the   *)
(* batch is stamped with the same `now`, however late it comes.             *)
BeginTick(w) ==
  /\ runner[w].pc = "idle"
  /\ RecoverStale(clock)
  /\ runner' = [runner EXCEPT ![w] = [Idle EXCEPT !.pc = "claim", !.now = clock,
                                                  !.left = Batch]]
  /\ UNCHANGED <<clock, document, claims, applied>>

Due(d, now) == Claimable(d) /\ effect[d].nextAt <= now

(* order by next_attempt_at limit 1 *)
ClaimNextDue(w) ==
  LET now == runner[w].now IN
  /\ runner[w].pc = "claim"
  /\ runner[w].left > 0
  /\ \E d \in Docs :
       /\ Due(d, now)
       /\ \A e \in Docs : Due(e, now) => effect[d].nextAt <= effect[e].nextAt
       /\ Claim(w, d, now, runner[w].left - 1)

EndTick(w) ==
  /\ runner[w].pc = "claim"
  /\ runner[w].left = 0 \/ \A d \in Docs : ~Due(d, runner[w].now)
  /\ runner' = [runner EXCEPT ![w] = Idle]
  /\ UNCHANGED <<clock, document, effect, claims, applied, audit>>

(* claimPostingEffectsForDocument: the request's own claim does not wait    *)
(* for next_attempt_at.  A row it cannot claim makes the call return.       *)
ClaimForDocument(q, d) ==
  /\ runner[q].pc = "idle"
  /\ Claim(q, d, clock, 0)

-----------------------------------------------------------------------------
(* runPostDocumentEffects after the claim.  No lock is held: between any    *)
(* two of these steps the lease may be recovered and the row re-claimed.    *)
LoadDocument(r) ==
  /\ runner[r].pc = "load"
  /\ runner' = [runner EXCEPT ![r].pc =
                  IF document[runner[r].doc] = "posted" THEN "run" ELSE "fail"]
  /\ UNCHANGED <<clock, document, effect, claims, applied, audit>>

(* The steps run in order, each one idempotent by document line: inventory, *)
(* obligations and stored value, asset proposals, scripts, flows, status    *)
(* event, acceptance, webhooks.                                             *)
RunStep(r) ==
  LET k == runner[r].step
      d == runner[r].doc IN
  /\ runner[r].pc = "run"
  /\ k <= Steps
  /\ applied' = [applied EXCEPT ![d] = IF @ < k THEN k ELSE @]
  /\ runner' = [runner EXCEPT ![r].step = k + 1,
                              ![r].pc = IF k = Steps THEN "complete" ELSE "run"]
  /\ UNCHANGED <<clock, document, effect, claims, audit>>

(* Mutant: a rejected step is logged and the run counts as done. *)
StepErrorSwallowed(r) ==
  /\ runner[r].pc = "run"
  /\ runner' = [runner EXCEPT ![r].pc = "complete"]
  /\ UNCHANGED <<clock, document, effect, claims, applied, audit>>

(* Any awaited call of the run may reject, the completion's own statement   *)
(* included.  A request loads the document outside its try block: what      *)
(* rejects there leaves the row 'running', as a crash does.                 *)
StepError(r) ==
  /\ runner[r].pc \in {"run", "complete"} \/ (runner[r].pc = "load" /\ r \in Workers)
  /\ runner' = [runner EXCEPT ![r].pc = "fail"]
  /\ UNCHANGED <<clock, document, effect, claims, applied, audit>>

(* Mutant: completion of whatever attempt is running. *)
OwnsLeaseRunning(r) == effect[runner[r].doc].status = "running"

(* where id = .. and lease_token = .. and status = 'running' *)
OwnsLease(r) ==
  /\ effect[runner[r].doc].status = "running"
  /\ effect[runner[r].doc].lease = runner[r].token

(* A request's completion reads the clock; a tick's carries its batch now. *)
CompletionTime(r) == IF r \in Workers THEN runner[r].now ELSE clock

(* After a completion, fenced or not, a tick goes on with its batch and a   *)
(* request returns.                                                         *)
Resumed(r) ==
  IF r \in Workers
    THEN [Idle EXCEPT !.pc = "claim", !.now = runner[r].now, !.left = runner[r].left]
    ELSE Idle

MarkSucceeded(r) ==
  LET d == runner[r].doc IN
  /\ runner[r].pc = "complete"
  /\ effect' = IF OwnsLease(r)
                 THEN [effect EXCEPT ![d].status = "succeeded", ![d].lockedAt = None,
                                     ![d].lease = None, ![d].nextAt = CompletionTime(r)]
                 ELSE effect
  /\ runner' = [runner EXCEPT ![r] = Resumed(r)]
  /\ UNCHANGED <<clock, document, claims, applied, audit>>

MarkFailed(r) ==
  LET d == runner[r].doc
      now == CompletionTime(r)
      terminal == runner[r].attempt >= MaxAttempts IN
  /\ runner[r].pc = "fail"
  /\ effect' = IF OwnsLease(r)
                 THEN [effect EXCEPT ![d] =
                         Released(@, terminal, now, now + Backoff(runner[r].attempt))]
                 ELSE effect
  /\ audit' = IF OwnsLease(r)
                THEN [audit EXCEPT ![d] = AuditTerminal(@, effect[d], terminal, now)]
                ELSE audit
  /\ runner' = [runner EXCEPT ![r] = Resumed(r)]
  /\ UNCHANGED <<clock, document, claims, applied>>

-----------------------------------------------------------------------------
(* Mutant: the replay forgets the terminal evidence columns. *)
ReplayKeepsEvidence(d) ==
  /\ audit[d].replay < MaxReplays
  /\ effect[d].status = "terminal_failed"
  /\ document[d] = "posted"
  /\ effect' = [effect EXCEPT ![d].status = "pending", ![d].attempts = 0, ![d].nextAt = clock]
  /\ audit' = [audit EXCEPT ![d].replay = @ + 1]
  /\ UNCHANGED <<clock, document, claims, runner, applied>>

(* replayTerminalPostingEffect, with its authorization granted. *)
ReplayTerminal(d) ==
  /\ audit[d].replay < MaxReplays
  /\ effect[d].status = "terminal_failed"
  /\ document[d] = "posted"
  /\ effect' = [effect EXCEPT ![d] = [NoRow EXCEPT !.status = "pending", !.nextAt = clock]]
  /\ audit' = [audit EXCEPT ![d].replay = @ + 1]
  /\ UNCHANGED <<clock, document, claims, runner, applied>>

(* A drainer's process dies; the row it claimed stays 'running'. *)
Crash(r) ==
  /\ runner[r].pc # "idle"
  /\ runner' = [runner EXCEPT ![r] = Idle]
  /\ UNCHANGED <<clock, document, effect, claims, applied, audit>>

Older(t) == IF t > 0 THEN t - 1 ELSE t

Aged(row) == [row EXCEPT !.nextAt = Older(@), !.lockedAt = Older(@), !.terminalAt = Older(@)]

(* A minute passes. *)
Tick ==
  /\ \/ /\ clock < Horizon
        /\ clock' = clock + 1
        /\ UNCHANGED <<effect, runner>>
     \/ /\ clock = Horizon
        /\ clock' = clock
        /\ effect' = [d \in Docs |-> Aged(effect[d])]
        /\ runner' = [r \in Runners |-> [runner[r] EXCEPT !.now = Older(@)]]
  /\ UNCHANGED <<document, claims, applied, audit>>

RunnerNext(r) ==
  \/ LoadDocument(r) \/ RunStep(r) \/ StepError(r)
  \/ MarkSucceeded(r) \/ MarkFailed(r)

Next ==
  \/ Tick
  \/ \E d \in Docs : PostDocument(d) \/ VoidDocument(d) \/ ReplayTerminal(d)
  \/ \E w \in Workers : BeginTick(w) \/ ClaimNextDue(w) \/ EndTick(w)
  \/ \E q \in Requests, d \in Docs : ClaimForDocument(q, d)
  \/ \E r \in Runners : RunnerNext(r) \/ Crash(r)

Spec == Init /\ [][Next]_vars

(***************************************************************************)
(* Fairness.  The clock runs; setInterval restarts the tick; a process     *)
(* that is not killed goes on with what it awaits.  A tick may be killed   *)
(* again and again, but not for ever between its recovery and its first    *)
(* claim (strong fairness of the claim).  Nothing is assumed of users.     *)
(***************************************************************************)
Fairness ==
  /\ WF_vars(Tick)
  /\ \A w \in Workers : /\ WF_vars(BeginTick(w)) /\ WF_vars(EndTick(w))
                         /\ SF_vars(ClaimNextDue(w))
  /\ \A r \in Runners : WF_vars(RunnerNext(r))

FairSpec == Spec /\ Fairness

-----------------------------------------------------------------------------
(* Every variable has the shape of its column or in-memory value. *)
TypeOK ==
  /\ clock \in Nat
  /\ document \in [Docs -> {"approved", "posted", "voided"}]
  /\ effect \in [Docs -> Row]
  /\ claims \in [Docs -> Nat]
  /\ runner \in [Runners -> Drainer]
  /\ applied \in [Docs -> 0..Steps]
  /\ audit \in [Docs -> [terminal : Nat, replay : Nat]]

(* Lease exclusion: whatever mixture of ticks, requests, crashes and stale  *)
(* recoveries happened, at most one drainer holds the token that can        *)
(* complete a row (the lease_token fence of both completion statements).    *)
LeaseExclusive ==
  \A r, s \in Runners :
    (/\ r # s /\ Holding(r) /\ Holding(s)
     /\ runner[r].doc = runner[s].doc
     /\ OwnsLease(r)) => ~OwnsLease(s)

(* A succeeded row is a promise that every downstream step of the document  *)
(* took effect, whoever ran it and however often it was interrupted.        *)
SucceededMeansApplied ==
  \A d \in Docs : effect[d].status = "succeeded" => applied[d] = Steps

(* The attempt ceiling: a row leaves the retry loop only as succeeded or as *)
(* terminal, and it is terminal only after the last allowed attempt.        *)
AttemptCeiling ==
  \A d \in Docs :
    /\ effect[d].status \in {"pending", "failed"} => effect[d].attempts < MaxAttempts
    /\ effect[d].status = "terminal_failed" => effect[d].attempts = MaxAttempts

(* Every terminal failure, and no other transition, left one audit row; a   *)
(* replay left its own; and the live row carries terminal evidence exactly  *)
(* while it is terminal.                                                    *)
TerminalEvidence ==
  \A d \in Docs :
    /\ (effect[d].terminalAt # None) <=> (effect[d].status = "terminal_failed")
    /\ audit[d].terminal = audit[d].replay +
         (IF effect[d].status = "terminal_failed" THEN 1 ELSE 0)

(* "A posted document cannot be voided while its effects remain incomplete, *)
(* so the retry remedy stays available": unfinished work never sits on a    *)
(* document the replay refuses.                                             *)
UnfinishedIsRetryable ==
  \A d \in Docs :
    effect[d].status \in {"pending", "running", "failed", "terminal_failed"}
      => document[d] = "posted"

(* Success is final: no late failure, recovery, claim or replay reopens it. *)
SucceededIsFinal ==
  [][\A d \in Docs : effect[d].status = "succeeded" => effect'[d].status = "succeeded"]_vars

(* A step that takes a row out of 'running' is either the completion of its *)
(* newest claim or the recovery of a lease that outlived the stale bound: a *)
(* superseded drainer never decides the outcome.                            *)
NewestClaimDecides ==
  [][\A d \in Docs :
       (effect[d].status = "running" /\ effect'[d].status # "running") =>
         \/ \E r \in Runners :
              /\ Holding(r) /\ ~Holding(r)'
              /\ runner[r].doc = d /\ runner[r].token = claims[d]
         \/ clock - effect[d].lockedAt > Stale]_vars

(* Every posted document's effects finish: they succeed, or they become     *)
(* terminal and visible to an operator.  No crash strands a row.            *)
EffectsSettle ==
  \A d \in Docs : (effect[d].status # "absent") ~>
                    (effect[d].status \in {"succeeded", "terminal_failed"})

-----------------------------------------------------------------------------
(* The refinement mapping to the abstract promise. *)
Debt(d) ==
  CASE effect[d].status = "absent" -> "none"
    [] effect[d].status = "succeeded" -> "delivered"
    [] effect[d].status = "terminal_failed" -> "abandoned"
    [] OTHER -> "owed"

Promise == INSTANCE EffectDelivery
  WITH Documents <- Docs, AllSteps <- Steps,
       debt <- [d \in Docs |-> Debt(d)], done <- applied, evidence <- audit

(* The leased, retried, crash-prone outbox implements the abstract promise: *)
(* every step of every drainer is a step of EffectDelivery or invisible.    *)
KeepsPromise == Promise!DSpec

=============================================================================
