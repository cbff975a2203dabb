# openbooks: TLA+ verification project

openbooks is an accounting system: a TypeScript engine (`src/engine`) over
PostgreSQL (`src/schema`), served by a web application (`src/web`) and a
background worker. This project models the parts of the engine where several
processes write the same state at different times: the posting of documents and
the outbox of work each posting leaves behind, the locks that close an accounting
period and open it again, the approval of documents by Flows, the two ways money
comes in from a payment provider (hosted checkout and automatic collection), and
the background deliveries (scheduler outbox, webhooks, dunning letters, scheduled
scripts). TLC checks the models on small instances; TLAPS proves the safety
properties of all ten for every value of their constants, one of them under a
hypothesis that section 4 names (`NoForks`).

How to run, in this directory:

    tlc -workers 2 -config MCPostingEffects.cfg MCPostingEffects
    tlapm PostingEffectsProofs.tla

`PROJECT.json` lists all runs, the source lines behind every definition, the
mutants that show each property can fail, the hazards and the findings.

## 1. Inventory

### The processes

* **Web requests** run engine commands: each command is one or several SQL
  transactions, and what comes between two transactions can be lost with the
  process.
* **The worker** (`engine/src/worker/scheduler.ts`,
  `engine/src/scheduling/scheduler.ts`) runs ticks on an interval. A tick drains
  due posting effects and re-closes expired reopen windows, among other jobs.
  More than one process may be ticking.
* **PostgreSQL** serializes: row locks, `for update skip locked`, and advisory
  locks. Triggers repeat some checks at the storage level (`je_guard`).

### The components

| Component | State | Operations | Hard behaviour |
|---|---|---|---|
| Posting effects outbox (`ledger/posting-effects.ts`, `ledger/posting-dispatch.ts`) | `posting_effects` rows: status, attempts, next attempt, lease token, terminal evidence; audit rows; each drainer's memory | enqueue, claim (by document, next due), recover stale, run steps, mark succeeded / failed, replay | Leases of slow or dead drainers; retries after part of the work; ceiling; late completions |
| Period locks (`periods/period-locks.ts`, `periods/period-policy.ts`) | `period_locks` rows per subsidiary or organization, and module | set a state, close all modules, tighten narrower rows, read the effective lock | Shadowing of the org-wide row, sequences of one transaction per module |
| Controlled reopening (`close/reopening.ts`, `reopen-lifecycle.ts`, `reopen-approvals.ts`, `reclose.ts`) | `close_reopen_requests`: status, scope, modules, expiry, amendment chain | request, extend, reject, withdraw, approve, consume, re-close by hand or by the tick | Expiry without an event, decisions on stale requests, several windows at once |
| Setup period actions (`web/lib/close/admin-period-actions.ts`) | none of its own | a sequence of lock transactions and a consumption | Crash or refusal half way |
| Document posting (`ledger/posting-commit.ts`) | `documents.status`, journal entries, outbox row | fence, check, write, flip | Races with a close |
| Document void (`ledger/document-void-*.ts`) | `documents.status`, reversal | request, complete | Races with the drain |
| Journal kernel (`journal/post-entry.ts`, `kernel-fences.ts`) | entries and lines, idempotency keys | post, reverse | Retried and concurrent posts |
| Close runs (`close/run-start.ts`, `readiness.ts`, `tasks.ts`, `run-completion.ts`) | run, tasks, approval evidence | start, refresh, complete | Evidence gone stale before the lock |
| Flows and gates (`flows/`) | submissions, runs, gates with one row per assignee, parked branches | submit, decide, delegate, escalate, withdraw, return | Several Flows over one document, parked branches, resubmission |
| Payment acceptance (`payments/acceptance-*.ts`, `payments-core/acceptance-effect.ts`) | links, attempts, receipts, parked returns, return reviews | checkout, provider events, settle, return, finalize | Events in any order and repeated, other channels, interrupted settlement |
| Autopay collection (`payments/autopay*.ts`) | attempts, receipts, enrollment, the provider's idempotency keys | select, claim, charge, record, post, resume, close, retry now, settle event | A call to the provider between two commits; keys that expire; overlapping runs |
| Payment runs (`payments/run-creation.ts`, `payment-posting.ts`) | batches and their lines | create, approve, export, post | A failure in the middle |
| Webhooks (`webhooks/`) | deliveries, endpoints with a failure streak | emit, claim, post, record, disable, redeliver, ping, attempt now | Unfenced records, leases, retry budget |
| Dunning letters (`receivables/dunning.ts`, `worker/email-worker.ts`, `delivery/`) | the rung's claim, outbox row, queue job, log and lineage of attempts | open, re-arm, drain, transmit, record, settle | Five stores written one after the other around a provider call |
| Scheduled scripts (`scheduling/scheduler.ts`, `worker/scripts-worker.ts`) | cursor, occurrence rows, jobs, run rows | claim, dispatch, run inline, mirror, stamp lost, retry | Lost tick locks, lost dispatches |
| Scheduler outbox (`scheduling/outbox.ts`) | rows with lease and attempts, terminal evidence | recover, select, claim, run, mark, replay | Two schedulers, stale leases, re-armed scans |
| Money, tax, payroll, inventory, revenue, connectors, reports, web pages | business data | computation, import, display | mostly rules and arithmetic, not concurrency |

### How they interact

Posting commits a journal, the document's flip and an outbox row together. The
outbox is drained at once by the request and, failing that, by a tick; its steps
post further journals, run scripts and flows, apply acceptances and emit
webhooks. A posting transaction takes the period fence, an advisory lock, in
shared mode and reads the period locks; every transaction that writes locks takes
it in exclusive mode. Closing GL reads the outbox: it refuses while effects of its
scope are incomplete. Voiding a posted document reads it as well. An approved
reopen request writes locks with an expiry; reads of a lock compare the expiry
with the time, so a window ends for readers without anybody writing, and the tick
writes the close some time later.

The scheduler outbox carries the recurring scans (autopay, dunning, webhooks)
and one-shot tasks (escalations, emails). A dunning letter passes through it into
the queue of the email worker. A Flow's approve branch may post the document,
which is how an approved receipt of an autopay charge or a checkout reaches the
ledger. The provider's webhooks come in through the payment acceptance handler,
which offers them to autopay as well.

### What makes them correct

* Outbox: work that was owed is done in full, given up in the open or still
  retryable; two drainers never both decide a row; a decision is final; nothing
  is stranded by a crash.
* Locks: an organization-wide hard close governs every subsidiary, and only an
  approved request opens what is hard-closed.
* Reopening: windows do not overlap, stay within the policy however they are
  amended, and none is open on a timer that belongs to nobody.
* Posting and closing: nothing is posted into a closed scope, and a closed GL
  owes no downstream work.
* Flows: a released document was approved by every gate of every matching Flow,
  the actions of every branch run once it is released, nothing of an earlier
  submission is left to release it again, and every request can be decided.
* Money from a provider: an invoice is charged once; what was collected ends in a
  receipt or in a named discrepancy; a returned payment never looks unreturned, and
  a return is not posted twice.
* Deliveries: each ends, none is recorded as done when it was not, and nothing is
  sent twice by the system's own retries.

## 2. Modules

| Module | Models | Kind |
|---|---|---|
| `PostingEffects` | the outbox and its drainers | component |
| `EffectDelivery` | what the outbox promises | abstract specification |
| `PeriodLocks` | locks, Setup, close run locking, reopen requests | component |
| `PostingClose` | `PeriodLocks` composed with posting transactions and their outbox rows | composition |
| `FlowGates` | approval of one document by several Flows | component |
| `PaymentAcceptance` | a payment link: checkout, provider events, receipts, returns | component |
| `AutopayCollection` | automatic collection of an invoice | component |
| `SchedulerOutbox` | the scheduler's durable work list | component |
| `WebhookDelivery` | outbound webhooks | component |
| `DunningLetters` | one collections letter through dunning runner, outbox, queue and email worker | composition |
| `ScriptOccurrences` | dispatch of scheduled scripts | component |
| `PostingEffectsProofs`, `FlowGatesProofs`, `AutopayCollectionProofs`, `SchedulerOutboxProofs`, `WebhookDeliveryProofs`, `ScriptOccurrencesProofs` | the theorems about the module of that name (section 4) | proofs |
| `PostingCloseProofs` | the theorems about `PeriodLocks` and `PostingClose` | proofs |
| `ReceivablesProofs` | the theorems about `DunningLetters` and `PaymentAcceptance` | proofs |
| `MC...` | instances for TLC: symmetry sets and, for Flows, the graphs | TLC |

A definition whose comment begins with "Mutant" is a plausible mistake in the
definition after it; `PROJECT.json` names the property that notices it.

### PostingEffects

| Model | Code |
|---|---|
| `effect[d]` | the `posting_effects` row: `status`, `attempt_count`, `next_attempt_at`, `locked_at`, `lease_token`, `terminal_failed_at` |
| `claims[d]` | how many random lease tokens were drawn for the row; the n-th token is the number n, since two random UUIDs differ |
| `runner[r]` | a tick (`processDuePostingEffects`) or a request (`runPostDocumentEffects`) between two awaits, with the row its claim returned |
| `applied[d]` | downstream steps whose effect exists; each is keyed by document line, so repeating one changes nothing |
| `audit[d]` | `audit_log` rows: terminal failures and authorized replays |
| `BeginTick` | the `now` of a batch and `recoverStalePostingEffects` |
| `ClaimNextDue`, `ClaimForDocument` | the two claim statements |
| `LoadDocument`, `RunStep`, `StepError` | the run outside any transaction |
| `MarkSucceeded`, `MarkFailed` | the completions, fenced by `lease_token` and `status = 'running'` |
| `ReplayTerminal` | `replayTerminalPostingEffect` |
| `Crash` | the process dies |

Details that matter and are kept: a tick reads `now` once, so a claim late in a
long batch carries an old stamp and may be stale at birth; a request loads the
document outside its `try`, so an error there leaves the row running; the failure
path uses the attempt count that the claim returned, the recovery the one in the
row; the terminal evidence is coalesced and the audit row is written when the
evidence is new.

Left out: the text of errors, notices to operators and log lines; the
authorization of a replay, which is taken as granted; the completion that commits
although its acknowledgement is lost (the drainer then goes to the failure path,
whose statement the fence turns into nothing). A due row that another
transaction has locked is skipped by `skip locked`; claims are atomic here, so
the tick that skips is a tick that claims before or after. Steps are taken as
idempotent, which the payment acceptance step is not quite (section 5). A request
whose claim returns nothing ends here; where there is no outbox row, or the row
turned pending between the claim and the look at its status,
`posting-dispatch.ts:136` runs the steps without a claim and records nothing.

### EffectDelivery

Without leases, clocks, attempts and drainers: a document's effects are owed,
progress step by step, are delivered when all steps are done, or are abandoned
with one piece of evidence and resumed with another. Delivery is for good.
`PostingEffects!KeepsPromise` is this specification under the mapping `Debt`.

### PeriodLocks

One period and one book. A lock row is its state and the hours left until
`reopen_expires_at`; time is relative, so an hour passing subtracts one from
every stamp and nothing grows. `EffectiveLock` prefers the exact row. An
expired window is a row in state `open` with 0 hours left:
`RequiresApprovedReopen` counts it as hard-closed, exactly as the code does.

| Model | Code |
|---|---|
| `SetPeriodLockState`, `MaySet` | `setPeriodLockState` and its refusals |
| `BeginSetup`, `ContinueSetup`, `StopSetup`, `ConsumeReopenRequests`, `CrashSetup` | a Setup call: one transaction per module with GL last, the first refusal ends it, a last transaction consumes requests |
| `LockCloseRun` | the locking in `closeApprovedRun` |
| `RequestPeriodReopen`, `ExtendReopenRequest`, `DeclineReopen` | requests, amendments, rejection and withdrawal |
| `ApproveReopen` | `applyPeriodReopenDecision`: supersession, consumption, overlap, expiry, narrower rows |
| `RecloseWindow` | `recloseApprovedReopenRow`, by hand or from `recloseExpiredReopens` |

Every transaction holds the exclusive fence from its start, so it is one step.
`ceiling` is what is left of the policy maximum since the first approval of an
amendment chain; the code carries that approval's time from amendment to amendment
in `impact_snapshot.amendment.approvedAt`.

Left out: period labels, the year-end seal (`assertPeriodEndReopenAllowed`), the
reversal of period-end journals by an approval, conflict scans, the routing of an
approval through flow gates, imported locks and connector replays, sandbox
organizations (which the tick skips). The order of the subledgers in
`CLOSE_MODULES` is left open; only GL's last place is kept. In this module a
close of GL, by Setup, a close run or a re-close, may be refused at any time,
because the effects it waits for are in `PostingClose`. That a window ends is
therefore not claimed here, and it is not true of the code either: the re-close of a
GL window goes through `upsertLock`, which refuses while an effect of the scope is
unsettled (`period-locks.ts:99`, `:131`), so one effect in `terminal_failed` makes
`reclose.ts:85` fail on every tick until somebody replays it. Readers of the lock
compare the expiry with the time and see the window ended all the same.

### PostingClose

Adds to `PeriodLocks` the stages of a posting transaction (fence, check, commit
or rollback) and a coarse outbox row (pending, terminal, succeeded).
`FencedLockTransaction` is any transaction of `PeriodLocks` at a moment when no
posting holds the shared fence, with the condition `Settled` wherever
`upsertLock` closes the GL of a scope. The scope of a posting is the set of
subsidiaries of its lines. `je_guard` repeats the period check under the same
fence; one check stands for both. An expiry is compared with the time of the
check, so a window that runs out between the check and the commit still takes
that one posting; `NoPostingIntoClosed` is therefore about states that somebody
wrote. `DrainEffect` lets a drain succeed only while the period is open to its
journals.

### FlowGates

One document. The graphs of its Flows are constants: the gates a trigger reaches
(`Roots`), the gates behind an approval (`Then`), the branches that end in actions
(`Acts`); `packages/forms-core/src/automation.ts` computes them from the graph.
Every command runs in one transaction under the document's advisory lock, with
its checks repeated under the lock, so each is one step.

| Model | Code |
|---|---|
| `run[n, f]`, `gate[n, g, u]` | `flow_runs` of a submission and Flow; `flow_gates`, one row per assignee |
| `parked` | `approvalContinuation` in the run's context |
| `Submit` | `submitAndReleaseIfUngated`: the Flows that match are any set |
| `Decide` | `decideGate`: quorum, park, resume, release, continuations, rejection |
| `Delegate`, `Escalate` | `delegateGate`, `escalateGate` |
| `WithdrawSubmission`, `ReturnToDraft` | `withdrawDocumentSubmission`, `returnDocumentToDraft` |

Left out: the reject branch's own actions and gates (cancelled in the same
transaction), separation of duties and authority (a decision is by whoever may
decide), e-signatures, notices and emails, void requests, the create and update
triggers, reminders, and commands that fail, since they roll back. One failure does
not roll back: a dispatch that fails commits its runs as cancelled and leaves the
draft (`submit.ts:263`); nothing waits on a cancelled run. A parked branch is
resumed without the code's second look at the authority of the person who parked it
(`gates.ts:1057`), which can only refuse.

### PaymentAcceptance

One link that quotes the whole invoice. `session` and `sent` are the provider;
`attempt` is the `payment_attempts` row with its receipt, the return parked for it
and the reviews of its returns. An event is delivered in any order and any number
of times until it is acknowledged, and one delivery is one transaction, as
`handleProviderWebhook` runs it. `DecideReceipt` and `PostReceipt` stand for the
approval flow; `CloseAttempt`, `PayLink` and `AuditClose` are the separate
statements of the posting effect, with `CrashEffect` between them.

A payment may be returned `MaxReturns` times. What a return carries decides its
way: with the link's token (`named`: Adyen, Stripe's refunds) it finds an initiated
attempt; with a payment intent (`keyed`: Stripe only) it can be parked
(`ParkReturn`), and a second one takes the place of the first; without an intent it
is answered `unknown_attempt` with status 200 (`DropReturn`) and the provider does
not send it again. A return is one unit that no other event of the payment reports:
Stripe's refund events carry cumulative totals, so several of them are one return
here, while a dispute beside a refund is a second. Adyen's cancellation of a
payment arrives under the payment's own reference, and a GoCardless event without
a billing request resolves nothing; both are returns that are not keyed.

Left out: surcharges, setup sessions, the card updater, the re-keying of a
duplicate reference, the amounts of returns, the difference between refunds and
disputes: a refund settled against an open credit memo
(`psp-refund-automation.ts:249`) and a dispute that is won or lost (`:319`). A
rejected receipt stays rejected; in the code a returned one may go back to draft,
which a redelivered success submits again (`acceptance-settlement.ts:180`).

### AutopayCollection

An attempt row commits before the provider is called, the call runs outside any
transaction under the idempotency key of its retry position, and outcome and
receipt commit separately. `run` is what a collection run has in memory;
`claim` is the advisory lock, which a run may lose with its connection
(`LoseSession`) and go on. `charge` is the provider's memory of a key, which it
forgets after `KeyLife`. `Interrupt` may end a run anywhere.

The scan visits production organizations with at least one active enrollment
(`autopay.ts:43`), leaves at once where the feature is off (`:81`), and reconciles
receipts but collects and resumes nothing where the policy cannot be read (`:86`).
`customer` holds what this customer contributes to that: the enrollment, and the
organization's state. `Visited` and `Scanned` are the two thresholds, and `Others`
says whether other customers keep the organization visited. Enrollments and the
organization change at any time (`SetEnrollment`, `ChangeOrg`), so an open attempt is
stranded for as long as the last active enrollment is paused. A webhook event, once
raised, may be delivered at once, late, any number of times, or never.

| Model | Code |
|---|---|
| `SelectInitial`, `SelectRetry`, `SelectInterrupted`, `RetryAttemptNow` | the three selections of a run and the operator's command |
| `TakeClaim`, `ClaimAttempt`, `SendCharge`, `RecordChargeOutcome`, `PostReceipt` | `collectCandidate` and what it calls |
| `ResumeAttempt`, `CloseInterruptedAttempt` | an interrupted attempt, replayed under its key or closed as unknown |
| `RefuseReceipt` | the posting of a receipt that the settled invoice refuses |
| `SettleEvent`, `ReconcileProcessing` | the provider's webhook; receipts that posted later |
| `Visited`, `Scanned`, `SetEnrollment`, `ChangeOrg` | which organizations a scan serves, and what changes it |
| `VerifyPayment` | the customer follows the authentication link (external) |

Left out: the table of decline codes (a decline is soft, hard or needs
authentication), the separate ladder for insufficient funds, refunds and disputes,
notices; a receipt that its approver rejects or returns, and its resubmission
(`autopay-recovery.ts:414`); the `processing` arm of the webhook
(`autopay-settlement.ts:311`), which writes `processing` and the reference over a row
that already has both, since the code writes the two together.

### SchedulerOutbox

Rows are singleton scans, re-armed after each run, and one-shot tasks. A pass
recovers stale leases, takes a snapshot of the due rows, then claims, runs and
marks them one by one. The report scheduler and the main one tick under different
locks, hence two passes. What a row's work does is only its outcome: done, failed,
or failed for one tenant (`SchedulerScanOrganizationError`).

### WebhookDelivery

A scan claims due deliveries by moving `next_attempt_at` one lease ahead; the
outcome, the streak, the disabling and its evidence are separate statements, none
fenced by the claim. `manual` marks a delivery that an operator queued, `late` one
that was held when its lease ran out; time does not wait for a holder, since a batch
of 100 attempts of ten seconds can take longer than the lease of five minutes.
`late` ends when a scan claims a delivery that nobody holds any more. Left out:
signing, secret rotation, address checks and the delivery log. `disableEndpoint`
throws when somebody else disabled the endpoint first (`deliver.ts:320`); the scan
then abandons its batch, as modelled, and its row in the scheduler outbox counts a
failure (`outbox.ts:734`), which belongs to `SchedulerOutbox`.

### DunningLetters

The composition of dunning runner, scheduler outbox, queue and email worker for
one rung. Every re-arm is a round with an outbox row, job and log row of its own;
all rounds share the claim. The worker's writes are separate actions around
`Transmit`, and `Crash` may come between any two. `mishaps` counts five kinds of
event under which the code does send twice (section 5): an outage longer than the
retry horizon, an operator's replay, a stalled lock, a failed write after the
provider accepted, and a death just before the queue's last verdict. Left out:
which invoices reach which rung, templates and the content of attachments. The
cleanup of staged attachments that fails after the letter was marked sent
(`email-worker.ts:408`) reaches the send-failure handler like the failed writes
before it, and is part of `WriteFault`.

### ScriptOccurrences

One script. A scanner moves the cursor and inserts the occurrence in one
statement, dispatches it to the queue or runs it inline, and recovers stale
occurrences: `Mirror` closes them from run rows, `StampLost` gives up the second
dispatch, `Retry` repeats the first. The tick lock may be lost (`LoseLock`).

Run rows carry the id of their occurrence, except those of an operator's "Run now"
(`RunNow`), which carry none. The recovery has two sources of evidence: the run row
linked to the occurrence, and, for the oldest open occurrence without one, the
newest unlinked row since its claim (`ClosedBy`, `Oldest`). `unlinked[t]` is that
row, and `nth` orders the occurrences one pass claimed under the same stamp. Left
out: invalid cron expressions.

## 3. Runs

| Run | Instance | States | Shows |
|---|---|---|---|
| `posting_effects` | 1 document, 2 ticks, 1 request, 2 steps, 2 attempts, 1 replay | 265 k | the outbox, its refinement of `EffectDelivery`, and that effects settle |
| `posting_close` | the organization and 1 subsidiary, 1 subledger and GL, 2 requests, 1 administrator, windows of 2 hours, 1 document | 1.44 M | locks of two scopes, windows through extensions and crashes, posting against closing |
| `scheduler_outbox` | 1 scan, 1 task, 2 passes, 2 attempts, 1 replay | 271 k | leases, evidence, and that nothing stalls |
| `autopay` | 1 invoice, 1 run, 2 positions, 2 methods, gated receipts, enrollment and policy that come and go | 295 k | one charge; what is interrupted ends and what is collected is booked while the scan serves the organization |
| `webhooks` | 1 event, 1 endpoint, 2 scans, 1 operator | 164 k | what a lease excludes, that success stays, and that deliveries end |
| `webhook_slow_batch` | 2 events, 2 scans, batches of 2 | | a finding of section 5 |
| `dunning_letters` | 2 rounds, 1 processor, 2 queue attempts, 1 mishap | 415 k | one letter, honest evidence, and that the rung ends |
| `script_occurrences` | 1 tick, 2 scanners, 1 worker, Run now | 373 k | dispatch and recovery |
| `acceptance` | 2 attempts, one of them returned up to twice, approvals | 1.03 M | receipts and returns in any order of events |
| `acceptance_two_returns` | 1 attempt returned twice | | a finding of section 5 |
| `flow_gates` | 2 Flows, 3 gates, 3 people, 2 submissions | 49 k | approval |
| `flow_parallel_branch` | 1 Flow that opens 2 gates at once | | a finding of section 5 |

The properties, each with a mutant in `PROJECT.json` that violates it:

* `LeaseExclusive`, `NewestClaimDecides`: a drainer paused past the stale bound
  wakes when its row belongs to somebody else, or to nobody; it decides nothing.
* `SucceededMeansApplied`: success is recorded only when the whole run is done,
  whoever did which part.
* `AttemptCeiling`, `TerminalEvidence`: the three comparisons with the ceiling
  agree, and each terminal failure has exactly one audit row through replays.
* `UnfinishedIsRetryable`: no void makes unfinished work impossible to replay.
* `KeepsPromise`: all of it together, as an implementation of `EffectDelivery`.
* `EffectsSettle`: no crash strands a row.
* `HardCloseDominates`, `HardCloseNeedsApproval`: an org-wide hard close cannot
  be undercut by a subsidiary's row, and only an approval lifts it; a window that
  has run out takes postings again only by an approval too.
* `LiveWindowsDisjoint`, `EveryTimerHasAWindow`, `WindowWithinPolicy`: windows
  and lock rows agree through amendments, supersession, consumption and Setup.
* `ClosedMeansSettled`, `NoPostingIntoClosed`: the fence and the settled check.
* `EvidencePaired`, `SucceededIsFinal`, `EveryTaskEnds`, `ScansKeepRunning`: a
  terminal row has its evidence through replays, no superseded pass writes on a
  finished task, and neither a task nor a scan is stranded.
* `ChargedOnce`: an invoice's money is taken once, whatever overlaps or is
  interrupted. Payments a customer confirms by hand are not counted (section 5).
  `UnknownStopsCharging`: after an attempt whose outcome nobody knows, nothing
  charges that invoice again.
* `InterruptedIsResolved`, `CollectedIsBooked` (autopay): in an organization that
  the scan serves from some point on (`<>[]Scanned`) no attempt stays open, and the
  money of a charge whose reference was kept is booked. Where the scan stops
  serving it, neither holds (section 5).
* `LeaseExcludes`, `DeliveredIsFinal`, `EveryDeliveryEnds`: two holders of a
  delivery, and the loss of a recorded success, take an operator or a holder that
  outlasted its lease; all deliveries end, also on a dead endpoint.
* `LetterSentOnce`, `SentIsEvidence`, `RungIsResolved`: one letter unless a mishap
  happened; with or without one, what reads as sent was accepted, and a claim
  never blocks its rung.
* `ClosedByRunSince`, `DispatchedAtMostTwice`, `EveryOccurrenceCloses`: an
  occurrence is closed by its own execution, by a Run now that came after its claim,
  or as lost, and never by another occurrence's execution; it is retried once.
* `ReturnedIsKnown`, `ReturnsPostOnce`, `CollectedIsBooked` (acceptance): a payment
  with an acknowledged return never looks unreturned; redelivered, replayed and
  reviewed a return posts once; a paid session gets its receipt, or the discrepancy
  that says why not.
* `ReleasedMeansApproved`, `NothingDangling`, `EveryBranchRuns`,
  `ActionsAfterRelease`, `EveryRequestIsDecided`: see the inventory.

Each component also has a type invariant. They are not part of the runs, since all
of them are theorems, and so is `PostingEffects!SucceededIsFinal`.

### Bounds, and why they are enough

* `Horizon` (posting outbox) is the length of a sliding window of time. All
  comparisons are between a stamp and `now` or `now - Stale`; stamps that fall
  behind the window rest at its beginning, where they are due and stale just as
  they were. The window is longer than the stale bound and the backoff, so a lease
  can be fresh, on the edge and stale, and a retry early and due.
* `MaxAttempts = 2` gives a first attempt, a last one and the ceiling;
  `MaxReplays = 1` a second life after a terminal failure. Two ticks and a
  request are a superseded drainer, its successor and a competitor.
* `Steps = 2` lets a run fail between two steps.
* Windows of 2 hours are live, shorter than the maximum, and expired. Two
  requests are a window and its amendment, or two windows that compete. The ids
  of requests are used once: `Requests` bounds how many are ever made.
* `posting_close` uses a `VIEW` that does not tell apart two ended requests, nor the
  scopes of postings whose effects have succeeded. No guard, no right-hand side and
  no property reads these parts, so states with the same view have the same
  successors up to the view.
* One subsidiary beside the organization is enough for shadowing, since
  subsidiaries do not read each other's rows; one subledger beside GL is enough
  for the order, since subledgers are treated alike.
* Autopay: two positions are a charge and its retry, two methods a primary and a
  backup; the ages distinguish a key that may be replayed, one that may not and one
  the provider has forgotten. One run is interrupted and followed by the next; that
  runs overlap, and that one loses its lock to another, is not in this instance and
  rests on the two theorems, which hold for any set of runs.
* Webhooks: a budget of 1 and a lease of 2 let a delivery be retried, go dead and
  be claimed again; a threshold of 2 lets a streak grow and end. A batch holds one
  delivery; larger ones, of which a scan may abandon the rest, are in
  `webhook_slow_batch` and in the theorems.
* Dunning: two rounds are a letter and its replacement, two queue attempts a
  failure and a retry. `MaxMishaps = 1`: the properties stated under mishaps are
  checked under each of them singly. A job lost with its processor is not given to
  another (`MaxStalled = 0`, one processor); redelivery rests on the theorems.
  `RungIsResolved` lets the last round stay open, since a re-arm needs a next one;
  with two rounds it is a statement about the first.
* Scripts: with `LastTick = 1` two scanners compete for one tick. Two ticks make
  more than 16 M states; that an occurrence is not closed by another's execution is
  therefore a matter of the theorem `OccurrenceClosedByRun`.
* Acceptance: two attempts are two customers on one link. One of them may be
  returned (`Returnable`), up to twice, which is what an overwritten marker takes.
* Flows: two Flows are needed for parking, two gates in a row for resumption, two
  submissions for leftovers; quorum `all` has two seats and an escalation, quorum
  `any` two seats as well. Submitting forgets the closed rows of earlier
  submissions, which nothing reads.
* Symmetry is declared over the requests of `posting_close`, where only safety is
  checked; they are interchangeable in the specification and no constant names one
  of them.
* `CHECK_DEADLOCK FALSE` is set where the bounds let the system come to rest: all
  rounds, ticks, replays, submissions or attempts used up.

### Fairness

* Posting outbox: the clock runs; the interval restarts a tick; what a process
  awaits returns or rejects (`RunnerNext`) unless the process is killed. A tick may
  be killed again and again, but not each time between its recovery and its claim:
  hence strong fairness of `ClaimNextDue`. Nothing is assumed of users: requests,
  voids and replays may never happen.
* Period locks and posting against closing: none; only safety is stated there.
* Scheduler outbox, webhooks and scripts: some process keeps ticking, and the
  processes are not killed at the same statement for ever (strong fairness of that
  statement, by whichever of them). Operators are not fair.
* Autopay: a run that is not interrupted goes on, and runs are interrupted any
  number of times but not for ever (`<>[][~Interrupt(r)]_vars`). The scan comes back
  for ever and takes up each interrupted attempt that it finds again and again
  (strong fairness of `SelectInterrupted`, whose guard has `Scanned`: nothing is
  promised where the scan does not look); receipts are reconciled wherever it
  visits; approvals are decided. Nothing is assumed of the enrollment, the
  organization, the customer, or the provider's webhooks; the two properties are
  stated for organizations that stay served.
* Dunning: the runner ticks, the drain and the workers run, and time passes. The
  strong fairness of `ReArm("defer")` says that the claim's re-arm does not always
  end in a suppressed letter.
* Acceptance: the provider redelivers a success until it is acknowledged, and the
  settlement does not throw on every delivery. Nothing is assumed of returns,
  approvals or the customer.
* Flows: while somebody is asked, somebody decides; which of them and how is open.
  Delegation and escalation are not fair. A rejection counts as a decision and is
  always possible, so `EveryRequestIsDecided` says that someone can decide, not that
  an approval can succeed.

## 4. Proofs

Every theorem holds for every value of the constants that satisfies the named
`ASSUME` of its module; TLC evaluates these assumptions on each run. The table
lists the theorems about a property of section 3; each proofs module also has a
`TypeCorrect`. `PostingCloseProofs` has one for `PeriodLocks` and
`PostingTypeCorrect`; in `ReceivablesProofs` they are `LettersTypeCorrect` and
`AcceptanceTypeCorrect`.

Every invariant and every action property of a passing run is a theorem, one of
them under a hypothesis on the constants (`NoForks`) without which the property is
false; the argument says why.

| Module | Theorem | Statement |
|---|---|---|
| `PostingEffectsProofs` | `LeaseExclusion` | `Spec => []LeaseExclusive` |
| | `CeilingExact` | `Spec => []AttemptCeiling` |
| | `EvidenceExact` | `Spec => []TerminalEvidence` |
| | `AlwaysRetryable` | `Spec => []UnfinishedIsRetryable` |
| | `SuccessHonest` | `Spec => []SucceededMeansApplied` |
| | `SuccessFinal` | `Spec => SucceededIsFinal` |
| | `NewestDecides` | `Spec => NewestClaimDecides` |
| | `PromiseKept` | `Spec => KeepsPromise` (refinement of `EffectDelivery`) |
| `PostingCloseProofs` | `WindowsWithinPolicy` | `Spec => []WindowWithinPolicy` |
| | `NoTwoWindowsShareAModule` | `Spec => []LiveWindowsDisjoint` |
| | `TimersHaveWindows` | `Spec => []EveryTimerHasAWindow` |
| | `ClosedOrgDominates` | `Spec => []HardCloseDominates` |
| | `ReopeningNeedsApproval` | `Spec => HardCloseNeedsApproval` |
| | `PostingRefinesLocks` | `PCSpec => Spec` (the composition implements `PeriodLocks`) |
| | `ClosedIsSettled` | `PCSpec => []ClosedMeansSettled` |
| | `PostsIntoOpenOnly` | `PCSpec => NoPostingIntoClosed` |
| | `LocksHoldWhilePosting` | the lock theorems, of `PCSpec` |
| `FlowGatesProofs` | `NothingDangles` | `Spec => []NothingDangling` |
| | `ReleaseNeedsEveryGate` | `Spec => []ReleasedMeansApproved` |
| | `TerminalActionsAfterRelease` | `Spec => ActionsAfterRelease` |
| | `BranchesRunWithoutForks` | `NoForks` implies `Spec => []EveryBranchRuns` |
| `AutopayCollectionProofs` | `InvoiceChargedOnce` | `Spec => []ChargedOnce` |
| | `UnknownIsNotCharged` | `Spec => UnknownStopsCharging` |
| `SchedulerOutboxProofs` | `EvidenceIsPaired` | `Spec => []EvidencePaired` |
| | `DeliveredIsFinal` | `Spec => SucceededIsFinal` |
| `ScriptOccurrencesProofs` | `OccurrenceClosedByRun` | `Spec => []ClosedByRunSince` |
| | `AtMostTwoDispatches` | `Spec => []DispatchedAtMostTwice` |
| `WebhookDeliveryProofs` | `NoSecondHolder` | `Spec => []LeaseExcludes` |
| | `SuccessStays` | `Spec => DeliveredIsFinal` |
| `ReceivablesProofs` | `SentHasEvidence` | `Spec => []SentIsEvidence` |
| | `LetterIsSentOnce` | `Spec => []LetterSentOnce` |
| | `ReturnsArePostedOnce` | `AcceptanceSpec => []ReturnsPostOnce` |
| | `ReturnedStaysKnown` | `AcceptanceSpec => []ReturnedIsKnown` |

### The arguments

**Posting outbox.** From `ConstantsAssumption`.

1. *Types* are inductive by themselves.
2. *`Fence`* is the heart. `LeaseExclusive` is not inductive: a state in which a
   drainer holds a token that has not been drawn yet satisfies it, and the next
   claim breaks it. `Fence` adds that a row is leased to its newest claim
   (`LeasedToNewest`), that a drainer in the middle of a run holds a token that
   was drawn (`HoldersClaimed`), that two drainers of one document hold different
   tokens (`TokensDiffer`), and that the owner remembers the row's own attempt
   count (`OwnersCount`), so the failure path and the row agree on the ceiling.
3. *`RowStep`* says what any step of any process can do to one row: keep it,
   queue it, claim it, drop it, complete it or replay it. The ceiling, the
   evidence, finality and retryability follow from these cases and no longer look
   at the actions.
4. *`Delivered`*: a drainer at step k has all steps before k behind it
   (`InOrder`), and steps are never undone, so success is honest.
5. *The refinement*: initial states map to initial states; `PromiseStep` maps each
   step. The only step that touches many documents is the recovery, which is
   `Abandon` of the set of rows that reach the ceiling, or a stutter.

**Period locks.** From `LockConstants`. `Kinds` reduces the actions to a few kinds
of step; each invariant is then kept kind by kind.

1. `TypeInv` adds to the types that a new request asks for at least one hour.
2. `PolicyInv` adds that a pending amendment carries what is left of the maximum of
   the window it amends (`AmendsKept`), so that the end of a chain is bounded by its
   beginning.
3. `LiveWindowsDisjoint` is inductive over the types: an approval checks every
   live window it does not consume or supersede.
4. `TimerBacked` is `EveryTimerHasAWindow` with the exact window: scope, modules
   and expiry. It needs disjointness, since the re-close of one window must not
   take away another's row.
5. `CloseReachesDown` is what `HardCloseDominates` lacks: under a closed org-wide
   row no narrower row is soft-closed, or open without an end. Together with
   `TimerBacked` it gives the property.
6. `HardCloseNeedsApproval` needs no invariant beyond the types. A hard-closed row
   is reopened by nothing else. For a window that has run out, a step that closes rows
   or keeps them (`ClosedOrKept`) leaves the scope blocked (`ClosingKeepsBlocked`), and
   Setup refuses to open it, so what remains is an approval (`ExpiredNeedsApproval`).

**Posting against closing.** `PostingLeavesLocks` shows that the steps of a posting
stutter for `PeriodLocks`, which gives the refinement. `ClosedMeansSettled` needs
`CheckedOpen`: what a checked posting saw open is not closed until it ends. That is
the purpose of the shared fence.

**Flows.** From `FlowAssumption` and `GraphAssumption`: branches stay in the graph of their Flow and the trigger leads
to each of its gates, so a gate that no trigger reaches is not a constant of the
model. `DanglingInv` adds that an open row belongs to a waiting run (`OpenHasRun`)
and that a waiting run without parked branch has an open row (`WaitsForSomeone`).
`ApprovalInv` adds `BranchesFollow`: the trigger's gates were created, and each
created gate keeps its seats and, once decided, its quorum and the gates behind it.
When nothing is open any more, the decided gates contain the trigger's and are
closed under approve branches; by `GraphAssumption` they are all gates of the Flow.
This replaces an induction over the graph, which the prover cannot do.

`EveryBranchRuns` is proved for graphs in which gates follow one another
(`NoForks`: the trigger reaches one gate, an approve branch at most one); with
parallel gates it is false (section 5). `BranchInv` adds to `ApprovalInv` that a run
waits at one gate at a time (`OneGateOpen`), that a run with a parked branch waits
at none (`ParkedIsLast`), and that the actions behind a decided gate ran or are
parked on a waiting run (`ActedOrParked`). The first two are what keeps a parked
branch from being overwritten or left behind by a decision on its own run; a
release picks up the branches of the others, and after it no run waits.

**Autopay.** From `CollectionAssumption`, whose essential part is
`ReplayWindow < KeyLife`. `CollectionInv` consists of

* `ProviderInv`: what the provider answered fits what became of the payment
  (`ChargeOK`), `taken` counts the payments that succeeded (`Counted`), and
  webhooks announce what happened (`Announced`);
* `RowOK`, for each attempt row: a charge has a row; while the row may be replayed
  its charge is no older than it; a failed row means a charge that took nothing
  and never will unless the customer confirms it (`Dead`); a receipt or a
  reference rests on money taken (`Collected`); and all earlier positions failed
  (`EarlierFailed`);
* `RunOK`, for each run in memory: the age of the charge it is about to send again
  is below the replay window plus the time it has waited, hence below `KeyLife`.

So a key is never sent after the provider forgot it, and of two positions that took
money without the customer's help the earlier would be `Dead`. The second theorem
follows from `EarlierFailed` and `Dead` too: an unknown attempt is not failed, so
no later position is charged, and the earlier ones have their answer.

**Scheduler outbox.** From `OutboxAssumption`. The count of evidence does not say
which generation fails next; `Numbered` says that generations are numbered without
a gap, `TerminalFailed` that only a failed row is terminal.

**Scripts.** From `OccurrenceAssumption`. `Budget` bounds the dispatches made and
in some process's hand by what the row's status allows; `HeldOnce` says that no two
processes hold the same dispatch, `RetryMarked` that the row of a second dispatch
left `queued` before, `Untouched` that ticks from the cursor on have no row yet.
`EvidenceInv` says that evidence is written after the execution it reports and that
whoever is about to close an occurrence has that evidence in hand, so that what the
recovery takes from an unlinked row (`Oldest`) is the only other way to be closed
with an outcome.

**Webhooks.** From `DeliveryAssumption`. `DeliveryOK` speaks of a delivery that is
`Clean`: nobody queued it by hand and no holder outlasted its lease. It has one
holder, who has it once, and while it is held it is pending and not due, so no scan
claims it; an operator's immediate attempt is of a delivery queued by hand. Time may
pass over any lease, and what it makes due while it is held becomes `late`. A
delivered row that is `Clean` is held by nobody, hence nobody is left to overwrite
it, which is `DeliveredIsFinal`.

**Dunning letters.** From `LettersAssumption`.

1. `LetterTypes` adds to the types that a lock on a job has one holder, that its
   job is active, and that a job that has not failed has a try left, which bounds
   the attempt counter.
2. `EvidenceInv` follows every trace of an acceptance, in a row, in a lineage or in
   a processor's memory, back to the provider. It holds with any number of mishaps.
3. `LetterSentOnce` speaks of behaviours without a mishap, so its invariant is
   `mishaps = 0 => Calm`. An attempt that started and was not recorded as not sent
   may have reached the customer; `Evident` says that a lineage still shows it.
   `Calm` says that every round before the claim's is finished (`Finished`: its job
   ended, never came, or has had its last rejection) and shows no such attempt, that
   the rounds after it are untouched, that a processor which may still transmit does
   so with nothing accepted, and that attempts are numbered one after the other and
   decided once (`Numbered`). The numbering is needed because `Evident` compares
   records by attempt number: two attempts under one number would let the failure of
   the second hide the first.

**Payment acceptance.** From `AcceptanceAssumption`.

1. `AcceptanceInv` keeps `RowSound` (a posted receipt has an amount, the units
   returned are the posted reviews, each review and each parked marker names a return
   the provider raised) and `MoneySound` (amount and open balance stay within the
   quote, and at most one attempt has an amount). The second is why the balance
   keeps its type when a return is posted. `ReturnsPostOnce` follows by counting:
   distinct posted reviews are distinct returned events.
2. `SessionInv` says that the provider's session and the attempt agree, so a return
   is never met by an attempt that failed. `KeptInv` says, for any number of returns,
   that an acknowledged return with an intent is on its review row or some return of
   the payment was parked, and that a marker is consumed only when some return is on
   a review row. `ReturnedIsKnown` follows. The stronger `ReturnNotLost`, that each
   return is itself known, is false as soon as there are two (section 5).

### Only model-checked

* Liveness (`EffectsSettle`, `EveryTaskEnds`, `ScansKeepRunning`,
  `InterruptedIsResolved`, `CollectedIsBooked`, `EveryDeliveryEnds`,
  `RungIsResolved`, `EveryOccurrenceCloses`, `EveryRequestIsDecided`): fairness and
  `ENABLED` are out of the prover's reach.

## 5. Findings

Three findings have a run of their own, which expects the violation:

* `flow_parallel_branch` (`flows/gates.ts:1013`): a Flow may open two gates at
  once. The first approved branch is parked on the run while the other gate is
  open. The decision on the other gate releases the document and completes the
  run, and the continuations it picks up are those of every run except the current
  one, so the parked actions never run. The comment at line 997 says "Finish
  terminal branches after every governing Flow has released the subject."
* `webhook_slow_batch` (`webhooks/deliver.ts:222`): "one delivery is never attempted
  twice". A scan leases its whole batch with one stamp and attempts it one by one;
  while it waits for the first, the lease of the second runs out and another scan
  claims it. An operator's attempt does not look at the lease either
  (`deliver.ts:547`); the property leaves that out.
* `acceptance_two_returns` (`payments/acceptance-webhooks.ts:381`): a return that
  precedes its success is parked "instead of dropping it as unknown_attempt (which
  200s and loses the return forever)". A second return of the same payment writes
  over the marker of the first, which the provider was told is received; the first
  has no row anywhere.

Other statements of the source that the code does not keep, met while modelling.
The models contain these behaviours; the properties of the runs are stated beside
them, and the sequences below can be followed in the models.

* Period locks. `close/reclose.ts:102` says another live window covers different
  modules "by construction of the overlap check", which ignores expired requests:
  the delayed re-close of an org-wide window closes the row of a subsidiary window
  approved meanwhile. `periods/period-locks.ts:301` says "A hard-closed scope can
  only be reopened through the independently approved reopen-case workflow": an
  org-wide soft close rewrites an expired window, which counts as hard-closed, to
  a soft close that Setup may release (line 246), and a subsidiary row that Setup
  opens inside an org-wide window goes on accepting postings after the expiry
  until the re-close commits (line 330). A posting effect in `terminal_failed`
  refuses the re-close of a GL window on every tick until it is replayed
  (`reclose.ts:85`).
* Autopay. The scan lists organizations with an active enrollment
  (`autopay.ts:43`), so when the last one is paused an open attempt is neither resumed
  nor closed, and money collected before the interruption is not booked until some
  customer enrols again. A webhook that arrives before the reference of a processing charge has
  committed finds no attempt and is acknowledged (`autopay-settlement.ts:291`);
  nobody asks the provider again. A charge that waits for the customer's
  authentication is recorded as a soft decline, so an operator may charge again
  while the first can still be confirmed (`autopay-attempts.ts:683`); `ChargedOnce`
  leaves these confirmations out. `reconcileProcessingAttempts` does not reactivate
  the subscription although the comment at `autopay.ts:276` says so.
* Payment acceptance. A return without an intent that precedes its success is still
  answered `unknown_attempt` (`acceptance-webhooks.ts:388`). A success redelivered after its receipt posted is recorded as
  exceeding the balance (`acceptance-settlement.ts:122`). An invoice cleared by
  another channel leaves the attempt succeeded with a discrepancy and no receipt,
  against the comment at line 118. A crash between the statements of the acceptance
  effect leaves the paid link active, and the retry returns early
  (`acceptance-effect.ts:58`).
* Dunning. "the letter is never sent twice" (`email-worker.ts:55`) has the five
  exceptions that `mishaps` counts: the retry horizon measured by the wall clock
  through an outage (`dunning.ts:658`), a replay after a re-arm (`outbox.ts:1125`),
  the failed write of an acceptance (`email-worker.ts:399`), two processors of a
  stalled job (`email-worker.ts:257`) and a death between settling and
  acknowledging (`email-worker.ts:513`). The verdict on an abandoned letter settles
  the claim of its replacement, since the fence is the claim's id and status
  (`email-config.ts:674`).
* Webhooks. A redelivery does not restart the retry budget, which is
  measured from the event's time (`deliver.ts:408`, `endpoints.ts:393`). A worker
  that dies after disabling an endpoint leaves no evidence (`deliver.ts:307`).
* Scripts. Run rows without an occurrence "belong to no occurrence and must never
  absorb one" (`scripting.ts:1348`): the recovery closes the oldest stale occurrence
  without a linked run row from the newest such row since its claim
  (`scheduler.ts:465`), and an operator's Run now writes them. Nothing marks the row
  as used, so it may close several occurrences on successive ticks. "live dispatches
  are never raced by recovery" (`scheduler.ts:429`): a re-dispatch does not move
  `at`, so the next recovery may stamp it lost while it runs (`scheduler.ts:524`).
* Scheduler outbox. A pass claims from its snapshot without asking again whether
  the row is due, so a row that failed and backed off meanwhile is claimed early
  (`outbox.ts:1028`).

## 6. Plan

Order of the work that remains, the most important first:

1. `PaymentRuns`: creation, approval, export and posting of a batch with a failure
   in the middle.
2. `JournalKernel`: idempotency keys and reversal under concurrent retries, and
   the refinement of `PostingClose`'s commit by it; `DocumentVoid` on top of it.
3. `CloseRun`: readiness evidence, approval, refresh under the fence, lock.
4. Decimal and allocation arithmetic as operators against a reference.

### Not modelled, and why

The repository has about two million lines, most of them pages, registries,
reports, statutory rule tables, connectors and generated or declarative data. The
models cover the engine's concurrent protocols, which are a small share of these
lines and will stay so. Tax, payroll, e-invoicing and statutory packs are rule
tables and formats; connectors and migration are third-party protocols; reports
and consolidation compute over data at rest; pages display. They keep no
concurrent state that the models here do not already cover. Inventory,
manufacturing, revenue and benefits are subledgers whose entries go through the
posting transaction and the posting outbox; their own arithmetic is data-heavy
and beyond TLC.
