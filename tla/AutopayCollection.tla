-------------------------- MODULE AutopayCollection --------------------------
(***************************************************************************)
(* Automatic collection of due invoices, engine/src/payments/autopay*.ts.  *)
(*                                                                         *)
(* A collection run (the scheduler scan, or an operator's "retry now")     *)
(* charges a stored method for an invoice.  The attempt row of one         *)
(* schedule position commits before the provider is called, the call runs  *)
(* outside any transaction under the position's idempotency key, and the   *)
(* outcome and the receipt commit separately.  A session advisory lock     *)
(* (the claim) spans those transactions and dies with its connection.  A   *)
(* run may be interrupted anywhere: a later run resumes the attempt under  *)
(* the same key while the provider still keeps it.  Provider webhooks      *)
(* settle attempts at any time, without the claim.                         *)
(*                                                                         *)
(* Ages are counted in coarse hours and saturate where they stop           *)
(* mattering.  A retry day arrives at any time after it was scheduled.     *)
(***************************************************************************)
EXTENDS Integers, FiniteSets

CONSTANTS
  Invoices,      \* posted customer invoices of one autopay customer
  Runs,          \* collection runs and operator retries that may overlap
  NoRun,         \* the claim nobody holds
  MaxPosition,   \* bound: highest retry_position that is charged
  Ladder,        \* number of retry offsets for soft declines (at most 8)
  Methods,       \* payment methods on file: the primary and its backups
  ReplayWindow,  \* REPLAY_WINDOW_HOURS: ages below it may be replayed
  KeyLife,       \* how long the provider keeps an idempotency key
  FinalAction,   \* the policy's finalAction
  Gated,         \* whether an approval flow may gate a receipt
  Others,        \* whether another customer of the organization stays enrolled
  OrgStates      \* bound: the states of the organization that occur

ASSUME CollectionAssumption ==
  /\ NoRun \notin Runs /\ Invoices # {}
  /\ MaxPosition \in Nat /\ Ladder \in Nat
  /\ Methods \in 1..4
  /\ ReplayWindow \in Nat \ {0} /\ KeyLife \in Nat /\ ReplayWindow < KeyLife
  /\ FinalAction \in {"none", "suspend", "cancel"}
  /\ Gated \in BOOLEAN /\ Others \in BOOLEAN
  /\ "served" \in OrgStates /\ OrgStates \subseteq {"served", "unreadable", "off"}

Attempts == Invoices \X (0..MaxPosition)

VARIABLES
  attempt,  \* collection_attempts, unique per invoice and retry_position
  receipt,  \* documents.status of the attempt's receipt document
  balance,  \* whether an invoice is owed, owed but disputed, or settled
  customer, \* whether the enrollment is active, and how its organization is served
  sub,      \* subscriptions.status of the customer's subscription
  claim,    \* the run that holds an invoice's advisory lock
  run,      \* the in-memory state of each run
  charge,   \* the provider's memory of each idempotency key
  taken,    \* how many times the provider took an invoice's money
  events    \* provider webhooks: what was announced

vars == <<attempt, receipt, balance, customer, sub, claim, run, charge, taken, events>>

database == <<attempt, receipt, balance, customer, sub>>
provider == <<charge, taken, events>>

Attempt == [status : {"absent", "initiated", "processing", "failed", "succeeded", "canceled"},
            ref    : BOOLEAN,                        \* provider_ref is not null
            kind   : {"none", "soft", "hard", "auth"},  \* decline_kind
            retry  : BOOLEAN,                        \* next_retry_on is not null
            age    : 0..ReplayWindow]                \* now() - created_at

NoAttempt == [status |-> "absent", ref |-> FALSE, kind |-> "none", retry |-> FALSE, age |-> 0]

Receipts == {"none", "pending_approval", "approved", "posted"}

Answers == {"succeeded", "processing", "soft", "hard", "auth"}

(* answer is what the key replays; outcome is what became of the payment.   *)
Charge == [answer : Answers \cup {"none"}, age : 0..KeyLife,
           outcome : {"none", "open", "succeeded", "failed"}]

Event == [of : Attempts, status : {"succeeded", "failed"}]

Phases == {"idle", "selected", "listed", "claim", "resume", "close", "send", "answer", "post"}

(* of is the attempt the run works on, left the methods still in its chain, *)
(* answer the provider's reply, wait the time since the row was last read.  *)
Run == [pc : Phases, of : Attempts, left : 0..Methods, answer : Answers \cup {"none"},
        wait : 0..(KeyLife - ReplayWindow)]

Idle == [pc |-> "idle", of |-> <<CHOOSE i \in Invoices : TRUE, 0>>, left |-> 0,
         answer |-> "none", wait |-> 0]

(* org: the autopay feature is on and the collection policy can be read;    *)
(* on with a policy that cannot; off.                                       *)
Customer == [enrolled : BOOLEAN, org : OrgStates]

Init ==
  /\ attempt = [a \in Attempts |-> NoAttempt]
  /\ receipt = [a \in Attempts |-> "none"]
  /\ balance = [i \in Invoices |-> "owed"]
  /\ customer = [enrolled |-> TRUE, org |-> "served"]
  /\ sub = "active"
  /\ claim = [i \in Invoices |-> NoRun]
  /\ run = [r \in Runs |-> Idle]
  /\ charge = [a \in Attempts |-> [answer |-> "none", age |-> 0, outcome |-> "none"]]
  /\ taken = [i \in Invoices |-> 0]
  /\ events = {}

-----------------------------------------------------------------------------
After(a) == <<a[1], a[2] + 1>>

(* uncollectibleReason: not posted, paid, disputed or charged back. *)
Uncollectible(i) == balance[i] # "owed"

(* Mutants: only attempts with, or only those without, a provider reference *)
(* count as interrupted.                                                    *)
OpenReferenced(a) == attempt[a].status = "initiated" /\ attempt[a].ref

OpenUnreferenced(a) == attempt[a].status = "initiated" /\ ~attempt[a].ref

(* What resumeInterruptedAttempts lists and resumeAttempt reads again. *)
Open(a) ==
  \/ attempt[a].status = "initiated"
  \/ attempt[a].status = "processing" /\ receipt[a] # "none"

(* The run ends its work on the invoice; unlocking is withCollectionClaim's *)
(* finally, and does nothing when the session was lost before.              *)
Finish(r) ==
  /\ run' = [run EXCEPT ![r] = Idle]
  /\ claim' = [i \in Invoices |-> IF claim[i] = r THEN NoRun ELSE claim[i]]

MoveTo(r, pc) == run' = [run EXCEPT ![r].pc = pc]

-----------------------------------------------------------------------------
(* runAutopayCollection visits an organization that has an active           *)
(* enrollment; runAutopayCollectionForOrg returns at once when the feature  *)
(* is off, and after the reconciliation when the policy cannot be read.     *)
Visited == (customer.enrolled \/ Others) /\ customer.org # "off"

Scanned == Visited /\ customer.org = "served"

(* The scans.  They run without the claim, so a selection may be stale by   *)
(* the time its invoice is reached.                                         *)
Select(r, a, pc) ==
  /\ run[r].pc = "idle"
  /\ a \in Attempts
  /\ run' = [run EXCEPT ![r] = [Idle EXCEPT !.pc = pc, !.of = a]]
  /\ UNCHANGED <<database, claim, provider>>

SelectInitial(r, i) ==
  /\ attempt[<<i, 0>>].status = "absent"
  /\ Scanned /\ customer.enrolled
  /\ Select(r, <<i, 0>>, "selected")

SelectRetry(r, a) ==
  /\ attempt[a].status = "failed" /\ attempt[a].kind = "soft" /\ attempt[a].retry
  /\ Scanned /\ customer.enrolled
  /\ After(a) \in Attempts /\ attempt[After(a)].status = "absent"
  /\ Select(r, After(a), "selected")

(* Mutant: the operator may also retry a charge whose outcome is unknown. *)
RetryAttemptNowUnknown(r, a) ==
  /\ attempt[a].status \in {"failed", "canceled"} /\ attempt[a].kind # "hard"
  /\ customer.enrolled /\ customer.org = "served"
  /\ Select(r, After(a), "selected")

(* retryAttemptNow refuses only hard declines. *)
RetryAttemptNow(r, a) ==
  /\ attempt[a].status = "failed" /\ attempt[a].kind # "hard"
  /\ customer.enrolled /\ customer.org = "served"
  /\ Select(r, After(a), "selected")

SelectInterrupted(r, a) ==
  /\ Open(a)
  /\ Scanned
  /\ Select(r, a, "listed")

(* withCollectionClaim is a try-lock: a held claim skips the invoice.  A    *)
(* charge goes on to its method chain when invoice and enrollment allow it. *)
TakeClaim(r) ==
  LET i == run[r].of[1]
      Charges == run[r].pc = "selected"
      Barred == claim[i] # NoRun \/ (Charges /\ (~customer.enrolled \/ Uncollectible(i))) IN
  /\ run[r].pc \in {"selected", "listed"}
  /\ \/ Barred /\ Finish(r)
     \/ /\ ~Barred
        /\ claim' = [claim EXCEPT ![i] = r]
        /\ run' = [run EXCEPT ![r].pc = IF Charges THEN "claim" ELSE "resume",
                              ![r].left = IF Charges THEN Methods ELSE 1]
  /\ UNCHANGED <<database, provider>>

(* claimAttempt: recheck the locked invoice and insert the attempt, in one  *)
(* transaction that commits before the charge is sent.                      *)
ClaimAttempt(r) ==
  LET a == run[r].of
      Skips == Uncollectible(a[1]) \/ attempt[a].status # "absent" IN
  /\ run[r].pc = "claim"
  /\ \/ Skips /\ Finish(r) /\ UNCHANGED attempt
     \/ /\ ~Skips
        /\ attempt' = [attempt EXCEPT ![a] = [NoAttempt EXCEPT !.status = "initiated"]]
        /\ run' = [run EXCEPT ![r].pc = "send", ![r].wait = 0]
        /\ UNCHANGED claim
  /\ UNCHANGED <<receipt, balance, customer, sub, provider>>

-----------------------------------------------------------------------------
(* The provider.  A key it still keeps replays its first answer; otherwise  *)
(* the charge is made, and may take the money now, later, or never.         *)
KnowsKey(a) == charge[a].answer # "none" /\ charge[a].age < KeyLife

Outcome(answer) ==
  CASE answer = "succeeded"              -> "succeeded"
    [] answer \in {"processing", "auth"} -> "open"
    [] OTHER                             -> "failed"

(* What the provider records and announces when a payment comes to an end. *)
Ends(a, record, end) ==
  /\ charge' = [charge EXCEPT ![a] = record]
  /\ taken' = [taken EXCEPT ![a[1]] = IF end = "succeeded" THEN @ + 1 ELSE @]
  /\ events' = events \cup (IF end \in {"succeeded", "failed"}
                              THEN {[of |-> a, status |-> end]} ELSE {})

(* A refused charge is answered, not announced under a reference we keep. *)
SendCharge(r) ==
  LET a == run[r].of IN
  /\ run[r].pc = "send"
  /\ \E answer \in Answers :
       /\ IF KnowsKey(a)
            THEN answer = charge[a].answer /\ UNCHANGED provider
            ELSE Ends(a, [answer |-> answer, age |-> 0, outcome |-> Outcome(answer)],
                      IF answer = "succeeded" THEN "succeeded" ELSE "open")
       /\ run' = [run EXCEPT ![r].pc = "answer", ![r].answer = answer]
  /\ UNCHANGED <<database, claim>>

(* An asynchronous payment ends. *)
SettlePayment(a) ==
  /\ charge[a].answer = "processing" /\ charge[a].outcome = "open"
  /\ \E end \in {"succeeded", "failed"} :
       Ends(a, [charge[a] EXCEPT !.outcome = end], end)
  /\ UNCHANGED <<database, claim, run>>

(* The customer follows the authentication link, sooner or later or never. *)
VerifyPayment(a) ==
  /\ charge[a].answer = "auth" /\ charge[a].outcome = "open"
  /\ Ends(a, [charge[a] EXCEPT !.outcome = "succeeded"], "succeeded")
  /\ UNCHANGED <<database, claim, run>>

-----------------------------------------------------------------------------
(* applyFinalAction and reactivateScopeSubscriptions on one subscription *)
Exhausted ==
  CASE FinalAction = "suspend" /\ sub = "active"                 -> "suspended"
    [] FinalAction = "cancel" /\ sub \in {"active", "suspended"} -> "canceled"
    [] OTHER                                                     -> sub

Reactivated == IF sub = "suspended" THEN "active" ELSE sub

(* retryLadderForClass: only soft declines have a ladder. *)
RetryFollows(a, kind) == kind = "soft" /\ a[2] < Ladder

(* recordDecline: schedule the next retry or run the final action *)
Declined(a, kind) ==
  /\ attempt' = [attempt EXCEPT ![a].status = "failed", ![a].kind = kind,
                                ![a].retry = RetryFollows(a, kind)]
  /\ sub' = IF RetryFollows(a, kind) THEN sub ELSE Exhausted

(* The reference commits first and alone, before the receipt. *)
RecordCollected(r) ==
  /\ run[r].answer = "succeeded"
  /\ attempt' = [attempt EXCEPT ![run[r].of].ref = TRUE]
  /\ MoveTo(r, "post")
  /\ UNCHANGED <<sub, claim>>

RecordProcessing(r) ==
  /\ run[r].answer = "processing"
  /\ attempt' = [attempt EXCEPT ![run[r].of].status = "processing", ![run[r].of].ref = TRUE]
  /\ Finish(r)
  /\ UNCHANGED sub

(* A hard decline with a backup behind it: park the row, charge the next    *)
(* method at the next position.  At the bound MaxPosition the chain behaves *)
(* as one with no further method on file.                                   *)
BackupFollows(r) ==
  run[r].answer = "hard" /\ run[r].left > 1 /\ After(run[r].of) \in Attempts

ParkHard(r) ==
  LET a == run[r].of IN
  /\ BackupFollows(r)
  /\ attempt' = [attempt EXCEPT ![a].status = "failed", ![a].kind = "hard"]
  /\ run' = [run EXCEPT ![r] = [Idle EXCEPT !.pc = "claim", !.of = After(a),
                                            !.left = run[r].left - 1]]
  /\ UNCHANGED <<sub, claim>>

RecordDecline(r) ==
  /\ run[r].answer \in {"soft", "hard", "auth"}
  /\ ~BackupFollows(r)
  /\ Declined(run[r].of, run[r].answer)
  /\ Finish(r)

(* recordChargeOutcome: every write demands that the row is still           *)
(* 'initiated'; otherwise it throws and the row is left alone.              *)
RecordChargeOutcome(r) ==
  /\ run[r].pc = "answer"
  /\ \/ /\ attempt[run[r].of].status = "initiated"
        /\ RecordCollected(r) \/ RecordProcessing(r) \/ ParkHard(r) \/ RecordDecline(r)
     \/ /\ attempt[run[r].of].status # "initiated"
        /\ Finish(r)
        /\ UNCHANGED <<attempt, sub>>
  /\ UNCHANGED <<receipt, balance, customer, provider>>

-----------------------------------------------------------------------------
(* postCollectionReceipt, one transaction with the attempt row locked; row  *)
(* is the attempt as its caller left it.  An existing receipt is finished,  *)
(* never minted twice; an invoice that owes nothing refuses a new posting.  *)
PostCollectionReceipt(a, row) ==
  LET Owed == balance[a[1]] # "settled"
      Posts == receipt[a] \in {"none", "approved"}
      Becomes(status) == attempt' = [attempt EXCEPT ![a] = [row EXCEPT !.status = status]] IN
  \/ /\ receipt[a] = "posted"
     /\ Becomes("succeeded")
     /\ sub' = Reactivated
     /\ UNCHANGED <<receipt, balance>>
  \/ /\ Posts /\ Owed
     /\ receipt' = [receipt EXCEPT ![a] = "posted"]
     /\ balance' = [balance EXCEPT ![a[1]] = "settled"]
     /\ Becomes("succeeded")
     /\ sub' = Reactivated
  \/ /\ receipt[a] = "none" /\ Gated /\ Owed
     /\ receipt' = [receipt EXCEPT ![a] = "pending_approval"]
     /\ Becomes("processing")
     /\ UNCHANGED <<balance, sub>>
  \/ /\ receipt[a] = "pending_approval" /\ Owed
     /\ Becomes(row.status)
     /\ UNCHANGED <<receipt, balance, sub>>

(* postCollectedReceipt in the run *)
PostReceipt(r) ==
  /\ run[r].pc = "post"
  /\ PostCollectionReceipt(run[r].of, attempt[run[r].of])
  /\ Finish(r)
  /\ UNCHANGED <<customer, provider>>

(* The posting is refused: the run reports it and leaves the row to the     *)
(* next one.                                                                *)
RefuseReceipt(r) ==
  /\ run[r].pc = "post"
  /\ receipt[run[r].of] # "posted" /\ balance[run[r].of[1]] = "settled"
  /\ Finish(r)
  /\ UNCHANGED <<database, provider>>

(* Mutant: an interrupted attempt is replayed however old it is. *)
ReplayableAnyAge(a) == TRUE

(* resumeAttempt: what was collected only posts its receipt, what may still *)
(* be replayed is sent again, the rest is closed for operator review.       *)
Replayable(a) == attempt[a].age < ReplayWindow

ResumeAttempt(r) ==
  LET a == run[r].of
      Blocked == ~Replayable(a) \/ Uncollectible(a[1]) \/ ~customer.enrolled IN
  /\ run[r].pc = "resume"
  /\ \/ ~Open(a) /\ Finish(r)
     \/ Open(a) /\ attempt[a].ref /\ MoveTo(r, "post") /\ UNCHANGED claim
     \/ /\ Open(a) /\ ~attempt[a].ref
        /\ run' = [run EXCEPT ![r].pc = IF Blocked THEN "close" ELSE "send", ![r].wait = 0]
        /\ UNCHANGED claim
  /\ UNCHANGED <<database, provider>>

CloseInterruptedAttempt(r) ==
  LET a == run[r].of IN
  /\ run[r].pc = "close"
  /\ attempt' = IF attempt[a].status = "initiated" /\ ~attempt[a].ref
                  THEN [attempt EXCEPT ![a].status = "canceled"]
                  ELSE attempt
  /\ Finish(r)
  /\ UNCHANGED <<receipt, balance, customer, sub, provider>>

(* reconcileProcessingAttempts, at the start of every run *)
ReconcileProcessing ==
  LET Posted(a) == attempt[a].status = "processing" /\ receipt[a] = "posted" IN
  /\ Visited /\ \E a \in Attempts : Posted(a)
  /\ attempt' = [a \in Attempts |-> IF Posted(a) THEN [attempt[a] EXCEPT !.status = "succeeded"]
                                                 ELSE attempt[a]]
  /\ UNCHANGED <<receipt, balance, customer, sub, claim, run, provider>>

-----------------------------------------------------------------------------
(* settleCollectionAttemptEvent, one transaction.  An event that matches no *)
(* provider_ref is acknowledged all the same, and so is a duplicate.  Each  *)
(* may be delivered late, any number of times, or never.                    *)
InFlight(a) == attempt[a].status \in {"initiated", "processing"}

SettleSucceeded(e) ==
  /\ e.status = "succeeded"
  /\ PostCollectionReceipt(e.of, [attempt[e.of] EXCEPT !.status = "processing"])

SettleFailed(e) ==
  /\ e.status = "failed" /\ customer.org # "unreadable"
  /\ \E kind \in {"soft", "hard"} : Declined(e.of, kind)
  /\ UNCHANGED <<receipt, balance>>

SettleEvent(e) ==
  LET Known == attempt[e.of].ref /\ InFlight(e.of) IN
  /\ \/ Known /\ (SettleSucceeded(e) \/ SettleFailed(e))
     \/ ~Known /\ UNCHANGED <<attempt, receipt, balance, sub>>
  /\ UNCHANGED <<customer, claim, run, provider>>

-----------------------------------------------------------------------------
(* The run dies, or a call or a transaction of it throws.  Nothing it had   *)
(* not committed remains, and its claim is free again.                      *)
Interrupt(r) ==
  /\ run[r].pc # "idle"
  /\ Finish(r)
  /\ UNCHANGED <<database, provider>>

(* The connection that carries the claim breaks while the run goes on. *)
LoseSession(r, i) ==
  /\ claim[i] = r
  /\ claim' = [claim EXCEPT ![i] = NoRun]
  /\ UNCHANGED <<database, run, provider>>

(* The receipt's approval flow: external.  It posts what it approves, or    *)
(* leaves the posting to the next run.                                      *)
ApproveReceipt(a) ==
  /\ receipt[a] = "pending_approval"
  /\ \/ receipt' = [receipt EXCEPT ![a] = "approved"] /\ UNCHANGED balance
     \/ /\ balance[a[1]] # "settled"
        /\ receipt' = [receipt EXCEPT ![a] = "posted"]
        /\ balance' = [balance EXCEPT ![a[1]] = "settled"]
  /\ UNCHANGED <<attempt, customer, sub, claim, run, provider>>

(* The invoice is paid or voided elsewhere, or disputed. *)
ChangeBalance(i, state) ==
  /\ balance[i] = "owed"
  /\ balance' = [balance EXCEPT ![i] = state]
  /\ UNCHANGED <<attempt, receipt, customer, sub, claim, run, provider>>

(* pauseEnrollment, cancelEnrollment and resumeEnrollment *)
SetEnrollment(active) ==
  /\ customer.org # "off" /\ customer.enrolled # active
  /\ customer' = [customer EXCEPT !.enrolled = active]
  /\ UNCHANGED <<attempt, receipt, balance, sub, claim, run, provider>>

(* The feature is switched on or off, the policy broken or mended. *)
ChangeOrg(state) ==
  /\ state \in OrgStates \ {customer.org}
  /\ customer' = [customer EXCEPT !.org = state]
  /\ UNCHANGED <<attempt, receipt, balance, sub, claim, run, provider>>

Older(n, limit) == IF n < limit THEN n + 1 ELSE n

(* An hour passes.  A run sends its charge within KeyLife - ReplayWindow of *)
(* reading that the attempt may be replayed: the margin REPLAY_WINDOW_HOURS *)
(* leaves below the time providers keep keys.                               *)
PassHour ==
  /\ \A r \in Runs : run[r].pc = "send" => run[r].wait < KeyLife - ReplayWindow
  /\ run' = [r \in Runs |-> IF run[r].pc = "send" THEN [run[r] EXCEPT !.wait = @ + 1]
                                                  ELSE run[r]]
  /\ attempt' = [a \in Attempts |-> IF attempt[a].status = "initiated"
                   THEN [attempt[a] EXCEPT !.age = Older(@, ReplayWindow)] ELSE attempt[a]]
  /\ charge' = [a \in Attempts |-> IF charge[a].answer # "none"
                  THEN [charge[a] EXCEPT !.age = Older(@, KeyLife)] ELSE charge[a]]
  /\ UNCHANGED <<receipt, balance, customer, sub, claim, taken, events>>

CollectionStep(r) ==
  \/ TakeClaim(r) \/ ClaimAttempt(r) \/ SendCharge(r) \/ RecordChargeOutcome(r)
  \/ PostReceipt(r) \/ RefuseReceipt(r) \/ ResumeAttempt(r) \/ CloseInterruptedAttempt(r)

Next ==
  \/ \E r \in Runs : \/ \E i \in Invoices : SelectInitial(r, i) \/ LoseSession(r, i)
                     \/ \E a \in Attempts : \/ SelectRetry(r, a) \/ RetryAttemptNow(r, a)
                                            \/ SelectInterrupted(r, a)
                     \/ CollectionStep(r) \/ Interrupt(r)
  \/ \E a \in Attempts : SettlePayment(a) \/ VerifyPayment(a) \/ ApproveReceipt(a)
  \/ \E e \in events : SettleEvent(e)
  \/ \E i \in Invoices, state \in {"disputed", "settled"} : ChangeBalance(i, state)
  \/ \E active \in BOOLEAN : SetEnrollment(active)
  \/ \E state \in OrgStates : ChangeOrg(state)
  \/ ReconcileProcessing \/ PassHour

Spec == Init /\ [][Next]_vars

(* The scheduler scans for ever, and a scan does not pass the same attempt  *)
(* by every time it could take it.  Runs go on and are interrupted any      *)
(* number of times, but not for ever.  Approvals are decided.  Nothing is   *)
(* assumed of the provider: its payments and webhooks may never come.       *)
Fairness ==
  /\ \A r \in Runs : WF_vars(CollectionStep(r)) /\ <>[][~Interrupt(r)]_vars
  /\ \A a \in Attempts : /\ SF_vars(\E r \in Runs : SelectInterrupted(r, a))
                         /\ WF_vars(ApproveReceipt(a))
  /\ WF_vars(ReconcileProcessing)

FairSpec == Spec /\ Fairness

-----------------------------------------------------------------------------
(* Every row, document, run and event has its type. *)
CollectionTypeOK ==
  /\ attempt \in [Attempts -> Attempt]
  /\ receipt \in [Attempts -> Receipts]
  /\ balance \in [Invoices -> {"owed", "disputed", "settled"}]
  /\ customer \in Customer
  /\ sub \in {"active", "suspended", "canceled"}
  /\ claim \in [Invoices -> Runs \cup {NoRun}]
  /\ run \in [Runs -> Run]
  /\ charge \in [Attempts -> Charge]
  /\ taken \in [Invoices -> Nat]
  /\ events \subseteq Event

(* "a retried tick reuses the attempt and its key instead of charging       *)
(* twice": whatever interrupts the runs, however they overlap, and whatever *)
(* positions and methods they try, an invoice's money is taken at most      *)
(* once, payments the customer confirmed by hand not counted.               *)
Confirmed(i) ==
  {p \in 0..MaxPosition :
     charge[<<i, p>>].answer = "auth" /\ charge[<<i, p>>].outcome = "succeeded"}

ChargedOnce == \A i \in Invoices : taken[i] - Cardinality(Confirmed(i)) <= 1

(* "Autopay no longer charges this invoice": once an attempt was closed     *)
(* with its outcome unknown, no run, schedule or operator retry makes the   *)
(* provider charge another position of that invoice.                        *)
UnknownStopsCharging ==
  [][\A i \in Invoices, p, q \in 0..MaxPosition :
       (attempt[<<i, p>>].status = "canceled" /\ q # p) =>
         charge'[<<i, q>>].answer = charge[<<i, q>>].answer]_vars

(* In an organization that the collection scan serves from some point on    *)
(* (an active enrollment, the feature on, a readable policy) no attempt     *)
(* stays open: what the provider took is booked, what it refused is         *)
(* recorded, and what nobody can know is closed for review.  The one        *)
(* exception is named by the code: money collected for an invoice that was  *)
(* settled some other way meanwhile waits for the operator.                 *)
InterruptedIsResolved ==
  <>[]Scanned =>
    \A a \in Attempts :
      attempt[a].status = "initiated" ~>
        (attempt[a].status # "initiated" \/ (attempt[a].ref /\ balance[a[1]] = "settled"))

(* In such an organization money taken by a synchronous charge whose        *)
(* reference was kept is booked, however often the run is interrupted       *)
(* before the receipt posts and however the enrollment changed meanwhile.   *)
CollectedIsBooked ==
  <>[]Scanned =>
    \A a \in Attempts :
      (attempt[a].ref /\ charge[a].answer = "succeeded") ~>
        (receipt[a] = "posted" \/ balance[a[1]] = "settled")

=============================================================================
