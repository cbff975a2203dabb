--------------------------- MODULE PaymentAcceptance ---------------------------
(***************************************************************************)
(* Hosted checkout of one payment link on one invoice: the checkout        *)
(* sessions, the provider's webhooks, the receipt each paid session books, *)
(* the returns (refunds and disputes) it may suffer, and the posting       *)
(* effect that closes the attempt when an approval posts the receipt.      *)
(*                                                                         *)
(* The link quotes the whole invoice, Quote units.  A return is of one     *)
(* unit that no other event of the payment reports: a dispute, or a refund *)
(* (Stripe's cumulative refund totals, which restate the earlier ones, are *)
(* one return).  A webhook event is one tenant transaction                 *)
(* (handleProviderWebhook runs processWebhookEvent in withOrg): it is      *)
(* delivered in any order, any number of times, and until it is            *)
(* acknowledged.                                                           *)
(***************************************************************************)
EXTENDS Integers, FiniteSets

CONSTANTS
  Quote,          \* payment_links.amount
  Attempts,       \* checkout sessions the customer may open
  Returnable,     \* bound: the attempts whose payment may be returned
  MaxReturns,     \* bound on the returns of one payment
  Approvals       \* whether a flow may gate receipts and returns

ASSUME AcceptanceAssumption ==
  /\ Quote \in Nat \ {0} /\ MaxReturns \in 0..Quote /\ Returnable \subseteq Attempts
  /\ Approvals \in BOOLEAN

Returns == 1..MaxReturns

VARIABLES
  link,     \* payment_links.status
  balance,  \* documents.open_balance of the invoice
  attempt,  \* payment_attempts, with receipt, parked marker and return reviews
  session,  \* the provider's checkout sessions
  sent,     \* events the provider raised
  acked     \* successes and returns it need not deliver again

acceptanceVars == <<link, balance, attempt, session, sent, acked>>

(* marker: the return parked for this payment (0: none), consumed or not.   *)
(* review: payment_disputes.  returned: units the automation posted back.   *)
(* closing: progress of the posting effect of an approved receipt.          *)
Attempt == [status : {"none", "initiated", "succeeded", "failed", "cancelled", "refunded"},
            journal : BOOLEAN, intent : BOOLEAN,
            receipt : {"none", "pending", "approved", "rejected", "posted", "reversed"},
            total : 0..Quote, discrepancy : {"none", "evidence", "exceeds"},
            marker : 0..MaxReturns, consumed : BOOLEAN,
            review : [Returns -> {"none", "pending", "posted"}], returned : Nat,
            closing : {"none", "owed", "link", "audit"}]

(* exact: the event reports the quoted amount.  named: it carries the       *)
(* link's token, as Adyen's returns and Stripe's refunds do.  keyed: it     *)
(* carries a payment intent, as every return of Stripe's does and no other  *)
(* provider's.                                                              *)
Event == [attempt : Attempts, kind : {"succeeded", "processing", "failed", "cancelled", "returned"},
          exact : BOOLEAN, named : BOOLEAN, keyed : BOOLEAN, ret : 0..MaxReturns]

AcceptanceInit ==
  /\ link = "active" /\ balance = Quote
  /\ attempt = [a \in Attempts |->
       [status |-> "none", journal |-> FALSE, intent |-> FALSE, receipt |-> "none", total |-> 0,
        discrepancy |-> "none", marker |-> 0, consumed |-> FALSE,
        review |-> [r \in Returns |-> "none"], returned |-> 0, closing |-> "none"]]
  /\ session = [a \in Attempts |-> "none"]
  /\ sent = {} /\ acked = {}

Plain(a, kind) ==
  [attempt |-> a, kind |-> kind, exact |-> TRUE, named |-> TRUE, keyed |-> TRUE, ret |-> 0]

-----------------------------------------------------------------------------
(* createCheckoutSession, serialized by the link's advisory lock: the quote *)
(* must still be the open balance, and an initiated attempt is reused.      *)
CreateCheckout(a) ==
  /\ link = "active" /\ balance = Quote
  /\ attempt[a].status = "none"
  /\ ~\E b \in Attempts : attempt[b].status = "initiated"
  /\ attempt' = [attempt EXCEPT ![a].status = "initiated"]
  /\ session' = [session EXCEPT ![a] = "open"]
  /\ UNCHANGED <<link, balance, sent, acked>>

(* voidPaymentLink, or a checkout or a view of the page after expires_on *)
CloseLink ==
  /\ link = "active" /\ link' = "closed"
  /\ UNCHANGED <<balance, attempt, session, sent, acked>>

-----------------------------------------------------------------------------
(* The provider *)
Raise(e) == sent' = sent \cup {e}

Money == {"succeeded", "returned"}

Ack(e) == acked' = acked \cup {x \in {e} : x.kind \in Money}

Pay(a) ==
  /\ session[a] \in {"open", "processing"}
  /\ session' = [session EXCEPT ![a] = "paid"]
  /\ \E exact \in BOOLEAN : Raise([Plain(a, "succeeded") EXCEPT !.exact = exact])
  /\ UNCHANGED <<link, balance, attempt, acked>>

(* A bank debit completes the session before the money moves. *)
Debit(a) ==
  /\ session[a] = "open"
  /\ session' = [session EXCEPT ![a] = "processing"]
  /\ Raise(Plain(a, "processing"))
  /\ UNCHANGED <<link, balance, attempt, acked>>

FailDebit(a) ==
  /\ session[a] = "processing"
  /\ session' = [session EXCEPT ![a] = "ended"]
  /\ Raise(Plain(a, "failed"))
  /\ UNCHANGED <<link, balance, attempt, acked>>

ExpireSession(a) ==
  /\ session[a] = "open"
  /\ session' = [session EXCEPT ![a] = "ended"]
  /\ Raise(Plain(a, "cancelled"))
  /\ UNCHANGED <<link, balance, attempt, acked>>

ReturnOf(a, r, named, keyed) ==
  [Plain(a, "returned") EXCEPT !.ret = r, !.named = named, !.keyed = keyed]

(* A link has one provider: its returns are all keyed, or none is. *)
ReturnPayment(a, r) ==
  /\ a \in Returnable /\ session[a] = "paid"
  /\ r = 1 \/ \E e \in sent : e.attempt = a /\ e.ret = r - 1
  /\ ~\E e \in sent : e.attempt = a /\ e.ret = r
  /\ \E named, keyed \in BOOLEAN :
       /\ \A e \in sent : e.kind = "returned" => e.keyed = keyed
       /\ Raise(ReturnOf(a, r, named, keyed))
  /\ UNCHANGED <<link, balance, attempt, session, acked>>

-----------------------------------------------------------------------------
(* An outcome is what one event leaves behind: the attempt, the invoice and *)
(* the link.                                                                *)
Outcome(row, due, lnk) == [row |-> row, due |-> due, lnk |-> lnk]

(* finalizePaymentAcceptanceForDocument inside the event's transaction *)
Finalized(o) ==
  IF o.row.journal THEN o
    ELSE Outcome([o.row EXCEPT !.status = "succeeded", !.journal = TRUE], o.due,
                 IF o.due <= 0 /\ o.lnk = "active" THEN "paid" ELSE o.lnk)

(* The receipt posts, applied to the invoice. *)
Posted(o) ==
  Finalized(Outcome([o.row EXCEPT !.receipt = "posted", !.total = Quote], o.due - Quote, o.lnk))

Exceeds(due) == Quote > due

(* settleAttempt *)
Settled(o) ==
  CASE Exceeds(o.due) -> {[o EXCEPT !.row.discrepancy = "exceeds"]}
    [] ~Exceeds(o.due) /\ o.row.receipt = "posted" -> {Finalized(o)}
    [] ~Exceeds(o.due) /\ o.row.receipt = "pending" -> {o}
    [] ~Exceeds(o.due) /\ o.row.receipt = "approved" -> {Posted(o)}
    [] ~Exceeds(o.due) /\ o.row.receipt = "none" ->
         {Posted(o)} \cup (IF Approvals THEN {[o EXCEPT !.row.receipt = "pending"]} ELSE {})
    [] OTHER -> {}   \* "refusing to settle over it": the transaction rolls back

(* Mutant: a redelivered return posts again. *)
RecordedNever(row, r) == FALSE

(* The return is already posted on its payment_disputes row. *)
Recorded(row, r) == row.review[r] = "posted"

(* processProviderRefundEvent: a return without a posted receipt, or one a  *)
(* flow gates, waits for review; else the receipt is reversed and what      *)
(* remains of it posted again.                                              *)
Returned(o, r) ==
  LET parked == [o EXCEPT !.row.review[r] = "pending"]
      left == o.row.total - 1
      posted == Outcome([o.row EXCEPT !.review[r] = "posted", !.returned = @ + 1, !.total = left,
                           !.receipt = IF left = 0 THEN "reversed" ELSE "posted",
                           !.status = IF left = 0 THEN "refunded" ELSE "succeeded"],
                        o.due + 1, o.lnk)
  IN CASE Recorded(o.row, r) -> {o}
       [] ~Recorded(o.row, r) /\ o.row.receipt # "posted" -> {parked}
       [] OTHER -> {posted} \cup (IF Approvals THEN {parked} ELSE {})

(* Mutant: the marker is consumed and its return forgotten. *)
ReplayedNever(o) == {[o EXCEPT !.row.consumed = TRUE]}

(* consumePendingClawback and replayParkedReturn *)
Replayed(o) ==
  IF o.row.marker = 0 \/ o.row.consumed THEN {o}
    ELSE Returned([o EXCEPT !.row.consumed = TRUE], o.row.marker)

-----------------------------------------------------------------------------
(* processWebhookEvent *)

(* Mutant: only an initiated attempt is claimed. *)
ClaimableOnce(row, kind) == row.status = "initiated"

(* CLAIMABLE_FROM, and the reclaim of an attempt that has no journal yet *)
Claimable(row, kind) ==
  \/ row.status = "initiated"
  \/ kind = "returned" /\ row.status \in {"succeeded", "refunded"}
  \/ kind = "succeeded" /\ row.status \in {"succeeded", "refunded"} /\ ~row.journal

(* Returns go by the payment's intent or reference, which the attempt       *)
(* learns from an earlier event; one that names the link finds an initiated *)
(* attempt without it.                                                      *)
Resolved(e) ==
  LET row == attempt[e.attempt] IN
  e.kind # "returned" \/ row.intent \/ (e.named /\ row.status = "initiated")

RowStatus(kind) ==
  CASE kind = "processing" -> "initiated"
    [] kind = "returned" -> "refunded"
    [] OTHER -> kind

Claim(row, kind) ==
  [row EXCEPT !.status = RowStatus(kind), !.intent = @ \/ kind # "cancelled"]

Leave(a, o) ==
  /\ attempt' = [attempt EXCEPT ![a] = o.row]
  /\ balance' = o.due /\ link' = o.lnk
  /\ UNCHANGED <<session, sent>>

Settles(e) == e.kind = "succeeded"

Before(e) == Outcome(Claim(attempt[e.attempt], e.kind), balance, link)

(* A return that finds no attempt is parked under its intent; a later one   *)
(* overwrites it, and a consumed marker stays consumed.                     *)
ParkReturn(e) ==
  /\ e \in sent /\ e.kind = "returned" /\ ~Resolved(e) /\ e.keyed
  /\ attempt' = [attempt EXCEPT ![e.attempt].marker = e.ret]
  /\ Ack(e)
  /\ UNCHANGED <<link, balance, session, sent>>

(* Without an intent there is nothing to park it under: unknown_attempt,    *)
(* which the provider takes for an acknowledgement.                         *)
DropReturn(e) ==
  /\ e \in sent /\ e.kind = "returned" /\ ~Resolved(e) /\ ~e.keyed
  /\ Ack(e)
  /\ UNCHANGED <<link, balance, attempt, session, sent>>

(* The reported amount is not the quote: recorded, refused, redelivered. *)
RecordDiscrepancy(e) ==
  /\ e \in sent /\ e.kind = "succeeded" /\ ~e.exact
  /\ attempt[e.attempt].discrepancy # "evidence"
  /\ attempt' = [attempt EXCEPT ![e.attempt].discrepancy = "evidence"]
  /\ UNCHANGED <<link, balance, session, sent, acked>>

(* An event no state admits: duplicate.  A success still replays a return   *)
(* parked since.                                                            *)
Duplicate(e) ==
  LET o == Outcome(attempt[e.attempt], balance, link) IN
  /\ e \in sent /\ Resolved(e) /\ e.exact /\ ~Claimable(attempt[e.attempt], e.kind)
  /\ \E p \in IF e.kind = "succeeded" THEN Replayed(o) ELSE {o} : Leave(e.attempt, p)
  /\ Ack(e)

Settle(e) ==
  /\ e \in sent /\ Settles(e) /\ e.exact /\ Claimable(attempt[e.attempt], e.kind)
  /\ \E o \in Settled(Before(e)) :
       /\ \E p \in IF Exceeds(balance) THEN {o} ELSE Replayed(o) : Leave(e.attempt, p)
       /\ acked' = IF Exceeds(balance) THEN acked ELSE acked \cup {e}

(* The automation records the return, and a marker parked before is closed. *)
ApplyReturn(e) ==
  /\ e \in sent /\ e.kind = "returned" /\ Resolved(e) /\ Claimable(attempt[e.attempt], e.kind)
  /\ \E o \in Returned(Before(e), e.ret) :
       Leave(e.attempt, [o EXCEPT !.row.consumed = @ \/ o.row.marker # 0])
  /\ Ack(e)

Progress(e) ==
  /\ e \in sent /\ e.kind \in {"processing", "failed", "cancelled"} /\ ~Settles(e)
  /\ Claimable(attempt[e.attempt], e.kind)
  /\ Leave(e.attempt, Before(e))
  /\ Ack(e)

Deliver(e) == ParkReturn(e) \/ DropReturn(e) \/ RecordDiscrepancy(e) \/ Duplicate(e) \/ Settle(e)
              \/ ApplyReturn(e) \/ Progress(e)

-----------------------------------------------------------------------------
(* approveDisputeReview runs the automation again. *)
ApproveReview(a, r) ==
  /\ attempt[a].review[r] = "pending"
  /\ \E o \in Returned(Outcome(attempt[a], balance, link), r) : Leave(a, o)
  /\ UNCHANGED acked

(* The receipt's approval flow, and the posting it releases *)
DecideReceipt(a) ==
  /\ attempt[a].receipt = "pending"
  /\ \E d \in {"approved", "rejected"} : attempt' = [attempt EXCEPT ![a].receipt = d]
  /\ UNCHANGED <<link, balance, session, sent, acked>>

PostReceipt(a) ==
  /\ attempt[a].receipt = "approved" /\ balance >= Quote
  /\ attempt' = [attempt EXCEPT ![a].receipt = "posted", ![a].total = Quote, ![a].closing = "owed"]
  /\ balance' = balance - Quote
  /\ UNCHANGED <<link, session, sent, acked>>

(* The invoice is paid through another channel.  Afterwards its initiated   *)
(* sessions are expired at the provider, if the provider still can.         *)
PayElsewhere(n) ==
  /\ n \in 1..balance
  /\ balance' = balance - n
  /\ UNCHANGED <<link, attempt, session, sent, acked>>

ExpireStaleSession(a) ==
  /\ attempt[a].status = "initiated" /\ balance < Quote
  /\ session[a] = "open"
  /\ session' = [session EXCEPT ![a] = "ended"]
  /\ attempt' = [attempt EXCEPT ![a].status = "cancelled"]
  /\ Raise(Plain(a, "cancelled"))
  /\ UNCHANGED <<link, balance, acked>>

-----------------------------------------------------------------------------
(* finalizePaymentAcceptanceForDocument as the posting effect of a receipt  *)
(* an approval posted: three statements, each its own transaction.          *)
CloseAttempt(a) ==
  /\ attempt[a].closing = "owed"
  /\ attempt' = [attempt EXCEPT ![a] =
       IF @.journal \/ @.receipt # "posted" THEN [@ EXCEPT !.closing = "none"]
       ELSE [@ EXCEPT !.status = "succeeded", !.journal = TRUE,
                      !.closing = IF balance <= 0 THEN "link" ELSE "audit"]]
  /\ UNCHANGED <<link, balance, session, sent, acked>>

PayLink(a) ==
  /\ attempt[a].closing = "link"
  /\ link' = IF link = "active" THEN "paid" ELSE link
  /\ attempt' = [attempt EXCEPT ![a].closing = "audit"]
  /\ UNCHANGED <<balance, session, sent, acked>>

AuditClose(a) ==
  /\ attempt[a].closing = "audit"
  /\ attempt' = [attempt EXCEPT ![a].closing = "none"]
  /\ UNCHANGED <<link, balance, session, sent, acked>>

(* The drainer dies and the effect is claimed again. *)
CrashEffect(a) ==
  /\ attempt[a].closing \in {"link", "audit"}
  /\ attempt' = [attempt EXCEPT ![a].closing = "owed"]
  /\ UNCHANGED <<link, balance, session, sent, acked>>

Effect(a) == CloseAttempt(a) \/ PayLink(a) \/ AuditClose(a)

Provider(a) == Pay(a) \/ Debit(a) \/ FailDebit(a) \/ ExpireSession(a)
               \/ \E r \in Returns : ReturnPayment(a, r)

AcceptanceNext ==
  \/ CloseLink \/ \E n \in 1..Quote : PayElsewhere(n)
  \/ \E a \in Attempts :
       \/ CreateCheckout(a) \/ Provider(a) \/ DecideReceipt(a) \/ PostReceipt(a)
       \/ ExpireStaleSession(a) \/ Effect(a) \/ CrashEffect(a)
       \/ \E r \in Returns : ApproveReview(a, r)
  \/ \E e \in sent : Deliver(e)

AcceptanceSpec == AcceptanceInit /\ [][AcceptanceNext]_acceptanceVars

(* The provider redelivers a success until it is acknowledged. *)
AcceptanceFairness ==
  \A a \in Attempts :
    WF_acceptanceVars(\E e \in sent \ acked : e.attempt = a /\ e.kind = "succeeded" /\ Deliver(e))

FairAcceptanceSpec == AcceptanceSpec /\ AcceptanceFairness

-----------------------------------------------------------------------------
(* Every row, session and event has its type: an invoice is never applied   *)
(* more than it owes.                                                       *)
AcceptanceTypeOK ==
  /\ link \in {"active", "paid", "closed"} /\ balance \in 0..Quote
  /\ attempt \in [Attempts -> Attempt]
  /\ session \in [Attempts -> {"none", "open", "processing", "paid", "ended"}]
  /\ sent \subseteq Event /\ acked \subseteq sent

(* Redelivered, replayed and reviewed, a return is posted once: never more  *)
(* units than the provider returned.                                        *)
ReturnsPostOnce ==
  \A a \in Attempts :
    attempt[a].returned <= Cardinality({e \in sent : e.attempt = a /\ e.kind = "returned"})

(* The return has its own payment_disputes row, or waits in the marker. *)
Known(row, r) == row.review[r] # "none" \/ (row.marker = r /\ ~row.consumed)

KeyedReturn(e) == e.kind = "returned" /\ e.keyed

(* An acknowledged return that carries an intent is known, or another       *)
(* return of the same payment took its place and is: however the events are *)
(* reordered, redelivered and replayed, a payment whose return the provider *)
(* will not send again never looks unreturned.                              *)
ReturnedIsKnown ==
  \A e \in acked : KeyedReturn(e) => \E r \in Returns : Known(attempt[e.attempt], r)

(* "instead of dropping it as unknown_attempt (which 200s and loses the     *)
(* return forever)": an acknowledged return that carries an intent is       *)
(* itself known.                                                            *)
ReturnNotLost ==
  \A e \in acked : KeyedReturn(e) => Known(attempt[e.attempt], e.ret)

(* The provider's collection is real money: once paid, a session gets its   *)
(* receipt, or the discrepancy that says why not, in whatever order the     *)
(* events arrive.                                                           *)
CollectedIsBooked ==
  \A a \in Attempts :
    session[a] = "paid" ~> attempt[a].receipt # "none" \/ attempt[a].discrepancy # "none"

=============================================================================
