--------------------------- MODULE WebhookDelivery ---------------------------
(***************************************************************************)
(* Outbound webhooks, engine/src/webhooks: the queue of deliveries that    *)
(* emit.ts fills, the delivery worker of deliver.ts, and the operator      *)
(* commands of endpoints.ts.                                               *)
(*                                                                         *)
(* A scan claims due deliveries by moving next_attempt_at one lease ahead, *)
(* then attempts them one after the other: it POSTs, and writes the        *)
(* outcome, the endpoint's failure streak, the auto-disable and its audit  *)
(* evidence as separate autocommitted statements.  None of those writes is *)
(* fenced by the claim.  An operator re-queues a terminal delivery and     *)
(* attempts it at once, outside the scan.                                  *)
(***************************************************************************)
EXTENDS Integers, FiniteSets

CONSTANTS
  Events,      \* domain events that may be emitted
  Endpoints,   \* subscriber endpoints, all subscribed to every event
  Scans,       \* scheduler scans that may run at the same time
  Operators,   \* operators who redeliver or send test pings
  Batch,       \* limit: deliveries one scan claims (100)
  Lease,       \* WEBHOOK_CLAIM_LEASE_MS
  Budget,      \* WEBHOOK_RETRY_BUDGET_MS
  MaxBackoff,  \* ceiling of the jittered backoff
  Threshold    \* auto_disable_after

ASSUME DeliveryAssumption ==
  /\ Scans \cap Operators = {} /\ Events # {} /\ Endpoints # {}
  /\ Batch \in Nat \ {0} /\ Lease \in Nat \ {0} /\ Threshold \in Nat \ {0}
  /\ Budget \in Nat /\ MaxBackoff \in Nat

Deliveries == Events \X Endpoints   \* one row per event and endpoint

Actors == Scans \cup Operators

VARIABLES
  delivery,   \* webhook_deliveries
  endpoint,   \* webhook_endpoints
  age,        \* time since occurred_at of each event, up to past the budget
  actor       \* the in-memory state of each scan and operator command

vars == <<delivery, endpoint, age, actor>>

Never == -1   \* an event not yet emitted

Ages == {Never} \cup 0..(Budget + 1)

(* due is next_attempt_at - now, never below 0.  Two fields are history:    *)
(* manual remembers that an operator queued the row, late that its lease    *)
(* ran out under a holder, until it is claimed while nobody else holds it.  *)
Delivery == [status : {"absent", "pending", "delivered", "failed", "dead"},
             due : Nat, manual : BOOLEAN, late : BOOLEAN]

NoDelivery == [status |-> "absent", due |-> 0, manual |-> FALSE, late |-> FALSE]

Queued(row) == [row EXCEPT !.status = "pending", !.due = 0]

Endpoint == [status : {"active", "disabled"}, failures : 0..Threshold]

(* A claimed delivery carries the endpoint status its claim returned. *)
Claim == [of : Deliveries, active : BOOLEAN]

Phases == {"idle", "scan", "now", "attempt", "posting", "reset", "note", "disable", "audit"}

Actor == [pc : Phases, batch : SUBSET Claim, of : Deliveries]

Idle == [pc |-> "idle", batch |-> {}, of |-> CHOOSE d \in Deliveries : TRUE]

Init ==
  /\ delivery = [d \in Deliveries |-> NoDelivery]
  /\ endpoint = [e \in Endpoints |-> [status |-> "active", failures |-> 0]]
  /\ age = [v \in Events |-> Never]
  /\ actor = [a \in Actors |-> Idle]

-----------------------------------------------------------------------------
Active(e) == endpoint[e].status = "active"

(* emitDomainEvent: the event row, then a delivery row for each active      *)
(* endpoint that has none.  A post-commit caller may stop half way; the     *)
(* retried posting effect emits again and fills in what is missing.         *)
EmitDomainEvent(v, S) ==
  /\ S \subseteq {e \in Endpoints : Active(e)}
  /\ delivery' = [d \in Deliveries |->
       IF d[1] = v /\ d[2] \in S /\ delivery[d].status = "absent"
         THEN Queued(delivery[d]) ELSE delivery[d]]
  /\ age' = [age EXCEPT ![v] = IF @ = Never THEN 0 ELSE @]
  /\ UNCHANGED <<endpoint, actor>>

-----------------------------------------------------------------------------
(* The deliveries an actor has claimed and not yet recorded *)
Held(a) == {c.of : c \in actor[a].batch} \cup
           (IF actor[a].pc = "posting" THEN {actor[a].of} ELSE {})

(* Mutant: the claim does not move next_attempt_at. *)
ClaimedUnleased(row) == row

(* The claim's update: one lease ahead *)
Claimed(row) == [row EXCEPT !.due = Lease]

StillLate(a, d) == delivery[d].late /\ \E b \in Actors \ {a} : d \in Held(b)

TakeRow(a, d, pc) ==
  /\ delivery' = [delivery EXCEPT ![d] = [Claimed(@) EXCEPT !.late = StillLate(a, d)]]
  /\ actor' = [actor EXCEPT ![a].pc = pc,
                            ![a].batch = @ \cup {[of |-> d, active |-> Active(d[2])]}]
  /\ UNCHANGED <<endpoint, age>>

(* claimDueDeliveries: an atomic claim per due row, the whole batch first;  *)
(* the candidates were selected once, so each is claimed once.              *)
ClaimDue(w, d) ==
  /\ actor[w].pc \in {"idle", "scan"}
  /\ Cardinality(actor[w].batch) < Batch /\ d \notin Held(w)
  /\ delivery[d].status = "pending" /\ delivery[d].due = 0
  /\ TakeRow(w, d, "scan")

BeginAttempts(w) ==
  /\ actor[w].pc = "scan"
  /\ actor' = [actor EXCEPT ![w].pc = "attempt"]
  /\ UNCHANGED <<delivery, endpoint, age>>

(* The next delivery of the batch, or the end of it. *)
NextOf(state) == [state EXCEPT !.pc = IF state.batch = {} THEN "idle" ELSE "attempt"]

Continue(a) == actor' = [actor EXCEPT ![a] = IF @.batch = {} THEN Idle ELSE NextOf(@)]

(* attemptClaimedDelivery: refuse what belonged to a disabled endpoint when *)
(* it was claimed, else POST.                                               *)
RefuseDisabled(a, c) ==
  /\ actor[a].pc = "attempt" /\ c \in actor[a].batch /\ ~c.active
  /\ delivery' = [delivery EXCEPT ![c.of].status = "failed"]
  /\ actor' = [actor EXCEPT ![a] = IF @.batch = {c} THEN Idle
                                   ELSE NextOf([@ EXCEPT !.batch = actor[a].batch \ {c}])]
  /\ UNCHANGED <<endpoint, age>>

Post(a, c) ==
  /\ actor[a].pc = "attempt" /\ c \in actor[a].batch /\ c.active
  /\ actor' = [actor EXCEPT ![a].pc = "posting", ![a].of = c.of, ![a].batch = @ \ {c}]
  /\ UNCHANGED <<delivery, endpoint, age>>

(* Mutant: retries forever. *)
ExhaustedNever(d) == FALSE

(* The retry budget runs from the event's occurred_at. *)
Exhausted(d) == age[d[1]] > Budget

(* recordAttemptOutcome, first statement: the delivery row, whatever it     *)
(* holds by now.                                                            *)
Writes(a, row, pc) ==
  /\ delivery' = [delivery EXCEPT ![actor[a].of] = row]
  /\ actor' = [actor EXCEPT ![a].pc = pc]

RecordOutcome(a) ==
  LET row == delivery[actor[a].of]
      Status(s) == [row EXCEPT !.status = s] IN
  /\ actor[a].pc = "posting"
  /\ \/ Writes(a, Status("delivered"), "reset")                       \* 2xx
     \/ Writes(a, Status("failed"), "disable")                        \* 410 Gone
     \/ Writes(a, Status("failed"), "note")                           \* another 4xx
     \/ Exhausted(actor[a].of) /\ Writes(a, Status("dead"), "note")   \* 429, 5xx, no answer
     \/ /\ ~Exhausted(actor[a].of)
        /\ \E b \in 0..MaxBackoff :
             Writes(a, [row EXCEPT !.status = "pending", !.due = b], "note")
  /\ UNCHANGED <<endpoint, age>>

(* The endpoint's statements *)
ResetStreak(a) ==
  /\ actor[a].pc = "reset"
  /\ endpoint' = [endpoint EXCEPT ![actor[a].of[2]].failures = 0]
  /\ Continue(a)
  /\ UNCHANGED <<delivery, age>>

(* consecutive_failures, counted up to the threshold it is compared with *)
Streak(e) == IF endpoint[e].failures < Threshold THEN endpoint[e].failures + 1 ELSE Threshold

NoteEndpointFailure(a) ==
  LET e == actor[a].of[2] IN
  /\ actor[a].pc = "note"
  /\ endpoint' = [endpoint EXCEPT ![e].failures = Streak(e)]
  /\ IF Streak(e) = Threshold
       THEN actor' = [actor EXCEPT ![a].pc = "disable"]
       ELSE Continue(a)
  /\ UNCHANGED <<delivery, age>>

(* disableEndpoint throws when the endpoint is not active any more, and the *)
(* rest of the batch is abandoned to its leases.                            *)
DisableEndpoint(a) ==
  LET e == actor[a].of[2] IN
  /\ actor[a].pc = "disable"
  /\ \/ /\ Active(e)
        /\ endpoint' = [endpoint EXCEPT ![e].status = "disabled"]
        /\ actor' = [actor EXCEPT ![a].pc = "audit"]
     \/ /\ ~Active(e)
        /\ actor' = [actor EXCEPT ![a] = Idle]
        /\ UNCHANGED endpoint
  /\ UNCHANGED <<delivery, age>>

(* recordWebhookAudit and notifyWebhookAdmins *)
RecordDisable(a) ==
  /\ actor[a].pc = "audit"
  /\ Continue(a)
  /\ UNCHANGED <<delivery, endpoint, age>>

-----------------------------------------------------------------------------
(* redeliverWebhookDelivery: a transaction re-queues the terminal row, then *)
(* the attempt runs in the operator's request.                              *)
Redeliver(o, d) ==
  /\ actor[o].pc = "idle"
  /\ delivery[d].status \in {"failed", "dead"}
  /\ delivery' = [delivery EXCEPT ![d] = [Queued(NoDelivery) EXCEPT !.manual = TRUE]]
  /\ actor' = [actor EXCEPT ![o].pc = "now", ![o].of = d]
  /\ UNCHANGED <<endpoint, age>>

(* sendWebhookTestPing: a synthetic event addressed to one active endpoint *)
SendTestPing(o, d) ==
  /\ actor[o].pc = "idle"
  /\ age[d[1]] = Never /\ delivery[d].status = "absent" /\ Active(d[2])
  /\ delivery' = [delivery EXCEPT ![d] = [Queued(NoDelivery) EXCEPT !.manual = TRUE]]
  /\ age' = [age EXCEPT ![d[1]] = 0]
  /\ actor' = [actor EXCEPT ![o].pc = "now", ![o].of = d]
  /\ UNCHANGED endpoint

(* attemptDeliveryNow claims any pending row, due or not. *)
AttemptDeliveryNow(o) ==
  /\ actor[o].pc = "now"
  /\ \/ delivery[actor[o].of].status = "pending" /\ TakeRow(o, actor[o].of, "attempt")
     \/ /\ delivery[actor[o].of].status # "pending"
        /\ actor' = [actor EXCEPT ![o] = Idle]
        /\ UNCHANGED <<delivery, endpoint, age>>

SetEndpointStatus(e, status) ==
  /\ endpoint[e].status # status
  /\ endpoint' = [endpoint EXCEPT ![e].status = status,
                                  ![e].failures = IF status = "active" THEN 0 ELSE @]
  /\ UNCHANGED <<delivery, age, actor>>

-----------------------------------------------------------------------------
Crash(a) ==
  /\ actor[a].pc # "idle"
  /\ actor' = [actor EXCEPT ![a] = Idle]
  /\ UNCHANGED <<delivery, endpoint, age>>

Older(n) == IF n \in 0..Budget THEN n + 1 ELSE n

(* A batch is up to 100 attempts of at most ten seconds, one after the      *)
(* other, under leases of five minutes: a lease may run out under its       *)
(* holder.                                                                  *)
RunsOut(d) == delivery[d].due <= 1 /\ \E a \in Actors : d \in Held(a)

PassTime ==
  /\ delivery' = [d \in Deliveries |->
       [delivery[d] EXCEPT !.due = IF @ > 0 THEN @ - 1 ELSE 0,
                           !.late = @ \/ RunsOut(d)]]
  /\ age' = [v \in Events |-> Older(age[v])]
  /\ UNCHANGED <<endpoint, actor>>

AttemptStep(a) ==
  \/ \E c \in actor[a].batch : RefuseDisabled(a, c) \/ Post(a, c)
  \/ RecordOutcome(a) \/ ResetStreak(a) \/ NoteEndpointFailure(a)
  \/ DisableEndpoint(a) \/ RecordDisable(a)

Next ==
  \/ \E v \in Events, S \in SUBSET Endpoints : EmitDomainEvent(v, S)
  \/ \E w \in Scans : (\E d \in Deliveries : ClaimDue(w, d)) \/ BeginAttempts(w)
  \/ \E o \in Operators : \/ \E d \in Deliveries : Redeliver(o, d) \/ SendTestPing(o, d)
                          \/ AttemptDeliveryNow(o)
  \/ \E a \in Actors : AttemptStep(a) \/ Crash(a)
  \/ \E e \in Endpoints, status \in {"active", "disabled"} : SetEndpointStatus(e, status)
  \/ PassTime

Spec == Init /\ [][Next]_vars

(* The scheduler keeps scanning, a scan does not die at the same point      *)
(* every time, and time passes.                                             *)
Fairness ==
  /\ \A d \in Deliveries : SF_vars(\E w \in Scans : ClaimDue(w, d))
  /\ SF_vars(\E w \in Scans : BeginAttempts(w))
  /\ SF_vars(\E w \in Scans : \E c \in actor[w].batch : RefuseDisabled(w, c) \/ Post(w, c))
  /\ SF_vars(\E w \in Scans : RecordOutcome(w))
  /\ \A a \in Actors : WF_vars(AttemptStep(a))
  /\ \A o \in Operators : WF_vars(AttemptDeliveryNow(o))
  /\ SF_vars(PassTime)

FairSpec == Spec /\ Fairness

-----------------------------------------------------------------------------
(* Every row and every actor has its type. *)
DeliveryTypeOK ==
  /\ delivery \in [Deliveries -> Delivery]
  /\ endpoint \in [Endpoints -> Endpoint]
  /\ age \in [Events -> Ages]
  /\ actor \in [Actors -> Actor]

(* "one delivery is never attempted twice": a delivery that nobody queued   *)
(* by hand has one holder at a time.                                        *)
OneAttemptAtATime ==
  \A a, b \in Actors : a # b => \A d \in Held(a) \cap Held(b) : delivery[d].manual

(* The claim of claimDueDeliveries excludes a second one for as long as its *)
(* lease lasts: of a delivery that nobody queued by hand there is a second  *)
(* holder only after a holder outlasted its lease, and once the delivery    *)
(* has been free again its next claim excludes others as before.            *)
LeaseExcludes ==
  \A a, b \in Actors :
    a # b => \A d \in Held(a) \cap Held(b) : delivery[d].manual \/ delivery[d].late

(* Although no outcome is fenced by its claim, a recorded success stays: a  *)
(* later record of another attempt overwrites it only after a holder        *)
(* outlasted its lease, or when an operator queued the delivery.            *)
DeliveredIsFinal ==
  [][\A d \in Deliveries :
       (/\ delivery[d].status = "delivered"
        /\ ~delivery[d].manual /\ ~delivery[d].late)
       => delivery'[d].status = "delivered"]_vars

(* "a dead subscriber must not hold the queue open forever": every queued   *)
(* delivery ends, also when the endpoint only ever answers errors, when it  *)
(* is disabled under a running batch and when scans die.                    *)
EveryDeliveryEnds ==
  \A d \in Deliveries : delivery[d].status = "pending" ~> delivery[d].status # "pending"

=============================================================================
