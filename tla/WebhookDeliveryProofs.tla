------------------------ MODULE WebhookDeliveryProofs ------------------------
(***************************************************************************)
(* What WebhookDelivery promises for every number of events, endpoints,    *)
(* scans and operators, and for every batch, lease and retry budget.       *)
(*                                                                         *)
(* LeaseExcludes is not inductive: nothing in a claim says whose it is.    *)
(* What excludes a second claim is the lease, so the invariant adds that a *)
(* held delivery which is not late is pending and not due, that a holder   *)
(* has a delivery once (so that recording the outcome lets go of it), and  *)
(* that the operators' immediate attempts touch only deliveries they       *)
(* queued themselves.                                                      *)
(***************************************************************************)
EXTENDS WebhookDelivery, TLAPS

LEMMA DeliveryKeys ==
  /\ Deliveries # {}
  /\ \A d \in Deliveries : d[1] \in Events /\ d[2] \in Endpoints
<1>1. PICK v \in Events, e \in Endpoints : TRUE  BY DeliveryAssumption
<1>2. <<v, e>> \in Deliveries  BY <1>1 DEF Deliveries
<1>3. \A d \in Deliveries : d[1] \in Events /\ d[2] \in Endpoints  BY DEF Deliveries
<1>4. QED  BY <1>2, <1>3

LEMMA IdleFacts == Idle \in Actor /\ Idle.pc = "idle" /\ Idle.batch = {}
<1>1. (CHOOSE d \in Deliveries : TRUE) \in Deliveries  BY DeliveryKeys
<1>2. PICK d \in Deliveries : d = CHOOSE x \in Deliveries : TRUE  BY <1>1
<1>3. [pc |-> "idle", batch |-> {}, of |-> d] \in Actor  BY DEF Actor, Phases
<1>4. QED  BY <1>2, <1>3 DEF Idle

-----------------------------------------------------------------------------
(* The invariant *)

(* x has claimed d and not yet recorded its outcome. *)
HeldIn(x, d) == (\E c \in x.batch : c.of = d) \/ (x.pc = "posting" /\ x.of = d)

(* x has d once: in its batch or in its hands. *)
OnceIn(x, d) ==
  /\ \A c, e \in x.batch : c.of = d /\ e.of = d => c = e
  /\ x.pc = "posting" /\ x.of = d => \A c \in x.batch : c.of # d

(* Nobody queued the delivery by hand, and no holder outlasted its lease. *)
Clean(row) == row.manual = FALSE /\ row.late = FALSE

ActorOK(x, row, d) ==
  /\ Clean(row) => (HeldIn(x, d) => row.status = "pending" /\ row.due > 0)
  /\ row.manual = FALSE => OnceIn(x, d)
  /\ x.pc = "now" /\ x.of = d => row.manual = TRUE

OneHolder(d) == \A a, b \in Actors : HeldIn(actor[a], d) /\ HeldIn(actor[b], d) => a = b

DeliveryOK(d) ==
  /\ Clean(delivery[d]) => OneHolder(d)
  /\ \A a \in Actors : ActorOK(actor[a], delivery[d], d)

HoldInv == DeliveryTypeOK /\ \A d \in Deliveries : DeliveryOK(d)

LEMMA HeldMeans == \A a, d : d \in Held(a) <=> HeldIn(actor[a], d)
BY DEF Held, HeldIn

-----------------------------------------------------------------------------
(* Writing one actor, one delivery, one endpoint *)
WritesActor(a, x) == /\ actor' \in [Actors -> Actor] /\ actor'[a] = x
                     /\ \A b \in Actors \ {a} : actor'[b] = actor[b]

WritesDelivery(d, row) == /\ delivery' \in [Deliveries -> Delivery] /\ delivery'[d] = row
                          /\ \A e \in Deliveries \ {d} : delivery'[e] = delivery[e]

LEMMA ActorUpdate ==
  ASSUME DeliveryTypeOK, NEW a \in Actors, NEW x \in Actor, actor' = [actor EXCEPT ![a] = x]
  PROVE  WritesActor(a, x)
BY DEF DeliveryTypeOK, WritesActor

LEMMA RowUpdate ==
  ASSUME DeliveryTypeOK, NEW d \in Deliveries, NEW row \in Delivery,
         delivery' = [delivery EXCEPT ![d] = row]
  PROVE  WritesDelivery(d, row)
BY DEF DeliveryTypeOK, WritesDelivery

LEMMA PcReads ==
  ASSUME DeliveryTypeOK, NEW a \in Actors, NEW pc \in Phases, actor' = [actor EXCEPT ![a].pc = pc]
  PROVE  \E x \in Actor : WritesActor(a, x) /\ x.pc = pc /\ x.batch = actor[a].batch /\ x.of = actor[a].of
<1>1. PICK old \in Actor : old = actor[a]  BY DEF DeliveryTypeOK
<1>2. PICK x \in Actor : x = [old EXCEPT !.pc = pc] /\ x.pc = pc /\ x.batch = old.batch /\ x.of = old.of
  <2>1. [old EXCEPT !.pc = pc] \in Actor  BY DEF Actor
  <2>2. QED  BY <2>1 DEF Actor
<1>3. actor' = [actor EXCEPT ![a] = x]  BY <1>1, <1>2
<1>4. WritesActor(a, x)  BY <1>3, ActorUpdate
<1>5. QED  BY <1>1, <1>2, <1>4

LEMMA ContinueReads ==
  ASSUME DeliveryTypeOK, NEW a \in Actors, Continue(a)
  PROVE  \E x \in Actor : /\ WritesActor(a, x) /\ x.batch \subseteq actor[a].batch
                          /\ x.pc \in {"idle", "attempt"}
<1>1. PICK old \in Actor : old = actor[a]  BY DEF DeliveryTypeOK
<1>2. CASE old.batch = {}
  <2>1. actor' = [actor EXCEPT ![a] = Idle]  BY <1>1, <1>2 DEF Continue
  <2>2. WritesActor(a, Idle)  BY <2>1, IdleFacts, ActorUpdate
  <2>3. QED  BY <2>2, IdleFacts
<1>3. CASE old.batch # {}
  <2>1. PICK x \in Actor : x = [old EXCEPT !.pc = "attempt"] /\ x.pc = "attempt" /\ x.batch = old.batch
    <3>1. [old EXCEPT !.pc = "attempt"] \in Actor  BY DEF Actor, Phases
    <3>2. QED  BY <3>1 DEF Actor
  <2>2. actor' = [actor EXCEPT ![a] = x]  BY <1>1, <1>3, <2>1 DEF Continue, NextOf
  <2>3. WritesActor(a, x)  BY <2>2, ActorUpdate
  <2>4. QED  BY <1>1, <2>1, <2>3
<1>4. QED  BY <1>2, <1>3

LEMMA FailuresReads ==
  ASSUME DeliveryTypeOK, NEW e \in Endpoints, NEW n \in 0..Threshold,
         endpoint' = [endpoint EXCEPT ![e].failures = n]
  PROVE  endpoint' \in [Endpoints -> Endpoint]
<1>1. PICK old \in Endpoint : old = endpoint[e]  BY DEF DeliveryTypeOK
<1>2. PICK new \in Endpoint : new = [old EXCEPT !.failures = n]
  <2>1. [old EXCEPT !.failures = n] \in Endpoint  BY DEF Endpoint
  <2>2. QED  BY <2>1
<1>3. endpoint' = [endpoint EXCEPT ![e] = new]  BY <1>1, <1>2
<1>4. QED  BY <1>3 DEF DeliveryTypeOK

LEMMA StreakType ==
  ASSUME DeliveryTypeOK, NEW e \in Endpoints
  PROVE  Streak(e) \in 0..Threshold
<1>1. endpoint[e] \in Endpoint  BY DEF DeliveryTypeOK
<1>2. endpoint[e].failures \in 0..Threshold  BY <1>1 DEF Endpoint
<1>3. QED  BY <1>2, DeliveryAssumption DEF Streak

-----------------------------------------------------------------------------
(* Steps of one actor *)
LEMMA ActorStep ==
  ASSUME HoldInv, NEW a \in Actors, NEW x \in Actor, WritesActor(a, x),
         delivery' \in [Deliveries -> Delivery], endpoint' \in [Endpoints -> Endpoint],
         age' \in [Events -> Ages],
         \A d \in Deliveries :
           /\ delivery[d].manual = TRUE => delivery'[d].manual = TRUE
           /\ ActorOK(x, delivery'[d], d)
           /\ \/ delivery'[d] = delivery[d] /\ (HeldIn(x, d) => HeldIn(actor[a], d))
              \/ Clean(delivery'[d]) => \A b \in Actors \ {a} : ~HeldIn(actor[b], d)
  PROVE  HoldInv'
<1>1. DeliveryTypeOK'  BY DEF DeliveryTypeOK, WritesActor
<1>2. actor'[a] = x /\ \A b \in Actors \ {a} : actor'[b] = actor[b]  BY DEF WritesActor
<1>3. ASSUME NEW d \in Deliveries
      PROVE  /\ Clean(delivery'[d]) =>
                  \A b, c \in Actors : HeldIn(actor'[b], d) /\ HeldIn(actor'[c], d) => b = c
             /\ \A b \in Actors : ActorOK(actor'[b], delivery'[d], d)
  <2>1. /\ delivery[d].manual = TRUE => delivery'[d].manual = TRUE
        /\ ActorOK(x, delivery'[d], d)
        /\ \/ delivery'[d] = delivery[d] /\ (HeldIn(x, d) => HeldIn(actor[a], d))
           \/ Clean(delivery'[d]) => \A b \in Actors \ {a} : ~HeldIn(actor[b], d)
    OBVIOUS
  <2>2. /\ Clean(delivery[d]) => OneHolder(d)
        /\ \A b \in Actors : ActorOK(actor[b], delivery[d], d)
    BY DEF HoldInv, DeliveryOK
  <2>3. ASSUME NEW b \in Actors \ {a} PROVE ActorOK(actor'[b], delivery'[d], d)
    <3>1. ActorOK(actor[b], delivery[d], d) /\ actor'[b] = actor[b]  BY <1>2, <2>2
    <3>2. QED  BY <2>1, <3>1 DEF ActorOK
  <2>4. \A b \in Actors : ActorOK(actor'[b], delivery'[d], d)  BY <1>2, <2>1, <2>3
  <2>5. ASSUME Clean(delivery'[d]), NEW b \in Actors, NEW c \in Actors,
               HeldIn(actor'[b], d), HeldIn(actor'[c], d)
        PROVE  b = c
    <3>1. CASE delivery'[d] = delivery[d] /\ (HeldIn(x, d) => HeldIn(actor[a], d))
      <4>1. \A s \in Actors : HeldIn(actor'[s], d) => HeldIn(actor[s], d)  BY <1>2, <3>1
      <4>2. QED  BY <2>2, <2>5, <3>1, <4>1 DEF OneHolder
    <3>2. CASE \A s \in Actors \ {a} : ~HeldIn(actor[s], d)  BY <1>2, <2>5, <3>2
    <3>3. QED  BY <2>1, <2>5, <3>1, <3>2
  <2>6. QED  BY <2>4, <2>5
<1>4. \A d \in Deliveries : DeliveryOK(d)'
  BY <1>3 DEF DeliveryOK, OneHolder, ActorOK, HeldIn, OnceIn, Clean
<1>5. QED  BY <1>1, <1>4 DEF HoldInv

(* An actor that lets go of deliveries, or goes on with those it has *)
LEMMA LettingGo ==
  ASSUME NEW old, NEW x, NEW row, NEW d, ActorOK(old, row, d),
         x.batch \subseteq old.batch, x.pc \notin {"posting", "now"}
  PROVE  ActorOK(x, row, d) /\ (HeldIn(x, d) => HeldIn(old, d))
BY DEF ActorOK, HeldIn, OnceIn

LEMMA QuietStep ==
  ASSUME HoldInv, NEW a \in Actors, NEW x \in Actor, WritesActor(a, x),
         x.batch \subseteq actor[a].batch, x.pc \notin {"posting", "now"},
         delivery' = delivery, age' = age, endpoint' \in [Endpoints -> Endpoint]
  PROVE  HoldInv'
<1>1. delivery' \in [Deliveries -> Delivery] /\ age' \in [Events -> Ages]  BY DEF HoldInv, DeliveryTypeOK
<1>2. ASSUME NEW d \in Deliveries
      PROVE  /\ ActorOK(x, delivery'[d], d)
             /\ delivery'[d] = delivery[d] /\ (HeldIn(x, d) => HeldIn(actor[a], d))
  <2>1. ActorOK(actor[a], delivery[d], d)  BY DEF HoldInv, DeliveryOK
  <2>2. ActorOK(x, delivery[d], d) /\ (HeldIn(x, d) => HeldIn(actor[a], d))  BY <2>1, LettingGo
  <2>3. QED  BY <2>2
<1>3. QED  BY <1>1, <1>2, ActorStep

LEMMA BeginAttemptsStep ==
  ASSUME HoldInv, NEW w \in Actors, BeginAttempts(w)
  PROVE  HoldInv'
<1>1. DeliveryTypeOK /\ "attempt" \in Phases  BY DEF HoldInv, Phases
<1>2. actor' = [actor EXCEPT ![w].pc = "attempt"]  BY DEF BeginAttempts
<1>3. PICK x \in Actor : WritesActor(w, x) /\ x.pc = "attempt" /\ x.batch = actor[w].batch
  BY <1>1, <1>2, PcReads
<1>4. delivery' = delivery /\ age' = age /\ endpoint' \in [Endpoints -> Endpoint]
  BY <1>1 DEF BeginAttempts, DeliveryTypeOK
<1>5. QED  BY <1>3, <1>4, QuietStep

LEMMA IdleStep ==
  ASSUME HoldInv, NEW a \in Actors, actor' = [actor EXCEPT ![a] = Idle],
         delivery' = delivery, endpoint' = endpoint, age' = age
  PROVE  HoldInv'
<1>1. DeliveryTypeOK  BY DEF HoldInv
<1>2. WritesActor(a, Idle)  BY <1>1, IdleFacts, ActorUpdate
<1>3. endpoint' \in [Endpoints -> Endpoint]  BY <1>1 DEF DeliveryTypeOK
<1>4. QED  BY <1>2, <1>3, IdleFacts, QuietStep

(* The endpoint's statements *)
LEMMA EndpointSteps ==
  ASSUME HoldInv, NEW a \in Actors,
         ResetStreak(a) \/ NoteEndpointFailure(a) \/ DisableEndpoint(a) \/ RecordDisable(a)
  PROVE  HoldInv'
<1>1. DeliveryTypeOK  BY DEF HoldInv
<1>2. delivery' = delivery /\ age' = age
  BY DEF ResetStreak, NoteEndpointFailure, DisableEndpoint, RecordDisable
<1>3. PICK d \in Deliveries : d = actor[a].of
  <2>1. actor[a] \in Actor  BY <1>1 DEF DeliveryTypeOK
  <2>2. QED  BY <2>1 DEF Actor
<1>4. PICK e \in Endpoints : e = actor[a].of[2]  BY <1>3, DeliveryKeys
<1>5. ASSUME Continue(a), endpoint' \in [Endpoints -> Endpoint] PROVE HoldInv'
  <2>1. PICK x \in Actor : WritesActor(a, x) /\ x.batch \subseteq actor[a].batch /\ x.pc \in {"idle", "attempt"}
    BY <1>1, <1>5, ContinueReads
  <2>2. QED  BY <1>2, <1>5, <2>1, QuietStep
<1>6. ASSUME NEW pc \in {"disable", "audit"}, actor' = [actor EXCEPT ![a].pc = pc],
             endpoint' \in [Endpoints -> Endpoint]
      PROVE  HoldInv'
  <2>1. pc \in Phases  BY DEF Phases
  <2>2. PICK x \in Actor : WritesActor(a, x) /\ x.pc = pc /\ x.batch = actor[a].batch
    BY <1>1, <1>6, <2>1, PcReads
  <2>3. QED  BY <1>2, <1>6, <2>2, QuietStep
<1>7. CASE ResetStreak(a)
  <2>1. endpoint' = [endpoint EXCEPT ![e].failures = 0] /\ Continue(a)  BY <1>4, <1>7 DEF ResetStreak
  <2>2. 0 \in 0..Threshold  BY DeliveryAssumption
  <2>3. endpoint' \in [Endpoints -> Endpoint]  BY <1>1, <2>1, <2>2, FailuresReads
  <2>4. QED  BY <1>5, <2>1, <2>3
<1>8. CASE NoteEndpointFailure(a)
  <2>1. PICK n \in 0..Threshold : n = Streak(e)  BY <1>1, StreakType
  <2>2. endpoint' = [endpoint EXCEPT ![e].failures = n]  BY <1>4, <1>8, <2>1 DEF NoteEndpointFailure
  <2>3. endpoint' \in [Endpoints -> Endpoint]  BY <1>1, <2>2, FailuresReads
  <2>4. Continue(a) \/ actor' = [actor EXCEPT ![a].pc = "disable"]  BY <1>8 DEF NoteEndpointFailure
  <2>5. QED  BY <1>5, <1>6, <2>3, <2>4
<1>9. CASE DisableEndpoint(a)
  <2>1. CASE /\ endpoint' = [endpoint EXCEPT ![e].status = "disabled"]
             /\ actor' = [actor EXCEPT ![a].pc = "audit"]
    <3>1. PICK old \in Endpoint : old = endpoint[e]  BY <1>1 DEF DeliveryTypeOK
    <3>2. PICK new \in Endpoint : new = [old EXCEPT !.status = "disabled"]
      <4>1. [old EXCEPT !.status = "disabled"] \in Endpoint  BY DEF Endpoint
      <4>2. QED  BY <4>1
    <3>3. endpoint' = [endpoint EXCEPT ![e] = new]  BY <2>1, <3>1, <3>2
    <3>4. endpoint' \in [Endpoints -> Endpoint]  BY <1>1, <3>3 DEF DeliveryTypeOK
    <3>5. QED  BY <1>6, <2>1, <3>4
  <2>2. CASE actor' = [actor EXCEPT ![a] = Idle] /\ endpoint' = endpoint  BY <1>2, <2>2, IdleStep
  <2>3. QED  BY <1>4, <1>9, <2>1, <2>2 DEF DisableEndpoint
<1>10. CASE RecordDisable(a)
  <2>1. Continue(a) /\ endpoint' = endpoint  BY <1>10 DEF RecordDisable
  <2>2. endpoint' \in [Endpoints -> Endpoint]  BY <1>1, <2>1 DEF DeliveryTypeOK
  <2>3. QED  BY <1>5, <2>1, <2>2
<1>11. QED  BY <1>7, <1>8, <1>9, <1>10

-----------------------------------------------------------------------------
(* The claim: a delivery that is due has no holder. *)
LEMMA TakeRowStep ==
  ASSUME HoldInv, NEW a \in Actors, NEW d \in Deliveries, NEW pc \in {"scan", "attempt"},
         TakeRow(a, d, pc), actor[a].pc # "posting", delivery[d].status = "pending",
         delivery[d].manual = FALSE => delivery[d].due = 0 /\ ~HeldIn(actor[a], d)
  PROVE  HoldInv'
<1>0. DeliveryTypeOK  BY DEF HoldInv
<1>1. PICK old \in Actor : old = actor[a]  BY <1>0 DEF DeliveryTypeOK
<1>2. PICK was \in Delivery : was = delivery[d]  BY <1>0 DEF DeliveryTypeOK
<1>3. PICK c \in Claim : c = [of |-> d, active |-> Active(d[2])] /\ c.of = d
  <2>1. PICK active \in BOOLEAN : active = Active(d[2])  BY DEF Active
  <2>2. [of |-> d, active |-> active] \in Claim  BY DEF Claim
  <2>3. QED  BY <2>1, <2>2
<1>4. PICK x \in Actor : /\ x = [old EXCEPT !.pc = pc, !.batch = old.batch \cup {c}]
                         /\ x.pc = pc /\ x.batch = old.batch \cup {c}
  <2>1. pc \in Phases /\ old.batch \cup {c} \in SUBSET Claim  BY DEF Phases, Actor
  <2>2. [old EXCEPT !.pc = pc, !.batch = old.batch \cup {c}] \in Actor  BY <2>1 DEF Actor
  <2>3. QED  BY <2>2 DEF Actor
<1>5. actor' = [actor EXCEPT ![a] = x]  BY <1>0, <1>1, <1>3, <1>4 DEF TakeRow, DeliveryTypeOK
<1>6. WritesActor(a, x)  BY <1>0, <1>5, ActorUpdate
<1>7. PICK late \in BOOLEAN : late = StillLate(a, d)
  <2>1. was.late \in BOOLEAN  BY DEF Delivery
  <2>2. StillLate(a, d) \in BOOLEAN  BY <1>2, <2>1 DEF StillLate
  <2>3. QED  BY <2>2
<1>8. PICK row \in Delivery : /\ row = [[was EXCEPT !.due = Lease] EXCEPT !.late = late]
                              /\ row.due = Lease /\ row.status = was.status
                              /\ row.manual = was.manual /\ row.late = late
  <2>1. [[was EXCEPT !.due = Lease] EXCEPT !.late = late] \in Delivery  BY DeliveryAssumption DEF Delivery
  <2>2. QED  BY <2>1 DEF Delivery
<1>9. delivery' = [delivery EXCEPT ![d] = row]  BY <1>2, <1>7, <1>8 DEF TakeRow, Claimed
<1>10. WritesDelivery(d, row)  BY <1>0, <1>9, RowUpdate
<1>11. endpoint' \in [Endpoints -> Endpoint] /\ age' \in [Events -> Ages]
  BY <1>0 DEF TakeRow, DeliveryTypeOK
<1>12. ASSUME NEW e \in Deliveries
       PROVE  /\ delivery[e].manual = TRUE => delivery'[e].manual = TRUE
              /\ ActorOK(x, delivery'[e], e)
              /\ \/ delivery'[e] = delivery[e] /\ (HeldIn(x, e) => HeldIn(actor[a], e))
                 \/ Clean(delivery'[e]) => \A b \in Actors \ {a} : ~HeldIn(actor[b], e)
  <2>1. \A b \in Actors : ActorOK(actor[b], delivery[e], e)  BY DEF HoldInv, DeliveryOK
  <2>2. CASE e # d
    <3>1. delivery'[e] = delivery[e]  BY <1>10, <2>2 DEF WritesDelivery
    <3>2. HeldIn(x, e) => HeldIn(old, e)  BY <1>3, <1>4, <2>2 DEF HeldIn
    <3>3. delivery[e].manual = FALSE => OnceIn(x, e)
      BY <1>1, <1>3, <1>4, <2>1, <2>2 DEF OnceIn, ActorOK
    <3>4. ActorOK(x, delivery[e], e)  BY <1>1, <1>4, <2>1, <3>2, <3>3 DEF ActorOK
    <3>5. QED  BY <1>1, <3>1, <3>2, <3>4
  <2>3. CASE e = d
    <3>1. Clean(row) => \A b \in Actors \ {a} : ~HeldIn(actor[b], d)
      <4>1. CASE was.late = FALSE  BY <1>2, <1>8, <2>1, <2>3, <4>1 DEF ActorOK, Clean
      <4>2. CASE was.late = TRUE
        <5>1. row.late = FALSE => \A b \in Actors \ {a} : d \notin Held(b)
          BY <1>2, <1>7, <1>8, <4>2 DEF StillLate
        <5>2. QED  BY <5>1, HeldMeans DEF Clean
      <4>3. QED  BY <4>1, <4>2 DEF Delivery
    <3>2. row.manual = FALSE => OnceIn(x, d)  BY <1>1, <1>2, <1>4, <1>8 DEF OnceIn, HeldIn
    <3>3. ActorOK(x, row, d)  BY <1>2, <1>4, <1>8, <3>2, DeliveryAssumption DEF ActorOK
    <3>4. QED  BY <1>2, <1>8, <1>10, <2>3, <3>1, <3>3 DEF WritesDelivery
  <2>4. QED  BY <2>2, <2>3
<1>13. QED  BY <1>6, <1>10, <1>11, <1>12, ActorStep DEF WritesDelivery

LEMMA ClaimDueStep ==
  ASSUME HoldInv, NEW w \in Actors, NEW d \in Deliveries, ClaimDue(w, d)
  PROVE  HoldInv'
BY TakeRowStep, HeldMeans DEF ClaimDue

LEMMA AttemptNowStep ==
  ASSUME HoldInv, NEW o \in Actors, AttemptDeliveryNow(o)
  PROVE  HoldInv'
<1>0. DeliveryTypeOK  BY DEF HoldInv
<1>1. PICK d \in Deliveries : d = actor[o].of
  <2>1. actor[o] \in Actor  BY <1>0 DEF DeliveryTypeOK
  <2>2. QED  BY <2>1 DEF Actor
<1>2. actor[o].pc = "now"  BY DEF AttemptDeliveryNow
<1>3. delivery[d].manual = TRUE  BY <1>1, <1>2 DEF HoldInv, DeliveryOK, ActorOK
<1>4. CASE delivery[d].status = "pending" /\ TakeRow(o, d, "attempt")
  BY <1>2, <1>3, <1>4, TakeRowStep
<1>5. CASE actor' = [actor EXCEPT ![o] = Idle] /\ UNCHANGED <<delivery, endpoint, age>>
  BY <1>5, IdleStep
<1>6. QED  BY <1>1, <1>4, <1>5 DEF AttemptDeliveryNow

-----------------------------------------------------------------------------
(* The attempt *)

(* An actor that lets go of d writes its row: nobody else has it. *)
LEMMA LastHolder ==
  ASSUME HoldInv, NEW a \in Actors, NEW d \in Deliveries, HeldIn(actor[a], d), NEW x \in Actor,
         WritesActor(a, x), x.batch \subseteq actor[a].batch, x.pc \notin {"posting", "now"},
         delivery[d].manual = FALSE => ~HeldIn(x, d),
         NEW row \in Delivery, WritesDelivery(d, row),
         row.manual = delivery[d].manual, row.late = delivery[d].late,
         endpoint' = endpoint, age' = age
  PROVE  HoldInv'
<1>1. endpoint' \in [Endpoints -> Endpoint] /\ age' \in [Events -> Ages]  BY DEF HoldInv, DeliveryTypeOK
<1>2. ASSUME NEW e \in Deliveries
      PROVE  /\ delivery[e].manual = TRUE => delivery'[e].manual = TRUE
             /\ ActorOK(x, delivery'[e], e)
             /\ \/ delivery'[e] = delivery[e] /\ (HeldIn(x, e) => HeldIn(actor[a], e))
                \/ Clean(delivery'[e]) => \A b \in Actors \ {a} : ~HeldIn(actor[b], e)
  <2>1. (Clean(delivery[e]) => OneHolder(e)) /\ ActorOK(actor[a], delivery[e], e)  BY DEF HoldInv, DeliveryOK
  <2>2. ActorOK(x, delivery[e], e) /\ (HeldIn(x, e) => HeldIn(actor[a], e))  BY <2>1, LettingGo
  <2>3. CASE e # d  BY <2>2, <2>3 DEF WritesDelivery
  <2>4. CASE e = d
    <3>1. Clean(row) => \A b \in Actors \ {a} : ~HeldIn(actor[b], d)  BY <2>1, <2>4 DEF OneHolder, Clean
    <3>2. ActorOK(x, row, d)  BY <2>2, <2>4 DEF ActorOK, Clean
    <3>3. QED  BY <2>4, <3>1, <3>2 DEF WritesDelivery
  <2>5. QED  BY <2>3, <2>4
<1>3. QED  BY <1>1, <1>2, ActorStep DEF WritesDelivery

LEMMA RefuseDisabledStep ==
  ASSUME HoldInv, NEW a \in Actors, NEW c \in actor[a].batch, RefuseDisabled(a, c)
  PROVE  HoldInv'
<1>0. DeliveryTypeOK  BY DEF HoldInv
<1>1. PICK old \in Actor : old = actor[a]  BY <1>0 DEF DeliveryTypeOK
<1>2. c \in Claim  BY <1>1 DEF Actor
<1>3. PICK d \in Deliveries : d = c.of  BY <1>2 DEF Claim
<1>4. PICK was \in Delivery : was = delivery[d]  BY <1>0 DEF DeliveryTypeOK
<1>5. PICK x \in Actor : /\ actor' = [actor EXCEPT ![a] = x]
                         /\ x.batch = old.batch \ {c} /\ x.pc \in {"idle", "attempt"}
  <2>1. CASE old.batch = {c}
    <3>1. actor' = [actor EXCEPT ![a] = Idle]  BY <1>1, <2>1 DEF RefuseDisabled
    <3>2. QED  BY <2>1, <3>1, IdleFacts
  <2>2. CASE old.batch # {c}
    <3>1. PICK rest \in SUBSET Claim : rest = old.batch \ {c}  BY DEF Actor
    <3>2. PICK next \in Actor : next = [old EXCEPT !.batch = rest] /\ next.batch = rest /\ next.pc = old.pc
      <4>1. [old EXCEPT !.batch = rest] \in Actor  BY DEF Actor
      <4>2. QED  BY <4>1 DEF Actor
    <3>3. rest # {}  BY <1>1, <2>2, <3>1
    <3>4. PICK x \in Actor : x = [next EXCEPT !.pc = "attempt"] /\ x.pc = "attempt" /\ x.batch = rest
      <4>1. [next EXCEPT !.pc = "attempt"] \in Actor  BY DEF Actor, Phases
      <4>2. QED  BY <3>2, <4>1 DEF Actor
    <3>5. actor' = [actor EXCEPT ![a] = NextOf(next)]  BY <1>1, <2>2, <3>1, <3>2 DEF RefuseDisabled
    <3>6. NextOf(next) = x  BY <3>2, <3>3, <3>4 DEF NextOf
    <3>7. QED  BY <3>1, <3>4, <3>5, <3>6
  <2>3. QED  BY <2>1, <2>2
<1>6. WritesActor(a, x)  BY <1>0, <1>5, ActorUpdate
<1>7. PICK row \in Delivery : /\ row = [was EXCEPT !.status = "failed"]
                              /\ row.manual = was.manual /\ row.late = was.late
  <2>1. [was EXCEPT !.status = "failed"] \in Delivery  BY DEF Delivery
  <2>2. QED  BY <2>1 DEF Delivery
<1>8. delivery' = [delivery EXCEPT ![d] = row]  BY <1>3, <1>4, <1>7 DEF RefuseDisabled
<1>9. WritesDelivery(d, row)  BY <1>0, <1>8, RowUpdate
<1>10. HeldIn(actor[a], d)  BY <1>3 DEF HeldIn
<1>11. delivery[d].manual = FALSE => ~HeldIn(x, d)
  <2>1. delivery[d].manual = FALSE => OnceIn(old, d)  BY <1>1 DEF HoldInv, DeliveryOK, ActorOK
  <2>2. QED  BY <1>1, <1>3, <1>5, <2>1 DEF OnceIn, HeldIn
<1>12. endpoint' = endpoint /\ age' = age  BY DEF RefuseDisabled
<1>13. QED  BY <1>1, <1>4, <1>5, <1>6, <1>7, <1>9, <1>10, <1>11, <1>12, LastHolder

LEMMA PostStep ==
  ASSUME HoldInv, NEW a \in Actors, NEW c \in actor[a].batch, Post(a, c)
  PROVE  HoldInv'
<1>0. DeliveryTypeOK  BY DEF HoldInv
<1>1. PICK old \in Actor : old = actor[a]  BY <1>0 DEF DeliveryTypeOK
<1>2. c \in Claim  BY <1>1 DEF Actor
<1>3. PICK d \in Deliveries : d = c.of  BY <1>2 DEF Claim
<1>4. PICK rest \in SUBSET Claim : rest = old.batch \ {c}  BY DEF Actor
<1>5. PICK x \in Actor : /\ x = [old EXCEPT !.pc = "posting", !.of = d, !.batch = rest]
                         /\ x.pc = "posting" /\ x.of = d /\ x.batch = rest
  <2>1. [old EXCEPT !.pc = "posting", !.of = d, !.batch = rest] \in Actor  BY DEF Actor, Phases
  <2>2. QED  BY <2>1 DEF Actor
<1>6. actor' = [actor EXCEPT ![a] = x]  BY <1>0, <1>1, <1>3, <1>4, <1>5 DEF Post, DeliveryTypeOK
<1>7. WritesActor(a, x)  BY <1>0, <1>6, ActorUpdate
<1>8. delivery' = delivery /\ endpoint' = endpoint /\ age' = age  BY DEF Post
<1>9. /\ delivery' \in [Deliveries -> Delivery] /\ endpoint' \in [Endpoints -> Endpoint]
      /\ age' \in [Events -> Ages]
  BY <1>0, <1>8 DEF DeliveryTypeOK
<1>10. ASSUME NEW e \in Deliveries
       PROVE  /\ ActorOK(x, delivery'[e], e)
              /\ delivery'[e] = delivery[e] /\ (HeldIn(x, e) => HeldIn(actor[a], e))
  <2>1. ActorOK(old, delivery[e], e)  BY <1>1 DEF HoldInv, DeliveryOK
  <2>2. HeldIn(x, e) => HeldIn(old, e)  BY <1>1, <1>3, <1>4, <1>5 DEF HeldIn
  <2>3. delivery[e].manual = FALSE => OnceIn(x, e)
    BY <1>1, <1>3, <1>4, <1>5, <2>1 DEF OnceIn, ActorOK
  <2>4. ActorOK(x, delivery[e], e)  BY <1>5, <2>1, <2>2, <2>3 DEF ActorOK
  <2>5. QED  BY <1>1, <1>8, <2>2, <2>4
<1>11. QED  BY <1>7, <1>9, <1>10, ActorStep

LEMMA RecordOutcomeStep ==
  ASSUME HoldInv, NEW a \in Actors, RecordOutcome(a)
  PROVE  HoldInv'
<1>0. DeliveryTypeOK  BY DEF HoldInv
<1>1. PICK old \in Actor : old = actor[a]  BY <1>0 DEF DeliveryTypeOK
<1>2. PICK d \in Deliveries : d = actor[a].of  BY <1>1 DEF Actor
<1>3. PICK was \in Delivery : was = delivery[d]  BY <1>0 DEF DeliveryTypeOK
<1>4. PICK row \in Delivery, pc \in {"reset", "disable", "note"} : 
         Writes(a, row, pc) /\ row.manual = was.manual /\ row.late = was.late
  <2>1. ASSUME NEW s \in {"delivered", "failed", "dead"}
        PROVE  /\ [was EXCEPT !.status = s] \in Delivery
               /\ [was EXCEPT !.status = s].manual = was.manual
               /\ [was EXCEPT !.status = s].late = was.late
    BY DEF Delivery
  <2>2. ASSUME NEW b \in 0..MaxBackoff
        PROVE  /\ [was EXCEPT !.status = "pending", !.due = b] \in Delivery
               /\ [was EXCEPT !.status = "pending", !.due = b].manual = was.manual
               /\ [was EXCEPT !.status = "pending", !.due = b].late = was.late
    <3>1. b \in Nat  BY DeliveryAssumption
    <3>2. QED  BY <3>1 DEF Delivery
  <2>3. \/ \E s \in {"delivered", "failed", "dead"}, pc \in {"reset", "disable", "note"} :
             Writes(a, [was EXCEPT !.status = s], pc)
        \/ \E b \in 0..MaxBackoff : Writes(a, [was EXCEPT !.status = "pending", !.due = b], "note")
    BY <1>2, <1>3 DEF RecordOutcome
  <2>4. QED  BY <2>1, <2>2, <2>3
<1>5. delivery' = [delivery EXCEPT ![d] = row] /\ actor' = [actor EXCEPT ![a].pc = pc]
  BY <1>2, <1>4 DEF Writes
<1>6. WritesDelivery(d, row)  BY <1>0, <1>5, RowUpdate
<1>7. pc \in Phases  BY DEF Phases
<1>8. PICK x \in Actor : WritesActor(a, x) /\ x.pc = pc /\ x.batch = actor[a].batch
  BY <1>0, <1>5, <1>7, PcReads
<1>9. actor[a].pc = "posting" /\ endpoint' = endpoint /\ age' = age  BY DEF RecordOutcome
<1>10. HeldIn(actor[a], d)  BY <1>2, <1>9 DEF HeldIn
<1>11. delivery[d].manual = FALSE => ~HeldIn(x, d)
  <2>1. delivery[d].manual = FALSE => OnceIn(actor[a], d)  BY DEF HoldInv, DeliveryOK, ActorOK
  <2>2. QED  BY <1>2, <1>8, <1>9, <2>1 DEF OnceIn, HeldIn
<1>12. QED  BY <1>3, <1>4, <1>6, <1>8, <1>9, <1>10, <1>11, LastHolder

-----------------------------------------------------------------------------
(* The operators queue rows of their own. *)
LEMMA OperatorStep ==
  ASSUME HoldInv, NEW o \in Actors, NEW d \in Deliveries, Redeliver(o, d) \/ SendTestPing(o, d)
  PROVE  HoldInv'
<1>0. DeliveryTypeOK  BY DEF HoldInv
<1>1. PICK old \in Actor : old = actor[o]  BY <1>0 DEF DeliveryTypeOK
<1>2. PICK was \in Delivery : was = delivery[d]  BY <1>0 DEF DeliveryTypeOK
<1>3. PICK x \in Actor : x = [old EXCEPT !.pc = "now", !.of = d] /\ x.pc = "now" /\ x.of = d /\ x.batch = old.batch
  <2>1. [old EXCEPT !.pc = "now", !.of = d] \in Actor  BY DEF Actor, Phases
  <2>2. QED  BY <2>1 DEF Actor
<1>4. actor' = [actor EXCEPT ![o] = x] /\ old.pc = "idle" /\ endpoint' = endpoint
  BY <1>0, <1>1, <1>3 DEF Redeliver, SendTestPing, DeliveryTypeOK
<1>5. WritesActor(o, x)  BY <1>0, <1>4, ActorUpdate
<1>6. PICK row \in Delivery : delivery' = [delivery EXCEPT ![d] = row] /\ row.manual = TRUE
  <2>1. PICK row \in Delivery : row = [Queued(NoDelivery) EXCEPT !.manual = TRUE] /\ row.manual = TRUE
    <3>1. PICK base \in Delivery : base = NoDelivery  BY DEF NoDelivery, Delivery
    <3>2. PICK next \in Delivery : next = Queued(base)
      <4>1. [base EXCEPT !.status = "pending", !.due = 0] \in Delivery  BY DEF Delivery
      <4>2. QED  BY <4>1 DEF Queued
    <3>3. [next EXCEPT !.manual = TRUE] \in Delivery /\ [next EXCEPT !.manual = TRUE].manual = TRUE
      BY DEF Delivery
    <3>4. QED  BY <3>1, <3>2, <3>3
  <2>2. QED  BY <2>1 DEF Redeliver, SendTestPing
<1>7. WritesDelivery(d, row)  BY <1>0, <1>6, RowUpdate
<1>8. endpoint' \in [Endpoints -> Endpoint]  BY <1>0, <1>4 DEF DeliveryTypeOK
<1>9. age' \in [Events -> Ages]
  <2>1. CASE age' = age  BY <1>0, <2>1 DEF DeliveryTypeOK
  <2>2. CASE age' = [age EXCEPT ![d[1]] = 0]
    <3>1. 0 \in Ages  BY DeliveryAssumption DEF Ages
    <3>2. QED  BY <1>0, <2>2, <3>1 DEF DeliveryTypeOK
  <2>3. QED  BY <2>1, <2>2 DEF Redeliver, SendTestPing
<1>10. ASSUME NEW e \in Deliveries
       PROVE  /\ delivery[e].manual = TRUE => delivery'[e].manual = TRUE
              /\ ActorOK(x, delivery'[e], e)
              /\ \/ delivery'[e] = delivery[e] /\ (HeldIn(x, e) => HeldIn(actor[o], e))
                 \/ Clean(delivery'[e]) => \A b \in Actors \ {o} : ~HeldIn(actor[b], e)
  <2>1. CASE e = d  BY <1>6, <1>7, <2>1 DEF WritesDelivery, ActorOK, Clean
  <2>2. CASE e # d
    <3>1. delivery'[e] = delivery[e]  BY <1>7, <2>2 DEF WritesDelivery
    <3>2. ActorOK(old, delivery[e], e)  BY <1>1 DEF HoldInv, DeliveryOK
    <3>3. HeldIn(x, e) => HeldIn(old, e)  BY <1>3 DEF HeldIn
    <3>4. ActorOK(x, delivery[e], e)  BY <1>3, <2>2, <3>2, <3>3 DEF ActorOK, OnceIn
    <3>5. QED  BY <1>1, <3>1, <3>3, <3>4
  <2>3. QED  BY <2>1, <2>2
<1>11. QED  BY <1>5, <1>7, <1>8, <1>9, <1>10, ActorStep DEF WritesDelivery

-----------------------------------------------------------------------------
(* Steps of no actor: what is held stays pending and not due. *)
LEMMA OutsideStep ==
  ASSUME HoldInv, DeliveryTypeOK', actor' = actor,
         \A d \in Deliveries :
           /\ delivery'[d].manual = delivery[d].manual
           /\ Clean(delivery'[d]) =>
                /\ Clean(delivery[d])
                /\ \A a \in Actors : HeldIn(actor[a], d) =>
                     delivery'[d].status = "pending" /\ delivery'[d].due > 0
  PROVE  HoldInv'
<1>1. ASSUME NEW d \in Deliveries
      PROVE  /\ Clean(delivery'[d]) =>
                  \A b, c \in Actors : HeldIn(actor'[b], d) /\ HeldIn(actor'[c], d) => b = c
             /\ \A b \in Actors : ActorOK(actor'[b], delivery'[d], d)
  <2>1. /\ Clean(delivery[d]) => OneHolder(d)
        /\ \A a \in Actors : ActorOK(actor[a], delivery[d], d)
    BY DEF HoldInv, DeliveryOK
  <2>2. \A b \in Actors : ActorOK(actor[b], delivery'[d], d)  BY <2>1 DEF ActorOK
  <2>3. OneHolder(d) =>
          \A b, c \in Actors : HeldIn(actor'[b], d) /\ HeldIn(actor'[c], d) => b = c
    BY DEF OneHolder
  <2>4. QED  BY <2>1, <2>2, <2>3
<1>2. \A d \in Deliveries : DeliveryOK(d)'
  BY <1>1 DEF DeliveryOK, OneHolder, ActorOK, HeldIn, OnceIn, Clean
<1>3. QED  BY <1>2 DEF HoldInv

LEMMA EmitStep ==
  ASSUME HoldInv, NEW v \in Events, NEW S \in SUBSET Endpoints, EmitDomainEvent(v, S)
  PROVE  HoldInv'
<1>0. DeliveryTypeOK  BY DEF HoldInv
<1>1. ASSUME NEW d \in Deliveries
      PROVE  /\ delivery'[d] \in Delivery
             /\ \/ delivery'[d] = delivery[d]
                \/ /\ delivery[d].status = "absent"
                   /\ delivery'[d].manual = delivery[d].manual /\ delivery'[d].late = delivery[d].late
  <2>1. PICK was \in Delivery : was = delivery[d]  BY <1>0 DEF DeliveryTypeOK
  <2>2. PICK row \in Delivery : /\ row = [was EXCEPT !.status = "pending", !.due = 0]
                                /\ row.manual = was.manual /\ row.late = was.late
    <3>1. [was EXCEPT !.status = "pending", !.due = 0] \in Delivery  BY DEF Delivery
    <3>2. QED  BY <3>1 DEF Delivery
  <2>3. delivery'[d] = IF d[1] = v /\ d[2] \in S /\ was.status = "absent" THEN row ELSE was
    BY <2>1, <2>2 DEF EmitDomainEvent, Queued
  <2>4. QED  BY <2>1, <2>2, <2>3
<1>2. DeliveryTypeOK'
  <2>1. delivery' = [d \in Deliveries |-> delivery'[d]]  BY DEF EmitDomainEvent
  <2>2. delivery' \in [Deliveries -> Delivery]  BY <1>1, <2>1
  <2>3. age' \in [Events -> Ages]
    <3>1. 0 \in Ages  BY DeliveryAssumption DEF Ages
    <3>2. QED  BY <1>0, <3>1 DEF EmitDomainEvent, DeliveryTypeOK
  <2>4. QED  BY <1>0, <2>2, <2>3 DEF EmitDomainEvent, DeliveryTypeOK
<1>3. ASSUME NEW d \in Deliveries
      PROVE  /\ delivery'[d].manual = delivery[d].manual
             /\ Clean(delivery'[d]) =>
                  /\ Clean(delivery[d])
                  /\ \A a \in Actors : HeldIn(actor[a], d) =>
                       delivery'[d].status = "pending" /\ delivery'[d].due > 0
  <2>1. Clean(delivery[d]) =>
          \A a \in Actors : HeldIn(actor[a], d) => delivery[d].status = "pending" /\ delivery[d].due > 0
    BY DEF HoldInv, DeliveryOK, ActorOK
  <2>2. QED  BY <1>1, <2>1 DEF Clean
<1>4. QED  BY <1>2, <1>3, OutsideStep DEF EmitDomainEvent

LEMMA SetEndpointStatusStep ==
  ASSUME HoldInv, NEW e \in Endpoints, NEW status \in {"active", "disabled"}, SetEndpointStatus(e, status)
  PROVE  HoldInv'
<1>0. DeliveryTypeOK  BY DEF HoldInv
<1>1. PICK old \in Endpoint : old = endpoint[e]  BY <1>0 DEF DeliveryTypeOK
<1>2. PICK n \in 0..Threshold : n = IF status = "active" THEN 0 ELSE old.failures
  BY DeliveryAssumption DEF Endpoint
<1>3. PICK new \in Endpoint : new = [old EXCEPT !.status = status, !.failures = n]
  <2>1. [old EXCEPT !.status = status, !.failures = n] \in Endpoint  BY DEF Endpoint
  <2>2. QED  BY <2>1
<1>4. endpoint' = [endpoint EXCEPT ![e] = new]
  BY <1>0, <1>1, <1>2, <1>3 DEF SetEndpointStatus, DeliveryTypeOK
<1>5. delivery' = delivery /\ age' = age /\ actor' = actor  BY DEF SetEndpointStatus
<1>6. DeliveryTypeOK'  BY <1>0, <1>4, <1>5 DEF DeliveryTypeOK
<1>7. \A d \in Deliveries : Clean(delivery[d]) =>
        \A a \in Actors : HeldIn(actor[a], d) => delivery[d].status = "pending" /\ delivery[d].due > 0
  BY DEF HoldInv, DeliveryOK, ActorOK
<1>8. QED  BY <1>5, <1>6, <1>7, OutsideStep

(* A delivery that stays clean is held under a lease that has not run out. *)
LEMMA PassTimeStep ==
  ASSUME HoldInv, PassTime
  PROVE  HoldInv'
<1>0. DeliveryTypeOK  BY DEF HoldInv
<1>1. ASSUME NEW d \in Deliveries
      PROVE  /\ delivery'[d] \in Delivery
             /\ delivery'[d].status = delivery[d].status /\ delivery'[d].manual = delivery[d].manual
             /\ delivery[d].due > 1 => delivery'[d].due > 0
             /\ delivery'[d].late = FALSE => delivery[d].late = FALSE /\ ~RunsOut(d)
  <2>1. PICK was \in Delivery : was = delivery[d]  BY <1>0 DEF DeliveryTypeOK
  <2>2. was.due \in Nat /\ was.late \in BOOLEAN  BY DEF Delivery
  <2>3. PICK due \in Nat : due = (IF was.due > 0 THEN was.due - 1 ELSE 0) /\ (was.due > 1 => due > 0)
    BY <2>2
  <2>4. PICK late \in BOOLEAN : late = (was.late \/ RunsOut(d))  BY <2>2
  <2>5. PICK row \in Delivery : /\ row = [was EXCEPT !.due = due, !.late = late]
                                /\ row.due = due /\ row.status = was.status
                                /\ row.manual = was.manual /\ row.late = late
    <3>1. [was EXCEPT !.due = due, !.late = late] \in Delivery  BY DEF Delivery
    <3>2. QED  BY <3>1 DEF Delivery
  <2>6. delivery'[d] = row  BY <2>1, <2>3, <2>4, <2>5 DEF PassTime
  <2>7. QED  BY <2>1, <2>2, <2>3, <2>4, <2>5, <2>6
<1>2. DeliveryTypeOK'
  <2>1. delivery' = [d \in Deliveries |-> delivery'[d]]  BY DEF PassTime
  <2>2. delivery' \in [Deliveries -> Delivery]  BY <1>1, <2>1
  <2>3. \A n \in Ages : Older(n) \in Ages  BY DeliveryAssumption DEF Ages, Older, Never
  <2>4. age' \in [Events -> Ages]  BY <1>0, <2>3 DEF PassTime, DeliveryTypeOK
  <2>5. QED  BY <1>0, <2>2, <2>4 DEF PassTime, DeliveryTypeOK
<1>3. ASSUME NEW d \in Deliveries
      PROVE  /\ delivery'[d].manual = delivery[d].manual
             /\ Clean(delivery'[d]) =>
                  /\ Clean(delivery[d])
                  /\ \A a \in Actors : HeldIn(actor[a], d) =>
                       delivery'[d].status = "pending" /\ delivery'[d].due > 0
  <2>1. Clean(delivery[d]) => \A a \in Actors : HeldIn(actor[a], d) => delivery[d].status = "pending"
    BY DEF HoldInv, DeliveryOK, ActorOK
  <2>2. delivery[d].due \in Nat  BY <1>0 DEF DeliveryTypeOK, Delivery
  <2>3. ~RunsOut(d) => \A a \in Actors : HeldIn(actor[a], d) => delivery[d].due > 1
    BY <2>2, HeldMeans DEF RunsOut
  <2>4. QED  BY <1>1, <2>1, <2>3 DEF Clean
<1>4. QED  BY <1>2, <1>3, OutsideStep DEF PassTime

-----------------------------------------------------------------------------
LEMMA InitOK == Init => HoldInv
<1> SUFFICES ASSUME Init PROVE HoldInv  OBVIOUS
<1>1. NoDelivery \in Delivery  BY DEF NoDelivery, Delivery
<1>2. [status |-> "active", failures |-> 0] \in Endpoint  BY DeliveryAssumption DEF Endpoint
<1>3. Never \in Ages  BY DEF Ages
<1>4. DeliveryTypeOK  BY <1>1, <1>2, <1>3, IdleFacts DEF Init, DeliveryTypeOK
<1>5. \A a \in Actors : actor[a].pc = "idle" /\ actor[a].batch = {}  BY IdleFacts DEF Init
<1>6. \A d \in Deliveries : DeliveryOK(d)
  BY <1>5 DEF DeliveryOK, OneHolder, ActorOK, HeldIn, OnceIn
<1>7. QED  BY <1>4, <1>6 DEF HoldInv

LEMMA HoldKept == HoldInv /\ [Next]_vars => HoldInv'
<1> SUFFICES ASSUME HoldInv, [Next]_vars PROVE HoldInv'  OBVIOUS
<1>0. Scans \subseteq Actors /\ Operators \subseteq Actors  BY DEF Actors
<1>1. ASSUME NEW v \in Events, NEW S \in SUBSET Endpoints, EmitDomainEvent(v, S) PROVE HoldInv'
  BY <1>1, EmitStep
<1>2. ASSUME NEW w \in Scans, NEW d \in Deliveries, ClaimDue(w, d) PROVE HoldInv'
  BY <1>0, <1>2, ClaimDueStep
<1>3. ASSUME NEW w \in Scans, BeginAttempts(w) PROVE HoldInv'  BY <1>0, <1>3, BeginAttemptsStep
<1>4. ASSUME NEW o \in Operators, NEW d \in Deliveries, Redeliver(o, d) \/ SendTestPing(o, d) PROVE HoldInv'
  BY <1>0, <1>4, OperatorStep
<1>5. ASSUME NEW o \in Operators, AttemptDeliveryNow(o) PROVE HoldInv'  BY <1>0, <1>5, AttemptNowStep
<1>6. ASSUME NEW a \in Actors, AttemptStep(a) PROVE HoldInv'
  BY <1>6, RefuseDisabledStep, PostStep, RecordOutcomeStep, EndpointSteps DEF AttemptStep
<1>7. ASSUME NEW a \in Actors, Crash(a) PROVE HoldInv'  BY <1>7, IdleStep DEF Crash
<1>8. ASSUME NEW e \in Endpoints, NEW status \in {"active", "disabled"}, SetEndpointStatus(e, status)
      PROVE  HoldInv'
  BY <1>8, SetEndpointStatusStep
<1>9. CASE PassTime  BY <1>9, PassTimeStep
<1>10. CASE UNCHANGED vars
  <2>1. delivery' = delivery /\ endpoint' = endpoint /\ age' = age /\ actor' = actor  BY <1>10 DEF vars
  <2>2. DeliveryTypeOK'  BY <2>1 DEF HoldInv, DeliveryTypeOK
  <2>3. \A d \in Deliveries : Clean(delivery[d]) =>
          \A a \in Actors : HeldIn(actor[a], d) => delivery[d].status = "pending" /\ delivery[d].due > 0
    BY DEF HoldInv, DeliveryOK, ActorOK
  <2>4. QED  BY <2>1, <2>2, <2>3, OutsideStep
<1>11. QED  BY <1>1, <1>2, <1>3, <1>4, <1>5, <1>6, <1>7, <1>8, <1>9, <1>10 DEF Next

(* The claim of claimDueDeliveries excludes a second holder of a delivery,  *)
(* among scans and operators, until a holder outlasts its lease or an       *)
(* operator queues the delivery by hand; for any batch, lease and budget.   *)
THEOREM NoSecondHolder == Spec => []LeaseExcludes
<1>1. Init => HoldInv  BY InitOK
<1>2. HoldInv /\ [Next]_vars => HoldInv'  BY HoldKept
<1>3. HoldInv => LeaseExcludes
  <2> SUFFICES ASSUME HoldInv, NEW a \in Actors, NEW b \in Actors, a # b, NEW d \in Held(a) \cap Held(b)
               PROVE  delivery[d].manual \/ delivery[d].late
    BY DEF LeaseExcludes
  <2>1. HeldIn(actor[a], d) /\ HeldIn(actor[b], d)  BY HeldMeans
  <2>2. actor[a] \in Actor  BY DEF HoldInv, DeliveryTypeOK
  <2>3. d \in Deliveries  BY <2>1, <2>2 DEF HeldIn, Actor, Claim
  <2>4. delivery[d] \in Delivery  BY <2>3 DEF HoldInv, DeliveryTypeOK
  <2>5. delivery[d].manual \in BOOLEAN /\ delivery[d].late \in BOOLEAN  BY <2>4 DEF Delivery
  <2>6. ~Clean(delivery[d])  BY <2>1, <2>3 DEF HoldInv, DeliveryOK, OneHolder
  <2>7. QED  BY <2>5, <2>6 DEF Clean
<1>4. QED  BY <1>1, <1>2, <1>3, PTL DEF Spec

(* Every delivery, endpoint and actor of the webhook worker keeps its type, *)
(* also when a batch outlasts its leases.                                   *)
THEOREM TypeCorrect == Spec => []DeliveryTypeOK
<1>1. HoldInv => DeliveryTypeOK  BY DEF HoldInv
<1>2. QED  BY <1>1, InitOK, HoldKept, PTL DEF Spec

-----------------------------------------------------------------------------
(* Whoever writes the row of a clean delivery holds it, or creates it. *)
LEMMA DeliveredKept ==
  ASSUME HoldInv, [Next]_vars, NEW d \in Deliveries, delivery[d].status = "delivered",
         Clean(delivery[d])
  PROVE  delivery'[d].status = "delivered"
<1>0. DeliveryTypeOK /\ \A a \in Actors : ~HeldIn(actor[a], d)
  BY DEF HoldInv, DeliveryOK, ActorOK
<1>1. PICK was \in Delivery : was = delivery[d]  BY <1>0 DEF DeliveryTypeOK
<1>2. ASSUME NEW e \in Deliveries, e # d, NEW row, delivery' = [delivery EXCEPT ![e] = row]
      PROVE  delivery'[d].status = "delivered"
  BY <1>0, <1>2 DEF DeliveryTypeOK
<1>3. ASSUME NEW a \in Actors, AttemptStep(a) PROVE delivery'[d].status = "delivered"
  <2>1. actor[a] \in Actor  BY <1>0 DEF DeliveryTypeOK
  <2>2. ASSUME NEW c \in actor[a].batch, RefuseDisabled(a, c) PROVE delivery'[d].status = "delivered"
    <3>1. c.of # d /\ c.of \in Deliveries  BY <1>0, <2>1 DEF HeldIn, Actor, Claim
    <3>2. delivery' = [delivery EXCEPT ![c.of] = [delivery[c.of] EXCEPT !.status = "failed"]]
      BY <2>2 DEF RefuseDisabled
    <3>3. QED  BY <1>2, <3>1, <3>2
  <2>3. ASSUME RecordOutcome(a) PROVE delivery'[d].status = "delivered"
    <3>1. actor[a].of # d /\ actor[a].of \in Deliveries  BY <1>0, <2>1, <2>3 DEF HeldIn, Actor, RecordOutcome
    <3>2. PICK row : delivery' = [delivery EXCEPT ![actor[a].of] = row]  BY <2>3 DEF RecordOutcome, Writes
    <3>3. QED  BY <1>2, <3>1, <3>2
  <2>4. CASE delivery' = delivery  BY <2>4
  <2>5. QED
    BY <1>3, <2>2, <2>3, <2>4
    DEF AttemptStep, Post, ResetStreak, NoteEndpointFailure, DisableEndpoint, RecordDisable
<1>4. ASSUME NEW a \in Actors, NEW e \in Deliveries, NEW pc, TakeRow(a, e, pc),
             delivery[e].status = "pending"
      PROVE  delivery'[d].status = "delivered"
  <2>1. e # d  BY <1>4
  <2>2. PICK row : delivery' = [delivery EXCEPT ![e] = row]  BY <1>4 DEF TakeRow
  <2>3. QED  BY <1>2, <2>1, <2>2
<1>5. ASSUME NEW w \in Scans, (\E e \in Deliveries : ClaimDue(w, e)) \/ BeginAttempts(w)
      PROVE  delivery'[d].status = "delivered"
  <2>1. w \in Actors  BY DEF Actors
  <2>2. QED  BY <1>4, <1>5, <2>1 DEF ClaimDue, BeginAttempts
<1>6. ASSUME NEW o \in Operators, AttemptDeliveryNow(o) PROVE delivery'[d].status = "delivered"
  <2>1. o \in Actors  BY DEF Actors
  <2>2. actor[o].of \in Deliveries  BY <1>0, <2>1 DEF DeliveryTypeOK, Actor
  <2>3. QED  BY <1>4, <1>6, <2>1, <2>2 DEF AttemptDeliveryNow
<1>7. ASSUME NEW o \in Operators, NEW e \in Deliveries, Redeliver(o, e) \/ SendTestPing(o, e)
      PROVE  delivery'[d].status = "delivered"
  <2>1. e # d  BY <1>7 DEF Redeliver, SendTestPing
  <2>2. PICK row : delivery' = [delivery EXCEPT ![e] = row]  BY <1>7 DEF Redeliver, SendTestPing
  <2>3. QED  BY <1>2, <2>1, <2>2
<1>8. ASSUME NEW v \in Events, NEW S \in SUBSET Endpoints, EmitDomainEvent(v, S)
      PROVE  delivery'[d].status = "delivered"
  BY <1>8 DEF EmitDomainEvent
<1>9. ASSUME PassTime PROVE delivery'[d].status = "delivered"
  <2>1. delivery'[d] = [was EXCEPT !.due = IF was.due > 0 THEN was.due - 1 ELSE 0,
                                   !.late = was.late \/ RunsOut(d)]
    BY <1>1, <1>9 DEF PassTime
  <2>2. QED  BY <1>1, <2>1 DEF Delivery
<1>10. CASE \/ \E a \in Actors : Crash(a)
            \/ \E e \in Endpoints, status \in {"active", "disabled"} : SetEndpointStatus(e, status)
            \/ UNCHANGED vars
  BY <1>10 DEF Crash, SetEndpointStatus, vars
<1>11. QED  BY <1>3, <1>5, <1>6, <1>7, <1>8, <1>9, <1>10 DEF Next

(* A success that recordAttemptOutcome stored is not overwritten by the     *)
(* unfenced record of another attempt, unless a holder outlasted its lease  *)
(* or an operator queued the delivery.                                      *)
THEOREM SuccessStays == Spec => DeliveredIsFinal
<1>1. HoldInv /\ [Next]_vars =>
        [\A d \in Deliveries :
           (/\ delivery[d].status = "delivered"
            /\ ~delivery[d].manual /\ ~delivery[d].late)
           => delivery'[d].status = "delivered"]_vars
  <2> SUFFICES ASSUME HoldInv, [Next]_vars, NEW d \in Deliveries, delivery[d].status = "delivered",
                      ~delivery[d].manual, ~delivery[d].late
               PROVE  delivery'[d].status = "delivered"
    OBVIOUS
  <2>1. delivery[d] \in Delivery  BY DEF HoldInv, DeliveryTypeOK
  <2>2. Clean(delivery[d])  BY <2>1 DEF Clean, Delivery
  <2>3. QED  BY <2>2, DeliveredKept
<1>2. QED  BY <1>1, InitOK, HoldKept, PTL DEF Spec, DeliveredIsFinal
=============================================================================
