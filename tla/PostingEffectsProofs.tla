------------------------ MODULE PostingEffectsProofs ------------------------
(***************************************************************************)
(* Theorems about the posting-effects outbox, for every set of documents,  *)
(* ticks and requests and every value of the attempt ceiling, the stale    *)
(* bound, the backoff cap, the batch size and the number of steps.         *)
(***************************************************************************)
EXTENDS PostingEffects, TLAPS

(* The backoff is a natural number of minutes, whatever the attempt. *)
LEMMA BackoffType == ASSUME NEW n \in Nat PROVE Backoff(n) \in Nat
  BY ConstantsAssumption DEF Backoff

(* Ageing keeps a stamp a stamp and null null. *)
LEMMA OlderType ==
  /\ \A t \in Nat : Older(t) \in Nat
  /\ \A t \in Nat \cup {None} : /\ Older(t) \in Nat \cup {None}
                                /\ Older(t) = None <=> t = None
  BY DEF Older, None

(* The row a claim, a failure or a recovery writes is a row. *)
LEMMA ReleasedType ==
  ASSUME NEW row \in Row, NEW now \in Nat, NEW at \in Nat, NEW t
  PROVE  Released(row, t, now, at) \in Row
  BY DEF Row, Statuses, Released

(* The row a success writes is a row. *)
LEMMA SucceededType ==
  ASSUME NEW row \in Row, NEW at \in Nat
  PROVE  [row EXCEPT !.status = "succeeded", !.lockedAt = None,
                     !.lease = None, !.nextAt = at] \in Row
  BY DEF Row, Statuses

(* Ageing a row, as the sliding time window does, keeps it a row. *)
LEMMA AgedType == ASSUME NEW row \in Row PROVE Aged(row) \in Row
  BY OlderType DEF Row, Aged

(* A claim below the attempt ceiling counts one attempt and stays a row. *)
LEMMA ClaimedType ==
  ASSUME NEW row \in Row, NEW now \in Nat, NEW token \in Nat, row.attempts < MaxAttempts
  PROVE  Claimed(row, token, now) \in Row
<1>1. row.attempts + 1 \in 0..MaxAttempts
  BY ConstantsAssumption DEF Row
<1>2. QED
  BY <1>1 DEF Row, Statuses, Claimed

(* What those writes leave in the columns the arguments below look at. *)
LEMMA ReleasedFields ==
  ASSUME NEW row \in Row, NEW now, NEW at, NEW t
  PROVE  /\ Released(row, t, now, at).status = (IF t THEN "terminal_failed" ELSE "failed")
         /\ Released(row, t, now, at).lease = None
         /\ Released(row, t, now, at).attempts = row.attempts
         /\ Released(row, t, now, at).terminalAt =
              (IF t /\ row.terminalAt = None THEN now ELSE row.terminalAt)
  BY DEF Released, Row

(* Ageing touches stamps only: no status, lease or attempt count. *)
LEMMA AgedFields ==
  ASSUME NEW row \in Row
  PROVE  /\ Aged(row).status = row.status /\ Aged(row).lease = row.lease
         /\ Aged(row).attempts = row.attempts
         /\ Aged(row).terminalAt = None <=> row.terminalAt = None
  BY OlderType DEF Aged, Row

(* The initial and the resting state of a drainer is well formed. *)
LEMMA IdleType == Idle \in Drainer
  BY ConstantsAssumption DEF Idle, Drainer, Phases

(* The absent row is well formed. *)
LEMMA NoRowType == NoRow \in Row
  BY ConstantsAssumption DEF NoRow, Row, Statuses, None

-----------------------------------------------------------------------------
(* The initial state is well typed. *)
LEMMA TypeInit == Init => TypeOK
  BY IdleType, NoRowType, ConstantsAssumption DEF Init, TypeOK

(* What a completion leaves in memory is well formed. *)
LEMMA ResumedType ==
  ASSUME TypeOK, NEW r \in Runners PROVE Resumed(r) \in Drainer
  BY IdleType DEF TypeOK, Resumed, Idle, Drainer, Phases

(* Both claim statements preserve typing: they share the action Claim. *)
LEMMA ClaimType ==
  ASSUME TypeOK, NEW r \in Runners, NEW d \in Docs, NEW now \in Nat, NEW left \in 0..Batch,
         Claim(r, d, now, left)
  PROVE  TypeOK'
<1>1. effect[d] \in Row /\ claims[d] + 1 \in Nat /\ effect[d].attempts < MaxAttempts
  BY DEF TypeOK, Claim, Claimable
<1>2. Claimed(effect[d], claims[d] + 1, now) \in Row
  BY <1>1, ClaimedType
<1>3. Holder(d, now, left) \in Drainer
  BY <1>1, ConstantsAssumption DEF Holder, Drainer, Phases, Row
<1>4. QED
  BY <1>1, <1>2, <1>3 DEF TypeOK, Claim

(* Every action of the outbox preserves typing. *)
LEMMA TypeStep == TypeOK /\ [Next]_vars => TypeOK'
<1> SUFFICES ASSUME TypeOK, [Next]_vars PROVE TypeOK'
  OBVIOUS
<1>1. CASE Tick
  <2>1. \A d \in Docs : Aged(effect[d]) \in Row
    BY AgedType DEF TypeOK
  <2>2. \A r \in Runners : [runner[r] EXCEPT !.now = Older(@)] \in Drainer
    BY OlderType DEF TypeOK, Drainer
  <2>3. QED
    BY <1>1, <2>1, <2>2 DEF Tick, TypeOK
<1>2. ASSUME NEW d \in Docs, PostDocument(d) PROVE TypeOK'
  <2>1. EnqueuePostingEffects(d) \in Row
    BY NoRowType DEF EnqueuePostingEffects, TypeOK, NoRow, Row, Statuses
  <2>2. QED
    BY <1>2, <2>1 DEF PostDocument, TypeOK
<1>3. ASSUME NEW d \in Docs, VoidDocument(d) PROVE TypeOK'
  BY <1>3 DEF VoidDocument, TypeOK
<1>4. ASSUME NEW d \in Docs, ReplayTerminal(d) PROVE TypeOK'
  <2>1. [NoRow EXCEPT !.status = "pending", !.nextAt = clock] \in Row
    BY NoRowType DEF TypeOK, NoRow, Row, Statuses
  <2>2. QED
    BY <1>4, <2>1 DEF ReplayTerminal, TypeOK
<1>5. ASSUME NEW w \in Workers, BeginTick(w) PROVE TypeOK'
  <2>1. \A d \in Docs : Released(effect[d], AtCeiling(effect[d]), clock, clock) \in Row
    BY ReleasedType DEF TypeOK, AtCeiling
  <2>2. \A d \in Docs : AuditTerminal(audit[d], effect[d], AtCeiling(effect[d]), clock)
                           \in [terminal : Nat, replay : Nat]
    BY DEF TypeOK, AuditTerminal
  <2>3. [Idle EXCEPT !.pc = "claim", !.now = clock, !.left = Batch] \in Drainer
    <3>1. Batch \in 0..Batch /\ clock \in Nat /\ "claim" \in Phases
      BY ConstantsAssumption DEF TypeOK, Phases
    <3>2. QED
      BY <3>1, IdleType DEF Drainer
  <2>4. QED
    BY <1>5, <2>1, <2>2, <2>3 DEF BeginTick, RecoverStale, TypeOK, Runners
<1>6. ASSUME NEW w \in Workers, ClaimNextDue(w) PROVE TypeOK'
  <2>1. PICK d \in Docs : Claim(w, d, runner[w].now, runner[w].left - 1)
    BY <1>6 DEF ClaimNextDue
  <2>2. w \in Runners /\ runner[w].now \in Nat /\ runner[w].left - 1 \in 0..Batch
    BY <1>6, ConstantsAssumption DEF ClaimNextDue, TypeOK, Drainer, Runners
  <2>3. QED
    BY <2>1, <2>2, ClaimType
<1>7. ASSUME NEW w \in Workers, EndTick(w) PROVE TypeOK'
  BY <1>7, IdleType DEF EndTick, TypeOK
<1>8. ASSUME NEW q \in Requests, NEW d \in Docs, ClaimForDocument(q, d) PROVE TypeOK'
  <2>1. q \in Runners /\ clock \in Nat /\ 0 \in 0..Batch
    BY ConstantsAssumption DEF TypeOK, Runners
  <2>2. QED
    BY <1>8, <2>1, ClaimType DEF ClaimForDocument
<1>9. ASSUME NEW r \in Runners, LoadDocument(r) PROVE TypeOK'
  BY <1>9 DEF LoadDocument, TypeOK, Drainer, Phases
<1>10. ASSUME NEW r \in Runners, RunStep(r) PROVE TypeOK'
  <2> DEFINE k == runner[r].step
             next == [runner[r] EXCEPT !.step = k + 1,
                                       !.pc = IF k = Steps THEN "complete" ELSE "run"]
  <2>1. k \in 0..Steps /\ k + 1 \in 1..(Steps + 1)
    BY <1>10, ConstantsAssumption DEF RunStep, TypeOK, Drainer
  <2>2. \A d \in Docs : (IF applied[d] < k THEN k ELSE applied[d]) \in 0..Steps
    BY <2>1 DEF TypeOK
  <2>3. applied' \in [Docs -> 0..Steps]
    BY <1>10, <2>2 DEF RunStep, TypeOK
  <2>4. next \in Drainer
    BY <2>1 DEF TypeOK, Drainer, Phases
  <2>5. runner' = [runner EXCEPT ![r] = next]
    BY <1>10 DEF RunStep, TypeOK
  <2>6. QED
    BY <1>10, <2>3, <2>4, <2>5 DEF RunStep, TypeOK
<1>11. ASSUME NEW r \in Runners, StepError(r) PROVE TypeOK'
  <2>1. [runner[r] EXCEPT !.pc = "fail"] \in Drainer
    BY DEF TypeOK, Drainer, Phases
  <2>2. QED
    BY <1>11, <2>1 DEF StepError, TypeOK
<1>12. ASSUME NEW r \in Runners, MarkSucceeded(r) PROVE TypeOK'
  <2>1. CompletionTime(r) \in Nat
    BY DEF CompletionTime, TypeOK, Drainer
  <2>2. effect' \in [Docs -> Row]
    <3>1. \A d \in Docs : [effect[d] EXCEPT !.status = "succeeded", !.lockedAt = None,
                              !.lease = None, !.nextAt = CompletionTime(r)] \in Row
      BY <2>1, SucceededType DEF TypeOK
    <3>2. QED
      BY <1>12, <3>1 DEF MarkSucceeded, TypeOK
  <2>3. QED
    BY <1>12, <2>2, ResumedType DEF MarkSucceeded, TypeOK
<1>13. ASSUME NEW r \in Runners, MarkFailed(r) PROVE TypeOK'
  <2> DEFINE now == CompletionTime(r)
             terminal == runner[r].attempt >= MaxAttempts
             at == now + Backoff(runner[r].attempt)
  <2>1. now \in Nat /\ runner[r].attempt \in Nat
    BY ConstantsAssumption DEF CompletionTime, TypeOK, Drainer
  <2>2. at \in Nat
    BY <2>1, BackoffType
  <2>3. \A d \in Docs : Released(effect[d], terminal, now, at) \in Row
    BY <2>1, <2>2, ReleasedType DEF TypeOK
  <2>4. \A d \in Docs : AuditTerminal(audit[d], effect[d], terminal, now)
                          \in [terminal : Nat, replay : Nat]
    BY DEF TypeOK, AuditTerminal
  <2>5. QED
    BY <1>13, <2>3, <2>4, ResumedType DEF MarkFailed, TypeOK
<1>14. ASSUME NEW r \in Runners, Crash(r) PROVE TypeOK'
  BY <1>14, IdleType DEF Crash, TypeOK
<1>15. CASE UNCHANGED vars
  BY <1>15 DEF vars, TypeOK
<1>16. QED
  BY <1>1, <1>2, <1>3, <1>4, <1>5, <1>6, <1>7, <1>8, <1>9, <1>10, <1>11, <1>12,
     <1>13, <1>14, <1>15 DEF Next, RunnerNext

(* Type correctness of the outbox, for every instance. *)
THEOREM TypeCorrect == Spec => []TypeOK
  BY TypeInit, TypeStep, PTL DEF Spec

-----------------------------------------------------------------------------
(* The fence: a row is leased exactly while it runs and then to its newest  *)
(* claim; tokens in memory are numbers of past claims, all different; and   *)
(* the drainer that owns the lease knows the row's own attempt count.       *)
LeasedToNewest ==
  \A d \in Docs : /\ effect[d].status = "running" <=> effect[d].lease # None
                  /\ effect[d].lease # None => effect[d].lease = claims[d]

HoldersClaimed ==
  \A r \in Runners : Holding(r) => /\ runner[r].doc \in Docs
                                   /\ runner[r].token <= claims[runner[r].doc]

TokensDiffer ==
  \A r, s \in Runners :
    (r # s /\ Holding(r) /\ Holding(s) /\ runner[r].doc = runner[s].doc)
      => runner[r].token # runner[s].token

OwnersCount ==
  \A r \in Runners :
    (Holding(r) /\ OwnsLease(r)) => runner[r].attempt = effect[runner[r].doc].attempts

Fence == LeasedToNewest /\ HoldersClaimed /\ TokensDiffer /\ OwnersCount

(* Nothing is leased or held at first. *)
LEMMA FenceInit == Init => Fence
  BY DEF Init, Fence, LeasedToNewest, HoldersClaimed, TokensDiffer, OwnersCount,
         Holding, Idle, NoRow, None

(* A claim extends the fence by one number nobody holds yet. *)
LEMMA FenceClaim ==
  ASSUME TypeOK, Fence, NEW r \in Runners, NEW d \in Docs, NEW now, NEW left,
         Claim(r, d, now, left)
  PROVE  Fence'
<1>1. claims' = [claims EXCEPT ![d] = claims[d] + 1] /\ claims[d] \in Nat
  BY DEF Claim, TypeOK
<1>2. /\ effect' = [effect EXCEPT ![d] = Claimed(effect[d], claims[d] + 1, now)]
      /\ effect'[d].status = "running" /\ effect'[d].lease = claims[d] + 1
      /\ effect'[d].attempts = effect[d].attempts + 1
  BY DEF Claim, TypeOK, Claimed, Row
<1>3. /\ runner' = [runner EXCEPT ![r] = Holder(d, now, left)]
      /\ runner'[r].doc = d /\ runner'[r].token = claims[d] + 1
      /\ runner'[r].attempt = effect[d].attempts + 1
  BY DEF Claim, TypeOK, Holder
<1>4. LeasedToNewest'
  BY <1>1, <1>2 DEF Fence, LeasedToNewest, TypeOK, None
<1>5. HoldersClaimed'
  BY <1>1, <1>3 DEF Fence, HoldersClaimed, Holding, TypeOK, Drainer
<1>6. TokensDiffer'
  BY <1>1, <1>3 DEF Fence, HoldersClaimed, TokensDiffer, Holding, TypeOK, Drainer
<1>7. OwnersCount'
  <2> SUFFICES ASSUME NEW q \in Runners, Holding(q)', OwnsLease(q)'
               PROVE  runner'[q].attempt = effect'[runner'[q].doc].attempts
    BY DEF OwnersCount
  <2>1. CASE q = r
    BY <1>2, <1>3, <2>1 DEF TypeOK
  <2>2. CASE q # r
    <3>1. runner'[q] = runner[q] /\ Holding(q)
      BY <1>3, <2>2 DEF Holding, TypeOK
    <3>2. runner[q].doc # d
      BY <1>1, <1>2, <3>1 DEF Fence, HoldersClaimed, OwnsLease, TypeOK, Drainer
    <3>3. effect'[runner[q].doc] = effect[runner[q].doc]
      BY <1>2, <3>1, <3>2 DEF Fence, HoldersClaimed, TypeOK
    <3>4. QED
      BY <3>1, <3>3 DEF Fence, OwnersCount, OwnsLease
  <2>3. QED
    BY <2>1, <2>2
<1>8. QED
  BY <1>4, <1>5, <1>6, <1>7 DEF Fence

(* A drainer that gives up what it holds, or holds nothing, disturbs no     *)
(* other drainer's token, nor does a row that stops running.                *)
LEMMA FenceHolders ==
  ASSUME TypeOK, Fence, NEW r \in Runners, NEW s, claims' = claims,
         runner' = [runner EXCEPT ![r] = s],
         s.pc \notin {"load", "run", "complete", "fail"},
         \A d \in Docs : effect'[d] = effect[d] \/ effect'[d].status # "running"
  PROVE  HoldersClaimed' /\ TokensDiffer' /\ OwnersCount'
<1>1. \A q \in Runners : Holding(q)' => runner'[q] = runner[q] /\ Holding(q)
  BY DEF Holding, TypeOK
<1>2. HoldersClaimed' /\ TokensDiffer'
  BY <1>1 DEF Fence, HoldersClaimed, TokensDiffer
<1>3. OwnersCount'
  BY <1>1 DEF Fence, HoldersClaimed, OwnersCount, OwnsLease
<1>4. QED
  BY <1>2, <1>3

(* Every action preserves the fence: claims extend it, completions and       *)
(* recoveries release the lease, everything else leaves tokens alone.        *)
LEMMA FenceStep == TypeOK /\ Fence /\ [Next]_vars => Fence'
<1> SUFFICES ASSUME TypeOK, Fence, [Next]_vars PROVE Fence'
  OBVIOUS
<1>1. CASE Tick
  <2>1. /\ claims' = claims
        /\ \A d \in Docs : /\ effect'[d].status = effect[d].status
                           /\ effect'[d].lease = effect[d].lease
                           /\ effect'[d].attempts = effect[d].attempts
        /\ \A r \in Runners : /\ runner'[r].pc = runner[r].pc
                              /\ runner'[r].doc = runner[r].doc
                              /\ runner'[r].token = runner[r].token
                              /\ runner'[r].attempt = runner[r].attempt
    BY <1>1, AgedFields DEF Tick, TypeOK, Drainer
  <2>2. QED
    BY <2>1 DEF Fence, LeasedToNewest, HoldersClaimed, TokensDiffer, OwnersCount,
                Holding, OwnsLease
<1>2. ASSUME NEW d \in Docs, PostDocument(d) \/ VoidDocument(d) \/ ReplayTerminal(d) PROVE Fence'
  <2>1. /\ claims' = claims /\ runner' = runner
        /\ \A e \in Docs : \/ effect'[e] = effect[e]
                           \/ effect'[e].status = "pending" /\ effect'[e].lease = None
    <3>1. CASE PostDocument(d)
      BY <3>1 DEF PostDocument, EnqueuePostingEffects, TypeOK, NoRow
    <3>2. CASE VoidDocument(d)
      BY <3>2 DEF VoidDocument
    <3>3. CASE ReplayTerminal(d)
      BY <3>3 DEF ReplayTerminal, TypeOK, NoRow
    <3>4. QED
      BY <1>2, <3>1, <3>2, <3>3
  <2>2. QED
    BY <2>1 DEF Fence, LeasedToNewest, HoldersClaimed, TokensDiffer, OwnersCount,
                Holding, OwnsLease
<1>3. ASSUME NEW w \in Workers, BeginTick(w) PROVE Fence'
  <2>1. /\ claims' = claims /\ w \in Runners
        /\ runner' = [runner EXCEPT ![w] = [Idle EXCEPT !.pc = "claim", !.now = clock, !.left = Batch]]
    BY <1>3 DEF BeginTick, Runners
  <2>2. \A d \in Docs : \/ effect'[d] = effect[d]
                        \/ effect'[d].status # "running" /\ effect'[d].lease = None
    <3>1. \A d \in Docs : /\ AtCeiling(effect[d]) \in BOOLEAN
                          /\ effect[d] \in Row
      BY DEF AtCeiling, TypeOK
    <3>2. \A d \in Docs :
            /\ Released(effect[d], AtCeiling(effect[d]), clock, clock).status # "running"
            /\ Released(effect[d], AtCeiling(effect[d]), clock, clock).lease = None
      BY <3>1, ReleasedFields
    <3>3. \A d \in Docs : effect'[d] =
            IF IsStale(d, clock) THEN Released(effect[d], AtCeiling(effect[d]), clock, clock)
                                 ELSE effect[d]
      BY <1>3 DEF BeginTick, RecoverStale
    <3>4. QED
      BY <3>2, <3>3
  <2>3. HoldersClaimed' /\ TokensDiffer' /\ OwnersCount'
    BY <2>1, <2>2, FenceHolders DEF Idle
  <2>4. QED
    BY <2>1, <2>2, <2>3 DEF Fence, LeasedToNewest
<1>4. ASSUME NEW w \in Workers, ClaimNextDue(w) PROVE Fence'
  <2>1. PICK d \in Docs : Claim(w, d, runner[w].now, runner[w].left - 1)
    BY <1>4 DEF ClaimNextDue
  <2>2. QED
    BY <2>1, FenceClaim DEF Runners
<1>5. ASSUME NEW q \in Requests, NEW d \in Docs, ClaimForDocument(q, d) PROVE Fence'
  BY <1>5, FenceClaim DEF ClaimForDocument, Runners
<1>6. ASSUME NEW r \in Runners, LoadDocument(r) \/ RunStep(r) \/ StepError(r) PROVE Fence'
  <2>1. /\ claims' = claims /\ effect' = effect
        /\ \A s \in Runners : /\ Holding(s)' <=> Holding(s)
                              /\ runner'[s].doc = runner[s].doc
                              /\ runner'[s].token = runner[s].token
                              /\ runner'[s].attempt = runner[s].attempt
    <3>1. CASE LoadDocument(r)
      BY <3>1 DEF LoadDocument, TypeOK, Holding, Drainer
    <3>2. CASE RunStep(r)
      BY <3>2 DEF RunStep, TypeOK, Holding, Drainer
    <3>3. CASE StepError(r)
      BY <3>3 DEF StepError, TypeOK, Holding, Drainer
    <3>4. QED
      BY <1>6, <3>1, <3>2, <3>3
  <2>2. QED
    BY <2>1 DEF Fence, LeasedToNewest, HoldersClaimed, TokensDiffer, OwnersCount, OwnsLease
<1>7. ASSUME NEW r \in Runners, MarkSucceeded(r) \/ MarkFailed(r) PROVE Fence'
  <2>1. claims' = claims /\ runner' = [runner EXCEPT ![r] = Resumed(r)]
    BY <1>7 DEF MarkSucceeded, MarkFailed
  <2>2. \A d \in Docs : \/ effect'[d] = effect[d]
                        \/ effect'[d].status # "running" /\ effect'[d].lease = None
    <3>1. CASE MarkSucceeded(r)
      <4>1. ASSUME NEW d \in Docs, OwnsLease(r), d = runner[r].doc
            PROVE  effect'[d].status = "succeeded" /\ effect'[d].lease = None
        BY <3>1, <4>1 DEF MarkSucceeded, TypeOK, Row
      <4>2. ASSUME NEW d \in Docs, ~(OwnsLease(r) /\ d = runner[r].doc)
            PROVE  effect'[d] = effect[d]
        BY <3>1, <4>2 DEF MarkSucceeded, TypeOK
      <4>3. QED
        BY <4>1, <4>2
    <3>2. CASE MarkFailed(r)
      <4> DEFINE now == CompletionTime(r)
                 terminal == runner[r].attempt >= MaxAttempts
                 R(d) == Released(effect[d], terminal, now, now + Backoff(runner[r].attempt))
      <4>1. ASSUME NEW d \in Docs PROVE R(d).status # "running" /\ R(d).lease = None
        <5>1. effect[d] \in Row /\ terminal \in BOOLEAN
          BY DEF TypeOK
        <5>2. QED
          BY <5>1, ReleasedFields
      <4>2. \A d \in Docs : effect'[d] = effect[d] \/ effect'[d] = R(d)
        BY <3>2 DEF MarkFailed, TypeOK
      <4>3. QED
        BY <4>1, <4>2
    <3>3. QED
      BY <1>7, <3>1, <3>2
  <2>3. Resumed(r).pc \in {"idle", "claim"}
    BY DEF Resumed, Idle
  <2>4. HoldersClaimed' /\ TokensDiffer' /\ OwnersCount'
    BY <2>1, <2>2, <2>3, FenceHolders
  <2>5. QED
    BY <2>1, <2>2, <2>4 DEF Fence, LeasedToNewest
<1>8. ASSUME NEW r \in Runners, Crash(r) \/ (r \in Workers /\ EndTick(r)) PROVE Fence'
  <2>1. claims' = claims /\ effect' = effect /\ runner' = [runner EXCEPT ![r] = Idle]
    BY <1>8 DEF Crash, EndTick
  <2>2. HoldersClaimed' /\ TokensDiffer' /\ OwnersCount'
    BY <2>1, FenceHolders DEF Idle
  <2>3. QED
    BY <2>1, <2>2 DEF Fence, LeasedToNewest
<1>9. CASE UNCHANGED vars
  BY <1>9 DEF vars, Fence, LeasedToNewest, HoldersClaimed, TokensDiffer, OwnersCount,
              Holding, OwnsLease
<1>10. QED
  BY <1>1, <1>2, <1>3, <1>4, <1>5, <1>6, <1>7, <1>8, <1>9 DEF Next, RunnerNext, Runners

(* The fence is an invariant. *)
LEMMA FenceCorrect == Spec => []Fence
  BY FenceInit, FenceStep, TypeCorrect, PTL DEF Spec

(* Lease exclusion holds for any number of ticks, requests and documents:   *)
(* two drainers never both own the running lease of one row.                *)
THEOREM LeaseExclusion == Spec => []LeaseExclusive
<1>1. Fence => LeaseExclusive
  BY DEF Fence, TokensDiffer, LeaseExclusive, OwnsLease
<1>2. QED
  BY <1>1, FenceCorrect, PTL

-----------------------------------------------------------------------------
(* What one step can do to one row: keep it, queue it, claim it, release it *)
(* after a failure or a stale lease, complete it, or replay it.             *)
Kept(d) ==
  /\ effect'[d].status = effect[d].status /\ effect'[d].attempts = effect[d].attempts
  /\ effect'[d].terminalAt = None <=> effect[d].terminalAt = None
  /\ audit'[d] = audit[d]

Queued(d) ==
  /\ effect[d].status = "absent" /\ effect'[d].status = "pending"
  /\ effect'[d].attempts = 0 /\ effect'[d].terminalAt = None
  /\ audit'[d] = audit[d] /\ document'[d] = "posted"

Taken(d) ==
  /\ Claimable(d) /\ effect'[d].status = "running"
  /\ effect'[d].attempts = effect[d].attempts + 1
  /\ effect'[d].terminalAt = effect[d].terminalAt
  /\ audit'[d] = audit[d]

Lost(d) ==
  \E r \in Runners : /\ Holding(r) /\ ~Holding(r)'
                     /\ runner[r].doc = d /\ OwnsLease(r)

Dropped(d) ==
  LET t == effect[d].attempts >= MaxAttempts IN
  /\ effect[d].status = "running" /\ effect'[d].attempts = effect[d].attempts
  /\ effect'[d].status = IF t THEN "terminal_failed" ELSE "failed"
  /\ effect[d].terminalAt = None =>
       /\ effect'[d].terminalAt # None <=> t
       /\ audit'[d] = IF t THEN [audit[d] EXCEPT !.terminal = @ + 1] ELSE audit[d]
  /\ Lost(d) \/ clock - effect[d].lockedAt > Stale

Completed(d) ==
  /\ effect[d].status = "running" /\ effect'[d].status = "succeeded"
  /\ effect'[d].terminalAt = effect[d].terminalAt
  /\ audit'[d] = audit[d]
  /\ Lost(d)
  /\ \E r \in Runners : runner[r].pc = "complete" /\ runner[r].doc = d

Replayed(d) ==
  /\ effect[d].status = "terminal_failed" /\ effect'[d].status = "pending"
  /\ effect'[d].attempts = 0 /\ effect'[d].terminalAt = None
  /\ audit'[d] = [audit[d] EXCEPT !.replay = @ + 1]
  /\ document[d] = "posted"

(* A step that keeps effect and audit keeps every row. *)
LEMMA RowsKept ==
  ASSUME effect' = effect, audit' = audit, NEW d \in Docs PROVE Kept(d)
  BY DEF Kept

(* A claim takes one row and keeps the others. *)
LEMMA RowsClaimed ==
  ASSUME TypeOK, NEW r \in Runners, NEW e \in Docs, NEW now, NEW left,
         Claim(r, e, now, left), NEW d \in Docs
  PROVE  Kept(d) \/ Taken(d)
  BY DEF Claim, Claimed, Kept, Taken, TypeOK, Row

(* Releasing a running row, at its own attempt count, drops it. *)
LEMMA RowDropped ==
  ASSUME TypeOK, NEW d \in Docs, effect[d].status = "running", NEW now \in Nat, NEW at,
         effect'[d] = Released(effect[d], effect[d].attempts >= MaxAttempts, now, at),
         audit'[d] = AuditTerminal(audit[d], effect[d], effect[d].attempts >= MaxAttempts, now),
         Lost(d) \/ clock - effect[d].lockedAt > Stale
  PROVE  Dropped(d)
<1> DEFINE t == effect[d].attempts >= MaxAttempts
<1>1. effect[d] \in Row /\ t \in BOOLEAN
  BY DEF TypeOK
<1>2. /\ effect'[d].status = (IF t THEN "terminal_failed" ELSE "failed")
      /\ effect'[d].attempts = effect[d].attempts
      /\ effect'[d].terminalAt = (IF t /\ effect[d].terminalAt = None THEN now
                                                                     ELSE effect[d].terminalAt)
  BY <1>1 DEF Released, Row
<1>3. effect[d].terminalAt = None =>
        audit'[d] = IF t THEN [audit[d] EXCEPT !.terminal = @ + 1] ELSE audit[d]
  BY DEF AuditTerminal
<1>4. now # None
  BY DEF None
<1>5. QED
  BY <1>2, <1>3, <1>4 DEF Dropped

(* Every step of the outbox does one of these things to every row.          *)
LEMMA RowStep ==
  ASSUME TypeOK, Fence, [Next]_vars, NEW d \in Docs
  PROVE  \/ Kept(d) \/ Queued(d) \/ Taken(d) \/ Dropped(d) \/ Completed(d) \/ Replayed(d)
<1>1. CASE Tick
  BY <1>1, AgedFields DEF Tick, TypeOK, Kept
<1>2. ASSUME NEW e \in Docs, PostDocument(e) PROVE Kept(d) \/ Queued(d)
  BY <1>2 DEF PostDocument, EnqueuePostingEffects, NoRow, Kept, Queued, TypeOK
<1>3. ASSUME NEW e \in Docs, VoidDocument(e) PROVE Kept(d)
  BY <1>3, RowsKept DEF VoidDocument
<1>4. ASSUME NEW e \in Docs, ReplayTerminal(e) PROVE Kept(d) \/ Replayed(d)
  <2>1. CASE d = e
    BY <1>4, <2>1 DEF ReplayTerminal, NoRow, Replayed, TypeOK
  <2>2. CASE d # e
    BY <1>4, <2>2 DEF ReplayTerminal, Kept, TypeOK
  <2>3. QED
    BY <2>1, <2>2
<1>5. ASSUME NEW w \in Workers, BeginTick(w) PROVE Kept(d) \/ Dropped(d)
  <2>1. CASE IsStale(d, clock)
    <3>1. /\ effect[d].status = "running"
          /\ effect[d].lockedAt \in Nat /\ effect[d].lockedAt < clock - Stale
      BY <2>1 DEF IsStale, TypeOK, Row
    <3>2. clock - effect[d].lockedAt > Stale /\ clock \in Nat
      BY <3>1, ConstantsAssumption DEF TypeOK
    <3>3. /\ effect'[d] = Released(effect[d], effect[d].attempts >= MaxAttempts, clock, clock)
          /\ audit'[d] = AuditTerminal(audit[d], effect[d],
                                       effect[d].attempts >= MaxAttempts, clock)
      BY <1>5, <2>1 DEF BeginTick, RecoverStale, AtCeiling
    <3>4. QED
      BY <3>1, <3>2, <3>3, RowDropped
  <2>2. CASE ~IsStale(d, clock)
    BY <1>5, <2>2 DEF BeginTick, RecoverStale, Kept
  <2>3. QED
    BY <2>1, <2>2
<1>6. ASSUME NEW w \in Workers, ClaimNextDue(w) PROVE Kept(d) \/ Taken(d)
  BY <1>6, RowsClaimed DEF ClaimNextDue, Runners
<1>7. ASSUME NEW w \in Workers, EndTick(w) PROVE Kept(d)
  BY <1>7, RowsKept DEF EndTick
<1>8. ASSUME NEW q \in Requests, NEW e \in Docs, ClaimForDocument(q, e)
      PROVE  Kept(d) \/ Taken(d)
  BY <1>8, RowsClaimed DEF ClaimForDocument, Runners
<1>9. ASSUME NEW r \in Runners, LoadDocument(r) \/ RunStep(r) \/ StepError(r) \/ Crash(r)
      PROVE  Kept(d)
  BY <1>9, RowsKept DEF LoadDocument, RunStep, StepError, Crash
<1>10. ASSUME NEW r \in Runners, MarkSucceeded(r) PROVE Kept(d) \/ Completed(d)
  <2>1. CASE OwnsLease(r) /\ d = runner[r].doc
    <3>1. /\ effect[d].status = "running" /\ effect'[d].status = "succeeded"
          /\ effect'[d].terminalAt = effect[d].terminalAt /\ audit'[d] = audit[d]
      BY <1>10, <2>1 DEF MarkSucceeded, OwnsLease, TypeOK, Row
    <3>2. Lost(d)
      BY <1>10, <2>1 DEF MarkSucceeded, Lost, Holding, Resumed, Idle, TypeOK
    <3>3. runner[r].pc = "complete"
      BY <1>10 DEF MarkSucceeded
    <3>4. QED
      BY <2>1, <3>1, <3>2, <3>3 DEF Completed
  <2>2. CASE ~(OwnsLease(r) /\ d = runner[r].doc)
    BY <1>10, <2>2 DEF MarkSucceeded, TypeOK, Kept
  <2>3. QED
    BY <2>1, <2>2
<1>11. ASSUME NEW r \in Runners, MarkFailed(r) PROVE Kept(d) \/ Dropped(d)
  <2>1. CASE OwnsLease(r) /\ d = runner[r].doc
    <3>1. effect[d].status = "running" /\ runner[r].attempt = effect[d].attempts
      BY <1>11, <2>1 DEF MarkFailed, OwnsLease, Holding, Fence, OwnersCount
    <3>2. Lost(d)
      BY <1>11, <2>1 DEF MarkFailed, Lost, Holding, Resumed, Idle, TypeOK
    <3>3. CompletionTime(r) \in Nat
      BY DEF CompletionTime, TypeOK, Drainer
    <3>4. /\ effect'[d] = Released(effect[d], effect[d].attempts >= MaxAttempts,
                                   CompletionTime(r),
                                   CompletionTime(r) + Backoff(effect[d].attempts))
          /\ audit'[d] = AuditTerminal(audit[d], effect[d],
                                       effect[d].attempts >= MaxAttempts, CompletionTime(r))
      BY <1>11, <2>1, <3>1 DEF MarkFailed, TypeOK
    <3>5. QED
      BY <3>1, <3>2, <3>3, <3>4, RowDropped
  <2>2. CASE ~(OwnsLease(r) /\ d = runner[r].doc)
    BY <1>11, <2>2 DEF MarkFailed, TypeOK, Kept
  <2>3. QED
    BY <2>1, <2>2
<1>12. CASE UNCHANGED vars
  BY <1>12, RowsKept DEF vars
<1>13. QED
  BY <1>1, <1>2, <1>3, <1>4, <1>5, <1>6, <1>7, <1>8, <1>9, <1>10, <1>11, <1>12
     DEF Next, RunnerNext

-----------------------------------------------------------------------------
(* Before anything is posted there are no rows and no evidence.             *)
LEMMA RowsInit ==
  ASSUME Init, NEW d \in Docs
  PROVE  /\ effect[d].status = "absent" /\ effect[d].terminalAt = None
         /\ audit[d].terminal = 0 /\ audit[d].replay = 0
<1>1. effect[d] = NoRow /\ audit[d] = [terminal |-> 0, replay |-> 0]
  BY DEF Init
<1>2. QED
  BY <1>1 DEF NoRow

(* The attempt ceiling is exact for every ceiling: the three places that    *)
(* compare attempt_count with it (claim, recovery, failure) agree.          *)
THEOREM CeilingExact == Spec => []AttemptCeiling
<1>1. Init => AttemptCeiling
  BY RowsInit DEF AttemptCeiling
<1>2. TypeOK /\ Fence /\ AttemptCeiling /\ [Next]_vars => AttemptCeiling'
  <2> SUFFICES ASSUME TypeOK, Fence, AttemptCeiling, [Next]_vars, NEW d \in Docs
               PROVE  /\ effect'[d].status \in {"pending", "failed"}
                           => effect'[d].attempts < MaxAttempts
                      /\ effect'[d].status = "terminal_failed"
                           => effect'[d].attempts = MaxAttempts
    BY DEF AttemptCeiling
  <2>1. effect[d].attempts \in 0..MaxAttempts
    BY DEF TypeOK, Row
  <2>2. CASE Kept(d)
    BY <2>2 DEF Kept, AttemptCeiling
  <2>3. CASE Queued(d) \/ Replayed(d)
    BY <2>3, ConstantsAssumption DEF Queued, Replayed
  <2>4. CASE Taken(d) \/ Completed(d)
    BY <2>4 DEF Taken, Completed
  <2>5. CASE Dropped(d)
    BY <2>1, <2>5, ConstantsAssumption DEF Dropped
  <2>6. QED
    BY <2>2, <2>3, <2>4, <2>5, RowStep
<1>3. QED
  BY <1>1, <1>2, TypeCorrect, FenceCorrect, PTL DEF Spec

(* Terminal evidence: the audit rows of a document count its terminal       *)
(* failures and replays exactly, for any number of both.                    *)
THEOREM EvidenceExact == Spec => []TerminalEvidence
<1>1. Init => TerminalEvidence
  <2> SUFFICES ASSUME Init, NEW d \in Docs
               PROVE  /\ (effect[d].terminalAt # None)
                           <=> (effect[d].status = "terminal_failed")
                      /\ audit[d].terminal = audit[d].replay +
                           (IF effect[d].status = "terminal_failed" THEN 1 ELSE 0)
    BY DEF TerminalEvidence
  <2>1. /\ effect[d].status = "absent" /\ effect[d].terminalAt = None
        /\ audit[d].terminal = 0 /\ audit[d].replay = 0
    BY RowsInit
  <2>2. QED
    BY <2>1
<1>2. TypeOK /\ Fence /\ TerminalEvidence /\ [Next]_vars => TerminalEvidence'
  <2> SUFFICES ASSUME TypeOK, Fence, TerminalEvidence, [Next]_vars, NEW d \in Docs
               PROVE  /\ (effect'[d].terminalAt # None)
                           <=> (effect'[d].status = "terminal_failed")
                      /\ audit'[d].terminal = audit'[d].replay +
                           (IF effect'[d].status = "terminal_failed" THEN 1 ELSE 0)
    BY DEF TerminalEvidence
  <2>1. /\ (effect[d].terminalAt # None) <=> (effect[d].status = "terminal_failed")
        /\ audit[d].terminal = audit[d].replay +
             (IF effect[d].status = "terminal_failed" THEN 1 ELSE 0)
        /\ audit[d] \in [terminal : Nat, replay : Nat]
    BY DEF TerminalEvidence, TypeOK
  <2>2. CASE Kept(d)
    BY <2>1, <2>2 DEF Kept
  <2>3. CASE Queued(d)
    BY <2>1, <2>3 DEF Queued
  <2>4. CASE Taken(d)
    BY <2>1, <2>4 DEF Taken, Claimable
  <2>5. CASE Dropped(d)
    BY <2>1, <2>5 DEF Dropped
  <2>6. CASE Completed(d)
    BY <2>1, <2>6 DEF Completed
  <2>7. CASE Replayed(d)
    BY <2>1, <2>7 DEF Replayed
  <2>8. QED
    BY <2>2, <2>3, <2>4, <2>5, <2>6, <2>7, RowStep
<1>3. QED
  BY <1>1, <1>2, TypeCorrect, FenceCorrect, PTL DEF Spec

(* Success is final in every step of every drainer.                         *)
THEOREM SuccessFinal == Spec => SucceededIsFinal
<1>1. TypeOK /\ Fence /\ [Next]_vars =>
        [\A d \in Docs : effect[d].status = "succeeded" => effect'[d].status = "succeeded"]_vars
  BY RowStep DEF Kept, Queued, Taken, Claimable, Dropped, Completed, Replayed
<1>2. QED
  BY <1>1, TypeCorrect, FenceCorrect, PTL DEF Spec, SucceededIsFinal

(* A row leaves 'running' by its newest claim or after the stale bound.     *)
THEOREM NewestDecides == Spec => NewestClaimDecides
<1> DEFINE Decided(d) ==
      \/ \E r \in Runners : /\ Holding(r) /\ ~Holding(r)'
                            /\ runner[r].doc = d /\ runner[r].token = claims[d]
      \/ clock - effect[d].lockedAt > Stale
<1>1. ASSUME Fence, NEW d \in Docs, Lost(d) PROVE Decided(d)
  BY <1>1 DEF Lost, OwnsLease, Fence, LeasedToNewest
<1>2. ASSUME TypeOK, Fence, [Next]_vars, NEW d \in Docs,
             effect[d].status = "running", effect'[d].status # "running"
      PROVE  Decided(d)
  <2>1. Dropped(d) \/ Completed(d)
    BY <1>2, RowStep DEF Kept, Queued, Taken, Claimable, Replayed
  <2>2. Lost(d) \/ clock - effect[d].lockedAt > Stale
    BY <2>1 DEF Dropped, Completed
  <2>3. QED
    BY <1>1, <1>2, <2>2
<1>3. TypeOK /\ Fence /\ [Next]_vars =>
        [\A d \in Docs :
           (effect[d].status = "running" /\ effect'[d].status # "running") => Decided(d)]_vars
  BY <1>2
<1>4. QED
  BY <1>3, TypeCorrect, FenceCorrect, PTL DEF Spec, NewestClaimDecides

(* Unfinished effects always belong to a posted document: a void waits for  *)
(* success, so the replay is never refused.                                 *)
THEOREM AlwaysRetryable == Spec => []UnfinishedIsRetryable
<1> DEFINE Unfinished == {"pending", "running", "failed", "terminal_failed"}
<1>1. Init => UnfinishedIsRetryable
  BY RowsInit DEF UnfinishedIsRetryable
<1>2. TypeOK /\ Fence /\ UnfinishedIsRetryable /\ [Next]_vars => UnfinishedIsRetryable'
  <2> SUFFICES ASSUME TypeOK, Fence, UnfinishedIsRetryable, [Next]_vars, NEW d \in Docs,
                      effect'[d].status \in Unfinished
               PROVE  document'[d] = "posted"
    BY Zenon DEF UnfinishedIsRetryable
  <2>1. document' = document \/ \E e \in Docs : PostDocument(e) \/ VoidDocument(e)
    BY ZenonT(30)
       DEF Next, RunnerNext, vars, Tick, ReplayTerminal, BeginTick, ClaimNextDue, EndTick,
           ClaimForDocument, Claim, LoadDocument, RunStep, StepError, MarkSucceeded,
           MarkFailed, Crash
  <2>2. CASE document' = document
    BY <2>2, RowStep DEF Kept, Queued, Taken, Claimable, Dropped, Completed, Replayed,
                         UnfinishedIsRetryable
  <2>3. ASSUME NEW e \in Docs, PostDocument(e) PROVE document'[d] = "posted"
    BY <2>3 DEF PostDocument, EnqueuePostingEffects, NoRow, UnfinishedIsRetryable, TypeOK
  <2>4. ASSUME NEW e \in Docs, VoidDocument(e) PROVE document'[d] = "posted"
    BY <2>4 DEF VoidDocument, UnfinishedIsRetryable, TypeOK
  <2>5. QED
    BY <2>1, <2>2, <2>3, <2>4
<1>3. QED
  BY <1>1, <1>2, TypeCorrect, FenceCorrect, PTL DEF Spec

-----------------------------------------------------------------------------
(* Delivery: a drainer is never ahead of what has taken effect, and it      *)
(* reaches the completion only when everything has.                         *)
InOrderAt(r) ==
  LET d == runner[r].doc IN
  /\ effect[d].status # "absent"
  /\ runner[r].pc = "load" => runner[r].step = 1
  /\ runner[r].pc = "run" => runner[r].step <= applied[d] + 1
  /\ runner[r].pc = "complete" => applied[d] = Steps

InOrder == \A r \in Runners : Holding(r) => InOrderAt(r)

Delivered == InOrder /\ SucceededMeansApplied

(* Downstream steps that took effect are never undone, and a row is never   *)
(* deleted.                                                                 *)
LEMMA NothingUndone ==
  ASSUME TypeOK, Fence, [Next]_vars, NEW d \in Docs
  PROVE  /\ applied[d] <= applied'[d] /\ applied'[d] \in 0..Steps
         /\ effect[d].status # "absent" => effect'[d].status # "absent"
<1>1. applied[d] \in 0..Steps /\ applied'[d] \in 0..Steps
  <2>1. TypeOK'
    BY TypeStep
  <2>2. QED
    BY <2>1 DEF TypeOK
<1>2. applied' = applied \/ \E r \in Runners : RunStep(r)
  BY ZenonT(30)
     DEF Next, RunnerNext, vars, Tick, PostDocument, VoidDocument, ReplayTerminal, BeginTick,
         ClaimNextDue, EndTick, ClaimForDocument, Claim, LoadDocument, StepError,
         MarkSucceeded, MarkFailed, Crash
<1>3. ASSUME NEW r \in Runners, RunStep(r) PROVE applied[d] <= applied'[d]
  <2>1. runner[r].step \in 1..(Steps + 1)
    BY DEF TypeOK, Drainer
  <2>2. QED
    BY <1>1, <1>3, <2>1, ConstantsAssumption DEF RunStep, TypeOK
<1>4. applied[d] <= applied'[d]
  BY <1>1, <1>2, <1>3
<1>5. effect[d].status # "absent" => effect'[d].status # "absent"
  <2>1. CASE Kept(d)
    BY <2>1 DEF Kept
  <2>2. CASE Queued(d) \/ Taken(d) \/ Dropped(d) \/ Completed(d) \/ Replayed(d)
    BY <2>2 DEF Queued, Taken, Dropped, Completed, Replayed
  <2>3. QED
    BY <2>1, <2>2, RowStep
<1>6. QED
  BY <1>1, <1>4, <1>5

(* A drainer that holds a row after a step held it before and stands where  *)
(* it stood, has just claimed it, or has made one move of the run.          *)
LEMMA HolderStep ==
  ASSUME TypeOK, [Next]_vars, NEW q \in Runners, Holding(q)'
  PROVE  \/ /\ Holding(q) /\ runner'[q].doc = runner[q].doc
            /\ \/ runner'[q].pc = runner[q].pc /\ runner'[q].step = runner[q].step
               \/ runner'[q].pc = "fail"
               \/ /\ runner[q].pc = "load" /\ runner'[q].pc = "run"
                  /\ runner'[q].step = runner[q].step
               \/ RunStep(q)
         \/ /\ runner'[q].pc = "load" /\ runner'[q].step = 1 /\ runner'[q].doc \in Docs
            /\ effect'[runner'[q].doc].status = "running"
<1> DEFINE Same == Holding(q) /\ runner'[q].doc = runner[q].doc
                   /\ runner'[q].pc = runner[q].pc /\ runner'[q].step = runner[q].step
           New == /\ runner'[q].pc = "load" /\ runner'[q].step = 1 /\ runner'[q].doc \in Docs
                  /\ effect'[runner'[q].doc].status = "running"
<1>1. CASE runner' = runner
  BY <1>1 DEF Holding
<1>2. CASE Tick
  BY <1>2 DEF Tick, TypeOK, Drainer, Holding
<1>3. ASSUME NEW r \in Runners, NEW d \in Docs, NEW now, NEW left, Claim(r, d, now, left)
      PROVE  Same \/ New
  <2>1. CASE q = r
    BY <1>3, <2>1 DEF Claim, Claimed, Holder, TypeOK, Row
  <2>2. CASE q # r
    BY <1>3, <2>2 DEF Claim, Holding, TypeOK
  <2>3. QED
    BY <2>1, <2>2
<1>4. ASSUME NEW r \in Runners, NEW s, runner' = [runner EXCEPT ![r] = s],
             s.pc \notin {"load", "run", "complete", "fail"}
      PROVE  Same
  BY <1>4 DEF Holding, TypeOK
<1>5. ASSUME NEW w \in Workers, BeginTick(w) \/ ClaimNextDue(w) \/ EndTick(w)
      PROVE  Same \/ New
  <2>1. CASE BeginTick(w)
    BY <1>4, <2>1 DEF BeginTick, Runners, Idle
  <2>2. CASE ClaimNextDue(w)
    BY <1>3, <2>2 DEF ClaimNextDue, Runners
  <2>3. CASE EndTick(w)
    BY <1>4, <2>3 DEF EndTick, Runners, Idle
  <2>4. QED
    BY <1>5, <2>1, <2>2, <2>3
<1>6. ASSUME NEW p \in Requests, NEW d \in Docs, ClaimForDocument(p, d) PROVE Same \/ New
  BY <1>3, <1>6 DEF ClaimForDocument, Runners
<1>7. ASSUME NEW r \in Runners, LoadDocument(r)
      PROVE  Same \/ (/\ Holding(q) /\ runner'[q].doc = runner[q].doc
                      /\ runner'[q].step = runner[q].step
                      /\ \/ runner[q].pc = "load" /\ runner'[q].pc = "run"
                         \/ runner'[q].pc = "fail")
  BY <1>7 DEF LoadDocument, Holding, TypeOK, Drainer
<1>8. ASSUME NEW r \in Runners, RunStep(r)
      PROVE  Same \/ (Holding(q) /\ runner'[q].doc = runner[q].doc /\ RunStep(q))
  <2>1. CASE q = r
    BY <1>8, <2>1 DEF RunStep, Holding, TypeOK, Drainer
  <2>2. CASE q # r
    BY <1>8, <2>2 DEF RunStep, Holding, TypeOK
  <2>3. QED
    BY <2>1, <2>2
<1>9. ASSUME NEW r \in Runners, StepError(r)
      PROVE  Same \/ (Holding(q) /\ runner'[q].doc = runner[q].doc /\ runner'[q].pc = "fail")
  BY <1>9 DEF StepError, Holding, TypeOK, Drainer
<1>10. ASSUME NEW r \in Runners, MarkSucceeded(r) \/ MarkFailed(r) \/ Crash(r) PROVE Same
  <2>1. Resumed(r).pc \in {"idle", "claim"} /\ Idle.pc = "idle"
    BY DEF Resumed, Idle
  <2>2. QED
    BY <1>4, <1>10, <2>1 DEF MarkSucceeded, MarkFailed, Crash
<1>11. ASSUME NEW d \in Docs, PostDocument(d) \/ VoidDocument(d) \/ ReplayTerminal(d)
       PROVE  runner' = runner
  BY <1>11 DEF PostDocument, VoidDocument, ReplayTerminal
<1>12. QED
  BY <1>1, <1>2, <1>5, <1>6, <1>7, <1>8, <1>9, <1>10, <1>11 DEF Next, RunnerNext, vars

(* Every step keeps drainers in order and success honest.                   *)
LEMMA DeliveredStep == TypeOK /\ Fence /\ Delivered /\ [Next]_vars => Delivered'
<1> SUFFICES ASSUME TypeOK, Fence, Delivered, [Next]_vars PROVE Delivered'
  OBVIOUS
<1>1. ASSUME NEW q \in Runners, Holding(q)' PROVE InOrderAt(q)'
  <2> DEFINE d == runner[q].doc
  <2>1. CASE /\ runner'[q].pc = "load" /\ runner'[q].step = 1 /\ runner'[q].doc \in Docs
             /\ effect'[runner'[q].doc].status = "running"
    BY <2>1 DEF InOrderAt
  <2>2. CASE Holding(q) /\ runner'[q].doc = d
    <3>1. d \in Docs /\ InOrderAt(q)
      BY <2>2 DEF Fence, HoldersClaimed, Delivered, InOrder
    <3>2. /\ applied[d] <= applied'[d] /\ applied'[d] \in 0..Steps /\ applied[d] \in 0..Steps
          /\ effect'[d].status # "absent"
      BY <3>1, NothingUndone DEF InOrderAt, TypeOK
    <3>3. runner[q].step \in 1..(Steps + 1) /\ Steps \in Nat
      BY ConstantsAssumption DEF TypeOK, Drainer
    <3>4. CASE runner'[q].pc = runner[q].pc /\ runner'[q].step = runner[q].step
      BY <2>2, <3>1, <3>2, <3>3, <3>4 DEF InOrderAt
    <3>5. CASE runner'[q].pc = "fail"
      BY <2>2, <3>2, <3>5 DEF InOrderAt
    <3>6. CASE /\ runner[q].pc = "load" /\ runner'[q].pc = "run"
               /\ runner'[q].step = runner[q].step
      BY <2>2, <3>1, <3>2, <3>6 DEF InOrderAt
    <3>7. CASE RunStep(q)
      <4>1. /\ runner'[q].step = runner[q].step + 1 /\ runner[q].step <= Steps
            /\ runner'[q].pc = IF runner[q].step = Steps THEN "complete" ELSE "run"
            /\ applied'[d] >= runner[q].step
        BY <3>1, <3>2, <3>3, <3>7 DEF RunStep, TypeOK, Drainer
      <4>2. QED
        BY <2>2, <3>2, <3>3, <4>1 DEF InOrderAt
    <3>8. QED
      BY <1>1, <2>1, <3>4, <3>5, <3>6, <3>7, HolderStep
  <2>3. QED
    BY <1>1, <2>1, <2>2, HolderStep
<1>2. ASSUME NEW d \in Docs, effect'[d].status = "succeeded" PROVE applied'[d] = Steps
  <2>1. Kept(d) \/ Completed(d)
    BY <1>2, RowStep DEF Queued, Taken, Dropped, Replayed
  <2>2. applied[d] = Steps
    <3>1. CASE Kept(d)
      BY <1>2, <3>1 DEF Kept, Delivered, SucceededMeansApplied
    <3>2. CASE Completed(d)
      BY <3>2 DEF Completed, Delivered, InOrder, InOrderAt, Holding
    <3>3. QED
      BY <2>1, <3>1, <3>2
  <2>3. QED
    BY <2>2, NothingUndone, ConstantsAssumption
<1>3. QED
  BY <1>1, <1>2 DEF Delivered, InOrder, SucceededMeansApplied

(* The delivery invariant holds of every behaviour.                         *)
LEMMA DeliveredCorrect == Spec => []Delivered
<1>1. Init => Delivered
  <2>1. Init => InOrder
    BY DEF Init, InOrder, Holding, Idle
  <2>2. Init => SucceededMeansApplied
    BY RowsInit DEF SucceededMeansApplied
  <2>3. QED
    BY <2>1, <2>2 DEF Delivered
<1>2. QED
  BY <1>1, DeliveredStep, TypeCorrect, FenceCorrect, PTL DEF Spec

(* A succeeded row has every downstream step behind it, for any number of   *)
(* steps, drainers, crashes and retries.                                    *)
THEOREM SuccessHonest == Spec => []SucceededMeansApplied
  BY DeliveredCorrect, PTL DEF Delivered

-----------------------------------------------------------------------------
(* The refinement.  A step that changes no debt, progress or evidence is    *)
(* invisible to the abstract promise.                                       *)
LEMMA Invisible ==
  ASSUME \A d \in Docs : Debt(d)' = Debt(d), applied' = applied, audit' = audit
  PROVE  UNCHANGED Promise!dvars
  BY DEF Promise!dvars

(* A row that keeps its status keeps its debt.                              *)
LEMMA SameDebt ==
  ASSUME NEW d, effect'[d].status = effect[d].status PROVE Debt(d)' = Debt(d)
  BY DEF Debt

(* A set of rows in work that a step makes terminal, with their audit rows, *)
(* is an abandonment, or invisible when the set is empty.                   *)
LEMMA Abandons ==
  ASSUME NEW D \in SUBSET Docs, applied' = applied,
         \A d \in D : /\ effect[d].status = "running"
                      /\ effect'[d].status = "terminal_failed",
         \A d \in Docs \ D : Debt(d)' = Debt(d),
         audit' = [d \in Docs |-> IF d \in D THEN [audit[d] EXCEPT !.terminal = @ + 1]
                                             ELSE audit[d]],
         audit \in [Docs -> [terminal : Nat, replay : Nat]]
  PROVE  [Promise!DNext]_(Promise!dvars)
<1>1. CASE D = {}
  <2>1. audit' = audit
    BY <1>1
  <2>2. QED
    BY <1>1, <2>1, Invisible
<1>2. CASE D # {}
  <2>1. \A d \in D : Debt(d) = "owed" /\ Debt(d)' = "abandoned"
    BY DEF Debt
  <2>2. Promise!Abandon(D)
    BY <1>2, <2>1 DEF Promise!Abandon
  <2>3. QED
    BY <2>2 DEF Promise!DNext
<1>3. QED
  BY <1>1, <1>2

(* Every step of the outbox is a step of the promise or invisible.          *)
LEMMA PromiseStep ==
  ASSUME TypeOK, Fence, Delivered, TerminalEvidence, [Next]_vars
  PROVE  [Promise!DNext]_(Promise!dvars)
<1>1. CASE effect' = effect /\ applied' = applied /\ audit' = audit
  BY <1>1, Invisible, SameDebt
<1>2. CASE Tick
  <2>1. \A d \in Docs : effect'[d].status = effect[d].status
    BY <1>2, AgedFields DEF Tick, TypeOK
  <2>2. QED
    BY <1>2, <2>1, Invisible, SameDebt DEF Tick
<1>3. ASSUME NEW d \in Docs, PostDocument(d) PROVE [Promise!DNext]_(Promise!dvars)
  <2>1. CASE effect[d].status = "absent"
    <3>1. /\ \A e \in Docs : e # d => effect'[e] = effect[e]
          /\ effect'[d].status = "pending" /\ applied' = applied /\ audit' = audit
      BY <1>3, <2>1 DEF PostDocument, EnqueuePostingEffects, NoRow, TypeOK
    <3>2. Debt(d) = "none" /\ Debt(d)' = "owed" /\ \A e \in Docs : e # d => Debt(e)' = Debt(e)
      BY <2>1, <3>1, SameDebt DEF Debt
    <3>3. Promise!Owe(d)
      BY <3>1, <3>2 DEF Promise!Owe
    <3>4. QED
      BY <3>3 DEF Promise!DNext
  <2>2. CASE effect[d].status # "absent"
    BY <1>1, <1>3, <2>2 DEF PostDocument, EnqueuePostingEffects, TypeOK
  <2>3. QED
    BY <2>1, <2>2
<1>4. ASSUME NEW d \in Docs, ReplayTerminal(d) PROVE [Promise!DNext]_(Promise!dvars)
  <2>1. /\ \A e \in Docs : e # d => effect'[e] = effect[e]
        /\ effect[d].status = "terminal_failed" /\ effect'[d].status = "pending"
        /\ applied' = applied /\ audit' = [audit EXCEPT ![d].replay = @ + 1]
    BY <1>4 DEF ReplayTerminal, NoRow, TypeOK
  <2>2. /\ Debt(d) = "abandoned" /\ Debt(d)' = "owed"
        /\ \A e \in Docs : e # d => Debt(e)' = Debt(e)
    BY <2>1, SameDebt DEF Debt
  <2>3. Promise!Resume(d)
    BY <2>1, <2>2 DEF Promise!Resume
  <2>4. QED
    BY <2>3 DEF Promise!DNext
<1>5. ASSUME NEW w \in Workers, BeginTick(w) PROVE [Promise!DNext]_(Promise!dvars)
  <2> DEFINE D == {d \in Docs : IsStale(d, clock) /\ AtCeiling(effect[d])}
  <2>1. applied' = applied
    BY <1>5 DEF BeginTick
  <2>2. ASSUME NEW d \in Docs, IsStale(d, clock)
        PROVE  /\ effect[d].status = "running" /\ effect[d].terminalAt = None
               /\ effect'[d].status = (IF AtCeiling(effect[d]) THEN "terminal_failed"
                                                               ELSE "failed")
               /\ audit'[d] = IF AtCeiling(effect[d]) THEN [audit[d] EXCEPT !.terminal = @ + 1]
                                                      ELSE audit[d]
    <3>1. effect[d].status = "running" /\ effect[d].terminalAt = None /\ effect[d] \in Row
      BY <2>2 DEF IsStale, TerminalEvidence, TypeOK
    <3>2. /\ effect'[d] = Released(effect[d], AtCeiling(effect[d]), clock, clock)
          /\ audit'[d] = AuditTerminal(audit[d], effect[d], AtCeiling(effect[d]), clock)
      BY <1>5, <2>2 DEF BeginTick, RecoverStale
    <3>3. effect'[d].status = IF AtCeiling(effect[d]) THEN "terminal_failed" ELSE "failed"
      BY <3>1, <3>2 DEF Released, Row
    <3>4. audit'[d] = IF AtCeiling(effect[d]) THEN [audit[d] EXCEPT !.terminal = @ + 1]
                                              ELSE audit[d]
      BY <3>1, <3>2 DEF AuditTerminal
    <3>5. QED
      BY <3>1, <3>3, <3>4
  <2>3. ASSUME NEW d \in Docs, ~IsStale(d, clock)
        PROVE  effect'[d] = effect[d] /\ audit'[d] = audit[d]
    BY <1>5, <2>3 DEF BeginTick, RecoverStale
  <2>4. \A d \in D : effect[d].status = "running" /\ effect'[d].status = "terminal_failed"
    BY <2>2
  <2>5. \A d \in Docs \ D : Debt(d)' = Debt(d)
    BY <2>2, <2>3, SameDebt DEF Debt
  <2>6. audit' = [d \in Docs |-> IF d \in D THEN [audit[d] EXCEPT !.terminal = @ + 1]
                                            ELSE audit[d]]
    <3>1. audit' = [d \in Docs |-> audit'[d]]
      BY <1>5 DEF BeginTick, RecoverStale
    <3>2. \A d \in Docs : audit'[d] = IF d \in D THEN [audit[d] EXCEPT !.terminal = @ + 1]
                                                 ELSE audit[d]
      BY <2>2, <2>3
    <3>3. QED
      BY <3>1, <3>2
  <2>7. audit \in [Docs -> [terminal : Nat, replay : Nat]]
    BY DEF TypeOK
  <2>8. D \in SUBSET Docs
    OBVIOUS
  <2> HIDE DEF D
  <2>9. QED
    BY <2>1, <2>4, <2>5, <2>6, <2>7, <2>8, Abandons
<1>6. ASSUME NEW r \in Runners, NEW d \in Docs, NEW now, NEW left, Claim(r, d, now, left)
      PROVE  [Promise!DNext]_(Promise!dvars)
  <2>1. /\ \A e \in Docs : e # d => effect'[e] = effect[e]
        /\ effect[d].status \in {"pending", "failed"} /\ effect'[d].status = "running"
    BY <1>6 DEF Claim, Claimable, Claimed, TypeOK, Row
  <2>2. \A e \in Docs : Debt(e)' = Debt(e)
    BY <2>1, SameDebt DEF Debt
  <2>3. QED
    BY <1>6, <2>2, Invisible DEF Claim
<1>7. ASSUME NEW r \in Runners, RunStep(r) PROVE [Promise!DNext]_(Promise!dvars)
  <2> DEFINE k == runner[r].step
  <2>1. PICK d \in Docs : /\ d = runner[r].doc /\ effect[d].status # "absent"
                          /\ k <= applied[d] + 1 /\ k <= Steps
    BY <1>7 DEF RunStep, Holding, Fence, HoldersClaimed, Delivered, InOrder, InOrderAt
  <2>2. k \in Nat /\ applied[d] \in Nat /\ Steps \in Nat
    BY <2>1, ConstantsAssumption DEF TypeOK, Drainer
  <2>3. /\ effect' = effect /\ audit' = audit
        /\ applied' = [applied EXCEPT ![d] = IF applied[d] < k THEN k ELSE applied[d]]
    BY <1>7, <2>1 DEF RunStep
  <2>4. \A e \in Docs : Debt(e)' = Debt(e)
    BY <2>3, SameDebt
  <2>5. CASE applied[d] < k
    <3>1. k = applied[d] + 1 /\ applied[d] < Steps
      BY <2>1, <2>2, <2>5
    <3>2. applied' = [applied EXCEPT ![d] = applied[d] + 1]
      BY <2>3, <2>5, <3>1
    <3>3. Debt(d) # "none"
      BY <2>1 DEF Debt
    <3>4. Promise!Progress(d)
      BY <2>1, <2>3, <2>4, <3>1, <3>2, <3>3 DEF Promise!Progress
    <3>5. QED
      BY <3>4 DEF Promise!DNext
  <2>6. CASE ~(applied[d] < k)
    <3>1. applied' = applied
      BY <2>1, <2>3, <2>6 DEF TypeOK
    <3>2. QED
      BY <2>3, <2>4, <3>1, Invisible
  <2>7. QED
    BY <2>5, <2>6
<1>8. ASSUME NEW r \in Runners, MarkSucceeded(r) PROVE [Promise!DNext]_(Promise!dvars)
  <2>1. CASE OwnsLease(r)
    <3>1. PICK d \in Docs : d = runner[r].doc /\ applied[d] = Steps
      BY <1>8 DEF MarkSucceeded, Holding, Fence, HoldersClaimed, Delivered, InOrder, InOrderAt
    <3>2. /\ \A e \in Docs : e # d => effect'[e] = effect[e]
          /\ effect[d].status = "running" /\ effect'[d].status = "succeeded"
          /\ applied' = applied /\ audit' = audit
      BY <1>8, <2>1, <3>1 DEF MarkSucceeded, OwnsLease, TypeOK, Row
    <3>3. /\ Debt(d) = "owed" /\ Debt(d)' = "delivered"
          /\ \A e \in Docs : e # d => Debt(e)' = Debt(e)
      BY <3>2, SameDebt DEF Debt
    <3>4. Promise!Deliver(d)
      BY <3>1, <3>2, <3>3 DEF Promise!Deliver
    <3>5. QED
      BY <3>4 DEF Promise!DNext
  <2>2. CASE ~OwnsLease(r)
    BY <1>1, <1>8, <2>2 DEF MarkSucceeded
  <2>3. QED
    BY <2>1, <2>2
<1>9. ASSUME NEW r \in Runners, MarkFailed(r) PROVE [Promise!DNext]_(Promise!dvars)
  <2> DEFINE d == runner[r].doc
             now == CompletionTime(r)
             t == runner[r].attempt >= MaxAttempts
             D == IF t THEN {d} ELSE {}
  <2>1. CASE OwnsLease(r)
    <3>1. d \in Docs /\ effect[d].status = "running" /\ effect[d] \in Row /\ t \in BOOLEAN
      BY <1>9, <2>1 DEF MarkFailed, OwnsLease, Holding, Fence, HoldersClaimed, TypeOK
    <3>2. effect[d].terminalAt = None
      BY <3>1 DEF TerminalEvidence
    <3>3. /\ applied' = applied
          /\ effect' = [effect EXCEPT ![d] =
                          Released(effect[d], t, now, now + Backoff(runner[r].attempt))]
          /\ audit' = [audit EXCEPT ![d] = AuditTerminal(audit[d], effect[d], t, now)]
      BY <1>9, <2>1 DEF MarkFailed
    <3>4. /\ \A e \in Docs : e # d => effect'[e] = effect[e]
          /\ effect'[d].status = IF t THEN "terminal_failed" ELSE "failed"
      BY <3>1, <3>3 DEF TypeOK, Released, Row
    <3>5. AuditTerminal(audit[d], effect[d], t, now)
            = IF t THEN [audit[d] EXCEPT !.terminal = @ + 1] ELSE audit[d]
      BY <3>2 DEF AuditTerminal
    <3>6. audit' = [e \in Docs |-> IF e \in D THEN [audit[e] EXCEPT !.terminal = @ + 1]
                                              ELSE audit[e]]
      BY <3>1, <3>3, <3>5 DEF TypeOK
    <3>7. \A e \in Docs \ D : Debt(e)' = Debt(e)
      BY <3>1, <3>4, SameDebt DEF Debt
    <3>8. \A e \in D : effect[e].status = "running" /\ effect'[e].status = "terminal_failed"
      BY <3>1, <3>4
    <3>9. D \in SUBSET Docs /\ audit \in [Docs -> [terminal : Nat, replay : Nat]]
      BY <3>1 DEF TypeOK
    <3> HIDE DEF D
    <3>10. QED
      BY <3>3, <3>6, <3>7, <3>8, <3>9, Abandons
  <2>2. CASE ~OwnsLease(r)
    BY <1>1, <1>9, <2>2 DEF MarkFailed
  <2>3. QED
    BY <2>1, <2>2
<1>10. ASSUME NEW w \in Workers, ClaimNextDue(w) PROVE [Promise!DNext]_(Promise!dvars)
  BY <1>6, <1>10 DEF ClaimNextDue, Runners
<1>11. ASSUME NEW q \in Requests, NEW d \in Docs, ClaimForDocument(q, d)
       PROVE  [Promise!DNext]_(Promise!dvars)
  BY <1>6, <1>11 DEF ClaimForDocument, Runners
<1>12. ASSUME \/ \E d \in Docs : VoidDocument(d)
              \/ \E w \in Workers : EndTick(w)
              \/ \E r \in Runners : LoadDocument(r) \/ StepError(r) \/ Crash(r)
              \/ UNCHANGED vars
       PROVE  effect' = effect /\ applied' = applied /\ audit' = audit
  BY <1>12 DEF VoidDocument, EndTick, LoadDocument, StepError, Crash, vars
<1>13. QED
  BY <1>1, <1>2, <1>3, <1>4, <1>5, <1>7, <1>8, <1>9, <1>10, <1>11, <1>12 DEF Next, RunnerNext

(* The leased, retried, crash-prone outbox keeps the abstract promise, for  *)
(* every instance.                                                          *)
THEOREM PromiseKept == Spec => KeepsPromise
<1>1. Init => Promise!DInit
  <2> SUFFICES ASSUME Init PROVE Promise!DInit
    OBVIOUS
  <2>1. \A d \in Docs : Debt(d) = "none"
    BY RowsInit DEF Debt
  <2>2. QED
    BY <2>1 DEF Init, Promise!DInit
<1>2. TypeOK /\ Fence /\ Delivered /\ TerminalEvidence /\ [Next]_vars
        => [Promise!DNext]_(Promise!dvars)
  BY PromiseStep
<1>3. QED
  BY <1>1, <1>2, TypeCorrect, FenceCorrect, DeliveredCorrect, EvidenceExact, PTL
     DEF Spec, KeepsPromise, Promise!DSpec

=============================================================================
