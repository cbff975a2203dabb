--------------------------- MODULE ReceivablesProofs ---------------------------
(***************************************************************************)
(* What a customer is sent and what a customer pays: DunningLetters for    *)
(* every number of rounds, processors, retries and mishaps, and            *)
(* PaymentAcceptance for every quote, number of checkouts and number of    *)
(* returns.                                                                *)
(***************************************************************************)
EXTENDS DunningLetters, PaymentAcceptance, SequenceTheorems, FiniteSetTheorems, FunctionTheorems, TLAPS

Lineage(r) == log[r].lineage

(* The places of a lineage that record the outcome of an attempt *)
DecidedAt(s) == {i \in DOMAIN s : s[i].outcome \in Outcomes}

LEMMA AppendFacts ==
  ASSUME NEW s \in Seq(Record), NEW x \in Record
  PROVE  /\ Append(s, x) \in Seq(Record)
         /\ DOMAIN s = 1..Len(s) /\ Len(s) \in Nat
         /\ DOMAIN Append(s, x) = 1..(Len(s) + 1)
         /\ Append(s, x)[Len(s) + 1] = x
         /\ \A i \in DOMAIN s : i \in DOMAIN Append(s, x) /\ Append(s, x)[i] = s[i]
         /\ \A i \in DOMAIN Append(s, x) : i \in DOMAIN s \/ i = Len(s) + 1
OBVIOUS

LEMMA DecidedIsFinite ==
  ASSUME NEW s \in Seq(Record)
  PROVE  IsFiniteSet(DecidedAt(s)) /\ Cardinality(DecidedAt(s)) \in Nat
<1>1. IsFiniteSet(1..Len(s))  BY FS_Interval
<1>2. DecidedAt(s) \in SUBSET (1..Len(s))  BY DEF DecidedAt
<1>3. IsFiniteSet(DecidedAt(s))  BY <1>1, <1>2, FS_Subset
<1>4. QED  BY <1>3, FS_CardinalityType

LEMMA RecordsFinite ==
  ASSUME NEW r \in Rounds, log[r].lineage \in Seq(Record)
  PROVE  IsFiniteSet(Records(r))
<1> DEFINE s == log[r].lineage
<1>1. Len(s) \in Nat /\ DOMAIN s = 1..Len(s)  OBVIOUS
<1>4. IsFiniteSet(DOMAIN s)  BY <1>1, FS_Interval
<1>2. s \in Surjection(DOMAIN s, Records(r))
  BY DEF Records, Surjection
<1>3. QED  BY <1>4, <1>2, FS_Surjection

(* The number of the next attempt *)
LEMMA AttemptsType ==
  ASSUME NEW r \in Rounds, log[r].lineage \in Seq(Record)
  PROVE  /\ NormalizedAttempts(r) \in Nat
         /\ Dangling(r) = {} => NormalizedAttempts(r) = Cardinality(DecidedAt(Lineage(r)))
<1>1. Dangling(r) \in SUBSET Records(r)  BY DEF Dangling
<1>2. IsFiniteSet(Dangling(r))  BY <1>1, RecordsFinite, FS_Subset
<1>3. Cardinality(Dangling(r)) \in Nat  BY <1>2, FS_CardinalityType
<1>4. NormalizedAttempts(r) = Cardinality(DecidedAt(Lineage(r))) + Cardinality(Dangling(r))
  BY DEF NormalizedAttempts, DecidedAt, Lineage
<1>5. Cardinality(DecidedAt(Lineage(r))) \in Nat  BY DecidedIsFinite DEF Lineage
<1>6. Dangling(r) = {} => Cardinality(Dangling(r)) = 0  BY FS_EmptySet
<1>7. QED  BY <1>3, <1>4, <1>5, <1>6

-----------------------------------------------------------------------------
(* Types.  A lock on a job is held by one processor, and a job that has not *)
(* failed has a try left: its counter stays in range.                       *)
Busy(p) == ~At(p, "idle")

HoldersActive ==
  \A p \in Processors : processor[p].holds => Busy(p) /\ job[processor[p].round].state = "active"

OneHolder ==
  \A p, q \in Processors :
    processor[p].holds /\ processor[q].holds /\ processor[p].round = processor[q].round => p = q

TriesLeft == \A r \in Rounds : job[r].state # "failed" => job[r].made < QueueAttempts

OutcomeKnown ==
  \A p \in Processors : /\ At(p, "append") => processor[p].outcome \in Outcomes
                        /\ At(p, "mark") => processor[p].outcome # "none"

LetterTypes == LettersTypeOK /\ HoldersActive /\ OneHolder /\ TriesLeft /\ OutcomeKnown

LEMMA LetterTypesInit == Init => LetterTypes
<1> SUFFICES ASSUME Init PROVE LetterTypes
  OBVIOUS
<1> USE LettersAssumption
<1>1. claim \in ClaimRow /\ accepted \in Nat /\ mishaps \in 0..MaxMishaps
  BY DEF Init, ClaimRow
<1>2. outbox \in [Rounds -> OutboxRow] /\ job \in [Rounds -> Job]
  BY DEF Init, OutboxRow, Job
<1>3. log \in [Rounds -> Log]
  <2>1. << >> \in Seq(Record)  OBVIOUS
  <2>2. QED  BY <2>1 DEF Init, Log
<1>4. processor \in [Processors -> Processor]
  <2>1. Idle \in Processor  BY DEF Idle, Processor, Phases, Rounds
  <2>2. QED  BY <2>1 DEF Init
<1>5. HoldersActive /\ OneHolder /\ OutcomeKnown
  BY DEF Init, Idle, HoldersActive, OneHolder, OutcomeKnown, At
<1>6. TriesLeft  BY DEF Init, TriesLeft
<1>7. QED  BY <1>1, <1>2, <1>3, <1>4, <1>5, <1>6 DEF LetterTypes, LettersTypeOK

(* A step of the scheduler, the drain or time moves the claim or an outbox  *)
(* row and nothing else.                                                    *)
ClaimStep ==
  \/ RunDunning \/ PassHorizon
  \/ \E r \in Rounds : DrainClaim(r) \/ MarkSucceeded(r) \/ DrainFails(r) \/ Replay(r)

LEMMA DeferReads ==
  ASSUME LetterTypes, NEW input \in Inputs, Defer(input)
  PROVE  /\ claim' \in ClaimRow /\ outbox' \in [Rounds -> OutboxRow]
         /\ \/ /\ claim.round + 1 \in Rounds
               /\ claim' = [status |-> "staged", round |-> claim.round + 1, old |-> FALSE]
               /\ outbox' = [outbox EXCEPT ![claim.round + 1].status = "pending"]
            \/ /\ claim'.status \in {"failed", "suppressed"}
               /\ claim'.round = claim.round /\ claim'.old = FALSE /\ outbox' = outbox
<1> USE DEF LetterTypes, LettersTypeOK
<1>1. claim \in ClaimRow /\ outbox \in [Rounds -> OutboxRow]  OBVIOUS
<1>2. CASE /\ claim.round + 1 \in Rounds
           /\ claim' = [status |-> "staged", round |-> claim.round + 1, old |-> FALSE]
           /\ outbox' = [outbox EXCEPT ![claim.round + 1].status = "pending"]
  BY <1>1, <1>2 DEF ClaimRow, OutboxRow, Rounds
<1>3. CASE /\ input \in {"no_email", "refused"}
           /\ claim' = [claim EXCEPT !.old = FALSE,
                    !.status = IF input = "no_email" THEN "suppressed" ELSE "failed"]
           /\ UNCHANGED outbox
  BY <1>1, <1>3 DEF ClaimRow
<1>4. QED  BY <1>2, <1>3 DEF Defer

LEMMA ClaimStepReads ==
  ASSUME LetterTypes, ClaimStep
  PROVE  /\ claim' \in ClaimRow /\ outbox' \in [Rounds -> OutboxRow] /\ mishaps' \in 0..MaxMishaps
         /\ UNCHANGED <<job, log, processor, accepted>>
<1> USE LettersAssumption DEF LetterTypes, LettersTypeOK
<1>1. claim \in ClaimRow /\ outbox \in [Rounds -> OutboxRow] /\ mishaps \in 0..MaxMishaps  OBVIOUS
<1>2. CASE Reconcile  BY <1>1, <1>2 DEF Reconcile, ClaimRow
<1>3. CASE \E input \in Inputs : OpenClaim(input) \/ ReArm(input)
  BY <1>1, <1>3, DeferReads DEF OpenClaim, ReArm
<1>4. CASE PassHorizon
  <2>1. mishaps' = mishaps \/ (mishaps < MaxMishaps /\ mishaps' = mishaps + 1)
    BY <1>4, Zenon DEF PassHorizon, Mishap
  <2>2. claim' = [claim EXCEPT !.old = TRUE] /\ UNCHANGED <<outbox, job, log, processor, accepted>>
    BY <1>4 DEF PassHorizon
  <2>3. mishaps' \in 0..MaxMishaps  BY <1>1, <2>1
  <2>4. claim' \in ClaimRow  BY <1>1, <2>2 DEF ClaimRow
  <2>5. QED  BY <1>1, <2>2, <2>3, <2>4
<1>5. ASSUME NEW r \in Rounds, DrainClaim(r) PROVE
         outbox' \in [Rounds -> OutboxRow] /\ UNCHANGED <<claim, job, log, processor, accepted, mishaps>>
  <2>1. outbox[r] \in OutboxRow  BY <1>1
  <2>2. [outbox[r] EXCEPT !.status = "running", !.tries = @ + 1] \in OutboxRow
    BY <1>5, <2>1 DEF DrainClaim, OutboxRow
  <2>3. QED  BY <1>1, <1>5, <2>2 DEF DrainClaim
<1>6. ASSUME NEW r \in Rounds, MarkSucceeded(r) \/ DrainFails(r) PROVE
         outbox' \in [Rounds -> OutboxRow] /\ UNCHANGED <<claim, job, log, processor, accepted, mishaps>>
  <2>1. outbox[r] \in OutboxRow  BY <1>1
  <2>2. QED  BY <1>1, <1>6, <2>1 DEF MarkSucceeded, DrainFails, OutboxRow
<1>7. ASSUME NEW r \in Rounds, Replay(r) PROVE
         /\ outbox' \in [Rounds -> OutboxRow] /\ mishaps' \in 0..MaxMishaps
         /\ UNCHANGED <<claim, job, log, processor, accepted>>
  BY <1>1, <1>7 DEF Replay, Mishap, OutboxRow
<1>8. QED  BY <1>1, <1>2, <1>3, <1>4, <1>5, <1>6, <1>7 DEF ClaimStep, RunDunning

(* A step of a processor inside its job: it keeps its job, its number and   *)
(* its lock.                                                                *)
SendStep(p) ==
  Start(p) \/ Transmit(p) \/ RecordOutcome(p) \/ MarkEmail(p) \/ SettleClaim(p)
  \/ BookkeepingFault(p) \/ WriteFault(p)

SameJob(p) ==
  /\ processor'[p].round = processor[p].round /\ processor'[p].n = processor[p].n
  /\ processor'[p].holds = processor[p].holds
  /\ Busy(p) /\ processor'[p].pc # "idle"

Others(p) == \A q \in Processors \ {p} : processor'[q] = processor[q]

LEMMA Moved ==
  ASSUME LetterTypes, NEW p \in Processors, NEW pc \in Phases \ {"idle"},
         NEW outcome \in Outcomes \cup {"confirmed", "none"}, Busy(p),
         processor' = [processor EXCEPT ![p].pc = pc, ![p].outcome = outcome]
  PROVE  /\ processor' \in [Processors -> Processor] /\ SameJob(p) /\ Others(p)
         /\ processor'[p].pc = pc /\ processor'[p].outcome = outcome
<1>1. processor \in [Processors -> Processor] /\ processor[p] \in Processor
  BY DEF LetterTypes, LettersTypeOK
<1>2. processor'[p] = [processor[p] EXCEPT !.pc = pc, !.outcome = outcome]  BY <1>1
<1>3. [processor[p] EXCEPT !.pc = pc, !.outcome = outcome] \in Processor
  BY <1>1 DEF Processor, Outcomes
<1>4. QED  BY <1>1, <1>2, <1>3 DEF SameJob, Others, Processor

LEMMA Went ==
  ASSUME LetterTypes, NEW p \in Processors, NEW pc \in Phases \ {"idle"}, Busy(p), Goto(p, pc)
  PROVE  /\ processor' \in [Processors -> Processor] /\ SameJob(p) /\ Others(p)
         /\ processor'[p].pc = pc /\ processor'[p].outcome = processor[p].outcome
<1>1. processor \in [Processors -> Processor] /\ processor[p] \in Processor
  BY DEF LetterTypes, LettersTypeOK
<1>2. processor'[p] = [processor[p] EXCEPT !.pc = pc]  BY <1>1 DEF Goto
<1>3. [processor[p] EXCEPT !.pc = pc] \in Processor
  BY <1>1 DEF Processor
<1>4. QED  BY <1>1, <1>2, <1>3 DEF SameJob, Others, Processor, Goto

LEMMA Appended ==
  ASSUME LetterTypes, NEW p \in Processors, NEW outcome \in Outcomes \cup {"started"}, Append1(p, outcome)
  PROVE  LET r == processor[p].round
             x == [n |-> processor[p].n, outcome |-> outcome] IN
         /\ r \in Rounds /\ x \in Record /\ Lineage(r) \in Seq(Record)
         /\ log' \in [Rounds -> Log]
         /\ log'[r].lineage = Append(Lineage(r), x) /\ log'[r].status = log[r].status
         /\ \A o \in Rounds \ {r} : log'[o] = log[o]
<1> DEFINE r == processor[p].round
           x == [n |-> processor[p].n, outcome |-> outcome]
<1>1. processor[p] \in Processor /\ log \in [Rounds -> Log]  BY DEF LetterTypes, LettersTypeOK
<1>2. r \in Rounds /\ x \in Record  BY <1>1 DEF Processor, Record
<1>3. log[r] \in Log  BY <1>1, <1>2
<1>4. Lineage(r) \in Seq(Record)  BY <1>3 DEF Log, Lineage
<1>5. Append(Lineage(r), x) \in Seq(Record)  BY <1>2, <1>4, AppendFacts
<1>6. log' = [log EXCEPT ![r].lineage = Append(Lineage(r), x)]  BY DEF Append1, Lineage
<1>7. log'[r] = [log[r] EXCEPT !.lineage = Append(Lineage(r), x)] /\ \A o \in Rounds \ {r} : log'[o] = log[o]
  BY <1>1, <1>2, <1>6
<1>8. log'[r] \in Log /\ log'[r].lineage = Append(Lineage(r), x) /\ log'[r].status = log[r].status
  BY <1>3, <1>5, <1>7 DEF Log
<1>9. log' \in [Rounds -> Log]  BY <1>1, <1>2, <1>6, <1>7, <1>8
<1>10. QED  BY <1>2, <1>4, <1>7, <1>8, <1>9

LEMMA StartReads ==
  ASSUME LetterTypes, NEW p \in Processors, Start(p)
  PROVE  /\ processor' \in [Processors -> Processor] /\ SameJob(p) /\ Others(p)
         /\ At(p, "send") /\ processor'[p].pc = "transmit" /\ Append1(p, "started")
         /\ UNCHANGED <<claim, outbox, job, accepted, mishaps>>
<1>1. Busy(p) /\ Goto(p, "transmit")  BY DEF Start, At, Busy
<1>2. QED  BY <1>1, Went DEF Start, Phases

LEMMA TransmitReads ==
  ASSUME LetterTypes, NEW p \in Processors, Transmit(p)
  PROVE  /\ processor' \in [Processors -> Processor] /\ SameJob(p) /\ Others(p)
         /\ At(p, "transmit") /\ processor'[p].pc = "append" /\ processor'[p].outcome \in Outcomes
         /\ accepted' \in {accepted, accepted + 1}
         /\ processor'[p].outcome = "sent" => accepted' = accepted + 1
         /\ processor'[p].outcome = "notSent" => accepted' = accepted
         /\ UNCHANGED <<claim, outbox, job, log, mishaps>>
<1>1. PICK took \in {0, 1}, outcome \in Outcomes :
        /\ outcome = "sent" => took = 1
        /\ outcome = "notSent" => took = 0
        /\ accepted' = accepted + took
        /\ processor' = [processor EXCEPT ![p].pc = "append", ![p].outcome = outcome]
  BY DEF Transmit
<1>2. Busy(p) /\ accepted \in Nat  BY DEF Transmit, At, Busy, LetterTypes, LettersTypeOK
<1>3. /\ processor' \in [Processors -> Processor] /\ SameJob(p) /\ Others(p)
      /\ processor'[p].pc = "append" /\ processor'[p].outcome = outcome
  BY <1>1, <1>2, Moved DEF Phases
<1>4. QED  BY <1>1, <1>2, <1>3 DEF Transmit

LEMMA RecordReads ==
  ASSUME LetterTypes, NEW p \in Processors, RecordOutcome(p)
  PROVE  /\ processor' \in [Processors -> Processor] /\ SameJob(p) /\ Others(p)
         /\ At(p, "append") /\ processor[p].outcome \in Outcomes
         /\ processor'[p].pc = "mark" /\ processor'[p].outcome = processor[p].outcome
         /\ Append1(p, processor[p].outcome)
         /\ UNCHANGED <<claim, outbox, job, accepted, mishaps>>
<1>1. At(p, "append") /\ Busy(p) /\ Goto(p, "mark")  BY DEF RecordOutcome, At, Busy
<1>2. QED  BY <1>1, Went DEF RecordOutcome, Phases, LetterTypes, OutcomeKnown

(* The status of a delivery row after its mark *)
LEMMA MarkReads ==
  ASSUME LetterTypes, NEW p \in Processors, MarkEmail(p)
  PROVE  LET r == processor[p].round IN
         /\ processor' \in [Processors -> Processor] /\ SameJob(p) /\ Others(p)
         /\ At(p, "mark") /\ processor'[p].pc = "settle" /\ processor'[p].outcome = processor[p].outcome
         /\ log' \in [Rounds -> Log] /\ \A o \in Rounds : log'[o].lineage = log[o].lineage
         /\ \A o \in Rounds \ {r} : log'[o] = log[o]
         /\ log'[r].status = "sent" => processor[p].outcome \in {"sent", "confirmed"} \/ log[r].status = "sent"
         /\ UNCHANGED <<claim, outbox, job, accepted, mishaps>>
<1> DEFINE r == processor[p].round
           outcome == processor[p].outcome
<1>1. At(p, "mark") /\ Busy(p) /\ Goto(p, "settle") /\ UNCHANGED <<claim, outbox, job, accepted, mishaps>>
  BY DEF MarkEmail, At, Busy
<1>2. processor[p] \in Processor /\ log \in [Rounds -> Log] /\ outcome # "none"
  BY <1>1 DEF LetterTypes, LettersTypeOK, OutcomeKnown
<1>3. r \in Rounds /\ outcome \in {"sent", "notSent", "uncertain", "confirmed"}
  BY <1>2 DEF Processor, Outcomes
<1>4. log[r] \in Log  BY <1>2, <1>3
<1>5. PICK status : /\ status \in {"sent", "failed", "uncertain", "suppressed", log[r].status}
                    /\ status = "sent" => outcome \in {"sent", "confirmed"} \/ log[r].status = "sent"
                    /\ log' = [log EXCEPT ![r].status = status]
  BY <1>3 DEF MarkEmail
<1>6. log'[r] = [log[r] EXCEPT !.status = status] /\ \A o \in Rounds \ {r} : log'[o] = log[o]
  BY <1>2, <1>3, <1>5
<1>7. log'[r] \in Log /\ log'[r].lineage = log[r].lineage /\ log'[r].status = status
  BY <1>4, <1>5, <1>6 DEF Log
<1>8. log' \in [Rounds -> Log]  BY <1>2, <1>3, <1>5, <1>6, <1>7
<1>9. /\ processor' \in [Processors -> Processor] /\ SameJob(p) /\ Others(p)
      /\ processor'[p].pc = "settle" /\ processor'[p].outcome = processor[p].outcome
  BY <1>1, Went DEF Phases
<1>10. QED  BY <1>1, <1>5, <1>6, <1>7, <1>8, <1>9

(* What a processor may make of the claim *)
LEMMA SettleReads ==
  ASSUME LetterTypes, NEW p \in Processors, SettleClaim(p)
  PROVE  /\ processor' \in [Processors -> Processor] /\ SameJob(p) /\ Others(p)
         /\ At(p, "settle") /\ processor'[p].outcome = processor[p].outcome
         /\ processor'[p].pc = IF processor[p].outcome \in {"sent", "confirmed"} THEN "ack" ELSE "throw"
         /\ claim' \in ClaimRow
         /\ \/ claim' = claim
            \/ /\ claim.status = "staged" /\ claim'.round = claim.round /\ claim'.old = FALSE
               /\ \/ claim'.status = "sent" /\ processor[p].outcome \in {"sent", "confirmed"}
                  \/ /\ claim'.status = "failed" /\ processor[p].outcome = "notSent"
                     /\ Exhausted(processor[p].round)
         /\ UNCHANGED <<outbox, job, log, accepted, mishaps>>
<1>1. At(p, "settle") /\ Busy(p) /\ claim \in ClaimRow
  BY DEF SettleClaim, At, Busy, LetterTypes, LettersTypeOK
<1>2. PICK pc \in {"ack", "throw"} :
        /\ pc = IF processor[p].outcome \in {"sent", "confirmed"} THEN "ack" ELSE "throw"
        /\ Goto(p, pc)
  BY DEF SettleClaim
<1>3. /\ processor' \in [Processors -> Processor] /\ SameJob(p) /\ Others(p)
      /\ processor'[p].pc = pc /\ processor'[p].outcome = processor[p].outcome
  BY <1>1, <1>2, Went DEF Phases
<1>4. claim' = claim \/ (claim.status = "staged" /\ Verdict(p) # "staged"
                         /\ claim' = [claim EXCEPT !.status = Verdict(p), !.old = FALSE])
  BY DEF SettleClaim
<1>5. \/ Verdict(p) = "sent" /\ processor[p].outcome \in {"sent", "confirmed"}
      \/ Verdict(p) = "failed" /\ processor[p].outcome = "notSent" /\ Exhausted(processor[p].round)
      \/ Verdict(p) = claim.status
  BY DEF Verdict
<1>6. /\ claim' \in ClaimRow
      /\ \/ claim' = claim
         \/ /\ claim.status = "staged" /\ claim'.round = claim.round /\ claim'.old = FALSE
            /\ \/ claim'.status = "sent" /\ processor[p].outcome \in {"sent", "confirmed"}
               \/ /\ claim'.status = "failed" /\ processor[p].outcome = "notSent"
                  /\ Exhausted(processor[p].round)
  BY <1>1, <1>4, <1>5 DEF ClaimRow
<1>7. QED  BY <1>1, <1>2, <1>3, <1>6 DEF SettleClaim

LEMMA FaultReads ==
  ASSUME LetterTypes, NEW p \in Processors, BookkeepingFault(p) \/ WriteFault(p)
  PROVE  /\ processor' \in [Processors -> Processor] /\ SameJob(p) /\ Others(p)
         /\ \/ /\ At(p, "settle") /\ processor[p].outcome # "notSent"
               /\ processor'[p].pc = "throw" /\ processor'[p].outcome = processor[p].outcome
               /\ mishaps' = mishaps
            \/ /\ processor'[p].pc = "append" /\ processor'[p].outcome = "notSent"
               /\ mishaps < MaxMishaps /\ mishaps' = mishaps + 1
         /\ UNCHANGED <<claim, outbox, job, log, accepted>>
<1>1. CASE BookkeepingFault(p)
  <2>1. Busy(p) /\ Goto(p, "throw")  BY <1>1 DEF BookkeepingFault, At, Busy
  <2>2. QED  BY <1>1, <2>1, Went DEF BookkeepingFault, Phases
<1>2. CASE WriteFault(p)
  <2>1. Busy(p) /\ processor' = [processor EXCEPT ![p].pc = "append", ![p].outcome = "notSent"]
    BY <1>2 DEF WriteFault, At, Busy
  <2>2. /\ processor' \in [Processors -> Processor] /\ SameJob(p) /\ Others(p)
        /\ processor'[p].pc = "append" /\ processor'[p].outcome = "notSent"
    BY <2>1, Moved DEF Phases, Outcomes
  <2>3. QED  BY <1>2, <2>2 DEF WriteFault, Mishap
<1>3. QED  BY <1>1, <1>2

LEMMA SendStepTypes ==
  ASSUME LetterTypes, NEW p \in Processors, SendStep(p)
  PROVE  LetterTypes'
<1> USE LettersAssumption
<1>1. accepted \in Nat /\ mishaps \in 0..MaxMishaps /\ log \in [Rounds -> Log]
      /\ outbox \in [Rounds -> OutboxRow] /\ job \in [Rounds -> Job] /\ claim \in ClaimRow
  BY DEF LetterTypes, LettersTypeOK
<1>2. CASE Start(p)
  <2>1. log' \in [Rounds -> Log]  BY <1>2, StartReads, Appended
  <2>2. QED
    BY <1>1, <1>2, <2>1, StartReads DEF LetterTypes, LettersTypeOK, HoldersActive, OneHolder, TriesLeft,
       OutcomeKnown, SameJob, Others, At, Busy
<1>3. CASE Transmit(p)
  <2>1. accepted' \in Nat  BY <1>1, <1>3, TransmitReads
  <2>2. QED
    BY <1>1, <1>3, <2>1, TransmitReads DEF LetterTypes, LettersTypeOK, HoldersActive, OneHolder, TriesLeft,
       OutcomeKnown, SameJob, Others, At, Busy
<1>4. CASE RecordOutcome(p)
  <2>1. log' \in [Rounds -> Log]  BY <1>4, RecordReads, Appended
  <2>2. QED
    BY <1>1, <1>4, <2>1, RecordReads DEF LetterTypes, LettersTypeOK, HoldersActive, OneHolder, TriesLeft,
       OutcomeKnown, SameJob, Others, At, Busy, Outcomes
<1>5. CASE MarkEmail(p)
  BY <1>1, <1>5, MarkReads DEF LetterTypes, LettersTypeOK, HoldersActive, OneHolder, TriesLeft,
     OutcomeKnown, SameJob, Others, At, Busy
<1>6. CASE SettleClaim(p)
  <2>1. /\ processor' \in [Processors -> Processor] /\ SameJob(p) /\ Others(p)
        /\ processor'[p].pc \in {"ack", "throw"} /\ claim' \in ClaimRow
        /\ UNCHANGED <<outbox, job, log, accepted, mishaps>>
    BY <1>6, SettleReads
  <2>2. QED
    BY <1>1, <2>1 DEF LetterTypes, LettersTypeOK, HoldersActive, OneHolder, TriesLeft,
       OutcomeKnown, SameJob, Others, At, Busy
<1>7. CASE BookkeepingFault(p) \/ WriteFault(p)
  <2>1. mishaps' \in 0..MaxMishaps  BY <1>1, <1>7, FaultReads
  <2>2. QED
    BY <1>1, <1>7, <2>1, FaultReads DEF LetterTypes, LettersTypeOK, HoldersActive, OneHolder, TriesLeft,
       OutcomeKnown, SameJob, Others, At, Busy, Outcomes
<1>8. QED  BY <1>2, <1>3, <1>4, <1>5, <1>6, <1>7 DEF SendStep

(* A processor takes a job that waits: it is now the one holder. *)
LEMMA TakeReads ==
  ASSUME LetterTypes, NEW p \in Processors, NEW r \in Rounds, NEW transport \in Transports,
         Take(p, r, transport)
  PROVE  /\ At(p, "idle") /\ job[r].state = "waiting" /\ Others(p)
         /\ processor' \in [Processors -> Processor]
         /\ processor'[p].round = r /\ processor'[p].holds /\ processor'[p].n = NormalizedAttempts(r) + 1
         /\ job' \in [Rounds -> Job] /\ job'[r].state = "active" /\ job'[r].made = job[r].made
         /\ \A o \in Rounds \ {r} : job'[o] = job[o]
         /\ log' \in [Rounds -> Log] /\ \A o \in Rounds : log'[o].lineage = log[o].lineage
         /\ \A o \in Rounds : log'[o].status = "sent" => log[o].status = "sent"
         /\ \/ /\ processor'[p].pc = "mark" /\ processor'[p].outcome = "confirmed"
               /\ Saw(r, "sent")
            \/ processor'[p].pc \in {"throw", "ack"} /\ processor'[p].outcome = "none"
            \/ /\ ~Unresolved(r) /\ ~Saw(r, "sent")
               /\ \/ processor'[p].pc = "append" /\ processor'[p].outcome = "notSent"
                  \/ processor'[p].pc = "send" /\ processor'[p].outcome = "none"
         /\ UNCHANGED <<claim, outbox, accepted, mishaps>>
<1>1. log \in [Rounds -> Log] /\ job \in [Rounds -> Job] /\ processor \in [Processors -> Processor]
  BY DEF LetterTypes, LettersTypeOK
<1>2. log[r] \in Log /\ job[r] \in Job  BY <1>1
<1>3. NormalizedAttempts(r) \in Nat  BY <1>2, AttemptsType DEF Log
<1>4. At(p, "idle") /\ job[r].state = "waiting" /\ UNCHANGED <<claim, outbox, accepted, mishaps>>
      /\ job' = [job EXCEPT ![r].state = "active"]
  BY DEF Take, At
<1>5. job' \in [Rounds -> Job] /\ job'[r].state = "active" /\ job'[r].made = job[r].made
      /\ \A o \in Rounds \ {r} : job'[o] = job[o]
  BY <1>1, <1>2, <1>4 DEF Job
<1>6. ASSUME NEW pc \in Phases, NEW outcome \in Outcomes \cup {"confirmed", "none"},
             Begin(p, r, pc, NormalizedAttempts(r) + 1, outcome)
      PROVE  /\ processor' \in [Processors -> Processor] /\ Others(p)
             /\ processor'[p].round = r /\ processor'[p].holds
             /\ processor'[p].n = NormalizedAttempts(r) + 1
             /\ processor'[p].pc = pc /\ processor'[p].outcome = outcome
  <2> DEFINE b == [pc |-> pc, round |-> r, n |-> NormalizedAttempts(r) + 1, outcome |-> outcome, holds |-> TRUE]
  <2>1. b \in Processor  BY <1>3 DEF Processor
  <2>2. processor' = [processor EXCEPT ![p] = b]  BY <1>6 DEF Begin
  <2>3. processor'[p] = b  BY <1>1, <2>2
  <2>4. processor' \in [Processors -> Processor] /\ Others(p)  BY <1>1, <2>1, <2>2 DEF Others
  <2>5. QED  BY <2>3, <2>4
<1>7. ASSUME NEW status \in {"queued", "suppressed", log[r].status}, log' = [log EXCEPT ![r].status = status]
      PROVE  /\ log' \in [Rounds -> Log] /\ \A o \in Rounds : log'[o].lineage = log[o].lineage
             /\ \A o \in Rounds : log'[o].status = "sent" => log[o].status = "sent"
  BY <1>1, <1>2, <1>7 DEF Log
<1>8. PICK pc \in {"mark", "throw", "ack", "append", "send"},
           outcome \in {"confirmed", "none", "notSent"} :
        /\ Begin(p, r, pc, NormalizedAttempts(r) + 1, outcome)
        /\ log' = log \/ \E status \in {"queued", "suppressed", log[r].status} :
                           log' = [log EXCEPT ![r].status = status]
        /\ \/ pc = "mark" /\ outcome = "confirmed" /\ Saw(r, "sent")
           \/ pc \in {"throw", "ack"} /\ outcome = "none"
           \/ /\ ~Unresolved(r) /\ ~Saw(r, "sent")
              /\ \/ pc = "append" /\ outcome = "notSent"
                 \/ pc = "send" /\ outcome = "none"
  <2> DEFINE m == NormalizedAttempts(r) + 1
             Logged == log' = log \/ \E status \in {"queued", "suppressed", log[r].status} :
                           log' = [log EXCEPT ![r].status = status]
  <2>1. \/ Saw(r, "sent") /\ Begin(p, r, "mark", m, "confirmed") /\ Logged
        \/ Begin(p, r, "throw", m, "none") /\ Logged
        \/ Begin(p, r, "ack", m, "none") /\ Logged
        \/ ~Unresolved(r) /\ ~Saw(r, "sent") /\ Begin(p, r, "append", m, "notSent") /\ Logged
        \/ ~Unresolved(r) /\ ~Saw(r, "sent") /\ Begin(p, r, "send", m, "none") /\ Logged
    BY DEF Take
  <2>2. QED  BY <2>1
<1>9. /\ processor' \in [Processors -> Processor] /\ Others(p)
      /\ processor'[p].round = r /\ processor'[p].holds
      /\ processor'[p].n = NormalizedAttempts(r) + 1
      /\ processor'[p].pc = pc /\ processor'[p].outcome = outcome
  BY <1>6, <1>8 DEF Phases, Outcomes
<1>10. /\ log' \in [Rounds -> Log] /\ \A o \in Rounds : log'[o].lineage = log[o].lineage
       /\ \A o \in Rounds : log'[o].status = "sent" => log[o].status = "sent"
  BY <1>1, <1>7, <1>8
<1>11. QED  BY <1>4, <1>5, <1>8, <1>9, <1>10

LEMMA EnqueueReads ==
  ASSUME LetterTypes, NEW r \in Rounds, Enqueue(r)
  PROVE  /\ outbox[r].status = "running" /\ outbox'[r].status = "queued"
         /\ outbox' \in [Rounds -> OutboxRow] /\ job' \in [Rounds -> Job]
         /\ job'[r].state = IF job[r].state = "none" THEN "waiting" ELSE job[r].state
         /\ job'[r].made = job[r].made
         /\ \A o \in Rounds \ {r} : job'[o] = job[o] /\ outbox'[o] = outbox[o]
         /\ UNCHANGED <<claim, log, processor, accepted, mishaps>>
<1>1. job \in [Rounds -> Job] /\ outbox \in [Rounds -> OutboxRow]
  BY DEF LetterTypes, LettersTypeOK
<1>2. job[r] \in Job /\ outbox[r] \in OutboxRow  BY <1>1
<1>3. /\ outbox'[r].status = "queued" /\ outbox' \in [Rounds -> OutboxRow]
      /\ \A o \in Rounds \ {r} : outbox'[o] = outbox[o]
  BY <1>1, <1>2 DEF Enqueue, OutboxRow
<1>4. job' = [job EXCEPT ![r].state = IF job[r].state = "none" THEN "waiting" ELSE job[r].state]
  BY DEF Enqueue
<1>5. /\ job'[r].state = IF job[r].state = "none" THEN "waiting" ELSE job[r].state
      /\ job' \in [Rounds -> Job] /\ job'[r].made = job[r].made
      /\ \A o \in Rounds \ {r} : job'[o] = job[o]
  BY <1>1, <1>2, <1>4 DEF Job
<1>6. QED  BY <1>3, <1>5 DEF Enqueue

(* The end of an execution: the processor is idle, or lost its lock, and    *)
(* its job moved only if it held the lock.                                  *)
EndStep(p) == Finish(p) \/ Crash(p) \/ Stall(p)

JobEnds(r) ==
  \/ job'[r].state = "failed"
  \/ job'[r].state \in {"done", "waiting"} /\ job'[r].made = job[r].made
  \/ job'[r].state = "waiting" /\ job'[r].made = job[r].made + 1 /\ ~Exhausted(r)

LEMMA RedeliveredReads ==
  ASSUME LetterTypes, NEW r \in Rounds, job' = Redelivered(r)
  PROVE  /\ job' \in [Rounds -> Job] /\ \A o \in Rounds \ {r} : job'[o] = job[o]
         /\ job'[r].state \in {"waiting", "failed"} /\ job'[r].made = job[r].made
<1>1. job \in [Rounds -> Job] /\ job[r] \in Job /\ MaxStalled \in Nat
  BY LettersAssumption DEF LetterTypes, LettersTypeOK
<1>2. CASE job[r].stalled < MaxStalled
  <2>1. job' = [job EXCEPT ![r].state = "waiting", ![r].stalled = @ + 1]  BY <1>2 DEF Redelivered
  <2>2. job'[r] = [job[r] EXCEPT !.state = "waiting", !.stalled = @ + 1]  BY <1>1, <2>1
  <2>5. job[r].stalled + 1 \in 0..MaxStalled
    <3>1. job[r].stalled \in 0..MaxStalled  BY <1>1 DEF Job
    <3>2. QED  BY <1>1, <1>2, <3>1
  <2>3. job'[r] \in Job /\ job'[r].state = "waiting" /\ job'[r].made = job[r].made
    BY <1>1, <2>2, <2>5 DEF Job
  <2>4. QED  BY <1>1, <2>1, <2>2, <2>3
<1>3. CASE ~(job[r].stalled < MaxStalled)
  <2>1. job' = [job EXCEPT ![r].state = "failed"]  BY <1>3 DEF Redelivered
  <2>2. QED  BY <1>1, <2>1 DEF Job
<1>4. QED  BY <1>2, <1>3

LEMMA IdleIsProcessor == Idle \in Processor
BY LettersAssumption DEF Idle, Processor, Phases, Rounds

LEMMA EndReads ==
  ASSUME LetterTypes, NEW p \in Processors, EndStep(p)
  PROVE  LET r == processor[p].round IN
         /\ Busy(p) /\ r \in Rounds /\ Others(p) /\ processor' \in [Processors -> Processor]
         /\ ~processor'[p].holds
         /\ \/ processor'[p] = Idle
            \/ /\ processor'[p].pc = processor[p].pc /\ processor'[p].outcome = processor[p].outcome
               /\ mishaps < MaxMishaps /\ mishaps' = mishaps + 1
         /\ mishaps' \in {mishaps, mishaps + 1} /\ mishaps' \in 0..MaxMishaps
         /\ job' \in [Rounds -> Job] /\ \A o \in Rounds \ {r} : job'[o] = job[o]
         /\ ~processor[p].holds => job' = job
         /\ processor[p].holds => JobEnds(r)
         /\ UNCHANGED <<claim, outbox, log, accepted>>
<1> DEFINE r == processor[p].round
<1>1. /\ processor \in [Processors -> Processor] /\ job \in [Rounds -> Job] /\ mishaps \in 0..MaxMishaps
      /\ processor[p] \in Processor
  BY DEF LetterTypes, LettersTypeOK
<1>2. r \in Rounds /\ processor[p].holds \in BOOLEAN  BY <1>1 DEF Processor
<1>3. job[r] \in Job /\ QueueAttempts \in Nat \ {0} /\ MaxMishaps \in Nat  BY <1>1, <1>2, LettersAssumption
<1>4. processor[p].holds => job[r].state = "active" /\ job[r].made < QueueAttempts
  BY <1>2 DEF LetterTypes, HoldersActive, TriesLeft
<1>5. Idle \in Processor /\ ~Idle.holds  BY IdleIsProcessor DEF Idle
<1>6. CASE Finish(p)
  <2>1. /\ processor' = [processor EXCEPT ![p] = Idle] /\ processor[p].pc \in {"ack", "throw"}
        /\ UNCHANGED <<claim, outbox, log, accepted, mishaps>>
    BY <1>6 DEF Finish
  <2>2. CASE ~processor[p].holds
    <3>1. job' = job  BY <1>6, <2>2 DEF Finish
    <3>2. QED  BY <1>1, <1>2, <1>5, <2>1, <2>2, <3>1 DEF Busy, At, Others
  <2>3. CASE processor[p].holds /\ processor[p].pc = "ack"
    <3>1. job' = [job EXCEPT ![r].state = "done"]  BY <1>6, <2>3 DEF Finish
    <3>2. job'[r] = [job[r] EXCEPT !.state = "done"]  BY <1>1, <1>2, <3>1
    <3>3. job'[r].state = "done" /\ job'[r].made = job[r].made /\ job'[r] \in Job  BY <1>3, <3>2 DEF Job
    <3>4. job' \in [Rounds -> Job] /\ \A o \in Rounds \ {r} : job'[o] = job[o]
      BY <1>1, <1>2, <3>1, <3>2, <3>3
    <3>5. JobEnds(r)  BY <3>3 DEF JobEnds
    <3>6. QED  BY <1>1, <1>2, <1>5, <2>1, <2>3, <3>4, <3>5 DEF Busy, At, Others
  <2>4. CASE processor[p].holds /\ processor[p].pc = "throw"
    <3> DEFINE state == IF Exhausted(r) THEN "failed" ELSE "waiting"
    <3>1. job' = [job EXCEPT ![r].made = @ + 1, ![r].state = state]  BY <1>6, <2>4 DEF Finish
    <3>2. job'[r] = [job[r] EXCEPT !.made = @ + 1, !.state = state]  BY <1>1, <1>2, <3>1
    <3>7. job[r].made + 1 \in 0..QueueAttempts
      <4>1. job[r].made \in 0..QueueAttempts  BY <1>3 DEF Job
      <4>2. QED  BY <1>3, <1>4, <2>4, <4>1
    <3>8. state \in {"failed", "waiting"}  OBVIOUS
    <3> HIDE DEF state
    <3>3. job'[r].state = state /\ job'[r].made = job[r].made + 1 /\ job'[r] \in Job
      BY <1>3, <3>2, <3>7, <3>8 DEF Job
    <3>4. job' \in [Rounds -> Job] /\ \A o \in Rounds \ {r} : job'[o] = job[o]
      BY <1>1, <1>2, <3>1, <3>2, <3>3
    <3>5. JobEnds(r)  BY <3>3 DEF JobEnds, state
    <3>6. QED  BY <1>1, <1>2, <1>5, <2>1, <2>4, <3>4, <3>5 DEF Busy, At, Others
  <2>5. QED  BY <2>1, <2>2, <2>3, <2>4
<1>7. ASSUME job' = IF processor[p].holds THEN Redelivered(r) ELSE job
      PROVE  /\ job' \in [Rounds -> Job] /\ \A o \in Rounds \ {r} : job'[o] = job[o]
             /\ ~processor[p].holds => job' = job
             /\ processor[p].holds => JobEnds(r)
  <2>1. CASE processor[p].holds
    <3>1. job' = Redelivered(r)  BY <1>7, <2>1
    <3>2. QED  BY <1>2, <2>1, <3>1, RedeliveredReads DEF JobEnds
  <2>2. CASE ~processor[p].holds  BY <1>1, <1>7, <2>2
  <2>3. QED  BY <2>1, <2>2
<1>8. CASE Crash(p)
  <2>1. /\ processor' = [processor EXCEPT ![p] = Idle] /\ Busy(p)
        /\ UNCHANGED <<claim, outbox, log, accepted>>
        /\ job' = IF processor[p].holds THEN Redelivered(r) ELSE job
    BY <1>8 DEF Crash, Busy
  <2>2. mishaps' = mishaps \/ (mishaps < MaxMishaps /\ mishaps' = mishaps + 1)
    BY <1>8, Zenon DEF Crash, Mishap
  <2>3. mishaps' \in {mishaps, mishaps + 1} /\ mishaps' \in 0..MaxMishaps  BY <1>1, <1>3, <2>2
  <2>4. QED  BY <1>1, <1>2, <1>5, <1>7, <2>1, <2>3 DEF Others
<1>9. CASE Stall(p)
  <2>1. /\ processor' = [processor EXCEPT ![p].holds = FALSE] /\ Busy(p) /\ processor[p].holds
        /\ UNCHANGED <<claim, outbox, log, accepted>>
        /\ job' = IF processor[p].holds THEN Redelivered(r) ELSE job
        /\ mishaps < MaxMishaps /\ mishaps' = mishaps + 1
    BY <1>9 DEF Stall, Busy, Mishap
  <2>2. mishaps' \in 0..MaxMishaps  BY <1>1, <1>3, <2>1
  <2>3. processor'[p] = [processor[p] EXCEPT !.holds = FALSE]  BY <1>1, <2>1
  <2>4. /\ processor'[p] \in Processor /\ ~processor'[p].holds
        /\ processor'[p].pc = processor[p].pc /\ processor'[p].outcome = processor[p].outcome
    BY <1>1, <2>3 DEF Processor
  <2>5. processor' \in [Processors -> Processor] /\ Others(p)  BY <1>1, <2>1, <2>3, <2>4 DEF Others
  <2>6. QED  BY <1>2, <1>7, <2>1, <2>2, <2>4, <2>5
<1>10. QED  BY <1>6, <1>8, <1>9 DEF EndStep

LEMMA LetterTypesStep == LetterTypes /\ [Next]_vars => LetterTypes'
<1> SUFFICES ASSUME LetterTypes, [Next]_vars PROVE LetterTypes'
  OBVIOUS
<1>0. /\ accepted \in Nat /\ mishaps \in 0..MaxMishaps /\ log \in [Rounds -> Log]
      /\ outbox \in [Rounds -> OutboxRow] /\ job \in [Rounds -> Job] /\ claim \in ClaimRow
      /\ processor \in [Processors -> Processor]
  BY DEF LetterTypes, LettersTypeOK
<1>1. CASE ClaimStep
  <2>1. /\ claim' \in ClaimRow /\ outbox' \in [Rounds -> OutboxRow] /\ mishaps' \in 0..MaxMishaps
        /\ UNCHANGED <<job, log, processor, accepted>>
    BY <1>1, ClaimStepReads
  <2>2. LettersTypeOK'  BY <1>0, <2>1 DEF LettersTypeOK
  <2>3. HoldersActive' /\ OneHolder' /\ TriesLeft' /\ OutcomeKnown'
    BY <2>1 DEF LetterTypes, HoldersActive, OneHolder, TriesLeft, OutcomeKnown, At, Busy
  <2>4. QED  BY <2>2, <2>3 DEF LetterTypes
<1>2. ASSUME NEW r \in Rounds, Enqueue(r) PROVE LetterTypes'
  <2>1. LettersTypeOK'  BY <1>0, <1>2, EnqueueReads DEF LettersTypeOK
  <2>2. HoldersActive'
    <3> SUFFICES ASSUME NEW p \in Processors, processor[p].holds
                 PROVE  Busy(p) /\ job'[processor[p].round].state = "active"
      BY <1>2, EnqueueReads DEF HoldersActive, Busy, At
    <3>1. processor[p].round \in Rounds  BY <1>0 DEF Processor
    <3>2. QED  BY <1>2, <3>1, EnqueueReads DEF LetterTypes, HoldersActive
  <2>3. OneHolder' /\ OutcomeKnown'
    BY <1>2, EnqueueReads DEF LetterTypes, OneHolder, OutcomeKnown, At
  <2>4. TriesLeft'  BY <1>2, EnqueueReads DEF LetterTypes, TriesLeft
  <2>5. QED  BY <2>1, <2>2, <2>3, <2>4 DEF LetterTypes
<1>3. ASSUME NEW p \in Processors, NEW r \in Rounds, NEW transport \in Transports, Take(p, r, transport)
      PROVE  LetterTypes'
  <2>1. LettersTypeOK'  BY <1>0, <1>3, TakeReads DEF LettersTypeOK
  <2>2. \A q \in Processors : processor[q].round \in Rounds /\ (processor[q].holds => processor[q].round # r)
    BY <1>0, <1>3, TakeReads DEF LetterTypes, HoldersActive, Processor
  <2>3. HoldersActive'
    <3> SUFFICES ASSUME NEW q \in Processors, processor'[q].holds
                 PROVE  processor'[q].pc # "idle" /\ job'[processor'[q].round].state = "active"
      BY DEF HoldersActive, Busy, At
    <3>1. CASE q = p  BY <1>3, <3>1, TakeReads
    <3>2. CASE q # p
      <4>1. processor'[q] = processor[q]  BY <1>3, <3>2, TakeReads DEF Others
      <4>2. QED  BY <1>3, <2>2, <4>1, TakeReads DEF LetterTypes, HoldersActive, Busy, At
    <3>3. QED  BY <3>1, <3>2
  <2>4. OneHolder'
    <3>1. \A q \in Processors \ {p} : processor'[q] = processor[q]  BY <1>3, TakeReads DEF Others
    <3>2. processor'[p].round = r  BY <1>3, TakeReads
    <3>3. QED  BY <2>2, <3>1, <3>2 DEF LetterTypes, OneHolder
  <2>5. TriesLeft'  BY <1>3, TakeReads DEF LetterTypes, TriesLeft
  <2>6. OutcomeKnown'  BY <1>3, TakeReads DEF LetterTypes, OutcomeKnown, Others, At, Outcomes
  <2>7. QED  BY <2>1, <2>3, <2>4, <2>5, <2>6 DEF LetterTypes
<1>4. ASSUME NEW p \in Processors, SendStep(p) PROVE LetterTypes'  BY <1>4, SendStepTypes
<1>5. ASSUME NEW p \in Processors, EndStep(p) PROVE LetterTypes'
  <2> DEFINE r == processor[p].round
  <2>0. /\ Busy(p) /\ r \in Rounds /\ processor' \in [Processors -> Processor]
        /\ \A q \in Processors \ {p} : processor'[q] = processor[q]
        /\ ~processor'[p].holds
        /\ \/ processor'[p] = Idle
           \/ processor'[p].pc = processor[p].pc /\ processor'[p].outcome = processor[p].outcome
        /\ mishaps' \in 0..MaxMishaps
        /\ job' \in [Rounds -> Job] /\ \A o \in Rounds \ {r} : job'[o] = job[o]
        /\ ~processor[p].holds => job' = job
        /\ processor[p].holds => JobEnds(r)
        /\ UNCHANGED <<claim, outbox, log, accepted>>
    BY <1>5, EndReads DEF Others
  <2>1. LettersTypeOK'  BY <1>0, <2>0 DEF LettersTypeOK
  <2>2. HoldersActive'
    <3> SUFFICES ASSUME NEW q \in Processors, processor'[q].holds
                 PROVE  processor'[q].pc # "idle" /\ job'[processor'[q].round].state = "active"
      BY DEF HoldersActive, Busy, At
    <3>1. q # p /\ processor'[q] = processor[q] /\ processor[q].round \in Rounds
      BY <1>0, <2>0 DEF Processor
    <3>2. processor[q].pc # "idle" /\ job[processor[q].round].state = "active"
      BY <3>1 DEF LetterTypes, HoldersActive, Busy, At
    <3>3. CASE processor[p].holds
      <4>1. processor[q].round # r  BY <3>1, <3>3 DEF LetterTypes, OneHolder
      <4>2. QED  BY <2>0, <3>1, <3>2, <4>1
    <3>4. CASE ~processor[p].holds  BY <2>0, <3>1, <3>2, <3>4
    <3>5. QED  BY <3>3, <3>4
  <2>3. OneHolder'  BY <2>0 DEF LetterTypes, OneHolder
  <2>4. TriesLeft'
    <3>1. CASE ~processor[p].holds  BY <2>0, <3>1 DEF LetterTypes, TriesLeft
    <3>2. CASE processor[p].holds
      <4>1. job[r].state = "active" /\ job[r].made < QueueAttempts /\ job[r].made \in Nat
            /\ job'[r] \in Job
        BY <1>0, <2>0, <3>2 DEF LetterTypes, HoldersActive, TriesLeft, Job
      <4>2. job'[r].state # "failed" => job'[r].made < QueueAttempts
        BY <2>0, <3>2, <4>1, LettersAssumption DEF JobEnds, Exhausted
      <4>3. QED  BY <2>0, <4>2 DEF LetterTypes, TriesLeft
    <3>3. QED  BY <3>1, <3>2
  <2>5. OutcomeKnown'  BY <2>0 DEF LetterTypes, OutcomeKnown, At, Idle
  <2>6. QED  BY <2>1, <2>2, <2>3, <2>4, <2>5 DEF LetterTypes
<1>6. CASE UNCHANGED vars
  BY <1>0, <1>6 DEF vars, LetterTypes, LettersTypeOK, HoldersActive, OneHolder, TriesLeft, OutcomeKnown, At, Busy
<1>7. QED
  BY <1>1, <1>2, <1>3, <1>4, <1>5, <1>6
  DEF Next, ClaimStep, Drain, Work, SendStep, EndStep

(* Every row and every processor has its type (the rows of dunning_log,     *)
(* scheduler_outbox and email_log, and the queue's jobs).                   *)
THEOREM LettersTypeCorrect == Spec => []LettersTypeOK
<1>1. LetterTypes => LettersTypeOK  BY DEF LetterTypes
<1>2. QED  BY <1>1, LetterTypesInit, LetterTypesStep, PTL DEF Spec

-----------------------------------------------------------------------------
(* Evidence.  What reads as delivered was accepted: every trace of an       *)
(* acceptance, in a row, in a lineage or in a worker's memory.              *)
SawIn(s, outcome) == \E i \in DOMAIN s : s[i].outcome = outcome

EvidenceInv ==
  /\ LetterTypes
  /\ claim.status = "sent" => accepted >= 1
  /\ \A r \in Rounds : log[r].status = "sent" \/ SawIn(Lineage(r), "sent") => accepted >= 1
  /\ \A p \in Processors : processor[p].outcome \in {"sent", "confirmed"} => accepted >= 1

LEMMA SawReads == ASSUME NEW r, NEW outcome
                  PROVE  Saw(r, outcome) <=> SawIn(Lineage(r), outcome)
BY DEF Saw, Records, SawIn, Lineage

LEMMA EvidenceStep == EvidenceInv /\ [Next]_vars => EvidenceInv'
<1> SUFFICES ASSUME EvidenceInv, [Next]_vars PROVE EvidenceInv'
  OBVIOUS
<1> USE DEF Lineage
<1>0. LetterTypes /\ LetterTypes' /\ accepted \in Nat
  BY LetterTypesStep DEF EvidenceInv, LetterTypes, LettersTypeOK
<1>1. CASE ClaimStep
  <2>1. UNCHANGED <<job, log, processor, accepted>>  BY <1>0, <1>1, ClaimStepReads
  <2>2. claim'.status = "sent" => claim.status = "sent" \/ Accepted
    <3>1. claim \in ClaimRow  BY <1>0 DEF LetterTypes, LettersTypeOK
    <3>2. CASE Reconcile  BY <3>1, <3>2 DEF Reconcile, ClaimRow
    <3>3. CASE \E input \in Inputs : OpenClaim(input) \/ ReArm(input)
      BY <1>0, <3>3, DeferReads DEF OpenClaim, ReArm
    <3>4. CASE PassHorizon  BY <3>1, <3>4 DEF PassHorizon, ClaimRow
    <3>5. CASE \E r \in Rounds : DrainClaim(r) \/ MarkSucceeded(r) \/ DrainFails(r) \/ Replay(r)
      BY <3>5 DEF DrainClaim, MarkSucceeded, DrainFails, Replay
    <3>6. QED  BY <1>1, <3>2, <3>3, <3>4, <3>5 DEF ClaimStep, RunDunning
  <2>3. Accepted => accepted >= 1
    <3>1. \A r \in Rounds : Decided(r, "sent") => SawIn(Lineage(r), "sent")  BY DEF Decided, SawIn, Lineage
    <3>2. QED  BY <3>1 DEF Accepted, EvidenceInv
  <2>4. QED  BY <1>0, <2>1, <2>2, <2>3 DEF EvidenceInv, Lineage
<1>2. ASSUME NEW r \in Rounds, Enqueue(r) PROVE EvidenceInv'
  BY <1>0, <1>2, EnqueueReads DEF EvidenceInv, Lineage
<1>3. ASSUME NEW p \in Processors, NEW r \in Rounds, NEW transport \in Transports, Take(p, r, transport)
      PROVE  EvidenceInv'
  <2>1. \A o \in Rounds : Lineage(o)' = Lineage(o)  BY <1>0, <1>3, TakeReads DEF Lineage
  <2>2. \A q \in Processors : processor'[q].outcome \in {"sent", "confirmed"} => accepted >= 1
    BY <1>0, <1>3, SawReads, TakeReads DEF EvidenceInv, Others
  <2>3. QED  BY <1>0, <1>3, <2>1, <2>2, TakeReads DEF EvidenceInv
<1>4. ASSUME NEW p \in Processors, NEW outcome \in Outcomes \cup {"started"}, Append1(p, outcome),
             outcome = "sent" => accepted >= 1
      PROVE  \A o \in Rounds : log'[o].status = "sent" \/ SawIn(log'[o].lineage, "sent") => accepted >= 1
  <2> DEFINE r == processor[p].round
             x == [n |-> processor[p].n, outcome |-> outcome]
  <2>1. /\ r \in Rounds /\ x \in Record /\ Lineage(r) \in Seq(Record)
        /\ log'[r].lineage = Append(Lineage(r), x) /\ log'[r].status = log[r].status
        /\ \A o \in Rounds \ {r} : log'[o] = log[o]
    BY <1>0, <1>4, Appended
  <2>2. SawIn(Append(Lineage(r), x), "sent") => SawIn(Lineage(r), "sent") \/ outcome = "sent"
    BY <2>1, AppendFacts DEF SawIn
  <2>3. QED  BY <1>4, <2>1, <2>2 DEF EvidenceInv, Lineage
<1>5. ASSUME NEW p \in Processors, SendStep(p) PROVE EvidenceInv'
  <2>1. CASE Start(p)
    <3>1. \A o \in Rounds : log'[o].status = "sent" \/ SawIn(log'[o].lineage, "sent") => accepted >= 1
      BY <1>0, <1>4, <2>1, StartReads
    <3>2. processor'[p].outcome = processor[p].outcome
      <4>1. Busy(p) /\ Goto(p, "transmit")  BY <2>1 DEF Start, At, Busy
      <4>2. QED  BY <1>0, <4>1, Went DEF Phases
    <3>3. QED  BY <1>0, <2>1, <3>1, <3>2, StartReads DEF EvidenceInv, Others
  <2>2. CASE Transmit(p)
    <3>1. accepted' >= accepted /\ (processor'[p].outcome \in {"sent", "confirmed"} => accepted' >= 1)
      BY <1>0, <2>2, TransmitReads DEF Outcomes
    <3>2. \A q \in Processors \ {p} : processor'[q] = processor[q]  BY <1>0, <2>2, TransmitReads DEF Others
    <3>3. UNCHANGED <<claim, log>> /\ accepted' \in Nat  BY <1>0, <2>2, TransmitReads
    <3>4. QED  BY <1>0, <3>1, <3>2, <3>3 DEF EvidenceInv, Lineage
  <2>3. CASE RecordOutcome(p)
    <3>1. \A o \in Rounds : log'[o].status = "sent" \/ SawIn(log'[o].lineage, "sent") => accepted >= 1
      BY <1>0, <1>4, <2>3, RecordReads DEF EvidenceInv
    <3>2. QED  BY <1>0, <2>3, <3>1, RecordReads DEF EvidenceInv, Others
  <2>4. CASE MarkEmail(p)
    <3>1. \A o \in Rounds : Lineage(o)' = Lineage(o)  BY <1>0, <2>4, MarkReads DEF Lineage
    <3>2. \A o \in Rounds : log'[o].status = "sent" => accepted >= 1
      BY <1>0, <2>4, MarkReads DEF EvidenceInv
    <3>3. QED  BY <1>0, <2>4, <3>1, <3>2, MarkReads DEF EvidenceInv, Others
  <2>5. CASE SettleClaim(p)
    <3>1. /\ processor'[p].outcome = processor[p].outcome /\ UNCHANGED <<log, accepted>>
          /\ \A q \in Processors \ {p} : processor'[q] = processor[q]
          /\ claim'.status = "sent" => claim.status = "sent" \/ processor[p].outcome \in {"sent", "confirmed"}
      BY <1>0, <2>5, SettleReads DEF Others
    <3>2. QED  BY <1>0, <3>1 DEF EvidenceInv, Lineage
  <2>6. CASE BookkeepingFault(p) \/ WriteFault(p)
    <3>1. /\ processor'[p].outcome \in {processor[p].outcome, "notSent"} /\ UNCHANGED <<claim, log, accepted>>
          /\ \A q \in Processors \ {p} : processor'[q] = processor[q]
      BY <1>0, <2>6, FaultReads DEF Others
    <3>2. QED  BY <1>0, <3>1 DEF EvidenceInv, Lineage
  <2>7. QED  BY <1>5, <2>1, <2>2, <2>3, <2>4, <2>5, <2>6 DEF SendStep
<1>6. ASSUME NEW p \in Processors, EndStep(p) PROVE EvidenceInv'
  <2>1. /\ processor'[p].outcome \in {processor[p].outcome, "none"} /\ UNCHANGED <<claim, log, accepted>>
        /\ \A q \in Processors \ {p} : processor'[q] = processor[q]
    BY <1>0, <1>6, EndReads DEF Others, Idle
  <2>2. QED  BY <1>0, <2>1 DEF EvidenceInv, Lineage
<1>7. CASE UNCHANGED vars  BY <1>0, <1>7 DEF vars, EvidenceInv, Lineage
<1>8. QED
  BY <1>1, <1>2, <1>3, <1>5, <1>6, <1>7
  DEF Next, ClaimStep, Drain, Work, SendStep, EndStep

(* No unsent letter reads as delivered: reconcileDunningClaim and the       *)
(* worker's marks write "sent" only on evidence that leads back to the      *)
(* provider, through any sequence of faults, stalls and replays.            *)
THEOREM SentHasEvidence == Spec => []SentIsEvidence
<1>1. Init => EvidenceInv
  <2> SUFFICES ASSUME Init PROVE EvidenceInv
    OBVIOUS
  <2>1. \A r \in Rounds : ~SawIn(Lineage(r), "sent") /\ log[r].status # "sent"
    BY DEF Init, SawIn, Lineage
  <2>2. claim.status # "sent" /\ \A p \in Processors : processor[p].outcome = "none"
    BY DEF Init, Idle
  <2>3. QED  BY <2>1, <2>2, LetterTypesInit, SawReads DEF EvidenceInv
<1>2. EvidenceInv => SentIsEvidence  BY DEF EvidenceInv, SentIsEvidence
<1>3. QED  BY <1>1, <1>2, EvidenceStep, PTL DEF Spec

-----------------------------------------------------------------------------
(* One letter.  An attempt that started and was not recorded as not sent    *)
(* may have reached the customer: it is evidence, and no lineage loses it.  *)
Evident(s) ==
  \E i \in DOMAIN s : /\ s[i].outcome = "started"
                      /\ \A j \in DOMAIN s : s[j].n = s[i].n => s[j].outcome # "notSent"

(* Attempts are numbered one after the other, and decided once. *)
Numbered(s) ==
  /\ \A i \in DecidedAt(s) : s[i].n <= Cardinality(DecidedAt(s))
  /\ \A i, j \in DecidedAt(s) : s[i].n = s[j].n => i = j

LEMMA AppendStarted ==
  ASSUME NEW s \in Seq(Record), NEW x \in Record, x.outcome = "started"
  PROVE  /\ DecidedAt(Append(s, x)) = DecidedAt(s)
         /\ Evident(s) => Evident(Append(s, x))
         /\ Numbered(s) => Numbered(Append(s, x))
<1>1. DecidedAt(Append(s, x)) = DecidedAt(s)
  BY AppendFacts DEF DecidedAt, Outcomes
<1>2. Evident(s) => Evident(Append(s, x))
  <2> SUFFICES ASSUME Evident(s) PROVE Evident(Append(s, x))
    OBVIOUS
  <2>1. PICK i \in DOMAIN s : /\ s[i].outcome = "started"
                              /\ \A j \in DOMAIN s : s[j].n = s[i].n => s[j].outcome # "notSent"
    BY DEF Evident
  <2>2. i \in DOMAIN Append(s, x) /\ Append(s, x)[i] = s[i]  BY AppendFacts
  <2>3. \A j \in DOMAIN Append(s, x) :
          Append(s, x)[j].n = Append(s, x)[i].n => Append(s, x)[j].outcome # "notSent"
    BY <2>1, <2>2, AppendFacts
  <2>4. QED  BY <2>1, <2>2, <2>3 DEF Evident
<1>3. Numbered(s) => Numbered(Append(s, x))
  <2>1. \A i \in DecidedAt(s) : Append(s, x)[i] = s[i]  BY AppendFacts DEF DecidedAt
  <2>2. QED  BY <1>1, <2>1 DEF Numbered
<1>4. QED  BY <1>1, <1>2, <1>3

LEMMA AppendDecided ==
  ASSUME NEW s \in Seq(Record), NEW x \in Record, x.outcome \in Outcomes, Numbered(s),
         x.n = Cardinality(DecidedAt(s)) + 1
  PROVE  /\ Numbered(Append(s, x))
         /\ x.outcome # "notSent" => (Evident(s) => Evident(Append(s, x)))
<1> DEFINE t == Append(s, x)
           e == Len(s) + 1
           c == Cardinality(DecidedAt(s))
<1>0. c \in Nat /\ IsFiniteSet(DecidedAt(s))  BY DecidedIsFinite
<1>1. DecidedAt(t) = DecidedAt(s) \cup {e} /\ e \notin DecidedAt(s)
  BY AppendFacts DEF DecidedAt
<1>2. Cardinality(DecidedAt(t)) = c + 1  BY <1>0, <1>1, FS_AddElement
<1>3. t[e] = x /\ \A i \in DecidedAt(s) : t[i] = s[i] /\ s[i].n \in Nat
  <2>1. \A i \in DOMAIN s : s[i] \in Record  OBVIOUS
  <2>2. \A i \in DOMAIN s : s[i].n \in Nat  BY <2>1 DEF Record
  <2>3. t[e] = x /\ \A i \in DOMAIN s : t[i] = s[i]  BY AppendFacts
  <2>4. QED  BY <2>2, <2>3 DEF DecidedAt
<1>7. x.n = c + 1  OBVIOUS
<1> HIDE DEF t, e, c
<1>4. Numbered(t)
  <2>1. \A i \in DecidedAt(s) : s[i].n <= c  BY DEF Numbered, c
  <2>2. ASSUME NEW i \in DecidedAt(t) PROVE t[i].n <= Cardinality(DecidedAt(t))
    <3>1. CASE i = e  BY <1>0, <1>2, <1>3, <1>7, <3>1
    <3>2. CASE i \in DecidedAt(s)
      <4>1. t[i].n \in Nat /\ t[i].n <= c  BY <1>3, <2>1, <3>2
      <4>2. QED  BY <1>0, <1>2, <4>1
    <3>3. QED  BY <1>1, <3>1, <3>2
  <2>3. ASSUME NEW i \in DecidedAt(t), NEW j \in DecidedAt(t), t[i].n = t[j].n PROVE i = j
    <3>1. ASSUME NEW k \in DecidedAt(s) PROVE t[k].n # x.n
      <4>1. t[k].n \in Nat /\ t[k].n <= c  BY <1>3, <2>1
      <4>2. QED  BY <1>0, <1>7, <4>1
    <3>2. QED  BY <1>1, <1>3, <2>3, <3>1 DEF Numbered
  <2>4. QED  BY <2>2, <2>3 DEF Numbered
<1> USE DEF t
<1>5. ASSUME x.outcome # "notSent", Evident(s) PROVE Evident(t)
  <2>1. PICK i \in DOMAIN s : /\ s[i].outcome = "started"
                              /\ \A j \in DOMAIN s : s[j].n = s[i].n => s[j].outcome # "notSent"
    BY <1>5 DEF Evident
  <2>2. i \in DOMAIN t /\ t[i] = s[i]  BY AppendFacts
  <2>3. \A j \in DOMAIN t : t[j].n = t[i].n => t[j].outcome # "notSent"
    BY <1>5, <2>1, <2>2, AppendFacts
  <2>4. QED  BY <2>1, <2>2, <2>3 DEF Evident
<1>6. QED  BY <1>4, <1>5

(* A start whose number is still to be decided is evidence. *)
LEMMA StartedIsEvident ==
  ASSUME NEW s \in Seq(Record), Numbered(s), NEW i \in DOMAIN s, s[i].outcome = "started",
         s[i].n = Cardinality(DecidedAt(s)) + 1
  PROVE  Evident(s)
<1>1. Cardinality(DecidedAt(s)) \in Nat  BY DecidedIsFinite
<1>2. ASSUME NEW j \in DOMAIN s, s[j].n = s[i].n PROVE s[j].outcome # "notSent"
  <2>1. s[j].outcome = "notSent" => j \in DecidedAt(s)  BY DEF DecidedAt, Outcomes
  <2>2. j \in DecidedAt(s) => s[j].n <= Cardinality(DecidedAt(s))  BY DEF Numbered
  <2>3. QED  BY <1>1, <1>2, <2>1, <2>2
<1>3. QED  BY <1>2 DEF Evident

(* The worker starts an attempt only on a lineage without evidence. *)
LEMMA ResolvedIsNotEvident ==
  ASSUME NEW r \in Rounds, ~Unresolved(r), ~Saw(r, "sent")
  PROVE  ~Evident(Lineage(r)) /\ Dangling(r) = {}
<1> DEFINE s == log[r].lineage
<1>1. Dangling(r) = {} /\ ~Saw(r, "uncertain")  BY DEF Unresolved
<1>2. \A i \in DOMAIN s : s[i].outcome # "sent" /\ s[i].outcome # "uncertain"
  BY <1>1, SawReads DEF SawIn, Lineage
<1>3. SUFFICES ASSUME Evident(s) PROVE FALSE  BY <1>1 DEF Lineage
<1>4. PICK i \in DOMAIN s : /\ s[i].outcome = "started"
                            /\ \A j \in DOMAIN s : s[j].n = s[i].n => s[j].outcome # "notSent"
  BY <1>3 DEF Evident
<1>5. s[i] \in Records(r)  BY DEF Records
<1>6. \E y \in Records(r) : y.n = s[i].n /\ y.outcome \in Outcomes
  BY <1>1, <1>4, <1>5 DEF Dangling
<1>7. PICK j \in DOMAIN s : s[j].n = s[i].n /\ s[j].outcome \in Outcomes
  BY <1>6 DEF Records
<1>8. QED  BY <1>2, <1>4, <1>7 DEF Outcomes

(* The scheduler re-arms a claim only when no lineage has evidence. *)
LEMMA RearmedIsNotEvident ==
  ASSUME NEW r \in Rounds, Lineage(r) \in Seq(Record), Numbered(Lineage(r)), ~Accepted, ~Uncertain
  PROVE  ~Evident(Lineage(r))
<1> DEFINE s == log[r].lineage
<1>1. Dangling(r) = {} /\ ~Decided(r, "sent") /\ ~Decided(r, "uncertain")
  BY DEF Accepted, Uncertain
<1>2. ASSUME NEW i \in DOMAIN s, s[i].outcome \in {"sent", "uncertain"} PROVE FALSE
  <2>1. i \in DecidedAt(s)  BY <1>2 DEF DecidedAt, Outcomes
  <2>2. \A j \in DOMAIN s : j > i /\ s[j].n = s[i].n => s[j].outcome \notin Outcomes
    BY <2>1 DEF Numbered, DecidedAt, Lineage
  <2>3. QED  BY <1>1, <1>2, <2>2 DEF Decided
<1>3. SUFFICES ASSUME Evident(s) PROVE FALSE  BY DEF Lineage
<1>4. PICK i \in DOMAIN s : /\ s[i].outcome = "started"
                            /\ \A j \in DOMAIN s : s[j].n = s[i].n => s[j].outcome # "notSent"
  BY <1>3 DEF Evident
<1>5. s[i] \in Records(r)  BY DEF Records
<1>6. \E y \in Records(r) : y.n = s[i].n /\ y.outcome \in Outcomes
  BY <1>1, <1>4, <1>5 DEF Dangling
<1>7. PICK j \in DOMAIN s : s[j].n = s[i].n /\ s[j].outcome \in Outcomes
  BY <1>6 DEF Records
<1>8. QED  BY <1>2, <1>4, <1>7 DEF Outcomes

(* A round whose letter can no longer be sent: its job ended, never came    *)
(* and never will, or has had its last rejection.                           *)
Finished(r) ==
  \/ job[r].state \in {"done", "failed"}
  \/ job[r].state = "none" /\ outbox[r].status \in {"none", "terminal", "succeeded"}
  \/ \E p \in Processors : processor[p].round = r /\ Rejected(p)

AllHold == \A p \in Processors : Busy(p) => processor[p].holds

Unopened == claim.status = "none" => claim.round = 0

Ahead ==
  \A r \in Rounds : r > claim.round =>
    job[r].state = "none" /\ outbox[r].status = "none" /\ Lineage(r) = << >>

Behind == \A r \in Rounds : r < claim.round => Finished(r) /\ ~Evident(Lineage(r))

Ended ==
  claim.status \in {"failed", "suppressed"} \/ claim.old => \A r \in Rounds : Finished(r)

SentOnce == accepted = 0 \/ (accepted = 1 /\ \E r \in Rounds : Evident(Lineage(r)))

(* A processor that may still send, or record that it did not *)
MaySend(p) ==
  processor[p].pc \in {"send", "transmit"} \/ (At(p, "append") /\ processor[p].outcome = "notSent")

Sending ==
  \A p \in Processors :
    LET s == Lineage(processor[p].round) IN
    /\ processor[p].pc \in {"send", "transmit", "append"} =>
         processor[p].n = Cardinality(DecidedAt(s)) + 1
    /\ At(p, "transmit") =>
         \E i \in DOMAIN s : s[i].n = processor[p].n /\ s[i].outcome = "started"
    /\ MaySend(p) => accepted = 0

LineagesNumbered == \A r \in Rounds : Numbered(Lineage(r))

Calm == AllHold /\ Unopened /\ Ahead /\ Behind /\ Ended /\ SentOnce /\ Sending /\ LineagesNumbered

LEMMA LetterFacts ==
  ASSUME LetterTypes
  PROVE  /\ claim.round \in Nat /\ claim \in ClaimRow /\ accepted \in Nat /\ mishaps \in Nat
         /\ \A r \in Rounds : r \in Nat /\ Lineage(r) \in Seq(Record)
         /\ \A p \in Processors : processor[p].round \in Rounds
<1> USE LettersAssumption DEF LetterTypes, LettersTypeOK
<1>1. claim.round \in Nat /\ claim \in ClaimRow /\ accepted \in Nat /\ mishaps \in Nat
  BY DEF ClaimRow
<1>2. \A r \in Rounds : r \in Nat  BY DEF Rounds
<1>3. ASSUME NEW r \in Rounds PROVE Lineage(r) \in Seq(Record)
  <2>1. log[r] \in Log  OBVIOUS
  <2>2. QED  BY <2>1 DEF Log, Lineage
<1>4. ASSUME NEW p \in Processors PROVE processor[p].round \in Rounds
  <2>1. processor[p] \in Processor  OBVIOUS
  <2>2. QED  BY <2>1 DEF Processor
<1>5. QED  BY <1>1, <1>2, <1>3, <1>4

(* Only the round of the claim moves, and one processor at a time moves it. *)
LEMMA OnlyMover ==
  ASSUME LetterTypes, Calm, NEW p \in Processors, Busy(p), ~Rejected(p)
  PROVE  /\ processor[p].round = claim.round /\ job[claim.round].state = "active"
         /\ claim.status \notin {"failed", "suppressed"} /\ ~claim.old
         /\ \A q \in Processors : q # p /\ Busy(q) => Rejected(q)
<1> DEFINE r == processor[p].round
<1>0. r \in Rounds /\ r \in Nat /\ claim.round \in Nat /\ \A o \in Rounds : o \in Nat
  BY LetterFacts
<1>1. processor[p].holds /\ job[r].state = "active"
  BY DEF Calm, AllHold, LetterTypes, HoldersActive
<1>2. ASSUME NEW q \in Processors, q # p, Busy(q) PROVE processor[q].round # r
  BY <1>1, <1>2 DEF Calm, AllHold, LetterTypes, OneHolder
<1>3. ~Finished(r)
  <2>1. ASSUME NEW q \in Processors, processor[q].round = r, Rejected(q) PROVE FALSE
    <3>1. Busy(q)  BY <2>1 DEF Rejected, Busy, At
    <3>2. QED  BY <1>2, <2>1, <3>1
  <2>2. QED  BY <1>1, <2>1 DEF Finished
<1>4. r = claim.round
  <2>1. ~(r < claim.round)  BY <1>0, <1>3 DEF Calm, Behind
  <2>2. ~(r > claim.round)  BY <1>0, <1>1 DEF Calm, Ahead
  <2>3. QED  BY <1>0, <2>1, <2>2
<1>5. claim.status \notin {"failed", "suppressed"} /\ ~claim.old
  BY <1>0, <1>3 DEF Calm, Ended
<1>6. ASSUME NEW q \in Processors, q # p, Busy(q) PROVE Rejected(q)
  <2> DEFINE o == processor[q].round
  <2>1. o \in Rounds /\ o # r  BY <1>2, <1>6, LetterFacts
  <2>2. processor[q].holds /\ job[o].state = "active"
    BY <1>6 DEF Calm, AllHold, LetterTypes, HoldersActive
  <2>3. ~(o > claim.round)  BY <2>1, <2>2 DEF Calm, Ahead
  <2>4. o < claim.round  BY <1>0, <1>4, <2>1, <2>3
  <2>5. Finished(o)  BY <2>1, <2>4 DEF Calm, Behind
  <2>6. PICK z \in Processors : processor[z].round = o /\ Rejected(z)  BY <2>2, <2>5 DEF Finished
  <2>7. Busy(z)  BY <2>6 DEF Rejected, Busy, At
  <2>8. z = q  BY <1>6, <2>6, <2>7 DEF Calm, AllHold, LetterTypes, OneHolder
  <2>9. QED  BY <2>6, <2>8
<1>7. QED  BY <1>1, <1>4, <1>5, <1>6

(* The job of the claim's round waits: nobody can have sent, and nothing    *)
(* is ended.                                                                *)
LEMMA OnlyWaiting ==
  ASSUME LetterTypes, Calm, NEW r \in Rounds, job[r].state = "waiting"
  PROVE  /\ r = claim.round /\ claim.status \notin {"failed", "suppressed"} /\ ~claim.old
         /\ \A q \in Processors : Busy(q) => Rejected(q) /\ processor[q].round # r
<1>0. r \in Nat /\ claim.round \in Nat  BY LetterFacts
<1>1. ASSUME NEW q \in Processors, Busy(q) PROVE processor[q].round # r
  BY <1>1 DEF Calm, AllHold, LetterTypes, HoldersActive
<1>2. ~Finished(r)
  <2>1. ASSUME NEW q \in Processors, processor[q].round = r, Rejected(q) PROVE FALSE
    <3>1. Busy(q)  BY <2>1 DEF Rejected, Busy, At
    <3>2. QED  BY <1>1, <2>1, <3>1
  <2>2. QED  BY <2>1 DEF Finished
<1>3. r = claim.round
  <2>1. ~(r < claim.round)  BY <1>2 DEF Calm, Behind
  <2>2. ~(r > claim.round)  BY DEF Calm, Ahead
  <2>3. QED  BY <1>0, <2>1, <2>2
<1>4. claim.status \notin {"failed", "suppressed"} /\ ~claim.old  BY <1>2 DEF Calm, Ended
<1>5. ASSUME NEW q \in Processors, Busy(q) PROVE Rejected(q)
  BY <1>1, <1>3, <1>5, OnlyMover
<1>6. QED  BY <1>1, <1>3, <1>4, <1>5

(* Steps of the scheduler, the drain and time.  Defer opens the next round  *)
(* only when every earlier one is finished and without evidence.            *)
LEMMA DeferKeepsCalm ==
  ASSUME LetterTypes, Calm, NEW input \in Inputs, OpenClaim(input) \/ ReArm(input)
  PROVE  Calm'
<1>0. /\ Defer(input) /\ UNCHANGED <<job, log, processor, accepted, mishaps>>
      /\ claim.round \in Nat /\ \A r \in Rounds : r \in Nat /\ Lineage(r) \in Seq(Record)
      /\ outbox \in [Rounds -> OutboxRow] /\ claim \in ClaimRow
  BY LetterFacts DEF OpenClaim, ReArm, LetterTypes, LettersTypeOK
<1>1. \A r \in Rounds : Finished(r) /\ ~Evident(Lineage(r))
  <2>1. CASE OpenClaim(input)
    <3>1. claim.round = 0  BY <2>1 DEF OpenClaim, Calm, Unopened
    <3>2. \A r \in Rounds : r > claim.round  BY <3>1 DEF Rounds
    <3>3. ~Evident(<< >>)  BY DEF Evident
    <3>4. QED  BY <3>2, <3>3 DEF Calm, Ahead, Finished
  <2>2. CASE ReArm(input)
    <3>1. claim.status \in {"failed", "suppressed"} \/ claim.old  BY <2>2 DEF ReArm
    <3>2. \A r \in Rounds : Finished(r)  BY <3>1 DEF Calm, Ended
    <3>3. \A r \in Rounds : ~Evident(Lineage(r))
      BY <1>0, <2>2, RearmedIsNotEvident DEF ReArm, Calm, LineagesNumbered
    <3>4. QED  BY <3>2, <3>3
  <2>3. QED  BY <2>1, <2>2
<1>2. AllHold' /\ SentOnce' /\ Sending' /\ LineagesNumbered'
  BY <1>0 DEF Calm, AllHold, SentOnce, Sending, MaySend, LineagesNumbered, Lineage, Busy, At
<1>3. ASSUME NEW r \in Rounds, outbox'[r] = outbox[r]
      PROVE  Finished(r)' /\ ~Evident(Lineage(r))'
  BY <1>0, <1>1, <1>3 DEF Finished, Rejected, Exhausted, At, Lineage
<1>4. CASE /\ claim.round + 1 \in Rounds
           /\ claim' = [status |-> "staged", round |-> claim.round + 1, old |-> FALSE]
           /\ outbox' = [outbox EXCEPT ![claim.round + 1].status = "pending"]
  <2>1. claim'.status = "staged" /\ claim'.round = claim.round + 1 /\ ~claim'.old
        /\ \A r \in Rounds \ {claim.round + 1} : outbox'[r] = outbox[r]
    BY <1>0, <1>4
  <2>2. Unopened' /\ Ended'  BY <2>1 DEF Unopened, Ended
  <2>3. Ahead'
    <3> SUFFICES ASSUME NEW r \in Rounds, r > claim.round + 1
                 PROVE  job'[r].state = "none" /\ outbox'[r].status = "none" /\ Lineage(r)' = << >>
      BY <2>1 DEF Ahead
    <3>1. r > claim.round /\ outbox'[r] = outbox[r]  BY <1>0, <2>1
    <3>2. QED  BY <1>0, <3>1 DEF Calm, Ahead, Lineage
  <2>4. Behind'
    <3> SUFFICES ASSUME NEW r \in Rounds, r < claim.round + 1 PROVE Finished(r)' /\ ~Evident(Lineage(r))'
      BY <2>1 DEF Behind
    <3>1. outbox'[r] = outbox[r]  BY <1>0, <2>1
    <3>2. QED  BY <1>3, <3>1
  <2>5. QED  BY <1>2, <2>2, <2>3, <2>4 DEF Calm
<1>5. CASE /\ claim'.status \in {"failed", "suppressed"}
           /\ claim'.round = claim.round /\ claim'.old = FALSE /\ outbox' = outbox
  <2>1. Unopened' /\ Ended' /\ Behind'  BY <1>3, <1>5 DEF Unopened, Ended, Behind
  <2>2. Ahead'  BY <1>0, <1>5 DEF Calm, Ahead, Lineage
  <2>3. QED  BY <1>2, <2>1, <2>2 DEF Calm
<1>6. QED  BY <1>0, <1>4, <1>5, DeferReads

LEMMA ClaimStepKeepsCalm ==
  ASSUME LetterTypes, Calm, ClaimStep, mishaps' = mishaps
  PROVE  Calm'
<1>0. /\ UNCHANGED <<job, log, processor, accepted>> /\ mishaps \in Nat
      /\ outbox \in [Rounds -> OutboxRow] /\ claim \in ClaimRow /\ job \in [Rounds -> Job]
  BY ClaimStepReads, LetterFacts DEF LetterTypes, LettersTypeOK
<1>1. CASE \E input \in Inputs : OpenClaim(input) \/ ReArm(input)  BY <1>1, DeferKeepsCalm
<1>2. AllHold' /\ SentOnce' /\ Sending' /\ LineagesNumbered'
  BY <1>0 DEF Calm, AllHold, SentOnce, Sending, MaySend, LineagesNumbered, Lineage, Busy, At
<1>3. ASSUME UNCHANGED outbox, claim'.round = claim.round
      PROVE  /\ \A r \in Rounds : Finished(r)' <=> Finished(r)
             /\ Ahead' /\ Behind'
  <2>1. \A r \in Rounds : Finished(r)' <=> Finished(r)
    BY <1>0, <1>3 DEF Finished, Rejected, Exhausted, At
  <2>2. QED  BY <1>0, <1>3, <2>1 DEF Calm, Ahead, Behind, Lineage
<1>4. CASE Reconcile
  <2>1. UNCHANGED outbox /\ claim'.round = claim.round /\ claim'.status \in {"sent", "staged"} /\ ~claim'.old
    BY <1>0, <1>4 DEF Reconcile, ClaimRow
  <2>2. Unopened' /\ Ended'  BY <2>1 DEF Unopened, Ended
  <2>3. QED  BY <1>2, <1>3, <2>1, <2>2 DEF Calm
<1>5. CASE PassHorizon
  <2>1. /\ UNCHANGED outbox /\ claim'.round = claim.round /\ claim'.status = claim.status
        /\ claim.status = "staged"
    BY <1>0, <1>5 DEF PassHorizon, ClaimRow
  <2>2. ~\E r \in Rounds : Live(r)
    <3>1. mishaps' # mishaps + 1  BY <1>0
    <3>2. QED  BY <1>5, <3>1, Zenon DEF PassHorizon, Mishap
  <2>3. ASSUME NEW r \in Rounds PROVE Finished(r)
    <3>1. outbox[r] \in OutboxRow /\ job[r] \in Job /\ ~Live(r)  BY <1>0, <2>2
    <3>2. /\ outbox[r].status \in {"none", "terminal", "succeeded"}
          /\ job[r].state \in {"none", "done", "failed"}
      BY <3>1 DEF Live, OutboxRow, Job
    <3>3. QED  BY <3>2 DEF Finished
  <2>4. Unopened'  BY <2>1 DEF Unopened
  <2>5. Ended'  BY <1>3, <2>1, <2>3 DEF Ended
  <2>6. QED  BY <1>2, <1>3, <2>1, <2>4, <2>5 DEF Calm
<1>6. ASSUME NEW o \in Rounds, DrainClaim(o) \/ MarkSucceeded(o) \/ DrainFails(o) \/ Replay(o) PROVE Calm'
  <2>1. mishaps' # mishaps + 1  BY <1>0
  <2>2. ~Replay(o)  BY <2>1 DEF Replay, Mishap
  <2>3. /\ outbox[o].status \in {"pending", "running", "queued"} /\ UNCHANGED claim
        /\ \A r \in Rounds \ {o} : outbox'[r] = outbox[r]
    BY <1>0, <1>6, <2>2 DEF DrainClaim, MarkSucceeded, DrainFails
  <2>4. \A r \in Rounds : Finished(r) => Finished(r)'
    BY <1>0, <2>3 DEF Finished, Rejected, Exhausted, At
  <2>5. Unopened' /\ Ended'  BY <2>3, <2>4 DEF Calm, Unopened, Ended
  <2>6. Ahead' /\ Behind'  BY <1>0, <2>3, <2>4 DEF Calm, Ahead, Behind, Lineage
  <2>7. QED  BY <1>2, <2>5, <2>6 DEF Calm
<1>7. QED  BY <1>1, <1>4, <1>5, <1>6 DEF ClaimStep, RunDunning

LEMMA EnqueueKeepsCalm ==
  ASSUME LetterTypes, Calm, NEW o \in Rounds, Enqueue(o)
  PROVE  Calm'
<1>0. /\ outbox[o].status = "running"
      /\ job'[o].state = IF job[o].state = "none" THEN "waiting" ELSE job[o].state
      /\ job'[o].made = job[o].made
      /\ \A r \in Rounds \ {o} : job'[r] = job[r] /\ outbox'[r] = outbox[r]
      /\ UNCHANGED <<claim, log, processor, accepted, mishaps>>
      /\ \A p \in Processors : processor[p].round \in Rounds
  BY EnqueueReads, LetterFacts
<1>1. \A r \in Rounds : job'[r].made = job[r].made  BY <1>0
<1>2. \A p \in Processors : Rejected(p) => Rejected(p)'  BY <1>0, <1>1 DEF Rejected, Exhausted, At
<1>3. \A r \in Rounds : Finished(r) => Finished(r)'  BY <1>0, <1>2 DEF Finished
<1>4. AllHold' /\ SentOnce' /\ Sending' /\ LineagesNumbered'
  BY <1>0 DEF Calm, AllHold, SentOnce, Sending, MaySend, LineagesNumbered, Lineage, Busy, At
<1>5. Unopened' /\ Ended'  BY <1>0, <1>3 DEF Calm, Unopened, Ended
<1>6. Ahead' /\ Behind'  BY <1>0, <1>3 DEF Calm, Ahead, Behind, Lineage
<1>7. QED  BY <1>4, <1>5, <1>6 DEF Calm

(* A worker takes the job: it sends only on a claim nobody ever sent for. *)
LEMMA TakeKeepsCalm ==
  ASSUME LetterTypes, Calm, NEW p \in Processors, NEW r \in Rounds, NEW transport \in Transports,
         Take(p, r, transport)
  PROVE  Calm'
<1>0. /\ claim.round \in Nat /\ accepted \in Nat /\ \A o \in Rounds : o \in Nat /\ Lineage(o) \in Seq(Record)
      /\ r = claim.round /\ claim.status \notin {"failed", "suppressed"} /\ ~claim.old
      /\ \A q \in Processors : Busy(q) => Rejected(q) /\ processor[q].round # r
      /\ \A q \in Processors : processor[q].round \in Rounds
  BY TakeReads, OnlyWaiting, LetterFacts
<1>1. /\ At(p, "idle") /\ \A q \in Processors \ {p} : processor'[q] = processor[q]
      /\ processor'[p].round = r /\ processor'[p].holds /\ processor'[p].n = NormalizedAttempts(r) + 1
      /\ job'[r].state = "active" /\ job'[r].made = job[r].made /\ \A o \in Rounds \ {r} : job'[o] = job[o]
      /\ \A o \in Rounds : Lineage(o)' = Lineage(o)
      /\ UNCHANGED <<claim, outbox, accepted, mishaps>>
  BY TakeReads DEF Others, Lineage
<1>2. \/ processor'[p].pc \in {"mark", "throw", "ack"}
      \/ /\ ~Unresolved(r) /\ ~Saw(r, "sent")
         /\ \/ processor'[p].pc = "append" /\ processor'[p].outcome = "notSent"
            \/ processor'[p].pc = "send" /\ processor'[p].outcome = "none"
  BY TakeReads
<1>3. ASSUME ~Unresolved(r), ~Saw(r, "sent")
      PROVE  accepted = 0 /\ processor'[p].n = Cardinality(DecidedAt(Lineage(r))) + 1
  <2>1. ~Evident(Lineage(r)) /\ Dangling(r) = {}  BY <1>3, ResolvedIsNotEvident
  <2>2. ASSUME NEW o \in Rounds PROVE ~Evident(Lineage(o))
    <3>1. CASE o = r  BY <2>1, <3>1
    <3>2. CASE o < claim.round  BY <3>2 DEF Calm, Behind
    <3>3. CASE o > claim.round
      <4>1. Lineage(o) = << >>  BY <3>3 DEF Calm, Ahead
      <4>2. QED  BY <4>1 DEF Evident
    <3>4. QED  BY <1>0, <3>1, <3>2, <3>3
  <2>3. accepted = 0  BY <2>2 DEF Calm, SentOnce
  <2>4. NormalizedAttempts(r) = Cardinality(DecidedAt(Lineage(r)))
    BY <1>0, <2>1, AttemptsType DEF Lineage
  <2>5. QED  BY <1>1, <2>3, <2>4
<1>4. \A q \in Processors : Rejected(q) => q # p /\ processor[q].round # r /\ Rejected(q)'
  <2> SUFFICES ASSUME NEW q \in Processors, Rejected(q) PROVE q # p /\ processor[q].round # r /\ Rejected(q)'
    OBVIOUS
  <2>1. q # p /\ Busy(q)  BY <1>1 DEF Rejected, Busy, At
  <2>2. processor[q].round # r /\ processor'[q] = processor[q]  BY <1>0, <1>1, <2>1
  <2>3. job'[processor[q].round] = job[processor[q].round]  BY <1>0, <1>1, <2>2
  <2>4. QED  BY <2>1, <2>2, <2>3 DEF Rejected, Exhausted, At
<1>5. ASSUME NEW o \in Rounds, o # r, Finished(o) PROVE Finished(o)'
  <2>1. job'[o] = job[o] /\ outbox'[o] = outbox[o]  BY <1>1, <1>5
  <2>2. ASSUME NEW q \in Processors, processor[q].round = o, Rejected(q) PROVE Finished(o)'
    <3>1. Rejected(q)' /\ processor'[q] = processor[q]  BY <1>1, <1>4, <2>2
    <3>2. QED  BY <2>2, <3>1 DEF Finished
  <2>3. QED  BY <1>5, <2>1, <2>2 DEF Finished
<1>6. AllHold'  BY <1>1 DEF Calm, AllHold, Busy, At
<1>7. Unopened' /\ Ended'  BY <1>0, <1>1 DEF Calm, Unopened, Ended
<1>8. Ahead'  BY <1>0, <1>1 DEF Calm, Ahead
<1>9. Behind'  BY <1>0, <1>1, <1>5 DEF Calm, Behind
<1>10. SentOnce' /\ LineagesNumbered'  BY <1>1 DEF Calm, SentOnce, LineagesNumbered
<1>11. Sending'
  <2>1. ASSUME NEW q \in Processors, q # p PROVE processor'[q].pc \in {"idle", "throw"}
    BY <1>0, <1>1, <2>1 DEF Busy, Rejected, At
  <2>2. CASE processor'[p].pc \in {"mark", "throw", "ack"}
    BY <2>1, <2>2 DEF Sending, MaySend, At
  <2>3. CASE /\ ~Unresolved(r) /\ ~Saw(r, "sent")
             /\ processor'[p].pc \in {"append", "send"}
    <3>1. accepted' = 0 /\ processor'[p].n = Cardinality(DecidedAt(Lineage(r)')) + 1  BY <1>1, <1>3, <2>3
    <3>2. Lineage(processor[p].round)' = Lineage(r)'  BY <1>1 DEF Lineage
    <3>3. QED  BY <2>1, <2>3, <3>1, <3>2 DEF Sending, MaySend, At
  <2>4. QED  BY <1>2, <2>2, <2>3
<1>12. QED  BY <1>6, <1>7, <1>8, <1>9, <1>10, <1>11 DEF Calm

(* A step of the one processor that moves: the other rounds keep their      *)
(* state.                                                                   *)
LEMMA SendFrame ==
  ASSUME LetterTypes, Calm, NEW p \in Processors, ~Rejected(p), SameJob(p), Others(p),
         UNCHANGED <<outbox, job>>, claim'.round = claim.round,
         \A o \in Rounds \ {processor[p].round} : Lineage(o)' = Lineage(o)
  PROVE  /\ AllHold' /\ Ahead' /\ Behind'
         /\ \A o \in Rounds : o # claim.round /\ Finished(o) => Finished(o)'
         /\ \A q \in Processors \ {p} : processor'[q].pc \in {"idle", "throw"}
         /\ processor[p].round = claim.round /\ processor'[p].round = claim.round
         /\ processor'[p].n = processor[p].n
         /\ claim.status \notin {"failed", "suppressed"} /\ ~claim.old
<1>0. /\ Busy(p) /\ processor'[p].round = processor[p].round /\ processor'[p].n = processor[p].n
      /\ processor'[p].holds = processor[p].holds
      /\ \A q \in Processors \ {p} : processor'[q] = processor[q]
  BY DEF SameJob, Others
<1>1. /\ processor[p].round = claim.round
      /\ claim.status \notin {"failed", "suppressed"} /\ ~claim.old
      /\ \A q \in Processors : q # p /\ Busy(q) => Rejected(q)
  BY <1>0, OnlyMover
<1>2. claim.round \in Nat /\ \A o \in Rounds : o \in Nat  BY LetterFacts
<1>3. AllHold'  BY <1>0 DEF Calm, AllHold, Busy, At
<1>4. \A q \in Processors \ {p} : processor'[q].pc \in {"idle", "throw"}
  BY <1>0, <1>1 DEF Rejected, Busy, At
<1>5. ASSUME NEW o \in Rounds, o # claim.round, Finished(o) PROVE Finished(o)'
  <2>1. ASSUME NEW q \in Processors, processor[q].round = o, Rejected(q) PROVE Finished(o)'
    <3>1. processor'[q] = processor[q]  BY <1>0, <1>1, <1>5, <2>1
    <3>2. Rejected(q)'  BY <2>1, <3>1 DEF Rejected, Exhausted, At
    <3>3. QED  BY <2>1, <3>1, <3>2 DEF Finished
  <2>2. QED  BY <1>5, <2>1 DEF Finished
<1>6. Ahead'  BY <1>1, <1>2 DEF Calm, Ahead
<1>7. Behind'  BY <1>1, <1>2, <1>5 DEF Calm, Behind
<1>8. QED  BY <1>0, <1>1, <1>3, <1>4, <1>5, <1>6, <1>7

(* What an appended record does to the evidence of every round *)
LEMMA AppendKeepsEvidence ==
  ASSUME LetterTypes, Calm, NEW p \in Processors, NEW outcome \in Outcomes \cup {"started"},
         Append1(p, outcome),
         outcome # "started" => processor[p].n = Cardinality(DecidedAt(Lineage(processor[p].round))) + 1
  PROVE  /\ LineagesNumbered'
         /\ outcome # "notSent" => \A o \in Rounds : Evident(Lineage(o)) => Evident(Lineage(o)')
         /\ \A o \in Rounds \ {processor[p].round} : Lineage(o)' = Lineage(o)
<1>0. PICK r \in Rounds : r = processor[p].round  BY LetterFacts
<1> DEFINE x == [n |-> processor[p].n, outcome |-> outcome]
<1>1. /\ x \in Record /\ Lineage(r) \in Seq(Record)
      /\ Lineage(r)' = Append(Lineage(r), x)
      /\ \A o \in Rounds \ {r} : Lineage(o)' = Lineage(o)
  BY <1>0, Appended DEF Lineage
<1>2. x.n = processor[p].n /\ x.outcome = outcome /\ Numbered(Lineage(r))
  BY <1>1 DEF Calm, LineagesNumbered
<1> HIDE DEF x
<1>3. CASE outcome = "started"
  <2>1. /\ Evident(Lineage(r)) => Evident(Append(Lineage(r), x))
        /\ Numbered(Append(Lineage(r), x))
    BY <1>1, <1>2, <1>3, AppendStarted
  <2>2. QED  BY <1>0, <1>1, <1>3, <2>1 DEF Calm, LineagesNumbered
<1>4. CASE outcome \in Outcomes
  <2>1. /\ outcome # "notSent" => (Evident(Lineage(r)) => Evident(Append(Lineage(r), x)))
        /\ Numbered(Append(Lineage(r), x))
    BY <1>0, <1>1, <1>2, <1>4, AppendDecided DEF Outcomes
  <2>2. QED  BY <1>0, <1>1, <1>4, <2>1 DEF Calm, LineagesNumbered
<1>5. QED  BY <1>3, <1>4

LEMMA StartKeepsCalm ==
  ASSUME LetterTypes, Calm, NEW p \in Processors, Start(p)
  PROVE  Calm'
<1>0. PICK r \in Rounds : r = processor[p].round  BY LetterFacts
<1> DEFINE x == [n |-> processor[p].n, outcome |-> "started"]
<1>1. /\ SameJob(p) /\ Others(p) /\ At(p, "send") /\ processor'[p].pc = "transmit" /\ Append1(p, "started")
      /\ UNCHANGED <<claim, outbox, job, accepted, mishaps>>
  BY StartReads
<1>2. ~Rejected(p)  BY <1>1 DEF Rejected, At
<1>3. /\ LineagesNumbered' /\ \A o \in Rounds : Evident(Lineage(o)) => Evident(Lineage(o)')
      /\ \A o \in Rounds \ {r} : Lineage(o)' = Lineage(o)
  BY <1>0, <1>1, AppendKeepsEvidence DEF Outcomes
<1>4. /\ AllHold' /\ Ahead' /\ Behind'
      /\ \A q \in Processors \ {p} : processor'[q].pc \in {"idle", "throw"}
      /\ processor'[p].round = r /\ processor'[p].n = processor[p].n
      /\ claim.status \notin {"failed", "suppressed"} /\ ~claim.old
  BY <1>0, <1>1, <1>2, <1>3, SendFrame
<1>5. Unopened' /\ Ended'  BY <1>1, <1>4 DEF Calm, Unopened, Ended
<1>6. SentOnce'  BY <1>1, <1>3 DEF Calm, SentOnce
<1>7. Sending'
  <2>1. /\ r \in Rounds /\ x \in Record /\ Lineage(r) \in Seq(Record)
        /\ Lineage(r)' = Append(Lineage(r), x)
    BY <1>0, <1>1, Appended DEF Lineage
  <2>2. DecidedAt(Append(Lineage(r), x)) = DecidedAt(Lineage(r))  BY <2>1, AppendStarted
  <2>3. accepted = 0 /\ processor[p].n = Cardinality(DecidedAt(Lineage(r))) + 1
    BY <1>0, <1>1 DEF Calm, Sending, MaySend, At
  <2>4. \E i \in DOMAIN Append(Lineage(r), x) :
          Append(Lineage(r), x)[i].n = processor[p].n /\ Append(Lineage(r), x)[i].outcome = "started"
    <3>1. /\ Len(Lineage(r)) + 1 \in DOMAIN Append(Lineage(r), x)
          /\ Append(Lineage(r), x)[Len(Lineage(r)) + 1] = x
      BY <2>1, AppendFacts
    <3>2. QED  BY <3>1
  <2>5. Lineage(processor[p].round)' = Append(Lineage(r), x)  BY <1>4, <2>1 DEF Lineage
  <2>6. QED  BY <1>1, <1>4, <2>2, <2>3, <2>4, <2>5 DEF Sending, MaySend, At
<1>8. QED  BY <1>3, <1>4, <1>5, <1>6, <1>7 DEF Calm

(* The provider can accept only the first letter. *)
LEMMA TransmitKeepsCalm ==
  ASSUME LetterTypes, Calm, NEW p \in Processors, Transmit(p)
  PROVE  Calm'
<1>0. PICK r \in Rounds : r = processor[p].round  BY LetterFacts
<1>1. /\ SameJob(p) /\ Others(p) /\ At(p, "transmit") /\ processor'[p].pc = "append"
      /\ accepted' \in {accepted, accepted + 1}
      /\ processor'[p].outcome = "notSent" => accepted' = accepted
      /\ UNCHANGED <<claim, outbox, job, log, mishaps>>
  BY TransmitReads
<1>2. ~Rejected(p)  BY <1>1 DEF Rejected, At
<1>3. \A o \in Rounds : Lineage(o)' = Lineage(o)  BY <1>1 DEF Lineage
<1>4. /\ AllHold' /\ Ahead' /\ Behind'
      /\ \A q \in Processors \ {p} : processor'[q].pc \in {"idle", "throw"}
      /\ processor'[p].round = r /\ processor'[p].n = processor[p].n
      /\ claim.status \notin {"failed", "suppressed"} /\ ~claim.old
  BY <1>0, <1>1, <1>2, <1>3, SendFrame
<1>5. Unopened' /\ Ended' /\ LineagesNumbered'
  BY <1>1, <1>3, <1>4 DEF Calm, Unopened, Ended, LineagesNumbered
<1>6. /\ accepted = 0 /\ processor[p].n = Cardinality(DecidedAt(Lineage(r))) + 1
      /\ \E i \in DOMAIN Lineage(r) : Lineage(r)[i].n = processor[p].n /\ Lineage(r)[i].outcome = "started"
  BY <1>0, <1>1 DEF Calm, Sending, MaySend, At
<1>7. SentOnce'
  <2>1. r \in Rounds /\ Lineage(r) \in Seq(Record) /\ Numbered(Lineage(r))
    BY LetterFacts DEF Calm, LineagesNumbered
  <2>2. Evident(Lineage(r))  BY <1>6, <2>1, StartedIsEvident
  <2>3. Evident(Lineage(r)')  BY <1>3, <2>1, <2>2
  <2>4. QED  BY <1>1, <1>6, <2>1, <2>3 DEF SentOnce
<1>8. Sending'
  <2>1. Lineage(processor[p].round)' = Lineage(r)  BY <1>1, <1>4 DEF Lineage
  <2>2. QED  BY <1>1, <1>4, <1>6, <2>1 DEF Sending, MaySend, At
<1>9. QED  BY <1>4, <1>5, <1>7, <1>8 DEF Calm

LEMMA RecordKeepsCalm ==
  ASSUME LetterTypes, Calm, NEW p \in Processors, RecordOutcome(p)
  PROVE  Calm'
<1> DEFINE r == processor[p].round
<1>1. /\ SameJob(p) /\ Others(p) /\ At(p, "append") /\ processor[p].outcome \in Outcomes
      /\ processor'[p].pc = "mark" /\ Append1(p, processor[p].outcome)
      /\ UNCHANGED <<claim, outbox, job, accepted, mishaps>>
  BY RecordReads
<1>2. ~Rejected(p)  BY <1>1 DEF Rejected, At
<1>3. processor[p].n = Cardinality(DecidedAt(Lineage(r))) + 1
  BY <1>1 DEF Calm, Sending, At
<1>4. /\ LineagesNumbered'
      /\ processor[p].outcome # "notSent" => \A o \in Rounds : Evident(Lineage(o)) => Evident(Lineage(o)')
      /\ \A o \in Rounds \ {r} : Lineage(o)' = Lineage(o)
  BY <1>1, <1>3, AppendKeepsEvidence
<1>5. /\ AllHold' /\ Ahead' /\ Behind'
      /\ \A q \in Processors \ {p} : processor'[q].pc \in {"idle", "throw"}
      /\ claim.status \notin {"failed", "suppressed"} /\ ~claim.old
  BY <1>1, <1>2, <1>4, SendFrame
<1>6. Unopened' /\ Ended'  BY <1>1, <1>5 DEF Calm, Unopened, Ended
<1>7. SentOnce'
  <2>1. CASE processor[p].outcome = "notSent"
    <3>1. accepted = 0  BY <1>1, <2>1 DEF Calm, Sending, MaySend
    <3>2. QED  BY <1>1, <3>1 DEF SentOnce
  <2>2. CASE processor[p].outcome # "notSent"
    BY <1>1, <1>4, <2>2 DEF Calm, SentOnce
  <2>3. QED  BY <2>1, <2>2
<1>8. Sending'  BY <1>1, <1>5 DEF Sending, MaySend, At
<1>9. QED  BY <1>4, <1>5, <1>6, <1>7, <1>8 DEF Calm

(* The last rejection settles the claim: its round is finished with it. *)
LEMMA SettleKeepsCalm ==
  ASSUME LetterTypes, Calm, NEW p \in Processors, SettleClaim(p)
  PROVE  Calm'
<1> DEFINE r == processor[p].round
<1>1. /\ SameJob(p) /\ Others(p) /\ At(p, "settle") /\ processor'[p].outcome = processor[p].outcome
      /\ processor'[p].pc = IF processor[p].outcome \in {"sent", "confirmed"} THEN "ack" ELSE "throw"
      /\ \/ claim' = claim
         \/ /\ claim.status = "staged" /\ claim'.round = claim.round /\ claim'.old = FALSE
            /\ \/ claim'.status = "sent"
               \/ /\ claim'.status = "failed" /\ processor[p].outcome = "notSent"
                  /\ Exhausted(r)
      /\ UNCHANGED <<outbox, job, log, accepted, mishaps>>
  BY SettleReads
<1>2. ~Rejected(p) /\ claim'.round = claim.round  BY <1>1 DEF Rejected, At
<1>3. \A o \in Rounds : Lineage(o)' = Lineage(o)  BY <1>1 DEF Lineage
<1>4. /\ AllHold' /\ Ahead' /\ Behind'
      /\ \A o \in Rounds : o # claim.round /\ Finished(o) => Finished(o)'
      /\ \A q \in Processors \ {p} : processor'[q].pc \in {"idle", "throw"}
      /\ r = claim.round /\ processor'[p].round = claim.round
      /\ claim.status \notin {"failed", "suppressed"} /\ ~claim.old
  BY <1>1, <1>2, <1>3, SendFrame
<1>5. Unopened' /\ SentOnce' /\ LineagesNumbered'
  BY <1>1, <1>3 DEF Calm, Unopened, SentOnce, LineagesNumbered
<1>6. Ended'
  <2>1. CASE claim' = claim  BY <1>4, <2>1 DEF Ended
  <2>2. CASE claim'.status = "sent" /\ ~claim'.old  BY <2>2 DEF Ended
  <2>3. CASE claim'.status = "failed" /\ processor[p].outcome = "notSent" /\ Exhausted(r)
    <3>0. claim.round \in Nat /\ \A o \in Rounds : o \in Nat  BY LetterFacts
    <3>1. Rejected(p)'  BY <1>1, <1>4, <2>3 DEF Rejected, Exhausted, At
    <3>3. ASSUME NEW o \in Rounds, o < claim.round PROVE Finished(o)'
      BY <3>0, <3>3, <1>4 DEF Calm, Behind
    <3>4. ASSUME NEW o \in Rounds, o > claim.round PROVE Finished(o)'
      BY <1>1, <3>4 DEF Calm, Ahead, Finished
    <3>5. \A o \in Rounds : Finished(o)'
      <4> SUFFICES ASSUME NEW o \in Rounds PROVE Finished(o)'
        OBVIOUS
      <4>1. CASE o = claim.round  BY <1>4, <3>1, <4>1 DEF Finished
      <4>2. QED  BY <3>0, <3>3, <3>4, <4>1
    <3>6. QED  BY <3>5 DEF Ended
  <2>4. QED  BY <1>1, <2>1, <2>2, <2>3
<1>7. Sending'  BY <1>1, <1>4 DEF Sending, MaySend, At
<1>8. QED  BY <1>4, <1>5, <1>6, <1>7 DEF Calm

LEMMA MarkKeepsCalm ==
  ASSUME LetterTypes, Calm, NEW p \in Processors, MarkEmail(p) \/ BookkeepingFault(p)
  PROVE  Calm'
<1>1. /\ SameJob(p) /\ Others(p) /\ processor[p].pc \in {"mark", "settle"}
      /\ processor'[p].pc \in {"settle", "throw"}
      /\ \A o \in Rounds : Lineage(o)' = Lineage(o)
      /\ UNCHANGED <<claim, outbox, job, accepted>>
  <2>1. CASE MarkEmail(p)  BY <2>1, MarkReads DEF At, Lineage
  <2>2. CASE BookkeepingFault(p)
    <3>1. Busy(p) /\ Goto(p, "throw") /\ UNCHANGED <<claim, outbox, job, log, accepted>>
      BY <2>2 DEF BookkeepingFault, At, Busy
    <3>2. SameJob(p) /\ Others(p) /\ processor'[p].pc = "throw"  BY <3>1, Went DEF Phases
    <3>3. QED  BY <2>2, <3>1, <3>2 DEF BookkeepingFault, At, Lineage
  <2>3. QED  BY <2>1, <2>2
<1>2. ~Rejected(p) /\ claim'.round = claim.round  BY <1>1 DEF Rejected, At
<1>3. /\ AllHold' /\ Ahead' /\ Behind'
      /\ \A q \in Processors \ {p} : processor'[q].pc \in {"idle", "throw"}
      /\ claim.status \notin {"failed", "suppressed"} /\ ~claim.old
  BY <1>1, <1>2, SendFrame
<1>4. Unopened' /\ Ended' /\ SentOnce' /\ LineagesNumbered'
  BY <1>1, <1>3 DEF Calm, Unopened, Ended, SentOnce, LineagesNumbered
<1>5. Sending'  BY <1>1, <1>3 DEF Sending, MaySend, At
<1>6. QED  BY <1>3, <1>4, <1>5 DEF Calm

(* A rejected letter that ends without a mishap ends its job. *)
LEMMA RejectedEnds ==
  ASSUME LetterTypes, NEW p \in Processors, Rejected(p), processor[p].holds, EndStep(p), mishaps' = mishaps
  PROVE  job'[processor[p].round].state = "failed"
<1> DEFINE r == processor[p].round
<1>0. r \in Rounds /\ job \in [Rounds -> Job] /\ mishaps \in Nat
  BY LetterFacts DEF LetterTypes, LettersTypeOK
<1>1. mishaps' # mishaps + 1  BY <1>0
<1>2. Finish(p)
  <2>1. ~Crash(p)  BY <1>1, Zenon DEF Crash, Mishap
  <2>2. ~Stall(p)  BY <1>1 DEF Stall, Mishap
  <2>3. QED  BY <2>1, <2>2 DEF EndStep
<1>3. job' = [job EXCEPT ![r].made = @ + 1, ![r].state = "failed"]
  BY <1>2 DEF Finish, Rejected, At
<1>4. job'[r] = [job[r] EXCEPT !.made = @ + 1, !.state = "failed"]  BY <1>0, <1>3
<1>5. job[r] \in Job  BY <1>0
<1>6. QED  BY <1>4, <1>5 DEF Job

LEMMA EndKeepsCalm ==
  ASSUME LetterTypes, Calm, NEW p \in Processors, EndStep(p), mishaps' = mishaps
  PROVE  Calm'
<1>0. PICK r \in Rounds : r = processor[p].round  BY LetterFacts
<1>1. /\ Busy(p) /\ \A q \in Processors \ {p} : processor'[q] = processor[q]
      /\ processor'[p] = Idle /\ \A o \in Rounds \ {r} : job'[o] = job[o]
      /\ UNCHANGED <<claim, outbox, log, accepted>>
  <2>1. mishaps \in Nat  BY LetterFacts
  <2>2. QED  BY <1>0, <2>1, EndReads DEF Others
<1>2. /\ processor[p].holds /\ job[r].state = "active"
      /\ \A q \in Processors : processor[q].round \in Rounds
      /\ \A q \in Processors : q # p /\ Busy(q) => processor[q].round # r
  BY <1>0, <1>1, LetterFacts DEF Calm, AllHold, LetterTypes, HoldersActive, OneHolder
<1>3. ASSUME NEW q \in Processors, Rejected(q)
      PROVE  \/ q = p /\ job'[r].state = "failed"
             \/ q # p /\ processor[q].round # r /\ processor'[q] = processor[q] /\ Rejected(q)'
  <2>1. CASE q = p  BY <1>0, <1>2, <1>3, <2>1, RejectedEnds
  <2>2. CASE q # p
    <3>1. Busy(q)  BY <1>3 DEF Rejected, Busy, At
    <3>2. processor[q].round # r /\ processor'[q] = processor[q]  BY <1>1, <1>2, <2>2, <3>1
    <3>3. job'[processor[q].round] = job[processor[q].round]  BY <1>1, <1>2, <3>2
    <3>4. QED  BY <1>3, <2>2, <3>2, <3>3 DEF Rejected, Exhausted, At
  <2>3. QED  BY <2>1, <2>2
<1>4. ASSUME NEW o \in Rounds, Finished(o) PROVE Finished(o)'
  <2>1. ASSUME NEW q \in Processors, processor[q].round = o, Rejected(q) PROVE Finished(o)'
    <3>1. CASE q = p  BY <1>0, <1>3, <2>1, <3>1 DEF Finished
    <3>2. CASE q # p
      <4>1. processor'[q].round = o /\ Rejected(q)'  BY <1>3, <2>1, <3>2
      <4>2. QED  BY <4>1 DEF Finished
    <3>3. QED  BY <3>1, <3>2
  <2>2. CASE o = r  BY <1>2, <1>4, <2>1, <2>2 DEF Finished
  <2>3. CASE o # r
    <3>1. job'[o] = job[o] /\ outbox'[o] = outbox[o]  BY <1>1, <2>3
    <3>2. QED  BY <1>4, <2>1, <3>1 DEF Finished
  <2>4. QED  BY <2>2, <2>3
<1>5. \A o \in Rounds : Lineage(o)' = Lineage(o)  BY <1>1 DEF Lineage
<1>6. AllHold'  BY <1>1 DEF Calm, AllHold, Busy, At, Idle
<1>7. Unopened' /\ Ended' /\ Behind' /\ SentOnce' /\ LineagesNumbered'
  BY <1>1, <1>4, <1>5 DEF Calm, Unopened, Ended, Behind, SentOnce, LineagesNumbered
<1>8. Ahead'
  <2>1. ~(r > claim.round)  BY <1>2 DEF Calm, Ahead
  <2>2. QED  BY <1>1, <1>5, <2>1 DEF Calm, Ahead
<1>9. Sending'  BY <1>1 DEF Calm, Sending, MaySend, At, Idle, Lineage
<1>10. QED  BY <1>6, <1>7, <1>8, <1>9 DEF Calm

CalmInv == LetterTypes /\ (mishaps = 0 => Calm)

LEMMA CalmStep == CalmInv /\ [Next]_vars => CalmInv'
<1> SUFFICES ASSUME CalmInv, [Next]_vars, mishaps' = 0 PROVE Calm'
  BY LetterTypesStep DEF CalmInv
<1>0. LetterTypes /\ mishaps \in Nat  BY LetterFacts DEF CalmInv
<1>1. mishaps' = mishaps
  <2>1. ASSUME ~UNCHANGED mishaps PROVE mishaps' = mishaps + 1
    <3>1. CASE RunDunning \/ PassHorizon
      BY <2>1, <3>1, Zenon DEF RunDunning, Reconcile, OpenClaim, ReArm, PassHorizon, Mishap
    <3>2. ASSUME NEW r \in Rounds, Drain(r) \/ DrainFails(r) \/ Replay(r) PROVE mishaps' = mishaps + 1
      BY <2>1, <3>2, Zenon DEF Drain, DrainClaim, Enqueue, MarkSucceeded, DrainFails, Replay, Mishap
    <3>3. ASSUME NEW p \in Processors, Work(p) PROVE FALSE
      BY <2>1, <3>3, Zenon
      DEF Work, Take, Start, Transmit, RecordOutcome, MarkEmail, SettleClaim, Finish
    <3>4. ASSUME NEW p \in Processors, BookkeepingFault(p) \/ WriteFault(p) \/ Crash(p) \/ Stall(p)
          PROVE  mishaps' = mishaps + 1
      BY <2>1, <3>4, Zenon DEF BookkeepingFault, WriteFault, Crash, Stall, Mishap
    <3>5. QED  BY <2>1, <3>1, <3>2, <3>3, <3>4 DEF Next, vars
  <2>2. QED  BY <1>0, <2>1
<1>2. Calm  BY <1>1 DEF CalmInv
<1>3. CASE ClaimStep  BY <1>0, <1>1, <1>2, <1>3, ClaimStepKeepsCalm
<1>4. ASSUME NEW r \in Rounds, Enqueue(r) PROVE Calm'  BY <1>0, <1>2, <1>4, EnqueueKeepsCalm
<1>5. ASSUME NEW p \in Processors, NEW r \in Rounds, NEW transport \in Transports, Take(p, r, transport)
      PROVE  Calm'
  BY <1>0, <1>2, <1>5, TakeKeepsCalm
<1>6. ASSUME NEW p \in Processors, SendStep(p) PROVE Calm'
  <2>1. mishaps' # mishaps + 1  BY <1>0, <1>1
  <2>2. ~WriteFault(p)  BY <2>1 DEF WriteFault, Mishap
  <2>3. QED
    BY <1>0, <1>2, <1>6, <2>2, StartKeepsCalm, TransmitKeepsCalm, RecordKeepsCalm, MarkKeepsCalm, SettleKeepsCalm
    DEF SendStep
<1>7. ASSUME NEW p \in Processors, EndStep(p) PROVE Calm'  BY <1>0, <1>1, <1>2, <1>7, EndKeepsCalm
<1>8. CASE UNCHANGED vars
  BY <1>2, <1>8 DEF vars, Calm, AllHold, Unopened, Ahead, Behind, Ended, SentOnce, Sending, MaySend,
     LineagesNumbered, Finished, Rejected, Exhausted, Lineage, Busy, At
<1>9. QED
  BY <1>3, <1>4, <1>5, <1>6, <1>7, <1>8
  DEF Next, ClaimStep, Drain, Work, SendStep, EndStep

(* The customer gets one letter for one rung: runOneOrgDunning re-arms and  *)
(* email-worker retries any number of times, answers get lost and workers   *)
(* die between two writes; only one of the five mishaps sends a second.     *)
THEOREM LetterIsSentOnce == Spec => []LetterSentOnce
<1>1. Init => CalmInv
  <2> SUFFICES ASSUME Init PROVE Calm
    BY LetterTypesInit DEF CalmInv
  <2>1. /\ claim.status = "none" /\ claim.round = 0 /\ ~claim.old /\ accepted = 0
        /\ \A r \in Rounds : job[r].state = "none" /\ outbox[r].status = "none" /\ Lineage(r) = << >>
        /\ \A p \in Processors : processor[p].pc = "idle"
    BY DEF Init, Idle, Lineage
  <2>2. AllHold /\ Unopened /\ Ahead /\ Ended /\ SentOnce
    BY <2>1 DEF AllHold, Unopened, Ahead, Ended, SentOnce, Busy, At
  <2>3. Behind  BY <2>1 DEF Behind, Rounds
  <2>4. Sending  BY <2>1 DEF Sending, MaySend, At
  <2>5. LineagesNumbered  BY <2>1 DEF LineagesNumbered, Numbered, DecidedAt
  <2>6. QED  BY <2>2, <2>3, <2>4, <2>5 DEF Calm
<1>2. CalmInv => LetterSentOnce  BY DEF CalmInv, Calm, SentOnce, LetterSentOnce
<1>3. QED  BY <1>1, <1>2, CalmStep, PTL DEF Spec

-----------------------------------------------------------------------------
(* Payment acceptance.  What an event leaves behind is sound: a receipt is  *)
(* posted exactly while it holds money, only one holds money, and what it   *)
(* holds with what is still owed never exceeds the quote; the units posted  *)
(* back are the returns whose review is posted, and the provider raised     *)
(* each of them.                                                            *)
ReturnEvents(a) == {e \in sent : e.attempt = a /\ e.kind = "returned"}

Raised(a, r) == \E e \in ReturnEvents(a) : e.ret = r

PostedReturns(row) == {r \in Returns : row.review[r] = "posted"}

RowSound(a, row) ==
  /\ row \in Attempt
  /\ (row.receipt = "posted") <=> (row.total > 0)
  /\ row.returned = Cardinality(PostedReturns(row))
  /\ \A r \in Returns : row.review[r] # "none" => Raised(a, r)
  /\ row.marker # 0 => Raised(a, row.marker)

MoneySound(a, total, due) ==
  /\ due \in 0..Quote /\ total + due <= Quote
  /\ \A b \in Attempts \ {a} : /\ due + attempt[b].total <= Quote
                               /\ total > 0 => attempt[b].total = 0

Links == {"active", "paid", "closed"}

Sound(a, o) ==
  /\ o = Outcome(o.row, o.due, o.lnk)
  /\ RowSound(a, o.row) /\ MoneySound(a, o.row.total, o.due) /\ o.lnk \in Links

(* No step forgets a return, and one that consumes a parked return puts it  *)
(* on its review row.                                                       *)
Kept(row, new) ==
  /\ \A r \in Returns : row.review[r] # "none" => new.review[r] # "none"
  /\ new.marker = row.marker /\ new.status \in {row.status, "succeeded", "refunded"}
  /\ new.consumed => row.consumed \/ (row.marker \in Returns /\ new.review[row.marker] # "none")

Kinds == {"succeeded", "processing", "failed", "cancelled", "returned"}

AcceptanceInv ==
  /\ AcceptanceTypeOK /\ IsFiniteSet(sent)
  /\ \A e \in sent : e.kind = "returned" <=> e.ret # 0
  /\ \A a \in Attempts : RowSound(a, attempt[a]) /\ MoneySound(a, attempt[a].total, balance)

(* Changes of a row that touch neither its money nor its returns *)
LEMMA RowKept ==
  ASSUME NEW a, NEW row \in Attempt, NEW new \in Attempt, RowSound(a, row),
         new.receipt = "posted" <=> row.receipt = "posted", new.total = row.total,
         new.returned = row.returned, new.review = row.review, new.marker = row.marker
  PROVE  RowSound(a, new)
<1>1. PostedReturns(new) = PostedReturns(row)  BY DEF PostedReturns
<1>2. QED  BY <1>1 DEF RowSound

LEMMA ClaimSound ==
  ASSUME NEW a, NEW row, RowSound(a, row), NEW kind \in Kinds
  PROVE  LET new == Claim(row, kind) IN
         /\ RowSound(a, new) /\ new.total = row.total /\ new.receipt = row.receipt
         /\ new.review = row.review /\ new.marker = row.marker /\ new.consumed = row.consumed
         /\ new.status = RowStatus(kind) /\ new.closing = row.closing /\ new.journal = row.journal
<1> DEFINE new == Claim(row, kind)
<1>1. row \in Attempt  BY DEF RowSound
<1>2. RowStatus(kind) \in {"initiated", "succeeded", "failed", "cancelled", "refunded"}
  BY DEF RowStatus, Kinds
<1>3. new = [row EXCEPT !.status = RowStatus(kind), !.intent = (row.intent \/ kind # "cancelled")]
  BY DEF Claim
<1>4. (row.intent \/ kind # "cancelled") \in BOOLEAN  OBVIOUS
<1>5. new \in Attempt  BY <1>1, <1>2, <1>3, <1>4 DEF Attempt
<1>6. /\ new.receipt = row.receipt /\ new.total = row.total /\ new.returned = row.returned
      /\ new.review = row.review /\ new.marker = row.marker /\ new.consumed = row.consumed
      /\ new.status = RowStatus(kind) /\ new.closing = row.closing /\ new.journal = row.journal
  BY <1>1, <1>3 DEF Attempt
<1> HIDE DEF new
<1>7. RowSound(a, new)  BY <1>1, <1>5, <1>6, RowKept
<1>8. QED  BY <1>6, <1>7 DEF new

LEMMA FinalizedSound ==
  ASSUME NEW a, NEW o, Sound(a, o)
  PROVE  LET p == Finalized(o) IN
         Sound(a, p) /\ Kept(o.row, p.row) /\ p.row.receipt = o.row.receipt
<1> DEFINE row == o.row
           new == [row EXCEPT !.status = "succeeded", !.journal = TRUE]
           paid == IF o.due <= 0 /\ o.lnk = "active" THEN "paid" ELSE o.lnk
<1>1. row \in Attempt /\ o.lnk \in Links /\ RowSound(a, row) /\ MoneySound(a, row.total, o.due)
  BY DEF Sound, RowSound
<1>2. paid \in Links  BY <1>1 DEF Links
<1>3. new \in Attempt  BY <1>1 DEF Attempt
<1>4. /\ new.receipt = row.receipt /\ new.total = row.total /\ new.returned = row.returned
      /\ new.review = row.review /\ new.marker = row.marker /\ new.consumed = row.consumed
      /\ new.status = "succeeded"
  BY <1>1 DEF Attempt
<1>5. Finalized(o) = IF row.journal THEN o ELSE Outcome(new, o.due, paid)
  BY DEF Finalized
<1> HIDE DEF new, paid
<1>6. RowSound(a, new)  BY <1>1, <1>3, <1>4, RowKept
<1>7. CASE row.journal  BY <1>5, <1>7 DEF Kept
<1>8. CASE ~row.journal
  <2>1. Sound(a, Outcome(new, o.due, paid))  BY <1>1, <1>2, <1>4, <1>6 DEF Sound, Outcome
  <2>2. Kept(row, new)  BY <1>4 DEF Kept
  <2>3. QED  BY <1>4, <1>5, <1>8, <2>1, <2>2 DEF Outcome
<1>9. QED  BY <1>7, <1>8

LEMMA KeptTwice ==
  ASSUME NEW x, NEW y, NEW z, Kept(x, y), Kept(y, z)
  PROVE  Kept(x, z)
BY DEF Kept

(* A receipt is posted against an invoice that still owes the whole quote:  *)
(* no other receipt holds money then.                                       *)
LEMMA PostedSound ==
  ASSUME NEW a \in Attempts, NEW o, Sound(a, o), ~Exceeds(o.due), attempt \in [Attempts -> Attempt]
  PROVE  Sound(a, Posted(o)) /\ Kept(o.row, Posted(o).row)
<1> DEFINE row == o.row
           new == [row EXCEPT !.receipt = "posted", !.total = Quote]
           mid == Outcome(new, o.due - Quote, o.lnk)
<1> USE AcceptanceAssumption
<1>1. row \in Attempt /\ o.lnk \in Links /\ RowSound(a, row) /\ MoneySound(a, row.total, o.due)
  BY DEF Sound, RowSound
<1>0. Quote \in 0..Quote  OBVIOUS
<1>2. new \in Attempt  BY <1>0, <1>1 DEF Attempt
<1>3. /\ new.receipt = "posted" /\ new.total = Quote /\ new.returned = row.returned
      /\ new.review = row.review /\ new.marker = row.marker /\ new.consumed = row.consumed
      /\ new.status = row.status
  BY <1>1 DEF Attempt
<1> HIDE DEF new
<1>4. o.due = Quote  BY <1>1 DEF MoneySound, Exceeds
<1>5. \A b \in Attempts : attempt[b].total \in 0..Quote  BY DEF Attempt
<1>6. MoneySound(a, Quote, o.due - Quote)  BY <1>1, <1>4, <1>5 DEF MoneySound
<1>7. PostedReturns(new) = PostedReturns(row)  BY <1>3 DEF PostedReturns
<1>8. RowSound(a, new)  BY <1>1, <1>2, <1>3, <1>7 DEF RowSound
<1>9. Sound(a, mid) /\ mid.row = new  BY <1>1, <1>3, <1>6, <1>8 DEF Sound, Outcome
<1>10. Kept(row, new)  BY <1>3 DEF Kept
<1>11. Posted(o) = Finalized(mid)  BY DEF Posted, new
<1> HIDE DEF mid
<1>12. QED  BY <1>9, <1>10, <1>11, FinalizedSound, KeptTwice

LEMMA SettledSound ==
  ASSUME NEW a \in Attempts, NEW o, Sound(a, o), attempt \in [Attempts -> Attempt], NEW p \in Settled(o)
  PROVE  Sound(a, p) /\ Kept(o.row, p.row)
<1> DEFINE row == o.row
           over == [row EXCEPT !.discrepancy = "exceeds"]
           wait == [row EXCEPT !.receipt = "pending"]
<1>1. row \in Attempt /\ o.lnk \in Links /\ RowSound(a, row) /\ MoneySound(a, row.total, o.due)
      /\ o = Outcome(row, o.due, o.lnk)
  BY DEF Sound, RowSound
<1>2. \/ Exceeds(o.due) /\ p = [o EXCEPT !.row.discrepancy = "exceeds"]
      \/ p = o \/ p = Finalized(o) \/ (~Exceeds(o.due) /\ p = Posted(o))
      \/ p = [o EXCEPT !.row.receipt = "pending"] /\ row.receipt = "none"
  BY DEF Settled
<1>3. CASE p = [o EXCEPT !.row.discrepancy = "exceeds"]
  <2>1. p = Outcome(over, o.due, o.lnk)  BY <1>1, <1>3 DEF Outcome
  <2>2. over \in Attempt  BY <1>1 DEF Attempt
  <2>3. /\ over.receipt = row.receipt /\ over.total = row.total /\ over.returned = row.returned
        /\ over.review = row.review /\ over.marker = row.marker /\ over.consumed = row.consumed
        /\ over.status = row.status
    BY <1>1 DEF Attempt
  <2> HIDE DEF over
  <2>4. RowSound(a, over)  BY <1>1, <2>2, <2>3, RowKept
  <2>5. QED  BY <1>1, <2>1, <2>3, <2>4 DEF Sound, Kept, Outcome
<1>4. CASE p = [o EXCEPT !.row.receipt = "pending"] /\ row.receipt = "none"
  <2>1. p = Outcome(wait, o.due, o.lnk)  BY <1>1, <1>4 DEF Outcome
  <2>2. wait \in Attempt  BY <1>1 DEF Attempt
  <2>3. /\ wait.receipt = "pending" /\ wait.total = row.total /\ wait.returned = row.returned
        /\ wait.review = row.review /\ wait.marker = row.marker /\ wait.consumed = row.consumed
        /\ wait.status = row.status
    BY <1>1 DEF Attempt
  <2> HIDE DEF wait
  <2>4. RowSound(a, wait)  BY <1>1, <1>4, <2>2, <2>3, RowKept
  <2>5. QED  BY <1>1, <2>1, <2>3, <2>4 DEF Sound, Kept, Outcome
<1>5. CASE p = o  BY <1>5 DEF Kept
<1>6. CASE p = Finalized(o)  BY <1>6, FinalizedSound
<1>7. CASE ~Exceeds(o.due) /\ p = Posted(o)  BY <1>7, PostedSound
<1>8. QED  BY <1>2, <1>3, <1>4, <1>5, <1>6, <1>7

LEMMA PostedReturnsFinite ==
  ASSUME NEW row
  PROVE  IsFiniteSet(PostedReturns(row)) /\ Cardinality(PostedReturns(row)) \in Nat
<1>1. IsFiniteSet(Returns)  BY AcceptanceAssumption, FS_Interval DEF Returns
<1>2. IsFiniteSet(PostedReturns(row))  BY <1>1, FS_Subset DEF PostedReturns
<1>3. QED  BY <1>2, FS_CardinalityType

(* A return is posted from a receipt that holds money and counted with its  *)
(* review; what it gives back is owed again.                                *)
LEMMA ReturnedSound ==
  ASSUME NEW a \in Attempts, NEW o, Sound(a, o), attempt \in [Attempts -> Attempt],
         NEW r \in Returns, Raised(a, r), NEW p \in Returned(o, r)
  PROVE  Sound(a, p) /\ Kept(o.row, p.row) /\ p.row.review[r] # "none"
<1> USE AcceptanceAssumption
<1> DEFINE row == o.row
           left == row.total - 1
           park == [row EXCEPT !.review[r] = "pending"]
           receipt == IF left = 0 THEN "reversed" ELSE "posted"
           status == IF left = 0 THEN "refunded" ELSE "succeeded"
           back == [row EXCEPT !.review[r] = "posted", !.returned = @ + 1, !.total = left,
                               !.receipt = receipt, !.status = status]
<1>1. row \in Attempt /\ o.lnk \in Links /\ RowSound(a, row) /\ MoneySound(a, row.total, o.due)
      /\ o = Outcome(row, o.due, o.lnk)
  BY DEF Sound, RowSound
<1>2. \/ p = o /\ row.review[r] = "posted"
      \/ row.review[r] # "posted" /\ p = [o EXCEPT !.row.review[r] = "pending"]
      \/ row.review[r] # "posted" /\ row.receipt = "posted" /\ p = Outcome(back, o.due + 1, o.lnk)
  BY DEF Returned, Recorded
<1>3. CASE p = o /\ row.review[r] = "posted"  BY <1>3 DEF Kept
<1>4. CASE row.review[r] # "posted" /\ p = [o EXCEPT !.row.review[r] = "pending"]
  <2>1. p = Outcome(park, o.due, o.lnk)  BY <1>1, <1>4 DEF Outcome
  <2>2. [row.review EXCEPT ![r] = "pending"] \in [Returns -> {"none", "pending", "posted"}]
    BY <1>1 DEF Attempt
  <2>3. park \in Attempt  BY <1>1, <2>2 DEF Attempt
  <2>4. /\ park.receipt = row.receipt /\ park.total = row.total /\ park.returned = row.returned
        /\ park.marker = row.marker /\ park.consumed = row.consumed /\ park.status = row.status
        /\ park.review = [row.review EXCEPT ![r] = "pending"]
    BY <1>1 DEF Attempt
  <2> HIDE DEF park
  <2>5. row.review \in [Returns -> {"none", "pending", "posted"}]  BY <1>1 DEF Attempt
  <2>6. park.review[r] = "pending" /\ \A s \in Returns \ {r} : park.review[s] = row.review[s]
    BY <2>4, <2>5
  <2>7. PostedReturns(park) = PostedReturns(row)  BY <1>4, <2>6 DEF PostedReturns
  <2>8. RowSound(a, park)  BY <1>1, <2>3, <2>4, <2>6, <2>7 DEF RowSound
  <2>9. Kept(row, park)  BY <2>4, <2>6 DEF Kept
  <2>10. QED  BY <1>1, <2>1, <2>4, <2>6, <2>8, <2>9 DEF Sound, Outcome
<1>5. CASE row.review[r] # "posted" /\ row.receipt = "posted" /\ p = Outcome(back, o.due + 1, o.lnk)
  <2>0. row.total \in 0..Quote /\ row.total > 0 /\ row.returned \in Nat
        /\ row.review \in [Returns -> {"none", "pending", "posted"}]
    BY <1>1, <1>5 DEF RowSound, Attempt
  <2>1. left \in 0..Quote /\ left >= 0 /\ row.returned + 1 \in Nat  BY <2>0
  <2>2. [row.review EXCEPT ![r] = "posted"] \in [Returns -> {"none", "pending", "posted"}]  BY <2>0
  <2>3. /\ receipt \in {"reversed", "posted"} /\ status \in {"refunded", "succeeded"}
        /\ receipt = "posted" <=> left > 0
    BY <2>0
  <2>10. left = row.total - 1  OBVIOUS
  <2> HIDE DEF left, receipt, status
  <2>4. back \in Attempt  BY <1>1, <2>1, <2>2, <2>3 DEF Attempt
  <2>5. /\ back.receipt = receipt /\ back.total = left /\ back.returned = row.returned + 1
        /\ back.marker = row.marker /\ back.consumed = row.consumed /\ back.status = status
        /\ back.review = [row.review EXCEPT ![r] = "posted"]
    BY <1>1 DEF Attempt
  <2> HIDE DEF back
  <2>6. back.review[r] = "posted" /\ \A s \in Returns \ {r} : back.review[s] = row.review[s]
    BY <2>0, <2>5
  <2>7. PostedReturns(back) = PostedReturns(row) \cup {r} /\ r \notin PostedReturns(row)
    BY <1>5, <2>6 DEF PostedReturns
  <2>8. Cardinality(PostedReturns(back)) = Cardinality(PostedReturns(row)) + 1
    BY <2>7, PostedReturnsFinite, FS_AddElement
  <2>9. RowSound(a, back)  BY <1>1, <2>3, <2>4, <2>5, <2>6, <2>8 DEF RowSound
  <2>11. MoneySound(a, left, o.due + 1)
    <3>1. o.due \in 0..Quote /\ row.total + o.due <= Quote  BY <1>1 DEF MoneySound
    <3>2. o.due + 1 \in 0..Quote /\ left + (o.due + 1) <= Quote  BY <2>0, <2>10, <3>1
    <3>3. \A b \in Attempts \ {a} : attempt[b].total = 0  BY <1>1, <2>0 DEF MoneySound
    <3>4. QED  BY <3>2, <3>3 DEF MoneySound
  <2>12. Kept(row, back)  BY <2>3, <2>5, <2>6 DEF Kept
  <2>13. QED  BY <1>1, <1>5, <2>5, <2>6, <2>9, <2>11, <2>12 DEF Sound, Outcome
<1>6. QED  BY <1>2, <1>3, <1>4, <1>5

LEMMA ConsumedIn ==
  ASSUME NEW o, o = Outcome(o.row, o.due, o.lnk), NEW x
  PROVE  [o EXCEPT !.row.consumed = x] = Outcome([o.row EXCEPT !.consumed = x], o.due, o.lnk)
BY DEF Outcome

LEMMA ReplayedSound ==
  ASSUME NEW a \in Attempts, NEW o, Sound(a, o), attempt \in [Attempts -> Attempt], NEW p \in Replayed(o)
  PROVE  Sound(a, p) /\ Kept(o.row, p.row)
<1> DEFINE row == o.row
           new == [row EXCEPT !.consumed = TRUE]
           mid == Outcome(new, o.due, o.lnk)
<1>1. row \in Attempt /\ o.lnk \in Links /\ RowSound(a, row) /\ MoneySound(a, row.total, o.due)
      /\ o = Outcome(row, o.due, o.lnk)
  BY DEF Sound, RowSound
<1>2. CASE row.marker = 0 \/ row.consumed
  <2>1. p = o  BY <1>2 DEF Replayed
  <2>2. QED  BY <2>1 DEF Kept
<1>3. CASE ~(row.marker = 0 \/ row.consumed)
  <2>1. [o EXCEPT !.row.consumed = TRUE] = mid  BY <1>1, ConsumedIn, Zenon
  <2>2. p \in Returned(mid, row.marker)  BY <1>3, <2>1 DEF Replayed
  <2>3. row.marker \in Returns /\ Raised(a, row.marker)
    BY <1>1, <1>3, AcceptanceAssumption DEF RowSound, Attempt, Returns
  <2>4. new \in Attempt  BY <1>1 DEF Attempt
  <2>5. /\ new.receipt = row.receipt /\ new.total = row.total /\ new.returned = row.returned
        /\ new.review = row.review /\ new.marker = row.marker /\ new.status = row.status
    BY <1>1 DEF Attempt
  <2> HIDE DEF new
  <2>6. RowSound(a, new)  BY <1>1, <2>4, <2>5, RowKept
  <2>7. Sound(a, mid) /\ mid.row = new  BY <1>1, <2>5, <2>6 DEF Sound, Outcome
  <2> HIDE DEF mid
  <2>8. Sound(a, p) /\ Kept(new, p.row) /\ p.row.review[row.marker] # "none"
    BY <2>2, <2>3, <2>7, ReturnedSound
  <2>9. Kept(row, p.row)  BY <2>3, <2>5, <2>8 DEF Kept
  <2>10. QED  BY <2>8, <2>9
<1>4. QED  BY <1>2, <1>3

(* A step writes one row, and the events only grow. *)
EventsGrow ==
  /\ sent \subseteq sent' /\ sent' \subseteq Event /\ IsFiniteSet(sent') /\ acked' \subseteq sent'
  /\ \A e \in sent' : e.kind = "returned" <=> e.ret # 0

Sessions == [Attempts -> {"none", "open", "processing", "paid", "ended"}]

LEMMA RowStep ==
  ASSUME AcceptanceInv, NEW a \in Attempts, NEW new,
         attempt' = [attempt EXCEPT ![a] = new], RowSound(a, new), MoneySound(a, new.total, balance'),
         link' \in Links, session' \in Sessions, EventsGrow
  PROVE  AcceptanceInv'
<1> USE AcceptanceAssumption
<1>1. /\ attempt \in [Attempts -> Attempt] /\ new \in Attempt
      /\ \A b \in Attempts : RowSound(b, attempt[b]) /\ MoneySound(b, attempt[b].total, balance)
  BY DEF AcceptanceInv, AcceptanceTypeOK, RowSound
<1>2. /\ attempt' \in [Attempts -> Attempt] /\ attempt'[a] = new
      /\ \A b \in Attempts \ {a} : attempt'[b] = attempt[b]
  BY <1>1
<1>3. \A b \in Attempts : attempt[b].total \in 0..Quote  BY <1>1 DEF Attempt
<1>4. new.total \in 0..Quote /\ balance' \in 0..Quote  BY <1>1 DEF Attempt, MoneySound
<1>5. \A b, r : Raised(b, r) => Raised(b, r)'  BY DEF EventsGrow, Raised, ReturnEvents
<1>6. ASSUME NEW b \in Attempts PROVE RowSound(b, attempt[b])'
  <2>1. PICK row : row = attempt'[b]  OBVIOUS
  <2>2. RowSound(b, row)  BY <1>1, <1>2, <2>1
  <2>3. RowSound(b, row)'  BY <1>5, <2>2 DEF RowSound, PostedReturns
  <2>4. QED  BY <2>1, <2>3 DEF RowSound, PostedReturns
<1>7. ASSUME NEW b \in Attempts PROVE MoneySound(b, attempt[b].total, balance)'
  <2>1. CASE b = a  BY <1>2, <1>4, <2>1 DEF MoneySound
  <2>2. CASE b # a
    <3>1. attempt'[b].total + balance' <= Quote  BY <1>2, <1>3, <1>4, <2>2 DEF MoneySound
    <3>2. ASSUME NEW c \in Attempts \ {b}
          PROVE  /\ balance' + attempt'[c].total <= Quote
                 /\ attempt'[b].total > 0 => attempt'[c].total = 0
      <4>1. CASE c = a  BY <1>2, <1>3, <1>4, <2>2, <4>1 DEF MoneySound
      <4>2. CASE c # a  BY <1>1, <1>2, <1>3, <1>4, <2>2, <4>2 DEF MoneySound
      <4>3. QED  BY <4>1, <4>2
    <3>3. QED  BY <1>4, <3>1, <3>2 DEF MoneySound
  <2>3. QED  BY <2>1, <2>2
<1>8. AcceptanceTypeOK' /\ IsFiniteSet(sent')
  BY <1>2, <1>4 DEF AcceptanceTypeOK, EventsGrow, Links, Sessions
<1>9. QED  BY <1>6, <1>7, <1>8 DEF AcceptanceInv, EventsGrow

(* A step that leaves the rows alone and asks no more of the invoice *)
LEMMA StillStep ==
  ASSUME AcceptanceInv, UNCHANGED attempt, balance' \in 0..balance, link' \in Links,
         session' \in Sessions, EventsGrow
  PROVE  AcceptanceInv'
<1> USE AcceptanceAssumption
<1>1. /\ attempt \in [Attempts -> Attempt] /\ balance \in 0..Quote
      /\ \A b \in Attempts : RowSound(b, attempt[b]) /\ MoneySound(b, attempt[b].total, balance)
  BY DEF AcceptanceInv, AcceptanceTypeOK
<1>2. \A b \in Attempts : attempt[b].total \in 0..Quote  BY <1>1 DEF Attempt
<1>3. balance' \in 0..Quote /\ balance' <= balance  BY <1>1
<1>4. \A b, r : Raised(b, r) => Raised(b, r)'  BY DEF EventsGrow, Raised, ReturnEvents
<1>5. ASSUME NEW b \in Attempts PROVE RowSound(b, attempt[b])'
  BY <1>1, <1>4 DEF RowSound, PostedReturns
<1>6. ASSUME NEW b \in Attempts PROVE MoneySound(b, attempt[b].total, balance)'
  BY <1>1, <1>2, <1>3 DEF MoneySound
<1>7. AcceptanceTypeOK' /\ IsFiniteSet(sent')
  BY <1>1, <1>3 DEF AcceptanceTypeOK, EventsGrow, Links, Sessions
<1>8. QED  BY <1>5, <1>6, <1>7 DEF AcceptanceInv, EventsGrow

LEMMA RaiseGrows ==
  ASSUME AcceptanceInv, NEW e \in Event, e.kind = "returned" <=> e.ret # 0, Raise(e), UNCHANGED acked
  PROVE  EventsGrow
<1>1. /\ sent \subseteq Event /\ IsFiniteSet(sent) /\ acked \subseteq sent
      /\ \A x \in sent : x.kind = "returned" <=> x.ret # 0
  BY DEF AcceptanceInv, AcceptanceTypeOK
<1>2. IsFiniteSet(sent \cup {e})  BY <1>1, FS_AddElement
<1>3. QED  BY <1>1, <1>2 DEF Raise, EventsGrow

LEMMA QuietGrows ==
  ASSUME AcceptanceInv, UNCHANGED sent, acked' \subseteq sent
  PROVE  EventsGrow
BY DEF AcceptanceInv, AcceptanceTypeOK, EventsGrow

LEMMA EventRow ==
  ASSUME NEW a \in Attempts, NEW kind \in Kinds, NEW exact \in BOOLEAN, NEW named \in BOOLEAN,
         NEW keyed \in BOOLEAN, NEW r \in 0..MaxReturns
  PROVE  [attempt |-> a, kind |-> kind, exact |-> exact, named |-> named, keyed |-> keyed, ret |-> r]
           \in Event
BY DEF Event, Kinds

LEMMA PlainIsEvent ==
  ASSUME NEW a \in Attempts, NEW kind \in Kinds \ {"returned"}
  PROVE  /\ Plain(a, kind) \in Event /\ Plain(a, kind).kind = kind /\ Plain(a, kind).ret = 0
         /\ Plain(a, kind).attempt = a
<1>1. 0 \in 0..MaxReturns /\ TRUE \in BOOLEAN  BY AcceptanceAssumption
<1>2. Plain(a, kind) \in Event  BY <1>1, EventRow, Zenon DEF Plain
<1>3. QED  BY <1>2 DEF Plain

LEMMA PaidIsEvent ==
  ASSUME NEW a \in Attempts, NEW exact \in BOOLEAN
  PROVE  LET e == [Plain(a, "succeeded") EXCEPT !.exact = exact] IN
         e \in Event /\ e.kind = "succeeded" /\ e.ret = 0 /\ e.attempt = a
<1>1. Plain(a, "succeeded") \in Event  BY PlainIsEvent DEF Kinds
<1>2. QED  BY <1>1, PlainIsEvent DEF Kinds, Event

LEMMA ReturnIsEvent ==
  ASSUME NEW a \in Attempts, NEW r \in Returns, NEW named \in BOOLEAN, NEW keyed \in BOOLEAN
  PROVE  LET e == ReturnOf(a, r, named, keyed) IN
         e \in Event /\ e.kind = "returned" /\ e.ret = r /\ e.attempt = a /\ e.ret # 0
<1>1. 0 \in 0..MaxReturns /\ TRUE \in BOOLEAN /\ r \in 0..MaxReturns /\ r # 0
  BY AcceptanceAssumption DEF Returns
<1>2. Plain(a, "returned") \in Event
  <2>1. "returned" \in Kinds  BY DEF Kinds
  <2>2. QED  BY <1>1, <2>1, EventRow, Zenon DEF Plain
<1>3. Plain(a, "returned").kind = "returned" /\ Plain(a, "returned").attempt = a  BY DEF Plain
<1>4. QED  BY <1>1, <1>2, <1>3 DEF Event, ReturnOf

Settling == {"initiated", "succeeded", "refunded"}

Writes(a, new) ==
  /\ attempt' = [attempt EXCEPT ![a] = new] /\ RowSound(a, new) /\ MoneySound(a, new.total, balance')
  /\ link' \in Links

Carries(row, new) ==
  /\ \A r \in Returns : row.review[r] # "none" => new.review[r] # "none"
  /\ row.marker # 0 => new.marker # 0
  /\ new.consumed => row.consumed \/ \E r \in Returns : new.review[r] # "none"

LEMMA KeptCarries ==
  ASSUME NEW row, NEW new, Kept(row, new)
  PROVE  Carries(row, new)
BY DEF Kept, Carries

LEMMA LeaveWrites ==
  ASSUME NEW a, NEW o, Sound(a, o), Leave(a, o)
  PROVE  Writes(a, o.row) /\ UNCHANGED <<session, sent>>
BY DEF Sound, Leave, Writes

(* The row, the invoice and the link before an event, and after its claim *)
LEMMA BeforeSound ==
  ASSUME AcceptanceInv, NEW a \in Attempts
  PROVE  /\ attempt[a] \in Attempt /\ attempt \in [Attempts -> Attempt]
         /\ Sound(a, Outcome(attempt[a], balance, link))
         /\ \A kind \in Kinds :
              LET row == Claim(attempt[a], kind) IN
              /\ Sound(a, Outcome(row, balance, link)) /\ row.status = RowStatus(kind)
              /\ row.review = attempt[a].review /\ row.marker = attempt[a].marker
              /\ row.consumed = attempt[a].consumed
<1>1. /\ RowSound(a, attempt[a]) /\ MoneySound(a, attempt[a].total, balance) /\ link \in Links
      /\ attempt \in [Attempts -> Attempt]
  BY DEF AcceptanceInv, AcceptanceTypeOK, Links
<1>2. Sound(a, Outcome(attempt[a], balance, link))  BY <1>1 DEF Sound, Outcome
<1>3. ASSUME NEW kind \in Kinds, NEW row, row = Claim(attempt[a], kind)
      PROVE  /\ Sound(a, Outcome(row, balance, link)) /\ row.status = RowStatus(kind)
             /\ row.review = attempt[a].review /\ row.marker = attempt[a].marker
             /\ row.consumed = attempt[a].consumed
  <2>1. /\ RowSound(a, row) /\ row.total = attempt[a].total /\ row.status = RowStatus(kind)
        /\ row.review = attempt[a].review /\ row.marker = attempt[a].marker
        /\ row.consumed = attempt[a].consumed
    BY <1>1, <1>3, ClaimSound
  <2>2. QED  BY <1>1, <2>1 DEF Sound, Outcome
<1>4. QED  BY <1>1, <1>2, <1>3

LEMMA EventFacts ==
  ASSUME AcceptanceInv, NEW e \in sent
  PROVE  /\ e.attempt \in Attempts /\ e.kind \in Kinds
         /\ e.kind = "returned" => e.ret \in Returns /\ Raised(e.attempt, e.ret)
<1>1. e \in Event /\ (e.kind = "returned" <=> e.ret # 0)  BY DEF AcceptanceInv, AcceptanceTypeOK
<1>2. e.attempt \in Attempts /\ e.kind \in Kinds /\ e.ret \in 0..MaxReturns  BY <1>1 DEF Event, Kinds
<1>3. e.kind = "returned" => e.ret \in Returns  BY <1>1, <1>2, AcceptanceAssumption DEF Returns
<1>4. e.kind = "returned" => Raised(e.attempt, e.ret)  BY DEF Raised, ReturnEvents
<1>5. QED  BY <1>2, <1>3, <1>4

(* What an event may do to the row of its attempt *)
Delivered(e, new) ==
  LET row == attempt[e.attempt] IN
  /\ Writes(e.attempt, new) /\ Carries(row, new)
  /\ new.status \in Settling \cup {row.status} \/ (e.kind \in {"failed", "cancelled"} /\ new.status = e.kind)
  /\ KeyedReturn(e) =>
       new.review[e.ret] # "none" \/ new.marker = e.ret \/ row.status \notin Settling

LEMMA ParkWrites ==
  ASSUME AcceptanceInv, NEW e \in sent, ParkReturn(e)
  PROVE  \E new : Delivered(e, new)
<1> DEFINE a == e.attempt
           row == attempt[a]
           new == [row EXCEPT !.marker = e.ret]
<1>1. /\ a \in Attempts /\ e.ret \in Returns /\ Raised(a, e.ret) /\ e.kind = "returned"
      /\ attempt' = [attempt EXCEPT ![a].marker = e.ret] /\ UNCHANGED <<link, balance>>
  BY EventFacts DEF ParkReturn
<1>2. /\ row \in Attempt /\ attempt \in [Attempts -> Attempt] /\ RowSound(a, row)
      /\ MoneySound(a, row.total, balance) /\ link \in Links
  BY <1>1 DEF AcceptanceInv, AcceptanceTypeOK, Links
<1>3. e.ret \in 0..MaxReturns /\ e.ret # 0  BY <1>1, AcceptanceAssumption DEF Returns
<1>4. attempt' = [attempt EXCEPT ![a] = new]  BY <1>1, <1>2
<1>5. new \in Attempt  BY <1>2, <1>3 DEF Attempt
<1>6. /\ new.receipt = row.receipt /\ new.total = row.total /\ new.returned = row.returned
      /\ new.review = row.review /\ new.marker = e.ret /\ new.consumed = row.consumed
      /\ new.status = row.status
  BY <1>2 DEF Attempt
<1> HIDE DEF new
<1>7. PostedReturns(new) = PostedReturns(row)  BY <1>6 DEF PostedReturns
<1>8. RowSound(a, new)  BY <1>1, <1>2, <1>5, <1>6, <1>7 DEF RowSound
<1>9. Writes(a, new)  BY <1>1, <1>2, <1>4, <1>6, <1>8 DEF Writes
<1>10. Carries(row, new)  BY <1>3, <1>6 DEF Carries
<1>11. Delivered(e, new)  BY <1>6, <1>9, <1>10 DEF Delivered
<1>12. QED  BY <1>11

LEMMA DropWrites ==
  ASSUME AcceptanceInv, NEW e \in sent, DropReturn(e)
  PROVE  \E new : Delivered(e, new)
<1> DEFINE a == e.attempt
           row == attempt[a]
<1>1. a \in Attempts /\ e.kind = "returned" /\ ~KeyedReturn(e) /\ UNCHANGED <<link, balance, attempt>>
  BY EventFacts DEF DropReturn, KeyedReturn
<1>2. /\ row \in Attempt /\ attempt \in [Attempts -> Attempt] /\ RowSound(a, row)
      /\ MoneySound(a, row.total, balance) /\ link \in Links
  BY <1>1 DEF AcceptanceInv, AcceptanceTypeOK, Links
<1>3. attempt' = [attempt EXCEPT ![a] = row]  BY <1>1, <1>2
<1>4. Writes(a, row)  BY <1>1, <1>2, <1>3 DEF Writes
<1>5. Carries(row, row)  BY DEF Carries
<1>6. Delivered(e, row)  BY <1>1, <1>4, <1>5 DEF Delivered
<1>7. QED  BY <1>6

LEMMA DiscrepancyWrites ==
  ASSUME AcceptanceInv, NEW e \in sent, RecordDiscrepancy(e)
  PROVE  \E new : Delivered(e, new)
<1> DEFINE a == e.attempt
           row == attempt[a]
           new == [row EXCEPT !.discrepancy = "evidence"]
<1>1. /\ a \in Attempts /\ e.kind = "succeeded"
      /\ attempt' = [attempt EXCEPT ![a].discrepancy = "evidence"] /\ UNCHANGED <<link, balance>>
  BY EventFacts DEF RecordDiscrepancy
<1>2. /\ row \in Attempt /\ attempt \in [Attempts -> Attempt] /\ RowSound(a, row)
      /\ MoneySound(a, row.total, balance) /\ link \in Links
  BY <1>1 DEF AcceptanceInv, AcceptanceTypeOK, Links
<1>3. attempt' = [attempt EXCEPT ![a] = new]  BY <1>1, <1>2
<1>4. new \in Attempt  BY <1>2 DEF Attempt
<1>5. /\ new.receipt = row.receipt /\ new.total = row.total /\ new.returned = row.returned
      /\ new.review = row.review /\ new.marker = row.marker /\ new.consumed = row.consumed
      /\ new.status = row.status
  BY <1>2 DEF Attempt
<1> HIDE DEF new
<1>6. RowSound(a, new)  BY <1>2, <1>4, <1>5, RowKept
<1>7. Writes(a, new)  BY <1>1, <1>2, <1>3, <1>5, <1>6 DEF Writes
<1>8. Carries(row, new)  BY <1>5 DEF Carries
<1>9. Delivered(e, new)  BY <1>1, <1>5, <1>7, <1>8 DEF Delivered, KeyedReturn
<1>10. QED  BY <1>9

LEMMA DuplicateWrites ==
  ASSUME AcceptanceInv, NEW e \in sent, Duplicate(e)
  PROVE  (\E new : Delivered(e, new)) /\ UNCHANGED <<session, sent>>
<1> DEFINE a == e.attempt
           row == attempt[a]
           o == Outcome(row, balance, link)
<1>1. a \in Attempts /\ ~Claimable(row, e.kind)  BY EventFacts DEF Duplicate
<1>2. Sound(a, o) /\ attempt \in [Attempts -> Attempt] /\ o.row = row  BY <1>1, BeforeSound DEF Outcome
<1>3. PICK p \in IF e.kind = "succeeded" THEN Replayed(o) ELSE {o} : Leave(a, p)  BY DEF Duplicate
<1> HIDE DEF o
<1>4. Sound(a, p) /\ Kept(row, p.row)
  <2>1. CASE e.kind = "succeeded"  BY <1>1, <1>2, <1>3, <2>1, ReplayedSound
  <2>2. CASE e.kind # "succeeded"
    <3>1. p = o  BY <1>3, <2>2
    <3>2. QED  BY <1>2, <3>1 DEF Kept
  <2>3. QED  BY <2>1, <2>2
<1>5. Writes(a, p.row) /\ UNCHANGED <<session, sent>>  BY <1>3, <1>4, LeaveWrites
<1>6. e.kind = "returned" => row.status \notin Settling  BY <1>1 DEF Claimable, Settling
<1>7. Carries(row, p.row) /\ p.row.status \in Settling \cup {row.status}
  BY <1>4, KeptCarries DEF Kept, Settling
<1>8. Delivered(e, p.row)  BY <1>5, <1>6, <1>7 DEF Delivered, KeyedReturn
<1>9. QED  BY <1>5, <1>8

LEMMA SettleWrites ==
  ASSUME AcceptanceInv, NEW e \in sent, Settle(e)
  PROVE  (\E new : Delivered(e, new)) /\ UNCHANGED <<session, sent>>
<1> DEFINE a == e.attempt
           row == attempt[a]
           claimed == Claim(row, e.kind)
           b == Outcome(claimed, balance, link)
<1>1. a \in Attempts /\ e.kind = "succeeded" /\ e.kind \in Kinds  BY EventFacts DEF Settle, Settles
<1>2. /\ Sound(a, b) /\ attempt \in [Attempts -> Attempt] /\ b.row = claimed
      /\ claimed.status = "succeeded" /\ claimed.review = row.review /\ claimed.marker = row.marker
      /\ claimed.consumed = row.consumed
  BY <1>1, BeforeSound DEF Outcome, RowStatus
<1>3. Before(e) = b  BY DEF Before
<1> HIDE DEF b, claimed
<1>4. PICK o \in Settled(b) : \E p \in IF Exceeds(balance) THEN {o} ELSE Replayed(o) : Leave(a, p)
  BY <1>3 DEF Settle
<1>5. PICK p \in IF Exceeds(balance) THEN {o} ELSE Replayed(o) : Leave(a, p)  BY <1>4
<1>6. Sound(a, o) /\ Kept(claimed, o.row)  BY <1>1, <1>2, <1>4, SettledSound
<1>7. Sound(a, p) /\ Kept(o.row, p.row)
  <2>1. CASE p = o  BY <1>6, <2>1 DEF Kept
  <2>2. CASE p \in Replayed(o)  BY <1>1, <1>2, <1>6, <2>2, ReplayedSound
  <2>3. QED  BY <1>5, <2>1, <2>2
<1>8. Kept(claimed, p.row)  BY <1>6, <1>7, KeptTwice
<1>9. Carries(row, p.row) /\ p.row.status \in Settling  BY <1>2, <1>8 DEF Carries, Kept, Settling
<1>10. Writes(a, p.row) /\ UNCHANGED <<session, sent>>  BY <1>5, <1>7, LeaveWrites
<1>11. Delivered(e, p.row)  BY <1>1, <1>9, <1>10 DEF Delivered, KeyedReturn
<1>12. QED  BY <1>10, <1>11

LEMMA ApplyWrites ==
  ASSUME AcceptanceInv, NEW e \in sent, ApplyReturn(e)
  PROVE  (\E new : Delivered(e, new)) /\ UNCHANGED <<session, sent>>
<1> DEFINE a == e.attempt
           row == attempt[a]
           claimed == Claim(row, e.kind)
           b == Outcome(claimed, balance, link)
<1>1. a \in Attempts /\ e.kind = "returned" /\ e.kind \in Kinds /\ e.ret \in Returns /\ Raised(a, e.ret)
  BY EventFacts DEF ApplyReturn
<1>2. /\ Sound(a, b) /\ attempt \in [Attempts -> Attempt] /\ b.row = claimed
      /\ claimed.status = "refunded" /\ claimed.review = row.review /\ claimed.marker = row.marker
      /\ claimed.consumed = row.consumed
  BY <1>1, BeforeSound DEF Outcome, RowStatus
<1>3. Before(e) = b  BY DEF Before
<1> HIDE DEF b, claimed
<1>4. PICK o \in Returned(b, e.ret) : Leave(a, [o EXCEPT !.row.consumed = @ \/ o.row.marker # 0])
  BY <1>3 DEF ApplyReturn
<1>5. Sound(a, o) /\ Kept(claimed, o.row) /\ o.row.review[e.ret] # "none"
  BY <1>1, <1>2, <1>4, ReturnedSound
<1>6. PICK x \in BOOLEAN : Leave(a, [o EXCEPT !.row.consumed = x])
  <2>1. (o.row.consumed \/ o.row.marker # 0) \in BOOLEAN  OBVIOUS
  <2>2. Leave(a, [o EXCEPT !.row.consumed = (o.row.consumed \/ o.row.marker # 0)])  BY <1>4
  <2>3. QED  BY <2>1, <2>2, Zenon
<1> DEFINE new == [o.row EXCEPT !.consumed = x]
           p == Outcome(new, o.due, o.lnk)
<1>7. /\ o.row \in Attempt /\ o.lnk \in Links /\ RowSound(a, o.row) /\ MoneySound(a, o.row.total, o.due)
      /\ o = Outcome(o.row, o.due, o.lnk)
  BY <1>5 DEF Sound, RowSound
<1>8. Leave(a, p)
  <2>1. [o EXCEPT !.row.consumed = x] = p  BY <1>7, ConsumedIn, Zenon
  <2>2. QED  BY <1>6, <2>1
<1>9. new \in Attempt  BY <1>7 DEF Attempt
<1>10. /\ new.receipt = o.row.receipt /\ new.total = o.row.total /\ new.returned = o.row.returned
       /\ new.review = o.row.review /\ new.marker = o.row.marker /\ new.status = o.row.status
  BY <1>7 DEF Attempt
<1> HIDE DEF new
<1>11. RowSound(a, new)  BY <1>7, <1>9, <1>10, RowKept
<1>12. Sound(a, p) /\ p.row = new  BY <1>7, <1>10, <1>11 DEF Sound, Outcome
<1>13. Writes(a, new) /\ UNCHANGED <<session, sent>>  BY <1>8, <1>12, LeaveWrites
<1>14. Carries(row, new) /\ new.review[e.ret] # "none" /\ new.status \in Settling
  BY <1>1, <1>2, <1>5, <1>10 DEF Carries, Kept, Settling
<1>15. Delivered(e, new)  BY <1>13, <1>14 DEF Delivered
<1>16. QED  BY <1>13, <1>15

LEMMA ProgressWrites ==
  ASSUME AcceptanceInv, NEW e \in sent, Progress(e)
  PROVE  (\E new : Delivered(e, new)) /\ UNCHANGED <<session, sent>>
<1> DEFINE a == e.attempt
           row == attempt[a]
           claimed == Claim(row, e.kind)
           b == Outcome(claimed, balance, link)
<1>1. a \in Attempts /\ e.kind \in {"processing", "failed", "cancelled"} /\ e.kind \in Kinds
  BY EventFacts DEF Progress
<1>2. /\ Sound(a, b) /\ b.row = claimed /\ claimed.status = RowStatus(e.kind)
      /\ claimed.review = row.review /\ claimed.marker = row.marker /\ claimed.consumed = row.consumed
  BY <1>1, BeforeSound DEF Outcome
<1>3. Leave(a, b)  BY DEF Before, Progress
<1> HIDE DEF b, claimed
<1>4. Writes(a, claimed) /\ UNCHANGED <<session, sent>>  BY <1>2, <1>3, LeaveWrites
<1>5. Carries(row, claimed)  BY <1>2 DEF Carries
<1>6. claimed.status \in Settling \/ (e.kind \in {"failed", "cancelled"} /\ claimed.status = e.kind)
  BY <1>1, <1>2 DEF RowStatus, Settling
<1>7. Delivered(e, claimed)  BY <1>1, <1>4, <1>5, <1>6 DEF Delivered, KeyedReturn
<1>8. QED  BY <1>4, <1>7

LEMMA DeliverWrites ==
  ASSUME AcceptanceInv, NEW e \in sent, Deliver(e)
  PROVE  /\ \E new : Delivered(e, new)
         /\ UNCHANGED <<session, sent>> /\ acked \subseteq acked' /\ acked' \subseteq acked \cup {e}
         /\ EventsGrow
<1>1. (\E new : Delivered(e, new)) /\ UNCHANGED <<session, sent>>
  <2>1. CASE ParkReturn(e)  BY <2>1, ParkWrites DEF ParkReturn
  <2>2. CASE RecordDiscrepancy(e)  BY <2>2, DiscrepancyWrites DEF RecordDiscrepancy
  <2>3. CASE DropReturn(e)  BY <2>3, DropWrites DEF DropReturn
  <2>4. QED
    BY <2>1, <2>2, <2>3, DuplicateWrites, SettleWrites, ApplyWrites, ProgressWrites DEF Deliver
<1>2. acked \subseteq acked' /\ acked' \subseteq acked \cup {e}
  <2>1. CASE Ack(e)  BY <2>1 DEF Ack
  <2>2. CASE acked' = acked  BY <2>2
  <2>3. CASE acked' = acked \cup {e}  BY <2>3
  <2>4. QED
    BY <2>1, <2>2, <2>3 DEF Deliver, ParkReturn, DropReturn, RecordDiscrepancy, Duplicate, Settle, ApplyReturn, Progress
<1>3. acked' \subseteq sent  BY <1>2 DEF AcceptanceInv, AcceptanceTypeOK
<1>4. QED  BY <1>1, <1>2, <1>3, QuietGrows

(* The steps that change a row without an event *)
RowAction(a) ==
  \/ CreateCheckout(a) \/ DecideReceipt(a) \/ PostReceipt(a) \/ ExpireStaleSession(a)
  \/ Effect(a) \/ CrashEffect(a) \/ \E r \in Returns : ApproveReview(a, r)

LEMMA SmallWrites ==
  ASSUME AcceptanceInv, NEW a \in Attempts, NEW new \in Attempt, attempt' = [attempt EXCEPT ![a] = new],
         UNCHANGED balance, link' \in Links,
         new.receipt = "posted" <=> attempt[a].receipt = "posted", new.total = attempt[a].total,
         new.returned = attempt[a].returned, new.review = attempt[a].review,
         new.marker = attempt[a].marker, new.consumed = attempt[a].consumed
  PROVE  Writes(a, new) /\ Carries(attempt[a], new)
<1>1. attempt[a] \in Attempt /\ RowSound(a, attempt[a]) /\ MoneySound(a, attempt[a].total, balance)
  BY DEF AcceptanceInv, AcceptanceTypeOK
<1>2. RowSound(a, new)  BY <1>1, RowKept
<1>3. QED  BY <1>1, <1>2 DEF Writes, Carries

LEMMA CloseWrites ==
  ASSUME AcceptanceInv, NEW a \in Attempts, Effect(a) \/ CrashEffect(a)
  PROVE  \E new : /\ Writes(a, new) /\ Carries(attempt[a], new)
                  /\ new.status \in {attempt[a].status, "succeeded"}
<1> DEFINE row == attempt[a]
<1>1. row \in Attempt /\ attempt \in [Attempts -> Attempt] /\ link \in Links
  BY DEF AcceptanceInv, AcceptanceTypeOK, Links
<1>2. PICK status \in {row.status, "succeeded"}, journal \in {row.journal, TRUE},
           closing \in {"none", "owed", "link", "audit"} :
        attempt' = [attempt EXCEPT ![a] = [row EXCEPT !.status = status, !.journal = journal, !.closing = closing]]
  <2>2. CASE CloseAttempt(a)
    <3>1. CASE row.journal \/ row.receipt # "posted"
      <4>1. attempt' = [attempt EXCEPT ![a] = [row EXCEPT !.closing = "none"]]
        BY <2>2, <3>1 DEF CloseAttempt
      <4>2. [row EXCEPT !.closing = "none"]
              = [row EXCEPT !.status = row.status, !.journal = row.journal, !.closing = "none"]
        BY <1>1 DEF Attempt
      <4>3. QED  BY <4>1, <4>2
    <3>2. CASE ~(row.journal \/ row.receipt # "posted")
      <4>1. PICK closing \in {"link", "audit"} :
              attempt' = [attempt EXCEPT ![a] =
                            [row EXCEPT !.status = "succeeded", !.journal = TRUE, !.closing = closing]]
        BY <2>2, <3>2 DEF CloseAttempt
      <4>2. QED  BY <4>1
    <3>3. QED  BY <3>1, <3>2
  <2>3. ASSUME NEW closing \in {"none", "owed", "link", "audit"}, attempt' = [attempt EXCEPT ![a].closing = closing]
        PROVE  attempt' = [attempt EXCEPT ![a] =
                 [row EXCEPT !.status = row.status, !.journal = row.journal, !.closing = closing]]
    <3>1. [row EXCEPT !.closing = closing]
              = [row EXCEPT !.status = row.status, !.journal = row.journal, !.closing = closing]
      BY <1>1 DEF Attempt
    <3>2. attempt' = [attempt EXCEPT ![a] = [row EXCEPT !.closing = closing]]  BY <2>3
    <3>3. QED  BY <3>1, <3>2
  <2>4. CASE PayLink(a) \/ AuditClose(a) \/ CrashEffect(a)
    BY <2>3, <2>4 DEF PayLink, AuditClose, CrashEffect
  <2>5. QED  BY <2>2, <2>4 DEF Effect
<1> DEFINE new == [row EXCEPT !.status = status, !.journal = journal, !.closing = closing]
<1>3. journal \in BOOLEAN  BY <1>1, <1>2 DEF Attempt
<1>4. new \in Attempt  BY <1>1, <1>2, <1>3 DEF Attempt
<1>5. /\ new.receipt = row.receipt /\ new.total = row.total /\ new.returned = row.returned
      /\ new.review = row.review /\ new.marker = row.marker /\ new.consumed = row.consumed
      /\ new.status = status
  BY <1>1 DEF Attempt
<1>6. UNCHANGED balance /\ link' \in Links
  BY <1>1 DEF Effect, CloseAttempt, PayLink, AuditClose, CrashEffect, Links
<1>7. attempt' = [attempt EXCEPT ![a] = new]  BY <1>2
<1> HIDE DEF new
<1>8. Writes(a, new) /\ Carries(row, new)  BY <1>4, <1>5, <1>6, <1>7, SmallWrites
<1>9. QED  BY <1>2, <1>5, <1>8

LEMMA PostReceiptWrites ==
  ASSUME AcceptanceInv, NEW a \in Attempts, PostReceipt(a)
  PROVE  \E new : Writes(a, new) /\ Carries(attempt[a], new) /\ new.status = attempt[a].status
<1> USE AcceptanceAssumption
<1> DEFINE row == attempt[a]
           new == [row EXCEPT !.receipt = "posted", !.total = Quote, !.closing = "owed"]
<1>1. /\ row \in Attempt /\ attempt \in [Attempts -> Attempt] /\ link \in Links /\ balance \in 0..Quote
      /\ RowSound(a, row) /\ MoneySound(a, row.total, balance)
  BY DEF AcceptanceInv, AcceptanceTypeOK, Links
<1>2. /\ balance >= Quote /\ balance' = balance - Quote /\ UNCHANGED link
      /\ attempt' = [attempt EXCEPT ![a] = new]
  BY <1>1 DEF PostReceipt
<1>3. balance = Quote /\ balance' = 0 /\ Quote \in 0..Quote  BY <1>1, <1>2
<1>4. new \in Attempt  BY <1>1, <1>3 DEF Attempt
<1>5. /\ new.receipt = "posted" /\ new.total = Quote /\ new.returned = row.returned
      /\ new.review = row.review /\ new.marker = row.marker /\ new.consumed = row.consumed
      /\ new.status = row.status
  BY <1>1 DEF Attempt
<1> HIDE DEF new
<1>6. PostedReturns(new) = PostedReturns(row)  BY <1>5 DEF PostedReturns
<1>7. RowSound(a, new)  BY <1>1, <1>4, <1>5, <1>6 DEF RowSound
<1>8. \A b \in Attempts : attempt[b].total \in 0..Quote  BY <1>1 DEF Attempt
<1>9. MoneySound(a, Quote, 0)  BY <1>1, <1>3, <1>8 DEF MoneySound
<1>10. Writes(a, new)  BY <1>1, <1>2, <1>3, <1>5, <1>7, <1>9 DEF Writes
<1>11. Carries(row, new)  BY <1>5 DEF Carries
<1>12. QED  BY <1>5, <1>10, <1>11

LEMMA ReviewWrites ==
  ASSUME AcceptanceInv, NEW a \in Attempts, NEW r \in Returns, ApproveReview(a, r)
  PROVE  \E new : /\ Writes(a, new) /\ Carries(attempt[a], new)
                  /\ new.status \in {attempt[a].status, "succeeded", "refunded"}
<1> DEFINE row == attempt[a]
           b == Outcome(row, balance, link)
<1>1. Sound(a, b) /\ attempt \in [Attempts -> Attempt] /\ b.row = row  BY BeforeSound DEF Outcome
<1>2. Raised(a, r)
  <2>1. row.review[r] # "none"  BY DEF ApproveReview
  <2>2. QED  BY <2>1 DEF AcceptanceInv, RowSound
<1>3. PICK o \in Returned(b, r) : Leave(a, o)  BY DEF ApproveReview
<1> HIDE DEF b
<1>4. Sound(a, o) /\ Kept(row, o.row)  BY <1>1, <1>2, <1>3, ReturnedSound
<1>5. Writes(a, o.row)  BY <1>3, <1>4, LeaveWrites
<1>6. Carries(row, o.row) /\ o.row.status \in {row.status, "succeeded", "refunded"}
  BY <1>4, KeptCarries DEF Kept
<1>7. QED  BY <1>5, <1>6

LEMMA StatusWrites ==
  ASSUME AcceptanceInv, NEW a \in Attempts, CreateCheckout(a) \/ ExpireStaleSession(a)
  PROVE  \E new : /\ Writes(a, new) /\ Carries(attempt[a], new)
                  /\ CreateCheckout(a) => new.status = "initiated"
                  /\ ~CreateCheckout(a) => new.status = "cancelled"
<1> DEFINE row == attempt[a]
<1>1. row \in Attempt /\ attempt \in [Attempts -> Attempt] /\ link \in Links
  BY DEF AcceptanceInv, AcceptanceTypeOK, Links
<1>2. PICK status \in {"initiated", "cancelled"} :
        /\ attempt' = [attempt EXCEPT ![a].status = status]
        /\ CreateCheckout(a) => status = "initiated"
        /\ ~CreateCheckout(a) => status = "cancelled"
  BY DEF CreateCheckout, ExpireStaleSession
<1> DEFINE new == [row EXCEPT !.status = status]
<1>3. new \in Attempt  BY <1>1, <1>2 DEF Attempt
<1>4. /\ new.receipt = row.receipt /\ new.total = row.total /\ new.returned = row.returned
      /\ new.review = row.review /\ new.marker = row.marker /\ new.consumed = row.consumed
      /\ new.status = status
  BY <1>1 DEF Attempt
<1>5. UNCHANGED <<balance, link>>  BY DEF CreateCheckout, ExpireStaleSession
<1>6. attempt' = [attempt EXCEPT ![a] = new]  BY <1>1, <1>2
<1> HIDE DEF new
<1>7. Writes(a, new) /\ Carries(row, new)  BY <1>1, <1>3, <1>4, <1>5, <1>6, SmallWrites
<1>8. QED  BY <1>2, <1>4, <1>7

LEMMA DecideWrites ==
  ASSUME AcceptanceInv, NEW a \in Attempts, DecideReceipt(a)
  PROVE  \E new : Writes(a, new) /\ Carries(attempt[a], new) /\ new.status = attempt[a].status
<1> DEFINE row == attempt[a]
<1>1. row \in Attempt /\ attempt \in [Attempts -> Attempt] /\ link \in Links
  BY DEF AcceptanceInv, AcceptanceTypeOK, Links
<1>2. PICK d \in {"approved", "rejected"} : attempt' = [attempt EXCEPT ![a].receipt = d]
  BY DEF DecideReceipt
<1> DEFINE new == [row EXCEPT !.receipt = d]
<1>3. new \in Attempt  BY <1>1, <1>2 DEF Attempt
<1>4. /\ new.receipt = d /\ new.total = row.total /\ new.returned = row.returned
      /\ new.review = row.review /\ new.marker = row.marker /\ new.consumed = row.consumed
      /\ new.status = row.status
  BY <1>1 DEF Attempt
<1>5. UNCHANGED <<balance, link>> /\ row.receipt = "pending"  BY DEF DecideReceipt
<1>6. attempt' = [attempt EXCEPT ![a] = new]  BY <1>1, <1>2
<1> HIDE DEF new
<1>7. Writes(a, new) /\ Carries(row, new)  BY <1>1, <1>2, <1>3, <1>4, <1>5, <1>6, SmallWrites
<1>8. QED  BY <1>4, <1>7

LEMMA RowActionWrites ==
  ASSUME AcceptanceInv, NEW a \in Attempts, RowAction(a)
  PROVE  /\ \E new : /\ Writes(a, new) /\ Carries(attempt[a], new)
                     /\ \/ new.status \in Settling \cup {attempt[a].status}
                        \/ new.status = "cancelled" /\ session'[a] = "ended"
         /\ EventsGrow /\ session' \in Sessions /\ UNCHANGED acked
         /\ \A b \in Attempts \ {a} : session'[b] = session[b]
         /\ \/ UNCHANGED <<session, sent>>
            \/ /\ attempt[a].status = "none" /\ session'[a] = "open" /\ UNCHANGED sent
               /\ attempt'[a].status = "initiated"
            \/ /\ session[a] = "open" /\ session'[a] = "ended"
               /\ \E e : sent' = sent \cup {e} /\ e.attempt = a /\ e.kind = "cancelled"
<1>1. session \in Sessions /\ attempt \in [Attempts -> Attempt] /\ attempt[a] \in Attempt
  BY DEF AcceptanceInv, AcceptanceTypeOK, Sessions
<1>2. CASE CreateCheckout(a)
  <2>1. PICK new : Writes(a, new) /\ Carries(attempt[a], new) /\ new.status = "initiated"
    BY <1>2, StatusWrites
  <2>2. /\ session' = [session EXCEPT ![a] = "open"] /\ UNCHANGED <<sent, acked>>
        /\ attempt[a].status = "none"
    BY <1>2 DEF CreateCheckout
  <2>3. EventsGrow
    <3>1. acked' \subseteq sent  BY <2>2 DEF AcceptanceInv, AcceptanceTypeOK
    <3>2. QED  BY <2>2, <3>1, QuietGrows
  <2>4. session' \in Sessions /\ session'[a] = "open" /\ \A b \in Attempts \ {a} : session'[b] = session[b]
    BY <1>1, <2>2 DEF Sessions
  <2>5. attempt'[a].status = "initiated"  BY <1>1, <2>1 DEF Writes
  <2>6. QED  BY <2>1, <2>2, <2>3, <2>4, <2>5 DEF Settling
<1>3. CASE ExpireStaleSession(a) /\ ~CreateCheckout(a)
  <2>1. PICK new : Writes(a, new) /\ Carries(attempt[a], new) /\ new.status = "cancelled"
    BY <1>3, StatusWrites
  <2>2. /\ session' = [session EXCEPT ![a] = "ended"] /\ UNCHANGED acked /\ session[a] = "open"
        /\ Raise(Plain(a, "cancelled"))
    BY <1>3 DEF ExpireStaleSession
  <2>3. EventsGrow  BY <2>2, PlainIsEvent, RaiseGrows DEF Kinds
  <2>4. session' \in Sessions /\ session'[a] = "ended" /\ \A b \in Attempts \ {a} : session'[b] = session[b]
    BY <1>1, <2>2 DEF Sessions
  <2>5. \E e : sent' = sent \cup {e} /\ e.attempt = a /\ e.kind = "cancelled"
    BY <2>2, PlainIsEvent DEF Raise, Kinds
  <2>6. QED  BY <2>1, <2>2, <2>3, <2>4, <2>5
<1>4. CASE DecideReceipt(a) \/ PostReceipt(a) \/ Effect(a) \/ CrashEffect(a) \/ \E r \in Returns : ApproveReview(a, r)
  <2>1. UNCHANGED <<session, sent, acked>>
    BY <1>4 DEF DecideReceipt, PostReceipt, Effect, CloseAttempt, PayLink, AuditClose, CrashEffect,
       ApproveReview, Leave
  <2>2. \E new : /\ Writes(a, new) /\ Carries(attempt[a], new)
                 /\ new.status \in Settling \cup {attempt[a].status}
    BY <1>4, DecideWrites, PostReceiptWrites, CloseWrites, ReviewWrites DEF Settling
  <2>3. acked' \subseteq sent  BY <2>1 DEF AcceptanceInv, AcceptanceTypeOK
  <2>4. EventsGrow  BY <2>1, <2>3, QuietGrows
  <2>5. QED  BY <1>1, <2>1, <2>2, <2>4
<1>5. QED  BY <1>2, <1>3, <1>4 DEF RowAction

LEMMA ProviderReads ==
  ASSUME AcceptanceInv, NEW a \in Attempts, Provider(a)
  PROVE  /\ EventsGrow /\ session' \in Sessions /\ UNCHANGED <<link, balance, attempt, acked>>
         /\ \A b \in Attempts \ {a} : session'[b] = session[b]
         /\ \E e : /\ sent' = sent \cup {e} /\ e.attempt = a
                   /\ \/ /\ session[a] \in {"open", "processing"} /\ session'[a] = "paid"
                         /\ e.kind = "succeeded"
                      \/ session[a] = "open" /\ session'[a] = "processing" /\ e.kind = "processing"
                      \/ /\ session[a] \in {"open", "processing"} /\ session'[a] = "ended"
                         /\ e.kind \in {"failed", "cancelled"}
                      \/ session[a] = "paid" /\ session'[a] = "paid" /\ e.kind = "returned"
<1>1. session \in Sessions  BY DEF AcceptanceInv, AcceptanceTypeOK, Sessions
<1>2. ASSUME NEW state \in {"processing", "paid", "ended"}, session' = [session EXCEPT ![a] = state]
      PROVE  /\ session' \in Sessions /\ session'[a] = state
             /\ \A b \in Attempts \ {a} : session'[b] = session[b]
  BY <1>1, <1>2 DEF Sessions
<1>3. CASE Pay(a)
  <2>1. PICK exact \in BOOLEAN : Raise([Plain(a, "succeeded") EXCEPT !.exact = exact])  BY <1>3 DEF Pay
  <2>2. PICK e \in Event : Raise(e) /\ e.kind = "succeeded" /\ e.ret = 0 /\ e.attempt = a
    BY <2>1, PaidIsEvent
  <2>3. UNCHANGED <<link, balance, attempt, acked>> /\ session[a] \in {"open", "processing"}
        /\ session' = [session EXCEPT ![a] = "paid"]
    BY <1>3 DEF Pay
  <2>4. EventsGrow  BY <2>2, <2>3, RaiseGrows
  <2>5. QED  BY <1>2, <2>2, <2>3, <2>4 DEF Raise
<1>4. CASE Debit(a)
  <2>1. /\ UNCHANGED <<link, balance, attempt, acked>> /\ session[a] = "open"
        /\ session' = [session EXCEPT ![a] = "processing"] /\ Raise(Plain(a, "processing"))
    BY <1>4 DEF Debit
  <2>2. PICK e \in Event : Raise(e) /\ e.kind = "processing" /\ e.ret = 0 /\ e.attempt = a
    BY <2>1, PlainIsEvent DEF Kinds
  <2>3. EventsGrow  BY <2>1, <2>2, RaiseGrows
  <2>4. QED  BY <1>2, <2>1, <2>2, <2>3 DEF Raise
<1>5. CASE FailDebit(a) \/ ExpireSession(a)
  <2>1. PICK kind \in {"failed", "cancelled"} :
        /\ UNCHANGED <<link, balance, attempt, acked>> /\ session[a] \in {"open", "processing"}
        /\ session' = [session EXCEPT ![a] = "ended"] /\ Raise(Plain(a, kind))
    BY <1>5 DEF FailDebit, ExpireSession
  <2>2. PICK e \in Event : Raise(e) /\ e.kind = kind /\ e.ret = 0 /\ e.attempt = a
    BY <2>1, PlainIsEvent DEF Kinds
  <2>3. EventsGrow  BY <2>1, <2>2, RaiseGrows
  <2>4. QED  BY <1>2, <2>1, <2>2, <2>3 DEF Raise
<1>6. ASSUME NEW r \in Returns, ReturnPayment(a, r)
      PROVE  /\ EventsGrow /\ UNCHANGED <<link, balance, attempt, acked, session>> /\ session[a] = "paid"
             /\ \E e : sent' = sent \cup {e} /\ e.attempt = a /\ e.kind = "returned"
  <2>1. PICK named \in BOOLEAN, keyed \in BOOLEAN :
             Raise(ReturnOf(a, r, named, keyed))
    BY <1>6 DEF ReturnPayment
  <2> DEFINE e == ReturnOf(a, r, named, keyed)
  <2>2. e \in Event /\ e.kind = "returned" /\ e.ret # 0 /\ e.attempt = a  BY ReturnIsEvent
  <2>3. Raise(e)  BY <2>1
  <2> HIDE DEF e
  <2>4. UNCHANGED <<link, balance, attempt, acked, session>> /\ session[a] = "paid"
    BY <1>6 DEF ReturnPayment
  <2>5. EventsGrow  BY <2>2, <2>3, <2>4, RaiseGrows
  <2>6. QED  BY <2>2, <2>3, <2>4, <2>5 DEF Raise
<1>7. CASE \E r \in Returns : ReturnPayment(a, r)
  <2>1. /\ EventsGrow /\ UNCHANGED <<link, balance, attempt, acked, session>> /\ session[a] = "paid"
        /\ \E e : sent' = sent \cup {e} /\ e.attempt = a /\ e.kind = "returned"
    BY <1>6, <1>7
  <2>2. QED  BY <1>1, <2>1
<1>8. QED  BY <1>3, <1>4, <1>5, <1>7 DEF Provider

(* The link closes, or the invoice is paid through another channel. *)
OtherAction == CloseLink \/ \E n \in 1..Quote : PayElsewhere(n)

LEMMA OtherReads ==
  ASSUME AcceptanceInv, OtherAction
  PROVE  /\ UNCHANGED <<attempt, session, sent, acked>> /\ balance' \in 0..balance /\ link' \in Links
         /\ EventsGrow /\ session' \in Sessions
<1>1. /\ link \in Links /\ balance \in 0..Quote /\ session \in Sessions /\ acked \subseteq sent
      /\ Quote \in Nat
  BY AcceptanceAssumption DEF AcceptanceInv, AcceptanceTypeOK, Links, Sessions
<1>2. UNCHANGED <<attempt, session, sent, acked>>  BY DEF OtherAction, CloseLink, PayElsewhere
<1>3. link' \in Links  BY <1>1 DEF OtherAction, CloseLink, PayElsewhere, Links
<1>4. balance' \in 0..balance
  <2>1. CASE CloseLink  BY <1>1, <2>1 DEF CloseLink
  <2>2. ASSUME NEW n \in 1..Quote, PayElsewhere(n) PROVE balance' \in 0..balance
    BY <1>1, <2>2 DEF PayElsewhere
  <2>3. QED  BY <2>1, <2>2 DEF OtherAction
<1>5. EventsGrow  BY <1>1, <1>2, QuietGrows
<1>6. QED  BY <1>1, <1>2, <1>3, <1>4, <1>5

LEMMA AcceptanceSplit ==
  ASSUME AcceptanceInv, AcceptanceNext
  PROVE  \/ OtherAction
         \/ \E a \in Attempts : Provider(a) \/ RowAction(a)
         \/ \E e \in sent : Deliver(e)
BY DEF AcceptanceNext, OtherAction, RowAction

LEMMA AcceptanceStep == AcceptanceInv /\ [AcceptanceNext]_acceptanceVars => AcceptanceInv'
<1> SUFFICES ASSUME AcceptanceInv, [AcceptanceNext]_acceptanceVars PROVE AcceptanceInv'
  OBVIOUS
<1>1. link \in Links /\ balance \in 0..balance /\ session \in Sessions
  BY AcceptanceAssumption DEF AcceptanceInv, AcceptanceTypeOK, Links, Sessions
<1>2. CASE OtherAction  BY <1>2, OtherReads, StillStep
<1>3. ASSUME NEW a \in Attempts, Provider(a) PROVE AcceptanceInv'
  BY <1>1, <1>3, ProviderReads, StillStep
<1>4. ASSUME NEW a \in Attempts, RowAction(a) PROVE AcceptanceInv'
  <2>1. PICK new : Writes(a, new)  BY <1>4, RowActionWrites
  <2>2. EventsGrow /\ session' \in Sessions  BY <1>4, RowActionWrites
  <2>3. QED  BY <2>1, <2>2, RowStep DEF Writes
<1>5. ASSUME NEW e \in sent, Deliver(e) PROVE AcceptanceInv'
  <2>1. PICK new : Delivered(e, new)  BY <1>5, DeliverWrites
  <2>2. EventsGrow /\ session' \in Sessions  BY <1>1, <1>5, DeliverWrites
  <2>3. e.attempt \in Attempts  BY EventFacts
  <2>4. QED  BY <2>1, <2>2, <2>3, RowStep DEF Delivered, Writes
<1>6. CASE UNCHANGED acceptanceVars
  <2>1. UNCHANGED <<link, balance, attempt, session, sent, acked>>  BY <1>6 DEF acceptanceVars
  <2>2. EventsGrow
    <3>1. acked' \subseteq sent  BY <2>1 DEF AcceptanceInv, AcceptanceTypeOK
    <3>2. QED  BY <2>1, <3>1, QuietGrows
  <2>3. QED  BY <1>1, <2>1, <2>2, StillStep
<1>7. QED  BY <1>2, <1>3, <1>4, <1>5, <1>6, AcceptanceSplit

LEMMA AcceptanceStart == AcceptanceInit => AcceptanceInv
<1> SUFFICES ASSUME AcceptanceInit PROVE AcceptanceInv
  OBVIOUS
<1> USE AcceptanceAssumption
<1> DEFINE row == [status |-> "none", journal |-> FALSE, intent |-> FALSE, receipt |-> "none", total |-> 0,
                   discrepancy |-> "none", marker |-> 0, consumed |-> FALSE,
                   review |-> [r \in Returns |-> "none"], returned |-> 0, closing |-> "none"]
<1>1. attempt = [a \in Attempts |-> row]  BY DEF AcceptanceInit
<1>2. 0 \in 0..Quote /\ 0 \in 0..MaxReturns /\ 0 \in Nat
      /\ [r \in Returns |-> "none"] \in [Returns -> {"none", "pending", "posted"}]
  OBVIOUS
<1>3. row \in Attempt  BY <1>2, Zenon DEF Attempt
<1>4. row.total = 0 /\ row.receipt = "none" /\ row.returned = 0 /\ row.marker = 0
      /\ \A r \in Returns : row.review[r] = "none"
  OBVIOUS
<1> HIDE DEF row
<1>5. PostedReturns(row) = {} /\ Cardinality(PostedReturns(row)) = 0
  <2>1. PostedReturns(row) = {}  BY <1>4 DEF PostedReturns
  <2>2. QED  BY <2>1, FS_EmptySet
<1>6. \A a \in Attempts : RowSound(a, row)  BY <1>3, <1>4, <1>5 DEF RowSound
<1>7. balance = Quote /\ sent = {} /\ acked = {} /\ IsFiniteSet({})  BY FS_EmptySet DEF AcceptanceInit
<1>8. \A a \in Attempts : MoneySound(a, row.total, balance)  BY <1>1, <1>4, <1>7 DEF MoneySound
<1>9. AcceptanceTypeOK
  <2>1. attempt \in [Attempts -> Attempt]  BY <1>1, <1>3
  <2>2. session \in [Attempts -> {"none", "open", "processing", "paid", "ended"}]  BY DEF AcceptanceInit
  <2>3. link = "active" /\ balance \in 0..Quote  BY <1>7 DEF AcceptanceInit
  <2>4. QED  BY <1>7, <2>1, <2>2, <2>3 DEF AcceptanceTypeOK
<1>10. QED  BY <1>1, <1>6, <1>7, <1>8, <1>9 DEF AcceptanceInv

(* Every row, session and event has its type, with the open balance of the  *)
(* invoice inside 0..Quote: settleAttempt and the posting of an approved    *)
(* receipt never apply more than the invoice owes, and a return never makes *)
(* it owe more than it did.                                                 *)
THEOREM AcceptanceTypeCorrect == AcceptanceSpec => []AcceptanceTypeOK
<1>1. AcceptanceInv => AcceptanceTypeOK  BY DEF AcceptanceInv
<1>2. QED  BY <1>1, AcceptanceStart, AcceptanceStep, PTL DEF AcceptanceSpec

(* Redelivered, replayed from its parking place and approved in a review, a *)
(* return is posted once (processProviderRefundEvent, replayParkedReturn    *)
(* and approveDisputeReview): the units posted back are returns the         *)
(* provider raised, each counted once.                                      *)
THEOREM ReturnsArePostedOnce == AcceptanceSpec => []ReturnsPostOnce
<1>1. ASSUME AcceptanceInv, NEW a \in Attempts
      PROVE  attempt[a].returned <= Cardinality(ReturnEvents(a))
  <2> DEFINE Rets == {e.ret : e \in ReturnEvents(a)}
             ret == [e \in ReturnEvents(a) |-> e.ret]
             P == PostedReturns(attempt[a])
  <2>1. IsFiniteSet(ReturnEvents(a))
    <3>1. ReturnEvents(a) \in SUBSET sent  BY DEF ReturnEvents
    <3>2. QED  BY <1>1, <3>1, FS_Subset DEF AcceptanceInv
  <2>2. ret \in Surjection(ReturnEvents(a), Rets)  BY DEF Surjection
  <2>3. IsFiniteSet(Rets) /\ Cardinality(Rets) <= Cardinality(ReturnEvents(a))
    BY <2>1, <2>2, FS_Surjection
  <2>4. P \in SUBSET Rets
    BY <1>1 DEF AcceptanceInv, RowSound, PostedReturns, Raised
  <2>5. Cardinality(P) <= Cardinality(Rets)  BY <2>3, <2>4, FS_Subset
  <2>6. /\ Cardinality(P) \in Nat /\ Cardinality(Rets) \in Nat /\ Cardinality(ReturnEvents(a)) \in Nat
    BY <2>1, <2>3, PostedReturnsFinite, FS_CardinalityType
  <2>7. attempt[a].returned = Cardinality(P)  BY <1>1 DEF AcceptanceInv, RowSound
  <2> HIDE DEF P, Rets
  <2>8. QED  BY <2>3, <2>5, <2>6, <2>7
<1>2. AcceptanceInv => ReturnsPostOnce  BY <1>1 DEF ReturnsPostOnce, ReturnEvents
<1>3. QED  BY <1>2, AcceptanceStart, AcceptanceStep, PTL DEF AcceptanceSpec

-----------------------------------------------------------------------------
(* What the provider says of a session agrees with the attempt: a return    *)
(* comes for a paid session, whose attempt has not failed.                  *)
SessionInv ==
  /\ \A a \in Attempts :
       /\ session[a] \in {"open", "processing", "paid"} => attempt[a].status \in Settling
       /\ session[a] = "ended" => attempt[a].status # "none"
  /\ \A e \in sent :
       /\ e.kind \in {"failed", "cancelled"} => session[e.attempt] = "ended"
       /\ e.kind = "returned" => session[e.attempt] = "paid"

LEMMA SessionStep ==
  ASSUME AcceptanceInv, SessionInv, [AcceptanceNext]_acceptanceVars
  PROVE  SessionInv'
<1>1. /\ attempt \in [Attempts -> Attempt] /\ session \in Sessions
      /\ \A e \in sent : e.attempt \in Attempts
  BY EventFacts DEF AcceptanceInv, AcceptanceTypeOK, Sessions
<1>2. CASE OtherAction  BY <1>2, OtherReads DEF SessionInv
<1>3. ASSUME NEW a \in Attempts, Provider(a) PROVE SessionInv'
  <2>1. UNCHANGED attempt /\ \A b \in Attempts \ {a} : session'[b] = session[b]
    BY <1>3, ProviderReads
  <2>2. PICK e : /\ sent' = sent \cup {e} /\ e.attempt = a
                 /\ \/ /\ session[a] \in {"open", "processing"} /\ session'[a] = "paid"
                       /\ e.kind = "succeeded"
                    \/ session[a] = "open" /\ session'[a] = "processing" /\ e.kind = "processing"
                    \/ /\ session[a] \in {"open", "processing"} /\ session'[a] = "ended"
                       /\ e.kind \in {"failed", "cancelled"}
                    \/ session[a] = "paid" /\ session'[a] = "paid" /\ e.kind = "returned"
    BY <1>3, ProviderReads
  <2>3. ASSUME NEW b \in Attempts
        PROVE  /\ session'[b] \in {"open", "processing", "paid"} => attempt[b].status \in Settling
               /\ session'[b] = "ended" => attempt[b].status # "none"
    BY <1>1, <2>1, <2>2 DEF SessionInv, Settling
  <2>4. ASSUME NEW x \in sent
        PROVE  /\ x.kind \in {"failed", "cancelled"} => session'[x.attempt] = "ended"
               /\ x.kind = "returned" => session'[x.attempt] = "paid"
    BY <1>1, <2>1, <2>2 DEF SessionInv
  <2>5. QED  BY <2>1, <2>2, <2>3, <2>4 DEF SessionInv
<1>4. ASSUME NEW a \in Attempts, RowAction(a) PROVE SessionInv'
  <2>1. PICK new : /\ Writes(a, new)
                   /\ \/ new.status \in Settling \cup {attempt[a].status}
                      \/ new.status = "cancelled" /\ session'[a] = "ended"
    BY <1>4, RowActionWrites
  <2>2. /\ attempt'[a] = new /\ \A b \in Attempts \ {a} : attempt'[b] = attempt[b]
    BY <1>1, <2>1 DEF Writes
  <2>3. \A b \in Attempts \ {a} : session'[b] = session[b]  BY <1>4, RowActionWrites
  <2>4. CASE UNCHANGED <<session, sent>>
    BY <1>1, <2>1, <2>2, <2>4 DEF SessionInv, Settling
  <2>5. CASE /\ attempt[a].status = "none" /\ session'[a] = "open" /\ UNCHANGED sent
             /\ attempt'[a].status = "initiated"
    <3>1. session[a] \notin {"paid", "ended"}  BY <2>5 DEF SessionInv, Settling
    <3>2. QED  BY <1>1, <2>2, <2>3, <2>5, <3>1 DEF SessionInv, Settling
  <2>6. CASE /\ session[a] = "open" /\ session'[a] = "ended"
             /\ \E e : sent' = sent \cup {e} /\ e.attempt = a /\ e.kind = "cancelled"
    <3>1. PICK e : sent' = sent \cup {e} /\ e.attempt = a /\ e.kind = "cancelled"  BY <2>6
    <3>2. attempt[a].status \in Settling /\ new.status # "none"  BY <2>1, <2>6 DEF SessionInv, Settling
    <3>3. QED  BY <1>1, <2>2, <2>3, <2>6, <3>1, <3>2 DEF SessionInv
  <2>7. QED  BY <1>4, <2>4, <2>5, <2>6, RowActionWrites
<1>5. ASSUME NEW e \in sent, Deliver(e) PROVE SessionInv'
  <2>1. PICK new : Delivered(e, new)  BY <1>5, DeliverWrites
  <2>2. UNCHANGED <<session, sent>>  BY <1>5, DeliverWrites
  <2>3. /\ attempt'[e.attempt] = new /\ \A b \in Attempts \ {e.attempt} : attempt'[b] = attempt[b]
    BY <1>1, <2>1 DEF Delivered, Writes
  <2>4. \/ new.status \in Settling \cup {attempt[e.attempt].status}
        \/ e.kind \in {"failed", "cancelled"} /\ new.status = e.kind
    BY <2>1 DEF Delivered
  <2>5. QED  BY <1>1, <2>2, <2>3, <2>4 DEF SessionInv, Settling
<1>6. CASE UNCHANGED acceptanceVars  BY <1>6 DEF acceptanceVars, SessionInv
<1>7. QED  BY <1>2, <1>3, <1>4, <1>5, <1>6, AcceptanceSplit

(* A return with an intent that the provider will not send again is on its  *)
(* review row or was parked, and a marker is consumed only when a return is *)
(* on a review row.                                                         *)
KeptInv ==
  /\ \A a \in Attempts : attempt[a].consumed => \E r \in Returns : attempt[a].review[r] # "none"
  /\ \A e \in acked : KeyedReturn(e) =>
       attempt[e.attempt].review[e.ret] # "none" \/ attempt[e.attempt].marker # 0

LEMMA KeptStep ==
  ASSUME AcceptanceInv, SessionInv, KeptInv, [AcceptanceNext]_acceptanceVars
  PROVE  KeptInv'
<1>1. /\ attempt \in [Attempts -> Attempt] /\ acked \subseteq sent
      /\ \A e \in sent : e.attempt \in Attempts
      /\ \A e \in sent : e.kind = "returned" => e.ret \in Returns /\ e.ret # 0
  BY EventFacts DEF AcceptanceInv, AcceptanceTypeOK
<1>2. ASSUME UNCHANGED <<attempt, acked>> PROVE KeptInv'  BY <1>2 DEF KeptInv
<1>3. ASSUME NEW a \in Attempts, NEW new, attempt' = [attempt EXCEPT ![a] = new], Carries(attempt[a], new)
      PROVE  /\ \A b \in Attempts : attempt'[b].consumed => \E r \in Returns : attempt'[b].review[r] # "none"
             /\ \A e \in acked : KeyedReturn(e) =>
                  attempt'[e.attempt].review[e.ret] # "none" \/ attempt'[e.attempt].marker # 0
  <2>1. attempt'[a] = new /\ \A b \in Attempts \ {a} : attempt'[b] = attempt[b]  BY <1>1, <1>3
  <2>2. new.consumed => \E r \in Returns : new.review[r] # "none"
    BY <1>3 DEF KeptInv, Carries
  <2>3. ASSUME NEW e \in acked, KeyedReturn(e)
        PROVE  attempt'[e.attempt].review[e.ret] # "none" \/ attempt'[e.attempt].marker # 0
    <3>1. e.attempt \in Attempts /\ e.ret \in Returns  BY <1>1, <2>3 DEF KeyedReturn
    <3>2. attempt[e.attempt].review[e.ret] # "none" \/ attempt[e.attempt].marker # 0
      BY <2>3 DEF KeptInv
    <3>3. QED  BY <1>3, <2>1, <3>1, <3>2 DEF Carries
  <2>4. QED  BY <2>1, <2>2, <2>3 DEF KeptInv
<1>4. CASE OtherAction  BY <1>2, <1>4, OtherReads
<1>5. ASSUME NEW a \in Attempts, Provider(a) PROVE KeptInv'  BY <1>2, <1>5, ProviderReads
<1>6. ASSUME NEW a \in Attempts, RowAction(a) PROVE KeptInv'
  <2>1. PICK new : Writes(a, new) /\ Carries(attempt[a], new)  BY <1>6, RowActionWrites
  <2>2. UNCHANGED acked  BY <1>6, RowActionWrites
  <2>3. QED  BY <1>3, <2>1, <2>2 DEF KeptInv, Writes
<1>7. ASSUME NEW e \in sent, Deliver(e) PROVE KeptInv'
  <2>1. PICK new : Delivered(e, new)  BY <1>7, DeliverWrites
  <2>2. acked' \subseteq acked \cup {e}  BY <1>7, DeliverWrites
  <2>3. /\ attempt' = [attempt EXCEPT ![e.attempt] = new] /\ Carries(attempt[e.attempt], new)
        /\ e.attempt \in Attempts /\ attempt'[e.attempt] = new
    BY <1>1, <2>1 DEF Delivered, Writes
  <2>4. KeyedReturn(e) => new.review[e.ret] # "none" \/ new.marker # 0
    <3>1. KeyedReturn(e) => e.ret # 0 /\ attempt[e.attempt].status \in Settling
      BY <1>1 DEF SessionInv, KeyedReturn
    <3>2. QED  BY <1>1, <2>1, <3>1 DEF Delivered
  <2>5. QED  BY <1>3, <2>2, <2>3, <2>4 DEF KeptInv
<1>8. CASE UNCHANGED acceptanceVars  BY <1>2, <1>8 DEF acceptanceVars
<1>9. QED  BY <1>4, <1>5, <1>6, <1>7, <1>8, AcceptanceSplit

(* In whatever order the returns of a payment, its success and the events   *)
(* that teach its intent arrive, and however often: a payment with an       *)
(* acknowledged return that carries an intent (processWebhookEvent) has a   *)
(* return on a review row or parked.  A second return takes the one parking *)
(* place of its intent and can displace the first, never leave none.        *)
THEOREM ReturnedStaysKnown == AcceptanceSpec => []ReturnedIsKnown
<1> DEFINE Inv == AcceptanceInv /\ SessionInv /\ KeptInv
<1>1. AcceptanceInit => Inv
  <2> SUFFICES ASSUME AcceptanceInit PROVE Inv
    OBVIOUS
  <2>1. sent = {} /\ acked = {} /\ \A a \in Attempts : session[a] = "none" /\ ~attempt[a].consumed
    BY DEF AcceptanceInit
  <2>2. QED  BY <2>1, AcceptanceStart DEF SessionInv, KeptInv
<1>2. Inv /\ [AcceptanceNext]_acceptanceVars => Inv'  BY AcceptanceStep, SessionStep, KeptStep
<1>3. Inv => ReturnedIsKnown
  <2> SUFFICES ASSUME Inv, NEW e \in acked, KeyedReturn(e)
               PROVE  \E r \in Returns : Known(attempt[e.attempt], r)
    BY DEF ReturnedIsKnown
  <2> DEFINE row == attempt[e.attempt]
  <2>1. e \in sent /\ attempt \in [Attempts -> Attempt]  BY DEF AcceptanceInv, AcceptanceTypeOK
  <2>2. e.attempt \in Attempts /\ e.ret \in Returns  BY <2>1, EventFacts DEF KeyedReturn
  <2>3. row.marker \in 0..MaxReturns  BY <2>1, <2>2 DEF Attempt
  <2>4. row.marker # 0 => row.marker \in Returns  BY <2>3, AcceptanceAssumption DEF Returns
  <2>5. CASE row.consumed  BY <2>2, <2>5 DEF KeptInv, Known
  <2>6. CASE ~row.consumed  BY <2>2, <2>4, <2>6 DEF KeptInv, Known
  <2>7. QED  BY <2>5, <2>6
<1>4. QED  BY <1>1, <1>2, <1>3, PTL DEF AcceptanceSpec
=============================================================================
