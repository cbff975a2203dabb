------------------------ MODULE AutopayCollectionProofs ------------------------
(***************************************************************************)
(* What AutopayCollection promises for every number of invoices, runs,     *)
(* retries and methods.                                                    *)
(*                                                                         *)
(* ChargedOnce rests on two facts.  A key the provider knows is never sent *)
(* again after the provider forgot it: the age of a charge is bounded by   *)
(* the age of its attempt while that may be replayed, and then by the time *)
(* the run has waited (RowOK, RunOK).  And a position is charged only when *)
(* every earlier one failed, which means that its charge took nothing and  *)
(* never will, authentication by the customer aside (Dead).  That a failed *)
(* attempt stays failed needs the evidence a receipt rests on: whoever is  *)
(* about to post one holds a charge that took the money (Collected).       *)
(***************************************************************************)
EXTENDS AutopayCollection, FiniteSetTheorems, TLAPS

Positions == 0..MaxPosition

LEMMA AttemptKeys ==
  /\ \A i \in Invoices, p \in Positions : <<i, p>> \in Attempts
  /\ \A a \in Attempts : a = <<a[1], a[2]>> /\ a[1] \in Invoices /\ a[2] \in Positions
BY DEF Attempts, Positions

LEMMA IdleFacts == Idle \in Run /\ Idle.pc = "idle"
<1>1. <<CHOOSE i \in Invoices : TRUE, 0>> \in Attempts
  BY CollectionAssumption DEF Attempts
<1>2. 0 \in 0..Methods /\ 0 \in 0..(KeyLife - ReplayWindow)  BY CollectionAssumption
<1>3. PICK a \in Attempts : a = <<CHOOSE i \in Invoices : TRUE, 0>>  BY <1>1
<1>4. [pc |-> "idle", of |-> a, left |-> 0, answer |-> "none", wait |-> 0] \in Run
  BY <1>2 DEF Run, Phases
<1>5. QED  BY <1>3, <1>4 DEF Idle

LEMMA NoAttemptFacts ==
  /\ NoAttempt \in Attempt /\ NoAttempt.status = "absent" /\ NoAttempt.ref = FALSE
  /\ [NoAttempt EXCEPT !.status = "initiated"] \in Attempt
  /\ [NoAttempt EXCEPT !.status = "initiated"].status = "initiated"
  /\ [NoAttempt EXCEPT !.status = "initiated"].ref = FALSE
  /\ [NoAttempt EXCEPT !.status = "initiated"].age = 0
<1>1. 0 \in 0..ReplayWindow  BY CollectionAssumption
<1>2. PICK row : row = NoAttempt  OBVIOUS
<1>3. row \in Attempt /\ row.status = "absent" /\ row.ref = FALSE /\ row.age = 0
  BY <1>1, <1>2 DEF NoAttempt, Attempt
<1>4. /\ [row EXCEPT !.status = "initiated"] \in Attempt
      /\ [row EXCEPT !.status = "initiated"].status = "initiated"
      /\ [row EXCEPT !.status = "initiated"].ref = FALSE
      /\ [row EXCEPT !.status = "initiated"].age = 0
  BY <1>3 DEF Attempt
<1>5. QED  BY <1>2, <1>3, <1>4

-----------------------------------------------------------------------------
(* Writing one run, one attempt *)
WritesRun(r, new) == /\ run' \in [Runs -> Run] /\ run'[r] = new
                     /\ \A s \in Runs \ {r} : run'[s] = run[s]

WritesAttempt(a, row) == /\ attempt' \in [Attempts -> Attempt] /\ attempt'[a] = row
                         /\ \A b \in Attempts \ {a} : attempt'[b] = attempt[b]

LEMMA RunUpdate ==
  ASSUME CollectionTypeOK, NEW r \in Runs, NEW new \in Run, run' = [run EXCEPT ![r] = new]
  PROVE  WritesRun(r, new)
BY DEF CollectionTypeOK, WritesRun

LEMMA AttemptUpdate ==
  ASSUME CollectionTypeOK, NEW a \in Attempts, NEW row \in Attempt,
         attempt' = [attempt EXCEPT ![a] = row]
  PROVE  WritesAttempt(a, row)
BY DEF CollectionTypeOK, WritesAttempt

LEMMA FinishReads ==
  ASSUME CollectionTypeOK, NEW r \in Runs, Finish(r)
  PROVE  WritesRun(r, Idle) /\ claim' \in [Invoices -> Runs \cup {NoRun}]
<1>1. WritesRun(r, Idle)  BY IdleFacts, RunUpdate DEF Finish
<1>2. claim' \in [Invoices -> Runs \cup {NoRun}]  BY DEF Finish, CollectionTypeOK
<1>3. QED  BY <1>1, <1>2

LEMMA MoveReads ==
  ASSUME CollectionTypeOK, NEW r \in Runs, NEW pc \in Phases, MoveTo(r, pc)
  PROVE  \E new \in Run : /\ WritesRun(r, new)
                          /\ new.pc = pc /\ new.of = run[r].of /\ new.answer = run[r].answer
                          /\ new.wait = run[r].wait
<1>1. PICK old \in Run : old = run[r]  BY DEF CollectionTypeOK
<1>2. PICK new \in Run : new = [old EXCEPT !.pc = pc] /\ new.pc = pc /\ new.of = old.of
                         /\ new.answer = old.answer /\ new.wait = old.wait
  <2>1. [old EXCEPT !.pc = pc] \in Run  BY DEF Run
  <2>2. QED  BY <2>1 DEF Run
<1>3. run' = [run EXCEPT ![r] = new]  BY <1>1, <1>2 DEF MoveTo
<1>4. WritesRun(r, new)  BY <1>3, RunUpdate
<1>5. QED  BY <1>1, <1>2, <1>4

LEMMA SelectReads ==
  ASSUME CollectionTypeOK, NEW r \in Runs, NEW a, NEW pc \in Phases, Select(r, a, pc)
  PROVE  a \in Attempts /\ \E new \in Run : WritesRun(r, new) /\ new.pc = pc /\ new.of = a
<1>1. a \in Attempts /\ run' = [run EXCEPT ![r] = [Idle EXCEPT !.pc = pc, !.of = a]]  BY DEF Select
<1>2. PICK new \in Run : new = [Idle EXCEPT !.pc = pc, !.of = a] /\ new.pc = pc /\ new.of = a
  <2>1. PICK old \in Run : old = Idle  BY IdleFacts
  <2>2. /\ [old EXCEPT !.pc = pc, !.of = a] \in Run
        /\ [old EXCEPT !.pc = pc, !.of = a].pc = pc /\ [old EXCEPT !.pc = pc, !.of = a].of = a
    BY <1>1 DEF Run
  <2>3. QED  BY <2>1, <2>2
<1>3. WritesRun(r, new)  BY <1>1, <1>2, RunUpdate
<1>4. QED  BY <1>1, <1>2, <1>3

LEMMA DeclinedReads ==
  ASSUME CollectionTypeOK, NEW a \in Attempts, NEW kind \in {"soft", "hard", "auth"}, Declined(a, kind)
  PROVE  /\ \E row \in Attempt : WritesAttempt(a, row) /\ row.status = "failed" /\ row.ref = attempt[a].ref
         /\ sub' \in {"active", "suspended", "canceled"}
<1>1. PICK old \in Attempt : old = attempt[a]  BY DEF CollectionTypeOK
<1>2. PICK retry \in BOOLEAN : retry = RetryFollows(a, kind)  BY DEF RetryFollows
<1>3. PICK row \in Attempt :
        /\ row = [old EXCEPT !.status = "failed", !.kind = kind, !.retry = retry]
        /\ row.status = "failed" /\ row.ref = old.ref
  <2>1. /\ [old EXCEPT !.status = "failed", !.kind = kind, !.retry = retry] \in Attempt
        /\ [old EXCEPT !.status = "failed", !.kind = kind, !.retry = retry].status = "failed"
        /\ [old EXCEPT !.status = "failed", !.kind = kind, !.retry = retry].ref = old.ref
    BY DEF Attempt
  <2>2. QED  BY <2>1
<1>4. attempt' = [attempt EXCEPT ![a] = row]
  BY <1>1, <1>2, <1>3 DEF Declined, CollectionTypeOK
<1>5. WritesAttempt(a, row)  BY <1>4, AttemptUpdate
<1>6. sub' \in {"active", "suspended", "canceled"}
  BY DEF Declined, Exhausted, CollectionTypeOK
<1>7. QED  BY <1>1, <1>3, <1>5, <1>6

(* The row a receipt is posted for *)
LEMMA ReceiptReads ==
  ASSUME CollectionTypeOK, NEW a \in Attempts, NEW row \in Attempt, PostCollectionReceipt(a, row)
  PROVE  /\ \E new \in Attempt : /\ WritesAttempt(a, new) /\ new.ref = row.ref /\ new.age = row.age
                                 /\ new.status \in {"succeeded", "processing", row.status}
         /\ receipt' \in [Attempts -> Receipts]
         /\ \A b \in Attempts \ {a} : receipt'[b] = receipt[b]
         /\ balance' \in [Invoices -> {"owed", "disputed", "settled"}]
         /\ sub' \in {"active", "suspended", "canceled"}
<1>1. ASSUME NEW status \in {"succeeded", "processing", row.status},
             attempt' = [attempt EXCEPT ![a] = [row EXCEPT !.status = status]]
      PROVE  \E new \in Attempt : /\ WritesAttempt(a, new) /\ new.ref = row.ref /\ new.age = row.age
                                  /\ new.status \in {"succeeded", "processing", row.status}
  <2>1. PICK new \in Attempt : /\ new = [row EXCEPT !.status = status]
                               /\ new.ref = row.ref /\ new.age = row.age /\ new.status = status
    <3>1. /\ [row EXCEPT !.status = status] \in Attempt
          /\ [row EXCEPT !.status = status].ref = row.ref
          /\ [row EXCEPT !.status = status].age = row.age
          /\ [row EXCEPT !.status = status].status = status
      BY <1>1 DEF Attempt
    <3>2. QED  BY <3>1
  <2>2. WritesAttempt(a, new)  BY <1>1, <2>1, AttemptUpdate
  <2>3. QED  BY <2>1, <2>2
<1>2. \E status \in {"succeeded", "processing", row.status} :
        attempt' = [attempt EXCEPT ![a] = [row EXCEPT !.status = status]]
  BY DEF PostCollectionReceipt
<1>3. a[1] \in Invoices  BY AttemptKeys
<1>4. \/ receipt' = receipt
      \/ \E status \in {"posted", "pending_approval"} : receipt' = [receipt EXCEPT ![a] = status]
  BY DEF PostCollectionReceipt
<1>5. receipt' \in [Attempts -> Receipts] /\ \A b \in Attempts \ {a} : receipt'[b] = receipt[b]
  BY <1>4 DEF CollectionTypeOK, Receipts
<1>6. balance' = balance \/ balance' = [balance EXCEPT ![a[1]] = "settled"]
  BY DEF PostCollectionReceipt
<1>7. balance' \in [Invoices -> {"owed", "disputed", "settled"}]
  BY <1>3, <1>6 DEF CollectionTypeOK
<1>8. sub' \in {"active", "suspended", "canceled"}
  BY DEF PostCollectionReceipt, Reactivated, CollectionTypeOK
<1>9. QED  BY <1>1, <1>2, <1>5, <1>7, <1>8

(* What the provider records *)
LEMMA EndsReads ==
  ASSUME CollectionTypeOK, NEW a \in Attempts, NEW record \in Charge,
         NEW end \in {"succeeded", "failed", "open"}, Ends(a, record, end)
  PROVE  /\ charge' \in [Attempts -> Charge] /\ charge'[a] = record
         /\ \A b \in Attempts \ {a} : charge'[b] = charge[b]
         /\ taken' \in [Invoices -> Nat]
         /\ taken'[a[1]] = IF end = "succeeded" THEN taken[a[1]] + 1 ELSE taken[a[1]]
         /\ \A i \in Invoices \ {a[1]} : taken'[i] = taken[i]
         /\ events' \subseteq Event
         /\ \A e \in events' : e \in events \/ (e.of = a /\ e.status = end)
<1>1. charge' \in [Attempts -> Charge] /\ charge'[a] = record
      /\ \A b \in Attempts \ {a} : charge'[b] = charge[b]
  BY DEF Ends, CollectionTypeOK
<1>2. a[1] \in Invoices  BY AttemptKeys
<1>3. PICK i \in Invoices : i = a[1]  BY <1>2
<1>4. taken' = [taken EXCEPT ![i] = IF end = "succeeded" THEN taken[i] + 1 ELSE taken[i]]
  BY <1>3 DEF Ends
<1>5. /\ taken' \in [Invoices -> Nat]
      /\ taken'[i] = IF end = "succeeded" THEN taken[i] + 1 ELSE taken[i]
      /\ \A j \in Invoices \ {i} : taken'[j] = taken[j]
  BY <1>4 DEF CollectionTypeOK
<1>6. events' = events \cup (IF end \in {"succeeded", "failed"} THEN {[of |-> a, status |-> end]} ELSE {})
  BY DEF Ends
<1>7. end \in {"succeeded", "failed"} => [of |-> a, status |-> end] \in Event  BY DEF Event
<1>8. events' \subseteq Event /\ \A e \in events' : e \in events \/ (e.of = a /\ e.status = end)
  BY <1>6, <1>7 DEF CollectionTypeOK
<1>9. QED  BY <1>1, <1>3, <1>5, <1>8

-----------------------------------------------------------------------------
(* The invariant *)

(* The money was taken, without the customer's help. *)
Collected(a) == charge[a].answer \in {"succeeded", "processing"} /\ charge[a].outcome = "succeeded"

(* The charge took nothing, and never will unless the customer confirms it. *)
Dead(a) == charge[a].answer \in {"soft", "hard", "auth"} \/ charge[a].outcome = "failed"

EarlierFailed(a) == \A p \in Positions : p < a[2] => attempt[<<a[1], p>>].status = "failed"

(* What the provider answered and what became of the payment *)
ChargeOK(a) ==
  /\ charge[a].answer = "none" <=> charge[a].outcome = "none"
  /\ charge[a].answer = "succeeded" => charge[a].outcome = "succeeded"
  /\ charge[a].answer \in {"soft", "hard"} => charge[a].outcome = "failed"
  /\ charge[a].answer = "auth" => charge[a].outcome # "failed"

(* What an attempt row says about its charge, and about earlier attempts *)
RowOK(a) ==
  /\ charge[a].answer # "none" => attempt[a].status # "absent"
  /\ (charge[a].answer # "none" /\ attempt[a].status = "initiated" /\ attempt[a].age < ReplayWindow)
       => charge[a].age <= attempt[a].age
  /\ attempt[a].ref = TRUE => charge[a].answer \in {"succeeded", "processing"}
  /\ (attempt[a].ref = TRUE /\ attempt[a].status = "initiated") => Collected(a)
  /\ receipt[a] # "none" => Collected(a) /\ attempt[a].ref = TRUE
  /\ attempt[a].status = "failed" => Dead(a)
  /\ attempt[a].status # "absent" => EarlierFailed(a)

(* What a run knows about the attempt it works on *)
RunOK(r) ==
  /\ run[r].pc # "idle" => EarlierFailed(run[r].of)
  /\ run[r].pc \in {"listed", "resume", "close", "send", "answer", "post"}
       => attempt[run[r].of].status # "absent"
  /\ (run[r].pc = "send" /\ charge[run[r].of].answer # "none")
       => charge[run[r].of].age < ReplayWindow + run[r].wait
  /\ run[r].pc = "answer" =>
       charge[run[r].of].answer = run[r].answer /\ run[r].answer # "none"
  /\ run[r].pc = "post" => Collected(run[r].of) /\ attempt[run[r].of].ref = TRUE

Taken(i) == {p \in Positions : charge[<<i, p>>].outcome = "succeeded"}

Counted == \A i \in Invoices : taken[i] = Cardinality(Taken(i))

Announced == \A e \in events : charge[e.of].outcome = e.status

ProviderInv == (\A a \in Attempts : ChargeOK(a)) /\ Counted /\ Announced

CollectionInv ==
  /\ CollectionTypeOK /\ ProviderInv
  /\ \A a \in Attempts : RowOK(a)
  /\ \A r \in Runs : RunOK(r)

-----------------------------------------------------------------------------
(* Steps that leave the provider alone *)

(* How a row may move *)
RowMove(a) ==
  /\ attempt'[a].status = "absent" => attempt[a].status = "absent"
  /\ attempt[a].status = "failed" => attempt'[a].status = "failed"
  /\ (charge[a].answer # "none" /\ attempt'[a].status = "initiated" /\ attempt'[a].age < ReplayWindow)
       => charge[a].age <= attempt'[a].age
  /\ attempt'[a].ref = TRUE => charge[a].answer \in {"succeeded", "processing"}
  /\ (attempt'[a].ref = TRUE /\ attempt'[a].status = "initiated") => Collected(a)
  /\ attempt[a].ref = TRUE => attempt'[a].ref = TRUE
  /\ receipt'[a] # "none" => Collected(a) /\ attempt'[a].ref = TRUE
  /\ attempt'[a].status = "failed" => Dead(a)
  /\ attempt'[a].status # "absent" => EarlierFailed(a)

LEMMA RowStays ==
  ASSUME NEW a \in Attempts, RowOK(a), attempt'[a] = attempt[a], receipt'[a] = receipt[a]
  PROVE  RowMove(a)
BY DEF RowOK, RowMove

LEMMA EarlierStays ==
  ASSUME \A b \in Attempts : attempt[b].status = "failed" => attempt'[b].status = "failed",
         NEW a \in Attempts, EarlierFailed(a)
  PROVE  \A p \in Positions : p < a[2] => attempt'[<<a[1], p>>].status = "failed"
BY AttemptKeys DEF EarlierFailed

LEMMA RowsKept ==
  ASSUME CollectionInv, charge' = charge, \A a \in Attempts : RowMove(a)
  PROVE  \A a \in Attempts : RowOK(a)'
<1> SUFFICES ASSUME NEW a \in Attempts PROVE RowOK(a)'  OBVIOUS
<1>1. RowOK(a) /\ RowMove(a)  BY DEF CollectionInv
<1>2. attempt'[a].status # "absent" => EarlierFailed(a)'
  <2>1. \A b \in Attempts : attempt[b].status = "failed" => attempt'[b].status = "failed"  BY DEF RowMove
  <2>2. QED  BY <1>1, <2>1, EarlierStays DEF RowMove, EarlierFailed
<1>3. Collected(a)' <=> Collected(a)  BY DEF Collected
<1>4. Dead(a)' <=> Dead(a)  BY DEF Dead
<1>5. QED  BY <1>1, <1>2, <1>3, <1>4 DEF RowOK, RowMove

LEMMA RunStays ==
  ASSUME CollectionInv, charge' = charge, \A a \in Attempts : RowMove(a),
         NEW r \in Runs, run'[r] = run[r]
  PROVE  RunOK(r)'
<1>1. PICK new \in Run : new = run[r]  BY DEF CollectionInv, CollectionTypeOK
<1>2. PICK a \in Attempts : a = run[r].of /\ a = run'[r].of  BY <1>1 DEF Run
<1>3. RunOK(r) /\ RowMove(a)  BY DEF CollectionInv
<1>4. run[r].pc # "idle" => EarlierFailed(run[r].of)'
  <2>1. \A b \in Attempts : attempt[b].status = "failed" => attempt'[b].status = "failed"  BY DEF RowMove
  <2>2. QED  BY <1>2, <1>3, <2>1, EarlierStays DEF RunOK, EarlierFailed
<1>5. Collected(a)' <=> Collected(a)  BY DEF Collected
<1>6. QED  BY <1>2, <1>3, <1>4, <1>5 DEF RunOK, RowMove, EarlierFailed, Collected

LEMMA IdleIsOK ==
  ASSUME NEW r \in Runs, run'[r] = Idle
  PROVE  RunOK(r)'
BY IdleFacts DEF RunOK

LEMMA ProviderStays ==
  ASSUME ProviderInv, charge' = charge, taken' = taken, events' \subseteq events
  PROVE  ProviderInv'
<1>1. \A a \in Attempts : ChargeOK(a)'  BY DEF ProviderInv, ChargeOK
<1>2. Counted'  BY DEF ProviderInv, Counted, Taken
<1>3. Announced'  BY DEF ProviderInv, Announced
<1>4. QED  BY <1>1, <1>2, <1>3 DEF ProviderInv

LEMMA LocalStep ==
  ASSUME CollectionInv, CollectionTypeOK', charge' = charge, taken' = taken, events' \subseteq events,
         \A a \in Attempts : RowMove(a),
         \A r \in Runs : run'[r] = run[r] \/ RunOK(r)'
  PROVE  CollectionInv'
<1>1. \A a \in Attempts : RowOK(a)'  BY RowsKept
<1>2. \A r \in Runs : RunOK(r)'  BY RunStays
<1>3. ProviderInv'  BY ProviderStays DEF CollectionInv
<1>4. QED  BY <1>1, <1>2, <1>3 DEF CollectionInv

LEMMA RowsStay ==
  ASSUME CollectionInv, attempt' = attempt, receipt' = receipt
  PROVE  \A a \in Attempts : RowMove(a)
BY RowStays DEF CollectionInv

LEMMA AfterFailed ==
  ASSUME CollectionInv, NEW a \in Attempts, attempt[a].status = "failed"
  PROVE  EarlierFailed(After(a))
<1>1. EarlierFailed(a)  BY DEF CollectionInv, RowOK
<1>2. a = <<a[1], a[2]>> /\ a[2] \in Nat  BY AttemptKeys, CollectionAssumption DEF Positions
<1>3. SUFFICES ASSUME NEW p \in Positions, p < a[2] + 1 PROVE attempt[<<a[1], p>>].status = "failed"
  BY DEF EarlierFailed, After
<1>4. p < a[2] \/ p = a[2]  BY <1>2, <1>3, CollectionAssumption DEF Positions
<1>5. QED  BY <1>1, <1>2, <1>4 DEF EarlierFailed

(* The scans and the operator *)
LEMMA SelectStep ==
  ASSUME CollectionInv, NEW r \in Runs, NEW a, NEW pc \in {"selected", "listed"}, Select(r, a, pc),
         EarlierFailed(a), pc = "listed" => attempt[a].status # "absent"
  PROVE  CollectionInv'
<1>1. /\ attempt' = attempt /\ receipt' = receipt /\ balance' = balance /\ customer' = customer
      /\ sub' = sub /\ claim' = claim /\ charge' = charge /\ taken' = taken /\ events' = events
  BY DEF Select, database, provider
<1>2. pc \in Phases /\ CollectionTypeOK  BY DEF Phases, CollectionInv
<1>3. PICK new \in Run : WritesRun(r, new) /\ new.pc = pc /\ new.of = a  BY <1>2, SelectReads
<1>4. CollectionTypeOK'  BY <1>1, <1>2, <1>3 DEF CollectionTypeOK, WritesRun
<1>5. \A b \in Attempts : RowMove(b)  BY <1>1, RowsStay
<1>6. RunOK(r)'  BY <1>1, <1>3 DEF RunOK, WritesRun, EarlierFailed
<1>7. \A s \in Runs : run'[s] = run[s] \/ RunOK(s)'  BY <1>3, <1>6 DEF WritesRun
<1>8. QED  BY <1>1, <1>4, <1>5, <1>7, LocalStep

LEMMA SelectionStep ==
  ASSUME CollectionInv, NEW r \in Runs,
         \/ \E i \in Invoices : SelectInitial(r, i)
         \/ \E a \in Attempts : SelectRetry(r, a) \/ RetryAttemptNow(r, a) \/ SelectInterrupted(r, a)
  PROVE  CollectionInv'
<1>1. ASSUME NEW i \in Invoices, SelectInitial(r, i) PROVE CollectionInv'
  <2>1. EarlierFailed(<<i, 0>>)  BY CollectionAssumption DEF EarlierFailed, Positions
  <2>2. QED  BY <1>1, <2>1, SelectStep DEF SelectInitial
<1>2. ASSUME NEW a \in Attempts, SelectRetry(r, a) \/ RetryAttemptNow(r, a) PROVE CollectionInv'
  <2>1. attempt[a].status = "failed" /\ Select(r, After(a), "selected")
    BY <1>2 DEF SelectRetry, RetryAttemptNow
  <2>2. EarlierFailed(After(a))  BY <2>1, AfterFailed
  <2>3. QED  BY <2>1, <2>2, SelectStep
<1>3. ASSUME NEW a \in Attempts, SelectInterrupted(r, a) PROVE CollectionInv'
  <2>1. attempt[a].status # "absent"  BY <1>3 DEF SelectInterrupted, Open
  <2>2. EarlierFailed(a)  BY <2>1 DEF CollectionInv, RowOK
  <2>3. QED  BY <1>3, <2>1, <2>2, SelectStep DEF SelectInterrupted
<1>4. QED  BY <1>1, <1>2, <1>3

(* A run ends its work on the invoice. *)
LEMMA FinishStep ==
  ASSUME CollectionInv, NEW r \in Runs, Finish(r), UNCHANGED <<database, provider>>
  PROVE  CollectionInv'
<1>1. /\ attempt' = attempt /\ receipt' = receipt /\ balance' = balance /\ customer' = customer
      /\ sub' = sub /\ charge' = charge /\ taken' = taken /\ events' = events
  BY DEF database, provider
<1>2. CollectionTypeOK  BY DEF CollectionInv
<1>3. WritesRun(r, Idle) /\ claim' \in [Invoices -> Runs \cup {NoRun}]  BY <1>2, FinishReads
<1>4. CollectionTypeOK'  BY <1>1, <1>2, <1>3 DEF CollectionTypeOK, WritesRun
<1>5. \A b \in Attempts : RowMove(b)  BY <1>1, RowsStay
<1>6. \A s \in Runs : run'[s] = run[s] \/ RunOK(s)'  BY <1>3, IdleIsOK DEF WritesRun
<1>7. QED  BY <1>1, <1>4, <1>5, <1>6, LocalStep

LEMMA TakeClaimStep ==
  ASSUME CollectionInv, NEW r \in Runs, TakeClaim(r)
  PROVE  CollectionInv'
<1> DEFINE i == run[r].of[1]
           Charges == run[r].pc = "selected"
<1>1. run[r].pc \in {"selected", "listed"} /\ UNCHANGED <<database, provider>>  BY DEF TakeClaim
<1>2. CASE Finish(r)  BY <1>1, <1>2, FinishStep
<1>3. CASE /\ claim' = [claim EXCEPT ![i] = r]
           /\ run' = [run EXCEPT ![r].pc = IF Charges THEN "claim" ELSE "resume",
                                 ![r].left = IF Charges THEN Methods ELSE 1]
  <2>0. CollectionTypeOK  BY DEF CollectionInv
  <2>1. PICK old \in Run : old = run[r]  BY <2>0 DEF CollectionTypeOK
  <2>2. PICK pc \in {"claim", "resume"}, left \in 0..Methods :
          /\ pc = (IF Charges THEN "claim" ELSE "resume")
          /\ left = (IF Charges THEN Methods ELSE 1)
    BY CollectionAssumption
  <2>3. PICK new \in Run : /\ new = [old EXCEPT !.pc = pc, !.left = left]
                           /\ new.pc = pc /\ new.of = old.of
    <3>1. /\ [old EXCEPT !.pc = pc, !.left = left] \in Run
          /\ [old EXCEPT !.pc = pc, !.left = left].pc = pc
          /\ [old EXCEPT !.pc = pc, !.left = left].of = old.of
      BY DEF Run, Phases
    <3>2. QED  BY <3>1
  <2>4. run' = [run EXCEPT ![r] = new]  BY <1>3, <2>0, <2>1, <2>2, <2>3 DEF CollectionTypeOK
  <2>5. WritesRun(r, new)  BY <2>0, <2>4, RunUpdate
  <2>6. /\ attempt' = attempt /\ receipt' = receipt /\ balance' = balance /\ customer' = customer
        /\ sub' = sub /\ charge' = charge /\ taken' = taken /\ events' = events
    BY <1>1 DEF database, provider
  <2>7. i \in Invoices  BY <2>1, AttemptKeys DEF Run
  <2>8. claim' \in [Invoices -> Runs \cup {NoRun}]  BY <1>3, <2>0, <2>7 DEF CollectionTypeOK
  <2>9. CollectionTypeOK'  BY <2>0, <2>5, <2>6, <2>8 DEF CollectionTypeOK, WritesRun
  <2>10. \A b \in Attempts : RowMove(b)  BY <2>6, RowsStay
  <2>11. RunOK(r)'
    <3>1. RunOK(r)  BY DEF CollectionInv
    <3>2. EarlierFailed(new.of) /\ (pc = "resume" => attempt[new.of].status # "absent")
      BY <1>1, <2>1, <2>2, <2>3, <3>1 DEF RunOK
    <3>3. QED  BY <2>3, <2>5, <2>6, <3>2 DEF RunOK, WritesRun, EarlierFailed
  <2>12. \A s \in Runs : run'[s] = run[s] \/ RunOK(s)'  BY <2>5, <2>11 DEF WritesRun
  <2>13. QED  BY <2>6, <2>9, <2>10, <2>12, LocalStep
<1>4. QED  BY <1>2, <1>3 DEF TakeClaim

(* One row is written. *)
LEMMA OneRowMoves ==
  ASSUME CollectionInv, NEW a \in Attempts, NEW row, WritesAttempt(a, row), RowMove(a),
         \A b \in Attempts \ {a} : receipt'[b] = receipt[b]
  PROVE  \A b \in Attempts : RowMove(b)
BY RowStays DEF CollectionInv, WritesAttempt

LEMMA ClaimAttemptStep ==
  ASSUME CollectionInv, NEW r \in Runs, ClaimAttempt(r)
  PROVE  CollectionInv'
<1>0. CollectionTypeOK  BY DEF CollectionInv
<1>1. PICK old \in Run : old = run[r]  BY <1>0 DEF CollectionTypeOK
<1>2. PICK a \in Attempts : a = run[r].of  BY <1>1 DEF Run
<1>3. /\ run[r].pc = "claim" /\ UNCHANGED <<receipt, balance, customer, sub, provider>>
      /\ \/ Finish(r) /\ UNCHANGED attempt
         \/ /\ attempt[a].status = "absent"
            /\ attempt' = [attempt EXCEPT ![a] = [NoAttempt EXCEPT !.status = "initiated"]]
            /\ run' = [run EXCEPT ![r].pc = "send", ![r].wait = 0]
            /\ UNCHANGED claim
  BY <1>2 DEF ClaimAttempt
<1>4. CASE Finish(r) /\ UNCHANGED attempt  BY <1>3, <1>4, FinishStep DEF database
<1>5. CASE /\ attempt[a].status = "absent"
           /\ attempt' = [attempt EXCEPT ![a] = [NoAttempt EXCEPT !.status = "initiated"]]
           /\ run' = [run EXCEPT ![r].pc = "send", ![r].wait = 0]
           /\ UNCHANGED claim
  <2>1. PICK row \in Attempt : /\ row = [NoAttempt EXCEPT !.status = "initiated"]
                               /\ row.status = "initiated" /\ row.ref = FALSE
    BY NoAttemptFacts
  <2>2. WritesAttempt(a, row)  BY <1>0, <1>5, <2>1, AttemptUpdate
  <2>3. PICK new \in Run : new = [old EXCEPT !.pc = "send", !.wait = 0] /\ new.pc = "send" /\ new.of = old.of
    <3>1. 0 \in 0..(KeyLife - ReplayWindow)  BY CollectionAssumption
    <3>2. /\ [old EXCEPT !.pc = "send", !.wait = 0] \in Run
          /\ [old EXCEPT !.pc = "send", !.wait = 0].pc = "send"
          /\ [old EXCEPT !.pc = "send", !.wait = 0].of = old.of
      BY <3>1 DEF Run, Phases
    <3>3. QED  BY <3>2
  <2>4. run' = [run EXCEPT ![r] = new]  BY <1>0, <1>1, <1>5, <2>3 DEF CollectionTypeOK
  <2>5. WritesRun(r, new)  BY <1>0, <2>4, RunUpdate
  <2>6. /\ receipt' = receipt /\ balance' = balance /\ customer' = customer /\ claim' = claim
        /\ sub' = sub /\ charge' = charge /\ taken' = taken /\ events' = events
    BY <1>3, <1>5 DEF provider
  <2>7. CollectionTypeOK'  BY <1>0, <2>2, <2>5, <2>6 DEF CollectionTypeOK, WritesRun, WritesAttempt
  <2>8. RowOK(a) /\ RunOK(r)  BY DEF CollectionInv
  <2>9. EarlierFailed(a) /\ charge[a].answer = "none"  BY <1>2, <1>3, <1>5, <2>8 DEF RunOK, RowOK
  <2>10. receipt[a] = "none"  BY <2>8, <2>9 DEF RowOK, Collected
  <2>11. RowMove(a)  BY <1>5, <2>1, <2>2, <2>6, <2>8, <2>9, <2>10 DEF RowMove, WritesAttempt, RowOK
  <2>12. \A b \in Attempts : RowMove(b)  BY <2>2, <2>6, <2>11, OneRowMoves
  <2>13. RunOK(r)'
    <3>1. run'[r] = new /\ new.of = a /\ new.pc = "send"  BY <1>1, <1>2, <2>3, <2>5 DEF WritesRun
    <3>2. attempt'[a].status = "initiated"  BY <2>1, <2>2 DEF WritesAttempt
    <3>3. EarlierFailed(a)'
      BY <2>9, <2>12, EarlierStays DEF EarlierFailed, RowMove
    <3>4. charge'[a].answer = "none"  BY <2>6, <2>9
    <3>5. QED  BY <3>1, <3>2, <3>3, <3>4 DEF RunOK, EarlierFailed
  <2>14. \A s \in Runs : run'[s] = run[s] \/ RunOK(s)'  BY <2>5, <2>13 DEF WritesRun
  <2>15. QED  BY <2>6, <2>7, <2>12, <2>14, LocalStep
<1>6. QED  BY <1>3, <1>4, <1>5

LEMMA ResumeAttemptStep ==
  ASSUME CollectionInv, NEW r \in Runs, ResumeAttempt(r)
  PROVE  CollectionInv'
<1>0. CollectionTypeOK  BY DEF CollectionInv
<1>1. PICK old \in Run : old = run[r]  BY <1>0 DEF CollectionTypeOK
<1>2. PICK a \in Attempts : a = run[r].of  BY <1>1 DEF Run
<1>3. RowOK(a) /\ RunOK(r)  BY DEF CollectionInv
<1>4. PICK blocked \in BOOLEAN : blocked = (~Replayable(a) \/ Uncollectible(a[1]) \/ ~customer.enrolled)
  OBVIOUS
<1>5. /\ run[r].pc = "resume" /\ UNCHANGED <<database, provider>>
      /\ \/ Finish(r)
         \/ Open(a) /\ attempt[a].ref /\ MoveTo(r, "post") /\ UNCHANGED claim
         \/ /\ Open(a) /\ ~attempt[a].ref
            /\ run' = [run EXCEPT ![r].pc = IF blocked THEN "close" ELSE "send", ![r].wait = 0]
            /\ UNCHANGED claim
  BY <1>2, <1>4 DEF ResumeAttempt
<1>6. /\ attempt' = attempt /\ receipt' = receipt /\ balance' = balance /\ customer' = customer
      /\ sub' = sub /\ charge' = charge /\ taken' = taken /\ events' = events
  BY <1>5 DEF database, provider
<1>7. EarlierFailed(a) /\ attempt[a].status # "absent"  BY <1>2, <1>3, <1>5 DEF RunOK
<1>8. ASSUME NEW new \in Run, WritesRun(r, new), UNCHANGED claim, RunOK(r)'
      PROVE  CollectionInv'
  <2>1. CollectionTypeOK'  BY <1>0, <1>6, <1>8 DEF CollectionTypeOK, WritesRun
  <2>2. \A b \in Attempts : RowMove(b)  BY <1>6, RowsStay
  <2>3. \A s \in Runs : run'[s] = run[s] \/ RunOK(s)'  BY <1>8 DEF WritesRun
  <2>4. QED  BY <1>6, <2>1, <2>2, <2>3, LocalStep
<1>9. CASE Finish(r)  BY <1>5, <1>9, FinishStep
<1>10. CASE Open(a) /\ attempt[a].ref /\ MoveTo(r, "post") /\ UNCHANGED claim
  <2>1. "post" \in Phases  BY DEF Phases
  <2>2. PICK new \in Run : WritesRun(r, new) /\ new.pc = "post" /\ new.of = run[r].of
    BY <1>0, <1>10, <2>1, MoveReads
  <2>3. attempt[a].ref = TRUE
    <3>1. attempt[a].ref \in BOOLEAN
      <4>1. attempt[a] \in Attempt  BY <1>0 DEF CollectionTypeOK
      <4>2. QED  BY <4>1 DEF Attempt
    <3>2. QED  BY <1>10, <3>1
  <2>4. Collected(a)  BY <1>3, <1>10, <2>3 DEF RowOK, Open
  <2>5. RunOK(r)'  BY <1>2, <1>6, <1>7, <2>2, <2>3, <2>4 DEF RunOK, WritesRun, EarlierFailed, Collected
  <2>6. QED  BY <1>8, <1>10, <2>2, <2>5
<1>11. CASE /\ Open(a) /\ ~attempt[a].ref
            /\ run' = [run EXCEPT ![r].pc = IF blocked THEN "close" ELSE "send", ![r].wait = 0]
            /\ UNCHANGED claim
  <2>1. PICK pc \in {"close", "send"} : pc = IF blocked THEN "close" ELSE "send"  OBVIOUS
  <2>2. PICK new \in Run : /\ new = [old EXCEPT !.pc = pc, !.wait = 0]
                           /\ new.pc = pc /\ new.of = old.of /\ new.wait = 0
    <3>1. 0 \in 0..(KeyLife - ReplayWindow)  BY CollectionAssumption
    <3>2. /\ [old EXCEPT !.pc = pc, !.wait = 0] \in Run
          /\ [old EXCEPT !.pc = pc, !.wait = 0].pc = pc
          /\ [old EXCEPT !.pc = pc, !.wait = 0].of = old.of
          /\ [old EXCEPT !.pc = pc, !.wait = 0].wait = 0
      BY <3>1 DEF Run, Phases
    <3>3. QED  BY <3>2
  <2>3. run' = [run EXCEPT ![r] = new]  BY <1>0, <1>1, <1>11, <2>1, <2>2 DEF CollectionTypeOK
  <2>4. WritesRun(r, new)  BY <1>0, <2>3, RunUpdate
  <2>5. run'[r] = new /\ new.of = a /\ new.pc = pc /\ new.wait = 0  BY <1>1, <1>2, <2>2, <2>4 DEF WritesRun
  <2>6. pc = "send" /\ charge[a].answer # "none" => charge[a].age < ReplayWindow + 0
    <3>1. SUFFICES ASSUME pc = "send", charge[a].answer # "none" PROVE charge[a].age < ReplayWindow + 0
      OBVIOUS
    <3>2. attempt[a].age < ReplayWindow  BY <1>4, <2>1, <3>1 DEF Replayable
    <3>3. attempt[a].age \in Nat /\ charge[a].age \in Nat
      <4>1. attempt[a] \in Attempt /\ charge[a] \in Charge  BY <1>0 DEF CollectionTypeOK
      <4>2. QED  BY <4>1, CollectionAssumption DEF Attempt, Charge
    <3>4. attempt[a].status = "initiated"  BY <1>3, <1>11 DEF Open, RowOK
    <3>5. QED  BY <1>3, <3>1, <3>2, <3>3, <3>4, CollectionAssumption DEF RowOK
  <2>7. RunOK(r)'  BY <1>6, <1>7, <2>5, <2>6 DEF RunOK, EarlierFailed
  <2>8. QED  BY <1>8, <1>11, <2>4, <2>7
<1>12. QED  BY <1>5, <1>9, <1>10, <1>11

(* The run has the answer.  What it writes rests on the provider's record,  *)
(* which still holds the same answer.                                       *)
LEMMA RecordChargeOutcomeStep ==
  ASSUME CollectionInv, NEW r \in Runs, RecordChargeOutcome(r)
  PROVE  CollectionInv'
<1>0. CollectionTypeOK  BY DEF CollectionInv
<1>1. PICK old \in Run : old = run[r]  BY <1>0 DEF CollectionTypeOK
<1>2. PICK a \in Attempts : a = run[r].of  BY <1>1 DEF Run
<1>3. PICK row \in Attempt : row = attempt[a]  BY <1>0 DEF CollectionTypeOK
<1>4. RowOK(a) /\ RunOK(r) /\ ChargeOK(a)  BY DEF CollectionInv, ProviderInv
<1>5. /\ run[r].pc = "answer" /\ charge[a].answer = run[r].answer
      /\ EarlierFailed(a) /\ attempt[a].status # "absent"
  BY <1>2, <1>4 DEF RecordChargeOutcome, RunOK
<1>6. /\ receipt' = receipt /\ balance' = balance /\ customer' = customer
      /\ charge' = charge /\ taken' = taken /\ events' = events
  BY DEF RecordChargeOutcome, provider
<1>7. ASSUME NEW new \in Run, WritesRun(r, new), NEW next \in Attempt, WritesAttempt(a, next),
             claim' \in [Invoices -> Runs \cup {NoRun}], sub' \in {"active", "suspended", "canceled"},
             RowMove(a), RunOK(r)'
      PROVE  CollectionInv'
  <2>1. CollectionTypeOK'  BY <1>0, <1>6, <1>7 DEF CollectionTypeOK, WritesRun, WritesAttempt
  <2>2. \A b \in Attempts : RowMove(b)  BY <1>6, <1>7, OneRowMoves
  <2>3. \A s \in Runs : run'[s] = run[s] \/ RunOK(s)'  BY <1>7 DEF WritesRun
  <2>4. QED  BY <1>6, <2>1, <2>2, <2>3, LocalStep
<1>8. CASE attempt[a].status # "initiated"
  <2>1. Finish(r) /\ UNCHANGED <<attempt, sub>>  BY <1>2, <1>8 DEF RecordChargeOutcome
  <2>2. UNCHANGED <<database, provider>>  BY <2>1 DEF RecordChargeOutcome, database
  <2>3. QED  BY <2>1, <2>2, FinishStep
<1>9. CASE attempt[a].status = "initiated" /\ RecordCollected(r)
  <2>1. /\ run[r].answer = "succeeded" /\ MoveTo(r, "post") /\ UNCHANGED <<sub, claim>>
        /\ attempt' = [attempt EXCEPT ![a].ref = TRUE]
    BY <1>2, <1>9 DEF RecordCollected
  <2>2. "post" \in Phases  BY DEF Phases
  <2>3. PICK new \in Run : WritesRun(r, new) /\ new.pc = "post" /\ new.of = run[r].of
    BY <1>0, <2>1, <2>2, MoveReads
  <2>4. PICK next \in Attempt : /\ next = [row EXCEPT !.ref = TRUE]
                                /\ next.ref = TRUE /\ next.status = row.status /\ next.age = row.age
    <3>1. /\ [row EXCEPT !.ref = TRUE] \in Attempt /\ [row EXCEPT !.ref = TRUE].ref = TRUE
          /\ [row EXCEPT !.ref = TRUE].status = row.status /\ [row EXCEPT !.ref = TRUE].age = row.age
      BY DEF Attempt
    <3>2. QED  BY <3>1
  <2>5. attempt' = [attempt EXCEPT ![a] = next]  BY <1>3, <2>1, <2>4
  <2>6. WritesAttempt(a, next)  BY <1>0, <2>5, AttemptUpdate
  <2>7. Collected(a)  BY <1>4, <1>5, <2>1 DEF Collected, ChargeOK
  <2>8. RowMove(a)  BY <1>3, <1>4, <1>6, <1>9, <2>4, <2>6, <2>7 DEF RowMove, WritesAttempt, RowOK, Collected
  <2>9. EarlierFailed(a)'
    <3>1. \A b \in Attempts : attempt[b].status = "failed" => attempt'[b].status = "failed"
      BY <1>9, <2>6 DEF WritesAttempt
    <3>2. QED  BY <1>5, <3>1, EarlierStays DEF EarlierFailed
  <2>10. Collected(a)'  BY <1>6, <2>7 DEF Collected
  <2>11. RunOK(r)'
    <3>1. run'[r] = new /\ new.of = a /\ new.pc = "post"  BY <1>2, <2>3 DEF WritesRun
    <3>2. attempt'[a].status # "absent" /\ attempt'[a].ref = TRUE
      BY <1>3, <1>5, <2>4, <2>6 DEF WritesAttempt
    <3>3. QED  BY <2>9, <2>10, <3>1, <3>2 DEF RunOK, EarlierFailed, Collected
  <2>12. QED  BY <1>0, <1>7, <2>1, <2>3, <2>6, <2>8, <2>11 DEF CollectionTypeOK
<1>10. CASE attempt[a].status = "initiated" /\ RecordProcessing(r)
  <2>1. /\ run[r].answer = "processing" /\ Finish(r) /\ UNCHANGED sub
        /\ attempt' = [attempt EXCEPT ![a].status = "processing", ![a].ref = TRUE]
    BY <1>2, <1>10 DEF RecordProcessing
  <2>2. WritesRun(r, Idle) /\ claim' \in [Invoices -> Runs \cup {NoRun}]  BY <1>0, <2>1, FinishReads
  <2>3. PICK next \in Attempt : /\ next = [row EXCEPT !.status = "processing", !.ref = TRUE]
                                /\ next.ref = TRUE /\ next.status = "processing"
    <3>1. /\ [row EXCEPT !.status = "processing", !.ref = TRUE] \in Attempt
          /\ [row EXCEPT !.status = "processing", !.ref = TRUE].ref = TRUE
          /\ [row EXCEPT !.status = "processing", !.ref = TRUE].status = "processing"
      BY DEF Attempt
    <3>2. QED  BY <3>1
  <2>4. attempt' = [attempt EXCEPT ![a] = next]  BY <1>0, <1>3, <2>1, <2>3 DEF CollectionTypeOK
  <2>5. WritesAttempt(a, next)  BY <1>0, <2>4, AttemptUpdate
  <2>6. RowMove(a)  BY <1>4, <1>5, <1>6, <1>10, <2>1, <2>3, <2>5 DEF RowMove, WritesAttempt, RowOK
  <2>7. RunOK(r)'  BY <2>2, IdleIsOK DEF WritesRun
  <2>8. QED  BY <1>0, <1>7, <2>1, <2>2, <2>5, <2>6, <2>7, IdleFacts DEF CollectionTypeOK
<1>11. CASE attempt[a].status = "initiated" /\ ParkHard(r)
  <2>1. /\ run[r].answer = "hard" /\ run[r].left > 1 /\ After(a) \in Attempts /\ UNCHANGED <<sub, claim>>
        /\ attempt' = [attempt EXCEPT ![a].status = "failed", ![a].kind = "hard"]
        /\ run' = [run EXCEPT ![r] = [Idle EXCEPT !.pc = "claim", !.of = After(a),
                                                   !.left = run[r].left - 1]]
    BY <1>2, <1>11 DEF ParkHard, BackupFollows
  <2>2. PICK next \in Attempt : /\ next = [row EXCEPT !.status = "failed", !.kind = "hard"]
                                /\ next.ref = row.ref /\ next.status = "failed"
    <3>1. /\ [row EXCEPT !.status = "failed", !.kind = "hard"] \in Attempt
          /\ [row EXCEPT !.status = "failed", !.kind = "hard"].ref = row.ref
          /\ [row EXCEPT !.status = "failed", !.kind = "hard"].status = "failed"
      BY DEF Attempt
    <3>2. QED  BY <3>1
  <2>3. attempt' = [attempt EXCEPT ![a] = next]  BY <1>0, <1>3, <2>1, <2>2 DEF CollectionTypeOK
  <2>4. WritesAttempt(a, next)  BY <1>0, <2>3, AttemptUpdate
  <2>5. PICK left \in 0..Methods : left = run[r].left - 1
    <3>1. run[r].left \in 0..Methods  BY <1>1 DEF Run
    <3>2. QED  BY <2>1, <3>1, CollectionAssumption
  <2>6. PICK new \in Run : /\ new = [Idle EXCEPT !.pc = "claim", !.of = After(a), !.left = left]
                           /\ new.pc = "claim" /\ new.of = After(a)
    <3>1. PICK idle \in Run : idle = Idle  BY IdleFacts
    <3>2. PICK b \in Attempts : b = After(a)  BY <2>1
    <3>3. /\ [idle EXCEPT !.pc = "claim", !.of = b, !.left = left] \in Run
          /\ [idle EXCEPT !.pc = "claim", !.of = b, !.left = left].pc = "claim"
          /\ [idle EXCEPT !.pc = "claim", !.of = b, !.left = left].of = b
      BY DEF Run, Phases
    <3>4. QED  BY <3>1, <3>2, <3>3
  <2>7. WritesRun(r, new)  BY <1>0, <2>1, <2>5, <2>6, RunUpdate
  <2>8. Dead(a)  BY <1>5, <2>1 DEF Dead
  <2>9. RowMove(a)
    BY <1>3, <1>4, <1>5, <1>6, <1>11, <2>2, <2>4, <2>8 DEF RowMove, WritesAttempt, RowOK
  <2>10. RunOK(r)'
    <3>1. ASSUME NEW p \in Positions, p < a[2] + 1 PROVE attempt'[<<a[1], p>>].status = "failed"
      <4>1. a = <<a[1], a[2]>> /\ a[2] \in Nat  BY AttemptKeys, CollectionAssumption DEF Positions
      <4>2. CASE p = a[2]  BY <2>2, <2>4, <4>1, <4>2 DEF WritesAttempt
      <4>3. CASE p # a[2]
        <5>1. p < a[2]  BY <3>1, <4>1, <4>3, CollectionAssumption DEF Positions
        <5>2. <<a[1], p>> \in Attempts \ {a}  BY <4>1, <4>3, AttemptKeys
        <5>3. QED  BY <1>5, <2>4, <5>1, <5>2 DEF WritesAttempt, EarlierFailed
      <4>4. QED  BY <4>2, <4>3
    <3>2. run'[r] = new /\ new.pc = "claim" /\ new.of = <<a[1], a[2] + 1>>  BY <2>6, <2>7 DEF WritesRun, After
    <3>3. QED  BY <3>1, <3>2 DEF RunOK, EarlierFailed
  <2>11. QED  BY <1>0, <1>7, <2>1, <2>4, <2>7, <2>9, <2>10 DEF CollectionTypeOK
<1>12. CASE attempt[a].status = "initiated" /\ RecordDecline(r)
  <2>1. /\ run[r].answer \in {"soft", "hard", "auth"} /\ Finish(r)
        /\ Declined(a, run[r].answer)
    BY <1>2, <1>12 DEF RecordDecline
  <2>2. WritesRun(r, Idle) /\ claim' \in [Invoices -> Runs \cup {NoRun}]  BY <1>0, <2>1, FinishReads
  <2>3. PICK next \in Attempt : WritesAttempt(a, next) /\ next.status = "failed" /\ next.ref = attempt[a].ref
    BY <1>0, <2>1, DeclinedReads
  <2>4. sub' \in {"active", "suspended", "canceled"}  BY <1>0, <2>1, DeclinedReads
  <2>5. Dead(a)  BY <1>5, <2>1 DEF Dead
  <2>6. RowMove(a)  BY <1>4, <1>5, <1>6, <1>12, <2>3, <2>5 DEF RowMove, WritesAttempt, RowOK
  <2>7. RunOK(r)'  BY <2>2, IdleIsOK DEF WritesRun
  <2>8. QED  BY <1>7, <2>2, <2>3, <2>4, <2>6, <2>7, IdleFacts
<1>13. QED  BY <1>2, <1>8, <1>9, <1>10, <1>11, <1>12 DEF RecordChargeOutcome

(* A receipt is posted for money that was taken. *)
LEMMA ReceiptMoves ==
  ASSUME CollectionInv, NEW a \in Attempts, NEW row \in Attempt, PostCollectionReceipt(a, row),
         charge' = charge, Collected(a), attempt[a].status # "absent", attempt[a].ref = TRUE,
         row.ref = TRUE, row.age = attempt[a].age, row.status \in {"processing", attempt[a].status}
  PROVE  /\ \A b \in Attempts : RowMove(b)
         /\ attempt' \in [Attempts -> Attempt] /\ receipt' \in [Attempts -> Receipts]
         /\ balance' \in [Invoices -> {"owed", "disputed", "settled"}]
         /\ sub' \in {"active", "suspended", "canceled"}
<1>0. CollectionTypeOK /\ RowOK(a)  BY DEF CollectionInv
<1>1. PICK new \in Attempt : /\ WritesAttempt(a, new) /\ new.ref = row.ref /\ new.age = row.age
                             /\ new.status \in {"succeeded", "processing", row.status}
  BY <1>0, ReceiptReads
<1>2. /\ receipt' \in [Attempts -> Receipts] /\ (\A b \in Attempts \ {a} : receipt'[b] = receipt[b])
      /\ balance' \in [Invoices -> {"owed", "disputed", "settled"}]
      /\ sub' \in {"active", "suspended", "canceled"}
  BY <1>0, ReceiptReads
<1>3. ~Dead(a)  BY DEF Collected, Dead
<1>4. attempt[a].status # "failed" /\ EarlierFailed(a)  BY <1>0, <1>3 DEF RowOK
<1>5. RowMove(a)  BY <1>0, <1>1, <1>4 DEF RowMove, WritesAttempt, RowOK, Collected
<1>6. QED  BY <1>1, <1>2, <1>5, OneRowMoves DEF WritesAttempt

LEMMA PostReceiptStep ==
  ASSUME CollectionInv, NEW r \in Runs, PostReceipt(r)
  PROVE  CollectionInv'
<1>0. CollectionTypeOK  BY DEF CollectionInv
<1>1. PICK old \in Run : old = run[r]  BY <1>0 DEF CollectionTypeOK
<1>2. PICK a \in Attempts : a = run[r].of  BY <1>1 DEF Run
<1>3. PICK row \in Attempt : row = attempt[a]  BY <1>0 DEF CollectionTypeOK
<1>4. /\ PostCollectionReceipt(a, row) /\ Finish(r)
      /\ customer' = customer /\ charge' = charge /\ taken' = taken /\ events' = events
  BY <1>2, <1>3 DEF PostReceipt, provider
<1>5. Collected(a) /\ attempt[a].status # "absent" /\ attempt[a].ref = TRUE
  <2>1. RunOK(r)  BY DEF CollectionInv
  <2>2. QED  BY <1>2, <2>1 DEF RunOK, PostReceipt
<1>6. /\ \A b \in Attempts : RowMove(b)
      /\ attempt' \in [Attempts -> Attempt] /\ receipt' \in [Attempts -> Receipts]
      /\ balance' \in [Invoices -> {"owed", "disputed", "settled"}]
      /\ sub' \in {"active", "suspended", "canceled"}
  BY <1>3, <1>4, <1>5, ReceiptMoves
<1>7. WritesRun(r, Idle) /\ claim' \in [Invoices -> Runs \cup {NoRun}]  BY <1>0, <1>4, FinishReads
<1>8. CollectionTypeOK'  BY <1>0, <1>4, <1>6, <1>7 DEF CollectionTypeOK, WritesRun
<1>9. \A s \in Runs : run'[s] = run[s] \/ RunOK(s)'  BY <1>7, IdleIsOK DEF WritesRun
<1>10. QED  BY <1>4, <1>6, <1>8, <1>9, LocalStep

LEMMA CloseStep ==
  ASSUME CollectionInv, NEW r \in Runs, CloseInterruptedAttempt(r)
  PROVE  CollectionInv'
<1>0. CollectionTypeOK  BY DEF CollectionInv
<1>1. PICK old \in Run : old = run[r]  BY <1>0 DEF CollectionTypeOK
<1>2. PICK a \in Attempts : a = run[r].of  BY <1>1 DEF Run
<1>3. PICK row \in Attempt : row = attempt[a]  BY <1>0 DEF CollectionTypeOK
<1>4. /\ attempt' = (IF attempt[a].status = "initiated" /\ ~attempt[a].ref
                      THEN [attempt EXCEPT ![a].status = "canceled"] ELSE attempt)
      /\ Finish(r) /\ receipt' = receipt /\ balance' = balance /\ customer' = customer /\ sub' = sub
      /\ charge' = charge /\ taken' = taken /\ events' = events
  BY <1>2 DEF CloseInterruptedAttempt, provider
<1>5. CASE attempt' = attempt
  <2>1. UNCHANGED <<database, provider>>  BY <1>4, <1>5 DEF database, provider
  <2>2. QED  BY <1>4, <2>1, FinishStep
<1>6. CASE attempt[a].status = "initiated" /\ attempt' = [attempt EXCEPT ![a].status = "canceled"]
  <2>1. PICK next \in Attempt : /\ next = [row EXCEPT !.status = "canceled"]
                                /\ next.status = "canceled" /\ next.ref = row.ref
    <3>1. /\ [row EXCEPT !.status = "canceled"] \in Attempt
          /\ [row EXCEPT !.status = "canceled"].status = "canceled"
          /\ [row EXCEPT !.status = "canceled"].ref = row.ref
      BY DEF Attempt
    <3>2. QED  BY <3>1
  <2>2. attempt' = [attempt EXCEPT ![a] = next]  BY <1>3, <1>6, <2>1
  <2>3. WritesAttempt(a, next)  BY <1>0, <2>2, AttemptUpdate
  <2>4. WritesRun(r, Idle) /\ claim' \in [Invoices -> Runs \cup {NoRun}]  BY <1>0, <1>4, FinishReads
  <2>5. CollectionTypeOK'  BY <1>0, <1>4, <2>3, <2>4 DEF CollectionTypeOK, WritesRun, WritesAttempt
  <2>6. RowOK(a)  BY DEF CollectionInv
  <2>7. RowMove(a)  BY <1>3, <1>4, <1>6, <2>1, <2>3, <2>6 DEF RowMove, WritesAttempt, RowOK
  <2>8. \A b \in Attempts : RowMove(b)  BY <1>4, <2>3, <2>7, OneRowMoves
  <2>9. \A s \in Runs : run'[s] = run[s] \/ RunOK(s)'  BY <2>4, IdleIsOK DEF WritesRun
  <2>10. QED  BY <1>4, <2>5, <2>8, <2>9, LocalStep
<1>7. QED  BY <1>4, <1>5, <1>6

LEMMA SettleEventStep ==
  ASSUME CollectionInv, NEW e \in events, SettleEvent(e)
  PROVE  CollectionInv'
<1>0. CollectionTypeOK  BY DEF CollectionInv
<1>1. e \in Event  BY <1>0 DEF CollectionTypeOK
<1>2. PICK a \in Attempts : a = e.of  BY <1>1 DEF Event
<1>3. PICK row \in Attempt : row = attempt[a]  BY <1>0 DEF CollectionTypeOK
<1>4. RowOK(a) /\ charge[a].outcome = e.status
  BY <1>2 DEF CollectionInv, ProviderInv, Announced
<1>5. /\ events' \subseteq events /\ customer' = customer /\ claim' = claim /\ run' = run
      /\ charge' = charge /\ taken' = taken
      /\ \/ attempt[a].ref /\ InFlight(a) /\ (SettleSucceeded(e) \/ SettleFailed(e))
         \/ UNCHANGED <<attempt, receipt, balance, sub>>
  BY <1>2 DEF SettleEvent, provider
<1>6. ASSUME \A b \in Attempts : RowMove(b),
             attempt' \in [Attempts -> Attempt], receipt' \in [Attempts -> Receipts],
             balance' \in [Invoices -> {"owed", "disputed", "settled"}],
             sub' \in {"active", "suspended", "canceled"}
      PROVE  CollectionInv'
  <2>1. CollectionTypeOK'  BY <1>0, <1>5, <1>6 DEF CollectionTypeOK
  <2>2. QED  BY <1>5, <1>6, <2>1, LocalStep
<1>7. CASE UNCHANGED <<attempt, receipt, balance, sub>>
  BY <1>0, <1>6, <1>7, RowsStay DEF CollectionTypeOK
<1>8. ASSUME attempt[a].ref, InFlight(a) PROVE attempt[a].ref = TRUE /\ attempt[a].status \notin {"absent", "failed"}
  <2>1. attempt[a].ref \in BOOLEAN  BY <1>3 DEF Attempt
  <2>2. QED  BY <1>8, <2>1 DEF InFlight
<1>9. CASE attempt[a].ref /\ InFlight(a) /\ SettleSucceeded(e)
  <2>1. PICK new \in Attempt : /\ new = [row EXCEPT !.status = "processing"]
                               /\ new.status = "processing" /\ new.ref = row.ref /\ new.age = row.age
    <3>1. /\ [row EXCEPT !.status = "processing"] \in Attempt
          /\ [row EXCEPT !.status = "processing"].status = "processing"
          /\ [row EXCEPT !.status = "processing"].ref = row.ref
          /\ [row EXCEPT !.status = "processing"].age = row.age
      BY DEF Attempt
    <3>2. QED  BY <3>1
  <2>2. PostCollectionReceipt(a, new) /\ e.status = "succeeded"
    BY <1>2, <1>3, <1>9, <2>1 DEF SettleSucceeded
  <2>3. Collected(a)  BY <1>4, <1>8, <1>9, <2>2 DEF Collected, RowOK
  <2>4. QED  BY <1>3, <1>5, <1>6, <1>8, <1>9, <2>1, <2>2, <2>3, ReceiptMoves
<1>10. CASE attempt[a].ref /\ InFlight(a) /\ SettleFailed(e)
  <2>1. PICK kind \in {"soft", "hard"} : Declined(a, kind)  BY <1>2, <1>10 DEF SettleFailed
  <2>2. e.status = "failed" /\ receipt' = receipt /\ balance' = balance  BY <1>10 DEF SettleFailed
  <2>3. PICK next \in Attempt : WritesAttempt(a, next) /\ next.status = "failed" /\ next.ref = attempt[a].ref
    BY <1>0, <2>1, DeclinedReads
  <2>4. sub' \in {"active", "suspended", "canceled"}  BY <1>0, <2>1, DeclinedReads
  <2>5. Dead(a)  BY <1>4, <2>2 DEF Dead
  <2>6. RowMove(a)  BY <1>4, <1>8, <1>10, <2>2, <2>3, <2>5 DEF RowMove, WritesAttempt, RowOK
  <2>7. \A b \in Attempts : RowMove(b)  BY <2>2, <2>3, <2>6, OneRowMoves
  <2>8. attempt' \in [Attempts -> Attempt]  BY <2>3 DEF WritesAttempt
  <2>9. receipt' \in [Attempts -> Receipts] /\ balance' \in [Invoices -> {"owed", "disputed", "settled"}]
    BY <1>0, <2>2 DEF CollectionTypeOK
  <2>10. QED  BY <1>6, <2>4, <2>7, <2>8, <2>9
<1>11. QED  BY <1>5, <1>7, <1>9, <1>10

LEMMA ReconcileStep ==
  ASSUME CollectionInv, ReconcileProcessing
  PROVE  CollectionInv'
<1>0. CollectionTypeOK  BY DEF CollectionInv
<1>1. /\ attempt' = [a \in Attempts |-> IF attempt[a].status = "processing" /\ receipt[a] = "posted"
                                          THEN [attempt[a] EXCEPT !.status = "succeeded"] ELSE attempt[a]]
      /\ receipt' = receipt /\ balance' = balance /\ customer' = customer /\ sub' = sub
      /\ claim' = claim /\ run' = run /\ charge' = charge /\ taken' = taken /\ events' = events
  BY DEF ReconcileProcessing, provider
<1>2. ASSUME NEW a \in Attempts
      PROVE  /\ attempt'[a] \in Attempt
             /\ \/ attempt'[a] = attempt[a]
                \/ /\ attempt[a].status = "processing" /\ attempt'[a].status = "succeeded"
                   /\ attempt'[a].ref = attempt[a].ref
  <2>1. PICK row \in Attempt : row = attempt[a]  BY <1>0 DEF CollectionTypeOK
  <2>2. /\ [row EXCEPT !.status = "succeeded"] \in Attempt
        /\ [row EXCEPT !.status = "succeeded"].status = "succeeded"
        /\ [row EXCEPT !.status = "succeeded"].ref = row.ref
    BY DEF Attempt
  <2>3. attempt'[a] = IF row.status = "processing" /\ receipt[a] = "posted"
                        THEN [row EXCEPT !.status = "succeeded"] ELSE row
    BY <1>1, <2>1
  <2>4. QED  BY <2>1, <2>2, <2>3
<1>3. attempt' \in [Attempts -> Attempt]
  <2>1. attempt' = [a \in Attempts |-> attempt'[a]]  BY <1>1
  <2>2. QED  BY <1>2, <2>1
<1>4. CollectionTypeOK'  BY <1>0, <1>1, <1>3 DEF CollectionTypeOK
<1>5. ASSUME NEW a \in Attempts PROVE RowMove(a)
  <2>1. RowOK(a)  BY DEF CollectionInv
  <2>2. CASE attempt'[a] = attempt[a]  BY <1>1, <2>1, <2>2, RowStays
  <2>3. CASE /\ attempt[a].status = "processing" /\ attempt'[a].status = "succeeded"
             /\ attempt'[a].ref = attempt[a].ref
    BY <1>1, <2>1, <2>3 DEF RowMove, RowOK
  <2>4. QED  BY <1>2, <2>2, <2>3
<1>6. QED  BY <1>1, <1>4, <1>5, LocalStep

LEMMA ApproveReceiptStep ==
  ASSUME CollectionInv, NEW a \in Attempts, ApproveReceipt(a)
  PROVE  CollectionInv'
<1>0. CollectionTypeOK  BY DEF CollectionInv
<1>1. /\ attempt' = attempt /\ customer' = customer /\ sub' = sub
      /\ claim' = claim /\ run' = run /\ charge' = charge /\ taken' = taken /\ events' = events
      /\ receipt[a] # "none"
      /\ \E status \in {"approved", "posted"} : receipt' = [receipt EXCEPT ![a] = status]
      /\ balance' = balance \/ balance' = [balance EXCEPT ![a[1]] = "settled"]
  BY DEF ApproveReceipt, provider
<1>2. receipt' \in [Attempts -> Receipts] /\ \A b \in Attempts \ {a} : receipt'[b] = receipt[b]
  BY <1>0, <1>1 DEF CollectionTypeOK, Receipts
<1>3. a[1] \in Invoices  BY AttemptKeys
<1>4. balance' \in [Invoices -> {"owed", "disputed", "settled"}]  BY <1>0, <1>1, <1>3 DEF CollectionTypeOK
<1>5. CollectionTypeOK'  BY <1>0, <1>1, <1>2, <1>4 DEF CollectionTypeOK
<1>6. ASSUME NEW b \in Attempts PROVE RowMove(b)
  <2>1. RowOK(b)  BY DEF CollectionInv
  <2>2. CASE b = a  BY <1>1, <2>1, <2>2 DEF RowMove, RowOK
  <2>3. CASE b # a  BY <1>1, <1>2, <2>1, <2>3, RowStays
  <2>4. QED  BY <2>2, <2>3
<1>7. QED  BY <1>1, <1>5, <1>6, LocalStep

LEMMA OutsideStep ==
  ASSUME CollectionInv,
         \/ \E i \in Invoices, state \in {"disputed", "settled"} : ChangeBalance(i, state)
         \/ \E active \in BOOLEAN : SetEnrollment(active)
         \/ \E state \in OrgStates : ChangeOrg(state)
         \/ \E r \in Runs, i \in Invoices : LoseSession(r, i)
  PROVE  CollectionInv'
<1>0. CollectionTypeOK  BY DEF CollectionInv
<1>1. /\ attempt' = attempt /\ receipt' = receipt /\ sub' = sub /\ run' = run
      /\ charge' = charge /\ taken' = taken /\ events' = events
  BY DEF ChangeBalance, SetEnrollment, ChangeOrg, LoseSession, provider, database
<1>2. balance' \in [Invoices -> {"owed", "disputed", "settled"}]
  BY <1>0 DEF ChangeBalance, SetEnrollment, ChangeOrg, LoseSession, database, CollectionTypeOK
<1>3. customer' \in Customer
  <2>1. customer \in Customer  BY <1>0 DEF CollectionTypeOK
  <2>2. \/ customer' = customer
        \/ \E active \in BOOLEAN : customer' = [customer EXCEPT !.enrolled = active]
        \/ \E state \in OrgStates : customer' = [customer EXCEPT !.org = state]
    BY DEF ChangeBalance, SetEnrollment, ChangeOrg, LoseSession, database
  <2>3. QED  BY <2>1, <2>2 DEF Customer
<1>4. claim' \in [Invoices -> Runs \cup {NoRun}]
  BY <1>0 DEF ChangeBalance, SetEnrollment, ChangeOrg, LoseSession, database, CollectionTypeOK
<1>5. CollectionTypeOK'  BY <1>0, <1>1, <1>2, <1>3, <1>4 DEF CollectionTypeOK
<1>6. \A a \in Attempts : RowMove(a)  BY <1>1, RowsStay
<1>7. QED  BY <1>1, <1>5, <1>6, LocalStep

-----------------------------------------------------------------------------
(* Steps of the provider *)

(* A payment is made, or comes to an end: nothing the provider had answered *)
(* or decided changes.                                                      *)
ChargeMove(a) ==
  /\ charge[a].answer # "none" => charge'[a].answer = charge[a].answer /\ charge'[a].age = charge[a].age
  /\ charge[a].outcome \in {"succeeded", "failed"} => charge'[a].outcome = charge[a].outcome
  /\ charge[a].answer = "none" /\ charge'[a].answer # "none" =>
       charge'[a].age = 0 /\ attempt[a].status # "absent"

LEMMA ChargeMovesRows ==
  ASSUME CollectionInv, NEW a \in Attempts, ChargeMove(a), attempt' = attempt, receipt' = receipt
  PROVE  RowOK(a)'
<1>1. RowOK(a) /\ ChargeOK(a)  BY DEF CollectionInv, ProviderInv
<1>2. attempt[a].age \in Nat /\ charge[a].age \in Nat
  <2>1. attempt[a] \in Attempt /\ charge[a] \in Charge  BY DEF CollectionInv, CollectionTypeOK
  <2>2. QED  BY <2>1, CollectionAssumption DEF Attempt, Charge
<1>3. Collected(a) => Collected(a)'  BY DEF Collected, ChargeMove
<1>4. Dead(a) => Dead(a)'  BY <1>1 DEF Dead, ChargeMove, ChargeOK
<1>5. EarlierFailed(a) => EarlierFailed(a)'  BY DEF EarlierFailed
<1>6. QED  BY <1>1, <1>2, <1>3, <1>4, <1>5 DEF RowOK, ChargeMove

LEMMA ChargeMovesRuns ==
  ASSUME CollectionInv, \A a \in Attempts : ChargeMove(a), attempt' = attempt, NEW r \in Runs, run'[r] = run[r]
  PROVE  RunOK(r)'
<1>1. run[r] \in Run  BY DEF CollectionInv, CollectionTypeOK
<1>2. PICK a \in Attempts : a = run[r].of /\ a = run'[r].of  BY <1>1 DEF Run
<1>3. RunOK(r) /\ ChargeMove(a)  BY DEF CollectionInv
<1>4. run[r].wait \in Nat  BY <1>1, CollectionAssumption DEF Run
<1>5. Collected(a) => Collected(a)'  BY <1>3 DEF Collected, ChargeMove
<1>6. (run[r].pc = "send" /\ charge'[a].answer # "none") => charge'[a].age < ReplayWindow + run[r].wait
  BY <1>2, <1>3, <1>4, CollectionAssumption DEF RunOK, ChargeMove
<1>7. run[r].pc = "answer" => charge'[a].answer = run[r].answer /\ run[r].answer # "none"
  BY <1>2, <1>3 DEF RunOK, ChargeMove
<1>8. QED  BY <1>2, <1>3, <1>5, <1>6, <1>7 DEF RunOK, EarlierFailed, Collected

LEMMA TakenFinite == \A i \in Invoices : IsFiniteSet(Taken(i))
<1>1. IsFiniteSet(Positions)  BY FS_Interval, CollectionAssumption DEF Positions
<1>2. QED  BY <1>1, FS_Subset DEF Taken

LEMMA EndsStep ==
  ASSUME CollectionInv, NEW a \in Attempts, NEW record \in Charge,
         NEW end \in {"succeeded", "failed", "open"}, Ends(a, record, end),
         charge[a].outcome \in {"none", "open"},
         charge[a].answer # "none" => record.answer = charge[a].answer /\ record.age = charge[a].age,
         charge[a].answer = "none" => record.age = 0 /\ attempt[a].status # "absent",
         record.answer # "none" /\ record.outcome # "none",
         record.answer = "succeeded" => record.outcome = "succeeded",
         record.answer \in {"soft", "hard"} => record.outcome = "failed",
         record.answer = "auth" => record.outcome # "failed",
         end = "succeeded" <=> record.outcome = "succeeded",
         end = "failed" => record.outcome = "failed"
  PROVE  /\ ProviderInv' /\ \A b \in Attempts : ChargeMove(b)
         /\ charge' \in [Attempts -> Charge] /\ taken' \in [Invoices -> Nat] /\ events' \subseteq Event
<1>0. CollectionTypeOK /\ ProviderInv  BY DEF CollectionInv
<1>1. /\ charge' \in [Attempts -> Charge] /\ charge'[a] = record
      /\ \A b \in Attempts \ {a} : charge'[b] = charge[b]
      /\ taken' \in [Invoices -> Nat]
      /\ taken'[a[1]] = (IF end = "succeeded" THEN taken[a[1]] + 1 ELSE taken[a[1]])
      /\ \A i \in Invoices \ {a[1]} : taken'[i] = taken[i]
      /\ events' \subseteq Event
      /\ \A e \in events' : e \in events \/ (e.of = a /\ e.status = end)
  BY <1>0, EndsReads
<1>2. ASSUME NEW b \in Attempts PROVE ChargeOK(b)'
  <2>1. CASE b = a  BY <1>1, <2>1 DEF ChargeOK
  <2>2. CASE b # a  BY <1>0, <1>1, <2>2 DEF ChargeOK, ProviderInv
  <2>3. QED  BY <2>1, <2>2
<1>3. ASSUME NEW b \in Attempts PROVE ChargeMove(b)
  <2>1. CASE b = a  BY <1>1, <2>1 DEF ChargeMove
  <2>2. CASE b # a  BY <1>1, <2>2 DEF ChargeMove
  <2>3. QED  BY <2>1, <2>2
<1>4. Announced'
  <2> SUFFICES ASSUME NEW e \in events' PROVE charge'[e.of].outcome = e.status
    BY DEF Announced
  <2>1. CASE e \in events
    <3>1. e.of \in Attempts /\ e.status \in {"succeeded", "failed"}  BY <1>0, <2>1 DEF CollectionTypeOK, Event
    <3>2. charge[e.of].outcome = e.status  BY <1>0, <2>1 DEF ProviderInv, Announced
    <3>3. QED  BY <1>3, <3>1, <3>2 DEF ChargeMove
  <2>2. CASE e.of = a /\ e.status = end
    <3>1. e.status \in {"succeeded", "failed"}
      <4>1. e \in Event  BY <1>1
      <4>2. QED  BY <4>1 DEF Event
    <3>2. QED  BY <1>1, <2>2, <3>1
  <2>3. QED  BY <1>1, <2>1, <2>2
<1>5. Counted'
  <2> SUFFICES ASSUME NEW i \in Invoices PROVE taken'[i] = Cardinality(Taken(i)')
    BY DEF Counted
  <2>0. taken[i] = Cardinality(Taken(i)) /\ IsFiniteSet(Taken(i))  BY <1>0, TakenFinite DEF ProviderInv, Counted
  <2>1. CASE i # a[1]
    <3>1. \A p \in Positions : <<i, p>> \in Attempts \ {a}  BY <2>1, AttemptKeys
    <3>2. Taken(i)' = Taken(i)  BY <1>1, <3>1 DEF Taken
    <3>3. QED  BY <1>1, <2>0, <2>1, <3>2
  <2>2. CASE i = a[1]
    <3>1. a = <<i, a[2]>> /\ a[2] \in Positions  BY <2>2, AttemptKeys
    <3>2. \A p \in Positions : p # a[2] => <<i, p>> \in Attempts \ {a}  BY <3>1, AttemptKeys
    <3>3. a[2] \notin Taken(i)  BY <3>1 DEF Taken
    <3>4. CASE end = "succeeded"
      <4>1. charge'[<<i, a[2]>>].outcome = "succeeded"  BY <1>1, <3>1, <3>4
      <4>2. \A p \in Positions : charge'[<<i, p>>].outcome = "succeeded" <=> p \in Taken(i) \cup {a[2]}
        BY <1>1, <3>2, <4>1 DEF Taken
      <4>3. Taken(i)' = Taken(i) \cup {a[2]}  BY <3>1, <4>2 DEF Taken
      <4>4. PICK T : T = Taken(i)  OBVIOUS
      <4>5. Cardinality(T \cup {a[2]}) = Cardinality(T) + 1
        <5>1. IsFiniteSet(T) /\ a[2] \notin T  BY <2>0, <3>3, <4>4
        <5>2. QED  BY <5>1, FS_AddElement
      <4>6. taken'[i] = taken[i] + 1  BY <1>1, <2>2, <3>4
      <4>7. QED  BY <2>0, <4>3, <4>4, <4>5, <4>6
    <3>5. CASE end # "succeeded"
      <4>1. charge'[<<i, a[2]>>].outcome # "succeeded"  BY <1>1, <3>1, <3>5
      <4>2. \A p \in Positions : charge'[<<i, p>>].outcome = "succeeded" <=> p \in Taken(i)
        BY <1>1, <3>2, <3>3, <4>1 DEF Taken
      <4>3. Taken(i)' = Taken(i)  BY <4>2 DEF Taken
      <4>4. QED  BY <1>1, <2>0, <2>2, <3>5, <4>3
    <3>6. QED  BY <3>4, <3>5
  <2>3. QED  BY <2>1, <2>2
<1>6. QED  BY <1>1, <1>2, <1>3, <1>4, <1>5 DEF ProviderInv

(* At "send", a known key is young enough to be replayed. *)
LEMMA KeyStillKnown ==
  ASSUME CollectionInv, NEW r \in Runs, run[r].pc = "send"
  PROVE  charge[run[r].of].answer = "none" \/ KnowsKey(run[r].of)
<1>1. run[r] \in Run  BY DEF CollectionInv, CollectionTypeOK
<1>2. PICK a \in Attempts : a = run[r].of  BY <1>1 DEF Run
<1>3. charge[a] \in Charge  BY DEF CollectionInv, CollectionTypeOK
<1>4. RunOK(r)  BY DEF CollectionInv
<1>5. run[r].wait \in 0..(KeyLife - ReplayWindow)  BY <1>1 DEF Run
<1>6. charge[a].age \in Nat  BY <1>3, CollectionAssumption DEF Charge
<1>7. charge[a].answer # "none" => charge[a].age < ReplayWindow + run[r].wait  BY <1>2, <1>4 DEF RunOK
<1>8. charge[a].answer # "none" => charge[a].age < KeyLife
  BY <1>5, <1>6, <1>7, CollectionAssumption
<1>9. QED  BY <1>2, <1>8 DEF KnowsKey

LEMMA SendChargeStep ==
  ASSUME CollectionInv, NEW r \in Runs, SendCharge(r)
  PROVE  CollectionInv'
<1>0. CollectionTypeOK  BY DEF CollectionInv
<1>1. PICK old \in Run : old = run[r]  BY <1>0 DEF CollectionTypeOK
<1>2. PICK a \in Attempts : a = run[r].of  BY <1>1 DEF Run
<1>3. PICK answer \in Answers :
        /\ run[r].pc = "send" /\ UNCHANGED <<database, claim>>
        /\ IF KnowsKey(a)
            THEN answer = charge[a].answer /\ UNCHANGED provider
            ELSE Ends(a, [answer |-> answer, age |-> 0, outcome |-> Outcome(answer)],
                      IF answer = "succeeded" THEN "succeeded" ELSE "open")
        /\ run' = [run EXCEPT ![r].pc = "answer", ![r].answer = answer]
  BY <1>2 DEF SendCharge
<1>4. PICK new \in Run : /\ new = [old EXCEPT !.pc = "answer", !.answer = answer]
                         /\ new.pc = "answer" /\ new.of = old.of /\ new.answer = answer
  <2>1. /\ [old EXCEPT !.pc = "answer", !.answer = answer] \in Run
        /\ [old EXCEPT !.pc = "answer", !.answer = answer].pc = "answer"
        /\ [old EXCEPT !.pc = "answer", !.answer = answer].of = old.of
        /\ [old EXCEPT !.pc = "answer", !.answer = answer].answer = answer
    BY DEF Run, Phases
  <2>2. QED  BY <2>1
<1>5. run' = [run EXCEPT ![r] = new]  BY <1>0, <1>1, <1>3, <1>4 DEF CollectionTypeOK
<1>6. WritesRun(r, new)  BY <1>0, <1>5, RunUpdate
<1>7. /\ attempt' = attempt /\ receipt' = receipt /\ balance' = balance /\ customer' = customer
      /\ sub' = sub /\ claim' = claim
  BY <1>3 DEF database
<1>8. RunOK(r) /\ EarlierFailed(a) /\ attempt[a].status # "absent"
  BY <1>2, <1>3 DEF CollectionInv, RunOK
<1>9. ASSUME charge'[a].answer = answer PROVE RunOK(r)'
  <2>1. run'[r] = new /\ new.of = a /\ new.pc = "answer" /\ new.answer = answer
    BY <1>1, <1>2, <1>4, <1>6 DEF WritesRun
  <2>2. answer # "none"  BY DEF Answers
  <2>3. QED  BY <1>7, <1>8, <1>9, <2>1, <2>2 DEF RunOK, EarlierFailed
<1>10. CASE KnowsKey(a)
  <2>1. charge' = charge /\ taken' = taken /\ events' = events  BY <1>3, <1>10 DEF provider
  <2>2. RunOK(r)'  BY <1>3, <1>9, <1>10, <2>1
  <2>3. CollectionTypeOK'  BY <1>0, <1>6, <1>7, <2>1 DEF CollectionTypeOK, WritesRun
  <2>4. \A b \in Attempts : RowMove(b)  BY <1>7, RowsStay
  <2>5. \A s \in Runs : run'[s] = run[s] \/ RunOK(s)'  BY <1>6, <2>2 DEF WritesRun
  <2>6. QED  BY <2>1, <2>3, <2>4, <2>5, LocalStep
<1>11. CASE ~KnowsKey(a)
  <2>1. charge[a].answer = "none"  BY <1>2, <1>3, <1>11, KeyStillKnown
  <2>2. PICK record \in Charge :
          /\ record = [answer |-> answer, age |-> 0, outcome |-> Outcome(answer)]
          /\ record.answer = answer /\ record.age = 0 /\ record.outcome = Outcome(answer)
    <3>1. Outcome(answer) \in {"none", "open", "succeeded", "failed"}  BY DEF Outcome, Answers
    <3>2. 0 \in 0..KeyLife  BY CollectionAssumption
    <3>3. [answer |-> answer, age |-> 0, outcome |-> Outcome(answer)] \in Charge  BY <3>1, <3>2 DEF Charge
    <3>4. QED  BY <3>3
  <2>3. PICK end \in {"succeeded", "failed", "open"} : end = IF answer = "succeeded" THEN "succeeded" ELSE "open"
    OBVIOUS
  <2>4. Ends(a, record, end)  BY <1>3, <1>11, <2>2, <2>3
  <2>5. /\ record.answer # "none" /\ record.outcome # "none"
        /\ record.answer = "succeeded" => record.outcome = "succeeded"
        /\ record.answer \in {"soft", "hard"} => record.outcome = "failed"
        /\ record.answer = "auth" => record.outcome # "failed"
        /\ end = "succeeded" <=> record.outcome = "succeeded"
        /\ end # "failed"
    BY <2>2, <2>3 DEF Outcome, Answers
  <2>6. charge[a].outcome = "none"  BY <2>1 DEF CollectionInv, ProviderInv, ChargeOK
  <2>7. /\ ProviderInv' /\ \A b \in Attempts : ChargeMove(b)
        /\ charge' \in [Attempts -> Charge] /\ taken' \in [Invoices -> Nat] /\ events' \subseteq Event
    BY <1>8, <2>1, <2>2, <2>4, <2>5, <2>6, EndsStep
  <2>8. charge'[a] = record  BY <1>0, <2>4, EndsReads
  <2>9. CollectionTypeOK'  BY <1>0, <1>6, <1>7, <2>7 DEF CollectionTypeOK, WritesRun
  <2>10. \A b \in Attempts : RowOK(b)'  BY <1>7, <2>7, ChargeMovesRows
  <2>11. \A s \in Runs : RunOK(s)'
    <3>1. RunOK(r)'  BY <1>9, <2>2, <2>8
    <3>2. \A s \in Runs \ {r} : RunOK(s)'  BY <1>6, <1>7, <2>7, ChargeMovesRuns DEF WritesRun
    <3>3. QED  BY <3>1, <3>2
  <2>12. QED  BY <2>7, <2>9, <2>10, <2>11 DEF CollectionInv
<1>12. QED  BY <1>10, <1>11

(* An asynchronous payment ends, or the customer confirms one. *)
LEMMA PaymentEndsStep ==
  ASSUME CollectionInv, NEW a \in Attempts, SettlePayment(a) \/ VerifyPayment(a)
  PROVE  CollectionInv'
<1>0. CollectionTypeOK  BY DEF CollectionInv
<1>1. PICK old \in Charge : old = charge[a]  BY <1>0 DEF CollectionTypeOK
<1>2. PICK end \in {"succeeded", "failed"} :
        /\ old.answer = "processing" \/ (old.answer = "auth" /\ end = "succeeded")
        /\ old.outcome = "open" /\ Ends(a, [old EXCEPT !.outcome = end], end)
        /\ UNCHANGED <<database, claim, run>>
  BY <1>1 DEF SettlePayment, VerifyPayment
<1>3. PICK record \in Charge : /\ record = [old EXCEPT !.outcome = end]
                               /\ record.outcome = end /\ record.answer = old.answer /\ record.age = old.age
  <2>1. /\ [old EXCEPT !.outcome = end] \in Charge
        /\ [old EXCEPT !.outcome = end].outcome = end
        /\ [old EXCEPT !.outcome = end].answer = old.answer
        /\ [old EXCEPT !.outcome = end].age = old.age
    BY DEF Charge
  <2>2. QED  BY <2>1
<1>4. Ends(a, record, end)  BY <1>2, <1>3
<1>5. /\ ProviderInv' /\ \A b \in Attempts : ChargeMove(b)
      /\ charge' \in [Attempts -> Charge] /\ taken' \in [Invoices -> Nat] /\ events' \subseteq Event
  BY <1>1, <1>2, <1>3, <1>4, EndsStep
<1>6. /\ attempt' = attempt /\ receipt' = receipt /\ balance' = balance /\ customer' = customer
      /\ sub' = sub /\ claim' = claim /\ run' = run
  BY <1>2 DEF database
<1>7. CollectionTypeOK'  BY <1>0, <1>5, <1>6 DEF CollectionTypeOK
<1>8. \A b \in Attempts : RowOK(b)'  BY <1>5, <1>6, ChargeMovesRows
<1>9. \A s \in Runs : RunOK(s)'  BY <1>5, <1>6, ChargeMovesRuns
<1>10. QED  BY <1>5, <1>7, <1>8, <1>9 DEF CollectionInv

-----------------------------------------------------------------------------
(* An hour passes. *)
LEMMA OlderFacts ==
  ASSUME NEW limit \in Nat, NEW n \in 0..limit
  PROVE  /\ Older(n, limit) \in 0..limit /\ Older(n, limit) <= n + 1 /\ n <= Older(n, limit)
         /\ Older(n, limit) < limit => Older(n, limit) = n + 1
BY DEF Older

LEMMA HourAges ==
  ASSUME CollectionTypeOK, PassHour, NEW a \in Attempts
  PROVE  /\ attempt'[a] \in Attempt /\ charge'[a] \in Charge
         /\ attempt'[a].status = attempt[a].status /\ attempt'[a].ref = attempt[a].ref
         /\ attempt[a].status = "initiated" => attempt'[a].age = Older(attempt[a].age, ReplayWindow)
         /\ charge'[a].answer = charge[a].answer /\ charge'[a].outcome = charge[a].outcome
         /\ charge[a].answer # "none" => charge'[a].age = Older(charge[a].age, KeyLife)
<1>1. PICK row \in Attempt : row = attempt[a]  BY DEF CollectionTypeOK
<1>2. PICK old \in Charge : old = charge[a]  BY DEF CollectionTypeOK
<1>3. row.age \in 0..ReplayWindow /\ old.age \in 0..KeyLife  BY DEF Attempt, Charge
<1>4. PICK age \in 0..ReplayWindow : age = Older(row.age, ReplayWindow)
  BY <1>3, OlderFacts, CollectionAssumption
<1>5. PICK hours \in 0..KeyLife : hours = Older(old.age, KeyLife)
  BY <1>3, OlderFacts, CollectionAssumption
<1>6. attempt'[a] = IF row.status = "initiated" THEN [row EXCEPT !.age = age] ELSE row
  BY <1>1, <1>4 DEF PassHour
<1>7. charge'[a] = IF old.answer # "none" THEN [old EXCEPT !.age = hours] ELSE old
  BY <1>2, <1>5 DEF PassHour
<1>8. /\ [row EXCEPT !.age = age] \in Attempt /\ [row EXCEPT !.age = age].age = age
      /\ [row EXCEPT !.age = age].status = row.status /\ [row EXCEPT !.age = age].ref = row.ref
  BY DEF Attempt
<1>9. /\ [old EXCEPT !.age = hours] \in Charge /\ [old EXCEPT !.age = hours].age = hours
      /\ [old EXCEPT !.age = hours].answer = old.answer /\ [old EXCEPT !.age = hours].outcome = old.outcome
  BY DEF Charge
<1>10. QED  BY <1>1, <1>2, <1>4, <1>5, <1>6, <1>7, <1>8, <1>9

LEMMA HourWaits ==
  ASSUME CollectionTypeOK, PassHour, NEW r \in Runs
  PROVE  /\ run'[r] \in Run /\ run'[r].pc = run[r].pc /\ run'[r].of = run[r].of
         /\ run'[r].answer = run[r].answer
         /\ run[r].pc = "send" => run'[r].wait = run[r].wait + 1
<1>1. PICK old \in Run : old = run[r]  BY DEF CollectionTypeOK
<1>2. run'[r] = IF old.pc = "send" THEN [old EXCEPT !.wait = old.wait + 1] ELSE old
  BY <1>1 DEF PassHour
<1>3. old.pc = "send" => old.wait < KeyLife - ReplayWindow  BY <1>1 DEF PassHour
<1>4. old.wait \in 0..(KeyLife - ReplayWindow)  BY DEF Run
<1>5. CASE old.pc = "send"
  <2>1. PICK wait \in 0..(KeyLife - ReplayWindow) : wait = old.wait + 1
    BY <1>3, <1>4, <1>5, CollectionAssumption
  <2>2. /\ [old EXCEPT !.wait = wait] \in Run /\ [old EXCEPT !.wait = wait].wait = wait
        /\ [old EXCEPT !.wait = wait].pc = old.pc /\ [old EXCEPT !.wait = wait].of = old.of
        /\ [old EXCEPT !.wait = wait].answer = old.answer
    BY DEF Run
  <2>3. run'[r] = [old EXCEPT !.wait = wait]  BY <1>2, <1>5, <2>1
  <2>4. QED  BY <1>1, <2>1, <2>2, <2>3
<1>6. CASE old.pc # "send"  BY <1>1, <1>2, <1>6
<1>7. QED  BY <1>5, <1>6

LEMMA PassHourStep ==
  ASSUME CollectionInv, PassHour
  PROVE  CollectionInv'
<1>0. CollectionTypeOK /\ ProviderInv  BY DEF CollectionInv
<1>1. /\ receipt' = receipt /\ balance' = balance /\ customer' = customer /\ sub' = sub
      /\ claim' = claim /\ taken' = taken /\ events' = events
  BY DEF PassHour
<1>2. CollectionTypeOK'
  <2>1. attempt' = [a \in Attempts |-> attempt'[a]] /\ charge' = [a \in Attempts |-> charge'[a]]
    BY DEF PassHour
  <2>2. run' = [r \in Runs |-> run'[r]]  BY DEF PassHour
  <2>3. attempt' \in [Attempts -> Attempt]
    <3>1. \A a \in Attempts : attempt'[a] \in Attempt  BY <1>0, HourAges
    <3>2. QED  BY <2>1, <3>1
  <2>4. charge' \in [Attempts -> Charge]
    <3>1. \A a \in Attempts : charge'[a] \in Charge  BY <1>0, HourAges
    <3>2. QED  BY <2>1, <3>1
  <2>5. run' \in [Runs -> Run]
    <3>1. \A r \in Runs : run'[r] \in Run  BY <1>0, HourWaits
    <3>2. QED  BY <2>2, <3>1
  <2>6. QED  BY <1>0, <1>1, <2>3, <2>4, <2>5 DEF CollectionTypeOK
<1>3. \A a \in Attempts : /\ charge'[a].answer = charge[a].answer /\ charge'[a].outcome = charge[a].outcome
                          /\ attempt'[a].status = attempt[a].status /\ attempt'[a].ref = attempt[a].ref
  BY <1>0, HourAges
<1>4. ProviderInv'
  <2>1. \A a \in Attempts : ChargeOK(a)'  BY <1>0, <1>3 DEF ProviderInv, ChargeOK
  <2>2. Counted'
    <3>1. \A i \in Invoices : Taken(i)' = Taken(i)  BY <1>3, AttemptKeys DEF Taken
    <3>2. QED  BY <1>0, <1>1, <3>1 DEF ProviderInv, Counted
  <2>3. Announced'
    <3>1. \A e \in events : e.of \in Attempts  BY <1>0 DEF CollectionTypeOK, Event
    <3>2. QED  BY <1>0, <1>1, <1>3, <3>1 DEF ProviderInv, Announced
  <2>4. QED  BY <2>1, <2>2, <2>3 DEF ProviderInv
<1>5. \A a \in Attempts : /\ EarlierFailed(a)' <=> EarlierFailed(a)
                          /\ Collected(a)' <=> Collected(a)
                          /\ Dead(a)' <=> Dead(a)
  BY <1>3, AttemptKeys DEF EarlierFailed, Collected, Dead
<1>6. ASSUME NEW a \in Attempts PROVE RowOK(a)'
  <2>1. RowOK(a)  BY DEF CollectionInv
  <2>2. attempt[a] \in Attempt /\ charge[a] \in Charge  BY <1>0 DEF CollectionTypeOK
  <2>3. attempt[a].age \in 0..ReplayWindow /\ charge[a].age \in 0..KeyLife  BY <2>2 DEF Attempt, Charge
  <2>4. (charge[a].answer # "none" /\ attempt[a].status = "initiated" /\ attempt'[a].age < ReplayWindow)
          => charge'[a].age <= attempt'[a].age
    <3>1. SUFFICES ASSUME charge[a].answer # "none", attempt[a].status = "initiated",
                          attempt'[a].age < ReplayWindow
                   PROVE  charge'[a].age <= attempt'[a].age
      OBVIOUS
    <3>2. attempt'[a].age = Older(attempt[a].age, ReplayWindow) /\ charge'[a].age = Older(charge[a].age, KeyLife)
      BY <1>0, <3>1, HourAges
    <3>3. attempt'[a].age = attempt[a].age + 1  BY <2>3, <3>1, <3>2, OlderFacts, CollectionAssumption
    <3>4. charge'[a].age <= charge[a].age + 1 /\ charge'[a].age \in 0..KeyLife
      BY <2>3, <3>2, OlderFacts, CollectionAssumption
    <3>5. attempt[a].age < ReplayWindow  BY <2>3, <3>1, <3>3, CollectionAssumption
    <3>6. charge[a].age <= attempt[a].age  BY <2>1, <3>1, <3>5 DEF RowOK
    <3>7. QED  BY <2>3, <3>3, <3>4, <3>6, CollectionAssumption
  <2>5. QED  BY <1>1, <1>3, <1>5, <2>1, <2>4 DEF RowOK
<1>7. ASSUME NEW r \in Runs PROVE RunOK(r)'
  <2>1. run[r] \in Run  BY <1>0 DEF CollectionTypeOK
  <2>2. /\ run'[r].pc = run[r].pc /\ run'[r].of = run[r].of /\ run'[r].answer = run[r].answer
        /\ run[r].pc = "send" => run'[r].wait = run[r].wait + 1
    BY <1>0, HourWaits
  <2>3. PICK a \in Attempts : a = run[r].of  BY <2>1 DEF Run
  <2>4. RunOK(r)  BY DEF CollectionInv
  <2>5. (run[r].pc = "send" /\ charge[a].answer # "none") => charge'[a].age < ReplayWindow + run'[r].wait
    <3>1. SUFFICES ASSUME run[r].pc = "send", charge[a].answer # "none"
                   PROVE  charge'[a].age < ReplayWindow + run'[r].wait
      OBVIOUS
    <3>2. charge[a] \in Charge  BY <1>0 DEF CollectionTypeOK
    <3>3. charge[a].age \in 0..KeyLife /\ run[r].wait \in 0..(KeyLife - ReplayWindow)
      BY <2>1, <3>2 DEF Charge, Run
    <3>4. charge'[a].age = Older(charge[a].age, KeyLife)  BY <1>0, <3>1, HourAges
    <3>5. charge'[a].age <= charge[a].age + 1 /\ charge'[a].age \in 0..KeyLife
      BY <3>3, <3>4, OlderFacts, CollectionAssumption
    <3>6. charge[a].age < ReplayWindow + run[r].wait  BY <2>3, <2>4, <3>1 DEF RunOK
    <3>7. QED  BY <2>2, <3>1, <3>3, <3>5, <3>6, CollectionAssumption
  <2>6. QED  BY <1>3, <1>5, <2>2, <2>3, <2>4, <2>5 DEF RunOK
<1>8. QED  BY <1>2, <1>4, <1>6, <1>7 DEF CollectionInv

-----------------------------------------------------------------------------
LEMMA InitOK == Init => CollectionInv
<1> SUFFICES ASSUME Init PROVE CollectionInv  OBVIOUS
<1>1. PICK none \in Charge : none = [answer |-> "none", age |-> 0, outcome |-> "none"]
                             /\ none.answer = "none" /\ none.outcome = "none"
  <2>1. [answer |-> "none", age |-> 0, outcome |-> "none"] \in Charge
    BY CollectionAssumption DEF Charge
  <2>2. QED  BY <2>1
<1>2. PICK row \in Attempt : row = NoAttempt /\ row.status = "absent" /\ row.ref = FALSE
  BY NoAttemptFacts
<1>3. PICK idle \in Run : idle = Idle /\ idle.pc = "idle"  BY IdleFacts
<1>4. \A a \in Attempts : charge[a] = none /\ attempt[a] = row /\ receipt[a] = "none"
  BY <1>1, <1>2 DEF Init
<1>5. \A r \in Runs : run[r] = idle  BY <1>3 DEF Init
<1>6. CollectionTypeOK
  <2>1. attempt \in [Attempts -> Attempt] /\ receipt \in [Attempts -> Receipts]
    BY <1>2 DEF Init, Receipts
  <2>2. charge \in [Attempts -> Charge] /\ run \in [Runs -> Run]  BY <1>1, <1>3 DEF Init
  <2>3. customer \in Customer  BY CollectionAssumption DEF Init, Customer
  <2>4. QED  BY <2>1, <2>2, <2>3 DEF Init, CollectionTypeOK
<1>7. ProviderInv
  <2>1. \A a \in Attempts : ChargeOK(a)  BY <1>1, <1>4 DEF ChargeOK
  <2>2. Counted
    <3>1. \A i \in Invoices : Taken(i) = {}  BY <1>1, <1>4, AttemptKeys DEF Taken
    <3>2. QED  BY <3>1, FS_EmptySet DEF Init, Counted
  <2>3. Announced  BY DEF Init, Announced
  <2>4. QED  BY <2>1, <2>2, <2>3 DEF ProviderInv
<1>8. \A a \in Attempts : RowOK(a)  BY <1>1, <1>2, <1>4 DEF RowOK
<1>9. \A r \in Runs : RunOK(r)  BY <1>3, <1>5 DEF RunOK
<1>10. QED  BY <1>6, <1>7, <1>8, <1>9 DEF CollectionInv

LEMMA CollectionKept == CollectionInv /\ [Next]_vars => CollectionInv'
<1> SUFFICES ASSUME CollectionInv, [Next]_vars PROVE CollectionInv'  OBVIOUS
<1>1. ASSUME NEW r \in Runs,
             \/ \E i \in Invoices : SelectInitial(r, i)
             \/ \E a \in Attempts : SelectRetry(r, a) \/ RetryAttemptNow(r, a) \/ SelectInterrupted(r, a)
      PROVE  CollectionInv'
  BY <1>1, SelectionStep
<1>2. ASSUME NEW r \in Runs, CollectionStep(r) PROVE CollectionInv'
  <2>1. CASE RefuseReceipt(r)  BY <2>1, FinishStep DEF RefuseReceipt
  <2>2. QED
    BY <1>2, <2>1, TakeClaimStep, ClaimAttemptStep, SendChargeStep, RecordChargeOutcomeStep,
       PostReceiptStep, ResumeAttemptStep, CloseStep DEF CollectionStep
<1>3. ASSUME NEW r \in Runs, Interrupt(r) PROVE CollectionInv'
  BY <1>3, FinishStep DEF Interrupt
<1>4. ASSUME NEW r \in Runs, NEW i \in Invoices, LoseSession(r, i) PROVE CollectionInv'
  BY <1>4, OutsideStep
<1>5. ASSUME NEW a \in Attempts, SettlePayment(a) \/ VerifyPayment(a) \/ ApproveReceipt(a) PROVE CollectionInv'
  BY <1>5, PaymentEndsStep, ApproveReceiptStep
<1>6. ASSUME NEW e \in events, SettleEvent(e) PROVE CollectionInv'  BY <1>6, SettleEventStep
<1>7. ASSUME NEW i \in Invoices, NEW state \in {"disputed", "settled"}, ChangeBalance(i, state)
      PROVE  CollectionInv'
  BY <1>7, OutsideStep
<1>8. CASE ReconcileProcessing  BY <1>8, ReconcileStep
<1>9. CASE (\E active \in BOOLEAN : SetEnrollment(active)) \/ (\E state \in OrgStates : ChangeOrg(state))
  BY <1>9, OutsideStep
<1>10. CASE PassHour  BY <1>10, PassHourStep
<1>11. CASE UNCHANGED vars
  <2>1. /\ attempt' = attempt /\ receipt' = receipt /\ balance' = balance /\ customer' = customer
        /\ sub' = sub /\ claim' = claim /\ run' = run /\ charge' = charge /\ taken' = taken /\ events' = events
    BY <1>11 DEF vars
  <2>2. CollectionTypeOK'  BY <2>1 DEF CollectionInv, CollectionTypeOK
  <2>3. \A a \in Attempts : RowMove(a)  BY <2>1, RowsStay
  <2>4. QED  BY <2>1, <2>2, <2>3, LocalStep
<1>12. QED
  BY <1>1, <1>2, <1>3, <1>4, <1>5, <1>6, <1>7, <1>8, <1>9, <1>10, <1>11 DEF Next

-----------------------------------------------------------------------------
(* What follows *)
LEMMA CollectionHolds == Spec => []CollectionInv
<1>1. Init => CollectionInv  BY InitOK
<1>2. CollectionInv /\ [Next]_vars => CollectionInv'  BY CollectionKept
<1>3. QED  BY <1>1, <1>2, PTL DEF Spec

(* Every step of the runs, the provider, the webhooks and the clock keeps   *)
(* attempts, receipts, runs and the provider's records within their types:  *)
(* in particular no run's wait outgrows the margin left below KeyLife.      *)
THEOREM TypeCorrect == Spec => []CollectionTypeOK
<1>1. CollectionInv => CollectionTypeOK  BY DEF CollectionInv
<1>2. QED  BY <1>1, CollectionHolds, PTL

(* A later position is charged only after every earlier one failed for good. *)
LEMMA OneCollects ==
  ASSUME CollectionInv, NEW i \in Invoices, NEW p \in Positions, NEW q \in Positions, p < q,
         charge[<<i, p>>].outcome = "succeeded", charge[<<i, q>>].outcome = "succeeded"
  PROVE  charge[<<i, p>>].answer = "auth"
<1>1. PICK a \in Attempts : a = <<i, p>>  BY AttemptKeys
<1>2. PICK b \in Attempts : b = <<i, q>> /\ b[1] = i /\ b[2] = q  BY AttemptKeys
<1>3. RowOK(b) /\ ChargeOK(b) /\ RowOK(a) /\ ChargeOK(a)  BY DEF CollectionInv, ProviderInv
<1>4. attempt[b].status # "absent"  BY <1>2, <1>3 DEF RowOK, ChargeOK
<1>5. EarlierFailed(b)  BY <1>3, <1>4 DEF RowOK
<1>6. attempt[a].status = "failed"  BY <1>1, <1>2, <1>5 DEF EarlierFailed
<1>7. Dead(a)  BY <1>3, <1>6 DEF RowOK
<1>8. QED  BY <1>1, <1>3, <1>7 DEF Dead, ChargeOK

LEMMA AtMostOneMore ==
  ASSUME CollectionInv, NEW i \in Invoices
  PROVE  Cardinality(Taken(i)) - Cardinality(Confirmed(i)) <= 1
<1>1. Confirmed(i) \subseteq Taken(i)  BY DEF Confirmed, Taken, Positions
<1>2. \A p \in Taken(i) : p \in Confirmed(i) \/ charge[<<i, p>>].answer # "auth"
  BY DEF Confirmed, Taken, Positions
<1>3. \A p, q \in Taken(i) \ Confirmed(i) : p = q
  <2> SUFFICES ASSUME NEW p \in Taken(i) \ Confirmed(i), NEW q \in Taken(i) \ Confirmed(i), p # q
               PROVE  FALSE
    OBVIOUS
  <2>1. p \in Positions /\ q \in Positions  BY DEF Taken
  <2>2. p < q \/ q < p  BY <2>1, CollectionAssumption DEF Positions
  <2>3. charge[<<i, p>>].outcome = "succeeded" /\ charge[<<i, q>>].outcome = "succeeded"  BY DEF Taken
  <2>4. charge[<<i, p>>].answer # "auth" /\ charge[<<i, q>>].answer # "auth"  BY <1>2
  <2>5. CASE p < q  BY <2>1, <2>3, <2>4, <2>5, OneCollects
  <2>6. CASE q < p  BY <2>1, <2>3, <2>4, <2>6, OneCollects
  <2>7. QED  BY <2>2, <2>5, <2>6
<1>4. PICK C : C = Confirmed(i)  OBVIOUS
<1>5. IsFiniteSet(C) /\ Cardinality(C) \in Nat  BY <1>1, <1>4, TakenFinite, FS_Subset, FS_CardinalityType
<1>6. CASE Taken(i) = C  BY <1>4, <1>5, <1>6
<1>7. CASE Taken(i) # C
  <2>1. PICK p \in Taken(i) : p \notin C  BY <1>1, <1>4, <1>7
  <2>2. Taken(i) = C \cup {p}  BY <1>1, <1>3, <1>4, <2>1
  <2>3. Cardinality(C \cup {p}) = Cardinality(C) + 1  BY <1>5, <2>1, FS_AddElement
  <2>4. QED  BY <1>4, <1>5, <2>2, <2>3
<1>8. QED  BY <1>6, <1>7

(* However many runs, retries, backups, interruptions, lost sessions and    *)
(* redelivered webhooks there are, the provider takes an invoice's money at *)
(* most once, payments the customer confirmed by hand not counted.          *)
THEOREM InvoiceChargedOnce == Spec => []ChargedOnce
<1>1. CollectionInv => ChargedOnce
  <2> SUFFICES ASSUME CollectionInv, NEW i \in Invoices PROVE taken[i] - Cardinality(Confirmed(i)) <= 1
    BY DEF ChargedOnce
  <2>1. taken[i] = Cardinality(Taken(i))  BY DEF CollectionInv, ProviderInv, Counted
  <2>2. QED  BY <2>1, AtMostOneMore
<1>2. QED  BY <1>1, CollectionHolds, PTL

(* Only sending a charge under a fresh key makes the provider answer. *)
LEMMA AnswersStay ==
  ASSUME CollectionInv, [Next]_vars, NEW a \in Attempts, charge'[a].answer # charge[a].answer
  PROVE  charge[a].answer = "none" /\ attempt[a].status # "absent"
<1>0. CollectionTypeOK  BY DEF CollectionInv
<1>1. charge' # charge  OBVIOUS
<1>2. CASE PassHour  BY <1>0, <1>2, HourAges
<1>3. ASSUME NEW b \in Attempts, SettlePayment(b) \/ VerifyPayment(b) PROVE FALSE
  <2>1. PICK old \in Charge : old = charge[b]  BY <1>0 DEF CollectionTypeOK
  <2>2. PICK end \in {"succeeded", "failed"} : charge' = [charge EXCEPT ![b] = [old EXCEPT !.outcome = end]]
    BY <1>3, <2>1 DEF SettlePayment, VerifyPayment, Ends
  <2>3. [old EXCEPT !.outcome = end].answer = old.answer  BY DEF Charge
  <2>4. charge'[a].answer = charge[a].answer  BY <1>0, <2>1, <2>2, <2>3 DEF CollectionTypeOK
  <2>5. QED  BY <2>4
<1>4. ASSUME NEW r \in Runs, SendCharge(r) PROVE charge[a].answer = "none" /\ attempt[a].status # "absent"
  <2>1. run[r] \in Run  BY <1>0 DEF CollectionTypeOK
  <2>2. PICK b \in Attempts : b = run[r].of  BY <2>1 DEF Run
  <2>3. run[r].pc = "send" /\ ~KnowsKey(b)  BY <1>1, <1>4, <2>2 DEF SendCharge, provider
  <2>4. charge[b].answer = "none"  BY <2>2, <2>3, KeyStillKnown
  <2>5. attempt[b].status # "absent"  BY <2>2, <2>3 DEF CollectionInv, RunOK
  <2>6. PICK record : charge' = [charge EXCEPT ![b] = record]  BY <1>4, <2>2, <2>3 DEF SendCharge, Ends
  <2>7. a = b  BY <1>0, <2>6 DEF CollectionTypeOK
  <2>8. QED  BY <2>4, <2>5, <2>7
<1>5. ASSUME NEW r \in Runs, NEW i \in Invoices, SelectInitial(r, i) \/ LoseSession(r, i) PROVE FALSE
  BY <1>1, <1>5 DEF SelectInitial, Select, LoseSession, provider
<1>6. ASSUME NEW r \in Runs, NEW b \in Attempts,
             SelectRetry(r, b) \/ RetryAttemptNow(r, b) \/ SelectInterrupted(r, b)
      PROVE  FALSE
  BY <1>1, <1>6 DEF SelectRetry, RetryAttemptNow, SelectInterrupted, Select, provider
<1>7. ASSUME NEW r \in Runs,
             \/ TakeClaim(r) \/ ClaimAttempt(r) \/ RecordChargeOutcome(r) \/ PostReceipt(r)
             \/ RefuseReceipt(r) \/ ResumeAttempt(r) \/ CloseInterruptedAttempt(r) \/ Interrupt(r)
      PROVE  FALSE
  BY <1>1, <1>7 DEF TakeClaim, ClaimAttempt, RecordChargeOutcome, PostReceipt, RefuseReceipt,
                    ResumeAttempt, CloseInterruptedAttempt, Interrupt, provider
<1>8. ASSUME NEW b \in Attempts, ApproveReceipt(b) PROVE FALSE  BY <1>1, <1>8 DEF ApproveReceipt, provider
<1>9. ASSUME NEW e \in events, SettleEvent(e) PROVE FALSE  BY <1>1, <1>9 DEF SettleEvent, provider
<1>10. ASSUME NEW i \in Invoices, NEW state \in {"disputed", "settled"}, ChangeBalance(i, state) PROVE FALSE
  BY <1>1, <1>10 DEF ChangeBalance, provider
<1>11. /\ ~ReconcileProcessing /\ ~UNCHANGED vars
       /\ \A active \in BOOLEAN : ~SetEnrollment(active)
       /\ \A state \in OrgStates : ~ChangeOrg(state)
  BY <1>1 DEF ReconcileProcessing, SetEnrollment, ChangeOrg, vars, provider
<1>12. QED
  BY <1>2, <1>3, <1>4, <1>5, <1>6, <1>7, <1>8, <1>9, <1>10, <1>11 DEF Next, CollectionStep

(* "Autopay no longer charges this invoice": once an attempt was closed     *)
(* with its outcome unknown, no step makes the provider answer a charge of  *)
(* another position of that invoice.                                        *)
THEOREM UnknownIsNotCharged == Spec => UnknownStopsCharging
<1>1. ASSUME CollectionInv, [Next]_vars, NEW i \in Invoices, NEW p \in 0..MaxPosition, NEW q \in 0..MaxPosition,
             attempt[<<i, p>>].status = "canceled", q # p
      PROVE  charge'[<<i, q>>].answer = charge[<<i, q>>].answer
  <2> SUFFICES ASSUME charge'[<<i, q>>].answer # charge[<<i, q>>].answer PROVE FALSE  OBVIOUS
  <2>1. p \in Positions /\ q \in Positions /\ (p < q \/ q < p)  BY <1>1, CollectionAssumption DEF Positions
  <2>2. PICK a \in Attempts : a = <<i, p>> /\ a[1] = i /\ a[2] = p  BY <2>1, AttemptKeys
  <2>3. PICK b \in Attempts : b = <<i, q>> /\ b[1] = i /\ b[2] = q  BY <2>1, AttemptKeys
  <2>4. charge[b].answer = "none" /\ attempt[b].status # "absent"  BY <1>1, <2>3, AnswersStay
  <2>5. RowOK(a) /\ RowOK(b) /\ ChargeOK(b)  BY <1>1 DEF CollectionInv, ProviderInv
  <2>6. EarlierFailed(a) /\ EarlierFailed(b)  BY <1>1, <2>2, <2>4, <2>5 DEF RowOK
  <2>7. CASE p < q  BY <1>1, <2>1, <2>2, <2>3, <2>6, <2>7 DEF EarlierFailed
  <2>8. CASE q < p
    <3>1. attempt[b].status = "failed"  BY <2>1, <2>2, <2>3, <2>6, <2>8 DEF EarlierFailed
    <3>2. Dead(b)  BY <2>5, <3>1 DEF RowOK
    <3>3. QED  BY <2>4, <2>5, <3>2 DEF Dead, ChargeOK
  <2>9. QED  BY <2>1, <2>7, <2>8
<1>2. CollectionInv /\ [Next]_vars =>
        [\A i \in Invoices, p, q \in 0..MaxPosition :
           (attempt[<<i, p>>].status = "canceled" /\ q # p) =>
             charge'[<<i, q>>].answer = charge[<<i, q>>].answer]_vars
  BY <1>1
<1>3. QED  BY <1>2, CollectionHolds, PTL DEF Spec, UnknownStopsCharging

=============================================================================
