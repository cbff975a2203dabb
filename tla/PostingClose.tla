---------------------------- MODULE PostingClose ----------------------------
(***************************************************************************)
(* Posting against closing: the period locks of PeriodLocks, composed with *)
(* the transactions that post documents into the period and with the       *)
(* outbox rows those postings leave.                                       *)
(*                                                                         *)
(* A posting transaction takes the shared side of the period fence, checks *)
(* that the document's module and GL are open for every subsidiary of its  *)
(* lines, writes its journal, and holds the fence until it commits or      *)
(* rolls back.  Every transaction of PeriodLocks takes the exclusive side  *)
(* first and holds it to its commit, so it is one step that no posting     *)
(* straddles.  Closing GL also requires that no posting of its scope still *)
(* owes downstream effects.  Time needs no fence.                          *)
(***************************************************************************)
EXTENDS PeriodLocks

CONSTANTS Docs   \* documents posted into the period, one transaction each

VARIABLES
  posting,  \* the posting transaction of each document
  effect    \* its posting_effects row; PostingEffects details how it moves

pvars == <<posting, effect>>

allvars == <<lock, request, job, posting, effect>>

Stages == {"approved", "fenced", "checked", "posted"}

Posting == [stage : Stages, subs : SUBSET Subs, module : Modules]

Effects == {"absent", "pending", "terminal_failed", "succeeded"}

NotPosted == [stage |-> "approved", subs |-> {}, module |-> GL]

PCInit ==
  /\ Init
  /\ posting = [d \in Docs |-> NotPosted]
  /\ effect = [d \in Docs |-> "absent"]

-----------------------------------------------------------------------------
(* The modules a posting must find open: its own, and always GL. *)
BlockedFor(d) ==
  \E s \in posting[d].subs, m \in {posting[d].module, GL} :
    BlocksPosting(EffectiveLock(lock, s, m))

(* pg_advisory_xact_lock_shared, held to the end of the transaction *)
HoldsFence(d) == posting[d].stage \in {"fenced", "checked"}

(* holdPeriodPostingFence in lockPostingScope *)
BeginPosting(d, S, m) ==
  /\ posting[d].stage = "approved"
  /\ S # {}
  /\ posting' = [posting EXCEPT ![d] = [stage |-> "fenced", subs |-> S, module |-> m]]
  /\ UNCHANGED <<lock, request, job, effect>>

(* Mutant: the document's own module is not asked. *)
AssertPeriodOpenGLOnly(d) ==
  /\ posting[d].stage = "fenced"
  /\ \A s \in posting[d].subs : ~BlocksPosting(EffectiveLock(lock, s, GL))
  /\ posting' = [posting EXCEPT ![d].stage = "checked"]
  /\ UNCHANGED <<lock, request, job, effect>>

(* assertDocumentPeriodOpen, and again je_guard when the entry is flipped   *)
AssertPeriodOpen(d) ==
  /\ posting[d].stage = "fenced"
  /\ ~BlockedFor(d)
  /\ posting' = [posting EXCEPT ![d].stage = "checked"]
  /\ UNCHANGED <<lock, request, job, effect>>

(* The journal, the document's flip and the outbox row commit together. *)
CommitPosting(d) ==
  /\ posting[d].stage = "checked"
  /\ posting' = [posting EXCEPT ![d].stage = "posted"]
  /\ effect' = [effect EXCEPT ![d] = "pending"]
  /\ UNCHANGED <<lock, request, job>>

(* Any refusal, error or lost connection: the document stays approved. *)
RollbackPosting(d) ==
  /\ posting[d].stage \in {"fenced", "checked"}
  /\ posting' = [posting EXCEPT ![d] = NotPosted]
  /\ UNCHANGED <<lock, request, job, effect>>

-----------------------------------------------------------------------------
(* A drain succeeds only while its own journals (inventory, obligations)    *)
(* may still be posted into the period; otherwise it uses up its attempts.  *)
DrainEffect(d) ==
  /\ effect[d] = "pending"
  /\ \/ ~BlockedFor(d) /\ effect' = [effect EXCEPT ![d] = "succeeded"]
     \/ effect' = [effect EXCEPT ![d] = "terminal_failed"]
  /\ UNCHANGED <<lock, request, job, posting>>

ReplayEffect(d) ==
  /\ effect[d] = "terminal_failed"
  /\ effect' = [effect EXCEPT ![d] = "pending"]
  /\ UNCHANGED <<lock, request, job, posting>>

(* incompletePostingEffectsCount of a close scope: zero *)
Incomplete(d) == effect[d] \in {"pending", "terminal_failed"}

(* Mutant: only work that will be retried counts as incomplete. *)
SettledRetryable(s) ==
  \A d \in Docs : ~(effect[d] = "pending" /\ (s = Org \/ s \in posting[d].subs))

Settled(s) ==
  \A d \in Docs : ~(Incomplete(d) /\ (s = Org \/ s \in posting[d].subs))

(* The transactions of PeriodLocks.  Wherever upsertLock closes the GL of a *)
(* scope it first asserts that the scope's effects are settled; the rows an *)
(* org-wide close tightens are in its scope and need no further condition.  *)
LockTransaction ==
  \/ \E a \in Admins, s \in Scopes, state \in States, M \in SUBSET Modules :
       /\ BeginSetup(a, s, state, M)
       /\ (M = {GL} /\ state = "closed") => Settled(s)
  \/ \E a \in Admins :
       \/ /\ ContinueSetup(a)
          /\ (job[a].todo = {GL} /\ job[a].state = "closed") => Settled(job[a].scope)
       \/ ConsumeReopenRequests(a)
  \/ \E S \in CloseRunScopes : LockCloseRun(S) /\ \A s \in S : Settled(s)
  \/ \E r \in Requests, s \in Scopes, M \in SUBSET Modules, h \in 1..MaxHours :
       RequestPeriodReopen(r, s, M, h)
  \/ \E r, o \in Requests, h \in 0..MaxHours, M \in SUBSET Modules :
       ExtendReopenRequest(r, o, h, M)
  \/ \E r \in Requests, status \in {"rejected", "withdrawn"} : DeclineReopen(r, status)
  \/ \E r \in Requests : ApproveReopen(r)
  \/ \E r \in Requests, automatic \in BOOLEAN :
       /\ RecloseWindow(r, automatic)
       /\ GL \in request[r].modules \ CoveredModules(r) => Settled(request[r].scope)

FencedLockTransaction ==
  /\ \A d \in Docs : ~HoldsFence(d)
  /\ LockTransaction
  /\ UNCHANGED pvars

PCNext ==
  \/ FencedLockTransaction
  \/ (PassHour \/ \E a \in Admins : StopSetup(a) \/ CrashSetup(a)) /\ UNCHANGED pvars
  \/ \E d \in Docs, S \in SUBSET Subs, m \in Modules : BeginPosting(d, S, m)
  \/ \E d \in Docs : \/ AssertPeriodOpen(d) \/ CommitPosting(d) \/ RollbackPosting(d)
                     \/ DrainEffect(d) \/ ReplayEffect(d)

PCSpec == PCInit /\ [][PCNext]_allvars

-----------------------------------------------------------------------------
(* Every posting transaction and outbox row has one of its stages, and a    *)
(* document has its outbox row exactly when it is posted: both come from    *)
(* one transaction, whatever rolled back before.                            *)
PostingTypeOK ==
  /\ posting \in [Docs -> Posting]
  /\ effect \in [Docs -> Effects]
  /\ \A d \in Docs : (posting[d].stage = "posted") <=> (effect[d] # "absent")

(* A closed GL is fully reconciled: no posting of a subsidiary whose GL is  *)
(* hard-closed still owes downstream work, pending or given up.  Neither a  *)
(* posting in flight during the close nor a reopening in between breaks it. *)
ClosedMeansSettled ==
  \A s \in Subs, d \in Docs :
    (EffectiveLock(lock, s, GL).state = "closed" /\ s \in posting[d].subs) => ~Incomplete(d)

(* "An in-flight journal posting either commits before a close's final      *)
(* refresh or is rejected": no posting commits while its module or GL is    *)
(* soft-closed or closed.  (A window that runs out between the check and    *)
(* the commit still takes that one posting.)                                *)
NoPostingIntoClosed ==
  [][\A d \in Docs :
       (posting[d].stage = "checked" /\ posting'[d].stage = "posted") =>
         \A s \in posting[d].subs, m \in {posting[d].module, GL} :
           EffectiveLock(lock, s, m).state \notin {"soft_closed", "closed"}]_allvars

=============================================================================
