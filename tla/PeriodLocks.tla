----------------------------- MODULE PeriodLocks -----------------------------
(***************************************************************************)
(* The period locks of one accounting period and book, and the controlled  *)
(* reopening of closed modules (engine/src/periods, engine/src/close).     *)
(*                                                                         *)
(* A period_locks row governs one module of one subsidiary, or of the      *)
(* whole organization (Org); the exact row wins over the org-wide row.     *)
(* Administrators set rows from Setup, one transaction per module; the     *)
(* close run closes every module at once; an approved reopen request       *)
(* opens modules until an expiry, and its end, by hand or by the           *)
(* scheduler, closes them again.  Every transaction holds the exclusive    *)
(* period fence (periodScopeAdvisoryLock), so a transaction is one step.   *)
(*                                                                         *)
(* Time is relative: a timestamp is the number of hours left until it,     *)
(* and 0 once it has passed.                                               *)
(***************************************************************************)
EXTENDS Integers, FiniteSets

CONSTANTS
  Subs,        \* subsidiaries
  Org,         \* the null subsidiary_id: the organization-wide scope
  Subledgers,  \* CLOSE_MODULES other than GL
  GL,          \* the general ledger module
  Requests,    \* ids of close_reopen_requests rows (bound: requests ever made)
  NoRequest,   \* the absence of a request
  Admins,      \* administrators working in Setup
  MaxHours     \* controlled-reopen policy: longest window

ASSUME LockConstants ==
  /\ Org \notin Subs
  /\ GL \notin Subledgers
  /\ NoRequest \notin Requests
  /\ MaxHours \in Nat /\ MaxHours >= 1

VARIABLES
  lock,     \* period_locks: [<<scope, module>> -> row]
  request,  \* close_reopen_requests
  job       \* what each administrator's Setup call still has to do

vars == <<lock, request, job>>

Scopes == Subs \cup {Org}

Modules == Subledgers \cup {GL}

Never == -1   \* SQL null in a timestamp column

States == {"open", "soft_closed", "closed"}

Lock == [state : States \cup {"absent"}, expires : Never..MaxHours]

LockRow(state, expires) == [state |-> state, expires |-> expires]

Ended == {"rejected", "withdrawn", "superseded", "reclosed", "expired"}

(* A request; `ceiling` is what is left of the policy maximum counted from  *)
(* the approval the window descends from, and an amendment also names the   *)
(* window it amends, that window's expiry and the expiry it asks for.       *)
Request == [status : {"none", "requested", "approved"} \cup Ended,
            scope : Scopes, modules : SUBSET Modules, hours : 0..MaxHours,
            expires : Never..MaxHours, ceiling : 0..MaxHours,
            amends : Requests \cup {NoRequest},
            sourceExpires : Never..MaxHours, until : Never..MaxHours]

NoRow == [status |-> "none", scope |-> Org, modules |-> {}, hours |-> 0,
          expires |-> Never, ceiling |-> 0, amends |-> NoRequest,
          sourceExpires |-> Never, until |-> Never]

Job == [scope : Scopes, state : States, todo : SUBSET Modules, busy : BOOLEAN]

NoJob == [scope |-> Org, state |-> "open", todo |-> {}, busy |-> FALSE]

(* generatePeriods writes an open org-wide row for every module. *)
Init ==
  /\ lock = [k \in Scopes \X Modules |->
               LockRow(IF k[1] = Org THEN "open" ELSE "absent", Never)]
  /\ request = [r \in Requests |-> NoRow]
  /\ job = [a \in Admins |-> NoJob]

-----------------------------------------------------------------------------
(* Reading locks: periodLockRequiresApprovedReopen, periodLockBlocksPosting *)
(* and the exact-row-first resolution of readEffectivePeriodLock.           *)
RequiresApprovedReopen(row) ==
  row.state = "closed" \/ (row.state = "open" /\ row.expires = 0)

BlocksPosting(row) == row.state = "soft_closed" \/ RequiresApprovedReopen(row)

EffectiveLock(L, s, m) == IF L[<<s, m>>].state # "absent" THEN L[<<s, m>>] ELSE L[<<Org, m>>]

(* Writing locks: upsertLock of a scope's modules, and the tightening of    *)
(* every narrower row looser than an org-wide close.                        *)
UpsertLock(L, s, M, state, expires) ==
  [k \in DOMAIN L |-> IF k[1] = s /\ k[2] \in M THEN LockRow(state, expires) ELSE L[k]]

Looser(row, state) ==
  row.state = "open" \/ (row.state = "soft_closed" /\ state = "closed")

(* Mutant: the org-wide close leaves the narrower rows as they are. *)
NarrowerLocksKept(L, M, state) == L

TightenNarrowerLocks(L, M, state) ==
  [k \in DOMAIN L |-> IF k[1] # Org /\ k[2] \in M /\ Looser(L[k], state)
                        THEN LockRow(state, Never) ELSE L[k]]

CloseModules(L, s, M, state) ==
  LET closed == UpsertLock(L, s, M, state, Never)
  IN  IF s = Org THEN TightenNarrowerLocks(closed, M, state) ELSE closed

SubledgersClosed(L, s) == \A m \in Subledgers : L[<<s, m>>].state \in {"absent", "closed"}

-----------------------------------------------------------------------------

(* Mutant: the governing lock is asked for subsidiaries only. *)
MaySetOrgUnchecked(s, m, state) ==
  /\ (state # "closed" /\ s # Org) =>
       /\ ~RequiresApprovedReopen(EffectiveLock(lock, s, m))
       /\ ~(lock[<<s, m>>].state = "open" /\ lock[<<s, m>>].expires > 0)
  /\ (m = GL /\ state = "closed") => SubledgersClosed(lock, s)
  /\ (m # GL /\ state # "closed") => ~BlocksPosting(EffectiveLock(lock, s, GL))

(* The refusals of setPeriodLockState.  Closing GL also needs the posting   *)
(* effects of the scope settled (assertPostingEffectsSettled), which is     *)
(* PostingClose's subject: here a GL close may be refused at any time.      *)
MaySet(s, m, state) ==
  /\ state # "closed" =>
       /\ ~RequiresApprovedReopen(EffectiveLock(lock, s, m))
       /\ ~(lock[<<s, m>>].state = "open" /\ lock[<<s, m>>].expires > 0)
  /\ (m = GL /\ state = "closed") => SubledgersClosed(lock, s)
  /\ (m # GL /\ state = "open") => ~BlocksPosting(EffectiveLock(lock, s, GL))
  /\ (m # GL /\ state = "soft_closed") => ~RequiresApprovedReopen(EffectiveLock(lock, s, GL))

SetPeriodLockState(s, m, state) ==
  /\ MaySet(s, m, state)
  /\ lock' = IF state = "open" THEN UpsertLock(lock, s, {m}, "open", Never)
                               ELSE CloseModules(lock, s, {m}, state)

(* GL comes last in CLOSE_MODULES. *)
NextModule(M, m) == m \in M /\ (m = GL => M = {GL})

(* setAdminPeriodLockState and closeAdminPeriodModules: one transaction per *)
(* module, the first refusal ends the sequence, and a last transaction      *)
(* consumes the reopen requests whose modules are all closed.  An opening   *)
(* is a single module and consumes nothing.                                 *)
BeginSetup(a, s, state, M) ==
  /\ ~job[a].busy
  /\ state = "open" => Cardinality(M) = 1
  /\ \E m \in M :
       /\ NextModule(M, m)
       /\ SetPeriodLockState(s, m, state)
       /\ job' = IF state = "open" THEN job
                 ELSE [job EXCEPT ![a] = [scope |-> s, state |-> state,
                                          todo |-> M \ {m}, busy |-> TRUE]]
  /\ UNCHANGED request

ContinueSetup(a) ==
  /\ \E m \in Modules :
       /\ NextModule(job[a].todo, m)
       /\ SetPeriodLockState(job[a].scope, m, job[a].state)
       /\ job' = [job EXCEPT ![a].todo = @ \ {m}]
  /\ UNCHANGED request

StopSetup(a) ==
  /\ \E m \in Modules :
       /\ NextModule(job[a].todo, m)
       /\ ~MaySet(job[a].scope, m, job[a].state) \/ (m = GL /\ job[a].state = "closed")
  /\ job' = [job EXCEPT ![a].todo = {}]
  /\ UNCHANGED <<lock, request>>

-----------------------------------------------------------------------------
Live(r) == request[r].status = "approved" /\ request[r].expires > 0

(* Mutant: the organization's scope overlaps only itself. *)
OverlapExact(s, t) == s = t

Overlap(s, t) == s = Org \/ t = Org \/ s = t

(* Mutant: a request with one closed module is consumed. *)
FullyClosedPartly(r) ==
  \E m \in request[r].modules :
    EffectiveLock(lock, request[r].scope, m).state \in {"closed", "soft_closed"}

(* endFullyClosedReopenRequests: live requests with nothing left open. *)
FullyClosed(r) ==
  \A m \in request[r].modules :
    EffectiveLock(lock, request[r].scope, m).state \in {"closed", "soft_closed"}

Consumed(R) == {r \in R : Live(r) /\ FullyClosed(r)}

WithStatus(Q, R, status) ==
  [r \in Requests |-> IF r \in R THEN [Q[r] EXCEPT !.status = status] ELSE Q[r]]

(* consumeReopenRequestsForClosedModules *)
ConsumeReopenRequests(a) ==
  /\ job[a].busy /\ job[a].todo = {}
  /\ request' = WithStatus(request,
                  Consumed({r \in Requests : Overlap(request[r].scope, job[a].scope)}),
                  "reclosed")
  /\ job' = [job EXCEPT ![a] = NoJob]
  /\ UNCHANGED lock

(* The web process dies between two transactions of a Setup call. *)
CrashSetup(a) ==
  /\ job[a].busy
  /\ job' = [job EXCEPT ![a] = NoJob]
  /\ UNCHANGED <<lock, request>>

(* The locking of an approved close run: every module of its scope. *)
LockCloseRun(S) ==
  /\ lock' = IF S = {Org} THEN CloseModules(lock, Org, Modules, "closed")
             ELSE [k \in DOMAIN lock |->
                     IF k[1] \in S THEN LockRow("closed", Never) ELSE lock[k]]
  /\ UNCHANGED <<request, job>>

-----------------------------------------------------------------------------
(* The scope checks every new request passes.                               *)
MayRequest(s, M) ==
  /\ M # {}
  /\ GL \notin M => ~RequiresApprovedReopen(EffectiveLock(lock, s, GL))
  /\ \A o \in Requests :
       (/\ Overlap(request[o].scope, s)
        /\ request[o].modules \cap M # {}
        /\ request[o].status = "requested" \/ Live(o))
       => Live(o) /\ request[o].scope = s /\ request[o].modules \subseteq M

RequestPeriodReopen(r, s, M, hours) ==
  /\ request[r].status = "none"
  /\ MayRequest(s, M)
  /\ request' = [request EXCEPT ![r] =
       [NoRow EXCEPT !.status = "requested", !.scope = s, !.modules = M, !.hours = hours]]
  /\ UNCHANGED <<lock, job>>

(* Mutant: the policy maximum is counted from the present. *)
WithinPolicyFromNow(until, source, ceiling) == until <= MaxHours

(* A longer window may not outlast the policy maximum, counted from the     *)
(* approval the chain of amendments began with.                             *)
WithinPolicy(until, source, ceiling) == until > source => until <= ceiling

(* extendReopenRequest: more hours, more modules, or both. *)
ExtendReopenRequest(r, o, hours, M) ==
  LET src == request[o]
      until == src.expires + hours IN
  /\ request[r].status = "none"
  /\ Live(o)
  /\ hours > 0 \/ M \ src.modules # {}
  /\ \A m \in M \ src.modules : RequiresApprovedReopen(EffectiveLock(lock, src.scope, m))
  /\ WithinPolicy(until, src.expires, src.ceiling)
  /\ MayRequest(src.scope, src.modules \cup M)
  /\ request' = [request EXCEPT ![r] =
       [status |-> "requested", scope |-> src.scope, modules |-> src.modules \cup M,
        hours |-> 0, expires |-> Never, ceiling |-> src.ceiling,
        amends |-> o, sourceExpires |-> src.expires, until |-> until]]
  /\ UNCHANGED <<lock, job>>

(* rejected by the approver, or withdrawn by the requester *)
DeclineReopen(r, status) ==
  /\ request[r].status = "requested"
  /\ request' = [request EXCEPT ![r].status = status]
  /\ UNCHANGED <<lock, job>>

-----------------------------------------------------------------------------
(* applyPeriodReopenDecision, approving.                                    *)
ActiveFor(r) ==
  {o \in Requests \ {r} : Live(o) /\ Overlap(request[o].scope, request[r].scope)}

SupersededBy(r) ==
  {o \in ActiveFor(r) \ Consumed(ActiveFor(r)) :
     request[o].scope = request[r].scope /\ request[o].modules \subseteq request[r].modules}

NoOverlap(r) ==
  \A o \in ActiveFor(r) \ (Consumed(ActiveFor(r)) \cup SupersededBy(r)) :
    request[o].modules \cap request[r].modules = {}

AmendmentCurrent(r) ==
  LET q == request[r] IN
  q.amends # NoRequest =>
    /\ q.amends \in SupersededBy(r)
    /\ request[q.amends].expires = q.sourceExpires
    /\ q.until > 0
    /\ WithinPolicy(q.until, q.sourceExpires, q.ceiling)

(* An amendment's own expiry, or the longest of the asked window and the    *)
(* windows it replaces.                                                     *)
GrantedExpiry(r) ==
  LET windows == {request[r].hours} \cup {request[o].expires : o \in SupersededBy(r)}
  IN  IF request[r].amends # NoRequest THEN request[r].until
      ELSE CHOOSE t \in windows : \A u \in windows : u <= t

InheritedModules(r) == UNION {request[o].modules : o \in SupersededBy(r)}

(* Narrower rows an org-wide window takes along: the blocking ones, and     *)
(* those of a window it replaces.                                           *)
RelaxedChild(r, s, m) ==
  /\ request[r].scope = Org /\ s # Org
  /\ m \in request[r].modules
  /\ \/ lock[<<s, m>>].state \in {"closed", "soft_closed"}
     \/ /\ lock[<<s, m>>].state = "open"
        /\ \/ lock[<<s, m>>].expires = 0
           \/ \E o \in SupersededBy(r) :
                m \in request[o].modules /\ lock[<<s, m>>].expires = request[o].expires

ApproveReopen(r) ==
  LET q == request[r]
      expires == GrantedExpiry(r) IN
  /\ q.status = "requested"
  /\ AmendmentCurrent(r)
  /\ NoOverlap(r)
  /\ GL \notin q.modules => ~RequiresApprovedReopen(EffectiveLock(lock, q.scope, GL))
  /\ \A m \in q.modules \ InheritedModules(r) :
       RequiresApprovedReopen(EffectiveLock(lock, q.scope, m))
  /\ lock' = [k \in DOMAIN lock |->
       IF (k[1] = q.scope /\ k[2] \in q.modules) \/ RelaxedChild(r, k[1], k[2])
         THEN LockRow("open", expires) ELSE lock[k]]
  /\ request' = [WithStatus(WithStatus(request, Consumed(ActiveFor(r)), "reclosed"),
                            SupersededBy(r), "superseded")
                 EXCEPT ![r].status = "approved", ![r].expires = expires,
                        ![r].ceiling = IF q.amends = NoRequest THEN MaxHours ELSE @]
  /\ UNCHANGED job

-----------------------------------------------------------------------------
(* recloseApprovedReopenRow: modules that another live window of the same   *)
(* scope covers stay open, GL waits for its subledgers, and the end of an   *)
(* org-wide window tightens the narrower rows.  A refusal rolls back, and   *)
(* the scheduler tries again on its next tick.                              *)
CoveredModules(r) ==
  request[r].modules \cap
    UNION {request[o].modules :
             o \in {p \in Requests \ {r} : Live(p) /\ request[p].scope = request[r].scope}}

MayReclose(r) ==
  LET toClose == request[r].modules \ CoveredModules(r) IN
  GL \in toClose =>
    SubledgersClosed(UpsertLock(lock, request[r].scope, toClose, "closed", Never),
                     request[r].scope)

(* PostingClose adds the refusal of a GL re-close while the scope's posting *)
(* effects are unsettled; here, as in MaySet, it may be refused at any time.*)
RecloseWindow(r, automatic) ==
  LET q == request[r]
      covered == CoveredModules(r) IN
  /\ q.status = "approved"
  /\ automatic => q.expires = 0
  /\ MayReclose(r)
  /\ lock' = CloseModules(lock, q.scope, q.modules \ covered, "closed")
  /\ request' = WithStatus(request, {r},
                  IF automatic /\ covered # {} THEN "expired" ELSE "reclosed")
  /\ UNCHANGED job

-----------------------------------------------------------------------------
Age(t) == IF t > 0 THEN t - 1 ELSE t

(* An hour passes.  Ended requests are history: nothing reads their stamps. *)
PassHour ==
  /\ lock' = [k \in DOMAIN lock |-> [lock[k] EXCEPT !.expires = Age(@)]]
  /\ request' = [r \in Requests |->
       IF request[r].status \in {"requested", "approved"}
         THEN [request[r] EXCEPT !.expires = Age(@), !.ceiling = Age(@),
                                 !.sourceExpires = Age(@), !.until = Age(@)]
         ELSE request[r]]
  /\ UNCHANGED job

CloseRunScopes == {{Org}} \cup ((SUBSET Subs) \ {{}})

Next ==
  \/ \E a \in Admins, s \in Scopes, state \in States, M \in SUBSET Modules :
       BeginSetup(a, s, state, M)
  \/ \E a \in Admins : \/ ContinueSetup(a) \/ StopSetup(a)
                       \/ ConsumeReopenRequests(a) \/ CrashSetup(a)
  \/ \E S \in CloseRunScopes : LockCloseRun(S)
  \/ \E r \in Requests, s \in Scopes, M \in SUBSET Modules, h \in 1..MaxHours :
       RequestPeriodReopen(r, s, M, h)
  \/ \E r, o \in Requests, h \in 0..MaxHours, M \in SUBSET Modules :
       ExtendReopenRequest(r, o, h, M)
  \/ \E r \in Requests, status \in {"rejected", "withdrawn"} : DeclineReopen(r, status)
  \/ \E r \in Requests : ApproveReopen(r)
  \/ \E r \in Requests, automatic \in BOOLEAN : RecloseWindow(r, automatic)
  \/ PassHour

Spec == Init /\ [][Next]_vars

-----------------------------------------------------------------------------
(* Every variable has the shape of its rows. *)
LockTypeOK ==
  /\ lock \in [Scopes \X Modules -> Lock]
  /\ request \in [Requests -> Request]
  /\ job \in [Admins -> Job]

(* "A scope-wide lock must dominate every narrower lock": while the         *)
(* org-wide row is closed, a subsidiary row that accepts postings is        *)
(* covered by a live approved request of that subsidiary.                   *)
HardCloseDominates ==
  \A s \in Subs, m \in Modules :
    (/\ lock[<<Org, m>>].state = "closed"
     /\ lock[<<s, m>>].state # "absent" /\ ~BlocksPosting(lock[<<s, m>>]))
    => \E r \in Requests : Live(r) /\ request[r].scope = s /\ m \in request[r].modules

(* "Two requests sharing a module on the same scope can never both be       *)
(* approved": no two live windows of overlapping scopes share a module.     *)
LiveWindowsDisjoint ==
  \A r, o \in Requests :
    (/\ r # o /\ Live(r) /\ Live(o)
     /\ request[r].scope \in {request[o].scope, Org})
    => request[r].modules \cap request[o].modules = {}

(* A row that is open on a timer belongs to a live approved window with     *)
(* exactly that expiry, which will close it again: no amendment, re-close,  *)
(* consumption or Setup write leaves a window nobody is going to end.       *)
EveryTimerHasAWindow ==
  \A s \in Scopes, m \in Modules :
    (lock[<<s, m>>].state = "open" /\ lock[<<s, m>>].expires > 0)
    => \E r \in Requests :
         /\ Live(r) /\ request[r].expires = lock[<<s, m>>].expires
         /\ request[r].scope \in {s, Org} /\ m \in request[r].modules

(* However a window is extended and widened, it ends within the policy      *)
(* maximum of the approval its chain of amendments began with.              *)
WindowWithinPolicy ==
  \A r \in Requests : Live(r) => request[r].expires <= request[r].ceiling

(* A scope whose governing row is closed starts to accept postings, or      *)
(* becomes releasable from Setup, only in the step that approves a reopen   *)
(* request covering it; and only such a step makes an expired window, which *)
(* is 'open' in state and hard-closed in meaning, accept postings again.    *)
Approves(r, s, m) ==
  /\ request[r].status = "requested" /\ request'[r].status = "approved"
  /\ request[r].scope \in {s, Org} /\ m \in request[r].modules

Reopens(row, next) ==
  \/ row.state = "closed" /\ ~RequiresApprovedReopen(next)
  \/ RequiresApprovedReopen(row) /\ ~BlocksPosting(next)

HardCloseNeedsApproval ==
  [][\A s \in Scopes, m \in Modules :
       Reopens(EffectiveLock(lock, s, m), EffectiveLock(lock', s, m))
       => \E r \in Requests : Approves(r, s, m)]_vars

=============================================================================
