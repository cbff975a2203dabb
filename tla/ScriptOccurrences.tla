-------------------------- MODULE ScriptOccurrences --------------------------
(***************************************************************************)
(* Scheduled scripts: the dispatch ledger of scheduling/scheduler.ts and   *)
(* the queue worker of worker/scripts-worker.ts, for one script.           *)
(*                                                                         *)
(* A scanner claims a due cron tick by moving the cursor and inserting the *)
(* occurrence row in one statement, then dispatches it: to the queue, or,  *)
(* when the queue refuses, in its own process.  Recovery closes stale      *)
(* occurrences from run rows, retries a first dispatch once, and stamps    *)
(* the rest lost.  A run row names the occurrence it ran for; the rows of  *)
(* an operator's "Run now" name none.                                      *)
(*                                                                         *)
(* One replica ticks at a time: withTickClaim holds a session advisory     *)
(* lock around the tick.  The tick's statements use other connections, so  *)
(* a replica whose lock session dies goes on while the next one starts.    *)
(***************************************************************************)
EXTENDS Integers, FiniteSets

CONSTANTS
  LastTick,     \* bound on the cron ticks of the script
  Scanners,     \* scheduler processes that may tick at the same time
  Workers,      \* script worker executions
  CatchUp,      \* MAX_CATCHUP_OCCURRENCES_PER_PASS
  Stale,        \* OCCURRENCE_STALE_MS, in scheduler ticks
  MaxStalled    \* redeliveries of a job whose worker was lost

ASSUME OccurrenceAssumption ==
  /\ LastTick \in Nat \ {0} /\ CatchUp \in Nat \ {0} /\ Stale \in Nat \ {0}
  /\ MaxStalled \in Nat
  /\ Scanners \cap Workers = {}

Ticks == 1..LastTick
Dispatches == {1, 2}   \* MAX_OCCURRENCE_ATTEMPTS

VARIABLES
  fired,    \* cron ticks whose time has come
  cursor,   \* user_scripts.next_run_at
  row,      \* script_runs, the ledger row of each tick
  job,      \* the queue job of each tick and dispatch
  ran,      \* ticks whose source was executed
  evidence, \* status of the run rows linked to each tick
  scanner,  \* in-memory state of each scheduler process
  worker,   \* in-memory state of each worker execution
  unlinked  \* the last Run now row since each tick was claimed, while it is open

vars == <<fired, cursor, row, job, ran, evidence, scanner, worker, unlinked>>

Outcomes == {"ok", "error"}   \* how a script ends; aborted and timeout are errors

(* age: time since the claim, the column at, which is the start of the pass *)
(* that claimed it.  nth: its place among the ticks that pass claimed.      *)
(* dispatched: dispatches so far.                                           *)
Row == [status : {"none", "queued", "dispatch_retry", "lost"} \cup Outcomes,
        age : 0..(Stale + 1), dispatched : Nat, nth : 1..CatchUp]

Job == [state : {"none", "waiting", "active", "done"}, stalled : 0..MaxStalled]

Scanner == [pc : {"idle", "stamp", "select", "retry", "scan", "claim", "dispatch", "inline", "ran", "close"},
            tick : Ticks, next : 1..(LastTick + 1), attempt : Dispatches, stale : SUBSET Ticks,
            left : 0..CatchUp, held : BOOLEAN, outcome : Outcomes \cup {"lost"}]

Worker == [pc : {"idle", "run", "record"}, tick : Ticks, attempt : Dispatches]

IdleScanner == [pc |-> "idle", tick |-> 1, next |-> 1, attempt |-> 1, stale |-> {}, left |-> 0,
                held |-> FALSE, outcome |-> "ok"]
IdleWorker == [pc |-> "idle", tick |-> 1, attempt |-> 1]

Init ==
  /\ fired = 0 /\ cursor = 1
  /\ row = [t \in Ticks |-> [status |-> "none", age |-> 0, dispatched |-> 0, nth |-> 1]]
  /\ job = [t \in Ticks |-> [a \in Dispatches |-> [state |-> "none", stalled |-> 0]]]
  /\ ran = {}
  /\ evidence = [t \in Ticks |-> {}]
  /\ scanner = [s \in Scanners |-> IdleScanner]
  /\ worker = [w \in Workers |-> IdleWorker]
  /\ unlinked = [t \in Ticks |-> "none"]

At(s, pc) == scanner[s].pc = pc
Goto(s, pc) == scanner' = [scanner EXCEPT ![s].pc = pc]

Open(t) == row[t].status \in {"queued", "dispatch_retry"}
IsStale(t) == row[t].age > Stale

-----------------------------------------------------------------------------
(* recoverLostScriptOccurrences: three statements, then a dispatch for each *)
(* row it takes over.                                                       *)

(* No open occurrence was claimed in an earlier pass. *)
Oldest(t) == \A u \in Ticks : u < t /\ Open(u) => \A k \in (u + 1)..t : row[k].nth > 1

(* The run rows that close occurrence t: those linked to it or else, for    *)
(* the oldest open occurrence, the last one that names no occurrence and    *)
(* came after its claim.                                                    *)
ClosedBy(t) ==
  IF evidence[t] # {} THEN evidence[t]
  ELSE IF Oldest(t) THEN {unlinked[t]} \ {"none"} ELSE {}

(* A tick begins under the lock.  1. Run rows close stale occurrences. *)
Mirror(s) ==
  /\ At(s, "idle") /\ \A o \in Scanners : ~scanner[o].held
  /\ \E status \in [Ticks -> Outcomes] :
       /\ \A t \in Ticks : ClosedBy(t) # {} => status[t] \in ClosedBy(t)
       /\ row' = [t \in Ticks |->
            IF Open(t) /\ IsStale(t) /\ ClosedBy(t) # {}
              THEN [row[t] EXCEPT !.status = status[t]] ELSE row[t]]
  /\ scanner' = [scanner EXCEPT ![s].pc = "stamp", ![s].held = TRUE]
  /\ UNCHANGED <<fired, cursor, job, ran, evidence, worker, unlinked>>

Exhausted(t) == row[t].status = "dispatch_retry" /\ IsStale(t)

(* 2. A retried occurrence without evidence is a loss. *)
StampLost(s) ==
  /\ At(s, "stamp")
  /\ row' = [t \in Ticks |-> IF Exhausted(t) THEN [row[t] EXCEPT !.status = "lost"] ELSE row[t]]
  /\ Goto(s, "select")
  /\ UNCHANGED <<fired, cursor, job, ran, evidence, worker, unlinked>>

(* 3. The stale first dispatches *)
SelectStale(s) ==
  /\ At(s, "select")
  /\ scanner' = [scanner EXCEPT ![s].pc = "retry",
                   ![s].stale = {t \in Ticks : row[t].status = "queued" /\ IsStale(t)}]
  /\ UNCHANGED <<fired, cursor, row, job, ran, evidence, worker, unlinked>>

(* Mutants: the status is not asked again; the update asks for the status   *)
(* it is about to write.                                                    *)
RetryableBlind(t) == TRUE

RetryableRetried(t) == row[t].status = "dispatch_retry"

Retryable(t) == row[t].status = "queued"

(* Each of them once: a row whose evidence landed meanwhile is left alone. *)
Retry(s) ==
  /\ At(s, "retry")
  /\ \/ /\ scanner[s].stale = {}
        /\ Goto(s, "scan") /\ UNCHANGED row
     \/ \E t \in scanner[s].stale :
          LET next == [scanner[s] EXCEPT !.stale = @ \ {t}] IN
          \/ /\ Retryable(t)
             /\ row' = [row EXCEPT ![t].status = "dispatch_retry"]
             /\ scanner' = [scanner EXCEPT ![s] =
                  [next EXCEPT !.pc = "dispatch", !.tick = t, !.attempt = 2]]
          \/ /\ ~Retryable(t)
             /\ scanner' = [scanner EXCEPT ![s] = next]
             /\ UNCHANGED row
  /\ UNCHANGED <<fired, cursor, job, ran, evidence, worker, unlinked>>

-----------------------------------------------------------------------------
(* runDueScripts: read the cursor, then claim tick after tick. *)
ScanDue(s) ==
  /\ At(s, "scan")
  /\ scanner' = [scanner EXCEPT ![s] = IF cursor <= fired
       THEN [scanner[s] EXCEPT !.pc = "claim", !.next = cursor, !.left = CatchUp]
       ELSE IdleScanner]
  /\ UNCHANGED <<fired, cursor, row, job, ran, evidence, worker, unlinked>>

Inserted(t, nth) == [row EXCEPT ![t].status = "queued", ![t].nth = nth]

(* claimDueScriptOccurrence: the cursor is compared and moved, and the row  *)
(* inserted, in one statement.                                              *)
ClaimOccurrence(s) ==
  LET t == scanner[s].next IN
  /\ At(s, "claim")
  /\ \/ /\ scanner[s].left > 0 /\ t <= fired /\ cursor = t
        /\ cursor' = t + 1
        /\ row' = Inserted(t, CatchUp - scanner[s].left + 1)
        /\ scanner' = [scanner EXCEPT ![s].pc = "dispatch", ![s].tick = t, ![s].attempt = 1,
                                      ![s].next = t + 1, ![s].left = @ - 1]
     \/ /\ scanner[s].left = 0 \/ t > fired \/ cursor # t
        /\ scanner' = [scanner EXCEPT ![s] = IdleScanner]
        /\ UNCHANGED <<cursor, row>>
  /\ UNCHANGED <<fired, job, ran, evidence, worker, unlinked>>

-----------------------------------------------------------------------------
(* dispatchScriptOccurrence.  A job id already in the queue adds nothing.   *)
Return(s) ==
  scanner' = [scanner EXCEPT ![s].pc = IF scanner[s].attempt = 2 THEN "retry" ELSE "claim",
                             ![s].tick = 1, ![s].attempt = 1, ![s].outcome = "ok"]

Dispatch(s) ==
  LET t == scanner[s].tick
      a == scanner[s].attempt
      added == [job EXCEPT ![t][a].state = IF @ = "none" THEN "waiting" ELSE @] IN
  /\ At(s, "dispatch")
  /\ \/ job' = added /\ Return(s)
     \/ job' = job /\ Goto(s, "inline")
     \/ job' = added /\ Goto(s, "inline")   \* accepted, and the reply lost
  /\ row' = [row EXCEPT ![t].dispatched = @ + 1]
  /\ UNCHANGED <<fired, cursor, ran, evidence, worker, unlinked>>

RunInline(s) ==
  /\ At(s, "inline")
  /\ ran' = ran \cup {scanner[s].tick}
  /\ Goto(s, "ran")
  /\ UNCHANGED <<fired, cursor, row, job, evidence, worker, unlinked>>

RecordInline(s) ==
  /\ At(s, "ran")
  /\ \E outcome \in Outcomes :
       /\ evidence' = [evidence EXCEPT ![scanner[s].tick] = @ \cup {outcome}]
       /\ scanner' = [scanner EXCEPT ![s].pc = "close", ![s].outcome = outcome]
  /\ UNCHANGED <<fired, cursor, row, job, ran, worker, unlinked>>

(* Mutant: a host-side failure reads as the script's own. *)
HostFailedAsError(s) == [scanner EXCEPT ![s].pc = "close", ![s].outcome = "error"]

HostFailed(s) == [scanner EXCEPT ![s].pc = "close", ![s].outcome = "lost"]

(* A host-side failure, before the run is recorded or as its outcome is     *)
(* written: the first dispatch stays open for recovery, the second is a     *)
(* loss.                                                                    *)
InlineFails(s) ==
  /\ scanner[s].pc \in {"inline", "ran"} \/ (At(s, "close") /\ scanner[s].outcome # "lost")
  /\ \/ scanner[s].attempt = 1 /\ Return(s)
     \/ scanner[s].attempt = 2 /\ scanner' = HostFailed(s)
  /\ UNCHANGED <<fired, cursor, row, job, ran, evidence, worker, unlinked>>

(* finalizeOccurrence moves an open row only. *)
Finalize(s) ==
  LET t == scanner[s].tick IN
  /\ At(s, "close")
  /\ row' = IF Open(t) THEN [row EXCEPT ![t].status = scanner[s].outcome] ELSE row
  /\ Return(s)
  /\ UNCHANGED <<fired, cursor, job, ran, evidence, worker, unlinked>>

-----------------------------------------------------------------------------
(* processScriptJobData on the queue worker *)
TakeJob(w, t, a) ==
  /\ worker[w].pc = "idle" /\ job[t][a].state = "waiting"
  /\ job' = [job EXCEPT ![t][a].state = "active"]
  /\ worker' = [worker EXCEPT ![w] = [pc |-> "run", tick |-> t, attempt |-> a]]
  /\ UNCHANGED <<fired, cursor, row, ran, evidence, scanner, unlinked>>

RunSource(w) ==
  /\ worker[w].pc = "run"
  /\ ran' = ran \cup {worker[w].tick}
  /\ worker' = [worker EXCEPT ![w].pc = "record"]
  /\ UNCHANGED <<fired, cursor, row, job, evidence, scanner, unlinked>>

Ended(w) == [job EXCEPT ![worker[w].tick][worker[w].attempt].state = "done"]

RecordRun(w) ==
  /\ worker[w].pc = "record"
  /\ \E outcome \in Outcomes :
       evidence' = [evidence EXCEPT ![worker[w].tick] = @ \cup {outcome}]
  /\ job' = Ended(w)
  /\ worker' = [worker EXCEPT ![w] = IdleWorker]
  /\ UNCHANGED <<fired, cursor, row, ran, scanner, unlinked>>

(* The script is gone or switched off, or its run row cannot be written. *)
JobFails(w) ==
  /\ worker[w].pc # "idle"
  /\ job' = Ended(w)
  /\ worker' = [worker EXCEPT ![w] = IdleWorker]
  /\ UNCHANGED <<fired, cursor, row, ran, evidence, scanner, unlinked>>

CrashWorker(w) ==
  LET j == job[worker[w].tick][worker[w].attempt] IN
  /\ worker[w].pc # "idle"
  /\ job' = [job EXCEPT ![worker[w].tick][worker[w].attempt] =
       IF j.stalled < MaxStalled THEN [state |-> "waiting", stalled |-> j.stalled + 1]
                                 ELSE [j EXCEPT !.state = "done"]]
  /\ worker' = [worker EXCEPT ![w] = IdleWorker]
  /\ UNCHANGED <<fired, cursor, row, ran, evidence, scanner, unlinked>>

(* The session of the tick lock dies, and the tick goes on. *)
LoseLock(s) ==
  /\ scanner[s].held
  /\ scanner' = [scanner EXCEPT ![s].held = FALSE]
  /\ UNCHANGED <<fired, cursor, row, job, ran, evidence, worker, unlinked>>

CrashScanner(s) ==
  /\ ~At(s, "idle")
  /\ scanner' = [scanner EXCEPT ![s] = IdleScanner]
  /\ UNCHANGED <<fired, cursor, row, job, ran, evidence, worker, unlinked>>

(* Time since, up to just past the stale bound *)
Older(n) == IF n > Stale THEN n ELSE n + 1

(* A scheduler interval passes, and the next cron tick may come due. *)
PassTime ==
  /\ fired' \in {fired, fired + 1} \cap 0..LastTick
  /\ row' = [t \in Ticks |-> IF ~Open(t) THEN row[t] ELSE
         [row[t] EXCEPT !.age = Older(@)]]
  /\ <<fired, row>>' # <<fired, row>>
  /\ UNCHANGED <<cursor, job, ran, evidence, scanner, worker, unlinked>>

-----------------------------------------------------------------------------
(* Run now: the source is run, its row names no occurrence, and the cursor  *)
(* is advanced.  Cursor and next due time were read before the source ran:  *)
(* a cursor that moved is left alone, and the due time may have passed.     *)
RunNow ==
  /\ \E outcome \in Outcomes :
       unlinked' = [t \in Ticks |-> IF Open(t) THEN outcome ELSE unlinked[t]]
  /\ cursor' \in cursor..(fired + 1)
  /\ UNCHANGED <<fired, row, job, ran, evidence, scanner, worker>>

Scan(s) == \/ Mirror(s) \/ StampLost(s) \/ SelectStale(s) \/ Retry(s) \/ ScanDue(s)
           \/ ClaimOccurrence(s) \/ Dispatch(s) \/ RunInline(s) \/ RecordInline(s)
           \/ InlineFails(s) \/ Finalize(s)

Execute(w) == \/ \E t \in Ticks, a \in Dispatches : TakeJob(w, t, a)
              \/ RunSource(w) \/ RecordRun(w) \/ JobFails(w)

Next ==
  \/ \E s \in Scanners : Scan(s) \/ LoseLock(s) \/ CrashScanner(s)
  \/ \E w \in Workers : Execute(w) \/ CrashWorker(w)
  \/ RunNow \/ PassTime

Spec == Init /\ [][Next]_vars

(* The scheduler keeps ticking and does not die at the same statement every *)
(* time; time passes.                                                       *)
Fairness ==
  /\ SF_vars(\E s \in Scanners : Mirror(s)) /\ SF_vars(\E s \in Scanners : StampLost(s))
  /\ SF_vars(\E s \in Scanners : SelectStale(s)) /\ SF_vars(\E s \in Scanners : Retry(s))
  /\ WF_vars(\E s \in Scanners : Scan(s))
  /\ WF_vars(PassTime)

FairSpec == Spec /\ Fairness

-----------------------------------------------------------------------------
(* Every row, job and process has its type. *)
OccurrenceTypeOK ==
  /\ fired \in 0..LastTick /\ cursor \in 1..(LastTick + 1)
  /\ row \in [Ticks -> Row]
  /\ job \in [Ticks -> [Dispatches -> Job]]
  /\ ran \subseteq Ticks
  /\ evidence \in [Ticks -> SUBSET Outcomes]
  /\ scanner \in [Scanners -> Scanner]
  /\ worker \in [Workers -> Worker]
  /\ unlinked \in [Ticks -> Outcomes \cup {"none"}]

(* An occurrence is never closed by another occurrence's execution: a       *)
(* closed one was executed, and its own run row says how it ended, or it    *)
(* took over the outcome of a Run now that came after its claim.            *)
ClosedByRunSince ==
  \A t \in Ticks : row[t].status \in Outcomes =>
    (row[t].status \in evidence[t] /\ t \in ran) \/ row[t].status = unlinked[t]

(* "a lost first dispatch is retried exactly once", whoever recovers it *)
DispatchedAtMostTwice == \A t \in Ticks : row[t].dispatched <= 2

(* Every claimed occurrence is closed or visibly lost. *)
EveryOccurrenceCloses == \A t \in Ticks : Open(t) ~> ~Open(t)

=============================================================================
