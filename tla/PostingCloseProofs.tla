--------------------------- MODULE PostingCloseProofs ---------------------------
(***************************************************************************)
(* The period locks, and posting against closing, for every number of      *)
(* subsidiaries, subledgers, documents, reopen requests, administrators    *)
(* and hours.                                                              *)
(*                                                                         *)
(* The first part is about PeriodLocks alone.  EveryTimerHasAWindow and    *)
(* HardCloseDominates are not inductive as they stand.  Timers are kept    *)
(* together with the org-wide row they were opened with (TimerBacked), and *)
(* a closed org-wide row with the fact that no narrower row is left merely *)
(* soft-closed or open without an end (CloseReachesDown).                  *)
(*                                                                         *)
(* In the composition every step is a step of PeriodLocks or leaves the    *)
(* locks alone, so what holds of Spec holds there too.  That a closed GL   *)
(* is settled is not inductive by itself: a posting that has checked its   *)
(* period may still commit.  The invariant adds that what a checked        *)
(* posting saw open is not closed until it ends (CheckedOpen), which is    *)
(* what the shared side of the period fence is for.                        *)
(***************************************************************************)
EXTENDS PostingClose, WellFoundedInduction, TLAPS

(* A non-empty set of numbers below a bound has a greatest element. *)
LEMMA GreatestExists ==
  ASSUME NEW N \in Nat, NEW T \in SUBSET (0..N), T # {}
  PROVE  \E x \in T : \A y \in T : y <= x
<1> DEFINE R == OpToRel(<, Nat)
           D == {N - x : x \in T}
<1>1. IsWellFoundedOn(R, Nat)  BY NatLessThanWellFounded
<1>2. \A x \in T : N - x \in Nat /\ N - x \in D  OBVIOUS
<1>3. D \subseteq Nat /\ D # {}  BY <1>2
<1>4. \A a, b \in Nat : a < b => <<a, b>> \in R  BY DEF OpToRel
<1> HIDE DEF R
<1>5. PICK d \in D : \A e \in D : ~(<<e, d>> \in R)  BY <1>1, <1>3, WFMin
<1>6. PICK x \in T : d = N - x  OBVIOUS
<1>7. ASSUME NEW y \in T PROVE y <= x
  <2>1. N - y \in D /\ N - y \in Nat /\ d \in Nat  BY <1>2, <1>3
  <2>2. ~(N - y < d)  BY <1>4, <1>5, <2>1
  <2>3. QED  BY <1>6, <2>1, <2>2
<1>8. QED  BY <1>7

-----------------------------------------------------------------------------
(* Reading a written lock table *)
Locks == [Scopes \X Modules -> Lock]

LEMMA ScopeFacts == Org \in Scopes /\ GL \in Modules /\ Subs \subseteq Scopes /\ Subledgers \subseteq Modules
BY DEF Scopes, Modules

LEMMA LockRowType ==
  ASSUME NEW state \in States, NEW e \in Never..MaxHours
  PROVE  LockRow(state, e) \in Lock
BY DEF LockRow, Lock

LEMMA NeverType == Never \in Never..MaxHours
BY LockConstants DEF Never

LEMMA UpsertReads ==
  ASSUME NEW L \in Locks, NEW s \in Scopes, NEW M \in SUBSET Modules,
         NEW state \in States, NEW e \in Never..MaxHours
  PROVE  /\ UpsertLock(L, s, M, state, e) \in Locks
         /\ \A t \in Scopes, m \in Modules :
              UpsertLock(L, s, M, state, e)[<<t, m>>] =
                IF t = s /\ m \in M THEN LockRow(state, e) ELSE L[<<t, m>>]
BY LockRowType DEF Locks, UpsertLock

(* A close writes the rows of its scope, and an org-wide one every looser   *)
(* narrower row too.                                                        *)
LEMMA CloseReads ==
  ASSUME NEW L \in Locks, NEW s \in Scopes, NEW M \in SUBSET Modules, NEW state \in States
  PROVE  /\ CloseModules(L, s, M, state) \in Locks
         /\ \A t \in Scopes, m \in Modules :
              CloseModules(L, s, M, state)[<<t, m>>] =
                IF m \in M /\ (t = s \/ (s = Org /\ Looser(L[<<t, m>>], state)))
                  THEN LockRow(state, Never) ELSE L[<<t, m>>]
<1> DEFINE U == UpsertLock(L, s, M, state, Never)
<1>1. /\ U \in Locks
      /\ \A t \in Scopes, m \in Modules :
           U[<<t, m>>] = IF t = s /\ m \in M THEN LockRow(state, Never) ELSE L[<<t, m>>]
  BY UpsertReads, NeverType DEF LockRow
<1> HIDE DEF U
<1>2. CASE s # Org
  <2>1. CloseModules(L, s, M, state) = U  BY <1>2 DEF CloseModules, U
  <2>2. QED  BY <1>1, <1>2, <2>1
<1>3. CASE s = Org
  <2>1. CloseModules(L, s, M, state) = TightenNarrowerLocks(U, M, state)
    BY <1>3 DEF CloseModules, U
  <2>2. TightenNarrowerLocks(U, M, state) \in Locks
    BY <1>1, LockRowType, NeverType DEF TightenNarrowerLocks, Locks
  <2>3. \A t \in Scopes, m \in Modules :
          TightenNarrowerLocks(U, M, state)[<<t, m>>] =
            IF t # Org /\ m \in M /\ Looser(U[<<t, m>>], state)
              THEN LockRow(state, Never) ELSE U[<<t, m>>]
    BY <1>1 DEF TightenNarrowerLocks, Locks
  <2>4. QED  BY <1>1, <1>3, <2>1, <2>2, <2>3
<1>4. QED  BY <1>2, <1>3

LEMMA LockRowReads ==
  ASSUME NEW state, NEW e
  PROVE  LockRow(state, e).state = state /\ LockRow(state, e).expires = e
BY DEF LockRow

-----------------------------------------------------------------------------
(* The granted expiry is one of the windows it may be taken from, and a     *)
(* positive number of hours within the policy maximum.                      *)
LEMMA GrantedExpiryIs ==
  ASSUME LockTypeOK, NEW r \in Requests, AmendmentCurrent(r),
         request[r].amends = NoRequest => request[r].hours >= 1
  PROVE  /\ GrantedExpiry(r) \in 1..MaxHours
         /\ request[r].amends # NoRequest => GrantedExpiry(r) = request[r].until
<1>1. request[r] \in Request /\ \A o \in Requests : request[o] \in Request  BY DEF LockTypeOK
<1>2. CASE request[r].amends # NoRequest
  BY <1>1, <1>2, LockConstants DEF GrantedExpiry, AmendmentCurrent, Request, Never
<1>3. CASE request[r].amends = NoRequest
  <2> DEFINE W == {request[r].hours} \cup {request[o].expires : o \in SupersededBy(r)}
  <2>1. \A o \in SupersededBy(r) : o \in Requests /\ request[o].expires > 0
    BY DEF SupersededBy, ActiveFor, Live
  <2>2. W \in SUBSET (0..MaxHours)  BY <1>1, <2>1, LockConstants DEF Request, Never
  <2>3. request[r].hours \in W /\ request[r].hours >= 1 /\ W # {}  BY <1>3
  <2>4. GrantedExpiry(r) = CHOOSE t \in W : \A u \in W : u <= t  BY <1>3 DEF GrantedExpiry
  <2> HIDE DEF W
  <2>5. \E t \in W : \A u \in W : u <= t  BY <2>2, <2>3, LockConstants, GreatestExists
  <2>6. GrantedExpiry(r) \in W /\ \A u \in W : u <= GrantedExpiry(r)  BY <2>4, <2>5
  <2>7. GrantedExpiry(r) \in 0..MaxHours /\ request[r].hours \in 0..MaxHours
        /\ request[r].hours <= GrantedExpiry(r)
    BY <2>2, <2>3, <2>6
  <2>8. QED  BY <1>3, <2>3, <2>7, LockConstants
<1>4. QED  BY <1>2, <1>3
-----------------------------------------------------------------------------
(* Writing requests *)
LEMMA WithStatusReads ==
  ASSUME NEW Q \in [Requests -> Request], NEW R \in SUBSET Requests, NEW status \in Ended
  PROVE  /\ WithStatus(Q, R, status) \in [Requests -> Request]
         /\ \A o \in Requests : WithStatus(Q, R, status)[o] =
              IF o \in R THEN [Q[o] EXCEPT !.status = status] ELSE Q[o]
<1>1. \A o \in Requests : [Q[o] EXCEPT !.status = status] \in Request
  <2> SUFFICES ASSUME NEW o \in Requests PROVE [Q[o] EXCEPT !.status = status] \in Request
    OBVIOUS
  <2>1. Q[o] \in Request  OBVIOUS
  <2>2. QED  BY <2>1 DEF Request
<1>2. QED  BY <1>1 DEF WithStatus

(* What a step keeps of a request: everything but its status, which may end *)
SameTerms(old, new) ==
  /\ new.scope = old.scope /\ new.modules = old.modules /\ new.hours = old.hours
  /\ new.expires = old.expires /\ new.ceiling = old.ceiling /\ new.amends = old.amends
  /\ new.sourceExpires = old.sourceExpires /\ new.until = old.until

Kept(o) ==
  /\ SameTerms(request[o], request'[o])
  /\ request'[o].status = request[o].status \/ request'[o].status \in Ended

LEMMA StatusKept ==
  ASSUME NEW old \in Request, NEW status
  PROVE  /\ SameTerms(old, [old EXCEPT !.status = status])
         /\ [old EXCEPT !.status = status].status = status
BY DEF Request, SameTerms

(* A request is approved: the windows it consumes and supersedes end, every *)
(* other request stays as it is.                                            *)
LEMMA ApproveReads ==
  ASSUME LockTypeOK, NEW r \in Requests, NEW e \in 1..MaxHours, e = GrantedExpiry(r),
         ApproveReopen(r)
  PROVE  /\ request' \in [Requests -> Request]
         /\ request'[r].status = "approved" /\ request'[r].expires = e
         /\ request'[r].ceiling = IF request[r].amends = NoRequest THEN MaxHours ELSE request[r].ceiling
         /\ request'[r].scope = request[r].scope /\ request'[r].modules = request[r].modules
         /\ request'[r].amends = request[r].amends
         /\ \A o \in Requests \ {r} :
              /\ Kept(o)
              /\ o \in Consumed(ActiveFor(r)) \cup SupersededBy(r) => request'[o].status \in Ended
              /\ o \notin Consumed(ActiveFor(r)) \cup SupersededBy(r) => request'[o] = request[o]
<1> DEFINE C == Consumed(ActiveFor(r))
           S == SupersededBy(r)
           Q1 == WithStatus(request, C, "reclosed")
           Q2 == WithStatus(Q1, S, "superseded")
           c == IF request[r].amends = NoRequest THEN MaxHours ELSE request[r].ceiling
<1>1. request \in [Requests -> Request]  BY DEF LockTypeOK
<1>2. C \in SUBSET Requests /\ S \in SUBSET Requests /\ r \notin C /\ r \notin S
  BY DEF Consumed, ActiveFor, SupersededBy
<1>3. "reclosed" \in Ended /\ "superseded" \in Ended  BY DEF Ended
<1> HIDE DEF C, S
<1>4. Q1 \in [Requests -> Request]
      /\ \A o \in Requests : Q1[o] = IF o \in C THEN [request[o] EXCEPT !.status = "reclosed"] ELSE request[o]
  BY <1>1, <1>2, <1>3, WithStatusReads
<1> HIDE DEF Q1
<1>5. Q2 \in [Requests -> Request]
      /\ \A o \in Requests : Q2[o] = IF o \in S THEN [Q1[o] EXCEPT !.status = "superseded"] ELSE Q1[o]
  BY <1>2, <1>3, <1>4, WithStatusReads
<1>6. request' = [Q2 EXCEPT ![r].status = "approved", ![r].expires = e,
                            ![r].ceiling = IF request[r].amends = NoRequest THEN MaxHours ELSE @]
  BY DEF ApproveReopen, C, S, Q1
<1> HIDE DEF Q2
<1>7. Q2[r] = request[r] /\ request[r] \in Request  BY <1>1, <1>2, <1>4, <1>5
<1>8. request'[r] = [request[r] EXCEPT !.status = "approved", !.expires = e, !.ceiling = c]
  BY <1>5, <1>6, <1>7
<1>9. c \in 0..MaxHours /\ e \in Never..MaxHours
  BY <1>7, LockConstants DEF Request, Never
<1> HIDE DEF c
<1>10. /\ request'[r] \in Request
       /\ request'[r].status = "approved" /\ request'[r].expires = e /\ request'[r].ceiling = c
       /\ request'[r].scope = request[r].scope /\ request'[r].modules = request[r].modules
       /\ request'[r].amends = request[r].amends
  BY <1>7, <1>8, <1>9 DEF Request
<1>11. \A o \in Requests \ {r} : request'[o] = Q2[o]  BY <1>5, <1>6
<1>12. request' \in [Requests -> Request]  BY <1>5, <1>6, <1>10, <1>11
<1>13. ASSUME NEW o \in Requests \ {r}
       PROVE  /\ Kept(o)
              /\ o \in C \cup S => request'[o].status \in Ended
              /\ o \notin C \cup S => request'[o] = request[o]
  <2>1. request[o] \in Request /\ Q1[o] \in Request  BY <1>1, <1>4
  <2>2. SameTerms(request[o], Q1[o]) /\ (Q1[o] = request[o] \/ Q1[o].status = "reclosed")
        /\ (o \in C => Q1[o].status = "reclosed") /\ (o \notin C => Q1[o] = request[o])
    <3>1. CASE o \in C
      <4>1. Q1[o] = [request[o] EXCEPT !.status = "reclosed"]  BY <1>4, <3>1
      <4>2. QED  BY <2>1, <3>1, <4>1, StatusKept
    <3>2. CASE o \notin C
      <4>1. Q1[o] = request[o]  BY <1>4, <3>2
      <4>2. QED  BY <3>2, <4>1 DEF SameTerms
    <3>3. QED  BY <3>1, <3>2
  <2>3. SameTerms(Q1[o], Q2[o]) /\ (o \in S => Q2[o].status = "superseded") /\ (o \notin S => Q2[o] = Q1[o])
    <3>1. CASE o \in S
      <4>1. Q2[o] = [Q1[o] EXCEPT !.status = "superseded"]  BY <1>5, <3>1
      <4>2. QED  BY <2>1, <3>1, <4>1, StatusKept
    <3>2. CASE o \notin S
      <4>1. Q2[o] = Q1[o]  BY <1>5, <3>2
      <4>2. QED  BY <3>2, <4>1 DEF SameTerms
    <3>3. QED  BY <3>1, <3>2
  <2>4. SameTerms(request[o], Q2[o])  BY <2>2, <2>3 DEF SameTerms
  <2>5. QED  BY <1>3, <1>11, <2>2, <2>3, <2>4 DEF Kept
<1>14. QED  BY <1>10, <1>12, <1>13 DEF C, S, c

(* A new request asks for a positive number of hours, or amends a window. *)
AskedHours ==
  \A r \in Requests :
    (request[r].status = "requested" /\ request[r].amends = NoRequest) => request[r].hours >= 1
-----------------------------------------------------------------------------
(* What each transaction writes, row by row *)
LEMMA SetReads ==
  ASSUME LockTypeOK, NEW s \in Scopes, NEW m \in Modules, NEW state \in States,
         SetPeriodLockState(s, m, state)
  PROVE  /\ lock' \in Locks
         /\ \A t \in Scopes, n \in Modules :
              lock'[<<t, n>>] =
                IF n = m /\ (t = s \/ (s = Org /\ state # "open" /\ Looser(lock[<<t, n>>], state)))
                  THEN LockRow(state, Never) ELSE lock[<<t, n>>]
<1>1. lock \in Locks /\ {m} \in SUBSET Modules  BY DEF LockTypeOK, Locks
<1>2. CASE state = "open"
  <2>1. lock' = UpsertLock(lock, s, {m}, state, Never)  BY <1>2 DEF SetPeriodLockState
  <2>2. /\ UpsertLock(lock, s, {m}, state, Never) \in Locks
        /\ \A t \in Scopes, n \in Modules :
              UpsertLock(lock, s, {m}, state, Never)[<<t, n>>] =
                IF t = s /\ n \in {m} THEN LockRow(state, Never) ELSE lock[<<t, n>>]
    BY <1>1, UpsertReads, NeverType DEF LockRow
  <2>3. QED  BY <1>2, <2>1, <2>2 DEF LockRow
<1>3. CASE state # "open"
  <2>1. lock' = CloseModules(lock, s, {m}, state)  BY <1>3 DEF SetPeriodLockState
  <2>2. QED  BY <1>1, <1>3, <2>1, CloseReads DEF LockRow
<1>4. QED  BY <1>2, <1>3

LEMMA CloseRunReads ==
  ASSUME LockTypeOK, NEW S \in CloseRunScopes, LockCloseRun(S)
  PROVE  /\ lock' \in Locks
         /\ \A t \in Scopes, n \in Modules :
              lock'[<<t, n>>] =
                IF t \in S \/ (S = {Org} /\ Looser(lock[<<t, n>>], "closed"))
                  THEN LockRow("closed", Never) ELSE lock[<<t, n>>]
<1>1. lock \in Locks /\ "closed" \in States  BY DEF LockTypeOK, Locks, States
<1>2. CASE S = {Org}
  <2>1. lock' = CloseModules(lock, Org, Modules, "closed")  BY <1>2 DEF LockCloseRun
  <2>2. QED  BY <1>1, <1>2, <2>1, CloseReads, ScopeFacts DEF LockRow
<1>3. CASE S # {Org}
  <2>1. lock' = [k \in Scopes \X Modules |-> IF k[1] \in S THEN LockRow("closed", Never) ELSE lock[k]]
    BY <1>1, <1>3 DEF LockCloseRun, Locks
  <2>2. LockRow("closed", Never) \in Lock  BY <1>1, LockRowType, NeverType
  <2>3. QED  BY <1>1, <1>3, <2>1, <2>2 DEF Locks
<1>4. QED  BY <1>2, <1>3

LEMMA RecloseReads ==
  ASSUME LockTypeOK, NEW r \in Requests, NEW automatic \in BOOLEAN, RecloseWindow(r, automatic)
  PROVE  /\ lock' \in Locks
         /\ \A t \in Scopes, n \in Modules :
              lock'[<<t, n>>] =
                IF /\ n \in request[r].modules \ CoveredModules(r)
                   /\ t = request[r].scope \/ (request[r].scope = Org /\ Looser(lock[<<t, n>>], "closed"))
                  THEN LockRow("closed", Never) ELSE lock[<<t, n>>]
         /\ request' \in [Requests -> Request]
         /\ request'[r].status \in Ended
         /\ \A o \in Requests : Kept(o)
         /\ \A o \in Requests \ {r} : request'[o] = request[o]
<1>1. lock \in Locks /\ "closed" \in States /\ request[r] \in Request
  BY DEF LockTypeOK, Locks, States
<1>2. request[r].scope \in Scopes /\ request[r].modules \ CoveredModules(r) \in SUBSET Modules
  BY <1>1 DEF Request
<1>3. lock' = CloseModules(lock, request[r].scope, request[r].modules \ CoveredModules(r), "closed")
  BY DEF RecloseWindow
<1>4. PICK status \in Ended : request' = WithStatus(request, {r}, status)
  BY DEF RecloseWindow, Ended
<1>5. /\ request' \in [Requests -> Request]
      /\ \A o \in Requests : request'[o] =
           IF o \in {r} THEN [request[o] EXCEPT !.status = status] ELSE request[o]
  <2>1. {r} \in SUBSET Requests /\ request \in [Requests -> Request]  BY DEF LockTypeOK
  <2>2. request' \in [Requests -> Request]  BY <1>4, <2>1, WithStatusReads
  <2>3. QED  BY <1>4, <2>2 DEF WithStatus
<1>6. request'[r].status = status /\ SameTerms(request[r], request'[r])
  <2>1. request'[r] = [request[r] EXCEPT !.status = status]  BY <1>5
  <2>2. QED  BY <1>1, <2>1, StatusKept
<1>7. \A o \in Requests : Kept(o)
  BY <1>5, <1>6 DEF Kept, SameTerms
<1>8. PICK M \in SUBSET Modules : M = request[r].modules \ CoveredModules(r)  BY <1>2
<1>9. lock' = CloseModules(lock, request[r].scope, M, "closed")  BY <1>3, <1>8
<1>10. /\ lock' \in Locks
       /\ \A t \in Scopes, n \in Modules :
            lock'[<<t, n>>] =
              IF n \in M /\ (t = request[r].scope \/ (request[r].scope = Org /\ Looser(lock[<<t, n>>], "closed")))
                THEN LockRow("closed", Never) ELSE lock[<<t, n>>]
  <2>1. PICK s \in Scopes : s = request[r].scope  BY <1>2
  <2>2. lock' = CloseModules(lock, s, M, "closed")  BY <1>9, <2>1
  <2>3. /\ lock' \in Locks
        /\ \A t \in Scopes, n \in Modules :
             lock'[<<t, n>>] =
               IF n \in M /\ (t = s \/ (s = Org /\ Looser(lock[<<t, n>>], "closed")))
                 THEN LockRow("closed", Never) ELSE lock[<<t, n>>]
    BY <1>1, <2>2, CloseReads DEF LockRow
  <2>4. QED  BY <2>1, <2>3
<1>11. QED  BY <1>5, <1>6, <1>7, <1>8, <1>10

LEMMA ApproveLocks ==
  ASSUME LockTypeOK, NEW r \in Requests, NEW e \in 1..MaxHours, e = GrantedExpiry(r),
         ApproveReopen(r)
  PROVE  /\ lock' \in Locks
         /\ \A t \in Scopes, n \in Modules :
              lock'[<<t, n>>] =
                IF (t = request[r].scope /\ n \in request[r].modules) \/ RelaxedChild(r, t, n)
                  THEN LockRow("open", e) ELSE lock[<<t, n>>]
<1>1. lock \in Locks  BY DEF LockTypeOK, Locks
<1>2. LockRow("open", e) \in Lock
  <2>1. e \in Never..MaxHours /\ "open" \in States  BY LockConstants DEF Never, States
  <2>2. QED  BY <2>1, LockRowType
<1>3. lock' = [k \in Scopes \X Modules |->
        IF (k[1] = request[r].scope /\ k[2] \in request[r].modules) \/ RelaxedChild(r, k[1], k[2])
          THEN LockRow("open", e) ELSE lock[k]]
  BY <1>1 DEF ApproveReopen, Locks
<1>4. QED  BY <1>1, <1>2, <1>3 DEF Locks

LEMMA AgeType ==
  ASSUME NEW t \in Never..MaxHours
  PROVE  /\ Age(t) \in Never..MaxHours
         /\ Age(t) = IF t > 0 THEN t - 1 ELSE t
         /\ t >= 0 => Age(t) >= 0
BY LockConstants DEF Age, Never

LEMMA PassHourReads ==
  ASSUME LockTypeOK, PassHour
  PROVE  /\ lock' \in Locks
         /\ \A t \in Scopes, n \in Modules :
              /\ lock'[<<t, n>>].state = lock[<<t, n>>].state
              /\ lock'[<<t, n>>].expires = Age(lock[<<t, n>>].expires)
         /\ request' \in [Requests -> Request]
         /\ \A o \in Requests :
              /\ request'[o].status = request[o].status
              /\ request'[o].scope = request[o].scope /\ request'[o].modules = request[o].modules
              /\ request'[o].amends = request[o].amends /\ request'[o].hours = request[o].hours
              /\ request[o].status \in {"requested", "approved"} =>
                   /\ request'[o].expires = Age(request[o].expires)
                   /\ request'[o].ceiling = Age(request[o].ceiling)
                   /\ request'[o].sourceExpires = Age(request[o].sourceExpires)
                   /\ request'[o].until = Age(request[o].until)
<1>1. lock \in Locks /\ request \in [Requests -> Request]  BY DEF LockTypeOK, Locks
<1>2. ASSUME NEW k \in Scopes \X Modules
      PROVE  /\ lock'[k] \in Lock /\ lock'[k].state = lock[k].state
             /\ lock'[k].expires = Age(lock[k].expires)
  <2>1. lock[k] \in Lock /\ lock'[k] = [lock[k] EXCEPT !.expires = Age(lock[k].expires)]
    BY <1>1 DEF PassHour, Locks
  <2>2. Age(lock[k].expires) \in Never..MaxHours  BY <2>1, AgeType DEF Lock
  <2>3. QED  BY <2>1, <2>2 DEF Lock
<1>3. lock' \in Locks  BY <1>1, <1>2 DEF PassHour, Locks
<1>4. ASSUME NEW o \in Requests
      PROVE  /\ request'[o] \in Request
             /\ request'[o].status = request[o].status
             /\ request'[o].scope = request[o].scope /\ request'[o].modules = request[o].modules
             /\ request'[o].amends = request[o].amends /\ request'[o].hours = request[o].hours
             /\ request[o].status \in {"requested", "approved"} =>
                  /\ request'[o].expires = Age(request[o].expires)
                  /\ request'[o].ceiling = Age(request[o].ceiling)
                  /\ request'[o].sourceExpires = Age(request[o].sourceExpires)
                  /\ request'[o].until = Age(request[o].until)
  <2> DEFINE q == request[o]
  <2>1. q \in Request  BY <1>1
  <2>2. CASE q.status \notin {"requested", "approved"}
    <3>1. request'[o] = q  BY <1>1, <2>2 DEF PassHour
    <3>2. QED  BY <2>1, <2>2, <3>1
  <2>3. CASE q.status \in {"requested", "approved"}
    <3>1. request'[o] = [q EXCEPT !.expires = Age(q.expires), !.ceiling = Age(q.ceiling),
                                  !.sourceExpires = Age(q.sourceExpires), !.until = Age(q.until)]
      BY <1>1, <2>3 DEF PassHour
    <3>2. Age(q.expires) \in Never..MaxHours /\ Age(q.sourceExpires) \in Never..MaxHours
          /\ Age(q.until) \in Never..MaxHours
      BY <2>1, AgeType DEF Request
    <3>3. Age(q.ceiling) \in 0..MaxHours
      BY <2>1, LockConstants DEF Request, Age
    <3>4. QED  BY <2>1, <3>1, <3>2, <3>3 DEF Request
  <2>4. QED  BY <2>2, <2>3
<1>5. request' \in [Requests -> Request]
  <2>1. request' = [o \in Requests |-> request'[o]]  BY DEF PassHour
  <2>2. QED  BY <1>4, <2>1
<1>6. QED  BY <1>2, <1>3, <1>4, <1>5
-----------------------------------------------------------------------------
(* The transactions by what they do to locks and requests.                  *)

(* An administrator writes one module. *)
SetupWrite(s, m, state) == SetPeriodLockState(s, m, state) /\ UNCHANGED request

(* Requests end, the live ones among them because nothing of theirs is open *)
RequestsEnd ==
  /\ UNCHANGED lock
  /\ \A o \in Requests : Kept(o) /\ (Live(o) /\ request'[o].status # "approved" => FullyClosed(o))

(* A new request r, plain or amending a live window of the same terms *)
Asks(r) ==
  /\ UNCHANGED lock
  /\ request[r].status = "none" /\ request'[r].status = "requested"
  /\ \A o \in Requests \ {r} : request'[o] = request[o]
  /\ IF request'[r].amends = NoRequest THEN request'[r].hours >= 1
     ELSE /\ request'[r].amends \in Requests \ {r} /\ Live(request'[r].amends)
          /\ request'[r].ceiling = request[request'[r].amends].ceiling

LEMMA NoRowType == NoRow \in Request /\ NoRow.amends = NoRequest
<1>1. 0 \in 0..MaxHours /\ Never \in Never..MaxHours  BY LockConstants, NeverType
<1>2. QED  BY <1>1, ScopeFacts DEF NoRow, Request

LEMMA RequestReads ==
  ASSUME LockTypeOK, NEW r \in Requests, NEW s \in Scopes, NEW M \in SUBSET Modules,
         NEW h \in 1..MaxHours, RequestPeriodReopen(r, s, M, h)
  PROVE  request' \in [Requests -> Request] /\ Asks(r)
<1> DEFINE q == [NoRow EXCEPT !.status = "requested", !.scope = s, !.modules = M, !.hours = h]
<1>1. request \in [Requests -> Request]  BY DEF LockTypeOK
<1>2. NoRow \in Request /\ NoRow.amends = NoRequest  BY NoRowType
<1>3. h \in 0..MaxHours  OBVIOUS
<1>4. q \in Request /\ q.status = "requested" /\ q.amends = NoRequest /\ q.hours = h
  BY <1>2, <1>3 DEF Request
<1>5. request' = [request EXCEPT ![r] = q] /\ request[r].status = "none" /\ UNCHANGED lock
  BY DEF RequestPeriodReopen
<1> HIDE DEF q
<1>6. request'[r] = q /\ request' \in [Requests -> Request]
      /\ \A o \in Requests \ {r} : request'[o] = request[o]
  BY <1>1, <1>4, <1>5
<1>7. QED  BY <1>4, <1>5, <1>6 DEF Asks

LEMMA ExtendReads ==
  ASSUME LockTypeOK, NEW r \in Requests, NEW o \in Requests, NEW h \in 0..MaxHours,
         NEW M \in SUBSET Modules, ExtendReopenRequest(r, o, h, M)
  PROVE  request' \in [Requests -> Request] /\ Asks(r)
<1> DEFINE src == request[o]
           until == src.expires + h
           q == [status |-> "requested", scope |-> src.scope, modules |-> src.modules \cup M,
                 hours |-> 0, expires |-> Never, ceiling |-> src.ceiling,
                 amends |-> o, sourceExpires |-> src.expires, until |-> until]
<1>1. request \in [Requests -> Request] /\ src \in Request  BY DEF LockTypeOK
<1>2. /\ request' = [request EXCEPT ![r] = q] /\ request[r].status = "none" /\ UNCHANGED lock
      /\ Live(o) /\ WithinPolicy(until, src.expires, src.ceiling)
  BY DEF ExtendReopenRequest
<1>3. src.expires \in 1..MaxHours /\ src.ceiling \in 0..MaxHours /\ o # r
  BY <1>1, <1>2, LockConstants DEF Request, Live, Never
<1>4. until \in Never..MaxHours
  BY <1>2, <1>3, LockConstants DEF WithinPolicy, Never
<1>5. src.scope \in Scopes /\ src.modules \cup M \in SUBSET Modules
      /\ src.expires \in Never..MaxHours /\ 0 \in 0..MaxHours /\ Never \in Never..MaxHours
  BY <1>1, LockConstants, NeverType DEF Request
<1>6. q \in Request /\ q.status = "requested" /\ q.amends = o /\ q.ceiling = request[o].ceiling
  <2> HIDE DEF src, until
  <2>1. q \in Request  BY <1>3, <1>4, <1>5 DEF Request
  <2>2. QED  BY <2>1 DEF src
<1> HIDE DEF q
<1>7. request'[r] = q /\ request' \in [Requests -> Request]
      /\ \A p \in Requests \ {r} : request'[p] = request[p]
  BY <1>1, <1>2, <1>6
<1>8. o # NoRequest  BY LockConstants
<1>9. QED  BY <1>2, <1>3, <1>6, <1>7, <1>8 DEF Asks

LEMMA ConsumeReads ==
  ASSUME LockTypeOK, NEW a \in Admins, ConsumeReopenRequests(a)
  PROVE  request' \in [Requests -> Request] /\ RequestsEnd
<1>1. PICK R \in SUBSET Requests : request' = WithStatus(request, Consumed(R), "reclosed")
  BY DEF ConsumeReopenRequests
<1>2. PICK C \in SUBSET Requests : C = Consumed(R)  BY DEF Consumed
<1>3. request \in [Requests -> Request] /\ "reclosed" \in Ended  BY DEF LockTypeOK, Ended
<1>4. /\ request' \in [Requests -> Request]
      /\ \A o \in Requests : request'[o] =
           IF o \in C THEN [request[o] EXCEPT !.status = "reclosed"] ELSE request[o]
  BY <1>1, <1>2, <1>3, WithStatusReads
<1>5. ASSUME NEW o \in Requests
      PROVE  Kept(o) /\ (Live(o) /\ request'[o].status # "approved" => FullyClosed(o))
  <2>1. CASE o \in C
    <3>1. request'[o] = [request[o] EXCEPT !.status = "reclosed"] /\ request[o] \in Request
      BY <1>3, <1>4, <2>1
    <3>2. Kept(o)  BY <1>3, <3>1, StatusKept DEF Kept
    <3>3. FullyClosed(o)  BY <1>2, <2>1 DEF Consumed
    <3>4. QED  BY <3>2, <3>3
  <2>2. CASE o \notin C
    BY <1>4, <2>2 DEF Kept, SameTerms, Live
  <2>3. QED  BY <2>1, <2>2
<1>6. QED  BY <1>4, <1>5 DEF RequestsEnd, ConsumeReopenRequests

LEMMA DeclineReads ==
  ASSUME LockTypeOK, NEW r \in Requests, NEW status \in {"rejected", "withdrawn"},
         DeclineReopen(r, status)
  PROVE  request' \in [Requests -> Request] /\ RequestsEnd
<1>1. request \in [Requests -> Request] /\ request[r] \in Request /\ status \in Ended
  BY DEF LockTypeOK, Ended
<1>2. /\ request' = [request EXCEPT ![r] = [request[r] EXCEPT !.status = status]]
      /\ request[r].status = "requested" /\ UNCHANGED lock
  BY DEF DeclineReopen
<1>3. [request[r] EXCEPT !.status = status] \in Request  BY <1>1 DEF Request, Ended
<1>4. request'[r] = [request[r] EXCEPT !.status = status] /\ request' \in [Requests -> Request]
      /\ \A o \in Requests \ {r} : request'[o] = request[o]
  BY <1>1, <1>2, <1>3
<1>5. Kept(r)  BY <1>1, <1>4, StatusKept DEF Kept
<1>6. ~Live(r)  BY <1>2 DEF Live
<1>7. QED  BY <1>2, <1>4, <1>5, <1>6 DEF RequestsEnd, Kept, SameTerms, Live
Kinds ==
  \/ \E s \in Scopes, m \in Modules, state \in States : SetupWrite(s, m, state)
  \/ RequestsEnd
  \/ \E S \in CloseRunScopes : LockCloseRun(S)
  \/ \E r \in Requests : Asks(r)
  \/ \E r \in Requests : ApproveReopen(r)
  \/ \E r \in Requests, automatic \in BOOLEAN : RecloseWindow(r, automatic)
  \/ PassHour
  \/ UNCHANGED <<lock, request>>

(* Every step is one of them, and leaves each request and job well-typed.   *)
LEMMA StepKinds ==
  ASSUME LockTypeOK, AskedHours, [Next]_vars
  PROVE  Kinds /\ request' \in [Requests -> Request] /\ job' \in [Admins -> Job]
<1> USE DEF LockTypeOK
<1>0. request \in [Requests -> Request] /\ \A a \in Admins : job[a] \in Job  OBVIOUS
<1>1. ASSUME NEW a \in Admins, NEW s \in Scopes, NEW state \in States, NEW M \in SUBSET Modules,
             BeginSetup(a, s, state, M)
      PROVE  Kinds /\ request' = request /\ job' \in [Admins -> Job]
  <2>1. PICK m \in M :
          /\ SetPeriodLockState(s, m, state)
          /\ job' = IF state = "open" THEN job
                    ELSE [job EXCEPT ![a] = [scope |-> s, state |-> state, todo |-> M \ {m}, busy |-> TRUE]]
    BY <1>1 DEF BeginSetup
  <2>2. M \ {m} \in SUBSET Modules /\ m \in Modules  OBVIOUS
  <2>3. [scope |-> s, state |-> state, todo |-> M \ {m}, busy |-> TRUE] \in Job  BY <2>2 DEF Job
  <2>4. job' \in [Admins -> Job]  BY <2>1, <2>3
  <2>5. request' = request  BY <1>1 DEF BeginSetup
  <2>6. QED  BY <2>1, <2>2, <2>4, <2>5 DEF Kinds, SetupWrite
<1>2. ASSUME NEW a \in Admins, ContinueSetup(a)
      PROVE  Kinds /\ request' = request /\ job' \in [Admins -> Job]
  <2>1. PICK m \in Modules :
          /\ SetPeriodLockState(job[a].scope, m, job[a].state)
          /\ job' = [job EXCEPT ![a] = [job[a] EXCEPT !.todo = job[a].todo \ {m}]]
    BY <1>2 DEF ContinueSetup
  <2>2. job[a].scope \in Scopes /\ job[a].state \in States /\ job[a].todo \ {m} \in SUBSET Modules
    BY <1>0 DEF Job
  <2>3. [job[a] EXCEPT !.todo = job[a].todo \ {m}] \in Job  BY <1>0, <2>2 DEF Job
  <2>4. request' = request  BY <1>2 DEF ContinueSetup
  <2>5. QED  BY <2>1, <2>2, <2>3, <2>4 DEF Kinds, SetupWrite
<1>3. ASSUME NEW a \in Admins, StopSetup(a) \/ CrashSetup(a)
      PROVE  UNCHANGED <<lock, request>> /\ job' \in [Admins -> Job]
  <2>1. [job[a] EXCEPT !.todo = {}] \in Job /\ NoJob \in Job
    BY <1>0, ScopeFacts DEF Job, NoJob, States
  <2>2. job' = [job EXCEPT ![a] = [job[a] EXCEPT !.todo = {}]] \/ job' = [job EXCEPT ![a] = NoJob]
    BY <1>3 DEF StopSetup, CrashSetup
  <2>3. QED  BY <1>3, <2>1, <2>2 DEF StopSetup, CrashSetup
<1>4. ASSUME NEW a \in Admins, ConsumeReopenRequests(a)
      PROVE  RequestsEnd /\ request' \in [Requests -> Request] /\ job' \in [Admins -> Job]
  <2>1. NoJob \in Job  BY ScopeFacts DEF Job, NoJob, States
  <2>2. job' \in [Admins -> Job]  BY <1>4, <2>1 DEF ConsumeReopenRequests
  <2>3. QED  BY <1>4, <2>2, ConsumeReads
<1>5. ASSUME NEW S \in CloseRunScopes, LockCloseRun(S)
      PROVE  UNCHANGED <<request, job>>
  BY <1>5 DEF LockCloseRun
<1>6. ASSUME NEW r \in Requests, NEW s \in Scopes, NEW M \in SUBSET Modules, NEW h \in 1..MaxHours,
             RequestPeriodReopen(r, s, M, h)
      PROVE  Asks(r) /\ request' \in [Requests -> Request] /\ UNCHANGED job
  BY <1>6, RequestReads DEF RequestPeriodReopen
<1>7. ASSUME NEW r \in Requests, NEW o \in Requests, NEW h \in 0..MaxHours, NEW M \in SUBSET Modules,
             ExtendReopenRequest(r, o, h, M)
      PROVE  Asks(r) /\ request' \in [Requests -> Request] /\ UNCHANGED job
  BY <1>7, ExtendReads DEF ExtendReopenRequest
<1>8. ASSUME NEW r \in Requests, NEW status \in {"rejected", "withdrawn"}, DeclineReopen(r, status)
      PROVE  RequestsEnd /\ request' \in [Requests -> Request] /\ UNCHANGED job
  BY <1>8, DeclineReads DEF DeclineReopen
<1>9. ASSUME NEW r \in Requests, ApproveReopen(r)
      PROVE  request' \in [Requests -> Request] /\ UNCHANGED job
  <2>1. AmendmentCurrent(r) /\ request[r].status = "requested"  BY <1>9 DEF ApproveReopen
  <2>2. PICK e \in 1..MaxHours : e = GrantedExpiry(r)  BY <2>1, GrantedExpiryIs DEF AskedHours
  <2>3. QED  BY <1>9, <2>2, ApproveReads DEF ApproveReopen
<1>10. ASSUME NEW r \in Requests, NEW automatic \in BOOLEAN, RecloseWindow(r, automatic)
       PROVE  request' \in [Requests -> Request] /\ UNCHANGED job
  BY <1>10, RecloseReads DEF RecloseWindow
<1>11. ASSUME PassHour
       PROVE  request' \in [Requests -> Request] /\ UNCHANGED job
  BY <1>11, PassHourReads DEF PassHour
<1>12. CASE UNCHANGED vars  BY <1>12 DEF vars, Kinds
<1>13. QED
  BY <1>0, <1>1, <1>2, <1>3, <1>4, <1>5, <1>6, <1>7, <1>8, <1>9, <1>10, <1>11, <1>12 DEF Next, Kinds

-----------------------------------------------------------------------------
TypeInv == LockTypeOK /\ AskedHours

LEMMA TypeInit == Init => TypeInv
<1> SUFFICES ASSUME Init PROVE TypeInv
  OBVIOUS
<1>1. LockRow("open", Never) \in Lock /\ LockRow("absent", Never) \in Lock
  BY NeverType DEF LockRow, Lock, States
<1>2. lock \in Locks  BY <1>1 DEF Init, Locks
<1>3. request \in [Requests -> Request]  BY NoRowType DEF Init
<1>4. NoJob \in Job  BY ScopeFacts DEF Job, NoJob, States
<1>5. AskedHours  BY DEF Init, AskedHours, NoRow
<1>6. QED  BY <1>2, <1>3, <1>4, <1>5 DEF Init, TypeInv, LockTypeOK, Locks

(* The expiry an approval grants *)
LEMMA Granted ==
  ASSUME TypeInv, NEW r \in Requests, ApproveReopen(r)
  PROVE  \E e \in 1..MaxHours :
           /\ e = GrantedExpiry(r)
           /\ request[r].amends # NoRequest => e = request[r].until
<1>1. AmendmentCurrent(r) /\ request[r].status = "requested"  BY DEF ApproveReopen
<1>2. QED  BY <1>1, GrantedExpiryIs DEF TypeInv, AskedHours

LEMMA TypeStep ==
  ASSUME TypeInv, [Next]_vars
  PROVE  TypeInv' /\ Kinds
<1>1. Kinds /\ request' \in [Requests -> Request] /\ job' \in [Admins -> Job]
  BY StepKinds DEF TypeInv
<1> USE DEF TypeInv
<1>2. lock' \in Locks
  <2>1. ASSUME NEW s \in Scopes, NEW m \in Modules, NEW state \in States, SetupWrite(s, m, state)
        PROVE  lock' \in Locks
    BY <2>1, SetReads DEF SetupWrite
  <2>2. ASSUME NEW r \in Requests, ApproveReopen(r) PROVE lock' \in Locks
    <3>1. PICK e \in 1..MaxHours : e = GrantedExpiry(r)  BY <2>2, Granted
    <3>2. QED  BY <2>2, <3>1, ApproveLocks
  <2>3. CASE UNCHANGED lock  BY <2>3 DEF LockTypeOK, Locks
  <2>4. QED
    BY <1>1, <2>1, <2>2, <2>3, CloseRunReads, RecloseReads, PassHourReads DEF Kinds, RequestsEnd, Asks
<1>3. AskedHours'
  <2> SUFFICES ASSUME NEW o \in Requests, request'[o].status = "requested",
                      request'[o].amends = NoRequest
               PROVE  request'[o].hours >= 1
    BY DEF AskedHours
  <2>1. ASSUME Kept(o) PROVE request'[o].hours >= 1
    BY <2>1 DEF Kept, SameTerms, AskedHours, Ended
  <2>2. ASSUME NEW r \in Requests, Asks(r) PROVE request'[o].hours >= 1
    BY <2>2 DEF Asks, AskedHours
  <2>3. ASSUME NEW r \in Requests, ApproveReopen(r) PROVE request'[o].hours >= 1
    <3>1. PICK e \in 1..MaxHours : e = GrantedExpiry(r)  BY <2>3, Granted
    <3>2. o # r /\ Kept(o)  BY <2>3, <3>1, ApproveReads
    <3>3. QED  BY <2>1, <3>2
  <2>4. CASE PassHour  BY <2>4, PassHourReads DEF AskedHours
  <2>5. CASE UNCHANGED request  BY <2>5 DEF AskedHours
  <2>6. QED
    BY <1>1, <2>1, <2>2, <2>3, <2>4, <2>5, RecloseReads DEF Kinds, SetupWrite, RequestsEnd, LockCloseRun
<1>4. QED  BY <1>1, <1>2, <1>3 DEF LockTypeOK, Locks

(* Every row, request and job keeps its type: no window outgrows the policy *)
(* maximum, however it is extended.                                         *)
THEOREM TypeCorrect == Spec => []LockTypeOK
<1>1. TypeInv /\ [Next]_vars => TypeInv'  BY TypeStep
<1>2. TypeInv => LockTypeOK  BY DEF TypeInv
<1>3. QED  BY <1>1, <1>2, TypeInit, PTL DEF Spec
-----------------------------------------------------------------------------
(* The policy maximum.  A pending amendment carries what is left of the     *)
(* maximum of the window it amends, for as long as that window is approved. *)
AmendsKept ==
  \A r \in Requests :
    (request[r].status = "requested" /\ request[r].amends # NoRequest) =>
      /\ request[request[r].amends].status \in {"approved"} \cup Ended
      /\ request[request[r].amends].status = "approved" =>
           request[r].ceiling = request[request[r].amends].ceiling

ApprovedWithinPolicy ==
  \A r \in Requests : request[r].status = "approved" => request[r].expires <= request[r].ceiling

PolicyInv == TypeInv /\ AmendsKept /\ ApprovedWithinPolicy

LEMMA RequestFields ==
  ASSUME LockTypeOK, NEW r \in Requests
  PROVE  /\ request[r].scope \in Scopes /\ request[r].modules \in SUBSET Modules
         /\ request[r].expires \in Never..MaxHours /\ request[r].ceiling \in 0..MaxHours
         /\ request[r].until \in Never..MaxHours /\ request[r].sourceExpires \in Never..MaxHours
         /\ request[r].amends \in Requests \cup {NoRequest}
<1>1. request[r] \in Request  BY DEF LockTypeOK
<1>2. QED  BY <1>1 DEF Request

LEMMA LockFields ==
  ASSUME LockTypeOK, NEW s \in Scopes, NEW m \in Modules
  PROVE  /\ lock[<<s, m>>].state \in {"open", "soft_closed", "closed", "absent"}
         /\ lock[<<s, m>>].expires \in Never..MaxHours
<1>1. lock[<<s, m>>] \in Lock  BY DEF LockTypeOK
<1>2. QED  BY <1>1 DEF Lock, States

LEMMA PolicyStep ==
  ASSUME PolicyInv, [Next]_vars
  PROVE  PolicyInv'
<1>1. TypeInv /\ LockTypeOK /\ TypeInv' /\ Kinds  BY TypeStep DEF PolicyInv, TypeInv
<1>2. ASSUME \A o \in Requests : Kept(o)
      PROVE  AmendsKept' /\ ApprovedWithinPolicy'
  <2>1. AmendsKept'
    <3> SUFFICES ASSUME NEW o \in Requests, request'[o].status = "requested",
                        request'[o].amends # NoRequest
                 PROVE  /\ request'[request'[o].amends].status \in {"approved"} \cup Ended
                        /\ request'[request'[o].amends].status = "approved" =>
                             request'[o].ceiling = request'[request'[o].amends].ceiling
      BY DEF AmendsKept
    <3>1. request[o].status = "requested" /\ request'[o].amends = request[o].amends
          /\ request'[o].ceiling = request[o].ceiling
      BY <1>2 DEF Kept, SameTerms, Ended
    <3>2. PICK p \in Requests : p = request[o].amends  BY <1>1, <3>1, RequestFields
    <3>3. Kept(p)  BY <1>2
    <3>4. QED  BY <3>1, <3>2, <3>3 DEF PolicyInv, AmendsKept, Kept, SameTerms, Ended
  <2>2. ApprovedWithinPolicy'
    BY <1>2 DEF PolicyInv, ApprovedWithinPolicy, Kept, SameTerms, Ended
  <2>3. QED  BY <2>1, <2>2
<1>3. ASSUME NEW r \in Requests, Asks(r)
      PROVE  AmendsKept' /\ ApprovedWithinPolicy'
  <2>1. AmendsKept'
    <3> SUFFICES ASSUME NEW o \in Requests, request'[o].status = "requested",
                        request'[o].amends # NoRequest
                 PROVE  /\ request'[request'[o].amends].status \in {"approved"} \cup Ended
                        /\ request'[request'[o].amends].status = "approved" =>
                             request'[o].ceiling = request'[request'[o].amends].ceiling
      BY DEF AmendsKept
    <3>1. CASE o = r
      <4>1. PICK p \in Requests \ {r} : p = request'[r].amends /\ Live(p)
                                       /\ request'[r].ceiling = request[p].ceiling
        BY <1>3, <3>1 DEF Asks
      <4>2. request'[p] = request[p]  BY <1>3 DEF Asks
      <4>3. QED  BY <3>1, <4>1, <4>2 DEF Live
    <3>2. CASE o # r
      <4>1. request'[o] = request[o]  BY <1>3, <3>2 DEF Asks
      <4>2. PICK p \in Requests : p = request[o].amends  BY <1>1, <4>1, RequestFields
      <4>3. request[p].status \in {"approved"} \cup Ended  BY <4>1, <4>2 DEF PolicyInv, AmendsKept
      <4>4. p # r  BY <1>3, <4>3 DEF Asks, Ended
      <4>5. request'[p] = request[p]  BY <1>3, <4>4 DEF Asks
      <4>6. QED  BY <4>1, <4>2, <4>5 DEF PolicyInv, AmendsKept
    <3>3. QED  BY <3>1, <3>2
  <2>2. ApprovedWithinPolicy'  BY <1>3 DEF Asks, PolicyInv, ApprovedWithinPolicy
  <2>3. QED  BY <2>1, <2>2
<1>4. ASSUME NEW r \in Requests, ApproveReopen(r)
      PROVE  AmendsKept' /\ ApprovedWithinPolicy'
  <2>1. PICK e \in 1..MaxHours : e = GrantedExpiry(r) /\ (request[r].amends # NoRequest => e = request[r].until)
    BY <1>1, <1>4, Granted
  <2>2. /\ request'[r].status = "approved" /\ request'[r].expires = e
        /\ request'[r].ceiling = IF request[r].amends = NoRequest THEN MaxHours ELSE request[r].ceiling
        /\ \A o \in Requests \ {r} : Kept(o)
    BY <1>1, <1>4, <2>1, ApproveReads
  <2>3. request[r].status = "requested" /\ AmendmentCurrent(r)  BY <1>4 DEF ApproveReopen
  <2>4. AmendsKept'
    <3> SUFFICES ASSUME NEW o \in Requests, request'[o].status = "requested",
                        request'[o].amends # NoRequest
                 PROVE  /\ request'[request'[o].amends].status \in {"approved"} \cup Ended
                        /\ request'[request'[o].amends].status = "approved" =>
                             request'[o].ceiling = request'[request'[o].amends].ceiling
      BY DEF AmendsKept
    <3>1. o # r /\ request[o].status = "requested" /\ request'[o].amends = request[o].amends
          /\ request'[o].ceiling = request[o].ceiling
      BY <2>2 DEF Kept, SameTerms, Ended
    <3>2. PICK p \in Requests : p = request[o].amends  BY <1>1, <3>1, RequestFields
    <3>3. p # r /\ request[p].status \in {"approved"} \cup Ended
      BY <2>3, <3>1, <3>2 DEF PolicyInv, AmendsKept, Ended
    <3>4. Kept(p)  BY <2>2, <3>3
    <3>5. QED  BY <3>1, <3>2, <3>3, <3>4 DEF PolicyInv, AmendsKept, Kept, SameTerms, Ended
  <2>5. request'[r].expires <= request'[r].ceiling
    <3>1. CASE request[r].amends = NoRequest
      BY <2>2, <3>1, LockConstants
    <3>2. CASE request[r].amends # NoRequest
      <4>1. PICK p \in Requests : p = request[r].amends  BY <1>1, <3>2, RequestFields
      <4>2. /\ p \in SupersededBy(r) /\ request[p].expires = request[r].sourceExpires
            /\ WithinPolicy(request[r].until, request[r].sourceExpires, request[r].ceiling)
        BY <2>3, <3>2, <4>1 DEF AmendmentCurrent
      <4>3. request[p].status = "approved"  BY <4>2 DEF SupersededBy, ActiveFor, Live
      <4>4. request[p].ceiling = request[r].ceiling  BY <2>3, <3>2, <4>1, <4>3 DEF PolicyInv, AmendsKept
      <4>5. request[r].sourceExpires <= request[r].ceiling
        BY <4>2, <4>3, <4>4 DEF PolicyInv, ApprovedWithinPolicy
      <4>6. request[r].until \in Int /\ request[r].sourceExpires \in Int /\ request[r].ceiling \in Int
        BY <1>1, RequestFields, LockConstants DEF Never
      <4>7. request[r].until <= request[r].ceiling  BY <4>2, <4>5, <4>6 DEF WithinPolicy
      <4>8. QED  BY <2>1, <2>2, <3>2, <4>7
    <3>3. QED  BY <3>1, <3>2
  <2>6. ApprovedWithinPolicy'
    BY <2>2, <2>5 DEF PolicyInv, ApprovedWithinPolicy, Kept, SameTerms, Ended
  <2>7. QED  BY <2>4, <2>6
<1>5. ASSUME PassHour
      PROVE  AmendsKept' /\ ApprovedWithinPolicy'
  <2>1. \A o \in Requests :
          /\ request'[o].status = request[o].status /\ request'[o].amends = request[o].amends
          /\ request[o].status \in {"requested", "approved"} =>
               /\ request'[o].expires = Age(request[o].expires)
               /\ request'[o].ceiling = Age(request[o].ceiling)
    BY <1>1, <1>5, PassHourReads
  <2>2. AmendsKept'
    <3> SUFFICES ASSUME NEW o \in Requests, request'[o].status = "requested",
                        request'[o].amends # NoRequest
                 PROVE  /\ request'[request'[o].amends].status \in {"approved"} \cup Ended
                        /\ request'[request'[o].amends].status = "approved" =>
                             request'[o].ceiling = request'[request'[o].amends].ceiling
      BY DEF AmendsKept
    <3>1. PICK p \in Requests : p = request[o].amends  BY <1>1, <2>1, RequestFields
    <3>2. /\ request[p].status \in {"approved"} \cup Ended
          /\ request[p].status = "approved" => request[o].ceiling = request[p].ceiling
      BY <2>1, <3>1 DEF PolicyInv, AmendsKept
    <3>3. QED  BY <2>1, <3>1, <3>2
  <2>3. ApprovedWithinPolicy'
    <3> SUFFICES ASSUME NEW o \in Requests, request'[o].status = "approved"
                 PROVE  request'[o].expires <= request'[o].ceiling
      BY DEF ApprovedWithinPolicy
    <3>1. request[o].expires <= request[o].ceiling  BY <2>1 DEF PolicyInv, ApprovedWithinPolicy
    <3>2. request[o].expires \in Int /\ request[o].ceiling \in Nat
      BY <1>1, RequestFields, LockConstants DEF Never
    <3>3. Age(request[o].expires) <= Age(request[o].ceiling)  BY <3>1, <3>2 DEF Age
    <3>4. QED  BY <2>1, <3>3
  <2>4. QED  BY <2>2, <2>3
<1>6. ASSUME UNCHANGED request
      PROVE  AmendsKept' /\ ApprovedWithinPolicy'
  BY <1>6 DEF PolicyInv, AmendsKept, ApprovedWithinPolicy
<1>7. AmendsKept' /\ ApprovedWithinPolicy'
  BY <1>1, <1>2, <1>3, <1>4, <1>5, <1>6, RecloseReads
     DEF Kinds, SetupWrite, RequestsEnd, LockCloseRun
<1>8. QED  BY <1>1, <1>7 DEF PolicyInv

(* However a window is extended and widened, it ends within the policy      *)
(* maximum of the approval its chain of amendments began with               *)
(* (extendReopenRequest, applyPeriodReopenDecision).                        *)
THEOREM WindowsWithinPolicy == Spec => []WindowWithinPolicy
<1>1. Init => PolicyInv
  BY TypeInit DEF Init, PolicyInv, AmendsKept, ApprovedWithinPolicy, NoRow
<1>2. PolicyInv /\ [Next]_vars => PolicyInv'  BY PolicyStep
<1>3. PolicyInv => WindowWithinPolicy
  BY DEF PolicyInv, ApprovedWithinPolicy, WindowWithinPolicy, Live
<1>4. QED  BY <1>1, <1>2, <1>3, PTL DEF Spec
-----------------------------------------------------------------------------
(* Live windows.  Only an approval makes a window live. *)
LEMMA LiveBefore ==
  ASSUME LockTypeOK, Kinds, NEW o \in Requests, Live(o)', \A r \in Requests : ~ApproveReopen(r)
  PROVE  /\ Live(o) /\ request'[o].scope = request[o].scope
         /\ request'[o].modules = request[o].modules
<1>1. request'[o].status = "approved" /\ request'[o].expires > 0  BY DEF Live
<1>2. ASSUME Kept(o)
      PROVE  Live(o) /\ request'[o].scope = request[o].scope /\ request'[o].modules = request[o].modules
  BY <1>1, <1>2 DEF Kept, SameTerms, Ended, Live
<1>3. ASSUME NEW r \in Requests, Asks(r)
      PROVE  Live(o) /\ request'[o].scope = request[o].scope /\ request'[o].modules = request[o].modules
  <2>1. o # r  BY <1>1, <1>3 DEF Asks
  <2>2. request'[o] = request[o]  BY <1>3, <2>1 DEF Asks
  <2>3. QED  BY <1>1, <2>2 DEF Live
<1>4. ASSUME PassHour
      PROVE  Live(o) /\ request'[o].scope = request[o].scope /\ request'[o].modules = request[o].modules
  <2>1. /\ request'[o].status = request[o].status /\ request'[o].scope = request[o].scope
        /\ request'[o].modules = request[o].modules
        /\ request[o].status = "approved" => request'[o].expires = Age(request[o].expires)
    BY <1>4, PassHourReads
  <2>2. request[o].expires \in Int  BY RequestFields, LockConstants DEF Never
  <2>3. QED  BY <1>1, <2>1, <2>2 DEF Live, Age
<1>5. ASSUME UNCHANGED request
      PROVE  Live(o) /\ request'[o].scope = request[o].scope /\ request'[o].modules = request[o].modules
  BY <1>1, <1>5 DEF Live
<1>6. QED
  BY <1>2, <1>3, <1>4, <1>5, RecloseReads DEF Kinds, SetupWrite, RequestsEnd, LockCloseRun

(* A window that is live after an approval is the approved one, or was live *)
(* before and was neither consumed nor superseded.                          *)
LEMMA LiveBeside ==
  ASSUME TypeInv, NEW r \in Requests, ApproveReopen(r), NEW o \in Requests \ {r}, Live(o)'
  PROVE  Live(o) /\ request'[o] = request[o]
         /\ o \notin Consumed(ActiveFor(r)) \cup SupersededBy(r)
<1>1. PICK e \in 1..MaxHours : e = GrantedExpiry(r)  BY Granted
<1>2. LockTypeOK  BY DEF TypeInv
<1>3. /\ o \in Consumed(ActiveFor(r)) \cup SupersededBy(r) => request'[o].status \in Ended
      /\ o \notin Consumed(ActiveFor(r)) \cup SupersededBy(r) => request'[o] = request[o]
  BY <1>1, <1>2, ApproveReads
<1>4. QED  BY <1>3 DEF Live, Ended

WindowsInv == TypeInv /\ LiveWindowsDisjoint

LEMMA WindowsStep ==
  ASSUME WindowsInv, [Next]_vars
  PROVE  WindowsInv'
<1>1. TypeInv /\ LockTypeOK /\ TypeInv' /\ Kinds  BY TypeStep DEF WindowsInv, TypeInv
<1> SUFFICES ASSUME NEW p \in Requests, NEW o \in Requests, p # o, Live(p)', Live(o)',
                    request'[p].scope \in {request'[o].scope, Org}
             PROVE  request'[p].modules \cap request'[o].modules = {}
  BY <1>1 DEF WindowsInv, LiveWindowsDisjoint
<1>2. CASE \A r \in Requests : ~ApproveReopen(r)
  <2>1. /\ Live(p) /\ request'[p].scope = request[p].scope /\ request'[p].modules = request[p].modules
        /\ Live(o) /\ request'[o].scope = request[o].scope /\ request'[o].modules = request[o].modules
    BY <1>1, <1>2, LiveBefore
  <2>2. QED  BY <2>1 DEF WindowsInv, LiveWindowsDisjoint
<1>3. ASSUME NEW r \in Requests, ApproveReopen(r)
      PROVE  request'[p].modules \cap request'[o].modules = {}
  <2>1. PICK e \in 1..MaxHours : e = GrantedExpiry(r)  BY <1>1, <1>3, Granted
  <2>2. request'[r].scope = request[r].scope /\ request'[r].modules = request[r].modules
    BY <1>1, <1>3, <2>1, ApproveReads
  <2>3. NoOverlap(r)  BY <1>3 DEF ApproveReopen
  <2>4. ASSUME NEW q \in Requests \ {r}, Live(q)', Overlap(request'[q].scope, request'[r].scope)
        PROVE  request'[q].modules \cap request'[r].modules = {}
    <3>1. /\ Live(q) /\ request'[q] = request[q]
          /\ q \notin Consumed(ActiveFor(r)) \cup SupersededBy(r)
      BY <1>1, <1>3, <2>4, LiveBeside
    <3>2. q \in ActiveFor(r)  BY <2>2, <2>4, <3>1 DEF ActiveFor
    <3>3. QED  BY <2>2, <2>3, <3>1, <3>2 DEF NoOverlap
  <2>5. CASE p = r  BY <2>4, <2>5 DEF Overlap
  <2>6. CASE o = r  BY <2>4, <2>6 DEF Overlap
  <2>7. CASE p # r /\ o # r
    <3>1. Live(p) /\ Live(o) /\ request'[p] = request[p] /\ request'[o] = request[o]
      BY <1>1, <1>3, <2>7, LiveBeside
    <3>2. QED  BY <3>1 DEF WindowsInv, LiveWindowsDisjoint
  <2>8. QED  BY <2>5, <2>6, <2>7
<1>4. QED  BY <1>2, <1>3

LEMMA WindowsInit == Init => WindowsInv
BY TypeInit DEF WindowsInv, LiveWindowsDisjoint, Init, Live, NoRow

(* No two live windows of overlapping scopes share a module, whatever is    *)
(* requested, amended and approved side by side: an approval consumes or    *)
(* supersedes what it covers and refuses what it would overlap.             *)
THEOREM NoTwoWindowsShareAModule == Spec => []LiveWindowsDisjoint
<1>1. WindowsInv /\ [Next]_vars => WindowsInv'  BY WindowsStep
<1>2. WindowsInv => LiveWindowsDisjoint  BY DEF WindowsInv
<1>3. QED  BY <1>1, <1>2, WindowsInit, PTL DEF Spec
-----------------------------------------------------------------------------
(* Rows that are open on a timer.  A narrower row that an org-wide window   *)
(* took along runs out with the org-wide row it was opened with.            *)
Timer(s, m) == lock[<<s, m>>].state = "open" /\ lock[<<s, m>>].expires > 0

Backs(r, s, m) ==
  /\ Live(r) /\ request[r].expires = lock[<<s, m>>].expires
  /\ m \in request[r].modules
  /\ \/ request[r].scope = s
     \/ /\ request[r].scope = Org
        /\ lock[<<Org, m>>].state = "open" /\ lock[<<Org, m>>].expires = lock[<<s, m>>].expires

TimerBacked ==
  \A s \in Scopes, m \in Modules : Timer(s, m) => \E r \in Requests : Backs(r, s, m)

TimersInv == WindowsInv /\ TimerBacked

(* What backs a timer is not fully closed. *)
LEMMA BackerNotClosed ==
  ASSUME NEW s \in Scopes, NEW m \in Modules, Timer(s, m), NEW r \in Requests, Backs(r, s, m)
  PROVE  ~FullyClosed(r)
<1>1. m \in request[r].modules  BY DEF Backs
<1>2. EffectiveLock(lock, request[r].scope, m).state = "open"
  BY DEF Backs, Timer, EffectiveLock
<1>3. QED  BY <1>1, <1>2 DEF FullyClosed

(* A timer whose row, backing window and org-wide row a step leaves alone   *)
LEMMA StillBacked ==
  ASSUME NEW s \in Scopes, NEW m \in Modules, NEW r \in Requests, Backs(r, s, m),
         request'[r] = request[r], lock'[<<s, m>>] = lock[<<s, m>>],
         request[r].scope # s => lock'[<<Org, m>>] = lock[<<Org, m>>]
  PROVE  Backs(r, s, m)'
BY DEF Backs, Live

LEMMA SetupKeepsTimers ==
  ASSUME LockTypeOK, TimerBacked, NEW t \in Scopes, NEW n \in Modules, NEW state \in States,
         SetupWrite(t, n, state)
  PROVE  TimerBacked'
<1> SUFFICES ASSUME NEW s \in Scopes, NEW m \in Modules, Timer(s, m)'
             PROVE  \E r \in Requests : Backs(r, s, m)'
  BY DEF TimerBacked
<1>1. /\ \A u \in Scopes, k \in Modules :
           lock'[<<u, k>>] =
             IF k = n /\ (u = t \/ (t = Org /\ state # "open" /\ Looser(lock[<<u, k>>], state)))
               THEN LockRow(state, Never) ELSE lock[<<u, k>>]
      /\ MaySet(t, n, state) /\ request' = request
  BY SetReads DEF SetupWrite, SetPeriodLockState
<1>2. lock'[<<s, m>>] = lock[<<s, m>>]  BY <1>1 DEF Timer, LockRow, Never
<1>3. Timer(s, m)  BY <1>2 DEF Timer
<1>4. PICK r \in Requests : Backs(r, s, m)  BY <1>3 DEF TimerBacked
<1>5. ASSUME request[r].scope # s PROVE lock'[<<Org, m>>] = lock[<<Org, m>>]
  <2>1. lock[<<Org, m>>].state = "open" /\ lock[<<Org, m>>].expires > 0
    BY <1>3, <1>4, <1>5 DEF Backs, Timer
  <2> SUFFICES ASSUME t = Org, n = m PROVE FALSE
    BY <1>1, ScopeFacts
  <2>2. state = "closed"  BY <1>1, <2>1 DEF MaySet
  <2>3. Looser(lock[<<s, m>>], state)  BY <1>3 DEF Looser, Timer
  <2>4. lock'[<<s, m>>] = LockRow(state, Never)  BY <1>1, <2>2, <2>3
  <2>5. QED  BY <2>2, <2>4 DEF Timer, LockRow
<1>6. Backs(r, s, m)'  BY <1>1, <1>2, <1>4, <1>5, StillBacked
<1>7. QED  BY <1>6

LEMMA EndingKeepsTimers ==
  ASSUME TimerBacked, RequestsEnd
  PROVE  TimerBacked'
<1> SUFFICES ASSUME NEW s \in Scopes, NEW m \in Modules, Timer(s, m)'
             PROVE  \E r \in Requests : Backs(r, s, m)'
  BY DEF TimerBacked
<1>1. lock' = lock  BY DEF RequestsEnd
<1>2. Timer(s, m)  BY <1>1 DEF Timer
<1>3. PICK r \in Requests : Backs(r, s, m)  BY <1>2 DEF TimerBacked
<1>4. ~FullyClosed(r) /\ Live(r)  BY <1>2, <1>3, BackerNotClosed DEF Backs
<1>5. request'[r].status = "approved" /\ SameTerms(request[r], request'[r])
  BY <1>4 DEF RequestsEnd, Kept
<1>6. Backs(r, s, m)'  BY <1>1, <1>3, <1>5 DEF Backs, Live, SameTerms
<1>7. QED  BY <1>6

LEMMA CloseRunKeepsTimers ==
  ASSUME LockTypeOK, TimerBacked, NEW S \in CloseRunScopes, LockCloseRun(S)
  PROVE  TimerBacked'
<1> SUFFICES ASSUME NEW s \in Scopes, NEW m \in Modules, Timer(s, m)'
             PROVE  \E r \in Requests : Backs(r, s, m)'
  BY DEF TimerBacked
<1>1. /\ \A u \in Scopes, k \in Modules :
           lock'[<<u, k>>] =
             IF u \in S \/ (S = {Org} /\ Looser(lock[<<u, k>>], "closed"))
               THEN LockRow("closed", Never) ELSE lock[<<u, k>>]
      /\ request' = request
  BY CloseRunReads DEF LockCloseRun
<1>2. lock'[<<s, m>>] = lock[<<s, m>>]  BY <1>1 DEF Timer, LockRow
<1>3. Timer(s, m)  BY <1>2 DEF Timer
<1>4. PICK r \in Requests : Backs(r, s, m)  BY <1>3 DEF TimerBacked
<1>5. S # {Org}
  <2>1. Looser(lock[<<s, m>>], "closed")  BY <1>3 DEF Looser, Timer
  <2>2. QED  BY <1>1, <2>1 DEF Timer, LockRow
<1>6. Org \notin S  BY <1>5, LockConstants DEF CloseRunScopes
<1>7. lock'[<<Org, m>>] = lock[<<Org, m>>]  BY <1>1, <1>5, <1>6, ScopeFacts
<1>8. Backs(r, s, m)'  BY <1>1, <1>2, <1>4, <1>7, StillBacked
<1>9. QED  BY <1>8

LEMMA ApprovalKeepsTimers ==
  ASSUME TypeInv, TimerBacked, NEW r \in Requests, ApproveReopen(r)
  PROVE  TimerBacked'
<1> SUFFICES ASSUME NEW s \in Scopes, NEW m \in Modules, Timer(s, m)'
             PROVE  \E o \in Requests : Backs(o, s, m)'
  BY DEF TimerBacked
<1>0. LockTypeOK  BY DEF TypeInv
<1>1. PICK e \in 1..MaxHours : e = GrantedExpiry(r)  BY Granted
<1>2. \A t \in Scopes, n \in Modules :
        lock'[<<t, n>>] =
          IF (t = request[r].scope /\ n \in request[r].modules) \/ RelaxedChild(r, t, n)
            THEN LockRow("open", e) ELSE lock[<<t, n>>]
  BY <1>0, <1>1, ApproveLocks
<1>3. /\ request'[r].status = "approved" /\ request'[r].expires = e
      /\ request'[r].scope = request[r].scope /\ request'[r].modules = request[r].modules
      /\ \A o \in Requests \ {r} :
           o \notin Consumed(ActiveFor(r)) \cup SupersededBy(r) => request'[o] = request[o]
  BY <1>0, <1>1, ApproveReads
<1>4. CASE (s = request[r].scope /\ m \in request[r].modules) \/ RelaxedChild(r, s, m)
  <2>1. lock'[<<s, m>>].expires = e  BY <1>2, <1>4 DEF LockRow
  <2>2. m \in request[r].modules  BY <1>4 DEF RelaxedChild
  <2>3. request[r].scope # s => request[r].scope = Org  BY <1>4 DEF RelaxedChild
  <2>4. request[r].scope = Org => lock'[<<Org, m>>] = LockRow("open", e)
    BY <1>2, <2>2, ScopeFacts
  <2>5. Backs(r, s, m)'
    BY <1>1, <1>3, <2>1, <2>2, <2>3, <2>4 DEF Backs, Live, LockRow
  <2>6. QED  BY <2>5
<1>5. CASE ~((s = request[r].scope /\ m \in request[r].modules) \/ RelaxedChild(r, s, m))
  <2>1. lock'[<<s, m>>] = lock[<<s, m>>]  BY <1>2, <1>5
  <2>2. Timer(s, m)  BY <2>1 DEF Timer
  <2>3. PICK o \in Requests : Backs(o, s, m)  BY <2>2 DEF TimerBacked
  <2>4. o # r /\ Live(o)  BY <2>3 DEF Backs, Live, ApproveReopen
  <2>5. o \notin Consumed(ActiveFor(r))
    BY <2>2, <2>3, BackerNotClosed DEF Consumed
  <2>6. o \notin SupersededBy(r)
    <3> SUFFICES ASSUME o \in SupersededBy(r) PROVE FALSE
      OBVIOUS
    <3>1. request[o].scope = request[r].scope /\ m \in request[r].modules
      BY <2>3 DEF SupersededBy, Backs
    <3>2. request[r].scope = Org /\ s # Org  BY <1>5, <2>3, <3>1 DEF Backs
    <3>3. RelaxedChild(r, s, m)
      BY <2>2, <2>3, <3>1, <3>2 DEF RelaxedChild, Timer, Backs
    <3>4. QED  BY <1>5, <3>3
  <2>7. request'[o] = request[o]  BY <1>3, <2>4, <2>5, <2>6
  <2>8. ASSUME request[o].scope # s PROVE lock'[<<Org, m>>] = lock[<<Org, m>>]
    <3>1. request[o].scope = Org /\ m \in request[o].modules  BY <2>3, <2>8 DEF Backs
    <3>2. o \in ActiveFor(r)  BY <2>4, <3>1 DEF ActiveFor, Overlap
    <3>3. m \notin request[r].modules
      BY <2>5, <2>6, <3>1, <3>2 DEF ApproveReopen, NoOverlap
    <3>4. ~RelaxedChild(r, Org, m)  BY DEF RelaxedChild
    <3>5. QED  BY <1>2, <3>3, <3>4, ScopeFacts
  <2>9. Backs(o, s, m)'  BY <2>1, <2>3, <2>7, <2>8, StillBacked
  <2>10. QED  BY <2>9
<1>6. QED  BY <1>4, <1>5

LEMMA RecloseKeepsTimers ==
  ASSUME LockTypeOK, LiveWindowsDisjoint, TimerBacked, NEW r \in Requests,
         NEW automatic \in BOOLEAN, RecloseWindow(r, automatic)
  PROVE  TimerBacked'
<1> SUFFICES ASSUME NEW s \in Scopes, NEW m \in Modules, Timer(s, m)'
             PROVE  \E o \in Requests : Backs(o, s, m)'
  BY DEF TimerBacked
<1>1. /\ \A t \in Scopes, n \in Modules :
           lock'[<<t, n>>] =
             IF /\ n \in request[r].modules \ CoveredModules(r)
                /\ t = request[r].scope \/ (request[r].scope = Org /\ Looser(lock[<<t, n>>], "closed"))
               THEN LockRow("closed", Never) ELSE lock[<<t, n>>]
      /\ \A o \in Requests \ {r} : request'[o] = request[o]
  BY RecloseReads
<1>2. lock'[<<s, m>>] = lock[<<s, m>>]  BY <1>1 DEF Timer, LockRow
<1>3. Timer(s, m)  BY <1>2 DEF Timer
<1>4. PICK o \in Requests : Backs(o, s, m)  BY <1>3 DEF TimerBacked
<1>5. o # r
  <2> SUFFICES ASSUME o = r PROVE FALSE
    OBVIOUS
  <2>1. m \in request[r].modules /\ Live(r) /\ request[r].scope \in {s, Org}  BY <1>4 DEF Backs
  <2>2. m \notin CoveredModules(r)
    <3> SUFFICES ASSUME m \in CoveredModules(r) PROVE FALSE
      OBVIOUS
    <3>1. PICK p \in Requests \ {r} : /\ Live(p) /\ request[p].scope = request[r].scope
                                      /\ m \in request[p].modules
      BY DEF CoveredModules
    <3>2. request[r].modules \cap request[p].modules = {}
      BY <2>1, <3>1 DEF LiveWindowsDisjoint
    <3>3. QED  BY <2>1, <3>1, <3>2
  <2>3. Looser(lock[<<s, m>>], "closed")  BY <1>3 DEF Timer, Looser
  <2>4. lock'[<<s, m>>] = LockRow("closed", Never)  BY <1>1, <2>1, <2>2, <2>3
  <2>5. QED  BY <2>4 DEF Timer, LockRow
<1>6. ASSUME request[o].scope # s PROVE lock'[<<Org, m>>] = lock[<<Org, m>>]
  <2>1. request[o].scope = Org /\ m \in request[o].modules /\ Live(o)  BY <1>4, <1>6 DEF Backs
  <2>2. ASSUME request[r].scope = Org, m \in request[r].modules PROVE m \in CoveredModules(r)
    BY <1>5, <2>1, <2>2 DEF CoveredModules
  <2>3. QED  BY <1>1, <2>2, ScopeFacts
<1>7. request'[o] = request[o]  BY <1>1, <1>5
<1>8. Backs(o, s, m)'  BY <1>2, <1>4, <1>6, <1>7, StillBacked
<1>9. QED  BY <1>8

LEMMA HourKeepsTimers ==
  ASSUME LockTypeOK, TimerBacked, PassHour
  PROVE  TimerBacked'
<1> SUFFICES ASSUME NEW s \in Scopes, NEW m \in Modules, Timer(s, m)'
             PROVE  \E r \in Requests : Backs(r, s, m)'
  BY DEF TimerBacked
<1>1. /\ lock'[<<s, m>>].state = lock[<<s, m>>].state
      /\ lock'[<<s, m>>].expires = Age(lock[<<s, m>>].expires)
      /\ lock'[<<Org, m>>].state = lock[<<Org, m>>].state
      /\ lock'[<<Org, m>>].expires = Age(lock[<<Org, m>>].expires)
  BY PassHourReads, ScopeFacts
<1>2. lock[<<s, m>>].expires \in Int  BY LockFields, LockConstants DEF Never
<1>3. Timer(s, m)  BY <1>1, <1>2 DEF Timer, Age
<1>4. PICK r \in Requests : Backs(r, s, m)  BY <1>3 DEF TimerBacked
<1>5. /\ request'[r].status = request[r].status /\ request'[r].scope = request[r].scope
      /\ request'[r].modules = request[r].modules
      /\ request[r].status = "approved" => request'[r].expires = Age(request[r].expires)
  BY PassHourReads
<1>6. Backs(r, s, m)'  BY <1>1, <1>4, <1>5 DEF Backs, Live, Timer
<1>7. QED  BY <1>6

LEMMA TimersStep ==
  ASSUME TimersInv, [Next]_vars
  PROVE  TimersInv'
<1>1. /\ TypeInv /\ LockTypeOK /\ LiveWindowsDisjoint /\ TimerBacked
      /\ WindowsInv' /\ Kinds
  BY TypeStep, WindowsStep DEF TimersInv, WindowsInv, TypeInv
<1>2. ASSUME NEW r \in Requests, Asks(r) PROVE TimerBacked'
  <2>1. ASSUME NEW s \in Scopes, NEW m \in Modules, Timer(s, m)'
        PROVE  \E o \in Requests : Backs(o, s, m)'
    <3>1. lock' = lock /\ Timer(s, m)  BY <1>2, <2>1 DEF Asks, Timer
    <3>2. PICK o \in Requests : Backs(o, s, m)  BY <1>1, <3>1 DEF TimerBacked
    <3>3. o # r  BY <1>2, <3>2 DEF Asks, Backs, Live
    <3>4. request'[o] = request[o]  BY <1>2, <3>3 DEF Asks
    <3>5. Backs(o, s, m)'  BY <3>1, <3>2, <3>4, StillBacked
    <3>6. QED  BY <3>5
  <2>2. QED  BY <2>1 DEF TimerBacked
<1>3. ASSUME UNCHANGED <<lock, request>> PROVE TimerBacked'
  BY <1>1, <1>3 DEF TimerBacked, Timer, Backs, Live
<1>4. TimerBacked'
  BY <1>1, <1>2, <1>3, SetupKeepsTimers, EndingKeepsTimers, CloseRunKeepsTimers,
     ApprovalKeepsTimers, RecloseKeepsTimers, HourKeepsTimers DEF Kinds
<1>5. QED  BY <1>1, <1>4 DEF TimersInv

LEMMA TimersInit == Init => TimersInv
<1> SUFFICES ASSUME Init PROVE TimersInv
  OBVIOUS
<1>1. \A s \in Scopes, m \in Modules : lock[<<s, m>>].expires = -1  BY DEF Init, LockRow, Never
<1>2. TimerBacked  BY <1>1 DEF TimerBacked, Timer
<1>3. QED  BY <1>2, WindowsInit DEF TimersInv

(* Every row that is open on a timer belongs to a live approved window with *)
(* exactly that expiry, for any number of subsidiaries and requests: no     *)
(* Setup write, amendment, consumption or re-close leaves a window nobody   *)
(* is going to end.                                                         *)
THEOREM TimersHaveWindows == Spec => []EveryTimerHasAWindow
<1>1. TimersInv /\ [Next]_vars => TimersInv'  BY TimersStep
<1>2. TimersInv => EveryTimerHasAWindow
  BY DEF TimersInv, TimerBacked, Timer, Backs, EveryTimerHasAWindow
<1>3. QED  BY <1>1, <1>2, TimersInit, PTL DEF Spec
-----------------------------------------------------------------------------
(* Closing the organization.  Under a closed org-wide row no narrower row   *)
(* is merely soft-closed, or open without an end.                           *)
Tight(L, s, m) ==
  L[<<Org, m>>].state = "closed" =>
    /\ L[<<s, m>>].state # "soft_closed"
    /\ L[<<s, m>>].state = "open" => L[<<s, m>>].expires >= 0

CloseReachesDown == \A s \in Subs, m \in Modules : Tight(lock, s, m)

ReachInv == TypeInv /\ CloseReachesDown

LEMMA ReachStep ==
  ASSUME ReachInv, [Next]_vars
  PROVE  ReachInv'
<1>1. TypeInv /\ LockTypeOK /\ TypeInv' /\ Kinds  BY TypeStep DEF ReachInv, TypeInv
<1> SUFFICES ASSUME NEW s \in Subs, NEW m \in Modules PROVE Tight(lock', s, m)
  BY <1>1 DEF ReachInv, CloseReachesDown, Tight
<1>2. /\ s \in Scopes /\ Org \in Scopes /\ s # Org
      /\ lock[<<s, m>>].state \in {"open", "soft_closed", "closed", "absent"}
      /\ lock[<<s, m>>].expires \in Int
  BY <1>1, ScopeFacts, LockFields, LockConstants DEF Never
<1>3. Tight(lock, s, m)  BY DEF ReachInv, CloseReachesDown
<1>4. ASSUME NEW t \in Scopes, NEW n \in Modules, NEW state \in States, SetupWrite(t, n, state)
      PROVE  Tight(lock', s, m)
  <2>1. /\ \A u \in Scopes, k \in Modules :
             lock'[<<u, k>>] =
               IF k = n /\ (u = t \/ (t = Org /\ state # "open" /\ Looser(lock[<<u, k>>], state)))
                 THEN LockRow(state, Never) ELSE lock[<<u, k>>]
        /\ MaySet(t, n, state)
    BY <1>1, <1>4, SetReads DEF SetupWrite, SetPeriodLockState
  <2>2. CASE n = m /\ t = Org
    <3>1. lock'[<<Org, m>>] = LockRow(state, Never)  BY <1>2, <2>1, <2>2
    <3>2. CASE state # "closed"  BY <3>1, <3>2 DEF Tight, LockRow
    <3>3. CASE state = "closed"
      BY <1>2, <2>1, <2>2, <3>3 DEF Tight, LockRow, Looser
    <3>4. QED  BY <3>2, <3>3
  <2>3. CASE n = m /\ t = s
    <3>1. /\ lock'[<<s, m>>] = LockRow(state, Never) /\ lock'[<<Org, m>>] = lock[<<Org, m>>]
      BY <1>2, <2>1, <2>3
    <3>2. CASE state = "closed"  BY <3>1, <3>2 DEF Tight, LockRow
    <3>3. CASE state # "closed"
      <4>1. /\ ~RequiresApprovedReopen(EffectiveLock(lock, s, m))
            /\ ~(lock[<<s, m>>].state = "open" /\ lock[<<s, m>>].expires > 0)
        BY <2>1, <2>3, <3>3 DEF MaySet
      <4>2. lock[<<Org, m>>].state # "closed"
        BY <1>2, <1>3, <4>1 DEF RequiresApprovedReopen, EffectiveLock, Tight
      <4>3. QED  BY <3>1, <4>2 DEF Tight
    <3>4. QED  BY <3>2, <3>3
  <2>4. CASE ~(n = m /\ t \in {s, Org})
    <3>1. lock'[<<s, m>>] = lock[<<s, m>>] /\ lock'[<<Org, m>>] = lock[<<Org, m>>]
      BY <1>2, <2>1, <2>4
    <3>2. QED  BY <1>3, <3>1 DEF Tight
  <2>5. QED  BY <2>2, <2>3, <2>4
<1>5. ASSUME NEW S \in CloseRunScopes, LockCloseRun(S)
      PROVE  Tight(lock', s, m)
  <2>1. \A u \in Scopes, k \in Modules :
          lock'[<<u, k>>] =
            IF u \in S \/ (S = {Org} /\ Looser(lock[<<u, k>>], "closed"))
              THEN LockRow("closed", Never) ELSE lock[<<u, k>>]
    BY <1>1, <1>5, CloseRunReads
  <2>2. CASE S = {Org}  BY <1>2, <2>1, <2>2 DEF Tight, LockRow, Looser
  <2>3. CASE S # {Org}
    <3>1. Org \notin S  BY <2>3, LockConstants DEF CloseRunScopes
    <3>2. QED  BY <1>2, <1>3, <2>1, <2>3, <3>1 DEF Tight, LockRow
  <2>4. QED  BY <2>2, <2>3
<1>6. ASSUME NEW r \in Requests, ApproveReopen(r)
      PROVE  Tight(lock', s, m)
  <2>1. PICK e \in 1..MaxHours : e = GrantedExpiry(r)  BY <1>1, <1>6, Granted
  <2>2. \A t \in Scopes, n \in Modules :
          lock'[<<t, n>>] =
            IF (t = request[r].scope /\ n \in request[r].modules) \/ RelaxedChild(r, t, n)
              THEN LockRow("open", e) ELSE lock[<<t, n>>]
    BY <1>1, <1>6, <2>1, ApproveLocks
  <2>3. /\ lock'[<<s, m>>] = LockRow("open", e) \/ lock'[<<s, m>>] = lock[<<s, m>>]
        /\ lock'[<<Org, m>>] = LockRow("open", e) \/ lock'[<<Org, m>>] = lock[<<Org, m>>]
    BY <1>2, <2>2
  <2>4. e >= 0  OBVIOUS
  <2>5. QED  BY <1>3, <2>3, <2>4 DEF Tight, LockRow
<1>7. ASSUME NEW r \in Requests, NEW automatic \in BOOLEAN, RecloseWindow(r, automatic)
      PROVE  Tight(lock', s, m)
  <2>1. \A t \in Scopes, n \in Modules :
          lock'[<<t, n>>] =
            IF /\ n \in request[r].modules \ CoveredModules(r)
               /\ t = request[r].scope \/ (request[r].scope = Org /\ Looser(lock[<<t, n>>], "closed"))
              THEN LockRow("closed", Never) ELSE lock[<<t, n>>]
    BY <1>1, <1>7, RecloseReads
  <2>2. CASE request[r].scope = Org  BY <1>2, <1>3, <2>1, <2>2 DEF Tight, LockRow, Looser
  <2>3. CASE request[r].scope # Org  BY <1>2, <1>3, <2>1, <2>3 DEF Tight, LockRow
  <2>4. QED  BY <2>2, <2>3
<1>8. ASSUME PassHour PROVE Tight(lock', s, m)
  <2>1. /\ lock'[<<s, m>>].state = lock[<<s, m>>].state
        /\ lock'[<<s, m>>].expires = Age(lock[<<s, m>>].expires)
        /\ lock'[<<Org, m>>].state = lock[<<Org, m>>].state
    BY <1>1, <1>2, <1>8, PassHourReads
  <2>2. QED  BY <1>2, <1>3, <2>1 DEF Tight, Age
<1>9. ASSUME UNCHANGED lock PROVE Tight(lock', s, m)
  BY <1>3, <1>9 DEF Tight
<1>10. QED
  BY <1>1, <1>4, <1>5, <1>6, <1>7, <1>8, <1>9 DEF Kinds, RequestsEnd, Asks

LEMMA ReachInit == Init => ReachInv
<1> SUFFICES ASSUME Init PROVE ReachInv
  OBVIOUS
<1>1. \A m \in Modules : lock[<<Org, m>>].state = "open"  BY ScopeFacts DEF Init, LockRow
<1>2. QED  BY <1>1, TypeInit DEF ReachInv, CloseReachesDown, Tight

(* "A scope-wide lock must dominate every narrower lock": under a closed    *)
(* org-wide row a subsidiary accepts postings only through a live window of *)
(* its own, in whatever order closes, windows and Setup writes of several   *)
(* administrators interleave (tightenNarrowerLocks, setPeriodLockState).    *)
THEOREM ClosedOrgDominates == Spec => []HardCloseDominates
<1>1. TimersInv /\ [Next]_vars => TimersInv'  BY TimersStep
<1>2. ReachInv /\ [Next]_vars => ReachInv'  BY ReachStep
<1>3. TimersInv /\ ReachInv => HardCloseDominates
  <2> SUFFICES ASSUME TimersInv, ReachInv, NEW s \in Subs, NEW m \in Modules,
                      lock[<<Org, m>>].state = "closed", lock[<<s, m>>].state # "absent",
                      ~BlocksPosting(lock[<<s, m>>])
               PROVE  \E r \in Requests : Live(r) /\ request[r].scope = s /\ m \in request[r].modules
    BY DEF HardCloseDominates
  <2>1. LockTypeOK /\ Tight(lock, s, m) /\ TimerBacked
    BY DEF ReachInv, TypeInv, CloseReachesDown, TimersInv
  <2>2. /\ s \in Scopes
        /\ lock[<<s, m>>].state \in {"open", "soft_closed", "closed", "absent"}
        /\ lock[<<s, m>>].expires \in Int
    BY <2>1, ScopeFacts, LockFields, LockConstants DEF Never
  <2>3. Timer(s, m)
    BY <2>1, <2>2 DEF Tight, Timer, BlocksPosting, RequiresApprovedReopen
  <2>4. PICK r \in Requests : Backs(r, s, m)  BY <2>1, <2>2, <2>3 DEF TimerBacked
  <2>5. QED  BY <2>4 DEF Backs
<1>4. QED  BY <1>1, <1>2, <1>3, TimersInit, ReachInit, PTL DEF Spec

-----------------------------------------------------------------------------
(* What a closed governing row needs before it accepts postings again *)
Governed(L, s, m) == EffectiveLock(L, s, m).state = "closed"

LEMMA ClosingKeepsGoverned ==
  ASSUME NEW s \in Scopes, NEW m \in Modules, Governed(lock, s, m),
         lock'[<<s, m>>].state \in {lock[<<s, m>>].state, "closed"},
         lock'[<<Org, m>>].state \in {lock[<<Org, m>>].state, "closed"}
  PROVE  Governed(lock', s, m)
BY DEF Governed, EffectiveLock

LEMMA ApprovalNeeded ==
  ASSUME TypeInv, [Next]_vars, NEW s \in Scopes, NEW m \in Modules, Governed(lock, s, m),
         ~RequiresApprovedReopen(EffectiveLock(lock', s, m))
  PROVE  \E r \in Requests : Approves(r, s, m)
<1>1. LockTypeOK /\ Kinds /\ Org \in Scopes  BY TypeStep, ScopeFacts DEF TypeInv
<1>2. ~Governed(lock', s, m)  BY DEF Governed, RequiresApprovedReopen
<1>3. ASSUME NEW t \in Scopes, NEW n \in Modules, NEW state \in States, SetupWrite(t, n, state)
      PROVE  FALSE
  <2>1. /\ \A u \in Scopes, k \in Modules :
             lock'[<<u, k>>] =
               IF k = n /\ (u = t \/ (t = Org /\ state # "open" /\ Looser(lock[<<u, k>>], state)))
                 THEN LockRow(state, Never) ELSE lock[<<u, k>>]
        /\ MaySet(t, n, state)
    BY <1>1, <1>3, SetReads DEF SetupWrite, SetPeriodLockState
  <2>2. CASE state = "closed"
    <3>1. /\ lock'[<<s, m>>] = LockRow("closed", Never) \/ lock'[<<s, m>>] = lock[<<s, m>>]
          /\ lock'[<<Org, m>>] = LockRow("closed", Never) \/ lock'[<<Org, m>>] = lock[<<Org, m>>]
      BY <1>1, <2>1, <2>2
    <3>2. QED  BY <1>2, <3>1, ClosingKeepsGoverned DEF LockRow
  <2>3. CASE state # "closed"
    <3>1. ~RequiresApprovedReopen(EffectiveLock(lock, t, n))  BY <2>1, <2>3 DEF MaySet
    <3>2. ~(n = m /\ t = s)  BY <3>1 DEF Governed, RequiresApprovedReopen
    <3>3. CASE n = m /\ t = Org
      <4>1. lock[<<Org, m>>].state # "closed"
        BY <3>1, <3>3 DEF RequiresApprovedReopen, EffectiveLock
      <4>2. lock[<<s, m>>].state = "closed"  BY <4>1 DEF Governed, EffectiveLock
      <4>3. ~Looser(lock[<<s, m>>], state)  BY <4>2 DEF Looser
      <4>4. lock'[<<s, m>>] = lock[<<s, m>>]  BY <2>1, <3>2, <3>3, <4>3
      <4>5. QED  BY <1>2, <4>2, <4>4 DEF Governed, EffectiveLock
    <3>4. CASE ~(n = m /\ t = Org)
      <4>1. lock'[<<s, m>>] = lock[<<s, m>>] /\ lock'[<<Org, m>>] = lock[<<Org, m>>]
        BY <1>1, <2>1, <3>2, <3>4
      <4>2. QED  BY <1>2, <4>1, ClosingKeepsGoverned
    <3>5. QED  BY <3>3, <3>4
  <2>4. QED  BY <2>2, <2>3
<1>4. ASSUME NEW S \in CloseRunScopes, LockCloseRun(S) PROVE FALSE
  <2>1. /\ lock'[<<s, m>>] = LockRow("closed", Never) \/ lock'[<<s, m>>] = lock[<<s, m>>]
        /\ lock'[<<Org, m>>] = LockRow("closed", Never) \/ lock'[<<Org, m>>] = lock[<<Org, m>>]
    BY <1>1, <1>4, CloseRunReads
  <2>2. QED  BY <1>2, <2>1, ClosingKeepsGoverned DEF LockRow
<1>5. ASSUME NEW r \in Requests, NEW automatic \in BOOLEAN, RecloseWindow(r, automatic) PROVE FALSE
  <2>1. /\ lock'[<<s, m>>] = LockRow("closed", Never) \/ lock'[<<s, m>>] = lock[<<s, m>>]
        /\ lock'[<<Org, m>>] = LockRow("closed", Never) \/ lock'[<<Org, m>>] = lock[<<Org, m>>]
    BY <1>1, <1>5, RecloseReads
  <2>2. QED  BY <1>2, <2>1, ClosingKeepsGoverned DEF LockRow
<1>6. ASSUME PassHour PROVE FALSE
  <2>1. /\ lock'[<<s, m>>].state = lock[<<s, m>>].state
        /\ lock'[<<Org, m>>].state = lock[<<Org, m>>].state
    BY <1>1, <1>6, PassHourReads
  <2>2. QED  BY <1>2, <2>1, ClosingKeepsGoverned
<1>7. ASSUME UNCHANGED lock PROVE FALSE
  BY <1>2, <1>7 DEF Governed
<1>8. PICK r \in Requests : ApproveReopen(r)
  BY <1>1, <1>3, <1>4, <1>5, <1>6, <1>7 DEF Kinds, RequestsEnd, Asks
<1>9. PICK e \in 1..MaxHours : e = GrantedExpiry(r)  BY <1>8, Granted
<1>10. \A t \in Scopes, n \in Modules :
         lock'[<<t, n>>] =
           IF (t = request[r].scope /\ n \in request[r].modules) \/ RelaxedChild(r, t, n)
             THEN LockRow("open", e) ELSE lock[<<t, n>>]
  BY <1>1, <1>8, <1>9, ApproveLocks
<1>11. request[r].status = "requested" /\ request'[r].status = "approved"
  BY <1>1, <1>8, <1>9, ApproveReads DEF ApproveReopen
<1>12. lock'[<<s, m>>] # lock[<<s, m>>] \/ lock'[<<Org, m>>] # lock[<<Org, m>>]
  BY <1>2, ClosingKeepsGoverned
<1>13. request[r].scope \in {s, Org} /\ m \in request[r].modules
  BY <1>1, <1>10, <1>12 DEF RelaxedChild
<1>14. QED  BY <1>11, <1>13 DEF Approves

(* A close, hard or soft, leaves what needed an approved reopening blocked. *)
ClosedOrKept(t, m) ==
  \/ lock'[<<t, m>>] = lock[<<t, m>>]
  \/ \E state \in {"closed", "soft_closed"} : lock'[<<t, m>>] = LockRow(state, Never)

LEMMA ClosingKeepsBlocked ==
  ASSUME NEW s \in Scopes, NEW m \in Modules, ClosedOrKept(s, m), ClosedOrKept(Org, m),
         RequiresApprovedReopen(EffectiveLock(lock, s, m))
  PROVE  BlocksPosting(EffectiveLock(lock', s, m))
BY DEF ClosedOrKept, EffectiveLock, BlocksPosting, RequiresApprovedReopen, LockRow

LEMMA ExpiredNeedsApproval ==
  ASSUME TypeInv, [Next]_vars, NEW s \in Scopes, NEW m \in Modules,
         RequiresApprovedReopen(EffectiveLock(lock, s, m)),
         ~BlocksPosting(EffectiveLock(lock', s, m))
  PROVE  \E r \in Requests : Approves(r, s, m)
<1>1. LockTypeOK /\ Kinds /\ Org \in Scopes  BY TypeStep, ScopeFacts DEF TypeInv
<1>2. ~(ClosedOrKept(s, m) /\ ClosedOrKept(Org, m))  BY ClosingKeepsBlocked
<1>3. ASSUME NEW t \in Scopes, NEW n \in Modules, NEW state \in States, SetupWrite(t, n, state)
      PROVE  FALSE
  <2>1. /\ \A u \in Scopes, k \in Modules :
             lock'[<<u, k>>] =
               IF k = n /\ (u = t \/ (t = Org /\ state # "open" /\ Looser(lock[<<u, k>>], state)))
                 THEN LockRow(state, Never) ELSE lock[<<u, k>>]
        /\ MaySet(t, n, state)
    BY <1>1, <1>3, SetReads DEF SetupWrite, SetPeriodLockState
  <2>2. CASE state # "open"
    <3>1. state \in {"closed", "soft_closed"}  BY <2>2 DEF States
    <3>2. QED  BY <1>1, <1>2, <2>1, <3>1 DEF ClosedOrKept
  <2>3. CASE state = "open"
    <3>1. ~RequiresApprovedReopen(EffectiveLock(lock, t, n))  BY <2>1, <2>3 DEF MaySet
    <3>2. ~(n = m /\ t = s)  BY <3>1
    <3>3. lock'[<<s, m>>] = lock[<<s, m>>]  BY <2>1, <2>3, <3>2
    <3>4. CASE n = m /\ t = Org
      <4>1. ~RequiresApprovedReopen(lock[<<Org, m>>])  BY <3>1, <3>4 DEF EffectiveLock
      <4>2. lock[<<s, m>>].state # "absent"  BY <4>1 DEF EffectiveLock
      <4>3. EffectiveLock(lock', s, m) = EffectiveLock(lock, s, m)
        BY <3>3, <4>2 DEF EffectiveLock
      <4>4. QED  BY <4>3 DEF BlocksPosting
    <3>5. CASE ~(n = m /\ t = Org)
      <4>1. lock'[<<Org, m>>] = lock[<<Org, m>>]  BY <1>1, <2>1, <2>3, <3>5
      <4>2. QED  BY <1>2, <3>3, <4>1 DEF ClosedOrKept
    <3>6. QED  BY <3>4, <3>5
  <2>4. QED  BY <2>2, <2>3
<1>4. ASSUME NEW S \in CloseRunScopes, LockCloseRun(S) PROVE FALSE
  <2>1. \A t \in Scopes : ClosedOrKept(t, m)  BY <1>1, <1>4, CloseRunReads DEF ClosedOrKept
  <2>2. QED  BY <1>1, <1>2, <2>1
<1>5. ASSUME NEW r \in Requests, NEW automatic \in BOOLEAN, RecloseWindow(r, automatic) PROVE FALSE
  <2>1. \A t \in Scopes : ClosedOrKept(t, m)  BY <1>1, <1>5, RecloseReads DEF ClosedOrKept
  <2>2. QED  BY <1>1, <1>2, <2>1
<1>6. ASSUME PassHour PROVE FALSE
  <2>1. \A t \in {s, Org} :
          /\ lock'[<<t, m>>].state = lock[<<t, m>>].state
          /\ lock'[<<t, m>>].expires = Age(lock[<<t, m>>].expires)
    BY <1>1, <1>6, PassHourReads
  <2>2. \A t \in {s, Org} :
          RequiresApprovedReopen(lock[<<t, m>>]) => RequiresApprovedReopen(lock'[<<t, m>>])
    BY <2>1 DEF RequiresApprovedReopen, Age
  <2>3. QED  BY <2>1, <2>2 DEF EffectiveLock, BlocksPosting
<1>7. ASSUME UNCHANGED lock PROVE FALSE  BY <1>2, <1>7 DEF ClosedOrKept
<1>8. PICK r \in Requests : ApproveReopen(r)
  BY <1>1, <1>3, <1>4, <1>5, <1>6, <1>7 DEF Kinds, RequestsEnd, Asks
<1>9. PICK e \in 1..MaxHours : e = GrantedExpiry(r)  BY <1>8, Granted
<1>10. \A t \in Scopes, n \in Modules :
         lock'[<<t, n>>] =
           IF (t = request[r].scope /\ n \in request[r].modules) \/ RelaxedChild(r, t, n)
             THEN LockRow("open", e) ELSE lock[<<t, n>>]
  BY <1>1, <1>8, <1>9, ApproveLocks
<1>11. request[r].status = "requested" /\ request'[r].status = "approved"
  BY <1>1, <1>8, <1>9, ApproveReads DEF ApproveReopen
<1>12. lock'[<<s, m>>] # lock[<<s, m>>] \/ lock'[<<Org, m>>] # lock[<<Org, m>>]
  BY <1>2 DEF ClosedOrKept
<1>13. request[r].scope \in {s, Org} /\ m \in request[r].modules
  BY <1>1, <1>10, <1>12 DEF RelaxedChild
<1>14. QED  BY <1>11, <1>13 DEF Approves

(* A scope whose governing row is hard-closed starts to accept postings, or *)
(* becomes releasable from Setup, only in the step that approves a reopen   *)
(* request covering it, and so does an expired window (postings only):      *)
(* neither another administrator's Setup sequence, a re-close, a close run  *)
(* nor the passing of time gets around the approval.                        *)
THEOREM ReopeningNeedsApproval == Spec => HardCloseNeedsApproval
<1>1. TypeInv /\ [Next]_vars => TypeInv'  BY TypeStep
<1>2. TypeInv /\ [Next]_vars =>
        [\A s \in Scopes, m \in Modules :
           Reopens(EffectiveLock(lock, s, m), EffectiveLock(lock', s, m))
           => \E r \in Requests : Approves(r, s, m)]_vars
  BY ApprovalNeeded, ExpiredNeedsApproval DEF Governed, Reopens
<1>3. QED  BY <1>1, <1>2, TypeInit, PTL DEF Spec, HardCloseNeedsApproval
-----------------------------------------------------------------------------
(* Posting against closing *)

LEMMA LockTransactionIsNext == LockTransaction => Next
BY DEF LockTransaction, Next

LEMMA PostingLeavesLocks ==
  ASSUME NEW d \in Docs,
         \/ \E S \in SUBSET Subs, m \in Modules : BeginPosting(d, S, m)
         \/ AssertPeriodOpen(d) \/ CommitPosting(d) \/ RollbackPosting(d)
         \/ DrainEffect(d) \/ ReplayEffect(d)
  PROVE  UNCHANGED <<lock, request, job>>
BY DEF BeginPosting, AssertPeriodOpen, CommitPosting, RollbackPosting, DrainEffect, ReplayEffect

LEMMA PCStepIsStep == [PCNext]_allvars => [Next]_vars
<1> SUFFICES ASSUME [PCNext]_allvars PROVE [Next]_vars
  OBVIOUS
<1>1. CASE FencedLockTransaction  BY <1>1, LockTransactionIsNext DEF FencedLockTransaction
<1>2. CASE PassHour \/ \E a \in Admins : StopSetup(a) \/ CrashSetup(a)  BY <1>2 DEF Next
<1>3. ASSUME NEW d \in Docs,
             \/ \E S \in SUBSET Subs, m \in Modules : BeginPosting(d, S, m)
             \/ AssertPeriodOpen(d) \/ CommitPosting(d) \/ RollbackPosting(d)
             \/ DrainEffect(d) \/ ReplayEffect(d)
      PROVE  [Next]_vars
  BY <1>3, PostingLeavesLocks DEF vars
<1>4. CASE UNCHANGED allvars  BY <1>4 DEF allvars, vars
<1>5. QED  BY <1>1, <1>2, <1>3, <1>4 DEF PCNext

(* The composition implements the period locks: posting, draining and       *)
(* replaying never touch a lock or a request, and the additional refusals   *)
(* of the close only remove steps.                                          *)
THEOREM PostingRefinesLocks == PCSpec => Spec
<1>1. PCInit => Init  BY DEF PCInit
<1>2. QED  BY <1>1, PCStepIsStep, PTL DEF PCSpec, Spec

-----------------------------------------------------------------------------
(* What a posting found open stays open in state until its transaction ends *)
OpenFor(L, d) ==
  \A s \in posting[d].subs, m \in {posting[d].module, GL} :
    EffectiveLock(L, s, m).state \notin {"soft_closed", "closed"}

CheckedOpen == \A d \in Docs : posting[d].stage = "checked" => OpenFor(lock, d)

CloseInv == TypeInv /\ PostingTypeOK /\ CheckedOpen /\ ClosedMeansSettled

LEMMA SetCloses ==
  ASSUME LockTypeOK, NEW t \in Scopes, NEW n \in Modules, NEW state \in States,
         SetPeriodLockState(t, n, state), NEW s \in Scopes,
         ~Governed(lock, s, GL), Governed(lock', s, GL)
  PROVE  n = GL /\ state = "closed" /\ t \in {s, Org}
<1>1. /\ \A u \in Scopes, k \in Modules :
           lock'[<<u, k>>] =
             IF k = n /\ (u = t \/ (t = Org /\ state # "open" /\ Looser(lock[<<u, k>>], state)))
               THEN LockRow(state, Never) ELSE lock[<<u, k>>]
      /\ MaySet(t, n, state)
  BY SetReads DEF SetPeriodLockState
<1>2. Org \in Scopes /\ GL \in Modules  BY ScopeFacts
<1>3. /\ lock'[<<s, GL>>] = lock[<<s, GL>>] \/ (lock'[<<s, GL>>] = LockRow(state, Never) /\ n = GL /\ t \in {s, Org})
      /\ lock'[<<Org, GL>>] = lock[<<Org, GL>>] \/ (lock'[<<Org, GL>>] = LockRow(state, Never) /\ n = GL /\ t = Org)
  BY <1>1, <1>2
<1>4. state # "absent"  BY DEF States
<1>5. QED  BY <1>3, <1>4 DEF Governed, EffectiveLock, LockRow

(* A transaction that hard-closes the GL of a subsidiary has found the      *)
(* effects of that subsidiary, or of the organization, settled.             *)
LEMMA ClosesSettled ==
  ASSUME TypeInv, LockTransaction, NEW s \in Subs,
         ~Governed(lock, s, GL), Governed(lock', s, GL)
  PROVE  Settled(s) \/ Settled(Org)
<1>1. LockTypeOK /\ s \in Scopes /\ Org \in Scopes /\ GL \in Modules
  BY ScopeFacts DEF TypeInv
<1>2. /\ lock'[<<s, GL>>] # lock[<<s, GL>>] \/ lock'[<<Org, GL>>] # lock[<<Org, GL>>]
  BY DEF Governed, EffectiveLock
<1>3. ASSUME NEW t \in Scopes, NEW n \in Modules, NEW state \in States,
             SetPeriodLockState(t, n, state)
      PROVE  n = GL /\ state = "closed" /\ t \in {s, Org}
  BY <1>1, <1>3, SetCloses
<1>4. ASSUME NEW a \in Admins, NEW t \in Scopes, NEW state \in States, NEW M \in SUBSET Modules,
             BeginSetup(a, t, state, M), (M = {GL} /\ state = "closed") => Settled(t)
      PROVE  Settled(s) \/ Settled(Org)
  <2>1. PICK n \in M : NextModule(M, n) /\ SetPeriodLockState(t, n, state)
    BY <1>4 DEF BeginSetup
  <2>2. n = GL /\ state = "closed" /\ t \in {s, Org}  BY <1>3, <2>1
  <2>3. M = {GL}  BY <2>1, <2>2 DEF NextModule
  <2>4. QED  BY <1>4, <2>2, <2>3
<1>5. ASSUME NEW a \in Admins, ContinueSetup(a),
             (job[a].todo = {GL} /\ job[a].state = "closed") => Settled(job[a].scope)
      PROVE  Settled(s) \/ Settled(Org)
  <2>1. PICK n \in Modules :
          NextModule(job[a].todo, n) /\ SetPeriodLockState(job[a].scope, n, job[a].state)
    BY <1>5 DEF ContinueSetup
  <2>2. job[a] \in Job  BY <1>1 DEF LockTypeOK
  <2>3. PICK t \in Scopes : t = job[a].scope  BY <2>2 DEF Job
  <2>4. PICK state \in States : state = job[a].state  BY <2>2 DEF Job
  <2>5. n = GL /\ state = "closed" /\ t \in {s, Org}  BY <1>3, <2>1, <2>3, <2>4
  <2>6. job[a].todo = {GL}  BY <2>1, <2>5 DEF NextModule
  <2>7. Settled(t)  BY <1>5, <2>3, <2>4, <2>5, <2>6
  <2>8. QED  BY <2>5, <2>7
<1>6. ASSUME NEW S \in CloseRunScopes, LockCloseRun(S), \A t \in S : Settled(t)
      PROVE  Settled(s) \/ Settled(Org)
  <2>1. \A u \in Scopes, k \in Modules :
          lock'[<<u, k>>] =
            IF u \in S \/ (S = {Org} /\ Looser(lock[<<u, k>>], "closed"))
              THEN LockRow("closed", Never) ELSE lock[<<u, k>>]
    BY <1>1, <1>6, CloseRunReads
  <2>2. s \in S \/ Org \in S  BY <1>1, <1>2, <2>1
  <2>3. QED  BY <1>6, <2>2
<1>7. ASSUME NEW r \in Requests, ApproveReopen(r) PROVE FALSE
  <2>1. PICK e \in 1..MaxHours : e = GrantedExpiry(r)  BY <1>7, Granted
  <2>2. /\ lock'[<<s, GL>>] = LockRow("open", e) \/ lock'[<<s, GL>>] = lock[<<s, GL>>]
        /\ lock'[<<Org, GL>>] = LockRow("open", e) \/ lock'[<<Org, GL>>] = lock[<<Org, GL>>]
    BY <1>1, <1>7, <2>1, ApproveLocks
  <2>3. QED  BY <2>2 DEF Governed, EffectiveLock, LockRow
<1>8. ASSUME NEW r \in Requests, NEW automatic \in BOOLEAN, RecloseWindow(r, automatic),
             GL \in request[r].modules \ CoveredModules(r) => Settled(request[r].scope)
      PROVE  Settled(s) \/ Settled(Org)
  <2>1. \A t \in Scopes, n \in Modules :
          lock'[<<t, n>>] =
            IF /\ n \in request[r].modules \ CoveredModules(r)
               /\ t = request[r].scope \/ (request[r].scope = Org /\ Looser(lock[<<t, n>>], "closed"))
              THEN LockRow("closed", Never) ELSE lock[<<t, n>>]
    BY <1>1, <1>8, RecloseReads
  <2>2. GL \in request[r].modules \ CoveredModules(r) /\ request[r].scope \in {s, Org}
    BY <1>1, <1>2, <2>1
  <2>3. QED  BY <1>8, <2>2
<1>9. ASSUME UNCHANGED lock PROVE FALSE  BY <1>2, <1>9
<1>10. QED
  BY <1>4, <1>5, <1>6, <1>7, <1>8, <1>9
     DEF LockTransaction, ConsumeReopenRequests, RequestPeriodReopen, ExtendReopenRequest, DeclineReopen

LEMMA SettledCovers ==
  ASSUME NEW s \in Subs, Settled(s) \/ Settled(Org), NEW d \in Docs, s \in posting[d].subs
  PROVE  ~Incomplete(d)
BY DEF Settled

(* A lock transaction, which no posting straddles *)
LEMMA FencedStep ==
  ASSUME CloseInv, FencedLockTransaction
  PROVE  PostingTypeOK' /\ CheckedOpen' /\ ClosedMeansSettled'
<1>1. posting' = posting /\ effect' = effect /\ TypeInv
  BY DEF FencedLockTransaction, pvars, CloseInv
<1>2. PostingTypeOK'  BY <1>1 DEF CloseInv, PostingTypeOK
<1>3. CheckedOpen'  BY <1>1 DEF CheckedOpen, FencedLockTransaction, HoldsFence
<1>4. ClosedMeansSettled'
  <2> SUFFICES ASSUME NEW s \in Subs, NEW d \in Docs, Governed(lock', s, GL), s \in posting[d].subs
               PROVE  ~Incomplete(d)
    BY <1>1 DEF ClosedMeansSettled, Governed, Incomplete
  <2>1. CASE Governed(lock, s, GL)
    BY <2>1 DEF CloseInv, ClosedMeansSettled, Governed
  <2>2. CASE ~Governed(lock, s, GL)
    <3>1. Settled(s) \/ Settled(Org)
      BY <1>1, <2>2, ClosesSettled DEF FencedLockTransaction
    <3>2. QED  BY <3>1, SettledCovers
  <2>3. QED  BY <2>1, <2>2
<1>5. QED  BY <1>2, <1>3, <1>4

(* Time, and Setup calls that end without writing, need no fence: they      *)
(* change the state of no row.                                              *)
LEMMA UnfencedStep ==
  ASSUME CloseInv, PassHour \/ (\E a \in Admins : StopSetup(a) \/ CrashSetup(a)) \/ UNCHANGED lock,
         UNCHANGED pvars
  PROVE  PostingTypeOK' /\ CheckedOpen' /\ ClosedMeansSettled'
<1>1. posting' = posting /\ effect' = effect /\ LockTypeOK /\ GL \in Modules
      /\ Subs \subseteq Scopes /\ Org \in Scopes
  BY ScopeFacts DEF pvars, CloseInv, TypeInv
<1>2. \A t \in Scopes, n \in Modules : lock'[<<t, n>>].state = lock[<<t, n>>].state
  BY <1>1, PassHourReads DEF StopSetup, CrashSetup
<1>3. \A t \in Scopes, n \in Modules : EffectiveLock(lock', t, n).state = EffectiveLock(lock, t, n).state
  BY <1>1, <1>2 DEF EffectiveLock
<1>4. PostingTypeOK'  BY <1>1 DEF CloseInv, PostingTypeOK
<1>5. CheckedOpen'
  <2> SUFFICES ASSUME NEW d \in Docs, posting[d].stage = "checked",
                      NEW s \in posting[d].subs, NEW m \in {posting[d].module, GL}
               PROVE  EffectiveLock(lock', s, m).state \notin {"soft_closed", "closed"}
    BY <1>1 DEF CheckedOpen, OpenFor
  <2>1. posting[d] \in Posting  BY DEF CloseInv, PostingTypeOK
  <2>2. s \in Scopes /\ m \in Modules  BY <1>1, <2>1 DEF Posting
  <2>3. QED  BY <1>3, <2>2 DEF CloseInv, CheckedOpen, OpenFor
<1>6. ClosedMeansSettled'
  <2> SUFFICES ASSUME NEW s \in Subs, NEW d \in Docs, EffectiveLock(lock', s, GL).state = "closed",
                      s \in posting[d].subs
               PROVE  ~Incomplete(d)
    BY <1>1 DEF ClosedMeansSettled, Incomplete
  <2>1. EffectiveLock(lock, s, GL).state = "closed"  BY <1>1, <1>3
  <2>2. QED  BY <2>1 DEF CloseInv, ClosedMeansSettled
<1>7. QED  BY <1>4, <1>5, <1>6

(* What a step of one document's posting or outbox row may do: the          *)
(* subsidiaries are replaced only while there is no outbox row, and a row   *)
(* appears only for a checked posting.                                      *)
PostingMove(d, p, x) ==
  /\ posting' = [posting EXCEPT ![d] = p] /\ effect' = [effect EXCEPT ![d] = x]
  /\ (p.stage = "posted") <=> (x # "absent")
  /\ p.stage = "checked" =>
       (OpenFor(lock, d) /\ p.subs = posting[d].subs /\ p.module = posting[d].module)
  /\ x \in {"pending", "terminal_failed"} =>
       /\ p.subs = posting[d].subs
       /\ Incomplete(d) \/ (posting[d].stage = "checked" /\ p.stage = "posted")

LEMMA PostingStep ==
  ASSUME CloseInv, NEW d \in Docs,
         \/ \E S \in SUBSET Subs, m \in Modules : BeginPosting(d, S, m)
         \/ AssertPeriodOpen(d) \/ CommitPosting(d) \/ RollbackPosting(d)
         \/ DrainEffect(d) \/ ReplayEffect(d)
  PROVE  PostingTypeOK' /\ CheckedOpen' /\ ClosedMeansSettled'
<1>1. lock' = lock  BY PostingLeavesLocks
<1>2. /\ posting \in [Docs -> Posting] /\ effect \in [Docs -> Effects]
      /\ posting[d] \in Posting /\ effect[d] \in Effects
      /\ (posting[d].stage = "posted") <=> (effect[d] # "absent")
  BY DEF CloseInv, PostingTypeOK
<1>3. \E p \in Posting, x \in Effects : PostingMove(d, p, x)
  <2>1. ASSUME NEW S \in SUBSET Subs, NEW m \in Modules, BeginPosting(d, S, m)
        PROVE  \E p \in Posting, x \in Effects : PostingMove(d, p, x)
    <3> DEFINE p == [stage |-> "fenced", subs |-> S, module |-> m]
    <3>1. p \in Posting /\ p.stage = "fenced"  BY DEF Posting, Stages
    <3>2. effect' = [effect EXCEPT ![d] = effect[d]] /\ effect[d] = "absent"
      BY <1>2, <2>1 DEF BeginPosting
    <3>3. posting' = [posting EXCEPT ![d] = p]  BY <2>1 DEF BeginPosting
    <3> HIDE DEF p
    <3>4. QED  BY <1>2, <3>1, <3>2, <3>3 DEF PostingMove
  <2>2. ASSUME NEW stage \in {"checked", "posted"},
               posting' = [posting EXCEPT ![d].stage = stage]
        PROVE  \E p \in Posting : /\ posting' = [posting EXCEPT ![d] = p] /\ p.stage = stage
                                  /\ p.subs = posting[d].subs /\ p.module = posting[d].module
    <3> DEFINE p == [posting[d] EXCEPT !.stage = stage]
    <3>1. /\ p \in Posting /\ p.stage = stage
          /\ p.subs = posting[d].subs /\ p.module = posting[d].module
      BY <1>2 DEF Posting, Stages
    <3>2. posting' = [posting EXCEPT ![d] = p]  BY <2>2
    <3> HIDE DEF p
    <3>3. QED  BY <3>1, <3>2
  <2>3. CASE AssertPeriodOpen(d)
    <3>1. PICK p \in Posting : /\ posting' = [posting EXCEPT ![d] = p] /\ p.stage = "checked"
                               /\ p.subs = posting[d].subs /\ p.module = posting[d].module
      BY <2>2, <2>3 DEF AssertPeriodOpen
    <3>2. effect' = [effect EXCEPT ![d] = effect[d]] /\ effect[d] = "absent"
      BY <1>2, <2>3 DEF AssertPeriodOpen
    <3>3. OpenFor(lock, d)
      BY <2>3 DEF AssertPeriodOpen, BlockedFor, OpenFor, BlocksPosting, RequiresApprovedReopen
    <3>4. QED  BY <1>2, <3>1, <3>2, <3>3 DEF PostingMove
  <2>4. CASE CommitPosting(d)
    <3>1. PICK p \in Posting : /\ posting' = [posting EXCEPT ![d] = p] /\ p.stage = "posted"
                               /\ p.subs = posting[d].subs /\ p.module = posting[d].module
      BY <2>2, <2>4 DEF CommitPosting
    <3>2. effect' = [effect EXCEPT ![d] = "pending"] /\ "pending" \in Effects
          /\ posting[d].stage = "checked"
      BY <2>4 DEF CommitPosting, Effects
    <3>3. QED  BY <3>1, <3>2 DEF PostingMove
  <2>5. CASE RollbackPosting(d)
    <3>1. NotPosted \in Posting /\ NotPosted.stage = "approved"
      BY ScopeFacts DEF NotPosted, Posting, Stages
    <3>2. effect' = [effect EXCEPT ![d] = effect[d]] /\ effect[d] = "absent"
          /\ posting' = [posting EXCEPT ![d] = NotPosted]
      BY <1>2, <2>5 DEF RollbackPosting
    <3>3. QED  BY <1>2, <3>1, <3>2 DEF PostingMove
  <2>6. CASE DrainEffect(d) \/ ReplayEffect(d)
    <3>1. PICK x \in Effects \ {"absent"} : effect' = [effect EXCEPT ![d] = x]
      BY <2>6 DEF DrainEffect, ReplayEffect, Effects
    <3>2. posting' = [posting EXCEPT ![d] = posting[d]] /\ Incomplete(d) /\ posting[d].stage = "posted"
      BY <1>2, <2>6 DEF DrainEffect, ReplayEffect, Incomplete
    <3>3. QED  BY <1>2, <3>1, <3>2 DEF PostingMove
  <2>7. QED  BY <2>1, <2>3, <2>4, <2>5, <2>6
<1>4. PICK p \in Posting, x \in Effects : PostingMove(d, p, x)
  BY <1>3
<1>5. /\ posting'[d] = p /\ effect'[d] = x
      /\ \A o \in Docs \ {d} : posting'[o] = posting[o] /\ effect'[o] = effect[o]
  BY <1>2, <1>4 DEF PostingMove
<1>6. PostingTypeOK'
  BY <1>2, <1>4, <1>5 DEF CloseInv, PostingTypeOK, PostingMove
<1>7. CheckedOpen'
  <2> SUFFICES ASSUME NEW o \in Docs, posting'[o].stage = "checked" PROVE OpenFor(lock, o)'
    BY DEF CheckedOpen
  <2>1. OpenFor(lock, o) /\ posting'[o].subs = posting[o].subs /\ posting'[o].module = posting[o].module
    BY <1>4, <1>5 DEF CloseInv, CheckedOpen, PostingMove
  <2>2. QED  BY <1>1, <2>1 DEF OpenFor
<1>8. ClosedMeansSettled'
  <2> SUFFICES ASSUME NEW s \in Subs, NEW o \in Docs, EffectiveLock(lock, s, GL).state = "closed",
                      s \in posting'[o].subs, Incomplete(o)'
               PROVE  FALSE
    BY <1>1 DEF ClosedMeansSettled
  <2>1. CASE o # d
    BY <1>5, <2>1 DEF CloseInv, ClosedMeansSettled, Incomplete
  <2>2. CASE o = d
    <3>1. /\ s \in posting[d].subs
          /\ Incomplete(d) \/ posting[d].stage = "checked"
      BY <1>4, <1>5, <2>2 DEF Incomplete, PostingMove
    <3>2. CASE Incomplete(d)  BY <3>1, <3>2 DEF CloseInv, ClosedMeansSettled
    <3>3. CASE posting[d].stage = "checked"
      BY <3>1, <3>3 DEF CloseInv, CheckedOpen, OpenFor
    <3>4. QED  BY <3>1, <3>2, <3>3
  <2>3. QED  BY <2>1, <2>2
<1>9. QED  BY <1>6, <1>7, <1>8

LEMMA CloseInit == PCInit => CloseInv
<1> SUFFICES ASSUME PCInit PROVE CloseInv
  OBVIOUS
<1>1. NotPosted \in Posting /\ NotPosted.stage = "approved" /\ NotPosted.subs = {}
  BY ScopeFacts DEF NotPosted, Posting, Stages
<1>2. PostingTypeOK  BY <1>1 DEF PCInit, PostingTypeOK, Effects
<1>3. CheckedOpen /\ ClosedMeansSettled  BY <1>1 DEF PCInit, CheckedOpen, ClosedMeansSettled
<1>4. QED  BY <1>2, <1>3, TypeInit DEF PCInit, CloseInv

LEMMA CloseStep ==
  ASSUME CloseInv, [PCNext]_allvars
  PROVE  CloseInv'
<1>1. TypeInv'  BY PCStepIsStep, TypeStep DEF CloseInv
<1>2. PostingTypeOK' /\ CheckedOpen' /\ ClosedMeansSettled'
  <2>1. CASE UNCHANGED allvars  BY <2>1, UnfencedStep DEF allvars, pvars
  <2>2. CASE PCNext  BY <2>2, FencedStep, UnfencedStep, PostingStep DEF PCNext
  <2>3. QED  BY <2>1, <2>2
<1>3. QED  BY <1>1, <1>2 DEF CloseInv

-----------------------------------------------------------------------------
(* A document has its outbox row exactly when it is posted. *)
THEOREM PostingTypeCorrect == PCSpec => []PostingTypeOK
<1>1. CloseInv => PostingTypeOK  BY DEF CloseInv
<1>2. CloseInv /\ [PCNext]_allvars => CloseInv'  BY CloseStep
<1>3. QED  BY <1>1, <1>2, CloseInit, PTL DEF PCSpec

(* A hard-closed GL is fully reconciled: no posting of a subsidiary whose   *)
(* GL is closed still owes downstream work.  It rests on two halves of the  *)
(* code together: assertPostingEffectsSettled wherever upsertLock closes a  *)
(* GL, and the shared fence that keeps a close out while a checked posting  *)
(* has not ended.                                                           *)
THEOREM ClosedIsSettled == PCSpec => []ClosedMeansSettled
<1>1. CloseInv => ClosedMeansSettled  BY DEF CloseInv
<1>2. CloseInv /\ [PCNext]_allvars => CloseInv'  BY CloseStep
<1>3. QED  BY <1>1, <1>2, CloseInit, PTL DEF PCSpec

(* No posting commits while its module or GL is soft-closed or closed for   *)
(* one of its subsidiaries, although the check and the commit are separate  *)
(* steps.                                                                   *)
THEOREM PostsIntoOpenOnly == PCSpec => NoPostingIntoClosed
<1>1. CloseInv /\ [PCNext]_allvars => CloseInv'  BY CloseStep
<1>2. CloseInv =>
        [\A d \in Docs :
           (posting[d].stage = "checked" /\ posting'[d].stage = "posted") =>
             \A s \in posting[d].subs, m \in {posting[d].module, GL} :
               EffectiveLock(lock, s, m).state \notin {"soft_closed", "closed"}]_allvars
  BY DEF CloseInv, CheckedOpen, OpenFor
<1>3. QED  BY <1>1, <1>2, CloseInit, PTL DEF PCSpec, NoPostingIntoClosed

(* What the period locks promise holds while documents are posted. *)
THEOREM LocksHoldWhilePosting ==
  PCSpec => []HardCloseDominates /\ []LiveWindowsDisjoint /\ HardCloseNeedsApproval
BY PostingRefinesLocks, ClosedOrgDominates, NoTwoWindowsShareAModule, ReopeningNeedsApproval, PTL
=============================================================================
