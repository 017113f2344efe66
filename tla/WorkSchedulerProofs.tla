------------------------ MODULE WorkSchedulerProofs ------------------------
(***************************************************************************)
(* WorkScheduler for any set of routes, requests, scopes and domains, any  *)
(* budgets that pass validate_runtime_config, and any lease, retry and     *)
(* stall times.                                                            *)
(***************************************************************************)
EXTENDS WorkScheduler, FiniteSetTheorems, TLAPS

-----------------------------------------------------------------------------
(* The values of WorkState. *)

LEMMA StatesAreWorkStates ==
  /\ Waiting \in WorkStates /\ Ready \in WorkStates
  /\ Permanent \in WorkStates /\ AwaitingChange \in WorkStates
  /\ \A r \in Requests, at \in Nat :
       InFlight(r, at) \in WorkStates /\ Stalled(r, at) \in WorkStates
  BY DEF Waiting, Ready, Permanent, AwaitingChange, InFlight, Stalled, State, WorkStates

LEMMA MinusIsNat == \A a, b \in Nat : Minus(a, b) \in Nat
  BY DEF Minus

LEMMA NewLeasesAreNat == NewLeases \subseteq Nat
  BY SchedulerConstants DEF NewLeases, Minus

\* A state that carries a request exactly when it is owned.
Proper(state) ==
  /\ state \in WorkStates
  /\ (state.request # NoRequest) <=> (state.kind \in {"InFlight", "Stalled"})

LEMMA StatesAreProper ==
  /\ Proper(Waiting) /\ Proper(Ready) /\ Proper(Permanent) /\ Proper(AwaitingChange)
  /\ \A r \in Requests, at \in Nat : Proper(InFlight(r, at)) /\ Proper(Stalled(r, at))
  BY SchedulerConstants, StatesAreWorkStates
     DEF Proper, Waiting, Ready, Permanent, AwaitingChange, InFlight, Stalled, State

LEMMA ExpireLeaseKeeps ==
  ASSUME NEW state, Proper(state)
  PROVE  /\ Proper(ExpireLease(state))
         /\ ExpireLease(state).request = state.request
         /\ \A r : OwnedBy(state, r) => OwnedBy(ExpireLease(state), r)
         /\ state = Waiting => ExpireLease(state) = Waiting
         /\ state = Permanent => ExpireLease(state) = Permanent
  BY SchedulerConstants, ValidatedBudgets
     DEF Proper, ExpireLease, Stalled, State, WorkStates, OwnedBy, Waiting, Permanent

LEMMA ElapseKeeps ==
  ASSUME NEW state, Proper(state)
  PROVE  /\ Proper(Elapse(state))
         /\ \A r : OwnedBy(state, r) => OwnedBy(Elapse(state), r)
         /\ state = Waiting => Elapse(state) = Waiting
         /\ state = Permanent => Elapse(state) = Permanent
<1>1. state.at \in Nat /\ state \in WorkStates
  BY DEF Proper, WorkStates
<1>2. Minus(state.at, 1) \in Nat /\ Minus(0, 1) = 0
  <2>1. Minus(state.at, 1) \in Nat
    BY <1>1, MinusIsNat
  <2>2. Minus(0, 1) = 0
    BY DEF Minus
  <2> QED
    BY <2>1, <2>2
<1>3. /\ Elapse(state) \in WorkStates
      /\ Elapse(state).kind = state.kind
      /\ Elapse(state).request = state.request
  BY <1>1, <1>2 DEF Elapse, WorkStates
<1>4. /\ state = Waiting => Elapse(state) = Waiting
      /\ state = Permanent => Elapse(state) = Permanent
  BY <1>2 DEF Elapse, Waiting, Permanent, State
<1> QED
  BY <1>3, <1>4 DEF Proper, OwnedBy

-----------------------------------------------------------------------------
(* Sets of jobs and what retiring them does to the index and the counters. *)

LEMMA KeysAreFinite == IsFiniteSet(Keys)
  BY SchedulerConstants, FS_Product DEF Keys

LEMMA ActiveWithoutType ==
  ASSUME NEW ks \in SUBSET Keys, active \in [Domains -> Nat]
  PROVE  ActiveWithout(ks) \in [Domains -> Nat]
<1>1. ASSUME NEW d \in Domains
      PROVE  Cardinality({k \in ks : DomainOf[k[1]] = d}) \in Nat
  BY KeysAreFinite, FS_Subset, FS_CardinalityType
<1> QED
  BY <1>1, MinusIsNat DEF ActiveWithout

LEMMA ScopesWithoutType ==
  ASSUME NEW ks, scopes \in [Capabilities -> [Scopes -> Requests \cup {NoRequest}]]
  PROVE  ScopesWithout(ks) \in [Capabilities -> [Scopes -> Requests \cup {NoRequest}]]
  BY DEF ScopesWithout

\* A removed job, whatever removed it, leaves the index exact.
LEMMA RetirementKeepsIndex ==
  ASSUME TypeOK, ScopeIndexExact, NEW ks \in SUBSET Keys,
         scopes' = ScopesWithout(ks),
         \A c \in Capabilities, r \in Requests :
           jobs'[c][r].scope = IF <<c, r>> \in ks THEN NoScope ELSE jobs[c][r].scope
  PROVE  ScopeIndexExact'
<1> SUFFICES ASSUME NEW c \in Capabilities, NEW r \in Requests, NEW s \in Scopes
             PROVE  scopes'[c][s] = r <=> jobs'[c][r].scope = s
  BY DEF ScopeIndexExact
<1>1. scopes'[c][s] = IF <<c, scopes[c][s]>> \in ks /\ jobs[c][scopes[c][s]].scope = s
                        THEN NoRequest ELSE scopes[c][s]
  BY DEF ScopesWithout
<1>2. scopes[c][s] = r <=> jobs[c][r].scope = s
  BY DEF ScopeIndexExact
<1> QED
  BY <1>1, <1>2, SchedulerConstants

-----------------------------------------------------------------------------
(* Type correctness. *)

\* TypeOK says of every route that its state is proper, and of every job
\* that it is a proper state owned by the job's request.
LEMMA TypeOKParts ==
  TypeOK =>
    /\ \A c \in Capabilities : Proper(work[c])
    /\ \A c \in Capabilities, r \in Requests :
         HasJob(c, r) => OwnedBy(jobs[c][r].work, r) /\ jobs[c][r].work \in WorkStates
  BY DEF TypeOK, Proper, HasJob

LEMMA TypeOKInit == Init => TypeOK
  BY SchedulerConstants, StatesAreProper
     DEF Init, TypeOK, Proper, HasJob, NoJob, Job, Waiting, State

\* The routes' half of TypeOK after the step that settles one of them.
LEMMA SettleType ==
  ASSUME TypeOK, NEW c \in Capabilities, NEW next, Proper(next),
         NEW at \in Nat \cup {Never}, Settle(c, next, at)
  PROVE  /\ work' \in [Capabilities -> WorkStates]
         /\ due' \in [Capabilities -> Nat \cup {Never}]
         /\ \A d \in Capabilities :
              (work'[d].request # NoRequest) <=> (work'[d].kind \in {"InFlight", "Stalled"})
  BY DEF TypeOK, Settle, Proper

\* The jobs' half of TypeOK after the removal of one of them.
LEMMA RemoveJobType ==
  ASSUME TypeOK, NEW c \in Capabilities, NEW r \in Requests, RemoveJob(c, r)
  PROVE  /\ jobs' \in [Capabilities -> [Requests ->
                         [scope : Scopes \cup {NoScope}, work : WorkStates]]]
         /\ scopes' \in [Capabilities -> [Scopes -> Requests \cup {NoRequest}]]
         /\ active' \in [Domains -> Nat]
         /\ \A d \in Capabilities, q \in Requests :
              IF jobs'[d][q].scope # NoScope
                THEN OwnedBy(jobs'[d][q].work, q) ELSE jobs'[d][q] = NoJob
<1>1. NoJob \in [scope : Scopes \cup {NoScope}, work : WorkStates] /\ NoJob.scope = NoScope
  BY StatesAreWorkStates DEF NoJob, Job
<1>2. scopes' \in [Capabilities -> [Scopes -> Requests \cup {NoRequest}]]
  BY ScopesWithoutType DEF RemoveJob, TypeOK
<1>3. active' \in [Domains -> Nat]
  <2>1. {<<c, r>>} \in SUBSET Keys
    BY DEF Keys
  <2> QED
    BY <2>1, ActiveWithoutType DEF RemoveJob, TypeOK
<1> QED
  BY <1>1, <1>2, <1>3 DEF RemoveJob, TypeOK, HasJob

LEMMA NextDueType ==
  ASSUME TypeOK, NEW c \in Capabilities, NEW h \in Healths
  PROVE  NextDue(c, h) \in Nat \cup {Never} /\ Proper(NextWork(h))
<1>1. NextDue(c, h) \in Nat \cup {Never}
  <2>1. cadence[c] # NoCadence => cadence[c] \in Nat
    BY SchedulerConstants DEF TypeOK
  <2>2. CASE h = "Success"
    BY <2>1, <2>2 DEF NextDue
  <2>3. CASE h = "RetryNow"
    BY <2>3 DEF NextDue
  <2>4. CASE h = "RetryLater"
    BY <2>4, SchedulerConstants DEF NextDue
  <2>5. CASE h \notin {"Success", "RetryNow", "RetryLater"}
    BY <2>5 DEF NextDue
  <2> QED
    BY <2>2, <2>3, <2>4, <2>5
<1>2. Proper(NextWork(h))
  <2>1. CASE h = "Never"
    BY <2>1, StatesAreProper DEF NextWork
  <2>2. CASE h = "AfterCapabilityChange"
    BY <2>2, StatesAreProper DEF NextWork
  <2>3. CASE h \notin {"Never", "AfterCapabilityChange"}
    BY <2>3, StatesAreProper DEF NextWork
  <2> QED
    BY <2>1, <2>2, <2>3
<1> QED
  BY <1>1, <1>2

\* The requests of abandoned routes and jobs are keys.
LEMMA AbandonedJobsAreKeys == AbandonedJobs \in SUBSET Keys
  BY DEF AbandonedJobs, JobsIn, Keys

LEMMA TickKeepsType == TypeOK /\ Tick => TypeOK'
<1> SUFFICES ASSUME TypeOK, Tick PROVE TypeOK'
  OBVIOUS
<1>1. \A c \in Capabilities : Proper(work'[c])
  BY TypeOKParts, StatesAreProper, ExpireLeaseKeeps DEF Tick, LeftBy
<1>2. DOMAIN work' = Capabilities /\ work' \in [Capabilities -> WorkStates]
  <2>1. \A c \in Capabilities : work'[c] \in WorkStates
    BY <1>1 DEF Proper
  <2> QED
    BY <2>1 DEF Tick
<1>3. due' \in [Capabilities -> Nat \cup {Never}]
  BY SchedulerConstants DEF Tick, DueAfter, TypeOK
<1>4. \A c \in Capabilities, r \in Requests :
        HasJob(c, r) =>
          /\ Proper(jobs[c][r].work)
          /\ OwnedBy(ExpireLease(jobs[c][r].work), r)
          /\ ExpireLease(jobs[c][r].work) \in WorkStates
  <2> SUFFICES ASSUME NEW c \in Capabilities, NEW r \in Requests, HasJob(c, r)
               PROVE  /\ Proper(jobs[c][r].work)
                      /\ OwnedBy(ExpireLease(jobs[c][r].work), r)
                      /\ ExpireLease(jobs[c][r].work) \in WorkStates
    OBVIOUS
  <2>1. Proper(jobs[c][r].work) /\ OwnedBy(jobs[c][r].work, r)
    BY TypeOKParts, SchedulerConstants DEF Proper, OwnedBy
  <2> QED
    BY <2>1, ExpireLeaseKeeps DEF Proper
<1>5. \A c \in Capabilities, r \in Requests :
        /\ jobs'[c][r] \in [scope : Scopes \cup {NoScope}, work : WorkStates]
        /\ IF jobs'[c][r].scope # NoScope
             THEN OwnedBy(jobs'[c][r].work, r) ELSE jobs'[c][r] = NoJob
  <2> SUFFICES ASSUME NEW c \in Capabilities, NEW r \in Requests
               PROVE  /\ jobs'[c][r] \in [scope : Scopes \cup {NoScope}, work : WorkStates]
                      /\ IF jobs'[c][r].scope # NoScope
                           THEN OwnedBy(jobs'[c][r].work, r) ELSE jobs'[c][r] = NoJob
    OBVIOUS
  <2>1. jobs'[c][r] = IF <<c, r>> \in AbandonedJobs THEN NoJob
                      ELSE Job(jobs[c][r].scope, ExpireLease(jobs[c][r].work))
    BY DEF Tick
  <2>2. NoJob \in [scope : Scopes \cup {NoScope}, work : WorkStates] /\ NoJob.scope = NoScope
    BY StatesAreWorkStates DEF NoJob, Job
  <2>3. CASE <<c, r>> \in AbandonedJobs
    BY <2>1, <2>2, <2>3
  <2>4. CASE <<c, r>> \notin AbandonedJobs /\ HasJob(c, r)
    <3>1. jobs'[c][r] = Job(jobs[c][r].scope, ExpireLease(jobs[c][r].work))
      BY <2>1, <2>4
    <3>2. jobs[c][r].scope \in Scopes /\ jobs[c][r].scope # NoScope
      BY <2>4 DEF TypeOK, HasJob
    <3>3. /\ OwnedBy(ExpireLease(jobs[c][r].work), r)
          /\ ExpireLease(jobs[c][r].work) \in WorkStates
      BY <2>4, <1>4
    <3> QED
      BY <3>1, <3>2, <3>3 DEF Job
  <2>5. CASE <<c, r>> \notin AbandonedJobs /\ ~HasJob(c, r)
    <3>1. jobs[c][r] = NoJob /\ NoJob.work = Waiting
      BY <2>5 DEF TypeOK, NoJob, Job
    <3>2. ExpireLease(Waiting) = Waiting
      BY StatesAreProper, ExpireLeaseKeeps
    <3> QED
      BY <2>1, <2>2, <2>5, <3>1, <3>2 DEF NoJob, Job
  <2> QED
    BY <2>3, <2>4, <2>5
<1>6. jobs' \in [Capabilities -> [Requests -> [scope : Scopes \cup {NoScope}, work : WorkStates]]]
  BY <1>5 DEF Tick
<1>7. scopes' \in [Capabilities -> [Scopes -> Requests \cup {NoRequest}]]
  BY ScopesWithoutType DEF Tick, TypeOK
<1>8. active' \in [Domains -> Nat]
  BY ActiveWithoutType, AbandonedJobsAreKeys DEF Tick, TypeOK
<1>9. permits' \in [Capabilities -> [Requests -> {"None", "Active", "TerminalClaimed"}]]
  BY DEF Tick, TypeOK
<1>10. cadence' \in [Capabilities -> Cadences]
  BY DEF Tick, TypeOK
<1> QED
  BY <1>1, <1>2, <1>3, <1>5, <1>6, <1>7, <1>8, <1>9, <1>10 DEF TypeOK, HasJob, Proper

LEMMA AdvanceKeepsType == TypeOK /\ Advance => TypeOK'
<1> SUFFICES ASSUME TypeOK, Advance PROVE TypeOK'
  OBVIOUS
<1>1. \A c \in Capabilities : Proper(work'[c])
  BY TypeOKParts, ElapseKeeps DEF Advance
<1>2. work' \in [Capabilities -> WorkStates]
  BY <1>1 DEF Advance, Proper
<1>3. due' \in [Capabilities -> Nat \cup {Never}]
  BY MinusIsNat DEF Advance, TypeOK
<1>4. \A c \in Capabilities, r \in Requests :
        /\ jobs'[c][r] \in [scope : Scopes \cup {NoScope}, work : WorkStates]
        /\ IF jobs'[c][r].scope # NoScope
             THEN OwnedBy(jobs'[c][r].work, r) ELSE jobs'[c][r] = NoJob
  <2> SUFFICES ASSUME NEW c \in Capabilities, NEW r \in Requests
               PROVE  /\ jobs'[c][r] \in [scope : Scopes \cup {NoScope}, work : WorkStates]
                      /\ IF jobs'[c][r].scope # NoScope
                           THEN OwnedBy(jobs'[c][r].work, r) ELSE jobs'[c][r] = NoJob
    OBVIOUS
  <2>1. jobs'[c][r] = Job(jobs[c][r].scope, Elapse(jobs[c][r].work))
    BY DEF Advance
  <2>2. CASE HasJob(c, r)
    <3>1. Proper(jobs[c][r].work) /\ OwnedBy(jobs[c][r].work, r)
      BY <2>2, TypeOKParts, SchedulerConstants DEF Proper, OwnedBy
    <3>2. OwnedBy(Elapse(jobs[c][r].work), r) /\ Elapse(jobs[c][r].work) \in WorkStates
      BY <3>1, ElapseKeeps DEF Proper
    <3>3. jobs[c][r].scope \in Scopes /\ jobs[c][r].scope # NoScope
      BY <2>2 DEF TypeOK, HasJob
    <3> QED
      BY <2>1, <3>2, <3>3 DEF Job
  <2>3. CASE ~HasJob(c, r)
    <3>1. jobs[c][r] = NoJob /\ NoJob.work = Waiting /\ NoJob.scope = NoScope
      BY <2>3 DEF TypeOK, NoJob, Job
    <3>2. Elapse(Waiting) = Waiting
      BY StatesAreProper, ElapseKeeps
    <3> QED
      BY <2>1, <3>1, <3>2, StatesAreWorkStates DEF NoJob, Job
  <2> QED
    BY <2>2, <2>3
<1>5. jobs' \in [Capabilities -> [Requests -> [scope : Scopes \cup {NoScope}, work : WorkStates]]]
  BY <1>4 DEF Advance
<1> QED
  BY <1>1, <1>2, <1>3, <1>4, <1>5 DEF Advance, TypeOK, HasJob, Proper

LEMMA CallKeepsType ==
  ASSUME TypeOK, NEW c \in Capabilities, NEW r \in Requests, Call(c, r)
  PROVE  TypeOK'
<1>1. ASSUME NEW left \in NewLeases, AdmitCapability(c, r, left) PROVE TypeOK'
  <2>1. Proper(InFlight(r, left))
    BY StatesAreProper, NewLeasesAreNat
  <2> QED
    BY <1>1, <2>1 DEF AdmitCapability, TypeOK, Proper, SetPermit, registry, HasJob
<1>2. ASSUME NEW left \in NewLeases, NEW s \in Scopes, AdmitTarget(c, r, s, left)
      PROVE  TypeOK'
  <2>1. InFlight(r, left) \in WorkStates /\ OwnedBy(InFlight(r, left), r)
    BY StatesAreWorkStates, NewLeasesAreNat DEF InFlight, State, OwnedBy
  <2>2. /\ Job(s, InFlight(r, left)) \in [scope : Scopes \cup {NoScope}, work : WorkStates]
        /\ Job(s, InFlight(r, left)).scope # NoScope
        /\ OwnedBy(Job(s, InFlight(r, left)).work, r)
    BY <2>1, SchedulerConstants DEF Job
  <2>3. /\ jobs' \in [Capabilities -> [Requests ->
                        [scope : Scopes \cup {NoScope}, work : WorkStates]]]
        /\ \A d \in Capabilities, q \in Requests :
             IF jobs'[d][q].scope # NoScope
               THEN OwnedBy(jobs'[d][q].work, q) ELSE jobs'[d][q] = NoJob
    BY <1>2, <2>2 DEF AdmitTarget, TypeOK, HasJob
  <2>4. /\ scopes' \in [Capabilities -> [Scopes -> Requests \cup {NoRequest}]]
        /\ permits' \in [Capabilities -> [Requests -> {"None", "Active", "TerminalClaimed"}]]
    BY <1>2 DEF AdmitTarget, TypeOK, SetPermit
  <2>5. active' \in [Domains -> Nat]
    <3>1. active \in [Domains -> Nat] /\ DomainOf[c] \in Domains
      BY SchedulerConstants DEF TypeOK
    <3>2. active' = [active EXCEPT ![DomainOf[c]] = @ + 1]
      BY <1>2 DEF AdmitTarget
    <3> QED
      BY <3>1, <3>2
  <2> QED
    BY <1>2, <2>3, <2>4, <2>5 DEF AdmitTarget, TypeOK, HasJob
<1>3. ASSUME NEW h \in Healths, RecordHealth(c, r, h) PROVE TypeOK'
  <2>1. CASE HasJob(c, r)
    BY <1>3, <2>1, RemoveJobType DEF RecordHealth, TypeOK, HasJob
  <2>2. CASE ~HasJob(c, r)
    <3>1. Settle(c, NextWork(h), NextDue(c, h)) /\ UNCHANGED <<cadence, permits, registry>>
      BY <1>3, <2>2 DEF RecordHealth
    <3> QED
      BY <3>1, NextDueType, SettleType DEF TypeOK, HasJob, registry
  <2> QED
    BY <2>1, <2>2
<1>4. CASE CancelSubmission(c, r)
  <2>0. permits' \in [Capabilities -> [Requests -> {"None", "Active", "TerminalClaimed"}]]
    BY <1>4 DEF CancelSubmission, SetPermit, TypeOK
  <2>1. CASE HasJob(c, r)
    BY <1>4, <2>0, <2>1, RemoveJobType DEF CancelSubmission, TypeOK, HasJob
  <2>2. CASE ~HasJob(c, r)
    <3>1. Settle(c, Waiting, Retry) /\ UNCHANGED <<cadence, registry>>
      BY <1>4, <2>2 DEF CancelSubmission
    <3>2. Retry \in Nat
      BY SchedulerConstants
    <3> QED
      BY <2>0, <3>1, <3>2, StatesAreProper, SettleType DEF TypeOK, HasJob, registry
  <2> QED
    BY <2>1, <2>2
<1>5. CASE ClaimTerminal(c, r)
  BY <1>5 DEF ClaimTerminal, SetPermit, TypeOK, HasJob, registry
<1>6. CASE AbortTerminal(c, r)
  BY <1>6 DEF AbortTerminal, SetPermit, TypeOK, HasJob, registry
<1>7. CASE AcknowledgeTerminal(c, r)
  BY <1>7 DEF AcknowledgeTerminal, SetPermit, TypeOK, HasJob, registry
<1>8. ASSUME NEW left \in NewLeases, RenewTargetLease(c, r, left) PROVE TypeOK'
  <2>1. InFlight(r, left) \in WorkStates /\ OwnedBy(InFlight(r, left), r)
    BY StatesAreWorkStates, NewLeasesAreNat DEF InFlight, State, OwnedBy
  <2>2. /\ jobs' \in [Capabilities -> [Requests ->
                        [scope : Scopes \cup {NoScope}, work : WorkStates]]]
        /\ \A d \in Capabilities, q \in Requests :
             IF jobs'[d][q].scope # NoScope
               THEN OwnedBy(jobs'[d][q].work, q) ELSE jobs'[d][q] = NoJob
    BY <1>8, <2>1 DEF RenewTargetLease, TypeOK, HasJob
  <2> QED
    BY <1>8, <2>2 DEF RenewTargetLease, TypeOK, HasJob
<1> QED
  BY <1>1, <1>2, <1>3, <1>4, <1>5, <1>6, <1>7, <1>8 DEF Call

LEMMA PolicyKeepsType ==
  ASSUME TypeOK, NEW c \in Capabilities, Policy(c)
  PROVE  TypeOK'
<1>1. CASE RequeuePlanned(c)
  <2>1. Retry \in Nat
    BY SchedulerConstants
  <2> QED
    BY <1>1, <2>1, StatesAreProper, SettleType DEF RequeuePlanned, TypeOK, HasJob, registry
<1>2. ASSUME NEW new \in Cadences, SetCadence(c, new) PROVE TypeOK'
  BY <1>2 DEF SetCadence, TypeOK, HasJob, registry
<1>3. ASSUME NEW trigger, RequestRecovery(c, trigger) PROVE TypeOK'
  BY <1>3, StatesAreProper, SettleType DEF RequestRecovery, TypeOK, HasJob, registry
<1> QED
  BY <1>1, <1>2, <1>3 DEF Policy

LEMMA TypeOKStep == TypeOK /\ [Next]_schedVars => TypeOK'
<1> SUFFICES ASSUME TypeOK, [Next]_schedVars PROVE TypeOK'
  OBVIOUS
<1>1. CASE UNCHANGED schedVars
  BY <1>1 DEF schedVars, TypeOK, HasJob
<1> QED
  BY <1>1, CallKeepsType, PolicyKeepsType, TickKeepsType, AdvanceKeepsType DEF Next

\* Type correctness, for every budget and every population.
THEOREM SchedulerTypes == Spec => []TypeOK
  BY TypeOKInit, TypeOKStep, PTL DEF Spec

-----------------------------------------------------------------------------
(* The scope index. *)

LEMMA ScopeIndexInit == Init => ScopeIndexExact
  BY SchedulerConstants DEF Init, ScopeIndexExact, NoJob, Job

\* Steps that move no job between scopes.
LEMMA IndexUntouched ==
  ASSUME ScopeIndexExact, scopes' = scopes,
         \A c \in Capabilities, r \in Requests : jobs'[c][r].scope = jobs[c][r].scope
  PROVE  ScopeIndexExact'
  BY DEF ScopeIndexExact

LEMMA RemoveJobKeepsIndex ==
  ASSUME TypeOK, ScopeIndexExact, NEW c \in Capabilities, NEW r \in Requests,
         RemoveJob(c, r)
  PROVE  ScopeIndexExact'
<1> DEFINE ks == {<<c, r>>}
<1>1. ks \in SUBSET Keys
  BY DEF Keys
<1>2. scopes' = ScopesWithout(ks)
  BY DEF RemoveJob
<1>3. \A d \in Capabilities, q \in Requests :
        jobs'[d][q].scope = IF <<d, q>> \in ks THEN NoScope ELSE jobs[d][q].scope
  BY DEF RemoveJob, TypeOK, NoJob, Job
<1> HIDE DEF ks
<1> QED
  BY <1>1, <1>2, <1>3, RetirementKeepsIndex

LEMMA ScopeIndexStep == TypeOK /\ ScopeIndexExact /\ [Next]_schedVars => ScopeIndexExact'
<1> SUFFICES ASSUME TypeOK, ScopeIndexExact, [Next]_schedVars PROVE ScopeIndexExact'
  OBVIOUS
<1>1. ASSUME NEW c \in Capabilities, NEW r \in Requests, Call(c, r)
      PROVE  ScopeIndexExact'
  <2>1. ASSUME NEW left \in NewLeases, NEW s \in Scopes, AdmitTarget(c, r, s, left)
        PROVE  ScopeIndexExact'
    <3>1. /\ scopes[c][s] = NoRequest /\ jobs[c][r].scope = NoScope
          /\ \A t \in Scopes : scopes[c][t] # r
      BY <2>1, SchedulerConstants DEF AdmitTarget, CanAdmitTarget, HasJob, ScopeIndexExact
    <3>2. \A q \in Requests : jobs[c][q].scope # s
      BY <3>1, SchedulerConstants DEF ScopeIndexExact
    <3>3. \A d \in Capabilities, q \in Requests :
            jobs'[d][q].scope = IF d = c /\ q = r THEN s ELSE jobs[d][q].scope
      BY <2>1 DEF AdmitTarget, TypeOK, Job
    <3>4. \A d \in Capabilities, t \in Scopes :
            scopes'[d][t] = IF d = c /\ t = s THEN r ELSE scopes[d][t]
      BY <2>1 DEF AdmitTarget, TypeOK
    <3> QED
      BY <3>1, <3>2, <3>3, <3>4 DEF ScopeIndexExact
  <2>2. ASSUME NEW h \in Healths, RecordHealth(c, r, h) PROVE ScopeIndexExact'
    BY <2>2, RemoveJobKeepsIndex, IndexUntouched DEF RecordHealth, registry
  <2>3. CASE CancelSubmission(c, r)
    BY <2>3, RemoveJobKeepsIndex, IndexUntouched DEF CancelSubmission, registry
  <2>4. ASSUME NEW left \in NewLeases, RenewTargetLease(c, r, left)
        PROVE  ScopeIndexExact'
    <3>1. \A d \in Capabilities, q \in Requests : jobs'[d][q].scope = jobs[d][q].scope
      BY <2>4 DEF RenewTargetLease, TypeOK
    <3> QED
      BY <2>4, <3>1, IndexUntouched DEF RenewTargetLease
  <2>5. ASSUME \/ \E left \in NewLeases : AdmitCapability(c, r, left)
               \/ ClaimTerminal(c, r) \/ AbortTerminal(c, r) \/ AcknowledgeTerminal(c, r)
        PROVE  ScopeIndexExact'
    BY <2>5, IndexUntouched
       DEF AdmitCapability, ClaimTerminal, AbortTerminal, AcknowledgeTerminal, registry
  <2> QED
    BY <1>1, <2>1, <2>2, <2>3, <2>4, <2>5 DEF Call
<1>2. ASSUME NEW c \in Capabilities, Policy(c) PROVE ScopeIndexExact'
  BY <1>2, IndexUntouched DEF Policy, RequeuePlanned, SetCadence, RequestRecovery, registry
<1>3. CASE Tick
  <2>1. \A c \in Capabilities, r \in Requests :
          jobs'[c][r].scope = IF <<c, r>> \in AbandonedJobs THEN NoScope
                              ELSE jobs[c][r].scope
    BY <1>3 DEF Tick, NoJob, Job
  <2>2. scopes' = ScopesWithout(AbandonedJobs)
    BY <1>3 DEF Tick
  <2> QED
    BY <2>1, <2>2, AbandonedJobsAreKeys, RetirementKeepsIndex
<1>4. CASE Advance
  <2>1. \A c \in Capabilities, r \in Requests : jobs'[c][r].scope = jobs[c][r].scope
    BY <1>4 DEF Advance, Job
  <2> QED
    BY <1>4, <2>1, IndexUntouched DEF Advance
<1>5. CASE UNCHANGED schedVars
  BY <1>5, IndexUntouched DEF schedVars
<1> QED
  BY <1>1, <1>2, <1>3, <1>4, <1>5 DEF Next

\* The index of targets and the table of jobs never disagree, so a target is
\* never worked on twice and never blocked by a job that is gone.
THEOREM TargetsAreIndexedExactly == Spec => []ScopeIndexExact
  BY SchedulerTypes, ScopeIndexInit, ScopeIndexStep, PTL DEF Spec

-----------------------------------------------------------------------------
(* What a step may never do. *)

LEMMA PermanentStep ==
  TypeOK /\ [Next]_schedVars =>
    \A c \in Capabilities : work[c] = Permanent => work'[c] = Permanent
<1> SUFFICES ASSUME TypeOK, [Next]_schedVars, NEW c \in Capabilities, work[c] = Permanent
             PROVE  work'[c] = Permanent
  OBVIOUS
<1>1. /\ Permanent.kind = "Permanent" /\ Permanent # Ready /\ Permanent # AwaitingChange
      /\ \A r : ~OwnedBy(Permanent, r)
  BY DEF Permanent, Ready, AwaitingChange, State, OwnedBy
<1>2. ASSUME NEW d \in Capabilities, NEW r \in Requests, Call(d, r)
      PROVE  work'[c] = Permanent
  <2>1. ASSUME NEW left \in NewLeases, AdmitCapability(d, r, left)
        PROVE  work'[c] = Permanent
    BY <1>1, <2>1 DEF AdmitCapability, CanAdmitCapability, TypeOK
  <2>2. ASSUME NEW h \in Healths, RecordHealth(d, r, h) PROVE work'[c] = Permanent
    BY <1>1, <2>2 DEF RecordHealth, CanRecord, Owns, Settle, TypeOK
  <2>3. CASE CancelSubmission(d, r)
    BY <1>1, <2>3 DEF CancelSubmission, Owns, Settle, TypeOK
  <2>4. ASSUME \/ \E left \in NewLeases, s \in Scopes : AdmitTarget(d, r, s, left)
               \/ ClaimTerminal(d, r) \/ AbortTerminal(d, r) \/ AcknowledgeTerminal(d, r)
               \/ \E left \in NewLeases : RenewTargetLease(d, r, left)
        PROVE  work'[c] = Permanent
    BY <2>4 DEF AdmitTarget, ClaimTerminal, AbortTerminal, AcknowledgeTerminal,
       RenewTargetLease
  <2> QED
    BY <1>2, <2>1, <2>2, <2>3, <2>4 DEF Call
<1>3. ASSUME NEW d \in Capabilities, Policy(d) PROVE work'[c] = Permanent
  BY <1>1, <1>3 DEF Policy, RequeuePlanned, SetCadence, RequestRecovery, Recoverable,
     Settle, TypeOK
<1>4. CASE Tick
  <2>1. ExpireLease(work[c]) = Permanent
    BY StatesAreProper, ExpireLeaseKeeps
  <2>2. Permanent # Waiting /\ ~Abandonable(Permanent)
    BY DEF Permanent, Waiting, State, Abandonable
  <2> QED
    BY <1>4, <2>1, <2>2 DEF Tick, AbandonedRoutes, LeftBy, Planned
<1>5. CASE Advance
  BY <1>5, StatesAreProper, ElapseKeeps DEF Advance
<1>6. CASE UNCHANGED schedVars
  BY <1>6 DEF schedVars
<1> QED
  BY <1>2, <1>3, <1>4, <1>5, <1>6 DEF Next

\* A route blocked for good stays blocked: no recovery trigger, late
\* completion, cancellation or scheduling pass revives it.
THEOREM BlockedForGood == Spec => PermanentIsFinal
  BY SchedulerTypes, PermanentStep, PTL DEF Spec, PermanentIsFinal
-----------------------------------------------------------------------------
(* The delivery permits. *)

LEMMA PermitSetsAreFinite ==
  /\ IsFiniteSet(AllPermits) /\ Cardinality(AllPermits) \in Nat
  /\ \A class : IsFiniteSet(Permits(class)) /\ Cardinality(Permits(class)) \in Nat
<1>1. AllPermits \subseteq Keys /\ \A class : Permits(class) \subseteq Keys
  BY DEF AllPermits, Permits
<1> QED
  BY <1>1, KeysAreFinite, FS_Subset, FS_CardinalityType

\* PermitLimit leaves room for the reserve.
LEMMA ReserveFits == PermitLimit - ControlReserve \in Nat
<1>1. Cardinality(Capabilities) \in Nat
  BY SchedulerConstants, FS_CardinalityType
<1> QED
  BY <1>1, ValidatedBudgets

LEMMA PermitBudgetInit == Init => PermitBudget
<1> SUFFICES ASSUME Init PROVE PermitBudget
  OBVIOUS
<1>1. AllPermits = {} /\ Permits("Observation") = {}
  BY DEF Init, AllPermits, Permits, HasPermit, Keys
<1> QED
  BY <1>1, FS_EmptySet, ReserveFits, ValidatedBudgets DEF PermitBudget

\* Giving permits back, and changing the ones that are held, costs nothing.
LEMMA ReleaseKeepsBudget ==
  ASSUME PermitBudget,
         \A c \in Capabilities, r \in Requests : HasPermit(c, r)' => HasPermit(c, r)
  PROVE  PermitBudget'
<1>1. AllPermits' \subseteq AllPermits /\ Permits("Observation")' \subseteq Permits("Observation")
  BY DEF AllPermits, Permits, Keys
<1>2. /\ Cardinality(AllPermits') \in Nat
      /\ Cardinality(AllPermits') <= Cardinality(AllPermits)
      /\ Cardinality(Permits("Observation")') \in Nat
      /\ Cardinality(Permits("Observation")') <= Cardinality(Permits("Observation"))
  BY <1>1, PermitSetsAreFinite, FS_Subset, FS_CardinalityType
<1> QED
  BY <1>2, PermitSetsAreFinite, ReserveFits, ValidatedBudgets DEF PermitBudget

\* A reservation is counted before it is made.
LEMMA ReservationKeepsBudget ==
  ASSUME TypeOK, PermitBudget, NEW c \in Capabilities, NEW r \in Requests,
         CanReserve(c, r), SetPermit(c, r, "Active")
  PROVE  PermitBudget'
<1>1. \A d \in Capabilities, q \in Requests :
        HasPermit(d, q)' <=> HasPermit(d, q) \/ (d = c /\ q = r)
  BY DEF TypeOK, SetPermit, HasPermit
<1>2. AllPermits' = AllPermits \cup {<<c, r>>} /\ <<c, r>> \notin AllPermits
  BY <1>1 DEF AllPermits, Keys, CanReserve
<1>3. Cardinality(AllPermits') = Cardinality(AllPermits) + 1
  BY <1>2, PermitSetsAreFinite, FS_AddElement
<1>4. Cardinality(AllPermits') <= PermitLimit
  BY <1>3, PermitSetsAreFinite, ValidatedBudgets DEF CanReserve
<1>5. Cardinality(Permits("Observation")') <= PermitLimit - ControlReserve
  <2>1. CASE ClassOf[c] = "Observation"
    <3>1. /\ Permits("Observation")' = Permits("Observation") \cup {<<c, r>>}
          /\ <<c, r>> \notin Permits("Observation")
      BY <1>1, <2>1 DEF Permits, Keys, CanReserve
    <3>2. Cardinality(Permits("Observation")') = Cardinality(Permits("Observation")) + 1
      BY <3>1, PermitSetsAreFinite, FS_AddElement
    <3> QED
      BY <2>1, <3>2, PermitSetsAreFinite, ReserveFits DEF CanReserve
  <2>2. CASE ClassOf[c] # "Observation"
    <3>1. Permits("Observation")' = Permits("Observation")
      BY <1>1, <2>2 DEF Permits, Keys
    <3> QED
      BY <3>1 DEF PermitBudget
  <2> QED
    BY <2>1, <2>2
<1> QED
  BY <1>4, <1>5 DEF PermitBudget

LEMMA PermitBudgetStep == TypeOK /\ PermitBudget /\ [Next]_schedVars => PermitBudget'
<1> SUFFICES ASSUME TypeOK, PermitBudget, [Next]_schedVars PROVE PermitBudget'
  OBVIOUS
<1>1. ASSUME NEW c \in Capabilities, NEW r \in Requests, Call(c, r)
      PROVE  PermitBudget'
  <2>1. ASSUME \/ \E left \in NewLeases : AdmitCapability(c, r, left)
               \/ \E left \in NewLeases, s \in Scopes : AdmitTarget(c, r, s, left)
        PROVE  PermitBudget'
    BY <2>1, ReservationKeepsBudget
       DEF AdmitCapability, CanAdmitCapability, AdmitTarget, CanAdmitTarget
  <2>2. CASE ClaimTerminal(c, r) \/ AbortTerminal(c, r)
    <3>1. HasPermit(c, r) /\ \E p : SetPermit(c, r, p)
      BY <2>2 DEF ClaimTerminal, CanClaim, AbortTerminal, Claimed, HasPermit
    <3> QED
      BY <3>1, ReleaseKeepsBudget DEF TypeOK, SetPermit, HasPermit
  <2>3. CASE AcknowledgeTerminal(c, r) \/ CancelSubmission(c, r)
    <3>1. SetPermit(c, r, "None")
      BY <2>3 DEF AcknowledgeTerminal, CancelSubmission
    <3> QED
      BY <3>1, ReleaseKeepsBudget DEF TypeOK, SetPermit, HasPermit
  <2>4. ASSUME \/ \E h \in Healths : RecordHealth(c, r, h)
               \/ \E left \in NewLeases : RenewTargetLease(c, r, left)
        PROVE  PermitBudget'
    BY <2>4, ReleaseKeepsBudget DEF RecordHealth, RenewTargetLease, HasPermit
  <2> QED
    BY <1>1, <2>1, <2>2, <2>3, <2>4 DEF Call
<1>2. ASSUME NEW c \in Capabilities, Policy(c) PROVE PermitBudget'
  BY <1>2, ReleaseKeepsBudget
     DEF Policy, RequeuePlanned, SetCadence, RequestRecovery, HasPermit
<1>3. CASE Tick
  BY <1>3, ReleaseKeepsBudget DEF Tick, HasPermit
<1>4. CASE Advance
  BY <1>4, ReleaseKeepsBudget DEF Advance, HasPermit
<1>5. CASE UNCHANGED schedVars
  BY <1>5, ReleaseKeepsBudget DEF schedVars, HasPermit
<1> QED
  BY <1>1, <1>2, <1>3, <1>4, <1>5 DEF Next

\* The control reserve survives every order of admissions and releases, for
\* any number of routes of either class: there always is a permit that only
\* control requests may take.
THEOREM ControlReserveIsKept == Spec => []PermitBudget
  BY SchedulerTypes, PermitBudgetInit, PermitBudgetStep, PTL DEF Spec

-----------------------------------------------------------------------------
(* How owners leave. *)

\* A route that is waiting, planned or blocked is owned by nobody.
LEMMA OnlyLiveStatesOwn ==
  ASSUME NEW state, state.kind \notin {"InFlight", "Stalled"}
  PROVE  \A r : ~OwnedBy(state, r)
  BY DEF OwnedBy

\* What completion and cancellation of (d, q) leave of the other owners.
LEMMA OnlyOneOwnerLeaves ==
  ASSUME TypeOK, NEW d \in Capabilities, NEW q \in Requests, Owns(d, q),
         \/ RemoveJob(d, q) /\ UNCHANGED work
         \/ ~HasJob(d, q) /\ UNCHANGED jobs /\ \E next, at : Settle(d, next, at),
         NEW c \in Capabilities, NEW r \in Requests, Owns(c, r), ~Owns(c, r)'
  PROVE  c = d /\ r = q
<1>1. CASE RemoveJob(d, q) /\ UNCHANGED work
  <2>1. c # d \/ r # q => (HasJob(c, r)' <=> HasJob(c, r))
    BY <1>1 DEF RemoveJob, HasJob, TypeOK
  <2>2. OwnedBy(work[c], r)' <=> OwnedBy(work[c], r)
    BY <1>1
  <2> QED
    BY <2>1, <2>2 DEF Owns
<1>2. CASE ~HasJob(d, q) /\ UNCHANGED jobs /\ \E next, at : Settle(d, next, at)
  <2>1. HasJob(c, r)' <=> HasJob(c, r)
    BY <1>2 DEF HasJob
  <2>2. c # d => work'[c] = work[c]
    BY <1>2 DEF Settle, TypeOK
  <2>3. OwnedBy(work[d], q)
    BY <1>2 DEF Owns
  <2> QED
    BY <2>1, <2>2, <2>3 DEF Owns, OwnedBy
<1> QED
  BY <1>1, <1>2

\* Steps that take no owner away from any route or target.
LEMMA OwnersStay ==
  ASSUME NEW c \in Capabilities, NEW r \in Requests,
         HasJob(c, r) => HasJob(c, r)',
         OwnedBy(work[c], r) => OwnedBy(work'[c], r)
  PROVE  Owns(c, r) => Owns(c, r)'
  BY DEF Owns

LEMMA OwnersLeaveStep ==
  ASSUME TypeOK, [Next]_schedVars, NEW c \in Capabilities, NEW r \in Requests,
         Owns(c, r), ~Owns(c, r)'
  PROVE  Claimed(c, r) \/ permits'[c][r] = "None"
<1>1. ASSUME NEW d \in Capabilities, NEW q \in Requests, Call(d, q)
      PROVE  Claimed(c, r) \/ permits'[c][r] = "None"
  <2>1. ASSUME NEW left \in NewLeases, AdmitCapability(d, q, left) PROVE FALSE
    <3>1. ~OwnedBy(work[d], r)
      BY <2>1, OnlyLiveStatesOwn DEF AdmitCapability, CanAdmitCapability
    <3>2. c # d => work'[c] = work[c]
      BY <2>1 DEF AdmitCapability, TypeOK
    <3>3. HasJob(c, r)' <=> HasJob(c, r)
      BY <2>1 DEF AdmitCapability, registry, HasJob
    <3> QED
      BY <3>1, <3>2, <3>3 DEF Owns
  <2>2. ASSUME NEW left \in NewLeases, NEW s \in Scopes, AdmitTarget(d, q, s, left)
        PROVE  FALSE
    <3>1. Job(s, InFlight(q, left)).scope # NoScope
      BY SchedulerConstants DEF Job
    <3>2. HasJob(c, r) => HasJob(c, r)'
      BY <2>2, <3>1 DEF AdmitTarget, HasJob, TypeOK
    <3>3. work' = work
      BY <2>2 DEF AdmitTarget
    <3> QED
      BY <3>2, <3>3, OwnersStay
  <2>3. ASSUME NEW h \in Healths, RecordHealth(d, q, h) PROVE Claimed(c, r)
    <3>1. c = d /\ r = q
      BY <2>3, OnlyOneOwnerLeaves DEF RecordHealth, CanRecord, registry
    <3> QED
      BY <2>3, <3>1 DEF RecordHealth, CanRecord
  <2>4. CASE CancelSubmission(d, q)
    <3>1. c = d /\ r = q
      BY <2>4, OnlyOneOwnerLeaves DEF CancelSubmission, registry
    <3> QED
      BY <2>4, <3>1 DEF CancelSubmission, SetPermit, TypeOK
  <2>5. CASE ClaimTerminal(d, q) \/ AbortTerminal(d, q) \/ AcknowledgeTerminal(d, q)
    BY <2>5 DEF ClaimTerminal, AbortTerminal, AcknowledgeTerminal, registry, Owns, HasJob
  <2>6. ASSUME NEW left \in NewLeases, RenewTargetLease(d, q, left) PROVE FALSE
    <3>1. HasJob(c, r) => HasJob(c, r)'
      BY <2>6 DEF RenewTargetLease, HasJob, TypeOK
    <3>2. work' = work
      BY <2>6 DEF RenewTargetLease
    <3> QED
      BY <3>1, <3>2, OwnersStay
  <2> QED
    BY <1>1, <2>1, <2>2, <2>3, <2>4, <2>5, <2>6 DEF Call
<1>2. ASSUME NEW d \in Capabilities, Policy(d) PROVE FALSE
  <2>1. HasJob(c, r)' <=> HasJob(c, r)
    BY <1>2 DEF Policy, RequeuePlanned, SetCadence, RequestRecovery, registry, HasJob
  <2>2. c # d => work'[c] = work[c]
    BY <1>2 DEF Policy, RequeuePlanned, SetCadence, RequestRecovery, Settle, TypeOK
  <2>3. CASE work[d].kind \notin {"InFlight", "Stalled"}
    BY <2>1, <2>2, <2>3, OnlyLiveStatesOwn DEF Owns
  <2>4. CASE work' = work
    BY <2>1, <2>4 DEF Owns
  <2> QED
    BY <1>2, <2>3, <2>4
       DEF Policy, RequeuePlanned, SetCadence, RequestRecovery, Recoverable,
           Ready, AwaitingChange, State
<1>3. CASE Tick
  <2>1. SUFFICES ASSUME <<c, r>> \notin RetiredKeys PROVE FALSE
    BY <1>3 DEF Tick
  <2>2. HasJob(c, r) => HasJob(c, r)'
    BY <1>3, <2>1 DEF Tick, RetiredKeys, HasJob, Job
  <2>3. ASSUME OwnedBy(work[c], r) PROVE OwnedBy(work'[c], r)
    <3>1. c \notin AbandonedRoutes
      BY <2>1, <2>3 DEF RetiredKeys, OwnedBy
    <3>2. OwnedBy(LeftBy(c), r)
      BY <2>3, <3>1, TypeOKParts, ExpireLeaseKeeps DEF LeftBy
    <3>3. c \notin Planned
      BY <3>2 DEF Planned, OwnedBy, Waiting, State
    <3> QED
      BY <1>3, <3>2, <3>3 DEF Tick
  <2> QED
    BY <2>2, <2>3, OwnersStay
<1>4. CASE Advance
  <2>1. HasJob(c, r) => HasJob(c, r)'
    BY <1>4 DEF Advance, HasJob, Job
  <2>2. OwnedBy(work[c], r) => OwnedBy(work'[c], r)
    BY <1>4, TypeOKParts, ElapseKeeps DEF Advance
  <2> QED
    BY <2>1, <2>2, OwnersStay
<1>5. CASE UNCHANGED schedVars
  BY <1>5 DEF schedVars, Owns, HasJob
<1> QED
  BY <1>1, <1>2, <1>3, <1>4, <1>5 DEF Next

\* An owner disappears only with its permit or behind a claimed one, for any
\* number of routes, jobs and callers and whatever else a pass retires at once.
THEOREM NobodyIsDisplaced == Spec => OwnersLeaveByPermit
<1>1. TypeOK /\ [Next]_schedVars =>
        [\A c \in Capabilities, r \in Requests :
           Owns(c, r) /\ ~Owns(c, r)' => Claimed(c, r) \/ permits'[c][r] = "None"]_schedVars
  BY OwnersLeaveStep
<1> QED
  BY SchedulerTypes, <1>1, PTL DEF Spec, OwnersLeaveByPermit

\* A pass expires a lease into a stall of full length and never further.
LEMMA GraceIsWhole ==
  ASSUME NEW state, state.kind = "InFlight"
  PROVE  /\ ~Abandonable(ExpireLease(state))
         /\ ExpireLease(state).request = state.request
         /\ ExpireLease(state).kind \in {"InFlight", "Stalled"}
         /\ ExpireLease(state).kind = "Stalled" => ExpireLease(state).at = StalledLifetime
  BY ValidatedBudgets DEF ExpireLease, Abandonable, Stalled, State

LEMMA StallStep ==
  ASSUME Tick, NEW c \in Capabilities, NEW r \in Requests
  PROVE  /\ work[c].kind = "InFlight" => work'[c].request = work[c].request
         /\ work[c].kind = "InFlight" /\ work'[c].kind = "Stalled"
              => work'[c].at = StalledLifetime
         /\ HasJob(c, r) /\ jobs[c][r].work.kind = "InFlight" => HasJob(c, r)'
<1>1. ASSUME work[c].kind = "InFlight"
      PROVE  work'[c] = ExpireLease(work[c])
  <2>1. c \notin AbandonedRoutes
    BY <1>1, GraceIsWhole DEF AbandonedRoutes
  <2>2. LeftBy(c) = ExpireLease(work[c]) /\ LeftBy(c) # Waiting
    BY <1>1, <2>1, GraceIsWhole DEF LeftBy, Waiting, State
  <2> QED
    BY <2>2 DEF Tick, Planned
<1>2. ASSUME HasJob(c, r), jobs[c][r].work.kind = "InFlight"
      PROVE  HasJob(c, r)'
  <2>1. <<c, r>> \notin AbandonedJobs
    BY <1>2, GraceIsWhole DEF AbandonedJobs
  <2> QED
    BY <1>2, <2>1 DEF Tick, HasJob, Job
<1> QED
  BY <1>1, <1>2, GraceIsWhole

\* Whatever pause lies between two passes, an owner that was in flight is only
\* stalled by the next one and keeps its whole grace for a late answer.
THEOREM EveryOwnerHasItsGrace == Spec => StallBeforeAbandon
<1>1. [Next]_schedVars =>
        [\A c \in Capabilities, r \in Requests :
           Tick =>
             /\ work[c].kind = "InFlight" => work'[c].request = work[c].request
             /\ work[c].kind = "InFlight" /\ work'[c].kind = "Stalled"
                  => work'[c].at = StalledLifetime
             /\ HasJob(c, r) /\ jobs[c][r].work.kind = "InFlight" => HasJob(c, r)']_schedVars
  BY StallStep
<1> QED
  BY <1>1, PTL DEF Spec, StallBeforeAbandon

\* The two halves of NoOwnerSwap, for the routes ...
LEMMA RouteOwnerStep ==
  ASSUME TypeOK, [Next]_schedVars, NEW c \in Capabilities, NEW r \in Requests,
         OwnedBy(work[c], r)
  PROVE  work'[c].request \in {r, NoRequest}
<1>1. ASSUME NEW d \in Capabilities, NEW q \in Requests, Call(d, q)
      PROVE  work'[c].request \in {r, NoRequest}
  <2>1. ASSUME NEW left \in NewLeases, AdmitCapability(d, q, left)
        PROVE  work'[c] = work[c]
    <3>1. ~OwnedBy(work[d], r)
      BY <2>1, OnlyLiveStatesOwn DEF AdmitCapability, CanAdmitCapability
    <3> QED
      BY <2>1, <3>1 DEF AdmitCapability, TypeOK
  <2>2. ASSUME NEW h \in Healths, RecordHealth(d, q, h)
        PROVE  work'[c].request \in {r, NoRequest}
    <3>1. NextWork(h).request = NoRequest
      BY DEF NextWork, Permanent, AwaitingChange, Waiting, State
    <3> QED
      BY <2>2, <3>1 DEF RecordHealth, Settle, TypeOK, OwnedBy
  <2>3. CASE CancelSubmission(d, q)
    <3>1. Waiting.request = NoRequest
      BY DEF Waiting, State
    <3>2. work' = work \/ work' = [work EXCEPT ![d] = Waiting]
      BY <2>3 DEF CancelSubmission, Settle
    <3> QED
      BY <3>1, <3>2 DEF TypeOK, OwnedBy
  <2>4. ASSUME \/ \E left \in NewLeases, s \in Scopes : AdmitTarget(d, q, s, left)
               \/ ClaimTerminal(d, q) \/ AbortTerminal(d, q) \/ AcknowledgeTerminal(d, q)
               \/ \E left \in NewLeases : RenewTargetLease(d, q, left)
        PROVE  work' = work
    BY <2>4 DEF AdmitTarget, ClaimTerminal, AbortTerminal, AcknowledgeTerminal,
       RenewTargetLease
  <2> QED
    BY <1>1, <2>1, <2>2, <2>3, <2>4 DEF Call, OwnedBy
<1>2. ASSUME NEW d \in Capabilities, Policy(d)
      PROVE  work'[c].request \in {r, NoRequest}
  BY <1>2 DEF Policy, RequeuePlanned, SetCadence, RequestRecovery, Settle, TypeOK,
     OwnedBy, Waiting, State
<1>3. CASE Tick
  <2>1. Proper(work[c]) /\ work[c].request = r
    BY TypeOKParts DEF OwnedBy
  <2>2. /\ ExpireLease(work[c]).request = r
        /\ Waiting.request = NoRequest /\ Ready.request = NoRequest
    BY <2>1, ExpireLeaseKeeps DEF Waiting, Ready, State
  <2> QED
    BY <1>3, <2>2 DEF Tick, LeftBy
<1>4. CASE Advance
  <2>1. OwnedBy(Elapse(work[c]), r)
    BY TypeOKParts, ElapseKeeps
  <2> QED
    BY <1>4, <2>1 DEF Advance, OwnedBy
<1>5. CASE UNCHANGED schedVars
  BY <1>5 DEF schedVars, OwnedBy
<1> QED
  BY <1>1, <1>2, <1>3, <1>4, <1>5 DEF Next

\* ... and for the targets.
LEMMA ScopeOwnerStep ==
  ASSUME TypeOK, [Next]_schedVars, NEW c \in Capabilities, NEW r \in Requests,
         NEW s \in Scopes, scopes[c][s] = r
  PROVE  scopes'[c][s] \in {r, NoRequest}
<1>1. ASSUME NEW ks, scopes' = ScopesWithout(ks) PROVE scopes'[c][s] \in {r, NoRequest}
  BY <1>1 DEF ScopesWithout
<1>2. ASSUME NEW d \in Capabilities, NEW q \in Requests, Call(d, q)
      PROVE  scopes'[c][s] \in {r, NoRequest}
  <2>1. ASSUME NEW left \in NewLeases, NEW t \in Scopes, AdmitTarget(d, q, t, left)
        PROVE  scopes'[c][s] = r
    BY <2>1, SchedulerConstants DEF AdmitTarget, CanAdmitTarget, TypeOK
  <2>2. ASSUME RemoveJob(d, q) \/ UNCHANGED registry
        PROVE  scopes'[c][s] \in {r, NoRequest}
    BY <2>2, <1>1 DEF RemoveJob, registry
  <2>3. ASSUME NEW left \in NewLeases, RenewTargetLease(d, q, left)
        PROVE  scopes' = scopes
    BY <2>3 DEF RenewTargetLease
  <2> QED
    BY <1>2, <2>1, <2>2, <2>3
       DEF Call, AdmitCapability, RecordHealth, CancelSubmission, ClaimTerminal,
           AbortTerminal, AcknowledgeTerminal, registry
<1>3. ASSUME NEW d \in Capabilities, Policy(d) PROVE scopes' = scopes
  BY <1>3 DEF Policy, RequeuePlanned, SetCadence, RequestRecovery, registry
<1>4. CASE Tick
  BY <1>4, <1>1 DEF Tick
<1>5. CASE Advance \/ UNCHANGED schedVars
  BY <1>5 DEF Advance, schedVars
<1> QED
  BY <1>2, <1>3, <1>4, <1>5 DEF Next

\* No second request ever takes a route or a target over in one step: it can
\* only find it free, after the first one is settled.
THEOREM OwnersAreNeverSwapped == Spec => NoOwnerSwap
<1>1. TypeOK /\ [Next]_schedVars =>
        [\A c \in Capabilities, r \in Requests :
           /\ OwnedBy(work[c], r) => work'[c].request \in {r, NoRequest}
           /\ \A s \in Scopes :
                scopes[c][s] = r => scopes'[c][s] \in {r, NoRequest}]_schedVars
  BY RouteOwnerStep, ScopeOwnerStep
<1> QED
  BY SchedulerTypes, <1>1, PTL DEF Spec, NoOwnerSwap

-----------------------------------------------------------------------------
(* The budgets of targets and the counters that admission trusts. *)

JobTable == JobsIn(Capabilities)
DomainJobs(d) == JobsIn(CapabilitiesIn(d))

LEMMA JobSetsAreFinite ==
  \A cs \in SUBSET Capabilities :
    /\ JobsIn(cs) \in SUBSET JobTable /\ JobsIn(cs) \in SUBSET Keys
    /\ IsFiniteSet(JobsIn(cs)) /\ Cardinality(JobsIn(cs)) \in Nat
<1> SUFFICES ASSUME NEW cs \in SUBSET Capabilities
             PROVE  /\ JobsIn(cs) \in SUBSET JobTable /\ JobsIn(cs) \in SUBSET Keys
                    /\ IsFiniteSet(JobsIn(cs)) /\ Cardinality(JobsIn(cs)) \in Nat
  OBVIOUS
<1>1. JobsIn(cs) \in SUBSET JobTable /\ JobsIn(cs) \in SUBSET Keys
  BY DEF JobsIn, JobTable, Keys
<1> QED
  BY <1>1, KeysAreFinite, FS_Subset, FS_CardinalityType

LEMMA DomainsAreCapabilities == \A d : CapabilitiesIn(d) \in SUBSET Capabilities
  BY DEF CapabilitiesIn

BytesIn(ks) == UNION {BytesAt(k) : k \in ks}

\* The bytes of one scope.
LEMMA OneScopesBytes ==
  ASSUME TypeOK, NEW k \in JobTable
  PROVE  /\ ScopeBytes[jobs[k[1]][k[2]].scope] \in Nat
         /\ IsFiniteSet(BytesAt(k))
         /\ Cardinality(BytesAt(k)) = ScopeBytes[jobs[k[1]][k[2]].scope]
<1> DEFINE n == ScopeBytes[jobs[k[1]][k[2]].scope]
<1>1. n \in Nat
  <2>1. jobs[k[1]][k[2]].scope \in Scopes
    BY DEF TypeOK, JobTable, JobsIn, HasJob
  <2> QED
    BY <2>1, SchedulerConstants
<1>2. BytesAt(k) = {k} \X (1 .. n)
  BY DEF BytesAt
<1> HIDE DEF n
<1>3. /\ IsFiniteSet({k}) /\ Cardinality({k}) = 1
      /\ IsFiniteSet(1 .. n) /\ Cardinality(1 .. n) = n
  <2>1. IsFiniteSet({k}) /\ Cardinality({k}) = 1
    BY FS_Singleton
  <2>2. IsFiniteSet(1 .. n) /\ Cardinality(1 .. n) = IF 1 > n THEN 0 ELSE n - 1 + 1
    BY <1>1, FS_Interval
  <2> QED
    BY <1>1, <2>1, <2>2
<1>4. IsFiniteSet({k} \X (1 .. n)) /\ Cardinality({k} \X (1 .. n)) = 1 * n
  <2>1. Cardinality({k} \X (1 .. n)) = Cardinality({k}) * Cardinality(1 .. n)
    BY <1>3, FS_Product
  <2>2. IsFiniteSet({k} \X (1 .. n))
    BY <1>3, FS_Product
  <2> QED
    BY <1>3, <2>1, <2>2
<1>5. 1 * n = n
  BY <1>1
<1> QED
  BY <1>1, <1>2, <1>4, <1>5 DEF n

LEMMA BytesAreFinite ==
  ASSUME TypeOK, NEW ks \in SUBSET JobTable
  PROVE  /\ IsFiniteSet(BytesIn(ks)) /\ BytesOf(ks) = Cardinality(BytesIn(ks))
         /\ BytesOf(ks) \in Nat
<1>1. IsFiniteSet(ks)
  <2>1. JobTable \in SUBSET Keys /\ IsFiniteSet(JobTable)
    BY JobSetsAreFinite DEF JobTable
  <2> QED
    BY <2>1, FS_Subset
<1>2. IsFiniteSet({BytesAt(k) : k \in ks})
  <2> DEFINE f == [k \in ks |-> BytesAt(k)]
  <2>1. f \in Surjection(ks, {BytesAt(k) : k \in ks})
    BY DEF Surjection
  <2> QED
    BY <1>1, <2>1, FS_Surjection
<1>3. \A T \in {BytesAt(k) : k \in ks} : IsFiniteSet(T)
  BY OneScopesBytes
<1>4. IsFiniteSet(BytesIn(ks))
  BY <1>2, <1>3, FS_UNION DEF BytesIn
<1> QED
  BY <1>4, FS_CardinalityType DEF BytesOf, BytesIn

\* Bytes of different jobs are different.
LEMMA BytesAreApart ==
  ASSUME TypeOK, NEW js \in SUBSET JobTable, NEW ks \in SUBSET js
  PROVE  /\ BytesOf(js \ ks) = BytesOf(js) - BytesOf(ks)
         /\ BytesOf(ks) <= BytesOf(js)
<1>1. \A k : \A x \in BytesAt(k) : x[1] = k
  BY DEF BytesAt
<1>2. BytesIn(ks) \subseteq BytesIn(js)
  BY DEF BytesIn
<1>3. BytesIn(js \ ks) = BytesIn(js) \ BytesIn(ks)
  <2>1. ASSUME NEW x \in BytesIn(js \ ks) PROVE x \in BytesIn(js) /\ x \notin BytesIn(ks)
    <3>1. PICK k \in js \ ks : x \in BytesAt(k)
      BY DEF BytesIn
    <3>2. ASSUME NEW l \in ks, x \in BytesAt(l) PROVE FALSE
      BY <1>1, <3>1, <3>2
    <3> QED
      BY <3>1, <3>2 DEF BytesIn
  <2>2. ASSUME NEW x \in BytesIn(js), x \notin BytesIn(ks) PROVE x \in BytesIn(js \ ks)
    <3>1. PICK k \in js : x \in BytesAt(k)
      BY DEF BytesIn
    <3>2. k \notin ks
      BY <2>2, <3>1 DEF BytesIn
    <3> QED
      BY <3>1, <3>2 DEF BytesIn
  <2> QED
    BY <2>1, <2>2
<1>4. BytesIn(js) \cap BytesIn(ks) = BytesIn(ks)
  BY <1>2
<1>5. /\ IsFiniteSet(BytesIn(js)) /\ IsFiniteSet(BytesIn(ks))
      /\ BytesOf(js) = Cardinality(BytesIn(js)) /\ BytesOf(ks) = Cardinality(BytesIn(ks))
      /\ BytesOf(js \ ks) = Cardinality(BytesIn(js \ ks))
  <2>1. js \in SUBSET JobTable /\ ks \in SUBSET JobTable /\ js \ ks \in SUBSET JobTable
    OBVIOUS
  <2> QED
    BY <2>1, BytesAreFinite
<1>6. Cardinality(BytesIn(js) \ BytesIn(ks)) =
        Cardinality(BytesIn(js)) - Cardinality(BytesIn(js) \cap BytesIn(ks))
  BY <1>5, FS_Difference
<1>7. Cardinality(BytesIn(ks)) <= Cardinality(BytesIn(js))
  BY <1>2, <1>5, FS_Subset
<1> QED
  BY <1>3, <1>4, <1>5, <1>6, <1>7

LEMMA BudgetsUntouched ==
  ASSUME TargetBudgets, active' = active, bytes' = bytes,
         \A c \in Capabilities, r \in Requests : jobs'[c][r].scope = jobs[c][r].scope
  PROVE  TargetBudgets'
<1>1. \A cs \in SUBSET Capabilities : JobsIn(cs)' = JobsIn(cs)
  BY DEF JobsIn, HasJob
<1>2. \A d : DomainJobs(d)' = DomainJobs(d)
  BY <1>1, DomainsAreCapabilities DEF DomainJobs
<1>3. BytesOf(JobTable)' = BytesOf(JobTable)
  <2>1. \A k \in JobTable : jobs'[k[1]][k[2]].scope = jobs[k[1]][k[2]].scope
    BY DEF JobTable, JobsIn
  <2>2. JobTable' = JobTable
    BY <1>1 DEF JobTable
  <2>3. \A k \in JobTable : BytesAt(k)' = BytesAt(k)
    BY <2>1 DEF BytesAt
  <2>4. {BytesAt(k)' : k \in JobTable'} = {BytesAt(k) : k \in JobTable}
    BY <2>2, <2>3
  <2> QED
    BY <2>4 DEF BytesOf
<1>4. CountersExact'
  <2>1. \A d \in Domains : active'[d] = Cardinality(DomainJobs(d)')
    BY <1>2 DEF TargetBudgets, CountersExact, DomainJobs
  <2>2. bytes' = BytesOf(JobTable)'
    BY <1>3 DEF TargetBudgets, CountersExact, JobTable
  <2> QED
    BY <2>1, <2>2 DEF CountersExact, DomainJobs, JobTable
<1>5. Cardinality(JobsIn(Capabilities)') <= TargetLimit
  BY <1>1 DEF TargetBudgets
<1>6. \A d \in Domains : Cardinality(DomainJobs(d)') <= TargetLimitPerDomain
  BY <1>2 DEF TargetBudgets, DomainJobs
<1>7. \A c \in Capabilities : Cardinality(JobsIn({c})') <= TargetLimitPerCapability
  BY <1>1 DEF TargetBudgets
<1>8. bytes' <= ScopeByteLimit
  BY DEF TargetBudgets
<1> QED
  BY <1>4, <1>5, <1>6, <1>7, <1>8 DEF TargetBudgets, DomainJobs

\* However many jobs a step retires, it counts each of them down once: what
\* it subtracts is never more than there is.
LEMMA RetirementKeepsBudgets ==
  ASSUME TypeOK, TargetBudgets, NEW ks \in SUBSET JobTable,
         active' = ActiveWithout(ks), bytes' = Minus(bytes, BytesOf(ks)),
         \A c \in Capabilities, r \in Requests :
           jobs'[c][r].scope = IF <<c, r>> \in ks THEN NoScope ELSE jobs[c][r].scope
  PROVE  TargetBudgets'
<1>1. \A cs \in SUBSET Capabilities : JobsIn(cs)' = JobsIn(cs) \ ks
  BY DEF JobsIn, HasJob
<1>2. \A cs \in SUBSET Capabilities :
        /\ Cardinality(JobsIn(cs)') = Cardinality(JobsIn(cs)) - Cardinality(JobsIn(cs) \cap ks)
        /\ Cardinality(JobsIn(cs) \cap ks) \in Nat
        /\ Cardinality(JobsIn(cs)') \in Nat /\ Cardinality(JobsIn(cs)) \in Nat
        /\ Cardinality(JobsIn(cs)') <= Cardinality(JobsIn(cs))
  <2> SUFFICES ASSUME NEW cs \in SUBSET Capabilities
               PROVE  LET J == JobsIn(cs)
                      IN  /\ Cardinality(J \ ks) = Cardinality(J) - Cardinality(J \cap ks)
                          /\ Cardinality(J \cap ks) \in Nat
                          /\ Cardinality(J \ ks) \in Nat /\ Cardinality(J) \in Nat
                          /\ Cardinality(J \ ks) <= Cardinality(J)
    BY <1>1
  <2> DEFINE J == JobsIn(cs)
  <2>1. IsFiniteSet(J)
    BY JobSetsAreFinite
  <2> HIDE DEF J
  <2>2. J \cap ks \in SUBSET J /\ J \ ks \in SUBSET J
    OBVIOUS
  <2>3. /\ IsFiniteSet(J \cap ks) /\ IsFiniteSet(J \ ks)
        /\ Cardinality(J \ ks) <= Cardinality(J)
    BY <2>1, <2>2, FS_Subset
  <2>4. Cardinality(J \ ks) = Cardinality(J) - Cardinality(J \cap ks)
    BY <2>1, FS_Difference
  <2>5. Cardinality(J \cap ks) \in Nat /\ Cardinality(J \ ks) \in Nat /\ Cardinality(J) \in Nat
    BY <2>1, <2>3, FS_CardinalityType
  <2> QED
    BY <2>3, <2>4, <2>5 DEF J
<1>3. \A d \in Domains : active'[d] = Cardinality(DomainJobs(d)')
  <2> SUFFICES ASSUME NEW d \in Domains PROVE active'[d] = Cardinality(DomainJobs(d)')
    OBVIOUS
  <2>1. DomainJobs(d) \cap ks = {k \in ks : DomainOf[k[1]] = d}
    BY DEF DomainJobs, JobTable, JobsIn, CapabilitiesIn
  <2>2. active'[d] = Minus(active[d], Cardinality(DomainJobs(d) \cap ks))
    BY <2>1 DEF ActiveWithout
  <2>3. active[d] = Cardinality(DomainJobs(d))
    BY DEF TargetBudgets, CountersExact, DomainJobs
  <2>4. /\ Cardinality(DomainJobs(d)') =
             Cardinality(DomainJobs(d)) - Cardinality(DomainJobs(d) \cap ks)
        /\ Cardinality(DomainJobs(d) \cap ks) \in Nat
        /\ Cardinality(DomainJobs(d)') \in Nat /\ Cardinality(DomainJobs(d)) \in Nat
    BY <1>2, DomainsAreCapabilities DEF DomainJobs
  <2> DEFINE a == Cardinality(DomainJobs(d))
             b == Cardinality(DomainJobs(d) \cap ks)
             e == Cardinality(DomainJobs(d)')
  <2>5. Minus(a, b) = e
    <3>1. e = a - b /\ a \in Nat /\ b \in Nat /\ e \in Nat
      BY <2>4
    <3> HIDE DEF a, b, e
    <3> QED
      BY <3>1 DEF Minus
  <2> QED
    BY <2>2, <2>3, <2>5
<1>4. bytes' = BytesOf(JobTable)' /\ bytes' <= bytes /\ bytes \in Nat /\ bytes' \in Nat
  <2>1. BytesOf(JobTable)' = BytesOf(JobTable \ ks)
    <3>1. JobTable' = JobTable \ ks
      BY <1>1 DEF JobTable
    <3>2. \A k \in JobTable \ ks : BytesAt(k)' = BytesAt(k)
      BY DEF BytesAt, JobTable, JobsIn
    <3>3. {BytesAt(k)' : k \in JobTable'} = {BytesAt(k) : k \in JobTable \ ks}
      BY <3>1, <3>2
    <3> QED
      BY <3>3 DEF BytesOf
  <2> DEFINE a == BytesOf(JobTable)
             b == BytesOf(ks)
             e == BytesOf(JobTable \ ks)
  <2>2. e = a - b /\ b <= a
    BY BytesAreApart
  <2>3. a \in Nat /\ b \in Nat /\ e \in Nat
    <3>1. JobTable \in SUBSET JobTable /\ JobTable \ ks \in SUBSET JobTable
      OBVIOUS
    <3> QED
      BY <3>1, BytesAreFinite
  <2>4. bytes = a
    BY DEF TargetBudgets, CountersExact, JobTable
  <2> HIDE DEF a, b, e
  <2>5. Minus(a, b) = e /\ e <= a
    BY <2>2, <2>3 DEF Minus
  <2>6. bytes' = e
    BY <2>4, <2>5 DEF b
  <2> QED
    BY <2>1, <2>3, <2>4, <2>5, <2>6 DEF e
<1>5. CountersExact'
  BY <1>3, <1>4 DEF CountersExact, DomainJobs, JobTable
<1>6. /\ TargetLimit \in Nat /\ TargetLimitPerDomain \in Nat /\ TargetLimitPerCapability \in Nat
      /\ ScopeByteLimit \in Nat
  BY ValidatedBudgets
<1>7. Cardinality(JobsIn(Capabilities)') <= TargetLimit
  <2>1. Cardinality(JobsIn(Capabilities)) <= TargetLimit
    BY DEF TargetBudgets
  <2>2. /\ Cardinality(JobsIn(Capabilities)') \in Nat /\ Cardinality(JobsIn(Capabilities)) \in Nat
        /\ Cardinality(JobsIn(Capabilities)') <= Cardinality(JobsIn(Capabilities))
    <3>1. Capabilities \in SUBSET Capabilities
      OBVIOUS
    <3> QED
      BY <1>2, <3>1
  <2> QED
    BY <1>6, <2>1, <2>2
<1>8. \A d \in Domains : Cardinality(DomainJobs(d)') <= TargetLimitPerDomain
  <2> SUFFICES ASSUME NEW d \in Domains PROVE Cardinality(DomainJobs(d)') <= TargetLimitPerDomain
    OBVIOUS
  <2>1. Cardinality(DomainJobs(d)) <= TargetLimitPerDomain
    BY DEF TargetBudgets, DomainJobs
  <2>2. /\ Cardinality(DomainJobs(d)') \in Nat /\ Cardinality(DomainJobs(d)) \in Nat
        /\ Cardinality(DomainJobs(d)') <= Cardinality(DomainJobs(d))
    BY <1>2, DomainsAreCapabilities DEF DomainJobs
  <2> QED
    BY <1>6, <2>1, <2>2
<1>9. \A c \in Capabilities : Cardinality(JobsIn({c})') <= TargetLimitPerCapability
  <2> SUFFICES ASSUME NEW c \in Capabilities
               PROVE  Cardinality(JobsIn({c})') <= TargetLimitPerCapability
    OBVIOUS
  <2>1. Cardinality(JobsIn({c})) <= TargetLimitPerCapability
    BY DEF TargetBudgets
  <2>2. /\ Cardinality(JobsIn({c})') \in Nat /\ Cardinality(JobsIn({c})) \in Nat
        /\ Cardinality(JobsIn({c})') <= Cardinality(JobsIn({c}))
    <3>1. {c} \in SUBSET Capabilities
      OBVIOUS
    <3> QED
      BY <1>2, <3>1
  <2> QED
    BY <1>6, <2>1, <2>2
<1>10. bytes' <= ScopeByteLimit
  BY <1>4, <1>6 DEF TargetBudgets
<1> QED
  BY <1>5, <1>7, <1>8, <1>9, <1>10 DEF TargetBudgets, DomainJobs

\* A route has as many jobs as it holds scopes.
LEMMA AsManyJobsAsScopes ==
  ASSUME TypeOK, ScopeIndexExact, NEW c \in Capabilities
  PROVE  Cardinality(ScopesHeld(c)) = Cardinality(JobsIn({c}))
<1> DEFINE J == JobsIn({c})
           f == [k \in J |-> jobs[c][k[2]].scope]
<1>1. \A k \in J : k[2] \in Requests /\ k = <<c, k[2]>> /\ HasJob(c, k[2])
  BY DEF JobsIn
<1>2. \A k \in J : jobs[c][k[2]].scope \in Scopes
  BY <1>1 DEF TypeOK, HasJob
<1>3. \A k \in J : scopes[c][jobs[c][k[2]].scope] = k[2]
  <2> SUFFICES ASSUME NEW k \in J PROVE scopes[c][jobs[c][k[2]].scope] = k[2]
    OBVIOUS
  <2> DEFINE r == k[2]
             s == jobs[c][r].scope
  <2>1. r \in Requests /\ HasJob(c, r) /\ s \in Scopes
    BY <1>1, <1>2
  <2> HIDE DEF r
  <2>2. scopes[c][s] = r
    BY <2>1 DEF ScopeIndexExact
  <2> QED
    BY <2>2 DEF r
<1>4. \A k \in J : f[k] \in ScopesHeld(c)
  BY <1>1, <1>2, <1>3, SchedulerConstants DEF ScopesHeld
<1>5. ASSUME NEW k \in J, NEW l \in J, f[k] = f[l] PROVE k = l
  <2>1. k[2] = l[2]
    BY <1>3, <1>5
  <2> QED
    BY <1>1, <2>1
<1>6. ASSUME NEW s \in ScopesHeld(c) PROVE \E k \in J : f[k] = s
  <2>1. s \in Scopes /\ scopes[c][s] \in Requests
    BY DEF ScopesHeld, TypeOK
  <2>2. jobs[c][scopes[c][s]].scope = s
    BY <2>1 DEF ScopeIndexExact
  <2>3. <<c, scopes[c][s]>> \in J
    BY <2>1, <2>2, SchedulerConstants DEF JobsIn, HasJob
  <2> QED
    BY <2>2, <2>3
<1> HIDE DEF J
<1>7. f \in Bijection(J, ScopesHeld(c))
  <2> HIDE DEF f
  <2>1. f \in [J -> ScopesHeld(c)]
    BY <1>4 DEF f
  <2>2. f \in Injection(J, ScopesHeld(c))
    BY <1>5, <2>1 DEF Injection, IsInjective
  <2>3. f \in Surjection(J, ScopesHeld(c))
    BY <1>6, <2>1 DEF Surjection
  <2> QED
    BY <2>2, <2>3 DEF Bijection
<1>8. IsFiniteSet(J)
  BY JobSetsAreFinite DEF J
<1> QED
  BY <1>7, <1>8, FS_Bijection DEF ExistsBijection, J

\* An admission counts before it adds.
LEMMA AdmissionKeepsBudgets ==
  ASSUME TypeOK, ScopeIndexExact, TargetBudgets, NEW c \in Capabilities, NEW r \in Requests,
         NEW s \in Scopes, NEW left \in NewLeases, AdmitTarget(c, r, s, left)
  PROVE  TargetBudgets'
<1> DEFINE k0 == <<c, r>>
<1>1. /\ CanAdmitTarget(c, r, s)
      /\ active' = [active EXCEPT ![DomainOf[c]] = @ + 1] /\ bytes' = bytes + ScopeBytes[s]
      /\ \A d \in Capabilities, q \in Requests :
           jobs'[d][q].scope = IF d = c /\ q = r THEN s ELSE jobs[d][q].scope
  BY DEF AdmitTarget, TypeOK, Job
<1>2. ~HasJob(c, r) /\ s # NoScope /\ ScopeBytes[s] \in Nat /\ DomainOf[c] \in Domains
  BY <1>1, SchedulerConstants DEF CanAdmitTarget
<1>3. \A cs \in SUBSET Capabilities :
        /\ c \in cs => JobsIn(cs)' = JobsIn(cs) \cup {k0}
        /\ c \notin cs => JobsIn(cs)' = JobsIn(cs)
        /\ k0 \notin JobsIn(cs)
  BY <1>1, <1>2 DEF JobsIn, HasJob
<1>4. \A cs \in SUBSET Capabilities :
        Cardinality(JobsIn(cs)') =
          IF c \in cs THEN Cardinality(JobsIn(cs)) + 1 ELSE Cardinality(JobsIn(cs))
  <2> HIDE DEF k0
  <2> QED
    BY <1>3, JobSetsAreFinite, FS_AddElement
<1>5. \A cs \in SUBSET Capabilities : Cardinality(JobsIn(cs)) \in Nat
  BY JobSetsAreFinite
<1>6. \A d \in Domains :
        /\ c \in CapabilitiesIn(d) <=> d = DomainOf[c]
        /\ active[d] = Cardinality(DomainJobs(d)) /\ active[d] \in Nat
        /\ Cardinality(DomainJobs(d)') = IF d = DomainOf[c] THEN active[d] + 1 ELSE active[d]
  <2> SUFFICES ASSUME NEW d \in Domains
               PROVE  /\ c \in CapabilitiesIn(d) <=> d = DomainOf[c]
                      /\ active[d] = Cardinality(DomainJobs(d)) /\ active[d] \in Nat
                      /\ Cardinality(DomainJobs(d)') =
                           IF d = DomainOf[c] THEN active[d] + 1 ELSE active[d]
    OBVIOUS
  <2>1. c \in CapabilitiesIn(d) <=> d = DomainOf[c]
    BY DEF CapabilitiesIn
  <2>2. active[d] = Cardinality(DomainJobs(d)) /\ active[d] \in Nat
    BY DEF TargetBudgets, CountersExact, DomainJobs, TypeOK
  <2>3. Cardinality(DomainJobs(d)') = IF c \in CapabilitiesIn(d)
                                        THEN Cardinality(DomainJobs(d)) + 1
                                        ELSE Cardinality(DomainJobs(d))
    BY <1>4, DomainsAreCapabilities DEF DomainJobs
  <2> QED
    BY <2>1, <2>2, <2>3
<1>7. \A d \in Domains : active'[d] = Cardinality(DomainJobs(d)')
  BY <1>1, <1>6 DEF TypeOK
<1>8. bytes' = BytesOf(JobTable)'
  <2>1. BytesOf(JobTable)' = Cardinality(BytesIn(JobTable) \cup BytesAt(k0)')
    <3>1. JobTable' = JobTable \cup {k0}
      BY <1>3 DEF JobTable
    <3>2. \A k \in JobTable : BytesAt(k)' = BytesAt(k)
      BY <1>1, <1>2 DEF BytesAt, JobTable, JobsIn, HasJob
    <3>3. UNION {BytesAt(k)' : k \in JobTable'} = BytesIn(JobTable) \cup BytesAt(k0)'
      <4> HIDE DEF k0
      <4>1. {BytesAt(k)' : k \in JobTable'} = {BytesAt(k) : k \in JobTable} \cup {BytesAt(k0)'}
        BY <3>1, <3>2
      <4> QED
        BY <4>1 DEF BytesIn
    <3> QED
      BY <3>3 DEF BytesOf
  <2>2. BytesAt(k0)' = {k0} \X (1 .. ScopeBytes[s])
    BY <1>1 DEF BytesAt
  <2>3. IsFiniteSet(BytesAt(k0)') /\ Cardinality(BytesAt(k0)') = ScopeBytes[s]
    <3> DEFINE n == ScopeBytes[s]
    <3>1. /\ IsFiniteSet({k0}) /\ Cardinality({k0}) = 1
      BY FS_Singleton
    <3>2. IsFiniteSet(1 .. n) /\ Cardinality(1 .. n) = n
      <4>1. IsFiniteSet(1 .. n) /\ Cardinality(1 .. n) = IF 1 > n THEN 0 ELSE n - 1 + 1
        BY <1>2, FS_Interval
      <4> QED
        BY <1>2, <4>1
    <3> HIDE DEF n, k0
    <3>3. /\ IsFiniteSet({k0} \X (1 .. n))
          /\ Cardinality({k0} \X (1 .. n)) = Cardinality({k0}) * Cardinality(1 .. n)
      BY <3>1, <3>2, FS_Product
    <3>4. n \in Nat /\ 1 * n = n
      BY <1>2 DEF n
    <3> QED
      BY <2>2, <3>1, <3>2, <3>3, <3>4 DEF n
  <2>4. /\ IsFiniteSet(BytesIn(JobTable)) /\ Cardinality(BytesIn(JobTable)) = BytesOf(JobTable)
        /\ BytesOf(JobTable) \in Nat
    BY BytesAreFinite
  <2>5. BytesIn(JobTable) \cap BytesAt(k0)' = {}
    <3>1. k0 \notin JobTable
      BY <1>3 DEF JobTable
    <3>2. \A x \in BytesAt(k0)' : x[1] = k0
      BY <2>2
    <3>3. \A x \in BytesIn(JobTable) : x[1] \in JobTable
      BY DEF BytesIn, BytesAt
    <3> QED
      BY <3>1, <3>2, <3>3
  <2> DEFINE A == BytesIn(JobTable)
             B == BytesAt(k0)'
  <2> HIDE DEF A, B
  <2>6. Cardinality(A \cup B) = Cardinality(A) + Cardinality(B) - Cardinality(A \cap B)
    BY <2>3, <2>4, FS_Union DEF A, B
  <2>7. Cardinality(A \cap B) = 0
    BY <2>5, FS_EmptySet DEF A, B
  <2>8. Cardinality(A) \in Nat /\ Cardinality(B) \in Nat
    BY <1>2, <2>3, <2>4 DEF A, B
  <2>9. Cardinality(A \cup B) = Cardinality(A) + Cardinality(B)
    BY <2>6, <2>7, <2>8
  <2>10. bytes = Cardinality(A) /\ Cardinality(B) = ScopeBytes[s]
    BY <2>3, <2>4 DEF TargetBudgets, CountersExact, JobTable, A, B
  <2> QED
    BY <1>1, <2>1, <2>9, <2>10 DEF A, B
<1>9. CountersExact'
  BY <1>7, <1>8 DEF CountersExact, DomainJobs, JobTable
<1>10. /\ TargetLimit \in Nat /\ TargetLimitPerDomain \in Nat /\ TargetLimitPerCapability \in Nat
       /\ ScopeByteLimit \in Nat
  BY ValidatedBudgets
<1>11. Cardinality(JobsIn(Capabilities)') <= TargetLimit
  BY <1>1, <1>4, <1>5, <1>10 DEF CanAdmitTarget
<1>12. \A d \in Domains : Cardinality(DomainJobs(d)') <= TargetLimitPerDomain
  <2> SUFFICES ASSUME NEW d \in Domains PROVE Cardinality(DomainJobs(d)') <= TargetLimitPerDomain
    OBVIOUS
  <2>1. active[d] <= TargetLimitPerDomain
    BY <1>6 DEF TargetBudgets, DomainJobs
  <2>2. d = DomainOf[c] => active[d] < TargetLimitPerDomain
    BY <1>1 DEF CanAdmitTarget
  <2> QED
    BY <1>6, <1>10, <2>1, <2>2
<1>13. \A d \in Capabilities : Cardinality(JobsIn({d})') <= TargetLimitPerCapability
  <2> SUFFICES ASSUME NEW d \in Capabilities
               PROVE  Cardinality(JobsIn({d})') <= TargetLimitPerCapability
    OBVIOUS
  <2>1. Cardinality(JobsIn({d})) <= TargetLimitPerCapability /\ Cardinality(JobsIn({d})) \in Nat
    BY <1>5 DEF TargetBudgets
  <2>2. c = d => Cardinality(JobsIn({d})) < TargetLimitPerCapability
    <3>1. Cardinality(ScopesHeld(c)) = Cardinality(JobsIn({c}))
      BY AsManyJobsAsScopes
    <3> QED
      BY <1>1, <3>1 DEF CanAdmitTarget
  <2>3. Cardinality(JobsIn({d})') =
          IF c = d THEN Cardinality(JobsIn({d})) + 1 ELSE Cardinality(JobsIn({d}))
    BY <1>4
  <2> QED
    BY <1>10, <2>1, <2>2, <2>3
<1>14. bytes' <= ScopeByteLimit
  BY <1>1 DEF CanAdmitTarget
<1> QED
  BY <1>9, <1>11, <1>12, <1>13, <1>14 DEF TargetBudgets, DomainJobs

LEMMA TargetBudgetsInit == Init => TargetBudgets
<1> SUFFICES ASSUME Init PROVE TargetBudgets
  OBVIOUS
<1>1. \A cs \in SUBSET Capabilities : JobsIn(cs) = {}
  BY DEF Init, JobsIn, HasJob, NoJob, Job
<1>2. \A cs \in SUBSET Capabilities : Cardinality(JobsIn(cs)) = 0
  BY <1>1, FS_EmptySet
<1>3. \A d \in Domains : Cardinality(DomainJobs(d)) = 0
  BY <1>2, DomainsAreCapabilities DEF DomainJobs
<1>4. BytesOf(JobsIn(Capabilities)) = 0
  <2>1. UNION {BytesAt(k) : k \in JobsIn(Capabilities)} = {}
    BY <1>1
  <2> QED
    BY <2>1, FS_EmptySet DEF BytesOf
<1>5. Capabilities \in SUBSET Capabilities /\ \A c \in Capabilities : {c} \in SUBSET Capabilities
  OBVIOUS
<1>6. /\ Cardinality(JobsIn(Capabilities)) <= TargetLimit
      /\ \A d \in Domains : Cardinality(DomainJobs(d)) <= TargetLimitPerDomain
      /\ \A c \in Capabilities : Cardinality(JobsIn({c})) <= TargetLimitPerCapability
  BY <1>2, <1>3, <1>5, ValidatedBudgets
<1>7. bytes = 0 /\ bytes <= ScopeByteLimit
  BY ValidatedBudgets DEF Init
<1>8. CountersExact
  BY <1>3, <1>4, <1>7 DEF Init, CountersExact, DomainJobs
<1> QED
  BY <1>6, <1>7, <1>8 DEF TargetBudgets, DomainJobs

LEMMA TargetBudgetsStep ==
  TypeOK /\ ScopeIndexExact /\ TargetBudgets /\ [Next]_schedVars => TargetBudgets'
<1> SUFFICES ASSUME TypeOK, ScopeIndexExact, TargetBudgets, [Next]_schedVars
             PROVE  TargetBudgets'
  OBVIOUS
<1>1. ASSUME NEW c \in Capabilities, NEW r \in Requests, HasJob(c, r), RemoveJob(c, r)
      PROVE  TargetBudgets'
  <2> DEFINE ks == {<<c, r>>}
  <2>1. ks \in SUBSET JobTable
    BY <1>1 DEF JobTable, JobsIn
  <2>2. active' = ActiveWithout(ks) /\ bytes' = Minus(bytes, BytesOf(ks))
    BY <1>1 DEF RemoveJob
  <2>3. \A d \in Capabilities, q \in Requests :
          jobs'[d][q].scope = IF <<d, q>> \in ks THEN NoScope ELSE jobs[d][q].scope
    BY <1>1 DEF RemoveJob, TypeOK, NoJob, Job
  <2> HIDE DEF ks
  <2> QED
    BY <2>1, <2>2, <2>3, RetirementKeepsBudgets
<1>2. ASSUME NEW c \in Capabilities, NEW r \in Requests, Call(c, r)
      PROVE  TargetBudgets'
  <2>1. ASSUME NEW left \in NewLeases, NEW s \in Scopes, AdmitTarget(c, r, s, left)
        PROVE  TargetBudgets'
    BY <2>1, AdmissionKeepsBudgets
  <2>2. ASSUME NEW h \in Healths, RecordHealth(c, r, h) PROVE TargetBudgets'
    BY <1>1, <2>2, BudgetsUntouched DEF RecordHealth, registry
  <2>3. CASE CancelSubmission(c, r)
    BY <1>1, <2>3, BudgetsUntouched DEF CancelSubmission, registry
  <2>4. ASSUME NEW left \in NewLeases, RenewTargetLease(c, r, left)
        PROVE  TargetBudgets'
    <3>1. \A d \in Capabilities, q \in Requests : jobs'[d][q].scope = jobs[d][q].scope
      BY <2>4 DEF RenewTargetLease, TypeOK
    <3> QED
      BY <2>4, <3>1, BudgetsUntouched DEF RenewTargetLease
  <2>5. ASSUME \/ \E left \in NewLeases : AdmitCapability(c, r, left)
               \/ ClaimTerminal(c, r) \/ AbortTerminal(c, r) \/ AcknowledgeTerminal(c, r)
        PROVE  TargetBudgets'
    BY <2>5, BudgetsUntouched
       DEF AdmitCapability, ClaimTerminal, AbortTerminal, AcknowledgeTerminal, registry
  <2> QED
    BY <1>2, <2>1, <2>2, <2>3, <2>4, <2>5 DEF Call
<1>3. ASSUME NEW c \in Capabilities, Policy(c) PROVE TargetBudgets'
  BY <1>3, BudgetsUntouched DEF Policy, RequeuePlanned, SetCadence, RequestRecovery, registry
<1>4. CASE Tick
  <2>1. \A c \in Capabilities, r \in Requests :
          jobs'[c][r].scope = IF <<c, r>> \in AbandonedJobs THEN NoScope
                              ELSE jobs[c][r].scope
    BY <1>4 DEF Tick, NoJob, Job
  <2>2. active' = ActiveWithout(AbandonedJobs) /\ bytes' = Minus(bytes, BytesOf(AbandonedJobs))
    BY <1>4 DEF Tick
  <2>3. AbandonedJobs \in SUBSET JobTable
    BY DEF AbandonedJobs, JobTable
  <2> QED
    BY <2>1, <2>2, <2>3, RetirementKeepsBudgets
<1>5. CASE Advance
  <2>1. \A c \in Capabilities, r \in Requests : jobs'[c][r].scope = jobs[c][r].scope
    BY <1>5 DEF Advance, Job
  <2> QED
    BY <1>5, <2>1, BudgetsUntouched DEF Advance
<1>6. CASE UNCHANGED schedVars
  BY <1>6, BudgetsUntouched DEF schedVars
<1> QED
  BY <1>2, <1>3, <1>4, <1>5, <1>6 DEF Next

\* The counters that admission trusts, subtracted by hand from three paths of
\* retirement that saturate instead of failing, are what the live jobs add up
\* to, and no order of admissions and retirements exceeds one of the four
\* budgets of targets.
THEOREM TargetsStayWithinBudget == Spec => []TargetBudgets
  BY SchedulerTypes, TargetsAreIndexedExactly, TargetBudgetsInit, TargetBudgetsStep, PTL DEF Spec

=============================================================================
