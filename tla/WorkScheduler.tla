--------------------------- MODULE WorkScheduler ---------------------------
(***************************************************************************)
(* The capability scheduler of taskmanager-platform-runtime (ecs.rs and    *)
(* ecs/): one WorkState per capability route, the registry of target jobs, *)
(* and the delivery permits that every admitted lifecycle reserves.        *)
(*                                                                         *)
(* The scheduler is one value behind one mutex, so each of its methods is  *)
(* one atomic action here.  Spec lets any caller make any call at any      *)
(* time; ProviderRuntime adds the ports, lanes and publishers that really  *)
(* make the calls, and the order they make them in.                        *)
(*                                                                         *)
(* The code stores instants of a monotonic clock and only ever compares    *)
(* them with the present.  An instant is kept here as the time left until  *)
(* it, 0 once it is past, so `deadline <= now' reads `at = 0' and no bound *)
(* on the clock is needed.  The saturating u64 sums are not reached.       *)
(***************************************************************************)
EXTENDS Naturals, FiniteSets

CONSTANTS
  Capabilities,     \* the registered routes
  Requests,         \* RequestId values
  Scopes,           \* RequestScope values of target requests
  Domains,          \* RuntimeDomain values
  NoRequest,        \* WorkState without an owner
  NoScope,          \* no target job under this key
  ClassOf,          \* DeliveryClass of a route: "Control" or "Observation"
  DomainOf,         \* RuntimeDomain of a route
  ScopeBytes,       \* length of a scope
  InitialCadence,   \* cadence a route is registered with
  Cadences,         \* cadences the application selects; NoCadence is None
  NoCadence,
  Lease,            \* DEFAULT_IN_FLIGHT_LEASE_MS
  Retry,            \* DEFAULT_RETRY_INTERVAL_MS
  StalledLifetime,  \* RuntimeBudgets::max_stalled_lifetime_ms
  TargetLimit, TargetLimitPerCapability, TargetLimitPerDomain,
  ScopeByteLimit,
  PermitLimit,      \* RuntimeBudgets::pending_delivery_limit
  ControlReserve,   \* RuntimeBudgets::control_delivery_reserve
  SubmitLag,        \* how stale the clock reading of a submission can be
  Never             \* u64::MAX as a due time: the clock never reaches it

ASSUME SchedulerConstants ==
  /\ IsFiniteSet(Capabilities) /\ IsFiniteSet(Requests)
  /\ NoRequest \notin Requests /\ NoScope \notin Scopes
  /\ ClassOf \in [Capabilities -> {"Control", "Observation"}]
  /\ DomainOf \in [Capabilities -> Domains]
  /\ ScopeBytes \in [Scopes -> Nat]
  /\ Never \notin Nat /\ SubmitLag \in Nat
  /\ NoCadence \in Cadences /\ Cadences \ {NoCadence} \subseteq Nat
  /\ InitialCadence \in [Capabilities -> Cadences]
  /\ Lease \in Nat /\ Retry \in Nat \ {0}

\* What validate_runtime_config guarantees before a scheduler exists.
ASSUME ValidatedBudgets ==
  /\ StalledLifetime \in Nat \ {0} /\ ControlReserve \in Nat \ {0}
  /\ TargetLimit \in Nat /\ TargetLimitPerDomain \in 1 .. TargetLimit
  /\ TargetLimitPerCapability \in 1 .. TargetLimitPerDomain
  /\ ScopeByteLimit \in Nat \ {0}
  /\ PermitLimit \in Nat
  /\ PermitLimit >= Cardinality(Capabilities) + TargetLimit + ControlReserve

VARIABLES
  work,      \* WorkState of each route
  due,       \* DueAt of each route: the time left, or Never
  cadence,   \* CapabilityNode::cadence_ms
  jobs,      \* target jobs by (capability, request)
  scopes,    \* TargetJobRegistry::scopes: the request that owns a scope
  active,    \* TargetJobRegistry::active_by_domain
  bytes,     \* TargetJobRegistry::scope_bytes
  permits    \* delivery_reservations by (capability, request)

registry == <<jobs, scopes, active, bytes>>
schedVars == <<work, due, cadence, jobs, scopes, active, bytes, permits>>

-----------------------------------------------------------------------------
(* WorkState and its transitions (ecs/lifecycle/state.rs). *)

Minus(a, b) == IF a >= b THEN a - b ELSE 0                  \* saturating_sub

State(kind, r, at) == [kind |-> kind, request |-> r, at |-> at]
Waiting         == State("Waiting", NoRequest, 0)
Ready           == State("Ready", NoRequest, 0)
InFlight(r, at) == State("InFlight", r, at)        \* at: deadline_ms
Stalled(r, at)  == State("Stalled", r, at)         \* at: abandon_at_ms
Permanent       == State("Permanent", NoRequest, 0)
AwaitingChange  == State("AwaitingChange", NoRequest, 0)

WorkStates == [kind : {"Waiting", "Ready", "InFlight", "Stalled",
                       "Permanent", "AwaitingChange"},
               request : Requests \cup {NoRequest}, at : Nat]

OwnedBy(state, r) == state.kind \in {"InFlight", "Stalled"} /\ state.request = r

\* Faulty: a stalled owner is given no grace.
FaultyExpireLease(state) ==
  IF state.kind = "InFlight" /\ state.at = 0 THEN Stalled(state.request, 0) ELSE state

ExpireLease(state) ==
  IF state.kind = "InFlight" /\ state.at = 0
    THEN Stalled(state.request, StalledLifetime) ELSE state

Abandonable(state) == state.kind = "Stalled" /\ state.at = 0

-----------------------------------------------------------------------------
(* Target jobs and permits. *)

Job(s, state) == [scope |-> s, work |-> state]
NoJob == Job(NoScope, Waiting)

HasJob(c, r) == jobs[c][r].scope # NoScope
Keys == Capabilities \X Requests
JobsIn(cs) == {k \in cs \X Requests : HasJob(k[1], k[2])}
CapabilitiesIn(d) == {c \in Capabilities : DomainOf[c] = d}
ScopesHeld(c) == {s \in Scopes : scopes[c][s] # NoRequest}

HasPermit(c, r) == permits[c][r] # "None"
Claimed(c, r) == permits[c][r] = "TerminalClaimed"
Permits(class) == {k \in Keys : HasPermit(k[1], k[2]) /\ ClassOf[k[1]] = class}
AllPermits == {k \in Keys : HasPermit(k[1], k[2])}

\* Faulty: observations may use the control reserve.
FaultyCanReserve(c, r) == ~HasPermit(c, r) /\ Cardinality(AllPermits) < PermitLimit

CanReserve(c, r) ==
  /\ ~HasPermit(c, r)
  /\ Cardinality(AllPermits) < PermitLimit
  /\ ClassOf[c] = "Observation" =>
       Cardinality(Permits("Observation")) < PermitLimit - ControlReserve

SetPermit(c, r, p) == permits' = [permits EXCEPT ![c][r] = p]

\* Either kind of lifecycle owner under this key.
Owns(c, r) == HasJob(c, r) \/ OwnedBy(work[c], r)

-----------------------------------------------------------------------------
(* Admission. *)

\* try_submit and renew_target_lease read the clock before they take the
\* scheduler lock, so a new lease may already have lost up to SubmitLag.
NewLeases == Minus(Lease, SubmitLag) .. Lease

\* Faulty: a stalled owner is displaced.
FaultyCanAdmitCapability(c, r) ==
  work[c].kind \in {"Waiting", "Ready", "Stalled"} /\ CanReserve(c, r)

CanAdmitCapability(c, r) == work[c].kind \in {"Waiting", "Ready"} /\ CanReserve(c, r)

AdmitCapability(c, r, left) ==
  /\ CanAdmitCapability(c, r)
  /\ work' = [work EXCEPT ![c] = InFlight(r, left)]
  /\ due' = [due EXCEPT ![c] = 0]
  /\ SetPermit(c, r, "Active")
  /\ UNCHANGED <<cadence, registry>>

CanAdmitTarget(c, r, s) ==
  /\ ~HasJob(c, r)
  /\ scopes[c][s] = NoRequest
  /\ Cardinality(ScopesHeld(c)) < TargetLimitPerCapability
  /\ Cardinality(JobsIn(Capabilities)) < TargetLimit
  /\ active[DomainOf[c]] < TargetLimitPerDomain
  /\ bytes + ScopeBytes[s] <= ScopeByteLimit
  /\ CanReserve(c, r)

AdmitTarget(c, r, s, left) ==
  /\ CanAdmitTarget(c, r, s)
  /\ jobs' = [jobs EXCEPT ![c][r] = Job(s, InFlight(r, left))]
  /\ scopes' = [scopes EXCEPT ![c][s] = r]
  /\ active' = [active EXCEPT ![DomainOf[c]] = @ + 1]
  /\ bytes' = bytes + ScopeBytes[s]
  /\ SetPermit(c, r, "Active")
  /\ UNCHANGED <<work, due, cadence>>

-----------------------------------------------------------------------------
(* Retirement of target jobs, shared by completion, cancellation and       *)
(* abandonment.                                                            *)

\* Faulty: the scope index is forgotten.
FaultyScopesWithout(ks) == scopes

ScopesWithout(ks) ==
  [c \in Capabilities |-> [s \in Scopes |->
    IF <<c, scopes[c][s]>> \in ks /\ jobs[c][scopes[c][s]].scope = s
      THEN NoRequest ELSE scopes[c][s]]]

\* Faulty: a pass that retires several jobs counts down once.
FaultyActiveWithout(ks) ==
  [d \in Domains |-> IF \E k \in ks : DomainOf[k[1]] = d THEN Minus(active[d], 1) ELSE active[d]]

ActiveWithout(ks) ==
  [d \in Domains |-> Minus(active[d], Cardinality({k \in ks : DomainOf[k[1]] = d}))]

\* The bytes of the scope of a job, and how many there are in all.
BytesAt(k) == {k} \X (1 .. ScopeBytes[jobs[k[1]][k[2]].scope])
BytesOf(ks) == Cardinality(UNION {BytesAt(k) : k \in ks})

RemoveJob(c, r) ==
  /\ jobs' = [jobs EXCEPT ![c][r] = NoJob]
  /\ scopes' = ScopesWithout({<<c, r>>})
  /\ active' = ActiveWithout({<<c, r>>})
  /\ bytes' = Minus(bytes, BytesOf({<<c, r>>}))

\* finish() followed by the new due time.
Settle(c, next, at) ==
  /\ work' = [work EXCEPT ![c] = next]
  /\ due' = [due EXCEPT ![c] = at]

(* record_health_inner: the terminal verdict of a claimed request. *)
Healths == {"Success", "RetryNow", "RetryLater", "Never", "AfterCapabilityChange"}

NextDue(c, h) ==
  CASE h = "Success"    -> IF cadence[c] = NoCadence THEN Never ELSE cadence[c]
    [] h = "RetryNow"   -> 0
    [] h = "RetryLater" -> Retry
    [] OTHER            -> Never

NextWork(h) ==
  CASE h = "Never"                 -> Permanent
    [] h = "AfterCapabilityChange" -> AwaitingChange
    [] OTHER                       -> Waiting

\* Faulty: a verdict needs no claim.
FaultyCanRecord(c, r) == Owns(c, r)

CanRecord(c, r) == Claimed(c, r) /\ Owns(c, r)

RecordHealth(c, r, h) ==
  /\ CanRecord(c, r)
  /\ IF HasJob(c, r)
       THEN RemoveJob(c, r) /\ UNCHANGED <<work, due>>
       ELSE Settle(c, NextWork(h), NextDue(c, h)) /\ UNCHANGED registry
  /\ UNCHANGED <<cadence, permits>>

CancelSubmission(c, r) ==
  /\ Owns(c, r)
  /\ IF HasJob(c, r)
       THEN RemoveJob(c, r) /\ UNCHANGED <<work, due>>
       ELSE Settle(c, Waiting, Retry) /\ UNCHANGED registry
  /\ SetPermit(c, r, "None")
  /\ UNCHANGED <<cadence>>

\* The scheduled submission of a planned route failed.
RequeuePlanned(c) ==
  /\ work[c] = Ready
  /\ Settle(c, Waiting, Retry)
  /\ UNCHANGED <<cadence, registry, permits>>

-----------------------------------------------------------------------------
(* The delivery claim of a terminal publication. *)

CanClaim(c, r) == Owns(c, r) /\ permits[c][r] = "Active"

ClaimTerminal(c, r) ==
  /\ CanClaim(c, r)
  /\ SetPermit(c, r, "TerminalClaimed")
  /\ UNCHANGED <<work, due, cadence, registry>>

AbortTerminal(c, r) ==
  /\ Claimed(c, r)
  /\ SetPermit(c, r, "Active")
  /\ UNCHANGED <<work, due, cadence, registry>>

AcknowledgeTerminal(c, r) ==
  /\ Claimed(c, r)
  /\ SetPermit(c, r, "None")
  /\ UNCHANGED <<work, due, cadence, registry>>

\* Faulty: the lease of a retired job is renewed.
FaultyRenewTargetLease(c, r, left) ==
  /\ jobs' = [jobs EXCEPT ![c][r].work = InFlight(r, left)]
  /\ UNCHANGED <<work, due, cadence, scopes, active, bytes, permits>>

RenewTargetLease(c, r, left) ==
  /\ HasJob(c, r)
  /\ jobs' = [jobs EXCEPT ![c][r].work = InFlight(r, left)]
  /\ UNCHANGED <<work, due, cadence, scopes, active, bytes, permits>>

-----------------------------------------------------------------------------
(* Policy. *)

\* Faulty: a route that gets a cadence again is not armed.
FaultySetCadence(c, new) ==
  /\ cadence' = [cadence EXCEPT ![c] = new]
  /\ due' = [due EXCEPT ![c] = IF work[c] = Waiting /\ new = NoCadence THEN Never ELSE @]
  /\ UNCHANGED <<work, registry, permits>>

SetCadence(c, new) ==
  /\ cadence' = [cadence EXCEPT ![c] = new]
  /\ due' = [due EXCEPT ![c] =
               IF work[c] # Waiting THEN @
               ELSE IF new = NoCadence THEN Never
               ELSE IF cadence[c] = NoCadence THEN 0 ELSE @]
  /\ UNCHANGED <<work, registry, permits>>

Recoverable(c, trigger) ==
  \/ work[c].kind \in {"Waiting", "Ready"}
  \/ work[c] = AwaitingChange /\ trigger = "CapabilityChanged"

RequestRecovery(c, trigger) ==
  /\ Recoverable(c, trigger)
  /\ Settle(c, Waiting, 0)
  /\ UNCHANGED <<cadence, registry, permits>>

-----------------------------------------------------------------------------
(* One scheduling pass: mark_stalled, abandon_stalled and mark_due over the *)
(* routes and the jobs, then retire_abandoned_work.                         *)

AbandonedRoutes == {c \in Capabilities : Abandonable(ExpireLease(work[c]))}

AbandonedJobs ==
  {k \in JobsIn(Capabilities) : Abandonable(ExpireLease(jobs[k[1]][k[2]].work))}

\* Faulty: abandoned owners keep their permits.
FaultyRetiredKeys == {}

RetiredKeys == AbandonedJobs \cup {<<c, work[c].request>> : c \in AbandonedRoutes}

\* What mark_due finds: max(now + retry, abandon_at) is now + retry here.
LeftBy(c) == IF c \in AbandonedRoutes THEN Waiting ELSE ExpireLease(work[c])
DueAfter(c) == IF c \in AbandonedRoutes THEN Retry ELSE due[c]

\* DueWork: the routes this pass plans.
Planned == {c \in Capabilities : LeftBy(c) = Waiting /\ DueAfter(c) = 0}

\* The capability half of StalledWork: what poll_due repaints in the catalog.
NewlyStalled == {c \in Capabilities : ExpireLease(work[c]) # work[c]}

Tick ==
  /\ work' = [c \in Capabilities |-> IF c \in Planned THEN Ready ELSE LeftBy(c)]
  /\ due' = [c \in Capabilities |-> DueAfter(c)]
  /\ jobs' = [c \in Capabilities |-> [r \in Requests |->
       IF <<c, r>> \in AbandonedJobs THEN NoJob
       ELSE Job(jobs[c][r].scope, ExpireLease(jobs[c][r].work))]]
  /\ scopes' = ScopesWithout(AbandonedJobs)
  /\ active' = ActiveWithout(AbandonedJobs)
  /\ bytes' = Minus(bytes, BytesOf(AbandonedJobs))
  /\ permits' = [c \in Capabilities |-> [r \in Requests |->
       IF <<c, r>> \in RetiredKeys THEN "None" ELSE permits[c][r]]]
  /\ UNCHANGED cadence

\* The monotonic clock moves on by one unit.
Elapse(state) == [state EXCEPT !.at = Minus(@, 1)]

Advance ==
  /\ work' = [c \in Capabilities |-> Elapse(work[c])]
  /\ due' = [c \in Capabilities |-> IF due[c] = Never THEN Never ELSE Minus(due[c], 1)]
  /\ jobs' = [c \in Capabilities |-> [r \in Requests |->
       Job(jobs[c][r].scope, Elapse(jobs[c][r].work))]]
  /\ UNCHANGED <<cadence, scopes, active, bytes, permits>>

-----------------------------------------------------------------------------
Init ==
  /\ work = [c \in Capabilities |-> Waiting]
  /\ cadence = InitialCadence
  /\ due = [c \in Capabilities |-> IF InitialCadence[c] = NoCadence THEN Never ELSE 0]
  /\ jobs = [c \in Capabilities |-> [r \in Requests |-> NoJob]]
  /\ scopes = [c \in Capabilities |-> [s \in Scopes |-> NoRequest]]
  /\ active = [d \in Domains |-> 0]
  /\ bytes = 0
  /\ permits = [c \in Capabilities |-> [r \in Requests |-> "None"]]

Call(c, r) ==
  \/ \E left \in NewLeases : AdmitCapability(c, r, left)
  \/ \E left \in NewLeases, s \in Scopes : AdmitTarget(c, r, s, left)
  \/ \E h \in Healths : RecordHealth(c, r, h)
  \/ CancelSubmission(c, r)
  \/ ClaimTerminal(c, r)
  \/ AbortTerminal(c, r)
  \/ AcknowledgeTerminal(c, r)
  \/ \E left \in NewLeases : RenewTargetLease(c, r, left)

Policy(c) ==
  \/ RequeuePlanned(c)
  \/ \E new \in Cadences : SetCadence(c, new)
  \/ \E trigger \in {"ExplicitRetry", "CapabilityChanged"} : RequestRecovery(c, trigger)

Next ==
  \/ \E c \in Capabilities, r \in Requests : Call(c, r)
  \/ \E c \in Capabilities : Policy(c)
  \/ Tick
  \/ Advance

Spec == Init /\ [][Next]_schedVars

-----------------------------------------------------------------------------
(* Properties. *)

\* Every scheduler component holds a value of its type; a route never carries
\* a request without owning it, and a job always owns its own request.
\* (`bytes' is covered by CountersExact.)
TypeOK ==
  /\ work \in [Capabilities -> WorkStates]
  /\ due \in [Capabilities -> Nat \cup {Never}]
  /\ cadence \in [Capabilities -> Cadences]
  /\ jobs \in [Capabilities -> [Requests -> [scope : Scopes \cup {NoScope}, work : WorkStates]]]
  /\ scopes \in [Capabilities -> [Scopes -> Requests \cup {NoRequest}]]
  /\ active \in [Domains -> Nat]
  /\ permits \in [Capabilities -> [Requests -> {"None", "Active", "TerminalClaimed"}]]
  /\ \A c \in Capabilities :
       (work[c].request # NoRequest) <=> (work[c].kind \in {"InFlight", "Stalled"})
  /\ \A c \in Capabilities, r \in Requests :
       IF HasJob(c, r) THEN OwnedBy(jobs[c][r].work, r) ELSE jobs[c][r] = NoJob

\* The scope index and the job table agree in both directions, so one target
\* is never worked on by two live requests (TargetInFlight), whatever mix of
\* completion, cancellation and abandonment removed the earlier jobs.
ScopeIndexExact ==
  \A c \in Capabilities, r \in Requests, s \in Scopes :
    scopes[c][s] = r <=> jobs[c][r].scope = s

CountersExact ==
  /\ \A d \in Domains : active[d] = Cardinality(JobsIn(CapabilitiesIn(d)))
  /\ bytes = BytesOf(JobsIn(Capabilities))

\* No admission order exceeds a target budget, and the counters admission
\* relies on (active_by_domain and scope_bytes, kept by hand with saturating
\* subtraction from three retirement paths) equal what the live jobs add up to.
TargetBudgets ==
  /\ CountersExact
  /\ Cardinality(JobsIn(Capabilities)) <= TargetLimit
  /\ \A d \in Domains : Cardinality(JobsIn(CapabilitiesIn(d))) <= TargetLimitPerDomain
  /\ \A c \in Capabilities : Cardinality(JobsIn({c})) <= TargetLimitPerCapability
  /\ bytes <= ScopeByteLimit

\* Observation admission cannot consume the control reserve, and all permits
\* together stay within pending_delivery_limit.
PermitBudget ==
  /\ Cardinality(AllPermits) <= PermitLimit
  /\ Cardinality(Permits("Observation")) <= PermitLimit - ControlReserve

\* Blocked(Permanent) rejects every recovery trigger and every other call.
PermanentIsFinal ==
  [][\A c \in Capabilities : work[c] = Permanent => work'[c] = Permanent]_schedVars

\* An owner gives up its route or target only together with its delivery
\* permit (cancelled, abandoned) or with that permit claimed by its terminal
\* (completed): no policy call, replan or other request displaces it.
OwnersLeaveByPermit ==
  [][\A c \in Capabilities, r \in Requests :
       Owns(c, r) /\ ~Owns(c, r)' =>
         Claimed(c, r) \/ permits'[c][r] = "None"]_schedVars

\* The request a route or target is owned by changes only through a state
\* without an owner: a second request never takes over in one step.
NoOwnerSwap ==
  [][\A c \in Capabilities, r \in Requests :
       /\ OwnedBy(work[c], r) => work'[c].request \in {r, NoRequest}
       /\ \A s \in Scopes : scopes[c][s] = r => scopes'[c][s] \in {r, NoRequest}]_schedVars

\* An in-flight owner is first reported as stalled and keeps a whole
\* StalledLifetime for its late completion: a pass never abandons it directly.
StallBeforeAbandon ==
  [][\A c \in Capabilities, r \in Requests :
       Tick =>
         /\ work[c].kind = "InFlight" => work'[c].request = work[c].request
         /\ work[c].kind = "InFlight" /\ work'[c].kind = "Stalled"
              => work'[c].at = StalledLifetime
         /\ HasJob(c, r) /\ jobs[c][r].work.kind = "InFlight" => HasJob(c, r)']_schedVars

\* A waiting route with a cadence is planned in the end.
CadencedRoutesArePlanned ==
  \A c \in Capabilities :
    work[c] = Waiting /\ cadence[c] # NoCadence
      ~> work[c] # Waiting \/ cadence[c] = NoCadence
=============================================================================
