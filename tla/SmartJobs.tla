------------------------------ MODULE SmartJobs ------------------------------
(***************************************************************************)
(* The SMART self-tests the runtime tracks (runtime/storage/smart_state.rs *)
(* and smart_tracking.rs) and the projection that shows them               *)
(* (taskmanager-application/src/platform/smart_projection.rs).             *)
(*                                                                         *)
(* One table behind a mutex; an observation lane that polls the tests that *)
(* run and a control lane that starts and stops them.  Each lane takes the *)
(* mutex several times in one request and not while it calls its provider. *)
(* Every request ends with the publication of the whole table under its    *)
(* revision; the batches of the two lanes are folded in any order.         *)
(*                                                                         *)
(* A target is one lifecycle of a device: SmartTargetKey.  Instants are    *)
(* kept as the time since them.  Both counters stop at a limit, as the u64 *)
(* of the code do.  Native locators, reports apart from their phase, and   *)
(* the lists of issues and ended jobs are left out.                         *)
(***************************************************************************)
EXTENDS Naturals, FiniteSets

CONSTANTS
  Disks,          \* SmartTargetKey: lifecycles of devices
  DeviceOf,       \* device_id of each
  NoDisk,
  MaxJobs,        \* MAX_TRACKED_SMART_JOBS
  Retention,      \* DEFAULT_SMART_JOB_RETENTION_MS
  MaxGeneration,  \* u64::MAX of next_job_generation
  MaxTableRevision, \* u64::MAX of SmartStateRevision
  MaxCall,        \* bound: how long a request is on its lane
  MaxBatches      \* bound: batches on the way to the projection

ASSUME SmartConstants ==
  /\ NoDisk \notin Disks
  /\ MaxJobs \in Nat /\ Retention \in Nat /\ MaxCall \in Nat
  /\ MaxGeneration \in Nat /\ MaxTableRevision \in Nat /\ MaxBatches \in Nat \ {0}

VARIABLES
  tests,       \* SmartRuntimeState::jobs
  generation,  \* next_job_generation
  revision,    \* SmartRuntimeState::revision
  observer,    \* the observation lane in smart_tracking::refresh
  controller,  \* the control lane in smart_tracking::control
  batches,     \* published, not yet folded
  shown        \* SmartObservationProjection

smartVars == <<tests, generation, revision, observer, controller, batches, shown>>

Phases == {"Running", "Settled"}

\* of: the generation of the job the report was made for (history).
SmartJob(d, g, phase, age) ==
  [disk |-> d, generation |-> g, phase |-> phase, of |-> g, age |-> age]
SameToken(j, k) == j.disk = k.disk /\ j.generation = k.generation

\* SmartStateSnapshot
Table == [revision |-> revision,
          jobs |-> {[disk |-> j.disk, generation |-> j.generation,
                     phase |-> j.phase] : j \in tests}]

CanRevise == revision < MaxTableRevision          \* next_revision
Minimum(m, n) == IF m < n THEN m ELSE n

\* lag: the time since the lane read clock_ms() for this request.
Observer(step, todo, polled, lag) ==
  [step |-> step, todo |-> todo, polled |-> polled, lag |-> lag]
ObserverRests == Observer("idle", {}, {}, 0)

Controller(step, d, lag) == [step |-> step, disk |-> d, lag |-> lag]
ControllerRests == Controller("idle", NoDisk, 0)

-----------------------------------------------------------------------------
(* The table under its mutex. *)

Expired == {j \in tests : j.age > Retention}

\* prune_expired; an Err (the revision is exhausted) ends the request.
CanPrune == Expired = {} \/ CanRevise
PruneExpired ==
  /\ tests' = tests \ Expired
  /\ revision' = IF Expired = {} THEN revision ELSE revision + 1

\* ensure_start_allowed
StartAllowed(d) ==
  /\ \/ Cardinality(tests) < MaxJobs
     \/ \E j \in tests : DeviceOf[j.disk] = DeviceOf[d]
  /\ generation < MaxGeneration /\ CanRevise

Installed(d, phase, lag) == SmartJob(d, generation + 1, phase, lag)
Retained(d) == {j \in tests : DeviceOf[j.disk] # DeviceOf[d]}

\* install_started
Install(d, phase, lag) ==
  /\ tests' = Retained(d) \cup {Installed(d, phase, lag)}
  /\ generation' = generation + 1
  /\ revision' = revision + 1

\* Faulty: whatever job the target has by now.
FaultyCurrent(j) == {k \in tests : k.disk = j.disk}

\* The job a snapshot was taken of, if it is still in the table.
Current(j) == {k \in tests : SameToken(j, k)}

\* Faulty: the table changes under its old revision.
FaultyCommitObservation(j, phase, lag) ==
  /\ tests' = {IF k \in Current(j)
                THEN [k EXCEPT !.phase = phase, !.of = j.generation, !.age = Minimum(@, lag)]
                ELSE k : k \in tests}
  /\ UNCHANGED revision

\* commit_observation
CommitObservation(j, phase, lag) ==
  /\ tests' = {IF k \in Current(j)
                THEN [k EXCEPT !.phase = phase, !.of = j.generation, !.age = Minimum(@, lag)]
                ELSE k : k \in tests}
  /\ revision' = IF Current(j) = {} THEN revision ELSE revision + 1

\* remove_if_current, stop_tracking
Forget(gone) ==
  /\ tests' = tests \ gone
  /\ revision' = IF gone = {} THEN revision ELSE revision + 1

BatchHasRoom == Cardinality(batches) < MaxBatches
PublishTable == BatchHasRoom /\ batches' = batches \cup {Table}

-----------------------------------------------------------------------------
(* The observation lane: refresh. *)

\* An Err is published without a table.
GiveUpRefresh == observer' = ObserverRests

BeginRefresh ==
  /\ observer.step = "idle"
  /\ IF CanPrune THEN PruneExpired /\ observer' = Observer("select", {}, {}, 0)
                 ELSE GiveUpRefresh /\ UNCHANGED <<tests, revision>>
  /\ UNCHANGED <<generation, controller, batches, shown>>

\* RefreshAll or RefreshTarget; only tests that run are polled.
SelectJobs(targets) ==
  /\ observer.step = "select"
  /\ observer' = [observer EXCEPT !.step = "poll",
       !.todo = {j \in tests : j.disk \in targets /\ j.phase = "Running"}]
  /\ UNCHANGED <<tests, generation, revision, controller, batches, shown>>

\* The provider is called for the next job of the snapshot.
CallObserver ==
  /\ observer.step = "poll"
  /\ \E j \in observer.todo :
       observer' = [observer EXCEPT !.step = "calling", !.todo = @ \ {j}, !.polled = {j}]
  /\ UNCHANGED <<tests, generation, revision, controller, batches, shown>>

Polled == CHOOSE j \in observer.polled : TRUE
NextPoll == observer' = [observer EXCEPT !.step = "poll", !.polled = {}]
Calling == observer.step = "calling"

PollAnswers(phase) ==
  /\ Calling
  /\ IF Current(Polled) = {} \/ CanRevise
       THEN CommitObservation(Polled, phase, observer.lag) /\ NextPoll
       ELSE UNCHANGED <<tests, revision>> /\ GiveUpRefresh
  /\ UNCHANGED <<generation, controller, batches, shown>>

PollFindsNewIdentity ==
  /\ Calling
  /\ IF Current(Polled) = {} \/ CanRevise
       THEN Forget(Current(Polled)) /\ NextPoll
       ELSE UNCHANGED <<tests, revision>> /\ GiveUpRefresh
  /\ UNCHANGED <<generation, controller, batches, shown>>

PollFails ==
  /\ Calling /\ NextPoll
  /\ UNCHANGED <<tests, generation, revision, controller, batches, shown>>

FinishRefresh ==
  /\ observer.step = "poll" /\ observer.todo = {}
  /\ PublishTable
  /\ observer' = ObserverRests
  /\ UNCHANGED <<tests, generation, revision, controller, shown>>

-----------------------------------------------------------------------------
(* The control lane: control. *)

GiveUpControl == controller' = ControllerRests

BeginControl ==
  /\ controller.step = "idle"
  /\ IF CanPrune THEN PruneExpired /\ controller' = Controller("chosen", NoDisk, 0)
                 ELSE GiveUpControl /\ UNCHANGED <<tests, revision>>
  /\ UNCHANGED <<generation, observer, batches, shown>>

\* Faulty: the capacity is left to the installation.
FaultyEnsureStartCapacity(d) ==
  /\ controller.step = "chosen"
  /\ controller' = [controller EXCEPT !.step = "starting", !.disk = d]
  /\ UNCHANGED <<tests, generation, revision, observer, batches, shown>>

\* ensure_start_capacity, before the drive is told anything.
EnsureStartCapacity(d) ==
  /\ controller.step = "chosen"
  /\ IF StartAllowed(d)
       THEN controller' = [controller EXCEPT !.step = "starting", !.disk = d]
       ELSE GiveUpControl
  /\ UNCHANGED <<tests, generation, revision, observer, batches, shown>>

Starting == controller.step = "starting"

\* The provider reports; a settled phase is a test that could not be started.
StartAnswers(phase) ==
  /\ Starting
  /\ IF StartAllowed(controller.disk)
       THEN /\ Install(controller.disk, phase, controller.lag)
            /\ controller' = [controller EXCEPT !.step = "reporting"]
       ELSE GiveUpControl /\ UNCHANGED <<tests, generation, revision>>
  /\ UNCHANGED <<observer, batches, shown>>

StartFails ==
  /\ Starting /\ GiveUpControl
  /\ UNCHANGED <<tests, generation, revision, observer, batches, shown>>

StopTracking(d) ==
  LET gone == {j \in tests : j.disk = d}
  IN  /\ controller.step = "chosen"
      /\ IF gone = {} \/ CanRevise
           THEN Forget(gone) /\ controller' = [controller EXCEPT !.step = "reporting"]
           ELSE GiveUpControl /\ UNCHANGED <<tests, revision>>
      /\ UNCHANGED <<generation, observer, batches, shown>>

FinishControl ==
  /\ controller.step = "reporting"
  /\ PublishTable
  /\ controller' = ControllerRests
  /\ UNCHANGED <<tests, generation, revision, observer, shown>>

-----------------------------------------------------------------------------
(* The application and the clock. *)

\* SmartObservationProjection::apply
ApplyBatch(batch) ==
  /\ batches' = batches \ {batch}
  /\ shown' = IF batch.revision > shown.revision THEN batch ELSE shown
  /\ UNCHANGED <<tests, generation, revision, observer, controller>>

\* An age is followed up to the first value that is too old.
TimePasses ==
  /\ observer.lag < MaxCall /\ controller.lag < MaxCall
  /\ tests' = {[j EXCEPT !.age = Minimum(@ + 1, Retention + 1)] : j \in tests}
  /\ observer' = IF observer.step = "idle" THEN observer ELSE [observer EXCEPT !.lag = @ + 1]
  /\ controller' =
       IF controller.step = "idle" THEN controller ELSE [controller EXCEPT !.lag = @ + 1]
  /\ UNCHANGED <<generation, revision, batches, shown>>

SmartInit ==
  /\ tests = {} /\ generation = 0 /\ revision = 0
  /\ observer = ObserverRests /\ controller = ControllerRests
  /\ batches = {} /\ shown = Table

SmartNext ==
  \/ BeginRefresh \/ CallObserver \/ PollFindsNewIdentity \/ PollFails \/ FinishRefresh
  \/ SelectJobs(Disks) \/ \E d \in Disks : SelectJobs({d})
  \/ \E phase \in Phases : PollAnswers(phase) \/ StartAnswers(phase)
  \/ BeginControl \/ StartFails \/ FinishControl
  \/ \E d \in Disks : EnsureStartCapacity(d) \/ StopTracking(d)
  \/ \E batch \in batches : ApplyBatch(batch)
  \/ TimePasses

SmartSpec == SmartInit /\ [][SmartNext]_smartVars

-----------------------------------------------------------------------------
(* Properties. *)

\* The table holds at most one job of a device, whatever its lifecycles, and
\* no more than the limit.
SmartTypeOK ==
  /\ \A j \in tests :
       /\ j.disk \in Disks /\ j.generation \in 1 .. generation
       /\ j.phase \in Phases /\ j.age \in Nat
  /\ \A j, k \in tests : DeviceOf[j.disk] = DeviceOf[k.disk] => j = k
  /\ Cardinality(tests) <= MaxJobs
  /\ generation \in 0 .. MaxGeneration /\ revision \in 0 .. MaxTableRevision
  /\ observer.step \in {"idle", "select", "poll", "calling"}
  /\ controller.step \in {"idle", "chosen", "starting", "reporting"}

\* The projection tells new from old by the revision alone, although two lanes
\* publish and their batches arrive in any order: a revision stands for one
\* table, in the runtime, on the way and on the screen.
RevisionNamesOneTable ==
  LET tables == {Table, shown} \cup batches
  IN  \A p, q \in tables : p.revision = q.revision => p = q

\* storage.rs: "an old poll can never overwrite a restarted, canceled, removed,
\* or expired job": a report in the table was made for the job that shows it.
ReportsStayWithTheirJob == \A j \in tests : j.of = j.generation

\* smart_tracking.rs: a provider must never start a test the runtime cannot
\* track.  Capacity is checked before the call and taken after it: a test that
\* was started is installed (but for the last values of the two counters).
StartedIsTracked ==
  [][\A phase \in Phases : StartAnswers(phase) /\ CanRevise =>
       \E j \in tests' : j.disk = controller.disk /\ j.generation = generation']_smartVars
=============================================================================
