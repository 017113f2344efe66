---------------------------- MODULE SmartJobsProofs ----------------------------
(***************************************************************************)
(* Safety of the SMART table for any disks, devices, limits and calls.     *)
(*                                                                         *)
(* A step of the table forgets jobs, relabels them under their tokens, or  *)
(* installs one.  The first two keep the room that a start has found, and  *)
(* only the control lane, which is waiting for its provider, could use it  *)
(* up.  A table that changes is under a new revision.                      *)
(***************************************************************************)
EXTENDS MCRuntimeTables, WorkSchedulerProofs

Jobs == [disk : Disks, generation : Nat, phase : Phases, of : Nat, age : Nat]

TestsOK ==
  /\ tests \subseteq Jobs /\ IsFiniteSet(tests) /\ Cardinality(tests) <= MaxJobs
  /\ \A j, k \in tests : DeviceOf[j.disk] = DeviceOf[k.disk] => j = k
  /\ \A j \in tests : j.generation \in 1 .. generation /\ j.of = j.generation
  /\ generation \in 0 .. MaxGeneration

Room(d) ==
  \/ Cardinality(tests) < MaxJobs
  \/ \E j \in tests : DeviceOf[j.disk] = DeviceOf[d]

ObserverOK ==
  /\ observer \in [step : {"idle", "select", "poll", "calling"}, todo : SUBSET Jobs,
                   polled : SUBSET Jobs, lag : Nat]
  /\ observer.step = "calling" => observer.polled # {}

\* The control lane holds on to the room it has found.
ControllerOK ==
  /\ controller \in [step : {"idle", "chosen", "starting", "reporting"},
                     disk : Disks \cup {NoDisk}, lag : Nat]
  /\ controller.step = "starting" =>
       controller.disk \in Disks /\ Room(controller.disk) /\ generation < MaxGeneration

SmartInv ==
  TestsOK /\ ObserverOK /\ ControllerOK /\ revision \in 0 .. MaxTableRevision

-----------------------------------------------------------------------------
(* Steps of the table. *)

Forgets == tests' \subseteq tests /\ generation' = generation

Relabels ==
  /\ generation' = generation
  /\ \E f \in [tests -> Jobs] :
       /\ tests' = {f[k] : k \in tests}
       /\ \A k \in tests : /\ f[k].disk = k.disk /\ f[k].generation = k.generation
                           /\ f[k].of = k.generation

\* A table that is not the same is under the next revision.
Revises ==
  \/ tests' = tests /\ revision' = revision
  \/ revision' = revision + 1 /\ revision' <= MaxTableRevision

\* A job keeps its device, so that forgetting and relabelling keep the limits
\* and never take the room of a start: where a job of its device goes, its
\* place becomes free.
LEMMA RoomIsKept ==
  ASSUME TestsOK, Forgets \/ Relabels
  PROVE  TestsOK' /\ \A d \in Disks : Room(d) => Room(d)'
<1>1. CASE Forgets
  <2>1. IsFiniteSet(tests') /\ Cardinality(tests') <= Cardinality(tests)
        /\ Cardinality(tests') \in Nat /\ Cardinality(tests) \in Nat
        /\ (Cardinality(tests) = Cardinality(tests') => tests = tests')
    BY <1>1, FS_Subset, FS_CardinalityType DEF Forgets, TestsOK
  <2>2. TestsOK'
    BY <1>1, <2>1, SmartConstants DEF Forgets, TestsOK
  <2>3. ASSUME NEW d \in Disks, Room(d) PROVE Room(d)'
    <3>1. CASE tests' = tests
      BY <2>3, <3>1 DEF Room
    <3>2. CASE tests' # tests
      <4>1. Cardinality(tests') < MaxJobs
        BY <2>1, <3>2, SmartConstants DEF TestsOK
      <4> QED
        BY <4>1 DEF Room
    <3> QED
      BY <3>1, <3>2
  <2> QED
    BY <2>2, <2>3
<1>2. CASE Relabels
  <2>1. PICK f \in [tests -> Jobs] :
          /\ tests' = {f[k] : k \in tests}
          /\ \A k \in tests : /\ f[k].disk = k.disk /\ f[k].generation = k.generation
                              /\ f[k].of = k.generation
    BY <1>2 DEF Relabels
  <2>2. f \in Surjection(tests, tests')
    BY <2>1 DEF Surjection
  <2>3. IsFiniteSet(tests') /\ Cardinality(tests') <= Cardinality(tests)
        /\ Cardinality(tests') \in Nat /\ Cardinality(tests) \in Nat
    BY <2>2, FS_Surjection, FS_CardinalityType DEF TestsOK
  <2>4. TestsOK'
    BY <1>2, <2>1, <2>3, SmartConstants DEF Relabels, TestsOK
  <2>5. ASSUME NEW d \in Disks, Room(d) PROVE Room(d)'
    <3>1. CASE Cardinality(tests) < MaxJobs
      BY <2>3, <3>1, SmartConstants DEF Room
    <3>2. CASE \E j \in tests : DeviceOf[j.disk] = DeviceOf[d]
      BY <2>1, <3>2 DEF Room
    <3> QED
      BY <2>5, <3>1, <3>2 DEF Room
  <2> QED
    BY <2>4, <2>5
<1> QED
  BY <1>1, <1>2

\* prune_expired
LEMMA PruneEffect ==
  ASSUME SmartInv, CanPrune, PruneExpired, UNCHANGED generation
  PROVE  Forgets /\ Revises
  BY SmartConstants
     DEF SmartInv, CanPrune, CanRevise, PruneExpired, Forgets, Revises, Expired

\* remove_if_current, stop_tracking
LEMMA ForgetEffect ==
  ASSUME SmartInv, NEW gone, gone \subseteq tests, gone = {} \/ CanRevise, Forget(gone),
         UNCHANGED generation
  PROVE  Forgets /\ Revises
  BY SmartConstants DEF SmartInv, CanRevise, Forget, Forgets, Revises

\* A report changes no more than the job with the token it was asked for.
LEMMA CommitEffect ==
  ASSUME SmartInv, NEW j \in Jobs, NEW phase \in Phases, NEW lag \in Nat,
         Current(j) = {} \/ CanRevise, CommitObservation(j, phase, lag), UNCHANGED generation
  PROVE  Relabels /\ Revises
<1> DEFINE New(k) == [k EXCEPT !.phase = phase, !.of = j.generation, !.age = Minimum(@, lag)]
           f == [k \in tests |-> IF k \in Current(j) THEN New(k) ELSE k]
<1>1. ASSUME NEW k \in Jobs
      PROVE  /\ New(k) \in Jobs /\ New(k).disk = k.disk /\ New(k).generation = k.generation
             /\ New(k).of = j.generation
  BY DEF Jobs, Minimum
<1>2. \A k \in Current(j) : k.generation = j.generation
  BY DEF Current, SameToken
<1>3. \A k \in tests : k \in Jobs /\ k.of = k.generation
  BY DEF SmartInv, TestsOK
<1> HIDE DEF New
<1>4. f \in [tests -> Jobs]
      /\ \A k \in tests : /\ f[k].disk = k.disk /\ f[k].generation = k.generation
                          /\ f[k].of = k.generation
  BY <1>1, <1>2, <1>3
<1>5. tests' = {f[k] : k \in tests}
  BY DEF CommitObservation, New
<1>6. Relabels
  BY <1>4, <1>5 DEF Relabels
<1>7. CASE Current(j) = {}
  <2>1. tests' = tests
    BY <1>5, <1>7
  <2> QED
    BY <1>6, <1>7, <2>1 DEF CommitObservation, Revises
<1>8. CASE Current(j) # {}
  <2>1. revision' = revision + 1 /\ revision < MaxTableRevision
    BY <1>8 DEF CommitObservation, CanRevise
  <2> QED
    BY <1>6, <2>1, SmartConstants DEF Revises, SmartInv
<1> QED
  BY <1>7, <1>8

\* Time changes ages only.
LEMMA TimeEffect ==
  ASSUME SmartInv, TimePasses
  PROVE  Relabels /\ Table' = Table
<1> DEFINE f == [j \in tests |-> [j EXCEPT !.age = Minimum(@ + 1, Retention + 1)]]
<1>1. \A j \in tests : j \in Jobs /\ j.of = j.generation
  BY DEF SmartInv, TestsOK
<1>2. \A j \in tests :
        /\ f[j] \in Jobs /\ f[j].disk = j.disk /\ f[j].generation = j.generation
        /\ f[j].of = j.generation /\ f[j].phase = j.phase
  BY <1>1, SmartConstants DEF Jobs, Minimum
<1>3. tests' = {f[j] : j \in tests} /\ UNCHANGED <<generation, revision>>
  BY DEF TimePasses
<1> HIDE DEF f
<1>4. f \in [tests -> Jobs]
  BY <1>2 DEF f
<1>5. {[disk |-> j.disk, generation |-> j.generation, phase |-> j.phase] : j \in tests'}
        = {[disk |-> j.disk, generation |-> j.generation, phase |-> j.phase] : j \in tests}
  BY <1>2, <1>3
<1> QED
  BY <1>2, <1>3, <1>4, <1>5 DEF Relabels, Table

-----------------------------------------------------------------------------
(* The lanes. *)

\* A lane's step that leaves the table and the other lane alone.
LEMMA LanesAfter ==
  ASSUME SmartInv, Forgets \/ Relabels \/ UNCHANGED <<tests, generation>>, Revises,
         ObserverOK',
         \/ controller' = controller
         \/ controller' \in [step : {"idle", "chosen", "reporting"},
                             disk : Disks \cup {NoDisk}, lag : Nat]
         \/ /\ controller'.step = controller.step /\ controller'.disk = controller.disk
            /\ controller' \in [step : {"idle", "chosen", "starting", "reporting"},
                                disk : Disks \cup {NoDisk}, lag : Nat]
  PROVE  SmartInv'
<1>1. TestsOK' /\ generation' = generation /\ \A d \in Disks : Room(d) => Room(d)'
  <2>1. CASE Forgets \/ Relabels
    BY <2>1, RoomIsKept DEF SmartInv, Forgets, Relabels
  <2>2. CASE UNCHANGED <<tests, generation>>
    BY <2>2 DEF SmartInv, TestsOK, Room
  <2> QED
    BY <2>1, <2>2
<1>2. revision' \in 0 .. MaxTableRevision
  BY SmartConstants DEF SmartInv, Revises
<1>3. ControllerOK'
  <2>1. CASE controller' = controller
    BY <1>1, <2>1 DEF SmartInv, ControllerOK
  <2>2. CASE controller' \in [step : {"idle", "chosen", "reporting"},
                              disk : Disks \cup {NoDisk}, lag : Nat]
    BY <2>2 DEF ControllerOK
  <2>3. CASE /\ controller'.step = controller.step /\ controller'.disk = controller.disk
             /\ controller' \in [step : {"idle", "chosen", "starting", "reporting"},
                                 disk : Disks \cup {NoDisk}, lag : Nat]
    BY <1>1, <2>3 DEF SmartInv, ControllerOK
  <2> QED
    BY <2>1, <2>2, <2>3
<1> QED
  BY <1>1, <1>2, <1>3 DEF SmartInv

LEMMA ObserverStep ==
  ASSUME SmartInv,
         \/ BeginRefresh \/ CallObserver \/ PollFindsNewIdentity \/ PollFails \/ FinishRefresh
         \/ SelectJobs(Disks) \/ \E d \in Disks : SelectJobs({d})
         \/ \E phase \in Phases : PollAnswers(phase)
  PROVE  SmartInv' /\ Revises /\ UNCHANGED <<controller, generation>>
<1>t. /\ observer \in [step : {"idle", "select", "poll", "calling"}, todo : SUBSET Jobs,
                       polled : SUBSET Jobs, lag : Nat]
      /\ observer.step = "calling" => observer.polled # {}
      /\ tests \subseteq Jobs /\ revision \in 0 .. MaxTableRevision
  BY DEF SmartInv, ObserverOK, TestsOK
<1>k. ASSUME UNCHANGED <<tests, revision>> PROVE Revises
  BY <1>k DEF Revises
<1>r. ASSUME observer' = ObserverRests PROVE ObserverOK'
  BY <1>r DEF ObserverOK, ObserverRests, Observer
<1>n. ASSUME NextPoll PROVE ObserverOK'
  BY <1>t, <1>n DEF NextPoll, ObserverOK
<1>1. CASE BeginRefresh
  <2>1. ObserverOK' /\ UNCHANGED <<controller, generation>>
    BY <1>1, <1>r DEF BeginRefresh, GiveUpRefresh, ObserverOK, Observer
  <2>2. CASE CanPrune
    <3>1. Forgets /\ Revises
      BY <1>1, <2>1, <2>2, PruneEffect DEF BeginRefresh
    <3> QED
      BY <2>1, <3>1, LanesAfter
  <2>3. CASE ~CanPrune
    <3>1. UNCHANGED <<tests, revision>>
      BY <1>1, <2>3 DEF BeginRefresh
    <3> QED
      BY <2>1, <3>1, <1>k, LanesAfter
  <2> QED
    BY <2>2, <2>3
<1>2. ASSUME NEW targets \in SUBSET Disks, SelectJobs(targets)
      PROVE  SmartInv' /\ Revises /\ UNCHANGED <<controller, generation>>
  <2>1. ObserverOK' /\ UNCHANGED <<tests, generation, revision, controller>>
    BY <1>t, <1>2 DEF SelectJobs, ObserverOK
  <2> QED
    BY <2>1, <1>k, LanesAfter
<1>3. CASE CallObserver
  <2>1. UNCHANGED <<tests, generation, revision, controller>>
    BY <1>3 DEF CallObserver
  <2>2. PICK j \in observer.todo :
          observer' = [observer EXCEPT !.step = "calling", !.todo = @ \ {j}, !.polled = {j}]
    BY <1>3 DEF CallObserver
  <2>3. j \in Jobs
    BY <1>t, <2>2
  <2>4. ObserverOK'
    BY <1>t, <2>2, <2>3 DEF ObserverOK
  <2> QED
    BY <2>1, <2>4, <1>k, LanesAfter
<1>4. ASSUME NEW phase \in Phases, PollAnswers(phase)
      PROVE  SmartInv' /\ Revises /\ UNCHANGED <<controller, generation>>
  <2>1. observer.polled # {} /\ UNCHANGED <<controller, generation>>
    BY <1>t, <1>4 DEF PollAnswers, Calling
  <2>2. PICK j \in Jobs : j = Polled
    BY <1>t, <2>1 DEF Polled
  <2>3. PICK lag \in Nat : lag = observer.lag
    BY <1>t
  <2>4. CASE Current(j) = {} \/ CanRevise
    <3>1. CommitObservation(j, phase, lag) /\ NextPoll
      BY <1>4, <2>2, <2>3, <2>4 DEF PollAnswers
    <3>2. Relabels /\ Revises
      BY <2>1, <2>4, <3>1, CommitEffect
    <3> QED
      BY <2>1, <3>1, <3>2, <1>n, LanesAfter
  <2>5. CASE ~(Current(j) = {} \/ CanRevise)
    <3>1. UNCHANGED <<tests, revision>> /\ observer' = ObserverRests
      BY <1>4, <2>2, <2>5 DEF PollAnswers, GiveUpRefresh
    <3> QED
      BY <2>1, <3>1, <1>k, <1>r, LanesAfter
  <2> QED
    BY <2>4, <2>5
<1>5. CASE PollFindsNewIdentity
  <2>1. observer.polled # {} /\ UNCHANGED <<controller, generation>>
    BY <1>t, <1>5 DEF PollFindsNewIdentity, Calling
  <2>2. PICK j \in Jobs : j = Polled
    BY <1>t, <2>1 DEF Polled
  <2>3. Current(j) \subseteq tests
    BY DEF Current
  <2>4. PICK gone \in SUBSET tests : gone = Current(j)
    BY <2>3
  <2>5. CASE gone = {} \/ CanRevise
    <3>1. Forget(gone) /\ NextPoll
      BY <1>5, <2>2, <2>4, <2>5 DEF PollFindsNewIdentity
    <3>2. Forgets /\ Revises
      BY <2>1, <2>5, <3>1, ForgetEffect
    <3> QED
      BY <2>1, <3>1, <3>2, <1>n, LanesAfter
  <2>6. CASE ~(gone = {} \/ CanRevise)
    <3>1. UNCHANGED <<tests, revision>> /\ observer' = ObserverRests
      BY <1>5, <2>2, <2>4, <2>6 DEF PollFindsNewIdentity, GiveUpRefresh
    <3> QED
      BY <2>1, <3>1, <1>k, <1>r, LanesAfter
  <2> QED
    BY <2>5, <2>6
<1>6. CASE PollFails \/ FinishRefresh
  <2>1. ObserverOK' /\ UNCHANGED <<tests, generation, revision, controller>>
    BY <1>6, <1>n, <1>r DEF PollFails, FinishRefresh
  <2> QED
    BY <2>1, <1>k, LanesAfter
<1> QED
  BY <1>1, <1>2, <1>3, <1>4, <1>5, <1>6

\* The only job that is added replaces one of its device or takes a free place.
LEMMA InstallKeeps ==
  ASSUME SmartInv, NEW d \in Disks, NEW phase \in Phases, NEW lag \in Nat,
         StartAllowed(d), Install(d, phase, lag)
  PROVE  TestsOK' /\ revision' = revision + 1 /\ revision' \in 0 .. MaxTableRevision
         /\ generation' = generation + 1
         /\ \E j \in tests' : j.disk = d /\ j.generation = generation'
<1> DEFINE new == Installed(d, phase, lag)
<1>1. generation \in Nat /\ revision \in Nat /\ generation < MaxGeneration
      /\ revision < MaxTableRevision
      /\ generation' = generation + 1 /\ revision' = revision + 1
  BY SmartConstants DEF SmartInv, TestsOK, StartAllowed, CanRevise, Install
<1>2. new \in Jobs /\ new.disk = d /\ new.generation = generation + 1
      /\ new.of = generation + 1
  BY <1>1 DEF Installed, SmartJob, Jobs
<1>3. tests' = Retained(d) \cup {new} /\ Retained(d) \subseteq tests
  BY DEF Install, Retained
<1>4. /\ IsFiniteSet(Retained(d)) /\ Cardinality(Retained(d)) <= Cardinality(tests)
      /\ Cardinality(Retained(d)) \in Nat /\ Cardinality(tests) \in Nat
      /\ (Cardinality(tests) = Cardinality(Retained(d)) => tests = Retained(d))
  BY <1>3, FS_Subset, FS_CardinalityType DEF SmartInv, TestsOK
<1>5. Cardinality(Retained(d)) < MaxJobs
  <2>1. CASE Cardinality(tests) < MaxJobs
    BY <1>4, <2>1, SmartConstants
  <2>2. CASE \E j \in tests : DeviceOf[j.disk] = DeviceOf[d]
    <3>1. tests # Retained(d)
      BY <2>2 DEF Retained
    <3> QED
      BY <1>4, <3>1, SmartConstants DEF SmartInv, TestsOK
  <2> QED
    BY <2>1, <2>2 DEF StartAllowed
<1> HIDE DEF new
<1>6. IsFiniteSet(tests') /\ Cardinality(tests') <= MaxJobs
  <2>1. /\ IsFiniteSet(Retained(d) \cup {new})
        /\ Cardinality(Retained(d) \cup {new}) =
             IF new \in Retained(d) THEN Cardinality(Retained(d)) ELSE Cardinality(Retained(d)) + 1
    BY <1>4, FS_AddElement
  <2> QED
    BY <1>3, <1>4, <1>5, <2>1, SmartConstants
<1>7. \A j \in Retained(d) : DeviceOf[j.disk] # DeviceOf[d]
  BY DEF Retained
<1>8. TestsOK'
  BY <1>1, <1>2, <1>3, <1>6, <1>7, SmartConstants DEF SmartInv, TestsOK
<1> QED
  BY <1>1, <1>2, <1>3, <1>8, SmartConstants

LEMMA ControllerStep ==
  ASSUME SmartInv,
         \/ BeginControl \/ StartFails \/ FinishControl
         \/ \E d \in Disks : EnsureStartCapacity(d) \/ StopTracking(d)
         \/ \E phase \in Phases : StartAnswers(phase)
  PROVE  SmartInv' /\ Revises
<1>t. /\ controller \in [step : {"idle", "chosen", "starting", "reporting"},
                         disk : Disks \cup {NoDisk}, lag : Nat]
      /\ revision \in 0 .. MaxTableRevision /\ ObserverOK
  BY DEF SmartInv, ControllerOK
<1>k. ASSUME UNCHANGED <<tests, revision>> PROVE Revises
  BY <1>k DEF Revises
<1> DEFINE AtRest == [step : {"idle", "chosen", "reporting"}, disk : Disks \cup {NoDisk},
                      lag : Nat]
<1>o. ASSUME UNCHANGED observer PROVE ObserverOK'
  BY <1>t, <1>o DEF ObserverOK
<1>r. ControllerRests \in AtRest /\ [controller EXCEPT !.step = "reporting"] \in AtRest
  BY <1>t DEF ControllerRests, Controller
<1>1. CASE BeginControl
  <2>1. controller' \in AtRest /\ UNCHANGED <<observer, generation>>
    BY <1>1, <1>r DEF BeginControl, GiveUpControl, Controller
  <2>2. CASE CanPrune
    <3>1. Forgets /\ Revises
      BY <1>1, <2>1, <2>2, PruneEffect DEF BeginControl
    <3> QED
      BY <2>1, <3>1, <1>o, LanesAfter
  <2>3. CASE ~CanPrune
    <3>1. UNCHANGED <<tests, revision>>
      BY <1>1, <2>3 DEF BeginControl
    <3> QED
      BY <2>1, <3>1, <1>k, <1>o, LanesAfter
  <2> QED
    BY <2>2, <2>3
<1>2. ASSUME NEW d \in Disks, EnsureStartCapacity(d) PROVE SmartInv' /\ Revises
  <2>1. UNCHANGED <<tests, generation, revision, observer>>
    BY <1>2 DEF EnsureStartCapacity
  <2>2. CASE StartAllowed(d)
    <3>1. controller' = [controller EXCEPT !.step = "starting", !.disk = d]
      BY <1>2, <2>2 DEF EnsureStartCapacity
    <3>2. Room(d) /\ generation < MaxGeneration
      BY <2>2 DEF StartAllowed, Room
    <3>3. ControllerOK'
      BY <1>t, <2>1, <3>1, <3>2 DEF ControllerOK, Room
    <3>4. TestsOK'
      BY <2>1 DEF SmartInv, TestsOK
    <3> QED
      BY <2>1, <3>3, <3>4, <1>t, <1>o, <1>k DEF SmartInv
  <2>3. CASE ~StartAllowed(d)
    <3>1. controller' \in AtRest
      BY <1>2, <2>3, <1>r DEF EnsureStartCapacity, GiveUpControl
    <3> QED
      BY <2>1, <3>1, <1>k, <1>o, LanesAfter
  <2> QED
    BY <2>2, <2>3
<1>3. ASSUME NEW phase \in Phases, StartAnswers(phase) PROVE SmartInv' /\ Revises
  <2>1. controller.step = "starting" /\ controller' \in AtRest /\ UNCHANGED observer
    BY <1>3, <1>r DEF StartAnswers, Starting, GiveUpControl
  <2>2. PICK d \in Disks : d = controller.disk
    BY <2>1 DEF SmartInv, ControllerOK
  <2>3. PICK lag \in Nat : lag = controller.lag
    BY <1>t
  <2>4. CASE StartAllowed(d)
    <3>1. Install(d, phase, lag)
      BY <1>3, <2>2, <2>3, <2>4 DEF StartAnswers
    <3>2. TestsOK' /\ revision' = revision + 1 /\ revision' \in 0 .. MaxTableRevision
      BY <2>4, <3>1, InstallKeeps
    <3>3. ControllerOK'
      BY <2>1 DEF ControllerOK
    <3> QED
      BY <2>1, <3>2, <3>3, <1>o, SmartConstants DEF SmartInv, Revises
  <2>5. CASE ~StartAllowed(d)
    <3>1. UNCHANGED <<tests, generation, revision>>
      BY <1>3, <2>2, <2>5 DEF StartAnswers
    <3> QED
      BY <2>1, <3>1, <1>k, <1>o, LanesAfter
  <2> QED
    BY <2>4, <2>5
<1>4. ASSUME NEW d \in Disks, StopTracking(d) PROVE SmartInv' /\ Revises
  <2>1. PICK gone \in SUBSET tests : gone = {j \in tests : j.disk = d}
    OBVIOUS
  <2>2. UNCHANGED <<observer, generation>> /\ controller' \in AtRest
    BY <1>4, <1>r DEF StopTracking, GiveUpControl
  <2>3. CASE gone = {} \/ CanRevise
    <3>1. Forget(gone)
      BY <1>4, <2>1, <2>3 DEF StopTracking
    <3>2. Forgets /\ Revises
      BY <2>2, <2>3, <3>1, ForgetEffect
    <3> QED
      BY <2>2, <3>2, <1>o, LanesAfter
  <2>4. CASE ~(gone = {} \/ CanRevise)
    <3>1. UNCHANGED <<tests, revision>>
      BY <1>4, <2>1, <2>4 DEF StopTracking
    <3> QED
      BY <2>2, <3>1, <1>k, <1>o, LanesAfter
  <2> QED
    BY <2>3, <2>4
<1>5. CASE StartFails \/ FinishControl
  <2>1. UNCHANGED <<tests, generation, revision, observer>> /\ controller' \in AtRest
    BY <1>5, <1>r DEF StartFails, FinishControl, GiveUpControl
  <2> QED
    BY <2>1, <1>k, <1>o, LanesAfter
<1> QED
  BY <1>1, <1>2, <1>3, <1>4, <1>5

-----------------------------------------------------------------------------
(* The invariant, and what follows from it alone. *)

LEMMA SmartInvInit == SmartInit => SmartInv
<1> SUFFICES ASSUME SmartInit PROVE SmartInv
  OBVIOUS
<1>1. TestsOK
  BY FS_EmptySet, SmartConstants DEF SmartInit, TestsOK
<1>2. ObserverOK /\ ControllerOK
  BY DEF SmartInit, ObserverRests, Observer, ObserverOK, ControllerRests, Controller,
         ControllerOK
<1> QED
  BY <1>1, <1>2, SmartConstants DEF SmartInit, SmartInv

\* The clock takes nothing from a start that is under way.
LEMMA TimeStep == SmartInv /\ TimePasses => SmartInv' /\ Table' = Table
<1> SUFFICES ASSUME SmartInv, TimePasses PROVE SmartInv' /\ Table' = Table
  OBVIOUS
<1>1. Relabels /\ Table' = Table
  BY TimeEffect
<1>2. TestsOK' /\ \A d \in Disks : Room(d) => Room(d)'
  BY <1>1, RoomIsKept DEF SmartInv
<1>3. ObserverOK'
  BY DEF TimePasses, SmartInv, ObserverOK
<1>4. ControllerOK'
  BY <1>2 DEF TimePasses, SmartInv, ControllerOK
<1> QED
  BY <1>1, <1>2, <1>3, <1>4 DEF TimePasses, SmartInv

LEMMA SmartInvStep ==
  SmartInv /\ [SmartNext]_smartVars => SmartInv' /\ (Table' = Table \/ revision' = revision + 1)
<1> SUFFICES ASSUME SmartInv, [SmartNext]_smartVars
             PROVE  SmartInv' /\ (Table' = Table \/ revision' = revision + 1)
  OBVIOUS
<1>1. ASSUME Revises PROVE Table' = Table \/ revision' = revision + 1
  BY <1>1 DEF Revises, Table
<1>2. CASE \/ BeginRefresh \/ CallObserver \/ PollFindsNewIdentity \/ PollFails
           \/ FinishRefresh
           \/ SelectJobs(Disks) \/ \E d \in Disks : SelectJobs({d})
           \/ \E phase \in Phases : PollAnswers(phase)
  BY <1>1, <1>2, ObserverStep
<1>3. CASE \/ BeginControl \/ StartFails \/ FinishControl
           \/ \E d \in Disks : EnsureStartCapacity(d) \/ StopTracking(d)
           \/ \E phase \in Phases : StartAnswers(phase)
  BY <1>1, <1>3, ControllerStep
<1>4. CASE TimePasses
  BY <1>4, TimeStep
<1>5. CASE (\E batch \in batches : ApplyBatch(batch)) \/ UNCHANGED smartVars
  <2>1. UNCHANGED <<tests, generation, revision, observer, controller>>
    BY <1>5 DEF ApplyBatch, smartVars
  <2> QED
    BY <2>1 DEF SmartInv, TestsOK, ObserverOK, ControllerOK, Room, Table
<1> QED
  BY <1>2, <1>3, <1>4, <1>5 DEF SmartNext

LEMMA SmartInvHolds == SmartSpec => []SmartInv
  BY SmartInvInit, SmartInvStep, PTL DEF SmartSpec

\* The table never holds two jobs of a device or more than its limit, and its
\* two counters never pass their ends (smart_state.rs, install_started).
THEOREM SmartIsTyped == SmartSpec => []SmartTypeOK
<1>1. SmartInv => SmartTypeOK
  BY DEF SmartInv, SmartTypeOK, TestsOK, ObserverOK, ControllerOK, Jobs
<1> QED
  BY <1>1, SmartInvHolds, PTL

\* A report in the table was made for the job that shows it (storage.rs, "an
\* old poll can never overwrite a restarted ... job"): the token decides.
THEOREM ReportsAreTheirs == SmartSpec => []ReportsStayWithTheirJob
<1>1. SmartInv => ReportsStayWithTheirJob
  BY DEF SmartInv, TestsOK, ReportsStayWithTheirJob
<1> QED
  BY <1>1, SmartInvHolds, PTL

\* A test the drive has started is installed (smart_tracking.rs): the room the
\* control lane found before the call is there after it, whatever the other
\* lane has done meanwhile.
THEOREM StartsAreTracked == SmartSpec => StartedIsTracked
<1>1. ASSUME SmartInv, NEW phase \in Phases, StartAnswers(phase), CanRevise
      PROVE  \E j \in tests' : j.disk = controller.disk /\ j.generation = generation'
  <2>1. controller.step = "starting"
    BY <1>1 DEF StartAnswers, Starting
  <2>2. PICK d \in Disks : d = controller.disk
    BY <1>1, <2>1 DEF SmartInv, ControllerOK
  <2>3. PICK lag \in Nat : lag = controller.lag
    BY <1>1 DEF SmartInv, ControllerOK
  <2>4. StartAllowed(d)
    BY <1>1, <2>1, <2>2 DEF SmartInv, ControllerOK, Room, StartAllowed
  <2>5. Install(d, phase, lag)
    BY <1>1, <2>2, <2>3, <2>4 DEF StartAnswers
  <2> QED
    BY <1>1, <2>2, <2>4, <2>5, InstallKeeps
<1>2. SmartInv => [\A phase \in Phases : StartAnswers(phase) /\ CanRevise =>
                     \E j \in tests' : j.disk = controller.disk
                                         /\ j.generation = generation']_smartVars
  BY <1>1
<1> QED
  BY <1>2, SmartInvHolds, PTL DEF StartedIsTracked

-----------------------------------------------------------------------------
(* Revisions. *)

\* What has left the table is of an earlier revision, or is what it is now.
Published == batches \cup {shown}

PublishedInv ==
  /\ \A t \in Published : t.revision \in Nat /\ t.revision <= revision
                            /\ (t.revision = revision => t = Table)
  /\ \A t, u \in Published : t.revision = u.revision => t = u

LEMMA PublishedAfter ==
  SmartInv /\ [SmartNext]_smartVars => Published' \subseteq Published \cup {Table}
<1> SUFFICES ASSUME SmartInv, [SmartNext]_smartVars
             PROVE  Published' \subseteq Published \cup {Table}
  OBVIOUS
<1>1. CASE FinishRefresh \/ FinishControl
  BY <1>1 DEF FinishRefresh, FinishControl, PublishTable, Published
<1>2. CASE \E batch \in batches : ApplyBatch(batch)
  BY <1>2 DEF ApplyBatch, Published
<1>3. CASE UNCHANGED <<batches, shown>>
  BY <1>3 DEF Published
<1> QED
  BY <1>1, <1>2, <1>3
     DEF SmartNext, BeginRefresh, CallObserver, PollFindsNewIdentity, PollFails, SelectJobs,
         PollAnswers, BeginControl, StartFails, EnsureStartCapacity, StopTracking,
         StartAnswers, TimePasses, smartVars

LEMMA PublishedStep ==
  SmartInv /\ PublishedInv /\ [SmartNext]_smartVars => PublishedInv'
<1> SUFFICES ASSUME SmartInv, PublishedInv, [SmartNext]_smartVars PROVE PublishedInv'
  OBVIOUS
<1>1. Published' \subseteq Published \cup {Table}
  BY PublishedAfter
<1>2. Table' = Table \/ revision' = revision + 1
  BY SmartInvStep
<1>3. Table.revision = revision /\ Table'.revision = revision' /\ revision \in Nat
  BY SmartConstants DEF Table, SmartInv
<1>4. \A t \in Published \cup {Table} :
        t.revision \in Nat /\ t.revision <= revision /\ (t.revision = revision => t = Table)
  BY <1>3 DEF PublishedInv
<1>5. \A t, u \in Published \cup {Table} : t.revision = u.revision => t = u
  BY <1>3, <1>4 DEF PublishedInv
<1>6. revision' = revision \/ revision' = revision + 1
  BY <1>2, <1>3
<1>7. \A t \in Published' :
        t.revision \in Nat /\ t.revision <= revision' /\ (t.revision = revision' => t = Table')
  BY <1>1, <1>2, <1>3, <1>4, <1>6
<1> QED
  BY <1>1, <1>5, <1>7 DEF PublishedInv

\* The projection may tell new from old by the revision (smart_projection.rs):
\* whichever lane published it and however late it comes, a revision is one table.
THEOREM RevisionsNameTables == SmartSpec => []RevisionNamesOneTable
<1>1. SmartInit => PublishedInv
  BY DEF SmartInit, PublishedInv, Published, Table
<1>2. SmartInv /\ PublishedInv => RevisionNamesOneTable
  <2> SUFFICES ASSUME SmartInv, PublishedInv PROVE RevisionNamesOneTable
    OBVIOUS
  <2>1. Table.revision = revision
    BY DEF Table
  <2> QED
    BY <2>1 DEF RevisionNamesOneTable, PublishedInv, Published
<1> QED
  BY <1>1, <1>2, SmartInvHolds, PublishedStep, PTL DEF SmartSpec

-----------------------------------------------------------------------------
(* The two tables of MCRuntimeTables, whatever its constants. *)

\* Of two tables that share nothing, each keeps its own types.
THEOREM TablesAreTyped == TablesSpec => []TablesTypeOK
<1>1. TablesInit => Init /\ SmartInit
  BY DEF TablesInit
<1>2. [TablesNext]_<<schedVars, smartVars, unit>> => [Next]_schedVars /\ [SmartNext]_smartVars
  BY DEF TablesNext
<1>3. TypeOK /\ SmartInv => TablesTypeOK
  BY DEF TablesTypeOK, SmartInv, SmartTypeOK, TestsOK, ObserverOK, ControllerOK, Jobs
<1> QED
  BY <1>1, <1>2, <1>3, TypeOKInit, TypeOKStep, SmartInvInit, SmartInvStep, PTL DEF TablesSpec

=============================================================================
