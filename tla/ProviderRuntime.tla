-------------------------- MODULE ProviderRuntime --------------------------
(***************************************************************************)
(* One native runtime: the WorkScheduler with everything that calls it.    *)
(*                                                                         *)
(*   client      the application thread (PlatformClient, &mut self): polls *)
(*               the scheduler, submits through the request ports, drains  *)
(*               the event port                                            *)
(*   lane[c]     the bounded request channel of a route                    *)
(*   worker[c]   the provider lane thread that serves it and publishes     *)
(*   queue[k]    undrained events of a class, in sequence order, each in   *)
(*               the primary channel or in the terminal mailbox            *)
(*   guard       terminal_publication: who holds the publication barrier   *)
(*                                                                         *)
(* Each of these threads takes and drops the scheduler mutex several times *)
(* in one call; every section under it is one action, so the steps between *)
(* claim, enqueue, record and repaint interleave with polls and drains.    *)
(* How a drain merges primary and mailbox is EventDelivery's subject, how  *)
(* a lane thread starts and retires LaneStart's.                           *)
(*                                                                         *)
(* RequestIdGenerator never repeats an id.  A finite set of Requests       *)
(* stands for it: an id is used again only when nothing mentions it.       *)
(***************************************************************************)
EXTENDS WorkScheduler, Sequences, SequencesExt

CONSTANTS
  TrackingOf,       \* RequestTracking of a route: "Capability" or "Target"
  Scheduled,        \* the routes ScheduledCapability::ALL can submit
  LaneCapacity,     \* QueueCapacities: request slots of a lane
  PrimaryCapacity,  \* QueueCapacities: event slots of a primary channel
  TerminalHealths,  \* the verdicts the providers report
  NoCapability

ASSUME RuntimeConstants ==
  /\ TrackingOf \in [Capabilities -> {"Capability", "Target"}]
  /\ Scheduled \subseteq Capabilities /\ NoCapability \notin Capabilities
  /\ LaneCapacity \in Nat \ {0} /\ PrimaryCapacity \in Nat \ {0}
  /\ TerminalHealths \subseteq Healths

VARIABLES
  client,   \* what the application thread is in the middle of
  plan,     \* planned routes run_scheduled_refresh has not submitted yet
  stalls,   \* stalled owners poll_due has not repainted yet
  lane, worker, queue, guard,
  status    \* CapabilityDescriptor::status: the request it shows stalled, if any

clientVars == <<client, plan, stalls>>
workerVars == <<lane, worker, queue, guard, status>>
runtimeVars == <<schedVars, clientVars, workerVars>>

Classes == {"Control", "Observation"}
Free == NoCapability                            \* guard: nobody holds it

Client(step, c, r) == [step |-> step, capability |-> c, request |-> r]
Idle == Client("idle", NoCapability, NoRequest)
Turn == client = Idle /\ stalls = {}            \* between two calls

Worker(step, r, h) == [step |-> step, request |-> r, health |-> h]
Resting == Worker("idle", NoRequest, "None")
Move(c, next) == worker' = [worker EXCEPT ![c] = next]
StepTo(c, step) == worker' = [worker EXCEPT ![c].step = step]
At(c, step) == worker[c].step = step
Serving(c) == worker[c].request

Stall(c, r) == [capability |-> c, request |-> r]

\* EventEnvelope with its EventFinality, and where the publisher put it.
Event(c, r, finality, store) ==
  [capability |-> c, request |-> r, finality |-> finality, store |-> store]

Stored(k, store) == Cardinality({i \in DOMAIN queue[k] : queue[k][i].store = store})
PrimaryHasRoom(k) == Stored(k, "primary") < PrimaryCapacity
MailboxHasRoom ==
  Stored("Control", "mailbox") + Stored("Observation", "mailbox") < PermitLimit
Push(event) == queue' = [queue EXCEPT ![ClassOf[event.capability]] = Append(@, event)]

IsQueued(c, r, finality) ==
  \E i \in DOMAIN queue[ClassOf[c]] :
    LET e == queue[ClassOf[c]][i]
    IN  e.capability = c /\ e.request = r /\ e.finality = finality

Mentioned ==
  {client.request} \cup {k[2] : k \in AllPermits \cup JobsIn(Capabilities)}
    \cup {s.request : s \in stalls}
    \cup {work[c].request : c \in Capabilities}
    \cup {Serving(c) : c \in Capabilities}
    \cup (UNION {Range(lane[c]) : c \in Capabilities})
    \cup (UNION {{queue[k][i].request : i \in DOMAIN queue[k]} : k \in Classes})

Unused == Requests \ Mentioned
Fresh(r) == r \in Unused

-----------------------------------------------------------------------------
(* The application thread: run_scheduled_refresh. *)

\* poll_due up to the drop of the scheduler lock.
\* Bound: ids are left for the plan (the generator always has one).
Poll ==
  /\ Turn /\ plan = {}
  /\ Cardinality(Planned) <= Cardinality(Unused)
  /\ Tick
  /\ plan' = Planned
  /\ stalls' = {Stall(c, work[c].request) : c \in NewlyStalled}
  /\ UNCHANGED <<client, workerVars>>

\* The rest of poll_due: it takes neither the scheduler lock nor the barrier.
Repaint ==
  /\ stalls # {}
  /\ stalls' = {}
  /\ status' = [c \in Capabilities |->
       IF \E r \in Requests : Stall(c, r) \in stalls
         THEN CHOOSE r \in Requests : Stall(c, r) \in stalls
         ELSE status[c]]
  /\ UNCHANGED <<schedVars, client, plan, lane, worker, queue, guard>>

\* LaneStartRegistry::ensure_started, which precedes admission.
EnsureStarted(c) ==
  worker' = [worker EXCEPT ![c] = IF At(c, "stopped") THEN Resting ELSE @]

\* A failed submission is handed back to the scheduler if it was planned.
Fail(c) == client' = IF c \in plan THEN Client("failed", c, NoRequest) ELSE Idle

\* A plan is worked off before the thread does anything else; with no plan
\* the user may submit to any route.
MaySubmit(c) == Turn /\ IF plan = {} THEN TRUE ELSE c \in plan \cap Scheduled

SubmitCapability(c, r) ==
  /\ MaySubmit(c) /\ Fresh(r) /\ TrackingOf[c] = "Capability"
  /\ EnsureStarted(c)
  /\ IF CanAdmitCapability(c, r)
       THEN /\ \E left \in NewLeases : AdmitCapability(c, r, left)
            /\ client' = Client("send", c, r)
       ELSE Fail(c) /\ UNCHANGED schedVars
  /\ UNCHANGED <<plan, stalls, lane, queue, guard, status>>

SubmitTarget(c, r, s) ==
  /\ MaySubmit(c) /\ Fresh(r) /\ TrackingOf[c] = "Target"
  /\ EnsureStarted(c)
  /\ IF CanAdmitTarget(c, r, s)
       THEN /\ \E left \in NewLeases : AdmitTarget(c, r, s, left)
            /\ client' = Client("send", c, r)
       ELSE Fail(c) /\ UNCHANGED schedVars
  /\ UNCHANGED <<plan, stalls, lane, queue, guard, status>>

\* ensure_started is refused: the lane has no thread and gets none.
StartRefused(c) ==
  /\ MaySubmit(c)
  /\ worker[c].step \in {"idle", "stopped"}
  /\ Fail(c)
  /\ UNCHANGED <<schedVars, plan, stalls, workerVars>>

\* submit_scheduled_capability knows no request for a manual route.
RefuseManual(c) ==
  /\ Turn /\ c \in plan \ Scheduled
  /\ Fail(c)
  /\ UNCHANGED <<schedVars, plan, stalls, workerVars>>

\* The second half of try_submit: the lane accepts the request, or the
\* admission is cancelled.
Send ==
  LET c == client.capability
      r == client.request
  IN  /\ client.step = "send"
      /\ IF Len(lane[c]) < LaneCapacity
           THEN /\ lane' = [lane EXCEPT ![c] = Append(@, r)]
                /\ client' = Idle
                /\ plan' = plan \ {c}
                /\ UNCHANGED schedVars
           ELSE CancelSubmission(c, r) /\ Fail(c) /\ UNCHANGED <<lane, plan>>
      /\ UNCHANGED <<stalls, worker, queue, guard, status>>

\* Faulty: the failed submission is not handed back.
FaultySubmissionFailed ==
  /\ client.step = "failed"
  /\ client' = Idle /\ plan' = plan \ {client.capability}
  /\ UNCHANGED <<schedVars, stalls, workerVars>>

\* mark_submission_failed
SubmissionFailed ==
  LET c == client.capability
  IN  /\ client.step = "failed"
      /\ IF work[c] = Ready THEN RequeuePlanned(c) ELSE UNCHANGED schedVars
      /\ client' = Idle
      /\ plan' = plan \ {c}
      /\ UNCHANGED <<stalls, workerVars>>

-----------------------------------------------------------------------------
(* The application thread: draining and policy. *)

Drain(k) ==
  /\ Turn /\ plan = {} /\ queue[k] # <<>>
  /\ queue' = [queue EXCEPT ![k] = Tail(@)]
  /\ LET e == Head(queue[k])
     IN  client' = IF e.finality = "Terminal"
                     THEN Client("ack", e.capability, e.request) ELSE Idle
  /\ UNCHANGED <<schedVars, plan, stalls, lane, worker, guard, status>>

\* Faulty: the drain does not join the publisher's transaction.
FaultyAcknowledge ==
  LET c == client.capability
      r == client.request
  IN  /\ client.step = "ack"
      /\ IF Claimed(c, r) THEN AcknowledgeTerminal(c, r) ELSE UNCHANGED schedVars
      /\ client' = Idle
      /\ UNCHANGED <<plan, stalls, workerVars>>

\* FairEventPort::deliver waits for the barrier before it acknowledges.
Acknowledge ==
  LET c == client.capability
      r == client.request
  IN  /\ client.step = "ack" /\ guard = Free
      /\ IF Claimed(c, r) THEN AcknowledgeTerminal(c, r) ELSE UNCHANGED schedVars
      /\ client' = Idle
      /\ UNCHANGED <<plan, stalls, workerVars>>

ChangePolicy(c) ==
  /\ Turn /\ plan = {}
  /\ \/ \E new \in Cadences : SetCadence(c, new)
     \/ \E trigger \in {"ExplicitRetry", "CapabilityChanged"} : RequestRecovery(c, trigger)
  /\ UNCHANGED <<clientVars, workerVars>>

-----------------------------------------------------------------------------
(* A provider lane and the publisher it calls. *)

Take(c) ==
  /\ At(c, "idle") /\ lane[c] # <<>>
  /\ Move(c, Worker("running", Head(lane[c]), "None"))
  /\ lane' = [lane EXCEPT ![c] = Tail(@)]
  /\ UNCHANGED <<schedVars, clientVars, queue, guard, status>>

\* publish_progress up to the lease: coalesced when the primary is full.
\* Bound: one undrained progress event per request.
PublishProgress(c) ==
  /\ At(c, "running") /\ TrackingOf[c] = "Target"
  /\ ~IsQueued(c, Serving(c), "Progress") /\ PrimaryHasRoom(ClassOf[c])
  /\ Push(Event(c, Serving(c), "Progress", "primary"))
  /\ StepTo(c, "renewing")
  /\ UNCHANGED <<schedVars, clientVars, lane, guard, status>>

RenewLease(c) ==
  /\ At(c, "renewing")
  /\ IF HasJob(c, Serving(c))
       THEN \E left \in NewLeases : RenewTargetLease(c, Serving(c), left)
       ELSE UNCHANGED schedVars
  /\ StepTo(c, "running")
  /\ UNCHANGED <<clientVars, lane, queue, guard, status>>

\* The provider returns and publish_terminal claims the delivery; a request
\* whose owner was retired meanwhile is a counted no-op.
FinishAndClaim(c, h) ==
  /\ At(c, "running")
  /\ IF CanClaim(c, Serving(c))
       THEN ClaimTerminal(c, Serving(c)) /\ Move(c, Worker("claimed", Serving(c), h))
       ELSE UNCHANGED schedVars /\ Move(c, Resting)
  /\ UNCHANGED <<clientVars, lane, queue, guard, status>>

\* Faulty: two lanes publish at once.
FaultyUnguardedEnqueue(c) ==
  /\ At(c, "claimed")
  /\ guard' = c
  /\ PrimaryHasRoom(ClassOf[c]) \/ MailboxHasRoom
  /\ Push(Event(c, Serving(c), "Terminal",
                IF PrimaryHasRoom(ClassOf[c]) THEN "primary" ELSE "mailbox"))
  /\ StepTo(c, "queued")
  /\ UNCHANGED <<schedVars, clientVars, lane, status>>

\* Faulty: a terminal that had to be retained counts as not delivered.
FaultyRetainedEnqueue(c) ==
  /\ At(c, "claimed") /\ guard = Free
  /\ guard' = c
  /\ IF PrimaryHasRoom(ClassOf[c])
       THEN Push(Event(c, Serving(c), "Terminal", "primary")) /\ StepTo(c, "queued")
       ELSE Push(Event(c, Serving(c), "Terminal", "mailbox")) /\ StepTo(c, "aborting")
  /\ UNCHANGED <<schedVars, clientVars, lane, status>>

\* Under the barrier: primary channel, else mailbox, else the defensive exit.
EnqueueTerminal(c) ==
  /\ At(c, "claimed") /\ guard = Free
  /\ guard' = c
  /\ IF PrimaryHasRoom(ClassOf[c])
       THEN Push(Event(c, Serving(c), "Terminal", "primary")) /\ StepTo(c, "queued")
     ELSE IF MailboxHasRoom
       THEN Push(Event(c, Serving(c), "Terminal", "mailbox")) /\ StepTo(c, "queued")
     ELSE UNCHANGED queue /\ StepTo(c, "aborting")
  /\ UNCHANGED <<schedVars, clientVars, lane, status>>

\* LaneFlow::Stop ends the thread.
AbortAndStop(c) ==
  /\ At(c, "aborting")
  /\ IF Claimed(c, Serving(c)) THEN AbortTerminal(c, Serving(c)) ELSE UNCHANGED schedVars
  /\ Move(c, Worker("stopped", NoRequest, "None"))
  /\ guard' = Free
  /\ UNCHANGED <<clientVars, lane, queue, status>>

\* RuntimeCapabilityCatalog::record, first under the scheduler lock ...
Record(c) ==
  /\ At(c, "queued")
  /\ IF CanRecord(c, Serving(c))
       THEN /\ RecordHealth(c, Serving(c), worker[c].health)
            /\ StepTo(c, "painting")
            /\ UNCHANGED guard
       ELSE UNCHANGED schedVars /\ Move(c, Resting) /\ guard' = Free
  /\ UNCHANGED <<clientVars, lane, queue, status>>

\* Faulty: the barrier stays shut.
FaultyPaint(c) ==
  /\ At(c, "painting")
  /\ status' = [status EXCEPT ![c] = NoRequest]
  /\ Move(c, Resting)
  /\ UNCHANGED <<schedVars, clientVars, lane, queue, guard>>

\* ... then under the descriptor lock, and the barrier opens.
Paint(c) ==
  /\ At(c, "painting")
  /\ status' = [status EXCEPT ![c] = NoRequest]
  /\ Move(c, Resting)
  /\ guard' = Free
  /\ UNCHANGED <<schedVars, clientVars, lane, queue>>

TimePasses == Advance /\ UNCHANGED <<clientVars, workerVars>>

-----------------------------------------------------------------------------
RuntimeInit ==
  /\ Init
  /\ client = Idle /\ plan = {} /\ stalls = {}
  /\ lane = [c \in Capabilities |-> <<>>]
  /\ worker = [c \in Capabilities |-> Resting]
  /\ queue = [k \in Classes |-> <<>>]
  /\ guard = Free
  /\ status = [c \in Capabilities |-> NoRequest]

ClientNext ==
  \/ Poll \/ Repaint \/ Send \/ SubmissionFailed \/ Acknowledge
  \/ \E k \in Classes : Drain(k)
  \/ \E c \in Capabilities :
       \/ StartRefused(c) \/ RefuseManual(c) \/ ChangePolicy(c)
       \/ \E r \in Requests :
            SubmitCapability(c, r) \/ \E s \in Scopes : SubmitTarget(c, r, s)

\* What a lane thread does by itself; how long the provider takes is open.
Serve(c) ==
  \/ RenewLease(c) \/ EnqueueTerminal(c) \/ AbortAndStop(c) \/ Record(c) \/ Paint(c)

WorkerNext(c) ==
  \/ Take(c) \/ Serve(c) \/ PublishProgress(c)
  \/ \E h \in TerminalHealths : FinishAndClaim(c, h)

RuntimeNext ==
  ClientNext \/ (\E c \in Capabilities : WorkerNext(c)) \/ TimePasses

RuntimeSpec == RuntimeInit /\ [][RuntimeNext]_runtimeVars

\* Submitting what a poll planned.
Dispatch ==
  /\ plan # {}
  /\ \E c \in Capabilities :
       \/ StartRefused(c) \/ RefuseManual(c)
       \/ \E r \in Requests :
            SubmitCapability(c, r) \/ \E s \in Scopes : SubmitTarget(c, r, s)

\* Every frontend polls and drains in its frame loop whatever the user does
\* in between (SF); a call that was begun runs to its end; lane threads are
\* scheduled and mutexes are handed on.  A provider may hang and a lane may be
\* left without a thread (LaneStart): nothing is assumed of Take,
\* FinishAndClaim, PublishProgress or the user.
Fairness ==
  /\ WF_runtimeVars(TimePasses)
  /\ SF_runtimeVars(Poll)
  /\ WF_runtimeVars(Repaint \/ Send \/ SubmissionFailed \/ Dispatch)
  /\ SF_runtimeVars(Acknowledge)
  /\ \A k \in Classes : SF_runtimeVars(Drain(k))
  /\ \A c \in Capabilities : SF_runtimeVars(Serve(c))

FairRuntimeSpec == RuntimeSpec /\ Fairness

-----------------------------------------------------------------------------
(* Properties. *)

\* Every thread and queue is in a state the code has, and the barrier is held
\* exactly by a lane between its enqueue and its repaint.
RuntimeTypeOK ==
  /\ client.step \in {"idle", "send", "failed", "ack"}
  /\ plan \subseteq Capabilities
  /\ \A c \in Capabilities :
       /\ Len(lane[c]) <= LaneCapacity
       /\ worker[c] \in [step : {"idle", "running", "renewing", "claimed", "queued",
                                 "aborting", "painting", "stopped"},
                         request : Requests \cup {NoRequest},
                         health : TerminalHealths \cup {"None"}]
       /\ guard = c <=> worker[c].step \in {"queued", "aborting", "painting"}
  /\ \A k \in Classes : Stored(k, "primary") <= PrimaryCapacity

\* An owner of a route or target always holds the delivery permit it was
\* admitted with, although admission, claim, enqueue, record, acknowledgement
\* and abandonment are separate critical sections of three threads.
OwnerHoldsPermit ==
  \A c \in Capabilities, r \in Requests : Owns(c, r) => HasPermit(c, r)

\* Once a terminal is visible to the drain its permit is never open to a
\* second terminal of the same request (a claim after an abort).
VisibleTerminalIsNotReopened ==
  \A c \in Capabilities, r \in Requests :
    IsQueued(c, r, "Terminal") => permits[c][r] # "Active"

\* The consumer is never told of a completion before the scheduler recorded
\* it: whenever a terminal is acknowledged its request owns nothing any more.
AcknowledgedAfterRecord ==
  [][Acknowledge => ~Owns(client.capability, client.request)]_runtimeVars

\* A capability request gives its permit back in the end: drained, cancelled
\* or abandoned, even when the provider hangs for ever.
PermitsAreReturned ==
  \A c \in Capabilities, r \in Requests :
    TrackingOf[c] = "Capability" /\ HasPermit(c, r) ~> ~HasPermit(c, r)

\* A planned route never stays Ready: its submission is admitted or requeued.
ReadyRoutesMoveOn ==
  \A c \in Capabilities : work[c] = Ready ~> work[c] # Ready

(* Statements of the repository's documentation that the code breaks; each *)
(* has a run of its own that finds the violation.                          *)

\* publisher.rs: the enqueue invariant "stays fatal because it is unreachable
\* while the delivery budgets hold": no lane thread is ever stopped by it.
DefensiveExitIsUnreachable ==
  \A c \in Capabilities : worker[c].step \notin {"aborting", "stopped"}

\* EVENT_DELIVERY.md: "once a consumer can observe a terminal event, a
\* subsequent capability snapshot cannot expose the pre-terminal health
\* state": the stall of a request does not show once its terminal is drained
\* and the publication of it has left the barrier.
NoStallAfterTerminal ==
  client.step = "ack" /\ guard = Free => status[client.capability] # client.request
=============================================================================
