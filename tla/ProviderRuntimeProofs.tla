----------------------- MODULE ProviderRuntimeProofs -----------------------
(***************************************************************************)
(* ProviderRuntime for any routes, requests, capacities and budgets.  The  *)
(* composition implements the WorkScheduler, so that what is proved of any *)
(* caller holds of these callers, and the order in which its threads take  *)
(* the scheduler mutex keeps what WorkScheduler alone does not promise:    *)
(* an owner has its permit, and what the consumer has seen is final.       *)
(***************************************************************************)
EXTENDS ProviderRuntime, WorkSchedulerProofs, SequenceTheorems

Events == [capability : Capabilities, request : Requests,
           finality : {"Progress", "Terminal"}, store : {"primary", "mailbox"}]
Threads == [step : {"idle", "running", "renewing", "claimed", "queued",
                    "aborting", "painting", "stopped"},
            request : Requests \cup {NoRequest},
            health : TerminalHealths \cup {"None"}]
Clients == [step : {"idle", "send", "failed", "ack"},
            capability : Capabilities \cup {NoCapability},
            request : Requests \cup {NoRequest}]

Publishing(c) == worker[c].step \in {"queued", "aborting", "painting"}
Busy(c) == worker[c].step \notin {"idle", "stopped"}
Serves(c, r) == Busy(c) /\ Serving(c) = r

ThreadsTyped ==
  /\ client \in Clients
  /\ client.step \in {"send", "ack"} => client.capability \in Capabilities /\ client.request \in Requests
  /\ client.step = "failed" => client.capability \in Capabilities
  /\ plan \subseteq Capabilities
  /\ worker \in [Capabilities -> Threads]
  /\ \A c \in Capabilities :
       /\ Busy(c) => Serving(c) \in Requests
       /\ worker[c].step \in {"claimed", "queued"} => worker[c].health \in TerminalHealths
  /\ lane \in [Capabilities -> Seq(Requests)]
  /\ \A c \in Capabilities : Len(lane[c]) <= LaneCapacity
  /\ queue \in [Classes -> Seq(Events)]
  /\ \A k \in Classes : \A i \in DOMAIN queue[k] : ClassOf[queue[k][i].capability] = k
  /\ guard \in Capabilities \cup {NoCapability}

BarrierIsHeld == \A c \in Capabilities : guard = c <=> Publishing(c)

-----------------------------------------------------------------------------
(* The composition takes steps of the scheduler.                           *)

LEMMA RuntimeStepIsSchedulerStep ==
  ThreadsTyped /\ [RuntimeNext]_runtimeVars => [Next]_schedVars
<1> SUFFICES ASSUME ThreadsTyped, [RuntimeNext]_runtimeVars PROVE Next \/ UNCHANGED schedVars
  OBVIOUS
<1>1. CASE Poll
  BY <1>1 DEF Poll, Next
<1>2. CASE Send
  <2>1. client.capability \in Capabilities /\ client.request \in Requests
    BY <1>2 DEF Send, ThreadsTyped
  <2> QED
    BY <1>2, <2>1 DEF Send, Next, Call
<1>3. CASE SubmissionFailed
  <2>1. client.capability \in Capabilities
    BY <1>3 DEF SubmissionFailed, ThreadsTyped
  <2> QED
    BY <1>3, <2>1 DEF SubmissionFailed, Next, Policy
<1>4. CASE Acknowledge
  <2>1. client.capability \in Capabilities /\ client.request \in Requests
    BY <1>4 DEF Acknowledge, ThreadsTyped
  <2> QED
    BY <1>4, <2>1 DEF Acknowledge, Next, Call
<1>5. ASSUME NEW c \in Capabilities, ChangePolicy(c) PROVE Next
  BY <1>5 DEF ChangePolicy, Next, Policy
<1>6. ASSUME NEW c \in Capabilities, NEW r \in Requests,
             SubmitCapability(c, r) \/ \E s \in Scopes : SubmitTarget(c, r, s)
      PROVE  Next \/ UNCHANGED schedVars
  BY <1>6 DEF SubmitCapability, SubmitTarget, Next, Call
<1>7. ASSUME NEW c \in Capabilities, WorkerNext(c) PROVE Next \/ UNCHANGED schedVars
  <2>1. CASE RenewLease(c)
    BY <1>7, <2>1 DEF RenewLease, ThreadsTyped, Busy, At, Next, Call
  <2>2. CASE AbortAndStop(c)
    BY <1>7, <2>2 DEF AbortAndStop, ThreadsTyped, Busy, At, Next, Call
  <2>3. CASE Record(c)
    <3>1. Serving(c) \in Requests /\ worker[c].health \in Healths
      BY <2>3, RuntimeConstants DEF Record, ThreadsTyped, Busy, At
    <3> QED
      BY <2>3, <3>1 DEF Record, Next, Call
  <2>4. ASSUME NEW h \in TerminalHealths, FinishAndClaim(c, h) PROVE Next \/ UNCHANGED schedVars
    BY <1>7, <2>4 DEF FinishAndClaim, ThreadsTyped, Busy, At, Next, Call
  <2>5. CASE Take(c) \/ PublishProgress(c) \/ EnqueueTerminal(c) \/ Paint(c)
    BY <2>5 DEF Take, PublishProgress, EnqueueTerminal, Paint
  <2> QED
    BY <1>7, <2>1, <2>2, <2>3, <2>4, <2>5 DEF WorkerNext, Serve
<1>8. CASE TimePasses
  BY <1>8 DEF TimePasses, Next
<1>9. CASE \/ Repaint \/ \E k \in Classes : Drain(k)
           \/ \E c \in Capabilities : StartRefused(c) \/ RefuseManual(c)
  BY <1>9 DEF Repaint, Drain, StartRefused, RefuseManual
<1>10. CASE UNCHANGED runtimeVars
  BY <1>10 DEF runtimeVars
<1> QED
  BY <1>1, <1>2, <1>3, <1>4, <1>5, <1>6, <1>7, <1>8, <1>9, <1>10 DEF RuntimeNext, ClientNext

-----------------------------------------------------------------------------
(* What a step of the scheduler does to owners and permits.                *)

\* A route tracks its requests by the route or by target, never both.
Exclusive ==
  \A c \in Capabilities, r \in Requests :
    /\ HasJob(c, r) => TrackingOf[c] = "Target"
    /\ OwnedBy(work[c], r) => TrackingOf[c] = "Capability"

\* Nobody becomes an owner, and a permit that goes leaves no owner behind.
Shrinks ==
  \A c \in Capabilities, r \in Requests :
    /\ HasJob(c, r)' => HasJob(c, r)
    /\ OwnedBy(work[c], r)' => OwnedBy(work[c], r)
    /\ permits'[c][r] = permits[c][r] \/ (permits'[c][r] = "None" /\ ~Owns(c, r)')

LEMMA UnownedStates ==
  \A r \in Requests : /\ ~OwnedBy(Waiting, r) /\ ~OwnedBy(Ready, r)
                      /\ ~OwnedBy(Permanent, r) /\ ~OwnedBy(AwaitingChange, r)
  BY DEF OwnedBy, Waiting, Ready, Permanent, AwaitingChange, State

LEMMA TickShrinks ==
  ASSUME TypeOK, Exclusive, Tick PROVE Shrinks
<1> SUFFICES ASSUME NEW c \in Capabilities, NEW r \in Requests
             PROVE  /\ HasJob(c, r)' => HasJob(c, r)
                    /\ OwnedBy(work[c], r)' => OwnedBy(work[c], r)
                    /\ permits'[c][r] = permits[c][r]
                         \/ (permits'[c][r] = "None" /\ ~Owns(c, r)')
  BY DEF Shrinks
<1>1. HasJob(c, r)' => HasJob(c, r) /\ <<c, r>> \notin AbandonedJobs
  BY DEF Tick, HasJob, NoJob, Job
<1>2. OwnedBy(work[c], r)' => OwnedBy(work[c], r) /\ c \notin AbandonedRoutes
  <2>1. work'[c] \in {Ready, Waiting} \/ (c \notin AbandonedRoutes /\ work'[c] = ExpireLease(work[c]))
    BY DEF Tick, LeftBy
  <2>2. OwnedBy(ExpireLease(work[c]), r) => OwnedBy(work[c], r)
    BY DEF ExpireLease, Stalled, State, OwnedBy
  <2> QED
    BY <2>1, <2>2, UnownedStates
<1>3. CASE <<c, r>> \in AbandonedJobs
  <2>1. HasJob(c, r) /\ permits'[c][r] = "None"
    BY <1>3 DEF Tick, AbandonedJobs, JobsIn, RetiredKeys
  <2>2. ~OwnedBy(work[c], r)
    BY <2>1, RuntimeConstants DEF Exclusive
  <2> QED
    BY <1>1, <1>2, <1>3, <2>1, <2>2 DEF Owns
<1>4. CASE c \in AbandonedRoutes /\ work[c].request = r
  <2>1. OwnedBy(work[c], r)
    <3>1. Proper(work[c]) /\ Abandonable(ExpireLease(work[c]))
      BY <1>4, TypeOKParts DEF AbandonedRoutes
    <3> QED
      BY <1>4, <3>1, ValidatedBudgets
         DEF Abandonable, ExpireLease, Stalled, State, OwnedBy
  <2>2. ~HasJob(c, r)
    BY <2>1, RuntimeConstants DEF Exclusive
  <2>3. permits'[c][r] = "None"
    BY <1>4 DEF Tick, RetiredKeys
  <2> QED
    BY <1>1, <1>2, <1>4, <2>2, <2>3 DEF Owns
<1>5. CASE <<c, r>> \notin RetiredKeys
  BY <1>1, <1>2, <1>5 DEF Tick
<1> QED
  BY <1>3, <1>4, <1>5 DEF RetiredKeys

\* A finished request is settled as a job or as the owner of its route; either
\* way it owns nothing more.
LEMMA SettledOwnsNothing ==
  ASSUME TypeOK, Exclusive, NEW c \in Capabilities, NEW r \in Requests, Owns(c, r),
         IF HasJob(c, r)
           THEN RemoveJob(c, r) /\ UNCHANGED work
           ELSE UNCHANGED jobs /\ \E next : /\ work' = [work EXCEPT ![c] = next]
                                            /\ \A q \in Requests : ~OwnedBy(next, q)
  PROVE  /\ ~Owns(c, r)'
         /\ \A d \in Capabilities, q \in Requests :
              /\ HasJob(d, q)' => HasJob(d, q)
              /\ OwnedBy(work[d], q)' => OwnedBy(work[d], q)
<1>1. CASE HasJob(c, r)
  <2>1. jobs' = [jobs EXCEPT ![c][r] = NoJob] /\ work' = work /\ NoJob.scope = NoScope
    BY <1>1 DEF RemoveJob, NoJob, Job
  <2>2. ~OwnedBy(work[c], r)
    BY <1>1, RuntimeConstants DEF Exclusive
  <2> QED
    BY <2>1, <2>2 DEF Owns, HasJob, TypeOK
<1>2. CASE ~HasJob(c, r)
  <2>1. PICK next : work' = [work EXCEPT ![c] = next] /\ \A q \in Requests : ~OwnedBy(next, q)
    BY <1>2
  <2>2. jobs' = jobs
    BY <1>2
  <2>3. \A d \in Capabilities : work'[d] = IF d = c THEN next ELSE work[d]
    BY <2>1 DEF TypeOK
  <2> QED
    BY <1>2, <2>1, <2>2, <2>3 DEF Owns, HasJob
<1> QED
  BY <1>1, <1>2

LEMMA RecordShrinks ==
  ASSUME TypeOK, Exclusive, NEW c \in Capabilities, NEW r \in Requests, NEW h,
         RecordHealth(c, r, h)
  PROVE  Shrinks /\ ~Owns(c, r)'
<1>1. \A q \in Requests : ~OwnedBy(NextWork(h), q)
  BY UnownedStates DEF NextWork
<1>2. permits' = permits /\ Owns(c, r)
  BY DEF RecordHealth, CanRecord
<1>3. ~Owns(c, r)' /\ \A d \in Capabilities, q \in Requests :
        (HasJob(d, q)' => HasJob(d, q)) /\ (OwnedBy(work[d], q)' => OwnedBy(work[d], q))
  BY <1>1, <1>2, SettledOwnsNothing DEF RecordHealth, Settle, registry
<1> QED
  BY <1>2, <1>3 DEF Shrinks

LEMMA CancelShrinks ==
  ASSUME TypeOK, Exclusive, NEW c \in Capabilities, NEW r \in Requests, CancelSubmission(c, r)
  PROVE  Shrinks
<1>1. Owns(c, r) /\ permits' = [permits EXCEPT ![c][r] = "None"]
  BY DEF CancelSubmission, SetPermit
<1>2. ~Owns(c, r)' /\ \A d \in Capabilities, q \in Requests :
        (HasJob(d, q)' => HasJob(d, q)) /\ (OwnedBy(work[d], q)' => OwnedBy(work[d], q))
  BY <1>1, UnownedStates, SettledOwnsNothing DEF CancelSubmission, Settle, registry
<1> QED
  BY <1>1, <1>2 DEF Shrinks, TypeOK

LEMMA AcknowledgeShrinks ==
  ASSUME TypeOK, NEW c \in Capabilities, NEW r \in Requests,
         AcknowledgeTerminal(c, r), ~Owns(c, r)
  PROVE  Shrinks
  BY DEF AcknowledgeTerminal, SetPermit, Shrinks, Owns, HasJob, registry, TypeOK

LEMMA RestShrinks ==
  ASSUME TypeOK,
         \/ UNCHANGED schedVars \/ Advance
         \/ \E c \in Capabilities : Policy(c)
         \/ \E c \in Capabilities, r \in Requests : \E left \in NewLeases :
              RenewTargetLease(c, r, left)
  PROVE  Shrinks
<1>1. CASE UNCHANGED schedVars
  BY <1>1 DEF schedVars, Shrinks, HasJob
<1>2. CASE Advance
  <2>1. permits' = permits
    BY <1>2 DEF Advance
  <2>2. \A c \in Capabilities, r \in Requests : jobs'[c][r].scope = jobs[c][r].scope
    BY <1>2 DEF Advance, Job
  <2>3. \A c \in Capabilities, r \in Requests :
          OwnedBy(work[c], r)' => OwnedBy(work[c], r)
    <3>1. \A c \in Capabilities : /\ work'[c].kind = work[c].kind
                                  /\ work'[c].request = work[c].request
      BY <1>2 DEF Advance, Elapse, TypeOK, WorkStates
    <3> QED
      BY <3>1 DEF OwnedBy
  <2> QED
    BY <2>1, <2>2, <2>3 DEF Shrinks, HasJob
<1>3. ASSUME NEW c \in Capabilities, Policy(c) PROVE Shrinks
  <2>1. permits' = permits /\ jobs' = jobs
    BY <1>3 DEF Policy, RequeuePlanned, SetCadence, RequestRecovery, registry
  <2>2. work' = work \/ work' = [work EXCEPT ![c] = Waiting]
    BY <1>3 DEF Policy, RequeuePlanned, SetCadence, RequestRecovery, Settle
  <2> QED
    BY <2>1, <2>2, UnownedStates DEF Shrinks, HasJob, TypeOK
<1>4. ASSUME NEW c \in Capabilities, NEW r \in Requests, NEW left \in NewLeases,
             RenewTargetLease(c, r, left)
      PROVE  Shrinks
  <2>1. permits' = permits /\ work' = work
    BY <1>4 DEF RenewTargetLease
  <2>2. \A d \in Capabilities, q \in Requests : jobs'[d][q].scope = jobs[d][q].scope
    BY <1>4 DEF RenewTargetLease, TypeOK
  <2> QED
    BY <2>1, <2>2 DEF Shrinks, HasJob
<1> QED
  BY <1>1, <1>2, <1>3, <1>4

-----------------------------------------------------------------------------
(* The threads and their queues.                                           *)

LEMMA ThreadValues ==
  /\ Idle \in Clients
  /\ \A c \in Capabilities, r \in Requests :
       Client("send", c, r) \in Clients /\ Client("ack", c, r) \in Clients
  /\ \A c \in Capabilities : Client("failed", c, NoRequest) \in Clients
  /\ Resting \in Threads /\ Worker("stopped", NoRequest, "None") \in Threads
  /\ \A r \in Requests : Worker("running", r, "None") \in Threads
  /\ \A r \in Requests, h \in TerminalHealths : Worker("claimed", r, h) \in Threads
  /\ \A c \in Capabilities, r \in Requests, f \in {"Progress", "Terminal"},
        s \in {"primary", "mailbox"} : Event(c, r, f, s) \in Events
  BY DEF Idle, Client, Clients, Resting, Worker, Threads, Event, Events

LEMMA FailedCall ==
  ASSUME NEW c \in Capabilities, Fail(c)
  PROVE  /\ client' \in Clients
         /\ client'.step \in {"idle", "failed"}
         /\ client'.step = "failed" => client'.capability \in Capabilities
  BY ThreadValues DEF Fail, Client, Idle

LEMMA AppendKeeps ==
  ASSUME NEW S, NEW q \in Seq(S), NEW e \in S
  PROVE  /\ Append(q, e) \in Seq(S)
         /\ Len(Append(q, e)) = Len(q) + 1
         /\ DOMAIN Append(q, e) = 1 .. Len(q) + 1 /\ DOMAIN q = 1 .. Len(q)
         /\ \A i \in 1 .. Len(q) : Append(q, e)[i] = q[i]
         /\ Append(q, e)[Len(q) + 1] = e
  BY AppendProperties, LenProperties

LEMMA TailKeeps ==
  ASSUME NEW S, NEW q \in Seq(S), q # <<>>
  PROVE  /\ Head(q) \in S /\ Head(q) = q[1] /\ 1 \in DOMAIN q
         /\ Tail(q) \in Seq(S)
         /\ Len(Tail(q)) = Len(q) - 1
         /\ DOMAIN Tail(q) = 1 .. Len(q) - 1 /\ DOMAIN q = 1 .. Len(q)
         /\ \A i \in 1 .. Len(q) - 1 : Tail(q)[i] = q[i + 1]
<1>1. Len(q) \in Nat \ {0} /\ DOMAIN q = 1 .. Len(q)
  BY EmptySeq, LenProperties
<1>2. /\ Tail(q) \in Seq(S) /\ Len(Tail(q)) = Len(q) - 1 /\ Head(q) \in S
      /\ \A i \in 1 .. Len(Tail(q)) : Tail(q)[i] = q[i + 1]
  BY HeadTailProperties
<1>3. DOMAIN Tail(q) = 1 .. Len(q) - 1
  BY <1>2, LenProperties
<1>4. Head(q) = q[1]
  BY <1>1
<1> QED
  BY <1>1, <1>2, <1>3, <1>4

\* What each thread does to its own variables, by the threads that stay as
\* they are.
LEMMA ClientStepTyped ==
  ThreadsTyped /\ ClientNext => ThreadsTyped'
<1> SUFFICES ASSUME ThreadsTyped, ClientNext PROVE ThreadsTyped'
  OBVIOUS
<1> USE ThreadValues
<1>1. CASE Poll
  BY <1>1 DEF Poll, Planned, workerVars, ThreadsTyped, Busy, Serving
<1>2. CASE Repaint
  BY <1>2 DEF Repaint, ThreadsTyped, Busy, Serving
<1>3. CASE Send
  <2>1. client.capability \in Capabilities /\ client.request \in Requests
    BY <1>3 DEF Send, ThreadsTyped
  <2>2. /\ client' \in Clients /\ client'.step \in {"idle", "failed"}
        /\ client'.step = "failed" => client'.capability \in Capabilities
    BY <1>3, <2>1, FailedCall DEF Send, Idle, Client
  <2>3. /\ lane' \in [Capabilities -> Seq(Requests)]
        /\ \A c \in Capabilities : Len(lane'[c]) <= LaneCapacity
    <3>1. /\ Append(lane[client.capability], client.request) \in Seq(Requests)
          /\ Len(Append(lane[client.capability], client.request))
               = Len(lane[client.capability]) + 1
          /\ Len(lane[client.capability]) \in Nat
      BY <2>1, AppendKeeps, LenProperties DEF ThreadsTyped
    <3>2. \/ lane' = lane
          \/ /\ Len(lane[client.capability]) < LaneCapacity
             /\ lane' = [lane EXCEPT ![client.capability] =
                           Append(lane[client.capability], client.request)]
      BY <1>3 DEF Send
    <3>3. Len(lane[client.capability]) < LaneCapacity =>
            Len(Append(lane[client.capability], client.request)) <= LaneCapacity
      BY <3>1, RuntimeConstants
    <3> DEFINE longer == Append(lane[client.capability], client.request)
    <3> HIDE DEF longer
    <3>4. CASE lane' = [lane EXCEPT ![client.capability] = longer]
               /\ longer \in Seq(Requests) /\ Len(longer) <= LaneCapacity
      BY <2>1, <3>4 DEF ThreadsTyped
    <3> QED
      BY <3>1, <3>2, <3>3, <3>4 DEF ThreadsTyped, longer
  <2>4. plan' \subseteq plan
    BY <1>3 DEF Send
  <2> QED
    BY <1>3, <2>2, <2>3, <2>4 DEF Send, ThreadsTyped, Busy, Serving
<1>4. CASE SubmissionFailed
  BY <1>4 DEF SubmissionFailed, ThreadsTyped, Busy, Serving, workerVars, Idle, Client
<1>5. CASE Acknowledge
  BY <1>5 DEF Acknowledge, ThreadsTyped, Busy, Serving, workerVars, Idle, Client
<1>6. ASSUME NEW k \in Classes, Drain(k) PROVE ThreadsTyped'
  <2>1. queue[k] \in Seq(Events) /\ queue[k] # <<>>
    BY <1>6 DEF Drain, ThreadsTyped
  <2>2. /\ Head(queue[k]) \in Events /\ Tail(queue[k]) \in Seq(Events)
        /\ DOMAIN Tail(queue[k]) = 1 .. Len(queue[k]) - 1
        /\ DOMAIN queue[k] = 1 .. Len(queue[k])
        /\ \A i \in 1 .. Len(queue[k]) - 1 : Tail(queue[k])[i] = queue[k][i + 1]
        /\ Len(queue[k]) \in Nat
    BY <2>1, TailKeeps, LenProperties
  <2>3. client' \in Clients /\ client'.step \in {"idle", "ack"}
        /\ (client'.step = "ack" =>
              client'.capability \in Capabilities /\ client'.request \in Requests)
    <3>1. Head(queue[k]).capability \in Capabilities /\ Head(queue[k]).request \in Requests
      BY <2>2 DEF Events
    <3> QED
      BY <1>6, <3>1 DEF Drain, Idle, Client
  <2>4. queue' = [queue EXCEPT ![k] = Tail(queue[k])]
    BY <1>6 DEF Drain
  <2>5. \A i \in DOMAIN Tail(queue[k]) : ClassOf[Tail(queue[k])[i].capability] = k
    BY <2>2 DEF ThreadsTyped
  <2>6. /\ queue' \in [Classes -> Seq(Events)]
        /\ \A j \in Classes : \A i \in DOMAIN queue'[j] : ClassOf[queue'[j][i].capability] = j
    BY <2>2, <2>4, <2>5 DEF ThreadsTyped
  <2> QED
    BY <1>6, <2>3, <2>6 DEF Drain, ThreadsTyped, Busy, Serving
<1>7. ASSUME NEW c \in Capabilities, StartRefused(c) \/ RefuseManual(c) \/ ChangePolicy(c)
      PROVE  ThreadsTyped'
  BY <1>7, FailedCall
     DEF StartRefused, RefuseManual, ChangePolicy, ThreadsTyped, Busy, Serving, workerVars, clientVars
<1>8. ASSUME NEW c \in Capabilities, NEW r \in Requests,
             SubmitCapability(c, r) \/ \E s \in Scopes : SubmitTarget(c, r, s)
      PROVE  ThreadsTyped'
  <2>1. /\ client' \in Clients /\ client'.step \in {"send", "idle", "failed"}
        /\ client'.step = "send" =>
             client'.capability \in Capabilities /\ client'.request \in Requests
        /\ client'.step = "failed" => client'.capability \in Capabilities
    <3>1. client' = Client("send", c, r) \/ Fail(c)
      BY <1>8 DEF SubmitCapability, SubmitTarget
    <3>2. CASE client' = Client("send", c, r)
      BY <3>2 DEF Client
    <3> QED
      BY <3>1, <3>2, FailedCall
  <2>2. worker' = [worker EXCEPT ![c] = IF At(c, "stopped") THEN Resting ELSE @]
    BY <1>8 DEF SubmitCapability, SubmitTarget, EnsureStarted
  <2>3. worker' \in [Capabilities -> Threads]
        /\ \A d \in Capabilities :
             /\ worker'[d].step \notin {"idle", "stopped"} => worker'[d].request \in Requests
             /\ worker'[d].step \in {"claimed", "queued"} => worker'[d].health \in TerminalHealths
    BY <2>2 DEF ThreadsTyped, Busy, Serving, Resting, Worker
  <2>4. UNCHANGED <<plan, lane, queue, guard>>
    BY <1>8 DEF SubmitCapability, SubmitTarget
  <2> QED
    BY <2>1, <2>3, <2>4 DEF ThreadsTyped, Busy, Serving
<1> QED
  BY <1>1, <1>2, <1>3, <1>4, <1>5, <1>6, <1>7, <1>8 DEF ClientNext

\* A lane thread that moves to a state of its own.
LEMMA MoveTyped ==
  ASSUME ThreadsTyped, NEW c \in Capabilities, NEW next \in Threads,
         next.step \notin {"idle", "stopped"} => next.request \in Requests,
         next.step \in {"claimed", "queued"} => next.health \in TerminalHealths,
         worker' = [worker EXCEPT ![c] = next]
  PROVE  /\ worker' \in [Capabilities -> Threads]
         /\ \A d \in Capabilities :
              /\ Busy(d)' => Serving(d)' \in Requests
              /\ worker'[d].step \in {"claimed", "queued"} => worker'[d].health \in TerminalHealths
<1>1. \A d \in Capabilities : worker'[d] = IF d = c THEN next ELSE worker[d]
  BY DEF ThreadsTyped
<1> QED
  BY <1>1 DEF ThreadsTyped, Busy, Serving

\* EXCEPT ![c].step = step, as a value.
LEMMA SteppedThread ==
  ASSUME ThreadsTyped, NEW c \in Capabilities, NEW step, StepTo(c, step)
  PROVE  worker' = [worker EXCEPT ![c] = Worker(step, worker[c].request, worker[c].health)]
<1>1. worker[c] \in Threads
  BY DEF ThreadsTyped
<1>2. [worker[c] EXCEPT !.step = step] = Worker(step, worker[c].request, worker[c].health)
  BY <1>1 DEF Threads, Worker
<1> QED
  BY <1>2 DEF StepTo

LEMMA SteppedTyped ==
  ASSUME ThreadsTyped, NEW c \in Capabilities, Busy(c), NEW step,
         step \in {"running", "renewing", "queued", "aborting", "painting"},
         step = "queued" => worker[c].step = "claimed",
         StepTo(c, step)
  PROVE  /\ worker' \in [Capabilities -> Threads]
         /\ \A d \in Capabilities :
              /\ Busy(d)' => Serving(d)' \in Requests
              /\ worker'[d].step \in {"claimed", "queued"} => worker'[d].health \in TerminalHealths
<1> DEFINE next == Worker(step, worker[c].request, worker[c].health)
<1>1. worker[c] \in Threads /\ worker[c].request \in Requests
      /\ (step = "queued" => worker[c].health \in TerminalHealths)
  BY DEF ThreadsTyped, Busy, Serving
<1>2. /\ next \in Threads /\ next.request \in Requests /\ next.step = step
      /\ next.health = worker[c].health
  BY <1>1 DEF Worker, Threads
<1>3. worker' = [worker EXCEPT ![c] = next]
  BY SteppedThread
<1> HIDE DEF next
<1> QED
  BY <1>1, <1>2, <1>3, MoveTyped

LEMMA PushTyped ==
  ASSUME ThreadsTyped, NEW event \in Events, Push(event)
  PROVE  /\ queue' \in [Classes -> Seq(Events)]
         /\ \A k \in Classes : \A i \in DOMAIN queue'[k] : ClassOf[queue'[k][i].capability] = k
<1> DEFINE k == ClassOf[event.capability]
           longer == Append(queue[k], event)
<1>1. event.capability \in Capabilities /\ k \in Classes
  BY SchedulerConstants DEF Events, Classes
<1>2. /\ longer \in Seq(Events)
      /\ DOMAIN longer = 1 .. Len(queue[k]) + 1 /\ DOMAIN queue[k] = 1 .. Len(queue[k])
      /\ \A i \in 1 .. Len(queue[k]) : longer[i] = queue[k][i]
      /\ longer[Len(queue[k]) + 1] = event
      /\ Len(queue[k]) \in Nat
  BY <1>1, AppendKeeps, LenProperties DEF ThreadsTyped
<1>3. \A i \in DOMAIN longer : ClassOf[longer[i].capability] = k
  <2> SUFFICES ASSUME NEW i \in 1 .. Len(queue[k]) + 1 PROVE ClassOf[longer[i].capability] = k
    BY <1>2
  <2>1. i \in 1 .. Len(queue[k]) \/ i = Len(queue[k]) + 1
    BY <1>2
  <2> QED
    BY <1>1, <1>2, <2>1 DEF ThreadsTyped
<1>4. queue' = [queue EXCEPT ![k] = longer]
  BY DEF Push
<1> HIDE DEF longer
<1> QED
  BY <1>1, <1>2, <1>3, <1>4 DEF ThreadsTyped

LEMMA WorkerStepTyped ==
  ASSUME ThreadsTyped, NEW c \in Capabilities, WorkerNext(c)
  PROVE  ThreadsTyped'
<1> USE ThreadValues
<1>1. CASE Take(c)
  <2>1. lane[c] \in Seq(Requests) /\ lane[c] # <<>>
    BY <1>1 DEF Take, ThreadsTyped
  <2>2. /\ Head(lane[c]) \in Requests /\ Tail(lane[c]) \in Seq(Requests)
        /\ Len(Tail(lane[c])) = Len(lane[c]) - 1 /\ Len(lane[c]) \in Nat
    BY <2>1, TailKeeps, LenProperties
  <2>3. /\ lane' \in [Capabilities -> Seq(Requests)]
        /\ \A d \in Capabilities : Len(lane'[d]) <= LaneCapacity
    <3> DEFINE rest == Tail(lane[c])
    <3>1. lane' = [lane EXCEPT ![c] = rest]
      BY <1>1 DEF Take
    <3>2. rest \in Seq(Requests) /\ Len(rest) <= LaneCapacity
      BY <2>2, RuntimeConstants DEF ThreadsTyped
    <3> HIDE DEF rest
    <3> QED
      BY <3>1, <3>2 DEF ThreadsTyped
  <2>4. Worker("running", Head(lane[c]), "None") \in Threads
        /\ Worker("running", Head(lane[c]), "None").request \in Requests
        /\ Worker("running", Head(lane[c]), "None").step = "running"
    BY <2>2 DEF Worker
  <2>5. /\ worker' \in [Capabilities -> Threads]
        /\ \A d \in Capabilities :
             /\ Busy(d)' => Serving(d)' \in Requests
             /\ worker'[d].step \in {"claimed", "queued"} => worker'[d].health \in TerminalHealths
    BY <1>1, <2>4, MoveTyped DEF Take, Move
  <2> QED
    BY <1>1, <2>3, <2>5 DEF Take, ThreadsTyped, clientVars
<1>2. CASE PublishProgress(c)
  <2>1. Event(c, Serving(c), "Progress", "primary") \in Events
    BY <1>2 DEF PublishProgress, ThreadsTyped, Busy, At
  <2>2. /\ queue' \in [Classes -> Seq(Events)]
        /\ \A k \in Classes : \A i \in DOMAIN queue'[k] : ClassOf[queue'[k][i].capability] = k
    BY <1>2, <2>1, PushTyped DEF PublishProgress
  <2>3. /\ worker' \in [Capabilities -> Threads]
        /\ \A d \in Capabilities :
             /\ Busy(d)' => Serving(d)' \in Requests
             /\ worker'[d].step \in {"claimed", "queued"} => worker'[d].health \in TerminalHealths
    BY <1>2, SteppedTyped DEF PublishProgress, Busy, At
  <2> QED
    BY <1>2, <2>2, <2>3 DEF PublishProgress, ThreadsTyped, clientVars
<1>3. CASE RenewLease(c)
  <2>1. /\ worker' \in [Capabilities -> Threads]
        /\ \A d \in Capabilities :
             /\ Busy(d)' => Serving(d)' \in Requests
             /\ worker'[d].step \in {"claimed", "queued"} => worker'[d].health \in TerminalHealths
    BY <1>3, SteppedTyped DEF RenewLease, Busy, At
  <2> QED
    BY <1>3, <2>1 DEF RenewLease, ThreadsTyped, clientVars
<1>4. ASSUME NEW h \in TerminalHealths, FinishAndClaim(c, h) PROVE ThreadsTyped'
  <2>1. Serving(c) \in Requests
    BY <1>4 DEF FinishAndClaim, ThreadsTyped, Busy, At
  <2>2. /\ Worker("claimed", Serving(c), h).request \in Requests
        /\ Worker("claimed", Serving(c), h).health \in TerminalHealths
        /\ Resting.step = "idle"
    BY <2>1 DEF Worker, Resting
  <2>3. /\ worker' \in [Capabilities -> Threads]
        /\ \A d \in Capabilities :
             /\ Busy(d)' => Serving(d)' \in Requests
             /\ worker'[d].step \in {"claimed", "queued"} => worker'[d].health \in TerminalHealths
    BY <1>4, <2>1, <2>2, MoveTyped DEF FinishAndClaim, Move
  <2> QED
    BY <1>4, <2>3 DEF FinishAndClaim, ThreadsTyped, clientVars
<1>5. CASE EnqueueTerminal(c)
  <2>1. \A s \in {"primary", "mailbox"} : Event(c, Serving(c), "Terminal", s) \in Events
    BY <1>5 DEF EnqueueTerminal, ThreadsTyped, Busy, At
  <2>2. /\ queue' \in [Classes -> Seq(Events)]
        /\ \A k \in Classes : \A i \in DOMAIN queue'[k] : ClassOf[queue'[k][i].capability] = k
    <3>1. queue' = queue \/ \E s \in {"primary", "mailbox"} :
            Push(Event(c, Serving(c), "Terminal", s))
      BY <1>5 DEF EnqueueTerminal
    <3>2. CASE queue' = queue
      BY <3>2 DEF ThreadsTyped
    <3> QED
      BY <2>1, <3>1, <3>2, PushTyped
  <2>3. /\ worker' \in [Capabilities -> Threads]
        /\ \A d \in Capabilities :
             /\ Busy(d)' => Serving(d)' \in Requests
             /\ worker'[d].step \in {"claimed", "queued"} => worker'[d].health \in TerminalHealths
    BY <1>5, SteppedTyped DEF EnqueueTerminal, Busy, At
  <2> QED
    BY <1>5, <2>2, <2>3 DEF EnqueueTerminal, ThreadsTyped, clientVars
<1>6. CASE AbortAndStop(c)
  <2>1. Worker("stopped", NoRequest, "None").step = "stopped"
    BY DEF Worker
  <2>2. /\ worker' \in [Capabilities -> Threads]
        /\ \A d \in Capabilities :
             /\ Busy(d)' => Serving(d)' \in Requests
             /\ worker'[d].step \in {"claimed", "queued"} => worker'[d].health \in TerminalHealths
    BY <1>6, <2>1, MoveTyped DEF AbortAndStop, Move
  <2> QED
    BY <1>6, <2>2 DEF AbortAndStop, ThreadsTyped, clientVars, Free
<1>7. CASE Record(c)
  <2>1. Resting.step = "idle"
    BY DEF Resting, Worker
  <2>2. /\ worker' \in [Capabilities -> Threads]
        /\ \A d \in Capabilities :
             /\ Busy(d)' => Serving(d)' \in Requests
             /\ worker'[d].step \in {"claimed", "queued"} => worker'[d].health \in TerminalHealths
    <3>1. Move(c, Resting) \/ (StepTo(c, "painting") /\ Busy(c))
      BY <1>7 DEF Record, Busy, At
    <3> QED
      BY <2>1, <3>1, MoveTyped, SteppedTyped DEF Move
  <2> QED
    BY <1>7, <2>2 DEF Record, ThreadsTyped, clientVars, Free
<1>8. CASE Paint(c)
  <2>1. Resting.step = "idle"
    BY DEF Resting, Worker
  <2>2. /\ worker' \in [Capabilities -> Threads]
        /\ \A d \in Capabilities :
             /\ Busy(d)' => Serving(d)' \in Requests
             /\ worker'[d].step \in {"claimed", "queued"} => worker'[d].health \in TerminalHealths
    BY <1>8, <2>1, MoveTyped DEF Paint, Move
  <2> QED
    BY <1>8, <2>2 DEF Paint, ThreadsTyped, clientVars, Free
<1> QED
  BY <1>1, <1>2, <1>3, <1>4, <1>5, <1>6, <1>7, <1>8 DEF WorkerNext, Serve

LEMMA ThreadsTypedInit == RuntimeInit => ThreadsTyped
  BY ThreadValues, SchedulerConstants, RuntimeConstants, EmptySeq
     DEF RuntimeInit, ThreadsTyped, Idle, Client, Resting, Worker, Busy, Free, Classes

LEMMA ThreadsTypedStep == ThreadsTyped /\ [RuntimeNext]_runtimeVars => ThreadsTyped'
<1> SUFFICES ASSUME ThreadsTyped, [RuntimeNext]_runtimeVars PROVE ThreadsTyped'
  OBVIOUS
<1>1. CASE TimePasses \/ UNCHANGED runtimeVars
  BY <1>1 DEF TimePasses, runtimeVars, clientVars, workerVars, ThreadsTyped, Busy, Serving
<1> QED
  BY <1>1, ClientStepTyped, WorkerStepTyped DEF RuntimeNext

\* The threads of a runtime, whatever they interleave, make calls that the
\* scheduler alone allows: every theorem about Spec holds of the composition.
THEOREM RuntimeImplementsScheduler == RuntimeSpec => Spec
<1>1. RuntimeInit => Init
  BY DEF RuntimeInit
<1> QED
  BY <1>1, ThreadsTypedInit, ThreadsTypedStep, RuntimeStepIsSchedulerStep, PTL DEF RuntimeSpec, Spec

-----------------------------------------------------------------------------
(* The publication barrier and the primary channels.                       *)

LEMMA BarrierInit == RuntimeInit => BarrierIsHeld
  BY RuntimeConstants DEF RuntimeInit, BarrierIsHeld, Publishing, Resting, Worker, Free

\* A lane thread at c moves to a step, and takes, keeps or opens the barrier.
LEMMA BarrierMove ==
  ASSUME ThreadsTyped, BarrierIsHeld, NEW c \in Capabilities, NEW step,
         \A d \in Capabilities : worker'[d].step = IF d = c THEN step ELSE worker[d].step,
         \/ guard' = guard /\ (Publishing(c) <=> step \in {"queued", "aborting", "painting"})
         \/ guard = Free /\ guard' = c /\ step \in {"queued", "aborting", "painting"}
         \/ Publishing(c) /\ guard' = Free /\ step \notin {"queued", "aborting", "painting"}
  PROVE  BarrierIsHeld'
  BY RuntimeConstants DEF BarrierIsHeld, Publishing, Free

LEMMA BarrierStep ==
  ThreadsTyped /\ BarrierIsHeld /\ [RuntimeNext]_runtimeVars => BarrierIsHeld'
<1> SUFFICES ASSUME ThreadsTyped, BarrierIsHeld, [RuntimeNext]_runtimeVars PROVE BarrierIsHeld'
  OBVIOUS
<1>1. CASE UNCHANGED <<worker, guard>>
  BY <1>1 DEF BarrierIsHeld, Publishing
<1>2. CASE ClientNext
  <2>1. guard' = guard /\ (worker' = worker \/ \E c \in Capabilities : EnsureStarted(c))
    BY <1>2 DEF ClientNext, Poll, Repaint, Send, SubmissionFailed, Acknowledge, Drain,
                StartRefused, RefuseManual, ChangePolicy, SubmitCapability, SubmitTarget,
                workerVars
  <2>2. ASSUME NEW c \in Capabilities, EnsureStarted(c) PROVE BarrierIsHeld'
    BY <2>1, <2>2, RuntimeConstants
       DEF EnsureStarted, BarrierIsHeld, Publishing, At, Resting, Worker, ThreadsTyped
  <2> QED
    BY <1>1, <2>1, <2>2
<1>3. ASSUME NEW c \in Capabilities, WorkerNext(c) PROVE BarrierIsHeld'
  <2>1. ASSUME NEW step, StepTo(c, step)
        PROVE  \A d \in Capabilities :
                 worker'[d].step = IF d = c THEN step ELSE worker[d].step
    BY <2>1, SteppedThread DEF Worker, ThreadsTyped
  <2>2. ASSUME NEW next, Move(c, next)
        PROVE  \A d \in Capabilities :
                 worker'[d].step = IF d = c THEN next.step ELSE worker[d].step
    BY <2>2 DEF Move, ThreadsTyped
  <2>3. CASE Take(c)
    <3>1. \A d \in Capabilities :
            worker'[d].step = IF d = c THEN "running" ELSE worker[d].step
      BY <2>2, <2>3 DEF Take, Worker
    <3> QED
      BY <2>3, <3>1, BarrierMove DEF Take, Publishing, At
  <2>4. CASE PublishProgress(c) \/ RenewLease(c)
    BY <2>1, <2>4, BarrierMove DEF PublishProgress, RenewLease, Publishing, At
  <2>5. ASSUME NEW h \in TerminalHealths, FinishAndClaim(c, h) PROVE BarrierIsHeld'
    BY <2>2, <2>5, BarrierMove DEF FinishAndClaim, Worker, Resting, Publishing, At
  <2>6. CASE EnqueueTerminal(c)
    BY <2>1, <2>6, BarrierMove DEF EnqueueTerminal
  <2>7. CASE AbortAndStop(c) \/ Paint(c)
    BY <2>2, <2>7, BarrierMove DEF AbortAndStop, Paint, Worker, Resting, Publishing, At
  <2>8. CASE Record(c)
    BY <2>1, <2>2, <2>8, BarrierMove DEF Record, Worker, Resting, Publishing, At
  <2> QED
    BY <1>3, <2>3, <2>4, <2>5, <2>6, <2>7, <2>8 DEF WorkerNext, Serve
<1> QED
  BY <1>1, <1>2, <1>3 DEF RuntimeNext, TimePasses, clientVars, workerVars, runtimeVars

-----------------------------------------------------------------------------
(* The primary channels.                                                   *)

ChannelsFit == \A k \in Classes : Stored(k, "primary") <= PrimaryCapacity

Places(q, store) == {i \in DOMAIN q : q[i].store = store}

LEMMA PlacesAreFinite ==
  ASSUME NEW S, NEW q \in Seq(S), NEW store
  PROVE  IsFiniteSet(Places(q, store)) /\ Cardinality(Places(q, store)) \in Nat
<1>1. DOMAIN q = 1 .. Len(q) /\ Len(q) \in Nat
  BY LenProperties
<1>2. IsFiniteSet(DOMAIN q)
  BY <1>1, FS_Interval
<1>3. Places(q, store) \in SUBSET DOMAIN q
  BY DEF Places
<1> QED
  BY <1>2, <1>3, FS_Subset, FS_CardinalityType

\* An event is stored at one place more, if it goes into this store.
LEMMA AppendedPlaces ==
  ASSUME NEW S, NEW q \in Seq(S), NEW e \in S, NEW store
  PROVE  Cardinality(Places(Append(q, e), store)) =
           Cardinality(Places(q, store)) + (IF e.store = store THEN 1 ELSE 0)
<1>1. /\ DOMAIN Append(q, e) = 1 .. Len(q) + 1 /\ DOMAIN q = 1 .. Len(q)
      /\ \A i \in 1 .. Len(q) : Append(q, e)[i] = q[i]
      /\ Append(q, e)[Len(q) + 1] = e
      /\ Len(q) \in Nat
  BY AppendKeeps, LenProperties
<1>2. Places(Append(q, e), store) =
        IF e.store = store THEN Places(q, store) \cup {Len(q) + 1} ELSE Places(q, store)
  BY <1>1 DEF Places
<1>3. Len(q) + 1 \notin Places(q, store)
  BY <1>1 DEF Places
<1>4. IsFiniteSet(Places(q, store)) /\ Cardinality(Places(q, store)) \in Nat
  BY PlacesAreFinite
<1>5. Cardinality(Places(q, store) \cup {Len(q) + 1}) = Cardinality(Places(q, store)) + 1
  BY <1>3, <1>4, FS_AddElement
<1> QED
  BY <1>2, <1>4, <1>5

\* Taking the oldest event frees a place and takes none.
LEMMA DrainedPlaces ==
  ASSUME NEW S, NEW q \in Seq(S), q # <<>>, NEW store
  PROVE  Cardinality(Places(Tail(q), store)) <= Cardinality(Places(q, store))
<1>1. /\ DOMAIN Tail(q) = 1 .. Len(q) - 1 /\ DOMAIN q = 1 .. Len(q)
      /\ \A i \in 1 .. Len(q) - 1 : Tail(q)[i] = q[i + 1]
      /\ Len(q) \in Nat
  BY TailKeeps, LenProperties
<1> DEFINE f == [i \in Places(Tail(q), store) |-> i + 1]
<1>2. f \in Injection(Places(Tail(q), store), Places(q, store))
  <2>1. \A i \in Places(Tail(q), store) : i \in Nat /\ i + 1 \in Places(q, store)
    BY <1>1 DEF Places
  <2>2. f \in [Places(Tail(q), store) -> Places(q, store)]
    BY <2>1
  <2>3. \A i, j \in Places(Tail(q), store) : f[i] = f[j] => i = j
    BY <2>1
  <2> QED
    BY <2>2, <2>3 DEF Injection, IsInjective
<1> QED
  BY <1>2, PlacesAreFinite, FS_Injection

LEMMA PushFits ==
  ASSUME ThreadsTyped, ChannelsFit, NEW e \in Events, Push(e),
         e.store = "primary" => PrimaryHasRoom(ClassOf[e.capability])
  PROVE  ChannelsFit'
<1> DEFINE n == ClassOf[e.capability]
<1>1. n \in Classes
  BY SchedulerConstants DEF Events, Classes
<1>2. SUFFICES ASSUME NEW k \in Classes PROVE Stored(k, "primary")' <= PrimaryCapacity
  BY DEF ChannelsFit
<1>3. Stored(k, "primary") = Cardinality(Places(queue[k], "primary"))
      /\ Stored(k, "primary")' = Cardinality(Places(queue'[k], "primary"))
  BY DEF Stored, Places
<1>4. queue'[k] = IF k = n THEN Append(queue[k], e) ELSE queue[k]
  BY <1>1 DEF Push, ThreadsTyped
<1>5. queue[k] \in Seq(Events)
  BY DEF ThreadsTyped
<1>6. Stored(k, "primary") \in Nat /\ Stored(k, "primary") <= PrimaryCapacity
  BY <1>3, <1>5, PlacesAreFinite DEF ChannelsFit
<1>7. CASE k # n
  BY <1>3, <1>4, <1>6, <1>7
<1>8. CASE k = n
  <2>1. Stored(k, "primary")' = Stored(k, "primary") + (IF e.store = "primary" THEN 1 ELSE 0)
    BY <1>3, <1>4, <1>5, <1>8, AppendedPlaces
  <2>2. e.store = "primary" => Stored(k, "primary") < PrimaryCapacity
    BY <1>8 DEF PrimaryHasRoom
  <2> QED
    BY <1>6, <2>1, <2>2, RuntimeConstants
<1> QED
  BY <1>7, <1>8

LEMMA ChannelsFitInit == RuntimeInit => ChannelsFit
<1> SUFFICES ASSUME RuntimeInit, NEW k \in Classes PROVE Stored(k, "primary") <= PrimaryCapacity
  BY DEF ChannelsFit
<1>1. {i \in DOMAIN queue[k] : queue[k][i].store = "primary"} = {}
  <2>1. queue[k] = <<>>
    BY DEF RuntimeInit
  <2>2. DOMAIN queue[k] = {}
    BY <2>1
  <2> QED
    BY <2>2
<1>2. Stored(k, "primary") = 0
  BY <1>1, FS_EmptySet DEF Stored
<1> QED
  BY <1>2, RuntimeConstants

LEMMA ChannelsFitStep ==
  ThreadsTyped /\ ChannelsFit /\ [RuntimeNext]_runtimeVars => ChannelsFit'
<1> SUFFICES ASSUME ThreadsTyped, ChannelsFit, [RuntimeNext]_runtimeVars PROVE ChannelsFit'
  OBVIOUS
<1>1. CASE UNCHANGED queue
  BY <1>1 DEF ChannelsFit, Stored
<1>2. ASSUME NEW k \in Classes, Drain(k) PROVE ChannelsFit'
  <2>1. SUFFICES ASSUME NEW j \in Classes PROVE Stored(j, "primary")' <= PrimaryCapacity
    BY DEF ChannelsFit
  <2>2. Stored(j, "primary") = Cardinality(Places(queue[j], "primary"))
        /\ Stored(j, "primary")' = Cardinality(Places(queue'[j], "primary"))
    BY DEF Stored, Places
  <2>3. queue[j] \in Seq(Events) /\ queue'[j] \in Seq(Events)
    BY <1>2, ClientStepTyped DEF ThreadsTyped, ClientNext
  <2>4. Stored(j, "primary")' <= Stored(j, "primary")
    <3>1. CASE j = k
      BY <1>2, <2>2, <2>3, <3>1, DrainedPlaces DEF Drain, ThreadsTyped
    <3>2. CASE j # k
      <4>1. queue'[j] = queue[j]
        BY <1>2, <3>2 DEF Drain, ThreadsTyped
      <4> QED
        BY <2>2, <2>3, <4>1, PlacesAreFinite
    <3> QED
      BY <3>1, <3>2
  <2> QED
    BY <2>2, <2>3, <2>4, PlacesAreFinite, RuntimeConstants DEF ChannelsFit
<1>3. ASSUME NEW c \in Capabilities, PublishProgress(c) \/ EnqueueTerminal(c) PROVE ChannelsFit'
  <2>1. Serving(c) \in Requests
    BY <1>3 DEF PublishProgress, EnqueueTerminal, ThreadsTyped, Busy, At
  <2>2. \A f \in {"Progress", "Terminal"}, s \in {"primary", "mailbox"} :
          /\ Event(c, Serving(c), f, s) \in Events
          /\ Event(c, Serving(c), f, s).capability = c
          /\ Event(c, Serving(c), f, s).store = s
    BY <2>1 DEF Event, Events
  <2>3. \/ queue' = queue
        \/ \E f \in {"Progress", "Terminal"} :
             Push(Event(c, Serving(c), f, "primary")) /\ PrimaryHasRoom(ClassOf[c])
        \/ Push(Event(c, Serving(c), "Terminal", "mailbox"))
    BY <1>3 DEF PublishProgress, EnqueueTerminal
  <2> QED
    BY <1>1, <2>2, <2>3, PushFits
<1>4. CASE \/ Poll \/ Repaint \/ Send \/ SubmissionFailed \/ Acknowledge \/ TimePasses
           \/ \E c \in Capabilities :
                \/ StartRefused(c) \/ RefuseManual(c) \/ ChangePolicy(c)
                \/ \E r \in Requests :
                     SubmitCapability(c, r) \/ \E s \in Scopes : SubmitTarget(c, r, s)
                \/ Take(c) \/ RenewLease(c) \/ AbortAndStop(c) \/ Record(c) \/ Paint(c)
                \/ \E h \in TerminalHealths : FinishAndClaim(c, h)
  <2>1. UNCHANGED queue
    BY <1>4 DEF Poll, Repaint, Send, SubmissionFailed, Acknowledge, TimePasses, StartRefused,
                RefuseManual, ChangePolicy, SubmitCapability, SubmitTarget, Take, RenewLease,
                AbortAndStop, Record, Paint, FinishAndClaim, workerVars
  <2> QED
    BY <1>1, <2>1
<1> QED
  BY <1>1, <1>2, <1>3, <1>4 DEF RuntimeNext, ClientNext, WorkerNext, Serve, runtimeVars, workerVars

\* Whatever the threads interleave, each of them is in a state of its own code,
\* the barrier is held exactly while a terminal is between its enqueue and its
\* repaint, and no channel holds more than its capacity.
THEOREM RuntimeTypes == RuntimeSpec => []RuntimeTypeOK
<1>1. ThreadsTyped /\ BarrierIsHeld /\ ChannelsFit => RuntimeTypeOK
  BY DEF ThreadsTyped, BarrierIsHeld, ChannelsFit, RuntimeTypeOK, Clients, Threads, Publishing
<1> QED
  BY <1>1, ThreadsTypedInit, ThreadsTypedStep, BarrierInit, BarrierStep, ChannelsFitInit,
     ChannelsFitStep, PTL DEF RuntimeSpec

-----------------------------------------------------------------------------
(* What keeps an owner's permit, and a terminal final, while admission,     *)
(* enqueue, record and acknowledgement interleave.                         *)

Submitting(c, r) == client = Client("send", c, r)
Visible(c, r) == IsQueued(c, r, "Terminal") \/ client = Client("ack", c, r)
Holds(q, e) == \E i \in DOMAIN q : q[i] = e
Distinct(q) == \A i, j \in DOMAIN q : q[i] = q[j] => i = j
InLane(c, r) == Holds(lane[c], r)

\* A request is with the client, in its lane once, or with the lane thread.
OnePlace ==
  \A c \in Capabilities :
    /\ Distinct(lane[c])
    /\ \A r \in Requests : Serves(c, r) \/ Submitting(c, r) => ~InLane(c, r)
    /\ \A r \in Requests : Submitting(c, r) => ~Serves(c, r)

\* A request whose terminal can be seen has been worked on for the last time;
\* what is left is to record it, by the lane that holds the barrier.
VisibleIsSettled ==
  \A c \in Capabilities, r \in Requests :
    Visible(c, r) =>
      /\ ~InLane(c, r) /\ ~Submitting(c, r)
      /\ permits[c][r] # "Active"
      /\ Serves(c, r) => worker[c].step \in {"queued", "painting"}
      /\ Owns(c, r) => Serves(c, r) /\ At(c, "queued")

\* Nobody reopens the permit a lane claimed.
ClaimIsKept ==
  \A c \in Capabilities :
    worker[c].step \in {"claimed", "queued"} => permits[c][Serving(c)] # "Active"

PublicationOrder ==
  Exclusive /\ OwnerHoldsPermit /\ OnePlace /\ VisibleIsSettled /\ ClaimIsKept

\* The steps that are not Shrinks.
Admits(c, r) ==
  /\ Fresh(r) /\ client' = Client("send", c, r)
  /\ permits' = [permits EXCEPT ![c][r] = "Active"]
  /\ \A d \in Capabilities, q \in Requests :
       /\ HasJob(d, q)' => HasJob(d, q) \/ (d = c /\ q = r /\ TrackingOf[c] = "Target")
       /\ OwnedBy(work[d], q)' =>
            OwnedBy(work[d], q) \/ (d = c /\ q = r /\ TrackingOf[c] = "Capability")

Claims(c) ==
  /\ At(c, "running")
  /\ permits' = [permits EXCEPT ![c][Serving(c)] = "TerminalClaimed"]
  /\ UNCHANGED <<work, jobs>>

Aborts(c) ==
  /\ At(c, "aborting")
  /\ permits' = [permits EXCEPT ![c][Serving(c)] = "Active"]
  /\ UNCHANGED <<work, jobs>>

\* Nothing in the runtime knows a fresh request.
LEMMA FreshIsNowhere ==
  ASSUME NEW r, Fresh(r)
  PROVE  /\ client.request # r
         /\ \A c \in Capabilities : ~InLane(c, r) /\ Serving(c) # r
         /\ \A k \in Classes : \A i \in DOMAIN queue[k] : queue[k][i].request # r
<1>1. r \notin Mentioned
  BY DEF Fresh, Unused
<1>2. \A c \in Capabilities : r \notin Range(lane[c])
  BY <1>1 DEF Mentioned
<1>3. \A k \in Classes : r \notin {queue[k][i].request : i \in DOMAIN queue[k]}
  BY <1>1 DEF Mentioned
<1>4. client.request # r /\ \A c \in Capabilities : Serving(c) # r
  BY <1>1 DEF Mentioned
<1> QED
  BY <1>2, <1>3, <1>4 DEF InLane, Holds, Range

LEMMA SubmissionAdmits ==
  ASSUME TypeOK, ThreadsTyped, NEW c \in Capabilities, NEW r \in Requests,
         SubmitCapability(c, r) \/ \E s \in Scopes : SubmitTarget(c, r, s)
  PROVE  (Fail(c) /\ UNCHANGED schedVars) \/ Admits(c, r)
<1>1. CASE SubmitCapability(c, r)
  <2> SUFFICES ASSUME NEW left \in NewLeases, AdmitCapability(c, r, left),
                      client' = Client("send", c, r)
               PROVE  Admits(c, r)
    BY <1>1 DEF SubmitCapability
  <2>1. /\ permits' = [permits EXCEPT ![c][r] = "Active"] /\ jobs' = jobs
        /\ work' = [work EXCEPT ![c] = InFlight(r, left)]
    BY DEF AdmitCapability, SetPermit, registry
  <2>2. \A d \in Capabilities, q \in Requests :
          OwnedBy(work[d], q)' => OwnedBy(work[d], q) \/ (d = c /\ q = r)
    BY <2>1 DEF OwnedBy, InFlight, State, TypeOK
  <2> QED
    BY <1>1, <2>1, <2>2 DEF Admits, SubmitCapability, HasJob
<1>2. ASSUME NEW s \in Scopes, SubmitTarget(c, r, s)
      PROVE  (Fail(c) /\ UNCHANGED schedVars) \/ Admits(c, r)
  <2> SUFFICES ASSUME NEW left \in NewLeases, AdmitTarget(c, r, s, left),
                      client' = Client("send", c, r)
               PROVE  Admits(c, r)
    BY <1>2 DEF SubmitTarget
  <2>1. /\ permits' = [permits EXCEPT ![c][r] = "Active"] /\ work' = work
        /\ jobs' = [jobs EXCEPT ![c][r] = Job(s, InFlight(r, left))]
    BY DEF AdmitTarget, SetPermit
  <2>2. \A d \in Capabilities, q \in Requests :
          HasJob(d, q)' => HasJob(d, q) \/ (d = c /\ q = r)
    BY <2>1 DEF HasJob, TypeOK
  <2> QED
    BY <1>2, <2>1, <2>2 DEF Admits, SubmitTarget
<1> QED
  BY <1>1, <1>2

\* A terminal is acknowledged only when nobody is publishing, and by then it is
\* recorded or its owner is gone.
LEMMA AcknowledgedOwnsNothing ==
  ASSUME ThreadsTyped, BarrierIsHeld, VisibleIsSettled, Acknowledge
  PROVE  /\ client.capability \in Capabilities /\ client.request \in Requests
         /\ ~Owns(client.capability, client.request)
<1> DEFINE c == client.capability
           r == client.request
<1>1. c \in Capabilities /\ r \in Requests /\ client = Client("ack", c, r)
  BY DEF Acknowledge, ThreadsTyped, Clients, Client
<1>2. ~At(c, "queued")
  BY <1>1, RuntimeConstants DEF Acknowledge, BarrierIsHeld, Publishing, At, Free
<1> QED
  BY <1>1, <1>2 DEF VisibleIsSettled, Visible

LEMMA RuntimeStepKinds ==
  ASSUME TypeOK, ThreadsTyped, BarrierIsHeld, PublicationOrder, [RuntimeNext]_runtimeVars
  PROVE  \/ Shrinks
         \/ \E c \in Capabilities, r \in Requests : Admits(c, r)
         \/ \E c \in Capabilities : Claims(c) \/ Aborts(c)
<1> USE DEF PublicationOrder
<1>1. CASE Poll
  BY <1>1, TickShrinks DEF Poll
<1>2. CASE Send
  <2>1. client.capability \in Capabilities /\ client.request \in Requests
    BY <1>2 DEF Send, ThreadsTyped
  <2> QED
    BY <1>2, <2>1, CancelShrinks, RestShrinks DEF Send
<1>3. CASE SubmissionFailed
  <2>1. client.capability \in Capabilities
    BY <1>3 DEF SubmissionFailed, ThreadsTyped
  <2> QED
    BY <1>3, <2>1, RestShrinks DEF SubmissionFailed, Policy
<1>4. CASE Acknowledge
  BY <1>4, AcknowledgedOwnsNothing, AcknowledgeShrinks, RestShrinks DEF Acknowledge
<1>5. ASSUME NEW c \in Capabilities, ChangePolicy(c) PROVE Shrinks
  BY <1>5, RestShrinks DEF ChangePolicy, Policy
<1>6. ASSUME NEW c \in Capabilities, NEW r \in Requests,
             SubmitCapability(c, r) \/ \E s \in Scopes : SubmitTarget(c, r, s)
      PROVE  Shrinks \/ Admits(c, r)
  BY <1>6, SubmissionAdmits, RestShrinks
<1>7. ASSUME NEW c \in Capabilities, WorkerNext(c) PROVE Shrinks \/ Claims(c) \/ Aborts(c)
  <2>1. CASE RenewLease(c)
    <3>1. Serving(c) \in Requests
      BY <2>1 DEF RenewLease, ThreadsTyped, Busy, At
    <3> QED
      BY <2>1, <3>1, RestShrinks DEF RenewLease
  <2>2. CASE AbortAndStop(c)
    BY <2>2, RestShrinks DEF AbortAndStop, AbortTerminal, SetPermit, Aborts, registry
  <2>3. CASE Record(c)
    <3>1. Serving(c) \in Requests
      BY <2>3 DEF Record, ThreadsTyped, Busy, At
    <3> QED
      BY <2>3, <3>1, RecordShrinks, RestShrinks DEF Record
  <2>4. ASSUME NEW h \in TerminalHealths, FinishAndClaim(c, h) PROVE Shrinks \/ Claims(c)
    BY <2>4, RestShrinks DEF FinishAndClaim, ClaimTerminal, SetPermit, Claims, registry
  <2>5. CASE Take(c) \/ PublishProgress(c) \/ EnqueueTerminal(c) \/ Paint(c)
    BY <2>5, RestShrinks DEF Take, PublishProgress, EnqueueTerminal, Paint
  <2> QED
    BY <1>7, <2>1, <2>2, <2>3, <2>4, <2>5 DEF WorkerNext, Serve
<1>8. CASE TimePasses
  BY <1>8, RestShrinks DEF TimePasses
<1>9. CASE \/ UNCHANGED runtimeVars \/ Repaint \/ \E k \in Classes : Drain(k)
           \/ \E c \in Capabilities : StartRefused(c) \/ RefuseManual(c)
  BY <1>9, RestShrinks DEF Repaint, Drain, StartRefused, RefuseManual, runtimeVars
<1> QED
  BY <1>1, <1>2, <1>3, <1>4, <1>5, <1>6, <1>7, <1>8, <1>9 DEF RuntimeNext, ClientNext

\* Nobody becomes an owner but by an admission.
LEMMA ExclusiveStep ==
  ASSUME TypeOK, Exclusive,
         \/ Shrinks
         \/ \E c \in Capabilities, r \in Requests : Admits(c, r)
         \/ \E c \in Capabilities : Claims(c) \/ Aborts(c)
  PROVE  Exclusive'
<1>1. CASE Shrinks
  BY <1>1 DEF Shrinks, Exclusive
<1>2. ASSUME NEW c \in Capabilities, NEW r \in Requests, Admits(c, r) PROVE Exclusive'
  BY <1>2 DEF Admits, Exclusive
<1>3. ASSUME NEW c \in Capabilities, Claims(c) \/ Aborts(c) PROVE Exclusive'
  BY <1>3 DEF Claims, Aborts, Exclusive, HasJob
<1> QED
  BY <1>1, <1>2, <1>3

LEMMA OwnerHoldsPermitStep ==
  ASSUME TypeOK, OwnerHoldsPermit,
         \/ Shrinks
         \/ \E c \in Capabilities, r \in Requests : Admits(c, r)
         \/ \E c \in Capabilities : Claims(c) \/ Aborts(c)
  PROVE  OwnerHoldsPermit'
<1> SUFFICES ASSUME NEW d \in Capabilities, NEW q \in Requests, Owns(d, q)'
             PROVE  permits'[d][q] # "None"
  BY DEF OwnerHoldsPermit, HasPermit
<1>1. CASE Shrinks
  BY <1>1 DEF Shrinks, OwnerHoldsPermit, Owns, HasPermit
<1>2. ASSUME NEW c \in Capabilities, NEW r \in Requests, Admits(c, r)
      PROVE  permits'[d][q] # "None"
  BY <1>2 DEF Admits, OwnerHoldsPermit, Owns, HasPermit, TypeOK
<1>3. ASSUME NEW c \in Capabilities, Claims(c) \/ Aborts(c) PROVE permits'[d][q] # "None"
  <2>1. Owns(d, q)
    BY <1>3 DEF Claims, Aborts, Owns, HasJob
  <2>2. ASSUME NEW p \in {"Active", "TerminalClaimed"},
               permits' = [permits EXCEPT ![c][Serving(c)] = p]
        PROVE  permits'[d][q] \in {permits[d][q], p}
    BY <2>2 DEF TypeOK
  <2> QED
    BY <1>3, <2>1, <2>2 DEF Claims, Aborts, OwnerHoldsPermit, HasPermit
<1> QED
  BY <1>1, <1>2, <1>3

\* A permit is open only because it was, or by an admission, or by an abort.
LEMMA PermitOpens ==
  ASSUME TypeOK, NEW d \in Capabilities, NEW q \in Requests, permits'[d][q] = "Active",
         \/ Shrinks
         \/ \E c \in Capabilities, r \in Requests : Admits(c, r)
         \/ \E c \in Capabilities : Claims(c) \/ Aborts(c)
  PROVE  \/ permits[d][q] = "Active"
         \/ Admits(d, q)
         \/ Aborts(d) /\ Serving(d) = q
<1>1. CASE Shrinks
  BY <1>1 DEF Shrinks
<1>2. ASSUME NEW c \in Capabilities, NEW r \in Requests, Admits(c, r)
      PROVE  permits[d][q] = "Active" \/ (c = d /\ r = q)
  BY <1>2 DEF Admits, TypeOK
<1>3. ASSUME NEW c \in Capabilities, Claims(c) PROVE permits[d][q] = "Active"
  BY <1>3 DEF Claims, TypeOK
<1>4. ASSUME NEW c \in Capabilities, Aborts(c)
      PROVE  permits[d][q] = "Active" \/ (c = d /\ Serving(c) = q)
  BY <1>4 DEF Aborts, TypeOK
<1> QED
  BY <1>1, <1>2, <1>3, <1>4

-----------------------------------------------------------------------------
(* Where a request is.                                                     *)

LEMMA AppendedOnce ==
  ASSUME NEW S, NEW q \in Seq(S), NEW e \in S
  PROVE  /\ \A x : Holds(Append(q, e), x) <=> Holds(q, x) \/ x = e
         /\ Distinct(q) /\ ~Holds(q, e) => Distinct(Append(q, e))
<1>1. /\ DOMAIN Append(q, e) = 1 .. Len(q) + 1 /\ DOMAIN q = 1 .. Len(q)
      /\ \A i \in 1 .. Len(q) : Append(q, e)[i] = q[i]
      /\ Append(q, e)[Len(q) + 1] = e
      /\ Len(q) \in Nat
  BY AppendKeeps, LenProperties
<1>2. \A i \in DOMAIN Append(q, e) : i \in DOMAIN q \/ i = Len(q) + 1
  BY <1>1
<1>3. ASSUME NEW x PROVE Holds(Append(q, e), x) <=> Holds(q, x) \/ x = e
  BY <1>1, <1>2 DEF Holds
<1>4. ASSUME Distinct(q), ~Holds(q, e) PROVE Distinct(Append(q, e))
  BY <1>1, <1>2, <1>4 DEF Distinct, Holds
<1> QED
  BY <1>3, <1>4

LEMMA TakenOnce ==
  ASSUME NEW S, NEW q \in Seq(S), q # <<>>
  PROVE  /\ Head(q) \in S /\ Holds(q, Head(q))
         /\ \A x : Holds(Tail(q), x) => Holds(q, x)
         /\ Distinct(q) => Distinct(Tail(q)) /\ ~Holds(Tail(q), Head(q))
<1>1. /\ Head(q) \in S /\ Head(q) = q[1] /\ 1 \in DOMAIN q
      /\ DOMAIN Tail(q) = 1 .. Len(q) - 1 /\ DOMAIN q = 1 .. Len(q)
      /\ \A i \in 1 .. Len(q) - 1 : Tail(q)[i] = q[i + 1]
      /\ Len(q) \in Nat
  BY TailKeeps, LenProperties
<1>2. \A i \in DOMAIN Tail(q) : i \in Nat /\ i # 0 /\ i + 1 \in DOMAIN q /\ Tail(q)[i] = q[i + 1]
  BY <1>1
<1>3. ASSUME NEW x, Holds(Tail(q), x) PROVE Holds(q, x)
  BY <1>2, <1>3 DEF Holds
<1>4. ASSUME Distinct(q) PROVE Distinct(Tail(q)) /\ ~Holds(Tail(q), Head(q))
  <2>1. Distinct(Tail(q))
    BY <1>2, <1>4 DEF Distinct
  <2>2. \A i \in DOMAIN Tail(q) : Tail(q)[i] # q[1]
    BY <1>1, <1>2, <1>4 DEF Distinct
  <2> QED
    BY <1>1, <2>1, <2>2 DEF Holds
<1> QED
  BY <1>1, <1>3, <1>4 DEF Holds

\* Steps that put no request anywhere.
LEMMA OnePlaceKept ==
  ASSUME OnePlace, lane' = lane,
         \A c \in Capabilities, r \in Requests :
           (Serves(c, r)' => Serves(c, r)) /\ (Submitting(c, r)' => Submitting(c, r))
  PROVE  OnePlace'
<1>1. \A c, r : InLane(c, r)' <=> InLane(c, r)
  BY DEF InLane
<1> QED
  BY <1>1 DEF OnePlace

\* What each kind of call leaves of the client's own request.
LEMMA FailedSubmitsNothing ==
  ASSUME NEW c, Fail(c) PROVE \A d, r : ~Submitting(d, r)' /\ client' # Client("ack", d, r)
  BY DEF Fail, Submitting, Client, Idle

LEMMA StartedServesTheSame ==
  ASSUME ThreadsTyped, NEW c \in Capabilities, EnsureStarted(c)
  PROVE  \A d \in Capabilities :
           \/ worker'[d] = worker[d]
           \/ worker[d].step = "stopped" /\ worker'[d].step = "idle"
  BY DEF EnsureStarted, At, Resting, Worker, ThreadsTyped

\* A lane thread at c moves on with its request or drops it.
LEMMA SteppedServes ==
  ASSUME ThreadsTyped, NEW c \in Capabilities, NEW step, StepTo(c, step)
  PROVE  /\ \A d \in Capabilities : /\ worker'[d].request = worker[d].request
                                    /\ d # c => worker'[d] = worker[d]
         /\ worker'[c].step = step
<1>1. worker' = [worker EXCEPT ![c] = Worker(step, worker[c].request, worker[c].health)]
  BY SteppedThread
<1> QED
  BY <1>1 DEF Worker, ThreadsTyped

LEMMA MovedServes ==
  ASSUME ThreadsTyped, NEW c \in Capabilities, NEW next, Move(c, next)
  PROVE  worker'[c] = next /\ \A d \in Capabilities : d # c => worker'[d] = worker[d]
  BY DEF Move, ThreadsTyped

\* What the lane threads serve after any step but Take.
LEMMA WorkerServes ==
  ASSUME ThreadsTyped, NEW c \in Capabilities, WorkerNext(c), ~Take(c)
  PROVE  /\ \A d \in Capabilities, r \in Requests : Serves(d, r)' => Serves(d, r)
         /\ \A d \in Capabilities : d # c => worker'[d] = worker[d]
         /\ UNCHANGED <<lane, client>>
<1>1. UNCHANGED <<lane, client>>
  BY DEF WorkerNext, Serve, PublishProgress, RenewLease, FinishAndClaim, EnqueueTerminal,
         AbortAndStop, Record, Paint, clientVars
<1>2. ASSUME NEW step, StepTo(c, step), Busy(c)
      PROVE  /\ \A d \in Capabilities, r \in Requests : Serves(d, r)' => Serves(d, r)
             /\ \A d \in Capabilities : d # c => worker'[d] = worker[d]
  BY <1>2, SteppedServes DEF Serves, Busy, Serving
<1>3. ASSUME NEW next, Move(c, next), Busy(c),
             next.step \in {"idle", "stopped"} \/ next.request = Serving(c)
      PROVE  /\ \A d \in Capabilities, r \in Requests : Serves(d, r)' => Serves(d, r)
             /\ \A d \in Capabilities : d # c => worker'[d] = worker[d]
  BY <1>3, MovedServes DEF Serves, Busy, Serving
<1>4. CASE PublishProgress(c) \/ RenewLease(c) \/ EnqueueTerminal(c)
  BY <1>1, <1>2, <1>4 DEF PublishProgress, RenewLease, EnqueueTerminal, Busy, At
<1>5. ASSUME NEW h \in TerminalHealths, FinishAndClaim(c, h)
      PROVE  /\ \A d \in Capabilities, r \in Requests : Serves(d, r)' => Serves(d, r)
             /\ \A d \in Capabilities : d # c => worker'[d] = worker[d]
  <2>1. /\ Worker("claimed", Serving(c), h).request = Serving(c)
        /\ Resting.step = "idle"
    BY DEF Worker, Resting
  <2> QED
    BY <1>3, <1>5, <2>1 DEF FinishAndClaim, Busy, At
<1>6. CASE AbortAndStop(c) \/ Record(c) \/ Paint(c)
  <2>1. /\ Worker("stopped", NoRequest, "None").step = "stopped"
        /\ Resting.step = "idle"
    BY DEF Worker, Resting
  <2> QED
    BY <1>1, <1>2, <1>3, <1>6, <2>1 DEF AbortAndStop, Record, Paint, Busy, At
<1> QED
  BY <1>1, <1>4, <1>5, <1>6 DEF WorkerNext, Serve

\* The client's side of the same.
LEMMA ClientServes ==
  ASSUME ThreadsTyped, ClientNext
  PROVE  \A d \in Capabilities :
           \/ worker'[d] = worker[d]
           \/ worker[d].step = "stopped" /\ worker'[d].step = "idle"
<1>1. worker' = worker \/ \E c \in Capabilities : EnsureStarted(c)
  BY DEF ClientNext, Poll, Repaint, Send, SubmissionFailed, Acknowledge, Drain,
         StartRefused, RefuseManual, ChangePolicy, SubmitCapability, SubmitTarget, workerVars
<1> QED
  BY <1>1, StartedServesTheSame

LEMMA OnePlaceStep ==
  ASSUME TypeOK, ThreadsTyped, OnePlace, [RuntimeNext]_runtimeVars
  PROVE  OnePlace'
<1>1. CASE ClientNext
  <2>1. \A c \in Capabilities, r \in Requests : Serves(c, r)' => Serves(c, r)
    BY <1>1, ClientServes DEF Serves, Busy, Serving
  <2>2. CASE Send
    <3> DEFINE c == client.capability
               r == client.request
    <3>1. c \in Capabilities /\ r \in Requests /\ Submitting(c, r)
      BY <2>2 DEF Send, ThreadsTyped, Clients, Client, Submitting
    <3>2. \A d, q : ~Submitting(d, q)'
      BY <2>2, FailedSubmitsNothing DEF Send, Submitting, Client, Idle
    <3>3. CASE lane' = lane
      BY <2>1, <3>2, <3>3, OnePlaceKept
    <3>4. CASE lane' = [lane EXCEPT ![c] = Append(lane[c], r)]
      <4>1. \A d \in Capabilities :
              lane'[d] = IF d = c THEN Append(lane[c], r) ELSE lane[d]
        BY <3>4 DEF ThreadsTyped
      <4>2. lane[c] \in Seq(Requests)
        BY <3>1 DEF ThreadsTyped
      <4> HIDE DEF c, r
      <4>3. ~Holds(lane[c], r) /\ ~Serves(c, r) /\ Distinct(lane[c])
        BY <3>1 DEF OnePlace, InLane
      <4>4. /\ Distinct(Append(lane[c], r))
            /\ \A q : Holds(Append(lane[c], r), q) <=> Holds(lane[c], q) \/ q = r
        BY <3>1, <4>2, <4>3, AppendedOnce
      <4>5. \A d \in Capabilities : Distinct(lane'[d])
        BY <4>1, <4>4 DEF OnePlace
      <4>6. \A d \in Capabilities, q \in Requests :
              Holds(lane'[d], q) => Holds(lane[d], q) \/ (d = c /\ q = r)
        BY <4>1, <4>4
      <4> QED
        BY <2>1, <3>2, <4>3, <4>5, <4>6 DEF OnePlace, InLane
    <3> QED
      BY <2>2, <3>3, <3>4 DEF Send
  <2>3. ASSUME NEW c \in Capabilities, NEW r \in Requests,
               SubmitCapability(c, r) \/ \E s \in Scopes : SubmitTarget(c, r, s)
        PROVE  OnePlace'
    <3>1. lane' = lane
      BY <2>3 DEF SubmitCapability, SubmitTarget
    <3>2. CASE Fail(c)
      BY <2>1, <3>1, <3>2, FailedSubmitsNothing, OnePlaceKept
    <3>3. CASE Admits(c, r)
      <4>1. Fresh(r) /\ client' = Client("send", c, r)
        BY <3>3 DEF Admits
      <4>2. \A d \in Capabilities : ~InLane(d, r) /\ ~Serves(d, r)
        BY <4>1, FreshIsNowhere DEF Serves
      <4>3. \A d, q : Submitting(d, q)' => d = c /\ q = r
        BY <4>1 DEF Submitting, Client
      <4>4. \A d, q : InLane(d, q)' <=> InLane(d, q)
        BY <3>1 DEF InLane
      <4> QED
        BY <2>1, <3>1, <4>2, <4>3, <4>4 DEF OnePlace
    <3> QED
      BY <2>3, <3>2, <3>3, SubmissionAdmits
  <2>4. CASE \/ Poll \/ Repaint \/ SubmissionFailed \/ Acknowledge
             \/ \E k \in Classes : Drain(k)
             \/ \E c \in Capabilities : StartRefused(c) \/ RefuseManual(c) \/ ChangePolicy(c)
    <3>1. lane' = lane
      BY <2>4 DEF Poll, Repaint, SubmissionFailed, Acknowledge, Drain, StartRefused,
                  RefuseManual, ChangePolicy, workerVars
    <3>2. \/ client' = client \/ client' = Idle
          \/ \E d, q : client' = Client("ack", d, q) \/ Fail(d)
      BY <2>4 DEF Poll, Repaint, SubmissionFailed, Acknowledge, Drain, StartRefused,
                  RefuseManual, ChangePolicy, clientVars
    <3>3. \A d, q : Submitting(d, q)' => Submitting(d, q)
      <4>1. \A d, q : Idle # Client("send", d, q)
        BY DEF Idle, Client
      <4>2. \A d, q, e, p : Client("ack", e, p) # Client("send", d, q)
        BY DEF Client
      <4> QED
        BY <3>2, <4>1, <4>2, FailedSubmitsNothing DEF Submitting
    <3> QED
      BY <2>1, <3>1, <3>3, OnePlaceKept
  <2> QED
    BY <1>1, <2>2, <2>3, <2>4 DEF ClientNext
<1>2. ASSUME NEW c \in Capabilities, Take(c) PROVE OnePlace'
  <2> DEFINE r == Head(lane[c])
  <2>1. \A d \in Capabilities : lane'[d] = IF d = c THEN Tail(lane[c]) ELSE lane[d]
    BY <1>2 DEF Take, ThreadsTyped
  <2>2. lane[c] \in Seq(Requests) /\ lane[c] # <<>> /\ Distinct(lane[c])
    BY <1>2 DEF Take, ThreadsTyped, OnePlace
  <2>3. /\ r \in Requests /\ Holds(lane[c], r)
        /\ Distinct(Tail(lane[c])) /\ ~Holds(Tail(lane[c]), r)
        /\ \A q : Holds(Tail(lane[c]), q) => Holds(lane[c], q)
    BY <2>2, TakenOnce
  <2> HIDE DEF r
  <2>4. /\ \A d \in Capabilities : Distinct(lane'[d])
        /\ \A d \in Capabilities, q \in Requests : Holds(lane'[d], q) => Holds(lane[d], q)
        /\ ~Holds(lane'[c], r)
    BY <2>1, <2>3 DEF OnePlace
  <2>5. \A d \in Capabilities, q \in Requests :
          Serves(d, q)' => Serves(d, q) \/ (d = c /\ q = r)
    <3>1. worker'[c].request = r /\ \A d \in Capabilities : d # c => worker'[d] = worker[d]
      BY <1>2, MovedServes DEF Take, Worker, r
    <3> QED
      BY <3>1 DEF Serves, Busy, Serving
  <2>6. \A d, q : Submitting(d, q)' <=> Submitting(d, q)
    BY <1>2 DEF Take, clientVars, Submitting
  <2> QED
    BY <2>3, <2>4, <2>5, <2>6 DEF OnePlace, InLane
<1>3. ASSUME NEW c \in Capabilities, WorkerNext(c), ~Take(c) PROVE OnePlace'
  BY <1>3, WorkerServes, OnePlaceKept DEF Submitting
<1>4. CASE TimePasses \/ UNCHANGED runtimeVars
  BY <1>4, OnePlaceKept DEF TimePasses, runtimeVars, clientVars, workerVars, Serves, Busy,
                            Serving, Submitting
<1> QED
  BY <1>1, <1>2, <1>3, <1>4 DEF RuntimeNext, WorkerNext

-----------------------------------------------------------------------------
(* What the consumer can see.                                              *)

LEMMA QueuedHolds ==
  \A c, r, f : IsQueued(c, r, f) <=>
    \E e : Holds(queue[ClassOf[c]], e) /\ e.capability = c /\ e.request = r /\ e.finality = f
  BY DEF IsQueued, Holds

LEMMA PushShows ==
  ASSUME ThreadsTyped, NEW e \in Events, Push(e),
         NEW d \in Capabilities, NEW q, NEW f, IsQueued(d, q, f)'
  PROVE  IsQueued(d, q, f) \/ (e.capability = d /\ e.request = q /\ e.finality = f)
<1> DEFINE k == ClassOf[d]
<1>1. k \in Classes /\ queue[k] \in Seq(Events)
  BY SchedulerConstants DEF ThreadsTyped, Classes
<1>2. queue'[k] = queue[k] \/ queue'[k] = Append(queue[k], e)
  BY <1>1 DEF Push, ThreadsTyped
<1>3. PICK x : /\ Holds(queue'[k], x) /\ x.capability = d
               /\ x.request = q /\ x.finality = f
  BY QueuedHolds DEF IsQueued, Holds
<1>4. Holds(queue[k], x) \/ x = e
  <2>1. Holds(Append(queue[k], e), x) => Holds(queue[k], x) \/ x = e
    BY <1>1, AppendedOnce
  <2> QED
    BY <1>2, <1>3, <2>1
<1> QED
  BY <1>3, <1>4, QueuedHolds

LEMMA DrainShowsNothing ==
  ASSUME ThreadsTyped, NEW k \in Classes, Drain(k),
         NEW d \in Capabilities, NEW q, Visible(d, q)'
  PROVE  IsQueued(d, q, "Terminal")
<1>1. queue[k] \in Seq(Events) /\ queue[k] # <<>>
  BY DEF Drain, ThreadsTyped
<1>2. /\ Head(queue[k]) \in Events /\ Holds(queue[k], Head(queue[k]))
      /\ \A x : Holds(Tail(queue[k]), x) => Holds(queue[k], x)
  BY <1>1, TakenOnce
<1>3. CASE IsQueued(d, q, "Terminal")'
  <2>1. queue'[ClassOf[d]] = queue[ClassOf[d]]
          \/ (ClassOf[d] = k /\ queue'[k] = Tail(queue[k]))
    BY SchedulerConstants DEF Drain, ThreadsTyped, Classes
  <2>2. PICK x : /\ Holds(queue'[ClassOf[d]], x) /\ x.capability = d
                 /\ x.request = q /\ x.finality = "Terminal"
    BY <1>3 DEF IsQueued, Holds
  <2>3. Holds(queue[ClassOf[d]], x)
    BY <1>2, <2>1, <2>2
  <2> QED
    BY <2>2, <2>3, QueuedHolds
<1>4. CASE client' = Client("ack", d, q)
  <2> DEFINE e == Head(queue[k])
  <2>1. e.finality = "Terminal" /\ e.capability = d /\ e.request = q
    BY <1>4 DEF Drain, Client, Idle
  <2>2. ClassOf[d] = k
    <3>1. PICK i \in DOMAIN queue[k] : queue[k][i] = e
      BY <1>2 DEF Holds
    <3> QED
      BY <2>1, <3>1 DEF ThreadsTyped
  <2> QED
    BY <1>2, <2>1, <2>2, QueuedHolds
<1> QED
  BY <1>3, <1>4 DEF Visible

\* Only the lane that serves a request makes its terminal visible.
LEMMA NewlyVisible ==
  ASSUME ThreadsTyped, [RuntimeNext]_runtimeVars,
         NEW d \in Capabilities, NEW q \in Requests, Visible(d, q)', ~Visible(d, q)
  PROVE  EnqueueTerminal(d) /\ Serving(d) = q /\ StepTo(d, "queued")
<1>1. ASSUME NEW k \in Classes, Drain(k) PROVE FALSE
  BY <1>1, DrainShowsNothing DEF Visible
<1>2. ASSUME NEW c \in Capabilities, PublishProgress(c) PROVE FALSE
  <2>1. Serving(c) \in Requests
    BY <1>2 DEF PublishProgress, ThreadsTyped, Busy, At
  <2>2. /\ Event(c, Serving(c), "Progress", "primary") \in Events
        /\ Event(c, Serving(c), "Progress", "primary").finality = "Progress"
    BY <2>1 DEF Event, Events
  <2>3. client' = client
    BY <1>2 DEF PublishProgress, clientVars
  <2> QED
    BY <1>2, <2>2, <2>3, PushShows DEF PublishProgress, Visible
<1>3. ASSUME NEW c \in Capabilities, EnqueueTerminal(c)
      PROVE  c = d /\ Serving(d) = q /\ StepTo(d, "queued")
  <2>1. Serving(c) \in Requests
    BY <1>3 DEF EnqueueTerminal, ThreadsTyped, Busy, At
  <2>2. \A s \in {"primary", "mailbox"} :
          /\ Event(c, Serving(c), "Terminal", s) \in Events
          /\ Event(c, Serving(c), "Terminal", s).capability = c
          /\ Event(c, Serving(c), "Terminal", s).request = Serving(c)
    BY <2>1 DEF Event, Events
  <2>3. client' = client
    BY <1>3 DEF EnqueueTerminal, clientVars
  <2>4. IsQueued(d, q, "Terminal")' /\ ~IsQueued(d, q, "Terminal")
    BY <2>3 DEF Visible
  <2>5. \/ queue' = queue
        \/ /\ StepTo(c, "queued")
           /\ \E s \in {"primary", "mailbox"} : Push(Event(c, Serving(c), "Terminal", s))
    BY <1>3 DEF EnqueueTerminal
  <2>6. queue' # queue
    BY <2>4 DEF IsQueued
  <2> QED
    BY <2>2, <2>4, <2>5, <2>6, PushShows
<1>4. CASE \/ Poll \/ Repaint \/ Send \/ SubmissionFailed \/ Acknowledge \/ TimePasses
           \/ UNCHANGED runtimeVars
           \/ \E c \in Capabilities :
                \/ StartRefused(c) \/ RefuseManual(c) \/ ChangePolicy(c)
                \/ \E r \in Requests :
                     SubmitCapability(c, r) \/ \E s \in Scopes : SubmitTarget(c, r, s)
                \/ Take(c) \/ RenewLease(c) \/ AbortAndStop(c) \/ Record(c) \/ Paint(c)
                \/ \E h \in TerminalHealths : FinishAndClaim(c, h)
  <2>1. UNCHANGED queue
    BY <1>4 DEF Poll, Repaint, Send, SubmissionFailed, Acknowledge, TimePasses, StartRefused,
                RefuseManual, ChangePolicy, SubmitCapability, SubmitTarget, Take, RenewLease,
                AbortAndStop, Record, Paint, FinishAndClaim, workerVars, runtimeVars
  <2>2. \/ client' = client \/ client' = Idle
        \/ \E c, r : client' = Client("send", c, r) \/ Fail(c)
    BY <1>4 DEF Poll, Repaint, Send, SubmissionFailed, Acknowledge, TimePasses, StartRefused,
                RefuseManual, ChangePolicy, SubmitCapability, SubmitTarget, Take, RenewLease,
                AbortAndStop, Record, Paint, FinishAndClaim, clientVars, runtimeVars
  <2>3. Idle # Client("ack", d, q) /\ \A c, r : Client("send", c, r) # Client("ack", d, q)
    BY DEF Idle, Client
  <2>4. client' = Client("ack", d, q) => client' = client
    BY <2>2, <2>3, FailedSubmitsNothing
  <2> QED
    BY <2>1, <2>4 DEF Visible, IsQueued
<1> QED
  BY <1>1, <1>2, <1>3, <1>4 DEF RuntimeNext, ClientNext, WorkerNext, Serve

LEMMA LaneSteps ==
  ASSUME NEW c \in Capabilities, WorkerNext(c)
  PROVE  /\ At(c, "queued") => Record(c)
         /\ At(c, "painting") => Paint(c)
         /\ At(c, "claimed") => EnqueueTerminal(c)
         /\ At(c, "idle") => Take(c)
         /\ ~At(c, "stopped")
  BY DEF WorkerNext, Serve, Take, PublishProgress, RenewLease, FinishAndClaim, EnqueueTerminal,
         AbortAndStop, Record, Paint, At

\* A lane thread changes by a step of its own, or is started.
LEMMA LaneMoves ==
  ASSUME ThreadsTyped, [RuntimeNext]_runtimeVars, NEW d \in Capabilities
  PROVE  \/ worker'[d] = worker[d]
         \/ worker[d].step = "stopped" /\ worker'[d].step = "idle"
         \/ WorkerNext(d)
<1>1. CASE ClientNext
  BY <1>1, ClientServes
<1>2. ASSUME NEW c \in Capabilities, WorkerNext(c), c # d PROVE worker'[d] = worker[d]
  BY <1>2, WorkerServes, MovedServes DEF Take
<1>3. CASE TimePasses \/ UNCHANGED runtimeVars
  BY <1>3 DEF TimePasses, runtimeVars, workerVars
<1> QED
  BY <1>1, <1>2, <1>3 DEF RuntimeNext

\* A lane that is past its claim got there by claiming this request.
LEMMA ClaimedBefore ==
  ASSUME ThreadsTyped, [RuntimeNext]_runtimeVars, NEW c \in Capabilities,
         worker'[c].step \in {"claimed", "queued"}
  PROVE  \/ /\ worker[c].step \in {"claimed", "queued"}
            /\ worker'[c].request = worker[c].request
         \/ ClaimTerminal(c, Serving(c)) /\ worker'[c].request = Serving(c)
<1>1. CASE worker'[c] = worker[c]
  BY <1>1
<1>2. CASE WorkerNext(c)
  <2>1. ASSUME NEW step, StepTo(c, step)
        PROVE  worker'[c].request = worker[c].request /\ worker'[c].step = step
    BY <2>1, SteppedServes
  <2>2. ASSUME NEW next, Move(c, next) PROVE worker'[c] = next
    BY <2>2, MovedServes
  <2>3. /\ Resting.step = "idle"
        /\ \A step, r, h : Worker(step, r, h).step = step /\ Worker(step, r, h).request = r
    BY DEF Resting, Worker
  <2>4. CASE EnqueueTerminal(c)
    BY <2>1, <2>4 DEF EnqueueTerminal, At
  <2>5. ASSUME NEW h \in TerminalHealths, FinishAndClaim(c, h)
        PROVE  ClaimTerminal(c, Serving(c)) /\ worker'[c].request = Serving(c)
    BY <2>2, <2>3, <2>5 DEF FinishAndClaim
  <2>6. CASE \/ Take(c) \/ PublishProgress(c) \/ RenewLease(c) \/ AbortAndStop(c)
             \/ Record(c) \/ Paint(c)
    BY <2>1, <2>2, <2>3, <2>6
       DEF Take, PublishProgress, RenewLease, AbortAndStop, Record, Paint
  <2> QED
    BY <1>2, <2>4, <2>5, <2>6 DEF WorkerNext, Serve
<1> QED
  BY <1>1, <1>2, LaneMoves

LEMMA ClaimIsKeptStep ==
  ASSUME TypeOK, ThreadsTyped, BarrierIsHeld, PublicationOrder, [RuntimeNext]_runtimeVars
  PROVE  ClaimIsKept'
<1> SUFFICES ASSUME NEW c \in Capabilities, worker'[c].step \in {"claimed", "queued"},
                    permits'[c][worker'[c].request] = "Active"
             PROVE  FALSE
  BY DEF ClaimIsKept, Serving
<1>1. worker'[c].request \in Requests
  BY ThreadsTypedStep DEF ThreadsTyped, Busy, Serving
<1>2. CASE ClaimTerminal(c, Serving(c)) /\ worker'[c].request = Serving(c)
  BY <1>1, <1>2 DEF ClaimTerminal, SetPermit, TypeOK
<1>3. CASE worker[c].step \in {"claimed", "queued"} /\ worker'[c].request = Serving(c)
  <2>1. permits[c][Serving(c)] # "Active"
    BY <1>3 DEF PublicationOrder, ClaimIsKept
  <2>2. Admits(c, Serving(c)) \/ Aborts(c)
    BY <1>1, <1>3, <2>1, RuntimeStepKinds, PermitOpens
  <2>3. ~Admits(c, Serving(c))
    BY FreshIsNowhere DEF Admits
  <2> QED
    BY <1>3, <2>2, <2>3 DEF Aborts, At
<1> QED
  BY <1>2, <1>3, ClaimedBefore DEF Serving

\* How a request gets into a lane, to a lane thread or to the client.
LEMMA PlacedBefore ==
  ASSUME TypeOK, ThreadsTyped, [RuntimeNext]_runtimeVars,
         NEW d \in Capabilities, NEW q \in Requests
  PROVE  /\ InLane(d, q)' => InLane(d, q) \/ Submitting(d, q)
         /\ Submitting(d, q)' => Submitting(d, q) \/ Fresh(q)
         /\ Serves(d, q)' =>
              \/ InLane(d, q)
              \/ Serves(d, q) /\ (worker'[d] = worker[d] \/ WorkerNext(d))
<1>1. ASSUME InLane(d, q)' PROVE InLane(d, q) \/ Submitting(d, q)
  <2>1. CASE lane' = lane
    BY <1>1, <2>1 DEF InLane
  <2>2. CASE Send
    <3>1. /\ client.capability \in Capabilities /\ client.request \in Requests
          /\ Submitting(client.capability, client.request)
      BY <2>2 DEF Send, ThreadsTyped, Clients, Client, Submitting
    <3>2. \/ lane'[d] = lane[d]
          \/ d = client.capability /\ lane'[d] = Append(lane[d], client.request)
      BY <2>2, <3>1 DEF Send, ThreadsTyped
    <3>3. lane[d] \in Seq(Requests)
      BY DEF ThreadsTyped
    <3>4. Holds(Append(lane[d], client.request), q) => Holds(lane[d], q) \/ q = client.request
      BY <3>1, <3>3, AppendedOnce
    <3> QED
      BY <1>1, <3>1, <3>2, <3>4 DEF InLane
  <2>3. ASSUME NEW c \in Capabilities, Take(c) PROVE InLane(d, q)
    <3>1. lane'[d] = lane[d] \/ (c = d /\ lane'[d] = Tail(lane[d]))
      BY <2>3 DEF Take, ThreadsTyped
    <3>2. lane[c] \in Seq(Requests) /\ lane[c] # <<>>
      BY <2>3 DEF Take, ThreadsTyped
    <3>3. Holds(Tail(lane[c]), q) => Holds(lane[c], q)
      BY <3>2, TakenOnce
    <3> QED
      BY <1>1, <3>1, <3>3 DEF InLane
  <2>4. CASE \/ TimePasses \/ UNCHANGED runtimeVars \/ (ClientNext /\ ~Send)
    BY <2>1, <2>4
       DEF TimePasses, runtimeVars, workerVars, ClientNext, Poll, Repaint, SubmissionFailed,
           Acknowledge, Drain, StartRefused, RefuseManual, ChangePolicy, SubmitCapability,
           SubmitTarget
  <2>5. ASSUME NEW c \in Capabilities, WorkerNext(c), ~Take(c) PROVE InLane(d, q)
    BY <1>1, <2>5, WorkerServes DEF InLane
  <2> QED
    BY <2>2, <2>3, <2>4, <2>5 DEF RuntimeNext
<1>2. ASSUME Submitting(d, q)' PROVE Submitting(d, q) \/ Fresh(q)
  <2>1. CASE \E c \in Capabilities, r \in Requests : Admits(c, r)
    BY <1>2, <2>1 DEF Admits, Submitting, Client
  <2>2. CASE \/ client' = client \/ client' = Idle
             \/ \E c, r : client' = Client("ack", c, r) \/ Fail(c)
    <3>1. Idle # Client("send", d, q) /\ \A c, r : Client("ack", c, r) # Client("send", d, q)
      BY DEF Idle, Client
    <3> QED
      BY <1>2, <2>2, <3>1, FailedSubmitsNothing DEF Submitting
  <2>3. ASSUME NEW c \in Capabilities, NEW r \in Requests,
               SubmitCapability(c, r) \/ \E s \in Scopes : SubmitTarget(c, r, s)
        PROVE  Submitting(d, q) \/ Fresh(q)
    BY <2>1, <2>2, <2>3, SubmissionAdmits
  <2>4. CASE \/ TimePasses \/ UNCHANGED runtimeVars
             \/ Poll \/ Repaint \/ Send \/ SubmissionFailed \/ Acknowledge
             \/ \E k \in Classes : Drain(k)
             \/ \E c \in Capabilities : StartRefused(c) \/ RefuseManual(c) \/ ChangePolicy(c)
    BY <2>2, <2>4 DEF TimePasses, runtimeVars, clientVars, Poll, Repaint, Send,
                      SubmissionFailed, Acknowledge, Drain, StartRefused, RefuseManual,
                      ChangePolicy
  <2>5. ASSUME NEW c \in Capabilities, WorkerNext(c) PROVE client' = client
    BY <2>5, WorkerServes DEF Take, clientVars
  <2> QED
    BY <2>2, <2>3, <2>4, <2>5 DEF RuntimeNext, ClientNext
<1>3. ASSUME Serves(d, q)', ~InLane(d, q)
      PROVE  Serves(d, q) /\ (worker'[d] = worker[d] \/ WorkerNext(d))
  <2>1. CASE worker'[d] = worker[d]
    BY <1>3, <2>1 DEF Serves, Busy, Serving
  <2>2. CASE Take(d)
    <3>1. worker'[d].request = Head(lane[d])
      BY <2>2, MovedServes DEF Take, Worker
    <3>2. Holds(lane[d], Head(lane[d]))
      BY <2>2, TakenOnce DEF Take, ThreadsTyped
    <3> QED
      BY <1>3, <3>1, <3>2 DEF Serves, Serving, InLane
  <2>3. CASE WorkerNext(d) /\ ~Take(d)
    BY <1>3, <2>3, WorkerServes
  <2> QED
    BY <1>3, <2>1, <2>2, <2>3, LaneMoves DEF Serves, Busy
<1> QED
  BY <1>1, <1>2, <1>3

\* What is seen stays settled; what becomes seen is settled.
LEMMA VisibleIsSettledStep ==
  ASSUME TypeOK, ThreadsTyped, BarrierIsHeld, PublicationOrder, [RuntimeNext]_runtimeVars
  PROVE  VisibleIsSettled'
<1> SUFFICES ASSUME NEW d \in Capabilities, NEW q \in Requests, Visible(d, q)'
             PROVE  /\ ~InLane(d, q)' /\ ~Submitting(d, q)'
                    /\ permits'[d][q] # "Active"
                    /\ Serves(d, q)' => worker'[d].step \in {"queued", "painting"}
                    /\ Owns(d, q)' => Serves(d, q)' /\ At(d, "queued")'
  BY DEF VisibleIsSettled
<1>1. CASE ~Visible(d, q)
  <2>1. EnqueueTerminal(d) /\ Serving(d) = q /\ StepTo(d, "queued")
    BY <1>1, NewlyVisible
  <2>2. Serves(d, q) /\ worker[d].step = "claimed" /\ UNCHANGED <<schedVars, lane, client>>
    BY <2>1 DEF EnqueueTerminal, Serves, Busy, At, clientVars
  <2>3. ~InLane(d, q) /\ ~Submitting(d, q) /\ permits[d][q] # "Active"
    BY <2>1, <2>2 DEF PublicationOrder, OnePlace, ClaimIsKept
  <2>4. worker'[d].step = "queued" /\ worker'[d].request = q
    BY <2>1, SteppedServes DEF Serving
  <2> QED
    BY <2>2, <2>3, <2>4 DEF InLane, Submitting, schedVars, Serves, Busy, Serving, At
<1>2. CASE Visible(d, q)
  <2>1. /\ ~InLane(d, q) /\ ~Submitting(d, q) /\ permits[d][q] # "Active"
        /\ Serves(d, q) => worker[d].step \in {"queued", "painting"}
        /\ Owns(d, q) => Serves(d, q) /\ At(d, "queued")
    BY <1>2 DEF PublicationOrder, VisibleIsSettled
  <2>2. ~Fresh(q)
    <3>1. ASSUME Fresh(q), client = Client("ack", d, q) PROVE FALSE
      BY <3>1, FreshIsNowhere DEF Client
    <3>2. ASSUME Fresh(q), IsQueued(d, q, "Terminal") PROVE FALSE
      <4>1. ClassOf[d] \in Classes
        BY SchedulerConstants DEF Classes
      <4> QED
        BY <3>2, <4>1, FreshIsNowhere DEF IsQueued
    <3> QED
      BY <1>2, <3>1, <3>2 DEF Visible
  <2>3. ~InLane(d, q)' /\ ~Submitting(d, q)'
    BY <2>1, <2>2, PlacedBefore
  <2>4. permits'[d][q] # "Active"
    <3>1. ~(Aborts(d) /\ Serving(d) = q)
      BY <2>1 DEF Aborts, At, Serves, Busy
    <3> QED
      BY <2>1, <2>2, <3>1, RuntimeStepKinds, PermitOpens DEF Admits
  <2>5. ASSUME Serves(d, q)' PROVE worker'[d].step \in {"queued", "painting"}
    <3>1. Serves(d, q) /\ (worker'[d] = worker[d] \/ WorkerNext(d))
      BY <2>1, <2>5, PlacedBefore
    <3>2. CASE WorkerNext(d) /\ At(d, "queued")
      <4>1. Record(d)
        BY <3>2, LaneSteps
      <4>2. StepTo(d, "painting") \/ Move(d, Resting)
        BY <4>1 DEF Record
      <4> QED
        BY <2>5, <4>2, SteppedServes, MovedServes DEF Serves, Busy, Resting, Worker
    <3>3. CASE WorkerNext(d) /\ At(d, "painting")
      <4>1. Move(d, Resting)
        BY <3>3, LaneSteps DEF Paint
      <4> QED
        BY <2>5, <4>1, MovedServes DEF Serves, Busy, Resting, Worker
    <3> QED
      BY <2>1, <3>1, <3>2, <3>3 DEF At
  <2>6. ASSUME Owns(d, q)' PROVE Serves(d, q)' /\ At(d, "queued")'
    <3>1. Owns(d, q)
      BY <2>2, <2>6, RuntimeStepKinds DEF Shrinks, Admits, Claims, Aborts, Owns, HasJob
    <3>2. Serves(d, q) /\ At(d, "queued")
      BY <2>1, <3>1
    <3>3. ~WorkerNext(d)
      <4>1. SUFFICES ASSUME Record(d) PROVE FALSE
        BY <3>2, LaneSteps
      <4>2. Claimed(d, q)
        BY <2>1, <3>1 DEF PublicationOrder, OwnerHoldsPermit, HasPermit, Claimed, TypeOK
      <4>3. RecordHealth(d, q, worker[d].health)
        BY <3>1, <3>2, <4>1, <4>2 DEF Record, CanRecord, Serves
      <4> QED
        BY <2>6, <4>3, RecordShrinks DEF PublicationOrder
    <3>4. worker'[d] = worker[d]
      BY <3>2, <3>3, LaneMoves DEF At
    <3> QED
      BY <3>2, <3>4 DEF Serves, Busy, Serving, At
  <2> QED
    BY <2>3, <2>4, <2>5, <2>6
<1> QED
  BY <1>1, <1>2

LEMMA PublicationOrderInit == RuntimeInit => PublicationOrder
<1> SUFFICES ASSUME RuntimeInit PROVE PublicationOrder
  OBVIOUS
<1>1. \A c \in Capabilities, r \in Requests : ~HasJob(c, r) /\ ~OwnedBy(work[c], r)
  BY UnownedStates DEF RuntimeInit, Init, HasJob, NoJob, Job
<1>2. \A c \in Capabilities : lane[c] = <<>> /\ worker[c].step = "idle"
  BY DEF RuntimeInit, Resting, Worker
<1>3. DOMAIN <<>> = {}
  OBVIOUS
<1>4. \A c \in Capabilities : \A r : ~IsQueued(c, r, "Terminal")
  BY <1>3, SchedulerConstants DEF RuntimeInit, IsQueued, Classes
<1>5. \A c, r : ~Submitting(c, r) /\ client # Client("ack", c, r)
  BY DEF RuntimeInit, Submitting, Idle, Client
<1> QED
  BY <1>1, <1>2, <1>3, <1>4, <1>5
     DEF PublicationOrder, Exclusive, OwnerHoldsPermit, Owns, OnePlace, Distinct, InLane, Holds,
         Serves, Busy, VisibleIsSettled, Visible, ClaimIsKept

LEMMA PublicationOrderStep ==
  TypeOK /\ ThreadsTyped /\ BarrierIsHeld /\ PublicationOrder /\ [RuntimeNext]_runtimeVars
    => PublicationOrder'
  BY RuntimeStepKinds, ExclusiveStep, OwnerHoldsPermitStep, OnePlaceStep, VisibleIsSettledStep,
     ClaimIsKeptStep DEF PublicationOrder

LEMMA OrderIsKept ==
  RuntimeSpec => [](TypeOK /\ ThreadsTyped /\ BarrierIsHeld /\ PublicationOrder)
  BY RuntimeImplementsScheduler, SchedulerTypes, ThreadsTypedInit, ThreadsTypedStep, BarrierInit,
     BarrierStep, PublicationOrderInit, PublicationOrderStep, PTL DEF RuntimeSpec

\* For any number of lanes and requests, whatever the order of admission, claim,
\* enqueue, record, acknowledgement, cancellation and abandonment: a lifecycle
\* owner still has the permit it was admitted with.
THEOREM OwnersKeepTheirPermits == RuntimeSpec => []OwnerHoldsPermit
  BY OrderIsKept, PTL DEF PublicationOrder

\* A terminal the consumer can see is the last one of its request: no abort and
\* no later admission opens its permit again while it can be seen.
THEOREM VisibleTerminalsAreFinal == RuntimeSpec => []VisibleTerminalIsNotReopened
<1>1. VisibleIsSettled => VisibleTerminalIsNotReopened
  BY DEF VisibleIsSettled, VisibleTerminalIsNotReopened, Visible
<1> QED
  BY <1>1, OrderIsKept, PTL DEF PublicationOrder

\* The consumer is told of a completion only after the scheduler recorded it,
\* though the publisher makes the event visible before it records.
THEOREM AcknowledgementsFollowRecords == RuntimeSpec => AcknowledgedAfterRecord
<1>1. TypeOK /\ ThreadsTyped /\ BarrierIsHeld /\ PublicationOrder =>
        [Acknowledge => ~Owns(client.capability, client.request)]_runtimeVars
  BY AcknowledgedOwnsNothing DEF PublicationOrder
<1> QED
  BY <1>1, OrderIsKept, PTL DEF AcknowledgedAfterRecord

=============================================================================
