----------------------------- MODULE LaneStart -----------------------------
(***************************************************************************)
(* One on-demand provider lane (delivery/worker/registry.rs): the slot     *)
(* that starts its thread for the first request, the thread that retires   *)
(* when it has been idle, and the callers of try_submit, which run on any  *)
(* thread that shares the request port.                                    *)
(*                                                                         *)
(* The slot's mutex covers only the changes of its state: the start of a   *)
(* thread, its retirement and the send into the lane happen outside it and *)
(* interleave freely.  What the requests are is left to ProviderRuntime;   *)
(* the lane is the number of requests in it.                               *)
(***************************************************************************)
EXTENDS Naturals, FiniteSets

CONSTANTS
  Callers,        \* threads that submit to this lane
  Threads,        \* OS threads the WorkerRuntime may have for it
  LaneCapacity    \* request slots of the lane

ASSUME LaneConstants == LaneCapacity \in Nat \ {0}

VARIABLES
  slot,      \* LaneStartState
  caller,    \* where each caller is in ensure_started and the send after it
  thread,    \* where each lane thread is
  backlog,   \* requests in the lane
  refused    \* whether a start was ever refused (history)

vars == <<slot, caller, thread, backlog, refused>>

Alive == {t \in Threads : thread[t] # "none"}

-----------------------------------------------------------------------------
(* Callers: ensure_started, then the send of try_submit. *)

Submit(p) ==
  /\ caller[p] = "idle"
  /\ caller' = [caller EXCEPT ![p] = "checking"]
  /\ UNCHANGED <<slot, thread, backlog, refused>>

\* Faulty: a caller does not wait for the start under way.
FaultyCheck(p) ==
  /\ caller[p] = "checking"
  /\ IF slot = "Running"
       THEN caller' = [caller EXCEPT ![p] = "sending"] /\ UNCHANGED slot
       ELSE caller' = [caller EXCEPT ![p] = "starting"] /\ slot' = "Starting"
  /\ UNCHANGED <<thread, backlog, refused>>

\* One turn of the loop under the lock.
Check(p) ==
  /\ caller[p] = "checking"
  /\ CASE slot = "Running"  -> caller' = [caller EXCEPT ![p] = "sending"] /\ UNCHANGED slot
       [] slot = "Starting" -> caller' = [caller EXCEPT ![p] = "asleep"] /\ UNCHANGED slot
       [] slot = "Dormant"  -> caller' = [caller EXCEPT ![p] = "starting"] /\ slot' = "Starting"
  /\ UNCHANGED <<thread, backlog, refused>>

Spawn(p, t) ==
  /\ caller[p] = "starting" /\ thread[t] = "none"
  /\ thread' = [thread EXCEPT ![t] = "receiving"]
  /\ caller' = [caller EXCEPT ![p] = "started"]
  /\ UNCHANGED <<slot, backlog, refused>>

\* The thread limits are shared with every other lane; the system may refuse.
SpawnFails(p) ==
  /\ caller[p] = "starting"
  /\ caller' = [caller EXCEPT ![p] = "notStarted"]
  /\ refused' = TRUE
  /\ UNCHANGED <<slot, thread, backlog>>

\* Faulty: nobody is woken.
FaultyNotifyAll(own) ==
  caller' = [q \in Callers |-> IF q \in DOMAIN own THEN own[q] ELSE caller[q]]

\* changed.notify_all, together with a caller's own next step.
NotifyAll(own) ==
  caller' = [q \in Callers |->
    IF q \in DOMAIN own THEN own[q]
    ELSE IF caller[q] = "asleep" THEN "checking" ELSE caller[q]]

\* The starter returned; a refusal goes back to the caller of try_submit.
Settle(p) ==
  /\ caller[p] \in {"started", "notStarted"}
  /\ slot' = IF slot # "Starting" THEN slot
             ELSE IF caller[p] = "started" THEN "Running" ELSE "Dormant"
  /\ NotifyAll([q \in {p} |-> IF caller[p] = "started" THEN "sending" ELSE "idle"])
  /\ UNCHANGED <<thread, backlog, refused>>

\* Faulty: the bound of the lane is not checked.
FaultySend(p) ==
  /\ caller[p] = "sending"
  /\ backlog' = backlog + 1
  /\ caller' = [caller EXCEPT ![p] = "idle"]
  /\ UNCHANGED <<slot, thread, refused>>

\* A full lane answers Busy.
Send(p) ==
  /\ caller[p] = "sending"
  /\ backlog' = IF backlog < LaneCapacity THEN backlog + 1 ELSE backlog
  /\ caller' = [caller EXCEPT ![p] = "idle"]
  /\ UNCHANGED <<slot, thread, refused>>

-----------------------------------------------------------------------------
(* The lane thread: recv_or_shutdown_with_idle and the loop around it. *)

Receive(t) ==
  /\ thread[t] = "receiving" /\ backlog > 0
  /\ backlog' = backlog - 1
  /\ thread' = [thread EXCEPT ![t] = "executing"]
  /\ UNCHANGED <<slot, caller, refused>>

Publish(t) ==
  /\ thread[t] = "executing"
  /\ thread' = [thread EXCEPT ![t] = "receiving"]
  /\ UNCHANGED <<slot, caller, backlog, refused>>

\* LaneFlow::Stop ends the loop.
StopLane(t) ==
  /\ thread[t] = "executing"
  /\ thread' = [thread EXCEPT ![t] = "retiring"]
  /\ UNCHANGED <<slot, caller, backlog, refused>>

\* The idle timer fires.  A message that arrives together with it may lose
\* the select: that is a retirement just before the message.
IdleTimeout(t) ==
  /\ thread[t] = "receiving" /\ backlog = 0
  /\ thread' = [thread EXCEPT ![t] = "retiring"]
  /\ UNCHANGED <<slot, caller, backlog, refused>>

\* Faulty: the thread ends without telling the slot.
FaultyMarkStopped(t) ==
  /\ thread[t] = "retiring"
  /\ thread' = [thread EXCEPT ![t] = "none"]
  /\ UNCHANGED <<slot, caller, backlog, refused>>

MarkStopped(t) ==
  /\ thread[t] = "retiring"
  /\ slot' = "Dormant"
  /\ NotifyAll([q \in {} |-> "idle"])
  /\ thread' = [thread EXCEPT ![t] = "none"]
  /\ UNCHANGED <<backlog, refused>>

-----------------------------------------------------------------------------
Init ==
  /\ slot = "Dormant"
  /\ caller = [p \in Callers |-> "idle"]
  /\ thread = [t \in Threads |-> "none"]
  /\ backlog = 0
  /\ refused = FALSE

CallerStep(p) ==
  Check(p) \/ (\E t \in Threads : Spawn(p, t)) \/ SpawnFails(p) \/ Settle(p) \/ Send(p)

ThreadStep(t) == Receive(t) \/ Publish(t) \/ MarkStopped(t)

Next ==
  \/ \E p \in Callers : Submit(p) \/ CallerStep(p)
  \/ \E t \in Threads : ThreadStep(t) \/ StopLane(t) \/ IdleTimeout(t)

Spec == Init /\ [][Next]_vars

\* Threads are scheduled and mutexes handed on; the route's cadence submits
\* again and again, and the thread limits do not refuse every attempt.
\* Providers answer in the end here (Publish).
FairSpec ==
  /\ Spec
  /\ \A p \in Callers :
       /\ WF_vars(Submit(p)) /\ WF_vars(CallerStep(p))
       /\ SF_vars(\E t \in Threads : Spawn(p, t))
  /\ \A t \in Threads : WF_vars(ThreadStep(t))

-----------------------------------------------------------------------------
(* Properties. *)

\* The slot, the callers and the threads are in states the code has.
TypeOK ==
  /\ slot \in {"Dormant", "Starting", "Running"}
  /\ caller \in [Callers -> {"idle", "checking", "asleep", "starting", "started",
                             "notStarted", "sending"}]
  /\ thread \in [Threads -> {"none", "receiving", "executing", "retiring"}]
  /\ backlog \in 0 .. LaneCapacity
  /\ refused \in BOOLEAN

AtMostOneThread == \A t, u \in Alive : t = u

StartingHasStarter ==
  slot = "Starting" =>
    \E p \in Callers : caller[p] \in {"starting", "started", "notStarted"}

DormantHasNoThread == slot = "Dormant" => Alive = {}

\* However starts, refusals and retirements interleave, the slot tells its
\* callers what is so: a lane never has two threads (the provider closure has
\* one user and requests stay in order), callers that wait for a start wait
\* for one that somebody carries out, and a slot that offers a new start has
\* no thread left whose late mark_stopped could take down its successor.
SlotIsHonest == AtMostOneThread /\ StartingHasStarter /\ DormantHasNoThread

\* A request in the lane is served, even if the thread retired just before it
\* was sent: the next submission starts a new one.  (Unless a start was ever
\* refused: RetiredLaneStartsAgain says what can happen then.)
BacklogIsServed ==
  backlog > 0 ~> refused \/ \E t \in Threads : thread[t] = "executing"

\* Nobody sleeps on the slot for ever: every change of state wakes it.
SleepersWake == \A p \in Callers : caller[p] = "asleep" ~> caller[p] # "asleep"

(* What a comment in the code says and the code does not quite keep. *)

\* registry.rs: a worker that retired early leaves Dormant behind "so a later
\* request can start it again instead of falsely reporting Running": requests
\* keep coming and not every start is refused, so a thread appears again.
RetiredLaneStartsAgain == Alive = {} ~> Alive # {}
=============================================================================
