---------------------------- MODULE RequestSession ----------------------------
(***************************************************************************)
(* One request session of a page (request_session.rs) between the page that *)
(* asks, closes and asks again and the provider whose answers arrive when   *)
(* and in whatever order they like.  It is the affinity session, which also *)
(* keeps the last good answer; the batch and SMART sessions are the same    *)
(* machine without it.                                                      *)
(*                                                                         *)
(* Beginning an attempt, submitting it and accepting or rejecting it happen *)
(* in one handler of the application's thread, and so in one step.  An id   *)
(* is answered at most once, so that the order in which one batch folds its *)
(* results and failures makes no difference.                               *)
(***************************************************************************)
EXTENDS Naturals, Sequences

CONSTANTS
  Targets,    \* what a page asks about
  MaxAsks     \* bound: times a page asks

ASSUME SessionConstants == MaxAsks \in Nat

VARIABLES
  session,    \* ProcessAffinitySession
  asks        \* every attempt: its target, and what became of it

sessionVars == <<session, asks>>

None == [request |-> 0]
Answer(id, target) == [request |-> id, target |-> target]
Closed == [state |-> "closed"]
Session(state, id, target, good) ==
  [state |-> state, request |-> id, target |-> target, lastGood |-> good]
Loading == session.state = "loading"

-----------------------------------------------------------------------------
LastGoodFor(target) ==
  CASE session.state = "ready" /\ session.target = target -> Answer(session.request, target)
    [] session.state \in {"loading", "failed"} /\ session.target = target -> session.lastGood
    [] OTHER -> None

\* begin_attempt, then accept_attempt or reject_attempt.  A request that is
\* not accepted never had an id, and nothing will answer it.
Ask(target) ==
  /\ Len(asks) < MaxAsks
  /\ \/ /\ session' = Session("loading", Len(asks) + 1, target, LastGoodFor(target))
        /\ asks' = Append(asks, [target |-> target, status |-> "open"])
     \/ /\ session' = Session("failed", Len(asks) + 1, target, LastGoodFor(target))
        /\ asks' = Append(asks, [target |-> target, status |-> "rejected"])

Retry == session.state = "failed" /\ Ask(session.target)

Close ==
  /\ session.state # "closed"
  /\ session' = Closed
  /\ UNCHANGED asks

\* The runtime: a result, a failure, or a terminal that the transport loses.
Respond(id) ==
  /\ asks[id].status = "open"
  /\ \E status \in {"result", "failure", "lost"} : asks' = [asks EXCEPT ![id].status = status]
  /\ UNCHANGED session

Folded(id, was) ==
  asks[id].status = was /\ asks' = [asks EXCEPT ![id].status = "folded"]

\* Faulty: an answer for the same target will do.
FaultyComplete(id) ==
  /\ Folded(id, "result")
  /\ session' = IF Loading /\ session.target = asks[id].target
                  THEN Session("ready", id, session.target, None) ELSE session

Complete(id) ==
  /\ Folded(id, "result")
  /\ session' = IF Loading /\ session.request = id /\ session.target = asks[id].target
                  THEN Session("ready", id, session.target, None) ELSE session

\* Faulty: a failure is not shown when there is a good answer to show.
FaultyFail(id) ==
  /\ Folded(id, "failure")
  /\ session' = IF Loading /\ session.request = id /\ session.lastGood = None
                  THEN Session("failed", id, session.target, session.lastGood) ELSE session

Fail(id) ==
  /\ Folded(id, "failure")
  /\ session' = IF Loading /\ session.request = id
                  THEN Session("failed", id, session.target, session.lastGood) ELSE session

-----------------------------------------------------------------------------
SessionInit == session = Closed /\ asks = <<>>

SessionNext ==
  \/ \E target \in Targets : Ask(target)
  \/ Retry \/ Close
  \/ \E id \in DOMAIN asks : Respond(id) \/ Complete(id) \/ Fail(id)

\* The runtime ends every accepted request (the liveness of ProviderRuntime)
\* and the application folds what it drains in every tick.
SessionFairness ==
  /\ \A id \in 1 .. MaxAsks : WF_sessionVars(id \in DOMAIN asks /\ Respond(id))
  /\ \A id \in 1 .. MaxAsks : WF_sessionVars(id \in DOMAIN asks /\ (Complete(id) \/ Fail(id)))

SessionSpec == SessionInit /\ [][SessionNext]_sessionVars /\ SessionFairness

-----------------------------------------------------------------------------
(* Properties. *)

\* Whatever a page shows belongs to what it asked last: no late answer of an
\* earlier request is taken for the answer, and no last good answer of
\* another target is shown with it.
ShownAnswerIsCurrent ==
  session.state # "closed" =>
    /\ session.request = Len(asks)
    /\ session.target = asks[session.request].target
    /\ session.lastGood # None =>
         /\ session.lastGood.target = session.target
         /\ session.lastGood.request < session.request
         /\ asks[session.lastGood.request] = [target |-> session.target, status |-> "folded"]

\* A page that is loading comes to show an answer or a failure, unless the
\* terminal of its request was lost on the way: nothing else ends the wait.
LoadingEnds ==
  Loading ~> (~Loading \/ asks[session.request].status = "lost")
=============================================================================
