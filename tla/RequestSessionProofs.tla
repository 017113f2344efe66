------------------------- MODULE RequestSessionProofs -------------------------
(***************************************************************************)
(* What a page shows is current, for any targets and any number of asks.   *)
(* A request is folded at most once and stays folded, so that an answer    *)
(* that was good when it was kept is good for ever; that it belongs to an   *)
(* earlier ask of the same target is what the invariant carries along.     *)
(***************************************************************************)
EXTENDS RequestSession, TLAPS

Statuses == {"open", "rejected", "result", "failure", "lost", "folded"}
Asked == [target : Targets, status : Statuses]
Kept == {None} \cup [request : Nat, target : Targets]
Shown == [state : {"loading", "ready", "failed"}, request : Nat, target : Targets,
          lastGood : Kept]

GoodIn(a, answer, target) ==
  answer # None =>
    /\ answer.request \in 1 .. (Len(a) - 1) /\ answer.target = target
    /\ a[answer.request] = [target |-> target, status |-> "folded"]

SessionInv ==
  /\ asks \in Seq(Asked)
  /\ session # Closed =>
       /\ session \in Shown
       /\ Len(asks) # 0 /\ session.request = Len(asks)
       /\ session.target = asks[Len(asks)].target
       /\ session.state = "ready" =>
            session.lastGood = None /\ asks[Len(asks)].status = "folded"
       /\ GoodIn(asks, session.lastGood, session.target)

\* An answer kept from the session is good when the same target is asked again.
LEMMA KeptAnswerIsGood ==
  ASSUME SessionInv, NEW target \in Targets, NEW asked \in Asked
  PROVE  /\ LastGoodFor(target) \in Kept
         /\ GoodIn(Append(asks, asked), LastGoodFor(target), target)
<1> DEFINE a == Append(asks, asked)
<1>1. /\ a \in Seq(Asked) /\ Len(a) = Len(asks) + 1 /\ Len(asks) \in Nat
      /\ \A id \in 1 .. Len(asks) : a[id] = asks[id] /\ asks[id] \in Asked
  BY DEF SessionInv
<1>2. CASE session = Closed
  <2>1. LastGoodFor(target) = None
    BY <1>2 DEF LastGoodFor, Closed
  <2> QED
    BY <2>1 DEF GoodIn, Kept
<1>3. CASE session # Closed /\ session.target = target /\ session.state = "ready"
  <2>1. LastGoodFor(target) = [request |-> Len(asks), target |-> target]
    BY <1>3 DEF LastGoodFor, Answer, SessionInv
  <2>2. Len(asks) \in 1 .. Len(asks)
    BY <1>1, <1>3 DEF SessionInv
  <2>3. a[Len(asks)] = [target |-> target, status |-> "folded"]
    BY <1>1, <1>3, <2>2 DEF SessionInv, Asked
  <2> QED
    BY <2>1, <2>2, <2>3, <1>1 DEF GoodIn, Kept
<1>4. CASE session # Closed /\ session.target = target /\ session.state # "ready"
  <2>1. LastGoodFor(target) = session.lastGood /\ session.lastGood \in Kept
    BY <1>4 DEF LastGoodFor, SessionInv, Shown
  <2>2. GoodIn(asks, session.lastGood, target)
    BY <1>4 DEF SessionInv
  <2> QED
    BY <2>1, <2>2, <1>1 DEF GoodIn
<1>5. CASE session # Closed /\ session.target # target
  <2>1. LastGoodFor(target) = None
    BY <1>5 DEF LastGoodFor
  <2> QED
    BY <2>1 DEF GoodIn, Kept
<1> QED
  BY <1>2, <1>3, <1>4, <1>5

\* A page that has asked nothing shows nothing.
LEMMA InvInit == SessionInit => SessionInv
  BY DEF SessionInit, SessionInv

\* Asking keeps the invariant, accepted or rejected: what the session carries
\* over is of an earlier ask of the same target.
LEMMA AskKeepsInv ==
  ASSUME SessionInv, NEW target \in Targets, Ask(target)
  PROVE  SessionInv'
<1>1. PICK asked \in Asked, state \in {"loading", "failed"} :
        /\ asks' = Append(asks, asked) /\ asked.target = target
        /\ session' = Session(state, Len(asks) + 1, target, LastGoodFor(target))
  BY DEF Ask, Asked, Statuses
<1>2. asks' \in Seq(Asked) /\ Len(asks') = Len(asks) + 1 /\ asks'[Len(asks) + 1] = asked
      /\ Len(asks) \in Nat
  BY <1>1 DEF SessionInv
<1>3. LastGoodFor(target) \in Kept /\ GoodIn(asks', LastGoodFor(target), target)
  BY <1>1, KeptAnswerIsGood
<1>4. session'.state \in {"loading", "failed"} /\ session'.request = Len(asks')
      /\ session'.target = target /\ session'.lastGood = LastGoodFor(target)
      /\ session' \in Shown
  BY <1>1, <1>2, <1>3 DEF Session, Shown
<1> QED
  BY <1>1, <1>2, <1>3, <1>4 DEF SessionInv

\* The status of an ask may change as long as a folded one stays folded: no
\* answer kept or shown turns bad.
LEMMA GoodStaysGood ==
  ASSUME SessionInv, NEW id \in DOMAIN asks, NEW status \in Statuses,
         asks[id].status # "folded",
         asks' = [asks EXCEPT ![id].status = status]
  PROVE  /\ asks' \in Seq(Asked) /\ Len(asks') = Len(asks) /\ Len(asks) \in Nat
         /\ \A k \in 1 .. Len(asks) :
              /\ asks'[k].target = asks[k].target
              /\ asks[k].status = "folded" => asks'[k] = asks[k]
         /\ asks'[id].status = status
         /\ session # Closed => GoodIn(asks', session.lastGood, session.target)
         /\ session' = session => SessionInv'
<1>1. asks \in Seq(Asked) /\ DOMAIN asks = 1 .. Len(asks) /\ Len(asks) \in Nat
      /\ \A k \in 1 .. Len(asks) : asks[k] \in Asked
  BY DEF SessionInv
<1>2. asks' = [asks EXCEPT ![id] = [asks[id] EXCEPT !.status = status]]
      /\ [asks[id] EXCEPT !.status = status] \in Asked
  BY <1>1 DEF Asked
<1>3. asks' \in Seq(Asked) /\ Len(asks') = Len(asks)
  BY <1>1, <1>2
<1>4. \A k \in 1 .. Len(asks) :
        /\ asks'[k].target = asks[k].target
        /\ asks[k].status = "folded" => asks'[k] = asks[k]
  BY <1>1, <1>2 DEF Asked
<1>5. asks'[id].status = status
  BY <1>1, <1>2 DEF Asked
<1>6. session # Closed => GoodIn(asks', session.lastGood, session.target)
  BY <1>1, <1>3, <1>4 DEF SessionInv, GoodIn
<1>7. ASSUME session' = session PROVE SessionInv'
  <2>1. CASE session = Closed
    BY <1>3, <1>7, <2>1 DEF SessionInv
  <2>2. CASE session # Closed
    <3>1. Len(asks) \in 1 .. Len(asks)
      BY <1>1, <2>2 DEF SessionInv
    <3>2. session.target = asks'[Len(asks)].target
          /\ (session.state = "ready" => asks'[Len(asks)].status = "folded")
      BY <1>4, <2>2, <3>1 DEF SessionInv
    <3> QED
      BY <1>3, <1>6, <1>7, <2>2, <3>2 DEF SessionInv
  <2> QED
    BY <2>1, <2>2
<1> QED
  BY <1>1, <1>3, <1>4, <1>5, <1>6, <1>7

\* The runtime's answers change nothing that is shown.
LEMMA RespondKeepsInv ==
  ASSUME SessionInv, NEW id \in DOMAIN asks, Respond(id)
  PROVE  SessionInv'
<1>1. PICK status \in Statuses : asks' = [asks EXCEPT ![id].status = status]
  BY DEF Respond, Statuses
<1>2. asks[id].status # "folded" /\ session' = session
  BY DEF Respond
<1> QED
  BY <1>1, <1>2, GoodStaysGood

\* Folding an answer keeps the invariant: only that of the latest ask is
\* shown, and it is folded in the same step.
LEMMA FoldKeepsInv ==
  ASSUME SessionInv, NEW id \in DOMAIN asks, Complete(id) \/ Fail(id)
  PROVE  SessionInv'
<1>1. asks' = [asks EXCEPT ![id].status = "folded"] /\ asks[id].status # "folded"
      /\ "folded" \in Statuses
  BY DEF Complete, Fail, Folded, Statuses
<1>2. /\ asks' \in Seq(Asked) /\ Len(asks') = Len(asks) /\ Len(asks) \in Nat
      /\ \A k \in 1 .. Len(asks) :
           /\ asks'[k].target = asks[k].target
           /\ asks[k].status = "folded" => asks'[k] = asks[k]
      /\ asks'[id].status = "folded"
      /\ session # Closed => GoodIn(asks', session.lastGood, session.target)
  BY <1>1, GoodStaysGood
<1>3. CASE session' = session
  BY <1>1, <1>3, GoodStaysGood
<1>4. CASE /\ Loading /\ session.request = id
           /\ session' = Session("ready", id, session.target, None)
  <2>1. session # Closed /\ session.request = Len(asks) /\ Len(asks) # 0
        /\ session.target = asks[Len(asks)].target /\ session \in Shown
    BY <1>4 DEF SessionInv, Loading, Closed
  <2>2. session' \in Shown /\ session'.request = Len(asks') /\ session'.lastGood = None
        /\ session'.target = asks'[Len(asks')].target
    BY <1>2, <1>4, <2>1 DEF Session, Shown, Kept
  <2> QED
    BY <1>2, <1>4, <2>1, <2>2 DEF SessionInv, GoodIn
<1>5. CASE /\ Loading /\ session.request = id
           /\ session' = Session("failed", id, session.target, session.lastGood)
  <2>1. session # Closed /\ session.request = Len(asks) /\ Len(asks) # 0
        /\ session.target = asks[Len(asks)].target /\ session \in Shown
    BY <1>5 DEF SessionInv, Loading, Closed
  <2>2. session' \in Shown /\ session'.request = Len(asks') /\ session'.state = "failed"
        /\ session'.lastGood = session.lastGood /\ session'.target = session.target
        /\ session'.target = asks'[Len(asks')].target
    BY <1>2, <1>5, <2>1 DEF Session, Shown
  <2> QED
    BY <1>2, <2>1, <2>2 DEF SessionInv
<1> QED
  BY <1>3, <1>4, <1>5 DEF Complete, Fail

\* Every step keeps the invariant.
LEMMA InvStep == SessionInv /\ [SessionNext]_sessionVars => SessionInv'
<1> SUFFICES ASSUME SessionInv, [SessionNext]_sessionVars PROVE SessionInv'
  OBVIOUS
<1>1. ASSUME NEW target \in Targets, Ask(target) PROVE SessionInv'
  BY <1>1, AskKeepsInv
<1>2. CASE Retry
  <2>1. session # Closed /\ session.state = "failed"
    BY <1>2 DEF Retry, Closed
  <2>2. asks[Len(asks)] \in Asked
    BY <2>1 DEF SessionInv
  <2>3. session.target \in Targets
    BY <2>1, <2>2 DEF SessionInv, Asked
  <2> QED
    BY <1>2, <2>3, AskKeepsInv DEF Retry
<1>3. CASE Close
  BY <1>3 DEF Close, SessionInv
<1>4. ASSUME NEW id \in DOMAIN asks, Respond(id) \/ Complete(id) \/ Fail(id)
      PROVE  SessionInv'
  BY <1>4, RespondKeepsInv, FoldKeepsInv
<1>5. CASE UNCHANGED sessionVars
  BY <1>5 DEF sessionVars, SessionInv, GoodIn
<1> QED
  BY <1>1, <1>2, <1>3, <1>4, <1>5 DEF SessionNext

\* The invariant says what the property asks of the page.
LEMMA InvImpliesCurrent == SessionInv => ShownAnswerIsCurrent
<1> SUFFICES ASSUME SessionInv, session.state # "closed" PROVE ShownAnswerIsCurrent
  BY DEF ShownAnswerIsCurrent
<1>1. session # Closed
  BY DEF Closed
<1> QED
  BY <1>1 DEF SessionInv, ShownAnswerIsCurrent, GoodIn

\* What a page shows belongs to what it asked last, for any number of asks
\* of any targets answered in any order (request_session.rs).
THEOREM SessionShowsCurrent == SessionSpec => []ShownAnswerIsCurrent
<1>1. SessionSpec => []SessionInv
  BY InvInit, InvStep, PTL DEF SessionSpec
<1> QED
  BY <1>1, InvImpliesCurrent, PTL
=============================================================================
