---------------------------- MODULE EventStream ----------------------------
(***************************************************************************)
(* What the event port promises its consumer: an event that was published  *)
(* is delivered exactly once, and in the end; a terminal is lost only if   *)
(* Capacity terminals are already waiting.  EventDelivery implements this. *)
(***************************************************************************)
EXTENDS Naturals, FiniteSets, Sequences, SequencesExt

CONSTANTS
  Classes,   \* the partitions of the stream
  Capacity,  \* terminals that are retained for a slow consumer
  NoOffer

VARIABLES
  pending,   \* published and undelivered, oldest first, by class
  offer      \* the publication under way

streamVars == <<pending, offer>>

Finalities == {"Progress", "Terminal"}

Waiting == UNION {{<<k, i>> : i \in {j \in DOMAIN pending[k] : pending[k][j] = "Terminal"}}
                   : k \in Classes}

Init ==
  /\ pending = [k \in Classes |-> <<>>]
  /\ offer = NoOffer

Offer(k, finality) ==
  /\ offer = NoOffer
  /\ offer' = <<k, finality>>
  /\ UNCHANGED pending

Accept ==
  /\ offer # NoOffer
  /\ pending' = [pending EXCEPT ![offer[1]] = Append(@, offer[2])]
  /\ offer' = NoOffer

Refuse ==
  /\ offer # NoOffer
  /\ offer[2] = "Terminal" => Cardinality(Waiting) >= Capacity
  /\ offer' = NoOffer
  /\ UNCHANGED pending

Deliver(k, i) ==
  /\ i \in DOMAIN pending[k]
  /\ pending' = [pending EXCEPT ![k] = RemoveAt(@, i)]
  /\ UNCHANGED offer

Next ==
  \/ \E k \in Classes, f \in Finalities : Offer(k, f)
  \/ Accept
  \/ Refuse
  \/ \E k \in Classes : \E i \in DOMAIN pending[k] : Deliver(k, i)

\* No class starves the other, and nothing stays the oldest for ever.
Fairness == \A k \in Classes : WF_streamVars(Deliver(k, 1))

Spec == Init /\ [][Next]_streamVars /\ Fairness
=============================================================================
