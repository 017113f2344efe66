--------------------------- MODULE EventDelivery ---------------------------
(***************************************************************************)
(* The event transport between the provider lanes and the application      *)
(* (delivery/publisher.rs, event_queue.rs, event_port.rs): for each class  *)
(* a bounded primary channel, a mailbox that retains the terminals the     *)
(* channel has no room for, and a port that merges the two by sequence and *)
(* the classes by turns.                                                   *)
(*                                                                         *)
(* events[k] lists the undelivered events of a class in the order of their *)
(* EventSequence, so comparing two sequences of a class is comparing two   *)
(* positions and no counter has to be bounded.  The store of an event says *)
(* where it is: with the publisher ("sending", "overflow"), in the channel *)
(* ("primary"), in the slot of the port that holds a received but not yet  *)
(* chosen event ("held"), or in the mailbox.  All of a publication happens *)
(* under the commit lock, all of a try_recv on the application thread; the *)
(* two interleave between any two accesses to shared state.                *)
(***************************************************************************)
EXTENDS Naturals, FiniteSets, Sequences, SequencesExt, FiniteSetsExt

CONSTANTS
  PrimaryCapacity,   \* QueueCapacities: slots of a primary channel
  TerminalCapacity,  \* EventQueueState::terminal_capacity
  Nobody             \* no publisher holds the commit lock

Classes == {"Control", "Observation"}
Alternate(k) == IF k = "Control" THEN "Observation" ELSE "Control"
Finalities == {"Progress", "Terminal"}

\* Nobody is neither a class nor a publication to one.
ASSUME DeliveryConstants ==
  /\ PrimaryCapacity \in Nat \ {0} /\ TerminalCapacity \in Nat \ {0}
  /\ Nobody \notin Classes \cup (Classes \X Finalities)

VARIABLES
  events,      \* undelivered events of each class, in sequence order
  commit,      \* SequenceCommitter: the class being published to, or Nobody
  port,        \* FairEventPort: where the running try_recv is
  turn,        \* FairEventPort::next_partition
  pending,     \* QueuePressure: the primary gauge of each class
  mailPending, \* QueuePressure: the mailbox gauge
  closed       \* every sender is gone: the runtime has stopped

gauges == <<pending, mailPending>>
deliveryVars == <<events, commit, port, turn, pending, mailPending, closed>>

Event(finality, store) == [finality |-> finality, store |-> store]
At(k, store) == {i \in DOMAIN events[k] : events[k][i].store = store}
Published(k) == {i \in DOMAIN events[k] : events[k][i].store \in {"primary", "held", "mailbox"}}
Oldest(k, store) == Min(At(k, store))
MailboxSize == Cardinality(At("Control", "mailbox")) + Cardinality(At("Observation", "mailbox"))

Staged == Last(events[commit])                 \* the event being published
PutStaged(store) ==
  events' = [events EXCEPT ![commit][Len(events[commit])].store = store]
DropStaged == events' = [events EXCEPT ![commit] = Front(@)]

Minus1(n) == IF n = 0 THEN 0 ELSE n - 1        \* saturating_sub(1)

-----------------------------------------------------------------------------
(* Publishing: RuntimeEventPublisher::enqueue. *)

\* Take the commit lock and the next sequence; primary_pushed.
Allocate(k, finality) ==
  /\ commit = Nobody /\ ~closed
  /\ commit' = k
  /\ events' = [events EXCEPT ![k] = Append(@, Event(finality, "sending"))]
  /\ pending' = [pending EXCEPT ![k] = @ + 1]
  /\ UNCHANGED <<port, turn, mailPending, closed>>

Sending == commit # Nobody /\ Staged.store = "sending"

SendPrimary ==
  /\ Sending
  /\ Cardinality(At(commit, "primary")) < PrimaryCapacity
  /\ PutStaged("primary")
  /\ commit' = Nobody
  /\ UNCHANGED <<port, turn, gauges, closed>>

\* Faulty: the event that did not fit stays counted.
FaultyPrimaryFull ==
  /\ Sending
  /\ Cardinality(At(commit, "primary")) = PrimaryCapacity
  /\ PutStaged("overflow")
  /\ UNCHANGED <<commit, port, turn, gauges, closed>>

\* TrySendError::Full; primary_popped.
PrimaryFull ==
  /\ Sending
  /\ Cardinality(At(commit, "primary")) = PrimaryCapacity
  /\ PutStaged("overflow")
  /\ pending' = [pending EXCEPT ![commit] = Minus1(@)]
  /\ UNCHANGED <<commit, port, turn, mailPending, closed>>

Overflowing == commit # Nobody /\ Staged.store = "overflow"
\* Faulty: the bound of the mailbox is one too high.
FaultyCanRetain == Staged.finality = "Terminal" /\ MailboxSize <= TerminalCapacity

CanRetain == Staged.finality = "Terminal" /\ MailboxSize < TerminalCapacity

RetainTerminal ==
  /\ Overflowing /\ CanRetain
  /\ PutStaged("mailbox")
  /\ mailPending' = mailPending + 1
  /\ commit' = Nobody
  /\ UNCHANGED <<port, turn, pending, closed>>

\* Progress is coalesced, a terminal an InvariantViolation.
DropEvent ==
  /\ Overflowing /\ ~CanRetain
  /\ DropStaged
  /\ commit' = Nobody
  /\ UNCHANGED <<port, turn, gauges, closed>>

\* The last lane drops the publisher, and with it both senders.
Close ==
  /\ commit = Nobody /\ ~closed
  /\ closed' = TRUE
  /\ UNCHANGED <<events, commit, port, turn, gauges>>

-----------------------------------------------------------------------------
(* Receiving: FairEventPort::try_recv, one try_recv_class after the other. *)

\* class: the partition tried; first: the one tried first; known: how many
\* events of the class were published when its channel was read (history);
\* gone: the partitions found disconnected.
Port(step, k, first, known, gone) ==
  [step |-> step, class |-> k, first |-> first, known |-> known, gone |-> gone]
Resting == Port("idle", "Control", "Control", 0, {})
Stopped == Port("stopped", "Control", "Control", 0, {})   \* Err(RuntimeStopped)
Move(step) == port' = [port EXCEPT !.step = step]

BeginReceive ==
  /\ port \in {Resting, Stopped}
  /\ port' = Port("fetch", turn, turn, 0, {})
  /\ UNCHANGED <<events, commit, turn, gauges, closed>>

\* receiver.try_recv() into the slot, unless the slot is taken.
Fetch ==
  LET k == port.class
      empty == At(k, "held") = {} /\ At(k, "primary") = {}
  IN  /\ port.step = "fetch"
      /\ IF At(k, "held") = {} /\ At(k, "primary") # {}
           THEN events' = [events EXCEPT ![k][Oldest(k, "primary")].store = "held"]
           ELSE UNCHANGED events
      /\ port' = [port EXCEPT !.step = "compare", !.known = Cardinality(Published(k)),
                              !.gone = IF closed /\ empty THEN @ \cup {k} ELSE @]
      /\ UNCHANGED <<commit, turn, gauges, closed>>

\* Faulty: retained terminals always come first.
FaultyCompare ==
  LET mail == At(port.class, "mailbox")
  IN  /\ port.step = "compare"
      /\ IF mail = {} /\ At(port.class, "held") # {}
           THEN port' = [port EXCEPT !.step = "slot"]
           ELSE port' = [port EXCEPT !.step = "mailbox",
                                     !.gone = IF mail = {} THEN @ ELSE @ \ {port.class}]
      /\ UNCHANGED <<events, commit, turn, gauges, closed>>

\* terminal_front_sequence: the slot wins unless the mailbox front is older.
Compare ==
  LET k == port.class
      slot == At(k, "held")
      mail == At(k, "mailbox")
  IN  /\ port.step = "compare"
      /\ IF slot # {} /\ (mail = {} \/ Oldest(k, "held") < Oldest(k, "mailbox"))
           THEN port' = [port EXCEPT !.step = "slot"]
           ELSE port' = [port EXCEPT !.step = "mailbox",
                                     !.gone = IF mail = {} THEN @ ELSE @ \ {k}]
      /\ UNCHANGED <<events, commit, turn, gauges, closed>>

TakeOut(k, i) == events' = [events EXCEPT ![k] = RemoveAt(@, i)]

TakeSlot ==
  /\ port.step = "slot"
  /\ TakeOut(port.class, Oldest(port.class, "held"))
  /\ Move("slotTaken")
  /\ UNCHANGED <<commit, turn, gauges, closed>>

\* pop_terminal up to the unlock.
PopTerminal ==
  /\ port.step = "mailbox" /\ At(port.class, "mailbox") # {}
  /\ TakeOut(port.class, Oldest(port.class, "mailbox"))
  /\ Move("mailTaken")
  /\ UNCHANGED <<commit, turn, gauges, closed>>

\* Faulty: the class that was served keeps the turn.
FaultyDeliver ==
  /\ \/ /\ port.step = "slotTaken"
        /\ pending' = [pending EXCEPT ![port.class] = Minus1(@)]
        /\ UNCHANGED mailPending
     \/ /\ port.step = "mailTaken"
        /\ mailPending' = Minus1(mailPending)
        /\ UNCHANGED pending
  /\ turn' = port.class
  /\ port' = Resting
  /\ UNCHANGED <<events, commit, closed>>

\* The gauge is counted down, the other class gets the next turn.
Deliver ==
  /\ \/ /\ port.step = "slotTaken"
        /\ pending' = [pending EXCEPT ![port.class] = Minus1(@)]
        /\ UNCHANGED mailPending
     \/ /\ port.step = "mailTaken"
        /\ mailPending' = Minus1(mailPending)
        /\ UNCHANGED pending
  /\ turn' = Alternate(port.class)
  /\ port' = Resting
  /\ UNCHANGED <<events, commit, closed>>

Nothing == port.step = "mailbox" /\ At(port.class, "mailbox") = {}

TrySecond ==
  /\ Nothing /\ port.class = port.first
  /\ port' = Port("fetch", Alternate(port.class), port.first, 0, port.gone)
  /\ UNCHANGED <<events, commit, turn, gauges, closed>>

\* Faulty: one disconnected partition stops the port.
FaultyGiveUp ==
  /\ Nothing /\ port.class # port.first
  /\ port' = IF port.gone # {} /\ MailboxSize = 0 THEN Stopped ELSE Resting
  /\ UNCHANGED <<events, commit, turn, gauges, closed>>

GiveUp ==
  /\ Nothing /\ port.class # port.first
  /\ port' = IF port.gone = Classes /\ MailboxSize = 0 THEN Stopped ELSE Resting
  /\ UNCHANGED <<events, commit, turn, gauges, closed>>

-----------------------------------------------------------------------------
DeliveryInit ==
  /\ events = [k \in Classes |-> <<>>]
  /\ commit = Nobody
  /\ port = Resting
  /\ turn = "Control"
  /\ pending = [k \in Classes |-> 0]
  /\ mailPending = 0
  /\ closed = FALSE

PublishStaged == SendPrimary \/ PrimaryFull \/ RetainTerminal \/ DropEvent

TryRecv ==
  \/ BeginReceive \/ Fetch \/ Compare \/ TakeSlot \/ PopTerminal
  \/ Deliver \/ TrySecond \/ GiveUp

DeliveryNext ==
  \/ \E k \in Classes, f \in Finalities : Allocate(k, f)
  \/ PublishStaged
  \/ Close
  \/ TryRecv

\* The frontend calls try_drain in every frame; nobody has to publish.
DeliverySpec == DeliveryInit /\ [][DeliveryNext]_deliveryVars /\ WF_deliveryVars(TryRecv)

-----------------------------------------------------------------------------
(* Properties. *)

\* Channels, slot and mailbox stay within their bounds, and only the newest
\* event of the class under commit is still with its publisher.
DeliveryTypeOK ==
  /\ \A k \in Classes :
       /\ events[k] \in Seq([finality : Finalities,
                             store : {"sending", "overflow", "primary", "held", "mailbox"}])
       /\ Cardinality(At(k, "primary")) <= PrimaryCapacity
       /\ Cardinality(At(k, "held")) <= 1
       /\ At(k, "sending") \cup At(k, "overflow") =
            IF commit = k THEN {Len(events[k])} ELSE {}
  /\ MailboxSize <= TerminalCapacity
  /\ commit \in Classes \cup {Nobody} /\ turn \in Classes /\ closed \in BOOLEAN

\* The gauges shown as queue pressure count every undelivered event and no
\* other, up to the one a publisher or the port is just moving: counted
\* before it is sent, never driven below zero by a fast consumer.
PressureIsExact ==
  /\ \A k \in Classes :
       pending[k] = Cardinality(At(k, "sending") \cup At(k, "primary") \cup At(k, "held"))
                      + (IF port.step = "slotTaken" /\ port.class = k THEN 1 ELSE 0)
  /\ mailPending = MailboxSize + (IF port.step = "mailTaken" THEN 1 ELSE 0)

Taking == TakeSlot \/ PopTerminal
Position == Oldest(port.class, IF port.step = "slot" THEN "held" ELSE "mailbox")

\* Within a class a delivery never overtakes an event that was published
\* when this call read the channel, whichever store either of them is in.
NoOvertakingOfKnownEvents ==
  [][Taking /\ port.known > 0 => Position = 1]_deliveryVars

\* The port reports RuntimeStopped only after the senders are gone and every
\* event they left behind has been delivered.
StoppedOnlyWhenDrained ==
  port = Stopped => closed /\ \A k \in Classes : events[k] = <<>>

\* The promise to the consumer, liveness included.
Stream == INSTANCE EventStream WITH
  Capacity <- TerminalCapacity, NoOffer <- Nobody,
  pending <- [k \in Classes |->
    [i \in 1 .. Cardinality(Published(k)) |-> events[k][i].finality]],
  offer <- IF commit = Nobody THEN Nobody ELSE <<commit, Staged.finality>>

ImplementsStream == Stream!Spec

(* What EVENT_DELIVERY.md says and the code does not quite keep. *)

\* "within each class, primary and mailbox fronts merge by EventSequence,
\* preserving FIFO": every delivery takes the oldest event of its class.
DeliveredInOrder == [][Taking => Position = 1]_deliveryVars
=============================================================================
