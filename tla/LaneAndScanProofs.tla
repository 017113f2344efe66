-------------------------- MODULE LaneAndScanProofs --------------------------
(***************************************************************************)
(* Two parts of the runtime that share nothing, for any values of their    *)
(* constants: the start slots of the lanes and the directory scans.        *)
(***************************************************************************)
EXTENDS MCLanes, EventDeliveryProofs

-----------------------------------------------------------------------------
(***************************************************************************)
(* LaneStart for any callers, threads and lane capacity.  TLC's runs have  *)
(* three callers and two threads; that a lane never gets a second thread   *)
(* must not depend on how many callers race.                               *)
(***************************************************************************)

\* The callers that are about to start a thread, or were just refused one.
Owing == {p \in Callers : caller[p] \in {"starting", "notStarted"}}

\* What makes AtMostOneThread inductive.  A caller that owes a thread is
\* alone, finds no thread and keeps the slot from being offered again.  The
\* callers that have started one ("started") may be many and may be late;
\* they are harmless, because all they do to the slot is to leave Starting.
SlotInv ==
  /\ TypeOK
  /\ AtMostOneThread
  /\ DormantHasNoThread
  /\ \A p, q \in Owing : p = q
  /\ Owing # {} => Alive = {} /\ slot # "Dormant"

-----------------------------------------------------------------------------

LEMMA SlotInvInit == Init => SlotInv
<1> SUFFICES ASSUME Init PROVE SlotInv
  OBVIOUS
<1>1. refused \in BOOLEAN
  BY Zenon DEF Init
<1>2. TypeOK
  BY <1>1, LaneConstants DEF Init, TypeOK
<1>3. Alive = {} /\ Owing = {}
  BY DEF Init, Alive, Owing
<1> QED
  BY <1>2, <1>3 DEF SlotInv, AtMostOneThread, DormantHasNoThread

\* A notification touches no caller that owes a thread, and makes none.
LEMMA NotifyKeepsOwing ==
  ASSUME NEW own, TypeOK, NotifyAll(own),
         \A q \in DOMAIN own : own[q] \in {"sending", "idle"}
  PROVE  Owing' = Owing \ DOMAIN own
  BY DEF TypeOK, NotifyAll, Owing

LEMMA NotifyKeepsType ==
  ASSUME NEW own, TypeOK, NotifyAll(own),
         \A q \in DOMAIN own : own[q] \in {"sending", "idle"}
  PROVE  caller' \in [Callers -> {"idle", "checking", "asleep", "starting", "started",
                                  "notStarted", "sending"}]
  BY DEF TypeOK, NotifyAll

\* Every step of every caller and of every thread keeps the invariant.
LEMMA SlotInvStep == SlotInv /\ [Next]_vars => SlotInv'
<1> SUFFICES ASSUME SlotInv, [Next]_vars PROVE SlotInv'
  OBVIOUS
<1> USE LaneConstants DEF SlotInv
<1>1. ASSUME NEW p \in Callers, Submit(p) PROVE SlotInv'
  BY <1>1 DEF Submit, TypeOK, AtMostOneThread, DormantHasNoThread, Owing, Alive
<1>2. ASSUME NEW p \in Callers, Check(p) PROVE SlotInv'
  <2>1. CASE slot = "Running"
    BY <1>2, <2>1 DEF Check, TypeOK, AtMostOneThread, DormantHasNoThread, Owing, Alive
  <2>2. CASE slot = "Starting"
    BY <1>2, <2>2 DEF Check, TypeOK, AtMostOneThread, DormantHasNoThread, Owing, Alive
  <2>3. CASE slot = "Dormant"
    BY <1>2, <2>3 DEF Check, TypeOK, AtMostOneThread, DormantHasNoThread, Owing, Alive
  <2> QED
    BY <2>1, <2>2, <2>3 DEF TypeOK
<1>3. ASSUME NEW p \in Callers, NEW t \in Threads, Spawn(p, t) PROVE SlotInv'
  <2>1. p \in Owing /\ Owing' = {}
    BY <1>3 DEF Spawn, TypeOK, Owing
  <2>2. Alive' = {t}
    BY <1>3, <2>1 DEF Spawn, TypeOK, Alive
  <2> QED
    BY <1>3, <2>1, <2>2 DEF Spawn, TypeOK, AtMostOneThread, DormantHasNoThread
<1>4. ASSUME NEW p \in Callers, SpawnFails(p) PROVE SlotInv'
  BY <1>4 DEF SpawnFails, TypeOK, AtMostOneThread, DormantHasNoThread, Owing, Alive
<1>5. ASSUME NEW p \in Callers, Settle(p) PROVE SlotInv'
  <2> DEFINE own == [q \in {p} |-> IF caller[p] = "started" THEN "sending" ELSE "idle"]
  <2>1. NotifyAll(own) /\ DOMAIN own = {p} /\ \A q \in DOMAIN own : own[q] \in {"sending", "idle"}
    BY <1>5 DEF Settle
  <2> HIDE DEF own
  <2>2. Owing' = Owing \ {p}
    BY <2>1, NotifyKeepsOwing
  <2>3. TypeOK'
    BY <1>5, <2>1, NotifyKeepsType DEF Settle, TypeOK
  <2>4. Alive' = Alive
    BY <1>5 DEF Settle, Alive
  <2>5. slot' = "Dormant" => Owing' = {} /\ Alive = {}
    <3>1. CASE slot = "Starting" /\ caller[p] = "notStarted"
      BY <3>1, <2>2 DEF Owing
    <3>2. CASE ~(slot = "Starting" /\ caller[p] = "notStarted")
      BY <1>5, <2>2, <3>2 DEF Settle, DormantHasNoThread
    <3> QED
      BY <3>1, <3>2
  <2> QED
    BY <2>2, <2>3, <2>4, <2>5 DEF AtMostOneThread, DormantHasNoThread
<1>6. ASSUME NEW p \in Callers, Send(p) PROVE SlotInv'
  BY <1>6 DEF Send, TypeOK, AtMostOneThread, DormantHasNoThread, Owing, Alive
<1>7. ASSUME NEW t \in Threads, Receive(t) \/ Publish(t) \/ StopLane(t) \/ IdleTimeout(t)
      PROVE  SlotInv'
  <2>1. Alive' = Alive /\ Owing' = Owing /\ slot' = slot
    BY <1>7 DEF Receive, Publish, StopLane, IdleTimeout, TypeOK, Alive, Owing
  <2>2. TypeOK'
    BY <1>7 DEF Receive, Publish, StopLane, IdleTimeout, TypeOK
  <2> QED
    BY <2>1, <2>2 DEF AtMostOneThread, DormantHasNoThread
<1>8. ASSUME NEW t \in Threads, MarkStopped(t) PROVE SlotInv'
  <2> DEFINE own == [q \in {} |-> "idle"]
  <2>1. NotifyAll(own) /\ DOMAIN own = {} /\ \A q \in DOMAIN own : own[q] \in {"sending", "idle"}
    BY <1>8 DEF MarkStopped
  <2> HIDE DEF own
  <2>2. Owing = {} /\ Alive = {t}
    BY <1>8 DEF MarkStopped, AtMostOneThread, Alive
  <2>3. Owing' = {} /\ Alive' = {}
    BY <1>8, <2>1, <2>2, NotifyKeepsOwing DEF MarkStopped, Alive, TypeOK
  <2>4. TypeOK'
    BY <1>8, <2>1, NotifyKeepsType DEF MarkStopped, TypeOK
  <2> QED
    BY <2>3, <2>4 DEF AtMostOneThread, DormantHasNoThread
<1>9. CASE UNCHANGED vars
  BY <1>9 DEF vars, TypeOK, AtMostOneThread, DormantHasNoThread, Owing, Alive
<1> QED
  BY <1>1, <1>2, <1>3, <1>4, <1>5, <1>6, <1>7, <1>8, <1>9
     DEF Next, CallerStep, ThreadStep

LEMMA SlotInvHolds == Spec => []SlotInv
  BY SlotInvInit, SlotInvStep, PTL DEF Spec

\* A caller asleep on Starting sleeps for a start that somebody carries out.
LEMMA EveryStartHasAStarter == Spec => []StartingHasStarter
<1>1. Init => StartingHasStarter
  BY DEF Init, StartingHasStarter
<1>2. SlotInv /\ StartingHasStarter /\ [Next]_vars => StartingHasStarter'
  <2> SUFFICES ASSUME SlotInv, StartingHasStarter, [Next]_vars
               PROVE  StartingHasStarter'
    OBVIOUS
  <2> USE DEF SlotInv, TypeOK, StartingHasStarter
  <2>1. ASSUME NEW p \in Callers, Submit(p) \/ Send(p) \/ SpawnFails(p)
        PROVE  StartingHasStarter'
    BY <2>1 DEF Submit, Send, SpawnFails
  <2>2. ASSUME NEW p \in Callers, Check(p) PROVE StartingHasStarter'
    BY <2>2 DEF Check
  <2>3. ASSUME NEW p \in Callers, NEW t \in Threads, Spawn(p, t)
        PROVE  StartingHasStarter'
    BY <2>3 DEF Spawn
  <2>4. ASSUME NEW p \in Callers, Settle(p) PROVE StartingHasStarter'
    BY <2>4 DEF Settle
  <2>5. ASSUME NEW t \in Threads,
               Receive(t) \/ Publish(t) \/ StopLane(t) \/ IdleTimeout(t) \/ MarkStopped(t)
        PROVE  StartingHasStarter'
    BY <2>5 DEF Receive, Publish, StopLane, IdleTimeout, MarkStopped
  <2>6. CASE UNCHANGED vars
    BY <2>6 DEF vars
  <2> QED
    BY <2>1, <2>2, <2>3, <2>4, <2>5, <2>6 DEF Next, CallerStep, ThreadStep
<1> QED
  BY <1>1, <1>2, SlotInvHolds, PTL DEF Spec

\* The slot never lies to its callers, whatever the number of callers and
\* however starts, refusals and retirements interleave: one thread at most,
\* a starter behind every Starting, and no predecessor behind Dormant.
THEOREM SlotStaysHonest == Spec => []SlotIsHonest
<1>1. SlotInv /\ StartingHasStarter => SlotIsHonest
  BY DEF SlotInv, SlotIsHonest
<1> QED
  BY <1>1, SlotInvHolds, EveryStartHasAStarter, PTL

-----------------------------------------------------------------------------
(***************************************************************************)
(* A cancel takes effect within one chunk, for any roots, capacities and   *)
(* carries.  A chunk that ends with its cancel in the channel is followed  *)
(* by a fold, and a fold leaves only with the channel empty or with the    *)
(* cancel in its hand: what it takes out on the way is something else.     *)
(***************************************************************************)

Ids == Nat \cup {NoScan}
Starts == [kind : {"start"}, id : Ids, root : Roots]
Cancels == [kind : {"cancel"}, id : Ids]
Drives == [step : {"idle", "deadline", "chunk", "fold"}, id : Ids, root : Roots \cup {NoScan},
           cancelled : BOOLEAN, late : BOOLEAN]
Snapshots == [id : Ids, request : Ids, root : Roots \cup {NoScan},
              status : {"None", "Scanning", "Completed", "Failed", "Cancelled"}]

ScanTyped ==
  /\ requests \in Seq(Starts \cup Cancels) /\ carry \in Seq(Starts)
  /\ drive \in Drives
  /\ session \in [root : Roots \cup {NoScan}, id : Ids] \cup {NoScan}
  /\ updates \in Seq(Snapshots) /\ page \in Snapshots
  /\ accepted \in Nat

\* A chunk that overlooked its cancel has one way on: to find it.
OverlooksOnce ==
  waits # 0 =>
    /\ waits = 1
    /\ drive.step = "idle" \/ drive.cancelled \/ (drive.step = "fold" /\ Overdue)

ScanInv == ScanTyped /\ waits \in Nat /\ OverlooksOnce

-----------------------------------------------------------------------------
(* The channel. *)

\* Taking a request that is not the cancel leaves the cancel in the channel.
LEMMA TakenFromChannel ==
  ASSUME NEW S, NEW s \in Seq(S), s # <<>>
  PROVE  /\ Head(s) \in S /\ Tail(s) \in Seq(S)
         /\ Range(s) \subseteq {Head(s)} \cup Range(Tail(s))
<1>1. Head(s) \in S /\ Tail(s) \in Seq(S) /\ Len(s) \in Nat /\ Len(s) > 0
      /\ DOMAIN s = 1 .. Len(s) /\ Len(Tail(s)) = Len(s) - 1 /\ Head(s) = s[1]
      /\ DOMAIN Tail(s) = 1 .. (Len(s) - 1)
      /\ \A i \in 1 .. (Len(s) - 1) : Tail(s)[i] = s[i + 1]
  OBVIOUS
<1>2. ASSUME NEW i \in 1 .. Len(s) PROVE s[i] \in {Head(s)} \cup Range(Tail(s))
  <2>1. CASE i = 1
    BY <1>1, <2>1
  <2>2. CASE i # 1
    <3>1. i - 1 \in 1 .. (Len(s) - 1) /\ Tail(s)[i - 1] = s[i]
      BY <1>1, <2>2
    <3> QED
      BY <1>1, <3>1 DEF Range
  <2> QED
    BY <2>1, <2>2
<1> QED
  BY <1>1, <1>2 DEF Range

\* What is published is a snapshot.
LEMMA PublishTyped ==
  ASSUME ScanTyped, NEW snapshot \in Snapshots, PublishUpdate(snapshot)
  PROVE  updates' \in Seq(Snapshots)
  BY DEF ScanTyped, PublishUpdate

-----------------------------------------------------------------------------
(* Steps. *)

LEMMA ScanInvInit == ScanInit => ScanInv
  BY DEF ScanInit, ScanInv, ScanTyped, OverlooksOnce, NoDrive, Drive, Drives, Empty, Snapshot,
         Snapshots, Ids

\* The user and the page: they add to the channel and take nothing out.
LEMMA PageStep ==
  ASSUME ScanInv, (\E root \in Roots : StartScan(root)) \/ CancelShown \/ Fold
  PROVE  ScanInv'
<1>t. ScanTyped /\ waits \in Nat /\ OverlooksOnce
  BY DEF ScanInv
<1>1. ASSUME NEW request \in Starts \cup Cancels, Enqueue(request), UNCHANGED <<drive, waits>>
      PROVE  requests' \in Seq(Starts \cup Cancels) /\ OverlooksOnce'
  <2>1. requests \in Seq(Starts \cup Cancels) /\ requests' = Append(requests, request)
    BY <1>t, <1>1 DEF ScanTyped, Enqueue
  <2>2. Range(requests) \subseteq Range(requests')
    BY <2>1 DEF Range
  <2> QED
    BY <1>t, <1>1, <2>1, <2>2 DEF OverlooksOnce, Overdue
<1>2. ASSUME NEW root \in Roots, StartScan(root) PROVE ScanInv'
  <2>1. Start(accepted', root) \in Starts /\ accepted' \in Nat
    BY <1>t, <1>2 DEF StartScan, Start, Starts, Ids, ScanTyped
  <2> QED
    BY <1>t, <1>1, <1>2, <2>1 DEF StartScan, ScanInv, ScanTyped
<1>3. CASE CancelShown
  <2>1. Cancel(page.id) \in Cancels
    BY <1>t DEF Cancel, Cancels, ScanTyped, Snapshots
  <2> QED
    BY <1>t, <1>1, <1>3, <2>1 DEF CancelShown, ScanInv, ScanTyped
<1>4. CASE Fold
  BY <1>t, <1>4 DEF Fold, ScanInv, ScanTyped, OverlooksOnce, Overdue
<1> QED
  BY <1>2, <1>3, <1>4

\* A scan is begun or ended with nothing overlooked.
LEMMA DriveStep ==
  ASSUME ScanInv,
         TakeCarried \/ TakeRequest \/ DeadlinePasses \/ InTime \/ TimeOut \/ ChunkPanics
  PROVE  ScanInv'
<1>t. ScanTyped /\ waits \in Nat /\ OverlooksOnce
  BY DEF ScanInv
<1>b. ASSUME NEW request \in Starts, BeginScan(request)
      PROVE  drive' \in Drives /\ waits' = 0
  BY <1>b DEF BeginScan, Drive, Drives, Starts
<1>n. NoDrive \in Drives /\ NoDrive.step = "idle"
  BY DEF NoDrive, Drive, Drives, Ids
<1>1. CASE TakeCarried
  <2>1. Head(carry) \in Starts /\ carry' \in Seq(Starts)
    BY <1>t, <1>1, TakenFromChannel DEF TakeCarried, ScanTyped
  <2> QED
    BY <1>t, <1>1, <1>b, <2>1 DEF TakeCarried, ScanInv, ScanTyped, OverlooksOnce
<1>2. CASE TakeRequest
  <2>1. Head(requests) \in Starts \cup Cancels /\ requests' \in Seq(Starts \cup Cancels)
    BY <1>t, <1>2, TakenFromChannel DEF TakeRequest, ScanTyped
  <2>2. CASE Head(requests).kind = "start"
    <3>1. Head(requests) \in Starts
      BY <2>1, <2>2 DEF Starts, Cancels
    <3> QED
      BY <1>t, <1>2, <1>b, <2>1, <2>2, <3>1 DEF TakeRequest, ScanInv, ScanTyped, OverlooksOnce
  <2>3. CASE Head(requests).kind # "start"
    <3>1. drive.step = "idle" /\ UNCHANGED <<drive, waits>>
      BY <1>2, <2>3 DEF TakeRequest, Driving
    <3> QED
      BY <1>t, <1>2, <2>1, <3>1 DEF TakeRequest, ScanInv, ScanTyped, OverlooksOnce
  <2> QED
    BY <2>2, <2>3
<1>3. CASE DeadlinePasses
  BY <1>t, <1>3 DEF DeadlinePasses, ScanInv, ScanTyped, Drives, OverlooksOnce, Overdue
<1>4. CASE InTime
  BY <1>t, <1>4 DEF InTime, ScanInv, ScanTyped, Drives, OverlooksOnce
<1>5. CASE TimeOut \/ ChunkPanics
  <2>1. Snapshot(drive.id, drive.id, drive.root, "Failed") \in Snapshots
    BY <1>t DEF Snapshot, Snapshots, ScanTyped, Drives
  <2>2. updates' \in Seq(Snapshots)
    BY <1>t, <1>5, <2>1, PublishTyped DEF TimeOut, ChunkPanics
  <2> QED
    BY <1>t, <1>n, <1>5, <2>2 DEF TimeOut, ChunkPanics, ScanInv, ScanTyped, OverlooksOnce
<1> QED
  BY <1>1, <1>2, <1>3, <1>4, <1>5

\* A chunk counts what it overlooks at most once: it runs before the cancel
\* was ever overlooked, or it ends the scan.
LEMMA ChunkStep ==
  ASSUME ScanInv, NEW publish \in BOOLEAN,
         NEW status \in {"Scanning", "Completed", "Failed", "Cancelled"},
         Chunk(status, publish)
  PROVE  ScanInv'
<1>t. ScanTyped /\ waits \in Nat /\ OverlooksOnce /\ drive.step = "chunk"
  BY DEF ScanInv, Chunk
<1>1. Resumed \in [root : Roots \cup {NoScan}, id : Ids]
  <2>1. Session(drive.root, drive.id) \in [root : Roots \cup {NoScan}, id : Ids]
    BY <1>t DEF Session, ScanTyped, Drives
  <2> QED
    BY <1>t, <2>1 DEF Resumed, ScanTyped
<1>2. updates' \in Seq(Snapshots)
  <2>1. Snapshot(Resumed.id, drive.id, drive.root, status) \in Snapshots
    BY <1>t, <1>1 DEF Snapshot, Snapshots, ScanTyped, Drives
  <2> QED
    BY <1>t, <2>1, PublishTyped DEF Chunk, ScanTyped
<1>3. CASE IsTerminal(status)
  <2>1. drive' = NoDrive /\ NoDrive \in Drives /\ NoDrive.step = "idle" /\ waits' = waits
        /\ session' = NoScan
    BY <1>3 DEF Chunk, NoDrive, Drive, Drives, Ids
  <2> QED
    BY <1>t, <1>2, <2>1 DEF Chunk, ScanInv, ScanTyped, OverlooksOnce
<1>4. CASE ~IsTerminal(status)
  <2>1. drive' = [drive EXCEPT !.step = "fold"] /\ session' = Resumed
        /\ waits' = (IF Overdue THEN waits + 1 ELSE waits) /\ UNCHANGED requests
    BY <1>4 DEF Chunk
  <2>2. ~drive.cancelled
    BY <1>4 DEF Chunk, Outcomes, IsTerminal
  <2>3. waits = 0
    BY <1>t, <2>2 DEF OverlooksOnce
  <2>4. drive' \in Drives /\ drive'.step = "fold" /\ drive'.id = drive.id
    BY <1>t, <2>1 DEF ScanTyped, Drives
  <2>5. Overdue' <=> Overdue
    BY <2>1, <2>4 DEF Overdue, Cancel
  <2> QED
    BY <1>t, <1>1, <1>2, <2>1, <2>3, <2>4, <2>5 DEF Chunk, ScanInv, ScanTyped, OverlooksOnce
<1> QED
  BY <1>3, <1>4

\* A fold keeps the cancel in the channel until it takes it.
LEMMA FoldStep ==
  ASSUME ScanInv,
         FoldOwnCancel \/ FoldForeignCancel \/ CarryStart \/ RejectStart \/ FoldDone
  PROVE  ScanInv'
<1>t. ScanTyped /\ waits \in Nat /\ OverlooksOnce /\ drive.step = "fold" /\ drive \in Drives
  BY DEF ScanInv, ScanTyped, FoldOwnCancel, FoldForeignCancel, CarryStart, RejectStart,
         FoldDone, Folding
<1>1. CASE FoldDone
  <2>1. ~Overdue
    BY <1>1 DEF FoldDone, Overdue, Range
  <2> QED
    BY <1>t, <1>1, <2>1 DEF FoldDone, ScanInv, ScanTyped, Drives, OverlooksOnce
<1>2. ASSUME requests # <<>>
      PROVE  /\ NextRequest \in Starts \cup Cancels /\ Tail(requests) \in Seq(Starts \cup Cancels)
             /\ Range(requests) \subseteq {NextRequest} \cup Range(Tail(requests))
  BY <1>t, <1>2, TakenFromChannel DEF ScanTyped, NextRequest
<1>3. CASE FoldOwnCancel
  BY <1>t, <1>2, <1>3 DEF FoldOwnCancel, Folding, ScanInv, ScanTyped, Drives, OverlooksOnce
<1>4. ASSUME requests # <<>>, requests' = Tail(requests), NextRequest # Cancel(drive.id),
             UNCHANGED <<drive, waits>>
      PROVE  requests' \in Seq(Starts \cup Cancels) /\ OverlooksOnce'
  BY <1>t, <1>2, <1>4 DEF OverlooksOnce, Overdue, Cancel
<1>5. CASE FoldForeignCancel
  <2>1. NextRequest # Cancel(drive.id) /\ requests # <<>>
    BY <1>5 DEF FoldForeignCancel, Folding, Cancel
  <2> QED
    BY <1>t, <1>4, <1>5, <2>1 DEF FoldForeignCancel, ScanInv, ScanTyped
<1>6. ASSUME Folding("start") PROVE NextRequest # Cancel(drive.id) /\ requests # <<>>
                                    /\ NextRequest \in Starts
  <2>1. requests # <<>> /\ NextRequest.kind = "start" /\ NextRequest \in Starts \cup Cancels
    BY <1>2, <1>6 DEF Folding
  <2> QED
    BY <2>1 DEF Cancel, Starts, Cancels
<1>7. CASE CarryStart
  <2>1. carry' \in Seq(Starts)
    BY <1>t, <1>6, <1>7 DEF CarryStart, ScanTyped
  <2> QED
    BY <1>t, <1>4, <1>6, <1>7, <2>1 DEF CarryStart, ScanInv, ScanTyped
<1>8. CASE RejectStart
  <2>1. Snapshot(NextRequest.id, NextRequest.id, NextRequest.root, "Failed") \in Snapshots
    BY <1>6, <1>8 DEF RejectStart, Snapshot, Snapshots, Starts
  <2>2. updates' \in Seq(Snapshots)
    BY <1>t, <1>8, <2>1, PublishTyped DEF RejectStart
  <2> QED
    BY <1>t, <1>4, <1>6, <1>8, <2>2 DEF RejectStart, ScanInv, ScanTyped
<1> QED
  BY <1>1, <1>3, <1>5, <1>7, <1>8

LEMMA ScanInvStep == ScanInv /\ [ScanNext]_scanVars => ScanInv'
<1> SUFFICES ASSUME ScanInv, [ScanNext]_scanVars PROVE ScanInv'
  OBVIOUS
<1>1. CASE UNCHANGED scanVars
  BY <1>1 DEF scanVars, ScanInv, ScanTyped, OverlooksOnce, Overdue
<1>2. CASE ScanNext
  BY <1>2, PageStep, DriveStep, ChunkStep, FoldStep DEF ScanNext, LaneDrives
<1> QED
  BY <1>1, <1>2

\* No scan runs a second chunk while the cancel that names it is in the
\* channel (directory_scan.rs, fold_queued_requests).
THEOREM CancelsTakeEffect == ScanSpec => []CancelWithinOneChunk
<1>1. ScanInv => CancelWithinOneChunk
  BY DEF ScanInv, OverlooksOnce, CancelWithinOneChunk
<1> QED
  BY <1>1, ScanInvInit, ScanInvStep, PTL DEF ScanSpec

-----------------------------------------------------------------------------
(***************************************************************************)
(* Every accepted start without a terminal is in exactly one place.  What  *)
(* the type invariant leaves out is that ids are not given twice: a start  *)
(* that is taken out of a queue, or gets its terminal, must not leave a    *)
(* namesake behind.                                                        *)
(***************************************************************************)

IsStart(queue, i) == i \in DOMAIN queue /\ queue[i].kind = "start"

\* The starts of a queue have ids of their own, among those given so far.
Numbered(queue, n) ==
  /\ StartsIn(queue) \subseteq 1 .. n
  /\ \A i, j \in DOMAIN queue :
       IsStart(queue, i) /\ IsStart(queue, j) /\ queue[i].id = queue[j].id => i = j

InHand == IF Driving THEN {drive.id} ELSE {}

PlacedInv ==
  /\ ScanTypeOK
  /\ Numbered(requests, accepted) /\ Numbered(carry, accepted)
  /\ InHand \subseteq 1 .. accepted
  /\ InHand \cap (StartsIn(requests) \cup StartsIn(carry)) = {}

LEMMA StartsMembers ==
  \A queue, n : n \in StartsIn(queue) <=> \E i \in DOMAIN queue : IsStart(queue, i) /\ queue[i].id = n
  BY DEF StartsIn, IsStart

\* A request put at the end of a queue.
LEMMA AtTheEnd ==
  ASSUME NEW S, NEW q \in Seq(S), NEW r \in S, NEW n \in Nat, Numbered(q, n)
  PROVE  /\ StartsIn(Append(q, r)) = StartsIn(q) \cup (IF r.kind = "start" THEN {r.id} ELSE {})
         /\ (r.kind = "start" => r.id \in 1 .. n /\ r.id \notin StartsIn(q))
              => Numbered(Append(q, r), n)
         /\ Len(Append(q, r)) = Len(q) + 1
<1> DEFINE a == Append(q, r)
<1>1. /\ Len(q) \in Nat /\ DOMAIN q = 1 .. Len(q) /\ DOMAIN a = 1 .. (Len(q) + 1)
      /\ a[Len(q) + 1] = r /\ \A i \in 1 .. Len(q) : a[i] = q[i]
      /\ Len(a) = Len(q) + 1
  OBVIOUS
<1> HIDE DEF a
<1>2. \A i : IsStart(a, i) <=> IsStart(q, i) \/ (i = Len(q) + 1 /\ r.kind = "start")
  BY <1>1 DEF IsStart
<1>3. StartsIn(a) = StartsIn(q) \cup (IF r.kind = "start" THEN {r.id} ELSE {})
  <2>1. ASSUME NEW m \in StartsIn(a)
        PROVE  m \in StartsIn(q) \cup (IF r.kind = "start" THEN {r.id} ELSE {})
    <3>1. PICK i \in DOMAIN a : IsStart(a, i) /\ a[i].id = m
      BY StartsMembers
    <3>2. CASE IsStart(q, i)
      BY <1>1, <3>1, <3>2, StartsMembers DEF IsStart
    <3>3. CASE i = Len(q) + 1 /\ r.kind = "start"
      BY <1>1, <3>1, <3>3
    <3> QED
      BY <1>2, <3>1, <3>2, <3>3
  <2>2. ASSUME NEW m \in StartsIn(q) PROVE m \in StartsIn(a)
    <3>1. PICK i \in DOMAIN q : IsStart(q, i) /\ q[i].id = m
      BY StartsMembers
    <3>2. i \in DOMAIN a /\ IsStart(a, i) /\ a[i].id = m
      BY <1>1, <1>2, <3>1
    <3> QED
      BY <3>2, StartsMembers
  <2>3. ASSUME r.kind = "start" PROVE r.id \in StartsIn(a)
    <3>1. Len(q) + 1 \in DOMAIN a /\ IsStart(a, Len(q) + 1) /\ a[Len(q) + 1].id = r.id
      BY <1>1, <1>2, <2>3
    <3> QED
      BY <3>1, StartsMembers
  <2> QED
    BY <2>1, <2>2, <2>3
<1>4. ASSUME r.kind = "start" => r.id \in 1 .. n /\ r.id \notin StartsIn(q)
      PROVE  Numbered(a, n)
  <2>1. StartsIn(a) \subseteq 1 .. n
    BY <1>3, <1>4 DEF Numbered
  <2>2. ASSUME NEW i \in DOMAIN a, NEW j \in DOMAIN a, IsStart(a, i), IsStart(a, j), a[i].id = a[j].id
        PROVE  i = j
    <3>1. CASE IsStart(q, i) /\ IsStart(q, j)
      BY <1>1, <2>2, <3>1 DEF Numbered, IsStart
    <3>2. CASE IsStart(q, i) /\ j = Len(q) + 1 /\ r.kind = "start"
      BY <1>1, <1>4, <2>2, <3>2, StartsMembers DEF IsStart
    <3>3. CASE IsStart(q, j) /\ i = Len(q) + 1 /\ r.kind = "start"
      BY <1>1, <1>4, <2>2, <3>3, StartsMembers DEF IsStart
    <3> QED
      BY <1>2, <2>2, <3>1, <3>2, <3>3
  <2> QED
    BY <2>1, <2>2 DEF Numbered
<1> QED
  BY <1>1, <1>3, <1>4 DEF a

\* A request taken from the front of a queue.
LEMMA OffTheFront ==
  ASSUME NEW S, NEW q \in Seq(S), q # <<>>, NEW n \in Nat, Numbered(q, n)
  PROVE  /\ StartsIn(Tail(q)) =
              StartsIn(q) \ (IF Head(q).kind = "start" THEN {Head(q).id} ELSE {})
         /\ Head(q).kind = "start" => Head(q).id \in StartsIn(q)
         /\ Numbered(Tail(q), n)
         /\ Len(Tail(q)) = Len(q) - 1 /\ Len(q) \in Nat
<1> DEFINE t == Tail(q)
           h == Head(q)
<1>1. /\ Len(q) \in Nat /\ Len(q) > 0 /\ DOMAIN q = 1 .. Len(q) /\ h = q[1]
      /\ DOMAIN t = 1 .. (Len(q) - 1) /\ Len(t) = Len(q) - 1
      /\ \A i \in 1 .. (Len(q) - 1) : t[i] = q[i + 1]
  OBVIOUS
<1> HIDE DEF t, h
<1>2. \A i \in DOMAIN t : i + 1 \in DOMAIN q /\ (IsStart(t, i) <=> IsStart(q, i + 1))
  BY <1>1 DEF IsStart
<1>3. IsStart(q, 1) <=> h.kind = "start"
  BY <1>1 DEF IsStart
<1>4. h.kind = "start" => h.id \in StartsIn(q)
  BY <1>1, <1>3, StartsMembers DEF IsStart
<1>5. ASSUME NEW m \in StartsIn(t)
      PROVE  m \in StartsIn(q) \ (IF h.kind = "start" THEN {h.id} ELSE {})
  <2>1. PICK i \in DOMAIN t : IsStart(t, i) /\ t[i].id = m
    BY StartsMembers
  <2>2. i + 1 \in DOMAIN q /\ IsStart(q, i + 1) /\ q[i + 1].id = m /\ i + 1 # 1
    BY <1>1, <1>2, <2>1
  <2>3. m \in StartsIn(q)
    BY <2>2, StartsMembers
  <2>4. h.kind = "start" => h.id # m
    BY <1>1, <1>3, <2>2 DEF Numbered, IsStart
  <2> QED
    BY <2>3, <2>4
<1>6. ASSUME NEW m \in StartsIn(q), ~(h.kind = "start" /\ h.id = m) PROVE m \in StartsIn(t)
  <2>1. PICK i \in DOMAIN q : IsStart(q, i) /\ q[i].id = m
    BY StartsMembers
  <2>2. i # 1
    BY <1>1, <1>3, <1>6, <2>1
  <2>3. i - 1 \in DOMAIN t /\ (i - 1) + 1 = i
    BY <1>1, <2>1, <2>2
  <2>4. IsStart(t, i - 1) /\ t[i - 1].id = m
    BY <1>1, <1>2, <2>1, <2>3
  <2> QED
    BY <2>3, <2>4, StartsMembers
<1>7. Numbered(t, n)
  <2>1. StartsIn(t) \subseteq 1 .. n
    BY <1>5 DEF Numbered
  <2>2. ASSUME NEW i \in DOMAIN t, NEW j \in DOMAIN t, IsStart(t, i), IsStart(t, j), t[i].id = t[j].id
        PROVE  i = j
    <3>1. i + 1 \in DOMAIN q /\ j + 1 \in DOMAIN q /\ IsStart(q, i + 1) /\ IsStart(q, j + 1)
          /\ q[i + 1].id = q[j + 1].id
      BY <1>1, <1>2, <2>2
    <3>2. i + 1 = j + 1
      BY <3>1 DEF Numbered
    <3> QED
      BY <1>1, <3>2
  <2> QED
    BY <2>1, <2>2 DEF Numbered
<1> QED
  BY <1>1, <1>4, <1>5, <1>6, <1>7 DEF t, h

\* A higher counter leaves a queue numbered.
LEMMA NumberedGrows ==
  \A queue : \A n \in Nat : Numbered(queue, n) => Numbered(queue, n + 1)
  BY DEF Numbered

LiveIds == {s.id : s \in live}

\* The invariant in terms of the places.
LEMMA PlacedParts ==
  PlacedInv <=>
    /\ Len(requests) <= RequestCapacity /\ Len(carry) <= MaxCarriedRequests
    /\ Len(updates) <= MaxUpdates /\ accepted <= MaxScans
    /\ drive.step \in {"idle", "deadline", "chunk", "fold"}
    /\ LiveIds = StartsIn(requests) \cup StartsIn(carry) \cup InHand
    /\ StartsIn(requests) \cap StartsIn(carry) = {}
    /\ Numbered(requests, accepted) /\ Numbered(carry, accepted)
    /\ InHand \subseteq 1 .. accepted
    /\ InHand \cap (StartsIn(requests) \cup StartsIn(carry)) = {}
  BY DEF PlacedInv, ScanTypeOK, LiveIds, InHand, Driving

\* The same after a step.
LEMMA PlacedPartsNext ==
  ASSUME Len(requests') <= RequestCapacity, Len(carry') <= MaxCarriedRequests,
         Len(updates') <= MaxUpdates, accepted' <= MaxScans,
         drive'.step \in {"idle", "deadline", "chunk", "fold"},
         LiveIds' = StartsIn(requests)' \cup StartsIn(carry)' \cup InHand',
         StartsIn(requests)' \cap StartsIn(carry)' = {},
         Numbered(requests, accepted)', Numbered(carry, accepted)',
         InHand' \subseteq 1 .. accepted',
         InHand' \cap (StartsIn(requests)' \cup StartsIn(carry)') = {}
  PROVE  PlacedInv'
  BY DEF PlacedInv, ScanTypeOK, LiveIds, InHand, Driving

\* A terminal takes its request, and no other, out of the live ones.
LEMMA PublishEffect ==
  ASSUME ScanTyped, NEW id, NEW request, NEW root, NEW status,
         PublishUpdate(Snapshot(id, request, root, status))
  PROVE  /\ Len(updates') <= MaxUpdates
         /\ LiveIds' = LiveIds \ (IF IsTerminal(status) THEN {request} ELSE {})
<1> DEFINE snapshot == Snapshot(id, request, root, status)
<1>1. snapshot.request = request /\ snapshot.status = status
  BY DEF Snapshot
<1>2. Len(updates) < MaxUpdates /\ updates' = Append(updates, snapshot)
      /\ live' = IF IsTerminal(snapshot.status)
                   THEN {s \in live : s.id # snapshot.request} ELSE live
  BY DEF PublishUpdate, CanPublish
<1> HIDE DEF snapshot
<1>3. Len(updates') = Len(updates) + 1 /\ Len(updates) \in Nat
  BY <1>2 DEF ScanTyped
<1>4. LiveIds' = LiveIds \ (IF IsTerminal(status) THEN {request} ELSE {})
  BY <1>1, <1>2 DEF LiveIds
<1> QED
  BY <1>2, <1>3, <1>4, ScanConstants

LEMMA PlacedInit == ScanInit => PlacedInv
<1> SUFFICES ASSUME ScanInit PROVE PlacedInv
  OBVIOUS
<1>1. /\ requests = <<>> /\ carry = <<>> /\ updates = <<>> /\ accepted = 0 /\ live = {}
      /\ drive.step = "idle"
  BY DEF ScanInit, NoDrive, Drive
<1>2. DOMAIN << >> = {} /\ Len(<< >>) = 0
  OBVIOUS
<1>3. StartsIn(requests) = {} /\ StartsIn(carry) = {} /\ InHand = {} /\ LiveIds = {}
  BY <1>1, <1>2 DEF StartsIn, InHand, Driving, LiveIds
<1>4. Numbered(requests, accepted) /\ Numbered(carry, accepted)
  BY <1>1, <1>2, <1>3 DEF Numbered
<1> QED
  BY <1>1, <1>2, <1>3, <1>4, ScanConstants, PlacedParts

\* The user and the page.
LEMMA PlacedByPage ==
  ASSUME ScanTyped, PlacedInv,
         (\E root \in Roots : StartScan(root)) \/ CancelShown \/ Fold
  PROVE  PlacedInv'
<1>p. /\ Len(requests) <= RequestCapacity /\ Len(carry) <= MaxCarriedRequests
      /\ Len(updates) <= MaxUpdates /\ accepted <= MaxScans
      /\ drive.step \in {"idle", "deadline", "chunk", "fold"}
      /\ LiveIds = StartsIn(requests) \cup StartsIn(carry) \cup InHand
      /\ StartsIn(requests) \cap StartsIn(carry) = {}
      /\ Numbered(requests, accepted) /\ Numbered(carry, accepted)
      /\ InHand \subseteq 1 .. accepted
      /\ InHand \cap (StartsIn(requests) \cup StartsIn(carry)) = {}
  BY PlacedParts
<1>t. requests \in Seq(Starts \cup Cancels) /\ accepted \in Nat /\ updates \in Seq(Snapshots)
      /\ Len(requests) \in Nat /\ Len(updates) \in Nat
  BY DEF ScanTyped
<1>1. ASSUME NEW root \in Roots, StartScan(root) PROVE PlacedInv'
  <2> DEFINE new == accepted + 1
             r == Start(new, root)
  <2>1. /\ accepted' = new /\ new \in Nat /\ new <= MaxScans /\ Len(requests) < RequestCapacity
        /\ requests' = Append(requests, r)
        /\ live' = live \cup {[id |-> new, root |-> root]}
        /\ UNCHANGED <<carry, drive, updates>>
    BY <1>t, <1>1, ScanConstants DEF StartScan, LaneHasRoom, Enqueue
  <2>2. r \in Starts \cup Cancels /\ r.kind = "start" /\ r.id = new
    BY <2>1 DEF Start, Starts, Ids
  <2>3. Numbered(requests, new) /\ Numbered(carry, new)
    BY <1>p, <1>t, NumberedGrows
  <2>4. new \notin StartsIn(requests) /\ new \notin StartsIn(carry) /\ new \notin InHand
        /\ new \in 1 .. new /\ InHand \subseteq 1 .. new
    BY <1>p, <1>t DEF Numbered
  <2> HIDE DEF r
  <2>5. /\ StartsIn(Append(requests, r)) = StartsIn(requests) \cup {new}
        /\ Numbered(Append(requests, r), new) /\ Len(Append(requests, r)) = Len(requests) + 1
    BY <1>t, <2>1, <2>2, <2>3, <2>4, AtTheEnd
  <2> HIDE DEF new
  <2>6. LiveIds' = LiveIds \cup {new} /\ InHand' = InHand
    <3> DEFINE s == [id |-> new, root |-> root]
    <3>1. s.id = new /\ live' = live \cup {s}
      BY <2>1
    <3> HIDE DEF s
    <3>2. LiveIds' = LiveIds \cup {new}
      BY <3>1 DEF LiveIds
    <3>3. InHand' = InHand
      BY <2>1 DEF InHand, Driving
    <3> QED
      BY <3>2, <3>3
  <2>7. Len(requests') <= RequestCapacity
    BY <1>t, <2>1, <2>5, ScanConstants
  <2>8. /\ StartsIn(requests)' = StartsIn(requests) \cup {new} /\ StartsIn(carry)' = StartsIn(carry)
        /\ Numbered(requests, accepted)' /\ Numbered(carry, accepted)'
    BY <2>1, <2>3, <2>5 DEF StartsIn, Numbered, IsStart
  <2> QED
    BY <1>p, <2>1, <2>4, <2>6, <2>7, <2>8, PlacedPartsNext
<1>2. CASE CancelShown
  <2> DEFINE r == Cancel(page.id)
  <2>1. /\ Len(requests) < RequestCapacity /\ requests' = Append(requests, r)
        /\ UNCHANGED <<carry, drive, updates, accepted, live>>
    BY <1>2 DEF CancelShown, LaneHasRoom, Enqueue
  <2>2. r \in Starts \cup Cancels /\ r.kind # "start"
    BY DEF Cancel, Cancels, ScanTyped, Snapshots
  <2> HIDE DEF r
  <2>3. /\ StartsIn(Append(requests, r)) = StartsIn(requests)
        /\ Numbered(Append(requests, r), accepted) /\ Len(Append(requests, r)) = Len(requests) + 1
    BY <1>t, <1>p, <2>2, AtTheEnd
  <2>4. LiveIds' = LiveIds /\ InHand' = InHand /\ Len(requests') <= RequestCapacity
    BY <1>t, <2>1, <2>3, ScanConstants DEF LiveIds, InHand, Driving
  <2>5. /\ StartsIn(requests)' = StartsIn(requests) /\ StartsIn(carry)' = StartsIn(carry)
        /\ Numbered(requests, accepted)' /\ Numbered(carry, accepted)'
    BY <1>p, <2>1, <2>3 DEF StartsIn, Numbered, IsStart
  <2> QED
    BY <1>p, <2>1, <2>4, <2>5, PlacedPartsNext
<1>3. CASE Fold
  <2>1. updates # <<>> /\ updates' = Tail(updates)
        /\ UNCHANGED <<requests, carry, drive, accepted, live>>
    BY <1>3 DEF Fold
  <2>2. Len(updates') <= MaxUpdates
    BY <1>p, <1>t, <2>1, ScanConstants
  <2>3. LiveIds' = LiveIds /\ InHand' = InHand
        /\ StartsIn(requests)' = StartsIn(requests) /\ StartsIn(carry)' = StartsIn(carry)
        /\ Numbered(requests, accepted)' /\ Numbered(carry, accepted)'
    BY <1>p, <2>1 DEF LiveIds, InHand, Driving, StartsIn, Numbered, IsStart
  <2> QED
    BY <1>p, <2>1, <2>2, <2>3, PlacedPartsNext
<1> QED
  BY <1>1, <1>2, <1>3

\* The lane between two scans, and the clock.
LEMMA PlacedBetween ==
  ASSUME ScanTyped, PlacedInv, TakeCarried \/ TakeRequest \/ DeadlinePasses \/ InTime
  PROVE  PlacedInv'
<1>p. /\ Len(requests) <= RequestCapacity /\ Len(carry) <= MaxCarriedRequests
      /\ Len(updates) <= MaxUpdates /\ accepted <= MaxScans
      /\ drive.step \in {"idle", "deadline", "chunk", "fold"}
      /\ LiveIds = StartsIn(requests) \cup StartsIn(carry) \cup InHand
      /\ StartsIn(requests) \cap StartsIn(carry) = {}
      /\ Numbered(requests, accepted) /\ Numbered(carry, accepted)
      /\ InHand \subseteq 1 .. accepted
      /\ InHand \cap (StartsIn(requests) \cup StartsIn(carry)) = {}
  BY PlacedParts
<1>t. requests \in Seq(Starts \cup Cancels) /\ carry \in Seq(Starts) /\ accepted \in Nat
      /\ drive \in Drives
  BY DEF ScanTyped
<1>b. ASSUME NEW request, BeginScan(request)
      PROVE  InHand' = {request.id} /\ drive'.step \in {"idle", "deadline", "chunk", "fold"}
  BY <1>b DEF BeginScan, Drive, InHand, Driving
<1>1. CASE TakeCarried
  <2> DEFINE h == Head(carry)
  <2>1. /\ carry # <<>> /\ carry' = Tail(carry) /\ BeginScan(h) /\ InHand = {}
        /\ UNCHANGED <<requests, updates, accepted, live>>
    BY <1>1 DEF TakeCarried, InHand, Driving
  <2>2. h.kind = "start"
    <3>1. h \in Starts
      BY <1>t, <2>1, TakenFromChannel
    <3> HIDE DEF h
    <3> QED
      BY <3>1 DEF Starts
  <2>3. /\ StartsIn(Tail(carry)) = StartsIn(carry) \ {h.id} /\ h.id \in StartsIn(carry)
        /\ Numbered(Tail(carry), accepted) /\ Len(Tail(carry)) = Len(carry) - 1
        /\ Len(carry) \in Nat
    BY <1>t, <1>p, <2>1, <2>2, OffTheFront
  <2>4. InHand' = {h.id} /\ drive'.step \in {"idle", "deadline", "chunk", "fold"}
    BY <1>b, <2>1
  <2> HIDE DEF h
  <2>5. /\ StartsIn(requests)' = StartsIn(requests) /\ StartsIn(carry)' = StartsIn(carry) \ {h.id}
        /\ Numbered(requests, accepted)' /\ Numbered(carry, accepted)' /\ LiveIds' = LiveIds
    <3>1. StartsIn(requests)' = StartsIn(requests) /\ Numbered(requests, accepted)'
      BY <1>p, <2>1 DEF StartsIn, Numbered, IsStart
    <3>2. StartsIn(carry)' = StartsIn(Tail(carry)) /\ Numbered(carry, accepted)'
      BY <2>1, <2>3 DEF StartsIn, Numbered, IsStart
    <3>3. LiveIds' = LiveIds
      BY <2>1 DEF LiveIds
    <3> QED
      BY <2>3, <3>1, <3>2, <3>3
  <2>6. Len(carry') <= MaxCarriedRequests /\ h.id \in 1 .. accepted
    BY <1>p, <2>1, <2>3, ScanConstants DEF Numbered
  <2> QED
    BY <1>p, <2>1, <2>3, <2>4, <2>5, <2>6, PlacedPartsNext
<1>2. CASE TakeRequest
  <2> DEFINE h == Head(requests)
  <2>1. /\ requests # <<>> /\ requests' = Tail(requests) /\ InHand = {} /\ ~Driving
        /\ UNCHANGED <<carry, updates, accepted, live>>
        /\ IF h.kind = "start" THEN BeginScan(h) ELSE UNCHANGED drive
    BY <1>2 DEF TakeRequest, InHand
  <2>2. /\ StartsIn(Tail(requests)) =
             StartsIn(requests) \ (IF h.kind = "start" THEN {h.id} ELSE {})
        /\ h.kind = "start" => h.id \in StartsIn(requests)
        /\ Numbered(Tail(requests), accepted) /\ Len(Tail(requests)) = Len(requests) - 1
        /\ Len(requests) \in Nat
    BY <1>t, <1>p, <2>1, OffTheFront
  <2>3. /\ InHand' = IF h.kind = "start" THEN {h.id} ELSE {}
        /\ drive'.step \in {"idle", "deadline", "chunk", "fold"}
    <3>1. CASE h.kind = "start"
      BY <1>b, <2>1, <3>1
    <3>2. CASE h.kind # "start"
      BY <1>p, <2>1, <3>2 DEF InHand, Driving
    <3> QED
      BY <3>1, <3>2
  <2> HIDE DEF h
  <2>4. /\ StartsIn(requests)' = StartsIn(requests) \ (IF h.kind = "start" THEN {h.id} ELSE {})
        /\ StartsIn(carry)' = StartsIn(carry) /\ LiveIds' = LiveIds
        /\ Numbered(requests, accepted)' /\ Numbered(carry, accepted)'
    BY <1>p, <2>1, <2>2 DEF StartsIn, Numbered, IsStart, LiveIds
  <2>5. Len(requests') <= RequestCapacity /\ (h.kind = "start" => h.id \in 1 .. accepted)
    BY <1>p, <2>1, <2>2, ScanConstants DEF Numbered
  <2> QED
    BY <1>p, <2>1, <2>2, <2>3, <2>4, <2>5, PlacedPartsNext
<1>3. CASE DeadlinePasses \/ InTime
  <2>1. UNCHANGED <<requests, carry, updates, accepted, live>> /\ drive'.id = drive.id
        /\ drive'.step \in {"idle", "deadline", "chunk", "fold"}
        /\ (drive'.step = "idle" <=> drive.step = "idle")
    BY <1>t, <1>3 DEF DeadlinePasses, InTime, Drives, Driving
  <2>2. InHand' = InHand /\ LiveIds' = LiveIds
        /\ StartsIn(requests)' = StartsIn(requests) /\ StartsIn(carry)' = StartsIn(carry)
        /\ Numbered(requests, accepted)' /\ Numbered(carry, accepted)'
    BY <1>p, <2>1 DEF LiveIds, InHand, Driving, StartsIn, Numbered, IsStart
  <2> QED
    BY <1>p, <2>1, <2>2, PlacedPartsNext
<1> QED
  BY <1>1, <1>2, <1>3

\* A scan that goes on keeps its place, and one that ends leaves it together
\* with its terminal.
LEMMA PlacedByChunk ==
  ASSUME ScanTyped, PlacedInv,
         \/ TimeOut \/ ChunkPanics
         \/ \E status \in {"Scanning", "Completed", "Failed", "Cancelled"}, publish \in BOOLEAN :
              Chunk(status, publish)
  PROVE  PlacedInv'
<1>p. /\ Len(requests) <= RequestCapacity /\ Len(carry) <= MaxCarriedRequests
      /\ Len(updates) <= MaxUpdates /\ accepted <= MaxScans
      /\ drive.step \in {"idle", "deadline", "chunk", "fold"}
      /\ LiveIds = StartsIn(requests) \cup StartsIn(carry) \cup InHand
      /\ StartsIn(requests) \cap StartsIn(carry) = {}
      /\ Numbered(requests, accepted) /\ Numbered(carry, accepted)
      /\ InHand \subseteq 1 .. accepted
      /\ InHand \cap (StartsIn(requests) \cup StartsIn(carry)) = {}
  BY PlacedParts
<1>q. UNCHANGED <<requests, carry, accepted>> =>
        /\ StartsIn(requests)' = StartsIn(requests) /\ StartsIn(carry)' = StartsIn(carry)
        /\ Numbered(requests, accepted)' /\ Numbered(carry, accepted)'
  BY <1>p DEF StartsIn, Numbered, IsStart
<1>e. ASSUME drive' = NoDrive, InHand = {drive.id}, LiveIds' = LiveIds \ {drive.id},
             Len(updates') <= MaxUpdates, UNCHANGED <<requests, carry, accepted>>
      PROVE  PlacedInv'
  <2>1. drive'.step = "idle" /\ InHand' = {}
    BY <1>e DEF NoDrive, Drive, InHand, Driving
  <2> QED
    BY <1>p, <1>q, <1>e, <2>1, PlacedPartsNext
<1>1. CASE TimeOut \/ ChunkPanics
  <2>1. /\ PublishUpdate(Snapshot(drive.id, drive.id, drive.root, "Failed")) /\ drive' = NoDrive
        /\ InHand = {drive.id} /\ UNCHANGED <<requests, carry, accepted>>
    BY <1>1 DEF TimeOut, ChunkPanics, InHand, Driving
  <2>2. Len(updates') <= MaxUpdates /\ LiveIds' = LiveIds \ {drive.id}
    BY <2>1, PublishEffect DEF IsTerminal
  <2> QED
    BY <1>e, <2>1, <2>2
<1>2. ASSUME NEW status \in {"Scanning", "Completed", "Failed", "Cancelled"},
             NEW publish \in BOOLEAN, Chunk(status, publish)
      PROVE  PlacedInv'
  <2>1. InHand = {drive.id} /\ UNCHANGED <<requests, carry, accepted>>
        /\ (IsTerminal(status) => publish)
    BY <1>2 DEF Chunk, InHand, Driving
  <2>2. /\ Len(updates') <= MaxUpdates
        /\ LiveIds' = LiveIds \ (IF IsTerminal(status) THEN {drive.id} ELSE {})
    <3>1. CASE publish
      <4>1. PublishUpdate(Snapshot(Resumed.id, drive.id, drive.root, status))
        BY <1>2, <3>1 DEF Chunk
      <4> QED
        BY <4>1, PublishEffect
    <3>2. CASE ~publish
      <4>1. UNCHANGED <<updates, live>> /\ ~IsTerminal(status)
        BY <1>2, <2>1, <3>2 DEF Chunk
      <4> QED
        BY <1>p, <4>1 DEF LiveIds
    <3> QED
      BY <3>1, <3>2
  <2>3. CASE IsTerminal(status)
    <3>1. drive' = NoDrive
      BY <1>2, <2>3 DEF Chunk
    <3> QED
      BY <1>e, <2>1, <2>2, <2>3, <3>1
  <2>4. CASE ~IsTerminal(status)
    <3>1. drive'.step = "fold" /\ drive'.id = drive.id
      BY <1>2, <2>4 DEF Chunk, ScanTyped, Drives
    <3>2. InHand' = InHand
      BY <2>1, <3>1 DEF InHand, Driving
    <3> QED
      BY <1>p, <1>q, <2>1, <2>2, <2>4, <3>1, <3>2, PlacedPartsNext
  <2> QED
    BY <2>3, <2>4
<1> QED
  BY <1>1, <1>2

\* A fold moves a start into the carry or gives it its terminal.
LEMMA PlacedByFold ==
  ASSUME ScanTyped, PlacedInv,
         FoldOwnCancel \/ FoldForeignCancel \/ CarryStart \/ RejectStart \/ FoldDone
  PROVE  PlacedInv'
<1>p. /\ Len(requests) <= RequestCapacity /\ Len(carry) <= MaxCarriedRequests
      /\ Len(updates) <= MaxUpdates /\ accepted <= MaxScans
      /\ drive.step \in {"idle", "deadline", "chunk", "fold"}
      /\ LiveIds = StartsIn(requests) \cup StartsIn(carry) \cup InHand
      /\ StartsIn(requests) \cap StartsIn(carry) = {}
      /\ Numbered(requests, accepted) /\ Numbered(carry, accepted)
      /\ InHand \subseteq 1 .. accepted
      /\ InHand \cap (StartsIn(requests) \cup StartsIn(carry)) = {}
  BY PlacedParts
<1>t. requests \in Seq(Starts \cup Cancels) /\ carry \in Seq(Starts) /\ accepted \in Nat
      /\ drive \in Drives
  BY DEF ScanTyped
<1> DEFINE h == NextRequest
<1>h. ASSUME requests # <<>>, requests' = Tail(requests), accepted' = accepted
      PROVE  /\ StartsIn(requests)' =
                  StartsIn(requests) \ (IF h.kind = "start" THEN {h.id} ELSE {})
             /\ h.kind = "start" => h.id \in StartsIn(requests)
             /\ Numbered(requests, accepted)' /\ Len(requests') <= RequestCapacity
             /\ h \in Starts \cup Cancels
  <2>1. /\ StartsIn(Tail(requests)) =
             StartsIn(requests) \ (IF h.kind = "start" THEN {h.id} ELSE {})
        /\ h.kind = "start" => h.id \in StartsIn(requests)
        /\ Numbered(Tail(requests), accepted) /\ Len(Tail(requests)) = Len(requests) - 1
        /\ Len(requests) \in Nat
    BY <1>t, <1>p, <1>h, OffTheFront DEF NextRequest
  <2>2. h \in Starts \cup Cancels
    BY <1>t, <1>h, TakenFromChannel DEF NextRequest
  <2> HIDE DEF h
  <2>3. StartsIn(requests)' = StartsIn(Tail(requests)) /\ Numbered(requests, accepted)'
    BY <1>h, <2>1 DEF StartsIn, Numbered, IsStart
  <2>4. Len(requests') <= RequestCapacity
    BY <1>p, <1>h, <2>1, ScanConstants
  <2> QED
    BY <2>1, <2>2, <2>3, <2>4
<1>c. UNCHANGED <<carry, accepted>> =>
        StartsIn(carry)' = StartsIn(carry) /\ Numbered(carry, accepted)'
  BY <1>p DEF StartsIn, Numbered, IsStart
<1> HIDE DEF h
<1>1. CASE FoldOwnCancel \/ FoldForeignCancel
  <2>1. /\ requests # <<>> /\ requests' = Tail(requests) /\ h.kind = "cancel"
        /\ UNCHANGED <<carry, updates, accepted, live>>
        /\ drive.step = "fold" /\ drive'.step \in {"fold", "deadline"} /\ drive'.id = drive.id
    BY <1>t, <1>1 DEF FoldOwnCancel, FoldForeignCancel, Folding, Drives, h
  <2>2. InHand' = InHand /\ LiveIds' = LiveIds
    BY <2>1 DEF InHand, Driving, LiveIds
  <2>3. StartsIn(requests)' = StartsIn(requests) /\ Numbered(requests, accepted)'
        /\ Len(requests') <= RequestCapacity
    BY <1>h, <2>1
  <2> QED
    BY <1>p, <1>c, <2>1, <2>2, <2>3, PlacedPartsNext
<1>2. CASE CarryStart
  <2>1. /\ requests # <<>> /\ requests' = Tail(requests) /\ h.kind = "start"
        /\ carry' = Append(carry, h) /\ Len(carry) < MaxCarriedRequests
        /\ UNCHANGED <<drive, updates, accepted, live>>
    BY <1>2 DEF CarryStart, CanCarry, Folding, h
  <2>2. /\ StartsIn(requests)' = StartsIn(requests) \ {h.id} /\ h.id \in StartsIn(requests)
        /\ Numbered(requests, accepted)' /\ Len(requests') <= RequestCapacity
        /\ h \in Starts
    BY <1>h, <2>1 DEF Starts, Cancels
  <2>3. h.id \in 1 .. accepted /\ h.id \notin StartsIn(carry)
    BY <1>p, <2>2 DEF Numbered
  <2>4. /\ StartsIn(Append(carry, h)) = StartsIn(carry) \cup {h.id}
        /\ Numbered(Append(carry, h), accepted) /\ Len(Append(carry, h)) = Len(carry) + 1
    BY <1>t, <1>p, <2>1, <2>2, <2>3, AtTheEnd
  <2>5. StartsIn(carry)' = StartsIn(carry) \cup {h.id} /\ Numbered(carry, accepted)'
    BY <2>1, <2>4 DEF StartsIn, Numbered, IsStart
  <2>6. Len(carry') <= MaxCarriedRequests
    BY <1>t, <2>1, <2>4, ScanConstants
  <2>7. InHand' = InHand /\ LiveIds' = LiveIds
    BY <2>1 DEF InHand, Driving, LiveIds
  <2> QED
    BY <1>p, <2>1, <2>2, <2>5, <2>6, <2>7, PlacedPartsNext
<1>3. CASE RejectStart
  <2>1. /\ requests # <<>> /\ requests' = Tail(requests) /\ h.kind = "start"
        /\ PublishUpdate(Snapshot(h.id, h.id, h.root, "Failed"))
        /\ UNCHANGED <<carry, drive, accepted>>
    BY <1>3 DEF RejectStart, Folding, h
  <2>2. /\ StartsIn(requests)' = StartsIn(requests) \ {h.id} /\ h.id \in StartsIn(requests)
        /\ Numbered(requests, accepted)' /\ Len(requests') <= RequestCapacity
    BY <1>h, <2>1
  <2>3. Len(updates') <= MaxUpdates /\ LiveIds' = LiveIds \ {h.id}
    BY <2>1, PublishEffect DEF IsTerminal
  <2>4. InHand' = InHand
    BY <2>1 DEF InHand, Driving
  <2> QED
    BY <1>p, <1>c, <2>1, <2>2, <2>3, <2>4, PlacedPartsNext
<1>4. CASE FoldDone
  <2>1. UNCHANGED <<requests, carry, updates, accepted, live>> /\ drive'.id = drive.id
        /\ drive.step = "fold" /\ drive'.step = "deadline"
    BY <1>t, <1>4 DEF FoldDone, Drives
  <2>2. InHand' = InHand /\ LiveIds' = LiveIds
        /\ StartsIn(requests)' = StartsIn(requests) /\ Numbered(requests, accepted)'
    BY <1>p, <2>1 DEF LiveIds, InHand, Driving, StartsIn, Numbered, IsStart
  <2> QED
    BY <1>p, <1>c, <2>1, <2>2, PlacedPartsNext
<1> QED
  BY <1>1, <1>2, <1>3, <1>4

LEMMA PlacedStep == ScanTyped /\ PlacedInv /\ [ScanNext]_scanVars => PlacedInv'
<1> SUFFICES ASSUME ScanTyped, PlacedInv, [ScanNext]_scanVars PROVE PlacedInv'
  OBVIOUS
<1>1. CASE UNCHANGED scanVars
  <2>1. UNCHANGED <<requests, carry, updates, drive, accepted, live>>
    BY <1>1 DEF scanVars
  <2>2. LiveIds' = LiveIds
    BY <2>1 DEF LiveIds
  <2>3. Numbered(requests, accepted)' /\ Numbered(carry, accepted)'
    BY <2>1 DEF PlacedInv, Numbered, IsStart, StartsIn
  <2>4. InHand' = InHand /\ StartsIn(requests)' = StartsIn(requests)
        /\ StartsIn(carry)' = StartsIn(carry)
    BY <2>1 DEF InHand, Driving, StartsIn
  <2> QED
    BY <2>1, <2>2, <2>3, <2>4, PlacedParts, PlacedPartsNext
<1>2. CASE ScanNext
  BY <1>2, PlacedByPage, PlacedBetween, PlacedByChunk, PlacedByFold DEF ScanNext, LaneDrives
<1> QED
  BY <1>1, <1>2

\* Whatever the user starts and cancels, and however its scan ends, every
\* accepted start without a terminal is in the channel, carried or on the lane
\* thread, and in only one of the three (directory_scan.rs: drive_scan and
\* fold_queued_requests).
THEOREM StartsKeepTheirPlace == ScanSpec => []ScanTypeOK
<1>1. ScanInv => ScanTyped
  BY DEF ScanInv
<1>2. PlacedInv => ScanTypeOK
  BY DEF PlacedInv
<1> QED
  BY <1>1, <1>2, ScanInvInit, ScanInvStep, PlacedInit, PlacedStep, PTL DEF ScanSpec

-----------------------------------------------------------------------------
(* The three lanes of MCLanes, whatever its constants. *)

\* Of three parts that share nothing, each keeps its own types.
THEOREM LanesAreTyped == LanesSpec => []LanesTypeOK
<1>1. LanesInit => Init /\ DeliveryInit /\ ScanInit
  BY DEF LanesInit
<1>2. [LanesNext]_lanesVars
        => [Next]_vars /\ [DeliveryNext]_deliveryVars /\ [ScanNext]_scanVars
  BY DEF LanesNext, lanesVars
<1>3. DeliveryConstants /\ DeliveryInit => BothSidesTyped /\ Bounded
  BY TypedInit, BoundedInit
<1>4. DeliveryConstants
  BY DeliveryConstants
<1>5. SlotInv /\ BothSidesTyped /\ Bounded /\ ScanInv /\ PlacedInv => LanesTypeOK
  BY BoundsAreTypes DEF SlotInv, PlacedInv, LanesTypeOK
<1>6. ScanInv => ScanTyped
  BY DEF ScanInv
<1> QED
  BY <1>1, <1>2, <1>3, <1>4, <1>5, <1>6, SlotInvInit, SlotInvStep, BoundedStateStep,
     ScanInvInit, ScanInvStep, PlacedInit, PlacedStep, PTL DEF LanesSpec

=============================================================================
