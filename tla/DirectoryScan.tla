--------------------------- MODULE DirectoryScan ---------------------------
(***************************************************************************)
(* The directory-usage capability from the page to the walker:             *)
(*                                                                         *)
(*   the user     starts scans and cancels the one that is shown           *)
(*   requests     the bounded request channel of the lane                  *)
(*   carry        starts that arrived while a scan was being driven        *)
(*   drive        drive_scan: the scan on the lane thread, chunk by chunk  *)
(*   session      what the walker keeps between two chunks                 *)
(*   updates      published snapshots the application has not folded       *)
(*   page         SystemProjectionStore::directory_usage, latest wins      *)
(*                                                                         *)
(* (runtime/storage/directory_scan.rs, portable/directory_usage.rs).  A    *)
(* scan is named by the request that started it.  What a chunk finds in    *)
(* the file system is left open; the deadline of a scan is a flag that the *)
(* clock raises.  The teardown of the runtime is not modelled.             *)
(***************************************************************************)
EXTENDS Naturals, Sequences, SequencesExt

CONSTANTS
  Roots,              \* what DirectoryScanSpec names; scanned with equal bounds
  NoScan,             \* no scan: nothing driven, kept or shown
  MaxScans,           \* bound: starts that are accepted
  RequestCapacity,    \* QueueCapacities: request slots of the lane
  MaxCarriedRequests, \* MAX_CARRIED_REQUESTS
  MaxUpdates          \* bound: snapshots on the way to the page

ASSUME ScanConstants ==
  /\ MaxScans \in Nat /\ MaxCarriedRequests \in Nat
  /\ RequestCapacity \in Nat \ {0} /\ MaxUpdates \in Nat \ {0}

VARIABLES requests, carry, drive, session, updates, page,
  asked,      \* the user has cancelled what the page shows
  accepted,   \* RequestIdGenerator: how many starts were accepted
  live,       \* accepted starts without a terminal, with their roots
  waits       \* chunks that ended with the cancel of their scan in the channel

scanVars == <<requests, carry, drive, session, updates, page, asked, accepted, live, waits>>

Start(id, root) == [kind |-> "start", id |-> id, root |-> root]
Cancel(id) == [kind |-> "cancel", id |-> id]

Drive(step, id, root) ==
  [step |-> step, id |-> id, root |-> root, cancelled |-> FALSE, late |-> FALSE]
NoDrive == Drive("idle", NoScan, NoScan)
Driving == drive.step # "idle"

Session(root, id) == [root |-> root, id |-> id]

\* A snapshot: the id it carries, the request it answers, and its status.
Snapshot(id, request, root, status) ==
  [id |-> id, request |-> request, root |-> root, status |-> status]
Empty == Snapshot(NoScan, NoScan, NoScan, "None")

IsTerminal(status) == status # "Scanning"

\* publish_update; the terminal ends the request in the scheduler.
CanPublish == Len(updates) < MaxUpdates
PublishUpdate(snapshot) ==
  /\ CanPublish
  /\ updates' = Append(updates, snapshot)
  /\ live' = IF IsTerminal(snapshot.status)
               THEN {s \in live : s.id # snapshot.request} ELSE live

-----------------------------------------------------------------------------
(* The user, through the shared platform client. *)

LaneHasRoom == Len(requests) < RequestCapacity
Enqueue(request) == requests' = Append(requests, request)

\* The root is the target of the request: a second start is refused.
StartScan(root) ==
  /\ accepted < MaxScans /\ LaneHasRoom
  /\ \A s \in live : s.root # root
  /\ accepted' = accepted + 1
  /\ Enqueue(Start(accepted', root))
  /\ live' = live \cup {[id |-> accepted', root |-> root]}
  /\ UNCHANGED <<carry, drive, session, updates, page, asked, waits>>

\* The page offers it while it shows a scan that goes on.
\* Bound: a user cancels once before the page shows something new.
CancelShown ==
  /\ page.status = "Scanning" /\ ~asked /\ LaneHasRoom
  /\ Enqueue(Cancel(page.id))
  /\ asked' = TRUE
  /\ UNCHANGED <<carry, drive, session, updates, page, accepted, live, waits>>

\* apply_directory_usage
Fold ==
  /\ updates # <<>>
  /\ page' = Head(updates)
  /\ updates' = Tail(updates)
  /\ asked' = FALSE
  /\ UNCHANGED <<requests, carry, drive, session, accepted, live, waits>>

-----------------------------------------------------------------------------
(* The lane between two scans. *)

BeginScan(request) ==
  /\ drive' = Drive("deadline", request.id, request.root)
  /\ waits' = 0

TakeCarried ==
  /\ ~Driving /\ carry # <<>>
  /\ BeginScan(Head(carry))
  /\ carry' = Tail(carry)
  /\ UNCHANGED <<requests, session, updates, page, asked, accepted, live>>

\* A cancel that finds no scan is a no-op.
TakeRequest ==
  /\ ~Driving /\ carry = <<>> /\ requests # <<>>
  /\ requests' = Tail(requests)
  /\ IF Head(requests).kind = "start" THEN BeginScan(Head(requests))
                                      ELSE UNCHANGED <<drive, waits>>
  /\ UNCHANGED <<carry, session, updates, page, asked, accepted, live>>

-----------------------------------------------------------------------------
(* drive_scan *)

DeadlinePasses ==
  /\ Driving /\ ~drive.late
  /\ drive' = [drive EXCEPT !.late = TRUE]
  /\ UNCHANGED <<requests, carry, session, updates, page, asked, accepted, live, waits>>

InTime ==
  /\ drive.step = "deadline" /\ ~drive.late
  /\ drive' = [drive EXCEPT !.step = "chunk"]
  /\ UNCHANGED <<requests, carry, session, updates, page, asked, accepted, live, waits>>


\* Failed(TimedOut), published by the lane; the walker is not told.
TimeOut ==
  /\ drive.step = "deadline" /\ drive.late
  /\ PublishUpdate(Snapshot(drive.id, drive.id, drive.root, "Failed"))
  /\ drive' = NoDrive
  /\ UNCHANGED <<requests, carry, session, page, asked, accepted, waits>>

\* DirectoryUsageScanner::scan_chunk takes a session with the same spec up
\* again, whatever the scan it was begun for.
Resumed ==
  IF session # NoScan /\ session.root = drive.root
    THEN session ELSE Session(drive.root, drive.id)

\* What a chunk ends with: the walker looks at the token before each entry.
Outcomes == IF drive.cancelled THEN {"Cancelled"} ELSE {"Scanning", "Completed", "Failed"}

Overdue == Cancel(drive.id) \in Range(requests)

\* A snapshot that is not terminal is published only after the pause between
\* two progress publications.
Chunk(status, publish) ==
  /\ drive.step = "chunk" /\ status \in Outcomes
  /\ IsTerminal(status) => publish
  /\ IF publish THEN PublishUpdate(Snapshot(Resumed.id, drive.id, drive.root, status))
                ELSE UNCHANGED <<updates, live>>
  /\ session' = IF IsTerminal(status) THEN NoScan ELSE Resumed
  /\ drive' = IF IsTerminal(status) THEN NoDrive ELSE [drive EXCEPT !.step = "fold"]
  /\ waits' = IF Overdue /\ ~IsTerminal(status) THEN waits + 1 ELSE waits
  /\ UNCHANGED <<requests, carry, page, asked, accepted>>

\* execute_isolated: the session was taken out before the panic.
ChunkPanics ==
  /\ drive.step = "chunk"
  /\ PublishUpdate(Snapshot(drive.id, drive.id, drive.root, "Failed"))
  /\ session' = NoScan
  /\ drive' = NoDrive
  /\ UNCHANGED <<requests, carry, page, asked, accepted, waits>>

-----------------------------------------------------------------------------
(* fold_queued_requests, one try_recv after the other. *)

NextRequest == Head(requests)
Folding(kind) == drive.step = "fold" /\ requests # <<>> /\ NextRequest.kind = kind

FoldOwnCancel ==
  /\ Folding("cancel") /\ NextRequest.id = drive.id
  /\ requests' = Tail(requests)
  /\ drive' = [drive EXCEPT !.step = "deadline", !.cancelled = TRUE]
  /\ UNCHANGED <<carry, session, updates, page, asked, accepted, live, waits>>

FoldForeignCancel ==
  /\ Folding("cancel") /\ NextRequest.id # drive.id
  /\ requests' = Tail(requests)
  /\ UNCHANGED <<carry, drive, session, updates, page, asked, accepted, live, waits>>

CanCarry == Len(carry) < MaxCarriedRequests

CarryStart ==
  /\ Folding("start") /\ CanCarry
  /\ requests' = Tail(requests)
  /\ carry' = Append(carry, NextRequest)
  /\ UNCHANGED <<drive, session, updates, page, asked, accepted, live, waits>>

\* Faulty: a full carry ends the fold.
FaultyRejectStart ==
  /\ Folding("start") /\ ~CanCarry
  /\ drive' = [drive EXCEPT !.step = "deadline"]
  /\ UNCHANGED <<requests, carry, session, updates, page, asked, accepted, live, waits>>

\* Failed(Rejected)
RejectStart ==
  /\ Folding("start") /\ ~CanCarry
  /\ requests' = Tail(requests)
  /\ PublishUpdate(Snapshot(NextRequest.id, NextRequest.id, NextRequest.root, "Failed"))
  /\ UNCHANGED <<carry, drive, session, page, asked, accepted, waits>>

FoldDone ==
  /\ drive.step = "fold" /\ requests = <<>>
  /\ drive' = [drive EXCEPT !.step = "deadline"]
  /\ UNCHANGED <<requests, carry, session, updates, page, asked, accepted, live, waits>>

-----------------------------------------------------------------------------
ScanInit ==
  /\ requests = <<>> /\ carry = <<>> /\ updates = <<>>
  /\ drive = NoDrive /\ session = NoScan /\ page = Empty
  /\ asked = FALSE /\ accepted = 0 /\ live = {} /\ waits = 0

LaneDrives ==
  \/ TakeCarried \/ TakeRequest \/ InTime \/ TimeOut \/ ChunkPanics
  \/ \E status \in {"Scanning", "Completed", "Failed", "Cancelled"}, publish \in BOOLEAN :
       Chunk(status, publish)
  \/ FoldOwnCancel \/ FoldForeignCancel \/ CarryStart \/ RejectStart \/ FoldDone

ScanNext ==
  \/ \E root \in Roots : StartScan(root)
  \/ CancelShown \/ Fold \/ DeadlinePasses \/ LaneDrives

\* The lane thread runs on, a chunk is bounded in time (but a scan need not
\* converge), the clock goes on, and the frontend drains in every frame.
ScanFairness ==
  WF_scanVars(LaneDrives) /\ WF_scanVars(DeadlinePasses) /\ WF_scanVars(Fold)

ScanSpec == ScanInit /\ [][ScanNext]_scanVars /\ ScanFairness

-----------------------------------------------------------------------------
(* Properties. *)

StartsIn(queue) == {queue[i].id : i \in {j \in DOMAIN queue : queue[j].kind = "start"}}

\* Every accepted start without a terminal is in exactly one place: in the
\* channel, carried, or on the lane thread.
ScanTypeOK ==
  /\ Len(requests) <= RequestCapacity /\ Len(carry) <= MaxCarriedRequests
  /\ Len(updates) <= MaxUpdates /\ accepted <= MaxScans
  /\ {s.id : s \in live} = StartsIn(requests) \cup StartsIn(carry)
                             \cup (IF Driving THEN {drive.id} ELSE {})
  /\ StartsIn(requests) \cap StartsIn(carry) = {}
  /\ drive.step \in {"idle", "deadline", "chunk", "fold"}

\* directory_scan.rs drains the channel even while the carry is full, so that
\* a cancel takes effect within one chunk: no scan starts a second chunk while
\* the cancel that names it is in the channel.
CancelWithinOneChunk == waits <= 1


(* What the documentation of the request says and the code does not keep. *)

\* facets/directory_usage.rs: "Starting a scan for the same root again is the
\* resume path: a new scan id supersedes the previous one": a snapshot shows
\* the scan it belongs to, which is the one the page can cancel.
SnapshotsNameTheirScan == page.id = page.request
=============================================================================
