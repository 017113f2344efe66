---------------------------- MODULE ConfigRuntime ----------------------------
(***************************************************************************)
(* The configuration coordinator of one process (config_runtime.rs and its *)
(* publication log) on the file store it shares with other processes       *)
(* (config_store.rs): clients submit edits and drain publications, the     *)
(* worker merges the edits into the file under the inter-process lock and  *)
(* publishes what it committed or read, and the last handle stops it.      *)
(*                                                                         *)
(* Settings are functions from a few fields to values; two fields are what *)
(* it takes to tell a merged edit from one that reverts another writer's.  *)
(* A file that is damaged or missing keeps the settings it last had: no    *)
(* action reads them, they say what was lost.  The other process is one    *)
(* more writer of the same file.  Reading primary and backup takes no lock *)
(* and is one step: files are replaced by rename, so a load that sees a    *)
(* bad primary sees a backup that a later step could have seen with it.    *)
(***************************************************************************)
EXTENDS Naturals, FiniteSets, Sequences, SequencesExt

CONSTANTS
  Clients,           \* windows of this process
  Host,              \* the composition root, which keeps a handle of its own
  Fields, Values,    \* top-level configuration fields and what they may hold
  Default,           \* Config::default()
  CommandCapacity, PublicationCapacity,
  MaxEdits,          \* bound: edits submitted or committed elsewhere, in all
  MaxFaults          \* bound: times the file is damaged or repaired, in all

Settings == [Fields -> Values]
Handles == Clients \cup {Host}

ASSUME ConfigConstants ==
  /\ Default \in Settings
  /\ CommandCapacity \in Nat \ {0} /\ PublicationCapacity \in Nat \ {0}
  /\ MaxEdits \in Nat /\ MaxFaults \in Nat
  /\ IsFiniteSet(Clients)

VARIABLES
  primary, backup,  \* the files: health and last good settings
  writer,           \* commit_snapshot of the worker and of the other process
  lifecycle,        \* ConfigWorkerState, and "Down" between two launches
  commands,         \* the bounded command channel
  current,          \* the worker's canonical settings, ...
  revision,         \* ... their ConfigRevision, ...
  lastRecovery,     \* ... and the last_recovery they came with
  log,              \* PublicationBuffer::log
  nextId,           \* PublicationBuffer::next_id
  client,           \* ConfigClient: cursor and observed publication
  handle,           \* RuntimeHandle of each client and of the host
  edits, faults     \* the bounds' counters

workerVars == <<lifecycle, commands, current, revision, lastRecovery, log, nextId>>
configVars == <<primary, backup, writer, workerVars, client, handle, edits, faults>>

Good(settings) == [health |-> "good", settings |-> settings]
NoFile == [health |-> "missing", settings |-> Default]
File == [health : {"good", "damaged", "missing"}, settings : Settings]
Edit(base, local) == [base |-> base, local |-> local]
NoEdit == Edit(Default, Default)

Writers == {"worker", "other"}
Resting == [at |-> "idle", edit |-> NoEdit, read |-> "good", merged |-> Default]
Under(w) == writer[w].at \in {"reading", "backing", "replacing"}  \* holds the lock
Move(w, at) == writer' = [writer EXCEPT ![w].at = at]
WorkerIdle == lifecycle = "Running" /\ writer["worker"].at = "idle"

-----------------------------------------------------------------------------
(* ConfigStore: commit_patch. *)

\* Faulty: the base of the edit decides every field.
FaultyMerge(edit, on) == edit.local

Merge(edit, on) ==
  [f \in Fields |-> IF edit.local[f] # edit.base[f] THEN edit.local[f] ELSE on[f]]

\* Faulty: a lock that is not waited for.
FaultyAcquire(w) ==
  /\ writer[w].at = "locking"
  /\ Move(w, "reading")
  /\ UNCHANGED <<primary, backup, workerVars, client, handle, edits, faults>>

Acquire(w) ==
  /\ writer[w].at = "locking"
  /\ \A v \in Writers : ~Under(v)
  /\ Move(w, "reading")
  /\ UNCHANGED <<primary, backup, workerVars, client, handle, edits, faults>>

\* Faulty: a file that cannot be decoded counts as absent.
FaultyReadAndMerge(w) ==
  /\ writer[w].at = "reading"
  /\ LET edit == writer[w].edit
         on == IF primary.health = "good" THEN primary.settings ELSE edit.base
     IN writer' = [writer EXCEPT ![w].at = "backing", ![w].read = primary.health,
                                 ![w].merged = Merge(edit, on)]
  /\ UNCHANGED <<primary, backup, workerVars, client, handle, edits, faults>>

\* The file as the lock's holder finds it; absent, the edit's base stands in.
ReadAndMerge(w) ==
  /\ writer[w].at = "reading"
  /\ primary.health # "damaged"
  /\ LET edit == writer[w].edit
         on == IF primary.health = "good" THEN primary.settings ELSE edit.base
     IN writer' = [writer EXCEPT ![w].at = "backing", ![w].read = primary.health,
                                 ![w].merged = Merge(edit, on)]
  /\ UNCHANGED <<primary, backup, workerVars, client, handle, edits, faults>>

\* write_atomic: whatever bytes the primary has become the backup.
CopyBackup(w) ==
  /\ writer[w].at = "backing"
  /\ backup' = IF primary.health = "missing" THEN backup ELSE primary
  /\ Move(w, "replacing")
  /\ UNCHANGED <<primary, workerVars, client, handle, edits, faults>>

\* The rename, and with it the end of the lock.  Its directory may still
\* fail to sync, and then the commit is reported as failed all the same.
Replace(w) ==
  /\ writer[w].at = "replacing"
  /\ primary' = Good(writer[w].merged)
  /\ IF w = "worker"
       THEN \/ writer' = [writer EXCEPT ![w] =
                            [Resting EXCEPT !.at = "committed", !.merged = writer[w].merged]]
            \/ writer' = [writer EXCEPT ![w] = [Resting EXCEPT !.at = "failed"]]
       ELSE writer' = [writer EXCEPT ![w] = Resting]
  /\ UNCHANGED <<backup, workerVars, client, handle, edits, faults>>

\* The lock times out, the file does not decode, or any I/O fails before
\* the rename; for the other process also: it ends.
CommitFails(w) ==
  /\ writer[w].at \in {"locking", "reading", "backing", "replacing"}
  /\ writer' = [writer EXCEPT ![w] =
       IF w = "worker" THEN [Resting EXCEPT !.at = "failed"] ELSE Resting]
  /\ UNCHANGED <<primary, backup, workerVars, client, handle, edits, faults>>

-----------------------------------------------------------------------------
(* ConfigStore: load_with_recovery, and the publication log. *)

Recovery(source, primaryError, backupError) ==
  [source |-> source, primaryError |-> primaryError, backupError |-> backupError]
PrimaryRecovery == Recovery("Primary", "none", "none")

Load ==
  CASE primary.health = "good" -> [settings |-> primary.settings, recovery |-> PrimaryRecovery]
    [] primary.health # "good" /\ backup.health = "good" ->
         [settings |-> backup.settings,
          recovery |-> Recovery("Backup", primary.health, "none")]
    [] OTHER ->
         [settings |-> Default,
          recovery |-> Recovery("Default", primary.health, backup.health)]

Failures == {"RefreshFailed", "SaveFailed"}
Outcomes == Failures \cup {"Loaded", "Recovered", "Saved", "Refreshed"}
Publication == [id : Nat \ {0}, revision : Nat, snapshot : Settings, outcome : Outcomes]

Keep(s, n) == IF Len(s) > n THEN Tail(s) ELSE s

Publish(rev, snapshot, outcome) ==
  /\ log' = Keep(Append(log, [id |-> nextId, revision |-> rev, snapshot |-> snapshot,
                              outcome |-> outcome]), PublicationCapacity)
  /\ nextId' = nextId + 1

-----------------------------------------------------------------------------
(* config_worker. *)

\* The first load; any source but the primary makes it a recovery.
WorkerStart ==
  /\ lifecycle = "Starting"
  /\ lifecycle' = "Running"
  /\ current' = Load.settings /\ revision' = 1 /\ lastRecovery' = Load.recovery
  /\ Publish(1, Load.settings,
             IF Load.recovery = PrimaryRecovery THEN "Loaded" ELSE "Recovered")
  /\ UNCHANGED <<primary, backup, writer, commands, client, handle, edits, faults>>

TakeSubmit ==
  /\ WorkerIdle /\ commands # <<>> /\ Head(commands).kind = "submit"
  /\ writer' = [writer EXCEPT !["worker"] =
                  [Resting EXCEPT !.at = "locking", !.edit = Head(commands).edit]]
  /\ commands' = Tail(commands)
  /\ UNCHANGED <<primary, backup, lifecycle, current, revision, lastRecovery, log, nextId,
                 client, handle, edits, faults>>

\* Faulty: a commit does not say that the primary is in order again.
FaultyFinishCommit ==
  /\ writer["worker"].at = "committed"
  /\ LET merged == writer["worker"].merged IN
     IF merged = current
       THEN UNCHANGED <<current, revision, log, nextId>>
       ELSE current' = merged /\ revision' = revision + 1
            /\ Publish(revision + 1, merged, "Saved")
  /\ writer' = [writer EXCEPT !["worker"] = Resting]
  /\ UNCHANGED <<primary, backup, lifecycle, commands, lastRecovery, client, handle, edits, faults>>

\* A commit that changes nothing the worker knows is not published.
FinishCommit ==
  /\ writer["worker"].at = "committed"
  /\ lastRecovery' = PrimaryRecovery
  /\ LET merged == writer["worker"].merged IN
     IF merged = current
       THEN UNCHANGED <<current, revision, log, nextId>>
       ELSE current' = merged /\ revision' = revision + 1
            /\ Publish(revision + 1, merged, "Saved")
  /\ writer' = [writer EXCEPT !["worker"] = Resting]
  /\ UNCHANGED <<primary, backup, lifecycle, commands, client, handle, edits, faults>>

ReportFailure ==
  /\ writer["worker"].at = "failed"
  /\ Publish(revision, current, "SaveFailed")
  /\ writer' = [writer EXCEPT !["worker"] = Resting]
  /\ UNCHANGED <<primary, backup, lifecycle, commands, current, revision, lastRecovery,
                 client, handle, edits, faults>>

\* Faulty: new settings under the old revision.
FaultyRefreshFromStore ==
  LET found == Load.recovery IN
  IF found.source # "Primary"
    THEN /\ found # lastRecovery
         /\ Publish(revision, current, "RefreshFailed")
         /\ lastRecovery' = found
         /\ UNCHANGED <<current, revision>>
    ELSE /\ Load.settings # current \/ found # lastRecovery
         /\ current' = Load.settings
         /\ Publish(revision, Load.settings, "Refreshed")
         /\ lastRecovery' = found
         /\ UNCHANGED revision

\* Faulty: only a change of the file's state is worth a publication.
LazyRefreshFromStore ==
  LET found == Load.recovery IN
  /\ found # lastRecovery
  /\ lastRecovery' = found
  /\ IF found.source # "Primary"
       THEN Publish(revision, current, "RefreshFailed") /\ UNCHANGED <<current, revision>>
       ELSE /\ current' = Load.settings
            /\ revision' = IF Load.settings # current THEN revision + 1 ELSE revision
            /\ Publish(revision', Load.settings, "Refreshed")

RefreshFromStore ==
  LET found == Load.recovery
      changed == found.source = "Primary" /\ Load.settings # current
  IN /\ changed \/ found # lastRecovery
     /\ lastRecovery' = found
     /\ IF changed THEN current' = Load.settings /\ revision' = revision + 1
                   ELSE UNCHANGED <<current, revision>>
     /\ Publish(revision', current',
                IF found.source = "Primary" THEN "Refreshed" ELSE "RefreshFailed")

Tick ==
  /\ WorkerIdle
  /\ RefreshFromStore
  /\ UNCHANGED <<primary, backup, writer, lifecycle, commands, client, handle, edits, faults>>

TakeRefresh ==
  /\ WorkerIdle /\ commands # <<>> /\ Head(commands).kind = "refresh"
  /\ commands' = Tail(commands)
  /\ RefreshFromStore \/ UNCHANGED <<current, revision, lastRecovery, log, nextId>>
  /\ UNCHANGED <<primary, backup, writer, lifecycle, client, handle, edits, faults>>

\* Handles that keep the channels of the worker connected.
Holders == {h \in Handles : handle[h] \in {"held", "leaving", "joining"}}

\* Faulty: only the shutdown message ends the worker.
FaultyWorkerStop ==
  /\ WorkerIdle
  /\ \E h \in Handles : handle[h] = "joining"
  /\ lifecycle' = "Stopped" /\ commands' = <<>>
  /\ UNCHANGED <<primary, backup, writer, current, revision, lastRecovery, log, nextId,
                 client, handle, edits, faults>>

\* The shutdown message, or the channels disconnected; select! may take it
\* before the commands that are still queued, which are then lost.
WorkerStop ==
  /\ WorkerIdle
  /\ Holders = {} \/ \E h \in Handles : handle[h] = "joining"
  /\ lifecycle' = "Stopped" /\ commands' = <<>>
  /\ UNCHANGED <<primary, backup, writer, current, revision, lastRecovery, log, nextId,
                 client, handle, edits, faults>>

-----------------------------------------------------------------------------
(* ConfigClient and RuntimeHandle. *)

Unobserved == [revision |-> 0, snapshot |-> Default]
Fresh == [cursor |-> 0, observed |-> Unobserved]
Observed(c) == client[c].cursor # 0

\* ConfigCoordinator::client.  A window opened later is another client.
OpenClient(c) ==
  /\ lifecycle # "Down" /\ handle[Host] = "held" /\ handle[c] = "none"
  /\ handle' = [handle EXCEPT ![c] = "held"]
  /\ UNCHANGED <<primary, backup, writer, workerVars, client, edits, faults>>

TrySubmit(c, local) ==
  /\ handle[c] = "held" /\ lifecycle = "Running" /\ edits < MaxEdits
  /\ Observed(c) /\ local # client[c].observed.snapshot
  /\ Len(commands) < CommandCapacity
  /\ commands' = Append(commands, [kind |-> "submit",
                                   edit |-> Edit(client[c].observed.snapshot, local)])
  /\ edits' = edits + 1
  /\ UNCHANGED <<primary, backup, writer, lifecycle, current, revision, lastRecovery, log,
                 nextId, client, handle, faults>>

TryRefresh(c) ==
  /\ handle[c] = "held" /\ lifecycle \in {"Starting", "Running"} /\ edits < MaxEdits
  /\ Len(commands) < CommandCapacity
  /\ commands' = Append(commands, [kind |-> "refresh", edit |-> NoEdit])
  /\ edits' = edits + 1
  /\ UNCHANGED <<primary, backup, writer, lifecycle, current, revision, lastRecovery, log,
                 nextId, client, handle, faults>>

\* drain and observe: whether the log still reaches back to the cursor or
\* the client has to resynchronise, it ends at the latest publication.
Drain(c) ==
  /\ handle[c] = "held" /\ log # <<>> /\ Last(log).id > client[c].cursor
  /\ client' = [client EXCEPT ![c] =
       [cursor |-> Last(log).id,
        observed |-> [revision |-> Last(log).revision, snapshot |-> Last(log).snapshot]]]
  /\ UNCHANGED <<primary, backup, writer, workerVars, handle, edits, faults>>

\* A window or the host goes, and with it what the window had observed.
\* RuntimeHandle::drop looks at the count before it gives its own up.
DropHandle(h) ==
  /\ handle[h] = "held"
  /\ handle' = [handle EXCEPT ![h] = IF Holders = {h} THEN "joining" ELSE "leaving"]
  /\ client' = [c \in Clients |-> IF c = h THEN Fresh ELSE client[c]]
  /\ UNCHANGED <<primary, backup, writer, workerVars, edits, faults>>

Release(h) ==
  /\ handle[h] = "leaving" \/ (handle[h] = "joining" /\ lifecycle = "Stopped")
  /\ handle' = [handle EXCEPT ![h] = "gone"]
  /\ UNCHANGED <<primary, backup, writer, workerVars, client, edits, faults>>

-----------------------------------------------------------------------------
(* The other process, the hand that damages the file, and the end of ours. *)

OtherCommit(local) ==
  /\ writer["other"].at = "idle" /\ edits < MaxEdits
  /\ primary.health = "good" /\ local # primary.settings
  /\ writer' = [writer EXCEPT !["other"] =
                  [Resting EXCEPT !.at = "locking", !.edit = Edit(primary.settings, local)]]
  /\ edits' = edits + 1
  /\ UNCHANGED <<primary, backup, workerVars, client, handle, faults>>

Damage(health) ==
  /\ primary.health = "good" /\ faults < MaxFaults
  /\ primary' = [primary EXCEPT !.health = health]
  /\ faults' = faults + 1
  /\ UNCHANGED <<backup, writer, workerVars, client, handle, edits>>

\* By the backup or by a fresh file, and not in the middle of a commit.
Repair(settings) ==
  /\ primary.health # "good" /\ faults < MaxFaults
  /\ \A w \in Writers : ~Under(w)
  /\ primary' = Good(settings)
  /\ faults' = faults + 1
  /\ UNCHANGED <<backup, writer, workerVars, client, handle, edits>>

\* At any step; the lock goes with the process.
ProcessEnds ==
  /\ lifecycle # "Down"
  /\ lifecycle' = "Down"
  /\ writer' = [writer EXCEPT !["worker"] = Resting]
  /\ commands' = <<>> /\ log' = <<>> /\ nextId' = 1
  /\ current' = Default /\ revision' = 0 /\ lastRecovery' = PrimaryRecovery
  /\ client' = [c \in Clients |-> Fresh]
  /\ handle' = [h \in Handles |-> "none"]
  /\ UNCHANGED <<primary, backup, edits, faults>>

Launch ==
  /\ lifecycle = "Down"
  /\ lifecycle' = "Starting"
  /\ handle' = [handle EXCEPT ![Host] = "held"]
  /\ UNCHANGED <<primary, backup, writer, commands, current, revision, lastRecovery, log,
                 nextId, client, edits, faults>>

-----------------------------------------------------------------------------
ConfigInit ==
  /\ primary \in {Good(Default), NoFile} /\ backup \in {Good(Default), NoFile}
  /\ writer = [w \in Writers |-> Resting]
  /\ lifecycle = "Down" /\ commands = <<>>
  /\ current = Default /\ revision = 0 /\ lastRecovery = PrimaryRecovery
  /\ log = <<>> /\ nextId = 1
  /\ client = [c \in Clients |-> Fresh]
  /\ handle = [h \in Handles |-> "none"]
  /\ edits = 0 /\ faults = 0

Commit(w) ==
  Acquire(w) \/ ReadAndMerge(w) \/ CopyBackup(w) \/ Replace(w) \/ CommitFails(w)

Worker ==
  \/ WorkerStart \/ TakeSubmit \/ Commit("worker") \/ FinishCommit \/ ReportFailure
  \/ Tick \/ TakeRefresh \/ WorkerStop

ClientStep(c) ==
  OpenClient(c) \/ TryRefresh(c) \/ Drain(c) \/ \E local \in Settings : TrySubmit(c, local)

ConfigNext ==
  \/ Worker
  \/ \E c \in Clients : ClientStep(c)
  \/ \E h \in Handles : DropHandle(h) \/ Release(h)
  \/ Commit("other") \/ \E local \in Settings : OtherCommit(local)
  \/ \E health \in {"damaged", "missing"} : Damage(health)
  \/ \E settings \in {Default, backup.settings} : Repair(settings)
  \/ ProcessEnds \/ Launch

\* The worker's thread runs and its lock has a deadline, a window drains in
\* every tick, and a drop is not suspended half way.
ConfigFairness ==
  /\ WF_configVars(Worker)
  /\ \A c \in Clients : WF_configVars(Drain(c))
  /\ \A h \in Handles : WF_configVars(Release(h))

ConfigSpec == ConfigInit /\ [][ConfigNext]_configVars /\ ConfigFairness

-----------------------------------------------------------------------------
(* Properties. *)

\* The log is a window on consecutive publications, no client is ahead of
\* it, and only one writer at a time is inside the file lock.
ConfigTypeOK ==
  /\ primary \in File /\ backup \in File
  /\ writer \in [Writers -> [at : {"idle", "locking", "reading", "backing", "replacing",
                                   "committed", "failed"},
                             edit : [base : Settings, local : Settings],
                             read : {"good", "missing", "damaged"}, merged : Settings]]
  /\ \A v, w \in Writers : Under(v) /\ Under(w) => v = w
  /\ lifecycle \in {"Down", "Starting", "Running", "Stopped"}
  /\ commands \in Seq([kind : {"submit", "refresh"}, edit : [base : Settings, local : Settings]])
  /\ Len(commands) <= CommandCapacity
  /\ current \in Settings /\ revision \in Nat
  /\ log \in Seq(Publication) /\ Len(log) <= PublicationCapacity /\ nextId \in Nat \ {0}
  /\ \A i \in DOMAIN log : log[i].id + Len(log) = nextId + i - 1
  /\ client \in [Clients -> [cursor : Nat,
                             observed : [revision : Nat, snapshot : Settings]]]
  /\ \A c \in Clients : client[c].cursor < nextId
  /\ handle \in [Handles -> {"none", "held", "leaving", "joining", "gone"}]
  /\ edits \in 0 .. MaxEdits /\ faults \in 0 .. MaxFaults

\* Everything that carries settings under a ConfigRevision in this process.
Known ==
  (IF revision > 0 THEN {[revision |-> revision, snapshot |-> current]} ELSE {})
    \cup {[revision |-> log[i].revision, snapshot |-> log[i].snapshot] : i \in DOMAIN log}
    \cup {client[c].observed : c \in {d \in Clients : Observed(d)}}

\* A revision names one snapshot, in the worker, the log and every window:
\* a frontend that has applied a revision does not look at its settings again.
RevisionNamesOneSnapshot ==
  \A x, y \in Known : x.revision = y.revision => x.snapshot = y.snapshot

\* The last good backup gives way to a bad file only in a commit that had
\* itself found the file good under the lock: damage that is there when a
\* commit begins never reaches the backup.
GoodBackupIsKept ==
  [][backup.health = "good" /\ backup'.health # "good"
       => \E w \in Writers : writer[w].at = "backing" /\ writer[w].read = "good"]_configVars

\* Once the file is left alone, every window of a running process comes to
\* show what is in it, whoever wrote it and whichever publications were missed.
ClientsConverge ==
  []<>(\/ lifecycle \in {"Down", "Stopped"}
       \/ primary.health # "good"
       \/ \A c \in Clients :
            handle[c] = "held" => Observed(c) /\ client[c].observed.snapshot = primary.settings)

\* Damage of the file is announced, the second time as well as the first:
\* the latest publication becomes one that says so.
DamageIsAnnounced ==
  (lifecycle = "Running" /\ primary.health # "good")
    ~> (\/ lifecycle # "Running"
        \/ primary.health = "good"
        \/ log # <<>> /\ Last(log).outcome \in Failures \cup {"Recovered"})

\* When the last handle is given up the worker ends, even if two handles are
\* given up at once and neither finds itself the last.
WorkerStops == (Holders = {} /\ lifecycle # "Down") ~> (lifecycle \in {"Stopped", "Down"})

\* The file as all writers share it, and what this process has accepted: the
\* edit its worker is committing, before the commands that wait.
UnderWay ==
  IF writer["worker"].at \in {"locking", "reading", "backing", "replacing"}
    THEN <<[kind |-> "submit", edit |-> writer["worker"].edit]>> ELSE <<>>

Register == INSTANCE ConfigRegister WITH
  content <- primary,
  accepted <- UnderWay \o commands

ImplementsRegister == Register!RegisterSpec
=============================================================================
