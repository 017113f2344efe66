-------------------------- MODULE ConfigRuntimeProofs --------------------------
(***************************************************************************)
(* Safety of the configuration runtime for any clients, fields, values,    *)
(* capacities and bounds.  The type invariant is proved in parts, and is   *)
(* inductive as it stands.  What the properties need beside it:            *)
(* nothing is known of a configuration before the worker has loaded one,   *)
(* whatever is known is no newer than the worker's revision, and what the  *)
(* lock's holder merged into stays what the file says, or would say if     *)
(* nobody had damaged it, until the holder replaces the file.              *)
(***************************************************************************)
EXTENDS ConfigRuntime, SequenceTheorems, TLAPS

EditSet == [base : Settings, local : Settings]
Phases == {"idle", "locking", "reading", "backing", "replacing", "committed", "failed"}
WriterState == [at : Phases, edit : EditSet, read : {"good", "missing", "damaged"},
                merged : Settings]
Command == [kind : {"submit", "refresh"}, edit : EditSet]
View == [cursor : Nat, observed : [revision : Nat, snapshot : Settings]]

FilesOK == primary \in File /\ backup \in File
WritersOK ==
  /\ writer \in [Writers -> WriterState]
  /\ \A v, w \in Writers : Under(v) /\ Under(w) => v = w
WorkerOK ==
  /\ lifecycle \in {"Down", "Starting", "Running", "Stopped"}
  /\ commands \in Seq(Command) /\ Len(commands) <= CommandCapacity
  /\ current \in Settings /\ revision \in Nat
LogOK ==
  /\ log \in Seq(Publication) /\ Len(log) <= PublicationCapacity /\ nextId \in Nat \ {0}
  /\ \A i \in DOMAIN log : log[i].id + Len(log) = nextId + i - 1
ClientsOK ==
  /\ client \in [Clients -> View] /\ \A c \in Clients : client[c].cursor < nextId
  /\ handle \in [Handles -> {"none", "held", "leaving", "joining", "gone"}]
BoundsOK == edits \in 0 .. MaxEdits /\ faults \in 0 .. MaxFaults

\* The type invariant is the conjunction of its parts.
LEMMA TypeParts ==
  ConfigTypeOK <=> FilesOK /\ WritersOK /\ WorkerOK /\ LogOK /\ ClientsOK /\ BoundsOK
  BY DEF ConfigTypeOK, FilesOK, WritersOK, WorkerOK, LogOK, ClientsOK, BoundsOK,
         EditSet, Phases, WriterState, Command, View

-----------------------------------------------------------------------------
(* The operators. *)

\* A merge of settings gives settings, and neither edit nor file is empty.
LEMMA MergeTyped ==
  ASSUME NEW edit \in EditSet, NEW on \in Settings
  PROVE  Merge(edit, on) \in Settings
  BY DEF EditSet, Settings, Merge

\* A load always has settings to offer.
LEMMA LoadTyped == FilesOK => Load.settings \in Settings
<1> SUFFICES ASSUME FilesOK PROVE Load.settings \in Settings
  OBVIOUS
<1>1. CASE primary.health = "good"
  BY <1>1 DEF Load, FilesOK, File
<1>2. CASE primary.health # "good" /\ backup.health = "good"
  BY <1>2 DEF Load, FilesOK, File
<1>3. CASE primary.health # "good" /\ backup.health # "good"
  BY <1>3, ConfigConstants DEF Load
<1> QED
  BY <1>1, <1>2, <1>3

\* A publication goes to the end of the log under the next id and drops the
\* first one when the log is full; nothing else in the log changes.
LEMMA PublishTyped ==
  ASSUME LogOK, NEW rev \in Nat, NEW snapshot \in Settings, NEW outcome \in Outcomes,
         Publish(rev, snapshot, outcome)
  PROVE  /\ LogOK' /\ nextId' = nextId + 1
         /\ \A i \in DOMAIN log' :
              \/ log'[i].revision = rev /\ log'[i].snapshot = snapshot
              \/ \E j \in DOMAIN log : log'[i] = log[j]
<1> DEFINE new == [id |-> nextId, revision |-> rev, snapshot |-> snapshot, outcome |-> outcome]
           long == Append(log, new)
<1>1. new \in Publication
  BY DEF LogOK, Publication
<1>2. /\ long \in Seq(Publication) /\ Len(long) = Len(log) + 1 /\ Len(log) \in Nat
      /\ long[Len(log) + 1] = new /\ DOMAIN log = 1 .. Len(log)
  BY <1>1 DEF LogOK
<1>3. \A i \in 1 .. Len(log) : long[i] = log[i] /\ log[i] \in Publication
  BY <1>1 DEF LogOK
<1>4. log' = Keep(long, PublicationCapacity) /\ nextId' = nextId + 1 /\ nextId \in Nat
  BY DEF Publish, LogOK
<1>4a. new.id = nextId /\ new.revision = rev /\ new.snapshot = snapshot
  OBVIOUS
<1> HIDE DEF new, long
<1>5. \A i \in 1 .. Len(long) : long[i].id \in Nat /\ long[i].id + Len(long) = nextId' + i - 1
  <2> TAKE i \in 1 .. Len(long)
  <2>1. CASE i \in 1 .. Len(log)
    <3>1. long[i].id = log[i].id /\ log[i].id \in Nat
      BY <1>3, <2>1 DEF Publication
    <3>2. log[i].id + Len(log) = nextId + i - 1
      BY <1>2, <2>1 DEF LogOK
    <3> DEFINE m == log[i].id
               n == Len(log)
    <3> HIDE DEF m, n
    <3>3. m + n = nextId + i - 1 /\ m \in Nat /\ n \in Nat /\ Len(long) = n + 1 /\ long[i].id = m
      BY <1>2, <3>1, <3>2 DEF m, n
    <3>4. i \in Int /\ nextId' = nextId + 1 /\ nextId \in Nat
      BY <1>4
    <3> QED
      BY <3>3, <3>4
  <2>2. CASE i = Len(log) + 1
    <3>1. long[i].id = nextId
      BY <1>2, <1>4a, <2>2
    <3> QED
      BY <1>2, <1>4, <2>2, <3>1
  <2> QED
    BY <1>2, <2>1, <2>2
<1>6. \A i \in 1 .. Len(long) :
        \/ long[i].revision = rev /\ long[i].snapshot = snapshot
        \/ \E j \in DOMAIN log : long[i] = log[j]
  <2> TAKE i \in 1 .. Len(long)
  <2>1. CASE i \in 1 .. Len(log)
    BY <1>2, <1>3, <2>1
  <2>2. CASE i = Len(log) + 1
    BY <1>2, <1>4a, <2>2
  <2> QED
    BY <1>2, <2>1, <2>2
<1>7. CASE Len(long) <= PublicationCapacity
  <2>1. log' = long
    BY <1>2, <1>4, <1>7, ConfigConstants DEF Keep
  <2> QED
    BY <1>2, <1>4, <1>5, <1>6, <1>7, <2>1 DEF LogOK
<1>8. CASE Len(long) > PublicationCapacity
  <2>1. log' = Tail(long)
    BY <1>2, <1>4, <1>8, ConfigConstants DEF Keep
  <2>2. /\ log' \in Seq(Publication) /\ Len(log') = Len(log) /\ Len(log) <= PublicationCapacity
        /\ \A i \in 1 .. Len(log') : log'[i] = long[i + 1]
    BY <1>2, <2>1, HeadTailProperties DEF LogOK
  <2>3. DOMAIN log' = 1 .. Len(log) /\ \A i \in 1 .. Len(log) : i + 1 \in 1 .. Len(long)
    BY <1>2, <2>2
  <2>4. \A i \in 1 .. Len(log) : log'[i].id + Len(log) = nextId' + i - 1
    <3> TAKE i \in 1 .. Len(log)
    <3>1. log'[i] = long[i + 1] /\ i + 1 \in 1 .. Len(long)
      BY <2>2, <2>3
    <3>2. long[i + 1].id \in Nat /\ long[i + 1].id + Len(long) = nextId' + (i + 1) - 1
      BY <1>5, <3>1
    <3> QED
      BY <1>2, <1>4, <3>1, <3>2
  <2>5. LogOK'
    BY <1>2, <1>4, <2>2, <2>3, <2>4 DEF LogOK
  <2> QED
    BY <1>4, <1>6, <2>2, <2>3, <2>5
<1> QED
  BY <1>2, <1>7, <1>8, ConfigConstants

\* What a refresh publishes is either what was current or a new revision.
LEMMA RefreshEffect ==
  ASSUME FilesOK, WorkerOK, RefreshFromStore
  PROVE  /\ current' \in Settings /\ revision' \in Nat
         /\ (revision' = revision /\ current' = current) \/ revision' = revision + 1
         /\ \E outcome \in Outcomes : Publish(revision', current', outcome)
<1>1. current' \in Settings /\ revision' \in Nat
      /\ ((revision' = revision /\ current' = current) \/ revision' = revision + 1)
  BY LoadTyped DEF RefreshFromStore, WorkerOK
<1>2. Publish(revision', current',
              IF Load.recovery.source = "Primary" THEN "Refreshed" ELSE "RefreshFailed")
  BY Zenon DEF RefreshFromStore
<1>3. (IF Load.recovery.source = "Primary" THEN "Refreshed" ELSE "RefreshFailed") \in Outcomes
  BY DEF Outcomes, Failures
<1> QED
  BY <1>1, <1>2, <1>3, Zenon
-----------------------------------------------------------------------------
(* Type correctness, one step per action. *)

TypedParts == FilesOK /\ WritersOK /\ WorkerOK /\ LogOK /\ ClientsOK /\ BoundsOK

\* The initial state is typed.
LEMMA TypedInit == ConfigInit => TypedParts
<1> SUFFICES ASSUME ConfigInit PROVE TypedParts
  OBVIOUS
<1> USE ConfigConstants DEF ConfigInit
<1>1. FilesOK
  BY DEF FilesOK, File, Good, NoFile
<1>2. WritersOK
  BY DEF WritersOK, WriterState, EditSet, Phases, Resting, NoEdit, Edit, Under, Writers
<1>3. WorkerOK
  BY DEF WorkerOK
<1>4. LogOK
  BY DEF LogOK
<1>5. ClientsOK
  BY DEF ClientsOK, View, Fresh, Unobserved
<1>6. BoundsOK
  BY DEF BoundsOK
<1> QED
  BY <1>1, <1>2, <1>3, <1>4, <1>5, <1>6 DEF TypedParts

\* A writer between two steps of a commit is a writer, and a resting one.
LEMMA WriterTyped ==
  /\ Resting \in WriterState
  /\ \A s \in WriterState : /\ \A at \in Phases : [s EXCEPT !.at = at] \in WriterState
                            /\ s.edit \in EditSet /\ s.merged \in Settings
<1>1. Resting \in WriterState
  BY ConfigConstants DEF WriterState, EditSet, Phases, Resting, NoEdit, Edit
<1>2. \A s \in WriterState : /\ \A at \in Phases : [s EXCEPT !.at = at] \in WriterState
                             /\ s.edit \in EditSet /\ s.merged \in Settings
  BY DEF WriterState
<1> QED
  BY <1>1, <1>2

\* A writer that moves on keeps the lock exclusive if it takes it only when
\* nobody has it.
LEMMA LockStep ==
  ASSUME WritersOK, NEW w \in Writers, NEW state \in WriterState,
         writer' = [writer EXCEPT ![w] = state],
         state.at \in {"reading", "backing", "replacing"}
           => Under(w) \/ \A v \in Writers : ~Under(v)
  PROVE  WritersOK'
<1>1. writer' \in [Writers -> WriterState]
  BY DEF WritersOK
<1>2. \A v \in Writers : v # w => writer'[v] = writer[v]
  BY DEF WritersOK
<1>3. writer'[w] = state
  BY DEF WritersOK
<1>4. \A u, v \in Writers : Under(u)' /\ Under(v)' => u = v
  BY <1>2, <1>3 DEF Under, WritersOK
<1> QED
  BY <1>1, <1>4 DEF WritersOK

\* Every step of a commit is typed, and keeps the lock to one writer.
LEMMA CommitTyped ==
  ASSUME TypedParts, NEW w \in Writers, Commit(w)
  PROVE  TypedParts'
<1> USE DEF TypedParts
<1>1. writer[w] \in WriterState /\ "reading" \in Phases /\ "backing" \in Phases
      /\ "replacing" \in Phases /\ "committed" \in Phases /\ "failed" \in Phases
  BY DEF WritersOK, Phases
<1>2. CASE Acquire(w)
  <2>1. writer' = [writer EXCEPT ![w] = [writer[w] EXCEPT !.at = "reading"]]
        /\ [writer[w] EXCEPT !.at = "reading"] \in WriterState
    BY <1>1, <1>2, WriterTyped DEF Acquire, Move
  <2>2. WritersOK'
    BY <1>2, <2>1, LockStep DEF Acquire
  <2> QED
    BY <1>2, <2>2 DEF Acquire, FilesOK, WorkerOK, LogOK, ClientsOK, BoundsOK, workerVars
<1>3. CASE ReadAndMerge(w)
  <2> DEFINE on == IF primary.health = "good" THEN primary.settings ELSE writer[w].edit.base
             state == [writer[w] EXCEPT !.at = "backing", !.read = primary.health,
                                        !.merged = Merge(writer[w].edit, on)]
  <2>1. on \in Settings
    BY <1>1, WriterTyped DEF FilesOK, File, EditSet
  <2>2. Merge(writer[w].edit, on) \in Settings
    BY <1>1, <2>1, WriterTyped, MergeTyped
  <2>3. state \in WriterState /\ writer' = [writer EXCEPT ![w] = state]
    BY <1>1, <1>3, <2>2 DEF ReadAndMerge, FilesOK, File, WriterState
  <2>4. Under(w)
    BY <1>3 DEF ReadAndMerge, Under
  <2>5. WritersOK'
    BY <2>3, <2>4, LockStep
  <2> QED
    BY <1>3, <2>5 DEF ReadAndMerge, FilesOK, WorkerOK, LogOK, ClientsOK, BoundsOK, workerVars
<1>4. CASE CopyBackup(w)
  <2>1. writer' = [writer EXCEPT ![w] = [writer[w] EXCEPT !.at = "replacing"]]
        /\ [writer[w] EXCEPT !.at = "replacing"] \in WriterState
    BY <1>1, <1>4, WriterTyped DEF CopyBackup, Move
  <2>2. WritersOK'
    BY <1>4, <2>1, LockStep DEF CopyBackup, Under
  <2>3. FilesOK'
    BY <1>4 DEF CopyBackup, FilesOK
  <2> QED
    BY <1>4, <2>2, <2>3 DEF CopyBackup, WorkerOK, LogOK, ClientsOK, BoundsOK, workerVars
<1>5. CASE Replace(w)
  <2>1. FilesOK'
    BY <1>1, <1>5, WriterTyped DEF Replace, FilesOK, File, Good
  <2>2. PICK state \in WriterState : /\ state.at \in {"committed", "failed", "idle"}
                                     /\ writer' = [writer EXCEPT ![w] = state]
    <3>1. [Resting EXCEPT !.at = "committed", !.merged = writer[w].merged] \in WriterState
          /\ [Resting EXCEPT !.at = "failed"] \in WriterState
          /\ [Resting EXCEPT !.at = "committed", !.merged = writer[w].merged].at = "committed"
          /\ [Resting EXCEPT !.at = "failed"].at = "failed" /\ Resting.at = "idle"
      BY <1>1, WriterTyped DEF WriterState, Resting
    <3> QED
      BY <1>5, <3>1, WriterTyped DEF Replace
  <2>3. WritersOK'
    BY <2>2, LockStep
  <2> QED
    BY <1>5, <2>1, <2>3 DEF Replace, WorkerOK, LogOK, ClientsOK, BoundsOK, workerVars
<1>6. CASE CommitFails(w)
  <2>1. PICK state \in WriterState : /\ state.at \in {"failed", "idle"}
                                     /\ writer' = [writer EXCEPT ![w] = state]
    <3>1. [Resting EXCEPT !.at = "failed"] \in WriterState
          /\ [Resting EXCEPT !.at = "failed"].at = "failed" /\ Resting.at = "idle"
      BY <1>1, WriterTyped DEF WriterState, Resting
    <3> QED
      BY <1>6, <3>1, WriterTyped DEF CommitFails
  <2>2. WritersOK'
    BY <2>1, LockStep
  <2> QED
    BY <1>6, <2>2 DEF CommitFails, FilesOK, WorkerOK, LogOK, ClientsOK, BoundsOK, workerVars
<1> QED
  BY <1>2, <1>3, <1>4, <1>5, <1>6 DEF Commit

\* Taking a command from the queue leaves a queue that is no longer.
LEMMA DequeueTyped ==
  ASSUME WorkerOK, commands # <<>>
  PROVE  /\ Tail(commands) \in Seq(Command) /\ Len(Tail(commands)) <= CommandCapacity
         /\ Head(commands).edit \in EditSet
<1>1. /\ Head(commands) \in Command /\ Tail(commands) \in Seq(Command)
      /\ Len(Tail(commands)) = Len(commands) - 1 /\ Len(commands) \in Nat
  BY HeadTailProperties DEF WorkerOK
<1> QED
  BY <1>1, ConfigConstants DEF WorkerOK, Command

\* Every step of the worker outside a commit is typed.
LEMMA WorkerTyped ==
  ASSUME TypedParts,
         \/ WorkerStart \/ TakeSubmit \/ FinishCommit \/ ReportFailure
         \/ Tick \/ TakeRefresh \/ WorkerStop
  PROVE  TypedParts'
<1> USE DEF TypedParts
<1>w. "worker" \in Writers /\ Resting.at = "idle" /\ Resting \in WriterState
  BY WriterTyped DEF Writers, Resting
<1>p. ASSUME NEW rev \in Nat, NEW snapshot \in Settings, NEW outcome \in Outcomes,
             Publish(rev, snapshot, outcome)
      PROVE  LogOK' /\ nextId' = nextId + 1
  BY <1>p, PublishTyped
<1>r. ASSUME writer' = [writer EXCEPT !["worker"] = Resting] PROVE WritersOK'
  BY <1>r, <1>w, LockStep
<1>c. ASSUME nextId' = nextId + 1, UNCHANGED <<client, handle>> PROVE ClientsOK'
  BY <1>c DEF ClientsOK, LogOK, View
<1>1. CASE WorkerStart
  <2>1. PICK outcome \in Outcomes : Publish(1, Load.settings, outcome)
    BY <1>1 DEF WorkerStart, Outcomes
  <2>2. LogOK' /\ nextId' = nextId + 1
    BY <1>p, <2>1, LoadTyped
  <2>3. WorkerOK'
    BY <1>1, LoadTyped DEF WorkerStart, WorkerOK
  <2> QED
    BY <1>1, <1>c, <2>2, <2>3 DEF WorkerStart, FilesOK, WritersOK, Under, BoundsOK
<1>2. CASE TakeSubmit
  <2> DEFINE state == [Resting EXCEPT !.at = "locking", !.edit = Head(commands).edit]
  <2>1. commands # <<>> /\ Tail(commands) \in Seq(Command)
        /\ Len(Tail(commands)) <= CommandCapacity /\ Head(commands).edit \in EditSet
    BY <1>2, DequeueTyped DEF TakeSubmit
  <2>2. state \in WriterState /\ state.at = "locking"
    BY <1>w, <2>1 DEF WriterState, Phases, Resting
  <2>3. WritersOK'
    BY <1>2, <1>w, <2>2, LockStep DEF TakeSubmit
  <2>4. WorkerOK'
    BY <1>2, <2>1 DEF TakeSubmit, WorkerOK
  <2> QED
    BY <1>2, <2>3, <2>4 DEF TakeSubmit, FilesOK, LogOK, ClientsOK, BoundsOK
<1>3. CASE FinishCommit
  <2>1. writer["worker"].merged \in Settings
    BY <1>w, WriterTyped DEF WritersOK
  <2>2. WorkerOK'
    BY <1>3, <2>1 DEF FinishCommit, WorkerOK
  <2>3. LogOK' /\ ClientsOK'
    <3>1. CASE writer["worker"].merged = current
      BY <1>3, <3>1 DEF FinishCommit, LogOK, ClientsOK
    <3>2. CASE writer["worker"].merged # current
      <4>1. Publish(revision + 1, writer["worker"].merged, "Saved")
        BY <1>3, <3>2 DEF FinishCommit
      <4>2. revision + 1 \in Nat /\ "Saved" \in Outcomes
        BY DEF WorkerOK, Outcomes
      <4> QED
        BY <1>3, <1>p, <1>c, <2>1, <4>1, <4>2 DEF FinishCommit
    <3> QED
      BY <3>1, <3>2
  <2> QED
    BY <1>3, <1>r, <2>2, <2>3 DEF FinishCommit, FilesOK, BoundsOK
<1>4. CASE ReportFailure
  <2>1. Publish(revision, current, "SaveFailed") /\ "SaveFailed" \in Outcomes
    BY <1>4 DEF ReportFailure, Outcomes, Failures
  <2>2. LogOK' /\ nextId' = nextId + 1
    BY <1>p, <2>1 DEF WorkerOK
  <2> QED
    BY <1>4, <1>r, <1>c, <2>2 DEF ReportFailure, FilesOK, WorkerOK, BoundsOK
<1>5. ASSUME RefreshFromStore PROVE /\ current' \in Settings /\ revision' \in Nat
                                    /\ LogOK' /\ nextId' = nextId + 1
  <2>1. PICK outcome \in Outcomes : Publish(revision', current', outcome)
    BY <1>5, RefreshEffect
  <2>2. current' \in Settings /\ revision' \in Nat
    BY <1>5, RefreshEffect
  <2> HIDE DEF TypedParts
  <2> QED
    BY <1>p, <2>1, <2>2
<1>6. CASE Tick
  BY <1>6, <1>5, <1>c DEF Tick, FilesOK, WritersOK, Under, WorkerOK, BoundsOK
<1>7. CASE TakeRefresh
  <2>1. Tail(commands) \in Seq(Command) /\ Len(Tail(commands)) <= CommandCapacity
    BY <1>7, DequeueTyped DEF TakeRefresh
  <2>2. CASE RefreshFromStore
    BY <1>7, <1>5, <1>c, <2>1, <2>2
       DEF TakeRefresh, FilesOK, WritersOK, Under, WorkerOK, BoundsOK
  <2>3. CASE UNCHANGED <<current, revision, lastRecovery, log, nextId>>
    BY <1>7, <2>1, <2>3
       DEF TakeRefresh, FilesOK, WritersOK, Under, WorkerOK, LogOK, ClientsOK, BoundsOK
  <2> QED
    BY <1>7, <2>2, <2>3 DEF TakeRefresh
<1>8. CASE WorkerStop
  BY <1>8, ConfigConstants
     DEF WorkerStop, FilesOK, WritersOK, Under, WorkerOK, LogOK, ClientsOK, BoundsOK
<1> QED
  BY <1>1, <1>2, <1>3, <1>4, <1>6, <1>7, <1>8

\* Every step of a window or of the host is typed.
LEMMA HandleTyped ==
  ASSUME TypedParts,
         \/ \E c \in Clients : ClientStep(c)
         \/ \E h \in Handles : DropHandle(h) \/ Release(h)
  PROVE  TypedParts'
<1> USE DEF TypedParts
<1>1. ASSUME NEW c \in Clients, OpenClient(c) PROVE TypedParts'
  BY <1>1 DEF OpenClient, FilesOK, WritersOK, Under, WorkerOK, LogOK, ClientsOK, BoundsOK,
              workerVars, Handles
<1>2. ASSUME NEW command \in Command, Len(commands) < CommandCapacity,
             commands' = Append(commands, command),
             UNCHANGED <<lifecycle, current, revision>>
      PROVE  WorkerOK'
  <2>1. commands' \in Seq(Command) /\ Len(commands') = Len(commands) + 1
        /\ Len(commands) \in Nat
    BY <1>2 DEF WorkerOK
  <2> QED
    BY <1>2, <2>1, ConfigConstants DEF WorkerOK
<1>3. edits < MaxEdits /\ edits' = edits + 1 /\ faults' = faults => BoundsOK'
  BY ConfigConstants DEF BoundsOK
<1>4. ASSUME NEW c \in Clients, NEW local \in Settings, TrySubmit(c, local) PROVE TypedParts'
  <2> DEFINE command == [kind |-> "submit", edit |-> Edit(client[c].observed.snapshot, local)]
  <2>1. command \in Command
    BY DEF Command, EditSet, Edit, ClientsOK, View
  <2>2. WorkerOK'
    BY <1>2, <1>4, <2>1 DEF TrySubmit
  <2> QED
    BY <1>3, <1>4, <2>2 DEF TrySubmit, FilesOK, WritersOK, Under, LogOK, ClientsOK
<1>5. ASSUME NEW c \in Clients, TryRefresh(c) PROVE TypedParts'
  <2> DEFINE command == [kind |-> "refresh", edit |-> NoEdit]
  <2>1. command \in Command
    BY ConfigConstants DEF Command, EditSet, Edit, NoEdit
  <2>2. WorkerOK'
    BY <1>2, <1>5, <2>1 DEF TryRefresh
  <2> QED
    BY <1>3, <1>5, <2>2 DEF TryRefresh, FilesOK, WritersOK, Under, LogOK, ClientsOK
<1>6. ASSUME NEW c \in Clients, Drain(c) PROVE TypedParts'
  <2>1. /\ log[Len(log)] \in Publication /\ log[Len(log)].id = nextId - 1
        /\ Last(log) = log[Len(log)]
    <3>1. Len(log) \in Nat /\ Len(log) \in DOMAIN log /\ log[Len(log)] \in Publication
      BY <1>6 DEF Drain, LogOK
    <3>2. log[Len(log)].id + Len(log) = nextId + Len(log) - 1 /\ log[Len(log)].id \in Nat
      BY <3>1 DEF LogOK, Publication
    <3> QED
      BY <3>1, <3>2 DEF Last, LogOK
  <2> DEFINE view == [cursor |-> Last(log).id,
                      observed |-> [revision |-> Last(log).revision,
                                    snapshot |-> Last(log).snapshot]]
  <2>2. view \in View /\ view.cursor < nextId /\ client' = [client EXCEPT ![c] = view]
    BY <1>6, <2>1 DEF Drain, View, Publication, LogOK
  <2>3. ClientsOK'
    BY <1>6, <2>2 DEF Drain, ClientsOK, workerVars
  <2> QED
    BY <1>6, <2>3 DEF Drain, FilesOK, WritersOK, Under, WorkerOK, LogOK, BoundsOK, workerVars
<1>7. ASSUME NEW h \in Handles, DropHandle(h) PROVE TypedParts'
  <2>1. Fresh \in View /\ Fresh.cursor = 0
    BY ConfigConstants DEF Fresh, View, Unobserved
  <2>2. client' \in [Clients -> View] /\ \A c \in Clients : client'[c].cursor < nextId
    BY <1>7, <2>1 DEF DropHandle, ClientsOK, LogOK
  <2>3. handle' \in [Handles -> {"none", "held", "leaving", "joining", "gone"}]
    BY <1>7 DEF DropHandle, ClientsOK
  <2> QED
    BY <1>7, <2>2, <2>3 DEF DropHandle, FilesOK, WritersOK, Under, WorkerOK, LogOK, ClientsOK,
                             BoundsOK, workerVars
<1>8. ASSUME NEW h \in Handles, Release(h) PROVE TypedParts'
  BY <1>8 DEF Release, FilesOK, WritersOK, Under, WorkerOK, LogOK, ClientsOK, BoundsOK,
              workerVars
<1> QED
  BY <1>1, <1>4, <1>5, <1>6, <1>7, <1>8 DEF ClientStep

\* Every step of the other process, of the hand on the file and of the life
\* of the process is typed.
LEMMA SurroundingsTyped ==
  ASSUME TypedParts,
         \/ \E local \in Settings : OtherCommit(local)
         \/ \E health \in {"damaged", "missing"} : Damage(health)
         \/ \E settings \in {Default, backup.settings} : Repair(settings)
         \/ ProcessEnds \/ Launch
  PROVE  TypedParts'
<1> USE DEF TypedParts
<1>1. ASSUME NEW local \in Settings, OtherCommit(local) PROVE TypedParts'
  <2> DEFINE state == [Resting EXCEPT !.at = "locking", !.edit = Edit(primary.settings, local)]
  <2>1. state \in WriterState /\ state.at = "locking" /\ "other" \in Writers
    BY ConfigConstants DEF WriterState, Phases, Resting, NoEdit, Edit, EditSet, FilesOK, File, Writers
  <2>2. WritersOK'
    BY <1>1, <2>1, LockStep DEF OtherCommit
  <2>3. edits < MaxEdits /\ edits' = edits + 1 /\ faults' = faults
    BY <1>1 DEF OtherCommit
  <2>4. BoundsOK'
    BY <2>3, ConfigConstants DEF BoundsOK
  <2> QED
    BY <1>1, <2>2, <2>4 DEF OtherCommit, FilesOK, WorkerOK, LogOK, ClientsOK, workerVars
<1>2. ASSUME NEW health \in {"damaged", "missing"}, Damage(health) PROVE TypedParts'
  BY <1>2, ConfigConstants
     DEF Damage, FilesOK, File, WritersOK, Under, WorkerOK, LogOK, ClientsOK, BoundsOK, workerVars
<1>3. ASSUME NEW settings \in {Default, backup.settings}, Repair(settings) PROVE TypedParts'
  <2>1. FilesOK'
    BY <1>3, ConfigConstants DEF Repair, FilesOK, File, Good
  <2> QED
    BY <1>3, <2>1, ConfigConstants
       DEF Repair, WritersOK, Under, WorkerOK, LogOK, ClientsOK, BoundsOK, workerVars
<1>4. CASE ProcessEnds
  <2>1. "worker" \in Writers /\ Resting \in WriterState /\ Resting.at = "idle"
    BY WriterTyped DEF Writers, Resting
  <2>2. WritersOK'
    BY <1>4, <2>1, LockStep DEF ProcessEnds
  <2>3. LogOK' /\ nextId' = 1
    BY <1>4, ConfigConstants DEF ProcessEnds, LogOK
  <2>4. WorkerOK'
    BY <1>4, ConfigConstants DEF ProcessEnds, WorkerOK
  <2>5. Fresh \in View /\ Fresh.cursor = 0
    BY ConfigConstants DEF Fresh, View, Unobserved
  <2>6. client' \in [Clients -> View] /\ \A c \in Clients : client'[c].cursor = 0
    BY <1>4, <2>5 DEF ProcessEnds
  <2>7. handle' \in [Handles -> {"none", "held", "leaving", "joining", "gone"}]
    BY <1>4 DEF ProcessEnds
  <2>8. ClientsOK'
    BY <2>3, <2>6, <2>7 DEF ClientsOK
  <2> QED
    BY <1>4, <2>2, <2>3, <2>4, <2>8 DEF ProcessEnds, FilesOK, BoundsOK
<1>5. CASE Launch
  BY <1>5 DEF Launch, FilesOK, WritersOK, Under, WorkerOK, LogOK, ClientsOK, BoundsOK
<1> QED
  BY <1>1, <1>2, <1>3, <1>4, <1>5

\* The types are kept by every step, with no further assumption.
LEMMA TypedStep == TypedParts /\ [ConfigNext]_configVars => TypedParts'
<1> SUFFICES ASSUME TypedParts, [ConfigNext]_configVars PROVE TypedParts'
  OBVIOUS
<1>1. CASE Worker
  BY <1>1, CommitTyped, WorkerTyped DEF Worker, Writers
<1>2. CASE Commit("other")
  BY <1>2, CommitTyped DEF Writers
<1>3. CASE \/ \E c \in Clients : ClientStep(c)
           \/ \E h \in Handles : DropHandle(h) \/ Release(h)
  BY <1>3, HandleTyped
<1>4. CASE \/ \E local \in Settings : OtherCommit(local)
           \/ \E health \in {"damaged", "missing"} : Damage(health)
           \/ \E settings \in {Default, backup.settings} : Repair(settings)
           \/ ProcessEnds \/ Launch
  BY <1>4, SurroundingsTyped
<1>5. CASE UNCHANGED configVars
  BY <1>5 DEF configVars, workerVars, TypedParts, FilesOK, WritersOK, Under, WorkerOK, LogOK,
              ClientsOK, BoundsOK
<1> QED
  BY <1>1, <1>2, <1>3, <1>4, <1>5 DEF ConfigNext

\* The state is typed, one writer at a time is inside the lock of the file,
\* the log is a window on consecutive publications and no window is ahead of
\* it (config_runtime.rs, config_store.rs).
THEOREM ConfigIsTyped == ConfigSpec => []ConfigTypeOK
<1>1. ConfigSpec => []TypedParts
  BY TypedInit, TypedStep, PTL DEF ConfigSpec
<1>2. TypedParts => ConfigTypeOK
  BY TypeParts DEF TypedParts
<1> QED
  BY <1>1, <1>2, PTL

-----------------------------------------------------------------------------
(* A revision names one snapshot. *)

Now == [revision |-> revision, snapshot |-> current]

KnownInv ==
  /\ lifecycle \in {"Down", "Starting"} => revision = 0 /\ Known = {}
  /\ lifecycle \in {"Running", "Stopped"} => revision # 0
  /\ writer["worker"].at # "idle" => lifecycle = "Running"
  /\ \A x \in Known : x.revision <= revision
  /\ RevisionNamesOneSnapshot

\* Where a known revision comes from.
LEMMA KnownMembers ==
  /\ \A x : x \in Known <=>
       \/ revision > 0 /\ x = Now
       \/ \E i \in DOMAIN log : x = [revision |-> log[i].revision, snapshot |-> log[i].snapshot]
       \/ \E c \in Clients : Observed(c) /\ x = client[c].observed
  /\ \A x : x \in Known' <=>
       \/ revision' > 0 /\ x = Now'
       \/ \E i \in DOMAIN log' :
            x = [revision |-> log'[i].revision, snapshot |-> log'[i].snapshot]
       \/ \E c \in Clients : client'[c].cursor # 0 /\ x = client'[c].observed
  BY DEF Known, Now, Observed

\* What is known is a revision and its settings.
LEMMA KnownTyped == TypedParts => \A x \in Known : x.revision \in Nat
<1> SUFFICES ASSUME TypedParts, NEW x \in Known PROVE x.revision \in Nat
  OBVIOUS
<1>1. CASE x = Now
  BY <1>1 DEF Now, TypedParts, WorkerOK
<1>2. CASE \E i \in DOMAIN log :
             x = [revision |-> log[i].revision, snapshot |-> log[i].snapshot]
  <2>1. PICK i \in DOMAIN log :
          x = [revision |-> log[i].revision, snapshot |-> log[i].snapshot]
    BY <1>2
  <2>2. log[i] \in Publication
    BY DEF TypedParts, LogOK
  <2> QED
    BY <2>1, <2>2 DEF Publication
<1>3. CASE \E c \in Clients : x = client[c].observed
  BY <1>3 DEF TypedParts, ClientsOK, View
<1> QED
  BY <1>1, <1>2, <1>3, KnownMembers

\* A step that makes nothing known but the worker's present settings, and
\* changes these only under the next revision, leaves each revision its
\* snapshot.
LEMMA NextRevision ==
  ASSUME TypedParts, KnownInv, Known' \subseteq Known \cup {Now'},
         (UNCHANGED <<revision, current>> /\ (revision # 0 \/ Known' \subseteq Known))
           \/ revision' = revision + 1
  PROVE  (\A x \in Known : x.revision <= revision)' /\ RevisionNamesOneSnapshot'
<1>1. /\ revision \in Nat /\ \A x \in Known : x.revision \in Nat /\ x.revision <= revision
      /\ RevisionNamesOneSnapshot
  BY KnownTyped DEF KnownInv, TypedParts, WorkerOK
<1>2. CASE UNCHANGED <<revision, current>> /\ (revision # 0 \/ Known' \subseteq Known)
  <2>1. Known' \subseteq Known
    <3>1. CASE revision # 0
      <4>1. Now' = Now /\ Now \in Known
        BY <1>1, <1>2, <3>1, KnownMembers DEF Now
      <4> QED
        BY <4>1
    <3> QED
      BY <1>2, <3>1
  <2> QED
    BY <1>1, <1>2, <2>1 DEF RevisionNamesOneSnapshot
<1>3. CASE revision' = revision + 1
  <2>1. Now'.revision = revision + 1
    BY <1>3 DEF Now
  <2> QED
    BY <1>1, <1>3, <2>1 DEF RevisionNamesOneSnapshot
<1> QED
  BY <1>2, <1>3

\* A publication of the worker's present settings makes nothing else known.
LEMMA PublishedIsKnown ==
  ASSUME TypedParts, revision' \in Nat, current' \in Settings, NEW outcome \in Outcomes,
         Publish(revision', current', outcome), UNCHANGED client
  PROVE  Known' \subseteq Known \cup {Now'}
<1>1. \A i \in DOMAIN log' :
        \/ log'[i].revision = revision' /\ log'[i].snapshot = current'
        \/ \E j \in DOMAIN log : log'[i] = log[j]
  <2> DEFINE rev == revision' 
             snap == current'
  <2>1. rev \in Nat /\ snap \in Settings /\ Publish(rev, snap, outcome)
    OBVIOUS
  <2>2. LogOK
    BY DEF TypedParts
  <2> HIDE DEF rev, snap
  <2>3. \A i \in DOMAIN log' :
          \/ log'[i].revision = rev /\ log'[i].snapshot = snap
          \/ \E j \in DOMAIN log : log'[i] = log[j]
    BY <2>1, <2>2, PublishTyped
  <2> QED
    BY <2>3 DEF rev, snap
<1>2. ASSUME NEW x \in Known' PROVE x \in Known \cup {Now'}
  <2>1. CASE x = Now'
    BY <2>1
  <2>2. CASE \E i \in DOMAIN log' :
               x = [revision |-> log'[i].revision, snapshot |-> log'[i].snapshot]
    <3>1. PICK i \in DOMAIN log' :
            x = [revision |-> log'[i].revision, snapshot |-> log'[i].snapshot]
      BY <2>2
    <3>2. CASE log'[i].revision = revision' /\ log'[i].snapshot = current'
      BY <3>1, <3>2 DEF Now
    <3>3. CASE \E j \in DOMAIN log : log'[i] = log[j]
      BY <3>1, <3>3, KnownMembers
    <3> QED
      BY <1>1, <3>2, <3>3
  <2>3. CASE \E c \in Clients : client'[c].cursor # 0 /\ x = client'[c].observed
    BY <2>3, KnownMembers DEF Observed
  <2> QED
    BY <1>2, <2>1, <2>2, <2>3, KnownMembers
<1> QED
  BY <1>2

\* A step that makes nothing known and leaves the worker's settings alone.
LEMMA NothingNew ==
  ASSUME TypedParts, KnownInv, Known' \subseteq Known,
         UNCHANGED <<lifecycle, current, revision>>,
         writer'["worker"].at # "idle"
           => writer["worker"].at # "idle" \/ lifecycle = "Running"
  PROVE  KnownInv'
<1>1. (\A x \in Known : x.revision <= revision)' /\ RevisionNamesOneSnapshot'
  BY NextRevision
<1> QED
  BY <1>1 DEF KnownInv

\* No step of a commit makes anything known: only its result is published.
LEMMA CommitKnown ==
  ASSUME TypedParts, KnownInv, NEW w \in Writers, Commit(w)
  PROVE  KnownInv'
<1>1. /\ UNCHANGED <<workerVars, client>> /\ writer[w].at # "idle"
      /\ writer' = [writer EXCEPT ![w] = writer'[w]]
  BY DEF Commit, Acquire, ReadAndMerge, CopyBackup, Replace, CommitFails, Move, TypedParts,
         WritersOK
<1>2. Known' = Known
  BY <1>1 DEF Known, Observed, workerVars
<1>3. w # "worker" => writer'["worker"] = writer["worker"]
  BY <1>1 DEF TypedParts, WritersOK, Writers
<1> QED
  BY <1>1, <1>2, <1>3, NothingNew DEF workerVars

\* The worker publishes its present settings, and changes them only under
\* the next revision.
LEMMA WorkerKnown ==
  ASSUME TypedParts, TypedParts', KnownInv,
         \/ WorkerStart \/ TakeSubmit \/ FinishCommit \/ ReportFailure
         \/ Tick \/ TakeRefresh \/ WorkerStop
  PROVE  KnownInv'
<1>t. revision \in Nat /\ revision' \in Nat /\ current' \in Settings /\ "worker" \in Writers
  BY DEF TypedParts, WorkerOK, Writers
<1>w. \A s : writer' = [writer EXCEPT !["worker"] = s] => writer'["worker"] = s
  BY <1>t DEF TypedParts, WritersOK
<1>i. Resting.at = "idle"
  BY DEF Resting
<1>1. CASE WorkerStart
  <2>1. PICK outcome \in Outcomes : Publish(1, Load.settings, outcome)
    BY <1>1 DEF WorkerStart, Outcomes
  <2>2. revision' = 1 /\ current' = Load.settings /\ UNCHANGED <<client, writer>>
        /\ lifecycle' = "Running" /\ revision = 0
    BY <1>1 DEF WorkerStart, KnownInv
  <2>3. Publish(revision', current', outcome)
    BY <2>1, <2>2, Zenon
  <2>4. Known' \subseteq Known \cup {Now'}
    BY <1>t, <2>2, <2>3, PublishedIsKnown
  <2>5. (\A x \in Known : x.revision <= revision)' /\ RevisionNamesOneSnapshot'
    BY <2>2, <2>4, NextRevision
  <2> QED
    BY <2>2, <2>5 DEF KnownInv
<1>2. CASE TakeSubmit
  <2>1. Known' = Known
    BY <1>2 DEF TakeSubmit, Known, Observed
  <2> QED
    BY <1>2, <2>1, NothingNew DEF TakeSubmit, WorkerIdle
<1>3. CASE FinishCommit
  <2>1. lifecycle' = lifecycle /\ writer'["worker"].at = "idle" /\ client' = client
        /\ lifecycle = "Running"
    BY <1>3, <1>w, <1>i DEF FinishCommit, KnownInv
  <2>2. CASE UNCHANGED <<current, revision, log, nextId>>
    <3>1. Known' = Known
      BY <2>1, <2>2 DEF Known, Observed
    <3> QED
      BY <2>1, <2>2, <3>1, NothingNew
  <2>3. CASE /\ current' = writer["worker"].merged /\ revision' = revision + 1
             /\ Publish(revision + 1, writer["worker"].merged, "Saved")
    <3>1. Publish(revision', current', "Saved") /\ "Saved" \in Outcomes
      BY <2>3 DEF Outcomes
    <3>2. Known' \subseteq Known \cup {Now'}
      BY <1>t, <2>1, <3>1, PublishedIsKnown
    <3>3. (\A x \in Known : x.revision <= revision)' /\ RevisionNamesOneSnapshot'
      BY <2>3, <3>2, NextRevision
    <3> QED
      BY <1>t, <2>1, <2>3, <3>3 DEF KnownInv
  <2> QED
    BY <1>3, <2>2, <2>3 DEF FinishCommit
<1>4. CASE ReportFailure
  <2>1. /\ UNCHANGED <<lifecycle, current, revision, client>> /\ writer'["worker"].at = "idle"
        /\ lifecycle = "Running" /\ revision # 0
    BY <1>4, <1>w, <1>i DEF ReportFailure, KnownInv
  <2>2. Publish(revision', current', "SaveFailed") /\ "SaveFailed" \in Outcomes
    BY <1>4, <2>1 DEF ReportFailure, Outcomes, Failures
  <2>3. Known' \subseteq Known \cup {Now'}
    BY <1>t, <2>1, <2>2, PublishedIsKnown
  <2>4. (\A x \in Known : x.revision <= revision)' /\ RevisionNamesOneSnapshot'
    BY <2>1, <2>3, NextRevision
  <2> QED
    BY <2>1, <2>4 DEF KnownInv
<1>5. ASSUME RefreshFromStore, UNCHANGED <<lifecycle, writer, client>>, lifecycle = "Running"
      PROVE  KnownInv'
  <2>1. PICK outcome \in Outcomes : Publish(revision', current', outcome)
    BY <1>5, RefreshEffect DEF TypedParts
  <2>2. UNCHANGED <<revision, current>> \/ revision' = revision + 1
    BY <1>5, RefreshEffect DEF TypedParts
  <2>3. Known' \subseteq Known \cup {Now'}
    BY <1>t, <1>5, <2>1, PublishedIsKnown
  <2>4. revision # 0
    BY <1>5 DEF KnownInv
  <2>5. (\A x \in Known : x.revision <= revision)' /\ RevisionNamesOneSnapshot'
    BY <2>2, <2>3, <2>4, NextRevision
  <2>6. revision' # 0
    BY <1>t, <2>2, <2>4
  <2> QED
    BY <1>5, <2>5, <2>6 DEF KnownInv
<1>6. CASE Tick
  BY <1>6, <1>5 DEF Tick, WorkerIdle
<1>7. CASE TakeRefresh
  <2>1. CASE RefreshFromStore
    BY <1>7, <1>5, <2>1 DEF TakeRefresh, WorkerIdle
  <2>2. CASE UNCHANGED <<current, revision, lastRecovery, log, nextId>>
    <3>1. Known' = Known
      BY <1>7, <2>2 DEF TakeRefresh, Known, Observed
    <3> QED
      BY <1>7, <2>2, <3>1, NothingNew DEF TakeRefresh
  <2> QED
    BY <1>7, <2>1, <2>2 DEF TakeRefresh
<1>8. CASE WorkerStop
  <2>1. Known' = Known
    BY <1>8 DEF WorkerStop, Known, Observed
  <2>2. (\A x \in Known : x.revision <= revision)' /\ RevisionNamesOneSnapshot'
    BY <1>8, <2>1, NextRevision DEF WorkerStop
  <2>3. lifecycle' = "Stopped" /\ revision' # 0 /\ writer'["worker"].at = "idle"
    BY <1>8 DEF WorkerStop, WorkerIdle, KnownInv
  <2> QED
    BY <2>2, <2>3 DEF KnownInv
<1> QED
  BY <1>1, <1>2, <1>3, <1>4, <1>6, <1>7, <1>8

\* A window that drains comes to know what the log says; one that goes
\* forgets it.  Nothing else here touches what is known.
LEMMA OutsideKnown ==
  ASSUME TypedParts, KnownInv,
         \/ \E c \in Clients : ClientStep(c)
         \/ \E h \in Handles : DropHandle(h) \/ Release(h)
         \/ \E local \in Settings : OtherCommit(local)
         \/ \E health \in {"damaged", "missing"} : Damage(health)
         \/ \E settings \in {Default, backup.settings} : Repair(settings)
         \/ ProcessEnds \/ Launch
  PROVE  KnownInv'
<1>w. "worker" \in Writers /\ "other" \in Writers /\ "worker" # "other"
      /\ writer \in [Writers -> WriterState]
  BY DEF TypedParts, WritersOK, Writers
<1>1. ASSUME NEW c \in Clients, Drain(c) PROVE KnownInv'
  <2>1. /\ Len(log) \in DOMAIN log /\ Last(log) = log[Len(log)]
    BY <1>1 DEF Drain, Last, TypedParts, LogOK
  <2>2. [revision |-> Last(log).revision, snapshot |-> Last(log).snapshot] \in Known
    BY <2>1, KnownMembers
  <2>3. \A d \in Clients : client'[d].cursor # 0 =>
          client'[d].observed \in Known
    BY <1>1, <2>2, KnownMembers DEF Drain, Observed, TypedParts, ClientsOK
  <2>4. UNCHANGED <<lifecycle, current, revision, log, writer>>
    BY <1>1 DEF Drain, workerVars
  <2>5. Known' \subseteq Known
    BY <2>3, <2>4, KnownMembers DEF Now
  <2> QED
    BY <2>4, <2>5, NothingNew
<1>2. ASSUME NEW h \in Handles, DropHandle(h) PROVE KnownInv'
  <2>1. Fresh.cursor = 0
    BY DEF Fresh
  <2>2. \A d \in Clients : client'[d].cursor # 0 => client'[d] = client[d]
    BY <1>2, <2>1 DEF DropHandle
  <2>3. UNCHANGED <<lifecycle, current, revision, log, writer>>
    BY <1>2 DEF DropHandle, workerVars
  <2>4. Known' \subseteq Known
    BY <2>2, <2>3, KnownMembers DEF Now, Observed
  <2> QED
    BY <2>3, <2>4, NothingNew
<1>3. ASSUME NEW local \in Settings, OtherCommit(local) PROVE KnownInv'
  <2>1. writer'["worker"] = writer["worker"]
    BY <1>3, <1>w DEF OtherCommit
  <2>2. UNCHANGED <<lifecycle, current, revision, log, client>>
    BY <1>3 DEF OtherCommit, workerVars
  <2>3. Known' = Known
    BY <2>2 DEF Known, Observed
  <2> QED
    BY <2>1, <2>2, <2>3, NothingNew
<1>4. CASE ProcessEnds
  <2>1. revision' = 0 /\ log' = <<>> /\ client' = [c \in Clients |-> Fresh]
        /\ lifecycle' = "Down" /\ writer'["worker"].at = "idle"
    BY <1>4, <1>w DEF ProcessEnds, Resting
  <2>2. Known' = {}
    BY <2>1, KnownMembers DEF Fresh
  <2> QED
    BY <2>1, <2>2 DEF KnownInv, RevisionNamesOneSnapshot
<1>5. CASE Launch
  <2>1. UNCHANGED <<current, revision, log, client, writer>> /\ lifecycle' = "Starting"
        /\ lifecycle = "Down"
    BY <1>5 DEF Launch
  <2>2. Known' = Known
    BY <2>1 DEF Known, Observed
  <2> QED
    BY <2>1, <2>2 DEF KnownInv, RevisionNamesOneSnapshot
<1>6. ASSUME UNCHANGED <<lifecycle, current, revision, log, client, writer>> PROVE KnownInv'
  <2>1. Known' = Known
    BY <1>6 DEF Known, Observed
  <2> QED
    BY <1>6, <2>1, NothingNew
<1> QED
  BY <1>1, <1>2, <1>3, <1>4, <1>5, <1>6
     DEF ClientStep, OpenClient, TryRefresh, TrySubmit, Release, Damage, Repair, workerVars

\* Nothing is known before the first load.
LEMMA KnownInit == ConfigInit => KnownInv
<1> SUFFICES ASSUME ConfigInit PROVE KnownInv
  OBVIOUS
<1>1. revision = 0 /\ log = <<>> /\ client = [c \in Clients |-> Fresh] /\ lifecycle = "Down"
      /\ writer["worker"].at = "idle"
  BY DEF ConfigInit, Resting, Writers
<1>2. Known = {}
  BY <1>1, KnownMembers DEF Observed, Fresh
<1> QED
  BY <1>1, <1>2 DEF KnownInv, RevisionNamesOneSnapshot

\* Every step keeps what is known in order.
LEMMA KnownStep == TypedParts /\ KnownInv /\ [ConfigNext]_configVars => KnownInv'
<1> SUFFICES ASSUME TypedParts, KnownInv, [ConfigNext]_configVars PROVE KnownInv'
  OBVIOUS
<1>1. TypedParts'
  BY TypedStep
<1>2. CASE \E w \in Writers : Commit(w)
  BY <1>2, CommitKnown
<1>3. CASE \/ WorkerStart \/ TakeSubmit \/ FinishCommit \/ ReportFailure
           \/ Tick \/ TakeRefresh \/ WorkerStop
  BY <1>1, <1>3, WorkerKnown
<1>4. CASE \/ \E c \in Clients : ClientStep(c)
           \/ \E h \in Handles : DropHandle(h) \/ Release(h)
           \/ \E local \in Settings : OtherCommit(local)
           \/ \E health \in {"damaged", "missing"} : Damage(health)
           \/ \E settings \in {Default, backup.settings} : Repair(settings)
           \/ ProcessEnds \/ Launch
  BY <1>4, OutsideKnown
<1>5. CASE UNCHANGED configVars
  <2>1. Known' = Known
    BY <1>5 DEF configVars, workerVars, Known, Observed
  <2> QED
    BY <1>5, <2>1, NothingNew DEF configVars, workerVars
<1> QED
  BY <1>2, <1>3, <1>4, <1>5 DEF ConfigNext, Worker, Writers

\* In the worker, its log and every window a revision names one snapshot,
\* whatever is published, missed, merged or read back from the file
\* (config_runtime.rs; the frontends compare revisions and nothing else).
THEOREM RevisionsNameSnapshots == ConfigSpec => []RevisionNamesOneSnapshot
<1>1. TypedParts /\ KnownInv /\ [ConfigNext]_configVars => (TypedParts /\ KnownInv)'
  BY TypedStep, KnownStep
<1>2. ConfigSpec => [](TypedParts /\ KnownInv)
  BY TypedInit, KnownInit, <1>1, PTL DEF ConfigSpec
<1>3. KnownInv => RevisionNamesOneSnapshot
  BY DEF KnownInv
<1> QED
  BY <1>2, <1>3, PTL

-----------------------------------------------------------------------------
(* What a writer found under the lock, and the backup. *)

\* Between its read and its rename a writer may rely on what it found.  A file
\* that was there may be damaged, but its settings are still the ones merged
\* into; one that was missing cannot appear.
FoundInv ==
  \A w \in Writers : writer[w].at \in {"backing", "replacing"} =>
    \/ /\ writer[w].read = "good"
       /\ writer[w].merged = Merge(writer[w].edit, primary.settings)
    \/ /\ writer[w].read = "missing" /\ primary.health = "missing"
       /\ writer[w].merged = writer[w].edit.local

\* On its own base an edit is simply what the client wants.
LEMMA MergeOnBase == \A edit \in EditSet : Merge(edit, edit.base) = edit.local
<1> SUFFICES ASSUME NEW edit \in EditSet PROVE Merge(edit, edit.base) = edit.local
  OBVIOUS
<1>1. edit.local \in [Fields -> Values] /\ edit.base \in [Fields -> Values]
  BY DEF EditSet, Settings
<1>2. \A f \in Fields :
        (IF edit.local[f] # edit.base[f] THEN edit.local[f] ELSE edit.base[f]) = edit.local[f]
  OBVIOUS
<1> QED
  BY <1>1, <1>2 DEF Merge

\* The lock, and the hand that repairs the file only when nobody has it, keep
\* what a writer found true of the file until it has taken its copy.
LEMMA FoundStep == TypedParts /\ FoundInv /\ [ConfigNext]_configVars => FoundInv'
<1> SUFFICES ASSUME TypedParts, FoundInv, [ConfigNext]_configVars PROVE FoundInv'
  OBVIOUS
<1>t. /\ writer \in [Writers -> WriterState] /\ "worker" \in Writers /\ "other" \in Writers
      /\ \A v, w \in Writers : Under(v) /\ Under(w) => v = w
      /\ primary.health \in {"good", "damaged", "missing"}
  BY DEF TypedParts, WritersOK, FilesOK, File, Writers
<1> DEFINE Late == {"backing", "replacing"}
<1>k. ASSUME NEW w \in Writers, NEW state, state.at \notin Late,
             writer' = [writer EXCEPT ![w] = state], primary' = primary
      PROVE  FoundInv'
  <2>1. writer'[w] = state /\ \A v \in Writers : v # w => writer'[v] = writer[v]
    BY <1>t, <1>k
  <2> QED
    BY <1>k, <2>1 DEF FoundInv
<1>f. ASSUME UNCHANGED writer, primary'.settings = primary.settings,
             primary.health = "missing" => primary'.health = "missing"
      PROVE  FoundInv'
  BY <1>f DEF FoundInv
<1>1. ASSUME NEW w \in Writers, Acquire(w) PROVE FoundInv'
  <2>1. writer' = [writer EXCEPT ![w] = [writer[w] EXCEPT !.at = "reading"]]
        /\ [writer[w] EXCEPT !.at = "reading"].at = "reading" /\ primary' = primary
    BY <1>t, <1>1 DEF Acquire, Move, WriterState
  <2> QED
    BY <1>k, <2>1
<1>2. ASSUME NEW w \in Writers, ReadAndMerge(w) PROVE FoundInv'
  <2> DEFINE edit == writer[w].edit
             on == IF primary.health = "good" THEN primary.settings ELSE edit.base
  <2>1. /\ writer'[w].read = primary.health /\ primary' = primary /\ primary.health # "damaged"
        /\ writer'[w].edit = edit /\ writer'[w].merged = Merge(edit, on)
        /\ \A v \in Writers : v # w => writer'[v] = writer[v]
    BY <1>t, <1>2 DEF ReadAndMerge, WriterState
  <2>2. edit \in EditSet
    BY <1>t DEF WriterState
  <2>3. primary.health = "missing" => Merge(edit, on) = edit.local
    BY <2>2, MergeOnBase
  <2> QED
    BY <1>t, <2>1, <2>3 DEF FoundInv
<1>3. ASSUME NEW w \in Writers, CopyBackup(w) PROVE FoundInv'
  <2>1. /\ writer'[w].edit = writer[w].edit /\ writer'[w].read = writer[w].read
        /\ writer'[w].merged = writer[w].merged /\ primary' = primary
        /\ writer[w].at = "backing" /\ \A v \in Writers : v # w => writer'[v] = writer[v]
    BY <1>t, <1>3 DEF CopyBackup, Move, WriterState
  <2> QED
    BY <2>1 DEF FoundInv
<1>4. ASSUME NEW w \in Writers, Replace(w) PROVE FoundInv'
  <2>1. writer[w].at = "replacing" /\ \A v \in Writers : v # w => writer[v].at \notin Late
    BY <1>t, <1>4 DEF Replace, Under
  <2> DEFINE committed == [Resting EXCEPT !.at = "committed", !.merged = writer[w].merged]
             failed == [Resting EXCEPT !.at = "failed"]
  <2>2. committed.at \notin Late /\ failed.at \notin Late /\ Resting.at \notin Late
    BY DEF Resting
  <2> HIDE DEF committed, failed
  <2>3. PICK state \in {committed, failed, Resting} : writer' = [writer EXCEPT ![w] = state]
    BY <1>4 DEF Replace, committed, failed
  <2>4. writer'[w].at \notin Late /\ \A v \in Writers : v # w => writer'[v] = writer[v]
    BY <1>t, <2>2, <2>3
  <2> QED
    BY <2>1, <2>4 DEF FoundInv
<1>5. ASSUME NEW w \in Writers, CommitFails(w) PROVE FoundInv'
  <2>1. writer'[w].at \notin Late /\ primary' = primary
        /\ \A v \in Writers : v # w => writer'[v] = writer[v]
    BY <1>t, <1>5 DEF CommitFails, Resting
  <2> QED
    BY <2>1 DEF FoundInv
<1>6. CASE TakeSubmit \/ FinishCommit \/ ReportFailure \/ ProcessEnds
  <2> DEFINE locking == [Resting EXCEPT !.at = "locking", !.edit = Head(commands).edit]
  <2>0. locking.at \notin Late /\ Resting.at \notin Late
    BY DEF Resting
  <2> HIDE DEF locking
  <2>1. PICK state \in {locking, Resting} : writer' = [writer EXCEPT !["worker"] = state]
    BY <1>6 DEF TakeSubmit, FinishCommit, ReportFailure, ProcessEnds, locking
  <2> QED
    BY <1>t, <1>6, <1>k, <2>0, <2>1 DEF TakeSubmit, FinishCommit, ReportFailure, ProcessEnds
<1>7. ASSUME NEW local \in Settings, OtherCommit(local) PROVE FoundInv'
  <2>1. PICK state : state.at \notin Late /\ writer' = [writer EXCEPT !["other"] = state]
    BY <1>7 DEF OtherCommit, Resting
  <2> QED
    BY <1>t, <1>7, <1>k, <2>1 DEF OtherCommit
<1>8. ASSUME NEW settings, Repair(settings) PROVE FoundInv'
  BY <1>8 DEF Repair, FoundInv, Under
<1>9. ASSUME NEW health \in {"damaged", "missing"}, Damage(health) PROVE FoundInv'
  <2>1. primary'.settings = primary.settings /\ primary.health = "good"
    BY <1>9 DEF Damage, TypedParts, FilesOK, File
  <2> QED
    BY <1>9, <1>f, <2>1 DEF Damage
<1>10. CASE \/ WorkerStart \/ Tick \/ TakeRefresh \/ WorkerStop \/ Launch
            \/ \E c \in Clients : ClientStep(c)
            \/ \E h \in Handles : DropHandle(h) \/ Release(h)
  BY <1>10, <1>f DEF WorkerStart, Tick, TakeRefresh, WorkerStop, Launch, ClientStep, OpenClient,
     TryRefresh, TrySubmit, Drain, DropHandle, Release
<1>11. CASE UNCHANGED configVars
  BY <1>11, <1>f DEF configVars
<1> QED
  BY <1>t, <1>1, <1>2, <1>3, <1>4, <1>5, <1>6, <1>7, <1>8, <1>9, <1>10, <1>11
     DEF ConfigNext, Worker, Commit

\* A commit that began on damage never copies it: the last good backup gives
\* way to a bad file only when that was good under the lock (config_store.rs,
\* write_atomic).
THEOREM BackupIsKept == ConfigSpec => GoodBackupIsKept
<1>1. ConfigInit => FoundInv
  BY DEF ConfigInit, FoundInv, Resting
<1>2. ConfigSpec => [](TypedParts /\ FoundInv)
  <2>1. TypedParts /\ FoundInv /\ [ConfigNext]_configVars => (TypedParts /\ FoundInv)'
    BY TypedStep, FoundStep
  <2> QED
    BY TypedInit, <1>1, <2>1, PTL DEF ConfigSpec
<1>3. TypedParts /\ FoundInv /\ [ConfigNext]_configVars
        => [backup.health = "good" /\ backup'.health # "good"
              => \E w \in Writers : writer[w].at = "backing" /\ writer[w].read = "good"]_configVars
  <2> SUFFICES ASSUME TypedParts, FoundInv, ConfigNext, backup.health = "good",
                      backup'.health # "good"
               PROVE  \E w \in Writers : writer[w].at = "backing" /\ writer[w].read = "good"
    OBVIOUS
  <2>1. PICK w \in Writers : CopyBackup(w)
    BY DEF ConfigNext, Worker, Commit, Writers, Acquire, ReadAndMerge, Replace, CommitFails,
           WorkerStart, TakeSubmit, FinishCommit, ReportFailure, Tick, TakeRefresh, WorkerStop,
           ClientStep, OpenClient, TryRefresh, TrySubmit, Drain, DropHandle, Release,
           OtherCommit, Damage, Repair, ProcessEnds, Launch
  <2>2. primary.health # "missing" /\ writer[w].at = "backing"
    BY <2>1 DEF CopyBackup
  <2>3. writer[w].read \in {"good", "missing", "damaged"}
    BY DEF TypedParts, WritersOK, WriterState
  <2> QED
    BY <2>2, <2>3 DEF FoundInv
<1> QED
  BY <1>2, <1>3, PTL DEF ConfigSpec, GoodBackupIsKept

-----------------------------------------------------------------------------
(* The register. *)

Accepted == UnderWay \o commands

\* A merge is what the register calls an overlay, and its edits and requests
\* are the runtime's edits and commands.
LEMMA SameSettings ==
  /\ Register!Settings = Settings /\ Register!Edits = EditSet /\ Register!Requests = Command
  /\ \A edit, on : Register!Overlay(edit, on) = Merge(edit, on)
  /\ \A settings : Register!Good(settings) = Good(settings)
<1>1. Register!Settings = Settings /\ Register!Edits = EditSet
  BY DEF Register!Settings, Settings, Register!Edits, EditSet
<1>2. Register!Requests = Command
  BY <1>1 DEF Register!Requests, Command
<1>3. \A edit, on : Register!Overlay(edit, on) = Merge(edit, on)
  BY DEF Register!Overlay, Merge
<1>4. \A settings : Register!Good(settings) = Good(settings)
  BY DEF Register!Good, Good
<1> QED
  BY <1>1, <1>2, <1>3, <1>4

\* What is accepted while a commit is under way, and while none is.
LEMMA AcceptedForms ==
  ASSUME TypedParts
  PROVE  /\ writer["worker"].at \notin {"locking", "reading", "backing", "replacing"}
              => Accepted = commands
         /\ writer["worker"].at \in {"locking", "reading", "backing", "replacing"}
              => /\ Accepted # <<>> /\ Tail(Accepted) = commands
                 /\ Head(Accepted) = [kind |-> "submit", edit |-> writer["worker"].edit]
<1>1. commands \in Seq(Command) /\ "worker" \in Writers /\ writer["worker"].edit \in EditSet
  BY WriterTyped DEF TypedParts, WorkerOK, WritersOK, Writers
<1>2. ASSUME writer["worker"].at \notin {"locking", "reading", "backing", "replacing"}
      PROVE  Accepted = commands
  BY <1>1, <1>2 DEF Accepted, UnderWay
<1>3. ASSUME writer["worker"].at \in {"locking", "reading", "backing", "replacing"}
      PROVE  /\ Accepted # <<>> /\ Tail(Accepted) = commands
             /\ Head(Accepted) = [kind |-> "submit", edit |-> writer["worker"].edit]
  <2> DEFINE e == [kind |-> "submit", edit |-> writer["worker"].edit]
  <2>1. e \in Command /\ Accepted = <<e>> \o commands
    BY <1>1, <1>3 DEF Accepted, UnderWay, Command
  <2> HIDE DEF e
  <2>2. Head(<<e>> \o commands) = e /\ Tail(<<e>> \o commands) = commands
        /\ <<e>> \o commands # <<>>
    BY <1>1, <2>1
  <2> QED
    BY <2>1, <2>2 DEF e
<1> QED
  BY <1>2, <1>3

\* A rename is the commit of the edit it was begun for, or of the other
\* process's edit.
LEMMA ReplaceIsAnEdit ==
  ASSUME TypedParts, FoundInv, NEW w \in Writers, Replace(w)
  PROVE  primary' \in Register!Results(writer[w].edit) /\ writer[w].edit \in EditSet
<1>1. primary' = Good(writer[w].merged) /\ writer[w].at = "replacing"
  BY DEF Replace
<1>2. writer[w].edit \in EditSet
  BY WriterTyped DEF TypedParts, WritersOK
<1>3. \/ writer[w].merged = Merge(writer[w].edit, primary.settings)
      \/ primary.health = "missing" /\ writer[w].merged = writer[w].edit.local
  BY <1>1 DEF FoundInv
<1>4. Register!Results(writer[w].edit) =
        {Good(Merge(writer[w].edit, primary.settings))}
          \cup (IF primary.health = "good" THEN {} ELSE {Good(writer[w].edit.local)})
  BY SameSettings DEF Register!Results
<1> QED
  BY <1>1, <1>2, <1>3, <1>4

\* Every step is a step of the register, or none.
LEMMA RegisterStep ==
  TypedParts /\ TypedParts' /\ FoundInv /\ [ConfigNext]_configVars
    => [Register!RegisterNext]_(Register!registerVars)
<1> SUFFICES ASSUME TypedParts, TypedParts', FoundInv, [ConfigNext]_configVars
             PROVE  Register!RegisterNext \/ (primary' = primary /\ Accepted' = Accepted)
  BY DEF Register!registerVars, Accepted
<1> DEFINE Busy == {"locking", "reading", "backing", "replacing"}
<1>t. /\ writer \in [Writers -> WriterState] /\ "worker" \in Writers /\ "other" \in Writers
      /\ "worker" # "other" /\ commands \in Seq(Command)
      /\ \A w \in Writers : writer[w].edit \in EditSet
  BY WriterTyped DEF TypedParts, WritersOK, WorkerOK, Writers
<1>idle. writer["worker"].at \notin Busy => Accepted = commands
  BY AcceptedForms
<1>idle1. writer'["worker"].at \notin Busy => Accepted' = commands'
  <2> SUFFICES ASSUME writer'["worker"].at \notin Busy PROVE Accepted' = commands'
    OBVIOUS
  <2>1. Accepted' = <<>> \o commands'
    BY DEF Accepted, UnderWay
  <2>2. commands' \in Seq(Command)
    BY DEF TypedParts, WorkerOK
  <2> QED
    BY <2>1, <2>2
<1>busy. writer["worker"].at \in Busy
           => /\ Accepted # <<>> /\ Tail(Accepted) = commands
              /\ Head(Accepted) = [kind |-> "submit", edit |-> writer["worker"].edit]
  BY AcceptedForms
<1>q. ASSUME writer'["worker"].at = writer["worker"].at,
             writer'["worker"].edit = writer["worker"].edit, commands' = commands
      PROVE  Accepted' = Accepted
  BY <1>q DEF Accepted, UnderWay
<1>a. ASSUME NEW command \in Command, commands' = Append(commands, command),
             writer' = writer, primary' = primary
      PROVE  Register!RegisterNext
  <2>1. UnderWay \in Seq(Command) /\ UnderWay' = UnderWay
    <3> DEFINE e == [kind |-> "submit", edit |-> writer["worker"].edit]
    <3>1. e \in Command
      BY <1>t DEF Command
    <3> HIDE DEF e
    <3>2. <<e>> \in Seq(Command) /\ <<>> \in Seq(Command)
      BY <3>1
    <3>3. UnderWay \in {<<e>>, <<>>}
      BY DEF UnderWay, e
    <3>4. UnderWay' = UnderWay
      BY <1>a DEF UnderWay
    <3> QED
      BY <3>2, <3>3, <3>4
  <2>2. Accepted' = Append(Accepted, command)
    <3> DEFINE u == UnderWay
    <3>1. u \in Seq(Command)
      BY <2>1
    <3> HIDE DEF u
    <3>2. u \o Append(commands, command) = Append(u \o commands, command)
      BY <1>t, <1>a, <3>1
    <3> QED
      BY <1>a, <2>1, <3>2 DEF Accepted, u
  <2>3. Register!Accept(command)
    BY <1>a, <2>2 DEF Register!Accept, Accepted
  <2> QED
    BY <2>3, SameSettings DEF Register!RegisterNext
<1>s. ASSUME Accepted # <<>>, Accepted' = Tail(Accepted), primary' = primary
      PROVE  Register!RegisterNext
  BY <1>s DEF Register!RegisterNext, Register!Settle, Accepted
<1>g. ASSUME Accepted' = <<>>, primary' = primary PROVE Register!RegisterNext
  BY <1>g DEF Register!RegisterNext, Register!Forget, Accepted
<1>1. ASSUME NEW w \in Writers, Acquire(w) \/ ReadAndMerge(w) \/ CopyBackup(w)
      PROVE  primary' = primary /\ Accepted' = Accepted
  <2>1. primary' = primary /\ commands' = commands
    BY <1>1 DEF Acquire, ReadAndMerge, CopyBackup, workerVars
  <2>2. writer'["worker"].edit = writer["worker"].edit
        /\ (writer'["worker"].at \in Busy <=> writer["worker"].at \in Busy)
    BY <1>t, <1>1 DEF Acquire, ReadAndMerge, CopyBackup, Move, WriterState
  <2> QED
    BY <2>1, <2>2 DEF Accepted, UnderWay
<1>2. ASSUME Replace("worker") PROVE Register!RegisterNext
  <2> DEFINE committed == [Resting EXCEPT !.at = "committed", !.merged = writer["worker"].merged]
             failed == [Resting EXCEPT !.at = "failed"]
  <2>1. committed.at \notin Busy /\ failed.at \notin Busy
    BY DEF Resting
  <2> HIDE DEF committed, failed
  <2>2. PICK state \in {committed, failed} : writer' = [writer EXCEPT !["worker"] = state]
    BY <1>2 DEF Replace, committed, failed
  <2>3. writer'["worker"].at \notin Busy /\ commands' = commands
        /\ writer["worker"].at \in Busy
    BY <1>t, <1>2, <2>1, <2>2 DEF Replace, workerVars
  <2>4. Accepted' = commands /\ Accepted # <<>> /\ Tail(Accepted) = commands
        /\ Head(Accepted).kind = "submit" /\ Head(Accepted).edit = writer["worker"].edit
    BY <1>idle1, <1>busy, <2>3
  <2>5. primary' \in Register!Results(Head(Accepted).edit)
    BY <1>t, <1>2, <2>4, ReplaceIsAnEdit
  <2>6. Register!Commit
    BY <2>4, <2>5 DEF Register!Commit, Accepted
  <2> QED
    BY <2>6 DEF Register!RegisterNext
<1>3. ASSUME Replace("other") PROVE Register!RegisterNext
  <2>1. writer'["worker"] = writer["worker"] /\ commands' = commands
    BY <1>t, <1>3 DEF Replace, workerVars
  <2>2. Accepted' = Accepted
    BY <1>q, <2>1
  <2>3. Register!Foreign(writer["other"].edit) /\ writer["other"].edit \in EditSet
    BY <1>t, <1>3, <2>2, ReplaceIsAnEdit DEF Register!Foreign, Accepted
  <2> QED
    BY <2>3, SameSettings DEF Register!RegisterNext
<1>4. ASSUME CommitFails("worker") PROVE Register!RegisterNext
  <2>1. writer'["worker"].at \notin Busy /\ commands' = commands /\ primary' = primary
        /\ writer["worker"].at \in Busy
    BY <1>t, <1>4 DEF CommitFails, Resting, workerVars
  <2> QED
    BY <1>idle1, <1>busy, <1>s, <2>1
<1>5. ASSUME \/ CommitFails("other") \/ \E local \in Settings : OtherCommit(local)
      PROVE  primary' = primary /\ Accepted' = Accepted
  <2>1. writer'["worker"] = writer["worker"] /\ commands' = commands /\ primary' = primary
    BY <1>t, <1>5 DEF CommitFails, OtherCommit, workerVars
  <2> QED
    BY <1>q, <2>1
<1>6. CASE TakeSubmit
  <2> DEFINE state == [Resting EXCEPT !.at = "locking", !.edit = Head(commands).edit]
  <2>1. state.at = "locking" /\ state.edit = Head(commands).edit
    BY DEF Resting
  <2> HIDE DEF state
  <2>2. writer'["worker"] = state /\ writer["worker"].at = "idle" /\ primary' = primary
        /\ commands # <<>> /\ commands' = Tail(commands) /\ Head(commands).kind = "submit"
    BY <1>t, <1>6 DEF TakeSubmit, WorkerIdle, state
  <2>3. /\ Head(commands) \in Command /\ Tail(commands) \in Seq(Command)
        /\ commands = <<Head(commands)>> \o Tail(commands)
    BY <1>t, <2>2
  <2>4. Head(commands) = [kind |-> "submit", edit |-> Head(commands).edit]
    BY <2>2, <2>3 DEF Command
  <2>5. Accepted' = <<Head(commands)>> \o Tail(commands)
    BY <2>1, <2>2, <2>4 DEF Accepted, UnderWay
  <2> QED
    BY <1>idle, <2>2, <2>3, <2>5
<1>7. CASE TakeRefresh
  <2>1. writer' = writer /\ writer["worker"].at = "idle" /\ commands # <<>>
        /\ commands' = Tail(commands) /\ primary' = primary
    BY <1>7 DEF TakeRefresh, WorkerIdle
  <2> QED
    BY <1>idle, <1>idle1, <1>s, <2>1
<1>8. CASE FinishCommit \/ ReportFailure
  <2>1. writer'["worker"].at \notin Busy /\ writer["worker"].at \notin Busy
        /\ commands' = commands /\ primary' = primary
    BY <1>t, <1>8 DEF FinishCommit, ReportFailure, Resting
  <2> QED
    BY <1>idle, <1>idle1, <2>1
<1>9. CASE WorkerStop \/ ProcessEnds
  <2>1. writer'["worker"].at \notin Busy /\ commands' = <<>> /\ primary' = primary
    BY <1>t, <1>9 DEF WorkerStop, WorkerIdle, ProcessEnds, Resting
  <2> QED
    BY <1>idle1, <1>g, <2>1
<1>10. ASSUME NEW c \in Clients, NEW local \in Settings, TrySubmit(c, local)
       PROVE  Register!RegisterNext
  <2> DEFINE command == [kind |-> "submit", edit |-> Edit(client[c].observed.snapshot, local)]
  <2>1. client[c].observed.snapshot \in Settings
    BY DEF TypedParts, ClientsOK, View
  <2>2. command \in Command
    BY <2>1 DEF Command, EditSet, Edit
  <2>3. commands' = Append(commands, command) /\ writer' = writer /\ primary' = primary
    BY <1>10 DEF TrySubmit
  <2> HIDE DEF command
  <2> QED
    BY <1>a, <2>2, <2>3
<1>11. ASSUME NEW c \in Clients, TryRefresh(c) PROVE Register!RegisterNext
  <2> DEFINE command == [kind |-> "refresh", edit |-> NoEdit]
  <2>1. command \in Command
    BY ConfigConstants DEF Command, EditSet, NoEdit, Edit
  <2>2. commands' = Append(commands, command) /\ writer' = writer /\ primary' = primary
    BY <1>11 DEF TryRefresh
  <2> HIDE DEF command
  <2> QED
    BY <1>a, <2>1, <2>2
<1>12. ASSUME NEW health \in {"damaged", "missing"}, Damage(health) PROVE Register!RegisterNext
  <2>1. Accepted' = Accepted
    BY <1>12, <1>q DEF Damage, workerVars
  <2>2. Register!Damage(health)
    BY <1>12, <2>1 DEF Damage, Register!Damage, Accepted
  <2> QED
    BY <2>2 DEF Register!RegisterNext
<1>13. ASSUME NEW settings \in {Default, backup.settings}, Repair(settings)
       PROVE  Register!RegisterNext
  <2>1. Accepted' = Accepted
    BY <1>13, <1>q DEF Repair, workerVars
  <2>2. settings \in Settings
    BY ConfigConstants DEF TypedParts, FilesOK, File
  <2>3. Register!Repair(settings)
    BY <1>13, <2>1, SameSettings DEF Repair, Register!Repair, Accepted
  <2> QED
    BY <2>2, <2>3, SameSettings DEF Register!RegisterNext
<1>14. CASE \/ WorkerStart \/ Tick \/ Launch \/ UNCHANGED configVars
            \/ \E c \in Clients : OpenClient(c) \/ Drain(c)
            \/ \E h \in Handles : DropHandle(h) \/ Release(h)
  <2>1. writer' = writer /\ commands' = commands /\ primary' = primary
    BY <1>14 DEF WorkerStart, Tick, Launch, configVars, OpenClient, Drain, DropHandle, Release,
                 workerVars
  <2> QED
    BY <1>q, <2>1
<1> QED
  BY <1>t, <1>1, <1>2, <1>3, <1>4, <1>5, <1>6, <1>7, <1>8, <1>9, <1>10, <1>11, <1>12, <1>13, <1>14
     DEF ConfigNext, Worker, Commit, ClientStep

\* The file changes by whole edits only: an edit sets what its client had
\* changed and leaves the rest as the file has it, whichever process wrote it;
\* the accepted ones take effect in the order of acceptance, each at most once
\* (commit_patch in config_store.rs under the file lock, and the command
\* channel of config_runtime.rs).
THEOREM SettingsAreARegister == ConfigSpec => ImplementsRegister
<1>1. ConfigInit => FoundInv /\ Register!RegisterInit
  <2> SUFFICES ASSUME ConfigInit PROVE FoundInv /\ Register!RegisterInit
    OBVIOUS
  <2>1. FoundInv
    BY DEF ConfigInit, FoundInv, Resting
  <2>2. primary \in [health : {"good", "missing"}, settings : Register!Settings]
    BY ConfigConstants, SameSettings DEF ConfigInit, Good, NoFile
  <2>3. TypedParts /\ writer["worker"].at = "idle" /\ commands = <<>>
    BY TypedInit DEF ConfigInit, Resting, Writers
  <2>4. Accepted = <<>>
    BY <2>3, AcceptedForms
  <2> QED
    BY <2>1, <2>2, <2>4 DEF Register!RegisterInit, Accepted
<1>2. TypedParts /\ FoundInv /\ [ConfigNext]_configVars => (TypedParts /\ FoundInv)'
  BY TypedStep, FoundStep
<1> QED
  BY TypedInit, <1>1, <1>2, RegisterStep, PTL DEF ConfigSpec, ImplementsRegister, Register!RegisterSpec

=============================================================================
