---------------------------- MODULE HistoryStore ----------------------------
(***************************************************************************)
(* The bounded write buffer of the persistent history (store.rs, pending.rs *)
(* and the append and retention of retention_io.rs): samples are admitted  *)
(* while a flush is doing I/O, backpressure drops the oldest, a flush that *)
(* fails gives its samples back, and retention retires whole series.       *)
(*                                                                         *)
(* The queues of all series are one sequence in enqueue order, so that     *)
(* enqueue_order needs no counter: a flush marks what it has taken, and    *)
(* giving back is taking the mark off.  A row of a series' file is the     *)
(* revision of its sample; 0 stands for the rows of earlier processes.     *)
(* The cap of 20000 samples on one series is above the cap of 8192 on all  *)
(* of them and never acts.                                                 *)
(***************************************************************************)
EXTENDS Naturals, FiniteSets, Sequences, FiniteSetsExt

CONSTANTS
  Series,
  MaxTrackedSeries, MaxPendingSeries, MaxPendingSamples, MaxPendingBytes,
  KeyBytes, SampleBytes,   \* encoded_bytes of a key and of a sample
  MaxRevision,             \* bound: revisions a session gives to a series
  MaxRecords,              \* bound: samples one process receives
  MaxRows                  \* bound: rows up to which a failing append still adds some

ASSUME HistoryConstants ==
  /\ MaxTrackedSeries \in Nat \ {0} /\ MaxPendingSeries \in Nat \ {0}
  /\ MaxPendingSamples \in Nat \ {0} /\ MaxPendingBytes \in Nat \ {0}
  /\ KeyBytes \in Nat /\ SampleBytes \in Nat
  /\ MaxRevision \in Nat /\ MaxRecords \in Nat /\ MaxRows \in Nat

VARIABLES
  buffer,           \* StoreState::pending and what the running flush has taken
  pendingSamples,   \* StoreState::pending_samples
  pendingBytes,     \* StoreState::pending_bytes
  guard,            \* last_recorded_revision, 0 where there is none
  unpersisted,      \* unpersisted_series
  flush,            \* the running flush: series persisted and retired, samples written
  file,             \* rows of each series on disk, <<>> where there is no file
  status,           \* HistoryStoreStatus
  repeats,          \* history: series that lost their guard in a flush or were
                    \* appended by half
  stranded          \* history: series a failed retention had retired

historyVars ==
  <<buffer, pendingSamples, pendingBytes, guard, unpersisted, flush, file, status,
    repeats, stranded>>

NoFlush == [step |-> "idle", persisted |-> {}, retired |-> {}, written |-> 0]
NoStatus == [received |-> 0, refused |-> 0, dropped |-> 0, written |-> 0]

Pending(b) == {i \in DOMAIN b : ~b[i].taken}
PendingSeries(b) == {b[i].series : i \in Pending(b)}
Taken(s) == {i \in DOMAIN buffer : buffer[i].taken /\ buffer[i].series = s}
InFlight(s) == Taken(s) # {}
Tracked == {s \in Series : guard[s] # 0}

\* How many of S are at i or before.
Rank(S, i) == Cardinality({j \in S : j <= i})
Nth(S, n) == CHOOSE i \in S : Rank(S, i) = n

\* The elements of b at the positions of keep, in order.
Select(b, keep) == [n \in 1 .. Cardinality(keep) |-> b[Nth(keep, n)]]

-----------------------------------------------------------------------------
(* Backpressure: enforce_global_pending_limits over drop_pending_front. *)

WithinLimits(count, samples, bytes) ==
  count <= MaxPendingSeries /\ samples <= MaxPendingSamples /\ bytes <= MaxPendingBytes

\* b without its k oldest pending samples.
Drop(b, k) ==
  LET oldest == {i \in Pending(b) : Rank(Pending(b), i) <= k}
  IN Select(b, DOMAIN b \ oldest)

Emptied(b, k) == PendingSeries(b) \ PendingSeries(Drop(b, k))

\* Faulty: a series that is dropped whole leaves the bytes of its key behind.
FaultyBytesAfter(b, bytes, k) == bytes - k * SampleBytes

BytesAfter(b, bytes, k) == bytes - k * SampleBytes - Cardinality(Emptied(b, k)) * KeyBytes

\* The samples that go until all limits hold.
Excess(b, samples, bytes) ==
  Min({k \in 0 .. Cardinality(Pending(b)) :
         WithinLimits(Cardinality(PendingSeries(Drop(b, k))), samples - k,
                      BytesAfter(b, bytes, k))})

\* Faulty: the guard stays.
FaultySettle(b, samples, bytes, guards, unflushed, counted, again) ==
  LET k == Excess(b, samples, bytes)
  IN /\ buffer' = Drop(b, k)
     /\ pendingSamples' = samples - k
     /\ pendingBytes' = BytesAfter(b, bytes, k)
     /\ guard' = guards
     /\ unpersisted' = unflushed \ Emptied(b, k)
     /\ status' = [counted EXCEPT !.dropped = @ + k]
     /\ repeats' = again

\* The buffer b with its counters, after enforcement; a series that loses its
\* last sample before it was ever flushed loses its revision guard as well.
Settle(b, samples, bytes, guards, unflushed, counted, again) ==
  LET k == Excess(b, samples, bytes)
      released == Emptied(b, k) \cap unflushed
  IN /\ buffer' = Drop(b, k)
     /\ pendingSamples' = samples - k
     /\ pendingBytes' = BytesAfter(b, bytes, k)
     /\ guard' = [s \in Series |-> IF s \in released THEN 0 ELSE guards[s]]
     /\ unpersisted' = unflushed \ released
     /\ status' = [counted EXCEPT !.dropped = @ + k]
     /\ repeats' = again \cup {s \in released : InFlight(s) \/ file[s] # <<>>}

-----------------------------------------------------------------------------
(* try_record_sample, on any thread and at any point of a flush. *)

Entry(s, revision) == [series |-> s, revision |-> revision, taken |-> FALSE]

AdmissionRejected(s) ==
  \/ guard[s] = 0 /\ Cardinality(Tracked) >= MaxTrackedSeries
  \/ s \notin PendingSeries(buffer) /\ Cardinality(PendingSeries(buffer)) >= MaxPendingSeries

Refuse(s, revision) ==
  /\ status.received < MaxRecords
  /\ AdmissionRejected(s) \/ revision <= guard[s]
  /\ status' = [status EXCEPT !.received = @ + 1, !.refused = @ + 1]
  /\ UNCHANGED <<buffer, pendingSamples, pendingBytes, guard, unpersisted, flush, file,
                 repeats, stranded>>

\* A series is unpersisted from its first sample on; its key is paid for
\* while anything of it is pending.
Record(s, revision) ==
  /\ status.received < MaxRecords
  /\ ~AdmissionRejected(s) /\ revision > guard[s]
  /\ Settle(Append(buffer, Entry(s, revision)), pendingSamples + 1,
            pendingBytes + SampleBytes + (IF s \in PendingSeries(buffer) THEN 0 ELSE KeyBytes),
            [guard EXCEPT ![s] = revision],
            IF guard[s] = 0 THEN unpersisted \cup {s} ELSE unpersisted,
            [status EXCEPT !.received = @ + 1], repeats)
  /\ UNCHANGED <<flush, file, stranded>>

-----------------------------------------------------------------------------
(* flush, step by step; flush_lock admits one at a time. *)

TakePending ==
  /\ flush.step = "idle"
  /\ flush' = [NoFlush EXCEPT !.step = "appending"]
  /\ buffer' = [i \in DOMAIN buffer |-> [buffer[i] EXCEPT !.taken = TRUE]]
  /\ pendingSamples' = 0 /\ pendingBytes' = 0
  /\ UNCHANGED <<guard, unpersisted, file, status, repeats, stranded>>

Rows(s) == LET taken == Select(buffer, Taken(s)) IN [i \in DOMAIN taken |-> taken[i].revision]

AppendSamples(s) ==
  /\ flush.step = "appending" /\ InFlight(s)
  /\ file' = [file EXCEPT ![s] = @ \o Rows(s)]
  /\ buffer' = Select(buffer, DOMAIN buffer \ Taken(s))
  /\ flush' = [flush EXCEPT !.persisted = @ \cup {s}, !.written = @ + Cardinality(Taken(s))]
  /\ UNCHANGED <<pendingSamples, pendingBytes, guard, unpersisted, status, repeats,
                 stranded>>

GivenBack(s) ==
  [i \in DOMAIN buffer |-> IF i \in Taken(s) THEN [buffer[i] EXCEPT !.taken = FALSE] ELSE buffer[i]]

\* Faulty: the samples that came in meanwhile are ahead of the older ones.
FaultyRequeueFailed(s, n) ==
  /\ flush.step = "appending" /\ InFlight(s) /\ n < Cardinality(Taken(s))
  /\ n = 0 \/ Len(file[s]) + n <= MaxRows
  /\ file' = [file EXCEPT ![s] = @ \o SubSeq(Rows(s), 1, n)]
  /\ Settle(Select(buffer, DOMAIN buffer \ Taken(s)) \o Select(GivenBack(s), Taken(s)),
            pendingSamples + Cardinality(Taken(s)),
            pendingBytes + Cardinality(Taken(s)) * SampleBytes
              + (IF s \in PendingSeries(buffer) THEN 0 ELSE KeyBytes),
            guard, unpersisted, status, IF n = 0 THEN repeats ELSE repeats \cup {s})
  /\ UNCHANGED <<flush, stranded>>

\* The append fails after n rows; all its samples are pending again, ahead
\* of what was recorded meanwhile.
RequeueFailed(s, n) ==
  /\ flush.step = "appending" /\ InFlight(s) /\ n < Cardinality(Taken(s))
  /\ n = 0 \/ Len(file[s]) + n <= MaxRows
  /\ file' = [file EXCEPT ![s] = @ \o SubSeq(Rows(s), 1, n)]
  /\ Settle(GivenBack(s),
            pendingSamples + Cardinality(Taken(s)),
            pendingBytes + Cardinality(Taken(s)) * SampleBytes
              + (IF s \in PendingSeries(buffer) THEN 0 ELSE KeyBytes),
            guard, unpersisted, status, IF n = 0 THEN repeats ELSE repeats \cup {s})
  /\ UNCHANGED <<flush, stranded>>

\* apply_retention: age and quota take the oldest rows of a file, or all.
TrimFile(s, n) ==
  /\ flush.step = "appending" /\ \A t \in Series : ~InFlight(t)
  /\ file' = [file EXCEPT ![s] = SubSeq(@, n + 1, Len(@))]
  /\ flush' = IF n = Len(file[s]) THEN [flush EXCEPT !.retired = @ \cup {s}] ELSE flush
  /\ UNCHANGED <<buffer, pendingSamples, pendingBytes, guard, unpersisted, status, repeats,
                 stranded>>

\* Faulty: a retired series is forgotten though samples of it are pending.
FaultyFinishFlush(succeeded) ==
  LET unflushed == unpersisted \ flush.persisted
      retired == IF succeeded THEN flush.retired ELSE {}
      gone == retired
  IN /\ flush.step = "appending" /\ \A s \in Series : ~InFlight(s)
     /\ flush' = NoFlush
     /\ status' = [status EXCEPT !.written = @ + flush.written]
     /\ guard' = [s \in Series |-> IF s \in gone THEN 0 ELSE guard[s]]
     /\ unpersisted' = unflushed \ gone
     /\ stranded' = IF succeeded THEN stranded \ retired ELSE stranded \cup flush.retired
     /\ UNCHANGED <<buffer, pendingSamples, pendingBytes, file, repeats>>

\* finish_flush.  Series that a failed retention had already retired are not
\* reported, and keep their guards.
FinishFlush(succeeded) ==
  LET unflushed == unpersisted \ flush.persisted
      retired == IF succeeded THEN flush.retired ELSE {}
      gone == retired \ PendingSeries(buffer)
  IN /\ flush.step = "appending" /\ \A s \in Series : ~InFlight(s)
     /\ flush' = NoFlush
     /\ status' = [status EXCEPT !.written = @ + flush.written]
     /\ guard' = [s \in Series |-> IF s \in gone THEN 0 ELSE guard[s]]
     /\ unpersisted' = (unflushed \ gone) \cup (retired \cap PendingSeries(buffer))
     /\ stranded' = IF succeeded THEN stranded \ retired ELSE stranded \cup flush.retired
     /\ UNCHANGED <<buffer, pendingSamples, pendingBytes, file, repeats>>

\* The process ends, at any step, and the store is opened again.
Reopen ==
  /\ buffer' = <<>> /\ pendingSamples' = 0 /\ pendingBytes' = 0
  /\ guard' = [s \in Series |-> 0] /\ unpersisted' = {}
  /\ flush' = NoFlush /\ status' = NoStatus /\ repeats' = {} /\ stranded' = {}
  /\ file' = [s \in Series |-> IF file[s] = <<>> THEN <<>> ELSE <<0>>]

-----------------------------------------------------------------------------
HistoryInit ==
  /\ buffer = <<>> /\ pendingSamples = 0 /\ pendingBytes = 0
  /\ guard = [s \in Series |-> 0] /\ unpersisted = {}
  /\ flush = NoFlush /\ status = NoStatus /\ repeats = {} /\ stranded = {}
  /\ file = [s \in Series |-> <<>>]

Flush ==
  \/ TakePending
  \/ \E s \in Series :
       \/ AppendSamples(s)
       \/ \E n \in 0 .. MaxPendingSamples : RequeueFailed(s, n)
       \/ \E n \in 1 .. Len(file[s]) : TrimFile(s, n)
  \/ \E succeeded \in BOOLEAN : FinishFlush(succeeded)

HistoryNext ==
  \/ \E s \in Series, revision \in 1 .. MaxRevision : Record(s, revision) \/ Refuse(s, revision)
  \/ Flush
  \/ Reopen

HistorySpec == HistoryInit /\ [][HistoryNext]_historyVars

-----------------------------------------------------------------------------
(* Properties. *)

Buffered(s) ==
  LET own == Select(buffer, {i \in DOMAIN buffer : buffer[i].series = s})
  IN [i \in DOMAIN own |-> own[i].revision]

\* The counters that backpressure trusts are those of the queues, the limits
\* hold, and every sample received is refused, dropped by backpressure,
\* written, or still in the buffer: none is lost or counted twice between
\* taking, appending, giving back and dropping.
AccountingIsExact ==
  /\ pendingSamples = Cardinality(Pending(buffer))
  /\ pendingBytes = Cardinality(Pending(buffer)) * SampleBytes
                      + Cardinality(PendingSeries(buffer)) * KeyBytes
  /\ WithinLimits(Cardinality(PendingSeries(buffer)), pendingSamples, pendingBytes)
  /\ Cardinality(Tracked) <= MaxTrackedSeries
  /\ status.received =
       status.refused + status.dropped + status.written + flush.written + Len(buffer)

\* What a process has written and is going to write of a series is in the
\* order of its revisions and without repetition, through failed appends,
\* retirement and records that race a flush.  Two things are excepted: an
\* append that failed after some rows, and a guard that backpressure released
\* while the flush held samples of the series.
RowsIncrease ==
  \A s \in Series \ repeats :
    LET rows == file[s] \o Buffered(s)
    IN \A i, j \in DOMAIN rows : i < j /\ rows[j] # 0 => rows[i] < rows[j]

\* A slot of the MAX_TRACKED_SERIES is held by a series that is buffered or
\* on disk: what retention retires and what backpressure drops gives its slot
\* back, except where retention failed after it had retired the series.
TrackedIsBacked ==
  \A s \in Tracked :
    \/ s \in stranded \cup flush.retired
    \/ file[s] # <<>> \/ Buffered(s) # <<>>
=============================================================================
