------------------------------ MODULE EventLog -------------------------------
(***************************************************************************)
(* The broker's event log (Experiments/EventLog.cs): producers put records *)
(* in a bounded channel without blocking; one background reader appends     *)
(* them to one file per hour and flushes after each drained batch; a caller *)
(* of FlushAsync waits until what was enqueued is on disk; the host may     *)
(* stop the reader at any moment, and the disk may fill up.                 *)
(*                                                                          *)
(* The channel is System.Threading.Channels': TryWrite fails when it is     *)
(* full, wakes a reader that waits, and a wait that starts with the token   *)
(* cancelled throws.  The file is a StreamWriter: a line stays in memory    *)
(* until it is flushed or the buffer overflows.                             *)
(***************************************************************************)
EXTENDS Naturals, Sequences, SequencesExt

CONSTANTS
    Records,      \* the records producers offer, each once
    NoRecord,     \* none of them
    Late,         \* those stamped in the second of two hours
    Capacity,     \* Events.QueueCapacity
    MaxDiskFaults \* bound: times the disk fills up

ASSUME RecordsAssumption  == IsFiniteSet(Records) /\ NoRecord \notin Records /\ Late \subseteq Records
ASSUME CapacityAssumption == Capacity \in Nat \ {0}
ASSUME DiskAssumption     == MaxDiskFaults \in Nat

Hours   == {0, 1}
Hour(r) == IF r \in Late THEN 1 ELSE 0   \* FileNameFor(rec.ServerTs)
NoFile  == -1

VARIABLES
    queue,     \* _channel
    producer,  \* of each record: "new", "queued" (not yet counted), "counted", "dropped"
    enqueued, processed,   \* _enqueued, _processed
    reader,    \* where ExecuteAsync is
    hand,      \* rec
    file,      \* the hour of the open writer, NoFile for null or disposed
    buffer,    \* lines the writer holds in memory
    pending,   \* pendingInBatch
    crashed,   \* an exception is on its way out of ExecuteAsync
    disk,      \* environment: the lines of each hour's file
    full,      \* environment: writes fail
    diskFaults,
    errors,    \* records counted as hs_events_dropped_total{reason="write_error"}
    stopping,  \* stoppingToken is cancelled
    flush,     \* the FlushAsync caller: "idle", "waiting", "returned"
    target,    \* its target
    history,   \* history: records in the order the channel took them
    promised,  \* history: records counted when FlushAsync was called
    exact,     \* history: no producer was between TryWrite and its count then
    leftAtStop \* history: records taken by the channel, not on disk, at the stop

channelVars == <<queue, producer, enqueued, history>>
fileVars    == <<file, buffer, disk, errors>>
loopVars    == <<processed, reader, hand, pending, crashed>>
hostVars    == <<full, diskFaults, stopping, leftAtStop>>
flushVars   == <<flush, target, promised, exact>>
vars == <<channelVars, fileVars, loopVars, hostVars, flushVars>>

Init ==
    /\ queue = <<>> /\ producer = [r \in Records |-> "new"]
    /\ enqueued = 0 /\ processed = 0
    /\ reader = "start" /\ hand = NoRecord
    /\ file = NoFile /\ buffer = <<>> /\ pending = 0 /\ crashed = FALSE
    /\ disk = [h \in Hours |-> <<>>] /\ full = FALSE /\ diskFaults = 0
    /\ errors = {} /\ stopping = FALSE
    /\ flush = "idle" /\ target = 0
    /\ history = <<>> /\ promised = {} /\ exact = FALSE /\ leftAtStop = {}

OnDisk == UNION {ToSet(disk[h]) : h \in Hours}
Taken  == ToSet(history)

-----------------------------------------------------------------------------
(* TryEnqueue. *)

\* TryWrite takes the record, and wakes the reader if it waits.
Put(r) ==
    /\ producer[r] = "new" /\ Len(queue) < Capacity
    /\ queue' = Append(queue, r)
    /\ history' = Append(history, r)
    /\ producer' = [producer EXCEPT ![r] = "queued"]
    /\ reader' = IF reader = "waiting" THEN "reading" ELSE reader
    /\ UNCHANGED <<enqueued, fileVars, processed, hand, pending, crashed, hostVars, flushVars>>

\* Interlocked.Increment(ref _enqueued): a separate step.
Count(r) ==
    /\ producer[r] = "queued"
    /\ producer' = [producer EXCEPT ![r] = "counted"]
    /\ enqueued' = enqueued + 1
    /\ UNCHANGED <<queue, history, fileVars, loopVars, hostVars, flushVars>>

\* The queue is full: the record is dropped and counted, nobody waits.
Drop(r) ==
    /\ producer[r] = "new" /\ Len(queue) = Capacity
    /\ producer' = [producer EXCEPT ![r] = "dropped"]
    /\ UNCHANGED <<queue, enqueued, history, fileVars, loopVars, hostVars, flushVars>>

-----------------------------------------------------------------------------
(* ExecuteAsync. *)

\* CreateDirectory succeeds, or the directory is unwritable.
Open ==
    /\ reader = "start"
    /\ reader' \in {"idle", "degraded"}
    /\ UNCHANGED <<channelVars, fileVars, processed, hand, pending, crashed, hostVars, flushVars>>

\* Degraded: drain and count every record as dropped.
Discard ==
    /\ reader = "degraded" /\ queue # <<>>
    /\ queue' = Tail(queue)
    /\ errors' = errors \cup {Head(queue)}
    /\ processed' = processed + 1
    /\ UNCHANGED <<producer, enqueued, history, file, buffer, disk, reader, hand,
                   pending, crashed, hostVars, flushVars>>

\* ReadAllAsync's wait throws once the token is cancelled.
DegradedStop ==
    /\ reader = "degraded" /\ stopping
    /\ reader' = "stopped"
    /\ UNCHANGED <<channelVars, fileVars, processed, hand, pending, crashed, hostVars, flushVars>>

\* WaitToReadAsync is called.
Wait ==
    /\ reader = "idle"
    /\ reader' = IF stopping THEN "draining"
                 ELSE IF queue = <<>> THEN "waiting" ELSE "reading"
    /\ UNCHANGED <<channelVars, fileVars, processed, hand, pending, crashed, hostVars, flushVars>>

Take ==
    /\ reader = "reading" /\ queue # <<>>
    /\ hand' = Head(queue)
    /\ queue' = Tail(queue)
    /\ reader' = "writing"
    /\ UNCHANGED <<producer, enqueued, history, fileVars, processed, pending,
                   crashed, hostVars, flushVars>>

\* Faulty variant of BatchEnds: the batch counts as processed before its flush.
BatchEndsCounted ==
    /\ reader = "reading" /\ queue = <<>>
    /\ reader' = "flushing"
    /\ processed' = processed + pending
    /\ pending' = 0
    /\ UNCHANGED <<channelVars, fileVars, hand, crashed, hostVars, flushVars>>

BatchEnds ==
    /\ reader = "reading" /\ queue = <<>>
    /\ reader' = "flushing"
    /\ UNCHANGED <<channelVars, fileVars, processed, hand, pending, crashed, hostVars, flushVars>>

\* A flush with nothing in memory writes nothing, so it cannot fail.
CanFlush == ~full \/ buffer = <<>>

\* What a flush of the writer leaves in its file.
Flushed == [disk EXCEPT ![file] = @ \o buffer]

\* Faulty variants of Rotate: the old writer is abandoned, or goes on.
RotateWithoutFlush ==
    /\ reader = "writing" /\ Hour(hand) # file
    /\ buffer' = <<>>
    /\ file' = Hour(hand)
    /\ UNCHANGED <<channelVars, disk, errors, loopVars, hostVars, flushVars>>

RotateKeepingBuffer ==
    /\ reader = "writing" /\ Hour(hand) # file
    /\ file' = Hour(hand)
    /\ UNCHANGED <<channelVars, buffer, disk, errors, loopVars, hostVars, flushVars>>

\* A record of another hour: the old writer is disposed, a new one opened.
Rotate ==
    /\ reader = "writing" /\ Hour(hand) # file /\ CanFlush
    /\ disk' = IF file = NoFile THEN disk ELSE Flushed
    /\ buffer' = <<>>
    /\ file' = Hour(hand)
    /\ UNCHANGED <<channelVars, errors, loopVars, hostVars, flushVars>>

\* Nothing catches what disposing or opening a writer throws.
RotateFails ==
    /\ reader = "writing" /\ Hour(hand) # file /\ full
    /\ file' = NoFile
    /\ buffer' = <<>>
    /\ crashed' = TRUE
    /\ reader' = "draining"
    /\ UNCHANGED <<channelVars, disk, errors, processed, hand, pending, hostVars, flushVars>>

\* WriteLineAsync: the line stays in memory, or the buffer overflows.
WriteLine ==
    /\ reader = "writing" /\ Hour(hand) = file
    /\ \/ buffer' = Append(buffer, hand) /\ disk' = disk
       \/ /\ ~full
          /\ buffer' = <<>>
          /\ disk' = [disk EXCEPT ![file] = Append(@ \o buffer, hand)]
    /\ hand' = NoRecord
    /\ pending' = pending + 1
    /\ reader' = "reading"
    /\ UNCHANGED <<channelVars, file, errors, processed, crashed, hostVars, flushVars>>

\* Faulty variant of WriteFails: the failed record is not counted as handled.
WriteFailsUncounted ==
    /\ reader = "writing" /\ Hour(hand) = file /\ full
    /\ errors' = errors \cup {hand}
    /\ buffer' \in {buffer, <<>>}
    /\ hand' = NoRecord
    /\ reader' = "reading"
    /\ UNCHANGED <<channelVars, file, disk, processed, pending, crashed, hostVars, flushVars>>

\* The overflow fails: the record is counted as dropped; what was in memory
\* stays there or is lost with it.
WriteFails ==
    /\ reader = "writing" /\ Hour(hand) = file /\ full
    /\ errors' = errors \cup {hand}
    /\ buffer' \in {buffer, <<>>}
    /\ hand' = NoRecord
    /\ pending' = pending + 1
    /\ reader' = "reading"
    /\ UNCHANGED <<channelVars, file, disk, processed, crashed, hostVars, flushVars>>

\* FlushAsync(stoppingToken) after a batch, when it succeeds.
Flush ==
    /\ reader = "flushing" /\ ~stopping /\ CanFlush
    /\ disk' = Flushed
    /\ buffer' = <<>>
    /\ reader' = "counting"
    /\ UNCHANGED <<channelVars, file, errors, processed, hand, pending, crashed,
                   hostVars, flushVars>>

\* Faulty variant of FlushCancelled: nothing is drained, the writer is dropped.
FlushCancelledEnds ==
    /\ reader = "flushing" /\ stopping
    /\ reader' = "stopped"
    /\ UNCHANGED <<channelVars, fileVars, processed, hand, pending, crashed, hostVars, flushVars>>

\* The token is cancelled: the flush throws, and that exception is expected.
FlushCancelled ==
    /\ reader = "flushing" /\ stopping
    /\ reader' = "draining"
    /\ UNCHANGED <<channelVars, fileVars, processed, hand, pending, crashed, hostVars, flushVars>>

\* The flush throws an IOException: nothing catches it.
FlushFails ==
    /\ reader = "flushing" /\ ~stopping /\ ~CanFlush
    /\ buffer' \in {buffer, <<>>}
    /\ crashed' = TRUE
    /\ reader' = "draining"
    /\ UNCHANGED <<channelVars, file, disk, errors, processed, hand, pending,
                   hostVars, flushVars>>

\* Interlocked.Add(ref _processed, pendingInBatch).
Account ==
    /\ reader = "counting"
    /\ processed' = processed + pending
    /\ pending' = 0
    /\ reader' = "idle"
    /\ UNCHANGED <<channelVars, fileVars, hand, crashed, hostVars, flushVars>>

-----------------------------------------------------------------------------
(* The `finally` of ExecuteAsync. *)

\* TryRead, and WriteLineAsync to the writer that happens to be open.
Drain ==
    /\ reader = "draining" /\ queue # <<>> /\ file # NoFile
    /\ queue' = Tail(queue)
    /\ \/ buffer' = Append(buffer, Head(queue)) /\ disk' = disk
       \/ /\ ~full
          /\ buffer' = <<>>
          /\ disk' = [disk EXCEPT ![file] = Append(@ \o buffer, Head(queue))]
    /\ UNCHANGED <<producer, enqueued, history, file, errors, loopVars, hostVars, flushVars>>

Ended == IF crashed THEN "failed" ELSE "stopped"

\* The queue is empty: the writer is disposed, which flushes it.
DrainEnds ==
    /\ reader = "draining" /\ queue = <<>> /\ (file = NoFile \/ CanFlush)
    /\ disk' = IF file = NoFile THEN disk ELSE Flushed
    /\ buffer' = <<>>
    /\ file' = NoFile
    /\ reader' = Ended
    /\ UNCHANGED <<channelVars, errors, processed, hand, pending, crashed, hostVars, flushVars>>

\* There is no writer: TryRead takes one record before that is noticed.
DrainWithoutWriter ==
    /\ reader = "draining" /\ queue # <<>> /\ file = NoFile
    /\ queue' = Tail(queue)
    /\ reader' = Ended
    /\ UNCHANGED <<producer, enqueued, history, fileVars, processed, hand, pending,
                   crashed, hostVars, flushVars>>

\* Draining or disposing throws.
DrainFails ==
    /\ reader = "draining" /\ file # NoFile
    /\ full /\ (queue # <<>> \/ buffer # <<>>)
    /\ queue' = IF queue = <<>> THEN queue ELSE Tail(queue)
    /\ buffer' = <<>>
    /\ file' = NoFile
    /\ crashed' = TRUE
    /\ reader' = "failed"
    /\ UNCHANGED <<producer, enqueued, history, disk, errors, processed, hand,
                   pending, hostVars, flushVars>>

-----------------------------------------------------------------------------
(* FlushAsync, called once. *)

FlushAsync ==
    /\ flush = "idle"
    /\ flush' = "waiting"
    /\ target' = enqueued
    /\ promised' = {r \in Records : producer[r] = "counted"}
    /\ exact' = \A r \in Records : producer[r] # "queued"
    /\ UNCHANGED <<channelVars, fileVars, loopVars, hostVars>>

\* It returns true.
FlushReturns ==
    /\ flush = "waiting" /\ processed >= target
    /\ flush' = "returned"
    /\ target' = 0 /\ promised' = {} /\ exact' = FALSE
    /\ UNCHANGED <<channelVars, fileVars, loopVars, hostVars>>

\* The timeout passes: it returns false.
FlushTimesOut ==
    /\ flush = "waiting" /\ processed < target
    /\ flush' = "returned"
    /\ target' = 0 /\ promised' = {} /\ exact' = FALSE
    /\ UNCHANGED <<channelVars, fileVars, loopVars, hostVars>>

-----------------------------------------------------------------------------
(* The host and the disk. *)

\* The host stops: stoppingToken is cancelled, which ends a wait.
Stop ==
    /\ ~stopping
    /\ stopping' = TRUE
    /\ leftAtStop' = Taken \ OnDisk
    /\ reader' = IF reader = "waiting" THEN "draining" ELSE reader
    /\ UNCHANGED <<channelVars, fileVars, processed, hand, pending, crashed, full,
                   diskFaults, flushVars>>

FillUp ==
    /\ ~full /\ diskFaults < MaxDiskFaults
    /\ full' = TRUE
    /\ diskFaults' = diskFaults + 1
    /\ UNCHANGED <<channelVars, fileVars, loopVars, stopping, leftAtStop, flushVars>>

FreeUp ==
    /\ full
    /\ full' = FALSE
    /\ UNCHANGED <<channelVars, fileVars, loopVars, diskFaults, stopping, leftAtStop, flushVars>>

-----------------------------------------------------------------------------
Loop ==
    \/ Open \/ Discard \/ DegradedStop
    \/ Wait \/ Take \/ BatchEnds
    \/ Rotate \/ RotateFails \/ WriteLine \/ WriteFails
    \/ Flush \/ FlushCancelled \/ FlushFails \/ Account
    \/ Drain \/ DrainEnds \/ DrainWithoutWriter \/ DrainFails

Next ==
    \/ \E r \in Records : Put(r) \/ Count(r) \/ Drop(r)
    \/ Loop
    \/ FlushAsync \/ FlushReturns \/ FlushTimesOut
    \/ Stop \/ FillUp \/ FreeUp

Spec == Init /\ [][Next]_vars

\* The reader runs while it can, and FlushAsync polls.
FairSpec == Spec /\ WF_vars(Loop) /\ WF_vars(FlushReturns \/ FlushTimesOut)

-----------------------------------------------------------------------------
TypeOK ==
    /\ queue \in Seq(Records) /\ Len(queue) <= Capacity
    /\ producer \in [Records -> {"new", "queued", "counted", "dropped"}]
    /\ enqueued \in 0 .. Cardinality(Records)
    /\ processed \in 0 .. Cardinality(Records)
    /\ reader \in {"start", "degraded", "idle", "waiting", "reading", "writing",
                   "flushing", "counting", "draining", "stopped", "failed"}
    /\ hand \in Records \cup {NoRecord}
    /\ file \in Hours \cup {NoFile}
    /\ ToSet(buffer) \subseteq Records
    /\ pending \in 0 .. Cardinality(Records)
    /\ DOMAIN disk = Hours /\ OnDisk \subseteq Records
    /\ errors \subseteq Records
    /\ flush \in {"idle", "waiting", "returned"}
    /\ target \in 0 .. Cardinality(Records)

Position(r) == CHOOSE i \in DOMAIN history : history[i] = r

\* A file holds its records once each and in the order the channel took them,
\* through rotations, failed writes and the shutdown drain; until it shuts down,
\* the log keeps one file per hour of the records' stamps, although producers
\* stamp before they queue and may queue out of order.
FilesInOrder ==
    \A h \in Hours :
        /\ \A i, j \in DOMAIN disk[h] : i < j => Position(disk[h][i]) < Position(disk[h][j])
        /\ ~stopping /\ ~crashed => \A r \in ToSet(disk[h]) : Hour(r) = h

\* While the reader runs and the disk works, every record the channel took is in
\* exactly one place: queued, in hand, in memory, on disk or counted as dropped.
NothingLost ==
    diskFaults = 0 /\ reader \notin {"stopped", "failed"} =>
        /\ Taken = ToSet(queue) \cup ({hand} \ {NoRecord}) \cup ToSet(buffer)
                     \cup OnDisk \cup errors
        /\ Len(history) = Len(queue) + Cardinality({hand} \ {NoRecord}) + Len(buffer)
                             + Len(disk[0]) + Len(disk[1]) + Cardinality(errors)

\* A shutdown with a working disk writes what was queued when it began, wherever
\* the reader is at that moment, provided the reader has opened a file before.
CleanShutdownLosesNothing ==
    reader = "stopped" /\ diskFaults = 0 /\ OnDisk # {} => leftAtStop \subseteq OnDisk

\* FlushAsync returning true means that what was enqueued before it is on disk,
\* when no producer was then between TryWrite and its count.
FlushCovers ==
    [][FlushReturns /\ exact /\ diskFaults = 0 => promised \subseteq OnDisk \cup errors]_vars

\* FlushAsync never waits in vain: any count it may have read is reached, also
\* past records that could not be written, unless the reader stops or fails;
\* only its timeout may be too short.
FlushTargetIsReached == []<>(processed >= enqueued \/ stopping \/ crashed)

\* "Waits until everything enqueued before the call is written and flushed"
\* (EventLog.cs), whatever other producers are doing.
FlushWaitsForAll ==
    [][FlushReturns /\ diskFaults = 0 => promised \subseteq OnDisk \cup errors]_vars

\* "An unwritable event log must never take search down" (EventLog.cs): no
\* exception leaves ExecuteAsync of a host that is not stopping, because the
\* host would stop on it.
NeverTakesSearchDown == crashed => stopping
==============================================================================
