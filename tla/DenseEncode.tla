----------------------------- MODULE DenseEncode -----------------------------
(***************************************************************************)
(* The passage encoder (dense/encode.py): rows are written into a memory-   *)
(* mapped partial file, chunk by chunk; a finished chunk is flushed and     *)
(* then noted in the progress file, so that a restart skips it; the full    *)
(* file is renamed to passages.fbin, and READY is written last.  A step     *)
(* ends wherever a crash would leave different files behind.                *)
(***************************************************************************)
EXTENDS GpuLock, FiniteSetsExt

\* N passages in chunks of CHUNK; the final check looks at every Stride-th row.
CONSTANTS N, CHUNK, Stride

ASSUME SizesAssumption == {N, CHUNK, Stride} \subseteq Nat \ {0}

VARIABLES
    queryFiles,   \* encode_queries: 0, 1 (vectors) or 2 (vectors and qids)
    partial,      \* passages.fbin.partial
    final,        \* passages.fbin
    progress,     \* passages.progress: the chunks it names
    todo,         \* in memory: the chunks this run has still to encode
    chunkLog,     \* passages.chunks.log: lines per chunk
    stats,        \* rows counted in passages.stats.json, or NoStats
    ready         \* the file READY exists

files   == <<queryFiles, partial, final, progress, chunkLog, stats, ready>>
encVars == <<queryFiles, partial, final, progress, todo, chunkLog, stats, ready>>

Rows   == 0 .. N - 1
Chunks == {r \div CHUNK : r \in Rows}
RowsOf(c) == {r \in Rows : r \div CHUNK = c}

\* A row is zero, a vector in the page cache ("dirty"), or one on disk.
RowStates == {"zero", "dirty", "disk"}
NoFile    == [there |-> FALSE, header |-> FALSE, rows |-> [r \in Rows |-> "zero"]]
File      == [there : BOOLEAN, header : BOOLEAN, rows : [Rows -> RowStates]]
NoStats   == N + 1

EncInit ==
    /\ queryFiles = 0 /\ partial = NoFile /\ final = NoFile /\ progress = {} /\ todo = {}
    /\ chunkLog = [c \in Chunks |-> 0] /\ stats = NoStats /\ ready = FALSE

Enc(from, to) == Move(Encoder, from, to) /\ UNCHANGED lock

\* main: started, or started again by whoever watches it.
StartEncoder == Enc("off", "mkdir") /\ UNCHANGED encVars

EncodeQueries ==
    /\ \/ Enc("queryVecs", "queryIds") /\ queryFiles' = Max({queryFiles, 1})
       \/ Enc("queryIds", "open") /\ queryFiles' = 2
    /\ UNCHANGED <<partial, final, progress, todo, chunkLog, stats, ready>>

\* A finished file is left alone; a partial one is continued.
Open ==
    /\ Enc("open", IF final.there THEN "unlinkOwner" ELSE IF partial.there THEN "read" ELSE "create")
    /\ UNCHANGED encVars
\* open(partial, "wb"); the header reaches the file only with truncate; the
\* progress file is emptied last.
Create ==
    /\ \/ Enc("create", "truncate") /\ partial' = [NoFile EXCEPT !.there = TRUE] /\ UNCHANGED progress
       \/ Enc("truncate", "reset") /\ partial' = [partial EXCEPT !.header = TRUE] /\ UNCHANGED progress
       \/ Enc("reset", "read") /\ progress' = {} /\ UNCHANGED partial
    /\ UNCHANGED <<queryFiles, final, todo, chunkLog, stats, ready>>
ReadProgress ==
    /\ Enc("read", "rows")
    /\ todo' = Chunks \ progress
    /\ UNCHANGED files

\* The loop's chunk: the first one of those left.
Current(c) == c \in todo /\ \A d \in todo : c <= d
WriteRows ==
    /\ Enc("rows", "flush")
    /\ \E c \in todo :
          /\ Current(c)
          /\ partial' = [partial EXCEPT !.rows = [r \in Rows |-> IF r \in RowsOf(c) THEN "dirty" ELSE @[r]]]
    /\ UNCHANGED <<queryFiles, final, progress, todo, chunkLog, stats, ready>>
Flushed(rows) == [r \in Rows |-> IF rows[r] = "dirty" THEN "disk" ELSE rows[r]]
Flush ==
    /\ Enc("flush", "mark")
    /\ partial' = [partial EXCEPT !.rows = Flushed(@)]
    /\ UNCHANGED <<queryFiles, final, progress, todo, chunkLog, stats, ready>>
MarkDone ==
    /\ Enc("mark", "log")
    /\ \E c \in todo : Current(c) /\ progress' = progress \cup {c}
    /\ UNCHANGED <<queryFiles, partial, final, todo, chunkLog, stats, ready>>
LogChunk ==
    /\ Enc("log", "rows")
    /\ \E c \in todo :
          /\ Current(c)
          /\ chunkLog' = [chunkLog EXCEPT ![c] = @ + 1]
          /\ todo' = todo \ {c}
    /\ UNCHANGED <<queryFiles, partial, final, progress, stats, ready>>

\* Every sampled row has unit norm, or the assertion ends the run.
CheckNorms ==
    /\ todo = {}
    /\ Enc("rows", IF \A r \in Rows : r % Stride = 0 => partial.rows[r] # "zero"
                   THEN "rename" ELSE "failUnlink")
    /\ UNCHANGED encVars
Rename ==
    /\ Enc("rename", "unlinkProgress")
    /\ final' = partial /\ partial' = NoFile
    /\ UNCHANGED <<queryFiles, progress, todo, chunkLog, stats, ready>>
UnlinkProgress ==
    /\ Enc("unlinkProgress", "stats")
    /\ progress' = {}
    /\ UNCHANGED <<queryFiles, partial, final, todo, chunkLog, stats, ready>>
\* The rows of the logged chunks; a log that a crash kept from ever being
\* written is an error.
WriteStats ==
    LET counted == MapThenSumSet(LAMBDA c : chunkLog[c] * Cardinality(RowsOf(c)), Chunks) IN
    /\ Enc("stats", IF counted = 0 THEN "failUnlink" ELSE "unlinkOwner")
    /\ stats' = IF counted = 0 THEN stats ELSE counted
    /\ UNCHANGED <<queryFiles, partial, final, progress, todo, chunkLog, ready>>

\* `finally`: the lock is released on the way out of an error and of SIGTERM
\* too; only a run that came through goes on to READY.
Release ==
    /\ \/ MPSExit(Encoder, "unlinkOwner", "rmdir", "ready")
       \/ MPSExit(Encoder, "failUnlink", "failRmdir", "off")
    /\ UNCHANGED encVars
WriteReady ==
    /\ Enc("ready", "done")
    /\ ready' = (ready \/ final.there)
    /\ UNCHANGED <<queryFiles, partial, final, progress, todo, chunkLog, stats>>

EncoderStep ==
    \/ StartEncoder
    \/ AcquireLock /\ UNCHANGED encVars
    \/ EncodeQueries \/ Open \/ Create \/ ReadProgress
    \/ WriteRows \/ Flush \/ MarkDone \/ LogChunk
    \/ CheckNorms \/ Rename \/ UnlinkProgress \/ WriteStats
    \/ Release \/ WriteReady

\* Where SIGTERM, which becomes SystemExit, finds the `finally` around it.
InTry == {"queryVecs", "queryIds", "open", "create", "truncate", "reset", "read", "rows",
          "flush", "mark", "log", "rename", "unlinkProgress", "stats"}
Terminate ==
    /\ pc[Encoder] \in InTry
    /\ Goto(Encoder, "failUnlink")
    /\ todo' = {}
    /\ UNCHANGED <<lock, files>>

\* The machine goes down: rows that were not flushed may be lost.
RowsAfterReboot(rows) ==
    {[r \in Rows |-> IF rows[r] # "dirty" THEN rows[r] ELSE IF r \in kept THEN "disk" ELSE "zero"] :
        kept \in SUBSET {r \in Rows : rows[r] = "dirty"}}

EncodedWhole(file) == \A r \in Rows : file.rows[r] = "disk"
\* Progress vouches for rows that no crash can take back, so the file that gets
\* the final name, which is what READY and the pipeline wait for, has every row
\* encoded, however often and wherever the job died; and no chunk is logged, and
\* so counted in the throughput, twice (encode.py "A restart skips finished chunks").
ReadyMeansEncoded ==
    /\ partial.there =>
          \A c \in progress, r \in Rows : r \in RowsOf(c) => partial.rows[r] = "disk"
    /\ final.there => EncodedWhole(final)
    /\ ready => final.there
    /\ \A c \in Chunks : chunkLog[c] <= 1
==============================================================================
