--------------------------- MODULE LatencyTracker ----------------------------
(***************************************************************************)
(* The rolling latency histogram (LatencyTracker of Shards/                 *)
(* LatencyTracker.cs): tasks record samples into the slot of the current    *)
(* sub-window without a lock, the first one to come to a new sub-window     *)
(* claims its slot with a compare-and-swap and then clears it, bucket by    *)
(* bucket; Quantile merges the live slots, bucket by bucket, and caches     *)
(* what it found.  Every read of the clock, Volatile.Read, CompareExchange, *)
(* Increment and cleared bucket is a step.  A slot's counts are the set of  *)
(* the samples that were counted.                                           *)
(***************************************************************************)
EXTENDS Integers, FiniteSets

CONSTANTS
    Recorders, Readers,    \* tasks that record, and that ask
    Slots,                 \* _slots.Length
    SlotTicks, CacheTicks, \* _slotTicks, _cacheTicks
    Levels,                \* how many buckets samples fall into
    Asks,                  \* what is asked: [q, min], q in percent
    MaxSamples, MaxTicks,  \* bounds: samples recorded, the clock
    LinearBuckets, SubBucketBits, MaxExponent,
    Latencies              \* microseconds whose buckets are looked at
ASSUME RecordersAssumption == IsFiniteSet(Recorders)
ASSUME SlotsAssumption == Slots \in Nat /\ Slots >= 2 /\ SlotTicks \in Nat \ {0} /\ CacheTicks \in Nat
ASSUME LevelsAssumption == Levels \in Nat \ {0}
ASSUME AsksAssumption == Asks # {} /\ \A a \in Asks : a.q \in 1 .. 100 /\ a.min \in Nat

VARIABLES
    clock,     \* _clock()
    epochs,    \* Slot.Epoch
    counts,    \* Slot.Counts
    cache,     \* _cache: the last merge, a set of at most one
    recorder,  \* where each recorder is, with its locals
    reader,    \* where each reader is, with its locals
    recorded,  \* history: the samples recorded
    racing     \* history: those counted while their slot was being cleared
trackerVars == <<clock, epochs, counts, cache, recorder, reader, recorded, racing>>
-----------------------------------------------------------------------------
(* Buckets: exact below LinearBuckets, then a fixed number per power of two. *)

BucketCount == LinearBuckets + (MaxExponent - 6) * 2 ^ SubBucketBits
Log2(m) == CHOOSE e \in 0 .. 30 : 2 ^ e <= m /\ (e = 30 \/ m < 2 ^ (e + 1))
BucketOf(m) ==
    IF m < LinearBuckets THEN m
    ELSE LET exp == Log2(m) IN
         IF exp >= MaxExponent THEN BucketCount - 1
         ELSE LinearBuckets + (exp - 6) * 2 ^ SubBucketBits
                 + ((m \div 2 ^ (exp - SubBucketBits)) % 2 ^ SubBucketBits)
BucketUpperMicros(b) ==
    LET rel == b - LinearBuckets
        exp == rel \div 2 ^ SubBucketBits + 6
    IN  IF b < LinearBuckets THEN b
        ELSE 2 ^ exp + ((rel % 2 ^ SubBucketBits) + 1) * 2 ^ (exp - SubBucketBits)
-----------------------------------------------------------------------------
Epoch(t) == t \div SlotTicks
SlotOf(epoch) == epoch % Slots
AtRest == [at |-> "idle", sample |-> [n |-> 0, epoch |-> 0, bucket |-> 1], seen |-> -1, left |-> {}]
NotAsking == [at |-> "idle", ask |-> CHOOSE a \in Asks : TRUE, from |-> 0, current |-> 0, slot |-> 0, left |-> {},
              merged |-> {}, must |-> {}, touched |-> {}, of |-> {}]
Spot(r) == SlotOf(recorder[r].sample.epoch)
Clearing(s) == \E r \in Recorders : recorder[r].at = "clear" /\ Spot(r) = s
RecorderAt(r, from, to) == recorder[r].at = from /\ recorder' = [recorder EXCEPT ![r].at = to]
ByReaders == UNCHANGED <<cache, reader>>

(* RecordMicros. *)
Record(r) ==
    /\ recorder[r].at = "idle"
    /\ LET n == Cardinality(recorded) + Cardinality({x \in Recorders : recorder[x].at # "idle"}) IN
       /\ n < MaxSamples
       /\ \E b \in 1 .. Levels :
             recorder' = [recorder EXCEPT ![r] =
                [at |-> "epoch", sample |-> [n |-> n, epoch |-> Epoch(clock), bucket |-> b], seen |-> -1, left |-> {}]]
    /\ ByReaders /\ UNCHANGED <<clock, epochs, counts, recorded, racing>>
\* Volatile.Read(ref slot.Epoch).
ReadEpoch(r) ==
    /\ recorder[r].at = "epoch"
    /\ LET seen == epochs[Spot(r)] IN
       recorder' = [recorder EXCEPT ![r].at = IF seen = recorder[r].sample.epoch THEN "count" ELSE "claim", ![r].seen = seen]
    /\ ByReaders /\ UNCHANGED <<clock, epochs, counts, recorded, racing>>
\* A slot being claimed is one whose contents a merge cannot tell.
Merging(i) == reader[i].at \in {"slot", "buckets", "store"}
Touch(s) ==
    reader' = [i \in Readers |-> IF Merging(i) THEN [reader[i] EXCEPT !.touched = @ \cup {s}] ELSE reader[i]]
Take(r) ==
    /\ epochs' = [epochs EXCEPT ![Spot(r)] = recorder[r].sample.epoch]
    /\ recorder' = [recorder EXCEPT ![r].at = "clear", ![r].left = 1 .. Levels]
    /\ Touch(Spot(r))
\* Faulty variant of Claim: the epoch is stored, whoever has claimed the slot since.
ClaimAnyhow(r) ==
    /\ recorder[r].at = "claim" /\ Take(r)
    /\ UNCHANGED <<clock, counts, cache, recorded, racing>>
\* Interlocked.CompareExchange(ref slot.Epoch, epoch, seen): one recorder wins.
Claim(r) ==
    /\ recorder[r].at = "claim"
    /\ \/ epochs[Spot(r)] = recorder[r].seen /\ Take(r)
       \/ /\ epochs[Spot(r)] # recorder[r].seen
          /\ RecorderAt(r, "claim", "count") /\ UNCHANGED <<epochs, reader>>
    /\ UNCHANGED <<clock, counts, cache, recorded, racing>>
\* Array.Clear, a bucket at a time.
Clear(r) ==
    /\ recorder[r].at = "clear"
    /\ LET b == CHOOSE b \in recorder[r].left : \A c \in recorder[r].left : b <= c
           left == recorder[r].left \ {b}
       IN  /\ counts' = [counts EXCEPT ![Spot(r)] = {x \in @ : x.bucket # b}]
           /\ recorder' = [recorder EXCEPT ![r].left = left, ![r].at = IF left = {} THEN "count" ELSE "clear"]
    /\ ByReaders /\ UNCHANGED <<clock, epochs, recorded, racing>>
\* Interlocked.Increment of the sample's bucket.
Count(r) ==
    /\ recorder[r].at = "count" /\ recorder' = [recorder EXCEPT ![r] = AtRest]
    /\ LET x == recorder[r].sample IN
       /\ counts' = [counts EXCEPT ![Spot(r)] = @ \cup {x}]
       /\ recorded' = recorded \cup {x}
       /\ racing' = IF Clearing(Spot(r)) THEN racing \cup {x} ELSE racing
    /\ ByReaders /\ UNCHANGED <<clock, epochs>>
-----------------------------------------------------------------------------
(* Quantile. *)
ByRecorders == UNCHANGED <<epochs, counts, recorder, recorded, racing>>
Quantile(i) ==
    /\ reader[i].at \in {"idle", "cached", "stored"}
    /\ \E a \in Asks :
          reader' = [reader EXCEPT ![i] = [NotAsking EXCEPT !.at = "cache", !.ask = a, !.from = clock]]
    /\ UNCHANGED <<clock, cache>> /\ ByRecorders
\* Volatile.Read(ref _cache).
CachedFor(i) == {c \in cache : c.q = reader[i].ask.q /\ reader[i].from - c.from < CacheTicks}
ReadCache(i) ==
    /\ reader[i].at = "cache"
    /\ \/ /\ CachedFor(i) # {}
          /\ \E c \in CachedFor(i) : reader' = [reader EXCEPT ![i].at = "cached", ![i].of = {c}]
       \/ CachedFor(i) = {} /\ reader' = [reader EXCEPT ![i].at = "merge"]
    /\ UNCHANGED <<clock, cache>> /\ ByRecorders
\* ForEachLiveSlot reads the clock again; what it must find is recorded by now.
StartMerge(i) ==
    /\ reader[i].at = "merge"
    /\ reader' = [reader EXCEPT ![i] =
          [@ EXCEPT !.at = "slot", !.slot = 0, !.current = Epoch(clock), !.merged = {},
                    !.must = {x \in recorded \ racing : Epoch(clock) - x.epoch < Slots},
                    !.touched = {s \in 0 .. Slots - 1 : Clearing(s)}]]
    /\ UNCHANGED <<clock, cache>> /\ ByRecorders
NextSlot(i) == IF reader[i].slot + 1 < Slots THEN "slot" ELSE "store"
ReadSlot(i) ==
    /\ reader[i].at = "slot"
    /\ LET e == epochs[reader[i].slot]
           live == e >= 0 /\ reader[i].current - e < Slots
       IN  reader' = [reader EXCEPT ![i] =
              IF live THEN [@ EXCEPT !.at = "buckets", !.left = 1 .. Levels]
              ELSE [@ EXCEPT !.at = NextSlot(i), !.slot = reader[i].slot + 1]]
    /\ UNCHANGED <<clock, cache>> /\ ByRecorders
\* Volatile.Read of one count.
ReadBucket(i) ==
    /\ reader[i].at = "buckets"
    /\ LET b == CHOOSE b \in reader[i].left : \A c \in reader[i].left : b <= c
           left == reader[i].left \ {b}
           read == [reader[i] EXCEPT !.left = left, !.merged = reader[i].merged \cup {x \in counts[reader[i].slot] : x.bucket = b}]
       IN  reader' = [reader EXCEPT ![i] =
              IF left # {} THEN read ELSE [read EXCEPT !.at = NextSlot(i), !.slot = reader[i].slot + 1]]
    /\ UNCHANGED <<clock, cache>> /\ ByRecorders
\* The first bucket with which the cumulative count reaches the rank; none of none.
Rank(q, total) == LET rank == (q * total + 99) \div 100 IN IF rank < 1 THEN 1 ELSE rank
Below(xs, b) == Cardinality({x \in xs : x.bucket <= b})
Value(xs, q) ==
    IF xs = {} THEN 0
    ELSE CHOOSE b \in 1 .. Levels : Below(xs, b) >= Rank(q, Cardinality(xs)) /\ \A c \in 1 .. Levels : c < b => Below(xs, c) < Rank(q, Cardinality(xs))
\* Volatile.Write(ref _cache, ...), and the answer of this merge.
StoreCache(i) ==
    /\ reader[i].at = "store"
    /\ LET xs == reader[i].merged
           entry == [from |-> reader[i].from, q |-> reader[i].ask.q, value |-> Value(xs, reader[i].ask.q), count |-> Cardinality(xs)]
       IN  cache' = {entry} /\ reader' = [reader EXCEPT ![i] = [@ EXCEPT !.at = "stored", !.of = {entry}]]
    /\ UNCHANGED clock /\ ByRecorders
\* null stands for too few samples.
Answered(i) ==
    {c.value : c \in {d \in reader[i].of : d.count >= reader[i].ask.min /\ d.count > 0}}
-----------------------------------------------------------------------------
\* The clock.  A task is not suspended for a whole window between two steps of a
\* recording (the window is a minute).
Tick ==
    /\ clock < MaxTicks
    /\ \A r \in Recorders : recorder[r].at # "idle" => Epoch(clock + 1) < recorder[r].sample.epoch + Slots
    /\ clock' = clock + 1
    /\ UNCHANGED cache /\ UNCHANGED reader /\ ByRecorders

TrackerInit ==
    /\ clock = 0
    /\ epochs = [s \in 0 .. Slots - 1 |-> -1] /\ counts = [s \in 0 .. Slots - 1 |-> {}]
    /\ cache = {}
    /\ recorder = [r \in Recorders |-> AtRest] /\ reader = [i \in Readers |-> NotAsking]
    /\ recorded = {} /\ racing = {}
TrackerStep ==
    \/ \E r \in Recorders : Record(r) \/ ReadEpoch(r) \/ Claim(r) \/ Clear(r) \/ Count(r)
    \/ \E i \in Readers : Quantile(i) \/ ReadCache(i) \/ StartMerge(i) \/ ReadSlot(i) \/ ReadBucket(i) \/ StoreCache(i)
    \/ Tick
TrackerSpec == TrackerInit /\ [][TrackerStep]_trackerVars
-----------------------------------------------------------------------------
\* A bucket's upper edge is never below what was recorded in it, nor more than one
\* part in 2^SubBucketBits above, and buckets keep the order of latencies.
BucketsAreTight ==
    \A m \in Latencies :
        /\ BucketOf(m) \in 0 .. BucketCount - 1
        /\ m < 2 ^ MaxExponent =>
              LET upper == BucketUpperMicros(BucketOf(m)) IN upper >= m /\ (upper - m) * 2 ^ SubBucketBits <= m
        /\ \A n \in Latencies : m <= n => BucketOf(m) <= BucketOf(n)

\* Whatever races a rotation, no more is lost or stale than the class admits: a
\* sample is in its slot until its sub-window is over, unless it was counted while
\* another task was clearing the slot.  What Quantile answers, from its own merge or
\* a fresh enough cached one, is the quantile of samples that were in the window,
\* with every sample recorded before the merge, save in the slots that were claimed
\* meanwhile; with too few samples it answers nothing (LatencyTracker.RecordMicros,
\* Quantile).
WindowIsCounted ==
    /\ recorded = {} => BucketsAreTight
    /\ \A x \in recorded \ racing : Epoch(clock) - x.epoch < Slots => x \in counts[SlotOf(x.epoch)]
    /\ \A i \in Readers :
          LET me == reader[i]
              elsewhere(xs) == {x \in xs : SlotOf(x.epoch) \notin me.touched}
          IN  /\ \A c \in me.of : c.q = me.ask.q /\ (c.from = me.from \/ me.from - c.from < CacheTicks)
              /\ me.at = "stored" =>
                    /\ elsewhere(me.must) \subseteq me.merged
                    /\ \A x \in elsewhere(me.merged) : me.current - x.epoch < Slots
                    /\ Answered(i) = {} <=> me.merged = {} \/ Cardinality(me.merged) < me.ask.min
                    /\ \A v \in Answered(i) :
                          /\ 100 * Below(me.merged, v) >= me.ask.q * Cardinality(me.merged)
                          /\ 100 * Below(me.merged, v - 1) < me.ask.q * Cardinality(me.merged)
==============================================================================
