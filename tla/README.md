# HybridSearch: verification project

TLA+ models of HybridSearch, the TLC runs that check them and the proofs about
them. HybridSearch is a search engine over MS MARCO in four languages: a C#
broker in front of C++ shards (lexical BM25 and dense vector search), Python
jobs that encode, train and evaluate, and a React client. Every definition here
is translated from the source; `PROJECT.json` maps each to its lines.

Contents: [the system](#1-the-system), [modules](#2-modules),
[runs](#3-runs-bounds-and-what-they-show), [fairness](#4-fairness),
[proofs](#5-proofs), [findings](#6-findings),
[what is left out](#7-what-is-not-modelled), [plan](#8-plan).

## 1. The system

One query: the web client posts it to the broker; the broker plans what the
deadline and the load allow, encodes the query, asks every *slice* of the index
(each served by one or more shard *replicas*) for lexical and dense hits, fuses
them, lets a cross-encoder rerank the top, fetches snippets and answers, in one
response or as server-sent events (a lexical page first). What was served and
clicked goes to an event log from which experiments are analysed. Offline, jobs
prepare the collection, encode it, mine training data, train the reranker, and
study fusion, interleaving and learning from clicks.

| component | state | operations | hard behaviour | what makes it correct |
|---|---|---|---|---|
| Slice fan-out (`Shards/ShardFanOut.cs`, `ShardTopology.cs`) | health marks, round-robin counter, a request's attempts | search a slice with hedge and failover; fetch; probe | attempts race, callers leave, replicas crash or hang, marks are stale | distinct replicas, no false "slice down", bounded extra load, every search returns |
| Hedge budget (`Shards/LatencyTracker.cs`) | token balance, two counters | deposit per primary, take per hedge | lock-free loops | hedges stay below their fraction at every instant |
| Latency tracker (same file) | slots with epochs, histogram, cached quantile | record, quantile, count | recorders and readers race a slot's rotation | a quantile of the samples of the window |
| Degradation policy, cost model (`Search/Degradation.cs`) | one latency window per stage | plan, estimate, cost | what is measured depends on what was planned | load is shed, plans recover |
| Search pipeline (`Search/SearchService.cs`) | a request's plan, deadline, report; searches in flight | plan, encode, fan out, first page, rerank, final page | stages cut off, failing, failing for some slices | an honest report, bounded lateness, a ranking always |
| Event log (`Experiments/EventLog.cs`) | channel, writer, counts | enqueue, background loop, flush, drain | concurrent producers, disk faults, shutdown at any point | ordered, complete files; flush waits for what it promises |
| Web search hook (`src/web/src/hooks/useSearch.ts`) | current run, page | search, abort, fallback | events of an old stream after a new query | only the newest query's results show |
| Web interactions (`lib/interactions.ts`, `lib/events.ts`) | the tracked list, queue, consent, session | serve, click, dwell, abandon, flush, unload | opt-out or unload during a post, a page that comes back | each visit told once, whole, under consent |
| Web pages (`pages/SearchPage.tsx`) | box, mode, committed query, settled list | type, commit, settle, open | effects in the order of a render | what is logged is what was shown |
| Lexical engine (`src/engine/src/lexical`) | immutable index | five top-k strategies | skipping by score bounds, ties at the threshold, a deadline | every strategy returns the exhaustive top k |
| Vector index (`src/engine/src/vector`) | immutable graph, I/O pool, per-thread scratch | beam search, build | completions race the query's end | a search waits for all of its reads and for nobody else's |
| Shard server (`src/engine/src/server`) | chaos settings | search, fetch, health | injected faults, two halves under one budget | calls end in their budget, partial answers say so |
| Data preparation (`data/`, `scripts/data_*.sh`) | downloads, prepared files, sentinels | download, check, prepare, subset | killed anywhere and run again | what is marked ready is final |
| Dense encoding and GPU lock (`dense/encode.py`) | lock directory, chunks, progress log | lock, encode, resume, rename | two processes, stale locks, crashes | one job on the GPU; a named file is whole |
| Reranker training and its pipeline (`rerank/train.py`, `scripts/rerank_*.sh`) | checkpoints, best model | train, validate, save, resume | a crash inside a save | a resumed run is the undisturbed one; the best model is judged |
| Mining, rescoring, cascade (`rerank/mine.py`, `rerank_run.py`, `cascade.py`) | none | exact search, filters, sampling, rescoring | ties at a cut, filters at a margin | clean negatives, comparable depths |
| Evaluation (`eval/`, `stats/`) | none | metrics, paired tests | ties, rounding | one order for all systems, tests at their level |
| Fusion study (`fusion/`, `scripts/m4_fusion.py`) | run files | tune, compare | scores rounded through a file | what is reported is what was tuned |
| Interleaving, click models, experiments (`clicks/`) | event log | draft, click, credit, report | events late, lost or repeated | fair drafts, the report follows the log |
| Sensitivity study (`scripts/m9_sensitivity.py`) | a cache per cell | simulate, cache, rerun | reruns with other settings, kills | cells and A/A tests from the cache are fresh ones; validations are not (finding 5) |
| Learning to rank from clicks (`ltr/`, `scripts/m9_ltr.py`) | a vector cache, the same GPU lock | logs, propensities, weights, features | kills between two files | no position bias; ids keep their vectors; a named lock is given back |
| Fusion and interleaving in the broker, autocomplete, API, options, tracing, ONNX wrappers, index build, text analysis, benches, deployment | none of their own, or read-only | | | see section 7 |

Interactions. The pipeline calls the fan-out once per slice and stage and reads
its latencies through the cost model; all searches of the broker share the
health marks, the hedge budgets, the trackers, the cost model and the in-flight
count; the health monitor writes the same marks; the event log is written by
request threads and read by one background service. Every stage has a deadline
taken from one per-request deadline, with shares held back for the stages behind
it; a shard takes the tighter of that and the budget it was told. The page and
the broker meet in the stream of events. The jobs meet in files and in the lock.

`PROJECT.json` lists under `hazards` what is hard to test here, line by line,
with the properties that watch it.

## 2. Modules

| module | models | how it corresponds |
|---|---|---|
| `ShardTopology` | replica picks of a slice | operators; `AddInt`/`RemInt` are C#'s wrapping `+` and signed `%` |
| `RoundRobin` | the life of the round-robin counter | one action per pick and per health mark |
| `AtomicBudget` | what the hedge budget promises | abstract specification: two atomic operations |
| `HedgeBudget` | `OnPrimary`/`TryAcquire` and the counters around them | one step per volatile read, compare-and-swap, increment |
| `LatencyTracker` | `RecordMicros`, `Quantile`, `ForEachLiveSlot`; bucket bounds | one step per clock read, volatile read, compare-and-swap, increment, cleared bucket |
| `ShardFanOut` | `SearchSliceAsync`, `RunAttemptAsync`, the health monitor | actions between awaits; requests share a slice; a live replica may answer, fail, run into its budget (blackhole) or refuse (injected failure); extends `ShardTopology` and `AtomicBudget` |
| `EventLog` | producers, `ExecuteAsync`, `FlushAsync`, host, disk | one step per await and per shared counter |
| `Degradation` | `DegradationPolicy`, `CostModel`'s stages | operators: `Plan`, `Cost`, `PressureLevel` |
| `SearchService` | one search from plan to page | one action per stage ending; extends `Degradation` |
| `CostPlanner` | all searches, planned from what earlier ones measured | extends `Degradation`; the loop plan, run, sample, window |
| `SearchHook` | `useSearch`: runs, generations, aborts, fallback | one action per event of a stream and per effect |
| `Interactions` | `InteractionTracker` and `EventLogger` | operators on a client record, one per call |
| `WebClient` | `SearchPage` over both, tabs hidden and left, consent | one action per thing the user or the browser does |
| `SearchJourney` | both ends of a search | sum of `SearchService` and `WebClient` |
| `LexicalSearch` | `LexicalIndex::search`, five strategies | one action per document or block decided, a deadline between any two |
| `DiskSearch` | `DiskIndex::search`, `IoPool`, `DiskScratch` | one step per read, `fetch_sub`, `notify_all`, load and wait; a round's computation is one step |
| `ShardServer` | the `Search` call with `Chaos` | one action per sleep, half and tick |
| `GpuLock`, `DenseEncode`, `RerankTrain`, `OfflineJobs` | the jobs around the lock and their files | one step per file operation a crash can fall between; `OfflineJobs` composes them |
| `DataPreparation` | download, checksum, prepare, subset | one step per file written, renamed or removed |
| `FeatureCache` | the LTR study's vectors and their ids | the same; the lock is made and named in two steps, either of which may fail |
| `Evaluation`, `FusionStudy`, `Interleaving`, `ClickRankers`, `HardNegatives`, `CounterfactualLtr` | the studies' computations | operators named as the functions, with reference definitions |
| `OnlineExperiment` | sessions, pages, events, analyser | operators; reading an event is a step |
| `Sensitivity` | cells, A/A tests and validations, their cache and reruns | one step per file computed, loaded or written; each key has what the code's key has |
| `OfflineStudies` | all studies | one study per behaviour, a step per stage of it |
| `MC*` | instances for TLC | sets and numbers; `MCBroker` and `MCJobsAndShard` also put parts side by side |
| `*Proofs` | theorems, section 5 | inductive invariants and proofs |

Composition. `HedgeBudget` implements `AtomicBudget` (`ImplementsAtomicBudget`,
with the history counters `deposits` and `grants` as refinement mapping), and
`ShardFanOut` is built on `AtomicBudget`'s two operations, so that requests are
checked without the loops' interleavings. `SearchService` and `CostPlanner` look
at the same policy from two sides: one search in detail with any estimates, and
many searches in one step each with the estimates they produce. `OfflineJobs`
composes the encoder, the lock and the trainer, which share it and a file.
`DiskSearch` compares every query with `Alone`, the same rounds run by one thread
whose reads are its own. `SearchJourney`, `OfflineStudies`, `MCBroker` and
`MCJobsAndShard` are sums of parts that share nothing: a behaviour is about one
part, the others stay where they are. They say nothing the parts do not say.

Abstractions that matter:

- *Time.* `ShardFanOut` has none: a deadline may pass and an armed timer may
  fire at any moment. `SearchService` counts time from the request's arrival,
  and a stage may end anywhere up to the point where the code cancels it. The
  first page's write to the client (`onLexical`) has no deadline in the code; the
  model gives it no time, so `LatenessBounded` is about a client that reads.
  `CostPlanner` uses the time a stage really takes (`actual`), which the
  environment changes. `ShardServer` counts ticks; what needs no waiting takes
  none.
- *Hits.* `SearchService` keeps of a hit only where it came from, the slice and
  the list: this is what failures and fallbacks act on. In `DiskSearch` a record
  on disk is known by the node it belongs to, so that a wrong record is seen.
- *Numbers.* Scores are whole numbers (or tenths, or multiples of `1/Unit`):
  `LexicalSearch` is exact where the code is exact up to `kBoundSlack`.
- *Latency windows.* `CostPlanner` keeps the largest sample of two generations
  instead of histograms in slots, which `LatencyTracker` models.
- *Files* are absent, torn, bad or whole, or are known by what they were made of.
- *Text* is left out everywhere.
- Definitions headed "Faulty variant" belong to no specification. Each is a
  plausible bug of the definition below it; substituting it shows that the
  property it is listed with in `PROJECT.json` notices.

History variables (`calls`, `recorded`, `faulted`; `deposits`, `grants`;
`history`, `promised`, `exact`, `leftAtStop`; `told`; `rounds`, `failing`; `said`
and others marked so) are only read by properties.

## 3. Runs, bounds and what they show

| run | instance | states | properties |
|---|---|---|---|
| `broker_and_page` | search: 2 slices, 4 requests, 4 sets of estimates, deadline 6; browser: 1 text in 2 modes, 2 queries, flush at 3, batches of 2, 2 consents, 3 events a list; budget: 3 tasks, 7 primaries, half a token a deposit, room for one and a half; tracker: 2 recorders, 1 reader, 2 slots, 3 samples, 2 ticks | 3,140,863 | `HonestReport`, `LatenessBounded`, `SamplesAreOfWhatRan`, `PagesInOrder`, `ShownIsNewest`, `InteractionsAreTold`, `ExtraLoadBounded`, `WindowIsCounted`, `ImplementsAtomicBudget` |
| `fanout_shared` | 2 requests, 2 replicas, one down at the start, two injected refusals, one replica probed | 1,824,643 | `HedgeLoadBounded`, `NoFalseSliceDown`, `SlowPrimariesRecorded` |
| `fanout_single` | 1 impatient request, 3 replicas, a crash, a hang or an injected refusal, two probed | 324,189 | `AttemptsOnDistinctReplicas`, `OneReplicaCannotFailASlice`, `RequestsReturn`, `HealthConverges` |
| `event_log` | 3 records of 2 hours, a queue of 2, one disk fault, one shutdown, one flush | 1,487,460 | `FilesInOrder`, `NothingLost`, `CleanShutdownLosesNothing`, `FlushCovers`, `FlushTargetIsReached` |
| `cost_planner` | 2 searches, fast and slow shards, one change | 71,682 | `LoadIsShed`, `DenseComesBack` |
| `jobs_and_shard` | jobs: 3 rows in chunks of 2, 3 crashes, 3 training steps, 3 queries in 2 orders, 2 qualities; lexical: up to 3 terms over 5 documents in blocks of 2; disk: 2 searchers with 3 queries, one I/O thread, 5 nodes, beams of 3, one read error; server: 6 ticks, 2 calls, 2 control writes | 629,068 | `OneJobOnGpu`, `MinedFromWholeFile`, `ResumeReplaysBatches`, `BestModelIsJudged`, `PrunedSearchIsExact`, `DiskSearchIsSequential`, `AnswersInBudget`, `JobsEnd` |
| `offline_study` | a few documents, lists of up to 3, 2 or 3 queries; 2 runs of the data chain, 3 of the feature cache, 1 rerun of the study | 149,107 | `FusionAsReported`, `InterleavingIsFair`, `LogIsReported`, `StudyAsFresh`, `LtrIsUnbiased`, `TrainingDataIsClean`, `DataIsFinal`, `VectorsFitTheirIds` |
| `round_robin_wrap` | 3 replicas, 4-bit int | 369 | **violation** of `PicksAReplica`: finding 1 |
| `event_log_flush` | 2 records | 1,255 | **violation** of `FlushWaitsForAll`: finding 2 |
| `event_log_disk_full` | 2 records, one disk fault | 1,336 | **violation** of `NeverTakesSearchDown`: finding 3 |
| `cost_planner_lock_in` | 1 search, no reranker, shards that fit only the shrunk beam | 616 | **violation** of `NeverLockedIn`: finding 4 |
| `stale_validation` | the instance of `offline_study` | 131,800 | **violation** of `ValidationsAreFresh`: finding 5 |

The states of a violating run are those found up to the violation, roughly.

Why the bounds are enough. Three tasks are what one needs to lose its
compare-and-swap to each of two others; seven primaries fill and empty the
bucket. Two slots and two ticks rotate a slot while a recorder is between its
two reads of the clock. The int is 4 bits wide where wrapping is the subject and
a few units larger than the picks elsewhere. Two slices distinguish all, some
and none answering; two requests are what a bucket or a mark needs to be shared;
three replicas are what three attempts need to be distinct. In `fanout_shared`
only replica 1 is probed: a mark of replica 0 changes through calls alone, and
`fanout_single` probes two. With one replica down and two injected refusals a
slice is declared down after a refusal by a dead and a live replica, and after
two by live ones; replicas that die or hang while calls are on their way are in
`fanout_single`. Three records give a queue of two its overflow and a
file a successor that returns to the first hour. The four sets of estimates
make, against a deadline of 6, everything fit, only the reranker not fit, the
beam shrink, and only a lexical search fit. Two queries are a newest and an old
one. Three crashes reach a crash during the recovery of a recovery; two chunks
have a boundary; three steps have a validation that is and one that is not the
last. Blocks of two over five documents leave a block to skip and a last one
that is not full. A searcher with two queries meets its own late wake-ups, two
searchers share a thread of the pool, a beam of three gives a round reads for
both. Where a property has a theorem (section 5) the bounds only matter for the
model checking that preceded the proof.

What the properties say, by module:

- **HedgeBudget**: `ExtraLoadBounded` - counted hedges never exceed the
  configured fraction of counted primaries, at any instant;
  `ImplementsAtomicBudget`.
- **LatencyTracker**: `WindowIsCounted` - a sample counted outside a rotation is
  counted while its window lasts, and an answer is the asked quantile of the
  reader's own merge or of one fresh enough.
- **ShardFanOut**: `HedgeLoadBounded` (on calls really made),
  `AttemptsOnDistinctReplicas`, `OneReplicaCannotFailASlice`,
  `NoFalseSliceDown` (a slice is declared down only when each of its replicas has
  died, hung or itself refused a call with `UNAVAILABLE`, as fault injection
  makes a live one do; slow answers, application errors, deadlines that expire at
  either end and cancelled losers never take a replica out),
  `SlowPrimariesRecorded` (a primary that loses to
  its hedge still leaves its latency), `RequestsReturn`, `HealthConverges`.
- **EventLog**: the drain at shutdown writes into the open file whatever the
  hour, and a log that never opened a file loses its queue at a shutdown; the
  properties say where they stop.
- **SearchService**: a reranker that got the passages of only some slices leaves
  no step in the report; the code defines none, and `HonestReport` says so. The
  budget's steps are cumulative in `Plan` only: an encoder that is cut off after
  the plan drops dense retrieval and leaves the reranker on. `LatenessBounded`
  includes that a reranker leaves the estimated fetch before the deadline.
- **CostPlanner**: `LoadIsShed` - each search decides alone from the count it
  saw on arrival, and still no more rerank at once than the first threshold
  allows, and so on up; `DenseComesBack` - after a slow spell non-probing
  searches become dense again. The instance has one threshold; the proof of
  `LoadIsShed` covers any number. With a second threshold that is crossed
  whenever two searches overlap, `DenseComesBack` would not hold of the code, for
  the reason finding 4 gives.
- **WebClient**: `ShownIsNewest`, `InteractionsAreTold` - for every list that was
  shown, what was told of it is a whole story: its query, its clicks with the
  list's ranks, a dwell per click, an abandonment when there was no click, in
  that order, and nothing under another consent than it was logged under.
- **ShardServer**: `AnswersInBudget` - section 6 says where a call gets its
  remaining budget twice. **DiskSearch**: `DiskSearchIsSequential`.
  **LexicalSearch**: `PrunedSearchIsExact` - all strategies, complete or cut off.
- **OfflineJobs**: `MinedFromWholeFile` includes that READY stands for an
  encoded file. `JobsEnd` names what a crash can leave that no rerun repairs.
- The studies' properties are the conjunctions spelled out, with the source of
  each, above their definitions in `OfflineStudies`, `DataPreparation` and
  `FeatureCache`.

Deadlock checking is off where a system rightly stops (served searches, used
up requests, a stopped log, the bound on primaries, a finished study).

## 4. Fairness

- `ShardFanOut.FairSpec`: the runtime runs a task that can run; deadlines pass;
  calls end at their deadline or see their refusal; the monitor's loop keeps
  probing. Nothing makes a replica answer, crash or recover, and no timer has
  to fire before the deadline.
- `EventLog.FairSpec`: the reader runs while it can and `FlushAsync` polls.
  Producers, disk and host owe nothing.
- `CostPlanner.PlannerFairSpec`: searches keep coming. Each draws its probe bit anew
  (5% in the default options), so both outcomes come up again and again, and
  not every probing search is abandoned: these are the strong fairness
  conditions. `Age` waits for a finished probe: the assumption is traffic
  enough for a probe per half window. With less traffic the trackers simply run
  empty and priors rule.
- `OfflineJobs.FairSpec` (and `MCJobsAndShard.MCSpec`): the encoder and the
  trainer each take a next step, which includes being started again after a
  kill, as whoever watches the jobs does. In the sum these conditions leave
  `JobsEnd` a statement about the behaviours of the jobs.

## 5. Proofs

Checked by TLAPS for every value of the constants that the `ASSUME`s allow. They
state types and finiteness, that thresholds increase, that a slice has a replica
and a graph a medoid, that orders of an epoch are permutations, that a posting
list has a document and adds no negative score, that the studies' lists are
lists, judgments and runs finite and whole numbers, no run is named like an
oracle, that a mined query's scores are numbers of finitely many passages with
its positives among them, that a fused list's documents are distinct and in order
of score, that files keep two documents or more (`OUT_K`), that `Unit` is fine
enough to tell the shares of neighbouring ranks apart, as the code's floats do,
that depths, margins and limits are natural numbers and chunks not empty, that an experiment's requests are numbered through and its draws are not
negative, and, in `ShardFanOut`, that the round-robin counter stays below the end
of the int range, which is finding 1's subject. Each invariant was first checked
by TLC.

- **`HedgeBudgetProofs`**: `TypeCorrect`, `LoadBound`, `Refinement`. The bound
  is not inductive: between its increment and its deposit a task has counted a
  primary the bucket has not seen. The invariant relates balance, deposits and
  grants (`tokens + grants * Scale <= deposits * PerPrimary`), counts the tasks
  between two steps by cardinality, and says that a task about to take a token
  has read a balance that holds one, which its compare-and-swap then confirms.
  `EverySampleOfTheWindowIsCounted` is about the latency tracker. Its recorders'
  half (`InWindow`, `SlotsHold`, `Rotation`, `CountedKept`) says what a slot
  holds while one task clears it and others count; its readers' half (`Merge`,
  `Progress`, `Finds`, `Fresh`, `Stored`, `OfThisAsk`) follows a merge bucket by
  bucket and ties the cached answer to a merge of its own. It assumes that the
  bucket bounds are tight, a fact of the constants that TLC evaluates.
  The planner, `PlannerInvariant`, `PlannerTypesCorrect`, `SheddingHolds`, is in
  the same module, because it decides by what the trackers measure. It rests on
  the policy: `ChosenIsALevel` (a level is always chosen), `PlanIsHonest` (a
  plan's steps name exactly what it drops, once) and `PlanShedsLoad` (a plan that
  reranks, keeps the full beam or stays dense saw no more in flight than the
  threshold of that level). What a search saw on arrival is stale when its plan is
  used, so the bound on what runs at once is not inductive. `ArrivalsCounted`
  is: for every n, at most n of the running searches saw at most n in flight,
  because the last of them to arrive counted the others. `Shed` then ties each
  plan to the load its search saw.
- **`ShardFanOutProofs`** has three parts.
  *The fan-out*: `TypeCorrect`, `HedgeBound`, `DistinctReplicas`, `NoFalseDown`,
  `TwoReplicasFail`, `SlowOnesLeaveSamples`. `NoFalseDown` needs where marks come
  from: a refusal still on its way, a probe's answer and a mark are all evidence
  of a replica that once died or hung, or refused a call while it lived
  (`Blamed`). The last two are action
  properties and need what a running request has heard of its attempts
  (`Steady`). A pick is a replica by a least-element lemma over the scan.
  *The shard's server*: `CallsAnswerInBudget`, from `ServerInv`: what the fault
  injection has read is what the file said at most its interval ago (`ChaosInv`),
  a sleep ends when it said (`CallInv`), a half's deadline is within what was
  left when its turn came (`HalfInv`, `LateInv`), an answer is partial because a
  half's time passed (`Partial`).
  *The disk searches*: `SearchesAreSequential`, from `DiskInv`: the completion
  counter is the number of reads that are outstanding, in the queue or in a
  thread's hands, counted by cardinality through every bijection a step makes
  (`PoolInv`); every slot of a round holds its own record, is still to be read,
  or has failed; and the beam is the lone query's after as many rounds
  (`RoundOf`). It follows that the last to count down either finds the query
  awake or is about to wake it, and that a thread's late `notify_all`, which may
  hit its next query, only makes it look again. That the frontier's nodes, in
  the order of the beam, are a sequence without repetitions rests on
  `AheadOrders`; that `Alone` is one beam per round on a least counterexample.
- **`SearchJourneyProofs`**: `PlanIsHonest` again, about the same policy in the
  module of the whole search; then for the broker `TypeCorrect`, `ReportIsHonest`,
  `NoArmWithoutAList`, `NeverLaterThanSnippets`, `OnlyWhatRanIsMeasured`,
  `PagesAreInOrder`, from one invariant (`SearchInvariant`) whose parts say what a
  stage may rely on: what plan and encoder decided, the cascade's progress, how
  late a stage may start, samples, the report at every stage and not only on the
  page, pages. For the browser `PageShowsTheNewest`, from what the newest run
  alone may do (`HookInv`, `Owed`), and `WhatTheUserDidIsTold`: the tracker's and
  the logger's memory agree with every list's story so far (`Going`, `Sends`),
  and lists come to the page in one order (`Rank`, `Reached`), so that a list
  that was left is not told of again. `Sends` holds that a queue stays below
  `flushAt`, hence that a flush is one batch and needs no second look at the
  consent.
- **`EventLogProofs`**: `TypeCorrect`, `FilesAreInOrder`, `NothingIsLost`,
  `ShutdownIsClean`, `FlushCoversTheCounted`. The channel's history has no
  repetitions and the queue is its end; everything else is at positions up to
  `Settled`; a file's records and then the writer's memory are in the history's
  order, and under their hour until the log shuts down; with a working disk each
  record taken is in one place. `Opened` and `Durable` add what a shutdown can
  count on, `Promise` what a flush has promised.
- **`LexicalSearchProofs`**: `PruningIsSafe`, for any posting lists, scores, k,
  slack and block size, and all five algorithms. The property itself is not
  inductive: nothing in it says why the documents that are behind one cursor and
  ahead of another cannot get in. `LexicalInvariant` adds that per algorithm.
  Document at a time, what one cursor has passed all have (`DaatInvariant`).
  MaxScore: the lists before the partition cannot beat the heap even together,
  the others have passed the same documents, no hit is ahead of a cursor and
  the block pointers trail theirs (`MaxScoreInvariant`; `NonEssential` is what
  follows for a document that only the former hold). WAND, with and without
  block bounds: the lists are sorted, a document that some list has passed and
  another has not cannot beat the heap (`NoneMissed`), nor can one that only a
  block pointer has passed (`Pointed`), which matters because `next_geq` looks
  from the pointer on; `Hopeless` says that nothing before the pivot can get in,
  `SkipFacts` that a skip ends with the pivot's blocks or at the next list. Two
  lemmas turn this into the heap: passing documents that cannot beat it leaves
  the best k of the passed as they are (`PassWorthless`), and the same around one
  that is scored (`PassScored`); ties go to the lower document, which is why
  they need that the hits come before what is passed over. The bounds are
  sums: `SumInto` compares two, over different sets, through an injection. The
  scores are whole numbers here too: `kBoundSlack` is outside the theorem.
- **`OfflineJobsProofs`**: `JobsInvariant`, `OneHolder`, `MinedFromTheFile`,
  `ResumedRunsReplay`, `TheBestIsJudged`. Who holds the lock, how far the vectors
  are, row by row in memory, file and log, and what is mined, at every step a
  kill or a reboot may fall on; then, for the training, that every model, in
  memory, in a checkpoint and in best/, is the one its steps make, its history
  names the validated steps without a gap, and a checkpoint is never ahead of
  its run (`DirInv`, `ModelInv`, `AheadInv`, `ResultInv`). That every query is
  dealt equally often up to one is a counting argument over the slots of an
  epoch, which is a permutation.
- **`OfflineStudiesProofs`**: `DataInvariant` and `ReadyIsFinal` (what each file
  may hold at each step of the chain), `CacheInvariant` and
  `VectorsStayWithTheirIds` (the two files of the cache and the run in between,
  including one that ends with an error: lengths are kept, and the lock is given
  back if its owner had written its name; a run that is killed, or fails while it
  writes its name, leaves the lock).
  *The sensitivity study*: `StudyInvariant` and `StudyIsAsFresh`. A file of the
  cache is torn or `Genuine`. Of a pool, a cell and an A/A test that means that every study that
  asks for its key, this one or a later one with other inputs, would compute what
  is in it, because what goes into a computation is in its key (`SameKey`,
  `SameArgumentsDo`). Of a validation it means less: some study with the same
  job, trials, seed and team-draft N80 would (`AlikeFor`), which is all that its
  key says; that it need not be this study is finding 5. The results
  of a run are those of its plan's first jobs, whatever was loaded, computed or
  torn (`PlanKept`), and a validation comes after the cell it is about
  (`Planned`), so that its key is known when it is its turn. That only rankers of one world are
  compared, over one topic set, is followed from the runs that were found
  through the table, the order by quality and the choice of pairs to the plan
  (`RankersAre`, `TableIs`, `ByQualityIs`, `PairsAre`, `JobsAre`, `PlansAre`).
  *The experiments' log*: `LogInvariant` and `LogsAreReported`. What is served is
  known by its request, clicked only where there is a document, and has no team
  or one for each document (`PageIsServedWell`, by the turns of a draft and the
  scan of a simulated user). The analyser's pages are then a function of what was
  served and of the set of events that arrived (`ParsedLog`): one more event, new
  or known, changes a page as it changes that set (`LogGrows`), so neither
  order nor repetition shows. Clicks are credited by position, among the ranks
  that arrived in increasing order; that this is the credit by rank is a
  bijection (`CreditFollowsLog`). When everything has arrived the pages are those
  that were served (`CompleteLog`), and so is every number computed from them.
  *The reranker's data and the fusion study*: `MiningInvariant` and
  `TrainingIsClean`, `FusionInvariant` and `FusionIsAsReported`, from the lemmas of
  the next module.
- **`RankingProofs`**: no state. A sort is a `Listing` of a total order, there
  is only one of it (`OneListing`), and the sorts of `Evaluation` are listings
  (`SortedLists`, `RunIsRanked`), which is what everything about rankings is
  followed from. The search by chunks is exact (`SearchFinds`): a row that chunk
  and heap have both seen and let go has k others at or above it, however ties at
  a cut fall (`Crowded`, `Merged`), along the recursion over the chunks. What is
  mined and drawn is clean (`MinedIsClean`, `GroupsAreClean`). The batches follow
  each other to the end (`BatchesFollow`), so that joined slices are the list and
  scattering them undoes the sort by length (`ScatteredIs`); therefore scored
  pairs carry their own model's score, and a rerank, a validation and a cascade
  come to one ranking per query by the model's scores (`RerankIs`,
  `ValidationIsEvaluation`, `CascadeRanks`), whose measures are then compared
  (`RerankingCompares`, `CascadeCompares`).
  Then the fusion study. The vectorised fusion lists the same rows with the same
  scores as the reference (`FastIsReference`, `NoMismatches`); a file's printed
  scores fall from line to line, so that it sorts back into the list it was
  written from (`WrittenFalls`, `FilesReproduce`), and what a metric makes of the
  file is what it made of the list (`MetricOfTop`, `SweptIsReported`). That no
  document passes one that both lists have above it is followed from what a share
  and a weighted score are and that both fall with the rank (`ScoredAbove`,
  `DominanceIs`). Holm's
  correction unfolds to the sequential rule (`HolmRejects`), and the
  randomization test keeps its level by a bijection of the sign flips
  (`FlipOfFlip`, `RandomizationHolds`). `StudyReports` puts them together for the
  systems that are tuned (`SystemsAre`, `FamilyIs`).

Induction. The library's induction theorems take an operator as a parameter,
which the installed provers cannot instantiate. Where a definition is a recursive
function over numbers, an argument from the least counterexample to one concrete
statement does it instead (`LeastElement`, from well-foundedness of `<`): the
round-robin scan, `Alone` and the sums of the lexical search
(`SumFunctionOnSet`, by a smallest subset that is a counterexample) are proved
about so. That a recursive definition has a value at all (a click scan, a team
draft, a filter) is shown in the same way, as are that the sums of the studies'
metrics are numbers, and that a flattened or filtered sequence has its elements
in order. No prover here has the
definitions of `SelectSeq`, `SortSeq`, `:>` and `@@` in a form it can use, which
is why the studies filter by `Where`, sort by `Ordered` as written in
`Evaluation`, and write their records and functions out.

What each theorem speaks of: the broker's theorems are about
`SearchService.Spec` and the browser's about `SearchJourney.JourneySpec`; the
budget's, the tracker's, the planner's, the cache's, the data chain's, the
server's, the disk's and the lexical search's are about `BucketSpec`,
`TrackerSpec`, `PlannerSpec`, `FeatureSpec`, `DataSpec`, `ServerSpec`, `DiskSpec`
and `LexicalSpec`; except for the planner's, the runs explore sums of these. The
sensitivity study's, the log's, the mining's and the fusion study's are about
`OfflineStudies.Spec`.

Only model-checked:

- all liveness: `RequestsReturn`, `HealthConverges`, `FlushTargetIsReached`,
  `DenseComesBack`, `JobsEnd` (liveness under fairness and `ENABLED`
  are out of the prover's reach);
- two of the studies: `InterleavingIsFair`, `LtrIsUnbiased`. They say what sums
  and folds over data come to, which would need an induction per fold. TLC
  evaluates them over all small inputs.

## 6. Findings

Shown by runs:

1. `round_robin_wrap`: after 2^31 picks the scan `(start + i) % n` wraps to a
   negative index with three or more replicas and the first choice unhealthy
   (`ShardTopology.cs:104`).
2. `event_log_flush`: `FlushAsync` may return while a record enqueued before
   the call is unwritten, because `TryEnqueue` counts after it publishes
   (`EventLog.cs:167`).
3. `event_log_disk_full`: a full disk is noticed by the unguarded flush or
   rotation, and the exception stops the host, which a comment says must never
   happen (`EventLog.cs:225`).
4. `cost_planner_lock_in`: probes measure the full beam only; where only the
   shrunk beam fits, the planner can stay lexical-only (`Degradation.cs:91`).
5. `stale_validation`: the cache of the sensitivity study is said to be "keyed by
   every input" (`m9_sensitivity.py:44`), but the key of a validation (276) has
   neither the lists nor the A/B N80s that its value is made of (282-298). When
   the runs change and the N80 of team draft does not, which is so whenever it is
   never reached, a rerun reports the old lists' validation beside new cells.

Met while modelling; no run is about them.

Engine and broker:

- `disk_index.cc:144-148` says the completion counters must outlive the query,
  but they are `thread_local` (301), and with `parallel_retrieval` (the default)
  the vector half runs on a `std::async` thread (`shard_service.cc:217`) whose
  thread-locals end with the query: a worker may still be in `notify_all` on
  them. `DiskSearch` keeps a querying thread, and shows the rest of the protocol
  right for it.
- `shard_service.hpp` says both halves run "under one deadline"; with
  `--sequential-retrieval` the vector half's deadline starts when the lexical
  half has ended, so a search may use its remaining budget twice. `Allowed` says
  so.
- A vector search says partial even when the deadline passes after its last
  round; WAND looks at the clock before it notices that it is through.
- A disk read error of the vector half throws the finished lexical hits away.
- `BucketUpper` under-reports above 2^26 us (documented as "up to ~67 s"). A
  recorder suspended for a whole window could put an old epoch back; the model's
  clock guard excludes that. Callers with different `minSamples` share a cached
  count; the instance has one.
- Under fault injection a slice is declared down with all of its replicas alive,
  once each has refused a call since its last probe.

Web:

- `EventLogger.flush` looks at the consent once, before its first batch, and would
  post a second one after an await in which the user may have opted out. There is
  never a second batch: a queue is sent as soon as it has `flushAt` events, which
  is a batch at most (`Sends`, section 5).
- Coming back through the browser's cache logs `query` twice for one list
  (`interactions.ts:4` "logged once").
- A click on a lexical-phase list settles it, so clicks at lexical ranks share
  the final list's request id (`SearchPage.tsx:183`).
- Changing the mode of an unsettled final list settles the old list at that
  moment, which logs it as a query and its abandonment (`SearchPage.tsx:119-132`).
- A stream that fails after its final list shows an error over it
  (`useSearch.ts:118-137`).

Offline jobs:

- A crash between `open(partial, "wb")` and `truncate` (`encode.py:202-204`),
  between `mkdir` and the owner file (144-145), or between `unlink` and `rmdir`
  (150-152) leaves what no later run repairs; a dead trainer's or feature run's
  lock is never broken. `posVecs` without pids (`mine.py:191`), mined data
  without statistics (347) and a checkpoint's state without weights
  (`train.py:298`) are the others. `JobsEnd` excludes exactly these.
- A finished run that dropped its optimizer is trained again when it is run
  again; `rerank_eval` keeps stale results; the statistics' counts are too low
  after a crash.
- `mine.py:92` says "ties by lower row id", but `argpartition` (103) keeps an
  arbitrary choice among ties at a chunk's cut. The sampler's "exactly n_neg"
  fails when the random pool is short.
- `data_download.sh` never fetches a torn download again, so `prepare` fails on
  its MD5 for ever; the subset's READY stays while the files under it are
  rewritten.

Studies:

- No key of the sensitivity study's cache has the judgments (one constant in the
  model, so that finding 5 is shown without them). Its cells and the feature
  cache's files are written in place, so a torn file fails every later run.
- `dense_feature.py:62-63` makes the lock and writes its owner's name before the
  `try` whose `finally` gives it back (68): a run that finds no room for the name
  ends with the lock left behind. `VectorsFitTheirIds` promises the lock back
  only from the name on.
- `m4_fusion.py:415` writes "36-comparison" although the family has 24 when the
  best k is 60.
- `text.py:28` claims the evaluator's tie order and has another (numbers
  ascending against strings descending); `rerank_run.py` orders ties ascending
  and the evaluator descending, and saves first-stage scores as float32, so a
  cascade of depth 0 may break ties otherwise than one of depth 1.
- `logsim.py:183` gives NaN when rank 1 has no support; ranks not tied to rank 1
  get minimum-norm values (274).
- `read_events` raises on a torn last line; an experiment without its
  configuration is taken for an A/B test when its team events are lost; the A/B
  report counts clicks without an impression and the interleaving credit drops
  them.
- `m9_ltr --dense-source runs` silently falls back to the full collection (89);
  with only one lexical and one dense run no fused ranker is built.

## 7. What is not modelled

- Broker: `FetchAsync` and `GetDocAsync`, the fake shard, request parsing,
  options, metrics, tracing, autocomplete; fusion, interleaving and hashing in C#
  (their Python counterparts are modelled, and golden files compare the two);
  the tracker's `Count` (the quantile's merge); the ONNX runtime, whose
  availability, failure and cut-off are inputs of the pipeline's model.
- Engine: float slack of the lexical bounds, explanations, decoding; product
  quantization and the in-memory graph; index builds; spurious wake-ups of
  `wait`; a shard's fetch and health; parsing the control file. Calls of a shard
  share only `Chaos` behind its lock: one at a time is modelled.
- Web: the URL, suggestions, rendering, the other pages.
- Python: optimiser, loss and gradient steps, z-scores, bootstrap, feature
  scaling, tokenizing, plots and wording; two encoders at once (the shell script
  starts one); several topics in `build_pair`; two concurrent users of the
  feature cache; a second encoder that breaks a stale lock while the first does
  (`encode.py:150`); the export, parity and bench tools.
- Deployment, load and chaos scripts.
- gRPC, channels, files, the browser and the host are external: they are
  modelled only by how the code uses them.

## 8. Plan

Done: the broker, the client's search and interactions, a shard's search, the
jobs and the studies, with proofs of every safety property but those listed as
only model-checked. Left, in this order:

1. The counting lemmas under the studies (drafts, credit, tie orders) as theorems
   about operators.
2. `FetchAsync` beside `ShardFanOut`'s search; concurrent calls of a shard.
