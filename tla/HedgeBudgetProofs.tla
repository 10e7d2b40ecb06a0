-------------------------- MODULE HedgeBudgetProofs --------------------------
(***************************************************************************)
(* What the hedging of the broker rests on.  The hedge budget, for any      *)
(* number of tasks and any configuration: the load bound holds at every     *)
(* instant, and the compare-and-swap loops implement an atomic token        *)
(* bucket.  The latency tracker, for any number of tasks, slots and         *)
(* buckets: the window's samples are counted and its quantiles are theirs.  *)
(* The planner, which decides what those times allow: load shedding holds   *)
(* for the searches together, for any number of them, any thresholds,       *)
(* estimates and latencies, probes included.                                *)
(***************************************************************************)
EXTENDS HedgeBudget, LatencyTracker, CostPlanner, FiniteSetTheorems, WellFoundedInduction, TLAPS

\* Tasks that have counted their primary but not deposited yet, and tasks that
\* hold a token but have not counted their hedge yet.
Depositing == {t \in Tasks : pc[t] \in {"onPrimary", "depositCas"}}
Holding    == {t \in Tasks : pc[t] = "granted"}

\* The balance never exceeds what was deposited and not spent; the public
\* counters lag behind the bucket by the tasks between two steps; and a task
\* about to take a token has read a balance that holds one.
Balance  == tokens + grants * Scale <= deposits * PerPrimary
Counted  == nPrimaries = deposits + Cardinality(Depositing)
Spent    == grants = nHedges + Cardinality(Holding)
ReadGood == \A t \in Tasks : pc[t] = "acquireCas" => cur[t] >= Scale

IInv == BucketTypes /\ Balance /\ Counted /\ Spent /\ ReadGood

-----------------------------------------------------------------------------
\* The balance after a deposit stays in the bucket and grows by no more than
\* the deposit.
LEMMA ToppedBounds ==
    ASSUME NEW c \in 0 .. Cap
    PROVE  /\ Topped(c) \in 0 .. Cap
           /\ Topped(c) <= c + PerPrimary
  BY BudgetAssumption DEF Topped

\* Counting a task that moves into, or out of, a set of tasks.
LEMMA MoveIn ==
    ASSUME NEW S \in SUBSET Tasks, NEW t \in Tasks, t \notin S
    PROVE  /\ Cardinality(S) \in Nat
           /\ Cardinality(S \cup {t}) = Cardinality(S) + 1
  BY TasksAssumption, FS_Subset, FS_CardinalityType, FS_AddElement

LEMMA MoveOut ==
    ASSUME NEW S \in SUBSET Tasks, NEW t \in S
    PROVE  /\ Cardinality(S) \in Nat
           /\ Cardinality(S \ {t}) = Cardinality(S) - 1
  BY TasksAssumption, FS_Subset, FS_CardinalityType, FS_RemoveElement

\* The counts are natural numbers.
LEMMA CountsAreNat == Cardinality(Depositing) \in Nat /\ Cardinality(Holding) \in Nat
<1>1. Depositing \subseteq Tasks /\ Holding \subseteq Tasks
  BY DEF Depositing, Holding
<1>2. QED
  BY <1>1, TasksAssumption, FS_Subset, FS_CardinalityType

-----------------------------------------------------------------------------
LEMMA InitIInv == BucketInit => IInv
<1> SUFFICES ASSUME BucketInit PROVE IInv
  OBVIOUS
<1>1. BucketTypes
  BY BudgetAssumption DEF BucketInit, BucketTypes
<1>2. Depositing = {} /\ Holding = {}
  BY DEF BucketInit, Depositing, Holding
<1>3. Cardinality(Depositing) = 0 /\ Cardinality(Holding) = 0
  BY <1>2, FS_EmptySet
<1>4. Balance /\ Counted /\ Spent /\ ReadGood
  BY <1>3, BudgetAssumption DEF BucketInit, Balance, Counted, Spent, ReadGood
<1>5. QED
  BY <1>1, <1>4 DEF IInv

\* One step of one task, with the part of the invariant each conjunct needs.
LEMMA CountPrimaryKeeps ==
    ASSUME IInv, NEW t \in Tasks, CountPrimary(t) PROVE IInv'
<1> USE DEF IInv, BucketTypes, CountPrimary, Goto
<1>1. BucketTypes'
  OBVIOUS
<1>2. t \notin Depositing /\ Depositing' = Depositing \cup {t} /\ Holding' = Holding
  BY DEF Depositing, Holding
<1>3. Cardinality(Depositing') = Cardinality(Depositing) + 1
  BY <1>2, MoveIn, Depositing \subseteq Tasks DEF Depositing
<1>4. Balance' /\ Counted' /\ Spent' /\ ReadGood'
  BY <1>2, <1>3, CountsAreNat DEF Balance, Counted, Spent, ReadGood
<1>5. QED
  BY <1>1, <1>4

LEMMA DepositReadKeeps ==
    ASSUME IInv, NEW t \in Tasks, DepositRead(t) PROVE IInv'
<1> USE BudgetAssumption DEF IInv, BucketTypes, DepositRead, ReadTokens
<1>1. BucketTypes'
  OBVIOUS
<1>2. t \in Depositing /\ Holding' = Holding
  BY DEF Depositing, Holding
<1>3. ReadGood' /\ Spent'
  BY <1>2 DEF ReadGood, Spent
<1>4. CASE Topped(tokens) = tokens
  <2>1. Depositing' = Depositing \ {t}
    BY <1>4 DEF Depositing
  <2>2. Cardinality(Depositing') = Cardinality(Depositing) - 1
    BY <1>2, <2>1, MoveOut DEF Depositing
  <2>3. Counted'
    BY <1>4, <2>2, CountsAreNat DEF Counted
  <2>4. Balance'
    BY <1>4 DEF Balance
  <2>5. QED
    BY <1>1, <1>3, <2>3, <2>4
<1>5. CASE Topped(tokens) # tokens
  <2>1. Depositing' = Depositing
    BY <1>5 DEF Depositing
  <2>2. Counted' /\ Balance'
    BY <1>5, <2>1 DEF Counted, Balance
  <2>3. QED
    BY <1>1, <1>3, <2>2
<1>6. QED
  BY <1>4, <1>5

LEMMA DepositCasKeeps ==
    ASSUME IInv, NEW t \in Tasks, DepositCas(t) PROVE IInv'
<1> USE BudgetAssumption DEF IInv, BucketTypes, DepositCas
<1>1. BucketTypes'
  BY ToppedBounds
<1>2. t \in Depositing /\ Holding' = Holding
  BY DEF Depositing, Holding
<1>3. ReadGood' /\ Spent'
  BY <1>2 DEF ReadGood, Spent
<1>4. CASE tokens = cur[t]
  <2>1. Depositing' = Depositing \ {t}
    BY <1>4 DEF Depositing
  <2>2. Cardinality(Depositing') = Cardinality(Depositing) - 1
    BY <1>2, <2>1, MoveOut DEF Depositing
  <2>3. Counted'
    BY <1>4, <2>2, CountsAreNat DEF Counted
  <2>4. tokens' <= tokens + PerPrimary /\ tokens' \in Int
    BY <1>4, ToppedBounds
  <2>5. Balance'
    BY <1>4, <2>4 DEF Balance
  <2>6. QED
    BY <1>1, <1>3, <2>3, <2>5
<1>5. CASE tokens # cur[t]
  <2>1. Depositing' = Depositing
    BY <1>5 DEF Depositing
  <2>2. Counted' /\ Balance'
    BY <1>5, <2>1 DEF Counted, Balance
  <2>3. QED
    BY <1>1, <1>3, <2>2
<1>6. QED
  BY <1>4, <1>5

LEMMA AcquireReadKeeps ==
    ASSUME IInv, NEW t \in Tasks, AcquireRead(t) PROVE IInv'
<1> USE BudgetAssumption DEF IInv, BucketTypes, AcquireRead, ReadTokens
<1>1. BucketTypes'
  OBVIOUS
<1>2. Depositing' = Depositing /\ Holding' = Holding
  BY DEF Depositing, Holding
<1>3. Balance' /\ Counted' /\ Spent' /\ ReadGood'
  BY <1>2 DEF Balance, Counted, Spent, ReadGood
<1>4. QED
  BY <1>1, <1>3

LEMMA AcquireCasKeeps ==
    ASSUME IInv, NEW t \in Tasks, AcquireCas(t) PROVE IInv'
<1> USE BudgetAssumption DEF IInv, BucketTypes, AcquireCas
<1>1. cur[t] >= Scale
  BY DEF ReadGood
<1>2. BucketTypes'
  BY <1>1
<1>3. Depositing' = Depositing /\ t \notin Holding
  BY DEF Depositing, Holding
<1>4. Counted' /\ ReadGood'
  BY <1>3 DEF Counted, ReadGood
<1>5. CASE tokens = cur[t]
  <2>1. Holding' = Holding \cup {t}
    BY <1>5 DEF Holding
  <2>2. Cardinality(Holding') = Cardinality(Holding) + 1
    BY <1>3, <2>1, MoveIn DEF Holding
  <2>3. Spent'
    BY <1>5, <2>2, CountsAreNat DEF Spent
  <2>4. Balance'
    BY <1>5 DEF Balance
  <2>5. QED
    BY <1>2, <1>4, <2>3, <2>4
<1>6. CASE tokens # cur[t]
  <2>1. Holding' = Holding
    BY <1>6 DEF Holding
  <2>2. Spent' /\ Balance'
    BY <1>6, <2>1 DEF Spent, Balance
  <2>3. QED
    BY <1>2, <1>4, <2>2
<1>7. QED
  BY <1>5, <1>6

LEMMA CountHedgeKeeps ==
    ASSUME IInv, NEW t \in Tasks, CountHedge(t) PROVE IInv'
<1> USE DEF IInv, BucketTypes, CountHedge, Goto
<1>1. BucketTypes'
  OBVIOUS
<1>2. t \in Holding /\ Holding' = Holding \ {t} /\ Depositing' = Depositing
  BY DEF Depositing, Holding
<1>3. Cardinality(Holding') = Cardinality(Holding) - 1
  BY <1>2, MoveOut DEF Holding
<1>4. Balance' /\ Counted' /\ Spent' /\ ReadGood'
  BY <1>2, <1>3, CountsAreNat DEF Balance, Counted, Spent, ReadGood
<1>5. QED
  BY <1>1, <1>4

LEMMA NoHedgeKeeps ==
    ASSUME IInv, NEW t \in Tasks, NoHedge(t) PROVE IInv'
<1> USE DEF IInv, BucketTypes, NoHedge, Goto
<1>1. BucketTypes'
  OBVIOUS
<1>2. Depositing' = Depositing /\ Holding' = Holding
  BY DEF Depositing, Holding
<1>3. Balance' /\ Counted' /\ Spent' /\ ReadGood'
  BY <1>2 DEF Balance, Counted, Spent, ReadGood
<1>4. QED
  BY <1>1, <1>3

LEMMA NextIInv == IInv /\ [BucketNext]_bucketVars => IInv'
<1> SUFFICES ASSUME IInv, [BucketNext]_bucketVars PROVE IInv'
  OBVIOUS
<1>1. CASE UNCHANGED bucketVars
  <2>1. BucketTypes'
    BY <1>1 DEF IInv, BucketTypes, bucketVars
  <2>2. Balance' /\ Counted' /\ Spent' /\ ReadGood'
    BY <1>1 DEF IInv, Balance, Counted, Spent, ReadGood, Depositing, Holding, bucketVars
  <2>3. QED
    BY <2>1, <2>2 DEF IInv
<1>2. CASE BucketNext
  BY <1>2, CountPrimaryKeeps, DepositReadKeeps, DepositCasKeeps, NoHedgeKeeps,
     AcquireReadKeeps, AcquireCasKeeps, CountHedgeKeeps DEF BucketNext
<1>3. QED
  BY <1>1, <1>2

THEOREM InductiveInvariant == BucketSpec => []IInv
  BY InitIInv, NextIInv, PTL DEF BucketSpec

-----------------------------------------------------------------------------
\* The balance stays within the bucket and every variable keeps its type
\* (HedgeBudget in Shards/LatencyTracker.cs, whatever ratio and burst are).
THEOREM TypeCorrect == BucketSpec => []BucketTypes
<1>1. IInv => BucketTypes
  BY DEF IInv
<1>2. QED
  BY <1>1, InductiveInvariant, PTL

\* "At every instant hedges <= ratio x primaries" (HedgeBudget's summary), for
\* any number of concurrent requests and any ratio and burst.
THEOREM LoadBound == BucketSpec => []ExtraLoadBounded
<1>1. IInv => ExtraLoadBounded
  <2> SUFFICES ASSUME IInv PROVE ExtraLoadBounded
    OBVIOUS
  <2> USE BudgetAssumption DEF IInv, BucketTypes
  <2>1. nHedges <= grants /\ deposits <= nPrimaries
    BY CountsAreNat DEF Counted, Spent
  <2>2. nHedges * Scale <= grants * Scale
    BY <2>1
  <2>3. grants * Scale <= deposits * PerPrimary
    BY DEF Balance
  <2>4. deposits * PerPrimary <= nPrimaries * PerPrimary
    BY <2>1
  <2>5. QED
    BY <2>2, <2>3, <2>4 DEF ExtraLoadBounded
<1>2. QED
  BY <1>1, InductiveInvariant, PTL

\* Every step of the loops is a deposit, a grant or nothing of the atomic
\* bucket: no update of another task is lost between a read and its CAS.
LEMMA StepRefines == IInv /\ [BucketNext]_bucketVars => [Atomic!BudgetNext]_(Atomic!budgetVars)
<1> SUFFICES ASSUME IInv, [BucketNext]_bucketVars PROVE [Atomic!BudgetNext]_(Atomic!budgetVars)
  OBVIOUS
<1> USE BudgetAssumption DEF IInv, BucketTypes, Atomic!BudgetNext, Atomic!budgetVars
<1>1. ASSUME NEW t \in Tasks, DepositRead(t) PROVE Atomic!OnPrimary \/ UNCHANGED Atomic!budgetVars
  BY <1>1 DEF DepositRead, Topped, Atomic!OnPrimary, Atomic!AfterDeposit
<1>2. ASSUME NEW t \in Tasks, DepositCas(t) PROVE Atomic!OnPrimary \/ UNCHANGED Atomic!budgetVars
  BY <1>2 DEF DepositCas, Topped, Atomic!OnPrimary, Atomic!AfterDeposit
<1>3. ASSUME NEW t \in Tasks, AcquireCas(t) PROVE Atomic!Acquire \/ UNCHANGED Atomic!budgetVars
  BY <1>3 DEF AcquireCas, ReadGood, Atomic!Acquire
<1>4. ASSUME NEW t \in Tasks, CountPrimary(t) \/ NoHedge(t) \/ AcquireRead(t) \/ CountHedge(t)
      PROVE  UNCHANGED Atomic!budgetVars
  BY <1>4 DEF CountPrimary, NoHedge, AcquireRead, CountHedge
<1>5. CASE UNCHANGED bucketVars
  BY <1>5 DEF bucketVars
<1>6. QED
  BY <1>1, <1>2, <1>3, <1>4, <1>5 DEF BucketNext

THEOREM Refinement == BucketSpec => ImplementsAtomicBudget
<1>1. BucketInit => Atomic!BudgetInit
  BY DEF BucketInit, Atomic!BudgetInit
<1>2. QED
  BY <1>1, StepRefines, InductiveInvariant, PTL
     DEF BucketSpec, ImplementsAtomicBudget, Atomic!BudgetSpec

-----------------------------------------------------------------------------
(* The latency tracker: sub-windows and slots. *)

\* A sub-window has a number.
LEMMA EpochIsNat == ASSUME NEW t \in Nat PROVE Epoch(t) \in Nat
  BY SlotsAssumption DEF Epoch

\* The sub-windows' numbers grow with time.
LEMMA EpochGrows == ASSUME NEW t \in Nat PROVE Epoch(t) <= Epoch(t + 1)
<1> DEFINE a == t \div SlotTicks
           b == (t + 1) \div SlotTicks
<1>1. SlotTicks \in Nat /\ SlotTicks > 0
  BY SlotsAssumption
<1>2. a \in Nat /\ b \in Nat
  BY <1>1
<1>3. SlotTicks * a <= t /\ t + 1 < SlotTicks * (b + 1)
  BY <1>1
<1>4. a <= b
  <2>1. SUFFICES ASSUME a >= b + 1 PROVE FALSE
    BY <1>2
  <2> HIDE DEF a, b
  <2>2. SlotTicks * a >= SlotTicks * (b + 1)
    BY <1>1, <1>2, <2>1
  <2>3. SlotTicks * a \in Nat /\ SlotTicks * (b + 1) \in Nat
    BY <1>1, <1>2
  <2>4. QED
    BY <1>3, <2>2, <2>3
<1>5. QED
  BY <1>4 DEF Epoch

\* Every sub-window has a slot.
LEMMA SlotIsSlot == ASSUME NEW e \in Nat PROVE SlotOf(e) \in 0 .. Slots - 1
  BY SlotsAssumption DEF SlotOf

\* Two sub-windows of one window do not share a slot.
LEMMA SlotsApart ==
    ASSUME NEW a \in Nat, NEW b \in Nat, SlotOf(a) = SlotOf(b), a < b + Slots, b < a + Slots
    PROVE  a = b
<1> DEFINE m == a \div Slots
           n == b \div Slots
<1>1. Slots \in Nat /\ Slots > 0
  BY SlotsAssumption
<1>2. m \in Nat /\ n \in Nat /\ a = Slots * m + SlotOf(a) /\ b = Slots * n + SlotOf(b)
  BY <1>1 DEF SlotOf
<1>3. SlotOf(a) \in Nat
  BY SlotIsSlot
<1> HIDE DEF m, n
<1>4. CASE m >= n + 1
  <2>1. Slots * m >= Slots * n + Slots
    BY <1>1, <1>2, <1>4
  <2>2. QED
    BY <1>1, <1>2, <1>3, <2>1
<1>5. CASE n >= m + 1
  <2>1. Slots * n >= Slots * m + Slots
    BY <1>1, <1>2, <1>5
  <2>2. QED
    BY <1>1, <1>2, <1>3, <2>1
<1>6. CASE m = n
  BY <1>2, <1>6
<1>7. QED
  BY <1>2, <1>4, <1>5, <1>6

-----------------------------------------------------------------------------
(* The recorders. *)

SampleRecords == [n : Nat, epoch : Nat, bucket : 1 .. Levels]

RecorderTypes ==
    /\ clock \in Nat
    /\ epochs \in [0 .. Slots - 1 -> Nat \cup {-1}]
    /\ counts \in [0 .. Slots - 1 -> SUBSET SampleRecords]
    /\ recorder \in [Recorders -> [at : {"idle", "epoch", "claim", "clear", "count"}, sample : SampleRecords,
                                   seen : Nat \cup {-1}, left : SUBSET (1 .. Levels)]]
    /\ recorded \in SUBSET SampleRecords /\ IsFiniteSet(recorded)
    /\ \A s \in 0 .. Slots - 1 : IsFiniteSet(counts[s])

\* No task is a whole window behind.
InWindow ==
    \A r \in Recorders : recorder[r].at # "idle" =>
        /\ recorder[r].sample.epoch <= Epoch(clock)
        /\ Epoch(clock) < recorder[r].sample.epoch + Slots

\* A slot holds its own sub-window's samples, or is being cleared of others.
SlotsHold ==
    \A s \in 0 .. Slots - 1 :
        /\ epochs[s] >= 0 => SlotOf(epochs[s]) = s /\ epochs[s] <= Epoch(clock)
        /\ \A x \in counts[s] : SlotOf(x.epoch) = s /\ (~Clearing(s) => x.epoch = epochs[s])

\* One recorder at most rotates a slot, and a slot rotates forward only.
Rotates(r) ==
    /\ recorder[r].at = "claim" =>
          /\ recorder[r].seen # recorder[r].sample.epoch
          /\ epochs[Spot(r)] \in {recorder[r].seen, recorder[r].sample.epoch}
    /\ recorder[r].at \in {"clear", "count"} => epochs[Spot(r)] = recorder[r].sample.epoch
    /\ recorder[r].at = "clear" =>
          /\ \A x \in counts[Spot(r)] :
                 x.epoch = recorder[r].sample.epoch \/ x.bucket \in recorder[r].left
          /\ \A other \in Recorders :
                 recorder[other].at = "clear" /\ Spot(other) = Spot(r) => other = r
          /\ \A x \in recorded : x.epoch = recorder[r].sample.epoch => x \in racing
Rotation == \A r \in Recorders : Rotates(r)

CountedKept ==
    \A x \in recorded :
        /\ x.epoch <= epochs[SlotOf(x.epoch)]
        /\ x \notin racing /\ Epoch(clock) - x.epoch < Slots => x \in counts[SlotOf(x.epoch)]

RecordersInv == RecorderTypes /\ InWindow /\ SlotsHold /\ Rotation /\ CountedKept

\* What a recorder works on.
LEMMA RecorderType ==
    ASSUME RecorderTypes, NEW r \in Recorders
    PROVE  /\ recorder[r].sample \in SampleRecords /\ recorder[r].sample.epoch \in Nat
           /\ Spot(r) \in 0 .. Slots - 1 /\ Epoch(clock) \in Nat
           /\ epochs[Spot(r)] \in Nat \cup {-1} /\ recorder[r].seen \in Nat \cup {-1}
           /\ recorder[r].left \subseteq 1 .. Levels
<1>1. recorder[r].sample \in SampleRecords /\ recorder[r].sample.epoch \in Nat /\ recorder[r].seen \in Nat \cup {-1}
      /\ recorder[r].left \subseteq 1 .. Levels
  BY DEF RecorderTypes, SampleRecords
<1>2. Spot(r) \in 0 .. Slots - 1
  BY <1>1, SlotIsSlot DEF Spot
<1>3. QED
  BY <1>1, <1>2, EpochIsNat DEF RecorderTypes

\* Recorders that work on one slot work for one sub-window.
LEMMA OneEpoch ==
    ASSUME RecorderTypes, InWindow, NEW r \in Recorders, NEW other \in Recorders,
           recorder[r].at # "idle", recorder[other].at # "idle", Spot(r) = Spot(other)
    PROVE  recorder[r].sample.epoch = recorder[other].sample.epoch
<1>1. /\ recorder[r].sample.epoch \in Nat /\ recorder[other].sample.epoch \in Nat /\ Epoch(clock) \in Nat
      /\ Slots \in Nat
  BY RecorderType, SlotsAssumption
<1>2. /\ recorder[r].sample.epoch < recorder[other].sample.epoch + Slots
      /\ recorder[other].sample.epoch < recorder[r].sample.epoch + Slots
  BY <1>1 DEF InWindow
<1>3. QED
  BY <1>1, <1>2, SlotsApart DEF Spot

\* A slot's epoch is not ahead of the recorders that work on it.
LEMMA SlotNotAhead ==
    ASSUME RecorderTypes, InWindow, SlotsHold, NEW r \in Recorders, recorder[r].at # "idle"
    PROVE  epochs[Spot(r)] <= recorder[r].sample.epoch
<1> DEFINE e == epochs[Spot(r)]
           mine == recorder[r].sample.epoch
<1>1. mine \in Nat /\ e \in Nat \cup {-1} /\ Epoch(clock) \in Nat /\ Spot(r) \in 0 .. Slots - 1 /\ Slots \in Nat
  BY RecorderType, SlotsAssumption
<1>2. CASE e = -1
  BY <1>1, <1>2
<1>3. CASE e \in Nat
  <2>1. SlotOf(e) = Spot(r) /\ e <= Epoch(clock) /\ Epoch(clock) < mine + Slots
    BY <1>1, <1>3 DEF SlotsHold, InWindow
  <2>2. CASE mine < e
    BY <1>1, <1>3, <2>1, <2>2, SlotsApart DEF Spot
  <2>3. QED
    BY <1>1, <1>3, <2>2
<1>4. QED
  BY <1>1, <1>2, <1>3

RecorderStates == [at : {"idle", "epoch", "claim", "clear", "count"}, sample : SampleRecords,
                   seen : Nat \cup {-1}, left : SUBSET (1 .. Levels)]

\* A recorder moves, and the others stay where they are.
LEMMA OneMoves ==
    ASSUME RecorderTypes, NEW r \in Recorders, NEW v \in RecorderStates,
           recorder' = [recorder EXCEPT ![r] = v]
    PROVE  /\ recorder' \in [Recorders -> RecorderStates]
           /\ recorder'[r] = v /\ Spot(r)' = SlotOf(v.sample.epoch)
           /\ \A o \in Recorders : o # r => recorder'[o] = recorder[o] /\ Spot(o)' = Spot(o)
  BY DEF RecorderTypes, RecorderStates, Spot

\* A step that rotates nothing and counts nothing.
LEMMA QuietMove ==
    ASSUME RecordersInv, NEW r \in Recorders, NEW v \in RecorderStates,
           recorder' = [recorder EXCEPT ![r] = v], UNCHANGED <<clock, epochs, counts, recorded, racing>>,
           recorder[r].at # "clear", v.at # "clear",
           v.at # "idle" => v.sample.epoch <= Epoch(clock) /\ Epoch(clock) < v.sample.epoch + Slots,
           v.at = "claim" => /\ v.seen # v.sample.epoch
                             /\ epochs[SlotOf(v.sample.epoch)] \in {v.seen, v.sample.epoch},
           v.at = "count" => epochs[SlotOf(v.sample.epoch)] = v.sample.epoch
    PROVE  RecordersInv'
<1>1. /\ recorder' \in [Recorders -> RecorderStates]
      /\ recorder'[r] = v /\ Spot(r)' = SlotOf(v.sample.epoch)
      /\ \A o \in Recorders : o # r => recorder'[o] = recorder[o] /\ Spot(o)' = Spot(o)
  BY OneMoves DEF RecordersInv
<1>2. RecorderTypes'
  BY <1>1 DEF RecordersInv, RecorderTypes, RecorderStates
<1>3. InWindow'
  <2>1. Epoch(clock)' = Epoch(clock)
    BY DEF Epoch
  <2>2. QED
    BY <1>1, <2>1 DEF InWindow, RecordersInv
<1>4. \A s : Clearing(s)' <=> Clearing(s)
  <2>1. \A o \in Recorders : recorder'[o].at = "clear" => o # r
    BY <1>1
  <2>2. \A o \in Recorders : recorder[o].at = "clear" => o # r
    OBVIOUS
  <2>3. QED
    BY <1>1, <2>1, <2>2 DEF Clearing
<1>5. SlotsHold'
  BY <1>4 DEF SlotsHold, RecordersInv, Epoch
<1>6. ASSUME NEW o \in Recorders PROVE Rotates(o)'
  <2>1. CASE o = r
    BY <1>1, <2>1 DEF Rotates
  <2>2. CASE o # r
    <3>1. Rotates(o)
      BY DEF RecordersInv, Rotation
    <3>2. recorder'[o] = recorder[o] /\ Spot(o)' = Spot(o)
      BY <1>1, <2>2
    <3>3. \A p \in Recorders : recorder'[p].at = "clear" /\ Spot(p)' = Spot(o)
                               => recorder[p].at = "clear" /\ Spot(p) = Spot(o)
      BY <1>1
    <3>4. QED
      BY <3>1, <3>2, <3>3 DEF Rotates
  <2>3. QED
    BY <2>1, <2>2
<1>7. CountedKept'
  BY DEF CountedKept, RecordersInv, Epoch
<1>8. QED
  BY <1>2, <1>3, <1>5, <1>6, <1>7 DEF RecordersInv, Rotation

\* A recording begins in the sub-window of the clock.
LEMMA RecordKeeps == ASSUME RecordersInv, NEW r \in Recorders, Record(r) PROVE RecordersInv'
<1> DEFINE n == Cardinality(recorded) + Cardinality({x \in Recorders : recorder[x].at # "idle"})
           begun(b) == [at |-> "epoch", sample |-> [n |-> n, epoch |-> Epoch(clock), bucket |-> b], seen |-> -1, left |-> {}]
<1>1. PICK b \in 1 .. Levels : recorder' = [recorder EXCEPT ![r] = begun(b)]
  BY DEF Record
<1>2. n \in Nat
  <2>1. IsFiniteSet({x \in Recorders : recorder[x].at # "idle"})
    BY RecordersAssumption, FS_Subset
  <2>2. QED
    BY <2>1, FS_CardinalityType DEF RecordersInv, RecorderTypes
<1>3. clock \in Nat /\ Epoch(clock) \in Nat /\ Slots \in Nat /\ Slots > 0
  BY EpochIsNat, SlotsAssumption DEF RecordersInv, RecorderTypes
<1> HIDE DEF n
<1>4. begun(b) \in RecorderStates
  BY <1>2, <1>3 DEF RecorderStates, SampleRecords
<1>5. recorder[r].at # "clear" /\ UNCHANGED <<clock, epochs, counts, recorded, racing>>
  BY DEF Record
<1>6. /\ begun(b).at = "epoch" /\ begun(b).sample.epoch = Epoch(clock)
      /\ Epoch(clock) <= Epoch(clock) /\ Epoch(clock) < Epoch(clock) + Slots
  BY <1>3
<1> HIDE DEF begun
<1>7. QED
  BY <1>1, <1>4, <1>5, <1>6, QuietMove

\* It finds its slot rotated, or will claim it.
LEMMA ReadEpochKeeps == ASSUME RecordersInv, NEW r \in Recorders, ReadEpoch(r) PROVE RecordersInv'
<1> DEFINE slotEpoch == epochs[Spot(r)]
           mine == recorder[r].sample
           v == [recorder[r] EXCEPT !.at = IF slotEpoch = mine.epoch THEN "count" ELSE "claim", !.seen = slotEpoch]
<1>1. recorder' = [recorder EXCEPT ![r] = v]
  <2>1. recorder' = [recorder EXCEPT ![r].at = IF slotEpoch = mine.epoch THEN "count" ELSE "claim", ![r].seen = slotEpoch]
    BY Zenon DEF ReadEpoch
  <2>2. QED
    BY <2>1 DEF RecordersInv, RecorderTypes
<1>2. recorder[r] \in RecorderStates /\ slotEpoch \in Nat \cup {-1}
  BY RecorderType DEF RecordersInv, RecorderTypes, RecorderStates
<1>3. v \in RecorderStates
  BY <1>2 DEF RecorderStates
<1>4. /\ v.sample = mine /\ v.seen = slotEpoch /\ v.at \in {"count", "claim"}
      /\ v.at = "count" => slotEpoch = mine.epoch
      /\ v.at = "claim" => slotEpoch # mine.epoch
  BY <1>2 DEF RecorderStates
<1>5. mine.epoch <= Epoch(clock) /\ Epoch(clock) < mine.epoch + Slots
  BY DEF ReadEpoch, RecordersInv, InWindow
<1>6. epochs[SlotOf(mine.epoch)] = slotEpoch
  BY DEF Spot
<1>7. recorder[r].at # "clear" /\ UNCHANGED <<clock, epochs, counts, recorded, racing>>
  BY DEF ReadEpoch
<1> HIDE DEF v, slotEpoch, mine
<1>8. QED
  BY <1>1, <1>3, <1>4, <1>5, <1>6, <1>7, QuietMove

\* A claim that another task won leaves the slot to that task's sub-window, its own.
LEMMA ClaimFailsKeeps ==
    ASSUME RecordersInv, NEW r \in Recorders, Claim(r), epochs[Spot(r)] # recorder[r].seen
    PROVE  RecordersInv'
<1> DEFINE mine == recorder[r].sample
           v == [recorder[r] EXCEPT !.at = "count"]
<1>1. recorder[r].at = "claim" /\ UNCHANGED <<clock, epochs, counts, recorded, racing>>
      /\ recorder' = [recorder EXCEPT ![r].at = "count"]
  BY Zenon DEF Claim, RecorderAt
<1>2. recorder' = [recorder EXCEPT ![r] = v]
  BY <1>1 DEF RecordersInv, RecorderTypes
<1>3. recorder[r] \in RecorderStates
  BY DEF RecordersInv, RecorderTypes, RecorderStates
<1>4. v \in RecorderStates /\ v.sample = mine /\ v.at = "count"
  BY <1>3 DEF RecorderStates
<1>5. mine.epoch <= Epoch(clock) /\ Epoch(clock) < mine.epoch + Slots
  BY <1>1 DEF RecordersInv, InWindow
<1>6. epochs[SlotOf(mine.epoch)] = mine.epoch
  BY <1>1 DEF Spot, RecordersInv, Rotation, Rotates
<1> HIDE DEF v, mine
<1>7. QED
  BY <1>1, <1>2, <1>4, <1>5, <1>6, QuietMove

\* A claim takes a slot of an older sub-window: nobody else clears it, and no
\* sample of the new sub-window was recorded yet.
LEMMA TakeKeeps ==
    ASSUME RecordersInv, NEW r \in Recorders, Claim(r), epochs[Spot(r)] = recorder[r].seen
    PROVE  RecordersInv'
<1> DEFINE mine == recorder[r].sample
           v == [recorder[r] EXCEPT !.at = "clear", !.left = 1 .. Levels]
<1>1. /\ recorder[r].at = "claim" /\ UNCHANGED <<clock, counts, recorded, racing>>
      /\ epochs' = [epochs EXCEPT ![Spot(r)] = mine.epoch]
      /\ recorder' = [recorder EXCEPT ![r].at = "clear", ![r].left = 1 .. Levels]
  BY Zenon DEF Claim, Take
<1>2. recorder' = [recorder EXCEPT ![r] = v]
  BY <1>1 DEF RecordersInv, RecorderTypes
<1>3. recorder[r] \in RecorderStates
  BY DEF RecordersInv, RecorderTypes, RecorderStates
<1>4. v \in RecorderStates /\ v.sample = mine /\ v.at = "clear" /\ v.left = 1 .. Levels
  BY <1>3 DEF RecorderStates
<1> HIDE DEF v
<1>5. /\ recorder' \in [Recorders -> RecorderStates]
      /\ recorder'[r] = v /\ Spot(r)' = SlotOf(mine.epoch)
      /\ \A o \in Recorders : o # r => recorder'[o] = recorder[o] /\ Spot(o)' = Spot(o)
  <2>1. RecorderTypes
    BY DEF RecordersInv
  <2>2. QED
    BY <1>2, <1>4, <2>1, OneMoves
<1>6. /\ mine.epoch \in Nat /\ Spot(r) \in 0 .. Slots - 1 /\ Epoch(clock) \in Nat /\ epochs[Spot(r)] \in Nat \cup {-1}
      /\ SlotOf(mine.epoch) = Spot(r) /\ Slots \in Nat
  BY RecorderType, SlotsAssumption DEF RecordersInv, Spot
<1>7. epochs[Spot(r)] < mine.epoch
  <2>1. epochs[Spot(r)] <= mine.epoch
    BY <1>1, SlotNotAhead DEF RecordersInv
  <2>2. epochs[Spot(r)] # mine.epoch
    BY <1>1 DEF RecordersInv, Rotation, Rotates
  <2>3. QED
    BY <1>6, <2>1, <2>2
<1>8. mine.epoch <= Epoch(clock) /\ Epoch(clock) < mine.epoch + Slots
  BY <1>1 DEF RecordersInv, InWindow
<1>9. /\ epochs' \in [0 .. Slots - 1 -> Nat \cup {-1}] /\ epochs'[Spot(r)] = mine.epoch
      /\ \A s \in 0 .. Slots - 1 : s # Spot(r) => epochs'[s] = epochs[s]
  BY <1>1, <1>6 DEF RecordersInv, RecorderTypes
<1>10. Epoch(clock)' = Epoch(clock)
  BY <1>1 DEF Epoch
<1> HIDE DEF mine
\* Nobody else is clearing this slot, nor is anyone's sample of this sub-window in it.
<1>11. ASSUME NEW o \in Recorders, o # r, recorder[o].at # "idle", Spot(o) = Spot(r)
       PROVE  recorder[o].at # "clear" /\ recorder[o].sample.epoch = mine.epoch
  <2>1. recorder[o].sample.epoch = mine.epoch
    BY <1>1, <1>11, OneEpoch DEF RecordersInv, mine
  <2>2. CASE recorder[o].at = "clear"
    <3>1. epochs[Spot(o)] = recorder[o].sample.epoch
      BY <2>2 DEF RecordersInv, Rotation, Rotates
    <3>2. QED
      BY <1>6, <1>7, <1>11, <2>1, <3>1
  <2>3. QED
    BY <2>1, <2>2
<1>12. \A x \in recorded : x.epoch # mine.epoch
  <2>1. \A x \in recorded : x.epoch = mine.epoch => x.epoch <= epochs[Spot(r)]
    BY <1>6 DEF RecordersInv, CountedKept
  <2>2. QED
    BY <1>6, <1>7, <2>1
<1>13. \A s : IF s = Spot(r) THEN Clearing(s)' ELSE Clearing(s)' <=> Clearing(s)
  <2>1. recorder'[r].at = "clear" /\ Spot(r)' = Spot(r) /\ recorder[r].at = "claim"
    BY <1>1, <1>4, <1>5, <1>6
  <2>2. QED
    BY <1>5, <2>1 DEF Clearing
<1>14. RecorderTypes'
  BY <1>1, <1>5, <1>9 DEF RecordersInv, RecorderTypes, RecorderStates
<1>15. InWindow'
  BY <1>1, <1>4, <1>5, <1>8, <1>10 DEF InWindow, RecordersInv
<1>16. SlotsHold'
  <2>1. ASSUME NEW s \in 0 .. Slots - 1
        PROVE  /\ epochs'[s] >= 0 => SlotOf(epochs'[s]) = s /\ epochs'[s] <= Epoch(clock)
               /\ \A x \in counts[s] : SlotOf(x.epoch) = s /\ (~Clearing(s)' => x.epoch = epochs'[s])
    <3>1. /\ epochs[s] >= 0 => SlotOf(epochs[s]) = s /\ epochs[s] <= Epoch(clock)
          /\ \A x \in counts[s] : SlotOf(x.epoch) = s /\ (~Clearing(s) => x.epoch = epochs[s])
      BY DEF RecordersInv, SlotsHold
    <3>2. CASE s = Spot(r)
      <4>1. SlotOf(epochs'[s]) = s /\ epochs'[s] <= Epoch(clock)
        BY <1>6, <1>8, <1>9, <3>2
      <4>2. Clearing(s)'
        BY <1>13, <3>2, Zenon
      <4>3. QED
        BY <3>1, <4>1, <4>2, Zenon
    <3>3. CASE s # Spot(r)
      BY <1>9, <1>13, <3>1, <3>3
    <3>4. QED
      BY <3>2, <3>3
  <2>2. QED
    BY <1>1, <1>10, <2>1 DEF SlotsHold
<1>17. ASSUME NEW o \in Recorders PROVE Rotates(o)'
  <2>1. CASE o = r
    <3>1. recorder'[o].at = "clear" /\ recorder'[o].left = 1 .. Levels /\ recorder'[o].sample = mine /\ Spot(o)' = Spot(r)
      BY <1>4, <1>5, <1>6, <2>1
    <3>2. \A x \in counts[Spot(r)] : x.bucket \in 1 .. Levels
      BY <1>6 DEF RecordersInv, RecorderTypes, SampleRecords
    <3>3. \A p \in Recorders : recorder'[p].at = "clear" /\ Spot(p)' = Spot(r) => p = r
      BY <1>5, <1>11
    <3>4. QED
      BY <1>1, <1>9, <1>12, <2>1, <3>1, <3>2, <3>3 DEF Rotates
  <2>2. CASE o # r
    <3>1. Rotates(o)
      BY DEF RecordersInv, Rotation
    <3>2. recorder'[o] = recorder[o] /\ Spot(o)' = Spot(o) /\ Spot(o) \in 0 .. Slots - 1
      BY <1>5, <2>2, RecorderType DEF RecordersInv
    <3>3. CASE Spot(o) = Spot(r)
      BY <1>9, <1>11, <2>2, <3>1, <3>2, <3>3 DEF Rotates
    <3>4. CASE Spot(o) # Spot(r)
      <4>1. epochs'[Spot(o)] = epochs[Spot(o)]
        BY <1>9, <3>2, <3>4
      <4>2. \A p \in Recorders : recorder'[p].at = "clear" /\ Spot(p)' = Spot(o)
                                 => recorder[p].at = "clear" /\ Spot(p) = Spot(o)
        BY <1>5, <1>6, <3>4
      <4>3. QED
        BY <1>1, <3>1, <3>2, <4>1, <4>2 DEF Rotates
    <3>5. QED
      BY <3>3, <3>4
  <2>3. QED
    BY <2>1, <2>2
<1>18. CountedKept'
  <2>1. ASSUME NEW x \in recorded
        PROVE  x.epoch <= epochs'[SlotOf(x.epoch)]
    <3>1. x.epoch \in Nat /\ SlotOf(x.epoch) \in 0 .. Slots - 1 /\ x.epoch <= epochs[SlotOf(x.epoch)]
      BY SlotIsSlot DEF RecordersInv, RecorderTypes, SampleRecords, CountedKept
    <3>2. QED
      BY <1>6, <1>7, <1>9, <3>1
  <2>2. QED
    BY <1>1, <1>10, <2>1 DEF CountedKept, RecordersInv
<1>19. QED
  BY <1>14, <1>15, <1>16, <1>17, <1>18 DEF RecordersInv, Rotation

\* A cleared bucket held nothing of the window that was counted in peace.
LEMMA ClearKeeps == ASSUME RecordersInv, NEW r \in Recorders, Clear(r) PROVE RecordersInv'
<1> DEFINE mine == recorder[r].sample
           b == CHOOSE b \in recorder[r].left : \A c \in recorder[r].left : b <= c
           left == recorder[r].left \ {b}
           v == [recorder[r] EXCEPT !.left = left, !.at = IF left = {} THEN "count" ELSE "clear"]
<1>1. /\ recorder[r].at = "clear" /\ UNCHANGED <<clock, epochs, recorded, racing>>
      /\ counts' = [counts EXCEPT ![Spot(r)] = {x \in @ : x.bucket # b}]
      /\ recorder' = [recorder EXCEPT ![r].left = left, ![r].at = IF left = {} THEN "count" ELSE "clear"]
  BY Zenon DEF Clear
<1> HIDE DEF b
<1>2. recorder[r] \in RecorderStates /\ recorder[r].left \subseteq 1 .. Levels
  BY DEF RecordersInv, RecorderTypes, RecorderStates
<1>3. /\ v \in RecorderStates /\ v.sample = mine /\ v.left = left
      /\ v.at = IF left = {} THEN "count" ELSE "clear"
  BY <1>2 DEF RecorderStates
<1>4. recorder' = [recorder EXCEPT ![r] = v]
  BY <1>1 DEF RecordersInv, RecorderTypes
<1> HIDE DEF v
<1>5. /\ recorder' \in [Recorders -> RecorderStates]
      /\ recorder'[r] = v /\ Spot(r)' = Spot(r)
      /\ \A o \in Recorders : o # r => recorder'[o] = recorder[o] /\ Spot(o)' = Spot(o)
  <2>1. RecorderTypes
    BY DEF RecordersInv
  <2>2. QED
    BY <1>3, <1>4, <2>1, OneMoves DEF Spot
<1>6. /\ mine.epoch \in Nat /\ Spot(r) \in 0 .. Slots - 1 /\ Epoch(clock) \in Nat
      /\ SlotOf(mine.epoch) = Spot(r) /\ Slots \in Nat
  BY RecorderType, SlotsAssumption DEF RecordersInv, Spot
<1>7. mine.epoch <= Epoch(clock) /\ Epoch(clock) < mine.epoch + Slots
  BY <1>1 DEF RecordersInv, InWindow
<1>8. Epoch(clock)' = Epoch(clock)
  BY <1>1 DEF Epoch
<1>9. /\ counts' \in [0 .. Slots - 1 -> SUBSET SampleRecords] /\ counts'[Spot(r)] = {x \in counts[Spot(r)] : x.bucket # b}
      /\ \A s \in 0 .. Slots - 1 : s # Spot(r) => counts'[s] = counts[s]
  BY <1>1, <1>6 DEF RecordersInv, RecorderTypes
<1>10. /\ epochs[Spot(r)] = mine.epoch
       /\ \A x \in counts[Spot(r)] : x.epoch = mine.epoch \/ x.bucket \in recorder[r].left
       /\ \A o \in Recorders : recorder[o].at = "clear" /\ Spot(o) = Spot(r) => o = r
       /\ \A x \in recorded : x.epoch = mine.epoch => x \in racing
  BY <1>1 DEF RecordersInv, Rotation, Rotates
<1>11. \A s : s # Spot(r) => (Clearing(s)' <=> Clearing(s))
  BY <1>5 DEF Clearing
<1>12. \A s : s = Spot(r) /\ left # {} => Clearing(s)'
  BY <1>3, <1>5 DEF Clearing
<1>13. \A x \in counts'[Spot(r)] : x.epoch = mine.epoch \/ x.bucket \in left
  BY <1>9, <1>10
<1> HIDE DEF left, mine
<1>14. RecorderTypes'
  <2>1. ASSUME NEW s \in 0 .. Slots - 1 PROVE IsFiniteSet(counts'[s])
    <3>1. counts'[s] \subseteq counts[s] /\ IsFiniteSet(counts[s])
      BY <1>9 DEF RecordersInv, RecorderTypes
    <3>2. QED
      BY <3>1, FS_Subset
  <2>2. QED
    BY <1>1, <1>5, <1>9, <2>1 DEF RecordersInv, RecorderTypes, RecorderStates
<1>15. InWindow'
  <2>1. ASSUME NEW o \in Recorders, recorder'[o].at # "idle"
        PROVE  recorder'[o].sample.epoch <= Epoch(clock) /\ Epoch(clock) < recorder'[o].sample.epoch + Slots
    <3>1. CASE o = r
      BY <1>3, <1>5, <1>7, <3>1
    <3>2. CASE o # r
      BY <1>5, <2>1, <3>2 DEF RecordersInv, InWindow
    <3>3. QED
      BY <3>1, <3>2
  <2>2. QED
    BY <1>8, <2>1 DEF InWindow
<1>16. SlotsHold'
  <2>1. ASSUME NEW s \in 0 .. Slots - 1
        PROVE  /\ epochs[s] >= 0 => SlotOf(epochs[s]) = s /\ epochs[s] <= Epoch(clock)
               /\ \A x \in counts'[s] : SlotOf(x.epoch) = s /\ (~Clearing(s)' => x.epoch = epochs[s])
    <3>1. /\ epochs[s] >= 0 => SlotOf(epochs[s]) = s /\ epochs[s] <= Epoch(clock)
          /\ \A x \in counts[s] : SlotOf(x.epoch) = s /\ (~Clearing(s) => x.epoch = epochs[s])
      BY DEF RecordersInv, SlotsHold
    <3>2. CASE s = Spot(r)
      <4>1. \A x \in counts'[s] : x \in counts[s]
        BY <1>9, <3>2
      <4>2. left = {} => \A x \in counts'[s] : x.epoch = epochs[s]
        BY <1>10, <1>13, <3>2
      <4>3. QED
        BY <1>12, <3>1, <3>2, <4>1, <4>2, Zenon
    <3>3. CASE s # Spot(r)
      <4>1. counts'[s] = counts[s]
        BY <1>9, <3>3
      <4>2. QED
        BY <1>11, <3>1, <3>3, <4>1, Zenon
    <3>4. QED
      BY <3>2, <3>3
  <2>2. QED
    BY <1>1, <1>8, <2>1 DEF SlotsHold
<1>17. ASSUME NEW o \in Recorders PROVE Rotates(o)'
  <2>0. \A p \in Recorders : recorder'[p].at = "clear" /\ Spot(p)' = Spot(o)'
                             => recorder[p].at = "clear" /\ Spot(p) = Spot(o)
    BY <1>1, <1>5
  <2>1. CASE o = r
    <3>1. recorder'[o].at \in {"count", "clear"} /\ recorder'[o].left = left /\ recorder'[o].sample = mine /\ Spot(o)' = Spot(r)
      BY <1>3, <1>5, <2>1
    <3>2. \A p \in Recorders : recorder'[p].at = "clear" /\ Spot(p)' = Spot(r) => p = r
      BY <1>5, <1>10
    <3>3. QED
      BY <1>1, <1>10, <1>13, <2>1, <3>1, <3>2 DEF Rotates
  <2>2. CASE o # r
    <3>1. Rotates(o)
      BY DEF RecordersInv, Rotation
    <3>2. recorder'[o] = recorder[o] /\ Spot(o)' = Spot(o) /\ Spot(o) \in 0 .. Slots - 1
      BY <1>5, <2>2, RecorderType DEF RecordersInv
    <3>3. \A x \in counts'[Spot(o)] : x \in counts[Spot(o)]
      BY <1>9, <3>2
    <3>4. QED
      BY <1>1, <2>0, <3>1, <3>2, <3>3 DEF Rotates
  <2>3. QED
    BY <2>1, <2>2
<1>18. CountedKept'
  <2>1. ASSUME NEW x \in recorded
        PROVE  /\ x.epoch <= epochs[SlotOf(x.epoch)]
               /\ x \notin racing /\ Epoch(clock) - x.epoch < Slots => x \in counts'[SlotOf(x.epoch)]
    <3>1. /\ x.epoch \in Nat /\ SlotOf(x.epoch) \in 0 .. Slots - 1 /\ x.epoch <= epochs[SlotOf(x.epoch)]
          /\ x \notin racing /\ Epoch(clock) - x.epoch < Slots => x \in counts[SlotOf(x.epoch)]
      BY SlotIsSlot DEF RecordersInv, RecorderTypes, SampleRecords, CountedKept
    <3>2. CASE SlotOf(x.epoch) = Spot(r) /\ Epoch(clock) - x.epoch < Slots
      <4>1. x.epoch <= mine.epoch
        BY <1>10, <3>1, <3>2
      <4>2. x.epoch < mine.epoch + Slots /\ mine.epoch < x.epoch + Slots
        BY <1>6, <1>7, <3>1, <3>2, <4>1, SlotsAssumption
      <4>3. x.epoch = mine.epoch
        BY <1>6, <3>1, <3>2, <4>2, SlotsApart
      <4>4. QED
        BY <1>10, <3>1, <4>3
    <3>3. CASE SlotOf(x.epoch) # Spot(r)
      BY <1>9, <3>1, <3>3
    <3>4. QED
      BY <3>1, <3>2, <3>3
  <2>2. QED
    BY <1>1, <1>8, <2>1 DEF CountedKept
<1>19. QED
  BY <1>14, <1>15, <1>16, <1>17, <1>18 DEF RecordersInv, Rotation

\* A sample is counted in the slot of its sub-window.
LEMMA CountKeeps == ASSUME RecordersInv, NEW r \in Recorders, Count(r) PROVE RecordersInv'
<1> DEFINE mine == recorder[r].sample
<1>1. /\ recorder[r].at = "count" /\ UNCHANGED <<clock, epochs>>
      /\ recorder' = [recorder EXCEPT ![r] = AtRest]
      /\ counts' = [counts EXCEPT ![Spot(r)] = @ \cup {mine}]
      /\ recorded' = recorded \cup {mine}
      /\ racing' = IF Clearing(Spot(r)) THEN racing \cup {mine} ELSE racing
  BY DEF Count
<1>2. AtRest \in RecorderStates
  BY LevelsAssumption DEF AtRest, RecorderStates, SampleRecords
<1>3. /\ recorder' \in [Recorders -> RecorderStates]
      /\ recorder'[r].at = "idle"
      /\ \A o \in Recorders : o # r => recorder'[o] = recorder[o] /\ Spot(o)' = Spot(o)
  <2>1. RecorderTypes
    BY DEF RecordersInv
  <2>2. QED
    BY <1>1, <1>2, <2>1, OneMoves DEF AtRest
<1>4. /\ mine \in SampleRecords /\ mine.epoch \in Nat /\ Spot(r) \in 0 .. Slots - 1 /\ Epoch(clock) \in Nat
      /\ SlotOf(mine.epoch) = Spot(r) /\ Slots \in Nat
  BY RecorderType, SlotsAssumption DEF RecordersInv, Spot
<1>5. /\ counts' \in [0 .. Slots - 1 -> SUBSET SampleRecords] /\ counts'[Spot(r)] = counts[Spot(r)] \cup {mine}
      /\ \A s \in 0 .. Slots - 1 : s # Spot(r) => counts'[s] = counts[s]
  BY <1>1, <1>4 DEF RecordersInv, RecorderTypes
<1>6. epochs[Spot(r)] = mine.epoch
  BY <1>1 DEF RecordersInv, Rotation, Rotates
<1>7. \A s : Clearing(s)' <=> Clearing(s)
  BY <1>1, <1>3 DEF Clearing
<1>8. Epoch(clock)' = Epoch(clock)
  BY <1>1 DEF Epoch
<1>9. racing \subseteq racing' /\ (Clearing(Spot(r)) => mine \in racing')
  BY <1>1
<1>10. \A o \in Recorders : o # r /\ recorder[o].at # "idle" /\ Spot(o) = Spot(r) => recorder[o].sample.epoch = mine.epoch
  BY <1>1, OneEpoch DEF RecordersInv
<1> HIDE DEF mine
<1>11. RecorderTypes'
  <2>1. ASSUME NEW s \in 0 .. Slots - 1 PROVE IsFiniteSet(counts'[s])
    <3>1. IsFiniteSet(counts[s])
      BY DEF RecordersInv, RecorderTypes
    <3>2. CASE s = Spot(r)
      BY <1>5, <3>1, <3>2, FS_AddElement
    <3>3. CASE s # Spot(r)
      BY <1>5, <3>1, <3>3
    <3>4. QED
      BY <3>2, <3>3
  <2>2. IsFiniteSet(recorded') /\ recorded' \in SUBSET SampleRecords
    <3>1. IsFiniteSet(recorded) /\ recorded \in SUBSET SampleRecords
      BY DEF RecordersInv, RecorderTypes
    <3>2. QED
      BY <1>1, <1>4, <3>1, FS_AddElement
  <2>3. QED
    BY <1>1, <1>3, <1>5, <2>1, <2>2 DEF RecordersInv, RecorderTypes, RecorderStates
<1>12. InWindow'
  BY <1>3, <1>8 DEF InWindow, RecordersInv
<1>13. SlotsHold'
  <2>1. ASSUME NEW s \in 0 .. Slots - 1
        PROVE  /\ epochs[s] >= 0 => SlotOf(epochs[s]) = s /\ epochs[s] <= Epoch(clock)
               /\ \A x \in counts'[s] : SlotOf(x.epoch) = s /\ (~Clearing(s) => x.epoch = epochs[s])
    <3>1. /\ epochs[s] >= 0 => SlotOf(epochs[s]) = s /\ epochs[s] <= Epoch(clock)
          /\ \A x \in counts[s] : SlotOf(x.epoch) = s /\ (~Clearing(s) => x.epoch = epochs[s])
      BY DEF RecordersInv, SlotsHold
    <3>2. CASE s = Spot(r)
      BY <1>4, <1>5, <1>6, <3>1, <3>2
    <3>3. CASE s # Spot(r)
      BY <1>5, <3>1, <3>3
    <3>4. QED
      BY <3>2, <3>3
  <2>2. QED
    BY <1>1, <1>7, <1>8, <2>1 DEF SlotsHold
<1>14. ASSUME NEW o \in Recorders PROVE Rotates(o)'
  <2>1. CASE o = r
    BY <1>3, <2>1 DEF Rotates
  <2>2. CASE o # r
    <3>1. Rotates(o)
      BY DEF RecordersInv, Rotation
    <3>2. recorder'[o] = recorder[o] /\ Spot(o)' = Spot(o) /\ Spot(o) \in 0 .. Slots - 1 /\ Spot(o) = SlotOf(recorder[o].sample.epoch)
      BY <1>3, <2>2, RecorderType DEF RecordersInv, Spot
    <3>3. \A p \in Recorders : recorder'[p].at = "clear" /\ Spot(p)' = Spot(o)
                               => recorder[p].at = "clear" /\ Spot(p) = Spot(o)
      BY <1>3
    <3>4. recorder[o].at = "clear" =>
             /\ \A x \in counts'[Spot(o)] : x.epoch = recorder[o].sample.epoch \/ x.bucket \in recorder[o].left
             /\ \A x \in recorded' : x.epoch = recorder[o].sample.epoch => x \in racing'
      <4>1. SUFFICES ASSUME recorder[o].at = "clear"
                     PROVE  /\ \A x \in counts'[Spot(o)] : x.epoch = recorder[o].sample.epoch \/ x.bucket \in recorder[o].left
                            /\ \A x \in recorded' : x.epoch = recorder[o].sample.epoch => x \in racing'
        OBVIOUS
      <4>2. /\ \A x \in counts[Spot(o)] : x.epoch = recorder[o].sample.epoch \/ x.bucket \in recorder[o].left
            /\ \A x \in recorded : x.epoch = recorder[o].sample.epoch => x \in racing
        BY <3>1, <4>1 DEF Rotates
      <4>3. CASE Spot(o) = Spot(r)
        <5>1. Clearing(Spot(r)) /\ recorder[o].sample.epoch = mine.epoch
          BY <1>10, <2>2, <4>1, <4>3 DEF Clearing
        <5>2. QED
          BY <1>1, <1>5, <1>9, <4>2, <4>3, <5>1
      <4>4. CASE Spot(o) # Spot(r)
        <5>1. recorder[o].sample.epoch # mine.epoch
          BY <1>4, <3>2, <4>4
        <5>2. QED
          BY <1>1, <1>5, <1>9, <3>2, <4>2, <4>4, <5>1
      <4>5. QED
        BY <4>3, <4>4
    <3>5. QED
      BY <1>1, <3>1, <3>2, <3>3, <3>4 DEF Rotates
  <2>3. QED
    BY <2>1, <2>2
<1>15. CountedKept'
  <2>1. ASSUME NEW x \in recorded'
        PROVE  /\ x.epoch <= epochs[SlotOf(x.epoch)]
               /\ x \notin racing' /\ Epoch(clock) - x.epoch < Slots => x \in counts'[SlotOf(x.epoch)]
    <3>1. CASE x = mine
      BY <1>4, <1>5, <1>6, <3>1
    <3>2. CASE x \in recorded
      <4>1. /\ x.epoch \in Nat /\ SlotOf(x.epoch) \in 0 .. Slots - 1 /\ x.epoch <= epochs[SlotOf(x.epoch)]
            /\ x \notin racing /\ Epoch(clock) - x.epoch < Slots => x \in counts[SlotOf(x.epoch)]
        BY <3>2, SlotIsSlot DEF RecordersInv, RecorderTypes, SampleRecords, CountedKept
      <4>2. QED
        BY <1>5, <1>9, <4>1
    <3>3. QED
      BY <1>1, <2>1, <3>1, <3>2
  <2>2. QED
    BY <1>1, <1>8, <2>1 DEF CountedKept
<1>16. QED
  BY <1>11, <1>12, <1>13, <1>14, <1>15 DEF RecordersInv, Rotation

\* Time takes samples out of the window, and no task.
LEMMA TickKeeps == ASSUME RecordersInv, Tick PROVE RecordersInv'
<1>1. clock' = clock + 1 /\ UNCHANGED <<epochs, counts, recorder, recorded, racing>>
      /\ \A r \in Recorders : recorder[r].at # "idle" => Epoch(clock + 1) < recorder[r].sample.epoch + Slots
  BY DEF Tick, ByRecorders
<1>2. clock \in Nat /\ Epoch(clock) \in Nat /\ Epoch(clock)' \in Nat /\ Epoch(clock) <= Epoch(clock)' /\ Epoch(clock)' = Epoch(clock + 1)
  <2>1. clock \in Nat /\ Epoch(clock)' = Epoch(clock + 1)
    BY <1>1 DEF RecordersInv, RecorderTypes, Epoch
  <2>2. QED
    BY <2>1, EpochIsNat, EpochGrows
<1>3. RecorderTypes'
  BY <1>1, <1>2 DEF RecordersInv, RecorderTypes
<1>4. InWindow'
  <2>1. ASSUME NEW r \in Recorders, recorder[r].at # "idle"
        PROVE  recorder[r].sample.epoch <= Epoch(clock)' /\ Epoch(clock)' < recorder[r].sample.epoch + Slots
    <3>1. recorder[r].sample.epoch \in Nat /\ recorder[r].sample.epoch <= Epoch(clock)
      BY <2>1, RecorderType DEF RecordersInv, InWindow
    <3>2. QED
      BY <1>1, <1>2, <2>1, <3>1
  <2>2. QED
    BY <1>1, <2>1 DEF InWindow
<1>5. \A s : Clearing(s)' <=> Clearing(s)
  BY <1>1 DEF Clearing, Spot
<1>6. SlotsHold'
  <2>1. ASSUME NEW s \in 0 .. Slots - 1, epochs[s] >= 0 PROVE SlotOf(epochs[s]) = s /\ epochs[s] <= Epoch(clock)'
    <3>1. SlotOf(epochs[s]) = s /\ epochs[s] <= Epoch(clock) /\ epochs[s] \in Nat \cup {-1}
      BY <2>1 DEF RecordersInv, RecorderTypes, SlotsHold
    <3>2. QED
      BY <1>2, <3>1
  <2>2. QED
    BY <1>1, <1>5, <2>1 DEF SlotsHold, RecordersInv
<1>7. Rotation'
  BY <1>1 DEF Rotation, Rotates, Spot, RecordersInv
<1>8. CountedKept'
  <2>1. ASSUME NEW x \in recorded, Epoch(clock)' - x.epoch < Slots PROVE Epoch(clock) - x.epoch < Slots
    <3>1. x.epoch \in Nat /\ Slots \in Nat
      BY SlotsAssumption DEF RecordersInv, RecorderTypes, SampleRecords
    <3>2. QED
      BY <1>2, <2>1, <3>1
  <2>2. QED
    BY <1>1, <2>1 DEF CountedKept, RecordersInv
<1>9. QED
  BY <1>3, <1>4, <1>6, <1>7, <1>8 DEF RecordersInv

-----------------------------------------------------------------------------
(* The quantile of a set of samples. *)

\* A set of naturals has a least element.
LEMMA LeastOf ==
    ASSUME NEW T \in SUBSET Nat, T # {}
    PROVE  \E m \in T : \A n \in T : m <= n
<1>1. PICK m \in T : \A n \in T : ~(<<n, m>> \in OpToRel(<, Nat))
  BY WFMin, NatLessThanWellFounded
<1>2. ASSUME NEW n \in T, n < m PROVE FALSE
  <2>1. <<n, m>> \in Nat \X Nat /\ <<n, m>>[1] < <<n, m>>[2]
    BY <1>2
  <2>2. <<n, m>> \in OpToRel(<, Nat)
    BY <2>1 DEF OpToRel
  <2>3. QED
    BY <1>1, <2>2
<1>3. QED
  BY <1>2

\* The rank is the least count that makes up the quantile.
LEMMA RankIsLeast ==
    ASSUME NEW q \in 1 .. 100, NEW t \in Nat, t > 0
    PROVE  /\ Rank(q, t) \in 1 .. t
           /\ 100 * Rank(q, t) >= q * t /\ 100 * (Rank(q, t) - 1) < q * t
<1> DEFINE p == q * t
           rank == (p + 99) \div 100
<1>1. p \in Nat /\ p >= t /\ p <= 100 * t
  <2>1. (q - 1) * t \in Nat /\ (100 - q) * t \in Nat
    <3>1. q - 1 \in Nat /\ 100 - q \in Nat
      OBVIOUS
    <3>2. QED
      BY <3>1
  <2>2. (q - 1) * t = p - t /\ (100 - q) * t = 100 * t - p /\ p \in Int
    OBVIOUS
  <2> HIDE DEF p
  <2>3. QED
    BY <2>1, <2>2
<1> HIDE DEF p
<1>2. rank \in Nat /\ 100 * rank <= p + 99 /\ p + 99 < 100 * rank + 100
  BY <1>1
<1> HIDE DEF rank
<1>3. rank >= 1 /\ rank <= t
  BY <1>1, <1>2
<1>4. Rank(q, t) = rank
  BY <1>3 DEF Rank, rank, p
<1>5. 100 * rank >= p /\ 100 * (rank - 1) < p /\ rank \in 1 .. t
  BY <1>1, <1>2, <1>3
<1>6. QED
  BY <1>4, <1>5 DEF p

\* Value is the least bucket with enough of the samples at or below it.
LEMMA ValueIsQuantile ==
    ASSUME NEW xs \in SUBSET SampleRecords, IsFiniteSet(xs), NEW q \in 1 .. 100
    PROVE  /\ Value(xs, q) \in Nat /\ Cardinality(xs) \in Nat /\ (Cardinality(xs) = 0 <=> xs = {})
           /\ xs # {} => /\ 100 * Below(xs, Value(xs, q)) >= q * Cardinality(xs)
                         /\ 100 * Below(xs, Value(xs, q) - 1) < q * Cardinality(xs)
<1>1. Cardinality(xs) \in Nat /\ (Cardinality(xs) = 0 <=> xs = {})
  BY FS_CardinalityType, FS_EmptySet
<1>2. CASE xs = {}
  BY <1>1, <1>2 DEF Value
<1>3. CASE xs # {}
  <2> DEFINE t == Cardinality(xs)
             rank == Rank(q, t)
             v == Value(xs, q)
             enough == {b \in 1 .. Levels : Below(xs, b) >= rank}
  <2>1. t \in Nat /\ t > 0
    BY <1>1, <1>3
  <2>2. rank \in 1 .. t /\ 100 * rank >= q * t /\ 100 * (rank - 1) < q * t
    <3> HIDE DEF t
    <3>1. QED
      BY <2>1, RankIsLeast
  <2>3. \A b \in Int : Below(xs, b) \in Nat
    <3>1. ASSUME NEW b \in Int PROVE Below(xs, b) \in Nat
      <4>1. IsFiniteSet({x \in xs : x.bucket <= b})
        BY FS_Subset
      <4>2. QED
        BY <4>1, FS_CardinalityType DEF Below
    <3>2. QED
      BY <3>1
  <2>4. Levels \in enough
    <3>1. {x \in xs : x.bucket <= Levels} = xs /\ Levels \in 1 .. Levels
      BY LevelsAssumption DEF SampleRecords
    <3>2. Below(xs, Levels) = t
      BY <3>1 DEF Below
    <3> HIDE DEF t, rank
    <3>3. QED
      BY <2>1, <2>2, <3>1, <3>2
  <2>5. PICK m \in enough : \A n \in enough : m <= n
    <3>1. enough \in SUBSET Nat /\ enough # {}
      BY <2>4
    <3> HIDE DEF enough
    <3>2. QED
      BY <3>1, LeastOf
  <2>6. /\ v \in 1 .. Levels /\ Below(xs, v) >= rank
        /\ \A c \in 1 .. Levels : c < v => Below(xs, c) < rank
    <3> DEFINE fits(b) == Below(xs, b) >= rank /\ \A c \in 1 .. Levels : c < b => Below(xs, c) < rank
    <3>1. m \in 1 .. Levels /\ fits(m)
      <4>1. \A c \in 1 .. Levels : c < m => ~(Below(xs, c) >= rank)
        BY <2>5
      <4>2. rank \in Nat /\ \A c \in 1 .. Levels : Below(xs, c) \in Nat
        BY <2>2, <2>3
      <4> HIDE DEF rank
      <4>3. QED
        BY <2>5, <4>1, <4>2
    <3>2. v = CHOOSE b \in 1 .. Levels : fits(b)
      BY <1>3 DEF Value
    <3> HIDE DEF fits, v
    <3>3. v \in 1 .. Levels /\ fits(v)
      BY <3>1, <3>2
    <3>4. QED
      BY <3>3 DEF fits
  <2> HIDE DEF v
  <2>7. Below(xs, v - 1) < rank
    <3>1. CASE v = 1
      <4>1. {x \in xs : x.bucket <= 0} = {}
        BY DEF SampleRecords
      <4>2. Below(xs, v - 1) = 0
        BY <3>1, <4>1, FS_EmptySet DEF Below
      <4> HIDE DEF rank
      <4>3. QED
        BY <2>2, <4>2
    <3>2. CASE v # 1
      <4>1. v - 1 \in 1 .. Levels /\ v - 1 < v
        BY <2>6, <3>2, LevelsAssumption
      <4>2. QED
        BY <2>6, <4>1
    <3>3. QED
      BY <3>1, <3>2
  <2>8. Below(xs, v) \in Nat /\ Below(xs, v - 1) \in Nat /\ q * t \in Nat
    BY <2>1, <2>3, <2>6, LevelsAssumption
  <2> HIDE DEF rank, t
  <2>9. 100 * Below(xs, v) >= q * t /\ 100 * Below(xs, v - 1) < q * t
    <3> DEFINE low == Below(xs, v - 1)
               high == Below(xs, v)
               p == q * t
    <3>1. low \in Nat /\ high \in Nat /\ p \in Nat /\ rank \in Nat /\ low < rank /\ high >= rank
          /\ 100 * rank >= p /\ 100 * (rank - 1) < p
      BY <2>2, <2>6, <2>7, <2>8
    <3> HIDE DEF low, high, p
    <3>2. 100 * high >= p /\ 100 * low < p
      BY <3>1
    <3>3. QED
      BY <3>2 DEF low, high, p
  <2>10. v \in Nat
    BY <2>6
  <2>11. QED
    BY <1>1, <1>3, <2>9, <2>10 DEF v, t
<1>4. QED
  BY <1>2, <1>3

-----------------------------------------------------------------------------
(* The readers. *)

Entries == [from : Nat, q : 1 .. 100, value : Nat, count : Nat]
ReaderStates == [at : {"idle", "cache", "cached", "merge", "slot", "buckets", "store", "stored"}, ask : Asks,
                 from : Nat, current : Nat, slot : 0 .. Slots, left : SUBSET (1 .. Levels),
                 merged : SUBSET SampleRecords, must : SUBSET SampleRecords, touched : SUBSET (0 .. Slots - 1),
                 of : SUBSET Entries]
ReaderTypes ==
    /\ cache \in SUBSET Entries /\ reader \in [Readers -> ReaderStates]
    /\ \A i \in Readers : IsFiniteSet(reader[i].merged)

Untouched(me, xs) == {x \in xs : SlotOf(x.epoch) \notin me.touched}

\* A merge knows the slots that were claimed under it.
Noticed(i) == Merging(i) => \A s \in 0 .. Slots - 1 : Clearing(s) => s \in reader[i].touched
Progress(i) ==
    Merging(i) => /\ reader[i].at = "store" <=> reader[i].slot = Slots
                  /\ reader[i].at = "buckets" /\ reader[i].slot \notin reader[i].touched =>
                        epochs[reader[i].slot] >= 0 /\ reader[i].current - epochs[reader[i].slot] < Slots

\* What a merge must find is where it will look, or found.
Found(me, x) ==
    \/ x \in me.merged
    \/ me.slot < SlotOf(x.epoch)
    \/ me.slot = SlotOf(x.epoch) /\ (me.at = "buckets" => x.bucket \in me.left)
Finds(i) ==
    Merging(i) => \A x \in Untouched(reader[i], reader[i].must) :
        /\ x \in counts[SlotOf(x.epoch)] /\ x.epoch <= epochs[SlotOf(x.epoch)]
        /\ reader[i].current - x.epoch < Slots
        /\ Found(reader[i], x)

\* What a merge took is of its window.
Fresh(i) ==
    reader[i].at \in {"slot", "buckets", "store", "stored"} =>
        \A x \in Untouched(reader[i], reader[i].merged) : reader[i].current - x.epoch < Slots
EntryOf(me) ==
    [from |-> me.from, q |-> me.ask.q, value |-> Value(me.merged, me.ask.q), count |-> Cardinality(me.merged)]
Stored(i) ==
    reader[i].at = "stored" => /\ Untouched(reader[i], reader[i].must) \subseteq reader[i].merged
                               /\ reader[i].of = {EntryOf(reader[i])}
OfThisAsk(i) ==
    \A c \in reader[i].of :
        c.q = reader[i].ask.q /\ (c.from = reader[i].from \/ reader[i].from - c.from < CacheTicks)

Merge(i) == Noticed(i) /\ Progress(i) /\ Finds(i) /\ Fresh(i) /\ Stored(i) /\ OfThisAsk(i)
ReadersInv == ReaderTypes /\ \A i \in Readers : Merge(i)

\* Recorders only touch slots under a merge: what it must find stands elsewhere.
LEMMA MergeStands ==
    ASSUME RecordersInv, ReaderTypes, NEW i \in Readers, Merge(i), NEW T \in SUBSET (0 .. Slots - 1),
           reader[i].touched \subseteq T, reader'[i] = [reader[i] EXCEPT !.touched = T],
           \A s \in (0 .. Slots - 1) \ T : epochs'[s] = epochs[s] /\ counts[s] \subseteq counts'[s],
           Merging(i) => \A s \in 0 .. Slots - 1 : Clearing(s)' => s \in T
    PROVE  Merge(i)'
<1> DEFINE me == reader[i]
           its == reader'[i]
<1>1. me \in ReaderStates
  BY DEF ReaderTypes
<1>2. /\ its.at = me.at /\ its.ask = me.ask /\ its.from = me.from /\ its.current = me.current /\ its.slot = me.slot
      /\ its.left = me.left /\ its.merged = me.merged /\ its.must = me.must /\ its.of = me.of /\ its.touched = T
  BY <1>1 DEF ReaderStates
<1>3. Merging(i)' <=> Merging(i)
  BY <1>2 DEF Merging
<1>4. \A xs : Untouched(its, xs) \subseteq Untouched(me, xs)
  BY <1>2 DEF Untouched
<1>5. Noticed(i)'
  BY <1>2, <1>3 DEF Noticed
<1>6. Progress(i)'
  <2>1. me.slot \in 0 .. Slots /\ Slots \in Nat
    BY <1>1, SlotsAssumption DEF ReaderStates
  <2>2. me.at = "buckets" /\ Merging(i) => me.slot \in 0 .. Slots - 1
    BY <2>1 DEF Merge, Progress
  <2>3. QED
    BY <1>2, <1>3, <2>2 DEF Merge, Progress
<1>7. Finds(i)'
  <2>1. ASSUME Merging(i), NEW x \in Untouched(its, its.must)
        PROVE  /\ x \in counts'[SlotOf(x.epoch)] /\ x.epoch <= epochs'[SlotOf(x.epoch)]
               /\ its.current - x.epoch < Slots /\ Found(its, x)
    <3>1. x \in Untouched(me, me.must) /\ SlotOf(x.epoch) \notin T
      BY <1>2, <1>4, <2>1 DEF Untouched
    <3>2. SlotOf(x.epoch) \in 0 .. Slots - 1
      BY <1>1, <3>1, SlotIsSlot DEF Untouched, ReaderStates, SampleRecords
    <3>3. /\ x \in counts[SlotOf(x.epoch)] /\ x.epoch <= epochs[SlotOf(x.epoch)]
          /\ me.current - x.epoch < Slots /\ Found(me, x)
      BY <2>1, <3>1 DEF Merge, Finds
    <3>4. Found(its, x)
      BY <1>2, <3>3 DEF Found
    <3>5. QED
      BY <1>2, <3>1, <3>2, <3>3, <3>4
  <2>2. QED
    BY <1>3, <2>1 DEF Finds
<1>8. Fresh(i)'
  BY <1>2, <1>4 DEF Merge, Fresh
<1>9. Stored(i)'
  <2>1. EntryOf(its) = EntryOf(me)
    BY <1>2 DEF EntryOf
  <2>2. QED
    BY <1>2, <1>4, <2>1 DEF Merge, Stored
<1>10. OfThisAsk(i)'
  BY <1>2 DEF Merge, OfThisAsk
<1>11. QED
  BY <1>5, <1>6, <1>7, <1>8, <1>9, <1>10 DEF Merge

\* A recorder that claims nothing disturbs no merge.
LEMMA ReadersStand ==
    ASSUME RecordersInv, ReadersInv, UNCHANGED <<cache, reader>>,
           \A s \in 0 .. Slots - 1 : /\ epochs'[s] = epochs[s] /\ (Clearing(s)' => Clearing(s))
                                     /\ Clearing(s) \/ counts[s] \subseteq counts'[s]
    PROVE  ReadersInv'
<1>1. ReaderTypes'
  BY DEF ReadersInv, ReaderTypes
<1>2. ASSUME NEW i \in Readers PROVE Merge(i)'
  <2>0. reader[i].touched \in SUBSET (0 .. Slots - 1) /\ reader'[i] = [reader[i] EXCEPT !.touched = reader[i].touched]
    BY DEF ReadersInv, ReaderTypes, ReaderStates
  <2>1. CASE Merging(i)
    <3>1. \A s \in 0 .. Slots - 1 : Clearing(s) => s \in reader[i].touched
      BY <2>1 DEF ReadersInv, Merge, Noticed
    <3>2. QED
      BY <2>0, <3>1, MergeStands DEF ReadersInv
  <2>2. CASE ~Merging(i)
    <3>1. reader'[i] = reader[i] /\ (Merging(i)' <=> Merging(i)) /\ ~(reader[i].at \in {"slot", "buckets", "store"})
      BY <2>2 DEF Merging
    <3>2. QED
      BY <2>2, <3>1 DEF ReadersInv, Merge, Noticed, Progress, Finds, Fresh, Stored, OfThisAsk
  <2>3. QED
    BY <2>1, <2>2
<1>3. QED
  BY <1>1, <1>2 DEF ReadersInv

\* A claim is noticed by the merges that are under way.
LEMMA TakeTouches ==
    ASSUME RecordersInv, ReadersInv, NEW r \in Recorders, Claim(r), epochs[Spot(r)] = recorder[r].seen
    PROVE  ReadersInv'
<1> DEFINE me(i) == reader[i]
           T(i) == IF Merging(i) THEN reader[i].touched \cup {Spot(r)} ELSE reader[i].touched
<1>1. /\ recorder[r].at = "claim" /\ UNCHANGED <<clock, counts, cache, recorded, racing>>
      /\ epochs' = [epochs EXCEPT ![Spot(r)] = recorder[r].sample.epoch]
      /\ recorder' = [recorder EXCEPT ![r].at = "clear", ![r].left = 1 .. Levels]
      /\ Touch(Spot(r))
  BY Zenon DEF Claim, Take
<1>2. Spot(r) \in 0 .. Slots - 1
  BY RecorderType DEF RecordersInv
<1>3. \A i \in Readers : reader[i] \in ReaderStates /\ T(i) \in SUBSET (0 .. Slots - 1)
  BY <1>2 DEF ReadersInv, ReaderTypes, ReaderStates
<1>4. \A i \in Readers : reader'[i] = [reader[i] EXCEPT !.touched = T(i)]
  <2>1. ASSUME NEW i \in Readers PROVE reader'[i] = [reader[i] EXCEPT !.touched = T(i)]
    <3>1. CASE Merging(i)
      BY <1>1, <1>3, <3>1 DEF Touch, ReaderStates
    <3>2. CASE ~Merging(i)
      BY <1>1, <1>3, <3>2 DEF Touch, ReaderStates
    <3>3. QED
      BY <3>1, <3>2
  <2>2. QED
    BY <2>1
<1>5. ReaderTypes'
  <2>1. reader' = [i \in Readers |-> IF Merging(i) THEN [reader[i] EXCEPT !.touched = @ \cup {Spot(r)}] ELSE reader[i]]
    BY <1>1 DEF Touch
  <2>2. ASSUME NEW i \in Readers
        PROVE  reader'[i] \in ReaderStates /\ reader'[i].merged = reader[i].merged
    <3> DEFINE me0 == reader[i]
               its0 == T(i)
    <3>1. me0 \in ReaderStates /\ its0 \in SUBSET (0 .. Slots - 1) /\ reader'[i] = [me0 EXCEPT !.touched = its0]
      BY <1>3, <1>4
    <3> HIDE DEF me0, its0
    <3>2. [me0 EXCEPT !.touched = its0] \in ReaderStates /\ [me0 EXCEPT !.touched = its0].merged = me0.merged
      BY ONLY <3>1 DEF ReaderStates
    <3>3. QED
      BY ONLY <3>1, <3>2 DEF me0
  <2>3. QED
    BY <1>1, <2>1, <2>2 DEF ReadersInv, ReaderTypes
<1>6. \A s : Clearing(s)' => Clearing(s) \/ s = Spot(r)
  <2>1. \A o \in Recorders : o # r => recorder'[o] = recorder[o] /\ Spot(o)' = Spot(o)
    BY <1>1 DEF RecordersInv, RecorderTypes, Spot
  <2>2. Spot(r)' = Spot(r)
    BY <1>1 DEF RecordersInv, RecorderTypes, Spot
  <2>3. QED
    BY <2>1, <2>2 DEF Clearing
<1>7. \A s \in 0 .. Slots - 1 : s # Spot(r) => epochs'[s] = epochs[s]
  BY <1>1 DEF RecordersInv, RecorderTypes
<1>8. ASSUME NEW i \in Readers PROVE Merge(i)'
  <2>1. CASE Merging(i)
    <3>1. \A s \in 0 .. Slots - 1 : Clearing(s) => s \in reader[i].touched
      BY <2>1 DEF ReadersInv, Merge, Noticed
    <3>2. T(i) = reader[i].touched \cup {Spot(r)}
      BY <2>1
    <3>3. /\ \A s \in (0 .. Slots - 1) \ T(i) : epochs'[s] = epochs[s] /\ counts[s] \subseteq counts'[s]
          /\ \A s \in 0 .. Slots - 1 : Clearing(s)' => s \in T(i)
      BY <1>1, <1>6, <1>7, <3>1, <3>2
    <3>4. T(i) \in SUBSET (0 .. Slots - 1) /\ reader'[i] = [reader[i] EXCEPT !.touched = T(i)] /\ reader[i].touched \subseteq T(i)
      BY <1>3, <1>4
    <3> HIDE DEF T
    <3>5. QED
      BY <3>3, <3>4, MergeStands DEF ReadersInv
  <2>2. CASE ~Merging(i)
    <3>1. reader'[i] = reader[i] /\ (Merging(i)' <=> Merging(i)) /\ ~(reader[i].at \in {"slot", "buckets", "store"})
      BY <1>1, <2>2 DEF Merging, Touch
    <3>2. QED
      BY <2>2, <3>1 DEF ReadersInv, Merge, Noticed, Progress, Finds, Fresh, Stored, OfThisAsk
  <2>3. QED
    BY <2>1, <2>2
<1>9. QED
  BY <1>5, <1>8 DEF ReadersInv

\* What recorders do, merges stand.
LEMMA RecordersLetReadersBe ==
    ASSUME RecordersInv, ReadersInv, NEW r \in Recorders,
           Record(r) \/ ReadEpoch(r) \/ Claim(r) \/ Clear(r) \/ Count(r)
    PROVE  ReadersInv'
<1>0. Spot(r) \in 0 .. Slots - 1
  BY RecorderType DEF RecordersInv
<1>1. ASSUME UNCHANGED <<cache, reader, epochs>>, NEW v, v.at # "clear" \/ (recorder[r].at = "clear" /\ Spot(r)' = Spot(r)),
             recorder' = [recorder EXCEPT ![r] = v],
             \A s \in 0 .. Slots - 1 : Clearing(s) \/ counts[s] \subseteq counts'[s]
      PROVE  ReadersInv'
  <2>1. /\ recorder'[r] = v
        /\ \A o \in Recorders : o # r => recorder'[o] = recorder[o] /\ Spot(o)' = Spot(o)
    BY <1>1 DEF RecordersInv, RecorderTypes, Spot
  <2>2. \A s : Clearing(s)' => Clearing(s)
    BY <1>1, <2>1 DEF Clearing
  <2>3. QED
    BY <1>1, <2>2, ReadersStand
<1>2. CASE Record(r)
  <2>1. PICK v : v.at # "clear" /\ recorder' = [recorder EXCEPT ![r] = v]
    BY <1>2 DEF Record
  <2>2. QED
    BY <1>1, <1>2, <2>1 DEF Record, ByReaders
<1>3. CASE ReadEpoch(r)
  <2> DEFINE slotEpoch == epochs[Spot(r)]
             v == [recorder[r] EXCEPT !.at = IF slotEpoch = recorder[r].sample.epoch THEN "count" ELSE "claim", !.seen = slotEpoch]
  <2>1. recorder' = [recorder EXCEPT ![r].at = IF slotEpoch = recorder[r].sample.epoch THEN "count" ELSE "claim", ![r].seen = slotEpoch]
    BY <1>3, Zenon DEF ReadEpoch
  <2>2. recorder' = [recorder EXCEPT ![r] = v] /\ v.at # "clear"
    BY <2>1 DEF RecordersInv, RecorderTypes
  <2>3. QED
    BY <1>1, <1>3, <2>2 DEF ReadEpoch, ByReaders
<1>4. CASE Claim(r) /\ epochs[Spot(r)] = recorder[r].seen
  BY <1>4, TakeTouches
<1>5. CASE Claim(r) /\ epochs[Spot(r)] # recorder[r].seen
  <2> DEFINE v == [recorder[r] EXCEPT !.at = "count"]
  <2>1. recorder' = [recorder EXCEPT ![r].at = "count"] /\ UNCHANGED <<epochs, reader, cache, counts>>
    BY <1>5, Zenon DEF Claim, RecorderAt
  <2>2. recorder' = [recorder EXCEPT ![r] = v] /\ v.at # "clear"
    BY <2>1 DEF RecordersInv, RecorderTypes
  <2>3. QED
    BY <1>1, <2>1, <2>2
<1>6. CASE Clear(r)
  <2> DEFINE b == CHOOSE b \in recorder[r].left : \A c \in recorder[r].left : b <= c
             left == recorder[r].left \ {b}
             v == [recorder[r] EXCEPT !.left = left, !.at = IF left = {} THEN "count" ELSE "clear"]
  <2>1. /\ recorder[r].at = "clear" /\ UNCHANGED <<epochs, cache, reader>>
        /\ counts' = [counts EXCEPT ![Spot(r)] = {x \in @ : x.bucket # b}]
        /\ recorder' = [recorder EXCEPT ![r].left = left, ![r].at = IF left = {} THEN "count" ELSE "clear"]
    BY <1>6, Zenon DEF Clear, ByReaders
  <2> HIDE DEF b
  <2>2. recorder' = [recorder EXCEPT ![r] = v] /\ Spot(r)' = Spot(r)
    BY <2>1 DEF RecordersInv, RecorderTypes, Spot
  <2>3. Clearing(Spot(r)) /\ \A s \in 0 .. Slots - 1 : s # Spot(r) => counts'[s] = counts[s]
    BY <1>0, <2>1 DEF RecordersInv, RecorderTypes, Clearing
  <2>4. \A s \in 0 .. Slots - 1 : Clearing(s) \/ counts[s] \subseteq counts'[s]
    <3>1. ASSUME NEW s \in 0 .. Slots - 1 PROVE Clearing(s) \/ counts[s] \subseteq counts'[s]
      <4>1. CASE s = Spot(r)
        BY <2>3, <4>1, Zenon
      <4>2. CASE s # Spot(r)
        BY <2>3, <4>2
      <4>3. QED
        BY <4>1, <4>2
    <3>2. QED
      BY <3>1
  <2> HIDE DEF v
  <2>5. QED
    BY <1>1, <2>1, <2>2, <2>4
<1>7. CASE Count(r)
  <2>1. recorder' = [recorder EXCEPT ![r] = AtRest] /\ AtRest.at # "clear" /\ UNCHANGED <<epochs, cache, reader>>
        /\ counts' = [counts EXCEPT ![Spot(r)] = @ \cup {recorder[r].sample}]
    BY <1>7 DEF Count, AtRest, ByReaders
  <2>2. \A s \in 0 .. Slots - 1 : counts[s] \subseteq counts'[s]
    BY <1>0, <2>1 DEF RecordersInv, RecorderTypes
  <2>3. QED
    BY <1>1, <2>1, <2>2
<1>8. QED
  BY <1>2, <1>3, <1>4, <1>5, <1>6, <1>7

\* One reader moves.
LEMMA ReaderMoves ==
    ASSUME ReadersInv, ByRecorders, NEW i \in Readers, NEW v \in ReaderStates, IsFiniteSet(v.merged),
           reader' = [reader EXCEPT ![i] = v], cache' \in SUBSET Entries, Merge(i)'
    PROVE  ReadersInv'
<1>1. /\ reader' \in [Readers -> ReaderStates] /\ reader'[i] = v
      /\ \A j \in Readers : j # i => reader'[j] = reader[j]
  BY DEF ReadersInv, ReaderTypes
<1>2. ReaderTypes'
  BY <1>1 DEF ReadersInv, ReaderTypes
<1>3. UNCHANGED <<epochs, counts>> /\ \A s : Clearing(s)' <=> Clearing(s)
  BY DEF ByRecorders, Clearing, Spot
<1>4. ASSUME NEW j \in Readers, j # i PROVE Merge(j)'
  BY <1>1, <1>3, <1>4 DEF ReadersInv, Merge, Merging, Noticed, Progress, Finds, Fresh, Stored, OfThisAsk
<1>5. QED
  BY <1>2, <1>4 DEF ReadersInv

\* What a reader works on.
LEMMA ReaderType ==
    ASSUME ReadersInv, NEW i \in Readers
    PROVE  /\ reader[i] \in ReaderStates /\ reader[i].ask \in Asks /\ reader[i].ask.q \in 1 .. 100
           /\ reader[i].merged \in SUBSET SampleRecords /\ IsFiniteSet(reader[i].merged)
           /\ reader[i].slot \in 0 .. Slots /\ reader[i].current \in Nat
           /\ reader[i].must \in SUBSET SampleRecords
  BY AsksAssumption DEF ReadersInv, ReaderTypes, ReaderStates

\* A question starts with nothing in hand.
LEMMA QuantileKeeps ==
    ASSUME RecordersInv, ReadersInv, NEW i \in Readers, Quantile(i) PROVE ReadersInv'
<1> DEFINE v(a) == [NotAsking EXCEPT !.at = "cache", !.ask = a, !.from = clock]
<1>1. PICK a \in Asks : reader' = [reader EXCEPT ![i] = v(a)]
  BY DEF Quantile
<1>2. NotAsking \in ReaderStates
  BY AsksAssumption, SlotsAssumption DEF NotAsking, ReaderStates
<1>3. /\ v(a) \in ReaderStates /\ v(a).at = "cache" /\ v(a).of = {} /\ v(a).merged = {}
  BY <1>2 DEF ReaderStates, NotAsking, RecordersInv, RecorderTypes
<1> HIDE DEF v
<1>4. reader'[i] = v(a) /\ ByRecorders /\ cache' \in SUBSET Entries
  BY <1>1 DEF Quantile, ReadersInv, ReaderTypes
<1>5. Merge(i)'
  BY <1>3, <1>4 DEF Merge, Merging, Noticed, Progress, Finds, Fresh, Stored, OfThisAsk
<1>6. IsFiniteSet(v(a).merged)
  BY <1>3, FS_EmptySet
<1>7. QED
  BY <1>1, <1>3, <1>4, <1>5, <1>6, ReaderMoves

\* A cached entry is used when it is fresh, and of the question.
LEMMA ReadCacheKeeps ==
    ASSUME RecordersInv, ReadersInv, NEW i \in Readers, ReadCache(i) PROVE ReadersInv'
<1>0. reader[i] \in ReaderStates /\ IsFiniteSet(reader[i].merged)
  BY ReaderType
<1>1. ASSUME NEW v \in ReaderStates, v.at \in {"cached", "merge"}, v.merged = reader[i].merged,
             v.ask = reader[i].ask, v.from = reader[i].from,
             \A c \in v.of : c.q = v.ask.q /\ (c.from = v.from \/ v.from - c.from < CacheTicks),
             reader' = [reader EXCEPT ![i] = v]
      PROVE  ReadersInv'
  <2>1. reader'[i] = v /\ ByRecorders /\ cache' \in SUBSET Entries
    BY <1>1 DEF ReadCache, ReadersInv, ReaderTypes
  <2>2. Merge(i)'
    BY <1>1, <2>1 DEF Merge, Merging, Noticed, Progress, Finds, Fresh, Stored, OfThisAsk
  <2>3. QED
    BY <1>0, <1>1, <2>1, <2>2, ReaderMoves
<1>2. CASE \E c \in CachedFor(i) : reader' = [reader EXCEPT ![i].at = "cached", ![i].of = {c}]
  <2>1. PICK c \in CachedFor(i) : reader' = [reader EXCEPT ![i].at = "cached", ![i].of = {c}]
    BY <1>2
  <2> DEFINE v == [reader[i] EXCEPT !.at = "cached", !.of = {c}]
  <2>2. c \in Entries /\ c.q = reader[i].ask.q /\ reader[i].from - c.from < CacheTicks
    BY <2>1 DEF CachedFor, ReadersInv, ReaderTypes
  <2>3. reader' = [reader EXCEPT ![i] = v]
    BY <2>1 DEF ReadersInv, ReaderTypes
  <2>4. /\ v \in ReaderStates /\ v.at = "cached" /\ v.merged = reader[i].merged /\ v.of = {c}
        /\ v.ask = reader[i].ask /\ v.from = reader[i].from
    BY <1>0, <2>2 DEF ReaderStates
  <2> HIDE DEF v
  <2>5. QED
    BY <1>1, <2>2, <2>3, <2>4
<1>3. CASE reader' = [reader EXCEPT ![i].at = "merge"]
  <2> DEFINE v == [reader[i] EXCEPT !.at = "merge"]
  <2>1. reader' = [reader EXCEPT ![i] = v]
    BY <1>3 DEF ReadersInv, ReaderTypes
  <2>2. /\ v \in ReaderStates /\ v.at = "merge" /\ v.merged = reader[i].merged /\ v.of = reader[i].of
        /\ v.ask = reader[i].ask /\ v.from = reader[i].from
    BY <1>0 DEF ReaderStates
  <2> HIDE DEF v
  <2>3. \A c \in reader[i].of : c.q = reader[i].ask.q /\ (c.from = reader[i].from \/ reader[i].from - c.from < CacheTicks)
    BY DEF ReadersInv, Merge, OfThisAsk
  <2>4. QED
    BY <1>1, <2>1, <2>2, <2>3
<1>4. QED
  BY <1>2, <1>3, Zenon DEF ReadCache

\* A merge starts with every sample of its window still to be found in its slot.
LEMMA StartMergeKeeps ==
    ASSUME RecordersInv, ReadersInv, NEW i \in Readers, StartMerge(i) PROVE ReadersInv'
<1> DEFINE must == {x \in recorded \ racing : Epoch(clock) - x.epoch < Slots}
           touched == {s \in 0 .. Slots - 1 : Clearing(s)}
           v == [reader[i] EXCEPT !.at = "slot", !.slot = 0, !.current = Epoch(clock), !.merged = {},
                                  !.must = must, !.touched = touched]
<1>0. reader[i] \in ReaderStates /\ Slots \in Nat /\ Slots > 0
  BY ReaderType, SlotsAssumption
<1>1. reader' = [reader EXCEPT ![i] = v] /\ ByRecorders /\ cache' \in SUBSET Entries
  BY DEF StartMerge, ReadersInv, ReaderTypes
<1>2. must \in SUBSET SampleRecords /\ touched \in SUBSET (0 .. Slots - 1) /\ Epoch(clock) \in Nat
  BY EpochIsNat DEF RecordersInv, RecorderTypes
<1>3. \A x \in must : /\ x \in counts[SlotOf(x.epoch)] /\ x.epoch <= epochs[SlotOf(x.epoch)]
                      /\ Epoch(clock) - x.epoch < Slots /\ SlotOf(x.epoch) >= 0
  <2>1. \A x \in must : SlotOf(x.epoch) >= 0
    BY <1>2, SlotIsSlot DEF SampleRecords
  <2>2. QED
    BY <2>1 DEF RecordersInv, CountedKept
<1>4. \A s \in 0 .. Slots - 1 : Clearing(s) => s \in touched
  OBVIOUS
<1> HIDE DEF must, touched
<1>5. /\ v \in ReaderStates /\ v.at = "slot" /\ v.slot = 0 /\ v.current = Epoch(clock) /\ v.merged = {} /\ v.must = must
      /\ v.touched = touched /\ v.of = reader[i].of /\ v.ask = reader[i].ask /\ v.from = reader[i].from
  <2> DEFINE me == reader[i]
             c == Epoch(clock)
             u == [me EXCEPT !.at = "slot", !.slot = 0, !.current = c]
  <2>0. me \in ReaderStates /\ c \in Nat /\ 0 \in 0 .. Slots
    BY <1>0, <1>2
  <2> HIDE DEF me, c
  <2>1. /\ u \in ReaderStates /\ u.at = "slot" /\ u.slot = 0 /\ u.current = c
        /\ u.of = me.of /\ u.ask = me.ask /\ u.from = me.from
    BY <2>0 DEF ReaderStates
  <2>2. v = [u EXCEPT !.merged = {}, !.must = must, !.touched = touched]
    BY <2>0 DEF ReaderStates, me, c
  <2> HIDE DEF u, v
  <2>3. QED
    BY <1>2, <2>1, <2>2 DEF ReaderStates, me, c
<1> HIDE DEF v
<1>6. reader'[i] = v /\ UNCHANGED <<epochs, counts>> /\ \A s : Clearing(s)' <=> Clearing(s)
  BY <1>1 DEF ReadersInv, ReaderTypes, ByRecorders, Clearing, Spot
<1>7. Noticed(i)'
  BY <1>4, <1>5, <1>6 DEF Noticed
<1>8. Progress(i)'
  BY <1>0, <1>5, <1>6 DEF Progress
<1>9. Finds(i)'
  <2>1. ASSUME NEW x \in must PROVE Found(v, x)
    <3>1. SlotOf(x.epoch) \in Int /\ SlotOf(x.epoch) >= 0
      BY <1>2, SlotIsSlot DEF SampleRecords
    <3>2. QED
      BY <1>5, <3>1 DEF Found
  <2>2. QED
    BY <1>3, <1>5, <1>6, <2>1 DEF Finds, Untouched
<1>10. Fresh(i)' /\ Stored(i)'
  BY <1>5, <1>6 DEF Fresh, Stored, Untouched
<1>11. OfThisAsk(i)'
  BY <1>5, <1>6 DEF OfThisAsk, ReadersInv, Merge
<1>12. Merge(i)' /\ IsFiniteSet(v.merged)
  BY <1>5, <1>7, <1>8, <1>9, <1>10, <1>11, FS_EmptySet DEF Merge
<1>13. QED
  BY <1>1, <1>5, <1>12, ReaderMoves

\* A slot that is passed over holds nothing the merge must find.
LEMMA ReadSlotKeeps ==
    ASSUME RecordersInv, ReadersInv, NEW i \in Readers, ReadSlot(i) PROVE ReadersInv'
<1> DEFINE me == reader[i]
           e == epochs[me.slot]
           live == e >= 0 /\ me.current - e < Slots
           v == IF live THEN [me EXCEPT !.at = "buckets", !.left = 1 .. Levels]
                ELSE [me EXCEPT !.at = NextSlot(i), !.slot = me.slot + 1]
<1>0. me \in ReaderStates /\ Slots \in Nat /\ me.at = "slot" /\ me.slot \in 0 .. Slots - 1 /\ e \in Nat \cup {-1}
      /\ me.current \in Nat /\ IsFiniteSet(me.merged) /\ Merge(i)
  <2>1. me \in ReaderStates /\ Slots \in Nat /\ me.at = "slot" /\ me.slot \in 0 .. Slots /\ me.current \in Nat
        /\ IsFiniteSet(me.merged) /\ Merge(i)
    BY ReaderType, SlotsAssumption DEF ReadSlot, ReadersInv
  <2>2. me.slot # Slots
    BY <2>1 DEF Merge, Progress, Merging
  <2>3. me.slot \in 0 .. Slots - 1
    BY <2>1, <2>2
  <2>4. QED
    BY <2>1, <2>3 DEF RecordersInv, RecorderTypes
<1>1. reader' = [reader EXCEPT ![i] = v] /\ ByRecorders /\ cache' \in SUBSET Entries
  BY DEF ReadSlot, ReadersInv, ReaderTypes
<1>2. NextSlot(i) = IF me.slot + 1 < Slots THEN "slot" ELSE "store"
  BY DEF NextSlot
<1> HIDE DEF me, e
<1>3. v \in ReaderStates
  <2>1. CASE live
    BY <1>0, <2>1 DEF ReaderStates
  <2>2. CASE ~live
    <3>1. me.slot + 1 \in 0 .. Slots /\ NextSlot(i) \in {"slot", "store"}
      BY <1>0, <1>2
    <3>2. v = [me EXCEPT !.at = NextSlot(i), !.slot = me.slot + 1]
      BY <2>2
    <3>3. QED
      BY <1>0, <3>1, <3>2 DEF ReaderStates
  <2>3. QED
    BY <2>1, <2>2
<1>4. /\ v.merged = me.merged /\ v.must = me.must /\ v.touched = me.touched /\ v.of = me.of /\ v.ask = me.ask
      /\ v.from = me.from /\ v.current = me.current
      /\ live => v.at = "buckets" /\ v.left = 1 .. Levels /\ v.slot = me.slot
      /\ ~live => v.at = NextSlot(i) /\ v.slot = me.slot + 1
  BY <1>0, <1>2 DEF ReaderStates
<1> HIDE DEF v
<1>5. /\ reader'[i] = v /\ UNCHANGED <<epochs, counts>> /\ \A s : Clearing(s)' <=> Clearing(s)
      /\ Merging(i) /\ Merging(i)'
  <2>1. reader'[i] = v /\ v.at \in {"buckets", "slot", "store"}
    BY <1>1, <1>2, <1>4 DEF ReadersInv, ReaderTypes
  <2>2. QED
    BY <1>0, <1>1, <2>1 DEF me, Merging, ByRecorders, Clearing, Spot
<1>6. Noticed(i)'
  BY <1>0, <1>4, <1>5 DEF Merge, Noticed, me
<1>7. Progress(i)'
  <2>1. v.at = "store" <=> v.slot = Slots
    BY <1>0, <1>2, <1>4
  <2>2. v.at = "buckets" => epochs[v.slot] >= 0 /\ v.current - epochs[v.slot] < Slots
    BY <1>2, <1>4 DEF e
  <2>3. QED
    BY <1>5, <2>1, <2>2 DEF Progress
<1>8. Finds(i)'
  <2>1. ASSUME NEW x \in Untouched(me, me.must)
        PROVE  /\ x \in counts[SlotOf(x.epoch)] /\ x.epoch <= epochs[SlotOf(x.epoch)]
               /\ me.current - x.epoch < Slots /\ Found(v, x)
    <3>1. /\ x \in counts[SlotOf(x.epoch)] /\ x.epoch <= epochs[SlotOf(x.epoch)]
          /\ me.current - x.epoch < Slots /\ Found(me, x)
      BY <1>0, <1>5 DEF Merge, Finds, me
    <3>2. x.epoch \in Nat /\ SlotOf(x.epoch) \in 0 .. Slots - 1 /\ x.bucket \in 1 .. Levels
      BY <1>0, SlotIsSlot DEF Untouched, ReaderStates, SampleRecords
    <3>3. CASE live
      BY <1>0, <1>4, <3>1, <3>2, <3>3 DEF Found
    <3>4. CASE ~live
      <4>1. SlotOf(x.epoch) # me.slot
        BY <1>0, <3>1, <3>2, <3>4 DEF e
      <4>2. x \in me.merged \/ me.slot + 1 <= SlotOf(x.epoch)
        BY <1>0, <3>1, <3>2, <4>1 DEF Found
      <4>3. v.at # "buckets" /\ v.slot = me.slot + 1 /\ v.merged = me.merged
        BY <1>2, <1>4, <3>4
      <4>4. QED
        BY <1>0, <3>1, <3>2, <4>2, <4>3 DEF Found
    <3>5. QED
      BY <3>3, <3>4
  <2>2. QED
    BY <1>4, <1>5, <2>1 DEF Finds, Untouched
<1>9. Fresh(i)'
  BY <1>0, <1>4, <1>5 DEF Merge, Fresh, Untouched, me
<1>10. Stored(i)'
  BY <1>2, <1>4, <1>5 DEF Stored
<1>11. OfThisAsk(i)'
  BY <1>0, <1>4, <1>5 DEF OfThisAsk, Merge, me
<1>12. Merge(i)' /\ IsFiniteSet(v.merged)
  BY <1>0, <1>4, <1>6, <1>7, <1>8, <1>9, <1>10, <1>11 DEF Merge
<1>13. QED
  BY <1>1, <1>3, <1>12, ReaderMoves

\* A bucket that is read gives all it holds, and of the window unless it was claimed.
LEMMA ReadBucketKeeps ==
    ASSUME RecordersInv, ReadersInv, NEW i \in Readers, ReadBucket(i) PROVE ReadersInv'
<1> DEFINE me == reader[i]
           b == CHOOSE b \in me.left : \A c \in me.left : b <= c
           left == me.left \ {b}
           taken == {x \in counts[me.slot] : x.bucket = b}
           read == [me EXCEPT !.left = left, !.merged = me.merged \cup taken]
           v == IF left # {} THEN read ELSE [read EXCEPT !.at = NextSlot(i), !.slot = me.slot + 1]
<1>0. /\ me \in ReaderStates /\ Slots \in Nat /\ me.at = "buckets" /\ me.slot \in 0 .. Slots - 1
      /\ me.current \in Nat /\ IsFiniteSet(me.merged) /\ Merge(i) /\ me.merged \in SUBSET SampleRecords
  <2>1. me \in ReaderStates /\ Slots \in Nat /\ me.at = "buckets" /\ me.slot \in 0 .. Slots /\ me.current \in Nat
        /\ IsFiniteSet(me.merged) /\ Merge(i) /\ me.merged \in SUBSET SampleRecords
    BY ReaderType, SlotsAssumption DEF ReadBucket, ReadersInv
  <2>2. me.slot # Slots
    BY <2>1 DEF Merge, Progress, Merging
  <2>3. QED
    BY <2>1, <2>2
<1>1. reader' = [reader EXCEPT ![i] = v] /\ ByRecorders /\ cache' \in SUBSET Entries
  <2>1. reader' = [reader EXCEPT ![i] = v] /\ ByRecorders /\ UNCHANGED cache
    BY Zenon DEF ReadBucket
  <2>2. QED
    BY <2>1 DEF ReadersInv, ReaderTypes
<1>2. NextSlot(i) = IF me.slot + 1 < Slots THEN "slot" ELSE "store"
  BY DEF NextSlot
<1>3. taken \in SUBSET SampleRecords /\ IsFiniteSet(taken) /\ taken \subseteq counts[me.slot]
      /\ \A x \in counts[me.slot] : x.bucket = b => x \in taken
  <2>1. counts[me.slot] \in SUBSET SampleRecords /\ IsFiniteSet(counts[me.slot]) /\ taken \subseteq counts[me.slot]
    BY <1>0 DEF RecordersInv, RecorderTypes
  <2>2. QED
    BY <2>1, FS_Subset
<1>4. left \subseteq me.left /\ \A c \in me.left : c = b \/ c \in left
  OBVIOUS
<1> HIDE DEF me, b, left, taken
<1>5. /\ read \in ReaderStates /\ read.at = "buckets" /\ read.slot = me.slot /\ read.left = left
      /\ read.merged = me.merged \cup taken /\ read.must = me.must /\ read.touched = me.touched /\ read.of = me.of
      /\ read.ask = me.ask /\ read.from = me.from /\ read.current = me.current
  BY <1>0, <1>3, <1>4 DEF ReaderStates
<1> HIDE DEF read
<1>6. /\ v \in ReaderStates /\ v.merged = me.merged \cup taken /\ v.must = me.must /\ v.touched = me.touched
      /\ v.of = me.of /\ v.ask = me.ask /\ v.from = me.from /\ v.current = me.current /\ v.left = left
      /\ left # {} => v.at = "buckets" /\ v.slot = me.slot
      /\ left = {} => v.at = NextSlot(i) /\ v.slot = me.slot + 1
  <2>1. CASE left # {}
    BY <1>5, <2>1
  <2>2. CASE left = {}
    <3>1. me.slot + 1 \in 0 .. Slots /\ NextSlot(i) \in {"slot", "store"}
      BY <1>0, <1>2
    <3>2. v = [read EXCEPT !.at = NextSlot(i), !.slot = me.slot + 1]
      BY <2>2
    <3> HIDE DEF v
    <3>3. QED
      BY <1>5, <2>2, <3>1, <3>2 DEF ReaderStates
  <2>3. QED
    BY <2>1, <2>2
<1> HIDE DEF v
<1>7. /\ reader'[i] = v /\ UNCHANGED <<epochs, counts>> /\ \A s : Clearing(s)' <=> Clearing(s)
      /\ Merging(i) /\ Merging(i)'
  <2>1. reader'[i] = v /\ v.at \in {"buckets", "slot", "store"}
    BY <1>1, <1>2, <1>6 DEF ReadersInv, ReaderTypes
  <2>2. QED
    BY <1>0, <1>1, <2>1 DEF me, Merging, ByRecorders, Clearing, Spot
<1>8. Noticed(i)'
  BY <1>0, <1>6, <1>7 DEF Merge, Noticed, me
<1>9. Progress(i)'
  <2>1. v.at = "store" <=> v.slot = Slots
    BY <1>0, <1>2, <1>6
  <2>2. v.at = "buckets" /\ v.slot \notin v.touched => epochs[v.slot] >= 0 /\ v.current - epochs[v.slot] < Slots
    <3>1. v.at = "buckets" => v.slot = me.slot
      BY <1>2, <1>6
    <3>2. QED
      BY <1>0, <1>6, <1>7, <3>1 DEF Merge, Progress, me
  <2>3. QED
    BY <1>7, <2>1, <2>2 DEF Progress
<1>10. Finds(i)'
  <2>1. ASSUME NEW x \in Untouched(me, me.must)
        PROVE  /\ x \in counts[SlotOf(x.epoch)] /\ x.epoch <= epochs[SlotOf(x.epoch)]
               /\ me.current - x.epoch < Slots /\ Found(v, x)
    <3>1. /\ x \in counts[SlotOf(x.epoch)] /\ x.epoch <= epochs[SlotOf(x.epoch)]
          /\ me.current - x.epoch < Slots /\ Found(me, x)
      BY <1>0, <1>7 DEF Merge, Finds, me
    <3>2. x.epoch \in Nat /\ SlotOf(x.epoch) \in 0 .. Slots - 1
      BY <1>0, SlotIsSlot DEF Untouched, ReaderStates, SampleRecords
    <3>3. CASE x \in me.merged
      BY <1>6, <3>1, <3>3 DEF Found
    <3>4. CASE me.slot < SlotOf(x.epoch)
      <4>1. v.slot < SlotOf(x.epoch) \/ (v.slot = SlotOf(x.epoch) /\ v.at # "buckets")
        BY <1>0, <1>2, <1>6, <3>2, <3>4
      <4>2. QED
        BY <3>1, <4>1 DEF Found
    <3>5. CASE me.slot = SlotOf(x.epoch) /\ x.bucket \in me.left
      <4>1. CASE x.bucket = b
        BY <1>3, <1>6, <3>1, <3>5, <4>1 DEF Found
      <4>2. CASE x.bucket \in left
        BY <1>6, <3>1, <3>5, <4>2 DEF Found
      <4>3. QED
        BY <1>4, <3>5, <4>1, <4>2
    <3>6. QED
      BY <1>0, <3>1, <3>3, <3>4, <3>5 DEF Found
  <2>2. QED
    BY <1>6, <1>7, <2>1 DEF Finds, Untouched
<1>11. Fresh(i)'
  <2>1. ASSUME NEW x \in me.merged \cup taken, SlotOf(x.epoch) \notin me.touched
        PROVE  me.current - x.epoch < Slots
    <3>1. CASE x \in me.merged
      BY <1>0, <2>1, <3>1 DEF Merge, Fresh, Untouched, me
    <3>2. CASE x \in taken
      <4>1. SlotOf(x.epoch) = me.slot /\ (~Clearing(me.slot) => x.epoch = epochs[me.slot])
        BY <1>0, <1>3, <3>2 DEF RecordersInv, SlotsHold
      <4>2. ~Clearing(me.slot)
        BY <1>0, <1>7, <2>1, <4>1 DEF Merge, Noticed, me
      <4>3. me.current - epochs[me.slot] < Slots
        BY <1>0, <1>7, <2>1, <4>1 DEF Merge, Progress, me
      <4>4. QED
        BY <4>1, <4>2, <4>3
    <3>3. QED
      BY <2>1, <3>1, <3>2
  <2>2. QED
    BY <1>6, <1>7, <2>1 DEF Fresh, Untouched
<1>12. Stored(i)'
  BY <1>2, <1>6, <1>7 DEF Stored
<1>13. OfThisAsk(i)'
  BY <1>0, <1>6, <1>7 DEF OfThisAsk, Merge, me
<1>14. Merge(i)'
  BY <1>8, <1>9, <1>10, <1>11, <1>12, <1>13 DEF Merge
<1>15. IsFiniteSet(v.merged)
  <2>1. IsFiniteSet(me.merged \cup taken)
    BY <1>0, <1>3, FS_Union
  <2>2. QED
    BY <1>6, <2>1
<1>16. QED
  BY <1>1, <1>6, <1>14, <1>15, ReaderMoves

\* What is stored is the quantile of what was merged.
LEMMA StoreCacheKeeps ==
    ASSUME RecordersInv, ReadersInv, NEW i \in Readers, StoreCache(i) PROVE ReadersInv'
<1> DEFINE me == reader[i]
           entry == EntryOf(me)
           v == [me EXCEPT !.at = "stored", !.of = {entry}]
<1>0. /\ me \in ReaderStates /\ Slots \in Nat /\ me.at = "store" /\ me.slot = Slots
      /\ IsFiniteSet(me.merged) /\ Merge(i) /\ me.merged \in SUBSET SampleRecords /\ me.ask.q \in 1 .. 100
      /\ me.must \in SUBSET SampleRecords
  <2>1. me \in ReaderStates /\ Slots \in Nat /\ me.at = "store" /\ IsFiniteSet(me.merged) /\ Merge(i)
        /\ me.merged \in SUBSET SampleRecords /\ me.ask.q \in 1 .. 100 /\ me.must \in SUBSET SampleRecords
    BY ReaderType, SlotsAssumption DEF StoreCache, ReadersInv
  <2>2. me.slot = Slots
    BY <2>1 DEF Merge, Progress, Merging
  <2>3. QED
    BY <2>1, <2>2
<1>1. entry \in Entries /\ entry.q = me.ask.q /\ entry.from = me.from
  <2>1. Value(me.merged, me.ask.q) \in Nat /\ Cardinality(me.merged) \in Nat
    BY <1>0, ValueIsQuantile
  <2>2. QED
    BY <1>0, <2>1 DEF EntryOf, Entries, ReaderStates
<1>2. reader' = [reader EXCEPT ![i] = v] /\ ByRecorders /\ cache' \in SUBSET Entries
  <2>1. reader' = [reader EXCEPT ![i] = v] /\ ByRecorders /\ cache' = {entry}
    BY Zenon DEF StoreCache, EntryOf
  <2> HIDE DEF entry, v
  <2>2. QED
    BY <1>1, <2>1
<1>3. EntryOf(v) = EntryOf(me)
  BY <1>0 DEF ReaderStates, EntryOf
<1> HIDE DEF me, entry
<1>4. /\ v \in ReaderStates /\ v.at = "stored" /\ v.of = {entry} /\ v.merged = me.merged /\ v.must = me.must
      /\ v.touched = me.touched /\ v.ask = me.ask /\ v.from = me.from /\ v.current = me.current
  BY <1>0, <1>1 DEF ReaderStates
<1> HIDE DEF v
<1>5. reader'[i] = v /\ ~Merging(i)'
  <2>1. reader'[i] = v
    BY <1>2 DEF ReadersInv, ReaderTypes
  <2>2. QED
    BY <1>4, <2>1 DEF Merging
<1>6. Noticed(i)' /\ Progress(i)' /\ Finds(i)'
  BY <1>5 DEF Noticed, Progress, Finds
<1>7. Fresh(i)'
  BY <1>0, <1>4, <1>5 DEF Merge, Fresh, Untouched, me
<1>8. Stored(i)'
  <2>1. ASSUME NEW x \in Untouched(me, me.must) PROVE x \in me.merged
    <3>1. Found(me, x)
      BY <1>0, <2>1 DEF Merge, Finds, Merging, me
    <3>2. SlotOf(x.epoch) \in 0 .. Slots - 1
      BY <1>0, <2>1, SlotIsSlot DEF Untouched, SampleRecords
    <3>3. QED
      BY <1>0, <3>1, <3>2 DEF Found
  <2>2. QED
    BY <1>3, <1>4, <1>5, <2>1 DEF Stored, Untouched, entry
<1>9. OfThisAsk(i)'
  BY <1>1, <1>4, <1>5 DEF OfThisAsk
<1>10. Merge(i)' /\ IsFiniteSet(v.merged)
  BY <1>0, <1>4, <1>6, <1>7, <1>8, <1>9 DEF Merge
<1>11. QED
  BY <1>2, <1>4, <1>10, ReaderMoves

-----------------------------------------------------------------------------
(* Both together. *)

TrackerInv == RecordersInv /\ ReadersInv

\* The tracker starts empty.
LEMMA TrackerStarts == TrackerInit => TrackerInv
<1> SUFFICES ASSUME TrackerInit PROVE TrackerInv
  OBVIOUS
<1>1. AtRest \in RecorderStates /\ NotAsking \in ReaderStates
      /\ AtRest.at = "idle" /\ NotAsking.at = "idle" /\ NotAsking.merged = {} /\ NotAsking.of = {}
  BY AsksAssumption, SlotsAssumption, LevelsAssumption
  DEF AtRest, NotAsking, RecorderStates, ReaderStates, SampleRecords
<1>2. /\ clock = 0 /\ cache = {} /\ recorded = {} /\ racing = {}
      /\ epochs = [s \in 0 .. Slots - 1 |-> -1] /\ counts = [s \in 0 .. Slots - 1 |-> {}]
      /\ recorder = [r \in Recorders |-> AtRest] /\ reader = [i \in Readers |-> NotAsking]
  BY DEF TrackerInit
<1> HIDE DEF AtRest, NotAsking
<1>3. RecorderTypes
  BY <1>1, <1>2, FS_EmptySet DEF RecorderTypes, RecorderStates
<1>4. InWindow /\ SlotsHold /\ Rotation /\ CountedKept
  BY <1>1, <1>2 DEF InWindow, SlotsHold, Rotation, Rotates, CountedKept
<1>5. ReaderTypes
  BY <1>1, <1>2, FS_EmptySet DEF ReaderTypes
<1>6. ASSUME NEW i \in Readers PROVE Merge(i)
  BY <1>1, <1>2 DEF Merge, Merging, Noticed, Progress, Finds, Fresh, Stored, OfThisAsk
<1>7. QED
  BY <1>3, <1>4, <1>5, <1>6 DEF TrackerInv, RecordersInv, ReadersInv

\* Readers write no slot.
LEMMA ByReadersKeeps ==
    ASSUME RecordersInv, UNCHANGED <<clock, epochs, counts, recorder, recorded, racing>> PROVE RecordersInv'
  BY DEF RecordersInv, RecorderTypes, InWindow, SlotsHold, Rotation, Rotates, CountedKept, Clearing, Spot, Epoch

\* The invariant is inductive.
LEMMA TrackerKeeps == TrackerInv /\ [TrackerStep]_trackerVars => TrackerInv'
<1> SUFFICES ASSUME TrackerInv, [TrackerStep]_trackerVars PROVE TrackerInv'
  OBVIOUS
<1>0. RecordersInv /\ ReadersInv
  BY DEF TrackerInv
<1>1. ASSUME NEW r \in Recorders, Record(r) \/ ReadEpoch(r) \/ Claim(r) \/ Clear(r) \/ Count(r)
      PROVE  TrackerInv'
  <2>1. ReadersInv'
    BY <1>0, <1>1, RecordersLetReadersBe
  <2>2. RecordersInv'
    <3>1. CASE Record(r)
      BY <1>0, <3>1, RecordKeeps
    <3>2. CASE ReadEpoch(r)
      BY <1>0, <3>2, ReadEpochKeeps
    <3>3. CASE Claim(r)
      BY <1>0, <3>3, TakeKeeps, ClaimFailsKeeps
    <3>4. CASE Clear(r)
      BY <1>0, <3>4, ClearKeeps
    <3>5. CASE Count(r)
      BY <1>0, <3>5, CountKeeps
    <3>6. QED
      BY <1>1, <3>1, <3>2, <3>3, <3>4, <3>5
  <2>3. QED
    BY <2>1, <2>2 DEF TrackerInv
<1>2. ASSUME NEW i \in Readers,
             Quantile(i) \/ ReadCache(i) \/ StartMerge(i) \/ ReadSlot(i) \/ ReadBucket(i) \/ StoreCache(i)
      PROVE  TrackerInv'
  <2>1. UNCHANGED <<clock, epochs, counts, recorder, recorded, racing>>
    BY <1>2, Zenon DEF Quantile, ReadCache, StartMerge, ReadSlot, ReadBucket, StoreCache, ByRecorders
  <2>2. ReadersInv'
    BY <1>0, <1>2, QuantileKeeps, ReadCacheKeeps, StartMergeKeeps, ReadSlotKeeps, ReadBucketKeeps, StoreCacheKeeps
  <2>3. QED
    BY <1>0, <2>1, <2>2, ByReadersKeeps DEF TrackerInv
<1>3. CASE Tick
  <2>1. UNCHANGED <<cache, reader, epochs, counts, recorder>>
    BY <1>3 DEF Tick, ByRecorders
  <2>2. \A s : Clearing(s)' <=> Clearing(s)
    BY <2>1 DEF Clearing, Spot
  <2>3. ReadersInv'
    BY <1>0, <2>1, <2>2, ReadersStand
  <2>4. QED
    BY <1>0, <1>3, <2>3, TickKeeps DEF TrackerInv
<1>4. CASE UNCHANGED trackerVars
  <2>1. UNCHANGED <<clock, epochs, counts, cache, recorder, reader, recorded, racing>>
    BY <1>4 DEF trackerVars
  <2>2. \A s : Clearing(s)' <=> Clearing(s)
    BY <2>1 DEF Clearing, Spot
  <2>3. ReadersInv'
    BY <1>0, <2>1, <2>2, ReadersStand
  <2>4. QED
    BY <1>0, <2>1, <2>3, ByReadersKeeps DEF TrackerInv
<1>5. QED
  BY <1>1, <1>2, <1>3, <1>4, Zenon DEF TrackerStep

LEMMA TrackerInvariant == TrackerSpec => []TrackerInv
  BY TrackerStarts, TrackerKeeps, PTL DEF TrackerSpec

\* The invariant gives the property.
LEMMA WindowFromInvariant == ASSUME TrackerInv, BucketsAreTight PROVE WindowIsCounted
<1>0. RecordersInv /\ ReadersInv
  BY DEF TrackerInv
<1>1. \A x \in recorded \ racing : Epoch(clock) - x.epoch < Slots => x \in counts[SlotOf(x.epoch)]
  BY <1>0 DEF RecordersInv, CountedKept
<1>2. ASSUME NEW i \in Readers
      PROVE  LET me == reader[i]
                 elsewhere(xs) == {x \in xs : SlotOf(x.epoch) \notin me.touched}
             IN  /\ \A c \in me.of : c.q = me.ask.q /\ (c.from = me.from \/ me.from - c.from < CacheTicks)
                 /\ me.at = "stored" =>
                       /\ elsewhere(me.must) \subseteq me.merged
                       /\ \A x \in elsewhere(me.merged) : me.current - x.epoch < Slots
                       /\ Answered(i) = {} <=> me.merged = {} \/ Cardinality(me.merged) < me.ask.min
                       /\ \A v \in Answered(i) :
                             /\ 100 * Below(me.merged, v) >= me.ask.q * Cardinality(me.merged)
                             /\ 100 * Below(me.merged, v - 1) < me.ask.q * Cardinality(me.merged)
  <2> DEFINE me == reader[i]
             xs == me.merged
             q == me.ask.q
  <2>1. /\ me.ask \in Asks /\ q \in 1 .. 100 /\ me.ask.min \in Nat /\ xs \in SUBSET SampleRecords /\ IsFiniteSet(xs)
        /\ Merge(i)
    BY <1>0, ReaderType, AsksAssumption DEF ReadersInv
  <2>2. \A c \in me.of : c.q = q /\ (c.from = me.from \/ me.from - c.from < CacheTicks)
    BY <2>1 DEF Merge, OfThisAsk
  <2>3. ASSUME me.at = "stored"
        PROVE  /\ {x \in me.must : SlotOf(x.epoch) \notin me.touched} \subseteq xs
               /\ \A x \in {x \in xs : SlotOf(x.epoch) \notin me.touched} : me.current - x.epoch < Slots
               /\ me.of = {EntryOf(me)}
    BY <2>1, <2>3 DEF Merge, Stored, Fresh, Untouched
  <2>4. /\ Value(xs, q) \in Nat /\ Cardinality(xs) \in Nat /\ (Cardinality(xs) = 0 <=> xs = {})
        /\ xs # {} => /\ 100 * Below(xs, Value(xs, q)) >= q * Cardinality(xs)
                      /\ 100 * Below(xs, Value(xs, q) - 1) < q * Cardinality(xs)
    BY <2>1, ValueIsQuantile
  <2>5. ASSUME me.at = "stored"
        PROVE  Answered(i) = IF Cardinality(xs) >= me.ask.min /\ Cardinality(xs) > 0 THEN {Value(xs, q)} ELSE {}
    <3> DEFINE e == EntryOf(me)
    <3>1. e.value = Value(xs, q) /\ e.count = Cardinality(xs) /\ me.of = {e}
      BY <2>3, <2>5 DEF EntryOf
    <3> HIDE DEF e
    <3>2. {d \in me.of : d.count >= me.ask.min /\ d.count > 0}
          = IF Cardinality(xs) >= me.ask.min /\ Cardinality(xs) > 0 THEN {e} ELSE {}
      BY <3>1
    <3>3. QED
      BY <3>1, <3>2 DEF Answered
  <2>6. ASSUME me.at = "stored"
        PROVE  Answered(i) = {} <=> xs = {} \/ Cardinality(xs) < me.ask.min
    <3> DEFINE n == Cardinality(xs)
               m == me.ask.min
    <3>1. n \in Nat /\ m \in Nat /\ (n = 0 <=> xs = {})
      BY <2>1, <2>4
    <3>2. Answered(i) = {} <=> ~(n >= m /\ n > 0)
      BY <2>5, <2>6
    <3> HIDE DEF n, m
    <3>3. ~(n >= m /\ n > 0) <=> xs = {} \/ n < m
      BY <3>1
    <3>4. QED
      BY <3>2, <3>3 DEF n, m
  <2>7. ASSUME me.at = "stored", NEW v \in Answered(i)
        PROVE  100 * Below(xs, v) >= q * Cardinality(xs) /\ 100 * Below(xs, v - 1) < q * Cardinality(xs)
    BY <2>4, <2>5, <2>7
  <2>8. QED
    BY <2>2, <2>3, <2>6, <2>7
<1>3. QED
  BY <1>1, <1>2 DEF WindowIsCounted

\* However records, claims and merges interleave, and however many buckets, slots and
\* tasks there are: a sample counted outside a rotation stays counted while its window
\* lasts, and Quantile answers from its own merge or from one fresh enough, with the
\* least bucket at or below which the asked share of the samples lies.  That the
\* buckets themselves are tight is a fact of the constants, which TLC evaluates.
THEOREM EverySampleOfTheWindowIsCounted ==
    ASSUME BucketsAreTight
    PROVE  TrackerSpec => []WindowIsCounted
<1>1. TrackerInv => WindowIsCounted
  BY WindowFromInvariant
<1>2. QED
  BY <1>1, TrackerInvariant, PTL

-----------------------------------------------------------------------------
(* The policy: some level is always chosen, at or above the floor that the load
   imposes, and a plan's steps name exactly what the plan drops. *)

\* What the policy reckons with; the cost model's estimates are positive times.
Costs == [Trackers -> Int]

\* A report names degradations only.
Named(report) == \A s \in report : s.kind \in {RerankerSkipped, DenseBeamShrunk, LexicalOnly}

\* Every level has a cost.
LEMMA CostIsInt ==
    ASSUME NEW e \in Costs, NEW l \in 0..3, NEW d \in BOOLEAN, NEW r \in BOOLEAN
    PROVE  Cost(l, d, r, e) \in Int
<1>1. /\ e.encode \in Int /\ e.full \in Int /\ e.shrunk \in Int
      /\ e.lexical \in Int /\ e.rerank \in Int /\ e.fetch \in Int
  BY DEF Costs, Trackers
<1>2. QED
  BY <1>1 DEF Cost

\* The levels up to a threshold.
LEMMA LevelsCount ==
    ASSUME NEW k \in Nat
    PROVE  IsFiniteSet(1..k) /\ Cardinality(1..k) = k
<1>1. 1 \in Int /\ k \in Int
  OBVIOUS
<1>2. IsFiniteSet(1..k) /\ Cardinality(1..k) = IF 1 > k THEN 0 ELSE k - 1 + 1
  BY <1>1, FS_Interval, Zenon
<1>3. QED
  BY <1>2

Crossed(n, thresholds) == {i \in 1..Len(thresholds) : i <= 3 /\ n > thresholds[i]}

\* Load sheds at most three levels.
LEMMA PressureIsALevel ==
    ASSUME NEW n \in Nat, NEW thresholds \in Seq(Nat)
    PROVE  /\ IsFiniteSet(Crossed(n, thresholds))
           /\ PressureLevel(n, thresholds) = Cardinality(Crossed(n, thresholds))
           /\ PressureLevel(n, thresholds) \in 0..3
<1>1. Crossed(n, thresholds) \subseteq 1..3
  BY DEF Crossed
<1>2. IsFiniteSet(1..3) /\ Cardinality(1..3) = 3
  BY LevelsCount
<1>3. /\ IsFiniteSet(Crossed(n, thresholds))
      /\ Cardinality(Crossed(n, thresholds)) \in Nat
      /\ Cardinality(Crossed(n, thresholds)) <= 3
  BY <1>1, <1>2, FS_Subset, FS_CardinalityType
<1>4. QED
  BY <1>3 DEF PressureLevel, Crossed

\* The thresholds may not decrease (a larger load never sheds less).
Rising(thresholds) ==
    \A i, j \in 1..Len(thresholds) : i < j => thresholds[i] <= thresholds[j]

\* A load that sheds fewer than k levels is within the k-th threshold.
LEMMA BelowThreshold ==
    ASSUME NEW n \in Nat, NEW thresholds \in Seq(Nat), Rising(thresholds),
           NEW k \in 1..3, k <= Len(thresholds), PressureLevel(n, thresholds) < k
    PROVE  n <= thresholds[k]
<1> SUFFICES ASSUME n > thresholds[k] PROVE FALSE
  OBVIOUS
<1>1. \A i \in 1..k : i \in 1..Len(thresholds) /\ i <= 3 /\ n > thresholds[i]
  <2> SUFFICES ASSUME NEW i \in 1..k
               PROVE  i \in 1..Len(thresholds) /\ i <= 3 /\ n > thresholds[i]
    OBVIOUS
  <2>1. i \in 1..Len(thresholds) /\ k \in 1..Len(thresholds) /\ i <= 3
    OBVIOUS
  <2>2. thresholds[i] \in Nat /\ thresholds[k] \in Nat
    BY <2>1
  <2>3. i < k => thresholds[i] <= thresholds[k]
    BY <2>1 DEF Rising
  <2>4. QED
    BY <2>1, <2>2, <2>3
<1>2. 1..k \subseteq Crossed(n, thresholds)
  BY <1>1 DEF Crossed
<1>3. Cardinality(1..k) <= Cardinality(Crossed(n, thresholds))
  BY <1>2, PressureIsALevel, FS_Subset
<1>4. Cardinality(1..k) = k
  BY LevelsCount
<1>5. QED
  BY <1>3, <1>4, PressureIsALevel

\* Some level at or above the floor is always chosen: the last needs no budget.
LEMMA ChosenIsALevel ==
    ASSUME NEW e \in Costs, NEW d \in BOOLEAN, NEW r \in BOOLEAN,
           NEW left \in Int, NEW floor \in 0..3, NEW probe \in BOOLEAN
    PROVE  ChosenLevel(d, r, left, e, floor, probe) \in floor..3
<1> DEFINE fits(l) == l = 3 \/ probe \/ Cost(l, d, r, e) <= left
           least(l) == fits(l) /\ \A m \in floor..(l - 1) : ~fits(m)
<1>1. \A l \in floor..3 : Cost(l, d, r, e) \in Int
  BY CostIsInt
<1>2. \E l \in floor..3 : least(l)
  <2> HIDE DEF fits
  <2>1. fits(3)
    BY DEF fits
  <2>2. \E l \in floor..3 : fits(l) /\ \A m \in floor..(l - 1) : ~fits(m)
    <3>1. CASE floor = 3
      BY <3>1, <2>1
    <3>2. CASE floor = 2
      <4>1. CASE fits(2)  BY <3>2, <4>1
      <4>2. CASE ~fits(2)  BY <3>2, <4>2, <2>1
      <4>3. QED  BY <4>1, <4>2
    <3>3. CASE floor = 1
      <4>1. CASE fits(1)  BY <3>3, <4>1
      <4>2. CASE ~fits(1) /\ fits(2)  BY <3>3, <4>2
      <4>3. CASE ~fits(1) /\ ~fits(2)  BY <3>3, <4>3, <2>1
      <4>4. QED  BY <4>1, <4>2, <4>3
    <3>4. CASE floor = 0
      <4>1. CASE fits(0)  BY <3>4, <4>1
      <4>2. CASE ~fits(0) /\ fits(1)  BY <3>4, <4>2
      <4>3. CASE ~fits(0) /\ ~fits(1) /\ fits(2)  BY <3>4, <4>3
      <4>4. CASE ~fits(0) /\ ~fits(1) /\ ~fits(2)  BY <3>4, <4>4, <2>1
      <4>5. QED  BY <4>1, <4>2, <4>3, <4>4
    <3>5. QED  BY <3>1, <3>2, <3>3, <3>4
  <2>3. QED  BY <2>2
<1>3. \E l \in floor..3 :
        /\ l = 3 \/ probe \/ Cost(l, d, r, e) <= left
        /\ \A m \in floor..(l - 1) : ~probe /\ Cost(m, d, r, e) > left
  <2>1. PICK l \in floor..3 : least(l)
    BY <1>2
  <2>2. \A m \in floor..(l - 1) : ~probe /\ Cost(m, d, r, e) > left
    BY <2>1, <1>1
  <2>3. QED
    BY <2>1, <2>2
<1>4. QED
  BY <1>3 DEF ChosenLevel

\* A plan drops only what the request asked for, and its steps name exactly
\* what it drops, each once.
HonestPlan(req, p) ==
    /\ p.dense \in BOOLEAN /\ p.lexical \in BOOLEAN
    /\ p.shrink \in BOOLEAN /\ p.rerank \in BOOLEAN
    /\ Named(p.steps)
    /\ req.lexical => p.lexical
    /\ p.dense => req.dense
    /\ p.rerank => req.rerank
    /\ LexicalOnly \in Kinds(p.steps) <=> req.dense /\ ~p.dense
    /\ p.dense => (DenseBeamShrunk \in Kinds(p.steps) <=> p.shrink)
    /\ RerankerSkipped \in Kinds(p.steps) <=> req.rerank /\ ~p.rerank
    /\ \A s, t \in p.steps : s.kind = t.kind => s = t

\* DegradationPolicy.Plan never hides what it drops, whatever the budget, the
\* estimates, the load and the missing models.
LEMMA PlanIsHonest ==
    ASSUME NEW req \in [lexical : BOOLEAN, dense : BOOLEAN, rerank : BOOLEAN],
           NEW caps \in [encoder : BOOLEAN, vectors : BOOLEAN, reranker : BOOLEAN],
           NEW left \in Int, NEW e \in Costs, NEW floor \in 0..3, NEW probe \in BOOLEAN,
           NEW p, p = Plan(req, caps, left, e, floor, probe)
    PROVE  HonestPlan(req, p)
<1> DEFINE d == req.dense /\ caps.encoder /\ caps.vectors
           r == req.rerank /\ caps.reranker
           chosen == ChosenLevel(d, r, left, e, floor, probe)
           Reason(level) == IF level <= floor THEN "load" ELSE "deadline"
           budget == {k \in 1..3 : \/ k = RerankerSkipped /\ r /\ chosen >= 1
                                   \/ k = DenseBeamShrunk /\ d /\ chosen = 2
                                   \/ k = LexicalOnly /\ d /\ chosen = 3}
           costly == {Step(k, Reason(k)) : k \in budget}
           noVectors == Step(LexicalOnly, IF caps.encoder THEN "vector_index_unavailable"
                                                          ELSE "encoder_unavailable")
           noModel == Step(RerankerSkipped, "model_unavailable")
<1>1. d \in BOOLEAN /\ r \in BOOLEAN /\ (d => req.dense) /\ (r => req.rerank)
  OBVIOUS
<1>2. req.dense \in BOOLEAN /\ req.rerank \in BOOLEAN /\ req.lexical \in BOOLEAN
  OBVIOUS
<1>3. chosen \in 0..3
  BY ChosenIsALevel
<1>4. /\ p.dense = (d /\ chosen < 3) /\ p.lexical = (req.lexical \/ ~(d /\ chosen < 3))
      /\ p.shrink = (d /\ chosen = 2) /\ p.rerank = (r /\ chosen = 0)
      /\ p.steps = CapabilitySteps(req, caps) \cup costly
  BY DEF Plan
<1>5. \A k \in budget : Step(k, Reason(k)).kind = k
  BY DEF Step
<1>6. noVectors.kind = LexicalOnly /\ noModel.kind = RerankerSkipped
  BY DEF Step
<1>7. CapabilitySteps(req, caps) = {s \in {noVectors} : req.dense /\ ~d}
                                     \cup {s \in {noModel} : req.rerank /\ ~r}
  <2>1. req.dense /\ ~(caps.encoder /\ caps.vectors) <=> req.dense /\ ~d
    OBVIOUS
  <2>2. req.rerank /\ ~caps.reranker <=> req.rerank /\ ~r
    OBVIOUS
  <2>3. QED
    BY <2>1, <2>2 DEF CapabilitySteps
<1> HIDE DEF d, r, chosen, noVectors, noModel
<1>8. \A k : k \in Kinds(p.steps) <=>
          \/ k \in budget
          \/ k = LexicalOnly /\ req.dense /\ ~d
          \/ k = RerankerSkipped /\ req.rerank /\ ~r
  <2> HIDE DEF budget
  <2> QED  BY <1>4, <1>5, <1>6, <1>7 DEF Kinds
<1>9. Named(p.steps)
  <2>1. \A k \in budget : k \in {RerankerSkipped, DenseBeamShrunk, LexicalOnly}
    OBVIOUS
  <2> HIDE DEF budget
  <2>2. QED
    BY <2>1, <1>4, <1>5, <1>6, <1>7 DEF Named
<1>10. \A s, t \in p.steps : s.kind = t.kind => s = t
  <2>1. ~(LexicalOnly \in budget /\ ~d) /\ ~(RerankerSkipped \in budget /\ ~r)
    BY DEF LexicalOnly, RerankerSkipped, DenseBeamShrunk
  <2>2. LexicalOnly # RerankerSkipped
    BY DEF LexicalOnly, RerankerSkipped
  <2> HIDE DEF budget, Reason
  <2>3. QED
    BY <1>4, <1>5, <1>6, <1>7, <2>1, <2>2
<1>11. p.dense \in BOOLEAN /\ p.lexical \in BOOLEAN /\ p.shrink \in BOOLEAN /\ p.rerank \in BOOLEAN
  BY <1>4
<1>12. (req.lexical => p.lexical) /\ (p.dense => req.dense) /\ (p.rerank => req.rerank)
  BY <1>1, <1>4
<1>13. /\ LexicalOnly \in budget <=> d /\ chosen = 3
       /\ DenseBeamShrunk \in budget <=> d /\ chosen = 2
       /\ RerankerSkipped \in budget <=> r /\ chosen >= 1
  BY DEF LexicalOnly, RerankerSkipped, DenseBeamShrunk
<1> HIDE DEF budget
<1>14. LexicalOnly \in Kinds(p.steps) <=> req.dense /\ ~p.dense
  <2>1. LexicalOnly \in Kinds(p.steps) <=> (d /\ chosen = 3) \/ (req.dense /\ ~d)
    BY <1>8, <1>13 DEF LexicalOnly, RerankerSkipped
  <2>2. p.dense <=> d /\ chosen < 3
    BY <1>4
  <2>3. chosen < 3 <=> chosen # 3
    BY <1>3
  <2>4. QED
    BY <2>1, <2>2, <2>3, <1>1, Zenon
<1>15. p.dense => (DenseBeamShrunk \in Kinds(p.steps) <=> p.shrink)
  <2>1. DenseBeamShrunk \in Kinds(p.steps) <=> d /\ chosen = 2
    BY <1>8, <1>13 DEF LexicalOnly, RerankerSkipped, DenseBeamShrunk
  <2>2. QED
    BY <2>1, <1>4
<1>16. RerankerSkipped \in Kinds(p.steps) <=> req.rerank /\ ~p.rerank
  <2>1. RerankerSkipped \in Kinds(p.steps) <=> (r /\ chosen >= 1) \/ (req.rerank /\ ~r)
    BY <1>8, <1>13 DEF LexicalOnly, RerankerSkipped
  <2>2. p.rerank <=> r /\ chosen = 0
    BY <1>4
  <2>3. chosen >= 1 <=> chosen # 0
    BY <1>3
  <2>4. QED
    BY <2>1, <2>2, <2>3, <1>1, Zenon
<1>17. QED
  BY <1>9, <1>10, <1>11, <1>12, <1>14, <1>15, <1>16 DEF HonestPlan

\* A plan stays at or above the floor, probing or not: no reranker, no full
\* beam and no dense retrieval from the first, second and third level on.
LEMMA PlanShedsLoad ==
    ASSUME NEW req \in [lexical : BOOLEAN, dense : BOOLEAN, rerank : BOOLEAN],
           NEW caps \in [encoder : BOOLEAN, vectors : BOOLEAN, reranker : BOOLEAN],
           NEW left \in Int, NEW e \in Costs, NEW floor \in 0..3, NEW probe \in BOOLEAN,
           NEW p, p = Plan(req, caps, left, e, floor, probe)
    PROVE  /\ p.rerank => floor < 1
           /\ p.dense /\ ~p.shrink => floor < 2
           /\ p.dense => floor < 3
<1> DEFINE d == req.dense /\ caps.encoder /\ caps.vectors
           r == req.rerank /\ caps.reranker
           chosen == ChosenLevel(d, r, left, e, floor, probe)
<1>1. chosen \in floor..3
  BY ChosenIsALevel
<1>2. p.dense = (d /\ chosen < 3) /\ p.shrink = (d /\ chosen = 2) /\ p.rerank = (r /\ chosen = 0)
  BY DEF Plan
<1>3. d \in BOOLEAN /\ r \in BOOLEAN
  OBVIOUS
<1> HIDE DEF d, r, chosen
<1>4. p.rerank => chosen = 0
  BY <1>2
<1>5. p.dense => d /\ chosen < 3
  BY <1>2
<1>6. d /\ chosen = 2 => p.shrink
  BY <1>2
<1>7. p.dense /\ ~p.shrink => chosen < 3 /\ chosen # 2
  BY <1>5, <1>6
<1>8. QED
  BY <1>1, <1>4, <1>5, <1>7
-----------------------------------------------------------------------------
(* The planner. *)

Active == {q \in Searches : stage[q] # "idle"}

Plans == [dense : BOOLEAN, shrink : BOOLEAN, rerank : BOOLEAN, probe : BOOLEAN,
          est : [Reserved -> Nat]]

\* The type invariant, with the types of plans.
Types ==
    /\ stage \in [Searches -> {"idle", "entered", "planned"}]
    /\ seen \in [Searches -> 0..Cardinality(Searches)]
    /\ plan \in [Searches -> Plans]
    /\ inFlight = Cardinality(Active)
    /\ window \in [Trackers -> Nat \X Nat]
    /\ actual \in Regimes /\ shifts \in 0..MaxShifts
    /\ \A q \in Searches : stage[q] # "idle" => seen[q] > 0

\* The searches that saw at most n in flight are at most n: the last of them to
\* arrive counted all the others.
SawAtMost(n) == {q \in Active : seen[q] <= n}
ArrivalsCounted == \A n \in Nat : Cardinality(SawAtMost(n)) <= n

\* What a planned search may do is within the threshold for it.
Within(q, k) == k <= Len(Thresholds) => seen[q] <= Thresholds[k]
Shed ==
    \A q \in Searches : stage[q] = "planned" =>
        /\ plan[q].rerank => Within(q, 1)
        /\ plan[q].dense /\ ~plan[q].shrink => Within(q, 2)
        /\ plan[q].dense => Within(q, 3)

PlannerInv == Types /\ ArrivalsCounted /\ Shed

-----------------------------------------------------------------------------
(* Counting searches. *)

LEMMA CountSubset ==
    ASSUME NEW S \in SUBSET Searches, NEW T \in SUBSET S
    PROVE  /\ IsFiniteSet(S) /\ Cardinality(S) \in Nat
           /\ Cardinality(T) \in Nat /\ Cardinality(T) <= Cardinality(S)
<1>1. IsFiniteSet(S)
  BY SearchesAssumption, FS_Subset
<1>2. IsFiniteSet(T) /\ Cardinality(T) <= Cardinality(S)
  BY <1>1, FS_Subset
<1>3. QED
  BY <1>1, <1>2, FS_CardinalityType

LEMMA CountAdd ==
    ASSUME NEW S \in SUBSET Searches, NEW q \in Searches, q \notin S
    PROVE  Cardinality(S \cup {q}) = Cardinality(S) + 1
<1>1. IsFiniteSet(S)
  BY SearchesAssumption, FS_Subset
<1>2. QED
  BY <1>1, FS_AddElement

LEMMA CountRemove ==
    ASSUME NEW S \in SUBSET Searches, NEW q \in S
    PROVE  Cardinality(S \ {q}) = Cardinality(S) - 1
<1>1. IsFiniteSet(S)
  BY SearchesAssumption, FS_Subset
<1>2. QED
  BY <1>1, FS_RemoveElement

-----------------------------------------------------------------------------
(* The times a search measures are numbers. *)

LEMMA Measures ==
    ASSUME Types
    PROVE  /\ Estimate \in Costs
           /\ \A t \in Trackers : Estimate[t] \in Nat
           /\ \A t \in Trackers : actual[t] \in Nat
<1>1. \A t \in Trackers : window[t][1] \in Nat /\ window[t][2] \in Nat /\ Priors[t] \in Nat
  BY CostsAssumption DEF Types
<1>2. \A t \in Trackers : Estimate[t] \in Nat
  BY <1>1 DEF Estimate, Larger
<1>3. Estimate \in Costs
  BY <1>2 DEF Costs, Estimate
<1>4. \A t \in Trackers : actual[t] \in Nat
  BY CostsAssumption DEF Types
<1>5. QED
  BY <1>2, <1>3, <1>4

LEMMA SamplesAreTimes ==
    ASSUME Types, NEW p \in Plans, NEW late \in 0..1
    PROVE  \A t \in Trackers : Samples(p, late)[t] \in Nat
<1>1. p.est.lexical \in Nat /\ p.est.fetch \in Nat /\ p.est.rerank \in Nat
  BY DEF Plans, Reserved
<1>2. \A t \in Trackers : actual[t] \in Nat
  BY Measures
<1>3. actual.encode \in Nat /\ actual.rerank \in Nat /\ actual.fetch \in Nat
  BY <1>2 DEF Trackers
<1>4. EncodeEnd(p) \in Nat
  BY <1>1, CostsAssumption DEF EncodeEnd, Larger
<1>5. EncodeTime(p) \in Nat
  BY <1>3, <1>4 DEF EncodeTime, Smaller
<1>6. ShardBudget(p) \in Nat
  BY <1>1, <1>5, CostsAssumption DEF ShardBudget, Larger
<1>7. actual[ShardTracker(p)] \in Nat
  BY <1>2 DEF ShardTracker, Trackers
<1>8. ShardTime(p, late) \in Nat
  BY <1>6, <1>7 DEF ShardTime
<1>9. QED
  BY <1>3, <1>8 DEF Samples

-----------------------------------------------------------------------------
LEMMA PlannerInitially == PlannerInit => PlannerInv
<1> SUFFICES ASSUME PlannerInit PROVE PlannerInv
  OBVIOUS
<1>1. Active = {} /\ \A n : SawAtMost(n) = {}
  BY DEF PlannerInit, Active, SawAtMost
<1>2. Cardinality({}) = 0
  BY FS_EmptySet
<1>3. NoPlan \in Plans
  <2>1. \A t \in Reserved : Priors[t] \in Nat
    BY CostsAssumption DEF Reserved, Trackers
  <2>2. QED
    BY <2>1 DEF NoPlan, Plans
<1>4. 0 \in 0..Cardinality(Searches)
  BY SearchesAssumption, FS_CardinalityType
<1>5. Types
  BY <1>1, <1>2, <1>3, <1>4, CostsAssumption DEF PlannerInit, Types
<1>6. ArrivalsCounted
  BY <1>1, <1>2 DEF ArrivalsCounted
<1>7. Shed
  BY DEF PlannerInit, Shed
<1>8. QED
  BY <1>5, <1>6, <1>7 DEF PlannerInv

\* A search that arrives counts itself and every other one.
LEMMA EnterKeeps ==
    ASSUME PlannerInv, NEW q \in Searches, Enter(q)
    PROVE  PlannerInv'
<1> USE DEF PlannerInv
<1>1. /\ stage[q] = "idle" /\ inFlight' = inFlight + 1
      /\ seen' = [seen EXCEPT ![q] = inFlight + 1]
      /\ stage' = [stage EXCEPT ![q] = "entered"]
      /\ UNCHANGED <<plan, window, actual, shifts>>
  BY DEF Enter, worldVars
<1>2. Active \subseteq Searches /\ q \notin Active /\ Active' = Active \cup {q}
  BY <1>1 DEF Active, Types
<1>3. inFlight' = Cardinality(Active') /\ inFlight \in Nat /\ inFlight + 1 <= Cardinality(Searches)
  <2>1. Cardinality(Active \cup {q}) = Cardinality(Active) + 1
    BY <1>2, CountAdd
  <2>2. Active \cup {q} \in SUBSET Searches
    BY <1>2
  <2>3. Cardinality(Active) \in Nat
    BY <1>2, CountSubset
  <2>4. Cardinality(Active \cup {q}) <= Cardinality(Searches)
    BY <2>2, CountSubset
  <2>5. QED
    BY <1>1, <1>2, <2>1, <2>3, <2>4 DEF Types
<1>4. Cardinality(Searches) \in Nat
  BY SearchesAssumption, FS_CardinalityType
<1>5. Types'
  BY <1>1, <1>3, <1>4 DEF Types
<1>6. ArrivalsCounted'
  <2> SUFFICES ASSUME NEW n \in Nat PROVE Cardinality(SawAtMost(n)') <= n
    BY DEF ArrivalsCounted
  <2>1. CASE n < inFlight + 1
    <3>1. SawAtMost(n)' = SawAtMost(n)
      <4>1. ~(seen'[q] <= n)
        BY <1>1, <1>3, <2>1 DEF Types
      <4>2. \A r \in Active : r # q /\ seen'[r] = seen[r]
        BY <1>1, <1>2 DEF Types
      <4>3. QED
        BY <1>2, <4>1, <4>2 DEF SawAtMost
    <3>2. QED
      BY <3>1 DEF ArrivalsCounted
  <2>2. CASE n >= inFlight + 1
    <3>1. SawAtMost(n)' \in SUBSET Active' /\ Active' \in SUBSET Searches
      BY DEF SawAtMost, Active
    <3>2. Cardinality(SawAtMost(n)') <= Cardinality(Active')
          /\ Cardinality(SawAtMost(n)') \in Nat
      BY <3>1, CountSubset
    <3>3. QED
      BY <1>1, <1>3, <2>2, <3>2
  <2>3. QED
    BY <1>3, <2>1, <2>2
<1>7. Shed'
  BY <1>1 DEF Shed, Within, Types
<1>8. QED
  BY <1>5, <1>6, <1>7

\* A search plans at the level of what it saw, whatever has come or gone since.
LEMMA MakePlanKeeps ==
    ASSUME PlannerInv, NEW q \in Searches, NEW probe \in BOOLEAN, MakePlan(q, probe)
    PROVE  PlannerInv'
<1> USE DEF PlannerInv
<1> DEFINE floor == PressureLevel(seen[q], Thresholds)
           p == Plan(Everything, Ready, Deadline, Estimate, floor, probe)
           made == [dense |-> p.dense, shrink |-> p.shrink, rerank |-> p.rerank,
                    probe |-> probe, est |-> [t \in Reserved |-> Estimate[t]]]
<1>1. /\ stage[q] = "entered" /\ plan' = [plan EXCEPT ![q] = made]
      /\ stage' = [stage EXCEPT ![q] = "planned"]
      /\ UNCHANGED <<seen, inFlight, window, actual, shifts>>
  BY DEF MakePlan, worldVars
<1>2. seen[q] \in Nat /\ Thresholds \in Seq(Nat) /\ Rising(Thresholds) /\ Deadline \in Int
  BY SearchesAssumption, CostsAssumption, FS_CardinalityType DEF Types, Rising
<1>3. floor \in 0..3 /\ Estimate \in Costs /\ \A t \in Trackers : Estimate[t] \in Nat
  BY <1>2, PressureIsALevel, Measures
<1>4. /\ Everything \in [lexical : BOOLEAN, dense : BOOLEAN, rerank : BOOLEAN]
      /\ Ready \in [encoder : BOOLEAN, vectors : BOOLEAN, reranker : BOOLEAN]
  BY CostsAssumption DEF Everything, Ready
<1> HIDE DEF floor
<1>5. HonestPlan(Everything, p)
  BY <1>2, <1>3, <1>4, PlanIsHonest
<1>6. (p.rerank => floor < 1) /\ (p.dense /\ ~p.shrink => floor < 2) /\ (p.dense => floor < 3)
  BY <1>2, <1>3, <1>4, PlanShedsLoad
<1> HIDE DEF p
<1>7. made \in Plans
  BY <1>3, <1>5 DEF Plans, HonestPlan, Reserved, Trackers
<1>8. \A k \in 1..3 : floor < k => Within(q, k)
  BY <1>2, BelowThreshold DEF floor, Within
<1>9. Active' = Active
  BY <1>1 DEF Active, Types
<1>10. Types'
  BY <1>1, <1>7, <1>9 DEF Types
<1>11. ArrivalsCounted'
  <2>1. \A n : SawAtMost(n)' = SawAtMost(n)
    BY <1>1, <1>9 DEF SawAtMost
  <2>2. QED
    BY <2>1 DEF ArrivalsCounted
<1>12. Shed'
  <2> SUFFICES ASSUME NEW r \in Searches, stage'[r] = "planned"
               PROVE  /\ plan'[r].rerank => Within(r, 1)'
                      /\ plan'[r].dense /\ ~plan'[r].shrink => Within(r, 2)'
                      /\ plan'[r].dense => Within(r, 3)'
    BY DEF Shed
  <2>1. \A k : Within(r, k)' = Within(r, k)
    BY <1>1 DEF Within
  <2>2. CASE r = q
    <3>1. /\ plan'[r].rerank = p.rerank /\ plan'[r].dense = p.dense
          /\ plan'[r].shrink = p.shrink
      BY <1>1, <2>2 DEF Types
    <3>2. QED
      BY <1>6, <1>8, <2>1, <2>2, <3>1
  <2>3. CASE r # q
    <3>1. plan'[r] = plan[r] /\ stage[r] = "planned"
      BY <1>1, <2>3 DEF Types
    <3>2. QED
      BY <2>1, <3>1 DEF Shed
  <2>4. QED
    BY <2>2, <2>3
<1>13. QED
  BY <1>10, <1>11, <1>12

\* A search that leaves, with a page or without one, takes its count with it.
LEMMA LeaveKeeps ==
    ASSUME PlannerInv, NEW q \in Searches, stage[q] = "planned",
           inFlight' = inFlight - 1,
           stage' = [stage EXCEPT ![q] = "idle"],
           seen' = [seen EXCEPT ![q] = 0], plan' = [plan EXCEPT ![q] = NoPlan],
           window' \in [Trackers -> Nat \X Nat], UNCHANGED worldVars
    PROVE  PlannerInv'
<1> USE DEF PlannerInv
<1>1. Active \in SUBSET Searches /\ q \in Active /\ Active' = Active \ {q}
  BY DEF Active, Types
<1>2. inFlight' = Cardinality(Active')
  BY <1>1, CountRemove DEF Types
<1>3. NoPlan \in Plans
  <2>1. \A t \in Reserved : Priors[t] \in Nat
    BY CostsAssumption DEF Reserved, Trackers
  <2>2. QED
    BY <2>1 DEF NoPlan, Plans
<1>4. 0 \in 0..Cardinality(Searches)
  BY SearchesAssumption, FS_CardinalityType
<1>5. Types'
  BY <1>2, <1>3, <1>4 DEF Types, worldVars
<1>6. ArrivalsCounted'
  <2> SUFFICES ASSUME NEW n \in Nat PROVE Cardinality(SawAtMost(n)') <= n
    BY DEF ArrivalsCounted
  <2>1. SawAtMost(n)' \in SUBSET SawAtMost(n) /\ SawAtMost(n) \in SUBSET Searches
    BY <1>1 DEF SawAtMost, Active, Types
  <2>2. /\ Cardinality(SawAtMost(n)') \in Nat /\ Cardinality(SawAtMost(n)) \in Nat
        /\ Cardinality(SawAtMost(n)') <= Cardinality(SawAtMost(n))
    BY <2>1, CountSubset
  <2>3. QED
    BY <2>2 DEF ArrivalsCounted
<1>7. Shed'
  BY DEF Shed, Within, Types
<1>8. QED
  BY <1>5, <1>6, <1>7

LEMMA FinishKeeps ==
    ASSUME PlannerInv, NEW q \in Searches, Finish(q)
    PROVE  PlannerInv'
<1>1. PICK late \in 0..1 : window' = [t \in Trackers |->
            <<Larger(window[t][1], Samples(plan[q], late)[t]), window[t][2]>>]
  BY DEF Finish
<1>2. Types /\ plan[q] \in Plans
  BY DEF PlannerInv, Types
<1>3. \A t \in Trackers : Samples(plan[q], late)[t] \in Nat
  BY <1>2, SamplesAreTimes
<1>4. \A t \in Trackers : window[t][1] \in Nat /\ window[t][2] \in Nat
  BY <1>2 DEF Types
<1>5. window' \in [Trackers -> Nat \X Nat]
  BY <1>1, <1>3, <1>4 DEF Larger
<1>6. QED
  BY <1>5, LeaveKeeps DEF Finish

LEMMA AbandonKeeps ==
    ASSUME PlannerInv, NEW q \in Searches, Abandon(q)
    PROVE  PlannerInv'
<1>1. window' \in [Trackers -> Nat \X Nat]
  BY DEF Abandon, PlannerInv, Types
<1>2. QED
  BY <1>1, LeaveKeeps DEF Abandon

\* Time and the environment leave the searches alone.
LEMMA WorldKeeps ==
    ASSUME PlannerInv, Age \/ Shift \/ UNCHANGED plannerVars
    PROVE  PlannerInv'
<1>1. UNCHANGED searchVars
  BY DEF Age, Shift, plannerVars
<1>2. \A t \in Trackers : window[t][1] \in Nat /\ window[t][2] \in Nat
  BY DEF PlannerInv, Types
<1>3. window' \in [Trackers -> Nat \X Nat]
  BY <1>2 DEF Age, Shift, plannerVars, PlannerInv, Types
<1>4. actual' \in Regimes /\ shifts' \in 0..MaxShifts
  BY CostsAssumption DEF Age, Shift, plannerVars, worldVars, PlannerInv, Types
<1>5. Active' = Active /\ \A n : SawAtMost(n)' = SawAtMost(n)
  BY <1>1 DEF searchVars, Active, SawAtMost
<1>6. Types'
  BY <1>1, <1>3, <1>4, <1>5 DEF PlannerInv, Types, searchVars
<1>7. ArrivalsCounted'
  BY <1>5 DEF PlannerInv, ArrivalsCounted
<1>8. Shed'
  BY <1>1 DEF PlannerInv, Shed, Within, searchVars
<1>9. QED
  BY <1>6, <1>7, <1>8 DEF PlannerInv

LEMMA PlannerNextKeeps == PlannerInv /\ [PlannerNext]_plannerVars => PlannerInv'
<1> SUFFICES ASSUME PlannerInv, [PlannerNext]_plannerVars PROVE PlannerInv'
  OBVIOUS
<1>1. ASSUME NEW q \in Searches, Enter(q) PROVE PlannerInv'
  BY <1>1, EnterKeeps
<1>2. ASSUME NEW q \in Searches, NEW probe \in BOOLEAN, MakePlan(q, probe) PROVE PlannerInv'
  BY <1>2, MakePlanKeeps
<1>3. ASSUME NEW q \in Searches, Finish(q) PROVE PlannerInv'
  BY <1>3, FinishKeeps
<1>4. ASSUME NEW q \in Searches, Abandon(q) PROVE PlannerInv'
  BY <1>4, AbandonKeeps
<1>5. CASE Age \/ Shift \/ UNCHANGED plannerVars
  BY <1>5, WorldKeeps
<1>6. QED
  BY <1>1, <1>2, <1>3, <1>4, <1>5 DEF PlannerNext

\* The inductive invariant holds for all searches of the broker together.
THEOREM PlannerInvariant == PlannerSpec => []PlannerInv
  BY PlannerInitially, PlannerNextKeeps, PTL DEF PlannerSpec

-----------------------------------------------------------------------------
\* The in-flight count is the number of searches that are running: every way
\* out of SearchAsync gives it back.
THEOREM PlannerTypesCorrect == PlannerSpec => []PlannerTypes
<1>1. ASSUME PlannerInv PROVE PlannerTypes
  BY <1>1 DEF PlannerInv, Types, PlannerTypes, Active
<1>2. QED
  BY <1>1, PlannerInvariant, PTL

\* Load shedding bounds what the searches do at once, although each decides
\* alone from a count that is stale when it is used.
THEOREM SheddingHolds == PlannerSpec => []LoadIsShed
<1>1. ASSUME PlannerInv PROVE LoadIsShed
  <2>1. ASSUME NEW S \in SUBSET Searches, NEW k \in 1..3, k <= Len(Thresholds),
               \A q \in S : stage[q] = "planned" /\ Within(q, k)
        PROVE  Cardinality(S) <= Thresholds[k]
    <3>1. Thresholds[k] \in Nat
      BY <2>1, SearchesAssumption
    <3>2. S \in SUBSET SawAtMost(Thresholds[k])
      BY <2>1 DEF SawAtMost, Active, Within
    <3>3. SawAtMost(Thresholds[k]) \in SUBSET Searches
      BY DEF SawAtMost, Active
    <3>4. /\ Cardinality(S) <= Cardinality(SawAtMost(Thresholds[k]))
          /\ Cardinality(S) \in Nat /\ Cardinality(SawAtMost(Thresholds[k])) \in Nat
      BY <3>2, <3>3, CountSubset
    <3>5. Cardinality(SawAtMost(Thresholds[k])) <= Thresholds[k]
      BY <1>1, <3>1 DEF PlannerInv, ArrivalsCounted
    <3>6. QED
      BY <3>1, <3>4, <3>5
  <2>2. /\ \A q \in Reranking : stage[q] = "planned" /\ Within(q, 1)
        /\ \A q \in FullBeam : stage[q] = "planned" /\ Within(q, 2)
        /\ \A q \in Dense : stage[q] = "planned" /\ Within(q, 3)
    BY <1>1 DEF PlannerInv, Shed, Reranking, FullBeam, Dense
  <2>3. Reranking \in SUBSET Searches /\ FullBeam \in SUBSET Searches /\ Dense \in SUBSET Searches
    BY DEF Reranking, FullBeam, Dense
  <2>4. Len(Thresholds) \in Nat
    BY SearchesAssumption
  <2>5. QED
    BY <2>1, <2>2, <2>3, <2>4 DEF LoadIsShed
<1>2. QED
  BY <1>1, PlannerInvariant, PTL
==============================================================================
