-------------------------- MODULE OfflineJobsProofs --------------------------
(***************************************************************************)
(* The offline jobs, for any number of passages, chunks, training steps and *)
(* crashes.  The lock: one job at a time is on the GPU.  The files: the one *)
(* with the final name is whole, and it is the one that was mined.  The     *)
(* training: every model went through its steps' batches in order, however  *)
(* often it was resumed, and the best validated model is the one judged.    *)
(***************************************************************************)
EXTENDS OfflineJobs, FiniteSetTheorems, SequenceTheorems, TLAPS

\* The lock.  A holder's name is the only one the owner file can have; while a
\* dead encoder's lock is being removed, nobody holds it.
TrainNoName == {"posOwner", "posRmdir", "trainOwner", "trainRmdir", "judgeOwner", "judgeRmdir"}
EncNoName   == {"owner", "rmdir", "failRmdir"}
Steps ==
    /\ pc \in [Procs -> EncSteps \cup TrainSteps]
    /\ pc[Encoder] \in EncSteps /\ pc[Trainer] \in TrainSteps
    /\ lock \in [dir : BOOLEAN, owner : Procs \cup {Nobody}, stale : BOOLEAN]
Breaking == {"unlinkStale", "rmdirStale"}
LockInv ==
    /\ ~(pc[Encoder] \in EncHoldSteps \cup Breaking /\ pc[Trainer] \in HoldSteps)
    /\ pc[Encoder] \in EncHoldSteps \cup Breaking \/ pc[Trainer] \in HoldSteps => lock.dir
    /\ pc[Encoder] \in EncHoldSteps =>
          lock.owner = (IF pc[Encoder] \in EncNoName THEN Nobody ELSE Encoder) /\ ~lock.stale
    /\ pc[Trainer] \in HoldSteps =>
          lock.owner = (IF pc[Trainer] \in TrainNoName THEN Nobody ELSE Trainer)
    /\ pc[Encoder] = "unlinkStale" => lock.owner = Encoder
    /\ pc[Encoder] = "rmdirStale" => lock.owner = Nobody

\* The files.  Between two crashes progress and memory agree about what is left;
\* a partial file is there until it is renamed, and the final one for good.
FileTypes ==
    /\ partial \in File /\ final \in File /\ progress \subseteq Chunks /\ todo \subseteq Chunks
    /\ chunkLog \in [Chunks -> Nat]
OnDisk(c) == \A r \in RowsOf(c) : partial.rows[r] = "disk"
Making  == {"create", "truncate", "reset"}
Filling == {"rows", "flush", "mark", "log"}
FileInv ==
    /\ \A c \in progress : partial.there => OnDisk(c)
    /\ partial.there \/ final.there \/ progress = {}
    /\ final.there => EncodedWhole(final) /\ ~partial.there
    /\ ready => final.there
    /\ \A c \in Chunks : chunkLog[c] <= 1 /\ (chunkLog[c] > 0 /\ ~final.there => c \in progress)
    /\ pc[Encoder] \in Making \cup Filling \cup {"read", "rename"} =>
          ~final.there /\ (partial.there <=> pc[Encoder] # "create")
    /\ pc[Encoder] \in Making => progress = {}
    /\ pc[Encoder] \in {"unlinkProgress", "stats", "unlinkOwner", "rmdir", "ready"} => final.there
MemoryInv ==
    /\ pc[Encoder] \in Filling =>
          /\ \A c \in Chunks \ todo : OnDisk(c)
          /\ \A c \in todo : chunkLog[c] = 0
          /\ pc[Encoder] # "log" => todo \cap progress = {}
          /\ pc[Encoder] = "log" => \A c \in todo : Current(c) <=> c \in progress
          /\ pc[Encoder] \in {"flush", "mark"} => \E c \in todo : Current(c)
          /\ pc[Encoder] = "flush" => \A c \in todo : Current(c) => \A r \in RowsOf(c) : partial.rows[r] # "zero"
          /\ pc[Encoder] = "mark" => \A c \in todo : Current(c) => OnDisk(c)
    /\ pc[Encoder] = "rename" => EncodedWhole(partial)

\* The pipeline.  From the wait on, it works with the file it waited for.
Mining == {"mineRename", "mineStats"}
PipeInv ==
    /\ pc[Trainer] \in {"posLock", "posOwner", "posHeld", "posRmdir", "posVecs", "posIds", "mine"} \cup Mining => final.there
    /\ pc[Trainer] = "mineRename" => final.header
    /\ pc[Trainer] = "mineStats" => mined > 0
    /\ mined \in Nat
    /\ mined > 0 => final.there /\ minedFrom = final /\ final.header

\* The training.  A model went through its steps in order, and its history names
\* steps that were validated, each once.
InOrder(m) ==
    /\ m \in [weights : Seq(Int), step : 0 .. MaxSteps, best : Nat, history : Seq(Validated)]
    /\ m.weights = FirstSteps(m.step)
    /\ \A i \in 1 .. Len(m.history) : m.history[i] <= m.step
    /\ \A i, j \in 1 .. Len(m.history) : i < j => m.history[i] < m.history[j]
\* With q the scores: every step up to s that should have been is in the history,
\* and none in it was better than the best.
Measured(q, m, s) ==
    /\ \A t \in 0 .. s : t % EvalEvery = 0 => t \in Range(m.history)
    /\ \A t \in Range(m.history) : q[t] <= m.best
\* A run that has got as far as m ends with the right model in best/, which holds
\* b: that is the first of the best models so far, or is going to be replaced.
FirstBest(q, m, s) == q[s] = m.best /\ \A t \in Range(m.history) : q[t] = m.best => s <= t
OnCourse(q, m, b) ==
    \/ \E s \in Range(m.history) : FirstBest(q, m, s) /\ b = FirstSteps(s)
    \/ \E t \in Validated : t \notin Range(m.history) /\ q[t] > m.best
Sound(q, m, b) == m.step > 0 /\ Measured(q, m, m.step) /\ OnCourse(q, m, b)
\* The model was just validated, and is the best so far.
NewBest(q, m) ==
    /\ Measured(q, m, m.step)
    /\ m.step \in Range(m.history) /\ q[m.step] = m.best
    /\ \A t \in Range(m.history) : t # m.step => q[t] < m.best
\* The model is about to be validated.
ToValidate(q, m, b) ==
    /\ m.step \in Validated /\ m.step \notin Range(m.history)
    /\ Measured(q, m, m.step - 1) /\ OnCourse(q, m, b)
\* A checkpoint that is not ahead of the run, and one from before its new best.
Behind(c, m) == Range(c.history) \subseteq Range(m.history) /\ c.best <= m.best
BeforeBest(c, m) == Range(c.history) \subseteq Range(m.history) \ {m.step} /\ c.best < m.best

Entering == {"trainLock", "trainOwner"}
Looping  == {"loop", "saveDue", "lastTmp", "lastDrop"}
Saving   == {"bestTmp", "bestDrop", "bestMove"}
Over     == {"trained", "trainRmdir", "dropLast", "copySummary", "judgeLock", "judgeOwner", "judgeHeld",
             "judgeRmdir", "writeResult", "done"}
DirInv ==
    /\ quality \in [0 .. MaxSteps -> Nat \ {0}]
    /\ InOrder(model)
    /\ last.files \subseteq {"weights", "state"} /\ last = [files |-> last.files, state |-> last.state]
    /\ last.files # {} => InOrder(last.state)
    /\ Resumable => Sound(quality, last.state, best)
    /\ best = NoDir \/ \E s \in 0 .. MaxSteps : best = FirstSteps(s)
ModelInv ==
    /\ pc[Trainer] \in Entering => model = Fresh \/ Sound(quality, model, best)
    /\ pc[Trainer] \in Looping => Measured(quality, model, model.step) /\ OnCourse(quality, model, best)
    /\ pc[Trainer] \in {"lastTmp", "lastDrop"} => model.step > 0
    /\ pc[Trainer] = "lastDrop" => lastTmp = model
    /\ pc[Trainer] = "eval" => ToValidate(quality, model, best)
    /\ pc[Trainer] \in Saving => NewBest(quality, model)
    /\ pc[Trainer] \in {"bestDrop", "bestMove"} => bestTmp = model.weights
AheadInv ==
    Resumable =>
        /\ pc[Trainer] \in Entering \cup Looping \cup {"eval"} => Behind(last.state, model)
        /\ pc[Trainer] \in Saving => BeforeBest(last.state, model)
ResultInv ==
    /\ pc[Trainer] \in Over => best = FirstSteps(BestStep) /\ best # NoDir
    /\ judged = IF pc[Trainer] = "done" THEN best ELSE NoDir
TrainInv == DirInv /\ ModelInv /\ AheadInv /\ ResultInv

IInv == Steps /\ LockInv /\ FileTypes /\ FileInv /\ MemoryInv /\ PipeInv /\ TrainInv
-----------------------------------------------------------------------------
LEMMA Classes ==
    /\ EncNoName \subseteq EncHoldSteps /\ EncHoldSteps \subseteq EncSteps
    /\ Breaking \subseteq EncSteps /\ EncHoldSteps \cap Breaking = {}
    /\ TrainNoName \subseteq HoldSteps /\ HoldSteps \subseteq TrainSteps
  BY DEF EncNoName, EncHoldSteps, EncSteps, InTry, Breaking, TrainNoName, HoldSteps, TrainSteps

(* One process moves, the other stays. *)

LEMMA EncoderMoves ==
    ASSUME Steps, NEW from, NEW to \in EncSteps, Move(Encoder, from, to)
    PROVE  /\ pc' \in [Procs -> EncSteps \cup TrainSteps]
           /\ pc[Encoder] = from /\ pc'[Encoder] = to /\ pc'[Trainer] = pc[Trainer]
  BY ProcsAssumption DEF Steps, Move, Goto, Procs

LEMMA TrainerMoves ==
    ASSUME Steps, NEW from, NEW to \in TrainSteps, Move(Trainer, from, to)
    PROVE  /\ pc' \in [Procs -> EncSteps \cup TrainSteps]
           /\ pc[Trainer] = from /\ pc'[Trainer] = to /\ pc'[Encoder] = pc[Encoder]
  BY ProcsAssumption DEF Steps, Move, Goto, Procs

\* A process works under its lock, or without one.
LEMMA EncoderWorks ==
    ASSUME Steps, LockInv, NEW from, NEW to \in EncSteps, Enc(from, to),
           \/ from \in EncHoldSteps \ EncNoName /\ to \in EncHoldSteps \ EncNoName
           \/ from \notin EncHoldSteps \cup Breaking /\ to \notin EncHoldSteps \cup Breaking
    PROVE  Steps' /\ LockInv'
<1>1. Move(Encoder, from, to) /\ lock' = lock
  BY DEF Enc
<1>2. /\ pc' \in [Procs -> EncSteps \cup TrainSteps]
      /\ pc[Encoder] = from /\ pc'[Encoder] = to /\ pc'[Trainer] = pc[Trainer]
  BY <1>1, EncoderMoves
<1>3. Steps'
  BY <1>1, <1>2 DEF Steps
<1>4. LockInv'
  BY <1>1, <1>2, Classes DEF LockInv, Breaking
<1>5. QED
  BY <1>3, <1>4

LEMMA TrainerWorks ==
    ASSUME Steps, LockInv, NEW from, NEW to \in TrainSteps, Train(from, to),
           \/ from \in HoldSteps \ TrainNoName /\ to \in HoldSteps \ TrainNoName
           \/ from \notin HoldSteps /\ to \notin HoldSteps
    PROVE  Steps' /\ LockInv'
<1>1. Move(Trainer, from, to) /\ lock' = lock
  BY DEF Train
<1>2. /\ pc' \in [Procs -> EncSteps \cup TrainSteps]
      /\ pc[Trainer] = from /\ pc'[Trainer] = to /\ pc'[Encoder] = pc[Encoder]
  BY <1>1, TrainerMoves
<1>3. Steps'
  BY <1>1, <1>2 DEF Steps
<1>4. LockInv'
  BY <1>1, <1>2 DEF LockInv
<1>5. QED
  BY <1>3, <1>4

\* The trainer's lock: entered where nobody holds one, and given back.
LEMMA TrainerEnters ==
    ASSUME Steps, LockInv, NEW asked, NEW made, NEW held, MPSEnter(Trainer, asked, made, held),
           asked \in TrainSteps \ HoldSteps, made \in TrainNoName, held \in HoldSteps \ TrainNoName
    PROVE  Steps' /\ LockInv'
<1>1. TrainNoName \subseteq HoldSteps /\ HoldSteps \subseteq TrainSteps
  BY Classes
<1>2. CASE MakeDir(Trainer, asked, made)
  <2>1. Move(Trainer, asked, made) /\ ~lock.dir /\ lock' = [dir |-> TRUE, owner |-> Nobody, stale |-> FALSE]
    BY <1>2 DEF MakeDir, NoLock
  <2>2. /\ pc' \in [Procs -> EncSteps \cup TrainSteps]
        /\ pc[Trainer] = asked /\ pc'[Trainer] = made /\ pc'[Encoder] = pc[Encoder]
    BY <1>1, <2>1, TrainerMoves
  <2>3. Steps'
    BY <1>1, <2>1, <2>2 DEF Steps
  <2>4. LockInv'
    BY <1>1, <2>1, <2>2 DEF LockInv, Breaking
  <2>5. QED
    BY <2>3, <2>4
<1>3. CASE WriteOwner(Trainer, made, held)
  <2>1. /\ Move(Trainer, made, held)
        /\ lock' = [lock EXCEPT !.owner = Trainer, !.stale = FALSE]
    BY <1>3 DEF WriteOwner
  <2>2. /\ pc' \in [Procs -> EncSteps \cup TrainSteps]
        /\ pc[Trainer] = made /\ pc'[Trainer] = held /\ pc'[Encoder] = pc[Encoder]
    BY <1>1, <2>1, TrainerMoves
  <2>3. Steps'
    BY <1>1, <2>1, <2>2 DEF Steps, Procs
  <2>4. LockInv'
    BY <1>1, <2>1, <2>2 DEF LockInv, Steps, Breaking
  <2>5. QED
    BY <2>3, <2>4
<1>4. QED
  BY <1>2, <1>3 DEF MPSEnter

LEMMA TrainerLeaves ==
    ASSUME Steps, LockInv, NEW held, NEW emptied, NEW free, MPSExit(Trainer, held, emptied, free),
           held \in HoldSteps \ TrainNoName, emptied \in TrainNoName, free \in TrainSteps \ HoldSteps
    PROVE  Steps' /\ LockInv'
<1>1. TrainNoName \subseteq HoldSteps /\ HoldSteps \subseteq TrainSteps
  BY Classes
<1>2. CASE UnlinkOwner(Trainer, held, emptied)
  <2>1. /\ Move(Trainer, held, emptied)
        /\ lock' = [lock EXCEPT !.owner = Nobody, !.stale = FALSE]
    BY <1>2 DEF UnlinkOwner
  <2>2. /\ pc' \in [Procs -> EncSteps \cup TrainSteps]
        /\ pc[Trainer] = held /\ pc'[Trainer] = emptied /\ pc'[Encoder] = pc[Encoder]
    BY <1>1, <2>1, TrainerMoves
  <2>3. Steps'
    BY <1>1, <2>1, <2>2 DEF Steps
  <2>4. LockInv'
    BY <1>1, <2>1, <2>2 DEF LockInv, Steps, Breaking
  <2>5. QED
    BY <2>3, <2>4
<1>3. CASE RemoveDir(Trainer, emptied, free)
  <2>1. /\ Move(Trainer, emptied, free)
        /\ \/ lock' = [dir |-> FALSE, owner |-> Nobody, stale |-> FALSE]
           \/ lock' = lock
    BY <1>3 DEF RemoveDir, NoLock
  <2>2. /\ pc' \in [Procs -> EncSteps \cup TrainSteps]
        /\ pc[Trainer] = emptied /\ pc'[Trainer] = free /\ pc'[Encoder] = pc[Encoder]
    BY <1>1, <2>1, TrainerMoves
  <2>3. lock' \in [dir : BOOLEAN, owner : Procs \cup {Nobody}, stale : BOOLEAN]
    <3>1. CASE lock' = lock
      BY <3>1 DEF Steps
    <3>2. CASE lock' = [dir |-> FALSE, owner |-> Nobody, stale |-> FALSE]
      BY <3>2
    <3>3. QED
      BY <2>1, <3>1, <3>2
  <2>6. Steps'
    BY <1>1, <2>2, <2>3 DEF Steps
  <2>4. LockInv'
    BY <1>1, <2>1, <2>2 DEF LockInv, Steps, Breaking
  <2>5. QED
    BY <2>4, <2>6
<1>4. QED
  BY <1>2, <1>3 DEF MPSExit

LEMMA EncoderAcquires ==
    ASSUME Steps, LockInv, AcquireLock
    PROVE  Steps' /\ LockInv'
<1>1. {"mkdir", "owner", "queryVecs", "unlinkStale", "rmdirStale", "off"} \subseteq EncSteps
  BY DEF EncSteps, InTry
<1>2. /\ {"owner", "queryVecs"} \subseteq EncHoldSteps /\ {"mkdir", "off"} \cap EncHoldSteps = {}
      /\ "owner" \in EncNoName /\ "queryVecs" \notin EncNoName
  BY DEF EncHoldSteps, InTry, EncNoName
<1>3. CASE MakeDir(Encoder, "mkdir", "owner")
  <2>1. /\ Move(Encoder, "mkdir", "owner") /\ ~lock.dir
        /\ lock' = [dir |-> TRUE, owner |-> Nobody, stale |-> FALSE]
    BY <1>3 DEF MakeDir, NoLock
  <2>2. /\ pc' \in [Procs -> EncSteps \cup TrainSteps]
        /\ pc[Encoder] = "mkdir" /\ pc'[Encoder] = "owner" /\ pc'[Trainer] = pc[Trainer]
    BY <1>1, <2>1, EncoderMoves
  <2>3. Steps'
    BY <1>1, <2>1, <2>2 DEF Steps
  <2>4. LockInv'
    BY <1>2, <2>1, <2>2 DEF LockInv, Breaking
  <2>5. QED
    BY <2>3, <2>4
<1>4. CASE WriteOwner(Encoder, "owner", "queryVecs")
  <2>1. /\ Move(Encoder, "owner", "queryVecs")
        /\ lock' = [lock EXCEPT !.owner = Encoder, !.stale = FALSE]
    BY <1>4 DEF WriteOwner
  <2>2. /\ pc' \in [Procs -> EncSteps \cup TrainSteps]
        /\ pc[Encoder] = "owner" /\ pc'[Encoder] = "queryVecs" /\ pc'[Trainer] = pc[Trainer]
    BY <1>1, <2>1, EncoderMoves
  <2>3. Steps'
    BY <1>1, <2>1, <2>2 DEF Steps, Procs
  <2>4. LockInv'
    BY <1>2, <2>1, <2>2 DEF LockInv, Steps, Breaking
  <2>5. QED
    BY <2>3, <2>4
<1>5. CASE /\ lock.dir /\ LockOwnerDead /\ Move(Encoder, "mkdir", "unlinkStale") /\ UNCHANGED lock
  <2>1. /\ pc' \in [Procs -> EncSteps \cup TrainSteps]
        /\ pc[Encoder] = "mkdir" /\ pc'[Encoder] = "unlinkStale" /\ pc'[Trainer] = pc[Trainer]
    BY <1>1, <1>5, EncoderMoves
  <2>2. "unlinkStale" \notin EncHoldSteps
    BY Classes DEF Breaking
  <2>3. lock.owner # Nobody /\ lock.owner # Trainer
    BY <1>5, ProcsAssumption DEF LockOwnerDead, Procs
  <2>4. Steps'
    BY <1>1, <1>5, <2>1 DEF Steps
  <2>5. LockInv'
    BY <1>5, <2>1, <2>2, <2>3 DEF LockInv, Breaking, LockOwnerDead
  <2>6. QED
    BY <2>4, <2>5
<1>6. CASE UnlinkOwner(Encoder, "unlinkStale", "rmdirStale")
  <2>1. /\ Move(Encoder, "unlinkStale", "rmdirStale")
        /\ lock' = [lock EXCEPT !.owner = Nobody, !.stale = FALSE]
    BY <1>6 DEF UnlinkOwner
  <2>2. /\ pc' \in [Procs -> EncSteps \cup TrainSteps]
        /\ pc[Encoder] = "unlinkStale" /\ pc'[Encoder] = "rmdirStale" /\ pc'[Trainer] = pc[Trainer]
    BY <1>1, <2>1, EncoderMoves
  <2>3. "rmdirStale" \notin EncHoldSteps
    BY Classes DEF Breaking
  <2>4. Steps'
    BY <1>1, <2>1, <2>2 DEF Steps
  <2>5. LockInv'
    BY <2>1, <2>2, <2>3 DEF LockInv, Steps, Breaking
  <2>6. QED
    BY <2>4, <2>5
<1>7. CASE RemoveDir(Encoder, "rmdirStale", "mkdir")
  <2>1. /\ Move(Encoder, "rmdirStale", "mkdir")
        /\ \/ lock' = [dir |-> FALSE, owner |-> Nobody, stale |-> FALSE]
           \/ lock' = lock
    BY <1>7 DEF RemoveDir, NoLock
  <2>2. /\ pc' \in [Procs -> EncSteps \cup TrainSteps]
        /\ pc[Encoder] = "rmdirStale" /\ pc'[Encoder] = "mkdir" /\ pc'[Trainer] = pc[Trainer]
    BY <1>1, <2>1, EncoderMoves
  <2>3. lock' \in [dir : BOOLEAN, owner : Procs \cup {Nobody}, stale : BOOLEAN]
    <3>1. CASE lock' = lock
      BY <3>1 DEF Steps
    <3>2. CASE lock' = [dir |-> FALSE, owner |-> Nobody, stale |-> FALSE]
      BY <3>2
    <3>3. QED
      BY <2>1, <3>1, <3>2
  <2>4. Steps'
    BY <1>1, <2>2, <2>3 DEF Steps
  <2>5. LockInv'
    BY <1>2, <2>1, <2>2 DEF LockInv, Breaking
  <2>6. QED
    BY <2>4, <2>5
<1>8. CASE /\ lock.dir /\ ~LockOwnerDead /\ Move(Encoder, "mkdir", "off") /\ UNCHANGED lock
  <2>1. Enc("mkdir", "off")
    BY <1>8 DEF Enc
  <2>2. {"mkdir", "off"} \cap (EncHoldSteps \cup Breaking) = {}
    BY <1>2 DEF Breaking
  <2>3. QED
    BY <1>1, <2>1, <2>2, EncoderWorks
<1>9. QED
  BY <1>3, <1>4, <1>5, <1>6, <1>7, <1>8 DEF AcquireLock

LEMMA EncoderReleases ==
    ASSUME Steps, LockInv, NEW held, NEW emptied, NEW free, MPSExit(Encoder, held, emptied, free),
           held \in EncHoldSteps \ EncNoName, emptied \in EncNoName,
           free \in EncSteps \ (EncHoldSteps \cup Breaking)
    PROVE  Steps' /\ LockInv'
<1>1. CASE UnlinkOwner(Encoder, held, emptied)
  <2>1. /\ Move(Encoder, held, emptied)
        /\ lock' = [lock EXCEPT !.owner = Nobody, !.stale = FALSE]
    BY <1>1 DEF UnlinkOwner
  <2>2. /\ pc' \in [Procs -> EncSteps \cup TrainSteps]
        /\ pc[Encoder] = held /\ pc'[Encoder] = emptied /\ pc'[Trainer] = pc[Trainer]
    BY <2>1, Classes, EncoderMoves
  <2>3. Steps'
    BY <2>1, <2>2, Classes DEF Steps
  <2>4. LockInv'
    BY <2>1, <2>2, Classes DEF LockInv, Steps, Breaking
  <2>5. QED
    BY <2>3, <2>4
<1>2. CASE RemoveDir(Encoder, emptied, free)
  <2>1. /\ Move(Encoder, emptied, free)
        /\ \/ lock' = [dir |-> FALSE, owner |-> Nobody, stale |-> FALSE]
           \/ lock' = lock
    BY <1>2 DEF RemoveDir, NoLock
  <2>2. /\ pc' \in [Procs -> EncSteps \cup TrainSteps]
        /\ pc[Encoder] = emptied /\ pc'[Encoder] = free /\ pc'[Trainer] = pc[Trainer]
    BY <2>1, Classes, EncoderMoves
  <2>3. lock' \in [dir : BOOLEAN, owner : Procs \cup {Nobody}, stale : BOOLEAN]
    <3>1. CASE lock' = lock
      BY <3>1 DEF Steps
    <3>2. CASE lock' = [dir |-> FALSE, owner |-> Nobody, stale |-> FALSE]
      BY <3>2
    <3>3. QED
      BY <2>1, <3>1, <3>2
  <2>4. Steps'
    BY <2>2, <2>3 DEF Steps
  <2>5. LockInv'
    BY <2>1, <2>2, Classes DEF LockInv, Breaking
  <2>6. QED
    BY <2>4, <2>5
<1>3. QED
  BY <1>1, <1>2 DEF MPSExit
-----------------------------------------------------------------------------
(* The lock, step by step. *)

LEMMA EncoderKeepsLock ==
    ASSUME Steps, LockInv, EncoderStep
    PROVE  Steps' /\ LockInv'
<1> DEFINE Idle == EncSteps \ (EncHoldSteps \cup Breaking)
           Held == EncHoldSteps \ EncNoName
<1>1. ASSUME NEW from, NEW to \in Idle, from \notin EncHoldSteps \cup Breaking, Enc(from, to)
      PROVE  Steps' /\ LockInv'
  BY <1>1, EncoderWorks
<1>2. ASSUME NEW from \in Held, NEW to \in Held, Enc(from, to)
      PROVE  Steps' /\ LockInv'
  BY <1>2, Classes, EncoderWorks
<1>3. {"off", "mkdir", "ready", "done"} \subseteq Idle
  BY DEF EncSteps, EncHoldSteps, InTry, Breaking
<1>4. InTry \cup {"unlinkOwner", "failUnlink"} \subseteq Held
  BY DEF EncHoldSteps, InTry, EncNoName
<1>5. CASE StartEncoder
  BY <1>1, <1>3, <1>5 DEF StartEncoder
<1>6. CASE AcquireLock /\ UNCHANGED encVars
  BY <1>6, EncoderAcquires
<1>7. CASE EncodeQueries
  BY <1>2, <1>4, <1>7 DEF EncodeQueries, InTry
<1>8. CASE Open
  BY <1>2, <1>4, <1>8 DEF Open, InTry
<1>9. CASE Create \/ ReadProgress
  BY <1>2, <1>4, <1>9 DEF Create, ReadProgress, InTry
<1>10. CASE WriteRows \/ Flush \/ MarkDone \/ LogChunk
  BY <1>2, <1>4, <1>10 DEF WriteRows, Flush, MarkDone, LogChunk, InTry
<1>11. CASE CheckNorms
  BY <1>2, <1>4, <1>11 DEF CheckNorms, InTry
<1>12. CASE Rename \/ UnlinkProgress
  BY <1>2, <1>4, <1>12 DEF Rename, UnlinkProgress, InTry
<1>13. CASE WriteStats
  BY <1>2, <1>4, <1>13 DEF WriteStats, InTry
<1>14. CASE Release
  <2>1. {"rmdir", "failRmdir"} \subseteq EncNoName
    BY DEF EncNoName
  <2>2. QED
    BY <1>3, <1>4, <1>14, <2>1, EncoderReleases DEF Release
<1>15. CASE WriteReady
  BY <1>1, <1>3, <1>15 DEF WriteReady
<1>16. QED
  BY <1>5, <1>6, <1>7, <1>8, <1>9, <1>10, <1>11, <1>12, <1>13, <1>14, <1>15 DEF EncoderStep

LEMMA TrainerKeepsLock ==
    ASSUME Steps, LockInv, TrainerStep
    PROVE  Steps' /\ LockInv'
<1> DEFINE Idle == TrainSteps \ HoldSteps
           Held == HoldSteps \ TrainNoName
<1>1. ASSUME NEW from, NEW to \in Idle, from \notin HoldSteps, Train(from, to)
      PROVE  Steps' /\ LockInv'
  BY <1>1, TrainerWorks
<1>2. ASSUME NEW from \in Held, NEW to \in Held, Train(from, to)
      PROVE  Steps' /\ LockInv'
  BY <1>2, Classes, TrainerWorks
<1>3. {"off", "waiting", "posLock", "posVecs", "posIds", "mine", "mineRename", "mineStats", "copyStats",
       "load", "trainLock", "dropLast", "copySummary", "judgeLock", "writeResult", "done"} \subseteq Idle
  BY DEF TrainSteps, HoldSteps
<1>4. {"posHeld", "loop", "eval", "bestTmp", "bestDrop", "bestMove", "saveDue", "lastTmp", "lastDrop",
       "trained", "judgeHeld"} \subseteq Held
  BY DEF HoldSteps, TrainNoName
<1>5. {"posOwner", "posRmdir", "trainOwner", "trainRmdir", "judgeOwner", "judgeRmdir"} \subseteq TrainNoName
  BY DEF TrainNoName
<1>6. CASE StartPipeline \/ PipelineWait
  BY <1>1, <1>3, <1>6 DEF StartPipeline, PipelineWait
<1>7. CASE EncodePositives
  <2>1. CASE MPSEnter(Trainer, "posLock", "posOwner", "posHeld")
    BY <1>3, <1>4, <1>5, <2>1, TrainerEnters
  <2>2. CASE MPSExit(Trainer, "posHeld", "posRmdir", "posVecs")
    BY <1>3, <1>4, <1>5, <2>2, TrainerLeaves
  <2>3. QED
    BY <1>1, <1>3, <1>7, <2>1, <2>2 DEF EncodePositives
<1>8. CASE Mine
  BY <1>1, <1>3, <1>8 DEF Mine
<1>9. CASE Judge
  <2>1. CASE MPSEnter(Trainer, "judgeLock", "judgeOwner", "judgeHeld")
    BY <1>3, <1>4, <1>5, <2>1, TrainerEnters
  <2>2. CASE MPSExit(Trainer, "judgeHeld", "judgeRmdir", "writeResult")
    BY <1>3, <1>4, <1>5, <2>2, TrainerLeaves
  <2>3. QED
    BY <1>1, <1>3, <1>9, <2>1, <2>2 DEF Judge
<1>10. CASE Load
  BY <1>1, <1>3, <1>10 DEF Load
<1>11. CASE EnterTraining
  BY <1>3, <1>4, <1>5, <1>11, TrainerEnters DEF EnterTraining, LoopStart
<1>12. CASE OptimizerStep \/ EndLoop \/ Evaluate
  BY <1>2, <1>4, <1>12 DEF OptimizerStep, EndLoop, Evaluate
<1>13. CASE SaveBest \/ WriteLastTmp \/ RemoveLastFile("lastDrop") \/ RenameLast
  BY <1>2, <1>4, <1>13 DEF SaveBest, WriteLastTmp, RemoveLastFile, RenameLast
<1>14. CASE SaveDue
  BY <1>2, <1>4, <1>14 DEF SaveDue
<1>15. CASE LeaveTraining
  BY <1>3, <1>4, <1>5, <1>15, TrainerLeaves DEF LeaveTraining
<1>16. CASE RemoveLastFile("dropLast") \/ DropLast
  BY <1>1, <1>3, <1>16 DEF RemoveLastFile, DropLast
<1>17. QED
  BY <1>6, <1>7, <1>8, <1>9, <1>10, <1>11, <1>12, <1>13, <1>14, <1>15, <1>16
     DEF TrainerStep, TrainingStep

\* A dead process's name stays in its lock: no living holder's does.
LEMMA DeathKeepsLock ==
    ASSUME Steps, LockInv, NEW D \in SUBSET Procs, Crash(D)
    PROVE  Steps' /\ LockInv'
<1>1. /\ lock' = [lock EXCEPT !.stale = lock.stale \/ lock.owner \in D]
      /\ pc' = [p \in Procs |-> IF p \in D THEN "off" ELSE pc[p]]
  BY DEF Crash, LockAfterDeath
<1>2. /\ "off" \in EncSteps /\ "off" \in TrainSteps
      /\ "off" \notin EncHoldSteps \cup Breaking /\ "off" \notin HoldSteps
  BY DEF EncSteps, TrainSteps, EncHoldSteps, InTry, HoldSteps, Breaking
<1>3. /\ pc' \in [Procs -> EncSteps \cup TrainSteps]
      /\ pc'[Encoder] = (IF Encoder \in D THEN "off" ELSE pc[Encoder])
      /\ pc'[Trainer] = (IF Trainer \in D THEN "off" ELSE pc[Trainer])
  BY <1>1, <1>2 DEF Steps, Procs
<1>4. /\ lock'.dir = lock.dir /\ lock'.owner = lock.owner
      /\ lock'.stale <=> lock.stale \/ lock.owner \in D
      /\ lock' \in [dir : BOOLEAN, owner : Procs \cup {Nobody}, stale : BOOLEAN]
  BY <1>1 DEF Steps
<1>5. Steps'
  BY <1>2, <1>3, <1>4 DEF Steps
<1>6. Encoder \notin D /\ lock.owner \in {Nobody, Encoder} => lock.owner \notin D
  BY ProcsAssumption
<1>7. LockInv'
  BY <1>2, <1>3, <1>4, <1>6, ProcsAssumption DEF LockInv, Breaking
<1>8. QED
  BY <1>5, <1>7

LEMMA LockStep ==
    ASSUME Steps, LockInv, [Next]_vars
    PROVE  Steps' /\ LockInv'
<1>1. CASE EncodeStep
  BY <1>1, EncoderKeepsLock DEF EncodeStep
<1>2. CASE TrainerStep
  BY <1>2, TrainerKeepsLock
<1>3. CASE Kill
  BY <1>3, DeathKeepsLock DEF Kill
<1>4. CASE Reboot
  <2>1. Crash({p \in Procs : Running(p)})
    BY <1>4 DEF Reboot
  <2>2. QED
    BY <2>1, DeathKeepsLock
<1>5. CASE TerminateEncoder
  <2>1. Enc(pc[Encoder], "failUnlink") /\ pc[Encoder] \in InTry
    BY <1>5 DEF TerminateEncoder, Terminate, Enc, Move, files
  <2>2. InTry \cup {"failUnlink"} \subseteq EncHoldSteps \ EncNoName
    BY DEF InTry, EncHoldSteps, EncNoName
  <2>3. QED
    BY <2>1, <2>2, Classes, EncoderWorks
<1>6. CASE UNCHANGED vars
  BY <1>6 DEF vars, Steps, LockInv
<1>7. QED
  BY <1>1, <1>2, <1>3, <1>4, <1>5, <1>6 DEF Next
-----------------------------------------------------------------------------
(* The encoder's files. *)

\* Every row is in the one chunk that its number says.
LEMMA ChunksOfRows ==
    /\ Chunks \subseteq Int
    /\ \A c \in Chunks : RowsOf(c) \subseteq Rows
    /\ \A r \in Rows : \E c \in Chunks : r \in RowsOf(c)
    /\ \A c, d \in Chunks : c # d => RowsOf(c) \cap RowsOf(d) = {}
<1>1. CHUNK \in Nat \ {0} /\ N \in Nat \ {0}
  BY SizesAssumption
<1>2. \A r \in Rows : r \div CHUNK \in Int
  BY <1>1 DEF Rows
<1>3. QED
  BY <1>2 DEF Chunks, RowsOf

LEMMA OneIsCurrent ==
    ASSUME todo \subseteq Chunks, NEW c \in todo, NEW d \in todo, Current(c), Current(d)
    PROVE  c = d
  BY ChunksOfRows DEF Current

LEMMA TrainerTouchesNoFile ==
    ASSUME Steps, TrainerStep
    PROVE  pc'[Encoder] = pc[Encoder] /\ UNCHANGED encVars
<1>1. ASSUME NEW from, NEW to, Move(Trainer, from, to)
      PROVE  pc'[Encoder] = pc[Encoder]
  BY <1>1, ProcsAssumption DEF Move, Goto, Steps, Procs
<1>2. ASSUME NEW a, NEW b, NEW c, MPSEnter(Trainer, a, b, c) \/ MPSExit(Trainer, a, b, c)
      PROVE  pc'[Encoder] = pc[Encoder]
  BY <1>1, <1>2 DEF MPSEnter, MPSExit, MakeDir, WriteOwner, UnlinkOwner, RemoveDir
<1>3. ASSUME NEW from, NEW to, Train(from, to)
      PROVE  pc'[Encoder] = pc[Encoder]
  BY <1>1, <1>3 DEF Train
<1>4. UNCHANGED encVars
  BY DEF TrainerStep
<1>5. CASE StartPipeline \/ PipelineWait \/ EncodePositives \/ Mine \/ Judge
  BY <1>2, <1>3, <1>4, <1>5 DEF StartPipeline, PipelineWait, EncodePositives, Mine, Judge
<1>6. CASE TrainingStep
  <2>1. CASE Load \/ EnterTraining \/ OptimizerStep \/ EndLoop \/ Evaluate
    BY <1>2, <1>3, <1>4, <2>1 DEF Load, EnterTraining, OptimizerStep, EndLoop, Evaluate
  <2>2. CASE SaveBest \/ SaveDue \/ WriteLastTmp \/ RemoveLastFile("lastDrop") \/ RenameLast
    BY <1>3, <1>4, <2>2 DEF SaveBest, SaveDue, WriteLastTmp, RemoveLastFile, RenameLast
  <2>3. CASE LeaveTraining \/ RemoveLastFile("dropLast") \/ DropLast
    BY <1>2, <1>3, <1>4, <2>3 DEF LeaveTraining, RemoveLastFile, DropLast
  <2>4. QED
    BY <1>6, <2>1, <2>2, <2>3 DEF TrainingStep
<1>7. QED
  BY <1>5, <1>6 DEF TrainerStep

\* A step of the encoder from one place to another.
LEMMA EncoderGoes ==
    ASSUME Steps, NEW from, NEW to, Enc(from, to)
    PROVE  pc[Encoder] = from /\ pc'[Encoder] = to /\ pc'[Trainer] = pc[Trainer]
  BY ProcsAssumption DEF Enc, Move, Goto, Steps, Procs

Files == FileTypes /\ FileInv /\ MemoryInv

\* Nothing is said of the files of an encoder that is at none of these steps.
Loose == EncSteps \ (Making \cup Filling
                        \cup {"read", "rename", "unlinkProgress", "stats", "unlinkOwner", "rmdir", "ready"})
LEMMA FilesAtRest ==
    ASSUME Files, UNCHANGED <<partial, final, progress, chunkLog, ready>>, todo' \subseteq Chunks,
           pc'[Encoder] \in Loose
    PROVE  Files'
<1>1. FileTypes'
  BY DEF Files, FileTypes
<1>2. FileInv'
  BY DEF Files, FileInv, Loose, Making, EncodedWhole, OnDisk
<1>3. MemoryInv'
  BY DEF MemoryInv, Loose, Filling
<1>4. QED
  BY <1>1, <1>2, <1>3 DEF Files

LEMMA FilesUntouched ==
    ASSUME Files, UNCHANGED encVars, pc'[Encoder] = pc[Encoder]
    PROVE  Files'
<1>1. FileTypes'
  BY DEF Files, FileTypes, encVars
<1>2. FileInv'
  BY DEF Files, FileInv, encVars, EncodedWhole, OnDisk
<1>3. MemoryInv'
  BY DEF Files, MemoryInv, encVars, EncodedWhole, OnDisk, Current
<1>4. QED
  BY <1>1, <1>2, <1>3 DEF Files

LEMMA FilesMove ==
    ASSUME Steps, Files,
           \/ AcquireLock /\ UNCHANGED encVars
           \/ StartEncoder \/ EncodeQueries \/ Release \/ WriteReady
    PROVE  Files'
<1>1. {"mkdir", "queryVecs", "owner", "unlinkStale", "rmdirStale", "off", "queryIds", "open", "failRmdir", "done"}
         \subseteq Loose
  BY DEF Loose, EncSteps, InTry, Making, Filling
<1>2. ASSUME NEW from, NEW to, Move(Encoder, from, to)
      PROVE  pc[Encoder] = from /\ pc'[Encoder] = to
  BY <1>2, ProcsAssumption DEF Move, Goto, Steps, Procs
<1>3. CASE AcquireLock /\ UNCHANGED encVars
  <2>1. pc'[Encoder] \in Loose
    BY <1>1, <1>2, <1>3 DEF AcquireLock, MakeDir, WriteOwner, UnlinkOwner, RemoveDir
  <2>2. QED
    BY <1>3, <2>1, FilesAtRest DEF encVars, Files, FileTypes
<1>4. CASE StartEncoder
  BY <1>1, <1>2, <1>4, FilesAtRest DEF StartEncoder, Enc, encVars, Files, FileTypes
<1>5. CASE EncodeQueries
  <2>1. pc'[Encoder] \in Loose /\ UNCHANGED <<partial, final, progress, todo, chunkLog, stats, ready>>
    BY <1>1, <1>2, <1>5 DEF EncodeQueries, Enc
  <2>2. FileTypes' /\ MemoryInv'
    BY <2>1 DEF Files, FileTypes, MemoryInv, Loose, Filling
  <2>3. FileInv'
    BY <2>1 DEF Files, FileInv, Loose, Making, EncodedWhole, OnDisk
  <2>4. QED
    BY <2>2, <2>3 DEF Files
<1>6. CASE Release
  <2>1. UNCHANGED encVars
    BY <1>6 DEF Release
  <2>2. \/ pc'[Encoder] \in {"failRmdir", "off"}
        \/ pc[Encoder] = "unlinkOwner" /\ pc'[Encoder] = "rmdir"
        \/ pc[Encoder] = "rmdir" /\ pc'[Encoder] = "ready"
    BY <1>2, <1>6 DEF Release, MPSExit, UnlinkOwner, RemoveDir
  <2>3. CASE pc'[Encoder] \in {"failRmdir", "off"}
    BY <1>1, <2>1, <2>3, FilesAtRest DEF encVars, Files, FileTypes
  <2>4. CASE pc[Encoder] \in {"unlinkOwner", "rmdir"} /\ pc'[Encoder] \in {"rmdir", "ready"}
    <3>1. FileTypes' /\ MemoryInv'
      BY <2>1, <2>4 DEF Files, FileTypes, MemoryInv, Filling, encVars
    <3>2. FileInv'
      BY <2>1, <2>4 DEF Files, FileInv, Making, Filling, EncodedWhole, OnDisk, encVars
    <3>3. QED
      BY <3>1, <3>2 DEF Files
  <2>5. QED
    BY <2>2, <2>3, <2>4
<1>7. CASE WriteReady
  <2>1. /\ pc[Encoder] = "ready" /\ pc'[Encoder] = "done" /\ ready' = (ready \/ final.there)
        /\ UNCHANGED <<partial, final, progress, todo, chunkLog>>
    BY <1>2, <1>7 DEF WriteReady, Enc
  <2>2. FileTypes' /\ MemoryInv'
    BY <2>1 DEF Files, FileTypes, MemoryInv, Filling
  <2>3. FileInv'
    BY <2>1 DEF Files, FileInv, Making, Filling, EncodedWhole, OnDisk
  <2>4. QED
    BY <2>2, <2>3 DEF Files
<1>8. QED
  BY <1>3, <1>4, <1>5, <1>6, <1>7

\* What the file operations between opening and renaming need.
LEMMA NewFile ==
    ASSUME Steps, Files, Open \/ Create \/ ReadProgress
    PROVE  Files'
<1>1. CASE Open
  <2>1. /\ pc[Encoder] = "open" /\ UNCHANGED encVars
        /\ pc'[Encoder] = (IF final.there THEN "unlinkOwner" ELSE IF partial.there THEN "read" ELSE "create")
    BY <1>1, EncoderGoes DEF Open
  <2>2. FileTypes' /\ MemoryInv'
    BY <2>1 DEF Files, FileTypes, MemoryInv, Filling, encVars
  <2>3. FileInv'
    BY <2>1 DEF Files, FileInv, Making, Filling, EncodedWhole, OnDisk, encVars
  <2>4. QED
    BY <2>2, <2>3 DEF Files
<1>2. CASE Create
  <2>1. /\ <<pc[Encoder], pc'[Encoder]>> \in {<<"create", "truncate">>, <<"truncate", "reset">>, <<"reset", "read">>}
        /\ UNCHANGED <<final, todo, chunkLog, ready>>
    BY <1>2, EncoderGoes DEF Create
  <2>2. progress = {} /\ progress' = {} /\ ~final.there
    BY <1>2, <2>1 DEF Create, Files, FileInv, Making
  <2>3. partial' \in File /\ partial'.there
    <3>1. NoFile \in File
      BY DEF NoFile, File, RowStates
    <3>2. \/ partial' = [NoFile EXCEPT !.there = TRUE]
          \/ partial' = [partial EXCEPT !.header = TRUE] /\ pc[Encoder] = "truncate"
          \/ partial' = partial /\ pc[Encoder] = "reset"
      BY <1>2, EncoderGoes DEF Create
    <3>3. CASE partial' = [NoFile EXCEPT !.there = TRUE]
      BY <3>1, <3>3 DEF File
    <3>4. CASE partial' = [partial EXCEPT !.header = TRUE] /\ pc[Encoder] = "truncate"
      BY <3>4 DEF File, Files, FileTypes, FileInv, Making
    <3>5. CASE partial' = partial /\ pc[Encoder] = "reset"
      BY <3>5 DEF Files, FileTypes, FileInv, Making
    <3>6. QED
      BY <3>2, <3>3, <3>4, <3>5
  <2>4. FileTypes' /\ MemoryInv'
    BY <2>1, <2>2, <2>3 DEF Files, FileTypes, MemoryInv, Filling
  <2>5. FileInv'
    BY <2>1, <2>2, <2>3 DEF Files, FileInv, Making, Filling
  <2>6. QED
    BY <2>4, <2>5 DEF Files
<1>3. CASE ReadProgress
  <2>1. /\ pc[Encoder] = "read" /\ pc'[Encoder] = "rows" /\ todo' = Chunks \ progress
        /\ UNCHANGED <<partial, final, progress, chunkLog, ready>>
    BY <1>3, EncoderGoes DEF ReadProgress, files
  <2>2. FileTypes'
    BY <2>1 DEF Files, FileTypes
  <2>3. FileInv'
    BY <2>1 DEF Files, FileInv, Making, Filling, EncodedWhole, OnDisk
  <2>4. MemoryInv'
    <3>1. ~final.there /\ partial.there
      BY <2>1 DEF Files, FileInv, Making, Filling
    <3>2. \A c \in Chunks \ todo' : OnDisk(c)'
      BY <2>1, <3>1 DEF Files, FileInv, OnDisk
    <3>3. \A c \in todo' : chunkLog'[c] = 0
      BY <2>1, <3>1 DEF Files, FileTypes, FileInv
    <3>4. QED
      BY <2>1, <3>2, <3>3 DEF MemoryInv, Filling
  <2>5. QED
    BY <2>2, <2>3, <2>4 DEF Files
<1>4. QED
  BY <1>1, <1>2, <1>3

\* Writing a chunk disturbs no other, and no chunk that progress names.
LEMMA ChunkWritten ==
    ASSUME Steps, Files, WriteRows
    PROVE  Files'
<1>1. /\ pc[Encoder] = "rows" /\ pc'[Encoder] = "flush"
      /\ UNCHANGED <<final, progress, todo, chunkLog, ready>>
  BY EncoderGoes DEF WriteRows
<1>2. PICK c \in todo : Current(c) /\ partial' =
            [partial EXCEPT !.rows = [r \in Rows |-> IF r \in RowsOf(c) THEN "dirty" ELSE partial.rows[r]]]
  BY DEF WriteRows
<1>3. c \in Chunks
  BY DEF Files, FileTypes
<1>4. /\ partial' \in File /\ partial'.there = partial.there
      /\ \A r \in Rows : partial'.rows[r] = IF r \in RowsOf(c) THEN "dirty" ELSE partial.rows[r]
  BY <1>2 DEF Files, FileTypes, File, RowStates
<1>5. \A d \in Chunks : d # c /\ OnDisk(d) => OnDisk(d)'
  BY <1>3, <1>4, ChunksOfRows DEF OnDisk
<1>6. FileTypes'
  BY <1>1, <1>4 DEF Files, FileTypes
<1>7. FileInv'
  <2>1. c \notin progress /\ progress \subseteq Chunks /\ ~final.there /\ partial.there
    BY <1>1 DEF Files, MemoryInv, FileTypes, FileInv, Filling
  <2>2. \A d \in progress' : partial'.there => OnDisk(d)'
    BY <1>1, <1>5, <2>1 DEF Files, FileInv
  <2>3. QED
    BY <1>1, <1>4, <2>1, <2>2 DEF Files, FileInv, Making, Filling
<1>8. MemoryInv'
  <2>1. \A d \in Chunks \ todo' : OnDisk(d)'
    BY <1>1, <1>5 DEF Files, MemoryInv, Filling
  <2>2. \A d \in todo' : Current(d)' => d = c
    BY <1>1, <1>2, OneIsCurrent DEF Files, FileTypes, Current
  <2>3. \A r \in RowsOf(c) : partial'.rows[r] # "zero"
    BY <1>3, <1>4, ChunksOfRows
  <2>4. QED
    BY <1>1, <1>2, <2>1, <2>2, <2>3 DEF Files, MemoryInv, Filling, Current
<1>9. QED
  BY <1>6, <1>7, <1>8 DEF Files

LEMMA ChunkFlushed ==
    ASSUME Steps, Files, Flush
    PROVE  Files'
<1>1. /\ pc[Encoder] = "flush" /\ pc'[Encoder] = "mark"
      /\ UNCHANGED <<final, progress, todo, chunkLog, ready>>
      /\ partial' = [partial EXCEPT !.rows = Flushed(partial.rows)]
  BY EncoderGoes DEF Flush
<1>2. /\ partial' \in File /\ partial'.there = partial.there
      /\ \A r \in Rows : partial'.rows[r] = IF partial.rows[r] = "dirty" THEN "disk" ELSE partial.rows[r]
  BY <1>1 DEF Files, FileTypes, File, RowStates, Flushed
<1>3. \A d \in Chunks : OnDisk(d) => OnDisk(d)'
  BY <1>2, ChunksOfRows DEF OnDisk
<1>4. FileTypes'
  BY <1>1, <1>2 DEF Files, FileTypes
<1>5. FileInv'
  <2>1. \A d \in progress' : partial'.there => OnDisk(d)'
    BY <1>1, <1>2, <1>3 DEF Files, FileTypes, FileInv
  <2>2. QED
    BY <1>1, <1>2, <2>1 DEF Files, FileInv, Making, Filling
<1>6. MemoryInv'
  <2>1. \A d \in Chunks \ todo' : OnDisk(d)'
    BY <1>1, <1>3 DEF Files, MemoryInv, Filling
  <2>2. ASSUME NEW d \in todo, Current(d)
        PROVE  OnDisk(d)'
    <3>1. \A r \in RowsOf(d) : r \in Rows /\ partial.rows[r] \in {"dirty", "disk"}
      BY <1>1, <2>2, ChunksOfRows DEF Files, FileTypes, File, RowStates, MemoryInv, Filling
    <3>2. QED
      BY <1>2, <3>1 DEF OnDisk
  <2>3. QED
    BY <1>1, <2>1, <2>2 DEF Files, MemoryInv, Filling, Current
<1>7. QED
  BY <1>4, <1>5, <1>6 DEF Files

LEMMA ChunkMarked ==
    ASSUME Steps, Files, MarkDone
    PROVE  Files'
<1>1. /\ pc[Encoder] = "mark" /\ pc'[Encoder] = "log"
      /\ UNCHANGED <<partial, final, todo, chunkLog, ready>>
  BY EncoderGoes DEF MarkDone
<1>2. PICK c \in todo : Current(c) /\ progress' = progress \cup {c}
  BY DEF MarkDone
<1>3. c \in Chunks /\ OnDisk(c)
  BY <1>1, <1>2 DEF Files, FileTypes, MemoryInv, Filling
<1>4. FileTypes'
  BY <1>1, <1>2, <1>3 DEF Files, FileTypes
<1>5. FileInv'
  BY <1>1, <1>2, <1>3 DEF Files, FileInv, Making, Filling, EncodedWhole, OnDisk
<1>6. MemoryInv'
  <2>1. \A d \in todo : Current(d) <=> d = c
    BY <1>2, OneIsCurrent DEF Files, FileTypes
  <2>2. \A d \in todo' : Current(d)' <=> d \in progress'
    BY <1>1, <1>2, <2>1 DEF Files, MemoryInv, Filling, Current
  <2>3. QED
    BY <1>1, <2>2 DEF Files, MemoryInv, Filling, OnDisk
<1>7. QED
  BY <1>4, <1>5, <1>6 DEF Files

LEMMA ChunkLogged ==
    ASSUME Steps, Files, LogChunk
    PROVE  Files'
<1>1. /\ pc[Encoder] = "log" /\ pc'[Encoder] = "rows"
      /\ UNCHANGED <<partial, final, progress, ready>>
  BY EncoderGoes DEF LogChunk
<1>2. PICK c \in todo : /\ Current(c) /\ todo' = todo \ {c}
                        /\ chunkLog' = [chunkLog EXCEPT ![c] = chunkLog[c] + 1]
  BY DEF LogChunk
<1>3. c \in Chunks /\ c \in progress /\ chunkLog[c] = 0
  BY <1>1, <1>2 DEF Files, FileTypes, MemoryInv, Filling
<1>4. /\ chunkLog' \in [Chunks -> Nat] /\ chunkLog'[c] = 1
      /\ \A d \in Chunks : d # c => chunkLog'[d] = chunkLog[d]
  BY <1>2, <1>3 DEF Files, FileTypes
<1>5. FileTypes'
  BY <1>1, <1>2, <1>4 DEF Files, FileTypes
<1>6. FileInv'
  BY <1>1, <1>3, <1>4 DEF Files, FileInv, Making, Filling, EncodedWhole, OnDisk
<1>7. MemoryInv'
  <2>1. \A d \in Chunks \ todo' : OnDisk(d)'
    BY <1>1, <1>2, <1>3 DEF Files, FileInv, MemoryInv, Filling, OnDisk
  <2>2. \A d \in todo' : d \notin progress' /\ chunkLog'[d] = 0
    BY <1>1, <1>2, <1>4, OneIsCurrent DEF Files, FileTypes, MemoryInv, Filling
  <2>3. QED
    BY <1>1, <2>1, <2>2 DEF MemoryInv, Filling
<1>8. QED
  BY <1>5, <1>6, <1>7 DEF Files

\* When nothing is left to do, every row is in a chunk that is done.
LEMMA FileFinished ==
    ASSUME Steps, Files, CheckNorms \/ Rename \/ UnlinkProgress \/ WriteStats
    PROVE  Files'
<1>1. CASE CheckNorms
  <2>1. /\ pc[Encoder] = "rows" /\ pc'[Encoder] \in {"rename", "failUnlink"} /\ todo = {}
        /\ UNCHANGED encVars
    BY <1>1, EncoderGoes DEF CheckNorms
  <2>2. FileTypes'
    BY <2>1 DEF Files, FileTypes, encVars
  <2>3. FileInv'
    BY <2>1 DEF Files, FileInv, Making, Filling, EncodedWhole, OnDisk, encVars
  <2>4. \A c \in Chunks : OnDisk(c)
    BY <2>1 DEF Files, MemoryInv, Filling
  <2>5. EncodedWhole(partial)
    BY <2>4, ChunksOfRows DEF EncodedWhole, OnDisk
  <2>6. MemoryInv'
    BY <2>1, <2>5 DEF MemoryInv, Filling, EncodedWhole, encVars
  <2>7. QED
    BY <2>2, <2>3, <2>6 DEF Files
<1>2. CASE Rename
  <2>1. /\ pc[Encoder] = "rename" /\ pc'[Encoder] = "unlinkProgress"
        /\ final' = partial /\ partial' = NoFile /\ UNCHANGED <<progress, todo, chunkLog, ready>>
    BY <1>2, EncoderGoes DEF Rename
  <2>2. NoFile \in File /\ ~NoFile.there
    BY DEF NoFile, File, RowStates
  <2>3. partial.there /\ EncodedWhole(partial)
    BY <2>1 DEF Files, FileInv, MemoryInv
  <2>4. FileTypes' /\ MemoryInv'
    BY <2>1, <2>2 DEF Files, FileTypes, MemoryInv, Filling
  <2>5. FileInv'
    BY <2>1, <2>2, <2>3 DEF Files, FileInv, Making, Filling, EncodedWhole
  <2>6. QED
    BY <2>4, <2>5 DEF Files
<1>3. CASE UnlinkProgress \/ WriteStats
  <2>1. /\ \/ pc[Encoder] = "unlinkProgress" /\ pc'[Encoder] = "stats" /\ progress' = {}
           \/ pc[Encoder] = "stats" /\ pc'[Encoder] \in {"unlinkOwner", "failUnlink"} /\ progress' = progress
        /\ UNCHANGED <<partial, final, todo, chunkLog, ready>>
    BY <1>3, EncoderGoes DEF UnlinkProgress, WriteStats
  <2>2. FileTypes' /\ MemoryInv'
    BY <2>1 DEF Files, FileTypes, MemoryInv, Filling
  <2>3. FileInv'
    BY <2>1 DEF Files, FileInv, Making, Filling, EncodedWhole, OnDisk
  <2>4. QED
    BY <2>2, <2>3 DEF Files
<1>4. QED
  BY <1>1, <1>2, <1>3

\* A crash takes no row that was flushed, and the encoder's memory with it.
LEMMA FilesSurvive ==
    ASSUME Steps, Files, Kill \/ Reboot \/ TerminateEncoder
    PROVE  Files'
<1>1. {"off", "done", "failUnlink"} \subseteq Loose
  BY DEF Loose, EncSteps, InTry, Making, Filling
<1>2. ASSUME NEW D \in SUBSET Procs, Crash(D)
      PROVE  /\ UNCHANGED <<final, progress, chunkLog, ready>>
             /\ pc'[Encoder] = IF Encoder \in D THEN "off" ELSE pc[Encoder]
             /\ todo' = IF Encoder \in D THEN {} ELSE todo
  BY <1>2 DEF Crash, Procs
<1>3. CASE Kill
  <2>1. PICK p \in Procs : Crash({p}) /\ UNCHANGED partial
    BY <1>3 DEF Kill
  <2>2. /\ UNCHANGED <<final, progress, chunkLog, ready>>
        /\ pc'[Encoder] = IF Encoder \in {p} THEN "off" ELSE pc[Encoder]
        /\ todo' = IF Encoder \in {p} THEN {} ELSE todo
    BY <1>2, <2>1
  <2>3. CASE p = Encoder
    BY <1>1, <2>1, <2>2, <2>3, FilesAtRest
  <2>4. CASE p # Encoder
    <3>1. FileTypes'
      BY <2>1, <2>2, <2>4 DEF Files, FileTypes
    <3>2. FileInv'
      BY <2>1, <2>2, <2>4 DEF Files, FileInv, EncodedWhole, OnDisk
    <3>3. MemoryInv'
      BY <2>1, <2>2, <2>4 DEF Files, MemoryInv, EncodedWhole, OnDisk, Current
    <3>4. QED
      BY <3>1, <3>2, <3>3 DEF Files
  <2>5. QED
    BY <2>3, <2>4
<1>4. CASE Reboot
  <2>1. PICK rows \in RowsAfterReboot(partial.rows) : partial' = [partial EXCEPT !.rows = rows]
    BY <1>4 DEF Reboot
  <2>2. /\ UNCHANGED <<final, progress, chunkLog, ready>> /\ todo' \subseteq Chunks
        /\ pc'[Encoder] \in Loose
    <3>1. Crash({p \in Procs : Running(p)})
      BY <1>4 DEF Reboot
    <3>2. QED
      BY <1>1, <1>2, <3>1 DEF Running, Procs, Files, FileTypes
  <2>3. /\ rows \in [Rows -> RowStates]
        /\ \A r \in Rows : partial.rows[r] = "disk" => rows[r] = "disk"
    <3>1. PICK kept \in SUBSET {r \in Rows : partial.rows[r] = "dirty"} :
             rows = [r \in Rows |-> IF partial.rows[r] # "dirty" THEN partial.rows[r]
                                    ELSE IF r \in kept THEN "disk" ELSE "zero"]
      BY <2>1 DEF RowsAfterReboot
    <3>2. QED
      BY <3>1 DEF Files, FileTypes, File, RowStates
  <2>4. /\ partial' \in File /\ partial'.there = partial.there
        /\ \A r \in Rows : partial.rows[r] = "disk" => partial'.rows[r] = "disk"
    BY <2>1, <2>3 DEF Files, FileTypes, File
  <2>5. \A c \in Chunks : OnDisk(c) => OnDisk(c)'
    BY <2>4, ChunksOfRows DEF OnDisk
  <2>6. FileTypes'
    BY <2>2, <2>4 DEF Files, FileTypes
  <2>7. FileInv'
    <3>1. \A c \in progress' : partial'.there => OnDisk(c)'
      BY <2>2, <2>4, <2>5 DEF Files, FileTypes, FileInv
    <3>2. QED
      BY <2>2, <2>4, <3>1 DEF Files, FileInv, Loose, Making, Filling, EncodedWhole
  <2>8. MemoryInv'
    BY <2>2 DEF MemoryInv, Loose, Filling
  <2>9. QED
    BY <2>6, <2>7, <2>8 DEF Files
<1>5. CASE TerminateEncoder
  <2>1. /\ pc'[Encoder] = "failUnlink" /\ todo' = {}
        /\ UNCHANGED <<partial, final, progress, chunkLog, ready>>
    BY <1>5, ProcsAssumption DEF TerminateEncoder, Terminate, Goto, files, Steps, Procs
  <2>2. QED
    BY <1>1, <2>1, FilesAtRest
<1>6. QED
  BY <1>3, <1>4, <1>5

LEMMA FileStep ==
    ASSUME Steps, Files, [Next]_vars
    PROVE  Files'
<1>1. CASE EncodeStep
  BY <1>1, FilesMove, NewFile, ChunkWritten, ChunkFlushed, ChunkMarked, ChunkLogged, FileFinished
     DEF EncodeStep, EncoderStep
<1>2. CASE TrainerStep
  BY <1>2, TrainerTouchesNoFile, FilesUntouched
<1>3. CASE Kill \/ Reboot \/ TerminateEncoder
  BY <1>3, FilesSurvive
<1>4. CASE UNCHANGED vars
  BY <1>4, FilesUntouched DEF vars
<1>5. QED
  BY <1>1, <1>2, <1>3, <1>4 DEF Next
-----------------------------------------------------------------------------
(* What the pipeline relies on. *)

\* A file with the final name stays what it is.
LEMMA FinalStays ==
    ASSUME Steps, Files, [Next]_vars, final.there
    PROVE  final' = final
<1>1. CASE EncodeStep
  <2>1. ~Rename
    BY EncoderGoes DEF Rename, Files, FileInv
  <2>2. CASE \/ AcquireLock /\ UNCHANGED encVars
             \/ StartEncoder \/ EncodeQueries \/ Open \/ Create \/ ReadProgress
    BY <2>2 DEF StartEncoder, EncodeQueries, Open, Create, ReadProgress, encVars, files
  <2>3. CASE WriteRows \/ Flush \/ MarkDone \/ LogChunk \/ CheckNorms \/ UnlinkProgress \/ WriteStats \/ Release \/ WriteReady
    BY <2>3 DEF WriteRows, Flush, MarkDone, LogChunk, CheckNorms, UnlinkProgress, WriteStats, Release, WriteReady, encVars
  <2>4. QED
    BY <1>1, <2>1, <2>2, <2>3 DEF EncodeStep, EncoderStep
<1>2. CASE TrainerStep
  BY <1>2, TrainerTouchesNoFile DEF encVars
<1>3. CASE Kill \/ Reboot \/ TerminateEncoder
  BY <1>3 DEF Kill, Reboot, TerminateEncoder, Crash, Terminate, files
<1>4. CASE UNCHANGED vars
  BY <1>4 DEF vars, encVars
<1>5. QED
  BY <1>1, <1>2, <1>3, <1>4 DEF Next

\* Steps of others leave the pipeline where it is.
LEMMA PipeUntouched ==
    ASSUME Steps, Files, PipeInv, final.there => final' = final,
           UNCHANGED pipeVars, pc'[Trainer] \in {pc[Trainer], "off"}
    PROVE  PipeInv'
  BY DEF PipeInv, pipeVars, Mining

LEMMA EncoderLeavesTrainer ==
    ASSUME Steps, EncoderStep
    PROVE  pc'[Trainer] = pc[Trainer]
<1>1. ASSUME NEW from, NEW to, Move(Encoder, from, to)
      PROVE  pc'[Trainer] = pc[Trainer]
  BY <1>1, ProcsAssumption DEF Move, Goto, Steps, Procs
<1>2. CASE AcquireLock \/ Release
  BY <1>1, <1>2 DEF AcquireLock, Release, MPSExit, MakeDir, WriteOwner, UnlinkOwner, RemoveDir
<1>3. CASE StartEncoder \/ EncodeQueries \/ Open \/ Create \/ ReadProgress
  BY <1>3, EncoderGoes DEF StartEncoder, EncodeQueries, Open, Create, ReadProgress
<1>4. CASE WriteRows \/ Flush \/ MarkDone \/ LogChunk
  BY <1>4, EncoderGoes DEF WriteRows, Flush, MarkDone, LogChunk
<1>5. CASE CheckNorms \/ Rename \/ UnlinkProgress \/ WriteStats \/ WriteReady
  BY <1>5, EncoderGoes DEF CheckNorms, Rename, UnlinkProgress, WriteStats, WriteReady
<1>6. QED
  BY <1>2, <1>3, <1>4, <1>5 DEF EncoderStep

LEMMA TrainerGoes ==
    ASSUME Steps, NEW from, NEW to, Move(Trainer, from, to)
    PROVE  pc[Trainer] = from /\ pc'[Trainer] = to
  BY ProcsAssumption DEF Move, Goto, Steps, Procs

\* Before the wait and after the mining nothing is asked of the file.
Before == {"off", "waiting"}
After  == {"copyStats", "load", "trainLock", "loop", "eval", "bestTmp", "bestDrop", "bestMove", "saveDue",
           "lastTmp", "lastDrop", "trained", "trainOwner", "trainRmdir", "dropLast", "copySummary",
           "judgeLock", "judgeOwner", "judgeHeld", "judgeRmdir", "writeResult", "done"}
LEMMA PipeAfter ==
    ASSUME PipeInv, UNCHANGED <<final, mined, minedFrom>>, pc'[Trainer] \in Before \cup After
    PROVE  PipeInv'
  BY DEF PipeInv, Before, After, Mining

LEMMA TrainerKeepsPipe ==
    ASSUME Steps, Files, PipeInv, TrainerStep
    PROVE  PipeInv'
<1>1. UNCHANGED final
  BY TrainerTouchesNoFile DEF encVars
<1>2. CASE StartPipeline
  BY <1>1, <1>2, TrainerGoes, PipeAfter DEF StartPipeline, Train, pipeVars, Before
<1>3. CASE PipelineWait
  <2>1. final.there /\ pc'[Trainer] \in {"posLock", "mine"} /\ UNCHANGED pipeVars
    BY <1>3, TrainerGoes DEF PipelineWait, Train
  <2>2. QED
    BY <1>1, <2>1 DEF PipeInv, Mining, pipeVars
<1>4. CASE EncodePositives
  <2>1. /\ pc[Trainer] \in {"posLock", "posOwner", "posHeld", "posRmdir", "posVecs", "posIds"}
        /\ pc'[Trainer] \in {"posOwner", "posHeld", "posRmdir", "posVecs", "posIds", "mine"}
        /\ UNCHANGED <<mined, minedFrom>>
    BY <1>4, TrainerGoes DEF EncodePositives, Train, MPSEnter, MPSExit, MakeDir, WriteOwner, UnlinkOwner, RemoveDir, pipeVars
  <2>2. QED
    BY <1>1, <2>1 DEF PipeInv, Mining
<1>5. CASE Mine
  <2>1. CASE /\ Train("mine", IF mined > 0 THEN "copyStats" ELSE IF Minable THEN "mineRename" ELSE "off")
             /\ UNCHANGED pipeVars
    <3>1. /\ pc[Trainer] = "mine" /\ pc'[Trainer] \in {"copyStats", "mineRename", "off"}
          /\ pc'[Trainer] = "mineRename" => Minable
      BY <2>1, TrainerGoes DEF Train
    <3>2. QED
      BY <1>1, <2>1, <3>1 DEF PipeInv, Mining, Minable, pipeVars
  <2>2. CASE Train("mineRename", "mineStats") /\ mined' = 1 /\ minedFrom' = final
    BY <1>1, <2>2, TrainerGoes DEF Train, PipeInv, Mining
  <2>3. CASE Train("mineStats", "copyStats") /\ mined' = 2 /\ UNCHANGED minedFrom
    <3>1. pc[Trainer] = "mineStats" /\ pc'[Trainer] = "copyStats"
      BY <2>3, TrainerGoes DEF Train
    <3>2. QED
      BY <1>1, <2>3, <3>1 DEF PipeInv, Mining
  <2>4. CASE Train("copyStats", IF mined = 2 THEN "load" ELSE "off") /\ UNCHANGED pipeVars
    BY <1>1, <2>4, TrainerGoes, PipeAfter DEF Train, pipeVars, Before, After
  <2>5. QED
    BY <1>5, <2>1, <2>2, <2>3, <2>4 DEF Mine
<1>6. CASE Judge
  <2>1. pc'[Trainer] \in After /\ UNCHANGED <<mined, minedFrom>>
    BY <1>6, TrainerGoes DEF Judge, Train, MPSEnter, MPSExit, MakeDir, WriteOwner, UnlinkOwner, RemoveDir, pipeVars, After
  <2>2. QED
    BY <1>1, <2>1, PipeAfter
<1>7. CASE TrainingStep /\ UNCHANGED pipeVars
  <2>1. ASSUME NEW from, NEW to \in Before \cup After, Move(Trainer, from, to)
        PROVE  pc'[Trainer] \in Before \cup After
    BY <2>1, TrainerGoes
  <2>2. {"off", "trainLock", "loop", "eval", "bestTmp", "bestDrop", "bestMove", "saveDue", "lastTmp", "lastDrop",
         "trained", "trainOwner", "trainRmdir", "dropLast", "copySummary"} \subseteq Before \cup After
    BY DEF Before, After
  <2>3. pc'[Trainer] \in Before \cup After
    <3>1. CASE Load \/ OptimizerStep \/ EndLoop \/ Evaluate
      BY <2>1, <2>2, <3>1 DEF Load, OptimizerStep, EndLoop, Evaluate, Train
    <3>2. CASE SaveBest \/ SaveDue \/ WriteLastTmp \/ RemoveLastFile("lastDrop") \/ RenameLast
      BY <2>1, <2>2, <3>2 DEF SaveBest, SaveDue, WriteLastTmp, RemoveLastFile, RenameLast, Train
    <3>3. CASE RemoveLastFile("dropLast") \/ DropLast
      BY <2>1, <2>2, <3>3 DEF RemoveLastFile, DropLast, Train
    <3>4. CASE EnterTraining \/ LeaveTraining
      BY <2>1, <2>2, <3>4 DEF EnterTraining, LeaveTraining, LoopStart, MPSEnter, MPSExit,
                              MakeDir, WriteOwner, UnlinkOwner, RemoveDir
    <3>5. QED
      BY <1>7, <3>1, <3>2, <3>3, <3>4 DEF TrainingStep
  <2>4. QED
    BY <1>1, <1>7, <2>3, PipeAfter DEF pipeVars
<1>8. QED
  BY <1>2, <1>3, <1>4, <1>5, <1>6, <1>7 DEF TrainerStep

LEMMA PipeStep ==
    ASSUME Steps, Files, PipeInv, [Next]_vars
    PROVE  PipeInv'
<1>1. final.there => final' = final
  BY FinalStays
<1>2. CASE EncodeStep
  BY <1>1, <1>2, EncoderLeavesTrainer, PipeUntouched DEF EncodeStep
<1>3. CASE TrainerStep
  BY <1>3, TrainerKeepsPipe
<1>4. ASSUME NEW D \in SUBSET Procs, Crash(D)
      PROVE  PipeInv'
  <2>1. UNCHANGED pipeVars /\ pc'[Trainer] \in {pc[Trainer], "off"}
    BY <1>4 DEF Crash, Procs
  <2>2. QED
    BY <1>1, <2>1, PipeUntouched
<1>5. CASE Kill
  BY <1>4, <1>5 DEF Kill
<1>6. CASE Reboot
  <2>1. Crash({p \in Procs : Running(p)})
    BY <1>6 DEF Reboot
  <2>2. QED
    BY <1>4, <2>1
<1>7. CASE TerminateEncoder
  <2>1. UNCHANGED pipeVars /\ pc'[Trainer] = pc[Trainer]
    BY <1>7, ProcsAssumption DEF TerminateEncoder, Terminate, Goto, Steps, Procs
  <2>2. QED
    BY <1>1, <2>1, PipeUntouched
<1>8. CASE UNCHANGED vars
  BY <1>1, <1>8, PipeUntouched DEF vars
<1>9. QED
  BY <1>2, <1>3, <1>5, <1>6, <1>7, <1>8 DEF Next
-----------------------------------------------------------------------------
(* The sampler: a shuffled list of the queries per epoch, cut into the slots of
   the batches one after the other. *)

LEMMA Division ==
    ASSUME NEW n \in Nat \ {0}, NEW k \in Nat
    PROVE  /\ k \div n \in Nat /\ k % n \in 0 .. n - 1
           /\ k = (k \div n) * n + (k % n)
<1>0. n \in Int /\ k \in Int /\ n > 0
  OBVIOUS
<1>1. k \div n \in Int
  BY <1>0
<1>6. k % n \in 0 .. n - 1
  BY <1>0
<1>2. k = n * (k \div n) + (k % n)
  OBVIOUS
<1>3. 0 <= k % n /\ k % n < n
  OBVIOUS
<1>4. k \div n >= 0
  OBVIOUS
<1>5. QED
  BY <1>1, <1>6, <1>2, <1>3, <1>4
LEMMA Undivided ==
    ASSUME NEW n \in Nat \ {0}, NEW e \in Nat, NEW i \in 0 .. n - 1
    PROVE  /\ e * n + i \in Nat /\ (e * n + i) \div n = e /\ (e * n + i) % n = i
  OBVIOUS
LEMMA Below ==
    ASSUME NEW n \in Nat \ {0}, NEW e \in Nat, NEW f \in Nat, NEW i \in 0 .. n - 1, e < f
    PROVE  e * n + i < f * n
  OBVIOUS
LEMMA Quotient ==
    ASSUME NEW n \in Nat \ {0}, NEW f \in Nat, NEW k \in Nat, k < f * n
    PROVE  k \div n < f
  OBVIOUS

\* The sampler.  Within an epoch every query has one slot.
Wide == Cardinality(Queries)
Uses(q, m) == {k \in 0 .. m - 1 : Slot(k) = q}

LEMMA WideType == Wide \in Nat \ {0}
  BY QueriesAssumption, FS_CardinalityType, FS_EmptySet DEF Wide

LEMMA EpochOrder ==
    ASSUME NEW e \in Nat
    PROVE  /\ \A q \in Queries : \E i \in 0 .. Wide - 1 : Slot(e * Wide + i) = q
           /\ \A i, j \in 0 .. Wide - 1 : Slot(e * Wide + i) = Slot(e * Wide + j) => i = j
<1> DEFINE L == Len(Orders)
           o == Orders[(e % L) + 1]
<1>1. /\ Orders \in Seq([1 .. Wide -> Queries]) /\ Orders # <<>>
      /\ \A p \in Range(Orders) : IsInjective(p) /\ Range(p) = Queries
  BY OrdersAssumption DEF Wide
<1>2. L \in Nat \ {0}
  BY <1>1
<1>3. e % L \in 0 .. L - 1
  BY <1>2, Division
<1>4. o \in Range(Orders) /\ o \in [1 .. Wide -> Queries]
  <2>1. (e % L) + 1 \in 1 .. Len(Orders)
    BY <1>2, <1>3
  <2>2. (e % L) + 1 \in DOMAIN Orders
    BY <1>1, <2>1
  <2>3. QED
    BY <1>1, <2>1, <2>2 DEF Range
<1>5. IsInjective(o) /\ Range(o) = Queries
  BY <1>1, <1>4
<1>6. \A i \in 0 .. Wide - 1 : Slot(e * Wide + i) = o[i + 1]
  <2> TAKE i \in 0 .. Wide - 1
  <2>1. (e * Wide + i) \div Wide = e /\ (e * Wide + i) % Wide = i
    BY WideType, Undivided
  <2>2. QED
    BY <2>1 DEF Slot, Epoch, Wide
<1> HIDE DEF o
<1>7. ASSUME NEW q \in Queries
      PROVE  \E i \in 0 .. Wide - 1 : Slot(e * Wide + i) = q
  <2>1. PICK x \in 1 .. Wide : o[x] = q
    BY <1>4, <1>5 DEF Range
  <2>2. x - 1 \in 0 .. Wide - 1 /\ (x - 1) + 1 = x
    BY <2>1, WideType
  <2>3. Slot(e * Wide + (x - 1)) = q
    BY <1>6, <2>1, <2>2
  <2>4. QED
    BY <2>2, <2>3
<1>8. ASSUME NEW i \in 0 .. Wide - 1, NEW j \in 0 .. Wide - 1, Slot(e * Wide + i) = Slot(e * Wide + j)
      PROVE  i = j
  <2>1. o[i + 1] = o[j + 1]
    BY <1>6, <1>8
  <2>2. i + 1 \in DOMAIN o /\ j + 1 \in DOMAIN o
    BY <1>4, WideType
  <2>3. i + 1 = j + 1
    BY <1>5, <2>1, <2>2 DEF IsInjective
  <2>4. QED
    BY <2>3
<1>9. QED
  BY <1>7, <1>8

\* Whoever looks at the first m slots finds two queries equally often, up to one:
\* each use of q but that of the first epoch comes after a use of r of its own,
\* in the epoch before.
LEMMA Balance ==
    ASSUME NEW m \in Nat, NEW q \in Queries, NEW r \in Queries
    PROVE  Cardinality(Uses(q, m)) <= Cardinality(Uses(r, m)) + 1
<1> DEFINE Pos(e) == CHOOSE i \in 0 .. Wide - 1 : Slot(e * Wide + i) = r
           Ep(k) == (k \div Wide) - 1
           Later == {k \in Uses(q, m) : k >= Wide}
           Back  == [k \in Later |-> Ep(k) * Wide + Pos(Ep(k))]
<1>1. ASSUME NEW p
      PROVE  IsFiniteSet(Uses(p, m)) /\ Cardinality(Uses(p, m)) \in Nat
  <2>1. 0 \in Int /\ m - 1 \in Int
    OBVIOUS
  <2>2. IsFiniteSet(0 .. m - 1)
    BY <2>1, FS_Interval, Zenon
  <2>3. Uses(p, m) \subseteq 0 .. m - 1
    BY DEF Uses
  <2>4. IsFiniteSet(Uses(p, m))
    BY <2>2, <2>3, FS_Subset
  <2>5. QED
    BY <2>4, FS_CardinalityType
<1>2. ASSUME NEW e \in Nat
      PROVE  Pos(e) \in 0 .. Wide - 1 /\ Slot(e * Wide + Pos(e)) = r
  BY <1>2, EpochOrder
<1>3. ASSUME NEW k \in Later
      PROVE  /\ k \in Nat /\ Ep(k) \in Nat /\ k < m
             /\ k = (Ep(k) + 1) * Wide + (k % Wide) /\ k % Wide \in 0 .. Wide - 1
             /\ Slot(k) = q
  <2>1. k \in Nat /\ k >= Wide /\ k < m /\ Slot(k) = q
    BY <1>3 DEF Uses
  <2>2. /\ k \div Wide \in Nat /\ k % Wide \in 0 .. Wide - 1
        /\ k = (k \div Wide) * Wide + (k % Wide)
    BY <2>1, WideType, Division
  <2>3. k \div Wide # 0
    BY <2>1, <2>2, WideType
  <2>4. QED
    BY <2>1, <2>2, <2>3
<1> HIDE DEF Pos, Ep
<1>4. ASSUME NEW k \in Later
      PROVE  Back[k] \in Uses(r, m) /\ Back[k] \div Wide = Ep(k)
  <2>1. Back[k] = Ep(k) * Wide + Pos(Ep(k))
    BY <1>4
  <2>2. Ep(k) \in Nat /\ Pos(Ep(k)) \in 0 .. Wide - 1 /\ Slot(Ep(k) * Wide + Pos(Ep(k))) = r
    BY <1>2, <1>3
  <2>3. /\ Back[k] \in Nat /\ Back[k] \div Wide = Ep(k)
    BY <2>1, <2>2, WideType, Undivided
  <2>4. Ep(k) * Wide + Pos(Ep(k)) < (Ep(k) + 1) * Wide
    <3>1. Ep(k) + 1 \in Nat /\ Ep(k) < Ep(k) + 1
      BY <2>2
    <3>2. QED
      BY <2>2, <3>1, WideType, Below
  <2>5. (Ep(k) + 1) * Wide <= k
    <3>1. (Ep(k) + 1) * Wide \in Nat
      BY <2>2, WideType
    <3>2. QED
      BY <1>3, <3>1, WideType
  <2>6. Back[k] < m
    <3>1. (Ep(k) + 1) * Wide \in Nat
      BY <2>2, WideType
    <3>2. QED
      BY <1>3, <2>1, <2>3, <2>4, <2>5, <3>1
  <2>7. QED
    BY <2>1, <2>2, <2>3, <2>6 DEF Uses
<1>5. Back \in Injection(Later, Uses(r, m))
  <2>1. Back \in [Later -> Uses(r, m)]
    BY <1>4
  <2>2. ASSUME NEW k \in Later, NEW l \in Later, Back[k] = Back[l]
        PROVE  k = l
    <3>1. Ep(k) = Ep(l) /\ Ep(k) + 1 \in Nat
      BY <1>3, <1>4, <2>2
    <3> DEFINE e == Ep(k) + 1
               i == k % Wide
               j == l % Wide
    <3>2. k = e * Wide + i /\ l = e * Wide + j /\ i \in 0 .. Wide - 1 /\ j \in 0 .. Wide - 1
      BY <1>3, <3>1
    <3>3. Slot(e * Wide + i) = q /\ Slot(e * Wide + j) = q /\ e \in Nat
      BY <1>3, <3>1, <3>2
    <3> HIDE DEF e, i, j
    <3>4. i = j
      BY <3>2, <3>3, EpochOrder
    <3>5. QED
      BY <3>2, <3>4
  <2>3. QED
    BY <2>1, <2>2 DEF Injection, IsInjective
<1>6. IsFiniteSet(Later) /\ Cardinality(Later) <= Cardinality(Uses(r, m))
  BY <1>1, <1>5, FS_Injection
<1>7. PICK x : Uses(q, m) \subseteq Later \cup {x}
  <2>1. PICK i \in 0 .. Wide - 1 : Slot(0 * Wide + i) = q
    BY EpochOrder
  <2>2. ASSUME NEW k \in Uses(q, m), k \notin Later
        PROVE  k = i
    <3>1. k \in 0 .. Wide - 1 /\ Slot(k) = q
      BY <2>2, WideType DEF Uses
    <3>2. 0 * Wide + k = k
      BY <3>1, WideType
    <3>3. QED
      BY <2>1, <3>1, <3>2, EpochOrder
  <2>3. QED
    BY <2>2
<1> HIDE DEF Later
<1>8. IsFiniteSet(Later \cup {x}) /\ Cardinality(Later \cup {x}) <= Cardinality(Later) + 1
  <2>1. Cardinality(Later) \in Nat
    BY <1>6, FS_CardinalityType
  <2>2. /\ IsFiniteSet(Later \cup {x})
        /\ Cardinality(Later \cup {x}) = IF x \in Later THEN Cardinality(Later) ELSE Cardinality(Later) + 1
    BY <1>6, FS_AddElement, Zenon
  <2>3. QED
    BY <2>1, <2>2
<1>9. Cardinality(Uses(q, m)) <= Cardinality(Later \cup {x})
  BY <1>7, <1>8, FS_Subset
<1>10. Cardinality(Later \cup {x}) \in Nat /\ Cardinality(Later) \in Nat
  BY <1>6, <1>8, FS_CardinalityType
<1>11. QED
  BY <1>1, <1>6, <1>8, <1>9, <1>10

\* The batches of steps 0 to s-1, cut into micro batches, are the sampler's first
\* slots, each once.
LEMMA FirstSlots ==
    ASSUME NEW s \in Nat, NEW q \in Queries
    PROVE  TimesSeen(q, FirstSteps(s)) = Cardinality(Uses(q, s * GradAccum * BatchGroups))
<1> DEFINE G == GradAccum
           B == BatchGroups
           S == (1 .. s) \X (1 .. G) \X (1 .. B)
           u(t) == (t[1] - 1) * G + (t[2] - 1)
           k(t) == u(t) * B + (t[3] - 1)
           T == {t \in S : Slot(k(t)) = q}
           m == s * G * B
           f == [t \in T |-> k(t)]
<1>1. G \in Nat \ {0} /\ B \in Nat \ {0}
  BY ConfigAssumption
<1>2. s * G \in Nat /\ m \in Nat
  BY <1>1
<1>3. Len(FirstSteps(s)) = s
  BY DEF FirstSteps
<1>4. Slots(FirstSteps(s)) = S
  BY <1>3 DEF Slots
<1>5. ASSUME NEW t \in S
      PROVE  /\ t[1] - 1 \in Nat /\ t[1] - 1 < s /\ t[2] - 1 \in 0 .. G - 1 /\ t[3] - 1 \in 0 .. B - 1
             /\ t = <<t[1], t[2], t[3]>>
  BY <1>1, <1>5
<1>6. ASSUME NEW t \in S
      PROVE  StepBatches(FirstSteps(s)[t[1]])[t[2]][t[3]] = Slot(k(t))
  <2>1. t[1] \in 1 .. s /\ t[2] \in 1 .. G /\ t[3] \in 1 .. B
    BY <1>6
  <2>2. FirstSteps(s)[t[1]] = t[1] - 1
    BY <2>1 DEF FirstSteps
  <2>3. StepBatches(t[1] - 1)[t[2]] = Batch((t[1] - 1) * G + t[2] - 1)
    BY <2>1 DEF StepBatches
  <2>4. Batch((t[1] - 1) * G + t[2] - 1)[t[3]] = Slot(((t[1] - 1) * G + t[2] - 1) * B + t[3] - 1)
    BY <2>1 DEF Batch
  <2>5. ((t[1] - 1) * G + t[2] - 1) * B + t[3] - 1 = k(t)
    <3>1. (t[1] - 1) * G + t[2] - 1 = u(t) /\ u(t) \in Int
      BY <1>1, <2>1
    <3> HIDE DEF u
    <3>2. u(t) * B \in Int
      BY <1>1, <3>1
    <3>3. u(t) * B + t[3] - 1 = u(t) * B + (t[3] - 1)
      BY <2>1, <3>2
    <3>4. QED
      BY <3>1, <3>3
  <2> HIDE DEF k
  <2>6. QED
    BY <2>2, <2>3, <2>4, <2>5
<1>7. {t \in Slots(FirstSteps(s)) : StepBatches(FirstSteps(s)[t[1]])[t[2]][t[3]] = q} = T
  <2> HIDE DEF S, k
  <2>1. QED
    BY <1>4, <1>6
<1>8. ASSUME NEW t \in S
      PROVE  /\ u(t) \in Nat /\ u(t) < s * G
             /\ u(t) \div G = t[1] - 1 /\ u(t) % G = t[2] - 1
             /\ k(t) \in Nat /\ k(t) < m
             /\ k(t) \div B = u(t) /\ k(t) % B = t[3] - 1
  <2> DEFINE a == t[1] - 1
             b == t[2] - 1
             c == t[3] - 1
  <2>1. a \in Nat /\ a < s /\ b \in 0 .. G - 1 /\ c \in 0 .. B - 1
    BY <1>5
  <2>2. u(t) = a * G + b /\ k(t) = u(t) * B + c
    OBVIOUS
  <2> HIDE DEF a, b, c, u, k, G, B
  <2>3. u(t) \in Nat /\ u(t) \div G = a /\ u(t) % G = b
    <3>1. a * G + b \in Nat /\ (a * G + b) \div G = a /\ (a * G + b) % G = b
      BY <1>1, <2>1, Undivided
    <3>2. QED
      BY <2>2, <3>1, Zenon
  <2>4. u(t) < s * G
    BY <1>1, <2>1, <2>2, Below
  <2>5. k(t) \in Nat /\ k(t) \div B = u(t) /\ k(t) % B = c
    <3>1. /\ u(t) * B + c \in Nat
          /\ (u(t) * B + c) \div B = u(t) /\ (u(t) * B + c) % B = c
      BY <1>1, <2>1, <2>3, Undivided
    <3>2. QED
      BY <2>2, <3>1, Zenon
  <2>6. k(t) < (s * G) * B
    BY <1>1, <1>2, <2>1, <2>2, <2>3, <2>4, Below
  <2>7. QED
    BY <2>3, <2>4, <2>5, <2>6 DEF a, b, c
<1>9. f \in Injection(T, Uses(q, m))
  <2>1. ASSUME NEW t \in T
        PROVE  f[t] = k(t) /\ f[t] \in Uses(q, m)
    <3>1. t \in S /\ Slot(k(t)) = q
      OBVIOUS
    <3>2. k(t) \in 0 .. m - 1
      <4> HIDE DEF S, k, m
      <4>1. k(t) \in Nat /\ k(t) < m
        BY <1>8, <3>1
      <4>2. QED
        BY <1>2, <4>1
    <3> HIDE DEF k, m
    <3>3. QED
      BY <3>1, <3>2 DEF Uses
  <2>2. ASSUME NEW t \in T, NEW v \in T, f[t] = f[v]
        PROVE  t = v
    <3>1. t \in S /\ v \in S /\ k(t) = k(v)
      BY <2>2
    <3> HIDE DEF S, T, u, k, f
    <3>2. u(t) = u(v) /\ t[3] - 1 = v[3] - 1
      BY <1>8, <3>1
    <3>3. t[1] - 1 = v[1] - 1 /\ t[2] - 1 = v[2] - 1
      BY <1>8, <3>1, <3>2
    <3> USE DEF S
    <3>4. t[1] = v[1] /\ t[2] = v[2] /\ t[3] = v[3]
      BY <3>1, <3>2, <3>3
    <3>5. QED
      BY <1>5, <3>1, <3>4
  <2> HIDE DEF T, f, m
  <2>3. DOMAIN f = T
    BY DEF f
  <2>4. f \in [T -> Uses(q, m)]
    BY <2>1, <2>3 DEF f
  <2>5. QED
    BY <2>2, <2>3, <2>4 DEF Injection, IsInjective
<1>10. f \in Surjection(T, Uses(q, m))
  <2>1. ASSUME NEW x \in Uses(q, m)
        PROVE  \E t \in T : f[t] = x
    <3>1. x \in Nat /\ x < (s * G) * B /\ Slot(x) = q
      BY <1>2, <2>1 DEF Uses
    <3> DEFINE y == x \div B
               c == x % B
               a == y \div G
               b == y % G
               t == <<a + 1, b + 1, c + 1>>
    <3> HIDE DEF G, B
    <3>2. y \in Nat /\ c \in 0 .. B - 1 /\ x = y * B + c /\ y < s * G
      BY <1>1, <1>2, <3>1, Division, Quotient
    <3> HIDE DEF y, c
    <3>3. a \in Nat /\ b \in 0 .. G - 1 /\ y = a * G + b /\ a < s
      BY <1>1, <3>2, Division, Quotient
    <3> HIDE DEF a, b
    <3>4. t \in S
      BY <1>1, <3>2, <3>3
    <3>5. k(t) = x
      <4>1. t[1] - 1 = a /\ t[2] - 1 = b /\ t[3] - 1 = c
        BY <1>1, <3>2, <3>3
      <4> HIDE DEF t
      <4>2. QED
        BY <3>2, <3>3, <4>1
    <3> HIDE DEF t, S, k
    <3>6. t \in T
      BY <3>1, <3>4, <3>5
    <3>7. QED
      BY <3>5, <3>6
  <2>2. f \in [T -> Uses(q, m)]
    <3> HIDE DEF T, f, m
    <3>1. QED
      BY <1>9 DEF Injection
  <2> HIDE DEF T, f, m
  <2>3. QED
    BY <2>1, <2>2 DEF Surjection
<1> HIDE DEF T, f, m, S, k
<1>11. IsFiniteSet(T) /\ Cardinality(T) = Cardinality(Uses(q, m))
  <2>1. IsFiniteSet(Uses(q, m))
    <3>1. 0 \in Int /\ m - 1 \in Int
      BY <1>2
    <3>2. IsFiniteSet(0 .. m - 1)
      BY <3>1, FS_Interval, Zenon
    <3>3. Uses(q, m) \subseteq 0 .. m - 1
      BY DEF Uses
    <3>4. QED
      BY <3>2, <3>3, FS_Subset
  <2>2. QED
    BY <1>9, <1>10, <2>1, FS_Injection
<1>12. QED
  BY <1>7, <1>11 DEF TimesSeen, m, G, B

\* A model made by its steps' batches has seen every query equally often, up to one.
LEMMA EqualShares ==
    ASSUME NEW s \in Nat, NEW q \in Queries, NEW r \in Queries
    PROVE  TimesSeen(q, FirstSteps(s)) <= TimesSeen(r, FirstSteps(s)) + 1
<1>1. s * GradAccum * BatchGroups \in Nat
  BY ConfigAssumption
<1>2. QED
  BY <1>1, FirstSlots, Balance

-----------------------------------------------------------------------------
(* What a step does to a model. *)

LEMMA ValidatedSteps == Validated \subseteq Nat /\ MaxSteps \in Nat \ {0} /\ EvalEvery \in Nat \ {0}
  BY ConfigAssumption DEF Validated

LEMMA OrderFacts ==
    ASSUME NEW m, InOrder(m)
    PROVE  /\ m.step \in 0 .. MaxSteps /\ m.step \in Nat /\ m.best \in Nat
           /\ m.weights \in Seq(Int) /\ m.weights = FirstSteps(m.step)
           /\ m.history \in Seq(Validated) /\ Len(m.history) \in Nat /\ DOMAIN m.history = 1 .. Len(m.history)
           /\ \A i \in 1 .. Len(m.history) :
                 m.history[i] \in Range(m.history) /\ m.history[i] \in Nat /\ m.history[i] <= m.step
           /\ \A i, j \in 1 .. Len(m.history) : i < j => m.history[i] < m.history[j]
           /\ \A t \in Range(m.history) : t \in Validated /\ t \in Nat /\ t <= m.step
<1>1. /\ m \in [weights : Seq(Int), step : 0 .. MaxSteps, best : Nat, history : Seq(Validated)]
      /\ m.weights = FirstSteps(m.step)
      /\ \A i \in 1 .. Len(m.history) : m.history[i] <= m.step
      /\ \A i, j \in 1 .. Len(m.history) : i < j => m.history[i] < m.history[j]
  BY Zenon DEF InOrder
<1>2. /\ m.step \in 0 .. MaxSteps /\ m.best \in Nat /\ m.weights \in Seq(Int) /\ m.history \in Seq(Validated)
  BY <1>1
<1>3. m.step \in Nat
  BY <1>2, ValidatedSteps
<1> DEFINE h == m.history
<1>4. h \in Seq(Validated) /\ \A i \in 1 .. Len(h) : h[i] <= m.step
  BY <1>1, <1>2
<1> HIDE DEF h
<1>5. Len(h) \in Nat /\ DOMAIN h = 1 .. Len(h) /\ \A i \in 1 .. Len(h) : h[i] \in Validated
  BY <1>4
<1>6. \A i \in 1 .. Len(h) : h[i] \in Range(h) /\ h[i] \in Nat /\ h[i] <= m.step
  BY <1>4, <1>5, ValidatedSteps DEF Range
<1>7. \A t \in Range(h) : t \in Validated /\ t \in Nat /\ t <= m.step
  BY <1>5, <1>6 DEF Range
<1>8. QED
  BY <1>1, <1>2, <1>3, <1>5, <1>6, <1>7 DEF h

LEMMA StartsInOrder == InOrder(Fresh)
<1>1. <<>> = FirstSteps(0)
  BY DEF FirstSteps
<1>2. Fresh.weights = <<>> /\ Fresh.history = <<>> /\ Fresh.step = 0 /\ Fresh.best = 0
  BY DEF Fresh
<1>3. Fresh \in [weights : Seq(Int), step : 0 .. MaxSteps, best : Nat, history : Seq(Validated)]
  BY ValidatedSteps DEF Fresh
<1>4. QED
  BY <1>1, <1>2, <1>3 DEF InOrder

\* The first validation: of the base model.
LEMMA StartsToValidate ==
    ASSUME NEW q \in [0 .. MaxSteps -> Nat \ {0}], NEW b
    PROVE  ToValidate(q, Fresh, b) /\ OnCourse(q, Fresh, b)
<1>1. Fresh.history = <<>> /\ Fresh.step = 0 /\ Fresh.best = 0 /\ Range(<<>>) = {}
  BY DEF Fresh, Range
<1>2. 0 \in 0 .. MaxSteps /\ 0 % EvalEvery = 0
  BY ValidatedSteps
<1>3. 0 \in Validated
  BY <1>2 DEF Validated
<1>4. q[0] > 0
  BY <1>2
<1>5. OnCourse(q, Fresh, b)
  BY <1>1, <1>3, <1>4 DEF OnCourse
<1>6. Measured(q, Fresh, Fresh.step - 1)
  BY <1>1 DEF Measured
<1>7. QED
  BY <1>1, <1>3, <1>5, <1>6 DEF ToValidate

LEMMA TwoFields ==
    ASSUME NEW W, NEW P, NEW B, NEW H, NEW m \in [weights : W, step : P, best : B, history : H],
           NEW w \in W, NEW t \in P, NEW n, n = [m EXCEPT !.weights = w, !.step = t]
    PROVE  /\ n \in [weights : W, step : P, best : B, history : H]
           /\ n.weights = w /\ n.step = t /\ n.best = m.best /\ n.history = m.history
  OBVIOUS

\* One more step of the optimizer.
Optimized(m) == [m EXCEPT !.weights = Append(@, m.step), !.step = @ + 1]
LEMMA OneStepMore ==
    ASSUME NEW q, NEW b, NEW m, InOrder(m), m.step < MaxSteps,
           Measured(q, m, m.step), OnCourse(q, m, b)
    PROVE  /\ InOrder(Optimized(m)) /\ Optimized(m).step = m.step + 1
           /\ Range(Optimized(m).history) = Range(m.history) /\ Optimized(m).best = m.best
           /\ OnCourse(q, Optimized(m), b)
           /\ IF (m.step + 1) % EvalEvery = 0 THEN ToValidate(q, Optimized(m), b)
              ELSE Measured(q, Optimized(m), m.step + 1)
<1> DEFINE n == Optimized(m)
<1>0. m \in [weights : Seq(Int), step : 0 .. MaxSteps, best : Nat, history : Seq(Validated)]
  BY Zenon DEF InOrder
<1>1. /\ m.step \in Nat /\ m.step + 1 \in 0 .. MaxSteps /\ m.weights \in Seq(Int)
      /\ m.history \in Seq(Validated) /\ m.best \in Nat /\ m.weights = FirstSteps(m.step)
  BY OrderFacts, ValidatedSteps
<1>2. /\ n \in [weights : Seq(Int), step : 0 .. MaxSteps, best : Nat, history : Seq(Validated)]
      /\ n.step = m.step + 1 /\ n.history = m.history /\ n.best = m.best
      /\ n.weights = Append(m.weights, m.step)
  <2>1. Append(m.weights, m.step) \in Seq(Int)
    BY <1>1
  <2>2. PICK w \in Seq(Int), t \in 0 .. MaxSteps : w = Append(m.weights, m.step) /\ t = m.step + 1
    BY <1>1, <2>1
  <2>3. n = [m EXCEPT !.weights = w, !.step = t]
    BY <2>2, Zenon DEF Optimized
  <2> HIDE DEF n
  <2>4. QED
    BY <1>0, <2>2, <2>3, TwoFields
<1>3. Append(FirstSteps(m.step), m.step) = FirstSteps(m.step + 1)
  <2>1. FirstSteps(m.step) \in Seq(Int) /\ Len(FirstSteps(m.step)) = m.step
    BY <1>1 DEF FirstSteps
  <2>2. FirstSteps(m.step + 1) \in Seq(Int) /\ Len(FirstSteps(m.step + 1)) = m.step + 1
    BY <1>1 DEF FirstSteps
  <2>3. Append(FirstSteps(m.step), m.step) \in Seq(Int) /\ Len(Append(FirstSteps(m.step), m.step)) = m.step + 1
    BY <1>1, <2>1
  <2>4. \A i \in 1 .. m.step + 1 : Append(FirstSteps(m.step), m.step)[i] = FirstSteps(m.step + 1)[i]
    BY <1>1, <2>1 DEF FirstSteps
  <2>5. QED
    BY <2>2, <2>3, <2>4, SeqEqual
<1> HIDE DEF n
<1>4. InOrder(n)
  <2>1. n.weights = FirstSteps(n.step)
    BY <1>1, <1>2, <1>3
  <2>2. \A i \in 1 .. Len(m.history) : m.history[i] <= m.step + 1
    BY <1>1, OrderFacts
  <2>3. \A i, j \in 1 .. Len(m.history) : i < j => m.history[i] < m.history[j]
    BY OrderFacts
  <2>4. QED
    BY <1>2, <2>1, <2>2, <2>3 DEF InOrder
<1>5. OnCourse(q, n, b)
  BY <1>2 DEF OnCourse, FirstBest
<1>6. m.step + 1 \notin Range(n.history)
  <2>1. \A t \in Range(m.history) : t \in Nat /\ t <= m.step
    BY OrderFacts
  <2>2. QED
    BY <1>1, <1>2, <2>1
<1>7. CASE (m.step + 1) % EvalEvery = 0
  <2>1. m.step + 1 \in Validated
    BY <1>1, <1>7 DEF Validated
  <2>2. (m.step + 1) - 1 = m.step
    BY <1>1
  <2>3. Measured(q, n, m.step)
    BY <1>2 DEF Measured
  <2>4. ToValidate(q, n, b)
    BY <1>2, <1>5, <1>6, <2>1, <2>2, <2>3 DEF ToValidate
  <2>5. QED
    BY <1>2, <1>4, <1>5, <1>7, <2>4 DEF n
<1>8. CASE (m.step + 1) % EvalEvery # 0
  <2>1. \A t \in 0 .. m.step + 1 : t % EvalEvery = 0 => t \in 0 .. m.step
    BY <1>1, <1>8
  <2>2. Measured(q, n, m.step + 1)
    BY <1>2, <2>1 DEF Measured
  <2>3. QED
    BY <1>2, <1>4, <1>5, <1>8, <2>2 DEF n
<1>9. QED
  BY <1>7, <1>8

LEMMA OtherFields ==
    ASSUME NEW W, NEW P, NEW B, NEW H, NEW m \in [weights : W, step : P, best : B, history : H],
           NEW l \in H, NEW x \in B, NEW n, n = [m EXCEPT !.history = l, !.best = x]
    PROVE  /\ n \in [weights : W, step : P, best : B, history : H]
           /\ n.history = l /\ n.best = x /\ n.weights = m.weights /\ n.step = m.step
  OBVIOUS

\* A validation.
Judged(q, m) == [m EXCEPT !.history = Append(@, m.step), !.best = Max({@, q[m.step]})]
LEMMA OneMoreJudged ==
    ASSUME NEW q \in [0 .. MaxSteps -> Nat \ {0}], NEW b, NEW m, InOrder(m), ToValidate(q, m, b)
    PROVE  /\ InOrder(Judged(q, m)) /\ Judged(q, m).step = m.step /\ Judged(q, m).weights = m.weights
           /\ Range(Judged(q, m).history) = Range(m.history) \cup {m.step} /\ m.best <= Judged(q, m).best
           /\ Measured(q, Judged(q, m), m.step)
           /\ IF q[m.step] > m.best THEN NewBest(q, Judged(q, m)) /\ m.best < Judged(q, m).best
              ELSE OnCourse(q, Judged(q, m), b)
<1> DEFINE n == Judged(q, m)
           h == m.history
<1>0. m \in [weights : Seq(Int), step : 0 .. MaxSteps, best : Nat, history : Seq(Validated)]
  BY Zenon DEF InOrder
<1>1. /\ m.step \in 0 .. MaxSteps /\ m.step \in Nat /\ m.weights \in Seq(Int) /\ m.step \in Validated
      /\ h \in Seq(Validated) /\ m.best \in Nat /\ q[m.step] \in Nat /\ q[m.step] > 0
      /\ m.weights = FirstSteps(m.step)
  BY OrderFacts DEF ToValidate
<1>2. Max({m.best, q[m.step]}) = IF q[m.step] > m.best THEN q[m.step] ELSE m.best
  <2>1. PICK x : x = IF q[m.step] > m.best THEN q[m.step] ELSE m.best
    OBVIOUS
  <2>2. x \in {m.best, q[m.step]} /\ \A y \in {m.best, q[m.step]} : x >= y
    BY <1>1, <2>1
  <2>3. \A z \in {m.best, q[m.step]} : (\A y \in {m.best, q[m.step]} : z >= y) => z = x
    BY <1>1, <2>1
  <2>4. QED
    BY <2>1, <2>2, <2>3 DEF Max
<1>3. /\ n.step = m.step /\ n.weights = m.weights /\ n.history = Append(h, m.step)
      /\ n.best = IF q[m.step] > m.best THEN q[m.step] ELSE m.best
      /\ n \in [weights : Seq(Int), step : 0 .. MaxSteps, best : Nat, history : Seq(Validated)]
  <2>1. Append(h, m.step) \in Seq(Validated) /\ Max({m.best, q[m.step]}) \in Nat
    BY <1>1, <1>2
  <2>2. PICK l \in Seq(Validated), x \in Nat : l = Append(h, m.step) /\ x = Max({m.best, q[m.step]})
    BY <2>1
  <2>3. n = [m EXCEPT !.history = l, !.best = x]
    BY <2>2, Zenon DEF Judged
  <2> HIDE DEF n, h
  <2>4. QED
    BY <1>0, <1>2, <2>2, <2>3, OtherFields
<1> HIDE DEF n, h
<1>4. /\ Len(n.history) = Len(h) + 1 /\ Len(h) \in Nat
      /\ \A i \in 1 .. Len(h) : n.history[i] = h[i]
      /\ n.history[Len(h) + 1] = m.step
  BY <1>1, <1>3
<1>5. Range(n.history) = Range(h) \cup {m.step}
  <2>1. DOMAIN h = 1 .. Len(h) /\ DOMAIN n.history = 1 .. Len(h) + 1
    BY <1>1, <1>3, <1>4
  <2>2. QED
    BY <1>4, <2>1 DEF Range
<1>6. \A i \in 1 .. Len(h) : h[i] \in Nat /\ h[i] < m.step
  <2>1. \A i \in 1 .. Len(h) : h[i] \in Range(h) /\ h[i] \in Nat /\ h[i] <= m.step
    BY OrderFacts DEF h
  <2>2. \A i \in 1 .. Len(h) : h[i] # m.step
    BY <2>1 DEF ToValidate, h
  <2>3. QED
    BY <1>1, <2>1, <2>2
<1>7. InOrder(n)
  <2>1. \A i \in 1 .. Len(n.history) : n.history[i] <= n.step
    BY <1>1, <1>3, <1>4, <1>6
  <2>2. \A i, j \in 1 .. Len(h) : i < j => h[i] < h[j]
    BY OrderFacts DEF h
  <2>3. \A i, j \in 1 .. Len(n.history) : i < j => n.history[i] < n.history[j]
    BY <1>4, <1>6, <2>2
  <2>4. QED
    BY <1>3, <2>1, <2>3 DEF InOrder
<1>8. \A t \in Range(h) : t \in Nat /\ t < m.step /\ q[t] \in Nat /\ q[t] <= m.best
  <2>1. \A t \in Range(h) : t \in Nat /\ t < m.step
    <3>1. \A t \in Range(h) : t \in Nat /\ t <= m.step /\ t # m.step
      BY OrderFacts DEF ToValidate, h
    <3>2. QED
      BY <1>1, <3>1
  <2>2. \A t \in Range(h) : q[t] <= m.best
    BY DEF ToValidate, Measured, h
  <2>3. \A t \in Range(h) : t \in 0 .. MaxSteps
    BY <1>1, <2>1, ValidatedSteps
  <2>4. \A t \in Range(h) : q[t] \in Nat
    BY <2>3
  <2>5. QED
    BY <2>1, <2>2, <2>4
<1>9. Measured(q, n, m.step)
  <2>1. \A t \in 0 .. m.step : t % EvalEvery = 0 => t \in Range(n.history)
    <3>1. \A t \in 0 .. m.step - 1 : t % EvalEvery = 0 => t \in Range(h)
      BY DEF ToValidate, Measured, h
    <3>2. QED
      BY <1>1, <1>5, <3>1
  <2>2. \A t \in Range(n.history) : q[t] <= n.best
    BY <1>1, <1>3, <1>5, <1>8
  <2>3. QED
    BY <2>1, <2>2 DEF Measured
<1>10. CASE q[m.step] > m.best
  <2>1. NewBest(q, n)
    BY <1>1, <1>3, <1>5, <1>8, <1>9, <1>10 DEF NewBest
  <2>2. QED
    BY <1>1, <1>3, <1>5, <1>7, <1>9, <1>10, <2>1 DEF n, h
<1>11. CASE ~(q[m.step] > m.best)
  <2>1. n.best = m.best /\ q[m.step] <= m.best
    BY <1>1, <1>3, <1>11
  <2>2. ASSUME \E s \in Range(h) : FirstBest(q, m, s) /\ b = FirstSteps(s)
        PROVE  OnCourse(q, n, b)
    <3>1. PICK s \in Range(h) : FirstBest(q, m, s) /\ b = FirstSteps(s)
      BY <2>2
    <3>2. FirstBest(q, n, s)
      BY <1>1, <1>5, <1>8, <2>1, <3>1 DEF FirstBest, h
    <3>3. s \in Range(n.history)
      BY <1>5, <3>1
    <3>4. QED
      BY <3>1, <3>2, <3>3 DEF OnCourse
  <2>3. ASSUME \E t \in Validated : t \notin Range(h) /\ q[t] > m.best
        PROVE  OnCourse(q, n, b)
    <3>1. PICK t \in Validated : t \notin Range(h) /\ q[t] > m.best
      BY <2>3
    <3>2. t \notin Range(n.history) /\ q[t] > n.best
      BY <1>5, <1>11, <2>1, <3>1
    <3>3. QED
      BY <3>2 DEF OnCourse
  <2>4. OnCourse(q, n, b)
    BY <2>2, <2>3 DEF ToValidate, OnCourse, h
  <2>5. QED
    BY <1>1, <1>3, <1>5, <1>7, <1>9, <1>11, <2>1, <2>4 DEF n, h
<1>12. QED
  BY <1>10, <1>11

\* Once best/ is replaced, the run is on course, and while it is being replaced
\* so is a run that continues from an earlier checkpoint.
LEMMA SavedIsOnCourse ==
    ASSUME NEW q, NEW m, InOrder(m), NewBest(q, m), NEW b, b = FirstSteps(m.step)
    PROVE  OnCourse(q, m, b)
<1>1. \A t \in Range(m.history) : q[t] = m.best => t = m.step
  <2>1. \A t \in Range(m.history) : t # m.step => q[t] < m.best
    BY DEF NewBest
  <2>2. m.best \in Nat
    BY OrderFacts
  <2>3. QED
    BY <2>1, <2>2
<1>2. m.step \in Nat
  BY OrderFacts
<1>3. FirstBest(q, m, m.step)
  BY <1>1, <1>2 DEF NewBest, FirstBest
<1>4. QED
  BY <1>3 DEF OnCourse, NewBest

LEMMA EarlierIsOnCourse ==
    ASSUME NEW q, NEW m, NEW c, NEW b, InOrder(m), NewBest(q, m), BeforeBest(c, m), c.best \in Nat
    PROVE  OnCourse(q, c, b)
<1>1. m.step \in Validated
  BY OrderFacts DEF NewBest
<1>2. m.step \notin Range(c.history) /\ q[m.step] > c.best
  BY OrderFacts DEF NewBest, BeforeBest
<1>3. QED
  BY <1>1, <1>2 DEF OnCourse

LEMMA StepsAreADir ==
    ASSUME NEW s \in Nat
    PROVE  FirstSteps(s) # NoDir
<1>1. Len(FirstSteps(s)) = s /\ \A i \in 1 .. s : FirstSteps(s)[i] # -1
  BY DEF FirstSteps
<1>2. Len(NoDir) = 1 /\ NoDir[1] = -1
  BY DEF NoDir
<1>3. QED
  BY <1>1, <1>2

\* The last step was validated if the last record says so.
LEMMA LastRecord ==
    ASSUME NEW m, InOrder(m)
    PROVE  m.step \in Range(m.history) <=> m.history # <<>> /\ Last(m.history) = m.step
<1> DEFINE h == m.history
<1>1. /\ h \in Seq(Validated) /\ Len(h) \in Nat /\ DOMAIN h = 1 .. Len(h) /\ m.step \in Nat
      /\ \A i \in 1 .. Len(h) : h[i] \in Range(h) /\ h[i] \in Nat /\ h[i] <= m.step
      /\ \A i, j \in 1 .. Len(h) : i < j => h[i] < h[j]
  BY OrderFacts
<1> HIDE DEF h
<1>2. CASE h = <<>>
  BY <1>2 DEF h, Range
<1>3. CASE h # <<>>
  <2>1. Len(h) \in 1 .. Len(h) /\ Last(h) = h[Len(h)]
    BY <1>1, <1>3 DEF Last
  <2>2. ASSUME m.step \in Range(h)
        PROVE  Last(h) = m.step
    <3>1. PICK i \in 1 .. Len(h) : h[i] = m.step
      BY <1>1, <2>2 DEF Range
    <3>2. i < Len(h) => FALSE
      BY <1>1, <2>1, <3>1
    <3>3. QED
      BY <1>1, <2>1, <3>1, <3>2
  <2>3. ASSUME Last(h) = m.step
        PROVE  m.step \in Range(h)
    BY <1>1, <2>1, <2>3
  <2>4. QED
    BY <1>3, <2>2, <2>3 DEF h
<1>4. QED
  BY <1>2, <1>3

\* A run that is through, and has validated its last step, has its result.
LEMMA RunIsThrough ==
    ASSUME NEW q \in [0 .. MaxSteps -> Nat \ {0}], NEW m, NEW b, InOrder(m), m.step = MaxSteps, m.step \in Range(m.history),
           Measured(q, m, m.step), OnCourse(q, m, b)
    PROVE  b = FirstSteps(Min({s \in Validated : \A t \in Validated : q[t] <= q[s]})) /\ b # NoDir
<1> DEFINE S == {s \in Validated : \A t \in Validated : q[t] <= q[s]}
<1>1. Range(m.history) = Validated
  <2>1. Range(m.history) \subseteq Validated
    BY OrderFacts
  <2>2. Validated \subseteq Range(m.history)
    BY DEF Measured, Validated
  <2>3. QED
    BY <2>1, <2>2
<1>2. PICK s \in Validated : FirstBest(q, m, s) /\ b = FirstSteps(s)
  BY <1>1 DEF OnCourse
<1>3. /\ \A t \in Validated : q[t] \in Nat /\ t \in Nat /\ q[t] <= q[s]
      /\ \A t \in Validated : q[t] = q[s] => s <= t
  BY <1>1, <1>2, ValidatedSteps DEF Measured, FirstBest, Validated
<1>4. s \in S /\ \A t \in S : s <= t
  <2>1. s \in S
    BY <1>3
  <2>2. ASSUME NEW t \in S
        PROVE  s <= t
    <3>1. q[s] <= q[t] /\ q[t] <= q[s] /\ q[t] \in Nat /\ q[s] \in Nat
      BY <1>3, <2>2
    <3>2. QED
      BY <1>3, <2>2, <3>1
  <2>3. QED
    BY <2>1, <2>2
<1>5. \A t \in S : t \in Nat
  BY <1>3
<1> HIDE DEF S
<1>6. \A x \in S : (\A y \in S : x <= y) => x = s
  BY <1>4, <1>5
<1>7. Min(S) = s
  BY <1>4, <1>6 DEF Min
<1>8. s \in Nat
  BY <1>3
<1>9. QED
  BY <1>2, <1>7, <1>8, StepsAreADir DEF S

-----------------------------------------------------------------------------
(* The training, step by step. *)

LEMMA FilesShrink ==
    ASSUME TrainInv, NEW from, RemoveLastFile(from)
    PROVE  /\ last'.files \subseteq last.files /\ last'.state = last.state
           /\ last' = [files |-> last'.files, state |-> last'.state]
<1>1. PICK x : last' = [last EXCEPT !.files = last.files \ {x}]
  BY Zenon DEF RemoveLastFile
<1>2. PICK F, S : last = [files |-> F, state |-> S]
  BY DEF TrainInv, DirInv
<1>3. QED
  BY <1>1, <1>2

LEMMA TrainUntouched ==
    ASSUME TrainInv, UNCHANGED trainVars, judged' = judged, pc'[Trainer] = pc[Trainer]
    PROVE  TrainInv'
<1>1. UNCHANGED <<quality, model, last, lastTmp, best, bestTmp>>
  BY DEF trainVars
<1>2. BestStep' = BestStep
  BY <1>1 DEF BestStep
<1>3. DirInv'
  BY <1>1 DEF TrainInv, DirInv, Resumable
<1>4. ModelInv'
  BY <1>1 DEF TrainInv, ModelInv
<1>5. AheadInv'
  BY <1>1 DEF TrainInv, AheadInv, Resumable
<1>6. ResultInv'
  BY <1>1, <1>2 DEF TrainInv, ResultInv
<1>7. QED
  BY <1>3, <1>4, <1>5, <1>6 DEF TrainInv

\* Where no model is in memory yet.
Outside == {"off", "waiting", "posLock", "posOwner", "posHeld", "posRmdir", "posVecs", "posIds", "mine",
            "mineRename", "mineStats", "copyStats", "load"}
LEMMA OutsideTraining ==
    ASSUME TrainInv, UNCHANGED <<quality, last, best, judged>>, InOrder(model'),
           judged = NoDir, pc'[Trainer] \in Outside
    PROVE  TrainInv'
<1>1. DirInv'
  BY DEF TrainInv, DirInv, Resumable
<1>2. ModelInv'
  BY DEF ModelInv, Outside, Entering, Looping, Saving
<1>3. AheadInv'
  BY DEF AheadInv, Outside, Entering, Looping, Saving
<1>4. ResultInv'
  BY DEF ResultInv, Outside, Over
<1>5. QED
  BY <1>1, <1>2, <1>3, <1>4 DEF TrainInv

LEMMA LoadsModel ==
    ASSUME Steps, TrainInv, Load, judged' = judged
    PROVE  TrainInv'
<1>1. /\ pc[Trainer] = "load"
      /\ pc'[Trainer] = IF Resumable /\ "weights" \notin last.files THEN "off" ELSE "trainLock"
      /\ model' = IF Resumable THEN last.state ELSE Fresh
      /\ UNCHANGED <<quality, last, lastTmp, best, bestTmp>>
  BY TrainerGoes DEF Load, Train
<1>2. judged = NoDir
  BY <1>1 DEF TrainInv, ResultInv
<1>3. Resumable => InOrder(last.state) /\ Sound(quality, last.state, best)
  BY DEF TrainInv, DirInv, Resumable
<1>4. InOrder(model')
  BY <1>1, <1>3, StartsInOrder
<1>5. CASE pc'[Trainer] = "off"
  BY <1>1, <1>2, <1>4, <1>5, OutsideTraining DEF Outside
<1>6. CASE pc'[Trainer] = "trainLock"
  <2>1. DirInv'
    BY <1>1, <1>4 DEF TrainInv, DirInv, Resumable
  <2>2. ModelInv'
    BY <1>1, <1>3, <1>6 DEF ModelInv, Entering, Looping, Saving
  <2>3. AheadInv'
    <3>1. Resumable => last.state.best \in Nat
      BY <1>3, OrderFacts
    <3>2. Resumable => Behind(last.state, model')
      BY <1>1, <3>1 DEF Behind
    <3>3. QED
      BY <1>1, <1>6, <3>2 DEF AheadInv, Resumable, Saving
  <2>4. ResultInv'
    BY <1>2, <1>6 DEF ResultInv, Over
  <2>5. QED
    BY <2>1, <2>2, <2>3, <2>4 DEF TrainInv
<1>7. QED
  BY <1>1, <1>5, <1>6

LEMMA EntersTraining ==
    ASSUME Steps, TrainInv, EnterTraining, judged' = judged
    PROVE  TrainInv'
<1>1. /\ \/ pc[Trainer] = "trainLock" /\ pc'[Trainer] = "trainOwner"
         \/ pc[Trainer] = "trainOwner" /\ pc'[Trainer] = LoopStart
      /\ UNCHANGED <<quality, model, last, lastTmp, best, bestTmp>>
  BY TrainerGoes DEF EnterTraining, MPSEnter, MakeDir, WriteOwner, trainVars
<1>2. model = Fresh \/ Sound(quality, model, best)
  BY <1>1 DEF TrainInv, ModelInv, Entering
<1>3. Resumable => Behind(last.state, model)
  BY <1>1 DEF TrainInv, AheadInv, Entering
<1>4. judged = NoDir
  BY <1>1 DEF TrainInv, ResultInv
<1>5. DirInv'
  BY <1>1 DEF TrainInv, DirInv, Resumable
<1>6. CASE pc'[Trainer] = "trainOwner"
  <2>1. ModelInv' /\ AheadInv' /\ ResultInv'
    BY <1>1, <1>2, <1>3, <1>4, <1>6 DEF ModelInv, AheadInv, ResultInv, Entering, Looping, Saving, Over, Resumable
  <2>2. QED
    BY <1>5, <2>1 DEF TrainInv
<1>7. CASE pc'[Trainer] = LoopStart
  <2>1. \/ pc'[Trainer] = "eval" /\ model = Fresh
        \/ pc'[Trainer] = "loop" /\ Sound(quality, model, best)
    <3>1. Fresh.step = 0
      BY DEF Fresh
    <3>2. QED
      BY <1>2, <1>7, <3>1 DEF LoopStart, Sound
  <2>2. quality \in [0 .. MaxSteps -> Nat \ {0}]
    BY DEF TrainInv, DirInv
  <2>3. model = Fresh => ToValidate(quality, model, best)
    BY <2>2, StartsToValidate
  <2>4. ModelInv'
    BY <1>1, <2>1, <2>3 DEF ModelInv, Entering, Looping, Saving, Sound
  <2>5. AheadInv' /\ ResultInv'
    BY <1>1, <1>3, <1>4, <2>1 DEF AheadInv, ResultInv, Saving, Over, Resumable
  <2>6. QED
    BY <1>5, <2>4, <2>5 DEF TrainInv
<1>8. QED
  BY <1>1, <1>6, <1>7

LEMMA Optimizes ==
    ASSUME Steps, TrainInv, OptimizerStep, judged' = judged
    PROVE  TrainInv'
<1>1. /\ pc[Trainer] = "loop" /\ model.step < MaxSteps
      /\ pc'[Trainer] = IF (model.step + 1) % EvalEvery = 0 THEN "eval" ELSE "saveDue"
      /\ model' = Optimized(model)
      /\ UNCHANGED <<quality, last, lastTmp, best, bestTmp>>
  BY TrainerGoes DEF OptimizerStep, Train, Optimized
<1>2. InOrder(model) /\ Measured(quality, model, model.step) /\ OnCourse(quality, model, best)
  BY <1>1 DEF TrainInv, DirInv, ModelInv, Looping
<1>3. /\ InOrder(model') /\ model'.step = model.step + 1
      /\ Range(model'.history) = Range(model.history) /\ model'.best = model.best
      /\ OnCourse(quality, model', best)
      /\ IF (model.step + 1) % EvalEvery = 0 THEN ToValidate(quality, model', best)
         ELSE Measured(quality, model', model.step + 1)
  BY <1>1, <1>2, OneStepMore
<1>4. Resumable => Behind(last.state, model')
  BY <1>1, <1>3 DEF TrainInv, AheadInv, Looping, Behind
<1>5. judged = NoDir
  BY <1>1 DEF TrainInv, ResultInv
<1>6. DirInv'
  BY <1>1, <1>3 DEF TrainInv, DirInv, Resumable
<1>7. ModelInv'
  BY <1>1, <1>3 DEF ModelInv, Entering, Looping, Saving
<1>8. AheadInv' /\ ResultInv'
  BY <1>1, <1>4, <1>5 DEF AheadInv, ResultInv, Saving, Over, Resumable
<1>9. QED
  BY <1>6, <1>7, <1>8 DEF TrainInv

LEMMA EndsLoop ==
    ASSUME Steps, TrainInv, EndLoop, judged' = judged
    PROVE  TrainInv'
<1>1. /\ pc[Trainer] = "loop" /\ model.step >= MaxSteps
      /\ pc'[Trainer] = IF model.history = <<>> \/ Last(model.history) # model.step THEN "eval" ELSE "trained"
      /\ UNCHANGED <<quality, model, last, lastTmp, best, bestTmp>>
  BY TrainerGoes DEF EndLoop, Train, trainVars
<1>2. /\ InOrder(model) /\ Measured(quality, model, model.step) /\ OnCourse(quality, model, best)
      /\ quality \in [0 .. MaxSteps -> Nat \ {0}]
  BY <1>1 DEF TrainInv, DirInv, ModelInv, Looping
<1>3. model.step = MaxSteps /\ model.step \in Validated
  BY <1>1, <1>2, OrderFacts, ValidatedSteps DEF Validated
<1>4. judged = NoDir
  BY <1>1 DEF TrainInv, ResultInv
<1>5. Resumable => Behind(last.state, model)
  BY <1>1 DEF TrainInv, AheadInv, Looping
<1>6. DirInv'
  BY <1>1 DEF TrainInv, DirInv, Resumable
<1>7. CASE model.step \notin Range(model.history)
  <2>1. pc'[Trainer] = "eval"
    BY <1>1, <1>2, <1>7, LastRecord
  <2>2. Measured(quality, model, model.step - 1)
    BY <1>2, <1>3, ValidatedSteps DEF Measured
  <2>3. ToValidate(quality, model, best)
    BY <1>2, <1>3, <1>7, <2>2 DEF ToValidate
  <2>4. ModelInv'
    BY <1>1, <2>1, <2>3 DEF ModelInv, Entering, Looping, Saving
  <2>5. AheadInv' /\ ResultInv'
    BY <1>1, <1>4, <1>5, <2>1 DEF AheadInv, ResultInv, Saving, Over, Resumable
  <2>6. QED
    BY <1>6, <2>4, <2>5 DEF TrainInv
<1>8. CASE model.step \in Range(model.history)
  <2>1. pc'[Trainer] = "trained"
    BY <1>1, <1>2, <1>8, LastRecord
  <2>2. best = FirstSteps(BestStep) /\ best # NoDir
    BY <1>2, <1>3, <1>8, RunIsThrough DEF BestStep
  <2>3. BestStep' = BestStep
    BY <1>1 DEF BestStep
  <2>4. ResultInv'
    BY <1>1, <1>4, <2>1, <2>2, <2>3 DEF ResultInv
  <2>5. ModelInv' /\ AheadInv'
    BY <2>1 DEF ModelInv, AheadInv, Entering, Looping, Saving
  <2>6. QED
    BY <1>6, <2>4, <2>5 DEF TrainInv
<1>9. QED
  BY <1>7, <1>8

LEMMA Evaluates ==
    ASSUME Steps, TrainInv, Evaluate, judged' = judged
    PROVE  TrainInv'
<1>1. /\ pc[Trainer] = "eval"
      /\ pc'[Trainer] = IF quality[model.step] > model.best THEN "bestTmp" ELSE "saveDue"
      /\ model' = Judged(quality, model)
      /\ UNCHANGED <<quality, last, lastTmp, best, bestTmp>>
  BY TrainerGoes DEF Evaluate, Train, Judged
<1>2. /\ InOrder(model) /\ ToValidate(quality, model, best)
      /\ quality \in [0 .. MaxSteps -> Nat \ {0}]
  BY <1>1 DEF TrainInv, DirInv, ModelInv
<1>3. /\ InOrder(model') /\ model'.step = model.step
      /\ Range(model'.history) = Range(model.history) \cup {model.step} /\ model.best <= model'.best
      /\ Measured(quality, model', model.step)
      /\ IF quality[model.step] > model.best THEN NewBest(quality, model') /\ model.best < model'.best
         ELSE OnCourse(quality, model', best)
  BY <1>1, <1>2, OneMoreJudged
<1>4. /\ model.best \in Nat /\ model'.best \in Nat /\ model.step \notin Range(model.history)
      /\ Resumable => last.state.best \in Nat /\ Behind(last.state, model)
  BY <1>1, <1>2, <1>3, OrderFacts DEF TrainInv, DirInv, AheadInv, ToValidate, Resumable
<1>5. judged = NoDir
  BY <1>1 DEF TrainInv, ResultInv
<1>6. DirInv'
  BY <1>1, <1>3 DEF TrainInv, DirInv, Resumable
<1>7. ModelInv'
  BY <1>1, <1>3 DEF ModelInv, Entering, Looping, Saving
<1>8. AheadInv'
  <2>1. CASE quality[model.step] > model.best
    <3>1. Resumable => BeforeBest(last.state, model')
      BY <1>3, <1>4, <2>1 DEF Behind, BeforeBest
    <3>2. QED
      BY <1>1, <2>1, <3>1 DEF AheadInv, Entering, Looping, Resumable
  <2>2. CASE ~(quality[model.step] > model.best)
    <3>1. Resumable => Behind(last.state, model')
      BY <1>3, <1>4 DEF Behind
    <3>2. QED
      BY <1>1, <2>2, <3>1 DEF AheadInv, Saving, Resumable
  <2>3. QED
    BY <2>1, <2>2
<1>9. ResultInv'
  BY <1>1, <1>5 DEF ResultInv, Over
<1>10. QED
  BY <1>6, <1>7, <1>8, <1>9 DEF TrainInv

\* best/ is written in three steps; a checkpoint from before stays on course.
LEMMA SavesBest ==
    ASSUME Steps, TrainInv, SaveBest, judged' = judged
    PROVE  TrainInv'
<1>1. /\ pc[Trainer] \in Saving
      /\ UNCHANGED <<quality, model, last, lastTmp>>
      /\ \/ pc'[Trainer] = "bestDrop" /\ bestTmp' = model.weights /\ UNCHANGED best
         \/ pc[Trainer] = "bestDrop" /\ pc'[Trainer] = "bestMove" /\ best' = NoDir /\ UNCHANGED bestTmp
         \/ pc[Trainer] = "bestMove" /\ pc'[Trainer] = "saveDue" /\ best' = bestTmp /\ bestTmp' = NoDir
  BY TrainerGoes DEF SaveBest, Train, Saving
<1>2. InOrder(model) /\ NewBest(quality, model)
  BY <1>1 DEF TrainInv, DirInv, ModelInv
<1>3. Resumable => InOrder(last.state) /\ Sound(quality, last.state, best) /\ BeforeBest(last.state, model)
  BY <1>1 DEF TrainInv, DirInv, AheadInv, Resumable
<1>4. Resumable => last.state.best \in Nat
  BY <1>3, OrderFacts
<1>5. \A b : Resumable => Sound(quality, last.state, b)
  <2>1. ASSUME NEW b, Resumable
        PROVE  OnCourse(quality, last.state, b)
    BY <1>2, <1>3, <1>4, <2>1, EarlierIsOnCourse
  <2>2. QED
    BY <1>3, <2>1 DEF Sound
<1>6. judged = NoDir
  BY <1>1 DEF TrainInv, ResultInv, Saving
<1>7. pc[Trainer] \in {"bestDrop", "bestMove"} => bestTmp = FirstSteps(model.step)
  BY <1>2, OrderFacts DEF TrainInv, ModelInv
<1>8. best' = NoDir \/ \E s \in 0 .. MaxSteps : best' = FirstSteps(s)
  <2>1. model.step \in 0 .. MaxSteps
    BY <1>2, OrderFacts
  <2>2. best = NoDir \/ \E s \in 0 .. MaxSteps : best = FirstSteps(s)
    BY DEF TrainInv, DirInv
  <2>3. QED
    BY <1>1, <1>7, <2>1, <2>2
<1>9. DirInv'
  <2>1. Resumable' <=> Resumable
    BY <1>1 DEF Resumable
  <2>2. Resumable' => Sound(quality', last'.state, best')
    BY <1>1, <1>5, <2>1
  <2>3. QED
    BY <1>1, <1>8, <2>2 DEF TrainInv, DirInv
<1>10. CASE pc'[Trainer] \in {"bestDrop", "bestMove"}
  <2>1. pc'[Trainer] = "bestMove" => bestTmp' = model.weights
    BY <1>1, <1>10 DEF TrainInv, ModelInv
  <2>2. pc'[Trainer] = "bestDrop" => bestTmp' = model.weights
    BY <1>1
  <2>3. ModelInv'
    BY <1>1, <1>2, <1>10, <2>1, <2>2 DEF ModelInv, Entering, Looping
  <2>4. AheadInv' /\ ResultInv'
    BY <1>1, <1>3, <1>6, <1>10 DEF AheadInv, ResultInv, Entering, Looping, Over, Resumable
  <2>5. QED
    BY <1>9, <2>3, <2>4 DEF TrainInv
<1>11. CASE pc'[Trainer] = "saveDue"
  <2>1. best' = FirstSteps(model.step)
    BY <1>1, <1>7, <1>11
  <2>2. OnCourse(quality, model, best')
    BY <1>2, <2>1, SavedIsOnCourse
  <2>3. Measured(quality, model, model.step)
    BY <1>2 DEF NewBest
  <2>4. ModelInv'
    BY <1>1, <1>11, <2>2, <2>3 DEF ModelInv, Entering, Saving
  <2>5. Resumable => Behind(last.state, model)
    <3>1. model.best \in Nat
      BY <1>2, OrderFacts
    <3>2. QED
      BY <1>3, <1>4, <3>1 DEF BeforeBest, Behind
  <2>6. AheadInv' /\ ResultInv'
    BY <1>1, <1>6, <1>11, <2>5 DEF AheadInv, ResultInv, Saving, Over, Resumable
  <2>7. QED
    BY <1>9, <2>4, <2>6 DEF TrainInv
<1>12. QED
  BY <1>1, <1>10, <1>11

\* A checkpoint is written to last.tmp/, last/ is removed file by file, and
\* last.tmp/ gets its name.
LEMMA SavesLast ==
    ASSUME Steps, TrainInv, SaveDue \/ WriteLastTmp \/ RemoveLastFile("lastDrop") \/ RenameLast, judged' = judged
    PROVE  TrainInv'
<1>1. /\ pc[Trainer] \in {"saveDue", "lastTmp", "lastDrop"} /\ pc'[Trainer] \in Looping
      /\ pc'[Trainer] = "lastTmp" => model.step > 0
      /\ UNCHANGED <<quality, model, best>>
  <2>1. CASE SaveDue
    BY <2>1, TrainerGoes DEF SaveDue, Train, trainVars, Looping
  <2>2. CASE WriteLastTmp \/ RemoveLastFile("lastDrop") \/ RenameLast
    BY <2>2, TrainerGoes DEF WriteLastTmp, RemoveLastFile, RenameLast, Train, Looping
  <2>3. QED
    BY <2>1, <2>2
<1>2. /\ InOrder(model) /\ Measured(quality, model, model.step) /\ OnCourse(quality, model, best)
      /\ pc[Trainer] \in {"lastTmp", "lastDrop"} => Sound(quality, model, best)
      /\ pc[Trainer] = "lastDrop" => lastTmp = model
      /\ Resumable => Behind(last.state, model)
  BY <1>1 DEF TrainInv, DirInv, ModelInv, AheadInv, ResultInv, Looping, Sound
<1>3. judged = NoDir
  BY <1>1 DEF TrainInv, ResultInv
<1>4. ResultInv'
  BY <1>1, <1>3 DEF ResultInv, Looping, Over
<1>5. pc'[Trainer] = "lastDrop" => model.step > 0 /\ lastTmp' = model
  <2>1. CASE SaveDue
    <3>1. pc'[Trainer] # "lastDrop"
      BY <2>1, TrainerGoes DEF SaveDue, Train
    <3>2. QED
      BY <3>1
  <2>2. CASE WriteLastTmp
    BY <1>1, <2>2, TrainerGoes DEF TrainInv, ModelInv, WriteLastTmp, Train
  <2>3. CASE RemoveLastFile("lastDrop")
    BY <1>1, <2>3, TrainerGoes DEF TrainInv, ModelInv, RemoveLastFile, Train
  <2>4. CASE RenameLast
    BY <2>4, TrainerGoes DEF RenameLast, Train
  <2>5. QED
    BY <2>1, <2>2, <2>3, <2>4
<1>6. ModelInv'
  BY <1>1, <1>2, <1>5 DEF ModelInv, Entering, Looping, Saving
<1>7. CASE SaveDue \/ WriteLastTmp
  <2>1. UNCHANGED last
    BY <1>7 DEF SaveDue, WriteLastTmp, trainVars
  <2>2. DirInv'
    BY <1>1, <2>1 DEF TrainInv, DirInv, Resumable
  <2>3. AheadInv'
    BY <1>1, <1>2, <1>3, <2>1 DEF AheadInv, Looping, Saving, Resumable
  <2>4. QED
    BY <1>4, <1>6, <2>2, <2>3 DEF TrainInv
<1>8. CASE RemoveLastFile("lastDrop")
  <2>1. last'.files \subseteq last.files /\ last'.state = last.state /\ last' = [files |-> last'.files, state |-> last'.state]
    BY <1>8, FilesShrink
  <2>2. Resumable' => Resumable
    BY <2>1 DEF Resumable
  <2>3. DirInv'
    BY <1>1, <2>1, <2>2 DEF TrainInv, DirInv
  <2>4. AheadInv'
    BY <1>1, <1>2, <1>3, <2>1, <2>2 DEF AheadInv, Looping, Saving
  <2>5. QED
    BY <1>4, <1>6, <2>3, <2>4 DEF TrainInv
<1>9. CASE RenameLast
  <2>1. last' = [files |-> {"weights", "state"}, state |-> model] /\ Sound(quality, model, best)
    BY <1>2, <1>9, TrainerGoes DEF RenameLast, Train
  <2>2. last'.state = model /\ last'.files = {"weights", "state"}
    BY <2>1
  <2>3. DirInv'
    BY <1>1, <1>2, <2>1, <2>2 DEF TrainInv, DirInv
  <2>4. Behind(model, model)
    BY <1>2, OrderFacts DEF Behind
  <2>5. AheadInv'
    BY <1>1, <2>2, <2>4 DEF AheadInv, Looping, Saving
  <2>6. QED
    BY <1>4, <1>6, <2>3, <2>5 DEF TrainInv
<1>10. QED
  BY <1>7, <1>8, <1>9

\* Once the training is over best/ stays, and is judged.
LEMMA TrainingIsOver ==
    ASSUME Steps, TrainInv,
           \/ (LeaveTraining \/ RemoveLastFile("dropLast") \/ DropLast) /\ UNCHANGED pipeVars
           \/ Judge /\ UNCHANGED trainVars
    PROVE  TrainInv'
<1>1. /\ pc[Trainer] \in Over /\ pc[Trainer] # "done" /\ pc'[Trainer] \in Over
      /\ UNCHANGED <<quality, model, best>>
      /\ UNCHANGED last \/ RemoveLastFile("dropLast")
      /\ judged' = IF pc'[Trainer] = "done" THEN best ELSE judged
  <2>1. CASE LeaveTraining /\ UNCHANGED pipeVars
    BY <2>1, TrainerGoes DEF LeaveTraining, MPSExit, UnlinkOwner, RemoveDir, trainVars, pipeVars, Over
  <2>2. CASE (RemoveLastFile("dropLast") \/ DropLast) /\ UNCHANGED pipeVars
    BY <2>2, TrainerGoes DEF RemoveLastFile, DropLast, Train, trainVars, pipeVars, Over
  <2>3. CASE Judge /\ UNCHANGED trainVars
    <3>1. CASE /\ Train("copySummary", IF judged # NoDir \/ best = NoDir THEN "done" ELSE "judgeLock")
               /\ UNCHANGED pipeVars
      <4>1. pc[Trainer] = "copySummary" /\ pc'[Trainer] = IF judged # NoDir \/ best = NoDir THEN "done" ELSE "judgeLock"
        BY <3>1, TrainerGoes DEF Train
      <4>2. judged = NoDir /\ best # NoDir
        BY <4>1 DEF TrainInv, ResultInv, Over
      <4>3. QED
        BY <2>3, <3>1, <4>1, <4>2 DEF trainVars, pipeVars, Over
    <3>2. CASE (MPSEnter(Trainer, "judgeLock", "judgeOwner", "judgeHeld")
                \/ MPSExit(Trainer, "judgeHeld", "judgeRmdir", "writeResult")) /\ UNCHANGED pipeVars
      BY <2>3, <3>2, TrainerGoes DEF MPSEnter, MPSExit, MakeDir, WriteOwner, UnlinkOwner, RemoveDir, trainVars, pipeVars, Over
    <3>3. CASE Train("writeResult", "done") /\ judged' = best
      BY <2>3, <3>3, TrainerGoes DEF Train, trainVars, Over
    <3>4. QED
      BY <2>3, <3>1, <3>2, <3>3 DEF Judge
  <2>4. QED
    BY <2>1, <2>2, <2>3
<1>2. judged = NoDir /\ best = FirstSteps(BestStep) /\ best # NoDir
  BY <1>1 DEF TrainInv, ResultInv
<1>3. BestStep' = BestStep
  BY <1>1 DEF BestStep
<1>4. ResultInv'
  BY <1>1, <1>2, <1>3 DEF ResultInv
<1>5. ModelInv' /\ AheadInv'
  BY <1>1 DEF ModelInv, AheadInv, Entering, Looping, Saving, Over
<1>6. /\ last'.files \subseteq last.files /\ last'.state = last.state
      /\ last' = [files |-> last'.files, state |-> last'.state]
  <2>1. CASE UNCHANGED last
    BY <2>1 DEF TrainInv, DirInv
  <2>2. CASE RemoveLastFile("dropLast")
    BY <2>2, FilesShrink
  <2>3. QED
    BY <1>1, <2>1, <2>2
<1>7. DirInv'
  BY <1>1, <1>6 DEF TrainInv, DirInv, Resumable
<1>8. QED
  BY <1>4, <1>5, <1>7 DEF TrainInv

LEMMA TrainStep ==
    ASSUME Steps, TrainInv, [Next]_vars
    PROVE  TrainInv'
<1>1. CASE EncodeStep
  BY <1>1, EncoderLeavesTrainer, TrainUntouched DEF EncodeStep, pipeVars
<1>2. CASE TrainerStep
  <2>1. CASE (StartPipeline \/ PipelineWait \/ EncodePositives \/ Mine) /\ UNCHANGED trainVars
    <3>1. /\ pc[Trainer] # "done" /\ pc'[Trainer] \in Outside /\ judged' = judged
      <4>1. CASE StartPipeline \/ PipelineWait
        BY <4>1, TrainerGoes DEF StartPipeline, PipelineWait, Train, pipeVars, Outside
      <4>2. CASE EncodePositives
        BY <4>2, TrainerGoes DEF EncodePositives, Train, MPSEnter, MPSExit, MakeDir, WriteOwner, UnlinkOwner, RemoveDir, pipeVars, Outside
      <4>3. CASE Mine
        BY <4>3, TrainerGoes DEF Mine, Train, pipeVars, Outside
      <4>4. QED
        BY <2>1, <4>1, <4>2, <4>3
    <3>2. judged = NoDir /\ InOrder(model)
      BY <3>1 DEF TrainInv, ResultInv, DirInv
    <3>3. QED
      BY <2>1, <3>1, <3>2, OutsideTraining DEF trainVars
  <2>2. CASE Judge /\ UNCHANGED trainVars
    BY <2>2, TrainingIsOver
  <2>3. CASE TrainingStep /\ UNCHANGED pipeVars
    <3>1. judged' = judged
      BY <2>3 DEF pipeVars
    <3>2. QED
      BY <2>3, <3>1, LoadsModel, EntersTraining, Optimizes, EndsLoop, Evaluates, SavesBest, SavesLast, TrainingIsOver
         DEF TrainingStep
  <2>4. QED
    BY <1>2, <2>1, <2>2, <2>3 DEF TrainerStep
<1>3. ASSUME NEW D \in SUBSET Procs, Crash(D), \A p \in D : Running(p)
      PROVE  TrainInv'
  <2>1. UNCHANGED <<quality, last, best, pipeVars>>
    BY <1>3 DEF Crash
  <2>2. CASE Trainer \in D
    <3>1. pc[Trainer] # "done" /\ pc'[Trainer] = "off" /\ model' = Fresh
      BY <1>3, <2>2 DEF Crash, Running, Procs
    <3>2. judged = NoDir
      BY <3>1 DEF TrainInv, ResultInv
    <3>3. QED
      BY <2>1, <3>1, <3>2, StartsInOrder, OutsideTraining DEF Outside, pipeVars
  <2>3. CASE Trainer \notin D
    <3>1. pc'[Trainer] = pc[Trainer] /\ UNCHANGED <<model, lastTmp, bestTmp>>
      BY <1>3, <2>3 DEF Crash, Procs
    <3>2. QED
      BY <2>1, <3>1, TrainUntouched DEF trainVars, pipeVars
  <2>4. QED
    BY <2>2, <2>3
<1>4. CASE Kill
  BY <1>3, <1>4 DEF Kill
<1>5. CASE Reboot
  <2>1. Crash({p \in Procs : Running(p)})
    BY <1>5 DEF Reboot
  <2>2. QED
    BY <1>3, <2>1
<1>6. CASE TerminateEncoder
  <2>1. pc'[Trainer] = pc[Trainer]
    BY <1>6, ProcsAssumption DEF TerminateEncoder, Terminate, Goto, Steps, Procs
  <2>2. QED
    BY <1>6, <2>1, TrainUntouched DEF TerminateEncoder, pipeVars
<1>7. CASE UNCHANGED vars
  BY <1>7, TrainUntouched DEF vars, pipeVars
<1>8. QED
  BY <1>1, <1>2, <1>4, <1>5, <1>6, <1>7 DEF Next

LEMMA TrainingStarts ==
    ASSUME Init
    PROVE  TrainInv
<1>1. /\ quality \in [0 .. MaxSteps -> Nat \ {0}] /\ model = Fresh /\ last = NoCheckpoint
      /\ best = NoDir /\ judged = NoDir /\ pc[Trainer] = "off"
  BY QualitiesAssumption DEF Init, TrainInit, Procs
<1>2. last.files = {} /\ last = [files |-> last.files, state |-> last.state]
  BY <1>1 DEF NoCheckpoint
<1>3. DirInv
  BY <1>1, <1>2, StartsInOrder DEF DirInv, Resumable
<1>4. ModelInv /\ AheadInv /\ ResultInv
  BY <1>1 DEF ModelInv, AheadInv, ResultInv, Entering, Looping, Saving, Over
<1>5. QED
  BY <1>3, <1>4 DEF TrainInv
-----------------------------------------------------------------------------
LEMMA Initially ==
    ASSUME Init
    PROVE  IInv
<1>1. Steps
  BY DEF Init, Steps, NoLock, Procs, EncSteps, TrainSteps
<1>2. LockInv
  BY DEF Init, LockInv, NoLock, Procs, EncHoldSteps, InTry, HoldSteps, Breaking
<1>3. NoFile \in File /\ ~NoFile.there
  BY DEF NoFile, File, RowStates
<1>4. FileTypes
  BY <1>3 DEF Init, EncInit, FileTypes
<1>5. FileInv /\ MemoryInv /\ PipeInv
  BY <1>3 DEF Init, EncInit, FileInv, MemoryInv, PipeInv, Making, Filling, Mining, Procs
<1>6. TrainInv
  BY TrainingStarts
<1>7. QED
  BY <1>1, <1>2, <1>4, <1>5, <1>6 DEF IInv

\* The lock's owner, the files, the checkpoints and the processes' places fit together
\* after any number of crashes (dense/encode.py, rerank/train.py, rerank/mine.py).
THEOREM JobsInvariant == Spec => []IInv
<1>1. IInv /\ [Next]_vars => IInv'
  BY LockStep, FileStep, PipeStep, TrainStep DEF IInv, Files
<1>2. QED
  BY <1>1, Initially, PTL DEF Spec

\* One job at a time is on the GPU: the encoder breaks only a lock whose owner is
\* a dead encoder, so never one that a job still works under (encode.py
\* acquire_lock, train.py MPSLock).
THEOREM OneHolder == Spec => []OneJobOnGpu
<1>1. IInv => OneJobOnGpu
  <2>1. EncSteps \cap HoldSteps = {} /\ TrainSteps \cap EncHoldSteps = {}
    BY DEF EncSteps, EncHoldSteps, InTry, HoldSteps, TrainSteps
  <2>2. QED
    BY <2>1 DEF IInv, Steps, LockInv, OneJobOnGpu, Procs
<1>2. QED
  BY <1>1, JobsInvariant, PTL

\* A file with the final name has every row encoded and on disk, READY implies
\* that file, and no chunk is counted twice, for any number of passages, any
\* chunk size and any crashes (encode.py encode_passages).
LEMMA ReadyIsEncoded == IInv => ReadyMeansEncoded
  BY DEF IInv, FileInv, ReadyMeansEncoded, OnDisk

\* READY means an encoded file, and the negatives were mined from the whole file,
\* the one that is there now (rerank_pipeline.sh, mine.py).
THEOREM MinedFromTheFile == Spec => []MinedFromWholeFile
<1>1. IInv => MinedFromWholeFile
  BY ReadyIsEncoded DEF IInv, FileInv, PipeInv, MinedFromWholeFile
<1>2. QED
  BY <1>1, JobsInvariant, PTL

\* A model after s steps was made by the batches of steps 0 to s-1, each once and in
\* order, and has seen every query equally often up to one, in memory, in a
\* checkpoint and in best/, for any size of the batches, any orders of the epochs
\* and any crashes (train.py --resume, sampler.py GroupSampler.batch).
THEOREM ResumedRunsReplay == Spec => []ResumeReplaysBatches
<1>1. ASSUME NEW m, InOrder(m)
      PROVE  Replayed(m)
  <2>1. m.step \in Nat /\ m.weights = FirstSteps(m.step)
    BY <1>1, OrderFacts
  <2>2. \A q, r \in Queries : TimesSeen(q, m.weights) <= TimesSeen(r, m.weights) + 1
    BY <2>1, EqualShares
  <2>3. \A i \in 2 .. Len(m.history) : m.history[i - 1] < m.history[i]
    <3>1. /\ Len(m.history) \in Nat
          /\ \A i, j \in 1 .. Len(m.history) : i < j => m.history[i] < m.history[j]
      BY <1>1, OrderFacts
    <3>2. \A i \in 2 .. Len(m.history) : i - 1 \in 1 .. Len(m.history) /\ i \in 1 .. Len(m.history) /\ i - 1 < i
      BY <3>1
    <3>3. QED
      BY <3>1, <3>2
  <2>4. QED
    BY <2>1, <2>2, <2>3 DEF Replayed
<1>2. TrainInv => ResumeReplaysBatches
  BY <1>1 DEF TrainInv, DirInv, ResumeReplaysBatches
<1>3. QED
  BY <1>2, JobsInvariant, PTL DEF IInv

\* A pipeline that is through has judged the first of the best validated models,
\* and best/ holds it, wherever it was killed before (train.py run_eval, save_last,
\* rerank_eval.sh).
THEOREM TheBestIsJudged == Spec => []BestModelIsJudged
<1>1. TrainInv => BestModelIsJudged
  BY DEF TrainInv, ResultInv, BestModelIsJudged, Over
<1>2. QED
  BY <1>1, JobsInvariant, PTL DEF IInv
=============================================================================
