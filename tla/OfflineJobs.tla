----------------------------- MODULE OfflineJobs -----------------------------
(***************************************************************************)
(* The offline jobs together: the dense encoder (scripts/dense_encode.sh)   *)
(* and the rerank pipeline (scripts/rerank_pipeline.sh), which waits for    *)
(* the encoder's vectors, encodes the positives, mines hard negatives,      *)
(* trains a reranker and evaluates its best checkpoint.  Either may be      *)
(* killed at any step, or the machine may go down, and whoever watches them *)
(* runs the same command again.                                             *)
(***************************************************************************)
EXTENDS DenseEncode, RerankTrain

\* Bound: how often a job is killed, terminated or lost with the machine.
CONSTANT MaxCrashes
ASSUME CrashesAssumption == MaxCrashes \in Nat

VARIABLES
    positives,   \* positives.train50k: 0, 1 (vectors) or 2 (vectors and pids)
    mined,       \* mined/train50k: 0, 1 (jsonl) or 2 (jsonl and stats)
    minedFrom,   \* history: the passages.fbin that was mined
    judged,      \* the weights the results in results/rerank/eval are of, or NoDir
    crashes      \* counter of the bound

pipeVars == <<positives, mined, minedFrom, judged>>
vars     == <<lock, pc, encVars, trainVars, pipeVars, crashes>>

Init ==
    /\ lock = NoLock /\ pc = [p \in Procs |-> "off"]
    /\ EncInit /\ TrainInit
    /\ positives = 0 /\ mined = 0 /\ minedFrom = NoFile /\ judged = NoDir
    /\ crashes = 0

\* The script: started; waiting for the vectors and a free lock.
StartPipeline == Train("off", "waiting") /\ UNCHANGED pipeVars
PipelineWait ==
    /\ final.there /\ ~lock.dir
    /\ Train("waiting", IF positives = 0 THEN "posLock" ELSE "mine")
    /\ UNCHANGED pipeVars

\* encode_positives: under the lock, then two files.
EncodePositives ==
    \/ MPSEnter(Trainer, "posLock", "posOwner", "posHeld") /\ UNCHANGED pipeVars
    \/ MPSExit(Trainer, "posHeld", "posRmdir", "posVecs") /\ UNCHANGED pipeVars
    \/ Train("posVecs", "posIds") /\ positives' = 1 /\ UNCHANGED <<mined, minedFrom, judged>>
    \/ Train("posIds", "mine") /\ positives' = 2 /\ UNCHANGED <<mined, minedFrom, judged>>

\* Faulty variant of Minable: the header is not compared with the ids.
MinableUnchecked == positives = 2 /\ queryFiles = 2
\* mine: skipped when its file is there; fails when an input is missing or the
\* passages' header does not fit the ids; the negatives get their name before
\* their statistics are written, which the script then copies.
Minable == positives = 2 /\ queryFiles = 2 /\ final.header
Mine ==
    \/ /\ Train("mine", IF mined > 0 THEN "copyStats" ELSE IF Minable THEN "mineRename" ELSE "off")
       /\ UNCHANGED pipeVars
    \/ /\ Train("mineRename", "mineStats")
       /\ mined' = 1 /\ minedFrom' = final
       /\ UNCHANGED <<positives, judged>>
    \/ Train("mineStats", "copyStats") /\ mined' = 2 /\ UNCHANGED <<positives, minedFrom, judged>>
    \/ /\ Train("copyStats", IF mined = 2 THEN "load" ELSE "off")
       /\ UNCHANGED pipeVars

\* rerank_eval.sh: results that exist are kept; a model without a checkpoint is
\* skipped; the scorer holds the lock while it scores.
Judge ==
    \/ /\ Train("copySummary", IF judged # NoDir \/ best = NoDir THEN "done" ELSE "judgeLock")
       /\ UNCHANGED pipeVars
    \/ MPSEnter(Trainer, "judgeLock", "judgeOwner", "judgeHeld") /\ UNCHANGED pipeVars
    \/ MPSExit(Trainer, "judgeHeld", "judgeRmdir", "writeResult") /\ UNCHANGED pipeVars
    \/ Train("writeResult", "done") /\ judged' = best /\ UNCHANGED <<positives, mined, minedFrom>>

TrainerStep ==
    /\ \/ (StartPipeline \/ PipelineWait \/ EncodePositives \/ Mine \/ Judge) /\ UNCHANGED trainVars
       \/ TrainingStep /\ UNCHANGED pipeVars
    /\ UNCHANGED <<encVars, crashes>>
EncodeStep == EncoderStep /\ UNCHANGED <<trainVars, pipeVars, crashes>>

\* The environment.  A job that is not running, or is through, cannot crash.
Running(p) == pc[p] \notin {"off", "done"}
Crash(D) ==
    /\ crashes < MaxCrashes
    /\ crashes' = crashes + 1
    /\ lock' = LockAfterDeath(D)
    /\ pc' = [p \in Procs |-> IF p \in D THEN "off" ELSE pc[p]]
    /\ todo' = IF Encoder \in D THEN {} ELSE todo
    /\ model' = IF Trainer \in D THEN Fresh ELSE model
    /\ lastTmp' = IF Trainer \in D THEN Fresh ELSE lastTmp
    /\ bestTmp' = IF Trainer \in D THEN NoDir ELSE bestTmp
    /\ UNCHANGED <<queryFiles, final, progress, chunkLog, stats, ready, quality, last, best, pipeVars>>
Kill == \E p \in Procs : Running(p) /\ Crash({p}) /\ UNCHANGED partial
Reboot ==
    /\ \E p \in Procs : Running(p)
    /\ Crash({p \in Procs : Running(p)})
    /\ partial' \in {[partial EXCEPT !.rows = rows] : rows \in RowsAfterReboot(partial.rows)}
TerminateEncoder ==
    /\ crashes < MaxCrashes
    /\ crashes' = crashes + 1
    /\ Terminate
    /\ UNCHANGED <<trainVars, pipeVars>>

Next == EncodeStep \/ TrainerStep \/ Kill \/ Reboot \/ TerminateEncoder

Spec == Init /\ [][Next]_vars
\* A job takes its next step, and one that ended early is run again.
FairSpec == Spec /\ WF_vars(EncodeStep) /\ WF_vars(TrainerStep)
------------------------------------------------------------------------------
EncSteps == {"off", "mkdir", "owner", "unlinkStale", "rmdirStale", "unlinkOwner", "rmdir",
             "failUnlink", "failRmdir", "ready", "done"} \cup InTry
HoldSteps == {"posOwner", "posHeld", "posRmdir", "trainOwner", "loop", "eval", "bestTmp", "bestDrop",
              "bestMove", "saveDue", "lastTmp", "lastDrop", "trained", "trainRmdir",
              "judgeOwner", "judgeHeld", "judgeRmdir"}
TrainSteps == {"off", "waiting", "posLock", "posVecs", "posIds", "mine", "mineRename", "mineStats",
               "copyStats", "load", "trainLock", "dropLast", "copySummary", "judgeLock",
               "writeResult", "done"} \cup HoldSteps
EncHoldSteps == {"owner", "unlinkOwner", "rmdir", "failUnlink", "failRmdir"} \cup InTry

TypeOK ==
    /\ lock \in [dir : BOOLEAN, owner : Procs \cup {Nobody}, stale : BOOLEAN]
    /\ pc[Encoder] \in EncSteps /\ pc[Trainer] \in TrainSteps
    /\ queryFiles \in 0 .. 2 /\ partial \in File /\ final \in File
    /\ progress \subseteq Chunks /\ todo \subseteq Chunks /\ chunkLog \in [Chunks -> Nat]
    /\ stats \in Nat /\ ready \in BOOLEAN
    /\ model.step \in 0 .. MaxSteps /\ last.files \subseteq {"weights", "state"}
    /\ positives \in 0 .. 2 /\ mined \in 0 .. 2 /\ crashes \in 0 .. MaxCrashes

\* One job at a time is on the GPU, and whoever is holds the directory, though
\* a dead encoder's lock may be broken at any moment (encode.py "Locks held by
\* other tools are never broken").
OneJobOnGpu ==
    /\ ~(pc[Encoder] \in EncHoldSteps /\ pc[Trainer] \in HoldSteps)
    /\ \A p \in Procs : pc[p] \in EncHoldSteps \cup HoldSteps => lock.dir

\* What was mined, and so what is trained on, came from a passages.fbin with
\* every row encoded, which is the one there now, and READY means such a file,
\* however often and wherever the encoder died.
MinedFromWholeFile ==
    /\ ReadyMeansEncoded
    /\ mined > 0 => minedFrom = final /\ EncodedWhole(minedFrom) /\ minedFrom.header

\* A pipeline that is through has, in best/ and in its results, the first of the
\* best models of all steps it validates, and validated the last step, however
\* often it was killed and whatever the checkpoints looked like then.
Validated == {s \in 0 .. MaxSteps : s % EvalEvery = 0 \/ s = MaxSteps}
BestStep == Min({s \in Validated : \A t \in Validated : quality[t] <= quality[s]})
BestModelIsJudged ==
    pc[Trainer] = "done" => best = FirstSteps(BestStep) /\ judged = best

\* What a crash can leave behind that no later run repairs: a lock that nobody
\* alive holds and that does not name a dead encoder; a passages.fbin without its
\* header; positives without their pids; negatives without their statistics; a
\* checkpoint whose weights were removed before its state.
OrphanLock ==
    /\ lock.dir /\ lock.owner # Encoder
    /\ pc[Encoder] \notin EncHoldSteps \cup {"rmdirStale"}
    /\ pc[Trainer] \notin HoldSteps
Wedged ==
    /\ crashes > 0
    /\ \/ OrphanLock
       \/ final.there /\ ~final.header
       \/ positives = 1 /\ pc[Trainer] # "posIds"
       \/ mined = 1 /\ pc[Trainer] # "mineStats"
       \/ last.files = {"state"} /\ pc[Trainer] \notin {"lastDrop", "dropLast"}
\* Both jobs come to their end once crashes stop, and then READY is there and a
\* model is judged, unless a crash left one of those behind for good: a dead
\* encoder's lock is broken, a partial file and a checkpoint are continued
\* (dense_encode.sh "Resumable (re-run the same command after a crash)").
JobsEnd == <>(ready /\ \A p \in Procs : pc[p] = "done") \/ <>[]Wedged
==============================================================================
