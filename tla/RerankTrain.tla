----------------------------- MODULE RerankTrain -----------------------------
(***************************************************************************)
(* The reranker's training run (rerank/train.py, rerank/sampler.py): batches*)
(* that depend on the step alone, validation that keeps the best model in   *)
(* best/, and checkpoints in last/ that --resume continues from.  The two   *)
(* directories are replaced by removing the old one and renaming a new one, *)
(* each file operation a step of its own.                                   *)
(***************************************************************************)
EXTENDS GpuLock, FiniteSetsExt, SequencesExt

\* The shape of a run, as in TrainConfig; Queries the mined queries; Orders the
\* permutations epoch_order may draw, one per epoch; Qualities the validation
\* scores that models may turn out to have, by step.
CONSTANTS MaxSteps, EvalEvery, SaveEvery, BatchGroups, GradAccum, Queries, Orders, Qualities

ASSUME ConfigAssumption == {MaxSteps, EvalEvery, SaveEvery, BatchGroups, GradAccum} \subseteq Nat \ {0}
ASSUME QueriesAssumption == IsFiniteSet(Queries) /\ Queries # {}
ASSUME OrdersAssumption ==
    /\ Orders \in Seq([1 .. Cardinality(Queries) -> Queries]) /\ Orders # <<>>
    /\ \A o \in Range(Orders) : IsInjective(o) /\ Range(o) = Queries
\* No score is as low as the -1 that best starts from, which is 0 here.
ASSUME QualitiesAssumption == Qualities \subseteq [0 .. MaxSteps -> Nat \ {0}]

VARIABLES
    quality,   \* RR@10 of the model after each step, on the held-out queries
    model,     \* in memory: the batches that made its weights, step, best, history
    last,      \* last/: the files in it, and the training state it was saved from
    lastTmp,   \* last.tmp/
    best,      \* best/: the weights it holds, or NoDir
    bestTmp    \* best.tmp/

trainVars == <<quality, model, last, lastTmp, best, bestTmp>>

\* Weights are the steps whose batches were applied, in order; the history is
\* the steps that were validated.
Fresh == [weights |-> <<>>, step |-> 0, best |-> 0, history |-> <<>>]
NoDir == <<-1>>
NoCheckpoint == [files |-> {}, state |-> Fresh]

TrainInit ==
    /\ quality \in Qualities
    /\ model = Fresh /\ last = NoCheckpoint /\ lastTmp = Fresh
    /\ best = NoDir /\ bestTmp = NoDir

\* GroupSampler.batch: slot i of step s is query s*B+i of the epoch orders.
Epoch(k) == (k \div Cardinality(Queries)) % Len(Orders)
Slot(k)  == Orders[Epoch(k) + 1][(k % Cardinality(Queries)) + 1]
Batch(s) == [i \in 1 .. BatchGroups |-> Slot(s * BatchGroups + i - 1)]
\* One optimizer step: grad_accum batches.
StepBatches(s) == [micro \in 1 .. GradAccum |-> Batch(s * GradAccum + micro - 1)]

Train(from, to) == Move(Trainer, from, to) /\ UNCHANGED lock

\* Faulty variant of Load: the weights are restored, the training state is not.
LoadWeightsOnly ==
    /\ Train("load", IF "state" \in last.files /\ "weights" \notin last.files THEN "off" ELSE "trainLock")
    /\ model' = IF "state" \in last.files THEN [Fresh EXCEPT !.weights = last.state.weights] ELSE Fresh
    /\ UNCHANGED <<quality, last, lastTmp, best, bestTmp>>

\* The start of train(): with --resume, which the script passes when it sees
\* last/trainer_state.pt, everything comes from last/, and without the weights
\* there the program fails; otherwise the base model.
Resumable == "state" \in last.files
Load ==
    /\ Train("load", IF Resumable /\ "weights" \notin last.files THEN "off" ELSE "trainLock")
    /\ model' = IF Resumable THEN last.state ELSE Fresh
    /\ UNCHANGED <<quality, last, lastTmp, best, bestTmp>>

\* Where the loop goes on: it evaluates at step 0, trains, and evaluates once
\* more at the end if the last step was not evaluated.
LoopStart == IF model.step = 0 THEN "eval" ELSE "loop"
EnterTraining ==
    /\ MPSEnter(Trainer, "trainLock", "trainOwner", LoopStart)
    /\ UNCHANGED trainVars
OptimizerStep ==
    /\ model.step < MaxSteps
    /\ Train("loop", IF (model.step + 1) % EvalEvery = 0 THEN "eval" ELSE "saveDue")
    /\ model' = [model EXCEPT !.weights = Append(@, model.step), !.step = @ + 1]
    /\ UNCHANGED <<quality, last, lastTmp, best, bestTmp>>
EndLoop ==
    /\ model.step >= MaxSteps
    /\ Train("loop", IF model.history = <<>> \/ Last(model.history) # model.step THEN "eval" ELSE "trained")
    /\ UNCHANGED trainVars

\* Faulty variant of Evaluate: the best score is not kept.
EvaluateForgetting ==
    /\ Train("eval", IF quality[model.step] > model.best THEN "bestTmp" ELSE "saveDue")
    /\ model' = [model EXCEPT !.history = Append(@, model.step)]
    /\ UNCHANGED <<quality, last, lastTmp, best, bestTmp>>

\* run_eval: the record is kept, and a better model replaces best/.
Evaluate ==
    /\ Train("eval", IF quality[model.step] > model.best THEN "bestTmp" ELSE "saveDue")
    /\ model' = [model EXCEPT !.history = Append(@, model.step), !.best = Max({@, quality[model.step]})]
    /\ UNCHANGED <<quality, last, lastTmp, best, bestTmp>>
SaveBest ==
    /\ \/ Train("bestTmp", "bestDrop") /\ bestTmp' = model.weights /\ UNCHANGED best
       \/ Train("bestDrop", "bestMove") /\ best' = NoDir /\ UNCHANGED bestTmp
       \/ Train("bestMove", "saveDue") /\ best' = bestTmp /\ bestTmp' = NoDir
    /\ UNCHANGED <<quality, model, last, lastTmp>>

\* save_last when it is due.
SaveDue ==
    /\ Train("saveDue", IF model.step > 0 /\ (model.step % SaveEvery = 0 \/ model.step = MaxSteps)
                        THEN "lastTmp" ELSE "loop")
    /\ UNCHANGED trainVars
WriteLastTmp ==
    /\ Train("lastTmp", "lastDrop")
    /\ lastTmp' = model
    /\ UNCHANGED <<quality, model, last, best, bestTmp>>
\* rmtree removes one file after the other, in the directory's order.
RemoveLastFile(from) ==
    /\ Train(from, from)
    /\ \E f \in last.files : last' = [last EXCEPT !.files = @ \ {f}]
    /\ UNCHANGED <<quality, model, lastTmp, best, bestTmp>>
RenameLast ==
    /\ last.files = {}
    /\ Train("lastDrop", "loop")
    /\ last' = [files |-> {"weights", "state"}, state |-> lastTmp]
    /\ lastTmp' = Fresh
    /\ UNCHANGED <<quality, model, best, bestTmp>>

\* The lock is given back; train_summary.json is written, and --drop-optimizer
\* removes last/.
LeaveTraining ==
    /\ MPSExit(Trainer, "trained", "trainRmdir", "dropLast")
    /\ UNCHANGED trainVars
DropLast ==
    /\ last.files = {}
    /\ Train("dropLast", "copySummary")
    /\ UNCHANGED trainVars

TrainingStep ==
    \/ Load \/ EnterTraining \/ OptimizerStep \/ EndLoop \/ Evaluate \/ SaveBest
    \/ SaveDue \/ WriteLastTmp \/ RemoveLastFile("lastDrop") \/ RenameLast
    \/ LeaveTraining \/ RemoveLastFile("dropLast") \/ DropLast

\* The slots of the batches a model was trained on, and how often a query was in one.
Slots(weights) == (1 .. Len(weights)) \X (1 .. GradAccum) \X (1 .. BatchGroups)
TimesSeen(q, weights) == Cardinality({t \in Slots(weights) : StepBatches(weights[t[1]])[t[2]][t[3]] = q})
FirstSteps(s) == [i \in 1 .. s |-> i - 1]

\* A model after s steps, in memory or in a checkpoint, was made by the batches
\* of steps 0 .. s-1, each once and in order, and so has seen every query
\* equally often up to one, however often it was resumed; and no step was
\* validated twice in the history it carries (train.py "the resumed run sees
\* the same data it would have").
Replayed(m) ==
    /\ m.weights = FirstSteps(m.step)
    /\ \A q, r \in Queries : TimesSeen(q, m.weights) <= TimesSeen(r, m.weights) + 1
    /\ \A i \in 2 .. Len(m.history) : m.history[i - 1] < m.history[i]
ResumeReplaysBatches ==
    /\ Replayed(model)
    /\ last.files # {} => Replayed(last.state)
    /\ best # NoDir => \E s \in 0 .. MaxSteps : best = FirstSteps(s)
==============================================================================
