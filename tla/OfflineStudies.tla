--------------------------- MODULE OfflineStudies ----------------------------
(***************************************************************************)
(* The offline studies side by side.  Each takes its inputs from runs,      *)
(* judgments and simulated users: tuning and comparing fusions              *)
(* (FusionStudy), building interleaved pages and their credit               *)
(* (Interleaving), learning to rank from logs (CounterfactualLtr) and       *)
(* preparing the reranker's data (HardNegatives) are computations, one step *)
(* here.  A simulated experiment (OnlineExperiment) writes events that      *)
(* reach the analyser in any order, again, or not at all; the sensitivity   *)
(* study (Sensitivity) fills and reuses a cache and may be killed, as may   *)
(* the preparation of the data that all of them read (DataPreparation) and  *)
(* the encoding of the LTR study's dense feature (FeatureCache).            *)
(***************************************************************************)
EXTENDS FusionStudy, Sensitivity, CounterfactualLtr, HardNegatives, DataPreparation, FeatureCache

CONSTANTS FusionInputs, DraftInputs, ExperimentInputs, LtrInputs, MiningInputs

\* The experiments' rankings are lists, their requests are numbered through, ids
\* are not empty, and random draws are not negative (simulate.py).
ASSUME LogsAssumption ==
    \A i \in ExperimentInputs :
        /\ i.control \in Seq(Range(i.control)) /\ i.treatment \in Seq(Range(i.treatment))
        /\ \A p \in i.requests :
              /\ p.request # None /\ p.experiment.id # None
              /\ \A r \in 1 .. PageLength : p.draws[r].click \in Nat
              /\ \A q \in i.requests : q.request = p.request => q = p

Computations == {"fusion", "drafts", "ltr", "mining"}
InputsOf(s) ==
    CASE s = "fusion" -> FusionInputs [] s = "drafts" -> DraftInputs
      [] s = "ltr" -> LtrInputs [] s = "mining" -> MiningInputs

\* The two runs of the fusion study are rankings, its judgments grades; the lists
\* it writes are as long as its metrics look (OUT_K is 1000).
ASSUME FusionAssumption ==
    OUT_K >= 2 /\ \A i \in FusionInputs :
        /\ IsFiniteSet(DOMAIN i.qrels)
        /\ \A q \in DOMAIN i.qrels : Numbered(DOMAIN i.qrels[q], i.qrels[q]) /\ Range(i.qrels[q]) \subseteq Nat
        /\ \A q \in DOMAIN i.lex : IsRanking(i.lex[q])
        /\ \A q \in DOMAIN i.dense : IsRanking(i.dense[q])

\* The reranker's data are of passages by number, with scores (mine.py, qrels).
ASSUME MiningAssumption == \A q \in MiningInputs : IsQuery(q)

VARIABLES
    study,     \* which of the studies this is
    input,     \* a singleton sequence with what it was given, at first empty
    result,    \* what its steps have computed so far, in order
    served,    \* the pages the simulated experiments have served
    arrived,   \* the events that have reached the analyser's log
    parsed     \* the pages it has put together from them
logVars == <<served, arrived, parsed>>
vars == <<study, input, result, logVars, studyVars, dataVars, featureVars>>

Init ==
    /\ study \in Computations \cup {"experiment", "sensitivity", "data", "features"}
    /\ input = <<>> /\ result = <<>> /\ served = {} /\ arrived = {} /\ parsed = NoMap
    /\ StudyInit /\ DataInit /\ FeatureInit
    /\ study # "sensitivity" => config = CHOOSE c \in Studies : TRUE

Begin ==
    /\ study \in Computations /\ input = <<>>
    /\ \E i \in InputsOf(study) : input' = <<i>>
    /\ UNCHANGED <<study, result, logVars, studyVars, dataVars, featureVars>>
\* The n-th step of a computation.
Step(s, n, value) ==
    /\ study = s /\ input # <<>> /\ Len(result) = n - 1
    /\ result' = Append(result, value)
    /\ UNCHANGED <<study, input, logVars, studyVars, dataVars, featureVars>>

\* m4_fusion.main: tuning, the held-out evaluation, the comparisons.
TunedMetric == Metric("nDCG", 2, 1)
Flips == LET queries == DOMAIN input[1].qrels IN SetToSeq([queries -> {-1, 1}])
One == Len(Flips) + 1
Tune == Step("fusion", 1, Systems(input[1], TunedMetric))
EvaluateHeldOut == Step("fusion", 2, PerQuery(result[1], input[1], TunedMetric))
CompareSystems == Step("fusion", 3, compare(Family(result[1], result[2]), Flips, One \div 2, One))

\* The pool of a query's interleavings.
MakePool == Step("drafts", 1, precompute_team_draft(input[1].a, input[1].b, input[1].k))

\* m9_ltr.main: the sets, the logs of every kind, the estimates.
BuildSets == Step("ltr", 1, real_sets(input[1].files, input[1].opts))
LogClicks == Step("ltr", 2, all_logs(LoggedLists(result[1].train), LoggerOrders(result[1].train)))
Estimate == Step("ltr", 3, estimates(result[2]))

MineQuery == Step("mining", 1, mine(input[1]))

\* m9_simulate_events.main: the pages of every session of every experiment.
Simulate ==
    /\ study = "experiment" /\ input = <<>>
    /\ \E i \in ExperimentInputs :
          /\ input' = <<i>>
          /\ served' = {PageOf(p.experiment, p.session, p.request, i.control, i.treatment, p.coins, p.draws, i.judged) :
                           p \in i.requests}
    /\ UNCHANGED <<study, result, arrived, parsed, studyVars, dataVars, featureVars>>
\* pages_from_events reads an event: any that was sent, in any order, or again.
Arrive ==
    /\ study = "experiment"
    /\ \E p \in served : \E e \in impression_events(p) :
          arrived' = arrived \cup {e} /\ parsed' = ReadEvent(parsed, e)
    /\ UNCHANGED <<study, input, result, served, studyVars, dataVars, featureVars>>

Cells ==
    /\ study = "sensitivity"
    /\ StudyStep \/ RunAgain
    /\ UNCHANGED <<study, input, result, logVars, dataVars, featureVars>>
PrepareData ==
    /\ study = "data"
    /\ DataStep \/ RunDataAgain
    /\ UNCHANGED <<study, input, result, logVars, studyVars, featureVars>>
EncodeFeature ==
    /\ study = "features"
    /\ FeatureStep
    /\ UNCHANGED <<study, input, result, logVars, studyVars, dataVars>>

Next ==
    \/ Begin
    \/ Tune \/ EvaluateHeldOut \/ CompareSystems
    \/ MakePool
    \/ BuildSets \/ LogClicks \/ Estimate
    \/ MineQuery
    \/ Simulate \/ Arrive \/ Cells \/ PrepareData \/ EncodeFeature
Spec == Init /\ [][Next]_vars
------------------------------------------------------------------------------
\* The study has been through n steps.
Through(s, n) == study = s /\ input # <<>> /\ Len(result) = n

\* What the fusion study reports is what it tuned: every configuration's swept
\* value is that of the file written for it, the vectorised and the reference
\* fusion list the same documents with the same scores, files sort back into the
\* order they were written in, no document passes one that both lists have above
\* it, and the click studies' fusion is the same one.  Of the comparisons, those
\* are significant that the sequential rule rejects, and a test of two systems
\* without a difference is significant no more often than its level
\* (m4_fusion.py sweep, check_fast_vs_reference, significance; runs.py).
FusionAsReported ==
    Through("fusion", 3) =>
        LET data == input[1]
            systems == result[1]
            values == result[2]
            rows == result[3]
            family == Family(systems, values)
            queries == DOMAIN data.qrels
            p == [i \in DOMAIN rows |-> rows[i].p]
            rejected == SequentiallyRejected(p, One \div 2)
        IN  /\ ReportedAsSwept(data, TunedMetric) /\ ReportedAsSwept(data, Metric("RR", 2, 1))
            /\ Mismatches(systems, data) = {}
            /\ \A q \in queries :
                  /\ \A c \in Range(Configs) : ReproducesOrder(Fused(c, data, q))
                  /\ DominanceKept(data, q)
                  /\ Sorted(RRFScores(<<ScoresOf(data.lex, q), ScoresOf(data.dense, q)>>, DefaultK, DEPTH))
                        = Order(rrf(Ranking(data.lex, q), Ranking(data.dense, q), DefaultK, 2 * DEPTH))
            /\ HolmIsSequential(p, One \div 2, One)
            /\ \A i \in DOMAIN family :
                  /\ Alignable(family[i].a, family[i].b)
                  /\ rows[i].significant <=> i \in rejected
                  /\ RandomizationIsValid(Differences(family[i].a, family[i].b), Flips)
            /\ \A h \in {"rrf_tuned", "wsum_tuned", "rrf_k60"} :
                  HeadlineRow(h, systems, values) \in {family[i].name : i \in DOMAIN family}

\* Interleaving favours neither ranking, in the pages it makes and in the credit
\* it gives, and its vectorised forms give what the scalar ones do; the power
\* computed from it is honest, and its N80 keeps the order of such powers
\* (interleave.py; sensitivity.py).
InterleavingIsFair ==
    Through("drafts", 1) =>
        LET a == input[1].a
            b == input[1].b
            k == input[1].k
            pair == build_pair(a, b, k, input[1].judged)
            w == pool_interleave(pair.tdi, input[1].users)
            power(n) == power_interleave(w, n, w[1] >= w[-1])
            curve == [i \in 1 .. 3 |-> (100 * power(2 * i).correct) \div power(2 * i).all]
        IN  /\ DraftsWellFormed(a, b, k) /\ DraftsFair(a, b, k)
            /\ BalancedMix(a, b, k)
            /\ PoolsAgree(result[1], a, b, k)
            /\ MarginalCreditExact(a, b, k)
            /\ \A n \in 1 .. 6 : PowerHonest(w, n)
            /\ a = b => w[1] = w[-1]
            /\ SignTestIsValid(2 * k)
            /\ PoolingIsExact(pair, input[1].users, k)
            /\ \A more \in {0, 5, 30}, target \in {1, 5, 20} :
                  N80Ordered(curve, [i \in 1 .. 3 |-> curve[i] + more], target)

\* Whatever of its events is lost, late or delivered again, a page is credited by
\* the teams it was served with for the clicks that arrived with their
\* impression, and the complete log gives the report of what was served
\* (events.py, analyze_events.py, ab.py).
LogIsReported ==
    Through("experiment", 0) => ReportFollowsLog(served, arrived, parsed, input[1].config)

\* The cells and the A/A tests that a killed and repeated study reports are those a
\* fresh one would; a validation is one that some study with the same key for it
\* would report; and rankers are compared within a collection (m9_sensitivity.py).
StudyAsFresh ==
    study = "sensitivity" => CachedAsFresh /\ OneWorld

\* The labels learned from logs are free of position bias wherever the code says
\* the bias is identified, and the sets and metrics they are judged by are
\* comparable (logsim.py, ltr/data.py, ltr/model.py, m9_ltr.py).
LtrIsUnbiased ==
    Through("ltr", 3) =>
        /\ SetsAreComparable(result[1], input[1].files, input[1].theta, input[1].k)
        /\ LogsIdentifyBias(result[2], result[3])
        /\ FitIsMonotone(input[1].est, input[1].support)

\* The reranker is trained on clean groups, from an exact search, and judged on
\* the candidates it was given, at every depth (mine.py, sampler.py, rerank_run.py,
\* cascade.py).
TrainingDataIsClean ==
    Through("mining", 1) =>
        LET q == input[1] IN
        /\ NegativesAreClean(q, result[1])
        /\ TopKIsExact(q.dense, DenseDepth)
        /\ EncodedInOrder([i \in 1 .. Cardinality(DOMAIN q.dense) |-> q.dense[Ordered(DOMAIN q.dense, <)[i]]])
        /\ \A depth \in 1 .. 3 :
              LET firstStage == [s \in {2, 10} |-> IF s = 2 THEN HitScores(q) ELSE q.dense]
                  qrels == [n \in {2, 10} |-> q.judged]
                  pairs == UNION {{s} \X DOMAIN firstStage[s] : s \in {2, 10}}
                  length == [p \in pairs |-> (p[1] + p[2]) % 4]
                  reverse == [p \in pairs |-> -firstStage[p[1]][p[2]]]
              IN  /\ RerankIsComparable(firstStage, qrels, depth, length)
                  /\ CascadeIsComparable(firstStage, qrels, depth, length)
                  /\ CascadeIsComparable(firstStage, qrels, depth, reverse)
                  /\ \A n \in {1, 2} :
                        ValidatedAsEvaluated([s \in {2, 10} |-> Sorted(firstStage[s])], qrels, n, depth, length)
==============================================================================
