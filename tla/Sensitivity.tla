----------------------------- MODULE Sensitivity -----------------------------
(***************************************************************************)
(* The study of how many impressions an online method needs: the power of   *)
(* the tests (clicks/sensitivity.py), and the study itself                  *)
(* (scripts/m9_sensitivity.py), which caches every cell and may be stopped  *)
(* and run again with other inputs.  Probabilities are weights; a trial's   *)
(* random counts are replaced by all counts there are, each with its weight. *)
(***************************************************************************)
EXTENDS OnlineExperiment, ClickRankers
------------------------------------------------------------------------------
(* Power.  A user clicks the documents whose grade is at least the user's       *)
(* demand; a pool takes the users of `users` as equally likely.                  *)

\* build_pair, for one topic: the lists' grades, and the pages of the team draft
\* with theirs; an empty slot has the grade -1, which no user clicks.
Grades(l, k, judged) == Pad([i \in 1 .. Len(Top(l, k)) |-> Grade(judged, l[i])], k, -1)
build_pair(a, b, k, judged) ==
    [a |-> Grades(a, k, judged), b |-> Grades(b, k, judged),
     tdi |-> {[grades |-> [i \in 1 .. k |-> IF e.docs[i] = NoDoc THEN -1 ELSE Grade(judged, e.docs[i])]] @@ e :
                 e \in precompute_team_draft(a, b, k)}]
Clicks(grades, user) == [i \in DOMAIN grades |-> grades[i] >= user]
Outcome(e, user) == team_draft_outcome_batch(e.teams, Clicks(e.grades, user))
\* pool_interleave: the weight of each outcome.
pool_interleave(entries, users) ==
    [x \in {-1, 0, 1} |->
        MapThenSumSet(LAMBDA p : p[1].prob, {p \in entries \X users : Outcome(p[1], p[2]) = x})]
\* ab_codes, ab_values: each metric of a page as an index into its values.
ab_codes(clicks) ==
    LET at == {i \in DOMAIN clicks : clicks[i]} IN
    [ctr |-> Cardinality(at), clicks_at_1 |-> IF 1 \in at THEN 1 ELSE 0,
     abandonment |-> IF at = {} THEN 1 ELSE 0, rr_first |-> IF at = {} THEN 0 ELSE Min(at)]
ab_values(k) ==
    [ctr |-> [c \in 0 .. k |-> c], clicks_at_1 |-> [c \in {0, 1} |-> c], abandonment |-> [c \in {0, 1} |-> c],
     rr_first |-> [c \in 0 .. k |-> IF c = 0 THEN 0 ELSE Unit \div c]]
\* pool_ab: the weight of each code of a metric; a Dist has only those that came.
pool_ab(grades, users, m) ==
    LET code(u) == ab_codes(Clicks(grades, u))[m] IN
    [c \in {code(u) : u \in users} |-> Cardinality({u \in users : code(u) = c})]

\* A trial of n impressions: how often each outcome came, and its weight (0^0 is 1).
Power(x, n) == IF n = 0 THEN 1 ELSE x ^ n
Counts(w, n) == {c \in [DOMAIN w -> 0 .. n] : MapThenSumSet(LAMBDA x : c[x], DOMAIN w) = n}
TrialWeight(w, c) ==
    FoldSet(LAMBDA x, acc : [left |-> acc.left - c[x], all |-> acc.all * choose(acc.left, c[x]) * Power(w[x], c[x])],
            [left |-> MapThenSumSet(LAMBDA x : c[x], DOMAIN w), all |-> 1], DOMAIN w).all
\* power_interleave at one n: significant at 5% and in the direction that is
\* right offline, or in the other one.
Significant(c) == 20 * sign_test_p(c[1], c[-1]) < 2 ^ (c[1] + c[-1])
power_interleave(w, n, aIsBetter) ==
    LET better == IF aIsBetter THEN 1 ELSE -1
        toward(x) == {c \in Counts(w, n) : Significant(c) /\ Winner(c[1], c[-1]) = x}
        total(C) == MapThenSumSet(LAMBDA c : TrialWeight(w, c), C)
    IN  [correct |-> total(toward(better)), wrong |-> total(toward(-better)), all |-> total(Counts(w, n))]

\* power_ab at one n, of counts of codes: the direction of a trial, 0 where
\* welch_p is not below 5% (z^2 at most 3.84, and equal means where no value varies).
Moment(c, value, i) == MapThenSumSet(LAMBDA x : c[x] * value[x] ^ i, DOMAIN c)
WelchDirection(ca, cb, na, nb, value) ==
    LET sum(c) == Moment(c, value, 1)
        spread(c, n) == n * Moment(c, value, 2) - sum(c) ^ 2
        gap == nb * sum(ca) - na * sum(cb)
    IN  IF 100 * gap ^ 2 * (na - 1) * (nb - 1)
            > 384 * (nb ^ 2 * (nb - 1) * spread(ca, na) + na ^ 2 * (na - 1) * spread(cb, nb))
        THEN Winner(gap, 0) ELSE 0
HigherIsBetter(m) == m # "abandonment"
power_ab(m, da, db, n, k, aIsBetter) ==
    LET na == Max({n \div 2, 2})
        nb == Max({n - na, 2})
        better == IF aIsBetter <=> HigherIsBetter(m) THEN 1 ELSE -1
        rate(x) == MapThenSumSet(LAMBDA p : TrialWeight(da, p[1]) * TrialWeight(db, p[2]),
                                 {p \in Counts(da, na) \X Counts(db, nb) :
                                      WelchDirection(p[1], p[2], na, nb, ab_values(k)[m]) = x})
    IN  [correct |-> rate(better), wrong |-> rate(-better), neither |-> rate(0)]

\* direct_interleave_pvalues, direct_ab_pvalues: a trial is n pages, each drawn
\* anew with its user; what comes of a trial, with its weight.
Tally(s, values) == [x \in values |-> Cardinality({i \in DOMAIN s : s[i] = x})]
direct_interleave(entries, users, n, c) ==
    MapThenSumSet(LAMBDA t : FoldSeq(LAMBDA p, acc : acc * p[1].prob, 1, t),
                  {t \in [1 .. n -> entries \X users] :
                      Tally([i \in 1 .. n |-> Outcome(t[i][1], t[i][2])], {-1, 0, 1}) = c})
direct_ab(m, a, b, users, n, k, x) ==
    LET na == n \div 2
        nb == n - na
        codes(g, t) == Tally([i \in DOMAIN t |-> ab_codes(Clicks(g, t[i]))[m]], DOMAIN ab_values(k)[m])
    IN  Cardinality({t \in [1 .. na -> users] \X [1 .. nb -> users] :
                        WelchDirection(codes(a, t[1]), codes(b, t[2]), na, nb, ab_values(k)[m]) = x})

\* n_at_power: the first grid point where the isotonic fit of the power reaches
\* the target, and the one before it, between which the code interpolates.
Average(s, i, j) == (Unit * FoldSeq(+, 0, SubSeq(s, i, j))) \div (j - i + 1)
IsotonicFit(s) ==
    [i \in DOMAIN s |-> Max({Min({Average(s, j, l) : l \in i .. Len(s)}) : j \in 1 .. i})]
NotReached == <<>>
n_at_power(power, target) ==
    LET hit == {i \in DOMAIN power : IsotonicFit(power)[i] >= Unit * target} IN
    IF hit = {} THEN NotReached ELSE <<Max({1, Min(hit) - 1}), Min(hit)>>
------------------------------------------------------------------------------
(* The study.  The inputs of a run are the real runs that discover_real_runs   *)
(* found, in order, each a score per document of the topic; the pool size M,   *)
(* the trials, the trials of a validation (fewer with --quick) and the seed.   *)
(* A ranker's name is the words in it, and the noise of a synthetic one.  A    *)
(* cell's N80 under team draft, its smallest N80 of an A/B metric with the     *)
(* metric, what is significant offline, and the random noise are abstracted    *)
(* into constants; so are the judgments, Topic, which no key has.              *)
CONSTANTS Topic, Sigmas, Noise, Models, ValidatedModels, ValidatedSigma, OfflineSignificant(_, _),
          TdiN80(_), BestAB(_), StudyInputs, Studies, MaxReruns

\* The models and the oracles are lists, the first oracle one of them; judgments,
\* noise and runs are finite, and numbers; no run is named like an oracle
\* (rankers.py "They are labelled synthetic-* everywhere").
ASSUME RankersAssumption ==
    /\ Models \in Seq(Range(Models)) /\ Sigmas \in Seq(Range(Sigmas)) /\ Sigmas # <<>>
    /\ IsFiniteSet(DOMAIN Topic) /\ DOMAIN Topic \subseteq Nat /\ Range(Topic) \subseteq Int
    /\ Noise \in Seq(Int) /\ PageLength \in 1 .. Len(Discount)
    /\ \A i \in StudyInputs :
          /\ i.real \in Seq(Range(i.real))
          /\ \A r \in Range(i.real) : IsFiniteSet(DOMAIN r.run) /\ "synthetic" \notin r.name.words

Name(words, sigma) == [words |-> words, sigma |-> sigma]
Synthetic(sigma) == Name({"synthetic"}, sigma)
world(n) == IF "synthetic" \in n.words THEN "synthetic" ELSE IF "1m" \in n.words THEN "1m" ELSE "full"

\* Which BM25 run the first dense one is fused with: one of its world; if no run
\* of BM25 covers the 1M passages, the full one restricted to them.
FusedWith(names, bm25, dense) ==
    LET same == Where(names, LAMBDA n : "bm25" \in n.words /\ world(n) = world(dense)) IN
    IF world(dense) = "1m" /\ ~\E n \in Range(names) : {"bm25", "1m"} \subseteq n.words
    THEN Name(bm25.words \cup {"filtered", "1m"}, 0)
    ELSE IF same = <<>> THEN bm25 ELSE Head(same)
\* load_rankers: the real runs, the restricted and the fused one, the noisy oracles.
load_rankers(input) ==
    LET real == [i \in DOMAIN input.real |-> input.real[i].name]
        runOf(n) == input.real[CHOOSE i \in DOMAIN real : real[i] = n].run
        bm25s == Where(real, LAMBDA n : "bm25" \in n.words /\ "1m" \notin n.words)
        denses == Where(real, LAMBDA n : "dense" \in n.words /\ "rrf" \notin n.words)
        part == FusedWith(real, Head(bm25s), Head(denses))
        kept == [d \in DOMAIN runOf(Head(bm25s)) \cap input.subset |-> runOf(Head(bm25s))[d]]
        partRun == IF part \in Range(real) THEN runOf(part) ELSE kept
        fused == <<[name |-> Name(part.words \cup Head(denses).words \cup {"rrf"}, 0), of |-> <<part, Head(denses)>>,
                    run |-> RRFScores(<<partRun, runOf(Head(denses))>>, 2, PageLength)]>>
        restricted == IF part \in Range(real) THEN <<>> ELSE <<[name |-> part, of |-> <<>>, run |-> partRun]>>
    IN  [i \in DOMAIN input.real |-> [name |-> input.real[i].name, of |-> <<>>, run |-> input.real[i].run]]
        \o (IF bm25s = <<>> \/ denses = <<>> THEN <<>> ELSE restricted \o fused)
        \o [i \in DOMAIN Sigmas |-> [name |-> Synthetic(Sigmas[i]), of |-> <<>>,
                                     run |-> NoisyOracle(Topic, Sigmas[i], Noise, Len(Noise))]]
\* The inputs with the table: the rankers' names and lists, in order.
Table(input) ==
    LET rankers == load_rankers(input)
        runs == [n \in {rankers[i].name : i \in DOMAIN rankers} |->
                    <<(CHOOSE r \in Range(rankers) : r.name = n).run>>]
        lists == build_table(runs, <<Topic>>, PageLength)
    IN  [M |-> input.M, trials |-> input.trials, vt |-> input.vt, seed |-> input.seed,
         names |-> [i \in DOMAIN rankers |-> rankers[i].name],
         parts |-> {rankers[i].of : i \in DOMAIN rankers} \ {<<>>},
         lists |-> [n \in DOMAIN runs |-> lists[n][1]],
         ndcg |-> [n \in DOMAIN runs |-> TableNdcg(lists[n][1], Topic, PageLength)]]
ListsOf(c, r) == c.lists[r]
Quality(c, r) == c.ndcg[r]
ByQuality(c, w) ==
    LET rs == Where(c.names, LAMBDA n : world(n) = w)
        order == Ordered(DOMAIN rs, LAMBDA i, j : Ahead(Quality(c, rs[i]), Quality(c, rs[j]), i < j))
    IN  [i \in DOMAIN rs |-> rs[order[i]]]
\* choose_pairs: neighbours by offline quality within a world, and its best
\* against its worst; of the synthetic rankers the first against each other one.
PairsOf(c, w) ==
    LET rs == ByQuality(c, w)
        neighbours == [i \in 1 .. Max({0, Len(rs) - 1}) |-> <<rs[i], rs[i + 1]>>]
    IN  IF Len(rs) > 2 THEN Append(neighbours, <<rs[1], rs[Len(rs)]>>) ELSE neighbours
choose_pairs(c) ==
    PairsOf(c, "1m") \o PairsOf(c, "full")
    \o [i \in 1 .. Len(Sigmas) - 1 |-> <<Synthetic(Sigmas[1]), Synthetic(Sigmas[i + 1])>>]
\* A pair with identical lists is skipped, each other one has a cell per model;
\* then the A/A test of the first BM25 run, or else of the first oracle; then the
\* cells to validate: some models, one oracle, pairs with a known order.
Jobs(kind, pairs, models) ==
    FlattenSeq([i \in DOMAIN pairs |-> [j \in DOMAIN models |->
        [kind |-> kind, pair |-> pairs[i], model |-> models[j]]]])
AARanker(c) ==
    LET bm25s == Where(c.names, LAMBDA n : "bm25" \in n.words /\ "rrf" \notin n.words) IN
    IF bm25s = <<>> THEN Synthetic(Sigmas[1]) ELSE Head(bm25s)
ToValidate(c, pair) ==
    /\ world(pair[1]) = "synthetic" => pair[2] = Synthetic(ValidatedSigma)
    /\ OfflineSignificant(Quality(c, pair[1]), Quality(c, pair[2]))
PlanOf(c) ==
    LET pairs == Where(choose_pairs(c), LAMBDA p : ListsOf(c, p[1]) # ListsOf(c, p[2])) IN
    Jobs("cell", pairs, Models) \o Jobs("aa", <<<<AARanker(c), AARanker(c)>>>>, Models)
    \o Jobs("val", Where(pairs, LAMBDA p : ToValidate(c, p)),
             Where(Models, LAMBDA m : m \in ValidatedModels))
\* Everything a run starts from, once per input.  Studies is this set, as a
\* constant: the steps below only choose from it.
StudiesOf(inputs) ==
    {[plan |-> PlanOf(c), M |-> c.M, trials |-> c.trials, vt |-> c.vt, seed |-> c.seed, names |-> c.names,
      parts |-> c.parts, lists |-> c.lists, ndcg |-> c.ndcg] : c \in {Table(i) : i \in inputs}}
ASSUME StudiesAssumption == Studies = StudiesOf(StudyInputs)

\* What ab_pool, a cell, an A/A test and a validation compute depends on their
\* arguments and on a random stream that sub_rng gives them by name and seed.
Pool(c, r, model) == [of |-> r, model |-> model, M |-> c.M, seed |-> c.seed, lists |-> ListsOf(c, r)]
PairLists(c, job) == <<ListsOf(c, job.pair[1]), ListsOf(c, job.pair[2])>>
Cell(c, job, its) ==
    [job |-> job, M |-> c.M, seed |-> c.seed, trials |-> c.trials, pools |-> its, lists |-> PairLists(c, job)]
AATest(c, job) == [job |-> job, seed |-> c.seed, lists |-> PairLists(c, job)]
\* Fresh clicks at the two N80s of the cell; which ranker should win is the lists'.
Validation(c, job, cell) ==
    [job |-> job, trials |-> c.vt, seed |-> c.seed, tdi |-> TdiN80(cell), ab |-> BestAB(cell),
     lists |-> PairLists(c, job)]
\* Faulty variant of CellKey: the number of trials is left out.
CellKeyWithoutTrials(c, job) == <<job, c.M, c.seed, PairLists(c, job)>>
\* The keys of their files; that of a validation has neither its lists nor the
\* N80 of an A/B metric.
PoolKey(c, r, model) == <<"ab", r, model, c.M, c.seed, ListsOf(c, r)>>
CellKey(c, job) == <<job, c.M, c.trials, c.seed, PairLists(c, job)>>
AAKey(c, job) == <<job, c.seed, PairLists(c, job)>>
ValidationKey(c, job, cell) == <<job, c.vt, c.seed, TdiN80(cell)>>
------------------------------------------------------------------------------
VARIABLES
    config,    \* what the present run started from
    plan,      \* its jobs still to be done, in order
    results,   \* its results so far
    pools,     \* the A/B pools at hand for the first job of the plan
    cells,     \* the cache: what is in the file of each key
    writing,   \* the file being written and its contents, or NoFile
    reruns     \* how often it was run again, at most MaxReruns times
studyVars == <<config, plan, results, pools, cells, writing, reruns>>

\* A file that was opened and never written.
Torn == [torn |-> TRUE]
NoFile == [key |-> <<>>]
Write(key, value) ==
    cells' = Put(cells, key, Torn) /\ writing' = [key |-> key, value |-> value]
\* The cell that a validation is about, among the results.
CellOf(job) == CHOOSE r \in Range(results) : r.job = [job EXCEPT !.kind = "cell"]
KeyOf(job) ==
    CASE job.kind = "cell" -> CellKey(config, job) [] job.kind = "aa" -> AAKey(config, job)
      [] job.kind = "val" -> ValidationKey(config, job, CellOf(job))

StudyInit ==
    /\ config \in Studies /\ plan = config.plan
    /\ results = <<>> /\ pools = <<>> /\ cells = [k \in {} |-> Torn] /\ writing = NoFile /\ reruns = 0
\* A cached result is taken as it is; a torn file ends the run.
LoadCell ==
    /\ plan # <<>> /\ writing = NoFile /\ pools = <<>>
    /\ LET key == KeyOf(Head(plan)) IN
       /\ key \in DOMAIN cells
       /\ IF cells[key] = Torn THEN plan' = <<>> /\ UNCHANGED results
          ELSE plan' = Tail(plan) /\ results' = Append(results, cells[key])
    /\ UNCHANGED <<config, pools, cells, writing, reruns>>
\* A new cell needs the pools of both rankers, from their files or computed.
FetchPool ==
    /\ plan # <<>> /\ writing = NoFile /\ Len(pools) < 2
    /\ Head(plan).kind = "cell" /\ KeyOf(Head(plan)) \notin DOMAIN cells
    /\ LET r == Head(plan).pair[Len(pools) + 1]
           key == PoolKey(config, r, Head(plan).model)
           pool == Pool(config, r, Head(plan).model)
       IN  IF key \notin DOMAIN cells
           THEN Write(key, pool) /\ pools' = Append(pools, pool) /\ UNCHANGED plan
           ELSE /\ IF cells[key] = Torn THEN plan' = <<>> /\ pools' = <<>>
                   ELSE pools' = Append(pools, cells[key]) /\ UNCHANGED plan
                /\ UNCHANGED <<cells, writing>>
    /\ UNCHANGED <<config, results, reruns>>
Report(value) ==
    /\ results' = Append(results, value) /\ Write(KeyOf(Head(plan)), value)
    /\ plan' = Tail(plan) /\ pools' = <<>>
    /\ UNCHANGED <<config, reruns>>
ComputeCell ==
    /\ plan # <<>> /\ writing = NoFile /\ Len(pools) = 2
    /\ Report(Cell(config, Head(plan), pools))
\* The A/A tests and the validations simulate their own clicks.
ComputeDirectly ==
    /\ plan # <<>> /\ writing = NoFile /\ Head(plan).kind # "cell"
    /\ KeyOf(Head(plan)) \notin DOMAIN cells
    /\ Report(IF Head(plan).kind = "aa" THEN AATest(config, Head(plan))
              ELSE Validation(config, Head(plan), CellOf(Head(plan))))
FinishWrite ==
    /\ writing # NoFile
    /\ cells' = [cells EXCEPT ![writing.key] = writing.value]
    /\ writing' = NoFile
    /\ UNCHANGED <<config, plan, results, pools, reruns>>
\* The study is run again, after its end or a crash, perhaps with other inputs.
RunAgain ==
    /\ reruns < MaxReruns /\ reruns' = reruns + 1
    /\ config' \in Studies /\ plan' = config'.plan
    /\ results' = <<>> /\ pools' = <<>> /\ writing' = NoFile
    /\ UNCHANGED cells
StudyStep == LoadCell \/ FetchPool \/ ComputeCell \/ ComputeDirectly \/ FinishWrite
------------------------------------------------------------------------------
(* What they promise. *)

\* The cell and the validation of a run without a cache.
FreshCell(c, job) == Cell(c, job, [n \in {1, 2} |-> Pool(c, job.pair[n], job.model)])
FreshValidation(c, job) == Validation(c, job, FreshCell(c, [job EXCEPT !.kind = "cell"]))
\* A cell and an A/A test are those a run without a cache would have computed,
\* whatever was cached before by runs with other inputs and wherever those were
\* killed (m9_sensitivity.py "a cell's result does not depend on which other pairs
\* are in the study, so cells can be cached and reused").  Of a validation this
\* holds only as far as its key goes: it is what some study with the same trials,
\* seed and N80 of team draft would compute, perhaps of other lists and with
\* another A/B N80 (ValidationsAreFresh).
CachedAsFresh ==
    \A i \in DOMAIN results :
        LET job == config.plan[i]
            r == results[i]
        IN  CASE job.kind = "cell" -> r = FreshCell(config, job)
              [] job.kind = "aa" -> r = AATest(config, job)
              [] job.kind = "val" ->
                    /\ r.tdi = TdiN80(CellOf(job))
                    /\ \E d \in Studies : /\ job \in Range(d.plan) /\ r = FreshValidation(d, job)
                                          /\ d.vt = config.vt /\ d.seed = config.seed
\* "per-cell cache (keyed by every input)" (m9_sensitivity.py:44): a validation that
\* is reported, too, is the one a run without a cache would have computed.
ValidationsAreFresh ==
    \A i \in DOMAIN results :
        LET job == config.plan[i] IN job.kind = "val" => results[i] = FreshValidation(config, job)
\* Rankers are compared, and runs fused, only within one collection
\* (m9_sensitivity.py world).
OneWorld ==
    /\ \A i \in DOMAIN config.plan : world(config.plan[i].pair[1]) = world(config.plan[i].pair[2])
    /\ \A p \in config.parts : world(p[1]) = world(p[2])

\* The power that is reported is honest: a comparison without a difference is
\* found significant in at most one trial of 20, one with a difference points the
\* wrong way in at most one of 40, and which ranker is called A does not matter.
PowerHonest(w, n) ==
    LET p == power_interleave(w, n, TRUE)
        q == power_interleave([w EXCEPT ![1] = w[-1], ![-1] = w[1]], n, FALSE)
    IN  /\ p = q
        /\ w[1] = w[-1] => 20 * (p.correct + p.wrong) <= p.all
        /\ w[1] >= w[-1] => 40 * p.wrong <= p.all
\* Pooling changes nothing: a trial that is drawn from the pool's counts comes out
\* as one that simulates every impression; the indices of the A/B metrics have the
\* metrics' values; and neither which ranker is called A nor which direction is
\* better changes the power of the A/B test (sensitivity.py "a trial of size N is
\* exactly a multinomial draw").
PoolingIsExact(pair, users, k) ==
    LET w == pool_interleave(pair.tdi, users) IN
    /\ \A c \in Counts(w, 2) : direct_interleave(pair.tdi, users, 2, c) = TrialWeight(w, c)
    /\ \A m \in MetricNames :
          LET da == pool_ab(pair.a, users, m)
              db == pool_ab(pair.b, users, m)
              p(n) == power_ab(m, da, db, n, k, TRUE)
          IN  /\ \A n \in {4, 5} :
                    /\ direct_ab(m, pair.a, pair.b, users, n, k, IF HigherIsBetter(m) THEN 1 ELSE -1) = p(n).correct
                    /\ direct_ab(m, pair.a, pair.b, users, n, k, 0) = p(n).neither
              /\ power_ab(m, db, da, 4, k, FALSE) = p(4)
              /\ pair.a = pair.b => p(4).correct = p(4).wrong
    /\ \A u \in users :
          LET clicks == Clicks(pair.a, u)
              metrics == impression_metrics({i \in DOMAIN clicks : clicks[i]})
          IN  k <= PageLength => \A m \in MetricNames : ab_values(k)[m][ab_codes(clicks)[m]] = metrics[m]
\* The N80 of a curve that rises is where it reaches the target, and a method
\* with more power at every N never has the larger N80.
N80Ordered(power, more, target) ==
    LET n(s) == n_at_power(s, target) IN
    /\ (\A i \in 2 .. Len(power) : power[i - 1] <= power[i]) =>
          n(power) = LET hit == {i \in DOMAIN power : power[i] >= target} IN
                     IF hit = {} THEN NotReached ELSE <<Max({1, Min(hit) - 1}), Min(hit)>>
    /\ (\A i \in DOMAIN power : power[i] <= more[i]) /\ n(power) # NotReached =>
          n(more) # NotReached /\ n(more)[2] <= n(power)[2]
==============================================================================
