-------------------------- MODULE CounterfactualLtr --------------------------
(***************************************************************************)
(* Learning to rank from the clicks of a production ranker: the data sets   *)
(* (ltr/data.py), the logs with randomised interventions and what is        *)
(* estimated from them (ltr/logsim.py), the ranker (ltr/model.py) and the   *)
(* study (scripts/m9_ltr.py).  Logs are expected logs: a click counts its   *)
(* probability, a display its weight out of Session.  Propensities are      *)
(* integers, times Unit; a list is the grades of one query's candidates in  *)
(* the order the logging ranker shows them.  What the optimiser makes of    *)
(* the label weights is left out.                                           *)
(***************************************************************************)
EXTENDS OnlineExperiment, ClickRankers

\* Candidates shown (K), and the window that `randtop` shuffles.
CONSTANTS Displayed, RandTopN
ASSUME WindowAssumption == Displayed \in Nat /\ RandTopN \in 1 .. Displayed

Half == 12
Session == 2 * Half
NoData == -1
Slots == 1 .. Displayed

\* PBM of severity 1: examined with eta, attracted by grade; empty slots never.
Eta(r) == Unit \div r
Attraction(list, i) == IF i <= Len(list) THEN Lookup(Alpha, list[i]) ELSE 0
------------------------------------------------------------------------------
(* Logs. *)

AsRanked == [r \in Slots |-> r]
\* Faulty variant of Swapped: the first candidate is replaced, not exchanged.
Replaced(k) == [AsRanked EXCEPT ![1] = k]
Swapped(k) == [AsRanked EXCEPT ![1] = k, ![k] = 1]
Shuffled == {p \in Permutations(Slots) : \A r \in Slots : r > RandTopN => p[r] = r}
Display(kind, perm, weight, k, swapped) ==
    [kind |-> kind, perm |-> perm, weight |-> weight, k |-> k, swapped |-> swapped]
\* simulate_logs, what a query's sessions show: half of those that may be
\* intervened with are (eps).  randtop shuffles only lists that fill its window;
\* swap draws k among the real candidates, and swaps or keeps the order evenly.
Displays(list, intervention) ==
    LET kmax == Min({Len(list), Displayed}) IN
    CASE intervention = "randtop" /\ Len(list) >= RandTopN ->
            {Display("plain", AsRanked, Half, 0, FALSE)}
            \cup {Display("randtop", p, Half \div Cardinality(Shuffled), 0, FALSE) : p \in Shuffled}
      [] intervention = "swap" /\ kmax >= 2 ->
            {Display("plain", AsRanked, Half, 0, FALSE)}
            \cup {Display("swap", IF do THEN Swapped(k) ELSE AsRanked, Half \div (2 * (kmax - 1)), k, do) :
                     k \in 2 .. kmax, do \in BOOLEAN}
      [] OTHER -> {Display("plain", AsRanked, Session, 0, FALSE)}
\* The clicks at rank r, and the logs of all lists.
ClicksAt(s, r) == s.display.weight * Eta(r) * Attraction(s.list, s.display.perm[r])
simulate_logs(lists, intervention) ==
    LET shown == UNION {{[q |-> q, list |-> lists[q], display |-> d] : d \in Displays(lists[q], intervention)} :
                           q \in DOMAIN lists}
        randtop == {s \in shown : s.display.kind = "randtop"}
        swaps(k, do) == {s \in shown : s.display.kind = "swap" /\ s.display.k = k /\ s.display.swapped = do}
        clicks(S, r) == MapThenSumSet(LAMBDA s : ClicksAt(s, r), S)
        sessions(S) == MapThenSumSet(LAMBDA s : s.display.weight, S)
    IN  [clicks |-> [q \in DOMAIN lists |-> [i \in DOMAIN lists[q] |-> [r \in Slots |->
                        clicks({s \in shown : s.q = q /\ s.display.perm[r] = i}, r)]]],
         randtop |-> [r \in Slots |-> clicks(randtop, r)],
         clickAtK |-> [k \in Slots |-> clicks(swaps(k, TRUE), k)],
         nSwapped |-> [k \in Slots |-> sessions(swaps(k, TRUE))],
         clickAt1 |-> [k \in Slots |-> clicks(swaps(k, FALSE), 1)],
         nControl |-> [k \in Slots |-> sessions(swaps(k, FALSE))]]

\* estimate_propensity; NoData stands for NaN and infinity.
estimate_propensity(logs, method) ==
    IF method = "randtop"
    THEN [r \in Slots |-> IF logs.randtop[1] = 0 \/ r > RandTopN THEN NoData
                          ELSE (Unit * logs.randtop[r]) \div logs.randtop[1]]
    ELSE [k \in Slots |-> IF k = 1 THEN Unit
                          ELSE IF logs.nSwapped[k] * logs.clickAt1[k] = 0 THEN NoData
                          ELSE (Unit * logs.clickAtK[k] * logs.nControl[k])
                               \div (logs.nSwapped[k] * logs.clickAt1[k])]
propensity_support(logs, method) ==
    IF method = "randtop"
    THEN [r \in Slots |-> IF r > RandTopN THEN 0 ELSE Min({logs.randtop[r], logs.randtop[1]})]
    ELSE LET w == [k \in Slots |-> Min({logs.clickAtK[k], logs.clickAt1[k]})]
         IN  [w EXCEPT ![1] = Max(Range(w) \cup {1})]

\* fill_propensity: the last known value to the left; the floor is 1 here.
fill_propensity(est) ==
    LET last[r \in 0 .. Displayed] ==
            IF r = 0 THEN Unit ELSE IF est[r] > 0 THEN est[r] ELSE last[r - 1]
    IN  [r \in Slots |-> last[r]]
\* monotone_propensity: the weighted isotonic fit of the identified ranks; a rank
\* between two of them is interpolated, one before the first is NaN, those after
\* the last are as the last; then relative to rank 1, and floored.
monotone_propensity(est, support) ==
    LET ok == {r \in Slots : est[r] > 0 /\ support[r] > 0}
        block(l, u) == {r \in ok : l <= r /\ r <= u}
        average(l, u) == MapThenSumSet(LAMBDA r : support[r] * est[r], block(l, u))
                         \div MapThenSumSet(LAMBDA r : support[r], block(l, u))
        fit(r) == Min({Max({average(l, u) : u \in block(r, Displayed)}) : l \in block(1, r)})
        predict(r) ==
            IF r \in ok THEN fit(r) ELSE IF r < Min(ok) THEN NoData ELSE IF r > Max(ok) THEN fit(Max(ok))
            ELSE LET l == Max(block(1, r))
                     u == Min(block(r, Displayed))
                 IN  fit(l) - ((fit(l) - fit(u)) * (r - l)) \div (u - l)
        relative(r) == IF predict(1) > 0 THEN (Unit * predict(r)) \div predict(1) ELSE predict(r)
    IN  IF Cardinality(ok) < 2 THEN fill_propensity(est)
        ELSE [r \in Slots |-> IF relative(r) = NoData THEN NoData ELSE Max({1, relative(r)})]

\* ips_weights of one candidate's clicks by rank; the naive count has eta 1.
Unweighted == [r \in Slots |-> Unit]
ips_weights(clicks, eta, clip) ==
    MapThenSumSet(LAMBDA r : clicks[r] * Min({clip, Unit \div eta[r]}), {s \in Slots : clicks[s] > 0})
NoClip == Unit
------------------------------------------------------------------------------
(* Intervention harvesting: several loggers share the traffic evenly, each    *)
(* with its order of a query's candidates.                                    *)
simulate_logs_multi(lists, orders) ==
    [clicks |-> [q \in DOMAIN lists |-> [i \in DOMAIN lists[q] |-> [r \in Slots |->
         MapThenSumSet(LAMBDA j : Eta(r) * Attraction(lists[q], i),
                       {j \in DOMAIN orders : r \in DOMAIN orders[j][q] /\ orders[j][q][r] = i})]]],
     sessions |-> [q \in DOMAIN lists |-> [j \in DOMAIN orders |-> 1]]]
\* What the loggers show at r while another shows it at r2: clicks and sessions.
Harvested(lists, orders, r, r2) ==
    LET rank(j, q, i) == RankIn(orders[j][q], i)
    IN  {x \in {[q |-> q, i |-> i, a |-> a] : q \in DOMAIN lists, i \in Slots, a \in DOMAIN orders} :
            /\ x.i \in DOMAIN lists[x.q] /\ rank(x.a, x.q, x.i) = r
            /\ \E b \in DOMAIN orders \ {x.a} : rank(b, x.q, x.i) = r2}
\* harvest_propensity: where the ratios agree, least squares is the product of
\* the ratios from rank 1 on; ranks that no chain of pairs ties to rank 1 are
\* left without data here.
harvest_propensity(logs, lists, orders) ==
    LET C(r, r2) == MapThenSumSet(LAMBDA x : logs.clicks[x.q][x.i][r], Harvested(lists, orders, r, r2))
        N(r, r2) == MapThenSumSet(LAMBDA x : logs.sessions[x.q][x.a], Harvested(lists, orders, r, r2))
        pairs == {p \in Slots \X Slots : p[1] # p[2] /\ C(p[1], p[2]) > 0 /\ C(p[2], p[1]) > 0}
        ratio(x, r2, r) == (x * C(r2, r) * N(r, r2)) \div (C(r, r2) * N(r2, r))
        grown(f) == [r \in DOMAIN f \cup {p[2] : p \in {t \in pairs : t[1] \in DOMAIN f}} |->
                        IF r \in DOMAIN f THEN f[r]
                        ELSE LET from == CHOOSE s \in DOMAIN f : <<s, r>> \in pairs IN ratio(f[from], r, from)]
        tied[n \in 0 .. Displayed] == IF n = 0 THEN [r \in {1} |-> Unit] ELSE grown(tied[n - 1])
        known == tied[Displayed]
    IN  [est |-> [r \in Slots |-> IF r \in DOMAIN known /\ pairs # {} THEN known[r] ELSE NoData],
         support |-> [r \in Slots |-> Cardinality({p \in pairs : p[1] = r})]]
------------------------------------------------------------------------------
(* Data sets and the ranker. *)

\* A feature is the run's score up to scale, and lies below the run's least for a
\* candidate the run lacks; reciprocal ranks are times Unit, 0 for one it lacks.
RunOf(run, q) == IF q \in DOMAIN run THEN run[q] ELSE [d \in {0} |-> 0]
ZFeature(scores, d) == IF d \in DOMAIN scores THEN 2 * scores[d] ELSE 2 * Min(Range(scores)) - 1
RRFeature(scores, d) == IF d \in DOMAIN scores THEN Unit \div RankIn(Sorted(scores), d) ELSE 0
\* build_from_runs: the queries that have a run and judgments, in numeric order.
build_from_runs(qids, logging, bm25, dense, qrels) ==
    LET kept == Ordered({q \in qids : q \in DOMAIN logging /\ q \in DOMAIN qrels}, <)
        row(q) ==
            LET cands == Top(Sorted(logging[q]), Displayed) IN
            [q |-> q, cands |-> cands,
             features |-> [i \in DOMAIN cands |->
                 [bm25 |-> ZFeature(RunOf(bm25, q), cands[i]), dense |-> ZFeature(RunOf(dense, q), cands[i]),
                  bm25rr |-> RRFeature(RunOf(bm25, q), cands[i]), denserr |-> RRFeature(RunOf(dense, q), cands[i])]],
             grades |-> [i \in DOMAIN cands |-> Grade(qrels[q], cands[i])],
             ideal |-> qrels[q]]
    IN  [n \in DOMAIN kept |-> row(kept[n])]
\* The label of a training judgment: MS MARCO's 1 is the DL grade 2.
TrainLabel(g) == IF g = 1 THEN 2 ELSE g
TrainLabels(qrels) == [q \in DOMAIN qrels |-> [d \in DOMAIN qrels[q] |-> TrainLabel(qrels[q][d])]]

\* rank_lists: a stable sort by the linear score.
LinearScore(f, theta) == theta.bm25 * f.bm25 + theta.dense * f.dense + theta.rr * (f.bm25rr + f.denserr)
rank_list(row, theta) ==
    LET s(i) == LinearScore(row.features[i], theta) IN
    Ordered(DOMAIN row.cands, LAMBDA i, j : Ahead(s(i), s(j), i < j))
ndcg10(order, grades, ideal, k) ==
    LET gains == [i \in 1 .. Len(Top(order, k)) |-> grades[order[i]]]
        positive == {d \in DOMAIN ideal : ideal[d] > 0}
        best == Ordered(positive, LAMBDA d, e : Ahead(ideal[d], ideal[e], d < e))
        idcg == DCG([i \in 1 .. Len(Top(best, k)) |-> ideal[best[i]]])
    IN  IF idcg = 0 THEN 0 ELSE (Unit * DCG(gains)) \div idcg
\* The three baselines, summed over the set.
Mean(set, k, order(_)) ==
    MapThenSumSet(LAMBDA n : ndcg10(order(set[n]), set[n].grades, set[n].ideal, k), DOMAIN set)
evaluate_theta(set, theta, k) == Mean(set, k, LAMBDA row : rank_list(row, theta))
logging_ndcg(set, k) == Mean(set, k, LAMBDA row : [i \in DOMAIN row.cands |-> i])
candidate_oracle_ndcg(set, k) ==
    Mean(set, k, LAMBDA row : Ordered(DOMAIN row.grades,
                                  LAMBDA i, j : Ahead(row.grades[i], row.grades[j], i < j)))

\* find_run: the first run that is not empty, of the allowed collections.
NoRun == [q \in {} |-> Empty]
find_run(files, excluded) ==
    LET fit == {i \in DOMAIN files : files[i].run # NoRun /\ files[i].world \notin excluded} IN
    IF fit = {} THEN NoRun ELSE files[Min(fit)].run
Restricted(run, docs) == [q \in DOMAIN run |-> [d \in DOMAIN run[q] \cap docs |-> run[q][d]]]
Sampled(run, qids) == [q \in DOMAIN run \cap qids |-> run[q]]
\* real_sets: BM25 of the full collection; with dense runs, which cover the 1M
\* subset only, its hits outside the subset are dropped; without, the candidates
\* alone are scored (`scored`), so that each has a dense feature.
real_sets(files, opts) ==
    LET bm(split) == find_run(files.bm25[split], {"1m"})
        de(split) == find_run(files.dense[split], {})
        useRuns == opts.source = "runs" /\ de("train") # NoRun /\ de("eval") # NoRun
        base(split) == IF useRuns THEN Restricted(bm(split), files.subset) ELSE bm(split)
        run(split) == IF split = "train" THEN Sampled(base(split), opts.trainQueries) ELSE base(split)
        scored(split) == [q \in DOMAIN run(split) |->
                             [d \in Range(Top(Sorted(run(split)[q]), Displayed)) |-> files.scored[d]]]
        dense(split) == IF useRuns THEN de(split) ELSE scored(split)
        qids(split) == IF split = "train" THEN opts.trainQueries ELSE DOMAIN files.qrels[split]
    IN  IF bm("train") = NoRun \/ bm("eval") = NoRun THEN [train |-> <<>>, eval |-> <<>>, restricted |-> FALSE]
        ELSE
        [train |-> build_from_runs(qids("train"), run("train"), run("train"), dense("train"),
                                   TrainLabels(files.qrels["train"])),
         eval |-> build_from_runs(qids("eval"), run("eval"), run("eval"), dense("eval"),
                                  files.qrels["eval"]),
         restricted |-> useRuns]
LoggedLists(set) == [n \in DOMAIN set |-> set[n].grades]
\* The second logger: the same candidates by the dense feature.
LoggerOrders(set) ==
    <<[n \in DOMAIN set |-> [i \in DOMAIN set[n].cands |-> i]],
      [n \in DOMAIN set |-> rank_list(set[n], [bm25 |-> 0, dense |-> 1, rr |-> 0])]>>
\* m9_ltr.main: what is logged of the lists, and what is estimated from it.
all_logs(lists, orders) ==
    [lists |-> lists, orders |-> orders, plain |-> simulate_logs(lists, "none"),
     swap |-> simulate_logs(lists, "swap"), randtop |-> simulate_logs(lists, "randtop"),
     multi |-> simulate_logs_multi(lists, orders)]
estimates(logs) ==
    LET fitted(l, m) == monotone_propensity(estimate_propensity(l, m), propensity_support(l, m))
        harvest == harvest_propensity(logs.multi, logs.lists, logs.orders)
    IN  [swap |-> fitted(logs.swap, "swap"), randtop |-> fitted(logs.randtop, "randtop"), harvest |-> harvest.est]
------------------------------------------------------------------------------
(* What they promise. *)

\* Interventions identify the position bias, whatever the lists and grades: swap
\* at every rank a list reaches, randtop within its window; beyond it randtop
\* errs on the side of too little correction; harvesting is exact at every rank
\* that a chain of pairs ties to rank 1.  The weights of IPS are then the
\* probabilities of a click given examination (the skyline's labels), however the
\* sessions were randomised; clipping only takes away.
LogsIdentifyBias(logs, eta) ==
    LET lists == logs.lists
        reached(r) == \E q \in DOMAIN lists : Len(lists[q]) >= r
        true == [r \in Slots |-> Eta(r)]
        skyline(q, i) == Session * Unit * Attraction(lists[q], i)
    IN  /\ \A r \in Slots :
              /\ reached(r) => eta.swap[r] = Eta(r)
              /\ IF r <= RandTopN /\ reached(RandTopN) THEN eta.randtop[r] = Eta(r) ELSE eta.randtop[r] >= Eta(r)
              /\ eta.harvest[r] \in {NoData, Eta(r)}
        /\ \A q \in DOMAIN lists : \A i \in DOMAIN lists[q] :
              /\ \A l \in {logs.plain, logs.swap, logs.randtop} : ips_weights(l.clicks[q][i], true, NoClip) = skyline(q, i)
              /\ ips_weights(logs.swap.clicks[q][i], eta.swap, NoClip) = skyline(q, i)
              /\ LET clicks == logs.randtop.clicks[q][i]
                     w == ips_weights(clicks, eta.randtop, NoClip)
                 IN  w <= skyline(q, i) /\ w >= ips_weights(clicks, Unweighted, NoClip)
              /\ \A c \in Slots : LET w == ips_weights(logs.swap.clicks[q][i], true, c) IN
                                  w <= skyline(q, i) /\ (c >= Len(lists[q]) => w = skyline(q, i))
\* Whatever the raw estimates, the fit falls from rank to rank, between 1 and the
\* floor, and an estimate that falls already is kept, as long as rank 1 has data.
FitIsMonotone(est, support) ==
    LET fit == monotone_propensity(est, support) IN
    est[1] = Unit /\ support[1] > 0 =>
        /\ Cardinality({r \in Slots : est[r] > 0 /\ support[r] > 0}) >= 2 =>
              /\ fit[1] = Unit
              /\ \A r \in Slots \ {1} : 1 <= fit[r] /\ fit[r] <= fit[r - 1]
        /\ (\A r \in Slots : support[r] > 0 /\ est[r] > 0 /\ (r > 1 => est[r] <= est[r - 1])) => fit = est
\* No ranker learned from the features is better than the oracle on the same
\* candidates; the set's nDCG is the evaluator's, and the rankers' table's, of
\* the run it was made from; every candidate of a restricted world has been seen
\* by the dense run's collection; and every list is one the logs can show.
SetsAreComparable(sets, files, theta, k) ==
    LET ev == sets.eval
        qrel(n) == files.qrels["eval"][ev[n].q]
    IN  /\ evaluate_theta(ev, theta, k) <= candidate_oracle_ndcg(ev, k)
        /\ logging_ndcg(ev, k) <= candidate_oracle_ndcg(ev, k)
        /\ \A n \in DOMAIN ev :
              /\ ndcg10([i \in DOMAIN ev[n].cands |-> i], ev[n].grades, ev[n].ideal, k)
                    = TableNdcg(ev[n].cands, qrel(n), k)
              /\ TableNdcg(ev[n].cands, qrel(n), k) = ndcg_at_k(ev[n].cands, qrel(n), k)
        /\ \A set \in Range(<<sets.train, ev>>) : \A n \in DOMAIN set :
              /\ sets.restricted => Range(set[n].cands) \subseteq files.subset
              /\ Len(set[n].cands) <= Displayed /\ IsInjective(set[n].cands)
              /\ Range(LoggerOrders(set)[2][n]) = DOMAIN set[n].cands
==============================================================================
