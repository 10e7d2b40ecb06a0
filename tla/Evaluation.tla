----------------------------- MODULE Evaluation ------------------------------
(***************************************************************************)
(* The retrieval metrics (eval/metrics.py) and the significance tests       *)
(* (stats/significance.py) of the offline studies.  Document and query ids  *)
(* are numbers, which the code holds as decimal strings; a metric is an     *)
(* integer, the code's value times Unit; discounts are 1/log2(rank+1) to    *)
(* two places.                                                              *)
(***************************************************************************)
EXTENDS Integers, FiniteSetsExt, SequencesExt

\* What the code's 1.0 is.
CONSTANT Unit
ASSUME UnitAssumption == Unit \in Nat \ {0}

Discount == <<100, 63, 50, 43, 39, 36>>

\* The order of decimal strings: shorter is not smaller.
StringBelow(d, e) ==
    LET lead(x) == IF x < 10 THEN x ELSE x \div 10 IN
    lead(d) < lead(e) \/ (lead(d) = lead(e) /\ d < e)

\* A set sorted by a strict total order: its i-th member has i - 1 before it.
\* (TLC works out a concatenation once, and a function at every use.)
Ordered(S, before(_, _)) ==
    LET placed == {<<Cardinality({y \in S : before(y, x)}), x>> : x \in S}
    IN  <<>> \o [i \in 1 .. Cardinality(S) |-> (CHOOSE p \in placed : p[1] = i - 1)[2]]
\* The elements of a sequence that pass a test, in its order.
Where(s, Test(_)) ==
    LET passing == {i \in DOMAIN s : Test(s[i])}
        kept[i \in 0 .. Len(s)] ==
            IF i = 0 THEN <<>> ELSE IF i \in passing THEN Append(kept[i - 1], s[i]) ELSE kept[i - 1]
    IN  kept[Len(s)]
\* A sort by descending value, the tie decided by the last argument.
Ahead(x, y, tie) == x > y \/ (x = y /\ tie)

\* rank_run: score descending, ties by descending id string.
rank_run(scores) ==
    Ordered(DOMAIN scores, LAMBDA d, e : Ahead(scores[d], scores[e], StringBelow(e, d)))

Grade(qrel, d) == IF d \in DOMAIN qrel THEN qrel[d] ELSE 0
Top(ranked, k) == SubSeq(ranked, 1, Min({k, Len(ranked)}))
Hits(ranked, qrel, k, rel) == {i \in 1 .. Len(Top(ranked, k)) : Grade(qrel, ranked[i]) >= rel}

mrr_at_k(ranked, qrel, k, rel) ==
    LET hits == Hits(ranked, qrel, k, rel) IN IF hits = {} THEN 0 ELSE Unit \div Min(hits)

DCG(gains) == FoldSeq(+, 0, [i \in 1 .. Len(gains) |-> gains[i] * Discount[i]])
ndcg_at_k(ranked, qrel, k) ==
    LET gains == [i \in 1 .. Len(Top(ranked, k)) |-> Grade(qrel, ranked[i])]
        judged == Ordered(DOMAIN qrel, LAMBDA d, e : Ahead(qrel[d], qrel[e], d < e))
        ideal == [i \in 1 .. Len(Top(judged, k)) |-> qrel[judged[i]]]
    IN  IF DCG(ideal) = 0 THEN 0 ELSE (Unit * DCG(gains)) \div DCG(ideal)

recall_at_k(ranked, qrel, k, rel) ==
    LET relevant == {d \in DOMAIN qrel : qrel[d] >= rel} IN
    IF relevant = {} THEN 0
    ELSE (Unit * Cardinality(Hits(ranked, qrel, k, rel))) \div Cardinality(relevant)

\* parse_metric's Metric, and its value on one query.
Metric(kind, k, rel) == [kind |-> kind, k |-> k, rel |-> rel]
metric_value(m, ranked, qrel) ==
    CASE m.kind = "RR"   -> mrr_at_k(ranked, qrel, m.k, m.rel)
      [] m.kind = "nDCG" -> ndcg_at_k(ranked, qrel, m.k)
      [] m.kind = "R"    -> recall_at_k(ranked, qrel, m.k, m.rel)

\* evaluate: per query, over the judged queries; one missing from the run is 0.
Empty == [d \in {} |-> 0]
evaluate(run, qrels, m) ==
    [q \in DOMAIN qrels |->
        metric_value(m, rank_run(IF q \in DOMAIN run THEN run[q] ELSE Empty), qrels[q])]
Total(values) == MapThenSumSet(LAMBDA q : values[q], DOMAIN values)
------------------------------------------------------------------------------
(* Significance.  A test's permutations and resamples are given, not drawn.  *)

\* align: both systems must have a value for the same queries.
Alignable(a, b) == DOMAIN a = DOMAIN b
Differences(a, b) == [q \in DOMAIN a |-> a[q] - b[q]]

Abs(x) == IF x < 0 THEN -x ELSE x
Flip(signs, d) == [q \in DOMAIN d |-> signs[q] * d[q]]
\* paired_randomization_test, two-sided: the numerator over n_perm + 1.
AsExtreme(d, perms) ==
    Cardinality({i \in DOMAIN perms : Abs(Total(Flip(perms[i], d))) >= Abs(Total(d))}) + 1

\* paired_bootstrap_ci: the quantiles of the resampled totals.
Resampled(d, samples) ==
    SortSeq([i \in 1 .. Len(samples) |-> Total([j \in DOMAIN samples[i] |-> d[samples[i][j]]])], <)
BootstrapCI(d, samples, alphaPct) ==
    LET sorted == Resampled(d, samples)
        at(pct) == sorted[1 + ((Len(sorted) - 1) * pct) \div 100]
    IN  <<at(alphaPct), at(100 - alphaPct)>>

\* holm_bonferroni, for p-values and alpha as integers over one denominator,
\* One being p = 1: adjusted values, in the input order.
StableOrder(p) ==
    Ordered(DOMAIN p, LAMBDA i, j : Ahead(-p[i], -p[j], i < j))
holm_bonferroni(p, One) ==
    LET m == Len(p)
        order == StableOrder(p)
        adjusted(j) == Min({One, (m - j + 1) * p[order[j]]})
        running == [j \in 1 .. m |-> Max({adjusted(i) : i \in 1 .. j})]
    IN  [i \in 1 .. m |-> running[CHOOSE j \in 1 .. m : order[j] = i]]

\* compare: each pair of a family is tested, then the family is corrected.
compare(family, perms, alpha, One) ==
    LET p == [i \in 1 .. Len(family) |-> AsExtreme(Differences(family[i].a, family[i].b), perms)]
        adj == holm_bonferroni(p, One)
    IN  [i \in 1 .. Len(family) |-> [name |-> family[i].name, p |-> p[i], holm |-> adj[i],
                                     significant |-> adj[i] <= alpha,
                                     delta |-> Total(Differences(family[i].a, family[i].b))]]
------------------------------------------------------------------------------
(* What they promise. *)

\* The sequential rule: reject in ascending order of p while p <= alpha/(m-j+1).
SequentiallyRejected(p, alpha) ==
    LET order == StableOrder(p)
        passes(j) == (Len(p) - j + 1) * p[order[j]] <= alpha
    IN  {order[j] : j \in {i \in 1 .. Len(p) : \A h \in 1 .. i : passes(h)}}
HolmIsSequential(p, alpha, One) ==
    {i \in 1 .. Len(p) : holm_bonferroni(p, One)[i] <= alpha} = SequentiallyRejected(p, alpha)

\* Under the null hypothesis every flip of the differences is as likely: with
\* all flips as permutations, a p-value of c or less comes up in at most c-1 of
\* the 2^n cases, over which it has the denominator 2^n + 1.
RandomizationIsValid(d, perms) ==
    \A c \in 1 .. Len(perms) :
        Cardinality({i \in DOMAIN perms : AsExtreme(Flip(perms[i], d), perms) <= c}) <= c - 1
==============================================================================
