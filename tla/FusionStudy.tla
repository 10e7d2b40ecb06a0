---------------------------- MODULE FusionStudy ------------------------------
(***************************************************************************)
(* Rank fusion (fusion/core.py), its vectorised form for parameter sweeps   *)
(* (fusion/fast.py), the run files (fusion/runs.py) and the M4 study that   *)
(* uses all three (scripts/m4_fusion.py).  A ranking is a sequence of       *)
(* [doc, score], best first; scores, and alpha in tenths, are integers.     *)
(* zscore, which needs square roots, is not modelled.                       *)
(***************************************************************************)
EXTENDS Evaluation

\* The study's grid and depths (DEPTH, OUT_K), the untuned k (60), and the
\* printed precision of a run file's scores.
CONSTANTS RRF_KS, DefaultK, ALPHAS, DEPTH, OUT_K, Precision
ASSUME GridAssumption ==
    /\ Precision \in Nat \ {0} /\ DefaultK \in Nat /\ DEPTH \in Nat /\ OUT_K \in Nat
    /\ RRF_KS \in Seq(Nat) /\ RRF_KS # <<>> /\ ALPHAS \in Seq(0 .. 10) /\ ALPHAS # <<>>
\* Shares of different ranks are different numbers, as they are in the code.
ASSUME SharesAssumption ==
    \A k \in Range(RRF_KS), r \in 1 .. DEPTH : Unit \div (k + r) > Unit \div (k + r + 1)

\* A retriever's list: each document once, by score, equal ones by id.
IsRanking(r) ==
    /\ r \in Seq(Range(r)) /\ \A i \in DOMAIN r : r[i].doc \in Nat /\ r[i].score \in Int
    /\ \A i, j \in DOMAIN r : i < j =>
          r[i].doc # r[j].doc /\ Ahead(r[i].score, r[j].score, r[i].doc < r[j].doc)
Docs(r) == {r[i].doc : i \in 1 .. Len(r)}
Order(r) == [i \in 1 .. Len(r) |-> r[i].doc]
truncate(r) == Top(r, DEPTH)
RankOf(r, d) == CHOOSE i \in 1 .. Len(r) : r[i].doc = d

\* sort_fused: score descending, ties by lower id.
sort_fused(scores, outK) ==
    LET sorted == Ordered(DOMAIN scores, LAMBDA d, e : Ahead(scores[d], scores[e], d < e))
    IN  Top([i \in 1 .. Len(sorted) |-> [doc |-> sorted[i], score |-> scores[sorted[i]]]], outK)

\* rrf: one over k + rank, from each list the document is in.
Share(r, k, d) == IF d \in Docs(r) THEN Unit \div (k + RankOf(r, d)) ELSE 0
rrf(lex, dense, k, outK) ==
    sort_fused([d \in Docs(truncate(lex)) \cup Docs(truncate(dense)) |->
                   Share(truncate(lex), k, d) + Share(truncate(dense), k, d)], outK)

\* normalise "minmax"; a document that a list lacks gets the list's least value.
Scores(r) == {r[i].score : i \in 1 .. Len(r)}
normalise(r, x) ==
    LET high == Max(Scores(r))
        low == Min(Scores(r))
    IN  IF high = low THEN Unit ELSE (Unit * (x - low)) \div (high - low)
Floor(r) == IF r = <<>> THEN 0 ELSE normalise(r, Min(Scores(r)))
Normal(r, d) == IF d \in Docs(r) THEN normalise(r, r[RankOf(r, d)].score) ELSE Floor(r)
weighted(lex, dense, alpha, outK) ==
    sort_fused([d \in Docs(truncate(lex)) \cup Docs(truncate(dense)) |->
                   (10 - alpha) * Normal(truncate(lex), d) + alpha * Normal(truncate(dense), d)], outK)
------------------------------------------------------------------------------
(* fast.py: arrays over the union of the candidates, in id order; absent      *)
(* documents have rank 0 here, infinity in the code.                          *)
prepare(lex, dense) ==
    LET docs == Ordered(Docs(truncate(lex)) \cup Docs(truncate(dense)), <)
        ranks(r) == [i \in 1 .. Len(docs) |-> IF docs[i] \in Docs(r) THEN RankOf(r, docs[i]) ELSE 0]
        norm(r)  == [i \in 1 .. Len(docs) |-> Normal(r, docs[i])]
    IN  [docs |-> docs, lexRank |-> ranks(truncate(lex)), denseRank |-> ranks(truncate(dense)),
         lexNorm |-> norm(truncate(lex)), denseNorm |-> norm(truncate(dense))]
\* _order: a stable sort on the negated score.
StableByScore(qc, score, outK) ==
    LET idx == Ordered(1 .. Len(qc.docs), LAMBDA i, j : Ahead(score[i], score[j], i < j))
    IN  Top([i \in 1 .. Len(idx) |-> [doc |-> qc.docs[idx[i]], score |-> score[idx[i]]]], outK)
rrf_fast(qc, k, outK) ==
    LET share(rank) == IF rank = 0 THEN 0 ELSE Unit \div (k + rank) IN
    StableByScore(qc, [i \in 1 .. Len(qc.docs) |-> share(qc.lexRank[i]) + share(qc.denseRank[i])], outK)
weighted_fast(qc, alpha, outK) ==
    StableByScore(qc, [i \in 1 .. Len(qc.docs) |->
                          (10 - alpha) * qc.lexNorm[i] + alpha * qc.denseNorm[i]], outK)
------------------------------------------------------------------------------
(* runs.py: scores that an evaluator's sort brings back into the same order.  *)
Printed(s) == (s \div Precision) * Precision
\* Faulty variant of run_file_scores: only rounded.
run_file_scores_rounded(r) == [i \in 1 .. Len(r) |-> Printed(r[i].score)]
\* run_file_scores: each score strictly below the one printed before it.
run_file_scores(r) ==
    LET out[i \in 1 .. Len(r)] ==
            LET v == Printed(r[i].score) IN
            IF i = 1 THEN v ELSE IF v < out[i - 1] THEN v ELSE Printed(out[i - 1] - Precision)
    IN  [i \in 1 .. Len(r) |-> out[i]]
as_score_dict(r) == LET s == run_file_scores(r) IN [d \in Docs(r) |-> s[RankOf(r, d)]]
\* read_run_ranked: a file's lines by rank; write_run_exact's assertion.
ReproducesOrder(r) == rank_run(as_score_dict(r)) = Order(r)
------------------------------------------------------------------------------
(* m4_fusion.py.  A configuration is RRF with its k or a weighted sum with    *)
(* its alpha, in grid order; a dataset has two runs and judgments per query.  *)
Configs == [i \in 1 .. Len(RRF_KS) |-> [kind |-> "rrf", p |-> RRF_KS[i]]]
           \o [i \in 1 .. Len(ALPHAS) |-> [kind |-> "wsum", p |-> ALPHAS[i]]]
Ranking(run, q) == IF q \in DOMAIN run THEN run[q] ELSE <<>>

\* sweep: the grid by the fast path, which lists no more than the metric needs.
FastFused(c, qc, outK) ==
    IF c.kind = "rrf" THEN rrf_fast(qc, c.p, outK) ELSE weighted_fast(qc, c.p, outK)
SweptValues(c, data, m) ==
    [q \in DOMAIN data.qrels |->
        metric_value(m, Order(FastFused(c, prepare(Ranking(data.lex, q), Ranking(data.dense, q)), m.k)),
                     data.qrels[q])]

\* Tuning: the first best of each kind in grid order, on train_tune.
FirstBest(kind, tune, m) ==
    LET of == {i \in 1 .. Len(Configs) : Configs[i].kind = kind}
        value(i) == Total(SweptValues(Configs[i], tune, m))
        best == {i \in of : \A j \in of : value(j) <= value(i)}
    IN  Configs[Min(best)]
DefaultRRF == [kind |-> "rrf", p |-> DefaultK]
Systems(tune, m) ==
    [rrf_tuned |-> FirstBest("rrf", tune, m), rrf_k60 |-> DefaultRRF, wsum_tuned |-> FirstBest("wsum", tune, m)]

\* Held-out evaluation: fused by core, written, and evaluated as written; a
\* single retriever is evaluated by its run file's scores.
Fused(c, data, q) ==
    LET lex == Ranking(data.lex, q)
        dense == Ranking(data.dense, q)
    IN  IF c.kind = "rrf" THEN rrf(lex, dense, c.p, OUT_K) ELSE weighted(lex, dense, c.p, OUT_K)
FusedRun(c, data) == [q \in DOMAIN data.qrels |-> as_score_dict(Fused(c, data, q))]
ScoresOf(run, q) == [d \in Docs(Ranking(run, q)) |-> Ranking(run, q)[RankOf(Ranking(run, q), d)].score]
SingleRun(run) == [q \in DOMAIN run |-> ScoresOf(run, q)]
PerQuery(systems, data, m) ==
    [s \in DOMAIN systems \cup {"bm25", "dense"} |->
        LET run == IF s \in DOMAIN systems THEN FusedRun(systems[s], data)
                   ELSE SingleRun(IF s = "bm25" THEN data.lex ELSE data.dense)
        IN  evaluate(run, data.qrels, m)]
Mismatches(systems, data) ==
    {p \in (DOMAIN systems) \X (DOMAIN data.qrels) :
        FastFused(systems[p[1]], prepare(Ranking(data.lex, p[2]), Ranking(data.dense, p[2])), OUT_K)
            # Fused(systems[p[1]], data, p[2])}

\* The family of one metric: every hybrid against every single retriever, the
\* default k left out where tuning chose it.
Hybrids(systems) == <<"rrf_tuned", "wsum_tuned">>
                    \o (IF systems.rrf_tuned = DefaultRRF THEN <<>> ELSE <<"rrf_k60">>)
Family(systems, perQuery) ==
    FlattenSeq([i \in 1 .. Len(Hybrids(systems)) |->
        [j \in 1 .. 2 |-> LET h == Hybrids(systems)[i]
                              single == <<"bm25", "dense">>[j]
                          IN  [name |-> <<h, single>>, a |-> perQuery[h], b |-> perQuery[single]]]])
\* headline: each hybrid against the stronger single retriever.
HeadlineRow(h, systems, perQuery) ==
    LET best == IF Total(perQuery["dense"]) >= Total(perQuery["bm25"]) THEN "dense" ELSE "bm25"
        names == {Family(systems, perQuery)[i].name : i \in 1 .. Len(Family(systems, perQuery))}
    IN  IF <<h, best>> \in names THEN <<h, best>> ELSE <<"rrf_tuned", best>>
------------------------------------------------------------------------------
(* What the study promises. *)

\* What was swept is what is reported: the grid's value of a configuration, by
\* the vectorised path on a list cut to the metric, is the metric of the file
\* written from the reference implementation's full list.
ReportedAsSwept(data, m) ==
    \A i \in 1 .. Len(Configs) :
        evaluate(FusedRun(Configs[i], data), data.qrels, m) = SweptValues(Configs[i], data, m)

\* No document is fused above one that every list scores above it, where one
\* that a list lacks counts as the list's least.
Above(r, d, e) == d \in Docs(r) /\ Normal(r, d) > Normal(r, e)
DominanceKept(data, q) ==
    LET lex == truncate(Ranking(data.lex, q))
        dense == truncate(Ranking(data.dense, q))
    IN  \A c \in Range(Configs) :
            LET fused == Order(Fused(c, data, q))
                at(x) == CHOOSE i \in 1 .. Len(fused) : fused[i] = x
            IN  \A d \in Docs(lex) \cup Docs(dense), e \in Range(fused) :
                    Above(lex, d, e) /\ Above(dense, d, e) => d \in Range(fused) /\ at(d) < at(e)
==============================================================================
