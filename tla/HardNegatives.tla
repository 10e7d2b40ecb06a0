---------------------------- MODULE HardNegatives ----------------------------
(***************************************************************************)
(* The reranker's training data and its evaluation: exact dense search and  *)
(* the mining of hard negatives (rerank/mine.py), the groups the trainer    *)
(* draws (rerank/sampler.py), and rescoring a first stage's candidates      *)
(* (rerank/rerank_run.py) to every depth (rerank/cascade.py); the exact     *)
(* reference run (dense/flat.py).  A query is a record: `judged`, a         *)
(* grade per judged passage; `bm25`, the score of every passage, of which a *)
(* run file has the best RunDepth; `dense`, the score of the passages of    *)
(* the subset; `encoded`, that of the positives that were encoded; `text`,  *)
(* the normalised text of each passage at hand.  What a random generator    *)
(* chooses is any choice.                                                   *)
(***************************************************************************)
EXTENDS ClickRankers

CONSTANTS RunDepth, DenseDepth, ChunkRows, BlockRows, PoolDepth, NNeg, DenseMargin, BM25MarginTenths,
          MAX_BATCH, TOKEN_BUDGET, Grain
ASSUME GrainAssumption == Grain \in Nat \ {0}
ASSUME DepthsAssumption ==
    /\ RunDepth \in Nat /\ DenseDepth \in Nat /\ PoolDepth \in Nat /\ NNeg \in Nat
    /\ DenseMargin \in Nat /\ BM25MarginTenths \in Nat /\ MAX_BATCH \in Nat /\ TOKEN_BUDGET \in Nat
    /\ ChunkRows \in Nat \ {0} /\ BlockRows \in Nat \ {0}

NoScore == -1000
ScoreOf(f, d) == IF d \in DOMAIN f THEN f[d] ELSE NoScore
Positives(q) == {d \in DOMAIN q.judged : q.judged[d] > 0}
\* What qrels, index and embeddings give of a query: finitely many passages, by
\* number, each with a number, and every positive is a passage of the collection.
Numbered(S, f) == IsFiniteSet(S) /\ S \subseteq Nat /\ \A x \in S : f[x] \in Int
IsQuery(q) ==
    /\ DOMAIN q = {"judged", "bm25", "dense", "encoded", "covered", "text"}
    /\ Numbered(DOMAIN q.judged, q.judged) /\ Numbered(DOMAIN q.bm25, q.bm25)
    /\ Numbered(DOMAIN q.dense, q.dense) /\ Numbered(DOMAIN q.encoded, q.encoded)
    /\ Positives(q) \subseteq DOMAIN q.bm25
------------------------------------------------------------------------------
(* Exact search, rows chunk by chunk.  argpartition or FAISS takes the best of *)
(* a chunk, any of those that tie at the cut; what is kept is sorted with ties  *)
(* by row, which is by id.                                                     *)
BestOf(score, rows, k) ==
    {S \in kSubset(Min({k, Cardinality(rows)}), rows) : \A r \in S, t \in rows \ S : score[r] >= score[t]}
ByScoreThenRow(score, rows) == Ordered(rows, LAMBDA r, t : Ahead(score[r], score[t], r < t))
MergedWith(score, k, lists, rows) ==
    {Top(ByScoreThenRow(score, Range(s) \cup best), k) : s \in lists, best \in BestOf(score, rows, k)}
TopKByChunks(score, k, size) ==
    LET rows == Ordered(DOMAIN score, <)
        chunks == (Len(rows) + size - 1) \div size
        chunk(c) == {rows[i] : i \in (c - 1) * size + 1 .. Min({c * size, Len(rows)})}
        kept[c \in 0 .. chunks] ==
            IF c = 0 THEN {<<>>}
            ELSE MergedWith(score, k, kept[c - 1], chunk(c))
    IN  kept[chunks]
exact_topk(score, k) == TopKByChunks(score, k, ChunkRows)
\* dense/flat.py: an index per block.
flat_topk(score, k) == TopKByChunks(score, k, BlockRows)
------------------------------------------------------------------------------
(* Mining. *)

\* The run file's hits; a query that no run covers has none and is skipped.
RunFile(q) == Range(Top(Sorted(q.bm25), RunDepth))
HitScores(q) == [d \in IF q.covered THEN RunFile(q) ELSE {} |-> q.bm25[d]]
\* Faulty variant of false_negative: one of the two margins is enough.
false_negative_by_either(dNeg, dPos, bNeg, bPosBound) ==
    IF NoScore \in {dNeg, dPos, bNeg, bPosBound} THEN "unverifiable"
    ELSE IF dNeg - dPos >= DenseMargin \/ 10 * (bNeg - bPosBound) >= BM25MarginTenths * Abs(bPosBound)
         THEN "drop" ELSE "keep"
\* false_negative: unverifiable without all four scores.
false_negative(dNeg, dPos, bNeg, bPosBound) ==
    IF NoScore \in {dNeg, dPos, bNeg, bPosBound} THEN "unverifiable"
    ELSE IF dNeg - dPos >= DenseMargin /\ 10 * (bNeg - bPosBound) >= BM25MarginTenths * Abs(bPosBound)
         THEN "drop" ELSE "keep"
\* The best dense score of an encoded positive; the best BM25 score of a positive
\* that was hit, or else the least of the hits, which bounds it.
DensePos(q) ==
    LET s == {q.encoded[p] : p \in Positives(q) \cap DOMAIN q.encoded} IN IF s = {} THEN NoScore ELSE Max(s)
BM25Bound(q) ==
    LET found == Positives(q) \cap DOMAIN HitScores(q) IN
    IF found # {} THEN Max({q.bm25[p] : p \in found}) ELSE Min(Range(HitScores(q)))
Kept(q, d, dNeg) ==
    d \notin DOMAIN q.judged
    /\ false_negative(dNeg, DensePos(q), ScoreOf(HitScores(q), d), BM25Bound(q)) # "drop"
\* random_pool: drawn until there are enough that were not excluded.
random_pool(q) ==
    LET others == DOMAIN q.bm25 \ DOMAIN q.judged IN kSubset(Min({PoolDepth, Cardinality(others)}), others)
\* mine: the pools of a query, one outcome per dense result and random pool.
mine(q) ==
    LET pool(s, dense(_)) == Top(Where(s, LAMBDA d : Kept(q, d, dense(d))), PoolDepth)
    IN  IF DOMAIN HitScores(q) = {} THEN {}
        ELSE {[pos |-> Positives(q),
               bm25 |-> pool(Sorted(HitScores(q)), LAMBDA d : ScoreOf(q.dense, d)),
               dense |-> pool(top, LAMBDA d : q.dense[d]), random |-> random] :
                 top \in exact_topk(q.dense, DenseDepth),
                 random \in random_pool(q)}
------------------------------------------------------------------------------
(* Groups. *)

\* needed_pids: the passages whose texts the trainer loads; a query is trained
\* on if it has a positive among them.
needed_pids(m, strategy) ==
    m.pos \cup m.random
    \cup (IF strategy \in {"bm25-hard", "mixed"} THEN Range(m.bm25) ELSE {})
    \cup (IF strategy \in {"dense-hard", "mixed"} THEN Range(m.dense) ELSE {})
Loaded(q, m, strategy) == [q EXCEPT !.text = [d \in DOMAIN @ \cap needed_pids(m, strategy) |-> @[d]]]
Trainable(q, m) == m.pos \cap DOMAIN q.text # {}
\* A negative must have a text, unlike that of any positive, and not be judged.
Ok(q, m, d, taken) ==
    /\ d \notin taken \cup m.pos \cup DOMAIN q.judged
    /\ d \in DOMAIN q.text
    /\ q.text[d] \notin {q.text[p] : p \in m.pos \cap DOMAIN q.text}
Draw(q, m, pool, n, taken) ==
    LET ok == {d \in pool : Ok(q, m, d, taken)} IN kSubset(Min({n, Cardinality(ok)}), ok)
\* Half of n, by Python's rounding of halves to even.
HalfRounded(n) == IF n % 4 = 3 THEN (n + 1) \div 2 ELSE n \div 2
\* group: the negatives of the strategy, topped up from the random pool.
Hard(q, m, strategy) ==
    CASE strategy = "random"     -> Draw(q, m, m.random, NNeg, {})
      [] strategy = "bm25-hard"  -> Draw(q, m, Range(m.bm25), NNeg, {})
      [] strategy = "dense-hard" -> Draw(q, m, Range(m.dense), NNeg, {})
      [] strategy = "mixed"      ->
            UNION {{first \cup second : second \in Draw(q, m, Range(m.dense), NNeg - Cardinality(first), first)} :
                      first \in Draw(q, m, Range(m.bm25), HalfRounded(NNeg), {})}
group(q, m, strategy) ==
    UNION {{[pos |-> p, hard |-> hard, topups |-> NNeg - Cardinality(hard), negs |-> hard \cup more] :
               p \in m.pos \cap DOMAIN q.text, more \in Draw(q, m, m.random, NNeg - Cardinality(hard), hard)} :
           hard \in Hard(q, m, strategy)}
------------------------------------------------------------------------------
(* Batches. *)

\* Encoder.encode: batches of the length order, as long as a batch stays within
\* MAX_BATCH rows and its rows times its longest within TOKEN_BUDGET tokens.
Fits(lens, i, j) == j - i + 1 <= MAX_BATCH /\ (j - i + 1) * lens[j] <= TOKEN_BUDGET
BatchEnd(lens, i) == Max({i} \cup {j \in i .. Len(lens) : \A h \in i .. j : Fits(lens, i, h)})
Batches(lens) ==
    LET from[i \in 1 .. Len(lens) + 1] ==
            IF i > Len(lens) THEN <<>> ELSE <<<<i, BatchEnd(lens, i)>>>> \o from[BatchEnd(lens, i) + 1]
    IN  from[1]
------------------------------------------------------------------------------
(* Rescoring. *)

\* load_candidates: the evaluator's order, cut at the depth.
load_candidates(hits, depth) == Top(rank_run(hits), depth)
\* Scorer.score: sorted by length, scored in batches, put back in input order.
LengthOrder(lengths) == Ordered(DOMAIN lengths, LAMBDA i, j : Ahead(-lengths[i], -lengths[j], i < j))
Scattered(lengths, scored) ==
    [i \in DOMAIN lengths |-> scored[CHOOSE n \in DOMAIN lengths : LengthOrder(lengths)[n] = i]]
encode(lengths, rows) ==
    LET order == LengthOrder(lengths)
        batches == Batches([n \in DOMAIN order |-> lengths[order[n]]])
        batch(b) == [n \in 1 .. b[2] - b[1] + 1 |-> rows[order[b[1] + n - 1]]]
    IN  Scattered(lengths, FlattenSeq([b \in DOMAIN batches |-> batch(batches[b])]))
scored_pairs(pairs, length, model) ==
    LET lengths == [i \in DOMAIN pairs |-> length[pairs[i]]]
        order == LengthOrder(lengths)
    IN  Scattered(lengths, [n \in DOMAIN pairs |-> model[pairs[order[n]]]])
\* rerank: one list of pairs for all queries, whose scores become a run.
Pairs(cands) ==
    FlattenSeq([n \in 1 .. Cardinality(DOMAIN cands) |->
        LET q == Ordered(DOMAIN cands, <)[n] IN [i \in DOMAIN cands[q] |-> <<q, cands[q][i]>>]])
rerank(firstStage, depth, length, model) ==
    LET cands == [q \in DOMAIN firstStage |-> load_candidates(firstStage[q], depth)]
        pairs == Pairs(cands)
        scores == scored_pairs(pairs, length, model)
    IN  [q \in DOMAIN cands |-> [d \in Range(cands[q]) |-> scores[CHOOSE i \in DOMAIN pairs : pairs[i] = <<q, d>>]]]

\* cascade_quality: the first k candidates by the cached scores, the others below
\* them in the first stage's order; at depth 0 the first stage's scores, which the
\* cache holds in single precision.
Single(score) == score - (score % Grain)
CascadeRun(cands, k, model) ==
    [q \in DOMAIN cands |->
        LET list == cands[q]
            scored(i) == model[<<q, list[i]>>]
            head == Ordered(DOMAIN Top(list, k), LAMBDA i, j : Ahead(scored(i), scored(j), i < j))
            final == [i \in DOMAIN head |-> list[head[i]]] \o SubSeq(list, k + 1, Len(list))
        IN  [d \in Range(list) |-> Len(list) - RankIn(final, d)]]
cascade_quality(cands, k, firstStage, model) ==
    IF k = 0 THEN [q \in DOMAIN cands |-> [d \in Range(cands[q]) |-> Single(firstStage[q][d])]]
    ELSE CascadeRun(cands, k, model)

\* build_val: the first judged queries in the order of their id strings, each
\* with the first hits of the run file; validate scores them as one list.
build_val(queries, qrels, hits, n, depth) ==
    LET qids == Range(Top(Ordered(queries \cap DOMAIN qrels, StringBelow), n)) IN
    [qrels |-> [q \in qids |-> qrels[q]], cands |-> [q \in qids \cap DOMAIN hits |-> Top(hits[q], depth)]]
validate(val, length, model, m) ==
    LET pairs == Pairs(val.cands)
        scores == scored_pairs(pairs, length, model)
        of(q) == {i \in DOMAIN pairs : pairs[i][1] = q}
    IN  evaluate([q \in DOMAIN val.cands |->
                     [d \in {pairs[i][2] : i \in of(q)} |-> scores[CHOOSE i \in of(q) : pairs[i][2] = d]]],
                 val.qrels, m)
------------------------------------------------------------------------------
(* What they promise. *)

\* Whatever ties argpartition breaks at the chunks' cuts, the scores found are the
\* best there are, best first, ties by row.
TopKIsExact(score, k) ==
    \A s \in exact_topk(score, k) \cup flat_topk(score, k) :
        LET best == Top(ByScoreThenRow(score, DOMAIN score), k) IN
        /\ IsInjective(s) /\ Len(s) = Len(best)
        /\ \A i \in DOMAIN s : score[s[i]] = score[best[i]]
        /\ \A i \in DOMAIN s \ {1} : score[s[i - 1]] = score[s[i]] => s[i - 1] < s[i]

\* No group has a judged passage or the text of a positive among its negatives; it
\* is full unless every usable passage of the random pool is in it; its strategy
\* is topped up only when its last pool gave all it has.  A hit is held back as a
\* false negative only if it does beat every positive: in the dense scores those
\* that were encoded, in BM25 all of them, also those the run file does not have.
NegativesAreClean(q, mined) ==
    \A m \in mined :
        /\ (Range(m.bm25) \cup Range(m.dense) \cup m.random) \cap DOMAIN q.judged = {}
        /\ Len(m.bm25) < PoolDepth =>
              \A d \in DOMAIN HitScores(q) \ (Range(m.bm25) \cup DOMAIN q.judged) :
                  /\ \A p \in Positives(q) : q.bm25[d] >= q.bm25[p]
                  /\ \A p \in Positives(q) \cap DOMAIN q.encoded : q.dense[d] >= q.encoded[p]
        /\ \A strategy \in {"random", "bm25-hard", "dense-hard", "mixed"} :
           Trainable(Loaded(q, m, strategy), m) => \A g \in group(Loaded(q, m, strategy), m, strategy) :
              /\ g.pos \in Positives(q)
              /\ g.negs \cap DOMAIN q.judged = {}
              /\ \A d \in g.negs, p \in Positives(q) \cap DOMAIN q.text : q.text[d] # q.text[p]
              /\ Cardinality(g.negs) <= NNeg
              /\ Cardinality(g.negs) < NNeg => {d \in m.random : Ok(q, m, d, {})} \subseteq g.negs
              /\ g.topups > 0 /\ strategy \in {"dense-hard", "mixed"} =>
                    {d \in Range(m.dense) : Ok(q, m, d, {})} \subseteq g.negs

\* A batch is within its limits unless it is a single row, every row is encoded
\* once, and the rows come back in the order they were given in.
EncodedInOrder(lengths) ==
    LET order == LengthOrder(lengths)
        lens == [n \in DOMAIN order |-> lengths[order[n]]]
    IN  /\ \A b \in Range(Batches(lens)) :
              b[1] = b[2] \/ (b[2] - b[1] < MAX_BATCH
                              /\ \A i \in b[1] .. b[2] : (b[2] - b[1] + 1) * lens[i] <= TOKEN_BUDGET)
        /\ encode(lengths, [i \in DOMAIN lengths |-> i]) = [i \in DOMAIN lengths |-> i]

\* Validation is the evaluation of what the model makes of each query's hits.
ValidatedAsEvaluated(hits, qrels, n, depth, length) ==
    LET val == build_val(DOMAIN hits, qrels, hits, n, depth)
        m == Metric("RR", depth, 1)
    IN  validate(val, length, length, m)
            = evaluate([q \in DOMAIN val.qrels |-> [d \in Range(Top(hits[q], depth)) |-> length[<<q, d>>]]],
                       val.qrels, m)

\* The candidates are cut where the evaluator would cut, so the first stage's
\* metrics at the depth are those of its whole run; a model that gives the first
\* stage's scores reproduces them, whatever the lengths of the pairs; and no model
\* finds more relevant passages than the depth has.
RerankIsComparable(firstStage, qrels, depth, length) ==
    LET same == rerank(firstStage, depth, length, [p \in DOMAIN length |-> firstStage[p[1]][p[2]]])
        other == rerank(firstStage, depth, length, length)
        m == Metric("nDCG", depth, 1)
        recall == Metric("R", depth, 1)
    IN  /\ evaluate(same, qrels, m) = evaluate(firstStage, qrels, m)
        /\ evaluate(other, qrels, recall) = evaluate(firstStage, qrels, recall)

\* The points of the cascade curve are comparable: reranking to a depth finds what
\* the first stage finds to that depth; to depth 1 it is the first stage itself,
\* unless single precision has made scores tie; and at the full depth it is the
\* reranker's own run, unless scores of a query tie, which the two order differently.
CascadeIsComparable(firstStage, qrels, depth, model) ==
    LET cands == [q \in DOMAIN firstStage |-> load_candidates(firstStage[q], depth)]
        at(k) == cascade_quality(cands, k, firstStage, model)
        quality(run) == evaluate(run, qrels, Metric("nDCG", depth, 1))
        full == rerank(firstStage, depth, model, model)
    IN  /\ \A k \in 1 .. depth : LET found == Metric("R", k, 1) IN
              evaluate(at(k), qrels, found) = evaluate(firstStage, qrels, found)
        /\ \A q \in DOMAIN cands :
              /\ IsInjective(at(0)[q]) => quality(at(1))[q] = quality(at(0))[q]
              /\ IsInjective(full[q]) => quality(at(depth))[q] = quality(full)[q]
==============================================================================
