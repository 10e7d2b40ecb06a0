---------------------------- MODULE ClickRankers -----------------------------
(***************************************************************************)
(* The rankers that the click experiments compare (clicks/rankers.py): runs *)
(* of scores per document, their fusion, a noisy oracle, and the table of   *)
(* what each ranker shows with its offline quality.                         *)
(***************************************************************************)
EXTENDS Interleaving

\* ranked: score descending, ties by numeric id; a run is a score per document.
Sorted(scores) == Ordered(DOMAIN scores, LAMBDA d, e : Ahead(scores[d], scores[e], d < e))
\* rrf of any number of runs, k + rank dividing Unit.
RRFScores(runs, k, depth) ==
    LET list(i) == Top(Sorted(runs[i]), depth)
        share(i, d) == IF d \in Range(list(i)) THEN Unit \div (k + RankIn(list(i), d)) ELSE 0
    IN  [d \in UNION {Range(list(i)) : i \in DOMAIN runs} |->
            MapThenSumSet(LAMBDA i : share(i, d), DOMAIN runs)]
\* synthetic_noisy_oracle: grade plus sigma times the noise, cut at the depth.
NoisyOracle(judged, sigma, noise, depth) ==
    LET scores == [d \in DOMAIN noise |-> Grade(judged, d) + sigma * noise[d]]
        kept == Range(Top(Sorted(scores), depth))
    IN  [d \in kept |-> scores[d]]
\* build_table: the topics every run has, and each ranker's first k there.
build_table(runs, qrels, k) ==
    [r \in DOMAIN runs |-> [q \in {p \in DOMAIN qrels : \A s \in DOMAIN runs : p \in DOMAIN runs[s]} |->
        Top(Sorted(runs[r][q]), k)]]
\* RankerTable.ndcg: the ideal has the positive grades only.
TableNdcg(list, judged, k) ==
    LET positive == [d \in {e \in DOMAIN judged : judged[e] > 0} |-> judged[d]]
        gains == [i \in 1 .. Len(Top(list, k)) |-> Grade(judged, list[i])]
        ideal == [i \in 1 .. Len(Top(Sorted(positive), k)) |-> positive[Sorted(positive)[i]]]
    IN  IF DCG(ideal) = 0 THEN 0 ELSE (Unit * DCG(gains)) \div DCG(ideal)
==============================================================================
