-------------------------- MODULE MCOfflineStudies ---------------------------
(* OfflineStudies for TLC: a few documents, lists of up to three, two        *)
(* queries; ids of one and of two digits, which strings order differently.   *)
EXTENDS OfflineStudies

MCAlpha == <<5, 30, 70, 95>>
MCSigma == <<20, 30, 70, 90>>
MCKs == <<1, 2, 3>>
MCAlphas == <<0, 3, 5, 7, 10>>
------------------------------------------------------------------------------
\* Ranked lists with steep and flat scores and a tie, empty ones included.
Hit(d, s) == [doc |-> d, score |-> s]
MCRankings ==
    {<<>>, <<Hit(9, 2)>>, <<Hit(10, 4), Hit(9, 1)>>, <<Hit(9, 5), Hit(10, 4), Hit(11, 1)>>,
     <<Hit(11, 3), Hit(9, 2), Hit(10, 2)>>, <<Hit(10, 5), Hit(12, 2), Hit(9, 1)>>, <<Hit(12, 2), Hit(11, 1)>>}
MCJudged == {[d \in {9, 10} |-> d - 8], [d \in {11, 12} |-> 12 - d], [d \in {9, 10, 11} |-> IF d = 11 THEN 3 ELSE 1]}
MCFusionInputs ==
    {[lex |-> (1 :> l1 @@ 2 :> l2), dense |-> (1 :> d1 @@ 2 :> d2), qrels |-> (1 :> j @@ 2 :> [d \in {9} |-> 1])] :
        l1 \in MCRankings, d1 \in MCRankings, j \in MCJudged,
        l2 \in {<<>>, <<Hit(10, 2), Hit(9, 1)>>}, d2 \in {<<Hit(9, 3), Hit(11, 1)>>}}

MCDrafts == {s \in UNION {[1 .. n -> 1 .. 4] : n \in 0 .. 3} : IsInjective(s)}
DraftInputsWith(ranking, judged, ks) ==
    {[a |-> ranking, b |-> m, k |-> k, judged |-> judged, users |-> {0, 1}] : m \in MCDrafts, k \in ks}
MCDraftInputs ==
    DraftInputsWith(<<1, 2, 3>>, 1 :> 1, {2, 3})
    \cup DraftInputsWith(<<1, 2, 3>>, 2 :> 2 @@ 4 :> 1, {2, 3}) \cup DraftInputsWith(<<1, 2>>, 2 :> 2 @@ 4 :> 1, {3})
    \cup UNION {DraftInputsWith(l, 2 :> 2 @@ 4 :> 1, {1, 2}) : l \in {<<>>, <<1>>}}
------------------------------------------------------------------------------
MCExperiments == {[id |-> "x", kind |-> "interleave", allocation |-> 5, model |-> "pbm"],
                  [id |-> "y", kind |-> "ab", allocation |-> 5, model |-> "dbn"],
                  [id |-> "z", kind |-> "aa", allocation |-> 5, model |-> "dbn"]}
Experiment(x) == CHOOSE e \in MCExperiments : e.id = x
\* A user who clicks whatever attracts at all (0), what is relevant (50), or nothing.
MCDraws(c) == [r \in 1 .. 2 |-> [click |-> c, sat |-> 80, cont |-> 40]]
Request(x, n, bucket, arm, draws) ==
    [experiment |-> Experiment(x), session |-> [id |-> n, bucket |-> bucket, arm |-> arm], request |-> <<"r1", "r2">>[n],
     coins |-> <<n = 1, TRUE>>, draws |-> draws]
MCConfig == [e \in {"x"} |-> "interleave"] @@ [e \in {"y", "z"} |-> "ab"]
MCExperimentInputs ==
    {[control |-> <<1, 2>>, treatment |-> tc[1], judged |-> [d \in {1, 3} |-> 3], config |-> tc[2],
      requests |-> {Request(e[1], 1, 3, 1, MCDraws(u)), Request(e[2], 2, e[3], 0, MCDraws(v))}] :
        e \in {<<"x", "x", 2>>, <<"x", "z", 7>>, <<"y", "x", 2>>}, u \in {0, 50}, v \in {50, 99},
        tc \in {<<<<2, 1>>, NoMap>>, <<<<3, 1>>, MCConfig>>}}
------------------------------------------------------------------------------
MCTopic == 1 :> 3 @@ 2 :> 1 @@ 3 :> 0
MCSigmas == <<1, 2>>
MCNoise == <<0, 3, 2>>
MCModels == <<"pbm">>
MCSignificant(x, y) == Abs(x - y) >= 5
\* With one trial team draft does not reach its power (n80 is None), with more it
\* does; the A/B test needs other impressions with another pool.
MCTdiN80(cell) == IF cell.trials = 1 THEN NotReached ELSE <<1, cell.trials>>
MCBestAB(cell) == <<"ctr", cell.M>>
RealRun(words, run) == [name |-> Name(words, 0), run |-> run]
BM25(last) == RealRun({"bm25"}, 1 :> 2 @@ 2 :> 3 @@ last :> 1)
Dense1m == RealRun({"dense", "1m"}, 2 :> 2 @@ 3 :> 3)
Inputs(real, m, t, s) == [real |-> real, subset |-> {2, 3, 4, 5}, M |-> m, trials |-> t, vt |-> t, seed |-> s]
MCStudyInputs ==
    {Inputs(<<BM25(4), Dense1m>>, 1, 1, 1), Inputs(<<BM25(5), Dense1m>>, 1, 1, 1),
     Inputs(<<BM25(4), RealRun({"dense"}, 1 :> 2 @@ 3 :> 3)>>, 2, 1, 1),
     Inputs(<<BM25(4), RealRun({"bm25", "1m"}, 2 :> 2), Dense1m>>, 1, 2, 1), Inputs(<<BM25(4), Dense1m>>, 1, 1, 2)}
MCStudies == StudiesOf(MCStudyInputs)
------------------------------------------------------------------------------
\* Run files, the 1M subset of the collection, and the scores of candidates.
Run(f, g) == 1 :> f @@ 2 :> g
MCRuns == {Run(2 :> 3 @@ 9 :> 2 @@ 10 :> 1, 9 :> 2 @@ 11 :> 1), Run(9 :> 3 @@ 11 :> 3, 2 :> 1),
           Run(2 :> 1 @@ 9 :> 2 @@ 10 :> 2 @@ 11 :> 4, 2 :> 1 @@ 9 :> 2)}
File(w, r) == [world |-> w, run |-> r]
LtrInput(l, e, dn, g, src, tq, x, y, z) ==
    [files |-> [bm25 |-> [s \in {"train", "eval"} |-> <<File("1m", NoRun), File("full", IF s = "train" THEN l ELSE e)>>],
                dense |-> [s \in {"train", "eval"} |-> IF dn = NoRun THEN <<>> ELSE <<File("1m", dn)>>],
                subset |-> {2, 9, 11}, scored |-> [d \in {2, 9, 10, 11} |-> (7 * d) % 5],
                qrels |-> [s \in {"train", "eval"} |-> IF s = "train" THEN Run(2 :> 1 @@ 11 :> 1, 9 :> g)
                                                       ELSE Run(9 :> 3 @@ 10 :> 1, 11 :> g @@ 2 :> 2)]],
     opts |-> [source |-> src, trainQueries |-> tq], theta |-> [bm25 |-> 1, dense |-> 2, rr |-> 0], k |-> 2,
     est |-> <<60, x, y>>, support |-> <<1, 2, z>>]
MCLtrInputs ==
    {LtrInput(l, e, dn, g, src, tq, 20, 40, 3) :
        l \in MCRuns, e \in MCRuns, dn \in MCRuns \cup {NoRun}, g \in {0, 1}, src \in {"runs", "candidates"},
        tq \in {{1}, {1, 2}}}
    \cup {LtrInput(l, l, NoRun, 1, "runs", {1}, x, y, z) :
             l \in MCRuns, x \in {NoData, 20, 60, 70}, y \in {NoData, 5, 40}, z \in {0, 3}}
------------------------------------------------------------------------------
MCPassages == {2, 9, 10, 11, 12}
MCMiningInputs ==
    {[judged |-> j, encoded |-> e, covered |-> c, text |-> t,
      bm25 |-> 2 :> 2 @@ 9 :> b[1] @@ 10 :> b[2] @@ 11 :> 3 @@ 12 :> 1,
      dense |-> 2 :> 2 @@ 9 :> 2 * v[1] @@ 10 :> 2 * v[2] @@ 11 :> 5] :
        j \in {2 :> 1, 2 :> 1 @@ 9 :> 0, 2 :> 1 @@ 10 :> 2, 12 :> 1, 12 :> 1 @@ 2 :> 1},
        e \in {2 :> 2, [d \in {} |-> 1]}, c \in {TRUE, FALSE},
        b \in {<<1, 3>>, <<3, 1>>, <<3, 3>>}, v \in {<<0, 2>>, <<1, 1>>, <<2, 0>>, <<2, 2>>, <<3, 1>>},
        t \in {[d \in MCPassages |-> d], [d \in MCPassages |-> IF d = 9 THEN 2 ELSE d],
               [d \in MCPassages \ {10} |-> IF d = 12 THEN 11 ELSE d]}}
------------------------------------------------------------------------------
MCEvalQrels == "dev" :> (2 :> 1) @@ "dl19" :> (2 :> 0 @@ 9 :> 0 @@ 10 :> 0) @@ "dl20" :> (9 :> 0)
MCTrainQrels == <<2 :> 1, 2 :> 1 @@ 9 :> 1, 10 :> 0, 10 :> 1>>
MCAsks == {[queries |-> {1}, passages |-> {3, 9}], [queries |-> {2}, passages |-> {1, 9}]}
==============================================================================
