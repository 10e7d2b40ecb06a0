--------------------------- MODULE DataPreparation ---------------------------
(***************************************************************************)
(* From the downloads to the evaluation data: data_download.sh, which ends  *)
(* in data/prepare.py, and data_subset.sh, which is data/subset.py, run one *)
(* after the other (README.md), killed anywhere and run again.  A file is   *)
(* absent, torn (opened and not yet written), bad (complete, and not what   *)
(* it should be) or whole; of the files of the subset the model knows which *)
(* draw they were made from.  The seed is fixed, but NumPy keeps no stream  *)
(* across its versions: a run draws anew.                                   *)
(***************************************************************************)
EXTENDS Evaluation

\* The passages; the grades of dev, DL19 and DL20 together and of the train
\* queries, of which TrainQueries have a text; the sizes of the draws.
CONSTANTS Collection, EvalQrels, TrainQrels, TrainQueries, SubsetSize, NTune, NFifty, MaxDataRuns

VARIABLES
    stage,     \* what the present run does next, or how it ended
    disk,      \* the state of every file
    open,      \* the file being written and the state it will have, or Closed
    draw,      \* what the present run drew, if it has got that far
    madeFrom,  \* the draw that each file of the subset was last made from
    dataRuns   \* how often the chain was run again, at most MaxDataRuns times
dataVars == <<stage, disk, open, draw, madeFrom, dataRuns>>

SubsetFiles == {"collection", "docids", "qrels", "tune", "fifty", "READY"}
Files == {"tarball", "topics", "verified", "raw", "trec"} \cup SubsetFiles
Closed == <<>>
Ended == {"done", "stopped", "failed"}
------------------------------------------------------------------------------
(* What is drawn, and what the files hold. *)

Positive(judged) == {d \in DOMAIN judged : judged[d] > 0}
relevant_pids == UNION {Positive(EvalQrels[q]) : q \in DOMAIN EvalQrels}
Subset(sample) == relevant_pids \cup sample
\* The relevant passages are in the collection, which is not endless.
ASSUME CollectionAssumption ==
    IsFiniteSet(Collection) /\ relevant_pids \subseteq Collection /\ SubsetSize \in Nat
Filtered(sample) ==
    [q \in {p \in DOMAIN EvalQrels : DOMAIN EvalQrels[p] \cap Subset(sample) # {}} |->
        [d \in DOMAIN EvalQrels[q] \cap Subset(sample) |-> EvalQrels[q][d]]]
Judged == DOMAIN TrainQrels \cap TrainQueries
Eligible(sample) ==
    {q \in Judged : Positive(TrainQrels[q]) # {} /\ Positive(TrainQrels[q]) \subseteq Subset(sample)}
\* The three draws, in their order; each without replacement.
Draws ==
    UNION {UNION {{[sample |-> s, tune |-> t, fifty |-> f] : f \in kSubset(NFifty, Judged \ t)} :
                      t \in kSubset(NTune, Eligible(s))} :
              s \in kSubset(SubsetSize - Cardinality(relevant_pids), Collection \ relevant_pids)}
NoDraw == [sample |-> {}, tune |-> {}, fifty |-> {}]
------------------------------------------------------------------------------
At(now, next) == stage = now /\ open = Closed /\ stage' = next
\* A file written in place: torn until FinishFile.
Open(f, state) ==
    disk' = [disk EXCEPT ![f] = "torn"] /\ open' = [file |-> f, state |-> state]
Set(f, state) == disk' = [disk EXCEPT ![f] = state] /\ UNCHANGED open
SameFiles == UNCHANGED <<disk, open>>
Past == UNCHANGED <<draw, madeFrom, dataRuns>>
FinishFile ==
    /\ open # Closed
    /\ disk' = [disk EXCEPT ![open.file] = open.state] /\ open' = Closed
    /\ UNCHANGED <<stage, draw, madeFrom, dataRuns>>
\* No room on the disk, or no network: the run ends before it has done anything.
Stop == At(stage, "stopped") /\ stage \in {"download", "extract", "subset"} /\ SameFiles /\ Past

\* data_download.sh: what exists is not fetched again.  The tarball is put
\* together whatever became of its parts; an error page counts as a topic file,
\* a broken transfer leaves one torn and ends the script.
FetchTarball ==
    /\ At("download", "topics")
    /\ IF disk["tarball"] = "absent" /\ disk["verified"] = "absent"
       THEN \E got \in {"whole", "bad"} : Open("tarball", got)
       ELSE SameFiles
    /\ Past
FetchTopics ==
    /\ IF disk["topics"] # "absent" THEN At("topics", "verify") /\ SameFiles
       ELSE \/ At("topics", "verify") /\ \E got \in {"whole", "bad"} : Open("topics", got)
            \/ At("topics", "stopped") /\ Set("topics", "torn")
    /\ Past

\* prepare.main: MD5 sums, that of a tarball that is gone by its marker.
Verified ==
    /\ disk["topics"] = "whole"
    /\ IF disk["tarball"] = "absent" THEN disk["verified"] = "whole" ELSE disk["tarball"] = "whole"
Verify == At("verify", IF Verified THEN "extract" ELSE "failed") /\ SameFiles /\ Past
\* The tarball is extracted, marked as verified, and removed, if it is there.
Extract ==
    /\ IF disk["tarball"] = "absent" THEN At("extract", "count") /\ SameFiles
       ELSE At("extract", "mark") /\ Open("raw", disk["tarball"])
    /\ Past
Mark == At("mark", "unlink") /\ Open("verified", "whole") /\ Past
Unlink == At("unlink", "count") /\ Set("tarball", "absent") /\ Past
\* The lines of two of the extracted files are counted.
CountLines ==
    /\ \/ At("count", "layout")
       \/ disk["raw"] # "whole" /\ At("count", "failed")
    /\ SameFiles /\ Past
Layout ==
    /\ IF disk["topics"] = "whole" THEN At("layout", "subset") /\ Open("trec", "whole")
       ELSE At("layout", "failed") /\ SameFiles
    /\ Past
------------------------------------------------------------------------------
(* subset.main *)

\* Faulty variant of DrawSubset: READY is left from the run before.
DrawKeepingReady ==
    /\ At("subset", "collection") /\ draw' \in Draws
    /\ SameFiles /\ UNCHANGED <<madeFrom, dataRuns>>
\* READY is removed before anything is drawn.
DrawSubset ==
    /\ At("subset", "collection") /\ draw' \in Draws
    /\ Set("READY", "absent") /\ UNCHANGED <<madeFrom, dataRuns>>
Made(f) == madeFrom' = [madeFrom EXCEPT ![f] = draw] /\ UNCHANGED <<draw, dataRuns>>
Sound == IF disk["raw"] = "whole" /\ disk["trec"] = "whole" THEN "whole" ELSE "bad"
\* The collection and its ids are renamed into place ...
WriteCollection == At("collection", "docids") /\ Set("collection", Sound) /\ Made("collection")
WriteDocids == At("docids", "qrels") /\ Set("docids", Sound) /\ Made("docids")
\* ... and judgments, queries and READY are written where they are.
WriteText ==
    \E f \in {<<"qrels", "tune">>, <<"tune", "fifty">>, <<"fifty", "READY">>, <<"READY", "done">>} :
        At(f[1], f[2]) /\ Open(f[1], Sound) /\ Made(f[1])

DataInit ==
    /\ stage = "download" /\ open = Closed /\ draw = NoDraw /\ dataRuns = 0
    /\ disk = [f \in Files |-> "absent"] /\ madeFrom = [f \in SubsetFiles |-> NoDraw]
\* The chain is run again, after its end or a crash.
RunDataAgain ==
    /\ dataRuns < MaxDataRuns /\ dataRuns' = dataRuns + 1
    /\ stage' = "download" /\ open' = Closed /\ draw' = NoDraw
    /\ UNCHANGED <<disk, madeFrom>>
DataStep ==
    \/ FetchTarball \/ FetchTopics \/ Verify \/ Extract \/ Mark \/ Unlink \/ CountLines \/ Layout
    \/ DrawSubset \/ WriteCollection \/ WriteDocids \/ WriteText \/ FinishFile \/ Stop
DataSpec == DataInit /\ [][DataStep \/ RunDataAgain]_dataVars
------------------------------------------------------------------------------
(* What they promise. *)

\* Where READY is, the subset is final: no file of it is missing, torn or of
\* another draw; no relevant passage is missing, none is judged that is not in it,
\* the tuning queries can be answered from it, and the reranker is trained on
\* none of them (docs/DATA.md "the subset and its qrels are final").
SubsetIsFinal ==
    disk["READY"] # "absent" =>
        LET d == madeFrom["collection"] IN
        /\ \A f \in SubsetFiles \ {"READY"} : disk[f] = "whole" /\ madeFrom[f] = d
        /\ Cardinality(Subset(d.sample)) = SubsetSize
        /\ \A q \in DOMAIN EvalQrels :
              Positive(EvalQrels[q]) # {} =>
                  /\ q \in DOMAIN Filtered(d.sample)
                  /\ Positive(Filtered(d.sample)[q]) = Positive(EvalQrels[q])
        /\ \A q \in DOMAIN Filtered(d.sample) : DOMAIN Filtered(d.sample)[q] \subseteq Subset(d.sample)
        /\ \A q \in d.tune : Positive(TrainQrels[q]) \subseteq Subset(d.sample)
        /\ d.tune \cap d.fifty = {}
\* Wherever it was killed, a tarball is removed only when what was in it is there,
\* and a run fails only where a download was torn or bad, which no later run
\* fetches again.
DownloadsAreKept ==
    /\ disk["tarball"] = "absent" /\ disk["verified"] # "absent" => disk["raw"] = "whole"
    /\ stage = "failed" => {disk["tarball"], disk["topics"]} \cap {"torn", "bad"} # {}
\* Evaluation data that is marked as ready is final, and preparing it can be
\* repeated after any crash, except where a download was left torn or bad
\* (data_download.sh, prepare.py, subset.py).
DataIsFinal == SubsetIsFinal /\ DownloadsAreKept
==============================================================================
