------------------------ MODULE OfflineStudiesProofs ------------------------
(***************************************************************************)
(* The offline studies, for every value of the constants and any number of  *)
(* crashes.  The preparation of the evaluation data: what READY stands for  *)
(* is final, and no download is removed before what was in it is on the     *)
(* disk.  The cache of the dense feature: an id stands for its own vector,  *)
(* whatever was killed between the writes of the two.  The cache of the     *)
(* sensitivity study: the cells and A/A tests that a killed and repeated    *)
(* study reports are those of a fresh one, a validation is as fresh as its  *)
(* key, and what is compared can be compared; for that, how a run's         *)
(* rankers, pairs and plan come about, and the invariant of the cells.      *)
(* The experiments: what the analyser makes of the events that              *)
(* arrived is what was served, in whatever order they came and however many *)
(* of them.  The reranker's data and the fusion study: what is mined is     *)
(* clean and comparable, and what is reported is what was tuned, by         *)
(* RankingProofs, which also says what the operators on sequences and the   *)
(* sorts do.                                                                *)
(***************************************************************************)
EXTENDS OfflineStudies, RankingProofs, FiniteSetTheorems, SequenceTheorems, WellFoundedInduction, TLAPS

States == {"absent", "torn", "bad", "whole"}
DataTypes ==
    /\ disk \in [Files -> States] /\ madeFrom \in [SubsetFiles -> Draws \cup {NoDraw}]
    /\ draw \in Draws \cup {NoDraw}
    /\ open = Closed \/ open \in [file : Files, state : States \ {"absent"}]

\* A file is open between the stage that opened it and the next.
OpenedAt ==
    {<<"tarball", "topics">>, <<"topics", "verify">>, <<"raw", "mark">>, <<"verified", "unlink">>, <<"trec", "subset">>,
     <<"qrels", "tune">>, <<"tune", "fifty">>, <<"fifty", "READY">>, <<"READY", "done">>}
\* What the finished write of a file makes of it.
IsWhole(f) == disk[f] = "whole" \/ (open # Closed /\ open.file = f /\ open.state = "whole")
OpenInv ==
    open # Closed => /\ <<open.file, stage>> \in OpenedAt /\ disk[open.file] = "torn"
                     /\ open.file \notin {"tarball", "topics"} => open.state = "whole"

\* The downloads.
Extracted == {"count", "layout", "subset", "collection", "docids", "qrels", "tune", "fifty", "READY", "done"}
Drawn   == Extracted \ {"count", "layout", "subset"}
DownloadInv ==
    /\ disk["tarball"] = "absent" /\ disk["verified"] # "absent" =>
           disk["verified"] = "whole" /\ disk["raw"] = "whole"
    /\ stage \in {"topics", "verify"} => disk["tarball"] # "absent" \/ disk["verified"] # "absent"
    /\ stage = "verify" => disk["topics"] # "absent"
    /\ stage \in {"extract", "mark", "unlink"} \cup Extracted => disk["topics"] = "whole"
    /\ stage = "extract" => disk["tarball"] \in {"absent", "whole"}
    /\ stage = "extract" /\ disk["tarball"] = "absent" => disk["raw"] = "whole"
    /\ stage \in {"mark", "unlink"} => disk["tarball"] = "whole" /\ IsWhole("raw")
    /\ stage = "unlink" => IsWhole("verified")
    /\ stage \in Extracted => disk["raw"] = "whole"
    /\ stage \in {"subset"} \cup Drawn => IsWhole("trec")
    /\ stage = "failed" => {disk["tarball"], disk["topics"]} \cap {"torn", "bad"} # {}

\* The subset: what this run has written is of its draw, and READY comes last.
WrittenBefore(f) ==
    CASE f = "collection" -> Drawn \ {"collection"}
      [] f = "docids" -> Drawn \ {"collection", "docids"}
      [] f = "qrels" -> {"tune", "fifty", "READY", "done"}
      [] f = "tune" -> {"fifty", "READY", "done"}
      [] f = "fifty" -> {"READY", "done"}
Data == SubsetFiles \ {"READY"}
SubsetInv ==
    /\ stage \in Drawn => draw \in Draws
    /\ stage \in Drawn \ {"done"} => disk["READY"] = "absent"
    /\ \A f \in Data : stage \in WrittenBefore(f) => madeFrom[f] = draw /\ IsWhole(f)
    /\ disk["READY"] # "absent" =>
          /\ madeFrom["collection"] \in Draws
          /\ \A f \in Data : disk[f] = "whole" /\ madeFrom[f] = madeFrom["collection"]
DataInv == DataTypes /\ OpenInv /\ DownloadInv /\ SubsetInv
-----------------------------------------------------------------------------
(* One file changes. *)

LEMMA OpenIsNotClosed == \A f, s : [file |-> f, state |-> s] # Closed
<1>1. SUFFICES ASSUME NEW f, NEW s PROVE DOMAIN [file |-> f, state |-> s] # DOMAIN Closed
  OBVIOUS
<1>2. "file" \in DOMAIN [file |-> f, state |-> s]
  OBVIOUS
<1>3. DOMAIN Closed = {}
  BY DEF Closed
<1>4. QED
  BY <1>2, <1>3

LEMMA Opening ==
    ASSUME DataTypes, NEW f \in Files, NEW s \in States \ {"absent"}, Open(f, s)
    PROVE  /\ disk' \in [Files -> States] /\ disk'[f] = "torn"
           /\ \A g \in Files : g # f => disk'[g] = disk[g]
           /\ open' \in [file : Files, state : States \ {"absent"}]
           /\ open' # Closed /\ open'.file = f /\ open'.state = s
  BY OpenIsNotClosed DEF DataTypes, Open, States

LEMMA Setting ==
    ASSUME DataTypes, NEW f \in Files, NEW s \in States, Set(f, s)
    PROVE  /\ disk' \in [Files -> States] /\ disk'[f] = s
           /\ \A g \in Files : g # f => disk'[g] = disk[g]
           /\ open' = open
  BY DEF DataTypes, Set

LEMMA Finishing ==
    ASSUME DataTypes, OpenInv, FinishFile
    PROVE  /\ disk' \in [Files -> States] /\ open' = Closed /\ open # Closed
           /\ open.file \in Files /\ disk'[open.file] = open.state
           /\ \A g \in Files : g # open.file => disk'[g] = disk[g]
           /\ \A g \in Files : IsWhole(g) => disk'[g] = "whole"
<1>1. open \in [file : Files, state : States \ {"absent"}] /\ open # Closed
  BY DEF DataTypes, FinishFile
<1>2. disk' = [disk EXCEPT ![open.file] = open.state] /\ open' = Closed
  BY DEF FinishFile
<1>3. \A g \in Files : IsWhole(g) => disk'[g] = "whole"
  BY <1>1, <1>2 DEF DataTypes, IsWhole, OpenInv
<1>4. QED
  BY <1>1, <1>2, <1>3 DEF DataTypes

\* All files but the downloads are opened to be written whole.
FilesAre == Files = {"tarball", "topics", "verified", "raw", "trec", "collection", "docids", "qrels", "tune", "fifty", "READY"}
LEMMA TheFiles == FilesAre /\ Data = {"collection", "docids", "qrels", "tune", "fifty"}
  BY DEF FilesAre, Files, SubsetFiles, Data

LEMMA FileIsFinished ==
    ASSUME DataInv, FinishFile
    PROVE  DataInv'
<1>1. UNCHANGED <<stage, draw, madeFrom>>
  BY DEF FinishFile
<1>2. /\ disk' \in [Files -> States] /\ open' = Closed /\ open # Closed
      /\ open.file \in Files /\ disk'[open.file] = open.state
      /\ \A g \in Files : g # open.file => disk'[g] = disk[g]
      /\ \A g \in Files : IsWhole(g) => disk'[g] = "whole"
  BY Finishing DEF DataInv
<1>3. <<open.file, stage>> \in OpenedAt /\ open.state \in States \ {"absent"}
  BY <1>2 DEF DataInv, DataTypes, OpenInv
<1>4. DataTypes' /\ OpenInv'
  BY <1>1, <1>2 DEF DataInv, DataTypes, OpenInv
<1>5. DownloadInv'
  BY <1>1, <1>2, <1>3, TheFiles DEF DataInv, DownloadInv, IsWhole, OpenedAt, Extracted, Drawn, FilesAre, OpenInv
<1>6. SubsetInv'
  BY <1>1, <1>2, <1>3, TheFiles DEF DataInv, SubsetInv, IsWhole, OpenedAt, Extracted, Drawn, FilesAre, OpenInv
<1>7. QED
  BY <1>4, <1>5, <1>6 DEF DataInv

\* Nothing is written, and the next stage asks for no more than this one.
LEMMA StageOnly ==
    ASSUME DataInv, UNCHANGED <<disk, open, draw, madeFrom>>, open = Closed, DownloadInv', SubsetInv'
    PROVE  DataInv'
  BY DEF DataInv, DataTypes, OpenInv

LEMMA Downloading ==
    ASSUME DataInv, FetchTarball \/ FetchTopics
    PROVE  DataInv'
<1>1. UNCHANGED <<draw, madeFrom>> /\ open = Closed
  BY DEF FetchTarball, FetchTopics, At, Past
<1>2. CASE FetchTarball
  <2>1. stage = "download" /\ stage' = "topics"
    BY <1>2 DEF FetchTarball, At
  <2>2. CASE disk["tarball"] = "absent" /\ disk["verified"] = "absent"
    <3>1. PICK got \in {"whole", "bad"} : Open("tarball", got)
      BY <1>2, <2>2 DEF FetchTarball
    <3>2. /\ disk' \in [Files -> States] /\ disk'["tarball"] = "torn"
          /\ \A g \in Files : g # "tarball" => disk'[g] = disk[g]
          /\ open' \in [file : Files, state : States \ {"absent"}]
          /\ open' # Closed /\ open'.file = "tarball" /\ open'.state = got
      BY <3>1, Opening, TheFiles DEF DataInv, States, FilesAre
    <3>3. DataTypes' /\ OpenInv'
      BY <1>1, <2>1, <3>2 DEF DataInv, DataTypes, OpenInv, OpenedAt
    <3>4. DownloadInv'
      BY <2>1, <3>2, TheFiles DEF DataInv, DownloadInv, Extracted, Drawn, FilesAre
    <3>5. SubsetInv'
      BY <1>1, <2>1, <3>2, TheFiles DEF DataInv, SubsetInv, Extracted, Drawn, FilesAre, WrittenBefore
    <3>6. QED
      BY <3>3, <3>4, <3>5 DEF DataInv
  <2>3. CASE ~(disk["tarball"] = "absent" /\ disk["verified"] = "absent")
    <3>1. UNCHANGED <<disk, open>>
      BY <1>2, <2>3 DEF FetchTarball, SameFiles
    <3>2. DownloadInv' /\ SubsetInv'
      BY <1>1, <2>1, <2>3, <3>1, TheFiles DEF DataInv, DownloadInv, SubsetInv, Extracted, Drawn, WrittenBefore, IsWhole
    <3>3. QED
      BY <1>1, <3>1, <3>2, StageOnly
  <2>4. QED
    BY <2>2, <2>3
<1>3. CASE FetchTopics
  <2>1. CASE disk["topics"] # "absent"
    <3>1. stage = "topics" /\ stage' = "verify" /\ UNCHANGED <<disk, open>>
      BY <1>3, <2>1 DEF FetchTopics, At, SameFiles
    <3>2. DownloadInv' /\ SubsetInv'
      BY <1>1, <2>1, <3>1, TheFiles DEF DataInv, DownloadInv, SubsetInv, Extracted, Drawn, WrittenBefore, IsWhole
    <3>3. QED
      BY <1>1, <3>1, <3>2, StageOnly
  <2>2. CASE At("topics", "verify") /\ \E got \in {"whole", "bad"} : Open("topics", got)
    <3>1. PICK got \in {"whole", "bad"} : Open("topics", got)
      BY <2>2
    <3>2. /\ disk' \in [Files -> States] /\ disk'["topics"] = "torn"
          /\ \A g \in Files : g # "topics" => disk'[g] = disk[g]
          /\ open' \in [file : Files, state : States \ {"absent"}]
          /\ open' # Closed /\ open'.file = "topics" /\ open'.state = got
      BY <3>1, Opening, TheFiles DEF DataInv, States, FilesAre
    <3>3. stage = "topics" /\ stage' = "verify"
      BY <2>2 DEF At
    <3>4. DataTypes' /\ OpenInv'
      BY <1>1, <3>2, <3>3 DEF DataInv, DataTypes, OpenInv, OpenedAt
    <3>5. DownloadInv'
      BY <3>2, <3>3, TheFiles DEF DataInv, DownloadInv, Extracted, Drawn, FilesAre
    <3>6. SubsetInv'
      BY <1>1, <3>2, <3>3, TheFiles DEF DataInv, SubsetInv, Extracted, Drawn, FilesAre, WrittenBefore
    <3>7. QED
      BY <3>4, <3>5, <3>6 DEF DataInv
  <2>3. CASE At("topics", "stopped") /\ Set("topics", "torn")
    <3>1. /\ disk' \in [Files -> States] /\ disk'["topics"] = "torn" /\ open' = open
          /\ \A g \in Files : g # "topics" => disk'[g] = disk[g]
      BY <2>3, Setting, TheFiles DEF DataInv, States, FilesAre
    <3>2. stage = "topics" /\ stage' = "stopped"
      BY <2>3 DEF At
    <3>3. DataTypes' /\ OpenInv'
      BY <1>1, <3>1 DEF DataInv, DataTypes, OpenInv
    <3>4. DownloadInv'
      BY <3>1, <3>2, TheFiles DEF DataInv, DownloadInv, Extracted, Drawn, FilesAre
    <3>5. SubsetInv'
      BY <1>1, <3>1, <3>2, TheFiles DEF DataInv, SubsetInv, Extracted, Drawn, FilesAre, WrittenBefore
    <3>6. QED
      BY <3>3, <3>4, <3>5 DEF DataInv
  <2>4. QED
    BY <1>3, <2>1, <2>2, <2>3 DEF FetchTopics
<1>4. QED
  BY <1>2, <1>3

\* Between verification and layout the tarball goes last.
LEMMA Extracting ==
    ASSUME DataInv, Verify \/ Extract \/ Mark \/ Unlink \/ CountLines
    PROVE  DataInv'
<1>1. UNCHANGED <<draw, madeFrom>> /\ open = Closed
  BY DEF Verify, Extract, Mark, Unlink, CountLines, At, Past
<1>2. CASE Verify
  <2>1. /\ stage = "verify" /\ stage' \in {"extract", "failed"} /\ UNCHANGED <<disk, open>>
        /\ stage' = "extract" <=> Verified
    BY <1>2 DEF Verify, At, SameFiles
  <2>2. DownloadInv'
    BY <1>1, <2>1, TheFiles DEF DataInv, DataTypes, States, DownloadInv, Extracted, Drawn, IsWhole, Verified, FilesAre
  <2>3. SubsetInv'
    BY <1>1, <2>1, TheFiles DEF DataInv, SubsetInv, Drawn, Extracted, WrittenBefore, IsWhole
  <2>4. QED
    BY <1>1, <2>1, <2>2, <2>3, StageOnly
<1>3. CASE Extract /\ disk["tarball"] = "absent"
  <2>1. stage = "extract" /\ stage' = "count" /\ UNCHANGED <<disk, open>>
    BY <1>3 DEF Extract, At, SameFiles
  <2>2. DownloadInv' /\ SubsetInv'
    BY <1>1, <1>3, <2>1, TheFiles DEF DataInv, DownloadInv, SubsetInv, Extracted, Drawn, WrittenBefore, IsWhole
  <2>3. QED
    BY <1>1, <2>1, <2>2, StageOnly
<1>4. CASE Extract /\ disk["tarball"] # "absent"
  <2>1. stage = "extract" /\ stage' = "mark" /\ Open("raw", disk["tarball"]) /\ disk["tarball"] = "whole"
    BY <1>4 DEF Extract, At, DataInv, DownloadInv
  <2>2. /\ disk' \in [Files -> States] /\ disk'["raw"] = "torn"
        /\ \A g \in Files : g # "raw" => disk'[g] = disk[g]
        /\ open' \in [file : Files, state : States \ {"absent"}]
        /\ open' # Closed /\ open'.file = "raw" /\ open'.state = "whole"
    BY <2>1, Opening, TheFiles DEF DataInv, States, FilesAre
  <2>3. DataTypes' /\ OpenInv'
    BY <1>1, <2>1, <2>2 DEF DataInv, DataTypes, OpenInv, OpenedAt
  <2>4. DownloadInv'
    BY <2>1, <2>2, TheFiles DEF DataInv, DownloadInv, Extracted, Drawn, FilesAre, IsWhole
  <2>5. SubsetInv'
    BY <1>1, <2>1, <2>2, TheFiles DEF DataInv, SubsetInv, Extracted, Drawn, FilesAre, WrittenBefore
  <2>6. QED
    BY <2>3, <2>4, <2>5 DEF DataInv
<1>5. CASE Mark
  <2>1. stage = "mark" /\ stage' = "unlink" /\ Open("verified", "whole") /\ disk["raw"] = "whole"
    BY <1>1, <1>5 DEF Mark, At, DataInv, DownloadInv, IsWhole
  <2>2. /\ disk' \in [Files -> States] /\ disk'["verified"] = "torn"
        /\ \A g \in Files : g # "verified" => disk'[g] = disk[g]
        /\ open' \in [file : Files, state : States \ {"absent"}]
        /\ open' # Closed /\ open'.file = "verified" /\ open'.state = "whole"
    BY <2>1, Opening, TheFiles DEF DataInv, States, FilesAre
  <2>3. DataTypes' /\ OpenInv'
    BY <1>1, <2>1, <2>2 DEF DataInv, DataTypes, OpenInv, OpenedAt
  <2>4. DownloadInv'
    BY <2>1, <2>2, TheFiles DEF DataInv, DownloadInv, Extracted, Drawn, FilesAre, IsWhole
  <2>5. SubsetInv'
    BY <1>1, <2>1, <2>2, TheFiles DEF DataInv, SubsetInv, Extracted, Drawn, FilesAre, WrittenBefore
  <2>6. QED
    BY <2>3, <2>4, <2>5 DEF DataInv
<1>6. CASE Unlink
  <2>1. stage = "unlink" /\ stage' = "count" /\ Set("tarball", "absent")
    BY <1>6 DEF Unlink, At
  <2>2. /\ disk' \in [Files -> States] /\ disk'["tarball"] = "absent" /\ open' = open
        /\ \A g \in Files : g # "tarball" => disk'[g] = disk[g]
    BY <2>1, Setting, TheFiles DEF DataInv, States, FilesAre
  <2>3. DataTypes' /\ OpenInv'
    BY <1>1, <2>2 DEF DataInv, DataTypes, OpenInv
  <2>4. DownloadInv'
    BY <1>1, <2>1, <2>2, TheFiles DEF DataInv, DownloadInv, Extracted, Drawn, FilesAre, IsWhole
  <2>5. SubsetInv'
    BY <1>1, <2>1, <2>2, TheFiles DEF DataInv, SubsetInv, Extracted, Drawn, FilesAre, WrittenBefore
  <2>6. QED
    BY <2>3, <2>4, <2>5 DEF DataInv
<1>7. CASE CountLines
  <2>1. stage = "count" /\ stage' = "layout" /\ UNCHANGED <<disk, open>>
    BY <1>7 DEF CountLines, At, SameFiles, DataInv, DownloadInv, Extracted
  <2>2. DownloadInv' /\ SubsetInv'
    BY <1>1, <2>1, TheFiles DEF DataInv, DownloadInv, SubsetInv, Extracted, Drawn, WrittenBefore, IsWhole
  <2>3. QED
    BY <1>1, <2>1, <2>2, StageOnly
<1>8. QED
  BY <1>2, <1>3, <1>4, <1>5, <1>6, <1>7

\* A run ends early, or another one starts: what is open stays torn.
LEMMA RunEnds ==
    ASSUME DataInv, Stop \/ RunDataAgain
    PROVE  DataInv'
<1>1. UNCHANGED <<disk, madeFrom>> /\ open' = Closed /\ draw' \in {draw, NoDraw}
  BY DEF Stop, RunDataAgain, At, SameFiles, Past
<1>2. stage' \in {"stopped", "download"}
  BY DEF Stop, RunDataAgain, At
<1>3. DataTypes' /\ OpenInv'
  BY <1>1 DEF DataInv, DataTypes, OpenInv
<1>4. DownloadInv'
  BY <1>1, <1>2, TheFiles DEF DataInv, DownloadInv, Extracted, Drawn
<1>5. SubsetInv'
  BY <1>1, <1>2, TheFiles DEF DataInv, SubsetInv, Extracted, Drawn, WrittenBefore
<1>6. QED
  BY <1>3, <1>4, <1>5 DEF DataInv

LEMMA LayingOut ==
    ASSUME DataInv, Layout
    PROVE  DataInv'
<1>1. UNCHANGED <<draw, madeFrom>> /\ open = Closed /\ stage = "layout" /\ stage' = "subset" /\ Open("trec", "whole")
  BY DEF Layout, At, Past, DataInv, DownloadInv, Extracted
<1>2. /\ disk' \in [Files -> States] /\ disk'["trec"] = "torn"
      /\ \A g \in Files : g # "trec" => disk'[g] = disk[g]
      /\ open' \in [file : Files, state : States \ {"absent"}]
      /\ open' # Closed /\ open'.file = "trec" /\ open'.state = "whole"
  BY <1>1, Opening, TheFiles DEF DataInv, States, FilesAre
<1>3. DataTypes' /\ OpenInv'
  BY <1>1, <1>2 DEF DataInv, DataTypes, OpenInv, OpenedAt
<1>4. DownloadInv'
  BY <1>1, <1>2, TheFiles DEF DataInv, DownloadInv, Extracted, Drawn, FilesAre, IsWhole
<1>5. SubsetInv'
  BY <1>1, <1>2, TheFiles DEF DataInv, SubsetInv, Extracted, Drawn, FilesAre, WrittenBefore
<1>6. QED
  BY <1>3, <1>4, <1>5 DEF DataInv

\* READY goes before anything is drawn.
LEMMA Drawing ==
    ASSUME DataInv, DrawSubset
    PROVE  DataInv'
<1>1. UNCHANGED madeFrom /\ draw' \in Draws /\ open = Closed /\ stage = "subset" /\ stage' = "collection"
  BY DEF DrawSubset, At
<1>2. /\ disk' \in [Files -> States] /\ disk'["READY"] = "absent" /\ open' = open
      /\ \A g \in Files : g # "READY" => disk'[g] = disk[g]
  BY Setting, TheFiles DEF DrawSubset, DataInv, States, FilesAre
<1>3. DataTypes' /\ OpenInv'
  BY <1>1, <1>2 DEF DataInv, DataTypes, OpenInv
<1>4. DownloadInv'
  BY <1>1, <1>2, TheFiles DEF DataInv, DownloadInv, Extracted, Drawn, FilesAre, IsWhole
<1>5. SubsetInv'
  BY <1>1, <1>2, TheFiles DEF DataInv, SubsetInv, Extracted, Drawn, FilesAre, WrittenBefore
<1>6. QED
  BY <1>3, <1>4, <1>5 DEF DataInv

\* A file of the subset is made of sound sources, from this run's draw.
LEMMA Making ==
    ASSUME DataInv, open = Closed, stage \in Drawn \ {"done"}
    PROVE  Sound = "whole" /\ draw \in Draws
  BY DEF DataInv, DownloadInv, SubsetInv, IsWhole, Sound, Extracted, Drawn

LEMMA Renaming ==
    ASSUME DataInv, WriteCollection \/ WriteDocids
    PROVE  DataInv'
<1>1. PICK f \in {"collection", "docids"} :
         /\ stage = f /\ stage' = (IF f = "collection" THEN "docids" ELSE "qrels") /\ open = Closed
         /\ Set(f, Sound) /\ draw' = draw /\ madeFrom' = [madeFrom EXCEPT ![f] = draw]
  BY DEF WriteCollection, WriteDocids, At, Made
<1>2. Sound = "whole" /\ draw \in Draws
  BY <1>1, Making DEF Drawn, Extracted
<1>3. /\ disk' \in [Files -> States] /\ disk'[f] = "whole" /\ open' = open
      /\ \A g \in Files : g # f => disk'[g] = disk[g]
  BY <1>1, <1>2, Setting, TheFiles DEF DataInv, States, FilesAre
<1>4. madeFrom' \in [SubsetFiles -> Draws \cup {NoDraw}] /\ madeFrom'[f] = draw
      /\ \A g \in SubsetFiles : g # f => madeFrom'[g] = madeFrom[g]
  BY <1>1, <1>2 DEF DataInv, DataTypes, SubsetFiles
<1>5. DataTypes' /\ OpenInv'
  BY <1>1, <1>3, <1>4 DEF DataInv, DataTypes, OpenInv
<1>6. DownloadInv'
  BY <1>1, <1>3, TheFiles DEF DataInv, DownloadInv, Extracted, Drawn, FilesAre, IsWhole
<1>7. SubsetInv'
  BY <1>1, <1>2, <1>3, <1>4, TheFiles
     DEF DataInv, SubsetInv, Extracted, Drawn, FilesAre, SubsetFiles, WrittenBefore, IsWhole
<1>8. QED
  BY <1>5, <1>6, <1>7 DEF DataInv

LEMMA Writing ==
    ASSUME DataInv, WriteText
    PROVE  DataInv'
<1>1. PICK f \in {<<"qrels", "tune">>, <<"tune", "fifty">>, <<"fifty", "READY">>, <<"READY", "done">>} :
         /\ stage = f[1] /\ stage' = f[2] /\ open = Closed
         /\ Open(f[1], Sound) /\ draw' = draw /\ madeFrom' = [madeFrom EXCEPT ![f[1]] = draw]
  BY DEF WriteText, At, Made
<1>2. Sound = "whole" /\ draw \in Draws
  BY <1>1, Making DEF Drawn, Extracted
<1>3. f[1] \in SubsetFiles /\ f[1] \in Files /\ "whole" \in States \ {"absent"}
  BY <1>1, TheFiles DEF SubsetFiles, FilesAre, States
<1>4. /\ disk' \in [Files -> States] /\ disk'[f[1]] = "torn"
      /\ \A g \in Files : g # f[1] => disk'[g] = disk[g]
      /\ open' \in [file : Files, state : States \ {"absent"}]
      /\ open' # Closed /\ open'.file = f[1] /\ open'.state = "whole"
  BY <1>1, <1>2, <1>3, Opening DEF DataInv
<1>5. madeFrom' \in [SubsetFiles -> Draws \cup {NoDraw}] /\ madeFrom'[f[1]] = draw
      /\ \A g \in SubsetFiles : g # f[1] => madeFrom'[g] = madeFrom[g]
  BY <1>1, <1>2, <1>3 DEF DataInv, DataTypes
<1>6. DataTypes' /\ OpenInv'
  BY <1>1, <1>4, <1>5 DEF DataInv, DataTypes, OpenInv, OpenedAt
<1>7. DownloadInv'
  BY <1>1, <1>4, TheFiles DEF DataInv, DownloadInv, Extracted, Drawn, FilesAre, IsWhole
<1>8. SubsetInv'
  BY <1>1, <1>2, <1>4, <1>5, TheFiles
     DEF DataInv, SubsetInv, Extracted, Drawn, FilesAre, SubsetFiles, WrittenBefore, IsWhole
<1>9. QED
  BY <1>6, <1>7, <1>8 DEF DataInv
-----------------------------------------------------------------------------
(* What a draw has. *)

\* A draw is a sample, tuning queries that it answers, and training queries.
Samples == kSubset(SubsetSize - Cardinality(relevant_pids), Collection \ relevant_pids)
DrawnWith(s, t) == {[sample |-> s, tune |-> t, fifty |-> f] : f \in kSubset(NFifty, Judged \ t)}
DrawnFrom(s) == UNION {DrawnWith(s, t) : t \in kSubset(NTune, Eligible(s))}
LEMMA ADraw ==
    ASSUME NEW d \in Draws
    PROVE  /\ d.sample \in Samples
           /\ d.tune \in kSubset(NTune, Eligible(d.sample))
           /\ d.fifty \in kSubset(NFifty, Judged \ d.tune)
<1>1. Draws = UNION {DrawnFrom(s) : s \in Samples}
  BY Zenon DEF Draws, DrawnFrom, DrawnWith, Samples
<1>2. PICK s \in Samples : d \in DrawnFrom(s)
  BY <1>1
<1>3. PICK t \in kSubset(NTune, Eligible(s)) : d \in DrawnWith(s, t)
  BY <1>2 DEF DrawnFrom
<1>4. PICK f \in kSubset(NFifty, Judged \ t) : d = [sample |-> s, tune |-> t, fifty |-> f]
  BY <1>3 DEF DrawnWith
<1>5. d.sample = s /\ d.tune = t /\ d.fifty = f
  BY <1>4
<1>6. QED
  BY <1>2, <1>3, <1>4, <1>5

\* The passages of the subset are as many as were asked for.
LEMMA SubsetSizeIs ==
    ASSUME NEW d \in Draws
    PROVE  Cardinality(Subset(d.sample)) = SubsetSize
<1> DEFINE s == d.sample
<1>1. s \in Samples
  BY ADraw
<1>2. s \subseteq Collection \ relevant_pids /\ Cardinality(s) = SubsetSize - Cardinality(relevant_pids)
  BY <1>1 DEF kSubset, Samples
<1>3. IsFiniteSet(s) /\ IsFiniteSet(relevant_pids)
  BY <1>2, CollectionAssumption, FS_Subset
<1>4. relevant_pids \cap s = {}
  BY <1>2
<1>5. /\ Cardinality(relevant_pids) \in Nat /\ Cardinality(s) \in Nat
      /\ Cardinality({}) = 0 /\ SubsetSize \in Nat
  BY <1>3, FS_CardinalityType, FS_EmptySet, CollectionAssumption
<1>6. Cardinality(relevant_pids \cup s)
        = Cardinality(relevant_pids) + Cardinality(s) - Cardinality(relevant_pids \cap s)
  BY <1>3, FS_Union
<1>7. Cardinality(relevant_pids \cap s) = 0
  BY <1>4, <1>5
<1>8. Subset(s) = relevant_pids \cup s
  BY DEF Subset
<1> HIDE DEF s
<1>9. Cardinality(Subset(s)) = SubsetSize
  BY <1>2, <1>5, <1>6, <1>7, <1>8
<1>10. QED
  BY <1>9 DEF s

\* No relevant passage and no judgment of one is lost.
LEMMA NothingRelevantLost ==
    ASSUME NEW sample, NEW q \in DOMAIN EvalQrels
    PROVE  /\ Positive(EvalQrels[q]) # {} =>
                 /\ q \in DOMAIN Filtered(sample)
                 /\ Positive(Filtered(sample)[q]) = Positive(EvalQrels[q])
           /\ q \in DOMAIN Filtered(sample) => DOMAIN Filtered(sample)[q] \subseteq Subset(sample)
<1>1. Positive(EvalQrels[q]) \subseteq DOMAIN EvalQrels[q] \cap Subset(sample)
  BY DEF relevant_pids, Subset, Positive
<1>2. q \in DOMAIN Filtered(sample) <=> DOMAIN EvalQrels[q] \cap Subset(sample) # {}
  BY DEF Filtered
<1>3. q \in DOMAIN Filtered(sample) =>
         Filtered(sample)[q] = [d \in DOMAIN EvalQrels[q] \cap Subset(sample) |-> EvalQrels[q][d]]
  BY <1>2 DEF Filtered
<1>4. QED
  BY <1>1, <1>2, <1>3 DEF Positive

\* The tuning queries can be answered, and the reranker learns from none of them.
LEMMA DrawsAreApart ==
    ASSUME NEW d \in Draws
    PROVE  /\ \A q \in d.tune : Positive(TrainQrels[q]) \subseteq Subset(d.sample)
           /\ d.tune \cap d.fifty = {}
<1>1. d.tune \subseteq Eligible(d.sample) /\ d.fifty \subseteq Judged \ d.tune
  BY ADraw DEF kSubset
<1>2. QED
  BY <1>1 DEF Eligible
-----------------------------------------------------------------------------
\* The stages, the files and the draws they were made from fit together after
\* any number of crashes (data_download.sh, prepare.py, subset.py).
THEOREM DataInvariant == DataSpec => []DataInv
<1>1. DataInit => DataInv
  BY TheFiles DEF DataInit, DataInv, DataTypes, States, OpenInv, DownloadInv, SubsetInv, Extracted, Drawn,
                  WrittenBefore, FilesAre
<1>2. DataInv /\ [DataStep \/ RunDataAgain]_dataVars => DataInv'
  <2>1. ASSUME DataInv, DataStep PROVE DataInv'
    BY <2>1, FileIsFinished, Downloading, Extracting, RunEnds, LayingOut, Drawing, Renaming, Writing DEF DataStep
  <2>2. ASSUME DataInv, UNCHANGED dataVars PROVE DataInv'
    <3>1. UNCHANGED <<stage, disk, open, draw, madeFrom>>
      BY <2>2 DEF dataVars
    <3>2. DataTypes'
      BY <2>2, <3>1 DEF DataInv, DataTypes
    <3>3. OpenInv'
      BY <2>2, <3>1 DEF DataInv, OpenInv
    <3>4. DownloadInv'
      BY <2>2, <3>1 DEF DataInv, DownloadInv, IsWhole
    <3>5. SubsetInv'
      BY <2>2, <3>1 DEF DataInv, SubsetInv, WrittenBefore, IsWhole
    <3>6. QED
      BY <3>2, <3>3, <3>4, <3>5 DEF DataInv
  <2>3. QED
    BY <2>1, <2>2, RunEnds
<1>3. QED
  BY <1>1, <1>2, PTL DEF DataSpec

\* Where READY is, no file is missing, torn or of another draw, every relevant
\* passage is in the subset with its judgments, and the tuning and the training
\* queries are apart; a tarball is removed only when its files are on the disk,
\* and a run fails only on a torn or bad download: for any collection, judgments
\* and sizes, wherever the chain is killed and however often it is run again.
THEOREM ReadyIsFinal == DataSpec => []DataIsFinal
<1>1. DataInv => SubsetIsFinal
  <2>1. SUFFICES ASSUME DataInv, disk["READY"] # "absent" PROVE SubsetIsFinal
    BY DEF SubsetIsFinal
  <2>2. /\ madeFrom["collection"] \in Draws
        /\ \A f \in SubsetFiles \ {"READY"} : disk[f] = "whole" /\ madeFrom[f] = madeFrom["collection"]
    BY <2>1 DEF DataInv, SubsetInv, Data
  <2>3. QED
    <3> DEFINE d == madeFrom["collection"]
    <3>1. DOMAIN Filtered(d.sample) \subseteq DOMAIN EvalQrels
      BY DEF Filtered
    <3>2. Cardinality(Subset(d.sample)) = SubsetSize
      BY <2>2, SubsetSizeIs
    <3>3. \A q \in DOMAIN EvalQrels : Positive(EvalQrels[q]) # {} =>
             /\ q \in DOMAIN Filtered(d.sample)
             /\ Positive(Filtered(d.sample)[q]) = Positive(EvalQrels[q])
      BY NothingRelevantLost
    <3>4. \A q \in DOMAIN Filtered(d.sample) : DOMAIN Filtered(d.sample)[q] \subseteq Subset(d.sample)
      BY <3>1, NothingRelevantLost
    <3>5. \A q \in d.tune : Positive(TrainQrels[q]) \subseteq Subset(d.sample)
      BY <2>2, DrawsAreApart
    <3>6. d.tune \cap d.fifty = {}
      BY <2>2, DrawsAreApart
    <3>7. QED
      BY <2>2, <3>2, <3>3, <3>4, <3>5, <3>6 DEF SubsetIsFinal
<1>2. DataInv => DownloadsAreKept
  BY DEF DataInv, DownloadInv, DownloadsAreKept
<1>3. QED
  BY <1>1, <1>2, DataInvariant, PTL DEF DataIsFinal

-----------------------------------------------------------------------------
(* The cache of the dense feature. *)

Keys(dict) == [i \in DOMAIN dict |-> dict[i][1]]
Vals(dict) == [i \in DOMAIN dict |-> dict[i][2]]
Prefix(s, t) == Len(s) <= Len(t) /\ \A i \in 1 .. Len(s) : s[i] = t[i]
State(f) == files[f].state
Rows(f) == files[f].rows

FeatureTypes ==
    /\ asked \in [Kinds -> SUBSET Nat] /\ \A kind \in Kinds : IsFiniteSet(asked[kind])
    /\ held \in [Kinds -> Seq(Nat \X Nat)]
    /\ files \in [CacheFiles -> [state : {"absent", "torn", "whole"}, rows : Seq(Nat)]]
    /\ \A f \in CacheFiles : State(f) # "whole" => Rows(f) = <<>>
    /\ saved \in [CacheFiles -> SUBSET Nat]

\* What is being written: the lengths, or a dict, its vectors first.
Pending ==
    \/ writes = <<>>
    \/ /\ step = "load"
       /\ writes = <<[file |-> Lengths, rows |-> writes[1].rows]>>
       /\ writes[1].rows \in Seq(Nat)
       /\ saved[Lengths] \cup (asked["passages"] \cap Texts) \subseteq Range(writes[1].rows)
    \/ /\ step = "passages"
       /\ \E kind \in Kinds :
             \/ writes = Saves(kind, held[kind])
             \/ /\ writes = <<[file |-> Ids(kind), rows |-> Keys(held[kind])]>>
                /\ files[Vecs(kind)] = Whole(Vals(held[kind]))

\* The ids of a dict are never more than its vectors, and theirs.
Fit(kind) ==
    /\ There(Ids(kind)) => There(Vecs(kind))
    /\ State(Ids(kind)) = "whole" /\ State(Vecs(kind)) = "whole" => Prefix(Rows(Ids(kind)), Rows(Vecs(kind)))
    /\ State(Ids(kind)) # "torn" => saved[Ids(kind)] \subseteq Range(Rows(Ids(kind)))
\* A run that has read the cache only adds to it.
FilesLoaded(kind) ==
    step \in {"gpu", "owner", "queries", "passages"} =>
        /\ saved[Ids(kind)] \subseteq IdsHeld(kind)
        /\ State(Ids(kind)) = "whole" => Prefix(Rows(Ids(kind)), Keys(held[kind]))
Paired == \A kind \in Kinds : \A i \in DOMAIN held[kind] : held[kind][i][1] = held[kind][i][2]
TextsOnly ==
    /\ \A i \in DOMAIN held["passages"] : held["passages"][i][1] \in Texts
    /\ Range(Rows(Ids("passages"))) \subseteq Texts
Encoded ==
    /\ step \in {"passages", "release", "done"} => asked["queries"] \subseteq IdsHeld("queries")
    /\ step \in {"release", "done"} => Need("passages") = {}
LengthsKept ==
    /\ State(Lengths) # "torn" => saved[Lengths] \subseteq Range(Rows(Lengths))
    /\ step = "load" /\ writes = <<>> =>
          State(Lengths) # "torn" /\ asked["passages"] \cap Texts \subseteq Range(Rows(Lengths))
GpuGivenBack ==
    /\ gpu = "own" => step \in {"queries", "passages", "release", "raised"}
    /\ gpu = "unnamed" => step = "owner"

FeatureInv ==
    /\ FeatureTypes /\ Pending /\ \A kind \in Kinds : Fit(kind) /\ FilesLoaded(kind)
    /\ Paired /\ TextsOnly /\ Encoded /\ LengthsKept /\ GpuGivenBack

-----------------------------------------------------------------------------
\* The files of the cache are different files.
LEMMA FilesApart ==
    /\ \A kind \in Kinds : {Vecs(kind), Ids(kind)} \subseteq CacheFiles
    /\ Lengths \in CacheFiles
    /\ \A kind, other \in Kinds : /\ Vecs(kind) # Ids(other) /\ Vecs(kind) # Lengths /\ Ids(kind) # Lengths
                                  /\ kind # other => Vecs(kind) # Vecs(other) /\ Ids(kind) # Ids(other)
<1>1. \A kind, other \in Kinds : /\ Vecs(kind) # Ids(other) /\ Vecs(kind) # Lengths /\ Ids(kind) # Lengths
                                 /\ kind # other => Vecs(kind) # Vecs(other) /\ Ids(kind) # Ids(other)
  BY DEF Kinds, Vecs, Ids, Lengths
<1>2. QED
  BY <1>1 DEF CacheFiles

\* A finite set put into some order is the range of the sequence.
LEMMA OrderedRange ==
    ASSUME NEW S \in SUBSET Nat, IsFiniteSet(S)
    PROVE  SetToSeq(S) \in Seq(Nat) /\ Range(SetToSeq(S)) = S
<1> DEFINE n == Cardinality(S)
           s == SetToSeq(S)
<1>1. n \in Nat /\ ExistsBijection(1 .. n, S)
  BY FS_CardinalityType
<1>2. \E f \in [1 .. n -> S] : IsInjective(f)
  BY <1>1 DEF ExistsBijection, Bijection, Injection
<1>3. s \in [1 .. n -> S] /\ IsInjective(s)
  BY <1>2 DEF SetToSeq
<1> HIDE DEF s
<1>4. s \in Surjection(1 .. n, S)
  <2>1. s \in Injection(1 .. n, S)
    BY <1>3 DEF Injection
  <2>2. Cardinality(1 .. n) = Cardinality(S)
    BY <1>1, FS_Interval
  <2>3. QED
    BY <2>1, <2>2, FS_Injection
<1>5. Range(s) = S
  BY <1>3, <1>4 DEF Surjection, Range
<1>6. s \in Seq(Nat)
  <2>1. s \in [1 .. n -> Nat]
    BY <1>3
  <2>2. QED
    BY <1>1, <2>1, SeqDef
<1>7. QED
  BY <1>5, <1>6 DEF s

LEMMA TopOf ==
    ASSUME NEW s \in Seq(Nat), NEW k \in Nat
    PROVE  Top(s, k) \in Seq(Nat) /\ Range(Top(s, k)) \subseteq Range(s)
<1> DEFINE n == Min({k, Len(s)})
<1>1. n \in Nat /\ n <= Len(s)
  BY LesserOf
<1> HIDE DEF n
<1>2. SubSeq(s, 1, n) \in Seq(Nat) /\ Len(SubSeq(s, 1, n)) = n /\ \A i \in 1 .. n : SubSeq(s, 1, n)[i] = s[i]
  BY <1>1
<1>3. DOMAIN SubSeq(s, 1, n) = 1 .. n /\ DOMAIN s = 1 .. Len(s) /\ 1 .. n \subseteq 1 .. Len(s)
  BY <1>1, <1>2, LenProperties
<1>4. Range(SubSeq(s, 1, n)) \subseteq Range(s)
  BY <1>2, <1>3 DEF Range
<1>5. QED
  BY <1>2, <1>4 DEF Top, n

\* A dict with more in it.
Extends(e, d, ids) ==
    /\ e \in Seq(Nat \X Nat) /\ Len(d) <= Len(e) /\ \A i \in 1 .. Len(d) : e[i] = d[i]
    /\ \A i \in 1 .. Len(e) : i \in 1 .. Len(d) \/ \E x \in Range(ids) : e[i] = <<x, x>>
    /\ \A x \in Range(ids) : \E i \in 1 .. Len(e) : e[i] = <<x, x>>
LEMMA AddedTo ==
    ASSUME NEW d \in Seq(Nat \X Nat), NEW ids \in Seq(Nat), NEW e, e = Added(d, ids)
    PROVE  Extends(e, d, ids)
<1> DEFINE new == [i \in DOMAIN ids |-> <<ids[i], ids[i]>>]
<1>1. new \in Seq(Nat \X Nat) /\ Len(new) = Len(ids) /\ \A i \in 1 .. Len(ids) : new[i] = <<ids[i], ids[i]>>
  <2>1. Len(ids) \in Nat /\ DOMAIN ids = 1 .. Len(ids) /\ \A i \in 1 .. Len(ids) : ids[i] \in Nat
    BY LenProperties
  <2>2. new \in [1 .. Len(ids) -> Nat \X Nat]
    BY <2>1
  <2>3. new \in Seq(Nat \X Nat)
    BY <2>1, <2>2, SeqDef
  <2>4. QED
    BY <2>1, <2>2, <2>3
<1>2. e = d \o new
  BY DEF Added
<1> HIDE DEF new
<1>3. /\ e \in Seq(Nat \X Nat) /\ Len(e) = Len(d) + Len(ids)
      /\ \A i \in 1 .. Len(d) : e[i] = d[i]
      /\ \A i \in 1 .. Len(ids) : e[Len(d) + i] = <<ids[i], ids[i]>>
  <2>1. Len(d) \in Nat /\ Len(ids) \in Nat
    OBVIOUS
  <2>2. /\ d \o new \in Seq(Nat \X Nat) /\ Len(d \o new) = Len(d) + Len(new)
        /\ \A i \in 1 .. Len(d) + Len(new) : (d \o new)[i] = IF i <= Len(d) THEN d[i] ELSE new[i - Len(d)]
    <3>1. PICK t \in Seq(Nat \X Nat) : t = new
      BY <1>1
    <3>2. /\ d \o t \in Seq(Nat \X Nat) /\ Len(d \o t) = Len(d) + Len(t)
          /\ \A i \in 1 .. Len(d) + Len(t) : (d \o t)[i] = IF i <= Len(d) THEN d[i] ELSE t[i - Len(d)]
      BY ONLY d \in Seq(Nat \X Nat), t \in Seq(Nat \X Nat), ConcatProperties, Zenon
    <3>3. QED
      BY ONLY <3>1, <3>2
  <2>3. \A i \in 1 .. Len(d) : e[i] = d[i]
    BY ONLY <1>1, <1>2, <2>1, <2>2
  <2>4. ASSUME NEW i \in 1 .. Len(ids) PROVE e[Len(d) + i] = <<ids[i], ids[i]>>
    <3>1. PICK m \in Nat, n \in Nat : m = Len(d) /\ n = Len(new) /\ n = Len(ids)
      BY <1>1, <2>1
    <3>2. PICK k : k = m + i
      OBVIOUS
    <3>3. k \in 1 .. m + n /\ ~ k <= m /\ k - m = i
      BY <3>1, <3>2
    <3>4. e[k] = new[i]
      BY ONLY <1>2, <2>2, <3>1, <3>3
    <3>5. new[i] = <<ids[i], ids[i]>>
      BY ONLY <1>1, i \in 1 .. Len(ids)
    <3>6. QED
      BY ONLY <3>1, <3>2, <3>4, <3>5
  <2>5. QED
    BY <1>1, <1>2, <2>2, <2>3, <2>4
<1>4. ASSUME NEW i \in 1 .. Len(e) PROVE i \in 1 .. Len(d) \/ \E x \in Range(ids) : e[i] = <<x, x>>
  <2>1. CASE i > Len(d)
    <3>1. i - Len(d) \in 1 .. Len(ids) /\ i = Len(d) + (i - Len(d))
      BY <1>3, <2>1
    <3>2. e[i] = <<ids[i - Len(d)], ids[i - Len(d)]>>
      BY <1>3, <3>1
    <3>3. ids[i - Len(d)] \in Range(ids)
      BY <3>1, LenProperties DEF Range
    <3>4. QED
      BY <3>2, <3>3
  <2>2. QED
    BY <2>1
<1>5. ASSUME NEW x \in Range(ids) PROVE \E i \in 1 .. Len(e) : e[i] = <<x, x>>
  <2>1. PICK j \in 1 .. Len(ids) : x = ids[j]
    BY LenProperties DEF Range
  <2>2. Len(d) + j \in 1 .. Len(e)
    BY <1>3
  <2>3. QED
    BY <1>3, <2>1, <2>2
<1>6. Len(d) <= Len(e)
  <2>1. Len(d) \in Nat /\ Len(ids) \in Nat
    OBVIOUS
  <2>2. QED
    BY ONLY <1>3, <2>1
<1>7. QED
  BY <1>3, <1>4, <1>5, <1>6, Zenon DEF Extends

LEMMA RangeOfConcat ==
    ASSUME NEW s \in Seq(Nat), NEW t \in Seq(Nat)
    PROVE  s \o t \in Seq(Nat) /\ Range(s \o t) = Range(s) \cup Range(t)
<1>1. Len(s) \in Nat /\ Len(t) \in Nat /\ DOMAIN s = 1 .. Len(s) /\ DOMAIN t = 1 .. Len(t)
  BY LenProperties
<1>2. /\ s \o t \in Seq(Nat) /\ Len(s \o t) = Len(s) + Len(t)
      /\ \A i \in 1 .. Len(s) + Len(t) : (s \o t)[i] = IF i <= Len(s) THEN s[i] ELSE t[i - Len(s)]
  BY ConcatProperties, Zenon
<1>3. DOMAIN (s \o t) = 1 .. Len(s) + Len(t)
  BY <1>2, LenProperties
<1> DEFINE u == s \o t
<1>u. /\ DOMAIN u = 1 .. Len(s) + Len(t)
      /\ \A i \in 1 .. Len(s) + Len(t) : u[i] = IF i <= Len(s) THEN s[i] ELSE t[i - Len(s)]
  BY <1>2, <1>3
<1> HIDE DEF u
<1>4. ASSUME NEW x \in Range(s) PROVE x \in Range(u)
  <2>1. PICK i \in 1 .. Len(s) : x = s[i]
    BY <1>1 DEF Range
  <2>2. i \in 1 .. Len(s) + Len(t) /\ i <= Len(s)
    BY <1>1
  <2>3. QED
    BY <1>u, <2>1, <2>2 DEF Range
<1>5. ASSUME NEW x \in Range(t) PROVE x \in Range(u)
  <2>1. PICK i \in 1 .. Len(t) : x = t[i]
    BY <1>1 DEF Range
  <2>2. Len(s) + i \in 1 .. Len(s) + Len(t) /\ ~ Len(s) + i <= Len(s) /\ Len(s) + i - Len(s) = i
    BY <1>1
  <2>3. u[Len(s) + i] = x
    BY <1>u, <2>1, <2>2
  <2>4. QED
    BY <1>u, <2>2, <2>3 DEF Range
<1>6. ASSUME NEW x \in Range(u) PROVE x \in Range(s) \cup Range(t)
  <2>1. PICK i \in 1 .. Len(s) + Len(t) : x = u[i]
    BY <1>u DEF Range
  <2>2. CASE i <= Len(s)
    <3>1. i \in DOMAIN s /\ u[i] = s[i]
      BY <1>1, <1>u, <2>2
    <3>2. QED
      BY <2>1, <3>1 DEF Range
  <2>3. CASE ~ i <= Len(s)
    <3>1. i - Len(s) \in DOMAIN t /\ u[i] = t[i - Len(s)]
      BY <1>1, <1>u, <2>3
    <3>2. QED
      BY <2>1, <3>1 DEF Range
  <2>4. QED
    BY <2>2, <2>3
<1>7. QED
  BY <1>2, <1>4, <1>5, <1>6 DEF u

\* What is torn or missing has no rows.
LEMMA TornOrWhole ==
    ASSUME FeatureTypes, NEW f \in CacheFiles
    PROVE  /\ files[f] = HalfWritten <=> State(f) = "torn"
           /\ State(f) \in {"absent", "torn", "whole"} /\ Rows(f) \in Seq(Nat)
           /\ State(f) # "whole" => Rows(f) = <<>>
           /\ There(f) <=> State(f) # "absent"
<1>1. files[f] \in [state : {"absent", "torn", "whole"}, rows : Seq(Nat)] /\ (State(f) # "whole" => Rows(f) = <<>>)
  BY DEF FeatureTypes
<1>2. QED
  BY <1>1 DEF HalfWritten, State, Rows, There

\* What a dict says of its keys and vectors.
LEMMA KeysAndVals ==
    ASSUME NEW d \in Seq(Nat \X Nat)
    PROVE  /\ Keys(d) \in Seq(Nat) /\ Vals(d) \in Seq(Nat)
           /\ Len(Keys(d)) = Len(d) /\ Len(Vals(d)) = Len(d)
           /\ \A i \in 1 .. Len(d) : Keys(d)[i] = d[i][1] /\ Vals(d)[i] = d[i][2]
           /\ Range(Keys(d)) = {pair[1] : pair \in Range(d)}
<1>1. Len(d) \in Nat /\ DOMAIN d = 1 .. Len(d) /\ \A i \in 1 .. Len(d) : d[i][1] \in Nat /\ d[i][2] \in Nat
  BY LenProperties, ElementOfSeq
<1>2. Keys(d) \in [1 .. Len(d) -> Nat] /\ Vals(d) \in [1 .. Len(d) -> Nat]
  BY <1>1 DEF Keys, Vals
<1>3. \A i \in 1 .. Len(d) : Keys(d)[i] = d[i][1] /\ Vals(d)[i] = d[i][2]
  BY <1>1 DEF Keys, Vals
<1>4. Keys(d) \in Seq(Nat) /\ Vals(d) \in Seq(Nat)
  BY <1>1, <1>2, IsSequence, Zenon
<1>5. Len(Keys(d)) = Len(d) /\ Len(Vals(d)) = Len(d)
  BY <1>1, <1>2, <1>4
<1>6. Range(Keys(d)) = {pair[1] : pair \in Range(d)}
  BY <1>1, <1>2, <1>3 DEF Range
<1>7. QED
  BY <1>3, <1>4, <1>5, <1>6

-----------------------------------------------------------------------------
\* The steps that only move on.
LEMMA Unwritten ==
    ASSUME FeatureInv, UNCHANGED <<files, saved, held>>, asked' \in [Kinds -> SUBSET Nat],
           \A kind \in Kinds : IsFiniteSet(asked'[kind])
    PROVE  /\ FeatureTypes' /\ Paired' /\ TextsOnly' /\ \A kind \in Kinds : Fit(kind)'
           /\ \A kind \in Kinds : IdsHeld(kind)' = IdsHeld(kind)
           /\ \A f : State(f)' = State(f) /\ Rows(f)' = Rows(f)
<1>1. FeatureTypes'
  BY DEF FeatureInv, FeatureTypes, State, Rows
<1>2. Paired' /\ TextsOnly'
  BY DEF FeatureInv, Paired, TextsOnly, Rows
<1>3. \A kind \in Kinds : Fit(kind)'
  BY DEF FeatureInv, Fit, There, State, Rows
<1>4. QED
  BY <1>1, <1>2, <1>3 DEF IdsHeld, State, Rows

LEMMA FeatureInitInv == FeatureInit => FeatureInv
<1> SUFFICES ASSUME FeatureInit PROVE FeatureInv
  OBVIOUS
<1> USE DEF FeatureInit
<1>0. IsFiniteSet({})
  BY FS_EmptySet
<1>1. \A f \in CacheFiles : State(f) = "absent" /\ Rows(f) = <<>>
  BY DEF State, Rows, Missing
<1>2. FeatureTypes
  <2>1. asked \in [Kinds -> SUBSET Nat] /\ \A kind \in Kinds : IsFiniteSet(asked[kind])
    BY <1>0
  <2>2. held \in [Kinds -> Seq(Nat \X Nat)]
    BY EmptySeq
  <2>3. files \in [CacheFiles -> [state : {"absent", "torn", "whole"}, rows : Seq(Nat)]]
    BY EmptySeq DEF Missing
  <2>4. QED
    BY <1>1, <2>1, <2>2, <2>3 DEF FeatureTypes
<1>3. Pending
  BY DEF Pending
<1>4. ASSUME NEW kind \in Kinds PROVE Fit(kind) /\ FilesLoaded(kind)
  BY <1>1, FilesApart DEF Fit, FilesLoaded, There, State
<1>5. Paired /\ Encoded
  BY DEF Paired, Encoded
<1>6. TextsOnly
  BY <1>1, FilesApart DEF TextsOnly, Range, Kinds
<1>7. LengthsKept /\ GpuGivenBack
  BY <1>1, FilesApart DEF LengthsKept, GpuGivenBack
<1>8. QED
  BY <1>2, <1>3, <1>4, <1>5, <1>6, <1>7 DEF FeatureInv

LEMMA StartFeatureInv == FeatureInv /\ StartFeature => FeatureInv'
<1> SUFFICES ASSUME FeatureInv, StartFeature PROVE FeatureInv'
  OBVIOUS
<1>1. /\ step' = "lengths" /\ writes' = <<>> /\ UNCHANGED <<files, saved, held, gpu>>
      /\ step = "off" /\ asked' \in Asks
  BY DEF StartFeature, Goto, NoWrites
<1>2. asked' \in [Kinds -> SUBSET Nat] /\ \A kind \in Kinds : IsFiniteSet(asked'[kind])
  BY <1>1, AsksAssumption
<1>3. /\ FeatureTypes' /\ Paired' /\ TextsOnly' /\ \A kind \in Kinds : Fit(kind)'
      /\ \A f : State(f)' = State(f) /\ Rows(f)' = Rows(f)
  BY <1>1, <1>2, Unwritten
<1>4. Pending' /\ (\A kind \in Kinds : FilesLoaded(kind)') /\ Encoded'
  BY <1>1 DEF Pending, FilesLoaded, Encoded
<1>5. LengthsKept' /\ GpuGivenBack'
  BY <1>1, <1>3 DEF FeatureInv, LengthsKept, GpuGivenBack
<1>6. QED
  BY <1>3, <1>4, <1>5 DEF FeatureInv

LEMMA DocLengthsInv == FeatureInv /\ DocLengths => FeatureInv'
<1> SUFFICES ASSUME FeatureInv, DocLengths PROVE FeatureInv'
  OBVIOUS
<1> DEFINE have == files[Lengths].rows
           need == asked["passages"] \ Range(have)
           more == SetToSeq(need \cap Texts)
<1>1. /\ step = "lengths" /\ writes = <<>> /\ UNCHANGED <<files, saved, held, gpu, asked>>
      /\ step' = IF files[Lengths] = HalfWritten THEN "failed" ELSE "load"
      /\ writes' = IF files[Lengths] = HalfWritten \/ need = {} THEN <<>>
                   ELSE <<[file |-> Lengths, rows |-> have \o more]>>
  BY DEF DocLengths, Goto
<1>2. asked \in [Kinds -> SUBSET Nat] /\ (\A kind \in Kinds : IsFiniteSet(asked[kind])) /\ FeatureTypes
  BY DEF FeatureInv, FeatureTypes
<1>3. /\ FeatureTypes' /\ Paired' /\ TextsOnly' /\ \A kind \in Kinds : Fit(kind)'
      /\ \A f : State(f)' = State(f) /\ Rows(f)' = Rows(f)
  BY <1>1, <1>2, Unwritten
<1>4. /\ files[Lengths] = HalfWritten <=> State(Lengths) = "torn"
      /\ have \in Seq(Nat) /\ have = Rows(Lengths)
  BY <1>2, TornOrWhole, FilesApart DEF Rows
<1>5. more \in Seq(Nat) /\ Range(more) = need \cap Texts
  <2>1. need \cap Texts \in SUBSET Nat /\ IsFiniteSet(need \cap Texts)
    <3>1. "passages" \in Kinds
      BY DEF Kinds
    <3>2. need \cap Texts \subseteq asked["passages"] /\ asked["passages"] \in SUBSET Nat
          /\ IsFiniteSet(asked["passages"])
      BY <1>2, <3>1
    <3>3. QED
      BY <3>2, FS_Subset
  <2>2. QED
    BY <2>1, OrderedRange
<1>6. have \o more \in Seq(Nat) /\ Range(have \o more) = Range(have) \cup (need \cap Texts)
  BY <1>4, <1>5, RangeOfConcat
<1>k. State(Lengths) # "torn" => saved[Lengths] \subseteq Range(have)
  BY <1>4 DEF FeatureInv, LengthsKept
<1> HIDE DEF have
<1>n. asked["passages"] \cap Texts \subseteq Range(have) \cup (need \cap Texts)
      /\ (need = {} => asked["passages"] \cap Texts \subseteq Range(have))
  OBVIOUS
<1> HIDE DEF need, more
<1>7. Pending'
  <2>1. CASE writes' = <<>>
    BY <2>1 DEF Pending
  <2>2. CASE writes' # <<>>
    <3>1. /\ step' = "load" /\ writes' = <<[file |-> Lengths, rows |-> have \o more]>>
          /\ State(Lengths) # "torn"
      BY <1>1, <1>4, <2>2
    <3>2. saved[Lengths] \cup (asked["passages"] \cap Texts) \subseteq Range(have \o more)
      BY <1>6, <1>k, <1>n, <3>1
    <3>3. writes'[1].rows = have \o more
      BY <3>1
    <3>4. QED
      BY <1>1, <1>6, <3>1, <3>2, <3>3 DEF Pending
  <2>3. QED
    BY <2>1, <2>2
<1>8. LengthsKept'
  <2>1. State(Lengths)' # "torn" => saved'[Lengths] \subseteq Range(Rows(Lengths)')
    BY <1>1, <1>3, <1>4, <1>k
  <2>2. step' = "load" /\ writes' = <<>> => State(Lengths)' # "torn" /\ asked'["passages"] \cap Texts \subseteq Range(Rows(Lengths)')
    BY <1>1, <1>3, <1>4, <1>n
  <2>3. QED
    BY <2>1, <2>2 DEF LengthsKept
<1>9. (\A kind \in Kinds : FilesLoaded(kind)') /\ Encoded' /\ GpuGivenBack'
  BY <1>1 DEF FilesLoaded, Encoded, GpuGivenBack, FeatureInv
<1>10. QED
  BY <1>3, <1>7, <1>8, <1>9 DEF FeatureInv

LEMMA TakeGpuInv == FeatureInv /\ TakeGpu => FeatureInv'
<1> SUFFICES ASSUME FeatureInv, TakeGpu PROVE FeatureInv'
  OBVIOUS
<1> DEFINE idle == \A kind \in Kinds : Need(kind) = {}
<1>1. /\ step = "gpu" /\ writes = <<>> /\ writes' = <<>> /\ UNCHANGED <<files, saved, held, asked>>
      /\ step' = IF idle THEN "done" ELSE IF gpu = "free" THEN "owner" ELSE "queries"
      /\ gpu' = IF ~idle /\ gpu = "free" THEN "unnamed" ELSE gpu
  BY DEF TakeGpu, Goto, NoWrites
<1>2. asked \in [Kinds -> SUBSET Nat] /\ (\A kind \in Kinds : IsFiniteSet(asked[kind]))
  BY DEF FeatureInv, FeatureTypes
<1>3. /\ FeatureTypes' /\ Paired' /\ TextsOnly' /\ \A kind \in Kinds : Fit(kind)'
      /\ \A kind \in Kinds : IdsHeld(kind)' = IdsHeld(kind)
      /\ \A f : State(f)' = State(f) /\ Rows(f)' = Rows(f)
  BY <1>1, <1>2, Unwritten
<1>4. Pending'
  BY <1>1 DEF Pending
<1>5. ASSUME NEW kind \in Kinds PROVE FilesLoaded(kind)'
  BY <1>1, <1>3 DEF FeatureInv, FilesLoaded
<1>6. Encoded'
  <2>1. idle => asked["queries"] \subseteq IdsHeld("queries")
    BY DEF Kinds, Need, Wanted
  <2>2. idle => Need("passages") = {}
    BY DEF Kinds
  <2>3. Need("passages")' = Need("passages") /\ IdsHeld("queries")' = IdsHeld("queries")
    BY <1>1 DEF Need, Wanted, IdsHeld
  <2> HIDE DEF idle
  <2>4. QED
    BY <1>1, <2>1, <2>2, <2>3 DEF Encoded
<1> HIDE DEF idle
<1>7. LengthsKept' /\ GpuGivenBack'
  <2>1. LengthsKept /\ GpuGivenBack
    BY DEF FeatureInv
  <2>2. LengthsKept'
    BY <1>1, <1>3, <2>1 DEF LengthsKept
  <2>3. GpuGivenBack'
    BY <1>1, <2>1 DEF GpuGivenBack
  <2>4. QED
    BY <2>2, <2>3
<1>8. QED
  BY <1>3, <1>4, <1>5, <1>6, <1>7 DEF FeatureInv

LEMMA NameOwnerInv == FeatureInv /\ NameOwner => FeatureInv'
<1> SUFFICES ASSUME FeatureInv, NameOwner PROVE FeatureInv'
  OBVIOUS
<1>1. /\ step = "owner" /\ writes = <<>> /\ writes' = <<>> /\ UNCHANGED <<files, saved, held, asked>>
      /\ step' = "queries" /\ gpu' = "own"
  BY DEF NameOwner, Goto, NoWrites
<1>2. asked \in [Kinds -> SUBSET Nat] /\ (\A kind \in Kinds : IsFiniteSet(asked[kind]))
  BY DEF FeatureInv, FeatureTypes
<1>3. /\ FeatureTypes' /\ Paired' /\ TextsOnly' /\ \A kind \in Kinds : Fit(kind)'
      /\ \A kind \in Kinds : IdsHeld(kind)' = IdsHeld(kind)
      /\ \A f : State(f)' = State(f) /\ Rows(f)' = Rows(f)
  BY <1>1, <1>2, Unwritten
<1>4. ASSUME NEW kind \in Kinds PROVE FilesLoaded(kind)'
  BY <1>1, <1>3 DEF FeatureInv, FilesLoaded
<1>5. Pending' /\ Encoded' /\ GpuGivenBack'
  BY <1>1 DEF Pending, Encoded, GpuGivenBack
<1>6. LengthsKept'
  BY <1>1, <1>3 DEF FeatureInv, LengthsKept
<1>7. QED
  BY <1>3, <1>4, <1>5, <1>6 DEF FeatureInv

\* The steps that leave the dicts and end or go on, with nothing to write.
LEMMA MovesOn ==
    ASSUME FeatureInv, UNCHANGED <<files, saved, held, asked>>, writes' = <<>>,
           step' \in {"release", "done", "raised", "failed"}, GpuGivenBack',
           step' \in {"release", "done"} => step \in {"passages", "release"} /\ Need("passages") = {}
    PROVE  FeatureInv'
<1>1. asked \in [Kinds -> SUBSET Nat] /\ (\A kind \in Kinds : IsFiniteSet(asked[kind]))
  BY DEF FeatureInv, FeatureTypes
<1>2. /\ FeatureTypes' /\ Paired' /\ TextsOnly' /\ \A kind \in Kinds : Fit(kind)'
      /\ \A kind \in Kinds : IdsHeld(kind)' = IdsHeld(kind)
      /\ \A f : State(f)' = State(f) /\ Rows(f)' = Rows(f)
  BY <1>1, Unwritten
<1>3. Pending' /\ \A kind \in Kinds : FilesLoaded(kind)'
  BY DEF Pending, FilesLoaded
<1>4. Encoded'
  <2>1. Need("passages")' = Need("passages") /\ IdsHeld("queries")' = IdsHeld("queries")
    BY DEF Need, Wanted, IdsHeld
  <2>2. QED
    BY <2>1 DEF Encoded, FeatureInv
<1>5. LengthsKept'
  BY <1>2 DEF LengthsKept, FeatureInv
<1>6. QED
  BY <1>2, <1>3, <1>4, <1>5 DEF FeatureInv

LEMMA PassagesDoneInv == FeatureInv /\ PassagesDone => FeatureInv'
<1> SUFFICES ASSUME FeatureInv, PassagesDone PROVE FeatureInv'
  OBVIOUS
<1>1. /\ step = "passages" /\ step' = "release" /\ writes' = <<>> /\ UNCHANGED <<files, saved, held, asked>>
      /\ Need("passages") = {} /\ gpu' = gpu
  BY DEF PassagesDone, Goto, NoWrites
<1>2. GpuGivenBack'
  BY <1>1 DEF GpuGivenBack, FeatureInv
<1>3. QED
  BY <1>1, <1>2, MovesOn

\* The finally clause gives back what the run has named its own.
LEMMA ReleaseGpuInv == FeatureInv /\ ReleaseGpu => FeatureInv'
<1> SUFFICES ASSUME FeatureInv, ReleaseGpu PROVE FeatureInv'
  OBVIOUS
<1>1. /\ (step = "release" /\ step' = "done") \/ (step = "raised" /\ step' = "failed")
      /\ writes' = <<>> /\ UNCHANGED <<files, saved, held, asked>>
      /\ gpu' = IF gpu = "own" THEN "free" ELSE gpu
  BY DEF ReleaseGpu, Goto, NoWrites
<1>2. GpuGivenBack'
  BY <1>1 DEF GpuGivenBack, FeatureInv
<1>3. step = "release" => Need("passages") = {}
  BY DEF FeatureInv, Encoded
<1>4. QED
  BY <1>1, <1>2, <1>3, MovesOn

LEMMA RaisesInv == FeatureInv /\ Raises => FeatureInv'
<1> SUFFICES ASSUME FeatureInv, Raises PROVE FeatureInv'
  OBVIOUS
<1>1. /\ step' = IF step \in {"queries", "passages"} THEN "raised" ELSE "failed"
      /\ writes' = <<>> /\ UNCHANGED <<files, saved, held, asked>>
      /\ gpu' = IF gpu = "unnamed" THEN "dead" ELSE gpu
      /\ writes # <<>> \/ step \in {"gpu", "owner", "queries", "passages"}
  BY DEF Raises
<1>2. step \in {"load", "gpu", "owner", "queries", "passages"}
  BY <1>1 DEF FeatureInv, Pending
<1>3. GpuGivenBack'
  BY <1>1, <1>2 DEF FeatureInv, GpuGivenBack
<1>4. QED
  BY <1>1, <1>3, MovesOn

LEMMA OtherJobInv == FeatureInv /\ OtherJob => FeatureInv'
<1> SUFFICES ASSUME FeatureInv, OtherJob PROVE FeatureInv'
  OBVIOUS
<1>1. /\ UNCHANGED <<step, asked, held, writes, files, saved>>
      /\ gpu' \in {"own", "unnamed"} => gpu' = gpu
  BY DEF OtherJob
<1>2. /\ FeatureTypes' /\ Paired' /\ TextsOnly' /\ \A kind \in Kinds : Fit(kind)'
      /\ \A kind \in Kinds : IdsHeld(kind)' = IdsHeld(kind)
      /\ \A f : State(f)' = State(f) /\ Rows(f)' = Rows(f)
  BY <1>1, Unwritten DEF FeatureInv, FeatureTypes
<1>3. Pending'
  BY <1>1 DEF FeatureInv, Pending
<1>4. (\A kind \in Kinds : FilesLoaded(kind)') /\ Encoded' /\ LengthsKept'
  BY <1>1 DEF FeatureInv, FilesLoaded, Encoded, LengthsKept, State, Rows, IdsHeld, Need, Wanted
<1>5. GpuGivenBack'
  BY <1>1 DEF FeatureInv, GpuGivenBack
<1>6. QED
  BY <1>2, <1>3, <1>4, <1>5 DEF FeatureInv

\* A run that is gone forgets its dicts.
LEMMA ForgetInv == FeatureInv /\ (KillFeature \/ NextFeature) => FeatureInv'
<1> SUFFICES ASSUME FeatureInv, KillFeature \/ NextFeature PROVE FeatureInv'
  OBVIOUS
<1>1. /\ held' = [kind \in Kinds |-> <<>>] /\ writes' = <<>> /\ step' = "off"
      /\ UNCHANGED <<asked, files, saved>> /\ gpu' \notin {"own", "unnamed"}
  <2>1. CASE KillFeature
    BY <2>1 DEF KillFeature, Forget
  <2>2. CASE NextFeature
    BY <2>2 DEF NextFeature, Forget, FeatureInv, GpuGivenBack
  <2>3. QED
    BY <2>1, <2>2
<1>2. FeatureTypes'
  <2>1. held' \in [Kinds -> Seq(Nat \X Nat)]
    BY <1>1, EmptySeq
  <2>2. QED
    BY <1>1, <2>1 DEF FeatureInv, FeatureTypes, State, Rows
<1>3. Pending' /\ Encoded' /\ GpuGivenBack' /\ \A kind \in Kinds : FilesLoaded(kind)'
  BY <1>1 DEF Pending, Encoded, GpuGivenBack, FilesLoaded
<1>4. ASSUME NEW kind \in Kinds PROVE Fit(kind)'
  BY <1>1 DEF FeatureInv, Fit, There, State, Rows
<1>5. Paired'
  BY <1>1 DEF Paired
<1>6. TextsOnly'
  <2>1. DOMAIN held'["passages"] = {}
    BY <1>1 DEF Kinds
  <2>2. QED
    BY <1>1, <2>1 DEF TextsOnly, FeatureInv, Rows
<1>7. LengthsKept'
  BY <1>1 DEF LengthsKept, FeatureInv, State, Rows
<1>8. QED
  BY <1>2, <1>3, <1>4, <1>5, <1>6, <1>7 DEF FeatureInv

-----------------------------------------------------------------------------
\* What is read of the cache are the whole ids, each with its own vector.
LEMMA ZippedIs ==
    ASSUME FeatureInv, NEW kind \in Kinds, ~Unreadable(kind)
    PROVE  /\ Zipped(kind) \in Seq(Nat \X Nat) /\ Len(Zipped(kind)) = Len(Rows(Ids(kind)))
           /\ \A i \in 1 .. Len(Rows(Ids(kind))) : Zipped(kind)[i] = <<Rows(Ids(kind))[i], Rows(Ids(kind))[i]>>
           /\ State(Ids(kind)) # "torn"
<1> DEFINE ids == Rows(Ids(kind))
           vecs == Rows(Vecs(kind))
           n == Min({Len(ids), Len(vecs)})
<1>1. /\ Ids(kind) \in CacheFiles /\ Vecs(kind) \in CacheFiles
  BY FilesApart
<1>2. FeatureTypes /\ Fit(kind)
  BY DEF FeatureInv
<1>3. /\ ids \in Seq(Nat) /\ vecs \in Seq(Nat)
      /\ State(Ids(kind)) \in {"absent", "torn", "whole"} /\ State(Vecs(kind)) \in {"absent", "torn", "whole"}
      /\ There(Ids(kind)) <=> State(Ids(kind)) # "absent"
      /\ There(Vecs(kind)) <=> State(Vecs(kind)) # "absent"
      /\ files[Ids(kind)] = HalfWritten <=> State(Ids(kind)) = "torn"
      /\ files[Vecs(kind)] = HalfWritten <=> State(Vecs(kind)) = "torn"
      /\ State(Ids(kind)) # "whole" => ids = <<>>
  BY <1>1, <1>2, TornOrWhole
<1>4. State(Ids(kind)) # "torn" /\ (State(Ids(kind)) = "whole" => State(Vecs(kind)) = "whole")
  BY <1>2, <1>3 DEF Unreadable, Fit
<1>5. State(Ids(kind)) = "whole" => Prefix(ids, vecs)
  BY <1>2, <1>4 DEF Fit
<1>l. Len(ids) \in Nat /\ Len(vecs) \in Nat
  BY <1>3
<1>z. Zipped(kind) = [i \in 1 .. n |-> <<ids[i], vecs[i]>>]
  BY DEF Zipped, Rows
<1> HIDE DEF ids, vecs
<1>6. n = Len(ids) /\ \A i \in 1 .. Len(ids) : vecs[i] = ids[i]
  <2>1. n = IF Len(ids) <= Len(vecs) THEN Len(ids) ELSE Len(vecs)
    BY <1>l, LesserOf
  <2> HIDE DEF n
  <2>2. CASE State(Ids(kind)) = "whole"
    BY <1>5, <1>l, <2>1, <2>2 DEF Prefix
  <2>3. CASE State(Ids(kind)) # "whole"
    <3>1. Len(ids) = 0
      BY <1>3, <2>3
    <3>2. QED
      BY <1>l, <2>1, <3>1
  <2>4. QED
    BY <2>2, <2>3
<1> HIDE DEF n
<1>7. Zipped(kind) = [i \in 1 .. Len(ids) |-> <<ids[i], vecs[i]>>]
  BY <1>6, <1>z
<1>8. \A i \in 1 .. Len(ids) : ids[i] \in Nat /\ <<ids[i], vecs[i]>> = <<ids[i], ids[i]>>
  BY <1>3, <1>6, ElementOfSeq
<1>9. Zipped(kind) \in [1 .. Len(ids) -> Nat \X Nat]
  BY <1>7, <1>8
<1>10. Zipped(kind) \in Seq(Nat \X Nat)
  BY ONLY <1>9, <1>l, SeqDef
<1>11. Len(Zipped(kind)) = Len(ids)
  BY ONLY <1>9, <1>10, <1>l
<1>12. \A i \in 1 .. Len(ids) : Zipped(kind)[i] = <<ids[i], ids[i]>>
  BY <1>7, <1>8
<1>13. QED
  BY <1>4, <1>10, <1>11, <1>12 DEF ids

LEMMA LoadVectorsInv == FeatureInv /\ LoadVectors => FeatureInv'
<1> SUFFICES ASSUME FeatureInv, LoadVectors PROVE FeatureInv'
  OBVIOUS
<1> DEFINE unread == \E kind \in Kinds : Unreadable(kind)
<1>1. /\ step = "load" /\ writes = <<>> /\ writes' = <<>> /\ UNCHANGED <<files, saved, asked, gpu>>
      /\ step' = IF unread THEN "failed" ELSE "gpu"
      /\ held' = [kind \in Kinds |-> IF Unreadable(kind) THEN <<>> ELSE Zipped(kind)]
  BY DEF LoadVectors, Goto, NoWrites
<1>2. ASSUME NEW kind \in Kinds
      PROVE  /\ held'[kind] \in Seq(Nat \X Nat)
             /\ \A i \in DOMAIN held'[kind] : held'[kind][i][1] = held'[kind][i][2]
                                              /\ held'[kind][i][1] \in Range(Rows(Ids(kind)))
             /\ ~Unreadable(kind) => /\ Len(held'[kind]) = Len(Rows(Ids(kind)))
                                     /\ \A i \in 1 .. Len(Rows(Ids(kind))) : held'[kind][i][1] = Rows(Ids(kind))[i]
                                     /\ State(Ids(kind)) # "torn"
  <2>1. CASE Unreadable(kind)
    <3>1. held'[kind] = <<>>
      BY <1>1, <2>1
    <3>2. QED
      BY <2>1, <3>1, EmptySeq
  <2>2. CASE ~Unreadable(kind)
    <3>1. held'[kind] = Zipped(kind)
      BY <1>1, <2>2
    <3>2. /\ held'[kind] \in Seq(Nat \X Nat) /\ Len(held'[kind]) = Len(Rows(Ids(kind)))
          /\ \A i \in 1 .. Len(Rows(Ids(kind))) : held'[kind][i] = <<Rows(Ids(kind))[i], Rows(Ids(kind))[i]>>
          /\ State(Ids(kind)) # "torn"
      BY <2>2, <3>1, ZippedIs
    <3>3. DOMAIN held'[kind] = 1 .. Len(Rows(Ids(kind)))
      BY <3>2, LenProperties
    <3>4. Rows(Ids(kind)) \in Seq(Nat)
      BY FilesApart, TornOrWhole DEF FeatureInv
    <3>5. \A i \in 1 .. Len(Rows(Ids(kind))) : Rows(Ids(kind))[i] \in Range(Rows(Ids(kind)))
      BY <3>4, LenProperties DEF Range
    <3>6. QED
      BY <2>2, <3>2, <3>3, <3>5
  <2>3. QED
    BY <2>1, <2>2
<1>3. held' \in [Kinds -> Seq(Nat \X Nat)]
  BY <1>1, <1>2
<1>4. FeatureTypes'
  BY <1>1, <1>3 DEF FeatureInv, FeatureTypes, State, Rows
<1>5. Pending' /\ Encoded'
  BY <1>1 DEF Pending, Encoded
<1>6. ASSUME NEW kind \in Kinds PROVE Fit(kind)'
  BY <1>1 DEF FeatureInv, Fit, There, State, Rows
<1>7. ASSUME NEW kind \in Kinds, step' # "failed" PROVE FilesLoaded(kind)'
  <2>1. ~Unreadable(kind)
    BY <1>1, <1>7
  <2> DEFINE ids == Rows(Ids(kind))
             h == held'[kind]
  <2>2. /\ h \in Seq(Nat \X Nat) /\ Len(h) = Len(ids)
        /\ \A i \in 1 .. Len(ids) : h[i][1] = ids[i]
        /\ State(Ids(kind)) # "torn"
    BY <1>2, <2>1
  <2>3. saved[Ids(kind)] \subseteq Range(ids)
    BY <2>2 DEF FeatureInv, Fit
  <2>4. ids \in Seq(Nat)
    BY FilesApart, TornOrWhole DEF FeatureInv
  <2>h. IdsHeld(kind)' = {pair[1] : pair \in Range(h)}
    BY DEF IdsHeld
  <2>k. Keys(held[kind])' = Keys(h)
    BY DEF Keys
  <2>r. Rows(Ids(kind))' = ids
    BY <1>1 DEF Rows
  <2> HIDE DEF ids, h
  <2>5. /\ Keys(h) \in Seq(Nat) /\ Len(Keys(h)) = Len(ids) /\ \A i \in 1 .. Len(ids) : Keys(h)[i] = ids[i]
        /\ Range(Keys(h)) = {pair[1] : pair \in Range(h)}
    BY <2>2, KeysAndVals
  <2>6. Keys(h) = ids
    BY <2>4, <2>5, SeqEqual
  <2>7. Prefix(ids, Keys(h))
    BY <2>4, <2>6 DEF Prefix
  <2>8. saved'[Ids(kind)] \subseteq IdsHeld(kind)'
    BY <1>1, <2>3, <2>5, <2>6, <2>h
  <2>9. Prefix(Rows(Ids(kind)), Keys(held[kind]))'
    BY <2>7, <2>k, <2>r DEF Prefix
  <2>10. QED
    BY <2>8, <2>9 DEF FilesLoaded
<1>8. Paired'
  BY <1>2 DEF Paired
<1>9. TextsOnly'
  <2>1. "passages" \in Kinds
    BY DEF Kinds
  <2>2. \A i \in DOMAIN held'["passages"] : held'["passages"][i][1] \in Range(Rows(Ids("passages")))
    BY <1>2, <2>1
  <2>3. Range(Rows(Ids("passages"))) \subseteq Texts
    BY DEF FeatureInv, TextsOnly
  <2>4. Range(Rows(Ids("passages"))') \subseteq Texts
    BY <1>1, <2>3 DEF Rows
  <2>5. QED
    BY <2>2, <2>3, <2>4 DEF TextsOnly
<1>10. LengthsKept' /\ GpuGivenBack'
  BY <1>1 DEF LengthsKept, GpuGivenBack, FeatureInv, State, Rows
<1>11. \A kind \in Kinds : FilesLoaded(kind)'
  <2>1. CASE step' = "failed"
    BY <2>1 DEF FilesLoaded
  <2>2. QED
    BY <1>7, <2>1
<1>12. QED
  BY <1>4, <1>5, <1>6, <1>8, <1>9, <1>10, <1>11 DEF FeatureInv

-----------------------------------------------------------------------------
\* A chunk is encoded: the dict keeps what it has, and gains texts that are asked for.
LEMMA EncodeInv ==
    ASSUME FeatureInv, NEW kind \in Kinds, NEW ids \in Seq(Nat), Encode(kind, ids),
           step \in {"queries", "passages"}, step' = "passages",
           Range(ids) \subseteq Wanted(kind),
           kind = "queries" => Need("queries") \subseteq Range(ids),
           step = "queries" => kind = "queries"
    PROVE  FeatureInv'
<1> DEFINE d == held[kind]
           e == Added(d, ids)
<1>1. /\ held' = [held EXCEPT ![kind] = e] /\ writes' = Saves(kind, held'[kind])
      /\ UNCHANGED <<asked, files, gpu, featureRuns, saved>>
  BY Zenon DEF Encode
<1>2. held \in [Kinds -> Seq(Nat \X Nat)] /\ d \in Seq(Nat \X Nat)
  BY DEF FeatureInv, FeatureTypes
<1>e. e = Added(d, ids) /\ d = held[kind]
  OBVIOUS
<1> HIDE DEF d, e
<1>3. /\ e \in Seq(Nat \X Nat) /\ Len(d) <= Len(e) /\ \A i \in 1 .. Len(d) : e[i] = d[i]
      /\ \A i \in 1 .. Len(e) : i \in 1 .. Len(d) \/ \E x \in Range(ids) : e[i] = <<x, x>>
      /\ \A x \in Range(ids) : \E i \in 1 .. Len(e) : e[i] = <<x, x>>
  <2>1. ids \in Seq(Nat)
    OBVIOUS
  <2>2. QED
    <3>1. Extends(e, d, ids)
      BY <1>2, <1>e, <2>1, AddedTo, Zenon
    <3>2. QED
      BY <3>1, Zenon DEF Extends
<1>4. /\ DOMAIN d = 1 .. Len(d) /\ DOMAIN e = 1 .. Len(e) /\ Len(d) \in Nat /\ Len(e) \in Nat
  BY <1>2, <1>3, LenProperties
<1>5. held'[kind] = e /\ \A other \in Kinds \ {kind} : held'[other] = held[other]
  BY <1>1, <1>2
<1>6. FeatureTypes'
  <2>1. held' \in [Kinds -> Seq(Nat \X Nat)]
    BY <1>1, <1>2, <1>3
  <2>2. QED
    BY <1>1, <2>1 DEF FeatureInv, FeatureTypes, State, Rows
<1>7. Pending'
  BY <1>1 DEF Pending
<1>8. \A other \in Kinds : Fit(other)'
  BY <1>1 DEF FeatureInv, Fit, There, State, Rows
<1>9. \A i \in 1 .. Len(d) : i \in 1 .. Len(e) /\ e[i] = d[i]
  <2>1. PICK m \in Nat, n \in Nat : m = Len(d) /\ n = Len(e) /\ m <= n
    BY <1>3, <1>4
  <2>2. 1 .. m \subseteq 1 .. n
    BY ONLY <2>1
  <2>3. QED
    BY ONLY <1>3, <2>1, <2>2
<1>10. ASSUME NEW other \in Kinds PROVE IdsHeld(other) \subseteq IdsHeld(other)'
  <2>1. CASE other = kind
    <3>1. Range(d) \subseteq Range(e)
      BY <1>4, <1>9 DEF Range
    <3>2. IdsHeld(other) = {pair[1] : pair \in Range(d)} /\ IdsHeld(other)' = {pair[1] : pair \in Range(e)}
      BY <1>5, <1>e, <2>1 DEF IdsHeld
    <3>3. QED
      BY <3>1, <3>2
  <2>2. CASE other # kind
    BY <1>5, <2>2 DEF IdsHeld
  <2>3. QED
    BY <2>1, <2>2
<1>11. ASSUME NEW other \in Kinds PROVE FilesLoaded(other)'
  <2>1. FilesLoaded(other)
    BY DEF FeatureInv
  <2>2. saved[Ids(other)] \subseteq IdsHeld(other)'
    BY <1>10, <2>1 DEF FilesLoaded
  <2>3. State(Ids(other))' = State(Ids(other)) /\ Rows(Ids(other))' = Rows(Ids(other))
    BY <1>1 DEF State, Rows
  <2>4. State(Ids(other)) = "whole" => Prefix(Rows(Ids(other)), Keys(held'[other]))
    <3>1. SUFFICES ASSUME State(Ids(other)) = "whole" PROVE Prefix(Rows(Ids(other)), Keys(held'[other]))
      OBVIOUS
    <3>2. Prefix(Rows(Ids(other)), Keys(held[other]))
      BY <2>1, <3>1 DEF FilesLoaded
    <3>3. CASE other = kind
      <4>1. /\ Len(Keys(d)) = Len(d) /\ Len(Keys(e)) = Len(e)
            /\ \A i \in 1 .. Len(d) : Keys(d)[i] = d[i][1]
            /\ \A i \in 1 .. Len(e) : Keys(e)[i] = e[i][1]
        BY <1>2, <1>3, KeysAndVals
      <4>2. Prefix(Rows(Ids(other)), Keys(d)) /\ held'[other] = e
        BY <1>5, <1>e, <3>2, <3>3
      <4>3. Rows(Ids(other)) \in Seq(Nat)
        BY FilesApart, TornOrWhole DEF FeatureInv
      <4> DEFINE r == Rows(Ids(other))
      <4>r. r = Rows(Ids(other))
        OBVIOUS
      <4> HIDE DEF r
      <4>p. Prefix(r, Keys(d)) /\ Len(r) \in Nat
        BY <4>2, <4>3, <4>r, LenProperties
      <4>4. Len(r) \in Nat /\ Len(r) <= Len(d) /\ \A i \in 1 .. Len(r) : r[i] = Keys(d)[i]
        BY <4>1, <4>p DEF Prefix
      <4>5. Len(r) <= Len(Keys(e)) /\ \A i \in 1 .. Len(r) : i \in 1 .. Len(d)
        BY <1>3, <1>4, <4>1, <4>4
      <4>6. \A i \in 1 .. Len(r) : r[i] = Keys(e)[i]
        BY <1>9, <4>1, <4>4, <4>5, SMTT(30)
      <4>7. QED
        BY <4>2, <4>5, <4>6 DEF Prefix, r
    <3>4. CASE other # kind
      BY <1>5, <3>2, <3>4
    <3>5. QED
      BY <3>3, <3>4
  <2>5. Keys(held[other])' = Keys(held'[other])
    BY DEF Keys
  <2>6. (saved[Ids(other)] \subseteq IdsHeld(other))'
    BY <1>1, <2>2
  <2>7. (State(Ids(other)) = "whole" => Prefix(Rows(Ids(other)), Keys(held[other])))'
    BY <2>3, <2>4, <2>5 DEF Prefix
  <2>8. QED
    BY <2>6, <2>7 DEF FilesLoaded
<1>12. Paired'
  <2>1. ASSUME NEW other \in Kinds, NEW i \in DOMAIN held'[other]
        PROVE  held'[other][i][1] = held'[other][i][2]
    <3>1. CASE other = kind
      <4>1. i \in 1 .. Len(e) /\ held'[other][i] = e[i]
        BY <1>4, <1>5, <3>1
      <4>2. CASE i \in 1 .. Len(d)
        <5>1. d[i][1] = d[i][2]
          BY <1>4, <1>e, <4>2 DEF FeatureInv, Paired
        <5>2. QED
          BY <1>9, <4>1, <4>2, <5>1
      <4>3. QED
        BY <1>3, <4>1, <4>2
    <3>2. CASE other # kind
      BY <1>5, <3>2 DEF FeatureInv, Paired
    <3>3. QED
      BY <3>1, <3>2
  <2>2. QED
    BY <2>1 DEF Paired
<1>13. TextsOnly'
  <2>1. Range(Rows(Ids("passages"))') \subseteq Texts
    BY <1>1 DEF FeatureInv, TextsOnly, Rows
  <2>2. ASSUME NEW i \in DOMAIN held'["passages"] PROVE held'["passages"][i][1] \in Texts
    <3>1. CASE kind = "passages"
      <4>1. i \in 1 .. Len(e) /\ held'["passages"][i] = e[i]
        BY <1>4, <1>5, <3>1
      <4>2. CASE i \in 1 .. Len(d)
        <5>1. d[i][1] \in Texts
          BY <1>4, <1>e, <3>1, <4>2 DEF FeatureInv, TextsOnly
        <5>2. QED
          BY <1>9, <4>1, <4>2, <5>1
      <4>3. CASE i \notin 1 .. Len(d)
        <5>1. PICK x \in Range(ids) : e[i] = <<x, x>>
          BY <1>3, <4>1, <4>3
        <5>2. x \in Texts
          BY <3>1 DEF Wanted
        <5>3. QED
          BY <4>1, <5>1, <5>2
      <4>4. QED
        BY <4>2, <4>3
    <3>2. CASE kind # "passages"
      <4>1. held'["passages"] = held["passages"]
        BY <1>5, <3>2 DEF Kinds
      <4>2. QED
        BY <4>1 DEF FeatureInv, TextsOnly
    <3>3. QED
      BY <3>1, <3>2
  <2>3. QED
    BY <2>1, <2>2 DEF TextsOnly
<1>14. Encoded'
  <2>1. asked["queries"] \subseteq IdsHeld("queries")'
    <3>q. "queries" \in Kinds
      BY DEF Kinds
    <3>1. CASE step = "passages"
      <4>1. asked["queries"] \subseteq IdsHeld("queries")
        BY <3>1 DEF FeatureInv, Encoded
      <4>2. QED
        BY <1>10, <3>q, <4>1
    <3>2. CASE step = "queries"
      <4>1. kind = "queries" /\ Need("queries") \subseteq Range(ids)
        BY <3>2
      <4>2. asked["queries"] \subseteq IdsHeld("queries") \cup Range(ids)
        BY <4>1 DEF Need, Wanted
      <4>3. ASSUME NEW x \in Range(ids) PROVE x \in IdsHeld("queries")'
        <5>1. PICK i \in 1 .. Len(e) : e[i] = <<x, x>>
          BY <1>3
        <5>2. e[i] \in Range(e) /\ e[i][1] = x
          BY <1>4, <5>1 DEF Range
        <5>3. IdsHeld("queries")' = {pair[1] : pair \in Range(e)}
          BY <1>5, <4>1 DEF IdsHeld
        <5>4. QED
          BY <5>2, <5>3
      <4>4. QED
        BY <1>10, <3>q, <4>2, <4>3
    <3>3. QED
      BY <3>1, <3>2
  <2>2. QED
    BY <1>1, <2>1 DEF Encoded
<1>15. LengthsKept'
  BY <1>1 DEF FeatureInv, LengthsKept, State, Rows
<1>16. GpuGivenBack'
  BY <1>1 DEF FeatureInv, GpuGivenBack
<1>17. QED
  BY <1>6, <1>7, <1>8, <1>11, <1>12, <1>13, <1>14, <1>15, <1>16 DEF FeatureInv

\* What is needed is a finite set of ids.
LEMMA NeedIsFinite ==
    ASSUME FeatureInv, NEW kind \in Kinds
    PROVE  /\ SetToSeq(Need(kind)) \in Seq(Nat) /\ Range(SetToSeq(Need(kind))) = Need(kind)
           /\ Need(kind) \subseteq Wanted(kind)
<1>1. asked[kind] \in SUBSET Nat /\ IsFiniteSet(asked[kind])
  BY DEF FeatureInv, FeatureTypes
<1>2. Need(kind) \subseteq Wanted(kind) /\ Wanted(kind) \subseteq asked[kind]
  BY DEF Need, Wanted
<1>3. Need(kind) \in SUBSET Nat /\ IsFiniteSet(Need(kind))
  BY <1>1, <1>2, FS_Subset
<1>4. QED
  BY <1>2, <1>3, OrderedRange

LEMMA EncodeQueriesInv == FeatureInv /\ EncodeQueries => FeatureInv'
<1> SUFFICES ASSUME FeatureInv, EncodeQueries PROVE FeatureInv'
  OBVIOUS
<1>1. /\ step = "queries" /\ writes = <<>> /\ step' = "passages" /\ "queries" \in Kinds
      /\ IF Need("queries") = {} THEN NoWrites /\ UNCHANGED <<asked, held, gpu, featureRuns>>
         ELSE Encode("queries", SetToSeq(Need("queries")))
  BY DEF EncodeQueries, Goto, Kinds
<1>2. CASE Need("queries") # {}
  <2>1. /\ SetToSeq(Need("queries")) \in Seq(Nat) /\ Range(SetToSeq(Need("queries"))) = Need("queries")
        /\ Need("queries") \subseteq Wanted("queries")
    BY <1>1, NeedIsFinite
  <2>2. Encode("queries", SetToSeq(Need("queries")))
    BY <1>1, <1>2
  <2>3. QED
    BY <1>1, <2>1, <2>2, EncodeInv
<1>3. CASE Need("queries") = {}
  <2>1. UNCHANGED <<asked, held, gpu, writes, files, saved>>
    BY <1>1, <1>3 DEF NoWrites
  <2>2. /\ FeatureTypes' /\ Paired' /\ TextsOnly' /\ \A kind \in Kinds : Fit(kind)'
        /\ \A kind \in Kinds : IdsHeld(kind)' = IdsHeld(kind)
        /\ \A f : State(f)' = State(f) /\ Rows(f)' = Rows(f)
    BY <2>1, Unwritten DEF FeatureInv, FeatureTypes
  <2>3. Pending'
    BY <1>1, <2>1 DEF Pending
  <2>4. ASSUME NEW kind \in Kinds PROVE FilesLoaded(kind)'
    <3>1. FilesLoaded(kind)
      BY DEF FeatureInv
    <3>2. QED
      BY <1>1, <2>1, <2>2, <3>1 DEF FilesLoaded
  <2>5. Encoded'
    <3>1. asked["queries"] \subseteq IdsHeld("queries")
      BY <1>3 DEF Need, Wanted
    <3>2. QED
      BY <1>1, <2>1, <2>2, <3>1 DEF Encoded
  <2>6. LengthsKept' /\ GpuGivenBack'
    BY <1>1, <2>1, <2>2 DEF FeatureInv, LengthsKept, GpuGivenBack
  <2>7. QED
    BY <2>2, <2>3, <2>4, <2>5, <2>6 DEF FeatureInv
<1>4. QED
  BY <1>2, <1>3

LEMMA EncodePassagesInv == FeatureInv /\ EncodePassages => FeatureInv'
<1> SUFFICES ASSUME FeatureInv, EncodePassages PROVE FeatureInv'
  OBVIOUS
<1> DEFINE ids == Top(SetToSeq(Need("passages")), EncodeStepSize)
<1>1. /\ step = "passages" /\ step' = "passages" /\ "passages" \in Kinds /\ Encode("passages", ids)
  BY DEF EncodePassages, Goto, Kinds
<1>2. /\ SetToSeq(Need("passages")) \in Seq(Nat) /\ Range(SetToSeq(Need("passages"))) = Need("passages")
      /\ Need("passages") \subseteq Wanted("passages")
  BY <1>1, NeedIsFinite
<1>t. \A t \in Seq(Nat) : Top(t, EncodeStepSize) \in Seq(Nat) /\ Range(Top(t, EncodeStepSize)) \subseteq Range(t)
  BY TopOf, AsksAssumption
<1>3. ids \in Seq(Nat) /\ Range(ids) \subseteq Wanted("passages")
  BY <1>2, <1>t
<1> HIDE DEF ids
<1>4. QED
  BY <1>1, <1>3, EncodeInv

-----------------------------------------------------------------------------
\* A file is emptied before it is written.
LEMMA OpenFileInv == FeatureInv /\ OpenFile => FeatureInv'
<1> SUFFICES ASSUME FeatureInv, OpenFile PROVE FeatureInv'
  OBVIOUS
<1> DEFINE f == writes[1].file
<1>1. /\ writes # <<>> /\ files' = [files EXCEPT ![f] = HalfWritten]
      /\ UNCHANGED <<step, asked, held, writes, gpu, saved>>
  BY Zenon DEF OpenFile
<1>2. FeatureTypes
  BY DEF FeatureInv
<1>3. \/ step = "load" /\ f = Lengths
      \/ step = "passages" /\ \E kind \in Kinds : \/ f = Vecs(kind) /\ writes = Saves(kind, held[kind])
                                                  \/ /\ f = Ids(kind) /\ files[Vecs(kind)] = Whole(Vals(held[kind]))
                                                     /\ writes = <<[file |-> Ids(kind), rows |-> Keys(held[kind])]>>
  BY <1>1 DEF FeatureInv, Pending, Saves
<1> HIDE DEF f
<1>4. f \in CacheFiles
  BY <1>3, FilesApart
<1>5. /\ files'[f] = HalfWritten
      /\ \A g \in CacheFiles \ {f} : files'[g] = files[g] /\ files'[g].state = State(g) /\ files'[g].rows = Rows(g)
  BY <1>1, <1>2, <1>4 DEF FeatureTypes, State, Rows, HalfWritten
<1>s. /\ files'[f].state = "torn" /\ files'[f].rows = <<>>
  BY <1>5 DEF HalfWritten
<1>6. FeatureTypes'
  <2>1. files' \in [CacheFiles -> [state : {"absent", "torn", "whole"}, rows : Seq(Nat)]]
    BY <1>1, <1>2, EmptySeq DEF FeatureTypes, HalfWritten
  <2>2. ASSUME NEW g \in CacheFiles, files'[g].state # "whole" PROVE files'[g].rows = <<>>
    BY <1>2, <1>5, <1>s, <2>2 DEF FeatureTypes, State, Rows
  <2>3. QED
    BY <1>1, <1>2, <2>1, <2>2 DEF FeatureTypes, State, Rows
<1>7. Pending'
  <2>1. CASE f = Lengths
    BY <1>1, <1>3, <2>1, FilesApart DEF FeatureInv, Pending
  <2>2. CASE step = "passages"
    <3>1. PICK kind \in Kinds : \/ f = Vecs(kind) /\ writes = Saves(kind, held[kind])
                                \/ /\ f = Ids(kind) /\ files[Vecs(kind)] = Whole(Vals(held[kind]))
                                   /\ writes = <<[file |-> Ids(kind), rows |-> Keys(held[kind])]>>
      BY <1>3, <2>2, FilesApart
    <3>2. CASE f = Vecs(kind) /\ writes = Saves(kind, held[kind])
      <4>1. writes' = Saves(kind, held'[kind]) /\ step' = "passages"
        BY <1>1, <2>2, <3>2
      <4>2. QED
        BY <4>1 DEF Pending
    <3>3. CASE f = Ids(kind) /\ files[Vecs(kind)] = Whole(Vals(held[kind]))
               /\ writes = <<[file |-> Ids(kind), rows |-> Keys(held[kind])]>>
      <4>1. files'[Vecs(kind)] = Whole(Vals(held'[kind]))
        BY <1>1, <1>5, <3>3, FilesApart
      <4>2. writes' = <<[file |-> Ids(kind), rows |-> Keys(held'[kind])]>> /\ step' = "passages"
        BY <1>1, <2>2, <3>3
      <4>3. QED
        BY <4>1, <4>2 DEF Pending
    <3>4. QED
      BY <3>1, <3>2, <3>3
  <2>3. QED
    BY <1>3, <2>1, <2>2
<1>8. ASSUME NEW kind \in Kinds PROVE Fit(kind)'
  <2>1. Fit(kind)
    BY DEF FeatureInv
  <2>2. Vecs(kind) \in CacheFiles /\ Ids(kind) \in CacheFiles /\ Vecs(kind) # Ids(kind)
    BY FilesApart
  <2>3. CASE f = Vecs(kind)
    <3>1. files'[Ids(kind)] = files[Ids(kind)] /\ files'[Vecs(kind)].state = "torn"
      BY <1>5, <1>s, <2>2, <2>3
    <3>2. QED
      BY <1>1, <2>1, <3>1 DEF Fit, There, State, Rows
  <2>4. CASE f = Ids(kind)
    <3>1. files'[Vecs(kind)] = files[Vecs(kind)] /\ files'[Ids(kind)].state = "torn"
      BY <1>5, <1>s, <2>2, <2>4
    <3>2. files[Vecs(kind)].state = "whole"
      <4>1. PICK other \in Kinds : f = Ids(other) /\ files[Vecs(other)] = Whole(Vals(held[other]))
        BY <1>3, <2>4, FilesApart
      <4>2. other = kind
        BY <2>4, <4>1, FilesApart
      <4>3. QED
        BY <4>1, <4>2 DEF Whole
    <3>3. QED
      BY <1>1, <3>1, <3>2 DEF Fit, There, State, Rows
  <2>5. CASE f # Vecs(kind) /\ f # Ids(kind)
    <3>1. files'[Vecs(kind)] = files[Vecs(kind)] /\ files'[Ids(kind)] = files[Ids(kind)]
      BY <1>5, <2>2, <2>5
    <3>2. QED
      BY <1>1, <2>1, <3>1 DEF Fit, There, State, Rows
  <2>6. QED
    BY <2>3, <2>4, <2>5
<1>9. ASSUME NEW kind \in Kinds PROVE FilesLoaded(kind)'
  <2>1. FilesLoaded(kind)
    BY DEF FeatureInv
  <2>2. files'[Ids(kind)] = files[Ids(kind)] \/ files'[Ids(kind)].state = "torn"
    BY <1>5, <1>s, FilesApart
  <2>3. QED
    BY <1>1, <2>1, <2>2 DEF FilesLoaded, State, Rows, IdsHeld
<1>10. Paired' /\ Encoded' /\ GpuGivenBack'
  BY <1>1 DEF FeatureInv, Paired, Encoded, GpuGivenBack, IdsHeld, Need, Wanted
<1>11. TextsOnly'
  <2>1. TextsOnly /\ "passages" \in Kinds
    BY DEF FeatureInv, Kinds
  <2>2. files'[Ids("passages")].rows = files[Ids("passages")].rows \/ files'[Ids("passages")].rows = <<>>
    BY <1>5, <1>s, <2>1, FilesApart
  <2>3. Range(files'[Ids("passages")].rows) \subseteq Texts
    BY <2>1, <2>2 DEF TextsOnly, Rows, Range
  <2>4. QED
    BY <1>1, <2>1, <2>3 DEF TextsOnly, Rows
<1>12. LengthsKept'
  <2>1. step = "load" => writes # <<>>
    BY <1>1
  <2>2. files'[Lengths] = files[Lengths] \/ files'[Lengths].state = "torn"
    BY <1>5, <1>s, FilesApart
  <2>3. QED
    BY <1>1, <2>1, <2>2 DEF FeatureInv, LengthsKept, State, Rows
<1>13. QED
  BY <1>6, <1>7, <1>8, <1>9, <1>10, <1>11, <1>12 DEF FeatureInv

\* What a file that has been written holds.
LEMMA Written ==
    ASSUME FeatureInv, WriteRows, NEW f \in CacheFiles, f = writes[1].file, NEW rows \in Seq(Nat), rows = writes[1].rows
    PROVE  /\ FeatureTypes' /\ Paired' /\ Encoded' /\ GpuGivenBack'
           /\ UNCHANGED <<step, asked, held>>
           /\ files'[f].state = "whole" /\ files'[f].rows = rows /\ files'[f] = Whole(rows)
           /\ saved'[f] = saved[f] \cup Range(rows)
           /\ \A g \in CacheFiles \ {f} : files'[g] = files[g] /\ saved'[g] = saved[g]
<1>1. /\ files' = [files EXCEPT ![f] = Whole(rows)]
      /\ saved' = [g \in CacheFiles |-> IF g = f THEN saved[g] \cup Range(rows) ELSE saved[g]]
      /\ UNCHANGED <<step, asked, held, gpu>>
  BY DEF WriteRows
<1>2. FeatureTypes
  BY DEF FeatureInv
<1>3. /\ files'[f] = Whole(rows) /\ saved'[f] = saved[f] \cup Range(rows)
      /\ \A g \in CacheFiles \ {f} : files'[g] = files[g] /\ saved'[g] = saved[g]
  BY <1>1, <1>2 DEF FeatureTypes
<1>4. files'[f].state = "whole" /\ files'[f].rows = rows
  BY <1>3 DEF Whole
<1>5. FeatureTypes'
  <2>1. files' \in [CacheFiles -> [state : {"absent", "torn", "whole"}, rows : Seq(Nat)]]
    BY <1>1, <1>2 DEF FeatureTypes, Whole
  <2>2. ASSUME NEW g \in CacheFiles, files'[g].state # "whole" PROVE files'[g].rows = <<>>
    BY <1>2, <1>3, <1>4, <2>2 DEF FeatureTypes, State, Rows
  <2>3. Range(rows) \subseteq Nat
    BY LenProperties, ElementOfSeq DEF Range
  <2>4. saved' \in [CacheFiles -> SUBSET Nat]
    BY <1>1, <1>2, <2>3 DEF FeatureTypes
  <2>5. QED
    BY <1>1, <1>2, <2>1, <2>2, <2>4 DEF FeatureTypes, State, Rows
<1>6. Paired' /\ Encoded' /\ GpuGivenBack'
  BY <1>1 DEF FeatureInv, Paired, Encoded, GpuGivenBack, IdsHeld, Need, Wanted
<1>7. QED
  BY <1>1, <1>3, <1>4, <1>5, <1>6

LEMMA WriteLengthsInv ==
    ASSUME FeatureInv, WriteRows, step = "load",
           writes = <<[file |-> Lengths, rows |-> writes[1].rows]>>
    PROVE  FeatureInv'
<1> DEFINE rows == writes[1].rows
<1>1. /\ rows \in Seq(Nat) /\ writes[1].file = Lengths
      /\ saved[Lengths] \cup (asked["passages"] \cap Texts) \subseteq Range(rows)
  BY DEF FeatureInv, Pending, WriteRows
<1>2. writes' = <<>>
  BY DEF WriteRows
<1>3. /\ FeatureTypes' /\ Paired' /\ Encoded' /\ GpuGivenBack'
      /\ UNCHANGED <<step, asked, held>>
      /\ files'[Lengths].state = "whole" /\ files'[Lengths].rows = rows
      /\ saved'[Lengths] = saved[Lengths] \cup Range(rows)
      /\ \A g \in CacheFiles \ {Lengths} : files'[g] = files[g] /\ saved'[g] = saved[g]
  BY <1>1, Written, FilesApart
<1> HIDE DEF rows
<1>4. Pending' /\ \A kind \in Kinds : FilesLoaded(kind)'
  BY <1>2, <1>3 DEF Pending, FilesLoaded
<1>5. ASSUME NEW kind \in Kinds
      PROVE  /\ files'[Vecs(kind)] = files[Vecs(kind)] /\ files'[Ids(kind)] = files[Ids(kind)]
             /\ saved'[Ids(kind)] = saved[Ids(kind)]
  BY <1>3, FilesApart
<1>6. ASSUME NEW kind \in Kinds PROVE Fit(kind)'
  BY <1>5 DEF FeatureInv, Fit, There, State, Rows
<1>7. TextsOnly'
  BY <1>3, <1>5 DEF FeatureInv, TextsOnly, Rows, Kinds
<1>8. LengthsKept'
  BY <1>1, <1>3 DEF LengthsKept, State, Rows
<1>9. QED
  BY <1>3, <1>4, <1>6, <1>7, <1>8 DEF FeatureInv

LEMMA WriteVecsInv ==
    ASSUME FeatureInv, WriteRows, step = "passages", NEW kind \in Kinds, writes = Saves(kind, held[kind])
    PROVE  FeatureInv'
<1> DEFINE d == held[kind]
<1>1. d \in Seq(Nat \X Nat)
  BY DEF FeatureInv, FeatureTypes
<1>2. /\ writes[1].file = Vecs(kind) /\ writes[1].rows = Vals(d)
      /\ writes' = <<[file |-> Ids(kind), rows |-> Keys(d)]>>
  BY DEF WriteRows, Saves, Vals, Keys
<1>d. d = held[kind]
  OBVIOUS
<1> HIDE DEF d
<1>3. /\ Keys(d) \in Seq(Nat) /\ Vals(d) \in Seq(Nat) /\ Len(Keys(d)) = Len(d) /\ Len(Vals(d)) = Len(d)
      /\ \A i \in 1 .. Len(d) : Keys(d)[i] = d[i][1] /\ Vals(d)[i] = d[i][2]
  BY <1>1, KeysAndVals
<1>v. Vecs(kind) \in CacheFiles
  BY FilesApart
<1>4. /\ FeatureTypes' /\ Paired' /\ Encoded' /\ GpuGivenBack'
      /\ UNCHANGED <<step, asked, held>>
      /\ files'[Vecs(kind)].state = "whole" /\ files'[Vecs(kind)].rows = Vals(d) /\ files'[Vecs(kind)] = Whole(Vals(d))
      /\ \A g \in CacheFiles \ {Vecs(kind)} : files'[g] = files[g] /\ saved'[g] = saved[g]
  BY <1>2, <1>3, <1>v, Written
<1>5. Pending'
  <2>1. /\ step' = "passages" /\ writes' = <<[file |-> Ids(kind), rows |-> Keys(held'[kind])]>>
        /\ files'[Vecs(kind)] = Whole(Vals(held'[kind]))
    BY <1>2, <1>4, <1>d
  <2>2. QED
    BY <2>1 DEF Pending
<1>6. Keys(d) = Vals(d)
  <2>1. DOMAIN d = 1 .. Len(d) /\ \A i \in DOMAIN d : d[i][1] = d[i][2]
    BY <1>1, <1>d, LenProperties DEF FeatureInv, Paired
  <2>2. Len(Keys(d)) = Len(Vals(d)) /\ \A i \in 1 .. Len(Keys(d)) : Keys(d)[i] = Vals(d)[i]
    BY <1>3, <2>1
  <2>3. QED
    BY <1>3, <2>2, SeqEqual, Zenon
<1>7. ASSUME NEW other \in Kinds PROVE files'[Ids(other)] = files[Ids(other)] /\ saved'[Ids(other)] = saved[Ids(other)]
  BY <1>4, FilesApart
<1>8. ASSUME NEW other \in Kinds PROVE Fit(other)'
  <2>1. Fit(other) /\ FilesLoaded(other)
    BY DEF FeatureInv
  <2>2. CASE other = kind
    <3>1. State(Ids(kind)) = "whole" => Prefix(Rows(Ids(kind)), Vals(d))
      BY <1>6, <1>d, <2>1, <2>2 DEF FilesLoaded
    <3>2. QED
      BY <1>4, <1>7, <2>1, <2>2, <3>1 DEF Fit, There, State, Rows, Prefix
  <2>3. CASE other # kind
    <3>1. files'[Vecs(other)] = files[Vecs(other)]
      BY <1>4, <2>3, FilesApart
    <3>2. QED
      BY <1>7, <2>1, <3>1 DEF Fit, There, State, Rows
  <2>4. QED
    BY <2>2, <2>3
<1>9. ASSUME NEW other \in Kinds PROVE FilesLoaded(other)'
  <2>1. FilesLoaded(other)
    BY DEF FeatureInv
  <2>2. QED
    BY <1>4, <1>7, <2>1 DEF FilesLoaded, State, Rows, IdsHeld
<1>10. TextsOnly'
  BY <1>4, <1>7 DEF FeatureInv, TextsOnly, Rows, Kinds
<1>11. LengthsKept'
  <2>1. files'[Lengths] = files[Lengths] /\ saved'[Lengths] = saved[Lengths]
    BY <1>4, FilesApart
  <2>2. QED
    BY <1>4, <2>1 DEF FeatureInv, LengthsKept, State, Rows
<1>12. QED
  BY <1>4, <1>5, <1>8, <1>9, <1>10, <1>11 DEF FeatureInv

LEMMA WriteIdsInv ==
    ASSUME FeatureInv, WriteRows, step = "passages", NEW kind \in Kinds,
           writes = <<[file |-> Ids(kind), rows |-> Keys(held[kind])]>>, files[Vecs(kind)] = Whole(Vals(held[kind]))
    PROVE  FeatureInv'
<1> DEFINE d == held[kind]
<1>1. d \in Seq(Nat \X Nat)
  BY DEF FeatureInv, FeatureTypes
<1>2. writes[1].file = Ids(kind) /\ writes[1].rows = Keys(d) /\ writes' = <<>>
  BY DEF WriteRows
<1>d. d = held[kind] /\ files[Vecs(kind)] = Whole(Vals(d))
  OBVIOUS
<1> HIDE DEF d
<1>3. /\ Keys(d) \in Seq(Nat) /\ Vals(d) \in Seq(Nat) /\ Len(Keys(d)) = Len(d) /\ Len(Vals(d)) = Len(d)
      /\ \A i \in 1 .. Len(d) : Keys(d)[i] = d[i][1] /\ Vals(d)[i] = d[i][2]
      /\ Range(Keys(d)) = IdsHeld(kind)
  BY <1>1, <1>d, KeysAndVals DEF IdsHeld
<1>v. Ids(kind) \in CacheFiles
  BY FilesApart
<1>4. /\ FeatureTypes' /\ Paired' /\ Encoded' /\ GpuGivenBack'
      /\ UNCHANGED <<step, asked, held>>
      /\ files'[Ids(kind)].state = "whole" /\ files'[Ids(kind)].rows = Keys(d)
      /\ saved'[Ids(kind)] = saved[Ids(kind)] \cup Range(Keys(d))
      /\ \A g \in CacheFiles \ {Ids(kind)} : files'[g] = files[g] /\ saved'[g] = saved[g]
  BY <1>2, <1>3, <1>v, Written
<1>5. Pending'
  BY <1>2 DEF Pending
<1>6. Keys(d) = Vals(d)
  <2>1. DOMAIN d = 1 .. Len(d) /\ \A i \in DOMAIN d : d[i][1] = d[i][2]
    BY <1>1, <1>d, LenProperties DEF FeatureInv, Paired
  <2>2. Len(Keys(d)) = Len(Vals(d)) /\ \A i \in 1 .. Len(Keys(d)) : Keys(d)[i] = Vals(d)[i]
    BY <1>3, <2>1
  <2>3. QED
    BY <1>3, <2>2, SeqEqual, Zenon
<1>s. saved[Ids(kind)] \subseteq IdsHeld(kind)
  BY DEF FeatureInv, FilesLoaded
<1>p. Prefix(Keys(d), Keys(d))
  BY <1>3 DEF Prefix
<1>7. ASSUME NEW other \in Kinds PROVE files'[Vecs(other)] = files[Vecs(other)]
  BY <1>4, FilesApart
<1>8. ASSUME NEW other \in Kinds PROVE Fit(other)' /\ FilesLoaded(other)'
  <2>1. Fit(other) /\ FilesLoaded(other)
    BY DEF FeatureInv
  <2>2. CASE other = kind
    <3>1. files'[Vecs(kind)].state = "whole" /\ files'[Vecs(kind)].rows = Keys(d)
      BY <1>6, <1>7, <1>d DEF Whole
    <3>2. saved'[Ids(kind)] \subseteq Range(Keys(d))
      BY <1>3, <1>4, <1>s
    <3>3. Fit(kind)'
      BY <1>4, <1>p, <3>1, <3>2 DEF Fit, There, State, Rows, Prefix
    <3>k. Keys(held'[kind]) = Keys(d) /\ IdsHeld(kind)' = IdsHeld(kind)
      BY <1>4, <1>d DEF IdsHeld
    <3>4. FilesLoaded(kind)'
      <4>1. (saved[Ids(kind)] \subseteq IdsHeld(kind))'
        BY <1>3, <3>2, <3>k
      <4>2. Keys(held[kind])' = Keys(d) /\ Rows(Ids(kind))' = Keys(d)
        BY <1>4, <1>d DEF Keys, Rows
      <4>3. Prefix(Rows(Ids(kind)), Keys(held[kind]))'
        BY <1>p, <4>2 DEF Prefix
      <4>4. QED
        BY <4>1, <4>3 DEF FilesLoaded
    <3>5. QED
      BY <2>2, <3>3, <3>4
  <2>3. CASE other # kind
    <3>1. files'[Ids(other)] = files[Ids(other)] /\ saved'[Ids(other)] = saved[Ids(other)]
      BY <1>4, <2>3, FilesApart
    <3>2. QED
      BY <1>4, <1>7, <2>1, <3>1 DEF Fit, FilesLoaded, There, State, Rows, IdsHeld
  <2>4. QED
    BY <2>2, <2>3
<1>10. TextsOnly'
  <2>1. TextsOnly /\ "passages" \in Kinds
    BY DEF FeatureInv, Kinds
  <2>2. CASE kind = "passages"
    <3>1. DOMAIN d = 1 .. Len(d) /\ \A i \in DOMAIN d : d[i][1] \in Texts
      BY <1>1, <1>d, <2>1, <2>2, LenProperties DEF TextsOnly
    <3>2. Range(Keys(d)) \subseteq Texts
      <4>1. PICK n \in Nat : n = Len(d)
        BY <1>d, <1>1, LenProperties
      <4>2. DOMAIN Keys(d) = 1 .. n /\ \A i \in 1 .. n : Keys(d)[i] = d[i][1]
        BY <1>3, <4>1, LenProperties
      <4>3. QED
        BY <3>1, <4>1, <4>2 DEF Range
    <3>3. QED
      BY <1>4, <2>1, <2>2, <3>2 DEF TextsOnly, Rows
  <2>3. CASE kind # "passages"
    <3>1. files'[Ids("passages")] = files[Ids("passages")]
      BY <1>4, <2>1, <2>3, FilesApart
    <3>2. QED
      BY <1>4, <2>1, <3>1 DEF TextsOnly, Rows
  <2>4. QED
    BY <2>2, <2>3
<1>11. LengthsKept'
  <2>1. files'[Lengths] = files[Lengths] /\ saved'[Lengths] = saved[Lengths]
    BY <1>4, FilesApart
  <2>2. QED
    BY <1>4, <2>1 DEF FeatureInv, LengthsKept, State, Rows
<1>12. QED
  BY <1>4, <1>5, <1>8, <1>10, <1>11 DEF FeatureInv

LEMMA WriteRowsInv == FeatureInv /\ WriteRows => FeatureInv'
<1> SUFFICES ASSUME FeatureInv, WriteRows PROVE FeatureInv'
  OBVIOUS
<1>1. writes # <<>> /\ Pending
  BY DEF FeatureInv, WriteRows
<1>2. CASE step = "load" /\ writes = <<[file |-> Lengths, rows |-> writes[1].rows]>>
  BY <1>2, WriteLengthsInv
<1>3. CASE step = "passages"
  <2>1. PICK kind \in Kinds : \/ writes = Saves(kind, held[kind])
                              \/ /\ writes = <<[file |-> Ids(kind), rows |-> Keys(held[kind])]>>
                                 /\ files[Vecs(kind)] = Whole(Vals(held[kind]))
    BY <1>1, <1>3 DEF Pending
  <2>2. CASE writes = Saves(kind, held[kind])
    BY <1>3, <2>2, WriteVecsInv
  <2>3. CASE writes # Saves(kind, held[kind])
    BY <1>3, <2>1, <2>3, WriteIdsInv
  <2>4. QED
    BY <2>2, <2>3
<1>4. QED
  BY <1>1, <1>2, <1>3 DEF Pending

-----------------------------------------------------------------------------
\* The invariant of the cache: whatever is killed or fails between two writes, the
\* ids are a beginning of the vectors, nothing saved is forgotten, and what a run
\* holds extends what the files had.
THEOREM CacheInvariant == FeatureSpec => []FeatureInv
<1>1. FeatureInit => FeatureInv
  BY FeatureInitInv
<1>2. FeatureInv /\ [FeatureStep]_featureVars => FeatureInv'
  <2> SUFFICES ASSUME FeatureInv, [FeatureStep]_featureVars PROVE FeatureInv'
    OBVIOUS
  <2>1. CASE FeatureStep
    BY <2>1, StartFeatureInv, DocLengthsInv, LoadVectorsInv, TakeGpuInv, NameOwnerInv, EncodeQueriesInv, EncodePassagesInv,
       PassagesDoneInv, ReleaseGpuInv, OpenFileInv, WriteRowsInv, RaisesInv, ForgetInv, OtherJobInv DEF FeatureStep
  <2>2. CASE UNCHANGED featureVars
    BY <2>2 DEF featureVars, FeatureInv, FeatureTypes, Pending, Fit, FilesLoaded, Paired, TextsOnly, Encoded, LengthsKept,
                GpuGivenBack, State, Rows, There, IdsHeld, Need, Wanted
  <2>3. QED
    BY <2>1, <2>2
<1>3. QED
  BY <1>1, <1>2, PTL DEF FeatureSpec

\* Wherever earlier runs were killed or failed between two writes, an id stands
\* for its own vector, a run that is through has scored every candidate with a
\* text, nothing saved is lost to a cache that can be read, and the GPU comes back
\* from every run that has named itself its owner and is not killed.
THEOREM VectorsStayWithTheirIds == FeatureSpec => []VectorsFitTheirIds
<1>1. FeatureInv => VectorsFitTheirIds
  <2> SUFFICES ASSUME FeatureInv PROVE VectorsFitTheirIds
    OBVIOUS
  <2>1. ASSUME NEW kind \in Kinds, NEW pair \in Range(held[kind]) PROVE pair[1] = pair[2]
    BY DEF FeatureInv, Paired, Range
  <2>2. ASSUME step = "done" PROVE Scored = [q \in asked["queries"] |-> Wanted("passages")]
    <3>1. asked["queries"] \cap IdsHeld("queries") = asked["queries"]
      BY <2>2 DEF FeatureInv, Encoded
    <3>2. Wanted("passages") \subseteq IdsHeld("passages")
      BY <2>2 DEF FeatureInv, Encoded, Need
    <3>3. IdsHeld("passages") \subseteq Texts
      BY DEF FeatureInv, TextsOnly, IdsHeld, Range
    <3>4. asked["passages"] \cap IdsHeld("passages") = Wanted("passages")
      BY <3>2, <3>3 DEF Wanted
    <3>5. QED
      BY <3>1, <3>4 DEF Scored
  <2>3. ASSUME step = "queries", NEW kind \in Kinds PROVE saved[Ids(kind)] \subseteq IdsHeld(kind)
    BY <2>3 DEF FeatureInv, FilesLoaded
  <2>4. ASSUME step = "load", writes = <<>>
        PROVE  saved[Lengths] \cup (asked["passages"] \cap Texts) \subseteq Range(files[Lengths].rows)
    BY <2>4 DEF FeatureInv, LengthsKept, Rows
  <2>5. step \in {"off", "done", "failed"} => gpu \notin {"unnamed", "own"}
    BY DEF FeatureInv, GpuGivenBack
  <2>6. QED
    BY <2>1, <2>2, <2>3, <2>4, <2>5 DEF VectorsFitTheirIds
<1>2. QED
  BY <1>1, CacheInvariant, PTL

LEMMA NotEmpty == ASSUME NEW s, IsSeq(s), NEW x \in Range(s) PROVE s # <<>>
<1>1. s # <<>>
  BY DEF Range
<1>2. QED
  BY <1>1
-----------------------------------------------------------------------------
\* A sort of a run's documents lists as many as there are.
LEMMA SortedIs ==
    ASSUME NEW scores, IsFiniteSet(DOMAIN scores)
    PROVE  IsSeq(Sorted(scores)) /\ Len(Sorted(scores)) = Cardinality(DOMAIN scores)
<1> DEFINE S == DOMAIN scores
           placed == {<<Cardinality({y \in S : Ahead(scores[y], scores[x], y < x)}), x>> : x \in S}
           s == [i \in 1 .. Cardinality(S) |-> (CHOOSE p \in placed : p[1] = i - 1)[2]]
<1>1. Sorted(scores) = <<>> \o s
  BY Zenon DEF Sorted, Ordered
<1>2. PICK n \in Nat : n = Cardinality(S)
  BY FS_CardinalityType
<1>3. s = [i \in 1 .. n |-> s[i]]
  BY <1>2
<1> HIDE DEF s
<1>4. IsSeq(s) /\ Len(s) = n
  BY <1>3, FunctionIsSeq
<1>5. QED
  BY <1>1, <1>2, <1>4, WorkedOut
\* If they are numbers, and so are their scores, it lists them.
LEMMA SortedOfThem ==
    ASSUME NEW scores, IsFiniteSet(DOMAIN scores), DOMAIN scores \subseteq Nat, scores \in [DOMAIN scores -> Int]
    PROVE  \A i \in 1 .. Len(Sorted(scores)) : Sorted(scores)[i] \in DOMAIN scores
<1> DEFINE S == DOMAIN scores
           placed == {<<Place(S, scores, x), x>> : x \in S}
           g == [x \in S |-> Place(S, scores, x)]
           s == [i \in 1 .. Cardinality(S) |-> (CHOOSE p \in placed : p[1] = i - 1)[2]]
<1>1. Sorted(scores) = <<>> \o s
  BY Zenon DEF Sorted, Ordered, Ahead, Place, Behind
<1>2. PICK n \in Nat : n = Cardinality(S)
  BY FS_CardinalityType
<1>3. \A i \in 1 .. n : \E x \in S : Place(S, scores, x) = i - 1
  <2>1. Placed(S, scores)
    BY Places
  <2>2. QED
    BY ONLY <1>2, <2>1 DEF Placed
<1>4. s = [i \in 1 .. n |-> s[i]] /\ \A i \in 1 .. n : s[i] \in S
  <2>1. placed = WithPlaces(S, g) /\ \A x \in S : g[x] = Place(S, scores, x)
    BY DEF WithPlaces
  <2>2. s = [i \in 1 .. n |-> s[i]] /\ \A i \in 1 .. n : s[i] = LookUp(placed, i - 1)
    BY <1>2 DEF LookUp
  <2> HIDE DEF s, g, placed
  <2>3. LooksUp(S, g, n, s)
    BY ONLY <2>1, <2>2 DEF LooksUp
  <2>4. Filled(S, g, n)
    BY <1>3, <2>1 DEF Filled
  <2>5. Lists(S, g, n, s)
    BY ONLY <2>3, <2>4, LookedUp
  <2>6. QED
    BY <2>2, <2>5 DEF Lists
<1> HIDE DEF s
<1>5. IsSeq(s) /\ Len(s) = n
  BY <1>4, FunctionIsSeq
<1>6. QED
  BY <1>1, <1>4, <1>5, WorkedOut

LEMMA AtMostSix == ASSUME NEW l \in Nat, NEW k \in 1 .. 6, l <= k PROVE l \in 0 .. 6
OBVIOUS
\* The quality of what a ranker shows is a number.
LEMMA QualityIs ==
    ASSUME NEW list, IsSeq(list)
    PROVE  TableNdcg(list, Topic, PageLength) \in Int
<1> DEFINE k == PageLength
           positive == [d \in {e \in DOMAIN Topic : Topic[e] > 0} |-> Topic[d]]
           gains == [i \in 1 .. Len(Top(list, k)) |-> Grade(Topic, list[i])]
           ideal == [i \in 1 .. Len(Top(Sorted(positive), k)) |-> positive[Sorted(positive)[i]]]
<1>1. /\ IsFiniteSet(DOMAIN Topic) /\ DOMAIN Topic \subseteq Nat /\ \A d \in DOMAIN Topic : Topic[d] \in Int
      /\ k \in 1 .. 6
  BY RankersAssumption DEF Range, Discount
<1>2. \A d : Grade(Topic, d) \in Int
  BY <1>1 DEF Grade
<1>3. PICK m \in 0 .. 6 : m = Len(Top(list, k))
  <2>1. PICK l : l = Len(Top(list, k)) /\ l \in Nat /\ l <= k /\ k \in Nat /\ k \in 1 .. 6
    <3>1. k \in Nat
      BY <1>1
    <3>2. QED
      BY <1>1, <3>1, TopIs
  <2>2. PICK kk : l = Len(Top(list, k)) /\ l \in Nat /\ l <= kk /\ kk \in 1 .. 6
    BY ONLY <2>1
  <2>3. l \in 0 .. 6
    BY ONLY <2>2, AtMostSix, Zenon
  <2>4. QED
    BY ONLY <2>2, <2>3
<1>4. DCG(gains) \in Int
  <2>1. gains = [i \in 1 .. m |-> gains[i]] /\ \A i \in 1 .. m : gains[i] \in Int
    BY <1>2, <1>3
  <2> HIDE DEF gains
  <2>2. QED
    BY <2>1, DCGIs
<1>5. /\ IsFiniteSet(DOMAIN positive) /\ DOMAIN positive \subseteq Nat
      /\ positive \in [DOMAIN positive -> Int] /\ \A d \in DOMAIN positive : positive[d] \in Nat
  <2>1. {e \in DOMAIN Topic : Topic[e] > 0} \subseteq DOMAIN Topic
    OBVIOUS
  <2>2. IsFiniteSet({e \in DOMAIN Topic : Topic[e] > 0})
    BY <1>1, <2>1, FS_Subset
  <2>3. QED
    BY <1>1, <2>2
<1>6. DCG(ideal) \in Nat
  <2> HIDE DEF positive
  <2>1. IsSeq(Sorted(positive)) /\ \A i \in 1 .. Len(Sorted(positive)) : Sorted(positive)[i] \in DOMAIN positive
    BY <1>5, SortedIs, SortedOfThem
  <2>2. PICK n \in 0 .. 6 : n = Len(Top(Sorted(positive), k)) /\ n <= Len(Sorted(positive)) /\ Len(Sorted(positive)) \in Nat
    <3>1. k \in Nat
      BY <1>1
    <3>2. PICK l, m1 : /\ l = Len(Top(Sorted(positive), k)) /\ l \in Nat /\ l <= k /\ l <= m1 /\ k \in 1 .. 6
                      /\ m1 = Len(Sorted(positive)) /\ m1 \in Nat
      BY <1>1, <2>1, <3>1, TopIs, SeqIs
    <3>3. PICK kk : kk = k /\ l \in Nat /\ l <= kk /\ kk \in 1 .. 6
      BY ONLY <3>2
    <3>5. l \in 0 .. 6
      BY ONLY <3>3, AtMostSix, Zenon
    <3>4. QED
      BY ONLY <3>2, <3>5
  <2>3. ideal = [i \in 1 .. n |-> ideal[i]] /\ \A i \in 1 .. n : ideal[i] \in Nat
    <3>1. \A i \in 1 .. n : ideal[i] = positive[Sorted(positive)[i]] /\ Sorted(positive)[i] \in DOMAIN positive
      BY <2>1, <2>2
    <3>2. ideal = [i \in 1 .. n |-> ideal[i]]
      BY <2>2
    <3> HIDE DEF ideal
    <3>3. QED
      BY <1>5, <3>1, <3>2
  <2> HIDE DEF ideal
  <2>4. QED
    BY <2>3, DCGIs
<1>7. TableNdcg(list, Topic, k) = IF DCG(ideal) = 0 THEN 0 ELSE (Unit * DCG(gains)) \div DCG(ideal)
  BY Zenon DEF TableNdcg
<1> HIDE DEF ideal, gains
<1>8. PICK a \in Int, b \in Nat : a = DCG(gains) /\ b = DCG(ideal)
  BY <1>4, <1>6
<1>9. QED
  BY <1>7, <1>8, UnitAssumption

-----------------------------------------------------------------------------
LEMMA HeadIs ==
    ASSUME NEW s, IsSeq(s), s # <<>>
    PROVE  Head(s) = s[1] /\ 1 \in DOMAIN s /\ Head(s) \in Range(s)
<1>1. s \in Seq(Range(s)) /\ Len(s) \in Nat /\ DOMAIN s = 1 .. Len(s)
  BY SeqIs DEF IsSeq
<1>2. Head(s) = s[1] /\ Len(s) # 0
  BY <1>1
<1>3. 1 \in DOMAIN s
  BY <1>1, <1>2
<1>4. QED
  BY <1>2, <1>3 DEF Range
\* No ranker but an oracle is of the synthetic world.
LEMMA WorldIs ==
    ASSUME NEW n, "synthetic" \notin n.words
    PROVE  world(n) = IF "1m" \in n.words THEN "1m" ELSE "full"
BY DEF world

LEMMA FusedInOneWorld ==
    ASSUME NEW names, IsSeq(names), \A n \in Range(names) : "synthetic" \notin n.words,
           NEW bm25 \in Range(names), "bm25" \in bm25.words, "1m" \notin bm25.words,
           NEW dense \in Range(names)
    PROVE  world(FusedWith(names, bm25, dense)) = world(dense)
<1> DEFINE P == {i \in DOMAIN names : "bm25" \in names[i].words /\ world(names[i]) = world(dense)}
           same == WhereAt(names, P)
           alone == world(dense) = "1m" /\ ~\E n \in Range(names) : {"bm25", "1m"} \subseteq n.words
           restricted == Name(bm25.words \cup {"filtered", "1m"}, 0)
<1>1. FusedWith(names, bm25, dense) = IF alone THEN restricted ELSE IF same = <<>> THEN bm25 ELSE Head(same)
  BY Zenon DEF FusedWith, Where, WhereAt
<1>2. IsSeq(same) /\ Range(same) = {names[i] : i \in P}
  BY WhereIs
<1>3. world(dense) \in {"1m", "full"} /\ world(bm25) = "full"
  BY WorldIs
<1>4. CASE alone
  <2>1. "synthetic" \notin restricted.words /\ "1m" \in restricted.words
    BY DEF Name
  <2>2. world(restricted) = "1m"
    BY <2>1, WorldIs
  <2>3. QED
    BY <1>1, <1>4, <2>2
<1>5. CASE ~alone
  <2>1. same # <<>>
    <3>1. PICK n \in Range(names) : "bm25" \in n.words /\ world(n) = world(dense)
      <4>1. CASE world(dense) = "full"
        BY <1>3, <4>1
      <4>2. CASE world(dense) = "1m"
        <5>1. PICK n \in Range(names) : {"bm25", "1m"} \subseteq n.words
          BY <1>5, <4>2
        <5>2. world(n) = "1m"
          BY <5>1, WorldIs
        <5>3. QED
          BY <4>2, <5>1, <5>2
      <4>3. QED
        BY <1>3, <4>1, <4>2
    <3>2. n \in Range(same)
      BY <1>2, <3>1 DEF Range
    <3>3. QED
      BY <1>2, <3>2, NotEmpty
  <2> HIDE DEF same
  <2>2. Head(same) \in {names[i] : i \in P}
    BY <1>2, <2>1, HeadIs
  <2>3. world(Head(same)) = world(dense)
    BY <2>2
  <2> HIDE DEF alone
  <2>4. QED
    BY <1>1, <1>5, <2>1, <2>3
<1>6. QED
  BY <1>4, <1>5

\* A ranker has scores for finitely many documents, and is fused within one world.
Ranker(r) == IsFiniteSet(DOMAIN r.run) /\ (r.of = <<>> \/ world(r.of[1]) = world(r.of[2]))
LEMMA FusionIsFinite ==
    ASSUME NEW runs, DOMAIN runs = {1, 2}, \A i \in {1, 2} : IsFiniteSet(DOMAIN runs[i]), NEW k, NEW depth \in Nat
    PROVE  IsFiniteSet(DOMAIN RRFScores(runs, k, depth))
<1> DEFINE list(i) == Top(Sorted(runs[i]), depth)
<1>1. DOMAIN RRFScores(runs, k, depth) = UNION {Range(list(i)) : i \in DOMAIN runs}
  BY Zenon DEF RRFScores
<1>2. \A i \in {1, 2} : IsFiniteSet(Range(list(i)))
  BY SortedIs, TopIs, RangeIsFinite
<1> HIDE DEF list
<1>3. UNION {Range(list(i)) : i \in DOMAIN runs} = Range(list(1)) \cup Range(list(2))
  OBVIOUS
<1>4. PICK a, b : /\ DOMAIN RRFScores(runs, k, depth) = a \cup b /\ IsFiniteSet(a) /\ IsFiniteSet(b)
  BY <1>1, <1>2, <1>3
<1>5. QED
  BY ONLY <1>4, FS_Union
LEMMA OracleIsFinite ==
    ASSUME NEW sigma, NEW depth \in Nat
    PROVE  IsFiniteSet(DOMAIN NoisyOracle(Topic, sigma, Noise, depth))
<1> DEFINE scores == [d \in DOMAIN Noise |-> Grade(Topic, d) + sigma * Noise[d]]
           kept == Range(Top(Sorted(scores), depth))
<1>1. DOMAIN NoisyOracle(Topic, sigma, Noise, depth) = kept
  BY Zenon DEF NoisyOracle
<1>2. IsFiniteSet(DOMAIN scores)
  <2>1. PICK n \in Nat : DOMAIN Noise = 1 .. n
    BY RankersAssumption, LenProperties
  <2>2. 1 \in Int /\ n \in Int
    OBVIOUS
  <2>3. QED
    BY <2>1, <2>2, FS_Interval
<1> HIDE DEF scores
<1>3. QED
  BY <1>1, <1>2, SortedIs, TopIs, RangeIsFinite

LEMMA RankersAre ==
    ASSUME NEW given \in StudyInputs
    PROVE  IsSeq(load_rankers(given)) /\ \A r \in Range(load_rankers(given)) : Ranker(r)
<1> DEFINE real == [i \in DOMAIN given.real |-> given.real[i].name]
           runOf(n) == given.real[CHOOSE i \in DOMAIN real : real[i] = n].run
           P == {i \in DOMAIN real : "bm25" \in real[i].words /\ "1m" \notin real[i].words}
           Q == {i \in DOMAIN real : "dense" \in real[i].words /\ "rrf" \notin real[i].words}
           bm25s == WhereAt(real, P)
           denses == WhereAt(real, Q)
           part == FusedWith(real, Head(bm25s), Head(denses))
           kept == [d \in DOMAIN runOf(Head(bm25s)) \cap given.subset |-> runOf(Head(bm25s))[d]]
           partRun == IF part \in Range(real) THEN runOf(part) ELSE kept
           both == [name |-> Name(part.words \cup Head(denses).words \cup {"rrf"}, 0), of |-> <<part, Head(denses)>>,
                    run |-> RRFScores(<<partRun, runOf(Head(denses))>>, 2, PageLength)]
           fused == <<both>>
           alone == [name |-> part, of |-> <<>>, run |-> partRun]
           restricted == IF part \in Range(real) THEN <<>> ELSE <<alone>>
           found == [i \in DOMAIN given.real |-> [name |-> given.real[i].name, of |-> <<>>, run |-> given.real[i].run]]
           oracles == [i \in DOMAIN Sigmas |-> [name |-> Synthetic(Sigmas[i]), of |-> <<>>,
                                                run |-> NoisyOracle(Topic, Sigmas[i], Noise, Len(Noise))]]
           none == bm25s = <<>> \/ denses = <<>>
           middle == IF none THEN <<>> ELSE restricted \o fused
<1>1. load_rankers(given) = found \o middle \o oracles
  BY Zenon DEF load_rankers, Where, WhereAt
<1>2. /\ IsSeq(given.real)
      /\ \A r \in Range(given.real) : IsFiniteSet(DOMAIN r.run) /\ "synthetic" \notin r.name.words
      /\ IsSeq(Sigmas) /\ IsSeq(Noise) /\ PageLength \in Nat /\ Len(Noise) \in Nat
  <2>1. IsSeq(Noise)
    BY RankersAssumption, OwnElements DEF IsSeq
  <2>2. PageLength \in Nat
    BY RankersAssumption DEF Discount
  <2>3. QED
    BY <2>1, <2>2, RankersAssumption, SeqIs DEF IsSeq
<1>3. PICK n \in Nat : DOMAIN given.real = 1 .. n
  BY <1>2, SeqIs
<1>4. /\ IsSeq(real) /\ \A x \in Range(real) : "synthetic" \notin x.words
      /\ \A x \in Range(real) : IsFiniteSet(DOMAIN runOf(x))
  <2>1. real = [i \in 1 .. n |-> real[i]] /\ \A i \in 1 .. n : real[i] = given.real[i].name
    BY <1>3
  <2>2. DOMAIN real = 1 .. n
    BY <1>3
  <2> HIDE DEF real
  <2>3. IsSeq(real)
    BY <2>1, FunctionIsSeq
  <2>4. \A i \in 1 .. n : given.real[i] \in Range(given.real)
    BY <1>3 DEF Range
  <2>5. \A x \in Range(real) : \E i \in 1 .. n : real[i] = x
    BY <2>2 DEF Range
  <2>6. \A x \in Range(real) : "synthetic" \notin x.words
    BY <1>2, <2>1, <2>4, <2>5
  <2>7. ASSUME NEW x \in Range(real) PROVE IsFiniteSet(DOMAIN runOf(x))
    <3>1. PICK i \in 1 .. n : i = CHOOSE j \in DOMAIN real : real[j] = x
      BY <2>2, <2>5
    <3>2. runOf(x) = given.real[i].run
      BY <3>1
    <3>3. QED
      BY <1>2, <2>4, <3>1, <3>2
  <2>8. QED
    BY <2>3, <2>6, <2>7
<1>5. /\ IsSeq(bm25s) /\ \A x \in Range(bm25s) : x \in Range(real) /\ "bm25" \in x.words /\ "1m" \notin x.words
      /\ IsSeq(denses) /\ \A x \in Range(denses) : x \in Range(real)
  <2> HIDE DEF real
  <2>1. P \subseteq DOMAIN real /\ Q \subseteq DOMAIN real
    OBVIOUS
  <2>2. IsSeq(bm25s) /\ Range(bm25s) = {real[i] : i \in P} /\ IsSeq(denses) /\ Range(denses) = {real[i] : i \in Q}
    BY <1>4, <2>1, WhereIs
  <2>3. QED
    BY <2>2 DEF Range
<1>6. IsSeq(found) /\ \A r \in Range(found) : Ranker(r)
  <2>1. found = [i \in 1 .. n |-> found[i]] /\ DOMAIN found = 1 .. n
    BY <1>3
  <2>2. \A i \in 1 .. n : found[i].run = given.real[i].run /\ found[i].of = <<>> /\ given.real[i] \in Range(given.real)
    BY <1>3 DEF Range
  <2> HIDE DEF found
  <2>3. IsSeq(found)
    BY <2>1, FunctionIsSeq
  <2>4. \A i \in 1 .. n : Ranker(found[i])
    BY <1>2, <2>2 DEF Ranker
  <2>5. QED
    BY <2>1, <2>3, <2>4 DEF Range
<1>7. IsSeq(oracles) /\ \A r \in Range(oracles) : Ranker(r)
  <2>1. PICK m \in Nat : DOMAIN Sigmas = 1 .. m
    BY <1>2, SeqIs
  <2>2. oracles = [i \in 1 .. m |-> oracles[i]] /\ DOMAIN oracles = 1 .. m
    BY <2>1
  <2>3. \A i \in 1 .. m : /\ oracles[i].run = NoisyOracle(Topic, Sigmas[i], Noise, Len(Noise))
                          /\ oracles[i].of = <<>>
    BY <2>1
  <2> HIDE DEF oracles
  <2>4. IsSeq(oracles)
    BY <2>2, FunctionIsSeq
  <2>5. \A i \in 1 .. m : Ranker(oracles[i])
    BY <1>2, <2>3, OracleIsFinite DEF Ranker
  <2>6. QED
    BY <2>2, <2>4, <2>5 DEF Range
<1>8. IsSeq(middle) /\ \A r \in Range(middle) : Ranker(r)
  <2>1. IsSeq(<<>>) /\ Range(<<>>) = {}
    BY DEF IsSeq, Range
  <2>2. CASE none
    BY <2>1, <2>2
  <2>3. CASE ~none
    <3>1. Head(bm25s) \in Range(bm25s) /\ Head(denses) \in Range(denses)
      BY <1>5, <2>3, HeadIs
    <3> DEFINE b == Head(bm25s)
               d == Head(denses)
    <3>2. /\ b \in Range(real) /\ "bm25" \in b.words /\ "1m" \notin b.words /\ d \in Range(real)
          /\ IsFiniteSet(DOMAIN runOf(b)) /\ IsFiniteSet(DOMAIN runOf(d))
      BY <1>4, <1>5, <3>1
    <3>3. world(part) = world(d)
      BY <1>4, <3>2, FusedInOneWorld
    <3>4. IsFiniteSet(DOMAIN partRun)
      <4>1. IsFiniteSet(DOMAIN kept)
        <5>1. DOMAIN kept \subseteq DOMAIN runOf(b)
          OBVIOUS
        <5>2. QED
          BY <3>2, <5>1, FS_Subset
      <4>2. part \in Range(real) => IsFiniteSet(DOMAIN runOf(part))
        BY <1>4
      <4> HIDE DEF part, kept, runOf, real
      <4>3. QED
        BY <4>1, <4>2
    <3>5. Ranker(both)
      <4> DEFINE pair == <<partRun, runOf(d)>>
      <4> HIDE DEF part, partRun, runOf, real, bm25s, denses
      <4>1. DOMAIN pair = {1, 2} /\ pair[1] = partRun /\ pair[2] = runOf(d)
        OBVIOUS
      <4>2. \A i \in {1, 2} : IsFiniteSet(DOMAIN pair[i])
        BY <3>2, <3>4, <4>1
      <4>3. both.run = RRFScores(pair, 2, PageLength) /\ both.of = <<part, d>>
        OBVIOUS
      <4> HIDE DEF pair, both
      <4>4. IsFiniteSet(DOMAIN both.run)
        BY <1>2, <4>1, <4>2, <4>3, FusionIsFinite
      <4>5. world(both.of[1]) = world(both.of[2])
        BY <3>3, <4>3
      <4>6. QED
        BY <4>4, <4>5 DEF Ranker
    <3>6. Ranker(alone)
      BY <3>4 DEF Ranker
    <3> HIDE DEF both, alone
    <3>7. IsSeq(fused) /\ Range(fused) = {both} /\ IsSeq(<<alone>>) /\ Range(<<alone>>) = {alone}
      BY SingleIs
    <3>8. IsSeq(restricted) /\ \A r \in Range(restricted) : Ranker(r)
      BY <2>1, <3>6, <3>7
    <3> HIDE DEF restricted, fused, none
    <3>9. IsSeq(restricted \o fused) /\ Range(restricted \o fused) = Range(restricted) \cup Range(fused)
      BY <3>7, <3>8, ConcatIs
    <3>10. QED
      BY <2>3, <3>5, <3>7, <3>8, <3>9
  <2>4. QED
    BY <2>2, <2>3
<1> HIDE DEF found, middle, oracles
<1>9. IsSeq(found \o middle) /\ Range(found \o middle) = Range(found) \cup Range(middle)
  BY <1>6, <1>8, ConcatIs
<1>10. /\ IsSeq(found \o middle \o oracles)
       /\ Range(found \o middle \o oracles) = Range(found) \cup Range(middle) \cup Range(oracles)
  BY <1>7, <1>9, ConcatIs
<1>11. QED
  BY <1>1, <1>6, <1>7, <1>8, <1>10

-----------------------------------------------------------------------------
\* What a run of the study starts from: names, numbers for their quality, and
\* fusions within one world.
Tabled(c) ==
    /\ IsSeq(c.names) /\ \A n \in Range(c.names) : Quality(c, n) \in Int
    /\ \A p \in c.parts : world(p[1]) = world(p[2])
LEMMA TableIs ==
    ASSUME NEW i \in StudyInputs
    PROVE  Tabled(Table(i))
<1> DEFINE rankers == load_rankers(i)
           all == {rankers[j].name : j \in DOMAIN rankers}
           ofName(n) == CHOOSE r \in Range(rankers) : r.name = n
           runs == [n \in all |-> <<ofName(n).run>>]
           lists == build_table(runs, <<Topic>>, PageLength)
           named == [j \in DOMAIN rankers |-> rankers[j].name]
           ndcg == [n \in DOMAIN runs |-> TableNdcg(lists[n][1], Topic, PageLength)]
           c == Table(i)
<1>1. /\ c.names = named /\ c.parts = {rankers[j].of : j \in DOMAIN rankers} \ {<<>>}
      /\ c.ndcg = ndcg
  BY Zenon DEF Table
<1>2. /\ IsSeq(rankers) /\ \A r \in Range(rankers) : Ranker(r)
      /\ PageLength \in Nat
  BY RankersAre, RankersAssumption DEF Discount
<1>3. PICK m \in Nat : DOMAIN rankers = 1 .. m
  BY <1>2, SeqIs
<1> HIDE DEF rankers
<1>4. IsSeq(named) /\ Range(named) = all
  <2>1. named = [j \in 1 .. m |-> named[j]] /\ DOMAIN named = 1 .. m /\ Range(named) = all
    BY <1>3 DEF Range
  <2> HIDE DEF named
  <2>2. QED
    BY <2>1, FunctionIsSeq
<1>5. ASSUME NEW n \in all PROVE ndcg[n] \in Int
  <2>1. ofName(n) \in Range(rankers)
    <3>1. \E r \in Range(rankers) : r.name = n
      BY DEF Range
    <3>2. QED
      BY <3>1
  <2> DEFINE run == ofName(n).run
  <2>2. IsFiniteSet(DOMAIN run)
    BY <1>2, <2>1 DEF Ranker
  <2> HIDE DEF ofName
  <2>3. DOMAIN runs = all /\ runs[n] = <<run>> /\ \A s \in all : 1 \in DOMAIN runs[s]
    OBVIOUS
  <2>4. lists[n][1] = Top(Sorted(runs[n][1]), PageLength)
    <3> HIDE DEF runs
    <3>1. 1 \in DOMAIN <<Topic>>
      OBVIOUS
    <3>2. 1 \in {p \in DOMAIN <<Topic>> : \A s \in DOMAIN runs : p \in DOMAIN runs[s]}
      BY <2>3, <3>1
    <3>3. lists = [r \in DOMAIN runs |-> [q \in {p \in DOMAIN <<Topic>> : \A s \in DOMAIN runs : p \in DOMAIN runs[s]} |->
                      Top(Sorted(runs[r][q]), PageLength)]]
      BY Zenon DEF build_table
    <3> HIDE DEF lists
    <3>4. QED
      BY <2>3, <3>2, <3>3
  <2>5. runs[n][1] = run
    <3> HIDE DEF runs
    <3> QED BY <2>3
  <2>6. IsSeq(lists[n][1])
    BY <1>2, <2>2, <2>4, <2>5, SortedIs, TopIs
  <2>7. ndcg[n] = TableNdcg(lists[n][1], Topic, PageLength)
    <3> HIDE DEF lists
    <3> QED BY <2>3
  <2> HIDE DEF lists, ndcg
  <2>8. QED
    BY <2>6, <2>7, QualityIs
<1>6. ASSUME NEW p \in c.parts PROVE world(p[1]) = world(p[2])
  <2>1. PICK j \in DOMAIN rankers : p = rankers[j].of /\ p # <<>>
    BY <1>1
  <2>2. QED
    BY <1>2, <2>1 DEF Range, Ranker
<1> HIDE DEF c, named, ndcg, all
<1>7. QED
  BY <1>1, <1>4, <1>5, <1>6 DEF Tabled, Quality, c

LEMMA ByQualityIs ==
    ASSUME NEW c, Tabled(c), NEW w
    PROVE  IsSeq(ByQuality(c, w)) /\ \A r \in Range(ByQuality(c, w)) : world(r) = w
<1> DEFINE P == {i \in DOMAIN c.names : world(c.names[i]) = w}
           rs == WhereAt(c.names, P)
           S == DOMAIN rs
           f == [i \in S |-> Quality(c, rs[i])]
           before(j) == {i \in S : Ahead(Quality(c, rs[i]), Quality(c, rs[j]), i < j)}
           placed == {<<Cardinality(before(j)), j>> : j \in S}
           s == [n \in 1 .. Cardinality(S) |-> (CHOOSE p \in placed : p[1] = n - 1)[2]]
           order == <<>> \o s
<1>1. ByQuality(c, w) = [i \in S |-> rs[order[i]]]
  BY Zenon DEF ByQuality, Where, WhereAt, Ordered
<1>2. IsSeq(rs) /\ \A r \in Range(rs) : world(r) = w /\ r \in Range(c.names)
  <2>1. P \subseteq DOMAIN c.names /\ IsSeq(c.names)
    BY DEF Tabled
  <2>2. IsSeq(rs) /\ Range(rs) = {c.names[i] : i \in P}
    BY <2>1, WhereIs
  <2>3. QED
    BY <2>2 DEF Range
<1> HIDE DEF rs
<1>3. PICK n \in Nat : S = 1 .. n
  BY <1>2, SeqIs
<1>4. IsFiniteSet(S) /\ Cardinality(S) = n /\ S \subseteq Nat
  <2>1. 1 \in Int /\ n \in Int
    OBVIOUS
  <2>2. IsFiniteSet(1 .. n) /\ Cardinality(1 .. n) = IF 1 > n THEN 0 ELSE n - 1 + 1
    BY ONLY <2>1, FS_Interval
  <2>3. QED
    BY <1>3, <2>2
<1>5. f \in [S -> Int]
  <2>1. \A i \in S : rs[i] \in Range(c.names)
    BY <1>2 DEF Range
  <2>2. \A i \in S : Quality(c, rs[i]) \in Int
    BY <2>1 DEF Tabled
  <2>3. QED
    BY <2>2
<1>6. \A j \in 1 .. n : \E x \in S : Place(S, f, x) = j - 1
  <2> HIDE DEF f, S
  <2>1. \A j \in 1 .. Cardinality(S) : \E x \in S : Place(S, f, x) = j - 1
    <3>1. Placed(S, f)
      BY ONLY <1>4, <1>5, Places
    <3>2. QED
      BY ONLY <3>1 DEF Placed
  <2> QED BY ONLY <1>4, <2>1
<1>7. \A j \in S : {i \in S : Ahead(Quality(c, rs[i]), Quality(c, rs[j]), i < j)} = Behind(S, f, j)
  <2>1. \A i \in S : f[i] = Quality(c, rs[i])
    OBVIOUS
  <2> HIDE DEF f, S
  <2>2. QED
    BY <2>1 DEF Behind, Ahead
<1>8. \A k \in 1 .. n : s[k] \in S
  <2> DEFINE g == [j \in S |-> Cardinality(before(j))]
  <2>1. placed = WithPlaces(S, g) /\ \A j \in S : g[j] = Place(S, f, j)
    <3>1. placed = WithPlaces(S, g) /\ \A j \in S : g[j] = Cardinality(before(j))
      BY Zenon DEF WithPlaces
    <3>2. \A j \in S : before(j) = Behind(S, f, j)
      BY <1>7
    <3> HIDE DEF placed, g, before, f, S
    <3>3. QED
      BY <3>1, <3>2 DEF Place
  <2>2. \A k \in 1 .. n : s[k] = LookUp(placed, k - 1)
    BY <1>4 DEF LookUp
  <2> HIDE DEF s, g, placed, S, f, before
  <2>3. LooksUp(S, g, n, s)
    BY ONLY <2>1, <2>2 DEF LooksUp
  <2>4. Filled(S, g, n)
    BY <1>6, <2>1 DEF Filled
  <2>5. Lists(S, g, n, s)
    BY ONLY <2>3, <2>4, LookedUp
  <2>6. QED
    BY <2>5 DEF Lists
<1>9. s = [k \in 1 .. n |-> s[k]]
  <2>1. s = [k \in 1 .. Cardinality(S) |-> s[k]]
    BY ONLY TRUE
  <2> HIDE DEF s, S
  <2>2. QED
    BY ONLY <1>4, <2>1
<1> HIDE DEF s
<1>10. order = s
  BY <1>9, FunctionIsSeq, WorkedOut
<1> DEFINE q == ByQuality(c, w)
<1>11. DOMAIN q = 1 .. n /\ q = [i \in 1 .. n |-> q[i]] /\ \A i \in 1 .. n : q[i] = rs[s[i]]
  BY <1>1, <1>3, <1>10
<1> HIDE DEF q
<1>12. IsSeq(q)
  BY <1>11, FunctionIsSeq
<1>13. \A i \in 1 .. n : world(q[i]) = w
  BY <1>2, <1>8, <1>11 DEF Range
<1>14. QED
  BY <1>11, <1>12, <1>13 DEF Range, q

SameWorld(p) == world(p[1]) = world(p[2])
LEMMA PairsAre ==
    ASSUME NEW c, Tabled(c), NEW w
    PROVE  IsSeq(PairsOf(c, w)) /\ \A p \in Range(PairsOf(c, w)) : SameWorld(p)
<1> DEFINE rs == ByQuality(c, w)
           neighbours == [i \in 1 .. Max({0, Len(rs) - 1}) |-> <<rs[i], rs[i + 1]>>]
           ends == <<rs[1], rs[Len(rs)]>>
<1>1. PairsOf(c, w) = IF Len(rs) > 2 THEN Append(neighbours, ends) ELSE neighbours
  BY DEF PairsOf
<1>2. IsSeq(rs) /\ \A r \in Range(rs) : world(r) = w
  BY ByQualityIs
<1> HIDE DEF rs
<1>3. PICK n \in Nat : n = Len(rs) /\ DOMAIN rs = 1 .. n
  BY <1>2, SeqIs
<1>4. \A i \in 1 .. n : world(rs[i]) = w
  BY <1>2, <1>3 DEF Range
<1>5. PICK m \in Nat : m = Max({0, n - 1}) /\ (m = 0 \/ m = n - 1)
  <2>1. Max({0, n - 1}) = IF n = 0 THEN 0 ELSE n - 1
    BY DEF Max
  <2>2. QED
    BY <2>1
<1>6. neighbours = [i \in 1 .. m |-> neighbours[i]] /\ DOMAIN neighbours = 1 .. m
  BY <1>3, <1>5
<1>7. \A i \in 1 .. m : neighbours[i] = <<rs[i], rs[i + 1]>> /\ i \in 1 .. n /\ i + 1 \in 1 .. n
  BY <1>3, <1>5
<1> HIDE DEF neighbours
<1>8. IsSeq(neighbours) /\ \A p \in Range(neighbours) : SameWorld(p)
  <2>1. \A i \in 1 .. m : SameWorld(neighbours[i])
    BY <1>4, <1>7 DEF SameWorld
  <2>2. QED
    BY <1>6, <2>1, FunctionIsSeq DEF Range
<1>9. CASE n > 2
  <2>1. SameWorld(ends)
    <3>1. 1 \in 1 .. n /\ n \in 1 .. n
      BY <1>9
    <3>2. ends[1] = rs[1] /\ ends[2] = rs[n]
      BY <1>3
    <3>3. QED
      BY <1>4, <3>1, <3>2 DEF SameWorld
  <2> HIDE DEF ends
  <2>2. Append(neighbours, ends) = neighbours \o <<ends>>
    <3>1. PICK T : neighbours \in Seq(T) /\ ends \in T
      <4>1. neighbours \in [1 .. m -> Range(neighbours) \cup {ends}]
        BY <1>6 DEF Range
      <4>2. neighbours \in Seq(Range(neighbours) \cup {ends})
        BY <4>1, IsSequence
      <4>3. QED
        BY <4>2
    <3>2. QED
      BY <3>1, AppendIsConcat
  <2>3. QED
    BY <1>1, <1>3, <1>8, <1>9, <2>1, <2>2, SingleIs, ConcatIs
<1>10. CASE ~ n > 2
  BY <1>1, <1>3, <1>8, <1>10
<1>11. QED
  BY <1>9, <1>10

LEMMA ChosenPairsAre ==
    ASSUME NEW c, Tabled(c)
    PROVE  IsSeq(choose_pairs(c)) /\ \A p \in Range(choose_pairs(c)) : SameWorld(p)
<1> DEFINE o == [i \in 1 .. Len(Sigmas) - 1 |-> <<Synthetic(Sigmas[1]), Synthetic(Sigmas[i + 1])>>]
           a == PairsOf(c, "1m")
           b == PairsOf(c, "full")
<1>1. choose_pairs(c) = a \o b \o o
  BY DEF choose_pairs
<1>2. IsSeq(a) /\ IsSeq(b) /\ \A p \in Range(a) \cup Range(b) : SameWorld(p)
  BY PairsAre
<1>3. IsSeq(o) /\ \A p \in Range(o) : SameWorld(p)
  <2>1. PICK n \in Nat : n = Len(Sigmas) - 1
    <3>1. Sigmas \in Seq(Range(Sigmas)) /\ Sigmas # <<>>
      BY RankersAssumption
    <3>2. Len(Sigmas) \in Nat /\ Len(Sigmas) # 0
      BY <3>1
    <3>3. QED
      BY <3>2
  <2>2. o = [i \in 1 .. n |-> o[i]] /\ DOMAIN o = 1 .. n
    BY <2>1
  <2>3. \A i \in 1 .. n : o[i] = <<Synthetic(Sigmas[1]), Synthetic(Sigmas[i + 1])>>
    BY <2>1
  <2>4. \A x : world(Synthetic(x)) = "synthetic"
    BY DEF world, Synthetic, Name
  <2> HIDE DEF o
  <2>5. \A i \in 1 .. n : SameWorld(o[i])
    BY <2>3, <2>4 DEF SameWorld
  <2>6. QED
    BY <2>2, <2>5, FunctionIsSeq DEF Range
<1> HIDE DEF o, a, b
<1>4. IsSeq(a \o b) /\ Range(a \o b) = Range(a) \cup Range(b)
  BY <1>2, ConcatIs
<1>5. IsSeq(a \o b \o o) /\ Range(a \o b \o o) = Range(a) \cup Range(b) \cup Range(o)
  BY <1>3, <1>4, ConcatIs
<1>6. QED
  BY <1>1, <1>2, <1>3, <1>5

-----------------------------------------------------------------------------
AsCell(job) == [job EXCEPT !.kind = "cell"]
AllJobs(kind, P, M) == {[kind |-> kind, pair |-> p, model |-> m] : p \in P, m \in M}
LEMMA JobsAre ==
    ASSUME NEW kind, NEW pairs, IsSeq(pairs), NEW models, IsSeq(models)
    PROVE  /\ IsSeq(Jobs(kind, pairs, models))
           /\ Range(Jobs(kind, pairs, models)) = AllJobs(kind, Range(pairs), Range(models))
<1> DEFINE job(i, j) == [kind |-> kind, pair |-> pairs[i], model |-> models[j]]
           row(i) == [j \in DOMAIN models |-> job(i, j)]
           ss == [i \in DOMAIN pairs |-> row(i)]
           all == AllJobs(kind, Range(pairs), Range(models))
<1>1. Jobs(kind, pairs, models) = FlattenSeq(ss)
  BY DEF Jobs
<1>2. PICK n \in Nat : DOMAIN pairs = 1 .. n
  BY SeqIs
<1>3. PICK m \in Nat : DOMAIN models = 1 .. m
  BY SeqIs
<1>4. \A i \in 1 .. n : IsSeq(row(i)) /\ Range(row(i)) = {job(i, j) : j \in 1 .. m}
  <2>1. SUFFICES ASSUME NEW i \in 1 .. n PROVE IsSeq(row(i)) /\ Range(row(i)) = {job(i, j) : j \in 1 .. m}
    OBVIOUS
  <2>2. PICK r : r = row(i)
    OBVIOUS
  <2>3. DOMAIN r = 1 .. m /\ r = [j \in 1 .. m |-> r[j]] /\ \A j \in 1 .. m : r[j] = job(i, j)
    BY <1>3, <2>2
  <2>4. Range(r) = {job(i, j) : j \in 1 .. m}
    <3> HIDE DEF job
    <3> QED BY <2>3 DEF Range
  <2>5. IsSeq(r)
    BY <2>3, FunctionIsSeq
  <2>6. QED
    BY ONLY <2>2, <2>4, <2>5
<1>5. DOMAIN ss = 1 .. n /\ ss = [i \in 1 .. n |-> ss[i]] /\ \A i \in 1 .. n : ss[i] = row(i)
  <2> HIDE DEF row
  <2>1. DOMAIN ss = DOMAIN pairs /\ \A i \in DOMAIN pairs : ss[i] = row(i)
    BY ONLY TRUE
  <2>2. ss = [i \in DOMAIN pairs |-> ss[i]]
    BY ONLY TRUE
  <2> HIDE DEF ss
  <2>3. QED
    BY ONLY <1>2, <2>1, <2>2
<1> HIDE DEF ss, row
<1>6. IsSeq(ss)
  BY <1>5, FunctionIsSeq
<1>7. IsSeq(FlattenSeq(ss)) /\ Range(FlattenSeq(ss)) = UNION {Range(ss[i]) : i \in DOMAIN ss}
  <2>1. \A i \in DOMAIN ss : IsSeq(ss[i])
    BY ONLY <1>4, <1>5
  <2>2. QED
    BY ONLY <1>6, <2>1, FlattenIs, Zenon
<1>8. UNION {Range(ss[i]) : i \in DOMAIN ss} = all
  <2>1. \A x : x \in UNION {Range(ss[i]) : i \in DOMAIN ss} <=> \E i \in 1 .. n, j \in 1 .. m : x = job(i, j)
    <3> HIDE DEF job
    <3> QED BY <1>4, <1>5
  <2>2. \A x : x \in all <=> \E i \in 1 .. n, j \in 1 .. m : x = job(i, j)
    BY <1>2, <1>3 DEF Range, AllJobs
  <2> HIDE DEF all, job
  <2>3. QED
    BY <2>1, <2>2
<1>9. QED
  BY <1>1, <1>7, <1>8

\* The plan of a run: what it compares is of one world, and every validation has
\* its cell before it.
PlanFacts(c, p) ==
    /\ IsSeq(p)
    /\ \A i \in DOMAIN p :
          /\ p[i] = [kind |-> p[i].kind, pair |-> p[i].pair, model |-> p[i].model]
          /\ p[i].kind \in {"cell", "aa", "val"} /\ SameWorld(p[i].pair)
          /\ p[i].kind = "val" => \E j \in DOMAIN p : j < i /\ p[j] = AsCell(p[i])
LEMMA PlanOfIs ==
    ASSUME NEW c, Tabled(c)
    PROVE  PlanFacts(c, PlanOf(c))
<1> DEFINE chosen == choose_pairs(c)
           P == {i \in DOMAIN chosen : ListsOf(c, chosen[i][1]) # ListsOf(c, chosen[i][2])}
           pairs == WhereAt(chosen, P)
           V == {i \in DOMAIN pairs : ToValidate(c, pairs[i])}
           M == {i \in DOMAIN Models : Models[i] \in ValidatedModels}
           vpairs == WhereAt(pairs, V)
           vmodels == WhereAt(Models, M)
           aapair == <<AARanker(c), AARanker(c)>>
           cellJobs == Jobs("cell", pairs, Models)
           aaJobs == Jobs("aa", <<aapair>>, Models)
           valJobs == Jobs("val", vpairs, vmodels)
           p == PlanOf(c)
<1>1. p = cellJobs \o aaJobs \o valJobs
  BY Zenon DEF PlanOf, Where, WhereAt
<1>2. IsSeq(chosen) /\ (\A q \in Range(chosen) : SameWorld(q)) /\ IsSeq(Models)
  BY ChosenPairsAre, RankersAssumption DEF IsSeq
<1> HIDE DEF chosen
<1>3. IsSeq(pairs) /\ \A q \in Range(pairs) : SameWorld(q)
  <2>1. P \subseteq DOMAIN chosen
    OBVIOUS
  <2>2. IsSeq(pairs) /\ Range(pairs) = {chosen[i] : i \in P}
    BY <1>2, <2>1, WhereIs
  <2>3. QED
    BY <1>2, <2>2 DEF Range
<1> HIDE DEF pairs
<1>4. IsSeq(vpairs) /\ IsSeq(vmodels) /\ Range(vpairs) \subseteq Range(pairs) /\ Range(vmodels) \subseteq Range(Models)
  <2>1. V \subseteq DOMAIN pairs /\ M \subseteq DOMAIN Models
    OBVIOUS
  <2>2. /\ IsSeq(vpairs) /\ Range(vpairs) = {pairs[i] : i \in V}
        /\ IsSeq(vmodels) /\ Range(vmodels) = {Models[i] : i \in M}
    BY <1>2, <1>3, <2>1, WhereIs
  <2>3. QED
    BY <2>2 DEF Range
<1> HIDE DEF vpairs, vmodels
<1>5. /\ IsSeq(cellJobs)
      /\ Range(cellJobs) = AllJobs("cell", Range(pairs), Range(Models))
  <2>1. IsSeq(pairs) /\ IsSeq(Models)
    BY <1>2, <1>3
  <2>2. QED
    BY ONLY <2>1, JobsAre
<1>6. /\ IsSeq(aaJobs)
      /\ Range(aaJobs) = AllJobs("aa", {aapair}, Range(Models))
  <2>1. IsSeq(<<aapair>>) /\ Range(<<aapair>>) = {aapair}
    BY SingleIs
  <2>2. IsSeq(Models)
    BY <1>2
  <2>3. /\ IsSeq(aaJobs)
        /\ Range(aaJobs) = AllJobs("aa", Range(<<aapair>>), Range(Models))
    BY ONLY <2>1, <2>2, JobsAre
  <2>4. QED
    BY <2>1, <2>3
<1>7. /\ IsSeq(valJobs)
      /\ Range(valJobs) = AllJobs("val", Range(vpairs), Range(vmodels))
  BY <1>4, JobsAre
<1>8. SameWorld(aapair)
  BY DEF SameWorld
<1> HIDE DEF cellJobs, aaJobs, valJobs, aapair
<1> DEFINE u == cellJobs \o aaJobs
<1>9. IsSeq(u) /\ Len(u) = Len(cellJobs) + Len(aaJobs) /\ \A i \in 1 .. Len(cellJobs) : u[i] = cellJobs[i]
  BY <1>5, <1>6, ConcatIs
<1>10. /\ Range(u) = Range(cellJobs) \cup Range(aaJobs)
       /\ \A i \in 1 .. Len(aaJobs) : u[Len(cellJobs) + i] = aaJobs[i]
  BY <1>5, <1>6, ConcatIs
<1> HIDE DEF u
<1>11. /\ IsSeq(p) /\ Len(p) = Len(u) + Len(valJobs) /\ \A i \in 1 .. Len(u) : p[i] = u[i]
       /\ \A i \in 1 .. Len(valJobs) : p[Len(u) + i] = valJobs[i]
       /\ Range(p) = Range(u) \cup Range(valJobs)
  <2>1. p = u \o valJobs
    BY <1>1 DEF u
  <2>3. IsSeq(u) /\ IsSeq(valJobs)
    BY <1>7, <1>9
  <2> HIDE DEF p
  <2>2. QED
    BY ONLY <2>1, <2>3, ConcatIs
<1>12. PICK k \in Nat, l \in Nat, n \in Nat :
          /\ k = Len(cellJobs) /\ DOMAIN cellJobs = 1 .. k /\ l = Len(u) /\ k <= l /\ DOMAIN p = 1 .. n
          /\ l <= n
  <2>1. PICK k, l, n, a, b :
          /\ k = Len(cellJobs) /\ k \in Nat /\ DOMAIN cellJobs = 1 .. k /\ a = Len(aaJobs) /\ a \in Nat
          /\ b = Len(valJobs) /\ b \in Nat /\ l = Len(u) /\ n = Len(p) /\ DOMAIN p = 1 .. n
    BY <1>5, <1>6, <1>7, <1>11, SeqIs
  <2>2. l = k + a /\ n = l + b
    BY <1>9, <1>11, <2>1
  <2>3. l \in Nat /\ n \in Nat /\ k <= l /\ l <= n
    BY <2>1, <2>2
  <2>4. QED
    BY <2>1, <2>3
<1>13. \A i \in 1 .. k : p[i] = cellJobs[i]
  BY <1>9, <1>11, <1>12
<1> HIDE DEF p
<1>14. ASSUME NEW i \in DOMAIN p
       PROVE  /\ p[i] = [kind |-> p[i].kind, pair |-> p[i].pair, model |-> p[i].model]
              /\ p[i].kind \in {"cell", "aa", "val"} /\ SameWorld(p[i].pair)
              /\ p[i].kind = "val" => \E j \in DOMAIN p : j < i /\ p[j] = AsCell(p[i])
  <2>1. p[i] \in Range(cellJobs) \cup Range(aaJobs) \cup Range(valJobs)
    BY <1>10, <1>11 DEF Range
  <2>2. CASE p[i] \in Range(cellJobs)
    <3>1. PICK q \in Range(pairs), m \in Range(Models) : p[i] = [kind |-> "cell", pair |-> q, model |-> m]
      BY <1>5, <2>2 DEF AllJobs
    <3>2. p[i].kind = "cell" /\ p[i].pair = q /\ p[i].model = m
      BY <3>1
    <3>3. QED
      BY <1>3, <3>1, <3>2
  <2>3. CASE p[i] \in Range(aaJobs)
    <3>1. PICK m \in Range(Models) : p[i] = [kind |-> "aa", pair |-> aapair, model |-> m]
      BY <1>6, <2>3 DEF AllJobs
    <3>2. p[i].kind = "aa" /\ p[i].pair = aapair /\ p[i].model = m
      BY <3>1
    <3>3. QED
      BY <1>8, <3>1, <3>2
  <2>4. CASE p[i] \in Range(valJobs)
    <3>1. PICK q \in Range(vpairs), m \in Range(vmodels) : p[i] = [kind |-> "val", pair |-> q, model |-> m]
      BY <1>7, <2>4 DEF AllJobs
    <3>2. p[i].kind = "val" /\ p[i].pair = q /\ p[i].model = m /\ q \in Range(pairs) /\ m \in Range(Models)
      BY <1>4, <3>1
    <3>3. AsCell(p[i]) = [kind |-> "cell", pair |-> q, model |-> m]
      BY <3>1 DEF AsCell
    <3>4. AsCell(p[i]) \in Range(cellJobs)
      BY <1>5, <3>2, <3>3 DEF AllJobs
    <3>5. PICK j \in 1 .. k : cellJobs[j] = AsCell(p[i])
      BY <1>12, <3>4 DEF Range
    <3>6. ~ i <= l
      <4>1. SUFFICES ASSUME i <= l PROVE FALSE
        OBVIOUS
      <4>2. p[i] = u[i] /\ i \in DOMAIN u
        <5>1. i \in 1 .. l
          BY <1>12, <4>1
        <5>2. QED
          BY <1>9, <1>11, <1>12, <5>1, SeqIs
      <4>3. p[i] \in Range(cellJobs) \cup Range(aaJobs)
        BY <1>10, <4>2 DEF Range
      <4>4. \A x \in Range(cellJobs) \cup Range(aaJobs) : x.kind \in {"cell", "aa"}
        BY <1>5, <1>6 DEF AllJobs
      <4>5. QED
        BY <3>2, <4>3, <4>4
    <3>7. j \in DOMAIN p /\ j < i /\ p[j] = AsCell(p[i])
      BY <1>12, <1>13, <3>5, <3>6
    <3>8. QED
      BY <1>3, <3>1, <3>2, <3>7
  <2>5. QED
    BY <2>1, <2>2, <2>3, <2>4
<1>15. PlanFacts(c, p)
  BY <1>11, <1>14 DEF PlanFacts
<1>16. QED
  BY <1>15 DEF p

-----------------------------------------------------------------------------
\* What the job of a study comes to, and the key of its file.  A validation is one
\* of a study d that has the same key for it.
AlikeFor(c, d, job) ==
    c.vt = d.vt /\ c.seed = d.seed /\ TdiN80(FreshCell(c, AsCell(job))) = TdiN80(FreshCell(d, AsCell(job)))
Proper(c, job, v) ==
    CASE job.kind = "cell" -> v = FreshCell(c, job)
      [] job.kind = "aa"   -> v = AATest(c, job)
      [] job.kind = "val"  -> \E d \in Studies : /\ job \in Range(d.plan) /\ AlikeFor(c, d, job)
                                                /\ v = FreshValidation(d, job)
FreshKey(c, job) ==
    CASE job.kind = "cell" -> CellKey(c, job) [] job.kind = "aa" -> AAKey(c, job)
      [] job.kind = "val" -> ValidationKey(c, job, FreshCell(c, AsCell(job)))
\* What a file of the cache holds is proper for every study that asks for it: a pool,
\* a cell or an A/A test is the one that it would compute itself.
Genuine(key, v) ==
    \A c \in Studies : \A i \in DOMAIN c.plan :
        LET job == c.plan[i] IN
        /\ key = FreshKey(c, job) => Proper(c, job, v)
        /\ \A n \in {1, 2} : key = PoolKey(c, job.pair[n], job.model) => v = Pool(c, job.pair[n], job.model)

\* A plan: the cells come first, the cell that a validation is about among them.
Planned(c) ==
    /\ c.plan \in Seq(Range(c.plan))
    /\ \A i \in DOMAIN c.plan :
          LET job == c.plan[i] IN
          /\ job = [kind |-> job.kind, pair |-> job.pair, model |-> job.model] /\ job.kind \in {"cell", "aa", "val"}
          /\ job.kind = "val" => \E j \in DOMAIN c.plan : j < i /\ c.plan[j] = AsCell(job)

\* The jobs still to be done are those without a result, or a torn file ended the run.
PlanKept ==
    /\ plan \in Seq(Range(plan)) /\ results \in Seq(Range(results)) /\ Len(results) <= Len(config.plan)
    /\ plan # <<>> => /\ Len(results) + Len(plan) = Len(config.plan)
                      /\ \A i \in DOMAIN plan : plan[i] = config.plan[Len(results) + i]
PoolsKept ==
    /\ pools \in Seq(Range(pools)) /\ Len(pools) <= 2
    /\ pools # <<>> => plan # <<>> /\ Head(plan).kind = "cell"
    /\ \A n \in DOMAIN pools : pools[n] = Pool(config, Head(plan).pair[n], Head(plan).model)
StudyInv ==
    /\ config \in Studies /\ PlanKept /\ PoolsKept
    /\ \A i \in DOMAIN results : Proper(config, config.plan[i], results[i])
    /\ \A key \in DOMAIN cells : cells[key] = Torn \/ Genuine(key, cells[key])
    /\ writing # NoFile => writing = [key |-> writing.key, value |-> writing.value]
                           /\ Genuine(writing.key, writing.value)
-----------------------------------------------------------------------------
\* What every study starts from: a plan, with everything in it of one world.
LEMMA PlansAre ==
    \A c \in Studies :
        /\ Planned(c) /\ \A i \in DOMAIN c.plan : SameWorld(c.plan[i].pair)
        /\ \A p \in c.parts : world(p[1]) = world(p[2])
<1> SUFFICES ASSUME NEW c \in Studies
             PROVE  /\ Planned(c) /\ \A i \in DOMAIN c.plan : SameWorld(c.plan[i].pair)
                    /\ \A p \in c.parts : world(p[1]) = world(p[2])
  OBVIOUS
<1>1. PICK t \in {Table(i) : i \in StudyInputs} : c.plan = PlanOf(t) /\ c.parts = t.parts
  BY StudiesAssumption DEF StudiesOf
<1>2. Tabled(t)
  BY <1>1, TableIs
<1>3. PlanFacts(t, c.plan)
  BY <1>1, <1>2, PlanOfIs
<1>4. QED
  BY <1>1, <1>2, <1>3 DEF PlanFacts, Planned, Tabled, IsSeq

\* A result names its job, and that of a cell is the cell.
LEMMA ResultNamesJob ==
    ASSUME NEW c, NEW job, NEW v, job.kind \in {"cell", "aa", "val"}, Proper(c, job, v)
    PROVE  v.job = job /\ (job.kind = "cell" => v = FreshCell(c, job))
<1>1. CASE job.kind = "cell"
  BY <1>1 DEF Proper, FreshCell, Cell
<1>2. CASE job.kind = "aa"
  BY <1>2 DEF Proper, AATest
<1>3. CASE job.kind = "val"
  <2>1. PICK d \in Studies : v = FreshValidation(d, job)
    BY <1>3 DEF Proper
  <2>2. QED
    BY <1>3, <2>1 DEF FreshValidation, Validation
<1>4. QED
  BY <1>1, <1>2, <1>3

LEMMA AsCellIs ==
    ASSUME NEW job, job = [kind |-> job.kind, pair |-> job.pair, model |-> job.model]
    PROVE  AsCell(job) = [kind |-> "cell", pair |-> job.pair, model |-> job.model]
BY DEF AsCell

\* The cell of a validation is among the results, and is the only one of its job.
LEMMA CellIsFound ==
    ASSUME config \in Studies, PlanKept, \A i \in DOMAIN results : Proper(config, config.plan[i], results[i]),
           NEW i \in DOMAIN config.plan, config.plan[i].kind = "val", i <= Len(results) + 1
    PROVE  CellOf(config.plan[i]) = FreshCell(config, AsCell(config.plan[i]))
<1> DEFINE job == config.plan[i]
           N == Len(config.plan)
<1>1. /\ N \in Nat /\ DOMAIN config.plan = 1 .. N
      /\ Len(results) \in Nat /\ DOMAIN results = 1 .. Len(results) /\ Len(results) <= N
  BY PlansAre, LenProperties DEF Planned, PlanKept
<1>2. PICK j \in DOMAIN config.plan : j < i /\ config.plan[j] = AsCell(job)
  BY PlansAre DEF Planned
<1>3. job = [kind |-> job.kind, pair |-> job.pair, model |-> job.model]
  BY PlansAre DEF Planned
<1>4. AsCell(job).kind = "cell"
  BY <1>3, AsCellIs
<1>5. j \in DOMAIN results
  BY <1>1, <1>2
<1>6. results[j].job = AsCell(job)
  BY <1>2, <1>4, <1>5, ResultNamesJob
<1>7. results[j] \in Range(results)
  BY <1>5 DEF Range
<1>8. ASSUME NEW r \in Range(results), r.job = AsCell(job) PROVE r = FreshCell(config, AsCell(job))
  <2>1. PICK k \in DOMAIN results : r = results[k]
    BY DEF Range
  <2>2. k \in DOMAIN config.plan
    BY <1>1
  <2>3. config.plan[k].kind \in {"cell", "aa", "val"}
    BY <2>2, PlansAre DEF Planned
  <2>4. r.job = config.plan[k]
    BY <2>1, <2>3, ResultNamesJob
  <2>5. QED
    BY <1>4, <1>8, <2>1, <2>3, <2>4, ResultNamesJob
<1>9. CellOf(job) \in Range(results) /\ CellOf(job).job = AsCell(job)
  <2>1. CellOf(job) = CHOOSE r \in Range(results) : r.job = AsCell(job)
    BY DEF CellOf, AsCell
  <2>2. QED
    BY ONLY <1>6, <1>7, <2>1
<1>10. QED
  BY <1>8, <1>9

LEMMA TuplesApart ==
    /\ \A a, b, c, d, e, f, g, h, i, j : <<a, b, c, d>> # <<e, f, g, h, i, j>>
    /\ \A a, b, c, d, e, f, g, h : <<a, b, c, d>> = <<e, f, g, h>> => a = e /\ b = f /\ c = g /\ d = h
    /\ \A a, b, c, d, e, f, g, h : <<a, b, c>> # <<d, e, f, g, h>>
    /\ \A a, b, c, d, e, f, g, h, i : <<a, b, c>> # <<d, e, f, g, h, i>>
    /\ \A a, b, c, d, e, f, g, h, i, j, k : <<a, b, c, d, e>> # <<f, g, h, i, j, k>>
    /\ \A a, b, c, d, e, f : <<a, b, c>> = <<d, e, f>> => a = d /\ b = e /\ c = f
OBVIOUS
\* The keys by the kind of a job.
LEMMA FreshKeys ==
    ASSUME NEW c, NEW job
    PROVE  /\ job.kind = "cell" => FreshKey(c, job) = <<job, c.M, c.trials, c.seed, PairLists(c, job)>>
           /\ job.kind = "aa" => FreshKey(c, job) = <<job, c.seed, PairLists(c, job)>>
           /\ job.kind = "val" => FreshKey(c, job) = <<job, c.vt, c.seed, TdiN80(FreshCell(c, AsCell(job)))>>
<1>1. job.kind = "cell" => FreshKey(c, job) = <<job, c.M, c.trials, c.seed, PairLists(c, job)>>
  BY DEF FreshKey, CellKey
<1>2. job.kind = "aa" => FreshKey(c, job) = <<job, c.seed, PairLists(c, job)>>
  BY DEF FreshKey, AAKey
<1>3. job.kind = "val" => FreshKey(c, job) = <<job, c.vt, c.seed, TdiN80(FreshCell(c, AsCell(job)))>>
  BY Zenon DEF FreshKey, ValidationKey
<1>4. QED
  BY <1>1, <1>2, <1>3, Zenon

\* A key tells the job, and what its result depends on.
SameArguments(c, d, job) ==
    /\ c.seed = d.seed
    /\ job.kind = "cell" => c.M = d.M /\ c.trials = d.trials
    /\ job.kind \in {"cell", "aa"} => PairLists(c, job) = PairLists(d, job)
    /\ job.kind = "val" => AlikeFor(c, d, job)
LEMMA SameKey ==
    ASSUME NEW c, NEW job, NEW d, NEW other, job.kind \in {"cell", "aa", "val"}, other.kind \in {"cell", "aa", "val"},
           FreshKey(c, job) = FreshKey(d, other)
    PROVE  job = other /\ SameArguments(c, d, job)
<1>1. PICK x : x = TdiN80(FreshCell(c, AsCell(job)))
  OBVIOUS
<1>2. PICK y : y = TdiN80(FreshCell(d, AsCell(other)))
  OBVIOUS
<1>3. PICK u, v : u = FreshKey(c, job) /\ v = FreshKey(d, other) /\ u = v
  OBVIOUS
<1>4. PICK l, m : l = PairLists(c, job) /\ m = PairLists(d, other)
  OBVIOUS
<1>5. /\ job.kind = "cell" => u = <<job, c.M, c.trials, c.seed, l>>
      /\ job.kind = "aa" => u = <<job, c.seed, l>>
      /\ job.kind = "val" => u = <<job, c.vt, c.seed, x>>
      /\ other.kind = "cell" => v = <<other, d.M, d.trials, d.seed, m>>
      /\ other.kind = "aa" => v = <<other, d.seed, m>>
      /\ other.kind = "val" => v = <<other, d.vt, d.seed, y>>
  BY ONLY <1>1, <1>2, <1>3, <1>4, FreshKeys, Zenon
<1>6. /\ job = other /\ c.seed = d.seed /\ (job.kind = "cell" => c.M = d.M /\ c.trials = d.trials)
      /\ (job.kind \in {"cell", "aa"} => l = m) /\ (job.kind = "val" => x = y /\ c.vt = d.vt)
  BY ONLY <1>3, <1>5, job.kind \in {"cell", "aa", "val"}, other.kind \in {"cell", "aa", "val"}
<1>7. QED
  BY ONLY <1>1, <1>2, <1>4, <1>6, Zenon DEF SameArguments, AlikeFor

\* Files of different kinds have different keys, and a key says all that its file depends on.
LEMMA SameArgumentsDo ==
    ASSUME NEW c, NEW d, NEW job, NEW v, job.kind \in {"cell", "aa", "val"}, SameArguments(c, d, job), Proper(c, job, v)
    PROVE  Proper(d, job, v)
<1>1. CASE job.kind = "cell"
  <2>1. c.M = d.M /\ c.trials = d.trials /\ c.seed = d.seed /\ PairLists(c, job) = PairLists(d, job)
    BY <1>1 DEF SameArguments
  <2>2. \A n \in {1, 2} : Pool(c, job.pair[n], job.model) = Pool(d, job.pair[n], job.model)
    BY <2>1 DEF Pool, PairLists
  <2>3. FreshCell(c, job) = FreshCell(d, job)
    BY <2>1, <2>2 DEF FreshCell, Cell
  <2>4. QED
    BY <1>1, <2>3 DEF Proper
<1>2. CASE job.kind = "aa"
  BY <1>2 DEF Proper, AATest, SameArguments
<1>3. CASE job.kind = "val"
  <2>1. PICK e \in Studies : job \in Range(e.plan) /\ AlikeFor(c, e, job) /\ v = FreshValidation(e, job)
    BY <1>3 DEF Proper
  <2>2. AlikeFor(c, d, job)
    BY <1>3 DEF SameArguments
  <2>3. AlikeFor(d, e, job)
    BY ONLY <2>1, <2>2, Zenon DEF AlikeFor
  <2>4. QED
    BY <1>3, <2>1, <2>3 DEF Proper
<1>4. QED
  BY <1>1, <1>2, <1>3
LEMMA JobIsGenuine ==
    ASSUME NEW c \in Studies, NEW i \in DOMAIN c.plan, NEW v, Proper(c, c.plan[i], v)
    PROVE  Genuine(FreshKey(c, c.plan[i]), v)
<1>1. SUFFICES ASSUME NEW d \in Studies, NEW j \in DOMAIN d.plan
               PROVE  /\ FreshKey(c, c.plan[i]) = FreshKey(d, d.plan[j]) => Proper(d, d.plan[j], v)
                      /\ \A n \in {1, 2} : FreshKey(c, c.plan[i]) # PoolKey(d, d.plan[j].pair[n], d.plan[j].model)
  BY DEF Genuine
<1>2. PICK job, other : job = c.plan[i] /\ other = d.plan[j]
  OBVIOUS
<1>3. job.kind \in {"cell", "aa", "val"} /\ other.kind \in {"cell", "aa", "val"}
  BY <1>2, PlansAre DEF Planned
<1>4. ASSUME FreshKey(c, job) = FreshKey(d, other) PROVE Proper(d, other, v)
  BY <1>2, <1>3, <1>4, SameKey, SameArgumentsDo
<1>5. ASSUME NEW n \in {1, 2} PROVE FreshKey(c, job) # PoolKey(d, other.pair[n], other.model)
  <2>1. PICK r, k : k = FreshKey(c, job) /\ r = PoolKey(d, other.pair[n], other.model)
    OBVIOUS
  <2>2. \E p, q, s, t, u : r = <<"ab", p, q, s, t, u>>
    BY <2>1 DEF PoolKey
  <2>3. \/ \E p, q, s, t, u : k = <<p, q, s, t, u>>
        \/ \E p, q, s : k = <<p, q, s>>
        \/ \E p, q, s, t : k = <<p, q, s, t>>
    <3>5. /\ job.kind = "cell" => k = <<job, c.M, c.trials, c.seed, PairLists(c, job)>>
          /\ job.kind = "aa" => k = <<job, c.seed, PairLists(c, job)>>
          /\ job.kind = "val" => k = <<job, c.vt, c.seed, TdiN80(FreshCell(c, AsCell(job)))>>
      BY ONLY <2>1, FreshKeys, Zenon
    <3>1. CASE job.kind = "cell"
      BY ONLY <3>1, <3>5, Zenon
    <3>2. CASE job.kind = "aa"
      BY ONLY <3>2, <3>5, Zenon
    <3>3. CASE job.kind = "val"
      BY ONLY <3>3, <3>5, Zenon
    <3>4. QED
      BY <1>3, <3>1, <3>2, <3>3
  <2>4. k # r
    BY ONLY <2>2, <2>3, TuplesApart
  <2>5. QED
    BY <2>1, <2>4
<1>6. QED
  BY <1>2, <1>4, <1>5

LEMMA PoolIsGenuine ==
    ASSUME NEW c, NEW r, NEW model PROVE Genuine(PoolKey(c, r, model), Pool(c, r, model))
<1> DEFINE key == PoolKey(c, r, model)
<1>1. SUFFICES ASSUME NEW d \in Studies, NEW j \in DOMAIN d.plan
               PROVE  /\ key # FreshKey(d, d.plan[j])
                      /\ \A n \in {1, 2} : key = PoolKey(d, d.plan[j].pair[n], d.plan[j].model) =>
                             Pool(c, r, model) = Pool(d, d.plan[j].pair[n], d.plan[j].model)
  BY DEF Genuine
<1>2. d.plan[j].kind \in {"cell", "aa", "val"}
  BY PlansAre DEF Planned
<1>3. key # FreshKey(d, d.plan[j])
  BY <1>2 DEF PoolKey, FreshKey, CellKey, AAKey, ValidationKey
<1>4. ASSUME NEW n \in {1, 2}, key = PoolKey(d, d.plan[j].pair[n], d.plan[j].model)
      PROVE  Pool(c, r, model) = Pool(d, d.plan[j].pair[n], d.plan[j].model)
  <2>1. /\ r = d.plan[j].pair[n] /\ model = d.plan[j].model /\ c.M = d.M /\ c.seed = d.seed
        /\ ListsOf(c, r) = ListsOf(d, d.plan[j].pair[n])
    BY <1>4 DEF PoolKey
  <2>2. QED
    BY <2>1 DEF Pool
<1>5. QED
  BY <1>3, <1>4

-----------------------------------------------------------------------------
\* The first job of the plan is the one after those with a result.
Present(i, job) ==
    /\ i = Len(results) + 1 /\ i \in DOMAIN config.plan /\ config.plan[i] = job
    /\ job.kind \in {"cell", "aa", "val"} /\ KeyOf(job) = FreshKey(config, job)
LEMMA FirstOfPlan ==
    ASSUME StudyInv, plan # <<>> PROVE \E i : Present(i, Head(plan))
<1> DEFINE i == Len(results) + 1
           job == Head(plan)
<1>1. Len(plan) \in Nat /\ DOMAIN plan = 1 .. Len(plan) /\ Len(plan) >= 1 /\ job = plan[1] /\ Len(results) \in Nat
  BY DEF StudyInv, PlanKept
<1>2. DOMAIN config.plan = 1 .. Len(config.plan) /\ Len(config.plan) \in Nat
  BY PlansAre, LenProperties DEF StudyInv, Planned
<1>3. i \in DOMAIN config.plan /\ config.plan[i] = job
  BY <1>1, <1>2 DEF StudyInv, PlanKept
<1>4. job.kind \in {"cell", "aa", "val"}
  BY <1>3, PlansAre DEF StudyInv, Planned
<1>5. CASE job.kind = "val"
  <2>1. CellOf(job) = FreshCell(config, AsCell(job))
    BY <1>3, <1>5, CellIsFound DEF StudyInv
  <2>2. KeyOf(job) = ValidationKey(config, job, CellOf(job))
    BY <1>5 DEF KeyOf
  <2>3. FreshKey(config, job) = ValidationKey(config, job, FreshCell(config, AsCell(job)))
    BY <1>5 DEF FreshKey
  <2>4. KeyOf(job) = FreshKey(config, job)
    BY ONLY <2>1, <2>2, <2>3
  <2>5. QED
    BY <1>3, <1>4, <2>4 DEF Present
<1>6. CASE job.kind # "val"
  <2>1. KeyOf(job) = FreshKey(config, job)
    BY <1>4, <1>6 DEF KeyOf, FreshKey
  <2>2. QED
    BY <1>3, <1>4, <2>1 DEF Present
<1>7. QED
  BY <1>5, <1>6

\* A result more, and the plan goes on with the next job.
LEMMA OneMoreResult ==
    ASSUME StudyInv, plan # <<>>, NEW v, Proper(config, Head(plan), v),
           results' = Append(results, v), plan' = Tail(plan), UNCHANGED config
    PROVE  PlanKept' /\ \A i \in DOMAIN results' : Proper(config', config'.plan[i], results'[i])
<1>1. PICK i : Present(i, Head(plan))
  BY FirstOfPlan
<1>2. /\ Len(plan) \in Nat /\ DOMAIN plan = 1 .. Len(plan) /\ Len(plan) >= 1
      /\ Len(results) \in Nat /\ DOMAIN results = 1 .. Len(results)
  BY DEF StudyInv, PlanKept
<1>3. /\ results' \in Seq(Range(results) \cup {v}) /\ Len(results') = Len(results) + 1
      /\ results'[Len(results) + 1] = v /\ \A j \in 1 .. Len(results) : results'[j] = results[j]
  BY DEF StudyInv, PlanKept
<1>4. DOMAIN results' = 1 .. Len(results) + 1 /\ results' \in Seq(Range(results'))
  BY <1>3, OwnElements
<1>5. /\ plan' \in Seq(Range(plan)) /\ Len(plan') = Len(plan) - 1
      /\ \A j \in 1 .. Len(plan) - 1 : plan'[j] = plan[j + 1]
  BY DEF StudyInv, PlanKept
<1>6. DOMAIN plan' = 1 .. Len(plan) - 1 /\ plan' \in Seq(Range(plan'))
  BY <1>5, OwnElements
<1>7. Len(results) + Len(plan) = Len(config.plan) /\ \A j \in 1 .. Len(plan) : plan[j] = config.plan[Len(results) + j]
  BY <1>2 DEF StudyInv, PlanKept
<1>8. PlanKept'
  <2>1. Len(results') <= Len(config'.plan)
    BY <1>2, <1>3, <1>7
  <2>2. Len(results') + Len(plan') = Len(config'.plan)
    <3>1. Len(results') + Len(plan') = Len(config.plan)
      <4>1. PICK m, n, p, q, N : m = Len(results) /\ n = Len(plan) /\ p = Len(results') /\ q = Len(plan') /\ N = Len(config.plan)
        OBVIOUS
      <4>2. m \in Nat /\ n \in Nat /\ p = m + 1 /\ q = n - 1 /\ m + n = N
        BY ONLY <4>1, <1>2, <1>3, <1>5, <1>7
      <4>3. p + q = N
        BY ONLY <4>2
      <4>4. QED
        BY <4>1, <4>3
    <3>2. QED
      BY <3>1
  <2>3. \A j \in DOMAIN plan' : plan'[j] = config'.plan[Len(results') + j]
    <3>1. TAKE j \in DOMAIN plan'
    <3>2. j \in 1 .. Len(plan) - 1 /\ j + 1 \in 1 .. Len(plan) /\ Len(results') + j = Len(results) + (j + 1)
      BY ONLY <1>2, <1>3, <1>6, <3>1
    <3>3. QED
      BY <1>5, <1>7, <3>2
  <2>4. QED
    BY <1>4, <1>6, <2>1, <2>2, <2>3 DEF PlanKept
<1>9. ASSUME NEW j \in DOMAIN results' PROVE Proper(config', config'.plan[j], results'[j])
  <2>1. CASE j \in 1 .. Len(results)
    <3>1. results'[j] = results[j] /\ Proper(config, config.plan[j], results[j])
      BY <1>2, <1>3, <2>1 DEF StudyInv
    <3>2. QED
      BY <3>1
  <2>2. CASE j = Len(results) + 1
    <3>1. config.plan[j] = Head(plan)
      BY <1>1, <2>2 DEF Present
    <3>2. QED
      BY <1>3, <2>2, <3>1
  <2>3. QED
    BY <1>2, <1>4, <2>1, <2>2
<1>10. QED
  BY <1>8, <1>9

\* A file is opened: it is torn, and what is to be written is genuine.
CacheKept ==
    /\ \A key \in DOMAIN cells : cells[key] = Torn \/ Genuine(key, cells[key])
    /\ writing # NoFile => writing = [key |-> writing.key, value |-> writing.value]
                           /\ Genuine(writing.key, writing.value)
LEMMA WriteKeeps ==
    ASSUME CacheKept, NEW key, NEW v, Genuine(key, v), Write(key, v), UNCHANGED <<Studies>> PROVE CacheKept'
<1>1. cells' = [k \in {key} \cup DOMAIN cells |-> IF k = key THEN Torn ELSE cells[k]]
  BY DEF Write, Put, Over
<1>2. \A k, w : Genuine(k, w)' <=> Genuine(k, w)
  BY DEF Genuine
<1>3. writing' = [key |-> key, value |-> v]
  BY DEF Write
<1>4. QED
  BY <1>1, <1>2, <1>3 DEF CacheKept

LEMMA StudyInitInv == StudyInit => StudyInv
<1> SUFFICES ASSUME StudyInit PROVE StudyInv
  OBVIOUS
<1>1. config.plan \in Seq(Range(config.plan)) /\ Len(config.plan) \in Nat
  BY PlansAre DEF StudyInit, Planned
<1>2. DOMAIN cells = {} /\ DOMAIN results = {} /\ DOMAIN pools = {} /\ Len(results) = 0 /\ Len(pools) = 0
  BY EmptySequences DEF StudyInit
<1>3. PlanKept /\ PoolsKept
  BY <1>1, <1>2, EmptySequences DEF StudyInit, PlanKept, PoolsKept
<1>4. QED
  BY <1>2, <1>3 DEF StudyInit, StudyInv

LEMMA LoadCellInv == StudyInv /\ LoadCell => StudyInv'
<1> SUFFICES ASSUME StudyInv, LoadCell PROVE StudyInv'
  OBVIOUS
<1>1. PICK i : Present(i, Head(plan))
  BY FirstOfPlan DEF LoadCell
<1> DEFINE key == KeyOf(Head(plan))
<1>2. key \in DOMAIN cells /\ UNCHANGED <<config, pools, cells, writing>> /\ pools = <<>> /\ plan # <<>>
  BY DEF LoadCell
<1>3. PoolsKept'
  BY <1>2, EmptySequences DEF PoolsKept
<1>4. config' \in Studies /\ CacheKept'
  BY <1>2 DEF StudyInv, CacheKept, Genuine
<1>5. CASE cells[key] = Torn
  <2>1. plan' = <<>> /\ UNCHANGED results
    BY <1>5 DEF LoadCell
  <2>2. PlanKept'
    BY <1>2, <2>1, EmptySequences DEF StudyInv, PlanKept
  <2>3. QED
    BY <1>2, <1>3, <1>4, <2>1, <2>2 DEF StudyInv, CacheKept
<1>6. CASE cells[key] # Torn
  <2>1. plan' = Tail(plan) /\ results' = Append(results, cells[key])
    BY <1>6 DEF LoadCell
  <2>2. Genuine(key, cells[key])
    BY <1>2, <1>6 DEF StudyInv
  <2>3. Proper(config, Head(plan), cells[key])
    BY <1>1, <2>2 DEF Genuine, Present, StudyInv
  <2>4. PlanKept' /\ \A j \in DOMAIN results' : Proper(config', config'.plan[j], results'[j])
    BY <1>2, <2>1, <2>3, OneMoreResult
  <2>5. QED
    BY <1>3, <1>4, <2>4 DEF StudyInv, CacheKept
<1>7. QED
  BY <1>5, <1>6

LEMMA FetchPoolInv == StudyInv /\ FetchPool => StudyInv'
<1> SUFFICES ASSUME StudyInv, FetchPool PROVE StudyInv'
  OBVIOUS
<1>1. PICK i : Present(i, Head(plan))
  BY FirstOfPlan DEF FetchPool
<1> DEFINE job == Head(plan)
           r == job.pair[Len(pools) + 1]
           key == PoolKey(config, r, job.model)
           pool == Pool(config, r, job.model)
<1>2. /\ plan # <<>> /\ writing = NoFile /\ Len(pools) < 2 /\ job.kind = "cell" /\ UNCHANGED <<config, results, reruns>>
      /\ IF key \notin DOMAIN cells
         THEN Write(key, pool) /\ pools' = Append(pools, pool) /\ UNCHANGED plan
         ELSE /\ IF cells[key] = Torn THEN plan' = <<>> /\ pools' = <<>>
                 ELSE pools' = Append(pools, cells[key]) /\ UNCHANGED plan
              /\ UNCHANGED <<cells, writing>>
  BY DEF FetchPool
<1>3. pools \in Seq(Range(pools)) /\ Len(pools) \in 0 .. 1
  <2>1. pools \in Seq(Range(pools)) /\ Len(pools) \in Nat
    BY LenProperties DEF StudyInv, PoolsKept
  <2>2. PICK n : n = Len(pools) /\ n < 2 /\ n \in Nat
    BY <1>2, <2>1
  <2>3. n \in 0 .. 1
    BY ONLY <2>2
  <2>4. QED
    BY <2>1, <2>2, <2>3
<1>4. ASSUME pools' = Append(pools, pool), UNCHANGED plan PROVE PlanKept' /\ PoolsKept'
  <2>1. /\ pools' \in Seq(Range(pools) \cup {pool}) /\ Len(pools') = Len(pools) + 1
        /\ pools'[Len(pools) + 1] = pool /\ \A n \in 1 .. Len(pools) : pools'[n] = pools[n]
    BY <1>3, <1>4
  <2>2. pools' \in Seq(Range(pools')) /\ DOMAIN pools' = 1 .. Len(pools) + 1 /\ DOMAIN pools = 1 .. Len(pools)
    BY <1>3, <2>1, OwnElements
  <2>3. ASSUME NEW n \in DOMAIN pools' PROVE pools'[n] = Pool(config', Head(plan').pair[n], Head(plan').model)
    <3>1. CASE n \in 1 .. Len(pools)
      BY <1>2, <1>4, <2>1, <2>2, <3>1 DEF StudyInv, PoolsKept
    <3>2. CASE n = Len(pools) + 1
      BY <1>2, <1>4, <2>1, <3>2
    <3>3. QED
      BY <1>3, <2>2, <2>3, <3>1, <3>2
  <2>4. PoolsKept'
    BY <1>2, <1>3, <1>4, <2>1, <2>2, <2>3 DEF PoolsKept
  <2>5. PlanKept'
    BY <1>2, <1>4 DEF StudyInv, PlanKept
  <2>6. QED
    BY <2>4, <2>5
<1>5. \A n \in DOMAIN results' : Proper(config', config'.plan[n], results'[n])
  BY <1>2 DEF StudyInv
<1>6. config' \in Studies
  BY <1>2 DEF StudyInv
<1>7. CacheKept
  BY DEF StudyInv, CacheKept
<1>8. CASE key \notin DOMAIN cells
  <2>1. Write(key, pool) /\ pools' = Append(pools, pool) /\ UNCHANGED plan
    BY <1>2, <1>8
  <2>2. Genuine(key, pool)
    BY PoolIsGenuine
  <2>3. CacheKept'
    BY <1>7, <2>1, <2>2, WriteKeeps
  <2>4. QED
    BY <1>4, <1>5, <1>6, <2>1, <2>3 DEF StudyInv, CacheKept
<1>9. CASE key \in DOMAIN cells /\ cells[key] = Torn
  <2>1. plan' = <<>> /\ pools' = <<>> /\ UNCHANGED <<cells, writing, results, config>>
    BY <1>2, <1>9
  <2>2. PlanKept' /\ PoolsKept'
    BY <2>1, EmptySequences DEF StudyInv, PlanKept, PoolsKept
  <2>3. CacheKept'
    BY <1>7, <2>1 DEF CacheKept, Genuine
  <2>4. QED
    BY <1>5, <1>6, <2>2, <2>3 DEF StudyInv, CacheKept
<1>10. CASE key \in DOMAIN cells /\ cells[key] # Torn
  <2>1. pools' = Append(pools, cells[key]) /\ UNCHANGED <<plan, cells, writing>>
    BY <1>2, <1>10
  <2>2. cells[key] = pool
    <3>1. Genuine(key, cells[key])
      BY <1>10 DEF StudyInv
    <3>2. config \in Studies /\ i \in DOMAIN config.plan /\ config.plan[i] = job
      BY <1>1 DEF StudyInv, Present
    <3>3. Len(pools) + 1 \in {1, 2}
      <4>1. PICK n : n = Len(pools) /\ n \in 0 .. 1
        BY <1>3
      <4>2. n + 1 \in {1, 2}
        BY ONLY <4>1
      <4>3. QED
        BY <4>1, <4>2
    <3>4. QED
      BY <3>1, <3>2, <3>3 DEF Genuine
  <2>3. CacheKept'
    BY <1>7, <2>1 DEF CacheKept, Genuine
  <2>4. QED
    BY <1>4, <1>5, <1>6, <2>1, <2>2, <2>3 DEF StudyInv, CacheKept
<1>11. QED
  BY <1>8, <1>9, <1>10

LEMMA ReportInv ==
    ASSUME StudyInv, plan # <<>>, NEW v, Proper(config, Head(plan), v), Report(v)
    PROVE  StudyInv'
<1>1. PICK i : Present(i, Head(plan))
  BY FirstOfPlan
<1>2. /\ results' = Append(results, v) /\ Write(KeyOf(Head(plan)), v) /\ plan' = Tail(plan) /\ pools' = <<>>
      /\ UNCHANGED <<config, reruns>>
  BY DEF Report
<1>3. PlanKept' /\ \A j \in DOMAIN results' : Proper(config', config'.plan[j], results'[j])
  BY <1>2, OneMoreResult
<1>4. PoolsKept'
  BY <1>2, EmptySequences DEF PoolsKept
<1>5. Genuine(KeyOf(Head(plan)), v)
  BY <1>1, JobIsGenuine DEF StudyInv, Present
<1>6. CacheKept'
  BY <1>2, <1>5, WriteKeeps DEF StudyInv, CacheKept
<1>7. QED
  BY <1>2, <1>3, <1>4, <1>6 DEF StudyInv, CacheKept

LEMMA ComputeCellInv == StudyInv /\ ComputeCell => StudyInv'
<1> SUFFICES ASSUME StudyInv, ComputeCell PROVE StudyInv'
  OBVIOUS
<1>1. plan # <<>> /\ Len(pools) = 2 /\ Report(Cell(config, Head(plan), pools))
  BY DEF ComputeCell
<1>2. pools # <<>> /\ Head(plan).kind = "cell"
  <2>1. Len(<<>>) # 2
    BY EmptySequences
  <2>2. pools # <<>>
    BY ONLY <1>1, <2>1
  <2>3. QED
    BY <2>2 DEF StudyInv, PoolsKept
<1>3. pools = [n \in {1, 2} |-> Pool(config, Head(plan).pair[n], Head(plan).model)]
  <2>1. DOMAIN pools = {1, 2} /\ pools \in [{1, 2} -> Range(pools)]
    <3>1. DOMAIN pools = 1 .. 2 /\ pools \in [1 .. 2 -> Range(pools)]
      BY <1>1, LenProperties DEF StudyInv, PoolsKept
    <3>2. 1 .. 2 = {1, 2}
      OBVIOUS
    <3>3. QED
      BY <3>1, <3>2
  <2>2. \A n \in {1, 2} : pools[n] = Pool(config, Head(plan).pair[n], Head(plan).model)
    BY <2>1 DEF StudyInv, PoolsKept
  <2>3. QED
    BY <2>1, <2>2
<1>4. Proper(config, Head(plan), Cell(config, Head(plan), pools))
  BY <1>2, <1>3 DEF Proper, FreshCell
<1>5. QED
  BY <1>1, <1>4, ReportInv

LEMMA ComputeDirectlyInv == StudyInv /\ ComputeDirectly => StudyInv'
<1> SUFFICES ASSUME StudyInv, ComputeDirectly PROVE StudyInv'
  OBVIOUS
<1> DEFINE job == Head(plan)
<1>1. /\ plan # <<>> /\ job.kind # "cell"
      /\ Report(IF job.kind = "aa" THEN AATest(config, job) ELSE Validation(config, job, CellOf(job)))
  BY DEF ComputeDirectly
<1>2. PICK i : Present(i, job)
  BY <1>1, FirstOfPlan
<1>3. CASE job.kind = "aa"
  <2>1. Proper(config, job, AATest(config, job)) /\ Report(AATest(config, job))
    BY <1>1, <1>3 DEF Proper
  <2>2. QED
    BY <1>1, <2>1, ReportInv
<1>4. CASE job.kind = "val"
  <2>1. CellOf(job) = FreshCell(config, AsCell(job))
    BY <1>2, <1>4, CellIsFound DEF StudyInv, Present
  <2>2. Report(Validation(config, job, FreshCell(config, AsCell(job))))
    BY <1>1, <1>4, <2>1
  <2>3. Report(FreshValidation(config, job))
    BY <2>2 DEF FreshValidation, AsCell
  <2>4. config \in Studies /\ job \in Range(config.plan) /\ AlikeFor(config, config, job)
    BY <1>2 DEF StudyInv, Present, AlikeFor, Range
  <2>5. Proper(config, job, FreshValidation(config, job))
    BY <1>4, <2>4 DEF Proper
  <2>6. QED
    BY <1>1, <2>3, <2>5, ReportInv
<1>5. QED
  BY <1>1, <1>2, <1>3, <1>4 DEF Present

LEMMA FinishWriteInv == StudyInv /\ FinishWrite => StudyInv'
<1> SUFFICES ASSUME StudyInv, FinishWrite PROVE StudyInv'
  OBVIOUS
<1>1. /\ writing # NoFile /\ cells' = [cells EXCEPT ![writing.key] = writing.value]
      /\ writing' = NoFile /\ UNCHANGED <<config, plan, results, pools>>
  BY DEF FinishWrite
<1>2. \A k, w : Genuine(k, w)' <=> Genuine(k, w)
  BY DEF Genuine
<1>3. ASSUME NEW k \in DOMAIN cells' PROVE cells'[k] = Torn \/ Genuine(k, cells'[k])
  <2>1. k \in DOMAIN cells /\ (IF k = writing.key THEN cells'[k] = writing.value ELSE cells'[k] = cells[k])
    BY <1>1
  <2>2. QED
    BY <1>1, <2>1 DEF StudyInv
<1>4. PlanKept' /\ PoolsKept'
  BY <1>1 DEF StudyInv, PlanKept, PoolsKept
<1>5. QED
  BY <1>1, <1>2, <1>3, <1>4 DEF StudyInv

LEMMA RunAgainInv == StudyInv /\ RunAgain => StudyInv'
<1> SUFFICES ASSUME StudyInv, RunAgain PROVE StudyInv'
  OBVIOUS
<1>1. /\ config' \in Studies /\ plan' = config'.plan /\ results' = <<>> /\ pools' = <<>> /\ writing' = NoFile
      /\ UNCHANGED cells
  BY DEF RunAgain
<1>2. config'.plan \in Seq(Range(config'.plan)) /\ Len(config'.plan) \in Nat
  BY <1>1, PlansAre DEF Planned
<1>3. DOMAIN results' = {} /\ DOMAIN pools' = {} /\ Len(results') = 0 /\ Len(pools') = 0
  BY <1>1, EmptySequences
<1>4. PlanKept' /\ PoolsKept'
  BY <1>1, <1>2, <1>3, EmptySequences DEF PlanKept, PoolsKept
<1>5. CacheKept'
  BY <1>1 DEF StudyInv, CacheKept, Genuine
<1>6. QED
  BY <1>1, <1>3, <1>4, <1>5 DEF StudyInv, CacheKept

\* What is reported is proper: of a cell and an A/A test, what a run without a
\* cache would compute.
LEMMA InvIsFresh == StudyInv => CachedAsFresh
<1> SUFFICES ASSUME StudyInv, NEW i \in DOMAIN results
             PROVE  LET job == config.plan[i]
                        r == results[i]
                    IN  CASE job.kind = "cell" -> r = FreshCell(config, job)
                          [] job.kind = "aa" -> r = AATest(config, job)
                          [] job.kind = "val" ->
                                /\ r.tdi = TdiN80(CellOf(job))
                                /\ \E d \in Studies : /\ job \in Range(d.plan) /\ r = FreshValidation(d, job)
                                                      /\ d.vt = config.vt /\ d.seed = config.seed
  BY Zenon DEF CachedAsFresh
<1> DEFINE job == config.plan[i]
           r == results[i]
<1>1. i \in DOMAIN config.plan /\ i <= Len(results) + 1
  BY PlansAre, LenProperties DEF StudyInv, Planned, PlanKept
<1>2. job.kind \in {"cell", "aa", "val"}
  BY <1>1, PlansAre DEF StudyInv, Planned
<1>3. Proper(config, job, r)
  BY DEF StudyInv
<1>4. CASE job.kind = "val"
  <2>1. CellOf(job) = FreshCell(config, AsCell(job))
    BY <1>1, <1>4, CellIsFound DEF StudyInv
  <2>2. PICK d \in Studies : job \in Range(d.plan) /\ AlikeFor(config, d, job) /\ r = FreshValidation(d, job)
    BY <1>3, <1>4 DEF Proper
  <2>3. r.tdi = TdiN80(FreshCell(d, AsCell(job)))
    BY <2>2 DEF FreshValidation, Validation, AsCell
  <2>4. r.tdi = TdiN80(CellOf(job)) /\ d.vt = config.vt /\ d.seed = config.seed
    BY <2>1, <2>2, <2>3 DEF AlikeFor
  <2>5. QED
    BY <1>4, <2>2, <2>4
<1>5. CASE job.kind = "cell"
  BY <1>3, <1>5 DEF Proper
<1>6. CASE job.kind = "aa"
  BY <1>3, <1>6 DEF Proper
<1>7. QED
  BY <1>2, <1>4, <1>5, <1>6

LEMMA StudyNextInv == StudyInv /\ [Next]_vars => StudyInv'
<1> SUFFICES ASSUME StudyInv, [Next]_vars PROVE StudyInv'
  OBVIOUS
<1>1. CASE Cells
  BY <1>1, LoadCellInv, FetchPoolInv, ComputeCellInv, ComputeDirectlyInv, FinishWriteInv, RunAgainInv
     DEF Cells, StudyStep
<1>2. ASSUME UNCHANGED studyVars PROVE StudyInv'
  <2>1. UNCHANGED <<config, plan, results, pools, cells, writing>>
    BY <1>2 DEF studyVars
  <2>2. PlanKept' /\ PoolsKept'
    BY <2>1 DEF StudyInv, PlanKept, PoolsKept
  <2>3. CacheKept'
    BY <2>1 DEF StudyInv, CacheKept, Genuine
  <2>4. QED
    BY <2>1, <2>2, <2>3 DEF StudyInv, CacheKept
<1>3. CASE UNCHANGED vars
  BY <1>2, <1>3 DEF vars
<1>4. CASE Begin
  BY <1>2, <1>4 DEF Begin
<1>5. CASE Tune \/ EvaluateHeldOut \/ CompareSystems \/ MakePool \/ BuildSets \/ LogClicks \/ Estimate \/ MineQuery
  BY <1>2, <1>5 DEF Tune, EvaluateHeldOut, CompareSystems, MakePool, BuildSets, LogClicks, Estimate, MineQuery, Step
<1>6. CASE Simulate \/ Arrive \/ PrepareData \/ EncodeFeature
  BY <1>2, <1>6 DEF Simulate, Arrive, PrepareData, EncodeFeature
<1>7. QED
  BY <1>1, <1>3, <1>4, <1>5, <1>6 DEF Next

-----------------------------------------------------------------------------
\* The invariant of the study: whatever was cached by runs with other inputs and
\* wherever they were killed, a file is torn or holds a pool, a cell or an A/A test
\* that every study which asks for it would compute itself, or a validation that
\* some study with the same key for it would; and the results are those of the
\* plan's first jobs.
THEOREM StudyInvariant == Spec => []StudyInv
<1>1. Init => StudyInv
  BY StudyInitInv DEF Init
<1>2. QED
  BY <1>1, StudyNextInv, PTL DEF Spec

\* The cells and the A/A tests that a killed and repeated study reports are those
\* of a fresh one, a validation is one of a study with the same key for it, and
\* rankers are compared within a collection (m9_sensitivity.py).
THEOREM StudyIsAsFresh == Spec => []StudyAsFresh
<1>1. StudyInv => StudyAsFresh
  <2> SUFFICES ASSUME StudyInv PROVE CachedAsFresh /\ OneWorld
    BY DEF StudyAsFresh
  <2>1. CachedAsFresh
    BY InvIsFresh
  <2>2. OneWorld
    BY PlansAre DEF StudyInv, OneWorld, SameWorld
  <2>3. QED
    BY <2>1, <2>2
<1>2. QED
  BY <1>1, StudyInvariant, PTL

-----------------------------------------------------------------------------
(* The experiment's log: what a page is like when it is served. *)

\* A scan of the page, as DBN.simulate makes it.
DBNScan(grades, draws, n, scan) ==
    scan = [r \in 0 .. n |->
            IF r = 0 THEN [examines |-> TRUE, clicks |-> {}, satisfied |-> {}]
            ELSE LET s == scan[r - 1]
                     click == s.examines /\ draws[r].click < Lookup(Alpha, grades[r])
                     happy == click /\ draws[r].sat < Lookup(Sigma, grades[r])
                 IN  [examines |-> s.examines /\ ~happy /\ draws[r].cont < Gamma,
                      clicks |-> IF click THEN s.clicks \cup {r} ELSE s.clicks,
                      satisfied |-> IF happy THEN s.satisfied \cup {r} ELSE s.satisfied]]
Scanning(grades, draws, s, r) ==
    LET click == s.examines /\ draws[r].click < Lookup(Alpha, grades[r])
        happy == click /\ draws[r].sat < Lookup(Sigma, grades[r])
    IN  [examines |-> s.examines /\ ~happy /\ draws[r].cont < Gamma,
         clicks |-> IF click THEN s.clicks \cup {r} ELSE s.clicks,
         satisfied |-> IF happy THEN s.satisfied \cup {r} ELSE s.satisfied]
NotScanned == [examines |-> TRUE, clicks |-> {}, satisfied |-> {}]
LEMMA DBNScanIs ==
    ASSUME NEW grades, NEW draws, NEW n, NEW f
    PROVE  DBNScan(grades, draws, n, f)
              <=> f = [r \in 0 .. n |-> IF r = 0 THEN NotScanned ELSE Scanning(grades, draws, f[r - 1], r)]
BY Zenon DEF DBNScan, NotScanned, Scanning
LEMMA DBNScanExists ==
    ASSUME NEW grades, NEW draws, NEW n \in Nat PROVE \E f : DBNScan(grades, draws, n, f)
<1> DEFINE Bad == {m \in Nat : ~\E f : DBNScan(grades, draws, m, f)}
<1>1. Bad = {}
  <2>1. SUFFICES ASSUME Bad # {} PROVE FALSE
    OBVIOUS
  <2>2. PICK m \in Bad : \A k \in Bad : m <= k
    <3>1. Bad \in SUBSET Nat
      OBVIOUS
    <3> HIDE DEF Bad
    <3> QED BY <2>1, <3>1, LeastOf
  <2>3. m \in Nat /\ ~\E f : DBNScan(grades, draws, m, f)
    BY <2>2
  <2>4. m # 0
    <3>1. SUFFICES ASSUME m = 0 PROVE FALSE
      OBVIOUS
    <3>2. PICK g : g = [r \in 0 .. 0 |-> NotScanned]
      OBVIOUS
    <3>3. g = [r \in 0 .. 0 |-> IF r = 0 THEN NotScanned ELSE Scanning(grades, draws, g[r - 1], r)]
      BY <3>2
    <3>4. QED
      BY <2>3, <3>1, <3>3, DBNScanIs
  <2>5. m - 1 \in Nat /\ m - 1 \notin Bad
    BY <2>2, <2>3, <2>4
  <2>6. PICK f : DBNScan(grades, draws, m - 1, f)
    BY <2>5
  <2>7. f = [r \in 0 .. m - 1 |-> IF r = 0 THEN NotScanned ELSE Scanning(grades, draws, f[r - 1], r)]
    BY <2>6, DBNScanIs
  <2> DEFINE h == [r \in 0 .. m |-> IF r = 0 THEN NotScanned ELSE Scanning(grades, draws, f[r - 1], r)]
  <2>8. \A r \in 0 .. m - 1 : r \in 0 .. m /\ h[r] = f[r]
    <3>1. SUFFICES ASSUME NEW r \in 0 .. m - 1 PROVE r \in 0 .. m /\ h[r] = f[r]
      OBVIOUS
    <3>2. f[r] = IF r = 0 THEN NotScanned ELSE Scanning(grades, draws, f[r - 1], r)
      BY ONLY <2>7, r \in 0 .. m - 1
    <3>3. r \in 0 .. m
      BY <2>3
    <3>4. h[r] = IF r = 0 THEN NotScanned ELSE Scanning(grades, draws, f[r - 1], r)
      BY ONLY <3>3
    <3>5. QED
      BY ONLY <3>2, <3>3, <3>4
  <2>9. \A r \in 0 .. m : r # 0 => r - 1 \in 0 .. m - 1
    BY <2>3
  <2>10. h = [r \in 0 .. m |-> IF r = 0 THEN NotScanned ELSE Scanning(grades, draws, h[r - 1], r)]
    <3>1. h = [r \in 0 .. m |-> IF r = 0 THEN NotScanned ELSE Scanning(grades, draws, f[r - 1], r)]
      OBVIOUS
    <3> HIDE DEF h
    <3> QED BY <2>8, <2>9, <3>1
  <2> HIDE DEF h
  <2>11. DBNScan(grades, draws, m, h)
    BY <2>10, DBNScanIs
  <2>12. QED
    BY <2>3, <2>11
<1>2. QED
  BY <1>1

\* A simulated user clicks only where a draw is below the rank's probability.
Attracted(grades, draws, r) == draws[r].click < Lookup(Alpha, grades[r])
LEMMA DBNClicks ==
    ASSUME NEW grades, NEW draws, Len(grades) \in Nat
    PROVE  \A r \in DBN(grades, draws).clicks : r \in 1 .. Len(grades) /\ Attracted(grades, draws, r)
<1>1. PICK n : n = Len(grades)
  OBVIOUS
<1>2. n \in Nat
  BY <1>1
<1>3. DBN(grades, draws) = (CHOOSE scan : DBNScan(grades, draws, Len(grades), scan))[Len(grades)]
  BY Zenon DEF DBN, DBNScan
<1>4. PICK f : f = CHOOSE scan : DBNScan(grades, draws, n, scan)
  OBVIOUS
<1>5. DBNScan(grades, draws, n, f)
  BY <1>2, <1>4, DBNScanExists
<1>6. f = [r \in 0 .. n |-> IF r = 0 THEN NotScanned ELSE Scanning(grades, draws, f[r - 1], r)]
  BY <1>5, DBNScanIs
<1> DEFINE Good == {r \in 1 .. n : Attracted(grades, draws, r)}
           Bad == {m \in 0 .. n : ~(f[m].clicks \subseteq Good)}
<1>7. Bad = {}
  <2>1. SUFFICES ASSUME Bad # {} PROVE FALSE
    OBVIOUS
  <2>2. PICK m \in Bad : \A k \in Bad : m <= k
    <3>1. Bad \in SUBSET Nat
      OBVIOUS
    <3> HIDE DEF Bad
    <3> QED BY <2>1, <3>1, LeastOf
  <2>3. m \in 0 .. n /\ ~(f[m].clicks \subseteq Good)
    BY <2>2
  <2>4. f[m] = IF m = 0 THEN NotScanned ELSE Scanning(grades, draws, f[m - 1], m)
    BY <1>6, <2>3
  <2>5. m # 0
    <3>1. NotScanned.clicks = {}
      BY DEF NotScanned
    <3>2. QED
      BY <2>3, <2>4, <3>1
  <2>6. PICK k : k = m - 1
    OBVIOUS
  <2>7. k \in 0 .. n /\ m \in 1 .. n /\ k \notin Bad
    BY <1>2, <2>2, <2>3, <2>5, <2>6
  <2>8. f[k].clicks \subseteq Good
    BY <2>7
  <2>9. f[m].clicks = f[k].clicks \/ (f[m].clicks = f[k].clicks \cup {m} /\ Attracted(grades, draws, m))
    <3>1. PICK s : s = f[k]
      OBVIOUS
    <3>2. f[m] = Scanning(grades, draws, s, m)
      BY <2>4, <2>5, <2>6, <3>1
    <3>3. f[m].clicks = IF s.examines /\ Attracted(grades, draws, m) THEN s.clicks \cup {m} ELSE s.clicks
      BY <3>2 DEF Scanning, Attracted
    <3>4. QED
      BY <3>1, <3>3
  <2>10. QED
    BY <2>3, <2>7, <2>8, <2>9
<1>8. f[n].clicks \subseteq Good
  BY <1>2, <1>7
<1>9. QED
  BY <1>1, <1>3, <1>4, <1>8

LEMMA PBMClicks ==
    ASSUME NEW grades, NEW draws, Len(grades) \in Nat, DOMAIN grades = 1 .. Len(grades)
    PROVE  \A r \in PBM(grades, draws).clicks : r \in 1 .. Len(grades) /\ Attracted(grades, draws, r)
<1>1. PBM(grades, draws).clicks
        = {r \in DOMAIN grades : draws[r].cont < 100 \div r /\ draws[r].click < Lookup(Alpha, grades[r])}
  BY DEF PBM
<1>2. QED
  BY <1>1 DEF Attracted

\* The draft of a page, turn by turn.
Undrafted(coins) == [out |-> <<>>, teams |-> <<>>, used |-> 0, coins |-> coins, short |-> FALSE]
NextTurn(a, b, s) ==
    IF s.short \/ AllShown(a, b, s) THEN s
    ELSE IF OutOfCoins(s) THEN [s EXCEPT !.short = TRUE] ELSE Turn(a, b, s)
Draft(a, b, k, coins, f) ==
    f = [n \in 0 .. k |-> IF n = 0 THEN Undrafted(coins) ELSE NextTurn(a, b, f[n - 1])]
LEMMA DraftExists ==
    ASSUME NEW a, NEW b, NEW coins, NEW k \in Nat PROVE \E f : Draft(a, b, k, coins, f)
<1> DEFINE Bad == {m \in Nat : ~\E f : Draft(a, b, m, coins, f)}
<1>1. Bad = {}
  <2>1. SUFFICES ASSUME Bad # {} PROVE FALSE
    OBVIOUS
  <2>2. PICK m \in Bad : \A n \in Bad : m <= n
    <3>1. Bad \in SUBSET Nat
      OBVIOUS
    <3> HIDE DEF Bad
    <3> QED BY <2>1, <3>1, LeastOf
  <2>3. m \in Nat /\ ~\E f : Draft(a, b, m, coins, f)
    BY <2>2
  <2>4. m # 0
    <3>1. SUFFICES ASSUME m = 0 PROVE FALSE
      OBVIOUS
    <3>2. PICK g : g = [n \in 0 .. 0 |-> Undrafted(coins)]
      OBVIOUS
    <3>3. Draft(a, b, 0, coins, g)
      BY <3>2 DEF Draft
    <3>4. QED
      BY <2>3, <3>1, <3>3
  <2>5. m - 1 \in Nat /\ m - 1 \notin Bad
    BY <2>2, <2>3, <2>4
  <2>6. PICK f : Draft(a, b, m - 1, coins, f)
    BY <2>5
  <2> DEFINE h == [n \in 0 .. m |-> IF n = 0 THEN Undrafted(coins) ELSE NextTurn(a, b, f[n - 1])]
  <2>7. \A n \in 0 .. m - 1 : n \in 0 .. m /\ h[n] = f[n]
    <3>1. SUFFICES ASSUME NEW n \in 0 .. m - 1 PROVE n \in 0 .. m /\ h[n] = f[n]
      OBVIOUS
    <3>2. f[n] = IF n = 0 THEN Undrafted(coins) ELSE NextTurn(a, b, f[n - 1])
      BY ONLY <2>6, n \in 0 .. m - 1 DEF Draft
    <3>3. n \in 0 .. m
      BY <2>3
    <3>4. h[n] = IF n = 0 THEN Undrafted(coins) ELSE NextTurn(a, b, f[n - 1])
      BY ONLY <3>3
    <3>5. QED
      BY ONLY <3>2, <3>3, <3>4
  <2>8. \A n \in 0 .. m : n # 0 => n - 1 \in 0 .. m - 1
    BY <2>3
  <2>9. h = [n \in 0 .. m |-> IF n = 0 THEN Undrafted(coins) ELSE NextTurn(a, b, h[n - 1])]
    <3>1. h = [n \in 0 .. m |-> IF n = 0 THEN Undrafted(coins) ELSE NextTurn(a, b, f[n - 1])]
      OBVIOUS
    <3> HIDE DEF h
    <3> QED BY <2>7, <2>8, <3>1
  <2> HIDE DEF h
  <2>10. Draft(a, b, m, coins, h)
    BY <2>9 DEF Draft
  <2>11. QED
    BY <2>3, <2>10
<1>2. QED
  BY <1>1

\* The page of a draft has a team for each of its documents.
Teamed(s) ==
    /\ s = [out |-> s.out, teams |-> s.teams, used |-> s.used, coins |-> s.coins, short |-> s.short]
    /\ IsSeq(s.out) /\ IsSeq(s.teams) /\ Len(s.out) = Len(s.teams) /\ Range(s.teams) \subseteq {"A", "B"}
PicksA(a, b, s) ==
    LET ta == Drafted(s.teams, "A")
        tb == Drafted(s.teams, "B")
        wantsA == ta < tb \/ (ta = tb /\ s.coins[s.used + 1])
    IN  IF wantsA THEN Advance(a, s.out) # 0 ELSE Advance(b, s.out) = 0
LEMMA TurnIs ==
    ASSUME NEW a, NEW b, NEW s
    PROVE  Turn(a, b, s)
             = [s EXCEPT !.out = Append(@, IF PicksA(a, b, s) THEN a[Advance(a, s.out)] ELSE b[Advance(b, s.out)]),
                         !.teams = Append(@, IF PicksA(a, b, s) THEN "A" ELSE "B"),
                         !.used = IF Drafted(s.teams, "A") = Drafted(s.teams, "B") THEN @ + 1 ELSE @]
BY Zenon DEF Turn, PicksA
LEMMA TurnIsTeamed ==
    ASSUME NEW a, NEW b, NEW s, Teamed(s) PROVE Teamed(NextTurn(a, b, s))
<1>1. CASE NextTurn(a, b, s) = s
  BY <1>1
<1>2. CASE NextTurn(a, b, s) = [s EXCEPT !.short = TRUE]
  BY <1>2 DEF Teamed
<1>3. CASE NextTurn(a, b, s) = Turn(a, b, s)
  <2>1. PICK x, y, z :
          /\ x = IF PicksA(a, b, s) THEN a[Advance(a, s.out)] ELSE b[Advance(b, s.out)]
          /\ y = IF PicksA(a, b, s) THEN "A" ELSE "B"
          /\ z = IF Drafted(s.teams, "A") = Drafted(s.teams, "B") THEN s.used + 1 ELSE s.used
    OBVIOUS
  <2>2. /\ y \in {"A", "B"}
        /\ Turn(a, b, s) = [s EXCEPT !.out = Append(@, x), !.teams = Append(@, y), !.used = z]
    <3>1. y \in {"A", "B"}
      BY <2>1
    <3>2. Turn(a, b, s) = [s EXCEPT !.out = Append(@, x), !.teams = Append(@, y), !.used = z]
      BY ONLY <2>1, TurnIs, Zenon
    <3>3. QED
      BY <3>1, <3>2
  <2>3. PICK o, t : o = Append(s.out, x) /\ t = Append(s.teams, y)
    OBVIOUS
  <2>4. Turn(a, b, s) = [out |-> o, teams |-> t, used |-> z, coins |-> s.coins, short |-> s.short]
    BY ONLY <2>2, <2>3, Teamed(s) DEF Teamed
  <2>5. IsSeq(o) /\ IsSeq(t) /\ Len(o) = Len(t) /\ Range(t) \subseteq {"A", "B"}
    BY <2>2, <2>3, AppendIs DEF Teamed
  <2>6. QED
    BY <1>3, <2>4, <2>5 DEF Teamed
<1>4. QED
  BY <1>1, <1>2, <1>3 DEF NextTurn
LEMMA DraftIsTeamed ==
    ASSUME NEW a, NEW b, NEW k \in Nat, NEW coins PROVE Teamed(team_draft(a, b, k, coins))
<1>1. team_draft(a, b, k, coins) = (CHOOSE f : Draft(a, b, k, coins, f))[k]
  BY Zenon DEF team_draft, Draft, Undrafted, NextTurn
<1>2. PICK f : f = CHOOSE g : Draft(a, b, k, coins, g)
  OBVIOUS
<1>3. Draft(a, b, k, coins, f)
  BY <1>2, DraftExists
<1> DEFINE Bad == {m \in 0 .. k : ~Teamed(f[m])}
<1>4. Bad = {}
  <2>1. SUFFICES ASSUME Bad # {} PROVE FALSE
    OBVIOUS
  <2>2. PICK m \in Bad : \A n \in Bad : m <= n
    <3>1. Bad \in SUBSET Nat
      OBVIOUS
    <3> HIDE DEF Bad
    <3> QED BY <2>1, <3>1, LeastOf
  <2>3. m \in 0 .. k /\ ~Teamed(f[m])
    BY <2>2
  <2>4. f[m] = IF m = 0 THEN Undrafted(coins) ELSE NextTurn(a, b, f[m - 1])
    BY <1>3, <2>3 DEF Draft
  <2>5. Teamed(Undrafted(coins))
    BY EmptySequences DEF Teamed, Undrafted, IsSeq, Range
  <2>6. m # 0
    BY <2>3, <2>4, <2>5
  <2>7. m - 1 \in 0 .. k /\ m - 1 \notin Bad
    BY <2>2, <2>3, <2>6
  <2>8. QED
    BY <2>3, <2>4, <2>6, <2>7, TurnIsTeamed
<1>5. QED
  BY <1>1, <1>2, <1>4

\* What simulate_experiment shows, and what the user does with it.
Shown(exp, session, control, treatment, coins) ==
    LET arm == assign(session, exp.allocation)
        draft == team_draft(control, treatment, PageLength, coins)
    IN  IF arm = None THEN [docs |-> control, teams |-> <<>>, variant |-> None, experiment |-> None]
        ELSE IF exp.kind = "interleave"
        THEN [docs |-> draft.out, teams |-> draft.teams, variant |-> "interleaved", experiment |-> exp.id]
        ELSE [docs |-> IF arm = "control" \/ exp.kind = "aa" THEN control ELSE treatment,
              teams |-> <<>>, variant |-> arm, experiment |-> exp.id]
ShownGrades(docs, judged) == [r \in 1 .. PageLength |-> IF r <= Len(docs) THEN Grade(judged, docs[r]) ELSE -1]
User(exp, grades, draws) == IF exp.model = "pbm" THEN PBM(grades, draws) ELSE DBN(grades, draws)
LEMMA PageIs ==
    ASSUME NEW exp, NEW session, NEW request, NEW control, NEW treatment, NEW coins, NEW draws, NEW judged,
           NEW page, page = PageOf(exp, session, request, control, treatment, coins, draws, judged),
           NEW s, s = Shown(exp, session, control, treatment, coins),
           NEW user, user = User(exp, ShownGrades(s.docs, judged), draws)
    PROVE  page = [request |-> request, session |-> session.id, clicks |-> user.clicks, docs |-> s.docs,
                   teams |-> s.teams, variant |-> s.variant, experiment |-> s.experiment]
BY Zenon DEF PageOf, Shown, ShownGrades, User

\* A page as it is served: it is known by its request, it is clicked only where it
\* has a document, it has no team or one per document, and a variant only with
\* its experiment.
ServedWell(p) ==
    /\ p.request # None
    /\ IsSeq(p.docs) /\ p.clicks \subseteq DOMAIN p.docs
    /\ p.teams = <<>> \/ (IsSeq(p.teams) /\ DOMAIN p.teams = DOMAIN p.docs /\ None \notin Range(p.teams))
    /\ p.experiment = None => p.variant = None
Page(i, p) == PageOf(p.experiment, p.session, p.request, i.control, i.treatment, p.coins, p.draws, i.judged)
LEMMA ShownIs ==
    ASSUME NEW exp, NEW session, NEW control, NEW treatment, NEW coins, IsSeq(control), IsSeq(treatment),
           exp.id # None, NEW s, s = Shown(exp, session, control, treatment, coins)
    PROVE  /\ IsSeq(s.docs) /\ (s.experiment = None => s.variant = None)
           /\ s.teams = <<>> \/ (IsSeq(s.teams) /\ DOMAIN s.teams = DOMAIN s.docs /\ None \notin Range(s.teams))
<1>1. PICK draft : draft = team_draft(control, treatment, PageLength, coins)
  OBVIOUS
<1>2. PICK arm : arm = assign(session, exp.allocation)
  OBVIOUS
<1>3. s = IF arm = None THEN [docs |-> control, teams |-> <<>>, variant |-> None, experiment |-> None]
          ELSE IF exp.kind = "interleave"
          THEN [docs |-> draft.out, teams |-> draft.teams, variant |-> "interleaved", experiment |-> exp.id]
          ELSE [docs |-> IF arm = "control" \/ exp.kind = "aa" THEN control ELSE treatment,
                teams |-> <<>>, variant |-> arm, experiment |-> exp.id]
  BY Zenon, <1>1, <1>2 DEF Shown
<1>4. IsSeq(draft.out) /\ IsSeq(draft.teams) /\ DOMAIN draft.teams = DOMAIN draft.out /\ None \notin Range(draft.teams)
  <2>1. Teamed(draft)
    BY <1>1, RankersAssumption, DraftIsTeamed
  <2>2. DOMAIN draft.teams = DOMAIN draft.out
    BY <2>1, SeqIs DEF Teamed
  <2>3. None \notin {"A", "B"}
    BY DEF None
  <2>4. QED
    BY <2>1, <2>2, <2>3 DEF Teamed
<1>5. CASE arm = None
  <2>1. s = [docs |-> control, teams |-> <<>>, variant |-> None, experiment |-> None]
    BY ONLY <1>3, <1>5
  <2>2. s.docs = control /\ s.teams = <<>> /\ s.variant = None
    BY ONLY <2>1
  <2>3. QED
    BY <2>2
<1>6. CASE arm # None /\ exp.kind = "interleave"
  <2>1. s = [docs |-> draft.out, teams |-> draft.teams, variant |-> "interleaved", experiment |-> exp.id]
    BY ONLY <1>3, <1>6
  <2>2. s.docs = draft.out /\ s.teams = draft.teams /\ s.experiment = exp.id
    BY ONLY <2>1
  <2>3. QED
    BY <1>4, <2>2
<1>7. CASE arm # None /\ exp.kind # "interleave"
  <2>1. PICK docs : docs = IF arm = "control" \/ exp.kind = "aa" THEN control ELSE treatment
    OBVIOUS
  <2>2. s = [docs |-> docs, teams |-> <<>>, variant |-> arm, experiment |-> exp.id]
    BY ONLY <1>3, <1>7, <2>1
  <2>3. s.docs = docs /\ s.teams = <<>> /\ s.experiment = exp.id
    BY ONLY <2>2
  <2>4. QED
    BY <2>1, <2>3
<1>8. QED
  BY <1>5, <1>6, <1>7
LEMMA UserClicksShown ==
    ASSUME NEW docs, IsSeq(docs), NEW judged, NEW exp, NEW draws,
           \A r \in 1 .. PageLength : draws[r].click \in Nat
    PROVE  User(exp, ShownGrades(docs, judged), draws).clicks \subseteq DOMAIN docs
<1>1. PICK n \in Nat : n = PageLength
  BY RankersAssumption
<1>2. PICK m \in Nat : m = Len(docs) /\ DOMAIN docs = 1 .. m
  BY SeqIs
<1>3. PICK grades : grades = ShownGrades(docs, judged)
  OBVIOUS
<1>4. grades = [r \in 1 .. n |-> IF r <= m THEN Grade(judged, docs[r]) ELSE -1]
  BY <1>1, <1>2, <1>3 DEF ShownGrades
<1>5. Len(grades) = n /\ DOMAIN grades = 1 .. n
  <2>1. grades = [r \in 1 .. n |-> grades[r]]
    BY <1>4
  <2>2. QED
    BY <2>1, <1>4, FunctionIsSeq
<1>6. SUFFICES ASSUME NEW r \in User(exp, grades, draws).clicks PROVE r \in 1 .. m
  BY <1>2, <1>3
<1>7. r \in 1 .. n /\ Attracted(grades, draws, r)
  BY <1>5, DBNClicks, PBMClicks DEF User
<1>8. CASE r > m
  <2>1. grades[r] = -1
    BY <1>4, <1>7, <1>8
  <2>2. Lookup(Alpha, grades[r]) = 0
    BY <2>1 DEF Lookup
  <2>3. draws[r].click < 0 /\ draws[r].click \in Nat
    BY <1>1, <1>7, <2>2 DEF Attracted
  <2>4. QED
    BY ONLY <2>3
<1>9. QED
  BY <1>7, <1>8
LEMMA PageIsServedWell ==
    ASSUME NEW i \in ExperimentInputs, NEW p \in i.requests
    PROVE  ServedWell(Page(i, p)) /\ Page(i, p).request = p.request
<1>1. PICK page, s, user :
        /\ page = Page(i, p) /\ s = Shown(p.experiment, p.session, i.control, i.treatment, p.coins)
        /\ user = User(p.experiment, ShownGrades(s.docs, i.judged), p.draws)
  OBVIOUS
<1>2. page = [request |-> p.request, session |-> p.session.id, clicks |-> user.clicks, docs |-> s.docs,
              teams |-> s.teams, variant |-> s.variant, experiment |-> s.experiment]
  BY <1>1, PageIs DEF Page
<1>3. /\ p.request # None /\ p.experiment.id # None /\ IsSeq(i.control) /\ IsSeq(i.treatment)
      /\ \A r \in 1 .. PageLength : p.draws[r].click \in Nat
  BY LogsAssumption DEF IsSeq
<1>4. /\ IsSeq(s.docs) /\ (s.experiment = None => s.variant = None)
      /\ s.teams = <<>> \/ (IsSeq(s.teams) /\ DOMAIN s.teams = DOMAIN s.docs /\ None \notin Range(s.teams))
  BY <1>1, <1>3, ShownIs
<1>5. user.clicks \subseteq DOMAIN s.docs
  BY <1>1, <1>3, <1>4, UserClicksShown
<1>6. /\ page.request = p.request /\ page.clicks = user.clicks /\ page.docs = s.docs /\ page.teams = s.teams
      /\ page.variant = s.variant /\ page.experiment = s.experiment
  BY ONLY <1>2
<1>7. ServedWell(page)
  BY ONLY <1>3, <1>4, <1>5, <1>6 DEF ServedWell
<1>8. QED
  BY <1>1, <1>6, <1>7
-----------------------------------------------------------------------------
(* The experiment's log: the pages put together from what arrived. *)

\* The ranks of a request's events of a type, and the page that is put together
\* from events A of a page p: the teams as served, at the ranks that arrived.
Logged(A, r, type) == {e.rank : e \in {f \in A : f.request = r /\ f.type = type}}
Abandoned(A, r) == \E e \in A : e.request = r /\ e.type = "abandon"
TeamsOn(p, K) == IF p.teams = <<>> THEN NoMap ELSE [k \in K |-> p.teams[k]]
AsPage(p, shown, clicks, left) ==
    [session |-> p.session, experiment |-> p.experiment, variant |-> p.variant, ranks |-> shown,
     teams |-> TeamsOn(p, shown \cup clicks), clicked |-> clicks, abandoned |-> left]
ParsedPage(p, A) ==
    AsPage(p, Logged(A, p.request, "impression"), Logged(A, p.request, "click"), Abandoned(A, p.request))
PageAt(S, r) == CHOOSE q \in S : q.request = r
ParsedLog(S, A) == [r \in {e.request : e \in A} |-> ParsedPage(PageAt(S, r), A)]

\* An event of a page, and what the analyser does with it.
EventOf(p, type, r) ==
    [type |-> type, request |-> p.request, session |-> p.session, experiment |-> p.experiment,
     variant |-> p.variant, rank |-> r, team |-> IF r = 0 \/ p.teams = <<>> THEN None ELSE p.teams[r]]
Sent(p, type, r) ==
    \/ type \in {"query", "abandon"} /\ r = 0
    \/ type = "impression" /\ r \in DOMAIN p.docs
    \/ type \in {"click", "dwell"} /\ r \in p.clicks
LEMMA EventsAre ==
    ASSUME NEW p
    PROVE  impression_events(p)
             = {EventOf(p, "query", 0)} \cup {EventOf(p, "impression", r) : r \in DOMAIN p.docs}
               \cup {EventOf(p, type, r) : type \in {"click", "dwell"}, r \in p.clicks}
               \cup (IF p.clicks = {} THEN {EventOf(p, "abandon", 0)} ELSE {})
BY DEF impression_events, EventOf
LEMMA EventIs ==
    ASSUME NEW p, NEW e \in impression_events(p)
    PROVE  \E type, r : e = EventOf(p, type, r) /\ Sent(p, type, r)
<1>1. \/ e = EventOf(p, "query", 0) \/ e = EventOf(p, "abandon", 0)
      \/ \E r \in DOMAIN p.docs : e = EventOf(p, "impression", r)
      \/ \E type \in {"click", "dwell"} : \E r \in p.clicks : e = EventOf(p, type, r)
  BY EventsAre
<1>2. QED
  BY <1>1 DEF Sent
LEMMA EventFields ==
    ASSUME NEW p, NEW type, NEW r, NEW e, e = EventOf(p, type, r)
    PROVE  /\ e.type = type /\ e.request = p.request /\ e.session = p.session /\ e.experiment = p.experiment
           /\ e.variant = p.variant /\ e.rank = r
           /\ e.team = IF r = 0 \/ p.teams = <<>> THEN None ELSE p.teams[r]
<1>1. PICK t : t = IF r = 0 \/ p.teams = <<>> THEN None ELSE p.teams[r]
  OBVIOUS
<1>2. e = [type |-> type, request |-> p.request, session |-> p.session, experiment |-> p.experiment,
           variant |-> p.variant, rank |-> r, team |-> t]
  BY <1>1 DEF EventOf
<1>3. QED
  BY ONLY <1>1, <1>2

\* An event puts the page into its experiment, once.
LEMMA NewIsEnrolled ==
    ASSUME NEW p, ServedWell(p), NEW type, NEW r, NEW e, e = EventOf(p, type, r)
    PROVE  Enrol(NewPage(e), e) = AsPage(p, {}, {}, FALSE)
<1>1. PICK page : page = NewPage(e)
  OBVIOUS
<1>2. page = [session |-> p.session, experiment |-> None, variant |-> None, ranks |-> {},
              teams |-> NoMap, clicked |-> {}, abandoned |-> FALSE]
  <2>1. e.session = p.session
    BY EventFields
  <2>2. QED
    BY ONLY <1>1, <2>1 DEF NewPage
<1>3. TeamsOn(p, {} \cup {}) = NoMap
  BY DEF TeamsOn, NoMap
<1>4. AsPage(p, {}, {}, FALSE)
        = [session |-> p.session, experiment |-> p.experiment, variant |-> p.variant, ranks |-> {},
           teams |-> NoMap, clicked |-> {}, abandoned |-> FALSE]
  BY ONLY <1>3 DEF AsPage
<1>5. e.experiment = p.experiment /\ e.variant = p.variant
  BY EventFields
<1>6. CASE p.experiment # None
  <2>1. Enrol(page, e) = [page EXCEPT !.experiment = p.experiment, !.variant = p.variant]
    BY <1>2, <1>5, <1>6 DEF Enrol
  <2>2. PICK x, v : x = p.experiment /\ v = p.variant
    OBVIOUS
  <2>3. [page EXCEPT !.experiment = x, !.variant = v]
          = [session |-> p.session, experiment |-> x, variant |-> v, ranks |-> {},
             teams |-> NoMap, clicked |-> {}, abandoned |-> FALSE]
    <3>1. PICK none, nothing : none = NoMap /\ nothing = {}
      OBVIOUS
    <3>2. PICK s : s = p.session
      OBVIOUS
    <3>a. PICK no \in BOOLEAN : no = FALSE
      OBVIOUS
    <3>3. page = [session |-> s, experiment |-> None, variant |-> None, ranks |-> nothing,
                  teams |-> none, clicked |-> nothing, abandoned |-> no]
      BY ONLY <1>2, <3>1, <3>2, <3>a
    <3>4. [page EXCEPT !.experiment = x]
            = [session |-> s, experiment |-> x, variant |-> None, ranks |-> nothing,
               teams |-> none, clicked |-> nothing, abandoned |-> no]
      BY ONLY <3>3
    <3>b. PICK mid : mid = [page EXCEPT !.experiment = x]
      OBVIOUS
    <3>e. mid = [session |-> s, experiment |-> x, variant |-> None, ranks |-> nothing,
                 teams |-> none, clicked |-> nothing, abandoned |-> no]
      BY ONLY <3>4, <3>b
    <3>c. [mid EXCEPT !.variant = v]
            = [session |-> s, experiment |-> x, variant |-> v, ranks |-> nothing,
               teams |-> none, clicked |-> nothing, abandoned |-> no]
      BY ONLY <3>e
    <3>d. [page EXCEPT !.experiment = x, !.variant = v] = [mid EXCEPT !.variant = v]
      BY ONLY <3>b
    <3>5. QED
      BY ONLY <3>1, <3>2, <3>a, <3>c, <3>d
  <2>4. Enrol(page, e) = [page EXCEPT !.experiment = x, !.variant = v]
    BY ONLY <2>1, <2>2
  <2>5. AsPage(p, {}, {}, FALSE)
          = [session |-> p.session, experiment |-> x, variant |-> v, ranks |-> {},
             teams |-> NoMap, clicked |-> {}, abandoned |-> FALSE]
    BY ONLY <1>4, <2>2
  <2>6. QED
    BY ONLY <1>1, <2>3, <2>4, <2>5
<1>7. CASE p.experiment = None
  <2>1. Enrol(page, e) = page
    BY <1>5, <1>7 DEF Enrol
  <2>2. p.experiment = None /\ p.variant = None
    BY <1>7 DEF ServedWell
  <2>3. AsPage(p, {}, {}, FALSE) = page
    BY ONLY <1>2, <1>4, <2>2
  <2>4. QED
    BY ONLY <1>1, <2>1, <2>3
<1>8. QED
  BY <1>6, <1>7
LEMMA KnownIsEnrolled ==
    ASSUME NEW p, NEW type, NEW r, NEW e, e = EventOf(p, type, r), NEW shown, NEW clicks, NEW left
    PROVE  Enrol(AsPage(p, shown, clicks, left), e) = AsPage(p, shown, clicks, left)
<1>1. PICK page : page = AsPage(p, shown, clicks, left)
  OBVIOUS
<1>2. page.experiment = p.experiment
  BY <1>1 DEF AsPage
<1>3. e.experiment = p.experiment
  BY EventFields
<1>4. QED
  BY <1>1, <1>2, <1>3 DEF Enrol
Entered(page, e) ==
    LET team == IF e.team = None THEN NoMap ELSE Put(NoMap, e.rank, e.team)
        ranked == e.type \in {"impression", "click", "dwell"}
    IN  CASE ranked /\ e.rank = 0     -> page
          [] e.type = "impression"    -> [page EXCEPT !.ranks = @ \cup {e.rank}, !.teams = Over(team, @)]
          [] e.type = "click"         -> [page EXCEPT !.clicked = @ \cup {e.rank}, !.teams = Over(@, team)]
          [] e.type = "abandon"       -> [page EXCEPT !.abandoned = TRUE]
          [] OTHER                    -> page
KnownPage(pages, e) == IF e.request \in DOMAIN pages THEN pages[e.request] ELSE NewPage(e)
LEMMA ReadEventIs ==
    ASSUME NEW pages, NEW e
    PROVE  ReadEvent(pages, e)
             = IF e.type \notin EventTypes \/ e.request = None THEN pages
               ELSE Put(pages, e.request, Entered(Enrol(KnownPage(pages, e), e), e))
BY Zenon DEF ReadEvent, Entered, KnownPage

\* The team of an event joins those of the page.
LEMMA TeamJoins ==
    ASSUME NEW p, ServedWell(p), NEW r \in DOMAIN p.docs, NEW K, NEW more, more = K \cup {r}, NEW t,
           t = IF p.teams = <<>> THEN None ELSE p.teams[r],
           NEW team, team = IF t = None THEN NoMap ELSE Put(NoMap, r, t)
    PROVE  Over(team, TeamsOn(p, K)) = TeamsOn(p, more) /\ Over(TeamsOn(p, K), team) = TeamsOn(p, more)
<1>1. CASE p.teams = <<>>
  <2>1. team = [x \in {} |-> None] /\ TeamsOn(p, K) = [x \in {} |-> None] /\ TeamsOn(p, more) = [x \in {} |-> None]
    BY <1>1 DEF TeamsOn, NoMap
  <2>2. Over(team, TeamsOn(p, K)) = [x \in {} |-> None] /\ Over(TeamsOn(p, K), team) = [x \in {} |-> None]
    BY <2>1 DEF Over
  <2>3. QED
    BY <2>1, <2>2
<1>2. CASE p.teams # <<>>
  <2>1. t = p.teams[r] /\ t # None
    BY <1>2 DEF ServedWell, IsSeq, Range
  <2>2. team = [x \in {r} |-> p.teams[x]]
    <3>1. NoMap = [x \in {} |-> None]
      BY DEF NoMap
    <3>2. team = Put(NoMap, r, t)
      BY <2>1
    <3>3. Put(NoMap, r, t) = [x \in {r} |-> t]
      BY <3>1 DEF Put, Over
    <3>4. QED
      BY <2>1, <3>2, <3>3
  <2>3. TeamsOn(p, K) = [x \in K |-> p.teams[x]] /\ TeamsOn(p, more) = [x \in K \cup {r} |-> p.teams[x]]
    BY <1>2 DEF TeamsOn
  <2>4. QED
    BY <2>2, <2>3 DEF Over
<1>3. QED
  BY <1>1, <1>2

\* What an event adds to a page.
LEMMA EventEntered ==
    ASSUME NEW p, ServedWell(p), NEW type, NEW r, Sent(p, type, r), NEW e, e = EventOf(p, type, r),
           NEW shown, NEW clicks, NEW left \in BOOLEAN,
           NEW newShown, newShown = IF type = "impression" THEN shown \cup {r} ELSE shown,
           NEW newClicks, newClicks = IF type = "click" THEN clicks \cup {r} ELSE clicks,
           NEW newLeft, newLeft = (left \/ type = "abandon")
    PROVE  Entered(AsPage(p, shown, clicks, left), e) = AsPage(p, newShown, newClicks, newLeft)
<1>1. PICK page : page = AsPage(p, shown, clicks, left)
  OBVIOUS
<1>2. PICK teams : teams = TeamsOn(p, shown \cup clicks)
  OBVIOUS
<1>3. page = [session |-> p.session, experiment |-> p.experiment, variant |-> p.variant, ranks |-> shown,
              teams |-> teams, clicked |-> clicks, abandoned |-> left]
  BY <1>1, <1>2 DEF AsPage
<1>4. PICK team : team = IF e.team = None THEN NoMap ELSE Put(NoMap, e.rank, e.team)
  OBVIOUS
<1>5. Entered(page, e)
        = CASE e.type \in {"impression", "click", "dwell"} /\ e.rank = 0 -> page
            [] e.type = "impression"    -> [page EXCEPT !.ranks = @ \cup {e.rank}, !.teams = Over(team, @)]
            [] e.type = "click"         -> [page EXCEPT !.clicked = @ \cup {e.rank}, !.teams = Over(@, team)]
            [] e.type = "abandon"       -> [page EXCEPT !.abandoned = TRUE]
            [] OTHER                    -> page
  BY Zenon, <1>4 DEF Entered
<1>6. e.type = type /\ e.rank = r /\ e.team = IF r = 0 \/ p.teams = <<>> THEN None ELSE p.teams[r]
  BY EventFields
<1>7. r # 0 \/ type \in {"query", "abandon"}
  <2>1. 0 \notin DOMAIN p.docs
    BY SeqIs DEF ServedWell
  <2>2. QED
    BY <2>1 DEF Sent, ServedWell
<1>8. type \in {"impression", "click"} =>
         /\ Over(team, teams) = TeamsOn(p, shown \cup clicks \cup {r})
         /\ Over(teams, team) = TeamsOn(p, shown \cup clicks \cup {r})
  <2>1. SUFFICES ASSUME type \in {"impression", "click"}
                 PROVE  /\ Over(team, teams) = TeamsOn(p, shown \cup clicks \cup {r})
                        /\ Over(teams, team) = TeamsOn(p, shown \cup clicks \cup {r})
    OBVIOUS
  <2>2. r \in DOMAIN p.docs
    BY <2>1 DEF Sent, ServedWell
  <2>3. e.team = IF p.teams = <<>> THEN None ELSE p.teams[r]
    BY <1>6, <1>7, <2>1
  <2>4. team = IF e.team = None THEN NoMap ELSE Put(NoMap, r, e.team)
    BY <1>4, <1>6
  <2>5. PICK K, more, t : K = shown \cup clicks /\ more = K \cup {r} /\ t = e.team
    OBVIOUS
  <2>6. Over(team, TeamsOn(p, K)) = TeamsOn(p, more) /\ Over(TeamsOn(p, K), team) = TeamsOn(p, more)
    BY ONLY <2>5, ServedWell(p), <2>2, <2>3, <2>4, TeamJoins
  <2>7. QED
    BY ONLY <1>2, <2>5, <2>6
<1>9. CASE type = "impression"
  <2>1. Entered(page, e) = [page EXCEPT !.ranks = @ \cup {r}, !.teams = Over(team, @)]
    BY ONLY <1>5, <1>6, <1>7, <1>9
  <2>2. (shown \cup {r}) \cup clicks = shown \cup clicks \cup {r}
    OBVIOUS
  <2>3. AsPage(p, shown \cup {r}, clicks, left)
          = [session |-> p.session, experiment |-> p.experiment, variant |-> p.variant, ranks |-> shown \cup {r},
             teams |-> Over(team, teams), clicked |-> clicks, abandoned |-> left]
    BY <1>8, <1>9, <2>2 DEF AsPage
  <2>4. Entered(page, e) = AsPage(p, shown \cup {r}, clicks, left)
    BY ONLY <1>3, <2>1, <2>3
  <2>5. newLeft = left /\ AsPage(p, newShown, newClicks, newLeft) = AsPage(p, shown \cup {r}, clicks, left)
    BY <1>9
  <2>6. QED
    BY ONLY <1>1, <2>4, <2>5
<1>10. CASE type = "click"
  <2>1. Entered(page, e) = [page EXCEPT !.clicked = @ \cup {r}, !.teams = Over(@, team)]
    BY ONLY <1>5, <1>6, <1>7, <1>10
  <2>2. shown \cup (clicks \cup {r}) = shown \cup clicks \cup {r}
    OBVIOUS
  <2>3. AsPage(p, shown, clicks \cup {r}, left)
          = [session |-> p.session, experiment |-> p.experiment, variant |-> p.variant, ranks |-> shown,
             teams |-> Over(teams, team), clicked |-> clicks \cup {r}, abandoned |-> left]
    BY <1>8, <1>10, <2>2 DEF AsPage
  <2>4. Entered(page, e) = AsPage(p, shown, clicks \cup {r}, left)
    BY ONLY <1>3, <2>1, <2>3
  <2>5. newLeft = left /\ AsPage(p, newShown, newClicks, newLeft) = AsPage(p, shown, clicks \cup {r}, left)
    BY <1>10
  <2>6. QED
    BY ONLY <1>1, <2>4, <2>5
<1>11. CASE type = "abandon"
  <2>1. Entered(page, e) = [page EXCEPT !.abandoned = TRUE]
    BY ONLY <1>5, <1>6, <1>11
  <2>2. AsPage(p, shown, clicks, TRUE)
          = [session |-> p.session, experiment |-> p.experiment, variant |-> p.variant, ranks |-> shown,
             teams |-> teams, clicked |-> clicks, abandoned |-> TRUE]
    BY <1>2 DEF AsPage
  <2>3. Entered(page, e) = AsPage(p, shown, clicks, TRUE)
    BY ONLY <1>3, <2>1, <2>2
  <2>4. newLeft = TRUE /\ AsPage(p, newShown, newClicks, newLeft) = AsPage(p, shown, clicks, TRUE)
    BY <1>11
  <2>5. QED
    BY ONLY <1>1, <2>3, <2>4
<1>12. CASE type \in {"query", "dwell"}
  <2>1. Entered(page, e) = page
    BY ONLY <1>5, <1>6, <1>7, <1>12
  <2>2. newLeft = left /\ AsPage(p, newShown, newClicks, newLeft) = AsPage(p, shown, clicks, left)
    BY <1>12
  <2>3. QED
    BY ONLY <1>1, <2>1, <2>2
<1>13. QED
  BY <1>9, <1>10, <1>11, <1>12 DEF Sent

\* What an event adds to the log.
LEMMA LoggedMore ==
    ASSUME NEW A, NEW e, NEW B, B = A \cup {e}, NEW x, NEW kind, e.request = x, e.type = kind
    PROVE  Logged(B, x, kind) = Logged(A, x, kind) \cup {e.rank}
<1>1. {f \in B : f.request = x /\ f.type = kind} = {f \in A : f.request = x /\ f.type = kind} \cup {e}
  OBVIOUS
<1>2. QED
  BY <1>1 DEF Logged
LEMMA LoggedSame ==
    ASSUME NEW A, NEW e, NEW B, B = A \cup {e}, NEW x, NEW kind, e.request # x \/ e.type # kind
    PROVE  Logged(B, x, kind) = Logged(A, x, kind)
<1>1. {f \in B : f.request = x /\ f.type = kind} = {f \in A : f.request = x /\ f.type = kind}
  OBVIOUS
<1>2. QED
  BY <1>1 DEF Logged
LEMMA PageGrows ==
    ASSUME NEW p, ServedWell(p), NEW e \in impression_events(p), NEW A
    PROVE  Entered(ParsedPage(p, A), e) = ParsedPage(p, A \cup {e})
<1>1. PICK type, r : e = EventOf(p, type, r) /\ Sent(p, type, r)
  BY EventIs
<1>2. e.type = type /\ e.rank = r /\ e.request = p.request
  BY <1>1, EventFields
<1>3. PICK shown, clicks, left :
        /\ shown = Logged(A, p.request, "impression") /\ clicks = Logged(A, p.request, "click")
        /\ left = Abandoned(A, p.request)
  OBVIOUS
<1> DEFINE newShown == IF type = "impression" THEN shown \cup {r} ELSE shown
           newClicks == IF type = "click" THEN clicks \cup {r} ELSE clicks
           newLeft == left \/ type = "abandon"
<1>a. PICK B : B = A \cup {e}
  OBVIOUS
<1>4. Logged(B, p.request, "impression") = newShown
  <2>1. type = "impression" => Logged(B, p.request, "impression") = shown \cup {r}
    <3>1. SUFFICES ASSUME type = "impression" PROVE Logged(B, p.request, "impression") = shown \cup {r}
      OBVIOUS
    <3>2. PICK x, kind : x = p.request /\ kind = "impression"
      OBVIOUS
    <3>3. e.request = x /\ e.type = kind
      BY ONLY <1>2, <3>1, <3>2
    <3>4. Logged(B, x, kind) = Logged(A, x, kind) \cup {e.rank}
      BY ONLY <1>a, <3>3, LoggedMore
    <3>5. QED
      BY ONLY <1>2, <1>3, <3>2, <3>4
  <2>2. type # "impression" => Logged(B, p.request, "impression") = shown
    BY ONLY <1>2, <1>3, <1>a, LoggedSame
  <2>3. QED
    BY ONLY <2>1, <2>2
<1>5. Logged(B, p.request, "click") = newClicks
  <2>1. type = "click" => Logged(B, p.request, "click") = clicks \cup {r}
    BY ONLY <1>2, <1>3, <1>a, LoggedMore
  <2>2. type # "click" => Logged(B, p.request, "click") = clicks
    BY ONLY <1>2, <1>3, <1>a, LoggedSame
  <2>3. QED
    BY ONLY <2>1, <2>2
<1>6. Abandoned(B, p.request) = newLeft
  BY ONLY <1>2, <1>3, <1>a DEF Abandoned
<1>7. left \in BOOLEAN
  BY <1>3 DEF Abandoned
<1>8. ParsedPage(p, A) = AsPage(p, shown, clicks, left)
  BY ONLY <1>3 DEF ParsedPage
<1>9. ParsedPage(p, B) = AsPage(p, newShown, newClicks, newLeft)
  BY ONLY <1>4, <1>5, <1>6 DEF ParsedPage
<1>10. Entered(AsPage(p, shown, clicks, left), e) = AsPage(p, newShown, newClicks, newLeft)
  <2>1. \A s2, c2, l2 : s2 = newShown /\ c2 = newClicks /\ l2 = newLeft
           => Entered(AsPage(p, shown, clicks, left), e) = AsPage(p, s2, c2, l2)
    BY ONLY ServedWell(p), <1>1, <1>7, EventEntered
  <2> HIDE DEF newShown, newClicks, newLeft
  <2>2. QED
    BY ONLY <2>1
<1> HIDE DEF newShown, newClicks, newLeft
<1>11. QED
  BY ONLY <1>a, <1>8, <1>9, <1>10

\* Distinct pages, that were served, and events of theirs.
Distinct(S) == \A p \in S : ServedWell(p) /\ \A q \in S : q.request = p.request => q = p
LEMMA PageIsFound == ASSUME NEW S, Distinct(S), NEW p \in S PROVE PageAt(S, p.request) = p
BY DEF PageAt, Distinct
LEMMA LogGrows ==
    ASSUME NEW S, Distinct(S), NEW A, A \subseteq UNION {impression_events(q) : q \in S},
           NEW p \in S, NEW e \in impression_events(p)
    PROVE  ReadEvent(ParsedLog(S, A), e) = ParsedLog(S, A \cup {e})
<1>1. ServedWell(p) /\ PageAt(S, p.request) = p
  BY PageIsFound DEF Distinct
<1>2. PICK type, r : e = EventOf(p, type, r) /\ Sent(p, type, r)
  BY EventIs
<1>3. e.type = type /\ e.request = p.request /\ p.request # None
  BY <1>1, <1>2, EventFields DEF ServedWell
<1>4. e.type \in EventTypes
  BY <1>2, <1>3 DEF Sent, EventTypes
<1>5. PICK log : log = ParsedLog(S, A)
  OBVIOUS
<1>6. log = [x \in {f.request : f \in A} |-> ParsedPage(PageAt(S, x), A)]
  BY ONLY <1>5 DEF ParsedLog
<1>7. Enrol(KnownPage(log, e), e) = ParsedPage(p, A)
  <2>1. ParsedPage(p, A) = AsPage(p, Logged(A, p.request, "impression"), Logged(A, p.request, "click"), Abandoned(A, p.request))
    BY ONLY TRUE DEF ParsedPage
  <2>2. CASE p.request \in DOMAIN log
    <3>1. KnownPage(log, e) = ParsedPage(p, A)
      BY <1>1, <1>3, <1>6, <2>2 DEF KnownPage
    <3>2. QED
      BY <1>2, <2>1, <3>1, KnownIsEnrolled
  <2>3. CASE p.request \notin DOMAIN log
    <3>1. KnownPage(log, e) = NewPage(e)
      BY <1>3, <2>3 DEF KnownPage
    <3>2. \A f \in A : f.request # p.request
      BY <1>6, <2>3
    <3>3. Logged(A, p.request, "impression") = {} /\ Logged(A, p.request, "click") = {} /\ Abandoned(A, p.request) = FALSE
      BY <3>2 DEF Logged, Abandoned
    <3>4. QED
      BY <1>1, <1>2, <2>1, <3>1, <3>3, NewIsEnrolled
  <2>4. QED
    BY <2>2, <2>3
<1>8. ReadEvent(log, e) = Put(log, p.request, ParsedPage(p, A \cup {e}))
  <2>1. Entered(ParsedPage(p, A), e) = ParsedPage(p, A \cup {e})
    BY <1>1, PageGrows
  <2>2. QED
    BY <1>3, <1>4, <1>7, <2>1, ReadEventIs
<1>9. Put(log, p.request, ParsedPage(p, A \cup {e}))
        = [x \in DOMAIN log \cup {p.request} |-> IF x = p.request THEN ParsedPage(p, A \cup {e}) ELSE log[x]]
  BY DEF Put, Over
<1>10. DOMAIN log \cup {p.request} = {f.request : f \in A \cup {e}}
  BY <1>3, <1>6
<1>11. \A x \in DOMAIN log : x # p.request => log[x] = ParsedPage(PageAt(S, x), A \cup {e})
  <2>1. SUFFICES ASSUME NEW x \in DOMAIN log, x # p.request PROVE log[x] = ParsedPage(PageAt(S, x), A \cup {e})
    OBVIOUS
  <2>2. PICK f \in A : f.request = x
    BY <1>6
  <2>3. PICK q \in S : f \in impression_events(q)
    OBVIOUS
  <2>4. q.request = x
    BY <2>2, <2>3, EventIs, EventFields
  <2>5. PageAt(S, x) = q
    BY <2>4, PageIsFound
  <2>6. Logged(A \cup {e}, x, "impression") = Logged(A, x, "impression")
        /\ Logged(A \cup {e}, x, "click") = Logged(A, x, "click")
    <3>1. \A B, kind : B = A \cup {e} => Logged(B, x, kind) = Logged(A, x, kind)
      BY ONLY <1>3, <2>1, LoggedSame
    <3>2. QED
      BY ONLY <3>1
  <2>7. Abandoned(A \cup {e}, x) = Abandoned(A, x)
    BY <1>3, <2>1 DEF Abandoned
  <2>8. ParsedPage(q, A \cup {e}) = ParsedPage(q, A)
    BY ONLY <2>4, <2>6, <2>7 DEF ParsedPage
  <2>9. log[x] = ParsedPage(PageAt(S, x), A)
    BY <1>6
  <2>10. QED
    BY <2>5, <2>8, <2>9
<1>12. ParsedLog(S, A \cup {e}) = [x \in {f.request : f \in A \cup {e}} |-> ParsedPage(PageAt(S, x), A \cup {e})]
  BY ONLY TRUE DEF ParsedLog
<1>13. QED
  <2>1. PICK new : new = A \cup {e}
    OBVIOUS
  <2>2. PICK page : page = ParsedPage(p, new)
    OBVIOUS
  <2>3. PageAt(S, p.request) = p
    BY <1>1
  <2>4. ReadEvent(log, e) = [x \in DOMAIN log \cup {p.request} |-> IF x = p.request THEN page ELSE log[x]]
    BY ONLY <1>8, <1>9, <2>1, <2>2
  <2>5. ParsedLog(S, new) = [x \in DOMAIN log \cup {p.request} |-> ParsedPage(PageAt(S, x), new)]
    BY ONLY <1>10, <1>12, <2>1
  <2>6. \A x \in DOMAIN log \cup {p.request} :
           ParsedPage(PageAt(S, x), new) = IF x = p.request THEN page ELSE log[x]
    BY ONLY <1>11, <2>1, <2>2, <2>3
  <2>7. QED
    BY ONLY <1>5, <2>1, <2>4, <2>5, <2>6

-----------------------------------------------------------------------------
(* The experiment's log: every step keeps it, and the report follows it. *)

EventsOf(S) == UNION {impression_events(p) : p \in S}
LogInv ==
    study = "experiment" =>
        /\ Distinct(served) /\ arrived \subseteq EventsOf(served)
        /\ parsed = ParsedLog(served, arrived)
        /\ input = <<>> => served = {}
LEMMA NothingLogged == \A S : ParsedLog(S, {}) = NoMap
BY DEF ParsedLog, NoMap
LEMMA InitLogInv == Init => LogInv
<1> SUFFICES ASSUME Init PROVE LogInv
  OBVIOUS
<1>1. served = {} /\ arrived = {} /\ parsed = NoMap
  BY DEF Init
<1>2. Distinct(served) /\ arrived \subseteq EventsOf(served)
  BY <1>1 DEF Distinct
<1>3. QED
  BY <1>1, <1>2, NothingLogged DEF LogInv
LEMMA SimulateLogInv == LogInv /\ Simulate => LogInv'
<1> SUFFICES ASSUME LogInv, Simulate PROVE LogInv'
  OBVIOUS
<1>1. served = {} /\ arrived = {}
  BY DEF LogInv, Simulate, EventsOf
<1>2. arrived' = {} /\ parsed' = NoMap
  BY <1>1, NothingLogged DEF LogInv, Simulate
<1>3. PICK i \in ExperimentInputs : input' = <<i>> /\ served' = {Page(i, p) : p \in i.requests}
  BY DEF Simulate, Page
<1>4. Distinct(served')
  <2>1. SUFFICES ASSUME NEW p \in i.requests
                 PROVE  /\ ServedWell(Page(i, p))
                        /\ \A q \in i.requests : Page(i, q).request = Page(i, p).request => Page(i, q) = Page(i, p)
    BY <1>3 DEF Distinct
  <2>2. ServedWell(Page(i, p))
    BY PageIsServedWell
  <2>3. ASSUME NEW q \in i.requests, Page(i, q).request = Page(i, p).request PROVE q = p
    <3>1. q.request = p.request
      BY <2>3, PageIsServedWell
    <3>2. QED
      BY <3>1, LogsAssumption
  <2>4. QED
    BY <2>2, <2>3
<1>5. ParsedLog(served', {}) = NoMap
  BY NothingLogged
<1>6. parsed' = ParsedLog(served', arrived')
  BY <1>2, <1>5
<1>7. input' # <<>>
  BY <1>3
<1>8. QED
  BY <1>2, <1>4, <1>6, <1>7 DEF LogInv
LEMMA ArriveLogInv == LogInv /\ Arrive => LogInv'
<1> SUFFICES ASSUME LogInv, Arrive PROVE LogInv'
  OBVIOUS
<1>1. /\ Distinct(served) /\ arrived \subseteq EventsOf(served)
      /\ parsed = ParsedLog(served, arrived) /\ (input = <<>> => served = {})
      /\ study' = study /\ served' = served /\ input' = input
  BY DEF LogInv, Arrive
<1>2. PICK p \in served : \E e \in impression_events(p) : arrived' = arrived \cup {e} /\ parsed' = ReadEvent(parsed, e)
  BY DEF Arrive
<1>3. PICK e \in impression_events(p) : arrived' = arrived \cup {e} /\ parsed' = ReadEvent(parsed, e)
  BY <1>2
<1>4. ReadEvent(parsed, e) = ParsedLog(served, arrived \cup {e})
  BY <1>1, LogGrows DEF EventsOf
<1>5. parsed' = ParsedLog(served', arrived')
  BY ONLY <1>1, <1>3, <1>4
<1>6. arrived' \subseteq EventsOf(served')
  BY ONLY <1>1, <1>3 DEF EventsOf
<1>7. Distinct(served')
  BY ONLY <1>1
<1>8. input' = <<>> => served' = {}
  BY ONLY <1>1
<1>9. QED
  BY ONLY <1>5, <1>6, <1>7, <1>8 DEF LogInv
LEMMA LogNextInv == LogInv /\ [Next]_vars => LogInv'
<1> SUFFICES ASSUME LogInv, [Next]_vars PROVE LogInv'
  OBVIOUS
<1>1. ASSUME UNCHANGED logVars, study' = study, study = "experiment" => input' = input PROVE LogInv'
  <2>1. served' = served /\ arrived' = arrived /\ parsed' = parsed
    BY <1>1 DEF logVars
  <2>2. QED
    BY <1>1, <2>1 DEF LogInv
<1>2. CASE UNCHANGED vars
  BY <1>1, <1>2 DEF vars
<1>3. CASE Begin
  BY <1>1, <1>3 DEF Begin, Computations
<1>4. CASE Tune \/ EvaluateHeldOut \/ CompareSystems \/ MakePool \/ BuildSets \/ LogClicks \/ Estimate \/ MineQuery
  BY <1>1, <1>4 DEF Tune, EvaluateHeldOut, CompareSystems, MakePool, BuildSets, LogClicks, Estimate, MineQuery, Step
<1>5. CASE Cells \/ PrepareData \/ EncodeFeature
  BY <1>1, <1>5 DEF Cells, PrepareData, EncodeFeature
<1>6. QED
  BY <1>2, <1>3, <1>4, <1>5, SimulateLogInv, ArriveLogInv DEF Next

\* The ranks that were logged of a page are ranks of it.
LEMMA LoggedOfPage ==
    ASSUME NEW S, Distinct(S), NEW A, A \subseteq EventsOf(S), NEW p \in S, NEW e \in A, e.request = p.request
    PROVE  \E type, r : e = EventOf(p, type, r) /\ Sent(p, type, r)
<1>1. PICK q \in S : e \in impression_events(q)
  BY DEF EventsOf
<1>2. PICK type, r : e = EventOf(q, type, r) /\ Sent(q, type, r)
  BY <1>1, EventIs
<1>3. e.request = q.request
  BY <1>2, EventFields
<1>4. q = p
  BY <1>3 DEF Distinct
<1>5. QED
  BY <1>2, <1>4
LEMMA LoggedShown ==
    ASSUME NEW S, Distinct(S), NEW A, A \subseteq EventsOf(S), NEW p \in S
    PROVE  Logged(A, p.request, "impression") \subseteq DOMAIN p.docs
<1>1. SUFFICES ASSUME NEW e \in A, e.request = p.request, e.type = "impression" PROVE e.rank \in DOMAIN p.docs
  BY DEF Logged
<1>2. PICK type, r : e = EventOf(p, type, r) /\ Sent(p, type, r)
  BY <1>1, LoggedOfPage
<1>3. e.type = type /\ e.rank = r
  BY <1>2, EventFields
<1>4. QED
  BY <1>1, <1>2, <1>3 DEF Sent

CreditedTo(teams, clicks, x) == {p \in clicks : teams[p] = x}
LEMMA CreditIs ==
    ASSUME NEW teams, NEW clicks
    PROVE  team_draft_credit(teams, clicks)
             = Winner(Cardinality(CreditedTo(teams, clicks, "A")), Cardinality(CreditedTo(teams, clicks, "B")))
BY DEF team_draft_credit, CreditedTo
TeamsByPosition(ranks, teams) == [i \in DOMAIN ranks |-> IF ranks[i] \in DOMAIN teams THEN teams[ranks[i]] ELSE None]
LEMMA OutcomeIs ==
    ASSUME NEW page, NEW o, o = InOrder(page.ranks)
    PROVE  PageOutcome(page)
             = team_draft_credit(TeamsByPosition(o, page.teams), {i \in DOMAIN o : o[i] \in page.clicked})
BY Zenon DEF PageOutcome, TeamsByPosition, InOrder
LEMMA CreditFollowsLog ==
    ASSUME NEW p, p.teams # <<>>, NEW shown, IsFiniteSet(shown), shown \subseteq Nat, NEW clicks, NEW left
    PROVE  PageOutcome(AsPage(p, shown, clicks, left)) = team_draft_credit(p.teams, clicks \cap shown)
<1>a. PICK page : page = AsPage(p, shown, clicks, left)
  OBVIOUS
<1>1. PICK o : o = InOrder(shown)
  OBVIOUS
<1>2. IsSeq(o) /\ Range(o) = shown /\ IsInjective(o)
  BY <1>1, Increasing DEF InOrder
<1>3. IsFiniteSet(DOMAIN o) /\ \A i \in DOMAIN o : o[i] \in shown
  <2>1. Len(o) \in Nat /\ DOMAIN o = 1 .. Len(o)
    BY <1>2, SeqIs
  <2>2. IsFiniteSet(DOMAIN o)
    <3>1. PICK n \in Nat : n = Len(o)
      BY <2>1
    <3>2. IsFiniteSet(1 .. n)
      BY FS_Interval
    <3>3. QED
      BY ONLY <2>1, <3>1, <3>2
  <2>3. QED
    BY <1>2, <2>2 DEF Range
<1>4. page.ranks = shown /\ page.clicked = clicks /\ page.teams = [k \in shown \cup clicks |-> p.teams[k]]
  BY <1>a DEF AsPage, TeamsOn
<1>5. PICK placed, at :
        placed = {i \in DOMAIN o : o[i] \in clicks} /\ at = TeamsByPosition(o, page.teams)
  OBVIOUS
<1>6. PageOutcome(page) = team_draft_credit(at, placed)
  BY ONLY <1>1, <1>4, <1>5, OutcomeIs
<1>7. \A i \in DOMAIN o : at[i] = p.teams[o[i]]
  BY <1>3, <1>4, <1>5 DEF TeamsByPosition
<1>8. ASSUME NEW x
      PROVE  Cardinality(CreditedTo(p.teams, clicks \cap shown, x)) = Cardinality(CreditedTo(at, placed, x))
  <2>1. PICK I, T : I = CreditedTo(at, placed, x) /\ T = CreditedTo(p.teams, clicks \cap shown, x)
    OBVIOUS
  <2>2. I \subseteq DOMAIN o
    BY <1>5, <2>1 DEF CreditedTo
  <2>3. T = {o[i] : i \in I}
    <3>1. ASSUME NEW r \in T PROVE r \in {o[i] : i \in I}
      <4>1. r \in clicks /\ r \in shown /\ p.teams[r] = x
        BY <2>1, <3>1 DEF CreditedTo
      <4>2. PICK i \in DOMAIN o : o[i] = r
        BY <1>2, <4>1 DEF Range
      <4>3. i \in I
        BY <1>5, <1>7, <2>1, <4>1, <4>2 DEF CreditedTo
      <4>4. QED
        BY <4>2, <4>3
    <3>2. ASSUME NEW i \in I PROVE o[i] \in T
      BY <1>3, <1>5, <1>7, <2>1, <3>2 DEF CreditedTo
    <3>3. QED
      BY <3>1, <3>2
  <2>4. Cardinality(T) = Cardinality(I)
    BY ONLY <1>2, <1>3, <2>2, <2>3, CountedOnce
  <2>5. QED
    BY <2>1, <2>4
<1>9. Cardinality(CreditedTo(p.teams, clicks \cap shown, "A")) = Cardinality(CreditedTo(at, placed, "A"))
  BY <1>8
<1>10. Cardinality(CreditedTo(p.teams, clicks \cap shown, "B")) = Cardinality(CreditedTo(at, placed, "B"))
  BY <1>8
<1>11. QED
  BY ONLY <1>a, <1>6, <1>9, <1>10, CreditIs

\* When everything has arrived, the pages are those that were served.
TruthOf(p) ==
    [session |-> p.session, experiment |-> p.experiment, variant |-> p.variant, ranks |-> DOMAIN p.docs,
     teams |-> IF p.teams = <<>> THEN NoMap ELSE p.teams, clicked |-> p.clicks, abandoned |-> p.clicks = {}]
LEMMA AsServedIs == \A S : AsServed(S) = [r \in {p.request : p \in S} |-> TruthOf(PageAt(S, r))]
BY Zenon DEF AsServed, TruthOf, PageAt
LEMMA EventIsSent ==
    ASSUME NEW p, NEW type, NEW r, Sent(p, type, r), type = "abandon" => p.clicks = {}
    PROVE  EventOf(p, type, r) \in impression_events(p)
<1>1. PICK e : e = EventOf(p, type, r)
  OBVIOUS
<1>2. \/ type \in {"query", "abandon"} /\ r = 0 /\ e = EventOf(p, type, 0)
      \/ type = "impression" /\ r \in DOMAIN p.docs /\ e = EventOf(p, "impression", r)
      \/ type \in {"click", "dwell"} /\ r \in p.clicks
  BY <1>1 DEF Sent
<1>3. CASE type \in {"query", "abandon"}
  BY <1>1, <1>2, <1>3, EventsAre
<1>4. CASE type = "impression"
  BY <1>1, <1>2, <1>4, EventsAre
<1>5. CASE type \in {"click", "dwell"}
  BY <1>1, <1>2, <1>5, EventsAre
<1>6. QED
  BY <1>2, <1>3, <1>4, <1>5
LEMMA AllLogged ==
    ASSUME NEW S, Distinct(S), NEW A, A = EventsOf(S), NEW p \in S
    PROVE  /\ Logged(A, p.request, "impression") = DOMAIN p.docs
           /\ Logged(A, p.request, "click") = p.clicks
           /\ Abandoned(A, p.request) = (p.clicks = {})
<1>1. \A e \in impression_events(p) : e \in A
  BY DEF EventsOf
<1>2. ASSUME NEW type, NEW r, Sent(p, type, r), type = "abandon" => p.clicks = {}
      PROVE  \E e \in A : e.request = p.request /\ e.type = type /\ e.rank = r
  <2>1. PICK e : e = EventOf(p, type, r)
    OBVIOUS
  <2>2. e \in A
    BY <1>1, <1>2, <2>1, EventIsSent
  <2>3. QED
    BY <2>1, <2>2, EventFields
<1>3. ASSUME NEW e \in A, e.request = p.request
      PROVE  Sent(p, e.type, e.rank) /\ (e.type = "abandon" => p.clicks = {})
  <2>1. PICK type, r : e = EventOf(p, type, r) /\ Sent(p, type, r)
    BY <1>3, LoggedOfPage
  <2>2. e.type = type /\ e.rank = r
    BY <2>1, EventFields
  <2>3. e.type = "abandon" => p.clicks = {}
    <3>1. SUFFICES ASSUME e.type = "abandon" PROVE p.clicks = {}
      OBVIOUS
    <3>2. PICK q \in S : e \in impression_events(q)
      BY DEF EventsOf
    <3>3. q = p
      <4>1. PICK t, k : e = EventOf(q, t, k)
        BY <3>2, EventIs
      <4>2. e.request = q.request
        BY <4>1, EventFields
      <4>3. QED
        BY <1>3, <4>2 DEF Distinct
    <3>4. \/ e = EventOf(p, "query", 0) \/ (p.clicks = {} /\ e = EventOf(p, "abandon", 0))
          \/ \E k \in DOMAIN p.docs : e = EventOf(p, "impression", k)
          \/ \E t \in {"click", "dwell"} : \E k \in p.clicks : e = EventOf(p, t, k)
      BY <3>2, <3>3, EventsAre
    <3>5. \A t, k : e = EventOf(p, t, k) => t = "abandon"
      BY <3>1, EventFields
    <3>6. QED
      BY <3>4, <3>5
  <2>4. QED
    BY <2>1, <2>2, <2>3
<1>4. Logged(A, p.request, "impression") = DOMAIN p.docs
  <2>1. ASSUME NEW r \in DOMAIN p.docs PROVE r \in Logged(A, p.request, "impression")
    BY <1>2 DEF Sent, Logged
  <2>2. ASSUME NEW e \in A, e.request = p.request, e.type = "impression" PROVE e.rank \in DOMAIN p.docs
    BY <1>3, <2>2 DEF Sent
  <2>3. QED
    BY <2>1, <2>2 DEF Logged
<1>5. Logged(A, p.request, "click") = p.clicks
  <2>1. ASSUME NEW r \in p.clicks PROVE r \in Logged(A, p.request, "click")
    BY <1>2 DEF Sent, Logged
  <2>2. ASSUME NEW e \in A, e.request = p.request, e.type = "click" PROVE e.rank \in p.clicks
    BY <1>3, <2>2 DEF Sent
  <2>3. QED
    BY <2>1, <2>2 DEF Logged
<1>6. Abandoned(A, p.request) <=> p.clicks = {}
  <2>1. ASSUME p.clicks = {} PROVE Abandoned(A, p.request)
    BY <1>2, <2>1 DEF Sent, Abandoned
  <2>2. QED
    BY <1>3, <2>1 DEF Abandoned
<1>7. QED
  BY <1>4, <1>5, <1>6 DEF Abandoned
LEMMA CompleteLog ==
    ASSUME NEW S, Distinct(S), NEW A, A = EventsOf(S)
    PROVE  ParsedLog(S, A) = AsServed(S)
<1>1. {e.request : e \in A} = {p.request : p \in S}
  <2>1. ASSUME NEW p \in S PROVE p.request \in {e.request : e \in A}
    <3>1. PICK e : e = EventOf(p, "query", 0)
      OBVIOUS
    <3>2. e \in impression_events(p)
      BY <3>1, EventIsSent DEF Sent
    <3>3. e \in A /\ e.request = p.request
      BY <3>1, <3>2, EventFields DEF EventsOf
    <3>4. QED
      BY <3>3
  <2>2. ASSUME NEW e \in A PROVE e.request \in {p.request : p \in S}
    <3>1. PICK q \in S : e \in impression_events(q)
      BY DEF EventsOf
    <3>2. e.request = q.request
      BY <3>1, EventIs, EventFields
    <3>3. QED
      BY <3>2
  <2>3. QED
    BY <2>1, <2>2
<1>2. ASSUME NEW p \in S PROVE ParsedPage(p, A) = TruthOf(p)
  <2>1. PICK shown, clicks, left :
          shown = DOMAIN p.docs /\ clicks = p.clicks /\ left = (p.clicks = {})
    OBVIOUS
  <2>2. ParsedPage(p, A) = AsPage(p, shown, clicks, left)
    BY AllLogged, <2>1 DEF ParsedPage
  <2>3. TeamsOn(p, shown \cup clicks) = IF p.teams = <<>> THEN NoMap ELSE p.teams
    <3>1. ServedWell(p)
      BY DEF Distinct
    <3>2. shown \cup clicks = shown
      BY <2>1, <3>1 DEF ServedWell
    <3>3. p.teams # <<>> => p.teams = [k \in shown |-> p.teams[k]]
      BY <2>1, <3>1, SeqIs DEF ServedWell
    <3>4. QED
      BY <3>2, <3>3 DEF TeamsOn
  <2>4. QED
    BY ONLY <2>1, <2>2, <2>3 DEF AsPage, TruthOf
<1>3. \A r \in {p.request : p \in S} : ParsedPage(PageAt(S, r), A) = TruthOf(PageAt(S, r))
  BY <1>2, PageIsFound
<1>4. QED
  BY <1>1, <1>3, AsServedIs DEF ParsedLog
LEMMA InvIsReported == LogInv => LogIsReported
<1> SUFFICES ASSUME LogInv, study = "experiment"
             PROVE  ReportFollowsLog(served, arrived, parsed, input[1].config)
  BY DEF LogIsReported, Through
<1>1. Distinct(served) /\ arrived \subseteq EventsOf(served) /\ parsed = ParsedLog(served, arrived)
  BY DEF LogInv
<1>2. parsed = [r \in {e.request : e \in arrived} |-> ParsedPage(PageAt(served, r), arrived)]
  BY <1>1 DEF ParsedLog
<1>3. PICK truth : truth = AsServed(served)
  OBVIOUS
<1>4. truth = [r \in {p.request : p \in served} |-> TruthOf(PageAt(served, r))]
  BY <1>3, AsServedIs
<1>5. DOMAIN parsed = {e.request : e \in arrived}
  BY <1>2
<1>6. ASSUME NEW r \in DOMAIN parsed
      PROVE  /\ parsed[r].experiment = truth[r].experiment /\ parsed[r].session = truth[r].session
             /\ parsed[r].ranks = Logged(arrived, r, "impression") /\ parsed[r].clicked = Logged(arrived, r, "click")
             /\ truth[r].teams # NoMap =>
                   PageOutcome(parsed[r])
                     = team_draft_credit(truth[r].teams, Logged(arrived, r, "click") \cap Logged(arrived, r, "impression"))
  <2>1. PICK p \in served : p.request = r
    <3>1. PICK e \in arrived : e.request = r
      BY <1>5
    <3>2. PICK q \in served : e \in impression_events(q)
      BY <1>1 DEF EventsOf
    <3>3. q.request = r
      BY <3>1, <3>2, EventIs, EventFields
    <3>4. QED
      BY <3>3
  <2>2. PageAt(served, r) = p
    BY <1>1, <2>1, PageIsFound
  <2>3. truth[r] = TruthOf(p) /\ parsed[r] = ParsedPage(p, arrived)
    BY <1>2, <1>4, <2>1, <2>2
  <2>4. PICK shown, clicks, left :
          /\ shown = Logged(arrived, r, "impression") /\ clicks = Logged(arrived, r, "click")
          /\ left = Abandoned(arrived, r)
    OBVIOUS
  <2>5. PICK page : page = parsed[r]
    OBVIOUS
  <2>6. page = AsPage(p, shown, clicks, left)
    BY ONLY <2>1, <2>3, <2>4, <2>5 DEF ParsedPage
  <2>7. page.experiment = p.experiment /\ page.session = p.session /\ page.ranks = shown /\ page.clicked = clicks
    BY ONLY <2>6 DEF AsPage
  <2>8. /\ truth[r].experiment = p.experiment /\ truth[r].session = p.session
        /\ truth[r].teams = IF p.teams = <<>> THEN NoMap ELSE p.teams
    BY ONLY <2>3 DEF TruthOf
  <2>9. IsFiniteSet(shown) /\ shown \subseteq Nat
    <3>1. shown \subseteq DOMAIN p.docs
      BY <1>1, <2>1, <2>4, LoggedShown
    <3>2. IsSeq(p.docs)
      BY <1>1 DEF Distinct, ServedWell
    <3>3. PICK n \in Nat : DOMAIN p.docs = 1 .. n
      BY <3>2, SeqIs
    <3>4. IsFiniteSet(1 .. n)
      BY FS_Interval
    <3>5. QED
      BY <3>1, <3>3, <3>4, FS_Subset
  <2>10. truth[r].teams # NoMap => PageOutcome(page) = team_draft_credit(truth[r].teams, clicks \cap shown)
    <3>1. SUFFICES ASSUME truth[r].teams # NoMap
                   PROVE  PageOutcome(page) = team_draft_credit(truth[r].teams, clicks \cap shown)
      OBVIOUS
    <3>2. p.teams # <<>> /\ truth[r].teams = p.teams
      BY <2>8, <3>1
    <3>3. PageOutcome(page) = team_draft_credit(p.teams, clicks \cap shown)
      BY ONLY <2>6, <2>9, <3>2, CreditFollowsLog
    <3>4. QED
      BY ONLY <3>2, <3>3
  <2>11. QED
    BY ONLY <2>4, <2>5, <2>7, <2>8, <2>10
<1>7. ASSUME NEW r \in DOMAIN parsed
      PROVE  r \in ClickWithoutImpression(parsed)
               <=> ~(Logged(arrived, r, "click") \subseteq Logged(arrived, r, "impression"))
  <2>1. r \in ClickWithoutImpression(parsed) <=> ~(parsed[r].clicked \subseteq parsed[r].ranks)
    BY <1>7 DEF ClickWithoutImpression
  <2>2. parsed[r].ranks = Logged(arrived, r, "impression") /\ parsed[r].clicked = Logged(arrived, r, "click")
    BY <1>6, <1>7
  <2>3. QED
    BY ONLY <2>1, <2>2
<1>8. arrived = UNION {impression_events(q) : q \in served}
         => analyse(parsed, input[1].config) = analyse(truth, input[1].config)
  <2>1. SUFFICES ASSUME arrived = UNION {impression_events(q) : q \in served} PROVE parsed = truth
    OBVIOUS
  <2>2. arrived = EventsOf(served)
    BY <2>1 DEF EventsOf
  <2>3. QED
    BY <1>1, <1>3, <2>2, CompleteLog
<1>9. QED
  BY Zenon, <1>3, <1>5, <1>6, <1>7, <1>8 DEF ReportFollowsLog, Logged

-----------------------------------------------------------------------------
\* The invariant of the experiment: the analyser's pages are those the events
\* that arrived make of the pages as served, in whatever order they came.
THEOREM LogInvariant == Spec => []LogInv
BY InitLogInv, LogNextInv, PTL DEF Spec

\* Whatever of its events is lost, late or delivered again, a page is credited by
\* the teams it was served with for the clicks that arrived with their
\* impression, and the complete log gives the report of what was served
\* (events.py, analyze_events.py, ab.py).
THEOREM LogsAreReported == Spec => []LogIsReported
BY LogInvariant, InvIsReported, PTL

-----------------------------------------------------------------------------
(* The mining study: one step, from one query. *)

MiningInv ==
    study = "mining" =>
        \/ input = <<>> /\ result = <<>>
        \/ \E q \in MiningInputs : input = <<q>> /\ result \in {<<>>, <<mine(q)>>}

\* The steps of the mining study, and of every other.
LEMMA MiningNextInv == MiningInv /\ [Next]_vars => MiningInv'
<1> SUFFICES ASSUME MiningInv, [Next]_vars PROVE MiningInv'
  OBVIOUS
<1>1. ASSUME study' = study, study = "mining" => input' = input /\ result' = result PROVE MiningInv'
  BY <1>1 DEF MiningInv
<1>2. CASE UNCHANGED vars
  BY <1>1, <1>2 DEF vars
<1>3. CASE Begin
  <2>1. SUFFICES ASSUME study = "mining" PROVE MiningInv'
    BY <1>3 DEF Begin, MiningInv
  <2>2. study' = "mining" /\ result' = result /\ input = <<>>
    BY <1>3, <2>1 DEF Begin
  <2>3. PICK q \in MiningInputs : input' = <<q>>
    BY <1>3, <2>1 DEF Begin, InputsOf
  <2>4. result = <<>>
    BY <2>1, <2>2 DEF MiningInv
  <2>5. QED
    BY <2>2, <2>3, <2>4 DEF MiningInv
<1>4. CASE Tune \/ EvaluateHeldOut \/ CompareSystems \/ MakePool \/ BuildSets \/ LogClicks \/ Estimate
  BY <1>1, <1>4 DEF Tune, EvaluateHeldOut, CompareSystems, MakePool, BuildSets, LogClicks, Estimate, Step
<1>5. CASE MineQuery
  <2>1. /\ study = "mining" /\ input # <<>> /\ Len(result) = 0
        /\ result' = Append(result, mine(input[1])) /\ study' = study /\ input' = input
    BY <1>5 DEF MineQuery, Step
  <2>2. PICK q \in MiningInputs : input = <<q>> /\ result \in {<<>>, <<mine(q)>>}
    BY <2>1 DEF MiningInv
  <2>3. PICK mined : mined = mine(q)
    OBVIOUS
  <2>4. result = <<>>
    BY <2>1, <2>2, <2>3
  <2>5. result' = <<mined>>
    BY <2>1, <2>2, <2>3, <2>4
  <2>6. QED
    BY <2>1, <2>2, <2>3, <2>5 DEF MiningInv
<1>6. CASE Simulate \/ Arrive
  BY <1>1, <1>6 DEF Simulate, Arrive
<1>7. CASE Cells \/ PrepareData \/ EncodeFeature
  BY <1>1, <1>7 DEF Cells, PrepareData, EncodeFeature
<1>8. QED
  BY <1>2, <1>3, <1>4, <1>5, <1>6, <1>7 DEF Next

\* When it is through, its result is the mining of its query.
LEMMA MinedIsMine ==
    ASSUME MiningInv, Through("mining", 1)
    PROVE  input[1] \in MiningInputs /\ result[1] = mine(input[1])
<1>1. study = "mining" /\ input # <<>> /\ Len(result) = 1
  BY DEF Through
<1>2. PICK q \in MiningInputs : input = <<q>> /\ result \in {<<>>, <<mine(q)>>}
  BY <1>1 DEF MiningInv
<1>3. PICK mined : mined = mine(q)
  OBVIOUS
<1>4. result = <<mined>>
  BY <1>1, <1>2, <1>3
<1>5. QED
  BY <1>2, <1>3, <1>4

\* The invariant of the mining study: what it holds is the mining of its query.
THEOREM MiningInvariant == Spec => []MiningInv
<1>1. Init => MiningInv
  BY DEF Init, MiningInv
<1>2. QED
  BY <1>1, MiningNextInv, PTL DEF Spec

\* The reranker is trained on clean groups, from an exact search, and judged on the
\* candidates it was given, at every depth (mine.py, sampler.py, rerank_run.py,
\* cascade.py): for every query a mining run may be given, and every depth, chunk,
\* block, margin and batch limit.
THEOREM TrainingIsClean == Spec => []TrainingDataIsClean
<1>1. MiningInv => TrainingDataIsClean
  <2>1. SUFFICES ASSUME MiningInv, Through("mining", 1)
                 PROVE  CleanFor(input[1], result[1])
    BY Zenon DEF TrainingDataIsClean, CleanFor
  <2>2. input[1] \in MiningInputs /\ result[1] = mine(input[1])
    BY <2>1, MinedIsMine
  <2>3. IsQuery(input[1])
    BY <2>2, MiningAssumption
  <2>4. CleanFor(input[1], mine(input[1]))
    BY <2>3, CleanForQuery
  <2>5. QED
    BY ONLY <2>2, <2>4
<1>2. QED
  BY <1>1, MiningInvariant, PTL

-----------------------------------------------------------------------------
(* The fusion study: three steps, from one dataset. *)

Tuned(data) == Systems(data, TunedMetric)
HeldOut(data) == PerQuery(Tuned(data), data, TunedMetric)
FlipsOf(data) == SetToSeq([DOMAIN data.qrels -> {-1, 1}])
OneOf(data) == Len(FlipsOf(data)) + 1
RowsOf(data) == compare(Family(Tuned(data), HeldOut(data)), FlipsOf(data), OneOf(data) \div 2, OneOf(data))
UpToThree(done, a, b, c) ==
    /\ IsSeq(done) /\ Len(done) \in {0, 1, 2, 3}
    /\ Len(done) \in {1, 2, 3} => done[1] = a
    /\ Len(done) \in {2, 3} => done[2] = b
    /\ Len(done) = 3 => done[3] = c
FusedSoFar(data, done) == UpToThree(done, Tuned(data), HeldOut(data), RowsOf(data))
FusionInv ==
    study = "fusion" =>
        \/ input = <<>> /\ result = <<>>
        \/ \E data \in FusionInputs : input = <<data>> /\ FusedSoFar(data, result)

\* A computation's next result is of those before it.
AppendedTo(t, s, x, n) ==
    n \in Nat /\ IsSeq(t) /\ Len(t) = n + 1 /\ t[n + 1] = x /\ \A i \in 1 .. n : t[i] = s[i]
LEMMA Appended ==
    ASSUME NEW done, IsSeq(done), NEW x PROVE AppendedTo(Append(done, x), done, x, Len(done))
<1> DEFINE n == Len(done)
<1>1. done \in Seq(Range(done) \cup {x}) /\ n \in Nat
  <2>1. n \in Nat /\ done = [i \in 1 .. n |-> done[i]] /\ DOMAIN done = 1 .. n
    BY SeqIs
  <2>2. \A i \in 1 .. n : done[i] \in Range(done) \cup {x}
    BY <2>1 DEF Range
  <2>3. done \in [1 .. n -> Range(done) \cup {x}]
    BY <2>1, <2>2
  <2>4. QED
    BY <2>1, <2>3, IsSequence
<1>2. PICK S : S = Range(done) \cup {x}
  OBVIOUS
<1>3. /\ Len(Append(done, x)) = n + 1 /\ Append(done, x)[n + 1] = x
      /\ \A i \in 1 .. n : Append(done, x)[i] = done[i]
  BY ONLY <1>1, <1>2, x \in S, AppendProperties
<1>4. QED
  BY <1>1, <1>3, AppendIs DEF AppendedTo
Continues(data, done) ==
    /\ Len(done) = 0 => FusedSoFar(data, Append(done, Tuned(data)))
    /\ Len(done) = 1 => done[1] = Tuned(data) /\ FusedSoFar(data, Append(done, HeldOut(data)))
    /\ Len(done) = 2 => done[1] = Tuned(data) /\ done[2] = HeldOut(data) /\ FusedSoFar(data, Append(done, RowsOf(data)))
    /\ Len(done) = 3 => done[1] = Tuned(data) /\ done[2] = HeldOut(data) /\ done[3] = RowsOf(data)
LEMMA FusionContinues ==
    ASSUME NEW data, NEW done, FusedSoFar(data, done) PROVE Continues(data, done)
<1>1. PICK a, b, c : a = Tuned(data) /\ b = HeldOut(data) /\ c = RowsOf(data)
  OBVIOUS
<1>2. \A s : FusedSoFar(data, s) <=> UpToThree(s, a, b, c)
  BY <1>1, Zenon DEF FusedSoFar
<1>3. UpToThree(done, a, b, c) /\ IsSeq(done)
  BY <1>2 DEF UpToThree
<1>4. ASSUME Len(done) = 0 PROVE UpToThree(Append(done, a), a, b, c)
  <2>2. PICK t, n : t = Append(done, a) /\ n = Len(done) /\ n = 0
    BY <1>4
  <2>3. IsSeq(t) /\ Len(t) = n + 1 /\ t[n + 1] = a /\ \A i \in 1 .. n : t[i] = done[i]
    <3>1. AppendedTo(Append(done, a), done, a, Len(done))
      BY ONLY <1>3, Appended
    <3>2. AppendedTo(t, done, a, n)
      BY ONLY <2>2, <3>1, Zenon
    <3>3. QED
      BY <3>2 DEF AppendedTo
  <2>4. IsSeq(t) /\ Len(t) = 1 /\ t[1] = a
    BY ONLY <2>2, <2>3
  <2>5. QED
    BY <2>2, <2>4 DEF UpToThree
<1>5. ASSUME Len(done) = 1 PROVE done[1] = a /\ UpToThree(Append(done, b), a, b, c)
  <2>1. done[1] = a
    BY <1>3, <1>5 DEF UpToThree
  <2>2. PICK t, n : t = Append(done, b) /\ n = Len(done) /\ n = 1
    BY <1>5
  <2>3. IsSeq(t) /\ Len(t) = n + 1 /\ t[n + 1] = b /\ \A i \in 1 .. n : t[i] = done[i]
    <3>1. AppendedTo(Append(done, b), done, b, Len(done))
      BY ONLY <1>3, Appended
    <3>2. AppendedTo(t, done, b, n)
      BY ONLY <2>2, <3>1, Zenon
    <3>3. QED
      BY <3>2 DEF AppendedTo
  <2>4. IsSeq(t) /\ Len(t) = 2 /\ t[1] = a /\ t[2] = b
    BY ONLY <2>1, <2>2, <2>3
  <2>5. QED
    BY <2>1, <2>2, <2>4 DEF UpToThree
<1>6. ASSUME Len(done) = 2 PROVE done[1] = a /\ done[2] = b /\ UpToThree(Append(done, c), a, b, c)
  <2>1. done[1] = a /\ done[2] = b
    BY <1>3, <1>6 DEF UpToThree
  <2>2. PICK t, n : t = Append(done, c) /\ n = Len(done) /\ n = 2
    BY <1>6
  <2>3. IsSeq(t) /\ Len(t) = n + 1 /\ t[n + 1] = c /\ \A i \in 1 .. n : t[i] = done[i]
    <3>1. AppendedTo(Append(done, c), done, c, Len(done))
      BY ONLY <1>3, Appended
    <3>2. AppendedTo(t, done, c, n)
      BY ONLY <2>2, <3>1, Zenon
    <3>3. QED
      BY <3>2 DEF AppendedTo
  <2>4. IsSeq(t) /\ Len(t) = 3 /\ t[1] = a /\ t[2] = b /\ t[3] = c
    BY ONLY <2>1, <2>2, <2>3
  <2>5. QED
    BY <2>1, <2>2, <2>4 DEF UpToThree
<1>7. Len(done) = 3 => done[1] = a /\ done[2] = b /\ done[3] = c
  BY <1>3 DEF UpToThree
<1>8. QED
  BY <1>1, <1>2, <1>4, <1>5, <1>6, <1>7, Zenon DEF Continues

\* The steps of the fusion study, and of every other.
LEMMA FusionStep ==
    ASSUME FusionInv, study = "fusion", input # <<>>
    PROVE  /\ input[1] \in FusionInputs /\ input = <<input[1]>> /\ Continues(input[1], result)
           /\ Flips = FlipsOf(input[1]) /\ One = OneOf(input[1])
<1>1. PICK data \in FusionInputs : input = <<data>> /\ FusedSoFar(data, result)
  BY Zenon DEF FusionInv
<1>2. input[1] = data
  BY <1>1
<1>3. Continues(data, result)
  BY <1>1, FusionContinues
<1>4. Flips = FlipsOf(data) /\ One = OneOf(data)
  BY <1>2, Zenon DEF Flips, FlipsOf, One, OneOf
<1>5. QED
  BY <1>1, <1>2, <1>3, <1>4
LEMMA FusionNextInv == FusionInv /\ [Next]_vars => FusionInv'
<1> SUFFICES ASSUME FusionInv, [Next]_vars PROVE FusionInv'
  OBVIOUS
<1>1. ASSUME study' = study, study = "fusion" => input' = input /\ result' = result PROVE FusionInv'
  BY <1>1, Zenon DEF FusionInv
<1>2. CASE UNCHANGED vars
  BY <1>1, <1>2 DEF vars
<1>3. CASE Begin
  <2>1. SUFFICES ASSUME study = "fusion" PROVE FusionInv'
    BY <1>3, Zenon DEF Begin, FusionInv
  <2>2. study' = "fusion" /\ result' = result /\ input = <<>>
    BY <1>3, <2>1 DEF Begin
  <2>3. PICK data \in FusionInputs : input' = <<data>>
    BY <1>3, <2>1 DEF Begin, InputsOf
  <2>4. result = <<>>
    <3>1. \A x : input # <<x>>
      BY <2>2
    <3>2. QED
      BY <2>1, <3>1, Zenon DEF FusionInv
  <2>5. FusedSoFar(data, result')
    BY <2>2, <2>4, EmptySequences DEF FusedSoFar, UpToThree, IsSeq
  <2>6. QED
    BY <2>3, <2>5, Zenon DEF FusionInv
<1>4. CASE MakePool \/ BuildSets \/ LogClicks \/ Estimate \/ MineQuery
  BY <1>1, <1>4 DEF MakePool, BuildSets, LogClicks, Estimate, MineQuery, Step
<1>5. ASSUME study = "fusion", input # <<>>, study' = study, input' = input, FusedSoFar(input[1], result') PROVE FusionInv'
  <2>1. input[1] \in FusionInputs /\ input' = <<input[1]>>
    BY <1>5, FusionStep
  <2>2. QED
    BY <1>5, <2>1, Zenon DEF FusionInv
<1>6. CASE Tune
  <2>1. /\ study = "fusion" /\ input # <<>> /\ Len(result) = 0 /\ study' = study /\ input' = input
        /\ result' = Append(result, Tuned(input[1]))
    BY <1>6 DEF Tune, Step, Tuned
  <2>2. Continues(input[1], result)
    BY <2>1, FusionStep
  <2>3. FusedSoFar(input[1], result')
    BY <2>1, <2>2 DEF Continues
  <2>4. QED
    BY <1>5, <2>1, <2>3
<1>7. CASE EvaluateHeldOut
  <2>1. /\ study = "fusion" /\ input # <<>> /\ Len(result) = 1 /\ study' = study /\ input' = input
        /\ result' = Append(result, PerQuery(result[1], input[1], TunedMetric))
    BY <1>7 DEF EvaluateHeldOut, Step
  <2>2. Continues(input[1], result)
    BY <2>1, FusionStep
  <2>3. result[1] = Tuned(input[1]) /\ FusedSoFar(input[1], Append(result, HeldOut(input[1])))
    BY <2>1, <2>2 DEF Continues
  <2>4. result' = Append(result, HeldOut(input[1]))
    BY <2>1, <2>3 DEF HeldOut
  <2>5. QED
    BY <1>5, <2>1, <2>3, <2>4
<1>8. CASE CompareSystems
  <2>1. /\ study = "fusion" /\ input # <<>> /\ Len(result) = 2 /\ study' = study /\ input' = input
        /\ result' = Append(result, compare(Family(result[1], result[2]), Flips, One \div 2, One))
    BY <1>8 DEF CompareSystems, Step
  <2>2. Continues(input[1], result) /\ Flips = FlipsOf(input[1]) /\ One = OneOf(input[1])
    BY <2>1, FusionStep
  <2>3. /\ result[1] = Tuned(input[1]) /\ result[2] = HeldOut(input[1])
        /\ FusedSoFar(input[1], Append(result, RowsOf(input[1])))
    BY <2>1, <2>2 DEF Continues
  <2>4. result' = Append(result, RowsOf(input[1]))
    BY <2>1, <2>2, <2>3 DEF RowsOf
  <2>5. QED
    BY <1>5, <2>1, <2>3, <2>4
<1>9. CASE Simulate \/ Arrive
  BY <1>1, <1>9 DEF Simulate, Arrive
<1>10. CASE Cells \/ PrepareData \/ EncodeFeature
  BY <1>1, <1>10 DEF Cells, PrepareData, EncodeFeature
<1>11. QED
  BY <1>2, <1>3, <1>4, <1>6, <1>7, <1>8, <1>9, <1>10 DEF Next

\* The invariant of the fusion study: what it holds is, step by step, the tuning,
\* the held-out evaluation and the comparisons of its dataset (m4_fusion.py main).
THEOREM FusionInvariant == Spec => []FusionInv
<1>1. Init => FusionInv
  BY DEF Init, FusionInv
<1>2. QED
  BY <1>1, FusionNextInv, PTL DEF Spec

\* What the fusion study reports is what it tuned, in every respect that
\* FusionAsReported lists (m4_fusion.py, core.py, fast.py, runs.py,
\* significance.py): for every dataset of rankings and judgments, every grid,
\* depth and precision.
THEOREM FusionIsAsReported == Spec => []FusionAsReported
<1>1. FusionInv => FusionAsReported
  <2>1. SUFFICES ASSUME FusionInv, Through("fusion", 3)
                 PROVE  ReportIs(input[1], result[1], result[2], result[3], Flips, One)
    BY Zenon DEF FusionAsReported, ReportIs, ReportWith, PsOf, TunedMetric
  <2>2. study = "fusion" /\ input # <<>> /\ Len(result) = 3
    BY <2>1 DEF Through
  <2>3. PICK data \in FusionInputs : data = input[1] /\ Continues(data, result) /\ Flips = FlipsOf(data) /\ One = OneOf(data)
    BY <2>1, <2>2, FusionStep
  <2>4. result[1] = Tuned(data) /\ result[2] = HeldOut(data) /\ result[3] = RowsOf(data)
    BY <2>2, <2>3 DEF Continues
  <2>5. HasRankings(data) /\ HasJudgments(data.qrels) /\ OUT_K >= 2
    BY FusionAssumption, Zenon DEF HasRankings, HasJudgments
  <2>6. TunedMetric = Metric("nDCG", 2, 1)
    BY DEF TunedMetric
  <2>7. ReportIs(data, Tuned(data), HeldOut(data), RowsOf(data), FlipsOf(data), OneOf(data))
    BY <2>5, <2>6, StudyReports, Zenon DEF Tuned, HeldOut, RowsOf, FlipsOf, OneOf
  <2>8. QED
    BY ONLY <2>3, <2>4, <2>7, Zenon
<1>2. QED
  BY <1>1, FusionInvariant, PTL
=============================================================================
