---------------------------- MODULE FeatureCache ----------------------------
(***************************************************************************)
(* The dense feature of the LTR study (ltr/dense_feature.py) and the        *)
(* passage lengths (doc_lengths of scripts/m9_ltr.py): what a run needs and *)
(* the cache lacks is computed and the cache files are written again, in    *)
(* place, after every chunk.  A run may be killed, run out of memory or of  *)
(* disk, and others ask for other queries later.  It uses the GPU if nobody *)
(* has the lock at that moment, else the CPU.  The vector of a text is the  *)
(* text's id here, and ids come in any fixed order.                         *)
(***************************************************************************)
EXTENDS Evaluation

\* What a run may ask for, [queries, passages]; the passages with a text in the
\* collection; passages encoded between two saves; the bound on runs.
CONSTANTS Asks, Texts, EncodeStepSize, MaxFeatureRuns

VARIABLES
    step,         \* what the run does next, or how it ended
    asked,        \* what it was asked for
    held,         \* its dicts: a sequence of <<id, vector>> per kind
    writes,       \* the files it has still to write and their rows; the first may be open
    files,        \* the cache
    gpu,          \* the GPU lock: "free", "unnamed" (this run's directory, its owner's
                  \* name not yet written), "own", "other", or "dead": left behind
    featureRuns,  \* how often it was run, at most MaxFeatureRuns times
    saved         \* history: the ids that were once saved
featureVars == <<step, asked, held, writes, files, gpu, featureRuns, saved>>

Kinds == {"queries", "passages"}
ASSUME AsksAssumption ==
    /\ EncodeStepSize \in Nat \ {0}
    /\ Asks \subseteq [Kinds -> SUBSET Nat] /\ \A a \in Asks : \A kind \in Kinds : IsFiniteSet(a[kind])
Vecs(kind) == <<kind, "npy">>
Ids(kind) == <<kind, "ids.json">>
Lengths == <<"doclen", "json">>
CacheFiles == {Vecs(kind) : kind \in Kinds} \cup {Ids(kind) : kind \in Kinds} \cup {Lengths}
Whole(rows) == [state |-> "whole", rows |-> rows]
Missing == [state |-> "absent", rows |-> <<>>]
HalfWritten == [state |-> "torn", rows |-> <<>>]
-----------------------------------------------------------------------------
There(f) == files[f].state # "absent"
IdsHeld(kind) == {pair[1] : pair \in Range(held[kind])}
\* _load: nothing without both files; otherwise as many as both have.
Unreadable(kind) ==
    /\ There(Vecs(kind)) /\ There(Ids(kind))
    /\ HalfWritten \in {files[Vecs(kind)], files[Ids(kind)]}
Zipped(kind) ==
    LET ids == files[Ids(kind)].rows
        vecs == files[Vecs(kind)].rows
    IN  [i \in 1 .. Min({Len(ids), Len(vecs)}) |-> <<ids[i], vecs[i]>>]
\* _save: the vectors, then the ids, both in the order of the dict.
Saves(kind, dict) ==
    <<[file |-> Vecs(kind), rows |-> [i \in DOMAIN dict |-> dict[i][2]]],
      [file |-> Ids(kind), rows |-> [i \in DOMAIN dict |-> dict[i][1]]]>>
Wanted(kind) == IF kind = "passages" THEN asked[kind] \cap Texts ELSE asked[kind]
Need(kind) == Wanted(kind) \ IdsHeld(kind)
Goto(now, next) == step = now /\ writes = <<>> /\ step' = next
NoWrites == UNCHANGED <<writes, files, saved>>

StartFeature ==
    /\ Goto("off", "lengths") /\ featureRuns < MaxFeatureRuns
    /\ featureRuns' = featureRuns + 1 /\ asked' \in Asks
    /\ NoWrites /\ UNCHANGED <<held, gpu>>
\* doc_lengths: written again whenever a length is missing, texts or not.
DocLengths ==
    LET have == files[Lengths].rows
        need == asked["passages"] \ Range(have)
    IN
    /\ Goto("lengths", IF files[Lengths] = HalfWritten THEN "failed" ELSE "load")
    /\ writes' = IF files[Lengths] = HalfWritten \/ need = {} THEN <<>>
                 ELSE <<[file |-> Lengths, rows |-> have \o SetToSeq(need \cap Texts)]>>
    /\ UNCHANGED <<asked, held, files, gpu, featureRuns, saved>>
LoadVectors ==
    /\ Goto("load", IF \E kind \in Kinds : Unreadable(kind) THEN "failed" ELSE "gpu")
    /\ held' = [kind \in Kinds |-> IF Unreadable(kind) THEN <<>> ELSE Zipped(kind)]
    /\ NoWrites /\ UNCHANGED <<asked, gpu, featureRuns>>
\* The GPU is taken if it is free, and only if there is anything to encode: the
\* lock's directory is made, and then the owner's name written into it.
TakeGpu ==
    LET idle == \A kind \in Kinds : Need(kind) = {} IN
    /\ Goto("gpu", IF idle THEN "done" ELSE IF gpu = "free" THEN "owner" ELSE "queries")
    /\ gpu' = IF ~idle /\ gpu = "free" THEN "unnamed" ELSE gpu
    /\ NoWrites /\ UNCHANGED <<asked, held, featureRuns>>
NameOwner ==
    /\ Goto("owner", "queries") /\ gpu' = "own"
    /\ NoWrites /\ UNCHANGED <<asked, held, featureRuns>>
\* Faulty variant of Added: what is new comes first.
AddedInFront(dict, ids) == [i \in DOMAIN ids |-> <<ids[i], ids[i]>>] \o dict
\* A dict keeps its order; what is new comes last.
Added(dict, ids) == dict \o [i \in DOMAIN ids |-> <<ids[i], ids[i]>>]
Encode(kind, ids) ==
    /\ held' = [held EXCEPT ![kind] = Added(@, ids)]
    /\ writes' = Saves(kind, held'[kind])
    /\ UNCHANGED <<asked, files, gpu, featureRuns, saved>>
EncodeQueries ==
    /\ Goto("queries", "passages")
    /\ IF Need("queries") = {} THEN NoWrites /\ UNCHANGED <<asked, held, gpu, featureRuns>>
       ELSE Encode("queries", SetToSeq(Need("queries")))
EncodePassages ==
    /\ Need("passages") # {} /\ Goto("passages", "passages")
    /\ Encode("passages", Top(SetToSeq(Need("passages")), EncodeStepSize))
PassagesDone ==
    /\ Need("passages") = {} /\ Goto("passages", "release")
    /\ NoWrites /\ UNCHANGED <<asked, held, gpu, featureRuns>>
\* The finally clause, after success or an exception.
ReleaseGpu ==
    /\ Goto("release", "done") \/ Goto("raised", "failed")
    /\ gpu' = IF gpu = "own" THEN "free" ELSE gpu
    /\ NoWrites /\ UNCHANGED <<asked, held, featureRuns>>

\* A file is opened, which empties it, and written.
OpenFile ==
    /\ writes # <<>> /\ files[writes[1].file] # HalfWritten
    /\ files' = [files EXCEPT ![writes[1].file] = HalfWritten]
    /\ UNCHANGED <<step, asked, held, writes, gpu, featureRuns, saved>>
WriteRows ==
    /\ writes # <<>> /\ files[writes[1].file] = HalfWritten
    /\ files' = [files EXCEPT ![writes[1].file] = Whole(writes[1].rows)]
    /\ writes' = Tail(writes)
    /\ saved' = [f \in CacheFiles |->
                    IF f = writes[1].file THEN saved[f] \cup Range(writes[1].rows) ELSE saved[f]]
    /\ UNCHANGED <<step, asked, held, gpu, featureRuns>>
\* No memory for a batch, or no room for a file that is being written, the lock
\* or its owner's name: those two are before the `try`, and a lock without a name
\* is left behind.
Raises ==
    /\ \/ writes # <<>> /\ files[writes[1].file] = HalfWritten
       \/ writes = <<>> /\ step \in {"gpu", "owner", "queries", "passages"}
    /\ step' = IF step \in {"queries", "passages"} THEN "raised" ELSE "failed"
    /\ gpu' = IF gpu = "unnamed" THEN "dead" ELSE gpu
    /\ writes' = <<>>
    /\ UNCHANGED <<asked, held, files, featureRuns, saved>>
Forget == held' = [kind \in Kinds |-> <<>>] /\ writes' = <<>> /\ step' = "off"
KillFeature ==
    /\ step \notin {"off", "done", "failed"}
    /\ Forget
    /\ gpu' = IF gpu \in {"unnamed", "own"} THEN "dead" ELSE gpu
    /\ UNCHANGED <<asked, files, featureRuns, saved>>
NextFeature == step \in {"done", "failed"} /\ Forget /\ UNCHANGED <<asked, files, gpu, featureRuns, saved>>
\* The other jobs take the lock and give it back.
OtherJob ==
    /\ gpu' = CASE gpu = "free" -> "other" [] gpu = "other" -> "free" [] OTHER -> gpu
    /\ UNCHANGED <<step, asked, held, writes, files, featureRuns, saved>>

FeatureInit ==
    /\ step = "off" /\ asked = [kind \in Kinds |-> {}] /\ held = [kind \in Kinds |-> <<>>] /\ writes = <<>>
    /\ files = [f \in CacheFiles |-> Missing] /\ gpu = "free" /\ featureRuns = 0
    /\ saved = [f \in CacheFiles |-> {}]
FeatureStep ==
    \/ StartFeature \/ DocLengths \/ LoadVectors \/ TakeGpu \/ NameOwner
    \/ EncodeQueries \/ EncodePassages \/ PassagesDone \/ ReleaseGpu
    \/ OpenFile \/ WriteRows \/ Raises \/ KillFeature \/ NextFeature \/ OtherJob
FeatureSpec == FeatureInit /\ [][FeatureStep]_featureVars
-----------------------------------------------------------------------------
\* dense_run_for_candidates: scores of the candidates that have vectors.
Scored == [q \in asked["queries"] \cap IdsHeld("queries") |-> asked["passages"] \cap IdsHeld("passages")]

\* Wherever earlier runs were killed or failed between two writes, an id stands
\* for its own vector; a run that is through has a score for every candidate with
\* a text; a cache that can be read at all has kept what was ever saved; and a run
\* that has named itself the GPU's owner gives it back, however it fails, unless
\* it is killed (dense_feature.py).  One that cannot write its name keeps the lock.
VectorsFitTheirIds ==
    /\ \A kind \in Kinds : \A pair \in Range(held[kind]) : pair[1] = pair[2]
    /\ step = "done" =>
          Scored = [q \in asked["queries"] |-> Wanted("passages")]
    /\ step = "queries" => \A kind \in Kinds : saved[Ids(kind)] \subseteq IdsHeld(kind)
    /\ step = "load" /\ writes = <<>> => saved[Lengths] \cup (asked["passages"] \cap Texts) \subseteq Range(files[Lengths].rows)
    /\ step \in {"off", "done", "failed"} => gpu \notin {"unnamed", "own"}
=============================================================================
