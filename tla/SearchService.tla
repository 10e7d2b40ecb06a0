---------------------------- MODULE SearchService ----------------------------
(***************************************************************************)
(* One search through the broker (SearchService.SearchCoreAsync): plan,    *)
(* encode, fan out, lexical first page, fuse, rerank cascade, snippets,    *)
(* final page.  The stages run one after the other against one deadline,   *)
(* each with a share of it held back for the stages behind it, and each    *)
(* may be cut off, fail, or fail for some slices only.                     *)
(*                                                                         *)
(* `now` is the time since the request arrived.  A stage ends at a time of *)
(* its own choosing up to the point where the code cancels it; the time    *)
(* between stages is counted to the stage before, and the write of the     *)
(* first page, for which a slow client sets the pace and no deadline is    *)
(* set (onLexical), takes no time here.  A slice's fan-out and             *)
(* fetch are ShardFanOut's subject and end here by their deadline.  The    *)
(* highlight cache, spelling suggestion, metrics and spans are left out;   *)
(* a served page is also queued for the event log (EventLog.Put).          *)
(***************************************************************************)
EXTENDS Degradation

\* Arms: the rankers a request may be given (sets of one arm, or of two that
\* are interleaved), an arm being [mode, rerank].  Estimates: what
\* CostModel.Estimate may answer.  MaxInFlight bounds the searches in flight.
CONSTANTS Slices, Arms, Estimates, Deadline, MinFetch, Floor, Thresholds, MaxInFlight

ASSUME TimesAssumption == Deadline \in Nat \ {0} /\ MinFetch \in Nat /\ Floor \in Nat
ASSUME EstimatesAssumption == Estimates \subseteq [Trackers -> Nat \ {0}]
ASSUME ArmsAssumption ==
    /\ \A arms \in Arms : arms # {}
    /\ Arms \subseteq SUBSET [mode : {"hybrid", "lexical", "dense"}, rerank : BOOLEAN]
ASSUME LoadAssumption ==
    /\ MaxInFlight \in Nat \ {0} /\ Thresholds \in Seq(Nat)
    /\ \A i, j \in 1..Len(Thresholds) : i < j => Thresholds[i] < Thresholds[j]

VARIABLES
    stage, now,
    arms, sse,             \* the request: its rankers, and whether it streams
    est,                   \* the estimates in use
    lexical, shrink,       \* the plan, ...
    dense, rerank, steps,  \* ... and what later stages make of it
    asked,     \* the hit lists the shards were asked for
    hits,      \* <<slice, list>>: where candidates came from
    passages,  \* the candidates whose text the reranker got
    scored,    \* the candidates the reranker scored
    samples,   \* the cost trackers that got a sample
    pages      \* the pages sent: [kind, steps, missing]

planVars == <<arms, sse, lexical, shrink>>
rankVars == <<hits, passages, scored>>
vars == <<stage, now, est, planVars, dense, rerank, steps, asked, rankVars, samples, pages>>

Later(a, b) == IF a >= b THEN a ELSE b
Earlier(a, b) == IF a <= b THEN a ELSE b

\* Deadline.Reserve: the deadline `reserve` earlier, but not before now + floor.
Reserve(reserve, floor) == Later(Deadline - reserve, Earlier(now + floor, Deadline))
\* Deadline.AtLeast: the deadline, or `floor` from now if that is later.
AtLeast(floor) == Later(Deadline, now + floor)

\* The stage that runs now ends at `end` at the latest.
EndsBy(end) == now' \in now..end

NeedsLexical == \E a \in arms : a.mode \in {"hybrid", "lexical"}
NeedsDense == \E a \in arms : a.mode \in {"hybrid", "dense"}
NeedsRerank == \E a \in arms : a.rerank

-----------------------------------------------------------------------------
Init ==
    /\ stage = "plan" /\ now = 0
    /\ arms \in Arms /\ sse \in BOOLEAN
    /\ est \in Estimates
    /\ lexical = FALSE /\ shrink = FALSE /\ dense = FALSE /\ rerank = FALSE
    /\ steps = {} /\ asked = {} /\ hits = {} /\ passages = {} /\ scored = {}
    /\ samples = {} /\ pages = <<>>

MakePlan(caps, inFlight, probe) ==
    /\ stage = "plan"
    /\ LET req == [lexical |-> NeedsLexical, dense |-> NeedsDense, rerank |-> NeedsRerank]
           p == Plan(req, caps, Deadline - now, est, PressureLevel(inFlight, Thresholds), probe)
       IN  /\ lexical' = p.lexical /\ dense' = p.dense /\ shrink' = p.shrink
           /\ rerank' = p.rerank /\ steps' = p.steps
           /\ stage' = IF p.dense THEN "encode" ELSE "fanout"
    /\ UNCHANGED <<now, arms, sse, est, asked, rankVars, samples, pages>>

-----------------------------------------------------------------------------
(* Encoding the query. *)

EncodeEnd == Reserve(est.lexical + est.fetch, 0)

\* The shared part of the encoder's endings.
LeaveEncoder ==
    /\ stage = "encode" /\ stage' = "fanout"
    /\ UNCHANGED <<est, planVars, rerank, asked, rankVars, pages>>

Encoded ==
    /\ LeaveEncoder /\ EndsBy(EncodeEnd)
    /\ samples' = samples \cup {"encode"}
    /\ UNCHANGED <<dense, steps>>

\* Faulty variant of EncoderGivesUp: the failure is logged but not reported.
EncoderGivesUpSilently(reason) ==
    /\ LeaveEncoder
    /\ EndsBy(EncodeEnd)
    /\ reason = "encode_deadline" => now' = EncodeEnd
    /\ dense' = FALSE
    /\ UNCHANGED <<samples, steps>>

\* The encoder throws, or is cancelled at its deadline.
EncoderGivesUp(reason) ==
    /\ LeaveEncoder
    /\ EndsBy(EncodeEnd)
    /\ reason = "encode_deadline" => now' = EncodeEnd
    /\ dense' = FALSE
    /\ steps' = steps \cup {Step(LexicalOnly, reason)}
    /\ UNCHANGED samples

-----------------------------------------------------------------------------
(* The fan-out and the candidates it brings back. *)

\* What the shards are asked for; without dense vectors, lexical hits.
Lists == {l \in {"lexical"} : lexical \/ ~dense} \cup {l \in {"dense"} : dense}

\* Faulty variant of ShardTracker: the request decides what was measured.
ShardTrackerAsRequested ==
    IF ~NeedsDense THEN "lexical" ELSE IF shrink THEN "shrunk" ELSE "full"

ShardTracker == IF ~dense THEN "lexical" ELSE IF shrink THEN "shrunk" ELSE "full"

\* Every slice has answered, wholly or in part, or failed; when all of them
\* failed there is nothing to return (AllShardsFailedException).
FanOut ==
    /\ stage = "fanout"
    /\ EndsBy(Reserve(est.fetch + (IF rerank THEN est.rerank ELSE 0),
                      Earlier(Floor, Later(Deadline - now, 0))))
    /\ asked' = Lists
    /\ samples' = samples \cup {ShardTracker}
    /\ \E answered \in SUBSET Slices :
          /\ hits' \in SUBSET (answered \X Lists)
          /\ stage' = IF answered = {} THEN "failed"
                      ELSE IF sse THEN "first" ELSE "rank"
    /\ UNCHANGED <<est, planVars, dense, rerank, steps, passages, scored, pages>>

\* RankArm: an arm ranks its mode's candidates, lexical ones without dense.
Ranked(arm) ==
    {h \in hits : IF ~dense \/ arm.mode = "lexical" THEN h[2] = "lexical"
                  ELSE arm.mode = "hybrid" \/ h[2] = "dense"}

\* FetchSnippetsAsync: the slices in `got` answered in time.
FetchSnippets(docs, kind, report, got) ==
    LET missing == {d \in docs : d[1] \notin got}
    IN  /\ samples' = samples \cup {"fetch"}
        /\ pages' = Append(pages, [kind |-> kind, steps |-> report, missing |-> missing])

\* The lexical page of a streamed search.
FirstPage ==
    /\ stage = "first"
    /\ EndsBy(AtLeast(MinFetch))
    /\ \E got \in SUBSET Slices :
          FetchSnippets({h \in hits : h[2] = "lexical"}, "lexical", steps, got)
    /\ stage' = "rank"
    /\ UNCHANGED <<est, planVars, dense, rerank, steps, asked, rankVars>>

-----------------------------------------------------------------------------
(* The rerank cascade. *)

Pool == UNION {Ranked(a) : a \in {b \in arms : b.rerank}}

\* Faulty variant of SkipReranker: the step replaces the report.
SkipRerankerOnly(reason) ==
    /\ rerank' = FALSE
    /\ steps' = {Step(RerankerSkipped, reason)}
    /\ stage' = "fetch"

SkipReranker(reason) ==
    /\ rerank' = FALSE
    /\ steps' = steps \cup {Step(RerankerSkipped, reason)}
    /\ stage' = "fetch"

\* Estimates are read again: other searches have recorded theirs meanwhile.
CheckBudget(fresh) ==
    /\ stage = "rank" /\ rerank /\ NeedsRerank
    /\ est' = fresh
    /\ IF Later(Deadline - now, 0) < fresh.rerank + fresh.fetch
       THEN SkipReranker("deadline")
       ELSE /\ stage' = IF Pool = {} THEN "fetch" ELSE "passages"
            /\ UNCHANGED <<rerank, steps>>
    /\ UNCHANGED <<now, planVars, dense, asked, rankVars, samples, pages>>

NoRerank ==
    /\ stage = "rank" /\ ~(rerank /\ NeedsRerank)
    /\ stage' = "fetch"
    /\ UNCHANGED <<now, est, planVars, dense, rerank, steps, asked, rankVars, samples, pages>>

CascadeEnd == Reserve(est.fetch, 0)

\* Faulty variant of FetchPassages: without passages it starts over.
FetchPassagesAgain(got) ==
    /\ stage = "passages" /\ EndsBy(CascadeEnd)
    /\ passages' = {d \in Pool : d[1] \in got}
    /\ stage' = IF passages' = {} THEN "rank" ELSE "score"
    /\ UNCHANGED <<est, planVars, dense, rerank, steps, asked, hits, scored, samples, pages>>

\* Passages come from the slices that answer in time; with none there is
\* nothing to rerank, with some the rest keep their fused order behind.
FetchPassages(got) ==
    /\ stage = "passages" /\ EndsBy(CascadeEnd)
    /\ passages' = {d \in Pool : d[1] \in got}
    /\ IF passages' = {}
       THEN SkipReranker("passages_unavailable")
       ELSE stage' = "score" /\ UNCHANGED <<rerank, steps>>
    /\ UNCHANGED <<est, planVars, dense, asked, hits, scored, samples, pages>>

Scored ==
    /\ stage = "score" /\ EndsBy(CascadeEnd)
    /\ scored' = passages
    /\ samples' = samples \cup {"rerank", "fetch"}
    /\ stage' = "fetch"
    /\ UNCHANGED <<est, planVars, dense, rerank, steps, asked, hits, passages, pages>>

\* The reranker throws, or is terminated at its deadline.
RerankerGivesUp(reason) ==
    /\ stage = "score" /\ EndsBy(CascadeEnd)
    /\ reason = "deadline" => now' = CascadeEnd
    /\ SkipReranker(reason)
    /\ UNCHANGED <<est, planVars, dense, asked, rankVars, samples, pages>>

-----------------------------------------------------------------------------
PageDocs == UNION {Ranked(a) : a \in arms}

\* Faulty variant of FinalEnd: the floor is counted from the deadline's end.
FinalEndTwice == AtLeast(MinFetch) + MinFetch

FinalEnd == AtLeast(MinFetch)

FinalPage ==
    /\ stage = "fetch" /\ EndsBy(FinalEnd)
    /\ \E got \in SUBSET Slices : FetchSnippets(PageDocs, "final", steps, got)
    /\ stage' = "served"
    /\ UNCHANGED <<est, planVars, dense, rerank, steps, asked, rankVars>>

Running == stage \notin {"served", "failed", "cancelled"}

\* The caller disconnects: the token throws out of whichever stage runs.
Cancel ==
    /\ Running
    /\ stage' = "cancelled"
    /\ UNCHANGED <<now, est, planVars, dense, rerank, steps, asked, rankVars, samples, pages>>

Progress ==
    \/ \E caps \in [encoder : BOOLEAN, vectors : BOOLEAN, reranker : BOOLEAN],
          inFlight \in 1..MaxInFlight, probe \in BOOLEAN : MakePlan(caps, inFlight, probe)
    \/ Encoded
    \/ \E reason \in {"encode_deadline", "encode_failed"} : EncoderGivesUp(reason)
    \/ FanOut
    \/ FirstPage
    \/ \E fresh \in Estimates : CheckBudget(fresh)
    \/ NoRerank
    \/ \E got \in SUBSET Slices : FetchPassages(got)
    \/ Scored
    \/ \E reason \in {"deadline", "error"} : RerankerGivesUp(reason)
    \/ FinalPage

Next == Progress \/ Cancel

Spec == Init /\ [][Next]_vars

-----------------------------------------------------------------------------
(* Properties. *)

TypeOK ==
    /\ stage \in {"plan", "encode", "fanout", "first", "rank", "passages", "score",
                  "fetch", "served", "failed", "cancelled"}
    /\ now \in Nat /\ arms \in Arms /\ sse \in BOOLEAN /\ est \in Estimates
    /\ {lexical, shrink, dense, rerank} \subseteq BOOLEAN
    /\ Kinds(steps) \subseteq {RerankerSkipped, DenseBeamShrunk, LexicalOnly}
    /\ asked \subseteq {"lexical", "dense"} /\ hits \subseteq Slices \X asked
    /\ passages \subseteq hits /\ scored \in {{}, passages}
    /\ samples \subseteq Trackers
    /\ Len(pages) <= 2

\* The fan-out has brought hits back.
Retrieved == stage \in {"first", "rank", "passages", "score", "fetch", "served"}

\* What the final page lacks of what was asked for is in its report, and the
\* report names nothing that did happen: dense retrieval, whatever dropped it
\* (a missing model, the budget, load, the encoder); the full beam; the
\* reranker, whatever skipped it and however late.  No kind is reported twice
\* (BuildDegradation, docs/SLO.md "Degradation is visible").  A reranker that
\* got the passages of some slices only is no step, in the code and here.
HonestReport ==
    stage = "served" =>
        LET kinds == Kinds(pages[Len(pages)].steps)
        IN  /\ LexicalOnly \in kinds <=> NeedsDense /\ "dense" \notin asked
            /\ "dense" \in asked => (DenseBeamShrunk \in kinds <=> shrink)
            /\ RerankerSkipped \in kinds => NeedsRerank /\ scored = {}
            /\ NeedsRerank /\ Pool # {} /\ scored = {} => RerankerSkipped \in kinds
            /\ \A s, t \in pages[Len(pages)].steps : s.kind = t.kind => s = t

\* Whatever the plan and the encoder did, every arm ranks a list the shards
\* were asked for: a dense-only request that loses its vectors still gets a
\* lexical ranking (SearchCoreAsync: lexical = plan.Lexical || !dense).
EveryArmHasAList ==
    Retrieved =>
        \A a \in arms : IF ~dense \/ a.mode = "lexical" THEN "lexical" \in asked
                        ELSE IF a.mode = "dense" THEN "dense" \in asked
                        ELSE asked = {"lexical", "dense"}

\* A search is late by the snippets' minimum at most, twice that when it
\* streams: the stages before never pass the deadline, cut off or not, and the
\* cascade never eats the snippets' share: after a reranker that ran, in time or
\* cut off, the estimated fetch still fits before the deadline.
LatenessBounded ==
    /\ now <= Deadline + (IF sse THEN 2 * MinFetch ELSE MinFetch)
    /\ stage \in {"encode", "fanout", "first"} => now <= Deadline
    /\ stage \in {"passages", "score"} \/ (stage = "fetch" /\ passages # {})
          => now + est.fetch <= Deadline

\* The cost model learns from stages that ran to their end, each under the
\* name of what ran: an encoder or a reranker that was cut off or failed leaves
\* no sample, and a fan-out that fell back to lexical hits is a lexical one.
SamplesAreOfWhatRan ==
    Retrieved =>
        /\ "encode" \in samples <=> "dense" \in asked
        /\ samples \cap {"full", "shrunk", "lexical"} =
              {IF "dense" \notin asked THEN "lexical" ELSE IF shrink THEN "shrunk" ELSE "full"}
        /\ "rerank" \in samples <=> scored # {}

\* A streamed search sends its lexical page once and before the final one, and
\* the final page takes nothing back of what the first one reported.
PagesInOrder ==
    /\ Len(pages) = 2 => /\ sse /\ pages[1].kind = "lexical" /\ pages[2].kind = "final"
                         /\ pages[1].steps \subseteq pages[2].steps
    /\ stage = "served" => pages # <<>> /\ pages[Len(pages)].kind = "final"
                           /\ Len(pages) = IF sse THEN 2 ELSE 1
==============================================================================
