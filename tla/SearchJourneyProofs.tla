------------------------- MODULE SearchJourneyProofs -------------------------
(***************************************************************************)
(* Both ends of a search.                                                  *)
(*                                                                         *)
(* The broker's: for any slices, rankers, estimates, deadline and load, the *)
(* report on a page is honest, every ranker has a list to rank, the page   *)
(* is late by the snippet minimum at most, and only what ran is measured.  *)
(*                                                                         *)
(* The browser's: for any texts, modes and queries, and any order in which *)
(* what is asked for arrives, fails or is abandoned, the page shows the    *)
(* newest query's list, and what the user does with a list is told whole,  *)
(* in order and under the consent it was logged under.  The first rests on *)
(* the newest run alone (HookInv); the second on what the tracker and the  *)
(* logger remember agreeing with every list's story so far (Going, Sends), *)
(* and on lists coming to the page in one order (Rank, Reached), so that a *)
(* dwell is never told of a list that has been settled again.              *)
(***************************************************************************)
EXTENDS SearchJourney, FiniteSetTheorems, SequenceTheorems, TLAPS

-----------------------------------------------------------------------------
(* The plan of a search names what it drops. *)

\* What the policy reckons with; the cost model's estimates are positive times.
Costs == [Trackers -> Int]

\* A report names degradations only.
Named(report) == \A s \in report : s.kind \in {RerankerSkipped, DenseBeamShrunk, LexicalOnly}

\* Every level has a cost.
LEMMA CostIsInt ==
    ASSUME NEW e \in Costs, NEW l \in 0..3, NEW d \in BOOLEAN, NEW r \in BOOLEAN
    PROVE  Cost(l, d, r, e) \in Int
<1>1. /\ e.encode \in Int /\ e.full \in Int /\ e.shrunk \in Int
      /\ e.lexical \in Int /\ e.rerank \in Int /\ e.fetch \in Int
  BY DEF Costs, Trackers
<1>2. QED
  BY <1>1 DEF Cost

\* The levels up to a threshold.
LEMMA LevelsCount ==
    ASSUME NEW k \in Nat
    PROVE  IsFiniteSet(1..k) /\ Cardinality(1..k) = k
<1>1. 1 \in Int /\ k \in Int
  OBVIOUS
<1>2. IsFiniteSet(1..k) /\ Cardinality(1..k) = IF 1 > k THEN 0 ELSE k - 1 + 1
  BY <1>1, FS_Interval, Zenon
<1>3. QED
  BY <1>2

Crossed(n, thresholds) == {i \in 1..Len(thresholds) : i <= 3 /\ n > thresholds[i]}

\* Load sheds at most three levels.
LEMMA PressureIsALevel ==
    ASSUME NEW n \in Nat, NEW thresholds \in Seq(Nat)
    PROVE  /\ IsFiniteSet(Crossed(n, thresholds))
           /\ PressureLevel(n, thresholds) = Cardinality(Crossed(n, thresholds))
           /\ PressureLevel(n, thresholds) \in 0..3
<1>1. Crossed(n, thresholds) \subseteq 1..3
  BY DEF Crossed
<1>2. IsFiniteSet(1..3) /\ Cardinality(1..3) = 3
  BY LevelsCount
<1>3. /\ IsFiniteSet(Crossed(n, thresholds))
      /\ Cardinality(Crossed(n, thresholds)) \in Nat
      /\ Cardinality(Crossed(n, thresholds)) <= 3
  BY <1>1, <1>2, FS_Subset, FS_CardinalityType
<1>4. QED
  BY <1>3 DEF PressureLevel, Crossed

\* Some level at or above the floor is always chosen: the last needs no budget.
LEMMA ChosenIsALevel ==
    ASSUME NEW e \in Costs, NEW d \in BOOLEAN, NEW r \in BOOLEAN,
           NEW left \in Int, NEW floor \in 0..3, NEW probe \in BOOLEAN
    PROVE  ChosenLevel(d, r, left, e, floor, probe) \in floor..3
<1> DEFINE fits(l) == l = 3 \/ probe \/ Cost(l, d, r, e) <= left
           least(l) == fits(l) /\ \A m \in floor..(l - 1) : ~fits(m)
<1>1. \A l \in floor..3 : Cost(l, d, r, e) \in Int
  BY CostIsInt
<1>2. \E l \in floor..3 : least(l)
  <2> HIDE DEF fits
  <2>1. fits(3)
    BY DEF fits
  <2>2. \E l \in floor..3 : fits(l) /\ \A m \in floor..(l - 1) : ~fits(m)
    <3>1. CASE floor = 3
      BY <3>1, <2>1
    <3>2. CASE floor = 2
      <4>1. CASE fits(2)  BY <3>2, <4>1
      <4>2. CASE ~fits(2)  BY <3>2, <4>2, <2>1
      <4>3. QED  BY <4>1, <4>2
    <3>3. CASE floor = 1
      <4>1. CASE fits(1)  BY <3>3, <4>1
      <4>2. CASE ~fits(1) /\ fits(2)  BY <3>3, <4>2
      <4>3. CASE ~fits(1) /\ ~fits(2)  BY <3>3, <4>3, <2>1
      <4>4. QED  BY <4>1, <4>2, <4>3
    <3>4. CASE floor = 0
      <4>1. CASE fits(0)  BY <3>4, <4>1
      <4>2. CASE ~fits(0) /\ fits(1)  BY <3>4, <4>2
      <4>3. CASE ~fits(0) /\ ~fits(1) /\ fits(2)  BY <3>4, <4>3
      <4>4. CASE ~fits(0) /\ ~fits(1) /\ ~fits(2)  BY <3>4, <4>4, <2>1
      <4>5. QED  BY <4>1, <4>2, <4>3, <4>4
    <3>5. QED  BY <3>1, <3>2, <3>3, <3>4
  <2>3. QED  BY <2>2
<1>3. \E l \in floor..3 :
        /\ l = 3 \/ probe \/ Cost(l, d, r, e) <= left
        /\ \A m \in floor..(l - 1) : ~probe /\ Cost(m, d, r, e) > left
  <2>1. PICK l \in floor..3 : least(l)
    BY <1>2
  <2>2. \A m \in floor..(l - 1) : ~probe /\ Cost(m, d, r, e) > left
    BY <2>1, <1>1
  <2>3. QED
    BY <2>1, <2>2
<1>4. QED
  BY <1>3 DEF ChosenLevel

\* A plan drops only what the request asked for, and its steps name exactly
\* what it drops, each once.
HonestPlan(req, p) ==
    /\ p.dense \in BOOLEAN /\ p.lexical \in BOOLEAN
    /\ p.shrink \in BOOLEAN /\ p.rerank \in BOOLEAN
    /\ Named(p.steps)
    /\ req.lexical => p.lexical
    /\ p.dense => req.dense
    /\ p.rerank => req.rerank
    /\ LexicalOnly \in Kinds(p.steps) <=> req.dense /\ ~p.dense
    /\ p.dense => (DenseBeamShrunk \in Kinds(p.steps) <=> p.shrink)
    /\ RerankerSkipped \in Kinds(p.steps) <=> req.rerank /\ ~p.rerank
    /\ \A s, t \in p.steps : s.kind = t.kind => s = t

\* DegradationPolicy.Plan never hides what it drops, whatever the budget, the
\* estimates, the load and the missing models.
LEMMA PlanIsHonest ==
    ASSUME NEW req \in [lexical : BOOLEAN, dense : BOOLEAN, rerank : BOOLEAN],
           NEW caps \in [encoder : BOOLEAN, vectors : BOOLEAN, reranker : BOOLEAN],
           NEW left \in Int, NEW e \in Costs, NEW floor \in 0..3, NEW probe \in BOOLEAN,
           NEW p, p = Plan(req, caps, left, e, floor, probe)
    PROVE  HonestPlan(req, p)
<1> DEFINE d == req.dense /\ caps.encoder /\ caps.vectors
           r == req.rerank /\ caps.reranker
           chosen == ChosenLevel(d, r, left, e, floor, probe)
           Reason(level) == IF level <= floor THEN "load" ELSE "deadline"
           budget == {k \in 1..3 : \/ k = RerankerSkipped /\ r /\ chosen >= 1
                                   \/ k = DenseBeamShrunk /\ d /\ chosen = 2
                                   \/ k = LexicalOnly /\ d /\ chosen = 3}
           costly == {Step(k, Reason(k)) : k \in budget}
           noVectors == Step(LexicalOnly, IF caps.encoder THEN "vector_index_unavailable"
                                                          ELSE "encoder_unavailable")
           noModel == Step(RerankerSkipped, "model_unavailable")
<1>1. d \in BOOLEAN /\ r \in BOOLEAN /\ (d => req.dense) /\ (r => req.rerank)
  OBVIOUS
<1>2. req.dense \in BOOLEAN /\ req.rerank \in BOOLEAN /\ req.lexical \in BOOLEAN
  OBVIOUS
<1>3. chosen \in 0..3
  BY ChosenIsALevel
<1>4. /\ p.dense = (d /\ chosen < 3) /\ p.lexical = (req.lexical \/ ~(d /\ chosen < 3))
      /\ p.shrink = (d /\ chosen = 2) /\ p.rerank = (r /\ chosen = 0)
      /\ p.steps = CapabilitySteps(req, caps) \cup costly
  BY DEF Plan
<1>5. \A k \in budget : Step(k, Reason(k)).kind = k
  BY DEF Step
<1>6. noVectors.kind = LexicalOnly /\ noModel.kind = RerankerSkipped
  BY DEF Step
<1>7. CapabilitySteps(req, caps) = {s \in {noVectors} : req.dense /\ ~d}
                                     \cup {s \in {noModel} : req.rerank /\ ~r}
  <2>1. req.dense /\ ~(caps.encoder /\ caps.vectors) <=> req.dense /\ ~d
    OBVIOUS
  <2>2. req.rerank /\ ~caps.reranker <=> req.rerank /\ ~r
    OBVIOUS
  <2>3. QED
    BY <2>1, <2>2 DEF CapabilitySteps
<1> HIDE DEF d, r, chosen, noVectors, noModel
<1>8. \A k : k \in Kinds(p.steps) <=>
          \/ k \in budget
          \/ k = LexicalOnly /\ req.dense /\ ~d
          \/ k = RerankerSkipped /\ req.rerank /\ ~r
  <2> HIDE DEF budget
  <2> QED  BY <1>4, <1>5, <1>6, <1>7 DEF Kinds
<1>9. Named(p.steps)
  <2>1. \A k \in budget : k \in {RerankerSkipped, DenseBeamShrunk, LexicalOnly}
    OBVIOUS
  <2> HIDE DEF budget
  <2>2. QED
    BY <2>1, <1>4, <1>5, <1>6, <1>7 DEF Named
<1>10. \A s, t \in p.steps : s.kind = t.kind => s = t
  <2>1. ~(LexicalOnly \in budget /\ ~d) /\ ~(RerankerSkipped \in budget /\ ~r)
    BY DEF LexicalOnly, RerankerSkipped, DenseBeamShrunk
  <2>2. LexicalOnly # RerankerSkipped
    BY DEF LexicalOnly, RerankerSkipped
  <2> HIDE DEF budget, Reason
  <2>3. QED
    BY <1>4, <1>5, <1>6, <1>7, <2>1, <2>2
<1>11. p.dense \in BOOLEAN /\ p.lexical \in BOOLEAN /\ p.shrink \in BOOLEAN /\ p.rerank \in BOOLEAN
  BY <1>4
<1>12. (req.lexical => p.lexical) /\ (p.dense => req.dense) /\ (p.rerank => req.rerank)
  BY <1>1, <1>4
<1>13. /\ LexicalOnly \in budget <=> d /\ chosen = 3
       /\ DenseBeamShrunk \in budget <=> d /\ chosen = 2
       /\ RerankerSkipped \in budget <=> r /\ chosen >= 1
  BY DEF LexicalOnly, RerankerSkipped, DenseBeamShrunk
<1> HIDE DEF budget
<1>14. LexicalOnly \in Kinds(p.steps) <=> req.dense /\ ~p.dense
  <2>1. LexicalOnly \in Kinds(p.steps) <=> (d /\ chosen = 3) \/ (req.dense /\ ~d)
    BY <1>8, <1>13 DEF LexicalOnly, RerankerSkipped
  <2>2. p.dense <=> d /\ chosen < 3
    BY <1>4
  <2>3. chosen < 3 <=> chosen # 3
    BY <1>3
  <2>4. QED
    BY <2>1, <2>2, <2>3, <1>1, Zenon
<1>15. p.dense => (DenseBeamShrunk \in Kinds(p.steps) <=> p.shrink)
  <2>1. DenseBeamShrunk \in Kinds(p.steps) <=> d /\ chosen = 2
    BY <1>8, <1>13 DEF LexicalOnly, RerankerSkipped, DenseBeamShrunk
  <2>2. QED
    BY <2>1, <1>4
<1>16. RerankerSkipped \in Kinds(p.steps) <=> req.rerank /\ ~p.rerank
  <2>1. RerankerSkipped \in Kinds(p.steps) <=> (r /\ chosen >= 1) \/ (req.rerank /\ ~r)
    BY <1>8, <1>13 DEF LexicalOnly, RerankerSkipped
  <2>2. p.rerank <=> r /\ chosen = 0
    BY <1>4
  <2>3. chosen >= 1 <=> chosen # 0
    BY <1>3
  <2>4. QED
    BY <2>1, <2>2, <2>3, <1>1, Zenon
<1>17. QED
  BY <1>9, <1>10, <1>11, <1>12, <1>14, <1>15, <1>16 DEF HonestPlan
-----------------------------------------------------------------------------
(* The broker. *)

\* The stages after the plan, and those before the reranker's outcome is known.
Planned  == stage \in {"encode", "fanout"} \/ Retrieved
Unscored == stage \in {"plan", "encode", "fanout", "first", "rank", "passages", "score"}

\* The part of the type invariant that says nothing of pages.
Types ==
    /\ stage \in {"plan", "encode", "fanout", "first", "rank", "passages", "score",
                  "fetch", "served", "failed", "cancelled"}
    /\ now \in Nat /\ arms \in Arms /\ sse \in BOOLEAN /\ est \in Estimates
    /\ lexical \in BOOLEAN /\ shrink \in BOOLEAN /\ dense \in BOOLEAN /\ rerank \in BOOLEAN
    /\ Named(steps)
    /\ asked \subseteq {"lexical", "dense"} /\ hits \subseteq Slices \X asked
    /\ passages \subseteq hits /\ scored \in {{}, passages}
    /\ samples \subseteq Trackers

\* What the plan and the encoder decided, and what became of it.
Lists0 ==
    /\ Planned => (NeedsLexical => lexical) /\ (dense => NeedsDense) /\ (rerank => NeedsRerank)
    /\ stage = "encode" => dense
    /\ Retrieved => asked = Lists

\* Passages and scores exist from their stages on, and only while the reranker
\* has not been given up.
Cascade ==
    /\ Unscored => scored = {}
    /\ Unscored /\ stage # "score" => passages = {}
    /\ stage \in {"passages", "score"} => rerank /\ Pool # {}
    /\ stage = "score" => passages # {}
    /\ stage \in {"fetch", "served"} =>
          (scored # {} <=> rerank /\ NeedsRerank /\ Pool # {})

\* How late each stage may start.
Times ==
    /\ stage = "plan" => now = 0
    /\ stage \in {"encode", "fanout", "first"} => now <= Deadline
    /\ stage \in {"rank", "fetch"} => now <= Deadline + (IF sse THEN MinFetch ELSE 0)
    /\ stage = "passages" => now + est.rerank + est.fetch <= Deadline
    /\ stage = "score" \/ (stage = "fetch" /\ passages # {}) => now + est.fetch <= Deadline
    /\ now <= Deadline + (IF sse THEN 2 * MinFetch ELSE MinFetch)

\* The samples of the stages that are over.
Measured ==
    /\ stage \in {"plan", "encode"} => samples = {}
    /\ stage = "fanout" => samples = {t \in {"encode"} : dense}
    /\ Retrieved =>
          /\ "encode" \in samples <=> dense
          /\ samples \cap {"full", "shrunk", "lexical"} = {ShardTracker}
          /\ "rerank" \in samples <=> scored # {}

\* The report names what is lacking, at every stage after the plan.
Report ==
    Planned =>
        /\ LexicalOnly \in Kinds(steps) <=> NeedsDense /\ ~dense
        /\ dense => (DenseBeamShrunk \in Kinds(steps) <=> shrink)
        /\ RerankerSkipped \in Kinds(steps) <=> NeedsRerank /\ ~rerank
        /\ \A s, t \in steps : s.kind = t.kind => s = t

\* A streamed search has sent its lexical page before the cascade starts, with
\* a report that later stages only add to.
FirstSent ==
    \E report, missing :
        /\ report \subseteq steps
        /\ pages = <<[kind |-> "lexical", steps |-> report, missing |-> missing]>>

\* The pages sent so far.
Sent ==
    /\ stage \in {"plan", "encode", "fanout", "first", "failed"} => pages = <<>>
    /\ stage = "first" => sse
    /\ stage \in {"rank", "passages", "score", "fetch"} =>
          IF sse THEN FirstSent ELSE pages = <<>>
    /\ stage = "served" =>
          \E report, missing, gone :
              LET final == [kind |-> "final", steps |-> steps, missing |-> gone]
              IN  /\ report \subseteq steps
                  /\ pages = IF sse THEN <<[kind |-> "lexical", steps |-> report,
                                           missing |-> missing], final>>
                                    ELSE <<final>>
    /\ stage = "cancelled" => pages = <<>> \/ FirstSent

IInv == Types /\ Lists0 /\ Cascade /\ Times /\ Measured /\ Report /\ Sent

-----------------------------------------------------------------------------
(* The deadlines of the stages. *)

\* Estimates are positive times.
LEMMA EstimatesArePositive ==
    ASSUME NEW e \in Estimates
    PROVE  /\ e.encode \in Nat \ {0} /\ e.full \in Nat \ {0} /\ e.shrunk \in Nat \ {0}
           /\ e.lexical \in Nat \ {0} /\ e.rerank \in Nat \ {0} /\ e.fetch \in Nat \ {0}
           /\ e \in Costs
  BY EstimatesAssumption DEF Trackers, Costs

LEMMA EstimateTimes ==
    ASSUME Types
    PROVE  /\ est.lexical \in Nat /\ est.rerank \in Nat /\ est.fetch \in Nat
           /\ est.encode \in Nat /\ est.rerank > 0
  BY EstimatesArePositive DEF Types

\* A reserved share is kept back as long as the stage does not start in it,
\* and a stage that starts in time never gets past the deadline.
LEMMA ReserveBounds ==
    ASSUME Types, NEW share \in Nat, NEW floor \in Nat, NEW end \in now..Reserve(share, floor)
    PROVE  /\ end \in Nat /\ end >= now
           /\ now <= Deadline /\ floor <= Deadline => end <= Deadline
           /\ floor = 0 /\ now + share <= Deadline => end + share <= Deadline
  BY TimesAssumption DEF Types, Reserve, Later, Earlier

LEMMA AtLeastBounds ==
    ASSUME Types, NEW end \in now..AtLeast(MinFetch)
    PROVE  /\ end \in Nat /\ end >= now
           /\ end <= Deadline \/ end <= now + MinFetch
  BY TimesAssumption DEF Types, AtLeast, Later

\* What is asked of the request does not change while it runs.
LEMMA NeedsAreKept ==
    ASSUME UNCHANGED planVars
    PROVE  NeedsLexical' = NeedsLexical /\ NeedsDense' = NeedsDense /\ NeedsRerank' = NeedsRerank
  BY DEF planVars, NeedsLexical, NeedsDense, NeedsRerank

LEMMA PoolIsKept ==
    ASSUME UNCHANGED planVars, dense' = dense, hits' = hits
    PROVE  Pool' = Pool
  BY DEF planVars, Pool, Ranked

LEMMA ListsAreKept ==
    ASSUME lexical' = lexical, dense' = dense
    PROVE  Lists' = Lists
  BY DEF Lists

LEMMA TrackerIsKept ==
    ASSUME shrink' = shrink, dense' = dense
    PROVE  ShardTracker' = ShardTracker
  BY DEF ShardTracker

\* A report may name one more degradation that it did not name before.
LEMMA ReportGrows ==
    ASSUME NEW kind \in {RerankerSkipped, DenseBeamShrunk, LexicalOnly}, NEW reason,
           Named(steps), \A s, t \in steps : s.kind = t.kind => s = t,
           kind \notin Kinds(steps), steps' = steps \cup {Step(kind, reason)}
    PROVE  /\ Named(steps')
           /\ \A s, t \in steps' : s.kind = t.kind => s = t
           /\ Kinds(steps') = Kinds(steps) \cup {kind}
<1>1. Step(kind, reason).kind = kind
  BY DEF Step
<1>2. QED
  BY <1>1 DEF Named, Kinds

-----------------------------------------------------------------------------
LEMMA InitIInv == Init => IInv
<1> SUFFICES ASSUME Init PROVE IInv
  OBVIOUS
<1> USE DEF Init
<1>1. Types
  BY DEF Types, Named
<1>2. Lists0 /\ Cascade /\ Measured /\ Report
  BY DEF Lists0, Cascade, Measured, Report, Planned, Unscored, Retrieved
<1>3. Times
  BY TimesAssumption DEF Times
<1>4. Sent
  BY DEF Sent
<1>5. QED
  BY <1>1, <1>2, <1>3, <1>4 DEF IInv

LEMMA MakePlanKeeps ==
    ASSUME IInv, NEW caps \in [encoder : BOOLEAN, vectors : BOOLEAN, reranker : BOOLEAN],
           NEW inFlight \in 1..MaxInFlight, NEW probe \in BOOLEAN,
           MakePlan(caps, inFlight, probe)
    PROVE  IInv'
<1> DEFINE req == [lexical |-> NeedsLexical, dense |-> NeedsDense, rerank |-> NeedsRerank]
           p == Plan(req, caps, Deadline - now, est,
                     PressureLevel(inFlight, Thresholds), probe)
<1> USE DEF IInv
<1>1. /\ stage = "plan" /\ stage' = IF p.dense THEN "encode" ELSE "fanout"
      /\ lexical' = p.lexical /\ dense' = p.dense /\ shrink' = p.shrink
      /\ rerank' = p.rerank /\ steps' = p.steps
      /\ UNCHANGED <<now, arms, sse, est, asked, rankVars, samples, pages>>
  BY DEF MakePlan
<1>2. /\ NeedsLexical' = NeedsLexical /\ NeedsDense' = NeedsDense
      /\ NeedsRerank' = NeedsRerank
  BY <1>1 DEF NeedsLexical, NeedsDense, NeedsRerank
<1>3. req \in [lexical : BOOLEAN, dense : BOOLEAN, rerank : BOOLEAN]
  BY DEF NeedsLexical, NeedsDense, NeedsRerank
<1>4. PressureLevel(inFlight, Thresholds) \in 0..3 /\ Deadline - now \in Int /\ est \in Costs
  BY PressureIsALevel, EstimatesArePositive, TimesAssumption, LoadAssumption DEF Types
<1> HIDE DEF p
<1>5. /\ p.dense \in BOOLEAN /\ p.lexical \in BOOLEAN
      /\ p.shrink \in BOOLEAN /\ p.rerank \in BOOLEAN
      /\ Named(p.steps)
      /\ NeedsLexical => p.lexical
      /\ p.dense => NeedsDense
      /\ p.rerank => NeedsRerank
      /\ LexicalOnly \in Kinds(p.steps) <=> NeedsDense /\ ~p.dense
      /\ p.dense => (DenseBeamShrunk \in Kinds(p.steps) <=> p.shrink)
      /\ RerankerSkipped \in Kinds(p.steps) <=> NeedsRerank /\ ~p.rerank
      /\ \A s, t \in p.steps : s.kind = t.kind => s = t
  <2>1. p = Plan(req, caps, Deadline - now, est, PressureLevel(inFlight, Thresholds), probe)
    BY DEF p
  <2>2. req.lexical = NeedsLexical /\ req.dense = NeedsDense /\ req.rerank = NeedsRerank
    OBVIOUS
  <2> HIDE DEF req
  <2>3. HonestPlan(req, p)
    BY <1>3, <1>4, <2>1, PlanIsHonest
  <2>4. QED
    BY <2>2, <2>3 DEF HonestPlan
<1>6. Types'
  BY <1>1, <1>5 DEF Types, rankVars, Kinds, Named
<1>7. Lists0'
  BY <1>1, <1>2, <1>5 DEF Lists0, Planned, Retrieved
<1>8. Cascade'
  BY <1>1 DEF Cascade, Unscored, rankVars
<1>9. Times'
  BY <1>1, TimesAssumption DEF Times, Types
<1>10. Measured'
  BY <1>1, <1>5 DEF Measured, Retrieved
<1>11. Report'
  BY <1>1, <1>2, <1>5 DEF Report, Kinds
<1>12. Sent'
  BY <1>1 DEF Sent
<1>13. QED
  BY <1>6, <1>7, <1>8, <1>9, <1>10, <1>11, <1>12

LEMMA EncodeKeeps ==
    ASSUME IInv,
           Encoded \/ \E reason \in {"encode_deadline", "encode_failed"} : EncoderGivesUp(reason)
    PROVE  IInv'
<1> USE DEF IInv
<1>1. /\ stage = "encode" /\ stage' = "fanout" /\ now' \in now..EncodeEnd
      /\ UNCHANGED <<est, planVars, rerank, asked, rankVars, pages>>
  BY DEF Encoded, EncoderGivesUp, LeaveEncoder, EndsBy
<1>2. \/ /\ dense' = dense /\ steps' = steps /\ samples' = samples \cup {"encode"}
      \/ /\ dense' = FALSE /\ samples' = samples
         /\ \E reason : steps' = steps \cup {Step(LexicalOnly, reason)}
  BY DEF Encoded, EncoderGivesUp
<1>3. dense /\ NeedsDense /\ samples = {} /\ LexicalOnly \notin Kinds(steps)
  BY <1>1 DEF Lists0, Planned, Measured, Report
<1>4. NeedsLexical' = NeedsLexical /\ NeedsDense' = NeedsDense /\ NeedsRerank' = NeedsRerank
  BY <1>1, NeedsAreKept
<1>5. now' \in Nat /\ now' <= Deadline
  <2>1. est.lexical + est.fetch \in Nat /\ now <= Deadline
    BY <1>1, EstimateTimes DEF Times
  <2>2. QED
    BY <1>1, <2>1, ReserveBounds, TimesAssumption DEF EncodeEnd
<1>6. Named(steps') /\ Report'
  <2>1. \A s, t \in steps : s.kind = t.kind => s = t
    BY <1>1 DEF Report, Planned
  <2>2. CASE dense' = dense /\ steps' = steps
    <3>1. Named(steps') /\ Kinds(steps)' = Kinds(steps) /\ shrink' = shrink
      BY <2>2, <1>1 DEF Types, Named, Kinds, planVars
    <3>2. QED
      BY <3>1, <2>2, <1>1, <1>4 DEF Report, Planned
  <2>3. CASE dense' = FALSE /\ \E reason : steps' = steps \cup {Step(LexicalOnly, reason)}
    <3>1. PICK reason : steps' = steps \cup {Step(LexicalOnly, reason)}
      BY <2>3
    <3>2. /\ Named(steps')
          /\ \A s, t \in steps' : s.kind = t.kind => s = t
          /\ Kinds(steps') = Kinds(steps) \cup {LexicalOnly}
      BY <3>1, <2>1, <1>3, ReportGrows DEF Types
    <3>3. RerankerSkipped \in Kinds(steps)' <=> RerankerSkipped \in Kinds(steps)
      BY <3>2 DEF RerankerSkipped, LexicalOnly, Kinds
    <3>4. LexicalOnly \in Kinds(steps)'
      BY <3>2 DEF Kinds
    <3>5. QED
      BY <3>2, <3>3, <3>4, <2>3, <1>1, <1>3, <1>4 DEF Report, Planned
  <2>4. QED
    BY <1>2, <2>2, <2>3
<1>7. Types'
  BY <1>1, <1>2, <1>5, <1>6 DEF Types, rankVars, planVars, Trackers
<1>8. Lists0'
  BY <1>1, <1>2, <1>3, <1>4 DEF Lists0, Planned, Retrieved, planVars
<1>9. Cascade'
  BY <1>1 DEF Cascade, Unscored, rankVars
<1>10. Times'
  BY <1>1, <1>5, TimesAssumption DEF Times
<1>11. Measured'
  BY <1>1, <1>2, <1>3 DEF Measured, Retrieved
<1>12. Sent'
  BY <1>1 DEF Sent
<1>13. QED
  BY <1>6, <1>7, <1>8, <1>9, <1>10, <1>11, <1>12

LEMMA FanOutKeeps ==
    ASSUME IInv, FanOut
    PROVE  IInv'
<1> USE DEF IInv
<1>1. /\ stage = "fanout" /\ stage' \in {"failed", "first", "rank"}
      /\ stage' = "first" => sse
      /\ stage' = "rank" => ~sse
      /\ asked' = Lists /\ samples' = samples \cup {ShardTracker}
      /\ UNCHANGED <<est, planVars, dense, rerank, steps, passages, scored, pages>>
  BY DEF FanOut, Types
<1>2. hits' \subseteq Slices \X Lists /\ Lists \subseteq {"lexical", "dense"}
  BY DEF FanOut, Lists
<1>3. now' \in Nat /\ now' <= Deadline
  <2> DEFINE share == est.fetch + (IF rerank THEN est.rerank ELSE 0)
             floor == Earlier(Floor, Later(Deadline - now, 0))
  <2>1. share \in Nat /\ floor \in Nat /\ now <= Deadline /\ floor <= Deadline
    BY <1>1, EstimateTimes, TimesAssumption DEF Times, Types, Earlier, Later
  <2>2. now' \in now..Reserve(share, floor)
    BY DEF FanOut, EndsBy
  <2> HIDE DEF share, floor
  <2>3. QED
    BY <2>1, <2>2, ReserveBounds
<1>4. passages = {} /\ scored = {}
  BY <1>1 DEF Cascade, Unscored
<1>5. NeedsLexical' = NeedsLexical /\ NeedsDense' = NeedsDense /\ NeedsRerank' = NeedsRerank
  BY <1>1, NeedsAreKept
<1>6. Lists' = Lists /\ ShardTracker' = ShardTracker
  BY <1>1, ListsAreKept, TrackerIsKept DEF planVars
<1>7. Types'
  BY <1>1, <1>2, <1>3, <1>4 DEF Types, planVars, Named, Trackers, ShardTracker
<1>8. Lists0'
  BY <1>1, <1>5, <1>6 DEF Lists0, Planned, Retrieved, planVars
<1>9. Cascade'
  BY <1>1, <1>4 DEF Cascade, Unscored
<1>10. Times'
  BY <1>1, <1>3, TimesAssumption DEF Times, planVars
<1>11. Measured'
  <2>1. samples = {t \in {"encode"} : dense}
    BY <1>1 DEF Measured
  <2>2. ShardTracker \in {"full", "shrunk", "lexical"}
    BY DEF ShardTracker
  <2>3. /\ "encode" \in samples' <=> dense
        /\ samples' \cap {"full", "shrunk", "lexical"} = {ShardTracker}
        /\ "rerank" \notin samples'
    BY <1>1, <2>1, <2>2
  <2>4. QED
    BY <1>1, <1>4, <1>6, <2>3 DEF Measured, Retrieved
<1>12. Report'
  BY <1>1, <1>5 DEF Report, Planned, Retrieved, planVars, Kinds
<1>13. Sent'
  BY <1>1 DEF Sent, planVars
<1>14. QED
  BY <1>7, <1>8, <1>9, <1>10, <1>11, <1>12, <1>13

LEMMA FirstPageKeeps ==
    ASSUME IInv, FirstPage
    PROVE  IInv'
<1> USE DEF IInv
<1>1. /\ stage = "first" /\ stage' = "rank" /\ now' \in now..AtLeast(MinFetch)
      /\ samples' = samples \cup {"fetch"}
      /\ UNCHANGED <<est, planVars, dense, rerank, steps, asked, rankVars>>
  BY DEF FirstPage, FetchSnippets, EndsBy
<1>2. \E missing : pages' = Append(pages, [kind |-> "lexical", steps |-> steps,
                                           missing |-> missing])
  BY DEF FirstPage, FetchSnippets
<1>3. now' \in Nat /\ now <= Deadline /\ (now' <= Deadline \/ now' <= now + MinFetch)
  BY <1>1, AtLeastBounds DEF Times
<1>4. passages = {} /\ scored = {}
  BY <1>1 DEF Cascade, Unscored
<1>5. NeedsLexical' = NeedsLexical /\ NeedsDense' = NeedsDense /\ NeedsRerank' = NeedsRerank
  BY <1>1, NeedsAreKept
<1>6. Lists' = Lists /\ ShardTracker' = ShardTracker
  BY <1>1, ListsAreKept, TrackerIsKept DEF planVars
<1>7. Types'
  BY <1>1, <1>3 DEF Types, planVars, rankVars, Named, Trackers
<1>8. Lists0'
  BY <1>1, <1>5, <1>6 DEF Lists0, Planned, Retrieved, planVars
<1>9. Cascade'
  BY <1>1, <1>4 DEF Cascade, Unscored, rankVars
<1>10. Times'
  BY <1>1, <1>3, TimesAssumption DEF Times, planVars, Types, Sent
<1>11. Measured'
  BY <1>1, <1>4, <1>6 DEF Measured, Retrieved, rankVars
<1>12. Report'
  BY <1>1, <1>5 DEF Report, Planned, Retrieved, planVars, Kinds
<1>13. Sent'
  <2>1. pages = <<>> /\ sse' = sse
    BY <1>1 DEF Sent, planVars
  <2>2. FirstSent'
    <3>1. PICK missing : pages' = Append(pages, [kind |-> "lexical", steps |-> steps,
                                                 missing |-> missing])
      BY <1>2
    <3>2. pages' = <<[kind |-> "lexical", steps |-> steps, missing |-> missing]>>
      BY <2>1, <3>1
    <3>3. steps \subseteq steps' /\ steps' = steps
      BY <1>1
    <3>4. QED
      BY <3>2, <3>3 DEF FirstSent
  <2>3. QED
    BY <1>1, <2>1, <2>2 DEF Sent
<1>14. QED
  BY <1>7, <1>8, <1>9, <1>10, <1>11, <1>12, <1>13

-----------------------------------------------------------------------------
(* The cascade.  Each of its actions leaves the request, the plan, the lists *)
(* asked for, the candidates and the pages alone.                            *)

CascadeFrame == UNCHANGED <<planVars, dense, asked, hits, pages>>

\* What the reranker's outcome cannot disturb.
LEMMA CascadeFrameKeeps ==
    ASSUME IInv, CascadeFrame,
           stage \in {"rank", "passages", "score"},
           stage' \in {"rank", "passages", "score", "fetch"},
           steps \subseteq steps', rerank' => rerank
    PROVE  /\ NeedsLexical' = NeedsLexical /\ NeedsDense' = NeedsDense
           /\ NeedsRerank' = NeedsRerank /\ Pool' = Pool
           /\ Lists0' /\ Sent'
<1> USE DEF IInv
<1>1. UNCHANGED planVars /\ dense' = dense /\ asked' = asked /\ hits' = hits /\ pages' = pages
  BY DEF CascadeFrame
<1>2. NeedsLexical' = NeedsLexical /\ NeedsDense' = NeedsDense /\ NeedsRerank' = NeedsRerank
  BY <1>1, NeedsAreKept
<1>3. Pool' = Pool
  BY <1>1, PoolIsKept
<1>4. lexical' = lexical /\ sse' = sse
  BY <1>1 DEF planVars
<1>5. Lists' = Lists
  BY <1>1, <1>4, ListsAreKept
<1>6. Lists0'
  BY <1>1, <1>2, <1>4, <1>5 DEF Lists0, Planned, Retrieved
<1>7. Sent'
  BY <1>1, <1>4 DEF Sent, FirstSent
<1>8. QED
  BY <1>2, <1>3, <1>6, <1>7

\* Skipping the reranker is reported, once.
LEMMA SkipIsReported ==
    ASSUME IInv, CascadeFrame, NEW reason,
           stage \in {"rank", "passages", "score"}, rerank,
           SkipReranker(reason)
    PROVE  Named(steps') /\ Report' /\ steps \subseteq steps'
<1> USE DEF IInv
<1>1. /\ rerank' = FALSE /\ steps' = steps \cup {Step(RerankerSkipped, reason)}
      /\ stage' = "fetch"
  BY DEF SkipReranker
<1>2. NeedsRerank /\ RerankerSkipped \notin Kinds(steps)
  BY DEF Lists0, Planned, Retrieved, Report
<1>3. \A s, t \in steps : s.kind = t.kind => s = t
  BY DEF Report, Planned, Retrieved
<1>4. /\ Named(steps')
      /\ \A s, t \in steps' : s.kind = t.kind => s = t
      /\ Kinds(steps') = Kinds(steps) \cup {RerankerSkipped}
  BY <1>1, <1>2, <1>3, ReportGrows DEF Types
<1>5. /\ LexicalOnly \in Kinds(steps)' <=> LexicalOnly \in Kinds(steps)
      /\ DenseBeamShrunk \in Kinds(steps)' <=> DenseBeamShrunk \in Kinds(steps)
      /\ RerankerSkipped \in Kinds(steps)'
  BY <1>4 DEF RerankerSkipped, LexicalOnly, DenseBeamShrunk, Kinds
<1>6. /\ NeedsDense' = NeedsDense /\ NeedsRerank' = NeedsRerank
      /\ dense' = dense /\ shrink' = shrink
  BY NeedsAreKept DEF CascadeFrame, planVars
<1>7. Report'
  BY <1>1, <1>2, <1>4, <1>5, <1>6 DEF Report, Planned, Retrieved
<1>8. QED
  BY <1>1, <1>4, <1>7

\* A step that leaves the report alone leaves it honest.
LEMMA ReportIsKept ==
    ASSUME IInv, CascadeFrame,
           stage \in {"rank", "passages", "score"},
           rerank' = rerank, steps' = steps
    PROVE  Report'
<1>1. /\ NeedsDense' = NeedsDense /\ NeedsRerank' = NeedsRerank
      /\ dense' = dense /\ shrink' = shrink
  BY NeedsAreKept DEF CascadeFrame, planVars
<1>2. Kinds(steps)' = Kinds(steps)
  BY DEF Kinds
<1>3. QED
  BY <1>1, <1>2 DEF IInv, Report, Planned, Retrieved

LEMMA CheckBudgetKeeps ==
    ASSUME IInv, NEW fresh \in Estimates, CheckBudget(fresh)
    PROVE  IInv'
<1> USE DEF IInv
<1>1. /\ stage = "rank" /\ rerank /\ NeedsRerank /\ est' = fresh /\ CascadeFrame
      /\ UNCHANGED <<now, passages, scored, samples>>
  BY DEF CheckBudget, CascadeFrame, rankVars
<1>2. \/ SkipReranker("deadline")
      \/ /\ Later(Deadline - now, 0) >= fresh.rerank + fresh.fetch
         /\ stage' = IF Pool = {} THEN "fetch" ELSE "passages"
         /\ rerank' = rerank /\ steps' = steps
  <2>1. fresh.rerank + fresh.fetch \in Nat /\ Later(Deadline - now, 0) \in Int
    BY EstimatesArePositive, TimesAssumption DEF Types, Later
  <2>2. CASE Later(Deadline - now, 0) < fresh.rerank + fresh.fetch
    BY <2>2 DEF CheckBudget
  <2>3. CASE ~(Later(Deadline - now, 0) < fresh.rerank + fresh.fetch)
    <3>1. Later(Deadline - now, 0) >= fresh.rerank + fresh.fetch
      BY <2>1, <2>3
    <3>2. QED
      BY <2>3, <3>1 DEF CheckBudget
  <2>4. QED
    BY <2>2, <2>3
<1>3. Named(steps') /\ Report' /\ steps \subseteq steps' /\ rerank' \in BOOLEAN
      /\ (rerank' => rerank)
  <2>1. CASE SkipReranker("deadline")
    <3>1. Named(steps') /\ Report' /\ steps \subseteq steps'
      BY <1>1, <2>1, SkipIsReported
    <3>2. rerank' = FALSE
      BY <2>1 DEF SkipReranker
    <3>3. QED
      BY <3>1, <3>2
  <2>2. CASE rerank' = rerank /\ steps' = steps
    <3>1. Report'
      BY <1>1, <2>2, ReportIsKept
    <3>2. QED
      BY <3>1, <2>2 DEF Types
  <2>3. QED
    BY <1>2, <2>1, <2>2
<1>4. /\ stage' \in {"fetch", "passages"}
      /\ stage' = "passages" => rerank' = rerank /\ Pool # {}
      /\ stage' = "fetch" => ~rerank' \/ Pool = {}
  BY <1>2 DEF SkipReranker
<1>5. /\ NeedsRerank' = NeedsRerank /\ Pool' = Pool /\ Lists0' /\ Sent'
      /\ NeedsDense' = NeedsDense
  BY <1>1, <1>3, <1>4, CascadeFrameKeeps
<1>6. passages = {} /\ scored = {}
  BY <1>1 DEF Cascade, Unscored
<1>7. Types'
  BY <1>1, <1>3, <1>4 DEF Types, CascadeFrame, planVars
<1>8. Cascade'
  BY <1>1, <1>4, <1>5, <1>6 DEF Cascade, Unscored
<1>9. Times'
  <2>1. now \in Nat /\ fresh.rerank \in Nat /\ fresh.rerank > 0 /\ fresh.fetch \in Nat
        /\ sse' = sse /\ sse \in BOOLEAN
    BY <1>1, EstimatesArePositive DEF Types, CascadeFrame, planVars
  <2>2. now <= Deadline + (IF sse THEN MinFetch ELSE 0)
    BY <1>1 DEF Times
  <2>3. stage' = "passages" => now + fresh.rerank + fresh.fetch <= Deadline
    BY <1>2, <2>1, TimesAssumption DEF SkipReranker, Later
  <2>4. QED
    BY <1>1, <1>4, <1>6, <2>1, <2>2, <2>3, TimesAssumption DEF Times
<1>10. Measured'
  BY <1>1, <1>4, <1>6, TrackerIsKept DEF Measured, Retrieved, CascadeFrame, planVars
<1>11. QED
  BY <1>3, <1>5, <1>7, <1>8, <1>9, <1>10

LEMMA NoRerankKeeps ==
    ASSUME IInv, NoRerank
    PROVE  IInv'
<1> USE DEF IInv
<1>1. /\ stage = "rank" /\ stage' = "fetch" /\ ~(rerank /\ NeedsRerank) /\ CascadeFrame
      /\ UNCHANGED <<now, est, rerank, steps, passages, scored, samples>>
  BY DEF NoRerank, CascadeFrame, rankVars
<1>2. /\ NeedsRerank' = NeedsRerank /\ Pool' = Pool /\ Lists0' /\ Sent'
  BY <1>1, CascadeFrameKeeps
<1>3. passages = {} /\ scored = {}
  BY <1>1 DEF Cascade, Unscored
<1>4. Types'
  BY <1>1 DEF Types, Named, CascadeFrame, planVars
<1>5. Cascade'
  BY <1>1, <1>2, <1>3 DEF Cascade, Unscored
<1>6. Times'
  BY <1>1, <1>3 DEF Times, CascadeFrame, planVars
<1>7. Measured'
  BY <1>1, <1>3, TrackerIsKept DEF Measured, Retrieved, CascadeFrame, planVars
<1>8. Report'
  BY <1>1, ReportIsKept
<1>9. QED
  BY <1>2, <1>4, <1>5, <1>6, <1>7, <1>8

\* The cascade's stages end before the share kept back for the snippets.
LEMMA CascadeEndBounds ==
    ASSUME Types, now + est.fetch <= Deadline, EndsBy(CascadeEnd)
    PROVE  now' \in Nat /\ now' + est.fetch <= Deadline
<1>1. est.fetch \in Nat /\ 0 \in Nat
  BY EstimateTimes
<1>2. now' \in now..Reserve(est.fetch, 0)
  BY DEF EndsBy, CascadeEnd
<1>3. QED
  BY <1>1, <1>2, ReserveBounds

LEMMA FetchPassagesKeeps ==
    ASSUME IInv, NEW got \in SUBSET Slices, FetchPassages(got)
    PROVE  IInv'
<1> USE DEF IInv
<1>1. /\ stage = "passages" /\ CascadeFrame
      /\ passages' = {d \in Pool : d[1] \in got}
      /\ UNCHANGED <<est, scored, samples>>
  BY DEF FetchPassages, CascadeFrame
<1>2. \/ passages' = {} /\ SkipReranker("passages_unavailable")
      \/ passages' # {} /\ stage' = "score" /\ rerank' = rerank /\ steps' = steps
  BY DEF FetchPassages
<1>3. now' \in Nat /\ now' + est.fetch <= Deadline
  <2>1. est.rerank \in Nat /\ est.fetch \in Nat /\ now \in Nat /\ now + est.fetch <= Deadline
    BY <1>1, EstimateTimes, TimesAssumption DEF Times, Types
  <2>2. QED
    BY <2>1, CascadeEndBounds DEF FetchPassages
<1>4. rerank /\ NeedsRerank /\ Pool # {} /\ scored = {}
  BY <1>1 DEF Cascade, Unscored, Lists0, Planned, Retrieved
<1>5. Named(steps') /\ Report' /\ steps \subseteq steps'
  <2>1. CASE SkipReranker("passages_unavailable")
    BY <1>1, <1>4, <2>1, SkipIsReported
  <2>2. CASE rerank' = rerank /\ steps' = steps
    <3>1. Report'
      BY <1>1, <2>2, ReportIsKept
    <3>2. QED
      BY <3>1, <2>2 DEF Types
  <2>3. QED
    BY <1>2, <2>1, <2>2
<1>6. \/ stage' = "fetch" /\ rerank' = FALSE /\ passages' = {}
      \/ stage' = "score" /\ rerank' = rerank /\ passages' # {}
  BY <1>2 DEF SkipReranker
<1>7. NeedsRerank' = NeedsRerank /\ Pool' = Pool /\ Lists0' /\ Sent'
  BY <1>1, <1>4, <1>5, <1>6, CascadeFrameKeeps
<1>8. Pool \subseteq hits
  BY DEF Pool, Ranked
<1>9. Types'
  BY <1>1, <1>3, <1>4, <1>5, <1>6, <1>8 DEF Types, CascadeFrame, planVars
<1>10. Cascade'
  BY <1>1, <1>4, <1>6, <1>7 DEF Cascade, Unscored
<1>11. Times'
  <2>1. est' = est /\ sse' = sse /\ est.fetch \in Nat
    BY <1>1, EstimateTimes DEF CascadeFrame, planVars
  <2>2. now' <= Deadline
    BY <1>3, <2>1, TimesAssumption
  <2>3. QED
    BY <1>3, <1>6, <2>1, <2>2, TimesAssumption DEF Times
<1>12. Measured'
  BY <1>1, <1>4, <1>6, TrackerIsKept DEF Measured, Retrieved, CascadeFrame, planVars
<1>13. QED
  BY <1>5, <1>7, <1>9, <1>10, <1>11, <1>12

LEMMA ScoringKeeps ==
    ASSUME IInv, Scored \/ \E reason \in {"deadline", "error"} : RerankerGivesUp(reason)
    PROVE  IInv'
<1> USE DEF IInv
<1>1. /\ stage = "score" /\ EndsBy(CascadeEnd) /\ CascadeFrame /\ stage' = "fetch"
      /\ UNCHANGED <<est, passages>>
  BY DEF Scored, RerankerGivesUp, SkipReranker, CascadeFrame, rankVars
<1>2. \/ /\ scored' = passages /\ samples' = samples \cup {"rerank", "fetch"}
         /\ rerank' = rerank /\ steps' = steps
      \/ /\ scored' = scored /\ samples' = samples
         /\ \E reason : SkipReranker(reason)
  BY DEF Scored, RerankerGivesUp, rankVars
<1>3. /\ rerank /\ NeedsRerank /\ Pool # {} /\ passages # {} /\ scored = {}
      /\ "rerank" \notin samples
  BY <1>1 DEF Cascade, Unscored, Lists0, Planned, Retrieved, Measured
<1>4. now' \in Nat /\ now' + est.fetch <= Deadline
  BY <1>1, CascadeEndBounds DEF Times
<1>5. /\ Named(steps') /\ Report' /\ steps \subseteq steps'
      /\ \/ rerank' = rerank /\ scored' = passages /\ samples' = samples \cup {"rerank", "fetch"}
         \/ rerank' = FALSE /\ scored' = {} /\ samples' = samples
  <2>1. CASE scored' = scored /\ samples' = samples /\ \E reason : SkipReranker(reason)
    <3>1. PICK reason : SkipReranker(reason)
      BY <2>1
    <3>2. Named(steps') /\ Report' /\ steps \subseteq steps'
      BY <1>1, <1>3, <3>1, SkipIsReported
    <3>3. rerank' = FALSE /\ scored' = {}
      BY <2>1, <3>1, <1>3 DEF SkipReranker
    <3>4. QED
      BY <2>1, <3>2, <3>3
  <2>2. CASE /\ scored' = passages /\ samples' = samples \cup {"rerank", "fetch"}
             /\ rerank' = rerank /\ steps' = steps
    <3>1. Report'
      BY <1>1, <2>2, ReportIsKept
    <3>2. QED
      BY <3>1, <2>2 DEF Types, Named
  <2>3. QED
    BY <1>2, <2>1, <2>2
<1>6. NeedsRerank' = NeedsRerank /\ Pool' = Pool /\ Lists0' /\ Sent'
  BY <1>1, <1>3, <1>5, CascadeFrameKeeps
<1>7. Types'
  BY <1>1, <1>3, <1>4, <1>5 DEF Types, CascadeFrame, planVars, Trackers
<1>8. Cascade'
  BY <1>1, <1>3, <1>5, <1>6 DEF Cascade, Unscored
<1>9. Times'
  <2>1. est' = est /\ sse' = sse /\ est.fetch \in Nat
    BY <1>1, EstimateTimes DEF CascadeFrame, planVars
  <2>2. now' <= Deadline
    BY <1>4, <2>1, TimesAssumption
  <2>3. QED
    BY <1>1, <1>4, <2>1, <2>2, TimesAssumption DEF Times
<1>10. Measured'
  <2>1. /\ "encode" \in samples <=> dense
        /\ samples \cap {"full", "shrunk", "lexical"} = {ShardTracker}
    BY <1>1 DEF Measured, Retrieved
  <2>2. /\ "encode" \in samples' <=> dense
        /\ samples' \cap {"full", "shrunk", "lexical"} = {ShardTracker}
        /\ "rerank" \in samples' <=> scored' # {}
    BY <1>3, <1>5, <2>1
  <2>3. dense' = dense /\ ShardTracker' = ShardTracker
    BY <1>1, TrackerIsKept DEF CascadeFrame, planVars
  <2>4. QED
    BY <1>1, <2>2, <2>3 DEF Measured, Retrieved
<1>11. QED
  BY <1>5, <1>6, <1>7, <1>8, <1>9, <1>10

-----------------------------------------------------------------------------
LEMMA AppendToOne ==
    ASSUME NEW a, NEW b
    PROVE  Append(<<a>>, b) = <<a, b>>
<1>1. <<a>> \in Seq({a, b}) /\ Len(<<a>>) = 1 /\ <<a>>[1] = a
  OBVIOUS
<1>2. /\ Append(<<a>>, b) \in Seq({a, b}) /\ Len(Append(<<a>>, b)) = 2
      /\ Append(<<a>>, b)[1] = a /\ Append(<<a>>, b)[2] = b
  BY <1>1, AppendProperties
<1>3. <<a, b>> \in Seq({a, b}) /\ Len(<<a, b>>) = 2 /\ <<a, b>>[1] = a /\ <<a, b>>[2] = b
  OBVIOUS
<1>4. ASSUME NEW s \in Seq({a, b}), NEW t \in Seq({a, b}),
             Len(s) = 2, Len(t) = 2, s[1] = t[1], s[2] = t[2]
      PROVE  s = t
  <2>1. \A i \in 1..Len(s) : s[i] = t[i]
    BY <1>4
  <2>2. Len(s) = Len(t)
    BY <1>4
  <2>3. QED
    BY <2>1, <2>2, SeqEqual, Zenon
<1>5. QED
  BY <1>2, <1>3, <1>4, Zenon

LEMMA FinalPageKeeps ==
    ASSUME IInv, FinalPage
    PROVE  IInv'
<1> USE DEF IInv
<1>1. /\ stage = "fetch" /\ stage' = "served" /\ now' \in now..AtLeast(MinFetch)
      /\ samples' = samples \cup {"fetch"}
      /\ UNCHANGED <<est, planVars, dense, rerank, steps, asked, rankVars>>
  BY DEF FinalPage, FetchSnippets, EndsBy, FinalEnd
<1>2. PICK gone : pages' = Append(pages, [kind |-> "final", steps |-> steps,
                                          missing |-> gone])
  BY DEF FinalPage, FetchSnippets
<1>3. now' \in Nat /\ (now' <= Deadline \/ now' <= now + MinFetch)
      /\ now <= Deadline + (IF sse THEN MinFetch ELSE 0)
  BY <1>1, AtLeastBounds DEF Times
<1>4. NeedsLexical' = NeedsLexical /\ NeedsDense' = NeedsDense /\ NeedsRerank' = NeedsRerank
  BY <1>1, NeedsAreKept
<1>5. Lists' = Lists /\ ShardTracker' = ShardTracker
  BY <1>1, ListsAreKept, TrackerIsKept DEF planVars
<1>6. Pool' = Pool
  BY <1>1, PoolIsKept DEF rankVars
<1>7. Types'
  BY <1>1, <1>3 DEF Types, planVars, rankVars, Named, Trackers
<1>8. Lists0'
  BY <1>1, <1>4, <1>5 DEF Lists0, Planned, Retrieved, planVars
<1>9. Cascade'
  BY <1>1, <1>4, <1>6 DEF Cascade, Unscored, rankVars
<1>10. Times'
  <2>1. sse' = sse /\ sse \in BOOLEAN /\ now \in Nat
    BY <1>1 DEF Types, planVars
  <2>2. QED
    BY <1>1, <1>3, <2>1, TimesAssumption DEF Times
<1>11. Measured'
  BY <1>1, <1>5 DEF Measured, Retrieved, rankVars
<1>12. Report'
  BY <1>1, <1>4 DEF Report, Planned, Retrieved, planVars, Kinds
<1>13. Sent'
  <2> DEFINE final == [kind |-> "final", steps |-> steps', missing |-> gone]
  <2>1. pages' = Append(pages, final) /\ steps' = steps /\ sse' = sse /\ sse \in BOOLEAN
    BY <1>1, <1>2 DEF planVars, Types
  <2>2. IF sse THEN FirstSent ELSE pages = <<>>
    BY <1>1 DEF Sent
  <2>3. \E report, missing :
            /\ report \subseteq steps'
            /\ pages' = IF sse' THEN <<[kind |-> "lexical", steps |-> report,
                                        missing |-> missing], final>>
                               ELSE <<final>>
    <3>1. CASE sse
      <4>1. PICK report, missing :
                /\ report \subseteq steps
                /\ pages = <<[kind |-> "lexical", steps |-> report, missing |-> missing]>>
        BY <2>2, <3>1 DEF FirstSent
      <4>2. pages' = <<[kind |-> "lexical", steps |-> report, missing |-> missing], final>>
        BY <2>1, <4>1, AppendToOne
      <4>3. QED
        BY <2>1, <3>1, <4>1, <4>2
    <3>2. CASE ~sse
      <4>1. pages' = <<final>>
        <5> HIDE DEF final
        <5>1. QED  BY <2>1, <2>2, <3>2
      <4>2. {} \subseteq steps'
        OBVIOUS
      <4>3. QED
        BY <2>1, <3>2, <4>1, <4>2
    <3>3. QED
      BY <2>1, <3>1, <3>2
  <2>4. QED
    BY <1>1, <2>3 DEF Sent
<1>14. QED
  BY <1>7, <1>8, <1>9, <1>10, <1>11, <1>12, <1>13

LEMMA CancelKeeps ==
    ASSUME IInv, Cancel
    PROVE  IInv'
<1> USE DEF IInv
<1>1. /\ stage' = "cancelled" /\ stage \notin {"served", "failed", "cancelled"}
      /\ UNCHANGED <<now, est, planVars, dense, rerank, steps, asked, rankVars, samples, pages>>
  BY DEF Cancel, Running
<1>2. Types'
  BY <1>1 DEF Types, planVars, rankVars, Named
<1>3. Lists0' /\ Cascade' /\ Measured' /\ Report'
  BY <1>1 DEF Lists0, Cascade, Measured, Report, Planned, Unscored, Retrieved
<1>4. Times'
  BY <1>1 DEF Times, planVars
<1>5. Sent'
  BY <1>1 DEF Sent, FirstSent, Types
<1>6. QED
  BY <1>2, <1>3, <1>4, <1>5

LEMMA StutterKeeps ==
    ASSUME IInv, UNCHANGED vars
    PROVE  IInv'
<1>1. /\ UNCHANGED <<stage, now, est, planVars, dense, rerank, steps, asked, samples, pages>>
      /\ UNCHANGED <<hits, passages, scored>>
  BY DEF vars, rankVars
<1>2. NeedsLexical' = NeedsLexical /\ NeedsDense' = NeedsDense /\ NeedsRerank' = NeedsRerank
  BY <1>1, NeedsAreKept
<1>3. Lists' = Lists /\ ShardTracker' = ShardTracker /\ Pool' = Pool
  BY <1>1, ListsAreKept, TrackerIsKept, PoolIsKept DEF planVars
<1>4. Types' /\ Times'
  BY <1>1 DEF IInv, Types, Times, planVars, Named
<1>5. Lists0' /\ Cascade' /\ Measured'
  BY <1>1, <1>2, <1>3 DEF IInv, Lists0, Cascade, Measured, Planned, Unscored, Retrieved, planVars
<1>6. Report'
  BY <1>1, <1>2 DEF IInv, Report, Planned, Retrieved, Kinds, planVars
<1>7. Sent'
  BY <1>1 DEF IInv, Sent, FirstSent, planVars
<1>8. QED
  BY <1>4, <1>5, <1>6, <1>7 DEF IInv

LEMMA NextKeepsIInv == IInv /\ [Next]_vars => IInv'
<1> SUFFICES ASSUME IInv, [Next]_vars PROVE IInv'
  OBVIOUS
<1>1. ASSUME NEW caps \in [encoder : BOOLEAN, vectors : BOOLEAN, reranker : BOOLEAN],
             NEW inFlight \in 1..MaxInFlight, NEW probe \in BOOLEAN,
             MakePlan(caps, inFlight, probe)
      PROVE  IInv'
  BY <1>1, MakePlanKeeps
<1>2. CASE Encoded \/ \E reason \in {"encode_deadline", "encode_failed"} : EncoderGivesUp(reason)
  BY <1>2, EncodeKeeps
<1>3. CASE FanOut
  BY <1>3, FanOutKeeps
<1>4. CASE FirstPage
  BY <1>4, FirstPageKeeps
<1>5. ASSUME NEW fresh \in Estimates, CheckBudget(fresh) PROVE IInv'
  BY <1>5, CheckBudgetKeeps
<1>6. CASE NoRerank
  BY <1>6, NoRerankKeeps
<1>7. ASSUME NEW got \in SUBSET Slices, FetchPassages(got) PROVE IInv'
  BY <1>7, FetchPassagesKeeps
<1>8. CASE Scored \/ \E reason \in {"deadline", "error"} : RerankerGivesUp(reason)
  BY <1>8, ScoringKeeps
<1>9. CASE FinalPage
  BY <1>9, FinalPageKeeps
<1>10. CASE Cancel
  BY <1>10, CancelKeeps
<1>11. CASE UNCHANGED vars
  BY <1>11, StutterKeeps
<1>12. QED
  BY <1>1, <1>2, <1>3, <1>4, <1>5, <1>6, <1>7, <1>8, <1>9, <1>10, <1>11 DEF Next, Progress

\* The inductive invariant holds throughout every search.
THEOREM SearchInvariant == Spec => []IInv
  BY InitIInv, NextKeepsIInv, PTL DEF Spec

-----------------------------------------------------------------------------
\* Every reachable state of a search is well formed (TypeOK), and at most two
\* pages are ever sent.
THEOREM TypeCorrect == Spec => []TypeOK
<1>1. ASSUME IInv PROVE TypeOK
  <2>1. Types /\ Sent
    BY <1>1 DEF IInv
  <2>2. Kinds(steps) \subseteq {RerankerSkipped, DenseBeamShrunk, LexicalOnly}
    BY <2>1 DEF Types, Kinds, Named
  <2>3. Len(pages) <= 2
    BY <2>1 DEF Sent, FirstSent, Types
  <2>4. QED
    BY <2>1, <2>2, <2>3 DEF TypeOK, Types
<1>2. QED
  BY <1>1, SearchInvariant, PTL

\* The report on a served page names exactly what the page lacks of what was
\* asked for, each once (BuildDegradation and the steps of the stages).
THEOREM ReportIsHonest == Spec => []HonestReport
<1>1. ASSUME IInv PROVE HonestReport
  <2> SUFFICES ASSUME stage = "served" PROVE
        LET kinds == Kinds(pages[Len(pages)].steps)
        IN  /\ LexicalOnly \in kinds <=> NeedsDense /\ "dense" \notin asked
            /\ "dense" \in asked => (DenseBeamShrunk \in kinds <=> shrink)
            /\ RerankerSkipped \in kinds => NeedsRerank /\ scored = {}
            /\ NeedsRerank /\ Pool # {} /\ scored = {} => RerankerSkipped \in kinds
            /\ \A s, t \in pages[Len(pages)].steps : s.kind = t.kind => s = t
    BY DEF HonestReport
  <2>1. pages[Len(pages)].steps = steps
    BY <1>1 DEF IInv, Sent
  <2>2. "dense" \in asked <=> dense
    BY <1>1 DEF IInv, Lists0, Lists, Retrieved
  <2>3. Report /\ Cascade /\ Planned
    BY <1>1 DEF IInv, Planned, Retrieved
  <2>4. QED
    BY <2>1, <2>2, <2>3 DEF Report, Cascade
<1>2. QED
  BY <1>1, SearchInvariant, PTL

\* Every ranker has a list to rank, whatever was dropped on the way
\* (SearchRequest's Lexical and Dense in SearchCoreAsync).
THEOREM NoArmWithoutAList == Spec => []EveryArmHasAList
<1>1. ASSUME IInv PROVE EveryArmHasAList
  <2> SUFFICES ASSUME Retrieved, NEW a \in arms
               PROVE  IF ~dense \/ a.mode = "lexical" THEN "lexical" \in asked
                      ELSE IF a.mode = "dense" THEN "dense" \in asked
                      ELSE asked = {"lexical", "dense"}
    BY DEF EveryArmHasAList
  <2>1. asked = Lists /\ (NeedsLexical => lexical)
    BY <1>1 DEF IInv, Lists0, Planned
  <2>2. a.mode \in {"hybrid", "lexical", "dense"}
    BY <1>1, ArmsAssumption DEF IInv, Types
  <2>3. a.mode \in {"hybrid", "lexical"} => lexical
    BY <2>1 DEF NeedsLexical
  <2>4. QED
    BY <2>1, <2>2, <2>3 DEF Lists
<1>2. QED
  BY <1>1, SearchInvariant, PTL

\* A search is late by the snippets' minimum at most, or twice that when it
\* streams (the deadlines each stage is given by Reserve and AtLeast), and the
\* reranker never uses up the time the snippets are estimated to need
\* (CheckBudget and the cascade's deadline in SearchCoreAsync and RerankAsync).
THEOREM NeverLaterThanSnippets == Spec => []LatenessBounded
<1>1. ASSUME IInv PROVE LatenessBounded
  <2>1. est.rerank \in Nat /\ est.fetch \in Nat /\ now \in Nat
    BY <1>1, EstimateTimes DEF IInv, Types
  <2>2. stage \in {"passages", "score"} \/ (stage = "fetch" /\ passages # {})
           => now + est.fetch <= Deadline
    BY <1>1, <2>1, TimesAssumption DEF IInv, Times
  <2>3. QED
    BY <1>1, <2>2 DEF IInv, Times, LatenessBounded
<1>2. QED
  BY <1>1, SearchInvariant, PTL

\* The cost model is fed by the stages that ran to their end only, each under
\* the name of what ran (costs.*.Record in SearchCoreAsync and RerankAsync).
THEOREM OnlyWhatRanIsMeasured == Spec => []SamplesAreOfWhatRan
<1>1. ASSUME IInv PROVE SamplesAreOfWhatRan
  <2> SUFFICES ASSUME Retrieved
      PROVE /\ "encode" \in samples <=> "dense" \in asked
            /\ samples \cap {"full", "shrunk", "lexical"} =
                  {IF "dense" \notin asked THEN "lexical" ELSE IF shrink THEN "shrunk" ELSE "full"}
            /\ "rerank" \in samples <=> scored # {}
    BY DEF SamplesAreOfWhatRan
  <2>1. "dense" \in asked <=> dense
    BY <1>1 DEF IInv, Lists0, Lists
  <2>2. Measured
    BY <1>1 DEF IInv
  <2>3. QED
    BY ONLY Retrieved, <2>1, <2>2 DEF Measured, ShardTracker
<1>2. QED
  BY <1>1, SearchInvariant, PTL

\* A streamed search sends its lexical page once, before the final one, which
\* takes back nothing that the first one reported (the pages of SearchCoreAsync).
THEOREM PagesAreInOrder == Spec => []PagesInOrder
<1>1. ASSUME IInv PROVE PagesInOrder
  <2>1. Types /\ Sent
    BY <1>1 DEF IInv
  <2>2. CASE stage = "served"
    <3>1. sse \in BOOLEAN /\ \E report, missing, gone :
             LET final == [kind |-> "final", steps |-> steps, missing |-> gone]
             IN  /\ report \subseteq steps
                 /\ pages = IF sse THEN <<[kind |-> "lexical", steps |-> report, missing |-> missing], final>>
                            ELSE <<final>>
      BY <2>1, <2>2 DEF Sent, Types
    <3>2. QED
      BY ONLY stage = "served", <3>1 DEF PagesInOrder
  <2>3. CASE stage # "served"
    <3>1. Len(pages) # 2
      BY <2>1, <2>3 DEF Sent, FirstSent, Types
    <3>2. QED
      BY <2>3, <3>1 DEF PagesInOrder
  <2>4. QED
    BY <2>2, <2>3
<1>2. QED
  BY <1>1, SearchInvariant, PTL

-----------------------------------------------------------------------------
(* The hook: what the page shows. *)

Asked == [text : Texts \cup {NoText}, mode : Modes \cup {CHOOSE m \in Modes : TRUE}]
Runs  == [at : {"timer", "stream", "fallback", "over"}, broken : BOOLEAN, gotFinal : BOOLEAN]
WebLists == [id : (Nat \X {"stream", "get", "none"}), text : Texts \cup {NoText},
          phase : {"none", "lexical", "final"}]
Views == [phase : {"idle", "loading", "lexical", "final", "error"}, of : Nat, list : WebLists,
          stale : BOOLEAN]

HookTypes ==
    /\ queries \in Seq(Asked) /\ runs \in Seq(Runs) /\ Len(runs) = Len(queries)
    /\ shown \in Views

\* The newest run still owes the page a list exactly while it may deliver one,
\* and a query of an empty box has no run.
Owed(run, text, phase) ==
    /\ run.at \in {"timer", "fallback"} \/ (run.at = "stream" /\ ~run.gotFinal) =>
           phase \in {"loading", "lexical"}
    /\ text = NoText => run.at = "over"

HookInv ==
    /\ HookTypes
    /\ ShownIsNewest
    /\ generation > 0 => Owed(runs[generation], queries[generation].text, shown.phase)

HookNext ==
    \/ \E p \in Asked : Ask(p)
    \/ \E g \in 1 .. generation : Served(g) \/ Unserved(g)
    \/ UNCHANGED hookVars

LEMMA InitHook == HookInit => HookInv
  BY DEF HookInit, HookInv, HookTypes, ShownIsNewest, Idle, NoList, Views, WebLists, generation

LEMMA IdleType == Idle \in Views /\ NoList \in WebLists
  BY DEF Idle, NoList, Views, WebLists

\* Only the newest run's part of the hook matters, and a step on another run
\* that leaves the page alone changes nothing.
LEMMA OtherRun ==
    ASSUME HookInv, NEW g \in 1 .. generation, g # generation, queries' = queries, shown' = shown,
           NEW r \in Runs, runs' = [runs EXCEPT ![g] = r]
    PROVE  HookInv'
<1>1. generation' = generation /\ generation \in Nat
  BY DEF generation, HookInv, HookTypes
<1>2. /\ runs' \in Seq(Runs) /\ Len(runs') = Len(runs)
      /\ \A h \in 1 .. generation : h # g => runs'[h] = runs[h]
  BY DEF HookInv, HookTypes, generation
<1>3. HookTypes'
  BY <1>2 DEF HookInv, HookTypes
<1>4. generation > 0 => runs'[generation] = runs[generation]
  BY <1>1, <1>2
<1>5. QED
  BY <1>1, <1>3, <1>4 DEF HookInv, ShownIsNewest

\* A step on the newest run keeps the invariant if it does for that run's part.
LEMMA NewestRun ==
    ASSUME HookInv, NEW g \in 1 .. generation, g = generation, queries' = queries,
           NEW r \in Runs, runs' = [runs EXCEPT ![g] = r], shown' \in Views,
           shown'.phase \in {"lexical", "final", "error"} => shown'.of = g,
           shown'.list # NoList /\ ~shown'.stale =>
               shown'.list.id[1] = g /\ shown'.phase = shown'.list.phase,
           r.gotFinal => shown'.phase \in {"final", "error"}
                         /\ shown'.list.id[1] = g /\ shown'.list.phase = "final",
           r.at = "over" => shown'.phase \in {"final", "error"},
           queries[g].text # NoText,
           Owed(r, queries[g].text, shown'.phase)
    PROVE  HookInv'
<1>1. generation' = generation /\ generation \in Nat
  BY DEF generation, HookInv, HookTypes
<1>2. runs' \in Seq(Runs) /\ Len(runs') = Len(runs) /\ runs'[g] = r
  BY DEF HookInv, HookTypes, generation
<1>3. HookTypes'
  BY <1>2 DEF HookInv, HookTypes
<1>4. r.at \in {"timer", "fallback"} => shown'.phase \in {"loading", "lexical"}
  BY DEF Owed
<1>5. ShownIsNewest'
  BY <1>1, <1>2, <1>4 DEF ShownIsNewest
<1>6. QED
  BY <1>1, <1>2, <1>3, <1>5 DEF HookInv

LEMMA AskKeeps == ASSUME HookInv, NEW p \in Asked, Ask(p) PROVE HookInv'
<1> DEFINE r == [at |-> IF p.text = NoText THEN "over" ELSE "timer", broken |-> FALSE, gotFinal |-> FALSE]
           old == [g \in DOMAIN runs |->
                     IF runs[g].at = "timer" THEN [runs[g] EXCEPT !.at = "over"] ELSE runs[g]]
<1>1. old \in Seq(Runs) /\ Len(old) = Len(runs)
  <2>1. \A x \in Runs : [x EXCEPT !.at = "over"] \in Runs
    BY DEF Runs
  <2>2. DOMAIN runs = 1 .. Len(runs) /\ \A g \in DOMAIN runs : runs[g] \in Runs
    BY DEF HookInv, HookTypes
  <2>3. old \in [1 .. Len(runs) -> Runs]
    BY <2>1, <2>2
  <2>4. QED
    BY <2>3, Len(runs) \in Nat DEF HookInv, HookTypes
<1>2. r \in Runs
  BY DEF Runs
<1> HIDE DEF old
<1>3. /\ runs' = Append(old, r) /\ queries' = Append(queries, p)
      /\ shown' = IF p.text = NoText THEN Idle
                  ELSE [shown EXCEPT !.phase = "loading", !.stale = shown.list # NoList]
  BY DEF Ask, old
<1> HIDE DEF r
<1>4. /\ runs' \in Seq(Runs) /\ queries' \in Seq(Asked) /\ Len(runs') = Len(queries')
      /\ generation' = Len(queries) + 1 /\ generation' > 0
      /\ runs'[generation'] = r /\ queries'[generation'] = p
  BY <1>1, <1>2, <1>3 DEF HookInv, HookTypes, generation
<1>5. shown' \in Views
  BY <1>3, IdleType DEF HookInv, HookTypes, Views
<1>6. shown' = Idle \/ (shown'.phase = "loading" /\ shown'.stale = (shown'.list # NoList))
  BY <1>3 DEF HookInv, HookTypes, Views
<1>7. ShownIsNewest'
  <2>1. CASE p.text = NoText
    <3>1. shown' = Idle /\ r.at = "over" /\ ~r.gotFinal
      BY <1>3, <2>1 DEF r
    <3>2. queries'[generation'].text = NoText /\ runs'[generation'] = r
      BY <1>4, <2>1
    <3>3. Idle.phase = "idle" /\ Idle.list = NoList
      BY DEF Idle
    <3>4. QED
      BY <3>1, <3>2, <3>3 DEF ShownIsNewest
  <2>2. CASE p.text # NoText
    <3>1. /\ r.at = "timer" /\ ~r.gotFinal
          /\ shown' = [shown EXCEPT !.phase = "loading", !.stale = shown.list # NoList]
      BY <1>3, <2>2 DEF r
    <3>2. shown \in Views
      BY DEF HookInv, HookTypes
    <3>3. shown'.phase = "loading" /\ shown'.list = shown.list /\ shown'.stale = (shown.list # NoList)
      BY <3>1, <3>2 DEF Views
    <3>4. queries'[generation'].text # NoText /\ runs'[generation'] = r
      BY <1>4, <2>2
    <3>5. QED
      BY <3>1, <3>3, <3>4 DEF ShownIsNewest
  <2>3. QED
    BY <2>1, <2>2
<1>8. Owed(r, p.text, shown'.phase)
  BY <1>3 DEF Owed, r, HookInv, HookTypes, Views
<1>9. QED
  BY <1>4, <1>5, <1>7, <1>8 DEF HookInv, HookTypes

LEMMA RunKeeps ==
    ASSUME HookInv, NEW g \in 1 .. generation, Served(g) \/ Unserved(g) PROVE HookInv'
<1> DEFINE run == runs[g]
<1>1. /\ run \in Runs /\ generation \in Nat /\ queries[g] \in Asked /\ g \in Nat
      /\ runs \in Seq(Runs) /\ shown \in Views
  BY DEF HookInv, HookTypes, generation
<1>2. ASSUME g = generation, run.at # "over"
      PROVE  /\ queries[g].text # NoText
             /\ run.at \in {"timer", "fallback"} \/ (run.at = "stream" /\ ~run.gotFinal) =>
                    shown.phase \in {"loading", "lexical"}
             /\ run.gotFinal => shown.phase \in {"final", "error"} /\ shown.list.id[1] = g
                                /\ shown.list.phase = "final"
             /\ shown.phase \in {"lexical", "final", "error"} => shown.of = g
             /\ shown.list # NoList /\ ~shown.stale =>
                    shown.list.id[1] = g /\ shown.phase = shown.list.phase
  <2>1. generation > 0 /\ run = runs[generation]
    BY <1>1, <1>2
  <2>2. ShownIsNewest /\ Owed(run, queries[g].text, shown.phase)
    BY <1>2, <2>1 DEF HookInv
  <2>3. queries[g].text # NoText
    BY <1>2, <2>2 DEF Owed
  <2>4. QED
    BY <1>2, <2>1, <2>2, <2>3 DEF ShownIsNewest, Owed
<1>3. ASSUME NEW phase \in {"lexical", "final"}, NEW kind \in {"stream", "get"}
      PROVE  LET s == Showing(g, phase, <<g, kind>>)
             IN  /\ s \in Views /\ s.phase = phase /\ s.of = g /\ ~s.stale
                 /\ s.list.id[1] = g /\ s.list.phase = phase
  BY <1>1 DEF Showing, Views, WebLists, Asked
<1>4. /\ Failed(g) \in Views /\ Failed(g).phase = "error" /\ Failed(g).of = g
      /\ Failed(g).list = shown.list /\ Failed(g).stale = (shown.list # NoList)
  BY <1>1 DEF Failed, Views
<1>5. ASSUME NEW r \in Runs, runs' = [runs EXCEPT ![g] = r], queries' = queries, shown' = shown,
             g = generation, run.at # "over",
             r.gotFinal => shown.phase \in {"final", "error"}
                           /\ shown.list.id[1] = g /\ shown.list.phase = "final",
             r.at = "over" => shown.phase \in {"final", "error"},
             r.at \in {"timer", "fallback"} \/ (r.at = "stream" /\ ~r.gotFinal) =>
                 shown.phase \in {"loading", "lexical"}
      PROVE  HookInv'
  BY <1>1, <1>2, <1>5, NewestRun DEF Owed
<1>6. CASE Start(g)
  <2>1. /\ runs' = [runs EXCEPT ![g] = [run EXCEPT !.at = "stream"]] /\ run.at = "timer"
        /\ queries' = queries /\ shown' = shown
    BY <1>6 DEF Start
  <2>2. [run EXCEPT !.at = "stream"] \in Runs /\ [run EXCEPT !.at = "stream"].gotFinal = run.gotFinal
        /\ [run EXCEPT !.at = "stream"].at = "stream"
    BY <1>1 DEF Runs
  <2>3. QED
    BY <1>1, <1>2, <1>5, <2>1, <2>2, OtherRun
<1>7. CASE LexicalList(g)
  <2>1. /\ run.at = "stream" /\ g = generation /\ ~run.gotFinal
        /\ shown' = Showing(g, "lexical", <<g, "stream">>) /\ queries' = queries /\ runs' = runs
    BY <1>7 DEF LexicalList, Live
  <2>2. run \in Runs /\ runs' = [runs EXCEPT ![g] = run]
    BY <1>1, <2>1
  <2>3. /\ shown' \in Views /\ shown'.of = g /\ ~shown'.stale /\ shown'.phase = "lexical"
        /\ shown'.list.id[1] = g /\ shown'.list.phase = "lexical"
    BY <1>3, <2>1
  <2>4. queries[g].text # NoText /\ Owed(run, queries[g].text, shown'.phase)
    BY <1>2, <2>1, <2>3 DEF Owed
  <2> HIDE DEF run
  <2>5. /\ run.gotFinal => shown'.phase \in {"final", "error"} /\ shown'.list.id[1] = g
                            /\ shown'.list.phase = "final"
        /\ run.at = "over" => shown'.phase \in {"final", "error"}
        /\ shown'.phase \in {"lexical", "final", "error"} => shown'.of = g
        /\ shown'.list # NoList /\ ~shown'.stale =>
               shown'.list.id[1] = g /\ shown'.phase = shown'.list.phase
    BY ONLY <2>1, <2>3
  <2>6. g = generation /\ queries' = queries
    BY ONLY <2>1
  <2>7. QED
    BY ONLY HookInv, g \in 1 .. generation, <2>2, <2>3, <2>4, <2>5, <2>6, NewestRun
<1>8. CASE FinalList(g)
  <2>1. /\ run.at = "stream" /\ g = generation /\ runs' = [runs EXCEPT ![g] = [run EXCEPT !.gotFinal = TRUE]]
        /\ shown' = Showing(g, "final", <<g, "stream">>) /\ queries' = queries
    BY <1>8 DEF FinalList, Live
  <2> DEFINE r == [run EXCEPT !.gotFinal = TRUE]
  <2>2. r \in Runs /\ r.gotFinal /\ r.at = "stream" /\ runs' = [runs EXCEPT ![g] = r]
    BY <1>1, <2>1 DEF Runs
  <2>3. /\ shown' \in Views /\ shown'.of = g /\ ~shown'.stale /\ shown'.phase = "final"
        /\ shown'.list.id[1] = g /\ shown'.list.phase = "final"
    BY <1>3, <2>1
  <2>4. queries[g].text # NoText
    BY <1>2, <2>1
  <2>5. Owed(r, queries[g].text, shown'.phase)
    BY <2>2, <2>4 DEF Owed
  <2>6. /\ r.gotFinal => shown'.phase \in {"final", "error"} /\ shown'.list.id[1] = g
                          /\ shown'.list.phase = "final"
        /\ r.at = "over" => shown'.phase \in {"final", "error"}
        /\ shown'.phase \in {"lexical", "final", "error"} => shown'.of = g
        /\ shown'.list # NoList /\ ~shown'.stale =>
               shown'.list.id[1] = g /\ shown'.phase = shown'.list.phase
    BY ONLY <2>2, <2>3
  <2>7. r \in Runs /\ runs' = [runs EXCEPT ![g] = r] /\ g = generation /\ queries' = queries /\ shown' \in Views
    BY ONLY <2>1, <2>2, <2>3
  <2> HIDE DEF r
  <2>8. QED
    BY ONLY HookInv, g \in 1 .. generation, <2>4, <2>5, <2>6, <2>7, NewestRun
<1>9. CASE ErrorEvent(g)
  <2>1. /\ runs' = [runs EXCEPT ![g] = [run EXCEPT !.broken = TRUE]] /\ run.at = "stream"
        /\ queries' = queries /\ shown' = shown
    BY <1>9 DEF ErrorEvent
  <2>2. [run EXCEPT !.broken = TRUE] \in Runs /\ [run EXCEPT !.broken = TRUE].gotFinal = run.gotFinal
        /\ [run EXCEPT !.broken = TRUE].at = "stream"
    BY <1>1, <2>1 DEF Runs
  <2>3. QED
    BY <1>1, <1>2, <1>5, <2>1, <2>2, OtherRun
<1>10. /\ Over(g) = [runs EXCEPT ![g] = [run EXCEPT !.at = "over"]]
       /\ [run EXCEPT !.at = "over"] \in Runs /\ [run EXCEPT !.at = "over"].at = "over"
       /\ [run EXCEPT !.at = "over"].gotFinal = run.gotFinal
  BY <1>1 DEF Over, Runs
<1>11. ASSUME NEW r \in Runs, runs' = [runs EXCEPT ![g] = r], queries' = queries, g = generation,
              run.at # "over", r.at = "over", shown' = Failed(g), r.gotFinal => run.gotFinal
       PROVE  HookInv'
  <2>1. r.gotFinal => Failed(g).list.id[1] = g /\ Failed(g).list.phase = "final"
    BY <1>2, <1>4, <1>11
  <2>2. Owed(r, queries[g].text, Failed(g).phase)
    BY <1>11 DEF Owed
  <2>3. queries[g].text # NoText
    BY <1>2, <1>11
  <2> HIDE DEF run
  <2>4. QED
    BY <1>4, <1>11, <2>1, <2>2, <2>3, NewestRun
<1>12. CASE Reject(g)
  <2>1. run.at = "stream" /\ queries' = queries
    BY <1>12 DEF Reject
  <2>2. CASE g # generation
    <3>1. runs' = Over(g) /\ shown' = shown
      BY <1>12, <2>2 DEF Reject, Live
    <3>2. QED
      BY <1>10, <2>1, <2>2, <3>1, OtherRun
  <2>3. CASE g = generation /\ ~run.gotFinal
    <3>1. runs' = [runs EXCEPT ![g] = [run EXCEPT !.at = "fallback"]] /\ shown' = shown
      BY <1>12, <2>3 DEF Reject, Live
    <3>2. [run EXCEPT !.at = "fallback"] \in Runs /\ [run EXCEPT !.at = "fallback"].at = "fallback"
          /\ [run EXCEPT !.at = "fallback"].gotFinal = run.gotFinal
      BY <1>1 DEF Runs
    <3>3. QED
      BY <1>2, <1>5, <2>1, <2>3, <3>1, <3>2
  <2>4. CASE g = generation /\ run.gotFinal
    <3>1. runs' = Over(g) /\ shown' = Failed(g)
      BY <1>12, <2>4 DEF Reject, Live
    <3>2. QED
      BY <1>10, <1>11, <2>1, <2>4, <3>1
  <2>5. QED
    BY <2>2, <2>3, <2>4
<1>13. CASE Resolve(g)
  <2>1. run.at = "stream" /\ run.gotFinal /\ g = generation /\ runs' = Over(g)
        /\ queries' = queries /\ shown' = shown
    BY <1>13 DEF Resolve, Live
  <2>2. QED
    BY <1>2, <1>5, <1>10, <2>1
<1>14. CASE Answer(g)
  <2>1. /\ run.at = "fallback" /\ queries' = queries
        /\ runs' = [Over(g) EXCEPT ![g].gotFinal = Live(g)]
        /\ shown' = IF Live(g) THEN Showing(g, "final", <<g, "get">>) ELSE shown
    BY <1>14 DEF Answer
  <2> DEFINE r == [run EXCEPT !.at = "over", !.gotFinal = (g = generation)]
  <2>2. r \in Runs /\ r.at = "over" /\ r.gotFinal = (g = generation)
    BY <1>1 DEF Runs
  <2>3. runs' = [runs EXCEPT ![g] = r]
    BY <1>1, <2>1 DEF Over, Live, Runs
  <2> HIDE DEF r
  <2>4. CASE g = generation
    <3> DEFINE s == Showing(g, "final", <<g, "get">>)
    <3>1. shown' = s
      BY <2>1, <2>4 DEF Live
    <3>2. /\ s \in Views /\ s.phase = "final" /\ s.of = g /\ ~s.stale
          /\ s.list.id[1] = g /\ s.list.phase = "final"
      BY <1>3
    <3>3. queries[g].text # NoText /\ Owed(r, queries[g].text, s.phase)
      BY <1>2, <2>1, <2>2, <2>4 DEF Owed
    <3> HIDE DEF s, run
    <3>4. shown' \in Views /\ Owed(r, queries[g].text, shown'.phase)
      BY <3>1, <3>2, <3>3
    <3>5. r.gotFinal => shown'.phase \in {"final", "error"}
                        /\ shown'.list.id[1] = g /\ shown'.list.phase = "final"
      BY <3>1, <3>2
    <3>6. r.at = "over" => shown'.phase \in {"final", "error"}
      BY <3>1, <3>2
    <3>7. shown'.phase \in {"lexical", "final", "error"} => shown'.of = g
      BY <3>1, <3>2
    <3>8. shown'.list # NoList /\ ~shown'.stale =>
              shown'.list.id[1] = g /\ shown'.phase = shown'.list.phase
      BY <3>1, <3>2
    <3>9. queries' = queries
      BY <2>1
    <3> HIDE DEF HookInv
    <3>10. QED
      BY ONLY HookInv, g \in 1 .. generation, <2>2, <2>3, <2>4, <3>3, <3>4, <3>5, <3>6, <3>7, <3>8, <3>9, NewestRun
  <2>5. CASE g # generation
    BY <2>1, <2>2, <2>3, <2>5, OtherRun DEF Live
  <2>6. QED
    BY <2>4, <2>5
<1>15. CASE AnswerFails(g)
  <2>1. /\ run.at = "fallback" /\ queries' = queries /\ runs' = Over(g)
        /\ shown' = IF Live(g) THEN Failed(g) ELSE shown
    BY <1>15 DEF AnswerFails
  <2>2. CASE g = generation
    BY <1>10, <1>11, <2>1, <2>2 DEF Live
  <2>3. CASE g # generation
    BY <1>10, <2>1, <2>3, OtherRun DEF Live
  <2>4. QED
    BY <2>2, <2>3
<1>16. QED
  BY <1>6, <1>7, <1>8, <1>9, <1>12, <1>13, <1>14, <1>15 DEF Served, Unserved

LEMMA HookKeeps == HookInv /\ HookNext => HookInv'
<1> SUFFICES ASSUME HookInv, HookNext PROVE HookInv'
  OBVIOUS
<1>1. CASE UNCHANGED hookVars
  BY <1>1 DEF hookVars, HookInv, HookTypes, ShownIsNewest, generation
<1>2. QED
  BY <1>1, AskKeeps, RunKeeps DEF HookNext

\* The page's steps on the hook.
LEMMA PageAsks == ASSUME HookTypes, [WebNext]_webVars PROVE HookNext
<1>1. ASSUME NEW text \in Texts \cup {NoText}, TypeText(text) PROVE HookNext
  <2>1. Params \in Asked
    <3>1. CASE queries = <<>>
      BY <3>1 DEF Params, Asked
    <3>2. CASE queries # <<>>
      <4>1. Len(queries) \in 1 .. Len(queries) /\ queries[Len(queries)] \in Asked
        BY <3>2 DEF HookTypes
      <4>2. QED
        BY <3>2, <4>1 DEF Params, Last
    <3>3. QED
      BY <3>1, <3>2
  <2>2. [Params EXCEPT !.text = text] \in Asked
    BY <2>1 DEF Asked
  <2>3. QED
    BY <1>1, <2>2 DEF TypeText, HookNext
<1>2. ASSUME NEW p \in [text : Texts, mode : Modes], CommitQuery(p) PROVE HookNext
  <2>1. p \in Asked
    BY DEF Asked
  <2>2. QED
    BY <1>2, <2>1 DEF CommitQuery, HookNext
<1>3. CASE SettleTimer \/ See \/ Back \/ \E inPlace \in BOOLEAN : Open(inPlace)
  BY <1>3 DEF SettleTimer, See, Back, Open, HookNext
<1>4. CASE Arrive \/ Fail
  BY <1>4 DEF Arrive, Fail, HookNext
<1>5. CASE FlushTimer \/ PostReturns \/ LeavePage
  BY <1>5 DEF FlushTimer, PostReturns, LeavePage, Show, Return, SwitchConsent, Hide, Leave, HookNext
<1>6. CASE UNCHANGED webVars
  BY <1>6 DEF webVars, HookNext
<1>7. QED
  BY <1>1, <1>2, <1>3, <1>4, <1>5, <1>6 DEF WebNext, UsePage

-----------------------------------------------------------------------------
(* A list's story, event by event. *)

EventTypes == {"query", "impression", "click", "dwell", "abandon"}

Positions(story, type) == {i \in DOMAIN story : story[i] = type}

\* No query begins another visit after the i-th event.
IsLast(story, i) == \A j \in Positions(story, "query") : j <= i

VisitTold(story, i, open) ==
    LET v == Visit(story, i)
        abandons == v \cap Positions(story, "abandon")
    IN  /\ abandons \subseteq {i + Cardinality(v)}
        /\ (abandons # {}) <=> (v \cap Positions(story, "click") = {} /\ ~(IsLast(story, i) /\ open))

\* The last visit has a click.
LastClicked(story) == \E k \in Positions(story, "click") : IsLast(story, k)

\* A story while it is told: what the tracker remembers of it is what it says.
Going(story, open, clicked, dwelling, impressed) ==
    /\ WellTold(story, open, dwelling)
    /\ open => story # <<>> /\ (clicked <=> LastClicked(story))
    /\ dwelling => LastClicked(story)
    /\ ~dwelling => \A i \in Positions(story, "click") : \E k \in Positions(story, "dwell") : i < k
    /\ ~impressed => Positions(story, "impression") = {}

LEMMA TellingParts ==
    ASSUME NEW story, NEW open, NEW dwelling
    PROVE  WellTold(story, open, dwelling) <=>
              /\ story # <<>> => story[1] = "query"
              /\ \A i \in Positions(story, "query") : VisitTold(story, i, open)
              /\ Cardinality(Positions(story, "click")) =
                     Cardinality(Positions(story, "dwell")) + (IF dwelling THEN 1 ELSE 0)
              /\ \A i, j \in Positions(story, "click") :
                     i < j => \E k \in Positions(story, "dwell") : i < k /\ k < j
              /\ Cardinality(Positions(story, "impression")) <= 1
  BY Zenon DEF WellTold, Positions, VisitTold, IsLast

\* One more event at the end of a story.
LEMMA OneMore ==
    ASSUME NEW story \in Seq(EventTypes), NEW e \in EventTypes
    PROVE  LET s == Append(story, e)
               n == Len(story)
           IN  /\ s \in Seq(EventTypes) /\ n \in Nat /\ s # <<>>
               /\ Len(s) = n + 1 /\ s[n + 1] = e /\ \A i \in 1 .. n : s[i] = story[i]
               /\ n > 0 => s[1] = story[1]
               /\ \A type \in EventTypes :
                      /\ Positions(story, type) \subseteq 1 .. n
                      /\ IsFiniteSet(Positions(story, type))
                      /\ Cardinality(Positions(story, type)) \in Nat
                      /\ e # type => Positions(s, type) = Positions(story, type)
                      /\ e = type => /\ Positions(s, type) = Positions(story, type) \cup {n + 1}
                                     /\ Cardinality(Positions(s, type)) =
                                            Cardinality(Positions(story, type)) + 1
<1> DEFINE s == Append(story, e)
           n == Len(story)
<1>1. /\ s \in Seq(EventTypes) /\ n \in Nat /\ s # <<>>
      /\ Len(s) = n + 1 /\ s[n + 1] = e /\ \A i \in 1 .. n : s[i] = story[i]
      /\ n > 0 => s[1] = story[1]
  OBVIOUS
<1>2. ASSUME NEW type \in EventTypes
      PROVE  /\ Positions(story, type) \subseteq 1 .. n
             /\ IsFiniteSet(Positions(story, type))
             /\ Cardinality(Positions(story, type)) \in Nat
             /\ e # type => Positions(s, type) = Positions(story, type)
             /\ e = type => /\ Positions(s, type) = Positions(story, type) \cup {n + 1}
                            /\ Cardinality(Positions(s, type)) =
                                   Cardinality(Positions(story, type)) + 1
  <2>1. DOMAIN story = 1 .. n /\ DOMAIN s = 1 .. n + 1
    BY <1>1
  <2>2. Positions(story, type) \subseteq 1 .. n
    BY <2>1 DEF Positions
  <2>3. IsFiniteSet(1 .. n)
    <3>1. 1 \in Int /\ n \in Int
      BY <1>1
    <3>2. QED
      BY <3>1, FS_Interval, Zenon
  <2>4. IsFiniteSet(Positions(story, type))
    BY <2>2, <2>3, FS_Subset
  <2>5. Cardinality(Positions(story, type)) \in Nat
    BY <2>4, FS_CardinalityType
  <2>6. e # type => Positions(s, type) = Positions(story, type)
    BY <1>1, <2>1 DEF Positions
  <2>7. e = type => Positions(s, type) = Positions(story, type) \cup {n + 1}
    BY <1>1, <2>1 DEF Positions
  <2>8. n + 1 \notin Positions(story, type)
    BY <1>1, <2>2
  <2>9. e = type => Cardinality(Positions(s, type)) = Cardinality(Positions(story, type)) + 1
    BY <2>4, <2>7, <2>8, FS_AddElement
  <2>10. QED
    BY <2>2, <2>4, <2>5, <2>6, <2>7, <2>9
<1>3. QED
  BY <1>1, <1>2

\* An event adds no place to the events of another kind.
LEMMA Unmoved ==
    ASSUME NEW story \in Seq(EventTypes), NEW e \in EventTypes, NEW type \in EventTypes, e # type
    PROVE  Positions(Append(story, e), type) = Positions(story, type)
<1>1. QED
  BY OneMore

LEMMA Placed ==
    ASSUME NEW story \in Seq(EventTypes), NEW type \in EventTypes
    PROVE  Positions(story, type) \subseteq 1 .. Len(story)
<1>1. QED
  BY OneMore

LEMMA GrownStory ==
    ASSUME NEW story \in Seq(EventTypes), NEW e \in EventTypes
    PROVE  /\ Append(story, e) \in Seq(EventTypes) /\ Append(story, e) # <<>>
           /\ Len(story) \in Nat /\ Len(Append(story, e)) = Len(story) + 1
           /\ Positions(Append(story, e), e) = Positions(story, e) \cup {Len(story) + 1}
<1>1. QED
  BY OneMore

\* What follows a visit leaves it alone.
LEMMA EarlierVisit ==
    ASSUME NEW story \in Seq(EventTypes), NEW e \in EventTypes, NEW i \in Positions(story, "query"),
           NEW open, NEW still, VisitTold(story, i, open),
           (\E q \in Positions(story, "query") : i < q) \/ (e = "query" /\ ~open)
    PROVE  VisitTold(Append(story, e), i, still)
<1> DEFINE s == Append(story, e)
           n == Len(story)
<1>1. /\ s \in Seq(EventTypes) /\ n \in Nat /\ Len(s) = n + 1 /\ s[n + 1] = e
      /\ \A j \in 1 .. n : s[j] = story[j]
  BY OneMore
<1>2. \A type \in EventTypes :
        /\ Positions(story, type) \subseteq 1 .. n
        /\ Positions(s, type) \subseteq Positions(story, type) \cup {n + 1}
        /\ Positions(story, type) \subseteq Positions(s, type)
        /\ e = type => n + 1 \in Positions(s, type)
  BY OneMore
<1>3. i \in 1 .. n
  BY <1>2 DEF EventTypes
<1>4. Visit(story, i) \subseteq 1 .. n
  BY <1>1, <1>3 DEF Visit
<1>5. PICK q \in Positions(s, "query") : i < q /\ (q = n + 1 \/ ~open \/ q \in Positions(story, "query"))
  <2>1. "query" \in EventTypes
    BY DEF EventTypes
  <2>2. CASE e = "query" /\ ~open
    <3>1. n + 1 \in Positions(s, "query") /\ i < n + 1
      BY <1>1, <1>2, <1>3, <2>1, <2>2
    <3>2. QED
      BY <3>1
  <2>3. CASE \E q \in Positions(story, "query") : i < q
    BY <1>2, <2>1, <2>3
  <2>4. QED
    BY <2>2, <2>3
<1>6. q \in 1 .. n + 1 /\ s[q] = "query"
  BY <1>1, <1>5 DEF Positions
<1>7. n + 1 \notin Visit(s, i)
  BY <1>1, <1>3, <1>5, <1>6 DEF Visit
<1>8. Visit(s, i) = Visit(story, i)
  <2>1. \A j \in i + 1 .. n : (\A k \in i + 1 .. j : s[k] # "query") <=> (\A k \in i + 1 .. j : story[k] # "query")
    BY <1>1, <1>3
  <2>2. \A j \in i + 1 .. n : j \in Visit(s, i) <=> j \in Visit(story, i)
    BY <1>1, <1>3, <2>1 DEF Visit
  <2>3. Visit(s, i) \subseteq i + 1 .. n
    BY <1>1, <1>3, <1>7 DEF Visit
  <2>4. Visit(story, i) \subseteq i + 1 .. n
    BY <1>1, <1>3 DEF Visit
  <2>5. QED
    BY <2>2, <2>3, <2>4
<1>9. ~IsLast(s, i)
  BY <1>3, <1>5, <1>6 DEF IsLast
<1>10. ~(IsLast(story, i) /\ open)
  BY <1>2, <1>3 DEF IsLast, EventTypes
<1>11. \A type \in EventTypes : Visit(s, i) \cap Positions(s, type) = Visit(story, i) \cap Positions(story, type)
  BY <1>1, <1>2, <1>4, <1>8
<1>12. QED
  BY <1>8, <1>9, <1>10, <1>11 DEF VisitTold, EventTypes

\* The last visit runs to the end of its story.
LEMMA LastVisit ==
    ASSUME NEW story \in Seq(EventTypes), NEW i \in Positions(story, "query"), IsLast(story, i)
    PROVE  Visit(story, i) = i + 1 .. Len(story)
           /\ Cardinality(Visit(story, i)) = Len(story) - i /\ i \in 1 .. Len(story)
<1>1. i \in 1 .. Len(story) /\ Len(story) \in Nat
  BY DEF Positions
<1>2. \A k \in i + 1 .. Len(story) : story[k] # "query"
  BY <1>1 DEF Positions, IsLast
<1>3. Visit(story, i) = i + 1 .. Len(story)
  BY <1>1, <1>2 DEF Visit
<1>4. i + 1 \in Int /\ Len(story) \in Int
  BY <1>1
<1>5. Cardinality(i + 1 .. Len(story)) = IF i + 1 > Len(story) THEN 0 ELSE Len(story) - (i + 1) + 1
  BY <1>4, FS_Interval, Zenon
<1>6. QED
  BY <1>1, <1>3, <1>5

\* What an event that is not a query does to the visits: it lengthens the last one.
LEMMA GrownVisit ==
    ASSUME NEW story \in Seq(EventTypes), NEW e \in EventTypes, e # "query",
           NEW i \in Positions(story, "query"), IsLast(story, i)
    PROVE  /\ IsLast(Append(story, e), i) /\ i \in Positions(Append(story, e), "query")
           /\ Visit(Append(story, e), i) = i + 1 .. Len(story) + 1
           /\ i + Cardinality(Visit(Append(story, e), i)) = Len(story) + 1
           /\ Visit(story, i) = i + 1 .. Len(story) /\ i \in 1 .. Len(story)
           /\ \A type \in EventTypes :
                  /\ e # type => Visit(Append(story, e), i) \cap Positions(Append(story, e), type)
                                 = Visit(story, i) \cap Positions(story, type)
                  /\ e = type => Visit(Append(story, e), i) \cap Positions(Append(story, e), type)
                                 = (Visit(story, i) \cap Positions(story, type)) \cup {Len(story) + 1}
<1> DEFINE s == Append(story, e)
           n == Len(story)
<1>1. s \in Seq(EventTypes) /\ n \in Nat /\ Len(s) = n + 1 /\ "query" \in EventTypes
  BY OneMore DEF EventTypes
<1>2. Positions(s, "query") = Positions(story, "query")
  BY <1>1, OneMore
<1>3. IsLast(s, i) /\ i \in Positions(s, "query")
  BY <1>2 DEF IsLast
<1>4. Visit(s, i) = i + 1 .. n + 1 /\ Cardinality(Visit(s, i)) = n + 1 - i
  <2> HIDE DEF s
  <2>1. /\ Visit(s, i) = i + 1 .. Len(s) /\ Cardinality(Visit(s, i)) = Len(s) - i
        /\ i \in 1 .. Len(s)
    BY <1>1, <1>3, LastVisit
  <2>2. Len(s) = n + 1 /\ n \in Nat
    BY <1>1
  <2> HIDE DEF n
  <2>3. QED
    BY <2>1, <2>2
<1>5. Visit(story, i) = i + 1 .. n /\ i \in 1 .. n
  BY LastVisit
<1>6. ASSUME NEW type \in EventTypes
      PROVE  /\ Positions(story, type) \subseteq 1 .. n
             /\ e # type => Positions(s, type) = Positions(story, type)
             /\ e = type => Positions(s, type) = Positions(story, type) \cup {n + 1}
  BY OneMore
<1>7. ASSUME NEW type \in EventTypes
      PROVE  /\ e # type => Visit(s, i) \cap Positions(s, type) = Visit(story, i) \cap Positions(story, type)
             /\ e = type => Visit(s, i) \cap Positions(s, type)
                            = (Visit(story, i) \cap Positions(story, type)) \cup {n + 1}
  <2>1. CASE e # type
    BY <1>1, <1>4, <1>5, <1>6, <2>1
  <2>2. CASE e = type
    BY <1>1, <1>4, <1>5, <1>6, <2>2
  <2>3. QED
    BY <2>1, <2>2
<1>8. QED
  BY <1>1, <1>3, <1>4, <1>5, <1>7

\* What is counted and ordered in a story, and what an event adds to it.
LEMMA EventsCounted ==
    ASSUME NEW story \in Seq(EventTypes), NEW e \in EventTypes, e \in {"query", "impression", "abandon"},
           NEW open, NEW still, NEW dwelling \in BOOLEAN, WellTold(story, open, dwelling),
           e = "impression" => Positions(story, "impression") = {},
           story = <<>> => e = "query",
           \A i \in Positions(Append(story, e), "query") : VisitTold(Append(story, e), i, still)
    PROVE  WellTold(Append(story, e), still, dwelling)
<1> DEFINE s == Append(story, e)
           n == Len(story)
<1>1. {"query", "impression", "click", "dwell", "abandon"} \subseteq EventTypes
  BY DEF EventTypes
<1>2. /\ Positions(s, "click") = Positions(story, "click")
      /\ Positions(s, "dwell") = Positions(story, "dwell")
  BY <1>1, OneMore
<1>3. Cardinality(Positions(s, "impression")) <= 1
  <2>1. CASE e # "impression"
    BY <1>1, <2>1, OneMore, TellingParts
  <2>2. CASE e = "impression"
    BY <1>1, <2>2, OneMore, FS_EmptySet
  <2>3. QED
    BY <2>1, <2>2
<1>4. s[1] = "query"
  <2>1. CASE story = <<>>
    BY <2>1
  <2>2. CASE story # <<>>
    BY <2>2, OneMore, TellingParts
  <2>3. QED
    BY <2>1, <2>2
<1>5. /\ Cardinality(Positions(story, "click")) =
             Cardinality(Positions(story, "dwell")) + (IF dwelling THEN 1 ELSE 0)
      /\ \A i, j \in Positions(story, "click") :
             i < j => \E k \in Positions(story, "dwell") : i < k /\ k < j
  BY TellingParts
<1>6. QED
  BY <1>2, <1>3, <1>4, <1>5, TellingParts

\* A new visit of a list, whose earlier ones are over.
LEMMA QueryTold ==
    ASSUME NEW story \in Seq(EventTypes), NEW clicked, NEW impressed,
           Going(story, FALSE, clicked, FALSE, impressed)
    PROVE  Going(Append(story, "query"), TRUE, FALSE, FALSE, impressed)
<1> DEFINE s == Append(story, "query")
           n == Len(story)
<1>1. {"query", "impression", "click", "dwell", "abandon"} \subseteq EventTypes
  BY DEF EventTypes
<1>2. /\ s \in Seq(EventTypes) /\ n \in Nat /\ Len(s) = n + 1 /\ s # <<>>
      /\ Positions(s, "query") = Positions(story, "query") \cup {n + 1}
      /\ Positions(s, "click") = Positions(story, "click")
      /\ Positions(s, "dwell") = Positions(story, "dwell")
      /\ Positions(s, "impression") = Positions(story, "impression")
      /\ Positions(s, "click") \subseteq 1 .. n
      /\ Positions(story, "query") \subseteq 1 .. n
  <2>1. /\ s \in Seq(EventTypes) /\ n \in Nat /\ Len(s) = n + 1 /\ s # <<>>
        /\ Positions(s, "query") = Positions(story, "query") \cup {n + 1}
    BY <1>1, GrownStory
  <2>2. Positions(s, "click") = Positions(story, "click")
    BY <1>1, Unmoved
  <2>3. Positions(s, "dwell") = Positions(story, "dwell")
    BY <1>1, Unmoved
  <2>4. Positions(s, "impression") = Positions(story, "impression")
    BY <1>1, Unmoved
  <2>5. Positions(story, "click") \subseteq 1 .. n /\ Positions(story, "query") \subseteq 1 .. n
    BY <1>1, Placed
  <2> HIDE DEF s, n
  <2>6. QED
    BY ONLY <2>1, <2>2, <2>3, <2>4, <2>5
<1>3. IsLast(s, n + 1) /\ n + 1 \in Positions(s, "query")
  BY <1>2 DEF IsLast
<1>4. Visit(s, n + 1) = {}
  <2> HIDE DEF s
  <2>1. Visit(s, n + 1) = n + 1 + 1 .. Len(s)
    BY <1>2, <1>3, LastVisit
  <2>2. QED
    BY <1>2, <2>1
<1>5. VisitTold(s, n + 1, TRUE)
  BY <1>3, <1>4 DEF VisitTold
<1>6. ASSUME NEW i \in Positions(story, "query") PROVE VisitTold(s, i, TRUE)
  <2>1. VisitTold(story, i, FALSE)
    BY TellingParts DEF Going
  <2>2. QED
    BY <1>1, <2>1, EarlierVisit
<1>7. WellTold(s, TRUE, FALSE)
  <2>1. \A i \in Positions(s, "query") : VisitTold(s, i, TRUE)
    BY <1>2, <1>5, <1>6
  <2>2. WellTold(story, FALSE, FALSE)
    BY DEF Going
  <2>3. QED
    BY <1>1, <2>1, <2>2, EventsCounted
<1>8. ~LastClicked(s)
  BY <1>2, <1>3 DEF LastClicked, IsLast
<1>9. QED
  BY <1>2, <1>7, <1>8 DEF Going

\* Every visit of a story but the last is settled; `last` shows the rest.
LEMMA VisitsTold ==
    ASSUME NEW story \in Seq(EventTypes), NEW e \in EventTypes, e # "query",
           NEW open, NEW still,
           \A i \in Positions(story, "query") : VisitTold(story, i, open),
           \A i \in Positions(story, "query") :
               IsLast(story, i) => VisitTold(Append(story, e), i, still)
    PROVE  \A i \in Positions(Append(story, e), "query") : VisitTold(Append(story, e), i, still)
<1>1. Positions(Append(story, e), "query") = Positions(story, "query")
      /\ Positions(story, "query") \subseteq 1 .. Len(story) /\ Len(story) \in Nat
  BY OneMore DEF EventTypes
<1>2. ASSUME NEW i \in Positions(story, "query"), ~IsLast(story, i)
      PROVE  VisitTold(Append(story, e), i, still)
  <2>1. \E q \in Positions(story, "query") : i < q
    BY <1>1, <1>2 DEF IsLast
  <2>2. QED
    BY <2>1, EarlierVisit
<1>3. QED
  BY <1>1, <1>2

\* The result of the open list is seen.
LEMMA ImpressionTold ==
    ASSUME NEW story \in Seq(EventTypes), NEW clicked, NEW dwelling \in BOOLEAN,
           Going(story, TRUE, clicked, dwelling, FALSE)
    PROVE  Going(Append(story, "impression"), TRUE, clicked, dwelling, TRUE)
<1> DEFINE s == Append(story, "impression")
<1>1. {"query", "impression", "click", "dwell", "abandon"} \subseteq EventTypes
  BY DEF EventTypes
<1>2. /\ s # <<>>
      /\ Positions(s, "query") = Positions(story, "query")
      /\ Positions(s, "click") = Positions(story, "click")
      /\ Positions(s, "dwell") = Positions(story, "dwell")
  <2>1. s # <<>>
    BY <1>1, GrownStory
  <2>2. Positions(s, "query") = Positions(story, "query")
    BY <1>1, Unmoved
  <2>3. Positions(s, "click") = Positions(story, "click")
    BY <1>1, Unmoved
  <2>4. Positions(s, "dwell") = Positions(story, "dwell")
    BY <1>1, Unmoved
  <2>5. QED
    BY ONLY <2>1, <2>2, <2>3, <2>4
<1>3. ASSUME NEW i \in Positions(story, "query"), IsLast(story, i) PROVE VisitTold(s, i, TRUE)
  <2>1. Visit(story, i) \cap Positions(story, "abandon") = {}
    BY <1>3, TellingParts DEF Going, VisitTold
  <2>2. Visit(s, i) \cap Positions(s, "abandon") = {} /\ IsLast(s, i)
    BY <1>1, <1>3, <2>1, GrownVisit
  <2>3. QED
    BY <2>2 DEF VisitTold
<1>4. \A i \in Positions(s, "query") : VisitTold(s, i, TRUE)
  <2>1. \A i \in Positions(story, "query") : VisitTold(story, i, TRUE)
    BY TellingParts DEF Going
  <2>2. QED
    BY <1>1, <1>3, <2>1, VisitsTold
<1>5. WellTold(s, TRUE, dwelling)
  BY <1>1, <1>4, EventsCounted DEF Going
<1>6. LastClicked(s) <=> LastClicked(story)
  BY <1>2 DEF LastClicked, IsLast
<1>7. QED
  BY <1>2, <1>5, <1>6 DEF Going

\* The open list is closed without a click.
LEMMA AbandonTold ==
    ASSUME NEW story \in Seq(EventTypes), NEW any, NEW impressed,
           Going(story, TRUE, FALSE, FALSE, impressed)
    PROVE  Going(Append(story, "abandon"), FALSE, any, FALSE, impressed)
<1> DEFINE s == Append(story, "abandon")
           n == Len(story)
<1>1. {"query", "impression", "click", "dwell", "abandon"} \subseteq EventTypes
  BY DEF EventTypes
<1>2. /\ s # <<>>
      /\ Positions(s, "query") = Positions(story, "query")
      /\ Positions(s, "click") = Positions(story, "click")
      /\ Positions(s, "dwell") = Positions(story, "dwell")
      /\ Positions(s, "impression") = Positions(story, "impression")
      /\ Positions(story, "click") \subseteq 1 .. n
      /\ Positions(story, "query") \subseteq 1 .. n
  <2>1. s # <<>>
    BY <1>1, GrownStory
  <2>2. Positions(s, "query") = Positions(story, "query")
    BY <1>1, Unmoved
  <2>3. Positions(s, "click") = Positions(story, "click")
    BY <1>1, Unmoved
  <2>4. Positions(s, "dwell") = Positions(story, "dwell")
    BY <1>1, Unmoved
  <2>5. Positions(s, "impression") = Positions(story, "impression")
    BY <1>1, Unmoved
  <2>6. Positions(story, "click") \subseteq 1 .. n /\ Positions(story, "query") \subseteq 1 .. n
    BY <1>1, Placed
  <2>7. QED
    BY ONLY <2>1, <2>2, <2>3, <2>4, <2>5, <2>6
<1>3. ASSUME NEW i \in Positions(story, "query"), IsLast(story, i) PROVE VisitTold(s, i, FALSE)
  <2>1. Visit(story, i) \cap Positions(story, "abandon") = {}
    BY <1>3, TellingParts DEF Going, VisitTold
  <2>2. Visit(story, i) \cap Positions(story, "click") = {}
    <3>1. SUFFICES ASSUME NEW k \in Positions(story, "click"), k \in i + 1 .. n PROVE FALSE
      BY <1>3, GrownVisit, <1>1
    <3>2. IsLast(story, k)
      BY <1>2, <1>3, <3>1 DEF IsLast
    <3>3. QED
      BY <3>2 DEF Going, LastClicked
  <2>3. /\ Visit(s, i) \cap Positions(s, "abandon") = {n + 1}
        /\ Visit(s, i) \cap Positions(s, "click") = {}
        /\ i + Cardinality(Visit(s, i)) = n + 1
    BY <1>1, <1>3, <2>1, <2>2, GrownVisit
  <2>4. QED
    BY <2>3 DEF VisitTold
<1>4. \A i \in Positions(s, "query") : VisitTold(s, i, FALSE)
  <2>1. \A i \in Positions(story, "query") : VisitTold(story, i, TRUE)
    BY TellingParts DEF Going
  <2>2. QED
    BY <1>1, <1>3, <2>1, VisitsTold
<1>5. WellTold(s, FALSE, FALSE)
  BY <1>1, <1>4, EventsCounted DEF Going
<1>6. QED
  BY <1>2, <1>5 DEF Going

\* A click opens the result of the open list, when no other is being read.
LEMMA ClickTold ==
    ASSUME NEW story \in Seq(EventTypes), NEW clicked, NEW impressed,
           Going(story, TRUE, clicked, FALSE, impressed)
    PROVE  Going(Append(story, "click"), TRUE, TRUE, TRUE, impressed)
<1> DEFINE s == Append(story, "click")
           n == Len(story)
<1>1. {"query", "impression", "click", "dwell", "abandon"} \subseteq EventTypes
  BY DEF EventTypes
<1>2. /\ s # <<>> /\ s[1] = story[1] /\ n > 0 /\ n \in Nat
      /\ Positions(s, "query") = Positions(story, "query")
      /\ Positions(s, "click") = Positions(story, "click") \cup {n + 1}
      /\ Positions(s, "dwell") = Positions(story, "dwell")
      /\ Positions(s, "impression") = Positions(story, "impression")
      /\ Cardinality(Positions(s, "click")) = Cardinality(Positions(story, "click")) + 1
      /\ Positions(story, "click") \subseteq 1 .. n
      /\ Positions(story, "query") \subseteq 1 .. n
      /\ Positions(story, "dwell") \subseteq 1 .. n
      /\ Cardinality(Positions(story, "dwell")) \in Nat
  <2>1. story # <<>>
    BY DEF Going
  <2>2. n > 0 /\ n \in Nat /\ s[1] = story[1] /\ s # <<>>
    BY <2>1
  <2> HIDE DEF n
  <2>3. /\ Positions(s, "query") = Positions(story, "query")
        /\ Positions(s, "dwell") = Positions(story, "dwell")
        /\ Positions(s, "impression") = Positions(story, "impression")
    BY <1>1, OneMore
  <2>4. /\ Positions(s, "click") = Positions(story, "click") \cup {n + 1}
        /\ Cardinality(Positions(s, "click")) = Cardinality(Positions(story, "click")) + 1
    BY <1>1, OneMore DEF n
  <2>5. /\ Positions(story, "click") \subseteq 1 .. n
        /\ Positions(story, "query") \subseteq 1 .. n
        /\ Positions(story, "dwell") \subseteq 1 .. n
        /\ Cardinality(Positions(story, "dwell")) \in Nat
    BY <1>1, OneMore DEF n
  <2>6. QED
    BY <2>2, <2>3, <2>4, <2>5
<1>3. ASSUME NEW i \in Positions(story, "query"), IsLast(story, i) PROVE VisitTold(s, i, TRUE)
  <2>1. Visit(story, i) \cap Positions(story, "abandon") = {}
    BY <1>3, TellingParts DEF Going, VisitTold
  <2>2. Visit(s, i) \cap Positions(s, "abandon") = {} /\ IsLast(s, i)
    BY <1>1, <1>3, <2>1, GrownVisit
  <2>3. QED
    BY <2>2 DEF VisitTold
<1>4. \A i \in Positions(s, "query") : VisitTold(s, i, TRUE)
  <2>1. \A i \in Positions(story, "query") : VisitTold(story, i, TRUE)
    BY TellingParts DEF Going
  <2>2. QED
    BY <1>1, <1>3, <2>1, VisitsTold
<1>5. /\ s[1] = "query" /\ Cardinality(Positions(s, "impression")) <= 1
      /\ Cardinality(Positions(story, "click")) = Cardinality(Positions(story, "dwell"))
      /\ \A i, j \in Positions(story, "click") :
             i < j => \E k \in Positions(story, "dwell") : i < k /\ k < j
  <2>1. WellTold(story, TRUE, FALSE) /\ story # <<>>
    BY DEF Going
  <2>2. Cardinality(Positions(story, "click")) = Cardinality(Positions(story, "dwell")) + 0
    BY <2>1, TellingParts
  <2>3. \A i, j \in Positions(story, "click") :
            i < j => \E k \in Positions(story, "dwell") : i < k /\ k < j
    BY <2>1, TellingParts
  <2>4. story[1] = "query" /\ Cardinality(Positions(story, "impression")) <= 1
    BY <2>1, TellingParts
  <2> HIDE DEF s, n
  <2>5. QED
    BY <1>2, <2>2, <2>3, <2>4
<1>6. \A i, j \in Positions(s, "click") : i < j => \E k \in Positions(s, "dwell") : i < k /\ k < j
  <2>1. ASSUME NEW i \in Positions(s, "click"), NEW j \in Positions(s, "click"), i < j
        PROVE  \E k \in Positions(s, "dwell") : i < k /\ k < j
    <3>1. CASE j \in Positions(story, "click")
      BY <1>2, <1>5, <2>1, <3>1
    <3>2. CASE j = n + 1
      <4>1. i \in Positions(story, "click")
        BY <1>2, <2>1, <3>2
      <4>2. PICK k \in Positions(story, "dwell") : i < k
        BY <4>1 DEF Going
      <4>3. QED
        BY <1>2, <3>2, <4>2
    <3>3. QED
      BY <1>2, <3>1, <3>2
  <2>2. QED
    BY <2>1
<1>7. WellTold(s, TRUE, TRUE)
  <2>1. Cardinality(Positions(s, "click")) = Cardinality(Positions(s, "dwell")) + (IF TRUE THEN 1 ELSE 0)
    BY <1>2, <1>5
  <2> HIDE DEF s
  <2>2. QED
    BY <1>4, <1>5, <1>6, <2>1, TellingParts
<1>8. LastClicked(s)
  <2>1. n + 1 \in Positions(s, "click") /\ IsLast(s, n + 1)
    BY <1>2 DEF IsLast
  <2>2. QED
    BY <2>1 DEF LastClicked
<1>9. QED
  BY <1>2, <1>7, <1>8 DEF Going

\* The reader is back from the result it opened.
LEMMA DwellTold ==
    ASSUME NEW story \in Seq(EventTypes), NEW open \in BOOLEAN, NEW clicked, NEW impressed,
           Going(story, open, clicked, TRUE, impressed)
    PROVE  Going(Append(story, "dwell"), open, clicked, FALSE, impressed)
<1> DEFINE s == Append(story, "dwell")
           n == Len(story)
<1>1. {"query", "impression", "click", "dwell", "abandon"} \subseteq EventTypes
  BY DEF EventTypes
<1>2. story # <<>> /\ LastClicked(story)
  BY DEF Going, LastClicked, Positions
<1>3. /\ s # <<>> /\ s[1] = story[1] /\ n > 0 /\ n \in Nat
      /\ Positions(s, "query") = Positions(story, "query")
      /\ Positions(s, "click") = Positions(story, "click")
      /\ Positions(s, "dwell") = Positions(story, "dwell") \cup {n + 1}
      /\ Positions(s, "impression") = Positions(story, "impression")
      /\ Cardinality(Positions(s, "dwell")) = Cardinality(Positions(story, "dwell")) + 1
      /\ Positions(story, "click") \subseteq 1 .. n
      /\ Positions(story, "query") \subseteq 1 .. n
      /\ Cardinality(Positions(story, "dwell")) \in Nat
  <2>1. n > 0 /\ n \in Nat /\ s[1] = story[1] /\ s # <<>>
    BY <1>2
  <2> HIDE DEF n
  <2>2. /\ Positions(s, "query") = Positions(story, "query")
        /\ Positions(s, "click") = Positions(story, "click")
        /\ Positions(s, "impression") = Positions(story, "impression")
    BY <1>1, OneMore
  <2>3. /\ Positions(s, "dwell") = Positions(story, "dwell") \cup {n + 1}
        /\ Cardinality(Positions(s, "dwell")) = Cardinality(Positions(story, "dwell")) + 1
    BY <1>1, OneMore DEF n
  <2>4. /\ Positions(story, "click") \subseteq 1 .. n
        /\ Positions(story, "query") \subseteq 1 .. n
        /\ Cardinality(Positions(story, "dwell")) \in Nat
    BY <1>1, OneMore DEF n
  <2>5. QED
    BY <2>1, <2>2, <2>3, <2>4
<1>4. ASSUME NEW i \in Positions(story, "query"), IsLast(story, i) PROVE VisitTold(s, i, open)
  <2>1. Visit(story, i) \cap Positions(story, "click") # {}
    <3>1. PICK k \in Positions(story, "click") : IsLast(story, k)
      BY <1>2 DEF LastClicked
    <3>2. i <= k /\ k \in 1 .. n /\ i \in 1 .. n /\ story[i] # story[k]
      BY <1>3, <3>1 DEF IsLast, Positions
    <3>3. k \in i + 1 .. n
      BY <3>2, <1>3
    <3>4. QED
      BY <1>1, <1>4, <3>1, <3>3, GrownVisit
  <2>2. Visit(story, i) \cap Positions(story, "abandon") = {}
    BY <2>1, TellingParts DEF Going, VisitTold
  <2>3. /\ Visit(s, i) \cap Positions(s, "abandon") = {}
        /\ Visit(s, i) \cap Positions(s, "click") # {}
    BY <1>1, <1>4, <2>1, <2>2, GrownVisit
  <2>4. QED
    BY <2>3 DEF VisitTold
<1>5. \A i \in Positions(s, "query") : VisitTold(s, i, open)
  <2>1. \A i \in Positions(story, "query") : VisitTold(story, i, open)
    BY TellingParts DEF Going
  <2>2. QED
    BY <1>1, <1>4, <2>1, VisitsTold
<1>6. /\ s[1] = "query" /\ Cardinality(Positions(s, "impression")) <= 1
      /\ Cardinality(Positions(s, "click")) = Cardinality(Positions(s, "dwell"))
      /\ \A i, j \in Positions(s, "click") :
             i < j => \E k \in Positions(s, "dwell") : i < k /\ k < j
  <2>1. WellTold(story, open, TRUE)
    BY DEF Going
  <2>2. Cardinality(Positions(story, "click")) = Cardinality(Positions(story, "dwell")) + 1
    BY <2>1, TellingParts
  <2>3. \A i, j \in Positions(story, "click") :
            i < j => \E k \in Positions(story, "dwell") : i < k /\ k < j
    BY <2>1, TellingParts
  <2>4. story[1] = "query" /\ Cardinality(Positions(story, "impression")) <= 1
    BY <1>2, <2>1, TellingParts
  <2> HIDE DEF s
  <2>5. QED
    BY <1>3, <2>2, <2>3, <2>4
<1>7. WellTold(s, open, FALSE)
  <2>1. Cardinality(Positions(s, "click")) = Cardinality(Positions(s, "dwell")) + (IF FALSE THEN 1 ELSE 0)
    BY <1>3, <1>6
  <2> HIDE DEF s
  <2>2. QED
    BY <1>5, <1>6, <2>1, TellingParts
<1>8. \A i \in Positions(s, "click") : \E k \in Positions(s, "dwell") : i < k
  <2> HIDE DEF s, n
  <2>1. n + 1 \in Positions(s, "dwell") /\ \A i \in Positions(s, "click") : i < n + 1
    BY <1>3
  <2>2. QED
    BY <2>1
<1>9. LastClicked(s) <=> LastClicked(story)
  BY <1>3 DEF LastClicked, IsLast
<1>10. QED
  BY <1>3, <1>7, <1>8, <1>9 DEF Going

\* A list with a click in its visit is closed without another word.
LEMMA CloseTold ==
    ASSUME NEW story \in Seq(EventTypes), NEW any, NEW dwelling \in BOOLEAN, NEW impressed,
           Going(story, TRUE, TRUE, dwelling, impressed)
    PROVE  Going(story, FALSE, any, dwelling, impressed)
<1>1. LastClicked(story) /\ WellTold(story, TRUE, dwelling)
  BY DEF Going
<1>2. ASSUME NEW i \in Positions(story, "query") PROVE VisitTold(story, i, FALSE)
  <2>1. VisitTold(story, i, TRUE)
    BY <1>1, TellingParts
  <2>2. CASE ~IsLast(story, i)
    BY <2>1, <2>2 DEF VisitTold
  <2>3. CASE IsLast(story, i)
    <3>1. PICK k \in Positions(story, "click") : IsLast(story, k)
      BY <1>1 DEF LastClicked
    <3>2. i <= k /\ k \in 1 .. Len(story) /\ i \in 1 .. Len(story) /\ story[i] # story[k]
      BY <3>1 DEF IsLast, Positions
    <3>3. k \in i + 1 .. Len(story)
      BY <3>2
    <3>4. Visit(story, i) \cap Positions(story, "click") # {}
      BY <2>3, <3>1, <3>3, LastVisit
    <3>5. Visit(story, i) \cap Positions(story, "abandon") = {}
      BY <2>1, <2>3 DEF VisitTold
    <3>6. QED
      BY <3>4, <3>5 DEF VisitTold
  <2>4. QED
    BY <2>2, <2>3
<1>3. WellTold(story, FALSE, dwelling)
  BY <1>1, <1>2, TellingParts
<1>4. QED
  BY <1>1, <1>3 DEF Going

-----------------------------------------------------------------------------
(* The logger. *)

Clients ==
    [enabled : BOOLEAN, consent : Nat, queue : Seq(Nat), timer : BOOLEAN, posts : SUBSET {<<>>},
     leaked : BOOLEAN, current : Ids \cup {NoOne}, clicked : BOOLEAN, dwell : Ids \cup {NoOne},
     sawHidden : BOOLEAN, impressed : SUBSET Ids, told : [Ids -> Seq(EventTypes)]]

\* What waits is of this consent, less than a batch, and will leave.
Sends(c) ==
    /\ ~c.leaked
    /\ Len(c.queue) < flushAt
    /\ c.queue # <<>> => c.timer /\ c.enabled
    /\ \A i \in DOMAIN c.queue : c.queue[i] = c.consent

SameTale(c, d) ==
    /\ d.current = c.current /\ d.clicked = c.clicked /\ d.dwell = c.dwell
    /\ d.impressed = c.impressed /\ d.told = c.told

LEMMA MinOfTwo ==
    ASSUME NEW a \in Nat, NEW b \in Nat
    PROVE  Min({a, b}) \in {a, b} /\ Min({a, b}) <= a /\ Min({a, b}) <= b
<1>1. \E x \in {a, b} : \A y \in {a, b} : x <= y
  OBVIOUS
<1>2. QED
  BY <1>1 DEF Min

LEMMA FlushAtBounds == flushAt \in Nat /\ 0 < flushAt /\ flushAt <= MAX_BATCH
<1>1. FlushAt \in Nat /\ MAX_BATCH \in Nat /\ FlushAt > 0 /\ MAX_BATCH > 0
  BY BatchAssumption
<1>2. QED
  BY <1>1, MinOfTwo DEF flushAt

LEMMA OneQuotient ==
    ASSUME NEW m \in Nat, m > 0, NEW n \in 0 .. m
    PROVE  (n + m - 1) \div m = IF n = 0 THEN 0 ELSE 1
<1>1. CASE n = 0
  BY <1>1
<1>2. CASE n # 0
  BY <1>2
<1>3. QED
  BY <1>1, <1>2

\* A queue that fits a batch is one batch.
LEMMA OneBatch ==
    ASSUME NEW q \in Seq(Nat), Len(q) <= MAX_BATCH
    PROVE  /\ q = <<>> <=> Batches(q) = <<>>
           /\ q # <<>> => /\ Tail(Batches(q)) = <<>>
                          /\ ToSet(Head(Batches(q))) \subseteq ToSet(q)
<1> DEFINE k == (Len(q) + MAX_BATCH - 1) \div MAX_BATCH
           part(i) == SubSeq(q, (i - 1) * MAX_BATCH + 1, Min({i * MAX_BATCH, Len(q)}))
           b == Batches(q)
<1>1. MAX_BATCH \in Nat /\ MAX_BATCH > 0 /\ Len(q) \in 0 .. MAX_BATCH
  BY BatchAssumption
<1>2. k = IF Len(q) = 0 THEN 0 ELSE 1
  BY <1>1, OneQuotient
<1> HIDE DEF k
<1>3. b = [i \in 1 .. k |-> part(i)]
  BY DEF Batches, k
<1> HIDE DEF part
<1>4. b \in [1 .. k -> {part(1)}]
  BY <1>2, <1>3
<1>5. b \in Seq({part(1)}) /\ Len(b) = k
  BY <1>2, <1>4
<1>6. CASE q = <<>>
  <2>1. Len(b) = 0
    <3>1. Len(q) = 0
      BY <1>6
    <3> HIDE DEF b
    <3>2. QED
      BY <1>2, <1>5, <3>1
  <2>2. b = <<>>
    BY <1>5, <2>1, EmptySeq
  <2>3. QED
    BY <1>6, <2>2
<1>7. CASE q # <<>>
  <2>1. Len(q) # 0
    BY <1>7, EmptySeq
  <2> HIDE DEF b
  <2>2. Len(b) = 1 /\ b # <<>>
    <3>1. Len(b) = 1
      BY <1>2, <1>5, <2>1
    <3>2. Len(<<>>) # 1
      OBVIOUS
    <3>3. QED
      BY <3>1, <3>2, Zenon
  <2>3. Head(b) = part(1)
    BY <1>2, <1>3, <2>1, <2>2
  <2>4. Tail(b) = <<>>
    <3>1. Tail(b) \in Seq({part(1)}) /\ Len(Tail(b)) = 0
      BY <1>5, <2>2, HeadTailProperties
    <3>2. QED
      BY <3>1, EmptySeq
  <2>5. part(1) = SubSeq(q, 1, Len(q))
    <3>1. 1 * MAX_BATCH = MAX_BATCH /\ (1 - 1) * MAX_BATCH + 1 = 1
      BY <1>1
    <3>2. Min({MAX_BATCH, Len(q)}) = Len(q)
      BY <1>1, MinOfTwo
    <3>3. QED
      BY <3>1, <3>2 DEF part
  <2>6. SubSeq(q, 1, Len(q)) = q
    OBVIOUS
  <2>7. QED
    BY <1>7, <2>2, <2>3, <2>4, <2>5, <2>6 DEF b
<1>8. QED
  BY <1>6, <1>7

LEMMA HandedKeeps ==
    ASSUME NEW c \in Clients, ~c.leaked, NEW events,
           \A e \in ToSet(events) : c.enabled /\ e = c.consent
    PROVE  Handed(c, events) = c
<1>1. (c.leaked \/ \E e \in ToSet(events) : ~c.enabled \/ e # c.consent) = FALSE
  OBVIOUS
<1>2. Handed(c, events) = [c EXCEPT !.leaked = FALSE]
  BY <1>1, Zenon DEF Handed
<1>3. c.leaked = FALSE
  BY DEF Clients
<1>4. [c EXCEPT !.leaked = FALSE] = c
  BY <1>3 DEF Clients
<1>5. QED
  BY <1>2, <1>4

\* A flush leaves nothing behind, and one batch follows another only if it must.
LEMMA FlushKeeps ==
    ASSUME NEW c \in Clients, ~c.leaked, Len(c.queue) <= MAX_BATCH, NEW beacon,
           c.queue # <<>> => c.enabled, \A i \in DOMAIN c.queue : c.queue[i] = c.consent
    PROVE  LET d == Flush(c, beacon)
           IN  /\ d \in Clients /\ Sends(d) /\ SameTale(c, d)
               /\ d.queue = <<>> /\ d.consent = c.consent /\ d.enabled = c.enabled
<1> DEFINE empty == [c EXCEPT !.queue = <<>>, !.timer = FALSE]
           batches == Batches(c.queue)
           d == Flush(c, beacon)
<1>1. /\ empty \in Clients /\ ~empty.leaked /\ SameTale(c, empty) /\ empty.queue = <<>>
      /\ empty.consent = c.consent /\ empty.enabled = c.enabled
  <2>1. <<>> \in Seq(Nat)
    OBVIOUS
  <2>2. empty \in Clients
    BY <2>1 DEF Clients
  <2>3. /\ empty.leaked = c.leaked /\ empty.queue = <<>>
        /\ empty.consent = c.consent /\ empty.enabled = c.enabled
    BY DEF Clients
  <2>4. SameTale(c, empty)
    BY DEF Clients, SameTale
  <2>5. QED
    BY <2>2, <2>3, <2>4
<1> HIDE DEF empty
<1>2. \A x \in Clients : ~x.leaked /\ x.queue = <<>> => Sends(x)
  BY FlushAtBounds DEF Sends
<1>3. c.queue \in Seq(Nat)
  BY DEF Clients
<1>4. CASE ~c.enabled \/ batches = <<>>
  <2>1. d = empty
    BY <1>4 DEF Flush, empty
  <2>2. QED
    BY <1>1, <1>2, <2>1
<1>5. CASE c.enabled /\ batches # <<>>
  <2>1. c.queue # <<>> /\ Tail(batches) = <<>> /\ ToSet(Head(batches)) \subseteq ToSet(c.queue)
    BY <1>3, <1>5, OneBatch
  <2>2. \A e \in ToSet(c.queue) : empty.enabled /\ e = empty.consent
    BY <1>1, <1>5 DEF ToSet
  <2>3. Handed(empty, c.queue) = empty /\ Handed(empty, Head(batches)) = empty
    BY <1>1, <2>1, <2>2, HandedKeeps
  <2>4. d = empty \/ d = [empty EXCEPT !.posts = empty.posts \cup {<<>>}]
    <3>1. CASE beacon
      BY <1>5, <2>3, <3>1 DEF Flush, empty
    <3>2. CASE ~beacon
      <4>1. d = [Handed(empty, Head(batches)) EXCEPT !.posts = @ \cup {Tail(batches)}]
        BY <1>5, <3>2 DEF Flush, empty
      <4>2. QED
        BY <2>1, <2>3, <4>1
    <3>3. QED
      BY <3>1, <3>2
  <2>5. LET f == [empty EXCEPT !.posts = empty.posts \cup {<<>>}]
        IN  /\ f \in Clients /\ ~f.leaked /\ SameTale(empty, f) /\ f.queue = <<>>
            /\ f.consent = empty.consent /\ f.enabled = empty.enabled
    BY <1>1 DEF Clients, SameTale
  <2> HIDE DEF d
  <2>6. /\ d \in Clients /\ ~d.leaked /\ SameTale(empty, d) /\ d.queue = <<>>
        /\ d.consent = empty.consent /\ d.enabled = empty.enabled
    <3>1. CASE d = empty
      BY <1>1, <3>1 DEF SameTale
    <3>2. CASE d = [empty EXCEPT !.posts = empty.posts \cup {<<>>}]
      BY <2>5, <3>2
    <3>3. QED
      BY <2>4, <3>1, <3>2
  <2>7. QED
    BY <1>1, <1>2, <2>6 DEF SameTale, d
<1>6. c.enabled \in BOOLEAN
  BY DEF Clients
<1>7. QED
  BY <1>4, <1>5, <1>6

LEMMA PostedKeeps ==
    ASSUME NEW c \in Clients, Sends(c), NEW rest \in c.posts
    PROVE  LET d == Posted(c, rest)
           IN  d \in Clients /\ Sends(d) /\ SameTale(c, d) /\ d.queue = c.queue
<1>1. rest = <<>>
  BY DEF Clients
<1>2. Posted(c, rest) = [c EXCEPT !.posts = c.posts \ {rest}]
  BY <1>1 DEF Posted
<1>3. QED
  BY <1>2 DEF Clients, Sends, SameTale

\* Logging an event queues it, or sends what is queued.
LEMMA LogKeeps ==
    ASSUME NEW c \in Clients, Sends(c)
    PROVE  Log(c) \in Clients /\ Sends(Log(c)) /\ SameTale(c, Log(c))
<1> DEFINE d == [c EXCEPT !.queue = Append(c.queue, c.consent)]
<1>1. Log(c) = IF ~c.enabled THEN c
               ELSE IF Len(d.queue) >= flushAt THEN Flush(d, FALSE) ELSE [d EXCEPT !.timer = TRUE]
  BY DEF Log
<1>2. /\ d \in Clients /\ ~d.leaked /\ SameTale(c, d) /\ d.queue = Append(c.queue, c.consent)
      /\ d.enabled = c.enabled /\ d.consent = c.consent
  <2>1. Append(c.queue, c.consent) \in Seq(Nat)
    BY DEF Clients
  <2>2. d \in Clients
    BY <2>1 DEF Clients
  <2>3. /\ d.leaked = c.leaked /\ d.queue = Append(c.queue, c.consent)
        /\ d.consent = c.consent /\ d.enabled = c.enabled
    BY DEF Clients
  <2>4. SameTale(c, d)
    BY DEF Clients, SameTale
  <2>5. QED
    BY <2>2, <2>3, <2>4 DEF Sends
<1>3. /\ c.queue \in Seq(Nat) /\ c.consent \in Nat /\ Len(c.queue) < flushAt
      /\ Len(c.queue) \in Nat
      /\ \A i \in DOMAIN c.queue : c.queue[i] = c.consent
  BY DEF Clients, Sends
<1>4. Len(d.queue) = Len(c.queue) + 1 /\ \A i \in DOMAIN d.queue : d.queue[i] = d.consent
  <2>1. Len(d.queue) = Len(c.queue) + 1
    BY <1>2, <1>3
  <2>2. ASSUME NEW i \in DOMAIN d.queue PROVE d.queue[i] = c.consent
    BY <1>2, <1>3
  <2>3. QED
    BY <1>2, <2>1, <2>2
<1> HIDE DEF d
<1>5. CASE ~c.enabled
  BY <1>1, <1>5 DEF SameTale
<1>6. CASE c.enabled /\ Len(d.queue) >= flushAt
  <2>1. Len(d.queue) <= MAX_BATCH
    BY <1>3, <1>4, FlushAtBounds, BatchAssumption
  <2>2. Log(c) = Flush(d, FALSE) /\ (d.queue # <<>> => d.enabled)
    BY <1>1, <1>2, <1>6
  <2>3. Log(c) \in Clients /\ Sends(Log(c)) /\ SameTale(d, Log(c))
    BY <1>2, <1>4, <2>1, <2>2, FlushKeeps
  <2>4. QED
    BY <1>2, <2>3 DEF SameTale
<1>7. CASE c.enabled /\ ~(Len(d.queue) >= flushAt)
  <2> DEFINE e == [d EXCEPT !.timer = TRUE]
  <2>1. /\ e \in Clients /\ ~e.leaked /\ SameTale(d, e) /\ e.queue = d.queue /\ e.timer
        /\ e.enabled = d.enabled /\ e.consent = d.consent
    BY <1>2 DEF Clients, SameTale
  <2>2. Log(c) = e
    BY <1>1, <1>7
  <2> HIDE DEF e
  <2>3. Sends(e)
    BY <1>2, <1>3, <1>4, <1>7, <2>1, FlushAtBounds DEF Sends
  <2>4. SameTale(c, e)
    BY <1>2, <2>1 DEF SameTale
  <2>5. QED
    BY <2>1, <2>2, <2>3, <2>4
<1>8. c.enabled \in BOOLEAN
  BY DEF Clients
<1>9. QED
  BY <1>5, <1>6, <1>7, <1>8

-----------------------------------------------------------------------------
(* The tracker. *)

\* The order in which lists can come to the page.
Rank(id) == 2 * id[1] + (IF id[2] = "get" THEN 1 ELSE 0)

\* Every list's story is what the tracker remembers of it, `open` being the list
\* whose visit is not over.
Tracks(c, open) ==
    \A id \in Ids : Going(c.told[id], open = id, c.clicked, c.dwell = id, id \in c.impressed)

ClientInv(c) ==
    /\ c \in Clients /\ Sends(c) /\ Tracks(c, c.current)
    /\ Rank(c.dwell) <= Rank(c.current)

LEMMA Ranks ==
    /\ NoOne \notin Ids /\ Rank(NoOne) = 0
    /\ \A id \in Ids : Rank(id) \in Nat /\ Rank(id) > 0
    /\ \A id, other \in Ids : Rank(id) = Rank(other) => id = other
<1>1. \A id \in Ids : id = <<id[1], id[2]>> /\ id[1] \in Nat /\ id[1] > 0 /\ id[2] \in {"stream", "get"}
  BY TextsAssumption DEF Ids
<1>2. NoOne \notin Ids /\ Rank(NoOne) = 0
  BY <1>1 DEF NoOne, Rank
<1>3. ASSUME NEW id \in Ids PROVE Rank(id) \in Nat /\ Rank(id) > 0
  BY <1>1 DEF Rank
<1>4. ASSUME NEW id \in Ids, NEW other \in Ids, Rank(id) = Rank(other) PROVE id = other
  <2>1. id[1] = other[1] /\ id[2] = other[2]
    BY <1>1, <1>4 DEF Rank
  <2>2. QED
    BY <1>1, <2>1
<1>5. QED
  BY <1>2, <1>3, <1>4

\* What is remembered of a click matters while the visit is open.
LEMMA ClosedStory ==
    ASSUME NEW story, NEW clicked, NEW any, NEW dwelling, NEW impressed,
           Going(story, FALSE, clicked, dwelling, impressed)
    PROVE  Going(story, FALSE, any, dwelling, impressed)
  BY DEF Going

LEMMA SameTracks ==
    ASSUME NEW c, NEW d, NEW open, SameTale(c, d), Tracks(c, open)
    PROVE  Tracks(d, open)
  BY DEF SameTale, Tracks

LEMMA TellKeeps ==
    ASSUME NEW c \in Clients, Sends(c), NEW id \in Ids, NEW type \in EventTypes
    PROVE  LET d == Tell(c, id, type)
           IN  /\ d \in Clients /\ Sends(d) /\ d.current = c.current /\ d.clicked = c.clicked
               /\ d.dwell = c.dwell /\ d.impressed = c.impressed
               /\ d.told[id] = Append(c.told[id], type)
               /\ \A other \in Ids : other # id => d.told[other] = c.told[other]
<1> DEFINE e == [c EXCEPT !.told[id] = Append(@, type)]
<1>1. c.told \in [Ids -> Seq(EventTypes)] /\ Append(c.told[id], type) \in Seq(EventTypes)
  BY DEF Clients
<1>2. e = [c EXCEPT !.told = [c.told EXCEPT ![id] = Append(c.told[id], type)]]
  BY DEF Clients
<1>3. /\ [c.told EXCEPT ![id] = Append(c.told[id], type)] \in [Ids -> Seq(EventTypes)]
      /\ [c.told EXCEPT ![id] = Append(c.told[id], type)][id] = Append(c.told[id], type)
      /\ \A other \in Ids : other # id =>
             [c.told EXCEPT ![id] = Append(c.told[id], type)][other] = c.told[other]
  BY <1>1
<1>4. e \in Clients
  BY <1>2, <1>3 DEF Clients
<1>5. /\ e.queue = c.queue /\ e.leaked = c.leaked /\ e.timer = c.timer /\ e.enabled = c.enabled
      /\ e.consent = c.consent /\ e.current = c.current /\ e.clicked = c.clicked
      /\ e.dwell = c.dwell /\ e.impressed = c.impressed
      /\ e.told = [c.told EXCEPT ![id] = Append(c.told[id], type)]
  BY <1>2 DEF Clients
<1>6. Tell(c, id, type) = Log(e)
  BY DEF Tell
<1> HIDE DEF e
<1>7. Sends(e)
  BY <1>5 DEF Sends
<1>8. Log(e) \in Clients /\ Sends(Log(e)) /\ SameTale(e, Log(e))
  BY <1>4, <1>7, LogKeeps
<1>9. QED
  BY <1>3, <1>5, <1>6, <1>8 DEF SameTale

LEMMA EndDwellKeeps ==
    ASSUME NEW c \in Clients, Sends(c), NEW open, Tracks(c, open)
    PROVE  LET d == EndDwell(c)
           IN  /\ d \in Clients /\ Sends(d) /\ Tracks(d, open) /\ d.dwell = NoOne
               /\ d.current = c.current /\ d.clicked = c.clicked /\ d.impressed = c.impressed
<1>1. CASE c.dwell = NoOne
  BY <1>1 DEF EndDwell
<1>2. CASE c.dwell # NoOne
  <2> DEFINE id == c.dwell
             e == [c EXCEPT !.dwell = NoOne, !.sawHidden = FALSE]
             d == EndDwell(c)
  <2>1. id \in Ids
    BY <1>2 DEF Clients
  <2>2. e \in Clients
    BY DEF Clients
  <2>3. /\ e.queue = c.queue /\ e.leaked = c.leaked /\ e.timer = c.timer /\ e.enabled = c.enabled
        /\ e.consent = c.consent /\ e.current = c.current /\ e.clicked = c.clicked
        /\ e.dwell = NoOne /\ e.impressed = c.impressed /\ e.told = c.told
    BY DEF Clients
  <2>4. d = Tell(e, id, "dwell")
    BY <1>2 DEF EndDwell
  <2> HIDE DEF e, d, id
  <2>5. Sends(e)
    BY <2>3 DEF Sends
  <2>6. "dwell" \in EventTypes
    BY DEF EventTypes
  <2>7. /\ d \in Clients /\ Sends(d) /\ d.current = e.current /\ d.clicked = e.clicked
        /\ d.dwell = e.dwell /\ d.impressed = e.impressed
        /\ d.told[id] = Append(e.told[id], "dwell")
        /\ \A other \in Ids : other # id => d.told[other] = e.told[other]
    BY <2>1, <2>2, <2>4, <2>5, <2>6, TellKeeps
  <2>8. ASSUME NEW l \in Ids
        PROVE  Going(d.told[l], open = l, d.clicked, d.dwell = l, l \in d.impressed)
    <3>1. Going(c.told[l], open = l, c.clicked, c.dwell = l, l \in c.impressed)
      BY DEF Tracks
    <3>2. (d.dwell = l) = FALSE
      BY <2>3, <2>7, Ranks
    <3>3. CASE l = id
      <4>1. (c.dwell = l) = TRUE
        BY <3>3 DEF id
      <4>2. Going(c.told[l], open = l, c.clicked, TRUE, l \in c.impressed)
        BY <3>1, <4>1
      <4>3. c.told[l] \in Seq(EventTypes)
        BY DEF Clients
      <4>4. Going(Append(c.told[l], "dwell"), open = l, c.clicked, FALSE, l \in c.impressed)
        BY <4>2, <4>3, DwellTold
      <4>5. QED
        BY <2>3, <2>7, <3>2, <3>3, <4>4
    <3>4. CASE l # id
      <4>1. (c.dwell = l) = FALSE
        BY <3>4 DEF id
      <4>2. QED
        BY <2>3, <2>7, <3>1, <3>2, <3>4, <4>1
    <3>5. QED
      BY <3>3, <3>4
  <2>9. QED
    BY <2>3, <2>7, <2>8 DEF Tracks, d
<1>3. QED
  BY <1>1, <1>2

\* Closing the open list tells that it was abandoned unless it was clicked.
LEMMA CloseKeeps ==
    ASSUME NEW c \in Clients, Sends(c), Tracks(c, c.current)
    PROVE  LET d == CloseCurrent(c)
           IN  /\ d \in Clients /\ Sends(d) /\ Tracks(d, NoOne) /\ d.dwell = c.dwell
               /\ d.current = c.current /\ d.impressed = c.impressed
<1> DEFINE d == CloseCurrent(c)
           id == c.current
<1>1. c.clicked \in BOOLEAN /\ c.current \in Ids \cup {NoOne} /\ c.told \in [Ids -> Seq(EventTypes)]
  BY DEF Clients
<1>2. \A l \in Ids : (NoOne = l) = FALSE
  BY Ranks
<1>3. ASSUME NEW l \in Ids, l # id, NEW any
      PROVE  Going(c.told[l], FALSE, any, c.dwell = l, l \in c.impressed)
  <2>1. Going(c.told[l], id = l, c.clicked, c.dwell = l, l \in c.impressed) /\ (id = l) = FALSE
    BY <1>3 DEF Tracks
  <2>2. Going(c.told[l], FALSE, c.clicked, c.dwell = l, l \in c.impressed)
    BY <2>1
  <2>3. QED
    BY <2>2, ClosedStory
<1>4. CASE id = NoOne \/ c.clicked
  <2>1. d = c
    BY <1>4 DEF CloseCurrent
  <2>2. ASSUME NEW l \in Ids, l = id
        PROVE  Going(c.told[l], FALSE, c.clicked, c.dwell = l, l \in c.impressed)
    <3>1. c.clicked = TRUE /\ (id = l) = TRUE
      BY <1>1, <1>4, <2>2, Ranks
    <3>2. Going(c.told[l], TRUE, TRUE, c.dwell = l, l \in c.impressed)
      BY <3>1 DEF Tracks
    <3>3. QED
      BY <1>1, <3>2, CloseTold
  <2>3. Tracks(c, NoOne)
    <3>1. ASSUME NEW l \in Ids
          PROVE  Going(c.told[l], NoOne = l, c.clicked, c.dwell = l, l \in c.impressed)
      <4>1. Going(c.told[l], FALSE, c.clicked, c.dwell = l, l \in c.impressed)
        BY <1>3, <2>2
      <4>2. QED
        BY <1>2, <4>1
    <3>2. QED
      BY <3>1 DEF Tracks
  <2>4. QED
    BY <2>1, <2>3
<1>5. CASE id # NoOne /\ ~c.clicked
  <2>1. d = Tell(c, id, "abandon") /\ id \in Ids /\ "abandon" \in EventTypes
    BY <1>1, <1>5 DEF CloseCurrent, EventTypes
  <2> HIDE DEF d
  <2>2. /\ d \in Clients /\ Sends(d) /\ d.current = c.current /\ d.clicked = c.clicked
        /\ d.dwell = c.dwell /\ d.impressed = c.impressed
        /\ d.told[id] = Append(c.told[id], "abandon")
        /\ \A other \in Ids : other # id => d.told[other] = c.told[other]
    BY <2>1, TellKeeps
  <2>3. Going(d.told[id], FALSE, d.clicked, d.dwell = id, id \in d.impressed)
    <3>1. (id = id) = TRUE /\ c.clicked = FALSE
      BY <1>1, <1>5
    <3>2. Going(c.told[id], TRUE, FALSE, c.dwell = id, id \in c.impressed)
      BY <2>1, <3>1 DEF Tracks
    <3>3. (c.dwell = id) = FALSE
      BY <3>2 DEF Going
    <3>4. Going(Append(c.told[id], "abandon"), FALSE, d.clicked, FALSE, id \in c.impressed)
      BY <1>1, <2>1, <3>2, <3>3, AbandonTold
    <3>5. QED
      BY <2>2, <3>3, <3>4
  <2>4. ASSUME NEW l \in Ids
        PROVE  Going(d.told[l], NoOne = l, d.clicked, d.dwell = l, l \in d.impressed)
    <3>1. CASE l = id
      BY <1>2, <2>3, <3>1
    <3>2. CASE l # id
      <4>1. Going(c.told[l], FALSE, d.clicked, c.dwell = l, l \in c.impressed)
        BY <1>3, <3>2
      <4>2. QED
        BY <1>2, <2>2, <3>2, <4>1
    <3>3. QED
      BY <3>1, <3>2
  <2>5. Tracks(d, NoOne)
    BY <2>4 DEF Tracks
  <2>6. QED
    BY <2>2, <2>5 DEF d
<1>6. QED
  BY <1>1, <1>4, <1>5

\* A list settles that comes after the open one, or is the open one.
LEMMA SettledKeeps ==
    ASSUME NEW c, ClientInv(c), NEW id \in Ids, Rank(c.current) <= Rank(id)
    PROVE  LET d == Settled(c, id) IN ClientInv(d) /\ d.current = id
<1>1. CASE c.current = id
  BY <1>1 DEF Settled
<1>2. CASE c.current # id
  <2> DEFINE e == CloseCurrent(c)
             f == [e EXCEPT !.current = id, !.clicked = FALSE]
             d == Settled(c, id)
  <2>1. /\ e \in Clients /\ Sends(e) /\ Tracks(e, NoOne) /\ e.dwell = c.dwell
    BY CloseKeeps DEF ClientInv
  <2>2. d = Tell(f, id, "query") /\ "query" \in EventTypes
    BY <1>2 DEF Settled, EventTypes
  <2> HIDE DEF e
  <2>3. f \in Clients
    BY <2>1 DEF Clients
  <2>4. /\ f.queue = e.queue /\ f.leaked = e.leaked /\ f.timer = e.timer /\ f.enabled = e.enabled
        /\ f.consent = e.consent /\ f.current = id /\ f.clicked = FALSE
        /\ f.dwell = e.dwell /\ f.impressed = e.impressed /\ f.told = e.told
    BY <2>1 DEF Clients
  <2> HIDE DEF f, d
  <2>5. Sends(f)
    BY <2>1, <2>4 DEF Sends
  <2>6. /\ d \in Clients /\ Sends(d) /\ d.current = f.current /\ d.clicked = f.clicked
        /\ d.dwell = f.dwell /\ d.impressed = f.impressed
        /\ d.told[id] = Append(f.told[id], "query")
        /\ \A other \in Ids : other # id => d.told[other] = f.told[other]
    BY <2>2, <2>3, <2>5, TellKeeps
  <2>7. c.current \in Ids \cup {NoOne} /\ c.dwell \in Ids \cup {NoOne} /\ Rank(c.dwell) <= Rank(c.current)
    BY DEF ClientInv, Clients
  <2>8. Rank(c.dwell) \in Nat /\ Rank(c.current) \in Nat /\ Rank(id) \in Nat
    BY <2>7, Ranks
  <2>9. c.dwell # id
    <3>1. SUFFICES ASSUME c.dwell = id PROVE FALSE
      OBVIOUS
    <3>2. Rank(c.current) = Rank(id) /\ Rank(id) > 0
      BY <2>7, <2>8, <3>1, Ranks
    <3>3. c.current \in Ids
      BY <2>7, <3>2, Ranks
    <3>4. QED
      BY <1>2, <3>2, <3>3, Ranks
  <2>10. ASSUME NEW l \in Ids
         PROVE  Going(d.told[l], d.current = l, d.clicked, d.dwell = l, l \in d.impressed)
    <3>1. (NoOne = l) = FALSE
      BY Ranks
    <3>2. Going(e.told[l], NoOne = l, e.clicked, e.dwell = l, l \in e.impressed)
      BY <2>1 DEF Tracks
    <3>3. Going(e.told[l], FALSE, e.clicked, e.dwell = l, l \in e.impressed)
      BY <3>1, <3>2
    <3>4. CASE l = id
      <4>1. (e.dwell = l) = FALSE /\ (d.current = l) = TRUE /\ e.told[l] \in Seq(EventTypes)
        BY <2>1, <2>4, <2>6, <2>9, <3>4 DEF Clients
      <4>2. Going(e.told[l], FALSE, e.clicked, FALSE, l \in e.impressed)
        BY <3>3, <4>1
      <4>3. Going(Append(e.told[l], "query"), TRUE, FALSE, FALSE, l \in e.impressed)
        BY <4>1, <4>2, QueryTold
      <4>4. d.told[l] = Append(e.told[l], "query") /\ d.clicked = FALSE /\ d.impressed = e.impressed
            /\ d.dwell = e.dwell
        BY <2>4, <2>6, <3>4
      <4>5. QED
        BY <4>1, <4>3, <4>4
    <3>5. CASE l # id
      <4>1. (d.current = l) = FALSE /\ d.told[l] = e.told[l] /\ d.impressed = e.impressed
            /\ d.dwell = e.dwell
        BY <2>4, <2>6, <3>5
      <4>2. Going(e.told[l], FALSE, d.clicked, e.dwell = l, l \in e.impressed)
        BY <3>3, ClosedStory
      <4>3. QED
        BY <4>1, <4>2
    <3>6. QED
      BY <3>4, <3>5
  <2>11. Tracks(d, d.current)
    BY <2>10 DEF Tracks
  <2>12. d.current = id /\ d.dwell = c.dwell /\ Rank(d.dwell) <= Rank(d.current)
    BY <2>1, <2>4, <2>6, <2>7, <2>8
  <2>13. QED
    BY <2>6, <2>11, <2>12 DEF ClientInv, d
<1>3. QED
  BY <1>1, <1>2

LEMMA ImpressionKeeps ==
    ASSUME NEW c, ClientInv(c), NEW id \in Ids
    PROVE  LET d == Impression(c, id) IN ClientInv(d) /\ d.current = c.current
<1>1. CASE c.current # id \/ id \in c.impressed
  BY <1>1 DEF Impression
<1>2. CASE c.current = id /\ id \notin c.impressed
  <2> DEFINE e == [c EXCEPT !.impressed = @ \cup {id}]
             d == Impression(c, id)
  <2>1. d = Tell(e, id, "impression") /\ "impression" \in EventTypes
    BY <1>2 DEF Impression, EventTypes
  <2>2. c \in Clients /\ Sends(c) /\ Tracks(c, c.current) /\ Rank(c.dwell) <= Rank(c.current)
    BY DEF ClientInv
  <2>3. e \in Clients
    BY <2>2 DEF Clients
  <2>4. /\ e.queue = c.queue /\ e.leaked = c.leaked /\ e.timer = c.timer /\ e.enabled = c.enabled
        /\ e.consent = c.consent /\ e.current = c.current /\ e.clicked = c.clicked
        /\ e.dwell = c.dwell /\ e.impressed = c.impressed \cup {id} /\ e.told = c.told
    BY <2>2 DEF Clients
  <2> HIDE DEF e, d
  <2>5. Sends(e)
    BY <2>2, <2>4 DEF Sends
  <2>6. /\ d \in Clients /\ Sends(d) /\ d.current = e.current /\ d.clicked = e.clicked
        /\ d.dwell = e.dwell /\ d.impressed = e.impressed
        /\ d.told[id] = Append(e.told[id], "impression")
        /\ \A other \in Ids : other # id => d.told[other] = e.told[other]
    BY <2>1, <2>3, <2>5, TellKeeps
  <2>7. ASSUME NEW l \in Ids
        PROVE  Going(d.told[l], d.current = l, d.clicked, d.dwell = l, l \in d.impressed)
    <3>1. Going(c.told[l], c.current = l, c.clicked, c.dwell = l, l \in c.impressed)
      BY <2>2 DEF Tracks
    <3>2. CASE l = id
      <4>1. /\ (c.current = l) = TRUE /\ (l \in c.impressed) = FALSE /\ (l \in d.impressed) = TRUE
            /\ c.told[l] \in Seq(EventTypes) /\ (c.dwell = l) \in BOOLEAN
        BY <1>2, <2>2, <2>4, <2>6, <3>2 DEF Clients
      <4>2. Going(c.told[l], TRUE, c.clicked, c.dwell = l, FALSE)
        BY <3>1, <4>1
      <4>3. Going(Append(c.told[l], "impression"), TRUE, c.clicked, c.dwell = l, TRUE)
        BY <4>1, <4>2, ImpressionTold
      <4>4. d.told[l] = Append(c.told[l], "impression") /\ d.clicked = c.clicked
            /\ d.dwell = c.dwell /\ d.current = c.current
        BY <2>4, <2>6, <3>2
      <4>5. QED
        BY <4>1, <4>3, <4>4
    <3>3. CASE l # id
      <4>1. (l \in d.impressed) = (l \in c.impressed)
        BY <2>4, <2>6, <3>3
      <4>2. d.told[l] = c.told[l] /\ d.clicked = c.clicked
            /\ d.dwell = c.dwell /\ d.current = c.current
        BY <2>4, <2>6, <3>3
      <4>3. QED
        BY <3>1, <4>1, <4>2
    <3>4. QED
      BY <3>2, <3>3
  <2>8. Tracks(d, d.current)
    BY <2>7 DEF Tracks
  <2>9. QED
    BY <2>2, <2>4, <2>6, <2>8 DEF ClientInv, d
<1>3. QED
  BY <1>1, <1>2

LEMMA ClickKeeps ==
    ASSUME NEW c, ClientInv(c), NEW id \in Ids, Rank(c.current) <= Rank(id)
    PROVE  LET d == Click(c, id) IN ClientInv(d) /\ d.current = id
<1> DEFINE b == EndDwell(Settled(c, id))
           e == [b EXCEPT !.clicked = TRUE]
           f == Tell(e, id, "click")
           d == Click(c, id)
<1>1. ClientInv(Settled(c, id)) /\ Settled(c, id).current = id
  BY SettledKeeps
<1>2. /\ b \in Clients /\ Sends(b) /\ Tracks(b, id) /\ b.dwell = NoOne /\ b.current = id
  <2> DEFINE a == Settled(c, id)
  <2>1. a \in Clients /\ Sends(a) /\ Tracks(a, id) /\ a.current = id
    BY <1>1 DEF ClientInv
  <2> HIDE DEF a
  <2>2. LET x == EndDwell(a) IN x \in Clients /\ Sends(x) /\ Tracks(x, id) /\ x.dwell = NoOne /\ x.current = id
    BY <2>1, EndDwellKeeps
  <2>3. QED
    BY <2>2 DEF a
<1>3. d = [f EXCEPT !.dwell = id, !.sawHidden = FALSE]
  BY DEF Click
<1> HIDE DEF b
<1>4. e \in Clients
  BY <1>2 DEF Clients
<1>5. /\ e.queue = b.queue /\ e.leaked = b.leaked /\ e.timer = b.timer /\ e.enabled = b.enabled
      /\ e.consent = b.consent /\ e.current = b.current /\ e.clicked = TRUE
      /\ e.dwell = b.dwell /\ e.impressed = b.impressed /\ e.told = b.told
  BY <1>2 DEF Clients
<1> HIDE DEF e
<1>6. Sends(e) /\ "click" \in EventTypes
  BY <1>2, <1>5 DEF Sends, EventTypes
<1>7. /\ f \in Clients /\ Sends(f) /\ f.current = e.current /\ f.clicked = e.clicked
      /\ f.dwell = e.dwell /\ f.impressed = e.impressed
      /\ f.told[id] = Append(e.told[id], "click")
      /\ \A other \in Ids : other # id => f.told[other] = e.told[other]
  BY <1>4, <1>6, TellKeeps
<1> HIDE DEF f, d
<1>8. d \in Clients
  BY <1>3, <1>7 DEF Clients
<1>9. /\ d.queue = f.queue /\ d.leaked = f.leaked /\ d.timer = f.timer /\ d.enabled = f.enabled
      /\ d.consent = f.consent /\ d.current = f.current /\ d.clicked = f.clicked
      /\ d.dwell = id /\ d.impressed = f.impressed /\ d.told = f.told
  BY <1>3, <1>7 DEF Clients
<1>10. Sends(d)
  BY <1>7, <1>9 DEF Sends
<1>11. ASSUME NEW l \in Ids
       PROVE  Going(d.told[l], d.current = l, d.clicked, d.dwell = l, l \in d.impressed)
  <2>1. Going(b.told[l], id = l, b.clicked, b.dwell = l, l \in b.impressed)
    BY <1>2 DEF Tracks
  <2>2. (b.dwell = l) = FALSE
    BY <1>2, Ranks
  <2>3. CASE l = id
    <3>1. (id = l) = TRUE /\ (d.current = l) = TRUE /\ (d.dwell = l) = TRUE /\ d.clicked = TRUE
          /\ b.told[l] \in Seq(EventTypes)
      BY <1>2, <1>5, <1>7, <1>9, <2>3 DEF Clients
    <3>2. Going(b.told[l], TRUE, b.clicked, FALSE, l \in b.impressed)
      BY <2>1, <2>2, <3>1
    <3>3. Going(Append(b.told[l], "click"), TRUE, TRUE, TRUE, l \in b.impressed)
      BY <3>1, <3>2, ClickTold
    <3>4. d.told[l] = Append(b.told[l], "click") /\ d.impressed = b.impressed
      BY <1>5, <1>7, <1>9, <2>3
    <3>5. QED
      BY <3>1, <3>3, <3>4
  <2>4. CASE l # id
    <3>1. (id = l) = FALSE /\ (d.current = l) = FALSE /\ (d.dwell = l) = FALSE
      BY <1>2, <1>5, <1>7, <1>9, <2>4
    <3>2. Going(b.told[l], FALSE, b.clicked, FALSE, l \in b.impressed)
      BY <2>1, <2>2, <3>1
    <3>3. Going(b.told[l], FALSE, d.clicked, FALSE, l \in b.impressed)
      BY <3>2, ClosedStory
    <3>4. d.told[l] = b.told[l] /\ d.impressed = b.impressed
      BY <1>5, <1>7, <1>9, <2>4
    <3>5. QED
      BY <3>1, <3>3, <3>4
  <2>5. QED
    BY <2>3, <2>4
<1>12. Tracks(d, d.current)
  BY <1>11 DEF Tracks
<1>13. d.current = id /\ Rank(d.dwell) <= Rank(d.current)
  BY <1>2, <1>5, <1>7, <1>9, Ranks
<1>14. QED
  BY <1>8, <1>10, <1>12, <1>13 DEF ClientInv, d

LEMMA EndDwellInv ==
    ASSUME NEW c, ClientInv(c)
    PROVE  LET d == EndDwell(c) IN ClientInv(d) /\ d.current = c.current /\ d.dwell = NoOne
<1> DEFINE d == EndDwell(c)
<1>1. c \in Clients /\ Sends(c) /\ Tracks(c, c.current)
  BY DEF ClientInv
<1>2. /\ d \in Clients /\ Sends(d) /\ Tracks(d, c.current) /\ d.dwell = NoOne
      /\ d.current = c.current
  BY <1>1, EndDwellKeeps
<1>3. Rank(NoOne) = 0 /\ Rank(c.current) \in Nat
  <2>1. c.current \in Ids \cup {NoOne}
    BY <1>1 DEF Clients
  <2>2. QED
    BY <2>1, Ranks
<1> HIDE DEF d
<1>4. Rank(d.dwell) <= Rank(d.current)
  BY <1>2, <1>3
<1>5. QED
  BY <1>2, <1>4 DEF ClientInv, d

LEMMA UnloadingKeeps ==
    ASSUME NEW c, ClientInv(c)
    PROVE  LET d == Unloading(c) IN ClientInv(d) /\ d.current = NoOne /\ d.dwell = NoOne
<1> DEFINE b == EndDwell(c)
           e == CloseCurrent(b)
           d == Unloading(c)
<1>1. ClientInv(b) /\ b.dwell = NoOne
  BY EndDwellInv
<1>2. d = [e EXCEPT !.current = NoOne, !.clicked = FALSE]
  BY DEF Unloading
<1> HIDE DEF b
<1>3. /\ e \in Clients /\ Sends(e) /\ Tracks(e, NoOne) /\ e.dwell = NoOne
  BY <1>1, CloseKeeps DEF ClientInv
<1> HIDE DEF d, e
<1>4. d \in Clients
  BY <1>2, <1>3 DEF Clients
<1>5. /\ d.queue = e.queue /\ d.leaked = e.leaked /\ d.timer = e.timer /\ d.enabled = e.enabled
      /\ d.consent = e.consent /\ d.current = NoOne
      /\ d.dwell = e.dwell /\ d.impressed = e.impressed /\ d.told = e.told
  BY <1>2, <1>3 DEF Clients
<1>6. Sends(d)
  BY <1>3, <1>5 DEF Sends
<1>7. ASSUME NEW l \in Ids
      PROVE  Going(d.told[l], NoOne = l, d.clicked, d.dwell = l, l \in d.impressed)
  <2>1. Going(e.told[l], NoOne = l, e.clicked, e.dwell = l, l \in e.impressed)
        /\ (NoOne = l) = FALSE
    BY <1>3, Ranks DEF Tracks
  <2>2. Going(e.told[l], FALSE, e.clicked, e.dwell = l, l \in e.impressed)
    BY <2>1
  <2>3. Going(e.told[l], FALSE, d.clicked, e.dwell = l, l \in e.impressed)
    BY <2>2, ClosedStory
  <2>4. QED
    BY <1>5, <2>1, <2>3
<1>8. Tracks(d, d.current)
  BY <1>5, <1>7 DEF Tracks
<1>9. Rank(d.dwell) <= Rank(d.current)
  BY <1>3, <1>5, Ranks
<1>10. QED
  BY <1>3, <1>4, <1>5, <1>6, <1>8, <1>9 DEF ClientInv, d

LEMMA HiddenKeeps ==
    ASSUME NEW c, ClientInv(c)
    PROVE  LET d == Hidden(c) IN ClientInv(d) /\ d.current = c.current /\ d.queue = c.queue
<1> DEFINE d == Hidden(c)
<1>1. c \in Clients /\ Sends(c) /\ Tracks(c, c.current) /\ Rank(c.dwell) <= Rank(c.current)
  BY DEF ClientInv
<1>2. (c.dwell # NoOne) \in BOOLEAN
  OBVIOUS
<1>3. PICK b \in BOOLEAN : d = [c EXCEPT !.sawHidden = b]
  BY <1>2, Zenon DEF Hidden
<1> HIDE DEF d
<1>4. d \in Clients
  BY <1>1, <1>3 DEF Clients
<1>5. /\ d.queue = c.queue /\ d.leaked = c.leaked /\ d.timer = c.timer /\ d.enabled = c.enabled
      /\ d.consent = c.consent /\ SameTale(c, d)
  BY <1>1, <1>3 DEF Clients, SameTale
<1>6. Sends(d)
  BY <1>1, <1>5 DEF Sends
<1>7. Tracks(d, d.current)
  BY <1>1, <1>5, SameTracks DEF SameTale
<1>8. QED
  BY <1>1, <1>4, <1>5, <1>6, <1>7 DEF ClientInv, SameTale, d

LEMMA VisibleKeeps ==
    ASSUME NEW c, ClientInv(c), NEW onResults
    PROVE  LET d == Visible(c, onResults) IN ClientInv(d) /\ d.current = c.current
  BY EndDwellInv DEF Visible

LEMMA FlushInv ==
    ASSUME NEW c, ClientInv(c), NEW beacon
    PROVE  LET d == Flush(c, beacon)
           IN  ClientInv(d) /\ d.current = c.current /\ d.dwell = c.dwell /\ d.queue = <<>>
<1> DEFINE d == Flush(c, beacon)
<1>1. c \in Clients /\ Sends(c) /\ Tracks(c, c.current) /\ Rank(c.dwell) <= Rank(c.current)
  BY DEF ClientInv
<1>2. Len(c.queue) \in Nat /\ Len(c.queue) <= MAX_BATCH
  BY <1>1, FlushAtBounds, BatchAssumption DEF Sends, Clients
<1>3. d \in Clients /\ Sends(d) /\ SameTale(c, d) /\ d.queue = <<>>
  BY <1>1, <1>2, FlushKeeps DEF Sends
<1> HIDE DEF d
<1>4. QED
  BY <1>1, <1>3, SameTracks DEF ClientInv, SameTale, d

LEMMA PostedInv ==
    ASSUME NEW c, ClientInv(c), NEW rest \in c.posts
    PROVE  LET d == Posted(c, rest)
           IN  ClientInv(d) /\ d.current = c.current
<1> DEFINE d == Posted(c, rest)
<1>1. c \in Clients /\ Sends(c) /\ Tracks(c, c.current) /\ Rank(c.dwell) <= Rank(c.current)
  BY DEF ClientInv
<1>2. d \in Clients /\ Sends(d) /\ SameTale(c, d)
  BY <1>1, PostedKeeps
<1> HIDE DEF d
<1>3. QED
  BY <1>1, <1>2, SameTracks DEF ClientInv, SameTale, d

\* Consent given or withdrawn: nothing of before is left to be sent.
LEMMA ConsentKeeps ==
    ASSUME NEW c, ClientInv(c), NEW d, d = IF c.enabled THEN OptOut(c) ELSE OptIn(c)
    PROVE  ClientInv(d) /\ d.current = c.current
<1>1. c \in Clients /\ Sends(c) /\ Tracks(c, c.current) /\ Rank(c.dwell) <= Rank(c.current)
  BY DEF ClientInv
<1>2. CASE c.enabled
  <2>1. d = [c EXCEPT !.enabled = FALSE, !.consent = @ + 1, !.queue = <<>>, !.timer = FALSE]
    BY <1>2 DEF OptOut
  <2>2. <<>> \in Seq(Nat) /\ c.consent + 1 \in Nat
    BY <1>1 DEF Clients
  <2>3. d \in Clients
    BY <1>1, <2>1, <2>2 DEF Clients
  <2>4. d.queue = <<>> /\ d.leaked = c.leaked /\ SameTale(c, d)
    BY <1>1, <2>1 DEF Clients, SameTale
  <2>5. Sends(d)
    BY <1>1, <2>4, FlushAtBounds DEF Sends
  <2>6. QED
    BY <1>1, <2>3, <2>4, <2>5, SameTracks DEF ClientInv, SameTale
<1>3. CASE ~c.enabled
  <2>1. d = [c EXCEPT !.enabled = TRUE, !.consent = @ + 1]
    BY <1>3 DEF OptIn
  <2>2. c.consent + 1 \in Nat
    BY <1>1 DEF Clients
  <2>3. d \in Clients
    BY <1>1, <2>1, <2>2 DEF Clients
  <2>4. d.queue = c.queue /\ d.leaked = c.leaked /\ SameTale(c, d)
    BY <1>1, <2>1 DEF Clients, SameTale
  <2>5. c.queue = <<>>
    BY <1>1, <1>3 DEF Sends
  <2>6. Sends(d)
    BY <1>1, <2>4, <2>5, FlushAtBounds DEF Sends
  <2>7. QED
    BY <1>1, <2>3, <2>4, <2>6, SameTracks DEF ClientInv, SameTale
<1>4. QED
  BY <1>2, <1>3

-----------------------------------------------------------------------------
(* The lists that come to the page. *)

Reached == 2 * generation + (IF generation > 0 /\ runs[generation].at = "over" THEN 1 ELSE 0)

Listed ==
    /\ generation <= MaxQueries
    /\ shown.list # NoList => shown.list.id \in Ids /\ Rank(shown.list.id) <= Reached
    /\ shown.phase \in {"lexical", "final"} => shown.list # NoList

\* A step of the hook brings no list, or one that none comes after.
Comes ==
    /\ Reached <= Reached' /\ Reached \in Nat
    /\ shown'.list # NoList => shown'.list = shown.list \/ Rank(shown'.list.id) = Reached'

LEMMA ReachedIsNat == ASSUME HookTypes PROVE generation \in Nat /\ Reached \in {2 * generation, 2 * generation + 1}
  BY DEF HookTypes, generation, Reached

LEMMA AskComes == ASSUME HookInv, Listed, NEW p \in Asked, Ask(p) PROVE Listed' /\ Comes
<1>1. generation' = generation + 1 /\ generation < MaxQueries /\ generation \in Nat
  BY DEF Ask, generation, HookInv, HookTypes
<1>2. Reached \in {2 * generation, 2 * generation + 1} /\ Reached' >= 2 * generation + 2 /\ Reached' \in Nat
  <2>1. Reached \in {2 * generation, 2 * generation + 1}
    BY ReachedIsNat DEF HookInv
  <2>2. Reached' \in {2 * (generation + 1), 2 * (generation + 1) + 1}
    BY <1>1 DEF Reached
  <2>3. QED
    BY <1>1, <2>1, <2>2
<1>3. shown' = Idle \/ (shown'.phase = "loading" /\ shown'.list = shown.list)
  BY DEF Ask, HookInv, HookTypes, Views
<1>4. Idle.list = NoList /\ Idle.phase = "idle"
  BY DEF Idle
<1>5. \A id \in Ids : Rank(id) \in Nat
  BY Ranks
<1>6. shown'.list # NoList => shown'.list = shown.list
  BY <1>3, <1>4
<1>7. generation' <= MaxQueries
  BY <1>1, TextsAssumption
<1>8. QED
  BY <1>1, <1>2, <1>3, <1>4, <1>5, <1>6, <1>7 DEF Listed, Comes

LEMMA RunMoves ==
    ASSUME HookInv, NEW g \in 1 .. generation, NEW r \in Runs, runs' = [runs EXCEPT ![g] = r],
           queries' = queries, runs[g].at # "over"
    PROVE  /\ generation' = generation /\ Reached \in Nat /\ Reached' \in Nat /\ Reached <= Reached'
           /\ g = generation => Reached = 2 * g /\ Reached' = IF r.at = "over" THEN 2 * g + 1 ELSE 2 * g
<1>1. generation' = generation /\ generation \in Nat /\ generation > 0 /\ runs \in Seq(Runs)
      /\ Len(runs) = generation /\ g \in Nat
  BY DEF generation, HookInv, HookTypes
<1>2. runs'[g] = r /\ \A h \in 1 .. generation : h # g => runs'[h] = runs[h]
  BY <1>1
<1>3. CASE g = generation
  <2>1. Reached = 2 * g
    BY <1>1, <1>3 DEF Reached
  <2>2. Reached' = IF r.at = "over" THEN 2 * g + 1 ELSE 2 * g
    BY <1>1, <1>2, <1>3 DEF Reached
  <2>3. QED
    BY <1>1, <1>3, <2>1, <2>2
<1>4. CASE g # generation
  <2>1. runs'[generation] = runs[generation] /\ runs'[generation'] = runs[generation]
    BY <1>1, <1>2, <1>4
  <2>2. Reached' = Reached
    BY <1>1, <2>1 DEF Reached
  <2>3. QED
    BY <1>1, <1>4, <2>2, ReachedIsNat DEF HookInv
<1>5. QED
  BY <1>3, <1>4

LEMMA RunComes ==
    ASSUME HookInv, Listed, NEW g \in 1 .. generation, Served(g) \/ Unserved(g)
    PROVE  Listed' /\ Comes
<1> DEFINE run == runs[g]
<1>1. /\ run \in Runs /\ generation \in Nat /\ g \in Nat /\ g > 0 /\ g <= MaxQueries
      /\ runs \in Seq(Runs) /\ shown \in Views /\ MaxQueries \in Nat
  BY TextsAssumption DEF HookInv, HookTypes, generation, Listed
<1>2. \A id \in Ids : Rank(id) \in Nat
  BY Ranks
<1>3. queries' = queries /\ run.at # "over"
  BY DEF Served, Unserved, Start, LexicalList, FinalList, Resolve, Reject, ErrorEvent, Answer, AnswerFails
<1>4. ASSUME NEW r \in Runs, runs' = [runs EXCEPT ![g] = r], shown'.list = shown.list,
             shown'.phase \in {"lexical", "final"} => shown' = shown
      PROVE  Listed' /\ Comes
  <2>1. generation' = generation /\ Reached \in Nat /\ Reached' \in Nat /\ Reached <= Reached'
    BY <1>3, <1>4, RunMoves
  <2>2. QED
    BY <1>2, <1>4, <2>1 DEF Listed, Comes
<1>5. ASSUME NEW r \in Runs, runs' = [runs EXCEPT ![g] = r], g = generation,
             NEW phase \in {"lexical", "final"}, NEW kind \in {"stream", "get"},
             shown' = Showing(g, phase, <<g, kind>>), (kind = "get") = (r.at = "over")
      PROVE  Listed' /\ Comes
  <2>1. generation' = generation /\ Reached \in Nat /\ Reached' \in Nat /\ Reached <= Reached'
        /\ Reached' = IF r.at = "over" THEN 2 * g + 1 ELSE 2 * g
    BY <1>3, <1>5, RunMoves
  <2>2. shown'.list.id = <<g, kind>> /\ <<g, kind>> \in Ids
    BY <1>1, <1>5 DEF Showing, Ids
  <2>3. shown'.list # NoList
    BY <1>1, <2>2 DEF NoList
  <2>4. Rank(<<g, kind>>) = Reached'
    BY <1>1, <1>5, <2>1 DEF Rank
  <2>5. QED
    BY <2>1, <2>2, <2>3, <2>4, <1>5 DEF Listed, Comes
<1>6. Failed(g).list = shown.list /\ Failed(g).phase = "error"
  BY <1>1 DEF Failed, Views
<1>7. /\ Over(g) = [runs EXCEPT ![g] = [run EXCEPT !.at = "over"]]
      /\ [run EXCEPT !.at = "over"] \in Runs
  BY <1>1 DEF Over, Runs
<1>8. CASE Start(g)
  <2>1. runs' = [runs EXCEPT ![g] = [run EXCEPT !.at = "stream"]] /\ shown' = shown
        /\ [run EXCEPT !.at = "stream"] \in Runs
    BY <1>1, <1>8 DEF Start, Runs
  <2>2. QED
    BY <1>4, <2>1
<1>9. CASE LexicalList(g)
  <2>1. runs' = [runs EXCEPT ![g] = run] /\ run.at = "stream" /\ g = generation
        /\ shown' = Showing(g, "lexical", <<g, "stream">>)
    BY <1>1, <1>9 DEF LexicalList, Live
  <2>2. QED
    BY <1>1, <1>5, <2>1
<1>10. CASE FinalList(g)
  <2>1. runs' = [runs EXCEPT ![g] = [run EXCEPT !.gotFinal = TRUE]] /\ run.at = "stream"
        /\ g = generation /\ shown' = Showing(g, "final", <<g, "stream">>)
    BY <1>10 DEF FinalList, Live
  <2>2. [run EXCEPT !.gotFinal = TRUE] \in Runs /\ [run EXCEPT !.gotFinal = TRUE].at = "stream"
    BY <1>1, <2>1 DEF Runs
  <2>3. QED
    BY <1>5, <2>1, <2>2
<1>11. CASE ErrorEvent(g)
  <2>1. runs' = [runs EXCEPT ![g] = [run EXCEPT !.broken = TRUE]] /\ shown' = shown
        /\ [run EXCEPT !.broken = TRUE] \in Runs
    BY <1>1, <1>11 DEF ErrorEvent, Runs
  <2>2. QED
    BY <1>4, <2>1
<1>12. CASE Reject(g)
  <2>1. PICK r \in Runs : runs' = [runs EXCEPT ![g] = r]
    <3>1. [run EXCEPT !.at = "fallback"] \in Runs
      BY <1>1 DEF Runs
    <3>2. runs' = [runs EXCEPT ![g] = [run EXCEPT !.at = "fallback"]] \/ runs' = Over(g)
      BY <1>12 DEF Reject
    <3>3. QED
      BY <1>7, <3>1, <3>2
  <2>2. shown' = shown \/ shown' = Failed(g)
    BY <1>12 DEF Reject
  <2>3. QED
    BY <1>4, <1>6, <2>1, <2>2
<1>13. CASE Resolve(g)
  <2>1. runs' = Over(g) /\ shown' = shown
    BY <1>13 DEF Resolve
  <2>2. QED
    BY <1>4, <1>7, <2>1
<1>14. CASE Answer(g)
  <2> DEFINE r == [run EXCEPT !.at = "over", !.gotFinal = (g = generation)]
  <2>1. r \in Runs /\ r.at = "over"
    BY <1>1 DEF Runs
  <2>2. /\ runs' = [runs EXCEPT ![g] = r]
        /\ shown' = IF g = generation THEN Showing(g, "final", <<g, "get">>) ELSE shown
    BY <1>1, <1>14 DEF Answer, Over, Live, Runs
  <2> HIDE DEF r
  <2>3. CASE g = generation
    BY <1>5, <2>1, <2>2, <2>3
  <2>4. CASE g # generation
    BY <1>4, <2>1, <2>2, <2>4
  <2>5. QED
    BY <2>3, <2>4
<1>15. CASE AnswerFails(g)
  <2>1. runs' = Over(g) /\ (shown' = shown \/ shown' = Failed(g))
    BY <1>15 DEF AnswerFails
  <2>2. QED
    BY <1>4, <1>6, <1>7, <2>1
<1>16. QED
  BY <1>8, <1>9, <1>10, <1>11, <1>12, <1>13, <1>14, <1>15 DEF Served, Unserved

LEMMA HookComes == ASSUME HookInv, Listed, HookNext PROVE Listed' /\ Comes
<1>1. CASE UNCHANGED hookVars
  BY <1>1, ReachedIsNat DEF hookVars, Listed, Comes, HookInv, Reached, generation
<1>2. QED
  BY <1>1, AskComes, RunComes DEF HookNext

-----------------------------------------------------------------------------
(* The page. *)

PageTypes == [settling : Ids \cup {NoOne}, settledId : Ids \cup {NoOne}, client : Clients]

\* The list that waits to settle is the one on the page, and no list that was
\* settled comes after it.
PageOk(p, s, reached) ==
    /\ p \in PageTypes /\ ClientInv(p.client)
    /\ p.settling # NoOne => s.list # NoList /\ p.settling = s.list.id
    /\ Rank(p.client.current) <= reached
    /\ s.list # NoList => Rank(p.client.current) <= Rank(s.list.id)

\* A render over a hook's state s0 with the next one, s.
LEMMA RenderKeeps ==
    ASSUME NEW p, NEW s0, NEW s, NEW reached0 \in Nat, NEW reached \in Nat, reached0 <= reached,
           PageOk(p, s0, reached0), NEW text0, NEW text,
           s0.list # NoList => s0.list.id \in Ids,
           s.list # NoList => /\ s.list.id \in Ids /\ Rank(s.list.id) <= reached
                              /\ s.list = s0.list \/ Rank(s.list.id) = reached,
           s.phase = "final" => s.list # NoList
    PROVE  PageOk(Rendered(p, s0, text0, s, text), s, reached)
<1> DEFINE q == Rendered(p, s0, text0, s, text)
<1>1. /\ p.settling \in Ids \cup {NoOne} /\ p.settledId \in Ids \cup {NoOne}
      /\ p.client \in Clients /\ p.client.current \in Ids \cup {NoOne} /\ p \in PageTypes
  BY DEF PageOk, PageTypes, Clients
<1>2. Rank(p.client.current) \in Nat /\ \A id \in Ids : Rank(id) \in Nat
  BY <1>1, Ranks
<1>3. Rank(p.client.current) <= reached
      /\ (s.list # NoList => Rank(p.client.current) <= Rank(s.list.id))
  BY <1>2 DEF PageOk
<1>4. NoOne \notin Ids /\ NoList.id = NoOne
  BY Ranks DEF NoList, NoOne
<1>5. CASE Deps(s, text) = Deps(s0, text0)
  <2>1. q = p /\ s.list.id = s0.list.id
    BY <1>5 DEF Rendered, Deps
  <2>2. p.settling # NoOne => s.list # NoList /\ p.settling = s.list.id
    BY <1>4, <2>1 DEF PageOk
  <2>3. QED
    BY <1>3, <2>1, <2>2 DEF PageOk
<1>6. CASE Deps(s, text) # Deps(s0, text0) /\ s.phase # "final"
  <2>1. q = [p EXCEPT !.settling = NoOne]
    BY <1>6 DEF Rendered
  <2>2. q \in PageTypes /\ q.settling = NoOne /\ q.client = p.client
    BY <1>1, <2>1 DEF PageTypes
  <2> HIDE DEF q
  <2>3. QED
    BY <1>3, <2>2 DEF PageOk, q
<1>7. CASE Deps(s, text) # Deps(s0, text0) /\ s.phase = "final" /\ s.list.text = text
  <2>1. q = [settling |-> NoOne, settledId |-> s.list.id, client |-> Settled(p.client, s.list.id)]
    BY <1>7 DEF Rendered, SettleNow
  <2>2. s.list.id \in Ids /\ s.list # NoList
    BY <1>7
  <2>3. ClientInv(Settled(p.client, s.list.id)) /\ Settled(p.client, s.list.id).current = s.list.id
    BY <1>3, <2>2, SettledKeeps DEF PageOk
  <2> DEFINE c == Settled(p.client, s.list.id)
  <2> HIDE DEF c
  <2>4. c \in Clients
    BY <2>3 DEF ClientInv, c
  <2>5. q = [settling |-> NoOne, settledId |-> s.list.id, client |-> c]
    BY <2>1 DEF c
  <2>6. q \in PageTypes /\ q.settling = NoOne /\ q.client = c
    BY <2>2, <2>4, <2>5 DEF PageTypes
  <2> HIDE DEF q
  <2>7. ClientInv(c) /\ c.current = s.list.id
    BY <2>3 DEF c
  <2>8. QED
    BY <1>2, <2>2, <2>6, <2>7 DEF PageOk, q
<1>8. CASE Deps(s, text) # Deps(s0, text0) /\ s.phase = "final" /\ s.list.text # text
  <2>1. q = [p EXCEPT !.settling = s.list.id]
    BY <1>8 DEF Rendered
  <2>2. s.list.id \in Ids /\ s.list # NoList
    BY <1>8
  <2>3. q \in PageTypes /\ q.settling = s.list.id /\ q.client = p.client
    BY <1>1, <2>1, <2>2 DEF PageTypes
  <2> HIDE DEF q
  <2>4. QED
    BY <1>3, <2>2, <2>3 DEF PageOk, q
<1>9. QED
  BY <1>5, <1>6, <1>7, <1>8

WebInv ==
    /\ HookInv /\ Listed
    /\ PageOk(Page, shown, Reached)
    /\ page = "gone" => client.queue = <<>> /\ client.current = NoOne /\ client.dwell = NoOne

LEMMA NothingTold ==
    ASSUME NEW story, story = <<>>, \A type \in EventTypes : Positions(story, type) = {}
    PROVE  WellTold(story, FALSE, FALSE)
<1>1. Cardinality({}) = 0
  BY FS_EmptySet
<1>2. /\ Positions(story, "query") = {} /\ Positions(story, "click") = {}
      /\ Positions(story, "dwell") = {} /\ Positions(story, "impression") = {}
  BY DEF EventTypes
<1>3. /\ Cardinality(Positions(story, "click")) =
              Cardinality(Positions(story, "dwell")) + (IF FALSE THEN 1 ELSE 0)
      /\ Cardinality(Positions(story, "impression")) <= 1
  BY ONLY <1>1, <1>2
<1>4. QED
  BY <1>2, <1>3, TellingParts

LEMMA WebInitInv == WebInit => WebInv
<1> SUFFICES ASSUME WebInit PROVE WebInv
  OBVIOUS
<1>1. HookInv
  BY InitHook DEF WebInit
<1>2. Listed /\ Reached = 0
  BY TextsAssumption DEF WebInit, HookInit, Listed, Idle, NoList, generation, Reached
<1>3. client = NewClient(Ids) /\ settling = NoOne /\ settledId = NoOne /\ page = "visible"
  BY DEF WebInit
<1>4. /\ client.enabled = TRUE /\ client.consent = 0 /\ client.queue = <<>> /\ client.leaked = FALSE
      /\ client.current = NoOne /\ client.clicked = FALSE /\ client.dwell = NoOne
      /\ client.impressed = {} /\ client.told = [id \in Ids |-> <<>>]
  BY <1>3 DEF NewClient
<1>5. client \in Clients
  <2>1. <<>> \in Seq(Nat) /\ [id \in Ids |-> <<>>] \in [Ids -> Seq(EventTypes)]
    OBVIOUS
  <2>2. QED
    BY <1>3, <2>1 DEF NewClient, Clients
<1>6. Sends(client)
  BY <1>4, FlushAtBounds DEF Sends
<1>7. Tracks(client, client.current)
  <2>1. ASSUME NEW id \in Ids
        PROVE  Going(client.told[id], client.current = id, client.clicked, client.dwell = id,
                     id \in client.impressed)
    <3>1. client.told[id] = <<>> /\ (client.current = id) = FALSE /\ (client.dwell = id) = FALSE
      BY <1>4, Ranks
    <3>2. \A type \in EventTypes : Positions(<<>>, type) = {}
      BY DEF Positions
    <3>3. WellTold(<<>>, FALSE, FALSE)
      BY <3>2, NothingTold
    <3>4. Going(<<>>, FALSE, client.clicked, FALSE, id \in client.impressed)
      BY <3>2, <3>3 DEF Going, EventTypes
    <3>5. QED
      BY <3>1, <3>4
  <2>2. QED
    BY <2>1 DEF Tracks
<1>8. ClientInv(client)
  BY <1>4, <1>5, <1>6, <1>7, Ranks DEF ClientInv
<1>9. Page \in PageTypes /\ Page.client = client /\ Page.settling = NoOne
  BY <1>3, <1>5 DEF Page, PageTypes
<1>10. shown.list = NoList
  BY DEF WebInit, HookInit, Idle
<1>11. QED
  BY <1>1, <1>2, <1>3, <1>4, <1>8, <1>9, <1>10, Ranks DEF WebInv, PageOk

\* What the page and its hook were before a step.
LEMMA Before ==
    ASSUME WebInv
    PROVE  /\ Page \in PageTypes /\ ClientInv(client) /\ Page.client = client
           /\ Page.settling = settling /\ Page.settledId = settledId
           /\ settling # NoOne => shown.list # NoList /\ settling = shown.list.id
           /\ Rank(client.current) <= Reached
           /\ shown.list # NoList => shown.list.id \in Ids /\ Rank(client.current) <= Rank(shown.list.id)
                                     /\ Rank(shown.list.id) <= Reached
           /\ Rank(client.current) \in Nat /\ Reached \in Nat
<1>1. Page \in PageTypes /\ Page.client = client /\ Page.settling = settling /\ Page.settledId = settledId
  BY DEF WebInv, PageOk, Page
<1>2. client \in Clients
  BY <1>1 DEF PageTypes
<1>3. client.current \in Ids \cup {NoOne}
  BY <1>2 DEF Clients
<1>4. Rank(client.current) \in Nat /\ Reached \in Nat
  BY <1>3, Ranks, ReachedIsNat DEF WebInv, HookInv
<1>5. QED
  BY <1>1, <1>4 DEF WebInv, PageOk, Listed

\* A step of the hook, followed by the render that it makes.
LEMMA FollowKeeps ==
    ASSUME WebInv, HookNext, NEW p, PageOk(p, shown, Reached), NEW text0, NEW text,
           Becomes(Rendered(p, shown, text0, shown', text)), page # "gone", page' = page
    PROVE  WebInv'
<1> DEFINE q == Rendered(p, shown, text0, shown', text)
<1>1. HookInv'
  BY HookKeeps DEF WebInv
<1>2. Listed' /\ Comes
  BY HookComes DEF WebInv
<1>3. Reached' \in Nat /\ Reached \in Nat /\ Reached <= Reached'
  <2>1. Reached' \in {2 * generation', 2 * generation' + 1} /\ generation' \in Nat
    BY <1>1 DEF HookInv, HookTypes, generation, Reached
  <2>2. QED
    BY <1>2, <2>1 DEF Comes
<1>4. shown.list # NoList => shown.list.id \in Ids
  BY DEF WebInv, Listed
<1>5. shown'.list # NoList => /\ shown'.list.id \in Ids /\ Rank(shown'.list.id) <= Reached'
                              /\ shown'.list = shown.list \/ Rank(shown'.list.id) = Reached'
  BY <1>2 DEF Listed, Comes
<1>6. shown'.phase = "final" => shown'.list # NoList
  BY <1>2 DEF Listed
<1>7. PageOk(q, shown', Reached')
  BY <1>3, <1>4, <1>5, <1>6, RenderKeeps
<1> HIDE DEF q
<1>8. settling' = q.settling /\ settledId' = q.settledId /\ client' = q.client
  BY DEF Becomes, q
<1>9. Page' = q
  BY <1>7, <1>8 DEF PageOk, PageTypes, Page
<1>10. QED
  BY <1>1, <1>2, <1>7, <1>9 DEF WebInv

\* A step that leaves the hook as it is.
LEMMA ClientMoves ==
    ASSUME WebInv, UNCHANGED hookVars, ClientInv(client'),
           settling' \in {settling, NoOne}, settledId' \in Ids \cup {NoOne},
           \/ client'.current \in {client.current, NoOne}
           \/ shown.list # NoList /\ client'.current = shown.list.id,
           page' = "gone" => client'.queue = <<>> /\ client'.current = NoOne /\ client'.dwell = NoOne
    PROVE  WebInv'
<1>1. HookInv' /\ Listed' /\ Reached' = Reached /\ shown' = shown
  <2>1. HookNext
    BY DEF HookNext
  <2>2. QED
    BY <2>1, HookKeeps, HookComes DEF WebInv, hookVars, Reached, generation
<1>2. Page' \in PageTypes /\ Page'.client = client' /\ Page'.settling = settling'
  BY Before DEF Page, PageTypes, ClientInv
<1>3. Rank(client'.current) <= Reached
      /\ (shown.list # NoList => Rank(client'.current) <= Rank(shown.list.id))
  BY Before, Ranks
<1>4. settling' # NoOne => shown.list # NoList /\ settling' = shown.list.id
  BY Before
<1>5. PageOk(Page', shown', Reached')
  BY <1>1, <1>2, <1>3, <1>4 DEF PageOk
<1>6. QED
  BY <1>1, <1>5 DEF WebInv

LEMMA TypeTextKeeps == ASSUME WebInv, NEW text \in Texts \cup {NoText}, TypeText(text) PROVE WebInv'
<1>1. WebNext
  BY DEF WebNext, UsePage
<1>2. HookNext
  BY <1>1, PageAsks DEF WebInv, HookInv
<1>3. /\ page # "gone" /\ page' = page
      /\ Becomes(Rendered(Page, shown, committed, shown', committed))
  BY DEF TypeText, AtTheBox, Follow
<1>4. QED
  BY <1>2, <1>3, FollowKeeps DEF WebInv

LEMMA ArriveKeeps == ASSUME WebInv, Arrive \/ Fail PROVE WebInv'
<1>1. WebNext
  BY DEF WebNext, UsePage
<1>2. HookNext
  BY <1>1, PageAsks DEF WebInv, HookInv
<1>3. /\ page # "gone" /\ page' = page
      /\ Becomes(Rendered(Page, shown, committed, shown', committed))
  BY DEF Arrive, Fail, Follow
<1>4. QED
  BY <1>2, <1>3, FollowKeeps DEF WebInv

LEMMA CommitKeeps ==
    ASSUME WebInv, NEW p \in [text : Texts, mode : Modes], CommitQuery(p) PROVE WebInv'
<1> DEFINE first == Rendered(Page, shown, committed, shown, p.text)
<1>1. WebNext
  BY DEF WebNext, UsePage
<1>2. HookNext
  BY <1>1, PageAsks DEF WebInv, HookInv
<1>3. /\ page # "gone" /\ page' = page
      /\ Becomes(Rendered(first, shown, p.text, shown', p.text))
  BY DEF CommitQuery, AtTheBox
<1>4. PageOk(first, shown, Reached)
  <2>1. Reached \in Nat /\ Reached <= Reached
    BY Before
  <2>2. PageOk(Page, shown, Reached) /\ (shown.phase = "final" => shown.list # NoList)
    BY DEF WebInv, Listed
  <2>3. shown.list # NoList => shown.list.id \in Ids /\ Rank(shown.list.id) <= Reached
    BY Before
  <2>4. QED
    BY <2>1, <2>2, <2>3, RenderKeeps
<1> HIDE DEF first
<1>5. QED
  BY <1>2, <1>3, <1>4, FollowKeeps

LEMMA SettleTimerKeeps == ASSUME WebInv, SettleTimer PROVE WebInv'
<1>1. /\ settling # NoOne /\ settling' = NoOne /\ settledId' = settling
      /\ client' = Settled(client, settling) /\ page # "gone" /\ page' = page /\ UNCHANGED hookVars
  BY Before DEF SettleTimer, Becomes, SettleNow
<1>2. settling \in Ids /\ shown.list # NoList /\ settling = shown.list.id
  BY <1>1, Before
<1>3. ClientInv(client') /\ client'.current = settling
  BY <1>1, <1>2, Before, SettledKeeps
<1>4. QED
  BY <1>1, <1>2, <1>3, ClientMoves

LEMMA SameSettling == ASSUME WebInv PROVE settledId \in Ids \cup {NoOne}
  BY Before DEF PageTypes

LEMMA SeeKeeps == ASSUME WebInv, See PROVE WebInv'
<1>1. /\ shown.list # NoList /\ client' = Impression(client, shown.list.id) /\ UNCHANGED hookVars
      /\ settling' = settling /\ settledId' = settledId /\ page' # "gone"
  BY DEF See, AtTheBox, pageVars
<1>2. ClientInv(client') /\ client'.current = client.current
  BY <1>1, Before, ImpressionKeeps
<1>3. QED
  BY <1>1, <1>2, ClientMoves, SameSettling

LEMMA OpenKeeps == ASSUME WebInv, NEW inPlace, Open(inPlace) PROVE WebInv'
<1>1. /\ shown.list # NoList /\ client' = Click(client, shown.list.id) /\ UNCHANGED hookVars
      /\ settling' = settling /\ settledId' = settledId /\ page' # "gone"
  BY DEF Open, AtTheBox
<1>2. ClientInv(client') /\ client'.current = shown.list.id
  BY <1>1, Before, ClickKeeps
<1>3. QED
  BY <1>1, <1>2, ClientMoves, SameSettling

\* The steps that end a dwell, send what is queued or change the consent.
LEMMA CallKeeps ==
    ASSUME WebInv, Back \/ SwitchConsent \/ FlushTimer \/ PostReturns \/ Show \/ Return PROVE WebInv'
<1>1. /\ UNCHANGED hookVars /\ settling' = settling /\ settledId' = settledId /\ page' # "gone"
  BY DEF Back, SwitchConsent, FlushTimer, PostReturns, Show, Return, pageVars
<1>2. ClientInv(client)
  BY Before
<1>3. ClientInv(client') /\ client'.current = client.current
  <2>1. CASE Back
    BY <1>2, <2>1, EndDwellInv DEF Back
  <2>2. CASE SwitchConsent
    BY <1>2, <2>2, ConsentKeeps DEF SwitchConsent
  <2>3. CASE FlushTimer
    BY <1>2, <2>3, FlushInv DEF FlushTimer
  <2>4. CASE PostReturns
    BY <1>2, <2>4, PostedInv DEF PostReturns
  <2>5. CASE Show \/ Return
    BY <1>2, <2>5, VisibleKeeps DEF Show, Return
  <2>6. QED
    BY <2>1, <2>2, <2>3, <2>4, <2>5
<1>4. QED
  BY <1>1, <1>3, ClientMoves, SameSettling

LEMMA HideKeeps == ASSUME WebInv, NEW beacon, Hide(beacon) PROVE WebInv'
<1>1. /\ client' = Flush(Hidden(client), beacon) /\ page' # "gone" /\ UNCHANGED hookVars
      /\ settling' = settling /\ settledId' = settledId
  BY DEF Hide
<1>2. ClientInv(Hidden(client)) /\ Hidden(client).current = client.current
  BY Before, HiddenKeeps
<1>3. ClientInv(client') /\ client'.current = client.current
  BY <1>1, <1>2, FlushInv
<1>4. QED
  BY <1>1, <1>3, ClientMoves, SameSettling

LEMMA LeaveKeeps == ASSUME WebInv, NEW beacon, Leave(beacon) PROVE WebInv'
<1>1. /\ client' = Flush(Unloading(client), beacon) /\ UNCHANGED hookVars
      /\ settling' = settling /\ settledId' = settledId
  BY DEF Leave
<1>2. /\ ClientInv(Unloading(client))
      /\ Unloading(client).current = NoOne /\ Unloading(client).dwell = NoOne
  BY Before, UnloadingKeeps
<1>3. ClientInv(client') /\ client'.current = NoOne /\ client'.dwell = NoOne /\ client'.queue = <<>>
  BY <1>1, <1>2, FlushInv
<1>4. QED
  BY <1>1, <1>3, ClientMoves, SameSettling

LEMMA WebKeeps == WebInv /\ [WebNext]_webVars => WebInv'
<1> SUFFICES ASSUME WebInv, [WebNext]_webVars PROVE WebInv'
  OBVIOUS
<1>1. CASE UsePage
  <2>1. CASE SettleTimer \/ See \/ Back
    BY <2>1, SettleTimerKeeps, SeeKeeps, CallKeeps
  <2>2. CASE Arrive \/ FlushTimer \/ PostReturns
    BY <2>2, ArriveKeeps, CallKeeps
  <2>3. QED
    BY <1>1, <2>1, <2>2, TypeTextKeeps, CommitKeeps, OpenKeeps DEF UsePage
<1>2. CASE LeavePage
  <2>1. CASE Show \/ Return \/ SwitchConsent
    BY <2>1, CallKeeps
  <2>2. QED
    BY <1>2, <2>1, HideKeeps, LeaveKeeps DEF LeavePage
<1>3. CASE Fail
  BY <1>3, ArriveKeeps
<1>4. CASE UNCHANGED webVars
  <2>1. /\ UNCHANGED hookVars /\ client' = client /\ settling' = settling /\ settledId' = settledId
        /\ page' = page
    BY <1>4 DEF webVars, pageVars
  <2>2. (page' = "gone" => client'.queue = <<>> /\ client'.current = NoOne /\ client'.dwell = NoOne)
    BY <2>1 DEF WebInv
  <2>3. QED
    BY <2>1, <2>2, Before, ClientMoves, SameSettling
<1>5. QED
  BY <1>1, <1>2, <1>3, <1>4 DEF WebNext

\* What the page shows is the newest query's, and what the user does is told.
LEMMA WebInvSays == WebInv => ShownIsNewest /\ InteractionsAreTold
<1> SUFFICES ASSUME WebInv PROVE ShownIsNewest /\ InteractionsAreTold
  OBVIOUS
<1>1. client \in Clients /\ Sends(client) /\ Tracks(client, client.current)
  BY Before DEF ClientInv
<1>2. SentUnderConsent(client)
  <2>1. client.queue # <<>> => client.timer /\ client.enabled /\ ToSet(client.queue) = {client.consent}
    <3>1. SUFFICES ASSUME client.queue # <<>> PROVE ToSet(client.queue) = {client.consent}
      BY <1>1 DEF Sends
    <3>2. client.queue \in Seq(Nat)
      BY <1>1 DEF Clients
    <3>3. Len(client.queue) \in Nat \ {0} /\ DOMAIN client.queue = 1 .. Len(client.queue)
      BY <3>1, <3>2, EmptySeq
    <3>4. 1 \in DOMAIN client.queue
      BY <3>3
    <3>5. \A i \in DOMAIN client.queue : client.queue[i] = client.consent
      BY <1>1 DEF Sends
    <3>6. QED
      BY <3>4, <3>5 DEF ToSet
  <2>2. QED
    BY <1>1, <2>1 DEF Sends, SentUnderConsent
<1>3. \A id \in Ids : WellTold(client.told[id], client.current = id, client.dwell = id)
  BY <1>1 DEF Tracks, Going
<1>4. client.posts \subseteq {<<>>}
  BY <1>1 DEF Clients
<1>5. QED
  BY <1>2, <1>3, <1>4 DEF WebInv, HookInv, InteractionsAreTold

-----------------------------------------------------------------------------
(* Both ends. *)

LEMMA WebInvariant == WebSpec => []WebInv
<1>1. WebInit => WebInv
  BY WebInitInv
<1>2. WebInv /\ [WebNext]_webVars => WebInv'
  BY WebKeeps
<1>3. QED
  BY <1>1, <1>2, PTL DEF WebSpec

\* The page does what it does alone, whatever the broker does.
LEMMA JourneyIsWeb == JourneySpec => WebSpec
<1>1. JourneyInit => WebInit
  BY DEF JourneyInit
<1>2. [InBroker \/ InBrowser]_journeyVars => [WebNext]_webVars
  BY DEF InBroker, InBrowser, WebNext, journeyVars
<1>3. QED
  BY <1>1, <1>2, PTL DEF JourneySpec, WebSpec

\* Whatever arrives of older queries, in whatever order, the page shows the
\* newest query's lists and errors, or marks them as stale: useSearch.ts.
THEOREM PageShowsTheNewest == JourneySpec => []ShownIsNewest
<1>1. WebInv => ShownIsNewest
  BY WebInvSays
<1>2. QED
  BY <1>1, JourneyIsWeb, WebInvariant, PTL

\* Every visit of a list is told whole and in order, nothing is sent but under
\* the consent it was logged under, and a page that is left keeps nothing back:
\* interactions.ts, events.ts and the order of their listeners.
THEOREM WhatTheUserDidIsTold == JourneySpec => []InteractionsAreTold
<1>1. WebInv => InteractionsAreTold
  BY WebInvSays
<1>2. QED
  BY <1>1, JourneyIsWeb, WebInvariant, PTL
==============================================================================
