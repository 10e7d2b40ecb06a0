----------------------------- MODULE Degradation -----------------------------
(***************************************************************************)
(* The degradation policy (Search/Degradation.cs) as operators: what a     *)
(* plan costs, which load-shedding floor the searches in flight impose,    *)
(* and which plan a request gets.  SearchService runs one search under     *)
(* such a plan; CostPlanner feeds what searches measure back into it.      *)
(*                                                                         *)
(* A step is [kind, reason]; the level of a step is the value of its       *)
(* DegradationKind.  Costs and budgets are numbers of some time unit.      *)
(***************************************************************************)
EXTENDS Integers, Sequences, FiniteSets

\* DegradationKind, by its numeric value.
RerankerSkipped == 1
DenseBeamShrunk == 2
LexicalOnly == 3

Step(kind, reason) == [kind |-> kind, reason |-> reason]

Kinds(steps) == {s.kind : s \in steps}

\* The stages whose recent latencies CostModel keeps.
Trackers == {"encode", "full", "shrunk", "lexical", "rerank", "fetch"}

\* Estimated time of what is left of a request at a degradation level.
Cost(level, dense, rerank, est) ==
    LET useDense == dense /\ level < 3
    IN (IF useDense THEN est.encode ELSE 0)
       + (CASE ~useDense -> est.lexical
            [] useDense /\ level >= 2 -> est.shrunk
            [] useDense /\ level < 2 -> est.full)
       + (IF rerank /\ level < 1 THEN est.rerank ELSE 0)
       + est.fetch

\* One level per threshold crossed; the thresholds are increasing.
PressureLevel(inFlight, thresholds) ==
    Cardinality({i \in 1..Len(thresholds) : i <= 3 /\ inFlight > thresholds[i]})

\* What a missing model or index takes away, whatever the budget.
CapabilitySteps(req, caps) ==
    {s \in {Step(LexicalOnly, IF caps.encoder THEN "vector_index_unavailable"
                                              ELSE "encoder_unavailable")} :
        req.dense /\ ~(caps.encoder /\ caps.vectors)}
    \cup {s \in {Step(RerankerSkipped, "model_unavailable")} :
             req.rerank /\ ~caps.reranker}

\* Faulty variant of ChosenLevel: probes plan like everyone else.
ChosenLevelWithoutProbe(dense, rerank, remaining, est, floor, probe) ==
    CHOOSE l \in floor..3 :
        /\ l = 3 \/ Cost(l, dense, rerank, est) <= remaining
        /\ \A m \in floor..(l - 1) : Cost(m, dense, rerank, est) > remaining

\* The least degraded level at or above the floor that fits; the last one
\* needs no budget, and a probe fits everywhere.
ChosenLevel(dense, rerank, remaining, est, floor, probe) ==
    CHOOSE l \in floor..3 :
        /\ l = 3 \/ probe \/ Cost(l, dense, rerank, est) <= remaining
        /\ \A m \in floor..(l - 1) : ~probe /\ Cost(m, dense, rerank, est) > remaining

Plan(req, caps, remaining, est, floor, probe) ==
    LET dense == req.dense /\ caps.encoder /\ caps.vectors
        rerank == req.rerank /\ caps.reranker
        chosen == ChosenLevel(dense, rerank, remaining, est, floor, probe)
        Reason(level) == IF level <= floor THEN "load" ELSE "deadline"
        budget == {k \in 1..3 : \/ k = RerankerSkipped /\ rerank /\ chosen >= 1
                                \/ k = DenseBeamShrunk /\ dense /\ chosen = 2
                                \/ k = LexicalOnly /\ dense /\ chosen = 3}
    IN [dense   |-> dense /\ chosen < 3,
        lexical |-> req.lexical \/ ~(dense /\ chosen < 3),
        shrink  |-> dense /\ chosen = 2,
        rerank  |-> rerank /\ chosen = 0,
        steps   |-> CapabilitySteps(req, caps) \cup {Step(k, Reason(k)) : k \in budget}]
=============================================================================
