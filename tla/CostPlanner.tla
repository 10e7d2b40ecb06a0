----------------------------- MODULE CostPlanner -----------------------------
(***************************************************************************)
(* The loop between planning and measuring: searches are planned from what *)
(* earlier searches measured (CostModel over LatencyTracker windows), and  *)
(* what a search measures depends on how it was planned.  Searches overlap,*)
(* the shards slow down and recover, and a fraction of the requests probes.*)
(*                                                                         *)
(* A tracker's window is two generations, the current one and the one that *)
(* is about to leave; Age moves on.  A generation keeps its largest sample:*)
(* the planning quantile (p90) of fewer than ten samples is the largest.   *)
(* MinSamples is 1, so a tracker is blank or usable.  The stages of one    *)
(* search are SearchService's subject; here they pass in one step.         *)
(***************************************************************************)
EXTENDS Degradation

\* Regimes: what the stages really take, as the environment changes it at most
\* MaxShifts times (a bound).  Priors: DegradationOptions.Default*Ms.
CONSTANTS Searches, Regimes, Priors, Deadline, Thresholds, HasReranker, MaxShifts

ASSUME CostsAssumption ==
    /\ Regimes \subseteq [Trackers -> Nat \ {0}] /\ Priors \in [Trackers -> Nat \ {0}]
    /\ Deadline \in Nat \ {0} /\ MaxShifts \in Nat /\ HasReranker \in BOOLEAN
ASSUME SearchesAssumption ==
    /\ IsFiniteSet(Searches) /\ Thresholds \in Seq(Nat)
    /\ \A i, j \in 1..Len(Thresholds) : i < j => Thresholds[i] <= Thresholds[j]

VARIABLES
    stage,      \* "idle", "entered" or "planned", per search
    seen,       \* the number of searches in flight a search saw on arrival
    plan,       \* its plan, whether it probes, and the estimates used
    inFlight,
    window,     \* tracker -> the largest samples of the two generations, 0 when blank
    probed,     \* a probe has finished in the current generation
    actual, shifts

searchVars == <<stage, seen, plan, inFlight>>
worldVars == <<actual, shifts>>
plannerVars == <<searchVars, window, probed, worldVars>>

Larger(a, b) == IF a >= b THEN a ELSE b
Smaller(a, b) == IF a <= b THEN a ELSE b

\* The stages whose estimated time the earlier ones hold back.
Reserved == {"lexical", "rerank", "fetch"}

NoPlan == [dense |-> FALSE, shrink |-> FALSE, rerank |-> FALSE, probe |-> FALSE, est |-> [t \in Reserved |-> Priors[t]]]

PlannerInit ==
    /\ stage = [q \in Searches |-> "idle"] /\ seen = [q \in Searches |-> 0]
    /\ plan = [q \in Searches |-> NoPlan]
    /\ inFlight = 0
    /\ window = [t \in Trackers |-> <<0, 0>>] /\ probed = FALSE
    /\ actual \in Regimes /\ shifts = 0

\* CostModel.Estimate: the quantile of the window, or the prior.
Estimate == [t \in Trackers |->
                LET top == Larger(window[t][1], window[t][2])
                IN  IF top = 0 THEN Priors[t] ELSE top]

\* Faulty variant of Enter: the search reads the counter before it counts itself.
EnterUncounted(q) ==
    /\ stage[q] = "idle"
    /\ inFlight' = inFlight + 1
    /\ seen' = [seen EXCEPT ![q] = inFlight]
    /\ stage' = [stage EXCEPT ![q] = "entered"]
    /\ UNCHANGED <<plan, window, probed, worldVars>>

\* SearchAsync: the search counts itself and keeps the count it made.
Enter(q) ==
    /\ stage[q] = "idle"
    /\ inFlight' = inFlight + 1
    /\ seen' = [seen EXCEPT ![q] = inFlight + 1]
    /\ stage' = [stage EXCEPT ![q] = "entered"]
    /\ UNCHANGED <<plan, window, probed, worldVars>>

\* Requests ask for everything; the deployment may have no reranker model.
Everything == [lexical |-> TRUE, dense |-> TRUE, rerank |-> TRUE]
Ready == [encoder |-> TRUE, vectors |-> TRUE, reranker |-> HasReranker]

MakePlan(q, probe) ==
    /\ stage[q] = "entered"
    /\ LET p == Plan(Everything, Ready, Deadline, Estimate,
                     PressureLevel(seen[q], Thresholds), probe)
       IN  plan' = [plan EXCEPT ![q] =
                       [dense |-> p.dense, shrink |-> p.shrink, rerank |-> p.rerank,
                        probe |-> probe,
                        est |-> [t \in Reserved |-> Estimate[t]]]]
    /\ stage' = [stage EXCEPT ![q] = "planned"]
    /\ UNCHANGED <<seen, inFlight, window, probed, worldVars>>

-----------------------------------------------------------------------------
(* What a search measures. *)

\* The encoder is cut off where only a lexical search would still fit.
EncodeEnd(p) == Larger(Deadline - (p.est.lexical + p.est.fetch), 0)
IsEncoded(p) == p.dense /\ actual.encode <= EncodeEnd(p)
EncodeTime(p) == IF p.dense THEN Smaller(actual.encode, EncodeEnd(p)) ELSE 0

ShardTracker(p) == IF ~IsEncoded(p) THEN "lexical" ELSE IF p.shrink THEN "shrunk" ELSE "full"

\* The fan-out is cut off where the stages behind it would no longer fit, and
\* is recorded with the time it had: its budget (shards answer in part just
\* before it), or more (they do not, and the histogram rounds up).
ShardBudget(p) ==
    Larger(Deadline - p.est.fetch - (IF p.rerank THEN p.est.rerank ELSE 0) - EncodeTime(p), 1)
ShardTime(p, late) ==
    IF actual[ShardTracker(p)] <= ShardBudget(p) THEN actual[ShardTracker(p)]
                                                 ELSE ShardBudget(p) + late

RerankStart(p, late) == EncodeTime(p) + ShardTime(p, late)

\* The reranker starts if it should fit, and leaves a sample if it did.
IsReranked(p, late) ==
    /\ p.rerank
    /\ Deadline - RerankStart(p, late) >= Estimate.rerank + Estimate.fetch
    /\ RerankStart(p, late) + actual.rerank <= Deadline - Estimate.fetch

\* The samples a search leaves; 0 where it leaves none.
Samples(p, late) ==
    [t \in Trackers |->
        CASE t = "encode" -> IF IsEncoded(p) THEN actual.encode ELSE 0
          [] t = "rerank" -> IF IsReranked(p, late) THEN actual.rerank ELSE 0
          [] t = "fetch"  -> actual.fetch
          [] OTHER -> IF t = ShardTracker(p) THEN ShardTime(p, late) ELSE 0]

Finish(q) ==
    /\ stage[q] = "planned"
    /\ \E late \in 0..1 : LET s == Samples(plan[q], late)
                          IN  window' = [t \in Trackers |-> <<Larger(window[t][1], s[t]), window[t][2]>>]
    /\ probed' = (probed \/ plan[q].probe)
    /\ inFlight' = inFlight - 1
    /\ stage' = [stage EXCEPT ![q] = "idle"]
    /\ seen' = [seen EXCEPT ![q] = 0] /\ plan' = [plan EXCEPT ![q] = NoPlan]
    /\ UNCHANGED worldVars

\* A caller leaves or every shard fails: the count goes down all the same.
Abandon(q) ==
    /\ stage[q] = "planned"
    /\ inFlight' = inFlight - 1
    /\ stage' = [stage EXCEPT ![q] = "idle"]
    /\ seen' = [seen EXCEPT ![q] = 0] /\ plan' = [plan EXCEPT ![q] = NoPlan]
    /\ UNCHANGED <<window, probed, worldVars>>

-----------------------------------------------------------------------------
\* Half a window passes.  Assumed: traffic enough for a probe to finish in it.
Age ==
    /\ probed
    /\ window' = [t \in Trackers |-> <<0, window[t][1]>>]
    /\ probed' = FALSE
    /\ UNCHANGED <<searchVars, worldVars>>

Shift ==
    /\ shifts < MaxShifts
    /\ actual' \in Regimes \ {actual} /\ shifts' = shifts + 1
    /\ UNCHANGED <<searchVars, window, probed>>

PlannerNext ==
    \/ \E q \in Searches :
          \/ Enter(q) \/ Finish(q) \/ Abandon(q)
          \/ \E probe \in BOOLEAN : MakePlan(q, probe)
    \/ Age \/ Shift

PlannerSpec == PlannerInit /\ [][PlannerNext]_plannerVars

\* Searches keep coming; each one draws anew whether it probes, so both draws
\* come up again and again, and not every probe is abandoned; time passes.
PlannerFairSpec ==
    /\ PlannerSpec
    /\ WF_plannerVars(\E q \in Searches : Enter(q) \/ Finish(q) \/ Abandon(q))
    /\ SF_plannerVars(\E q \in Searches : MakePlan(q, TRUE))
    /\ SF_plannerVars(\E q \in Searches : MakePlan(q, FALSE))
    /\ SF_plannerVars(\E q \in Searches : plan[q].probe /\ Finish(q))
    /\ WF_plannerVars(Age)

-----------------------------------------------------------------------------
(* Properties. *)

PlannerTypes ==
    /\ stage \in [Searches -> {"idle", "entered", "planned"}]
    /\ seen \in [Searches -> 0..Cardinality(Searches)]
    /\ inFlight = Cardinality({q \in Searches : stage[q] # "idle"})
    /\ window \in [Trackers -> Nat \X Nat]
    /\ actual \in Regimes /\ shifts \in 0..MaxShifts
    /\ \A q \in Searches : stage[q] = "planned" => seen[q] > 0

Reranking == {q \in Searches : stage[q] = "planned" /\ plan[q].rerank}
FullBeam == {q \in Searches : stage[q] = "planned" /\ plan[q].dense /\ ~plan[q].shrink}
Dense == {q \in Searches : stage[q] = "planned" /\ plan[q].dense}

\* Load shedding holds for the searches together, although each one decides
\* alone and probes ignore the estimates: no more searches rerank at once than
\* the first threshold allows, no more use the full beam than the second, no
\* more are dense than the third (PressureLevel, Interlocked.Increment).
LoadIsShed ==
    /\ Len(Thresholds) >= 1 => Cardinality(Reranking) <= Thresholds[1]
    /\ Len(Thresholds) >= 2 => Cardinality(FullBeam) <= Thresholds[2]
    /\ Len(Thresholds) >= 3 => Cardinality(Dense) <= Thresholds[3]

PlannedDense == \E q \in Searches :
                    stage[q] = "planned" /\ ~plan[q].probe /\ plan[q].dense

\* After a slow spell, dense plans come back without probing as soon as the
\* full beam really fits, whatever was measured before and although the priors
\* do not fit: the probes measure the full beam (BUG_LOG, lock-in).
DenseComesBack ==
    <>[](Cost(1, TRUE, FALSE, actual) <= Deadline) => []<>PlannedDense

\* "Without it the policy can lock itself into lexical-only ... A small fraction
\* of requests probe to keep every estimate fresh" (Degradation.cs:59-62): when
\* any dense plan really fits, dense plans come back.
NeverLockedIn ==
    <>[](Cost(2, TRUE, FALSE, actual) <= Deadline) => []<>PlannedDense
==============================================================================
