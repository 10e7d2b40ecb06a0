------------------------------ MODULE MCBroker -------------------------------
(***************************************************************************)
(* For TLC, side by side because they share no state: a search from the     *)
(* page to the broker and back (SearchJourney), and what the search tasks   *)
(* of a slice keep together without a lock, the budget for hedges           *)
(* (HedgeBudget) and the latencies that tell when to hedge                  *)
(* (LatencyTracker).  A behaviour is about one of the three.                *)
(***************************************************************************)
EXTENDS SearchJourney, HedgeBudget, LatencyTracker, TLC

VARIABLE part   \* the one this behaviour is about

MCInit ==
    /\ part \in {"search", "budget", "latencies"}
    /\ BucketInit /\ TrackerInit
    /\ IF part = "search" THEN JourneyInit ELSE WebInit /\ NoSearch /\ side = "page"

Searching == part = "search" /\ (InBroker \/ InBrowser) /\ UNCHANGED <<part, bucketVars, trackerVars>>
Hedging   == part = "budget" /\ BucketNext /\ UNCHANGED <<part, journeyVars, trackerVars>>
Tracking  == part = "latencies" /\ TrackerStep /\ UNCHANGED <<part, journeyVars, bucketVars>>
MCSpec == MCInit /\ [][Searching \/ Hedging \/ Tracking]_<<part, journeyVars, bucketVars, trackerVars>>
------------------------------------------------------------------------------
\* Requests with one ranker and interleaved ones, and estimates under which
\* everything fits, the reranker does not, the dense beam must shrink, or only a
\* lexical search fits.
Arm(mode, reranks) == [mode |-> mode, rerank |-> reranks]
MCArms == { {Arm("hybrid", TRUE)}, {Arm("dense", TRUE)}, {Arm("lexical", FALSE)},
            {Arm("lexical", TRUE), Arm("dense", FALSE)} }
Times(encode, full, shrunk, lex, rr, fetch) ==
    [encode |-> encode, full |-> full, shrunk |-> shrunk, lexical |-> lex,
     rerank |-> rr, fetch |-> fetch]
MCThresholds == <<1, 2, 3>>
MCEstimates == { Times(1, 2, 1, 1, 2, 1), Times(1, 2, 1, 1, 5, 1),
                 Times(1, 4, 2, 1, 2, 2), Times(3, 4, 3, 2, 3, 2) }

\* The tasks that record are interchangeable; what is asked of the tracker, and
\* latencies around every power of two.
RecorderSymmetry == Permutations(Recorders)
MCAsks == {[q |-> 50, min |-> 2]}
MCLatencies == 0 .. 200 \cup UNION {{2 ^ k - 1, 2 ^ k, 2 ^ k + 1, 3 * 2 ^ (k - 1), 3 * 2 ^ (k - 1) + 1} : k \in 8 .. 26}
==============================================================================
