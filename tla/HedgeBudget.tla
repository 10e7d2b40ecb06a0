---------------------------- MODULE HedgeBudget ------------------------------
(***************************************************************************)
(* HedgeBudget.OnPrimary and TryAcquire (Shards/LatencyTracker.cs) as the   *)
(* lock-free loops they are, run by the search tasks of one slice together  *)
(* with the two counters of SliceState that bracket them (CountPrimary      *)
(* counts, then deposits; CountHedge counts after TryAcquire returned       *)
(* true).  Every Volatile.Read, CompareExchange and Interlocked.Increment   *)
(* is a step of its own.                                                    *)
(***************************************************************************)
EXTENDS Integers, FiniteSets

CONSTANTS
    Tasks,         \* concurrent slice searches
    Scale, PerPrimary, Cap,
    MaxPrimaries   \* bound: primary requests in a behaviour

ASSUME TasksAssumption        == IsFiniteSet(Tasks)
ASSUME BudgetAssumption       == /\ Scale \in Nat \ {0}
                                 /\ PerPrimary \in Nat
                                 /\ Cap \in Nat
ASSUME MaxPrimariesAssumption == MaxPrimaries \in Nat

VARIABLES
    tokens,      \* _tokens
    nPrimaries,  \* SliceState._primaries
    nHedges,     \* SliceState._hedges
    pc,          \* where each task is
    cur,         \* each task's local `cur`
    deposits,    \* history: OnPrimary calls that took effect
    grants       \* history: TryAcquire calls that returned true

bucketVars == <<tokens, nPrimaries, nHedges, pc, cur, deposits, grants>>

\* The atomic bucket these loops implement.
Atomic == INSTANCE AtomicBudget WITH primaries <- deposits, hedges <- grants

BucketInit ==
    /\ tokens = 0
    /\ nPrimaries = 0
    /\ nHedges = 0
    /\ pc = [t \in Tasks |-> "idle"]
    /\ cur = [t \in Tasks |-> 0]
    /\ deposits = 0
    /\ grants = 0

Goto(t, from, to) ==
    /\ pc[t] = from
    /\ pc' = [pc EXCEPT ![t] = to]

ReadTokens(t) == cur' = [cur EXCEPT ![t] = tokens]

\* The value OnPrimary would store for the balance it read.
Topped(c) == IF c + PerPrimary > Cap THEN Cap ELSE c + PerPrimary

\* CountPrimary: Interlocked.Increment(ref _primaries), then Budget.OnPrimary().
CountPrimary(t) ==
    /\ nPrimaries < MaxPrimaries
    /\ Goto(t, "idle", "onPrimary")
    /\ nPrimaries' = nPrimaries + 1
    /\ UNCHANGED <<tokens, nHedges, cur, deposits, grants>>

\* OnPrimary reads the balance; a full bucket (next == cur) ends the call.
DepositRead(t) ==
    /\ pc[t] = "onPrimary"
    /\ ReadTokens(t)
    /\ IF Topped(tokens) = tokens
       THEN pc' = [pc EXCEPT ![t] = "sent"] /\ deposits' = deposits + 1
       ELSE pc' = [pc EXCEPT ![t] = "depositCas"] /\ UNCHANGED deposits
    /\ UNCHANGED <<tokens, nPrimaries, nHedges, grants>>

\* Faulty variant of DepositCas: a plain store.
DepositStore(t) ==
    /\ pc[t] = "depositCas"
    /\ tokens' = Topped(cur[t])
    /\ deposits' = deposits + 1
    /\ pc' = [pc EXCEPT ![t] = "sent"]
    /\ UNCHANGED <<nPrimaries, nHedges, cur, grants>>

\* OnPrimary's CompareExchange: store, or go round the loop.
DepositCas(t) ==
    /\ pc[t] = "depositCas"
    /\ IF tokens = cur[t]
       THEN /\ tokens' = Topped(cur[t])
            /\ deposits' = deposits + 1
            /\ pc' = [pc EXCEPT ![t] = "sent"]
       ELSE /\ pc' = [pc EXCEPT ![t] = "onPrimary"]
            /\ UNCHANGED <<tokens, deposits>>
    /\ UNCHANGED <<nPrimaries, nHedges, cur, grants>>

\* The primary answered before the hedge timer: the budget is not asked.
NoHedge(t) ==
    /\ Goto(t, "sent", "idle")
    /\ UNCHANGED <<tokens, nPrimaries, nHedges, cur, deposits, grants>>

\* TryAcquire reads the balance; less than a whole token is a denial.
AcquireRead(t) ==
    /\ pc[t] \in {"sent", "acquire"}
    /\ ReadTokens(t)
    /\ pc' = [pc EXCEPT ![t] = IF tokens < Scale THEN "idle" ELSE "acquireCas"]
    /\ UNCHANGED <<tokens, nPrimaries, nHedges, deposits, grants>>

\* Faulty variant of AcquireCas: the subtraction does not check the balance.
AcquireStore(t) ==
    /\ pc[t] = "acquireCas"
    /\ tokens' = cur[t] - Scale
    /\ grants' = grants + 1
    /\ pc' = [pc EXCEPT ![t] = "granted"]
    /\ UNCHANGED <<nPrimaries, nHedges, cur, deposits>>

\* TryAcquire's CompareExchange: take the token, or go round the loop.
AcquireCas(t) ==
    /\ pc[t] = "acquireCas"
    /\ IF tokens = cur[t]
       THEN /\ tokens' = cur[t] - Scale
            /\ grants' = grants + 1
            /\ pc' = [pc EXCEPT ![t] = "granted"]
       ELSE /\ pc' = [pc EXCEPT ![t] = "acquire"]
            /\ UNCHANGED <<tokens, grants>>
    /\ UNCHANGED <<nPrimaries, nHedges, cur, deposits>>

\* CountHedge, after TryAcquire returned true; the slice request goes on.
CountHedge(t) ==
    /\ Goto(t, "granted", "idle")
    /\ nHedges' = nHedges + 1
    /\ UNCHANGED <<tokens, nPrimaries, cur, deposits, grants>>

BucketNext ==
    \E t \in Tasks :
        \/ CountPrimary(t)
        \/ DepositRead(t)
        \/ DepositCas(t)
        \/ NoHedge(t)
        \/ AcquireRead(t)
        \/ AcquireCas(t)
        \/ CountHedge(t)

BucketSpec == BucketInit /\ [][BucketNext]_bucketVars

-----------------------------------------------------------------------------
\* Types, with the balance inside the bucket.
BucketTypes ==
    /\ tokens \in 0 .. Cap
    /\ nPrimaries \in Nat
    /\ nHedges \in Nat
    /\ pc \in [Tasks -> {"idle", "onPrimary", "depositCas", "sent", "acquire",
                         "acquireCas", "granted"}]
    /\ cur \in [Tasks -> 0 .. Cap]
    /\ deposits \in Nat
    /\ grants \in Nat

\* "At every instant hedges <= ratio x primaries": whatever two tasks do
\* between each other's read and compare-and-swap, the hedges counted on the
\* slice never exceed the configured fraction of its primary requests.
ExtraLoadBounded == nHedges * Scale <= nPrimaries * PerPrimary

\* No deposit is lost and no token spent twice: the loops behave as a bucket
\* whose operations are atomic.
ImplementsAtomicBudget == Atomic!BudgetSpec
==============================================================================
