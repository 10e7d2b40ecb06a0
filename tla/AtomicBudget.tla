---------------------------- MODULE AtomicBudget -----------------------------
(***************************************************************************)
(* What a slice's hedge budget promises: a token bucket whose two           *)
(* operations are atomic.  Tokens are counted in 1/Scale of a token, as in  *)
(* the code (HedgeBudget, Shards/LatencyTracker.cs).  HedgeBudget.tla shows *)
(* that the compare-and-swap loops implement it; ShardFanOut.tla builds on  *)
(* it.                                                                      *)
(***************************************************************************)
EXTENDS Integers

CONSTANTS
    Scale,       \* one token (1_000_000 in the code)
    PerPrimary,  \* deposit per primary request: round(ratio * Scale)
    Cap          \* the largest balance: round(burst * Scale)

ASSUME ScaleAssumption      == Scale \in Nat \ {0}
ASSUME PerPrimaryAssumption == PerPrimary \in Nat
ASSUME CapAssumption        == Cap \in Nat

VARIABLES
    tokens,     \* _tokens
    primaries,  \* primary requests that made their deposit
    hedges      \* hedges that were granted a token

budgetVars == <<tokens, primaries, hedges>>

AfterDeposit(t) == IF t + PerPrimary > Cap THEN Cap ELSE t + PerPrimary

BudgetInit ==
    /\ tokens = 0
    /\ primaries = 0
    /\ hedges = 0

OnPrimary ==
    /\ tokens' = AfterDeposit(tokens)
    /\ primaries' = primaries + 1
    /\ UNCHANGED hedges

\* Faulty variant of Acquire: it spends what is not there.
AcquireOnCredit ==
    /\ tokens' = IF tokens >= Scale THEN tokens - Scale ELSE 0
    /\ hedges' = hedges + 1
    /\ UNCHANGED primaries

\* TryAcquire returning true; when it returns false nothing changes.
Acquire ==
    /\ tokens >= Scale
    /\ tokens' = tokens - Scale
    /\ hedges' = hedges + 1
    /\ UNCHANGED primaries

BudgetNext == OnPrimary \/ Acquire

BudgetSpec == BudgetInit /\ [][BudgetNext]_budgetVars
==============================================================================
