---------------------------- MODULE ShardTopology ----------------------------
(***************************************************************************)
(* The replica choices of one slice (Shards/ShardTopology.cs): the          *)
(* round-robin pick of a primary and the pick of an alternate for a hedge,  *)
(* a failover or a fetch retry.  Replicas are numbered 0 .. N-1, as the     *)
(* positions of the code's Replicas list; health is a function on them.     *)
(***************************************************************************)
EXTENDS Integers, FiniteSets

CONSTANTS
    N,      \* number of replicas of the slice
    IntMax  \* int.MaxValue: the round-robin counter is a C# int

ASSUME ReplicaAssumption == N \in Nat \ {0}
ASSUME IntMaxAssumption  == IntMax \in Nat /\ IntMax >= N

Replicas    == 0 .. N - 1
Health      == {"unknown", "healthy", "unhealthy"}

\* C# `a + b` on int, unchecked, for a, b in 0 .. IntMax: it wraps at IntMax.
AddInt(a, b) == IF a + b > IntMax THEN a + b - 2 * (IntMax + 1) ELSE a + b

\* C# `a % N`: the result has the sign of a (TLA+'s % never is negative).
RemInt(a) == IF a >= 0 THEN a % N ELSE -((-a) % N)

\* Interlocked.Increment(ref _rr) & int.MaxValue, for a counter that starts
\* at -1: the counter wraps and the mask clears its sign bit, so the masked
\* value goes round 0 .. IntMax.
NextStart(rr) == (rr + 1) % (IntMax + 1)

\* Round-robin from `start` over the replicas not known to be unhealthy; over
\* all of them when every one is unhealthy.
PickPrimary(start, health) ==
    LET Nth(i) == RemInt(AddInt(start, i))
        Usable == {i \in Replicas : Nth(i) \in Replicas => health[Nth(i)] # "unhealthy"}
    IN  IF Usable = {}
        THEN start % N
        ELSE Nth(CHOOSE i \in Usable : \A j \in Usable : i <= j)

\* Faulty variant of PickAlternate: it forgets what was tried.
PickAnyReplica(exclude, health) ==
    LET Preferred == {r \in Replicas : health[r] # "unhealthy"}
        Pool      == IF Preferred # {} THEN Preferred ELSE Replicas
    IN  {r \in Pool : \A s \in Pool : r <= s}

\* The replicas PickAlternate may return: the first one not excluded that is
\* not unhealthy, else the first one not excluded, else none (code: null).
PickAlternate(exclude, health) ==
    LET Rest      == Replicas \ exclude
        Preferred == {r \in Rest : health[r] # "unhealthy"}
        Pool      == IF Preferred # {} THEN Preferred ELSE Rest
    IN  {r \in Pool : \A s \in Pool : r <= s}
==============================================================================
