----------------------------- MODULE RoundRobin ------------------------------
(***************************************************************************)
(* The life of SliceState._rr (Shards/ShardTopology.cs): an int that every  *)
(* primary request and every fetch increments, never reset, read modulo the *)
(* number of replicas, while health marks come and go.  The models that     *)
(* build on ShardTopology stop long before it wraps; this one does not.     *)
(***************************************************************************)
EXTENDS ShardTopology

VARIABLES
    rr,      \* _rr, masked with int.MaxValue
    health,  \* ReplicaState._health
    picked   \* the index PickPrimary last used in Replicas[...]

vars == <<rr, health, picked>>

Init ==
    /\ rr = -1
    /\ health = [r \in Replicas |-> "unknown"]
    /\ picked = 0

Pick ==
    /\ rr' = NextStart(rr)
    /\ picked' = PickPrimary(NextStart(rr), health)
    /\ UNCHANGED health

\* A probe or a failed call writes a mark.
Mark(r, h) ==
    /\ health' = [health EXCEPT ![r] = h]
    /\ UNCHANGED <<rr, picked>>

Next ==
    \/ Pick
    \/ \E r \in Replicas, h \in {"healthy", "unhealthy"} : Mark(r, h)

Spec == Init /\ [][Next]_vars

\* "Round-robin over replicas not known to be unhealthy; if all are unhealthy,
\* over all of them": every pick is one of the slice's replicas (the code
\* indexes the replica list with it).
PicksAReplica == picked \in Replicas
==============================================================================
