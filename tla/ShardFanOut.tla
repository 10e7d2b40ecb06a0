---------------------------- MODULE ShardFanOut ------------------------------
(***************************************************************************)
(* Hedged search of one slice (Shards/ShardFanOut.cs), by several requests  *)
(* that share the slice's replicas, their health marks, the round-robin     *)
(* counter and the hedge budget, with the health monitor probing in the     *)
(* background and replicas that crash, hang and come back.                  *)
(*                                                                          *)
(* A request is one SearchSliceAsync call.  Time is abstract: a deadline    *)
(* may expire, and an armed hedge timer may fire, at any moment.  The       *)
(* compare-and-swap loops of the budget are atomic here (HedgeBudget.tla    *)
(* shows that they implement AtomicBudget).                                 *)
(***************************************************************************)
EXTENDS ShardTopology, AtomicBudget

\* HedgingEnabled, FailFastWhenSliceDown and FailoverOnError are HedgingOptions;
\* DownAtStart are the replicas that are not up when the broker starts.  Bounds:
\* Impatient, the requests whose callers may leave; Probed, the replicas the
\* monitor probes (the code probes all of them); FaultKinds, how replicas fail
\* here, within {"crash", "hang", "inject"}; MaxFaults, how often they do.
CONSTANTS Requests, HedgingEnabled, FailFastWhenSliceDown, FailoverOnError,
          Impatient, Probed, DownAtStart, FaultKinds, MaxFaults

\* A behaviour ends before the round-robin counter reaches int.MaxValue; what
\* happens there is RoundRobin.tla's subject.
ASSUME RequestsAssumption ==
    /\ IsFiniteSet(Requests)
    /\ Cardinality(Requests) + N <= IntMax + 1
ASSUME OptionsAssumption ==
    /\ HedgingEnabled \in BOOLEAN
    /\ FailFastWhenSliceDown \in BOOLEAN
    /\ FailoverOnError \in BOOLEAN
ASSUME EnvironmentAssumption ==
    /\ Impatient \subseteq Requests
    /\ Probed \subseteq Replicas
    /\ DownAtStart \subseteq Replicas
    /\ FaultKinds \subseteq {"crash", "hang", "inject"}
    /\ MaxFaults \in Nat

Kinds    == {"primary", "hedge", "failover"}
Failures == {"timeout", "unavailable", "error"}
Results  == Failures \cup {"success", "cancelled"}
\* An attempt: not made; called; the transport or the replica itself has refused
\* it (UNAVAILABLE) but the caller has not seen that yet; its task is complete;
\* the slice loop has consumed it (Attempt.Done).
Stages   == {"none", "sent", "refused", "complete", "seen"}
NoReplica == -1
Attempt  == [stage : Stages, replica : Replicas \cup {NoReplica},
             result : Results \cup {"none"}]
NoAttempt == [stage |-> "none", replica |-> NoReplica, result |-> "none"]
Reasons  == Failures \cup {"unknown", "slice_down"}

VARIABLES
    rr,        \* SliceState._rr, masked
    calls,     \* history: attempts of each kind made on the slice
    recorded,  \* attempts whose latency each request gave to slice.Tracker
    health,    \* ReplicaState._health
    probe,     \* the monitor's probe of each replica in this round
    server,    \* environment: what each replica's process is doing
    faulted,   \* history: replicas that were ever down or hung, or refused a call
    faults,    \* faults injected so far
    pc,        \* of each request: "idle", "checked", "running", "done"
    outcome,   \* what the request returned: "none", "success" or a reason
    gone,      \* the caller's token is cancelled
    expired,   \* deadline.Expired
    timer,     \* hedgeTimer: "none", "armed", "fired", "cancelled"
    failedOver,   \* failoverUsed
    lastFailure,  \* lastFailure's status
    att        \* attempts

sliceVars  == <<tokens, primaries, hedges, rr, calls, recorded>>
serverVars == <<server, faulted, faults>>
callerVars == <<pc, outcome, gone, expired>>
loopVars   == <<timer, failedOver, lastFailure>>
vars == <<sliceVars, health, probe, serverVars, callerVars, loopVars, att>>

Init ==
    /\ BudgetInit
    /\ rr = -1
    /\ calls = [k \in Kinds |-> 0]
    /\ recorded = [q \in Requests |-> {}]
    /\ health = [r \in Replicas |-> "unknown"]
    /\ probe = [r \in Probed |-> "asked"]
    /\ server = [r \in Replicas |-> IF r \in DownAtStart THEN "down" ELSE "up"]
    /\ faulted = DownAtStart
    /\ faults = 0
    /\ pc = [q \in Requests |-> "idle"]
    /\ outcome = [q \in Requests |-> "none"]
    /\ gone = [q \in Requests |-> FALSE]
    /\ expired = [q \in Requests |-> FALSE]
    /\ timer = [q \in Requests |-> "none"]
    /\ failedOver = [q \in Requests |-> FALSE]
    /\ lastFailure = [q \in Requests |-> "none"]
    /\ att = [q \in Requests |-> [k \in Kinds |-> NoAttempt]]

Made(q)    == {k \in Kinds : att[q][k].stage # "none"}
Pending(q) == {k \in Kinds : att[q][k].stage \in {"sent", "refused", "complete"}}
Tried(q)   == {att[q][k].replica : k \in Made(q)}

-----------------------------------------------------------------------------
(* SearchSliceAsync, up to its first await. *)

SliceDown == \A r \in Replicas : health[r] = "unhealthy"

\* Fail fast on a slice whose every replica is marked unhealthy.
FailFast(q) ==
    /\ pc[q] = "idle"
    /\ FailFastWhenSliceDown /\ SliceDown
    /\ pc' = [pc EXCEPT ![q] = "done"]
    /\ outcome' = [outcome EXCEPT ![q] = "slice_down"]
    /\ UNCHANGED <<sliceVars, health, probe, serverVars, gone, expired, loopVars, att>>

\* Some replica may be usable; the marks can change before one is picked.
PassCheck(q) ==
    /\ pc[q] = "idle"
    /\ ~(FailFastWhenSliceDown /\ SliceDown)
    /\ pc' = [pc EXCEPT ![q] = "checked"]
    /\ UNCHANGED <<sliceVars, health, probe, serverVars, outcome, gone, expired, loopVars, att>>

\* Start(replica, kind): RunAttemptAsync runs up to its call, and completes at
\* once with a timeout when no budget is left.
Start(q, k, r) ==
    /\ att' = [att EXCEPT ![q][k] =
                  IF expired[q]
                  THEN [stage |-> "complete", replica |-> r, result |-> "timeout"]
                  ELSE [stage |-> "sent", replica |-> r, result |-> "none"]]
    /\ calls' = [calls EXCEPT ![k] = @ + 1]

\* The primary goes out.  HedgeDelay needs two replicas and a latency history;
\* whether there is one, and it is below deadline.Remaining, is `arm`.
SendPrimary(q, arm) ==
    /\ pc[q] = "checked"
    /\ arm => HedgingEnabled /\ N >= 2 /\ ~expired[q]
    /\ OnPrimary
    /\ rr' = NextStart(rr)
    /\ Start(q, "primary", PickPrimary(NextStart(rr), health))
    /\ timer' = [timer EXCEPT ![q] = IF ~arm THEN "none"
                                     ELSE IF gone[q] THEN "cancelled" ELSE "armed"]
    /\ pc' = [pc EXCEPT ![q] = "running"]
    /\ UNCHANGED <<recorded, health, probe, serverVars, outcome, gone, expired,
                   failedOver, lastFailure>>

-----------------------------------------------------------------------------
(* The outcome of a call: RunAttemptAsync after its await. *)

Complete(q, k, result) ==
    att' = [att EXCEPT ![q][k].stage = "complete", ![q][k].result = result]

\* A live replica answers, or fails the call with some other gRPC status; one with
\* a chaos blackhole fails it with DEADLINE_EXCEEDED when the budget it was sent is
\* used up, ShardGraceMs before the broker's own deadline.
Replies == {"success", "error", "timeout"}
Answer(q, k, result) ==
    /\ att[q][k].stage = "sent"
    /\ server[att[q][k].replica] = "up"
    /\ result \in Replies
    /\ Complete(q, k, result)
    /\ UNCHANGED <<sliceVars, health, probe, serverVars, callerVars, loopVars>>

\* Faulty variant of TimeOut: a slow replica is taken for a dead one.
TimeOutMarks(q, k) ==
    /\ att[q][k].stage = "sent"
    /\ expired[q]
    /\ Complete(q, k, "timeout")
    /\ health' = [health EXCEPT ![att[q][k].replica] = "unhealthy"]
    /\ UNCHANGED <<sliceVars, probe, serverVars, callerVars, loopVars>>

\* The call's gRPC deadline passes.
TimeOut(q, k) ==
    /\ att[q][k].stage = "sent"
    /\ expired[q]
    /\ Complete(q, k, "timeout")
    /\ UNCHANGED <<sliceVars, health, probe, serverVars, callerVars, loopVars>>

\* The transport cannot reach a dead replica.
Refuse(q, k) ==
    /\ att[q][k].stage = "sent"
    /\ server[att[q][k].replica] = "down"
    /\ att' = [att EXCEPT ![q][k].stage = "refused"]
    /\ UNCHANGED <<sliceVars, health, probe, serverVars, callerVars, loopVars>>

\* A live replica refuses a call: the failure injected by its chaos file.
RefuseInjected(q, k) ==
    /\ "inject" \in FaultKinds /\ faults < MaxFaults
    /\ att[q][k].stage = "sent"
    /\ \E r \in Replicas :
          att[q][k].replica = r /\ server[r] = "up" /\ faulted' = faulted \cup {r}
    /\ att' = [att EXCEPT ![q][k].stage = "refused"]
    /\ faults' = faults + 1
    /\ UNCHANGED <<sliceVars, health, probe, server, callerVars, loopVars>>

\* The caller's side of both: the replica is marked unhealthy.
SeeRefused(q, k) ==
    /\ att[q][k].stage = "refused"
    /\ ~gone[q]
    /\ health' = [health EXCEPT ![att[q][k].replica] = "unhealthy"]
    /\ Complete(q, k, "unavailable")
    /\ UNCHANGED <<sliceVars, probe, serverVars, callerVars, loopVars>>

\* Faulty variant of SeeCancelled: a refused call of a gone caller never ends.
SeeCancelledUnlessRefused(q, k) ==
    /\ att[q][k].stage = "sent"
    /\ gone[q]
    /\ Complete(q, k, "cancelled")
    /\ UNCHANGED <<sliceVars, health, probe, serverVars, callerVars, loopVars>>

\* The caller's token was cancelled: a failing call counts as cancelled.
SeeCancelled(q, k) ==
    /\ att[q][k].stage \in {"sent", "refused"}
    /\ gone[q]
    /\ Complete(q, k, "cancelled")
    /\ UNCHANGED <<sliceVars, health, probe, serverVars, callerVars, loopVars>>

-----------------------------------------------------------------------------
(* The slice loop of SearchSliceAsync. *)

\* Returning cancels sliceCts (`finally`), and the call's locals are gone: the
\* hedge timer stops, and attempts still running end as cancelled, which no
\* longer touches the slice.
Return(q, result) ==
    /\ outcome' = [outcome EXCEPT ![q] = result]
    /\ pc' = [pc EXCEPT ![q] = "done"]
    /\ gone' = [gone EXCEPT ![q] = FALSE]
    /\ expired' = [expired EXCEPT ![q] = FALSE]
    /\ timer' = [timer EXCEPT ![q] = "none"]
    /\ failedOver' = [failedOver EXCEPT ![q] = FALSE]
    /\ lastFailure' = [lastFailure EXCEPT ![q] = "none"]
    /\ att' = [att EXCEPT ![q] = [k \in Kinds |-> NoAttempt]]

\* Faulty variant of TakeSuccess: the primary that lost leaves no sample.
TakeSuccessWinnerOnly(q, k) ==
    /\ pc[q] = "running"
    /\ att[q][k].stage = "complete" /\ att[q][k].result = "success"
    /\ recorded' = [recorded EXCEPT ![q] = @ \cup {k}]
    /\ Return(q, "success")
    /\ UNCHANGED <<budgetVars, rr, calls, health, probe, serverVars>>

\* WhenAny woke on an attempt that succeeded: the others are cancelled, and a
\* primary that lost is recorded at the time it had run so far.
TakeSuccess(q, k) ==
    /\ pc[q] = "running"
    /\ att[q][k].stage = "complete" /\ att[q][k].result = "success"
    /\ recorded' = [recorded EXCEPT ![q] = @ \cup {k} \cup (Pending(q) \cap {"primary"})]
    /\ Return(q, "success")
    /\ UNCHANGED <<budgetVars, rr, calls, health, probe, serverVars>>

\* WhenAny woke on an attempt that did not succeed.
TakeFailure(q, k) ==
    /\ pc[q] = "running"
    /\ att[q][k].stage = "complete" /\ att[q][k].result # "success"
    /\ att' = [att EXCEPT ![q][k].stage = "seen"]
    /\ recorded' = [recorded EXCEPT ![q] =
                       IF att[q][k].result = "timeout" THEN @ \cup {k} ELSE @]
    /\ lastFailure' = [lastFailure EXCEPT ![q] =
                          IF att[q][k].result = "cancelled" THEN @ ELSE att[q][k].result]
    /\ UNCHANGED <<budgetVars, rr, calls, health, probe, serverVars, callerVars,
                   timer, failedOver>>

HedgeTargets(q) == IF timer[q] = "fired" /\ ~expired[q]
                   THEN PickAlternate(Tried(q), health)
                   ELSE {}

\* WhenAny woke on the hedge timer, another replica is left and the budget
\* has a token.
SendHedge(q) ==
    /\ pc[q] = "running" /\ Pending(q) # {}
    /\ Acquire
    /\ \E r \in HedgeTargets(q) : Start(q, "hedge", r)
    /\ timer' = [timer EXCEPT ![q] = "none"]
    /\ UNCHANGED <<rr, recorded, health, probe, serverVars, callerVars,
                   failedOver, lastFailure>>

\* WhenAny woke on the timer, but it was cancelled, the deadline has passed,
\* no replica is left, or the budget denied the hedge.
SkipHedge(q) ==
    /\ pc[q] = "running" /\ Pending(q) # {}
    /\ \/ timer[q] = "cancelled"
       \/ timer[q] = "fired" /\ (HedgeTargets(q) = {} \/ tokens < Scale)
    /\ timer' = [timer EXCEPT ![q] = "none"]
    /\ UNCHANGED <<sliceVars, health, probe, serverVars, callerVars,
                   failedOver, lastFailure, att>>

\* Faulty variant of FailoverTargets: only a dead replica is failed over.
FailoverTargetsOfDead(q) ==
    IF ~failedOver[q] /\ FailoverOnError /\ lastFailure[q] = "unavailable" /\ ~expired[q]
    THEN PickAlternate(Tried(q), health)
    ELSE {}

\* Everything in flight failed: what an immediate failover could still use.
FailoverTargets(q) ==
    IF /\ ~failedOver[q] /\ FailoverOnError
       /\ lastFailure[q] \in {"unavailable", "error"}
       /\ ~expired[q]
    THEN PickAlternate(Tried(q), health)
    ELSE {}

Failover(q) ==
    /\ pc[q] = "running" /\ Pending(q) = {}
    /\ \E r \in FailoverTargets(q) : Start(q, "failover", r)
    /\ failedOver' = [failedOver EXCEPT ![q] = TRUE]
    /\ UNCHANGED <<budgetVars, rr, recorded, health, probe, serverVars,
                   callerVars, timer, lastFailure>>

GiveUp(q) ==
    /\ pc[q] = "running" /\ Pending(q) = {}
    /\ FailoverTargets(q) = {}
    /\ Return(q, IF lastFailure[q] = "none" THEN "unknown" ELSE lastFailure[q])
    /\ UNCHANGED <<sliceVars, health, probe, serverVars>>

-----------------------------------------------------------------------------
(* Time and the caller. *)

TimerFires(q) ==
    /\ timer[q] = "armed"
    /\ timer' = [timer EXCEPT ![q] = "fired"]
    /\ UNCHANGED <<sliceVars, health, probe, serverVars, callerVars,
                   failedOver, lastFailure, att>>

Expire(q) ==
    /\ pc[q] \in {"checked", "running"} /\ ~expired[q]
    /\ expired' = [expired EXCEPT ![q] = TRUE]
    /\ UNCHANGED <<sliceVars, health, probe, serverVars, pc, outcome, gone,
                   loopVars, att>>

\* The caller gives up; a hedge timer that has not fired is cancelled with it.
CallerCancels(q) ==
    /\ q \in Impatient
    /\ pc[q] \in {"checked", "running"} /\ ~gone[q]
    /\ gone' = [gone EXCEPT ![q] = TRUE]
    /\ timer' = [timer EXCEPT ![q] = IF @ = "armed" THEN "cancelled" ELSE @]
    /\ UNCHANGED <<sliceVars, health, probe, serverVars, pc, outcome, expired,
                   failedOver, lastFailure, att>>

-----------------------------------------------------------------------------
(* ShardHealthMonitor (Services.cs): a round probes every replica at once   *)
(* and ends when all of its probes have.                                    *)

StartRound ==
    /\ \A r \in Probed : probe[r] = "marked"
    /\ probe' = [r \in Probed |-> "asked"]
    /\ UNCHANGED <<sliceVars, health, serverVars, callerVars, loopVars, att>>

\* Health answers, or the probe fails or times out.
ProbeAnswer(r) ==
    /\ probe[r] = "asked"
    /\ probe' = [probe EXCEPT ![r] = IF server[r] = "up" THEN "ok" ELSE "failed"]
    /\ UNCHANGED <<sliceVars, health, serverVars, callerVars, loopVars, att>>

\* Faulty variant of ProbeMark: it only brings bad news.
ProbeMarkFailures(r) ==
    /\ probe[r] \in {"ok", "failed"}
    /\ health' = [health EXCEPT ![r] = IF probe[r] = "ok" THEN @ ELSE "unhealthy"]
    /\ probe' = [probe EXCEPT ![r] = "marked"]
    /\ UNCHANGED <<sliceVars, serverVars, callerVars, loopVars, att>>

\* ProbeAsync's MarkHealthy or MarkUnhealthy, some time after the answer.
ProbeMark(r) ==
    /\ probe[r] \in {"ok", "failed"}
    /\ health' = [health EXCEPT ![r] = IF probe[r] = "ok" THEN "healthy" ELSE "unhealthy"]
    /\ probe' = [probe EXCEPT ![r] = "marked"]
    /\ UNCHANGED <<sliceVars, serverVars, callerVars, loopVars, att>>

-----------------------------------------------------------------------------
(* Replica processes. *)

\* A killed process breaks its connections: calls in flight are refused.
Crash(r) ==
    /\ "crash" \in FaultKinds /\ faults < MaxFaults /\ server[r] # "down"
    /\ server' = [server EXCEPT ![r] = "down"]
    /\ att' = [q \in Requests |-> [k \in Kinds |->
                  IF att[q][k].stage = "sent" /\ att[q][k].replica = r
                  THEN [att[q][k] EXCEPT !.stage = "refused"] ELSE att[q][k]]]
    /\ faulted' = faulted \cup {r}
    /\ faults' = faults + 1
    /\ UNCHANGED <<sliceVars, health, probe, callerVars, loopVars>>

\* A replica that stops answering in time, its connections open.
Hang(r) ==
    /\ "hang" \in FaultKinds /\ faults < MaxFaults /\ server[r] = "up"
    /\ server' = [server EXCEPT ![r] = "hung"]
    /\ faulted' = faulted \cup {r}
    /\ faults' = faults + 1
    /\ UNCHANGED <<sliceVars, health, probe, callerVars, loopVars, att>>

Recover(r) ==
    /\ server[r] # "up"
    /\ server' = [server EXCEPT ![r] = "up"]
    /\ UNCHANGED <<sliceVars, health, probe, faulted, faults, callerVars, loopVars, att>>

-----------------------------------------------------------------------------
Begin(q) == FailFast(q) \/ PassCheck(q) \/ \E arm \in BOOLEAN : SendPrimary(q, arm)

Call(q, k) ==
    \/ \E result \in Replies : Answer(q, k, result)
    \/ TimeOut(q, k)
    \/ Refuse(q, k)
    \/ RefuseInjected(q, k)
    \/ SeeRefused(q, k)
    \/ SeeCancelled(q, k)

Loop(q) ==
    \/ \E k \in Kinds : TakeSuccess(q, k) \/ TakeFailure(q, k)
    \/ SendHedge(q)
    \/ SkipHedge(q)
    \/ Failover(q)
    \/ GiveUp(q)

Clock(q) == TimerFires(q) \/ Expire(q) \/ CallerCancels(q)

Monitor(r) == ProbeAnswer(r) \/ ProbeMark(r)

Process(r) == Crash(r) \/ Hang(r) \/ Recover(r)

Next ==
    \/ \E q \in Requests : Begin(q) \/ Loop(q) \/ Clock(q)
    \/ \E q \in Requests, k \in Kinds : Call(q, k)
    \/ StartRound
    \/ \E r \in Probed : Monitor(r)
    \/ \E r \in Replicas : Process(r)

Spec == Init /\ [][Next]_vars

\* What the runtime guarantees: a search task that can run runs, the deadline
\* passes, calls end at their deadline, and the monitor keeps probing.  Nothing
\* makes a replica answer, crash or recover.
Fairness ==
    /\ \A q \in Requests :
          /\ WF_vars(\E arm \in BOOLEAN : SendPrimary(q, arm))
          /\ WF_vars(Loop(q))
          /\ WF_vars(Expire(q))
          /\ \A k \in Kinds : WF_vars(TimeOut(q, k) \/ SeeRefused(q, k) \/ SeeCancelled(q, k))
    /\ WF_vars(StartRound)
    /\ \A r \in Probed : WF_vars(Monitor(r))

FairSpec == Spec /\ Fairness

-----------------------------------------------------------------------------
TypeOK ==
    /\ tokens \in 0 .. Cap
    /\ primaries \in Nat
    /\ hedges \in Nat
    /\ health \in [Replicas -> Health]
    /\ rr \in -1 .. IntMax
    /\ server \in [Replicas -> {"up", "down", "hung"}]
    /\ faulted \subseteq Replicas
    /\ faults \in 0 .. MaxFaults
    /\ probe \in [Probed -> {"asked", "ok", "failed", "marked"}]
    /\ pc \in [Requests -> {"idle", "checked", "running", "done"}]
    /\ timer \in [Requests -> {"none", "armed", "fired", "cancelled"}]
    /\ expired \in [Requests -> BOOLEAN]
    /\ gone \in [Requests -> BOOLEAN]
    /\ failedOver \in [Requests -> BOOLEAN]
    /\ lastFailure \in [Requests -> Failures \cup {"none"}]
    /\ calls \in [Kinds -> Nat]
    /\ att \in [Requests -> [Kinds -> Attempt]]
    /\ recorded \in [Requests -> SUBSET Kinds]
    /\ outcome \in [Requests -> Reasons \cup {"none", "success"}]

\* The extra load hedging puts on the slice's servers, counted in calls that
\* were really made, never exceeds the configured fraction of the primary
\* calls, whichever requests share the bucket and however they fail.
HedgeLoadBounded == calls["hedge"] * Scale <= calls["primary"] * PerPrimary

\* The attempts of one request go to different replicas: a hedge or a failover
\* never asks again the server that is slow or has failed.
AttemptsOnDistinctReplicas ==
    \A q \in Requests : \A j, k \in Made(q) :
        att[q][j].replica = att[q][k].replica => j = k

\* A slice with a second replica never fails fast on the word of one: before
\* its deadline a request reports a failure only after two replicas failed it.
OneReplicaCannotFailASlice ==
    [][(N >= 2 /\ FailoverOnError) =>
          \A q \in Requests :
              /\ outcome[q] = "none" /\ outcome'[q] \in {"unavailable", "error"}
              /\ ~expired[q]
              => Cardinality(Tried(q)) >= 2]_vars

\* The hedge delay is a quantile of what this records: every primary that was
\* slow, whether it answered, timed out or lost to a hedge, leaves a sample
\* behind; only a primary that failed fast or was cancelled does not.
SlowPrimariesRecorded ==
    [][\A q \in Requests :
          /\ outcome[q] = "none" /\ outcome'[q] = "success"
          /\ att[q]["primary"].result \notin {"unavailable", "error", "cancelled"}
          => "primary" \in recorded'[q]]_vars

\* A slice is declared down only when every replica has really been down or
\* hung (too slow to answer the monitor's probe is hung, too) or has itself
\* refused a call with UNAVAILABLE, as fault injection makes a live one do: slow
\* answers to searches, other errors, deadlines that expire at either end and
\* cancelled losers never take a replica out.
NoFalseSliceDown ==
    \A q \in Requests : outcome[q] = "slice_down" => faulted = Replicas

\* Every request that goes out comes back, with hung replicas, dead ones and a
\* caller that leaves.
RequestsReturn == \A q \in Requests : pc[q] = "checked" ~> pc[q] = "done"

\* Marks written from stale observations do not last: once the faults stop (a
\* behaviour has finitely many), every probed replica ends marked as what it is.
HealthConverges ==
    \A r \in Probed :
        <>[](health[r] = IF server[r] = "up" THEN "healthy" ELSE "unhealthy")
====
