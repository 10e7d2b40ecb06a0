-------------------------- MODULE ShardFanOutProofs --------------------------
(***************************************************************************)
(* The fan-out of one slice, for any number of requests, replicas and       *)
(* faults and any options: types, the bound on hedging, the distinctness of *)
(* a request's replicas, that a slice is never declared down while one of   *)
(* its replicas has been up all along, that it takes the failure of two     *)
(* replicas, and that a primary that was hedged against leaves its time.    *)
(* Then what a replica does with a call: its server answers within the      *)
(* call's budget, whatever is written to its control file, and its searches *)
(* of the graph on disk answer what each would alone, whatever threads and  *)
(* reads they share.                                                        *)
(***************************************************************************)
EXTENDS ShardFanOut, ShardServer, DiskSearch, FiniteSetTheorems, WellFoundedInduction, TLAPS

-----------------------------------------------------------------------------
(* The replica picks. *)

\* A nonempty set of natural numbers has a least element.
LEMMA LeastElement ==
    ASSUME NEW S \in SUBSET Nat, S # {}
    PROVE  \E x \in S : \A y \in S : x <= y
<1>1. PICK x \in S : \A y \in S : ~ (<<y, x>> \in OpToRel(<, Nat))
  BY WFMin, NatLessThanWellFounded
<1>2. ASSUME NEW y \in S, y < x PROVE FALSE
  <2>1. <<y, x>> \in Nat \X Nat /\ <<y, x>>[1] < <<y, x>>[2]
    BY <1>2
  <2>2. <<y, x>> \in OpToRel(<, Nat)
    BY <2>1 DEF OpToRel
  <2>3. QED
    BY <1>1, <2>2
<1>3. QED
  BY <1>2

\* Below the end of the int range the round robin picks a replica of the slice.
LEMMA PickPrimaryType ==
    ASSUME NEW start \in Nat, start + N <= IntMax + 1, NEW h
    PROVE  PickPrimary(start, h) \in Replicas
<1> DEFINE Nth1(i) == RemInt(AddInt(start, i))
           Usable     == {i \in Replicas : Nth1(i) \in Replicas => h[Nth1(i)] # "unhealthy"}
<1>1. \A i \in Replicas : Nth1(i) \in Replicas
  BY ReplicaAssumption, IntMaxAssumption DEF Replicas, RemInt, AddInt
<1>2. CASE Usable = {}
  <2>1. start % N \in Replicas
    BY ReplicaAssumption DEF Replicas
  <2>2. QED
    BY <1>2, <2>1 DEF PickPrimary
<1>3. CASE Usable # {}
  <2>1. Usable \in SUBSET Nat
    BY DEF Replicas
  <2>2. \E i \in Usable : \A j \in Usable : i <= j
    BY <1>3, <2>1, LeastElement
  <2>3. (CHOOSE i \in Usable : \A j \in Usable : i <= j) \in Usable
    BY <2>2
  <2>4. (CHOOSE i \in Usable : \A j \in Usable : i <= j) \in Replicas
    BY <2>3
  <2>5. QED
    BY <1>1, <1>3, <2>4 DEF PickPrimary
<1>4. QED
  BY <1>2, <1>3

\* An alternate is a replica outside the excluded ones.
LEMMA PickAlternateType ==
    ASSUME NEW X, NEW h PROVE PickAlternate(X, h) \subseteq Replicas \ X
  BY DEF PickAlternate

LEMMA NextStartType ==
    ASSUME NEW n \in -1 .. IntMax, n < IntMax PROVE NextStart(n) = n + 1
  BY IntMaxAssumption DEF NextStart

-----------------------------------------------------------------------------
(* The inductive invariant. *)

\* Requests whose primary has gone out, or that are over.
Launched == {q \in Requests : pc[q] \in {"running", "done"}}

\* The round robin advances once per primary, and a request sends one primary.
Launches == primaries = rr + 1 /\ primaries <= Cardinality(Launched)

\* A request has attempts only while it runs.
NoneOutside == \A q \in Requests : pc[q] # "running" => Made(q) = {}

\* The counters of the budget count real calls, and the balance covers them.
Accounted ==
    /\ calls["primary"] = primaries
    /\ calls["hedge"] = hedges
    /\ tokens + hedges * Scale <= primaries * PerPrimary

IInv == TypeOK /\ Launches /\ NoneOutside /\ Accounted /\ AttemptsOnDistinctReplicas

\* A request that has not sent its primary leaves room in the int range.
LEMMA RoomLeft ==
    ASSUME TypeOK, Launches, NEW q \in Requests, pc[q] = "checked"
    PROVE  /\ NextStart(rr) = rr + 1
           /\ PickPrimary(NextStart(rr), health) \in Replicas
           /\ Cardinality(Launched \cup {q}) = Cardinality(Launched) + 1
           /\ Cardinality(Launched) \in Nat
<1>1. Launched \cup {q} \subseteq Requests /\ q \notin Launched
  BY DEF Launched
<1>2. /\ IsFiniteSet(Launched) /\ Cardinality(Launched) \in Nat
      /\ Cardinality(Requests) \in Nat
  BY <1>1, RequestsAssumption, FS_Subset, FS_CardinalityType
<1>3. Cardinality(Launched \cup {q}) = Cardinality(Launched) + 1
  BY <1>1, <1>2, FS_AddElement
<1>4. Cardinality(Launched \cup {q}) <= Cardinality(Requests)
  BY <1>1, RequestsAssumption, FS_Subset
<1>5. rr + 1 + N <= IntMax
  BY <1>2, <1>3, <1>4, RequestsAssumption, ReplicaAssumption, IntMaxAssumption
     DEF TypeOK, Launches
<1>6. NextStart(rr) = rr + 1
  BY <1>5, NextStartType, ReplicaAssumption, IntMaxAssumption DEF TypeOK
<1>7. PickPrimary(rr + 1, health) \in Replicas
  <2>1. rr + 1 \in Nat /\ rr + 1 + N <= IntMax + 1
    BY <1>5, ReplicaAssumption, IntMaxAssumption DEF TypeOK
  <2>2. QED
    BY <2>1, PickPrimaryType
<1>8. QED
  BY <1>2, <1>3, <1>6, <1>7

-----------------------------------------------------------------------------
(* Types. *)

\* Updating an attempt's stage, or its stage and result, gives an attempt.
LEMMA AttemptUpdate ==
    ASSUME NEW a \in Attempt, NEW x \in Stages, NEW y \in Results
    PROVE  /\ [a EXCEPT !.stage = x] \in Attempt
           /\ [a EXCEPT !.stage = x, !.result = y] \in Attempt
  BY DEF Attempt

\* What a call, its completion and its consumption do to the attempts.
LEMMA AttemptTypes ==
    ASSUME att \in [Requests -> [Kinds -> Attempt]], NEW q \in Requests, NEW k \in Kinds
    PROVE  /\ \A r \in Replicas : Start(q, k, r) => att' \in [Requests -> [Kinds -> Attempt]]
           /\ \A x \in Results : Complete(q, k, x) => att' \in [Requests -> [Kinds -> Attempt]]
           /\ \A x \in Stages : [att EXCEPT ![q][k].stage = x] \in [Requests -> [Kinds -> Attempt]]
           /\ NoAttempt \in Attempt
<1>1. \A r \in Replicas : Start(q, k, r) => att' \in [Requests -> [Kinds -> Attempt]]
  BY DEF Start, Attempt, Stages, Results, Failures
<1>2. \A x \in Results : Complete(q, k, x) => att' \in [Requests -> [Kinds -> Attempt]]
  <2> SUFFICES ASSUME NEW x \in Results, Complete(q, k, x)
               PROVE  att' \in [Requests -> [Kinds -> Attempt]]
    OBVIOUS
  <2>1. [att[q][k] EXCEPT !.stage = "complete", !.result = x] \in Attempt
    BY AttemptUpdate, att[q][k] \in Attempt, "complete" \in Stages DEF Stages
  <2>2. att' = [att EXCEPT ![q] = [att[q] EXCEPT
                   ![k] = [att[q][k] EXCEPT !.stage = "complete", !.result = x]]]
    BY Zenon DEF Complete
  <2>3. QED
    BY <2>1, <2>2
<1>3. \A x \in Stages : [att EXCEPT ![q][k].stage = x] \in [Requests -> [Kinds -> Attempt]]
  <2> SUFFICES ASSUME NEW x \in Stages
               PROVE  [att EXCEPT ![q][k].stage = x] \in [Requests -> [Kinds -> Attempt]]
    OBVIOUS
  <2>1. [att[q][k] EXCEPT !.stage = x] \in Attempt
    BY AttemptUpdate, att[q][k] \in Attempt, "success" \in Results DEF Results
  <2>2. QED
    BY <2>1
<1>4. NoAttempt \in Attempt
  BY DEF NoAttempt, Attempt, Stages, Results
<1>5. QED
  BY <1>1, <1>2, <1>3, <1>4

LEMMA CallsType ==
    ASSUME calls \in [Kinds -> Nat], NEW q, NEW k \in Kinds, NEW r, Start(q, k, r)
    PROVE  /\ calls' \in [Kinds -> Nat]
           /\ calls'[k] = calls[k] + 1
           /\ \A j \in Kinds \ {k} : calls'[j] = calls[j]
<1>1. calls' = [calls EXCEPT ![k] = @ + 1]
  BY DEF Start
<1>2. QED
  BY <1>1

LEMMA BudgetTypes ==
    ASSUME tokens \in 0 .. Cap, primaries \in Nat, hedges \in Nat
    PROVE  /\ OnPrimary => tokens' \in 0 .. Cap /\ primaries' \in Nat /\ hedges' \in Nat
           /\ Acquire => tokens' \in 0 .. Cap /\ primaries' \in Nat /\ hedges' \in Nat
  BY ScaleAssumption, PerPrimaryAssumption, CapAssumption DEF OnPrimary, Acquire, AfterDeposit

LEMMA InitTypeOK == Init => TypeOK
  BY AttemptTypes, IntMaxAssumption, CapAssumption, EnvironmentAssumption
     DEF Init, TypeOK, BudgetInit, Health, NoAttempt, Attempt, Stages, Results, NoReplica


\* Each part of Next keeps the types.
LEMMA BeginTypeOK ==
    ASSUME TypeOK, Launches, NEW q \in Requests, Begin(q) PROVE TypeOK'
<1> USE DEF TypeOK, sliceVars, serverVars, callerVars, loopVars, budgetVars
<1>1. CASE FailFast(q)
  BY <1>1 DEF FailFast, Reasons
<1>2. CASE PassCheck(q)
  BY <1>2 DEF PassCheck
<1>3. ASSUME NEW arm \in BOOLEAN, SendPrimary(q, arm) PROVE TypeOK'
  <2>1. pc[q] = "checked"
    BY <1>3 DEF SendPrimary
  <2>2. att' \in [Requests -> [Kinds -> Attempt]]
    BY <1>3, <2>1, RoomLeft, AttemptTypes DEF SendPrimary, Kinds
  <2>3. rr' \in -1 .. IntMax
    BY <1>3, IntMaxAssumption DEF SendPrimary, NextStart
  <2>4. calls' \in [Kinds -> Nat]
    BY <1>3, CallsType, "primary" \in Kinds DEF SendPrimary, Kinds
  <2>5. QED
    BY <1>3, <2>2, <2>3, <2>4, BudgetTypes DEF SendPrimary
<1>4. QED
  BY <1>1, <1>2, <1>3 DEF Begin

LEMMA CallTypeOK ==
    ASSUME TypeOK, NEW q \in Requests, NEW k \in Kinds, Call(q, k) PROVE TypeOK'
<1> USE AttemptTypes
    DEF TypeOK, sliceVars, serverVars, callerVars, loopVars, Results, Failures, Stages, Health
<1>1. ASSUME NEW result \in Replies, Answer(q, k, result) PROVE TypeOK'
  BY <1>1 DEF Answer, Replies
<1>2. CASE TimeOut(q, k)
  BY <1>2 DEF TimeOut
<1>3. CASE Refuse(q, k)
  BY <1>3 DEF Refuse
<1>4. CASE SeeRefused(q, k)
  BY <1>4 DEF SeeRefused
<1>5. CASE SeeCancelled(q, k)
  BY <1>5 DEF SeeCancelled
<1>6. CASE RefuseInjected(q, k)
  <2>1. faulted' \subseteq Replicas /\ faults' \in 0 .. MaxFaults
    <3>1. PICK r \in Replicas : faulted' = faulted \cup {r}
      BY ONLY <1>6 DEF RefuseInjected
    <3>2. faults' = faults + 1 /\ faults < MaxFaults /\ MaxFaults \in Nat /\ faults \in 0 .. MaxFaults
      BY ONLY <1>6, EnvironmentAssumption, TypeOK DEF RefuseInjected, TypeOK
    <3>3. faulted \subseteq Replicas
      BY ONLY TypeOK DEF TypeOK
    <3>4. faults' \in 0 .. MaxFaults
      BY ONLY <3>2
    <3>5. QED
      BY ONLY <3>1, <3>3, <3>4
  <2>2. att' \in [Requests -> [Kinds -> Attempt]]
    BY <1>6 DEF RefuseInjected
  <2>3. UNCHANGED <<sliceVars, health, probe, server, callerVars, loopVars>>
    BY <1>6 DEF RefuseInjected
  <2>4. QED
    BY <2>1, <2>2, <2>3
<1>7. QED
  BY <1>1, <1>2, <1>3, <1>4, <1>5, <1>6 DEF Call

LEMMA ReturnTypeOK ==
    ASSUME TypeOK, NEW q \in Requests, NEW x \in Reasons \cup {"success"}, Return(q, x)
    PROVE  /\ outcome' \in [Requests -> Reasons \cup {"none", "success"}]
           /\ pc' \in [Requests -> {"idle", "checked", "running", "done"}]
           /\ gone' \in [Requests -> BOOLEAN]
           /\ expired' \in [Requests -> BOOLEAN]
           /\ timer' \in [Requests -> {"none", "armed", "fired", "cancelled"}]
           /\ failedOver' \in [Requests -> BOOLEAN]
           /\ lastFailure' \in [Requests -> Failures \cup {"none"}]
           /\ att' \in [Requests -> [Kinds -> Attempt]]
  BY AttemptTypes DEF TypeOK, Return, Kinds

LEMMA LoopTypeOK ==
    ASSUME TypeOK, NEW q \in Requests, Loop(q) PROVE TypeOK'
<1> USE DEF TypeOK, sliceVars, serverVars, callerVars, loopVars, budgetVars
<1>1. ASSUME NEW k \in Kinds, TakeSuccess(q, k) PROVE TypeOK'
  <2>1. recorded' \in [Requests -> SUBSET Kinds]
    BY <1>1 DEF TakeSuccess, Kinds
  <2>2. QED
    BY <1>1, <2>1, ReturnTypeOK DEF TakeSuccess
<1>2. ASSUME NEW k \in Kinds, TakeFailure(q, k) PROVE TypeOK'
  <2>1. att' \in [Requests -> [Kinds -> Attempt]]
    BY <1>2, AttemptTypes DEF TakeFailure, Stages
  <2>2. recorded' \in [Requests -> SUBSET Kinds]
    BY <1>2 DEF TakeFailure
  <2>3. att[q][k].result \in Results \cup {"none"} /\ att[q][k].stage = "complete"
    BY <1>2 DEF TakeFailure, Attempt
  <2>4. QED
    BY <1>2, <2>1, <2>2, <2>3 DEF TakeFailure, Results
<1>3. CASE SendHedge(q)
  <2>1. PICK r \in HedgeTargets(q) : Start(q, "hedge", r)
    BY <1>3 DEF SendHedge
  <2>2. r \in Replicas
    BY <2>1, PickAlternateType DEF HedgeTargets
  <2>3. att' \in [Requests -> [Kinds -> Attempt]] /\ calls' \in [Kinds -> Nat]
    BY <2>1, <2>2, AttemptTypes, CallsType, {"hedge", "failover"} \subseteq Kinds DEF Kinds
  <2>4. QED
    BY <1>3, <2>3, BudgetTypes DEF SendHedge
<1>4. CASE SkipHedge(q)
  BY <1>4 DEF SkipHedge
<1>5. CASE Failover(q)
  <2>1. PICK r \in FailoverTargets(q) : Start(q, "failover", r)
    BY <1>5 DEF Failover
  <2>2. r \in Replicas
    BY <2>1, PickAlternateType DEF FailoverTargets
  <2>3. att' \in [Requests -> [Kinds -> Attempt]] /\ calls' \in [Kinds -> Nat]
    BY <2>1, <2>2, AttemptTypes, CallsType, {"hedge", "failover"} \subseteq Kinds DEF Kinds
  <2>4. QED
    BY <1>5, <2>3 DEF Failover
<1>6. CASE GiveUp(q)
  BY <1>6, ReturnTypeOK DEF GiveUp, Reasons
<1>7. QED
  BY <1>1, <1>2, <1>3, <1>4, <1>5, <1>6 DEF Loop

LEMMA ClockTypeOK ==
    ASSUME TypeOK, NEW q \in Requests, Clock(q) PROVE TypeOK'
<1> USE DEF TypeOK, sliceVars, serverVars, callerVars, loopVars
<1>1. CASE TimerFires(q)
  BY <1>1 DEF TimerFires
<1>2. CASE Expire(q)
  BY <1>2 DEF Expire
<1>3. CASE CallerCancels(q)
  BY <1>3 DEF CallerCancels
<1>4. QED
  BY <1>1, <1>2, <1>3 DEF Clock

LEMMA MonitorTypeOK ==
    ASSUME TypeOK, StartRound \/ \E r \in Probed : Monitor(r) PROVE TypeOK'
<1> USE DEF TypeOK, sliceVars, serverVars, callerVars, loopVars
<1>1. CASE StartRound
  BY <1>1 DEF StartRound
<1>2. ASSUME NEW r \in Probed, ProbeAnswer(r) PROVE TypeOK'
  BY <1>2 DEF ProbeAnswer
<1>3. ASSUME NEW r \in Probed, ProbeMark(r) PROVE TypeOK'
  BY <1>3, EnvironmentAssumption DEF ProbeMark, Health
<1>4. QED
  BY <1>1, <1>2, <1>3 DEF Monitor

LEMMA ProcessTypeOK ==
    ASSUME TypeOK, NEW r \in Replicas, Process(r) PROVE TypeOK'
<1> USE EnvironmentAssumption DEF TypeOK, sliceVars, serverVars, callerVars, loopVars
<1>1. CASE Crash(r)
  <2>1. ASSUME NEW q \in Requests, NEW k \in Kinds
        PROVE  [att[q][k] EXCEPT !.stage = "refused"] \in Attempt
    <3>1. att[q][k] \in Attempt
      OBVIOUS
    <3>2. "refused" \in Stages /\ "success" \in Results
      BY DEF Stages, Results
    <3>3. QED
      BY <3>1, <3>2, AttemptUpdate
  <2>2. att' \in [Requests -> [Kinds -> Attempt]]
    BY <1>1, <2>1 DEF Crash
  <2>3. QED
    BY <1>1, <2>2 DEF Crash
<1>2. CASE Hang(r)
  BY <1>2 DEF Hang
<1>3. CASE Recover(r)
  BY <1>3 DEF Recover
<1>4. QED
  BY <1>1, <1>2, <1>3 DEF Process

LEMMA NextTypeOK == TypeOK /\ Launches /\ [Next]_vars => TypeOK'
<1> SUFFICES ASSUME TypeOK, Launches, [Next]_vars PROVE TypeOK'
  OBVIOUS
<1>1. CASE Next
  BY <1>1, BeginTypeOK, CallTypeOK, LoopTypeOK, ClockTypeOK, MonitorTypeOK, ProcessTypeOK
     DEF Next
<1>2. CASE UNCHANGED vars
  BY <1>2 DEF TypeOK, vars, sliceVars, serverVars, callerVars, loopVars
<1>3. QED
  BY <1>1, <1>2

-----------------------------------------------------------------------------
(* The inductive invariant is inductive. *)

\* Most steps make no call: they leave the bucket, the counters and every
\* attempt's replica alone, and send no request past its primary.
SameReplicas ==
    \A q \in Requests, k \in Kinds :
        /\ att'[q][k].stage = "none" <=> att[q][k].stage = "none"
        /\ att'[q][k].replica = att[q][k].replica

Quiet ==
    /\ UNCHANGED <<tokens, primaries, hedges, rr, calls>>
    /\ SameReplicas
    /\ \A q \in Requests : \/ pc'[q] = pc[q]
                           \/ pc[q] = "idle" /\ pc'[q] \in {"checked", "done"}

LEMMA LaunchedGrows ==
    ASSUME IsFiniteSet(Launched'), Launched \subseteq Launched', Launches,
           UNCHANGED <<primaries, rr>>, primaries \in Nat
    PROVE  Launches'
<1>1. /\ Cardinality(Launched) <= Cardinality(Launched')
      /\ Cardinality(Launched) \in Nat /\ Cardinality(Launched') \in Nat
  BY FS_Subset, FS_CardinalityType
<1>2. QED
  BY <1>1 DEF Launches

LEMMA LaunchedFinite == IsFiniteSet(Launched) /\ IsFiniteSet(Launched')
  BY RequestsAssumption, FS_Subset, Launched \subseteq Requests, Launched' \subseteq Requests
     DEF Launched

LEMMA QuietStep ==
    ASSUME IInv, Quiet
    PROVE  Launches' /\ NoneOutside' /\ Accounted' /\ AttemptsOnDistinctReplicas'
<1>1. \A q \in Requests : Made(q)' = Made(q)
  BY DEF Quiet, SameReplicas, Made
<1>2. Launches'
  <2>1. Launched \subseteq Launched'
    BY DEF Launched, Quiet
  <2>2. QED
    BY <2>1, LaunchedFinite, LaunchedGrows DEF IInv, TypeOK, Quiet
<1>3. NoneOutside'
  <2> SUFFICES ASSUME NEW q \in Requests, pc'[q] # "running" PROVE Made(q)' = {}
    BY DEF NoneOutside
  <2>1. pc[q] # "running"
    BY DEF Quiet
  <2>2. QED
    BY <1>1, <2>1 DEF IInv, NoneOutside
<1>4. Accounted'
  BY DEF IInv, Accounted, Quiet
<1>5. AttemptsOnDistinctReplicas'
  <2> SUFFICES ASSUME NEW q \in Requests, NEW j \in Made(q), NEW k \in Made(q),
                      att'[q][j].replica = att'[q][k].replica
               PROVE  j = k
    BY <1>1 DEF AttemptsOnDistinctReplicas
  <2>1. att[q][j].replica = att[q][k].replica
    BY DEF Quiet, SameReplicas, Made
  <2>2. QED
    BY <2>1 DEF IInv, AttemptsOnDistinctReplicas
<1>6. QED
  BY <1>2, <1>3, <1>4, <1>5

\* An attempt that moves on leaves the other attempts as they were.
LEMMA OnlyThisAttempt ==
    ASSUME TypeOK, NEW q \in Requests, NEW k \in Kinds, NEW x \in Stages, NEW y \in Results,
           \/ att' = [att EXCEPT ![q][k].stage = x]
           \/ att' = [att EXCEPT ![q][k].stage = x, ![q][k].result = y]
    PROVE  /\ att'[q][k].stage = x
           /\ att'[q][k].replica = att[q][k].replica
           /\ \A p \in Requests, j \in Kinds : <<p, j>> # <<q, k>> => att'[p][j] = att[p][j]
<1> DEFINE a == att[q][k]
           b == [a EXCEPT !.stage = x]
           c == [a EXCEPT !.stage = x, !.result = y]
<1>1. a \in Attempt /\ att \in [Requests -> [Kinds -> Attempt]]
  BY DEF TypeOK
<1>2. /\ b.stage = x /\ b.replica = a.replica
      /\ c.stage = x /\ c.replica = a.replica
  BY <1>1 DEF Attempt
<1>3. CASE att' = [att EXCEPT ![q][k].stage = x]
  <2>1. att' = [att EXCEPT ![q] = [att[q] EXCEPT ![k] = b]]
    BY <1>3, Zenon DEF b, a
  <2> HIDE DEF b
  <2>2. QED
    BY <1>1, <1>2, <2>1
<1>4. CASE att' = [att EXCEPT ![q][k].stage = x, ![q][k].result = y]
  <2>1. att' = [att EXCEPT ![q] = [att[q] EXCEPT ![k] = c]]
    BY <1>4, Zenon DEF c, a
  <2> HIDE DEF c
  <2>2. QED
    BY <1>1, <1>2, <2>1
<1>5. QED
  BY <1>3, <1>4

\* Consuming or completing an attempt keeps what was asked of whom.
LEMMA StageKeepsReplicas ==
    ASSUME TypeOK, NEW q \in Requests, NEW k \in Kinds, att[q][k].stage # "none",
           NEW x \in Stages \ {"none"}, NEW y \in Results,
           \/ att' = [att EXCEPT ![q][k].stage = x]
           \/ att' = [att EXCEPT ![q][k].stage = x, ![q][k].result = y]
    PROVE  SameReplicas
  BY OnlyThisAttempt DEF SameReplicas

\* The steps of calls, of the clock, of the monitor and of the processes.
LEMMA CallQuiet ==
    ASSUME TypeOK, NEW q \in Requests, NEW k \in Kinds, Call(q, k) PROVE Quiet
<1> USE DEF sliceVars, serverVars, callerVars, loopVars, budgetVars
<1>1. {"complete", "refused"} \subseteq Stages \ {"none"} /\ "success" \in Results
  BY DEF Stages, Results
<1>2. ASSUME NEW x \in Results, Complete(q, k, x), att[q][k].stage # "none" PROVE SameReplicas
  BY <1>1, <1>2, StageKeepsReplicas DEF Complete
<1>3. ASSUME NEW x \in Replies, Answer(q, k, x) PROVE Quiet
  BY <1>2, <1>3 DEF Answer, Replies, Quiet, Results, Failures
<1>4. CASE TimeOut(q, k)
  BY <1>2, <1>4 DEF TimeOut, Quiet, Results, Failures
<1>5. CASE Refuse(q, k)
  <2>1. SameReplicas
    BY <1>1, <1>5, StageKeepsReplicas DEF Refuse
  <2>2. QED
    BY <1>5, <2>1 DEF Refuse, Quiet
<1>6. CASE SeeRefused(q, k)
  BY <1>2, <1>6 DEF SeeRefused, Quiet, Results, Failures
<1>7. CASE SeeCancelled(q, k)
  BY <1>2, <1>7 DEF SeeCancelled, Quiet, Results
<1>8. CASE RefuseInjected(q, k)
  <2>1. SameReplicas
    BY <1>1, <1>8, StageKeepsReplicas DEF RefuseInjected
  <2>2. QED
    BY <1>8, <2>1 DEF RefuseInjected, Quiet
<1>9. QED
  BY <1>3, <1>4, <1>5, <1>6, <1>7, <1>8 DEF Call

LEMMA EnvironmentQuiet ==
    ASSUME TypeOK,
           \/ \E q \in Requests : Clock(q)
           \/ StartRound
           \/ \E r \in Probed : Monitor(r)
           \/ \E r \in Replicas : Process(r)
    PROVE  Quiet
<1> USE DEF sliceVars, serverVars, callerVars, loopVars, budgetVars, Quiet, SameReplicas
<1>1. ASSUME NEW q \in Requests, Clock(q) PROVE Quiet
  BY <1>1 DEF Clock, TimerFires, Expire, CallerCancels
<1>2. CASE StartRound
  BY <1>2 DEF StartRound
<1>3. ASSUME NEW r \in Probed, Monitor(r) PROVE Quiet
  BY <1>3 DEF Monitor, ProbeAnswer, ProbeMark
<1>4. ASSUME NEW r \in Replicas, Crash(r) PROVE Quiet
  <2>1. ASSUME NEW q \in Requests, NEW k \in Kinds
        PROVE  /\ att'[q][k].stage = "none" <=> att[q][k].stage = "none"
               /\ att'[q][k].replica = att[q][k].replica
    <3>1. att[q][k] \in Attempt
      BY DEF TypeOK
    <3>2. /\ [att[q][k] EXCEPT !.stage = "refused"].stage = "refused"
          /\ [att[q][k] EXCEPT !.stage = "refused"].replica = att[q][k].replica
      BY <3>1 DEF Attempt
    <3>3. att'[q][k] = IF att[q][k].stage = "sent" /\ att[q][k].replica = r
                       THEN [att[q][k] EXCEPT !.stage = "refused"] ELSE att[q][k]
      BY <1>4 DEF Crash
    <3>4. QED
      BY <3>2, <3>3
  <2>2. QED
    BY <1>4, <2>1 DEF Crash
<1>5. ASSUME NEW r \in Replicas, Hang(r) \/ Recover(r) PROVE Quiet
  BY <1>5 DEF Hang, Recover
<1>6. QED
  BY <1>1, <1>2, <1>3, <1>4, <1>5 DEF Process

\* A new attempt, to a replica the request has not tried.
LEMMA FreshAttempt ==
    ASSUME AttemptsOnDistinctReplicas, TypeOK,
           NEW q \in Requests, NEW k \in Kinds, NEW r \in Replicas \ Tried(q), Start(q, k, r)
    PROVE  /\ AttemptsOnDistinctReplicas'
           /\ \A p \in Requests \ {q} : Made(p)' = Made(p)
<1>1. att' = [att EXCEPT ![q] = [att[q] EXCEPT ![k] =
                  IF expired[q]
                  THEN [stage |-> "complete", replica |-> r, result |-> "timeout"]
                  ELSE [stage |-> "sent", replica |-> r, result |-> "none"]]]
  BY Zenon DEF Start
<1>2. att \in [Requests -> [Kinds -> Attempt]]
  BY DEF TypeOK
<1>3. \A p \in Requests \ {q} : att'[p] = att[p]
  BY <1>1, <1>2
<1>4. \A j \in Kinds \ {k} : att'[q][j] = att[q][j]
  BY <1>1, <1>2
<1>5. att'[q][k].replica = r
  BY <1>1, <1>2
<1>6. \A p \in Requests \ {q} : Made(p)' = Made(p)
  BY <1>3 DEF Made
<1>7. AttemptsOnDistinctReplicas'
  <2> SUFFICES ASSUME NEW p \in Requests, NEW i \in Made(p)', NEW j \in Made(p)',
                      att'[p][i].replica = att'[p][j].replica
               PROVE  i = j
    BY DEF AttemptsOnDistinctReplicas
  <2>1. CASE p # q
    BY <1>3, <1>6, <2>1 DEF AttemptsOnDistinctReplicas
  <2>2. CASE p = q
    <3>1. \A l \in Made(q)' \ {k} : l \in Made(q) /\ att'[q][l] = att[q][l]
      BY <1>4 DEF Made
    <3>2. \A l \in Made(q)' \ {k} : att'[q][l].replica # r
      BY <3>1 DEF Tried
    <3>3. QED
      BY <1>5, <2>2, <3>1, <3>2 DEF AttemptsOnDistinctReplicas
  <2>3. QED
    BY <2>1, <2>2
<1>8. QED
  BY <1>6, <1>7

LEMMA SendPrimaryKeeps ==
    ASSUME IInv, NEW q \in Requests, NEW arm \in BOOLEAN, SendPrimary(q, arm)
    PROVE  Launches' /\ NoneOutside' /\ Accounted' /\ AttemptsOnDistinctReplicas'
<1> USE DEF IInv
<1>1. /\ pc[q] = "checked" /\ pc' = [pc EXCEPT ![q] = "running"]
      /\ OnPrimary /\ rr' = NextStart(rr)
      /\ Start(q, "primary", PickPrimary(NextStart(rr), health))
  BY DEF SendPrimary
<1>2. Made(q) = {} /\ Tried(q) = {}
  BY <1>1 DEF NoneOutside, Tried
<1>3. PickPrimary(NextStart(rr), health) \in Replicas \ Tried(q)
  BY <1>1, <1>2, RoomLeft
<1>4. /\ AttemptsOnDistinctReplicas'
      /\ \A p \in Requests \ {q} : Made(p)' = Made(p)
  BY <1>1, <1>3, FreshAttempt, "primary" \in Kinds DEF Kinds
<1>5. NoneOutside'
  BY <1>1, <1>4 DEF NoneOutside, TypeOK
<1>6. Launches'
  <2>1. Launched' = Launched \cup {q}
    BY <1>1 DEF Launched, TypeOK
  <2>2. rr' = rr + 1 /\ primaries' = primaries + 1
    BY <1>1, RoomLeft DEF OnPrimary
  <2>3. Cardinality(Launched') = Cardinality(Launched) + 1 /\ Cardinality(Launched) \in Nat
    BY <1>1, <2>1, RoomLeft
  <2>4. QED
    BY <2>2, <2>3 DEF Launches, TypeOK
<1>7. Accounted'
  <2>1. /\ calls'["primary"] = calls["primary"] + 1
        /\ calls'["hedge"] = calls["hedge"]
    BY <1>1, CallsType, {"primary", "hedge"} \subseteq Kinds DEF Kinds, TypeOK
  <2>2. (primaries + 1) * PerPrimary = primaries * PerPrimary + PerPrimary
    BY PerPrimaryAssumption DEF TypeOK
  <2>3. hedges * Scale \in Nat /\ primaries * PerPrimary \in Nat
    BY PerPrimaryAssumption, ScaleAssumption DEF TypeOK
  <2>4. QED
    BY <1>1, <2>1, <2>2, <2>3, PerPrimaryAssumption, CapAssumption
       DEF Accounted, OnPrimary, AfterDeposit, TypeOK
<1>8. QED
  BY <1>4, <1>5, <1>6, <1>7

LEMMA SendHedgeKeeps ==
    ASSUME IInv, NEW q \in Requests, SendHedge(q)
    PROVE  Launches' /\ NoneOutside' /\ Accounted' /\ AttemptsOnDistinctReplicas'
<1> USE DEF IInv
<1>1. /\ pc[q] = "running" /\ pc' = pc /\ rr' = rr /\ Acquire
  BY DEF SendHedge, callerVars
<1>2. PICK r \in HedgeTargets(q) : Start(q, "hedge", r)
  BY DEF SendHedge
<1>3. r \in Replicas \ Tried(q)
  BY PickAlternateType DEF HedgeTargets
<1>4. /\ AttemptsOnDistinctReplicas'
      /\ \A p \in Requests \ {q} : Made(p)' = Made(p)
  BY <1>2, <1>3, FreshAttempt, "hedge" \in Kinds DEF Kinds
<1>5. NoneOutside'
  BY <1>1, <1>4 DEF NoneOutside
<1>6. Launches'
  BY <1>1, LaunchedFinite, LaunchedGrows, Launched' = Launched DEF Launched, TypeOK, Acquire
<1>7. Accounted'
  <2>1. /\ calls'["hedge"] = calls["hedge"] + 1
        /\ calls'["primary"] = calls["primary"]
    BY <1>2, CallsType, {"primary", "hedge"} \subseteq Kinds DEF Kinds, TypeOK
  <2>2. (hedges + 1) * Scale = hedges * Scale + Scale
    BY ScaleAssumption DEF TypeOK
  <2>3. hedges * Scale \in Nat /\ primaries * PerPrimary \in Nat
    BY PerPrimaryAssumption, ScaleAssumption DEF TypeOK
  <2>4. QED
    BY <1>1, <2>1, <2>2, <2>3, ScaleAssumption, CapAssumption DEF Accounted, Acquire, TypeOK
<1>8. QED
  BY <1>4, <1>5, <1>6, <1>7

LEMMA FailoverKeeps ==
    ASSUME IInv, NEW q \in Requests, Failover(q)
    PROVE  Launches' /\ NoneOutside' /\ Accounted' /\ AttemptsOnDistinctReplicas'
<1> USE DEF IInv
<1>1. pc[q] = "running" /\ pc' = pc /\ rr' = rr /\ UNCHANGED budgetVars
  BY DEF Failover, callerVars
<1>2. PICK r \in FailoverTargets(q) : Start(q, "failover", r)
  BY DEF Failover
<1>3. r \in Replicas \ Tried(q)
  BY PickAlternateType DEF FailoverTargets
<1>4. /\ AttemptsOnDistinctReplicas'
      /\ \A p \in Requests \ {q} : Made(p)' = Made(p)
  BY <1>2, <1>3, FreshAttempt, "failover" \in Kinds DEF Kinds
<1>5. NoneOutside'
  BY <1>1, <1>4 DEF NoneOutside
<1>6. Launches'
  BY <1>1, LaunchedFinite, LaunchedGrows, Launched' = Launched DEF Launched, TypeOK, budgetVars
<1>7. Accounted'
  <2>1. calls'["hedge"] = calls["hedge"] /\ calls'["primary"] = calls["primary"]
    BY <1>2, CallsType, Kinds = {"primary", "hedge", "failover"} DEF Kinds, TypeOK
  <2>2. QED
    BY <1>1, <2>1 DEF Accounted, budgetVars
<1>8. QED
  BY <1>4, <1>5, <1>6, <1>7

LEMMA ReturnKeeps ==
    ASSUME IInv, NEW q \in Requests, NEW x, Return(q, x),
           UNCHANGED <<budgetVars, rr, calls>>, pc[q] = "running"
    PROVE  Launches' /\ NoneOutside' /\ Accounted' /\ AttemptsOnDistinctReplicas'
<1> USE DEF IInv
<1>1. Made(q)' = {} /\ \A p \in Requests \ {q} : Made(p)' = Made(p) /\ att'[p] = att[p]
  BY DEF Return, Made, TypeOK, NoAttempt
<1>2. Launches'
  <2>1. Launched' = Launched
    BY DEF Launched, Return, TypeOK
  <2>2. QED
    BY <2>1, LaunchedFinite, LaunchedGrows DEF TypeOK, budgetVars
<1>3. NoneOutside'
  BY <1>1 DEF NoneOutside, Return, TypeOK
<1>4. Accounted'
  BY DEF Accounted, budgetVars
<1>5. AttemptsOnDistinctReplicas'
  BY <1>1 DEF AttemptsOnDistinctReplicas
<1>6. QED
  BY <1>2, <1>3, <1>4, <1>5

LEMMA LoopKeeps ==
    ASSUME IInv, NEW q \in Requests, Loop(q)
    PROVE  Launches' /\ NoneOutside' /\ Accounted' /\ AttemptsOnDistinctReplicas'
<1> USE DEF sliceVars, serverVars, callerVars, loopVars, budgetVars
<1>1. ASSUME NEW k \in Kinds, TakeSuccess(q, k)
      PROVE  Launches' /\ NoneOutside' /\ Accounted' /\ AttemptsOnDistinctReplicas'
  BY <1>1, ReturnKeeps DEF TakeSuccess
<1>2. ASSUME NEW k \in Kinds, TakeFailure(q, k) PROVE Quiet
  <2>1. SameReplicas
    BY <1>2, StageKeepsReplicas, "seen" \in Stages \ {"none"}, "success" \in Results
       DEF TakeFailure, IInv, Stages, Results
  <2>2. QED
    BY <1>2, <2>1 DEF TakeFailure, Quiet
<1>3. CASE SkipHedge(q)
  BY <1>3, QuietStep DEF SkipHedge, Quiet, SameReplicas
<1>4. CASE GiveUp(q)
  BY <1>4, ReturnKeeps DEF GiveUp
<1>5. QED
  BY <1>1, <1>2, <1>3, <1>4, QuietStep, SendHedgeKeeps, FailoverKeeps DEF Loop

LEMMA BeginKeeps ==
    ASSUME IInv, NEW q \in Requests, Begin(q)
    PROVE  Launches' /\ NoneOutside' /\ Accounted' /\ AttemptsOnDistinctReplicas'
<1>1. CASE FailFast(q) \/ PassCheck(q)
  <2>1. Quiet
    BY <1>1 DEF FailFast, PassCheck, Quiet, SameReplicas, sliceVars, IInv, TypeOK
  <2>2. QED
    BY <2>1, QuietStep
<1>2. QED
  BY <1>1, SendPrimaryKeeps DEF Begin

LEMMA InitIInv == Init => IInv
<1> SUFFICES ASSUME Init PROVE IInv
  OBVIOUS
<1>1. TypeOK
  BY InitTypeOK
<1>2. \A q \in Requests : Made(q) = {}
  BY DEF Init, Made, NoAttempt
<1>3. NoneOutside /\ AttemptsOnDistinctReplicas
  BY <1>2 DEF NoneOutside, AttemptsOnDistinctReplicas
<1>4. Accounted
  BY ScaleAssumption, PerPrimaryAssumption DEF Init, BudgetInit, Accounted, Kinds
<1>5. Launches
  BY LaunchedFinite, FS_CardinalityType DEF Init, BudgetInit, Launches
<1>6. QED
  BY <1>1, <1>3, <1>4, <1>5 DEF IInv

LEMMA NextIInv == IInv /\ [Next]_vars => IInv'
<1> SUFFICES ASSUME IInv, [Next]_vars PROVE IInv'
  OBVIOUS
<1>1. TypeOK'
  BY NextTypeOK DEF IInv
<1>2. CASE \E q \in Requests, k \in Kinds : Call(q, k)
  BY <1>1, <1>2, CallQuiet, QuietStep DEF IInv
<1>3. CASE \E q \in Requests : Begin(q)
  BY <1>1, <1>3, BeginKeeps DEF IInv
<1>4. CASE \E q \in Requests : Loop(q)
  BY <1>1, <1>4, LoopKeeps DEF IInv
<1>5. CASE \/ \E q \in Requests : Clock(q)
           \/ StartRound
           \/ \E r \in Probed : Monitor(r)
           \/ \E r \in Replicas : Process(r)
  BY <1>1, <1>5, EnvironmentQuiet, QuietStep DEF IInv
<1>6. CASE UNCHANGED vars
  <2>1. Quiet
    BY <1>6 DEF Quiet, SameReplicas, vars, sliceVars, callerVars
  <2>2. QED
    BY <1>1, <2>1, QuietStep DEF IInv
<1>7. QED
  BY <1>2, <1>3, <1>4, <1>5, <1>6 DEF Next

\* The state of the fan-out has its types, for every number of requests and
\* replicas and every fault: no transition of SearchSliceAsync, of the monitor
\* or of a process leaves them, and every pick is a replica of the slice.
THEOREM TypeCorrect == Spec => []TypeOK
<1>1. Init => IInv
  BY InitIInv
<1>2. IInv /\ [Next]_vars => IInv'
  BY NextIInv
<1>3. IInv => TypeOK
  BY DEF IInv
<1>4. QED
  BY <1>1, <1>2, <1>3, PTL DEF Spec

\* The calls hedging really makes on a slice stay below the configured fraction
\* of its primary calls, for every number of concurrent requests.
THEOREM HedgeBound == Spec => []HedgeLoadBounded
<1>1. IInv => HedgeLoadBounded
  <2> SUFFICES ASSUME IInv PROVE HedgeLoadBounded
    OBVIOUS
  <2>1. hedges * Scale \in Int /\ primaries * PerPrimary \in Int
    BY ScaleAssumption, PerPrimaryAssumption DEF IInv, TypeOK
  <2>2. QED
    BY <2>1, CapAssumption DEF IInv, TypeOK, Accounted, HedgeLoadBounded
<1>2. QED
  BY <1>1, InitIInv, NextIInv, PTL DEF Spec

\* The primary, the hedge and the failover of a request go to different
\* replicas, whatever the marks say while they are picked.
THEOREM DistinctReplicas == Spec => []AttemptsOnDistinctReplicas
<1>1. IInv => AttemptsOnDistinctReplicas
  BY DEF IInv
<1>2. QED
  BY <1>1, InitIInv, NextIInv, PTL DEF Spec

-----------------------------------------------------------------------------
(* Nothing but a fault takes a replica out. *)

\* Every sign of trouble about a replica, from its process to the mark, comes
\* from a fault it had.
Blamed ==
    /\ \A r \in Replicas : health[r] = "unhealthy" => r \in faulted
    /\ \A r \in Replicas : server[r] # "up" => r \in faulted
    /\ \A r \in Probed : probe[r] = "failed" => r \in faulted
    /\ \A q \in Requests, k \in Kinds :
          /\ att[q][k].stage = "sent" => att[q][k].replica \in Replicas
          /\ att[q][k].stage = "refused" => att[q][k].replica \in faulted
    /\ NoFalseSliceDown

\* Steps that add no sign of trouble.
NoNewBlame ==
    /\ UNCHANGED <<health, probe, serverVars>>
    /\ \A q \in Requests, k \in Kinds :
          /\ att'[q][k].stage = "sent" => att'[q][k].replica \in Replicas
          /\ att'[q][k].stage = "refused" => att'[q][k] = att[q][k]
    /\ \A q \in Requests : outcome'[q] = "slice_down" => outcome[q] = "slice_down"

LEMMA NoNewBlameKeeps ==
    ASSUME Blamed, NoNewBlame PROVE Blamed'
  BY DEF Blamed, NoNewBlame, NoFalseSliceDown, serverVars

LEMMA MovedOnKeeps ==
    ASSUME TypeOK, Blamed, NEW q \in Requests, NEW k \in Kinds,
           NEW x \in {"complete", "seen"}, NEW y \in Results,
           \/ att' = [att EXCEPT ![q][k].stage = x]
           \/ att' = [att EXCEPT ![q][k].stage = x, ![q][k].result = y],
           UNCHANGED <<probe, serverVars, outcome>>,
           \/ UNCHANGED health
           \/ /\ att[q][k].stage = "refused"
              /\ health' = [health EXCEPT ![att[q][k].replica] = "unhealthy"]
    PROVE  Blamed'
<1>1. \A p \in Requests, j \in Kinds :
          att'[p][j].stage \in {"sent", "refused"} => att'[p][j] = att[p][j]
  <2>1. x \in Stages
    BY DEF Stages
  <2>2. /\ att'[q][k].stage = x
        /\ \A p \in Requests, j \in Kinds : <<p, j>> # <<q, k>> => att'[p][j] = att[p][j]
    BY <2>1, OnlyThisAttempt
  <2>3. QED
    BY <2>2
<1>2. \A r \in Replicas : health'[r] = "unhealthy" => r \in faulted
  BY DEF Blamed, TypeOK
<1>3. QED
  BY <1>1, <1>2 DEF Blamed, serverVars, NoFalseSliceDown

LEMMA CallBlamed ==
    ASSUME TypeOK, Blamed, NEW q \in Requests, NEW k \in Kinds, Call(q, k) PROVE Blamed'
<1> USE DEF callerVars
<1>1. Failures \cup {"success", "cancelled"} \subseteq Results
  BY DEF Results
<1>2. ASSUME NEW x \in Replies, Answer(q, k, x) PROVE Blamed'
  BY <1>1, <1>2, MovedOnKeeps DEF Answer, Replies, Complete, Failures
<1>3. CASE TimeOut(q, k)
  BY <1>1, <1>3, MovedOnKeeps DEF TimeOut, Complete, Failures
<1>4. CASE SeeRefused(q, k)
  BY <1>1, <1>4, MovedOnKeeps DEF SeeRefused, Complete, Failures
<1>5. CASE SeeCancelled(q, k)
  BY <1>1, <1>5, MovedOnKeeps DEF SeeCancelled, Complete
<1>6. CASE Refuse(q, k)
  <2>1. /\ att'[q][k].replica = att[q][k].replica
        /\ \A p \in Requests, j \in Kinds : <<p, j>> # <<q, k>> => att'[p][j] = att[p][j]
    BY <1>6, OnlyThisAttempt, "refused" \in Stages, "success" \in Results
       DEF Refuse, Stages, Results
  <2>2. att[q][k].replica \in faulted
    <3>1. att[q][k].stage = "sent" /\ server[att[q][k].replica] = "down"
      BY <1>6 DEF Refuse
    <3>2. QED
      BY <3>1 DEF Blamed
  <2>3. QED
    BY <1>6, <2>1, <2>2 DEF Blamed, Refuse, serverVars, NoFalseSliceDown
<1>7. CASE RefuseInjected(q, k)
  <2>1. /\ att'[q][k].replica = att[q][k].replica
        /\ \A p \in Requests, j \in Kinds : <<p, j>> # <<q, k>> => att'[p][j] = att[p][j]
    BY <1>7, OnlyThisAttempt, "refused" \in Stages, "success" \in Results
       DEF RefuseInjected, Stages, Results
  <2>2. /\ faulted \subseteq faulted' /\ faulted' \subseteq Replicas
        /\ att[q][k].replica \in faulted'
    BY <1>7 DEF RefuseInjected, TypeOK
  <2>3. UNCHANGED <<health, probe, server, outcome>>
    BY <1>7 DEF RefuseInjected
  <2>4. \A p \in Requests : outcome'[p] = "slice_down" => faulted' = Replicas
    BY <2>2, <2>3 DEF Blamed, NoFalseSliceDown
  <2>5. \A p \in Requests, j \in Kinds :
            /\ att'[p][j].stage = "sent" => att'[p][j].replica \in Replicas
            /\ att'[p][j].stage = "refused" => att'[p][j].replica \in faulted'
    <3> SUFFICES ASSUME NEW p \in Requests, NEW j \in Kinds
                 PROVE  /\ att'[p][j].stage = "sent" => att'[p][j].replica \in Replicas
                        /\ att'[p][j].stage = "refused" => att'[p][j].replica \in faulted'
      OBVIOUS
    <3>1. CASE <<p, j>> = <<q, k>>
      BY <2>1, <2>2, <3>1
    <3>2. CASE <<p, j>> # <<q, k>>
      BY <2>1, <2>2, <3>2 DEF Blamed
    <3>3. QED
      BY <3>1, <3>2
  <2>6. QED
    BY <2>2, <2>3, <2>4, <2>5 DEF Blamed, NoFalseSliceDown
<1>8. QED
  BY <1>2, <1>3, <1>4, <1>5, <1>6, <1>7 DEF Call

LEMMA ReturnBlamed ==
    ASSUME TypeOK, Blamed, NEW q \in Requests, NEW x \in Failures \cup {"success", "unknown"},
           Return(q, x), UNCHANGED <<health, probe, serverVars>>
    PROVE  Blamed'
<1>1. \A p \in Requests, k \in Kinds :
          att'[p][k] = att[p][k] \/ att'[p][k].stage = "none"
  BY DEF Return, TypeOK, NoAttempt
<1>2. \A p \in Requests : outcome'[p] = "slice_down" => outcome[p] = "slice_down"
  BY DEF Return, TypeOK, Failures
<1>3. NoNewBlame
  BY <1>1, <1>2 DEF NoNewBlame, Blamed
<1>4. QED
  BY <1>3, NoNewBlameKeeps

LEMMA StartBlamed ==
    ASSUME TypeOK, Blamed, NEW q \in Requests, NEW k \in Kinds, NEW r \in Replicas,
           Start(q, k, r), UNCHANGED <<health, probe, serverVars, outcome>>
    PROVE  Blamed'
<1>1. att' = [att EXCEPT ![q] = [att[q] EXCEPT ![k] =
                  IF expired[q]
                  THEN [stage |-> "complete", replica |-> r, result |-> "timeout"]
                  ELSE [stage |-> "sent", replica |-> r, result |-> "none"]]]
  BY Zenon DEF Start
<1>2. \A p \in Requests, j \in Kinds :
          \/ att'[p][j] = att[p][j]
          \/ att'[p][j].stage = "complete"
          \/ att'[p][j].stage = "sent" /\ att'[p][j].replica = r
  BY <1>1 DEF TypeOK
<1>3. NoNewBlame
  BY <1>2 DEF NoNewBlame, Blamed
<1>4. QED
  BY <1>3, NoNewBlameKeeps

LEMMA LoopBlamed ==
    ASSUME TypeOK, Blamed, NEW q \in Requests, Loop(q) PROVE Blamed'
<1> USE DEF callerVars
<1>1. ASSUME NEW k \in Kinds, TakeSuccess(q, k) PROVE Blamed'
  BY <1>1, ReturnBlamed DEF TakeSuccess
<1>2. ASSUME NEW k \in Kinds, TakeFailure(q, k) PROVE Blamed'
  BY <1>2, MovedOnKeeps, "success" \in Results DEF TakeFailure, Results
<1>3. CASE SendHedge(q)
  <2>1. PICK r \in HedgeTargets(q) : Start(q, "hedge", r)
    BY <1>3 DEF SendHedge
  <2>2. r \in Replicas
    BY PickAlternateType DEF HedgeTargets
  <2>3. QED
    BY <1>3, <2>1, <2>2, StartBlamed, "hedge" \in Kinds DEF SendHedge, Kinds
<1>4. CASE SkipHedge(q)
  BY <1>4, NoNewBlameKeeps DEF SkipHedge, NoNewBlame, Blamed
<1>5. CASE Failover(q)
  <2>1. PICK r \in FailoverTargets(q) : Start(q, "failover", r)
    BY <1>5 DEF Failover
  <2>2. r \in Replicas
    BY PickAlternateType DEF FailoverTargets
  <2>3. QED
    BY <1>5, <2>1, <2>2, StartBlamed, "failover" \in Kinds DEF Failover, Kinds
<1>6. CASE GiveUp(q)
  BY <1>6, ReturnBlamed DEF GiveUp, TypeOK
<1>7. QED
  BY <1>1, <1>2, <1>3, <1>4, <1>5, <1>6 DEF Loop

LEMMA BeginBlamed ==
    ASSUME IInv, Blamed, NEW q \in Requests, Begin(q) PROVE Blamed'
<1> USE DEF serverVars, IInv, TypeOK
<1>1. CASE FailFast(q)
  <2>1. faulted = Replicas
    BY <1>1 DEF FailFast, SliceDown, Blamed
  <2>2. QED
    BY <1>1, <2>1 DEF FailFast, Blamed, NoFalseSliceDown
<1>2. CASE PassCheck(q)
  BY <1>2 DEF PassCheck, Blamed, NoFalseSliceDown
<1>3. ASSUME NEW arm \in BOOLEAN, SendPrimary(q, arm) PROVE Blamed'
  <2>1. PickPrimary(NextStart(rr), health) \in Replicas
    BY <1>3, RoomLeft DEF SendPrimary
  <2>2. QED
    BY <1>3, <2>1, StartBlamed, "primary" \in Kinds DEF SendPrimary, Kinds
<1>4. QED
  BY <1>1, <1>2, <1>3 DEF Begin

LEMMA EnvironmentBlamed ==
    ASSUME TypeOK, Blamed,
           \/ \E q \in Requests : Clock(q)
           \/ StartRound
           \/ \E r \in Probed : Monitor(r)
           \/ \E r \in Replicas : Process(r)
    PROVE  Blamed'
<1> USE EnvironmentAssumption DEF serverVars, callerVars, TypeOK, Blamed, NoFalseSliceDown
<1>1. ASSUME NEW q \in Requests, Clock(q) PROVE Blamed'
  BY <1>1 DEF Clock, TimerFires, Expire, CallerCancels
<1>2. CASE StartRound
  BY <1>2 DEF StartRound
<1>3. ASSUME NEW r \in Probed, Monitor(r) PROVE Blamed'
  BY <1>3 DEF Monitor, ProbeAnswer, ProbeMark
<1>4. ASSUME NEW r \in Replicas, Crash(r) PROVE Blamed'
  <2>1. ASSUME NEW q \in Requests, NEW k \in Kinds
        PROVE  /\ att'[q][k].replica = att[q][k].replica
               /\ att'[q][k].stage = "sent" => att[q][k].stage = "sent"
               /\ att'[q][k].stage = "refused" =>
                     att[q][k].stage = "refused" \/ att[q][k].replica = r
    <3>1. att[q][k] \in Attempt
      OBVIOUS
    <3>2. /\ [att[q][k] EXCEPT !.stage = "refused"].stage = "refused"
          /\ [att[q][k] EXCEPT !.stage = "refused"].replica = att[q][k].replica
      BY <3>1 DEF Attempt
    <3>3. att'[q][k] = IF att[q][k].stage = "sent" /\ att[q][k].replica = r
                       THEN [att[q][k] EXCEPT !.stage = "refused"] ELSE att[q][k]
      BY <1>4 DEF Crash
    <3>4. QED
      BY <3>2, <3>3
  <2>2. QED
    BY <1>4, <2>1 DEF Crash
<1>5. ASSUME NEW r \in Replicas, Hang(r) \/ Recover(r) PROVE Blamed'
  <2>1. /\ faulted \subseteq faulted' /\ faulted' \subseteq Replicas
        /\ \A s \in Replicas : server'[s] # "up" => s \in faulted'
    BY <1>5 DEF Hang, Recover
  <2>2. UNCHANGED <<health, probe, att, outcome>>
    BY <1>5 DEF Hang, Recover
  <2>3. QED
    BY <2>1, <2>2
<1>6. QED
  BY <1>1, <1>2, <1>3, <1>4, <1>5 DEF Process

\* A slice is declared down only when each of its replicas has been down or hung
\* or has refused a call itself: a slow answer, another error, a deadline expired
\* at either end or a cancelled loser never takes a replica out, in any
\* interleaving with the monitor.
THEOREM NoFalseDown == Spec => []NoFalseSliceDown
<1>1. Init => Blamed
  BY EnvironmentAssumption DEF Init, Blamed, NoFalseSliceDown, NoAttempt
<1>2. IInv /\ Blamed /\ [Next]_vars => Blamed'
  <2> SUFFICES ASSUME IInv, Blamed, [Next]_vars PROVE Blamed'
    OBVIOUS
  <2>1. TypeOK
    BY DEF IInv
  <2>2. CASE Next
    BY <2>1, <2>2, BeginBlamed, CallBlamed, LoopBlamed, EnvironmentBlamed DEF Next
  <2>3. CASE UNCHANGED vars
    BY <2>3 DEF Blamed, NoFalseSliceDown, vars, serverVars, callerVars
  <2>4. QED
    BY <2>2, <2>3
<1>3. Blamed => NoFalseSliceDown
  BY DEF Blamed
<1>4. QED
  BY <1>1, <1>2, <1>3, InitIInv, NextIInv, PTL DEF Spec

-----------------------------------------------------------------------------
(* What a running request has done, and what its attempts have told it. *)

\* A result that was seen is a failure, and a timeout among them left a sample.
Heard(a, k, samples) ==
    /\ a.stage = "complete" => a.result \in Results
    /\ a.stage = "seen" =>
          /\ a.result \in Results \ {"success"}
          /\ a.result = "timeout" => k \in samples

Steady ==
    \A q \in Requests :
        /\ pc[q] = "running" => "primary" \in Made(q)
        /\ failedOver[q] => "failover" \in Made(q)
        /\ \A k \in Kinds : Heard(att[q][k], k, recorded[q])

\* Steps that neither start nor finish anything.
Calm ==
    /\ SameReplicas
    /\ UNCHANGED failedOver
    /\ \A q \in Requests :
          /\ pc'[q] = "running" => pc[q] = "running"
          /\ recorded[q] \subseteq recorded'[q]
          /\ \A k \in Kinds : \/ att'[q][k] = att[q][k]
                              \/ Heard(att'[q][k], k, recorded'[q])

LEMMA CalmKeeps == ASSUME Steady, Calm PROVE Steady'
<1> SUFFICES ASSUME NEW q \in Requests
             PROVE  /\ pc'[q] = "running" => "primary" \in Made(q)'
                    /\ failedOver'[q] => "failover" \in Made(q)'
                    /\ \A k \in Kinds : Heard(att'[q][k], k, recorded'[q])
  BY DEF Steady
<1>1. Made(q)' = Made(q)
  BY DEF Calm, SameReplicas, Made
<1>2. \A k \in Kinds : Heard(att[q][k], k, recorded'[q])
  BY DEF Steady, Heard, Calm
<1>3. QED
  BY <1>1, <1>2 DEF Steady, Calm

\* The result an attempt that moves on has then.
LEMMA ResultMoves ==
    ASSUME TypeOK, NEW q \in Requests, NEW k \in Kinds, NEW x, NEW y
    PROVE  /\ att' = [att EXCEPT ![q][k].stage = x] => att'[q][k].result = att[q][k].result
           /\ att' = [att EXCEPT ![q][k].stage = x, ![q][k].result = y] => att'[q][k].result = y
<1> DEFINE a == att[q][k]
           b == [a EXCEPT !.stage = x]
           c == [a EXCEPT !.stage = x, !.result = y]
<1>1. a \in Attempt /\ att \in [Requests -> [Kinds -> Attempt]]
  BY DEF TypeOK
<1>2. b.result = a.result /\ c.result = y
  BY <1>1 DEF Attempt
<1>3. ASSUME att' = [att EXCEPT ![q][k].stage = x] PROVE att'[q][k].result = a.result
  <2>1. att' = [att EXCEPT ![q] = [att[q] EXCEPT ![k] = b]]
    BY <1>3, Zenon DEF b, a
  <2> HIDE DEF b
  <2>2. QED
    BY <1>1, <1>2, <2>1
<1>4. ASSUME att' = [att EXCEPT ![q][k].stage = x, ![q][k].result = y]
      PROVE  att'[q][k].result = y
  <2>1. att' = [att EXCEPT ![q] = [att[q] EXCEPT ![k] = c]]
    BY <1>4, Zenon DEF c, a
  <2> HIDE DEF c
  <2>2. QED
    BY <1>1, <1>2, <2>1
<1>5. QED
  BY <1>3, <1>4

LEMMA CompletesCalmly ==
    ASSUME TypeOK, NEW q \in Requests, NEW k \in Kinds, NEW y \in Results,
           Complete(q, k, y), att[q][k].stage # "none",
           UNCHANGED <<failedOver, pc, recorded>>
    PROVE  Calm
<1>1. /\ SameReplicas
      /\ att'[q][k].stage = "complete"
      /\ \A p \in Requests, j \in Kinds : <<p, j>> # <<q, k>> => att'[p][j] = att[p][j]
  BY StageKeepsReplicas, OnlyThisAttempt, "complete" \in Stages DEF Complete, Stages
<1>2. att'[q][k].result = y
  BY ResultMoves DEF Complete
<1>3. QED
  BY <1>1, <1>2 DEF Calm, Heard

LEMMA CallCalm ==
    ASSUME TypeOK, NEW q \in Requests, NEW k \in Kinds, Call(q, k) PROVE Calm
<1> USE DEF sliceVars, serverVars, callerVars, loopVars
<1>1. Failures \cup {"success", "cancelled"} \subseteq Results
  BY DEF Results
<1>2. ASSUME NEW x \in Replies, Answer(q, k, x) PROVE Calm
  BY <1>1, <1>2, CompletesCalmly DEF Answer, Replies, Failures
<1>3. CASE TimeOut(q, k)
  BY <1>1, <1>3, CompletesCalmly DEF TimeOut, Failures
<1>4. CASE SeeRefused(q, k)
  BY <1>1, <1>4, CompletesCalmly DEF SeeRefused, Failures
<1>5. CASE SeeCancelled(q, k)
  BY <1>1, <1>5, CompletesCalmly DEF SeeCancelled
<1>6. CASE Refuse(q, k)
  <2>1. /\ SameReplicas
        /\ att'[q][k].stage = "refused"
        /\ \A p \in Requests, j \in Kinds : <<p, j>> # <<q, k>> => att'[p][j] = att[p][j]
    BY <1>6, StageKeepsReplicas, OnlyThisAttempt, "refused" \in Stages, "success" \in Results
       DEF Refuse, Stages, Results
  <2>2. QED
    BY <1>6, <2>1 DEF Refuse, Calm, Heard
<1>7. CASE RefuseInjected(q, k)
  <2>1. /\ SameReplicas
        /\ att'[q][k].stage = "refused"
        /\ \A p \in Requests, j \in Kinds : <<p, j>> # <<q, k>> => att'[p][j] = att[p][j]
    BY <1>7, StageKeepsReplicas, OnlyThisAttempt, "refused" \in Stages, "success" \in Results
       DEF RefuseInjected, Stages, Results
  <2>2. QED
    BY <1>7, <2>1 DEF RefuseInjected, Calm, Heard
<1>8. QED
  BY <1>2, <1>3, <1>4, <1>5, <1>6, <1>7 DEF Call

LEMMA EnvironmentCalm ==
    ASSUME TypeOK,
           \/ \E q \in Requests : Clock(q)
           \/ StartRound
           \/ \E r \in Probed : Monitor(r)
           \/ \E r \in Replicas : Process(r)
    PROVE  Calm
<1> USE DEF sliceVars, serverVars, callerVars, loopVars
<1>1. SameReplicas
  BY EnvironmentQuiet DEF Quiet
<1>2. ASSUME NEW q \in Requests, Clock(q) PROVE Calm
  BY <1>1, <1>2 DEF Clock, TimerFires, Expire, CallerCancels, Calm
<1>3. CASE StartRound
  BY <1>1, <1>3 DEF StartRound, Calm
<1>4. ASSUME NEW r \in Probed, Monitor(r) PROVE Calm
  BY <1>1, <1>4 DEF Monitor, ProbeAnswer, ProbeMark, Calm
<1>5. ASSUME NEW r \in Replicas, Crash(r) PROVE Calm
  <2>1. ASSUME NEW q \in Requests, NEW k \in Kinds
        PROVE  att'[q][k] = att[q][k] \/ att'[q][k].stage = "refused"
    <3>1. att[q][k] \in Attempt
      BY DEF TypeOK
    <3>2. [att[q][k] EXCEPT !.stage = "refused"].stage = "refused"
      BY <3>1 DEF Attempt
    <3>3. att'[q][k] = IF att[q][k].stage = "sent" /\ att[q][k].replica = r
                       THEN [att[q][k] EXCEPT !.stage = "refused"] ELSE att[q][k]
      BY <1>5 DEF Crash
    <3>4. QED
      BY <3>2, <3>3
  <2>2. QED
    BY <1>1, <1>5, <2>1 DEF Crash, Calm, Heard
<1>6. ASSUME NEW r \in Replicas, Hang(r) \/ Recover(r) PROVE Calm
  BY <1>1, <1>6 DEF Hang, Recover, Calm
<1>7. QED
  BY <1>2, <1>3, <1>4, <1>5, <1>6 DEF Process

\* A new attempt is made, and has told nothing but that no time was left.
LEMMA StartSteady ==
    ASSUME TypeOK, Steady, NEW q \in Requests, NEW k \in Kinds, NEW r,
           Start(q, k, r), UNCHANGED recorded,
           pc' = [pc EXCEPT ![q] = "running"],
           failedOver' = [failedOver EXCEPT ![q] = k = "failover"]
              \/ UNCHANGED failedOver,
           k = "primary" \/ pc[q] = "running"
    PROVE  Steady'
<1> DEFINE a == IF expired[q]
                THEN [stage |-> "complete", replica |-> r, result |-> "timeout"]
                ELSE [stage |-> "sent", replica |-> r, result |-> "none"]
<1>1. att' = [att EXCEPT ![q] = [att[q] EXCEPT ![k] = a]]
  BY Zenon DEF Start
<1>2. a.stage \in {"complete", "sent"} /\ Heard(a, k, recorded[q])
  BY DEF Heard, Results, Failures
<1> HIDE DEF a
<1>3. /\ att'[q][k] = a
      /\ \A p \in Requests, j \in Kinds : <<p, j>> # <<q, k>> => att'[p][j] = att[p][j]
  BY <1>1 DEF TypeOK
<1>4. /\ Made(q)' = Made(q) \cup {k}
      /\ \A p \in Requests \ {q} : Made(p)' = Made(p)
  BY <1>2, <1>3 DEF Made
<1>5. \A p \in Requests : failedOver'[p] => failedOver[p] \/ (p = q /\ k = "failover")
  BY DEF TypeOK
<1>6. \A p \in Requests : pc'[p] = "running" => pc[p] = "running" \/ (p = q /\ k = "primary")
  BY DEF TypeOK
<1>7. \A p \in Requests, j \in Kinds : Heard(att'[p][j], j, recorded'[p])
  BY <1>2, <1>3 DEF Steady
<1>8. QED
  BY <1>4, <1>5, <1>6, <1>7 DEF Steady

LEMMA ReturnSteady ==
    ASSUME TypeOK, Steady, NEW q \in Requests, NEW x, Return(q, x),
           \A p \in Requests \ {q} : recorded'[p] = recorded[p]
    PROVE  Steady'
<1>1. pc'[q] = "done" /\ failedOver'[q] = FALSE
  BY DEF Return, TypeOK
<1>2. \A p \in Requests \ {q} :
          att'[p] = att[p] /\ pc'[p] = pc[p] /\ failedOver'[p] = failedOver[p]
  BY DEF Return, TypeOK
<1>3. \A k \in Kinds : att'[q][k].stage = "none"
  BY DEF Return, TypeOK, NoAttempt
<1>4. \A p \in Requests \ {q} : Made(p)' = Made(p)
  BY <1>2 DEF Made
<1>5. \A p \in Requests, k \in Kinds : Heard(att'[p][k], k, recorded'[p])
  BY <1>2, <1>3 DEF Steady, Heard
<1>6. QED
  BY <1>1, <1>2, <1>4, <1>5 DEF Steady

LEMMA TakeFailureCalm ==
    ASSUME TypeOK, Steady, NEW q \in Requests, NEW k \in Kinds, TakeFailure(q, k)
    PROVE  Calm
<1>1. /\ SameReplicas
      /\ att'[q][k].stage = "seen"
      /\ \A p \in Requests, j \in Kinds : <<p, j>> # <<q, k>> => att'[p][j] = att[p][j]
  BY StageKeepsReplicas, OnlyThisAttempt, "seen" \in Stages, "success" \in Results
     DEF TakeFailure, Stages, Results
<1>2. att'[q][k].result = att[q][k].result
  BY ResultMoves DEF TakeFailure
<1>3. att[q][k].result \in Results \ {"success"}
  BY DEF Steady, Heard, TakeFailure
<1>4. /\ recorded[q] \subseteq recorded'[q]
      /\ \A p \in Requests \ {q} : recorded'[p] = recorded[p]
      /\ att[q][k].result = "timeout" => k \in recorded'[q]
  BY DEF TakeFailure, TypeOK
<1>5. QED
  BY <1>1, <1>2, <1>3, <1>4 DEF TakeFailure, Calm, Heard, callerVars

LEMMA LoopSteady ==
    ASSUME TypeOK, Steady, NEW q \in Requests, Loop(q) PROVE Steady'
<1> USE DEF callerVars, sliceVars
<1>1. ASSUME NEW k \in Kinds, TakeSuccess(q, k) PROVE Steady'
  <2>1. \A p \in Requests \ {q} : recorded'[p] = recorded[p]
    BY <1>1 DEF TakeSuccess, TypeOK
  <2>2. QED
    BY <1>1, <2>1, ReturnSteady DEF TakeSuccess
<1>2. ASSUME NEW k \in Kinds, TakeFailure(q, k) PROVE Steady'
  BY <1>2, TakeFailureCalm, CalmKeeps
<1>3. CASE SendHedge(q)
  <2>1. PICK r \in HedgeTargets(q) : Start(q, "hedge", r)
    BY <1>3 DEF SendHedge
  <2>2. pc[q] = "running" /\ pc' = [pc EXCEPT ![q] = "running"]
    BY <1>3 DEF SendHedge, TypeOK
  <2>3. QED
    BY <1>3, <2>1, <2>2, StartSteady, "hedge" \in Kinds DEF SendHedge, Kinds
<1>4. CASE SkipHedge(q)
  BY <1>4, CalmKeeps DEF SkipHedge, Calm, SameReplicas
<1>5. CASE Failover(q)
  <2>1. PICK r \in FailoverTargets(q) : Start(q, "failover", r)
    BY <1>5 DEF Failover
  <2>2. pc[q] = "running" /\ pc' = [pc EXCEPT ![q] = "running"]
    BY <1>5 DEF Failover, TypeOK
  <2>3. failedOver' = [failedOver EXCEPT ![q] = "failover" = "failover"]
    BY <1>5 DEF Failover
  <2>4. QED
    BY <1>5, <2>1, <2>2, <2>3, StartSteady, "failover" \in Kinds DEF Failover, Kinds
<1>6. CASE GiveUp(q)
  BY <1>6, ReturnSteady DEF GiveUp
<1>7. QED
  BY <1>1, <1>2, <1>3, <1>4, <1>5, <1>6 DEF Loop

LEMMA BeginSteady ==
    ASSUME TypeOK, Steady, NEW q \in Requests, Begin(q) PROVE Steady'
<1> USE DEF sliceVars, loopVars
<1>1. CASE FailFast(q) \/ PassCheck(q)
  <2>1. \A p \in Requests : pc'[p] = "running" => pc[p] = "running"
    BY <1>1 DEF FailFast, PassCheck, TypeOK
  <2>2. Calm
    BY <1>1, <2>1 DEF FailFast, PassCheck, Calm, SameReplicas
  <2>3. QED
    BY <2>2, CalmKeeps
<1>2. ASSUME NEW arm \in BOOLEAN, SendPrimary(q, arm) PROVE Steady'
  BY <1>2, StartSteady, "primary" \in Kinds DEF SendPrimary, Kinds
<1>3. QED
  BY <1>1, <1>2 DEF Begin

LEMMA SteadyKept == IInv /\ Steady /\ [Next]_vars => Steady'
<1> SUFFICES ASSUME IInv, Steady, [Next]_vars PROVE Steady'
  OBVIOUS
<1>1. TypeOK
  BY DEF IInv
<1>2. CASE Next
  BY <1>1, <1>2, BeginSteady, LoopSteady, CallCalm, EnvironmentCalm, CalmKeeps DEF Next
<1>3. CASE UNCHANGED vars
  <2>1. Calm
    BY <1>3 DEF Calm, SameReplicas, vars, sliceVars, callerVars, loopVars
  <2>2. QED
    BY <2>1, CalmKeeps
<1>4. QED
  BY <1>2, <1>3

LEMMA InitSteady == Init => Steady
  BY DEF Init, Steady, Made, Heard, NoAttempt

-----------------------------------------------------------------------------
(* How a request ends. *)

\* Only a request that returns gets an outcome from its calls.
LEMMA WhoReturns ==
    ASSUME TypeOK, [Next]_vars, NEW q \in Requests,
           outcome'[q] # outcome[q], outcome'[q] # "slice_down"
    PROVE  \/ GiveUp(q) /\ outcome'[q] \in {"unknown", lastFailure[q]}
           \/ \E k \in Kinds : TakeSuccess(q, k) /\ outcome'[q] = "success"
<1> USE DEF TypeOK, callerVars
<1>1. ASSUME NEW p \in Requests, Begin(p) PROVE FALSE
  BY <1>1 DEF Begin, FailFast, PassCheck, SendPrimary
<1>2. ASSUME NEW p \in Requests, NEW k \in Kinds, Call(p, k) PROVE FALSE
  BY <1>2 DEF Call, Answer, TimeOut, Refuse, RefuseInjected, SeeRefused, SeeCancelled
<1>3. CASE \/ \E p \in Requests : Clock(p)
           \/ StartRound
           \/ \E r \in Probed : Monitor(r)
           \/ \E r \in Replicas : Process(r)
  BY <1>3 DEF Clock, TimerFires, Expire, CallerCancels, StartRound, Monitor, ProbeAnswer,
              ProbeMark, Process, Crash, Hang, Recover
<1>4. ASSUME NEW p \in Requests, Loop(p)
      PROVE  \/ GiveUp(q) /\ outcome'[q] \in {"unknown", lastFailure[q]}
             \/ \E k \in Kinds : TakeSuccess(q, k) /\ outcome'[q] = "success"
  <2>1. CASE GiveUp(p)
    <3>1. p = q /\ outcome'[q] \in {"unknown", lastFailure[q]}
      BY <2>1 DEF GiveUp, Return
    <3>2. QED
      BY <2>1, <3>1
  <2>2. ASSUME NEW k \in Kinds, TakeSuccess(p, k)
        PROVE  TakeSuccess(q, k) /\ outcome'[q] = "success"
    <3>1. p = q /\ outcome'[q] = "success"
      BY <2>2 DEF TakeSuccess, Return
    <3>2. QED
      BY <2>2, <3>1
  <2>3. CASE SendHedge(p) \/ SkipHedge(p) \/ Failover(p) \/ \E k \in Kinds : TakeFailure(p, k)
    BY <2>3 DEF SendHedge, SkipHedge, Failover, TakeFailure
  <2>4. QED
    BY <1>4, <2>1, <2>2, <2>3 DEF Loop
<1>5. CASE UNCHANGED vars
  BY <1>5 DEF vars
<1>6. QED
  BY <1>1, <1>2, <1>3, <1>4, <1>5 DEF Next

\* An alternate is found as long as one replica has not been tried.
LEMMA AlternateExists ==
    ASSUME NEW X, NEW h, PickAlternate(X, h) = {} PROVE Replicas \subseteq X
<1> DEFINE Rest      == Replicas \ X
           Preferred == {r \in Rest : h[r] # "unhealthy"}
           Pool      == IF Preferred # {} THEN Preferred ELSE Rest
<1>1. Pool \in SUBSET Nat
  BY DEF Replicas
<1>2. {r \in Pool : \A s \in Pool : r <= s} = {}
  BY DEF PickAlternate
<1>3. Pool = {}
  <2> HIDE DEF Pool
  <2>1. QED
    BY <1>1, <1>2, LeastElement
<1>4. QED
  BY <1>3

LEMMA TwoMembers ==
    ASSUME NEW S, IsFiniteSet(S), NEW x \in S, NEW y \in S, x # y
    PROVE  Cardinality(S) >= 2
<1>1. IsFiniteSet({x, y}) /\ Cardinality({x, y}) = 2
  <2>1. /\ IsFiniteSet({x}) /\ Cardinality({x}) = 1 /\ y \notin {x}
        /\ {x} \cup {y} = {x, y}
    BY FS_Singleton
  <2>2. /\ IsFiniteSet({x} \cup {y})
        /\ Cardinality({x} \cup {y}) = Cardinality({x}) + 1
    BY <2>1, FS_AddElement
  <2>3. QED
    BY <2>1, <2>2
<1>2. Cardinality({x, y}) <= Cardinality(S)
  BY <1>1, FS_Subset, {x, y} \subseteq S
<1>3. QED
  BY <1>1, <1>2, FS_CardinalityType

LEMMA TriedFinite == \A q \in Requests : IsFiniteSet(Tried(q))
<1> SUFFICES ASSUME NEW q \in Requests PROVE IsFiniteSet(Tried(q))
  OBVIOUS
<1> DEFINE R(k) == att[q][k].replica
<1>1. IsFiniteSet({R("primary")})
  BY FS_Singleton
<1>2. IsFiniteSet({R("primary")} \cup {R("hedge")})
  BY <1>1, FS_AddElement
<1>3. IsFiniteSet({R("primary")} \cup {R("hedge")} \cup {R("failover")})
  BY <1>2, FS_AddElement
<1>4. Tried(q) \subseteq {R("primary")} \cup {R("hedge")} \cup {R("failover")}
  BY DEF Tried, Made, Kinds
<1>5. QED
  BY <1>3, <1>4, FS_Subset

\* Before its deadline a request reports an unavailable or failing slice only
\* when two of its replicas failed it: either its one failover went out, to
\* another replica than its primary, or no replica was left to try.
THEOREM TwoReplicasFail == Spec => OneReplicaCannotFailASlice
<1> DEFINE A == (N >= 2 /\ FailoverOnError) =>
                  \A q \in Requests :
                    /\ outcome[q] = "none" /\ outcome'[q] \in {"unavailable", "error"}
                    /\ ~expired[q]
                    => Cardinality(Tried(q)) >= 2
<1>1. IInv /\ Steady /\ [Next]_vars => A
  <2> SUFFICES ASSUME IInv, Steady, [Next]_vars, N >= 2, FailoverOnError, NEW q \in Requests,
                      outcome[q] = "none", outcome'[q] \in {"unavailable", "error"}, ~expired[q]
               PROVE  Cardinality(Tried(q)) >= 2
    OBVIOUS
  <2>1. GiveUp(q) /\ lastFailure[q] \in {"unavailable", "error"}
    BY WhoReturns DEF IInv
  <2>2. CASE failedOver[q]
    <3>1. "primary" \in Made(q) /\ "failover" \in Made(q)
      BY <2>1, <2>2 DEF Steady, GiveUp
    <3>2. att[q]["primary"].replica # att[q]["failover"].replica
      BY <3>1 DEF IInv, AttemptsOnDistinctReplicas
    <3>3. QED
      BY <3>1, <3>2, TriedFinite, TwoMembers DEF Tried
  <2>3. CASE ~failedOver[q]
    <3>1. PickAlternate(Tried(q), health) = {}
      BY <2>1, <2>3 DEF GiveUp, FailoverTargets
    <3>2. 0 \in Tried(q) /\ 1 \in Tried(q)
      BY <3>1, AlternateExists, ReplicaAssumption DEF Replicas
    <3>3. QED
      BY <3>2, TriedFinite, TwoMembers
  <2>4. QED
    BY <2>2, <2>3
<1>2. QED
  BY <1>1, InitIInv, NextIInv, InitSteady, SteadyKept, PTL DEF Spec, OneReplicaCannotFailASlice

\* A request that succeeds leaves a latency sample of its primary behind
\* unless that primary failed fast or was cancelled: one that answered is
\* recorded, one still out is recorded as a loser, and one whose timeout was
\* seen was recorded then.
THEOREM SlowOnesLeaveSamples == Spec => SlowPrimariesRecorded
<1> DEFINE A == \A q \in Requests :
                   /\ outcome[q] = "none" /\ outcome'[q] = "success"
                   /\ att[q]["primary"].result \notin {"unavailable", "error", "cancelled"}
                   => "primary" \in recorded'[q]
<1>1. IInv /\ Steady /\ [Next]_vars => A
  <2> SUFFICES ASSUME IInv, Steady, [Next]_vars, NEW q \in Requests,
                      outcome[q] = "none", outcome'[q] = "success",
                      att[q]["primary"].result \notin {"unavailable", "error", "cancelled"}
               PROVE  "primary" \in recorded'[q]
    OBVIOUS
  <2>1. lastFailure[q] # "success"
    BY DEF IInv, TypeOK, Failures
  <2>2. PICK k \in Kinds : TakeSuccess(q, k)
    BY <2>1, WhoReturns DEF IInv
  <2>3. "primary" \in Kinds /\ "primary" \in Made(q)
    BY <2>2 DEF TakeSuccess, Steady, Kinds
  <2>4. recorded'[q] = recorded[q] \cup {k} \cup (Pending(q) \cap {"primary"})
    BY <2>2 DEF TakeSuccess, IInv, TypeOK
  <2>5. att[q]["primary"] \in Attempt
    BY <2>3 DEF IInv, TypeOK
  <2>6. CASE att[q]["primary"].stage = "seen"
    <3>1. att[q]["primary"].result = "timeout" /\ "primary" \in recorded[q]
      BY <2>3, <2>6 DEF Steady, Heard, Results, Failures
    <3>2. QED
      BY <2>4, <3>1
  <2>7. CASE att[q]["primary"].stage # "seen"
    <3>1. "primary" \in Pending(q)
      BY <2>3, <2>5, <2>7 DEF Made, Pending, Attempt, Stages
    <3>2. QED
      BY <2>4, <3>1
  <2>8. QED
    BY <2>6, <2>7
<1>2. QED
  BY <1>1, InitIInv, NextIInv, InitSteady, SteadyKept, PTL DEF Spec, SlowPrimariesRecorded
-----------------------------------------------------------------------------
(* A shard and its time budget. *)

Says == Faults \cup {NoFaults}
HalfStates == {"off", "due", "running", "done", "thrown"}
ServerTypes ==
    /\ ticks \in Nat /\ writes \in Nat /\ served \in Nat
    /\ control \in [says : Says, version : Nat]
    /\ said \in [0 .. Recheck -> SUBSET Says]
    /\ chaos \in [says : Says, version : Nat \cup {-1}, checked : Nat]
    /\ parallel \in BOOLEAN /\ call \in ShardCalls \cup {NoCall}
    /\ serving \in {"free", "held", "delayed", "searching"}
    /\ began \in Nat /\ budget \in Nat /\ wakes \in Nat /\ left \in Nat
    /\ half \in [Halves -> [state : HalfStates, at : Nat, cut : BOOLEAN]]

\* What Chaos read, and where among the last ticks it read it: a version is
\* given once, so the file it has read is the same as long as its version is.
ChaosInv ==
    /\ control.version <= writes /\ chaos.version <= writes /\ chaos.checked <= ticks
    /\ control.version = Missing => control.says = NoFaults
    /\ chaos.version = Missing => chaos.says = NoFaults
    /\ control.version = chaos.version => control.says = chaos.says
    /\ control.says \in said[0]
    /\ chaos.version # -1 /\ ticks - chaos.checked <= Recheck =>
          chaos.says \in said[ticks - chaos.checked]

\* A call sleeps first, and what is left afterwards goes to its halves.
CallInv ==
    /\ budget = effective_budget(call)
    /\ serving # "free" => began <= ticks /\ began <= wakes
    /\ serving \in {"held", "delayed"} => ticks <= wakes
    /\ serving = "searching" => wakes <= ticks /\ left = remaining_us(wakes - began)
    /\ serving # "free" /\ ticks = began => chaos.says \in UNION {said[i] : i \in 0 .. Recheck}

\* A half is under the budget of its call, and cut only when that is used up.
HalfInv ==
    /\ serving # "searching" => \A h \in Halves : half[h] = NoHalf
    /\ serving = "searching" => /\ half["lexical"].state = "off" <=> ~call.lexical
                                /\ half["vector"].state = "off" <=> ~call.vector
    /\ \A h \in Halves : half[h].at > 0 => budget > 0 /\ half[h].at >= began + budget
    /\ \A h \in Halves : half[h].cut => half[h].at > 0 /\ ticks >= half[h].at

\* Where a half in its turn starts: when the other one has used up its time.
InTurn == ~parallel /\ call.lexical /\ call.vector
Turn == IF InTurn THEN left + Granule ELSE 0
Late == wakes + Turn + left + Granule
LateInv ==
    serving = "searching" /\ budget > 0 =>
        /\ half["lexical"].state = "due" => ticks = wakes
        /\ half["lexical"].state = "running" => half["lexical"].at = wakes + left /\ ticks <= wakes + left + Granule
        /\ half["vector"].state = "due" => ticks <= wakes + Turn
        /\ half["vector"].state = "running" => /\ 0 < half["vector"].at /\ half["vector"].at <= wakes + Turn + left
                                               /\ ticks <= half["vector"].at + Granule
        /\ ticks <= Late

Partial == reply.status # "none" /\ reply.partial =>
               LET b == effective_budget(reply.call) IN b > 0 /\ reply.took >= b

ServerInv == ServerTypes /\ ChaosInv /\ CallInv /\ HalfInv /\ LateInv /\ Partial

\* A call that has a limit has a positive one.
LEMMA BudgetIsATime ==
    ASSUME NEW c \in ShardCalls \cup {NoCall}
    PROVE  effective_budget(c) \in Nat
<1>1. \A a, b \in Int : Max({a, b}) \in {a, b} /\ Max({a, b}) >= b
  <2>1. ASSUME NEW a \in Int, NEW b \in Int PROVE \E x \in {a, b} : \A y \in {a, b} : x >= y
    BY <2>1
  <2>2. QED
    BY <2>1 DEF Max
<1>2. \A a, b \in Nat : Min({a, b}) \in {a, b}
  <2>1. ASSUME NEW a \in Nat, NEW b \in Nat PROVE \E x \in {a, b} : \A y \in {a, b} : x =< y
    BY <2>1
  <2>2. QED
    BY <2>1 DEF Min
<1>3. c.budget \in Nat /\ c.deadline \in Int
  BY ServerAssumption DEF NoCall, NoDeadline
<1>4. Max({c.deadline, 1}) \in Nat
  <2>1. 1 \in Int /\ Max({c.deadline, 1}) \in {c.deadline, 1} /\ Max({c.deadline, 1}) >= 1
    BY <1>1, <1>3
  <2>2. QED
    BY <1>3, <2>1
<1>5. QED
  BY <1>2, <1>3, <1>4 DEF effective_budget

LEMMA ServerInitIInv == ServerInit => ServerInv
<1> SUFFICES ASSUME ServerInit PROVE ServerInv
  OBVIOUS
<1> USE DEF ServerInit
<1>1. effective_budget(NoCall) = 0
  BY DEF effective_budget, NoCall, NoDeadline
<1>2. ServerTypes
  BY ServerAssumption DEF ServerTypes, Says, HalfStates, NoHalf, Missing
<1>3. ChaosInv
  BY ServerAssumption DEF ChaosInv, Missing
<1>4. CallInv /\ HalfInv /\ LateInv /\ Partial
  BY <1>1 DEF CallInv, HalfInv, LateInv, Partial, NoHalf, NoReply, NoCall
<1>5. QED
  BY <1>2, <1>3, <1>4 DEF ServerInv

\* What Chaos answers: it is no older than Recheck.
LEMMA SettingsAreRecent ==
    ASSUME ServerTypes, ChaosInv
    PROVE  /\ Settings \in [says : Says, version : Nat \cup {-1}, checked : Nat]
           /\ Settings.version <= writes /\ Settings.checked <= ticks
           /\ Settings.version = Missing => Settings.says = NoFaults
           /\ control.version = Settings.version => control.says = Settings.says
           /\ Settings.says \in UNION {said[i] : i \in 0 .. Recheck}
           /\ Settings.version # -1 /\ ticks - Settings.checked <= Recheck =>
                 Settings.says \in said[ticks - Settings.checked]
<1> USE DEF ServerTypes, ChaosInv
<1>0. 0 \in 0 .. Recheck /\ ticks - ticks = 0
  BY ServerAssumption
<1>1. CASE chaos.version # -1 /\ ticks - chaos.checked < Recheck
  <2>1. Settings = chaos /\ ticks - chaos.checked \in 0 .. Recheck
    BY <1>1, ServerAssumption DEF Settings
  <2>2. QED
    BY <1>1, <2>1, ServerAssumption
<1>2. CASE ~(chaos.version # -1 /\ ticks - chaos.checked < Recheck) /\ control.version = chaos.version
  <2>1. Settings = [says |-> chaos.says, version |-> chaos.version, checked |-> ticks]
    BY <1>2 DEF Settings
  <2>2. chaos.says = control.says
    BY <1>2
  <2>3. QED
    BY <1>0, <1>2, <2>1, <2>2
<1>3. CASE ~(chaos.version # -1 /\ ticks - chaos.checked < Recheck) /\ control.version # chaos.version
  <2>1. Settings = [says |-> control.says, version |-> control.version, checked |-> ticks]
    BY <1>3 DEF Settings
  <2>2. QED
    BY <1>0, <1>3, <2>1
<1>4. QED
  BY <1>1, <1>2, <1>3

LEMMA WriteControlKeeps ==
    ASSUME ServerInv, NEW says \in Faults, WriteControl(says)
    PROVE  ServerInv'
<1> USE DEF ServerInv, WriteControl, callVars
<1>1. said' = [said EXCEPT ![0] = @ \cup {says}] /\ 0 \in 0 .. Recheck /\ says \in Says
  BY ServerAssumption DEF Says
<1>2. \A i \in 0 .. Recheck : said[i] \subseteq said'[i]
  BY <1>1 DEF ServerTypes
<1>3. control' \in [says : Says, version : Nat] /\ control'.says = says
  BY <1>1 DEF ServerTypes, Missing
<1>4. ServerTypes'
  BY <1>1, <1>3, SMTT(30) DEF ServerTypes
<1>5. ChaosInv'
  <2>1. chaos'.version # -1 /\ ticks' - chaos'.checked <= Recheck => chaos'.says \in said'[ticks' - chaos'.checked]
    BY <1>2, ServerAssumption DEF ServerTypes, ChaosInv
  <2>2. control'.says \in said'[0]
    BY <1>1, <1>3 DEF ServerTypes
  <2>3. QED
    BY <1>3, <2>1, <2>2 DEF ServerTypes, ChaosInv, Missing
<1>6. CallInv'
  <2>1. chaos.says \in UNION {said[i] : i \in 0 .. Recheck} => chaos.says \in UNION {said'[i] : i \in 0 .. Recheck}
    BY <1>2
  <2>2. QED
    BY <2>1 DEF CallInv, remaining_us
<1>7. HalfInv' /\ LateInv' /\ Partial'
  BY DEF HalfInv, LateInv, Partial, Turn, Late, InTurn
<1>8. QED
  BY <1>4, <1>5, <1>6, <1>7

LEMMA ArriveKeeps ==
    ASSUME ServerInv, NEW c \in ShardCalls, Arrive(c)
    PROVE  ServerInv'
<1> USE DEF ServerInv, Arrive
<1>1. effective_budget(c) \in Nat
  BY BudgetIsATime
<1>2. /\ Settings \in [says : Says, version : Nat \cup {-1}, checked : Nat]
      /\ Settings.version <= writes /\ Settings.checked <= ticks
      /\ Settings.version = Missing => Settings.says = NoFaults
      /\ control.version = Settings.version => control.says = Settings.says
      /\ Settings.says \in UNION {said[i] : i \in 0 .. Recheck}
      /\ Settings.version # -1 /\ ticks - Settings.checked <= Recheck =>
            Settings.says \in said[ticks - Settings.checked]
  BY SettingsAreRecent
<1>3. Settings.says.delay \in Nat
  <2>1. Settings.says \in Faults \/ Settings.says = NoFaults
    BY ONLY <1>2 DEF Says
  <2>2. \A says \in Faults : says.delay \in Nat
    BY ONLY ServerAssumption
  <2>3. NoFaults.delay = 0
    BY DEF NoFaults
  <2>4. QED
    BY ONLY <2>1, <2>2, <2>3
<1>4. /\ call' = c /\ began' = ticks /\ budget' = effective_budget(c) /\ ticks' = ticks
      /\ serving' \in {"held", "delayed"} /\ wakes' \in Nat /\ ticks <= wakes'
  BY <1>1, <1>3, ServerAssumption DEF ServerTypes
<1>5. ServerTypes'
  BY <1>1, <1>2, <1>4 DEF ServerTypes
<1>6. ChaosInv'
  BY <1>2 DEF ChaosInv
<1>7. CallInv'
  BY <1>2, <1>4 DEF CallInv, ServerTypes
<1>8. HalfInv' /\ LateInv' /\ Partial'
  BY <1>4 DEF HalfInv, LateInv, Partial, NoReply, NoHalf
<1>9. QED
  BY <1>5, <1>6, <1>7, <1>8

LEMMA ReplyKeeps ==
    ASSUME ServerInv, NEW status, NEW cut \in BOOLEAN, Reply(status, cut),
           cut => budget > 0 /\ ticks - began >= budget
    PROVE  ServerInv'
<1> USE DEF ServerInv, Reply, chaosVars
<1>1. effective_budget(NoCall) = 0
  BY DEF effective_budget, NoCall, NoDeadline
<1>2. half' = [h \in Halves |-> NoHalf] /\ serving' = "free" /\ call' = NoCall /\ budget' = 0
  OBVIOUS
<1>3. ServerTypes'
  BY <1>2 DEF ServerTypes, NoHalf, HalfStates
<1>4. ChaosInv'
  BY DEF ChaosInv
<1>5. CallInv' /\ HalfInv' /\ LateInv'
  BY <1>1, <1>2 DEF CallInv, HalfInv, LateInv, NoHalf
<1>6. Partial'
  <2>1. /\ reply' = [status |-> status, partial |-> cut, call |-> call, took |-> ticks - began]
        /\ budget = effective_budget(call)
    BY DEF CallInv
  <2>2. QED
    BY <2>1 DEF Partial
<1>7. QED
  BY <1>3, <1>4, <1>5, <1>6

LEMMA MeasureKeeps ==
    ASSUME ServerInv, Measure
    PROVE  ServerInv'
<1> USE DEF ServerInv, Measure
<1>1. /\ ticks = wakes /\ ticks \in Nat /\ began \in Nat /\ began <= ticks /\ budget \in Nat
      /\ left' = remaining_us(ticks - began) /\ serving' = "searching" /\ wakes' = wakes
      /\ budget' = budget /\ call' = call /\ began' = began /\ ticks' = ticks /\ parallel' = parallel
  BY DEF CallInv, ServerTypes, callVars
<1>2. left' \in Nat
  BY <1>1 DEF remaining_us
<1>3. /\ half'["lexical"] = [state |-> IF call.lexical THEN "due" ELSE "off", at |-> 0, cut |-> FALSE]
      /\ half'["vector"] = [state |-> IF call.vector THEN "due" ELSE "off", at |-> 0, cut |-> FALSE]
  BY DEF NoHalf
<1>4. half' \in [Halves -> [state : HalfStates, at : Nat, cut : BOOLEAN]]
  <2>1. half' = [h \in Halves |-> IF h = "lexical" THEN half'["lexical"] ELSE half'["vector"]]
    BY DEF Halves
  <2>2. \A state \in HalfStates : [state |-> state, at |-> 0, cut |-> FALSE] \in [state : HalfStates, at : Nat, cut : BOOLEAN]
    OBVIOUS
  <2>3. \A h \in Halves : half'[h] \in [state : HalfStates, at : Nat, cut : BOOLEAN]
    BY ONLY <1>3, <2>2 DEF HalfStates, Halves
  <2>4. QED
    BY <2>1, <2>3
<1>5. ServerTypes'
  BY <1>1, <1>2, <1>4 DEF ServerTypes, chaosVars, callVars
<1>6. ChaosInv'
  BY DEF ChaosInv, chaosVars
<1>7. CallInv'
  BY <1>1 DEF CallInv, chaosVars, remaining_us
<1>8. HalfInv'
  BY <1>1, <1>3 DEF HalfInv, Halves
<1>9. LateInv'
  <2>1. Turn' \in Nat /\ Granule \in Nat
    BY <1>2, ServerAssumption DEF Turn
  <2>2. \A h \in Halves : half'[h].state \in {"due", "off"}
    BY <1>3 DEF Halves
  <2>3. Late' = wakes + Turn' + left' + Granule /\ wakes \in Nat
    BY <1>1 DEF Late, ServerTypes
  <2>4. QED
    BY <1>1, <1>2, <2>1, <2>2, <2>3 DEF LateInv, Halves
<1>10. Partial'
  BY DEF Partial
<1>11. QED
  BY <1>5, <1>6, <1>7, <1>8, <1>9, <1>10

\* A half that starts is given what is left, which is what the call has.
LEMMA StartHalfKeeps ==
    ASSUME ServerInv, NEW h \in Halves, StartHalf(h)
    PROVE  ServerInv'
<1> DEFINE other == IF h = "lexical" THEN "vector" ELSE "lexical"
<1>1. /\ half[h].state = "due" /\ (h = "vector" => parallel \/ ~Underway("lexical"))
      /\ half'[h] = [state |-> "running", cut |-> FALSE, at |-> IF left = 0 THEN 0 ELSE ticks + left]
      /\ half'[other] = half[other] /\ other \in Halves /\ other # h
      /\ half' \in [Halves -> [state : HalfStates, at : Nat, cut : BOOLEAN]]
  BY DEF StartHalf, Starts, ServerInv, ServerTypes, Halves, HalfStates
<1>2. /\ UNCHANGED <<ticks, control, writes, said, chaos, parallel, call, began, budget, serving, wakes, left, served, reply>>
      /\ ticks \in Nat /\ began \in Nat /\ budget \in Nat /\ wakes \in Nat /\ left \in Nat
  BY DEF StartHalf, chaosVars, callVars, ServerInv, ServerTypes
<1>3. /\ serving = "searching" /\ began <= wakes /\ wakes <= ticks
      /\ left = remaining_us(wakes - began)
  BY <1>1 DEF ServerInv, CallInv, HalfInv, NoHalf, ServerTypes
<1>4. left > 0 => budget > 0 /\ ticks + left >= began + budget
  BY <1>2, <1>3 DEF remaining_us
<1>5. ServerTypes' /\ ChaosInv' /\ CallInv' /\ Partial'
  BY <1>1, <1>2 DEF ServerInv, ServerTypes, ChaosInv, CallInv, Partial, remaining_us
<1>6. HalfInv'
  <2>1. half'["lexical"].state = "off" <=> half["lexical"].state = "off"
    BY <1>1 DEF Halves
  <2>2. half'["vector"].state = "off" <=> half["vector"].state = "off"
    BY <1>1 DEF Halves
  <2>3. ASSUME NEW g \in Halves
        PROVE  /\ half'[g].at > 0 => budget > 0 /\ half'[g].at >= began + budget
               /\ half'[g].cut => half'[g].at > 0 /\ ticks >= half'[g].at
    <3>1. CASE g = h
      BY <1>1, <1>2, <1>4, <3>1
    <3>2. CASE g # h
      BY <1>1, <3>2 DEF ServerInv, HalfInv, Halves
    <3>3. QED
      BY <3>1, <3>2
  <2>4. QED
    BY <1>2, <1>3, <2>1, <2>2, <2>3 DEF ServerInv, HalfInv
<1>7. LateInv'
  <2>1. Turn \in Nat /\ Turn' = Turn /\ Late' = Late /\ Granule \in Nat
    BY <1>2, ServerAssumption DEF Turn, Late, InTurn
  <2>2. SUFFICES ASSUME budget > 0 PROVE LateInv'
    BY <1>2 DEF LateInv
  <2>3. left > 0
    BY <1>2, <1>3, <2>2 DEF remaining_us
  <2>4. CASE h = "lexical"
    BY <1>1, <1>2, <1>3, <2>1, <2>2, <2>3, <2>4 DEF LateInv, ServerInv, Late
  <2>5. CASE h = "vector"
    BY <1>1, <1>2, <1>3, <2>1, <2>2, <2>3, <2>5 DEF LateInv, ServerInv, Late
  <2>6. QED
    BY <2>4, <2>5 DEF Halves
<1>8. QED
  BY <1>5, <1>6, <1>7 DEF ServerInv

LEMMA EndHalfKeeps ==
    ASSUME ServerInv, NEW h \in Halves, NEW to \in {"done", "thrown"}, NEW cut \in BOOLEAN, EndHalf(h, to, cut)
    PROVE  ServerInv'
<1> DEFINE other == IF h = "lexical" THEN "vector" ELSE "lexical"
<1>1. /\ half[h].state = "running" /\ (cut => half[h].at > 0 /\ ticks >= half[h].at)
      /\ half'[h].state = to /\ half'[h].at = half[h].at /\ half'[h].cut = cut
      /\ half'[other] = half[other] /\ other \in Halves /\ other # h
      /\ half' \in [Halves -> [state : HalfStates, at : Nat, cut : BOOLEAN]]
  BY DEF EndHalf, ServerInv, ServerTypes, Halves, HalfStates
<1>2. UNCHANGED <<ticks, control, writes, said, chaos, parallel, call, began, budget, serving, wakes, left, served, reply>>
  BY DEF EndHalf, chaosVars, callVars
<1>3. ServerTypes' /\ ChaosInv' /\ CallInv' /\ Partial'
  BY <1>1, <1>2 DEF ServerInv, ServerTypes, ChaosInv, CallInv, Partial, remaining_us
<1>4. serving = "searching"
  BY <1>1 DEF ServerInv, HalfInv, NoHalf
<1>5. HalfInv'
  <2>1. /\ half'["lexical"].state = "off" <=> half["lexical"].state = "off"
        /\ half'["vector"].state = "off" <=> half["vector"].state = "off"
    BY <1>1 DEF Halves
  <2>2. ASSUME NEW g \in Halves
        PROVE  /\ half'[g].at > 0 => budget > 0 /\ half'[g].at >= began + budget
               /\ half'[g].cut => half'[g].at > 0 /\ ticks >= half'[g].at
    <3>1. CASE g = h
      BY <1>1, <3>1 DEF ServerInv, HalfInv
    <3>2. CASE g # h
      BY <1>1, <3>2 DEF ServerInv, HalfInv, Halves
    <3>3. QED
      BY <3>1, <3>2
  <2>3. QED
    BY <1>2, <1>4, <2>1, <2>2 DEF ServerInv, HalfInv
<1>6. LateInv'
  <2>1. Turn' = Turn /\ Late' = Late
    BY <1>2 DEF Turn, Late, InTurn
  <2>2. half'[h].state \notin {"due", "running"}
    BY <1>1
  <2>3. QED
    BY <1>1, <1>2, <2>1, <2>2 DEF LateInv, ServerInv, Halves
<1>7. QED
  BY <1>3, <1>5, <1>6 DEF ServerInv

LEMMA EndSearchKeeps ==
    ASSUME ServerInv, EndSearch
    PROVE  ServerInv'
<1> DEFINE cut == \E h \in Halves : half[h].cut
<1>1. CASE half["vector"].state = "thrown"
  BY <1>1, ReplyKeeps DEF EndSearch
<1>2. CASE half["vector"].state # "thrown"
  <2>1. Reply("ok", cut) /\ cut \in BOOLEAN
    BY <1>2 DEF EndSearch
  <2>2. cut => budget > 0 /\ ticks - began >= budget
    <3>1. ASSUME NEW h \in Halves, half[h].cut PROVE budget > 0 /\ ticks - began >= budget
      <4>1. /\ half[h].at > 0 /\ ticks >= half[h].at /\ budget > 0 /\ half[h].at >= began + budget
            /\ ticks \in Nat /\ began \in Nat /\ budget \in Nat /\ half[h].at \in Nat
        BY <3>1 DEF ServerInv, HalfInv, ServerTypes
      <4>2. QED
        BY ONLY <4>1
    <3>2. QED
      BY <3>1
  <2>3. QED
    BY <2>1, <2>2, ReplyKeeps
<1>3. QED
  BY <1>1, <1>2

\* Time passes only while somebody sleeps, or a half that has started is within
\* its deadline and a granule: a half in its turn waits for no other.
LEMMA TickKeeps ==
    ASSUME ServerInv, Tick
    PROVE  ServerInv'
<1> USE DEF ServerInv
<1>1. /\ ticks' = ticks + 1 /\ said' = [i \in 0 .. Recheck |-> IF i = 0 THEN {control.says} ELSE said[i - 1]]
      /\ serving \in {"held", "delayed"} => ticks < wakes
      /\ serving = "searching" => /\ \A h \in Halves : ~Starts(h)
                                  /\ \E h \in Halves : Underway(h)
      /\ \A h \in Halves : half[h].state = "running" /\ half[h].at > 0 => ticks < half[h].at + Granule
      /\ UNCHANGED <<control, writes, chaos, parallel, call, began, budget, serving, wakes, left, half, served, reply>>
  BY DEF Tick, callVars
<1>2. /\ ticks \in Nat /\ began \in Nat /\ wakes \in Nat /\ left \in Nat /\ budget \in Nat /\ chaos.checked \in Nat
      /\ Granule \in Nat /\ Recheck \in Nat
      /\ \A h \in Halves : half[h].at \in Nat
  BY ServerAssumption DEF ServerTypes
<1>3. ServerTypes'
  <2>1. said' \in [0 .. Recheck -> SUBSET Says]
    <3>1. \A i \in 0 .. Recheck : i # 0 => i - 1 \in 0 .. Recheck
      BY <1>2
    <3>2. control.says \in Says
      BY DEF ServerTypes
    <3>3. QED
      BY <1>1, <3>1, <3>2 DEF ServerTypes
  <2>2. QED
    BY <1>1, <1>2, <2>1, SMTT(30) DEF ServerTypes
<1>4. ChaosInv'
  <2>1. control.says \in said'[0]
    BY <1>1, <1>2
  <2>2. ASSUME chaos.version # -1, ticks + 1 - chaos.checked <= Recheck
        PROVE  chaos.says \in said'[ticks + 1 - chaos.checked]
    <3>1. chaos.checked <= ticks /\ chaos.says \in said[ticks - chaos.checked]
      BY <1>2, <2>2 DEF ChaosInv
    <3>2. /\ ticks + 1 - chaos.checked \in 0 .. Recheck /\ ticks + 1 - chaos.checked # 0
          /\ (ticks + 1 - chaos.checked) - 1 = ticks - chaos.checked
      BY <1>2, <2>2, <3>1
    <3>3. said'[ticks + 1 - chaos.checked] = said[(ticks + 1 - chaos.checked) - 1]
      BY <1>1, <3>2
    <3>4. QED
      BY <3>1, <3>2, <3>3
  <2>3. QED
    BY <1>1, <1>2, <2>1, <2>2, SMTT(30) DEF ChaosInv
<1>5. CallInv'
  BY <1>1, <1>2 DEF CallInv, remaining_us
<1>6. HalfInv'
  BY <1>1, <1>2 DEF HalfInv
<1>7. LateInv'
  <2>1. Turn' = Turn /\ Late' = Late /\ Turn \in Nat /\ (InTurn => Turn = left + Granule) /\ Late = wakes + Turn + left + Granule
    BY <1>1, <1>2 DEF Turn, Late, InTurn
  <2>2. SUFFICES ASSUME serving = "searching", budget > 0 PROVE LateInv'
    BY <1>1 DEF LateInv
  <2>3. left > 0
    BY <1>2, <2>2 DEF CallInv, remaining_us
  <2>4. /\ half["lexical"].state = "off" <=> ~call.lexical
        /\ half["vector"].state = "off" <=> ~call.vector
        /\ "lexical" \in Halves /\ "vector" \in Halves
    BY <2>2 DEF HalfInv, Halves
  <2>5. half["lexical"].state # "due"
    BY <1>1, <2>2, <2>4 DEF Starts
  <2>6. half["vector"].state = "due" => ~parallel /\ half["lexical"].state = "running"
    BY <1>1, <2>2, <2>4, <2>5 DEF Starts, Underway
  <2>7. half["vector"].state = "due" => InTurn
    BY <2>4, <2>6 DEF InTurn, ServerTypes
  <2>8. half["lexical"].state = "running" => half["lexical"].at = wakes + left /\ ticks + 1 <= wakes + left + Granule
    <3>1. ASSUME half["lexical"].state = "running" PROVE half["lexical"].at = wakes + left
      BY <2>2, <3>1 DEF LateInv
    <3>2. ASSUME half["lexical"].state = "running" PROVE ticks < half["lexical"].at + Granule
      BY <1>1, <1>2, <2>3, <2>4, <3>1, <3>2
    <3>3. QED
      BY <1>2, <3>1, <3>2
  <2>9. half["vector"].state = "running" => /\ 0 < half["vector"].at /\ half["vector"].at <= wakes + Turn + left
                                            /\ ticks + 1 <= half["vector"].at + Granule
    BY <1>1, <1>2, <2>2, <2>4 DEF LateInv
  <2>10. half["vector"].state = "due" => ticks + 1 <= wakes + Turn
    BY <1>2, <2>1, <2>6, <2>7, <2>8
  <2>11. half["lexical"].state = "running" \/ half["vector"].state = "running"
    BY <1>1, <2>2, <2>5, <2>6 DEF Underway, Halves
  <2>12. ticks + 1 <= Late
    BY <1>2, <2>1, <2>4, <2>8, <2>9, <2>11
  <2>13. QED
    BY <1>1, <2>1, <2>5, <2>8, <2>9, <2>10, <2>12 DEF LateInv
<1>8. Partial'
  BY <1>1 DEF Partial
<1>9. QED
  BY <1>3, <1>4, <1>5, <1>6, <1>7, <1>8

LEMMA ServerNextKeepsIInv == ServerInv /\ [ServerNext]_shardVars => ServerInv'
<1> SUFFICES ASSUME ServerInv, [ServerNext]_shardVars PROVE ServerInv'
  OBVIOUS
<1>1. ASSUME NEW says \in Faults, WriteControl(says) PROVE ServerInv'
  BY <1>1, WriteControlKeeps
<1>2. ASSUME NEW c \in ShardCalls, Arrive(c) PROVE ServerInv'
  BY <1>2, ArriveKeeps
<1>3. CASE Blackholed \/ InjectedFailure \/ WrongDimension
  BY <1>3, ReplyKeeps DEF Blackholed, InjectedFailure, WrongDimension
<1>4. ASSUME NEW h \in Halves, StartHalf(h) PROVE ServerInv'
  BY <1>4, StartHalfKeeps
<1>5. ASSUME NEW h \in Halves, NEW cut \in BOOLEAN, EndHalf(h, "done", cut) PROVE ServerInv'
  BY <1>5, EndHalfKeeps
<1>6. CASE EndHalf("vector", "thrown", FALSE)
  BY <1>6, EndHalfKeeps DEF Halves
<1>7. CASE UNCHANGED shardVars
  BY <1>7 DEF shardVars, chaosVars, callVars, ServerInv, ServerTypes, ChaosInv, CallInv, HalfInv, LateInv, Partial,
              remaining_us, Turn, Late, InTurn
<1>8. QED
  BY <1>1, <1>2, <1>3, <1>4, <1>5, <1>6, <1>7, TickKeeps, MeasureKeeps, EndSearchKeeps DEF ServerNext

\* The inductive invariant of a shard's server.
THEOREM ServerInvariant == ServerSpec => []ServerInv
  BY ServerInitIInv, ServerNextKeepsIInv, PTL DEF ServerSpec

\* A limited call is back within its budget, or the delay injected, and the
\* granules of its halves; it is partial only when the budget is used up; and
\* the faults it met were asked for in the last 250 ms.
THEOREM CallsAnswerInBudget == ServerSpec => []AnswersInBudget
<1>1. ASSUME ServerInv PROVE AnswersInBudget
  <2>1. effective_budget(call) = budget /\ budget \in Nat /\ ticks \in Nat /\ began \in Nat /\ wakes \in Nat /\ left \in Nat
        /\ Granule \in Nat
    BY <1>1, ServerAssumption DEF ServerInv, ServerTypes, CallInv
  <2>2. ASSUME budget > 0, serving # "free" PROVE ticks - began <= Allowed
    <3> DEFINE rest == IF budget > wakes - began THEN budget - (wakes - began) ELSE 1
    <3>1. Allowed = (wakes - began) + (rest + Granule) * (IF InTurn THEN 2 ELSE 1)
      BY <2>1 DEF Allowed, InTurn
    <3>2. rest \in Nat /\ began <= wakes
      BY <1>1, <2>1, <2>2 DEF ServerInv, CallInv
    <3>3. Allowed >= wakes - began
      <4>1. CASE InTurn
        BY <2>1, <3>1, <3>2, <4>1
      <4>2. CASE ~InTurn
        BY <2>1, <3>1, <3>2, <4>2
      <4>3. QED
        BY <4>1, <4>2
    <3>4. CASE serving \in {"held", "delayed"}
      <4>1. ticks <= wakes
        BY <1>1, <3>4 DEF ServerInv, CallInv
      <4>2. Allowed \in Int
        BY <2>1, <3>1, <3>2
      <4>3. QED
        BY <2>1, <3>3, <4>1, <4>2
    <3>5. CASE serving = "searching"
      <4>1. left = rest /\ ticks <= wakes + Turn + left + Granule
        BY <1>1, <2>1, <2>2, <3>5 DEF ServerInv, CallInv, LateInv, Late, remaining_us
      <4>2. CASE InTurn
        BY <2>1, <3>1, <3>2, <4>1, <4>2 DEF Turn
      <4>3. CASE ~InTurn
        BY <2>1, <3>1, <3>2, <4>1, <4>3 DEF Turn
      <4>4. QED
        BY <4>2, <4>3
    <3>6. QED
      BY <1>1, <2>2, <3>4, <3>5 DEF ServerInv, ServerTypes
  <2>3. QED
    BY <1>1, <2>1, <2>2 DEF AnswersInBudget, ServerInv, CallInv, Partial
<1>2. QED
  BY <1>1, ServerInvariant, PTL
-----------------------------------------------------------------------------
(* The graph on disk: a search alone. *)

\* The rounds of a query whose reads are all its own.
OwnRecords(q, b) == [u \in NextFrontier(q, b) |-> u]
IsAlone(q, n, f) ==
    f = [r \in 0 .. n |-> IF r = 0 THEN FirstBeam
                          ELSE Expanded(q, f[r - 1], OwnRecords(q, f[r - 1]))]

\* There is one such sequence of beams for any number of rounds.
LEMMA AloneExists ==
    ASSUME NEW q, NEW n \in Nat
    PROVE  \E f : IsAlone(q, n, f)
<1> DEFINE Bad == {m \in Nat : ~ \E f : IsAlone(q, m, f)}
<1>1. SUFFICES ASSUME Bad # {} PROVE FALSE
  OBVIOUS
<1>2. PICK m \in Bad : \A y \in Bad : m <= y
  BY <1>1, LeastElement
<1>3. CASE m = 0
  <2>1. IsAlone(q, 0, [r \in 0 .. 0 |-> FirstBeam])
    BY DEF IsAlone
  <2>2. QED
    BY <1>3, <2>1
<1>4. CASE m # 0
  <2>1. m - 1 \in Nat /\ m \in Nat /\ m - 1 \notin Bad
    BY <1>2, <1>4
  <2>2. PICK f : IsAlone(q, m - 1, f)
    BY <2>1
  <2>3. f = [r \in 0 .. (m - 1) |-> IF r = 0 THEN FirstBeam
                                    ELSE Expanded(q, f[r - 1], OwnRecords(q, f[r - 1]))]
    BY <2>2 DEF IsAlone
  <2> DEFINE g == [r \in 0 .. m |-> IF r = m THEN Expanded(q, f[m - 1], OwnRecords(q, f[m - 1])) ELSE f[r]]
  <2>4. \A r \in 0 .. (m - 1) : g[r] = f[r]
    BY <2>1
  <2>5. ASSUME NEW r \in 0 .. m
        PROVE  g[r] = IF r = 0 THEN FirstBeam ELSE Expanded(q, g[r - 1], OwnRecords(q, g[r - 1]))
    <3>1. CASE r = 0
      <4>1. g[0] = f[0] /\ 0 \in 0 .. (m - 1)
        BY <2>1, <2>4
      <4>2. f[0] = FirstBeam
        BY <2>3, <4>1
      <4>3. QED
        BY <3>1, <4>1, <4>2
    <3>2. CASE r # 0 /\ r # m
      <4>1. r \in 0 .. (m - 1) /\ r - 1 \in 0 .. (m - 1)
        BY <2>1, <3>2
      <4>2. g[r] = f[r] /\ g[r - 1] = f[r - 1]
        BY <2>4, <4>1
      <4>3. f[r] = Expanded(q, f[r - 1], OwnRecords(q, f[r - 1]))
        BY <2>3, <3>2, <4>1
      <4>4. QED
        BY <3>2, <4>2, <4>3
    <3>3. CASE r # 0 /\ r = m
      <4>1. m - 1 \in 0 .. (m - 1) /\ m \in 0 .. m
        BY <2>1
      <4>2. g[m - 1] = f[m - 1]
        BY <2>4, <4>1
      <4>3. g[m] = Expanded(q, f[m - 1], OwnRecords(q, f[m - 1]))
        BY <4>1
      <4>4. QED
        BY <3>3, <4>2, <4>3
    <3>4. QED
      BY <3>1, <3>2, <3>3
  <2>6. g = [r \in 0 .. m |-> g[r]]
    OBVIOUS
  <2> HIDE DEF g
  <2>7. IsAlone(q, m, g)
    BY <2>5, <2>6 DEF IsAlone
  <2>8. QED
    BY <2>7
<1>5. QED
  BY <1>3, <1>4

LEMMA AloneIsOne ==
    ASSUME NEW q, NEW n \in Nat, NEW k \in Nat, NEW f, NEW g, IsAlone(q, n, f), IsAlone(q, k, g)
    PROVE  \A r \in 0 .. n : r <= k => f[r] = g[r]
<1> DEFINE Bad == {r \in 0 .. n : r <= k /\ f[r] # g[r]}
<1>1. SUFFICES ASSUME Bad # {} PROVE FALSE
  OBVIOUS
<1>2. Bad \in SUBSET Nat
  OBVIOUS
<1>3. PICK m \in Bad : \A y \in Bad : m <= y
  BY <1>1, <1>2, LeastElement
<1>4. /\ f[m] = IF m = 0 THEN FirstBeam ELSE Expanded(q, f[m - 1], OwnRecords(q, f[m - 1]))
      /\ g[m] = IF m = 0 THEN FirstBeam ELSE Expanded(q, g[m - 1], OwnRecords(q, g[m - 1]))
  <2>1. m \in 0 .. n /\ m \in 0 .. k
    OBVIOUS
  <2>2. \A r \in 0 .. n : f[r] = IF r = 0 THEN FirstBeam ELSE Expanded(q, f[r - 1], OwnRecords(q, f[r - 1]))
    BY DEF IsAlone
  <2>3. \A r \in 0 .. k : g[r] = IF r = 0 THEN FirstBeam ELSE Expanded(q, g[r - 1], OwnRecords(q, g[r - 1]))
    BY DEF IsAlone
  <2>4. QED
    BY <2>1, <2>2, <2>3
<1>5. m # 0 => f[m - 1] = g[m - 1]
  <2>1. SUFFICES ASSUME m # 0, f[m - 1] # g[m - 1] PROVE FALSE
    OBVIOUS
  <2>2. m - 1 \in Bad /\ ~(m <= m - 1)
    BY <2>1
  <2>3. QED
    BY <1>3, <2>2
<1>6. f[m] # g[m]
  OBVIOUS
<1>7. QED
  BY <1>4, <1>5, <1>6

\* A round more is a round from where it is.
LEMMA AloneByRounds ==
    ASSUME NEW q, NEW n \in Nat
    PROVE  /\ Alone(q, 0) = FirstBeam
           /\ Alone(q, n + 1) = Expanded(q, Alone(q, n), OwnRecords(q, Alone(q, n)))
<1>1. \A m \in Nat : \E f : IsAlone(q, m, f) /\ Alone(q, m) = f[m]
  <2>1. TAKE m \in Nat
  <2>2. Alone(q, m) = (CHOOSE f : IsAlone(q, m, f))[m]
    BY DEF Alone, IsAlone, OwnRecords
  <2>3. IsAlone(q, m, CHOOSE f : IsAlone(q, m, f))
    BY AloneExists
  <2>4. QED
    BY <2>2, <2>3
<1>2. Alone(q, 0) = FirstBeam
  <2>1. PICK f : IsAlone(q, 0, f) /\ Alone(q, 0) = f[0]
    BY <1>1
  <2>2. QED
    BY <2>1 DEF IsAlone
<1>3. PICK f : IsAlone(q, n, f) /\ Alone(q, n) = f[n]
  BY <1>1
<1>4. PICK g : IsAlone(q, n + 1, g) /\ Alone(q, n + 1) = g[n + 1]
  BY <1>1
<1>5. n \in 0 .. n /\ n + 1 \in 0 .. (n + 1) /\ n + 1 # 0 /\ (n + 1) - 1 = n /\ n <= n + 1 /\ n + 1 \in Nat
  OBVIOUS
<1>6. f[n] = g[n]
  BY <1>3, <1>4, <1>5, AloneIsOne
<1>7. g[n + 1] = Expanded(q, g[n], OwnRecords(q, g[n]))
  BY <1>4, <1>5 DEF IsAlone
<1>8. QED
  BY <1>2, <1>3, <1>4, <1>6, <1>7
-----------------------------------------------------------------------------
(* The pool of I/O threads and the counters of the queries. *)

Hits == [doc : Nodes, score : Int]
Beams == [list : SUBSET Nodes, popped : SUBSET Nodes, visited : SUBSET Nodes, full : SUBSET Hits]
Answers == [hits : SUBSET Hits, partial : BOOLEAN, thrown : BOOLEAN, rounds : Nat, failing : BOOLEAN]
Jobs == [thread : Searchers, slot : 1 .. BeamWidth]
DiskTypes ==
    /\ beam \in [Searchers -> Beams] /\ frontier \in [Searchers -> SUBSET Nodes]
    /\ slots \in [Searchers -> Seq(Nodes)] /\ buffer \in [Searchers -> [1 .. BeamWidth -> Nodes]]
    /\ remaining \in [Searchers -> Int] /\ errors \in [Searchers -> Nat] /\ seen \in [Searchers -> Int]
    /\ step \in [Searchers -> {"round", "load", "park", "parked", "expand", "idle"}]
    /\ requests \in Seq(Jobs) /\ jobs \in [Threads -> Seq(Jobs)]
    /\ doing \in [Threads -> {"read", "count", "notify"}]
    /\ rounds \in [Searchers -> Nat] /\ failing \in [Searchers -> BOOLEAN]
    /\ answers \in [Searchers -> Seq(Answers)]
    /\ \A a \in Threads : Len(jobs[a]) <= BeamWidth
    /\ \A t \in Searchers : Len(slots[t]) <= BeamWidth

LEMMA SameCount ==
    ASSUME NEW S, NEW T, NEW f \in [S -> T], IsFiniteSet(T),
           \A x, y \in S : f[x] = f[y] => x = y,
           \A y \in T : \E x \in S : f[x] = y
    PROVE  IsFiniteSet(S) /\ Cardinality(S) = Cardinality(T)
<1>1. f \in Injection(S, T)
  BY DEF Injection, IsInjective
<1>2. f \in Surjection(S, T)
  BY DEF Surjection
<1>3. QED
  BY <1>1, <1>2, FS_Injection

LEMMA QueuedCount ==
    ASSUME DiskTypes, NEW t \in Searchers
    PROVE  /\ IsFiniteSet(Queued(t)) /\ Cardinality(Queued(t)) \in Nat
           /\ IsFiniteSet(Held(t)) /\ Cardinality(Held(t)) \in Nat
<1>1. IsFiniteSet(1 .. Len(requests)) /\ IsFiniteSet(1 .. BeamWidth)
  <2>1. 1 \in Int /\ Len(requests) \in Int /\ BeamWidth \in Int
    BY DiskAssumption DEF DiskTypes
  <2>2. QED
    BY <2>1, FS_Interval, Zenon
<1>2. Queued(t) \subseteq 1 .. Len(requests)
  BY DEF Queued, DiskTypes
<1>3. IsFiniteSet(Threads)
  BY DiskAssumption, FS_Union DEF Threads
<1>4. IsFiniteSet(Threads \X (1 .. BeamWidth))
  BY <1>1, <1>3, FS_Product
<1>5. Held(t) \subseteq Threads \X (1 .. BeamWidth)
  BY DEF Held
<1>6. QED
  BY <1>1, <1>2, <1>4, <1>5, FS_Subset, FS_CardinalityType

\* A thread that is done with a request turns to the next one it has.
Was(a, p) == IF p[1] = a THEN <<a, p[2] + 1>> ELSE p
LEMMA DoneShifts ==
    ASSUME DiskTypes, NEW a \in Threads, jobs[a] # <<>>, Done(a), NEW t \in Searchers
    PROVE  /\ IsFiniteSet(Held(t)') /\ Cardinality(Held(t)') = Cardinality(Held(t) \ {<<a, 1>>})
           /\ \A p \in Held(t)' : /\ Was(a, p) \in Held(t) \ {<<a, 1>>}
                                 /\ jobs'[p[1]][p[2]] = jobs[Was(a, p)[1]][Was(a, p)[2]]
           /\ \A q \in Held(t) \ {<<a, 1>>} : \E p \in Held(t)' : Was(a, p) = q
<1> DEFINE f == [p \in Held(t)' |-> IF p[1] = a THEN <<a, p[2] + 1>> ELSE p]
<1>1. /\ Len(jobs[a]) \in Nat /\ Len(jobs[a]) > 0 /\ Len(jobs[a]) <= BeamWidth
      /\ jobs'[a] = Tail(jobs[a]) /\ doing'[a] = "read"
      /\ \A b \in Threads : b # a => jobs'[b] = jobs[b] /\ doing'[b] = doing[b]
      /\ BeamWidth \in Nat
  BY DiskAssumption DEF DiskTypes, Done
<1>2. /\ DOMAIN jobs'[a] = 1 .. (Len(jobs[a]) - 1) /\ DOMAIN jobs[a] = 1 .. Len(jobs[a])
      /\ \A i \in 1 .. (Len(jobs[a]) - 1) : jobs'[a][i] = jobs[a][i + 1]
  BY <1>1 DEF DiskTypes
<1>3. ASSUME NEW i \in 1 .. BeamWidth
      PROVE  <<a, i>> \in Held(t)' <=> i + 1 \in 1 .. BeamWidth /\ <<a, i + 1>> \in Held(t)
  <2>1. <<a, i>> \in Held(t)' <=> i \in DOMAIN jobs'[a] /\ jobs'[a][i].thread = t
    BY <1>1 DEF Held, Live
  <2>2. i + 1 \in 1 .. BeamWidth => (<<a, i + 1>> \in Held(t) <=> i + 1 \in DOMAIN jobs[a] /\ jobs[a][i + 1].thread = t)
    BY <1>1 DEF Held, Live
  <2>3. QED
    BY <1>1, <1>2, <2>1, <2>2
<1>4. ASSUME NEW b \in Threads, b # a, NEW i \in 1 .. BeamWidth
      PROVE  <<b, i>> \in Held(t)' <=> <<b, i>> \in Held(t)
  BY <1>1, <1>4 DEF Held, Live
<1>5. /\ \A p \in Held(t)' : p[1] \in Threads /\ p[2] \in 1 .. BeamWidth /\ p = <<p[1], p[2]>>
      /\ \A p \in Held(t) : p[1] \in Threads /\ p[2] \in 1 .. BeamWidth /\ p = <<p[1], p[2]>>
  BY DEF Held
<1>6. f \in [Held(t)' -> Held(t) \ {<<a, 1>>}]
  <2>1. SUFFICES ASSUME NEW p \in Held(t)'
                 PROVE  (IF p[1] = a THEN <<a, p[2] + 1>> ELSE p) \in Held(t) \ {<<a, 1>>}
    OBVIOUS
  <2>2. CASE p[1] = a
    <3>1. p[2] \in 1 .. BeamWidth /\ p = <<a, p[2]>>
      BY <1>5, <2>2
    <3>2. <<a, p[2] + 1>> \in Held(t) /\ p[2] + 1 # 1
      BY <1>3, <3>1
    <3>3. <<a, p[2] + 1>> # <<a, 1>>
      BY <3>2
    <3>4. QED
      BY <2>2, <3>2, <3>3
  <2>3. CASE p[1] # a
    <3>1. p[1] \in Threads /\ p[2] \in 1 .. BeamWidth /\ p = <<p[1], p[2]>>
      BY <1>5
    <3>2. p \in Held(t) /\ p # <<a, 1>>
      BY <1>4, <2>3, <3>1
    <3>3. QED
      BY <2>3, <3>2
  <2>4. QED
    BY <2>2, <2>3
<1>7. ASSUME NEW p \in Held(t)', NEW q \in Held(t)', f[p] = f[q] PROVE p = q
  <2>1. /\ p[1] \in Threads /\ p[2] \in 1 .. BeamWidth /\ p = <<p[1], p[2]>>
        /\ q[1] \in Threads /\ q[2] \in 1 .. BeamWidth /\ q = <<q[1], q[2]>>
    BY <1>5
  <2>2. (IF p[1] = a THEN <<a, p[2] + 1>> ELSE p) = (IF q[1] = a THEN <<a, q[2] + 1>> ELSE q)
    BY <1>7
  <2>3. p[1] = a <=> q[1] = a
    BY <2>1, <2>2
  <2>4. CASE p[1] = a
    <3>1. <<a, p[2] + 1>> = <<a, q[2] + 1>>
      BY <2>2, <2>3, <2>4
    <3>2. p[2] + 1 = q[2] + 1
      BY <3>1
    <3>3. QED
      BY <2>1, <2>3, <2>4, <3>2
  <2>5. CASE p[1] # a
    BY <2>2, <2>3, <2>5
  <2>6. QED
    BY <2>4, <2>5
<1>8. ASSUME NEW p \in Held(t) \ {<<a, 1>>} PROVE \E q \in Held(t)' : f[q] = p
  <2>1. p[1] \in Threads /\ p[2] \in 1 .. BeamWidth /\ p = <<p[1], p[2]>>
    BY <1>5
  <2>2. CASE p[1] = a
    <3>1. p[2] # 1
      BY <2>1, <2>2
    <3>2. p[2] - 1 \in 1 .. BeamWidth /\ (p[2] - 1) + 1 = p[2]
      BY <1>1, <2>1, <3>1
    <3>3. <<a, p[2] - 1>> \in Held(t)'
      BY <1>3, <2>1, <2>2, <3>2
    <3>4. f[<<a, p[2] - 1>>] = p
      BY <2>1, <2>2, <3>2, <3>3
    <3>5. QED
      BY <3>3, <3>4
  <2>3. CASE p[1] # a
    <3>1. p \in Held(t)'
      BY <1>4, <2>1, <2>3
    <3>2. QED
      BY <2>3, <3>1
  <2>4. QED
    BY <2>2, <2>3
<1>9. IsFiniteSet(Held(t) \ {<<a, 1>>})
  BY QueuedCount, FS_RemoveElement
<1>10. ASSUME NEW p \in Held(t)' PROVE jobs'[p[1]][p[2]] = jobs[Was(a, p)[1]][Was(a, p)[2]]
  <2>1. p[1] \in Threads /\ p[2] \in DOMAIN jobs'[p[1]]
    BY DEF Held, Live
  <2>2. CASE p[1] = a
    BY <1>2, <2>1, <2>2 DEF Was
  <2>3. CASE p[1] # a
    BY <1>1, <2>1, <2>3 DEF Was
  <2>4. QED
    BY <2>2, <2>3
<1>11. \A p \in Held(t)' : f[p] = Was(a, p)
  BY DEF Was
<1> HIDE DEF f
<1>12. IsFiniteSet(Held(t)') /\ Cardinality(Held(t)') = Cardinality(Held(t) \ {<<a, 1>>})
  BY <1>6, <1>7, <1>8, <1>9, SameCount
<1>13. QED
  BY <1>6, <1>8, <1>10, <1>11, <1>12

\* A thread of the pool takes a request out of the queue.
LEMMA TakeMoves ==
    ASSUME DiskTypes, NEW w \in IoThreads, Take(w), doing[w] = "read", NEW t \in Searchers
    PROVE  /\ Cardinality(Queued(t)') = Cardinality(Queued(t) \ {1}) /\ IsFiniteSet(Queued(t)')
           /\ Held(t)' = Held(t) \cup (IF requests[1].thread = t THEN {<<w, 1>>} ELSE {})
           /\ <<w, 1>> \notin Held(t)
<1> DEFINE f == [i \in Queued(t)' |-> i + 1]
<1>1. /\ Len(requests) \in Nat /\ Len(requests) > 0 /\ requests' = Tail(requests)
      /\ jobs[w] = <<>> /\ jobs'[w] = <<requests[1]>> /\ doing'[w] = "read"
      /\ \A b \in Threads : b # w => jobs'[b] = jobs[b] /\ doing'[b] = doing[b]
      /\ w \in Threads
  BY DEF DiskTypes, Take, Threads
<1>2. /\ DOMAIN requests = 1 .. Len(requests) /\ DOMAIN requests' = 1 .. (Len(requests) - 1)
      /\ \A i \in 1 .. (Len(requests) - 1) : requests'[i] = requests[i + 1]
  BY <1>1 DEF DiskTypes
<1>3. f \in [Queued(t)' -> Queued(t) \ {1}]
  BY <1>1, <1>2 DEF Queued
<1>4. ASSUME NEW i \in Queued(t) \ {1} PROVE \E j \in Queued(t)' : f[j] = i
  <2>1. i - 1 \in Queued(t)' /\ (i - 1) + 1 = i
    BY <1>1, <1>2 DEF Queued
  <2>2. QED
    BY <2>1
<1>5. ASSUME NEW i \in Queued(t)', NEW j \in Queued(t)', f[i] = f[j] PROVE i = j
  <2>1. i + 1 = j + 1 /\ i \in Nat /\ j \in Nat
    BY <1>2, <1>5 DEF Queued
  <2>2. QED
    BY <2>1
<1>6. IsFiniteSet(Queued(t) \ {1})
  BY QueuedCount, FS_RemoveElement
<1>7. Cardinality(Queued(t)') = Cardinality(Queued(t) \ {1}) /\ IsFiniteSet(Queued(t)')
  <2> HIDE DEF f
  <2>1. QED
    BY <1>3, <1>4, <1>5, <1>6, SameCount
<1>8. ASSUME NEW i \in 1 .. BeamWidth PROVE <<w, i>> \notin Held(t) /\ (<<w, i>> \in Held(t)' <=> i = 1 /\ requests[1].thread = t)
  BY <1>1 DEF Held, Live
<1>9. ASSUME NEW b \in Threads, b # w, NEW i \in 1 .. BeamWidth
      PROVE  <<b, i>> \in Held(t)' <=> <<b, i>> \in Held(t)
  BY <1>1, <1>9 DEF Held, Live
<1>10. /\ \A p \in Held(t)' : p[1] \in Threads /\ p[2] \in 1 .. BeamWidth /\ p = <<p[1], p[2]>>
       /\ \A p \in Held(t) : p[1] \in Threads /\ p[2] \in 1 .. BeamWidth /\ p = <<p[1], p[2]>>
  BY DEF Held
<1>11. 1 \in 1 .. BeamWidth
  BY DiskAssumption
<1>12. Held(t)' \subseteq Held(t) \cup (IF requests[1].thread = t THEN {<<w, 1>>} ELSE {})
  <2>1. SUFFICES ASSUME NEW p \in Held(t)'
                 PROVE  p \in Held(t) \cup (IF requests[1].thread = t THEN {<<w, 1>>} ELSE {})
    OBVIOUS
  <2>2. p[1] \in Threads /\ p[2] \in 1 .. BeamWidth /\ p = <<p[1], p[2]>>
    BY <1>10
  <2>3. CASE p[1] = w
    BY <1>8, <2>2, <2>3
  <2>4. CASE p[1] # w
    BY <1>9, <2>2, <2>4
  <2>5. QED
    BY <2>3, <2>4
<1>13. Held(t) \subseteq Held(t)'
  <2>1. SUFFICES ASSUME NEW p \in Held(t) PROVE p \in Held(t)'
    OBVIOUS
  <2>2. p[1] \in Threads /\ p[2] \in 1 .. BeamWidth /\ p = <<p[1], p[2]>>
    BY <1>10
  <2>3. p[1] # w
    BY <1>8, <2>2
  <2>4. QED
    BY <1>9, <2>2, <2>3
<1>14. requests[1].thread = t => <<w, 1>> \in Held(t)'
  BY <1>8, <1>11
<1>15. QED
  BY <1>7, <1>8, <1>11, <1>12, <1>13, <1>14
-----------------------------------------------------------------------------
(* The frontier. *)

\* Closer orders the nodes, so that each has its own number of nodes ahead.
LEMMA AheadOrders ==
    ASSUME NEW q, q.near \in [Nodes -> Int], NEW S \in SUBSET Nodes
    PROVE  /\ IsFiniteSet(S) /\ Cardinality(S) \in Nat
           /\ \A u \in S : Ahead(q, S, u) \in 0 .. (Cardinality(S) - 1)
           /\ \A u, v \in S : Ahead(q, S, u) = Ahead(q, S, v) => u = v
<1> DEFINE A(u) == {v \in S : Closer(q, v, u)}
<1>1. IsFiniteSet(S) /\ Cardinality(S) \in Nat
  <2>1. 1 \in Int /\ Len(Graph) \in Int
    BY DiskAssumption
  <2>2. IsFiniteSet(Nodes)
    BY <2>1, FS_Interval DEF Nodes
  <2>3. QED
    BY <2>2, FS_Subset, FS_CardinalityType
<1>2. \A u, v, w \in S : /\ ~Closer(q, u, u)
                         /\ Closer(q, u, v) /\ Closer(q, v, w) => Closer(q, u, w)
                         /\ u # v => Closer(q, u, v) \/ Closer(q, v, u)
  <2>1. TAKE u, v, w \in S
  <2>2. /\ q.near[u] \in Int /\ q.near[v] \in Int /\ q.near[w] \in Int
        /\ u \in Int /\ v \in Int /\ w \in Int
    BY DEF Nodes
  <2>3. QED
    BY <2>2 DEF Closer
<1>3. \A u \in S : IsFiniteSet(A(u)) /\ Cardinality(A(u)) \in Nat /\ Ahead(q, S, u) = Cardinality(A(u))
  BY <1>1, FS_Subset, FS_CardinalityType DEF Ahead
<1>4. ASSUME NEW u \in S, NEW v \in S, Closer(q, u, v) PROVE Cardinality(A(u)) < Cardinality(A(v))
  <2>1. A(u) \in SUBSET A(v) /\ u \in A(v) /\ u \notin A(u)
    BY <1>2, <1>4
  <2>2. Cardinality(A(u)) <= Cardinality(A(v)) /\ Cardinality(A(u)) # Cardinality(A(v))
    BY <1>3, <2>1, FS_Subset
  <2>3. Cardinality(A(u)) \in Nat /\ Cardinality(A(v)) \in Nat
    BY <1>3
  <2>4. QED
    BY ONLY <2>2, <2>3
<1>5. ASSUME NEW u \in S PROVE Cardinality(A(u)) < Cardinality(S)
  <2>1. A(u) \in SUBSET S /\ u \notin A(u)
    BY <1>2
  <2>2. Cardinality(A(u)) <= Cardinality(S) /\ Cardinality(A(u)) # Cardinality(S)
    BY <1>1, <2>1, FS_Subset
  <2>3. QED
    BY <1>1, <1>3, <2>2
<1> HIDE DEF A
<1>6. \A u \in S : Ahead(q, S, u) \in 0 .. (Cardinality(S) - 1)
  BY <1>1, <1>3, <1>5
<1>7. \A u, v \in S : Ahead(q, S, u) = Ahead(q, S, v) => u = v
  BY <1>2, <1>3, <1>4
<1>8. QED
  BY <1>1, <1>6, <1>7

\* A round has at most BeamWidth nodes.
LEMMA ClosestAreFew ==
    ASSUME NEW q, q.near \in [Nodes -> Int], NEW S \in SUBSET Nodes, NEW n \in Nat
    PROVE  /\ Closest(q, S, n) \subseteq S /\ IsFiniteSet(Closest(q, S, n))
           /\ Cardinality(Closest(q, S, n)) \in Nat /\ Cardinality(Closest(q, S, n)) <= n
<1> DEFINE f == [u \in Closest(q, S, n) |-> Ahead(q, S, u)]
<1>1. Closest(q, S, n) \subseteq S
  BY DEF Closest
<1>2. f \in [Closest(q, S, n) -> 0 .. (n - 1)]
  BY AheadOrders DEF Closest
<1>3. \A u, v \in Closest(q, S, n) : f[u] = f[v] => u = v
  BY <1>1, AheadOrders
<1>4. f \in Injection(Closest(q, S, n), 0 .. (n - 1))
  <2> HIDE DEF f
  <2>1. QED
    BY <1>2, <1>3 DEF Injection, IsInjective
<1>5. IsFiniteSet(0 .. (n - 1)) /\ Cardinality(0 .. (n - 1)) = n
  <2>1. 0 \in Int /\ n - 1 \in Int
    OBVIOUS
  <2>2. /\ IsFiniteSet(0 .. (n - 1))
        /\ Cardinality(0 .. (n - 1)) = IF 0 > n - 1 THEN 0 ELSE (n - 1) - 0 + 1
    BY <2>1, FS_Interval, Zenon
  <2>3. QED
    BY <2>2
<1>6. IsFiniteSet(Closest(q, S, n)) /\ Cardinality(Closest(q, S, n)) <= n
  BY <1>4, <1>5, FS_Injection
<1>7. QED
  BY <1>1, <1>6, FS_CardinalityType

\* Its reads are its nodes, in some order.
LEMMA ClosestFirstIsASequence ==
    ASSUME NEW q, q.near \in [Nodes -> Int], NEW S \in SUBSET Nodes
    PROVE  /\ ClosestFirst(q, S) \in Seq(S) /\ Len(ClosestFirst(q, S)) = Cardinality(S)
           /\ \A u \in S : \E i \in DOMAIN ClosestFirst(q, S) : ClosestFirst(q, S)[i] = u
<1> DEFINE n == Cardinality(S)
           f == [u \in S |-> Ahead(q, S, u)]
           Nth(i) == CHOOSE u \in S : Ahead(q, S, u) = i - 1
<1>1. IsFiniteSet(S) /\ n \in Nat
  BY AheadOrders
<1>2. f \in [S -> 0 .. (n - 1)]
  BY AheadOrders
<1>3. \A u, v \in S : f[u] = f[v] => u = v
  BY AheadOrders
<1>4. f \in Injection(S, 0 .. (n - 1))
  <2> HIDE DEF f
  <2>1. QED
    BY <1>2, <1>3 DEF Injection, IsInjective
<1>5. IsFiniteSet(0 .. (n - 1)) /\ Cardinality(0 .. (n - 1)) = n
  <2>1. 0 \in Int /\ n - 1 \in Int
    BY <1>1
  <2>2. /\ IsFiniteSet(0 .. (n - 1))
        /\ Cardinality(0 .. (n - 1)) = IF 0 > n - 1 THEN 0 ELSE (n - 1) - 0 + 1
    BY <2>1, FS_Interval, Zenon
  <2>3. QED
    BY <1>1, <2>2
<1>6. f \in Surjection(S, 0 .. (n - 1))
  BY <1>4, <1>5, FS_Injection
<1>7. \A j \in 0 .. (n - 1) : \E u \in S : f[u] = j
  <2> HIDE DEF f
  <2>1. QED
    BY <1>6 DEF Surjection
<1>8. ASSUME NEW i \in 1 .. n PROVE Nth(i) \in S /\ Ahead(q, S, Nth(i)) = i - 1
  <2>1. i - 1 \in 0 .. (n - 1)
    BY <1>1
  <2>2. \E u \in S : Ahead(q, S, u) = i - 1
    BY <1>7, <2>1
  <2>3. QED
    BY <2>2
<1>9. ClosestFirst(q, S) = [i \in 1 .. n |-> Nth(i)]
  BY DEF ClosestFirst
<1>10. ASSUME NEW u \in S PROVE Ahead(q, S, u) + 1 \in 1 .. n /\ Nth(Ahead(q, S, u) + 1) = u
  <2>1. Ahead(q, S, u) \in 0 .. (n - 1)
    BY AheadOrders
  <2>2. Ahead(q, S, u) + 1 \in 1 .. n /\ (Ahead(q, S, u) + 1) - 1 = Ahead(q, S, u)
    BY <1>1, <2>1
  <2>3. Nth(Ahead(q, S, u) + 1) \in S /\ Ahead(q, S, Nth(Ahead(q, S, u) + 1)) = Ahead(q, S, u)
    BY <1>8, <2>2
  <2>4. QED
    BY <2>2, <2>3, AheadOrders
<1> HIDE DEF Nth, n, f
<1>11. ClosestFirst(q, S) \in [1 .. n -> S]
  BY <1>8, <1>9
<1>12. ClosestFirst(q, S) \in Seq(S) /\ Len(ClosestFirst(q, S)) = n
  BY <1>1, <1>11
<1>13. \A u \in S : \E i \in DOMAIN ClosestFirst(q, S) : ClosestFirst(q, S)[i] = u
  BY <1>9, <1>10
<1>14. QED
  BY <1>12, <1>13 DEF n
-----------------------------------------------------------------------------
(* The invariant of the disk searches. *)

Waits == {"load", "park", "parked", "expand"}
Notified(t) == \E a \in Threads : jobs[a] # <<>> /\ doing[a] = "notify" /\ Job(a).thread = t
\* A read that is still to be done.
Unread(t, i) ==
    \/ \E j \in Queued(t) : requests[j].slot = i
    \/ \E p \in Held(t) : jobs[p[1]][p[2]].slot = i /\ (p[2] = 1 => doing[p[1]] = "read")

\* The counter is the number of outstanding reads, and a thread has requests in
\* hand only while it is about to load it.
PoolOf(t) ==
    /\ remaining[t] = Outstanding(t)
    /\ step[t] # "load" => jobs[t] = <<>>
    /\ step[t] \in {"round", "expand", "idle"} => remaining[t] = 0
    /\ step[t] = "park" => seen[t] > 0
    /\ step[t] = "parked" => remaining[t] > 0 \/ Notified(t)
    /\ \A i \in DOMAIN jobs[t] : jobs[t][i].thread = t
    /\ \A j \in Queued(t) : requests[j].slot \in DOMAIN slots[t]
    /\ \A p \in Held(t) : jobs[p[1]][p[2]].slot \in DOMAIN slots[t]
PoolInv == /\ \A t \in Searchers : PoolOf(t)
           /\ \A a \in Threads : jobs[a] = <<>> => doing[a] = "read"

\* The query is where it would be alone, and every slot holds its record, or is
\* still to be read, or a read has failed.
RoundOf(t) ==
    /\ step[t] # "idle" => Len(answers[t]) < Len(Workload[t])
    /\ step[t] \in {"round", "idle"} => ~failing[t]
    /\ step[t] = "round" => beam[t] = Alone(Query(t), rounds[t])
    /\ step[t] \in Waits =>
          /\ rounds[t] > 0 /\ beam[t] = Alone(Query(t), rounds[t] - 1)
          /\ frontier[t] = NextFrontier(Query(t), beam[t])
          /\ \A u \in frontier[t] \ Cached : \E i \in DOMAIN slots[t] : slots[t][i] = u
          /\ failing[t] <=> errors[t] > 0
          /\ \A i \in DOMAIN slots[t] : buffer[t][i] = slots[t][i] \/ errors[t] > 0 \/ Unread(t, i)
AnsweredAlone(t) ==
    \A i \in DOMAIN answers[t] :
        LET q == Workload[t][i]
            a == answers[t][i]
            b == Alone(q, a.rounds)
        IN  /\ a.thrown = a.failing
            /\ ~a.thrown => a.hits = TopHits(q, b) /\ (Unexpanded(b) # {} => a.partial)

DiskInv == DiskTypes /\ PoolInv /\ \A t \in Searchers : RoundOf(t) /\ AnsweredAlone(t)

\* A query in progress is a query.
LEMMA QueryIsOne ==
    ASSUME DiskInv, NEW t \in Searchers, step[t] # "idle"
    PROVE  Query(t).near \in [Nodes -> Int] /\ Query(t).exact \in [Nodes -> Int]
<1>1. Len(answers[t]) + 1 \in DOMAIN Workload[t]
  <2>1. Len(answers[t]) \in Nat /\ Len(answers[t]) < Len(Workload[t])
    BY DEF DiskInv, DiskTypes, RoundOf
  <2>2. Len(Workload[t]) \in Nat /\ DOMAIN Workload[t] = 1 .. Len(Workload[t])
    BY DiskAssumption
  <2>3. QED
    BY <2>1, <2>2
<1>2. Query(t) \in VectorQueries
  BY <1>1, DiskAssumption DEF Query
<1>3. QED
  BY <1>2 DEF VectorQueries

LEMMA DiskInitIInv == DiskInit => DiskInv
<1> SUFFICES ASSUME DiskInit PROVE DiskInv
  OBVIOUS
<1> USE DEF DiskInit
<1>1. DiskTypes
  <2>1. FirstBeam \in Beams
    BY DiskAssumption DEF FirstBeam, Beams
  <2>2. /\ beam \in [Searchers -> Beams] /\ answers \in [Searchers -> Seq(Answers)]
        /\ buffer \in [Searchers -> [1 .. BeamWidth -> Nodes]] /\ jobs \in [Threads -> Seq(Jobs)]
        /\ slots \in [Searchers -> Seq(Nodes)]
    BY <2>1, DiskAssumption
  <2>3. (\A a \in Threads : Len(jobs[a]) <= BeamWidth) /\ (\A t \in Searchers : Len(slots[t]) <= BeamWidth)
    BY DiskAssumption
  <2>4. QED
    BY <2>2, <2>3 DEF DiskTypes
<1>2. ASSUME NEW t \in Searchers PROVE PoolOf(t)
  <2>1. Queued(t) = {} /\ Held(t) = {}
    BY DEF Queued, Held, Live
  <2>2. Outstanding(t) = 0
    BY <2>1, FS_EmptySet DEF Outstanding
  <2>3. jobs[t] = <<>>
    BY DEF Threads
  <2>4. QED
    BY <2>1, <2>2, <2>3 DEF PoolOf
<1>3. ASSUME NEW t \in Searchers PROVE RoundOf(t) /\ AnsweredAlone(t)
  <2>1. Len(answers[t]) = 0 /\ Len(Workload[t]) > 0 /\ step[t] = "round"
    BY DiskAssumption
  <2>2. beam[t] = Alone(Query(t), rounds[t])
    BY AloneByRounds
  <2>3. AnsweredAlone(t)
    BY DEF AnsweredAlone
  <2>4. QED
    BY <2>1, <2>2, <2>3 DEF RoundOf, Waits
<1>4. QED
  BY <1>1, <1>2, <1>3 DEF DiskInv, PoolInv
-----------------------------------------------------------------------------
(* A read is done, counted, notified. *)

\* Who executes a request whose read is not counted has a query that waits.
LEMMA ExecutedFor ==
    ASSUME DiskInv, NEW a \in Threads, jobs[a] # <<>>
    PROVE  /\ Job(a) = jobs[a][1] /\ Job(a) \in Jobs /\ Job(a).thread \in Searchers /\ Job(a).slot \in 1 .. BeamWidth
           /\ doing[a] # "notify" =>
                 /\ <<a, 1>> \in Held(Job(a).thread) /\ remaining[Job(a).thread] > 0
                 /\ step[Job(a).thread] \in {"load", "park", "parked"}
                 /\ Job(a).slot \in DOMAIN slots[Job(a).thread]
           /\ a \in Searchers => Job(a).thread = a /\ step[a] = "load"
<1> DEFINE t == Job(a).thread
<1>1. /\ Len(jobs[a]) \in Nat /\ Len(jobs[a]) > 0 /\ 1 \in DOMAIN jobs[a]
      /\ Job(a) = jobs[a][1] /\ Job(a) \in Jobs
  BY DEF DiskInv, DiskTypes, Job
<1>2. t \in Searchers /\ Job(a).slot \in 1 .. BeamWidth
  BY <1>1 DEF Jobs
<1>3. ASSUME doing[a] # "notify"
      PROVE  /\ <<a, 1>> \in Held(t) /\ remaining[t] > 0 /\ step[t] \in {"load", "park", "parked"}
             /\ Job(a).slot \in DOMAIN slots[t]
  <2>1. 1 \in 1 .. BeamWidth
    BY DiskAssumption
  <2>2. <<a, 1>> \in Held(t)
    BY <1>1, <1>3, <2>1 DEF Held, Live
  <2>3. Cardinality(Held(t)) # 0 /\ Cardinality(Held(t)) \in Nat /\ Cardinality(Queued(t)) \in Nat
    BY <1>2, <2>2, QueuedCount, FS_EmptySet DEF DiskInv
  <2>4. PoolOf(t)
    BY <1>2 DEF DiskInv, PoolInv
  <2>5. remaining[t] > 0
    BY <2>3, <2>4 DEF PoolOf, Outstanding
  <2>6. step[t] \in {"load", "park", "parked"}
    BY <1>2, <2>4, <2>5 DEF PoolOf, DiskInv, DiskTypes
  <2>7. Job(a).slot \in DOMAIN slots[t]
    BY <1>1, <2>2, <2>4 DEF PoolOf
  <2>8. QED
    BY <2>2, <2>5, <2>6, <2>7
<1>4. ASSUME a \in Searchers PROVE t = a /\ step[a] = "load"
  BY <1>1, <1>4 DEF DiskInv, PoolInv, PoolOf
<1>5. QED
  BY <1>1, <1>2, <1>3, <1>4

LEMMA ReadKeeps ==
    ASSUME DiskInv, NEW a \in Threads, Read(a)
    PROVE  DiskInv'
<1> DEFINE t0 == Job(a).thread
           s0 == Job(a).slot
<1>1. /\ jobs[a] # <<>> /\ doing[a] = "read" /\ doing' = [doing EXCEPT ![a] = "count"]
      /\ buffer' = [buffer EXCEPT ![t0][s0] = slots[t0][s0]]
      /\ UNCHANGED <<beam, frontier, slots, step, seen, rounds, answers, remaining, errors, requests, jobs, readErrors, failing>>
  BY DEF Read, searchVars
<1>2. /\ Job(a) = jobs[a][1] /\ t0 \in Searchers /\ s0 \in 1 .. BeamWidth /\ s0 \in DOMAIN slots[t0]
  BY <1>1, ExecutedFor
<1> HIDE DEF t0, s0
<1>3. /\ doing'[a] = "count" /\ \A b \in Threads : b # a => doing'[b] = doing[b]
      /\ doing' \in [Threads -> {"read", "count", "notify"}]
  BY <1>1 DEF DiskInv, DiskTypes
<1>4. /\ buffer'[t0][s0] = slots[t0][s0]
      /\ \A t \in Searchers : \A i \in 1 .. BeamWidth : <<t, i>> # <<t0, s0>> => buffer'[t][i] = buffer[t][i]
      /\ buffer' \in [Searchers -> [1 .. BeamWidth -> Nodes]]
  <2>1. slots[t0][s0] \in Nodes
    BY <1>2 DEF DiskInv, DiskTypes
  <2>2. buffer \in [Searchers -> [1 .. BeamWidth -> Nodes]]
    BY DEF DiskInv, DiskTypes
  <2>3. QED
    BY <1>1, <1>2, <2>1, <2>2
<1>5. DiskTypes'
  BY <1>1, <1>3, <1>4 DEF DiskInv, DiskTypes
<1>6. \A t \in Searchers : Queued(t)' = Queued(t) /\ Held(t)' = Held(t)
  BY <1>1, <1>3 DEF Queued, Held, Live
<1>7. ASSUME NEW t \in Searchers PROVE PoolOf(t)'
  <2>1. Notified(t) => Notified(t)'
    BY <1>1, <1>3 DEF Notified, Job
  <2>2. PoolOf(t) /\ Outstanding(t)' = Outstanding(t)
    BY <1>6 DEF DiskInv, PoolInv, Outstanding
  <2>3. QED
    BY <1>1, <1>6, <2>1, <2>2 DEF PoolOf
<1>8. ASSUME NEW t \in Searchers PROVE RoundOf(t)' /\ AnsweredAlone(t)'
  <2>1. RoundOf(t) /\ AnsweredAlone(t) /\ Query(t)' = Query(t)
    BY <1>1 DEF DiskInv, Query
  <2>2. ASSUME step[t] \in Waits, NEW i \in DOMAIN slots[t]
        PROVE  buffer'[t][i] = slots[t][i] \/ errors[t] > 0 \/ Unread(t, i)'
    <3>1. CASE t = t0 /\ i = s0
      BY <1>4, <3>1
    <3>2. CASE ~(t = t0 /\ i = s0)
      <4>1. \A p \in Held(t) : /\ p[1] = a /\ p[2] = 1 => t = t0 /\ jobs[p[1]][p[2]].slot = s0
                               /\ p[1] \in Threads
        BY <1>2 DEF Held, t0, s0
      <4>2. Unread(t, i) => Unread(t, i)'
        BY <1>1, <1>3, <1>6, <3>2, <4>1 DEF Unread
      <4>3. buffer[t][i] = slots[t][i] => buffer'[t][i] = slots[t][i]
        <5>1. i \in 1 .. BeamWidth
          BY DiskAssumption DEF DiskInv, DiskTypes
        <5>2. QED
          BY <1>4, <3>2, <5>1
      <4>4. QED
        BY <2>1, <2>2, <4>2, <4>3 DEF RoundOf
    <3>3. QED
      BY <3>1, <3>2
  <2>3. RoundOf(t)'
    BY <1>1, <2>1, <2>2 DEF RoundOf
  <2>4. AnsweredAlone(t)'
    BY <1>1, <2>1 DEF AnsweredAlone
  <2>5. QED
    BY <2>3, <2>4
<1>9. \A b \in Threads : jobs'[b] = <<>> => doing'[b] = "read"
  BY <1>1, <1>3 DEF DiskInv, PoolInv
<1>10. QED
  BY <1>5, <1>7, <1>8, <1>9 DEF DiskInv, PoolInv

LEMMA ReadFailsKeeps ==
    ASSUME DiskInv, NEW a \in Threads, ReadFails(a)
    PROVE  DiskInv'
<1> DEFINE t0 == Job(a).thread
<1>1. /\ jobs[a] # <<>> /\ doing[a] = "read" /\ doing' = [doing EXCEPT ![a] = "count"]
      /\ errors' = [errors EXCEPT ![t0] = @ + 1] /\ failing' = [failing EXCEPT ![t0] = TRUE]
      /\ UNCHANGED <<beam, frontier, slots, step, seen, rounds, answers, buffer, remaining, requests, jobs>>
  BY DEF ReadFails, searchVars
<1>2. t0 \in Searchers /\ step[t0] \in {"load", "park", "parked"}
  BY <1>1, ExecutedFor
<1> HIDE DEF t0
<1>3. /\ doing'[a] = "count" /\ \A b \in Threads : b # a => doing'[b] = doing[b]
      /\ doing' \in [Threads -> {"read", "count", "notify"}]
  BY <1>1 DEF DiskInv, DiskTypes
<1>4. /\ errors'[t0] = errors[t0] + 1 /\ errors[t0] \in Nat /\ failing'[t0] = TRUE
      /\ \A t \in Searchers : t # t0 => errors'[t] = errors[t] /\ failing'[t] = failing[t]
  BY <1>1, <1>2 DEF DiskInv, DiskTypes
<1>5. DiskTypes'
  <2>1. errors' \in [Searchers -> Nat] /\ failing' \in [Searchers -> BOOLEAN]
    <3>1. errors \in [Searchers -> Nat] /\ failing \in [Searchers -> BOOLEAN]
      BY DEF DiskInv, DiskTypes
    <3>2. QED
      BY <1>1, <1>2, <3>1
  <2>2. QED
    BY <1>1, <1>3, <2>1 DEF DiskInv, DiskTypes
<1>6. \A t \in Searchers : Queued(t)' = Queued(t) /\ Held(t)' = Held(t)
  BY <1>1, <1>3 DEF Queued, Held, Live
<1>7. ASSUME NEW t \in Searchers PROVE PoolOf(t)'
  <2>1. Notified(t) => Notified(t)'
    BY <1>1, <1>3 DEF Notified, Job
  <2>2. PoolOf(t) /\ Outstanding(t)' = Outstanding(t)
    BY <1>6 DEF DiskInv, PoolInv, Outstanding
  <2>3. QED
    BY <1>1, <1>6, <2>1, <2>2 DEF PoolOf
<1>8. ASSUME NEW t \in Searchers PROVE RoundOf(t)' /\ AnsweredAlone(t)'
  <2>1. RoundOf(t) /\ AnsweredAlone(t) /\ Query(t)' = Query(t)
    BY <1>1 DEF DiskInv, Query
  <2>2. CASE t = t0
    <3>1. errors'[t] > 0 /\ failing'[t]
      BY <1>4, <2>2
    <3>2. step[t] \in Waits /\ step[t] \notin {"round", "idle"}
      BY <1>2, <2>2 DEF Waits
    <3>3. RoundOf(t)'
      BY <1>1, <2>1, <3>1, <3>2 DEF RoundOf
    <3>4. QED
      BY <1>1, <2>1, <3>3 DEF AnsweredAlone
  <2>3. CASE t # t0
    <3>1. \A p \in Held(t) : (p[1] = a /\ p[2] = 1 => t = t0) /\ p[1] \in Threads
      BY <1>1, ExecutedFor DEF Held, t0
    <3>2. \A i \in DOMAIN slots[t] : Unread(t, i) => Unread(t, i)'
      BY <1>1, <1>3, <1>6, <2>3, <3>1 DEF Unread
    <3>3. RoundOf(t)'
      BY <1>1, <1>4, <2>1, <2>3, <3>2 DEF RoundOf
    <3>4. QED
      BY <1>1, <2>1, <3>3 DEF AnsweredAlone
  <2>4. QED
    BY <2>2, <2>3
<1>9. \A b \in Threads : jobs'[b] = <<>> => doing'[b] = "read"
  BY <1>1, <1>3 DEF DiskInv, PoolInv
<1>10. QED
  BY <1>5, <1>7, <1>8, <1>9 DEF DiskInv, PoolInv

\* The rounds do not notice who holds a read that is still held unread.
SameRounds == UNCHANGED <<beam, frontier, slots, rounds, answers, buffer, errors, failing>>
LEMMA RoundsUnchanged ==
    ASSUME DiskInv, NEW t \in Searchers, step'[t] = step[t] \/ (step[t] \in Waits /\ step'[t] \in Waits), SameRounds,
           \A i \in DOMAIN slots[t] : Unread(t, i) => Unread(t, i)'
    PROVE  RoundOf(t)' /\ AnsweredAlone(t)'
<1>1. RoundOf(t) /\ AnsweredAlone(t) /\ Query(t)' = Query(t)
  BY DEF DiskInv, Query, SameRounds
<1>2. RoundOf(t)'
  BY <1>1 DEF RoundOf, Waits, SameRounds
<1>3. AnsweredAlone(t)'
  BY <1>1 DEF AnsweredAlone, SameRounds
<1>4. QED
  BY <1>2, <1>3

LEMMA DoneJobs ==
    ASSUME DiskTypes, NEW a \in Threads, jobs[a] # <<>>, Done(a)
    PROVE  /\ \A b \in Threads : b # a => jobs'[b] = jobs[b] /\ doing'[b] = doing[b]
           /\ jobs' \in [Threads -> Seq(Jobs)] /\ doing' \in [Threads -> {"read", "count", "notify"}]
           /\ \A b \in Threads : Len(jobs'[b]) <= BeamWidth
           /\ doing'[a] = "read"
           /\ \A i \in DOMAIN jobs'[a] : i + 1 \in DOMAIN jobs[a] /\ jobs'[a][i] = jobs[a][i + 1]
<1>1. jobs[a] \in Seq(Jobs) /\ Len(jobs[a]) <= BeamWidth /\ BeamWidth \in Nat
  BY DiskAssumption DEF DiskTypes
<1>2. /\ Tail(jobs[a]) \in Seq(Jobs) /\ Len(Tail(jobs[a])) = Len(jobs[a]) - 1
      /\ \A i \in DOMAIN Tail(jobs[a]) : i + 1 \in DOMAIN jobs[a] /\ Tail(jobs[a])[i] = jobs[a][i + 1]
  BY <1>1
<1>3. jobs'[a] = Tail(jobs[a]) /\ doing'[a] = "read"
  BY DEF Done, DiskTypes
<1>4. jobs' \in [Threads -> Seq(Jobs)] /\ doing' \in [Threads -> {"read", "count", "notify"}]
  BY <1>2 DEF Done, DiskTypes
<1>5. \A b \in Threads : b # a => jobs'[b] = jobs[b] /\ doing'[b] = doing[b]
  BY DEF Done, DiskTypes
<1>6. \A b \in Threads : Len(jobs'[b]) <= BeamWidth
  <2>1. Len(jobs[a]) \in Nat
    BY <1>1
  <2>2. Len(jobs'[a]) <= BeamWidth
    BY <1>1, <1>2, <1>3, <2>1
  <2>3. QED
    BY <1>5, <2>2 DEF DiskTypes
<1>7. QED
  BY <1>2, <1>3, <1>4, <1>5, <1>6

LEMMA DoneLeavesUnread ==
    ASSUME DiskTypes, NEW a \in Threads, jobs[a] # <<>>, doing[a] # "read", Done(a), requests' = requests,
           NEW t \in Searchers, NEW i, Unread(t, i)
    PROVE  Unread(t, i)'
<1>1. /\ \A p \in Held(t)' : /\ Was(a, p) \in Held(t) \ {<<a, 1>>}
                             /\ jobs'[p[1]][p[2]] = jobs[Was(a, p)[1]][Was(a, p)[2]]
      /\ \A q \in Held(t) \ {<<a, 1>>} : \E p \in Held(t)' : Was(a, p) = q
  BY DoneShifts
<1>2. doing'[a] = "read" /\ \A b \in Threads : b # a => doing'[b] = doing[b]
  BY DoneJobs
<1>3. ASSUME NEW q \in Held(t), q[2] = 1 => doing[q[1]] = "read"
      PROVE  \E p \in Held(t)' : jobs'[p[1]][p[2]] = jobs[q[1]][q[2]] /\ (p[2] = 1 => doing'[p[1]] = "read")
  <2>1. q # <<a, 1>>
    BY <1>3
  <2>2. PICK p \in Held(t)' : Was(a, p) = q
    BY <1>1, <2>1
  <2>3. jobs'[p[1]][p[2]] = jobs[q[1]][q[2]]
    BY <1>1, <2>2
  <2>4. p[1] # a => p = q /\ p[1] \in Threads
    BY <2>2 DEF Was, Held
  <2>5. QED
    BY <1>2, <1>3, <2>3, <2>4
<1>4. CASE \E j \in Queued(t) : requests[j].slot = i
  BY <1>4 DEF Unread, Queued
<1>5. CASE \E p \in Held(t) : jobs[p[1]][p[2]].slot = i /\ (p[2] = 1 => doing[p[1]] = "read")
  <2>1. PICK q \in Held(t) : jobs[q[1]][q[2]].slot = i /\ (q[2] = 1 => doing[q[1]] = "read")
    BY <1>5
  <2>2. PICK p \in Held(t)' : jobs'[p[1]][p[2]] = jobs[q[1]][q[2]] /\ (p[2] = 1 => doing'[p[1]] = "read")
    BY <1>3, <2>1
  <2>3. QED
    BY <2>1, <2>2 DEF Unread
<1>6. QED
  BY <1>4, <1>5 DEF Unread

\* The last read of the round is about to notify; any other is forgotten.
LEMMA CountKeeps ==
    ASSUME DiskInv, NEW a \in Threads, Count(a)
    PROVE  DiskInv'
<1> DEFINE t0 == Job(a).thread
<1>1. /\ jobs[a] # <<>> /\ doing[a] = "count" /\ remaining' = [remaining EXCEPT ![t0] = @ - 1]
      /\ UNCHANGED <<beam, frontier, slots, step, seen, rounds, answers, buffer, errors, requests, readErrors, failing>>
      /\ IF remaining[t0] = 1 THEN doing' = [doing EXCEPT ![a] = "notify"] /\ jobs' = jobs ELSE Done(a)
  BY DEF Count, searchVars
<1>2. /\ Job(a) = jobs[a][1] /\ t0 \in Searchers /\ <<a, 1>> \in Held(t0) /\ remaining[t0] > 0
      /\ a \in Searchers => t0 = a /\ step[a] = "load"
  BY <1>1, ExecutedFor
<1>3. \A t \in Searchers : t # t0 => <<a, 1>> \notin Held(t)
  BY <1>2 DEF Held
<1> HIDE DEF t0
<1>4. /\ remaining'[t0] = remaining[t0] - 1 /\ \A t \in Searchers : t # t0 => remaining'[t] = remaining[t]
      /\ remaining' \in [Searchers -> Int]
  BY <1>1, <1>2 DEF DiskInv, DiskTypes
<1>5. /\ \A b \in Threads : b # a => jobs'[b] = jobs[b] /\ doing'[b] = doing[b]
      /\ jobs' \in [Threads -> Seq(Jobs)] /\ doing' \in [Threads -> {"read", "count", "notify"}]
      /\ \A b \in Threads : Len(jobs'[b]) <= BeamWidth
      /\ jobs'[a] = <<>> => doing'[a] = "read"
      /\ a \in Searchers => \A i \in DOMAIN jobs'[a] : jobs'[a][i].thread = a
  <2>1. jobs[a] \in Seq(Jobs) /\ Len(jobs[a]) <= BeamWidth /\ BeamWidth \in Nat
    BY DiskAssumption DEF DiskInv, DiskTypes
  <2>2. a \in Searchers => \A i \in DOMAIN jobs[a] : jobs[a][i].thread = a
    BY DEF DiskInv, PoolInv, PoolOf
  <2>3. CASE remaining[t0] = 1
    BY <1>1, <2>1, <2>2, <2>3 DEF DiskInv, DiskTypes
  <2>4. CASE remaining[t0] # 1
    <3>1. Done(a)
      BY <1>1, <2>4
    <3>2. QED
      BY <1>1, <2>2, <3>1, DoneJobs DEF DiskInv
  <2>5. QED
    BY <2>3, <2>4
<1>6. DiskTypes'
  BY <1>1, <1>4, <1>5 DEF DiskInv, DiskTypes
<1>7. ASSUME NEW t \in Searchers
      PROVE  /\ Queued(t)' = Queued(t)
             /\ Cardinality(Held(t)') = Cardinality(Held(t) \ {<<a, 1>>})
             /\ \A p \in Held(t)' : \E q \in Held(t) : jobs'[p[1]][p[2]] = jobs[q[1]][q[2]]
             /\ \A i \in DOMAIN slots[t] : Unread(t, i) => Unread(t, i)'
  <2>1. Queued(t)' = Queued(t)
    BY <1>1 DEF Queued
  <2>2. CASE remaining[t0] = 1
    <3>1. doing' = [doing EXCEPT ![a] = "notify"] /\ jobs' = jobs
      BY <1>1, <2>2
    <3>2. Held(t)' = Held(t) \ {<<a, 1>>}
      <4>1. \A b \in Threads : \A i \in 1 .. BeamWidth : Live(b, i)' <=> Live(b, i) /\ ~(b = a /\ i = 1)
        BY <3>1, <1>1 DEF Live, DiskInv, DiskTypes
      <4>2. \A p \in Threads \X (1 .. BeamWidth) : p = <<a, 1>> <=> p[1] = a /\ p[2] = 1
        OBVIOUS
      <4>3. \A p \in Threads \X (1 .. BeamWidth) : p \in Held(t)' <=> p \in Held(t) /\ p # <<a, 1>>
        BY <3>1, <4>1, <4>2 DEF Held
      <4>4. QED
        BY <4>3 DEF Held
    <3>3. \A p \in Held(t) : p[1] = a /\ p[2] = 1 => doing[p[1]] # "read"
      BY <1>1
    <3>4. \A p \in Held(t) : p[1] \in Threads /\ p[2] \in 1 .. BeamWidth /\ p = <<p[1], p[2]>>
      BY DEF Held
    <3>5. ASSUME NEW p \in Held(t), p[2] = 1 => doing[p[1]] = "read"
          PROVE  p \in Held(t)' /\ (p[2] = 1 => doing'[p[1]] = "read")
      BY <1>5, <3>2, <3>3, <3>4, <3>5, <1>1
    <3>6. ASSUME NEW i \in DOMAIN slots[t], Unread(t, i) PROVE Unread(t, i)'
      BY <1>1, <2>1, <3>1, <3>5, <3>6 DEF Unread
    <3>7. QED
      BY <2>1, <3>1, <3>2, <3>6
  <2>3. CASE remaining[t0] # 1
    <3>1. Done(a)
      BY <1>1, <2>3
    <3>2. /\ Cardinality(Held(t)') = Cardinality(Held(t) \ {<<a, 1>>})
          /\ \A p \in Held(t)' : /\ Was(a, p) \in Held(t) \ {<<a, 1>>}
                                 /\ jobs'[p[1]][p[2]] = jobs[Was(a, p)[1]][Was(a, p)[2]]
          /\ \A q \in Held(t) \ {<<a, 1>>} : \E p \in Held(t)' : Was(a, p) = q
      BY <1>1, <3>1, DoneShifts DEF DiskInv
    <3>5. ASSUME NEW i \in DOMAIN slots[t], Unread(t, i) PROVE Unread(t, i)'
      <4>1. doing[a] # "read" /\ requests' = requests /\ jobs[a] # <<>>
        BY <1>1
      <4>2. QED
        BY <3>1, <3>5, <4>1, DoneLeavesUnread DEF DiskInv
    <3>6. \A p \in Held(t)' : \E q \in Held(t) : jobs'[p[1]][p[2]] = jobs[q[1]][q[2]]
      BY <3>2
    <3>7. QED
      BY <2>1, <3>2, <3>5, <3>6
  <2>4. QED
    BY <2>2, <2>3
<1>8. ASSUME NEW t \in Searchers PROVE PoolOf(t)'
  <2>1. PoolOf(t) /\ PoolOf(t0)
    BY <1>2 DEF DiskInv, PoolInv
  <2>2. remaining'[t] = Outstanding(t)'
    <3>1. IsFiniteSet(Held(t)) /\ Cardinality(Held(t)) \in Nat /\ Cardinality(Queued(t)) \in Nat
      BY QueuedCount DEF DiskInv
    <3>2. Cardinality(Held(t) \ {<<a, 1>>}) = IF t = t0 THEN Cardinality(Held(t)) - 1 ELSE Cardinality(Held(t))
      BY <1>2, <1>3, <3>1, FS_RemoveElement
    <3>3. remaining[t] = Cardinality(Queued(t)) + Cardinality(Held(t))
      BY <2>1 DEF PoolOf, Outstanding
    <3>4. Outstanding(t)' = Cardinality(Queued(t)) + Cardinality(Held(t) \ {<<a, 1>>})
      BY <1>7 DEF Outstanding
    <3>5. QED
      BY <1>4, <3>1, <3>2, <3>3, <3>4
  <2>3. step[t] # "load" => jobs'[t] = <<>>
    <3>1. t \in Threads /\ (t = a => step[t] = "load")
      BY <1>2 DEF Threads
    <3>2. QED
      BY <1>5, <2>1, <3>1 DEF PoolOf
  <2>4. step[t] \in {"round", "expand", "idle"} => remaining'[t] = 0
    BY <1>2, <1>4, <2>1 DEF PoolOf
  <2>5. step[t] = "parked" => remaining'[t] > 0 \/ Notified(t)'
    <3>1. ASSUME step[t] = "parked", t = t0, remaining[t0] = 1 PROVE Notified(t)'
      <4>1. jobs'[a] = jobs[a] /\ doing'[a] = "notify"
        BY <1>1, <3>1 DEF DiskInv, DiskTypes
      <4>2. Job(a)' = Job(a)
        BY <4>1 DEF Job
      <4>3. QED
        BY <1>1, <3>1, <4>1, <4>2 DEF Notified, t0
    <3>2. ASSUME step[t] = "parked", t = t0, remaining[t0] # 1 PROVE remaining'[t] > 0
      BY <1>2, <1>4, <3>2 DEF DiskInv, DiskTypes
    <3>3. ASSUME step[t] = "parked", t # t0 PROVE remaining'[t] > 0 \/ Notified(t)'
      <4>1. Notified(t) => Notified(t)'
        BY <1>1, <1>5 DEF Notified, Job
      <4>2. QED
        BY <1>4, <2>1, <3>3, <4>1 DEF PoolOf
    <3>4. QED
      BY <3>1, <3>2, <3>3
  <2>6. \A i \in DOMAIN jobs'[t] : jobs'[t][i].thread = t
    <3>1. t \in Threads
      BY DEF Threads
    <3>2. QED
      BY <1>5, <2>1, <3>1 DEF PoolOf
  <2>7. \A p \in Held(t)' : jobs'[p[1]][p[2]].slot \in DOMAIN slots[t]
    BY <1>7, <2>1 DEF PoolOf
  <2>8. QED
    BY <1>1, <1>7, <2>1, <2>2, <2>3, <2>4, <2>5, <2>6, <2>7 DEF PoolOf
<1>9. \A b \in Threads : jobs'[b] = <<>> => doing'[b] = "read"
  BY <1>5 DEF DiskInv, PoolInv
<1>10. ASSUME NEW t \in Searchers PROVE RoundOf(t)' /\ AnsweredAlone(t)'
  <2>1. step'[t] = step[t] /\ SameRounds
    BY <1>1 DEF SameRounds
  <2>2. \A i \in DOMAIN slots[t] : Unread(t, i) => Unread(t, i)'
    BY <1>7
  <2>3. QED
    BY <2>1, <2>2, RoundsUnchanged
<1>11. QED
  BY <1>6, <1>8, <1>9, <1>10 DEF DiskInv, PoolInv

\* A notification wakes the query it is for, if it sleeps; it may be late.
LEMMA NotifyAllKeeps ==
    ASSUME DiskInv, NEW a \in Threads, NotifyAll(a)
    PROVE  DiskInv'
<1> DEFINE t0 == Job(a).thread
<1>1. /\ jobs[a] # <<>> /\ doing[a] = "notify" /\ Done(a)
      /\ step' = [step EXCEPT ![t0] = IF @ = "parked" THEN "load" ELSE @]
      /\ UNCHANGED <<beam, frontier, slots, seen, rounds, answers, buffer, remaining, errors, requests, readErrors, failing>>
  BY DEF NotifyAll
<1>2. /\ Job(a) = jobs[a][1] /\ t0 \in Searchers
      /\ a \in Searchers => t0 = a /\ step[a] = "load"
  BY <1>1, ExecutedFor
<1>3. \A t \in Searchers : <<a, 1>> \notin Held(t)
  BY <1>1 DEF Held, Live
<1>4. /\ step'[t0] = IF step[t0] = "parked" THEN "load" ELSE step[t0]
      /\ \A t \in Searchers : t # t0 => step'[t] = step[t]
      /\ step' \in [Searchers -> {"round", "load", "park", "parked", "expand", "idle"}]
  <2> HIDE DEF t0
  <2>1. step \in [Searchers -> {"round", "load", "park", "parked", "expand", "idle"}]
    BY DEF DiskInv, DiskTypes
  <2>2. QED
    BY <1>1, <1>2, <2>1
<1>5. /\ \A b \in Threads : b # a => jobs'[b] = jobs[b] /\ doing'[b] = doing[b]
      /\ jobs' \in [Threads -> Seq(Jobs)] /\ doing' \in [Threads -> {"read", "count", "notify"}]
      /\ \A b \in Threads : Len(jobs'[b]) <= BeamWidth
      /\ doing'[a] = "read"
      /\ \A i \in DOMAIN jobs'[a] : i + 1 \in DOMAIN jobs[a] /\ jobs'[a][i] = jobs[a][i + 1]
  BY <1>1, DoneJobs DEF DiskInv
<1>6. DiskTypes'
  BY <1>1, <1>4, <1>5 DEF DiskInv, DiskTypes
<1>7. ASSUME NEW t \in Searchers
      PROVE  /\ Queued(t)' = Queued(t) /\ Cardinality(Held(t)') = Cardinality(Held(t))
             /\ \A p \in Held(t)' : \E q \in Held(t) : jobs'[p[1]][p[2]] = jobs[q[1]][q[2]]
  <2>1. Held(t) \ {<<a, 1>>} = Held(t)
    BY <1>3
  <2>2. QED
    BY <1>1, <2>1, DoneShifts DEF DiskInv, Queued
<1> HIDE DEF t0
<1>8. ASSUME NEW t \in Searchers PROVE PoolOf(t)'
  <2>1. PoolOf(t) /\ t \in Threads
    BY DEF DiskInv, PoolInv, Threads
  <2>2. remaining'[t] = Outstanding(t)'
    BY <1>1, <1>7, <2>1 DEF PoolOf, Outstanding
  <2>3. step'[t] # "load" => jobs'[t] = <<>>
    <3>1. CASE t = a
      BY <1>2, <1>4, <3>1
    <3>2. CASE t # a
      BY <1>4, <1>5, <2>1, <3>2 DEF PoolOf
    <3>3. QED
      BY <3>1, <3>2
  <2>4. /\ step'[t] \in {"round", "expand", "idle"} => remaining'[t] = 0
        /\ step'[t] = "park" => seen'[t] > 0
    BY <1>1, <1>4, <2>1 DEF PoolOf
  <2>5. step'[t] = "parked" => remaining'[t] > 0 \/ Notified(t)'
    <3>1. ASSUME step'[t] = "parked" PROVE t # t0 /\ step[t] = "parked"
      BY <1>4, <3>1
    <3>2. ASSUME t # t0, Notified(t) PROVE Notified(t)'
      <4>1. PICK b \in Threads : jobs[b] # <<>> /\ doing[b] = "notify" /\ Job(b).thread = t
        BY <3>2 DEF Notified
      <4>2. b # a
        BY <3>2, <4>1 DEF t0
      <4>3. QED
        BY <1>5, <4>1, <4>2 DEF Notified, Job
    <3>3. QED
      BY <1>1, <2>1, <3>1, <3>2 DEF PoolOf
  <2>6. \A i \in DOMAIN jobs'[t] : jobs'[t][i].thread = t
    BY <1>5, <2>1 DEF PoolOf
  <2>7. \A p \in Held(t)' : jobs'[p[1]][p[2]].slot \in DOMAIN slots[t]
    BY <1>7, <2>1 DEF PoolOf
  <2>8. QED
    BY <1>1, <1>7, <2>1, <2>2, <2>3, <2>4, <2>5, <2>6, <2>7 DEF PoolOf
<1>9. \A b \in Threads : jobs'[b] = <<>> => doing'[b] = "read"
  BY <1>5 DEF DiskInv, PoolInv
<1>10. ASSUME NEW t \in Searchers PROVE RoundOf(t)' /\ AnsweredAlone(t)'
  <2>1. step'[t] = step[t] \/ (step[t] \in Waits /\ step'[t] \in Waits)
    BY <1>4 DEF Waits
  <2>2. SameRounds
    BY <1>1 DEF SameRounds
  <2>3. ASSUME NEW i \in DOMAIN slots[t], Unread(t, i) PROVE Unread(t, i)'
    <3>1. doing[a] # "read" /\ requests' = requests /\ jobs[a] # <<>> /\ Done(a)
      BY <1>1
    <3>2. QED
      BY <2>3, <3>1, DoneLeavesUnread DEF DiskInv
  <2>4. QED
    BY <2>1, <2>2, <2>3, RoundsUnchanged
<1>11. QED
  BY <1>6, <1>8, <1>9, <1>10 DEF DiskInv, PoolInv

LEMMA TakeKeeps ==
    ASSUME DiskInv, NEW w \in IoThreads, Take(w)
    PROVE  DiskInv'
<1>1. /\ jobs[w] = <<>> /\ requests # <<>> /\ requests' = Tail(requests)
      /\ jobs' = [jobs EXCEPT ![w] = <<Head(requests)>>]
      /\ UNCHANGED <<beam, frontier, slots, step, seen, rounds, answers, buffer, remaining, errors, doing, readErrors, failing>>
  BY DEF Take, searchVars
<1>2. w \in Threads /\ w \notin Searchers /\ doing[w] = "read"
  BY <1>1, DiskAssumption DEF Threads, DiskInv, PoolInv
<1>3. /\ requests \in Seq(Jobs) /\ requests' \in Seq(Jobs) /\ Head(requests) = requests[1] /\ requests[1] \in Jobs
      /\ Len(requests) \in Nat /\ DOMAIN requests = 1 .. Len(requests) /\ Len(requests) > 0
      /\ \A i \in DOMAIN requests' : i + 1 \in DOMAIN requests /\ requests'[i] = requests[i + 1]
      /\ \A i \in DOMAIN requests \ {1} : i - 1 \in DOMAIN requests' /\ requests'[i - 1] = requests[i]
  BY <1>1 DEF DiskInv, DiskTypes
<1>4. /\ jobs'[w] = <<requests[1]>> /\ \A b \in Threads : b # w => jobs'[b] = jobs[b]
      /\ jobs' \in [Threads -> Seq(Jobs)] /\ \A b \in Threads : Len(jobs'[b]) <= BeamWidth
  <2>1. jobs \in [Threads -> Seq(Jobs)] /\ \A b \in Threads : Len(jobs[b]) <= BeamWidth
    BY DEF DiskInv, DiskTypes
  <2>2. <<requests[1]>> \in Seq(Jobs) /\ Len(<<requests[1]>>) = 1 /\ BeamWidth >= 1
    BY <1>3, DiskAssumption
  <2>3. jobs'[w] = <<requests[1]>> /\ (\A b \in Threads : b # w => jobs'[b] = jobs[b]) /\ jobs' \in [Threads -> Seq(Jobs)]
    BY <1>1, <1>2, <1>3, <2>1, <2>2
  <2>4. QED
    BY <2>1, <2>2, <2>3
<1>5. DiskTypes'
  BY <1>1, <1>3, <1>4 DEF DiskInv, DiskTypes
<1>6. ASSUME NEW t \in Searchers
      PROVE  /\ Cardinality(Queued(t)') = Cardinality(Queued(t) \ {1})
             /\ Held(t)' = Held(t) \cup (IF requests[1].thread = t THEN {<<w, 1>>} ELSE {})
             /\ <<w, 1>> \notin Held(t)
  BY <1>2, TakeMoves DEF DiskInv
<1>7. ASSUME NEW t \in Searchers, NEW p \in Held(t)
      PROVE  p \in Held(t)' /\ p[1] \in Threads /\ jobs'[p[1]][p[2]] = jobs[p[1]][p[2]]
  <2>1. p[1] \in Threads /\ p[2] \in DOMAIN jobs[p[1]]
    BY DEF Held, Live
  <2>2. p[1] # w
    BY <1>1, <2>1
  <2>3. QED
    BY <1>4, <1>6, <2>1, <2>2
<1>8. ASSUME NEW t \in Searchers PROVE PoolOf(t)'
  <2>1. PoolOf(t) /\ t \in Threads /\ t # w
    BY <1>2 DEF DiskInv, PoolInv, Threads
  <2>2. remaining'[t] = Outstanding(t)'
    <3>1. /\ IsFiniteSet(Queued(t)) /\ Cardinality(Queued(t)) \in Nat
          /\ IsFiniteSet(Held(t)) /\ Cardinality(Held(t)) \in Nat
      BY QueuedCount DEF DiskInv
    <3>2. 1 \in Queued(t) <=> requests[1].thread = t
      BY <1>3 DEF Queued
    <3>3. CASE requests[1].thread = t
      <4>1. Cardinality(Queued(t) \ {1}) = Cardinality(Queued(t)) - 1
        BY <3>1, <3>2, <3>3, FS_RemoveElement
      <4>2. Cardinality(Held(t)') = Cardinality(Held(t)) + 1
        <5>1. Held(t)' = Held(t) \cup {<<w, 1>>} /\ <<w, 1>> \notin Held(t)
          BY <1>6, <3>3
        <5>2. Cardinality(Held(t) \cup {<<w, 1>>}) = Cardinality(Held(t)) + 1
          BY ONLY <3>1, <5>1, FS_AddElement
        <5>3. QED
          BY <5>1, <5>2
      <4>3. remaining'[t] = Cardinality(Queued(t)) + Cardinality(Held(t))
        BY <1>1, <2>1 DEF PoolOf, Outstanding
      <4>4. Outstanding(t)' = Cardinality(Queued(t) \ {1}) + Cardinality(Held(t)')
        BY <1>6 DEF Outstanding
      <4>5. QED
        BY ONLY <3>1, <4>1, <4>2, <4>3, <4>4
    <3>4. CASE requests[1].thread # t
      <4>1. Queued(t) \ {1} = Queued(t)
        BY <3>2, <3>4
      <4>2. Held(t)' = Held(t)
        BY <1>6, <3>4
      <4>3. QED
        BY <1>1, <1>6, <2>1, <4>1, <4>2 DEF PoolOf, Outstanding
    <3>5. QED
      BY <3>3, <3>4
  <2>3. Notified(t) => Notified(t)'
    BY <1>1, <1>4 DEF Notified, Job
  <2>4. \A j \in Queued(t)' : requests'[j].slot \in DOMAIN slots[t]
    BY <1>3, <2>1 DEF PoolOf, Queued
  <2>5. \A p \in Held(t)' : jobs'[p[1]][p[2]].slot \in DOMAIN slots[t]
    <3>1. requests[1].thread = t => requests[1].slot \in DOMAIN slots[t]
      BY <1>3, <2>1 DEF PoolOf, Queued
    <3>2. jobs'[w][1] = requests[1]
      BY <1>4
    <3>3. ASSUME NEW p \in Held(t)' PROVE jobs'[p[1]][p[2]].slot \in DOMAIN slots[t]
      <4>1. CASE p \in Held(t)
        BY <1>7, <2>1, <4>1 DEF PoolOf
      <4>2. CASE requests[1].thread = t /\ p = <<w, 1>>
        BY <3>1, <3>2, <4>2
      <4>3. QED
        BY <1>6, <4>1, <4>2
    <3>4. QED
      BY <3>3
  <2>6. QED
    BY <1>1, <1>4, <2>1, <2>2, <2>3, <2>4, <2>5 DEF PoolOf
<1>9. \A b \in Threads : jobs'[b] = <<>> => doing'[b] = "read"
  BY <1>1, <1>2, <1>4 DEF DiskInv, PoolInv
<1>10. ASSUME NEW t \in Searchers PROVE RoundOf(t)' /\ AnsweredAlone(t)'
  <2>1. step'[t] = step[t] /\ SameRounds
    BY <1>1 DEF SameRounds
  <2>2. ASSUME NEW i \in DOMAIN slots[t], Unread(t, i) PROVE Unread(t, i)'
    <3>1. ASSUME NEW j \in Queued(t), requests[j].slot = i PROVE Unread(t, i)'
      <4>1. CASE j = 1
        <5>1. requests[1].thread = t
          BY <4>1 DEF Queued
        <5>2. <<w, 1>> \in Held(t)' /\ jobs'[w][1] = requests[1] /\ doing'[w] = "read"
          BY <1>1, <1>2, <1>4, <1>6, <5>1
        <5>3. QED
          BY <3>1, <4>1, <5>2 DEF Unread
      <4>2. CASE j # 1
        <5>1. j - 1 \in Queued(t)' /\ requests'[j - 1] = requests[j]
          BY <1>3, <4>2 DEF Queued
        <5>2. QED
          BY <3>1, <5>1 DEF Unread
      <4>3. QED
        BY <4>1, <4>2
    <3>2. ASSUME NEW p \in Held(t), jobs[p[1]][p[2]].slot = i, p[2] = 1 => doing[p[1]] = "read"
          PROVE  Unread(t, i)'
      BY <1>1, <1>7, <3>2 DEF Unread
    <3>3. QED
      BY <2>2, <3>1, <3>2 DEF Unread
  <2>3. QED
    BY <2>1, <2>2, RoundsUnchanged
<1>11. QED
  BY <1>5, <1>8, <1>9, <1>10 DEF DiskInv, PoolInv
-----------------------------------------------------------------------------
(* A query waits, throws, expands. *)

SamePool == UNCHANGED <<slots, buffer, remaining, errors, requests, jobs, doing>>
LEMMA PoolUnchanged ==
    ASSUME SamePool, NEW t \in Searchers
    PROVE  /\ Queued(t)' = Queued(t) /\ Held(t)' = Held(t) /\ Outstanding(t)' = Outstanding(t)
           /\ Notified(t)' = Notified(t) /\ \A i : Unread(t, i)' = Unread(t, i)
<1>1. Queued(t)' = Queued(t) /\ Held(t)' = Held(t)
  BY DEF SamePool, Queued, Held, Live
<1>2. Notified(t)' = Notified(t)
  BY DEF SamePool, Notified, Job
<1>3. QED
  BY <1>1, <1>2 DEF SamePool, Unread, Outstanding

\* The other threads' queries do not notice.
LEMMA OthersKeep ==
    ASSUME DiskInv, SamePool, NEW u \in Searchers,
           step'[u] = step[u], seen'[u] = seen[u], beam'[u] = beam[u], rounds'[u] = rounds[u],
           frontier'[u] = frontier[u], failing'[u] = failing[u], answers'[u] = answers[u]
    PROVE  PoolOf(u)' /\ RoundOf(u)' /\ AnsweredAlone(u)'
<1>1. PoolOf(u) /\ RoundOf(u) /\ AnsweredAlone(u)
  BY DEF DiskInv, PoolInv
<1>2. PoolOf(u)'
  BY <1>1, PoolUnchanged DEF PoolOf, SamePool
<1>3. Query(u)' = Query(u)
  BY DEF Query
<1>4. RoundOf(u)'
  BY <1>1, <1>3, PoolUnchanged DEF RoundOf, SamePool
<1>5. AnsweredAlone(u)'
  BY <1>1 DEF AnsweredAlone
<1>6. QED
  BY <1>2, <1>4, <1>5

\* A query goes to sleep on a count that is not zero.
LEMMA WaitKeeps ==
    ASSUME DiskInv, NEW t \in Searchers, LoadRemaining(t) \/ Park(t)
    PROVE  DiskInv'
<1>1. SamePool /\ UNCHANGED <<beam, frontier, rounds, answers, failing, readErrors>>
  BY DEF LoadRemaining, Park, ioVars, SamePool
<1>2. PoolOf(t) /\ RoundOf(t) /\ AnsweredAlone(t)
  BY DEF DiskInv, PoolInv
<1>3. remaining[t] \in Nat
  <2>1. Cardinality(Held(t)) \in Nat /\ Cardinality(Queued(t)) \in Nat
    BY QueuedCount DEF DiskInv
  <2>2. QED
    BY <1>2, <2>1 DEF PoolOf, Outstanding
<1>4. /\ step' \in [Searchers -> {"round", "load", "park", "parked", "expand", "idle"}]
      /\ seen' \in [Searchers -> Int]
      /\ \A u \in Searchers : u # t => step'[u] = step[u] /\ seen'[u] = seen[u]
  BY DEF LoadRemaining, Park, Go, DiskInv, DiskTypes
<1>5. DiskTypes'
  BY <1>1, <1>4 DEF DiskInv, DiskTypes, SamePool
<1>6. /\ step[t] \in Waits /\ step'[t] \in Waits /\ jobs[t] = <<>>
      /\ step'[t] = "expand" => remaining[t] = 0
      /\ step'[t] = "park" => seen'[t] > 0
      /\ step'[t] = "parked" => remaining[t] > 0
  <2>1. CASE LoadRemaining(t)
    <3>1. /\ step[t] = "load" /\ jobs[t] = <<>> /\ seen'[t] = remaining[t]
          /\ step'[t] = IF remaining[t] = 0 THEN "expand" ELSE "park"
      BY <2>1 DEF LoadRemaining, Go, DiskInv, DiskTypes
    <3>2. QED
      BY <1>3, <3>1 DEF Waits
  <2>2. CASE Park(t)
    <3>1. /\ step[t] = "park" /\ seen' = seen
          /\ step'[t] = IF remaining[t] = seen[t] THEN "parked" ELSE "load"
      BY <2>2 DEF Park, Go, DiskInv, DiskTypes
    <3>2. seen[t] > 0 /\ jobs[t] = <<>>
      BY <1>2, <3>1 DEF PoolOf
    <3>3. QED
      BY <3>1, <3>2 DEF Waits
  <2>3. QED
    BY <2>1, <2>2
<1>7. PoolOf(t)'
  BY <1>1, <1>2, <1>6, PoolUnchanged DEF PoolOf, SamePool, Waits
<1>8. RoundOf(t)' /\ AnsweredAlone(t)'
  <2>1. SameRounds
    BY <1>1 DEF SameRounds, SamePool
  <2>2. \A i \in DOMAIN slots[t] : Unread(t, i) => Unread(t, i)'
    BY <1>1, PoolUnchanged
  <2>3. QED
    BY <1>6, <2>1, <2>2, RoundsUnchanged
<1>9. \A u \in Searchers : PoolOf(u)' /\ RoundOf(u)' /\ AnsweredAlone(u)'
  <2>1. ASSUME NEW u \in Searchers, u # t PROVE PoolOf(u)' /\ RoundOf(u)' /\ AnsweredAlone(u)'
    BY <1>1, <1>4, <2>1, OthersKeep
  <2>2. QED
    BY <1>7, <1>8, <2>1
<1>10. \A b \in Threads : jobs'[b] = <<>> => doing'[b] = "read"
  BY <1>1 DEF DiskInv, PoolInv, SamePool
<1>11. QED
  BY <1>5, <1>9, <1>10 DEF DiskInv, PoolInv

\* The next query of the thread starts anew, the counters being at rest.
LEMMA AnsweredKeeps ==
    ASSUME DiskInv, NEW t \in Searchers, step[t] = "expand", SamePool, UNCHANGED <<frontier, seen>>,
           NEW hits \in SUBSET Hits, NEW partial \in BOOLEAN, NEW thrown \in BOOLEAN,
           Answered(t, hits, partial, thrown), thrown = failing[t],
           ~thrown => LET b == Alone(Query(t), rounds[t])
                      IN  hits = TopHits(Query(t), b) /\ (Unexpanded(b) # {} => partial)
    PROVE  DiskInv'
<1> DEFINE answer == [hits |-> hits, partial |-> partial, thrown |-> thrown,
                      rounds |-> rounds[t], failing |-> failing[t]]
<1>1. /\ PoolOf(t) /\ RoundOf(t) /\ AnsweredAlone(t) /\ answers[t] \in Seq(Answers)
      /\ Len(answers[t]) \in Nat /\ DOMAIN answers[t] = 1 .. Len(answers[t])
  BY DEF DiskInv, PoolInv, DiskTypes
<1>2. answer \in Answers
  BY DEF Answers, DiskInv, DiskTypes
<1>3. /\ answers' = [answers EXCEPT ![t] = Append(@, answer)]
      /\ step' = [step EXCEPT ![t] = IF Len(answers'[t]) < Len(Workload[t]) THEN "round" ELSE "idle"]
      /\ beam' = [beam EXCEPT ![t] = FirstBeam] /\ rounds' = [rounds EXCEPT ![t] = 0]
      /\ failing' = [failing EXCEPT ![t] = FALSE]
  BY DEF Answered, Go
<1> HIDE DEF answer
<1>4. /\ answers'[t] = Append(answers[t], answer) /\ answers' \in [Searchers -> Seq(Answers)]
      /\ \A u \in Searchers : u # t => answers'[u] = answers[u]
  <2>1. Append(answers[t], answer) \in Seq(Answers)
    BY <1>1, <1>2
  <2>2. QED
    BY <1>3, <2>1 DEF DiskInv, DiskTypes
<1>5. /\ step'[t] = IF Len(answers'[t]) < Len(Workload[t]) THEN "round" ELSE "idle"
      /\ step' \in [Searchers -> {"round", "load", "park", "parked", "expand", "idle"}]
      /\ \A u \in Searchers : u # t => step'[u] = step[u]
  BY <1>3 DEF DiskInv, DiskTypes
<1>6. /\ beam'[t] = FirstBeam /\ rounds'[t] = 0 /\ failing'[t] = FALSE
      /\ \A u \in Searchers : u # t => beam'[u] = beam[u] /\ rounds'[u] = rounds[u] /\ failing'[u] = failing[u]
      /\ beam' \in [Searchers -> Beams] /\ rounds' \in [Searchers -> Nat] /\ failing' \in [Searchers -> BOOLEAN]
  <2>1. FirstBeam \in Beams
    BY DiskAssumption DEF FirstBeam, Beams
  <2>2. beam \in [Searchers -> Beams] /\ rounds \in [Searchers -> Nat] /\ failing \in [Searchers -> BOOLEAN]
    BY DEF DiskInv, DiskTypes
  <2>3. QED
    BY <1>3, <2>1, <2>2
<1>7. DiskTypes'
  BY <1>4, <1>5, <1>6 DEF DiskInv, DiskTypes, SamePool
<1>8. PoolOf(t)'
  BY <1>1, <1>5, PoolUnchanged DEF PoolOf, SamePool
<1>9. RoundOf(t)'
  <2>1. FirstBeam = Alone(Query(t)', 0)
    BY AloneByRounds
  <2>2. QED
    BY <1>5, <1>6, <2>1 DEF RoundOf, Waits
<1>10. AnsweredAlone(t)'
  <2>1. ASSUME NEW i \in DOMAIN answers'[t]
        PROVE  /\ answers'[t][i].thrown = answers'[t][i].failing
               /\ ~answers'[t][i].thrown =>
                     /\ answers'[t][i].hits = TopHits(Workload[t][i], Alone(Workload[t][i], answers'[t][i].rounds))
                     /\ Unexpanded(Alone(Workload[t][i], answers'[t][i].rounds)) # {} => answers'[t][i].partial
    <3>1. CASE i \in DOMAIN answers[t]
      <4>1. answers'[t][i] = answers[t][i]
        BY <1>1, <1>2, <1>4, <3>1
      <4>2. QED
        BY <1>1, <3>1, <4>1 DEF AnsweredAlone
    <3>2. CASE i \notin DOMAIN answers[t]
      <4>1. i = Len(answers[t]) + 1 /\ answers'[t][i] = answer
        BY <1>1, <1>2, <1>4, <3>2
      <4>2. Workload[t][i] = Query(t)
        BY <4>1 DEF Query
      <4>3. /\ answer.thrown = thrown /\ answer.failing = failing[t] /\ answer.hits = hits
            /\ answer.partial = partial /\ answer.rounds = rounds[t]
        BY DEF answer
      <4>4. QED
        BY <4>1, <4>2, <4>3
    <3>3. QED
      BY <3>1, <3>2
  <2>2. QED
    BY <2>1 DEF AnsweredAlone
<1>11. \A u \in Searchers : PoolOf(u)' /\ RoundOf(u)' /\ AnsweredAlone(u)'
  <2>1. ASSUME NEW u \in Searchers, u # t PROVE PoolOf(u)' /\ RoundOf(u)' /\ AnsweredAlone(u)'
    BY <1>4, <1>5, <1>6, <2>1, OthersKeep
  <2>2. QED
    BY <1>8, <1>9, <1>10, <2>1
<1>12. \A b \in Threads : jobs'[b] = <<>> => doing'[b] = "read"
  BY DEF DiskInv, PoolInv, SamePool
<1>13. QED
  BY <1>7, <1>11, <1>12 DEF DiskInv, PoolInv

LEMMA ThrowKeeps ==
    ASSUME DiskInv, NEW t \in Searchers, Throw(t)
    PROVE  DiskInv'
<1>1. /\ step[t] = "expand" /\ SamePool /\ UNCHANGED <<frontier, seen>>
      /\ Answered(t, {}, FALSE, TRUE)
  BY DEF Throw, SamePool
<1>2. failing[t] = TRUE
  BY <1>1 DEF Throw, DiskInv, RoundOf, Waits, DiskTypes
<1>3. QED
  BY <1>1, <1>2, AnsweredKeeps

\* When nothing is outstanding, every record of the round is its own.
LEMMA OwnRecordsRead ==
    ASSUME DiskInv, NEW t \in Searchers, step[t] = "expand", errors[t] = 0
    PROVE  Records(t) = OwnRecords(Query(t), beam[t])
<1>1. /\ frontier[t] = NextFrontier(Query(t), beam[t]) /\ remaining[t] = 0
      /\ remaining[t] = Outstanding(t)
      /\ \A u \in frontier[t] \ Cached : \E i \in DOMAIN slots[t] : slots[t][i] = u
      /\ \A i \in DOMAIN slots[t] : buffer[t][i] = slots[t][i] \/ errors[t] > 0 \/ Unread(t, i)
  BY DEF DiskInv, PoolInv, PoolOf, RoundOf, Waits
<1>2. Queued(t) = {} /\ Held(t) = {}
  <2>1. /\ IsFiniteSet(Queued(t)) /\ Cardinality(Queued(t)) \in Nat
        /\ IsFiniteSet(Held(t)) /\ Cardinality(Held(t)) \in Nat
    BY QueuedCount DEF DiskInv
  <2>2. Cardinality(Queued(t)) + Cardinality(Held(t)) = 0
    BY <1>1 DEF Outstanding
  <2>3. Cardinality(Queued(t)) = 0 /\ Cardinality(Held(t)) = 0
    BY <2>1, <2>2
  <2>4. QED
    BY <2>1, <2>3, FS_EmptySet
<1>3. \A i \in DOMAIN slots[t] : buffer[t][i] = slots[t][i]
  BY <1>1, <1>2 DEF Unread
<1>4. ASSUME NEW u \in frontier[t]
      PROVE  (IF u \in Cached THEN u ELSE buffer[t][CHOOSE i \in DOMAIN slots[t] : slots[t][i] = u]) = u
  <2>1. CASE u \notin Cached
    <3>1. PICK j : j = CHOOSE i \in DOMAIN slots[t] : slots[t][i] = u
      OBVIOUS
    <3>2. j \in DOMAIN slots[t] /\ slots[t][j] = u
      BY <1>1, <2>1, <3>1
    <3>3. QED
      BY <1>3, <2>1, <3>1, <3>2
  <2>2. QED
    BY <2>1
<1>5. Records(t) = [u \in frontier[t] |-> u]
  BY <1>4 DEF Records
<1>6. QED
  BY <1>1, <1>5 DEF OwnRecords

LEMMA ExpandedIsABeam ==
    ASSUME NEW q, q.exact \in [Nodes -> Int], NEW b \in Beams, NEW F \in SUBSET Nodes
    PROVE  Expanded(q, b, [u \in F |-> u]) \in Beams
<1> DEFINE new == UNION {Graph[[u \in F |-> u][v]] : v \in F} \ b.visited
<1>1. new \in SUBSET Nodes
  <2>1. \A u \in F : Graph[u] \in SUBSET Nodes
    BY DiskAssumption DEF Nodes
  <2>2. QED
    BY <2>1
<1>2. /\ b.list \in SUBSET Nodes /\ b.popped \in SUBSET Nodes /\ b.visited \in SUBSET Nodes /\ b.full \in SUBSET Hits
  BY DEF Beams
<1>3. Closest(q, b.list \cup new, q.L) \in SUBSET Nodes
  BY <1>1, <1>2 DEF Closest
<1>4. {[doc |-> v, score |-> q.exact[[u \in F |-> u][v]]] : v \in F} \in SUBSET Hits
  BY DEF Hits
<1>5. b.popped \cup F \in SUBSET Nodes /\ b.visited \cup new \in SUBSET Nodes
  BY <1>1, <1>2
<1> DEFINE list == Closest(q, b.list \cup new, q.L)
           full == b.full \cup {[doc |-> v, score |-> q.exact[[u \in F |-> u][v]]] : v \in F}
<1>6. list \in SUBSET Nodes /\ full \in SUBSET Hits
  BY <1>2, <1>3, <1>4
<1>7. Expanded(q, b, [u \in F |-> u]) =
          [list |-> list, popped |-> b.popped \cup F, visited |-> b.visited \cup new, full |-> full]
  BY DEF Expanded
<1> HIDE DEF new, list, full
<1>8. QED
  BY ONLY <1>5, <1>6, <1>7 DEF Beams

LEMMA ExpandRoundKeeps ==
    ASSUME DiskInv, NEW t \in Searchers, NEW late \in BOOLEAN, ExpandRound(t, late)
    PROVE  DiskInv'
<1> DEFINE q == Query(t)
           next == Expanded(q, beam[t], Records(t))
<1>1. step[t] = "expand" /\ errors[t] = 0 /\ SamePool /\ UNCHANGED <<frontier, seen>>
  BY DEF ExpandRound, SamePool
<1>2. /\ rounds[t] \in Nat /\ rounds[t] > 0 /\ beam[t] = Alone(q, rounds[t] - 1)
      /\ failing[t] = FALSE /\ Len(answers[t]) < Len(Workload[t])
  BY <1>1 DEF DiskInv, RoundOf, Waits, DiskTypes
<1>3. Records(t) = OwnRecords(q, beam[t])
  BY <1>1, OwnRecordsRead
<1>4. next = Alone(q, rounds[t])
  <2>1. rounds[t] - 1 \in Nat /\ (rounds[t] - 1) + 1 = rounds[t]
    BY <1>2
  <2>2. Alone(q, (rounds[t] - 1) + 1) = Expanded(q, Alone(q, rounds[t] - 1), OwnRecords(q, Alone(q, rounds[t] - 1)))
    BY <2>1, AloneByRounds
  <2>3. QED
    BY <1>2, <1>3, <2>1, <2>2
<1>5. next \in Beams
  <2>1. q.exact \in [Nodes -> Int] /\ beam[t] \in Beams
    BY <1>1, QueryIsOne DEF DiskInv, DiskTypes
  <2>2. NextFrontier(q, beam[t]) \in SUBSET Nodes
    BY <2>1 DEF NextFrontier, Closest, Unexpanded, Beams
  <2>3. QED
    BY <1>3, <2>1, <2>2, ExpandedIsABeam DEF OwnRecords
<1>6. CASE late \/ Unexpanded(next) = {}
  <2>1. Answered(t, TopHits(q, next), late, FALSE)
    BY <1>6 DEF ExpandRound
  <2>2. TopHits(q, next) \in SUBSET Hits
    BY <1>5 DEF TopHits, Beams
  <2>3. Unexpanded(next) # {} => late
    BY <1>6
  <2> HIDE DEF next, q
  <2>4. QED
    BY <1>1, <1>2, <1>4, <2>1, <2>2, <2>3, AnsweredKeeps DEF q
<1>7. CASE ~(late \/ Unexpanded(next) = {})
  <2>1. beam' = [beam EXCEPT ![t] = next] /\ Go(t, "round") /\ UNCHANGED <<rounds, answers, failing>>
    BY <1>7 DEF ExpandRound
  <2> HIDE DEF next
  <2>2. /\ beam'[t] = next /\ beam' \in [Searchers -> Beams]
        /\ \A u \in Searchers : u # t => beam'[u] = beam[u]
    BY <1>5, <2>1 DEF DiskInv, DiskTypes
  <2>3. /\ step'[t] = "round" /\ \A u \in Searchers : u # t => step'[u] = step[u]
        /\ step' \in [Searchers -> {"round", "load", "park", "parked", "expand", "idle"}]
    BY <2>1 DEF Go, DiskInv, DiskTypes
  <2>4. DiskTypes'
    BY <1>1, <2>1, <2>2, <2>3 DEF DiskInv, DiskTypes, SamePool
  <2>5. PoolOf(t)'
    <3>1. PoolOf(t)
      BY DEF DiskInv, PoolInv
    <3>2. QED
      BY <1>1, <2>3, <3>1, PoolUnchanged DEF PoolOf, SamePool
  <2>6. RoundOf(t)'
    <3>1. Query(t)' = q
      BY <2>1 DEF Query
    <3>2. QED
      BY <1>2, <1>4, <2>1, <2>2, <2>3, <3>1 DEF RoundOf, Waits
  <2>7. AnsweredAlone(t)'
    BY <2>1 DEF DiskInv, AnsweredAlone
  <2>8. ASSUME NEW u \in Searchers, u # t PROVE PoolOf(u)' /\ RoundOf(u)' /\ AnsweredAlone(u)'
    BY <1>1, <2>1, <2>2, <2>3, <2>8, OthersKeep
  <2>9. \A b \in Threads : jobs'[b] = <<>> => doing'[b] = "read"
    BY <1>1 DEF DiskInv, PoolInv, SamePool
  <2>10. QED
    BY <2>4, <2>5, <2>6, <2>7, <2>8, <2>9 DEF DiskInv, PoolInv
<1>8. QED
  BY <1>6, <1>7
-----------------------------------------------------------------------------
(* A round begins. *)

\* Its reads are the nodes of the frontier that are not in memory.
LEMMA RoundToRead ==
    ASSUME DiskInv, NEW t \in Searchers, StartBeamRound(t)
    PROVE  /\ frontier'[t] = NextFrontier(Query(t), beam[t]) /\ frontier'[t] \in SUBSET Nodes
           /\ slots'[t] \in Seq(Nodes) /\ Len(slots'[t]) \in Nat /\ Len(slots'[t]) <= BeamWidth
           /\ slots'[t] = ClosestFirst(Query(t), NextFrontier(Query(t), beam[t]) \ Cached)
           /\ \A u \in frontier'[t] \ Cached : \E i \in DOMAIN slots'[t] : slots'[t][i] = u
           /\ \A u \in Searchers : u # t => frontier'[u] = frontier[u] /\ slots'[u] = slots[u]
<1> DEFINE q == Query(t)
           nodes == NextFrontier(q, beam[t])
           fetched == nodes \ Cached
<1>1. /\ step[t] = "round" /\ frontier' = [frontier EXCEPT ![t] = nodes]
      /\ slots' = [slots EXCEPT ![t] = ClosestFirst(q, fetched)]
  BY DEF StartBeamRound
<1>2. frontier'[t] = nodes /\ slots'[t] = ClosestFirst(q, fetched)
  BY <1>1 DEF DiskInv, DiskTypes
<1>3. \A u \in Searchers : u # t => frontier'[u] = frontier[u] /\ slots'[u] = slots[u]
  BY <1>1 DEF DiskInv, DiskTypes
<1>4. q.near \in [Nodes -> Int]
  BY <1>1, QueryIsOne
<1>5. Unexpanded(beam[t]) \in SUBSET Nodes
  BY DEF DiskInv, DiskTypes, Beams, Unexpanded
<1>6. /\ nodes \in SUBSET Nodes /\ IsFiniteSet(nodes)
      /\ Cardinality(nodes) \in Nat /\ Cardinality(nodes) <= BeamWidth
  <2>1. BeamWidth \in Nat
    BY DiskAssumption
  <2>2. QED
    BY <1>4, <1>5, <2>1, ClosestAreFew DEF NextFrontier
<1> HIDE DEF q, nodes
<1>7. fetched \in SUBSET Nodes /\ Cardinality(fetched) \in Nat /\ Cardinality(fetched) <= BeamWidth
  <2>1. fetched \in SUBSET nodes
    OBVIOUS
  <2>2. IsFiniteSet(fetched) /\ Cardinality(fetched) <= Cardinality(nodes)
    BY <1>6, <2>1, FS_Subset
  <2>3. Cardinality(fetched) \in Nat
    BY <2>2, FS_CardinalityType
  <2>4. BeamWidth \in Nat
    BY DiskAssumption
  <2>5. Cardinality(fetched) <= BeamWidth
    BY ONLY <1>6, <2>2, <2>3, <2>4
  <2>6. QED
    BY <1>6, <2>1, <2>3, <2>5
<1> HIDE DEF fetched
<1>8. /\ ClosestFirst(q, fetched) \in Seq(fetched) /\ Len(ClosestFirst(q, fetched)) = Cardinality(fetched)
      /\ \A u \in fetched : \E i \in DOMAIN ClosestFirst(q, fetched) : ClosestFirst(q, fetched)[i] = u
  BY <1>4, <1>7, ClosestFirstIsASequence
<1>9. ClosestFirst(q, fetched) \in Seq(Nodes)
  BY <1>7, <1>8
<1>10. QED
  BY <1>2, <1>3, <1>6, <1>7, <1>8, <1>9 DEF q, nodes, fetched

\* The first k of them the thread does itself.
LEMMA RoundSent ==
    ASSUME DiskInv, NEW t \in Searchers, StartBeamRound(t)
    PROVE  \E k \in Nat :
              /\ k <= Len(slots'[t]) /\ jobs'[t] \in Seq(Jobs) /\ Len(jobs'[t]) = k
              /\ \A i \in 1 .. k : jobs'[t][i].thread = t /\ jobs'[t][i].slot = i
              /\ requests' \in Seq(Jobs) /\ Len(requests') = Len(requests) + (Len(slots'[t]) - k)
              /\ \A i \in 1 .. Len(requests) : requests'[i] = requests[i]
              /\ \A i \in 1 .. (Len(slots'[t]) - k) :
                    requests'[Len(requests) + i].thread = t /\ requests'[Len(requests) + i].slot = k + i
              /\ \A b \in Threads : b # t => jobs'[b] = jobs[b]
              /\ jobs' \in [Threads -> Seq(Jobs)]
<1>0. PICK n \in Nat : n = Len(slots'[t])
  BY RoundToRead
<1> DEFINE all == [i \in 1 .. n |-> [thread |-> t, slot |-> i]]
           shared == IoThreads # {} /\ n > 1
<1>1. n <= BeamWidth /\ DOMAIN slots'[t] = 1 .. n /\ BeamWidth \in Nat
  <2>1. slots'[t] \in Seq(Nodes) /\ Len(slots'[t]) <= BeamWidth
    BY RoundToRead
  <2>2. QED
    BY <1>0, <2>1, DiskAssumption
<1>2. /\ requests' = IF shared THEN requests \o Tail(all) ELSE requests
      /\ jobs' = [jobs EXCEPT ![t] = IF shared THEN <<all[1]>> ELSE all]
  <2>1. slots'[t] = ClosestFirst(Query(t), NextFrontier(Query(t), beam[t]) \ Cached)
    BY RoundToRead
  <2>2. DOMAIN slots'[t] = 1 .. n
    BY <1>1
  <2>3. DOMAIN ClosestFirst(Query(t), NextFrontier(Query(t), beam[t]) \ Cached) = 1 .. n
        /\ Len(ClosestFirst(Query(t), NextFrontier(Query(t), beam[t]) \ Cached)) = n
    BY <1>0, <2>1, <2>2
  <2> DEFINE reads == ClosestFirst(Query(t), NextFrontier(Query(t), beam[t]) \ Cached)
  <2>4. /\ requests' = IF IoThreads # {} /\ Len(reads) > 1
                        THEN requests \o Tail([i \in DOMAIN reads |-> [thread |-> t, slot |-> i]]) ELSE requests
        /\ jobs' = [jobs EXCEPT ![t] = IF IoThreads # {} /\ Len(reads) > 1
                        THEN <<[i \in DOMAIN reads |-> [thread |-> t, slot |-> i]][1]>>
                        ELSE [i \in DOMAIN reads |-> [thread |-> t, slot |-> i]]]
    BY Zenon DEF StartBeamRound
  <2>5. DOMAIN reads = 1 .. n /\ Len(reads) = n
    BY <2>3
  <2> HIDE DEF reads
  <2>6. QED
    BY <2>4, <2>5
<1>3. all \in Seq(Jobs) /\ Len(all) = n /\ \A i \in 1 .. n : all[i].thread = t /\ all[i].slot = i
  <2>1. \A i \in 1 .. n : [thread |-> t, slot |-> i] \in Jobs
    BY <1>1 DEF Jobs
  <2>2. QED
    BY <1>1, <2>1
<1>4. requests \in Seq(Jobs) /\ jobs \in [Threads -> Seq(Jobs)] /\ t \in Threads
  BY DEF DiskInv, DiskTypes, Threads
<1>4a. Len(requests) \in Nat
  BY <1>4
<1> HIDE DEF all
<1>5. CASE shared
  <2>1. /\ Tail(all) \in Seq(Jobs) /\ Len(Tail(all)) = n - 1
        /\ \A i \in 1 .. (n - 1) : Tail(all)[i].thread = t /\ Tail(all)[i].slot = 1 + i
    BY <1>1, <1>3, <1>5
  <2>2. /\ requests' = requests \o Tail(all)
        /\ jobs' = [jobs EXCEPT ![t] = <<all[1]>>]
    BY <1>2, <1>5
  <2>3. /\ requests' \in Seq(Jobs) /\ Len(requests') = Len(requests) + (n - 1)
        /\ \A i \in 1 .. Len(requests) : requests'[i] = requests[i]
        /\ \A i \in 1 .. (n - 1) : requests'[Len(requests) + i].thread = t /\ requests'[Len(requests) + i].slot = 1 + i
    <3>1. requests' \in Seq(Jobs) /\ Len(requests') = Len(requests) + (n - 1)
      <4>1. /\ requests \o Tail(all) \in Seq(Jobs)
            /\ Len(requests \o Tail(all)) = Len(requests) + Len(Tail(all))
        BY <1>4, <2>1
      <4>2. QED
        BY <2>1, <2>2, <4>1
    <3>2. ASSUME NEW i \in 1 .. Len(requests) PROVE requests'[i] = requests[i]
      BY <1>4, <1>4a, <2>1, <2>2
    <3>3. ASSUME NEW i \in 1 .. (n - 1) PROVE requests'[Len(requests) + i].thread = t /\ requests'[Len(requests) + i].slot = 1 + i
      <4>1. requests'[Len(requests) + i] = Tail(all)[i]
        <5>1. Len(requests) + i \in 1 .. (Len(requests) + (n - 1)) /\ ~(Len(requests) + i <= Len(requests))
              /\ (Len(requests) + i) - Len(requests) = i
          BY <1>4a
        <5>2. QED
          BY <1>4, <2>1, <2>2, <5>1
      <4>2. QED
        BY <2>1, <4>1
    <3>4. QED
      BY <3>1, <3>2, <3>3
  <2>4. /\ jobs'[t] = <<all[1]>> /\ all[1].thread = t /\ all[1].slot = 1 /\ all[1] \in Jobs
        /\ \A b \in Threads : b # t => jobs'[b] = jobs[b]
        /\ jobs' \in [Threads -> Seq(Jobs)]
    <3>1. all[1].thread = t /\ all[1].slot = 1 /\ all[1] \in Jobs
      BY <1>3, <1>5
    <3>2. <<all[1]>> \in Seq(Jobs)
      BY <3>1
    <3>3. QED
      BY <1>4, <2>2, <3>1, <3>2
  <2>5. 1 \in Nat /\ 1 <= n
    BY <1>1, <1>5
  <2>6. jobs'[t] \in Seq(Jobs) /\ Len(jobs'[t]) = 1 /\ \A i \in 1 .. 1 : jobs'[t][i].thread = t /\ jobs'[t][i].slot = i
    BY <2>4
  <2>7. QED
    BY <1>0, <2>3, <2>4, <2>5, <2>6
<1>6. CASE ~shared
  <2>1. requests' = requests /\ jobs' = [jobs EXCEPT ![t] = all]
    BY <1>2, <1>6
  <2>2. /\ jobs'[t] = all /\ jobs' \in [Threads -> Seq(Jobs)]
        /\ \A b \in Threads : b # t => jobs'[b] = jobs[b]
    BY <1>3, <1>4, <2>1
  <2>3. Len(requests') = Len(requests) + (n - n) /\ 1 .. (n - n) = {} /\ n <= n
    BY <1>1, <1>4, <2>1
  <2>4. /\ jobs'[t] \in Seq(Jobs) /\ Len(jobs'[t]) = n
        /\ \A i \in 1 .. n : jobs'[t][i].thread = t /\ jobs'[t][i].slot = i
    BY ONLY <1>3, <2>2
  <2>5. /\ requests' \in Seq(Jobs)
        /\ \A i \in 1 .. Len(requests) : requests'[i] = requests[i]
        /\ \A i \in 1 .. (n - n) :
              requests'[Len(requests) + i].thread = t /\ requests'[Len(requests) + i].slot = n + i
    BY ONLY <1>4, <2>1, <2>3
  <2>6. QED
    BY ONLY <1>0, n \in Nat, <2>2, <2>3, <2>4, <2>5
<1>7. QED
  BY <1>5, <1>6

\* The thread's outstanding reads are those of the new round.
LEMMA RoundOutstanding ==
    ASSUME DiskInv, NEW t \in Searchers, StartBeamRound(t)
    PROVE  /\ Outstanding(t)' = Len(slots'[t])
           /\ \A i \in DOMAIN slots'[t] : Unread(t, i)'
           /\ \A j \in Queued(t)' : requests'[j].slot \in DOMAIN slots'[t]
           /\ \A p \in Held(t)' : jobs'[p[1]][p[2]].slot \in DOMAIN slots'[t]
           /\ \A i \in DOMAIN jobs'[t] : jobs'[t][i].thread = t
<1>1. PICK n \in Nat : n = Len(slots'[t])
  BY RoundToRead
<1>2. n <= BeamWidth /\ DOMAIN slots'[t] = 1 .. n /\ BeamWidth \in Nat
  <2>1. slots'[t] \in Seq(Nodes) /\ Len(slots'[t]) <= BeamWidth
    BY RoundToRead
  <2>2. QED
    BY <1>1, <2>1, DiskAssumption
<1>3. PICK k \in Nat :
          /\ k <= n /\ jobs'[t] \in Seq(Jobs) /\ Len(jobs'[t]) = k
          /\ \A i \in 1 .. k : jobs'[t][i].thread = t /\ jobs'[t][i].slot = i
          /\ requests' \in Seq(Jobs) /\ Len(requests') = Len(requests) + (n - k)
          /\ \A i \in 1 .. Len(requests) : requests'[i] = requests[i]
          /\ \A i \in 1 .. (n - k) : requests'[Len(requests) + i].thread = t /\ requests'[Len(requests) + i].slot = k + i
          /\ \A b \in Threads : b # t => jobs'[b] = jobs[b]
  BY <1>1, RoundSent
<1>4. Queued(t) = {} /\ Held(t) = {} /\ jobs[t] = <<>> /\ doing[t] = "read" /\ doing' = doing /\ t \in Threads
  <2>1. PoolOf(t) /\ step[t] = "round" /\ t \in Threads
    BY DEF StartBeamRound, DiskInv, PoolInv, Threads
  <2>2. remaining[t] = 0 /\ remaining[t] = Outstanding(t) /\ jobs[t] = <<>>
    BY <2>1 DEF PoolOf
  <2>3. /\ IsFiniteSet(Queued(t)) /\ Cardinality(Queued(t)) \in Nat
        /\ IsFiniteSet(Held(t)) /\ Cardinality(Held(t)) \in Nat
    BY QueuedCount DEF DiskInv
  <2>4. Cardinality(Queued(t)) = 0 /\ Cardinality(Held(t)) = 0
    BY <2>2, <2>3 DEF Outstanding
  <2>5. doing' = doing /\ doing[t] = "read"
    BY <2>1, <2>2 DEF StartBeamRound, DiskInv, PoolInv
  <2>6. QED
    BY <2>1, <2>2, <2>3, <2>4, <2>5, FS_EmptySet
<1>5. Len(requests) \in Nat /\ DOMAIN jobs'[t] = 1 .. k /\ DOMAIN requests' = 1 .. (Len(requests) + (n - k))
  BY <1>3 DEF DiskInv, DiskTypes
<1>6. ASSUME NEW j PROVE j \in Queued(t)' <=> j \in (Len(requests) + 1) .. (Len(requests) + (n - k))
  <2>1. j \in Queued(t)' <=> j \in DOMAIN requests' /\ requests'[j].thread = t
    BY DEF Queued
  <2>2. ASSUME j \in 1 .. Len(requests) PROVE ~(j \in Queued(t)')
    <3>1. requests'[j] = requests[j] /\ j \in DOMAIN requests
      BY <1>3, <2>2 DEF DiskInv, DiskTypes
    <3>2. requests[j].thread # t
      BY <1>4, <3>1 DEF Queued
    <3>3. QED
      BY <2>1, <3>1, <3>2
  <2>3. ASSUME j \in (Len(requests) + 1) .. (Len(requests) + (n - k)) PROVE requests'[j].thread = t
    <3>1. j - Len(requests) \in 1 .. (n - k) /\ Len(requests) + (j - Len(requests)) = j
      BY <1>5, <2>3
    <3>2. QED
      BY <1>3, <3>1
  <2>4. QED
    BY <1>3, <1>5, <2>1, <2>2, <2>3
<1>7. ASSUME NEW p PROVE p \in Held(t)' <=> p[1] = t /\ p[2] \in 1 .. k /\ p = <<p[1], p[2]>>
  <2>1. p \in Held(t)' <=> p \in Threads \X (1 .. BeamWidth) /\ Live(p[1], p[2])' /\ jobs'[p[1]][p[2]].thread = t
    BY DEF Held
  <2>2. \A i : Live(t, i)' <=> i \in 1 .. k
    BY <1>4, <1>5 DEF Live
  <2>3. \A i \in 1 .. k : i \in 1 .. BeamWidth /\ jobs'[t][i].thread = t
    BY <1>2, <1>3
  <2>4. ASSUME p \in Held(t)' PROVE p[1] = t
    <3>1. SUFFICES ASSUME p[1] # t PROVE FALSE
      OBVIOUS
    <3>2. p \in Threads \X (1 .. BeamWidth) /\ Live(p[1], p[2])' /\ jobs'[p[1]][p[2]].thread = t
      BY <2>1, <2>4
    <3>3. p[1] \in Threads /\ jobs'[p[1]] = jobs[p[1]]
      BY <1>3, <3>1, <3>2
    <3>4. Live(p[1], p[2])
      BY <1>4, <3>2, <3>3 DEF Live
    <3>5. p \in Held(t)
      BY <3>2, <3>3, <3>4 DEF Held
    <3>6. QED
      BY <1>4, <3>5
  <2>5. ASSUME p[1] = t, p[2] \in 1 .. k, p = <<p[1], p[2]>> PROVE p \in Held(t)'
    <3>1. <<t, p[2]>> \in Threads \X (1 .. BeamWidth)
      BY <1>4, <2>3, <2>5
    <3>2. QED
      BY <2>1, <2>2, <2>3, <2>5, <3>1
  <2>6. QED
    BY <2>1, <2>2, <2>4, <2>5
<1>8. Cardinality(Queued(t)') = n - k
  <2>1. Queued(t)' = (Len(requests) + 1) .. (Len(requests) + (n - k))
    BY <1>6
  <2>2. PICK lo \in Int : lo = Len(requests) + 1
    BY <1>5
  <2>3. PICK hi \in Int : hi = Len(requests) + (n - k)
    BY <1>5, SMTT(30)
  <2>4. Cardinality(lo .. hi) = IF lo > hi THEN 0 ELSE hi - lo + 1
    BY FS_Interval, Zenon
  <2>5. (IF lo > hi THEN 0 ELSE hi - lo + 1) = n - k
    BY <1>3, <1>5, <2>2, <2>3
  <2>6. QED
    BY <2>1, <2>2, <2>3, <2>4, <2>5
<1>9. Cardinality(Held(t)') = k
  <2> DEFINE f == [p \in Held(t)' |-> p[2]]
  <2>1. f \in [Held(t)' -> 1 .. k]
    BY <1>7
  <2>2. \A p, q \in Held(t)' : f[p] = f[q] => p = q
    <3>1. TAKE p, q \in Held(t)'
    <3>2. p[1] = t /\ p = <<p[1], p[2]>> /\ q[1] = t /\ q = <<q[1], q[2]>>
      BY <1>7
    <3>3. f[p] = p[2] /\ f[q] = q[2]
      OBVIOUS
    <3>4. QED
      BY <3>2, <3>3
  <2>3. \A i \in 1 .. k : \E p \in Held(t)' : f[p] = i
    <3>1. TAKE i \in 1 .. k
    <3>2. <<t, i>> \in Held(t)'
      BY <1>7
    <3>3. f[<<t, i>>] = i
      BY <3>2
    <3>4. QED
      BY <3>2, <3>3
  <2>4. IsFiniteSet(1 .. k) /\ Cardinality(1 .. k) = k
    <3>1. 1 \in Int /\ k \in Int
      OBVIOUS
    <3>2. IsFiniteSet(1 .. k) /\ Cardinality(1 .. k) = IF 1 > k THEN 0 ELSE k - 1 + 1
      BY <3>1, FS_Interval, Zenon
    <3>3. QED
      BY <3>2
  <2> HIDE DEF f
  <2>5. QED
    BY <2>1, <2>2, <2>3, <2>4, SameCount
<1>10. Outstanding(t)' = n
  BY <1>3, <1>8, <1>9 DEF Outstanding
<1>11. ASSUME NEW i \in 1 .. n PROVE Unread(t, i)'
  <2>1. CASE i <= k
    <3>1. <<t, i>> \in Held(t)' /\ jobs'[t][i].slot = i /\ doing'[t] = "read"
      BY <1>3, <1>4, <1>7, <2>1
    <3>2. <<t, i>>[1] = t /\ <<t, i>>[2] = i
      OBVIOUS
    <3>3. \E p \in Held(t)' : jobs'[p[1]][p[2]].slot = i /\ (p[2] = 1 => doing'[p[1]] = "read")
      BY ONLY <3>1, <3>2
    <3>4. QED
      BY <3>3 DEF Unread
  <2>2. CASE ~(i <= k)
    <3>1. i - k \in 1 .. (n - k) /\ k + (i - k) = i
      BY <2>2
    <3>2. Len(requests) + (i - k) \in Queued(t)'
      <4>1. Len(requests) + (i - k) \in (Len(requests) + 1) .. (Len(requests) + (n - k))
        BY <1>5, <3>1
      <4>2. QED
        BY ONLY <1>6, <4>1
    <3>3. requests'[Len(requests) + (i - k)].slot = i
      BY <1>3, <3>1
    <3>4. QED
      BY <3>2, <3>3 DEF Unread
  <2>3. QED
    BY <2>1, <2>2
<1>12. ASSUME NEW j \in Queued(t)' PROVE requests'[j].slot \in 1 .. n
  <2>1. j - Len(requests) \in 1 .. (n - k) /\ Len(requests) + (j - Len(requests)) = j
    BY <1>5, <1>6
  <2>2. requests'[j].slot = k + (j - Len(requests))
    BY <1>3, <2>1
  <2>3. QED
    BY <1>3, <1>5, <2>1, <2>2
<1>13. ASSUME NEW p \in Held(t)' PROVE jobs'[p[1]][p[2]].slot \in 1 .. n
  <2>1. p[1] = t /\ p[2] \in 1 .. k
    BY <1>7
  <2>2. QED
    BY <1>3, <2>1
<1>14. \A i \in DOMAIN jobs'[t] : jobs'[t][i].thread = t
  BY <1>3, <1>5
<1>15. QED
  BY <1>1, <1>2, <1>10, <1>11, <1>12, <1>13, <1>14

\* The others' are what they were.
LEMMA RoundSpares ==
    ASSUME DiskInv, NEW t \in Searchers, StartBeamRound(t), NEW u \in Searchers, u # t
    PROVE  /\ Queued(u)' = Queued(u) /\ Held(u)' = Held(u) /\ Outstanding(u)' = Outstanding(u)
           /\ \A j \in Queued(u) : requests'[j] = requests[j]
           /\ \A p \in Held(u) : jobs'[p[1]][p[2]] = jobs[p[1]][p[2]]
           /\ \A i : Unread(u, i)' = Unread(u, i)
           /\ Notified(u)' = Notified(u) /\ jobs'[u] = jobs[u]
<1>1. PICK n \in Nat : n = Len(slots'[t])
  BY RoundToRead
<1>2. PICK k \in Nat :
          /\ k <= n /\ Len(jobs'[t]) = k /\ jobs'[t] \in Seq(Jobs)
          /\ \A i \in 1 .. k : jobs'[t][i].thread = t /\ jobs'[t][i].slot = i
          /\ requests' \in Seq(Jobs) /\ Len(requests') = Len(requests) + (n - k)
          /\ \A i \in 1 .. Len(requests) : requests'[i] = requests[i]
          /\ \A i \in 1 .. (n - k) : requests'[Len(requests) + i].thread = t /\ requests'[Len(requests) + i].slot = k + i
          /\ \A b \in Threads : b # t => jobs'[b] = jobs[b]
  BY <1>1, RoundSent
<1>3. jobs[t] = <<>> /\ doing[t] = "read" /\ doing' = doing /\ t \in Threads /\ u \in Threads
  <2>1. PoolOf(t) /\ step[t] = "round" /\ t \in Threads /\ u \in Threads /\ doing' = doing
    BY DEF StartBeamRound, DiskInv, PoolInv, Threads
  <2>2. jobs[t] = <<>>
    BY <2>1 DEF PoolOf
  <2>3. QED
    BY <2>1, <2>2 DEF DiskInv, PoolInv
<1>4. /\ Len(requests) \in Nat /\ DOMAIN requests = 1 .. Len(requests)
      /\ DOMAIN jobs'[t] = 1 .. k /\ DOMAIN requests' = 1 .. (Len(requests) + (n - k))
  BY <1>2, SMTT(30) DEF DiskInv, DiskTypes
<1>5. ASSUME NEW j \in DOMAIN requests', requests'[j].thread = u PROVE j \in DOMAIN requests
  <2>1. SUFFICES ASSUME ~(j <= Len(requests)) PROVE FALSE
    BY <1>4
  <2>2. j - Len(requests) \in 1 .. (n - k) /\ Len(requests) + (j - Len(requests)) = j
    BY <1>2, <1>4, <2>1
  <2>3. requests'[j].thread = t
    BY <1>2, <2>2
  <2>4. QED
    BY <1>5, <2>3
<1>6. DOMAIN requests \subseteq DOMAIN requests'
  BY <1>2, <1>4
<1>7. Queued(u)' = Queued(u)
  BY <1>2, <1>4, <1>5, <1>6 DEF Queued
<1>8. \A j \in Queued(u) : requests'[j] = requests[j]
  BY <1>2, <1>4 DEF Queued
<1>9. ASSUME NEW p \in Threads \X (1 .. BeamWidth) PROVE p \in Held(u)' <=> p \in Held(u)
  <2>1. CASE p[1] = t
    <3>1. p \notin Held(u)
      BY <1>3, <2>1 DEF Held, Live
    <3>2. ~(p \in Held(u)')
      BY <1>2, <1>4, <2>1 DEF Held, Live
    <3>3. QED
      BY <3>1, <3>2
  <2>2. CASE p[1] # t
    <3>1. p[1] \in Threads /\ jobs'[p[1]] = jobs[p[1]] /\ doing' = doing
      BY <1>2, <1>3, <2>2
    <3>2. QED
      BY <3>1 DEF Held, Live
  <2>3. QED
    BY <2>1, <2>2
<1>10. Held(u)' = Held(u)
  <2>1. Held(u) \subseteq Threads \X (1 .. BeamWidth) /\ Held(u)' \subseteq Threads \X (1 .. BeamWidth)
    BY DEF Held
  <2>2. QED
    BY <1>9, <2>1
<1>11. \A p \in Held(u) : p[1] # t /\ jobs'[p[1]] = jobs[p[1]]
  <2>1. TAKE p \in Held(u)
  <2>2. p[1] \in Threads /\ p[2] \in DOMAIN jobs[p[1]]
    BY DEF Held, Live
  <2>3. p[1] # t
    BY <1>3, <2>2
  <2>4. QED
    BY <1>2, <2>2, <2>3
<1>12. Outstanding(u)' = Outstanding(u)
  BY <1>7, <1>10 DEF Outstanding
<1>13. \A i : Unread(u, i)' = Unread(u, i)
  BY <1>3, <1>7, <1>8, <1>10, <1>11 DEF Unread
<1>14. Notified(u)' = Notified(u)
  <2>1. ASSUME NEW b \in Threads, b # t
        PROVE  (jobs[b] # <<>> /\ doing[b] = "notify" /\ Job(b).thread = u)' <=>
                   (jobs[b] # <<>> /\ doing[b] = "notify" /\ Job(b).thread = u)
    BY <1>2, <1>3, <2>1 DEF Job
  <2>2. doing[t] # "notify" /\ doing'[t] # "notify"
    BY <1>3
  <2>3. QED
    BY <2>1, <2>2 DEF Notified
<1>15. QED
  BY <1>2, <1>3, <1>7, <1>8, <1>10, <1>11, <1>12, <1>13, <1>14

LEMMA StartKeeps ==
    ASSUME DiskInv, NEW t \in Searchers, StartBeamRound(t)
    PROVE  DiskInv'
<1>1. /\ step[t] = "round" /\ errors' = [errors EXCEPT ![t] = 0]
      /\ remaining' = [remaining EXCEPT ![t] = IF slots'[t] = <<>> THEN @ ELSE Len(slots'[t])]
      /\ step' = [step EXCEPT ![t] = IF slots'[t] = <<>> THEN "expand" ELSE "load"]
      /\ rounds' = [rounds EXCEPT ![t] = @ + 1]
      /\ UNCHANGED <<beam, seen, answers, buffer, doing, readErrors, failing>>
      /\ frontier' = [frontier EXCEPT ![t] = NextFrontier(Query(t), beam[t])]
      /\ slots' = [slots EXCEPT ![t] = slots'[t]]
  <2>1. slots'[t] = ClosestFirst(Query(t), NextFrontier(Query(t), beam[t]) \ Cached)
    BY RoundToRead
  <2>2. QED
    BY <2>1 DEF StartBeamRound, Go
<1>2. /\ frontier'[t] = NextFrontier(Query(t), beam[t]) /\ frontier'[t] \in SUBSET Nodes
      /\ slots'[t] \in Seq(Nodes) /\ Len(slots'[t]) \in Nat /\ Len(slots'[t]) <= BeamWidth
      /\ \A u \in frontier'[t] \ Cached : \E i \in DOMAIN slots'[t] : slots'[t][i] = u
      /\ \A u \in Searchers : u # t => frontier'[u] = frontier[u] /\ slots'[u] = slots[u]
  BY RoundToRead
<1>3. slots'[t] = <<>> <=> Len(slots'[t]) = 0
  BY <1>2
<1>4. PoolOf(t) /\ RoundOf(t) /\ AnsweredAlone(t) /\ remaining[t] = 0
  BY <1>1 DEF DiskInv, PoolInv, PoolOf
<1>5. /\ remaining'[t] = Len(slots'[t]) /\ errors'[t] = 0 /\ rounds'[t] = rounds[t] + 1
      /\ step'[t] = IF Len(slots'[t]) = 0 THEN "expand" ELSE "load"
  BY <1>1, <1>3, <1>4 DEF DiskInv, DiskTypes
<1>6. \A u \in Searchers : u # t => /\ remaining'[u] = remaining[u] /\ errors'[u] = errors[u]
                                   /\ rounds'[u] = rounds[u] /\ step'[u] = step[u]
  BY <1>1 DEF DiskInv, DiskTypes
<1>7. PICK k \in Nat :
          /\ k <= Len(slots'[t]) /\ Len(jobs'[t]) = k /\ jobs'[t] \in Seq(Jobs)
          /\ requests' \in Seq(Jobs) /\ jobs' \in [Threads -> Seq(Jobs)]
          /\ \A b \in Threads : b # t => jobs'[b] = jobs[b]
  BY RoundSent
<1>8. DiskTypes'
  <2>1. frontier' \in [Searchers -> SUBSET Nodes]
    BY <1>1, <1>2 DEF DiskInv, DiskTypes
  <2>2. slots' \in [Searchers -> Seq(Nodes)]
    BY <1>1, <1>2 DEF DiskInv, DiskTypes
  <2>3. /\ remaining' \in [Searchers -> Int] /\ errors' \in [Searchers -> Nat] /\ rounds' \in [Searchers -> Nat]
        /\ step' \in [Searchers -> {"round", "load", "park", "parked", "expand", "idle"}]
    BY <1>1, <1>2 DEF DiskInv, DiskTypes
  <2>4. \A u \in Searchers : Len(slots'[u]) <= BeamWidth
    BY <1>2 DEF DiskInv, DiskTypes
  <2>5. \A b \in Threads : Len(jobs'[b]) <= BeamWidth
    <3>1. BeamWidth \in Nat
      BY DiskAssumption
    <3>2. Len(jobs'[t]) <= BeamWidth
      BY ONLY <1>2, <1>7, <3>1
    <3>3. QED
      BY <1>7, <3>2 DEF DiskInv, DiskTypes
  <2>6. QED
    BY <1>1, <1>7, <2>1, <2>2, <2>3, <2>4, <2>5 DEF DiskInv, DiskTypes
<1>9. PoolOf(t)'
  <2>1. /\ Outstanding(t)' = Len(slots'[t])
        /\ \A j \in Queued(t)' : requests'[j].slot \in DOMAIN slots'[t]
        /\ \A p \in Held(t)' : jobs'[p[1]][p[2]].slot \in DOMAIN slots'[t]
        /\ \A i \in DOMAIN jobs'[t] : jobs'[t][i].thread = t
    BY RoundOutstanding
  <2>2. step'[t] # "load" => jobs'[t] = <<>>
    <3>1. Len(slots'[t]) = 0 => Len(jobs'[t]) = 0
      BY <1>2, <1>7
    <3>2. QED
      BY <1>5, <1>7, <3>1
  <2>3. QED
    BY <1>5, <2>1, <2>2 DEF PoolOf
<1>10. RoundOf(t)'
  <2>1. \A i \in DOMAIN slots'[t] : Unread(t, i)'
    BY RoundOutstanding
  <2>2. Query(t)' = Query(t)
    BY <1>1 DEF Query
  <2>3. rounds[t] \in Nat /\ rounds'[t] > 0 /\ rounds'[t] - 1 = rounds[t]
    BY <1>5 DEF DiskInv, DiskTypes
  <2>4. beam'[t] = Alone(Query(t)', rounds'[t] - 1)
    BY <1>1, <1>4, <2>2, <2>3 DEF RoundOf
  <2>5. frontier'[t] = NextFrontier(Query(t)', beam'[t])
    BY <1>1, <1>2, <2>2
  <2>6. failing'[t] = FALSE /\ ~(errors'[t] > 0)
    BY <1>1, <1>4, <1>5 DEF RoundOf, DiskInv, DiskTypes
  <2>7. step'[t] \in {"expand", "load"} /\ Len(answers'[t]) < Len(Workload[t])
    BY <1>1, <1>4, <1>5 DEF RoundOf
  <2>8. QED
    BY <1>2, <2>1, <2>3, <2>4, <2>5, <2>6, <2>7 DEF RoundOf, Waits
<1>11. AnsweredAlone(t)'
  BY <1>1, <1>4 DEF AnsweredAlone
<1>12. ASSUME NEW u \in Searchers, u # t PROVE PoolOf(u)' /\ RoundOf(u)' /\ AnsweredAlone(u)'
  <2>1. /\ Queued(u)' = Queued(u) /\ Held(u)' = Held(u) /\ Outstanding(u)' = Outstanding(u)
        /\ \A j \in Queued(u) : requests'[j] = requests[j]
        /\ \A p \in Held(u) : jobs'[p[1]][p[2]] = jobs[p[1]][p[2]]
        /\ \A i : Unread(u, i)' = Unread(u, i)
        /\ Notified(u)' = Notified(u) /\ jobs'[u] = jobs[u]
    BY <1>12, RoundSpares
  <2>2. PoolOf(u) /\ RoundOf(u) /\ AnsweredAlone(u)
    BY DEF DiskInv, PoolInv
  <2>3. /\ remaining'[u] = remaining[u] /\ errors'[u] = errors[u] /\ rounds'[u] = rounds[u]
        /\ step'[u] = step[u] /\ frontier'[u] = frontier[u] /\ slots'[u] = slots[u] /\ seen'[u] = seen[u]
        /\ beam'[u] = beam[u] /\ buffer'[u] = buffer[u] /\ failing'[u] = failing[u] /\ answers'[u] = answers[u]
    BY <1>1, <1>2, <1>6, <1>12
  <2>4. PoolOf(u)'
    BY <2>1, <2>2, <2>3 DEF PoolOf
  <2>5. Query(u)' = Query(u)
    BY <2>3 DEF Query
  <2>6. RoundOf(u)'
    BY <2>1, <2>2, <2>3, <2>5 DEF RoundOf
  <2>7. AnsweredAlone(u)'
    BY <2>2, <2>3 DEF AnsweredAlone
  <2>8. QED
    BY <2>4, <2>6, <2>7
<1>13. \A b \in Threads : jobs'[b] = <<>> => doing'[b] = "read"
  <2>1. jobs[t] = <<>> /\ t \in Threads
    BY <1>1, <1>4 DEF PoolOf, Threads
  <2>2. QED
    BY <1>1, <1>7, <2>1 DEF DiskInv, PoolInv
<1>14. QED
  BY <1>8, <1>9, <1>10, <1>11, <1>12, <1>13 DEF DiskInv, PoolInv
-----------------------------------------------------------------------------
LEMMA DiskNextKeeps == DiskInv /\ [DiskNext]_diskVars => DiskInv'
<1> SUFFICES ASSUME DiskInv, [DiskNext]_diskVars PROVE DiskInv'
  OBVIOUS
<1>1. ASSUME NEW t \in Searchers, Searching(t) PROVE DiskInv'
  BY <1>1, StartKeeps, WaitKeeps, ThrowKeeps, ExpandRoundKeeps DEF Searching
<1>2. ASSUME NEW w \in IoThreads, Take(w) PROVE DiskInv'
  BY <1>2, TakeKeeps
<1>3. ASSUME NEW a \in Threads, Executing(a) PROVE DiskInv'
  BY <1>3, ReadKeeps, ReadFailsKeeps, CountKeeps, NotifyAllKeeps DEF Executing
<1>4. CASE UNCHANGED diskVars
  <2>1. /\ SamePool /\ UNCHANGED <<beam, frontier, step, seen, rounds, answers, readErrors, failing>>
    BY <1>4 DEF diskVars, searchVars, ioVars, SamePool
  <2>2. DiskTypes'
    BY <2>1 DEF DiskInv, DiskTypes, SamePool
  <2>3. \A u \in Searchers : PoolOf(u)' /\ RoundOf(u)' /\ AnsweredAlone(u)'
    BY <2>1, OthersKeep
  <2>4. \A b \in Threads : jobs'[b] = <<>> => doing'[b] = "read"
    BY <2>1 DEF DiskInv, PoolInv, SamePool
  <2>5. QED
    BY <2>2, <2>3, <2>4 DEF DiskInv, PoolInv
<1>5. QED
  BY <1>1, <1>2, <1>3, <1>4 DEF DiskNext

\* The types of the module, its counters and its beams.
THEOREM DiskInvariant == DiskSpec => []DiskInv
<1>1. DiskInit => DiskInv
  BY DiskInitIInv
<1>2. DiskInv /\ [DiskNext]_diskVars => DiskInv'
  BY DiskNextKeeps
<1>3. QED
  BY <1>1, <1>2, PTL DEF DiskSpec

\* For any graph, any cache, any number of threads and any interleaving of their
\* reads, a query answers what it would alone, throws exactly when a read of its
\* own failed, and does not miss its wake-up.
THEOREM SearchesAreSequential == DiskSpec => []DiskSearchIsSequential
<1>1. DiskInv => DiskSearchIsSequential
  <2>1. SUFFICES ASSUME DiskInv PROVE DiskSearchIsSequential
    OBVIOUS
  <2>2. \A t \in Searchers : AnsweredAlone(t) /\ PoolOf(t)
    BY <2>1 DEF DiskInv, PoolInv
  <2>3. QED
    BY <2>2 DEF DiskSearchIsSequential, AnsweredAlone, PoolOf, Notified
<1>2. QED
  BY <1>1, DiskInvariant, PTL
==============================================================================
