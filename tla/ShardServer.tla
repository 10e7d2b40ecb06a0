----------------------------- MODULE ShardServer -----------------------------
(***************************************************************************)
(* The Search call of a shard (engine/src/server/shard_service.cc): the      *)
(* tighter of two budgets, faults injected as a control file says           *)
(* (chaos.cc), what is left then, and the lexical and the vector half under *)
(* it, side by side or one after the other.  The halves are LexicalSearch   *)
(* and DiskSearch; here each ends by itself, is cut at its deadline, or     *)
(* throws (the vector half).                                                *)
(*                                                                          *)
(* Time is counted in ticks; what needs no waiting takes none.  Calls share *)
(* nothing but Chaos, behind a lock: one at a time is modelled.             *)
(***************************************************************************)
EXTENDS Integers, Sequences, FiniteSets, FiniteSetsExt

\* ShardCalls: records of budget, the request's (0 for none); deadline, the ticks
\* its gRPC deadline leaves (NoDeadline, or one that may have passed); lexical
\* and vector, what it enables; and fits, that its vector has the index's
\* dimension.  Faults: what the control file may say: delay, failing (the
\* outcomes sample_failure can have) and blackhole.  Recheck: how long Chaos
\* relies on what it read (250 ms).  Hold: 30 s.  Granule: how late a half may
\* notice its deadline.  Bounds: MaxCalls, MaxWrites, MaxTicks.
CONSTANTS ShardCalls, Faults, Recheck, Hold, Granule, MaxCalls, MaxWrites, MaxTicks

ASSUME ServerAssumption ==
    /\ ShardCalls \subseteq [budget : Nat, deadline : Int, lexical : BOOLEAN, vector : BOOLEAN, fits : BOOLEAN]
    /\ Faults \subseteq [delay : Nat, failing : (SUBSET BOOLEAN) \ {{}}, blackhole : BOOLEAN]
    /\ Recheck \in Nat /\ Hold \in Nat /\ Granule \in Nat

NoDeadline == 1000
NoFaults == [delay |-> 0, failing |-> {FALSE}, blackhole |-> FALSE]
Missing == 0
Halves == {"lexical", "vector"}
NoCall == [budget |-> 0, deadline |-> NoDeadline, lexical |-> FALSE, vector |-> FALSE, fits |-> TRUE]
NoReply == [status |-> "none"]
NoHalf == [state |-> "off", at |-> 0, cut |-> FALSE]

VARIABLES
    ticks,     \* the clock
    control,   \* external: the control file: [says, version], version its mtime
    writes,    \* external: how often it was written
    said,      \* history: what it said in each of the last ticks, 0 being now
    chaos,     \* Chaos: settings_, last_mtime_ns_ and last_check_
    parallel,  \* ShardConfig.parallel_retrieval
    call,      \* the request
    serving,   \* where Search is
    began,     \* t0
    budget,    \* budget_us
    wakes,     \* the end of an injected delay
    left,      \* remaining_us
    half,      \* each half: state, deadline (0 for none), and whether cut
    served,    \* how many calls have returned
    reply      \* history: what the last one has just returned, and when

chaosVars == <<control, writes, said, chaos>>
callVars == <<parallel, call, began, budget>>
shardVars == <<ticks, chaosVars, callVars, serving, wakes, left, half, served, reply>>

ServerInit ==
    /\ ticks = 0 /\ control = [says |-> NoFaults, version |-> Missing] /\ writes = 0
    /\ said = [i \in 0 .. Recheck |-> {NoFaults}]
    /\ chaos = [says |-> NoFaults, version |-> -1, checked |-> 0]
    /\ parallel \in BOOLEAN /\ call = NoCall
    /\ serving = "free" /\ began = 0 /\ budget = 0 /\ wakes = 0 /\ left = 0
    /\ half = [h \in Halves |-> NoHalf] /\ served = 0 /\ reply = NoReply

------------------------------------------------------------------------------
(* Chaos. *)

\* An experiment writes the control file, or removes it.
WriteControl(says) ==
    /\ writes < MaxWrites /\ writes' = writes + 1
    /\ control' = [says |-> says, version |-> IF says = NoFaults THEN Missing ELSE writes + 1]
    /\ said' = [said EXCEPT ![0] = @ \cup {says}]
    /\ UNCHANGED <<ticks, chaos, callVars, serving, wakes, left, half, served, reply>>

\* Chaos::current: the file is looked at again when what was read is old, and
\* read again when it is another one.
Settings ==
    IF chaos.version # -1 /\ ticks - chaos.checked < Recheck THEN chaos
    ELSE IF control.version = chaos.version THEN [chaos EXCEPT !.checked = ticks]
    ELSE [says |-> control.says, version |-> control.version, checked |-> ticks]

------------------------------------------------------------------------------
(* ShardService::Search. *)

\* effective_budget_us: a deadline that has passed is a budget, and not none.
effective_budget(c) ==
    LET grpc == Max({c.deadline, 1})
    IN  IF c.deadline = NoDeadline THEN c.budget
        ELSE IF c.budget = 0 THEN grpc ELSE Min({c.budget, grpc})

\* Faulty variant of remaining_us: nothing left is nothing, which means no limit.
remaining_or_none(elapsed) == IF budget > elapsed THEN budget - elapsed ELSE 0
remaining_us(elapsed) ==
    IF budget = 0 THEN 0 ELSE IF budget > elapsed THEN budget - elapsed ELSE 1

\* A call comes in; a blackhole and a delay make it sleep.
Arrive(c) ==
    /\ serving = "free" /\ served < MaxCalls
    /\ call' = c /\ began' = ticks /\ budget' = effective_budget(c)
    /\ chaos' = Settings
    /\ IF Settings.says.blackhole
       THEN serving' = "held" /\ wakes' = ticks + (IF budget' > 0 THEN budget' ELSE Hold)
       ELSE serving' = "delayed" /\ wakes' = ticks + Settings.says.delay
    /\ reply' = NoReply
    /\ UNCHANGED <<ticks, control, writes, said, parallel, left, half, served>>

\* The call returns.
Reply(status, cut) ==
    /\ reply' = [status |-> status, partial |-> cut, call |-> call, took |-> ticks - began]
    /\ served' = served + 1 /\ serving' = "free"
    /\ call' = NoCall /\ began' = 0 /\ budget' = 0 /\ wakes' = 0 /\ left' = 0
    /\ half' = [h \in Halves |-> NoHalf]
    /\ UNCHANGED <<ticks, chaosVars, parallel>>

Blackholed == serving = "held" /\ ticks >= wakes /\ Reply("deadline_exceeded", FALSE)

InjectedFailure ==
    /\ serving = "delayed" /\ ticks >= wakes /\ TRUE \in chaos.says.failing
    /\ Reply("unavailable", FALSE)

WrongDimension ==
    /\ serving = "delayed" /\ ticks >= wakes /\ FALSE \in chaos.says.failing
    /\ call.vector /\ ~call.fits
    /\ Reply("invalid_argument", FALSE)

\* What is left is measured, and the halves are due.
Measure ==
    /\ serving = "delayed" /\ ticks >= wakes /\ FALSE \in chaos.says.failing
    /\ call.vector => call.fits
    /\ left' = remaining_us(ticks - began)
    /\ half' = [lexical |-> [NoHalf EXCEPT !.state = IF call.lexical THEN "due" ELSE "off"],
                vector |-> [NoHalf EXCEPT !.state = IF call.vector THEN "due" ELSE "off"]]
    /\ serving' = "searching"
    /\ UNCHANGED <<ticks, chaosVars, callVars, wakes, served, reply>>

Underway(h) == half[h].state \in {"due", "running"}

\* A half starts, with a deadline of its own: the vector half at once on a
\* thread of its own, or when the lexical half is over.
Starts(h) == half[h].state = "due" /\ (h = "vector" => parallel \/ ~Underway("lexical"))
StartHalf(h) ==
    /\ Starts(h)
    /\ half' = [half EXCEPT ![h] = [state |-> "running", cut |-> FALSE,
                                    at |-> IF left = 0 THEN 0 ELSE ticks + left]]
    /\ UNCHANGED <<ticks, chaosVars, callVars, serving, wakes, left, served, reply>>

EndHalf(h, to, cut) ==
    /\ half[h].state = "running"
    /\ cut => half[h].at > 0 /\ ticks >= half[h].at
    /\ half' = [half EXCEPT ![h].state = to, ![h].cut = cut]
    /\ UNCHANGED <<ticks, chaosVars, callVars, serving, wakes, left, served, reply>>

\* A read error of the vector half ends the call, whatever the lexical one found.
EndSearch ==
    /\ serving = "searching" /\ \A h \in Halves : ~Underway(h)
    /\ IF half["vector"].state = "thrown" THEN Reply("unknown", FALSE)
       ELSE Reply("ok", \E h \in Halves : half[h].cut)

\* Sleepers wake in time, and a running half notices its deadline soon.
Tick ==
    /\ ticks < MaxTicks
    /\ serving \in {"held", "delayed"} => ticks < wakes
    /\ serving = "searching" => /\ \A h \in Halves : ~Starts(h)
                                /\ \E h \in Halves : Underway(h)
    /\ \A h \in Halves : half[h].state = "running" /\ half[h].at > 0 => ticks < half[h].at + Granule
    /\ ticks' = ticks + 1
    /\ said' = [i \in 0 .. Recheck |-> IF i = 0 THEN {control.says} ELSE said[i - 1]]
    /\ UNCHANGED <<control, writes, chaos, callVars, serving, wakes, left, half, served, reply>>

ServerNext ==
    \/ Tick \/ \E says \in Faults : WriteControl(says)
    \/ \E c \in ShardCalls : Arrive(c)
    \/ Blackholed \/ InjectedFailure \/ WrongDimension \/ Measure
    \/ \E h \in Halves : StartHalf(h) \/ \E cut \in BOOLEAN : EndHalf(h, "done", cut)
    \/ EndHalf("vector", "thrown", FALSE)
    \/ EndSearch

ServerSpec == ServerInit /\ [][ServerNext]_shardVars

------------------------------------------------------------------------------
\* A limited call is back when its budget is used up, or an injected delay that
\* used it up is over, and then at most a tick and one granule later, or with
\* the halves one after the other as much again as the first was given; it is
\* partial only then; and the faults it met are those the control file asked
\* for at some moment of the last 250 ms (shard_service.hpp "under one
\* deadline", chaos.hpp "at most every 250 ms").
Allowed ==
    LET b == effective_budget(call)
        slept == wakes - began
        rest == IF b > slept THEN b - slept ELSE 1
        inTurn == ~parallel /\ call.lexical /\ call.vector
    IN  slept + (rest + Granule) * (IF inTurn THEN 2 ELSE 1)

AnswersInBudget ==
    /\ serving # "free" /\ ticks = began => chaos.says \in UNION {said[i] : i \in 0 .. Recheck}
    /\ reply.status # "none" /\ reply.partial =>
          LET b == effective_budget(reply.call) IN b > 0 /\ reply.took >= b
    /\ effective_budget(call) > 0 /\ serving # "free" => ticks - began <= Allowed
==============================================================================
