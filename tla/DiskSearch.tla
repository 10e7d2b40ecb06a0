----------------------------- MODULE DiskSearch ------------------------------
(***************************************************************************)
(* Vector queries over the graph on disk (engine/src/vector/disk_index.cc):  *)
(* beam search whose rounds read the records of the closest unexpanded      *)
(* candidates, one read by the querying thread and the others by the pool   *)
(* of I/O threads that all queries share (IoPool).  A thread reuses its     *)
(* buffer and its completion counters (DiskScratch) from query to query.    *)
(*                                                                          *)
(* A query is a record of near and exact, the approximate distance and the  *)
(* score of every node, of L, k, and limited, whether it has a deadline.    *)
(* A record on disk is known by its node: Graph says whose neighbours are   *)
(* in it.                                                                   *)
(***************************************************************************)
EXTENDS Integers, Sequences, FiniteSets

\* Workload: the queries each of the Searchers, the querying threads, runs one
\* after the other.  IoThreads: the pool, empty for IoMode::kSequential.
\* Cached: the nodes kept in memory.  BeamWidth: W.  Bound: MaxReadErrors.
CONSTANTS Searchers, IoThreads, Workload, Graph, Medoid, Cached, BeamWidth, MaxReadErrors

Nodes == 1 .. Len(Graph)
Threads == Searchers \cup IoThreads
VectorQueries == [near : [Nodes -> Int], exact : [Nodes -> Int], L : Nat, k : Nat, limited : BOOLEAN]
ASSUME DiskAssumption ==
    /\ IsFiniteSet(Searchers) /\ IsFiniteSet(IoThreads) /\ Searchers \cap IoThreads = {}
    /\ Graph \in Seq(SUBSET Nodes) /\ Medoid \in Nodes /\ Cached \subseteq Nodes /\ BeamWidth \in Nat \ {0}
    /\ Workload \in [Searchers -> Seq(VectorQueries) \ {<<>>}]

VARIABLES
    beam,        \* the candidates of each thread's query, see Beam
    frontier,    \* the nodes of the round
    slots,       \* reqs: those of them that are read, in order
    buffer,      \* the record in each slot of the thread's buffer
    remaining,   \* DiskScratch.remaining
    errors,      \* DiskScratch.errors
    step,        \* where the thread is in search
    seen,        \* the value of remaining it goes to sleep on
    requests,    \* IoPool.q_: [thread, slot]
    jobs,        \* the requests a thread is executing, the first of them now
    doing,       \* how far it is with that: "read", "count", "notify"
    readErrors,  \* environment: reads that have failed so far
    rounds,      \* history: the rounds of the query
    failing,     \* history: a read of the query has failed
    answers      \* what the thread's queries returned

searchVars == <<beam, frontier, slots, step, seen, rounds, answers>>
ioVars == <<buffer, remaining, errors, requests, jobs, doing, readErrors, failing>>
diskVars == <<searchVars, ioVars>>

------------------------------------------------------------------------------
(* Beam search, as one thread would run it alone (containers.hpp).           *)

Closer(q, u, v) == q.near[u] < q.near[v] \/ (q.near[u] = q.near[v] /\ u < v)
Ahead(q, nodes, u) == Cardinality({v \in nodes : Closer(q, v, u)})
Closest(q, nodes, n) == {u \in nodes : Ahead(q, nodes, u) < n}
ClosestFirst(q, nodes) == [i \in 1 .. Cardinality(nodes) |-> CHOOSE u \in nodes : Ahead(q, nodes, u) = i - 1]

\* A beam: the list L, those popped from it, VisitedSet, and full.
FirstBeam == [list |-> {Medoid}, popped |-> {}, visited |-> {Medoid}, full |-> {}]
Unexpanded(b) == b.list \ b.popped
NextFrontier(q, b) == Closest(q, Unexpanded(b), BeamWidth)
\* A round's nodes, each with the record that was read for it.
Expanded(q, b, records) ==
    LET new == UNION {Graph[records[u]] : u \in DOMAIN records} \ b.visited
    IN  [list |-> Closest(q, b.list \cup new, q.L),
         popped |-> b.popped \cup DOMAIN records,
         visited |-> b.visited \cup new,
         full |-> b.full \cup {[doc |-> u, score |-> q.exact[records[u]]] : u \in DOMAIN records}]
\* The best k of what has been expanded.
TopHits(q, b) ==
    LET ahead(h, i) == h.score > i.score \/ (h.score = i.score /\ h.doc < i.doc)
    IN  {h \in b.full : Cardinality({i \in b.full : ahead(i, h)}) < q.k}
\* The beam after so many rounds in which every node's own record was read.
Alone(q, n) ==
    LET after[r \in 0 .. n] ==
            IF r = 0 THEN FirstBeam
            ELSE Expanded(q, after[r - 1], [u \in NextFrontier(q, after[r - 1]) |-> u])
    IN  after[n]

Query(t) == Workload[t][Len(answers[t]) + 1]

------------------------------------------------------------------------------
DiskInit ==
    /\ beam = [t \in Searchers |-> FirstBeam]
    /\ frontier = [t \in Searchers |-> {}] /\ slots = [t \in Searchers |-> <<>>]
    /\ buffer = [t \in Searchers |-> [i \in 1 .. BeamWidth |-> Medoid]]
    /\ remaining = [t \in Searchers |-> 0] /\ errors = [t \in Searchers |-> 0]
    /\ step = [t \in Searchers |-> "round"] /\ seen = [t \in Searchers |-> 0]
    /\ requests = <<>>
    /\ jobs = [a \in Threads |-> <<>>]
    /\ doing = [a \in Threads |-> "read"]
    /\ readErrors = 0
    /\ rounds = [t \in Searchers |-> 0] /\ failing = [t \in Searchers |-> FALSE]
    /\ answers = [t \in Searchers |-> <<>>]

Go(t, to) == step' = [step EXCEPT ![t] = to]

\* A round begins: the closest unexpanded nodes, their reads, of which all but
\* the first go to the pool when there are several and there is a pool.
StartBeamRound(t) ==
    LET nodes == NextFrontier(Query(t), beam[t])
        reads == ClosestFirst(Query(t), nodes \ Cached)
        all == [i \in DOMAIN reads |-> [thread |-> t, slot |-> i]]
        shared == IoThreads # {} /\ Len(reads) > 1
    IN  /\ step[t] = "round"
        /\ frontier' = [frontier EXCEPT ![t] = nodes]
        /\ slots' = [slots EXCEPT ![t] = reads]
        /\ errors' = [errors EXCEPT ![t] = 0]
        /\ remaining' = [remaining EXCEPT ![t] = IF reads = <<>> THEN @ ELSE Len(reads)]
        /\ requests' = IF shared THEN requests \o Tail(all) ELSE requests
        /\ jobs' = [jobs EXCEPT ![t] = IF shared THEN <<all[1]>> ELSE all]
        /\ Go(t, IF reads = <<>> THEN "expand" ELSE "load")
        /\ rounds' = [rounds EXCEPT ![t] = @ + 1]
        /\ UNCHANGED <<beam, seen, answers, buffer, doing, readErrors, failing>>

\* A thread of the pool takes the oldest request.
Take(w) ==
    /\ jobs[w] = <<>> /\ requests # <<>>
    /\ jobs' = [jobs EXCEPT ![w] = <<Head(requests)>>]
    /\ requests' = Tail(requests)
    /\ UNCHANGED <<searchVars, buffer, remaining, errors, doing, readErrors, failing>>

------------------------------------------------------------------------------
(* IoPool::execute, by a thread of the pool or by the query's own.            *)

Job(a) == Head(jobs[a])

\* pread_full fills the slot.
Read(a) ==
    /\ jobs[a] # <<>> /\ doing[a] = "read"
    /\ buffer' = [buffer EXCEPT ![Job(a).thread][Job(a).slot] = slots[Job(a).thread][Job(a).slot]]
    /\ doing' = [doing EXCEPT ![a] = "count"]
    /\ UNCHANGED <<searchVars, remaining, errors, requests, jobs, readErrors, failing>>

\* It throws, which is counted.
ReadFails(a) ==
    /\ jobs[a] # <<>> /\ doing[a] = "read" /\ readErrors < MaxReadErrors
    /\ readErrors' = readErrors + 1
    /\ errors' = [errors EXCEPT ![Job(a).thread] = @ + 1]
    /\ failing' = [failing EXCEPT ![Job(a).thread] = TRUE]
    /\ doing' = [doing EXCEPT ![a] = "count"]
    /\ UNCHANGED <<searchVars, buffer, remaining, requests, jobs>>

Done(a) == jobs' = [jobs EXCEPT ![a] = Tail(@)] /\ doing' = [doing EXCEPT ![a] = "read"]

\* fetch_sub: the last read of the round has somebody to wake.
Count(a) ==
    /\ jobs[a] # <<>> /\ doing[a] = "count"
    /\ remaining' = [remaining EXCEPT ![Job(a).thread] = @ - 1]
    /\ IF remaining[Job(a).thread] = 1
       THEN doing' = [doing EXCEPT ![a] = "notify"] /\ UNCHANGED jobs
       ELSE Done(a)
    /\ UNCHANGED <<searchVars, buffer, errors, requests, readErrors, failing>>

\* notify_all, maybe long after the query has seen zero and gone on.
NotifyAll(a) ==
    /\ jobs[a] # <<>> /\ doing[a] = "notify"
    /\ step' = [step EXCEPT ![Job(a).thread] = IF @ = "parked" THEN "load" ELSE @]
    /\ Done(a)
    /\ UNCHANGED <<beam, frontier, slots, seen, rounds, answers,
                   buffer, remaining, errors, requests, readErrors, failing>>

------------------------------------------------------------------------------
(* The query waits for its reads: load, and wait on the value loaded.         *)

LoadRemaining(t) ==
    /\ step[t] = "load" /\ jobs[t] = <<>>
    /\ seen' = [seen EXCEPT ![t] = remaining[t]]
    /\ Go(t, IF remaining[t] = 0 THEN "expand" ELSE "park")
    /\ UNCHANGED <<ioVars, beam, frontier, slots, rounds, answers>>

\* Faulty variant of Park: it sleeps without comparing again.
ParkBlindly(t) ==
    /\ step[t] = "park"
    /\ Go(t, "parked")
    /\ UNCHANGED <<ioVars, beam, frontier, slots, seen, rounds, answers>>

\* wait sleeps only if the value is still the one loaded.
Park(t) ==
    /\ step[t] = "park"
    /\ Go(t, IF remaining[t] = seen[t] THEN "parked" ELSE "load")
    /\ UNCHANGED <<ioVars, beam, frontier, slots, seen, rounds, answers>>

------------------------------------------------------------------------------
\* The thread's query is over; the next one, if any, begins.
Answered(t, hits, partial, thrown) ==
    /\ answers' = [answers EXCEPT ![t] = Append(@,
           [hits |-> hits, partial |-> partial, thrown |-> thrown,
            rounds |-> rounds[t], failing |-> failing[t]])]
    /\ Go(t, IF Len(answers'[t]) < Len(Workload[t]) THEN "round" ELSE "idle")
    /\ beam' = [beam EXCEPT ![t] = FirstBeam]
    /\ rounds' = [rounds EXCEPT ![t] = 0]
    /\ failing' = [failing EXCEPT ![t] = FALSE]

\* "disk index read failed".
Throw(t) ==
    /\ step[t] = "expand" /\ errors[t] > 0
    /\ Answered(t, {}, FALSE, TRUE)
    /\ UNCHANGED <<frontier, slots, seen, buffer, remaining, errors, requests, jobs, doing, readErrors>>

\* What is in the buffer, or in memory, for the nodes of the round.
Records(t) ==
    [u \in frontier[t] |-> IF u \in Cached THEN u
                           ELSE buffer[t][CHOOSE i \in DOMAIN slots[t] : slots[t][i] = u]]

\* The round's nodes are expanded.  The clock is looked at after every round,
\* after the last one, too.
ExpandRound(t, late) ==
    /\ step[t] = "expand" /\ errors[t] = 0
    /\ late => Query(t).limited
    /\ LET next == Expanded(Query(t), beam[t], Records(t))
       IN  IF late \/ Unexpanded(next) = {}
           THEN Answered(t, TopHits(Query(t), next), late, FALSE)
           ELSE /\ beam' = [beam EXCEPT ![t] = next]
                /\ Go(t, "round") /\ UNCHANGED <<rounds, answers, failing>>
    /\ UNCHANGED <<frontier, slots, seen, buffer, remaining, errors, requests, jobs, doing, readErrors>>

Searching(t) == StartBeamRound(t) \/ LoadRemaining(t) \/ Park(t) \/ Throw(t) \/ \E late \in BOOLEAN : ExpandRound(t, late)
Executing(a) == Read(a) \/ ReadFails(a) \/ Count(a) \/ NotifyAll(a)

DiskNext ==
    \/ \E t \in Searchers : Searching(t)
    \/ \E w \in IoThreads : Take(w)
    \/ \E a \in Threads : Executing(a)

DiskSpec == DiskInit /\ [][DiskNext]_diskVars

------------------------------------------------------------------------------
Live(a, i) == i \in DOMAIN jobs[a] /\ (i = 1 => doing[a] # "notify")
Queued(t) == {i \in DOMAIN requests : requests[i].thread = t}
Held(t) == {p \in Threads \X (1 .. BeamWidth) : Live(p[1], p[2]) /\ jobs[p[1]][p[2]].thread = t}
Outstanding(t) == Cardinality(Queued(t)) + Cardinality(Held(t))

\* However the threads interleave, a query answers what it would alone after as
\* many rounds, complete unless it says partial; it throws exactly when one of
\* its own reads failed; and while it sleeps, reads of it are outstanding, or
\* the one who did the last is about to wake it ("the waiter re-checks the
\* count"), so it sleeps for ever only if the pool does.
DiskSearchIsSequential ==
    /\ \A t \in Searchers : \A i \in DOMAIN answers[t] :
          LET q == Workload[t][i]
              a == answers[t][i]
              b == Alone(q, a.rounds)
          IN  /\ a.thrown = a.failing
              /\ ~a.thrown => a.hits = TopHits(q, b) /\ (Unexpanded(b) # {} => a.partial)
    /\ \A t \in Searchers : step[t] = "parked" =>
          \/ Outstanding(t) > 0
          \/ \E a \in Threads : jobs[a] # <<>> /\ doing[a] = "notify" /\ Job(a).thread = t
==============================================================================
