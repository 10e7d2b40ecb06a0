---------------------------- MODULE MCJobsAndShard ----------------------------
(***************************************************************************)
(* For TLC, side by side because they share nothing: the jobs that train    *)
(* the reranker offline (OfflineJobs), and what a shard does with a search: *)
(* its server (ShardServer), a lexical (LexicalSearch) and a vector search  *)
(* (DiskSearch).  A behaviour is about one of the four.                     *)
(***************************************************************************)
EXTENDS OfflineJobs, LexicalSearch, DiskSearch, ShardServer

VARIABLE part   \* the one this behaviour is about

MCInit ==
    /\ part \in {"jobs", "server", "lexical", "disk"}
    /\ Init /\ ServerInit /\ DiskInit
    /\ IF part = "lexical" THEN LexicalInit ELSE IdleLexical

JobsStep    == part = "jobs" /\ Next /\ UNCHANGED <<part, shardVars, lexicalVars, diskVars>>
ServerStep  == part = "server" /\ ServerNext /\ UNCHANGED <<part, vars, lexicalVars, diskVars>>
LexicalStep == part = "lexical" /\ LexicalNext /\ UNCHANGED <<part, vars, shardVars, diskVars>>
DiskStep    == part = "disk" /\ DiskNext /\ UNCHANGED <<part, vars, shardVars, lexicalVars>>

\* As in OfflineJobs, a job takes its next step and is run again when it ended
\* early, so this is about the behaviours of the jobs.
MCSpec ==
    /\ MCInit /\ [][JobsStep \/ ServerStep \/ LexicalStep \/ DiskStep]_<<part, vars, shardVars, lexicalVars, diskVars>>
    /\ WF_vars(EncodeStep) /\ WF_vars(TrainerStep)
------------------------------------------------------------------------------
\* Three passages in two chunks, of which every second row is checked; three
\* steps of training, two batches each, evaluated after every second step and at
\* the end, checkpointed after every second step and at the end, by a model that
\* gets better, and by one that gets worse again.
MCOrders == <<<<"q1", "q2", "q3">>, <<"q3", "q1", "q2">>>>
MCQualities == {[s \in 0 .. 3 |-> 1 + s], [s \in 0 .. 3 |-> IF s = 2 THEN 3 ELSE 2]}

\* Queries of two and three terms over five documents in blocks of two, where
\* every second document or so scores higher.
Weights == {[d \in 1 .. 5 |-> 2], [d \in 1 .. 5 |-> IF d \in {2, 5} THEN 3 ELSE 1]}
Postings(docs) == {[d \in S |-> w[d]] : S \in docs, w \in Weights}
Long == Postings({{1, 4}, {2, 3, 5}, {1, 2, 3, 4, 5}, {5}, {3, 4, 5}})
TermLists == {<<>>} \cup {<<t>> : t \in Long}
             \cup {<<t, u>> : t \in Long, u \in Postings({S \in SUBSET (1 .. 5) : 1 \in S})}
             \cup {<<t, u, v>> : t \in Postings({{1, 4}, {5}}), u \in Long, v \in Postings({{1, 4}, {2, 3, 5}})}
MCLexicalQueries ==
    [terms : TermLists, k : {2}, algorithm : {"exhaustive", "daat", "maxscore", "wand", "bmw"},
     slack : {0}, limited : {FALSE}]
    \cup [terms : TermLists, k : {1}, algorithm : {"maxscore", "wand", "bmw"}, slack : {1}, limited : {TRUE}]
    \cup [terms : {<<t, t>> : t \in Long}, k : {0, 1}, algorithm : {"exhaustive", "daat"},
          slack : {0}, limited : {TRUE}]

\* Two threads with a query each and one more, on a graph of five nodes.
MCGraph == <<{2, 3, 4}, {1, 4, 5}, {2, 5}, {1, 3}, {4}>>
VectorQuery(near, exact, limited) ==
    [near |-> near, exact |-> exact, L |-> 3, k |-> 2, limited |-> limited]
MCWorkload == <<<<VectorQuery(<<5, 3, 4, 2, 1>>, <<1, 2, 3, 4, 5>>, TRUE),
                  VectorQuery(<<1, 2, 3, 4, 5>>, <<5, 4, 3, 2, 1>>, FALSE)>>,
                <<VectorQuery(<<3, 1, 1, 4, 2>>, <<1, 5, 3, 4, 2>>, FALSE)>>>>

\* Calls without a limit, with a budget, with a deadline that has passed, and
\* with a vector that does not fit; faults of every kind.
ShardCall(b, left1, lex, vec, fits) ==
    [budget |-> b, deadline |-> left1, lexical |-> lex, vector |-> vec, fits |-> fits]
MCShardCalls == {ShardCall(0, NoDeadline, TRUE, TRUE, TRUE), ShardCall(2, NoDeadline, TRUE, TRUE, TRUE),
                 ShardCall(0, -1, TRUE, FALSE, TRUE), ShardCall(2, 3, FALSE, TRUE, FALSE)}
MCFaults == {NoFaults, [delay |-> 3, failing |-> BOOLEAN, blackhole |-> FALSE],
             [delay |-> 0, failing |-> {FALSE}, blackhole |-> TRUE]}
==============================================================================
