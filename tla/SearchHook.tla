----------------------------- MODULE SearchHook ------------------------------
(***************************************************************************)
(* The browser's instant search (web: hooks/useSearch.ts over              *)
(* api/client.ts): each change of the query starts a run of its own, which *)
(* waits for the typing to stop, reads a stream of a lexical and a final   *)
(* list, and falls back to one plain request when the stream breaks before *)
(* the final list.  A newer query aborts the runs before it, but what such *)
(* a run has already received is still handed to its callbacks.            *)
(*                                                                         *)
(* A query is [text, mode]; runs are numbered by their generation.  An     *)
(* abort and the next generation come in one step of the effect, so `live` *)
(* is a comparison of generations.  Times, spans and parsing are left out; *)
(* a list that does not parse and an error event end a stream alike.       *)
(***************************************************************************)
EXTENDS Naturals, Sequences

CONSTANTS
    Texts, NoText,   \* what the box may hold, and the empty box
    Modes,
    MaxQueries       \* bound: changes of the query

ASSUME TextsAssumption == NoText \notin Texts /\ MaxQueries \in Nat

VARIABLES
    queries,   \* the parameters of every generation so far
    runs,      \* its run: [at, broken, gotFinal]
    shown      \* the hook's state: [phase, of, list, stale]

hookVars == <<queries, runs, shown>>

generation == Len(queries)
\* Faulty variant of Live: an aborted run still counts.
LiveAnyhow(g) == TRUE
Live(g) == g = generation

\* The request ids of a run: its stream's, on both lists, and its fallback's.
Ids == (1 .. MaxQueries) \X {"stream", "get"}
NoList == [id |-> <<0, "none">>, text |-> NoText, phase |-> "none"]
Idle == [phase |-> "idle", of |-> 0, list |-> NoList, stale |-> FALSE]

HookInit == queries = <<>> /\ runs = <<>> /\ shown = Idle

\* The effect of changed parameters: the run before is aborted, and its timer
\* cleared; the list it showed stays, marked stale.
Ask(p) ==
    /\ generation < MaxQueries
    /\ queries' = Append(queries, p)
    /\ runs' = Append([g \in DOMAIN runs |->
                           IF runs[g].at = "timer" THEN [runs[g] EXCEPT !.at = "over"] ELSE runs[g]],
                      [at |-> IF p.text = NoText THEN "over" ELSE "timer",
                       broken |-> FALSE, gotFinal |-> FALSE])
    /\ shown' = IF p.text = NoText THEN Idle
                ELSE [shown EXCEPT !.phase = "loading", !.stale = shown.list # NoList]

\* The debounce timer fires and the stream is requested.
Start(g) ==
    /\ runs[g].at = "timer"
    /\ runs' = [runs EXCEPT ![g].at = "stream"]
    /\ UNCHANGED <<queries, shown>>

Showing(g, phase, id) ==
    [phase |-> phase, of |-> g, stale |-> FALSE,
     list |-> [id |-> id, text |-> queries[g].text, phase |-> phase]]

\* onResults with a lexical list: dropped after a final one.
LexicalList(g) ==
    /\ runs[g].at = "stream" /\ ~runs[g].broken
    /\ Live(g) /\ ~runs[g].gotFinal
    /\ shown' = Showing(g, "lexical", <<g, "stream">>)
    /\ UNCHANGED <<queries, runs>>

FinalList(g) ==
    /\ runs[g].at = "stream" /\ ~runs[g].broken
    /\ Live(g)
    /\ runs' = [runs EXCEPT ![g].gotFinal = TRUE]
    /\ shown' = Showing(g, "final", <<g, "stream">>)
    /\ UNCHANGED queries

\* An error event, or a list that does not parse: what follows is ignored.
ErrorEvent(g) ==
    /\ runs[g].at = "stream" /\ ~runs[g].broken
    /\ runs' = [runs EXCEPT ![g].broken = TRUE]
    /\ UNCHANGED <<queries, shown>>

Over(g) == [runs EXCEPT ![g].at = "over"]
Failed(g) == [shown EXCEPT !.phase = "error", !.of = g, !.stale = shown.list # NoList]

\* streamSearch rejects: an aborted run ends silently, one without its final
\* list asks once more, one with it reports the failure.
Reject(g) ==
    /\ runs[g].at = "stream"
    /\ runs' = IF Live(g) /\ ~runs[g].gotFinal THEN [runs EXCEPT ![g].at = "fallback"] ELSE Over(g)
    /\ shown' = IF Live(g) /\ runs[g].gotFinal THEN Failed(g) ELSE shown
    /\ UNCHANGED queries

\* The stream ends with its final list and without an error.
Resolve(g) ==
    /\ runs[g].at = "stream" /\ ~runs[g].broken /\ runs[g].gotFinal /\ Live(g)
    /\ runs' = Over(g)
    /\ UNCHANGED <<queries, shown>>

\* The plain request is answered, or fails.
Answer(g) ==
    /\ runs[g].at = "fallback"
    /\ runs' = [Over(g) EXCEPT ![g].gotFinal = Live(g)]
    /\ shown' = IF Live(g) THEN Showing(g, "final", <<g, "get">>) ELSE shown
    /\ UNCHANGED queries

AnswerFails(g) ==
    /\ runs[g].at = "fallback"
    /\ runs' = Over(g)
    /\ shown' = IF Live(g) THEN Failed(g) ELSE shown
    /\ UNCHANGED queries

\* What arrives of run g while the service answers, and what when it does not.
Served(g) == Start(g) \/ LexicalList(g) \/ FinalList(g) \/ Resolve(g) \/ (~Live(g) /\ Reject(g))
Unserved(g) == ErrorEvent(g) \/ Reject(g) \/ Answer(g) \/ AnswerFails(g)

-----------------------------------------------------------------------------
\* Whatever arrives of older queries, and in whatever order: the lists and the
\* errors on the page are the newest query's unless they are marked stale, a
\* final list is not replaced by the lexical one of its query, a query is left
\* with its final list or an error, and an empty box shows nothing.
ShownIsNewest ==
    /\ shown.phase \in {"lexical", "final", "error"} => shown.of = generation
    /\ shown.list # NoList /\ ~shown.stale =>
           shown.list.id[1] = generation /\ shown.phase = shown.list.phase
    /\ generation > 0 =>
           LET run == runs[generation]
               asks == queries[generation].text # NoText
           IN  /\ run.gotFinal => shown.phase \in {"final", "error"}
                                  /\ shown.list.id[1] = generation /\ shown.list.phase = "final"
               /\ run.at = "over" /\ asks => shown.phase \in {"final", "error"}
               /\ run.at \in {"timer", "fallback"} => shown.phase \in {"loading", "lexical"}
               /\ ~asks => shown = Idle
==============================================================================
