---------------------------- MODULE Interactions -----------------------------
(***************************************************************************)
(* The browser's interaction log: InteractionTracker turns what happens to *)
(* a served list into events (web: lib/interactions.ts), EventLogger keeps *)
(* them in a queue, sends them in batches and heeds the user's consent     *)
(* (lib/events.ts, lib/consent.ts, telemetry.ts).  Both run on the page's  *)
(* one thread; only a request under way outlives a step.                   *)
(*                                                                         *)
(* The client is one record, and an operator gives the client after a      *)
(* call.  A queued event is known by the consent it was logged under; what *)
(* it says is in `told`, which keeps for every list the events the tracker *)
(* asked for.  A list has one result; a batch that fails is dropped like   *)
(* one that arrives.                                                       *)
(***************************************************************************)
EXTENDS Naturals, Sequences, SequencesExt

CONSTANTS FlushAt, MAX_BATCH   \* opts.flushAt

ASSUME BatchAssumption == FlushAt \in Nat \ {0} /\ MAX_BATCH \in Nat \ {0}

flushAt == Min({FlushAt, MAX_BATCH})

NoOne == <<0, "none">>

\* consent counts the times it was given or withdrawn; leaked says that an event
\* of another consent was handed to the transport; posts are the batches behind
\* the requests that flushes await, alike ones counted once.
NewClient(ids) ==
    [enabled |-> TRUE, consent |-> 0, queue |-> <<>>, timer |-> FALSE, posts |-> {}, leaked |-> FALSE,
     current |-> NoOne, clicked |-> FALSE, dwell |-> NoOne, sawHidden |-> FALSE,
     impressed |-> {}, told |-> [id \in ids |-> <<>>]]

Batches(events) ==
    [i \in 1 .. (Len(events) + MAX_BATCH - 1) \div MAX_BATCH |->
        SubSeq(events, (i - 1) * MAX_BATCH + 1, Min({i * MAX_BATCH, Len(events)}))]

Handed(c, events) ==
    [c EXCEPT !.leaked = @ \/ \E e \in ToSet(events) : ~c.enabled \/ e # c.consent]

\* flush: everything queued, by beacon (all of it or, when the browser refuses,
\* none) or by requests one after the other.
Flush(c, beacon) ==
    LET empty == [c EXCEPT !.queue = <<>>, !.timer = FALSE]
        batches == Batches(c.queue)
    IN  IF ~c.enabled \/ batches = <<>> THEN empty
        ELSE IF beacon THEN Handed(empty, c.queue)
        ELSE [Handed(empty, Head(batches)) EXCEPT !.posts = @ \cup {Tail(batches)}]

\* A request has come back: the next batch of its flush, if there is one.
Posted(c, rest) ==
    IF rest = <<>> THEN [c EXCEPT !.posts = @ \ {rest}]
    ELSE [Handed(c, Head(rest)) EXCEPT !.posts = (@ \ {rest}) \cup {Tail(rest)}]

Log(c) ==
    LET d == [c EXCEPT !.queue = Append(@, c.consent)]
    IN  IF ~c.enabled THEN c
        ELSE IF Len(d.queue) >= flushAt THEN Flush(d, FALSE)
        ELSE [d EXCEPT !.timer = TRUE]

OptOut(c) == [c EXCEPT !.enabled = FALSE, !.consent = @ + 1, !.queue = <<>>, !.timer = FALSE]
OptIn(c) == [c EXCEPT !.enabled = TRUE, !.consent = @ + 1]

-----------------------------------------------------------------------------
(* The tracker. *)

Tell(c, id, type) == Log([c EXCEPT !.told[id] = Append(@, type)])

EndDwell(c) ==
    IF c.dwell = NoOne THEN c
    ELSE Tell([c EXCEPT !.dwell = NoOne, !.sawHidden = FALSE], c.dwell, "dwell")

CloseCurrent(c) ==
    IF c.current = NoOne \/ c.clicked THEN c ELSE Tell(c, c.current, "abandon")

Settled(c, id) ==
    IF c.current = id THEN c
    ELSE Tell([CloseCurrent(c) EXCEPT !.current = id, !.clicked = FALSE], id, "query")

Impression(c, id) ==
    IF c.current # id \/ id \in c.impressed THEN c
    ELSE Tell([c EXCEPT !.impressed = @ \cup {id}], id, "impression")

\* A click on a list settles it first (SearchPage.onOpen).
Click(c, id) ==
    LET d == EndDwell(Settled(c, id))
    IN  [Tell([d EXCEPT !.clicked = TRUE], id, "click") EXCEPT !.dwell = id, !.sawHidden = FALSE]

\* The page goes away for good, or the tab is hidden, or visible again.
Unloading(c) == [CloseCurrent(EndDwell(c)) EXCEPT !.current = NoOne, !.clicked = FALSE]
Hidden(c) == [c EXCEPT !.sawHidden = c.dwell # NoOne]
Visible(c, onResults) == IF c.sawHidden /\ onResults THEN EndDwell(c) ELSE c

-----------------------------------------------------------------------------
\* Nothing leaves the browser but under the consent it was logged under, and
\* what waits to leave has a timer to take it there.
SentUnderConsent(c) ==
    /\ ~c.leaked
    /\ c.queue # <<>> => c.timer /\ c.enabled /\ ToSet(c.queue) = {c.consent}

\* The visit that begins with the i-th event of a list's story.
Visit(story, i) ==
    {j \in i + 1 .. Len(story) : \A k \in i + 1 .. j : story[k] # "query"}

\* A list's story: every visit begins with its query and ends with an abandon
\* exactly if it had no click, the one that is still open excepted; clicks and
\* dwells alternate; the result is impressed once.
WellTold(story, open, dwelling) ==
    LET at(type) == {i \in DOMAIN story : story[i] = type}
    IN  /\ story # <<>> => story[1] = "query"
        /\ \A i \in at("query") :
               LET v == Visit(story, i)
                   last == \A j \in at("query") : j <= i
                   abandons == v \cap at("abandon")
               IN  /\ abandons \subseteq {i + Cardinality(v)}
                   /\ (abandons # {}) <=> (v \cap at("click") = {} /\ ~(last /\ open))
        /\ Cardinality(at("click")) = Cardinality(at("dwell")) + (IF dwelling THEN 1 ELSE 0)
        /\ \A i, j \in at("click") : i < j => \E k \in at("dwell") : i < k /\ k < j
        /\ Cardinality(at("impression")) <= 1
==============================================================================
