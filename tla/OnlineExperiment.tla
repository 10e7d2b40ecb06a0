-------------------------- MODULE OnlineExperiment ---------------------------
(***************************************************************************)
(* A simulated experiment from the session to the report: which ranking a   *)
(* session sees (clicks/simulate.py), what the user clicks (clicks/models), *)
(* the events of the page and how the analyser puts pages together again    *)
(* from the events that reached its log (clicks/events.py), and the report  *)
(* (clicks/analyze_events.py, clicks/ab.py).  Means are totals with counts; *)
(* Welch's test and the bootstrap, which draw or take roots, are left out.  *)
(***************************************************************************)
EXTENDS Interleaving, Combinatorics

\* Click and stop percentages by DL grade 0..3, and the continuation of the DBN.
CONSTANTS Alpha, Sigma, Gamma, PageLength

None == "none"
NoMap == [x \in {} |-> None]
\* A dictionary f with what only g has, and g with the value v for x.
Over(f, g) == [x \in DOMAIN f \cup DOMAIN g |-> IF x \in DOMAIN f THEN f[x] ELSE g[x]]
Put(g, x, v) == Over([y \in {x} |-> v], g)
------------------------------------------------------------------------------
(* Users. *)

\* _lookup: an empty slot has grade -1 and no probability at all.
Lookup(table, g) == IF g < 0 THEN 0 ELSE table[Min({g, Len(table) - 1}) + 1]

\* DBN.simulate, by the random draws of each rank; Gamma 100 is the cascade model.
DBN(grades, draws) ==
    LET scan[r \in 0 .. Len(grades)] ==
            IF r = 0 THEN [examines |-> TRUE, clicks |-> {}, satisfied |-> {}]
            ELSE LET s == scan[r - 1]
                     click == s.examines /\ draws[r].click < Lookup(Alpha, grades[r])
                     happy == click /\ draws[r].sat < Lookup(Sigma, grades[r])
                 IN  [examines |-> s.examines /\ ~happy /\ draws[r].cont < Gamma,
                      clicks |-> IF click THEN s.clicks \cup {r} ELSE s.clicks,
                      satisfied |-> IF happy THEN s.satisfied \cup {r} ELSE s.satisfied]
    IN  scan[Len(grades)]
\* PBM.simulate: examined by rank, attracted by grade, independently.
PBM(grades, draws) ==
    LET clicks == {r \in DOMAIN grades :
                      draws[r].cont < 100 \div r /\ draws[r].click < Lookup(Alpha, grades[r])}
    IN  [clicks |-> clicks, satisfied |-> {r \in clicks : draws[r].sat < Lookup(Sigma, grades[r])}]

\* assign: a session's bucket decides enrolment, an independent hash its arm.
assign(session, allocation) ==
    IF session.bucket >= allocation THEN None ELSE IF session.arm = 0 THEN "control" ELSE "treatment"

\* simulate_experiment: the page of one request.
PageOf(exp, session, request, control, treatment, coins, draws, judged) ==
    LET arm == assign(session, exp.allocation)
        draft == team_draft(control, treatment, PageLength, coins)
        shown == IF arm = None THEN [docs |-> control, teams |-> <<>>, variant |-> None, experiment |-> None]
                 ELSE IF exp.kind = "interleave"
                 THEN [docs |-> draft.out, teams |-> draft.teams, variant |-> "interleaved", experiment |-> exp.id]
                 ELSE [docs |-> IF arm = "control" \/ exp.kind = "aa" THEN control ELSE treatment,
                       teams |-> <<>>, variant |-> arm, experiment |-> exp.id]
        grades == [r \in 1 .. PageLength |-> IF r <= Len(shown.docs) THEN Grade(judged, shown.docs[r]) ELSE -1]
        user == IF exp.model = "pbm" THEN PBM(grades, draws) ELSE DBN(grades, draws)
    IN  [request |-> request, session |-> session.id, clicks |-> user.clicks, docs |-> shown.docs,
         teams |-> shown.teams, variant |-> shown.variant, experiment |-> shown.experiment]
------------------------------------------------------------------------------
(* Events. *)

\* impression_events: the query, an impression per rank, a click and a dwell per
\* click, or that the page was abandoned; rank 0 stands for none.
impression_events(page) ==
    LET event(type, r) == [type |-> type, request |-> page.request, session |-> page.session,
                           experiment |-> page.experiment, variant |-> page.variant, rank |-> r,
                           team |-> IF r = 0 \/ page.teams = <<>> THEN None ELSE page.teams[r]]
    IN  {event("query", 0)} \cup {event("impression", r) : r \in DOMAIN page.docs}
        \cup {event(type, r) : type \in {"click", "dwell"}, r \in page.clicks}
        \cup (IF page.clicks = {} THEN {event("abandon", 0)} ELSE {})

\* pages_from_events, one event: a page is known by its request id; the first
\* event that names an experiment puts the page into it; a click's team counts
\* until the impression's is there.
NewPage(e) == [session |-> e.session, experiment |-> None, variant |-> None, ranks |-> {},
               teams |-> NoMap, clicked |-> {}, abandoned |-> FALSE]
EventTypes == {"impression", "click", "dwell", "query", "abandon"}
Enrol(page, e) ==
    IF e.experiment # None /\ page.experiment = None
    THEN [page EXCEPT !.experiment = e.experiment, !.variant = e.variant] ELSE page
ReadEvent(pages, e) ==
    LET page == Enrol(IF e.request \in DOMAIN pages THEN pages[e.request] ELSE NewPage(e), e)
        team == IF e.team = None THEN NoMap ELSE Put(NoMap, e.rank, e.team)
        ranked == e.type \in {"impression", "click", "dwell"}
    IN  IF e.type \notin EventTypes \/ e.request = None THEN pages
        ELSE Put(pages, e.request,
             CASE ranked /\ e.rank = 0     -> page
               [] e.type = "impression"    -> [page EXCEPT !.ranks = @ \cup {e.rank}, !.teams = Over(team, @)]
               [] e.type = "click"         -> [page EXCEPT !.clicked = @ \cup {e.rank}, !.teams = Over(@, team)]
               [] e.type = "abandon"       -> [page EXCEPT !.abandoned = TRUE]
               [] OTHER                    -> page)
\* The data-quality counter that depends on what was lost.
ClickWithoutImpression(pages) == {p \in DOMAIN pages : ~(pages[p].clicked \subseteq pages[p].ranks)}
------------------------------------------------------------------------------
(* The report. *)

\* Faulty variant of PageOutcome: clicks by rank, teams by position.
PageOutcomeMisaligned(page) ==
    LET ranks == Ordered(page.ranks, <)
        teams == [i \in DOMAIN ranks |-> IF ranks[i] \in DOMAIN page.teams THEN page.teams[ranks[i]] ELSE None]
    IN  team_draft_credit(teams, page.clicked \cap DOMAIN ranks)
\* Team-draft credit of a page: the teams by position among the ranks that were
\* logged; a click on any other rank has no position.
PageOutcome(page) ==
    LET ranks == Ordered(page.ranks, <)
        teams == [i \in DOMAIN ranks |-> IF ranks[i] \in DOMAIN page.teams THEN page.teams[ranks[i]] ELSE None]
    IN  team_draft_credit(teams, {i \in DOMAIN ranks : ranks[i] \in page.clicked})

\* impression_metrics of a row of click_matrix, which stops at the page length.
impression_metrics(clicked) ==
    LET row == clicked \cap 1 .. PageLength IN
    [ctr |-> Cardinality(row), clicks_at_1 |-> Cardinality(row \cap {1}),
     abandonment |-> IF row = {} THEN 1 ELSE 0, rr_first |-> IF row = {} THEN 0 ELSE Unit \div Min(row)]
MetricNames == {"ctr", "clicks_at_1", "abandonment", "rr_first"}
Sums(pages, P) ==
    [m \in MetricNames |-> MapThenSumSet(LAMBDA p : impression_metrics(pages[p].clicked)[m], P)]

\* sign_test_p, out of 2^(wins + losses).
sign_test_p(wins, losses) ==
    LET n == wins + losses IN
    Min({2 ^ n, 2 * MapThenSumSet(LAMBDA i : choose(n, i), 0 .. Min({wins, losses}))})
\* interleave_report; Delta_AB times twice the impressions.
interleave_report(pages, P) ==
    LET n(x) == Cardinality({p \in P : PageOutcome(pages[p]) = x}) IN
    [wins |-> n(1), losses |-> n(-1), ties |-> n(0),
     delta |-> 2 * n(1) + n(0) - Cardinality(P), p |-> sign_test_p(n(1), n(-1)),
     rank1 |-> Cardinality({p \in P : 1 \in DOMAIN pages[p].teams /\ pages[p].teams[1] = "A"})]
\* ab_report of the arms; the sessions are what srm_check compares.
Sessions(pages, P) == Cardinality({pages[p].session : p \in P})
ab_report(pages, P) ==
    LET arm(v) == {p \in P : pages[p].variant = v} IN
    [v \in {pages[p].variant : p \in P} |->
        [pages |-> Cardinality(arm(v)), sessions |-> Sessions(pages, arm(v)), sums |-> Sums(pages, arm(v))]]

\* analyse: each experiment by the kind the configuration gives it, or else by
\* whether any page has teams; pages of no experiment are counted apart.
Kind(pages, P, x, config) ==
    IF x \in DOMAIN config THEN config[x]
    ELSE IF \E p \in P : pages[p].teams # NoMap THEN "interleave" ELSE "ab"
analyse(pages, config) ==
    LET of(x) == {p \in DOMAIN pages : pages[p].experiment = x}
        ids == {pages[p].experiment : p \in DOMAIN pages} \ {None}
    IN  [pages |-> Cardinality(DOMAIN pages), sessions |-> Sessions(pages, DOMAIN pages),
         notEnrolled |-> Sums(pages, of(None)),
         interleaved |-> [x \in {y \in ids : Kind(pages, of(y), y, config) = "interleave"} |->
                             interleave_report(pages, of(x))],
         arms |-> [x \in {y \in ids : Kind(pages, of(y), y, config) # "interleave"} |-> ab_report(pages, of(x))]]
------------------------------------------------------------------------------
(* What they promise. *)

\* The pages as they were served, for an analyser that knows everything.
AsServed(served) ==
    [r \in {p.request : p \in served} |->
        LET p == CHOOSE q \in served : q.request = r IN
        [session |-> p.session, experiment |-> p.experiment, variant |-> p.variant, ranks |-> DOMAIN p.docs,
         teams |-> IF p.teams = <<>> THEN NoMap ELSE p.teams, clicked |-> p.clicks, abandoned |-> p.clicks = {}]]

\* Whatever of the events arrived, in whatever order and however often: the page
\* has exactly the ranks and clicks that arrived, an interleaved page's outcome
\* is the credit, by the teams as served, of the clicks that arrived with their
\* impression, and a click without one is counted; and once everything has
\* arrived the report is the one of the pages as served.
ReportFollowsLog(served, arrived, pages, config) ==
    LET truth == AsServed(served)
        at(p, type) == {e.rank : e \in {f \in arrived : f.request = p /\ f.type = type}}
    IN  /\ DOMAIN pages = {e.request : e \in arrived}
        /\ \A p \in DOMAIN pages :
              /\ pages[p].experiment = truth[p].experiment /\ pages[p].session = truth[p].session
              /\ pages[p].ranks = at(p, "impression") /\ pages[p].clicked = at(p, "click")
              /\ truth[p].teams # NoMap =>
                    PageOutcome(pages[p])
                        = team_draft_credit(truth[p].teams, at(p, "click") \cap at(p, "impression"))
              /\ p \in ClickWithoutImpression(pages) <=> ~(at(p, "click") \subseteq at(p, "impression"))
        /\ arrived = UNION {impression_events(q) : q \in served} =>
              analyse(pages, config) = analyse(truth, config)

\* The sign test is a test: of all outcomes of n impressions without a
\* preference, no more than c of 2^n have a p-value of c or less; and it does not
\* matter which ranker is called A.
SignTestIsValid(n) ==
    /\ \A c \in 1 .. 2 ^ n :
          MapThenSumSet(LAMBDA w : choose(n, w), {w \in 0 .. n : sign_test_p(w, n - w) <= c}) <= c
    /\ \A w \in 0 .. n : sign_test_p(w, n - w) = sign_test_p(n - w, w)
==============================================================================
