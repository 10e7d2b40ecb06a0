---------------------------- MODULE Interleaving -----------------------------
(***************************************************************************)
(* Interleaved comparison of two rankings (clicks/interleave.py): the       *)
(* scalar forms that the event report and the golden tests use, and the     *)
(* vectorised forms of the simulation study.  A ranking is a sequence of    *)
(* documents; clicks are a set of positions, from 1, or, in the vectorised  *)
(* forms, a Boolean per position.                                           *)
(***************************************************************************)
EXTENDS Evaluation

\* advance: where a ranking's first document that is not shown yet is, or 0.
Advance(l, out) ==
    LET left == {i \in DOMAIN l : l[i] \notin Range(out)} IN IF left = {} THEN 0 ELSE Min(left)
Drafted(teams, t) == Cardinality({i \in DOMAIN teams : teams[i] = t})

\* Faulty variant of Turn: A picks first whenever the teams are equal.
TurnForA(a, b, s) ==
    LET ta == Drafted(s.teams, "A")
        tb == Drafted(s.teams, "B")
        picksA == IF ta <= tb THEN Advance(a, s.out) # 0 ELSE Advance(b, s.out) = 0
    IN  [s EXCEPT !.out = Append(@, IF picksA THEN a[Advance(a, s.out)] ELSE b[Advance(b, s.out)]),
                  !.teams = Append(@, IF picksA THEN "A" ELSE "B"),
                  !.used = IF ta = tb THEN @ + 1 ELSE @]

\* One turn of the team draft: the smaller team picks, of equal ones the team
\* the next coin names (TRUE is A), and the other where that one has nothing left.
Turn(a, b, s) ==
    LET ta == Drafted(s.teams, "A")
        tb == Drafted(s.teams, "B")
        wantsA == ta < tb \/ (ta = tb /\ s.coins[s.used + 1])
        picksA == IF wantsA THEN Advance(a, s.out) # 0 ELSE Advance(b, s.out) = 0
    IN  [s EXCEPT !.out = Append(@, IF picksA THEN a[Advance(a, s.out)] ELSE b[Advance(b, s.out)]),
                  !.teams = Append(@, IF picksA THEN "A" ELSE "B"),
                  !.used = IF ta = tb THEN @ + 1 ELSE @]
\* CoinsExhausted: a tie, and no coin left.
OutOfCoins(s) == Drafted(s.teams, "A") = Drafted(s.teams, "B") /\ s.used = Len(s.coins)
AllShown(a, b, s) == Advance(a, s.out) = 0 /\ Advance(b, s.out) = 0

\* team_draft, which stops at k documents, at the end of both rankings, or, with
\* `short`, for want of a coin.
team_draft(a, b, k, coins) ==
    LET draft[n \in 0 .. k] ==
            IF n = 0 THEN [out |-> <<>>, teams |-> <<>>, used |-> 0, coins |-> coins, short |-> FALSE]
            ELSE LET s == draft[n - 1] IN
                 IF s.short \/ AllShown(a, b, s) THEN s
                 ELSE IF OutOfCoins(s) THEN [s EXCEPT !.short = TRUE] ELSE Turn(a, b, s)
    IN  draft[k]

\* enumerate_team_draft: the coin sequences that are used up exactly; each has
\* the probability 2^-used, here as a weight out of 2^k.
enumerate_team_draft(a, b, k) ==
    LET drafts == {team_draft(a, b, k, c) : c \in UNION {[1 .. n -> BOOLEAN] : n \in 0 .. k}}
    IN  {s \in drafts : ~s.short /\ s.used = Len(s.coins)}
Weight(s, k) == 2 ^ (k - s.used)

Winner(x, y) == IF x > y THEN 1 ELSE IF y > x THEN -1 ELSE 0
team_draft_credit(teams, clicked) ==
    Winner(Cardinality({p \in clicked : teams[p] = "A"}), Cardinality({p \in clicked : teams[p] = "B"}))

\* balanced: a document that is already shown uses up a ranking's turn.
balanced(a, b, k, aFirst) ==
    LET step(s) ==
            LET takesA == IF s.ka < Len(a) /\ s.kb < Len(b)
                          THEN s.ka < s.kb \/ (s.ka = s.kb /\ aFirst) ELSE s.ka < Len(a)
                doc == IF takesA THEN a[s.ka + 1] ELSE b[s.kb + 1]
            IN  [out |-> IF doc \in Range(s.out) THEN s.out ELSE Append(s.out, doc),
                 ka |-> IF takesA THEN s.ka + 1 ELSE s.ka, kb |-> IF takesA THEN s.kb ELSE s.kb + 1]
        page[n \in 0 .. Len(a) + Len(b)] ==
            IF n = 0 THEN [out |-> <<>>, ka |-> 0, kb |-> 0]
            ELSE IF Len(page[n - 1].out) = k THEN page[n - 1] ELSE step(page[n - 1])
    IN  page[Len(a) + Len(b)].out

\* Ranks from 1, and a rank beyond all for a document that a ranking lacks.
Beyond == 1000
RankIn(l, d) == IF d \in Range(l) THEN CHOOSE i \in DOMAIN l : l[i] = d ELSE Beyond
balanced_credit(a, b, out, clicked) ==
    LET last == out[Max(clicked)]
        kk == Min({RankIn(a, last), RankIn(b, last)})
        hits(l) == Cardinality({p \in clicked : RankIn(l, out[p]) <= kk})
    IN  IF clicked = {} THEN 0 ELSE Winner(hits(a), hits(b))
------------------------------------------------------------------------------
(* The vectorised forms.  A pool holds the interleavings of one query, padded *)
(* to k positions, with what the method's credit needs; team 0 is A, 1 is B.  *)
NoTeam == -1
NoDoc == -1
Pad(s, k, fill) == [i \in 1 .. k |-> IF i <= Len(s) THEN s[i] ELSE fill]
precompute_team_draft(a, b, k) ==
    {[docs |-> Pad(s.out, k, NoDoc), prob |-> Weight(s, k), coins |-> s.coins,
      teams |-> Pad([i \in DOMAIN s.teams |-> IF s.teams[i] = "A" THEN 0 ELSE 1], k, NoTeam)] :
        s \in enumerate_team_draft(a, b, k)}
precompute_balanced(a, b, k) ==
    {LET out == balanced(a, b, k, aFirst)
         ranks(l) == Pad([i \in DOMAIN out |-> RankIn(l, out[i])], k, Beyond)
     IN  [docs |-> Pad(out, k, NoDoc), prob |-> 1, aFirst |-> aFirst, rankA |-> ranks(a), rankB |-> ranks(b)] :
        aFirst \in BOOLEAN}

team_draft_outcome_batch(teams, clicks) ==
    LET of(t) == Cardinality({i \in DOMAIN clicks : clicks[i] /\ teams[i] = t}) IN Winner(of(0), of(1))
balanced_outcome_batch(rankA, rankB, clicks) ==
    LET last == IF TRUE \in Range(clicks) THEN Max({i \in DOMAIN clicks : clicks[i]}) ELSE Len(clicks)
        kk == Min({rankA[last], rankB[last]})
        hits(rank) == Cardinality({i \in DOMAIN clicks : clicks[i] /\ rank[i] <= kk})
    IN  IF TRUE \in Range(clicks) THEN Winner(hits(rankA), hits(rankB)) ELSE 0

\* probabilistic_sample: what a page may be.  The posterior that A contributed a
\* document is A's share of its weight among the remaining documents of A and of
\* B, in 60ths; weights are 1/rank (the code's tau is 3).
Rest(l, out) == {i \in DOMAIN l : l[i] \notin Range(out)}
SoftShare(l, out, d) ==
    IF d \notin Range(l) THEN 0
    ELSE (3600 * (60 \div RankIn(l, d))) \div MapThenSumSet(LAMBDA i : 60 \div i, Rest(l, out))
Posterior(a, b, out, d) ==
    (Unit * SoftShare(a, out, d)) \div (SoftShare(a, out, d) + SoftShare(b, out, d))
probabilistic_pages(a, b, k) ==
    LET grown(s) == {[out |-> Append(s.out, d), pA |-> Append(s.pA, Posterior(a, b, s.out, d))] :
                        d \in (Range(a) \cup Range(b)) \ Range(s.out)}
        pages[n \in 0 .. k] ==
            IF n = 0 THEN {[out |-> <<>>, pA |-> <<>>]}
            ELSE UNION {IF grown(s) = {} THEN {s} ELSE grown(s) : s \in pages[n - 1]}
    IN  pages[k]
\* probabilistic_marginal_outcome: the distribution of A's lead, position by
\* position, in 60ths of each click's credit; P(A wins) - P(B wins) at the end.
probabilistic_marginal_outcome(pA, clicks) ==
    LET k == Len(pA)
        up(r) == IF clicks[r] THEN pA[r] ELSE 0
        down(r) == IF clicks[r] THEN Unit - pA[r] ELSE 0
        dist[r \in 0 .. k] ==
            IF r = 0 THEN [x \in -k .. k |-> IF x = 0 THEN 1 ELSE 0]
            ELSE LET was == dist[r - 1] IN
                 [x \in -k .. k |-> was[x] * (Unit - up(r) - down(r))
                                    + (IF x > -k THEN was[x - 1] * up(r) ELSE 0)
                                    + (IF x < k THEN was[x + 1] * down(r) ELSE 0)]
    IN  MapThenSumSet(LAMBDA x : dist[k][x], 1 .. k) - MapThenSumSet(LAMBDA x : dist[k][-x], 1 .. k)
------------------------------------------------------------------------------
(* What they promise. *)

Pages(a, b, k) == enumerate_team_draft(a, b, k)
\* The expected outcome of a click model that clicks `clicked(page)`.
Expected(a, b, k, clicked(_)) ==
    MapThenSumSet(LAMBDA s : Weight(s, k) * team_draft_credit(s.teams, clicked(s)), Pages(a, b, k))

\* Every coin sequence is counted once, there are no more of them than the
\* docstring says, pages are full and without duplicates, and no team leads by
\* two before the other's ranking is exhausted.
DraftsWellFormed(a, b, k) ==
    /\ MapThenSumSet(LAMBDA s : Weight(s, k), Pages(a, b, k)) = 2 ^ k
    /\ Cardinality(Pages(a, b, k)) <= 2 ^ ((k + 1) \div 2)
    /\ \A s \in Pages(a, b, k) :
          /\ IsInjective(s.out)
          /\ Len(s.out) = Min({k, Cardinality(Range(a) \cup Range(b))})
          /\ \A n \in 1 .. Len(s.out) :
                LET lead == Drafted(SubSeq(s.teams, 1, n), "A") - Drafted(SubSeq(s.teams, 1, n), "B")
                IN  /\ lead > 1 => Range(b) \subseteq Range(SubSeq(s.out, 1, n - 1))
                    /\ lead < -1 => Range(a) \subseteq Range(SubSeq(s.out, 1, n - 1))
\* Neither side of the comparison is favoured: swapping the rankings swaps the
\* teams of the same pages, one ranking against itself comes out even whatever
\* is clicked, and a user who wants one document never credits the ranking that
\* has it lower.
DraftsFair(a, b, k) ==
    LET mirrored(s) == [s EXCEPT !.teams = [i \in DOMAIN @ |-> IF @[i] = "A" THEN "B" ELSE "A"],
                                 !.coins = [i \in DOMAIN @ |-> ~@[i]]]
        gain(d) == Expected(a, b, k, LAMBDA s : {RankIn(s.out, d)} \ {Beyond})
    IN  /\ Pages(b, a, k) = {mirrored(s) : s \in Pages(a, b, k)}
        /\ a = b => \A c \in SUBSET (1 .. Min({k, Len(a)})) : Expected(a, b, k, LAMBDA s : c) = 0
        /\ \A d \in Range(a) \cup Range(b) :
              /\ RankIn(a, d) < RankIn(b, d) => gain(d) >= 0
              /\ RankIn(b, d) < RankIn(a, d) => gain(d) <= 0

\* A balanced page is, at every length, the union of a beginning of each ranking,
\* the one as long as the other up to one, as far as both go.
BalancedMix(a, b, k) ==
    \A aFirst \in BOOLEAN :
        LET out == balanced(a, b, k, aFirst) IN
        /\ IsInjective(out) /\ Len(out) = Min({k, Cardinality(Range(a) \cup Range(b))})
        /\ \A n \in 1 .. Len(out) : \E i \in 0 .. Len(a), j \in 0 .. Len(b) :
              /\ Range(SubSeq(out, 1, n)) = Range(SubSeq(a, 1, i)) \cup Range(SubSeq(b, 1, j))
              /\ i > j + 1 => j = Len(b)
              /\ j > i + 1 => i = Len(a)

\* The vectorised credit is the scalar one, for every page of the pool and every
\* click pattern on it.
PoolsAgree(pool, a, b, k) ==
    /\ \A e \in pool :
          LET s == CHOOSE t \in Pages(a, b, k) : t.coins = e.coins IN
          \A c \in SUBSET DOMAIN s.out :
              team_draft_outcome_batch(e.teams, [i \in 1 .. k |-> i \in c]) = team_draft_credit(s.teams, c)
    /\ \A e \in precompute_balanced(a, b, k) :
          LET out == balanced(a, b, k, e.aFirst) IN
          \A c \in SUBSET DOMAIN out :
              balanced_outcome_batch(e.rankA, e.rankB, [i \in 1 .. k |-> i \in c])
                  = balanced_credit(a, b, out, c)

\* The marginalised credit is the expectation of the outcome over all teams that
\* may have made the page; it is 0 for a ranking against itself.
ByAssignment(pA, clicks) ==
    LET clicked == {r \in DOMAIN pA : clicks[r]}
        chance(t) == FoldSet(LAMBDA r, acc : acc * (IF t[r] THEN pA[r] ELSE Unit - pA[r]),
                             Unit ^ (Len(pA) - Cardinality(clicked)), clicked)
        side(t, x) == Cardinality({r \in clicked : t[r] = x})
    IN  MapThenSumSet(LAMBDA t : chance(t) * Winner(side(t, TRUE), side(t, FALSE)), [clicked -> BOOLEAN])
MarginalCreditExact(a, b, k) ==
    \A s \in probabilistic_pages(a, b, k) : \A clicks \in [DOMAIN s.pA -> BOOLEAN] :
        /\ probabilistic_marginal_outcome(s.pA, clicks) = ByAssignment(s.pA, clicks)
        /\ a = b => probabilistic_marginal_outcome(s.pA, clicks) = 0
==============================================================================
