---------------------------- MODULE LexicalSearch ----------------------------
(***************************************************************************)
(* The top k of a lexical query (engine/src/lexical/search.cc): exhaustive  *)
(* term at a time, document at a time, MaxScore, WAND and block-max WAND    *)
(* over posting lists cut into blocks, each under a deadline that may pass  *)
(* between any two steps of its loop.                                       *)
(*                                                                          *)
(* A term is the function from the documents it is in to what it adds to    *)
(* their scores, whole numbers here: that a float sum of bounds is one      *)
(* (kBoundSlack) is not modelled.  A query is the sequence of its distinct  *)
(* known terms.  Bounds are exact (slack 0) or, when a query has other      *)
(* parameters than the index was built for, loose by slack.                 *)
(***************************************************************************)
EXTENDS Integers, SequencesExt

\* LexicalQueries: records of terms, k, algorithm, slack, and limited, whether
\* there is a deadline.  BlockSize: kBlockSize.
CONSTANTS LexicalQueries, BlockSize
ASSUME LexicalAssumption ==
    /\ BlockSize \in Nat \ {0}
    /\ \A q \in LexicalQueries :
          /\ Len(q.terms) \in Nat /\ DOMAIN q.terms = 1 .. Len(q.terms)
          /\ q.k \in Nat /\ q.slack \in Nat
          /\ q.algorithm \in {"exhaustive", "daat", "maxscore", "wand", "bmw"}
          /\ \A t \in DOMAIN q.terms :
                /\ DOMAIN q.terms[t] \in (SUBSET Nat) \ {{}}
                /\ \A d \in DOMAIN q.terms[t] : q.terms[t][d] \in Nat
    /\ IsFiniteSet(UNION {UNION {DOMAIN c : c \in Range(q.terms)} : q \in LexicalQueries})

VARIABLES
    query,      \* the query
    at,         \* Cursor.doc_ of each term; exhaustive: postings added so far
    block,      \* Cursor.blk_ of each term, counted from 0
    order,      \* WAND: the terms, by current document; MaxScore: by bound
    essential,  \* MaxScore: first_essential, counted from 1
    top,        \* the heap: sets of [doc, score]
    cut,    \* the deadline has cut the search short
    searching   \* the loop is still running

lexicalVars == <<query, at, block, order, essential, top, cut, searching>>

Terms == DOMAIN query.terms
Docs(t) == DOMAIN query.terms[t]
Matching == UNION {Docs(t) : t \in Terms}
End == 1 + Max({0} \cup UNION {UNION {DOMAIN c : c \in Range(q.terms)} : q \in LexicalQueries})

------------------------------------------------------------------------------
(* Scores, bounds and the heap (topk.hpp). *)

Adds(t, d) == IF d \in Docs(t) THEN query.terms[t][d] ELSE 0
\* What the terms of a set add to d together.
Total(d, terms) == SumFunctionOnSet([t \in Terms |-> Adds(t, d)], terms)
Score(d) == Total(d, Terms)
\* Scorer.bound of the whole list, and of its block b (none: past the end).
Bound(t) == Max(Range(query.terms[t])) + query.slack
Number(t, d) == Cardinality({e \in Docs(t) : e < d})
BlockDocs(t, b) == {d \in Docs(t) : Number(t, d) \div BlockSize = b}
BlockBound(t, b) == IF BlockDocs(t, b) = {} THEN 0
                    ELSE Max({query.terms[t][d] : d \in BlockDocs(t, b)}) + query.slack
BlockLast(t, b) == IF BlockDocs(t, b) = {} THEN End - 1 ELSE Max(BlockDocs(t, b))

ranks_before(h, i) == h.score > i.score \/ (h.score = i.score /\ h.doc < i.doc)
Full(heap) == Cardinality(heap) >= query.k
Worst(heap) == CHOOSE h \in heap : \A i \in heap \ {h} : ranks_before(i, h)
push(heap, hit) ==
    IF ~Full(heap) THEN heap \cup {hit}
    ELSE IF ranks_before(hit, Worst(heap)) THEN (heap \ {Worst(heap)}) \cup {hit} ELSE heap
cannot_beat(sum) == Full(top) /\ sum <= Worst(top).score

------------------------------------------------------------------------------
(* Cursors. *)

Geq(t, d, from) == Min({End} \cup {e \in Docs(t) : e >= d /\ Number(t, e) \div BlockSize >= from})
\* find_block: from block b on, the first whose last document is not before d.
find_block(t, b, d) == IF Geq(t, d, 0) = End THEN (Cardinality(Docs(t)) + BlockSize - 1) \div BlockSize
                       ELSE Max({b, Number(t, Geq(t, d, 0)) \div BlockSize})
\* next_geq looks from the block pointer on, even where that is too far.
next_geq(t, d) == IF at[t] >= d THEN at[t] ELSE Geq(t, d, block[t])
NextDoc(t) == Geq(t, at[t] + 1, 0)
\* The block pointer, on block b, after the cursor moved to d: it follows where
\* another block is decoded.
Pointer(t, b, d) == IF d = End \/ Number(t, d) \div BlockSize = Number(t, at[t]) \div BlockSize THEN b
                    ELSE Number(t, d) \div BlockSize
MoveTo(to) == at' = to /\ block' = [t \in Terms |-> Pointer(t, block[t], to[t])]

------------------------------------------------------------------------------
\* A stable sort: the i-th of the terms has i - 1 before it.
InOrder(before) ==
    [i \in 1 .. Len(query.terms) |->
        CHOOSE t \in Terms : Cardinality({u \in Terms : <<u, t>> \in before}) = i - 1]
\* sort_by_doc.
Place(t) == CHOOSE i \in DOMAIN order : order[i] = t
ByDoc(to) == InOrder({p \in Terms \X Terms : \/ to[p[1]] < to[p[2]]
                                             \/ to[p[1]] = to[p[2]] /\ Place(p[1]) < Place(p[2])})
\* The first sort_by_doc, and MaxScore's ord: by bound.
Ascending(key) == InOrder({p \in Terms \X Terms : \/ key[p[1]] < key[p[2]]
                                                  \/ key[p[1]] = key[p[2]] /\ p[1] < p[2]})
FirstDocs == [t \in Terms |-> Min(Docs(t))]

LexicalInit ==
    /\ query \in LexicalQueries
    /\ at = IF query.algorithm = "exhaustive" THEN [t \in Terms |-> 0] ELSE FirstDocs
    /\ block = [t \in Terms |-> 0]
    /\ order = IF query.algorithm \in {"wand", "bmw"} THEN Ascending(FirstDocs)
               ELSE IF query.algorithm = "maxscore" THEN Ascending([t \in Terms |-> Bound(t)]) ELSE <<>>
    /\ essential = 1
    /\ top = {} /\ cut = FALSE
    /\ searching = (Terms # {} /\ query.k > 0)

\* No query at all.
IdleLexical ==
    /\ query = [terms |-> <<>>, k |-> 0, algorithm |-> "daat", slack |-> 0, limited |-> FALSE]
    /\ at = <<>> /\ block = <<>> /\ order = <<>> /\ essential = 1
    /\ top = {} /\ cut = FALSE /\ searching = FALSE

\* Where the loop looks at the clock, it may find the deadline passed.
Cut ==
    /\ searching /\ query.limited
    /\ searching' = FALSE /\ cut' = TRUE

Finish == searching' = FALSE /\ UNCHANGED cut
GoesOn == UNCHANGED <<searching, cut>>

------------------------------------------------------------------------------
(* run_exhaustive: a block of one term per step; the heap is filled once, from *)
(* whatever has been added up.                                                 *)

Added(d, t) == IF d \in Docs(t) /\ Number(t, d) < at[t] THEN query.terms[t][d] ELSE 0
Touched == {d \in Matching : \E t \in Terms : d \in Docs(t) /\ Number(t, d) < at[t]}
Sums == {[doc |-> d, score |-> SumFunction([t \in Terms |-> Added(d, t)])] : d \in Touched}
Best(k, all) == {h \in all : Cardinality({i \in all : ranks_before(i, h)}) < k}
Left == {t \in Terms : at[t] < Cardinality(Docs(t))}

ExhaustiveStep ==
    /\ searching /\ query.algorithm = "exhaustive"
    /\ UNCHANGED <<query, block, order, essential>>
    /\ \/ /\ Left # {}
          /\ LET t == Min(Left)
             IN  at' = [at EXCEPT ![t] = Min({@ + BlockSize, Cardinality(Docs(t))})]
          /\ GoesOn /\ UNCHANGED top
       \/ /\ Left # {} /\ Cut
          /\ top' = Best(query.k, Sums) /\ UNCHANGED at
       \/ /\ Left = {} /\ Finish
          /\ top' = Best(query.k, Sums) /\ UNCHANGED at

------------------------------------------------------------------------------
(* run_daat: the next document of any list is scored. *)

DaatStep ==
    /\ searching /\ query.algorithm = "daat"
    /\ UNCHANGED <<query, order, essential>>
    /\ LET d == Min(Range(at))
           hits == {t \in Terms : at[t] = d}
       IN  \/ /\ d = End /\ Finish /\ UNCHANGED <<at, block, top>>
           \/ /\ d # End /\ Cut /\ UNCHANGED <<at, block, top>>
           \/ /\ d # End /\ GoesOn
              /\ top' = push(top, [doc |-> d, score |-> Total(d, hits)])
              /\ MoveTo([t \in Terms |-> IF t \in hits THEN NextDoc(t) ELSE at[t]])

------------------------------------------------------------------------------
(* run_maxscore: lists before first_essential, which alone cannot beat the heap, *)
(* are looked up only for documents of the others.                              *)

\* prefix[i]: the i smallest bounds together.
Prefix(i) == SumFunctionOnSet([j \in DOMAIN order |-> Bound(order[j])], 1 .. i)
\* What the lists from the (i+1)th on add to d, found by next_geq.
Above(i, d) ==
    SumFunctionOnSet([j \in DOMAIN order |-> IF next_geq(order[j], d) = d THEN Adds(order[j], d) ELSE 0],
                     i + 1 .. Len(order))
\* The list at which d is given up, 0 for none: the lists above it are read.
PrunedAt(d) == Max({0} \cup {i \in 1 .. essential - 1 : cannot_beat(Above(i, d) + Prefix(i))})
NextEssential == Min({End} \cup {at[order[i]] : i \in essential .. Len(order)})

MaxScoreDoc(d, given) ==
    /\ GoesOn
    /\ MoveTo([t \in Terms |-> IF Place(t) >= essential THEN IF at[t] = d THEN NextDoc(t) ELSE at[t]
                             ELSE IF Place(t) > given THEN next_geq(t, d) ELSE at[t]])
    /\ top' = IF given > 0 THEN top ELSE push(top, [doc |-> d, score |-> Above(0, d)])

\* update_partition, when the document got in.
Repartition ==
    essential' = IF top' = top \/ ~Full(top') THEN essential
                 ELSE Max({essential} \cup {i + 1 : i \in {j \in 1 .. Len(order) : Prefix(j) <= Worst(top').score}})

MaxScoreStep ==
    /\ searching /\ query.algorithm = "maxscore"
    /\ UNCHANGED <<query, order>>
    /\ \/ /\ NextEssential = End /\ Finish
          /\ UNCHANGED <<at, block, essential, top>>
       \/ /\ NextEssential # End /\ Cut
          /\ UNCHANGED <<at, block, essential, top>>
       \/ /\ NextEssential # End
          /\ MaxScoreDoc(NextEssential, PrunedAt(NextEssential))
          /\ Repartition

------------------------------------------------------------------------------
(* run_wand: no document before the pivot can get in. *)

\* The first list at which the bounds so far could beat the heap.
Could == {i \in DOMAIN order : /\ at[order[i]] # End
                               /\ ~cannot_beat(Prefix(i))}
PivotDoc == at[order[Min(Could)]]
\* p, with the lists that stand on the same document.
Pivot == Max({i \in DOMAIN order : at[order[i]] = PivotDoc})

\* shallow_next of the lists up to p, and what their blocks could add together.
Shallow(p) == [t \in Terms |-> IF Place(t) <= p THEN find_block(t, block[t], PivotDoc) ELSE block[t]]
BlockSum(p, to) == SumFunctionOnSet([j \in DOMAIN order |-> BlockBound(order[j], to[order[j]])], 1 .. p)

\* Where nothing can get in before: past the first block boundary, and not past
\* the next list.  Faulty variant of SkipTo: the next list is forgotten.
SkipToBoundary(p, to) == Max({PivotDoc + 1, Min({1 + BlockLast(order[j], to[order[j]]) : j \in 1 .. p})})
SkipTo(p, to) ==
    LET next == {1 + BlockLast(order[j], to[order[j]]) : j \in 1 .. p}
                \cup {at[order[j]] : j \in {i \in DOMAIN order : i = p + 1}}
    IN  Max({PivotDoc + 1, Min(next)})
\* The list with the largest bound moves: the first of those above list p's.
Advanced(p) ==
    LET larger == {i \in 1 .. p : Bound(order[i]) > Bound(order[p])}
        largest == {i \in larger : \A j \in larger : Bound(order[j]) <= Bound(order[i])}
    IN  IF larger = {} THEN p ELSE Min(largest)

WandEnd == Could = {} /\ Finish /\ UNCHANGED <<at, block, order, top>>

Skips(p, to) == query.algorithm = "bmw" /\ cannot_beat(BlockSum(p, to))

\* A list moves on to d, from the block its pointer has been moved to.
Advance(t, d, to) ==
    /\ at' = [at EXCEPT ![t] = Geq(t, d, to[t])]
    /\ block' = [to EXCEPT ![t] = IF Geq(t, d, to[t]) = End THEN @
                                  ELSE Number(t, Geq(t, d, to[t])) \div BlockSize]
    /\ order' = ByDoc(at') /\ UNCHANGED top

WandSkip(p, to) == Skips(p, to) /\ Advance(order[Advanced(p)], SkipTo(p, to), to)

WandScore(p, to) ==
    LET hits == {order[i] : i \in 1 .. p}
    IN  /\ ~Skips(p, to) /\ at[order[1]] = PivotDoc
        /\ top' = push(top, [doc |-> PivotDoc,
                             score |-> Total(PivotDoc, hits)])
        /\ at' = [t \in Terms |-> IF t \in hits THEN NextDoc(t) ELSE at[t]]
        /\ block' = [t \in Terms |-> Pointer(t, to[t], at'[t])]
        /\ order' = ByDoc(at')

\* The last list before the pivot's comes up to it.
WandAdvance(p, to) ==
    LET behind == {i \in 1 .. p : at[order[i]] # PivotDoc}
    IN  ~Skips(p, to) /\ at[order[1]] # PivotDoc /\ Advance(order[Max(behind)], PivotDoc, to)

WandStep ==
    /\ searching /\ query.algorithm \in {"wand", "bmw"}
    /\ UNCHANGED <<query, essential>>
    /\ \/ Cut /\ UNCHANGED <<at, block, order, top>>
       \/ WandEnd
       \/ /\ Could # {} /\ GoesOn
          /\ LET p == Pivot
                 to == IF query.algorithm = "bmw" THEN Shallow(p) ELSE block
             IN  WandSkip(p, to) \/ WandScore(p, to) \/ WandAdvance(p, to)

LexicalNext == ExhaustiveStep \/ DaatStep \/ MaxScoreStep \/ WandStep
LexicalSpec == LexicalInit /\ [][LexicalNext]_lexicalVars

------------------------------------------------------------------------------
\* Whatever is skipped, the heap holds, after every step and so after a cut, the
\* best k of all documents that a list has passed, with their whole scores; a
\* search that is not reported partial has the best k of all (search.cc
\* "Score definition shared by every algorithm (so their top-k agree bit for
\* bit)", "Pruning safety").  Exhaustive search adds up term by term, so only
\* what it returns uncut is compared.
Scores(docs) == {[doc |-> d, score |-> Score(d)] : d \in docs}
Passed == {d \in Matching : \E t \in Terms : d \in Docs(t) /\ at[t] > d}
PrunedSearchIsExact ==
    /\ query.algorithm # "exhaustive" => top = Best(query.k, Scores(Passed))
    /\ ~searching /\ ~cut => top = Best(query.k, Scores(Matching))
==============================================================================
